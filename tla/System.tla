------------------------------- MODULE System -------------------------------
(***************************************************************************)
(* The running program: main loads the tables into the gateway's queues    *)
(* and starts the gateway thread and the database thread, which then run   *)
(* concurrently and call each other through the queues.  Around them: the  *)
(* clock, an administrator who edits the tables while the program runs,    *)
(* and crashes after which the program is started again on the same        *)
(* tables.                                                                 *)
(***************************************************************************)
EXTENDS Gateway, Database, FiniteSets

CONSTANTS SiteIP,           \* addresses that static_ip may hold
          Machines,         \* MACs that may be registered
          InitAccess,       \* values of user.accessed at the start
          StartTime,        \* the clock at the start
          MaxTime,          \* bound: the clock
          AdminOps,         \* the edits the administrator makes
          Crashes           \* whether the process may be killed

ASSUME SystemAssumption ==
    /\ IsFiniteSet(IP) /\ IsFiniteSet(MAC)
    /\ SiteIP \subseteq IP /\ Machines \subseteq MAC
    /\ StartTime \in Nat /\ MaxTime \in Nat
    /\ InitAccess \subseteq 0 .. StartTime
    /\ AdminOps \subseteq {"addUser", "removeUser", "assignIP", "addIP", "removeIP"}
    /\ Crashes \in BOOLEAN

(* create_dhcp subtracts a lease from the clock in uint64_t.               *)
ASSUME ClockAssumption == DHCP_TIMEOUT <= StartTime

VARIABLE lastSent           \* history: when the user the gateway has for an
                            \* address last sent a frame outside

queues == <<toGateway, toDatabase, granted>>

vars == <<proc, now, queues, gatewayVars, tables, databaseLocals, lastSent>>

(* Type invariant.                                                         *)
TypeOK == /\ QueueTypeOK /\ GatewayTypeOK /\ DatabaseTypeOK
          /\ lastSent \in [IP -> Nat]
-----------------------------------------------------------------------------
Empty == /\ staticIPAddRequest = <<>> /\ userAddRequest = <<>>
         /\ userDelRequest = <<>> /\ sendPacketRequestQueue = <<>>
         /\ createDHCPRequestQueue = <<>> /\ updateTimeQueue = <<>>

EmptyNext == /\ staticIPAddRequest' = <<>> /\ userAddRequest' = <<>>
             /\ userDelRequest' = <<>> /\ sendPacketRequestQueue' = <<>>
             /\ createDHCPRequestQueue' = <<>> /\ updateTimeQueue' = <<>>

(* No two registered machines have the same address in table user.         *)
NoSharedIP == \A m, k \in MAC : userIP[m] = userIP[k] /\ userIP[m] # NoIP => m = k

(* Tables an administrator and earlier runs of the program may have left.  *)
TablesInit ==
    /\ static_ip = SiteIP
    /\ registered \in SUBSET Machines
    /\ \E f \in [Machines -> SiteIP \cup {NoIP}] :
           userIP = [m \in MAC |-> IF m \in registered THEN f[m] ELSE NoIP]
    /\ \E f \in [Machines -> InitAccess] :
           accessed = [m \in MAC |-> IF m \in registered THEN f[m] ELSE 0]
    /\ NoSharedIP

Init == /\ proc = "loadIP"
        /\ now = StartTime
        /\ Empty
        /\ granted = [ip \in IP |-> NoMAC]
        /\ lastSent = [ip \in IP |-> 0]
        /\ GatewayInit(StartTime)
        /\ DatabaseInit
        /\ TablesInit
-----------------------------------------------------------------------------
(* main, before the threads exist.                                         *)

(* The orders in which a query may return the rows S.                      *)
Listings(S) == {q \in [1 .. Cardinality(S) -> S] :
                   \A i, j \in DOMAIN q : q[i] = q[j] => i = j}

(* getAllStaticIP, then addStaticIP for every row.                         *)
LoadStaticIP ==
    /\ proc = "loadIP"
    /\ \E q \in Listings({[ip |-> ip, mac |-> StaticMAC[ip]] : ip \in static_ip}) :
           staticIPAddRequest' = q
    /\ proc' = "loadUser"
    /\ UNCHANGED <<now, userAddRequest, userDelRequest, sendPacketRequestQueue,
                   toDatabase, granted, gatewayVars, tables, databaseLocals,
                   lastSent>>

(* getAllUser, then addUserInfo for every row; then both threads start.    *)
LoadUser ==
    /\ proc = "loadUser"
    /\ \E q \in Listings({[ip |-> userIP[m], user_mac |-> m,
                           last_access |-> accessed[m]] :
                              m \in {k \in registered : userIP[k] # NoIP}}) :
           /\ userAddRequest' = q
           /\ granted' = [ip \in IP |-> IF For(q, ip) = {} THEN NoMAC
                                        ELSE LastFor(q, ip).user_mac]
    /\ proc' = "serve"
    /\ current_time' = now
    /\ UNCHANGED <<now, staticIPAddRequest, userDelRequest, sendPacketRequestQueue,
                   toDatabase, staticIPMap, userMap, gpc, burst, ready, wire,
                   tables, databaseLocals, lastSent>>
-----------------------------------------------------------------------------
(* The two threads.                                                        *)

(* This step sends a frame of the gateway's user of address ip outside.    *)
Sends(ip) == /\ wire' # <<>>
             /\ wire'[1].dev = "out"
             /\ Addressed(wire'[1].frame)
             /\ wire'[1].frame.src = ip
             /\ hasUser(ip)

SameUser(ip) == hasUser(ip) /\ hasUser(ip)'
                    /\ userMap[ip].user_mac = userMap'[ip].user_mac

GatewayStep == /\ GatewayNext
               /\ lastSent' = [ip \in IP |-> IF Sends(ip) THEN current_time
                                             ELSE IF SameUser(ip) THEN lastSent[ip]
                                             ELSE 0]
               /\ UNCHANGED <<tables, databaseLocals>>

DatabaseStep == /\ DatabaseNext
                /\ wire' = <<>>
                /\ UNCHANGED <<staticIPMap, userMap, gpc, burst, current_time,
                               ready, lastSent>>
-----------------------------------------------------------------------------
(* Around the program.                                                     *)

Tick == /\ now < MaxTime
        /\ now' = now + 1
        /\ UNCHANGED <<proc, queues, gatewayVars, tables, databaseLocals, lastSent>>

(* What the process holds in memory is lost when it ends.                  *)
MemoryLost == /\ EmptyNext
              /\ granted' = [ip \in IP |-> NoMAC]
              /\ lastSent' = [ip \in IP |-> 0]
              /\ GatewayReset(now)
              /\ DatabaseReset
              /\ UNCHANGED <<now, tables>>

(* The process is killed, or the machine it runs on fails.                 *)
Kill == /\ Crashes
        /\ proc # "down"
        /\ proc' = "down"
        /\ MemoryLost

(* Started again, on the tables as they are.                               *)
Restart == /\ proc = "down"
           /\ proc' = "loadIP"
           /\ MemoryLost

Edit(op) == /\ op \in AdminOps
            /\ UNCHANGED <<proc, now, queues, gatewayVars, databaseLocals, lastSent>>

AddUser == /\ Edit("addUser")
           /\ \E m \in Machines \ registered : registered' = registered \cup {m}
           /\ UNCHANGED <<static_ip, userIP, accessed>>

RemoveUser == /\ Edit("removeUser")
              /\ \E m \in registered :
                     /\ registered' = registered \ {m}
                     /\ userIP' = [userIP EXCEPT ![m] = NoIP]
                     /\ accessed' = [accessed EXCEPT ![m] = 0]
              /\ UNCHANGED static_ip

(* A fixed address that nobody has, outside the dynamic pool.              *)
AssignIP == /\ Edit("assignIP")
            /\ \E m \in registered, ip \in static_ip \ Dynamic :
                   /\ \A k \in registered : userIP[k] # ip
                   /\ userIP' = [userIP EXCEPT ![m] = ip]
            /\ UNCHANGED <<static_ip, registered, accessed>>

AddIP == /\ Edit("addIP")
         /\ \E ip \in SiteIP \ static_ip : static_ip' = static_ip \cup {ip}
         /\ UNCHANGED <<registered, userIP, accessed>>

(* ON DELETE SET NULL.                                                     *)
RemoveIP == /\ Edit("removeIP")
            /\ \E ip \in static_ip :
                   /\ static_ip' = static_ip \ {ip}
                   /\ userIP' = [m \in MAC |-> IF userIP[m] = ip THEN NoIP
                                               ELSE userIP[m]]
            /\ UNCHANGED <<registered, accessed>>

Environment == \/ Tick \/ Kill \/ Restart
               \/ AddUser \/ RemoveUser \/ AssignIP \/ AddIP \/ RemoveIP

Next == LoadStaticIP \/ LoadUser \/ GatewayStep \/ DatabaseStep \/ Environment

Spec == Init /\ [][Next]_vars

(* main runs on to the start of the threads and the kernel runs both       *)
(* threads; the serve loop never blocks, the database thread only while    *)
(* nothing is queued for it.                                               *)
Fairness == /\ WF_vars(LoadStaticIP \/ LoadUser)
            /\ WF_vars(GatewayStep)
            /\ WF_vars(DatabaseStep)

FairSpec == Spec /\ Fairness
-----------------------------------------------------------------------------
(* A machine without a row has no address.                                 *)
NoRowNoIP == \A m \in MAC \ registered : userIP[m] = NoIP

(* Between the statement that finds an address and the one that writes it, *)
(* nobody but the machine that asks has the address.                       *)
CandReserved == dpc = "insert" => \A m \in MAC : userIP[m] = cand => m = request.mac

(* The inductive invariant behind NoSharedIP, besides TypeOK; it needs an  *)
(* administrator who leaves the assignment of addresses to the program.    *)
LeaseInv == NoSharedIP /\ NoRowNoIP /\ CandReserved

(* What the system does to the tables is what an address pool may do:      *)
(* however the statements of a request are interrupted, an address goes    *)
(* only to a registered machine that has none and only while nobody holds  *)
(* it, is taken only from a dynamic holder that was idle for a lease when  *)
(* it lost it (database.cpp:201-268), and access times only move forward   *)
(* (database.cpp:149-160).                                                 *)
Pool == INSTANCE AddressPool

PoolSpec == Pool!Spec

(* user.ip is a foreign key into static_ip.                                *)
ForeignKey == \A m \in MAC : userIP[m] \in static_ip \cup {NoIP}

(* Until its address is written, a machine that asks has none, or the one  *)
(* that was found.                                                         *)
StillWithout ==
    /\ dpc \in {"unused", "using", "release"} => userIP[request.mac] = NoIP
    /\ dpc = "insert" => userIP[request.mac] \in {NoIP, cand}

(* The address about to be released is dynamic and its holder, if it still *)
(* has one, has been idle for a lease.                                     *)
HolderIdle ==
    dpc = "release" => /\ cand \in Dynamic
                       /\ \A m \in MAC : userIP[m] = cand
                                             => accessed[m] + DHCP_TIMEOUT < now

(* Access times reach the table in the order in which they were taken, and *)
(* those on their way are no older than what the table has.                *)
Ascending(q) == \A i, j \in DOMAIN q : i <= j => q[i].UTC <= q[j].UTC

LaterThanTable(q) == \A i \in DOMAIN q : /\ q[i].UTC <= current_time
                                         /\ \A m \in MAC : accessed[m] <= q[i].UTC

TimesInOrder ==
    /\ current_time <= now
    /\ \A m \in MAC : accessed[m] <= current_time
    /\ Ascending(updates) /\ Ascending(updateTimeQueue)
    /\ LaterThanTable(updates) /\ LaterThanTable(updateTimeQueue)
    /\ \A i \in DOMAIN updates, j \in DOMAIN updateTimeQueue :
           updates[i].UTC <= updateTimeQueue[j].UTC

(* With TypeOK and LeaseInv, the inductive invariant behind PoolSpec.      *)
PoolInv == ForeignKey /\ StillWithout /\ HolderIdle /\ TimesInOrder

(* An access time of machine m is on its way to the database, or the user  *)
(* of address ip is about to be removed from the gateway.                  *)
UpdatePending(m) ==
    \/ \E i \in DOMAIN updateTimeQueue : updateTimeQueue[i].mac = m
    \/ \E i \in DOMAIN updates : updates[i].mac = m

DeletePending(ip) == \E i \in DOMAIN userDelRequest : userDelRequest[i] = ip

(* The access time the gateway throttles by (last_access, gateway.cpp:537) *)
(* never runs ahead of what the database knows, unless the update or the   *)
(* removal that a failed update causes is still queued: an update that is  *)
(* lost while the gateway believes it recorded would let create_dhcp       *)
(* reclaim the address of an active user.                                  *)
AccessRecorded ==
    \A ip \in IP :
        hasUser(ip) => LET u == userMap[ip] IN
            u.user_mac \in registered /\ u.last_access > accessed[u.user_mac]
                => UpdatePending(u.user_mac) \/ DeletePending(ip)

(* "release used IP" (database.cpp:226): create_dhcp takes an address from *)
(* a machine only if that machine has sent nothing outside for a lease,    *)
(* give or take the throttle of the access times, unless a newer access    *)
(* time is still queued for the database.                                  *)
ReclaimOnlyIdle ==
    [][\A m \in MAC :
           /\ dpc = "release" /\ dpc' = "insert"
           /\ userIP[m] = cand
           /\ hasUser(cand) /\ userMap[cand].user_mac = m
           => \/ lastSent[cand] + DHCP_TIMEOUT < now + Timeout
              \/ UpdatePending(m)
              \/ DeletePending(cand)]_vars

(* Of the user of address ip, the database knows an access time that is at *)
(* most slack before t, or it is on its way, or the user is about to be    *)
(* removed from the gateway, or the user's row was deleted.                *)
Carries(q, ip, t, slack) ==
    \E i \in DOMAIN q : /\ q[i].ip = ip /\ q[i].mac = userMap[ip].user_mac
                        /\ t <= q[i].UTC + slack

Forgotten(m) == m \notin registered /\ "removeUser" \in AdminOps

Recorded(ip, t, slack) == \/ t <= accessed[userMap[ip].user_mac] + slack
                          \/ Carries(updateTimeQueue, ip, t, slack)
                          \/ Carries(updates, ip, t, slack)
                          \/ DeletePending(ip)
                          \/ Forgotten(userMap[ip].user_mac)

(* What the gateway throttles by is recorded, and what a user has sent is  *)
(* recorded up to the throttle.                                            *)
UsersRecorded ==
    \A ip \in IP : hasUser(ip) => /\ Recorded(ip, userMap[ip].last_access, 0)
                                  /\ Recorded(ip, lastSent[ip], Timeout)

(* A queued grant brings no access time the database does not have.        *)
GrantsRecorded ==
    \A i \in DOMAIN userAddRequest :
        LET u == userAddRequest[i] IN
        u.last_access <= accessed[u.user_mac] \/ Forgotten(u.user_mac)

(* Only update_time has access times in hand.                              *)
NoUpdates == dpc # "update" => updates = <<>>

(* With TypeOK, GrantInv and TimesInOrder, the inductive invariant behind  *)
(* AccessRecorded and ReclaimOnlyIdle, for an administrator who does not   *)
(* bring back a machine whose row was deleted.                             *)
AccessInv == UsersRecorded /\ GrantsRecorded /\ NoUpdates

(* The user the gateway holds for an address is the last one addUserInfo   *)
(* was called with, up to the calls still queued (gateway.cpp:105-120).    *)
OwnerIsLatest ==
    \A ip \in IP : hasUser(ip) /\ For(userAddRequest, ip) = {}
                       => userMap[ip].user_mac = granted[ip]

(* The last of the queued grants of an address is the last one made.       *)
QueuedIsLatest ==
    \A ip \in IP : For(userAddRequest, ip) # {}
                       => LastFor(userAddRequest, ip).user_mac = granted[ip]

(* The gateway's map is empty until its thread runs.                       *)
Loading == proc \in {"loadIP", "loadUser"}

EmptyWhileLoading == Loading => \A ip \in IP : ~hasUser(ip)

(* The inductive invariant behind OwnerIsLatest, besides TypeOK.           *)
GrantInv == OwnerIsLatest /\ QueuedIsLatest /\ EmptyWhileLoading

(* The frame of entry w bears a site address as its sender or receiver and *)
(* the machine behind it is the one the address was granted to last, or    *)
(* the grant to another one is still on its way to the gateway.            *)
ByOwner(ip, m) == m = granted[ip] \/ For(userAddRequest, ip) # {}

(* What crosses the gateway under a site address (staticIPMap): out, only  *)
(* frames of the machine the address was granted to, under the static MAC  *)
(* of the address; in, IP packets only to that machine, none that claims a *)
(* site address as its source.                                             *)
CrossingByOwner ==
    \A i \in DOMAIN wire :
        LET w == wire[i] IN
        /\ w.dev = "out" /\ Addressed(w.frame) /\ isStatic(w.frame.src)
               => /\ ByOwner(w.frame.src, w.by)
                  /\ w.frame.smac = staticIPMap[w.frame.src]
        /\ w.dev = "in" /\ Addressed(w.frame)
               => /\ ~isStatic(w.frame.src)
                  /\ IsIP(w.frame) /\ isStatic(w.frame.dst)
                         => ByOwner(w.frame.dst, w.frame.dmac)

(* What the database asks the gateway to send is a DHCP reply, and nothing *)
(* is sent before the gateway's thread runs.                               *)
RepliesOnly ==
    \A i \in DOMAIN sendPacketRequestQueue :
        sendPacketRequestQueue[i].type \in {"offer", "ack"}

SilentWhileLoading == Loading => wire = <<>>

(* With TypeOK and GrantInv, the inductive invariant behind                *)
(* CrossingByOwner.                                                        *)
CrossingInv == CrossingByOwner /\ RepliesOnly /\ SilentWhileLoading

(* While frames are handled, every user's address has its static MAC:      *)
(* srcIter, which serve dereferences without a test (gateway.cpp:443-444,  *)
(* 527), is never end().                                                   *)
SrcIterValid ==
    proc = "serve" /\ gpc \in {"in", "out"}
        => \A ip \in IP : hasUser(ip) => isStatic(ip)

(* The gateway has a static MAC for the address, or it waits in the queue  *)
(* that main filled.                                                       *)
Known(ip) == isStatic(ip) \/ For(staticIPAddRequest, ip) # {}

(* Once the table static_ip has been loaded, the gateway knows every       *)
(* address in it.                                                          *)
TableKnown == proc \in {"loadUser", "serve"} => \A ip \in static_ip : Known(ip)

UsersKnown == proc = "serve" =>
                  \A ip \in IP : hasUser(ip) \/ For(userAddRequest, ip) # {} => Known(ip)

(* What main queued is carried out in the first turn of the event loop.    *)
StaticFirst == proc = "serve" /\ gpc = "dispatch" /\ staticIPAddRequest # <<>>
                   => "addStaticIP" \in ready

AtTopWhileLoading == Loading => gpc = "in"

(* With TypeOK, GrantInv and ForeignKey, the inductive invariant behind    *)
(* SrcIterValid, for an administrator who adds no address while the        *)
(* program runs.                                                           *)
StaticInv == /\ SrcIterValid /\ TableKnown /\ UsersKnown /\ StaticFirst
             /\ AtTopWhileLoading

(* Whoever asks gets an answer: a DHCP message a registered machine sent   *)
(* is eventually answered by an offer or an acknowledgement on the inside  *)
(* device.                                                                 *)
Asked(m) == \E i \in DOMAIN createDHCPRequestQueue : createDHCPRequestQueue[i].mac = m

Answered(m) == \E i \in DOMAIN wire : /\ wire[i].dev = "in"
                                      /\ wire[i].frame.type \in {"offer", "ack"}
                                      /\ wire[i].frame.dmac = m

DHCPAnswered == \A m \in Machines : Asked(m) /\ m \in registered ~> Answered(m)

(* A grant queued for the gateway is carried out: the user ends up in      *)
(* userMap.                                                                *)
GrantInstalled ==
    \A m \in Machines, ip \in SiteIP :
        (\E i \in DOMAIN userAddRequest : /\ userAddRequest[i].ip = ip
                                          /\ userAddRequest[i].user_mac = m)
            ~> (hasUser(ip) /\ userMap[ip].user_mac = m)
-----------------------------------------------------------------------------
(* What the source says and the code does not keep.                        *)

(* The reply promises a lease (dhcp.cpp:105, "IP Address Lease Time"): an  *)
(* acknowledgement that has not even been sent yet names an address that   *)
(* table user still gives to its receiver.                                 *)
LeaseHonoured ==
    \A i \in DOMAIN sendPacketRequestQueue :
        LET p == sendPacketRequestQueue[i] IN
        p.type = "ack" /\ p.dmac \in registered => userIP[p.dmac] = p.dst

(* "User removed from the database" (database.cpp:167): what del_user      *)
(* removes from the gateway is the user whose row is gone, not another one *)
(* that has the address by now.                                            *)
RemovedUserIsGone ==
    [][\A ip \in IP : /\ "delUser" \in ready \ ready'
                      /\ hasUser(ip) /\ ~hasUser(ip)'
                      => userMap[ip].user_mac \notin registered]_vars

(* "we don't have static IP anymore" (gateway.cpp:621, 682): a user whose  *)
(* address has no static MAC is dropped from the map and the gateway goes  *)
(* on; no frame ends the process.                                          *)
FramesSurvived == [][burst' > burst => proc' = proc]_vars

(* "unauthorized user is using our ip" (gateway.cpp:449): a frame under an *)
(* address of table static_ip goes out only for the machine the address    *)
(* was granted to.                                                         *)
OurIPGuarded ==
    \A i \in DOMAIN wire :
        LET w == wire[i] IN
        w.dev = "out" /\ Addressed(w.frame) /\ w.frame.src \in static_ip
            => ByOwner(w.frame.src, w.by)
=============================================================================
