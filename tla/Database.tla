------------------------------ MODULE Database ------------------------------
(***************************************************************************)
(* The database thread: the handlers update_time and create_dhcp that the  *)
(* event loop of Database::serve calls, and the two MySQL tables they work *)
(* on.  The handlers run no transaction: every prepared statement takes    *)
(* effect on its own, so that an administrator's edit, a frame or a crash  *)
(* may fall between two statements of the same request.                    *)
(*                                                                         *)
(* Table static_ip (key ip) holds the addresses of the site, with the MAC  *)
(* the outside knows each one by and a flag for the dynamic pool; table    *)
(* user (unique mac) holds the registered machines, the address each one   *)
(* has (a foreign key into static_ip, NULL for none) and its last access.  *)
(***************************************************************************)
EXTENDS Shared

CONSTANTS StaticMAC,        \* static_ip.mac of each address
          Dynamic,          \* addresses whose static_ip.isStatic is FALSE
          DHCP_TIMEOUT,     \* lease time, in milliseconds
          RouterMAC,        \* source MAC of the DHCP replies
          GatewayIP,        \* source address of the DHCP replies
          SqlErrors         \* whether statements may fail

ASSUME DatabaseAssumption ==
    /\ StaticMAC \in [IP -> MAC]
    /\ Dynamic \subseteq IP
    /\ DHCP_TIMEOUT \in Nat /\ SqlErrors \in BOOLEAN
    /\ RouterMAC \in MAC /\ GatewayIP \in IP

VARIABLES static_ip,        \* addresses that have a row in static_ip
          registered,       \* MACs that have a row in user
          userIP,           \* user.ip; NoIP for NULL and for no row
          accessed,         \* user.accessed; 0 for no row
          dpc,              \* what the thread executes next
          dready,           \* eventfds the event loop has still to serve
          updates,          \* local `temp` of update_time
          requests,         \* local `temp` of create_dhcp
          cand              \* local `ip_str` of create_dhcp

tables == <<static_ip, registered, userIP, accessed>>

databaseLocals == <<dpc, dready, updates, requests, cand>>

update_time == [mac : MAC, ip : IP, UTC : Nat]

dhcp_request == [mac : MAC, isDiscover : BOOLEAN]

TablesTypeOK ==
    /\ static_ip \subseteq IP
    /\ registered \subseteq MAC
    /\ userIP \in [MAC -> IP \cup {NoIP}]
    /\ accessed \in [MAC -> Nat]

DatabaseTypeOK ==
    /\ TablesTypeOK
    /\ dpc \in {"idle", "update", "select", "unused", "using", "release",
                "insert", "mac", "send"}
    /\ dready \subseteq {"updateTime", "createDHCP"}
    /\ updates \in Seq(update_time)
    /\ requests \in Seq(dhcp_request)
    /\ cand \in IP \cup {NoIP}
    /\ dpc \in {"unused", "using", "release", "insert", "mac", "send"}
           => requests # <<>>
    /\ dpc \in {"release", "insert", "mac", "send"} => cand \in IP

DatabaseInit == /\ dpc = "idle"
                /\ dready = {}
                /\ updates = <<>>
                /\ requests = <<>>
                /\ cand = NoIP

DatabaseReset == /\ dpc' = "idle"
                 /\ dready' = {}
                 /\ updates' = <<>>
                 /\ requests' = <<>>
                 /\ cand' = NoIP

At(label) == proc = "serve" /\ dpc = label
-----------------------------------------------------------------------------
(* The event loop waits until some eventfd is readable, then calls the     *)
(* handlers of those that are.                                             *)
Wait == /\ At("idle")
        /\ dready = {}
        /\ dready' = {fd \in {"updateTime"} : updateTimeQueue # <<>>}
                \cup {fd \in {"createDHCP"} : createDHCPRequestQueue # <<>>}
        /\ dready' # {}
        /\ UNCHANGED <<proc, toGateway, granted, toDatabase, tables, dpc, updates,
                       requests, cand>>
-----------------------------------------------------------------------------
(* update_time.                                                            *)

TakeUpdates ==
    /\ At("idle")
    /\ "updateTime" \in dready
    /\ dready' = dready \ {"updateTime"}
    /\ updates' = updateTimeQueue
    /\ updateTimeQueue' = <<>>
    /\ dpc' = "update"
    /\ UNCHANGED <<proc, toGateway, granted, createDHCPRequestQueue, tables,
                   requests, cand>>

NextUpdate == /\ updates' = Tail(updates)
              /\ UNCHANGED <<proc, staticIPAddRequest, userAddRequest, granted,
                             sendPacketRequestQueue, toDatabase, static_ip,
                             registered, userIP, dpc, dready, requests, cand>>

(* UPDATE `user` SET `accessed` = ? WHERE `mac` = ?.  executeUpdate counts *)
(* the rows whose value changed: none for an unknown MAC or an equal time. *)
Changes(r) == r.mac \in registered /\ accessed[r.mac] # r.UTC

UpdateAccessTime ==
    /\ At("update")
    /\ updates # <<>>
    /\ LET r == Head(updates) IN
           IF Changes(r)
           THEN /\ accessed' = [accessed EXCEPT ![r.mac] = r.UTC]
                /\ UNCHANGED userDelRequest
           ELSE /\ delUserInfo(r.ip)
                /\ UNCHANGED accessed
    /\ NextUpdate

(* Variant: a failed update is dropped. *)
UpdateFailsSilently ==
    /\ At("update")
    /\ updates # <<>>
    /\ SqlErrors
    /\ NextUpdate
    /\ UNCHANGED <<accessed, userDelRequest>>

(* The exception is caught and ret is still 0: the user is deleted too.    *)
UpdateFails ==
    /\ At("update")
    /\ updates # <<>>
    /\ SqlErrors
    /\ delUserInfo(Head(updates).ip)
    /\ NextUpdate
    /\ UNCHANGED accessed

UpdateDone == /\ At("update")
              /\ updates = <<>>
              /\ dpc' = "idle"
              /\ UNCHANGED <<proc, toGateway, granted, toDatabase, tables, dready,
                             updates, requests, cand>>
-----------------------------------------------------------------------------
(* create_dhcp: one statement per step for each request taken.             *)

TakeRequests ==
    /\ At("idle")
    /\ "createDHCP" \in dready
    /\ dready' = dready \ {"createDHCP"}
    /\ requests' = createDHCPRequestQueue
    /\ createDHCPRequestQueue' = <<>>
    /\ dpc' = "select"
    /\ UNCHANGED <<proc, toGateway, granted, updateTimeQueue, tables, updates,
                   cand>>

request == Head(requests)

(* What every statement of create_dhcp leaves alone.                       *)
Statement(label) == /\ At(label)
                    /\ UNCHANGED <<static_ip, registered, accessed, toDatabase,
                                   staticIPAddRequest, userDelRequest, dready, updates>>

NoCall == UNCHANGED <<userAddRequest, granted, sendPacketRequestQueue>>

Choose(ip, label) == /\ cand' = ip
                     /\ dpc' = label
                     /\ UNCHANGED requests

NextRequest == /\ requests' = Tail(requests)
               /\ dpc' = "select"
               /\ cand' = NoIP

(* The exception handler of create_dhcp: exit(1).                          *)
ExitProcess == /\ proc' = "down"
               /\ DatabaseReset
               /\ UNCHANGED <<toGateway, granted, toDatabase, tables>>

(* selectUserIPfromMAC: an unknown MAC gets no answer, a user that has an  *)
(* address keeps it.                                                       *)
SelectUser ==
    /\ Statement("select")
    /\ requests # <<>>
    /\ \/ request.mac \notin registered /\ NextRequest
       \/ /\ request.mac \in registered
          /\ userIP[request.mac] = NoIP
          /\ Choose(NoIP, "unused")
       \/ /\ userIP[request.mac] # NoIP
          /\ Choose(userIP[request.mac], "insert")
    /\ UNCHANGED <<proc, userIP>> /\ NoCall

Free == {ip \in static_ip \cap Dynamic : \A m \in registered : userIP[m] # ip}

(* Variant: an address counts as found although the pool is used up. *)
SelectUnusedAlwaysFound ==
    /\ Statement("unused")
    /\ \/ \E ip \in Free : Choose(ip, "insert")
       \/ Free = {} /\ Choose(NoIP, "insert")
    /\ UNCHANGED <<proc, userIP>> /\ NoCall

(* selectUnusedDynamicIP: any row of the result may be the first.          *)
SelectUnused ==
    /\ Statement("unused")
    /\ \/ \E ip \in Free : Choose(ip, "insert")
       \/ Free = {} /\ Choose(NoIP, "using")
    /\ UNCHANGED <<proc, userIP>> /\ NoCall

(* Users of the dynamic pool whose last access is older than a lease.      *)
Idle == {m \in registered : /\ userIP[m] \in static_ip \cap Dynamic
                            /\ accessed[m] + DHCP_TIMEOUT < now}

(* Variant: the limit on the last access is left out. *)
SelectUsingAnyAge ==
    /\ Statement("using")
    /\ \/ \E m \in registered : /\ userIP[m] \in static_ip \cap Dynamic
                                /\ Choose(userIP[m], "release")
       \/ /\ \A m \in registered : userIP[m] \notin static_ip \cap Dynamic
          /\ NextRequest
    /\ UNCHANGED <<proc, userIP>> /\ NoCall

(* Variant: the release of the address is forgotten. *)
SelectUsingNoRelease ==
    /\ Statement("using")
    /\ \/ \E m \in Idle : /\ \A k \in Idle : accessed[m] <= accessed[k]
                          /\ Choose(userIP[m], "insert")
       \/ Idle = {} /\ NextRequest
    /\ UNCHANGED <<proc, userIP>> /\ NoCall

(* selectUsingDynamicIP: the address idle for longest; none, no answer.    *)
SelectUsing ==
    /\ Statement("using")
    /\ \/ \E m \in Idle : /\ \A k \in Idle : accessed[m] <= accessed[k]
                          /\ Choose(userIP[m], "release")
       \/ Idle = {} /\ NextRequest
    /\ UNCHANGED <<proc, userIP>> /\ NoCall

(* deleteDynamic: UPDATE `user` SET `ip` = NULL WHERE `ip` = ?.            *)
DeleteDynamic ==
    /\ Statement("release")
    /\ userIP' = [m \in MAC |-> IF userIP[m] = cand THEN NoIP ELSE userIP[m]]
    /\ Choose(cand, "insert")
    /\ UNCHANGED proc /\ NoCall

(* insertDynamic: UPDATE `user` SET `ip` = ? WHERE `mac` = ?.  No row, no  *)
(* effect.                                                                 *)
InsertDynamic ==
    /\ Statement("insert")
    /\ request.mac \in registered => cand \in static_ip
    /\ userIP' = IF request.mac \in registered
                 THEN [userIP EXCEPT ![request.mac] = cand] ELSE userIP
    /\ Choose(cand, "mac")
    /\ UNCHANGED proc /\ NoCall

(* The address has left static_ip: the foreign key fails and the exception *)
(* ends the process.                                                       *)
InsertFails ==
    /\ At("insert")
    /\ request.mac \in registered /\ cand \notin static_ip
    /\ ExitProcess

(* selectMACwithIP: the address still has a row; a request, unlike a       *)
(* discover, installs the user in the gateway before the reply is queued.  *)
SelectMAC ==
    /\ Statement("mac")
    /\ \/ /\ cand \in static_ip
          /\ IF request.isDiscover THEN UNCHANGED <<userAddRequest, granted>>
             ELSE addUserInfo([ip |-> cand, user_mac |-> request.mac,
                               last_access |-> 0])
          /\ Choose(cand, "send")
       \/ cand \notin static_ip /\ NextRequest /\ UNCHANGED <<userAddRequest, granted>>
    /\ UNCHANGED <<proc, userIP, sendPacketRequestQueue>>

(* DHCP::writeResponse: the fields of an offer or an acknowledgement that  *)
(* are told apart here.                                                    *)
writeResponse(discover, mac) == [type |-> IF discover THEN "offer" ELSE "ack",
                                 chaddr |-> mac, mtype |-> "notBootRequest"]

(* UDP::makePacket: the Ethernet and IP headers around it.                 *)
makePacket(ether_src, ether_dst, ip_src, ip_dst, data) ==
    [type |-> data.type, ok |-> TRUE, smac |-> ether_src, dmac |-> ether_dst,
     src |-> ip_src, dst |-> ip_dst, chaddr |-> data.chaddr, mtype |-> data.mtype]

Reply(r, ip) == makePacket(RouterMAC, r.mac, GatewayIP, ip,
                           writeResponse(r.isDiscover, r.mac))

SendReply ==
    /\ Statement("send")
    /\ sendPacketRequest(Reply(request, cand))
    /\ NextRequest
    /\ UNCHANGED <<proc, userIP, userAddRequest, granted>>

(* Any statement of create_dhcp may fail, and the process exits.           *)
StatementFails ==
    /\ proc = "serve"
    /\ dpc \in {"select", "unused", "using", "release", "insert", "mac"}
    /\ requests # <<>>
    /\ SqlErrors
    /\ ExitProcess

RequestsDone == /\ At("select")
                /\ requests = <<>>
                /\ dpc' = "idle"
                /\ UNCHANGED <<proc, toGateway, granted, toDatabase, tables, dready,
                               updates, requests, cand>>

DatabaseNext == /\ \/ Wait
                   \/ TakeUpdates \/ UpdateAccessTime \/ UpdateFails \/ UpdateDone
                   \/ TakeRequests \/ SelectUser \/ SelectUnused \/ SelectUsing
                   \/ DeleteDynamic \/ InsertDynamic \/ InsertFails
                   \/ SelectMAC \/ SendReply \/ StatementFails \/ RequestsDone
                /\ UNCHANGED now
=============================================================================
