--------------------------- MODULE GatewayProofs ---------------------------
(***************************************************************************)
(* What the gateway thread does with frames: who crosses it under an       *)
(* address of the site, and that it never follows an iterator to nowhere.  *)
(***************************************************************************)
EXTENDS GrantProofs, FunctionTheorems

USE SharedAssumption, GatewayAssumption, DatabaseAssumption, SystemAssumption
-----------------------------------------------------------------------------
(* Crossing the gateway.                                                   *)

(* What one entry of wire has to satisfy.                                  *)
Crosses(w) ==
    /\ w.dev = "out" /\ Addressed(w.frame) /\ isStatic(w.frame.src)
           => /\ ByOwner(w.frame.src, w.by)
              /\ w.frame.smac = staticIPMap[w.frame.src]
    /\ w.dev = "in" /\ Addressed(w.frame)
           => /\ ~isStatic(w.frame.src)
              /\ IsIP(w.frame) /\ isStatic(w.frame.dst)
                     => ByOwner(w.frame.dst, w.frame.dmac)

LEMMA EachCrosses == CrossingByOwner <=> \A i \in DOMAIN wire : Crosses(wire[i])
BY Zenon DEF CrossingByOwner, Crosses

LEMMA NothingCrosses == ASSUME wire' = <<>> PROVE CrossingByOwner'
BY DEF CrossingByOwner

(* A step that writes one frame.                                           *)
LEMMA OneCrosses ==
    ASSUME NEW dev, NEW by, NEW g, writePacket(dev, by, g),
           Crosses([dev |-> dev, by |-> by, frame |-> g])'
    PROVE  CrossingByOwner'
<1> DEFINE w == [dev |-> dev, by |-> by, frame |-> g]
<1>1. wire' = <<w>>
  BY DEF writePacket
<1> HIDE DEF w
<1>2. DOMAIN wire' = {1} /\ wire'[1] = w
  BY <1>1
<1>3. Crosses(w)'
  BY DEF w
<1> QED
  BY <1>2, <1>3, Zenon DEF CrossingByOwner, Crosses

(* Frames that carry no address cross freely.                              *)
LEMMA PlainCrosses ==
    ASSUME NEW dev, NEW by, NEW g, writePacket(dev, by, g), ~Addressed(g)
    PROVE  CrossingByOwner'
<1> DEFINE w == [dev |-> dev, by |-> by, frame |-> g]
<1>1. w.frame = g
  OBVIOUS
<1>2. Crosses(w)'
  BY <1>1 DEF Crosses
<1> QED
  BY <1>2, OneCrosses

LEMMA IcmpCrosses ==
    ASSUME NEW dev, NEW f \in Frame, icmp_mtu(dev, f)
    PROVE  CrossingByOwner'
<1> DEFINE g == [f EXCEPT !.type = "icmp", !.smac = f.dmac, !.dmac = f.smac,
                          !.src = f.dst, !.dst = f.src]
<1>1. ~Addressed(g)
  BY DEF Addressed, IsIP, Frame
<1>2. CASE f.ok
  <2>1. writePacket(dev, f.smac, g)
    BY <1>2, Zenon DEF icmp_mtu
  <2> QED
    BY <1>1, <2>1, PlainCrosses
<1>3. CASE ~f.ok
  BY <1>3, NothingCrosses DEF icmp_mtu
<1> QED
  BY <1>2, <1>3

(* The gateway's user of an address is who the address was granted to.     *)
LEMMA UserIsOwner ==
    ASSUME GrantInv, NEW ip \in IP, hasUser(ip)
    PROVE  ByOwner(ip, userMap[ip].user_mac)
BY DEF GrantInv, OwnerIsLatest, ByOwner

LEMMA InsideCrosses ==
    ASSUME TypeOK, GrantInv, InsideFrame
    PROVE  CrossingByOwner'
<1>1. PICK f \in InFrames : \/ InsideTooLong(f) \/ InsideDHCP(f) \/ InsideDrop(f)
                            \/ InsideForward(f) \/ InsideBadIterator(f)
                            \/ InsideOther(f)
  BY Zenon DEF InsideFrame
<1>2. f \in Frame
  OBVIOUS
<1>3. CASE InsideTooLong(f)
  BY <1>2, <1>3, IcmpCrosses DEF InsideTooLong
<1>4. CASE InsideDHCP(f) \/ InsideDrop(f) \/ InsideBadIterator(f)
  BY <1>4, NothingCrosses DEF InsideDHCP, InsideDrop, InsideBadIterator
<1>5. CASE InsideOther(f)
  <2>1. ~Addressed(f) /\ writePacket("out", f.smac, f)
    BY <1>5 DEF InsideOther, Addressed, IsIP
  <2> QED
    BY <2>1, PlainCrosses
<1>6. CASE InsideForward(f)
  <2>0. PICK g : g = IF hasUser(f.src) THEN [f EXCEPT !.smac = staticIPMap[f.src]]
                     ELSE f
    OBVIOUS
  <2> DEFINE w == [dev |-> "out", by |-> f.smac, frame |-> g]
  <2>1. /\ UNCHANGED <<staticIPMap, userAddRequest, granted>>
        /\ writePacket("out", f.smac, g)
        /\ InsidePasses(f)
    BY <1>6, <2>0 DEF InsideForward, InsideFrame, toGateway
  <2>2. /\ w.dev = "out" /\ w.by = f.smac /\ w.frame = g
        /\ f.src \in IP /\ g.src = f.src
        /\ hasUser(f.src) => g.smac = staticIPMap[f.src]
    BY <1>2, <2>0 DEF Frame
  <2>3. isStatic(f.src) => /\ hasUser(f.src) /\ userMap[f.src].user_mac = f.smac
    BY <2>1 DEF InsidePasses, Authorized
  <2>4. isStatic(f.src) => ByOwner(f.src, f.smac)
    BY <2>2, <2>3, UserIsOwner
  <2> HIDE DEF w
  <2>5. Crosses(w)'
    BY <2>1, <2>2, <2>3, <2>4 DEF Crosses, isStatic, ByOwner
  <2> QED
    BY <2>1, <2>5, OneCrosses DEF w
<1> QED
  BY <1>1, <1>3, <1>4, <1>5, <1>6

LEMMA OutsideCrosses ==
    ASSUME TypeOK, GrantInv, OutsideFrame
    PROVE  CrossingByOwner'
<1>1. PICK f \in OutFrames : \/ OutsideTooLong(f) \/ OutsideDrop(f)
                             \/ OutsideForward(f) \/ OutsideOther(f)
  BY Zenon DEF OutsideFrame
<1>2. f \in Frame
  OBVIOUS
<1>3. CASE OutsideTooLong(f)
  BY <1>2, <1>3, IcmpCrosses DEF OutsideTooLong
<1>4. CASE OutsideDrop(f)
  BY <1>4, NothingCrosses DEF OutsideDrop
<1>5. CASE OutsideOther(f)
  <2>1. ~Addressed(f) /\ writePacket("in", f.smac, f)
    BY <1>5 DEF OutsideOther, Addressed, IsIP
  <2> QED
    BY <2>1, PlainCrosses
<1>6. CASE OutsideForward(f)
  <2>0. PICK g : g = IF isStatic(f.dst) /\ hasUser(f.dst)
                     THEN [f EXCEPT !.dmac = userMap[f.dst].user_mac] ELSE f
    OBVIOUS
  <2> DEFINE w == [dev |-> "in", by |-> f.smac, frame |-> g]
  <2>1. /\ UNCHANGED <<staticIPMap, userAddRequest, granted>>
        /\ writePacket("in", f.smac, g)
        /\ OutsidePasses(f)
    BY <1>6, <2>0 DEF OutsideForward, OutsideFrame, toGateway
  <2>2. /\ w.dev = "in" /\ w.frame = g
        /\ f.src \in IP /\ f.dst \in IP /\ g.src = f.src /\ g.dst = f.dst
        /\ g.type = f.type
        /\ isStatic(f.dst) /\ hasUser(f.dst) => g.dmac = userMap[f.dst].user_mac
    BY <1>2, <2>0 DEF Frame
  <2>3. /\ ~isStatic(f.src)
        /\ IsIP(f) /\ isStatic(f.dst) => hasUser(f.dst)
    BY <2>1 DEF OutsidePasses, OutsideAdmitted, IPToOwner, IsIP
  <2>4. hasUser(f.dst) => ByOwner(f.dst, userMap[f.dst].user_mac)
    BY <2>2, UserIsOwner
  <2> HIDE DEF w
  <2>5. Crosses(w)'
    BY <2>1, <2>2, <2>3, <2>4 DEF Crosses, isStatic, ByOwner, IsIP
  <2> QED
    BY <2>1, <2>5, OneCrosses DEF w
<1> QED
  BY <1>1, <1>3, <1>4, <1>5, <1>6

(* DHCP replies carry no address of a crossing.                            *)
LEMMA RepliesCross ==
    ASSUME TypeOK, RepliesOnly, send_packet
    PROVE  CrossingByOwner'
<1> DEFINE q == sendPacketRequestQueue
<1>1. wire' = [i \in DOMAIN q |-> [dev |-> "in", by |-> q[i].smac, frame |-> q[i]]]
  BY Zenon DEF send_packet
<1>2. \A i \in DOMAIN wire' : wire'[i].dev = "in" /\ ~Addressed(wire'[i].frame)
  BY <1>1 DEF RepliesOnly, Addressed, IsIP
<1> QED
  BY <1>2 DEF CrossingByOwner

LEMMA GatewayCrossing ==
    ASSUME TypeOK, GrantInv, CrossingInv, GatewayStep
    PROVE  CrossingInv'
<1>1. CrossingByOwner'
  <2>1. CASE Handlers
    BY <2>1, RepliesCross, NothingCrosses
       DEF Handlers, add_static_ip, add_user, del_user, CrossingInv
  <2>2. CASE Loop
    BY <2>2, NothingCrosses DEF Loop, EndInside, Poll, LoopTop
  <2> QED
    BY <2>1, <2>2, InsideCrosses, OutsideCrosses DEF GatewayStep, GatewayNext
<1>2. sendPacketRequestQueue' = sendPacketRequestQueue \/ sendPacketRequestQueue' = <<>>
  BY DEF GatewayStep, GatewayNext, InsideFrame, OutsideFrame, Handlers, Loop, toGateway,
         add_static_ip, add_user, del_user, send_packet
<1>3. ~Loading'
  <2>1. proc = "serve" /\ proc' \in {"serve", "down"}
    BY DEF GatewayStep, GatewayNext, InsideFrame, OutsideFrame, Handlers, Loop,
           InsideTooLong, InsideDHCP, InsideDrop, InsideForward, InsideBadIterator,
           InsideOther, OutsideTooLong, OutsideDrop, OutsideForward, OutsideOther,
           ReadFrame, Handle, add_static_ip, add_user, del_user, send_packet,
           EndInside, Poll, LoopTop
  <2> QED
    BY <2>1 DEF Loading
<1> QED
  BY <1>1, <1>2, <1>3 DEF CrossingInv, RepliesOnly, SilentWhileLoading

(* The only packets the database queues are replies.                       *)
LEMMA QueuedReply ==
    ASSUME TypeOK, RepliesOnly, DatabaseStep
    PROVE  RepliesOnly'
<1>1. CASE UNCHANGED sendPacketRequestQueue
  BY <1>1 DEF RepliesOnly
<1>2. CASE SendReply
  <2>1. PICK p : p = Reply(request, cand)
    OBVIOUS
  <2>2. p.type \in {"offer", "ack"}
    BY <2>1 DEF Reply, makePacket, writeResponse
  <2>3. p \in Frame
    <3>1. cand \in IP /\ request.mac \in MAC
      BY <1>2, RequestType DEF SendReply, Statement, At, TypeOK, DatabaseTypeOK
    <3> QED
      BY <2>1, <3>1 DEF Reply, makePacket, writeResponse, Frame, FrameType, MessageType
  <2>4. sendPacketRequestQueue' = Append(sendPacketRequestQueue, p)
    BY <1>2, <2>1 DEF SendReply, sendPacketRequest
  <2>5. sendPacketRequestQueue \in Seq(Frame)
    BY DEF TypeOK, QueueTypeOK
  <2> QED
    BY <2>2, <2>3, <2>4, <2>5 DEF RepliesOnly
<1> QED
  BY <1>1, <1>2 DEF DatabaseStep, DatabaseNext, Wait, TakeUpdates, UpdateAccessTime,
         UpdateFails, UpdateDone, TakeRequests, SelectUser, SelectUnused, SelectUsing,
         DeleteDynamic, InsertDynamic, InsertFails, StatementFails, ExitProcess,
         SelectMAC, RequestsDone, NextUpdate, NoCall, toGateway

(* Steps that write nothing and leave what the frames on the wire are      *)
(* judged by.                                                              *)
LEMMA CrossingKept ==
    ASSUME CrossingInv, Loading' => Loading,
           UNCHANGED <<wire, sendPacketRequestQueue, staticIPMap, granted,
                       userAddRequest>>
    PROVE  CrossingInv'
BY DEF CrossingInv, CrossingByOwner, RepliesOnly, SilentWhileLoading, ByOwner, isStatic

LEMMA CrossingStep ==
    ASSUME TypeOK, GrantInv, CrossingInv, [Next]_vars
    PROVE  CrossingInv'
<1>1. CASE UNCHANGED vars
  BY <1>1, CrossingKept DEF vars, queues, toGateway, gatewayVars, Loading
<1>2. CASE LoadStaticIP
  BY <1>2, CrossingKept DEF LoadStaticIP, gatewayVars, Loading
<1>3. CASE LoadUser
  <2>1. wire' = <<>> /\ UNCHANGED sendPacketRequestQueue
    BY <1>3 DEF LoadUser, CrossingInv, SilentWhileLoading, Loading
  <2> QED
    BY <2>1, NothingCrosses DEF CrossingInv, RepliesOnly, SilentWhileLoading
<1>4. CASE DatabaseStep
  <2>1. wire' = <<>>
    BY <1>4 DEF DatabaseStep
  <2> QED
    BY <1>4, <2>1, QueuedReply, NothingCrosses DEF CrossingInv, SilentWhileLoading
<1>5. CASE Kill \/ Restart
  BY <1>5, NothingCrosses DEF Kill, Restart, MemoryLost, EmptyNext, GatewayReset,
                              CrossingInv, RepliesOnly, SilentWhileLoading
<1>6. CASE Tick \/ AddUser \/ RemoveUser \/ AssignIP \/ AddIP \/ RemoveIP
  BY <1>6, CrossingKept DEF Tick, AddUser, RemoveUser, AssignIP, AddIP, RemoveIP, Edit,
                            queues, toGateway, gatewayVars, Loading
<1> QED
  BY <1>1, <1>2, <1>3, <1>4, <1>5, <1>6, GatewayCrossing DEF Next, Environment

(* At all times, out under an address of the site goes only the machine    *)
(* the address was granted to, and under the static MAC; in, an IP packet  *)
(* for such an address goes only to that machine, and nothing claims such  *)
(* an address as its source (gateway.cpp:401-527, 600-678): whatever the   *)
(* administrator edits, and however grants and removals cross the frames.  *)
(* Only while a grant is queued may the machine be the former one.         *)
THEOREM CrossingsAreByOwner == Spec => []CrossingByOwner
<1>1. Init => CrossingInv
  BY DEF Init, Empty, GatewayInit, CrossingInv, CrossingByOwner, RepliesOnly,
         SilentWhileLoading
<1>2. TypeOK /\ GrantInv /\ CrossingInv /\ [Next]_vars => CrossingInv'
  BY CrossingStep
<1>3. CrossingInv => CrossingByOwner
  BY DEF CrossingInv
<1> QED
  BY <1>1, <1>2, <1>3, TypeCorrect, GrantInvariant, PTL DEF Spec
-----------------------------------------------------------------------------
(* The static MAC of every user.                                           *)

(* The foreign key of table user holds whatever is edited.                 *)
LEMMA ForeignKeyStep ==
    ASSUME TypeOK, ForeignKey, [Next]_vars
    PROVE  ForeignKey'
<1> USE DEF ForeignKey
<1>0. /\ userIP \in [MAC -> IP \cup {NoIP}] /\ static_ip \subseteq IP
      /\ registered \subseteq MAC
  BY DEF TypeOK, DatabaseTypeOK, TablesTypeOK
<1>1. CASE UNCHANGED <<static_ip, userIP>>
  BY <1>1
<1>2. CASE DeleteDynamic
  BY <1>0, <1>2 DEF DeleteDynamic, Statement
<1>3. CASE InsertDynamic
  BY <1>0, <1>3 DEF InsertDynamic, Statement
<1>4. CASE RemoveUser
  BY <1>0, <1>4 DEF RemoveUser
<1>5. CASE AssignIP
  BY <1>0, <1>5 DEF AssignIP
<1>6. CASE AddIP
  BY <1>6 DEF AddIP
<1>7. CASE RemoveIP
  BY <1>0, <1>7 DEF RemoveIP
<1>8. DatabaseStep => DeleteDynamic \/ InsertDynamic \/ UNCHANGED <<static_ip, userIP>>
  BY DEF DatabaseStep, DatabaseNext, Wait, TakeUpdates, UpdateAccessTime, UpdateFails,
         UpdateDone, TakeRequests, SelectUser, SelectUnused, SelectUsing, Statement,
         InsertFails, StatementFails, ExitProcess, SelectMAC, SendReply, RequestsDone,
         NextUpdate, tables
<1>9. ASSUME \/ UNCHANGED vars \/ LoadStaticIP \/ LoadUser \/ GatewayStep
             \/ Tick \/ Kill \/ Restart \/ AddUser
      PROVE  UNCHANGED <<static_ip, userIP>>
  BY <1>9 DEF vars, LoadStaticIP, LoadUser, GatewayStep, Tick, Kill, Restart, MemoryLost,
         AddUser, tables
<1> QED
  BY <1>1, <1>2, <1>3, <1>4, <1>5, <1>6, <1>7, <1>8, <1>9 DEF Next, Environment

LEMMA InitForeignKey == Init => ForeignKey
<1> SUFFICES ASSUME Init PROVE ForeignKey
  OBVIOUS
<1>1. PICK f \in [Machines -> SiteIP \cup {NoIP}] :
          userIP = [m \in MAC |-> IF m \in registered THEN f[m] ELSE NoIP]
  BY DEF Init, TablesInit
<1>2. registered \subseteq Machines /\ static_ip = SiteIP
  BY DEF Init, TablesInit
<1> QED
  BY <1>1, <1>2 DEF ForeignKey

(* A query returns every row: a listing without repetitions of as many     *)
(* entries as there are rows.                                              *)
LEMMA ListingComplete ==
    ASSUME NEW S, IsFiniteSet(S), NEW q \in Listings(S), NEW x \in S
    PROVE  \E i \in DOMAIN q : q[i] = x
<1> DEFINE n == Cardinality(S)
<1>1. n \in Nat
  BY FS_CardinalityType
<1>2. q \in [1 .. n -> S] /\ DOMAIN q = 1 .. n
  BY DEF Listings
<1>3. \A i, j \in 1 .. n : q[i] = q[j] => i = j
  BY <1>2 DEF Listings
<1> HIDE DEF n
<1>4. q \in Injection(1 .. n, S)
  BY <1>2, <1>3, Fun_IsInj
<1>5. IsFiniteSet(1 .. n) /\ Cardinality(1 .. n) = n
  BY <1>1, FS_Interval
<1>6. q \in Surjection(1 .. n, S)
  BY <1>4, <1>5, FS_Injection DEF n
<1>7. \A t \in S : \E s \in 1 .. n : q[s] = t
  BY <1>6, Zenon DEF Surjection
<1> QED
  BY <1>2, <1>7, Zenon

(* Steps that take users away at most, and addresses.                      *)
LEMMA StaticKept ==
    ASSUME StaticInv, static_ip' \subseteq static_ip, proc' \in {proc, "down"},
           UNCHANGED <<staticIPMap, staticIPAddRequest, userAddRequest, gpc, ready>>,
           \A ip \in IP : hasUser(ip)' => hasUser(ip)
    PROVE  StaticInv'
BY DEF StaticInv, SrcIterValid, TableKnown, UsersKnown, StaticFirst, AtTopWhileLoading,
       Loading, Known, isStatic

LEMMA FrameStatic ==
    ASSUME TypeOK, StaticInv, InsideFrame \/ OutsideFrame, UNCHANGED static_ip
    PROVE  StaticInv'
<1>1. userMap \in [IP -> User \cup {NoUser}]
  BY DEF TypeOK, GatewayTypeOK
<1>2. UNCHANGED <<staticIPAddRequest, userAddRequest>>
  BY DEF InsideFrame, OutsideFrame, toGateway
<1>3. CASE InsideFrame
  <2>1. PICK f \in InFrames : \/ InsideTooLong(f) \/ InsideDHCP(f) \/ InsideDrop(f)
                              \/ InsideForward(f) \/ InsideBadIterator(f)
                              \/ InsideOther(f)
    BY <1>3, Zenon DEF InsideFrame
  <2>2. UNCHANGED <<staticIPMap, gpc, ready>> /\ proc' \in {proc, "down"}
    BY <2>1 DEF InsideTooLong, InsideDHCP, InsideDrop, InsideForward,
                InsideBadIterator, InsideOther, ReadFrame
  <2>3. \/ UNCHANGED userMap
        \/ /\ userMap' = [userMap EXCEPT ![f.src].last_access = current_time]
           /\ hasUser(f.src)
    BY <2>1 DEF InsideTooLong, InsideDHCP, InsideDrop, InsideForward,
                InsideBadIterator, InsideOther, RefreshUser, NeedsUpdate
  <2>4. \A ip \in IP : hasUser(ip)' => hasUser(ip)
    BY <1>1, <2>3 DEF hasUser
  <2> QED
    BY <1>2, <2>2, <2>4, StaticKept
<1>4. CASE OutsideFrame
  <2>1. PICK f \in OutFrames : \/ OutsideTooLong(f) \/ OutsideDrop(f)
                               \/ OutsideForward(f) \/ OutsideOther(f)
    BY <1>4, Zenon DEF OutsideFrame
  <2>2. UNCHANGED <<staticIPMap, gpc, ready, proc>>
    BY <2>1 DEF OutsideTooLong, OutsideDrop, OutsideForward, OutsideOther, ReadFrame
  <2>3. UNCHANGED userMap \/ userMap' = [userMap EXCEPT ![f.dst] = NoUser]
    BY <2>1 DEF OutsideTooLong, OutsideDrop, OutsideForward, OutsideOther,
                ForgetOrphan
  <2>4. \A ip \in IP : hasUser(ip)' => hasUser(ip)
    BY <1>1, <2>3 DEF hasUser
  <2> QED
    BY <1>2, <2>2, <2>4, StaticKept
<1> QED
  BY <1>3, <1>4

LEMMA HandlersStatic ==
    ASSUME TypeOK, StaticInv, Handlers, UNCHANGED static_ip
    PROVE  StaticInv'
<1> USE DEF StaticInv, SrcIterValid, TableKnown, UsersKnown, StaticFirst,
            AtTopWhileLoading, Loading
<1>1. /\ staticIPMap \in [IP -> MAC \cup {NoMAC}]
      /\ userMap \in [IP -> User \cup {NoUser}] /\ static_ip \subseteq IP
      /\ staticIPAddRequest \in Seq([ip : IP, mac : MAC])
      /\ proc = "serve" /\ proc' = "serve" /\ gpc' = "dispatch" /\ gpc = "dispatch"
  BY DEF TypeOK, GatewayTypeOK, QueueTypeOK, DatabaseTypeOK, TablesTypeOK, Handlers,
         add_static_ip, add_user, del_user, send_packet, Handle
<1>2. CASE add_static_ip
  <2>1. ASSUME NEW ip \in IP, Known(ip) PROVE Known(ip)'
    <3>1. CASE For(staticIPAddRequest, ip) = {}
      BY <1>1, <1>2, <2>1, <3>1 DEF add_static_ip, Known, isStatic
    <3>2. CASE For(staticIPAddRequest, ip) # {}
      <4> DEFINE Rows == [ip : IP, mac : MAC]
                 last == LastFor(staticIPAddRequest, ip)
      <4>1. last \in Rows
        BY <1>1, <3>2, LastForProperties
      <4>2. last.mac \in MAC
        BY <4>1
      <4> HIDE DEF last
      <4>3. staticIPMap'[ip] = last.mac
        BY <1>2, <3>2 DEF add_static_ip, last
      <4> QED
        BY <4>2, <4>3 DEF Known, isStatic
    <3> QED
      BY <3>1, <3>2
  <2> QED
    BY <1>1, <1>2, <2>1 DEF add_static_ip, hasUser
<1>3. CASE add_user
  <2>1. /\ UNCHANGED <<staticIPMap, staticIPAddRequest>> /\ userAddRequest' = <<>>
        /\ ready' = ready \ {"addUser"}
    BY <1>3 DEF add_user, Handle
  <2>2. \A ip \in IP : hasUser(ip)' => hasUser(ip) \/ For(userAddRequest, ip) # {}
    BY <1>3 DEF add_user, hasUser
  <2>3. \A ip \in IP : For(userAddRequest', ip) = {}
    BY <2>1 DEF For
  <2> QED
    BY <1>1, <2>1, <2>2, <2>3 DEF Known, isStatic
<1>4. CASE del_user \/ send_packet
  <2>1. /\ UNCHANGED <<staticIPMap, staticIPAddRequest, userAddRequest>>
        /\ \E fd \in {"delUser", "sendPacket"} : ready' = ready \ {fd}
        /\ \A ip \in IP : hasUser(ip)' => hasUser(ip)
    BY <1>4 DEF del_user, send_packet, Handle, hasUser
  <2> QED
    BY <1>1, <2>1 DEF Known, isStatic
<1> QED
  BY <1>2, <1>3, <1>4 DEF Handlers

LEMMA LoopStatic ==
    ASSUME StaticInv, Loop, UNCHANGED static_ip
    PROVE  StaticInv'
<1> USE DEF StaticInv, SrcIterValid, TableKnown, UsersKnown, StaticFirst,
            AtTopWhileLoading, Loading, Known, isStatic, hasUser
<1>1. UNCHANGED <<proc, staticIPMap, userMap, staticIPAddRequest, userAddRequest>>
  BY DEF Loop, EndInside, Poll, LoopTop, toGateway
<1>2. CASE EndInside
  BY <1>1, <1>2 DEF EndInside
<1>3. CASE Poll
  BY <1>1, <1>3 DEF Poll
<1>4. CASE LoopTop
  <2>1. staticIPAddRequest = <<>>
    BY <1>4 DEF LoopTop
  <2>2. \A ip \in IP : For(staticIPAddRequest, ip) = {}
    BY <2>1 DEF For
  <2> QED
    BY <1>1, <1>4, <2>2 DEF LoopTop
<1> QED
  BY <1>2, <1>3, <1>4 DEF Loop

(* create_dhcp grants an address only while static_ip has it.              *)
LEMMA DatabaseStatic ==
    ASSUME TypeOK, StaticInv, DatabaseStep
    PROVE  StaticInv'
<1>1. /\ UNCHANGED <<staticIPMap, userMap, gpc, ready, staticIPAddRequest, static_ip>>
      /\ proc = "serve" /\ proc' \in {"serve", "down"}
  <2>1. UNCHANGED <<staticIPMap, userMap, gpc, ready>>
    BY DEF DatabaseStep
  <2> QED
    BY <2>1 DEF DatabaseStep, DatabaseNext, Wait, TakeUpdates, UpdateAccessTime,
           UpdateFails, UpdateDone, TakeRequests, SelectUser, SelectUnused,
           SelectUsing, DeleteDynamic, InsertDynamic, InsertFails, StatementFails,
           ExitProcess, SelectMAC, SendReply, RequestsDone, NextUpdate, Statement, At,
           toGateway, tables
<1>2. CASE UNCHANGED userAddRequest
  BY <1>1, <1>2, StaticKept DEF hasUser
<1>3. CASE SelectMAC /\ ~UNCHANGED userAddRequest
  <2>1. PICK info : info = [ip |-> cand, user_mac |-> request.mac, last_access |-> 0]
    OBVIOUS
  <2>2. cand \in IP /\ request.mac \in MAC
    BY <1>3, RequestType DEF SelectMAC, Statement, At, TypeOK, DatabaseTypeOK
  <2>3. info \in userInfo /\ info.ip = cand
    BY <2>1, <2>2 DEF userInfo
  <2>4. userAddRequest' = Append(userAddRequest, info) /\ cand \in static_ip
    BY <1>3, <2>1 DEF SelectMAC, addUserInfo
  <2>5. userAddRequest \in Seq(userInfo)
    BY DEF TypeOK, QueueTypeOK
  <2>6. ASSUME NEW ip \in IP, For(userAddRequest', ip) # {}
        PROVE  For(userAddRequest, ip) # {} \/ ip \in static_ip
    BY <2>3, <2>4, <2>5, <2>6, AppendFor
  <2> QED
    BY <1>1, <2>6 DEF StaticInv, SrcIterValid, TableKnown, UsersKnown, StaticFirst,
                      AtTopWhileLoading, Loading, Known, isStatic, hasUser
<1>4. SelectMAC \/ UNCHANGED userAddRequest
  BY DEF DatabaseStep, DatabaseNext, Wait, TakeUpdates, UpdateAccessTime, UpdateFails,
         UpdateDone, TakeRequests, SelectUser, SelectUnused, SelectUsing,
         DeleteDynamic, InsertDynamic, InsertFails, StatementFails, ExitProcess,
         SendReply, RequestsDone, NextUpdate, NoCall, toGateway
<1> QED
  BY <1>2, <1>3, <1>4

LEMMA LoadStaticIPStatic ==
    ASSUME TypeOK, StaticInv, LoadStaticIP
    PROVE  StaticInv'
<1> DEFINE rows == {[ip |-> ip, mac |-> StaticMAC[ip]] : ip \in static_ip}
           row == [ip \in static_ip |-> [ip |-> ip, mac |-> StaticMAC[ip]]]
<1>1. IsFiniteSet(static_ip)
  BY FS_Subset DEF TypeOK, DatabaseTypeOK, TablesTypeOK
<1>2. row \in Surjection(static_ip, rows)
  BY DEF Surjection
<1>3. PICK q \in Listings(rows) : staticIPAddRequest' = q
  BY DEF LoadStaticIP
<1>4. ASSUME NEW ip \in static_ip PROVE \E r \in rows : r.ip = ip
  <2>1. [ip |-> ip, mac |-> StaticMAC[ip]] \in rows
    OBVIOUS
  <2>2. [ip |-> ip, mac |-> StaticMAC[ip]].ip = ip
    OBVIOUS
  <2> HIDE DEF rows
  <2> QED
    BY <2>1, <2>2
<1> HIDE DEF rows, row
<1>5. IsFiniteSet(rows)
  BY <1>1, <1>2, FS_Surjection
<1>6. ASSUME NEW ip \in static_ip PROVE For(q, ip) # {}
  <2>1. PICK r \in rows : r.ip = ip
    BY <1>4
  <2>2. PICK i \in DOMAIN q : q[i] = r
    BY <1>3, <1>5, ListingComplete
  <2> QED
    BY <2>1, <2>2 DEF For
<1>7. proc' = "loadUser" /\ UNCHANGED <<static_ip, gpc>> /\ Loading
  BY DEF LoadStaticIP, tables, gatewayVars, Loading
<1> QED
  BY <1>3, <1>6, <1>7 DEF StaticInv, SrcIterValid, TableKnown, UsersKnown, StaticFirst,
                          AtTopWhileLoading, Known

(* The foreign key makes the addresses of the users known ones.            *)
LEMMA LoadUserStatic ==
    ASSUME TypeOK, GrantInv, ForeignKey, StaticInv, LoadUser
    PROVE  StaticInv'
<1> DEFINE owners == {k \in registered : userIP[k] # NoIP}
           rows == {[ip |-> userIP[m], user_mac |-> m,
                     last_access |-> accessed[m]] : m \in owners}
<1>1. PICK q \in Listings(rows) : userAddRequest' = q
  BY DEF LoadUser
<1>2. registered \subseteq MAC
  BY DEF TypeOK, DatabaseTypeOK, TablesTypeOK
<1>3. \A r \in rows : r.ip \in static_ip
  BY <1>2 DEF ForeignKey
<1> HIDE DEF rows
<1>4. \A i \in DOMAIN q : q[i] \in rows
  BY <1>1 DEF Listings
<1>5. \A ip \in IP : For(q, ip) # {} => ip \in static_ip
  BY <1>3, <1>4 DEF For
<1>6. /\ proc = "loadUser" /\ proc' = "serve" /\ gpc = "in"
      /\ UNCHANGED <<static_ip, staticIPMap, staticIPAddRequest, userMap, gpc>>
  BY DEF LoadUser, tables, StaticInv, AtTopWhileLoading, Loading
<1>7. \A ip \in IP : ~hasUser(ip)'
  BY <1>6 DEF GrantInv, EmptyWhileLoading, Loading, hasUser
<1> QED
  BY <1>1, <1>5, <1>6, <1>7 DEF StaticInv, SrcIterValid, TableKnown, UsersKnown,
     StaticFirst, AtTopWhileLoading, Loading, Known, isStatic

LEMMA EnvironmentStatic ==
    ASSUME StaticInv, "addIP" \notin AdminOps, Environment
    PROVE  StaticInv'
<1>1. CASE Kill \/ Restart
  BY <1>1 DEF Kill, Restart, MemoryLost, GatewayReset, StaticInv, SrcIterValid,
              TableKnown, UsersKnown, StaticFirst, AtTopWhileLoading, Loading
<1>2. CASE Tick \/ AddUser \/ RemoveUser \/ AssignIP \/ RemoveIP
  <2>1. /\ UNCHANGED <<proc, staticIPAddRequest, userAddRequest, staticIPMap, userMap,
                       gpc, ready>>
        /\ static_ip' \subseteq static_ip
    BY <1>2 DEF Tick, AddUser, RemoveUser, AssignIP, RemoveIP, Edit, queues, toGateway,
                gatewayVars, tables
  <2> QED
    BY <2>1, StaticKept DEF hasUser
<1>3. ~AddIP
  BY DEF AddIP, Edit
<1> QED
  BY <1>1, <1>2, <1>3 DEF Environment

LEMMA StaticStep ==
    ASSUME TypeOK, GrantInv, ForeignKey, StaticInv, "addIP" \notin AdminOps, [Next]_vars
    PROVE  StaticInv'
<1>1. CASE UNCHANGED vars
  BY <1>1, StaticKept DEF vars, queues, toGateway, gatewayVars, tables, hasUser
<1>2. CASE GatewayStep
  <2>1. UNCHANGED static_ip
    BY <1>2 DEF GatewayStep, tables
  <2> QED
    BY <1>2, <2>1, FrameStatic, HandlersStatic, LoopStatic DEF GatewayStep, GatewayNext
<1> QED
  BY <1>1, <1>2, LoadStaticIPStatic, LoadUserStatic, DatabaseStatic, EnvironmentStatic
     DEF Next

LEMMA StaticInvariant ==
    ASSUME "addIP" \notin AdminOps
    PROVE  Spec => []StaticInv
<1>1. Init => StaticInv
  BY DEF Init, GatewayInit, StaticInv, SrcIterValid, TableKnown, UsersKnown,
         StaticFirst, AtTopWhileLoading
<1>2. TypeOK /\ GrantInv /\ ForeignKey /\ StaticInv /\ [Next]_vars => StaticInv'
  BY StaticStep
<1>3. TypeOK /\ ForeignKey /\ [Next]_vars => ForeignKey'
  BY ForeignKeyStep
<1> QED
  BY <1>1, <1>2, <1>3, InitForeignKey, TypeCorrect, GrantInvariant, PTL DEF Spec

(* If no address is added to static_ip while the program runs, every user  *)
(* the gateway knows while it handles frames has a static MAC, so srcIter  *)
(* is never end() where serve dereferences it (gateway.cpp:443-444, 527):  *)
(* neither the order in which main's requests are carried out, nor a       *)
(* removal of addresses, nor a restart can leave a user without.           *)
THEOREM SrcIterIsValid ==
    ASSUME "addIP" \notin AdminOps
    PROVE  Spec => []SrcIterValid
<1>1. StaticInv => SrcIterValid
  BY DEF StaticInv
<1> QED
  BY <1>1, StaticInvariant, PTL

(* Under the same condition no frame ends the process: what gateway.cpp    *)
(* says at lines 621 and 682 of users without a static IP is then kept, in *)
(* both directions.                                                        *)
THEOREM NoFrameEndsProcess ==
    ASSUME "addIP" \notin AdminOps
    PROVE  Spec => FramesSurvived
<1>1. ASSUME TypeOK, StaticInv, [Next]_vars, burst' > burst
      PROVE  proc' = proc
  <2>0. burst \in Nat
    BY <1>1 DEF TypeOK, GatewayTypeOK
  <2>1. CASE InsideFrame
    <3>1. PICK f \in InFrames : \/ InsideTooLong(f) \/ InsideDHCP(f) \/ InsideDrop(f)
                                \/ InsideForward(f) \/ InsideBadIterator(f)
                                \/ InsideOther(f)
      BY <2>1, Zenon DEF InsideFrame
    <3>2. f.src \in IP
      BY DEF Frame
    <3>3. ~InsideBadIterator(f)
      BY <1>1, <3>2 DEF InsideBadIterator, ReadFrame, StaticInv, SrcIterValid
    <3> QED
      BY <3>1, <3>3 DEF InsideTooLong, InsideDHCP, InsideDrop, InsideForward,
                        InsideOther
  <2>2. CASE OutsideFrame \/ Handlers \/ Loop
    BY <2>2 DEF OutsideFrame, OutsideTooLong, OutsideDrop, OutsideForward,
                OutsideOther, Handlers, Loop
  <2>3. CASE LoadStaticIP \/ LoadUser \/ DatabaseStep \/ UNCHANGED vars
    <3>1. burst' = burst
      BY <2>3 DEF LoadStaticIP, LoadUser, DatabaseStep, vars, gatewayVars
    <3> QED
      BY <1>1, <2>0, <3>1
  <2>4. CASE Environment
    <3>1. burst' = burst \/ burst' = 0
      BY <2>4 DEF Environment, Tick, Kill, Restart, MemoryLost, GatewayReset, AddUser,
                  RemoveUser, AssignIP, AddIP, RemoveIP, Edit, gatewayVars
    <3> QED
      BY <1>1, <2>0, <3>1
  <2> QED
    BY <1>1, <2>1, <2>2, <2>3, <2>4 DEF Next, GatewayStep, GatewayNext
<1>2. TypeOK /\ StaticInv /\ [Next]_vars => [burst' > burst => proc' = proc]_vars
  BY <1>1
<1> QED
  BY <1>2, TypeCorrect, StaticInvariant, PTL DEF Spec, FramesSurvived
=============================================================================
