---------------------------- MODULE SystemProofs ----------------------------
(***************************************************************************)
(* Proofs about the whole program, for any site, any number of machines,   *)
(* any frames and any clock: TypeOK is inductive, and no two machines ever *)
(* share an address in table user.                                         *)
(***************************************************************************)
EXTENDS System, SequenceTheorems, FiniteSetTheorems, TLAPS

USE SharedAssumption, GatewayAssumption, DatabaseAssumption, SystemAssumption
-----------------------------------------------------------------------------
(* Helpers: the last request for an address, and listings of rows.         *)

(* A bounded non-empty set of numbers has a largest one.                   *)
LEMMA LargestIndex ==
    ASSUME NEW n \in Nat, NEW T \in SUBSET (1 .. n), T # {}
    PROVE  \E i \in T : \A j \in T : j <= i
<1> DEFINE U == {k \in 0 .. n : n - k \in T}
<1>1. U \subseteq Nat /\ U # {}
  <2>1. PICK t \in T : TRUE
    OBVIOUS
  <2>2. n - t \in 0 .. n /\ n - (n - t) = t
    BY <2>1
  <2>3. n - (n - t) \in T
    BY <2>1, <2>2
  <2>4. n - t \in U
    BY <2>2, <2>3
  <2>5. U \subseteq Nat
    OBVIOUS
  <2> QED
    BY <2>4, <2>5
<1> DEFINE R == OpToRel(<, Nat)
<1>2. PICK k \in U : \A y \in U : <<y, k>> \notin R
  <2> HIDE DEF U
  <2>1. IsWellFoundedOn(R, Nat)
    BY NatLessThanWellFounded
  <2> HIDE DEF R
  <2> QED
    BY <1>1, <2>1, WFMin
<1>3. \A y \in U : ~(y < k)
  BY <1>1, <1>2 DEF OpToRel
<1>4. ASSUME NEW j \in T
      PROVE  j <= n - k
  <2>1. n - j \in U
    BY <1>4
  <2>2. ~(n - j < k)
    BY <1>3, <2>1
  <2> QED
    BY <2>2
<1> QED
  BY <1>4

(* LastFor is an element of the sequence, for the address asked for.       *)
LEMMA LastForProperties ==
    ASSUME NEW S, NEW q \in Seq(S), NEW ip, For(q, ip) # {}
    PROVE  /\ LastFor(q, ip) \in S
           /\ LastFor(q, ip).ip = ip
<1> DEFINE T == For(q, ip)
<1>1. T \in SUBSET (1 .. Len(q)) /\ T # {} /\ Len(q) \in Nat
  BY LenProperties DEF For
<1>2. \E i \in T : \A j \in T : j <= i
  <2> HIDE DEF T
  <2> QED BY <1>1, LargestIndex
<1> DEFINE c == CHOOSE i \in T : \A j \in T : j <= i
<1>3. c \in T
  <2> HIDE DEF T
  <2> QED BY <1>2
<1>4. LastFor(q, ip) = q[c]
  BY DEF LastFor
<1>5. c \in 1 .. Len(q) /\ q[c].ip = ip
  BY <1>1, <1>3 DEF For
<1> QED
  BY <1>4, <1>5, ElementOfSeq

LEMMA FunctionIsSeq ==
    ASSUME NEW S, NEW n \in Nat, NEW q \in [1 .. n -> S]
    PROVE  q \in Seq(S)
BY IsASeq

(* A listing of finitely many rows is a sequence of rows.                  *)
LEMMA ListingType ==
    ASSUME NEW S, IsFiniteSet(S), NEW q \in Listings(S)
    PROVE  q \in Seq(S)
<1>1. Cardinality(S) \in Nat
  BY FS_CardinalityType
<1>2. q \in [1 .. Cardinality(S) -> S]
  BY DEF Listings
<1> QED
  BY <1>1, <1>2, FunctionIsSeq
-----------------------------------------------------------------------------
(* Type correctness: the gateway thread.                                   *)

LEMMA WriteType ==
    ASSUME NEW dev \in {"in", "out"}, NEW by \in MAC, NEW g \in Frame,
           writePacket(dev, by, g)
    PROVE  wire' \in Seq(Output)
BY DEF writePacket, Output

LEMMA NoWriteType == ASSUME wire' = <<>> PROVE wire' \in Seq(Output)
OBVIOUS

LEMMA IcmpType ==
    ASSUME NEW dev \in {"in", "out"}, NEW f \in Frame, icmp_mtu(dev, f)
    PROVE  wire' \in Seq(Output)
<1> DEFINE g == [f EXCEPT !.type = "icmp", !.smac = f.dmac, !.dmac = f.smac,
                          !.src = f.dst, !.dst = f.src]
<1>1. g \in Frame /\ f.smac \in MAC
  BY DEF Frame, FrameType
<1>2. CASE f.ok
  <2>1. writePacket(dev, f.smac, g)
    BY <1>2 DEF icmp_mtu
  <2> HIDE DEF g
  <2> QED
    BY <1>1, <2>1, WriteType
<1>3. CASE ~f.ok
  BY <1>3, NoWriteType DEF icmp_mtu
<1> QED
  BY <1>2, <1>3

(* What an inside or outside frame may change, typed.                      *)
LEMMA InsideType ==
    ASSUME TypeOK, InsideFrame
    PROVE  QueueTypeOK' /\ GatewayTypeOK'
<1> USE DEF TypeOK, QueueTypeOK, GatewayTypeOK
<1>1. PICK f \in InFrames : \/ InsideTooLong(f) \/ InsideDHCP(f) \/ InsideDrop(f)
                           \/ InsideForward(f) \/ InsideBadIterator(f)
                           \/ InsideOther(f)
  BY DEF InsideFrame
<1>2. f \in Frame
  OBVIOUS
<1>3. UNCHANGED <<now, toGateway, granted>>
  BY DEF InsideFrame
<1>4. CASE InsideTooLong(f)
  BY <1>2, <1>3, <1>4, IcmpType DEF InsideTooLong, ReadFrame, toGateway
<1>5. CASE InsideDHCP(f)
  <2>1. createDHCPRequestQueue' \in Seq([mac : MAC, isDiscover : BOOLEAN])
    BY <1>2, <1>5, AppendProperties DEF InsideDHCP, createDHCP, Frame
  <2> QED
    BY <1>3, <1>5, <2>1, NoWriteType DEF InsideDHCP, ReadFrame, toGateway
<1>6. CASE InsideDrop(f)
  BY <1>3, <1>6, NoWriteType DEF InsideDrop, ReadFrame, toGateway
<1>7. CASE InsideForward(f)
  <2>1. f.src \in IP /\ f.smac \in MAC
    BY <1>2 DEF Frame
  <2>2. userMap' \in [IP -> User \cup {NoUser}]
    <3>1. CASE NeedsUpdate(f)
      <4>1. userMap[f.src] \in User
        BY <2>1, <3>1 DEF NeedsUpdate, hasUser
      <4>2. [userMap[f.src] EXCEPT !.last_access = current_time] \in User
        BY <4>1 DEF User
      <4>3. userMap' = [userMap EXCEPT ![f.src] =
                            [userMap[f.src] EXCEPT !.last_access = current_time]]
        BY <1>7, <2>1, <3>1 DEF InsideForward, RefreshUser
      <4> QED
        BY <2>1, <4>2, <4>3
    <3> QED
      BY <1>7, <3>1 DEF InsideForward, RefreshUser
  <2>3. updateTimeQueue' \in Seq([mac : MAC, ip : IP, UTC : Nat])
    <3>1. CASE NeedsUpdate(f)
      <4>1. userMap[f.src] \in User
        BY <2>1, <3>1 DEF NeedsUpdate, hasUser
      <4>2. updateTimeQueue' = Append(updateTimeQueue,
                [mac |-> userMap[f.src].user_mac, ip |-> f.src,
                 UTC |-> current_time])
        BY <1>7, <3>1 DEF InsideForward, RefreshUser, updateTime
      <4>3. userMap[f.src].user_mac \in MAC
        BY <4>1 DEF User
      <4> QED
        BY <2>1, <4>2, <4>3, AppendProperties
    <3> QED
      BY <1>7, <3>1 DEF InsideForward, RefreshUser
  <2>4. wire' \in Seq(Output)
    <3> DEFINE g == IF hasUser(f.src) THEN [f EXCEPT !.smac = staticIPMap[f.src]]
                                      ELSE f
    <3>1. hasUser(f.src) => staticIPMap[f.src] \in MAC
      BY <1>7, <2>1 DEF InsideForward, isStatic
    <3>2. g \in Frame
      BY <1>2, <3>1 DEF Frame
    <3>3. writePacket("out", f.smac, g)
      BY <1>7 DEF InsideForward
    <3> HIDE DEF g
    <3> QED
      BY <2>1, <3>2, <3>3, WriteType
  <2>5. /\ burst' = burst + 1
        /\ UNCHANGED <<gpc, current_time, ready>>
        /\ UNCHANGED <<proc, staticIPMap, createDHCPRequestQueue>>
    BY <1>7, Zenon DEF InsideForward, ReadFrame
  <2> QED
    BY <1>3, <2>2, <2>3, <2>4, <2>5 DEF toGateway
<1>8. CASE InsideBadIterator(f)
  BY <1>3, <1>8, NoWriteType DEF InsideBadIterator, ReadFrame, toGateway
<1>9. CASE InsideOther(f)
  <2>1. wire' \in Seq(Output)
    BY <1>2, <1>9, WriteType DEF InsideOther, Frame
  <2> QED
    BY <1>3, <1>9, <2>1 DEF InsideOther, ReadFrame, toGateway
<1> QED
  BY <1>1, <1>4, <1>5, <1>6, <1>7, <1>8, <1>9

LEMMA OutsideType ==
    ASSUME TypeOK, OutsideFrame
    PROVE  QueueTypeOK' /\ GatewayTypeOK'
<1> USE DEF TypeOK, QueueTypeOK, GatewayTypeOK
<1>1. PICK f \in OutFrames : \/ OutsideTooLong(f) \/ OutsideDrop(f)
                            \/ OutsideForward(f) \/ OutsideOther(f)
  BY DEF OutsideFrame
<1>2. f \in Frame
  OBVIOUS
<1>3. UNCHANGED <<now, toGateway, toDatabase, granted>>
  BY DEF OutsideFrame
<1>4. ASSUME ForgetOrphan(f)
      PROVE  userMap' \in [IP -> User \cup {NoUser}]
  BY <1>4 DEF ForgetOrphan
<1>5. CASE OutsideTooLong(f)
  BY <1>2, <1>3, <1>5, IcmpType DEF OutsideTooLong, ReadFrame, toGateway, toDatabase
<1>6. CASE OutsideDrop(f)
  BY <1>3, <1>4, <1>6, NoWriteType DEF OutsideDrop, ReadFrame, toGateway, toDatabase
<1>7. CASE OutsideForward(f)
  <2>1. f.dst \in IP /\ f.smac \in MAC
    BY <1>2 DEF Frame
  <2>2. wire' \in Seq(Output)
    <3> DEFINE g == IF isStatic(f.dst) /\ hasUser(f.dst)
                    THEN [f EXCEPT !.dmac = userMap[f.dst].user_mac] ELSE f
    <3>1. hasUser(f.dst) => userMap[f.dst].user_mac \in MAC
      BY <2>1 DEF hasUser, User
    <3>2. g \in Frame
      BY <1>2, <3>1 DEF Frame
    <3>3. writePacket("in", f.smac, g)
      BY <1>7 DEF OutsideForward
    <3> HIDE DEF g
    <3> QED
      BY <2>1, <3>2, <3>3, WriteType
  <2>3. /\ burst' = burst + 1
        /\ UNCHANGED <<gpc, current_time, ready>>
        /\ ForgetOrphan(f)
        /\ UNCHANGED <<proc, staticIPMap>>
    BY <1>7, Zenon DEF OutsideForward, ReadFrame
  <2> QED
    BY <1>3, <1>4, <2>2, <2>3 DEF toGateway, toDatabase
<1>8. CASE OutsideOther(f)
  <2>1. wire' \in Seq(Output)
    BY <1>2, <1>8, WriteType DEF OutsideOther, Frame
  <2> QED
    BY <1>3, <1>8, <2>1 DEF OutsideOther, ReadFrame, toGateway, toDatabase
<1> QED
  BY <1>1, <1>5, <1>6, <1>7, <1>8

LEMMA HandlersType ==
    ASSUME TypeOK, Handlers
    PROVE  QueueTypeOK' /\ GatewayTypeOK'
<1> USE DEF TypeOK, QueueTypeOK, GatewayTypeOK
<1>1. UNCHANGED <<proc, now, toDatabase, granted>>
  BY DEF Handlers
<1>2. CASE add_static_ip
  <2>1. ASSUME NEW ip \in IP, For(staticIPAddRequest, ip) # {}
        PROVE  LastFor(staticIPAddRequest, ip).mac \in MAC
    <3>1. LastFor(staticIPAddRequest, ip) \in [ip : IP, mac : MAC]
      BY <2>1, LastForProperties
    <3> QED
      BY <3>1
  <2>2. staticIPMap' \in [IP -> MAC \cup {NoMAC}]
    BY <1>2, <2>1 DEF add_static_ip
  <2> QED
    BY <1>1, <1>2, <2>2, NoWriteType DEF add_static_ip, Handle, toDatabase
<1>3. CASE add_user
  <2>1. ASSUME NEW ip \in IP, For(userAddRequest, ip) # {}
        PROVE  [user_mac |-> LastFor(userAddRequest, ip).user_mac,
                last_access |-> LastFor(userAddRequest, ip).last_access] \in User
    <3>1. LastFor(userAddRequest, ip) \in userInfo
      BY <2>1, LastForProperties
    <3> QED
      BY <3>1 DEF userInfo, User
  <2>2. userMap' \in [IP -> User \cup {NoUser}]
    BY <1>3, <2>1 DEF add_user
  <2> QED
    BY <1>1, <1>3, <2>2, NoWriteType DEF add_user, Handle, toDatabase
<1>4. CASE del_user
  <2>1. userMap' \in [IP -> User \cup {NoUser}]
    BY <1>4 DEF del_user
  <2> QED
    BY <1>1, <1>4, <2>1, NoWriteType DEF del_user, Handle, toDatabase
<1>5. CASE send_packet
  <2>1. \A i \in 1 .. Len(sendPacketRequestQueue) :
            sendPacketRequestQueue[i] \in Frame
    BY ElementOfSeq
  <2>2. Len(sendPacketRequestQueue) \in Nat
        /\ DOMAIN sendPacketRequestQueue = 1 .. Len(sendPacketRequestQueue)
    BY LenProperties
  <2>3. wire' \in [1 .. Len(sendPacketRequestQueue) -> Output]
    BY <1>5, <2>1, <2>2 DEF send_packet, Output, Frame
  <2>4. wire' \in Seq(Output)
    BY <2>2, <2>3, FunctionIsSeq
  <2> QED
    BY <1>1, <1>5, <2>4 DEF send_packet, Handle, toDatabase
<1> QED
  BY <1>2, <1>3, <1>4, <1>5 DEF Handlers

LEMMA LoopType ==
    ASSUME TypeOK, Loop
    PROVE  QueueTypeOK' /\ GatewayTypeOK'
<1> USE DEF TypeOK, QueueTypeOK, GatewayTypeOK
<1>1. UNCHANGED <<proc, now, toGateway, toDatabase, granted>>
  BY DEF Loop
<1>2. CASE EndInside
  BY <1>1, <1>2, NoWriteType DEF EndInside, toGateway, toDatabase
<1>3. CASE Poll
  BY <1>1, <1>3, NoWriteType DEF Poll, toGateway, toDatabase
<1>4. CASE LoopTop
  BY <1>1, <1>4, NoWriteType DEF LoopTop, toGateway, toDatabase
<1> QED
  BY <1>2, <1>3, <1>4 DEF Loop

LEMMA GatewayStepType ==
    ASSUME TypeOK, GatewayStep
    PROVE  TypeOK'
<1>1. QueueTypeOK' /\ GatewayTypeOK'
  BY InsideType, OutsideType, HandlersType, LoopType DEF GatewayStep, GatewayNext
<1>2. DatabaseTypeOK'
  BY DEF TypeOK, GatewayStep, DatabaseTypeOK, TablesTypeOK, tables, databaseLocals
<1>3. lastSent' \in [IP -> Nat]
  BY DEF TypeOK, GatewayTypeOK, GatewayStep
<1> QED
  BY <1>1, <1>2, <1>3 DEF TypeOK
-----------------------------------------------------------------------------
(* Type correctness: the database thread.                                  *)

LEMMA UpdateType ==
    ASSUME TypeOK, UNCHANGED now,
           Wait \/ TakeUpdates \/ UpdateAccessTime \/ UpdateFails \/ UpdateDone
    PROVE  QueueTypeOK' /\ DatabaseTypeOK'
<1> USE DEF TypeOK, QueueTypeOK, DatabaseTypeOK, TablesTypeOK, update_time,
            dhcp_request, At
<1>1. CASE Wait
  BY <1>1 DEF Wait, tables, toGateway, toDatabase
<1>2. CASE TakeUpdates
  BY <1>2 DEF TakeUpdates, tables, toGateway
<1>3. ASSUME updates # <<>>
      PROVE  /\ Tail(updates) \in Seq(update_time)
             /\ Head(updates).ip \in IP /\ Head(updates).mac \in MAC
             /\ Head(updates).UTC \in Nat
             /\ Append(userDelRequest, Head(updates).ip) \in Seq(IP)
  <2>1. Head(updates) \in update_time /\ Tail(updates) \in Seq(update_time)
    BY <1>3, HeadTailProperties
  <2>2. Head(updates).ip \in IP
    BY <2>1
  <2> QED
    BY <2>1, <2>2, AppendProperties
<1>4. CASE UpdateAccessTime
  <2>1. accessed' \in [MAC -> Nat]
    BY <1>3, <1>4 DEF UpdateAccessTime
  <2>2. userDelRequest' \in Seq(IP)
    BY <1>3, <1>4 DEF UpdateAccessTime, delUserInfo
  <2>3. updates # <<>> /\ NextUpdate /\ dpc = "update"
    BY <1>4 DEF UpdateAccessTime
  <2> QED
    BY <1>3, <2>1, <2>2, <2>3 DEF NextUpdate, toDatabase
<1>5. CASE UpdateFails
  <2>1. userDelRequest' \in Seq(IP)
    BY <1>3, <1>5 DEF UpdateFails, delUserInfo
  <2> QED
    BY <1>3, <1>5, <2>1 DEF UpdateFails, NextUpdate, toDatabase
<1>6. CASE UpdateDone
  BY <1>6 DEF UpdateDone, tables, toGateway, toDatabase
<1> QED
  BY <1>1, <1>2, <1>4, <1>5, <1>6

LEMMA RequestType ==
    ASSUME TypeOK, requests # <<>>
    PROVE  /\ request \in dhcp_request /\ request.mac \in MAC
           /\ Tail(requests) \in Seq(dhcp_request)
<1>1. request \in dhcp_request /\ Tail(requests) \in Seq(dhcp_request)
  BY HeadTailProperties DEF TypeOK, DatabaseTypeOK, request
<1> QED
  BY <1>1 DEF dhcp_request

LEMMA CreateType ==
    ASSUME TypeOK, UNCHANGED now,
           \/ TakeRequests \/ SelectUser \/ SelectUnused \/ SelectUsing
           \/ DeleteDynamic \/ InsertDynamic \/ InsertFails
           \/ SelectMAC \/ SendReply \/ StatementFails \/ RequestsDone
    PROVE  QueueTypeOK' /\ DatabaseTypeOK'
<1> USE DEF TypeOK, QueueTypeOK, DatabaseTypeOK, TablesTypeOK, At, Statement,
            NoCall, Choose, NextRequest, toDatabase
<1>1. CASE TakeRequests
  BY <1>1 DEF TakeRequests, tables, toGateway, dhcp_request
<1>2. CASE SelectUser
  BY <1>2, RequestType DEF SelectUser
<1>3. CASE SelectUnused
  BY <1>3 DEF SelectUnused, Free
<1>4. CASE SelectUsing
  BY <1>4, RequestType DEF SelectUsing, Idle
<1>5. CASE DeleteDynamic
  BY <1>5 DEF DeleteDynamic
<1>6. CASE InsertDynamic
  BY <1>6, RequestType DEF InsertDynamic
<1>7. CASE InsertFails \/ StatementFails
  <2>1. ExitProcess
    BY <1>7, Zenon DEF InsertFails, StatementFails
  <2> QED
    BY <2>1 DEF ExitProcess, DatabaseReset, tables, toGateway
<1>8. CASE SelectMAC
  <2>1. request.mac \in MAC /\ cand \in IP /\ Tail(requests) \in Seq(dhcp_request)
    BY <1>8, RequestType DEF SelectMAC
  <2>2. /\ userAddRequest' \in Seq(userInfo)
        /\ granted' \in [IP -> MAC \cup {NoMAC}]
    <3>1. CASE UNCHANGED <<userAddRequest, granted>>
      BY <3>1
    <3> DEFINE info == [ip |-> cand, user_mac |-> request.mac, last_access |-> 0]
    <3>2. CASE addUserInfo(info)
      <4>1. info \in userInfo
        BY <2>1 DEF userInfo
      <4>2. info.ip = cand /\ info.user_mac = request.mac
        OBVIOUS
      <4> HIDE DEF info
      <4> QED
        BY <2>1, <3>2, <4>1, <4>2, AppendProperties DEF addUserInfo
    <3> QED
      BY <1>8, <3>1, <3>2 DEF SelectMAC
  <2> QED
    BY <1>8, <2>1, <2>2 DEF SelectMAC
<1>9. CASE SendReply
  <2>1. request \in dhcp_request /\ cand \in IP /\ Tail(requests) \in Seq(dhcp_request)
    BY <1>9, RequestType DEF SendReply
  <2>2. Reply(request, cand) \in Frame
    BY <2>1 DEF Reply, makePacket, writeResponse, Frame, FrameType, MessageType,
                dhcp_request
  <2>3. sendPacketRequestQueue' \in Seq(Frame)
    BY <1>9, <2>2, AppendProperties DEF SendReply, sendPacketRequest
  <2> QED
    BY <1>9, <2>1, <2>3 DEF SendReply
<1>10. CASE RequestsDone
  BY <1>10 DEF RequestsDone, tables, toGateway
<1> QED
  BY <1>1, <1>2, <1>3, <1>4, <1>5, <1>6, <1>7, <1>8, <1>9, <1>10

LEMMA DatabaseStepType ==
    ASSUME TypeOK, DatabaseStep
    PROVE  TypeOK'
<1>1. QueueTypeOK' /\ DatabaseTypeOK'
  BY UpdateType, CreateType DEF DatabaseStep, DatabaseNext
<1>2. GatewayTypeOK' /\ lastSent' \in [IP -> Nat]
  BY NoWriteType DEF TypeOK, DatabaseStep, GatewayTypeOK
<1> QED
  BY <1>1, <1>2 DEF TypeOK
-----------------------------------------------------------------------------
(* Type correctness: start-up and the environment.                         *)

LEMMA InitType == Init => TypeOK
<1> SUFFICES ASSUME Init PROVE TypeOK
  OBVIOUS
<1>1. QueueTypeOK
  BY DEF Init, Empty, QueueTypeOK
<1>2. GatewayTypeOK
  BY DEF Init, GatewayInit, GatewayTypeOK
<1>3. TablesTypeOK
  <2>1. PICK f \in [Machines -> SiteIP \cup {NoIP}] :
            userIP = [m \in MAC |-> IF m \in registered THEN f[m] ELSE NoIP]
    BY DEF Init, TablesInit
  <2>2. PICK a \in [Machines -> InitAccess] :
            accessed = [m \in MAC |-> IF m \in registered THEN a[m] ELSE 0]
    BY DEF Init, TablesInit
  <2>3. registered \subseteq Machines /\ static_ip = SiteIP
    BY DEF Init, TablesInit
  <2>4. userIP \in [MAC -> IP \cup {NoIP}]
    BY <2>1, <2>3
  <2>5. accessed \in [MAC -> Nat]
    <3>1. InitAccess \subseteq Nat
      OBVIOUS
    <3> QED
      BY <2>2, <2>3, <3>1
  <2> QED
    BY <2>3, <2>4, <2>5 DEF TablesTypeOK
<1>4. DatabaseTypeOK
  BY <1>3 DEF Init, DatabaseInit, DatabaseTypeOK
<1> QED
  BY <1>1, <1>2, <1>4 DEF Init, TypeOK

LEMMA LoadType ==
    ASSUME TypeOK, LoadStaticIP \/ LoadUser
    PROVE  TypeOK'
<1> USE DEF TypeOK, QueueTypeOK, GatewayTypeOK, DatabaseTypeOK, TablesTypeOK
<1>1. CASE LoadStaticIP
  <2> DEFINE rows == {[ip |-> ip, mac |-> StaticMAC[ip]] : ip \in static_ip}
             row == [ip \in static_ip |-> [ip |-> ip, mac |-> StaticMAC[ip]]]
  <2>1. IsFiniteSet(static_ip)
    BY FS_Subset
  <2>2. row \in Surjection(static_ip, rows)
    BY DEF Surjection
  <2>3. rows \subseteq [ip : IP, mac : MAC]
    OBVIOUS
  <2>4. PICK q \in Listings(rows) : staticIPAddRequest' = q
    BY <1>1 DEF LoadStaticIP
  <2> HIDE DEF rows, row
  <2>5. IsFiniteSet(rows)
    BY <2>1, <2>2, FS_Surjection
  <2>6. staticIPAddRequest' \in Seq([ip : IP, mac : MAC])
    <3> DEFINE Row == [ip : IP, mac : MAC]
    <3>1. q \in Seq(rows) /\ rows \subseteq Row
      BY <2>3, <2>4, <2>5, ListingType
    <3> HIDE DEF Row
    <3>2. q \in Seq(Row)
      BY <3>1, SeqMonotonic
    <3> QED
      BY <2>4, <3>2 DEF Row
  <2>7. /\ proc' = "loadUser"
        /\ UNCHANGED <<now, userAddRequest, userDelRequest, sendPacketRequestQueue,
                       toDatabase, granted, gatewayVars, tables, databaseLocals,
                       lastSent>>
    BY <1>1, Zenon DEF LoadStaticIP
  <2> QED
    BY <2>6, <2>7 DEF toDatabase, gatewayVars, tables, databaseLocals
<1>2. CASE LoadUser
  <2> DEFINE owners == {k \in registered : userIP[k] # NoIP}
             rows == {[ip |-> userIP[m], user_mac |-> m,
                       last_access |-> accessed[m]] : m \in owners}
             row == [m \in owners |-> [ip |-> userIP[m], user_mac |-> m,
                                       last_access |-> accessed[m]]]
  <2>1. IsFiniteSet(owners)
    BY FS_Subset
  <2>2. row \in Surjection(owners, rows)
    BY DEF Surjection
  <2>3. rows \subseteq userInfo
    BY DEF userInfo
  <2>4. PICK q \in Listings(rows) :
            /\ userAddRequest' = q
            /\ granted' = [ip \in IP |-> IF For(q, ip) = {} THEN NoMAC
                                         ELSE LastFor(q, ip).user_mac]
    BY <1>2 DEF LoadUser
  <2> HIDE DEF owners, rows, row
  <2>5. IsFiniteSet(rows)
    BY <2>1, <2>2, FS_Surjection
  <2>6. q \in Seq(userInfo)
    BY <2>3, <2>4, <2>5, ListingType, SeqMonotonic
  <2>7. ASSUME NEW ip \in IP, For(q, ip) # {}
        PROVE  LastFor(q, ip).user_mac \in MAC
    <3>1. LastFor(q, ip) \in userInfo
      BY <2>6, <2>7, LastForProperties
    <3> QED
      BY <3>1 DEF userInfo
  <2>8. granted' \in [IP -> MAC \cup {NoMAC}]
    BY <2>4, <2>7
  <2>9. /\ proc' = "serve" /\ current_time' = now
        /\ UNCHANGED <<now, staticIPAddRequest, userDelRequest,
                       sendPacketRequestQueue, toDatabase, staticIPMap, userMap,
                       gpc, burst, ready, wire, tables, databaseLocals, lastSent>>
    BY <1>2, Zenon DEF LoadUser
  <2> QED
    BY <2>4, <2>6, <2>8, <2>9 DEF toDatabase, tables, databaseLocals
<1> QED
  BY <1>1, <1>2

LEMMA EnvironmentType ==
    ASSUME TypeOK, Environment
    PROVE  TypeOK'
<1> USE DEF TypeOK, QueueTypeOK, GatewayTypeOK, DatabaseTypeOK, TablesTypeOK,
            queues, toGateway, toDatabase, gatewayVars, databaseLocals
<1>1. CASE Tick
  <2>1. now' \in Nat
    BY <1>1 DEF Tick
  <2>2. UNCHANGED <<proc, queues, gatewayVars, tables, databaseLocals, lastSent>>
    BY <1>1 DEF Tick
  <2> QED
    BY <2>1, <2>2 DEF tables
<1>2. CASE Kill \/ Restart
  <2>1. proc' \in {"loadIP", "down"} /\ MemoryLost
    BY <1>2, Zenon DEF Kill, Restart
  <2>2. QueueTypeOK'
    BY <2>1 DEF MemoryLost, EmptyNext
  <2>3. GatewayTypeOK'
    BY <2>1 DEF MemoryLost, GatewayReset
  <2>4. DatabaseTypeOK'
    <3>1. DatabaseReset /\ UNCHANGED tables
      BY <2>1, Zenon DEF MemoryLost
    <3>2. TablesTypeOK'
      BY <3>1 DEF tables
    <3>3. /\ dpc' = "idle" /\ dready' = {} /\ cand' = NoIP
          /\ updates' = <<>> /\ requests' = <<>>
      BY <3>1, Zenon DEF DatabaseReset
    <3> QED
      BY <3>2, <3>3, SMTT(30)
  <2>5. lastSent' \in [IP -> Nat]
    BY <2>1 DEF MemoryLost
  <2> QED
    BY <2>2, <2>3, <2>4, <2>5
<1>3. CASE AddUser
  BY <1>3 DEF AddUser, Edit
<1>4. CASE RemoveUser
  <2>1. PICK m \in registered : /\ registered' = registered \ {m}
                               /\ userIP' = [userIP EXCEPT ![m] = NoIP]
                               /\ accessed' = [accessed EXCEPT ![m] = 0]
    BY <1>4 DEF RemoveUser
  <2>2. TablesTypeOK'
    BY <1>4, <2>1 DEF RemoveUser
  <2> QED
    BY <1>4, <2>2 DEF RemoveUser, Edit
<1>5. CASE AssignIP
  BY <1>5 DEF AssignIP, Edit
<1>6. CASE AddIP
  BY <1>6 DEF AddIP, Edit
<1>7. CASE RemoveIP
  BY <1>7 DEF RemoveIP, Edit
<1> QED
  BY <1>1, <1>2, <1>3, <1>4, <1>5, <1>6, <1>7 DEF Environment

LEMMA NextType == TypeOK /\ [Next]_vars => TypeOK'
<1> SUFFICES ASSUME TypeOK, [Next]_vars PROVE TypeOK'
  OBVIOUS
<1>1. CASE UNCHANGED vars
  BY <1>1 DEF vars, TypeOK, QueueTypeOK, GatewayTypeOK, DatabaseTypeOK, TablesTypeOK,
              queues, toGateway, toDatabase, gatewayVars, tables, databaseLocals
<1> QED
  BY <1>1, GatewayStepType, DatabaseStepType, LoadType, EnvironmentType DEF Next

(* Every variable of the program keeps its type: among others, create_dhcp *)
(* has a request and an address in hand wherever it uses one.              *)
THEOREM TypeCorrect == Spec => []TypeOK
BY InitType, NextType, PTL DEF Spec
-----------------------------------------------------------------------------
(* No shared addresses.                                                    *)

LEMMA InitLease == Init => LeaseInv
BY DEF Init, DatabaseInit, TablesInit, LeaseInv, NoRowNoIP, CandReserved, NoSharedIP

LEMMA DatabaseLease ==
    ASSUME TypeOK, LeaseInv, DatabaseNext
    PROVE  LeaseInv'
<1> USE DEF LeaseInv, NoRowNoIP, CandReserved, NoSharedIP, At, Statement, Choose,
            NextRequest, request
<1>1. userIP \in [MAC -> IP \cup {NoIP}] /\ registered \subseteq MAC
      /\ (dpc = "insert" => request.mac \in MAC /\ cand \in IP)
  BY RequestType DEF TypeOK, DatabaseTypeOK, TablesTypeOK
<1>2. CASE Wait \/ TakeUpdates \/ UpdateDone \/ TakeRequests \/ RequestsDone
  BY <1>2 DEF Wait, TakeUpdates, UpdateDone, TakeRequests, RequestsDone, tables
<1>3. CASE UpdateAccessTime \/ UpdateFails
  BY <1>3 DEF UpdateAccessTime, UpdateFails, NextUpdate
<1>4. CASE SelectUser
  <2>1. request.mac \in MAC
    BY <1>4, RequestType DEF SelectUser
  <2> QED
    BY <1>1, <1>4, <2>1 DEF SelectUser
<1>5. CASE SelectUnused
  BY <1>1, <1>5 DEF SelectUnused, Free
<1>6. CASE SelectUsing \/ SelectMAC \/ SendReply
  BY <1>6 DEF SelectUsing, SelectMAC, SendReply
<1>7. CASE DeleteDynamic
  <2>1. cand \in IP
    BY <1>7 DEF DeleteDynamic, TypeOK, DatabaseTypeOK
  <2> QED
    BY <1>1, <1>7, <2>1 DEF DeleteDynamic
<1>8. CASE InsertDynamic
  <2>1. request.mac \in MAC /\ cand \in IP
        /\ \A m \in MAC : userIP[m] = cand => m = request.mac
    BY <1>1, <1>8 DEF InsertDynamic
  <2>2. /\ userIP' = IF request.mac \in registered
                     THEN [userIP EXCEPT ![request.mac] = cand] ELSE userIP
        /\ registered' = registered /\ dpc' = "mac"
    BY <1>8 DEF InsertDynamic
  <2> HIDE DEF request
  <2>3. NoSharedIP'
    BY <1>1, <2>1, <2>2
  <2>4. NoRowNoIP'
    BY <1>1, <2>1, <2>2
  <2> QED
    BY <2>2, <2>3, <2>4
<1>9. CASE InsertFails \/ StatementFails
  BY <1>9 DEF InsertFails, StatementFails, ExitProcess, DatabaseReset, tables
<1> QED
  BY <1>2, <1>3, <1>4, <1>5, <1>6, <1>7, <1>8, <1>9 DEF DatabaseNext

LEMMA EnvironmentLease ==
    ASSUME TypeOK, LeaseInv, "assignIP" \notin AdminOps, Environment
    PROVE  LeaseInv'
<1> USE DEF LeaseInv, NoRowNoIP, CandReserved, NoSharedIP, request
<1>1. userIP \in [MAC -> IP \cup {NoIP}] /\ registered \subseteq MAC
      /\ static_ip \subseteq IP /\ (dpc = "insert" => cand \in IP)
  BY DEF TypeOK, DatabaseTypeOK, TablesTypeOK
<1>2. CASE Tick
  BY <1>2 DEF Tick, tables, databaseLocals
<1>3. CASE Kill \/ Restart
  BY <1>3 DEF Kill, Restart, MemoryLost, DatabaseReset, tables
<1>4. CASE AddUser
  BY <1>1, <1>4 DEF AddUser, Edit, databaseLocals
<1>5. CASE RemoveUser
  <2>1. PICK m \in registered : /\ registered' = registered \ {m}
                               /\ userIP' = [userIP EXCEPT ![m] = NoIP]
    BY <1>5 DEF RemoveUser
  <2>2. UNCHANGED <<dpc, cand, requests>>
    BY <1>5 DEF RemoveUser, Edit, databaseLocals
  <2> QED
    BY <1>1, <2>1, <2>2
<1>6. CASE AddIP
  BY <1>6 DEF AddIP, Edit, databaseLocals
<1>7. CASE RemoveIP
  <2>1. PICK ip \in static_ip :
            userIP' = [m \in MAC |-> IF userIP[m] = ip THEN NoIP ELSE userIP[m]]
    BY <1>7 DEF RemoveIP
  <2>2. UNCHANGED <<registered, dpc, cand, requests>>
    BY <1>7 DEF RemoveIP, Edit, databaseLocals
  <2> QED
    BY <1>1, <2>1, <2>2
<1> QED
  BY <1>2, <1>3, <1>4, <1>5, <1>6, <1>7 DEF Environment, AssignIP, Edit

(* The invariant behind NoSharedIP is inductive.                           *)
LEMMA LeaseStep ==
    ASSUME TypeOK, LeaseInv, "assignIP" \notin AdminOps, [Next]_vars
    PROVE  LeaseInv'
<1> USE DEF LeaseInv, NoRowNoIP, CandReserved, NoSharedIP, request, tables,
            databaseLocals
<1>1. CASE UNCHANGED vars
  BY <1>1 DEF vars
<1>2. CASE LoadStaticIP \/ LoadUser
  BY <1>2 DEF LoadStaticIP, LoadUser
<1>3. CASE GatewayStep
  BY <1>3 DEF GatewayStep
<1> QED
  BY <1>1, <1>2, <1>3, DatabaseLease, EnvironmentLease DEF Next, DatabaseStep

(* However requests, frames, edits of the tables, failed statements and    *)
(* crashes interleave with the statements of create_dhcp, no two machines  *)
(* get the same address, as long as the administrator assigns none.        *)
THEOREM AddressesAreNotShared ==
    ASSUME "assignIP" \notin AdminOps
    PROVE  Spec => []NoSharedIP
<1>1. TypeOK /\ LeaseInv /\ [Next]_vars => LeaseInv'
  BY LeaseStep
<1>2. LeaseInv => NoSharedIP
  BY DEF LeaseInv
<1> QED
  BY <1>1, <1>2, InitLease, TypeCorrect, PTL DEF Spec
=============================================================================
