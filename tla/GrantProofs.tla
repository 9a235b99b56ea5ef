---------------------------- MODULE GrantProofs ----------------------------
(***************************************************************************)
(* The user the gateway holds for an address is the last one the address   *)
(* was granted to: grants overtake neither each other nor their removals.  *)
(***************************************************************************)
EXTENDS SystemProofs

USE SharedAssumption, GatewayAssumption, DatabaseAssumption, SystemAssumption
-----------------------------------------------------------------------------
(* The requests for an address after one more request: the new one is the  *)
(* last for its own address, nothing changes for the others.               *)
LEMMA AppendFor ==
    ASSUME NEW S, NEW q \in Seq(S), NEW e \in S, NEW ip
    PROVE  For(Append(q, e), ip) = IF e.ip = ip THEN For(q, ip) \cup {Len(q) + 1}
                                   ELSE For(q, ip)
<1>1. /\ Append(q, e) \in Seq(S) /\ Len(Append(q, e)) = Len(q) + 1
      /\ DOMAIN Append(q, e) = 1 .. Len(q) + 1
      /\ DOMAIN q = 1 .. Len(q) /\ Len(q) \in Nat
      /\ Append(q, e)[Len(q) + 1] = e
      /\ \A i \in 1 .. Len(q) : Append(q, e)[i] = q[i]
  BY AppendProperties, LenProperties
<1>2. 1 .. Len(q) + 1 = (1 .. Len(q)) \cup {Len(q) + 1}
  BY <1>1
<1> DEFINE a == Append(q, e)
           n == Len(q) + 1
<1>3. /\ DOMAIN a = (DOMAIN q) \cup {n}
      /\ a[n] = e
      /\ \A i \in DOMAIN q : a[i] = q[i]
  BY <1>1, <1>2
<1> HIDE DEF a, n
<1>4. {i \in DOMAIN a : a[i].ip = ip} = IF e.ip = ip
                                        THEN {i \in DOMAIN q : q[i].ip = ip} \cup {n}
                                        ELSE {i \in DOMAIN q : q[i].ip = ip}
  BY <1>3
<1> QED
  BY <1>4 DEF For, a, n

LEMMA AppendLastFor ==
    ASSUME NEW S, NEW q \in Seq(S), NEW e \in S, NEW ip
    PROVE  /\ e.ip = ip => LastFor(Append(q, e), ip) = e
           /\ e.ip # ip /\ For(q, ip) # {} => LastFor(Append(q, e), ip) = LastFor(q, ip)
<1> DEFINE a == Append(q, e)
           n == Len(q) + 1
           T == For(q, ip)
<1>1. /\ a[n] = e
      /\ \A i \in 1 .. Len(q) : a[i] = q[i]
      /\ Len(q) \in Nat
  BY AppendProperties, LenProperties
<1>2. T \in SUBSET (1 .. Len(q))
  BY LenProperties DEF For
<1>3. CASE e.ip = ip
  <2>1. For(a, ip) = T \cup {n}
    BY <1>3, AppendFor
  <2>2. LastFor(a, ip) = a[CHOOSE i \in T \cup {n} : \A j \in T \cup {n} : j <= i]
    BY <2>1, Zenon DEF LastFor
  <2> HIDE DEF a, T
  <2>3. n \in T \cup {n} /\ \A j \in T \cup {n} : j <= n
    BY <1>1, <1>2
  <2>4. \A i \in T \cup {n} : (\A j \in T \cup {n} : j <= i) => i = n
    BY <1>1, <1>2
  <2>5. (CHOOSE i \in T \cup {n} : \A j \in T \cup {n} : j <= i) = n
    <3> HIDE DEF n
    <3> QED BY <2>3, <2>4
  <2> QED
    BY <1>1, <1>3, <2>2, <2>5 DEF a
<1>4. CASE e.ip # ip /\ T # {}
  <2>1. For(a, ip) = T
    BY <1>4, AppendFor
  <2> DEFINE c == CHOOSE i \in T : \A j \in T : j <= i
  <2>2. LastFor(a, ip) = a[c] /\ LastFor(q, ip) = q[c]
    BY <2>1, Zenon DEF LastFor
  <2>3. \E i \in T : \A j \in T : j <= i
    <3> HIDE DEF T
    <3> QED BY <1>1, <1>2, <1>4, LargestIndex
  <2>4. c \in T
    <3> HIDE DEF T
    <3> QED BY <2>3
  <2> HIDE DEF c, T, a
  <2>5. a[c] = q[c]
    BY <1>1, <1>2, <2>4 DEF a
  <2> QED
    BY <1>4, <2>2, <2>5 DEF a
<1> QED
  BY <1>3, <1>4
-----------------------------------------------------------------------------
LEMMA InitGrant == Init => GrantInv
BY DEF Init, Empty, GatewayInit, GrantInv, OwnerIsLatest, QueuedIsLatest,
       EmptyWhileLoading, hasUser, For

(* A step that keeps the queued grants and, for every address it leaves a  *)
(* user, the user's MAC.                                                   *)
LEMMA KeepsOwners ==
    ASSUME GrantInv, UNCHANGED <<userAddRequest, granted>>, Loading' => Loading,
           \A ip \in IP : hasUser(ip)' => /\ hasUser(ip)
                                          /\ userMap'[ip].user_mac = userMap[ip].user_mac
    PROVE  GrantInv'
BY DEF GrantInv, OwnerIsLatest, QueuedIsLatest, EmptyWhileLoading

LEMMA FrameGrant ==
    ASSUME TypeOK, GrantInv, InsideFrame \/ OutsideFrame
    PROVE  GrantInv'
<1>1. userMap \in [IP -> User \cup {NoUser}] /\ current_time \in Nat
  BY DEF TypeOK, GatewayTypeOK
<1>2. UNCHANGED <<userAddRequest, granted>> /\ (Loading' => Loading)
  <2>1. UNCHANGED <<userAddRequest, granted>>
    BY DEF InsideFrame, OutsideFrame, toGateway
  <2>2. proc' \in {proc, "down"}
    BY DEF InsideFrame, OutsideFrame, InsideTooLong, InsideDHCP, InsideDrop,
           InsideForward, InsideBadIterator, InsideOther, OutsideTooLong,
           OutsideDrop, OutsideForward, OutsideOther
  <2> QED
    BY <2>1, <2>2 DEF Loading
<1>3. CASE InsideFrame
  <2>1. PICK f \in InFrames : \/ InsideTooLong(f) \/ InsideDHCP(f) \/ InsideDrop(f)
                              \/ InsideForward(f) \/ InsideBadIterator(f)
                              \/ InsideOther(f)
    BY <1>3, Zenon DEF InsideFrame
  <2>2. UNCHANGED userMap \/ RefreshUser(f)
    BY <2>1, Zenon DEF InsideTooLong, InsideDHCP, InsideDrop, InsideForward,
                       InsideBadIterator, InsideOther
  <2>3. CASE UNCHANGED userMap
    BY <1>2, <2>3, KeepsOwners DEF hasUser
  <2>4. CASE RefreshUser(f) /\ NeedsUpdate(f)
    <3>1. f.src \in IP
      BY <2>1 DEF Frame
    <3>2. userMap[f.src] \in User
      BY <1>1, <2>4, <3>1 DEF NeedsUpdate, hasUser
    <3>3. userMap' = [userMap EXCEPT ![f.src].last_access = current_time]
      BY <2>4, Zenon DEF RefreshUser
    <3>4. \A ip \in IP : hasUser(ip)' =>
              hasUser(ip) /\ userMap'[ip].user_mac = userMap[ip].user_mac
      BY <1>1, <2>4, <3>1, <3>2, <3>3 DEF NeedsUpdate, hasUser, User
    <3> QED
      BY <1>2, <3>4, KeepsOwners
  <2> QED
    BY <2>2, <2>3, <2>4 DEF RefreshUser
<1>4. CASE OutsideFrame
  <2>1. PICK f \in OutFrames : \/ OutsideTooLong(f) \/ OutsideDrop(f)
                               \/ OutsideForward(f) \/ OutsideOther(f)
    BY <1>4, Zenon DEF OutsideFrame
  <2>2. UNCHANGED userMap \/ userMap' = [userMap EXCEPT ![f.dst] = NoUser]
    BY <2>1 DEF OutsideTooLong, OutsideDrop, OutsideForward, OutsideOther,
                ForgetOrphan
  <2>3. \A ip \in IP : hasUser(ip)' =>
            hasUser(ip) /\ userMap'[ip].user_mac = userMap[ip].user_mac
    BY <1>1, <2>2 DEF hasUser
  <2> QED
    BY <1>2, <2>3, KeepsOwners
<1> QED
  BY <1>3, <1>4

LEMMA HandlersGrant ==
    ASSUME TypeOK, GrantInv, Handlers
    PROVE  GrantInv'
<1>1. /\ userMap \in [IP -> User \cup {NoUser}] /\ granted' = granted
      /\ proc' = proc /\ (Loading' => Loading)
  BY DEF TypeOK, GatewayTypeOK, Handlers, Loading
<1>2. CASE add_user
  <2>1. /\ userAddRequest' = <<>>
        /\ \A ip \in IP : userMap'[ip] =
               IF For(userAddRequest, ip) = {} THEN userMap[ip]
               ELSE [user_mac |-> LastFor(userAddRequest, ip).user_mac,
                     last_access |-> LastFor(userAddRequest, ip).last_access]
    BY <1>2 DEF add_user
  <2>2. \A ip \in IP : For(userAddRequest', ip) = {}
    BY <2>1 DEF For
  <2>3. ASSUME NEW ip \in IP, hasUser(ip)'
        PROVE  userMap'[ip].user_mac = granted[ip]
    <3>1. CASE For(userAddRequest, ip) = {}
      BY <2>1, <2>3, <3>1 DEF GrantInv, OwnerIsLatest, hasUser
    <3>2. CASE For(userAddRequest, ip) # {}
      <4> DEFINE info == LastFor(userAddRequest, ip)
      <4>1. userMap'[ip] = [user_mac |-> info.user_mac,
                            last_access |-> info.last_access]
        BY <2>1, <3>2, Zenon
      <4>2. info.user_mac = granted[ip]
        BY <3>2, Zenon DEF GrantInv, QueuedIsLatest
      <4> HIDE DEF info
      <4> QED
        BY <4>1, <4>2
    <3> QED
      BY <3>1, <3>2
  <2>4. OwnerIsLatest'
    BY <1>1, <2>3 DEF OwnerIsLatest
  <2>5. QueuedIsLatest'
    BY <2>1, <2>2 DEF QueuedIsLatest, For
  <2>6. ~Loading'
    BY <1>1, <1>2 DEF add_user, Handle, Loading
  <2> QED
    BY <2>4, <2>5, <2>6 DEF GrantInv, EmptyWhileLoading
<1>3. CASE del_user
  <2>1. \A ip \in IP : hasUser(ip)' =>
            hasUser(ip) /\ userMap'[ip].user_mac = userMap[ip].user_mac
    BY <1>3 DEF del_user, hasUser
  <2> QED
    BY <1>1, <1>3, <2>1, KeepsOwners DEF del_user
<1>4. CASE add_static_ip \/ send_packet
  BY <1>1, <1>4, KeepsOwners DEF add_static_ip, send_packet, hasUser
<1> QED
  BY <1>2, <1>3, <1>4 DEF Handlers

LEMMA DatabaseGrant ==
    ASSUME TypeOK, GrantInv, DatabaseStep
    PROVE  GrantInv'
<1>1. UNCHANGED userMap /\ ~Loading'
  <2>1. UNCHANGED userMap
    BY DEF DatabaseStep
  <2>2. proc = "serve" /\ proc' \in {"serve", "down"}
    BY DEF DatabaseStep, DatabaseNext, Wait, TakeUpdates, UpdateAccessTime,
           UpdateFails, UpdateDone, TakeRequests, SelectUser, SelectUnused,
           SelectUsing, DeleteDynamic, InsertDynamic, InsertFails, StatementFails,
           ExitProcess, SelectMAC, SendReply, RequestsDone, NextUpdate, Statement, At
  <2> QED
    BY <2>1, <2>2 DEF Loading
<1>2. CASE UNCHANGED <<userAddRequest, granted>>
  BY <1>1, <1>2, KeepsOwners DEF hasUser
<1>3. CASE SelectMAC /\ ~UNCHANGED <<userAddRequest, granted>>
  <2> DEFINE info == [ip |-> cand, user_mac |-> request.mac, last_access |-> 0]
  <2>1. cand \in IP /\ request.mac \in MAC
    BY <1>3, RequestType DEF SelectMAC, Statement, At, TypeOK, DatabaseTypeOK
  <2>2. info \in userInfo /\ info.ip = cand /\ info.user_mac = request.mac
    BY <2>1 DEF userInfo
  <2>3. addUserInfo(info)
    BY <1>3, Zenon DEF SelectMAC
  <2> HIDE DEF info
  <2>4. /\ userAddRequest \in Seq(userInfo)
        /\ granted \in [IP -> MAC \cup {NoMAC}]
        /\ userAddRequest' = Append(userAddRequest, info)
        /\ granted' = [granted EXCEPT ![cand] = request.mac]
    BY <2>2, <2>3 DEF addUserInfo, TypeOK, QueueTypeOK
  <2>5. ASSUME NEW ip \in IP
        PROVE  /\ hasUser(ip)' /\ For(userAddRequest', ip) = {}
                      => userMap'[ip].user_mac = granted'[ip]
               /\ For(userAddRequest', ip) # {}
                      => LastFor(userAddRequest', ip).user_mac = granted'[ip]
    <3>1. CASE ip = cand
      <4>1. LastFor(userAddRequest', ip) = info
        BY <2>2, <2>4, <3>1, AppendLastFor
      <4>2. For(userAddRequest', ip) # {}
        <5>1. For(userAddRequest', ip)
                  = For(userAddRequest, ip) \cup {Len(userAddRequest) + 1}
          BY <2>2, <2>4, <3>1, AppendFor
        <5> QED
          BY <5>1, Zenon
      <4> QED
        BY <2>1, <2>2, <2>4, <3>1, <4>1, <4>2
    <3>2. CASE ip # cand
      <4>1. For(userAddRequest', ip) = For(userAddRequest, ip)
        BY <2>2, <2>4, <3>2, AppendFor
      <4>2. For(userAddRequest, ip) # {}
                => LastFor(userAddRequest', ip) = LastFor(userAddRequest, ip)
        BY <2>2, <2>4, <3>2, AppendLastFor
      <4>3. granted'[ip] = granted[ip]
        BY <2>1, <2>4, <3>2
      <4> QED
        BY <1>1, <4>1, <4>2, <4>3 DEF GrantInv, OwnerIsLatest, QueuedIsLatest, hasUser
    <3> QED
      BY <3>1, <3>2
  <2> QED
    BY <1>1, <2>5 DEF GrantInv, OwnerIsLatest, QueuedIsLatest, EmptyWhileLoading
<1>4. SelectMAC \/ UNCHANGED <<userAddRequest, granted>>
  BY DEF DatabaseStep, DatabaseNext, Wait, TakeUpdates, UpdateAccessTime, UpdateFails,
         UpdateDone, TakeRequests, SelectUser, SelectUnused, SelectUsing,
         DeleteDynamic, InsertDynamic, InsertFails, StatementFails, ExitProcess,
         SendReply, RequestsDone, NextUpdate, NoCall, toGateway
<1> QED
  BY <1>2, <1>3, <1>4

LEMMA LoadGrant ==
    ASSUME TypeOK, GrantInv, LoadStaticIP \/ LoadUser
    PROVE  GrantInv'
<1>1. CASE LoadStaticIP
  BY <1>1, KeepsOwners DEF LoadStaticIP, gatewayVars, hasUser, Loading
<1>2. CASE LoadUser
  <2>1. UNCHANGED userMap /\ ~Loading' /\ Loading
    BY <1>2 DEF LoadUser, Loading
  <2>2. \A ip \in IP : ~hasUser(ip)'
    BY <2>1 DEF GrantInv, EmptyWhileLoading, hasUser
  <2>3. granted' = [ip \in IP |-> IF For(userAddRequest', ip) = {} THEN NoMAC
                                  ELSE LastFor(userAddRequest', ip).user_mac]
    BY <1>2, Zenon DEF LoadUser
  <2>4. QueuedIsLatest'
    BY <2>3 DEF QueuedIsLatest
  <2> QED
    BY <2>1, <2>2, <2>4 DEF GrantInv, OwnerIsLatest, EmptyWhileLoading
<1> QED
  BY <1>1, <1>2

LEMMA EnvironmentGrant ==
    ASSUME GrantInv, Environment
    PROVE  GrantInv'
<1>1. CASE Kill \/ Restart
  BY <1>1 DEF Kill, Restart, MemoryLost, EmptyNext, GatewayReset, GrantInv,
              OwnerIsLatest, QueuedIsLatest, EmptyWhileLoading, hasUser, For
<1>2. CASE Tick \/ AddUser \/ RemoveUser \/ AssignIP \/ AddIP \/ RemoveIP
  <2>1. UNCHANGED <<proc, userAddRequest, granted, userMap>>
    BY <1>2 DEF Tick, AddUser, RemoveUser, AssignIP, AddIP, RemoveIP, Edit, queues,
                toGateway, gatewayVars
  <2> QED
    BY <2>1, KeepsOwners DEF hasUser, Loading
<1> QED
  BY <1>1, <1>2 DEF Environment
-----------------------------------------------------------------------------
LEMMA GrantInvariant == Spec => []GrantInv
<1>1. TypeOK /\ GrantInv /\ [Next]_vars => GrantInv'
  <2> SUFFICES ASSUME TypeOK, GrantInv, [Next]_vars PROVE GrantInv'
    OBVIOUS
  <2>1. CASE UNCHANGED vars
    BY <2>1, KeepsOwners DEF vars, queues, toGateway, gatewayVars, hasUser, Loading
  <2>2. CASE GatewayStep
    <3>1. CASE Loop
      BY <3>1, KeepsOwners DEF Loop, EndInside, Poll, LoopTop, toGateway, hasUser,
                               Loading
    <3> QED
      BY <2>2, <3>1, FrameGrant, HandlersGrant DEF GatewayStep, GatewayNext
  <2> QED
    BY <2>1, <2>2, LoadGrant, DatabaseGrant, EnvironmentGrant DEF Next
<1> QED
  BY <1>1, InitGrant, TypeCorrect, PTL DEF Spec

(* Whatever the order in which grants, removals, frames, edits and crashes *)
(* happen, the gateway's user of an address is the one addUserInfo was     *)
(* last called with for it, unless a newer grant is still queued           *)
(* (gateway.cpp:105-120): add_user never lets an older grant win.          *)
THEOREM GrantsTakeEffectInOrder == Spec => []OwnerIsLatest
<1>1. GrantInv => OwnerIsLatest
  BY DEF GrantInv
<1> QED
  BY <1>1, GrantInvariant, PTL
=============================================================================
