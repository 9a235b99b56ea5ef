---------------------------- MODULE AccessProofs ----------------------------
(***************************************************************************)
(* No access time is lost on its way from the gateway's map through the    *)
(* queue and update_time to table user, so that create_dhcp never reclaims *)
(* the address of a machine that is active.                                *)
(***************************************************************************)
EXTENDS GrantProofs, PoolProofs

USE SharedAssumption, GatewayAssumption, DatabaseAssumption, SystemAssumption

(* The administrator brings back no machine whose row was deleted: the new *)
(* row would start with no access time at all.                             *)
NoReturn == "addUser" \notin AdminOps \/ "removeUser" \notin AdminOps

(* What the proofs need of the state.                                      *)
LEMMA AccessTypes ==
    ASSUME TypeOK
    PROVE  /\ userMap \in [IP -> User \cup {NoUser}] /\ lastSent \in [IP -> Nat]
           /\ accessed \in [MAC -> Nat] /\ registered \subseteq MAC
           /\ updateTimeQueue \in Seq(update_time) /\ updates \in Seq(update_time)
           /\ userDelRequest \in Seq(IP) /\ userAddRequest \in Seq(userInfo)
           /\ current_time \in Nat /\ now \in Nat
BY DEF TypeOK, QueueTypeOK, GatewayTypeOK, DatabaseTypeOK, TablesTypeOK, update_time

LEMMA UserTypes ==
    ASSUME TypeOK, NEW ip \in IP, hasUser(ip)
    PROVE  userMap[ip].user_mac \in MAC /\ userMap[ip].last_access \in Nat
<1>1. userMap[ip] \in User
  BY AccessTypes DEF hasUser
<1> QED
  BY <1>1 DEF User
-----------------------------------------------------------------------------
(* Queues that grow.                                                       *)

Extends(q, r) == \A i \in DOMAIN q : i \in DOMAIN r /\ r[i] = q[i]

LEMMA AppendExtends ==
    ASSUME NEW S, NEW q \in Seq(S), NEW e \in S
    PROVE  /\ Extends(q, Append(q, e))
           /\ \E i \in DOMAIN Append(q, e) : Append(q, e)[i] = e
<1>1. /\ DOMAIN Append(q, e) = 1 .. Len(q) + 1
      /\ DOMAIN q = 1 .. Len(q) /\ Len(q) \in Nat
      /\ Append(q, e)[Len(q) + 1] = e
      /\ \A i \in 1 .. Len(q) : Append(q, e)[i] = q[i]
  BY AppendProperties, LenProperties
<1>2. Len(q) + 1 \in DOMAIN Append(q, e)
  BY <1>1
<1>3. \A i \in DOMAIN q : i \in DOMAIN Append(q, e)
  BY <1>1
<1> QED
  BY <1>1, <1>2, <1>3, Zenon DEF Extends
-----------------------------------------------------------------------------
(* What is recorded of a user stays recorded.                              *)

Stable(ip) == \A t, s \in Nat : Recorded(ip, t, s) => Recorded(ip, t, s)'

(* Rows are deleted for good, and access times in the table move forward.  *)
RowsKept == \A m \in MAC : /\ Forgotten(m) => Forgotten(m)'
                           /\ \/ accessed'[m] \in Nat /\ accessed[m] <= accessed'[m]
                              \/ Forgotten(m)'

LEMMA RecordedKept ==
    ASSUME TypeOK, NEW ip \in IP, hasUser(ip), RowsKept,
           userMap'[ip].user_mac = userMap[ip].user_mac,
           Extends(updateTimeQueue, updateTimeQueue'), Extends(updates, updates'),
           DeletePending(ip) => DeletePending(ip)'
    PROVE  Stable(ip)
<1> SUFFICES ASSUME NEW t \in Nat, NEW s \in Nat, Recorded(ip, t, s)
             PROVE  Recorded(ip, t, s)'
  BY DEF Stable
<1>1. PICK m \in MAC : m = userMap[ip].user_mac
  BY UserTypes
<1>2. CASE t <= accessed[m] + s
  <2>1. \/ accessed'[m] \in Nat /\ accessed[m] <= accessed'[m]
        \/ Forgotten(m)'
    BY DEF RowsKept
  <2>2. accessed[m] \in Nat
    BY AccessTypes
  <2>3. accessed'[m] \in Nat /\ accessed[m] <= accessed'[m] => t <= accessed'[m] + s
    BY <1>2, <2>2
  <2> QED
    BY <1>1, <2>1, <2>3 DEF Recorded, Forgotten
<1>3. CASE Carries(updateTimeQueue, ip, t, s)
  <2>1. PICK i \in DOMAIN updateTimeQueue :
            /\ updateTimeQueue[i].ip = ip /\ updateTimeQueue[i].mac = m
            /\ t <= updateTimeQueue[i].UTC + s
    BY <1>1, <1>3 DEF Carries
  <2>2. i \in DOMAIN updateTimeQueue' /\ updateTimeQueue'[i] = updateTimeQueue[i]
    BY <2>1 DEF Extends
  <2>3. Carries(updateTimeQueue, ip, t, s)'
    BY <1>1, <2>1, <2>2 DEF Carries
  <2> QED
    BY <2>3 DEF Recorded
<1>4. CASE Carries(updates, ip, t, s)
  <2>1. PICK i \in DOMAIN updates :
            /\ updates[i].ip = ip /\ updates[i].mac = m
            /\ t <= updates[i].UTC + s
    BY <1>1, <1>4 DEF Carries
  <2>2. i \in DOMAIN updates' /\ updates'[i] = updates[i]
    BY <2>1 DEF Extends
  <2>3. Carries(updates, ip, t, s)'
    BY <1>1, <2>1, <2>2 DEF Carries
  <2> QED
    BY <2>3 DEF Recorded
<1>5. CASE DeletePending(ip)
  BY <1>5 DEF Recorded
<1>6. CASE Forgotten(m)
  <2>1. Forgotten(m)'
    BY <1>6 DEF RowsKept
  <2> QED
    BY <1>1, <2>1 DEF Recorded, Forgotten
<1> QED
  BY <1>1, <1>2, <1>3, <1>4, <1>5, <1>6 DEF Recorded

LEMMA RowsUnchanged ==
    ASSUME TypeOK, UNCHANGED <<accessed, registered>>
    PROVE  RowsKept
<1>1. \A m \in MAC : accessed[m] \in Nat /\ accessed[m] <= accessed[m]
  BY AccessTypes
<1> QED
  BY <1>1 DEF RowsKept, Forgotten

(* What has to hold of the user of one address.                            *)
UserRecorded(ip) == /\ Recorded(ip, userMap[ip].last_access, 0)
                    /\ Recorded(ip, lastSent[ip], Timeout)

(* A user that is left as it is, or of whom no frame counts any more.      *)
LEMMA UserKept ==
    ASSUME TypeOK, TypeOK', NEW ip \in IP, hasUser(ip), hasUser(ip)', UserRecorded(ip),
           Stable(ip), userMap'[ip].last_access = userMap[ip].last_access,
           lastSent'[ip] = lastSent[ip] \/ lastSent'[ip] = 0
    PROVE  UserRecorded(ip)'
<1>1. PICK t \in Nat : t = userMap[ip].last_access
  BY UserTypes
<1>2. PICK s \in Nat : s = lastSent[ip]
  BY AccessTypes
<1>3. Recorded(ip, t, 0)' /\ Recorded(ip, s, Timeout)'
  BY <1>1, <1>2 DEF Stable, UserRecorded
<1>4. PICK a \in MAC : a = userMap'[ip].user_mac
  <2>1. userMap'[ip] \in User
    BY DEF hasUser, TypeOK, GatewayTypeOK
  <2> QED
    BY <2>1 DEF User
<1>5. lastSent'[ip] = 0 => Recorded(ip, lastSent[ip], Timeout)'
  <2>1. accessed'[a] \in Nat
    BY DEF TypeOK, DatabaseTypeOK, TablesTypeOK
  <2>2. 0 <= accessed'[a] + Timeout
    BY <2>1
  <2> QED
    BY <1>4, <2>2 DEF Recorded
<1>6. Recorded(ip, userMap[ip].last_access, 0)'
  BY <1>1, <1>3 DEF Recorded, Carries
<1>7. lastSent'[ip] = lastSent[ip] => Recorded(ip, lastSent[ip], Timeout)'
  BY <1>2, <1>3 DEF Recorded, Carries
<1> QED
  BY <1>5, <1>6, <1>7 DEF UserRecorded

-----------------------------------------------------------------------------
(* The gateway thread.                                                     *)

(* Only a frame that InsideForward passes counts as sent by the user of    *)
(* its source address.                                                     *)
LEMMA OnlyForwardSends ==
    ASSUME TypeOK, GatewayNext, NEW ip \in IP, Sends(ip)
    PROVE  \E f \in InFrames : InsideForward(f) /\ f.src = ip
<1>1. PICK w : w = wire'
  OBVIOUS
<1>2. /\ w # <<>> /\ w[1].dev = "out" /\ Addressed(w[1].frame) /\ w[1].frame.src = ip
  BY <1>1 DEF Sends
<1>3. ASSUME NEW dev, NEW by, NEW g, writePacket(dev, by, g)
      PROVE  w[1].dev = dev /\ w[1].frame = g
  BY <1>1, <1>3 DEF writePacket
<1>4. ASSUME NEW dev, NEW f \in Frame, icmp_mtu(dev, f)
      PROVE  FALSE
  <2>1. PICK g : g = [f EXCEPT !.type = "icmp", !.smac = f.dmac, !.dmac = f.smac,
                               !.src = f.dst, !.dst = f.src]
    OBVIOUS
  <2>2. g.type = "icmp"
    BY <2>1 DEF Frame
  <2>3. writePacket(dev, f.smac, g)
    BY <1>1, <1>2, <1>4, <2>1, Zenon DEF icmp_mtu
  <2>4. w[1].frame = g
    BY <1>3, <2>3
  <2> QED
    BY <1>2, <2>2, <2>4 DEF Addressed, IsIP
<1>5. CASE InsideFrame
  <2>1. PICK f \in InFrames : \/ InsideTooLong(f) \/ InsideDHCP(f) \/ InsideDrop(f)
                              \/ InsideForward(f) \/ InsideBadIterator(f)
                              \/ InsideOther(f)
    BY <1>5, Zenon DEF InsideFrame
  <2>2. ~InsideTooLong(f)
    BY <1>4 DEF InsideTooLong
  <2>3. ~(InsideDHCP(f) \/ InsideDrop(f) \/ InsideBadIterator(f))
    BY <1>1, <1>2 DEF InsideDHCP, InsideDrop, InsideBadIterator
  <2>4. ~InsideOther(f)
    <3> SUFFICES ASSUME InsideOther(f) PROVE FALSE
      OBVIOUS
    <3>1. writePacket("out", f.smac, f) /\ f.type = "other"
      BY DEF InsideOther
    <3> QED
      BY <1>2, <1>3, <3>1 DEF Addressed, IsIP
  <2>5. ASSUME InsideForward(f) PROVE f.src = ip
    <3>1. PICK g : g = IF hasUser(f.src) THEN [f EXCEPT !.smac = staticIPMap[f.src]]
                       ELSE f
      OBVIOUS
    <3>2. writePacket("out", f.smac, g)
      BY <2>5, <3>1, Zenon DEF InsideForward
    <3>3. g.src = f.src
      BY <2>1, <3>1 DEF Frame
    <3> QED
      BY <1>2, <1>3, <3>2, <3>3
  <2> QED
    BY <2>1, <2>2, <2>3, <2>4, <2>5
<1>6. CASE OutsideFrame
  <2>1. PICK f \in OutFrames : \/ OutsideTooLong(f) \/ OutsideDrop(f)
                               \/ OutsideForward(f) \/ OutsideOther(f)
    BY <1>6, Zenon DEF OutsideFrame
  <2>2. ~OutsideTooLong(f)
    BY <1>4 DEF OutsideTooLong
  <2>3. ~OutsideDrop(f)
    BY <1>1, <1>2 DEF OutsideDrop
  <2>4. ~(OutsideForward(f) \/ OutsideOther(f))
    <3> SUFFICES ASSUME OutsideForward(f) \/ OutsideOther(f) PROVE FALSE
      OBVIOUS
    <3>1. \E g : writePacket("in", f.smac, g)
      BY Zenon DEF OutsideForward, OutsideOther
    <3> QED
      BY <1>2, <1>3, <3>1
  <2> QED
    BY <2>1, <2>2, <2>3, <2>4
<1>7. CASE Handlers /\ ~send_packet
  BY <1>1, <1>2, <1>7 DEF Handlers, add_static_ip, add_user, del_user
<1>8. CASE send_packet
  <2>1. PICK q : q = sendPacketRequestQueue
    OBVIOUS
  <2>2. q \in Seq(Frame) /\ w = [i \in DOMAIN q |-> [dev |-> "in", by |-> q[i].smac,
                                                      frame |-> q[i]]]
    BY <1>1, <1>8, <2>1 DEF send_packet, TypeOK, QueueTypeOK
  <2>3. 1 \in DOMAIN q
    <3>1. q # <<>>
      BY <1>2, <2>2
    <3> QED
      BY <2>2, <3>1, LenProperties, EmptySeq
  <2>4. w[1].dev = "in"
    BY <2>2, <2>3
  <2> QED
    BY <1>2, <2>4
<1>9. CASE Loop
  BY <1>1, <1>2, <1>9 DEF Loop, EndInside, Poll, LoopTop
<1> QED
  BY <1>5, <1>6, <1>7, <1>8, <1>9 DEF GatewayNext

(* When nothing of a user counts as sent, the history keeps or drops what  *)
(* it had.                                                                 *)
LEMMA NotSent ==
    ASSUME TypeOK, GatewayStep, NEW ip \in IP, ~Sends(ip)
    PROVE  lastSent'[ip] = (IF SameUser(ip) THEN lastSent[ip] ELSE 0)
BY DEF GatewayStep


(* A step of the gateway that leaves a user, the queues and the database   *)
(* as they are, except that access times and removals may be queued.       *)
LEMMA GatewayKeeps ==
    ASSUME TypeOK, TypeOK', UsersRecorded, GatewayStep,
           NEW ip \in IP, hasUser(ip), hasUser(ip)', userMap'[ip] = userMap[ip], ~Sends(ip),
           Extends(updateTimeQueue, updateTimeQueue'), UNCHANGED userDelRequest
    PROVE  UserRecorded(ip)'
<1>1. UNCHANGED <<accessed, registered, updates>>
  BY DEF GatewayStep, tables, databaseLocals
<1>2. RowsKept
  BY <1>1, RowsUnchanged
<1>3. Extends(updates, updates')
  BY <1>1 DEF Extends
<1>4. Stable(ip)
  BY <1>2, <1>3, RecordedKept DEF DeletePending
<1>5. UserRecorded(ip)
  BY DEF UsersRecorded, UserRecorded
<1>6. lastSent'[ip] = lastSent[ip] \/ lastSent'[ip] = 0
  BY NotSent
<1> QED
  BY <1>4, <1>5, <1>6, UserKept

(* The user whose frame InsideForward passes: its access time is refreshed *)
(* and queued, or recent enough.                                           *)
LEMMA SenderRecorded ==
    ASSUME TypeOK, TypeOK', UsersRecorded, GatewayStep, InsideFrame,
           NEW f \in InFrames, InsideForward(f), hasUser(f.src), hasUser(f.src)'
    PROVE  UserRecorded(f.src)'
<1>1. PICK ip \in IP : ip = f.src
  BY DEF Frame
<1>2. PICK c \in Nat : c = current_time
  BY AccessTypes
<1>3. PICK m \in MAC : m = userMap[ip].user_mac
  BY <1>1, UserTypes
<1>4. UNCHANGED <<accessed, registered, updates, userDelRequest>>
  BY DEF GatewayStep, InsideFrame, toGateway, tables, databaseLocals
<1>5. Addressed(f) /\ RefreshUser(f)
  BY DEF InsideForward
<1>6. lastSent'[ip] = c \/ lastSent'[ip] = lastSent[ip] \/ lastSent'[ip] = 0
  BY <1>2 DEF GatewayStep
<1>7. CASE NeedsUpdate(f)
  <2>1. PICK r : r = [mac |-> m, ip |-> ip, UTC |-> c]
    OBVIOUS
  <2>2. r \in update_time /\ r.mac = m /\ r.ip = ip /\ r.UTC = c
    BY <2>1 DEF update_time
  <2>3. updateTimeQueue' = Append(updateTimeQueue, r)
    BY <1>1, <1>2, <1>3, <1>5, <1>7, <2>1, Zenon DEF RefreshUser, updateTime
  <2>4. userMap' = [userMap EXCEPT ![ip].last_access = c]
    BY <1>1, <1>2, <1>5, <1>7, Zenon DEF RefreshUser
  <2>5. userMap[ip] \in User
    BY <1>1, AccessTypes DEF hasUser
  <2>6. userMap'[ip].user_mac = m /\ userMap'[ip].last_access = c
    BY <1>3, <2>4, <2>5, AccessTypes DEF User
  <2>7. PICK i \in DOMAIN updateTimeQueue' : updateTimeQueue'[i] = r
    <3>1. updateTimeQueue \in Seq(update_time)
      BY AccessTypes
    <3>2. \E i \in DOMAIN Append(updateTimeQueue, r) : Append(updateTimeQueue, r)[i] = r
      BY <2>2, <3>1, AppendExtends
    <3> QED
      BY <2>3, <3>2
  <2>8. Recorded(ip, c, 0)' /\ Recorded(ip, c, Timeout)'
    <3>1. c <= c + 0 /\ c <= c + Timeout
      OBVIOUS
    <3>2. Carries(updateTimeQueue, ip, c, 0)' /\ Carries(updateTimeQueue, ip, c, Timeout)'
      BY <2>2, <2>6, <2>7, <3>1 DEF Carries
    <3> QED
      BY <3>2 DEF Recorded
  <2>9. Extends(updateTimeQueue, updateTimeQueue') /\ Extends(updates, updates')
    BY <1>4, <2>2, <2>3, AppendExtends, AccessTypes DEF Extends
  <2>10. Stable(ip)
    <3>1. RowsKept
      BY <1>4, RowsUnchanged
    <3> QED
      BY <1>1, <1>3, <1>4, <2>6, <2>9, <3>1, RecordedKept DEF DeletePending
  <2>11. PICK s \in Nat : s = lastSent[ip]
    BY AccessTypes
  <2>12. Recorded(ip, s, Timeout)'
    BY <1>1, <2>10, <2>11 DEF Stable, UsersRecorded
  <2>13. accessed'[m] \in Nat
    BY <1>4, AccessTypes
  <2>14. 0 <= accessed'[m] + Timeout
    BY <2>13
  <2>15. Recorded(ip, lastSent[ip], Timeout)'
    BY <1>6, <2>6, <2>8, <2>11, <2>12, <2>14 DEF Recorded, Carries
  <2>16. Recorded(ip, userMap[ip].last_access, 0)'
    BY <2>6, <2>8 DEF Recorded, Carries
  <2> QED
    BY <1>1, <2>15, <2>16 DEF UserRecorded
<1>8. CASE ~NeedsUpdate(f)
  <2>1. UNCHANGED <<userMap, updateTimeQueue>>
    BY <1>5, <1>8 DEF RefreshUser
  <2>2. PICK l \in Nat : l = userMap[ip].last_access
    BY <1>1, UserTypes
  <2>3. c <= l + Timeout
    BY <1>1, <1>2, <1>5, <1>8, <2>2 DEF NeedsUpdate
  <2>4. Recorded(ip, l, 0)
    BY <1>1, <2>2 DEF UsersRecorded
  <2>5. Recorded(ip, c, Timeout)
    <3>1. accessed[m] \in Nat /\ (\A i \in DOMAIN updateTimeQueue : updateTimeQueue[i].UTC \in Nat)
          /\ (\A i \in DOMAIN updates : updates[i].UTC \in Nat)
      BY AccessTypes, Times
    <3>2. \A u \in Nat : l <= u + 0 => c <= u + Timeout
      BY <2>3
    <3>3. l <= accessed[m] + 0 => c <= accessed[m] + Timeout
      BY <3>1, <3>2
    <3>4. Carries(updateTimeQueue, ip, l, 0) => Carries(updateTimeQueue, ip, c, Timeout)
      BY <3>1, <3>2 DEF Carries
    <3>5. Carries(updates, ip, l, 0) => Carries(updates, ip, c, Timeout)
      BY <3>1, <3>2 DEF Carries
    <3> QED
      BY <1>3, <2>4, <3>3, <3>4, <3>5 DEF Recorded
  <2>6. PICK s \in Nat : s = lastSent[ip]
    BY AccessTypes
  <2>7. Recorded(ip, s, Timeout)
    BY <1>1, <2>6 DEF UsersRecorded
  <2>8. Stable(ip)
    <3>1. RowsKept
      BY <1>4, RowsUnchanged
    <3> QED
      BY <1>1, <1>4, <2>1, <3>1, RecordedKept DEF DeletePending, Extends
  <2>9. Recorded(ip, l, 0)' /\ Recorded(ip, c, Timeout)' /\ Recorded(ip, s, Timeout)'
    BY <2>4, <2>5, <2>7, <2>8 DEF Stable
  <2>10. accessed'[m] \in Nat
    BY <1>4, AccessTypes
  <2>11. 0 <= accessed'[m] + Timeout
    BY <2>10
  <2>12. Recorded(ip, lastSent[ip], Timeout)'
    BY <1>3, <1>6, <2>1, <2>6, <2>9, <2>11 DEF Recorded, Carries
  <2>13. Recorded(ip, userMap[ip].last_access, 0)'
    BY <2>1, <2>2, <2>9 DEF Recorded, Carries
  <2> QED
    BY <1>1, <2>12, <2>13 DEF UserRecorded
<1> QED
  BY <1>7, <1>8


LEMMA FrameAccess ==
    ASSUME TypeOK, TypeOK', UsersRecorded, GatewayStep, InsideFrame \/ OutsideFrame
    PROVE  UsersRecorded'
<1> SUFFICES ASSUME NEW ip \in IP, hasUser(ip)' PROVE UserRecorded(ip)'
  BY DEF UsersRecorded, UserRecorded
<1>1. UNCHANGED userDelRequest
  BY DEF InsideFrame, OutsideFrame, toGateway
<1>2. CASE InsideFrame
  <2>1. PICK f \in InFrames : \/ InsideTooLong(f) \/ InsideDHCP(f) \/ InsideDrop(f)
                              \/ InsideForward(f) \/ InsideBadIterator(f)
                              \/ InsideOther(f)
    BY <1>2, Zenon DEF InsideFrame
  <2>2. f.src \in IP
    BY <2>1 DEF Frame
  <2>3. UNCHANGED <<userMap, updateTimeQueue>> \/ (RefreshUser(f) /\ NeedsUpdate(f))
    BY <2>1, Zenon DEF InsideTooLong, InsideDHCP, InsideDrop, InsideForward,
                       InsideBadIterator, InsideOther, RefreshUser
  <2>4. \/ UNCHANGED <<userMap, updateTimeQueue>>
        \/ /\ InsideForward(f) /\ RefreshUser(f) /\ NeedsUpdate(f)
    BY <2>1, <2>3, Zenon DEF InsideTooLong, InsideDHCP, InsideDrop, InsideBadIterator,
                             InsideOther
  <2>5. CASE InsideForward(f) /\ RefreshUser(f) /\ NeedsUpdate(f)
    <3>1. CASE ip = f.src
      BY <1>2, <2>5, <3>1, SenderRecorded DEF NeedsUpdate
    <3>2. CASE ip # f.src
      <4>1. PICK c : c = current_time
        OBVIOUS
      <4>2. userMap' = [userMap EXCEPT ![f.src].last_access = c]
        BY <2>5, <4>1, Zenon DEF RefreshUser
      <4>3. userMap'[ip] = userMap[ip]
        BY <2>2, <3>2, <4>2, AccessTypes
      <4>4. hasUser(ip)
        BY <4>3 DEF hasUser
      <4>5. PICK r : r = [mac |-> userMap[f.src].user_mac, ip |-> f.src,
                          UTC |-> current_time]
        OBVIOUS
      <4>6. r \in update_time
        BY <2>2, <2>5, <4>5, UserTypes, AccessTypes DEF NeedsUpdate, update_time
      <4>7. updateTimeQueue' = Append(updateTimeQueue, r)
        BY <2>5, <4>5, Zenon DEF RefreshUser, updateTime
      <4>8. Extends(updateTimeQueue, updateTimeQueue')
        <5>1. updateTimeQueue \in Seq(update_time)
          BY AccessTypes
        <5> QED
          BY <4>6, <4>7, <5>1, AppendExtends
      <4>9. ~Sends(ip)
        <5> SUFFICES ASSUME Sends(ip) PROVE FALSE
          OBVIOUS
        <5>1. PICK g \in InFrames : InsideForward(g) /\ g.src = ip
          BY OnlyForwardSends DEF GatewayStep
        <5>2. PICK w : w = wire'
          OBVIOUS
        <5>3. ASSUME NEW h \in InFrames, InsideForward(h)
              PROVE  w[1].frame.src = h.src
          <6>1. PICK k : k = IF hasUser(h.src)
                             THEN [h EXCEPT !.smac = staticIPMap[h.src]] ELSE h
            OBVIOUS
          <6>2. writePacket("out", h.smac, k)
            BY <5>3, <6>1, Zenon DEF InsideForward
          <6>3. k.src = h.src
            BY <5>3, <6>1 DEF Frame
          <6>4. w[1].frame = k
            BY <5>2, <6>2 DEF writePacket
          <6> QED
            BY <6>3, <6>4
        <5>4. w[1].frame.src = g.src
          BY <5>1, <5>3
        <5>5. w[1].frame.src = f.src
          BY <2>5, <5>3
        <5> QED
          BY <3>2, <5>1, <5>4, <5>5
      <4> QED
        BY <1>1, <4>3, <4>4, <4>8, <4>9, GatewayKeeps
    <3> QED
      BY <3>1, <3>2
  <2>6. CASE UNCHANGED <<userMap, updateTimeQueue>>
    <3>1. hasUser(ip) /\ Extends(updateTimeQueue, updateTimeQueue')
      BY <2>6 DEF hasUser, Extends
    <3>2. CASE ~Sends(ip)
      BY <1>1, <2>6, <3>1, <3>2, GatewayKeeps
    <3>3. CASE Sends(ip)
      <4>1. PICK g \in InFrames : InsideForward(g) /\ g.src = ip
        BY <3>3, OnlyForwardSends DEF GatewayStep
      <4> QED
        BY <1>2, <3>1, <4>1, SenderRecorded
    <3> QED
      BY <3>2, <3>3
  <2> QED
    BY <2>4, <2>5, <2>6
<1>3. CASE OutsideFrame
  <2>1. PICK f \in OutFrames : \/ OutsideTooLong(f) \/ OutsideDrop(f)
                               \/ OutsideForward(f) \/ OutsideOther(f)
    BY <1>3, Zenon DEF OutsideFrame
  <2>2. UNCHANGED userMap \/ userMap' = [userMap EXCEPT ![f.dst] = NoUser]
    BY <2>1 DEF OutsideTooLong, OutsideDrop, OutsideForward, OutsideOther,
                ForgetOrphan
  <2>3. hasUser(ip) /\ userMap'[ip] = userMap[ip]
    BY <2>2, AccessTypes DEF hasUser
  <2>4. Extends(updateTimeQueue, updateTimeQueue')
    BY <1>3 DEF OutsideFrame, toDatabase, Extends
  <2>5. ~Sends(ip)
    <3> SUFFICES ASSUME Sends(ip) PROVE FALSE
      OBVIOUS
    <3>1. PICK g \in InFrames : InsideForward(g)
      BY OnlyForwardSends DEF GatewayStep
    <3>2. gpc = "in"
      BY <3>1 DEF InsideForward, ReadFrame
    <3>3. gpc = "out"
      BY <2>1 DEF OutsideTooLong, OutsideDrop, OutsideForward, OutsideOther, ReadFrame
    <3> QED
      BY <3>2, <3>3
  <2> QED
    BY <1>1, <2>3, <2>4, <2>5, GatewayKeeps
<1> QED
  BY <1>2, <1>3

(* Handlers and the loop send nothing of a user.                           *)
LEMMA QuietOutsideFrames ==
    ASSUME TypeOK, GatewayStep, NEW ip \in IP, Handlers \/ Loop
    PROVE  ~Sends(ip)
<1> SUFFICES ASSUME Sends(ip) PROVE FALSE
  OBVIOUS
<1>1. PICK g \in InFrames : InsideForward(g)
  BY OnlyForwardSends DEF GatewayStep
<1>2. gpc = "in" /\ gpc' = gpc /\ burst' = burst + 1
  BY <1>1 DEF InsideForward, ReadFrame
<1>3. gpc = "dispatch" \/ gpc' # gpc
  BY DEF Handlers, add_static_ip, add_user, del_user, send_packet, Handle, Loop,
         EndInside, Poll, LoopTop
<1> QED
  BY <1>2, <1>3


(* The grant that add_user leaves in the map is one that was queued.       *)
LEMMA LastIsRecorded ==
    ASSUME TypeOK, GrantsRecorded, NEW ip \in IP, For(userAddRequest, ip) # {}
    PROVE  LET u == LastFor(userAddRequest, ip) IN
           /\ u \in userInfo
           /\ u.last_access <= accessed[u.user_mac] \/ Forgotten(u.user_mac)
<1> DEFINE good(u) == u.last_access <= accessed[u.user_mac] \/ Forgotten(u.user_mac)
           S == {u \in userInfo : good(u)}
<1>1. PICK q \in Seq(userInfo) : q = userAddRequest
  BY AccessTypes
<1>2. \A i \in DOMAIN q : good(q[i])
  BY <1>1, Zenon DEF GrantsRecorded
<1> HIDE DEF good
<1>3. Len(q) \in Nat /\ q \in [1 .. Len(q) -> userInfo] /\ DOMAIN q = 1 .. Len(q)
  BY LenProperties
<1>4. q \in [1 .. Len(q) -> S]
  BY <1>2, <1>3
<1>5. q \in Seq(S)
  BY <1>3, <1>4, FunctionIsSeq
<1>6. LastFor(q, ip) \in S
  BY <1>1, <1>5, LastForProperties
<1> QED
  BY <1>1, <1>6 DEF good

LEMMA HandlersAccess ==
    ASSUME TypeOK, TypeOK', UsersRecorded, GrantsRecorded, GatewayStep, Handlers \/ Loop
    PROVE  UsersRecorded'
<1> SUFFICES ASSUME NEW ip \in IP, hasUser(ip)' PROVE UserRecorded(ip)'
  BY DEF UsersRecorded, UserRecorded
<1>1. UNCHANGED <<updateTimeQueue, updates, accessed, registered>>
  BY DEF Handlers, Loop, toDatabase, GatewayStep, tables, databaseLocals
<1>2. Extends(updateTimeQueue, updateTimeQueue') /\ Extends(updates, updates')
  BY <1>1 DEF Extends
<1>3. ~Sends(ip)
  BY QuietOutsideFrames
<1>4. RowsKept
  BY <1>1, RowsUnchanged
<1>5. lastSent'[ip] = lastSent[ip] \/ lastSent'[ip] = 0
  BY <1>3, NotSent
<1>6. CASE Loop \/ add_static_ip \/ send_packet
  <2>1. UNCHANGED <<userMap, userDelRequest>>
    BY <1>6 DEF Loop, EndInside, Poll, LoopTop, toGateway, add_static_ip, send_packet
  <2>2. hasUser(ip)
    BY <2>1 DEF hasUser
  <2> QED
    BY <1>2, <1>3, <2>1, <2>2, GatewayKeeps
<1>7. CASE del_user
  <2>1. userMap'[ip] = IF DeletePending(ip) THEN NoUser ELSE userMap[ip]
    BY <1>7 DEF del_user, DeletePending
  <2>2. ~DeletePending(ip) /\ hasUser(ip) /\ userMap'[ip] = userMap[ip]
    BY <2>1 DEF hasUser
  <2>3. Stable(ip)
    BY <1>2, <1>4, <2>2, RecordedKept
  <2>4. UserRecorded(ip)
    BY <2>2 DEF UsersRecorded, UserRecorded
  <2> QED
    BY <1>5, <2>2, <2>3, <2>4, UserKept
<1>8. CASE add_user
  <2>1. userMap'[ip] = IF For(userAddRequest, ip) = {} THEN userMap[ip]
                       ELSE [user_mac |-> LastFor(userAddRequest, ip).user_mac,
                             last_access |-> LastFor(userAddRequest, ip).last_access]
    BY <1>8, Zenon DEF add_user
  <2>2. UNCHANGED userDelRequest
    BY <1>8 DEF add_user
  <2>3. CASE For(userAddRequest, ip) = {}
    <3>1. userMap'[ip] = userMap[ip] /\ hasUser(ip)
      BY <2>1, <2>3 DEF hasUser
    <3> QED
      BY <1>2, <1>3, <2>2, <3>1, GatewayKeeps
  <2>4. CASE For(userAddRequest, ip) # {}
    <3>1. PICK u : u = LastFor(userAddRequest, ip)
      OBVIOUS
    <3>2. /\ u \in userInfo
          /\ u.last_access <= accessed[u.user_mac] \/ Forgotten(u.user_mac)
      BY <2>4, <3>1, LastIsRecorded
    <3>3. PICK m \in MAC, t \in Nat : m = u.user_mac /\ t = u.last_access
      BY <3>2 DEF userInfo
    <3>4. userMap'[ip].user_mac = m /\ userMap'[ip].last_access = t
      BY <2>1, <2>4, <3>1, <3>3
    <3>5. accessed'[m] \in Nat
      BY <1>1, AccessTypes
    <3>6. t <= accessed'[m] + 0 \/ Forgotten(m)'
      BY <1>1, <3>2, <3>3, <3>5 DEF Forgotten
    <3>7. Recorded(ip, userMap[ip].last_access, 0)'
      BY <3>4, <3>6 DEF Recorded, Forgotten
    <3>8. CASE lastSent'[ip] = 0
      <4>1. 0 <= accessed'[m] + Timeout
        BY <3>5
      <4>2. Recorded(ip, lastSent[ip], Timeout)'
        BY <3>4, <3>8, <4>1 DEF Recorded
      <4> QED
        BY <3>7, <4>2 DEF UserRecorded
    <3>9. CASE SameUser(ip) /\ lastSent'[ip] = lastSent[ip]
      <4>1. hasUser(ip) /\ userMap'[ip].user_mac = userMap[ip].user_mac
        BY <3>9 DEF SameUser
      <4>2. Stable(ip)
        BY <1>2, <1>4, <2>2, <4>1, RecordedKept DEF DeletePending
      <4>3. PICK s \in Nat : s = lastSent[ip]
        BY AccessTypes
      <4>4. Recorded(ip, s, Timeout)'
        BY <4>1, <4>2, <4>3 DEF Stable, UsersRecorded
      <4>5. Recorded(ip, lastSent[ip], Timeout)'
        BY <3>9, <4>3, <4>4 DEF Recorded, Carries
      <4> QED
        BY <3>7, <4>5 DEF UserRecorded
    <3> QED
      BY <1>3, <3>8, <3>9, NotSent
  <2> QED
    BY <2>3, <2>4
<1> QED
  BY <1>6, <1>7, <1>8 DEF Handlers

(* Queued grants stay recorded.                                            *)
LEMMA GrantsKept ==
    ASSUME TypeOK, GrantsRecorded, RowsKept, UNCHANGED userAddRequest
    PROVE  GrantsRecorded'
<1>1. ASSUME NEW i \in DOMAIN userAddRequest
      PROVE  LET u == userAddRequest[i] IN
             u.last_access <= accessed'[u.user_mac] \/ Forgotten(u.user_mac)'
  <2>1. PICK u \in userInfo : u = userAddRequest[i]
    BY AccessTypes, ElementOfSeq, LenProperties
  <2>2. u.user_mac \in MAC /\ u.last_access \in Nat /\ accessed[u.user_mac] \in Nat
    BY <2>1, AccessTypes DEF userInfo
  <2>3. u.last_access <= accessed[u.user_mac] \/ Forgotten(u.user_mac)
    BY <1>1, <2>1 DEF GrantsRecorded
  <2>4. u.last_access <= accessed'[u.user_mac] \/ Forgotten(u.user_mac)'
    BY <2>2, <2>3 DEF RowsKept
  <2> QED
    BY <2>1, <2>4
<1> QED
  BY <1>1 DEF GrantsRecorded, Forgotten

LEMMA GatewayAccess ==
    ASSUME TypeOK, TypeOK', AccessInv, GatewayStep
    PROVE  AccessInv'
<1>1. UNCHANGED <<accessed, registered, updates, dpc>>
  BY DEF GatewayStep, tables, databaseLocals
<1>2. UsersRecorded'
  BY FrameAccess, HandlersAccess DEF GatewayStep, GatewayNext, AccessInv
<1>3. userAddRequest' = userAddRequest \/ userAddRequest' = <<>>
  BY DEF GatewayStep, GatewayNext, InsideFrame, OutsideFrame, Handlers, Loop,
         toGateway, add_static_ip, add_user, del_user, send_packet
<1>4. GrantsRecorded'
  <2>1. CASE userAddRequest' = <<>>
    BY <2>1 DEF GrantsRecorded
  <2>2. CASE userAddRequest' = userAddRequest
    BY <1>1, <2>2, RowsUnchanged, GrantsKept DEF AccessInv
  <2> QED
    BY <1>3, <2>1, <2>2
<1>5. NoUpdates'
  BY <1>1 DEF AccessInv, NoUpdates
<1> QED
  BY <1>2, <1>4, <1>5 DEF AccessInv

-----------------------------------------------------------------------------
(* The database thread and main.                                           *)

(* What a step leaves recorded of the users it leaves alone.               *)
LEMMA UsersKept ==
    ASSUME TypeOK, TypeOK', UsersRecorded, UNCHANGED <<userMap, lastSent>>,
           \A ip \in IP : hasUser(ip) => Stable(ip)
    PROVE  UsersRecorded'
<1> SUFFICES ASSUME NEW ip \in IP, hasUser(ip)' PROVE UserRecorded(ip)'
  BY DEF UsersRecorded, UserRecorded
<1>1. hasUser(ip) /\ userMap'[ip] = userMap[ip] /\ lastSent'[ip] = lastSent[ip]
  BY DEF hasUser
<1>2. UserRecorded(ip)
  BY <1>1 DEF UsersRecorded, UserRecorded
<1> QED
  BY <1>1, <1>2, UserKept

(* update_time takes the queue: it has nothing else in hand.               *)
LEMMA TakenRecorded ==
    ASSUME TypeOK, NoUpdates, DatabaseStep, TakeUpdates, NEW ip \in IP, hasUser(ip)
    PROVE  Stable(ip)
<1> SUFFICES ASSUME NEW t \in Nat, NEW s \in Nat, Recorded(ip, t, s)
             PROVE  Recorded(ip, t, s)'
  BY DEF Stable
<1>1. /\ updates = <<>> /\ updates' = updateTimeQueue
      /\ UNCHANGED <<userMap, accessed, registered, userDelRequest>>
  BY DEF NoUpdates, DatabaseStep, TakeUpdates, At, toGateway, tables
<1>2. ~Carries(updates, ip, t, s)
  BY <1>1 DEF Carries
<1>3. Carries(updateTimeQueue, ip, t, s) => Carries(updates, ip, t, s)'
  BY <1>1 DEF Carries
<1> QED
  BY <1>1, <1>2, <1>3 DEF Recorded, DeletePending, Forgotten

(* update_time works off one access time: it is in the table then, or the  *)
(* gateway is told to remove the user.                                     *)
LEMMA WrittenRecorded ==
    ASSUME TypeOK, TypeOK', TimesInOrder, DatabaseStep, UpdateAccessTime \/ UpdateFails
    PROVE  RowsKept /\ \A ip \in IP : hasUser(ip) => Stable(ip)
<1>1. /\ updates # <<>> /\ updates' = Tail(updates)
      /\ UNCHANGED <<userMap, registered, updateTimeQueue>>
  BY DEF DatabaseStep, UpdateAccessTime, UpdateFails, NextUpdate, toDatabase
<1>2. PICK r \in update_time : r = Head(updates)
  BY <1>1, HeadTailProperties, AccessTypes
<1>3. /\ 1 \in DOMAIN updates /\ updates[1] = r
      /\ \A i \in DOMAIN updates : i = 1 \/ (i - 1 \in DOMAIN updates'
                                             /\ updates'[i - 1] = updates[i])
  <2>1. PICK n \in Nat : n = Len(updates)
    BY AccessTypes, LenProperties
  <2>2. /\ n > 0 /\ DOMAIN updates = 1 .. n /\ r = updates[1]
        /\ DOMAIN updates' = 1 .. n - 1
        /\ \A i \in 1 .. n - 1 : updates'[i] = updates[i + 1]
    BY <1>1, <1>2, <2>1, HeadTailProperties, LenProperties, EmptySeq, AccessTypes
  <2>3. 1 \in DOMAIN updates
    BY <2>2
  <2>4. ASSUME NEW i \in DOMAIN updates, i # 1
        PROVE  i - 1 \in DOMAIN updates' /\ updates'[i - 1] = updates[i]
    <3>1. i - 1 \in 1 .. n - 1 /\ (i - 1) + 1 = i
      BY <2>2, <2>4
    <3> QED
      BY <2>2, <3>1
  <2> QED
    BY <2>2, <2>3, <2>4
<1>4. r.mac \in MAC /\ r.ip \in IP /\ r.UTC \in Nat
  BY <1>2 DEF update_time
<1>5. \A m \in MAC : accessed[m] <= r.UTC
  BY <1>3 DEF TimesInOrder, LaterThanTable
<1>6. \/ /\ Changes(r) /\ accessed' = [accessed EXCEPT ![r.mac] = r.UTC]
         /\ UNCHANGED userDelRequest
      \/ /\ UNCHANGED accessed /\ userDelRequest' = Append(userDelRequest, r.ip)
  BY <1>2 DEF UpdateAccessTime, UpdateFails, delUserInfo
<1>7. \A m \in MAC : accessed[m] \in Nat /\ accessed'[m] \in Nat
                     /\ accessed[m] <= accessed'[m]
  <2>1. \A m \in MAC : accessed[m] \in Nat /\ accessed[m] <= accessed[m]
    BY AccessTypes
  <2>2. accessed \in [MAC -> Nat]
    BY AccessTypes
  <2> QED
    BY <1>4, <1>5, <1>6, <2>1, <2>2
<1>8. RowsKept
  BY <1>1, <1>7 DEF RowsKept, Forgotten
<1>9. /\ \A ip : DeletePending(ip) => DeletePending(ip)'
      /\ accessed'[r.mac] = r.UTC \/ DeletePending(r.ip)'
  <2>1. CASE UNCHANGED userDelRequest /\ accessed' = [accessed EXCEPT ![r.mac] = r.UTC]
    BY <1>4, <2>1, AccessTypes DEF DeletePending
  <2>2. CASE userDelRequest' = Append(userDelRequest, r.ip)
    <3>1. userDelRequest \in Seq(IP)
      BY AccessTypes
    <3>2. Extends(userDelRequest, userDelRequest')
          /\ \E i \in DOMAIN userDelRequest' : userDelRequest'[i] = r.ip
      BY <1>4, <2>2, <3>1, AppendExtends
    <3> QED
      BY <3>2 DEF DeletePending, Extends
  <2> QED
    BY <1>6, <2>1, <2>2
<1>10. ASSUME NEW ip \in IP, hasUser(ip) PROVE Stable(ip)
  <2> SUFFICES ASSUME NEW t \in Nat, NEW s \in Nat, Recorded(ip, t, s)
               PROVE  Recorded(ip, t, s)'
    BY DEF Stable
  <2>1. PICK m \in MAC : m = userMap[ip].user_mac
    BY <1>10, UserTypes
  <2>2. userMap'[ip].user_mac = m
    BY <1>1, <2>1
  <2>3. CASE t <= accessed[m] + s
    <3>1. t <= accessed'[m] + s
      <4>1. accessed[m] \in Nat /\ accessed'[m] \in Nat /\ accessed[m] <= accessed'[m]
        BY <1>7
      <4> QED
        BY <2>3, <4>1
    <3> QED
      BY <2>2, <3>1 DEF Recorded
  <2>4. CASE Carries(updateTimeQueue, ip, t, s)
    BY <1>1, <2>4 DEF Carries, Recorded
  <2>5. CASE Carries(updates, ip, t, s)
    <3>1. PICK i \in DOMAIN updates : /\ updates[i].ip = ip /\ updates[i].mac = m
                                      /\ t <= updates[i].UTC + s
      BY <2>1, <2>5 DEF Carries
    <3>2. CASE i = 1
      <4>1. r.ip = ip /\ r.mac = m /\ t <= r.UTC + s
        BY <1>3, <3>1, <3>2
      <4>2. t <= accessed'[m] + s \/ DeletePending(ip)'
        BY <1>9, <4>1
      <4> QED
        BY <2>2, <4>2 DEF Recorded
    <3>3. CASE i - 1 \in DOMAIN updates' /\ updates'[i - 1] = updates[i]
      <4>1. Carries(updates, ip, t, s)'
        BY <2>2, <3>1, <3>3 DEF Carries
      <4> QED
        BY <4>1 DEF Recorded
    <3> QED
      BY <1>3, <3>1, <3>2, <3>3
  <2>6. CASE DeletePending(ip)
    BY <1>9, <2>6 DEF Recorded
  <2>7. CASE Forgotten(m)
    BY <1>1, <2>2, <2>7 DEF Recorded, Forgotten
  <2> QED
    BY <2>1, <2>3, <2>4, <2>5, <2>6, <2>7 DEF Recorded
<1> QED
  BY <1>8, <1>10


(* Every other step of the thread leaves access times alone; a grant it    *)
(* makes starts with none.                                                 *)
LEMMA DatabaseAccess ==
    ASSUME TypeOK, TypeOK', TimesInOrder, AccessInv, DatabaseStep
    PROVE  AccessInv'
<1>1. UNCHANGED <<userMap, lastSent>>
  BY DEF DatabaseStep
<1>2. CASE TakeUpdates
  <2>1. /\ UNCHANGED <<accessed, registered, userAddRequest>> /\ dpc' = "update"
    BY <1>2 DEF TakeUpdates, tables, toGateway
  <2>2. UsersRecorded'
    BY <1>1, <1>2, TakenRecorded, UsersKept DEF AccessInv
  <2>3. GrantsRecorded'
    BY <2>1, RowsUnchanged, GrantsKept DEF AccessInv
  <2> QED
    BY <2>1, <2>2, <2>3 DEF AccessInv, NoUpdates
<1>3. CASE UpdateAccessTime \/ UpdateFails
  <2>1. UNCHANGED userAddRequest /\ dpc' = "update"
    BY <1>3 DEF UpdateAccessTime, UpdateFails, NextUpdate, At
  <2>2. UsersRecorded'
    BY <1>1, <1>3, WrittenRecorded, UsersKept DEF AccessInv
  <2>3. GrantsRecorded'
    BY <1>3, <2>1, WrittenRecorded, GrantsKept DEF AccessInv
  <2> QED
    BY <2>1, <2>2, <2>3 DEF AccessInv, NoUpdates
<1>4. CASE \/ Wait \/ UpdateDone \/ TakeRequests \/ SelectUser \/ SelectUnused
           \/ SelectUsing \/ DeleteDynamic \/ InsertDynamic \/ SelectMAC \/ SendReply
           \/ RequestsDone \/ InsertFails \/ StatementFails
  <2>1. UNCHANGED <<accessed, registered, updateTimeQueue, userDelRequest>>
    BY <1>4 DEF Wait, UpdateDone, TakeRequests, SelectUser, SelectUnused, SelectUsing,
                DeleteDynamic, InsertDynamic, SelectMAC, SendReply, RequestsDone,
                InsertFails, StatementFails, ExitProcess, Statement, tables, toGateway,
                toDatabase
  <2>2. updates' = updates /\ (dpc' # "update" => updates = <<>>)
    <3>1. CASE InsertFails \/ StatementFails
      <4>1. updates = <<>>
        BY <3>1 DEF InsertFails, StatementFails, At, AccessInv, NoUpdates
      <4> QED
        BY <3>1, <4>1 DEF InsertFails, StatementFails, ExitProcess, DatabaseReset
    <3>2. CASE UpdateDone \/ Wait
      BY <3>2 DEF UpdateDone, Wait, AccessInv, NoUpdates
    <3>3. CASE \/ TakeRequests \/ SelectUser \/ SelectUnused
               \/ SelectUsing \/ DeleteDynamic \/ InsertDynamic \/ SelectMAC \/ SendReply
               \/ RequestsDone
      BY <3>3 DEF TakeRequests, SelectUser, SelectUnused, SelectUsing, DeleteDynamic,
                  InsertDynamic, SelectMAC, SendReply, RequestsDone, Statement, At,
                  AccessInv, NoUpdates
    <3> QED
      BY <1>4, <3>1, <3>2, <3>3
  <2>3. RowsKept
    BY <2>1, RowsUnchanged
  <2>4. UsersRecorded'
    <3>1. \A ip \in IP : hasUser(ip) => Stable(ip)
      BY <1>1, <2>1, <2>2, <2>3, RecordedKept DEF Extends, DeletePending
    <3> QED
      BY <1>1, <3>1, UsersKept DEF AccessInv
  <2>5. GrantsRecorded'
    <3>1. CASE UNCHANGED userAddRequest
      BY <2>3, <3>1, GrantsKept DEF AccessInv
    <3>2. CASE SelectMAC /\ ~UNCHANGED userAddRequest
      <4>1. PICK u : u = [ip |-> cand, user_mac |-> request.mac, last_access |-> 0]
        OBVIOUS
      <4>2. cand \in IP /\ request.mac \in MAC
        BY <3>2, RequestType DEF SelectMAC, Statement, At, TypeOK, DatabaseTypeOK
      <4>3. u \in userInfo /\ u.user_mac \in MAC /\ u.last_access = 0
        BY <4>1, <4>2 DEF userInfo
      <4>4. userAddRequest' = Append(userAddRequest, u)
        BY <3>2, <4>1, Zenon DEF SelectMAC, addUserInfo
      <4>5. PICK n \in Nat : n = Len(userAddRequest)
        BY AccessTypes, LenProperties
      <4>6. /\ DOMAIN userAddRequest = 1 .. n /\ DOMAIN userAddRequest' = 1 .. n + 1
            /\ userAddRequest'[n + 1] = u
            /\ \A i \in 1 .. n : userAddRequest'[i] = userAddRequest[i]
        BY <4>3, <4>4, <4>5, AppendProperties, LenProperties, AccessTypes
      <4>7. 0 <= accessed[u.user_mac]
        BY <4>3, AccessTypes
      <4>8. ASSUME NEW i \in DOMAIN userAddRequest'
            PROVE  LET v == userAddRequest'[i] IN
                   \/ v.last_access <= accessed'[v.user_mac]
                   \/ v.user_mac \notin registered' /\ "removeUser" \in AdminOps
        <5>1. CASE i = n + 1
          BY <2>1, <4>3, <4>6, <4>7, <5>1
        <5>2. CASE i \in DOMAIN userAddRequest
          <6>1. userAddRequest'[i] = userAddRequest[i]
            BY <4>6, <5>2
          <6> QED
            BY <2>1, <5>2, <6>1 DEF AccessInv, GrantsRecorded, Forgotten
        <5>3. i = n + 1 \/ i \in DOMAIN userAddRequest
          BY <4>6
        <5> QED
          BY <5>1, <5>2, <5>3
      <4> QED
        BY <4>8 DEF GrantsRecorded, Forgotten
    <3>3. SelectMAC \/ UNCHANGED userAddRequest
      BY <1>4 DEF Wait, UpdateDone, TakeRequests, SelectUser, SelectUnused, SelectUsing,
                  DeleteDynamic, InsertDynamic, InsertFails, StatementFails, ExitProcess,
                  SendReply, RequestsDone, NoCall, toGateway
    <3> QED
      BY <3>1, <3>2, <3>3
  <2> QED
    BY <2>2, <2>4, <2>5 DEF AccessInv, NoUpdates
<1> QED
  BY <1>2, <1>3, <1>4 DEF DatabaseStep, DatabaseNext

(* main queues the access times as the table has them.                     *)
LEMMA LoadAccess ==
    ASSUME TypeOK, TypeOK', GrantInv, AccessInv, LoadStaticIP \/ LoadUser
    PROVE  AccessInv'
<1>1. /\ UNCHANGED <<userMap, lastSent, accessed, registered, updates, dpc>>
  BY DEF LoadStaticIP, LoadUser, gatewayVars, tables, databaseLocals
<1>2. UsersRecorded'
  <2>1. \A ip \in IP : ~hasUser(ip)'
    BY <1>1 DEF LoadStaticIP, LoadUser, GrantInv, EmptyWhileLoading, Loading, hasUser
  <2> QED
    BY <2>1 DEF UsersRecorded
<1>3. GrantsRecorded'
  <2>1. CASE LoadStaticIP
    <3>1. UNCHANGED userAddRequest
      BY <2>1 DEF LoadStaticIP
    <3> QED
      BY <1>1, <3>1, RowsUnchanged, GrantsKept DEF AccessInv
  <2>2. CASE LoadUser
    <3> DEFINE rows == {[ip |-> userIP[m], user_mac |-> m, last_access |-> accessed[m]] :
                            m \in {k \in registered : userIP[k] # NoIP}}
    <3>1. PICK q \in Listings(rows) : userAddRequest' = q
      BY <2>2 DEF LoadUser
    <3>2. \A u \in rows : u.last_access <= accessed[u.user_mac]
      BY AccessTypes
    <3> HIDE DEF rows
    <3>3. \A i \in DOMAIN q : q[i] \in rows
      BY <3>1 DEF Listings
    <3> QED
      BY <1>1, <3>1, <3>2, <3>3 DEF GrantsRecorded
  <2> QED
    BY <2>1, <2>2
<1> QED
  BY <1>1, <1>2, <1>3 DEF AccessInv, NoUpdates

(* The clock, crashes, and an administrator who does not bring back a      *)
(* machine whose row was deleted.                                          *)
LEMMA EnvironmentAccess ==
    ASSUME TypeOK, TypeOK', NoReturn, AccessInv, Environment
    PROVE  AccessInv'
<1>1. CASE Kill \/ Restart
  <2>1. /\ \A ip \in IP : ~hasUser(ip)'
        /\ userAddRequest' = <<>> /\ updates' = <<>>
    BY <1>1 DEF Kill, Restart, MemoryLost, EmptyNext, GatewayReset, DatabaseReset, hasUser
  <2> QED
    BY <2>1 DEF AccessInv, UsersRecorded, GrantsRecorded, NoUpdates
<1>2. CASE Tick \/ AddUser \/ RemoveUser \/ AssignIP \/ AddIP \/ RemoveIP
  <2>1. UNCHANGED <<userMap, lastSent, userAddRequest, updateTimeQueue, updates,
                    userDelRequest, dpc>>
    BY <1>2 DEF Tick, AddUser, RemoveUser, AssignIP, AddIP, RemoveIP, Edit, queues,
                toGateway, toDatabase, gatewayVars, databaseLocals
  <2>2. RowsKept
    <3>1. CASE Tick \/ AssignIP \/ AddIP \/ RemoveIP
      BY <3>1, RowsUnchanged DEF Tick, AssignIP, AddIP, RemoveIP, tables
    <3>2. CASE AddUser
      <4>1. UNCHANGED accessed /\ \A m \in MAC : ~Forgotten(m)
        BY <3>2 DEF AddUser, Edit, NoReturn, Forgotten
      <4>2. \A m \in MAC : accessed[m] \in Nat /\ accessed[m] <= accessed[m]
        BY AccessTypes
      <4> QED
        BY <4>1, <4>2 DEF RowsKept
    <3>3. CASE RemoveUser
      <4>1. PICK k \in registered : /\ registered' = registered \ {k}
                                    /\ accessed' = [accessed EXCEPT ![k] = 0]
        BY <3>3 DEF RemoveUser
      <4>2. "removeUser" \in AdminOps
        BY <3>3 DEF RemoveUser, Edit
      <4>3. \A m \in MAC : accessed[m] \in Nat /\ accessed[m] <= accessed[m]
        BY AccessTypes
      <4>4. \A m \in MAC : m = k \/ accessed'[m] = accessed[m]
        BY <4>1, AccessTypes
      <4>5. Forgotten(k)'
        BY <4>1, <4>2 DEF Forgotten
      <4>6. \A m \in MAC : Forgotten(m) => Forgotten(m)'
        BY <4>1 DEF Forgotten
      <4> QED
        BY <4>3, <4>4, <4>5, <4>6 DEF RowsKept
    <3> QED
      BY <1>2, <3>1, <3>2, <3>3
  <2>3. UsersRecorded'
    <3>1. \A ip \in IP : hasUser(ip) => Stable(ip)
      BY <2>1, <2>2, RecordedKept DEF Extends, DeletePending
    <3> QED
      BY <2>1, <3>1, UsersKept DEF AccessInv
  <2>4. GrantsRecorded'
    BY <2>1, <2>2, GrantsKept DEF AccessInv
  <2> QED
    BY <2>1, <2>3, <2>4 DEF AccessInv, NoUpdates
<1> QED
  BY <1>1, <1>2 DEF Environment

-----------------------------------------------------------------------------
LEMMA AccessInvariant ==
    ASSUME NoReturn
    PROVE  Spec => []AccessInv
<1>1. Init => AccessInv
  BY DEF Init, Empty, GatewayInit, DatabaseInit, AccessInv, UsersRecorded,
         GrantsRecorded, NoUpdates, hasUser
<1>2. TypeOK /\ TypeOK' /\ GrantInv /\ TimesInOrder /\ AccessInv /\ [Next]_vars
          => AccessInv'
  <2> SUFFICES ASSUME TypeOK, TypeOK', GrantInv, TimesInOrder, AccessInv, [Next]_vars
               PROVE  AccessInv'
    OBVIOUS
  <2>1. CASE UNCHANGED vars
    <3>1. UNCHANGED <<userMap, lastSent, userAddRequest, updateTimeQueue, updates,
                      userDelRequest, dpc, accessed, registered>>
      BY <2>1 DEF vars, queues, toGateway, toDatabase, gatewayVars, tables, databaseLocals
    <3> QED
      BY <3>1 DEF AccessInv, UsersRecorded, GrantsRecorded, NoUpdates, Recorded, Carries,
                  DeletePending, Forgotten, hasUser
  <2> QED
    BY <2>1, GatewayAccess, DatabaseAccess, LoadAccess, EnvironmentAccess DEF Next
<1>3. TypeOK /\ TimesInOrder /\ [Next]_vars => TimesInOrder'
  BY TimesStep
<1> QED
  BY <1>1, <1>2, <1>3, InitTimes, TypeCorrect, GrantInvariant, PTL DEF Spec

(* The access time the gateway throttles by is never ahead of the table    *)
(* without an update or a removal on its way (gateway.cpp:537,             *)
(* database.cpp:149-170), whatever the interleaving of frames, statements, *)
(* failures and crashes, and however long the queues: no access time is    *)
(* lost.                                                                   *)
THEOREM NoAccessIsLost ==
    ASSUME NoReturn
    PROVE  Spec => []AccessRecorded
<1>1. TypeOK /\ AccessInv => AccessRecorded
  <2> SUFFICES ASSUME TypeOK, AccessInv, NEW ip \in IP, hasUser(ip),
                      userMap[ip].user_mac \in registered,
                      userMap[ip].last_access > accessed[userMap[ip].user_mac]
               PROVE  UpdatePending(userMap[ip].user_mac) \/ DeletePending(ip)
    BY Zenon DEF AccessRecorded
  <2>1. PICK m \in MAC, t \in Nat : m = userMap[ip].user_mac /\ t = userMap[ip].last_access
    BY UserTypes
  <2>2. ~(t <= accessed[m] + 0)
    <3>1. accessed[m] \in Nat
      BY AccessTypes
    <3> QED
      BY <2>1, <3>1
  <2>3. Recorded(ip, t, 0)
    BY <2>1 DEF AccessInv, UsersRecorded
  <2> QED
    BY <2>1, <2>2, <2>3 DEF Recorded, Carries, Forgotten, UpdatePending
<1> QED
  BY <1>1, AccessInvariant, TypeCorrect, PTL

(* create_dhcp never takes an address from a machine that sent something   *)
(* outside within the lease, up to the throttle of its access times,       *)
(* unless the news of it is still queued ("release used IP",               *)
(* database.cpp:226): the access time its statement compares is as fresh   *)
(* as the gateway's.                                                       *)
THEOREM ActiveUsersKeepAddress ==
    ASSUME NoReturn, "assignIP" \notin AdminOps
    PROVE  Spec => ReclaimOnlyIdle
<1> DEFINE Reclaims ==
        \A m \in MAC :
           /\ dpc = "release" /\ dpc' = "insert"
           /\ userIP[m] = cand
           /\ hasUser(cand) /\ userMap[cand].user_mac = m
           => \/ lastSent[cand] + DHCP_TIMEOUT < now + Timeout
              \/ UpdatePending(m)
              \/ DeletePending(cand)
<1>1. TypeOK /\ LeaseInv /\ PoolInv /\ AccessInv => Reclaims
  <2> SUFFICES ASSUME TypeOK, LeaseInv, PoolInv, AccessInv, NEW m \in MAC,
                      dpc = "release", userIP[m] = cand, hasUser(cand),
                      userMap[cand].user_mac = m
               PROVE  \/ lastSent[cand] + DHCP_TIMEOUT < now + Timeout
                      \/ UpdatePending(m)
                      \/ DeletePending(cand)
    BY Zenon
  <2>1. PICK ip \in IP : ip = cand
    BY Tables
  <2>2. accessed[m] + DHCP_TIMEOUT < now
    BY DEF PoolInv, HolderIdle
  <2>3. m \in registered
    BY <2>1 DEF LeaseInv, NoRowNoIP
  <2>4. PICK s \in Nat : s = lastSent[ip]
    BY AccessTypes
  <2>5. Recorded(ip, s, Timeout)
    BY <2>1, <2>4 DEF AccessInv, UsersRecorded
  <2>6. s <= accessed[m] + Timeout => s + DHCP_TIMEOUT < now + Timeout
    <3>1. accessed[m] \in Nat /\ now \in Nat
      BY AccessTypes
    <3> QED
      BY <2>2, <3>1
  <2> QED
    BY <2>1, <2>3, <2>4, <2>5, <2>6 DEF Recorded, Carries, Forgotten, UpdatePending
<1>2. TypeOK /\ LeaseInv /\ PoolInv /\ AccessInv => [Reclaims]_vars
  BY <1>1
<1>3. ReclaimOnlyIdle <=> [][Reclaims]_vars
  BY DEF ReclaimOnlyIdle
<1> HIDE DEF Reclaims
<1> QED
  BY <1>2, <1>3, AccessInvariant, PoolInvariant, TypeCorrect, PTL
=============================================================================
