---------------------------- MODULE PoolProofs -----------------------------
(***************************************************************************)
(* The program implements AddressPool, for any site, any number of         *)
(* machines, any frames and any clock, while the administrator assigns no  *)
(* addresses.                                                              *)
(***************************************************************************)
EXTENDS SystemProofs

USE SharedAssumption, GatewayAssumption, DatabaseAssumption, SystemAssumption

(* What the tables hold, and the request in hand.                          *)
LEMMA Tables ==
    ASSUME TypeOK
    PROVE  /\ userIP \in [MAC -> IP \cup {NoIP}] /\ accessed \in [MAC -> Nat]
           /\ registered \subseteq MAC /\ static_ip \subseteq IP /\ now \in Nat
           /\ dpc \in {"unused", "using", "release", "insert"} => request.mac \in MAC
           /\ dpc \in {"release", "insert"} => cand \in IP
BY RequestType DEF TypeOK, QueueTypeOK, DatabaseTypeOK, TablesTypeOK

TableInv == ForeignKey /\ StillWithout /\ HolderIdle

(* Earlier runs of the program leave tables in order.                      *)
LEMMA InitTables == Init => TableInv
<1> SUFFICES ASSUME Init PROVE TableInv
  OBVIOUS
<1>1. ForeignKey
  <2>1. PICK f \in [Machines -> SiteIP \cup {NoIP}] :
            userIP = [m \in MAC |-> IF m \in registered THEN f[m] ELSE NoIP]
    BY DEF Init, TablesInit
  <2>2. registered \subseteq Machines /\ static_ip = SiteIP
    BY DEF Init, TablesInit
  <2> QED
    BY <2>1, <2>2 DEF ForeignKey
<1> QED
  BY <1>1 DEF Init, DatabaseInit, TableInv, StillWithout, HolderIdle

(* The statements of create_dhcp and update_time keep the tables in order. *)
LEMMA DatabaseTables ==
    ASSUME TypeOK, LeaseInv, TableInv, DatabaseNext
    PROVE  TableInv'
<1> USE DEF TableInv, ForeignKey, StillWithout, HolderIdle, At, Statement, Choose,
            NextRequest
<1>1. UNCHANGED now
  BY DEF DatabaseNext
<1>2. CASE Wait \/ TakeUpdates \/ UpdateDone \/ TakeRequests \/ RequestsDone
  BY <1>1, <1>2 DEF Wait, TakeUpdates, UpdateDone, TakeRequests, RequestsDone, tables
<1>3. CASE UpdateAccessTime \/ UpdateFails
  BY <1>3 DEF UpdateAccessTime, UpdateFails, NextUpdate
<1>4. CASE SelectUser
  BY <1>4 DEF SelectUser, request
<1>5. CASE SelectUnused
  BY <1>5 DEF SelectUnused, request
<1>6. CASE SelectUsing
  <2>1. CASE NextRequest
    BY <1>6, <2>1 DEF SelectUsing
  <2>2. CASE \E m \in Idle : Choose(userIP[m], "release")
    <3>1. PICK m \in Idle : cand' = userIP[m] /\ dpc' = "release" /\ UNCHANGED requests
      BY <2>2
    <3>2. m \in MAC /\ userIP[m] \in static_ip \cap Dynamic
          /\ accessed[m] + DHCP_TIMEOUT < now
      BY <3>1, Tables DEF Idle
    <3>3. \A k \in MAC : userIP[k] = userIP[m] => k = m
      BY <3>2, Tables DEF LeaseInv, NoSharedIP
    <3>4. UNCHANGED <<static_ip, userIP, accessed>> /\ dpc = "using"
      BY <1>6 DEF SelectUsing
    <3> QED
      BY <1>1, <3>1, <3>2, <3>3, <3>4 DEF request
  <2> QED
    BY <1>6, <2>1, <2>2 DEF SelectUsing
<1>7. CASE DeleteDynamic
  <2>1. /\ userIP' = [m \in MAC |-> IF userIP[m] = cand THEN NoIP ELSE userIP[m]]
        /\ dpc = "release" /\ dpc' = "insert" /\ UNCHANGED <<static_ip, requests, cand>>
    BY <1>7 DEF DeleteDynamic
  <2> QED
    BY <2>1, Tables DEF request
<1>8. CASE InsertDynamic
  <2>1. /\ request.mac \in registered => cand \in static_ip
        /\ userIP' = IF request.mac \in registered
                     THEN [userIP EXCEPT ![request.mac] = cand] ELSE userIP
        /\ dpc' = "mac" /\ UNCHANGED static_ip
    BY <1>8 DEF InsertDynamic
  <2> QED
    BY <2>1, Tables
<1>9. CASE SelectMAC \/ SendReply
  BY <1>9 DEF SelectMAC, SendReply
<1>10. CASE InsertFails \/ StatementFails
  BY <1>10 DEF InsertFails, StatementFails, ExitProcess, DatabaseReset, tables
<1> QED
  BY <1>2, <1>3, <1>4, <1>5, <1>6, <1>7, <1>8, <1>9, <1>10 DEF DatabaseNext

(* So do the administrator, the clock and crashes.                         *)
LEMMA EnvironmentTables ==
    ASSUME TypeOK, TableInv, "assignIP" \notin AdminOps, Environment
    PROVE  TableInv'
<1> USE DEF TableInv, ForeignKey, StillWithout, HolderIdle, request
<1>1. CASE Tick
  <2>1. now' = now + 1 /\ UNCHANGED <<static_ip, userIP, accessed, dpc, cand, requests>>
    BY <1>1 DEF Tick, tables, databaseLocals
  <2>2. \A m \in MAC : accessed[m] + DHCP_TIMEOUT < now
                           => accessed[m] + DHCP_TIMEOUT < now + 1
    BY Tables
  <2> QED
    BY <2>1, <2>2
<1>2. CASE Kill \/ Restart
  BY <1>2 DEF Kill, Restart, MemoryLost, DatabaseReset, tables
<1>3. ASSUME UNCHANGED <<now, dpc, cand, requests>>,
             \A m \in MAC : userIP'[m] = NoIP
                            \/ /\ userIP'[m] = userIP[m] /\ accessed'[m] = accessed[m]
                               /\ userIP[m] \in static_ip => userIP[m] \in static_ip'
      PROVE  TableInv'
  <2>1. dpc \in {"release", "insert"} => cand # NoIP
    BY Tables
  <2> HIDE DEF request
  <2>2. request' = request
    BY <1>3 DEF request
  <2>3. ForeignKey'
    BY <1>3, Tables
  <2>4. StillWithout'
    BY <1>3, <2>2, Tables
  <2>5. HolderIdle'
    BY <1>3, <2>1
  <2> QED
    BY <2>3, <2>4, <2>5
<1>4. CASE AddUser
  BY <1>3, <1>4 DEF AddUser, Edit, databaseLocals
<1>5. CASE RemoveUser
  <2>1. PICK m \in registered : /\ userIP' = [userIP EXCEPT ![m] = NoIP]
                               /\ accessed' = [accessed EXCEPT ![m] = 0]
    BY <1>5 DEF RemoveUser
  <2>2. UNCHANGED <<now, dpc, cand, requests, static_ip>>
    BY <1>5 DEF RemoveUser, Edit, databaseLocals
  <2> QED
    BY <1>3, <2>1, <2>2, Tables
<1>6. CASE AddIP
  BY <1>3, <1>6 DEF AddIP, Edit, databaseLocals
<1>7. CASE RemoveIP
  <2>1. PICK ip \in static_ip :
            /\ static_ip' = static_ip \ {ip}
            /\ userIP' = [m \in MAC |-> IF userIP[m] = ip THEN NoIP ELSE userIP[m]]
    BY <1>7 DEF RemoveIP
  <2>2. UNCHANGED <<now, dpc, cand, requests, accessed>>
    BY <1>7 DEF RemoveIP, Edit, databaseLocals
  <2> QED
    BY <1>3, <2>1, <2>2
<1> QED
  BY <1>1, <1>2, <1>4, <1>5, <1>6, <1>7 DEF Environment, AssignIP, Edit

LEMMA TablesStep ==
    ASSUME TypeOK, LeaseInv, TableInv, "assignIP" \notin AdminOps, [Next]_vars
    PROVE  TableInv'
<1>1. CASE UNCHANGED vars \/ LoadStaticIP \/ LoadUser \/ GatewayStep
  <2>1. UNCHANGED <<tables, databaseLocals, now>>
    <3>1. CASE UNCHANGED vars
      BY <3>1 DEF vars
    <3>2. CASE LoadStaticIP \/ LoadUser
      BY <3>2 DEF LoadStaticIP, LoadUser
    <3>3. CASE GatewayStep
      BY <3>3 DEF GatewayStep, GatewayNext, InsideFrame, OutsideFrame, Handlers, Loop
    <3> QED
      BY <1>1, <3>1, <3>2, <3>3
  <2> QED
    BY <2>1 DEF TableInv, ForeignKey, StillWithout, HolderIdle, request, tables,
                databaseLocals
<1> QED
  BY <1>1, DatabaseTables, EnvironmentTables DEF Next, DatabaseStep
-----------------------------------------------------------------------------
(* Access times.                                                           *)

(* The times on their way are numbers.                                     *)
LEMMA Times ==
    ASSUME TypeOK
    PROVE  /\ current_time \in Nat /\ now \in Nat /\ accessed \in [MAC -> Nat]
           /\ \A i \in DOMAIN updates : updates[i].UTC \in Nat
           /\ \A i \in DOMAIN updateTimeQueue : updateTimeQueue[i].UTC \in Nat
<1>1. /\ current_time \in Nat /\ now \in Nat /\ accessed \in [MAC -> Nat]
      /\ updates \in Seq(update_time) /\ updateTimeQueue \in Seq(update_time)
  BY DEF TypeOK, QueueTypeOK, GatewayTypeOK, DatabaseTypeOK, TablesTypeOK, update_time
<1>2. ASSUME NEW q \in Seq(update_time), NEW i \in DOMAIN q PROVE q[i].UTC \in Nat
  <2>1. q[i] \in update_time
    BY <1>2, LenProperties, ElementOfSeq
  <2> QED
    BY <2>1 DEF update_time
<1> QED
  BY <1>1, <1>2

(* The clocks move forward and access times only vanish from the table.    *)
LEMMA TimesGrow ==
    ASSUME TypeOK, TimesInOrder, UNCHANGED <<updates, updateTimeQueue>>,
           now' \in Nat, now <= now', current_time' = current_time \/ current_time' = now,
           \A m \in MAC : accessed'[m] = accessed[m] \/ accessed'[m] = 0
    PROVE  TimesInOrder'
<1>1. /\ current_time' \in Nat /\ current_time <= current_time' /\ current_time' <= now'
  BY Times DEF TimesInOrder
<1>2. \A m \in MAC : accessed'[m] \in Nat /\ accessed'[m] <= accessed[m]
  BY Times
<1>3. \A m \in MAC : accessed'[m] <= current_time'
  BY <1>1, <1>2, Times DEF TimesInOrder
<1>4. LaterThanTable(updates)' /\ LaterThanTable(updateTimeQueue)'
  BY <1>1, <1>2, Times DEF TimesInOrder, LaterThanTable
<1> QED
  BY <1>1, <1>3, <1>4 DEF TimesInOrder, Ascending

(* Memory is lost, and the clock read anew.                                *)
LEMMA TimesLost ==
    ASSUME TypeOK, TimesInOrder, UNCHANGED <<accessed, now>>, current_time' = now,
           updates' = <<>>, updateTimeQueue' = <<>>
    PROVE  TimesInOrder'
<1>1. \A m \in MAC : accessed[m] <= now
  BY Times DEF TimesInOrder
<1> QED
  BY <1>1, Times DEF TimesInOrder, Ascending, LaterThanTable

(* The gateway queues the time it read last.                               *)
LEMMA TimesQueued ==
    ASSUME TypeOK, TimesInOrder, UNCHANGED <<accessed, now, current_time, updates>>,
           NEW r \in update_time, r.UTC = current_time,
           updateTimeQueue' = Append(updateTimeQueue, r)
    PROVE  TimesInOrder'
<1> DEFINE q == updateTimeQueue
           n == Len(updateTimeQueue)
<1>1. /\ q \in Seq(update_time) /\ n \in Nat /\ DOMAIN q = 1 .. n
      /\ DOMAIN q' = 1 .. n + 1 /\ q'[n + 1] = r
      /\ \A i \in 1 .. n : q'[i] = q[i]
  BY AppendProperties, LenProperties DEF TypeOK, QueueTypeOK, update_time
<1>2. /\ \A i, j \in 1 .. n : i <= j => q[i].UTC <= q[j].UTC
      /\ \A i \in 1 .. n : q[i].UTC \in Nat /\ q[i].UTC <= current_time
                            /\ \A m \in MAC : accessed[m] <= q[i].UTC
      /\ \A i \in DOMAIN updates, j \in 1 .. n : updates[i].UTC <= q[j].UTC
      /\ \A i \in DOMAIN updates : updates[i].UTC <= current_time
      /\ \A m \in MAC : accessed[m] <= current_time
  BY <1>1, Times DEF TimesInOrder, Ascending, LaterThanTable
<1> HIDE DEF q, n
<1>3. \A i \in DOMAIN q' : (i \in 1 .. n /\ q'[i] = q[i]) \/ (i = n + 1 /\ q'[i] = r)
  BY <1>1
<1>4. Ascending(q')
  <2>1. ASSUME NEW i \in DOMAIN q', NEW j \in DOMAIN q', i <= j
        PROVE  q'[i].UTC <= q'[j].UTC
    <3>1. CASE j \in 1 .. n /\ q'[j] = q[j]
      <4>1. i \in 1 .. n /\ q'[i] = q[i]
        BY <1>1, <2>1, <3>1
      <4> QED
        BY <1>2, <2>1, <3>1, <4>1
    <3>2. CASE j = n + 1 /\ q'[j] = r
      <4>1. current_time <= current_time
        BY Times
      <4> QED
        BY <1>2, <1>3, <3>2, <4>1
    <3> QED
      BY <1>3, <3>1, <3>2
  <2> QED
    BY <2>1 DEF Ascending
<1>5. LaterThanTable(q)'
  BY <1>2, <1>3, Times DEF LaterThanTable
<1>6. \A i \in DOMAIN updates, j \in DOMAIN q' : updates[i].UTC <= q'[j].UTC
  BY <1>2, <1>3
<1>7. Ascending(updates)' /\ LaterThanTable(updates)' /\ current_time <= now
  BY DEF TimesInOrder, Ascending, LaterThanTable
<1> QED
  BY <1>2, <1>4, <1>5, <1>6, <1>7 DEF TimesInOrder, q, Ascending

(* update_time writes the oldest of the times it took, or drops it.        *)
LEMMA TimesWritten ==
    ASSUME TypeOK, TimesInOrder, updates # <<>>, updates' = Tail(updates),
           UNCHANGED <<now, current_time, updateTimeQueue>>,
           \A m \in MAC : \/ accessed'[m] = accessed[m]
                          \/ accessed'[m] = Head(updates).UTC
    PROVE  TimesInOrder'
<1> DEFINE n == Len(updates)
<1>1. /\ updates \in Seq(update_time) /\ n \in Nat /\ n > 0 /\ DOMAIN updates = 1 .. n
      /\ Head(updates) = updates[1] /\ DOMAIN updates' = 1 .. n - 1
      /\ \A i \in 1 .. n - 1 : i + 1 \in 1 .. n /\ updates'[i] = updates[i + 1]
  BY HeadTailProperties, LenProperties, EmptySeq DEF TypeOK, DatabaseTypeOK
<1> HIDE DEF n
<1>2. 1 \in 1 .. n
  BY <1>1
<1>3. \A i \in 1 .. n : /\ updates[i].UTC \in Nat /\ updates[i].UTC <= current_time
                         /\ \A m \in MAC : accessed[m] <= updates[i].UTC
  BY <1>1, Times DEF TimesInOrder, LaterThanTable
<1>4. \A i, j \in 1 .. n : i <= j => updates[i].UTC <= updates[j].UTC
  BY <1>1 DEF TimesInOrder, Ascending
<1>5. /\ updates[1].UTC <= current_time
      /\ \A i \in 1 .. n : updates[1].UTC <= updates[i].UTC
      /\ \A j \in DOMAIN updateTimeQueue : updates[1].UTC <= updateTimeQueue[j].UTC
  <2>1. \A i \in 1 .. n : updates[1].UTC <= updates[i].UTC
    BY <1>2, <1>4
  <2>2. \A j \in DOMAIN updateTimeQueue : updates[1].UTC <= updateTimeQueue[j].UTC
    BY <1>1, <1>2 DEF TimesInOrder
  <2> QED
    BY <1>2, <1>3, <2>1, <2>2
<1>6. Ascending(updates)'
  <2>1. ASSUME NEW i \in 1 .. n - 1, NEW j \in 1 .. n - 1, i <= j
        PROVE  updates'[i].UTC <= updates'[j].UTC
    <3>1. i + 1 \in 1 .. n /\ j + 1 \in 1 .. n /\ i + 1 <= j + 1
      BY <1>1, <2>1
    <3>2. updates[i + 1].UTC <= updates[j + 1].UTC
      BY <1>4, <3>1
    <3> QED
      BY <1>1, <3>2
  <2> QED
    BY <1>1, <2>1 DEF Ascending
<1>7. LaterThanTable(updates)'
  <2>1. ASSUME NEW i \in 1 .. n - 1
        PROVE  /\ updates'[i].UTC <= current_time
               /\ \A m \in MAC : accessed'[m] <= updates'[i].UTC
    <3>1. i + 1 \in 1 .. n /\ updates'[i] = updates[i + 1]
      BY <1>1
    <3> QED
      BY <1>1, <1>5, <1>3, <3>1
  <2> QED
    BY <1>1, <2>1 DEF LaterThanTable
<1>8. LaterThanTable(updateTimeQueue)' /\ \A m \in MAC : accessed'[m] <= current_time
  BY <1>1, <1>5, Times DEF TimesInOrder, LaterThanTable
<1>9. \A i \in DOMAIN updates', j \in DOMAIN updateTimeQueue :
          updates'[i].UTC <= updateTimeQueue[j].UTC
  BY <1>1 DEF TimesInOrder
<1> QED
  BY <1>6, <1>7, <1>8, <1>9 DEF TimesInOrder, Ascending

(* The clock is read before the threads start.                             *)
LEMMA InitTimes == Init => TimesInOrder
<1> SUFFICES ASSUME Init PROVE TimesInOrder
  OBVIOUS
<1>1. PICK f \in [Machines -> InitAccess] :
          accessed = [m \in MAC |-> IF m \in registered THEN f[m] ELSE 0]
  BY DEF Init, TablesInit
<1>2. registered \subseteq Machines /\ now = StartTime /\ current_time = StartTime
      /\ updates = <<>> /\ updateTimeQueue = <<>>
  BY DEF Init, TablesInit, DatabaseInit, GatewayInit, Empty
<1>3. \A m \in MAC : accessed[m] <= StartTime
  <2>1. \A t \in InitAccess : t <= StartTime
    OBVIOUS
  <2>2. ASSUME NEW m \in MAC, m \in registered PROVE accessed[m] \in InitAccess
    BY <1>1, <1>2, <2>2
  <2>3. ASSUME NEW m \in MAC, m \notin registered PROVE accessed[m] = 0
    BY <1>1, <2>3
  <2>4. 0 <= StartTime
    OBVIOUS
  <2> QED
    BY <2>1, <2>2, <2>3, <2>4
<1> QED
  BY <1>2, <1>3 DEF TimesInOrder, Ascending, LaterThanTable

(* The gateway only reads the clock and queues what it read.               *)
LEMMA GatewayTimes ==
    ASSUME TypeOK, TimesInOrder, GatewayStep
    PROVE  TimesInOrder'
<1>1. UNCHANGED <<accessed, updates>>
  BY DEF GatewayStep, tables, databaseLocals
<1>2. CASE InsideFrame
  <2>1. PICK f \in InFrames : \/ InsideTooLong(f) \/ InsideDHCP(f) \/ InsideDrop(f)
                              \/ InsideForward(f) \/ InsideBadIterator(f)
                              \/ InsideOther(f)
    BY <1>2, Zenon DEF InsideFrame
  <2>2. UNCHANGED <<now, current_time>>
    <3>1. UNCHANGED now
      BY <1>2 DEF InsideFrame
    <3>2. UNCHANGED current_time
      BY <2>1 DEF InsideTooLong, InsideDHCP, InsideDrop, InsideForward, InsideBadIterator,
                  InsideOther, ReadFrame
    <3> QED
      BY <3>1, <3>2
  <2>3. UNCHANGED updateTimeQueue \/ (NeedsUpdate(f) /\ RefreshUser(f))
    BY <2>1, Zenon DEF InsideTooLong, InsideDHCP, InsideDrop, InsideForward,
                       InsideBadIterator, InsideOther, RefreshUser
  <2>4. CASE UNCHANGED updateTimeQueue
    BY <1>1, <2>2, <2>4, Times, TimesGrow
  <2>5. CASE NeedsUpdate(f) /\ RefreshUser(f)
    <3> DEFINE r == [mac |-> userMap[f.src].user_mac, ip |-> f.src, UTC |-> current_time]
    <3>1. f.src \in IP
      BY <2>1 DEF Frame
    <3>2. userMap[f.src] \in User
      BY <2>5, <3>1 DEF NeedsUpdate, hasUser, TypeOK, GatewayTypeOK
    <3>3. r \in update_time /\ r.UTC = current_time
      BY <3>1, <3>2, Times DEF User, update_time
    <3>4. updateTimeQueue' = Append(updateTimeQueue, r)
      BY <2>5, Zenon DEF RefreshUser, updateTime
    <3> HIDE DEF r
    <3> QED
      BY <1>1, <2>2, <3>3, <3>4, TimesQueued
  <2> QED
    BY <2>3, <2>4, <2>5
<1>3. CASE OutsideFrame \/ Handlers \/ Loop
  <2>1. UNCHANGED <<now, updateTimeQueue>>
    BY <1>3 DEF OutsideFrame, Handlers, Loop, toDatabase
  <2>2. current_time' = current_time \/ current_time' = now
    BY <1>3 DEF OutsideFrame, OutsideTooLong, OutsideDrop, OutsideForward, OutsideOther,
                ReadFrame, Handlers, add_static_ip, add_user, del_user, send_packet,
                Handle, Loop, EndInside, Poll, LoopTop
  <2> QED
    BY <1>1, <2>1, <2>2, Times, TimesGrow
<1> QED
  BY <1>2, <1>3 DEF GatewayStep, GatewayNext

(* The database takes the queue and writes it from the front.              *)
LEMMA DatabaseTimes ==
    ASSUME TypeOK, TimesInOrder, DatabaseStep
    PROVE  TimesInOrder'
<1>1. UNCHANGED <<now, current_time>>
  BY DEF DatabaseStep, DatabaseNext
<1>2. CASE TakeUpdates
  <2>1. updates' = updateTimeQueue /\ updateTimeQueue' = <<>> /\ UNCHANGED accessed
    BY <1>2 DEF TakeUpdates, tables
  <2>2. Ascending(updates)' /\ LaterThanTable(updates)'
    BY <1>1, <2>1 DEF TimesInOrder, Ascending, LaterThanTable
  <2>3. Ascending(updateTimeQueue)' /\ LaterThanTable(updateTimeQueue)'
    BY <2>1 DEF Ascending, LaterThanTable
  <2> QED
    BY <1>1, <2>1, <2>2, <2>3 DEF TimesInOrder
<1>3. CASE UpdateAccessTime \/ UpdateFails
  <2>1. updates # <<>> /\ updates' = Tail(updates) /\ UNCHANGED updateTimeQueue
    BY <1>3 DEF UpdateAccessTime, UpdateFails, NextUpdate, toDatabase
  <2>2. \A m \in MAC : \/ accessed'[m] = accessed[m]
                       \/ accessed'[m] = Head(updates).UTC
    BY <1>3, Times DEF UpdateAccessTime, UpdateFails
  <2> QED
    BY <1>1, <2>1, <2>2, TimesWritten
<1>4. CASE InsertFails \/ StatementFails
  <2>1. UNCHANGED <<accessed, updateTimeQueue>> /\ updates' = <<>>
    BY <1>4 DEF InsertFails, StatementFails, ExitProcess, DatabaseReset, tables, toDatabase
  <2> QED
    BY <1>1, <2>1 DEF TimesInOrder, Ascending, LaterThanTable
<1>5. CASE \/ Wait \/ UpdateDone \/ TakeRequests \/ SelectUser \/ SelectUnused
           \/ SelectUsing \/ DeleteDynamic \/ InsertDynamic \/ SelectMAC \/ SendReply
           \/ RequestsDone
  <2>1. UNCHANGED <<accessed, updates, updateTimeQueue>>
    BY <1>5 DEF Wait, UpdateDone, TakeRequests, SelectUser, SelectUnused, SelectUsing,
                DeleteDynamic, InsertDynamic, SelectMAC, SendReply, RequestsDone,
                Statement, tables, toDatabase
  <2> QED
    BY <1>1, <2>1, Times, TimesGrow
<1> QED
  BY <1>2, <1>3, <1>4, <1>5 DEF DatabaseStep, DatabaseNext

LEMMA TimesStep ==
    ASSUME TypeOK, TimesInOrder, [Next]_vars
    PROVE  TimesInOrder'
<1>1. CASE UNCHANGED vars \/ LoadStaticIP \/ LoadUser
  <2>1. UNCHANGED <<now, accessed, updates, updateTimeQueue>>
    BY <1>1 DEF vars, LoadStaticIP, LoadUser, queues, toDatabase, tables, databaseLocals
  <2>2. current_time' = current_time \/ current_time' = now
    BY <1>1 DEF vars, LoadStaticIP, LoadUser, gatewayVars
  <2> QED
    BY <2>1, <2>2, Times, TimesGrow
<1>2. CASE Kill \/ Restart
  BY <1>2, TimesLost DEF Kill, Restart, MemoryLost, EmptyNext, GatewayReset,
                         DatabaseReset, tables
<1>3. CASE Tick
  <2>1. UNCHANGED <<accessed, updates, updateTimeQueue, current_time>> /\ now' = now + 1
    BY <1>3 DEF Tick, queues, toDatabase, tables, databaseLocals, gatewayVars
  <2>2. now' \in Nat /\ now <= now'
    BY <2>1, Times
  <2> QED
    BY <2>1, <2>2, TimesGrow
<1>4. CASE AddUser \/ RemoveUser \/ AssignIP \/ AddIP \/ RemoveIP
  <2>1. UNCHANGED <<now, updates, updateTimeQueue, current_time>>
    BY <1>4 DEF AddUser, RemoveUser, AssignIP, AddIP, RemoveIP, Edit, queues, toDatabase,
                databaseLocals, gatewayVars
  <2>2. \A m \in MAC : accessed'[m] = accessed[m] \/ accessed'[m] = 0
    BY <1>4, Times DEF AddUser, RemoveUser, AssignIP, AddIP, RemoveIP
  <2> QED
    BY <2>1, <2>2, Times, TimesGrow
<1> QED
  BY <1>1, <1>2, <1>3, <1>4, GatewayTimes, DatabaseTimes DEF Next, Environment
-----------------------------------------------------------------------------
(* Every step of the program is a step of the pool.                        *)

LEMMA StutterOrTick ==
    ASSUME UNCHANGED tables, UNCHANGED now \/ Tick
    PROVE  [Pool!Next]_(Pool!vars)
BY DEF tables, Tick, Pool!Next, Pool!Tick, Pool!vars

LEMMA DatabaseIsPool ==
    ASSUME TypeOK, LeaseInv, PoolInv, DatabaseNext
    PROVE  [Pool!Next]_(Pool!vars)
<1>1. UNCHANGED now
  BY DEF DatabaseNext
<1>2. CASE InsertDynamic
  <2>1. /\ dpc = "insert" /\ UNCHANGED <<static_ip, registered, accessed>>
        /\ request.mac \in registered => cand \in static_ip
        /\ userIP' = IF request.mac \in registered
                     THEN [userIP EXCEPT ![request.mac] = cand] ELSE userIP
    BY <1>2 DEF InsertDynamic, Statement, At
  <2>2. request.mac \in MAC /\ cand \in IP /\ userIP[request.mac] \in {NoIP, cand}
    BY <2>1, Tables DEF PoolInv, StillWithout
  <2>3. CASE request.mac \in registered /\ userIP[request.mac] = NoIP
    <3>1. \A m \in MAC : userIP[m] # cand
      BY <2>1, <2>2, <2>3 DEF LeaseInv, CandReserved
    <3>2. Pool!Grant(request.mac, cand)
      BY <1>1, <2>1, <2>3, <3>1 DEF Pool!Grant, Pool!Holders
    <3> QED
      BY <2>2, <3>2 DEF Pool!Next
  <2>4. CASE ~(request.mac \in registered /\ userIP[request.mac] = NoIP)
    <3>1. userIP' = userIP
      BY <2>1, <2>2, <2>4, Tables
    <3> QED
      BY <1>1, <2>1, <3>1 DEF Pool!vars
  <2> QED
    BY <2>3, <2>4
<1>3. CASE DeleteDynamic
  <2>1. /\ dpc = "release" /\ UNCHANGED <<static_ip, registered, accessed>>
        /\ userIP' = [m \in MAC |-> IF userIP[m] = cand THEN NoIP ELSE userIP[m]]
    BY <1>3 DEF DeleteDynamic, Statement, At
  <2>2. cand \in IP /\ cand \in Dynamic
    BY <2>1, Tables DEF PoolInv, HolderIdle
  <2>3. CASE \E m \in MAC : userIP[m] = cand
    <3>1. PICK m \in MAC : userIP[m] = cand
      BY <2>3
    <3>2. \A k \in MAC : userIP[k] = cand => k = m
      BY <2>2, <3>1 DEF LeaseInv, NoSharedIP
    <3>3. userIP' = [userIP EXCEPT ![m] = NoIP]
      BY <2>1, <3>1, <3>2, Tables
    <3>4. userIP[m] \in static_ip \cap Dynamic
      BY <2>2, <3>1 DEF PoolInv, ForeignKey
    <3>5. accessed[m] + DHCP_TIMEOUT < now
      BY <2>1, <3>1 DEF PoolInv, HolderIdle
    <3>6. Pool!Reclaim(m)
      BY <1>1, <2>1, <3>3, <3>4, <3>5 DEF Pool!Reclaim
    <3> QED
      BY <3>6 DEF Pool!Next
  <2>4. CASE ~\E m \in MAC : userIP[m] = cand
    <3>1. userIP' = userIP
      BY <2>1, <2>4, Tables
    <3> QED
      BY <1>1, <2>1, <3>1 DEF Pool!vars
  <2> QED
    BY <2>3, <2>4
<1>4. CASE UpdateAccessTime
  <2> DEFINE r == Head(updates)
  <2>1. updates # <<>> /\ UNCHANGED <<static_ip, registered, userIP>>
    BY <1>4 DEF UpdateAccessTime, NextUpdate
  <2>2. r = updates[1] /\ 1 \in DOMAIN updates
    BY <2>1, HeadTailProperties, LenProperties, EmptySeq DEF TypeOK, DatabaseTypeOK
  <2>3. CASE Changes(r)
    <3>1. accessed' = [accessed EXCEPT ![r.mac] = r.UTC]
      BY <1>4, <2>3 DEF UpdateAccessTime
    <3>2. r.mac \in registered /\ accessed[r.mac] # r.UTC /\ r.mac \in MAC
      BY <2>3, Tables DEF Changes
    <3>3. r.UTC \in Nat /\ accessed[r.mac] \in Nat /\ now \in Nat /\ current_time \in Nat
      BY <2>2, <3>2, Times
    <3>4. accessed[r.mac] <= r.UTC /\ r.UTC <= current_time /\ current_time <= now
      BY <2>2, <3>2 DEF PoolInv, TimesInOrder, LaterThanTable
    <3>5. accessed[r.mac] < r.UTC /\ r.UTC <= now
      BY <3>2, <3>3, <3>4
    <3> HIDE DEF r
    <3>6. Pool!Access(r.mac, r.UTC)
      BY <1>1, <2>1, <3>1, <3>2, <3>5 DEF Pool!Access
    <3>7. r.UTC \in 0 .. now
      BY <3>3, <3>5
    <3> QED
      BY <3>2, <3>6, <3>7 DEF Pool!Next
  <2>4. CASE ~Changes(r)
    <3>1. UNCHANGED accessed
      BY <1>4, <2>4 DEF UpdateAccessTime
    <3> QED
      BY <1>1, <2>1, <3>1 DEF Pool!vars
  <2> QED
    BY <2>3, <2>4
<1>5. CASE UpdateFails \/ InsertFails \/ StatementFails
  <2>1. UNCHANGED tables
    BY <1>5 DEF UpdateFails, NextUpdate, InsertFails, StatementFails, ExitProcess, tables
  <2> QED
    BY <1>1, <2>1, StutterOrTick
<1>6. CASE \/ Wait \/ TakeUpdates \/ UpdateDone \/ TakeRequests \/ SelectUser
           \/ SelectUnused \/ SelectUsing \/ SelectMAC \/ SendReply \/ RequestsDone
  <2>1. UNCHANGED tables
    BY <1>6 DEF Wait, TakeUpdates, UpdateDone, TakeRequests, SelectUser, SelectUnused,
                SelectUsing, SelectMAC, SendReply, RequestsDone, Statement, tables
  <2> QED
    BY <1>1, <2>1, StutterOrTick
<1> QED
  BY <1>2, <1>3, <1>4, <1>5, <1>6 DEF DatabaseNext

LEMMA EnvironmentIsPool ==
    ASSUME TypeOK, "assignIP" \notin AdminOps, Environment
    PROVE  [Pool!Next]_(Pool!vars)
<1>1. CASE Tick
  BY <1>1, StutterOrTick DEF Tick
<1>2. CASE Kill \/ Restart
  BY <1>2, StutterOrTick DEF Kill, Restart, MemoryLost
<1>3. CASE AddUser
  <2>1. PICK m \in Machines \ registered : registered' = registered \cup {m}
    BY <1>3 DEF AddUser
  <2>2. Pool!Register(m)
    BY <1>3, <2>1 DEF AddUser, Edit, Pool!Register
  <2> QED
    BY <2>1, <2>2 DEF Pool!Next
<1>4. CASE RemoveUser
  <2>1. PICK m \in registered : /\ registered' = registered \ {m}
                                /\ userIP' = [userIP EXCEPT ![m] = NoIP]
                                /\ accessed' = [accessed EXCEPT ![m] = 0]
    BY <1>4 DEF RemoveUser
  <2>2. Pool!Unregister(m)
    BY <1>4, <2>1 DEF RemoveUser, Edit, Pool!Unregister
  <2> QED
    BY <2>1, <2>2, Tables DEF Pool!Next
<1>5. CASE AddIP
  <2>1. PICK ip \in SiteIP \ static_ip : static_ip' = static_ip \cup {ip}
    BY <1>5 DEF AddIP
  <2>2. Pool!Provide(ip)
    BY <1>5, <2>1 DEF AddIP, Edit, Pool!Provide
  <2> QED
    BY <2>1, <2>2 DEF Pool!Next
<1>6. CASE RemoveIP
  <2>1. PICK ip \in static_ip :
            /\ static_ip' = static_ip \ {ip}
            /\ userIP' = [m \in MAC |-> IF userIP[m] = ip THEN NoIP ELSE userIP[m]]
    BY <1>6 DEF RemoveIP
  <2>2. Pool!Withdraw(ip)
    BY <1>6, <2>1 DEF RemoveIP, Edit, Pool!Withdraw
  <2> QED
    BY <2>1, <2>2, Tables DEF Pool!Next
<1> QED
  BY <1>1, <1>2, <1>3, <1>4, <1>5, <1>6 DEF Environment, AssignIP, Edit

LEMMA StepIsPool ==
    ASSUME TypeOK, LeaseInv, PoolInv, "assignIP" \notin AdminOps, [Next]_vars
    PROVE  [Pool!Next]_(Pool!vars)
<1>1. CASE UNCHANGED vars
  BY <1>1, StutterOrTick DEF vars
<1>2. CASE LoadStaticIP \/ LoadUser
  BY <1>2, StutterOrTick DEF LoadStaticIP, LoadUser
<1>3. CASE GatewayStep
  BY <1>3, StutterOrTick DEF GatewayStep, GatewayNext, InsideFrame, OutsideFrame,
                             Handlers, Loop
<1> QED
  BY <1>1, <1>2, <1>3, DatabaseIsPool, EnvironmentIsPool DEF Next, DatabaseStep

LEMMA PoolInvariant ==
    ASSUME "assignIP" \notin AdminOps
    PROVE  Spec => [](LeaseInv /\ PoolInv)
<1>1. Init => PoolInv
  BY InitTables, InitTimes DEF PoolInv, TableInv
<1>2. TypeOK /\ LeaseInv /\ [Next]_vars => LeaseInv'
  BY LeaseStep
<1>3. TypeOK /\ LeaseInv /\ PoolInv /\ [Next]_vars => PoolInv'
  BY TablesStep, TimesStep DEF PoolInv, TableInv
<1> QED
  BY <1>1, <1>2, <1>3, InitLease, TypeCorrect, PTL DEF Spec

(* The whole program, with its threads, queues and crashes, does to the    *)
(* tables only what an address pool may do: it grants only free addresses  *)
(* to registered machines without one, reclaims only dynamic addresses     *)
(* idle for a lease, and records access times in order, none of them ahead *)
(* of the clock.                                                           *)
THEOREM ImplementsAddressPool ==
    ASSUME "assignIP" \notin AdminOps
    PROVE  Spec => PoolSpec
<1>1. TypeOK /\ LeaseInv /\ PoolInv /\ [Next]_vars => [Pool!Next]_(Pool!vars)
  BY StepIsPool
<1>2. Init => Pool!Init
  <2> SUFFICES ASSUME Init PROVE Pool!Init
    OBVIOUS
  <2>1. TypeOK /\ NoSharedIP
    BY InitType DEF Init, TablesInit
  <2> QED
    BY <2>1, Tables DEF Pool!Init, NoSharedIP
<1> QED
  BY <1>1, <1>2, PoolInvariant, TypeCorrect, PTL DEF Spec, PoolSpec, Pool!Spec
=============================================================================
