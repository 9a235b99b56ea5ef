-------------------------- MODULE EventQueueProofs --------------------------
(***************************************************************************)
(* Proofs about one request queue, for any number of producers and         *)
(* requests: IInv is inductive, QueueSafe follows from it, and the queue   *)
(* implements Channel.                                                     *)
(***************************************************************************)
EXTENDS EventQueue, SequenceTheorems, TLAPS

USE EventQueueAssumption

(* A request moved from the front of the queue to the end of what was      *)
(* delivered leaves the two, one after the other, as they were.            *)
LEMMA MoveFront ==
    ASSUME NEW S, NEW d \in Seq(S), NEW q \in Seq(S), q # <<>>
    PROVE  /\ Head(q) \in S
           /\ Tail(q) \in Seq(S)
           /\ Len(Tail(q)) = Len(q) - 1
           /\ Append(d, Head(q)) \in Seq(S)
           /\ Len(Append(d, Head(q))) = Len(d) + 1
           /\ Append(d, Head(q)) \o Tail(q) = d \o q
<1>1. /\ Head(q) \in S /\ Tail(q) \in Seq(S) /\ Len(Tail(q)) = Len(q) - 1
  BY HeadTailProperties
<1>2. /\ Append(d, Head(q)) \in Seq(S)
      /\ Len(Append(d, Head(q))) = Len(d) + 1
  BY <1>1, AppendProperties
<1>3. q = <<Head(q)>> \o Tail(q)
  BY HeadTailProperties
<1>4. Append(d, Head(q)) = d \o <<Head(q)>>
  BY <1>1, AppendIsConcat
<1>5. <<Head(q)>> \in Seq(S)
  BY <1>1
<1>6. (d \o <<Head(q)>>) \o Tail(q) = d \o (<<Head(q)>> \o Tail(q))
  BY <1>1, <1>5, ConcatAssociative
<1> QED
  BY <1>1, <1>2, <1>3, <1>4, <1>6
-----------------------------------------------------------------------------
LEMMA InitIInv == Init => IInv
BY DEF Init, IInv, TypeOK, LockOwner, Balance, Budget, Unannounced

(* Who holds the mutex, the typing included, is inductive on its own.      *)
LEMMA LockOwnerStep ==
    ASSUME TypeOK, LockOwner, [Next]_vars
    PROVE  LockOwner'
<1>1. ASSUME NEW p \in Producers, ProducerStep(p)
      PROVE  LockOwner'
  BY <1>1 DEF ProducerStep, Lock, Push, Write, Unlock, TypeOK, LockOwner
<1>2. ASSUME ConsumerStep
      PROVE  LockOwner'
  BY <1>2 DEF ConsumerStep, Dispatch, HandlerLock, Read, Pop, HandlerUnlock,
              TypeOK, LockOwner
<1>3. ASSUME UNCHANGED vars
      PROVE  LockOwner'
  BY <1>3 DEF vars, LockOwner
<1> QED
  BY <1>1, <1>2, <1>3 DEF Next, Quiet

(* While one producer is inside its critical section, no other one is and  *)
(* the handler is outside its own.                                         *)
LEMMA Exclusive ==
    ASSUME LockOwner, NEW p \in Producers, ppc[p] # "idle"
    PROVE  /\ \A o \in Producers : o # p => ppc[o] = "idle"
           /\ cpc \notin {"read", "pop"}
BY DEF LockOwner

LEMMA ProducerIInv ==
    ASSUME IInv, NEW p \in Producers, ProducerStep(p)
    PROVE  TypeOK' /\ Balance' /\ Budget'
<1> USE DEF IInv, TypeOK
<1>1. CASE Lock(p)
  <2>1. cpc \notin {"read", "pop"} /\ \A o \in Producers : ppc[o] = "idle"
    BY <1>1 DEF Lock, LockOwner
  <2> QED
    BY <1>1, <2>1 DEF Lock, Balance, Budget, Unannounced
<1>2. CASE Push(p)
  <2>1. ppc[p] = "push" /\ cpc \notin {"read", "pop"}
        /\ \A o \in Producers : o # p => ppc[o] = "idle"
    BY <1>2, Exclusive DEF Push
  <2>2. PICK d \in Data : queue' = Append(queue, d)
    BY <1>2 DEF Push
  <2>3. queue' \in Seq(Data) /\ Len(queue') = Len(queue) + 1
    BY <2>2, AppendProperties
  <2>4. TypeOK'
    BY <1>2, <2>3 DEF Push
  <2>5. Unannounced = 0 /\ Unannounced' = 1
    BY <1>2, <2>1 DEF Push, Unannounced
  <2>6. Balance'
    BY <1>2, <2>1, <2>3, <2>5 DEF Push, Balance
  <2>7. Budget'
    BY <1>2, <2>1, <2>3 DEF Push, Budget
  <2> QED
    BY <2>4, <2>6, <2>7
<1>3. CASE Write(p)
  <2>1. ppc[p] = "write" /\ cpc \notin {"read", "pop"}
        /\ \A o \in Producers : o # p => ppc[o] = "idle"
    BY <1>3, Exclusive DEF Write
  <2>2. Unannounced = 1 /\ Unannounced' = 0
    BY <1>3, <2>1 DEF Write, Unannounced
  <2> QED
    BY <1>3, <2>1, <2>2 DEF Write, Balance, Budget
<1>4. CASE Unlock(p)
  <2>1. ppc[p] = "unlock" /\ cpc \notin {"read", "pop"}
        /\ \A o \in Producers : o # p => ppc[o] = "idle"
    BY <1>4, Exclusive DEF Unlock
  <2> QED
    BY <1>4, <2>1 DEF Unlock, Balance, Budget, Unannounced
<1> QED
  BY <1>1, <1>2, <1>3, <1>4 DEF ProducerStep

LEMMA ConsumerIInv ==
    ASSUME IInv, ConsumerStep
    PROVE  TypeOK' /\ Balance' /\ Budget'
<1> USE DEF IInv, TypeOK
<1>1. CASE Dispatch
  BY <1>1 DEF Dispatch, Balance, Budget, Unannounced
<1>2. CASE HandlerLock
  BY <1>2 DEF HandlerLock, Balance, Budget, Unannounced
<1>3. CASE Read
  <2>1. \A p \in Producers : ppc[p] = "idle"
    BY <1>3 DEF Read, LockOwner
  <2> QED
    BY <1>3, <2>1 DEF Read, Balance, Budget, Unannounced
<1>4. CASE Pop
  <2>1. /\ queue' \in Seq(Data) /\ Len(queue') = Len(queue) - 1
        /\ delivered' \in Seq(Data) /\ Len(delivered') = Len(delivered) + 1
    BY <1>4, MoveFront DEF Pop
  <2>2. TypeOK'
    BY <1>4, <2>1 DEF Pop
  <2>3. Balance'
    BY <1>4, <2>1 DEF Pop, Balance, Unannounced
  <2>4. Budget'
    BY <1>4, <2>1 DEF Pop, Budget
  <2> QED
    BY <2>2, <2>3, <2>4
<1>5. CASE HandlerUnlock
  <2>1. \A p \in Producers : ppc[p] = "idle"
    BY <1>5 DEF HandlerUnlock, LockOwner
  <2> QED
    BY <1>5, <2>1 DEF HandlerUnlock, Balance, Budget, Unannounced
<1> QED
  BY <1>1, <1>2, <1>3, <1>4, <1>5 DEF ConsumerStep

LEMMA NextIInv == IInv /\ [Next]_vars => IInv'
<1> SUFFICES ASSUME IInv, [Next]_vars
             PROVE  TypeOK' /\ Balance' /\ Budget'
  BY LockOwnerStep DEF IInv
<1>1. CASE UNCHANGED vars
  BY <1>1 DEF vars, IInv, TypeOK, Balance, Budget, Unannounced
<1> QED
  BY <1>1, ProducerIInv, ConsumerIInv DEF Next, Quiet

(* IInv is an inductive invariant of the queue.                            *)
THEOREM QueueInvariant == Spec => []IInv
BY InitIInv, NextIInv, PTL DEF Spec

(* The handler never calls front() on an empty queue, no thread blocks in  *)
(* an eventfd call with the mutex held and no wakeup is lost, for any      *)
(* number of producers and requests up to what an eventfd can count.       *)
THEOREM QueueIsSafe == Spec => []QueueSafe
<1>1. IInv => QueueSafe
  <2> SUFFICES ASSUME IInv PROVE QueueSafe
    OBVIOUS
  <2>1. NoEmptyFront
    BY DEF IInv, TypeOK, Balance, Unannounced, NoEmptyFront
  <2>2. ASSUME NEW p \in Producers, ppc[p] = "write"
        PROVE  fd < FDMax
    <3>1. cpc # "pop"
      BY <2>2 DEF IInv, LockOwner
    <3> QED
      BY <2>2, <3>1, LenProperties DEF IInv, TypeOK, Balance, Unannounced, Budget
  <2>3. NoBlockHoldingLock
    BY <2>2 DEF IInv, Balance, NoBlockHoldingLock
  <2>4. NoLostWakeup
    BY DEF IInv, TypeOK, LockOwner, Balance, Unannounced, NoLostWakeup
  <2> QED
    BY <2>1, <2>3, <2>4 DEF QueueSafe
<1> QED
  BY <1>1, QueueInvariant, PTL
-----------------------------------------------------------------------------
(* Every step of the queue is a Send, a Drain or nothing to the channel.   *)
LEMMA StepRefines ==
    ASSUME IInv, [Next]_vars
    PROVE  [Chan!Next]_(Chan!chanVars)
<1> USE DEF IInv, TypeOK, Chan!Next, Chan!chanVars, Chan!Send, Chan!Drain
<1>1. ASSUME NEW p \in Producers, Push(p)
      PROVE  \E d \in Data : Chan!Send(d)
  BY <1>1, Exclusive DEF Push
<1>2. ASSUME NEW p \in Producers, Lock(p) \/ Write(p) \/ Unlock(p)
      PROVE  UNCHANGED Chan!chanVars
  BY <1>2 DEF Lock, Write, Unlock
<1>3. ASSUME Read
      PROVE  Chan!Drain
  <2>1. queue # <<>>
    <3>1. \A p \in Producers : ppc[p] = "idle"
      BY <1>3 DEF Read, LockOwner
    <3> QED
      BY <1>3, <3>1 DEF Read, Balance, Unannounced
  <2> QED
    BY <1>3, <2>1 DEF Read
<1>4. ASSUME Pop
      PROVE  UNCHANGED Chan!chanVars
  <2>1. delivered' \o queue' = delivered \o queue
    BY <1>4, MoveFront DEF Pop
  <2> QED
    BY <1>4, <2>1 DEF Pop
<1>5. ASSUME HandlerUnlock
      PROVE  UNCHANGED Chan!chanVars
  <2>1. queue = <<>>
    BY <1>5, EmptySeq DEF HandlerUnlock, Balance, Unannounced
  <2>2. delivered \o queue = delivered
    BY <2>1, ConcatEmptySeq
  <2> QED
    BY <1>5, <2>1, <2>2 DEF HandlerUnlock
<1>6. ASSUME Dispatch \/ HandlerLock \/ UNCHANGED vars
      PROVE  UNCHANGED Chan!chanVars
  BY <1>6 DEF Dispatch, HandlerLock, vars
<1> QED
  BY <1>1, <1>2, <1>3, <1>4, <1>5, <1>6
  DEF Next, ProducerStep, ConsumerStep, Quiet

(* The mutex, std::queue and eventfd of the code implement a first-in      *)
(* first-out channel whose receiver takes everything pending at once.      *)
THEOREM QueueRefinesChannel == Spec => ChannelSpec
<1>1. Init => Chan!Init
  BY DEF Init, Chan!Init
<1>2. IInv /\ [Next]_vars => [Chan!Next]_(Chan!chanVars)
  BY StepRefines
<1> QED
  BY <1>1, <1>2, QueueInvariant, PTL DEF Spec, ChannelSpec, Chan!Spec
=============================================================================
