----------------------------- MODULE EventQueue -----------------------------
(***************************************************************************)
(* One of the seven request queues of the program (addStaticIP,            *)
(* delStaticIP, addUserInfo, delUserInfo, sendPacketRequest of the         *)
(* gateway; createDHCP, updateTime of the database): a std::queue, the     *)
(* pthread mutex that guards it and the eventfd that wakes the handler in  *)
(* the owner's event loop.  All seven have the same code; the gateway's    *)
(* handlers work on each request as they pop it, the database's handlers   *)
(* copy the requests to a vector and work after the unlock.  In both a     *)
(* request leaves the queue at the pop, which is what is modelled.         *)
(*                                                                         *)
(* The eventfds are created with eventfd(0,0): reading a zero counter and  *)
(* writing a full one block the caller, here with the mutex held.          *)
(***************************************************************************)
EXTENDS Naturals, Sequences

CONSTANTS Data,        \* the requests
          Producers,   \* threads that make requests
          Consumer,    \* the thread whose event loop owns the eventfd
          NoThread,    \* the mutex is free
          FDMax,       \* largest eventfd counter (2^64 - 2 on Linux)
          MaxSends     \* bound: requests made in one behaviour

ASSUME EventQueueAssumption ==
    /\ Consumer \notin Producers
    /\ NoThread \notin Producers \cup {Consumer}
    /\ FDMax \in Nat
    /\ MaxSends \in 0 .. FDMax

VARIABLES queue,       \* the std::queue
          fd,          \* the eventfd counter
          lock,        \* holder of the mutex
          ppc,         \* what each producer executes next
          cpc,         \* what the consumer executes next
          v, count,    \* the handler's locals: value read, loop counter
          delivered    \* history: requests popped so far

vars == <<queue, fd, lock, ppc, cpc, v, count, delivered>>

Init == /\ queue = <<>>
        /\ fd = 0
        /\ lock = NoThread
        /\ ppc = [p \in Producers |-> "idle"]
        /\ cpc = "wait"
        /\ v = 0
        /\ count = 0
        /\ delivered = <<>>
-----------------------------------------------------------------------------
(* The producer: lock; push; eventfd_write(fd, 1); unlock.                 *)

(* Variant: the producer takes no mutex. *)
LockSkipped(p) == /\ ppc[p] = "idle"
                  /\ Len(delivered) + Len(queue) < MaxSends
                  /\ lock' = p
                  /\ ppc' = [ppc EXCEPT ![p] = "push"]
                  /\ UNCHANGED <<queue, fd, cpc, v, count, delivered>>

Lock(p) == /\ ppc[p] = "idle"
           /\ lock = NoThread
           /\ Len(delivered) + Len(queue) < MaxSends
           /\ lock' = p
           /\ ppc' = [ppc EXCEPT ![p] = "push"]
           /\ UNCHANGED <<queue, fd, cpc, v, count, delivered>>

Push(p) == /\ ppc[p] = "push"
           /\ \E d \in Data : queue' = Append(queue, d)
           /\ ppc' = [ppc EXCEPT ![p] = "write"]
           /\ UNCHANGED <<fd, lock, cpc, v, count, delivered>>

(* Variant: the eventfd is not written. *)
WriteForgotten(p) == /\ ppc[p] = "write"
                     /\ ppc' = [ppc EXCEPT ![p] = "unlock"]
                     /\ UNCHANGED <<queue, fd, lock, cpc, v, count, delivered>>

Write(p) == /\ ppc[p] = "write"
            /\ fd < FDMax
            /\ fd' = fd + 1
            /\ ppc' = [ppc EXCEPT ![p] = "unlock"]
            /\ UNCHANGED <<queue, lock, cpc, v, count, delivered>>

Unlock(p) == /\ ppc[p] = "unlock"
             /\ lock' = NoThread
             /\ ppc' = [ppc EXCEPT ![p] = "idle"]
             /\ UNCHANGED <<queue, fd, cpc, v, count, delivered>>
-----------------------------------------------------------------------------
(* The consumer: the event loop finds the eventfd readable and calls the   *)
(* handler: lock; eventfd_read(fd, &v); v times front() and pop(); unlock. *)

Dispatch == /\ cpc = "wait"
            /\ fd > 0
            /\ cpc' = "lock"
            /\ UNCHANGED <<queue, fd, lock, ppc, v, count, delivered>>

HandlerLock == /\ cpc = "lock"
               /\ lock = NoThread
               /\ lock' = Consumer
               /\ cpc' = "read"
               /\ UNCHANGED <<queue, fd, ppc, v, count, delivered>>

(* Variant: the counter is read and not reset. *)
ReadKeepsCounter == /\ cpc = "read"
                    /\ fd > 0
                    /\ v' = fd
                    /\ count' = 0
                    /\ cpc' = "pop"
                    /\ UNCHANGED <<queue, fd, lock, ppc, delivered>>

Read == /\ cpc = "read"
        /\ fd > 0
        /\ v' = fd
        /\ fd' = 0
        /\ count' = 0
        /\ cpc' = "pop"
        /\ UNCHANGED <<queue, lock, ppc, delivered>>

(* Variant: the newest request is taken instead of front(). *)
PopNewest == /\ cpc = "pop"
             /\ count < v
             /\ queue # <<>>
             /\ delivered' = Append(delivered, queue[Len(queue)])
             /\ queue' = SubSeq(queue, 1, Len(queue) - 1)
             /\ count' = count + 1
             /\ UNCHANGED <<fd, lock, ppc, cpc, v>>

Pop == /\ cpc = "pop"
       /\ count < v
       /\ queue # <<>>
       /\ delivered' = Append(delivered, Head(queue))
       /\ queue' = Tail(queue)
       /\ count' = count + 1
       /\ UNCHANGED <<fd, lock, ppc, cpc, v>>

HandlerUnlock == /\ cpc = "pop"
                 /\ count = v
                 /\ lock' = NoThread
                 /\ cpc' = "wait"
                 /\ UNCHANGED <<queue, fd, ppc, v, count, delivered>>

(* No more requests will be made and no thread is inside a handler or a    *)
(* call.                                                                   *)
Quiet == /\ Len(delivered) + Len(queue) = MaxSends
         /\ cpc = "wait"
         /\ lock = NoThread
         /\ UNCHANGED vars

ProducerStep(p) == Lock(p) \/ Push(p) \/ Write(p) \/ Unlock(p)

ConsumerStep == Dispatch \/ HandlerLock \/ Read \/ Pop \/ HandlerUnlock

Next == \/ \E p \in Producers : ProducerStep(p)
        \/ ConsumerStep
        \/ Quiet

Spec == Init /\ [][Next]_vars

(* A thread that holds the mutex runs on, and the consumer's event loop    *)
(* runs on; nothing forces a producer to make a request.                   *)
Fairness == /\ \A p \in Producers : WF_vars(Push(p) \/ Write(p) \/ Unlock(p))
            /\ WF_vars(ConsumerStep)

FairSpec == Spec /\ Fairness
-----------------------------------------------------------------------------
(* Type invariant.                                                         *)
TypeOK == /\ queue \in Seq(Data)
          /\ fd \in Nat
          /\ lock \in Producers \cup {Consumer, NoThread}
          /\ ppc \in [Producers -> {"idle", "push", "write", "unlock"}]
          /\ cpc \in {"wait", "lock", "read", "pop"}
          /\ v \in Nat
          /\ count \in Nat
          /\ delivered \in Seq(Data)

(* The mutex belongs to exactly the thread that is inside a critical       *)
(* section of this queue.                                                  *)
LockOwner == /\ \A p \in Producers : ppc[p] # "idle" <=> lock = p
             /\ cpc \in {"read", "pop"} <=> lock = Consumer

(* Requests in the queue that the eventfd counter does not announce: the   *)
(* one a producer pushed and has not announced yet, and the ones the       *)
(* handler has read off the counter and not popped yet.                    *)
Unannounced == IF cpc = "pop" THEN v - count
               ELSE IF \E p \in Producers : ppc[p] = "write" THEN 1 ELSE 0

Balance == /\ cpc = "pop" => /\ count <= v
                             /\ fd = 0
           /\ Len(queue) = fd + Unannounced
           /\ cpc \in {"lock", "read"} => fd > 0

(* Requests made so far, the one a producer is about to push included.     *)
Budget == /\ Len(delivered) + Len(queue) <= MaxSends
          /\ (\E p \in Producers : ppc[p] = "push")
                => Len(delivered) + Len(queue) < MaxSends

(* front() is only ever called on a non-empty queue: the eventfd counter   *)
(* the handler trusts (gateway.cpp:51, database.cpp:136) never exceeds     *)
(* what is queued, whatever the interleaving with producers.               *)
NoEmptyFront == cpc = "pop" /\ count < v => queue # <<>>

(* No thread blocks in an eventfd call while it holds the mutex: the       *)
(* handler's eventfd_read finds a positive counter and a producer's        *)
(* eventfd_write a counter with room, so the two threads cannot wait for   *)
(* each other.                                                             *)
NoBlockHoldingLock == /\ cpc = "read" => fd > 0
                      /\ \A p \in Producers : ppc[p] = "write" => fd < FDMax

(* No wakeup is lost: whenever the mutex is free, the counter announces    *)
(* exactly the requests in the queue.                                      *)
NoLostWakeup == lock = NoThread => fd = Len(queue)

QueueSafe == NoEmptyFront /\ NoBlockHoldingLock /\ NoLostWakeup

(* The inductive invariant behind QueueSafe and the refinement.            *)
IInv == TypeOK /\ LockOwner /\ Balance /\ Budget
-----------------------------------------------------------------------------
(* The queue implements Channel.  A request is made when it is pushed, and *)
(* the handler takes everything at its eventfd_read: what it pops later    *)
(* was already promised to it, because it keeps the mutex until it has     *)
(* popped all.                                                             *)
Chan == INSTANCE Channel
        WITH pending <- IF cpc = "pop" THEN <<>> ELSE queue,
             taken <- IF cpc = "pop" THEN delivered \o queue ELSE delivered

(* The lock, queue and eventfd of the code implement the channel: order    *)
(* kept, nothing lost or duplicated, one drain per handler call.           *)
ChannelSpec == Chan!Spec

(* Every request made is handed to the handler.                            *)
ChannelLive == Chan!DrainFairness
=============================================================================
