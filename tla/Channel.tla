------------------------------ MODULE Channel ------------------------------
(***************************************************************************)
(* What one request queue between two threads promises: requests are       *)
(* handed over in the order they were made, none is lost or duplicated,    *)
(* and the receiving handler takes everything that is pending in one step. *)
(* The modules of the whole system use each queue at this level;           *)
(* EventQueue shows that the code's mutex, std::queue and eventfd provide  *)
(* it.                                                                     *)
(***************************************************************************)
EXTENDS Sequences

CONSTANT Data               \* the requests

VARIABLES pending,          \* requests made and not yet taken
          taken             \* every request taken so far, in order

chanVars == <<pending, taken>>

Init == /\ pending = <<>>
        /\ taken = <<>>

Send(d) == /\ pending' = Append(pending, d)
           /\ UNCHANGED taken

Drain == /\ pending # <<>>
         /\ taken' = taken \o pending
         /\ pending' = <<>>

Next == \/ \E d \in Data : Send(d)
        \/ Drain

Spec == Init /\ [][Next]_chanVars

(* The receiver does not leave pending requests lying forever.             *)
DrainFairness == WF_chanVars(Drain)
=============================================================================
