----------------------------- MODULE Checksum ------------------------------
(***************************************************************************)
(* The Internet checksum, as one_compl computes it for the ICMP answer and *)
(* UDP::makePacket, twice, for the IP header and for pseudo-header, UDP    *)
(* header and data: words are added without carrying into a 32-bit sum,    *)
(* which is folded twice at the end.  RFC 1071 adds with end-around carry  *)
(* at every word; `ones` is that sum of the same words.                    *)
(***************************************************************************)
EXTENDS Integers

CONSTANTS Words,       \* 16-bit words that may be summed
          MaxWords     \* bound on their number

(* A frame holds fewer than 760 words, so the sum is far from 2^32.        *)
ASSUME ChecksumAssumption == /\ \A w \in Words : w \in Nat /\ w < 65536
                             /\ MaxWords \in Nat /\ MaxWords <= 32768

VARIABLES n,           \* words summed so far
          sum,         \* the code's uint32_t
          ones,        \* the sum of RFC 1071
          stage        \* "add", "fold", "carry", "store", "stored"

sumVars == <<n, sum, ones, stage>>

(* Type invariant: the bound on the words keeps the sum within 32 bits.    *)
ChecksumTypeOK == /\ n \in Nat /\ n <= MaxWords
                  /\ sum \in Nat /\ (stage \in {"add", "fold"} => sum <= 65535 * n)
                  /\ ones \in Nat /\ ones < 65536
                  /\ stage \in {"add", "fold", "carry", "store", "stored"}
-----------------------------------------------------------------------------
(* Addition with end-around carry.                                         *)
OnesAdd(a, b) == IF a + b > 65535 THEN a + b - 65535 ELSE a + b

ChecksumInit == n = 0 /\ sum = 0 /\ ones = 0 /\ stage = "add"

(* One round of the loop.  The word that will hold the checksum is zero    *)
(* while the sum is taken.                                                 *)
AddWord == /\ stage = "add" /\ n < MaxWords
           /\ \E w \in Words : sum' = sum + w /\ ones' = OnesAdd(ones, w)
           /\ n' = n + 1
           /\ UNCHANGED stage

(* makePacket: a last single byte is the upper half of a word.             *)
AddLastByte == /\ stage = "add" /\ n < MaxWords
               /\ \E w \in { v \in Words : v % 256 = 0 } :
                      sum' = sum + w /\ ones' = OnesAdd(ones, w)
               /\ n' = n + 1
               /\ stage' = "fold"

AllAdded == /\ stage = "add"
            /\ stage' = "fold"
            /\ UNCHANGED <<n, sum, ones>>

(* sum = (sum >> 16) + (sum & 0xFFFF).                                     *)
Fold == /\ stage = "fold"
        /\ sum' = (sum \div 65536) + (sum % 65536)
        /\ stage' = "carry"
        /\ UNCHANGED <<n, ones>>

(* Variant: the carry of the first fold is lost. *)
CarryLost == /\ stage = "carry"
             /\ stage' = "store"
             /\ UNCHANGED <<n, sum, ones>>

(* sum += (sum >> 16).                                                     *)
Carry == /\ stage = "carry"
         /\ sum' = sum + (sum \div 65536)
         /\ stage' = "store"
         /\ UNCHANGED <<n, ones>>

(* ~((uint16_t) sum).                                                      *)
Store == /\ stage = "store"
         /\ sum' = 65535 - (sum % 65536)
         /\ stage' = "stored"
         /\ UNCHANGED <<n, ones>>

ChecksumNext == AddWord \/ AddLastByte \/ AllAdded \/ Fold \/ Carry \/ Store

ChecksumSpec == ChecksumInit /\ [][ChecksumNext]_sumVars
-----------------------------------------------------------------------------
(* Who receives a packet adds all its words, the stored checksum included, *)
(* with end-around carry, and accepts it if the result is all ones: it     *)
(* always is (gateway.cpp:282-284, udp.cpp:83-85, 138-141), whatever       *)
(* carries the sum produced.                                               *)
ReceiverAccepts == stage = "stored" => OnesAdd(ones, sum) = 65535

(* Both sums are congruent modulo 65535 and vanish together; with it       *)
(* ReceiverAccepts is inductive.                                           *)
SumsAgree ==
    /\ stage \in {"add", "fold", "carry"} =>
           /\ (sum - ones) % 65535 = 0
           /\ sum = 0 <=> ones = 0
    /\ stage = "carry" => sum < 2 * 65536 - 1
    /\ stage = "store" => sum < 2 * 65536 /\ sum % 65536 = ones
    /\ stage = "stored" => sum = 65535 - ones
=============================================================================
