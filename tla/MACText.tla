------------------------------ MODULE MACText ------------------------------
(***************************************************************************)
(* MAC addresses as text.  The user table holds them as text; the gateway  *)
(* compares six bytes.  Ethernet::printMAC writes an address for a query,  *)
(* Ethernet::readMAC reads one from a row, which printMAC or an            *)
(* administrator wrote: with or without separators, in either case.        *)
(***************************************************************************)
EXTENDS Integers, Sequences

CONSTANTS Octets,         \* values of the bytes of addresses
          Separators      \* what may stand between two bytes of a row

ASSUME MACTextAssumption == Octets \subseteq 0 .. 255

(* Characters are pairs of a kind and, for digits, a value.                *)
Upper == [d \in 0 .. 15 |-> <<"upper", d>>]
Lower == [d \in 0 .. 15 |-> IF d < 10 THEN Upper[d] ELSE <<"lower", d>>]
Other(c) == <<c, -1>>

VARIABLES addr,           \* the address that was written
          buf,            \* what readMAC has still to read
          temp,           \* its result so far
          start,          \* the byte it fills; 0 before it is called
          go_next         \* whether its upper half is filled

textVars == <<addr, buf, temp, start, go_next>>
-----------------------------------------------------------------------------
Pair(digits, b) == <<digits[b \div 16], digits[b % 16]>>

(* A row: the bytes with sep between them, a sequence of at most one       *)
(* character.                                                              *)
Row(digits, sep, a) ==
    LET w == 2 + Len(sep)
    IN  [k \in 1 .. 6 * w - Len(sep) |->
            LET b == a[(k - 1) \div w + 1]
                i == (k - 1) % w
            IN  IF i = 2 THEN sep[1] ELSE Pair(digits, b)[i + 1]]

printMAC(a) == Row(Upper, <<Other("colon")>>, a)

(* -1 for what is no digit.                                                *)
hex_to_byte(c) == IF c[1] \in {"upper", "lower"} THEN c[2] ELSE -1

Rows(a) == { printMAC(a) }
           \cup { Row(Lower, sep, a) : sep \in {<<>>} \cup { <<Other(c)>> : c \in Separators } }

TextInit == /\ addr = [i \in 1 .. 6 |-> 0]
            /\ buf = <<>>
            /\ temp = [i \in 1 .. 6 |-> 0]
            /\ start = 0
            /\ go_next = FALSE

(* A row holds an address, and readMAC is called with its text.            *)
readMAC == /\ start = 0
           /\ addr' \in [1 .. 6 -> Octets]
           /\ buf' \in Rows(addr')
           /\ start' = 1
           /\ UNCHANGED <<temp, go_next>>

Digit == hex_to_byte(Head(buf))

(* One round of the loop; after six bytes it ends.                         *)
Round == /\ start \in 1 .. 6
         /\ buf' = Tail(buf)
         /\ UNCHANGED addr

Skip == /\ Round /\ Digit = -1
        /\ UNCHANGED <<temp, start, go_next>>

(* The byte was zero: or-ing is adding.                                    *)
UpperHalf == /\ Round /\ Digit # -1 /\ ~go_next
             /\ temp' = [temp EXCEPT ![start] = @ + 16 * Digit]
             /\ go_next' = TRUE
             /\ UNCHANGED start

(* Variant: the flag is left set. *)
LowerHalfOnly == /\ Round /\ Digit # -1 /\ go_next
                 /\ temp' = [temp EXCEPT ![start] = @ + Digit]
                 /\ start' = start + 1
                 /\ UNCHANGED go_next

LowerHalf == /\ Round /\ Digit # -1 /\ go_next
             /\ temp' = [temp EXCEPT ![start] = @ + Digit]
             /\ go_next' = FALSE
             /\ start' = start + 1

TextNext == readMAC \/ Skip \/ UpperHalf \/ LowerHalf

TextSpec == TextInit /\ [][TextNext]_textVars
-----------------------------------------------------------------------------
(* What readMAC returns is the address that was written, whoever wrote it, *)
(* and it stops at the end of the text (ethernet.cpp:64-91).               *)
ReadsBack == start > 6 => temp = addr /\ buf = <<>>

(* The text between a row that was written and what readMAC has returned:  *)
(* what it has still to read is the rest of a row from the byte it fills   *)
(* on, or from the half, or from the separator before it.                  *)
Written == {<<Upper, <<Other("colon")>> >>, <<Lower, <<>> >>}
               \cup { <<Lower, <<Other(c)>> >> : c \in Separators }

Rest(q, p) == [k \in 1 .. Len(q) - p |-> q[p + k]]

Place(w, p) == \/ go_next /\ p = (start - 1) * w + 1
               \/ ~go_next /\ start <= 6 /\ p = (start - 1) * w
               \/ ~go_next /\ start >= 2 /\ p = (start - 1) * w - (w - 2)

RestOfRow == \E f \in Written : LET q == Row(f[1], f[2], addr) IN
                 \E p \in 0 .. Len(q) : Place(2 + Len(f[2]), p) /\ buf = Rest(q, p)

(* The bytes before it are read, those after it are still zero.            *)
BytesRead == \A i \in 1 .. 6 : temp[i] = IF i < start THEN addr[i]
                                    ELSE IF i = start /\ go_next THEN 16 * (addr[i] \div 16)
                                    ELSE 0

(* The inductive invariant behind ReadsBack.                               *)
TextInv == /\ start \in 0 .. 7 /\ go_next \in BOOLEAN
           /\ addr \in [1 .. 6 -> 0 .. 255] /\ temp \in [1 .. 6 -> Nat]
           /\ go_next => start \in 1 .. 6
           /\ BytesRead
           /\ start > 0 => RestOfRow
=============================================================================
