---------------------------- MODULE WireProofs -----------------------------
(***************************************************************************)
(* The computations of the program on bytes, for frames, replies, packets  *)
(* and addresses of every length and content.                              *)
(***************************************************************************)
EXTENDS Wire, SequenceTheorems, TLAPS
-----------------------------------------------------------------------------
(* Headers: the length checks of Gateway::serve suffice, short ARP packets *)
(* excepted.                                                               *)

(* Every step keeps the types.                                             *)
LEMMA HeadersTyped == HeadersSpec => []HeadersTypeOK
<1>1. HeadersInit => HeadersTypeOK
  BY DEF HeadersInit, HeadersTypeOK, NoFrame, Content
<1>2. HeadersTypeOK /\ [HeadersNext]_headerVars => HeadersTypeOK'
  <2> SUFFICES ASSUME HeadersTypeOK, [HeadersNext]_headerVars PROVE HeadersTypeOK'
    OBVIOUS
  <2> USE PacketAssumption DEF HeadersTypeOK, Verdicts, Step, Use, UseAddresses
  <2>0. CASE readPacket
    <3>1. frame' \in Content(0 .. 15)
      BY <2>0, HeadersAssumption DEF readPacket, Content
    <3> QED
      BY <2>0, <3>1, HeadersAssumption DEF readPacket
  <2>1. CASE CheckLength
    BY <2>1 DEF CheckLength
  <2>2. CASE icmp_mtu \/ CheckARP \/ CheckIP
    BY <2>2 DEF icmp_mtu, CheckARP, CheckIP
  <2>3. CASE CheckType
    BY <2>3 DEF CheckType, EtherType, Content
  <2>4. CASE CheckPorts
    BY <2>4 DEF CheckPorts
  <2>5. CASE CheckOpcode \/ CheckMessageType \/ TakeClient
    BY <2>5 DEF CheckOpcode, CheckMessageType, TakeClient
  <2>6. CASE UNCHANGED headerVars
    BY <2>6 DEF headerVars
  <2> QED
    BY <2>0, <2>1, <2>2, <2>3, <2>4, <2>5, <2>6 DEF HeadersNext
<1> QED
  BY <1>1, <1>2, PTL DEF HeadersSpec

(* The packet's length never exceeds its buffer once headers are looked    *)
(* at.                                                                     *)
THEOREM ReadsStayInBuffer == HeadersSpec => []WithinCapacity
<1>1. HeadersInit => WithinCapacity
  BY DEF HeadersInit, WithinCapacity
<1>2. HeadersTypeOK /\ WithinCapacity /\ [HeadersNext]_headerVars => WithinCapacity'
  <2> SUFFICES ASSUME HeadersTypeOK, WithinCapacity, [HeadersNext]_headerVars PROVE WithinCapacity'
    OBVIOUS
  <2>0. CASE readPacket
    BY <2>0 DEF readPacket, WithinCapacity
  <2>1. CASE CheckLength
    BY <2>1, PacketAssumption DEF CheckLength, HeadersTypeOK, WithinCapacity, Step, EtherLen
  <2>2. ASSUME header \notin {"idle", "length"}, UNCHANGED len PROVE WithinCapacity'
    BY <2>2 DEF WithinCapacity
  <2>3. CASE icmp_mtu \/ CheckType \/ CheckARP \/ CheckIP
    <3>1. header \notin {"idle", "length"} /\ UNCHANGED len
      BY <2>3 DEF icmp_mtu, CheckType, CheckARP, CheckIP, Step
    <3> QED
      BY <2>2, <3>1
  <2>4. CASE CheckPorts \/ CheckOpcode \/ CheckMessageType \/ TakeClient
    <3>1. header \notin {"idle", "length"} /\ UNCHANGED len
      BY <2>4 DEF CheckPorts, CheckOpcode, CheckMessageType, TakeClient, Step
    <3> QED
      BY <2>2, <3>1
  <2>5. CASE UNCHANGED headerVars
    BY <2>5 DEF headerVars, WithinCapacity
  <2> QED
    BY <2>0, <2>1, <2>3, <2>4, <2>5 DEF HeadersNext
<1> QED
  BY <1>1, <1>2, HeadersTyped, PTL DEF HeadersSpec

(* The next header's offset is at least that of a header without options,  *)
(* so a packet that is not too short holds its addresses and, if it is     *)
(* UDP, its ports.                                                         *)
LEMMA LongEnough ==
  ASSUME HeadersTypeOK
  PROVE  /\ IPWords \in 5 .. 15
         /\ ~IPTooShort => IPSourceRead /\ IPDestinationRead /\ PortsRead
         /\ MessageKnown => ClientRead
<1>1. IPWords \in 5 .. 15
  <2>1. frame.hlen \in 0 .. 15
    BY DEF HeadersTypeOK, Content
  <2> QED
    BY <2>1 DEF IPWords
<1>2. UDPOffset \in Nat /\ UDPOffset >= 34 /\ len \in Nat
  BY <1>1 DEF UDPOffset, EtherLen, HeadersTypeOK
<1>3. ~IPTooShort => IPSourceRead /\ IPDestinationRead /\ PortsRead
  BY <1>2 DEF IPTooShort, IPSourceRead, IPDestinationRead, PortsRead, readable, EtherLen
<1>4. MessageKnown => ClientRead
  BY <1>2 DEF MessageKnown, ClientRead, readable, DHCPOffset
<1> QED
  BY <1>1, <1>3, <1>4

(* What the checks so far say depends on the frame and its length only.    *)
LEMMA SameViews ==
  ASSUME UNCHANGED <<frame, len>>
  PROVE  UNCHANGED <<EtherType, IPTooShort, MessageKnown>>
BY DEF EtherType, IPTooShort, MessageKnown, readable, EtherLen, UDPOffset, DHCPOffset,
       IPWords

(* No decision rests on a variable that was never assigned, for frames of  *)
(* any length, except on the addresses of an ARP packet without them.      *)
THEOREM LengthChecksSuffice == HeadersSpec => []DecidedOnFrame
<1> DEFINE Inv == CheckedSoFar /\ DecidedOnFrame
<1>1. HeadersInit => Inv
  BY DEF HeadersInit, CheckedSoFar, DecidedOnFrame
<1>2. HeadersTypeOK /\ Inv /\ [HeadersNext]_headerVars => Inv'
  <2> SUFFICES ASSUME HeadersTypeOK, Inv, [HeadersNext]_headerVars PROVE Inv'
    OBVIOUS
  <2> USE DEF CheckedSoFar, DecidedOnFrame, Step
  <2>0. CASE readPacket
    <3>1. header' = "length" /\ garbage' = {}
      BY <2>0 DEF readPacket
    <3> QED
      BY <3>1
  <2>1. CASE CheckLength
    <3>1. header' \in {"icmp", "runt", "ethernet"} /\ garbage' = {}
      BY <2>1 DEF CheckLength
    <3> QED
      BY <3>1
  <2>2. ASSUME UNCHANGED <<frame, len>>
        PROVE  UNCHANGED <<EtherType, IPTooShort, MessageKnown>>
    BY <2>2, SameViews
  <2>3. CASE icmp_mtu
    <3>1. UNCHANGED <<frame, len>> /\ header' \in {"dropped", "answered"} /\ header = "icmp"
      BY <2>3 DEF icmp_mtu
    <3>2. len \in Nat /\ (len >= EtherLen + 28 => IPSourceRead /\ IPDestinationRead)
      BY DEF HeadersTypeOK, EtherLen, IPSourceRead, IPDestinationRead, readable
    <3>3. garbage' = {}
      BY <2>3, <3>1, <3>2 DEF icmp_mtu, UseAddresses
    <3> QED
      BY <3>1, <3>3
  <2>4. CASE CheckType
    <3>1. UNCHANGED <<frame, len>> /\ header' = EtherType /\ garbage' = {}
      BY <2>4 DEF CheckType
    <3>2. EtherType \in {"arp", "ip", "other"}
      BY DEF EtherType, HeadersTypeOK, Content
    <3> QED
      BY <2>2, <3>1, <3>2
  <2>5. CASE CheckARP
    <3>1. UNCHANGED <<frame, len>> /\ header' \in {"badarp", "lookup"} /\ header = "arp"
      BY <2>5 DEF CheckARP
    <3>2. EtherType' = "arp"
      BY <2>2, <3>1
    <3>3. len \in Nat /\ (len >= EtherLen + 28 => ARPSourceRead /\ ARPDestinationRead)
      BY DEF HeadersTypeOK, EtherLen, ARPSourceRead, ARPDestinationRead, readable
    <3>4. garbage' # {} => len' < EtherLen + 28
      BY <2>5, <3>1, <3>3 DEF CheckARP, UseAddresses, EtherLen
    <3> QED
      BY <3>1, <3>2, <3>4
  <2>6. CASE CheckIP
    <3>1. UNCHANGED <<frame, len>> /\ header = "ip" /\ header' \in {"short", "udp", "lookup"}
      BY <2>6 DEF CheckIP
    <3>2. header' = "udp" => ~IPTooShort
      BY <2>6 DEF CheckIP
    <3>3. garbage' = {}
      BY <2>6, <3>1, LongEnough DEF CheckIP, UseAddresses
    <3> QED
      BY <2>2, <3>1, <3>2, <3>3
  <2>7. CASE CheckPorts
    <3>1. UNCHANGED <<frame, len>> /\ header = "udp" /\ header' \in {"opcode", "dropped", "lookup"}
      BY <2>7 DEF CheckPorts
    <3>2. garbage' = garbage
      BY <2>7, <3>1, LongEnough DEF CheckPorts, Use
    <3> QED
      BY <2>2, <3>1, <3>2
  <2>8. CASE CheckOpcode \/ CheckMessageType
    <3>1. /\ UNCHANGED <<frame, len, garbage>>
          /\ header \in {"opcode", "mtype"} /\ header' \in {"mtype", "client", "dropped"}
          /\ header' = "client" => MessageKnown
      BY <2>8 DEF CheckOpcode, CheckMessageType
    <3> QED
      BY <2>2, <3>1
  <2>9. CASE TakeClient
    <3>1. UNCHANGED <<frame, len>> /\ header = "client" /\ header' = "dhcp"
      BY <2>9 DEF TakeClient
    <3>2. garbage' = garbage
      BY <2>9, <3>1, LongEnough DEF TakeClient, Use
    <3> QED
      BY <2>2, <3>1, <3>2
  <2>10. CASE UNCHANGED headerVars
    <3>1. UNCHANGED <<frame, len, header, garbage>>
      BY <2>10 DEF headerVars
    <3> QED
      BY <2>2, <3>1
  <2> QED
    BY <2>0, <2>1, <2>3, <2>4, <2>5, <2>6, <2>7, <2>8, <2>9, <2>10 DEF HeadersNext
<1> QED
  BY <1>1, <1>2, HeadersTyped, PTL DEF HeadersSpec
-----------------------------------------------------------------------------
(* Checksums: folding twice at the end is the same as carrying at every    *)
(* word.                                                                   *)

(* A fold keeps the sum modulo 65535, and leaves at most one carry.        *)
LEMMA FoldKeepsAgreement ==
  ASSUME NEW s \in Nat, NEW o \in Nat, o < 65536, s <= 65535 * 32768,
         (s - o) % 65535 = 0, s = 0 <=> o = 0
  PROVE  LET f == (s \div 65536) + (s % 65536)
         IN  /\ f \in Nat /\ f < 2 * 65536 - 1
             /\ (f - o) % 65535 = 0
             /\ f = 0 <=> o = 0
<1> DEFINE q == s \div 65536
           r == s % 65536
<1>1. q \in Nat /\ r \in Nat /\ r < 65536 /\ s = 65536 * q + r
  BY SMT
<1>2. q <= 32767
  BY <1>1, SMT
<1> HIDE DEF q, r
<1>3. q + r \in Nat /\ q + r < 2 * 65536 - 1 /\ (q + r = 0 <=> s = 0)
  BY <1>1, <1>2, SMT
<1>4. ((q + r) - o) % 65535 = 0
  BY <1>1, SMT
<1> QED
  BY <1>3, <1>4, SMT DEF q, r

(* After the second fold the lower half is the sum of RFC 1071.            *)
LEMMA CarryIsOnes ==
  ASSUME NEW s \in Nat, NEW o \in Nat, o < 65536, s < 2 * 65536 - 1,
         (s - o) % 65535 = 0, s = 0 <=> o = 0
  PROVE  LET c == s + (s \div 65536)
         IN  c \in Nat /\ c < 2 * 65536 /\ c % 65536 = o
<1>1. CASE s < 65536
  BY <1>1, SMT
<1>2. CASE s >= 65536
  BY <1>2, SMT
<1> QED
  BY <1>1, <1>2, SMT

(* The inductive invariant.                                                *)
IInv == ChecksumTypeOK /\ SumsAgree

(* It holds before the first word.                                         *)
LEMMA InitIInv == ChecksumInit => IInv
BY ChecksumAssumption, SMT DEF ChecksumInit, IInv, ChecksumTypeOK, SumsAgree

(* Adding a word keeps the sums congruent, and zero together.              *)
LEMMA AddStep ==
  ASSUME IInv, AddWord \/ AddLastByte PROVE IInv'
<1>1. PICK w \in Nat : w < 65536 /\ sum' = sum + w /\ ones' = OnesAdd(ones, w)
  BY ChecksumAssumption, SMT DEF AddWord, AddLastByte
<1>2. /\ stage = "add" /\ n < MaxWords /\ n' = n + 1
      /\ stage' \in {"add", "fold"}
  BY SMT DEF AddWord, AddLastByte
<1>3. /\ sum \in Nat /\ ones \in Nat /\ ones < 65536
      /\ n \in Nat /\ n <= MaxWords /\ sum <= 65535 * n
  BY <1>2, SMT DEF IInv, ChecksumTypeOK
<1>4. (sum - ones) % 65535 = 0 /\ (sum = 0 <=> ones = 0)
  BY <1>2, SMT DEF IInv, SumsAgree
<1>5. /\ ones' \in Nat /\ ones' < 65536
      /\ (sum' - ones') % 65535 = 0
      /\ sum' = 0 <=> ones' = 0
  BY <1>1, <1>3, <1>4, SMT DEF OnesAdd
<1>6. sum' \in Nat /\ sum' <= 65535 * n' /\ n' \in Nat /\ n' <= MaxWords
  BY <1>1, <1>2, <1>3, ChecksumAssumption, SMT
<1> QED
  <2>1. ChecksumTypeOK'
    BY <1>2, <1>5, <1>6, SMT DEF ChecksumTypeOK
  <2>2. SumsAgree'
    BY <1>2, <1>5, SMT DEF SumsAgree
  <2> QED
    BY <2>1, <2>2 DEF IInv

(* The first fold.                                                         *)
LEMMA FoldStep ==
  ASSUME IInv, Fold PROVE IInv'
<1>1. /\ stage = "fold" /\ stage' = "carry" /\ n' = n /\ ones' = ones
      /\ sum' = (sum \div 65536) + (sum % 65536)
  BY SMT DEF Fold
<1>2. /\ sum \in Nat /\ ones \in Nat /\ ones < 65536 /\ n \in Nat /\ n <= MaxWords /\ sum <= 65535 * n
      /\ (sum - ones) % 65535 = 0 /\ (sum = 0 <=> ones = 0)
  BY <1>1, SMT DEF IInv, ChecksumTypeOK, SumsAgree
<1>3. sum <= 65535 * 32768
  BY <1>2, ChecksumAssumption, SMT
<1>4. /\ sum' \in Nat /\ sum' < 2 * 65536 - 1
      /\ (sum' - ones) % 65535 = 0 /\ (sum' = 0 <=> ones = 0)
  BY <1>1, <1>2, <1>3, FoldKeepsAgreement, SMT
<1> QED
  BY <1>1, <1>2, <1>4, SMT DEF IInv, ChecksumTypeOK, SumsAgree

(* The second fold.                                                        *)
LEMMA CarryStep ==
  ASSUME IInv, Carry PROVE IInv'
<1>1. /\ stage = "carry" /\ stage' = "store" /\ n' = n /\ ones' = ones
      /\ sum' = sum + (sum \div 65536)
  BY SMT DEF Carry
<1>2. /\ sum \in Nat /\ ones \in Nat /\ ones < 65536 /\ n \in Nat /\ n <= MaxWords /\ sum < 2 * 65536 - 1
      /\ (sum - ones) % 65535 = 0 /\ (sum = 0 <=> ones = 0)
  BY <1>1, SMT DEF IInv, ChecksumTypeOK, SumsAgree
<1>3. sum' \in Nat /\ sum' < 2 * 65536 /\ sum' % 65536 = ones
  BY <1>1, <1>2, CarryIsOnes, SMT
<1> QED
  BY <1>1, <1>2, <1>3, SMT DEF IInv, ChecksumTypeOK, SumsAgree

(* The complement.                                                         *)
LEMMA StoreStep ==
  ASSUME IInv, Store PROVE IInv'
<1>1. stage = "store" /\ stage' = "stored" /\ n' = n /\ ones' = ones
  BY SMT DEF Store
<1>2. ones \in Nat /\ ones < 65536 /\ n \in Nat /\ n <= MaxWords /\ sum % 65536 = ones
  BY <1>1, SMT DEF IInv, ChecksumTypeOK, SumsAgree
<1>3. sum' = 65535 - ones
  BY <1>2, SMT DEF Store
<1> QED
  BY <1>1, <1>2, <1>3, SMT DEF IInv, ChecksumTypeOK, SumsAgree

(* Every packet's checksum is accepted by who receives it, whatever its    *)
(* words and their carries (one_compl, UDP::makePacket).                   *)
THEOREM ChecksumsAccepted == ChecksumSpec => []ReceiverAccepts
<1>1. IInv /\ [ChecksumNext]_sumVars => IInv'
  <2> SUFFICES ASSUME IInv, [ChecksumNext]_sumVars PROVE IInv'
    OBVIOUS
  <2>1. CASE AllAdded
    BY <2>1, SMT DEF AllAdded, IInv, ChecksumTypeOK, SumsAgree
  <2>2. CASE UNCHANGED sumVars
    BY <2>2, SMT DEF sumVars, IInv, ChecksumTypeOK, SumsAgree
  <2> QED
    BY <2>1, <2>2, AddStep, FoldStep, CarryStep, StoreStep, SMT DEF ChecksumNext
<1>2. IInv => ReceiverAccepts
  BY SMT DEF IInv, ChecksumTypeOK, SumsAgree, ReceiverAccepts, OnesAdd
<1> QED
  BY <1>1, <1>2, InitIInv, PTL DEF ChecksumSpec
-----------------------------------------------------------------------------
(* Replies: every byte that is sent was written.                           *)

LEMMA FunctionLen ==
    ASSUME NEW k \in Nat, NEW q, DOMAIN q = 1 .. k, q = [i \in 1 .. k |-> q[i]]
    PROVE  Len(q) = k /\ q \in Seq({q[i] : i \in 1 .. k})
<1> DEFINE S == {q[i] : i \in 1 .. k}
<1>1. q \in [1 .. k -> S]
  OBVIOUS
<1>2. q \in Seq(S)
  BY <1>1, SeqDef
<1>3. Len(q) \in Nat /\ 1 .. Len(q) = 1 .. k
  BY <1>2, LenProperties
<1>4. Len(q) = k
  BY <1>3
<1> QED
  BY <1>2, <1>4

LEMMA ConcatLen ==
    ASSUME NEW S, NEW q \in Seq(S), NEW T, NEW r \in Seq(T)
    PROVE  /\ Len(q \o r) = Len(q) + Len(r)
           /\ \A i \in 1 .. Len(q) + Len(r) :
                  (q \o r)[i] = IF i <= Len(q) THEN q[i] ELSE r[i - Len(q)]
<1>1. q \in Seq(S \cup T) /\ r \in Seq(S \cup T)
  BY SeqMonotonic
<1> QED
  BY <1>1, ConcatProperties

(* The lengths of what the groups of statements write.                     *)
LEMMA BytesLen ==
    ASSUME NEW k \in Nat, NEW q, DOMAIN q = 1 .. k
    PROVE  Len(Bytes(q)) = k /\ \E S : Bytes(q) \in Seq(S)
<1>1. DOMAIN Bytes(q) = 1 .. k /\ Bytes(q) = [i \in 1 .. k |-> Bytes(q)[i]]
  BY DEF Bytes
<1> QED
  BY <1>1, FunctionLen

LEMMA FieldLens ==
    ASSUME NEW k \in Nat, NEW field
    PROVE  /\ Len(Zeros(k)) = k
           /\ Len(Network(field, k)) = k /\ \E S : Network(field, k) \in Seq(S)
           /\ Len(Host(field, k)) = k /\ \E S : Host(field, k) \in Seq(S)
<1>1. DOMAIN Zeros(k) = 1 .. k /\ Zeros(k) = [i \in 1 .. k |-> Zeros(k)[i]]
  BY DEF Zeros
<1>2. DOMAIN Network(field, k) = 1 .. k
      /\ Network(field, k) = [i \in 1 .. k |-> Network(field, k)[i]]
  BY DEF Network
<1>3. Len(Network(field, k)) = k
  BY <1>2, FunctionLen
<1>4. DOMAIN Host(field, k) = 1 .. k
      /\ Host(field, k) = [i \in 1 .. k |-> Host(field, k)[i]]
  BY <1>3 DEF Host, Reverse
<1> QED
  BY <1>1, <1>2, <1>4, FunctionLen

(* The group of statements s writes code, length and value.                *)
Holds(s, code, v) == /\ s.move = Len(v) + 2 /\ Len(s.put) = Len(v) + 2
                     /\ s.put[1] = Byte(code) /\ s.put[2] = Byte(Len(v))
                     /\ \A i \in 1 .. Len(v) : s.put[2 + i] = v[i]

LEMMA OptionBytes ==
    ASSUME NEW code, NEW S, NEW v \in Seq(S) PROVE Holds(Option(code, v), code, v)
<1>0. PICK s : s = Option(code, v)
  OBVIOUS
<1>1. PICK c : c = <<code, Len(v)>>
  OBVIOUS
<1>2. DOMAIN c = 1 .. 2 /\ c[1] = code /\ c[2] = Len(v)
  BY <1>1
<1>3. PICK b : b = Bytes(c)
  OBVIOUS
<1>4. Len(b) = 2 /\ \E T : b \in Seq(T)
  BY <1>2, <1>3, BytesLen
<1>5. b[1] = Byte(code) /\ b[2] = Byte(Len(v))
  BY <1>2, <1>3 DEF Bytes
<1>6. Len(v) \in Nat
  OBVIOUS
<1>7. /\ Len(b \o v) = 2 + Len(v)
      /\ \A i \in 1 .. 2 + Len(v) : (b \o v)[i] = IF i <= 2 THEN b[i] ELSE v[i - 2]
  <2>1. /\ Len(b \o v) = Len(b) + Len(v)
        /\ \A i \in 1 .. Len(b) + Len(v) :
               (b \o v)[i] = IF i <= Len(b) THEN b[i] ELSE v[i - Len(b)]
    BY <1>4, ConcatLen
  <2> QED
    BY <1>4, <2>1
<1>8. s.put = b \o v /\ s.move = Len(b \o v)
  BY <1>0, <1>1, <1>3 DEF Option, Put
<1>9. PICK p : p = b \o v
  OBVIOUS
<1>10. p[1] = b[1] /\ p[2] = b[2]
  BY <1>6, <1>7, <1>9
<1>11. \A i \in 1 .. Len(v) : p[2 + i] = v[i]
  <2> TAKE i \in 1 .. Len(v)
  <2>1. 2 + i \in 1 .. 2 + Len(v) /\ ~(2 + i <= 2) /\ (2 + i) - 2 = i
    BY <1>6
  <2> QED
    BY <1>7, <1>9, <2>1
<1>12. Len(p) = Len(v) + 2
  BY <1>6, <1>7, <1>9
<1>13. Holds(s, code, v)
  BY <1>5, <1>8, <1>9, <1>10, <1>11, <1>12, Zenon DEF Holds
<1> QED
  BY <1>0, <1>13

LEMMA OffsetValues ==
    /\ Offsets[1] = 0 /\ Offsets[2] = 4 /\ Offsets[3] = 8 /\ Offsets[4] = 16
    /\ Offsets[5] = 20 /\ Offsets[6] = 28 /\ Offsets[7] = 34 /\ Offsets[8] = 44
    /\ Offsets[9] = 236 /\ Offsets[10] = 240 /\ Offsets[11] = 243 /\ Offsets[12] = 249
    /\ Offsets[13] = 255 /\ Offsets[14] = 261 /\ Offsets[15] = 267 /\ Offsets[16] = 271
    /\ Offsets[17] = 273
BY DEF Offsets

LEMMA OffsetsTyped == \A k \in 1 .. 17 : Offsets[k] \in Nat
BY DEF Offsets

(* What a group of statements writes it also moves by, except for the      *)
(* loop over server and gateway address.                                   *)
LEMMA HeaderLen == Len(Header) = 9 /\ \E S : Header \in Seq(S)
<1>1. DOMAIN Header = 1 .. 9 /\ Header = [i \in 1 .. 9 |-> Header[i]]
  BY DEF Header
<1> QED
  BY <1>1, FunctionLen

LEMMA HeaderMoves ==
    /\ \A k \in 1 .. 9 : /\ Len(Header[k].put) \in Nat
                         /\ k # 5 => Header[k].move = Len(Header[k].put)
                         /\ Header[k].move = Offsets[k + 1] - Offsets[k]
    /\ Len(Header[5].put) = 4
<1>1. PICK b1 : b1 = Bytes(<<2, 1, 6, 0>>)
  OBVIOUS
<1>2. PICK b9 : b9 = Bytes(<<99, 130, 83, 99>>)
  OBVIOUS
<1>3. Len(b1) = 4 /\ Len(b9) = 4
  <2>1. DOMAIN <<2, 1, 6, 0>> = 1 .. 4 /\ DOMAIN <<99, 130, 83, 99>> = 1 .. 4
    OBVIOUS
  <2> QED
    BY <1>1, <1>2, <2>1, BytesLen
<1>4. /\ Len(Network("transID", 4)) = 4 /\ Len(Zeros(8)) = 8
      /\ Len(Network("yourIP", 4)) = 4 /\ Len(Zeros(4)) = 4
      /\ Len(Network("clientMAC", 6)) = 6 /\ Len(Zeros(10)) = 10
      /\ Len(Zeros(64 + 128)) = 192
  <2>1. 64 + 128 \in Nat /\ 64 + 128 = 192
    OBVIOUS
  <2>2. Len(Zeros(64 + 128)) = 192
    BY <2>1, FieldLens
  <2>3. Len(Zeros(8)) = 8 /\ Len(Zeros(4)) = 4 /\ Len(Zeros(10)) = 10
    BY FieldLens
  <2>4. /\ Len(Network("transID", 4)) = 4 /\ Len(Network("yourIP", 4)) = 4
        /\ Len(Network("clientMAC", 6)) = 6
    BY FieldLens
  <2> QED
    BY <2>2, <2>3, <2>4
<1>5. PICK z2, z3, z4, z5, z6, z7, z8 :
          /\ z2 = Network("transID", 4) /\ z3 = Zeros(8) /\ z4 = Network("yourIP", 4)
          /\ z5 = Zeros(4) /\ z6 = Network("clientMAC", 6) /\ z7 = Zeros(10)
          /\ z8 = Zeros(64 + 128)
  OBVIOUS
<1>6. Header = << Put(b1), Put(z2), Put(z3), Put(z4), [put |-> z5, move |-> 8],
                  Put(z6), Put(z7), Put(z8), Put(b9) >>
  BY <1>1, <1>2, <1>5, Zenon DEF Header
<1>7. /\ Len(b1) = 4 /\ Len(z2) = 4 /\ Len(z3) = 8 /\ Len(z4) = 4 /\ Len(z5) = 4
      /\ Len(z6) = 6 /\ Len(z7) = 10 /\ Len(z8) = 192 /\ Len(b9) = 4
  BY <1>3, <1>4, <1>5
<1>8. /\ DOMAIN Header = 1 .. 9
      /\ Header[1] = Put(b1) /\ Header[2] = Put(z2) /\ Header[3] = Put(z3)
      /\ Header[4] = Put(z4) /\ Header[5] = [put |-> z5, move |-> 8]
      /\ Header[6] = Put(z6) /\ Header[7] = Put(z7) /\ Header[8] = Put(z8)
      /\ Header[9] = Put(b9)
  BY <1>6
<1>9. \A k \in 1 .. 9 : k = 1 \/ k = 2 \/ k = 3 \/ k = 4 \/ k = 5 \/ k = 6 \/ k = 7
                         \/ k = 8 \/ k = 9
  OBVIOUS
<1>13. /\ Header[1].put = b1 /\ Header[1].move = 4 /\ Header[2].put = z2
       /\ Header[2].move = 4 /\ Header[3].put = z3 /\ Header[3].move = 8
       /\ Header[4].put = z4 /\ Header[4].move = 4 /\ Header[5].put = z5
       /\ Header[5].move = 8 /\ Header[6].put = z6 /\ Header[6].move = 6
       /\ Header[7].put = z7 /\ Header[7].move = 10 /\ Header[8].put = z8
       /\ Header[8].move = 192 /\ Header[9].put = b9 /\ Header[9].move = 4
  <2>1. /\ Header[1].put = b1 /\ Header[1].move = 4 /\ Header[2].put = z2
        /\ Header[2].move = 4 /\ Header[3].put = z3 /\ Header[3].move = 8
    BY <1>7, <1>8 DEF Put
  <2>2. /\ Header[4].put = z4 /\ Header[4].move = 4 /\ Header[6].put = z6
        /\ Header[6].move = 6 /\ Header[7].put = z7 /\ Header[7].move = 10
    BY <1>7, <1>8 DEF Put
  <2>3. /\ Header[8].put = z8 /\ Header[8].move = 192 /\ Header[9].put = b9
        /\ Header[9].move = 4
    BY <1>7, <1>8 DEF Put
  <2>4. Header[5].put = z5 /\ Header[5].move = 8
    BY <1>8
  <2> QED
    BY <2>1, <2>2, <2>3, <2>4
<1> DEFINE Moves(k) == /\ Len(Header[k].put) \in Nat
                       /\ k # 5 => Header[k].move = Len(Header[k].put)
                       /\ Header[k].move = Offsets[k + 1] - Offsets[k]
<1>10. /\ Offsets[1 + 1] - Offsets[1] = 4 /\ Offsets[2 + 1] - Offsets[2] = 4
       /\ Offsets[3 + 1] - Offsets[3] = 8 /\ Offsets[4 + 1] - Offsets[4] = 4
       /\ Offsets[5 + 1] - Offsets[5] = 8 /\ Offsets[6 + 1] - Offsets[6] = 6
       /\ Offsets[7 + 1] - Offsets[7] = 10 /\ Offsets[8 + 1] - Offsets[8] = 192
       /\ Offsets[9 + 1] - Offsets[9] = 4
  BY OffsetValues
<1>14. Moves(1) /\ Moves(2) /\ Moves(3)
  BY <1>7, <1>10, <1>13
<1>15. Moves(4) /\ Moves(5) /\ Moves(6)
  BY <1>7, <1>10, <1>13
<1>16. Moves(7) /\ Moves(8) /\ Moves(9)
  BY <1>7, <1>10, <1>13
<1>17. Len(Header[5].put) = 4
  BY <1>7, <1>13
<1> HIDE DEF Moves
<1>18. \A k \in 1 .. 9 : Moves(k)
  BY <1>9, <1>14, <1>15, <1>16
<1> QED
  BY <1>17, <1>18 DEF Moves

(* The values of the options.                                              *)
LEMMA ServersLen ==
    ASSUME dnsSize \in Nat
    PROVE  Len(Servers) = 4 * dnsSize /\ \E S : Servers \in Seq(S)
<1>1. 4 * dnsSize \in Nat
  OBVIOUS
<1>2. DOMAIN Servers = 1 .. 4 * dnsSize /\ Servers = [i \in 1 .. 4 * dnsSize |-> Servers[i]]
  BY DEF Servers
<1> QED
  BY <1>1, <1>2, FunctionLen

LEMMA MeantValues ==
    ASSUME dnsSize \in Nat
    PROVE  /\ Len(Meant[1][2]) = 1 /\ Len(Meant[2][2]) = 4 /\ Len(Meant[3][2]) = 4
           /\ Len(Meant[4][2]) = 4 /\ Len(Meant[5][2]) = 4 /\ Len(Meant[6][2]) = 2
           /\ Len(Meant[7][2]) = 4 * dnsSize
           /\ \A j \in 1 .. 7 : /\ Meant[j] = <<Meant[j][1], Meant[j][2]>>
                                /\ Meant[j][1] # 255 /\ \E S : Meant[j][2] \in Seq(S)
<1>1. PICK v1, v2, v3, v4, v5, v6, v7 :
          /\ v1 = MessageType /\ v2 = Network("server", 4) /\ v3 = Host("lease", 4)
          /\ v4 = Network("mask", 4) /\ v5 = Network("router", 4)
          /\ v6 = Network("mtu", 2) /\ v7 = Servers
  OBVIOUS
<1>2. Meant = << <<53, v1>>, <<54, v2>>, <<51, v3>>, <<1, v4>>, <<3, v5>>, <<26, v6>>,
                 <<6, v7>> >>
  BY <1>1, Zenon DEF Meant
<1>3. /\ Meant[1] = <<53, v1>> /\ Meant[2] = <<54, v2>> /\ Meant[3] = <<51, v3>>
      /\ Meant[4] = <<1, v4>> /\ Meant[5] = <<3, v5>> /\ Meant[6] = <<26, v6>>
      /\ Meant[7] = <<6, v7>>
  BY <1>2
<1>4. Len(v1) = 1 /\ \E S : v1 \in Seq(S)
  <2>1. DOMAIN <<IF discover THEN 2 ELSE 5>> = 1 .. 1
    OBVIOUS
  <2> QED
    BY <1>1, <2>1, BytesLen DEF MessageType
<1>5. /\ Len(v2) = 4 /\ \E S : v2 \in Seq(S)
      /\ Len(v3) = 4 /\ \E S : v3 \in Seq(S)
      /\ Len(v4) = 4 /\ \E S : v4 \in Seq(S)
  BY <1>1, FieldLens
<1>6. /\ Len(v5) = 4 /\ \E S : v5 \in Seq(S)
      /\ Len(v6) = 2 /\ \E S : v6 \in Seq(S)
  BY <1>1, FieldLens
<1>7. Len(v7) = 4 * dnsSize /\ \E S : v7 \in Seq(S)
  BY <1>1, ServersLen
<1>8. /\ Meant[1][1] = 53 /\ Meant[2][1] = 54 /\ Meant[3][1] = 51 /\ Meant[4][1] = 1
      /\ Meant[5][1] = 3 /\ Meant[6][1] = 26 /\ Meant[7][1] = 6
  BY <1>3
<1>9. /\ Meant[1][2] = v1 /\ Meant[2][2] = v2 /\ Meant[3][2] = v3 /\ Meant[4][2] = v4
      /\ Meant[5][2] = v5 /\ Meant[6][2] = v6 /\ Meant[7][2] = v7
  BY <1>3
<1>10. \A j \in 1 .. 7 : j = 1 \/ j = 2 \/ j = 3 \/ j = 4 \/ j = 5 \/ j = 6 \/ j = 7
  OBVIOUS
<1>11. \A j \in 1 .. 7 : Meant[j][1] # 255
  BY <1>8, <1>10
<1>12. \A j \in 1 .. 7 : \E S : Meant[j][2] \in Seq(S)
  BY <1>4, <1>5, <1>6, <1>7, <1>9, <1>10, Zenon
<1>13. \A j \in 1 .. 7 : Meant[j] = <<Meant[j][1], Meant[j][2]>>
  <2> DEFINE AsPair(j) == Meant[j] = <<Meant[j][1], Meant[j][2]>>
  <2>1. AsPair(1) /\ AsPair(2) /\ AsPair(3) /\ AsPair(4)
    BY <1>3, <1>8, <1>9, Zenon
  <2>2. AsPair(5) /\ AsPair(6) /\ AsPair(7)
    BY <1>3, <1>8, <1>9, Zenon
  <2> HIDE DEF AsPair
  <2>3. \A j \in 1 .. 7 : AsPair(j)
    BY <1>10, <2>1, <2>2
  <2> QED
    BY <2>3 DEF AsPair
<1>14. /\ Len(Meant[1][2]) = 1 /\ Len(Meant[2][2]) = 4 /\ Len(Meant[3][2]) = 4
       /\ Len(Meant[4][2]) = 4 /\ Len(Meant[5][2]) = 4 /\ Len(Meant[6][2]) = 2
       /\ Len(Meant[7][2]) = 4 * dnsSize
  BY <1>4, <1>5, <1>6, <1>7, <1>9
<1> QED
  BY <1>11, <1>12, <1>13, <1>14

(* Each group of statements from the tenth on writes what is meant, the    *)
(* last one without its value.                                             *)
LEMMA OptionsSay ==
    /\ Len(Options) = 7 /\ \E S : Options \in Seq(S)
    /\ \A j \in 1 .. 6 : Options[j] = Option(Meant[j][1], Meant[j][2])
    /\ Options[7] = Put(Bytes(<<Meant[7][1], dnsBytes>>))
<1>1. PICK v1, v2, v3, v4, v5, v6, v7 :
          /\ v1 = MessageType /\ v2 = Network("server", 4) /\ v3 = Host("lease", 4)
          /\ v4 = Network("mask", 4) /\ v5 = Network("router", 4)
          /\ v6 = Network("mtu", 2) /\ v7 = Servers
  OBVIOUS
<1>2. PICK o1, o2, o3, o4, o5, o6, o7 :
          /\ o1 = Option(53, v1) /\ o2 = Option(54, v2) /\ o3 = Option(51, v3)
          /\ o4 = Option(1, v4) /\ o5 = Option(3, v5) /\ o6 = Option(26, v6)
          /\ o7 = Put(Bytes(<<6, dnsBytes>>))
  OBVIOUS
<1>3. Options = << o1, o2, o3, o4, o5, o6, o7 >>
  BY <1>1, <1>2, Zenon DEF Options
<1>4. /\ DOMAIN Options = 1 .. 7 /\ Options[1] = o1 /\ Options[2] = o2
      /\ Options[3] = o3 /\ Options[4] = o4 /\ Options[5] = o5 /\ Options[6] = o6
      /\ Options[7] = o7
  BY <1>3
<1>5. Options = [i \in 1 .. 7 |-> Options[i]]
  BY <1>3, <1>4
<1>6. Len(Options) = 7 /\ \E S : Options \in Seq(S)
  BY <1>4, <1>5, FunctionLen
<1>7. Meant = << <<53, v1>>, <<54, v2>>, <<51, v3>>, <<1, v4>>, <<3, v5>>, <<26, v6>>,
                 <<6, v7>> >>
  BY <1>1, Zenon DEF Meant
<1>8. /\ Meant[1] = <<53, v1>> /\ Meant[2] = <<54, v2>> /\ Meant[3] = <<51, v3>>
      /\ Meant[4] = <<1, v4>> /\ Meant[5] = <<3, v5>> /\ Meant[6] = <<26, v6>>
      /\ Meant[7] = <<6, v7>>
  BY <1>7
<1>9. /\ Meant[1][1] = 53 /\ Meant[2][1] = 54 /\ Meant[3][1] = 51 /\ Meant[4][1] = 1
      /\ Meant[5][1] = 3 /\ Meant[6][1] = 26 /\ Meant[7][1] = 6
      /\ Meant[1][2] = v1 /\ Meant[2][2] = v2 /\ Meant[3][2] = v3 /\ Meant[4][2] = v4
      /\ Meant[5][2] = v5 /\ Meant[6][2] = v6
  BY <1>8
<1>10. \A j \in 1 .. 6 : j = 1 \/ j = 2 \/ j = 3 \/ j = 4 \/ j = 5 \/ j = 6
  OBVIOUS
<1>11. \A j \in 1 .. 6 : Options[j] = Option(Meant[j][1], Meant[j][2])
  <2> DEFINE Says(j) == Options[j] = Option(Meant[j][1], Meant[j][2])
  <2>1. Says(1) /\ Says(2) /\ Says(3)
    BY <1>2, <1>4, <1>9, Zenon
  <2>2. Says(4) /\ Says(5) /\ Says(6)
    BY <1>2, <1>4, <1>9, Zenon
  <2> HIDE DEF Says
  <2>3. \A j \in 1 .. 6 : Says(j)
    BY <1>10, <2>1, <2>2
  <2> QED
    BY <2>3 DEF Says
<1>12. Options[7] = Put(Bytes(<<Meant[7][1], dnsBytes>>))
  BY <1>2, <1>4, <1>9
<1> QED
  BY <1>6, <1>11, <1>12

LEMMA OptionSizes ==
    ASSUME dnsSize \in Nat
    PROVE  \A j \in 1 .. 6 : /\ Len(Meant[j][2]) + 2 = Offsets[10 + j] - Offsets[9 + j]
                             /\ Len(Meant[j][2]) \in 0 .. 4
<1> DEFINE Sized(j) == /\ Len(Meant[j][2]) + 2 = Offsets[10 + j] - Offsets[9 + j]
                       /\ Len(Meant[j][2]) \in 0 .. 4
<1>1. /\ Len(Meant[1][2]) = 1 /\ Len(Meant[2][2]) = 4 /\ Len(Meant[3][2]) = 4
      /\ Len(Meant[4][2]) = 4 /\ Len(Meant[5][2]) = 4 /\ Len(Meant[6][2]) = 2
  BY MeantValues
<1>2. /\ Offsets[10 + 1] - Offsets[9 + 1] = 3 /\ Offsets[10 + 2] - Offsets[9 + 2] = 6
      /\ Offsets[10 + 3] - Offsets[9 + 3] = 6 /\ Offsets[10 + 4] - Offsets[9 + 4] = 6
      /\ Offsets[10 + 5] - Offsets[9 + 5] = 6 /\ Offsets[10 + 6] - Offsets[9 + 6] = 4
  BY OffsetValues
<1>3. Sized(1) /\ Sized(2) /\ Sized(3) /\ Sized(4) /\ Sized(5) /\ Sized(6)
  BY <1>1, <1>2
<1>4. \A j \in 1 .. 6 : j = 1 \/ j = 2 \/ j = 3 \/ j = 4 \/ j = 5 \/ j = 6
  OBVIOUS
<1> HIDE DEF Sized
<1>5. \A j \in 1 .. 6 : Sized(j)
  BY <1>3, <1>4
<1> QED
  BY <1>5 DEF Sized

LEMMA SmallNumbers ==
    ASSUME NEW a \in 0 .. 255
    PROVE  a % 256 = a /\ (a + 2) - 2 = a /\ a + 2 \in Nat /\ a + 2 >= 2
OBVIOUS

(* The group of statements s puts option j.                                *)
PutsOption(j, s) ==
    /\ s.move = Offsets[10 + j] - Offsets[9 + j] /\ Len(s.put) = s.move
    /\ s.move \in Nat /\ s.move >= 2
    /\ j # 7 => s.move = Len(Meant[j][2]) + 2
    /\ j = 7 => s.move = 2
    /\ s.put[1] = Byte(Meant[j][1]) /\ s.put[2] = Byte(Len(Meant[j][2]) % 256)
    /\ \A i \in 1 .. s.move - 2 : s.put[2 + i] = Meant[j][2][i]

LEMMA OptionsMoves ==
    ASSUME dnsSize \in Nat, NEW j \in 1 .. 7 PROVE PutsOption(j, Options[j])
<1>0. PICK s : s = Options[j]
  OBVIOUS
<1> SUFFICES PutsOption(j, s)
  BY <1>0
<1>1. CASE j # 7
  <2>1. PICK S, v, code : v = Meant[j][2] /\ code = Meant[j][1] /\ v \in Seq(S)
    <3>1. PICK S : Meant[j][2] \in Seq(S)
      BY MeantValues
    <3> QED
      BY <3>1, Zenon
  <2>2. s = Option(code, v)
    BY <1>0, <1>1, <2>1, OptionsSay
  <2>3. /\ s.move = Len(v) + 2 /\ Len(s.put) = Len(v) + 2
        /\ s.put[1] = Byte(code) /\ s.put[2] = Byte(Len(v))
        /\ \A i \in 1 .. Len(v) : s.put[2 + i] = v[i]
    <3>1. Holds(s, code, v)
      BY <2>1, <2>2, OptionBytes
    <3> QED
      BY <3>1, Zenon DEF Holds
  <2>4. Len(v) + 2 = Offsets[10 + j] - Offsets[9 + j] /\ Len(v) \in 0 .. 4
    <3>1. j \in 1 .. 6
      BY <1>1
    <3> QED
      BY <2>1, <3>1, OptionSizes, Zenon
  <2>5. /\ Len(v) % 256 = Len(v) /\ (Len(v) + 2) - 2 = Len(v)
        /\ Len(v) + 2 \in Nat /\ Len(v) + 2 >= 2
    <3>1. PICK a : a = Len(v)
      OBVIOUS
    <3>2. a \in 0 .. 4
      BY <2>4, <3>1
    <3>3. a \in 0 .. 255
      BY <3>2
    <3>4. a % 256 = a /\ (a + 2) - 2 = a /\ a + 2 \in Nat /\ a + 2 >= 2
      BY <3>3, SmallNumbers
    <3> QED
      BY <3>1, <3>4, Zenon
  <2>6. \A i \in 1 .. s.move - 2 : s.put[2 + i] = v[i]
    BY <2>3, <2>5
  <2> QED
    BY <1>1, <2>1, <2>3, <2>4, <2>5, <2>6, Zenon DEF PutsOption
<1>2. CASE j = 7
  <2>1. PICK c, b : c = <<Meant[7][1], dnsBytes>> /\ b = Bytes(c)
    OBVIOUS
  <2>2. DOMAIN c = 1 .. 2 /\ c[1] = Meant[7][1] /\ c[2] = dnsBytes
    BY <2>1
  <2>3. Len(b) = 2 /\ b[1] = Byte(Meant[7][1]) /\ b[2] = Byte(dnsBytes)
    BY <2>1, <2>2, BytesLen DEF Bytes
  <2>4. s.put = b /\ s.move = 2
    BY <1>0, <1>2, <2>1, <2>3, OptionsSay DEF Put
  <2>5. dnsBytes = Len(Meant[7][2]) % 256
    <3>1. dnsSize * 4 = 4 * dnsSize
      OBVIOUS
    <3>2. Len(Meant[7][2]) = 4 * dnsSize
      BY MeantValues, Zenon
    <3> QED
      BY <3>1, <3>2, Zenon DEF dnsBytes
  <2>6. 2 = Offsets[10 + j] - Offsets[9 + j]
    BY <1>2, OffsetValues
  <2>7. \A i \in 1 .. s.move - 2 : s.put[2 + i] = Meant[j][2][i]
    BY <2>4
  <2>8. Len(s.put) = s.move /\ s.move \in Nat /\ s.move >= 2
    BY <2>3, <2>4
  <2>9. s.put[1] = Byte(Meant[j][1]) /\ s.put[2] = Byte(Len(Meant[j][2]) % 256)
    BY <1>2, <2>3, <2>4, <2>5, Zenon
  <2> QED
    BY <1>2, <2>4, <2>6, <2>7, <2>8, <2>9, Zenon DEF PutsOption
<1> QED
  BY <1>1, <1>2

LEMMA StatementMoves ==
    ASSUME dnsSize \in Nat
    PROVE  /\ Len(Statements) = 16
           /\ \A k \in 1 .. 9 : Statements[k] = Header[k]
           /\ \A j \in 1 .. 7 : Statements[9 + j] = Options[j]
           /\ \A k \in 1 .. 16 : /\ Len(Statements[k].put) \in Nat
                                 /\ k # 5 => Statements[k].move = Len(Statements[k].put)
                                 /\ Statements[k].move = Offsets[k + 1] - Offsets[k]
           /\ Len(Statements[5].put) = 4
<1>1. PICK S : Header \in Seq(S)
  BY HeaderLen
<1>2. PICK T : Options \in Seq(T)
  BY OptionsSay
<1>3. Len(Header) = 9 /\ Len(Options) = 7
  BY HeaderLen, OptionsSay
<1>4. /\ Len(Statements) = 9 + 7
      /\ \A i \in 1 .. 9 + 7 :
             Statements[i] = IF i <= 9 THEN Header[i] ELSE Options[i - 9]
  <2>1. PICK h, o : h = Header /\ o = Options
    OBVIOUS
  <2>2. /\ Len(h \o o) = Len(h) + Len(o)
        /\ \A i \in 1 .. Len(h) + Len(o) :
               (h \o o)[i] = IF i <= Len(h) THEN h[i] ELSE o[i - Len(h)]
    <3>1. h \in Seq(S) /\ o \in Seq(T)
      BY <1>1, <1>2, <2>1
    <3> QED
      BY <3>1, ConcatLen
  <2>3. Len(h) = 9 /\ Len(o) = 7 /\ Statements = h \o o
    BY <1>3, <2>1 DEF Statements
  <2> QED
    BY <2>1, <2>2, <2>3
<1>5. Len(Statements) = 16 /\ \A k \in 1 .. 9 : Statements[k] = Header[k]
  BY <1>4
<1>6. \A j \in 1 .. 7 : Statements[9 + j] = Options[j]
  <2> TAKE j \in 1 .. 7
  <2>1. 9 + j \in 1 .. 9 + 7 /\ ~(9 + j <= 9) /\ (9 + j) - 9 = j
    OBVIOUS
  <2> QED
    BY <1>4, <2>1
<1>7. ASSUME NEW k \in 1 .. 16
      PROVE  /\ Len(Statements[k].put) \in Nat
             /\ k # 5 => Statements[k].move = Len(Statements[k].put)
             /\ Statements[k].move = Offsets[k + 1] - Offsets[k]
  <2>1. CASE k \in 1 .. 9
    BY <1>5, <2>1, HeaderMoves
  <2>2. CASE k \notin 1 .. 9
    <3>1. PICK j \in 1 .. 7 : k = 9 + j
      <4>1. k - 9 \in 1 .. 7 /\ k = 9 + (k - 9)
        BY <2>2
      <4> QED
        BY <4>1
    <3>2. PICK s : s = Options[j]
      OBVIOUS
    <3>3. s.move = Offsets[10 + j] - Offsets[9 + j] /\ Len(s.put) = s.move /\ s.move \in Nat
      <4>1. PutsOption(j, s)
        BY <3>2, OptionsMoves
      <4> QED
        BY <4>1 DEF PutsOption
    <3>4. Statements[k] = s /\ k + 1 = 10 + j
      BY <1>6, <3>1, <3>2
    <3> QED
      BY <3>1, <3>3, <3>4
  <2> QED
    BY <2>1, <2>2
<1>8. Len(Statements[5].put) = 4
  BY <1>5, HeaderMoves
<1> QED
  BY <1>5, <1>6, <1>7, <1>8

(* What writeByteArray does if it fits: it puts the bytes where they       *)
(* belong and leaves what is before them.                                  *)
HasWritten(m, from, bytes) ==
    /\ DOMAIN m = (from .. from + Len(bytes) - 1) \cup DOMAIN inMemory
    /\ \A i \in 1 .. Len(bytes) : /\ from + i - 1 \in DOMAIN m
                                  /\ m[from + i - 1] = bytes[i]
    /\ \A o \in DOMAIN inMemory : /\ o \in DOMAIN m
                                  /\ o \in Int /\ o < from => m[o] = inMemory[o]

LEMMA WriteFits ==
    ASSUME NEW from \in Nat, NEW bytes, Len(bytes) \in Nat, from + Len(bytes) <= writtenByte
    PROVE  HasWritten(writeByteArray(from, bytes), from, bytes)
<1>0. PICK m : m = writeByteArray(from, bytes)
  OBVIOUS
<1> SUFFICES HasWritten(m, from, bytes)
  BY <1>0
<1>1. writtenByte \in Int
  BY PacketAssumption DEF writtenByte, totalHeaderLen, EtherLen
<1>2. ~(from + Len(bytes) > writtenByte)
  BY <1>1
<1> DEFINE now == from .. from + Len(bytes) - 1
<1>3. m = [i \in now \cup DOMAIN inMemory |-> IF i \in now THEN bytes[i - from + 1]
                                              ELSE inMemory[i]]
  BY <1>0, <1>2 DEF writeByteArray
<1>4. \A i \in 1 .. Len(bytes) : from + i - 1 \in now /\ (from + i - 1) - from + 1 = i
  OBVIOUS
<1>5. \A o \in Int : o < from => o \notin now
  OBVIOUS
<1> HIDE DEF now
<1>6. DOMAIN m = now \cup DOMAIN inMemory
  BY <1>3
<1>7. ASSUME NEW i \in 1 .. Len(bytes)
      PROVE  from + i - 1 \in DOMAIN m /\ m[from + i - 1] = bytes[i]
  <2>1. from + i - 1 \in now /\ (from + i - 1) - from + 1 = i
    BY <1>4
  <2> QED
    BY <1>3, <1>6, <2>1
<1>8. ASSUME NEW o \in DOMAIN inMemory
      PROVE  o \in DOMAIN m /\ (o \in Int /\ o < from => m[o] = inMemory[o])
  BY <1>3, <1>5, <1>6
<1>9. DOMAIN m = (from .. from + Len(bytes) - 1) \cup DOMAIN inMemory
  BY <1>6 DEF now
<1> QED
  BY <1>7, <1>8, <1>9, Zenon DEF HasWritten

LEMMA WritesOn ==
    ASSUME ReplyInv, NEW bytes, Len(bytes) \in Nat, NEW move \in Nat, Len(bytes) <= move,
           Len(bytes) = move \/ (current_offset = 20 /\ Len(bytes) = 4 /\ move = 8),
           inMemory' = writeByteArray(current_offset, bytes),
           current_offset' = current_offset + move
    PROVE  current_offset' \in Nat /\ NothingLeftOut'
<1>1. current_offset \in Nat /\ current_offset' \in Nat /\ writtenByte \in Int
  BY PacketAssumption DEF ReplyInv, ReplyTypeOK, writtenByte, totalHeaderLen, EtherLen
<1>2. ASSUME current_offset' <= writtenByte, NEW i \in 0 .. current_offset' - 1
      PROVE  i \in DOMAIN inMemory' \cup 24 .. 27
  <2>1. /\ current_offset <= writtenByte
        /\ current_offset + Len(bytes) <= writtenByte
    BY <1>1, <1>2
  <2>2. DOMAIN inMemory' = (current_offset .. current_offset + Len(bytes) - 1)
                               \cup DOMAIN inMemory
    <3>1. HasWritten(inMemory', current_offset, bytes)
      BY <1>1, <2>1, WriteFits
    <3> QED
      BY <3>1 DEF HasWritten
  <2>3. 0 .. current_offset - 1 \subseteq DOMAIN inMemory \cup 24 .. 27
    BY <2>1 DEF ReplyInv, NothingLeftOut
  <2>4. \/ i \in 0 .. current_offset - 1
        \/ i \in current_offset .. current_offset + Len(bytes) - 1
        \/ i \in 24 .. 27
    <3>1. CASE Len(bytes) = move
      BY <1>1, <1>2, <3>1
    <3>2. CASE current_offset = 20 /\ Len(bytes) = 4 /\ move = 8
      <4>1. current_offset' = 28
        BY <3>2
      <4> QED
        BY <1>2, <3>2, <4>1
    <3> QED
      BY <3>1, <3>2
  <2> QED
    BY <2>2, <2>3, <2>4
<1>3. writtenByte' = writtenByte
  BY DEF writtenByte, totalHeaderLen, EtherLen
<1> QED
  BY <1>1, <1>2, <1>3 DEF NothingLeftOut

(* What a step that writes a group of statements does.                     *)
LEMMA LineWritten ==
    ASSUME ReplyInv, WriteLine, NEW s, s = Statements[line]
    PROVE  /\ line \in 1 .. 16 /\ line' = line + 1 /\ dnsLeft = dnsSize
           /\ reply = "write" /\ reply' = "write"
           /\ UNCHANGED <<discover, dnsLeft, dnsSize, at, learnt>>
           /\ inMemory' = writeByteArray(current_offset, s.put)
           /\ current_offset = Offsets[line]
           /\ current_offset' = current_offset + s.move
           /\ s.move = Offsets[line + 1] - Offsets[line]
           /\ Len(s.put) \in Nat /\ s.move \in Nat
           /\ Len(s.put) = s.move \/ (current_offset = 20 /\ Len(s.put) = 4 /\ s.move = 8)
<1>1. dnsSize \in Nat /\ dnsLeft \in Nat /\ line \in 1 .. 17
  BY DEF ReplyInv, ReplyTypeOK
<1>2. /\ line \in 1 .. 16 /\ line' = line + 1
      /\ reply = "write" /\ reply' = "write"
      /\ UNCHANGED <<discover, dnsLeft, dnsSize, at, learnt>>
      /\ inMemory' = writeByteArray(current_offset, s.put)
      /\ current_offset' = current_offset + s.move
  <2>1. Len(Statements) = 16
    BY <1>1, StatementMoves
  <2> QED
    BY <1>1, <2>1 DEF WriteLine, clientVars
<1>3. /\ Len(s.put) \in Nat
      /\ line # 5 => s.move = Len(s.put)
      /\ s.move = Offsets[line + 1] - Offsets[line]
  BY <1>1, <1>2, StatementMoves
<1>4. dnsLeft = dnsSize
  BY <1>2 DEF ReplyInv, OffsetInv
<1>5. current_offset = Offsets[line]
  <2>1. current_offset = Offsets[line] + 4 * (dnsSize - dnsLeft) + 0
    BY <1>2 DEF ReplyInv, OffsetInv
  <2>2. 4 * (dnsSize - dnsLeft) = 0
    BY <1>1, <1>4
  <2>3. Offsets[line] \in Int
    BY <1>2 DEF Offsets
  <2> QED
    BY <2>1, <2>2, <2>3
<1>6. line = 5 => s.move = 8 /\ Len(s.put) = 4 /\ current_offset = 20
  <2> SUFFICES ASSUME line = 5 PROVE s.move = 8 /\ Len(s.put) = 4 /\ current_offset = 20
    OBVIOUS
  <2>1. Offsets[line] = 20 /\ Offsets[line + 1] = 28
    BY OffsetValues
  <2>2. Len(s.put) = 4
    BY <1>1, StatementMoves
  <2> QED
    BY <1>3, <1>5, <2>1, <2>2
<1>7. /\ s.move \in Nat
      /\ Len(s.put) = s.move \/ (current_offset = 20 /\ Len(s.put) = 4 /\ s.move = 8)
  <2>1. CASE line = 5
    BY <1>6, <2>1
  <2>2. CASE line # 5
    BY <1>3, <2>2
  <2> QED
    BY <2>1, <2>2
<1> QED
  BY <1>2, <1>3, <1>4, <1>5, <1>7

LEMMA ServerBytes ==
    ASSUME NEW k PROVE Len(Server(k)) = 4 /\ \A i \in 1 .. 4 : Server(k)[i] = <<"dns", k, i>>
<1>1. DOMAIN Server(k) = 1 .. 4 /\ Server(k) = [i \in 1 .. 4 |-> Server(k)[i]]
  BY DEF Server
<1>2. Len(Server(k)) = 4
  BY <1>1, FunctionLen
<1> QED
  BY <1>2 DEF Server

LEMMA EndByte == Len(Bytes(<<255>>)) = 1 /\ Bytes(<<255>>)[1] = Byte(255)
<1>1. PICK c : c = <<255>>
  OBVIOUS
<1>2. DOMAIN c = 1 .. 1 /\ c[1] = 255
  BY <1>1
<1>3. Len(Bytes(c)) = 1
  BY <1>2, BytesLen
<1>4. Bytes(c)[1] = Byte(255)
  BY <1>2 DEF Bytes
<1> QED
  BY <1>1, <1>3, <1>4

LEMMA ReplyStep == ASSUME ReplyInv, [ReplyNext]_replyVars PROVE ReplyInv'
<1> USE PacketAssumption, ReplyAssumption
<1>0. writtenByte' = writtenByte
  BY DEF writtenByte, totalHeaderLen, EtherLen
<1>1. CASE UNCHANGED <<dnsLeft, dnsSize, inMemory, current_offset, line, reply>>
  BY <1>0, <1>1 DEF ReplyInv, ReplyTypeOK, OffsetInv, NothingLeftOut, ReplyWritten
<1>2. CASE create_dhcp
  <2>1. /\ reply = "idle" /\ reply' = "write" /\ dnsSize' \in Nat /\ dnsLeft' = dnsSize'
        /\ UNCHANGED <<inMemory, current_offset, line>>
    BY <1>2 DEF create_dhcp
  <2>2. line \in 1 .. 17 /\ dnsSize \in Nat /\ dnsLeft \in Nat /\ Offsets[line] \in Int
    <3>1. line \in 1 .. 17 /\ dnsSize \in Nat /\ dnsLeft \in Nat
      BY DEF ReplyInv, ReplyTypeOK
    <3> QED
      BY <3>1 DEF Offsets
  <2> QED
    BY <1>0, <2>1, <2>2 DEF ReplyInv, ReplyTypeOK, OffsetInv, NothingLeftOut, ReplyWritten
<1>3. CASE WriteLine
  <2>1. PICK s : s = Statements[line]
    OBVIOUS
  <2>2. /\ line \in 1 .. 16 /\ line' = line + 1 /\ dnsLeft = dnsSize
        /\ reply = "write" /\ reply' = "write" /\ UNCHANGED <<dnsLeft, dnsSize>>
        /\ inMemory' = writeByteArray(current_offset, s.put)
        /\ current_offset = Offsets[line]
        /\ current_offset' = current_offset + s.move
        /\ s.move = Offsets[line + 1] - Offsets[line]
        /\ Len(s.put) \in Nat /\ s.move \in Nat
        /\ Len(s.put) = s.move \/ (current_offset = 20 /\ Len(s.put) = 4 /\ s.move = 8)
    BY <1>3, <2>1, LineWritten
  <2>3. Len(s.put) <= s.move
    <3>1. PICK a, b : a = Len(s.put) /\ b = s.move
      OBVIOUS
    <3>2. a \in Nat /\ (a = b \/ (a = 4 /\ b = 8))
      BY <2>2, <3>1
    <3>3. a <= b
      BY <3>2
    <3> QED
      BY <3>1, <3>3
  <2>4. current_offset' \in Nat /\ NothingLeftOut'
    BY <2>2, <2>3, WritesOn
  <2>5. dnsSize \in Nat
    BY DEF ReplyInv, ReplyTypeOK
  <2>6. ReplyTypeOK'
    BY <2>2, <2>4, <2>5 DEF ReplyTypeOK
  <2>7. OffsetInv'
    <3>1. Offsets[line] \in Int /\ Offsets[line + 1] \in Int
      <4>1. line \in 1 .. 17 /\ line + 1 \in 1 .. 17
        BY <2>2
      <4> QED
        BY <4>1, OffsetsTyped
    <3>2. Offsets' = Offsets
      BY DEF Offsets
    <3>3. current_offset' = Offsets[line + 1] /\ 4 * (dnsSize - dnsSize) = 0
      <4>1. current_offset' = Offsets[line] + (Offsets[line + 1] - Offsets[line])
        BY <2>2
      <4> QED
        BY <2>5, <3>1, <4>1
    <3> QED
      BY <2>2, <2>5, <3>1, <3>2, <3>3 DEF OffsetInv
  <2> QED
    BY <2>2, <2>4, <2>6, <2>7 DEF ReplyInv, ReplyWritten
<1>4. CASE WriteDNS
  <2>1. PICK k : k = Server(dnsSize - dnsLeft + 1)
    OBVIOUS
  <2>2. Len(k) = 4
    BY <2>1, ServerBytes
  <2>3. dnsSize \in Nat /\ dnsLeft \in Nat /\ line \in 1 .. 17
    BY DEF ReplyInv, ReplyTypeOK
  <2>4. /\ inMemory' = writeByteArray(current_offset, k)
        /\ current_offset' = current_offset + 4 /\ reply = "write" /\ reply' = "write"
        /\ UNCHANGED <<line, dnsSize>> /\ dnsLeft > 0 /\ dnsLeft' = dnsLeft - 1 /\ line = 17
    <3>1. Len(Statements) = 16
      BY <2>3, StatementMoves
    <3> QED
      BY <1>4, <2>1, <2>3, <3>1 DEF WriteDNS
  <2>5. Len(k) \in Nat /\ Len(k) <= 4 /\ 4 \in Nat
    BY <2>2
  <2>6. current_offset' \in Nat /\ NothingLeftOut'
    BY <2>2, <2>4, <2>5, WritesOn
  <2>7. ReplyTypeOK'
    BY <2>3, <2>4, <2>6 DEF ReplyTypeOK
  <2>8. OffsetInv'
    <3>1. current_offset = 273 + 4 * (dnsSize - dnsLeft) + 0 /\ dnsLeft <= dnsSize
      BY <2>4, OffsetValues DEF ReplyInv, OffsetInv
    <3>2. current_offset' = 273 + 4 * (dnsSize - dnsLeft') + 0 /\ dnsLeft' <= dnsSize
      BY <2>3, <2>4, <3>1
    <3>3. Offsets'[17] = 273
      BY OffsetValues DEF Offsets
    <3> QED
      BY <2>4, <3>2, <3>3 DEF OffsetInv
  <2> QED
    BY <2>4, <2>6, <2>7, <2>8 DEF ReplyInv, ReplyWritten
<1>5. CASE WriteEnd
  <2>1. PICK k : k = Bytes(<<255>>)
    OBVIOUS
  <2>2. Len(k) = 1
    BY <2>1, EndByte
  <2>3. dnsSize \in Nat /\ dnsLeft \in Nat /\ line \in 1 .. 17
    BY DEF ReplyInv, ReplyTypeOK
  <2>4. /\ inMemory' = writeByteArray(current_offset, k)
        /\ current_offset' = current_offset + 1 /\ reply = "write" /\ reply' = "make"
        /\ UNCHANGED <<line, dnsSize, dnsLeft>> /\ dnsLeft = 0 /\ line = 17
    <3>1. Len(Statements) = 16
      BY <2>3, StatementMoves
    <3> QED
      BY <1>5, <2>1, <2>3, <3>1 DEF WriteEnd
  <2>5. Len(k) \in Nat /\ Len(k) <= 1 /\ 1 \in Nat
    BY <2>2
  <2>6. current_offset' \in Nat /\ NothingLeftOut'
    BY <2>2, <2>4, <2>5, WritesOn
  <2>7. ReplyTypeOK'
    BY <2>3, <2>4, <2>6 DEF ReplyTypeOK
  <2>8. OffsetInv'
    <3>1. current_offset = 273 + 4 * (dnsSize - dnsLeft) + 0 /\ dnsLeft <= dnsSize
      BY <2>4, OffsetValues DEF ReplyInv, OffsetInv
    <3>2. current_offset' = 273 + 4 * (dnsSize - dnsLeft) + 1
      BY <2>3, <2>4, <3>1
    <3>3. Offsets'[17] = 273
      BY OffsetValues DEF Offsets
    <3> QED
      BY <2>4, <3>1, <3>2, <3>3 DEF OffsetInv
  <2> QED
    BY <2>4, <2>6, <2>7, <2>8 DEF ReplyInv, ReplyWritten
<1>6. CASE makePacket
  <2>1. /\ UNCHANGED <<dnsLeft, dnsSize, inMemory, current_offset, line>>
        /\ reply = "make" /\ reply' \in {"unsent", "queued"}
        /\ reply' = "queued" => current_offset <= writtenByte
    <3>1. current_offset \in Nat
      BY DEF ReplyInv, ReplyTypeOK
    <3> QED
      BY <1>6, <3>1 DEF makePacket, writtenByte, totalHeaderLen, EtherLen
  <2>2. ReplyTypeOK'
    BY <2>1 DEF ReplyInv, ReplyTypeOK
  <2>3. OffsetInv'
    <3>1. Offsets' = Offsets
      BY DEF Offsets
    <3> QED
      BY <2>1, <3>1 DEF ReplyInv, OffsetInv
  <2> QED
    BY <1>0, <2>1, <2>2, <2>3 DEF ReplyInv, NothingLeftOut, ReplyWritten
<1>7. CASE ReadOption
  BY <1>1, <1>7 DEF ReadOption
<1>8. CASE UNCHANGED replyVars
  BY <1>1, <1>8 DEF replyVars
<1> QED
  BY <1>2, <1>3, <1>4, <1>5, <1>6, <1>7, <1>8 DEF ReplyNext

LEMMA ReplyInvariant == ReplySpec => []ReplyInv
<1>1. ReplyInit => ReplyInv
  <2>1. Offsets[1] = 0
    BY OffsetValues
  <2> QED
    BY <2>1 DEF ReplyInit, ReplyInv, ReplyTypeOK, OffsetInv, NothingLeftOut, ReplyWritten
<1> QED
  BY <1>1, ReplyStep, PTL DEF ReplySpec

(* A queued reply carries no byte that was not written, apart from the     *)
(* gateway address (dhcp.cpp:67-69), for any number of name servers and    *)
(* any capacity of a packet: what does not fit is refused by makePacket,   *)
(* never sent with a hole (udp.cpp:48-50).                                 *)
THEOREM RepliesAreWritten == ReplySpec => []ReplyWritten
<1>1. ReplyInv => ReplyWritten
  BY DEF ReplyInv
<1> QED
  BY <1>1, ReplyInvariant, PTL
-----------------------------------------------------------------------------
(* Replies: the client understands them.                                   *)

LEMMA OffsetsGrow ==
    ASSUME NEW i \in 10 .. 17, NEW k \in 10 .. 17, i <= k
    PROVE  Offsets[i] \in Nat /\ Offsets[k] \in Nat /\ Offsets[i] <= Offsets[k]
BY DEF Offsets

(* The bytes of the options end where those of the next begin.             *)
LEMMA OptionEnds ==
    ASSUME dnsSize \in Nat
    PROVE  /\ \A j \in 1 .. 7 : Offsets[9 + j] + 2 <= Offsets[10 + j]
           /\ \A j \in 1 .. 6 : /\ Len(Meant[j][2]) \in Nat
                                /\ Offsets[9 + j] + 2 + Len(Meant[j][2]) = Offsets[10 + j]
<1>1. \A j \in 1 .. 7 : Offsets[9 + j] + 2 <= Offsets[10 + j]
  BY DEF Offsets
<1>2. ASSUME NEW j \in 1 .. 6
      PROVE  /\ Len(Meant[j][2]) \in Nat
             /\ Offsets[9 + j] + 2 + Len(Meant[j][2]) = Offsets[10 + j]
  <2>1. PICK a : a = Len(Meant[j][2])
    OBVIOUS
  <2>2. a + 2 = Offsets[10 + j] - Offsets[9 + j] /\ a \in 0 .. 4
    BY <2>1, OptionSizes
  <2>3. 9 + j \in 10 .. 17 /\ 10 + j \in 10 .. 17 /\ 9 + j <= 10 + j
    OBVIOUS
  <2>4. Offsets[9 + j] \in Nat /\ Offsets[10 + j] \in Nat
    BY <2>3, OffsetsGrow
  <2>5. a \in Nat /\ Offsets[9 + j] + 2 + a = Offsets[10 + j]
    BY <2>2, <2>4
  <2> QED
    BY <2>1, <2>5
<1> QED
  BY <1>1, <1>2

(* What was written earlier is still there after a write.                  *)
LEMMA StillLies ==
    ASSUME NEW m, NEW bytes, NEW from \in Nat, HasWritten(m, from, bytes), NEW j \in 1 .. 7
    PROVE  /\ Offsets[9 + j] + 2 <= from /\ CodeLies(inMemory, j) => CodeLies(m, j)
           /\ \A k \in Nat : Offsets[9 + j] + 2 + k <= from /\ ValueLies(inMemory, j, k)
                                 => ValueLies(m, j, k)
<1>1. PICK b : b = Offsets[9 + j]
  OBVIOUS
<1>2. b \in Nat
  <2>1. 9 + j \in 1 .. 17
    OBVIOUS
  <2> QED
    BY <1>1, <2>1, OffsetsTyped
<1>3. \A o \in DOMAIN inMemory : o \in DOMAIN m /\ (o \in Int /\ o < from => m[o] = inMemory[o])
  BY DEF HasWritten
<1>4. ASSUME b + 2 <= from, CodeLies(inMemory, j) PROVE CodeLies(m, j)
  <2>1. b \in Int /\ b < from /\ b + 1 \in Int /\ b + 1 < from
    BY <1>2, <1>4
  <2> QED
    BY <1>1, <1>3, <1>4, <2>1, Zenon DEF CodeLies
<1>5. ASSUME NEW k \in Nat, b + 2 + k <= from, ValueLies(inMemory, j, k) PROVE ValueLies(m, j, k)
  <2>1. ASSUME NEW i \in 1 .. k
        PROVE  b + 1 + i \in DOMAIN m /\ m[b + 1 + i] = Meant[j][2][i]
    <3>1. b + 1 + i \in Int /\ b + 1 + i < from
      BY <1>2, <1>5
    <3>2. b + 1 + i \in DOMAIN inMemory /\ inMemory[b + 1 + i] = Meant[j][2][i]
      BY <1>1, <1>5 DEF ValueLies
    <3> QED
      BY <1>3, <3>1, <3>2
  <2> QED
    BY <1>1, <2>1 DEF ValueLies
<1> QED
  BY <1>1, <1>4, <1>5

LEMMA KeepsOptions ==
    ASSUME NEW m, NEW bytes, NEW from \in Nat, HasWritten(m, from, bytes),
           dnsSize \in Nat, NEW l \in 1 .. 17, NEW k \in Nat, OptionsLie(inMemory, l, k),
           Offsets[l] <= from, l = 17 => 273 + k <= from
    PROVE  OptionsLie(m, l, k)
<1>1. ASSUME NEW j \in 1 .. 7, l > 9 + j PROVE Offsets[10 + j] <= from /\ Offsets[10 + j] \in Nat
  <2>1. 10 + j \in 10 .. 17 /\ l \in 10 .. 17 /\ 10 + j <= l
    BY <1>1
  <2>2. /\ Offsets[10 + j] \in Nat /\ Offsets[l] \in Nat
        /\ Offsets[10 + j] <= Offsets[l]
    BY <2>1, OffsetsGrow
  <2> QED
    BY <2>2
<1>2. ASSUME NEW j \in 1 .. 7, l > 9 + j PROVE CodeLies(m, j)
  <2>1. Offsets[10 + j] <= from /\ Offsets[10 + j] \in Nat
    BY <1>1, <1>2
  <2>2. Offsets[9 + j] + 2 <= Offsets[10 + j] /\ Offsets[9 + j] \in Nat
    <3>1. 9 + j \in 1 .. 17
      OBVIOUS
    <3> QED
      BY <3>1, OptionEnds, OffsetsTyped
  <2>3. Offsets[9 + j] + 2 <= from
    BY <2>1, <2>2
  <2>4. CodeLies(inMemory, j)
    BY <1>2 DEF OptionsLie
  <2> QED
    BY <2>3, <2>4, StillLies
<1>3. ASSUME NEW j \in 1 .. 6, l > 9 + j PROVE ValueLies(m, j, Len(Meant[j][2]))
  <2>1. PICK a : a = Len(Meant[j][2])
    OBVIOUS
  <2>2. j \in 1 .. 7
    OBVIOUS
  <2>3. a \in Nat /\ Offsets[9 + j] + 2 + a = Offsets[10 + j]
    BY <2>1, OptionEnds
  <2>4. Offsets[9 + j] + 2 + a <= from
    BY <1>1, <1>3, <2>2, <2>3
  <2>5. ValueLies(inMemory, j, a)
    BY <1>3, <2>1 DEF OptionsLie
  <2>6. ValueLies(m, j, a)
    BY <2>2, <2>3, <2>4, <2>5, StillLies
  <2> QED
    BY <2>1, <2>6
<1>4. ASSUME l = 17 PROVE ValueLies(m, 7, k)
  <2>1. Offsets[9 + 7] = 271
    BY OffsetValues
  <2>2. Offsets[9 + 7] + 2 + k <= from
    BY <1>4, <2>1
  <2>3. ValueLies(inMemory, 7, k)
    BY <1>4 DEF OptionsLie
  <2>4. 7 \in 1 .. 7
    OBVIOUS
  <2> QED
    BY <2>2, <2>3, <2>4, StillLies
<1> QED
  BY <1>2, <1>3, <1>4 DEF OptionsLie

(* A group of statements that puts option j leaves it in memory.           *)
LEMMA OptionPut ==
    ASSUME dnsSize \in Nat, NEW j \in 1 .. 7, NEW s, PutsOption(j, s), NEW m,
           HasWritten(m, Offsets[9 + j], s.put)
    PROVE  CodeLies(m, j) /\ (j # 7 => ValueLies(m, j, Len(Meant[j][2])))
<1>1. PICK b, c, p : b = Offsets[9 + j] /\ c = s.move /\ p = s.put
  OBVIOUS
<1>2. b \in Nat
  <2>1. 9 + j \in 1 .. 17
    OBVIOUS
  <2> QED
    BY <1>1, <2>1, OffsetsTyped
<1>3. c \in Nat /\ c >= 2 /\ Len(p) = c
  BY <1>1 DEF PutsOption
<1>4. \A i \in 1 .. c : b + i - 1 \in DOMAIN m /\ m[b + i - 1] = p[i]
  BY <1>1, <1>3 DEF HasWritten
<1>5. /\ b \in DOMAIN m /\ m[b] = p[1]
      /\ b + 1 \in DOMAIN m /\ m[b + 1] = p[2]
  <2>1. 1 \in 1 .. c /\ 2 \in 1 .. c /\ b + 1 - 1 = b /\ b + 2 - 1 = b + 1
    BY <1>2, <1>3
  <2> QED
    BY <1>4, <2>1
<1>6. p[1] = Byte(Meant[j][1]) /\ p[2] = Byte(Len(Meant[j][2]) % 256)
  BY <1>1 DEF PutsOption
<1>7. CodeLies(m, j)
  BY <1>1, <1>5, <1>6 DEF CodeLies
<1>8. ASSUME j # 7 PROVE ValueLies(m, j, Len(Meant[j][2]))
  <2>1. PICK a : a = Len(Meant[j][2])
    OBVIOUS
  <2>2. c = a + 2
    BY <1>1, <1>8, <2>1 DEF PutsOption
  <2>3. a \in Nat
    <3>1. j \in 1 .. 6
      BY <1>8
    <3> QED
      BY <2>1, <3>1, OptionEnds
  <2>4. \A i \in 1 .. c - 2 : p[2 + i] = Meant[j][2][i]
    BY <1>1 DEF PutsOption
  <2>5. ASSUME NEW i \in 1 .. a
        PROVE  b + 1 + i \in DOMAIN m /\ m[b + 1 + i] = Meant[j][2][i]
    <3>1. 2 + i \in 1 .. c /\ b + (2 + i) - 1 = b + 1 + i /\ i \in 1 .. c - 2
      BY <1>2, <2>2, <2>3
    <3> QED
      BY <1>4, <2>4, <3>1
  <2>6. ValueLies(m, j, a)
    BY <1>1, <2>5 DEF ValueLies
  <2> QED
    BY <2>1, <2>6
<1> QED
  BY <1>7, <1>8

LEMMA LinePut ==
    ASSUME dnsSize \in Nat, NEW l \in 1 .. 16, NEW s, s = Statements[l], NEW m,
           HasWritten(m, Offsets[l], s.put), OptionsLie(m, l, 0)
    PROVE  OptionsLie(m, l + 1, 0)
<1>1. ASSUME NEW j \in 1 .. 7, l = 9 + j
      PROVE  CodeLies(m, j) /\ (j # 7 => ValueLies(m, j, Len(Meant[j][2])))
  <2>1. s = Options[j]
    BY <1>1, StatementMoves
  <2>2. PutsOption(j, s)
    BY <2>1, OptionsMoves
  <2> QED
    BY <1>1, <2>2, OptionPut
<1>2. ASSUME NEW j \in 1 .. 7, l + 1 > 9 + j PROVE CodeLies(m, j)
  <2>1. l = 9 + j \/ l > 9 + j
    BY <1>2
  <2> QED
    BY <1>1, <2>1 DEF OptionsLie
<1>3. ASSUME NEW j \in 1 .. 6, l + 1 > 9 + j PROVE ValueLies(m, j, Len(Meant[j][2]))
  <2>1. (l = 9 + j \/ l > 9 + j) /\ j \in 1 .. 7 /\ j # 7
    BY <1>3
  <2> QED
    BY <1>1, <2>1 DEF OptionsLie
<1>4. ValueLies(m, 7, 0)
  BY DEF ValueLies
<1> QED
  BY <1>2, <1>3, <1>4 DEF OptionsLie

LEMMA ServerPut ==
    ASSUME dnsSize \in Nat, NEW t \in Nat, t < dnsSize, NEW m, OptionsLie(m, 17, 4 * t),
           HasWritten(m, 273 + 4 * t, Server(t + 1))
    PROVE  OptionsLie(m, 17, 4 * (t + 1))
<1>1. \A a \in 1 .. 4 : /\ 273 + 4 * t + a - 1 \in DOMAIN m
                        /\ m[273 + 4 * t + a - 1] = Server(t + 1)[a]
  <2>1. Len(Server(t + 1)) = 4
    BY ServerBytes
  <2> QED
    BY <2>1, Zenon DEF HasWritten
<1>2. Meant[7][2] = Servers
  BY DEF Meant
<1>3. Offsets[9 + 7] = 271
  BY OffsetValues
<1>4. \A i \in 1 .. 4 * t : 271 + 1 + i \in DOMAIN m /\ m[271 + 1 + i] = Servers[i]
  <2>1. ValueLies(m, 7, 4 * t)
    BY DEF OptionsLie
  <2> QED
    BY <1>2, <1>3, <2>1 DEF ValueLies
<1>5. ASSUME NEW i \in 1 .. 4 * (t + 1)
      PROVE  271 + 1 + i \in DOMAIN m /\ m[271 + 1 + i] = Servers[i]
  <2>1. CASE i <= 4 * t
    <3>1. i \in 1 .. 4 * t
      BY <2>1
    <3> QED
      BY <1>4, <3>1
  <2>2. CASE i > 4 * t
    <3>1. PICK a \in 1 .. 4 : i = 4 * t + a
      <4>1. i - 4 * t \in 1 .. 4 /\ i = 4 * t + (i - 4 * t)
        BY <2>2
      <4> QED
        BY <4>1
    <3>2. (i - 1) \div 4 = t /\ (i - 1) % 4 = a - 1
      BY <3>1
    <3>3. i \in 1 .. 4 * dnsSize
      BY <3>1
    <3>4. Servers[i] = Server(((i - 1) \div 4) + 1)[((i - 1) % 4) + 1]
      BY <3>3 DEF Servers
    <3>5. (a - 1) + 1 = a
      OBVIOUS
    <3>6. Servers[i] = Server(t + 1)[a]
      BY <3>2, <3>4, <3>5
    <3>7. 271 + 1 + i = 273 + 4 * t + a - 1
      BY <3>1
    <3> QED
      BY <1>1, <3>6, <3>7
  <2> QED
    BY <2>1, <2>2
<1>6. ValueLies(m, 7, 4 * (t + 1))
  BY <1>2, <1>3, <1>5 DEF ValueLies
<1> QED
  BY <1>6 DEF OptionsLie

(* The options are what they were, as long as the request is the same.     *)
LEMMA SameMeaning ==
    ASSUME UNCHANGED <<discover, dnsSize>>
    PROVE  Meant' = Meant /\ Offsets' = Offsets /\ writtenByte' = writtenByte
<1>1. MessageType' = MessageType /\ Servers' = Servers
  BY DEF MessageType, Servers, Server, Bytes, Byte
<1>2. Meant' = Meant
  BY <1>1, Zenon DEF Meant, Network, Host
<1> QED
  BY <1>2 DEF Offsets, writtenByte, totalHeaderLen, EtherLen

LEMMA OptionsPrimed ==
    ASSUME UNCHANGED <<discover, dnsSize>>,
           current_offset' <= writtenByte =>
               /\ OptionsLie(inMemory', line', 4 * (dnsSize' - dnsLeft'))
               /\ reply' \in {"make", "queued"} => EndLies(inMemory', current_offset' - 1)
    PROVE  OptionsInv'
<1>1. Meant' = Meant /\ Offsets' = Offsets /\ writtenByte' = writtenByte
  BY SameMeaning
<1>2. \A j \in 1 .. 7 : CodeLies(inMemory', j) => CodeLies(inMemory, j)'
  BY <1>1, Zenon DEF CodeLies, Byte
<1>3. \A j \in 1 .. 6 : ValueLies(inMemory', j, Len(Meant[j][2]))
                           => ValueLies(inMemory, j, Len(Meant[j][2]))'
  BY <1>1, Zenon DEF ValueLies
<1>4. ValueLies(inMemory', 7, 4 * (dnsSize' - dnsLeft'))
          => ValueLies(inMemory, 7, 4 * (dnsSize - dnsLeft))'
  BY <1>1, Zenon DEF ValueLies
<1>5. EndLies(inMemory', current_offset' - 1) => EndLies(inMemory, current_offset - 1)'
  BY Zenon DEF EndLies, Byte
<1>6. OptionsLie(inMemory', line', 4 * (dnsSize' - dnsLeft'))
          => OptionsLie(inMemory, line, 4 * (dnsSize - dnsLeft))'
  BY <1>2, <1>3, <1>4, Zenon DEF OptionsLie
<1> QED
  BY <1>1, <1>5, <1>6, Zenon DEF OptionsInv

LEMMA WalkPrimed ==
    ASSUME UNCHANGED <<discover, dnsSize>>,
           reply' # "queued" => at' = 240 /\ learnt' = {},
           reply' = "queued" => current_offset' <= writtenByte,
           reply' = "queued" /\ dnsSize <= 63 =>
               \E j \in 0 .. 7 : /\ learnt' = { Meant[i] : i \in 1 .. j }
                                 /\ at' = IF j = 7 THEN current_offset' - 1 ELSE Offsets[10 + j]
    PROVE  WalkInv'
<1>1. Meant' = Meant /\ Offsets' = Offsets /\ writtenByte' = writtenByte
  BY SameMeaning
<1> QED
  BY <1>1 DEF WalkInv

(* Where the writer is.                                                    *)
LEMMA WriterAt ==
    ASSUME ReplyInv, reply \in {"idle", "write"}, NEW k, k = 4 * (dnsSize - dnsLeft)
    PROVE  /\ current_offset = Offsets[line] + k /\ k \in Nat /\ current_offset \in Nat
           /\ Offsets[line] \in Nat /\ Offsets[line] <= current_offset
           /\ line = 17 => 273 + k <= current_offset
<1>1. line \in 1 .. 17 /\ dnsLeft \in Nat /\ dnsSize \in Nat /\ current_offset \in Nat
  BY DEF ReplyInv, ReplyTypeOK
<1>2. Offsets[line] \in Nat
  BY <1>1, OffsetsTyped
<1>3. current_offset = Offsets[line] + k + 0 /\ dnsLeft <= dnsSize
  BY DEF ReplyInv, OffsetInv
<1>4. k \in Nat
  BY <1>1, <1>3
<1>5. line = 17 => Offsets[line] = 273
  BY OffsetValues
<1> QED
  BY <1>1, <1>2, <1>3, <1>4, <1>5

(* An option that stands in the buffer is one the client reads.            *)
LEMMA OptionSeen ==
    ASSUME dnsSize \in Nat, dnsSize <= 63, NEW j \in 1 .. 7, at = Offsets[9 + j],
           CodeLies(inMemory, j), ValueLies(inMemory, j, Len(Meant[j][2]))
    PROVE  /\ MoreOptions
           /\ <<inMemory[at][3], OptionValue(at)>> = Meant[j]
           /\ inMemory[at + 1][3] = Len(Meant[j][2]) /\ Len(Meant[j][2]) \in Nat
<1>1. PICK S, v, c : /\ v = Meant[j][2] /\ c = Meant[j][1] /\ v \in Seq(S)
                     /\ c # 255 /\ Meant[j] = <<c, v>>
  <2>1. /\ Meant[j] = <<Meant[j][1], Meant[j][2]>>
        /\ Meant[j][1] # 255 /\ \E S : Meant[j][2] \in Seq(S)
    BY MeantValues
  <2> QED
    BY <2>1, Zenon
<1>4. Len(v) \in 0 .. 252
  <2>1. CASE j = 7
    <3>1. Len(v) = 4 * dnsSize
      BY <1>1, <2>1, MeantValues, Zenon
    <3>2. 4 * dnsSize \in 0 .. 252
      OBVIOUS
    <3> QED
      BY <3>1, <3>2, Zenon
  <2>2. CASE j # 7
    <3>1. j \in 1 .. 6
      BY <2>2
    <3>2. Len(v) \in 0 .. 4
      BY <1>1, <3>1, OptionSizes, Zenon
    <3>3. PICK a : a = Len(v)
      OBVIOUS
    <3>4. a \in 0 .. 252
      <4>1. a \in 0 .. 4
        BY <3>2, <3>3, Zenon
      <4> QED
        BY <4>1
    <3> QED
      BY <3>3, <3>4, Zenon
  <2> QED
    BY <2>1, <2>2
<1>5. Len(v) % 256 = Len(v) /\ Len(v) \in Nat
  <2>1. PICK a : a = Len(v)
    OBVIOUS
  <2>2. a \in 0 .. 252
    BY <1>4, <2>1, Zenon
  <2>3. a \in 0 .. 255 /\ a \in Nat
    BY <2>2
  <2>4. a % 256 = a
    BY <2>3, SmallNumbers
  <2> QED
    BY <2>1, <2>3, <2>4, Zenon
<1>6. /\ at \in DOMAIN inMemory /\ inMemory[at] = Byte(c)
      /\ at + 1 \in DOMAIN inMemory /\ inMemory[at + 1] = Byte(Len(v))
  BY <1>1, <1>5 DEF CodeLies
<1>7. \A i \in 1 .. Len(v) : inMemory[at + 1 + i] = v[i]
  BY <1>1 DEF ValueLies
<1>8. /\ Byte(c)[1] = "byte" /\ Byte(c)[3] = c
      /\ Byte(Len(v))[1] = "byte" /\ Byte(Len(v))[3] = Len(v)
      /\ Byte(255)[3] = 255
  BY DEF Byte
<1>9. MoreOptions
  <2>1. inMemory[at] # Byte(255)
    BY <1>1, <1>6, <1>8
  <2> QED
    BY <1>6, <1>8, <2>1 DEF MoreOptions, IsNumber
<1>10. OptionValue(at) = v
  <2>1. OptionValue(at) = [i \in 1 .. Len(v) |-> inMemory[at + 1 + i]]
    BY <1>6, <1>8 DEF OptionValue
  <2>2. OptionValue(at) = [i \in 1 .. Len(v) |-> v[i]]
    BY <1>7, <2>1
  <2>3. v = [i \in 1 .. Len(v) |-> v[i]]
    BY <1>1
  <2> QED
    BY <2>2, <2>3
<1>11. <<inMemory[at][3], OptionValue(at)>> = Meant[j]
  <2>1. inMemory[at][3] = c
    BY <1>6, <1>8
  <2> QED
    BY <1>1, <1>10, <2>1
<1>12. inMemory[at + 1][3] = Len(Meant[j][2]) /\ Len(Meant[j][2]) \in Nat
  BY <1>1, <1>5, <1>6, <1>8
<1> QED
  BY <1>9, <1>11, <1>12

(* Of a queued reply that is short enough every option stands there.       *)
LEMMA QueuedReply ==
    ASSUME ReplyInv, ClientInv, reply = "queued"
    PROVE  /\ \A j \in 1 .. 7 : /\ CodeLies(inMemory, j)
                                /\ ValueLies(inMemory, j, Len(Meant[j][2]))
           /\ inMemory[current_offset - 1] = Byte(255)
           /\ current_offset = 274 + 4 * dnsSize /\ dnsSize \in Nat
<1>1. line = 17 /\ dnsLeft = 0 /\ dnsSize \in Nat
  BY DEF ReplyInv, ReplyTypeOK, OffsetInv
<1>2. 4 * (dnsSize - dnsLeft) = 4 * dnsSize
  BY <1>1
<1>3. current_offset <= writtenByte
  BY DEF ClientInv, WalkInv
<1>4. OptionsLie(inMemory, 17, 4 * dnsSize) /\ EndLies(inMemory, current_offset - 1)
  BY <1>1, <1>2, <1>3 DEF ClientInv, OptionsInv
<1>5. \A j \in 1 .. 7 : CodeLies(inMemory, j)
  <2>1. \A j \in 1 .. 7 : 17 > 9 + j
    OBVIOUS
  <2> QED
    BY <1>4, <2>1 DEF OptionsLie
<1>6. \A j \in 1 .. 6 : ValueLies(inMemory, j, Len(Meant[j][2]))
  <2>1. \A j \in 1 .. 6 : 17 > 9 + j
    OBVIOUS
  <2> QED
    BY <1>4, <2>1 DEF OptionsLie
<1>7. ValueLies(inMemory, 7, Len(Meant[7][2]))
  <2>1. Len(Meant[7][2]) = 4 * dnsSize
    BY <1>1, MeantValues
  <2> QED
    BY <1>4, <2>1 DEF OptionsLie
<1>8. \A j \in 1 .. 7 : ValueLies(inMemory, j, Len(Meant[j][2]))
  <2>1. \A j \in 1 .. 7 : j \in 1 .. 6 \/ j = 7
    OBVIOUS
  <2> QED
    BY <1>6, <1>7, <2>1
<1>9. current_offset = 274 + 4 * dnsSize
  <2>1. current_offset = Offsets[17] + 4 * (dnsSize - dnsLeft) + 1
    BY <1>1 DEF ReplyInv, OffsetInv
  <2> QED
    BY <1>1, <1>2, <2>1, OffsetValues
<1> QED
  BY <1>1, <1>4, <1>5, <1>8, <1>9 DEF EndLies

(* One more option is read.                                                *)
LEMMA OptionReadStep ==
    ASSUME ReplyInv, ClientInv, ReadOption PROVE ClientInv'
<1>1. /\ reply = "queued" /\ MoreOptions
      /\ learnt' = learnt \cup {<<inMemory[at][3], OptionValue(at)>>}
      /\ at' = at + 2 + inMemory[at + 1][3]
      /\ UNCHANGED <<discover, dnsLeft, dnsSize, inMemory, current_offset, line, reply>>
  BY DEF ReadOption
<1>2. /\ \A j \in 1 .. 7 : /\ CodeLies(inMemory, j)
                           /\ ValueLies(inMemory, j, Len(Meant[j][2]))
      /\ inMemory[current_offset - 1] = Byte(255)
      /\ current_offset = 274 + 4 * dnsSize /\ dnsSize \in Nat
  BY <1>1, QueuedReply
<1>3. OptionsInv'
  BY <1>1, OptionsPrimed DEF ClientInv, OptionsInv
<1>4. ASSUME dnsSize <= 63
      PROVE  \E j \in 0 .. 7 : /\ learnt' = { Meant[i] : i \in 1 .. j }
                               /\ at' = IF j = 7 THEN current_offset - 1 ELSE Offsets[10 + j]
  <2>1. PICK j \in 0 .. 7 : /\ learnt = { Meant[i] : i \in 1 .. j }
                            /\ at = IF j = 7 THEN current_offset - 1 ELSE Offsets[10 + j]
    BY <1>1, <1>4 DEF ClientInv, WalkInv
  <2>2. j # 7
    BY <1>1, <1>2, <2>1 DEF MoreOptions
  <2>3. PICK k \in 1 .. 7 : k = j + 1 /\ 9 + k = 10 + j /\ 1 .. k = (1 .. j) \cup {k}
    <3>1. j + 1 \in 1 .. 7 /\ 9 + (j + 1) = 10 + j /\ 1 .. j + 1 = (1 .. j) \cup {j + 1}
      BY <2>2
    <3> QED
      BY <3>1
  <2>4. at = Offsets[9 + k]
    BY <2>1, <2>2, <2>3
  <2>5. /\ <<inMemory[at][3], OptionValue(at)>> = Meant[k]
        /\ inMemory[at + 1][3] = Len(Meant[k][2])
    BY <1>2, <1>4, <2>4, OptionSeen
  <2>6. learnt' = { Meant[i] : i \in 1 .. k }
    <3>1. PICK A, B : A = 1 .. j /\ B = 1 .. k
      OBVIOUS
    <3>2. learnt' = { Meant[i] : i \in A } \cup {Meant[k]} /\ B = A \cup {k}
      BY <1>1, <2>1, <2>3, <2>5, <3>1, Zenon
    <3>3. learnt' = { Meant[i] : i \in B }
      BY <3>2
    <3> QED
      BY <3>1, <3>3
  <2>7. at' = IF k = 7 THEN current_offset - 1 ELSE Offsets[10 + k]
    <3>1. at' = Offsets[9 + k] + 2 + Len(Meant[k][2])
      BY <1>1, <2>4, <2>5
    <3>2. CASE k = 7
      <4>1. Len(Meant[k][2]) = 4 * dnsSize
        BY <1>2, <3>2, MeantValues, Zenon
      <4>2. Offsets[9 + k] = 271
        BY <3>2, OffsetValues
      <4>3. at' = 271 + 2 + 4 * dnsSize
        BY <3>1, <4>1, <4>2
      <4>4. at' = current_offset - 1
        BY <1>2, <4>3
      <4> QED
        BY <3>2, <4>4
    <3>3. CASE k # 7
      <4>1. k \in 1 .. 6
        BY <3>3
      <4> QED
        BY <1>2, <3>1, <3>3, <4>1, OptionEnds
    <3> QED
      BY <3>2, <3>3
  <2>8. k \in 0 .. 7
    BY <2>3
  <2> QED
    BY <2>6, <2>7, <2>8
<1>5. current_offset <= writtenByte
  BY <1>1 DEF ClientInv, WalkInv
<1>6. WalkInv'
  <2>1. reply' = "queued" /\ current_offset' = current_offset
    BY <1>1
  <2> QED
    BY <1>1, <1>4, <1>5, <2>1, WalkPrimed
<1> QED
  BY <1>3, <1>6 DEF ClientInv

LEMMA ClientStep == ASSUME ReplyInv, ClientInv, [ReplyNext]_replyVars PROVE ClientInv'
<1>1. /\ line \in 1 .. 17 /\ dnsLeft \in Nat /\ dnsSize \in Nat /\ current_offset \in Nat
      /\ writtenByte \in Int
  BY PacketAssumption DEF ReplyInv, ReplyTypeOK, writtenByte, totalHeaderLen, EtherLen
<1>2. CASE create_dhcp
  <2>1. /\ line' = 1 /\ reply' = "write" /\ at' = 240 /\ learnt' = {}
    BY <1>2 DEF create_dhcp, ReplyInv, OffsetInv, ClientInv, WalkInv, clientVars
  <2>2. \A j \in 1 .. 7 : ~(1 > 9 + j)
    OBVIOUS
  <2>3. \A j \in 1 .. 6 : ~(1 > 9 + j)
    OBVIOUS
  <2> QED
    BY <2>1, <2>2, <2>3 DEF ClientInv, OptionsInv, OptionsLie, WalkInv
<1>3. CASE WriteLine
  <2>1. PICK s : s = Statements[line]
    OBVIOUS
  <2>2. /\ line \in 1 .. 16 /\ line' = line + 1 /\ dnsLeft = dnsSize
        /\ reply = "write" /\ reply' = "write"
        /\ UNCHANGED <<discover, dnsLeft, dnsSize, at, learnt>>
        /\ inMemory' = writeByteArray(current_offset, s.put)
        /\ current_offset = Offsets[line]
        /\ current_offset' = current_offset + s.move
        /\ Len(s.put) \in Nat /\ s.move \in Nat
        /\ Len(s.put) = s.move \/ (current_offset = 20 /\ Len(s.put) = 4 /\ s.move = 8)
    BY <1>3, <2>1, LineWritten
  <2>3. 4 * (dnsSize - dnsLeft) = 0 /\ 4 * (dnsSize' - dnsLeft') = 0
    <3>1. dnsSize' = dnsSize /\ dnsLeft' = dnsSize /\ dnsLeft = dnsSize
      BY <2>2
    <3> QED
      BY <1>1, <3>1
  <2>4. ASSUME current_offset' <= writtenByte PROVE OptionsLie(inMemory', line', 0)
    <3>1. /\ current_offset <= writtenByte
          /\ current_offset + Len(s.put) <= writtenByte
      <4>1. PICK a, b : a = Len(s.put) /\ b = s.move
        OBVIOUS
      <4>2. a \in Nat /\ b \in Nat /\ (a = b \/ (a = 4 /\ b = 8))
        BY <2>2, <4>1
      <4>3. current_offset + b <= writtenByte
        BY <2>2, <2>4, <4>1
      <4>4. current_offset <= writtenByte /\ current_offset + a <= writtenByte
        BY <1>1, <4>2, <4>3
      <4> QED
        BY <4>1, <4>4
    <3>2. HasWritten(inMemory', current_offset, s.put)
      BY <1>1, <2>2, <3>1, WriteFits
    <3>3. OptionsLie(inMemory, line, 0)
      BY <2>3, <3>1 DEF ClientInv, OptionsInv
    <3>4. Offsets[line] <= current_offset
      BY <1>1, <2>2
    <3>5. line # 17 /\ 0 \in Nat
      BY <2>2
    <3>6. OptionsLie(inMemory', line, 0)
      BY <1>1, <3>2, <3>3, <3>4, <3>5, KeepsOptions
    <3> QED
      BY <1>1, <2>1, <2>2, <3>2, <3>6, LinePut
  <2>5. OptionsInv'
    BY <2>2, <2>3, <2>4, OptionsPrimed
  <2>6. WalkInv'
    <3>1. reply' # "queued" /\ at' = 240 /\ learnt' = {}
      BY <2>2 DEF ClientInv, WalkInv
    <3> QED
      BY <3>1 DEF WalkInv
  <2> QED
    BY <2>5, <2>6 DEF ClientInv
<1>4. CASE WriteDNS
  <2>1. PICK t, q : t = dnsSize - dnsLeft /\ q = Server(t + 1)
    OBVIOUS
  <2>2. Len(q) = 4
    BY <2>1, ServerBytes
  <2>3. /\ inMemory' = writeByteArray(current_offset, q)
        /\ current_offset' = current_offset + 4 /\ reply = "write" /\ reply' = "write"
        /\ UNCHANGED <<line, dnsSize, discover, at, learnt>>
        /\ dnsLeft > 0 /\ dnsLeft' = dnsLeft - 1 /\ line = 17
    <3>1. Len(Statements) = 16
      BY <1>1, StatementMoves
    <3> QED
      BY <1>1, <1>4, <2>1, <3>1 DEF WriteDNS, clientVars
  <2>4. t \in Nat /\ t < dnsSize
    <3>1. dnsLeft <= dnsSize
      BY DEF ReplyInv, OffsetInv
    <3> QED
      BY <1>1, <2>1, <2>3, <3>1
  <2>5. /\ current_offset = 273 + 4 * t /\ 4 * t \in Nat /\ 273 <= current_offset
        /\ 273 + 4 * t <= current_offset
    <3>1. current_offset = Offsets[17] + 4 * t
      BY <2>1, <2>3, WriterAt
    <3> QED
      BY <2>4, <3>1, OffsetValues
  <2>6. ASSUME current_offset' <= writtenByte
        PROVE  OptionsLie(inMemory', 17, 4 * (t + 1))
    <3>1. current_offset <= writtenByte /\ current_offset + 4 <= writtenByte
      BY <1>1, <2>3, <2>6
    <3>2. HasWritten(inMemory', current_offset, q)
      <4>1. Len(q) \in Nat /\ current_offset + Len(q) <= writtenByte
        BY <2>2, <3>1
      <4> QED
        BY <1>1, <2>3, <4>1, WriteFits
    <3>3. OptionsLie(inMemory, 17, 4 * t)
      BY <2>1, <2>3, <3>1 DEF ClientInv, OptionsInv
    <3>4. Offsets[17] <= current_offset /\ 17 \in 1 .. 17
      BY <2>5, OffsetValues
    <3>5. OptionsLie(inMemory', 17, 4 * t)
      BY <1>1, <2>5, <3>2, <3>3, <3>4, KeepsOptions
    <3> QED
      BY <1>1, <2>1, <2>4, <2>5, <3>2, <3>5, ServerPut
  <2>7. 4 * (t + 1) = 4 * (dnsSize' - dnsLeft') /\ line' = 17 /\ reply' = "write"
    BY <1>1, <2>1, <2>3
  <2>8. OptionsInv'
    BY <2>3, <2>6, <2>7, OptionsPrimed
  <2>9. WalkInv'
    <3>1. reply' # "queued" /\ at' = 240 /\ learnt' = {}
      BY <2>3 DEF ClientInv, WalkInv
    <3> QED
      BY <3>1 DEF WalkInv
  <2> QED
    BY <2>8, <2>9 DEF ClientInv
<1>5. CASE WriteEnd
  <2>1. PICK q, k : q = Bytes(<<255>>) /\ k = 4 * (dnsSize - dnsLeft)
    OBVIOUS
  <2>2. Len(q) = 1 /\ q[1] = Byte(255)
    BY <2>1, EndByte
  <2>3. /\ inMemory' = writeByteArray(current_offset, q)
        /\ current_offset' = current_offset + 1 /\ reply = "write" /\ reply' = "make"
        /\ UNCHANGED <<line, dnsSize, dnsLeft, discover, at, learnt>> /\ line = 17
    <3>1. Len(Statements) = 16
      BY <1>1, StatementMoves
    <3> QED
      BY <1>1, <1>5, <2>1, <3>1 DEF WriteEnd, clientVars
  <2>4. k \in Nat /\ 273 + k <= current_offset /\ Offsets[17] <= current_offset
    BY <2>1, <2>3, WriterAt
  <2>5. ASSUME current_offset' <= writtenByte
        PROVE  OptionsLie(inMemory', 17, k) /\ EndLies(inMemory', current_offset' - 1)
    <3>1. current_offset <= writtenByte /\ current_offset + 1 <= writtenByte
      BY <1>1, <2>3, <2>5
    <3>2. HasWritten(inMemory', current_offset, q)
      <4>1. Len(q) \in Nat /\ current_offset + Len(q) <= writtenByte
        BY <2>2, <3>1
      <4> QED
        BY <1>1, <2>3, <4>1, WriteFits
    <3>3. OptionsLie(inMemory, 17, k)
      BY <2>1, <2>3, <3>1 DEF ClientInv, OptionsInv
    <3>4. 17 \in 1 .. 17
      OBVIOUS
    <3>5. OptionsLie(inMemory', 17, k)
      BY <1>1, <2>4, <3>2, <3>3, <3>4, KeepsOptions
    <3>6. current_offset + 1 - 1 = current_offset /\ current_offset' - 1 = current_offset
      BY <1>1, <2>3
    <3>7. /\ current_offset + 1 - 1 \in DOMAIN inMemory'
          /\ inMemory'[current_offset + 1 - 1] = q[1]
      <4>1. 1 \in 1 .. Len(q)
        BY <2>2
      <4> QED
        BY <3>2, <4>1 DEF HasWritten
    <3> QED
      BY <2>2, <3>5, <3>6, <3>7 DEF EndLies
  <2>6. k = 4 * (dnsSize' - dnsLeft') /\ line' = 17
    BY <2>1, <2>3
  <2>7. OptionsInv'
    BY <2>3, <2>5, <2>6, OptionsPrimed
  <2>8. WalkInv'
    <3>1. reply' # "queued" /\ at' = 240 /\ learnt' = {}
      BY <2>3 DEF ClientInv, WalkInv
    <3> QED
      BY <3>1 DEF WalkInv
  <2> QED
    BY <2>7, <2>8 DEF ClientInv
<1>6. CASE makePacket
  <2>1. /\ UNCHANGED <<discover, dnsLeft, dnsSize, inMemory, current_offset, line, at, learnt>>
        /\ reply = "make" /\ reply' \in {"unsent", "queued"}
        /\ reply' = "queued" => current_offset <= writtenByte
    BY <1>1, <1>6, PacketAssumption DEF makePacket, clientVars, writtenByte, totalHeaderLen, EtherLen
  <2>2. OptionsInv'
    BY <2>1, OptionsPrimed DEF ClientInv, OptionsInv
  <2>3. at' = 240 /\ learnt' = {}
    BY <2>1 DEF ClientInv, WalkInv
  <2>4. \E j \in 0 .. 7 : /\ learnt' = { Meant[i] : i \in 1 .. j }
                          /\ at' = IF j = 7 THEN current_offset' - 1 ELSE Offsets[10 + j]
    <3>1. 0 \in 0 .. 7 /\ 0 # 7 /\ 1 .. 0 = {} /\ Offsets[10 + 0] = 240
      BY OffsetValues
    <3>2. { Meant[i] : i \in 1 .. 0 } = {}
      BY <3>1
    <3> QED
      BY <2>3, <3>1, <3>2
  <2>5. WalkInv'
    BY <2>1, <2>3, <2>4, WalkPrimed
  <2> QED
    BY <2>2, <2>5 DEF ClientInv
<1>7. CASE ReadOption
  BY <1>7, OptionReadStep
<1>8. CASE UNCHANGED replyVars
  <2>1. UNCHANGED <<discover, dnsLeft, dnsSize, inMemory, current_offset, line, reply, at, learnt>>
    BY <1>8 DEF replyVars, clientVars
  <2>2. OptionsInv'
    BY <2>1, OptionsPrimed DEF ClientInv, OptionsInv
  <2>3. WalkInv'
    BY <2>1, WalkPrimed DEF ClientInv, WalkInv
  <2> QED
    BY <2>2, <2>3 DEF ClientInv
<1> QED
  BY <1>2, <1>3, <1>4, <1>5, <1>6, <1>7, <1>8 DEF ReplyNext

(* A client that walks the options of a queued reply learns what           *)
(* create_dhcp meant to tell it, and stops on the end option               *)
(* (dhcp.cpp:90-133): for any capacity of a packet, any number of name     *)
(* servers up to 63 and every way the client can be on its way through     *)
(* them, no length byte is wrong and no value lies where it is not looked  *)
(* for.                                                                    *)
THEOREM ClientsUnderstand == ReplySpec => []ClientUnderstands
<1>1. ReplyInit => ClientInv
  <2>1. \A j \in 1 .. 7 : ~(1 > 9 + j)
    OBVIOUS
  <2>2. \A j \in 1 .. 6 : ~(1 > 9 + j)
    OBVIOUS
  <2> QED
    BY <2>1, <2>2 DEF ReplyInit, ClientInv, OptionsInv, OptionsLie, WalkInv
<1>2. ReplyInv /\ ClientInv /\ [ReplyNext]_replyVars => ClientInv'
  BY ClientStep
<1>3. ReplyInv /\ ClientInv => ClientUnderstands
  <2> SUFFICES ASSUME ReplyInv, ClientInv, reply = "queued", ~MoreOptions, dnsSize <= 63
               PROVE  learnt = { Meant[j] : j \in 1 .. 7 } /\ at = current_offset - 1
    BY DEF ClientUnderstands
  <2>1. PICK j \in 0 .. 7 : /\ learnt = { Meant[i] : i \in 1 .. j }
                            /\ at = IF j = 7 THEN current_offset - 1 ELSE Offsets[10 + j]
    BY DEF ClientInv, WalkInv
  <2>2. CASE j = 7
    BY <2>1, <2>2
  <2>3. CASE j # 7
    <3>1. PICK k \in 1 .. 7 : k = j + 1 /\ 9 + k = 10 + j
      <4>1. j + 1 \in 1 .. 7 /\ 9 + (j + 1) = 10 + j
        BY <2>3
      <4> QED
        BY <4>1
    <3>2. at = Offsets[9 + k]
      BY <2>1, <2>3, <3>1
    <3>3. CodeLies(inMemory, k) /\ ValueLies(inMemory, k, Len(Meant[k][2])) /\ dnsSize \in Nat
      BY QueuedReply
    <3> QED
      BY <3>2, <3>3, OptionSeen
  <2> QED
    BY <2>2, <2>3
<1> QED
  BY <1>1, <1>2, <1>3, ReplyInvariant, PTL DEF ReplySpec
-----------------------------------------------------------------------------
(* MAC addresses: readMAC inverts whatever wrote a row.                    *)

(* The text q spells address a with w characters per byte.                 *)
Spells(q, w, a) ==
    /\ w \in {2, 3} /\ Len(q) = 5 * w + 2 /\ \E S : q \in Seq(S)
    /\ \A i \in 1 .. 6 : /\ hex_to_byte(q[(i - 1) * w + 1]) = a[i] \div 16
                         /\ hex_to_byte(q[(i - 1) * w + 2]) = a[i] % 16
                         /\ i > 1 /\ w = 3 => hex_to_byte(q[(i - 1) * w]) = -1

(* Both ways to write a digit are read, a separator is none.               *)
LEMMA DigitsRead ==
    ASSUME NEW digits \in {Upper, Lower}, NEW d \in 0 .. 15
    PROVE  hex_to_byte(digits[d]) = d
<1>1. Upper[d] = <<"upper", d>>
  BY DEF Upper
<1>2. Lower[d] = IF d < 10 THEN <<"upper", d>> ELSE <<"lower", d>>
  BY <1>1 DEF Lower
<1> QED
  BY <1>1, <1>2 DEF hex_to_byte

LEMMA SeparatorsSkipped == ASSUME NEW c PROVE hex_to_byte(Other(c)) = -1
BY DEF hex_to_byte, Other

LEMMA WrittenForms ==
    ASSUME NEW f \in Written
    PROVE  /\ f[1] \in {Upper, Lower}
           /\ f[2] = <<>> \/ \E c : f[2] = <<Other(c)>>
<1>1. CASE f = <<Upper, <<Other("colon")>> >>
  BY <1>1
<1>2. CASE f = <<Lower, <<>> >>
  BY <1>2
<1>3. CASE \E c \in Separators : f = <<Lower, <<Other(c)>> >>
  BY <1>3
<1> QED
  BY <1>1, <1>2, <1>3 DEF Written

(* The halves of a byte.                                                   *)
LEMMA HalfBytes ==
    \A b \in 0 .. 255 : b \div 16 \in 0 .. 15 /\ b % 16 \in 0 .. 15
OBVIOUS

LEMMA Halves ==
    ASSUME NEW b \in 0 .. 255
    PROVE  /\ b \div 16 \in Nat /\ b % 16 \in Nat
           /\ 16 * (b \div 16) \in Nat /\ 16 * (b \div 16) + (b % 16) = b
OBVIOUS

LEMMA RowSpells ==
    ASSUME NEW a \in [1 .. 6 -> 0 .. 255], NEW f \in Written
    PROVE  Spells(Row(f[1], f[2], a), 2 + Len(f[2]), a)
<1>1. PICK digits \in {Upper, Lower} : digits = f[1]
  BY WrittenForms
<1>2. \A i \in 1 .. 6 : a[i] \div 16 \in 0 .. 15 /\ a[i] % 16 \in 0 .. 15
  BY HalfBytes
<1>3. \A i \in 1 .. 6 : /\ hex_to_byte(digits[a[i] \div 16]) = a[i] \div 16
                        /\ hex_to_byte(digits[a[i] % 16]) = a[i] % 16
  BY <1>2, DigitsRead
<1>4. ASSUME NEW b PROVE Pair(digits, b)[1] = digits[b \div 16]
                         /\ Pair(digits, b)[2] = digits[b % 16]
  BY DEF Pair
<1>5. CASE f[2] = <<>>
  <2>1. PICK q : q = [k \in 1 .. 12 |->
                         LET b == a[(k - 1) \div 2 + 1]
                             i == (k - 1) % 2
                         IN  IF i = 2 THEN <<>>[1] ELSE Pair(digits, b)[i + 1]]
    OBVIOUS
  <2>2. Len(f[2]) = 0
    BY <1>5
  <2>3. Row(f[1], f[2], a) = q
    <3>1. 2 + Len(f[2]) = 2 /\ 6 * 2 - Len(f[2]) = 12
      BY <2>2
    <3> QED
      BY <1>1, <1>5, <2>1, <3>1 DEF Row
  <2>4. DOMAIN q = 1 .. 12 /\ q = [k \in 1 .. 12 |-> q[k]]
    BY <2>1
  <2>5. ASSUME NEW i \in 1 .. 6
        PROVE  /\ q[(i - 1) * 2 + 1] = Pair(digits, a[i])[1]
               /\ q[(i - 1) * 2 + 2] = Pair(digits, a[i])[2]
    <3>1. /\ (i - 1) * 2 + 1 \in 1 .. 12 /\ (i - 1) * 2 + 2 \in 1 .. 12
          /\ ((i - 1) * 2 + 1 - 1) \div 2 + 1 = i /\ ((i - 1) * 2 + 1 - 1) % 2 = 0
          /\ ((i - 1) * 2 + 2 - 1) \div 2 + 1 = i /\ ((i - 1) * 2 + 2 - 1) % 2 = 1
      OBVIOUS
    <3> QED
      BY <2>1, <3>1
  <2>6. Len(q) = 12 /\ \E S : q \in Seq(S)
    BY <2>4, FunctionLen
  <2>7. \A i \in 1 .. 6 : /\ hex_to_byte(q[(i - 1) * 2 + 1]) = a[i] \div 16
                          /\ hex_to_byte(q[(i - 1) * 2 + 2]) = a[i] % 16
    BY <1>3, <1>4, <2>5
  <2>8. Spells(q, 2, a)
    BY <2>6, <2>7 DEF Spells
  <2>9. 2 + Len(f[2]) = 2
    BY <2>2
  <2> QED
    BY <2>3, <2>8, <2>9
<1>6. CASE \E c : f[2] = <<Other(c)>>
  <2>0. PICK c : f[2] = <<Other(c)>>
    BY <1>6
  <2>1. PICK q : q = [k \in 1 .. 17 |->
                         LET b == a[(k - 1) \div 3 + 1]
                             i == (k - 1) % 3
                         IN  IF i = 2 THEN Other(c) ELSE Pair(digits, b)[i + 1]]
    OBVIOUS
  <2>2. Len(f[2]) = 1 /\ f[2][1] = Other(c)
    BY <2>0
  <2>3. Row(f[1], f[2], a) = q
    <3>1. 2 + Len(f[2]) = 3 /\ 6 * 3 - Len(f[2]) = 17
      BY <2>2
    <3> QED
      BY <1>1, <2>1, <2>2, <3>1 DEF Row
  <2>4. DOMAIN q = 1 .. 17 /\ q = [k \in 1 .. 17 |-> q[k]]
    BY <2>1
  <2>5. ASSUME NEW i \in 1 .. 6
        PROVE  /\ q[(i - 1) * 3 + 1] = Pair(digits, a[i])[1]
               /\ q[(i - 1) * 3 + 2] = Pair(digits, a[i])[2]
               /\ i > 1 => q[(i - 1) * 3] = Other(c)
    <3>1. /\ (i - 1) * 3 + 1 \in 1 .. 17 /\ (i - 1) * 3 + 2 \in 1 .. 17
          /\ ((i - 1) * 3 + 1 - 1) \div 3 + 1 = i /\ ((i - 1) * 3 + 1 - 1) % 3 = 0
          /\ ((i - 1) * 3 + 2 - 1) \div 3 + 1 = i /\ ((i - 1) * 3 + 2 - 1) % 3 = 1
          /\ i > 1 => (i - 1) * 3 \in 1 .. 17 /\ ((i - 1) * 3 - 1) % 3 = 2
      OBVIOUS
    <3> QED
      BY <2>1, <3>1
  <2>6. Len(q) = 17 /\ \E S : q \in Seq(S)
    BY <2>4, FunctionLen
  <2>7. \A i \in 1 .. 6 : /\ hex_to_byte(q[(i - 1) * 3 + 1]) = a[i] \div 16
                          /\ hex_to_byte(q[(i - 1) * 3 + 2]) = a[i] % 16
                          /\ i > 1 => hex_to_byte(q[(i - 1) * 3]) = -1
    BY <1>3, <1>4, <2>5, SeparatorsSkipped
  <2>8. Spells(q, 3, a)
    BY <2>6, <2>7 DEF Spells
  <2>9. 2 + Len(f[2]) = 3
    BY <2>2
  <2> QED
    BY <2>3, <2>8, <2>9
<1> QED
  BY <1>5, <1>6, WrittenForms

(* One round of the loop takes the next character of the text.             *)
LEMMA NextCharacter ==
    ASSUME NEW S, NEW q \in Seq(S), NEW p \in Nat, p < Len(q)
    PROVE  Head(Rest(q, p)) = q[p + 1] /\ Tail(Rest(q, p)) = Rest(q, p + 1)
<1>1. \A k \in 1 .. Len(q) - p : p + k \in 1 .. Len(q) /\ q[p + k] \in S
  OBVIOUS
<1>2. Rest(q, p) = [k \in 1 .. Len(q) - p |-> q[p + k]] /\ Len(q) - p \in Nat
  BY DEF Rest
<1>3. Rest(q, p) \in Seq(S) /\ Len(Rest(q, p)) = Len(q) - p
  BY <1>1, <1>2
<1>4. Head(Rest(q, p)) = q[p + 1]
  BY <1>2, <1>3
<1>5. Tail(Rest(q, p)) = [k \in 1 .. Len(q) - (p + 1) |-> q[(p + 1) + k]]
  <2>1. Tail(Rest(q, p)) = [k \in 1 .. Len(Rest(q, p)) - 1 |-> Rest(q, p)[k + 1]]
    <3>1. Rest(q, p) # <<>>
      BY <1>3
    <3>2. /\ Tail(Rest(q, p)) \in Seq(S)
          /\ Len(Tail(Rest(q, p))) = Len(Rest(q, p)) - 1
          /\ \A k \in 1 .. Len(Tail(Rest(q, p))) : Tail(Rest(q, p))[k] = Rest(q, p)[k + 1]
      BY <1>3, <3>1, HeadTailProperties
    <3>3. \A t \in Seq(S) : t = [k \in 1 .. Len(t) |-> t[k]]
      OBVIOUS
    <3>4. Tail(Rest(q, p)) = [k \in 1 .. Len(Tail(Rest(q, p))) |-> Tail(Rest(q, p))[k]]
      BY <3>2, <3>3
    <3> QED
      BY <3>2, <3>4
  <2>2. Len(Rest(q, p)) - 1 = Len(q) - (p + 1)
    BY <1>3
  <2>3. \A k \in 1 .. Len(q) - (p + 1) : Rest(q, p)[k + 1] = q[(p + 1) + k]
    <3> TAKE k \in 1 .. Len(q) - (p + 1)
    <3>1. k + 1 \in 1 .. Len(q) - p /\ p + (k + 1) = (p + 1) + k
      OBVIOUS
    <3> QED
      BY <1>2, <3>1
  <2> QED
    BY <2>1, <2>2, <2>3
<1> QED
  BY <1>4, <1>5 DEF Rest

LEMMA WholeRow ==
    ASSUME NEW S, NEW q \in Seq(S)
    PROVE  Rest(q, 0) = q /\ Rest(q, Len(q)) = <<>>
<1>1. Len(q) \in Nat /\ q = [k \in 1 .. Len(q) |-> q[k]]
  OBVIOUS
<1>2. Rest(q, 0) = [k \in 1 .. Len(q) |-> q[k]]
  <2>1. Len(q) - 0 = Len(q) /\ \A k \in 1 .. Len(q) : 0 + k = k
    BY <1>1
  <2> QED
    BY <2>1 DEF Rest
<1>3. Rest(q, Len(q)) = [k \in 1 .. 0 |-> q[Len(q) + k]]
  BY <1>1 DEF Rest
<1>4. Rest(q, Len(q)) = <<>>
  BY <1>3
<1> QED
  BY <1>1, <1>2, <1>4

(* What a round finds.  At the upper half of a byte, at its lower half, or *)
(* at the separator before it.                                             *)
LEMMA RoundFinds ==
    ASSUME TextInv, Round
    PROVE  \E f \in Written :
               LET q == Row(f[1], f[2], addr)
                   w == 2 + Len(f[2])
               IN  \E p \in 0 .. Len(q) - 1 :
                   /\ buf' = Rest(q, p + 1)
                   /\ \/ go_next /\ p = (start - 1) * w + 1 /\ Digit = addr[start] % 16
                      \/ ~go_next /\ p = (start - 1) * w /\ Digit = addr[start] \div 16
                      \/ ~go_next /\ p = (start - 1) * w - 1 /\ w = 3 /\ Digit = -1
<1>1. PICK f \in Written : \E p \in 0 .. Len(Row(f[1], f[2], addr)) :
          Place(2 + Len(f[2]), p) /\ buf = Rest(Row(f[1], f[2], addr), p)
  BY DEF TextInv, Round, RestOfRow
<1> DEFINE q == Row(f[1], f[2], addr)
           w == 2 + Len(f[2])
<1>2. PICK p \in 0 .. Len(q) : Place(w, p) /\ buf = Rest(q, p)
  BY <1>1
<1>3. Spells(q, w, addr)
  BY RowSpells DEF TextInv
<1> HIDE DEF q, w
<1>4. PICK S : q \in Seq(S)
  BY <1>3 DEF Spells
<1>5. start \in 1 .. 6 /\ buf' = Tail(buf)
  BY DEF Round
<1>6. w \in {2, 3} /\ Len(q) = 5 * w + 2
  BY <1>3 DEF Spells
<1>7. p \in Nat /\ p < Len(q)
  <2>1. CASE w = 2
    BY <1>2, <1>5, <1>6, <2>1 DEF Place
  <2>2. CASE w = 3
    BY <1>2, <1>5, <1>6, <2>2 DEF Place
  <2> QED
    BY <1>6, <2>1, <2>2
<1>8. Digit = hex_to_byte(q[p + 1]) /\ buf' = Rest(q, p + 1)
  BY <1>2, <1>4, <1>5, <1>7, NextCharacter DEF Digit
<1>9. /\ hex_to_byte(q[(start - 1) * w + 1]) = addr[start] \div 16
      /\ hex_to_byte(q[(start - 1) * w + 2]) = addr[start] % 16
      /\ start > 1 /\ w = 3 => hex_to_byte(q[(start - 1) * w]) = -1
  BY <1>3, <1>5 DEF Spells
<1>10. \/ go_next /\ p = (start - 1) * w + 1 /\ Digit = addr[start] % 16
       \/ ~go_next /\ p = (start - 1) * w /\ Digit = addr[start] \div 16
       \/ ~go_next /\ p = (start - 1) * w - 1 /\ w = 3 /\ Digit = -1
  <2>1. CASE go_next /\ p = (start - 1) * w + 1
    <3>1. p + 1 = (start - 1) * w + 2
      BY <1>5, <1>6, <2>1
    <3> QED
      BY <1>8, <1>9, <2>1, <3>1
  <2>2. CASE ~go_next /\ p = (start - 1) * w
    BY <1>8, <1>9, <2>2
  <2>3. CASE ~go_next /\ start >= 2 /\ w = 3 /\ p = (start - 1) * w - 1
    <3>1. p + 1 = (start - 1) * w
      BY <1>5, <2>3
    <3> QED
      BY <1>5, <1>8, <1>9, <2>3, <3>1
  <2>4. CASE ~go_next /\ start >= 2 /\ p = (start - 1) * w - (w - 2)
    <3>1. CASE w = 2
      <4>1. p = (start - 1) * w
        BY <1>5, <2>4, <3>1
      <4> QED
        BY <2>2, <2>4, <4>1
    <3>2. CASE w = 3
      <4>1. p = (start - 1) * w - 1
        BY <1>5, <2>4, <3>2
      <4> QED
        BY <2>3, <2>4, <3>2, <4>1
    <3> QED
      BY <1>6, <3>1, <3>2
  <2> QED
    BY <1>2, <2>1, <2>2, <2>4 DEF Place
<1>11. p \in 0 .. Len(q) - 1
  BY <1>2, <1>6, <1>7
<1> QED
  BY <1>8, <1>10, <1>11 DEF q, w

(* What readMAC has of the byte it fills.                                  *)
LEMMA ByteSoFar ==
    ASSUME TextInv, start \in 1 .. 6
    PROVE  temp[start] = IF go_next THEN 16 * (addr[start] \div 16) ELSE 0
<1>1. ~(start < start)
  OBVIOUS
<1>2. temp[start] = IF start < start THEN addr[start]
                    ELSE IF start = start /\ go_next THEN 16 * (addr[start] \div 16)
                    ELSE 0
  BY DEF TextInv, BytesRead
<1> QED
  BY <1>1, <1>2

(* The steps of readMAC keep TextInv, one by one.                          *)
LEMMA SkipStep == ASSUME TextInv, Skip PROVE TextInv'
<1>1. Round /\ Digit = -1 /\ UNCHANGED <<addr, temp, start, go_next>>
  BY DEF Skip, Round
<1>2. start \in 1 .. 6 /\ addr[start] \in 0 .. 255
  BY <1>1 DEF Round, TextInv
<1>3. addr[start] % 16 # -1 /\ addr[start] \div 16 # -1
  BY <1>2
<1>4. PICK f \in Written : \E p \in 0 .. Len(Row(f[1], f[2], addr)) - 1 :
          /\ buf' = Rest(Row(f[1], f[2], addr), p + 1)
          /\ ~go_next /\ p = (start - 1) * (2 + Len(f[2])) - 1
  BY <1>1, <1>3, RoundFinds
<1> DEFINE q == Row(f[1], f[2], addr)
           w == 2 + Len(f[2])
<1>5. PICK p \in 0 .. Len(q) - 1 : /\ buf' = Rest(q, p + 1)
                                  /\ ~go_next /\ p = (start - 1) * w - 1
  BY <1>4
<1>6. Spells(q, w, addr)
  BY RowSpells DEF TextInv
<1>7. w \in {2, 3} /\ Len(q) \in Nat
  BY <1>6 DEF Spells
<1> HIDE DEF q, w
<1>8. p + 1 \in 0 .. Len(q) /\ p + 1 = (start - 1) * w
  BY <1>2, <1>5, <1>7
<1>9. Place(w, p + 1)'
  BY <1>1, <1>2, <1>5, <1>8 DEF Place
<1>10. RestOfRow'
  BY <1>1, <1>5, <1>8, <1>9 DEF RestOfRow, q, w
<1> QED
  BY <1>1, <1>10 DEF TextInv, BytesRead

LEMMA UpperHalfStep == ASSUME TextInv, UpperHalf PROVE TextInv'
<1>1. /\ Round /\ Digit # -1 /\ ~go_next /\ go_next' = TRUE
      /\ temp' = [temp EXCEPT ![start] = @ + 16 * Digit]
      /\ UNCHANGED <<addr, start>>
  BY DEF UpperHalf, Round
<1>2. start \in 1 .. 6 /\ addr[start] \in 0 .. 255
  BY <1>1 DEF Round, TextInv
<1>4. PICK f \in Written : \E p \in 0 .. Len(Row(f[1], f[2], addr)) - 1 :
          /\ buf' = Rest(Row(f[1], f[2], addr), p + 1)
          /\ p = (start - 1) * (2 + Len(f[2])) /\ Digit = addr[start] \div 16
  BY <1>1, RoundFinds
<1> DEFINE q == Row(f[1], f[2], addr)
           w == 2 + Len(f[2])
<1>5. PICK p \in 0 .. Len(q) - 1 : /\ buf' = Rest(q, p + 1)
                                  /\ p = (start - 1) * w
                                  /\ Digit = addr[start] \div 16
  BY <1>4
<1>6. Spells(q, w, addr)
  BY RowSpells DEF TextInv
<1>7. w \in {2, 3} /\ Len(q) \in Nat
  BY <1>6 DEF Spells
<1> HIDE DEF q, w
<1>8. p + 1 \in 0 .. Len(q) /\ p + 1 = (start - 1) * w + 1
  BY <1>2, <1>5, <1>7
<1>9. Place(w, p + 1)'
  BY <1>1, <1>8 DEF Place
<1>10. RestOfRow'
  BY <1>1, <1>5, <1>8, <1>9 DEF RestOfRow, q, w
<1>11. temp[start] = 0
  BY <1>1, <1>2, ByteSoFar
<1>12. PICK hi \in Nat : hi = 16 * (addr[start] \div 16) /\ hi = 16 * Digit
  BY <1>2, <1>5, Halves
<1>13. temp' = [temp EXCEPT ![start] = hi] /\ temp' \in [1 .. 6 -> Nat]
  <2>1. temp[start] + 16 * Digit = hi
    BY <1>11, <1>12
  <2> QED
    BY <1>1, <1>2, <2>1 DEF TextInv
<1>14. BytesRead'
  <2> SUFFICES ASSUME NEW i \in 1 .. 6
               PROVE  temp'[i] = IF i < start THEN addr[i]
                                 ELSE IF i = start THEN 16 * (addr[i] \div 16) ELSE 0
    BY <1>1 DEF BytesRead
  <2>1. CASE i = start
    <3>1. temp'[i] = hi /\ ~(i < start)
      BY <1>2, <1>13, <2>1 DEF TextInv
    <3> QED
      BY <1>12, <2>1, <3>1
  <2>2. CASE i # start
    <3>1. temp'[i] = temp[i]
      BY <1>13, <2>2 DEF TextInv
    <3> QED
      BY <1>1, <2>2, <3>1 DEF TextInv, BytesRead
  <2> QED
    BY <2>1, <2>2
<1> QED
  BY <1>1, <1>2, <1>10, <1>13, <1>14 DEF TextInv

LEMMA LowerHalfStep == ASSUME TextInv, LowerHalf PROVE TextInv'
<1>1. /\ Round /\ Digit # -1 /\ go_next /\ go_next' = FALSE
      /\ temp' = [temp EXCEPT ![start] = @ + Digit]
      /\ start' = start + 1 /\ UNCHANGED addr
  BY DEF LowerHalf, Round
<1>2. start \in 1 .. 6 /\ addr[start] \in 0 .. 255
  BY <1>1 DEF Round, TextInv
<1>4. PICK f \in Written : \E p \in 0 .. Len(Row(f[1], f[2], addr)) - 1 :
          /\ buf' = Rest(Row(f[1], f[2], addr), p + 1)
          /\ p = (start - 1) * (2 + Len(f[2])) + 1 /\ Digit = addr[start] % 16
  BY <1>1, RoundFinds
<1> DEFINE q == Row(f[1], f[2], addr)
           w == 2 + Len(f[2])
<1>5. PICK p \in 0 .. Len(q) - 1 : /\ buf' = Rest(q, p + 1)
                                  /\ p = (start - 1) * w + 1
                                  /\ Digit = addr[start] % 16
  BY <1>4
<1>6. Spells(q, w, addr)
  BY RowSpells DEF TextInv
<1>7. w \in {2, 3} /\ Len(q) \in Nat
  BY <1>6 DEF Spells
<1> HIDE DEF q, w
<1>3. start' - 1 = start /\ start' >= 2 /\ start' \in 0 .. 7
  BY <1>1, <1>2
<1>8. p + 1 \in 0 .. Len(q) /\ p + 1 = start * w - (w - 2)
  <2>1. CASE w = 2
    BY <1>2, <1>5, <1>7, <2>1
  <2>2. CASE w = 3
    BY <1>2, <1>5, <1>7, <2>2
  <2> QED
    BY <1>7, <2>1, <2>2
<1>9. Place(w, p + 1)'
  <2>1. p + 1 = (start' - 1) * w - (w - 2)
    BY <1>3, <1>8
  <2> QED
    BY <1>1, <1>3, <2>1 DEF Place
<1>10. RestOfRow'
  BY <1>1, <1>5, <1>8, <1>9 DEF RestOfRow, q, w
<1>11. temp[start] = 16 * (addr[start] \div 16)
  BY <1>1, <1>2, ByteSoFar
<1>12. temp' = [temp EXCEPT ![start] = addr[start]]
  <2>1. PICK hi \in Nat, lo \in Nat : /\ hi = 16 * (addr[start] \div 16)
                                     /\ lo = addr[start] % 16
                                     /\ hi + lo = addr[start]
    BY <1>2, Halves
  <2>2. temp[start] = hi /\ Digit = lo
    BY <1>5, <1>11, <2>1
  <2> QED
    BY <1>1, <2>1, <2>2
<1>13. temp' \in [1 .. 6 -> Nat]
  <2>1. 0 .. 255 \subseteq Nat
    OBVIOUS
  <2>2. temp \in [1 .. 6 -> Nat]
    BY DEF TextInv
  <2> QED
    BY <1>2, <1>12, <2>1, <2>2
<1>14. BytesRead'
  <2> SUFFICES ASSUME NEW i \in 1 .. 6
               PROVE  temp'[i] = IF i < start + 1 THEN addr[i] ELSE 0
    BY <1>1 DEF BytesRead
  <2>1. CASE i = start
    BY <1>2, <1>12, <2>1 DEF TextInv
  <2>2. CASE i # start
    <3>1. temp'[i] = temp[i]
      BY <1>12, <2>2 DEF TextInv
    <3>2. i < start + 1 <=> i < start
      BY <1>2, <2>2
    <3> QED
      BY <1>1, <2>2, <3>1, <3>2 DEF TextInv, BytesRead
  <2> QED
    BY <2>1, <2>2
<1> QED
  BY <1>1, <1>3, <1>10, <1>13, <1>14 DEF TextInv

LEMMA ReadStep == ASSUME TextInv, readMAC PROVE TextInv'
<1>1. /\ start = 0 /\ start' = 1 /\ go_next = FALSE /\ go_next' = FALSE
      /\ addr' \in [1 .. 6 -> Octets] /\ buf' \in Rows(addr') /\ temp' = temp
  BY DEF readMAC, TextInv
<1>2. addr' \in [1 .. 6 -> 0 .. 255]
  BY <1>1, MACTextAssumption
<1>3. PICK f \in Written : buf' = Row(f[1], f[2], addr')
  <2>1. CASE buf' = printMAC(addr')
    <3> DEFINE f == <<Upper, <<Other("colon")>> >>
    <3>1. f \in Written /\ f[1] = Upper /\ f[2] = <<Other("colon")>>
      BY DEF Written
    <3> HIDE DEF f
    <3> QED
      BY <2>1, <3>1 DEF printMAC
  <2>2. CASE buf' = Row(Lower, <<>>, addr')
    <3> DEFINE f == <<Lower, <<>> >>
    <3>1. f \in Written /\ f[1] = Lower /\ f[2] = <<>>
      BY DEF Written
    <3> HIDE DEF f
    <3> QED
      BY <2>2, <3>1
  <2>3. CASE \E c \in Separators : buf' = Row(Lower, <<Other(c)>>, addr')
    <3>1. PICK c \in Separators : buf' = Row(Lower, <<Other(c)>>, addr')
      BY <2>3
    <3> DEFINE f == <<Lower, <<Other(c)>> >>
    <3>2. f \in Written /\ f[1] = Lower /\ f[2] = <<Other(c)>>
      BY DEF Written
    <3> HIDE DEF f
    <3> QED
      BY <3>1, <3>2
  <2> QED
    BY <1>1, <2>1, <2>2, <2>3 DEF Rows
<1> DEFINE q == Row(f[1], f[2], addr')
           w == 2 + Len(f[2])
<1>4. Spells(q, w, addr')
  BY <1>2, RowSpells
<1> HIDE DEF q, w
<1>5. w \in {2, 3} /\ Len(q) \in Nat
  BY <1>4 DEF Spells
<1>6. Rest(q, 0) = q
  BY <1>4, WholeRow DEF Spells
<1>7. Place(w, 0)'
  <2>1. (start' - 1) * w = 0 /\ start' <= 6
    BY <1>1, <1>5
  <2> QED
    BY <1>1, <2>1 DEF Place
<1>8. RestOfRow'
  <2>1. 0 \in 0 .. Len(q) /\ buf' = Rest(q, 0)
    BY <1>3, <1>5, <1>6 DEF q
  <2> QED
    BY <1>7, <2>1 DEF RestOfRow, q, w
<1>9. \A i \in 1 .. 6 : temp[i] = 0
  BY <1>1 DEF TextInv, BytesRead
<1>10. BytesRead'
  BY <1>1, <1>9 DEF BytesRead
<1>11. start' \in 0 .. 7
  BY <1>1
<1>13. go_next' \in BOOLEAN /\ ~go_next'
  BY <1>1
<1>12. temp' \in [1 .. 6 -> Nat]
  BY <1>1 DEF TextInv
<1> QED
  BY <1>2, <1>8, <1>10, <1>11, <1>12, <1>13 DEF TextInv

LEMMA TextInvariant == TextSpec => []TextInv
<1>1. TextInit => TextInv
  <2> SUFFICES ASSUME TextInit PROVE TextInv
    OBVIOUS
  <2>1. /\ start = 0 /\ go_next = FALSE
        /\ addr = [i \in 1 .. 6 |-> 0] /\ temp = [i \in 1 .. 6 |-> 0]
    BY DEF TextInit
  <2>2. BytesRead
    BY <2>1 DEF BytesRead
  <2>3. /\ addr \in [1 .. 6 -> 0 .. 255] /\ temp \in [1 .. 6 -> Nat]
        /\ start \in 0 .. 7 /\ ~(start > 0)
    BY <2>1
  <2> QED
    BY <2>1, <2>2, <2>3 DEF TextInv
<1>2. TextInv /\ [TextNext]_textVars => TextInv'
  <2> SUFFICES ASSUME TextInv, [TextNext]_textVars PROVE TextInv'
    OBVIOUS
  <2>1. CASE UNCHANGED textVars
    BY <2>1 DEF textVars, TextInv, BytesRead, RestOfRow, Place
  <2> QED
    BY <2>1, ReadStep, SkipStep, UpperHalfStep, LowerHalfStep DEF TextNext
<1> QED
  BY <1>1, <1>2, PTL DEF TextSpec

(* readMAC gives back every address: from what printMAC wrote, and from    *)
(* rows an administrator wrote without separators or with any character    *)
(* that is no digit between two bytes, and it stops at the end of the text *)
(* (ethernet.cpp:64-91).                                                   *)
THEOREM MACsReadBack == TextSpec => []ReadsBack
<1>1. TextInv => ReadsBack
  <2> SUFFICES ASSUME TextInv, start > 6 PROVE temp = addr /\ buf = <<>>
    BY DEF ReadsBack
  <2>1. start = 7 /\ ~go_next
    BY DEF TextInv
  <2>2. \A i \in 1 .. 6 : temp[i] = addr[i]
    BY <2>1 DEF TextInv, BytesRead
  <2>3. temp = addr
    BY <2>2 DEF TextInv
  <2>4. PICK f \in Written : \E p \in 0 .. Len(Row(f[1], f[2], addr)) :
            Place(2 + Len(f[2]), p) /\ buf = Rest(Row(f[1], f[2], addr), p)
    BY <2>1 DEF TextInv, RestOfRow
  <2> DEFINE q == Row(f[1], f[2], addr)
             w == 2 + Len(f[2])
  <2>5. PICK p \in 0 .. Len(q) : Place(w, p) /\ buf = Rest(q, p)
    BY <2>4
  <2>6. Spells(q, w, addr)
    BY RowSpells DEF TextInv
  <2> HIDE DEF q, w
  <2>7. w \in {2, 3} /\ Len(q) = 5 * w + 2
    BY <2>6 DEF Spells
  <2>8. p = Len(q)
    BY <2>1, <2>5, <2>7 DEF Place
  <2>9. Rest(q, Len(q)) = <<>>
    BY <2>6, WholeRow DEF Spells
  <2> QED
    BY <2>3, <2>5, <2>8, <2>9
<1> QED
  BY <1>1, TextInvariant, PTL
-----------------------------------------------------------------------------
(* All computations together.                                              *)

LEMMA WireImplements == WireSpec => HeadersSpec /\ ReplySpec /\ ChecksumSpec /\ TextSpec
<1>1. WireInit => HeadersInit /\ ReplyInit /\ ChecksumInit /\ TextInit
  BY DEF WireInit
<1>2. [WireNext]_wireVars => /\ [HeadersNext]_headerVars /\ [ReplyNext]_replyVars
                             /\ [ChecksumNext]_sumVars /\ [TextNext]_textVars
  BY Zenon DEF WireNext, wireVars, CheckHeaders, BuildReply, SumWords, ReadText
<1> QED
  BY <1>1, <1>2, PTL DEF WireSpec, HeadersSpec, ReplySpec, ChecksumSpec, TextSpec

(* The specification of all of them keeps what each one keeps: frames are  *)
(* read within their buffer and judged by their own bytes, replies have no *)
(* hole but the gateway address and are understood, checksums are accepted *)
(* and MAC addresses survive the table (packet.cpp:58-81,                  *)
(* gateway.cpp:373-700, dhcp.cpp, udp.cpp, ethernet.cpp:40-91).            *)
THEOREM BytesAreRight ==
    WireSpec => [](/\ WithinCapacity /\ DecidedOnFrame /\ ReceiverAccepts
                   /\ ReplyWritten /\ ClientUnderstands /\ ReadsBack)
BY WireImplements, ReadsStayInBuffer, LengthChecksSuffice, ChecksumsAccepted,
   RepliesAreWritten, ClientsUnderstand, MACsReadBack, PTL
=============================================================================
