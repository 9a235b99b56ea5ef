------------------------------- MODULE Reply -------------------------------
(***************************************************************************)
(* The bytes of a DHCP reply: create_dhcp reserves a buffer it does not    *)
(* clear, DHCP::writeResponse fills it from the front, one field or one    *)
(* option after the other, and UDP::makePacket puts the headers before it  *)
(* and sends it off, if it fits.  The client walks the options of what it  *)
(* receives.                                                               *)
(*                                                                         *)
(* The host is little-endian.  A byte is <<"byte", 0, b>> where the code   *)
(* writes b, and <<field, k, i>> for the i-th byte, in network order, of   *)
(* the k-th value of a field.                                              *)
(***************************************************************************)
EXTENDS Packet, Sequences, SequencesExt

CONSTANT DNSCounts    \* lengths of dnsList to try

ASSUME ReplyAssumption == DNSCounts \subseteq Nat \ {0}

VARIABLES discover,         \* the request's isDiscover
          dnsLeft,          \* what the loop over dns_vector has still to write
          dnsSize,          \* dns_vector.size()
          inMemory,         \* of the packet dhcp: what was written of it
          current_offset,
          line,             \* the statement group of writeResponse that is next
          reply,            \* "idle", "write", "make", "queued", or "unsent"
          at, learnt        \* the client: where it reads, the options it has read

clientVars == <<at, learnt>>
replyVars == <<discover, dnsLeft, dnsSize, inMemory, current_offset, line, reply, clientVars>>
-----------------------------------------------------------------------------
(* UDP::totalHeaderLen, and the length the buffer has during               *)
(* writeResponse.                                                          *)
totalHeaderLen == EtherLen + 20 + 8

writtenByte == MY_PACKET_LEN - totalHeaderLen

Byte(b) == <<"byte", 0, b>>

Bytes(numbers) == [i \in DOMAIN numbers |-> Byte(numbers[i])]

Zeros(n) == [i \in 1 .. n |-> Byte(0)]

(* A value that lies in memory in network order, and one in host order.    *)
Network(field, n) == [i \in 1 .. n |-> <<field, 0, i>>]

Server(k) == [i \in 1 .. 4 |-> <<"dns", k, i>>]

Host(field, n) == Reverse(Network(field, n))

(* A group of statements: the bytes they write and how far current_offset  *)
(* moves.                                                                  *)
Put(bytes) == [put |-> bytes, move |-> Len(bytes)]

Option(code, value) == Put(Bytes(<<code, Len(value)>>) \o value)

(* Variant: the second address is skipped for the first one. *)
HeaderSkipsServer ==
    << Put(Bytes(<<2, 1, 6, 0>>)), Put(Network("transID", 4)), Put(Zeros(8)),
       Put(Network("yourIP", 4)), [put |-> <<>>, move |-> 8],
       Put(Network("clientMAC", 6)), Put(Zeros(10)), Put(Zeros(64 + 128)),
       Put(Bytes(<<99, 130, 83, 99>>)) >>

(* The fixed part.  The loop for server and gateway address writes four    *)
(* bytes and moves by eight.                                               *)
Header == << Put(Bytes(<<2, 1, 6, 0>>)), Put(Network("transID", 4)), Put(Zeros(8)),
             Put(Network("yourIP", 4)), [put |-> Zeros(4), move |-> 8],
             Put(Network("clientMAC", 6)), Put(Zeros(10)), Put(Zeros(64 + 128)),
             Put(Bytes(<<99, 130, 83, 99>>)) >>

MessageType == Bytes(<<IF discover THEN 2 ELSE 5>>)

(* Variant: the length of the option counts servers. *)
dnsBytesInServers == dnsSize

(* writeByte takes a uint8_t.                                              *)
dnsBytes == (dnsSize * 4) % 256

(* The options before the list of servers.  The caller has converted the   *)
(* MTU with htons; the lease time is DHCP_TIMEOUT as it lies in memory.    *)
Options == << Option(53, MessageType),
              Option(54, Network("server", 4)), Option(51, Host("lease", 4)),
              Option(1, Network("mask", 4)), Option(3, Network("router", 4)),
              Option(26, Network("mtu", 2)), Put(Bytes(<<6, dnsBytes>>)) >>

Statements == Header \o Options
-----------------------------------------------------------------------------
(* Packet::writeByteArray: all of it, or nothing beyond the length.        *)
writeByteArray(from, bytes) ==
    LET now == from .. from + Len(bytes) - 1
    IN  IF from + Len(bytes) > writtenByte THEN inMemory
        ELSE [i \in now \cup DOMAIN inMemory |-> IF i \in now THEN bytes[i - from + 1]
                                                ELSE inMemory[i]]

ReplyInit == /\ discover = FALSE
             /\ dnsSize = 0 /\ dnsLeft = 0
             /\ inMemory = <<>>
             /\ current_offset = 0
             /\ line = 1
             /\ reply = "idle"
             /\ at = 240 /\ learnt = {}

(* A request is answered: both packets are reserved.                       *)
create_dhcp == /\ reply = "idle"
               /\ discover' \in BOOLEAN
               /\ dnsSize' \in DNSCounts /\ dnsLeft' = dnsSize'
               /\ reply' = "write"
               /\ UNCHANGED <<inMemory, current_offset, line, clientVars>>

WriteLine ==
    /\ reply = "write" /\ line <= Len(Statements)
    /\ inMemory' = writeByteArray(current_offset, Statements[line].put)
    /\ current_offset' = current_offset + Statements[line].move
    /\ line' = line + 1
    /\ UNCHANGED <<discover, dnsLeft, dnsSize, reply, clientVars>>

(* One round of the loop over dns_vector.                                  *)
WriteDNS ==
    /\ reply = "write" /\ line > Len(Statements) /\ dnsLeft > 0
    /\ inMemory' = writeByteArray(current_offset, Server(dnsSize - dnsLeft + 1))
    /\ current_offset' = current_offset + 4
    /\ dnsLeft' = dnsLeft - 1
    /\ UNCHANGED <<discover, dnsSize, line, reply, clientVars>>

(* The end option, and the return of the length.                           *)
WriteEnd ==
    /\ reply = "write" /\ line > Len(Statements) /\ dnsLeft = 0
    /\ inMemory' = writeByteArray(current_offset, Bytes(<<255>>))
    /\ current_offset' = current_offset + 1
    /\ reply' = "make"
    /\ UNCHANGED <<discover, dnsLeft, dnsSize, line, clientVars>>

(* makePacket refuses what does not fit: it returns -1, which becomes the  *)
(* length of the packet that is queued all the same, and which sendto      *)
(* refuses.                                                                *)
makePacket ==
    /\ reply = "make"
    /\ reply' = IF totalHeaderLen + current_offset > MY_PACKET_LEN THEN "unsent" ELSE "queued"
    /\ UNCHANGED <<discover, dnsLeft, dnsSize, inMemory, current_offset, line, clientVars>>
-----------------------------------------------------------------------------
(* The client: what RFC 2131 and 2132 make of the reply.  Options follow   *)
(* one another from the end of the magic number to the end option, or to   *)
(* what is no code and length.                                             *)
IsNumber(o) == o \in DOMAIN inMemory /\ inMemory[o][1] = "byte"

MoreOptions == IsNumber(at) /\ IsNumber(at + 1) /\ inMemory[at] # Byte(255)

OptionValue(o) == [i \in 1 .. inMemory[o + 1][3] |-> inMemory[o + 1 + i]]

ReadOption ==
    /\ reply = "queued" /\ MoreOptions
    /\ learnt' = learnt \cup {<<inMemory[at][3], OptionValue(at)>>}
    /\ at' = at + 2 + inMemory[at + 1][3]
    /\ UNCHANGED <<discover, dnsLeft, dnsSize, inMemory, current_offset, line, reply>>

ReplyNext == create_dhcp \/ WriteLine \/ WriteDNS \/ WriteEnd \/ makePacket \/ ReadOption

ReplySpec == ReplyInit /\ [][ReplyNext]_replyVars
-----------------------------------------------------------------------------
Servers == [i \in 1 .. 4 * dnsSize |-> Server(((i - 1) \div 4) + 1)[((i - 1) % 4) + 1]]

(* What create_dhcp means to tell the client, as pairs of code and value;  *)
(* the lease time as the host has it.                                      *)
Meant == << <<53, MessageType>>, <<54, Network("server", 4)>>,
            <<51, Host("lease", 4)>>, <<1, Network("mask", 4)>>,
            <<3, Network("router", 4)>>, <<26, Network("mtu", 2)>>, <<6, Servers>> >>

(* Up to 63 name servers, a client that walks the options of a queued      *)
(* reply finds all that create_dhcp meant to say and nothing else          *)
(* (dhcp.cpp:90-133): lengths, codes and values agree, and it ends on the  *)
(* last byte.  The lease time it finds is in the host's byte order         *)
(* (dhcp.cpp:105), the only value that is.                                 *)
ClientUnderstands ==
    reply = "queued" /\ ~MoreOptions /\ dnsSize <= 63
        => learnt = { Meant[j] : j \in 1 .. 7 } /\ at = current_offset - 1

(* A queued reply discloses nothing of the memory it was built in: every   *)
(* byte of it was written, for any number of servers that fits, except the *)
(* four of the gateway address (dhcp.cpp:67-69).                           *)
ReplyWritten == reply = "queued" =>
                    0 .. current_offset - 1 \subseteq DOMAIN inMemory \cup 24 .. 27

ReplyTypeOK == /\ line \in 1 .. 17 /\ dnsLeft \in Nat /\ dnsSize \in Nat
               /\ current_offset \in Nat

(* Where the groups of statements write, and where the list of servers     *)
(* begins.                                                                 *)
Offsets == << 0, 4, 8, 16, 20, 28, 34, 44, 236, 240, 243, 249, 255, 261, 267, 271, 273 >>

OffsetInv == /\ dnsLeft <= dnsSize
             /\ reply = "idle" => line = 1
             /\ line <= 16 => dnsLeft = dnsSize
             /\ current_offset = Offsets[line] + 4 * (dnsSize - dnsLeft)
                                     + (IF reply \in {"idle", "write"} THEN 0 ELSE 1)
             /\ reply \notin {"idle", "write"} => line = 17 /\ dnsLeft = 0

(* As long as what was written fits.                                       *)
NothingLeftOut == current_offset <= writtenByte =>
                      0 .. current_offset - 1 \subseteq DOMAIN inMemory \cup 24 .. 27

(* The inductive invariant behind ReplyWritten.                            *)
ReplyInv == ReplyTypeOK /\ OffsetInv /\ NothingLeftOut /\ ReplyWritten

(* The bytes of option j that stand in memory m: code and length, and the  *)
(* first k of its value.                                                   *)
CodeLies(m, j) == LET o == Offsets[9 + j] IN
                      /\ o \in DOMAIN m /\ m[o] = Byte(Meant[j][1])
                      /\ o + 1 \in DOMAIN m
                      /\ m[o + 1] = Byte(Len(Meant[j][2]) % 256)

ValueLies(m, j, k) == \A i \in 1 .. k : LET o == Offsets[9 + j] + 1 + i IN
                          o \in DOMAIN m /\ m[o] = Meant[j][2][i]

(* Before statement group l, with k bytes of the servers.                  *)
OptionsLie(m, l, k) ==
    /\ \A j \in 1 .. 7 : l > 9 + j => CodeLies(m, j)
    /\ \A j \in 1 .. 6 : l > 9 + j => ValueLies(m, j, Len(Meant[j][2]))
    /\ l = 17 => ValueLies(m, 7, k)

EndLies(m, o) == o \in DOMAIN m /\ m[o] = Byte(255)

OptionsInv ==
    current_offset <= writtenByte =>
        /\ OptionsLie(inMemory, line, 4 * (dnsSize - dnsLeft))
        /\ reply \in {"make", "queued"} => EndLies(inMemory, current_offset - 1)

(* The client has read the first options, and is at the next one.          *)
WalkInv ==
    /\ reply # "queued" => at = 240 /\ learnt = {}
    /\ reply = "queued" => current_offset <= writtenByte
    /\ reply = "queued" /\ dnsSize <= 63 =>
           \E j \in 0 .. 7 : /\ learnt = { Meant[i] : i \in 1 .. j }
                             /\ at = IF j = 7 THEN current_offset - 1 ELSE Offsets[10 + j]

(* With ReplyInv, the inductive invariant behind ClientUnderstands.        *)
ClientInv == OptionsInv /\ WalkInv
=============================================================================
