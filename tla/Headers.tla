------------------------------ MODULE Headers ------------------------------
(***************************************************************************)
(* How far Gateway::serve trusts the length of a frame.  The classes       *)
(* Ethernet, ARP, IP, UDP and DHCP are views of a Packet at an offset; a   *)
(* getter calls readByteArray, which copies nothing when the range does    *)
(* not lie within the frame, and returns a local variable.  Where the      *)
(* local has no initial value, serve then decides on what was on the       *)
(* stack.                                                                  *)
(*                                                                         *)
(* One frame is followed through serve, in either direction, up to the     *)
(* look-ups of its addresses (module Gateway).  `garbage` collects the     *)
(* getters whose result serve used although nothing was read.              *)
(***************************************************************************)
EXTENDS Packet

CONSTANTS Lengths,         \* lengths of frames, as recvfrom returns them
          HeaderLens       \* IP header lengths that frames announce

ASSUME HeadersAssumption == Lengths \subseteq Nat /\ HeaderLens \subseteq 0 .. 15

(* What the bytes of a frame say, wherever they are part of it: Ethernet   *)
(* type, whether an ARP header is one for IPv4 over Ethernet, IP header    *)
(* length in words and protocol, UDP ports, DHCP opcode and message type.  *)
Content(lens) == [type : {"arp", "ip", "other"}, arpOK : BOOLEAN, hlen : lens,
                  udp : BOOLEAN, ports : {"client", "server", "other"},
                  request : BOOLEAN, mtype : {"discover", "request", "other"}]

(* The buffer before the first frame is read.                              *)
NoFrame == [type |-> "other", arpOK |-> FALSE, hlen |-> 0, udp |-> FALSE,
            ports |-> "other", request |-> FALSE, mtype |-> "other"]

VARIABLES dir,        \* the device the frame came from
          len,        \* readLen, and Packet::writtenByte
          frame,      \* Content
          header,     \* the header looked at next, "idle", or the verdict
          garbage     \* getters that read nothing and were used

headerVars == <<dir, len, frame, header, garbage>>

Verdicts == {"answered", "runt", "badarp", "short", "dhcp", "dropped", "lookup",
             "other"}

(* Type invariant.                                                         *)
HeadersTypeOK == /\ dir \in {"in", "out"}
                 /\ len \in Nat
                 /\ frame \in Content(0 .. 15)
                 /\ header \in {"idle", "length", "icmp", "ethernet", "arp", "ip",
                                "udp", "opcode", "mtype", "client"} \cup Verdicts
                 /\ garbage \subseteq {"ports", "client", "source", "destination"}
-----------------------------------------------------------------------------
(* The views.                                                              *)

(* Packet::readByteArray and readByte: the range lies within the frame.    *)
readable(from, to) == from >= 0 /\ to <= len

(* IP::getNextOffset.  A byte that cannot be read is -1, that is 15 words; *)
(* less than five words count as five.                                     *)
IPWords == LET h == IF readable(EtherLen, EtherLen + 1) THEN frame.hlen ELSE 15
           IN  IF h < 5 THEN 5 ELSE h

UDPOffset == EtherLen + 4 * IPWords

DHCPOffset == UDPOffset + 8

(* Ethernet::getProtocol: 0 when it cannot be read.                        *)
EtherType == IF readable(12, 14) THEN frame.type ELSE "other"

(* ARP::getHeader: all zero when it cannot be read.                        *)
ARPHeaderOK == readable(EtherLen, EtherLen + 8) /\ frame.arpOK

(* IP::getProtocol; UDP::getSource and getDestination; DHCP::getOpcode and *)
(* getMessageType, for which -1 is no known value.                         *)
IsUDP == readable(EtherLen + 9, EtherLen + 10) /\ frame.udp

PortsRead == readable(UDPOffset, UDPOffset + 4)

IsBootRequest == readable(DHCPOffset, DHCPOffset + 1) /\ frame.request

MessageKnown == /\ readable(DHCPOffset + 242, DHCPOffset + 243)
                /\ frame.mtype \in {"discover", "request"}

(* DHCP::getClientMAC and getTransactionID.                                *)
ClientRead == readable(DHCPOffset + 4, DHCPOffset + 8)
              /\ readable(DHCPOffset + 28, DHCPOffset + 34)

(* ARP::getSourceIP and getDestinationIP, after the two MAC addresses.     *)
ARPSourceRead == readable(EtherLen + 14, EtherLen + 18)
ARPDestinationRead == readable(EtherLen + 24, EtherLen + 28)

(* IP::getSource and getDestination.                                       *)
IPSourceRead == readable(EtherLen + 12, EtherLen + 16)
IPDestinationRead == readable(EtherLen + 16, EtherLen + 20)

(* The result of getter g is used; it is garbage unless it was read.       *)
Use(g, wasRead) == garbage' = garbage \cup (IF wasRead THEN {} ELSE {g})

UseAddresses(src, dst) ==
    garbage' = garbage \cup (IF src THEN {} ELSE {"source"})
                       \cup (IF dst THEN {} ELSE {"destination"})
-----------------------------------------------------------------------------
(* serve, for one frame.                                                   *)

HeadersInit == /\ dir = "in"
               /\ len = 0
               /\ frame = NoFrame
               /\ header = "idle"
               /\ garbage = {}

(* A frame is read from one of the devices; its length may exceed that of  *)
(* the buffer.                                                             *)
readPacket == /\ header = "idle"
              /\ dir' \in {"in", "out"}
              /\ len' \in Lengths
              /\ frame' \in Content(HeaderLens)
              /\ header' = "length"
              /\ UNCHANGED garbage

Step(from) == header = from /\ UNCHANGED <<dir, frame>>

(* Variant: the packet keeps the length recvfrom returned. *)
CheckLengthKept ==
    /\ Step("length")
    /\ header' = IF len > MY_PACKET_LEN THEN "icmp"
             ELSE IF len < EtherLen /\ dir = "in" THEN "runt" ELSE "ethernet"
    /\ UNCHANGED <<len, garbage>>

(* A frame that does not fit is answered as one of MY_PACKET_LEN bytes;    *)
(* only the inside device's runts are dropped here.                        *)
CheckLength ==
    /\ Step("length")
    /\ \/ /\ len > MY_PACKET_LEN
          /\ len' = MY_PACKET_LEN
          /\ header' = "icmp"
       \/ /\ len < EtherLen /\ dir = "in"
          /\ header' = "runt"
          /\ UNCHANGED len
       \/ /\ len <= MY_PACKET_LEN
          /\ len >= EtherLen \/ dir = "out"
          /\ header' = "ethernet"
          /\ UNCHANGED len
    /\ UNCHANGED garbage

(* Only an IPv4 packet without options is answered; its header and eight   *)
(* bytes more are copied into the answer.                                  *)
icmp_mtu == /\ Step("icmp")
            /\ \/ /\ len < EtherLen + 28 \/ EtherType # "ip" \/ IPWords # 5
                  /\ header' = "dropped"
                  /\ UNCHANGED garbage
               \/ /\ len >= EtherLen + 28 /\ EtherType = "ip" /\ IPWords = 5
                  /\ header' = "answered"
                  /\ UseAddresses(IPSourceRead, IPDestinationRead)
            /\ UNCHANGED len

CheckType == /\ Step("ethernet")
             /\ header' = EtherType
             /\ UNCHANGED <<len, garbage>>

CheckARP == /\ Step("arp")
            /\ \/ ~ARPHeaderOK /\ header' = "badarp" /\ UNCHANGED garbage
               \/ /\ ARPHeaderOK
                  /\ header' = "lookup"
                  /\ UseAddresses(ARPSourceRead, ARPDestinationRead)
            /\ UNCHANGED len

(* Variant: the Ethernet header is not counted twice. *)
IPTooShortByHeader == len < UDPOffset

(* readLen < ethernet.getNextOffset() + ip.getNextOffset().                *)
IPTooShort == len < EtherLen + UDPOffset

CheckIP == /\ Step("ip")
           /\ \/ IPTooShort /\ header' = "short" /\ UNCHANGED garbage
              \/ /\ ~IPTooShort
                 /\ header' = IF IsUDP THEN "udp" ELSE "lookup"
                 /\ UseAddresses(IPSourceRead, IPDestinationRead)
           /\ UNCHANGED len

(* Ports that were not read may be anything.                               *)
CheckPorts ==
    /\ Step("udp")
    /\ Use("ports", PortsRead)
    /\ \E ports \in IF PortsRead THEN {frame.ports} ELSE {"client", "server", "other"} :
           header' = CASE dir = "in" /\ ports = "client" -> "opcode"
                   [] dir = "out" /\ ports = "server" -> "dropped"
                   [] OTHER -> "lookup"
    /\ UNCHANGED len

CheckOpcode == /\ Step("opcode")
               /\ header' = IF IsBootRequest THEN "mtype" ELSE "dropped"
               /\ UNCHANGED <<len, garbage>>

CheckMessageType == /\ Step("mtype")
                    /\ header' = IF MessageKnown THEN "client" ELSE "dropped"
                    /\ UNCHANGED <<len, garbage>>

(* The client's MAC is compared with the sender's and, like the            *)
(* transaction id, goes into the request to the database.                  *)
TakeClient == /\ Step("client")
              /\ Use("client", ClientRead)
              /\ header' = "dhcp"
              /\ UNCHANGED len

HeadersNext == \/ readPacket \/ CheckLength \/ icmp_mtu \/ CheckType
               \/ CheckARP \/ CheckIP \/ CheckPorts \/ CheckOpcode
               \/ CheckMessageType \/ TakeClient

HeadersSpec == HeadersInit /\ [][HeadersNext]_headerVars
-----------------------------------------------------------------------------
(* Nothing serve decides rests on a variable that was never assigned,      *)
(* whatever the length of the frame and whatever it claims as the length   *)
(* of its IP header (gateway.cpp:455, 461-496): neither the ports, nor the *)
(* addresses, nor the client of a DHCP request.  The exception are the     *)
(* addresses of an ARP packet that does not hold them, for the filter      *)
(* tests only its first eight bytes (gateway.cpp:405-419).                 *)
DecidedOnFrame == garbage # {} => EtherType = "arp" /\ len < EtherLen + 28

(* The getters test a range against the length of the packet only, never   *)
(* against the buffer (packet.cpp:58-75), and recvfrom with MSG_TRUNC      *)
(* returns lengths beyond the buffer (socket.cpp:161): whenever a header   *)
(* is looked at, the packet's length is within its capacity.               *)
WithinCapacity == header \notin {"idle", "length"} => len <= MY_PACKET_LEN

(* How far the frame has been checked at each header; with it              *)
(* DecidedOnFrame is inductive.                                            *)
CheckedSoFar ==
    /\ header = "arp" => EtherType = "arp"
    /\ header \in {"udp", "opcode", "mtype", "client"} => ~IPTooShort
    /\ header = "client" => MessageKnown
    /\ header \in {"idle", "length", "icmp", "ethernet", "arp", "ip"} => garbage = {}
=============================================================================
