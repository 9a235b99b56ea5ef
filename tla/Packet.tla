------------------------------- MODULE Packet ------------------------------
(* What every packet buffer of the program has in common: its capacity,    *)
(* and the Ethernet header in front.                                       *)
EXTENDS Naturals

CONSTANT MY_PACKET_LEN

(* Ethernet::getNextOffset.                                                *)
EtherLen == 14

ASSUME PacketAssumption == MY_PACKET_LEN \in Nat /\ MY_PACKET_LEN >= EtherLen
=============================================================================
