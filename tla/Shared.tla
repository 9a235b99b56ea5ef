------------------------------- MODULE Shared -------------------------------
(***************************************************************************)
(* What the gateway thread and the database thread of the program share:   *)
(* the process they run in, the clock both read with gettimeofday, and the *)
(* request queues through which they call each other.  Each queue is used  *)
(* as a Channel (module Channel): a call appends one request, a handler    *)
(* takes all of them in one step.                                          *)
(***************************************************************************)
EXTENDS Naturals, Sequences

CONSTANTS IP,          \* IPv4 addresses that occur
          MAC,         \* Ethernet addresses that occur
          NoIP,        \* SQL NULL in a column `ip`
          NoMAC,       \* no entry in staticIPMap
          NoUser       \* no entry in userMap

ASSUME SharedAssumption ==
    /\ NoIP \notin IP
    /\ NoMAC \notin MAC

VARIABLES proc,        \* "loadIP", "loadUser", "serve" or "down"
          now,         \* the wall clock, in milliseconds
          staticIPAddRequest, userAddRequest, userDelRequest,
          sendPacketRequestQueue,                    \* into the gateway
          createDHCPRequestQueue, updateTimeQueue,   \* into the database
          granted      \* history: last MAC addUserInfo was called with, per IP

toGateway == <<staticIPAddRequest, userAddRequest, userDelRequest,
               sendPacketRequestQueue>>

toDatabase == <<createDHCPRequestQueue, updateTimeQueue>>

(* struct userInfo; the timeout field is the same for every user.          *)
userInfo == [ip : IP, user_mac : MAC, last_access : Nat]

(* A frame, or a packet built by the program.  `ok` stands for the tests   *)
(* on the header: an ARP header for IPv4 over Ethernet, an IP packet that  *)
(* is long enough; for a frame longer than the MTU, an IPv4 packet without *)
(* IP options.  `mtype` and `chaddr` are the DHCP message type and client  *)
(* address of a DHCP packet.                                               *)
FrameType == {"toolong", "runt", "arp", "ip", "dhcp", "dhcpreply", "other",
              "icmp", "offer", "ack"}

MessageType == {"discover", "request", "unknown", "notBootRequest"}

Frame == [type : FrameType, ok : BOOLEAN, smac : MAC, dmac : MAC,
          src : IP, dst : IP, chaddr : MAC, mtype : MessageType]

QueueTypeOK ==
    /\ proc \in {"loadIP", "loadUser", "serve", "down"}
    /\ now \in Nat
    /\ staticIPAddRequest \in Seq([ip : IP, mac : MAC])
    /\ userAddRequest \in Seq(userInfo)
    /\ userDelRequest \in Seq(IP)
    /\ sendPacketRequestQueue \in Seq(Frame)
    /\ createDHCPRequestQueue \in Seq([mac : MAC, isDiscover : BOOLEAN])
    /\ updateTimeQueue \in Seq([mac : MAC, ip : IP, UTC : Nat])
    /\ granted \in [IP -> MAC \cup {NoMAC}]
-----------------------------------------------------------------------------
(* The calls the database thread makes on the gateway.                     *)

addUserInfo(info) ==
    /\ userAddRequest' = Append(userAddRequest, info)
    /\ granted' = [granted EXCEPT ![info.ip] = info.user_mac]

delUserInfo(ip) == userDelRequest' = Append(userDelRequest, ip)

sendPacketRequest(p) ==
    sendPacketRequestQueue' = Append(sendPacketRequestQueue, p)

(* The calls the gateway thread makes on the database.                     *)

createDHCP(r) == createDHCPRequestQueue' = Append(createDHCPRequestQueue, r)

updateTime(r) == updateTimeQueue' = Append(updateTimeQueue, r)
=============================================================================
