------------------------------ MODULE Gateway ------------------------------
(***************************************************************************)
(* The gateway thread: Gateway::serve and the handlers its event loop      *)
(* calls.  serve loops over three phases: up to IO_BURST frames read from  *)
(* the inside device, up to IO_BURST from the outside device, and one      *)
(* non-blocking turn of the event loop, which looks which eventfds are     *)
(* readable and then calls their handlers one after another.  A frame is   *)
(* dropped, answered, or written to the other device with the MAC address  *)
(* of the user replaced by the static MAC of the IP, or the reverse.       *)
(*                                                                         *)
(* staticIPMap and userMap belong to this thread alone.                    *)
(***************************************************************************)
EXTENDS Shared

CONSTANTS IO_BURST,         \* frames per phase
          Timeout,          \* userInfo.timeout, milliseconds
          InFrames,         \* frames that may arrive on the inside device
          OutFrames,        \* frames that may arrive on the outside device
          ETHER_BROADCAST, IPv4_NONE, IPv4_BROADCAST,
          MaxQueue          \* bound: requests waiting for the database

ASSUME GatewayAssumption ==
    /\ IO_BURST \in Nat /\ Timeout \in Nat /\ MaxQueue \in Nat
    /\ InFrames \subseteq Frame /\ OutFrames \subseteq Frame
    /\ ETHER_BROADCAST \in MAC
    /\ IPv4_NONE \in IP /\ IPv4_BROADCAST \in IP

VARIABLES staticIPMap,      \* IP -> static MAC, NoMAC when there is no entry
          userMap,          \* IP -> user, NoUser when there is no entry
          gpc,              \* phase of the serve loop
          burst,            \* frames read in this phase
          current_time,     \* the clock as read at the top of the loop
          ready,            \* eventfds the event loop has still to serve
          wire              \* what the last step wrote to the devices

gatewayVars == <<staticIPMap, userMap, gpc, burst, current_time, ready, wire>>

User == [user_mac : MAC, last_access : Nat]

(* A frame written to a device, and the source MAC of the frame it is of.  *)
Output == [dev : {"in", "out"}, by : MAC, frame : Frame]

GatewayTypeOK ==
    /\ staticIPMap \in [IP -> MAC \cup {NoMAC}]
    /\ userMap \in [IP -> User \cup {NoUser}]
    /\ gpc \in {"in", "out", "dispatch"}
    /\ burst \in Nat
    /\ current_time \in Nat
    /\ ready \subseteq {"addStaticIP", "addUser", "delUser", "sendPacket"}
    /\ wire \in Seq(Output)

(* The Gateway as its constructor leaves it, at the top of the loop.       *)
GatewayReset(t) ==
    /\ staticIPMap' = [ip \in IP |-> NoMAC]
    /\ userMap' = [ip \in IP |-> NoUser]
    /\ gpc' = "in"
    /\ burst' = 0
    /\ current_time' = t
    /\ ready' = {}
    /\ wire' = <<>>

GatewayInit(t) ==
    /\ staticIPMap = [ip \in IP |-> NoMAC]
    /\ userMap = [ip \in IP |-> NoUser]
    /\ gpc = "in"
    /\ burst = 0
    /\ current_time = t
    /\ ready = {}
    /\ wire = <<>>
-----------------------------------------------------------------------------
(* Frames.                                                                 *)

isStatic(ip) == staticIPMap[ip] # NoMAC

hasUser(ip) == userMap[ip] # NoUser

IsIP(f) == f.type \in {"ip", "dhcp", "dhcpreply"}

Addressed(f) == f.type = "arp" \/ IsIP(f)

(* Device::writePacket of frame g, made of a frame whose source was by.    *)
writePacket(dev, by, g) == wire' = <<[dev |-> dev, by |-> by, frame |-> g]>>

(* icmp_mtu: only an IPv4 frame without options is answered, on the device *)
(* it came from, with both pairs of addresses exchanged.                   *)
icmp_mtu(dev, f) ==
    IF f.ok
    THEN writePacket(dev, f.smac,
                     [f EXCEPT !.type = "icmp", !.smac = f.dmac, !.dmac = f.smac,
                               !.src = f.dst, !.dst = f.src])
    ELSE wire' = <<>>

(* Variant: a phase reads as long as there are frames. *)
ReadFrameUnbounded(phase) == /\ proc = "serve"
                             /\ gpc = phase
                             /\ UNCHANGED <<gpc, burst, current_time, ready>>

ReadFrame(phase) == /\ proc = "serve"
                    /\ gpc = phase
                    /\ burst < IO_BURST
                    /\ burst' = burst + 1
                    /\ UNCHANGED <<gpc, current_time, ready>>
-----------------------------------------------------------------------------
(* From the inside device to the outside.                                  *)

(* A DHCP message of a client is consumed; a discover or a request from    *)
(* the client itself goes to the database.                                 *)
DHCPAccepted(f) == /\ f.mtype \in {"discover", "request"}
                   /\ f.chaddr = f.smac

(* Variant: the MAC of the sender is not compared. *)
AuthorizedByAddress(f) == hasUser(f.src)

(* The MAC registered for the source address sent the frame.               *)
Authorized(f) == hasUser(f.src) /\ userMap[f.src].user_mac = f.smac

InsidePasses(f) == /\ f.ok
                   /\ f.type # "dhcp"
                   /\ ~isStatic(f.dst)
                   /\ Authorized(f) \/ (~hasUser(f.src) /\ ~isStatic(f.src))

(* The user's access time is due for a refresh.                            *)
NeedsUpdate(f) == /\ Addressed(f)
                  /\ hasUser(f.src)
                  /\ userMap[f.src].last_access + Timeout < current_time

RefreshUser(f) ==
    IF NeedsUpdate(f)
    THEN /\ userMap' = [userMap EXCEPT ![f.src].last_access = current_time]
         /\ updateTime([mac |-> userMap[f.src].user_mac, ip |-> f.src,
                        UTC |-> current_time])
    ELSE UNCHANGED <<userMap, updateTimeQueue>>

InsideTooLong(f) ==
    /\ ReadFrame("in")
    /\ f.type = "toolong"
    /\ icmp_mtu("in", f)
    /\ UNCHANGED <<proc, staticIPMap, userMap, createDHCPRequestQueue,
                   updateTimeQueue>>

InsideDHCP(f) ==
    /\ ReadFrame("in")
    /\ f.type = "dhcp" /\ f.ok
    /\ DHCPAccepted(f)
    /\ Len(createDHCPRequestQueue) < MaxQueue
    /\ createDHCP([mac |-> f.chaddr, isDiscover |-> f.mtype = "discover"])
    /\ wire' = <<>>
    /\ UNCHANGED <<proc, staticIPMap, userMap, updateTimeQueue>>

InsideDrop(f) ==
    /\ ReadFrame("in")
    /\ \/ f.type = "runt"
       \/ f.type = "dhcp" /\ f.ok /\ ~DHCPAccepted(f)
       \/ Addressed(f) /\ ~(f.type = "dhcp" /\ f.ok) /\ ~InsidePasses(f)
    /\ wire' = <<>>
    /\ UNCHANGED <<proc, staticIPMap, userMap, createDHCPRequestQueue,
                   updateTimeQueue>>

InsideForward(f) ==
    /\ ReadFrame("in")
    /\ Addressed(f) /\ InsidePasses(f)
    /\ hasUser(f.src) => isStatic(f.src)
    /\ NeedsUpdate(f) => Len(updateTimeQueue) < MaxQueue
    /\ RefreshUser(f)
    /\ writePacket("out", f.smac,
                   IF hasUser(f.src) THEN [f EXCEPT !.smac = staticIPMap[f.src]]
                                     ELSE f)
    /\ UNCHANGED <<proc, staticIPMap, createDHCPRequestQueue>>

(* A user whose address has no static MAC: srcIter is end() and is         *)
(* dereferenced.  The end iterator of boost::unordered_map holds a null    *)
(* node pointer, so the read ends the process.                             *)
InsideBadIterator(f) ==
    /\ ReadFrame("in")
    /\ Addressed(f) /\ InsidePasses(f)
    /\ hasUser(f.src) /\ ~isStatic(f.src)
    /\ proc' = "down"
    /\ wire' = <<>>
    /\ UNCHANGED <<staticIPMap, userMap, createDHCPRequestQueue,
                   updateTimeQueue>>

InsideOther(f) ==
    /\ ReadFrame("in")
    /\ f.type = "other"
    /\ writePacket("out", f.smac, f)
    /\ UNCHANGED <<proc, staticIPMap, userMap, createDHCPRequestQueue,
                   updateTimeQueue>>
-----------------------------------------------------------------------------
(* From the outside device to the inside.                                  *)

(* A DHCP broadcast of a client that has no address yet.                   *)
OuterDHCP(f) == /\ f.type = "dhcp"
                /\ f.src = IPv4_NONE
                /\ f.dst = IPv4_BROADCAST

(* The frame reaches the look-up of its destination.                       *)
OutsideAdmitted(f) == f.ok /\ f.type # "dhcpreply" /\ ~isStatic(f.src)

ARPToOwner(f) ==
    hasUser(f.dst) => f.dmac \in {staticIPMap[f.dst], ETHER_BROADCAST}

IPToOwner(f) == hasUser(f.dst) /\ f.dmac = staticIPMap[f.dst]

OutsidePasses(f) == /\ OutsideAdmitted(f)
                    /\ isStatic(f.dst) => IF f.type = "arp" THEN ARPToOwner(f)
                                                            ELSE IPToOwner(f)
                    /\ ~OuterDHCP(f)

(* A user left over for an address that is no longer a static IP is erased *)
(* when a frame for the address comes in.                                  *)
ForgetOrphan(f) ==
    userMap' = IF Addressed(f) /\ OutsideAdmitted(f) /\ ~isStatic(f.dst)
               THEN [userMap EXCEPT ![f.dst] = NoUser]
               ELSE userMap

OutsideTooLong(f) ==
    /\ ReadFrame("out")
    /\ f.type = "toolong"
    /\ icmp_mtu("out", f)
    /\ UNCHANGED <<proc, staticIPMap, userMap>>

OutsideDrop(f) ==
    /\ ReadFrame("out")
    /\ Addressed(f) /\ ~OutsidePasses(f)
    /\ ForgetOrphan(f)
    /\ wire' = <<>>
    /\ UNCHANGED <<proc, staticIPMap>>

OutsideForward(f) ==
    /\ ReadFrame("out")
    /\ Addressed(f) /\ OutsidePasses(f)
    /\ ForgetOrphan(f)
    /\ writePacket("in", f.smac,
                   IF isStatic(f.dst) /\ hasUser(f.dst)
                   THEN [f EXCEPT !.dmac = userMap[f.dst].user_mac]
                   ELSE f)
    /\ UNCHANGED <<proc, staticIPMap>>

(* Anything else, runts included, passes.                                  *)
OutsideOther(f) ==
    /\ ReadFrame("out")
    /\ f.type \in {"other", "runt"}
    /\ writePacket("in", f.smac, f)
    /\ UNCHANGED <<proc, staticIPMap, userMap>>
-----------------------------------------------------------------------------
(* The loop.                                                               *)

(* The inside device has no more frames, or the burst is used up.          *)
EndInside ==
    /\ proc = "serve"
    /\ gpc = "in"
    /\ gpc' = "out"
    /\ burst' = 0
    /\ wire' = <<>>
    /\ UNCHANGED <<staticIPMap, userMap, current_time, ready>>

(* Variant: one handler per turn. *)
PollOne ==
    /\ proc = "serve"
    /\ gpc = "out"
    /\ gpc' = "dispatch"
    /\ \E fd \in {"addStaticIP", "addUser", "delUser", "sendPacket"} :
           /\ fd = "addStaticIP" => staticIPAddRequest # <<>>
           /\ fd = "addUser" => userAddRequest # <<>>
           /\ fd = "delUser" => userDelRequest # <<>>
           /\ fd = "sendPacket" => sendPacketRequestQueue # <<>>
           /\ ready' = {fd}
    /\ wire' = <<>>
    /\ UNCHANGED <<staticIPMap, userMap, burst, current_time>>

(* event_base_loop(EVLOOP_NONBLOCK): the handlers to call are the ones     *)
(* whose eventfd is readable now.                                          *)
Poll ==
    /\ proc = "serve"
    /\ gpc = "out"
    /\ gpc' = "dispatch"
    /\ ready' = {fd \in {"addStaticIP"} : staticIPAddRequest # <<>>}
           \cup {fd \in {"addUser"} : userAddRequest # <<>>}
           \cup {fd \in {"delUser"} : userDelRequest # <<>>}
           \cup {fd \in {"sendPacket"} : sendPacketRequestQueue # <<>>}
    /\ wire' = <<>>
    /\ UNCHANGED <<staticIPMap, userMap, burst, current_time>>

Handle(fd) == /\ proc = "serve"
              /\ gpc = "dispatch"
              /\ fd \in ready
              /\ ready' = ready \ {fd}
              /\ UNCHANGED <<gpc, burst, current_time>>

(* The last request of q for address ip: the one that stays in a map when  *)
(* the requests are carried out in order.                                  *)
For(q, ip) == {i \in DOMAIN q : q[i].ip = ip}

LastFor(q, ip) == q[CHOOSE i \in For(q, ip) : \A j \in For(q, ip) : j <= i]

add_static_ip ==
    /\ Handle("addStaticIP")
    /\ staticIPMap' = [ip \in IP |->
                          IF For(staticIPAddRequest, ip) = {} THEN staticIPMap[ip]
                          ELSE LastFor(staticIPAddRequest, ip).mac]
    /\ staticIPAddRequest' = <<>>
    /\ wire' = <<>>
    /\ UNCHANGED <<userMap, userAddRequest, userDelRequest, sendPacketRequestQueue>>

(* Variant: an existing user of the address stays. *)
AddUserKeepsFirst ==
    /\ Handle("addUser")
    /\ userMap' = [ip \in IP |->
                      IF For(userAddRequest, ip) = {} \/ hasUser(ip) THEN userMap[ip]
                      ELSE LET info == LastFor(userAddRequest, ip)
                           IN  [user_mac |-> info.user_mac,
                                last_access |-> info.last_access]]
    /\ userAddRequest' = <<>>
    /\ wire' = <<>>
    /\ UNCHANGED <<staticIPMap, staticIPAddRequest, userDelRequest,
                   sendPacketRequestQueue>>

(* An existing user of the address is erased before the new one goes in.   *)
add_user ==
    /\ Handle("addUser")
    /\ userMap' = [ip \in IP |->
                      IF For(userAddRequest, ip) = {} THEN userMap[ip]
                      ELSE LET info == LastFor(userAddRequest, ip)
                           IN  [user_mac |-> info.user_mac,
                                last_access |-> info.last_access]]
    /\ userAddRequest' = <<>>
    /\ wire' = <<>>
    /\ UNCHANGED <<staticIPMap, staticIPAddRequest, userDelRequest,
                   sendPacketRequestQueue>>

del_user ==
    /\ Handle("delUser")
    /\ userMap' = [ip \in IP |->
                      IF \E i \in DOMAIN userDelRequest : userDelRequest[i] = ip
                      THEN NoUser ELSE userMap[ip]]
    /\ userDelRequest' = <<>>
    /\ wire' = <<>>
    /\ UNCHANGED <<staticIPMap, staticIPAddRequest, userAddRequest,
                   sendPacketRequestQueue>>

send_packet ==
    /\ Handle("sendPacket")
    /\ wire' = [i \in DOMAIN sendPacketRequestQueue |->
                   [dev |-> "in", by |-> sendPacketRequestQueue[i].smac,
                    frame |-> sendPacketRequestQueue[i]]]
    /\ sendPacketRequestQueue' = <<>>
    /\ UNCHANGED <<staticIPMap, userMap, staticIPAddRequest, userAddRequest,
                   userDelRequest>>

(* Back to the top: gettimeofday, then the next burst.                     *)
LoopTop ==
    /\ proc = "serve"
    /\ gpc = "dispatch"
    /\ ready = {}
    /\ gpc' = "in"
    /\ burst' = 0
    /\ current_time' = now
    /\ wire' = <<>>
    /\ UNCHANGED <<staticIPMap, userMap, ready>>

InsideFrame ==
    /\ \E f \in InFrames : \/ InsideTooLong(f)
                           \/ InsideDHCP(f)
                           \/ InsideDrop(f)
                           \/ InsideForward(f)
                           \/ InsideBadIterator(f)
                           \/ InsideOther(f)
    /\ UNCHANGED <<now, toGateway, granted>>

OutsideFrame ==
    /\ \E f \in OutFrames : \/ OutsideTooLong(f)
                            \/ OutsideDrop(f)
                            \/ OutsideForward(f)
                            \/ OutsideOther(f)
    /\ UNCHANGED <<now, toGateway, toDatabase, granted>>

Handlers == /\ add_static_ip \/ add_user \/ del_user \/ send_packet
            /\ UNCHANGED <<proc, now, toDatabase, granted>>

Loop == /\ EndInside \/ Poll \/ LoopTop
        /\ UNCHANGED <<proc, now, toGateway, toDatabase, granted>>

GatewayNext == InsideFrame \/ OutsideFrame \/ Handlers \/ Loop
=============================================================================
