------------------------------ MODULE MCSystem ------------------------------
(* Small sites for TLC.  ip1 is a dynamic address, ip2 a fixed one, s1 and *)
(* s2 are their static MACs; m1 and m2 are machines of the site; x and xip *)
(* are a host outside.  Where a run has no use for an address apart, its   *)
(* cfg gives two names the same model value.                               *)
EXTENDS System

CONSTANTS ip1, ip2, xip, gwip, none, broadcast,
          m1, m2, s1, s2, x, router, all

MCIP == {ip1, ip2, xip, gwip, none, broadcast}
MCMAC == {m1, m2, s1, s2, x, router, all}
MCStaticMAC == [ip \in MCIP |-> CASE ip = ip1 -> s1 [] ip = ip2 -> s2
                                  [] OTHER -> router]

TheFrame(type, smac, dmac, src, dst) ==
    [type |-> type, ok |-> TRUE, smac |-> smac, dmac |-> dmac, src |-> src,
     dst |-> dst, chaddr |-> smac, mtype |-> "request"]

Bad(f) == [f EXCEPT !.ok = FALSE]

DHCPMessage(m, mtype) ==
    [TheFrame("dhcp", m, all, none, broadcast) EXCEPT !.mtype = mtype]

Packet(m, ip) == TheFrame("ip", m, router, ip, xip)

OneDynamic == {ip1}
OneAndFixed == {ip1, ip2}
BothMachines == {m1, m2}

(* Both machines come for the one dynamic address; m1 uses it.             *)
LeaseFrames == {DHCPMessage(m1, "request"), DHCPMessage(m2, "request"),
                Packet(m1, ip1)}

(* Both machines ask, and neither uses what it gets.                       *)
RequestFrames == {DHCPMessage(m1, "request"), DHCPMessage(m2, "request")}

(* Enough addresses for everyone, and traffic that keeps the device busy.  *)
BusyFrames == {DHCPMessage(m1, "request"), DHCPMessage(m2, "discover"),
               TheFrame("other", m1, router, ip1, xip),
               TheFrame("runt", m1, router, ip1, xip)}

(* Every way a frame is treated.  One machine has the dynamic address or   *)
(* asks for it, the other may be given the fixed one.                      *)
InsideFrames ==
    {TheFrame("toolong", m1, router, ip1, xip),
     Bad(TheFrame("toolong", m1, router, ip1, xip)),
     TheFrame("runt", m1, router, ip1, xip),
     TheFrame("other", m1, router, ip1, xip),
     TheFrame("arp", m1, all, ip1, xip), Bad(TheFrame("arp", m1, all, ip1, xip)),
     TheFrame("arp", m1, all, ip1, ip2),
     Packet(m1, ip1), Packet(m2, ip1), Packet(m2, ip2), Packet(m1, xip),
     TheFrame("dhcpreply", m1, all, none, broadcast),
     DHCPMessage(m2, "request"), DHCPMessage(m2, "discover"),
     DHCPMessage(m1, "unknown"), DHCPMessage(m1, "notBootRequest"),
     [DHCPMessage(m1, "request") EXCEPT !.chaddr = m2]}

OutsideFrames ==
    {TheFrame("toolong", x, s1, xip, ip1),
     TheFrame("runt", x, s1, xip, ip1), TheFrame("other", x, s1, xip, ip1),
     TheFrame("arp", x, all, xip, ip1), TheFrame("arp", x, s2, xip, ip1),
     Bad(TheFrame("arp", x, all, xip, ip1)), TheFrame("arp", x, all, ip2, ip1),
     TheFrame("ip", x, s1, xip, ip1), TheFrame("ip", x, all, xip, ip1),
     TheFrame("ip", x, s2, xip, ip2), TheFrame("ip", x, m1, xip, gwip),
     TheFrame("ip", x, s1, ip2, ip1), Bad(TheFrame("ip", x, s1, xip, ip1)),
     TheFrame("dhcpreply", x, s1, xip, ip1),
     TheFrame("dhcp", x, all, none, broadcast)}
=============================================================================
