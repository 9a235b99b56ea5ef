---------------------------- MODULE AddressPool ----------------------------
(***************************************************************************)
(* What the program promises about addresses, without threads, queues or   *)
(* SQL statements: a registered machine without an address may be given a  *)
(* site address that nobody has; an address is taken back only if it       *)
(* belongs to the dynamic pool and its holder was idle for a lease; the    *)
(* access time of a machine only moves forward and never past the clock.   *)
(* Everything else that happens to the tables is the administrator's       *)
(* doing.                                                                  *)
(***************************************************************************)
EXTENDS Naturals

CONSTANTS MAC, IP, NoIP, Dynamic, DHCP_TIMEOUT

VARIABLES static_ip, registered, userIP, accessed, now

vars == <<static_ip, registered, userIP, accessed, now>>

Holders(ip) == {m \in MAC : userIP[m] = ip}

Init == /\ static_ip \subseteq IP
        /\ registered \subseteq MAC
        /\ userIP \in [MAC -> IP \cup {NoIP}]
        /\ accessed \in [MAC -> Nat]
        /\ now \in Nat
        /\ \A m, k \in MAC : userIP[m] = userIP[k] /\ userIP[m] # NoIP => m = k
-----------------------------------------------------------------------------
(* The program.                                                            *)

Grant(m, ip) == /\ m \in registered
                /\ userIP[m] = NoIP
                /\ ip \in static_ip
                /\ Holders(ip) = {}
                /\ userIP' = [userIP EXCEPT ![m] = ip]
                /\ UNCHANGED <<static_ip, registered, accessed, now>>

Reclaim(m) == /\ userIP[m] \in static_ip \cap Dynamic
              /\ accessed[m] + DHCP_TIMEOUT < now
              /\ userIP' = [userIP EXCEPT ![m] = NoIP]
              /\ UNCHANGED <<static_ip, registered, accessed, now>>

Access(m, t) == /\ m \in registered
                /\ accessed[m] < t /\ t <= now
                /\ accessed' = [accessed EXCEPT ![m] = t]
                /\ UNCHANGED <<static_ip, registered, userIP, now>>
-----------------------------------------------------------------------------
(* The clock and the administrator.                                        *)

Tick == now' = now + 1 /\ UNCHANGED <<static_ip, registered, userIP, accessed>>

Register(m) == /\ registered' = registered \cup {m}
               /\ UNCHANGED <<static_ip, userIP, accessed, now>>

Unregister(m) == /\ registered' = registered \ {m}
                 /\ userIP' = [userIP EXCEPT ![m] = NoIP]
                 /\ accessed' = [accessed EXCEPT ![m] = 0]
                 /\ UNCHANGED <<static_ip, now>>

Provide(ip) == /\ static_ip' = static_ip \cup {ip}
               /\ UNCHANGED <<registered, userIP, accessed, now>>

Withdraw(ip) == /\ static_ip' = static_ip \ {ip}
                /\ userIP' = [m \in MAC |-> IF userIP[m] = ip THEN NoIP ELSE userIP[m]]
                /\ UNCHANGED <<registered, accessed, now>>

Next == \/ \E m \in MAC, ip \in IP : Grant(m, ip)
        \/ \E m \in MAC : Reclaim(m) \/ Register(m) \/ Unregister(m)
        \/ \E m \in MAC, t \in 0 .. now : Access(m, t)
        \/ \E ip \in IP : Provide(ip) \/ Withdraw(ip)
        \/ Tick

Spec == Init /\ [][Next]_vars
=============================================================================
