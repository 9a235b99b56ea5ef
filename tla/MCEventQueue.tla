---------------------------- MODULE MCEventQueue ----------------------------
(* Two producer threads (main during start-up and the database thread both *)
(* call addUserInfo), one event loop, and a counter limit that the bound   *)
(* on requests reaches.                                                    *)
EXTENDS EventQueue

CONSTANTS t1, t2, loop, r1, r2
MCProducers == {t1, t2}
MCData == {r1, r2}
=============================================================================
