------------------------------- MODULE MCMain -------------------------------
(* Flags and MTUs by name; one signal, sent again, or two different ones.  *)
EXTENDS Main

OneSignal == {"SIGTERM"}
TwoSignals == {"SIGTERM", "SIGINT"}
=============================================================================
