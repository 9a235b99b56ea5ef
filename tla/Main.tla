------------------------------- MODULE Main --------------------------------
(***************************************************************************)
(* main as a whole: it reads its options (module Options) and, if it       *)
(* starts, lives through the wait for mysqld, construction, service and    *)
(* shutdown (module Lifecycle).  The operator restarts the program with    *)
(* the same options.                                                       *)
(***************************************************************************)
EXTENDS Lifecycle, Options

mainVars == <<vars, optionVars>>

MainInit == Init /\ OptionsInit

ReadOptions == OptionsNext /\ UNCHANGED vars

Started == cmdline = "start" /\ UNCHANGED optionVars

MainNext == ReadOptions \/ (Started /\ Next)

(* The kernel runs the main thread, in its handlers or outside, and both   *)
(* other threads; nothing is assumed of signals, kills and restarts.       *)
MainFairness == /\ WF_mainVars(Started /\ MainStep)
                /\ WF_mainVars(Started /\ HandlerStep)
                /\ \A o \in Object : WF_mainVars(Started /\ ThreadStep(o))

MainSpec == MainInit /\ [][MainNext]_mainVars /\ MainFairness
=============================================================================
