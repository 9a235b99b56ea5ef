---------------------------- MODULE MainProofs -----------------------------
(***************************************************************************)
(* Theorems about main: about the life of the process, for any set of      *)
(* signals, any number of them and of restarts, and any number of looks    *)
(* for mysqld; and about its options, for command lines of any length.     *)
(***************************************************************************)
EXTENDS Main, FiniteSetTheorems, TLAPS

Activation == [sig : Signals, at : {"syslog", "logging", "gateway", "db"}]

(* The steps of a signal handler keep the stack of activations well        *)
(* formed.                                                                 *)
LEMMA HandlersTyped ==
    ASSUME NEW h \in Seq(Activation), h # <<>>,
           NEW a \in {"syslog", "logging", "gateway", "db"}
    PROVE  /\ [h EXCEPT ![Len(h)].at = a] \in Seq(Activation)
           /\ SubSeq(h, 1, Len(h) - 1) \in Seq(Activation)
<1>1. Len(h) \in DOMAIN h /\ DOMAIN h = 1 .. Len(h) /\ Len(h) \in Nat
  OBVIOUS
<1>2. \A i \in 1 .. Len(h) : h[i] \in Activation
  OBVIOUS
<1>3. [h EXCEPT ![Len(h)].at = a] \in Seq(Activation)
  <2> DEFINE g == [h EXCEPT ![Len(h)].at = a]
  <2>1. DOMAIN g = 1 .. Len(h)
    BY <1>1
  <2>2. \A i \in 1 .. Len(h) : g[i] \in Activation
    BY <1>1, <1>2 DEF Activation
  <2>3. g = [i \in 1 .. Len(h) |-> g[i]]
    BY <2>1
  <2> QED
    BY <1>1, <2>2, <2>3
<1>4. SubSeq(h, 1, Len(h) - 1) \in Seq(Activation)
  BY <1>1, <1>2
<1> QED
  BY <1>3, <1>4

(* No handler runs when the process starts.                                *)
LEMMA NoActivation == <<>> \in Seq(Activation)
  OBVIOUS

(* main's position and its count of tries.                                 *)
LEMMA MainTyped == MainTypeOK /\ [Next]_vars => MainTypeOK'
<1> SUFFICES ASSUME MainTypeOK, [Next]_vars PROVE MainTypeOK'
  OBVIOUS
<1> USE LifecycleAssumption DEF MainTypeOK, Starting, Serving, Stopping, Ended, Goto
<1>1. CASE MainStep
  BY <1>1 DEF MainStep, Main, WaitForMysqld, NewDatabase, NewGateway, Construct,
     ConstructorFails, OpenDevice, OpenFails, Load, StartThread, Join, CloseDevice,
     Free, Return
<1>2. CASE HandlerStep
  BY <1>2 DEF HandlerStep, Handler, EnterSyslog, LeaveSyslog, CallTerminate
<1>3. ASSUME NEW o \in Object, ThreadStep(o) PROVE MainTypeOK'
  BY <1>3 DEF ThreadStep, TestExit, EnterLoop, terminate_handler, LeaveLoop, Thread
<1>4. ASSUME NEW s \in Signals, Signal(s) PROVE MainTypeOK'
  BY <1>4 DEF Signal
<1>5. CASE HandlerExits \/ Kill \/ Restart
  BY <1>5 DEF HandlerExits, Kill, Restart
<1>6. CASE UNCHANGED vars
  BY <1>6 DEF vars
<1> QED
  BY <1>1, <1>2, <1>3, <1>4, <1>5, <1>6 DEF Next

(* The objects and the event loops of the threads.                         *)
LEMMA LoopsTyped == LoopsTypeOK /\ [Next]_vars => LoopsTypeOK'
<1> SUFFICES ASSUME LoopsTypeOK, [Next]_vars PROVE LoopsTypeOK'
  OBVIOUS
<1> USE DEF LoopsTypeOK, Object, loops
<1>1. CASE NewDatabase
  BY <1>1 DEF NewDatabase, Construct
<1>2. CASE NewGateway
  BY <1>2 DEF NewGateway, Construct
<1>3. CASE UNCHANGED <<object, loops>>
  BY <1>3
<1>4. ASSUME NEW o \in Object, NEW f, NEW t, StartThread(o, f, t) PROVE LoopsTypeOK'
  BY <1>4 DEF StartThread
<1>5. ASSUME NEW o \in Object, NEW f, NEW t, Free(o, f, t) PROVE LoopsTypeOK'
  BY <1>5 DEF Free
<1>6. CASE MainStep
  <2>1. WaitForMysqld \/ ConstructorFails \/ Load \/ Return => UNCHANGED <<object, loops>>
    BY DEF WaitForMysqld, ConstructorFails, Load, Return
  <2>2. \A d, f, t : OpenDevice(d, f, t) \/ OpenFails(d, f) \/ CloseDevice(d, f, t)
                     \/ Join(d, f, t) => UNCHANGED <<object, loops>>
    BY DEF OpenDevice, OpenFails, CloseDevice, Join
  <2> QED
    BY <1>6, <1>1, <1>2, <1>3, <1>4, <1>5, <2>1, <2>2 DEF MainStep
<1>7. ASSUME NEW o \in Object, NEW r, CallTerminate(o, r) PROVE LoopsTypeOK'
  <2>1. UNCHANGED <<object, thread, termAdded, gotterm>>
    BY <1>7 DEF CallTerminate, Handler, terminate
  <2>2. termEventFD' = termEventFD
          \/ termEventFD' = [termEventFD EXCEPT ![o] = termEventFD[o] + 1]
    BY <1>7 DEF CallTerminate, terminate
  <2> QED
    BY <2>1, <2>2
<1>8. CASE HandlerStep
  <2>1. EnterSyslog \/ LeaveSyslog => UNCHANGED <<object, loops>>
    BY DEF EnterSyslog, LeaveSyslog, Handler
  <2> QED
    BY <1>8, <1>3, <1>7, <2>1 DEF HandlerStep
<1>9. ASSUME NEW o \in Object, ThreadStep(o) PROVE LoopsTypeOK'
  <2>1. CASE TestExit(o)
    BY <2>1 DEF TestExit, Thread, Continue
  <2>2. CASE EnterLoop(o)
    BY <2>2 DEF EnterLoop, Thread, Continue
  <2>3. CASE terminate_handler(o)
    BY <2>3 DEF terminate_handler, Thread
  <2>4. CASE LeaveLoop(o)
    BY <2>4 DEF LeaveLoop, Thread, Continue
  <2> QED
    BY <1>9, <2>1, <2>2, <2>3, <2>4 DEF ThreadStep
<1>10. CASE Restart
  BY <1>10 DEF Restart
<1>11. (\E s \in Signals : Signal(s)) \/ HandlerExits \/ Kill \/ UNCHANGED vars
          => UNCHANGED <<object, loops>>
  BY DEF Signal, HandlerExits, Kill, vars
<1> QED
  BY <1>3, <1>6, <1>8, <1>9, <1>10, <1>11 DEF Next

(* The activations of exit_handle.                                         *)
LEMMA SignalTyped == SignalTypeOK /\ [Next]_vars => SignalTypeOK'
<1> SUFFICES ASSUME SignalTypeOK, [Next]_vars PROVE SignalTypeOK'
  OBVIOUS
<1> USE DEF SignalTypeOK, onSignal
<1>1. CASE UNCHANGED onSignal
  BY <1>1
<1>2. CASE HandlerStep
  <2> USE DEF Handler, Then
  <2>1. handlers \in Seq(Activation) /\ handlers # <<>> /\ signals' = signals
    BY <1>2 DEF Activation, HandlerStep, EnterSyslog, LeaveSyslog, CallTerminate
  <2>2. \A a \in {"syslog", "logging", "gateway", "db"} :
            [handlers EXCEPT ![Len(handlers)].at = a] \in Seq(Activation)
    BY <2>1, HandlersTyped
  <2>3. SubSeq(handlers, 1, Len(handlers) - 1) \in Seq(Activation)
    BY <2>1, HandlersTyped
  <2>4. CASE EnterSyslog \/ LeaveSyslog
    BY <2>1, <2>2, <2>4 DEF EnterSyslog, LeaveSyslog, Activation
  <2>5. ASSUME NEW o \in Object, NEW rest \in Seq(Activation), CallTerminate(o, rest)
        PROVE  SignalTypeOK'
    BY <2>1, <2>5 DEF CallTerminate, Activation
  <2> QED
    BY <1>2, <2>2, <2>3, <2>4, <2>5 DEF HandlerStep, Object
<1>3. ASSUME NEW s \in Signals, Signal(s) PROVE SignalTypeOK'
  BY <1>3 DEF Signal
<1>4. CASE Restart
  <2>1. handlers' = <<>> /\ syslogLock' = FALSE /\ signals' = 0
    BY <1>4 DEF Restart
  <2> QED
    BY <2>1, NoActivation DEF Activation
<1>5. MainStep => UNCHANGED onSignal
  BY DEF MainStep, Main, WaitForMysqld, NewDatabase, NewGateway,
     ConstructorFails, OpenDevice, OpenFails, Load, StartThread, Join, CloseDevice,
     Free, Return
<1>6. (\E o \in Object : ThreadStep(o)) \/ HandlerExits \/ Kill \/ UNCHANGED vars
          => UNCHANGED onSignal
  BY DEF ThreadStep, TestExit, EnterLoop, terminate_handler, LeaveLoop, Thread,
         HandlerExits, Kill, vars
<1> QED
  BY <1>1, <1>2, <1>3, <1>4, <1>5, <1>6 DEF Next

(* The devices' settings.                                                  *)
LEMMA DeviceTyped == DeviceTypeOK /\ [Next]_vars => DeviceTypeOK'
<1> SUFFICES ASSUME DeviceTypeOK, [Next]_vars PROVE DeviceTypeOK'
  OBVIOUS
<1> USE DEF DeviceTypeOK, Dev, Flags, MTUs, device
<1>1. CASE UNCHANGED <<device, found>>
  BY <1>1
<1>2. ASSUME NEW d \in Dev, NEW f, NEW t, OpenDevice(d, f, t) PROVE DeviceTypeOK'
  BY <1>2 DEF OpenDevice, Main
<1>3. ASSUME NEW d \in Dev, NEW f, OpenFails(d, f) PROVE DeviceTypeOK'
  BY <1>3 DEF OpenFails, Main
<1>4. ASSUME NEW d \in Dev, NEW f, NEW t, CloseDevice(d, f, t) PROVE DeviceTypeOK'
  BY <1>4 DEF CloseDevice, Main
<1>5. CASE MainStep
  <2>1. \A o, f, t : \/ WaitForMysqld \/ NewDatabase \/ NewGateway
                     \/ ConstructorFails \/ Load \/ Return
                     \/ StartThread(o, f, t) \/ Join(o, f, t) \/ Free(o, f, t)
                     => UNCHANGED <<device, found>>
    BY DEF Main, WaitForMysqld, NewDatabase, NewGateway, Construct,
       ConstructorFails, Load, StartThread, Join, Free, Return
  <2> QED
    BY <1>5, <1>1, <1>2, <1>3, <1>4, <2>1 DEF MainStep
<1>6. CASE Restart
  BY <1>6 DEF Restart
<1>7. \/ HandlerStep \/ (\E o \in Object : ThreadStep(o))
      \/ (\E s \in Signals : Signal(s)) \/ HandlerExits \/ Kill \/ UNCHANGED vars
      => UNCHANGED <<device, found>>
  BY DEF HandlerStep, Handler, EnterSyslog, LeaveSyslog, CallTerminate, ThreadStep,
         TestExit, EnterLoop, terminate_handler, LeaveLoop, Thread, Signal,
         HandlerExits, Kill, vars
<1> QED
  BY <1>1, <1>5, <1>6, <1>7 DEF Next

(* Type correctness of the life cycle; in particular the wait for mysqld   *)
(* (main.cpp:254-270) stops at the last try.                               *)
THEOREM LifecycleTyped == Spec => []TypeOK
<1>1. Init => MainTypeOK
  BY LifecycleAssumption DEF Init, MainTypeOK, Starting
<1>2. Init => LoopsTypeOK
  BY DEF Init, LoopsTypeOK, Object
<1>3. Init => DeviceTypeOK
  BY DEF Init, DeviceTypeOK, Dev, Flags, MTUs
<1>4. Init => SignalTypeOK
  <2>1. Init => handlers \in Seq(Activation) /\ signals \in Nat
    BY NoActivation DEF Init
  <2>2. Init => syslogLock \in BOOLEAN
    BY DEF Init
  <2> QED
    BY <2>1, <2>2 DEF SignalTypeOK, Activation
<1> QED
  BY <1>1, <1>2, <1>3, <1>4, MainTyped, LoopsTyped, SignalTyped, DeviceTyped, PTL
     DEF Spec, TypeOK

(* The phases of main against the objects and the threads.                 *)
LEMMA PhaseStep == MainTypeOK /\ LoopsTypeOK /\ PhaseInv /\ [Next]_vars => PhaseInv'
<1> SUFFICES ASSUME MainTypeOK, LoopsTypeOK, PhaseInv, [Next]_vars PROVE PhaseInv'
  OBVIOUS
<1> USE DEF PhaseInv, Object, Starting, Serving, Stopping, Ended, Goto, loops
<1>1. CASE WaitForMysqld \/ ConstructorFails \/ Load \/ Return
  BY <1>1 DEF WaitForMysqld, ConstructorFails, Load, Return, Main
<1>2. CASE NewDatabase \/ NewGateway
  <2>1. CASE NewDatabase
    BY <2>1 DEF NewDatabase, Construct, Main, LoopsTypeOK
  <2>2. CASE NewGateway
    BY <2>2 DEF NewGateway, Construct, Main, LoopsTypeOK
  <2> QED
    BY <1>2, <2>1, <2>2
<1>3. CASE OpenDevice("in", "openIn", "openOut") \/ OpenFails("in", "openIn")
           \/ OpenDevice("out", "openOut", "gateway") \/ OpenFails("out", "openOut")
  BY <1>3 DEF OpenDevice, OpenFails, Main
<1>4. CASE StartThread("db", "startDb", "startGateway")
  BY <1>4 DEF StartThread, Main, LoopsTypeOK
<1>5. CASE StartThread("gateway", "startGateway", "joinGateway")
  BY <1>5 DEF StartThread, Main, LoopsTypeOK
<1>6. CASE Join("gateway", "joinGateway", "joinDb") \/ Join("db", "joinDb", "closeIn")
  BY <1>6 DEF Join, Main
<1>7. CASE CloseDevice("in", "closeIn", "closeOut")
           \/ CloseDevice("out", "closeOut", "freeGateway")
  BY <1>7 DEF CloseDevice, Main
<1>8. CASE Free("gateway", "freeGateway", "freeDb") \/ Free("db", "freeDb", "log")
  BY <1>8 DEF Free, Main
<1>9. CASE MainStep
  BY <1>9, <1>1, <1>2, <1>3, <1>4, <1>5, <1>6, <1>7, <1>8 DEF MainStep
<1>10. CASE UNCHANGED <<object, thread>> /\ (phase' = phase \/ phase' \in Ended)
  BY <1>10
<1>11. \/ HandlerStep \/ (\E s \in Signals : Signal(s)) \/ HandlerExits \/ Kill
       \/ UNCHANGED vars
       => UNCHANGED <<object, thread>> /\ (phase' = phase \/ phase' \in Ended)
  BY DEF HandlerStep, Handler, EnterSyslog, LeaveSyslog, CallTerminate, Signal,
         HandlerExits, Kill, vars
<1>12. ASSUME NEW o \in Object, ThreadStep(o) PROVE PhaseInv'
  <2>1. UNCHANGED <<object, phase>> /\ Running(o)
    BY <1>12 DEF ThreadStep, TestExit, EnterLoop, terminate_handler, LeaveLoop, Thread,
                 Running
  <2>2. thread' = thread \/ \E t : thread' = [thread EXCEPT ![o] = t]
    BY <1>12 DEF ThreadStep, TestExit, EnterLoop, terminate_handler, LeaveLoop,
                 Continue
  <2> QED
    BY <2>1, <2>2 DEF Running, LoopsTypeOK
<1>13. CASE Restart
  BY <1>13 DEF Restart
<1> QED
  BY <1>9, <1>10, <1>11, <1>12, <1>13 DEF Next

(* As long as one of the threads runs, both objects exist, whatever the    *)
(* signals and failures: main deletes the gateway only after it has joined *)
(* both threads (main.cpp:310-314).                                        *)
THEOREM ObjectsOutliveThreads == Spec => []ThreadsUseLiveObjects
<1>1. Init => PhaseInv
  BY DEF Init, PhaseInv, Object, Starting, Serving, Stopping
<1>2. TypeOK /\ PhaseInv => ThreadsUseLiveObjects
  BY DEF TypeOK, MainTypeOK, PhaseInv, ThreadsUseLiveObjects, Running, Object,
         Starting, Serving, Stopping, Ended
<1>3. TypeOK => MainTypeOK /\ LoopsTypeOK
  BY DEF TypeOK
<1> QED
  BY <1>1, <1>2, <1>3, PhaseStep, LifecycleTyped, PTL DEF Spec

(* The phases of main against the devices.                                 *)
LEMMA DeviceStep == MainTypeOK /\ DeviceTypeOK /\ DeviceInv /\ [Next]_vars => DeviceInv'
<1> SUFFICES ASSUME MainTypeOK, DeviceTypeOK, DeviceInv, [Next]_vars PROVE DeviceInv'
  OBVIOUS
<1> USE DEF DeviceInv, Dev, Starting, Serving, Stopping, Ended, Goto, device
<1>1. CASE OpenDevice("in", "openIn", "openOut")
  BY <1>1 DEF OpenDevice, Main, DeviceTypeOK
<1>2. CASE OpenDevice("out", "openOut", "gateway")
  BY <1>2 DEF OpenDevice, Main, DeviceTypeOK
<1>3. CASE OpenFails("in", "openIn") \/ OpenFails("out", "openOut")
  BY <1>3 DEF OpenFails, Main
<1>4. CASE CloseDevice("in", "closeIn", "closeOut")
  BY <1>4 DEF CloseDevice, Main, DeviceTypeOK
<1>5. CASE CloseDevice("out", "closeOut", "freeGateway")
  BY <1>5 DEF CloseDevice, Main, DeviceTypeOK
<1>6. CASE WaitForMysqld \/ ConstructorFails \/ Load \/ Return \/ NewDatabase
           \/ NewGateway
  BY <1>6 DEF WaitForMysqld, ConstructorFails, Load, Return, NewDatabase, NewGateway,
              Construct, Main
<1>7. CASE \/ StartThread("db", "startDb", "startGateway")
           \/ StartThread("gateway", "startGateway", "joinGateway")
           \/ Join("gateway", "joinGateway", "joinDb")
           \/ Join("db", "joinDb", "closeIn")
           \/ Free("gateway", "freeGateway", "freeDb")
           \/ Free("db", "freeDb", "log")
  BY <1>7 DEF StartThread, Join, Free, Main
<1>8. CASE MainStep
  BY <1>8, <1>1, <1>2, <1>3, <1>4, <1>5, <1>6, <1>7 DEF MainStep
<1>9. CASE UNCHANGED <<device, found>> /\ phase' \in {phase} \cup (Ended \ {"done"})
  BY <1>9
<1>10. \/ HandlerStep \/ (\E o \in Object : ThreadStep(o))
       \/ (\E s \in Signals : Signal(s)) \/ HandlerExits \/ Kill \/ UNCHANGED vars
       => UNCHANGED <<device, found>> /\ phase' \in {phase} \cup (Ended \ {"done"})
  BY DEF HandlerStep, Handler, EnterSyslog, LeaveSyslog, CallTerminate, ThreadStep,
         TestExit, EnterLoop, terminate_handler, LeaveLoop, Thread, Signal,
         HandlerExits, Kill, vars
<1>11. CASE Restart
  BY <1>11 DEF Restart
<1> QED
  BY <1>8, <1>9, <1>10, <1>11 DEF Next

(* A process that returns from main leaves the devices' flags as it found  *)
(* them, whatever happened to the process before it.                       *)
THEOREM DevicesGivenBack == Spec => []FlagsRestored
<1>1. Init => DeviceInv
  BY DEF Init, DeviceInv, Serving
<1>2. DeviceInv => FlagsRestored
  BY DEF DeviceInv, FlagsRestored
<1>3. TypeOK => MainTypeOK /\ DeviceTypeOK
  BY DEF TypeOK
<1> QED
  BY <1>1, <1>2, <1>3, DeviceStep, LifecycleTyped, PTL DEF Spec
-----------------------------------------------------------------------------
(* The options.                                                            *)

LEMMA SevenRequired == IsFiniteSet(Required) /\ Cardinality(Required) = 7
<1> DEFINE A == {"inside"}
           B == A \cup {"outside"}
           C == B \cup {"db-user"}
           D == C \cup {"db-pass"}
           E == D \cup {"gateway"}
           F == E \cup {"subnet"}
           G == F \cup {"dns"}
<1>1. IsFiniteSet(A) /\ Cardinality(A) = 1
  BY FS_Singleton
<1>2. IsFiniteSet(B) /\ Cardinality(B) = 2
  <2>1. "outside" \notin A
    OBVIOUS
  <2> HIDE DEF A
  <2> QED
    BY <1>1, <2>1, FS_AddElement
<1>3. IsFiniteSet(C) /\ Cardinality(C) = 3
  <2>1. "db-user" \notin B
    OBVIOUS
  <2> HIDE DEF B
  <2> QED
    BY <1>2, <2>1, FS_AddElement
<1>4. IsFiniteSet(D) /\ Cardinality(D) = 4
  <2>1. "db-pass" \notin C
    OBVIOUS
  <2> HIDE DEF C
  <2> QED
    BY <1>3, <2>1, FS_AddElement
<1>5. IsFiniteSet(E) /\ Cardinality(E) = 5
  <2>1. "gateway" \notin D
    OBVIOUS
  <2> HIDE DEF D
  <2> QED
    BY <1>4, <2>1, FS_AddElement
<1>6. IsFiniteSet(F) /\ Cardinality(F) = 6
  <2>1. "subnet" \notin E
    OBVIOUS
  <2> HIDE DEF E
  <2> QED
    BY <1>5, <2>1, FS_AddElement
<1>7. IsFiniteSet(G) /\ Cardinality(G) = 7
  <2>1. "dns" \notin F
    OBVIOUS
  <2> HIDE DEF F
  <2> QED
    BY <1>6, <2>1, FS_AddElement
<1>8. Required = G
  BY DEF Required
<1> QED
  BY <1>7, <1>8

(* An option that is new leaves one less missing; one that is not, or that *)
(* is not required, as many.                                               *)
LEMMA OneLessMissing ==
    ASSUME NEW g, NEW o
    PROVE  /\ IsFiniteSet(Required \ g) /\ Cardinality(Required \ g) \in Nat
           /\ o \in Required \ g => Cardinality(Required \ (g \cup {o}))
                                        = Cardinality(Required \ g) - 1
           /\ o \notin Required \ g => Required \ (g \cup {o}) = Required \ g
<1>1. IsFiniteSet(Required \ g)
  BY SevenRequired, FS_Subset
<1>2. Cardinality(Required \ g) \in Nat
  BY <1>1, FS_CardinalityType
<1>3. Required \ (g \cup {o}) = (Required \ g) \ {o}
  OBVIOUS
<1>4. o \in Required \ g => Cardinality((Required \ g) \ {o}) = Cardinality(Required \ g) - 1
  BY <1>1, FS_RemoveElement
<1> QED
  BY <1>1, <1>2, <1>3, <1>4

LEMMA CountStep ==
    ASSUME MayRepeat \cap Required \subseteq {"dns"}, CountInv, [OptionsNext]_optionVars
    PROVE  CountInv'
<1>1. ASSUME NEW o \in Required, Take(o) PROVE CountInv'
  <2>1. /\ o # "dns" /\ o \notin given /\ cmdline = "reading" /\ cmdline' = cmdline
        /\ given' = given \cup {o} /\ neccessary' = neccessary - 1 /\ dnsList' = dnsList
    BY <1>1 DEF Take, Arg
  <2>2. neccessary' = Cardinality(Required \ given')
    BY <2>1, OneLessMissing DEF CountInv
  <2> QED
    BY <2>1, <2>2 DEF CountInv
<1>2. CASE TakeDNS
  <2>1. /\ cmdline = "reading" /\ cmdline' = cmdline /\ given' = given \cup {"dns"}
        /\ neccessary' = (IF dnsList = 0 THEN neccessary - 1 ELSE neccessary)
        /\ dnsList' = dnsList + 1
    BY <1>2 DEF TakeDNS, Arg
  <2>2. neccessary' = Cardinality(Required \ given')
    <3>1. CASE dnsList = 0
      <4>1. "dns" \in Required \ given
        BY <3>1 DEF CountInv, Required
      <4> QED
        BY <2>1, <3>1, <4>1, OneLessMissing DEF CountInv
    <3>2. CASE dnsList # 0
      <4>1. "dns" \notin Required \ given
        BY <3>2 DEF CountInv
      <4> QED
        BY <2>1, <3>2, <4>1, OneLessMissing DEF CountInv
    <3> QED
      BY <3>1, <3>2
  <2>3. dnsList' \in Nat /\ dnsList' # 0
    BY <2>1 DEF CountInv
  <2> QED
    BY <2>1, <2>2, <2>3 DEF CountInv
<1>3. ASSUME NEW o \in Others, Arg(o), UNCHANGED <<neccessary, dnsList>> PROVE CountInv'
  <2>1. o \notin Required /\ o # "dns"
    BY DEF Others, Required
  <2>2. Required \ given' = Required \ given
    BY <1>3, <2>1, OneLessMissing DEF Arg
  <2> QED
    BY <1>3, <2>1, <2>2 DEF CountInv, Arg
<1>4. CASE TakeTimeout \/ TakeDaemon \/ TakeName
  BY <1>3, <1>4 DEF TakeTimeout, TakeDaemon, TakeName, Others
<1>5. CASE Unknown \/ EndOfOptions
  BY <1>5 DEF Unknown, EndOfOptions, CountInv
<1>6. CASE UNCHANGED optionVars
  BY <1>6 DEF optionVars, CountInv
<1> QED
  BY <1>1, <1>2, <1>4, <1>5, <1>6 DEF OptionsNext

(* main starts only with all it needs and refuses only what is incomplete, *)
(* for command lines of any length and in any order, with any number of    *)
(* name servers, if no other required option is repeated (main.cpp:207-    *)
(* 211).                                                                   *)
THEOREM StartsComplete ==
    ASSUME MayRepeat \cap Required \subseteq {"dns"}
    PROVE  OptionsSpec => []StartsWhenComplete
<1>1. OptionsInit => CountInv
  <2>1. Required \ {} = Required /\ "dns" \notin {}
    OBVIOUS
  <2> QED
    BY <2>1, SevenRequired DEF OptionsInit, CountInv
<1>2. CountInv /\ [OptionsNext]_optionVars => CountInv'
  BY CountStep
<1>3. CountInv => StartsWhenComplete
  <2> SUFFICES ASSUME CountInv PROVE StartsWhenComplete
    OBVIOUS
  <2>1. Cardinality(Required \ given) = 0 <=> Required \ given = {}
    BY SevenRequired, FS_Subset, FS_EmptySet
  <2>2. "dns" \in Required
    BY DEF Required
  <2> QED
    BY <2>1, <2>2 DEF CountInv, StartsWhenComplete
<1> QED
  BY <1>1, <1>2, <1>3, PTL DEF OptionsSpec
-----------------------------------------------------------------------------
(* main as a whole.                                                        *)

LEMMA MainImplements == MainSpec => Spec /\ OptionsSpec
<1>1. [MainNext]_mainVars => [Next]_vars /\ [OptionsNext]_optionVars
  BY Zenon DEF MainNext, mainVars, ReadOptions, Started
<1> QED
  BY <1>1, PTL DEF MainSpec, MainInit, Spec, OptionsSpec

(* From the first option to the last statement: main starts only when it   *)
(* may, its threads never use an object that is gone, and what it returns  *)
(* from has its flags again (main.cpp:207-211, 284-314).                   *)
THEOREM MainIsSafe ==
    ASSUME MayRepeat \cap Required \subseteq {"dns"}
    PROVE  MainSpec => [](/\ TypeOK /\ ThreadsUseLiveObjects /\ FlagsRestored
                          /\ StartsWhenComplete)
BY MainImplements, StartsComplete, LifecycleTyped, ObjectsOutliveThreads,
   DevicesGivenBack, PTL
=============================================================================
