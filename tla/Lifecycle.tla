----------------------------- MODULE Lifecycle -----------------------------
(***************************************************************************)
(* The life of the process: main waits for mysqld, constructs the Database *)
(* and the Gateway (which takes over both network devices), starts the two *)
(* threads, joins them and deletes the objects.  A termination signal runs *)
(* exit_handle on the main thread between any two of main's steps; it      *)
(* writes to the termEventFD of each object, and the event loop of each    *)
(* thread ends at its own next chance.                                     *)
(*                                                                         *)
(* The two objects and the threads that run them are both named "gateway"  *)
(* and "db".  The settings of a network device outlive the process.        *)
(***************************************************************************)
EXTENDS Naturals, Sequences

CONSTANTS Signals,            \* signals exit_handle is installed for
          MaxSignals,         \* bound: signals in one life of the process
          MaxRuns,            \* bound: lives of the process
          MYSQL_RETRY_COUNT,  \* looks for mysqld.pid
          NormalFlags, GatewayFlags,   \* flags of a device: the host's, ours
          NormalMTU, MY_MTU   \* its MTU: the host's, ours

ASSUME LifecycleAssumption ==
    /\ MaxSignals \in Nat /\ MaxRuns \in Nat /\ MYSQL_RETRY_COUNT \in Nat \ {0}
    /\ NormalFlags # GatewayFlags

VARIABLES phase,        \* what main executes next, or how the process ended
          fail,         \* main's count of failed looks for mysqld
          object,       \* the pointers `gateway` and `db`
          thread,       \* what each thread executes next
          termEventFD,  \* counter of each object's eventfd
          termAdded,    \* objects whose term_event is registered (one shot)
          gotterm,      \* objects whose event base has event_gotterm set
          handlers,     \* activations of exit_handle, innermost last
          syslogLock,   \* the lock inside syslog is held by the main thread
          signals,      \* signals so far
          runs,         \* lives of the process so far
          flags, mtu,   \* of the devices, as the kernel has them
          prevFlag,     \* Device::prevFlag
          found         \* history: the settings this process started on

vars == <<phase, fail, object, thread, termEventFD, termAdded, gotterm, handlers,
          syslogLock, signals, runs, flags, mtu, prevFlag, found>>

Object == {"gateway", "db"}
Dev == {"in", "out"}
Flags == {NormalFlags, GatewayFlags}
MTUs == {NormalMTU, MY_MTU}

(* main's statements in order, and the ends of the process: main returned, *)
(* exit(1), killed, or a call through a pointer to no object.              *)
Starting == {"wait", "database", "openIn", "openOut", "gateway"}
Serving == {"load", "startDb", "startGateway", "joinGateway", "joinDb"}
Stopping == {"closeIn", "closeOut", "freeGateway", "freeDb", "log"}
Ended == {"done", "exited", "killed", "faulted"}

Running(o) == thread[o] \in {"test", "enter", "loop"}

(* Type invariant, by part of the state.                                   *)
MainTypeOK ==
    /\ phase \in Starting \cup Serving \cup Stopping \cup Ended
    /\ fail \in 0 .. MYSQL_RETRY_COUNT
    /\ phase = "wait" => fail < MYSQL_RETRY_COUNT
    /\ runs \in Nat

LoopsTypeOK ==
    /\ object \in [Object -> {"null", "live", "deleted"}]
    /\ thread \in [Object -> {"none", "test", "enter", "loop", "ended"}]
    /\ termEventFD \in [Object -> Nat]
    /\ termAdded \subseteq Object
    /\ gotterm \subseteq Object

SignalTypeOK ==
    /\ handlers \in Seq([sig : Signals, at : {"syslog", "logging", "gateway", "db"}])
    /\ syslogLock \in BOOLEAN
    /\ signals \in Nat

DeviceTypeOK ==
    /\ flags \in [Dev -> Flags]
    /\ prevFlag \in [Dev -> Flags]
    /\ mtu \in [Dev -> MTUs]
    /\ found \in [flags : [Dev -> Flags], mtu : [Dev -> MTUs]]

TypeOK == MainTypeOK /\ LoopsTypeOK /\ SignalTypeOK /\ DeviceTypeOK

device == <<flags, mtu, prevFlag>>
loops == <<thread, termEventFD, termAdded, gotterm>>
onSignal == <<handlers, syslogLock, signals>>

Init == /\ phase = "wait"
        /\ fail = 0
        /\ object = [o \in Object |-> "null"]
        /\ thread = [o \in Object |-> "none"]
        /\ termEventFD = [o \in Object |-> 0]
        /\ termAdded = {}
        /\ gotterm = {}
        /\ handlers = <<>>
        /\ syslogLock = FALSE
        /\ signals = 0
        /\ runs = 1
        /\ flags = [d \in Dev |-> NormalFlags]
        /\ mtu = [d \in Dev |-> NormalMTU]
        /\ prevFlag = [d \in Dev |-> NormalFlags]
        /\ found = [flags |-> flags, mtu |-> mtu]
-----------------------------------------------------------------------------
(* main.  It runs only while no signal handler does.                       *)

Main(from) == /\ phase = from
              /\ handlers = <<>>
              /\ UNCHANGED <<onSignal, runs, found>>

Goto(to) == phase' = to

(* Variant: one more look than there are tries. *)
WaitForMysqldLate ==
    /\ Main("wait")
    /\ \/ Goto("database") /\ UNCHANGED fail
       \/ /\ fail' = fail + 1
          /\ Goto(IF fail > MYSQL_RETRY_COUNT THEN "exited" ELSE "wait")
    /\ UNCHANGED <<object, loops, device>>

(* The pid file is there, or one more try has failed; after the last one   *)
(* the process gives up.                                                   *)
WaitForMysqld ==
    /\ Main("wait")
    /\ \/ Goto("database") /\ UNCHANGED fail
       \/ /\ fail' = fail + 1
          /\ Goto(IF fail + 1 >= MYSQL_RETRY_COUNT THEN "exited" ELSE "wait")
    /\ UNCHANGED <<object, loops, device>>

(* A constructor returns: its termEventFD is there, term_event registered. *)
Construct(o, to) == /\ object' = [object EXCEPT ![o] = "live"]
                    /\ termEventFD' = [termEventFD EXCEPT ![o] = 0]
                    /\ termAdded' = termAdded \cup {o}
                    /\ gotterm' = gotterm \ {o}
                    /\ Goto(to)
                    /\ UNCHANGED <<fail, thread, device>>

NewDatabase == Main("database") /\ Construct("db", "openIn")

NewGateway == Main("gateway") /\ Construct("gateway", "load")

(* Connecting, preparing statements and creating eventfds may fail.        *)
ConstructorFails == /\ \/ Main("database") \/ Main("gateway")
                    /\ Goto("exited")
                    /\ UNCHANGED <<fail, object, loops, device>>

(* Variant: prevFlag is read back after the flags are set. *)
OpenDeviceLateSave(d, from, to) ==
    /\ Main(from)
    /\ prevFlag' = [prevFlag EXCEPT ![d] = GatewayFlags]
    /\ flags' = [flags EXCEPT ![d] = GatewayFlags]
    /\ mtu' = [mtu EXCEPT ![d] = MY_MTU]
    /\ Goto(to)
    /\ UNCHANGED <<fail, object, loops>>

(* Device::Device.                                                         *)
OpenDevice(d, from, to) ==
    /\ Main(from)
    /\ prevFlag' = [prevFlag EXCEPT ![d] = flags[d]]
    /\ flags' = [flags EXCEPT ![d] = GatewayFlags]
    /\ mtu' = [mtu EXCEPT ![d] = MY_MTU]
    /\ Goto(to)
    /\ UNCHANGED <<fail, object, loops>>

(* A call of the constructor fails: before the flags are set, before the   *)
(* MTU is set, or after both.                                              *)
OpenFails(d, from) ==
    /\ Main(from)
    /\ \E set \in {{}, {"flags"}, {"flags", "mtu"}} :
           /\ flags' = IF "flags" \in set THEN [flags EXCEPT ![d] = GatewayFlags]
                                          ELSE flags
           /\ mtu' = IF "mtu" \in set THEN [mtu EXCEPT ![d] = MY_MTU] ELSE mtu
    /\ Goto("exited")
    /\ UNCHANGED <<fail, object, loops, prevFlag>>

(* Both tables are read and queued (module System); a query may throw, and *)
(* nothing catches it.                                                     *)
Load == /\ Main("load")
        /\ Goto("startDb") \/ Goto("exited")
        /\ UNCHANGED <<fail, object, loops, device>>

StartThread(o, from, to) == /\ Main(from)
                            /\ thread' = [thread EXCEPT ![o] = "test"]
                            /\ Goto(to)
                            /\ UNCHANGED <<fail, object, termEventFD, termAdded,
                                           gotterm, device>>

(* Variant: the join does not wait. *)
JoinAtOnce(o, from, to) == /\ Main(from)
                           /\ Goto(to)
                           /\ UNCHANGED <<fail, object, loops, device>>

Join(o, from, to) == /\ Main(from)
                     /\ thread[o] = "ended"
                     /\ Goto(to)
                     /\ UNCHANGED <<fail, object, loops, device>>

(* Device::~Device, called by ~Gateway.                                    *)
CloseDevice(d, from, to) == /\ Main(from)
                            /\ flags' = [flags EXCEPT ![d] = prevFlag[d]]
                            /\ Goto(to)
                            /\ UNCHANGED <<fail, object, loops, mtu, prevFlag>>

(* The memory is given back; the pointer keeps its value.                  *)
Free(o, from, to) == /\ Main(from)
                     /\ object' = [object EXCEPT ![o] = "deleted"]
                     /\ Goto(to)
                     /\ UNCHANGED <<fail, loops, device>>

Return == /\ Main("log")
          /\ Goto("done")
          /\ UNCHANGED <<fail, object, loops, device>>

MainStep == \/ WaitForMysqld
            \/ NewDatabase \/ ConstructorFails
            \/ OpenDevice("in", "openIn", "openOut") \/ OpenFails("in", "openIn")
            \/ OpenDevice("out", "openOut", "gateway") \/ OpenFails("out", "openOut")
            \/ NewGateway
            \/ Load
            \/ StartThread("db", "startDb", "startGateway")
            \/ StartThread("gateway", "startGateway", "joinGateway")
            \/ Join("gateway", "joinGateway", "joinDb")
            \/ Join("db", "joinDb", "closeIn")
            \/ CloseDevice("in", "closeIn", "closeOut")
            \/ CloseDevice("out", "closeOut", "freeGateway")
            \/ Free("gateway", "freeGateway", "freeDb")
            \/ Free("db", "freeDb", "log")
            \/ Return
-----------------------------------------------------------------------------
(* exit_handle.  A signal is held back while its own handler runs, but the *)
(* handler may be interrupted by another signal.                           *)

Signal(s) ==
    /\ phase \notin Ended
    /\ signals < MaxSignals
    /\ \A i \in DOMAIN handlers : handlers[i].sig # s
    /\ handlers' = Append(handlers, [sig |-> s, at |-> "syslog"])
    /\ signals' = signals + 1
    /\ UNCHANGED <<phase, fail, object, loops, syslogLock, runs, device, found>>

Handler(at) == /\ phase \notin Ended
               /\ handlers # <<>>
               /\ handlers[Len(handlers)].at = at
               /\ UNCHANGED <<fail, object, thread, termAdded, signals,
                              runs, device, found>>

Then(at) == handlers' = [handlers EXCEPT ![Len(handlers)].at = at]

(* syslog(LOG_INFO, "Exiting...\n"): the lock is not recursive.            *)
EnterSyslog == /\ Handler("syslog")
               /\ ~syslogLock
               /\ syslogLock' = TRUE
               /\ Then("logging")
               /\ UNCHANGED <<phase, termEventFD, gotterm>>

LeaveSyslog == /\ Handler("logging")
               /\ syslogLock' = FALSE
               /\ Then("gateway")
               /\ UNCHANGED <<phase, termEventFD, gotterm>>

(* Variant: the handler ends the loop itself. *)
terminateDirectly(o) == /\ gotterm' = gotterm \cup {o}
                        /\ UNCHANGED termEventFD

(* Gateway::terminate and Database::terminate.                             *)
terminate(o) == /\ termEventFD' = [termEventFD EXCEPT ![o] = @ + 1]
                /\ UNCHANGED gotterm

(* A call through a null pointer, or one to a deleted object, ends the     *)
(* process or leaves it undefined.                                         *)
CallTerminate(o, rest) ==
    /\ Handler(o)
    /\ IF object[o] = "live"
       THEN terminate(o) /\ handlers' = rest /\ UNCHANGED phase
       ELSE Goto("faulted") /\ UNCHANGED <<termEventFD, gotterm, handlers>>
    /\ UNCHANGED syslogLock

HandlerStep ==
    \/ EnterSyslog
    \/ LeaveSyslog
    \/ CallTerminate("gateway", [handlers EXCEPT ![Len(handlers)].at = "db"])
    \/ CallTerminate("db", SubSeq(handlers, 1, Len(handlers) - 1))
-----------------------------------------------------------------------------
(* A thread: while(!event_base_got_exit(evbase)) event_base_loop(evbase).  *)

Thread(o, at) == /\ phase \notin Ended
                 /\ thread[o] = at
                 /\ UNCHANGED <<phase, fail, object, onSignal, runs, device, found>>

Continue(o, at) == thread' = [thread EXCEPT ![o] = at]

TestExit(o) == /\ Thread(o, "test")
               /\ Continue(o, IF o \in gotterm THEN "ended" ELSE "enter")
               /\ UNCHANGED <<termEventFD, termAdded, gotterm>>

(* event_base_loop clears event_gotterm first.                             *)
EnterLoop(o) == /\ Thread(o, "enter")
                /\ gotterm' = gotterm \ {o}
                /\ Continue(o, "loop")
                /\ UNCHANGED <<termEventFD, termAdded>>

TermReadable(o) == termEventFD[o] > 0 /\ o \in termAdded

(* terminate_gateway, terminate_database: the counter is read and          *)
(* event_base_loopexit makes the loop return after this turn.              *)
terminate_handler(o) == /\ Thread(o, "loop")
                        /\ o \notin gotterm
                        /\ TermReadable(o)
                        /\ termEventFD' = [termEventFD EXCEPT ![o] = 0]
                        /\ termAdded' = termAdded \ {o}
                        /\ gotterm' = gotterm \cup {o}
                        /\ UNCHANGED thread

(* The loop returns when it was told to; the gateway's also when nothing   *)
(* is readable (EVLOOP_NONBLOCK), while the database's waits.              *)
LeaveLoop(o) == /\ Thread(o, "loop")
                /\ o \in gotterm \/ (o = "gateway" /\ ~TermReadable(o))
                /\ Continue(o, "test")
                /\ UNCHANGED <<termEventFD, termAdded, gotterm>>

ThreadStep(o) == TestExit(o) \/ EnterLoop(o) \/ terminate_handler(o) \/ LeaveLoop(o)

(* create_dhcp exits on an SQL error, on the database's thread.            *)
HandlerExits == /\ phase \notin Ended
                /\ thread["db"] = "loop"
                /\ Goto("exited")
                /\ UNCHANGED <<fail, object, loops, onSignal, runs, device, found>>
-----------------------------------------------------------------------------
Kill == /\ phase \notin Ended
        /\ Goto("killed")
        /\ UNCHANGED <<fail, object, loops, onSignal, runs, device, found>>

(* The next life of the program, on the devices as they are.               *)
Restart == /\ phase \in Ended
           /\ runs < MaxRuns
           /\ runs' = runs + 1
           /\ Goto("wait")
           /\ fail' = 0
           /\ object' = [o \in Object |-> "null"]
           /\ thread' = [o \in Object |-> "none"]
           /\ termEventFD' = [o \in Object |-> 0]
           /\ termAdded' = {}
           /\ gotterm' = {}
           /\ handlers' = <<>>
           /\ syslogLock' = FALSE
           /\ signals' = 0
           /\ found' = [flags |-> flags, mtu |-> mtu]
           /\ UNCHANGED device

Next == \/ MainStep \/ HandlerStep
        \/ \E o \in Object : ThreadStep(o)
        \/ \E s \in Signals : Signal(s)
        \/ HandlerExits \/ Kill \/ Restart

Spec == Init /\ [][Next]_vars
-----------------------------------------------------------------------------
(* The threads call each other's objects (gateway.cpp:546, database.cpp:   *)
(* 311), so as long as one of them runs both objects exist (main.cpp:      *)
(* 310-314).                                                               *)
ThreadsUseLiveObjects ==
    phase \notin Ended
        => \A o \in Object : Running(o) => \A p \in Object : object[p] = "live"

(* main's progress against objects and threads: with it the above is       *)
(* inductive.                                                              *)
PhaseInv ==
    /\ phase \in Starting \cup {"load", "startDb"}
           => \A o \in Object : thread[o] = "none"
    /\ phase = "startGateway" => thread["gateway"] = "none"
    /\ phase \in {"openIn", "openOut", "gateway"} => object["db"] = "live"
    /\ phase \in Serving \cup {"closeIn", "closeOut", "freeGateway"}
           => \A o \in Object : object[o] = "live"
    /\ phase \in {"joinDb"} \cup Stopping => thread["gateway"] = "ended"
    /\ phase \in Stopping => thread["db"] = "ended"

(* main's progress against the devices, behind FlagsRestored.              *)
DeviceInv ==
    /\ phase \in {"wait", "database", "openIn"} => flags = found.flags
    /\ phase = "openOut" => /\ flags["out"] = found.flags["out"]
                            /\ prevFlag["in"] = found.flags["in"]
    /\ phase \in {"gateway", "closeIn", "closeOut"} \cup Serving
           => prevFlag = found.flags
    /\ phase = "closeOut" => flags["in"] = found.flags["in"]
    /\ phase \in {"freeGateway", "freeDb", "log", "done"} => flags = found.flags

(* Once exit_handle has run to its end while both objects were there, the  *)
(* process ends (main.cpp:39-40, gateway.cpp:372, database.cpp:425): the   *)
(* request is not lost when it comes before a thread has entered its loop. *)
TerminationIsKept ==
    (phase \in Serving /\ signals > 0 /\ handlers = <<>>) ~> phase \in Ended

(* A process that returns from main leaves the flags of both devices as it *)
(* found them (socket.cpp:58, 138).                                        *)
FlagsRestored == phase = "done" => flags = found.flags
-----------------------------------------------------------------------------
(* What the source says and the code does not keep.                        *)

(* "Exiting..." (main.cpp:36): the signal makes the process exit, in       *)
(* whatever phase it comes; the process neither faults nor hangs.          *)
SignalEndsProcess == handlers # <<>> ~> phase \in Ended \ {"faulted"}
=============================================================================
