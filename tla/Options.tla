------------------------------ MODULE Options ------------------------------
(***************************************************************************)
(* How main reads its command line and decides to start.  Seven options    *)
(* are required; main counts down from seven, once for each occurrence of  *)
(* one of them, and starts when the count is zero.  It then uses the       *)
(* variables of all seven, which without their option have no value.       *)
(***************************************************************************)
EXTENDS Integers, FiniteSets

CONSTANTS MaxArgs,       \* bound on the options of a command line
          MayRepeat,     \* options that may occur more than once
          Timeouts       \* values given with --timeout, not negative

Required == {"inside", "outside", "db-user", "db-pass", "gateway", "subnet", "dns"}

(* Options that main does not require.                                     *)
Others == {"db-name", "timeout", "daemon"}

ASSUME OptionsAssumption == /\ MaxArgs \in Nat /\ Timeouts \subseteq Nat
                            /\ MayRepeat \subseteq Required \cup Others

VARIABLES neccessary,    \* required options still missing, as main counts
          given,         \* the variables that have been assigned
          dnsList,       \* its length
          timeout,
          daemonize,
          args,          \* options read so far
          cmdline        \* "reading", "help", "missing", "failed", "start"

optionVars == <<neccessary, given, dnsList, timeout, daemonize, args, cmdline>>

OptionsInit == /\ neccessary = 7
               /\ given = {}
               /\ dnsList = 0
               /\ timeout = 10000
               /\ daemonize = FALSE
               /\ args = 0
               /\ cmdline = "reading"
-----------------------------------------------------------------------------
(* The next option on the command line is o.                               *)
Arg(o) == /\ cmdline = "reading" /\ args < MaxArgs
          /\ o \in given => o \in MayRepeat
          /\ args' = args + 1
          /\ given' = given \cup {o}
          /\ UNCHANGED cmdline

Take(o) == /\ o \in Required \ {"dns"}
           /\ Arg(o)
           /\ neccessary' = neccessary - 1
           /\ UNCHANGED <<dnsList, timeout, daemonize>>

(* Variant: every server counts. *)
TakeDNSEach == /\ Arg("dns")
               /\ neccessary' = neccessary - 1
               /\ dnsList' = dnsList + 1
               /\ UNCHANGED <<timeout, daemonize>>

(* --dns may be repeated; only the first server counts.                    *)
TakeDNS == /\ Arg("dns")
           /\ neccessary' = IF dnsList = 0 THEN neccessary - 1 ELSE neccessary
           /\ dnsList' = dnsList + 1
           /\ UNCHANGED <<timeout, daemonize>>

(* What is negative becomes the default.                                   *)
TakeTimeout == /\ Arg("timeout")
               /\ timeout' \in Timeouts \cup {10000}
               /\ UNCHANGED <<neccessary, dnsList, daemonize>>

TakeDaemon == /\ Arg("daemon")
              /\ daemonize' = TRUE
              /\ UNCHANGED <<neccessary, dnsList, timeout>>

(* db_name has a value before.                                             *)
TakeName == /\ Arg("db-name")
            /\ UNCHANGED <<neccessary, dnsList, timeout, daemonize>>

(* An option getopt_long does not know ends in help.                       *)
Unknown == /\ cmdline = "reading" /\ args < MaxArgs
           /\ cmdline' = "help"
           /\ UNCHANGED <<neccessary, given, dnsList, timeout, daemonize, args>>

(* The end of the options: if (neccessary), main gives up; as a daemon, it *)
(* goes on in the child, unless fork or setsid fails.                      *)
EndOfOptions ==
    /\ cmdline = "reading"
    /\ cmdline' \in IF neccessary # 0 THEN {"missing"}
               ELSE IF daemonize THEN {"start", "failed"} ELSE {"start"}
    /\ UNCHANGED <<neccessary, given, dnsList, timeout, daemonize, args>>

OptionsNext == \/ \E o \in Required : Take(o)
               \/ TakeDNS \/ TakeTimeout \/ TakeDaemon \/ TakeName
               \/ Unknown \/ EndOfOptions

OptionsSpec == OptionsInit /\ [][OptionsNext]_optionVars
-----------------------------------------------------------------------------
(* Main starts only with every variable it uses assigned, and gives up     *)
(* only when one is missing (main.cpp:207-211), however many name servers  *)
(* are listed among the other options and in whatever order, if no other   *)
(* required option is repeated.                                            *)
StartsWhenComplete == /\ cmdline = "start" => Required \subseteq given /\ dnsList > 0
                      /\ cmdline = "missing" => ~(Required \subseteq given)

(* main's count against the options it stands for: with it the above is    *)
(* inductive.                                                              *)
CountInv == /\ neccessary = Cardinality(Required \ given)
            /\ dnsList \in Nat
            /\ dnsList = 0 <=> "dns" \notin given
            /\ cmdline = "start" => neccessary = 0
            /\ cmdline = "missing" => neccessary # 0
=============================================================================
