--------------------------- MODULE ProgramProofs ----------------------------
(* Theorems about what a process does with src/src/lib.c and error.c.      *)
(* Lifecycle: types, that the client's cleanup handler is called at most   *)
(* once and before an exit, that program errors are not reported as        *)
(* success, and that an init leaves a registry of pools.  Options: that    *)
(* lookups answer right and records are freed.  ErrorCode: that a return   *)
(* code tells the error.                                                   *)
EXTENDS Lifecycle, Options, ErrorCode, FiniteSetTheorems, TLAPS

-----------------------------------------------------------------------------
(* Types.                                                                  *)

LEMMA TypeInit == Init => TypeOK
<1> SUFFICES ASSUME Init PROVE TypeOK
  OBVIOUS
<1>1. /\ pos \in [Context -> MainPosition \cup HandlerPosition]
      /\ pos["main"] \in MainPosition /\ pos["handler"] \in HandlerPosition
      /\ handler = "none" /\ pos["handler"] = "idle"
  BY DEF Init, Context, MainPosition, HandlerPosition
<1>2. ghost \in GhostType
  BY LifecycleAssumption DEF Init, GhostType
<1> QED
  BY <1>1, <1>2 DEF Init, TypeOK

LEMMA TypeClient == TypeOK /\ Client => TypeOK'
<1> SUFFICES ASSUME TypeOK, Client PROVE TypeOK'
  OBVIOUS
<1> USE DEF TypeOK, Context, MainPosition, HandlerPosition, At, Goto, program, signals
<1>1. CASE CallInit
  <2>1. ghost' \in GhostType
    BY <1>1, LifecycleAssumption DEF CallInit, GhostType
  <2> QED
    BY <1>1, <2>1 DEF CallInit
<1>2. CASE SetCleanup
  BY <1>2 DEF SetCleanup
<1>3. CASE RegisterHook
  BY <1>3, LifecycleAssumption DEF RegisterHook
<1>4. CASE UsePools
  BY <1>4 DEF UsePools
<1>5. CASE ClientFaults
  BY <1>5 DEF ClientFaults
<1>6. CASE CallExit
  BY <1>6 DEF CallExit
<1> QED
  BY <1>1, <1>2, <1>3, <1>4, <1>5, <1>6 DEF Client

LEMMA FailingType ==
    ASSUME ghost \in GhostType
    PROVE  Failing \in GhostType
BY DEF Failing, GhostType

LEMMA TypeStarting == TypeOK /\ Starting => TypeOK'
<1> SUFFICES ASSUME TypeOK, Starting PROVE TypeOK'
  OBVIOUS
<1> USE DEF TypeOK, Context, MainPosition, HandlerPosition, At, Goto, program, signals,
            InitSucceeds, InitFails
<1>1. CASE Initialized
  BY <1>1 DEF Initialized
<1>2. CASE InitBegins
  BY <1>2 DEF InitBegins
<1>3. CASE Atexit
  BY <1>3 DEF Atexit
<1>9. CASE AtexitFails
  <2>1. ghost' \in GhostType
    BY <1>9, FailingType DEF AtexitFails
  <2> QED
    BY <1>9, <2>1 DEF AtexitFails
<1>4. CASE CatchSignal
  <2>1. caught' \subseteq Signal
    <3>1. InstallOrder \in Seq(Signal)
      BY DEF InstallOrder, Signal
    <3>2. PICK i \in 1 .. Len(InstallOrder) : caught' = caught \cup {InstallOrder[i]}
      BY <1>4 DEF CatchSignal
    <3>3. InstallOrder[i] \in Signal
      BY <3>1, <3>2
    <3> QED
      BY <3>2, <3>3
  <2> QED
    BY <1>4, <2>1 DEF CatchSignal
<1>5. CASE NewRegistry
  BY <1>5 DEF NewRegistry
<1>10. CASE NewRegistryFails
  <2>1. ghost' \in GhostType
    BY <1>10, FailingType DEF NewRegistryFails
  <2> QED
    BY <1>10, <2>1 DEF NewRegistryFails
<1>6. CASE AppGuard
  BY <1>6 DEF AppGuard, GuardSet
<1>7. CASE ParseOptions
  BY <1>7 DEF ParseOptions
<1>8. CASE PoolsUsed
  BY <1>8 DEF PoolsUsed
<1> QED
  BY <1>1, <1>2, <1>3, <1>4, <1>5, <1>6, <1>7, <1>8, <1>9, <1>10 DEF Starting

LEMMA TypeLeaving == ASSUME TypeOK, NEW c \in Context, Leaving(c) PROVE TypeOK'
<1> USE DEF TypeOK, Context, MainPosition, HandlerPosition, At, Runs, Goto, program,
            signals, LeaveFor
<1>1. CASE ExitCallsBack(c)
  BY <1>1 DEF ExitCallsBack
<1>8. CASE ExitEndsProcess(c)
  BY <1>8 DEF ExitEndsProcess
<1>2. CASE LeaveGuard(c)
  BY <1>2 DEF LeaveGuard, GuardSet
<1>3. CASE LeaveMark(c)
  BY <1>3 DEF LeaveMark
<1>4. CASE CleanUp(c)
  <2>1. ghost' \in GhostType
    BY <1>4 DEF CleanUp, GhostType
  <2> QED
    BY <1>4, <2>1 DEF CleanUp
<1>5. CASE DestroyPools(c)
  BY <1>5 DEF DestroyPools
<1>6. CASE Faults(c)
  BY <1>6 DEF Faults, Signal
<1>7. CASE Aborts(c)
  BY <1>7 DEF Aborts, Signal
<1> QED
  BY <1>1, <1>2, <1>3, <1>4, <1>5, <1>6, <1>7, <1>8 DEF Leaving

LEMMA TypeHandling == TypeOK /\ Handling => TypeOK'
<1> SUFFICES ASSUME TypeOK, Handling PROVE TypeOK'
  OBVIOUS
<1> USE DEF TypeOK, Context, MainPosition, HandlerPosition, At, Runs, Goto, program, Resume
<1>1. CASE AlreadySignaled
  BY <1>1 DEF AlreadySignaled
<1>2. CASE UnknownSignal
  BY <1>2 DEF UnknownSignal
<1>3. CASE Hears
  <2>1. exitcode' \in {0, 1} /\ ExitArgument(handler, exitcode') \in {0, 1}
    BY <1>3 DEF Hears, ExitArgument
  <2>2. CASE Ignored(handler)
    BY <1>3, <2>1, <2>2 DEF Hears
  <2>3. CASE ~Ignored(handler)
    BY <1>3, <2>1, <2>3 DEF Hears
  <2> QED
    BY <2>2, <2>3
<1> QED
  BY <1>1, <1>2, <1>3 DEF Handling

LEMMA TypeAround ==
    ASSUME TypeOK, Kill \/ Aborted \/ \E s \in Signal : Deliver(s)
    PROVE  TypeOK'
<1> USE DEF TypeOK, Context, MainPosition, HandlerPosition, At, Runs, Goto, program, signals
<1>1. CASE Kill
  BY <1>1 DEF Kill
<1>2. CASE Aborted
  BY <1>2 DEF Aborted
<1>3. ASSUME NEW s \in Signal, Deliver(s) PROVE TypeOK'
  <2>1. ghost' \in GhostType
    BY <1>3, LifecycleAssumption DEF Deliver, GhostType
  <2>2. s # "none"
    BY DEF Signal
  <2> QED
    BY <1>3, <2>1, <2>2 DEF Deliver
<1> QED
  BY <1>1, <1>2, <1>3

LEMMA TypeNext == TypeOK /\ [Next]_vars => TypeOK'
<1>1. ASSUME TypeOK, UNCHANGED vars PROVE TypeOK'
  BY <1>1 DEF TypeOK, vars
<1> QED
  BY <1>1, TypeClient, TypeStarting, TypeLeaving, TypeHandling, TypeAround DEF Next, Library

(* The type invariant of Lifecycle holds whatever the client does,         *)
(* whatever fails and whichever signals arrive.                            *)
THEOREM TypeCorrect == Spec => []TypeOK
BY TypeInit, TypeNext, PTL DEF Spec

-----------------------------------------------------------------------------
(* The cleanup handler.                                                    *)

(* Positions of a signal handler that will not come to the cleanup handler *)
(* any more once the guard of ina_exit is set.                             *)
Past == {"destroy", "exit", "leave", "abort"}

(* A context that is about to set the guard of ina_exit found it unset.    *)
(* If that has changed for main, the signal handler above it has set it    *)
(* and will not give control back; and the cleanup handler is called       *)
(* between the guard and the pools only.                                   *)
Once ==
    /\ ghost.cleanups \in {0, 1}
    /\ pos["handler"] = "mark" => "exit" \notin passed
    /\ "cleanup" \in {pos["main"], pos["handler"]} => "exit" \in passed
    /\ "exit" \in passed /\ pos["main"] = "mark" => pos["handler"] \in Past \cup {"cleanup"}
    /\ ghost.cleanups = 1 =>
          /\ "exit" \in passed /\ pos["handler"] # "cleanup"
          /\ pos["main"] = "cleanup" => pos["handler"] \in Past

LEMMA OnceInit == Init => Once
BY DEF Init, Once, Context

(* Steps that set no guard, call no cleanup handler, and take no context   *)
(* into ina_exit or out of the signal handler.                             *)
LEMMA OnceElsewhere ==
    ASSUME Once,
           "exit" \in passed' <=> "exit" \in passed, ghost'.cleanups = ghost.cleanups,
           pos'["main"] = pos["main"] \/ pos'["main"] \notin {"mark", "cleanup"},
           \/ pos'["handler"] = pos["handler"]
           \/ pos["handler"] \notin Past \cup {"mark", "cleanup"} /\ pos'["handler"] \notin {"mark", "cleanup"}
    PROVE  Once'
BY DEF Once, Past

LEMMA OnceClient == TypeOK /\ Once /\ Client => Once'
<1> SUFFICES ASSUME TypeOK, Once, Client PROVE Once'
  OBVIOUS
<1>1. /\ passed' = passed /\ ghost'.cleanups = ghost.cleanups
      /\ pos'["handler"] = pos["handler"]
      /\ pos'["main"] = pos["main"] \/ pos'["main"] \in {"init", "using", "fault", "leave", "exit"}
  BY DEF Client, CallInit, SetCleanup, RegisterHook, UsePools, ClientFaults, CallExit,
         Goto, program, TypeOK, Context, GhostType
<1> QED
  BY <1>1, OnceElsewhere

LEMMA OnceStarting == TypeOK /\ Once /\ Starting => Once'
<1> SUFFICES ASSUME TypeOK, Once, Starting PROVE Once'
  OBVIOUS
<1>1. "exit" \in passed' <=> "exit" \in passed
  BY DEF Starting, Initialized, InitBegins, Atexit, AtexitFails, CatchSignal, NewRegistry,
         NewRegistryFails, AppGuard, ParseOptions, PoolsUsed, program
<1>2. ghost'.cleanups = ghost.cleanups
  BY DEF Starting, Initialized, InitBegins, Atexit, AtexitFails, CatchSignal, NewRegistry,
         NewRegistryFails, AppGuard, ParseOptions, PoolsUsed, Failing, TypeOK, GhostType
<1>3. /\ pos'["handler"] = pos["handler"]
      /\ pos'["main"] \notin {"mark", "cleanup"}
  BY DEF Starting, Initialized, InitBegins, Atexit, AtexitFails, CatchSignal, NewRegistry,
         NewRegistryFails, AppGuard, ParseOptions, PoolsUsed, InitSucceeds, InitFails,
         GuardSet, Goto, TypeOK, Context
<1> QED
  BY <1>1, <1>2, <1>3, OnceElsewhere

LEMMA OnceHandling == TypeOK /\ Once /\ Handling => Once'
<1> SUFFICES ASSUME TypeOK, Once, Handling PROVE Once'
  OBVIOUS
<1>1. /\ pos["handler"] = "begin" /\ passed' = passed /\ ghost' = ghost
      /\ pos'["main"] = pos["main"] /\ pos'["handler"] \in {"idle", "abort", "exit"}
  BY DEF Handling, AlreadySignaled, UnknownSignal, Hears, Resume, At, Goto, program,
         TypeOK, Context
<1> QED
  BY <1>1, OnceElsewhere DEF Past

LEMMA OnceAround ==
    ASSUME TypeOK, Once, Kill \/ Aborted \/ \E s \in Signal : Deliver(s)
    PROVE  Once'
<1>1. CASE Kill \/ Aborted
  BY <1>1 DEF Kill, Aborted, program, Once
<1>2. ASSUME NEW s \in Signal, Deliver(s) PROVE Once'
  <2>1. pos["handler"] = "idle"
    BY <1>2 DEF Deliver, Runs, TypeOK
  <2>2. /\ passed' = passed /\ ghost'.cleanups = ghost.cleanups
        /\ pos'["main"] = pos["main"] /\ pos'["handler"] \in {"idle", "begin"}
    BY <1>2, <2>1 DEF Deliver, Goto, program, TypeOK, Context, GhostType
  <2> QED
    BY <2>1, <2>2, OnceElsewhere DEF Past
<1> QED
  BY <1>1, <1>2

LEMMA OnceLeaving == ASSUME TypeOK, Once, NEW c \in Context, Leaving(c) PROVE Once'
<1>1. /\ c \in {"main", "handler"} /\ status = "alive"
      /\ c = "main" => handler = "none" /\ pos["handler"] = "idle"
  BY DEF Context, Leaving, ExitCallsBack, ExitEndsProcess, LeaveGuard, LeaveMark, CleanUp,
         DestroyPools, Faults, Aborts, At, Runs, TypeOK
<1> USE <1>1 DEF Once, Past, At, Goto, Context, TypeOK, GhostType
<1>2. CASE ExitCallsBack(c)
  BY <1>2 DEF ExitCallsBack
<1>3. CASE ExitEndsProcess(c)
  BY <1>3 DEF ExitEndsProcess, program
<1>4. CASE LeaveGuard(c)
  BY <1>4 DEF LeaveGuard, GuardSet, LeaveFor, program
<1>5. CASE LeaveMark(c)
  BY <1>5 DEF LeaveMark
<1>6. CASE CleanUp(c)
  <2>1. /\ passed' = passed /\ pos' = [pos EXCEPT ![c] = "destroy"]
        /\ pos[c] = "cleanup"
    BY <1>6 DEF CleanUp, program
  <2>2. ghost.cleanups = 0
    BY <2>1
  <2>3. ghost'.cleanups \in {0, 1}
    BY <1>6, <2>2 DEF CleanUp
  <2>4. "exit" \in passed
    BY <2>1
  <2> QED
    BY <2>1, <2>2, <2>3, <2>4
<1>7. CASE DestroyPools(c)
  BY <1>7 DEF DestroyPools, LeaveFor
<1>8. CASE Faults(c)
  BY <1>8 DEF Faults, program
<1>9. CASE Aborts(c)
  BY <1>9 DEF Aborts, program
<1> QED
  BY <1>2, <1>3, <1>4, <1>5, <1>6, <1>7, <1>8, <1>9 DEF Leaving

LEMMA OnceNext == TypeOK /\ Once /\ [Next]_vars => Once'
<1>1. ASSUME Once, UNCHANGED vars PROVE Once'
  BY <1>1 DEF Once, vars
<1> QED
  BY <1>1, OnceClient, OnceStarting, OnceLeaving, OnceHandling, OnceAround DEF Next, Library

(* However ina_exit is reached, by the client, through atexit, from a      *)
(* signal handler, or from one that interrupts the other two, the client's *)
(* cleanup handler is called at most once.                                 *)
THEOREM CleanedUpOnce == Spec => []CleanupOnce
<1>1. Once => CleanupOnce
  BY DEF Once, CleanupOnce
<1> QED
  BY <1>1, OnceInit, OnceNext, TypeCorrect, PTL DEF Spec

-----------------------------------------------------------------------------
(* Nobody exits past the cleanup handler.                                  *)

InExitOf(c) == pos[c] \in {"leave", "mark", "cleanup"}

(* Once exit has called ina_exit, the guard is set or some context is on   *)
(* its way to set it; and once the guard is set, the cleanup handler, if   *)
(* the client has one, was called or is called next.                       *)
Promised ==
    /\ atexit = "called" => "exit" \in passed \/ \E c \in Context : InExitOf(c)
    /\ "exit" \in passed /\ cleanup =>
          ghost.cleanups = 1 \/ \E c \in Context : pos[c] = "cleanup"
    /\ CleanupRan

LEMMA PromisedClient == TypeOK /\ Promised /\ Client => Promised'
<1> SUFFICES ASSUME TypeOK, Promised, Client PROVE Promised'
  OBVIOUS
<1>1. /\ atexit' = atexit /\ passed' = passed /\ status' = status /\ status = "alive"
      /\ ghost'.cleanups = ghost.cleanups
      /\ pos["main"] = "client" /\ pos'["handler"] = pos["handler"]
      /\ cleanup' = cleanup \/ "exit" \notin passed
  BY DEF Client, CallInit, SetCleanup, RegisterHook, UsePools, ClientFaults, CallExit,
         At, Runs, Goto, Serving, program, TypeOK, Context, GhostType
<1> QED
  BY <1>1 DEF Promised, InExitOf, CleanupRan, Exited, Context

LEMMA PromisedStarting == TypeOK /\ Promised /\ Starting => Promised'
<1> SUFFICES ASSUME TypeOK, Promised, Starting PROVE Promised'
  OBVIOUS
<1>1. /\ atexit' \in {atexit, "pending"} /\ cleanup' = cleanup
      /\ "exit" \in passed' <=> "exit" \in passed
  BY DEF Starting, Initialized, InitBegins, Atexit, AtexitFails, CatchSignal, NewRegistry,
         NewRegistryFails, AppGuard, ParseOptions, PoolsUsed, program
<1>2. status' = "alive" /\ ghost'.cleanups = ghost.cleanups
  BY DEF Starting, Initialized, InitBegins, Atexit, AtexitFails, CatchSignal, NewRegistry,
         NewRegistryFails, AppGuard, ParseOptions, PoolsUsed, Failing, TypeOK, GhostType,
         At, Runs
<1>3. /\ pos'["handler"] = pos["handler"]
      /\ pos["main"] \notin {"leave", "mark", "cleanup"}
  BY DEF Starting, Initialized, InitBegins, Atexit, AtexitFails, CatchSignal, NewRegistry,
         NewRegistryFails, AppGuard, ParseOptions, PoolsUsed, InitSucceeds, InitFails,
         GuardSet, At, Goto, TypeOK, Context
<1> QED
  BY <1>1, <1>2, <1>3 DEF Promised, InExitOf, CleanupRan, Exited, Context

LEMMA PromisedLeaving ==
    ASSUME TypeOK, Once, Promised, NEW c \in Context, Leaving(c)
    PROVE  Promised'
<1>1. /\ c \in {"main", "handler"} /\ status = "alive"
      /\ c = "main" => handler = "none" /\ pos["handler"] = "idle"
  BY DEF Context, Leaving, ExitCallsBack, ExitEndsProcess, LeaveGuard, LeaveMark, CleanUp,
         DestroyPools, Faults, Aborts, At, Runs, TypeOK
<1> USE <1>1 DEF Promised, InExitOf, CleanupRan, Exited, At, Goto, Context, TypeOK
<1>2. CASE ExitCallsBack(c)
  BY <1>2 DEF ExitCallsBack
<1>3. CASE ExitEndsProcess(c)
  BY <1>3 DEF ExitEndsProcess, program
<1>4. CASE LeaveGuard(c)
  BY <1>4 DEF LeaveGuard, GuardSet, program
<1>5. CASE LeaveMark(c)
  BY <1>5 DEF LeaveMark
<1>6. CASE CleanUp(c)
  <2>1. pos[c] = "cleanup" /\ "exit" \in passed /\ ghost.cleanups = 0
    BY <1>6 DEF CleanUp, Once, Past
  <2>2. cleanup => ghost'.cleanups = 1
    BY <1>6, <2>1 DEF CleanUp, GhostType
  <2> QED
    BY <1>6, <2>1, <2>2 DEF CleanUp, program
<1>7. CASE DestroyPools(c)
  BY <1>7 DEF DestroyPools
<1>8. CASE Faults(c)
  BY <1>8 DEF Faults, program
<1>9. CASE Aborts(c)
  BY <1>9 DEF Aborts, program
<1> QED
  BY <1>2, <1>3, <1>4, <1>5, <1>6, <1>7, <1>8, <1>9 DEF Leaving

LEMMA PromisedAround ==
    ASSUME TypeOK, Promised,
           Handling \/ Kill \/ Aborted \/ \E s \in Signal : Deliver(s)
    PROVE  Promised'
<1>1. program' = program /\ ghost'.cleanups = ghost.cleanups
  BY DEF Handling, AlreadySignaled, UnknownSignal, Hears, Kill, Aborted, Deliver,
         TypeOK, GhostType
<1>2. status' \in {"alive", "killed"}
  BY DEF Handling, AlreadySignaled, UnknownSignal, Hears, Kill, Aborted, Deliver, At, Runs
<1>3. /\ pos'["main"] = pos["main"]
      /\ pos'["handler"] = pos["handler"] \/ pos["handler"] \in {"idle", "begin"}
  BY DEF Handling, AlreadySignaled, UnknownSignal, Hears, Kill, Aborted, Deliver, Resume,
         At, Runs, Goto, TypeOK, Context
<1> QED
  BY <1>1, <1>2, <1>3 DEF Promised, InExitOf, CleanupRan, Exited, Context, program

(* A process that exits after the library was initialized has called the   *)
(* client's cleanup handler, whichever way it came to exit and wherever    *)
(* signals arrived, unless main was stopped just before that call.         *)
THEOREM CleanedUpAtExit == Spec => []CleanupRan
<1>1. TypeOK /\ Once /\ Promised /\ [Next]_vars => Promised'
  <2>1. ASSUME Promised, UNCHANGED vars PROVE Promised'
    BY <2>1 DEF Promised, InExitOf, CleanupRan, Exited, Context, vars
  <2> QED
    BY <2>1, PromisedClient, PromisedStarting, PromisedLeaving, PromisedAround
    DEF Next, Library
<1>2. Init => Promised
  BY DEF Init, Promised, CleanupRan, Exited
<1>3. Promised => CleanupRan
  BY DEF Promised
<1> QED
  BY <1>1, <1>2, <1>3, OnceInit, OnceNext, TypeCorrect, PTL DEF Spec

-----------------------------------------------------------------------------
(* Program errors.                                                         *)

(* The signal handler of a program error, once it has called exit, keeps   *)
(* the exit code: main cannot call exit any more.                          *)
FailedInv ==
    /\ ErrorsFail
    /\ handler \in ProgramErrors /\ pos["handler"] \notin {"idle", "begin", "abort"} =>
          code = 1

LEMMA FailedNext == TypeOK /\ FailedInv /\ [Next]_vars => FailedInv'
<1>1. ASSUME TypeOK, FailedInv, UNCHANGED vars PROVE FailedInv'
  BY <1>1 DEF FailedInv, ErrorsFail, vars
<1>2. ASSUME TypeOK, FailedInv, Client \/ Starting PROVE FailedInv'
  <2>1. Runs("main")
    BY <1>2 DEF Client, CallInit, SetCleanup, RegisterHook, UsePools, ClientFaults,
       CallExit, Starting, Initialized, InitBegins, Atexit, AtexitFails, CatchSignal,
       NewRegistry, NewRegistryFails, AppGuard, ParseOptions, PoolsUsed, At
  <2>2. handler' = handler /\ status' = status
    BY <1>2 DEF Client, CallInit, SetCleanup, RegisterHook, UsePools, ClientFaults,
       CallExit, Starting, Initialized, InitBegins, Atexit, AtexitFails, CatchSignal,
       NewRegistry, NewRegistryFails, AppGuard, ParseOptions, PoolsUsed, signals
  <2> QED
    BY <2>1, <2>2 DEF FailedInv, ErrorsFail, Runs, ProgramErrors
<1>3. ASSUME TypeOK, FailedInv, NEW c \in Context, Leaving(c) PROVE FailedInv'
  <2>1. Runs(c) /\ c \in {"main", "handler"} /\ code' = code /\ status = "alive"
    BY <1>3 DEF Leaving, ExitCallsBack, ExitEndsProcess, LeaveGuard, LeaveMark, CleanUp,
       DestroyPools, Faults, Aborts, At, Runs, Context
  <2>2. CASE Faults(c) \/ Aborts(c)
    BY <1>3, <2>1, <2>2 DEF Faults, Aborts, FailedInv, ErrorsFail, Goto, TypeOK, Context, At
  <2>3. CASE ExitEndsProcess(c)
    BY <1>3, <2>1, <2>3
    DEF ExitEndsProcess, FailedInv, ErrorsFail, signals, At, Runs, ProgramErrors
  <2>4. CASE ExitCallsBack(c) \/ LeaveGuard(c) \/ LeaveMark(c) \/ CleanUp(c) \/ DestroyPools(c)
    <3>1. /\ handler' = handler /\ status' = status
          /\ \/ pos'["handler"] = pos["handler"]
             \/ pos["handler"] \notin {"idle", "begin", "abort"}
      BY <1>3, <2>1, <2>4
      DEF ExitCallsBack, LeaveGuard, LeaveMark, CleanUp, DestroyPools, GuardSet, signals,
          At, Goto, TypeOK, Context
    <3> QED
      BY <1>3, <2>1, <3>1 DEF FailedInv, ErrorsFail
  <2> QED
    BY <1>3, <2>2, <2>3, <2>4 DEF Leaving
<1>4. ASSUME TypeOK, FailedInv, Handling PROVE FailedInv'
  <2>1. status' = status /\ status = "alive"
    BY <1>4 DEF Handling, AlreadySignaled, UnknownSignal, Hears, At, Runs
  <2>2. CASE AlreadySignaled \/ UnknownSignal
    BY <1>4, <2>1, <2>2
    DEF AlreadySignaled, UnknownSignal, Resume, Goto, FailedInv, ErrorsFail, TypeOK, Context
  <2>3. CASE Hears
    BY <1>4, <2>1, <2>3
    DEF Hears, Resume, Goto, FailedInv, ErrorsFail, TypeOK, Context, ExitArgument
  <2> QED
    BY <1>4, <2>2, <2>3 DEF Handling
<1>5. ASSUME TypeOK, FailedInv, Kill \/ Aborted \/ \E s \in Signal : Deliver(s) PROVE FailedInv'
  <2>1. CASE Kill \/ Aborted
    BY <1>5, <2>1 DEF Kill, Aborted, FailedInv, ErrorsFail, signals
  <2>2. ASSUME NEW s \in Signal, Deliver(s) PROVE FailedInv'
    BY <1>5, <2>2 DEF Deliver, Runs, Goto, FailedInv, ErrorsFail, TypeOK, Context
  <2> QED
    BY <1>5, <2>1, <2>2
<1> QED
  BY <1>1, <1>2, <1>3, <1>4, <1>5 DEF Next, Library

(* A process that ends in the handler of a program error does not report   *)
(* success, whatever exit code the client's handlers ask for.              *)
THEOREM ErrorsReported == Spec => []ErrorsFail
<1>1. Init => FailedInv
  BY DEF Init, FailedInv, ErrorsFail, ProgramErrors
<1>2. FailedInv => ErrorsFail
  BY DEF FailedInv
<1> QED
  BY <1>1, <1>2, FailedNext, TypeCorrect, PTL DEF Spec

-----------------------------------------------------------------------------
(* The registry of pools.                                                  *)

InsideInit == {"atexit", "signals", "pools"}

(* Who has left ina_init without a failure has left a registry behind, and *)
(* nobody takes it away before the guard of ina_exit is set.  What an init *)
(* function called cannot be what ina_exit returns to.                     *)
RegisteredInv ==
    /\ pos["main"] \in InsideInit => "lib" \in passed
    /\ pos["main"] \in {"leave", "mark", "cleanup", "destroy"} => caller # "app"
    /\ "lib" \in passed /\ Serving /\ pos["main"] \notin InsideInit =>
          ghost.failed \/ registry = "live"
    /\ told = "ok" \/ pos["main"] \in {"app", "options", "usage"} =>
          "lib" \in passed /\ pos["main"] \notin InsideInit
    /\ {pos["main"], pos["handler"]} \cap {"cleanup", "destroy"} # {} => ~Serving

LEMMA RegisteredStarting == TypeOK /\ RegisteredInv /\ Starting => RegisteredInv'
<1> SUFFICES ASSUME TypeOK, RegisteredInv, Starting PROVE RegisteredInv'
  OBVIOUS
<1> USE DEF RegisteredInv, InsideInit, Serving, At, Goto, TypeOK, Context, InitSucceeds, InitFails
<1>1. CASE Initialized
  BY <1>1 DEF Initialized
<1>2. CASE InitBegins
  BY <1>2 DEF InitBegins
<1>3. CASE Atexit
  BY <1>3 DEF Atexit
<1>4. CASE AtexitFails
  BY <1>4 DEF AtexitFails, Failing, GhostType
<1>5. CASE CatchSignal
  BY <1>5 DEF CatchSignal
<1>6. CASE NewRegistry
  BY <1>6 DEF NewRegistry
<1>7. CASE NewRegistryFails
  BY <1>7 DEF NewRegistryFails, Failing, GhostType
<1>8. CASE AppGuard
  BY <1>8 DEF AppGuard, GuardSet
<1>9. CASE ParseOptions
  BY <1>9 DEF ParseOptions
<1>10. CASE PoolsUsed
  BY <1>10 DEF PoolsUsed, program
<1> QED
  BY <1>1, <1>2, <1>3, <1>4, <1>5, <1>6, <1>7, <1>8, <1>9, <1>10 DEF Starting

LEMMA RegisteredLeaving ==
    ASSUME TypeOK, RegisteredInv, NEW c \in Context, Leaving(c)
    PROVE  RegisteredInv'
<1> USE DEF RegisteredInv, InsideInit, Serving, At, Goto, TypeOK, Context
<1>1. CASE ExitCallsBack(c)
  BY <1>1 DEF ExitCallsBack
<1>2. CASE ExitEndsProcess(c)
  BY <1>2 DEF ExitEndsProcess, program
<1>3. CASE LeaveGuard(c)
  BY <1>3 DEF LeaveGuard, GuardSet, LeaveFor, program
<1>4. CASE LeaveMark(c)
  BY <1>4 DEF LeaveMark
<1>5. CASE CleanUp(c)
  <2>1. ghost'.failed = ghost.failed
    BY <1>5 DEF CleanUp, GhostType
  <2> QED
    BY <1>5, <2>1 DEF CleanUp, program
<1>6. CASE DestroyPools(c)
  BY <1>6 DEF DestroyPools, LeaveFor
<1>7. CASE Faults(c)
  BY <1>7 DEF Faults, program
<1>8. CASE Aborts(c)
  BY <1>8 DEF Aborts, program
<1> QED
  BY <1>1, <1>2, <1>3, <1>4, <1>5, <1>6, <1>7, <1>8 DEF Leaving

LEMMA RegisteredAround ==
    ASSUME TypeOK, RegisteredInv,
           Client \/ Handling \/ Kill \/ Aborted \/ \E s \in Signal : Deliver(s)
    PROVE  RegisteredInv'
<1>1. CASE Client
  <2>1. /\ passed' = passed /\ registry' = registry /\ told' = told
        /\ ghost'.failed = ghost.failed
        /\ pos'["main"] = "leave" => caller' = "client"
    BY <1>1 DEF Client, CallInit, SetCleanup, RegisterHook, UsePools, ClientFaults,
       CallExit, program, TypeOK, GhostType, At, Goto, Context
  <2>2. /\ pos'["handler"] = pos["handler"] /\ pos["main"] = "client"
        /\ pos'["main"] \in {"client", "init", "using", "fault", "leave", "exit"}
    BY <1>1 DEF Client, CallInit, SetCleanup, RegisterHook, UsePools, ClientFaults,
       CallExit, At, Goto, TypeOK, Context
  <2> QED
    BY <2>1, <2>2 DEF RegisteredInv, InsideInit, Serving
<1>2. CASE Handling
  <2>1. /\ program' = program /\ ghost' = ghost /\ pos'["main"] = pos["main"]
        /\ pos'["handler"] \in {"idle", "abort", "exit"}
    BY <1>2 DEF Handling, AlreadySignaled, UnknownSignal, Hears, Resume, Goto, program,
       TypeOK, Context
  <2> QED
    BY <2>1 DEF RegisteredInv, InsideInit, Serving, program
<1>3. CASE Kill \/ Aborted
  BY <1>3 DEF Kill, Aborted, program, RegisteredInv, InsideInit, Serving
<1>4. ASSUME NEW s \in Signal, Deliver(s) PROVE RegisteredInv'
  <2>1. /\ program' = program /\ ghost'.failed = ghost.failed
        /\ pos'["main"] = pos["main"]
        /\ pos'["handler"] \in {pos["handler"], "begin"}
    BY <1>4 DEF Deliver, Goto, program, TypeOK, Context, GhostType
  <2> QED
    BY <2>1 DEF RegisteredInv, InsideInit, Serving, program
<1> QED
  BY <1>1, <1>2, <1>3, <1>4

(* A client that was told that the library is initialized has a registry   *)
(* of pools until ina_exit is under way, unless an earlier init failed.    *)
THEOREM RegistryReady == Spec => []PoolsReadyUnlessRetried
<1>1. TypeOK /\ RegisteredInv /\ [Next]_vars => RegisteredInv'
  <2>1. ASSUME RegisteredInv, UNCHANGED vars PROVE RegisteredInv'
    BY <2>1 DEF RegisteredInv, InsideInit, Serving, vars
  <2> QED
    BY <2>1, RegisteredStarting, RegisteredLeaving, RegisteredAround DEF Next, Library
<1>2. RegisteredInv => PoolsReadyUnlessRetried
  BY DEF RegisteredInv, PoolsReadyUnlessRetried, PoolsReady
<1>3. Init => RegisteredInv
  BY DEF Init, RegisteredInv, InsideInit, Context
<1> QED
  BY <1>1, <1>2, <1>3, TypeCorrect, PTL DEF Spec

-----------------------------------------------------------------------------
(* Command line options: the invariant.                                    *)

OptRecord == [short : Seq(STRING), long : Seq(STRING), flag : BOOLEAN, dft : BOOLEAN]

OptStages ==
    {"lists", "registering", "parsing", "usage", "overflow", "ready",
     "freeing short", "freeing long", "ended", "dead"}

(* The lists are read.                                                     *)
Reading == {"parsing", "usage", "overflow", "ready"}

(* Nothing is freed yet.                                                   *)
BeforeFreeing == {"lists", "registering"} \cup Reading

OptTyped ==
    /\ declared \in Seq(OptRecord) /\ args \in Seq(Seq(STRING))
    /\ made \subseteq {"short", "long"}
    /\ argn \in Nat \ {0} /\ stage \in OptStages /\ handling \in BOOLEAN

(* A list of entries, each in it once.                                     *)
EntryList(list) ==
    /\ list \in Seq(1 .. Len(declared))
    /\ \A i, k \in 1 .. Len(list) : list[i] = list[k] => i = k

(* The entries of the list of short options are those that have a short    *)
(* name, among the entries made so far.                                    *)
ListsRight ==
    /\ EntryList(longs) /\ \A i \in 1 .. Len(longs) : longs[i] = i
    /\ Len(longs) <= Len(declared)
    /\ EntryList(shorts)
    /\ \A i \in Elements(shorts) : declared[i].short # <<>>
    /\ \A i \in 1 .. Len(longs) : declared[i].short # <<>> => i \in Elements(shorts)
    /\ stage = "lists" => longs = <<>> /\ shorts = <<>>
    /\ stage = "registering" => \A i \in Elements(shorts) : i <= Len(longs)
    /\ stage \in Reading => Len(longs) = Len(declared)

Firsts(list, m) == {list[k] : k \in 1 .. m}

(* The first records of a list are freed.                                  *)
FreedFirsts(name, list) ==
    \E m \in 0 .. Len(list) : FreedOf(name) = Firsts(list, m)

(* The long options follow when the short ones are freed.                  *)
FreedRight ==
    /\ FreedFirsts("short", shorts) /\ FreedFirsts("long", longs)
    /\ stage \in BeforeFreeing => freed = {}
    /\ stage = "freeing short" => FreedOf("long") = {}
    /\ stage = "freeing long" => FreedOf("short") = Elements(shorts)
    /\ FreedOf("long") # {} => FreedOf("short") = Elements(shorts)
    /\ stage = "ended" /\ "long" \in made =>
          FreedOf("short") = Elements(shorts) /\ FreedOf("long") = Elements(longs)

(* What was told of an option was right when it was told, and still is.    *)
ArgsRight ==
    /\ answer.rc = "not exists" => ~IsDeclared(answer.of)
    /\ stage = "usage" => ~IsDeclared(NameOf(args[argn]))

OptInv == OptTyped /\ ListsRight /\ FreedRight /\ ArgsRight

-----------------------------------------------------------------------------
(* The lists.                                                              *)

(* So many records are counted as were freed.                              *)
LEMMA FreedCount ==
    ASSUME NEW name, NEW list, EntryList(list), NEW m \in 0 .. Len(list),
           FreedOf(name) = Firsts(list, m)
    PROVE  Cardinality(FreedOf(name)) = m
<1> DEFINE f == [k \in 1 .. m |-> list[k]]
<1>1. f \in [1 .. m -> Firsts(list, m)]
  BY DEF Firsts
<1>2. \A i, k \in 1 .. m : f[i] = f[k] => i = k
  BY DEF EntryList
<1>3. \A x \in Firsts(list, m) : \E k \in 1 .. m : f[k] = x
  BY DEF Firsts
<1>4. f \in Bijection(1 .. m, Firsts(list, m))
  BY <1>1, <1>2, <1>3 DEF Bijection, Injection, IsInjective, Surjection
<1>5. ExistsBijection(1 .. m, FreedOf(name)) /\ m \in Nat
  BY <1>4 DEF ExistsBijection
<1> QED
  BY <1>5, FS_CountingElements

(* Every name that is declared is found while the arguments are read.      *)
LEMMA DeclaredKnown ==
    ASSUME OptInv, stage \in Reading, NEW name, IsDeclared(name)
    PROVE  Known(name)
<1>1. PICK i \in 1 .. Len(declared) :
         name = declared[i].long \/ (name # <<>> /\ name = declared[i].short)
  BY DEF IsDeclared
<1>2. i \in 1 .. Len(longs) /\ longs[i] = i
  BY DEF OptInv, ListsRight
<1>3. CASE name = declared[i].long
  <2>1. i \in LongHits(name)
    BY <1>2, <1>3 DEF LongHits, Elements
  <2> QED BY <2>1 DEF Known
<1>4. CASE name # <<>> /\ name = declared[i].short
  <2>1. i \in ShortHits(name)
    BY <1>2, <1>4 DEF ShortHits, OptInv, ListsRight
  <2> QED BY <2>1 DEF Known
<1> QED BY <1>1, <1>3, <1>4

LEMMA OptInitInv == OptInit => OptInv
<1> SUFFICES ASSUME NEW d \in Declarations, NEW a \in CommandLines, OptStart(d, a)
             PROVE  OptInv
  BY DEF OptInit
<1> USE DEF OptStart
<1>1. OptTyped
  <2>1. d \in Seq(OptRecord) /\ a \in Seq(Seq(STRING))
    BY OptionsAssumption DEF OptRecord
  <2>2. made \subseteq {"short", "long"} /\ argn \in Nat \ {0}
    OBVIOUS
  <2>3. stage \in OptStages /\ handling \in BOOLEAN
    BY DEF OptStages
  <2> QED BY <2>1, <2>2, <2>3 DEF OptTyped
<1>2. Elements(shorts) = {} /\ Len(shorts) = 0 /\ Len(longs) = 0 /\ Len(declared) \in Nat
  BY <1>1 DEF Elements, OptTyped
<1>3. EntryList(shorts) /\ EntryList(longs)
  BY <1>2 DEF EntryList
<1>4. ListsRight
  BY <1>2, <1>3 DEF ListsRight, Reading
<1>5. FreedOf("short") = {} /\ FreedOf("long") = {}
  BY DEF FreedOf
<1>6. /\ Firsts(shorts, 0) = {} /\ Firsts(longs, 0) = {}
      /\ 0 \in 0 .. Len(shorts) /\ 0 \in 0 .. Len(longs)
  BY DEF Firsts
<1>7. FreedFirsts("short", shorts) /\ FreedFirsts("long", longs)
  BY <1>5, <1>6 DEF FreedFirsts
<1>8. FreedRight
  BY <1>5, <1>7 DEF FreedRight, BeforeFreeing
<1>9. ArgsRight
  BY <1>1 DEF ArgsRight, None, OptTyped
<1> QED BY <1>1, <1>4, <1>8, <1>9 DEF OptInv

-----------------------------------------------------------------------------
(* The steps.                                                              *)

(* A fault ends the start, and begins with the freeing at the most.        *)
LEMMA FaultStage ==
    ASSUME Fault
    PROVE  stage' \in {"freeing short", "dead"} /\ handling' = TRUE
BY DEF Fault

(* What was freed stays a part of the lists while nothing is freed.        *)
LEMMA FreedKept ==
    ASSUME OptInv, UNCHANGED <<declared, shorts, longs, freed, made>>,
           stage \in BeforeFreeing, stage' \in OptStages \ {"freeing long", "ended"}
    PROVE  FreedRight'
<1>1. freed = {}
  BY DEF OptInv, FreedRight
<1>2. FreedOf("short") = {} /\ FreedOf("long") = {}
  BY <1>1 DEF FreedOf
<1>3. FreedOf("short")' = {} /\ FreedOf("long")' = {}
  BY <1>1 DEF FreedOf
<1>4. FreedFirsts("short", shorts)' /\ FreedFirsts("long", longs)'
  BY <1>2, <1>3 DEF OptInv, FreedRight, FreedFirsts
<1> QED
  BY <1>1, <1>3, <1>4 DEF FreedRight, BeforeFreeing, OptStages

LEMMA MakeStep ==
    ASSUME OptInv, MakeShorts \/ MakeLongs
    PROVE  OptInv'
<1>1. /\ stage = "lists" /\ made' \subseteq {"short", "long"}
      /\ stage' \in {"lists", "registering", "freeing short", "dead"}
      /\ handling' \in BOOLEAN
      /\ UNCHANGED <<declared, args, shorts, longs, argn, freed, answer>>
  BY FaultStage DEF MakeShorts, MakeLongs, Make, OptInv, OptTyped
<1>2. shorts = <<>> /\ longs = <<>> /\ freed = {}
  BY <1>1 DEF OptInv, ListsRight, FreedRight, BeforeFreeing
<1>3. OptTyped'
  BY <1>1 DEF OptInv, OptTyped, OptStages
<1>4. ListsRight'
  <2>1. /\ shorts' = <<>> /\ longs' = <<>> /\ Len(shorts') = 0 /\ Len(longs') = 0
    BY <1>1, <1>2
  <2>2. Elements(shorts)' = {}
    <3>1. \A i \in 1 .. Len(shorts') : FALSE
      BY <2>1
    <3> QED BY <3>1 DEF Elements
  <2>3. EntryList(shorts)' /\ EntryList(longs)' /\ Len(declared') \in Nat
    BY <1>3, <2>1 DEF EntryList, OptTyped
  <2>4. \A i \in 1 .. Len(longs') : FALSE
    BY <2>1
  <2>5. stage' \notin Reading
    BY <1>1 DEF Reading
  <2> QED BY <2>1, <2>2, <2>3, <2>4, <2>5 DEF ListsRight
<1>5. FreedRight'
  <2>1. /\ FreedOf("short") = {} /\ FreedOf("long") = {}
        /\ FreedOf("short")' = {} /\ FreedOf("long")' = {}
    BY <1>1, <1>2 DEF FreedOf
  <2>2. FreedFirsts("short", shorts)' /\ FreedFirsts("long", longs)'
    BY <1>1, <2>1 DEF OptInv, FreedRight, FreedFirsts
  <2> QED BY <1>1, <1>2, <2>1, <2>2 DEF FreedRight, BeforeFreeing
<1>6. ArgsRight'
  BY <1>1 DEF OptInv, ArgsRight, IsDeclared
<1> QED BY <1>3, <1>4, <1>5, <1>6 DEF OptInv

(* An entry with a short name goes behind the others.                      *)
LEMMA ShortAdded ==
    ASSUME OptInv, stage = "registering", Entry <= Len(declared),
           shorts' \in {shorts, WithShort(Entry)}, declared' = declared
    PROVE  /\ EntryList(shorts)'
           /\ \A i \in Elements(shorts)' : declared[i].short # <<>> /\ i <= Entry
           /\ Elements(shorts) \subseteq Elements(shorts)'
           /\ shorts' = WithShort(Entry) /\ declared[Entry].short # <<>> =>
                 Entry \in Elements(shorts)'
<1>1. /\ EntryList(shorts) /\ Len(longs) \in Nat
      /\ \A i \in Elements(shorts) : i <= Len(longs) /\ declared[i].short # <<>>
      /\ Elements(shorts) \subseteq Int
  BY DEF OptInv, ListsRight, EntryList, Elements
<1>2. CASE shorts' = shorts
  <2>1. shorts' # WithShort(Entry) \/ declared[Entry].short = <<>>
    BY <1>1, <1>2 DEF WithShort, EntryList
  <2>2. EntryList(shorts)' /\ Elements(shorts)' = Elements(shorts)
    BY <1>1, <1>2 DEF EntryList, Elements
  <2> QED BY <1>1, <2>1, <2>2 DEF Entry
<1>3. CASE shorts' = Append(shorts, Entry) /\ declared[Entry].short # <<>>
  <2>1. Entry \in 1 .. Len(declared) /\ Entry \in Nat /\ Entry = Len(longs) + 1
    BY <1>1 DEF Entry, OptInv, OptTyped
  <2>2. /\ Len(shorts') = Len(shorts) + 1 /\ shorts'[Len(shorts) + 1] = Entry
        /\ \A k \in 1 .. Len(shorts) : shorts'[k] = shorts[k] /\ shorts[k] \in Elements(shorts)
        /\ shorts' \in Seq(1 .. Len(declared))
        /\ Len(shorts) \in Nat
    BY <1>1, <1>3, <2>1 DEF EntryList, Elements
  <2>3. Elements(shorts)' = Elements(shorts) \cup {Entry}
    <3>1. \A i \in 1 .. Len(shorts') : i \in 1 .. Len(shorts) \/ i = Len(shorts) + 1
      BY <2>2
    <3>2. \A i \in 1 .. Len(shorts) : i \in 1 .. Len(shorts')
      BY <2>2
    <3>3. Len(shorts) + 1 \in 1 .. Len(shorts')
      BY <2>2
    <3> QED BY <2>2, <3>1, <3>2, <3>3 DEF Elements
  <2>4. \A i, k \in 1 .. Len(shorts') : shorts'[i] = shorts'[k] => i = k
    <3>1. \A k \in 1 .. Len(shorts) : shorts[k] < Entry
      BY <1>1, <2>1, <2>2
    <3>2. \A i, k \in 1 .. Len(shorts) : shorts[i] = shorts[k] => i = k
      BY <1>1 DEF EntryList
    <3> QED BY <2>1, <2>2, <3>1, <3>2
  <2>5. EntryList(shorts)'
    BY <2>2, <2>4 DEF EntryList
  <2> QED BY <1>1, <1>3, <2>1, <2>3, <2>5
<1> QED BY <1>2, <1>3 DEF WithShort

LEMMA RegisterStep ==
    ASSUME OptInv, Register
    PROVE  OptInv'
<1> USE DEF OptInv
<1>1. /\ stage = "registering" /\ Entry \in 1 .. Len(declared) /\ Entry = Len(longs) + 1
      /\ shorts' \in {shorts, WithShort(Entry)}
      /\ UNCHANGED <<declared, args, made, argn, freed, answer>>
      /\ Len(longs) \in Nat
  BY DEF Register, Entry, OptTyped, ListsRight, EntryList
<1>2. stage' \in {"registering", "freeing short", "dead"} /\ handling' \in BOOLEAN
  BY FaultStage DEF Register, OptTyped
<1>3. OptTyped'
  BY <1>1, <1>2 DEF OptTyped, OptStages
<1>4. EntryList(longs)' /\ \A i \in 1 .. Len(longs') : longs'[i] = i
  <2>1. CASE longs' = longs
    BY <1>1, <2>1 DEF ListsRight, EntryList
  <2>2. CASE longs' = Append(longs, Entry)
    <3>1. /\ longs' \in Seq(1 .. Len(declared)) /\ Len(longs') = Len(longs) + 1
          /\ \A k \in 1 .. Len(longs') : longs'[k] = k
      BY <1>1, <2>2 DEF ListsRight, EntryList
    <3> QED BY <1>1, <3>1 DEF EntryList
  <2> QED BY <2>1, <2>2 DEF Register
<1>5. /\ EntryList(shorts)'
      /\ \A i \in Elements(shorts)' : declared[i].short # <<>> /\ i <= Entry
      /\ Elements(shorts) \subseteq Elements(shorts)'
      /\ shorts' = WithShort(Entry) /\ declared[Entry].short # <<>> =>
             Entry \in Elements(shorts)'
  BY <1>1, ShortAdded
<1>6. ListsRight'
  <2>1. CASE longs' = longs /\ stage' \in {"freeing short", "dead"}
    BY <1>1, <1>4, <1>5, <2>1 DEF ListsRight, Reading
  <2>2. CASE longs' = Append(longs, Entry) /\ shorts' = WithShort(Entry)
    <3>1. Len(longs') = Len(longs) + 1
      BY <2>2 DEF ListsRight, EntryList
    <3>2. stage' \notin Reading /\ stage' # "lists" /\ Len(longs') = Entry
      BY <1>1, <1>2, <3>1 DEF Reading
    <3>3. \A i \in 1 .. Len(longs') : declared[i].short # <<>> => i \in Elements(shorts)'
      <4> SUFFICES ASSUME NEW i \in 1 .. Len(longs'), declared[i].short # <<>>
                   PROVE  i \in Elements(shorts)'
        OBVIOUS
      <4>1. CASE i = Entry
        BY <1>5, <2>2, <4>1
      <4>2. CASE i \in 1 .. Len(longs)
        BY <1>5, <4>2 DEF ListsRight
      <4> QED BY <1>1, <3>1, <4>1, <4>2
    <3>4. Len(longs') <= Len(declared') /\ declared' = declared
      BY <1>1, <3>2
    <3> QED BY <1>4, <1>5, <3>2, <3>3, <3>4 DEF ListsRight
  <2> QED BY <2>1, <2>2, FaultStage DEF Register
<1>7. FreedRight'
  <2>1. freed = {} /\ freed' = {}
    BY <1>1 DEF FreedRight, BeforeFreeing
  <2>2. FreedOf("short")' = {} /\ FreedOf("long")' = {}
    BY <2>1 DEF FreedOf
  <2>3. /\ Firsts(shorts, 0)' = {} /\ Firsts(longs, 0)' = {}
        /\ 0 \in 0 .. Len(shorts') /\ 0 \in 0 .. Len(longs')
    BY <1>1, <1>4, <1>5 DEF Firsts, EntryList
  <2>4. FreedFirsts("short", shorts)' /\ FreedFirsts("long", longs)'
    BY <2>2, <2>3 DEF FreedFirsts, Firsts
  <2> QED BY <1>2, <2>1, <2>2, <2>4 DEF FreedRight
<1>8. ArgsRight'
  BY <1>1, <1>2 DEF ArgsRight, IsDeclared
<1> QED BY <1>3, <1>6, <1>7, <1>8

(* The lists stay what they are when they are made.                        *)
LEMMA ListsKept ==
    ASSUME OptInv, UNCHANGED <<declared, args, made, shorts, longs, freed>>,
           stage \in BeforeFreeing, stage' \in Reading \cup {"freeing short", "dead"},
           stage' \in Reading => Len(longs) = Len(declared)
    PROVE  ListsRight' /\ FreedRight'
<1>1. stage' \in OptStages \ {"lists", "registering", "freeing long", "ended"}
  BY DEF Reading, OptStages
<1>2. FreedRight'
  BY <1>1, FreedKept
<1>3. EntryList(longs)' /\ EntryList(shorts)'
  <2>1. EntryList(longs) /\ EntryList(shorts)
    BY DEF OptInv, ListsRight
  <2> QED BY <2>1 DEF EntryList
<1>4. Elements(shorts)' = Elements(shorts)
  BY DEF Elements
<1>5. ListsRight'
  BY <1>1, <1>3, <1>4 DEF OptInv, ListsRight
<1> QED BY <1>2, <1>5

(* The steps between the lists and the freeing.                            *)
Moves ==
    \/ Registered \/ SkipArgument \/ TakeOption \/ PrintUsage \/ AcceptArguments
    \/ Ask \/ AskByIndex \/ Exit

LEMMA MoveStep ==
    ASSUME OptInv, Moves
    PROVE  OptInv'
<1> USE DEF OptInv
<1>1. /\ UNCHANGED <<declared, args, made, shorts, longs, freed>>
      /\ stage \in BeforeFreeing \ {"lists"}
      /\ stage' \in Reading \cup {"freeing short", "dead"}
  BY FaultStage DEF Moves, Registered, SkipArgument, Parsing, TakeOption, PrintUsage,
        AcceptArguments, Ask, AskByIndex, Exit, BeforeFreeing, Reading
<1>2. stage' \in Reading => Len(longs) = Len(declared)
  <2>1. CASE Registered
    BY <2>1 DEF Registered, Entry, ListsRight, EntryList, OptTyped
  <2>2. CASE ~Registered
    <3>1. stage \in Reading
      BY <2>2 DEF Moves, SkipArgument, Parsing, TakeOption, PrintUsage,
            AcceptArguments, Ask, AskByIndex, Exit, Reading
    <3> QED BY <3>1 DEF ListsRight
  <2> QED BY <2>1, <2>2
<1>3. ListsRight' /\ FreedRight'
  BY <1>1, <1>2, ListsKept
<1>4. argn' \in Nat \ {0} /\ handling' \in BOOLEAN
  <2>1. argn \in Nat \ {0} /\ handling \in BOOLEAN
    BY DEF OptTyped
  <2>2. argn' = argn \/ argn' = argn + 1
    BY DEF Moves, Registered, SkipArgument, TakeOption, PrintUsage, AcceptArguments,
          Ask, AskByIndex, Exit
  <2>3. handling' \in BOOLEAN
    BY <2>1, FaultStage DEF Moves, Registered, SkipArgument, TakeOption, PrintUsage,
          AcceptArguments, Ask, AskByIndex, Exit
  <2> QED BY <2>1, <2>2, <2>3
<1>5. OptTyped'
  BY <1>1, <1>4 DEF OptTyped, OptStages, Reading
<1>6. ArgsRight'
  <2>1. CASE SkipArgument
    <3>1. stage' = "parsing" /\ answer' = answer
      BY <2>1 DEF SkipArgument, Parsing
    <3> QED BY <1>1, <3>1 DEF ArgsRight, IsDeclared
  <2>2. CASE AcceptArguments
    BY <1>1, <2>2 DEF AcceptArguments, ArgsRight, IsDeclared
  <2>3. CASE TakeOption
    <3> DEFINE name == NameOf(args[argn])
    <3>1. stage' = "usage" => ~Known(name)
      BY <2>3, FaultStage DEF TakeOption
    <3>2. stage \in Reading
      BY <2>3 DEF TakeOption, Parsing, Reading
    <3>3. stage' = "usage" => ~IsDeclared(name)
      BY <3>1, <3>2, DeclaredKnown
    <3>4. UNCHANGED <<argn, answer>>
      BY <2>3 DEF TakeOption
    <3> QED BY <1>1, <3>3, <3>4 DEF ArgsRight, IsDeclared
  <2>4. CASE Ask
    <3>1. stage = "ready" /\ stage' \in {"ready", "freeing short", "dead"} /\ UNCHANGED argn
      BY <2>4, FaultStage DEF Ask
    <3>2. answer'.rc = "not exists" => ~IsDeclared(answer'.of)
      <4>1. CASE UNCHANGED answer
        BY <4>1 DEF ArgsRight
      <4>2. ASSUME NEW name, ~Known(name), answer' = [of |-> name, rc |-> "not exists"]
            PROVE  ~IsDeclared(answer'.of)
        BY <3>1, <4>2, DeclaredKnown DEF Reading
      <4> QED BY <2>4, <4>1, <4>2 DEF Ask
    <3> QED BY <1>1, <3>1, <3>2 DEF ArgsRight, IsDeclared
  <2>5. CASE AskByIndex
    <3>1. stage = "ready" /\ stage' \in {"ready", "freeing short", "dead"} /\ UNCHANGED argn
      BY <2>5, FaultStage DEF AskByIndex
    <3>2. UNCHANGED answer \/ answer'.rc = "garbage"
      BY <2>5 DEF AskByIndex
    <3> QED BY <1>1, <3>1, <3>2 DEF ArgsRight, IsDeclared
  <2>6. CASE Registered \/ PrintUsage \/ Exit
    <3>1. /\ UNCHANGED <<argn, answer>> /\ stage' # "ready"
          /\ stage' = "usage" => stage = "usage"
      BY <2>6, FaultStage DEF Registered, PrintUsage, Exit
    <3> QED BY <1>1, <3>1 DEF ArgsRight, IsDeclared
  <2> QED BY <2>1, <2>2, <2>3, <2>4, <2>5, <2>6 DEF Moves
<1> QED BY <1>3, <1>5, <1>6

-----------------------------------------------------------------------------
(* The freeing.                                                            *)

(* A record is freed behind those that were, or all are and it ends.       *)
LEMMA FreeNextRight ==
    ASSUME NEW name, NEW list, NEW next, EntryList(list), FreedFirsts(name, list),
           declared \in Seq(OptRecord), declared' = declared,
           FreeNext(name, list, next)
    PROVE  \/ /\ \E m \in 0 .. Len(list) :
                    FreedOf(name)' = Firsts(list, m)
              /\ \A other : other # name => FreedOf(other)' = FreedOf(other)
              /\ stage' \in {stage, "dead"} /\ handling' = handling
           \/ /\ FreedOf(name) = Elements(list)
              /\ freed' = freed /\ stage' = next /\ handling' = handling
<1>1. PICK m \in 0 .. Len(list) : FreedOf(name) = Firsts(list, m)
  BY DEF FreedFirsts
<1>2. Cardinality(FreedOf(name)) = m /\ Len(list) \in Nat /\ m \in Nat
  BY <1>1, FreedCount DEF EntryList
<1>3. CASE Len(list) > m /\ freed' = freed \cup {<<name, list[m + 1]>>}
  <2>1. list[m + 1] \in 1 .. Len(declared) /\ m + 1 \in 0 .. Len(list)
    BY <1>2, <1>3 DEF EntryList
  <2>2. FreedOf(name)' = FreedOf(name) \cup {list[m + 1]}
    BY <1>3, <2>1 DEF FreedOf
  <2>3. Firsts(list, m + 1) = Firsts(list, m) \cup {list[m + 1]}
    <3>1. \A k \in 1 .. m + 1 : k \in 1 .. m \/ k = m + 1
      BY <1>2
    <3>2. \A k \in 1 .. m : k \in 1 .. m + 1
      BY <1>2
    <3>3. m + 1 \in 1 .. m + 1
      BY <1>2
    <3> QED BY <3>1, <3>2, <3>3 DEF Firsts
  <2>4. FreedOf(name)' = Firsts(list, m + 1)
    BY <1>1, <2>2, <2>3
  <2>5. \A other : other # name => FreedOf(other)' = FreedOf(other)
    BY <1>3 DEF FreedOf
  <2>6. stage' \in {stage, "dead"} /\ handling' = handling
    BY <1>2, <1>3 DEF FreeNext
  <2> QED BY <2>1, <2>4, <2>5, <2>6
<1>4. CASE Len(list) = m /\ freed' = freed /\ stage' = next /\ handling' = handling
  <2>1. FreedOf(name) = Elements(list)
    BY <1>1, <1>4 DEF Firsts, Elements
  <2> QED BY <1>4, <2>1
<1> QED BY <1>2, <1>3, <1>4 DEF FreeNext

(* What counts as the first records depends on what was freed alone.       *)
LEMMA ShortsKept ==
    ASSUME FreedFirsts("short", shorts), UNCHANGED <<shorts, declared>>,
           FreedOf("short")' = FreedOf("short")
    PROVE  FreedFirsts("short", shorts)'
<1>1. PICK m \in 0 .. Len(shorts) : FreedOf("short") = {shorts[k] : k \in 1 .. m}
  BY DEF FreedFirsts, Firsts
<1>2. m \in 0 .. Len(shorts') /\ FreedOf("short")' = {shorts'[k] : k \in 1 .. m}
  BY <1>1
<1> QED BY <1>2 DEF FreedFirsts, Firsts

LEMMA LongsKept ==
    ASSUME FreedFirsts("long", longs), UNCHANGED <<longs, declared>>,
           FreedOf("long")' = FreedOf("long")
    PROVE  FreedFirsts("long", longs)'
<1>1. PICK m \in 0 .. Len(longs) : FreedOf("long") = {longs[k] : k \in 1 .. m}
  BY DEF FreedFirsts, Firsts
<1>2. m \in 0 .. Len(longs') /\ FreedOf("long")' = {longs'[k] : k \in 1 .. m}
  BY <1>1
<1> QED BY <1>2 DEF FreedFirsts, Firsts

LEMMA FreeStep ==
    ASSUME OptInv, FreeShorts \/ FreeLongs
    PROVE  OptInv'
<1> USE DEF OptInv
<1>1. /\ UNCHANGED <<declared, args, made, shorts, longs, argn, answer>>
      /\ stage \in {"freeing short", "freeing long"}
  BY DEF FreeShorts, FreeLongs
<1>2. /\ EntryList(shorts) /\ FreedFirsts("short", shorts)
      /\ EntryList(longs) /\ FreedFirsts("long", longs)
      /\ declared \in Seq(OptRecord)
  BY DEF ListsRight, FreedRight, OptTyped
<1>3. /\ handling' = handling /\ stage' \in OptStages \ (BeforeFreeing \cup Reading)
      /\ FreedRight'
  <2>1. CASE FreeShorts /\ "long" \in made
    <3>1. stage = "freeing short" /\ FreeNext("short", shorts, "freeing long")
      BY <2>1 DEF FreeShorts
    <3>2. FreedOf("long") = {}
      BY <3>1 DEF FreedRight
    <3>3. CASE /\ \E m \in 0 .. Len(shorts) : FreedOf("short")' = Firsts(shorts, m)
               /\ \A other : other # "short" => FreedOf(other)' = FreedOf(other)
               /\ stage' \in {stage, "dead"} /\ handling' = handling
      <4>1. FreedOf("long")' = {}
        BY <3>2, <3>3
      <4>2. FreedFirsts("short", shorts)'
        BY <1>1, <3>3 DEF FreedFirsts, Firsts
      <4>3. FreedFirsts("long", longs)'
        BY <1>1, <1>2, <3>2, <4>1, LongsKept
      <4> QED
        BY <3>1, <3>3, <4>1, <4>2, <4>3 DEF FreedRight, OptStages, BeforeFreeing, Reading
    <3>4. CASE /\ FreedOf("short") = Elements(shorts) /\ freed' = freed
               /\ stage' = "freeing long" /\ handling' = handling
      <4>1. FreedOf("long")' = {} /\ FreedOf("short")' = Elements(shorts)
        BY <1>1, <3>2, <3>4 DEF FreedOf
      <4>2. FreedOf("short")' = FreedOf("short") /\ FreedOf("long")' = FreedOf("long")
        BY <3>2, <3>4, <4>1
      <4>3. FreedFirsts("short", shorts)' /\ FreedFirsts("long", longs)'
        BY <1>1, <1>2, <4>2, ShortsKept, LongsKept
      <4>4. Elements(shorts)' = Elements(shorts)
        BY <1>1 DEF Elements
      <4> QED
        BY <3>4, <4>1, <4>3, <4>4 DEF FreedRight, OptStages, BeforeFreeing, Reading
    <3> QED BY <1>1, <1>2, <3>1, <3>3, <3>4, FreeNextRight
  <2>2. CASE FreeShorts /\ "long" \notin made
    <3>1. /\ freed' = freed /\ handling' = handling /\ stage' \in {"dead", "ended"}
          /\ stage = "freeing short"
      BY <2>2 DEF FreeShorts
    <3>2. FreedOf("short")' = FreedOf("short") /\ FreedOf("long")' = FreedOf("long")
      BY <1>1, <3>1 DEF FreedOf
    <3>3. FreedFirsts("short", shorts)' /\ FreedFirsts("long", longs)'
      BY <1>1, <1>2, <3>2, ShortsKept, LongsKept
    <3>4. FreedOf("long")' = {} /\ "long" \notin made'
      BY <1>1, <2>2, <3>1, <3>2 DEF FreedRight
    <3> QED
      BY <3>1, <3>3, <3>4 DEF FreedRight, OptStages, BeforeFreeing, Reading
  <2>3. CASE FreeLongs
    <3>1. stage = "freeing long" /\ FreeNext("long", longs, "ended")
      BY <2>3 DEF FreeLongs
    <3>2. FreedOf("short") = Elements(shorts) /\ Elements(shorts)' = Elements(shorts)
          /\ Elements(longs)' = Elements(longs)
      BY <1>1, <3>1 DEF FreedRight, Elements
    <3>3. CASE /\ \E m \in 0 .. Len(longs) : FreedOf("long")' = Firsts(longs, m)
               /\ \A other : other # "long" => FreedOf(other)' = FreedOf(other)
               /\ stage' \in {stage, "dead"} /\ handling' = handling
      <4>1. FreedOf("short")' = FreedOf("short")
        BY <3>3
      <4>2. FreedFirsts("short", shorts)'
        BY <1>1, <1>2, <4>1, ShortsKept, LongsKept
      <4>3. FreedFirsts("long", longs)'
        BY <1>1, <3>3 DEF FreedFirsts, Firsts
      <4> QED
        BY <3>1, <3>2, <3>3, <4>1, <4>2, <4>3 DEF FreedRight, OptStages, BeforeFreeing, Reading
    <3>4. CASE /\ FreedOf("long") = Elements(longs) /\ freed' = freed
               /\ stage' = "ended" /\ handling' = handling
      <4>1. FreedOf("short")' = FreedOf("short") /\ FreedOf("long")' = FreedOf("long")
        BY <1>1, <3>4 DEF FreedOf
      <4>2. FreedFirsts("short", shorts)' /\ FreedFirsts("long", longs)'
        BY <1>1, <1>2, <4>1, ShortsKept, LongsKept
      <4> QED
        BY <3>2, <3>4, <4>1, <4>2 DEF FreedRight, OptStages, BeforeFreeing, Reading
    <3> QED BY <1>1, <1>2, <3>1, <3>3, <3>4, FreeNextRight
  <2> QED BY <2>1, <2>2, <2>3
<1>4. OptTyped'
  BY <1>1, <1>3 DEF OptTyped
<1>5. ListsRight'
  <2>1. EntryList(longs)' /\ EntryList(shorts)'
    BY <1>1, <1>2 DEF EntryList
  <2>2. Elements(shorts)' = Elements(shorts)
    BY <1>1 DEF Elements
  <2> QED BY <1>1, <1>3, <2>1, <2>2 DEF ListsRight, BeforeFreeing
<1>6. ArgsRight'
  BY <1>1, <1>3 DEF ArgsRight, IsDeclared, BeforeFreeing, Reading
<1> QED BY <1>3, <1>4, <1>5, <1>6

LEMMA OptStepInv == OptInv /\ [OptNext]_optVars => OptInv'
<1> SUFFICES ASSUME OptInv, [OptNext]_optVars PROVE OptInv'
  OBVIOUS
<1>1. CASE MakeShorts \/ MakeLongs
  BY <1>1, MakeStep
<1>2. CASE Register
  BY <1>2, RegisterStep
<1>3. CASE Moves
  BY <1>3, MoveStep
<1>4. CASE FreeShorts \/ FreeLongs
  BY <1>4, FreeStep
<1>5. CASE UNCHANGED optVars
  <2> USE <1>5 DEF optVars, OptInv
  <2>1. OptTyped' BY DEF OptTyped
  <2>2. EntryList(longs)' /\ EntryList(shorts)' BY DEF ListsRight, EntryList
  <2>3. Elements(shorts)' = Elements(shorts) /\ Elements(longs)' = Elements(longs)
    BY DEF Elements
  <2>4. FreedOf("short")' = FreedOf("short") /\ FreedOf("long")' = FreedOf("long")
    BY DEF FreedOf
  <2>5. ListsRight' BY <2>2, <2>3 DEF ListsRight
  <2>6. FreedFirsts("short", shorts)' /\ FreedFirsts("long", longs)'
    BY <2>4, ShortsKept, LongsKept DEF FreedRight
  <2>7. FreedRight' BY <2>3, <2>4, <2>6 DEF FreedRight
  <2>8. ArgsRight' BY DEF ArgsRight, IsDeclared
  <2> QED BY <2>1, <2>5, <2>7, <2>8
<1> QED
  BY <1>1, <1>2, <1>3, <1>4, <1>5 DEF OptNext, Moves

(* For every set of declared options and every command line: nobody is     *)
(* told that a declared option does not exist, neither the client by a     *)
(* lookup nor the user by the usage text (lib.c, ina_app_init and          *)
(* __ina_opt_get).                                                         *)
THEOREM AnswersAlwaysRight == OptSpec => []AnswersRight
<1>1. OptInv => AnswersRight
  BY DEF OptInv, ArgsRight, AnswersRight
<1> QED
  BY <1>1, OptInitInv, OptStepInv, PTL DEF OptSpec

(* For every set of declared options: each record of a list is freed by a  *)
(* process that ends by itself, the short options first, also when a fault *)
(* has cut the start short (lib.c, ina_exit).                              *)
THEOREM RecordsAlwaysFreed == OptSpec => []RecordsFreed
<1>1. OptInv => RecordsFreed
  <2> SUFFICES ASSUME OptInv, stage = "ended", "long" \in made
               PROVE  \A i \in Elements(longs) \ FreedOf("short") : declared[i].short = <<>>
    BY DEF OptInv, FreedRight, RecordsFreed
  <2>1. FreedOf("short") = Elements(shorts)
    BY DEF OptInv, FreedRight
  <2>2. \A i \in Elements(longs) : i \in 1 .. Len(longs)
    BY DEF OptInv, ListsRight, Elements
  <2> QED BY <2>1, <2>2 DEF OptInv, ListsRight
<1> QED
  BY <1>1, OptInitInv, OptStepInv, PTL DEF OptSpec

-----------------------------------------------------------------------------
(* Return codes.                                                           *)


(* A reported error, or none.                                              *)
Errors == Reported \cup {NoError}

ErrTypeOK ==
    /\ rcs \in [Threads -> RC]
    /\ said \in [Threads -> [err : Errors, errno : Nat, ubits : Nat,
                             open : BOOLEAN]]

(* What a return code of each thread consists of.                          *)
RcCarries(t) ==
    /\ rcs[t].low = Word(said[t].err) /\ rcs[t].o = said[t].errno
    /\ rcs[t].u = said[t].ubits
    /\ rcs[t].e = 1 <=> said[t].open

ErrInv == ErrTypeOK /\ \A t \in Threads : RcCarries(t)

-----------------------------------------------------------------------------
(* The errors.                                                             *)

LEMMA ErrorsType ==
    ASSUME NEW err \in Errors
    PROVE  /\ err.code \in Int /\ 0 <= err.code /\ err.code <= 157
           /\ err.neg \in BOOLEAN
           /\ err.subject \in Int /\ 0 <= err.subject /\ err.subject < NotBit
           /\ Word(err) \in Nat
<1>1. /\ err.code \in Int /\ 0 <= err.code /\ err.code <= 157
      /\ err.neg \in BOOLEAN
      /\ err.subject \in Int /\ 0 <= err.subject /\ err.subject < NotBit
  <2>1. CASE err = NoError
    BY <2>1 DEF NoError, NotBit
  <2>2. CASE err \in Reported
    BY <2>2, ErrorCodeAssumption DEF Codes
  <2> QED
    BY <2>1, <2>2 DEF Errors
<1>2. Positive(err.code) \in Nat /\ Negative(err.code) \in Nat
  BY <1>1, SMT DEF Negative, Positive, NotBit, CodeUnit
<1>3. Reason(err) \in Nat
  BY <1>1, <1>2 DEF Reason
<1> QED
  BY <1>1, <1>3, SMT DEF Word, ErrorOf

-----------------------------------------------------------------------------
(* The invariant.                                                          *)

LEMMA ErrInitInv == ErrInit => ErrInv
<1> SUFFICES ASSUME ErrInit PROVE ErrInv
  OBVIOUS
<1>1. Success \in RC
  BY DEF Success, RC
<1>2. Untold \in [err : Errors, errno : Nat, ubits : Nat, open : BOOLEAN]
  BY DEF Untold, Errors
<1>3. ErrTypeOK
  BY <1>1, <1>2 DEF ErrInit, ErrTypeOK
<1>4. Word(NoError) = 0
  BY DEF Word, ErrorOf, Reason, Positive, NoError, CodeUnit
<1> QED
  BY <1>3, <1>4 DEF ErrInit, ErrInv, RcCarries, Success, Untold

(* Each thread changes its own return code only.                           *)
LEMMA OwnStep ==
    ASSUME ErrInv, NEW t \in Threads, NEW rc, NEW h,
           rcs' = [rcs EXCEPT ![t] = rc], said' = [said EXCEPT ![t] = h],
           rc \in RC,
           h \in [err : Errors, errno : Nat, ubits : Nat, open : BOOLEAN],
           rc.low = Word(h.err), rc.o = h.errno, rc.u = h.ubits, rc.e = 1 <=> h.open
    PROVE  ErrInv'
<1>1. ErrTypeOK'
  BY DEF ErrInv, ErrTypeOK
<1>2. ASSUME NEW i \in Threads PROVE RcCarries(i)'
  <2>1. rcs'[i] = IF i = t THEN rc ELSE rcs[i]
    BY DEF ErrInv, ErrTypeOK
  <2>2. said'[i] = IF i = t THEN h ELSE said[i]
    BY DEF ErrInv, ErrTypeOK
  <2>3. RcCarries(i)
    BY DEF ErrInv
  <2> QED
    BY <2>1, <2>2, <2>3 DEF RcCarries
<1> QED
  BY <1>1, <1>2 DEF ErrInv

LEMMA SetRcInv == ASSUME ErrInv, NEW t \in Threads, SetRc(t) PROVE ErrInv'
<1>1. PICK err \in Reported, errno \in Errnos \cup {0} :
          /\ rcs' = [rcs EXCEPT ![t] = Pack(Word(err), errno)]
          /\ said' = [said EXCEPT ![t] =
                        [err |-> err, errno |-> errno, ubits |-> 0, open |-> TRUE]]
  BY DEF SetRc
<1>2. err \in Errors /\ errno \in Nat
  BY ErrorCodeAssumption DEF Errors
<1>3. Word(err) \in Nat
  BY <1>2, ErrorsType
<1>4. Pack(Word(err), errno) \in RC
  BY <1>2, <1>3, ErrorCodeAssumption DEF Pack, RC
<1> DEFINE h == [err |-> err, errno |-> errno, ubits |-> 0, open |-> TRUE]
<1>5. h \in [err : Errors, errno : Nat, ubits : Nat, open : BOOLEAN]
  BY <1>2
<1>6. Pack(Word(err), errno).low = Word(h.err) /\ Pack(Word(err), errno).o = h.errno
  BY DEF Pack
<1>7. Pack(Word(err), errno).u = h.ubits /\ (Pack(Word(err), errno).e = 1 <=> h.open)
  BY DEF Pack
<1> HIDE DEF h
<1>8. said' = [said EXCEPT ![t] = h]
  BY <1>1 DEF h
<1> QED
  BY <1>1, <1>4, <1>5, <1>6, <1>7, <1>8, OwnStep

LEMMA ResetInv == ASSUME ErrInv, NEW t \in Threads, Reset(t) PROVE ErrInv'
<1> DEFINE rc == [rcs[t] EXCEPT !.e = 0]
           h == [said[t] EXCEPT !.open = FALSE]
<1>1. rcs[t] \in RC /\ RcCarries(t)
      /\ said[t] \in [err : Errors, errno : Nat, ubits : Nat, open : BOOLEAN]
  BY DEF ErrInv, ErrTypeOK
<1>2. rc \in RC /\ rc.e = 0 /\ rc.low = rcs[t].low /\ rc.o = rcs[t].o /\ rc.u = rcs[t].u
  BY <1>1 DEF RC
<1>3. /\ h \in [err : Errors, errno : Nat, ubits : Nat, open : BOOLEAN]
      /\ h.err = said[t].err /\ h.errno = said[t].errno /\ h.ubits = said[t].ubits
      /\ h.open = FALSE
  BY <1>1
<1>4. rcs' = [rcs EXCEPT ![t] = rc]
  BY DEF Reset, ClearRc
<1>5. said' = [said EXCEPT ![t] = h]
  BY DEF Reset
<1> HIDE DEF rc, h
<1>6. rc.low = Word(h.err) /\ rc.o = h.errno /\ rc.u = h.ubits
  BY <1>1, <1>2, <1>3 DEF RcCarries
<1>7. rc.e = 1 <=> h.open
  BY <1>2, <1>3
<1> QED
  BY <1>2, <1>3, <1>4, <1>5, <1>6, <1>7, OwnStep

LEMMA SetUbitsInv == ASSUME ErrInv, NEW t \in Threads, SetUbits(t) PROVE ErrInv'
<1>1. PICK ubits \in UserBits :
          /\ rcs' = [rcs EXCEPT ![t] = WithUbits(@, ubits)]
          /\ said' = [said EXCEPT ![t].ubits = ubits]
  BY DEF SetUbits
<1> DEFINE rc == [rcs[t] EXCEPT !.u = ubits]
           h == [said[t] EXCEPT !.ubits = ubits]
<1>2. rcs[t] \in RC /\ RcCarries(t) /\ ubits \in Nat
      /\ said[t] \in [err : Errors, errno : Nat, ubits : Nat, open : BOOLEAN]
  BY ErrorCodeAssumption DEF ErrInv, ErrTypeOK
<1>3. rc \in RC /\ rc.u = ubits /\ rc.low = rcs[t].low /\ rc.o = rcs[t].o /\ rc.e = rcs[t].e
  BY <1>2 DEF RC
<1>4. /\ h \in [err : Errors, errno : Nat, ubits : Nat, open : BOOLEAN]
      /\ h.err = said[t].err /\ h.errno = said[t].errno /\ h.open = said[t].open
      /\ h.ubits = ubits
  BY <1>2
<1>5. rcs' = [rcs EXCEPT ![t] = rc] /\ said' = [said EXCEPT ![t] = h]
  BY <1>1 DEF WithUbits
<1> HIDE DEF rc, h
<1>6. rc.low = Word(h.err) /\ rc.o = h.errno /\ rc.u = h.ubits
  BY <1>2, <1>3, <1>4 DEF RcCarries
<1>7. rc.e = 1 <=> h.open
  BY <1>2, <1>3, <1>4, Zenon DEF RcCarries
<1> QED
  BY <1>3, <1>4, <1>5, <1>6, <1>7, OwnStep

LEMMA ErrStepInv == ErrInv /\ [ErrNext]_errVars => ErrInv'
<1> SUFFICES ASSUME ErrInv, [ErrNext]_errVars PROVE ErrInv'
  OBVIOUS
<1>1. CASE UNCHANGED <<rcs, said>>
  BY <1>1 DEF ErrInv, ErrTypeOK, RcCarries
<1>2. CASE \E t \in Threads : SetRc(t) \/ Reset(t) \/ SetUbits(t)
  BY <1>2, SetRcInv, ResetInv, SetUbitsInv
<1>3. CASE InitErrors
  BY <1>1, <1>3 DEF InitErrors
<1>4. CASE \E t \in Threads : RegisterDict(t) \/ Strerror(t) \/ MustSucceed(t)
  BY <1>1, <1>4 DEF RegisterDict, Strerror, MustSucceed
<1>5. CASE UNCHANGED errVars
  BY <1>1, <1>5 DEF errVars
<1> QED
  BY <1>2, <1>3, <1>4, <1>5 DEF ErrNext

-----------------------------------------------------------------------------
(* What the invariant means to a client.                                   *)

(* The fields of the low bits do not overlap, and INA_MID_BITS cuts out    *)
(* the reason when the two bits it gets wrong are 0.                       *)
LEMMA CarriesTells == ASSUME ErrInv, NEW t \in Threads PROVE Told(t) /\ SmallReason(t)
<1> DEFINE err == said[t].err
           c == err.code
           s == err.subject
           n == IF err.neg THEN 1 ELSE 0
           low == rcs[t].low
<1>1. err \in Errors /\ RcCarries(t) /\ rcs[t] \in RC
  BY DEF ErrInv, ErrTypeOK
<1>2. /\ c \in Int /\ 0 <= c /\ c <= 157 /\ err.neg \in BOOLEAN
      /\ s \in Int /\ 0 <= s /\ s < 32768
  BY <1>1, ErrorsType DEF NotBit
<1>3. low = c * 65536 + n * 32768 + s /\ low \in Int
  BY <1>1, <1>2 DEF RcCarries, RC, Word, ErrorOf, Reason, Negative, Positive, NotBit, CodeUnit
<1>4. n \in Int /\ 0 <= n /\ n <= 1
  BY <1>2
<1>5. Reason(err) = c * 65536 + n * 32768
  BY <1>2, SMT DEF Reason, Negative, Positive, NotBit, CodeUnit
<1>6. n = 1 <=> err.neg
  BY <1>2
<1> HIDE DEF c, s, n, low
<1>7. low \div 65536 = c
  BY <1>2, <1>3, <1>4, SMT
<1>8. (low \div 32768) % 2 = n
  <2>1. low \div 32768 = 2 * c + n
    BY <1>2, <1>3, <1>4, SMT
  <2> QED
    BY <1>2, <1>4, <2>1, SMT
<1>9. low % 32768 = s
  <2> DEFINE high == 2 * c + n
  <2>1. low = 32768 * high + s /\ high \in Int
    BY <1>2, <1>3, <1>4, SMT
  <2> HIDE DEF high
  <2> QED
    BY <1>2, <2>1, SMT
<1>10. Adj(rcs[t]) = c /\ NFlag(rcs[t]) = n /\ Subject(rcs[t]) = s
  BY <1>7, <1>8, <1>9 DEF low, Adj, NFlag, Subject, NotBit, CodeUnit
<1>11. Told(t)
  <2>1. Failed(rcs[t]) <=> said[t].open
    BY <1>1, Zenon DEF RcCarries, Failed, EFlag
  <2>2. Ubits(rcs[t]) = said[t].ubits /\ Errno(rcs[t]) = said[t].errno
    BY <1>1 DEF RcCarries, Ubits, Errno
  <2>3. Adj(rcs[t]) = err.code /\ Subject(rcs[t]) = err.subject
    BY <1>10 DEF c, s
  <2>4. NFlag(rcs[t]) = 1 <=> err.neg
    BY <1>6, <1>10, Zenon
  <2>5. ErrMsg(rcs[t]) = Word(err)
    BY <1>1, Zenon DEF RcCarries, ErrMsg
  <2> QED
    BY <2>1, <2>2, <2>3, <2>4, <2>5, Zenon DEF Told
<1>12. SmallReason(t)
  <2> SUFFICES ASSUME c < 128, s < 16384 PROVE RcError(rcs[t]) = Reason(err)
    BY SMT DEF SmallReason, NotBit, c, s
  <2>1. low \div 16384 = 4 * c + 2 * n
    BY <1>2, <1>3, <1>4, SMT
  <2>2. (4 * c + 2 * n) % 512 = 4 * c + 2 * n
    BY <1>2, <1>4, SMT
  <2>3. 16384 * ((low \div 16384) % 512) = c * 65536 + n * 32768
    BY <1>2, <1>4, <2>1, <2>2, SMT
  <2> QED
    BY <2>3, <1>5, SMT DEF low, RcError, NotBit
<1> QED
  BY <1>11, <1>12

(* Whatever threads, errors and marks there are, a thread can tell the     *)
(* error it has last set from its return code, with INA_RC_ERROR as long   *)
(* as neither the code nor the subject uses its top bit (error.h:33-45).   *)
THEOREM ReturnCodesTell == ErrSpec => []RcTells
<1>1. ErrInv => RcTells
  BY CarriesTells DEF RcTells
<1> QED
  BY <1>1, ErrInitInv, ErrStepInv, PTL DEF ErrSpec
=============================================================================
