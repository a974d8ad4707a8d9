------------------------------ MODULE Lifecycle ------------------------------
(***************************************************************************)
(* The start and the end of a program that uses the library                *)
(* (src/src/lib.c, lib.h): ina_init and ina_app_init with the guards that  *)
(* let them run once, ina_exit as called by the client and through atexit, *)
(* and the signal handler, which interrupts the program at any point and   *)
(* may call exit from there.                                               *)
(*                                                                         *)
(* There are two contexts, main and the signal handler above it.  Each     *)
(* signal is handled with all others blocked (sigfillset), so there is one *)
(* handler at a time, and one that calls exit is not interrupted any more. *)
(* Options are only parsed here with one of their outcomes.                *)
(***************************************************************************)
EXTENDS Integers, Sequences

CONSTANTS
    Builds,      \* values of INA_DEBUG, under which a guard is an assertion
    MayFail,     \* whether atexit and malloc may fail
    Hooked,      \* bound: the signals clients register handlers for
    MaxInits,    \* bound: how many times the client calls an init function
    MaxSignals   \* bound: how many signals are sent to the process

(* One signal for each way __ina_signal_handler treats them: SEGV stands   *)
(* for FPE and ILL, TERM for INT, HUP, QUIT, TTIN and TTOU.  BUS has the   *)
(* handler, but no case in its switch.  KILL cannot be caught.             *)
InstallOrder == <<"ABRT", "TERM", "SEGV", "BUS">>
Signal == {"ABRT", "TERM", "SEGV", "BUS"}
ProgramErrors == {"ABRT", "SEGV"}

Context == {"main", "handler"}

ASSUME LifecycleAssumption ==
    /\ Builds \subseteq BOOLEAN /\ MayFail \in BOOLEAN
    /\ Hooked \subseteq Signal
    /\ MaxInits \in Nat /\ MaxSignals \in Nat

VARIABLES
    debug,     \* whether this is a build with INA_DEBUG
    pos,       \* where main and the signal handler are
    caller,    \* who called ina_init or ina_exit in main
    passed,    \* the guards that are set: "lib", "app", "exit"
    atexit,    \* whether exit is going to call ina_exit
    caught,    \* the signals with the library's handler
    registry,  \* __pools: NULL or a list
    cleanup,   \* whether the client has set a cleanup handler
    hook,      \* __signal_handler_map
    handler,   \* the signal that is being handled
    signaled,  \* the static variable of __ina_signal_handler
    exitcode,  \* the other one
    code,      \* the argument of the last call of exit
    status,    \* how the process has ended
    told,      \* what the last init function has returned
    ghost      \* calls of the cleanup handler and of init, signals, failure

program == <<caller, passed, atexit, caught, registry, cleanup, hook, told>>
signals == <<handler, signaled, exitcode, hook>>
vars == <<debug, pos, caller, passed, atexit, caught, registry, cleanup, hook,
          handler, signaled, exitcode, code, status, told, ghost>>

Runs(c) ==
    /\ status = "alive"
    /\ IF handler = "none" THEN c = "main" ELSE c = "handler"

At(c, label) == Runs(c) /\ pos[c] = label

Goto(c, label) == pos' = [pos EXCEPT ![c] = label]

(* The assertion in INA_INIT_GUARD and INA_DESTROY_GUARD; without INA_DEBUG *)
(* the function returns.                                                   *)
GuardSet(c, return) == Goto(c, IF debug THEN "abort" ELSE return)

-----------------------------------------------------------------------------
(* The client.                                                             *)

Serving == "exit" \notin passed

CallInit ==
    /\ At("main", "client") /\ Serving
    /\ ghost.inits < MaxInits
    /\ caller' \in {"client", "app"}
    /\ Goto("main", "init")
    /\ ghost' = [ghost EXCEPT !.inits = @ + 1]
    /\ UNCHANGED <<debug, passed, atexit, caught, registry, cleanup, hook, handler,
                   signaled, exitcode, code, status, told>>

SetCleanup ==
    /\ At("main", "client") /\ Serving
    /\ cleanup' \in BOOLEAN
    /\ UNCHANGED <<debug, pos, caller, passed, atexit, caught, registry, signals,
                   code, status, told, ghost>>

RegisterHook ==
    /\ At("main", "client")
    /\ \E s \in Hooked, h \in {"default", "ignore"} : hook' = [hook EXCEPT ![s] = h]
    /\ UNCHANGED <<debug, pos, caller, passed, atexit, caught, registry, cleanup,
                   handler, signaled, exitcode, code, status, told, ghost>>

(* A pool call is under way, with the registry in the middle of an update. *)
UsePools ==
    /\ At("main", "client") /\ Serving /\ told = "ok"
    /\ Goto("main", "using")
    /\ UNCHANGED <<debug, program, signals, code, status, ghost>>

(* A new pool is put into __pools without a test for NULL.                 *)
PoolsUsed ==
    /\ At("main", "using")
    /\ Goto("main", IF registry = "live" THEN "client" ELSE "fault")
    /\ UNCHANGED <<debug, program, signals, code, status, ghost>>

(* The client reads or writes where it must not.                           *)
ClientFaults ==
    /\ At("main", "client")
    /\ Goto("main", "fault")
    /\ UNCHANGED <<debug, program, signals, code, status, ghost>>

CallExit ==
    /\ At("main", "client")
    /\ \/ caller' = "client" /\ Goto("main", "leave") /\ UNCHANGED code
       \/ code' \in {0, 1} /\ Goto("main", "exit") /\ UNCHANGED caller
    /\ UNCHANGED <<debug, passed, atexit, caught, registry, cleanup, signals,
                   status, told, ghost>>

Client ==
    \/ CallInit \/ SetCleanup \/ RegisterHook \/ UsePools
    \/ ClientFaults \/ CallExit

-----------------------------------------------------------------------------
(* ina_init and ina_app_init.                                              *)

(* A failed ina_init is what a failed ina_app_init returns.                *)
InitSucceeds ==
    IF caller = "app" THEN Goto("main", "app") /\ UNCHANGED told
    ELSE Goto("main", "client") /\ told' = "ok"

InitFails == Goto("main", "client") /\ told' = "failed"

Failing == [ghost EXCEPT !.failed = TRUE]

Initialized ==
    /\ At("main", "init") /\ "lib" \in passed
    /\ IF debug THEN Goto("main", "abort") /\ UNCHANGED told ELSE InitSucceeds
    /\ UNCHANGED <<debug, caller, passed, atexit, caught, registry, cleanup,
                   signals, code, status, ghost>>

InitBegins ==
    /\ At("main", "init") /\ "lib" \notin passed
    /\ passed' = passed \cup {"lib"}
    /\ Goto("main", "atexit")
    /\ UNCHANGED <<debug, caller, atexit, caught, registry, cleanup, signals,
                   code, status, told, ghost>>

Atexit ==
    /\ At("main", "atexit")
    /\ atexit' = "pending" /\ Goto("main", "signals")
    /\ UNCHANGED <<debug, caller, passed, caught, registry, cleanup, signals,
                   code, status, told, ghost>>

AtexitFails ==
    /\ At("main", "atexit") /\ MayFail
    /\ InitFails /\ ghost' = Failing
    /\ UNCHANGED <<debug, caller, passed, atexit, caught, registry, cleanup,
                   signals, code, status>>

CatchSignal ==
    /\ At("main", "signals")
    /\ \E i \in 1 .. Len(InstallOrder) :
          /\ InstallOrder[i] \notin caught
          /\ \A j \in 1 .. i - 1 : InstallOrder[j] \in caught
          /\ caught' = caught \cup {InstallOrder[i]}
    /\ Goto("main", IF caught' = Signal THEN "pools" ELSE "signals")
    /\ UNCHANGED <<debug, caller, passed, atexit, registry, cleanup, signals,
                   code, status, told, ghost>>

NewRegistry ==
    /\ At("main", "pools")
    /\ registry' = "live" /\ InitSucceeds
    /\ UNCHANGED <<debug, caller, passed, atexit, caught, cleanup, signals,
                   code, status, ghost>>

(* Mutant: the error of malloc is not passed on.                           *)
RegistryForgotten ==
    /\ At("main", "pools") /\ MayFail
    /\ InitSucceeds
    /\ UNCHANGED <<debug, caller, passed, atexit, caught, registry, cleanup,
                   signals, code, status, ghost>>

NewRegistryFails ==
    /\ At("main", "pools") /\ MayFail
    /\ InitFails /\ ghost' = Failing
    /\ UNCHANGED <<debug, caller, passed, atexit, caught, registry, cleanup,
                   signals, code, status>>

AppGuard ==
    /\ At("main", "app")
    /\ IF "app" \in passed THEN GuardSet("main", "client") /\ told' = "ok"
       ELSE Goto("main", "options") /\ UNCHANGED told
    /\ passed' = passed \cup {"app"}
    /\ UNCHANGED <<debug, caller, atexit, caught, registry, cleanup, signals,
                   code, status, ghost>>

(* A usage text is printed for ever (its second loop does not advance)     *)
(* unless the table of options is empty and the call just fails; without   *)
(* memory the lists are given up with abort, an option faults.             *)
ParseOptions ==
    /\ At("main", "options")
    /\ \/ Goto("main", "client") /\ told' = "ok"
       \/ InitFails
       \/ Goto("main", "usage") /\ UNCHANGED told
       \/ MayFail /\ (Goto("main", "abort") \/ Goto("main", "fault")) /\ UNCHANGED told
    /\ UNCHANGED <<debug, caller, passed, atexit, caught, registry, cleanup,
                   signals, code, status, ghost>>

Starting ==
    \/ Initialized \/ InitBegins \/ Atexit \/ AtexitFails \/ CatchSignal
    \/ NewRegistry \/ NewRegistryFails \/ AppGuard \/ ParseOptions \/ PoolsUsed

-----------------------------------------------------------------------------
(* exit and ina_exit, in either context.                                   *)

(* exit takes a function off the list before it calls it: called again     *)
(* while ina_exit runs it ends the process.                                *)
ExitCallsBack(c) ==
    /\ At(c, "exit") /\ atexit = "pending"
    /\ atexit' = "called" /\ Goto(c, "leave")
    /\ caller' = IF c = "main" THEN "exit" ELSE caller
    /\ UNCHANGED <<debug, passed, caught, registry, cleanup, signals, code, status,
                   told, ghost>>

ExitEndsProcess(c) ==
    /\ At(c, "exit") /\ atexit # "pending"
    /\ status' = IF code = 0 THEN "success" ELSE "failure"
    /\ UNCHANGED <<debug, pos, program, signals, code, ghost>>

LeaveFor(c) == IF c = "main" THEN caller ELSE "exit"

(* Mutants: ina_exit has no guard; who finds the guard set waits until the *)
(* pools are gone.                                                         *)
LeaveWaiting(c) ==
    /\ At(c, "leave")
    /\ IF "exit" \in passed THEN registry = "none" /\ GuardSet(c, LeaveFor(c))
       ELSE Goto(c, "mark")
    /\ UNCHANGED <<debug, program, signals, code, status, ghost>>

LeaveUnguarded(c) ==
    /\ At(c, "leave")
    /\ Goto(c, "mark")
    /\ UNCHANGED <<debug, program, signals, code, status, ghost>>

LeaveGuard(c) ==
    /\ At(c, "leave")
    /\ IF "exit" \in passed THEN GuardSet(c, LeaveFor(c)) ELSE Goto(c, "mark")
    /\ UNCHANGED <<debug, program, signals, code, status, ghost>>

LeaveMark(c) ==
    /\ At(c, "mark")
    /\ passed' = passed \cup {"exit"} /\ Goto(c, "cleanup")
    /\ UNCHANGED <<debug, caller, atexit, caught, registry, cleanup, signals,
                   code, status, told, ghost>>

(* Mutant: the cleanup handler is forgotten.                               *)
NoCleanup(c) ==
    /\ At(c, "cleanup")
    /\ Goto(c, "destroy")
    /\ UNCHANGED <<debug, program, signals, code, status, ghost>>

CleanUp(c) ==
    /\ At(c, "cleanup")
    /\ ghost' = IF cleanup THEN [ghost EXCEPT !.cleanups = @ + 1] ELSE ghost
    /\ Goto(c, "destroy")
    /\ UNCHANGED <<debug, program, signals, code, status>>

(* ina_mempool_destroy walks __pools without a test for NULL, and what it  *)
(* meets when a pool call was interrupted may lead anywhere.               *)
Torn == pos["main"] = "using"

DestroyPools(c) ==
    /\ At(c, "destroy") /\ registry = "live"
    /\ registry' = "none" /\ Goto(c, LeaveFor(c))
    /\ UNCHANGED <<debug, caller, passed, atexit, caught, cleanup, signals,
                   code, status, told, ghost>>

(* A fault raises SEGV.  The kernel ends the process if that is blocked or *)
(* has no handler; if the handler returns, the instruction faults again.   *)
Faults(c) ==
    /\ \/ At(c, "fault")
       \/ At(c, "destroy") /\ (registry = "none" \/ Torn)
    /\ IF c = "main" /\ "SEGV" \in caught
       THEN handler' = "SEGV" /\ Goto("handler", "begin") /\ UNCHANGED status
       ELSE status' = "killed" /\ UNCHANGED <<handler, pos>>
    /\ UNCHANGED <<debug, program, signaled, exitcode, code, ghost>>

(* abort raises ABRT, and again with the default action if that returns.   *)
Aborts(c) ==
    /\ At(c, "abort")
    /\ IF c = "main" /\ "ABRT" \in caught
       THEN /\ handler' = "ABRT" /\ UNCHANGED status
            /\ pos' = [pos EXCEPT !["main"] = "aborted", !["handler"] = "begin"]
       ELSE status' = "killed" /\ UNCHANGED <<handler, pos>>
    /\ UNCHANGED <<debug, program, signaled, exitcode, code, ghost>>

Aborted ==
    /\ At("main", "aborted")
    /\ status' = "killed"
    /\ UNCHANGED <<debug, pos, program, signals, code, ghost>>

Leaving(c) ==
    \/ ExitCallsBack(c) \/ ExitEndsProcess(c) \/ LeaveGuard(c) \/ LeaveMark(c)
    \/ CleanUp(c) \/ DestroyPools(c) \/ Faults(c) \/ Aborts(c)

-----------------------------------------------------------------------------
(* __ina_signal_handler.                                                   *)

(* The handler returns, and main goes on.                                  *)
Resume == handler' = "none" /\ Goto("handler", "idle")

(* Mutant: the test of the behaviour is inverted.                          *)
Inverted(s) == hook[s] # "ignore"

Ignored(s) == hook[s] = "ignore"

ExitArgument(s, asked) == IF s \in ProgramErrors THEN 1 ELSE asked

AlreadySignaled ==
    /\ At("handler", "begin") /\ signaled # "none"
    /\ Resume
    /\ UNCHANGED <<debug, program, signaled, exitcode, code, status, ghost>>

(* abort with ABRT blocked: the handler is called and returns at once.     *)
UnknownSignal ==
    /\ At("handler", "begin") /\ signaled = "none" /\ handler = "BUS"
    /\ signaled' = handler /\ Goto("handler", "abort")
    /\ UNCHANGED <<debug, program, handler, exitcode, code, status, ghost>>

(* The client's handler, if any, may set the exit code.                    *)
Hears ==
    /\ At("handler", "begin") /\ signaled = "none" /\ handler # "BUS"
    /\ signaled' = handler
    /\ exitcode' \in IF hook[handler] = "none" THEN {exitcode} ELSE {0, 1}
    /\ IF Ignored(handler) THEN Resume /\ UNCHANGED code
       ELSE /\ code' = ExitArgument(handler, exitcode')
            /\ Goto("handler", "exit") /\ UNCHANGED handler
    /\ UNCHANGED <<debug, program, status, ghost>>

Handling == AlreadySignaled \/ UnknownSignal \/ Hears

-----------------------------------------------------------------------------
(* Signals from elsewhere.                                                 *)

Deliver(s) ==
    /\ Runs("main") /\ ghost.signals < MaxSignals
    /\ ghost' = [ghost EXCEPT !.signals = @ + 1]
    /\ IF s \in caught
       THEN handler' = s /\ Goto("handler", "begin") /\ UNCHANGED status
       ELSE status' = "killed" /\ UNCHANGED <<handler, pos>>
    /\ UNCHANGED <<debug, program, signaled, exitcode, code>>

Kill ==
    /\ status = "alive" /\ ghost.signals < MaxSignals
    /\ status' = "killed"
    /\ UNCHANGED <<debug, pos, program, signals, code, ghost>>

-----------------------------------------------------------------------------
Init ==
    /\ debug \in Builds
    /\ pos = [c \in Context |-> IF c = "main" THEN "client" ELSE "idle"]
    /\ caller = "client" /\ passed = {} /\ atexit = "none" /\ caught = {}
    /\ registry = "none" /\ cleanup = FALSE /\ hook = [s \in Signal |-> "none"]
    /\ handler = "none" /\ signaled = "none" /\ exitcode = 0 /\ code = 0
    /\ status = "alive" /\ told = "nothing"
    /\ ghost = [cleanups |-> 0, inits |-> 0, signals |-> 0, failed |-> FALSE]

(* What the process does by itself, once main or the handler are in the    *)
(* library, the C library or the kernel.                                   *)
Library == Starting \/ Aborted \/ Handling \/ \E c \in Context : Leaving(c)

Next == Client \/ Library \/ Kill \/ \E s \in Signal : Deliver(s)

(* The kernel lets the process run; clients and signals promise nothing.   *)
Spec == Init /\ [][Next]_vars /\ WF_vars(Library)

-----------------------------------------------------------------------------
(* Properties.                                                             *)

MainPosition ==
    {"client", "using", "init", "atexit", "signals", "pools", "app", "options",
     "usage", "fault", "abort", "aborted", "exit", "leave", "mark", "cleanup",
     "destroy"}
HandlerPosition ==
    {"idle", "begin", "abort", "exit", "leave", "mark", "cleanup", "destroy"}

GhostType ==
    [cleanups : Nat, inits : 0 .. MaxInits, signals : 0 .. MaxSignals,
     failed : BOOLEAN]

(* Every variable has its type, and the handler is in place exactly while  *)
(* there is a signal to handle.                                            *)
TypeOK ==
    /\ debug \in Builds
    /\ pos \in [Context -> MainPosition \cup HandlerPosition]
    /\ pos["main"] \in MainPosition /\ pos["handler"] \in HandlerPosition
    /\ caller \in {"client", "app", "exit"}
    /\ passed \subseteq {"lib", "app", "exit"}
    /\ atexit \in {"none", "pending", "called"}
    /\ caught \subseteq Signal /\ registry \in {"none", "live"}
    /\ cleanup \in BOOLEAN /\ hook \in [Signal -> {"none", "default", "ignore"}]
    /\ handler \in Signal \cup {"none"} /\ signaled \in Signal \cup {"none"}
    /\ (handler = "none") <=> (pos["handler"] = "idle")
    /\ exitcode \in {0, 1} /\ code \in {0, 1}
    /\ status \in {"alive", "success", "failure", "killed"}
    /\ told \in {"nothing", "ok", "failed"}
    /\ ghost \in GhostType

Ended == status # "alive"

Exited == status \in {"success", "failure"}

(* The cleanup handler is called at most once, whether ina_exit is called  *)
(* by the client, through atexit, or from a signal handler while one of    *)
(* these is at work (lib.h: "This function is called automatically once    *)
(* before the application terminate").                                     *)
CleanupOnce == ghost.cleanups <= 1

(* A process that exits has called the cleanup handler, which is the       *)
(* client's "last chance to cleanup before the program exits" (lib.h), if  *)
(* the library was initialized.  The exception is a signal that arrives    *)
(* when main is in ina_exit and has not called the handler yet: the exit   *)
(* of the signal handler then finds nothing to call, or the guard set.     *)
CleanupRan ==
    Exited /\ atexit # "none" /\ cleanup =>
        ghost.cleanups = 1 \/ pos["main"] \in {"leave", "mark", "cleanup"}

(* After a successful init there is a registry of pools, until the exit.   *)
PoolsReady == told = "ok" /\ Serving => registry = "live"

(* That holds as long as no earlier call of init has failed.               *)
PoolsReadyUnlessRetried == ghost.failed \/ PoolsReady

(* A program error is never reported as success, whatever exit code the    *)
(* client's handler asks for and whatever was interrupted.                 *)
ErrorsFail == status = "success" => handler \notin ProgramErrors

InExit(c) ==
    pos[c] = "exit" \/
        (pos[c] \in {"leave", "mark", "cleanup", "destroy"} /\ LeaveFor(c) = "exit")

(* With a registry to destroy, exit comes to its end whatever signals      *)
(* arrive.  Without one it does not: ina_exit faults, and after a signal   *)
(* that was ignored the handler returns to the same fault again and again. *)
ExitEnds == (InExit("main") \/ InExit("handler")) /\ registry = "live" ~> Ended

(* A fault ends the process unless a signal was or may be ignored: the     *)
(* handler takes the first signal only and returns for all later ones.     *)
CrashEnds ==
    pos["main"] = "fault" /\ signaled = "none" /\ (\A s \in Signal : hook[s] # "ignore")
        ~> Ended
=============================================================================
