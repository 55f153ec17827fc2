------------------------------- MODULE Daemon -------------------------------
(***************************************************************************)
(* The life of the process: the constructor, the main loop and the         *)
(* destructor of CapiSuite (application/capisuite.cpp), the thread of the  *)
(* idle script (idlescript.cpp), the thread of each call                   *)
(* (incomingscript.cpp), and the lock of the Python interpreter they       *)
(* share.  What the threads do with their calls is in CallModules, what    *)
(* the idle script does with its jobs in FaxQueue.                         *)
(*                                                                         *)
(* Python code runs under the lock; commands of module capisuite run       *)
(* without.  Nobody waits for the threads of the calls at the end of the   *)
(* process; the one of the idle script is cancelled where POSIX allows it. *)
(***************************************************************************)
EXTENDS Naturals, Sequences

CONSTANTS
    Calls,          \* calls that come in
    Main, Idle,     \* the main thread, the thread of the idle script
    None,           \* nobody
    Configurations  \* the conditions, one of which Init chooses

(* idle: an idle script is configured; faults: steps that may fail; calls: *)
(* the calls there are.                                                    *)
ASSUME DaemonAssumption ==
    /\ Main \notin Calls /\ Idle \notin Calls /\ Main # Idle
    /\ None \notin Calls \cup {Main, Idle}
    /\ Configurations \subseteq [idle : BOOLEAN, faults : Nat, calls : SUBSET Calls]

VARIABLES
    config,
    main,           \* what the main thread does next
    faults,         \* steps that may still fail (bound)
    capi,           \* the object Capi with its message thread
    application,    \* an application is registered at it
    listening,      \* the driver was asked for calls
    python, lock,   \* the interpreter, and the thread that has its lock
    idle,           \* what the thread of the idle script does next
    cancelled,      \* and whether it was asked to end
    waiting,        \* CapiSuite::waiting
    call,           \* the Connection of a call: not there yet, alive, deleted
    script,         \* what the thread of an IncomingScript does next
    conn,           \* its conn is not NULL
    finish_flag, capisuiteInstance,
    wild            \* undefined behaviour was reached

mainVars == <<main, finish_flag, capisuiteInstance>>
capiVars == <<capi, application, listening>>
idleVars == <<idle, cancelled>>
callVars == <<waiting, call, script, conn>>
vars == <<config, mainVars, faults, capiVars, python, lock, idleVars, callVars, wild>>

Starting == {"readConfiguration", "capi", "register", "listen", "python", "idle", "signals"}
Running  == {"loop", "poll"}
Ending   == {"catch", "destroy", "restore", "deleteCapi", "forget"}
MainStates == Starting \cup Running \cup Ending \cup {"exited", "aborted"}
Locked   == {"script", "interpreter", "arguments", "destruct"}   \* has the Python lock
ThreadStates ==
    Locked \cup {"none", "acquire", "wants", "sleep", "command", "disconnect", "final", "gone"}
CapiStates   == {"none", "up", "deleted"}
PythonStates == {"none", "up", "finalized"}
CallStates   == {"none", "alive", "deleted"}
Threads      == Calls \cup {Main, Idle, None}

DaemonTypeOK ==
    /\ config \in Configurations
    /\ main \in MainStates
    /\ faults \in Nat
    /\ capi \in CapiStates
    /\ application \in BOOLEAN /\ listening \in BOOLEAN
    /\ python \in PythonStates /\ lock \in Threads
    /\ idle \in ThreadStates /\ cancelled \in BOOLEAN
    /\ waiting \in Seq(Calls)
    /\ call \in [Calls -> CallStates]
    /\ script \in [Calls -> ThreadStates]
    /\ conn \in [Calls -> BOOLEAN]
    /\ finish_flag \in BOOLEAN /\ capisuiteInstance \in BOOLEAN
    /\ wild \in BOOLEAN

Init ==
    /\ config \in Configurations
    /\ main = "readConfiguration"
    /\ faults = config.faults
    /\ capi = "none" /\ application = FALSE /\ listening = FALSE
    /\ python = "none" /\ lock = None
    /\ idle = "none" /\ cancelled = FALSE
    /\ waiting = <<>>
    /\ call = [c \in Calls |-> "none"]
    /\ script = [c \in Calls |-> "none"]
    /\ conn = [c \in Calls |-> FALSE]
    /\ finish_flag = FALSE
    /\ capisuiteInstance = TRUE
    /\ wild = FALSE

(* After the process has ended, or undefined behaviour, nothing happens.   *)
Live    == ~wild /\ main \notin {"exited", "aborted"}
Fail    == faults > 0 /\ faults' = faults - 1
Succeed == UNCHANGED faults

MainGoes(from, to) ==
    /\ Live /\ main = from /\ main' = to
    /\ UNCHANGED <<config, finish_flag>>

-----------------------------------------------------------------------------
(* CapiSuite::CapiSuite.  What readConfiguration throws is not caught.     *)

readConfiguration ==
    /\ \/ MainGoes("readConfiguration", "capi") /\ Succeed
       \/ MainGoes("readConfiguration", "aborted") /\ Fail
    /\ UNCHANGED <<capisuiteInstance, capiVars, python, lock, idleVars, callVars, wild>>

(* Capi::Capi starts the message thread.                                   *)
CreateCapi ==
    /\ \/ MainGoes("capi", "register") /\ Succeed /\ capi' = "up"
       \/ MainGoes("capi", "catch") /\ Fail /\ UNCHANGED capi
    /\ UNCHANGED <<capisuiteInstance, application, listening, python, lock, idleVars,
                   callVars, wild>>

registerApplicationInterface ==
    /\ MainGoes("register", "listen")
    /\ application' = TRUE
    /\ UNCHANGED <<capisuiteInstance, faults, capi, listening, python, lock, idleVars,
                   callVars, wild>>

(* setListenTelephony, setListenFaxG3: one controller may listen, and the  *)
(* request for the next fail.                                              *)
setListen ==
    /\ \/ MainGoes("listen", "python") /\ Succeed /\ listening' = TRUE
       \/ MainGoes("listen", "catch") /\ Fail /\ listening' \in BOOLEAN
    /\ UNCHANGED <<capisuiteInstance, capi, application, python, lock, idleVars, callVars,
                   wild>>

(* Py_Initialize to PyEval_SaveThread: the lock is taken and released.     *)
InitializePython ==
    /\ \/ MainGoes("python", "idle") /\ Succeed
       \/ MainGoes("python", "exited") /\ Fail
    /\ python' = "up"
    /\ UNCHANGED <<capisuiteInstance, capiVars, lock, idleVars, callVars, wild>>

CreateIdle ==
    /\ \/ ~config.idle /\ MainGoes("idle", "signals") /\ Succeed /\ UNCHANGED idle
       \/ /\ config.idle
          /\ \/ MainGoes("idle", "signals") /\ Succeed /\ idle' = "sleep"
             \/ MainGoes("idle", "catch") /\ Fail /\ UNCHANGED idle
    /\ UNCHANGED <<capisuiteInstance, capiVars, python, lock, cancelled, callVars, wild>>

HandleSignals ==
    /\ MainGoes("signals", "loop")
    /\ UNCHANGED <<capisuiteInstance, faults, capiVars, python, lock, idleVars, callVars, wild>>

-----------------------------------------------------------------------------
(* CapiSuite::mainLoop, and the message thread that gives it work.         *)

(* Slip: the Connection of the call is not there yet.                      *)
callWaitingForNobody(c) ==
    /\ Live /\ capi = "up" /\ listening
    /\ c \in config.calls /\ call[c] = "none"
    /\ call' = [call EXCEPT ![c] = "alive"]
    /\ waiting' = Append(waiting, None)
    /\ wild' = ~application
    /\ UNCHANGED <<config, mainVars, faults, capiVars, python, lock, idleVars, script, conn>>

callWaiting(c) ==
    /\ Live /\ capi = "up" /\ listening
    /\ c \in config.calls /\ call[c] = "none"
    /\ call' = [call EXCEPT ![c] = "alive"]
    /\ waiting' = Append(waiting, c)
    /\ wild' = ~application
    /\ UNCHANGED <<config, mainVars, faults, capiVars, python, lock, idleVars, script, conn>>

LeaveOrPoll ==
    /\ \/ finish_flag /\ MainGoes("loop", "destroy")
       \/ ~finish_flag /\ MainGoes("loop", "poll")
    /\ UNCHANGED <<capisuiteInstance, faults, capiVars, python, lock, idleVars, callVars, wild>>

Polled ==
    /\ waiting = <<>> /\ MainGoes("poll", "loop")
    /\ UNCHANGED <<capisuiteInstance, faults, capiVars, python, lock, idleVars, callVars, wild>>

(* IncomingScript::IncomingScript.  If there is no thread, the handler of  *)
(* the exception deletes a pointer that was never set.                     *)
mainLoop ==
    /\ waiting # <<>> /\ MainGoes("poll", "poll")
    /\ waiting' = Tail(waiting)
    /\ \/ /\ Succeed
          /\ script' = [script EXCEPT ![Head(waiting)] = "acquire"]
          /\ conn' = [conn EXCEPT ![Head(waiting)] = TRUE]
          /\ UNCHANGED wild
       \/ Fail /\ wild' = TRUE /\ UNCHANGED <<script, conn>>
    /\ UNCHANGED <<capisuiteInstance, capiVars, python, lock, idleVars, call>>

-----------------------------------------------------------------------------
(* The handlers of signals, once they are installed.                       *)

Signals == Live /\ capisuiteInstance /\ main \in Running \cup (Ending \ {"catch"})

finish ==
    /\ Signals
    /\ finish_flag' = TRUE
    /\ UNCHANGED <<config, main, capisuiteInstance, faults, capiVars, python, lock, idleVars,
                   callVars, wild>>

(* reload() activates the idle script, which may have deleted itself.      *)
reload ==
    /\ Signals
    /\ idle # "none"
    /\ wild' = (idle = "gone")
    /\ UNCHANGED <<config, mainVars, faults, capiVars, python, lock, idleVars, callVars>>

-----------------------------------------------------------------------------
(* CapiSuite::~CapiSuite, and what the constructor does when it fails.     *)

requestTerminate ==
    /\ \E from \in {"catch", "destroy"} :
          /\ MainGoes(from, IF python = "up" THEN "restore" ELSE "deleteCapi")
          /\ capisuiteInstance' = (capisuiteInstance /\ from = "destroy")
    /\ cancelled' = (idle # "none")
    /\ UNCHANGED <<faults, capiVars, python, lock, idle, callVars, wild>>

(* Slip: Python is finalized without its lock.                             *)
FinalizeAnyway ==
    /\ MainGoes("restore", "deleteCapi")
    /\ lock' = Main
    /\ python' = "finalized"
    /\ UNCHANGED <<capisuiteInstance, faults, capiVars, idleVars, callVars, wild>>

(* PyEval_RestoreThread and Py_Finalize: the lock is not given back.       *)
Finalize ==
    /\ lock = None /\ MainGoes("restore", "deleteCapi")
    /\ lock' = Main
    /\ python' = "finalized"
    /\ UNCHANGED <<capisuiteInstance, faults, capiVars, idleVars, callVars, wild>>

(* Capi::~Capi joins the message thread; what it throws is not caught.     *)
DeleteCapi ==
    /\ \/ MainGoes("deleteCapi", "forget") /\ Succeed
       \/ MainGoes("deleteCapi", "aborted") /\ Fail /\ capi = "up"
    /\ capi' = IF capi = "up" THEN "deleted" ELSE capi
    /\ UNCHANGED <<capisuiteInstance, application, listening, python, lock, idleVars,
                   callVars, wild>>

Exit ==
    /\ MainGoes("forget", "exited")
    /\ capisuiteInstance' = FALSE
    /\ UNCHANGED <<faults, capiVars, python, lock, idleVars, callVars, wild>>

-----------------------------------------------------------------------------
(* The thread of the idle script: IdleScript::run.                         *)

IdleStep(from, to) ==
    /\ Live /\ idle = from /\ idle' = to
    /\ UNCHANGED <<config, mainVars, faults, capiVars, python, cancelled, callVars>>

IdleWakes == ~cancelled /\ IdleStep("sleep", "acquire") /\ UNCHANGED <<lock, wild>>

IdleLocks ==
    /\ lock = None /\ IdleStep("acquire", "script")
    /\ lock' = Idle
    /\ UNCHANGED wild

(* The interpreter gives way to others, a command runs, the script is over. *)
IdleUnlocks ==
    /\ \E to \in {"acquire", "command", "sleep"} : IdleStep("script", to)
    /\ lock' = None
    /\ UNCHANGED wild

(* A command uses the Capi.                                                *)
IdleCommand ==
    /\ IdleStep("command", "acquire")
    /\ wild' = (capi = "deleted")
    /\ UNCHANGED lock

(* Cancellation is acted on in every call that may block: sleeping, waiting *)
(* for the lock, and reading the script file, with the lock held.  The     *)
(* cleanup handler deletes the object; nobody releases the lock.           *)
IdleEnds ==
    /\ cancelled
    /\ \E from \in {"sleep", "acquire", "command", "script"} : IdleStep(from, "gone")
    /\ UNCHANGED <<lock, wild>>

-----------------------------------------------------------------------------
(* The thread of an IncomingScript: run() and the destructor.              *)

ScriptStep(c, from, to) ==
    /\ Live /\ script[c] = from
    /\ script' = [script EXCEPT ![c] = to]
    /\ UNCHANGED <<config, mainVars, capiVars, python, idleVars, waiting>>

AcquireLock(c, from, to) ==
    /\ lock = None /\ ScriptStep(c, from, to)
    /\ lock' = c
    /\ UNCHANGED <<faults, call, conn, wild>>

Begin(c)  == AcquireLock(c, "acquire", "interpreter")
Resume(c) == AcquireLock(c, "wants", "script")

Destruct(c) == call' = [call EXCEPT ![c] = "deleted"]

(* When there is no interpreter, the lock is given back first; conn keeps  *)
(* its value.                                                              *)
NewInterpreter(c) ==
    /\ \/ ScriptStep(c, "interpreter", "arguments") /\ Succeed /\ UNCHANGED lock
       \/ ScriptStep(c, "interpreter", "disconnect") /\ Fail /\ lock' = None
    /\ UNCHANGED <<call, conn, wild>>

(* conn keeps its value also if there is no reference to it; if there are  *)
(* no arguments, the last reference is given up.                           *)
BuildArguments(c) ==
    /\ \/ ScriptStep(c, "arguments", "script") /\ Succeed /\ UNCHANGED conn
       \/ ScriptStep(c, "arguments", "destruct") /\ Fail
            /\ conn' \in {conn, [conn EXCEPT ![c] = FALSE]}
    /\ UNCHANGED <<lock, call, wild>>

(* Slip: a command runs with the lock.                                     *)
ScriptKeepsLock(c) ==
    /\ \E to \in {"wants", "command"} : ScriptStep(c, "script", to)
    /\ lock' = IF script'[c] = "command" THEN lock ELSE None
    /\ UNCHANGED <<faults, call, conn, wild>>

(* The interpreter gives way to others, or a command of capisuite begins.  *)
ScriptUnlocks(c) ==
    /\ \E to \in {"wants", "command"} : ScriptStep(c, "script", to)
    /\ lock' = None
    /\ UNCHANGED <<faults, call, conn, wild>>

Command(c) ==
    /\ ScriptStep(c, "command", "wants")
    /\ wild' = (capi = "deleted")
    /\ UNCHANGED <<lock, faults, call, conn>>

(* Slip: conn keeps its value, as it does when a fault ends run().         *)
EndScriptKeeps(c) ==
    /\ ScriptStep(c, "script", "destruct")
    /\ UNCHANGED <<lock, faults, call, conn, wild>>

(* PythonScript::run returns or throws; the references are given up.       *)
EndScript(c) ==
    /\ ScriptStep(c, "script", "destruct")
    /\ conn' = [conn EXCEPT ![c] = FALSE]
    /\ UNCHANGED <<lock, faults, call, wild>>

(* capisuitemodule_destruct_connection, which the last reference calls:    *)
(* what is still up is disconnected with a DisconnectModule, and run() goes*)
(* on when that is over.  If it began with the lock, all wait for it.      *)
Destructed(c) ==
    /\ \/ ScriptStep(c, "destruct", "final") /\ lock' = None
       \/ ScriptStep(c, "disconnect", "final") /\ UNCHANGED lock
    /\ Destruct(c)
    /\ wild' = (capi = "deleted")
    /\ UNCHANGED <<faults, conn>>

(* PythonScript::final and ~IncomingScript: what is left is disconnected   *)
(* and deleted.                                                            *)
final(c) ==
    /\ ScriptStep(c, "final", "gone")
    /\ IF conn[c] THEN Destruct(c) /\ wild' = (call[c] = "deleted")
       ELSE UNCHANGED <<call, wild>>
    /\ UNCHANGED <<lock, faults, conn>>
-----------------------------------------------------------------------------
MainNext ==
    \/ readConfiguration \/ CreateCapi \/ registerApplicationInterface \/ setListen
    \/ InitializePython \/ CreateIdle \/ HandleSignals
    \/ LeaveOrPoll \/ Polled \/ mainLoop
    \/ requestTerminate \/ Finalize \/ DeleteCapi \/ Exit

IdleNext ==
    (IdleWakes \/ IdleLocks \/ IdleUnlocks \/ IdleCommand \/ IdleEnds) /\ UNCHANGED faults

ScriptNext(c) ==
    \/ Begin(c) \/ Resume(c) \/ NewInterpreter(c) \/ BuildArguments(c)
    \/ ScriptUnlocks(c) \/ Command(c)
    \/ EndScript(c) \/ Destructed(c) \/ final(c)

Next ==
    \/ MainNext \/ IdleNext
    \/ \E c \in Calls : callWaiting(c) \/ ScriptNext(c)
    \/ finish \/ reload

Spec == Init /\ [][Next]_vars

(* All threads go on; one that waits for the lock gets it some time, though *)
(* it is taken again and again; a script ends some day, and so does the    *)
(* disconnect after it (Connection's DisconnectClears: the calls come in). *)
Fairness ==
    /\ WF_vars(MainNext) /\ SF_vars(Finalize)
    /\ WF_vars(IdleNext) /\ SF_vars(IdleLocks)
    /\ \A c \in Calls :
         /\ WF_vars(ScriptNext(c))
         /\ SF_vars(Begin(c)) /\ SF_vars(Resume(c)) /\ SF_vars(EndScript(c))

FairSpec == Spec /\ Fairness

-----------------------------------------------------------------------------
(* Properties.                                                             *)

(* When the interpreter is finalized, no other thread is in it, and none   *)
(* gets into it afterwards, whatever the scripts do at that time.          *)
FinalizedIsLeft ==
    python = "finalized" =>
        idle # "script" /\ \A c \in Calls : script[c] \notin Locked

Over == main \in {"exited", "aborted"} \/ wild

(* SIGTERM ends the process, also while scripts run, if there is no idle   *)
(* script (which may end with the lock, see IdleEnds).                     *)
FinishEnds == (finish_flag /\ ~config.idle) ~> Over

(* The same with an idle script: not so.                                   *)
FinishAlwaysEnds == finish_flag ~> Over

(* As long as nothing fails and nobody ends the process, no deleted object *)
(* is used: each Connection, Capi and IdleScript has an owner that deletes *)
(* it once, and a call finds its application.                              *)
NothingDeletedIsUsed == config.faults = 0 /\ ~finish_flag => ~wild

(* The same at any time: not so.                                           *)
NothingDeletedIsEverUsed == ~wild
=============================================================================
