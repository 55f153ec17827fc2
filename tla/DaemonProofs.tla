---------------------------- MODULE DaemonProofs ----------------------------
(* What holds of the life of the process for any number of calls, with and *)
(* without an idle script, whatever steps fail.                            *)
EXTENDS Daemon, QueueLemmas, TLAPS

(* The type invariant in the parts the steps disturb together.             *)
MainType ==
    /\ config \in Configurations
    /\ main \in MainStates
    /\ finish_flag \in BOOLEAN /\ capisuiteInstance \in BOOLEAN
FaultType    == faults \in Nat
WildType     == wild \in BOOLEAN
CapiType     == capi \in CapiStates /\ application \in BOOLEAN /\ listening \in BOOLEAN
LockType     == python \in PythonStates /\ lock \in Threads
IdleType     == idle \in ThreadStates /\ cancelled \in BOOLEAN
WaitingType  == waiting \in Seq(Calls)
CallType     == call \in [Calls -> CallStates]
ScriptType   == script \in [Calls -> ThreadStates] /\ conn \in [Calls -> BOOLEAN]

TypeInv ==
    /\ MainType /\ FaultType /\ WildType /\ CapiType /\ LockType /\ IdleType
    /\ WaitingType /\ CallType /\ ScriptType

USE DEF mainVars, capiVars, idleVars, callVars

LEMMA TypeImplies == TypeInv => DaemonTypeOK
  BY DEF TypeInv, MainType, FaultType, WildType, CapiType, LockType, IdleType, WaitingType,
         CallType, ScriptType, DaemonTypeOK

(* What a step leaves alone keeps its type.                                *)
LEMMA Kept ==
    ASSUME TypeInv
    PROVE  /\ UNCHANGED <<config, main, finish_flag, capisuiteInstance>> => MainType'
           /\ UNCHANGED faults => FaultType'
           /\ UNCHANGED wild => WildType'
           /\ UNCHANGED <<capi, application, listening>> => CapiType'
           /\ UNCHANGED <<python, lock>> => LockType'
           /\ UNCHANGED <<idle, cancelled>> => IdleType'
           /\ UNCHANGED waiting => WaitingType'
           /\ UNCHANGED call => CallType'
           /\ UNCHANGED <<script, conn>> => ScriptType'
  BY DEF TypeInv, MainType, FaultType, WildType, CapiType, LockType, IdleType, WaitingType,
         CallType, ScriptType

LEMMA Names ==
    /\ {"readConfiguration", "capi", "register", "listen", "python", "idle", "signals", "loop",
        "poll", "catch", "destroy", "restore", "deleteCapi", "forget", "exited", "aborted"}
         \subseteq MainStates
    /\ {"script", "interpreter", "arguments", "destruct", "none", "acquire", "wants", "sleep",
        "command", "disconnect", "final", "gone"} \subseteq ThreadStates
    /\ {"none", "up", "deleted"} \subseteq CapiStates
    /\ {"none", "up", "finalized"} \subseteq PythonStates
    /\ {"none", "alive", "deleted"} \subseteq CallStates
    /\ Calls \cup {Main, Idle, None} \subseteq Threads
  BY DEF MainStates, Starting, Running, Ending, ThreadStates, Locked, CapiStates,
         PythonStates, CallStates, Threads

(* A fault that happens is one of those left.                              *)
LEMMA FailType == ASSUME TypeInv, Fail \/ Succeed PROVE FaultType'
  BY DEF TypeInv, FaultType, Fail, Succeed

LEMMA GoesType ==
    ASSUME TypeInv, NEW from, NEW to \in MainStates, MainGoes(from, to),
           capisuiteInstance' \in BOOLEAN
    PROVE  MainType'
  BY DEF TypeInv, MainType, MainGoes

LEMMA StepType ==
    ASSUME TypeInv, NEW c \in Calls, NEW from, NEW to \in ThreadStates, ScriptStep(c, from, to),
           conn' \in [Calls -> BOOLEAN]
    PROVE  ScriptType' /\ MainType' /\ CapiType' /\ IdleType' /\ WaitingType'
  <1>1. ScriptType'
    BY DEF TypeInv, ScriptType, ScriptStep
  <1> QED
    BY <1>1, Kept DEF ScriptStep

LEMMA ConnType ==
    ASSUME TypeInv, NEW c \in Calls, NEW b \in BOOLEAN,
           conn' = conn \/ conn' = [conn EXCEPT ![c] = b]
    PROVE  conn' \in [Calls -> BOOLEAN]
  BY DEF TypeInv, ScriptType

LEMMA DestructType ==
    ASSUME TypeInv, NEW c \in Calls, Destruct(c)
    PROVE  CallType'
  BY Names DEF TypeInv, CallType, Destruct

LEMMA TypeInit == Init => TypeInv
  <1> SUFFICES ASSUME Init PROVE TypeInv
    OBVIOUS
  <1>1. config.faults \in Nat
    BY DaemonAssumption DEF Init
  <1>2. MainType /\ FaultType /\ WildType /\ CapiType /\ LockType /\ IdleType
    BY <1>1, Names DEF Init, MainType, FaultType, WildType, CapiType, LockType, IdleType
  <1>3. <<>> \in Seq(Calls)
    OBVIOUS
  <1>4. WaitingType /\ CallType /\ ScriptType
    BY <1>3, Names DEF Init, WaitingType, CallType, ScriptType
  <1> QED
    BY <1>2, <1>4 DEF TypeInv

-----------------------------------------------------------------------------
(* The steps of the main thread.                                           *)

LEMMA TypeStart ==
    ASSUME TypeInv,
           readConfiguration \/ CreateCapi \/ registerApplicationInterface \/ setListen
             \/ InitializePython \/ CreateIdle \/ HandleSignals
    PROVE  TypeInv'
  <1>1. CASE readConfiguration
    <2>1. MainType'
      BY <1>1, GoesType, Names DEF readConfiguration, TypeInv, MainType
    <2> QED
      BY <1>1, <2>1, FailType, Kept DEF readConfiguration, TypeInv
  <1>2. CASE CreateCapi
    <2>1. MainType'
      BY <1>2, GoesType, Names DEF CreateCapi, TypeInv, MainType
    <2>2. CapiType'
      BY <1>2, Names DEF CreateCapi, TypeInv, CapiType
    <2> QED
      BY <1>2, <2>1, <2>2, FailType, Kept DEF CreateCapi, TypeInv
  <1>3. CASE registerApplicationInterface
    <2>1. MainType'
      BY <1>3, GoesType, Names DEF registerApplicationInterface, TypeInv, MainType
    <2>2. CapiType'
      BY <1>3 DEF registerApplicationInterface, TypeInv, CapiType
    <2> QED
      BY <1>3, <2>1, <2>2, Kept DEF registerApplicationInterface, TypeInv
  <1>4. CASE setListen
    <2>1. MainType'
      BY <1>4, GoesType, Names DEF setListen, TypeInv, MainType
    <2>2. CapiType'
      BY <1>4 DEF setListen, TypeInv, CapiType
    <2> QED
      BY <1>4, <2>1, <2>2, FailType, Kept DEF setListen, TypeInv
  <1>5. CASE InitializePython
    <2>1. MainType'
      BY <1>5, GoesType, Names DEF InitializePython, TypeInv, MainType
    <2>2. LockType'
      BY <1>5, Names DEF InitializePython, TypeInv, LockType
    <2> QED
      BY <1>5, <2>1, <2>2, FailType, Kept DEF InitializePython, TypeInv
  <1>6. CASE CreateIdle
    <2>1. MainType'
      BY <1>6, GoesType, Names DEF CreateIdle, TypeInv, MainType
    <2>2. IdleType'
      BY <1>6, Names DEF CreateIdle, TypeInv, IdleType
    <2> QED
      BY <1>6, <2>1, <2>2, FailType, Kept DEF CreateIdle, TypeInv
  <1>7. CASE HandleSignals
    <2>1. MainType'
      BY <1>7, GoesType, Names DEF HandleSignals, TypeInv, MainType
    <2> QED
      BY <1>7, <2>1, Kept DEF HandleSignals, TypeInv
  <1> QED
    BY <1>1, <1>2, <1>3, <1>4, <1>5, <1>6, <1>7

LEMMA TypeMainLoop ==
    ASSUME TypeInv, LeaveOrPoll \/ Polled \/ mainLoop
    PROVE  TypeInv'
  <1>1. CASE LeaveOrPoll
    <2>1. MainType'
      BY <1>1, GoesType, Names DEF LeaveOrPoll, TypeInv, MainType
    <2> QED
      BY <1>1, <2>1, Kept DEF LeaveOrPoll, TypeInv
  <1>2. CASE Polled
    <2>1. MainType'
      BY <1>2, GoesType, Names DEF Polled, TypeInv, MainType
    <2> QED
      BY <1>2, <2>1, Kept DEF Polled, TypeInv
  <1>3. CASE mainLoop
    <2>1. MainType'
      BY <1>3, GoesType, Names DEF mainLoop, TypeInv, MainType
    <2>2. Head(waiting) \in Calls /\ WaitingType'
      BY <1>3, TailType DEF mainLoop, TypeInv, WaitingType
    <2>3. ScriptType'
      BY <1>3, <2>2, Names DEF mainLoop, TypeInv, ScriptType
    <2>4. FaultType'
      BY <1>3, FailType DEF mainLoop
    <2>5. WildType'
      BY <1>3 DEF mainLoop, TypeInv, WildType
    <2> QED
      BY <1>3, <2>1, <2>2, <2>3, <2>4, <2>5, Kept DEF mainLoop, TypeInv
  <1> QED
    BY <1>1, <1>2, <1>3

LEMMA TypeEnd ==
    ASSUME TypeInv, requestTerminate \/ Finalize \/ DeleteCapi \/ Exit
    PROVE  TypeInv'
  <1>1. CASE requestTerminate
    <2>1. MainType'
      BY <1>1, GoesType, Names DEF requestTerminate, TypeInv, MainType
    <2>2. IdleType'
      BY <1>1 DEF requestTerminate, TypeInv, IdleType
    <2> QED
      BY <1>1, <2>1, <2>2, Kept DEF requestTerminate, TypeInv
  <1>2. CASE Finalize
    <2>1. MainType'
      BY <1>2, GoesType, Names DEF Finalize, TypeInv, MainType
    <2>2. LockType'
      BY <1>2, Names DEF Finalize, TypeInv, LockType
    <2> QED
      BY <1>2, <2>1, <2>2, Kept DEF Finalize, TypeInv
  <1>3. CASE DeleteCapi
    <2>1. MainType'
      BY <1>3, GoesType, Names DEF DeleteCapi, TypeInv, MainType
    <2>2. CapiType'
      BY <1>3, Names DEF DeleteCapi, TypeInv, CapiType
    <2> QED
      BY <1>3, <2>1, <2>2, FailType, Kept DEF DeleteCapi, TypeInv
  <1>4. CASE Exit
    <2>1. MainType'
      BY <1>4, GoesType, Names DEF Exit, TypeInv, MainType
    <2> QED
      BY <1>4, <2>1, Kept DEF Exit, TypeInv
  <1> QED
    BY <1>1, <1>2, <1>3, <1>4

LEMMA TypeCallWaiting ==
    ASSUME TypeInv, NEW c \in Calls, callWaiting(c)
    PROVE  TypeInv'
  <1>1. WaitingType'
    BY AppendType DEF callWaiting, TypeInv, WaitingType
  <1>2. CallType'
    BY Names DEF callWaiting, TypeInv, CallType
  <1>3. WildType'
    BY DEF callWaiting, WildType
  <1> QED
    BY <1>1, <1>2, <1>3, Kept DEF callWaiting, TypeInv

LEMMA TypeSignals ==
    ASSUME TypeInv, finish \/ reload
    PROVE  TypeInv'
  <1>1. CASE finish
    <2>1. MainType'
      BY <1>1 DEF finish, TypeInv, MainType
    <2> QED
      BY <1>1, <2>1, Kept DEF finish, TypeInv
  <1>2. CASE reload
    <2>1. WildType'
      BY <1>2 DEF reload, WildType
    <2> QED
      BY <1>2, <2>1, Kept DEF reload, TypeInv
  <1> QED
    BY <1>1, <1>2

-----------------------------------------------------------------------------
(* The steps of the threads of the scripts.                                *)

LEMMA TypeIdle ==
    ASSUME TypeInv, IdleNext
    PROVE  TypeInv'
  <1>1. PICK from \in ThreadStates, to \in ThreadStates : IdleStep(from, to)
    BY Names DEF IdleNext, IdleWakes, IdleLocks, IdleUnlocks, IdleCommand, IdleEnds
  <1>2. IdleType'
    BY <1>1 DEF IdleStep, TypeInv, IdleType
  <1>3. LockType'
    BY <1>1, Names DEF IdleNext, IdleWakes, IdleLocks, IdleUnlocks, IdleCommand, IdleEnds,
                       IdleStep, TypeInv, LockType
  <1>4. WildType'
    BY DEF IdleNext, IdleWakes, IdleLocks, IdleUnlocks, IdleCommand, IdleEnds, TypeInv,
           WildType
  <1> QED
    BY <1>1, <1>2, <1>3, <1>4, Kept DEF IdleStep, IdleNext, TypeInv

LEMMA TypeScript ==
    ASSUME TypeInv, NEW c \in Calls, ScriptNext(c)
    PROVE  TypeInv'
  <1>1. PICK from \in ThreadStates, to \in ThreadStates : ScriptStep(c, from, to)
    BY Names DEF ScriptNext, Begin, Resume, AcquireLock, NewInterpreter, BuildArguments,
                 ScriptUnlocks, Command, EndScript, Destructed, final
  <1>2. conn' = conn \/ conn' = [conn EXCEPT ![c] = FALSE]
    BY DEF ScriptNext, Begin, Resume, AcquireLock, NewInterpreter, BuildArguments,
           ScriptUnlocks, Command, EndScript, Destructed, final
  <1>3. conn' \in [Calls -> BOOLEAN]
    BY <1>2, ConnType
  <1>4. ScriptType' /\ MainType' /\ CapiType' /\ IdleType' /\ WaitingType'
    BY <1>1, <1>3, StepType
  <1>5. CallType'
    <2>1. UNCHANGED call \/ Destruct(c)
      BY DEF ScriptNext, Begin, Resume, AcquireLock, NewInterpreter, BuildArguments,
             ScriptUnlocks, Command, EndScript, Destructed, final
    <2> QED
      BY <2>1, DestructType, Kept
  <1>6. LockType'
    <2>1. python' = python /\ lock' \in {lock, c, None}
      BY DEF ScriptNext, Begin, Resume, AcquireLock, NewInterpreter, BuildArguments,
             ScriptUnlocks, Command, EndScript, Destructed, final, ScriptStep
    <2> QED
      BY <2>1, Names DEF TypeInv, LockType
  <1>7. FaultType'
    <2>1. UNCHANGED faults \/ Fail \/ Succeed
      BY DEF ScriptNext, Begin, Resume, AcquireLock, NewInterpreter, BuildArguments,
             ScriptUnlocks, Command, EndScript, Destructed, final
    <2> QED
      BY <2>1, FailType, Kept
  <1>8. WildType'
    BY DEF ScriptNext, Begin, Resume, AcquireLock, NewInterpreter, BuildArguments,
           ScriptUnlocks, Command, EndScript, Destructed, final, TypeInv, WildType
  <1> QED
    BY <1>4, <1>5, <1>6, <1>7, <1>8 DEF TypeInv

-----------------------------------------------------------------------------
LEMMA TypeStep ==
    ASSUME TypeInv, [Next]_vars
    PROVE  TypeInv'
  <1>1. CASE MainNext
    BY <1>1, TypeStart, TypeMainLoop, TypeEnd DEF MainNext
  <1>2. CASE IdleNext
    BY <1>2, TypeIdle
  <1>3. ASSUME NEW c \in Calls, callWaiting(c) \/ ScriptNext(c) PROVE TypeInv'
    BY <1>3, TypeCallWaiting, TypeScript
  <1>4. CASE finish \/ reload
    BY <1>4, TypeSignals
  <1>5. CASE UNCHANGED vars
    BY <1>5, Kept DEF vars, TypeInv
  <1> QED
    BY <1>1, <1>2, <1>3, <1>4, <1>5 DEF Next

(* The variables keep their types: the main loop takes nothing out of an   *)
(* empty queue, and what holds the lock is a thread or nobody.             *)
THEOREM DaemonTypeCorrect == Spec => []DaemonTypeOK
  <1>1. Init => TypeInv
    BY TypeInit
  <1>2. TypeInv /\ [Next]_vars => TypeInv'
    BY TypeStep
  <1> QED
    BY <1>1, <1>2, TypeImplies, PTL DEF Spec

-----------------------------------------------------------------------------
(* The lock of the interpreter: who is in it has it, and once it is        *)
(* finalized, the main thread keeps it.                                    *)
LockInv ==
    /\ python = "finalized" => lock = Main
    /\ idle = "script" => lock = Idle
    /\ \A c \in Calls : script[c] \in Locked => lock = c

LEMMA InLock == {"script", "interpreter", "arguments", "destruct"} = Locked
  BY DEF Locked

LEMMA LockKept ==
    ASSUME LockInv, UNCHANGED <<python, lock, idle, script>>
    PROVE  LockInv'
  BY DEF LockInv

LEMMA LockMain ==
    ASSUME TypeInv, LockInv, MainNext
    PROVE  LockInv'
  <1>1. CASE InitializePython
    BY <1>1 DEF InitializePython, LockInv
  <1>2. CASE CreateIdle
    BY <1>2 DEF CreateIdle, LockInv
  <1>3. CASE Finalize
    BY <1>3, DaemonAssumption DEF Finalize, LockInv
  <1>4. CASE mainLoop
    <2>1. "acquire" \notin Locked
      BY DEF Locked
    <2> QED
      BY <1>4, <2>1 DEF mainLoop, LockInv, TypeInv, ScriptType
  <1>5. CASE UNCHANGED <<python, lock, idle, script>>
    BY <1>5, LockKept
  <1> QED
    BY <1>1, <1>2, <1>3, <1>4, <1>5
       DEF MainNext, readConfiguration, CreateCapi, registerApplicationInterface, setListen,
           HandleSignals, LeaveOrPoll, Polled, requestTerminate, DeleteCapi, Exit

LEMMA LockIdle ==
    ASSUME TypeInv, LockInv, IdleNext
    PROVE  LockInv'
  <1>1. UNCHANGED <<python, script>>
    BY DEF IdleNext, IdleWakes, IdleLocks, IdleUnlocks, IdleCommand, IdleEnds, IdleStep
  <1>2. CASE IdleLocks
    BY <1>1, <1>2, DaemonAssumption DEF IdleLocks, IdleStep, LockInv
  <1>3. CASE IdleUnlocks
    BY <1>1, <1>3, DaemonAssumption DEF IdleUnlocks, IdleStep, LockInv
  <1>4. CASE IdleWakes \/ IdleCommand \/ IdleEnds
    BY <1>1, <1>4 DEF IdleWakes, IdleCommand, IdleEnds, IdleStep, LockInv
  <1> QED
    BY <1>2, <1>3, <1>4 DEF IdleNext

(* A thread takes the lock when nobody has it; what it has, it gives back. *)
LEMMA LockScript ==
    ASSUME TypeInv, LockInv, NEW c \in Calls, ScriptNext(c)
    PROVE  LockInv'
  <1>1. PICK from, to : ScriptStep(c, from, to)
    BY DEF ScriptNext, Begin, Resume, AcquireLock, NewInterpreter, BuildArguments,
           ScriptUnlocks, Command, EndScript, Destructed, final
  <1>2. /\ UNCHANGED <<python, idle>>
        /\ \A d \in Calls \ {c} : script'[d] = script[d]
    BY <1>1 DEF ScriptStep, TypeInv, ScriptType
  <1>3. CASE lock = None /\ lock' = c
    BY <1>2, <1>3, DaemonAssumption DEF LockInv
  <1>4. CASE script[c] \in Locked /\ lock' = None /\ script'[c] \notin Locked
    BY <1>2, <1>4, DaemonAssumption DEF LockInv
  <1>5. CASE UNCHANGED lock /\ (script'[c] \in Locked => script[c] \in Locked)
    BY <1>2, <1>5 DEF LockInv
  <1>6. \/ lock = None /\ lock' = c
        \/ script[c] \in Locked /\ lock' = None /\ script'[c] \notin Locked
        \/ UNCHANGED lock /\ (script'[c] \in Locked => script[c] \in Locked)
    <2>1. {"wants", "command", "disconnect", "final", "gone"} \cap Locked = {}
      BY DEF Locked
    <2>2. CASE Begin(c) \/ Resume(c)
      BY <2>2 DEF Begin, Resume, AcquireLock
    <2>3. CASE NewInterpreter(c)
      BY <2>3, <2>1, InLock DEF NewInterpreter, ScriptStep, TypeInv, ScriptType
    <2>4. CASE BuildArguments(c)
      BY <2>4, <2>1, InLock DEF BuildArguments, ScriptStep, TypeInv, ScriptType
    <2>5. CASE ScriptUnlocks(c)
      BY <2>5, <2>1, InLock DEF ScriptUnlocks, ScriptStep, TypeInv, ScriptType
    <2>6. CASE EndScript(c)
      BY <2>6, <2>1, InLock DEF EndScript, ScriptStep, TypeInv, ScriptType
    <2>7. CASE Command(c) \/ final(c)
      BY <2>7, <2>1 DEF Command, final, ScriptStep, TypeInv, ScriptType
    <2>8. CASE Destructed(c)
      BY <2>8, <2>1, InLock DEF Destructed, ScriptStep, TypeInv, ScriptType
    <2> QED
      BY <2>2, <2>3, <2>4, <2>5, <2>6, <2>7, <2>8 DEF ScriptNext
  <1> QED
    BY <1>3, <1>4, <1>5, <1>6

(* No thread is in the interpreter once it is finalized, for any number of *)
(* scripts: the main thread takes the lock before and never gives it back. *)
THEOREM InterpreterIsLeft == Spec => []FinalizedIsLeft
  <1>1. Init => TypeInv /\ LockInv
    <2>1. "none" \notin Locked
      BY DEF Locked
    <2> QED
      BY <2>1, TypeInit DEF Init, LockInv
  <1>2. TypeInv /\ LockInv /\ [Next]_vars => TypeInv' /\ LockInv'
    <2> SUFFICES ASSUME TypeInv, LockInv, [Next]_vars PROVE TypeInv' /\ LockInv'
      OBVIOUS
    <2>1. TypeInv'
      BY TypeStep
    <2>2. CASE MainNext
      BY <2>2, LockMain, <2>1
    <2>3. CASE IdleNext
      BY <2>3, LockIdle, <2>1
    <2>4. ASSUME NEW c \in Calls, ScriptNext(c) PROVE LockInv'
      BY <2>4, LockScript
    <2>5. CASE UNCHANGED <<python, lock, idle, script>>
      BY <2>5, LockKept, <2>1
    <2>6. ASSUME (\E c \in Calls : callWaiting(c)) \/ finish \/ reload \/ UNCHANGED vars
          PROVE  UNCHANGED <<python, lock, idle, script>>
      BY <2>6 DEF callWaiting, finish, reload, vars
    <2> QED
      BY <2>1, <2>2, <2>3, <2>4, <2>5, <2>6 DEF Next
  <1>3. LockInv => FinalizedIsLeft
    BY DaemonAssumption DEF LockInv, FinalizedIsLeft
  <1> QED
    BY <1>1, <1>2, <1>3, PTL DEF Spec

-----------------------------------------------------------------------------
(* Who owns what, as long as nothing fails and nobody ends the process.    *)
Untroubled == config.faults = 0 /\ ~finish_flag

ListenInv ==
    /\ config.faults = 0 => faults = 0
    /\ main = "listen" => application
    /\ listening => application

OwnerInv ==
    Untroubled =>
        /\ main \in Starting \cup Running
        /\ capi # "deleted"
        /\ ~cancelled /\ idle # "gone"
        /\ \A c \in Calls : script[c] \in {"destruct", "disconnect", "final"} => ~conn[c]
        /\ ~wild

AllInv == TypeInv /\ ListenInv /\ OwnerInv

LEMMA NoFault == ASSUME AllInv, config.faults = 0 PROVE ~Fail
  BY DEF AllInv, TypeInv, FaultType, ListenInv, Fail

LEMMA ListenStep == ASSUME AllInv, [Next]_vars PROVE ListenInv'
  <1>1. CASE MainNext
    BY <1>1, NoFault
       DEF MainNext, readConfiguration, CreateCapi, registerApplicationInterface, setListen,
           InitializePython, CreateIdle, HandleSignals, LeaveOrPoll, Polled, mainLoop,
           requestTerminate, Finalize, DeleteCapi, Exit, MainGoes, Succeed, AllInv, ListenInv
  <1>2. CASE IdleNext
    BY <1>2 DEF IdleNext, IdleWakes, IdleLocks, IdleUnlocks, IdleCommand, IdleEnds, IdleStep,
                AllInv, ListenInv
  <1>3. ASSUME NEW c \in Calls, ScriptNext(c) PROVE ListenInv'
    BY <1>3, NoFault DEF ScriptNext, Begin, Resume, AcquireLock, NewInterpreter,
       BuildArguments, ScriptUnlocks, Command, EndScript, Destructed, final, ScriptStep, Succeed,
       AllInv,
       ListenInv
  <1>4. CASE (\E c \in Calls : callWaiting(c)) \/ finish \/ reload \/ UNCHANGED vars
    BY <1>4 DEF callWaiting, finish, reload, vars, AllInv, ListenInv
  <1> QED
    BY <1>1, <1>2, <1>3, <1>4 DEF Next

LEMMA OwnerMain == ASSUME AllInv, MainNext PROVE OwnerInv'
  <1> SUFFICES ASSUME Untroubled' PROVE OwnerInv'
    BY DEF OwnerInv
  <1>1. Untroubled /\ ~Fail /\ main \in Starting \cup Running
    <2>1. config' = config /\ finish_flag' = finish_flag
      BY DEF MainNext, readConfiguration, CreateCapi, registerApplicationInterface, setListen,
           InitializePython, CreateIdle, HandleSignals, LeaveOrPoll, Polled, mainLoop,
           requestTerminate, Finalize, DeleteCapi, Exit, MainGoes
    <2> QED
      BY <2>1, NoFault DEF Untroubled, AllInv, OwnerInv
  <1>2. CASE readConfiguration \/ CreateCapi \/ registerApplicationInterface \/ setListen
               \/ InitializePython \/ CreateIdle \/ HandleSignals
    BY <1>1, <1>2
       DEF readConfiguration, CreateCapi, registerApplicationInterface, setListen,
           InitializePython, CreateIdle, HandleSignals, MainGoes, Starting, Running, AllInv,
           OwnerInv
  <1>3. CASE LeaveOrPoll \/ Polled
    BY <1>1, <1>3 DEF LeaveOrPoll, Polled, MainGoes, Running, AllInv, OwnerInv, Untroubled
  <1>4. CASE mainLoop
    <2>1. Head(waiting) \in Calls
      BY <1>4, TailType DEF mainLoop, AllInv, TypeInv, WaitingType
    <2>2. \A c \in Calls : script'[c] \in {"destruct", "disconnect", "final"} =>
                             script'[c] = script[c] /\ conn'[c] = conn[c]
      BY <1>1, <1>4, <2>1 DEF mainLoop, AllInv, TypeInv, ScriptType
    <2> QED
      BY <1>1, <1>4, <2>2 DEF mainLoop, MainGoes, Running, AllInv, OwnerInv
  <1>5. CASE requestTerminate \/ Finalize \/ DeleteCapi \/ Exit
    BY <1>1, <1>5 DEF requestTerminate, Finalize, DeleteCapi, Exit, MainGoes, Starting, Running
  <1> QED
    BY <1>2, <1>3, <1>4, <1>5 DEF MainNext

LEMMA OwnerScript ==
    ASSUME AllInv, NEW c \in Calls, ScriptNext(c)
    PROVE  OwnerInv'
  <1> SUFFICES ASSUME Untroubled' PROVE OwnerInv'
    BY DEF OwnerInv
  <1>1. PICK from, to : ScriptStep(c, from, to)
    BY DEF ScriptNext, Begin, Resume, AcquireLock, NewInterpreter, BuildArguments,
           ScriptUnlocks, Command, EndScript, Destructed, final
  <1>2. Untroubled /\ ~Fail
    BY <1>1, NoFault DEF ScriptStep, Untroubled
  <1>3. \A d \in Calls \ {c} : script'[d] = script[d] /\ conn'[d] = conn[d]
    BY <1>1, <1>2 DEF ScriptNext, Begin, Resume, AcquireLock, NewInterpreter, BuildArguments,
           ScriptUnlocks, Command, EndScript, Destructed, final, ScriptStep,
           AllInv, TypeInv, ScriptType
  <1>4. /\ script'[c] \in {"destruct", "disconnect", "final"} => ~conn'[c]
        /\ ~wild'
    BY <1>2 DEF ScriptNext, Begin, Resume, AcquireLock, NewInterpreter, BuildArguments,
           ScriptUnlocks, Command, EndScript, Destructed, final, ScriptStep,
           AllInv, TypeInv, ScriptType,
           OwnerInv
  <1> QED
    BY <1>1, <1>2, <1>3, <1>4 DEF ScriptStep, AllInv, OwnerInv

LEMMA OwnerOthers ==
    ASSUME AllInv,
           IdleNext \/ (\E c \in Calls : callWaiting(c)) \/ finish \/ reload \/ UNCHANGED vars
    PROVE  OwnerInv'
  <1> SUFFICES ASSUME Untroubled' PROVE OwnerInv'
    BY DEF OwnerInv
  <1>1. CASE IdleNext
    BY <1>1 DEF IdleNext, IdleWakes, IdleLocks, IdleUnlocks, IdleCommand, IdleEnds, IdleStep,
                AllInv, OwnerInv, Untroubled
  <1>2. CASE \E c \in Calls : callWaiting(c)
    <2>1. PICK c \in Calls : callWaiting(c)
      BY <1>2
    <2>2. Untroubled /\ application /\ wild' = ~application
      BY <2>1 DEF callWaiting, AllInv, ListenInv, Untroubled
    <2>3. ~wild'
      BY <2>2
    <2> QED
      BY <2>1, <2>2, <2>3 DEF callWaiting, AllInv, OwnerInv
  <1>3. CASE finish \/ reload \/ UNCHANGED vars
    BY <1>3 DEF finish, reload, vars, AllInv, OwnerInv, Untroubled
  <1> QED
    BY <1>1, <1>2, <1>3

(* As long as no step fails and nobody asks the process to end, every      *)
(* thread finds what it uses alive, for any number of calls.               *)
THEOREM OwnedUntilUsed == Spec => []NothingDeletedIsUsed
  <1>1. Init => AllInv
    <2> SUFFICES ASSUME Init PROVE AllInv
      OBVIOUS
    <2>1. TypeInv
      BY TypeInit
    <2>2. ListenInv /\ OwnerInv
      BY DEF Init, ListenInv, OwnerInv, Starting
    <2> QED
      BY <2>1, <2>2 DEF AllInv
  <1>2. AllInv /\ [Next]_vars => AllInv'
    <2> SUFFICES ASSUME AllInv, [Next]_vars PROVE AllInv'
      OBVIOUS
    <2>1. TypeInv'
      BY TypeStep DEF AllInv
    <2>2. ListenInv'
      BY ListenStep
    <2>3. OwnerInv'
      BY OwnerMain, OwnerScript, OwnerOthers DEF Next
    <2> QED
      BY <2>1, <2>2, <2>3 DEF AllInv
  <1>3. AllInv => NothingDeletedIsUsed
    BY DEF AllInv, OwnerInv, Untroubled, NothingDeletedIsUsed
  <1> QED
    BY <1>1, <1>2, <1>3, PTL DEF Spec
=============================================================================
