------------------------------ MODULE FaxQueue ------------------------------
(***************************************************************************)
(* The queue of faxes to send of one user: a directory whose files several *)
(* processes change.  Clients (scripts/capisuitefax.in) enqueue documents  *)
(* and abort jobs, the daemon's idle script (scripts/idle.py, started by   *)
(* application/idlescript.cpp) sends them, gives up or tries again later.   *)
(* They meet in files only: the fax and the control file of a job, lock    *)
(* files and a counter (capisuite-py/fax.py, fileutils.py, config.py.in).  *)
(*                                                                         *)
(* One action is what happens between two accesses to files others see.    *)
(* A lock file is unlinked after each use, so a name may stand for another *)
(* file than the one a process has open: files are told apart by inodes.   *)
(* A file that is rewritten is empty between open and close; a process may *)
(* crash at any point, and its locks are gone with it.                     *)
(***************************************************************************)
EXTENDS Naturals, FiniteSets

CONSTANTS
    Clients,        \* runs of capisuitefax
    Idle,           \* the daemon, in which one thread runs the idle script
    Documents,      \* the faxes submitted, each once
    MaxJob,         \* the last job number
    Inodes,         \* the files lock names may stand for
    None,           \* no file, nobody
    Truncated,      \* a file opened for writing and not written yet
    MaxTries,       \* option send_tries
    MaxCrashes,     \* bound: crashes of processes
    MaxErrors,      \* bound: calls for a document that end in an exception
    ErrorLimit,     \* errors in a row that disable the idle script
    Configurations  \* the conditions, one of which Init chooses

(* clients, documents: the ones there are; aborts: clients abort jobs;     *)
(* crashing: processes that may crash; broken: the script may be unusable  *)
(* for a time; raising: calls may end in an exception; overlap: one        *)
(* process may release a lock file while another has opened but not locked *)
(* it, or open it while another is about to unlink it.                     *)
ASSUME QueueAssumption ==
    /\ Idle \notin Clients
    /\ None \notin Clients \cup {Idle} \cup Documents \cup Inodes \cup Nat
    /\ Truncated \notin Nat \cup {None}
    /\ MaxJob \in Nat
    /\ MaxTries \in Nat \ {0}
    /\ MaxCrashes \in Nat
    /\ MaxErrors \in Nat
    /\ ErrorLimit \in Nat \ {0}
    /\ Configurations \subseteq
         [clients : SUBSET Clients, documents : SUBSET Documents,
          aborts : BOOLEAN, crashing : SUBSET (Clients \cup {Idle}),
          broken : BOOLEAN, raising : BOOLEAN, overlap : BOOLEAN]

(* Whoever opens a lock file finds a free inode for it: the other names    *)
(* stand for at most MaxJob files, and each other process has one open.    *)
ASSUME EnoughInodes ==
    /\ IsFiniteSet(Clients) /\ IsFiniteSet(Inodes)
    /\ Cardinality(Inodes) >= MaxJob + Cardinality(Clients) + 1

VARIABLES
    config,
    linked,     \* the file a lock name stands for
    holder,     \* who holds the lock of a file
    opened,     \* the lock file a process has open
    nextnr,     \* the counter fax-nextnr
    fax,        \* the document in the fax file of a job, by directory
    control,    \* the tries in its control file, by directory
    theirs,     \* jobs whose files belong to the user
    later,      \* jobs whose starttime is still to come
    pc,         \* what a process does next
    job,        \* the job it works on
    document,   \* the document it works on
    round,      \* jobs the idle script has still to look at
    tries,      \* tries as the idle script read and counted them
    target,     \* the directory it moves the job to
    active, errorcount, broken,             \* IdleScript; the script file
    number,     \* the job number of a document (history)
    attempts,   \* calls made for a document (history),
    succeeded,  \* those of them idle() took for a success,
    uncounted,  \* and those that left idle() by an exception
    crashed     \* crashes so far (history)

lockVars   == <<linked, holder, opened>>
fileVars   == <<nextnr, fax, control, theirs, later>>
idleVars   == <<round, tries, target>>
scriptVars == <<active, errorcount, broken>>
workVars   == <<pc, job, document>>
countVars  == <<attempts, succeeded, uncounted, crashed>>
vars == <<config, lockVars, fileVars, idleVars, scriptVars, workVars,
          number, countVars>>

Processes   == Clients \cup {Idle}
Jobs        == 1 .. MaxJob
QueueLock   == 0                    \* the name cs_lock
LockNames   == {QueueLock} \cup Jobs    \* and the lock files of the jobs
Directories == {"sendq", "done", "failed"}
ClientPCs   == {"free", "askNumber", "number", "openCounter", "count",
                "unlockQueue", "unlinkQueue", "convert", "describe", "fill", "protect",
                "tryAbort", "unlinkFax", "unlinkControl", "unlock", "unlink"}
IdlePCs     == {"sleep", "disable", "next", "tryLock", "check", "dial", "sending",
                "moveControl", "moveFax", "rewrite", "refill", "mail",
                "delay", "delayed", "unlock", "unlink"}
Descriptions == {None, Truncated} \cup 0 .. MaxTries

QueueTypeOK ==
    /\ config \in Configurations
    /\ linked \in [LockNames -> Inodes \cup {None}]
    /\ holder \in [Inodes -> Processes \cup {None}]
    /\ opened \in [Processes -> Inodes \cup {None}]
    /\ nextnr \in {None, Truncated} \cup Nat
    /\ fax \in [Directories -> [Jobs -> Documents \cup {None}]]
    /\ control \in [Directories -> [Jobs -> Descriptions]]
    /\ theirs \subseteq Jobs
    /\ later \subseteq Jobs
    /\ pc \in [Processes -> ClientPCs \cup IdlePCs]
    /\ job \in [Processes -> {0} \cup Jobs]
    /\ document \in [Processes -> Documents \cup {None}]
    /\ round \subseteq Jobs
    /\ tries \in 0 .. MaxTries
    /\ target \in Directories
    /\ active \in BOOLEAN
    /\ errorcount \in 0 .. ErrorLimit
    /\ broken \in BOOLEAN
    /\ number \in [Documents -> {0} \cup Jobs]
    /\ attempts \in [Documents -> Nat]
    /\ succeeded \in [Documents -> Nat]
    /\ uncounted \in [Documents -> Nat]
    /\ crashed \in Nat

QueueInit ==
    /\ config \in Configurations
    /\ linked = [l \in LockNames |-> None]
    /\ holder = [i \in Inodes |-> None]
    /\ opened = [p \in Processes |-> None]
    /\ nextnr = None
    /\ fax = [q \in Directories |-> [n \in Jobs |-> None]]
    /\ control = [q \in Directories |-> [n \in Jobs |-> None]]
    /\ theirs = {} /\ later = {}
    /\ pc = [p \in Processes |-> IF p = Idle THEN "sleep" ELSE "free"]
    /\ job = [p \in Processes |-> 0]
    /\ document = [p \in Processes |-> None]
    /\ round = {} /\ tries = 0 /\ target = "sendq"
    /\ active = TRUE /\ errorcount = 0 /\ broken = FALSE
    /\ number = [d \in Documents |-> 0]
    /\ attempts = [d \in Documents |-> 0]
    /\ succeeded = [d \in Documents |-> 0]
    /\ uncounted = [d \in Documents |-> 0]
    /\ crashed = 0

Goes(p, to) == pc' = [pc EXCEPT ![p] = to]
Moves(p, from, to) == pc[p] = from /\ Goes(p, to)

(* -- Lock files: fileutils._getLock and _releaseLock --------------------- *)

FreeInodes == {i \in Inodes : /\ \A l \in LockNames : linked[l] # i
                              /\ \A p \in Processes : opened[p] # i}

(* Nobody else is within a few microseconds of taking or releasing it.     *)
Apart(p, name) ==
    \/ config.overlap
    \/ \A q \in Processes \ {p} :
          ~(pc[q] \in {"tryAbort", "tryLock", "unlink"} /\ job[q] = name)

(* open(name, "w"): the file of this name, a new one if there is none.     *)
OpenLock(p, name) ==
    LET file == IF linked[name] # None THEN linked[name]
                ELSE CHOOSE i \in FreeInodes : TRUE
    IN  /\ Apart(p, name)
        /\ opened' = [opened EXCEPT ![p] = file]
        /\ linked' = [linked EXCEPT ![name] = file]
        /\ UNCHANGED holder

MayLock(p) == holder[opened[p]] = None

TakeLock(p) ==
    /\ holder' = [holder EXCEPT ![opened[p]] = p]
    /\ UNCHANGED <<linked, opened>>

(* Closing the file gives up its lock, if this process has it.             *)
CloseLock(p) ==
    /\ opened' = [opened EXCEPT ![p] = None]
    /\ holder' = [i \in Inodes |-> IF holder[i] = p THEN None ELSE holder[i]]
    /\ UNCHANGED linked

(* os.unlink: whatever file has the name now; a missing one is ignored.    *)
UnlinkLock(name) ==
    /\ linked' = [linked EXCEPT ![name] = None]
    /\ UNCHANGED <<holder, opened>>

(* -- capisuitefax: fax.enqueueJob ---------------------------------------- *)

Submitted == {d \in Documents : number[d] # 0} \cup {document[c] : c \in Clients}

InNumbering(c) == pc[c] \in {"askNumber", "number", "openCounter", "count",
                           "unlockQueue", "unlinkQueue"}

(* uniqueName opens cs_lock and waits for its lock; without overlap,       *)
(* clients come one after the other.                                       *)
Enqueue(c, d) ==
    /\ pc[c] = "free" /\ d \in config.documents \ Submitted
    /\ config.overlap \/ \A k \in Clients : ~InNumbering(k)
    /\ OpenLock(c, QueueLock)
    /\ document' = [document EXCEPT ![c] = d]
    /\ Goes(c, "askNumber")
    /\ UNCHANGED <<config, fileVars, idleVars, scriptVars, job, number, countVars>>

AskNumber(c) ==
    /\ Moves(c, "askNumber", "number")
    /\ MayLock(c) /\ TakeLock(c)
    /\ UNCHANGED <<config, fileVars, idleVars, scriptVars, job, document, number,
                   countVars>>

LastFile == CHOOSE n \in {0} \cup Jobs :
                /\ n = 0 \/ fax["sendq"][n] # None
                /\ \A m \in Jobs : fax["sendq"][m] # None => m <= n

(* readCounter; int() of an empty file raises.                             *)
ReadCounter(c) ==
    /\ pc[c] = "number"
    /\ IF nextnr = Truncated
       THEN /\ document' = [document EXCEPT ![c] = None]
            /\ Goes(c, "unlockQueue")
            /\ UNCHANGED job
       ELSE LET next == IF nextnr = None THEN LastFile + 1 ELSE nextnr
            IN  /\ next \in Jobs
                /\ job' = [job EXCEPT ![c] = next]
                /\ Goes(c, "openCounter")
                /\ UNCHANGED document
    /\ UNCHANGED <<config, lockVars, fileVars, idleVars, scriptVars, number,
                   countVars>>

(* writeCounter opens the file and writes it.                              *)
OpenCounter(c) ==
    /\ Moves(c, "openCounter", "count")
    /\ number' = [number EXCEPT ![document[c]] = job[c]]
    /\ nextnr' = Truncated
    /\ UNCHANGED <<config, lockVars, fax, control, theirs, later, idleVars,
                   scriptVars, job, document, countVars>>

(* Slip: the number just given is written.                                 *)
WriteSameCounter(c) ==
    /\ Moves(c, "count", "unlockQueue")
    /\ nextnr' = job[c]
    /\ UNCHANGED <<config, lockVars, fax, control, theirs, later, idleVars,
                   scriptVars, job, document, number, countVars>>

WriteCounter(c) ==
    /\ Moves(c, "count", "unlockQueue")
    /\ nextnr' = job[c] + 1
    /\ UNCHANGED <<config, lockVars, fax, control, theirs, later, idleVars,
                   scriptVars, job, document, number, countVars>>

UnlockQueue(c) ==
    /\ Moves(c, "unlockQueue", "unlinkQueue")
    /\ CloseLock(c)
    /\ UNCHANGED <<config, fileVars, idleVars, scriptVars, job, document, number,
                   countVars>>

(* What the process had in memory is gone with its end.                    *)
EndsClient(c) ==
    /\ job' = [job EXCEPT ![c] = 0]
    /\ document' = [document EXCEPT ![c] = None]
    /\ Goes(c, "free")

UnlinkQueue(c) ==
    /\ pc[c] = "unlinkQueue"
    /\ UnlinkLock(QueueLock)
    /\ IF document[c] = None THEN EndsClient(c)
       ELSE Goes(c, "convert") /\ UNCHANGED <<job, document>>
    /\ UNCHANGED <<config, fileVars, idleVars, scriptVars, number, countVars>>

(* convert2Fax writes the fax, or returns without one and the job is       *)
(* created all the same, or ends the program.                              *)
Convert(c) ==
    /\ pc[c] = "convert"
    /\ \/ /\ fax' = [fax EXCEPT !["sendq"][job[c]] = document[c]]
          /\ Goes(c, "describe")
          /\ UNCHANGED <<job, document>>
       \/ /\ Goes(c, "describe")
          /\ UNCHANGED <<fax, job, document>>
       \/ EndsClient(c) /\ UNCHANGED fax
    /\ UNCHANGED <<config, lockVars, nextnr, control, theirs, later, idleVars,
                   scriptVars, number, countVars>>

(* _createSendJob: createDescriptionFor opens the control file, as the     *)
(* user or as root for the user,                                           *)
Describe(c) ==
    /\ Moves(c, "describe", "fill")
    /\ control' = [control EXCEPT !["sendq"][job[c]] = Truncated]
    /\ \E own \in {{}, {job[c]}} : theirs' = theirs \cup own
    /\ UNCHANGED <<config, lockVars, nextnr, fax, later, idleVars, scriptVars,
                   job, document, number, countVars>>

(* writes it,                                                              *)
Fill(c) ==
    /\ Moves(c, "fill", "protect")
    /\ control' = [control EXCEPT !["sendq"][job[c]] = 0]
    /\ later' = later \ {job[c]}
    /\ UNCHANGED <<config, lockVars, nextnr, fax, theirs, idleVars, scriptVars,
                   job, document, number, countVars>>

(* and _setProtection gives both files to the user, if both are there.     *)
Protect(c) ==
    /\ pc[c] = "protect"
    /\ theirs' = IF fax["sendq"][job[c]] # None /\ control["sendq"][job[c]] # None
                 THEN theirs \cup {job[c]} ELSE theirs
    /\ EndsClient(c)
    /\ UNCHANGED <<config, lockVars, nextnr, fax, control, later, idleVars,
                   scriptVars, number, countVars>>

(* -- capisuitefax: fax.abortUserJob and abortJob ------------------------- *)

(* The control file must be there; the lock file is opened.                *)
Abort(c, n) ==
    /\ pc[c] = "free" /\ config.aborts
    /\ control["sendq"][n] # None
    /\ OpenLock(c, n)
    /\ job' = [job EXCEPT ![c] = n]
    /\ Goes(c, "tryAbort")
    /\ UNCHANGED <<config, fileVars, idleVars, scriptVars, document, number,
                   countVars>>

(* Slip: goes on without the lock.                                         *)
AbortAnyway(c) ==
    /\ Moves(c, "tryAbort", "unlinkFax")
    /\ IF MayLock(c) THEN TakeLock(c) ELSE UNCHANGED lockVars
    /\ UNCHANGED <<config, fileVars, idleVars, scriptVars, job, document, number,
                   countVars>>

(* Nonblocking: the program ends if the lock is taken.                     *)
TryAbort(c) ==
    /\ pc[c] = "tryAbort"
    /\ IF MayLock(c)
       THEN TakeLock(c) /\ Goes(c, "unlinkFax") /\ UNCHANGED <<job, document>>
       ELSE CloseLock(c) /\ EndsClient(c)
    /\ UNCHANGED <<config, fileVars, idleVars, scriptVars, number, countVars>>

(* A description without file name, and a fax that is not there, raise.    *)
UnlinkFax(c) ==
    LET n == job[c]
    IN  /\ pc[c] = "unlinkFax"
        /\ IF control["sendq"][n] \in {None, Truncated} \/ fax["sendq"][n] = None
           THEN Goes(c, "unlock") /\ UNCHANGED fax
           ELSE /\ Goes(c, "unlinkControl")
                /\ fax' = [fax EXCEPT !["sendq"][n] = None]
        /\ UNCHANGED <<config, lockVars, nextnr, control, theirs, later, idleVars,
                       scriptVars, job, document, number, countVars>>

UnlinkControl(c) ==
    /\ Moves(c, "unlinkControl", "unlock")
    /\ control' = [control EXCEPT !["sendq"][job[c]] = None]
    /\ theirs' = theirs \ {job[c]}
    /\ later' = later \ {job[c]}
    /\ UNCHANGED <<config, lockVars, nextnr, fax, idleVars, scriptVars, job,
                   document, number, countVars>>

Unlock(p) ==
    /\ Moves(p, "unlock", "unlink")
    /\ Apart(p, job[p])
    /\ CloseLock(p)
    /\ UNCHANGED <<config, fileVars, idleVars, scriptVars, job, document, number,
                   countVars>>

Unlink(c) ==
    /\ pc[c] = "unlink"
    /\ UnlinkLock(job[c])
    /\ EndsClient(c)
    /\ UNCHANGED <<config, fileVars, idleVars, scriptVars, number, countVars>>

ClientNext(c) ==
    \/ \E d \in Documents : Enqueue(c, d)
    \/ AskNumber(c) \/ ReadCounter(c) \/ OpenCounter(c) \/ WriteCounter(c)
    \/ UnlockQueue(c) \/ UnlinkQueue(c)
    \/ Convert(c) \/ Describe(c) \/ Fill(c) \/ Protect(c)
    \/ \E n \in Jobs : Abort(c, n)
    \/ TryAbort(c) \/ UnlinkFax(c) \/ UnlinkControl(c) \/ Unlock(c) \/ Unlink(c)

(* -- The idle script: IdleScript::run and idle() ------------------------- *)

Queued == {n \in Jobs : control["sendq"][n] # None}

(* idle() lists the control files; a script that cannot be read is an      *)
(* error, an exception in idle() is not.                                   *)
StartRound ==
    /\ pc[Idle] = "sleep" /\ active
    /\ IF broken
       THEN /\ errorcount' = IF errorcount < ErrorLimit THEN errorcount + 1 ELSE errorcount
            /\ Goes(Idle, IF errorcount + 1 >= ErrorLimit THEN "disable" ELSE "sleep")
            /\ UNCHANGED round
       ELSE /\ round' = Queued
            /\ Goes(Idle, "next")
            /\ UNCHANGED errorcount
    /\ UNCHANGED <<config, lockVars, fileVars, tries, target, active, broken, job,
                   document, number, countVars>>

(* Slip: the thread does not come back to its loop.                        *)
DisableForEver ==
    /\ Moves(Idle, "disable", "disable")
    /\ active' = FALSE
    /\ UNCHANGED <<config, lockVars, fileVars, idleVars, errorcount, broken, job,
                   document, number, countVars>>

Disable ==
    /\ Moves(Idle, "disable", "sleep")
    /\ active' = FALSE
    /\ UNCHANGED <<config, lockVars, fileVars, idleVars, errorcount, broken, job,
                   document, number, countVars>>

EndRound ==
    /\ round = {} /\ Moves(Idle, "next", "sleep")
    /\ errorcount' = 0
    /\ UNCHANGED <<config, lockVars, fileVars, idleVars, active, broken, job,
                   document, number, countVars>>

NextJob(n) ==
    /\ n \in round /\ Moves(Idle, "next", "tryLock")
    /\ round' = round \ {n}
    /\ job' = [job EXCEPT ![Idle] = n]
    /\ OpenLock(Idle, n)
    /\ UNCHANGED <<config, fileVars, tries, target, scriptVars, document, number,
                   countVars>>

TryLock ==
    /\ pc[Idle] = "tryLock"
    /\ IF MayLock(Idle) THEN TakeLock(Idle) /\ Goes(Idle, "check") /\ UNCHANGED job
       ELSE CloseLock(Idle) /\ Goes(Idle, "next") /\ job' = [job EXCEPT ![Idle] = 0]
    /\ UNCHANGED <<config, fileVars, idleVars, scriptVars, document, number,
                   countVars>>

(* An exception leaves the loop over the jobs, by way of finally.          *)
Raise == Goes(Idle, "unlock") /\ round' = {}

(* A description without file name raises; a file that is missing or not   *)
(* the user's, and a starttime in the future, mean to go on with the next. *)
Check ==
    LET n == job[Idle]
    IN  /\ pc[Idle] = "check"
        /\ \/ /\ control["sendq"][n] \in {None, Truncated}
              /\ Raise
              /\ UNCHANGED <<tries, document>>
           \/ /\ control["sendq"][n] \notin {None, Truncated}
              /\ fax["sendq"][n] = None \/ n \notin theirs \/ n \in later
              /\ Goes(Idle, "unlock")
              /\ UNCHANGED <<round, tries, document>>
           \/ /\ control["sendq"][n] \notin {None, Truncated}
              /\ fax["sendq"][n] # None /\ n \in theirs /\ n \notin later
              /\ tries' = control["sendq"][n]
              /\ document' = [document EXCEPT ![Idle] = fax["sendq"][n]]
              /\ Goes(Idle, "dial")
              /\ UNCHANGED round
        /\ UNCHANGED <<config, lockVars, fileVars, target, scriptVars, job,
                       number, countVars>>

(* Slip: one try more than send_tries.                                     *)
EvaluateOneMore(send_ok) ==
    /\ tries' = tries + 1
    /\ IF send_ok THEN target' = "done" /\ Goes(Idle, "moveControl")
       ELSE IF tries >= MaxTries THEN target' = "failed" /\ Goes(Idle, "moveControl")
       ELSE Goes(Idle, "delay") /\ UNCHANGED target

(* Slip: the last try counts as done, whatever its result.                 *)
EvaluateTriesFirst(send_ok) ==
    /\ tries' = tries + 1
    /\ IF tries + 1 >= MaxTries \/ send_ok
       THEN target' = "done" /\ Goes(Idle, "moveControl")
       ELSE Goes(Idle, "delay") /\ UNCHANGED target

(* Slip: a success is not looked at before the last try.                   *)
EvaluateLate(send_ok) ==
    /\ tries' = tries + 1
    /\ IF tries + 1 >= MaxTries
       THEN target' = (IF send_ok THEN "done" ELSE "failed") /\ Goes(Idle, "moveControl")
       ELSE Goes(Idle, "delay") /\ UNCHANGED target

(* What follows from the result of a call.                                 *)
Evaluate(send_ok) ==
    /\ tries' = tries + 1
    /\ IF send_ok THEN target' = "done" /\ Goes(Idle, "moveControl")
       ELSE IF tries + 1 >= MaxTries THEN target' = "failed" /\ Goes(Idle, "moveControl")
       ELSE Goes(Idle, "delay") /\ UNCHANGED target

(* sendfax catches CallGoneError only: any other exception of call_faxG3,  *)
(* fax_send or disconnect leaves idle(), and the try is not counted.       *)
RaiseUncounted ==
    /\ Raise
    /\ uncounted' = [uncounted EXCEPT ![document[Idle]] = @ + 1]
    /\ UNCHANGED <<tries, target, succeeded>>

MayRaise == config.raising /\ uncounted[document[Idle]] < MaxErrors

(* The causes idle() gets tell it whether to take the call for a success:  *)
(* so may those of a call that was not established, as sendfax returns     *)
(* (cause, 0) and some causes of a normal end are in idle()'s list.        *)
Result(send_ok) ==
    /\ Evaluate(send_ok)
    /\ succeeded' = IF send_ok THEN [succeeded EXCEPT ![document[Idle]] = @ + 1]
                    ELSE succeeded
    /\ UNCHANGED <<round, uncounted>>

(* sendfax: call_faxG3 fails or raises, or fax_send opens the file.        *)
Dial ==
    /\ pc[Idle] = "dial"
    /\ attempts' = [attempts EXCEPT ![document[Idle]] = @ + 1]
    /\ \/ \E send_ok \in BOOLEAN : Result(send_ok)
       \/ MayRaise /\ RaiseUncounted
       \/ fax["sendq"][job[Idle]] = None /\ RaiseUncounted
       \/ /\ fax["sendq"][job[Idle]] # None
          /\ Goes(Idle, "sending")
          /\ UNCHANGED <<round, tries, target, succeeded, uncounted>>
    /\ UNCHANGED <<config, lockVars, fileVars, scriptVars, job, document, number,
                   crashed>>

(* fax_send and disconnect: whether the fax arrived or not, idle() goes by *)
(* the causes disconnect returns.                                          *)
Send ==
    /\ pc[Idle] = "sending"
    /\ \/ \E send_ok \in BOOLEAN : Result(send_ok)
       \/ MayRaise /\ RaiseUncounted
    /\ UNCHANGED <<config, lockVars, fileVars, scriptVars, job, document, number,
                   attempts, crashed>>

(* fax.moveJob reads the description again, renames the control file,      *)
MoveControl ==
    LET n == job[Idle]
    IN  /\ pc[Idle] = "moveControl"
        /\ IF control["sendq"][n] \in {None, Truncated}
           THEN Raise /\ UNCHANGED <<control, theirs, later, tries>>
           ELSE /\ control' = [control EXCEPT ![target][n] = control["sendq"][n],
                                              !["sendq"][n] = None]
                /\ tries' = control["sendq"][n]
                /\ theirs' = theirs \ {n}
                /\ later' = later \ {n}
                /\ Goes(Idle, "moveFax") /\ UNCHANGED round
        /\ UNCHANGED <<config, lockVars, nextnr, fax, target, scriptVars, job,
                       document, number, countVars>>

(* renames the fax,                                                        *)
MoveFax ==
    LET n == job[Idle]
    IN  /\ pc[Idle] = "moveFax"
        /\ IF fax["sendq"][n] = None THEN Raise /\ UNCHANGED fax
           ELSE /\ fax' = [fax EXCEPT ![target][n] = fax["sendq"][n], !["sendq"][n] = None]
                /\ Goes(Idle, "rewrite") /\ UNCHANGED round
        /\ UNCHANGED <<config, lockVars, nextnr, control, theirs, later, tries,
                       target, scriptVars, job, document, number, countVars>>

(* and writes what it had read, with the new name of the fax: not the      *)
(* tries that idle() has counted in an object of its own.                  *)
Rewrite ==
    /\ Moves(Idle, "rewrite", "refill")
    /\ control' = [control EXCEPT ![target][job[Idle]] = Truncated]
    /\ UNCHANGED <<config, lockVars, nextnr, fax, theirs, later, idleVars,
                   scriptVars, job, document, number, countVars>>

Refill ==
    /\ Moves(Idle, "refill", "mail")
    /\ control' = [control EXCEPT ![target][job[Idle]] = tries]
    /\ UNCHANGED <<config, lockVars, nextnr, fax, theirs, later, idleVars,
                   scriptVars, job, document, number, countVars>>

(* The mail to the user may raise.                                         *)
Mail ==
    /\ pc[Idle] = "mail"
    /\ Raise \/ (Goes(Idle, "unlock") /\ UNCHANGED round)
    /\ UNCHANGED <<config, lockVars, fileVars, tries, target, scriptVars, job,
                   document, number, countVars>>

(* A later try: tries and starttime are written to the control file.       *)
Delay ==
    /\ Moves(Idle, "delay", "delayed")
    /\ control' = [control EXCEPT !["sendq"][job[Idle]] = Truncated]
    /\ UNCHANGED <<config, lockVars, nextnr, fax, theirs, later, idleVars,
                   scriptVars, job, document, number, countVars>>

(* Slip: tries is not saved.                                               *)
DelayedUncounted ==
    /\ Moves(Idle, "delayed", "unlock")
    /\ control' = [control EXCEPT !["sendq"][job[Idle]] = 0]
    /\ later' = later \cup {job[Idle]}
    /\ UNCHANGED <<config, lockVars, nextnr, fax, theirs, idleVars, scriptVars,
                   job, document, number, countVars>>

Delayed ==
    /\ Moves(Idle, "delayed", "unlock")
    /\ control' = [control EXCEPT !["sendq"][job[Idle]] = tries]
    /\ later' = later \cup {job[Idle]}
    /\ UNCHANGED <<config, lockVars, nextnr, fax, theirs, idleVars, scriptVars,
                   job, document, number, countVars>>

UnlinkIdle ==
    /\ Moves(Idle, "unlink", "next")
    /\ UnlinkLock(job[Idle])
    /\ job' = [job EXCEPT ![Idle] = 0]
    /\ document' = [document EXCEPT ![Idle] = None]
    /\ tries' = 0 /\ target' = "sendq"
    /\ UNCHANGED <<config, fileVars, round, scriptVars, number, countVars>>

IdleNext ==
    \/ StartRound \/ Disable \/ EndRound
    \/ \E n \in Jobs : NextJob(n)
    \/ TryLock \/ Check \/ Dial \/ Send
    \/ MoveControl \/ MoveFax \/ Rewrite \/ Refill \/ Mail
    \/ Delay \/ Delayed \/ Unlock(Idle) \/ UnlinkIdle

(* -- Time, the administrator, and crashes -------------------------------- *)

StartTime(n) ==
    /\ n \in later
    /\ later' = later \ {n}
    /\ UNCHANGED <<config, lockVars, nextnr, fax, control, theirs, idleVars,
                   scriptVars, workVars, number, countVars>>

Break ==
    /\ config.broken /\ ~broken
    /\ broken' = TRUE
    /\ UNCHANGED <<config, lockVars, fileVars, idleVars, active, errorcount,
                   workVars, number, countVars>>

Repair ==
    /\ broken
    /\ broken' = FALSE
    /\ UNCHANGED <<config, lockVars, fileVars, idleVars, active, errorcount,
                   workVars, number, countVars>>

(* SIGHUP: hup_handler, CapiSuite::reload and IdleScript::activate, which  *)
(* leaves errorcount as it is.                                             *)
Hangup ==
    /\ ~active
    /\ active' = TRUE
    /\ UNCHANGED <<config, lockVars, fileVars, idleVars, errorcount, broken,
                   workVars, number, countVars>>

(* The files stay as they are; a daemon is started again.                  *)
Crash(p) ==
    /\ p \in config.crashing /\ crashed < MaxCrashes
    /\ pc[p] \notin {"free", "sleep"}
    /\ crashed' = crashed + 1
    /\ CloseLock(p)
    /\ IF p = Idle
       THEN /\ Goes(p, "sleep")
            /\ job' = [job EXCEPT ![p] = 0]
            /\ document' = [document EXCEPT ![p] = None]
            /\ round' = {} /\ tries' = 0 /\ target' = "sendq"
            /\ active' = TRUE /\ errorcount' = 0
       ELSE EndsClient(p) /\ UNCHANGED <<idleVars, active, errorcount>>
    /\ UNCHANGED <<config, fileVars, broken, number, attempts, succeeded,
                   uncounted>>

QueueNext ==
    \/ \E c \in config.clients : ClientNext(c)
    \/ IdleNext
    \/ \E n \in Jobs : StartTime(n)
    \/ Break \/ Repair \/ Hangup
    \/ \E p \in Processes : Crash(p)

Spec == QueueInit /\ [][QueueNext]_vars

(* A program that was started goes on, the idle thread runs round by       *)
(* round, time passes, and the administrator sends SIGHUP after the log    *)
(* says the idle script was disabled.  Strong fairness, as a step that     *)
(* waits for others not to overlap does not really wait.                   *)
Fairness ==
    /\ \A c \in Clients : SF_vars(ClientNext(c) /\ pc[c] # "free")
    /\ SF_vars(IdleNext)
    /\ \A n \in Jobs : WF_vars(StartTime(n))
    /\ WF_vars(Hangup)

FairSpec == Spec /\ Fairness

(* -- Correctness --------------------------------------------------------- *)

(* uniqueName gives every document a number, and so files, of its own.     *)
NumbersDiffer ==
    \A d, e \in Documents : d # e /\ number[d] # 0 => number[d] # number[e]

(* "lock the job so that it isn't deleted while sending": from the check   *)
(* to the end of the call and the change of the control file, the files of *)
(* the job are the ones idle() has read.                                   *)
SendsItsJob ==
    pc[Idle] \in {"dial", "sending", "moveControl", "delay"} =>
        /\ fax["sendq"][job[Idle]] = document[Idle]
        /\ control["sendq"][job[Idle]] =
              IF pc[Idle] \in {"dial", "sending"} THEN tries ELSE tries - 1

(* A document is tried send_tries times; a crash may cost one more, as the *)
(* try is counted after the call only, and so does every exception.        *)
TriesAreLimited ==
    \A d \in Documents : attempts[d] <= MaxTries + crashed + uncounted[d]

(* A call idle() takes for a success is the last one for its document,     *)
(* unless a crash prevented the move of the job out of the queue.  (A fax  *)
(* that arrived without idle() learning of it is sent again.)              *)
SentOnce == \A d \in Documents : succeeded[d] <= 1 + crashed

(* Where the job of a document is.  A job whose control file is gone, or   *)
(* was never written by a program that ended, counts as deleted.           *)
Place(d) ==
    LET n == number[d]
        creating == \E c \in Clients :
            document[c] = d /\ pc[c] \notin {"fill", "protect"}
        held(q) == n # 0 /\ control[q][n] # None
    IN  CASE held("done")   -> "done"
          [] held("failed") -> "failed"
          [] held("sendq")  -> "sendq"
          [] OTHER -> IF n = 0 \/ creating THEN "none" ELSE "deleted"

(* The files of the queue go through what ItemStorage promises: one place  *)
(* at a time, done only after a call it takes for a success, failed only   *)
(* after send_tries calls, and no call for a job that is not in the queue. *)
Life == INSTANCE JobLife WITH place <- [d \in Documents |-> Place(d)]
ImplementsJobLife == Life!JobLifeSpec

(* Every job with its files in order leaves the queue, as long as nothing  *)
(* crashes, no call ends in an exception and the script can be read.       *)
Ready(d) ==
    /\ Place(d) = "sendq" /\ number[d] \in theirs
    /\ control["sendq"][number[d]] # Truncated
    /\ fax["sendq"][number[d]] # None

JobLeavesQueue ==
    config.crashing = {} /\ ~config.raising =>
        \A d \in Documents :
            Ready(d) ~> Place(d) \in {"done", "failed", "deleted"} \/ broken
=============================================================================
