--------------------------- MODULE FaxQueueProofs ---------------------------
(* What holds of the queue of faxes for any number of clients, documents   *)
(* and jobs, whatever processes crash.                                     *)
EXTENDS FaxQueue, FiniteSetTheorems, TLAPS

USE DEF lockVars, fileVars, idleVars, scriptVars, workVars, countVars

(* Where a process has no lock file open.                                  *)
Closed == {"free", "unlinkQueue", "convert", "describe", "fill", "protect",
           "unlink", "sleep", "disable", "next"}

(* Where a process works on a job.                                         *)
ClientJobPCs == {"openCounter", "count", "convert", "describe", "fill", "protect",
                 "tryAbort", "unlinkFax", "unlinkControl", "unlock", "unlink"}
IdleJobPCs   == IdlePCs \ {"sleep", "disable", "next"}

(* The type invariant in the parts the steps disturb together, and with it *)
(* what the types of later steps depend on.                                *)
LockType ==
    /\ linked \in [LockNames -> Inodes \cup {None}]
    /\ holder \in [Inodes -> Processes \cup {None}]
    /\ opened \in [Processes -> Inodes \cup {None}]

CounterType == nextnr \in {None, Truncated} \cup Nat
FaxType     == fax \in [Directories -> [Jobs -> Documents \cup {None}]]
ControlType ==
    /\ control \in [Directories -> [Jobs -> Descriptions]]
    /\ \A n \in Jobs : control["sendq"][n] # MaxTries
SetType     == theirs \subseteq Jobs /\ later \subseteq Jobs /\ round \subseteq Jobs
PCType ==
    /\ pc \in [Processes -> ClientPCs \cup IdlePCs]
    /\ \A c \in Clients : pc[c] \in ClientPCs
    /\ pc[Idle] \in IdlePCs
    /\ \A p \in Processes : pc[p] \in Closed => opened[p] = None
    /\ \A c \in Clients :
          \/ pc[c] \in ClientJobPCs
          \/ pc[c] \in {"unlockQueue", "unlinkQueue"} /\ document[c] # None
          => job[c] \in Jobs
    /\ pc[Idle] \in IdleJobPCs => job[Idle] \in Jobs
WorkType ==
    /\ job \in [Processes -> {0} \cup Jobs]
    /\ document \in [Processes -> Documents \cup {None}]
TriesType ==
    /\ tries \in 0 .. MaxTries /\ target \in Directories
    /\ pc[Idle] \in {"dial", "sending", "delay", "delayed"} => tries < MaxTries
    /\ pc[Idle] \in {"moveControl", "moveFax", "rewrite", "refill"} =>
          target \in {"done", "failed"}
ScriptType ==
    /\ config \in Configurations
    /\ active \in BOOLEAN /\ errorcount \in 0 .. ErrorLimit /\ broken \in BOOLEAN
CountType ==
    /\ number \in [Documents -> {0} \cup Jobs]
    /\ attempts \in [Documents -> Nat] /\ succeeded \in [Documents -> Nat]
    /\ uncounted \in [Documents -> Nat]
    /\ crashed \in Nat

TypeInv ==
    /\ LockType /\ CounterType /\ FaxType /\ ControlType /\ SetType
    /\ PCType /\ WorkType /\ TriesType /\ ScriptType /\ CountType

LEMMA TypeImplies == TypeInv => QueueTypeOK
  BY DEF TypeInv, LockType, CounterType, FaxType, ControlType, SetType, PCType, WorkType,
         TriesType, ScriptType, CountType, QueueTypeOK

LEMMA Kept ==
    ASSUME TypeInv
    PROVE  /\ UNCHANGED lockVars => LockType'
           /\ UNCHANGED nextnr => CounterType'
           /\ UNCHANGED fax => FaxType'
           /\ UNCHANGED control => ControlType'
           /\ UNCHANGED <<theirs, later, round>> => SetType'
           /\ UNCHANGED <<pc, opened, job, document>> => PCType'
           /\ UNCHANGED <<job, document>> => WorkType'
           /\ UNCHANGED <<pc, tries, target>> => TriesType'
           /\ UNCHANGED <<config, active, errorcount, broken>> => ScriptType'
           /\ UNCHANGED <<number, attempts, succeeded, uncounted, crashed>> => CountType'
  BY DEF TypeInv, LockType, CounterType, FaxType, ControlType, SetType, PCType, WorkType,
         TriesType, ScriptType, CountType

(* A step of a client leaves the idle script where it is.                  *)
LEMMA ClientKept ==
    ASSUME TypeInv, NEW c \in Clients, NEW to, Goes(c, to), UNCHANGED <<tries, target>>
    PROVE  TriesType'
  BY QueueAssumption DEF Goes, TypeInv, TriesType, PCType, Processes

(* Inodes suffice: there is a free one for whoever opens a lock file.      *)
LEMMA FreeInode ==
    ASSUME LockType, NEW p \in Processes, opened[p] = None,
           NEW name \in LockNames, linked[name] = None
    PROVE  FreeInodes # {}
  <1> DEFINE N == LockNames \ {name}
             P == Processes \ {p}
             A == {linked[l] : l \in N}
             B == {opened[q] : q \in P}
             f == [l \in N |-> linked[l]]
             g == [q \in P |-> opened[q]]
  <1>1. IsFiniteSet(N) /\ Cardinality(N) = MaxJob
    <2>1. LockNames = 0 .. MaxJob
      BY QueueAssumption DEF LockNames, QueueLock, Jobs
    <2>2. IsFiniteSet(0 .. MaxJob) /\ Cardinality(0 .. MaxJob) = MaxJob + 1
      <3>1. MaxJob \in Nat
        BY QueueAssumption
      <3>2. ~(0 > MaxJob) /\ MaxJob - 0 + 1 = MaxJob + 1 /\ 0 \in Int /\ MaxJob \in Int
        BY <3>1
      <3>3. /\ IsFiniteSet(0 .. MaxJob)
            /\ Cardinality(0 .. MaxJob) = IF 0 > MaxJob THEN 0 ELSE MaxJob - 0 + 1
        BY <3>2, FS_Interval
      <3> QED
        BY <3>2, <3>3
    <2>3. IsFiniteSet(LockNames) /\ Cardinality(LockNames) = MaxJob + 1
      BY <2>1, <2>2
    <2>4. IsFiniteSet(LockNames \ {name})
          /\ Cardinality(LockNames \ {name}) = Cardinality(LockNames) - 1
      BY <2>3, FS_RemoveElement
    <2> QED
      BY <2>3, <2>4, QueueAssumption
  <1>2. IsFiniteSet(P) /\ Cardinality(P) = Cardinality(Clients)
    <2>1. IsFiniteSet(Processes) /\ Cardinality(Processes) = Cardinality(Clients) + 1
      BY EnoughInodes, QueueAssumption, FS_AddElement DEF Processes
    <2>2. IsFiniteSet(Processes \ {p})
          /\ Cardinality(Processes \ {p}) = Cardinality(Processes) - 1
      BY <2>1, FS_RemoveElement
    <2>3. Cardinality(Clients) \in Nat
      BY EnoughInodes, FS_CardinalityType
    <2> QED
      BY <2>1, <2>2, <2>3
  <1>3. IsFiniteSet(A) /\ Cardinality(A) <= MaxJob
    <2>1. f \in Surjection(N, A)
      BY DEF Surjection
    <2> QED
      BY <2>1, <1>1, FS_Surjection
  <1>4. IsFiniteSet(B) /\ Cardinality(B) <= Cardinality(Clients)
    <2>1. g \in Surjection(P, B)
      BY DEF Surjection
    <2> QED
      BY <2>1, <1>2, FS_Surjection
  <1>5. IsFiniteSet(A \cup B) /\ Cardinality(A \cup B) <= MaxJob + Cardinality(Clients)
    <2>1. /\ IsFiniteSet(A \cup B)
          /\ Cardinality(A \cup B) = Cardinality(A) + Cardinality(B) - Cardinality(A \cap B)
      BY <1>3, <1>4, FS_Union
    <2>2. IsFiniteSet(A \cap B)
      BY <1>3, FS_Subset
    <2>3. /\ Cardinality(A) \in Nat /\ Cardinality(B) \in Nat
          /\ Cardinality(A \cap B) \in Nat /\ Cardinality(Clients) \in Nat
      BY <1>3, <1>4, <2>2, EnoughInodes, FS_CardinalityType
    <2> HIDE DEF A, B
    <2> QED
      BY <2>1, <2>3, <1>3, <1>4, QueueAssumption
  <1>6. ASSUME Inodes \subseteq A \cup B PROVE FALSE
    BY <1>5, <1>6, FS_Subset, FS_CardinalityType, EnoughInodes, QueueAssumption
  <1>7. PICK i \in Inodes : i \notin A \cup B
    BY <1>6
  <1>8. i # None
    BY <1>7, QueueAssumption
  <1>9. i \in FreeInodes
    BY <1>7, <1>8 DEF FreeInodes
  <1> QED
    BY <1>9

(* Opening a lock file gives an inode, the one the name stands for from    *)
(* then on.                                                                *)
LEMMA OpenType ==
    ASSUME LockType, NEW p \in Processes, opened[p] = None,
           NEW name \in LockNames, OpenLock(p, name)
    PROVE  /\ LockType'
           /\ \E i \in Inodes :
                 /\ opened' = [opened EXCEPT ![p] = i]
                 /\ linked' = [linked EXCEPT ![name] = i]
                 /\ IF linked[name] # None THEN i = linked[name] ELSE i \in FreeInodes
           /\ UNCHANGED holder
  <1> DEFINE i == IF linked[name] # None THEN linked[name] ELSE CHOOSE j \in FreeInodes : TRUE
  <1>1. /\ opened' = [opened EXCEPT ![p] = i]
        /\ linked' = [linked EXCEPT ![name] = i]
        /\ UNCHANGED holder
    BY DEF OpenLock
  <1>2. IF linked[name] # None THEN i = linked[name] ELSE i \in FreeInodes
    BY FreeInode
  <1>3. i \in Inodes
    BY <1>2 DEF LockType, FreeInodes
  <1>4. LockType'
    BY <1>1, <1>3 DEF LockType
  <1> QED
    BY <1>1, <1>2, <1>3, <1>4

LEMMA TakeType ==
    ASSUME LockType, NEW p \in Processes, TakeLock(p)
    PROVE  LockType'
  BY DEF LockType, TakeLock

LEMMA CloseType ==
    ASSUME LockType, NEW p \in Processes, CloseLock(p)
    PROVE  LockType' /\ opened' = [opened EXCEPT ![p] = None]
  BY DEF LockType, CloseLock

LEMMA UnlinkType ==
    ASSUME LockType, NEW name, UnlinkLock(name)
    PROVE  LockType'
  BY DEF LockType, UnlinkLock

(* A process goes on: what PCType asks of its next step.                   *)
LEMMA ClientGoes ==
    ASSUME TypeInv, NEW c \in Clients, NEW to \in ClientPCs, Goes(c, to),
           \A q \in Processes \ {c} :
              opened'[q] = opened[q] /\ job'[q] = job[q] /\ document'[q] = document[q],
           to \in Closed => opened'[c] = None,
           \/ to \in ClientJobPCs
           \/ to \in {"unlockQueue", "unlinkQueue"} /\ document'[c] # None
           => job'[c] \in Jobs
    PROVE  PCType'
  <1>1. /\ pc' \in [Processes -> ClientPCs \cup IdlePCs]
        /\ c \in Processes /\ c # Idle /\ Idle \in Processes
        /\ pc'[c] = to /\ \A q \in Processes \ {c} : pc'[q] = pc[q]
    BY QueueAssumption DEF Goes, TypeInv, PCType, Processes
  <1>2. \A p \in Processes : pc'[p] \in Closed => opened'[p] = None
    BY <1>1 DEF TypeInv, PCType
  <1>3. ASSUME NEW k \in Clients
        PROVE  /\ pc'[k] \in ClientPCs
               /\ \/ pc'[k] \in ClientJobPCs
                  \/ pc'[k] \in {"unlockQueue", "unlinkQueue"} /\ document'[k] # None
                  => job'[k] \in Jobs
    <2>1. CASE k = c
      BY <1>1, <2>1
    <2>2. CASE k # c
      <3>1. pc'[k] = pc[k] /\ job'[k] = job[k] /\ document'[k] = document[k]
        BY <1>1, <2>2 DEF Processes
      <3> QED
        BY <3>1 DEF TypeInv, PCType
    <2> QED
      BY <2>1, <2>2
  <1>4. pc'[Idle] \in IdlePCs /\ (pc'[Idle] \in IdleJobPCs => job'[Idle] \in Jobs)
    BY <1>1 DEF TypeInv, PCType
  <1> QED
    BY <1>1, <1>2, <1>3, <1>4 DEF PCType

LEMMA IdleGoes ==
    ASSUME TypeInv, NEW to \in IdlePCs, Goes(Idle, to),
           \A q \in Clients :
              opened'[q] = opened[q] /\ job'[q] = job[q] /\ document'[q] = document[q],
           to \in Closed => opened'[Idle] = None,
           to \in IdleJobPCs => job'[Idle] \in Jobs
    PROVE  PCType'
  <1>1. /\ pc' \in [Processes -> ClientPCs \cup IdlePCs]
        /\ pc'[Idle] = to /\ \A c \in Clients : c # Idle /\ c \in Processes /\ pc'[c] = pc[c]
    BY QueueAssumption DEF Goes, TypeInv, PCType, Processes
  <1>2. \A p \in Processes : pc'[p] \in Closed => opened'[p] = None
    BY <1>1 DEF TypeInv, PCType, Processes
  <1>3. \A c \in Clients :
          \/ pc'[c] \in ClientJobPCs
          \/ pc'[c] \in {"unlockQueue", "unlinkQueue"} /\ document'[c] # None
          => job'[c] \in Jobs
    BY <1>1 DEF TypeInv, PCType
  <1> QED
    BY <1>1, <1>2, <1>3 DEF TypeInv, PCType

LEMMA Names ==
    /\ ClientPCs \cap IdlePCs = {"unlock", "unlink"}
    /\ Idle \in Processes /\ Clients \subseteq Processes /\ Idle \notin Clients
    /\ \A c \in Clients : \A p \in Processes : p = c \/ p \in Processes \ {c}
    /\ Processes \ {Idle} = Clients
    /\ Jobs \subseteq LockNames /\ QueueLock \in LockNames
    /\ Jobs \subseteq Nat
  BY QueueAssumption DEF ClientPCs, IdlePCs, Processes, LockNames, QueueLock, Jobs

(* The end of a client that has no lock file open.                         *)
LEMMA EndsType ==
    ASSUME TypeInv, NEW c \in Clients, EndsClient(c), UNCHANGED <<tries, target>>,
           \A q \in Processes \ {c} : opened'[q] = opened[q], opened'[c] = None
    PROVE  PCType' /\ WorkType' /\ TriesType'
  <1>1. Goes(c, "free") /\ WorkType'
    BY DEF EndsClient, TypeInv, WorkType
  <1>2. \A q \in Processes \ {c} : job'[q] = job[q] /\ document'[q] = document[q]
    BY DEF EndsClient, TypeInv, WorkType
  <1>3. PCType'
    BY <1>1, <1>2, ClientGoes DEF ClientPCs, Closed, ClientJobPCs
  <1> QED
    BY <1>1, <1>3, ClientKept

(* What a client does before its document has files.                       *)
LEMMA TypeNumbering ==
    ASSUME TypeInv, NEW c \in Clients,
           (\E d \in Documents : Enqueue(c, d)) \/ AskNumber(c) \/ ReadCounter(c)
             \/ OpenCounter(c) \/ WriteCounter(c) \/ UnlockQueue(c) \/ UnlinkQueue(c)
    PROVE  TypeInv'
  <1>1. CASE \E d \in Documents : Enqueue(c, d)
    <2>1. PICK d \in Documents : Enqueue(c, d)
      BY <1>1
    <2>2. opened[c] = None /\ QueueLock \in LockNames /\ LockType /\ c \in Processes
      BY <2>1, Names DEF Enqueue, Closed, TypeInv, PCType
    <2>3. LockType' /\ \E i \in Inodes : opened' = [opened EXCEPT ![c] = i]
      BY <2>1, <2>2, OpenType DEF Enqueue
    <2>4. \A q \in Processes \ {c} :
              opened'[q] = opened[q] /\ job'[q] = job[q] /\ document'[q] = document[q]
      BY <2>1, <2>3 DEF Enqueue, TypeInv, LockType, WorkType
    <2>5. PCType'
      BY <2>1, <2>4, ClientGoes DEF Enqueue, ClientPCs, Closed, ClientJobPCs
    <2>6. WorkType'
      BY <2>1 DEF Enqueue, TypeInv, WorkType
    <2>7. TriesType'
      BY <2>1, ClientKept DEF Enqueue
    <2> QED
      BY <2>1, <2>3, <2>5, <2>6, <2>7, Kept DEF Enqueue, TypeInv
  <1>2. CASE AskNumber(c)
    <2>1. LockType' /\ UNCHANGED <<opened, job, document>>
      BY <1>2, TakeType, Names DEF AskNumber, TakeLock, TypeInv
    <2>2. PCType'
      BY <1>2, <2>1, ClientGoes DEF AskNumber, Moves, ClientPCs, Closed, ClientJobPCs
    <2>3. TriesType'
      BY <1>2, ClientKept DEF AskNumber, Moves
    <2> QED
      BY <1>2, <2>1, <2>2, <2>3, Kept DEF AskNumber, TypeInv
  <1>3. CASE ReadCounter(c)
    <2>1. WorkType'
      BY <1>3 DEF ReadCounter, TypeInv, WorkType
    <2>2. PCType'
      <3>1. CASE nextnr = Truncated
        <4>1. Goes(c, "unlockQueue") /\ document' = [document EXCEPT ![c] = None] /\ UNCHANGED job
          BY <1>3, <3>1 DEF ReadCounter
        <4>2. \A q \in Processes \ {c} :
              opened'[q] = opened[q] /\ job'[q] = job[q] /\ document'[q] = document[q]
          BY <1>3, <4>1 DEF ReadCounter, TypeInv, WorkType
        <4>3. document'[c] = None
          BY <4>1, Names DEF TypeInv, WorkType
        <4> QED
          BY <4>1, <4>2, <4>3, ClientGoes DEF ClientPCs, Closed, ClientJobPCs
      <3>2. CASE nextnr # Truncated
        <4>1. /\ Goes(c, "openCounter") /\ UNCHANGED document
              /\ \E n \in Jobs : job' = [job EXCEPT ![c] = n]
          BY <1>3, <3>2 DEF ReadCounter
        <4>2. \A q \in Processes \ {c} :
              opened'[q] = opened[q] /\ job'[q] = job[q] /\ document'[q] = document[q]
          BY <1>3, <4>1 DEF ReadCounter, TypeInv, WorkType
        <4>3. job'[c] \in Jobs
          BY <4>1, Names DEF TypeInv, WorkType
        <4> QED
          BY <4>1, <4>2, <4>3, ClientGoes DEF ClientPCs, Closed, ClientJobPCs
      <3> QED
        BY <3>1, <3>2
    <2>3. TriesType'
      BY <1>3, ClientKept DEF ReadCounter
    <2> QED
      BY <1>3, <2>1, <2>2, <2>3, Kept DEF ReadCounter, TypeInv
  <1>4. CASE OpenCounter(c)
    <2>1. pc[c] = "openCounter" /\ Goes(c, "count") /\ job[c] \in Jobs
      BY <1>4 DEF OpenCounter, Moves, TypeInv, PCType, ClientJobPCs
    <2>2. PCType'
      BY <1>4, <2>1, ClientGoes DEF OpenCounter, ClientPCs, Closed, ClientJobPCs
    <2>3. CounterType' /\ CountType'
      BY <1>4, <2>1 DEF OpenCounter, TypeInv, CounterType, CountType
    <2>4. TriesType'
      BY <1>4, <2>1, ClientKept DEF OpenCounter
    <2> QED
      BY <1>4, <2>2, <2>3, <2>4, Kept DEF OpenCounter, TypeInv
  <1>5. CASE WriteCounter(c)
    <2>1. pc[c] = "count" /\ Goes(c, "unlockQueue") /\ job[c] \in Jobs
      BY <1>5 DEF WriteCounter, Moves, TypeInv, PCType, ClientJobPCs
    <2>2. PCType'
      BY <1>5, <2>1, ClientGoes DEF WriteCounter, ClientPCs, Closed, ClientJobPCs
    <2>3. CounterType'
      BY <1>5, <2>1, Names DEF WriteCounter, CounterType
    <2>4. TriesType'
      BY <1>5, <2>1, ClientKept DEF WriteCounter
    <2> QED
      BY <1>5, <2>2, <2>3, <2>4, Kept DEF WriteCounter, TypeInv
  <1>6. CASE UnlockQueue(c)
    <2>1. LockType' /\ opened' = [opened EXCEPT ![c] = None]
      BY <1>6, CloseType, Names DEF UnlockQueue, TypeInv
    <2>2. \A q \in Processes \ {c} : opened'[q] = opened[q]
      BY <2>1 DEF TypeInv, LockType
    <2>3. opened'[c] = None
      BY <2>1, Names DEF TypeInv, LockType
    <2>4. document[c] # None => job[c] \in Jobs
      BY <1>6 DEF UnlockQueue, Moves, TypeInv, PCType
    <2>5. PCType'
      BY <1>6, <2>2, <2>3, <2>4, ClientGoes
        DEF UnlockQueue, Moves, ClientPCs, Closed, ClientJobPCs
    <2>6. TriesType'
      BY <1>6, ClientKept DEF UnlockQueue, Moves
    <2> QED
      BY <1>6, <2>1, <2>5, <2>6, Kept DEF UnlockQueue, TypeInv
  <1>7. CASE UnlinkQueue(c)
    <2>1. LockType' /\ UNCHANGED opened /\ opened[c] = None
      BY <1>7, UnlinkType, Names DEF UnlinkQueue, UnlinkLock, TypeInv, PCType, Closed
    <2>2. CASE document[c] = None
      <3>1. EndsClient(c)
        BY <1>7, <2>2 DEF UnlinkQueue
      <3> QED
        BY <1>7, <2>1, <3>1, EndsType, Kept DEF UnlinkQueue, TypeInv
    <2>3. CASE document[c] # None
      <3>1. Goes(c, "convert") /\ UNCHANGED <<job, document>> /\ job[c] \in Jobs
        BY <1>7, <2>3 DEF UnlinkQueue, TypeInv, PCType
      <3>2. PCType'
        BY <3>1, <2>1, ClientGoes DEF ClientPCs, Closed, ClientJobPCs
      <3>3. TriesType'
        BY <1>7, <3>1, ClientKept DEF UnlinkQueue
      <3> QED
        BY <1>7, <2>1, <3>1, <3>2, <3>3, Kept DEF UnlinkQueue, TypeInv
    <2> QED
      BY <2>2, <2>3
  <1> QED
    BY <1>1, <1>2, <1>3, <1>4, <1>5, <1>6, <1>7

(* What a client does to the files of its new job.                         *)
LEMMA TypeCreating ==
    ASSUME TypeInv, NEW c \in Clients,
           Convert(c) \/ Describe(c) \/ Fill(c) \/ Protect(c)
    PROVE  TypeInv'
  <1> USE DEF Directories, Descriptions
  <1>1. CASE Convert(c)
    <2>1. pc[c] = "convert" /\ opened[c] = None /\ job[c] \in Jobs /\ UNCHANGED opened
      BY <1>1, Names DEF Convert, TypeInv, PCType, Closed, ClientJobPCs
    <2>2. FaxType'
      BY <1>1, <2>1, Names DEF Convert, TypeInv, FaxType, WorkType
    <2>3. PCType' /\ WorkType' /\ TriesType'
      <3>1. CASE EndsClient(c)
        BY <1>1, <2>1, <3>1, EndsType DEF Convert
      <3>2. CASE Goes(c, "describe") /\ UNCHANGED <<job, document>>
        <4>1. PCType'
          BY <2>1, <3>2, ClientGoes DEF ClientPCs, Closed, ClientJobPCs
        <4> QED
          BY <1>1, <3>2, <4>1, ClientKept, Kept DEF Convert
      <3> QED
        BY <1>1, <3>1, <3>2 DEF Convert
    <2> QED
      BY <1>1, <2>2, <2>3, Kept DEF Convert, TypeInv
  <1>2. CASE Describe(c)
    <2>1. /\ pc[c] = "describe" /\ opened[c] = None /\ job[c] \in Jobs
          /\ Goes(c, "fill") /\ UNCHANGED <<opened, job, document>>
      BY <1>2, Names DEF Describe, Moves, TypeInv, PCType, Closed, ClientJobPCs
    <2>2. ControlType' /\ SetType'
      BY <1>2, <2>1, QueueAssumption DEF Describe, TypeInv, ControlType, SetType
    <2>3. PCType'
      BY <2>1, ClientGoes DEF ClientPCs, Closed, ClientJobPCs
    <2>4. TriesType'
      BY <1>2, <2>1, ClientKept DEF Describe
    <2> QED
      BY <1>2, <2>2, <2>3, <2>4, Kept DEF Describe, TypeInv
  <1>3. CASE Fill(c)
    <2>1. /\ pc[c] = "fill" /\ opened[c] = None /\ job[c] \in Jobs
          /\ Goes(c, "protect") /\ UNCHANGED <<opened, job, document>>
      BY <1>3, Names DEF Fill, Moves, TypeInv, PCType, Closed, ClientJobPCs
    <2>2. ControlType' /\ SetType'
      BY <1>3, <2>1, QueueAssumption DEF Fill, TypeInv, ControlType, SetType
    <2>3. PCType'
      BY <2>1, ClientGoes DEF ClientPCs, Closed, ClientJobPCs
    <2>4. TriesType'
      BY <1>3, <2>1, ClientKept DEF Fill
    <2> QED
      BY <1>3, <2>2, <2>3, <2>4, Kept DEF Fill, TypeInv
  <1>4. CASE Protect(c)
    <2>1. /\ opened[c] = None /\ job[c] \in Jobs /\ EndsClient(c) /\ UNCHANGED opened
      BY <1>4, Names DEF Protect, TypeInv, PCType, Closed, ClientJobPCs
    <2>2. SetType'
      BY <1>4, <2>1 DEF Protect, TypeInv, SetType
    <2>3. PCType' /\ WorkType' /\ TriesType'
      BY <1>4, <2>1, EndsType DEF Protect
    <2> QED
      BY <1>4, <2>2, <2>3, Kept DEF Protect, TypeInv
  <1> QED
    BY <1>1, <1>2, <1>3, <1>4

(* What a client does to abort a job.                                      *)
LEMMA TypeAborting ==
    ASSUME TypeInv, NEW c \in Clients,
           (\E n \in Jobs : Abort(c, n)) \/ TryAbort(c) \/ UnlinkFax(c) \/ UnlinkControl(c)
             \/ Unlock(c) \/ Unlink(c)
    PROVE  TypeInv'
  <1>1. CASE \E n \in Jobs : Abort(c, n)
    <2>1. PICK n \in Jobs : Abort(c, n)
      BY <1>1
    <2>2. opened[c] = None /\ n \in LockNames /\ LockType /\ c \in Processes
      BY <2>1, Names DEF Abort, Closed, TypeInv, PCType
    <2>3. LockType' /\ \E i \in Inodes : opened' = [opened EXCEPT ![c] = i]
      BY <2>1, <2>2, OpenType DEF Abort
    <2>4. \A q \in Processes \ {c} :
              opened'[q] = opened[q] /\ job'[q] = job[q] /\ document'[q] = document[q]
      BY <2>1, <2>3 DEF Abort, TypeInv, LockType, WorkType
    <2>5. WorkType' /\ job'[c] = n
      BY <2>1, <2>2 DEF Abort, TypeInv, WorkType
    <2>6. PCType'
      BY <2>1, <2>4, <2>5, ClientGoes DEF Abort, ClientPCs, Closed, ClientJobPCs
    <2>7. TriesType'
      BY <2>1, ClientKept DEF Abort
    <2> QED
      BY <2>1, <2>3, <2>5, <2>6, <2>7, Kept DEF Abort, TypeInv
  <1>2. CASE TryAbort(c)
    <2>1. CASE MayLock(c)
      <3>1. TakeLock(c) /\ Goes(c, "unlinkFax") /\ UNCHANGED <<opened, job, document>>
        BY <1>2, <2>1 DEF TryAbort, TakeLock
      <3>2. LockType'
        BY <3>1, TakeType, Names DEF TypeInv
      <3>3. job[c] \in Jobs
        BY <1>2 DEF TryAbort, TypeInv, PCType, ClientJobPCs
      <3>4. PCType'
        BY <3>1, <3>3, ClientGoes DEF ClientPCs, Closed, ClientJobPCs
      <3>5. TriesType'
        BY <1>2, <3>1, ClientKept DEF TryAbort
      <3> QED
        BY <1>2, <3>1, <3>2, <3>4, <3>5, Kept DEF TryAbort, TypeInv
    <2>2. CASE ~MayLock(c)
      <3>1. CloseLock(c) /\ EndsClient(c)
        BY <1>2, <2>2 DEF TryAbort
      <3>2. LockType' /\ opened' = [opened EXCEPT ![c] = None]
        BY <3>1, CloseType, Names DEF TypeInv
      <3>3. opened'[c] = None /\ \A q \in Processes \ {c} : opened'[q] = opened[q]
        BY <3>2, Names DEF TypeInv, LockType
      <3>4. PCType' /\ WorkType' /\ TriesType'
        BY <1>2, <3>1, <3>3, EndsType DEF TryAbort
      <3> QED
        BY <1>2, <3>2, <3>4, Kept DEF TryAbort, TypeInv
    <2> QED
      BY <2>1, <2>2
  <1>3. CASE UnlinkFax(c)
    <2>1. /\ job[c] \in Jobs /\ UNCHANGED <<opened, job, document>>
          /\ Goes(c, "unlock") \/ Goes(c, "unlinkControl")
      BY <1>3 DEF UnlinkFax, TypeInv, PCType, ClientJobPCs
    <2>2. FaxType'
      BY <1>3, <2>1 DEF UnlinkFax, TypeInv, FaxType, Directories
    <2>3. PCType'
      BY <2>1, ClientGoes DEF ClientPCs, Closed, ClientJobPCs
    <2>4. TriesType'
      BY <1>3, <2>1, ClientKept DEF UnlinkFax
    <2> QED
      BY <1>3, <2>2, <2>3, <2>4, Kept DEF UnlinkFax, TypeInv
  <1>4. CASE UnlinkControl(c)
    <2>1. /\ job[c] \in Jobs /\ Goes(c, "unlock") /\ UNCHANGED <<opened, job, document>>
      BY <1>4 DEF UnlinkControl, Moves, TypeInv, PCType, ClientJobPCs
    <2>2. ControlType' /\ SetType'
      BY <1>4, <2>1, QueueAssumption
        DEF UnlinkControl, TypeInv, ControlType, SetType, Directories, Descriptions
    <2>3. PCType'
      BY <2>1, ClientGoes DEF ClientPCs, Closed, ClientJobPCs
    <2>4. TriesType'
      BY <1>4, <2>1, ClientKept DEF UnlinkControl
    <2> QED
      BY <1>4, <2>2, <2>3, <2>4, Kept DEF UnlinkControl, TypeInv
  <1>5. CASE Unlock(c)
    <2>1. LockType' /\ opened' = [opened EXCEPT ![c] = None]
      BY <1>5, CloseType, Names DEF Unlock, TypeInv
    <2>2. opened'[c] = None /\ \A q \in Processes \ {c} : opened'[q] = opened[q]
      BY <2>1, Names DEF TypeInv, LockType
    <2>3. job[c] \in Jobs /\ Goes(c, "unlink") /\ UNCHANGED <<job, document>>
      BY <1>5 DEF Unlock, Moves, TypeInv, PCType, ClientJobPCs
    <2>4. PCType'
      BY <2>2, <2>3, ClientGoes DEF ClientPCs, Closed, ClientJobPCs
    <2>5. TriesType'
      BY <1>5, <2>3, ClientKept DEF Unlock
    <2> QED
      BY <1>5, <2>1, <2>4, <2>5, Kept DEF Unlock, TypeInv
  <1>6. CASE Unlink(c)
    <2>1. LockType' /\ UNCHANGED opened /\ opened[c] = None
      BY <1>6, UnlinkType, Names DEF Unlink, UnlinkLock, TypeInv, PCType, Closed
    <2>2. PCType' /\ WorkType' /\ TriesType'
      BY <1>6, <2>1, EndsType DEF Unlink
    <2> QED
      BY <1>6, <2>1, <2>2, Kept DEF Unlink, TypeInv
  <1> QED
    BY <1>1, <1>2, <1>3, <1>4, <1>5, <1>6

-----------------------------------------------------------------------------
(* The idle script.                                                        *)

(* A step of the idle script to a place that asks nothing of tries.        *)
FreePCs == IdlePCs \ {"dial", "sending", "delay", "delayed", "moveControl", "moveFax",
                      "rewrite", "refill"}

LEMMA IdleKept ==
    ASSUME TypeInv, NEW to \in FreePCs, Goes(Idle, to),
           tries' \in 0 .. MaxTries, target' \in Directories
    PROVE  TriesType'
  BY Names DEF Goes, TypeInv, TriesType, PCType, FreePCs

LEMMA TypeRounds ==
    ASSUME TypeInv,
           StartRound \/ Disable \/ EndRound \/ (\E n \in Jobs : NextJob(n)) \/ TryLock
    PROVE  TypeInv'
  <1> USE DEF IdlePCs, FreePCs, IdleJobPCs, Closed
  <1>0. tries \in 0 .. MaxTries /\ target \in Directories /\ LockType /\ Idle \in Processes
    BY Names DEF TypeInv, TriesType
  <1>1. CASE StartRound
    <2>1. /\ opened[Idle] = None /\ UNCHANGED <<opened, job, document, tries, target>>
          /\ \E to \in {"disable", "sleep", "next"} : Goes(Idle, to)
      BY <1>1, <1>0 DEF StartRound, TypeInv, PCType
    <2>2. PCType' /\ TriesType'
      BY <1>0, <2>1, IdleGoes, IdleKept
    <2>3. SetType'
      BY <1>1 DEF StartRound, TypeInv, SetType, Queued
    <2>4. ScriptType'
      BY <1>1, QueueAssumption DEF StartRound, TypeInv, ScriptType
    <2> QED
      BY <1>1, <2>2, <2>3, <2>4, Kept DEF StartRound, TypeInv
  <1>2. CASE Disable
    <2>1. /\ opened[Idle] = None /\ UNCHANGED <<opened, job, document, tries, target>>
          /\ Goes(Idle, "sleep")
      BY <1>2, <1>0 DEF Disable, Moves, TypeInv, PCType
    <2>2. PCType' /\ TriesType'
      BY <1>0, <2>1, IdleGoes, IdleKept
    <2>3. ScriptType'
      BY <1>2 DEF Disable, TypeInv, ScriptType
    <2> QED
      BY <1>2, <2>2, <2>3, Kept DEF Disable, TypeInv
  <1>3. CASE EndRound
    <2>1. /\ opened[Idle] = None /\ UNCHANGED <<opened, job, document, tries, target>>
          /\ Goes(Idle, "sleep")
      BY <1>3, <1>0 DEF EndRound, Moves, TypeInv, PCType
    <2>2. PCType' /\ TriesType'
      BY <1>0, <2>1, IdleGoes, IdleKept
    <2>3. ScriptType'
      BY <1>3, QueueAssumption DEF EndRound, TypeInv, ScriptType
    <2> QED
      BY <1>3, <2>2, <2>3, Kept DEF EndRound, TypeInv
  <1>4. CASE \E n \in Jobs : NextJob(n)
    <2>1. PICK n \in Jobs : NextJob(n)
      BY <1>4
    <2>2. opened[Idle] = None /\ n \in LockNames /\ Goes(Idle, "tryLock")
      BY <2>1, <1>0, Names DEF NextJob, Moves, TypeInv, PCType
    <2>3. LockType' /\ \E i \in Inodes : opened' = [opened EXCEPT ![Idle] = i]
      BY <1>0, <2>1, <2>2, OpenType DEF NextJob
    <2>4. \A q \in Clients :
              opened'[q] = opened[q] /\ job'[q] = job[q] /\ document'[q] = document[q]
      BY <2>1, <2>3, Names DEF NextJob, TypeInv, LockType, WorkType
    <2>5. WorkType' /\ job'[Idle] = n
      BY <1>0, <2>1, <2>2 DEF NextJob, TypeInv, WorkType
    <2>6. PCType' /\ TriesType'
      BY <1>0, <2>1, <2>2, <2>4, <2>5, IdleGoes, IdleKept DEF NextJob
    <2>7. SetType'
      BY <2>1 DEF NextJob, TypeInv, SetType
    <2> QED
      BY <2>1, <2>3, <2>5, <2>6, <2>7, Kept DEF NextJob, TypeInv
  <1>5. CASE TryLock
    <2>1. CASE MayLock(Idle)
      <3>1. TakeLock(Idle) /\ Goes(Idle, "check") /\ UNCHANGED <<opened, job, document>>
        BY <1>5, <2>1 DEF TryLock, TakeLock
      <3>2. LockType' /\ job[Idle] \in Jobs
        BY <1>0, <1>5, <3>1, TakeType DEF TryLock, TypeInv, PCType
      <3>3. PCType' /\ TriesType'
        BY <1>0, <1>5, <3>1, <3>2, IdleGoes, IdleKept DEF TryLock
      <3> QED
        BY <1>5, <3>1, <3>2, <3>3, Kept DEF TryLock, TypeInv
    <2>2. CASE ~MayLock(Idle)
      <3>1. CloseLock(Idle) /\ Goes(Idle, "next") /\ job' = [job EXCEPT ![Idle] = 0]
        BY <1>5, <2>2 DEF TryLock
      <3>2. LockType' /\ opened' = [opened EXCEPT ![Idle] = None]
        BY <1>0, <3>1, CloseType
      <3>3. opened'[Idle] = None /\ \A q \in Clients : opened'[q] = opened[q]
        BY <1>0, <3>2, Names DEF LockType
      <3>4. WorkType' /\ \A q \in Clients : job'[q] = job[q]
        BY <1>5, <3>1, Names DEF TryLock, TypeInv, WorkType
      <3>5. PCType' /\ TriesType'
        BY <1>0, <1>5, <3>1, <3>3, <3>4, IdleGoes, IdleKept DEF TryLock
      <3> QED
        BY <1>5, <3>2, <3>4, <3>5, Kept DEF TryLock, TypeInv
    <2> QED
      BY <2>1, <2>2
  <1> QED
    BY <1>1, <1>2, <1>3, <1>4, <1>5

LEMMA Counted ==
    ASSUME NEW f \in [Documents -> Nat], NEW d
    PROVE  [f EXCEPT ![d] = @ + 1] \in [Documents -> Nat]
  <1>1. CASE d \in Documents
    BY <1>1
  <1>2. CASE d \notin Documents
    BY <1>2
  <1> QED
    BY <1>1, <1>2

(* What the idle script does with the job it has locked.                   *)
LEMMA TypeSending ==
    ASSUME TypeInv, Check \/ Dial \/ Send
    PROVE  TypeInv'
  <1> USE DEF IdlePCs, FreePCs, IdleJobPCs, Closed
  <1>0. /\ tries \in 0 .. MaxTries /\ target \in Directories /\ round \subseteq Jobs
        /\ theirs \subseteq Jobs /\ later \subseteq Jobs
    BY DEF TypeInv, TriesType, SetType
  <1>1. CASE Check
    <2>1. /\ job[Idle] \in Jobs /\ UNCHANGED <<opened, job>>
          /\ \E to \in {"unlock", "dial"} : Goes(Idle, to)
          /\ \A q \in Clients : document'[q] = document[q]
      BY <1>1, Names DEF Check, Raise, TypeInv, PCType, WorkType
    <2>2. PCType'
      BY <2>1, IdleGoes
    <2>3. WorkType' /\ SetType'
      BY <1>1, <1>0, <2>1 DEF Check, Raise, TypeInv, WorkType, SetType, FaxType, Directories
    <2>4. TriesType'
      <3>1. CASE Goes(Idle, "unlock") /\ UNCHANGED <<tries, target>>
        BY <1>0, <3>1, IdleKept
      <3>2. CASE /\ Goes(Idle, "dial") /\ UNCHANGED target
                 /\ tries' = control["sendq"][job[Idle]]
                 /\ control["sendq"][job[Idle]] \notin {None, Truncated}
        <4>1. tries' \in 0 .. MaxTries /\ tries' # MaxTries
          BY <2>1, <3>2 DEF TypeInv, ControlType, Directories, Descriptions
        <4> QED
          BY <1>0, <3>2, <4>1, Names, QueueAssumption DEF Goes, TriesType, TypeInv, PCType
      <3> QED
        BY <1>1, <3>1, <3>2 DEF Check, Raise
    <2> QED
      BY <1>1, <2>2, <2>3, <2>4, Kept DEF Check, TypeInv
  <1>2. ASSUME NEW send_ok \in BOOLEAN, Evaluate(send_ok), job[Idle] \in Jobs, tries < MaxTries,
               UNCHANGED <<opened, job, document>>
        PROVE  PCType' /\ TriesType'
    <2>1. PCType'
      BY <1>2, IdleGoes DEF Evaluate
    <2> QED
      BY <1>0, <1>2, <2>1, Names, QueueAssumption
        DEF Evaluate, Goes, TypeInv, PCType, TriesType, Directories
  <1>3. CASE Dial \/ Send
    <2>1. job[Idle] \in Jobs /\ tries < MaxTries /\ UNCHANGED <<opened, job, document>>
      BY <1>3 DEF Dial, Send, TypeInv, PCType, TriesType
    <2>2. CountType'
      <3>1. /\ attempts' \in [Documents -> Nat] /\ number' \in [Documents -> {0} \cup Jobs]
            /\ crashed' \in Nat
        BY <1>3, Counted DEF Dial, Send, TypeInv, CountType
      <3>2. succeeded' \in [Documents -> Nat] /\ uncounted' \in [Documents -> Nat]
        BY <1>3, Counted DEF Dial, Send, Result, RaiseUncounted, TypeInv, CountType
      <3> QED
        BY <3>1, <3>2 DEF CountType
    <2>3. SetType'
      BY <1>3, <1>0 DEF Dial, Send, Result, RaiseUncounted, Raise, SetType
    <2>4. PCType' /\ TriesType'
      <3>1. CASE \E send_ok \in BOOLEAN : Evaluate(send_ok)
        BY <1>2, <2>1, <3>1
      <3>2. CASE Raise /\ UNCHANGED <<tries, target>>
        BY <1>0, <2>1, <3>2, IdleGoes, IdleKept DEF Raise
      <3>3. CASE Goes(Idle, "sending") /\ UNCHANGED <<tries, target>>
        <4>1. PCType'
          BY <2>1, <3>3, IdleGoes
        <4> QED
          BY <1>0, <2>1, <3>3, <4>1, Names DEF Goes, TypeInv, PCType, TriesType
      <3> QED
        BY <1>3, <3>1, <3>2, <3>3 DEF Dial, Send, Result, RaiseUncounted
    <2> QED
      BY <1>3, <2>2, <2>3, <2>4, Kept DEF Dial, Send, TypeInv
  <1> QED
    BY <1>1, <1>3

LEMMA TypeMoving ==
    ASSUME TypeInv,
           MoveControl \/ MoveFax \/ Rewrite \/ Refill \/ Mail \/ Delay \/ Delayed
             \/ Unlock(Idle) \/ UnlinkIdle
    PROVE  TypeInv'
  <1> USE DEF IdlePCs, FreePCs, IdleJobPCs, Closed
  <1>0. /\ tries \in 0 .. MaxTries /\ target \in Directories /\ round \subseteq Jobs
        /\ theirs \subseteq Jobs /\ later \subseteq Jobs /\ LockType /\ Idle \in Processes
        /\ pc \in [Processes -> ClientPCs \cup IdlePCs]
    BY Names DEF TypeInv, TriesType, SetType, PCType
  <1>1. CASE MoveControl
    <2>1. /\ job[Idle] \in Jobs /\ UNCHANGED <<opened, job, document, target>>
          /\ \E to \in {"unlock", "moveFax"} : Goes(Idle, to)
          /\ target \in {"done", "failed"}
      BY <1>1 DEF MoveControl, Raise, TypeInv, PCType, TriesType
    <2>2. PCType'
      BY <2>1, IdleGoes
    <2>3. ControlType'
      BY <1>1, <2>1, QueueAssumption
        DEF MoveControl, TypeInv, ControlType, Directories, Descriptions
    <2>4. SetType'
      BY <1>1, <1>0 DEF MoveControl, Raise, SetType
    <2>5. tries' \in 0 .. MaxTries
      BY <1>1, <1>0, <2>1 DEF MoveControl, TypeInv, ControlType, Directories, Descriptions
    <2>6. TriesType'
      BY <1>0, <2>1, <2>5 DEF Goes, TriesType
    <2> QED
      BY <1>1, <2>2, <2>3, <2>4, <2>6, Kept DEF MoveControl, TypeInv
  <1>2. CASE MoveFax
    <2>1. /\ job[Idle] \in Jobs /\ UNCHANGED <<opened, job, document, tries, target>>
          /\ \E to \in {"unlock", "rewrite"} : Goes(Idle, to)
          /\ target \in {"done", "failed"}
      BY <1>2 DEF MoveFax, Raise, TypeInv, PCType, TriesType
    <2>2. PCType' /\ TriesType'
      BY <1>0, <2>1, IdleGoes DEF Goes, TriesType
    <2>3. FaxType'
      BY <1>2, <2>1 DEF MoveFax, TypeInv, FaxType, Directories
    <2>4. SetType'
      BY <1>2, <1>0 DEF MoveFax, Raise, SetType
    <2> QED
      BY <1>2, <2>2, <2>3, <2>4, Kept DEF MoveFax, TypeInv
  <1>3. CASE Rewrite
    <2>1. /\ job[Idle] \in Jobs /\ UNCHANGED <<opened, job, document, tries, target>>
          /\ Goes(Idle, "refill") /\ target \in {"done", "failed"}
      BY <1>3 DEF Rewrite, Moves, TypeInv, PCType, TriesType
    <2>2. PCType' /\ TriesType'
      BY <1>0, <2>1, IdleGoes DEF Goes, TriesType
    <2>3. ControlType'
      BY <1>3, <2>1 DEF Rewrite, TypeInv, ControlType, Directories, Descriptions
    <2> QED
      BY <1>3, <2>2, <2>3, Kept DEF Rewrite, TypeInv
  <1>4. CASE Refill
    <2>1. /\ job[Idle] \in Jobs /\ UNCHANGED <<opened, job, document, tries, target>>
          /\ Goes(Idle, "mail") /\ target \in {"done", "failed"}
      BY <1>4 DEF Refill, Moves, TypeInv, PCType, TriesType
    <2>2. PCType' /\ TriesType'
      BY <1>0, <2>1, IdleGoes DEF Goes, TriesType
    <2>3. ControlType'
      BY <1>0, <1>4, <2>1 DEF Refill, TypeInv, ControlType, Directories, Descriptions
    <2> QED
      BY <1>4, <2>2, <2>3, Kept DEF Refill, TypeInv
  <1>5. CASE Mail
    <2>1. /\ job[Idle] \in Jobs /\ UNCHANGED <<opened, job, document, tries, target>>
          /\ Goes(Idle, "unlock")
      BY <1>5 DEF Mail, Raise, TypeInv, PCType
    <2>2. PCType' /\ TriesType'
      BY <1>0, <2>1, IdleGoes DEF Goes, TriesType
    <2>3. SetType'
      BY <1>5, <1>0 DEF Mail, Raise, SetType
    <2> QED
      BY <1>5, <2>2, <2>3, Kept DEF Mail, TypeInv
  <1>6. CASE Delay
    <2>1. /\ job[Idle] \in Jobs /\ UNCHANGED <<opened, job, document, tries, target>>
          /\ Goes(Idle, "delayed") /\ tries < MaxTries
      BY <1>6 DEF Delay, Moves, TypeInv, PCType, TriesType
    <2>2. PCType' /\ TriesType'
      BY <1>0, <2>1, IdleGoes DEF Goes, TriesType
    <2>3. ControlType'
      BY <1>6, <2>1, QueueAssumption DEF Delay, TypeInv, ControlType, Directories, Descriptions
    <2> QED
      BY <1>6, <2>2, <2>3, Kept DEF Delay, TypeInv
  <1>7. CASE Delayed
    <2>1. /\ job[Idle] \in Jobs /\ UNCHANGED <<opened, job, document, tries, target>>
          /\ Goes(Idle, "unlock") /\ tries < MaxTries
      BY <1>7 DEF Delayed, Moves, TypeInv, PCType, TriesType
    <2>2. PCType' /\ TriesType'
      BY <1>0, <2>1, IdleGoes DEF Goes, TriesType
    <2>3. ControlType' /\ SetType'
      BY <1>0, <1>7, <2>1, QueueAssumption
        DEF Delayed, TypeInv, ControlType, SetType, Directories, Descriptions
    <2> QED
      BY <1>7, <2>2, <2>3, Kept DEF Delayed, TypeInv
  <1>8. CASE Unlock(Idle)
    <2>1. LockType' /\ opened' = [opened EXCEPT ![Idle] = None]
      BY <1>0, <1>8, CloseType DEF Unlock
    <2>2. opened'[Idle] = None /\ \A q \in Clients : opened'[q] = opened[q]
      BY <1>0, <2>1, Names DEF LockType
    <2>3. /\ job[Idle] \in Jobs /\ Goes(Idle, "unlink")
          /\ UNCHANGED <<job, document, tries, target>>
      BY <1>8 DEF Unlock, Moves, TypeInv, PCType
    <2>4. PCType' /\ TriesType'
      BY <1>0, <2>2, <2>3, IdleGoes, IdleKept
    <2> QED
      BY <1>8, <2>1, <2>4, Kept DEF Unlock, TypeInv
  <1>9. CASE UnlinkIdle
    <2>1. LockType' /\ UNCHANGED opened /\ opened[Idle] = None /\ Goes(Idle, "next")
      BY <1>0, <1>9, UnlinkType DEF UnlinkIdle, UnlinkLock, Moves, TypeInv, PCType
    <2>2. WorkType' /\ \A q \in Clients : job'[q] = job[q] /\ document'[q] = document[q]
      BY <1>9, Names DEF UnlinkIdle, TypeInv, WorkType
    <2>3. tries' \in 0 .. MaxTries /\ target' \in Directories
      BY <1>9, QueueAssumption DEF UnlinkIdle, Directories
    <2>4. PCType' /\ TriesType'
      BY <1>0, <1>9, <2>1, <2>2, <2>3, IdleGoes, IdleKept
    <2> QED
      BY <1>9, <2>1, <2>2, <2>4, Kept DEF UnlinkIdle, TypeInv
  <1> QED
    BY <1>1, <1>2, <1>3, <1>4, <1>5, <1>6, <1>7, <1>8, <1>9

-----------------------------------------------------------------------------

LEMMA TypeCrash ==
    ASSUME TypeInv, NEW p \in Processes, Crash(p)
    PROVE  TypeInv'
  <1>1. LockType' /\ opened' = [opened EXCEPT ![p] = None]
    BY CloseType DEF Crash, TypeInv
  <1>2. opened'[p] = None /\ \A q \in Processes \ {p} : opened'[q] = opened[q]
    BY <1>1 DEF TypeInv, LockType
  <1>3. CountType'
    BY DEF Crash, TypeInv, CountType
  <1>4. CASE p = Idle
    <2>1. /\ Goes(Idle, "sleep") /\ tries' = 0 /\ target' = "sendq" /\ round' = {}
          /\ active' = TRUE /\ errorcount' = 0
          /\ job' = [job EXCEPT ![Idle] = 0] /\ document' = [document EXCEPT ![Idle] = None]
      BY <1>4 DEF Crash
    <2>2. /\ WorkType'
          /\ \A q \in Clients :
                opened'[q] = opened[q] /\ job'[q] = job[q] /\ document'[q] = document[q]
      BY <1>2, <1>4, <2>1, Names DEF TypeInv, WorkType
    <2>3. PCType'
      BY <1>2, <1>4, <2>1, <2>2, IdleGoes DEF IdlePCs, IdleJobPCs
    <2>4. TriesType'
      BY <2>1, IdleKept, QueueAssumption DEF IdlePCs, FreePCs, Directories
    <2>5. SetType' /\ ScriptType'
      BY <2>1, QueueAssumption DEF Crash, TypeInv, SetType, ScriptType
    <2> QED
      BY <1>1, <1>3, <2>2, <2>3, <2>4, <2>5, Kept DEF Crash, TypeInv
  <1>5. CASE p # Idle
    <2>1. p \in Clients /\ EndsClient(p) /\ UNCHANGED <<idleVars, active, errorcount>>
      BY <1>5 DEF Crash, Processes
    <2>2. PCType' /\ WorkType' /\ TriesType'
      BY <1>2, <2>1, EndsType
    <2> QED
      BY <1>1, <1>3, <2>1, <2>2, Kept DEF Crash, TypeInv
  <1> QED
    BY <1>4, <1>5

LEMMA TypeOutside ==
    ASSUME TypeInv, (\E n \in Jobs : StartTime(n)) \/ Break \/ Repair \/ Hangup
    PROVE  TypeInv'
  <1>1. CASE \E n \in Jobs : StartTime(n)
    <2>1. SetType'
      BY <1>1 DEF StartTime, TypeInv, SetType
    <2> QED
      BY <1>1, <2>1, Kept DEF StartTime, TypeInv
  <1>2. CASE Break \/ Repair \/ Hangup
    <2>1. ScriptType'
      BY <1>2 DEF Break, Repair, Hangup, TypeInv, ScriptType
    <2> QED
      BY <1>2, <2>1, Kept DEF Break, Repair, Hangup, TypeInv
  <1> QED
    BY <1>1, <1>2

LEMMA TypeInit == QueueInit => TypeInv
  <1> SUFFICES ASSUME QueueInit PROVE TypeInv
    OBVIOUS
  <1> USE QueueAssumption DEF QueueInit
  <1>1. LockType /\ CounterType /\ SetType /\ WorkType /\ CountType
    BY DEF LockType, CounterType, SetType, WorkType, CountType
  <1>2. FaxType /\ ControlType
    BY DEF FaxType, ControlType, Directories, Descriptions
  <1>3. PCType
    <2>1. \A p \in Processes : pc[p] = IF p = Idle THEN "sleep" ELSE "free"
      OBVIOUS
    <2> QED
      BY <2>1, Names
        DEF PCType, ClientPCs, IdlePCs, Closed, ClientJobPCs, IdleJobPCs, Processes
  <1>4. TriesType /\ ScriptType
    <2>1. pc[Idle] = "sleep" /\ tries \in 0 .. MaxTries /\ errorcount \in 0 .. ErrorLimit
      BY Names
    <2> QED
      BY <2>1 DEF TriesType, ScriptType, Directories
  <1> QED
    BY <1>1, <1>2, <1>3, <1>4 DEF TypeInv

LEMMA TypeNext == TypeInv /\ [QueueNext]_vars => TypeInv'
  <1> SUFFICES ASSUME TypeInv, [QueueNext]_vars PROVE TypeInv'
    OBVIOUS
  <1>1. ASSUME NEW c \in config.clients, ClientNext(c) PROVE TypeInv'
    <2>1. c \in Clients
      BY QueueAssumption DEF TypeInv, ScriptType
    <2> QED
      BY <1>1, <2>1, TypeNumbering, TypeCreating, TypeAborting DEF ClientNext
  <1>2. CASE IdleNext
    BY <1>2, TypeRounds, TypeSending, TypeMoving DEF IdleNext
  <1>3. CASE (\E n \in Jobs : StartTime(n)) \/ Break \/ Repair \/ Hangup
    BY <1>3, TypeOutside
  <1>4. ASSUME NEW p \in Processes, Crash(p) PROVE TypeInv'
    BY <1>4, TypeCrash
  <1>5. CASE UNCHANGED vars
    BY <1>5, Kept DEF vars, TypeInv
  <1> QED
    BY <1>1, <1>2, <1>3, <1>4, <1>5 DEF QueueNext

LEMMA TypeAlways == Spec => []TypeInv
  BY TypeInit, TypeNext, PTL DEF Spec

(* The variables of the queue keep their types, crashes or not, with and   *)
(* without overlap: no job gets a number of tries over send_tries, and who *)
(* works on a job has one.                                                 *)
THEOREM QueueTypeCorrect == Spec => []QueueTypeOK
  BY TypeAlways, TypeImplies, PTL

-----------------------------------------------------------------------------
(* The locks, as long as nobody opens a lock file another is about to      *)
(* unlink.                                                                 *)

Trying  == {"tryAbort", "tryLock"}
Holding == {"unlinkFax", "unlinkControl", "unlock", "check", "dial", "sending",
            "moveControl", "moveFax", "rewrite", "refill", "mail", "delay", "delayed"}
Numbering == {"askNumber", "number", "openCounter", "count", "unlockQueue"}

(* A file is locked by a process that has it open, and has one name.       *)
HolderHasOpen == \A i \in Inodes : holder[i] # None => opened[holder[i]] = i
OneName ==
    \A l, m \in LockNames : linked[l] # None /\ linked[l] = linked[m] => l = m

(* What a process opened is still what the name of its lock stands for.    *)
OpenIsLinked ==
    /\ \A p \in Processes :
          pc[p] \in Trying \cup Holding => opened[p] # None /\ opened[p] = linked[job[p]]
    /\ \A c \in Clients :
          pc[c] \in Numbering => opened[c] # None /\ opened[c] = linked[QueueLock]

HoldersHold == \A p \in Processes : pc[p] \in Holding => holder[opened[p]] = p

(* Who is about to unlink a lock file is alone with it.                    *)
LeavesAlone ==
    \A p, q \in Processes :
        /\ p # q /\ pc[p] = "unlink"
        /\ pc[q] \in Trying \cup Holding \cup {"unlink"}
        => job[p] # job[q]

OneNumbering == \A c, k \in Clients : InNumbering(c) /\ InNumbering(k) => c = k

LockInv ==
    /\ HolderHasOpen /\ OneName /\ OpenIsLinked /\ HoldersHold /\ LeavesAlone
    /\ OneNumbering

-----------------------------------------------------------------------------
(* The numbers of the jobs.                                                *)

(* A client has a document while it enqueues one, and no other has it.     *)
ClientDocument ==
    /\ \A c, k \in Clients : document[c] = document[k] /\ document[c] # None => c = k
    /\ \A c \in Clients :
          /\ pc[c] \in {"free", "tryAbort", "unlinkFax", "unlinkControl", "unlock", "unlink"}
             => document[c] = None
          /\ pc[c] \in {"askNumber", "number", "openCounter", "count", "convert", "describe",
                        "fill", "protect"}
             => document[c] # None

(* It has no number before the counter is opened, and then its job's.      *)
ClientNumber ==
    \A c \in Clients :
        document[c] # None =>
            /\ pc[c] \in {"askNumber", "number", "openCounter"} => number[document[c]] = 0
            /\ pc[c] \in {"count", "unlockQueue", "unlinkQueue", "convert", "describe",
                          "fill", "protect"} => number[document[c]] = job[c]

(* The counter is past every number given.                                 *)
CounterIsPast ==
    /\ nextnr \in Nat => \A d \in Documents : number[d] < nextnr
    /\ nextnr = None => \A d \in Documents : number[d] = 0
    /\ \A c \in Clients :
          /\ pc[c] = "openCounter" => \A d \in Documents : number[d] < job[c]
          /\ pc[c] = "count" => \A d \in Documents : number[d] <= job[c]

NumberInv == ClientDocument /\ ClientNumber /\ CounterIsPast /\ NumbersDiffer

-----------------------------------------------------------------------------
(* The files of the jobs.                                                  *)

(* Files belong to the document with their number; a control file is in    *)
(* one directory only.                                                     *)
FilesAreNumbered ==
    \A q \in Directories, n \in Jobs :
        /\ fax[q][n] # None => number[fax[q][n]] = n
        /\ control[q][n] # None => \E d \in Documents : number[d] = n
OnePlace ==
    \A q, r \in Directories, n \in Jobs : control[q][n] # None /\ control[r][n] # None => q = r

(* A new job has no control file before its client writes it.              *)
NewJob ==
    \A c \in Clients :
        /\ /\ document[c] # None
           /\ pc[c] \in {"count", "unlockQueue", "unlinkQueue", "convert", "describe"}
           => \A q \in Directories : control[q][job[c]] = None
        /\ pc[c] = "fill" => control["sendq"][job[c]] = Truncated

(* What becomes of the job that the idle script works on is its business.  *)
Working == {"dial", "sending", "moveControl", "delay", "delayed"}
NobodyFills ==
    pc[Idle] \in Working => \A c \in Clients : pc[c] = "fill" => job[c] # job[Idle]
OwnFiles ==
    /\ pc[Idle] \in Working \ {"delayed"} => control["sendq"][job[Idle]] \notin {None, Truncated}
    /\ pc[Idle] = "delayed" => control["sendq"][job[Idle]] = Truncated
    /\ pc[Idle] \in {"moveFax", "rewrite", "refill"} => control[target][job[Idle]] # None
    /\ pc[Idle] \in Working => document[Idle] # None /\ number[document[Idle]] = job[Idle]

(* Between its two steps an abort leaves a control file that is whole.     *)
AbortsJob ==
    \A c \in Clients :
        pc[c] = "unlinkControl" => control["sendq"][job[c]] \notin {None, Truncated}

FileInv ==
    /\ FilesAreNumbered /\ OnePlace /\ NewJob /\ AbortsJob
    /\ NobodyFills /\ OwnFiles /\ SendsItsJob

-----------------------------------------------------------------------------
(* The calls made for a document.                                          *)

(* A document without control file was never tried.                        *)
NewIsUntried ==
    /\ \A d \in Documents : number[d] = 0 => attempts[d] = 0
    /\ \A c \in Clients :
          document[c] # None /\ pc[c] # "protect" => attempts[document[c]] = 0

(* The tries in a control file are the calls made, but for one lost with   *)
(* each crash and each exception; what was taken for a success is tried    *)
(* again after a crash only.                                               *)
InDoubt == {"sending", "moveControl", "delay"}
TriesAreCounted ==
    \A d \in Documents :
        LET n == number[d]
            k == control["sendq"][n]
        IN  n # 0 /\ k \notin {None, Truncated} /\ ~(pc[Idle] \in InDoubt /\ job[Idle] = n)
              => /\ k <= attempts[d] /\ attempts[d] <= k + crashed + uncounted[d]
                 /\ succeeded[d] <= crashed

(* The same of the call in progress.                                       *)
CallIsCounted ==
    LET d == document[Idle]
    IN  /\ pc[Idle] = "sending" =>
              /\ tries + 1 <= attempts[d] /\ attempts[d] <= tries + 1 + crashed + uncounted[d]
              /\ succeeded[d] <= crashed /\ succeeded[d] < attempts[d]
        /\ pc[Idle] \in {"moveControl", "delay", "delayed"} =>
              tries <= attempts[d] /\ attempts[d] <= tries + crashed + uncounted[d]
        /\ pc[Idle] \in {"delay", "delayed"} => succeeded[d] <= crashed
        /\ pc[Idle] = "moveControl" =>
              \/ target = "done" /\ succeeded[d] > 0
              \/ target = "failed" /\ attempts[d] >= MaxTries

SuccessWasTried == \A d \in Documents : succeeded[d] <= attempts[d]

CallInv ==
    /\ NewIsUntried /\ TriesAreCounted /\ CallIsCounted /\ SuccessWasTried
    /\ TriesAreLimited /\ SentOnce

JobInv == ~config.overlap => LockInv /\ NumberInv /\ FileInv /\ CallInv

-----------------------------------------------------------------------------
(* The locks are as they were, and no process comes to work with one.      *)
LEMMA LocksKept ==
    ASSUME LockInv, UNCHANGED lockVars,
           \A p \in Processes :
              /\ pc'[p] \in Trying \cup Holding \cup {"unlink"} => job'[p] = job[p]
              /\ pc'[p] \in Trying \cup Holding => pc[p] \in Trying \cup Holding
              /\ pc'[p] \in Holding => pc[p] \in Holding
              /\ pc'[p] = "unlink" => pc[p] = "unlink",
           \A c \in Clients :
              /\ pc'[c] \in Numbering => pc[c] \in Numbering
              /\ InNumbering(c)' => InNumbering(c)
    PROVE  LockInv'
  <1> USE DEF LockInv
  <1>1. HolderHasOpen' /\ OneName'
    BY DEF HolderHasOpen, OneName
  <1>2. OpenIsLinked'
    BY DEF OpenIsLinked
  <1>3. HoldersHold'
    BY DEF HoldersHold
  <1>4. LeavesAlone'
    BY DEF LeavesAlone
  <1>5. OneNumbering'
    BY DEF OneNumbering
  <1> QED
    BY <1>1, <1>2, <1>3, <1>4, <1>5

(* A process opens the lock of a job, apart from all others.               *)
LEMMA LockOpened ==
    ASSUME TypeInv, LockInv, ~config.overlap,
           NEW p \in Processes, NEW n \in Jobs, NEW to \in Trying,
           pc[p] \in Closed, OpenLock(p, n), Goes(p, to), job' = [job EXCEPT ![p] = n]
    PROVE  LockInv'
  <1>1. /\ opened[p] = None /\ n \in LockNames /\ QueueLock # n /\ QueueLock \in LockNames
        /\ LockType /\ None \notin Inodes /\ p # None
    BY Names, QueueAssumption DEF TypeInv, PCType, QueueLock, Jobs, Processes
  <1>2. PICK i \in Inodes :
                 /\ opened' = [opened EXCEPT ![p] = i]
                 /\ linked' = [linked EXCEPT ![n] = i]
                 /\ IF linked[n] # None THEN i = linked[n] ELSE i \in FreeInodes
    BY <1>1, OpenType
  <1>3. UNCHANGED holder
    BY DEF OpenLock
  <1>4. /\ pc' = [pc EXCEPT ![p] = to]
        /\ pc'[p] = to /\ job'[p] = n /\ opened'[p] = i /\ linked'[n] = i
        /\ \A q \in Processes \ {p} :
              pc'[q] = pc[q] /\ job'[q] = job[q] /\ opened'[q] = opened[q]
        /\ \A l \in LockNames \ {n} : linked'[l] = linked[l]
    BY <1>1, <1>2 DEF Goes, TypeInv, PCType, WorkType, LockType
  <1>5. \A q \in Processes \ {p} : pc[q] \in Trying \cup {"unlink"} => job[q] # n
    BY DEF OpenLock, Apart, Trying
  <1>6. HolderHasOpen'
    <2> SUFFICES ASSUME NEW j \in Inodes, holder[j] # None PROVE opened'[holder[j]] = j
      BY <1>3 DEF HolderHasOpen
    <2>1. holder[j] \in Processes /\ opened[holder[j]] = j
      BY DEF LockInv, HolderHasOpen, TypeInv, LockType
    <2> QED
      BY <1>1, <1>4, <2>1
  <1>7. OneName'
    BY <1>1, <1>2, <1>4 DEF LockInv, OneName, FreeInodes, LockType
  <1>8. OpenIsLinked'
    <2>1. \A q \in Processes \ {p} : pc[q] \in Trying \cup Holding =>
              opened[q] # None /\ opened[q] = linked[job[q]] /\ job[q] \in LockNames
      BY Names DEF LockInv, OpenIsLinked, TypeInv, PCType, Trying, Holding, ClientJobPCs,
             IdleJobPCs, IdlePCs, ClientPCs, Processes
    <2>2. \A q \in Processes \ {p} : pc[q] \in Trying \cup Holding =>
              opened[q] # None /\ opened[q] = linked'[job[q]]
      BY <1>2, <1>4, <2>1
    <2>3. \A c \in Clients \ {p} : pc[c] \in Numbering =>
              opened[c] # None /\ opened[c] = linked'[QueueLock]
      BY <1>1, <1>4 DEF LockInv, OpenIsLinked
    <2>4. to \notin Numbering
      BY DEF Trying, Numbering
    <2> QED
      BY <1>1, <1>4, <2>2, <2>3, <2>4, Names DEF OpenIsLinked
  <1>9. HoldersHold'
    BY <1>3, <1>4 DEF LockInv, HoldersHold, Trying, Holding
  <1>10. LeavesAlone'
    <2>1. to # "unlink"
      BY DEF Trying
    <2> QED
      BY <1>4, <1>5, <2>1 DEF LockInv, LeavesAlone
  <1>11. OneNumbering'
    BY <1>4, Names DEF LockInv, OneNumbering, InNumbering, Trying
  <1> QED
    BY <1>6, <1>7, <1>8, <1>9, <1>10, <1>11 DEF LockInv

(* A process takes the lock of the file it has opened.                     *)
LEMMA LockTaken ==
    ASSUME TypeInv, LockInv, NEW p \in Processes, NEW to,
           \/ pc[p] \in Trying /\ to \in Holding
           \/ p \in Clients /\ pc[p] \in Numbering /\ to \in Numbering,
           MayLock(p), TakeLock(p), Goes(p, to), UNCHANGED job
    PROVE  LockInv'
  <1>1. /\ holder' = [holder EXCEPT ![opened[p]] = p] /\ UNCHANGED <<linked, opened>>
        /\ holder[opened[p]] = None /\ opened[p] # None /\ opened[p] \in Inodes /\ p # None
    BY QueueAssumption
      DEF TakeLock, MayLock, LockInv, OpenIsLinked, TypeInv, LockType, Processes
  <1>2. pc'[p] = to /\ \A q \in Processes \ {p} : pc'[q] = pc[q]
    BY DEF Goes, TypeInv, PCType
  <1>3. HolderHasOpen' /\ OneName'
    BY <1>1 DEF LockInv, HolderHasOpen, OneName, TypeInv, LockType
  <1>4. OpenIsLinked'
    BY <1>1, <1>2, Names DEF LockInv, OpenIsLinked, Trying, Holding, Numbering
  <1>5. HoldersHold'
    <2> SUFFICES ASSUME NEW q \in Processes, pc'[q] \in Holding PROVE holder'[opened[q]] = q
      BY <1>1 DEF HoldersHold
    <2>1. CASE q = p
      BY <1>1, <2>1 DEF TypeInv, LockType
    <2>2. CASE q # p
      <3>1. holder[opened[q]] = q
        BY <1>2, <2>2 DEF LockInv, HoldersHold
      <3>2. opened[q] # opened[p]
        BY <1>1, <3>1, QueueAssumption DEF Processes
      <3> QED
        BY <1>1, <3>1, <3>2 DEF TypeInv, LockType
    <2> QED
      BY <2>1, <2>2
  <1>6. LeavesAlone'
    BY <1>2 DEF LockInv, LeavesAlone, Trying, Holding, Numbering
  <1>7. OneNumbering'
    BY <1>2, Names DEF LockInv, OneNumbering, InNumbering, Trying, Holding, Numbering
  <1> QED
    BY <1>3, <1>4, <1>5, <1>6, <1>7 DEF LockInv

(* A process closes its lock file; it may go on to unlink it if it had the *)
(* lock and nobody waits for it.                                           *)
LEMMA LockClosed ==
    ASSUME TypeInv, LockInv, NEW p \in Processes, NEW to, CloseLock(p), Goes(p, to),
           \A q \in Processes \ {p} : job'[q] = job[q],
           to \notin Trying \cup Holding \cup Numbering,
           p \in Clients /\ InNumbering(p)' => InNumbering(p),
           to = "unlink" =>
              /\ pc[p] \in Holding /\ job'[p] = job[p]
              /\ \A q \in Processes \ {p} :
                    ~(pc[q] \in {"tryAbort", "tryLock", "unlink"} /\ job[q] = job[p])
    PROVE  LockInv'
  <1>1. /\ opened' = [opened EXCEPT ![p] = None] /\ UNCHANGED linked
        /\ holder' = [i \in Inodes |-> IF holder[i] = p THEN None ELSE holder[i]]
        /\ p # None
    BY QueueAssumption DEF CloseLock, Processes
  <1>2. /\ pc'[p] = to /\ opened'[p] = None
        /\ \A q \in Processes \ {p} : pc'[q] = pc[q] /\ opened'[q] = opened[q]
    BY <1>1 DEF Goes, TypeInv, PCType, LockType
  <1>3. HolderHasOpen'
    <2> SUFFICES ASSUME NEW i \in Inodes, holder'[i] # None PROVE opened'[holder'[i]] = i
      BY DEF HolderHasOpen
    <2>1. holder'[i] = holder[i] /\ holder[i] # p /\ holder[i] \in Processes
          /\ opened[holder[i]] = i
      BY <1>1 DEF LockInv, HolderHasOpen, TypeInv, LockType
    <2> QED
      BY <1>2, <2>1
  <1>4. OneName'
    BY <1>1 DEF LockInv, OneName
  <1>5. OpenIsLinked'
    BY <1>1, <1>2, Names DEF LockInv, OpenIsLinked
  <1>6. HoldersHold'
    <2> SUFFICES ASSUME NEW q \in Processes, pc'[q] \in Holding PROVE holder'[opened'[q]] = q
      BY DEF HoldersHold
    <2>1. q # p /\ pc[q] \in Holding /\ opened'[q] = opened[q]
      BY <1>2
    <2>2. holder[opened[q]] = q /\ opened[q] \in Inodes
      BY <2>1 DEF LockInv, HoldersHold, OpenIsLinked, TypeInv, LockType
    <2> QED
      BY <1>1, <2>1, <2>2
  <1>7. ASSUME to = "unlink", NEW q \in Processes \ {p},
               pc[q] \in Trying \cup Holding \cup {"unlink"}
        PROVE  job[p] # job[q]
    <2>1. CASE pc[q] \in Trying \cup {"unlink"}
      BY <1>7, <2>1 DEF Trying
    <2>2. CASE pc[q] \in Holding
      <3>1. /\ holder[opened[p]] = p /\ opened[p] = linked[job[p]]
            /\ holder[opened[q]] = q /\ opened[q] = linked[job[q]]
        BY <1>7, <2>2 DEF LockInv, HoldersHold, OpenIsLinked
      <3> QED
        BY <1>7, <3>1
    <2> QED
      BY <1>7, <2>1, <2>2
  <1>8. LeavesAlone'
    <2> SUFFICES ASSUME NEW q \in Processes, NEW r \in Processes, q # r, pc'[q] = "unlink",
                        pc'[r] \in Trying \cup Holding \cup {"unlink"}
                 PROVE  job'[q] # job'[r]
      BY DEF LeavesAlone
    <2>1. CASE q = p
      BY <1>2, <1>7, <2>1
    <2>2. CASE r = p
      BY <1>2, <1>7, <2>2
    <2>3. CASE q # p /\ r # p
      BY <1>2, <2>3 DEF LockInv, LeavesAlone
    <2> QED
      BY <2>1, <2>2, <2>3
  <1>9. OneNumbering'
    BY <1>2, Names DEF LockInv, OneNumbering, InNumbering
  <1> QED
    BY <1>3, <1>4, <1>5, <1>6, <1>8, <1>9 DEF LockInv

(* A process unlinks a lock file nobody else works with.                   *)
LEMMA LockUnlinked ==
    ASSUME TypeInv, LockInv, NEW p \in Processes, NEW name, NEW to, UnlinkLock(name), Goes(p, to),
           \A q \in Processes \ {p} : job'[q] = job[q],
           to \notin Trying \cup Holding \cup Numbering \cup {"unlink"},
           ~(to \in {"unlinkQueue"}),
           \/ pc[p] = "unlink" /\ name = job[p] /\ job[p] \in Jobs
           \/ p \in Clients /\ pc[p] = "unlinkQueue" /\ name = QueueLock
    PROVE  LockInv'
  <1>1. linked' = [linked EXCEPT ![name] = None] /\ UNCHANGED <<holder, opened>>
    BY DEF UnlinkLock
  <1>2. pc'[p] = to /\ \A q \in Processes \ {p} : pc'[q] = pc[q]
    BY DEF Goes, TypeInv, PCType
  <1>3. HolderHasOpen' /\ OneName'
    BY <1>1 DEF LockInv, HolderHasOpen, OneName, TypeInv, LockType
  <1>4. \A q \in Processes \ {p} : pc[q] \in Trying \cup Holding => job[q] \in Jobs
    BY Names DEF TypeInv, PCType, Trying, Holding, ClientJobPCs, IdleJobPCs, IdlePCs, ClientPCs,
                 Processes
  <1>5. QueueLock \notin Jobs /\ QueueLock \in LockNames /\ Jobs \subseteq LockNames
    BY Names DEF QueueLock, Jobs
  <1>6. \A q \in Processes \ {p} : pc[q] \in Trying \cup Holding => job[q] # name
    BY <1>4, <1>5 DEF LockInv, LeavesAlone
  <1>7. \A c \in Clients \ {p} : pc[c] \in Numbering => name # QueueLock
    BY <1>5 DEF LockInv, OneNumbering, InNumbering, Numbering
  <1>8. OpenIsLinked'
    <2>1. \A q \in Processes : pc'[q] \in Trying \cup Holding =>
              opened'[q] # None /\ opened'[q] = linked'[job'[q]]
      BY <1>1, <1>2, <1>4, <1>5, <1>6 DEF LockInv, OpenIsLinked, TypeInv, LockType
    <2>2. \A c \in Clients : pc'[c] \in Numbering =>
              opened'[c] # None /\ opened'[c] = linked'[QueueLock]
      BY <1>1, <1>2, <1>5, <1>7, Names DEF LockInv, OpenIsLinked, TypeInv, LockType
    <2> QED
      BY <2>1, <2>2 DEF OpenIsLinked
  <1>9. HoldersHold'
    BY <1>1, <1>2 DEF LockInv, HoldersHold
  <1>10. LeavesAlone'
    BY <1>2 DEF LockInv, LeavesAlone
  <1>11. OneNumbering'
    BY <1>2, Names DEF LockInv, OneNumbering, InNumbering, Numbering
  <1> QED
    BY <1>3, <1>8, <1>9, <1>10, <1>11 DEF LockInv

(* A client opens the lock of the queue, after all others.                 *)
LEMMA QueueOpened ==
    ASSUME TypeInv, LockInv, ~config.overlap,
           NEW c \in Clients, NEW d \in Documents, Enqueue(c, d)
    PROVE  LockInv'
  <1>1. /\ opened[c] = None /\ QueueLock \in LockNames /\ QueueLock \notin Jobs
        /\ LockType /\ None \notin Inodes /\ c # None /\ c \in Processes /\ pc[c] = "free"
    BY Names, QueueAssumption DEF Enqueue, TypeInv, PCType, Closed, QueueLock, Jobs, Processes
  <1>2. PICK i \in Inodes :
                 /\ opened' = [opened EXCEPT ![c] = i]
                 /\ linked' = [linked EXCEPT ![QueueLock] = i]
                 /\ IF linked[QueueLock] # None THEN i = linked[QueueLock] ELSE i \in FreeInodes
    BY <1>1, OpenType DEF Enqueue
  <1>3. UNCHANGED <<holder, job>>
    BY DEF Enqueue, OpenLock
  <1>4. /\ pc'[c] = "askNumber" /\ opened'[c] = i /\ linked'[QueueLock] = i
        /\ \A q \in Processes \ {c} : pc'[q] = pc[q] /\ opened'[q] = opened[q]
        /\ \A l \in LockNames \ {QueueLock} : linked'[l] = linked[l]
    BY <1>1, <1>2 DEF Enqueue, Goes, TypeInv, PCType, LockType
  <1>5. \A k \in Clients : ~InNumbering(k)
    BY DEF Enqueue
  <1>6. HolderHasOpen'
    <2> SUFFICES ASSUME NEW j \in Inodes, holder[j] # None PROVE opened'[holder[j]] = j
      BY <1>3 DEF HolderHasOpen
    <2>1. holder[j] \in Processes /\ opened[holder[j]] = j
      BY DEF LockInv, HolderHasOpen, TypeInv, LockType
    <2> QED
      BY <1>1, <1>4, <2>1
  <1>7. OneName'
    BY <1>1, <1>2, <1>4 DEF LockInv, OneName, FreeInodes, LockType
  <1>8. OpenIsLinked'
    <2>1. \A q \in Processes \ {c} : pc[q] \in Trying \cup Holding =>
              opened[q] # None /\ opened[q] = linked[job[q]] /\ job[q] \in Jobs
      BY Names DEF LockInv, OpenIsLinked, TypeInv, PCType, Trying, Holding, ClientJobPCs,
             IdleJobPCs, IdlePCs, ClientPCs, Processes
    <2>2. \A q \in Processes \ {c} : pc[q] \in Trying \cup Holding =>
              opened[q] # None /\ opened[q] = linked'[job[q]]
      BY <1>1, <1>4, <2>1, Names
    <2>3. \A k \in Clients \ {c} : pc[k] \notin Numbering
      BY <1>5 DEF InNumbering, Numbering
    <2> QED
      BY <1>1, <1>3, <1>4, <2>2, <2>3, Names DEF OpenIsLinked, Trying, Holding
  <1>9. HoldersHold'
    BY <1>3, <1>4 DEF LockInv, HoldersHold, Holding
  <1>10. LeavesAlone'
    BY <1>3, <1>4 DEF LockInv, LeavesAlone, Trying, Holding
  <1>11. OneNumbering'
    BY <1>4, <1>5, Names DEF OneNumbering, InNumbering
  <1> QED
    BY <1>6, <1>7, <1>8, <1>9, <1>10, <1>11 DEF LockInv

(* A step that opens, locks, closes or unlinks no lock file.               *)
LEMMA LocksKeptBy ==
    ASSUME TypeInv, LockInv, NEW p \in Processes, NEW to, Goes(p, to), UNCHANGED lockVars,
           \A q \in Processes \ {p} : job'[q] = job[q],
           to \in Trying \cup Holding \cup {"unlink"} => job'[p] = job[p],
           to \notin Trying /\ to # "unlink",
           to \in Holding => pc[p] \in Holding,
           p \in Clients =>
              /\ to \in Numbering => pc[p] \in Numbering
              /\ to # "unlinkQueue"
    PROVE  LockInv'
  <1>1. pc'[p] = to /\ \A q \in Processes \ {p} : pc'[q] = pc[q]
    BY DEF Goes, TypeInv, PCType
  <1>2. \A c \in Clients :
              /\ pc'[c] \in Numbering => pc[c] \in Numbering
              /\ InNumbering(c)' => InNumbering(c)
    BY <1>1, Names DEF InNumbering, Numbering
  <1>3. \A q \in Processes :
              /\ pc'[q] \in Trying \cup Holding \cup {"unlink"} => job'[q] = job[q]
              /\ pc'[q] \in Trying \cup Holding => pc[q] \in Trying \cup Holding
              /\ pc'[q] \in Holding => pc[q] \in Holding
              /\ pc'[q] = "unlink" => pc[q] = "unlink"
    BY <1>1
  <1> QED
    BY <1>2, <1>3, LocksKept

(* What a step does to one process it does not do to the others.           *)
LEMMA Others ==
    ASSUME TypeInv, NEW p \in Processes, NEW n
    PROVE  /\ job' = [job EXCEPT ![p] = n] => \A q \in Processes \ {p} : job'[q] = job[q]
           /\ UNCHANGED job => \A q \in Processes : job'[q] = job[q]
  BY DEF TypeInv, WorkType

LEMMA LocksClient ==
    ASSUME TypeInv, LockInv, ~config.overlap, NEW c \in Clients, ClientNext(c)
    PROVE  LockInv'
  <1> USE Names DEF Trying, Holding, Numbering
  <1>0. c \in Processes
    OBVIOUS
  <1>1. CASE \E d \in Documents : Enqueue(c, d)
    BY <1>1, QueueOpened
  <1>2. CASE AskNumber(c)
    BY <1>0, <1>2, LockTaken DEF AskNumber, Moves
  <1>3. CASE ReadCounter(c)
    <2>1. /\ UNCHANGED lockVars /\ \A q \in Processes \ {c} : job'[q] = job[q]
          /\ \E to \in {"unlockQueue", "openCounter"} : Goes(c, to)
          /\ pc[c] = "number"
      BY <1>0, <1>3, Others DEF ReadCounter
    <2> QED
      BY <1>0, <2>1, LocksKeptBy
  <1>4. CASE OpenCounter(c) \/ WriteCounter(c)
    <2>1. /\ UNCHANGED <<lockVars, job>> /\ \A q \in Processes \ {c} : job'[q] = job[q]
          /\ \E to \in {"count", "unlockQueue"} : Goes(c, to)
          /\ pc[c] \in {"openCounter", "count"}
      BY <1>0, <1>4, Others DEF OpenCounter, WriteCounter, Moves
    <2> QED
      BY <1>0, <2>1, LocksKeptBy
  <1>5. CASE UnlockQueue(c)
    <2>1. /\ CloseLock(c) /\ Goes(c, "unlinkQueue") /\ pc[c] = "unlockQueue"
          /\ \A q \in Processes \ {c} : job'[q] = job[q]
      BY <1>0, <1>5, Others DEF UnlockQueue, Moves
    <2> QED
      BY <1>0, <2>1, LockClosed DEF InNumbering
  <1>6. CASE UnlinkQueue(c)
    <2>1. /\ UnlinkLock(QueueLock) /\ pc[c] = "unlinkQueue"
          /\ \A q \in Processes \ {c} : job'[q] = job[q]
          /\ \E to \in {"free", "convert"} : Goes(c, to)
      BY <1>0, <1>6, Others DEF UnlinkQueue, EndsClient
    <2> QED
      BY <1>0, <2>1, LockUnlinked
  <1>7. CASE Convert(c) \/ Describe(c) \/ Fill(c) \/ Protect(c)
    <2>1. /\ UNCHANGED lockVars /\ \A q \in Processes \ {c} : job'[q] = job[q]
          /\ \E to \in {"free", "describe", "fill", "protect"} : Goes(c, to)
      BY <1>0, <1>7, Others DEF Convert, Describe, Fill, Protect, Moves, EndsClient
    <2> QED
      BY <1>0, <2>1, LocksKeptBy
  <1>8. CASE \E n \in Jobs : Abort(c, n)
    <2>1. PICK n \in Jobs : Abort(c, n)
      BY <1>8
    <2> QED
      BY <1>0, <2>1, LockOpened DEF Abort, Closed
  <1>9. CASE TryAbort(c)
    <2>1. CASE MayLock(c)
      BY <1>0, <1>9, <2>1, LockTaken DEF TryAbort
    <2>2. CASE ~MayLock(c)
      <3>1. /\ CloseLock(c) /\ Goes(c, "free")
            /\ \A q \in Processes \ {c} : job'[q] = job[q]
        BY <1>0, <1>9, <2>2, Others DEF TryAbort, EndsClient
      <3>2. ~InNumbering(c)'
        BY <1>0, <3>1 DEF InNumbering, Goes, TypeInv, PCType
      <3> QED
        BY <1>0, <3>1, <3>2, LockClosed
    <2> QED
      BY <2>1, <2>2
  <1>10. CASE UnlinkFax(c) \/ UnlinkControl(c)
    <2>1. /\ UNCHANGED <<lockVars, job>> /\ \A q \in Processes \ {c} : job'[q] = job[q]
          /\ \E to \in {"unlinkControl", "unlock"} : Goes(c, to)
          /\ pc[c] \in {"unlinkFax", "unlinkControl"}
      BY <1>0, <1>10, Others DEF UnlinkFax, UnlinkControl, Moves
    <2> QED
      BY <1>0, <2>1, LocksKeptBy
  <1>11. CASE Unlock(c)
    <2>1. /\ CloseLock(c) /\ Goes(c, "unlink") /\ pc[c] = "unlock" /\ UNCHANGED job
          /\ \A q \in Processes \ {c} :
                ~(pc[q] \in {"tryAbort", "tryLock", "unlink"} /\ job[q] = job[c])
      BY <1>11 DEF Unlock, Moves, Apart
    <2>2. ~InNumbering(c)'
      BY <1>0, <2>1 DEF InNumbering, Goes, TypeInv, PCType
    <2> QED
      BY <1>0, <2>1, <2>2, LockClosed
  <1>12. CASE Unlink(c)
    <2>1. /\ UnlinkLock(job[c]) /\ pc[c] = "unlink" /\ Goes(c, "free") /\ job[c] \in Jobs
          /\ \A q \in Processes \ {c} : job'[q] = job[q]
      BY <1>0, <1>12, Others DEF Unlink, EndsClient, TypeInv, PCType, ClientJobPCs
    <2> QED
      BY <1>0, <2>1, LockUnlinked
  <1> QED
    BY <1>1, <1>2, <1>3, <1>4, <1>5, <1>6, <1>7, <1>8, <1>9, <1>10, <1>11, <1>12 DEF ClientNext

LEMMA LocksIdle ==
    ASSUME TypeInv, LockInv, ~config.overlap, IdleNext
    PROVE  LockInv'
  <1> USE Names DEF Trying, Holding, Numbering
  <1>1. CASE StartRound \/ Disable \/ EndRound
    <2>1. /\ UNCHANGED <<lockVars, job>> /\ \A q \in Processes \ {Idle} : job'[q] = job[q]
          /\ \E to \in {"disable", "sleep", "next"} : Goes(Idle, to)
      BY <1>1, Others DEF StartRound, Disable, EndRound, Moves
    <2> QED
      BY <2>1, LocksKeptBy
  <1>2. CASE \E n \in Jobs : NextJob(n)
    <2>1. PICK n \in Jobs : NextJob(n)
      BY <1>2
    <2> QED
      BY <2>1, LockOpened DEF NextJob, Moves, Closed
  <1>3. CASE TryLock
    <2>1. CASE MayLock(Idle)
      BY <1>3, <2>1, LockTaken DEF TryLock
    <2>2. CASE ~MayLock(Idle)
      <3>1. /\ CloseLock(Idle) /\ Goes(Idle, "next")
            /\ \A q \in Processes \ {Idle} : job'[q] = job[q]
        BY <1>3, <2>2, Others DEF TryLock
      <3> QED
        BY <3>1, LockClosed
    <2> QED
      BY <2>1, <2>2
  <1>4. CASE \/ Check \/ Dial \/ Send
             \/ MoveControl \/ MoveFax \/ Rewrite \/ Refill \/ Mail \/ Delay \/ Delayed
    <2>1. UNCHANGED <<lockVars, job>> /\ pc[Idle] \in Holding
      BY <1>4 DEF Check, Dial, Send, MoveControl, MoveFax, Rewrite, Refill, Mail, Delay, Delayed,
                  Moves
    <2>2. \E to \in Holding : Goes(Idle, to)
      BY <1>4 DEF Check, Dial, Send, MoveControl, MoveFax, Rewrite, Refill, Mail, Delay, Delayed,
                  Moves, Raise, Evaluate, Result, RaiseUncounted
    <2> QED
      BY <2>1, <2>2, LocksKeptBy, Others
  <1>5. CASE Unlock(Idle)
    <2>1. /\ CloseLock(Idle) /\ Goes(Idle, "unlink") /\ pc[Idle] = "unlock" /\ UNCHANGED job
          /\ \A q \in Processes \ {Idle} :
                ~(pc[q] \in {"tryAbort", "tryLock", "unlink"} /\ job[q] = job[Idle])
      BY <1>5 DEF Unlock, Moves, Apart
    <2> QED
      BY <2>1, LockClosed
  <1>6. CASE UnlinkIdle
    <2>1. /\ UnlinkLock(job[Idle]) /\ pc[Idle] = "unlink" /\ Goes(Idle, "next")
          /\ job[Idle] \in Jobs
          /\ \A q \in Processes \ {Idle} : job'[q] = job[q]
      BY <1>6, Others DEF UnlinkIdle, Moves, TypeInv, PCType, IdleJobPCs, IdlePCs
    <2> QED
      BY <2>1, LockUnlinked
  <1> QED
    BY <1>1, <1>2, <1>3, <1>4, <1>5, <1>6 DEF IdleNext

LEMMA LocksCrash ==
    ASSUME TypeInv, LockInv, NEW p \in Processes, Crash(p)
    PROVE  LockInv'
  <1>1. /\ CloseLock(p) /\ \A q \in Processes \ {p} : job'[q] = job[q]
        /\ \E to \in {"free", "sleep"} : Goes(p, to)
    BY Others DEF Crash, EndsClient
  <1>2. p \in Clients => ~InNumbering(p)'
    BY <1>1 DEF InNumbering, Goes, TypeInv, PCType
  <1> QED
    BY <1>1, <1>2, LockClosed DEF Trying, Holding, Numbering

LEMMA LockNext == TypeInv /\ ~config.overlap /\ LockInv /\ [QueueNext]_vars => LockInv'
  <1> SUFFICES ASSUME TypeInv, ~config.overlap, LockInv, [QueueNext]_vars PROVE LockInv'
    OBVIOUS
  <1>1. ASSUME NEW c \in config.clients, ClientNext(c) PROVE LockInv'
    <2>1. c \in Clients
      BY QueueAssumption DEF TypeInv, ScriptType
    <2> QED
      BY <1>1, <2>1, LocksClient
  <1>2. CASE IdleNext
    BY <1>2, LocksIdle
  <1>3. CASE UNCHANGED <<lockVars, workVars>>
    BY <1>3, LocksKept DEF InNumbering
  <1>4. ASSUME NEW p \in Processes, Crash(p) PROVE LockInv'
    BY <1>4, LocksCrash
  <1>5. \/ UNCHANGED vars \/ (\E n \in Jobs : StartTime(n)) \/ Break \/ Repair \/ Hangup
        => UNCHANGED <<lockVars, workVars>>
    BY DEF vars, StartTime, Break, Repair, Hangup
  <1> QED
    BY <1>1, <1>2, <1>3, <1>4, <1>5 DEF QueueNext

LEMMA LockInit == QueueInit => LockInv
  <1> SUFFICES ASSUME QueueInit PROVE LockInv
    OBVIOUS
  <1>1. /\ \A p \in Processes : pc[p] \in {"sleep", "free"}
        /\ \A i \in Inodes : holder[i] = None
        /\ \A l \in LockNames : linked[l] = None
    BY DEF QueueInit
  <1>2. HolderHasOpen /\ OneName
    BY <1>1 DEF HolderHasOpen, OneName
  <1>3. OpenIsLinked /\ HoldersHold /\ LeavesAlone
    BY <1>1, Names
      DEF OpenIsLinked, HoldersHold, LeavesAlone, Trying, Holding, Numbering
  <1>4. OneNumbering
    BY <1>1, Names DEF OneNumbering, InNumbering
  <1> QED
    BY <1>2, <1>3, <1>4 DEF LockInv

(* Who holds the lock of a job holds it alone.                             *)
LEMMA OneHolder ==
    ASSUME LockInv, NEW p \in Processes, NEW q \in Processes, p # q,
           pc[p] \in Holding, pc[q] \in Holding
    PROVE  job[p] # job[q]
  BY DEF LockInv, HoldersHold, OpenIsLinked

-----------------------------------------------------------------------------
(* The numbers.                                                            *)

Idling == {"free", "tryAbort", "unlinkFax", "unlinkControl", "unlock", "unlink"}
Before == {"askNumber", "number", "openCounter"}
After  == {"count", "unlockQueue", "unlinkQueue", "convert", "describe", "fill", "protect"}
Busy   == {"askNumber", "number", "openCounter", "count", "convert", "describe", "fill",
           "protect"}

LEMMA NumbersAreNat == TypeInv => \A d \in Documents : number[d] \in Nat
  BY DEF TypeInv, CountType, Jobs

(* No number is given, and no client takes up a document.                  *)
LEMMA NumbersKept ==
    ASSUME NumberInv, UNCHANGED <<number, nextnr>>,
           \A c \in Clients :
              /\ document'[c] = document[c] \/ document'[c] = None
              /\ pc'[c] \in Idling => document'[c] = None
              /\ pc'[c] \in Busy => document'[c] # None
              /\ document'[c] # None =>
                    /\ pc'[c] \in Before => pc[c] \in Before
                    /\ pc'[c] \in After => pc[c] \in After /\ job'[c] = job[c]
              /\ pc'[c] \in {"openCounter", "count"} => pc'[c] = pc[c] /\ job'[c] = job[c]
    PROVE  NumberInv'
  <1> USE DEF NumberInv, Idling, Before, After, Busy
  <1>1. ClientDocument'
    BY DEF ClientDocument
  <1>2. ClientNumber'
    BY DEF ClientNumber
  <1>3. CounterIsPast' /\ NumbersDiffer'
    BY DEF CounterIsPast, NumbersDiffer
  <1> QED
    BY <1>1, <1>2, <1>3

(* A client goes on with its document, or it ends.                         *)
LEMMA NumbersKeptBy ==
    ASSUME TypeInv, NumberInv, NEW c \in Clients, NEW to, UNCHANGED <<number, nextnr>>,
           \/ EndsClient(c) /\ to = "free"
           \/ /\ Goes(c, to) /\ UNCHANGED <<job, document>>
              /\ \/ pc[c] = "askNumber" /\ to = "number"
                 \/ pc[c] = "unlockQueue" /\ to = "unlinkQueue"
                 \/ pc[c] = "unlinkQueue" /\ to = "convert" /\ document[c] # None
                 \/ pc[c] \in {"convert", "describe", "fill"}
                      /\ to \in {"describe", "fill", "protect"}
                 \/ pc[c] \in Idling /\ to \in Idling
           \/ /\ pc[c] = "free" /\ to = "tryAbort" /\ Goes(c, to)
              /\ UNCHANGED document /\ \E n \in Jobs : job' = [job EXCEPT ![c] = n]
    PROVE  NumberInv'
  <1>1. /\ pc'[c] = to
        /\ \A k \in Clients \ {c} :
              pc'[k] = pc[k] /\ job'[k] = job[k] /\ document'[k] = document[k]
    BY Names DEF EndsClient, Goes, TypeInv, PCType, WorkType
  <1>2. \/ to = "free" /\ document'[c] = None
        \/ ~EndsClient(c) /\ UNCHANGED document /\ (UNCHANGED job \/ to = "tryAbort")
    <2>1. EndsClient(c) => to = "free" /\ document'[c] = None
      BY <1>1, Names DEF EndsClient, Goes, TypeInv, PCType, WorkType
    <2> QED
      BY <2>1
  <1>3. /\ pc[c] \in Idling => document[c] = None
        /\ pc[c] \in Busy => document[c] # None
    BY DEF NumberInv, ClientDocument, Idling, Busy
  <1>4. /\ document'[c] = document[c] \/ document'[c] = None
        /\ pc'[c] \in Idling => document'[c] = None
        /\ pc'[c] \in Busy => document'[c] # None
        /\ document'[c] # None =>
              /\ pc'[c] \in Before => pc[c] \in Before
              /\ pc'[c] \in After => pc[c] \in After /\ job'[c] = job[c]
        /\ pc'[c] \in {"openCounter", "count"} => pc'[c] = pc[c] /\ job'[c] = job[c]
    <2> USE DEF Idling, Before, After, Busy
    <2>1. CASE to = "free" /\ document'[c] = None
      BY <1>1, <2>1
    <2>2. CASE UNCHANGED document /\ to = "tryAbort"
      BY <1>1, <1>3, <2>2 DEF EndsClient
    <2>3. CASE UNCHANGED <<job, document>> /\ to # "free"
      BY <1>1, <1>3, <2>3
    <2>4. CASE ~EndsClient(c) /\ UNCHANGED <<job, document>> /\ to = "free"
      BY <1>1, <1>2, <1>3, <2>4
    <2> QED
      BY <1>2, <2>1, <2>2, <2>3, <2>4
  <1>5. \A k \in Clients \ {c} :
              /\ pc'[k] \in Idling => document'[k] = None
              /\ pc'[k] \in Busy => document'[k] # None
    BY <1>1 DEF NumberInv, ClientDocument, Idling, Busy
  <1> QED
    BY <1>1, <1>4, <1>5, NumbersKept

LEMMA NumbersGiven ==
    ASSUME TypeInv, LockInv, NumberInv, ~config.overlap, NEW c \in Clients,
           (\E d \in Documents : Enqueue(c, d)) \/ ReadCounter(c) \/ OpenCounter(c)
             \/ WriteCounter(c)
    PROVE  NumberInv'
  <1> USE Names DEF NumberInv
  <1>0. /\ c \in Processes /\ None \notin Documents /\ Truncated \notin Nat
        /\ None \notin Nat /\ Truncated # None
    BY QueueAssumption
  <1>1. CASE \E d \in Documents : Enqueue(c, d)
    <2>1. PICK d \in Documents : Enqueue(c, d)
      BY <1>1
    <2>2. /\ number[d] = 0 /\ \A k \in Clients : document[k] # d
          /\ pc'[c] = "askNumber" /\ document'[c] = d /\ UNCHANGED <<job, number, nextnr>>
          /\ \A k \in Clients \ {c} : pc'[k] = pc[k] /\ document'[k] = document[k]
      BY <1>0, <2>1 DEF Enqueue, Submitted, Goes, TypeInv, PCType, WorkType
    <2>3. ClientDocument'
      BY <1>0, <2>2 DEF ClientDocument
    <2>4. ClientNumber'
      BY <2>2 DEF ClientNumber
    <2>5. CounterIsPast' /\ NumbersDiffer'
      BY <2>2 DEF CounterIsPast, NumbersDiffer
    <2> QED
      BY <2>3, <2>4, <2>5
  <1>2. CASE ReadCounter(c)
    <2>1. CASE nextnr = Truncated
      <3>1. /\ pc'[c] = "unlockQueue" /\ document'[c] = None /\ UNCHANGED <<job, number, nextnr>>
            /\ \A k \in Clients \ {c} : pc'[k] = pc[k] /\ document'[k] = document[k]
        BY <1>0, <1>2, <2>1 DEF ReadCounter, Goes, TypeInv, PCType, WorkType
      <3> QED
        BY <3>1, NumbersKept DEF Idling, Before, After, Busy, ClientDocument
    <2>2. CASE nextnr # Truncated
      <3> DEFINE next == IF nextnr = None THEN LastFile + 1 ELSE nextnr
      <3>1. /\ next \in Jobs /\ job' = [job EXCEPT ![c] = next] /\ Goes(c, "openCounter")
            /\ UNCHANGED <<document, number, nextnr>> /\ pc[c] = "number"
        BY <1>2, <2>2 DEF ReadCounter
      <3>2. /\ pc'[c] = "openCounter" /\ job'[c] = next
            /\ \A k \in Clients \ {c} : pc'[k] = pc[k] /\ job'[k] = job[k]
        BY <1>0, <3>1 DEF Goes, TypeInv, PCType, WorkType
      <3>3. \A d \in Documents : number[d] < next
        <4>1. CASE nextnr = None
          BY <3>1, <4>1 DEF CounterIsPast, Jobs
        <4>2. CASE nextnr \in Nat
          BY <1>0, <4>2 DEF CounterIsPast
        <4> QED
          BY <2>2, <4>1, <4>2 DEF TypeInv, CounterType
      <3>4. ClientDocument' /\ ClientNumber'
        BY <3>1, <3>2 DEF ClientDocument, ClientNumber
      <3> HIDE DEF next
      <3>5. CounterIsPast' /\ NumbersDiffer'
        BY <3>1, <3>2, <3>3 DEF CounterIsPast, NumbersDiffer
      <3> QED
        BY <3>4, <3>5
    <2> QED
      BY <2>1, <2>2
  <1>3. CASE OpenCounter(c)
    <2> DEFINE d == document[c]
               n == job[c]
    <2>1. /\ pc[c] = "openCounter" /\ nextnr' = Truncated /\ UNCHANGED <<job, document>>
          /\ n \in Jobs /\ d \in Documents
          /\ pc'[c] = "count" /\ \A k \in Clients \ {c} : pc'[k] = pc[k]
      BY <1>0, <1>3
        DEF OpenCounter, Moves, Goes, TypeInv, PCType, WorkType, ClientJobPCs, ClientDocument
    <2>2. /\ number' = [number EXCEPT ![d] = n] /\ number[d] = 0
          /\ \A e \in Documents : number[e] \in Nat /\ number[e] < n
      <3>1. number' = [number EXCEPT ![d] = n] /\ number[d] = 0
        BY <1>0, <1>3, <2>1 DEF OpenCounter, ClientNumber
      <3>2. \A e \in Documents : number[e] \in Nat
        BY NumbersAreNat
      <3>3. \A e \in Documents : number[e] < n
        BY <2>1 DEF CounterIsPast
      <3> QED
        BY <3>1, <3>2, <3>3
    <2>3. number'[d] = n /\ \A e \in Documents \ {d} : number'[e] = number[e]
      BY <2>1, <2>2 DEF TypeInv, CountType
    <2>4. \A k \in Clients \ {c} : document[k] # d /\ ~InNumbering(k)
      BY <1>0, <2>1 DEF ClientDocument, LockInv, OneNumbering, InNumbering
    <2> HIDE DEF d, n
    <2>5. ClientDocument'
      BY <2>1 DEF ClientDocument
    <2>6. ClientNumber'
      <3> SUFFICES ASSUME NEW k \in Clients, document[k] # None
                   PROVE  /\ pc'[k] \in {"askNumber", "number", "openCounter"}
                              => number'[document[k]] = 0
                          /\ pc'[k] \in {"count", "unlockQueue", "unlinkQueue", "convert",
                                         "describe", "fill", "protect"}
                              => number'[document[k]] = job[k]
        BY <2>1 DEF ClientNumber
      <3>1. CASE k = c
        BY <2>1, <2>3, <3>1 DEF d, n
      <3>2. CASE k # c
        <4>1. document[k] \in Documents \ {d}
          BY <2>4, <3>2 DEF TypeInv, WorkType
        <4> QED
          BY <2>1, <2>3, <3>2, <4>1 DEF ClientNumber
      <3> QED
        BY <3>1, <3>2
    <2>7. CounterIsPast'
      <3>1. \A e \in Documents : number'[e] <= n
        BY <2>1, <2>2, <2>3, Names
      <3>2. \A k \in Clients \ {c} : pc'[k] \notin {"openCounter", "count"}
        BY <2>1, <2>4 DEF InNumbering
      <3> QED
        BY <1>0, <2>1, <3>1, <3>2 DEF CounterIsPast, n
    <2>8. NumbersDiffer'
      BY <2>1, <2>2, <2>3 DEF NumbersDiffer
    <2> QED
      BY <2>5, <2>6, <2>7, <2>8
  <1>4. CASE WriteCounter(c)
    <2>1. /\ pc[c] = "count" /\ nextnr' = job[c] + 1 /\ UNCHANGED <<job, document, number>>
          /\ job[c] \in Nat
          /\ pc'[c] = "unlockQueue" /\ \A k \in Clients \ {c} : pc'[k] = pc[k]
      BY <1>0, <1>4 DEF WriteCounter, Moves, Goes, TypeInv, PCType, ClientJobPCs
    <2>2. ClientDocument' /\ ClientNumber' /\ NumbersDiffer'
      BY <2>1 DEF ClientDocument, ClientNumber, NumbersDiffer
    <2>3. \A e \in Documents : number[e] \in Nat /\ number[e] <= job[c]
      <3>1. \A e \in Documents : number[e] \in Nat
        BY NumbersAreNat
      <3> QED
        BY <2>1, <3>1 DEF CounterIsPast
    <2>4. CounterIsPast'
      BY <1>0, <2>1, <2>3 DEF CounterIsPast
    <2> QED
      BY <2>2, <2>4
  <1> QED
    BY <1>1, <1>2, <1>3, <1>4

(* What the idle script does, clients do not notice.                       *)
ClientsStay == \A c \in Clients :
                   pc'[c] = pc[c] /\ job'[c] = job[c] /\ document'[c] = document[c]

LEMMA IdleStays ==
    ASSUME TypeInv, IdleNext \/ Crash(Idle)
    PROVE  ClientsStay /\ UNCHANGED <<config, number, nextnr>>
  <1>1. \A c \in Clients : c # Idle
    BY Names
  <1>2. UNCHANGED <<config, number, nextnr>>
    BY DEF IdleNext, StartRound, Disable, EndRound, NextJob, TryLock, Check, Dial, Send, MoveControl,
           MoveFax, Rewrite, Refill, Mail, Delay, Delayed, Unlock, UnlinkIdle, Crash
  <1>3. \E to : Goes(Idle, to)
    BY DEF IdleNext, StartRound, Disable, EndRound, NextJob, TryLock, Check, Dial, Send, MoveControl,
           MoveFax, Rewrite, Refill, Mail, Delay, Delayed, Unlock, UnlinkIdle, Crash,
           Moves, Raise, Evaluate, Result, RaiseUncounted
  <1>4. UNCHANGED job \/ \E n : job' = [job EXCEPT ![Idle] = n]
    BY DEF IdleNext, StartRound, Disable, EndRound, NextJob, TryLock, Check, Dial, Send, MoveControl,
           MoveFax, Rewrite, Refill, Mail, Delay, Delayed, Unlock, UnlinkIdle, Crash
  <1>5. UNCHANGED document \/ \E d : document' = [document EXCEPT ![Idle] = d]
    BY DEF IdleNext, StartRound, Disable, EndRound, NextJob, TryLock, Check, Dial, Send, MoveControl,
           MoveFax, Rewrite, Refill, Mail, Delay, Delayed, Unlock, UnlinkIdle, Crash
  <1>6. \A c \in Clients : pc'[c] = pc[c]
    BY <1>1, <1>3, Names DEF Goes, TypeInv, PCType
  <1>7. \A c \in Clients : job'[c] = job[c] /\ document'[c] = document[c]
    BY <1>1, <1>4, <1>5, Names DEF TypeInv, WorkType
  <1> QED
    BY <1>2, <1>6, <1>7 DEF ClientsStay

LEMMA OutsideStays ==
    ASSUME \/ UNCHANGED vars \/ (\E n \in Jobs : StartTime(n)) \/ Break \/ Repair \/ Hangup
    PROVE  UNCHANGED <<config, number, nextnr, fax, control, lockVars, workVars, tries, target,
                       countVars>>
  BY DEF vars, StartTime, Break, Repair, Hangup

LEMMA NumbersStay ==
    ASSUME NumberInv, ClientsStay, UNCHANGED <<number, nextnr>>
    PROVE  NumberInv'
  BY NumbersKept DEF ClientsStay, NumberInv, ClientDocument, Idling, Busy

LEMMA NumberNext ==
    TypeInv /\ LockInv /\ NumberInv /\ ~config.overlap /\ [QueueNext]_vars => NumberInv'
  <1> SUFFICES ASSUME TypeInv, LockInv, NumberInv, ~config.overlap, [QueueNext]_vars
               PROVE  NumberInv'
    OBVIOUS
  <1>1. ASSUME NEW c \in config.clients, ClientNext(c) PROVE NumberInv'
    <2> USE DEF Idling
    <2>1. c \in Clients
      BY QueueAssumption DEF TypeInv, ScriptType
    <2>2. CASE (\E d \in Documents : Enqueue(c, d)) \/ ReadCounter(c) \/ OpenCounter(c)
                 \/ WriteCounter(c)
      BY <2>1, <2>2, NumbersGiven
    <2>3. CASE AskNumber(c) \/ UnlockQueue(c) \/ UnlinkQueue(c)
      BY <2>1, <2>3, NumbersKeptBy DEF AskNumber, UnlockQueue, UnlinkQueue, Moves
    <2>4. CASE Convert(c) \/ Describe(c) \/ Fill(c) \/ Protect(c)
      BY <2>1, <2>4, NumbersKeptBy DEF Convert, Describe, Fill, Protect, Moves
    <2>5. CASE \E n \in Jobs : Abort(c, n)
      BY <2>1, <2>5, NumbersKeptBy DEF Abort
    <2>6. CASE TryAbort(c) \/ UnlinkFax(c) \/ UnlinkControl(c) \/ Unlock(c) \/ Unlink(c)
      BY <2>1, <2>6, NumbersKeptBy DEF TryAbort, UnlinkFax, UnlinkControl, Unlock, Unlink, Moves
    <2> QED
      BY <1>1, <2>2, <2>3, <2>4, <2>5, <2>6 DEF ClientNext
  <1>2. CASE IdleNext \/ Crash(Idle)
    BY <1>2, IdleStays, NumbersStay
  <1>3. ASSUME NEW c \in Clients, Crash(c) PROVE NumberInv'
    BY <1>3, NumbersKeptBy, Names DEF Crash
  <1>4. CASE UNCHANGED vars \/ (\E n \in Jobs : StartTime(n)) \/ Break \/ Repair \/ Hangup
    BY <1>4, OutsideStays, NumbersStay DEF ClientsStay
  <1> QED
    BY <1>1, <1>2, <1>3, <1>4 DEF QueueNext, Processes

LEMMA NumberInit == QueueInit => NumberInv
  <1> SUFFICES ASSUME QueueInit PROVE NumberInv
    OBVIOUS
  <1>1. \A c \in Clients : pc[c] = "free" /\ document[c] = None
    BY Names DEF QueueInit
  <1>2. nextnr = None /\ \A d \in Documents : number[d] = 0
    BY DEF QueueInit
  <1>3. ClientDocument /\ ClientNumber
    BY <1>1 DEF ClientDocument, ClientNumber
  <1>4. CounterIsPast /\ NumbersDiffer
    BY <1>1, <1>2, QueueAssumption DEF CounterIsPast, NumbersDiffer
  <1> QED
    BY <1>3, <1>4 DEF NumberInv

-----------------------------------------------------------------------------
(* The files.                                                              *)

NewPCs == {"count", "unlockQueue", "unlinkQueue", "convert", "describe"}
Moving == {"moveFax", "rewrite", "refill"}

(* What a client does, the idle script does not notice.                    *)
IdleStay == /\ pc'[Idle] = pc[Idle] /\ job'[Idle] = job[Idle]
            /\ document'[Idle] = document[Idle] /\ UNCHANGED <<tries, target>>

LEMMA ClientStays ==
    ASSUME TypeInv, NEW c \in Clients, ClientNext(c) \/ Crash(c)
    PROVE  /\ IdleStay /\ UNCHANGED <<config, attempts, succeeded, uncounted>>
           /\ \A k \in Clients \ {c} :
                 pc'[k] = pc[k] /\ job'[k] = job[k] /\ document'[k] = document[k]
  <1>1. c # Idle /\ c \in Processes /\ Idle \in Processes /\ Clients \subseteq Processes
    BY Names
  <1>2. UNCHANGED <<config, attempts, succeeded, uncounted, tries, target>>
    BY <1>1 DEF ClientNext, Enqueue, AskNumber, ReadCounter, OpenCounter, WriteCounter, UnlockQueue,
          UnlinkQueue, Convert, Describe, Fill, Protect, Abort, TryAbort, UnlinkFax, UnlinkControl,
          Unlock, Unlink, Crash
  <1>3. \E to : Goes(c, to)
    BY <1>1 DEF ClientNext, Enqueue, AskNumber, ReadCounter, OpenCounter, WriteCounter, UnlockQueue,
          UnlinkQueue, Convert, Describe, Fill, Protect, Abort, TryAbort, UnlinkFax, UnlinkControl,
          Unlock, Unlink, Crash, Moves, EndsClient
  <1>4. UNCHANGED job \/ \E n : job' = [job EXCEPT ![c] = n]
    BY <1>1 DEF ClientNext, Enqueue, AskNumber, ReadCounter, OpenCounter, WriteCounter, UnlockQueue,
          UnlinkQueue, Convert, Describe, Fill, Protect, Abort, TryAbort, UnlinkFax, UnlinkControl,
          Unlock, Unlink, Crash, EndsClient
  <1>5. UNCHANGED document \/ \E d : document' = [document EXCEPT ![c] = d]
    BY <1>1 DEF ClientNext, Enqueue, AskNumber, ReadCounter, OpenCounter, WriteCounter, UnlockQueue,
          UnlinkQueue, Convert, Describe, Fill, Protect, Abort, TryAbort, UnlinkFax, UnlinkControl,
          Unlock, Unlink, Crash, EndsClient
  <1>6. \A p \in Processes \ {c} : pc'[p] = pc[p]
    BY <1>3 DEF Goes, TypeInv, PCType
  <1>7. \A p \in Processes \ {c} : job'[p] = job[p] /\ document'[p] = document[p]
    BY <1>4, <1>5 DEF TypeInv, WorkType
  <1> QED
    BY <1>1, <1>2, <1>6, <1>7 DEF IdleStay

(* No file changes, and no client comes to create one.                     *)
LEMMA FilesKept ==
    ASSUME FileInv, UNCHANGED <<fax, control, number>>, IdleStay,
           \A c \in Clients :
              /\ document'[c] # None /\ pc'[c] \in NewPCs =>
                    document[c] # None /\ pc[c] \in NewPCs /\ job'[c] = job[c]
              /\ pc'[c] \in {"fill", "unlinkControl"} => pc'[c] = pc[c] /\ job'[c] = job[c]
    PROVE  FileInv'
  <1> USE DEF FileInv, IdleStay
  <1>1. FilesAreNumbered' /\ OnePlace'
    BY DEF FilesAreNumbered, OnePlace
  <1>2. NewJob' /\ AbortsJob'
    BY DEF NewJob, AbortsJob, NewPCs
  <1>3. NobodyFills'
    BY DEF NobodyFills
  <1>4. OwnFiles' /\ SendsItsJob'
    BY DEF OwnFiles, SendsItsJob
  <1> QED
    BY <1>1, <1>2, <1>3, <1>4

(* The idle script does not work on a job, or has finished with it.        *)
LEMMA FilesFreed ==
    ASSUME FileInv, UNCHANGED <<fax, control, number>>, ClientsStay,
           pc'[Idle] \notin Working \cup Moving
    PROVE  FileInv'
  <1> USE DEF FileInv, ClientsStay, Working, Moving
  <1>1. FilesAreNumbered' /\ OnePlace'
    BY DEF FilesAreNumbered, OnePlace
  <1>2. NewJob' /\ AbortsJob'
    BY DEF NewJob, AbortsJob
  <1>3. NobodyFills' /\ OwnFiles' /\ SendsItsJob'
    BY DEF NobodyFills, OwnFiles, SendsItsJob
  <1> QED
    BY <1>1, <1>2, <1>3

(* A client whose document is this one is this client.                     *)
LEMMA OneCreator ==
    ASSUME NumberInv, TypeInv, NEW c \in Clients, NEW k \in Clients, c # k,
           document[c] # None, pc[c] \in After, document[k] # None, pc[k] \in After,
           job[c] \in Jobs
    PROVE  job[k] # job[c]
  <1>1. number[document[c]] = job[c] /\ number[document[k]] = job[k]
    BY DEF NumberInv, ClientNumber, After
  <1>2. document[c] \in Documents /\ document[k] \in Documents /\ document[c] # document[k]
    BY DEF TypeInv, WorkType, NumberInv, ClientDocument, Processes
  <1>3. job[c] # 0
    BY DEF Jobs
  <1> QED
    BY <1>1, <1>2, <1>3 DEF NumberInv, NumbersDiffer

(* Who creates a job is not disturbed by the idle script's.                *)
LEMMA NotIdles ==
    ASSUME TypeInv, FileInv, NEW c \in Clients, pc[Idle] \in Working,
           \/ document[c] # None /\ pc[c] \in NewPCs
           \/ pc[c] = "fill"
    PROVE  job[c] # job[Idle]
  <1>1. control["sendq"][job[Idle]] # None
    <2>1. CASE pc[Idle] = "delayed"
      BY <2>1, QueueAssumption DEF FileInv, OwnFiles
    <2>2. CASE pc[Idle] # "delayed"
      BY <2>2 DEF FileInv, OwnFiles
    <2> QED
      BY <2>1, <2>2
  <1>2. CASE document[c] # None /\ pc[c] \in NewPCs
    <2>1. control["sendq"][job[c]] = None
      BY <1>2 DEF FileInv, NewJob, NewPCs, Directories
    <2> QED
      BY <1>1, <2>1
  <1>3. CASE pc[c] = "fill"
    BY <1>3 DEF FileInv, NobodyFills
  <1> QED
    BY <1>2, <1>3

(* What a client knows of the job it creates.                              *)
LEMMA Creating ==
    ASSUME TypeInv, NumberInv, NEW c \in Clients,
           pc[c] \in {"convert", "describe", "fill", "protect"}
    PROVE  /\ document[c] \in Documents /\ document[c] # None
           /\ job[c] \in Jobs /\ number[document[c]] = job[c]
  BY QueueAssumption
    DEF TypeInv, PCType, WorkType, NumberInv, ClientDocument, ClientNumber, ClientJobPCs, Processes

LEMMA FilesOpenCounter ==
    ASSUME TypeInv, LockInv, NumberInv, FileInv, NEW c \in Clients, OpenCounter(c)
    PROVE  FileInv'
  <1> DEFINE d == document[c]
             n == job[c]
  <1> USE DEF FileInv
  <1>1. IdleStay /\ \A k \in Clients \ {c} :
                 pc'[k] = pc[k] /\ job'[k] = job[k] /\ document'[k] = document[k]
    BY ClientStays DEF ClientNext
  <1>2. /\ pc[c] = "openCounter" /\ pc'[c] = "count" /\ UNCHANGED <<fax, control, job, document>>
        /\ number' = [number EXCEPT ![d] = n] /\ d \in Documents /\ n \in Jobs
    BY Names, QueueAssumption
      DEF OpenCounter, Moves, Goes, TypeInv, PCType, WorkType, ClientJobPCs, NumberInv,
          ClientDocument
  <1>3. number[d] = 0 /\ \A e \in Documents : number[e] # n
    BY <1>2, NumbersAreNat, QueueAssumption
      DEF NumberInv, ClientNumber, CounterIsPast, Jobs
  <1>4. number'[d] = n /\ \A e \in Documents \ {d} : number'[e] = number[e]
    BY <1>2 DEF TypeInv, CountType
  <1>5. \A q \in Directories : control[q][n] = None
    BY <1>2, <1>3 DEF FilesAreNumbered
  <1> HIDE DEF d
  <1>6. FilesAreNumbered'
    <2> SUFFICES ASSUME NEW q \in Directories, NEW m \in Jobs
                 PROVE  /\ fax[q][m] # None => number'[fax[q][m]] = m
                        /\ control[q][m] # None => \E e \in Documents : number'[e] = m
      BY <1>2 DEF FilesAreNumbered
    <2>1. ASSUME fax[q][m] # None PROVE number'[fax[q][m]] = m
      <3>1. fax[q][m] \in Documents
        BY <2>1 DEF TypeInv, FaxType
      <3>2. number[fax[q][m]] = m /\ m # 0
        BY <2>1 DEF FilesAreNumbered, Jobs
      <3> QED
        BY <1>3, <1>4, <3>1, <3>2
    <2>2. ASSUME control[q][m] # None PROVE \E e \in Documents : number'[e] = m
      <3>1. PICK e \in Documents : number[e] = m
        BY <2>2 DEF FilesAreNumbered
      <3>2. e # d
        BY <1>3, <3>1 DEF Jobs
      <3> QED
        BY <1>4, <3>1, <3>2
    <2> QED
      BY <2>1, <2>2
  <1>7. OnePlace'
    BY <1>2 DEF OnePlace
  <1>8. NewJob' /\ AbortsJob'
    BY <1>1, <1>2, <1>5 DEF NewJob, AbortsJob
  <1>9. NobodyFills'
    BY <1>1, <1>2 DEF NobodyFills, IdleStay
  <1>10. SendsItsJob'
    BY <1>1, <1>2 DEF SendsItsJob, IdleStay
  <1>11. OwnFiles'
    <2>1. ASSUME pc[Idle] \in Working
          PROVE  number'[document[Idle]] = job[Idle]
      <3>1. /\ document[Idle] \in Documents /\ number[document[Idle]] = job[Idle]
            /\ job[Idle] # 0
        BY <2>1, Names
          DEF OwnFiles, TypeInv, WorkType, PCType, Working, IdleJobPCs, IdlePCs, Jobs
      <3> QED
        BY <1>3, <1>4, <3>1
    <2> QED
      BY <1>1, <1>2, <2>1 DEF OwnFiles, IdleStay
  <1> QED
    BY <1>6, <1>7, <1>8, <1>9, <1>10, <1>11

LEMMA FilesConvert ==
    ASSUME TypeInv, NumberInv, FileInv, NEW c \in Clients, Convert(c)
    PROVE  FileInv'
  <1> DEFINE n == job[c]
  <1> USE DEF FileInv
  <1>1. IdleStay /\ \A k \in Clients \ {c} :
                 pc'[k] = pc[k] /\ job'[k] = job[k] /\ document'[k] = document[k]
    BY ClientStays DEF ClientNext
  <1>2. /\ pc[c] = "convert" /\ UNCHANGED <<control, number>>
        /\ document[c] \in Documents /\ document[c] # None /\ n \in Jobs
        /\ number[document[c]] = n
    BY Creating DEF Convert
  <1>3. CASE UNCHANGED fax
    <2>1. \/ pc'[c] = "free"
          \/ pc'[c] = "describe" /\ UNCHANGED <<job, document>>
      BY Names DEF Convert, EndsClient, Goes, TypeInv, PCType
    <2> QED
      BY <1>1, <1>2, <1>3, <2>1, FilesKept DEF NewPCs
  <1>4. CASE /\ fax' = [fax EXCEPT !["sendq"][n] = document[c]]
             /\ Goes(c, "describe") /\ UNCHANGED <<job, document>>
    <2>1. pc'[c] = "describe"
      BY <1>4, Names DEF Goes, TypeInv, PCType
    <2>2. FilesAreNumbered'
      BY <1>2, <1>4 DEF FilesAreNumbered, TypeInv, FaxType, Directories
    <2>3. OnePlace'
      BY <1>2 DEF OnePlace
    <2>4. NewJob' /\ AbortsJob'
      BY <1>1, <1>2, <1>4, <2>1 DEF NewJob, AbortsJob
    <2>5. NobodyFills' /\ OwnFiles'
      BY <1>1, <1>2, <1>4, <2>1 DEF NobodyFills, OwnFiles, IdleStay
    <2>6. SendsItsJob'
      <3>1. pc[Idle] \in Working => n # job[Idle]
        BY <1>2, NotIdles DEF NewPCs
      <3> QED
        BY <1>1, <1>2, <1>4, <3>1
          DEF SendsItsJob, IdleStay, TypeInv, FaxType, Directories, Working
    <2> QED
      BY <2>2, <2>3, <2>4, <2>5, <2>6
  <1> QED
    BY <1>3, <1>4 DEF Convert

LEMMA FilesDescribe ==
    ASSUME TypeInv, NumberInv, FileInv, NEW c \in Clients, Describe(c) \/ Fill(c)
    PROVE  FileInv'
  <1> DEFINE n == job[c]
             to == IF pc[c] = "describe" THEN "fill" ELSE "protect"
             what == IF pc[c] = "describe" THEN Truncated ELSE 0
  <1> USE DEF FileInv
  <1>1. IdleStay /\ \A k \in Clients \ {c} :
                 pc'[k] = pc[k] /\ job'[k] = job[k] /\ document'[k] = document[k]
    BY ClientStays DEF ClientNext
  <1>2. pc[c] \in {"describe", "fill"}
    BY DEF Describe, Fill, Moves
  <1>3. /\ UNCHANGED <<fax, number, job, document>> /\ what # None
        /\ document[c] \in Documents /\ document[c] # None /\ n \in Jobs
        /\ number[document[c]] = n
        /\ pc'[c] = to
        /\ control' = [control EXCEPT !["sendq"][n] = what]
    BY <1>2, Creating, Names, QueueAssumption DEF Describe, Fill, Moves, Goes, TypeInv, PCType
  <1>4. \A q \in Directories : q # "sendq" => control[q][n] = None
    <2>1. CASE pc[c] = "describe"
      BY <1>3, <2>1 DEF NewJob
    <2>2. CASE pc[c] = "fill"
      BY <1>3, <2>2, QueueAssumption DEF NewJob, OnePlace, Directories
    <2> QED
      BY <1>2, <2>1, <2>2
  <1>5. /\ control'["sendq"][n] = what
        /\ \A q \in Directories, m \in Jobs : q # "sendq" \/ m # n => control'[q][m] = control[q][m]
    BY <1>3 DEF TypeInv, ControlType, Directories
  <1>6. pc[Idle] \in Working => n # job[Idle]
    BY <1>2, <1>3, NotIdles DEF NewPCs
  <1>7. \A k \in Clients \ {c} : document[k] # None /\ pc[k] \in After => job[k] # n
    BY <1>2, <1>3, OneCreator DEF After
  <1>8. \A k \in Clients : pc[k] = "fill" => document[k] # None
    BY DEF NumberInv, ClientDocument
  <1>9. FilesAreNumbered'
    BY <1>3, <1>5 DEF FilesAreNumbered
  <1>10. OnePlace'
    BY <1>4, <1>5 DEF OnePlace
  <1>11. NewJob'
    <2> SUFFICES ASSUME NEW k \in Clients
                 PROVE  /\ document[k] # None /\ pc'[k] \in NewPCs
                            => \A q \in Directories : control'[q][job[k]] = None
                        /\ pc'[k] = "fill" => control'["sendq"][job[k]] = Truncated
      BY <1>3 DEF NewJob, NewPCs
    <2>1. CASE k = c
      BY <1>2, <1>3, <1>5, <2>1 DEF NewPCs
    <2>2. CASE k # c /\ document[k] # None /\ pc[k] \in NewPCs \cup {"fill"}
      <3>1. job[k] # n /\ pc'[k] = pc[k] /\ job[k] \in Jobs
        <4>1. job[k] # n /\ pc'[k] = pc[k]
          BY <1>1, <1>7, <2>2 DEF NewPCs, After
        <4>2. job[k] \in Jobs
          BY <2>2 DEF TypeInv, PCType, ClientJobPCs, NewPCs
        <4> QED
          BY <4>1, <4>2
      <3> QED
        BY <1>5, <2>2, <3>1 DEF NewJob, NewPCs, Directories
    <2>3. CASE k # c /\ ~(document[k] # None /\ pc[k] \in NewPCs \cup {"fill"})
      BY <1>1, <1>8, <2>3
    <2> QED
      BY <2>1, <2>2, <2>3
  <1>12. AbortsJob'
    <2> SUFFICES ASSUME NEW k \in Clients, pc'[k] = "unlinkControl"
                 PROVE  control'["sendq"][job[k]] \notin {None, Truncated}
      BY <1>3 DEF AbortsJob
    <2>1. k # c /\ pc[k] = "unlinkControl" /\ control["sendq"][job[k]] \notin {None, Truncated}
      BY <1>1, <1>3 DEF AbortsJob
    <2>2. job[k] \in Jobs
      BY <2>1 DEF TypeInv, PCType, ClientJobPCs
    <2>3. job[k] # n
      <3>1. control["sendq"][n] \in {None, Truncated}
        BY <1>2, <1>3 DEF NewJob, Directories
      <3> QED
        BY <2>1, <3>1
    <2> QED
      BY <1>5, <2>1, <2>2, <2>3 DEF Directories
  <1>13. NobodyFills'
    BY <1>1, <1>3, <1>6 DEF NobodyFills, IdleStay
  <1>14. OwnFiles' /\ SendsItsJob'
    <2>1. pc[Idle] \in Working \cup Moving => job[Idle] \in Jobs
      BY DEF TypeInv, PCType, IdleJobPCs, IdlePCs, Working, Moving
    <2>2. pc[Idle] \in Working => control'["sendq"][job[Idle]] = control["sendq"][job[Idle]]
      BY <1>5, <1>6, <2>1 DEF Directories
    <2>3. pc[Idle] \in Moving => control'[target][job[Idle]] # None
      BY <1>3, <1>5, <2>1 DEF OwnFiles, Moving, TypeInv, TriesType
    <2>4. OwnFiles'
      BY <1>1, <1>3, <2>2, <2>3 DEF OwnFiles, IdleStay, Working, Moving
    <2>5. SendsItsJob'
      BY <1>1, <1>3, <2>2 DEF SendsItsJob, IdleStay, Working
    <2> QED
      BY <2>4, <2>5
  <1> QED
    BY <1>9, <1>10, <1>11, <1>12, <1>13, <1>14

(* Who has the lock of a job may abort it: the idle script works on others. *)
LEMMA FilesUnlinkFax ==
    ASSUME TypeInv, LockInv, NumberInv, FileInv, NEW c \in Clients, UnlinkFax(c)
    PROVE  FileInv'
  <1> DEFINE n == job[c]
  <1> USE DEF FileInv
  <1>1. IdleStay /\ \A k \in Clients \ {c} :
                 pc'[k] = pc[k] /\ job'[k] = job[k] /\ document'[k] = document[k]
    BY ClientStays DEF ClientNext
  <1>2. /\ pc[c] = "unlinkFax" /\ UNCHANGED <<control, number, job, document>>
        /\ n \in Jobs /\ pc'[c] \in {"unlock", "unlinkControl"}
    BY Names DEF UnlinkFax, Goes, TypeInv, PCType, ClientJobPCs
  <1>3. CASE UNCHANGED fax /\ pc'[c] = "unlock"
    BY <1>1, <1>2, <1>3, FilesKept DEF NewPCs
  <1>4. CASE /\ control["sendq"][n] \notin {None, Truncated}
             /\ fax' = [fax EXCEPT !["sendq"][n] = None]
    <2>1. /\ fax'["sendq"][n] = None
          /\ \A q \in Directories, m \in Jobs : q # "sendq" \/ m # n => fax'[q][m] = fax[q][m]
      BY <1>2, <1>4 DEF TypeInv, FaxType, Directories
    <2>2. FilesAreNumbered' /\ OnePlace'
      BY <1>2, <2>1 DEF FilesAreNumbered, OnePlace
    <2>3. NewJob' /\ AbortsJob'
      BY <1>1, <1>2, <1>4 DEF NewJob, AbortsJob
    <2>4. NobodyFills' /\ OwnFiles'
      BY <1>1, <1>2 DEF NobodyFills, OwnFiles, IdleStay
    <2>5. pc[Idle] \in Working => job[Idle] # n /\ job[Idle] \in Jobs
      BY <1>2, OneHolder, Names
        DEF Working, Holding, TypeInv, PCType, IdleJobPCs, IdlePCs
    <2>6. SendsItsJob'
      BY <1>1, <1>2, <2>1, <2>5 DEF SendsItsJob, IdleStay, Working, Directories
    <2> QED
      BY <2>2, <2>3, <2>4, <2>6
  <1> QED
    BY <1>3, <1>4, Names DEF UnlinkFax, Goes, TypeInv, PCType

LEMMA FilesUnlinkControl ==
    ASSUME TypeInv, LockInv, NumberInv, FileInv, NEW c \in Clients, UnlinkControl(c)
    PROVE  FileInv'
  <1> DEFINE n == job[c]
  <1> USE DEF FileInv
  <1>1. IdleStay /\ \A k \in Clients \ {c} :
                 pc'[k] = pc[k] /\ job'[k] = job[k] /\ document'[k] = document[k]
    BY ClientStays DEF ClientNext
  <1>2. /\ pc[c] = "unlinkControl" /\ UNCHANGED <<fax, number, job, document>>
        /\ n \in Jobs /\ pc'[c] = "unlock"
    BY Names DEF UnlinkControl, Moves, Goes, TypeInv, PCType, ClientJobPCs
  <1>3. /\ control'["sendq"][n] = None
        /\ \A q \in Directories, m \in Jobs : q # "sendq" \/ m # n => control'[q][m] = control[q][m]
    BY <1>2 DEF UnlinkControl, TypeInv, ControlType, Directories
  <1>4. control["sendq"][n] \notin {None, Truncated}
    BY <1>2 DEF AbortsJob
  <1>5. FilesAreNumbered' /\ OnePlace'
    BY <1>2, <1>3 DEF FilesAreNumbered, OnePlace
  <1>6. NewJob'
    <2> SUFFICES ASSUME NEW k \in Clients \ {c}, pc[k] \in NewPCs \cup {"fill"},
                        document[k] # None \/ pc[k] = "fill"
                 PROVE  /\ pc[k] \in NewPCs => \A q \in Directories : control'[q][job[k]] = None
                        /\ pc[k] = "fill" => control'["sendq"][job[k]] = Truncated
      BY <1>1, <1>2 DEF NewJob, NewPCs
    <2>1. document[k] # None
      BY DEF NumberInv, ClientDocument
    <2>2. job[k] \in Jobs
      BY <2>1 DEF TypeInv, PCType, ClientJobPCs, NewPCs
    <2>3. job[k] # n
      BY <1>4, <2>1 DEF NewJob, NewPCs, Directories
    <2> QED
      BY <1>3, <2>1, <2>2, <2>3 DEF NewJob, NewPCs, Directories
  <1>7. AbortsJob'
    <2> SUFFICES ASSUME NEW k \in Clients \ {c}, pc[k] = "unlinkControl"
                 PROVE  control'["sendq"][job[k]] \notin {None, Truncated}
      BY <1>1, <1>2 DEF AbortsJob
    <2>1. job[k] # n
      BY <1>2, OneHolder, Names DEF Holding
    <2>2. job[k] \in Jobs
      BY DEF TypeInv, PCType, ClientJobPCs
    <2> QED
      BY <1>3, <2>1, <2>2 DEF AbortsJob, Directories
  <1>8. NobodyFills'
    BY <1>1, <1>2 DEF NobodyFills, IdleStay
  <1>9. OwnFiles' /\ SendsItsJob'
    <2>1. pc[Idle] \in Working \cup Moving => job[Idle] # n /\ job[Idle] \in Jobs
      BY <1>2, OneHolder, Names
        DEF Working, Moving, Holding, TypeInv, PCType, IdleJobPCs, IdlePCs
    <2>2. pc[Idle] \in Working \cup Moving =>
            \A q \in Directories : control'[q][job[Idle]] = control[q][job[Idle]]
      BY <1>3, <2>1
    <2>3. OwnFiles'
      BY <1>1, <1>2, <2>2 DEF OwnFiles, IdleStay, Working, Moving, TypeInv, TriesType, Directories
    <2>4. SendsItsJob'
      BY <1>1, <1>2, <2>2 DEF SendsItsJob, IdleStay, Working, Directories
    <2> QED
      BY <2>3, <2>4
  <1> QED
    BY <1>5, <1>6, <1>7, <1>8, <1>9

LEMMA FilesClient ==
    ASSUME TypeInv, LockInv, NumberInv, FileInv, NEW c \in Clients, ClientNext(c) \/ Crash(c)
    PROVE  FileInv'
  <1>1. IdleStay /\ \A k \in Clients \ {c} :
                 pc'[k] = pc[k] /\ job'[k] = job[k] /\ document'[k] = document[k]
    BY ClientStays
  <1>2. \A to : Goes(c, to) => pc'[c] = to
    BY Names DEF Goes, TypeInv, PCType
  <1>3. CASE \E d \in Documents : Enqueue(c, d)
    BY <1>1, <1>2, <1>3, FilesKept DEF Enqueue, NewPCs
  <1>4. CASE AskNumber(c) \/ WriteCounter(c) \/ UnlockQueue(c)
    BY <1>1, <1>2, <1>4, FilesKept DEF AskNumber, WriteCounter, UnlockQueue, Moves, NewPCs
  <1>10. CASE ReadCounter(c)
    <2>1. UNCHANGED <<fax, control, number>> /\ pc'[c] \in {"unlockQueue", "openCounter"}
      BY <1>2, <1>10 DEF ReadCounter
    <2>2. pc'[c] = "unlockQueue" => document'[c] = None
      BY <1>2, <1>10, Names DEF ReadCounter, TypeInv, WorkType
    <2> QED
      BY <1>1, <2>1, <2>2, FilesKept DEF NewPCs
  <1>5. CASE UnlinkQueue(c) \/ Protect(c) \/ Crash(c)
    BY <1>1, <1>2, <1>5, FilesKept, Names
      DEF UnlinkQueue, Protect, Crash, EndsClient, Moves, NewPCs
  <1>6. CASE (\E n \in Jobs : Abort(c, n)) \/ TryAbort(c) \/ Unlock(c) \/ Unlink(c)
    BY <1>1, <1>2, <1>6, FilesKept, Names
      DEF Abort, TryAbort, Unlock, Unlink, EndsClient, Moves, NewPCs
  <1>7. CASE OpenCounter(c)
    BY <1>7, FilesOpenCounter
  <1>8. CASE Convert(c) \/ Describe(c) \/ Fill(c)
    BY <1>8, FilesConvert, FilesDescribe
  <1>9. CASE UnlinkFax(c) \/ UnlinkControl(c)
    BY <1>9, FilesUnlinkFax, FilesUnlinkControl
  <1> QED
    BY <1>3, <1>4, <1>5, <1>6, <1>7, <1>8, <1>9, <1>10 DEF ClientNext

(* The idle script between its steps, and the clients that do not notice.  *)
LEMMA IdleWorks ==
    ASSUME TypeInv, LockInv, FileInv, pc[Idle] \in Working \cup Moving
    PROVE  /\ job[Idle] \in Jobs
           /\ \A c \in Clients : pc[c] = "unlinkControl" => job[c] # job[Idle]
           /\ target \in Directories /\ (pc[Idle] \in Moving => target # "sendq")
  <1>1. pc[Idle] \in Holding /\ job[Idle] \in Jobs
    BY DEF Working, Moving, Holding, TypeInv, PCType, IdleJobPCs, IdlePCs
  <1>2. \A c \in Clients : pc[c] = "unlinkControl" => job[c] # job[Idle]
    BY <1>1, OneHolder, Names DEF Holding
  <1>3. target \in Directories /\ (pc[Idle] \in Moving => target # "sendq")
    BY DEF TypeInv, TriesType, Moving
  <1> QED
    BY <1>1, <1>2, <1>3

LEMMA FilesCheck ==
    ASSUME TypeInv, FileInv, ClientsStay, Check
    PROVE  FileInv'
  <1> DEFINE n == job[Idle]
  <1> USE DEF FileInv
  <1>1. \A to : Goes(Idle, to) => pc'[Idle] = to
    BY Names DEF Goes, TypeInv, PCType
  <1>2. pc[Idle] = "check" /\ UNCHANGED <<fax, control, number, job>> /\ n \in Jobs
    BY DEF Check, TypeInv, PCType, IdleJobPCs, IdlePCs
  <1>3. CASE Goes(Idle, "unlock")
    BY <1>1, <1>2, <1>3, FilesFreed DEF Working, Moving
  <1>4. CASE /\ control["sendq"][n] \notin {None, Truncated} /\ fax["sendq"][n] # None
             /\ tries' = control["sendq"][n] /\ Goes(Idle, "dial")
             /\ document' = [document EXCEPT ![Idle] = fax["sendq"][n]]
    <2>1. pc'[Idle] = "dial" /\ document'[Idle] = fax["sendq"][n]
      BY <1>1, <1>4, Names DEF TypeInv, WorkType
    <2>2. FilesAreNumbered' /\ OnePlace'
      BY <1>2 DEF FilesAreNumbered, OnePlace
    <2>3. NewJob' /\ AbortsJob'
      BY <1>2 DEF NewJob, AbortsJob, ClientsStay
    <2>4. NobodyFills'
      BY <1>2, <1>4 DEF NobodyFills, NewJob, ClientsStay
    <2>5. OwnFiles'
      BY <1>2, <1>4, <2>1 DEF OwnFiles, FilesAreNumbered, Directories, Working
    <2>6. SendsItsJob'
      BY <1>2, <1>4, <2>1 DEF SendsItsJob
    <2> QED
      BY <2>2, <2>3, <2>4, <2>5, <2>6
  <1> QED
    BY <1>3, <1>4 DEF Check, Raise

(* The steps of a call leave the files alone; the call goes on, or ends in *)
(* an exception, or its result counts as a try.                            *)
LEMMA CallSteps ==
    ASSUME TypeInv, Dial \/ Send
    PROVE  /\ pc[Idle] \in {"dial", "sending"}
           /\ UNCHANGED <<config, fax, control, number, job, document, crashed>>
           /\ pc[Idle] = "dial" => attempts' = [attempts EXCEPT ![document[Idle]] = @ + 1]
           /\ pc[Idle] = "sending" => UNCHANGED attempts
           /\ \/ /\ pc'[Idle] = "unlock" /\ UNCHANGED succeeded
                 /\ uncounted' = [uncounted EXCEPT ![document[Idle]] = @ + 1]
              \/ /\ pc'[Idle] = "sending" /\ pc[Idle] = "dial" /\ tries' = tries
                 /\ UNCHANGED <<succeeded, uncounted>>
              \/ /\ pc'[Idle] = "delay" /\ tries' = tries + 1
                 /\ UNCHANGED <<succeeded, uncounted>>
              \/ /\ pc'[Idle] = "moveControl" /\ tries' = tries + 1
                 /\ target' = "failed" /\ tries + 1 >= MaxTries
                 /\ UNCHANGED <<succeeded, uncounted>>
              \/ /\ pc'[Idle] = "moveControl" /\ tries' = tries + 1 /\ target' = "done"
                 /\ succeeded' = [succeeded EXCEPT ![document[Idle]] = @ + 1]
                 /\ UNCHANGED uncounted
  <1>1. \A to : Goes(Idle, to) => pc'[Idle] = to
    BY Names DEF Goes, TypeInv, PCType
  <1>2. /\ pc[Idle] \in {"dial", "sending"}
        /\ UNCHANGED <<config, fax, control, number, job, document, crashed>>
        /\ pc[Idle] = "dial" => attempts' = [attempts EXCEPT ![document[Idle]] = @ + 1]
        /\ pc[Idle] = "sending" => UNCHANGED attempts
    BY DEF Dial, Send
  <1>3. CASE Result(TRUE)
    BY <1>1, <1>2, <1>3 DEF Result, Evaluate
  <1>4. CASE Result(FALSE)
    BY <1>1, <1>2, <1>4 DEF Result, Evaluate
  <1>5. CASE RaiseUncounted
    BY <1>1, <1>2, <1>5 DEF RaiseUncounted, Raise
  <1>6. CASE /\ Goes(Idle, "sending") /\ pc[Idle] = "dial"
             /\ UNCHANGED <<tries, succeeded, uncounted>>
    BY <1>1, <1>2, <1>6
  <1> QED
    BY <1>3, <1>4, <1>5, <1>6 DEF Dial, Send

LEMMA FilesCall ==
    ASSUME TypeInv, FileInv, ClientsStay, Dial \/ Send
    PROVE  FileInv'
  <1> USE DEF FileInv
  <1>1. /\ pc[Idle] \in {"dial", "sending"}
        /\ UNCHANGED <<fax, control, number, job, document>>
        /\ \/ pc'[Idle] = "unlock"
           \/ pc'[Idle] = "sending" /\ pc[Idle] = "dial" /\ tries' = tries
           \/ pc'[Idle] \in {"moveControl", "delay"} /\ tries' = tries + 1
    BY CallSteps
  <1>2. CASE pc'[Idle] = "unlock"
    BY <1>1, <1>2, FilesFreed DEF Working, Moving
  <1>3. CASE pc'[Idle] \in {"sending", "moveControl", "delay"}
    <2>1. FilesAreNumbered' /\ OnePlace'
      BY <1>1 DEF FilesAreNumbered, OnePlace
    <2>2. NewJob' /\ AbortsJob'
      BY <1>1 DEF NewJob, AbortsJob, ClientsStay
    <2>3. NobodyFills'
      BY <1>1, <1>3 DEF NobodyFills, ClientsStay, Working
    <2>4. OwnFiles'
      BY <1>1, <1>3 DEF OwnFiles, Working
    <2>5. tries' = tries + 1 => tries' - 1 = tries
      BY DEF TypeInv, TriesType
    <2>6. SendsItsJob'
      BY <1>1, <1>3, <2>5 DEF SendsItsJob
    <2> QED
      BY <2>1, <2>2, <2>3, <2>4, <2>6
  <1> QED
    BY <1>1, <1>2, <1>3

LEMMA FilesMoveControl ==
    ASSUME TypeInv, LockInv, FileInv, ClientsStay, MoveControl
    PROVE  FileInv'
  <1> DEFINE n == job[Idle]
  <1> USE DEF FileInv
  <1>1. \A to : Goes(Idle, to) => pc'[Idle] = to
    BY Names DEF Goes, TypeInv, PCType
  <1>2. pc[Idle] = "moveControl" /\ UNCHANGED <<fax, number, job, document, target>>
    BY DEF MoveControl
  <1>3. n \in Jobs /\ target \in Directories \ {"sendq"}
    BY <1>2, IdleWorks DEF Working, TypeInv, TriesType
  <1>4. control["sendq"][n] \notin {None, Truncated}
    BY <1>2 DEF OwnFiles, Working
  <1>5. /\ control' = [control EXCEPT ![target][n] = control["sendq"][n], !["sendq"][n] = None]
        /\ pc'[Idle] = "moveFax"
    BY <1>1, <1>2, <1>4 DEF MoveControl
  <1>6. /\ control'[target][n] = control["sendq"][n] /\ control'["sendq"][n] = None
        /\ \A q \in Directories, m \in Jobs :
              m # n \/ q \notin {target, "sendq"} => control'[q][m] = control[q][m]
    BY <1>3, <1>5 DEF TypeInv, ControlType, Directories
  <1>7. \A q \in Directories : control'[q][n] # None => q = target
    BY <1>3, <1>4, <1>6 DEF OnePlace, Directories
  <1>8. FilesAreNumbered'
    <2> SUFFICES ASSUME NEW q \in Directories, NEW m \in Jobs, control'[q][m] # None
                 PROVE  \E d \in Documents : number[d] = m
      BY <1>2 DEF FilesAreNumbered
    <2> QED
      BY <1>3, <1>4, <1>6 DEF FilesAreNumbered, Directories
  <1>9. OnePlace'
    BY <1>6, <1>7 DEF OnePlace
  <1>10. NewJob'
    <2> SUFFICES ASSUME NEW c \in Clients,
                        \/ document[c] # None /\ pc[c] \in NewPCs
                        \/ pc[c] = "fill"
                 PROVE  /\ pc[c] \in NewPCs => \A q \in Directories : control'[q][job[c]] = None
                        /\ pc[c] = "fill" => control'["sendq"][job[c]] = Truncated
      BY DEF NewJob, NewPCs, ClientsStay
    <2>1. job[c] # n /\ job[c] \in Jobs
      BY <1>2, NotIdles DEF Working, TypeInv, PCType, ClientJobPCs, NewPCs
    <2> QED
      BY <1>6, <2>1 DEF NewJob, NewPCs, Directories
  <1>11. AbortsJob'
    <2> SUFFICES ASSUME NEW c \in Clients, pc[c] = "unlinkControl"
                 PROVE  control'["sendq"][job[c]] \notin {None, Truncated}
      BY DEF AbortsJob, ClientsStay
    <2>1. job[c] # n /\ job[c] \in Jobs
      BY <1>2, IdleWorks DEF Working, TypeInv, PCType, ClientJobPCs
    <2> QED
      BY <1>6, <2>1 DEF AbortsJob, Directories
  <1>12. NobodyFills' /\ OwnFiles' /\ SendsItsJob'
    BY <1>2, <1>4, <1>5, <1>6 DEF NobodyFills, OwnFiles, SendsItsJob, Working
  <1> QED
    BY <1>8, <1>9, <1>10, <1>11, <1>12

LEMMA FilesMoveFax ==
    ASSUME TypeInv, LockInv, FileInv, ClientsStay, MoveFax
    PROVE  FileInv'
  <1> DEFINE n == job[Idle]
  <1> USE DEF FileInv
  <1>1. \A to : Goes(Idle, to) => pc'[Idle] = to
    BY Names DEF Goes, TypeInv, PCType
  <1>2. pc[Idle] = "moveFax" /\ UNCHANGED <<control, number, job, document, target>>
    BY DEF MoveFax
  <1>3. n \in Jobs /\ target \in Directories \ {"sendq"}
    BY <1>2, IdleWorks DEF Moving
  <1>4. CASE UNCHANGED fax /\ pc'[Idle] = "unlock"
    BY <1>2, <1>4, FilesFreed DEF Working, Moving
  <1>5. CASE /\ fax["sendq"][n] # None /\ pc'[Idle] = "rewrite"
             /\ fax' = [fax EXCEPT ![target][n] = fax["sendq"][n], !["sendq"][n] = None]
    <2>1. /\ fax'[target][n] = fax["sendq"][n] /\ fax'["sendq"][n] = None
          /\ \A q \in Directories, m \in Jobs :
                m # n \/ q \notin {target, "sendq"} => fax'[q][m] = fax[q][m]
      BY <1>3, <1>5 DEF TypeInv, FaxType, Directories
    <2>2. FilesAreNumbered' /\ OnePlace'
      BY <1>2, <1>3, <2>1 DEF FilesAreNumbered, OnePlace, Directories
    <2>3. NewJob' /\ AbortsJob'
      BY <1>2 DEF NewJob, AbortsJob, ClientsStay
    <2>4. NobodyFills' /\ OwnFiles' /\ SendsItsJob'
      BY <1>2, <1>5 DEF NobodyFills, OwnFiles, SendsItsJob, Working
    <2> QED
      BY <2>2, <2>3, <2>4
  <1> QED
    BY <1>1, <1>4, <1>5 DEF MoveFax, Raise

(* A control file is rewritten in its place.                               *)
LEMMA FilesRewritten ==
    ASSUME TypeInv, LockInv, FileInv, ClientsStay, UNCHANGED <<fax, number>>,
           pc[Idle] \in Working \cup Moving,
           NEW q \in Directories, q # "sendq" \/ pc[Idle] \in Working,
           NEW what, what # None, control[q][job[Idle]] # None,
           control' = [control EXCEPT ![q][job[Idle]] = what]
    PROVE  /\ FilesAreNumbered' /\ OnePlace' /\ NewJob' /\ AbortsJob'
           /\ control'[q][job[Idle]] = what
  <1> DEFINE n == job[Idle]
  <1> USE DEF FileInv
  <1>1. n \in Jobs
    BY IdleWorks
  <1>2. /\ control'[q][n] = what
        /\ \A r \in Directories, m \in Jobs : r # q \/ m # n => control'[r][m] = control[r][m]
    BY <1>1 DEF TypeInv, ControlType
  <1>3. FilesAreNumbered'
    <2> SUFFICES ASSUME NEW r \in Directories, NEW m \in Jobs, control'[r][m] # None
                 PROVE  \E d \in Documents : number[d] = m
      BY DEF FilesAreNumbered
    <2>1. control[r][m] # None
      BY <1>2
    <2> QED
      BY <2>1 DEF FilesAreNumbered
  <1>4. OnePlace'
    <2>1. \A r \in Directories, m \in Jobs : control'[r][m] # None => control[r][m] # None
      BY <1>2
    <2> QED
      BY <2>1 DEF OnePlace
  <1>5. NewJob'
    <2> SUFFICES ASSUME NEW c \in Clients,
                        \/ document[c] # None /\ pc[c] \in NewPCs
                        \/ pc[c] = "fill"
                 PROVE  /\ pc[c] \in NewPCs => \A r \in Directories : control'[r][job[c]] = None
                        /\ pc[c] = "fill" => control'["sendq"][job[c]] = Truncated
      BY DEF NewJob, NewPCs, ClientsStay
    <2>1. job[c] \in Jobs
      BY DEF TypeInv, PCType, ClientJobPCs, NewPCs
    <2>2. CASE pc[Idle] \in Working
      BY <1>2, <2>1, <2>2, NotIdles DEF NewJob, NewPCs, Directories
    <2>3. CASE q # "sendq" /\ pc[c] = "fill"
      BY <1>2, <2>1, <2>3 DEF NewJob, NewPCs, Directories
    <2>4. CASE document[c] # None /\ pc[c] \in NewPCs
      <3>1. \A r \in Directories : control[r][job[c]] = None
        BY <2>4 DEF NewJob, NewPCs
      <3> QED
        BY <1>2, <2>1, <2>4, <3>1 DEF NewPCs
    <2> QED
      BY <2>2, <2>3, <2>4
  <1>6. AbortsJob'
    <2> SUFFICES ASSUME NEW c \in Clients, pc[c] = "unlinkControl"
                 PROVE  control'["sendq"][job[c]] \notin {None, Truncated}
      BY DEF AbortsJob, ClientsStay
    <2>1. job[c] # n /\ job[c] \in Jobs
      BY IdleWorks DEF TypeInv, PCType, ClientJobPCs
    <2> QED
      BY <1>2, <2>1 DEF AbortsJob, Directories
  <1> QED
    BY <1>2, <1>3, <1>4, <1>5, <1>6

LEMMA FilesRewrite ==
    ASSUME TypeInv, LockInv, FileInv, ClientsStay, Rewrite \/ Refill
    PROVE  FileInv'
  <1> DEFINE what == IF pc[Idle] = "rewrite" THEN Truncated ELSE tries
  <1> USE DEF FileInv
  <1>1. /\ pc[Idle] \in {"rewrite", "refill"} /\ pc'[Idle] \in {"refill", "mail"}
        /\ UNCHANGED <<fax, number, job, target>>
        /\ control' = [control EXCEPT ![target][job[Idle]] = what]
    BY Names DEF Rewrite, Refill, Moves, Goes, TypeInv, PCType
  <1>2. what # None /\ target \in Directories /\ target # "sendq"
    BY <1>1, IdleWorks, QueueAssumption DEF Moving, TypeInv, TriesType
  <1>3. control[target][job[Idle]] # None
    BY <1>1 DEF OwnFiles
  <1> HIDE DEF what
  <1>4. /\ FilesAreNumbered' /\ OnePlace' /\ NewJob' /\ AbortsJob'
        /\ control'[target][job[Idle]] = what
    BY <1>1, <1>2, <1>3, FilesRewritten DEF Moving
  <1>5. NobodyFills' /\ OwnFiles' /\ SendsItsJob'
    BY <1>1, <1>2, <1>4 DEF NobodyFills, OwnFiles, SendsItsJob, Working
  <1> QED
    BY <1>4, <1>5

LEMMA FilesDelay ==
    ASSUME TypeInv, LockInv, FileInv, ClientsStay, Delay \/ Delayed
    PROVE  FileInv'
  <1> DEFINE what == IF pc[Idle] = "delay" THEN Truncated ELSE tries
             to == IF pc[Idle] = "delay" THEN "delayed" ELSE "unlock"
  <1> USE DEF FileInv
  <1>1. /\ pc[Idle] \in {"delay", "delayed"} /\ pc'[Idle] = to
        /\ UNCHANGED <<fax, number, job, document, target>>
        /\ control' = [control EXCEPT !["sendq"][job[Idle]] = what]
    BY Names DEF Delay, Delayed, Moves, Goes, TypeInv, PCType
  <1>2. what # None /\ "sendq" \in Directories
    BY QueueAssumption DEF TypeInv, TriesType, Directories
  <1>3. control["sendq"][job[Idle]] # None
    BY <1>1, QueueAssumption DEF OwnFiles, Working
  <1>4. pc[Idle] \in Working
    BY <1>1 DEF Working
  <1>5. pc[Idle] = "delay" => what = Truncated
    OBVIOUS
  <1> HIDE DEF what
  <1>6. /\ FilesAreNumbered' /\ OnePlace' /\ NewJob' /\ AbortsJob'
        /\ control'["sendq"][job[Idle]] = what
    BY <1>1, <1>2, <1>3, <1>4, FilesRewritten
  <1>7. NobodyFills'
    BY <1>1, <1>4 DEF NobodyFills, ClientsStay
  <1>8. OwnFiles' /\ SendsItsJob'
    BY <1>1, <1>4, <1>5, <1>6 DEF OwnFiles, SendsItsJob, Working
  <1> QED
    BY <1>6, <1>7, <1>8

LEMMA FilesIdle ==
    ASSUME TypeInv, LockInv, FileInv, IdleNext \/ Crash(Idle)
    PROVE  FileInv'
  <1>1. ClientsStay /\ UNCHANGED number
    BY IdleStays
  <1>2. \A to : Goes(Idle, to) => pc'[Idle] = to
    BY Names DEF Goes, TypeInv, PCType
  <1>3. CASE StartRound \/ Disable \/ EndRound \/ (\E n \in Jobs : NextJob(n)) \/ TryLock
    BY <1>1, <1>2, <1>3, FilesFreed
      DEF StartRound, Disable, EndRound, NextJob, TryLock, Moves, Working, Moving
  <1>4. CASE Mail \/ Unlock(Idle) \/ UnlinkIdle \/ Crash(Idle)
    BY <1>1, <1>2, <1>4, FilesFreed
      DEF Mail, Unlock, UnlinkIdle, Crash, Raise, Moves, Working, Moving
  <1>5. CASE Check \/ Dial \/ Send
    BY <1>1, <1>5, FilesCheck, FilesCall
  <1>6. CASE MoveControl \/ MoveFax \/ Rewrite \/ Refill \/ Delay \/ Delayed
    BY <1>1, <1>6, FilesMoveControl, FilesMoveFax, FilesRewrite, FilesDelay
  <1> QED
    BY <1>3, <1>4, <1>5, <1>6 DEF IdleNext

LEMMA FilesStay ==
    ASSUME FileInv, UNCHANGED <<fax, control, number, workVars, tries, target>>
    PROVE  FileInv'
  BY DEF FileInv, FilesAreNumbered, OnePlace, NewJob, AbortsJob, NobodyFills, OwnFiles,
         SendsItsJob

LEMMA FileNext ==
    TypeInv /\ LockInv /\ NumberInv /\ FileInv /\ [QueueNext]_vars => FileInv'
  <1> SUFFICES ASSUME TypeInv, LockInv, NumberInv, FileInv, [QueueNext]_vars
               PROVE  FileInv'
    OBVIOUS
  <1>1. ASSUME NEW c \in config.clients, ClientNext(c) PROVE FileInv'
    <2>1. c \in Clients
      BY QueueAssumption DEF TypeInv, ScriptType
    <2> QED
      BY <1>1, <2>1, FilesClient
  <1>2. CASE IdleNext \/ Crash(Idle)
    BY <1>2, FilesIdle
  <1>3. ASSUME NEW c \in Clients, Crash(c) PROVE FileInv'
    BY <1>3, FilesClient
  <1>4. CASE UNCHANGED vars \/ (\E n \in Jobs : StartTime(n)) \/ Break \/ Repair \/ Hangup
    BY <1>4, OutsideStays, FilesStay
  <1> QED
    BY <1>1, <1>2, <1>3, <1>4 DEF QueueNext, Processes

LEMMA FileInit == QueueInit => FileInv
  <1> SUFFICES ASSUME QueueInit PROVE FileInv
    OBVIOUS
  <1>1. \A c \in Clients : pc[c] = "free"
    BY Names DEF QueueInit
  <1>2. \A q \in Directories, n \in Jobs : fax[q][n] = None /\ control[q][n] = None
    BY DEF QueueInit
  <1>3. pc[Idle] = "sleep"
    BY Names DEF QueueInit
  <1>4. FilesAreNumbered /\ OnePlace
    BY <1>2 DEF FilesAreNumbered, OnePlace
  <1>5. NewJob /\ AbortsJob
    BY <1>1 DEF NewJob, AbortsJob
  <1>6. NobodyFills /\ OwnFiles /\ SendsItsJob
    BY <1>3 DEF NobodyFills, OwnFiles, SendsItsJob, Working
  <1> QED
    BY <1>4, <1>5, <1>6 DEF FileInv

-----------------------------------------------------------------------------
(* The calls.                                                              *)

(* The tries a control file of the queue holds.                            *)
LEMMA TriesHeld ==
    ASSUME TypeInv
    PROVE  /\ \A n \in Jobs : control["sendq"][n] \notin {None, Truncated} =>
                                  control["sendq"][n] \in Nat
           /\ \A d \in Documents : /\ attempts[d] \in Nat /\ succeeded[d] \in Nat
                                   /\ uncounted[d] \in Nat
                                   /\ number[d] # 0 => number[d] \in Jobs
           /\ crashed \in Nat /\ tries \in Nat /\ MaxTries \in Nat
  BY QueueAssumption
    DEF TypeInv, ControlType, Descriptions, CountType, TriesType, Directories

(* The document that the idle script works on is the only one of its job.  *)
LEMMA ItsDocument ==
    ASSUME TypeInv, NumberInv, FileInv, pc[Idle] \in Working
    PROVE  /\ document[Idle] \in Documents /\ number[document[Idle]] = job[Idle]
           /\ job[Idle] \in Jobs /\ job[Idle] # 0
           /\ \A d \in Documents : number[d] = job[Idle] => d = document[Idle]
  <1>1. document[Idle] \in Documents /\ number[document[Idle]] = job[Idle]
    BY Names DEF FileInv, OwnFiles, TypeInv, WorkType
  <1>2. job[Idle] \in Jobs /\ job[Idle] # 0
    BY DEF TypeInv, PCType, Working, IdleJobPCs, IdlePCs, Jobs
  <1> QED
    BY <1>1, <1>2 DEF NumberInv, NumbersDiffer

(* No call begins or ends; a control file is as it was, or new.            *)
LEMMA CallsKept ==
    ASSUME TypeInv, NumberInv, FileInv, CallInv, crashed' \in Nat, crashed' >= crashed,
           UNCHANGED <<attempts, succeeded, uncounted>>, IdleStay, NewIsUntried',
           \A d \in Documents :
              /\ number'[d] # 0
              /\ control'["sendq"][number'[d]] \notin {None, Truncated}
              => /\ number'[d] = number[d]
                 /\ \/ control'["sendq"][number[d]] = control["sendq"][number[d]]
                    \/ control'["sendq"][number[d]] = 0 /\ attempts[d] = 0
    PROVE  CallInv'
  <1> USE TriesHeld DEF CallInv
  <1>1. TriesAreCounted'
    <2> SUFFICES ASSUME NEW d \in Documents, number'[d] # 0,
                        control'["sendq"][number'[d]] \notin {None, Truncated},
                        ~(pc[Idle] \in InDoubt /\ job[Idle] = number'[d])
                 PROVE  /\ control'["sendq"][number'[d]] <= attempts[d]
                        /\ attempts[d] <= control'["sendq"][number'[d]] + crashed' + uncounted[d]
                        /\ succeeded[d] <= crashed'
      BY DEF TriesAreCounted, IdleStay
    <2>1. number'[d] = number[d]
      OBVIOUS
    <2>2. CASE control'["sendq"][number[d]] = control["sendq"][number[d]]
      BY <2>1, <2>2 DEF TriesAreCounted
    <2>3. CASE control'["sendq"][number[d]] = 0 /\ attempts[d] = 0
      BY <2>1, <2>3 DEF SuccessWasTried
    <2> QED
      BY <2>1, <2>2, <2>3
  <1>2. CallIsCounted'
    <2>1. pc[Idle] \in {"sending", "moveControl", "delay", "delayed"} =>
             /\ attempts[document[Idle]] \in Nat /\ succeeded[document[Idle]] \in Nat
             /\ uncounted[document[Idle]] \in Nat
      BY ItsDocument DEF Working
    <2> QED
      BY <2>1 DEF CallIsCounted, IdleStay
  <1>3. SuccessWasTried' /\ TriesAreLimited' /\ SentOnce'
    BY DEF SuccessWasTried, TriesAreLimited, SentOnce
  <1> QED
    BY <1>1, <1>2, <1>3

(* The idle script is not within a call.                                   *)
LEMMA CallsFreed ==
    ASSUME CallInv, ClientsStay, UNCHANGED <<number, attempts, succeeded, uncounted, crashed>>,
           pc'[Idle] \notin InDoubt \cup {"delayed"},
           \A d \in Documents :
              number[d] # 0 /\ control'["sendq"][number[d]] \notin {None, Truncated} =>
                 /\ control'["sendq"][number[d]] = control["sendq"][number[d]]
                 /\ ~(pc[Idle] \in InDoubt /\ job[Idle] = number[d])
    PROVE  CallInv'
  <1> USE DEF CallInv, ClientsStay
  <1>1. NewIsUntried'
    BY DEF NewIsUntried
  <1>2. TriesAreCounted'
    BY DEF TriesAreCounted
  <1>3. CallIsCounted'
    BY DEF CallIsCounted, InDoubt
  <1>4. SuccessWasTried' /\ TriesAreLimited' /\ SentOnce'
    BY DEF SuccessWasTried, TriesAreLimited, SentOnce
  <1> QED
    BY <1>1, <1>2, <1>3, <1>4

LEMMA CallsClient ==
    ASSUME TypeInv, NumberInv, FileInv, FileInv', CallInv, NEW c \in Clients,
           ClientNext(c) \/ Crash(c)
    PROVE  CallInv'
  <1>1. /\ IdleStay /\ UNCHANGED <<config, attempts, succeeded, uncounted>>
        /\ \A k \in Clients \ {c} :
              pc'[k] = pc[k] /\ job'[k] = job[k] /\ document'[k] = document[k]
    BY ClientStays
  <1>2. \A to : Goes(c, to) => pc'[c] = to
    BY Names DEF Goes, TypeInv, PCType
  <1>3. crashed' \in Nat /\ crashed' >= crashed
    <2>1. CASE Crash(c)
      BY <2>1, TriesHeld DEF Crash
    <2>2. CASE ClientNext(c)
      BY <2>2, TriesHeld, Names
        DEF ClientNext, Enqueue, AskNumber, ReadCounter, OpenCounter, WriteCounter, UnlockQueue,
            UnlinkQueue, Convert, Describe, Fill, Protect, Abort, TryAbort, UnlinkFax,
            UnlinkControl, Unlock, Unlink
    <2> QED
      BY <2>1, <2>2
  <1> USE DEF CallInv
  <1>4. CASE OpenCounter(c)
    <2> DEFINE d == document[c]
    <2>1. /\ pc[c] = "openCounter" /\ pc'[c] = "count" /\ UNCHANGED <<control, job, document>>
          /\ number' = [number EXCEPT ![d] = job[c]] /\ d \in Documents /\ d # None
      BY <1>2, <1>4, Names
        DEF OpenCounter, Moves, TypeInv, WorkType, NumberInv, ClientDocument
    <2>2. number'[d] = job[c] /\ \A e \in Documents \ {d} : number'[e] = number[e]
      BY <2>1 DEF TypeInv, CountType
    <2>3. attempts[d] = 0
      BY <2>1 DEF NewIsUntried
    <2>4. control["sendq"][job[c]] = None
      BY <2>1 DEF FileInv, NewJob, Directories
    <2>5. NewIsUntried'
      BY <1>1, <2>1, <2>2, <2>3 DEF NewIsUntried
    <2> QED
      BY <1>1, <1>3, <2>1, <2>2, <2>4, <2>5, CallsKept
  <1>5. CASE Fill(c)
    <2> DEFINE n == job[c]
    <2>1. /\ pc'[c] = "protect" /\ UNCHANGED <<number, job, document>>
          /\ pc[c] = "fill" /\ document[c] \in Documents /\ document[c] # None
          /\ number[document[c]] = n /\ n \in Jobs
      BY <1>2, <1>5, Creating DEF Fill, Moves
    <2>2. /\ control'["sendq"][n] = 0
          /\ \A m \in Jobs \ {n} : control'["sendq"][m] = control["sendq"][m]
      BY <1>5, <2>1 DEF Fill, TypeInv, ControlType, Directories
    <2>3. attempts[document[c]] = 0 /\ \A d \in Documents : number[d] = n => d = document[c]
      BY <2>1 DEF NewIsUntried, NumberInv, NumbersDiffer, Jobs
    <2>4. NewIsUntried'
      BY <1>1, <2>1 DEF NewIsUntried
    <2>5. \A d \in Documents : number[d] # 0 /\ number[d] # n =>
             control'["sendq"][number[d]] = control["sendq"][number[d]]
      BY <2>2, TriesHeld
    <2> QED
      BY <1>1, <1>3, <2>1, <2>2, <2>3, <2>4, <2>5, CallsKept
  <1>6. CASE Describe(c) \/ UnlinkControl(c)
    <2> DEFINE n == job[c]
    <2>1. /\ pc[c] \in {"describe", "unlinkControl"} /\ pc'[c] # "protect"
          /\ UNCHANGED <<number, job, document>> /\ n \in Jobs
      BY <1>2, <1>6 DEF Describe, UnlinkControl, Moves, TypeInv, PCType, ClientJobPCs
    <2>2. /\ control'["sendq"][n] \in {None, Truncated}
          /\ \A m \in Jobs \ {n} : control'["sendq"][m] = control["sendq"][m]
      BY <1>6, <2>1 DEF Describe, UnlinkControl, TypeInv, ControlType, Directories
    <2>3. NewIsUntried'
      BY <1>1, <2>1 DEF NewIsUntried
    <2>4. \A d \in Documents : number[d] # 0 /\ number[d] # n =>
             control'["sendq"][number[d]] = control["sendq"][number[d]]
      BY <2>2, TriesHeld
    <2> QED
      BY <1>1, <1>3, <2>1, <2>2, <2>3, <2>4, CallsKept
  <1>7. CASE \E d \in Documents : Enqueue(c, d)
    <2>1. PICK d \in Documents : Enqueue(c, d)
      BY <1>7
    <2>2. /\ document'[c] = d /\ number[d] = 0 /\ UNCHANGED <<number, control>>
      BY <2>1, Names DEF Enqueue, Submitted, TypeInv, WorkType
    <2>3. NewIsUntried'
      BY <1>1, <2>2 DEF NewIsUntried
    <2> QED
      BY <1>1, <1>3, <2>2, <2>3, CallsKept
  <1>8. CASE /\ UNCHANGED <<number, control>>
             /\ \/ document'[c] = None
                \/ document'[c] = document[c] /\ pc[c] # "protect"
    <2>1. NewIsUntried'
      BY <1>1, <1>8 DEF NewIsUntried
    <2> QED
      BY <1>1, <1>3, <1>8, <2>1, CallsKept
  <1>9. CASE AskNumber(c) \/ ReadCounter(c) \/ WriteCounter(c) \/ UnlockQueue(c)
               \/ UnlinkQueue(c) \/ Convert(c) \/ Protect(c)
    <2>1. UNCHANGED <<number, control>>
      BY <1>9
        DEF AskNumber, ReadCounter, WriteCounter, UnlockQueue, UnlinkQueue, Convert, Protect
    <2>2. \/ document'[c] = None
          \/ document'[c] = document[c] /\ pc[c] # "protect"
      BY <1>9, Names
        DEF AskNumber, ReadCounter, WriteCounter, UnlockQueue, UnlinkQueue, Convert, Protect,
            Moves, EndsClient, TypeInv, WorkType
    <2> QED
      BY <1>8, <2>1, <2>2
  <1>10. CASE (\E n \in Jobs : Abort(c, n)) \/ TryAbort(c) \/ UnlinkFax(c) \/ Unlock(c)
               \/ Unlink(c) \/ Crash(c)
    <2>1. UNCHANGED <<number, control>>
      BY <1>10 DEF Abort, TryAbort, UnlinkFax, Unlock, Unlink, Crash
    <2>2. \/ document'[c] = None
          \/ document'[c] = document[c] /\ pc[c] # "protect"
      BY <1>10, Names
        DEF Abort, TryAbort, UnlinkFax, Unlock, Unlink, Crash, Moves, EndsClient, TypeInv,
            WorkType
    <2> QED
      BY <1>8, <2>1, <2>2
  <1> QED
    BY <1>4, <1>5, <1>6, <1>7, <1>9, <1>10 DEF ClientNext

(* Before a document is called, its job has left its client's hands.       *)
LEMMA CalledIsNew ==
    ASSUME TypeInv, NumberInv, FileInv, NEW c \in Clients, document[c] # None,
           pc[c] # "protect", pc[Idle] \in Working
    PROVE  document[c] # document[Idle]
  <1>1. number[document[Idle]] = job[Idle] /\ job[Idle] # 0
    BY ItsDocument
  <1>2. pc[c] \in Before \cup NewPCs \cup {"fill"}
    BY DEF Before, NewPCs, TypeInv, PCType, ClientPCs, NumberInv, ClientDocument
  <1>3. CASE pc[c] \in Before
    BY <1>1, <1>3 DEF Before, NumberInv, ClientNumber
  <1>4. CASE pc[c] \in NewPCs \cup {"fill"}
    <2>1. job[c] # job[Idle]
      BY <1>4, NotIdles
    <2> QED
      BY <1>1, <1>4, <2>1 DEF NewPCs, NumberInv, ClientNumber
  <1> QED
    BY <1>2, <1>3, <1>4

LEMMA CallsCall ==
    ASSUME TypeInv, NumberInv, FileInv, CallInv, ClientsStay, Dial \/ Send
    PROVE  CallInv'
  <1> DEFINE d == document[Idle]
  <1> USE DEF CallInv
  <1>0. pc[Idle] \in {"dial", "sending"}
    BY CallSteps
  <1>1. /\ d \in Documents /\ number[d] = job[Idle] /\ job[Idle] \in Jobs /\ job[Idle] # 0
        /\ \A e \in Documents : number[e] = job[Idle] => e = d
    BY <1>0, ItsDocument DEF Working
  <1>2. /\ d # None /\ control["sendq"][job[Idle]] = tries /\ tries \notin {None, Truncated}
    BY <1>0 DEF FileInv, SendsItsJob, OwnFiles, Working
  <1>3. UNCHANGED <<control, number, job, document, crashed>>
    BY CallSteps
  <1>4. /\ attempts[d] \in Nat /\ succeeded[d] \in Nat /\ uncounted[d] \in Nat
        /\ crashed \in Nat /\ tries \in Nat /\ MaxTries \in Nat /\ tries < MaxTries
    BY <1>0, <1>1, TriesHeld DEF TypeInv, TriesType
  <1>5. /\ attempts'[d] = IF pc[Idle] = "dial" THEN attempts[d] + 1 ELSE attempts[d]
        /\ \A e \in Documents \ {d} : attempts'[e] = attempts[e]
    BY <1>0, <1>1, CallSteps DEF TypeInv, CountType
  <1>6. /\ tries + 1 <= attempts'[d] /\ attempts'[d] <= tries + 1 + crashed + uncounted[d]
        /\ succeeded[d] <= crashed /\ succeeded[d] < attempts'[d] /\ attempts'[d] \in Nat
    <2>1. CASE pc[Idle] = "dial"
      <3>1. tries <= attempts[d] /\ attempts[d] <= tries + crashed + uncounted[d]
            /\ succeeded[d] <= crashed /\ succeeded[d] <= attempts[d]
        BY <1>1, <1>2, <2>1 DEF TriesAreCounted, InDoubt, SuccessWasTried
      <3> QED
        BY <1>4, <1>5, <2>1, <3>1
    <2>2. CASE pc[Idle] = "sending"
      BY <1>4, <1>5, <2>2 DEF CallIsCounted
    <2> QED
      BY <1>0, <2>1, <2>2
  <1>7. /\ \A e \in Documents \ {d} : succeeded'[e] = succeeded[e]
        /\ \A e \in Documents \ {d} : uncounted'[e] = uncounted[e]
    BY <1>1, CallSteps DEF TypeInv, CountType
  <1>8. \/ /\ pc'[Idle] = "unlock" /\ succeeded'[d] = succeeded[d]
           /\ uncounted'[d] = uncounted[d] + 1
        \/ /\ pc'[Idle] = "sending" /\ tries' = tries
           /\ succeeded'[d] = succeeded[d] /\ uncounted'[d] = uncounted[d]
        \/ /\ pc'[Idle] = "delay" /\ tries' = tries + 1
           /\ succeeded'[d] = succeeded[d] /\ uncounted'[d] = uncounted[d]
        \/ /\ pc'[Idle] = "moveControl" /\ tries' = tries + 1
           /\ target' = "failed" /\ tries + 1 >= MaxTries
           /\ succeeded'[d] = succeeded[d] /\ uncounted'[d] = uncounted[d]
        \/ /\ pc'[Idle] = "moveControl" /\ tries' = tries + 1 /\ target' = "done"
           /\ succeeded'[d] = succeeded[d] + 1 /\ uncounted'[d] = uncounted[d]
    BY <1>1, CallSteps DEF TypeInv, CountType
  <1>9. document'[Idle] = d
    BY <1>3
  <1>10. ASSUME NEW c \in Clients, document[c] # None, pc[c] # "protect"
         PROVE  document[c] \in Documents \ {d}
    BY <1>0, <1>2, <1>10, CalledIsNew, Names DEF TypeInv, WorkType, Working
  <1> HIDE DEF d
  <1>11. NewIsUntried'
    <2>1. \A e \in Documents : number[e] = 0 => attempts'[e] = 0
      BY <1>1, <1>5 DEF NewIsUntried
    <2>2. ASSUME NEW c \in Clients, document[c] # None, pc[c] # "protect"
          PROVE  attempts'[document[c]] = 0
      BY <1>5, <1>10, <2>2 DEF NewIsUntried
    <2> QED
      BY <1>3, <2>1, <2>2 DEF NewIsUntried, ClientsStay
  <1>12. TriesAreCounted'
    <2> SUFFICES ASSUME NEW e \in Documents, number[e] # 0,
                        control["sendq"][number[e]] \notin {None, Truncated},
                        ~(pc'[Idle] \in InDoubt /\ job[Idle] = number[e])
                 PROVE  /\ control["sendq"][number[e]] <= attempts'[e]
                        /\ attempts'[e] <= control["sendq"][number[e]] + crashed + uncounted'[e]
                        /\ succeeded'[e] <= crashed
      BY <1>3 DEF TriesAreCounted
    <2>1. CASE e = d
      <3>1. pc'[Idle] \notin InDoubt /\ control["sendq"][number[e]] = tries
        BY <1>1, <1>2, <2>1
      <3>2. succeeded'[d] = succeeded[d] /\ uncounted'[d] = uncounted[d] + 1
        BY <1>8, <3>1 DEF InDoubt
      <3> QED
        BY <1>4, <1>6, <2>1, <3>1, <3>2
    <2>2. CASE e # d
      BY <1>1, <1>5, <1>7, <2>2 DEF TriesAreCounted
    <2> QED
      BY <2>1, <2>2
  <1>13. CallIsCounted'
    <2> USE <1>3, <1>4, <1>6, <1>9 DEF CallIsCounted
    <2>1. CASE pc'[Idle] = "unlock"
      BY <2>1
    <2>2. CASE /\ pc'[Idle] = "sending" /\ tries' = tries
               /\ succeeded'[d] = succeeded[d] /\ uncounted'[d] = uncounted[d]
      BY <2>2
    <2>3. CASE /\ pc'[Idle] = "delay" /\ tries' = tries + 1
               /\ succeeded'[d] = succeeded[d] /\ uncounted'[d] = uncounted[d]
      BY <2>3
    <2>4. CASE /\ pc'[Idle] = "moveControl" /\ tries' = tries + 1
               /\ target' = "failed" /\ tries + 1 >= MaxTries
               /\ succeeded'[d] = succeeded[d] /\ uncounted'[d] = uncounted[d]
      BY <2>4
    <2>5. CASE /\ pc'[Idle] = "moveControl" /\ tries' = tries + 1 /\ target' = "done"
               /\ succeeded'[d] = succeeded[d] + 1 /\ uncounted'[d] = uncounted[d]
      BY <2>5
    <2> QED
      BY <1>8, <2>1, <2>2, <2>3, <2>4, <2>5
  <1>14. \A e \in Documents : /\ attempts[e] \in Nat /\ succeeded[e] \in Nat
                              /\ uncounted[e] \in Nat
    BY TriesHeld
  <1>15. /\ succeeded'[d] <= succeeded[d] + 1 /\ uncounted'[d] >= uncounted[d]
         /\ succeeded'[d] \in Nat /\ uncounted'[d] \in Nat
    BY <1>4, <1>8
  <1>16. SuccessWasTried'
    <2>1. ASSUME NEW e \in Documents PROVE succeeded'[e] <= attempts'[e]
      <3>1. CASE e = d
        BY <1>4, <1>6, <1>15, <3>1
      <3>2. CASE e # d
        BY <1>5, <1>7, <3>2 DEF SuccessWasTried
      <3> QED
        BY <3>1, <3>2
    <2> QED
      BY <2>1 DEF SuccessWasTried
  <1>17. TriesAreLimited'
    <2>1. ASSUME NEW e \in Documents PROVE attempts'[e] <= MaxTries + crashed' + uncounted'[e]
      <3>1. CASE e = d
        BY <1>3, <1>4, <1>6, <1>15, <3>1
      <3>2. CASE e # d
        BY <1>3, <1>5, <1>7, <3>2 DEF TriesAreLimited
      <3> QED
        BY <3>1, <3>2
    <2> QED
      BY <2>1 DEF TriesAreLimited
  <1>18. SentOnce'
    <2>1. ASSUME NEW e \in Documents PROVE succeeded'[e] <= 1 + crashed'
      <3>1. CASE e = d
        BY <1>3, <1>4, <1>6, <1>15, <3>1
      <3>2. CASE e # d
        BY <1>3, <1>7, <3>2 DEF SentOnce
      <3> QED
        BY <3>1, <3>2
    <2> QED
      BY <2>1 DEF SentOnce
  <1> QED
    BY <1>11, <1>12, <1>13, <1>16, <1>17, <1>18

LEMMA CallsDelay ==
    ASSUME TypeInv, NumberInv, FileInv, CallInv, ClientsStay, Delay \/ Delayed
    PROVE  CallInv'
  <1> DEFINE d == document[Idle]
             n == job[Idle]
  <1> USE DEF CallInv
  <1>1. pc[Idle] \in {"delay", "delayed"}
    BY DEF Delay, Delayed, Moves
  <1>2. /\ d \in Documents /\ number[d] = n /\ n \in Jobs /\ n # 0
        /\ \A e \in Documents : number[e] = n => e = d
    BY <1>1, ItsDocument DEF Working
  <1>3. UNCHANGED <<number, job, document, tries, attempts, succeeded, uncounted, crashed>>
    BY DEF Delay, Delayed
  <1>4. /\ tries <= attempts[d] /\ attempts[d] <= tries + crashed + uncounted[d]
        /\ succeeded[d] <= crashed
    BY <1>1 DEF CallIsCounted
  <1>5. \/ pc[Idle] = "delay" /\ pc'[Idle] = "delayed" /\ control'["sendq"][n] = Truncated
        \/ pc[Idle] = "delayed" /\ pc'[Idle] = "unlock" /\ control'["sendq"][n] = tries
    BY <1>2, Names
      DEF Delay, Delayed, Moves, Goes, TypeInv, PCType, ControlType, Directories
  <1>6. \A e \in Documents : number[e] # 0 /\ number[e] # n =>
           control'["sendq"][number[e]] = control["sendq"][number[e]]
    BY <1>2, TriesHeld DEF Delay, Delayed, TypeInv, ControlType, Directories
  <1>7. NewIsUntried'
    BY <1>3 DEF NewIsUntried, ClientsStay
  <1>8. TriesAreCounted'
    <2> SUFFICES ASSUME NEW e \in Documents, number[e] # 0,
                        control'["sendq"][number[e]] \notin {None, Truncated}
                 PROVE  /\ control'["sendq"][number[e]] <= attempts[e]
                        /\ attempts[e] <= control'["sendq"][number[e]] + crashed + uncounted[e]
                        /\ succeeded[e] <= crashed
      BY <1>3 DEF TriesAreCounted
    <2>1. CASE number[e] = n
      BY <1>2, <1>4, <1>5, <2>1
    <2>2. CASE number[e] # n
      BY <1>6, <2>2 DEF TriesAreCounted
    <2> QED
      BY <2>1, <2>2
  <1>9. CallIsCounted'
    BY <1>3, <1>4, <1>5 DEF CallIsCounted
  <1>10. SuccessWasTried' /\ TriesAreLimited' /\ SentOnce'
    BY <1>3 DEF SuccessWasTried, TriesAreLimited, SentOnce
  <1> QED
    BY <1>7, <1>8, <1>9, <1>10

(* A crash within a call loses its try, and counts for it.                 *)
LEMMA CallsCrash ==
    ASSUME TypeInv, NumberInv, FileInv, CallInv, ClientsStay, Crash(Idle)
    PROVE  CallInv'
  <1> DEFINE d == document[Idle]
             k == control["sendq"][job[Idle]]
  <1> USE DEF CallInv
  <1>1. /\ UNCHANGED <<control, number, attempts, succeeded, uncounted>>
        /\ crashed' = crashed + 1 /\ pc'[Idle] = "sleep"
    BY Names DEF Crash, Goes, TypeInv, PCType
  <1>2. NewIsUntried'
    BY <1>1 DEF NewIsUntried, ClientsStay
  <1>3. CallIsCounted'
    BY <1>1 DEF CallIsCounted
  <1>4. SuccessWasTried'
    BY <1>1 DEF SuccessWasTried
  <1>5. TriesAreLimited' /\ SentOnce'
    BY <1>1, TriesHeld DEF TriesAreLimited, SentOnce
  <1>6. ASSUME pc[Idle] \in InDoubt
        PROVE  /\ k <= attempts[d] /\ attempts[d] <= k + crashed + 1 + uncounted[d]
               /\ succeeded[d] <= crashed + 1
    <2>1. /\ d \in Documents /\ job[Idle] \in Jobs
          /\ k = IF pc[Idle] = "sending" THEN tries ELSE tries - 1
          /\ k \notin {None, Truncated}
      BY <1>6, ItsDocument DEF InDoubt, Working, FileInv, SendsItsJob, OwnFiles
    <2>2. k \in Nat /\ attempts[d] \in Nat /\ succeeded[d] \in Nat /\ crashed \in Nat
          /\ uncounted[d] \in Nat /\ tries \in Nat
      BY <2>1, TriesHeld
    <2>3. succeeded[d] <= crashed + 1
      BY <2>1, <2>2 DEF SentOnce
    <2>4. CASE pc[Idle] = "sending"
      BY <2>1, <2>2, <2>3, <2>4 DEF CallIsCounted
    <2>5. CASE pc[Idle] \in {"moveControl", "delay"}
      <3>1. tries <= attempts[d] /\ attempts[d] <= tries + crashed + uncounted[d]
        BY <2>5 DEF CallIsCounted
      <3> QED
        BY <2>1, <2>2, <2>3, <2>5, <3>1
    <2> QED
      BY <1>6, <2>4, <2>5 DEF InDoubt
  <1>7. TriesAreCounted'
    <2> SUFFICES ASSUME NEW e \in Documents, number[e] # 0,
                        control["sendq"][number[e]] \notin {None, Truncated}
                 PROVE  /\ control["sendq"][number[e]] <= attempts[e]
                        /\ attempts[e] <= control["sendq"][number[e]] + (crashed + 1) + uncounted[e]
                        /\ succeeded[e] <= crashed + 1
      BY <1>1 DEF TriesAreCounted
    <2>1. /\ control["sendq"][number[e]] \in Nat /\ attempts[e] \in Nat /\ succeeded[e] \in Nat
          /\ uncounted[e] \in Nat /\ crashed \in Nat
      BY TriesHeld
    <2>2. CASE pc[Idle] \in InDoubt /\ job[Idle] = number[e]
      <3>1. e = d
        BY <2>2, ItsDocument DEF InDoubt, Working
      <3> QED
        BY <1>6, <2>1, <2>2, <3>1
    <2>3. CASE ~(pc[Idle] \in InDoubt /\ job[Idle] = number[e])
      BY <2>1, <2>3 DEF TriesAreCounted
    <2> QED
      BY <2>2, <2>3
  <1> QED
    BY <1>2, <1>3, <1>4, <1>5, <1>7

LEMMA CallsIdle ==
    ASSUME TypeInv, LockInv, NumberInv, FileInv, CallInv, IdleNext \/ Crash(Idle)
    PROVE  CallInv'
  <1>1. ClientsStay /\ UNCHANGED number
    BY IdleStays
  <1>2. \A to : Goes(Idle, to) => pc'[Idle] = to
    BY Names DEF Goes, TypeInv, PCType
  <1>3. \A e \in Documents : number[e] # 0 => number[e] \in Jobs
    BY TriesHeld
  <1>4. CASE StartRound \/ Disable \/ EndRound \/ (\E n \in Jobs : NextJob(n)) \/ TryLock
    <2>1. UNCHANGED <<control, attempts, succeeded, uncounted, crashed>> /\ pc[Idle] \notin InDoubt
      BY <1>4 DEF StartRound, Disable, EndRound, NextJob, TryLock, Moves, InDoubt
    <2>2. pc'[Idle] \notin InDoubt \cup {"delayed"}
      BY <1>2, <1>4 DEF StartRound, Disable, EndRound, NextJob, TryLock, Moves, InDoubt
    <2> QED
      BY <1>1, <2>1, <2>2, CallsFreed
  <1>5. CASE Check \/ MoveFax \/ Mail \/ Unlock(Idle) \/ UnlinkIdle
    <2>1. UNCHANGED <<control, attempts, succeeded, uncounted, crashed>> /\ pc[Idle] \notin InDoubt
      BY <1>5 DEF Check, MoveFax, Mail, Unlock, UnlinkIdle, Moves, InDoubt
    <2>2. pc'[Idle] \notin InDoubt \cup {"delayed"}
      BY <1>2, <1>5 DEF Check, MoveFax, Mail, Unlock, UnlinkIdle, Moves, Raise, InDoubt
    <2> QED
      BY <1>1, <2>1, <2>2, CallsFreed
  <1>6. CASE Rewrite \/ Refill
    <2>1. pc[Idle] \in {"rewrite", "refill"}
      BY <1>6 DEF Rewrite, Refill, Moves
    <2>2. target \in Directories /\ target # "sendq"
      BY <2>1, IdleWorks DEF Moving
    <2>3. \A n \in Jobs : control'["sendq"][n] = control["sendq"][n]
      BY <1>6, <2>2 DEF Rewrite, Refill, TypeInv, ControlType, Directories
    <2>4. UNCHANGED <<attempts, succeeded, uncounted, crashed>> /\ pc'[Idle] \notin InDoubt \cup {"delayed"}
      BY <1>2, <1>6 DEF Rewrite, Refill, Moves, InDoubt
    <2> QED
      BY <1>1, <1>3, <2>1, <2>3, <2>4, CallsFreed DEF InDoubt
  <1>7. CASE MoveControl
    <2> DEFINE n == job[Idle]
    <2>1. pc[Idle] = "moveControl" /\ UNCHANGED <<attempts, succeeded, uncounted, crashed>>
      BY <1>7 DEF MoveControl
    <2>2. control["sendq"][n] \notin {None, Truncated} /\ n \in Jobs
      BY <2>1, IdleWorks DEF FileInv, OwnFiles, Working
    <2>3. /\ control' = [control EXCEPT ![target][n] = control["sendq"][n], !["sendq"][n] = None]
          /\ pc'[Idle] = "moveFax"
      BY <1>2, <1>7, <2>2 DEF MoveControl
    <2>4. target \in Directories \ {"sendq"}
      BY <2>1 DEF TypeInv, TriesType
    <2>5. /\ control'["sendq"][n] = None
          /\ \A m \in Jobs \ {n} : control'["sendq"][m] = control["sendq"][m]
      BY <2>2, <2>3, <2>4 DEF TypeInv, ControlType, Directories
    <2> QED
      BY <1>1, <1>3, <2>1, <2>3, <2>5, CallsFreed DEF InDoubt
  <1>8. CASE Dial \/ Send \/ Delay \/ Delayed \/ Crash(Idle)
    BY <1>1, <1>8, CallsCall, CallsDelay, CallsCrash
  <1> QED
    BY <1>4, <1>5, <1>6, <1>7, <1>8 DEF IdleNext

LEMMA CallsStay ==
    ASSUME CallInv, UNCHANGED <<control, number, workVars, tries, target, countVars>>
    PROVE  CallInv'
  BY DEF CallInv, NewIsUntried, TriesAreCounted, CallIsCounted, SuccessWasTried,
         TriesAreLimited, SentOnce

LEMMA CallNext ==
    TypeInv /\ LockInv /\ NumberInv /\ FileInv /\ FileInv' /\ CallInv /\ [QueueNext]_vars
      => CallInv'
  <1> SUFFICES ASSUME TypeInv, LockInv, NumberInv, FileInv, FileInv', CallInv,
                      [QueueNext]_vars
               PROVE  CallInv'
    OBVIOUS
  <1>1. ASSUME NEW c \in config.clients, ClientNext(c) PROVE CallInv'
    <2>1. c \in Clients
      BY QueueAssumption DEF TypeInv, ScriptType
    <2> QED
      BY <1>1, <2>1, CallsClient
  <1>2. CASE IdleNext \/ Crash(Idle)
    BY <1>2, CallsIdle
  <1>3. ASSUME NEW c \in Clients, Crash(c) PROVE CallInv'
    BY <1>3, CallsClient
  <1>4. CASE UNCHANGED vars \/ (\E n \in Jobs : StartTime(n)) \/ Break \/ Repair \/ Hangup
    BY <1>4, OutsideStays, CallsStay
  <1> QED
    BY <1>1, <1>2, <1>3, <1>4 DEF QueueNext, Processes

LEMMA CallInit == QueueInit => CallInv
  <1> SUFFICES ASSUME QueueInit PROVE CallInv
    OBVIOUS
  <1>1. /\ \A c \in Clients : document[c] = None
        /\ pc[Idle] = "sleep" /\ crashed = 0 /\ MaxTries \in Nat
    BY Names, QueueAssumption DEF QueueInit
  <1>2. \A d \in Documents : /\ attempts[d] = 0 /\ succeeded[d] = 0
                             /\ uncounted[d] = 0 /\ number[d] = 0
    BY DEF QueueInit
  <1>3. NewIsUntried /\ TriesAreCounted
    BY <1>1, <1>2 DEF NewIsUntried, TriesAreCounted
  <1>4. CallIsCounted /\ SuccessWasTried
    BY <1>1, <1>2 DEF CallIsCounted, SuccessWasTried
  <1>5. TriesAreLimited /\ SentOnce
    BY <1>1, <1>2 DEF TriesAreLimited, SentOnce
  <1> QED
    BY <1>3, <1>4, <1>5 DEF CallInv

-----------------------------------------------------------------------------
(* The inductive invariant, and what follows from it.                      *)

LEMMA ConfigStays == TypeInv /\ [QueueNext]_vars => UNCHANGED config
  <1> SUFFICES ASSUME TypeInv, [QueueNext]_vars PROVE UNCHANGED config
    OBVIOUS
  <1>1. ASSUME NEW c \in config.clients, ClientNext(c) PROVE UNCHANGED config
    <2>1. c \in Clients
      BY QueueAssumption DEF TypeInv, ScriptType
    <2> QED
      BY <1>1, <2>1, ClientStays
  <1> QED
    BY <1>1, ClientStays, IdleStays, OutsideStays DEF QueueNext, Processes

LEMMA JobNext == TypeInv /\ JobInv /\ [QueueNext]_vars => JobInv'
  BY ConfigStays, LockNext, NumberNext, FileNext, CallNext DEF JobInv

LEMMA JobInit == QueueInit => JobInv
  BY LockInit, NumberInit, FileInit, CallInit DEF JobInv

LEMMA JobAlways == Spec => []JobInv
  BY TypeAlways, JobInit, JobNext, PTL DEF Spec

(* As long as no process opens a lock file that another is about to unlink, *)
(* the files of the job that idle.py sends (scripts/idle.py) are the ones  *)
(* it has read, from the check to the end of the call and the change of    *)
(* the control file, whoever aborts jobs (fax.abortJob) or crashes.        *)
THEOREM TheJobIsSent == Spec => [](~config.overlap => SendsItsJob)
  BY JobAlways, PTL DEF JobInv, FileInv

(* uniqueName (fileutils.py) then gives every document a number of its own. *)
THEOREM NumbersAreUnique == Spec => [](~config.overlap => NumbersDiffer)
  BY JobAlways, PTL DEF JobInv, NumberInv

(* A document is then called send_tries times at most, and once more for   *)
(* each crash of a process and each call that left idle() by an exception. *)
THEOREM CallsAreLimited == Spec => [](~config.overlap => TriesAreLimited)
  BY JobAlways, PTL DEF JobInv, CallInv

(* A call that idle() takes for a success (idle.py:131) is then the last   *)
(* one for its document, but for a crash between the call and the move of  *)
(* the job; an exception after it does not bring the job back.             *)
THEOREM SuccessIsLast == Spec => [](~config.overlap => SentOnce)
  BY JobAlways, PTL DEF JobInv, CallInv
=============================================================================
