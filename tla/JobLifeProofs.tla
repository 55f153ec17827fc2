--------------------------- MODULE JobLifeProofs ---------------------------
(* The queue of faxes, whose files several processes change, keeps what    *)
(* the storage of jobs promises (module JobLife), for any number of        *)
(* clients, documents and jobs and whatever processes crash.               *)
EXTENDS FaxQueueProofs

USE DEF lockVars, fileVars, idleVars, scriptVars, workVars, countVars

(* What the place of a document depends on.                                *)
Held(d, q) == number[d] # 0 /\ control[q][number[d]] # None
InHand(d) ==
    \/ number[d] = 0
    \/ \E c \in Clients : document[c] = d /\ pc[c] \notin {"fill", "protect"}

IsPlace(d, where) ==
    /\ where \in Directories => Held(d, where)
    /\ where \in {"none", "deleted"} => \A q \in Directories : ~Held(d, q)
    /\ where = "none" => InHand(d)
    /\ where = "deleted" => ~InHand(d)

Places == Directories \cup {"none", "deleted"}

LEMMA HeldOnce ==
    ASSUME TypeInv, OnePlace, NEW d \in Documents, NEW q \in Directories, NEW r \in Directories,
           Held(d, q), Held(d, r)
    PROVE  q = r
  BY DEF Held, OnePlace, TypeInv, CountType

(* A document is in one place.                                             *)
PlaceKnown ==
    TypeInv /\ OnePlace =>
        \A d \in Documents, where \in Places : IsPlace(d, where) => Place(d) = where

LEMMA PlaceIs == PlaceKnown
  <1> SUFFICES ASSUME TypeInv, OnePlace, NEW d \in Documents, NEW where \in Places,
                      IsPlace(d, where)
               PROVE  Place(d) = where
    BY DEF PlaceKnown
  <1>1. \A q, r \in Directories : Held(d, q) /\ Held(d, r) => q = r
    BY HeldOnce
  <1>2. CASE where = "done"
    BY <1>1, <1>2 DEF IsPlace, Place, Held, Directories
  <1>3. CASE where = "failed"
    BY <1>1, <1>3 DEF IsPlace, Place, Held, Directories
  <1>4. CASE where = "sendq"
    BY <1>1, <1>4 DEF IsPlace, Place, Held, Directories
  <1>5. CASE where = "none"
    BY <1>5 DEF IsPlace, Place, Held, InHand, Directories
  <1>6. CASE where = "deleted"
    BY <1>6 DEF IsPlace, Place, Held, InHand, Directories
  <1> QED
    BY <1>2, <1>3, <1>4, <1>5, <1>6 DEF Places, Directories

LEMMA PlaceIsThen ==
    ASSUME TypeInv', OnePlace', NEW d \in Documents, NEW where \in Places, IsPlace(d, where)'
    PROVE  Place(d)' = where
  <1>1. PlaceKnown'
    BY PlaceIs, PTL
  <1> QED
    BY <1>1 DEF PlaceKnown, Places, Directories

(* A document whose files and client do not change stays in its place.     *)
LEMMA PlaceStays ==
    ASSUME TypeInv, OnePlace, TypeInv', OnePlace', NEW d \in Documents,
           \A q \in Directories : Held(d, q)' <=> Held(d, q),
           (\A q \in Directories : ~Held(d, q)) => (InHand(d)' <=> InHand(d))
    PROVE  Place(d)' = Place(d)
  <1>1. PICK where \in Places : IsPlace(d, where)
    BY DEF IsPlace, Places, Directories
  <1>2. IsPlace(d, where)'
    BY <1>1 DEF IsPlace
  <1> QED
    BY <1>1, <1>2, PlaceIs, PlaceIsThen DEF PlaceKnown

(* The steps of JobLife.                                                   *)
Stays(d) == Place(d)' = Place(d)
LifeVars == <<[d \in Documents |-> Place(d)], attempts, succeeded>>

LEMMA LifeStutters ==
    ASSUME \A d \in Documents : Stays(d), UNCHANGED <<attempts, succeeded>>
    PROVE  UNCHANGED LifeVars
  BY DEF LifeVars, Stays

LEMMA LifeMoves ==
    ASSUME NEW d \in Documents, NEW from, NEW to, Place(d) = from, Place(d)' = to,
           \A e \in Documents \ {d} : Stays(e), UNCHANGED <<attempts, succeeded>>
    PROVE  Life!Moves(d, from, to)
  BY DEF Life!Moves, Stays

Promised == [Life!JobLifeNext]_LifeVars

LEMMA KeepsPlaces ==
    ASSUME TypeInv, OnePlace, TypeInv', OnePlace', UNCHANGED <<number, attempts, succeeded>>,
           \A d \in Documents, q \in Directories : Held(d, q)' <=> Held(d, q),
           \A d \in Documents : InHand(d)' <=> InHand(d)
    PROVE  Promised
  BY PlaceStays, LifeStutters DEF Stays, Promised

(* Clients other than c keep their documents.                              *)
Has(c, d) == document[c] = d /\ pc[c] \notin {"fill", "protect"}

LEMMA HandKept ==
    ASSUME TypeInv, NEW c \in Clients, ClientNext(c) \/ Crash(c), NEW d \in Documents,
           number'[d] = number[d],
           number[d] # 0 => (Has(c, d)' <=> Has(c, d))
    PROVE  InHand(d)' <=> InHand(d)
  BY ClientStays DEF InHand, Has

(* The steps of a client that neither create a job nor delete one.         *)
LEMMA LifeQuiet ==
    ASSUME TypeInv, OnePlace, TypeInv', OnePlace', NEW c \in Clients, ClientNext(c) \/ Crash(c),
           UNCHANGED <<number, control>>,
           \A d \in Documents : number[d] # 0 => (Has(c, d)' <=> Has(c, d))
    PROVE  Promised
  <1>1. UNCHANGED <<attempts, succeeded>>
    BY ClientStays
  <1>2. \A d \in Documents, q \in Directories : Held(d, q)' <=> Held(d, q)
    BY DEF Held
  <1>3. \A d \in Documents : InHand(d)' <=> InHand(d)
    BY HandKept
  <1> QED
    BY <1>1, <1>2, <1>3, KeepsPlaces

(* A client that ends before it wrote the control file leaves a document   *)
(* whose job never was in the queue.                                       *)
LEMMA LifeEnds ==
    ASSUME TypeInv, NumberInv, FileInv, TypeInv', FileInv', NEW c \in Clients,
           ClientNext(c) \/ Crash(c), UNCHANGED <<number, control>>,
           document'[c] = None
    PROVE  Promised
  <1>1. OnePlace /\ OnePlace' /\ UNCHANGED <<attempts, succeeded>>
    BY ClientStays DEF FileInv
  <1>2. \A e \in Documents : e # document[c] => (Has(c, e)' <=> Has(c, e))
    BY QueueAssumption DEF Has
  <1>3. CASE document[c] = None \/ number[document[c]] = 0 \/ pc[c] \in {"fill", "protect"}
    <2>1. \A e \in Documents : number[e] # 0 => (Has(c, e)' <=> Has(c, e))
      BY <1>3, QueueAssumption DEF Has
    <2> QED
      BY <1>1, <2>1, LifeQuiet
  <1>4. CASE document[c] # None /\ number[document[c]] # 0 /\ pc[c] \notin {"fill", "protect"}
    <2>1. PICK d \in Documents : d = document[c]
      BY <1>4, Names DEF TypeInv, WorkType
    <2>2. pc[c] \in NewPCs /\ number[d] = job[c] /\ d # None
      BY <1>4, <2>1
        DEF NewPCs, TypeInv, PCType, ClientPCs, NumberInv, ClientDocument, ClientNumber
    <2>3. \A q \in Directories : ~Held(d, q) /\ ~Held(d, q)'
      <3>1. \A q \in Directories : control[q][job[c]] = None
        BY <1>4, <2>2 DEF FileInv, NewJob, NewPCs
      <3> QED
        BY <2>2, <3>1 DEF Held
    <2>4. InHand(d)
      BY <1>4, <2>1 DEF InHand
    <2>5. ~InHand(d)'
      <3>1. \A k \in Clients \ {c} : document'[k] # d
        BY <1>4, <2>1, ClientStays DEF NumberInv, ClientDocument
      <3>2. number'[d] # 0 /\ document'[c] # d
        BY <1>4, <2>1, <2>2
      <3> QED
        BY <3>1, <3>2 DEF InHand
    <2>6. Place(d) = "none" /\ Place(d)' = "deleted"
      <3>1. IsPlace(d, "none") /\ IsPlace(d, "deleted")'
        BY <2>3, <2>4, <2>5 DEF IsPlace, Directories
      <3> QED
        BY <1>1, <2>1, <3>1, PlaceIs, PlaceIsThen DEF PlaceKnown, Places
    <2>7. \A e \in Documents \ {d} : Stays(e)
      <3> TAKE e \in Documents \ {d}
      <3>1. InHand(e)' <=> InHand(e)
        BY <1>2, <2>1, HandKept
      <3>2. \A q \in Directories : Held(e, q)' <=> Held(e, q)
        BY DEF Held
      <3> QED
        BY <1>1, <3>1, <3>2, PlaceStays DEF Stays
    <2>8. Life!Moves(d, "none", "deleted")
      BY <1>1, <2>6, <2>7, LifeMoves
    <2> QED
      BY <2>8 DEF Promised, Life!JobLifeNext, Life!Delete
  <1> QED
    BY <1>3, <1>4

(* A document gets its number, which no file has.                          *)
LEMMA LifeOpenCounter ==
    ASSUME TypeInv, NumberInv, FileInv, TypeInv', FileInv', NEW c \in Clients, OpenCounter(c)
    PROVE  Promised
  <1>1. /\ OnePlace /\ OnePlace' /\ UNCHANGED <<attempts, succeeded>>
        /\ \A k \in Clients \ {c} : pc'[k] = pc[k] /\ document'[k] = document[k]
    BY ClientStays DEF FileInv, ClientNext
  <1>2. PICK d \in Documents : d = document[c] /\ d # None /\ number[d] = 0
    BY Names
      DEF OpenCounter, Moves, TypeInv, WorkType, NumberInv, ClientDocument, ClientNumber
  <1>3. /\ pc[c] = "openCounter" /\ pc'[c] = "count" /\ UNCHANGED <<control, document, job>>
        /\ number' = [number EXCEPT ![d] = job[c]]
    BY <1>2, Names DEF OpenCounter, Moves, Goes, TypeInv, PCType
  <1>4. number'[d] = job[c] /\ \A e \in Documents \ {d} : number'[e] = number[e]
    BY <1>3 DEF TypeInv, CountType
  <1>5. \A q \in Directories : control'[q][job[c]] = None
    BY <1>2, <1>3 DEF FileInv, NewJob
  <1>6. ASSUME NEW e \in Documents PROVE Stays(e)
    <2>1. \A q \in Directories : Held(e, q)' <=> Held(e, q)
      BY <1>2, <1>3, <1>4, <1>5 DEF Held
    <2>2. CASE e = d
      BY <1>1, <1>2, <1>3, <2>1, <2>2, PlaceStays DEF InHand, Stays
    <2>3. CASE e # d
      <3>1. InHand(e)' <=> InHand(e)
        BY <1>2, <1>3, <1>4, <2>3, HandKept DEF Has, ClientNext
      <3> QED
        BY <1>1, <2>1, <3>1, PlaceStays DEF Stays
    <2> QED
      BY <2>2, <2>3
  <1> QED
    BY <1>1, <1>6, LifeStutters DEF Promised

(* A job comes to the queue with its control file.                         *)
LEMMA LifeDescribe ==
    ASSUME TypeInv, NumberInv, FileInv, TypeInv', FileInv', NEW c \in Clients,
           Describe(c)
    PROVE  Promised
  <1>1. OnePlace /\ OnePlace' /\ UNCHANGED <<attempts, succeeded>>
    BY ClientStays DEF FileInv, ClientNext
  <1>2. PICK d \in Documents : d = document[c] /\ d # None /\ number[d] = job[c]
    BY Creating DEF Describe, Moves
  <1>3. /\ pc[c] = "describe" /\ pc'[c] = "fill" /\ UNCHANGED <<number, job, document>>
        /\ job[c] \in Jobs /\ control' = [control EXCEPT !["sendq"][job[c]] = Truncated]
    BY Creating, Names DEF Describe, Moves, Goes, TypeInv, PCType
  <1>4. /\ control'["sendq"][job[c]] = Truncated
        /\ \A q \in Directories, m \in Jobs \ {job[c]} : control'[q][m] = control[q][m]
    BY <1>3 DEF TypeInv, ControlType, Directories
  <1>5. number[d] # 0 /\ \A q \in Directories : ~Held(d, q)
    BY <1>2, <1>3 DEF Held, FileInv, NewJob, Jobs
  <1>6. Held(d, "sendq")'
    BY <1>2, <1>3, <1>4, <1>5, QueueAssumption DEF Held
  <1>7. InHand(d)
    BY <1>2, <1>3 DEF InHand
  <1>8. Place(d) = "none" /\ Place(d)' = "sendq"
    <2>1. IsPlace(d, "none") /\ IsPlace(d, "sendq")'
      BY <1>5, <1>6, <1>7 DEF IsPlace, Directories
    <2> QED
      BY <1>1, <2>1, PlaceIs, PlaceIsThen DEF PlaceKnown, Places, Directories
  <1>9. ASSUME NEW e \in Documents \ {d} PROVE Stays(e)
    <2>1. InHand(e)' <=> InHand(e)
      BY <1>2, <1>3, HandKept DEF Has, ClientNext
    <2>2. number[e] # number[d] /\ (number[e] # 0 => number[e] \in Jobs)
      BY <1>5, TriesHeld DEF NumberInv, NumbersDiffer
    <2>3. \A q \in Directories : Held(e, q)' <=> Held(e, q)
      BY <1>2, <1>3, <1>4, <2>2 DEF Held
    <2> QED
      BY <1>1, <2>1, <2>3, PlaceStays DEF Stays
  <1>10. Life!Moves(d, "none", "sendq")
    BY <1>1, <1>8, <1>9, LifeMoves
  <1> QED
    BY <1>10 DEF Promised, Life!JobLifeNext, Life!addItem

(* It stays there while the file is written.                               *)
LEMMA LifeFill ==
    ASSUME TypeInv, NumberInv, FileInv, TypeInv', FileInv', NEW c \in Clients, Fill(c)
    PROVE  Promised
  <1>1. OnePlace /\ OnePlace' /\ UNCHANGED <<attempts, succeeded>>
    BY ClientStays DEF FileInv, ClientNext
  <1>2. /\ pc[c] = "fill" /\ pc'[c] = "protect" /\ UNCHANGED <<number, job, document>>
        /\ job[c] \in Jobs /\ control' = [control EXCEPT !["sendq"][job[c]] = 0]
    BY Creating, Names DEF Fill, Moves, Goes, TypeInv, PCType
  <1>3. control["sendq"][job[c]] # None /\ 0 # None
    BY <1>2, QueueAssumption DEF FileInv, NewJob
  <1>4. \A q \in Directories, m \in Jobs : control'[q][m] # None <=> control[q][m] # None
    BY <1>2, <1>3 DEF TypeInv, ControlType, Directories
  <1>5. \A d \in Documents, q \in Directories : Held(d, q)' <=> Held(d, q)
    BY <1>2, <1>4, TriesHeld DEF Held
  <1>6. \A d \in Documents : InHand(d)' <=> InHand(d)
    BY <1>2, HandKept DEF Has, ClientNext
  <1> QED
    BY <1>1, <1>2, <1>5, <1>6, KeepsPlaces

(* An abort deletes the job.                                               *)
LEMMA LifeUnlinkControl ==
    ASSUME TypeInv, NumberInv, FileInv, TypeInv', FileInv', NEW c \in Clients,
           UnlinkControl(c)
    PROVE  Promised
  <1>1. OnePlace /\ OnePlace' /\ UNCHANGED <<attempts, succeeded>>
    BY ClientStays DEF FileInv, ClientNext
  <1>2. /\ pc[c] = "unlinkControl" /\ pc'[c] = "unlock" /\ UNCHANGED <<number, job, document>>
        /\ job[c] \in Jobs /\ control' = [control EXCEPT !["sendq"][job[c]] = None]
    BY Names DEF UnlinkControl, Moves, Goes, TypeInv, PCType, ClientJobPCs
  <1>3. control["sendq"][job[c]] # None
    BY <1>2 DEF FileInv, AbortsJob
  <1>4. PICK d \in Documents : number[d] = job[c]
    BY <1>2, <1>3 DEF FileInv, FilesAreNumbered, Directories
  <1>5. /\ control'["sendq"][job[c]] = None
        /\ \A q \in Directories, m \in Jobs :
              q # "sendq" \/ m # job[c] => control'[q][m] = control[q][m]
    BY <1>2 DEF TypeInv, ControlType, Directories
  <1>6. number[d] # 0 /\ Held(d, "sendq")
    BY <1>2, <1>3, <1>4 DEF Held, Jobs
  <1>7. \A q \in Directories : ~Held(d, q)'
    <2>1. \A q \in Directories : q # "sendq" => control[q][job[c]] = None
      BY <1>2, <1>3 DEF OnePlace, FileInv, Directories
    <2> QED
      BY <1>2, <1>4, <1>5, <2>1 DEF Held
  <1>8. ~InHand(d)'
    <2> SUFFICES ASSUME NEW k \in Clients, document[k] = d, pc[k] \notin {"fill", "protect"}
                 PROVE  FALSE
      <3>1. \A k \in Clients \ {c} : pc'[k] = pc[k]
        BY ClientStays DEF ClientNext
      <3>2. document[c] = None
        BY <1>2 DEF NumberInv, ClientDocument
      <3>3. d # None
        BY QueueAssumption
      <3> QED
        BY <1>2, <1>6, <3>1, <3>2, <3>3 DEF InHand
    <2>1. document[k] # None /\ pc[k] \in Before \cup NewPCs
      BY QueueAssumption
        DEF Before, NewPCs, TypeInv, PCType, ClientPCs, NumberInv, ClientDocument
    <2>2. pc[k] \in Before => number[d] = 0
      BY <2>1 DEF Before, NumberInv, ClientNumber
    <2>3. pc[k] \in NewPCs => number[d] = job[k] /\ control["sendq"][job[k]] = None
      BY <2>1 DEF NewPCs, NumberInv, ClientNumber, FileInv, NewJob, Directories
    <2> QED
      BY <1>3, <1>4, <1>6, <2>1, <2>2, <2>3
  <1>9. Place(d) = "sendq" /\ Place(d)' = "deleted"
    <2>1. IsPlace(d, "sendq") /\ IsPlace(d, "deleted")'
      BY <1>6, <1>7, <1>8 DEF IsPlace, Directories
    <2> QED
      BY <1>1, <2>1, PlaceIs, PlaceIsThen DEF PlaceKnown, Places, Directories
  <1>10. ASSUME NEW e \in Documents \ {d} PROVE Stays(e)
    <2>1. InHand(e)' <=> InHand(e)
      BY <1>2, HandKept DEF Has, ClientNext
    <2>2. number[e] # number[d] /\ (number[e] # 0 => number[e] \in Jobs)
      BY <1>6, TriesHeld DEF NumberInv, NumbersDiffer
    <2>3. \A q \in Directories : Held(e, q)' <=> Held(e, q)
      BY <1>2, <1>4, <1>5, <2>2 DEF Held
    <2> QED
      BY <1>1, <2>1, <2>3, PlaceStays DEF Stays
  <1>11. Life!Moves(d, "sendq", "deleted")
    BY <1>1, <1>9, <1>10, LifeMoves
  <1> QED
    BY <1>11 DEF Promised, Life!JobLifeNext, Life!Delete

LEMMA LifeClient ==
    ASSUME TypeInv, NumberInv, FileInv, TypeInv', FileInv', NEW c \in Clients,
           ClientNext(c) \/ Crash(c)
    PROVE  Promised
  <1>1. OnePlace /\ OnePlace'
    BY DEF FileInv
  <1>2. \A to : Goes(c, to) => pc'[c] = to
    BY Names DEF Goes, TypeInv, PCType
  <1>3. CASE UNCHANGED <<number, control>> /\ document'[c] = None
    BY <1>3, LifeEnds
  <1>4. CASE /\ UNCHANGED <<number, control>> /\ document'[c] = document[c]
             /\ {pc[c], pc'[c]} \cap {"fill", "protect"} = {}
    BY <1>1, <1>4, LifeQuiet DEF Has
  <1>5. CASE \E d \in Documents : Enqueue(c, d)
    <2>1. PICK d \in Documents : Enqueue(c, d)
      BY <1>5
    <2>2. /\ document'[c] = d /\ number[d] = 0 /\ UNCHANGED <<number, control>>
          /\ pc[c] = "free"
      BY <2>1, Names DEF Enqueue, Submitted, TypeInv, WorkType
    <2>3. \A e \in Documents : number[e] # 0 => ~Has(c, e) /\ ~Has(c, e)'
      BY <2>2, QueueAssumption DEF Has, NumberInv, ClientDocument
    <2> QED
      BY <1>1, <2>2, <2>3, LifeQuiet
  <1>6. CASE OpenCounter(c) \/ Describe(c) \/ Fill(c) \/ UnlinkControl(c)
    BY <1>6, LifeOpenCounter, LifeDescribe, LifeFill, LifeUnlinkControl
  <1>7. CASE AskNumber(c) \/ ReadCounter(c) \/ WriteCounter(c) \/ UnlockQueue(c)
               \/ UnlinkQueue(c) \/ Convert(c) \/ Protect(c)
    <2>1. UNCHANGED <<number, control>>
      BY <1>7
        DEF AskNumber, ReadCounter, WriteCounter, UnlockQueue, UnlinkQueue, Convert, Protect
    <2>2. \/ document'[c] = None
          \/ /\ document'[c] = document[c]
             /\ {pc[c], pc'[c]} \cap {"fill", "protect"} = {}
      BY <1>2, <1>7, Names
        DEF AskNumber, ReadCounter, WriteCounter, UnlockQueue, UnlinkQueue, Convert, Protect,
            Moves, EndsClient, TypeInv, WorkType
    <2> QED
      BY <1>3, <1>4, <2>1, <2>2
  <1>8. CASE (\E n \in Jobs : Abort(c, n)) \/ TryAbort(c) \/ UnlinkFax(c) \/ Unlock(c)
               \/ Unlink(c) \/ Crash(c)
    <2>1. UNCHANGED <<number, control>>
      BY <1>8 DEF Abort, TryAbort, UnlinkFax, Unlock, Unlink, Crash
    <2>2. \/ document'[c] = None
          \/ /\ document'[c] = document[c]
             /\ {pc[c], pc'[c]} \cap {"fill", "protect"} = {}
      BY <1>2, <1>8, Names
        DEF Abort, TryAbort, UnlinkFax, Unlock, Unlink, Crash, Moves, EndsClient, TypeInv,
            WorkType
    <2> QED
      BY <1>3, <1>4, <2>1, <2>2
  <1> QED
    BY <1>5, <1>6, <1>7, <1>8 DEF ClientNext

-----------------------------------------------------------------------------
(* The steps of the idle script.                                           *)

LEMMA HandStays ==
    ASSUME ClientsStay, UNCHANGED number
    PROVE  \A d \in Documents : InHand(d)' <=> InHand(d)
  BY DEF InHand, ClientsStay

(* Control files are rewritten at most.                                    *)
LEMMA LifeIdleQuiet ==
    ASSUME TypeInv, OnePlace, TypeInv', OnePlace', ClientsStay,
           UNCHANGED <<number, attempts, succeeded>>,
           \A q \in Directories, n \in Jobs : control'[q][n] # None <=> control[q][n] # None
    PROVE  Promised
  <1>1. \A d \in Documents, q \in Directories : Held(d, q)' <=> Held(d, q)
    BY TriesHeld DEF Held
  <1>2. \A d \in Documents : InHand(d)' <=> InHand(d)
    BY HandStays
  <1> QED
    BY <1>1, <1>2, KeepsPlaces

(* A call is made for a job in the queue, and one answer comes of it.      *)
LEMMA LifeCall ==
    ASSUME TypeInv, NumberInv, FileInv, CallInv, TypeInv', FileInv', ClientsStay,
           Dial \/ Send
    PROVE  Promised
  <1>1. /\ pc[Idle] \in {"dial", "sending"} /\ UNCHANGED <<control, number>>
        /\ OnePlace /\ OnePlace'
    BY CallSteps DEF FileInv
  <1>2. PICK d \in Documents : d = document[Idle] /\ number[d] = job[Idle] /\ number[d] # 0
    BY <1>1, ItsDocument DEF Working
  <1>3. Held(d, "sendq")
    BY <1>1, <1>2 DEF Held, FileInv, OwnFiles, Working
  <1>4. Place(d) = "sendq"
    BY <1>1, <1>3, PlaceIs DEF PlaceKnown, IsPlace, Places, Directories
  <1>5. \A e \in Documents : Stays(e)
    <2>1. \A e \in Documents, q \in Directories : Held(e, q)' <=> Held(e, q)
      BY <1>1 DEF Held
    <2>2. \A e \in Documents : InHand(e)' <=> InHand(e)
      BY <1>1, HandStays
    <2> QED
      BY <1>1, <2>1, <2>2, PlaceStays DEF Stays
  <1>6. UNCHANGED [e \in Documents |-> Place(e)]
    BY <1>5 DEF Stays
  <1>7. succeeded' = [succeeded EXCEPT ![d] = @ + 1] \/ UNCHANGED succeeded
    BY <1>2, CallSteps
  <1>8. CASE pc[Idle] = "dial"
    <2>1. attempts' = [attempts EXCEPT ![d] = @ + 1]
      BY <1>2, <1>8, CallSteps
    <2>2. Life!Try(d)
      BY <1>4, <1>6, <1>7, <2>1 DEF Life!Try
    <2> QED
      BY <2>2 DEF Promised, Life!JobLifeNext
  <1>9. CASE pc[Idle] = "sending"
    <2>1. UNCHANGED attempts
      BY <1>9, CallSteps
    <2>2. CASE succeeded' = [succeeded EXCEPT ![d] = @ + 1]
      <3>1. succeeded[d] < attempts[d]
        BY <1>2, <1>9 DEF CallInv, CallIsCounted
      <3>2. Life!Succeed(d)
        BY <1>4, <1>6, <2>1, <2>2, <3>1 DEF Life!Succeed
      <3> QED
        BY <3>2 DEF Promised, Life!JobLifeNext
    <2>3. CASE UNCHANGED succeeded
      BY <1>5, <2>1, <2>3, LifeStutters DEF Promised
    <2> QED
      BY <1>7, <2>2, <2>3
  <1> QED
    BY <1>1, <1>8, <1>9

(* A job is moved to done after a call taken for a success, to failed after *)
(* send_tries calls.                                                       *)
LEMMA LifeMoveControl ==
    ASSUME TypeInv, NumberInv, FileInv, CallInv, TypeInv', FileInv', ClientsStay, MoveControl
    PROVE  Promised
  <1>1. /\ pc[Idle] = "moveControl" /\ UNCHANGED <<number, attempts, succeeded>>
        /\ OnePlace /\ OnePlace'
    BY DEF MoveControl, FileInv
  <1>2. PICK d \in Documents : /\ d = document[Idle] /\ number[d] = job[Idle]
                               /\ number[d] # 0 /\ number[d] \in Jobs
    BY <1>1, ItsDocument DEF Working
  <1>3. PICK where \in {"done", "failed"} : where = target
    BY <1>1 DEF TypeInv, TriesType
  <1>4. control["sendq"][number[d]] \notin {None, Truncated}
    BY <1>1, <1>2 DEF FileInv, OwnFiles, Working
  <1>5. control' = [control EXCEPT ![where][number[d]] = control["sendq"][number[d]],
                                   !["sendq"][number[d]] = None]
    BY <1>2, <1>3, <1>4 DEF MoveControl
  <1>6. /\ control'[where][number[d]] # None
        /\ \A q \in Directories, m \in Jobs : m # number[d] => control'[q][m] = control[q][m]
    BY <1>2, <1>4, <1>5 DEF TypeInv, ControlType, Directories
  <1>7. Held(d, "sendq") /\ Held(d, where)'
    BY <1>1, <1>2, <1>4, <1>6 DEF Held
  <1>8. Place(d) = "sendq" /\ Place(d)' = where
    BY <1>1, <1>7, PlaceIs, PlaceIsThen DEF PlaceKnown, IsPlace, Places, Directories
  <1>9. ASSUME NEW e \in Documents \ {d} PROVE Stays(e)
    <2>1. InHand(e)' <=> InHand(e)
      BY <1>1, HandStays
    <2>2. number[e] # number[d] /\ (number[e] # 0 => number[e] \in Jobs)
      BY <1>2, TriesHeld DEF NumberInv, NumbersDiffer
    <2>3. \A q \in Directories : Held(e, q)' <=> Held(e, q)
      BY <1>1, <1>6, <2>2 DEF Held
    <2> QED
      BY <1>1, <2>1, <2>3, PlaceStays DEF Stays
  <1>10. Life!Moves(d, "sendq", where)
    BY <1>1, <1>8, <1>9, LifeMoves
  <1>11. \/ where = "done" /\ succeeded[d] > 0
         \/ where = "failed" /\ attempts[d] >= MaxTries
    BY <1>1, <1>2, <1>3 DEF CallInv, CallIsCounted
  <1> QED
    BY <1>10, <1>11 DEF Promised, Life!JobLifeNext, Life!setDone, Life!setFailed

LEMMA LifeIdle ==
    ASSUME TypeInv, LockInv, NumberInv, FileInv, CallInv, TypeInv', FileInv',
           IdleNext \/ Crash(Idle)
    PROVE  Promised
  <1>1. ClientsStay /\ UNCHANGED number /\ OnePlace /\ OnePlace'
    BY IdleStays DEF FileInv
  <1>2. CASE UNCHANGED <<control, attempts, succeeded>>
    BY <1>1, <1>2, LifeIdleQuiet
  <1>3. CASE StartRound \/ Disable \/ EndRound \/ (\E n \in Jobs : NextJob(n)) \/ TryLock
               \/ Check \/ MoveFax \/ Mail \/ Unlock(Idle) \/ UnlinkIdle \/ Crash(Idle)
    BY <1>2, <1>3
      DEF StartRound, Disable, EndRound, NextJob, TryLock, Check, MoveFax, Mail, Unlock,
          UnlinkIdle, Crash
  <1>4. CASE Rewrite \/ Refill
    <2>1. /\ target \in Directories /\ control[target][job[Idle]] # None
          /\ UNCHANGED <<attempts, succeeded>>
      BY <1>4, IdleWorks DEF Rewrite, Refill, Moves, Moving, FileInv, OwnFiles
    <2>2. \E what : /\ what # None
                    /\ control' = [control EXCEPT ![target][job[Idle]] = what]
      BY <1>4, QueueAssumption DEF Rewrite, Refill, TypeInv, TriesType
    <2>3. \A q \in Directories, n \in Jobs : control'[q][n] # None <=> control[q][n] # None
      BY <2>1, <2>2 DEF TypeInv, ControlType
    <2> QED
      BY <1>1, <2>1, <2>3, LifeIdleQuiet
  <1>5. CASE Delay \/ Delayed
    <2>1. control["sendq"][job[Idle]] # None /\ UNCHANGED <<attempts, succeeded>>
      BY <1>5, QueueAssumption DEF Delay, Delayed, Moves, Working, FileInv, OwnFiles
    <2>2. \E what : /\ what # None
                    /\ control' = [control EXCEPT !["sendq"][job[Idle]] = what]
      BY <1>5, QueueAssumption DEF Delay, Delayed, TypeInv, TriesType
    <2>3. \A q \in Directories, n \in Jobs : control'[q][n] # None <=> control[q][n] # None
      BY <2>1, <2>2 DEF TypeInv, ControlType, Directories
    <2> QED
      BY <1>1, <2>1, <2>3, LifeIdleQuiet
  <1>6. CASE MoveControl \/ Dial \/ Send
    BY <1>1, <1>6, LifeMoveControl, LifeCall
  <1> QED
    BY <1>3, <1>4, <1>5, <1>6 DEF IdleNext

-----------------------------------------------------------------------------
LEMMA LifeNext ==
    ASSUME TypeInv, LockInv, NumberInv, FileInv, CallInv, TypeInv', FileInv', [QueueNext]_vars
    PROVE  Promised
  <1>1. ASSUME NEW c \in config.clients, ClientNext(c) PROVE Promised
    <2>1. c \in Clients
      BY QueueAssumption DEF TypeInv, ScriptType
    <2> QED
      BY <1>1, <2>1, LifeClient
  <1>2. CASE IdleNext \/ Crash(Idle)
    BY <1>2, LifeIdle
  <1>3. ASSUME NEW c \in Clients, Crash(c) PROVE Promised
    BY <1>3, LifeClient
  <1>4. CASE UNCHANGED vars \/ (\E n \in Jobs : StartTime(n)) \/ Break \/ Repair \/ Hangup
    BY <1>4, OutsideStays, LifeIdleQuiet DEF ClientsStay, FileInv
  <1> QED
    BY <1>1, <1>2, <1>3, <1>4 DEF QueueNext, Processes

LEMMA LifeInit == QueueInit => Life!JobLifeInit
  <1> SUFFICES ASSUME QueueInit PROVE Life!JobLifeInit
    OBVIOUS
  <1>1. \A d \in Documents : number[d] = 0
    BY DEF QueueInit
  <1>2. \A d \in Documents : Place(d) = "none"
    BY <1>1, TypeInit, FileInit, PlaceIs
      DEF PlaceKnown, IsPlace, Held, InHand, FileInv, Places, Directories
  <1> QED
    BY <1>2 DEF QueueInit, Life!JobLifeInit

LEMMA StaysApart == Spec /\ ~config.overlap => []~config.overlap
  <1>1. TypeInv /\ ~config.overlap /\ [QueueNext]_vars => (~config.overlap)'
    BY ConfigStays
  <1> QED
    BY <1>1, TypeAlways, PTL DEF Spec

(* As long as no process opens a lock file that another is about to unlink, *)
(* the files of the queue (fax.py, scripts/idle.py) implement the storage  *)
(* of jobs (class ItemStorage, storage.py), whatever aborts and crashes    *)
(* there are: a job is in one place at a time; it goes to done only after  *)
(* a call that idle() takes for a success (idle.py:131, which is not always *)
(* one that succeeded) and to failed only after send_tries calls; no       *)
(* call is made for a job that left the queue, and none comes back.        *)
THEOREM JobsAreStored == Spec /\ ~config.overlap => ImplementsJobLife
  <1>1. /\ TypeInv /\ TypeInv' /\ JobInv /\ JobInv' /\ ~config.overlap /\ (~config.overlap)'
        /\ [QueueNext]_vars
        => [Life!JobLifeNext]_<<[d \in Documents |-> Place(d)], attempts, succeeded>>
    BY LifeNext DEF JobInv, Promised, LifeVars
  <1> QED
    BY <1>1, LifeInit, StaysApart, TypeAlways, JobAlways, PTL
      DEF Spec, ImplementsJobLife, Life!JobLifeSpec
=============================================================================
