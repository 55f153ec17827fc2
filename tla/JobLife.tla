------------------------------ MODULE JobLife ------------------------------
(***************************************************************************)
(* What the storage of jobs promises, class ItemStorage of                 *)
(* capisuite-py/storage.py: an item that was added to the send queue is in *)
(* one of three places from then on, it is moved once, by setDone or       *)
(* setFailed, or deleted by its user.  What the idle script and             *)
(* capisuitefax do to the files of a queue (module FaxQueue) implements it. *)
(***************************************************************************)
EXTENDS Naturals

CONSTANTS
    Documents,  \* the faxes to send
    MaxTries    \* option send_tries

VARIABLES
    place,      \* where the job of a document is
    attempts,   \* the calls made for it so far
    succeeded   \* the ones idle() took for a success

Places == {"none", "sendq", "done", "failed", "deleted"}

JobLifeInit ==
    /\ place = [d \in Documents |-> "none"]
    /\ attempts = [d \in Documents |-> 0]
    /\ succeeded = [d \in Documents |-> 0]

Moves(d, from, to) ==
    /\ place[d] = from
    /\ place' = [place EXCEPT ![d] = to]
    /\ UNCHANGED <<attempts, succeeded>>

addItem(d) == Moves(d, "none", "sendq")

setDone(d) == succeeded[d] > 0 /\ Moves(d, "sendq", "done")

setFailed(d) == attempts[d] >= MaxTries /\ Moves(d, "sendq", "failed")

(* Also a job that never got as far as the queue.                          *)
Delete(d) == Moves(d, "sendq", "deleted") \/ Moves(d, "none", "deleted")

(* A call is made; whether it was a success is known at once or later.     *)
Try(d) ==
    /\ place[d] = "sendq"
    /\ attempts' = [attempts EXCEPT ![d] = @ + 1]
    /\ \/ UNCHANGED succeeded
       \/ succeeded' = [succeeded EXCEPT ![d] = @ + 1]
    /\ UNCHANGED place

Succeed(d) ==
    /\ place[d] = "sendq"
    /\ succeeded[d] < attempts[d]
    /\ succeeded' = [succeeded EXCEPT ![d] = @ + 1]
    /\ UNCHANGED <<place, attempts>>

JobLifeNext ==
    \E d \in Documents :
        addItem(d) \/ setDone(d) \/ setFailed(d) \/ Delete(d) \/ Try(d) \/ Succeed(d)

JobLifeSpec == JobLifeInit /\ [][JobLifeNext]_<<place, attempts, succeeded>>
=============================================================================
