----------------------------- MODULE CallState ------------------------------
(***************************************************************************)
(* What a user of class Connection may rely on, seen through getState and  *)
(* the callbacks of CallInterface alone.  A call waits or is set up, goes  *)
(* up and down logically any number of times and ends for good; each change*)
(* is reported in the order it happened to the module that is registered.  *)
(***************************************************************************)
VARIABLES
    state,          \* getState()
    listening,      \* a CallInterface is registered
    heard           \* the last callback it got

vars == <<state, listening, heard>>

Init ==
    /\ state \in {"WAITING", "OTHER_STATE"}
    /\ listening = FALSE
    /\ heard = "nothing"

Report(c) == heard' = IF listening THEN c ELSE heard

(* A waiting call is accepted or rejected, a call that is up is being      *)
(* disconnected: the script has asked for it, nothing is reported yet.     *)
Leave ==
    /\ state \in {"WAITING", "UP"}
    /\ state' = "OTHER_STATE"
    /\ UNCHANGED <<listening, heard>>

(* The logical connection is up.  The call need not be: the script may be  *)
(* disconnecting it physically at the same time.                           *)
Connected ==
    /\ state = "OTHER_STATE"
    /\ heard # "connected"
    /\ state' \in {"UP", "OTHER_STATE"}
    /\ Report("connected")
    /\ UNCHANGED listening

DisconnectedLogical ==
    /\ state \in {"UP", "OTHER_STATE"}
    /\ state' = "OTHER_STATE"
    /\ Report("logically down")
    /\ UNCHANGED listening

(* No call goes from UP to DOWN without being closed logically first.      *)
Down ==
    /\ state \in {"WAITING", "OTHER_STATE"}
    /\ heard # "connected"
    /\ state' = "DOWN"
    /\ UNCHANGED <<listening, heard>>

DisconnectedPhysical ==
    /\ state = "DOWN"
    /\ Report("physically down")
    /\ UNCHANGED <<state, listening>>

Register ==
    /\ listening' = ~listening
    /\ heard' = "nothing"
    /\ UNCHANGED state

Next == Leave \/ Connected \/ DisconnectedLogical \/ Down \/ DisconnectedPhysical \/ Register

Spec == Init /\ [][Next]_vars
=============================================================================
