---------------------------- MODULE CallDispatch ----------------------------
(***************************************************************************)
(* From the driver's messages to the Connections, and from them to the     *)
(* scripts: class Capi (backend/capi.cpp) with its map of Connections,     *)
(* class CapiSuite (application/capisuite.cpp) with the queue of waiting   *)
(* calls, and the life of the Connection objects, which the scripts delete *)
(* (application/incomingscript.cpp, application/capisuitemodule.cpp).      *)
(*                                                                         *)
(* Several calls share the driver's PLCIs and our message numbers.  What   *)
(* one Connection does with its messages is in module Connection; here its *)
(* state P4 stands for every state of a call that is answered.             *)
(***************************************************************************)
EXTENDS Naturals, Sequences

CONSTANTS
    Calls,          \* the calls ever made, each with a Connection of its own
    Plcis,          \* the PLCIs the driver gives to calls
    None,           \* no call
    MaxNumber,      \* the last message number used
    BaseNumber,     \* the digits of the number of our interface
    Extensions,     \* the digits callers dial after it
    Configurations  \* the installations, one of which Init chooses

(* An installation.  overlap: threads run inside each other's methods;     *)
(* failing: CAPI_PUT_MESSAGE may report an error; enBloc: the network gives*)
(* the whole number at once.                                               *)
ASSUME DispatchAssumption ==
    /\ None \notin Calls
    /\ Plcis \subseteq Nat \ {0}
    /\ MaxNumber \in Nat
    /\ BaseNumber \in Seq(0 .. 9)
    /\ Extensions \subseteq Seq(0 .. 9)
    /\ Configurations \subseteq
         [DDILength : Nat, DDI_stop_numbers : SUBSET Seq(0 .. 9),
          enBloc : BOOLEAN, overlap : BOOLEAN, failing : BOOLEAN]

VARIABLES
    config,
    connections,    \* Capi: the Connection of a PLCI
    requested,      \* Capi: the one of a pseudo PLCI 0xFACE0000 | message number
    messageNumber,
    capi_pc,        \* what the message thread does next
    handled,        \* the Connection it works on
    plci_state, plci, call_to, deleted,     \* of each Connection
    waiting,        \* CapiSuite: calls no script has been started for
    scripts,        \* threads that hold the Connection of a call
    started,        \* IncomingScripts started for a call so far (history)
    request_pc,     \* where in connect_req the call's thread is
    corrupt,        \* a deleted Connection was used
    inbox,          \* driver: messages to the application
    network,        \* driver: the call of a PLCI
    phase,          \* driver: how far a PLCI's call is
    to_dial         \* caller: digits not dialled yet

capiVars   == <<connections, requested, messageNumber, capi_pc, handled>>
callVars   == <<plci_state, plci, call_to, deleted>>
suiteVars  == <<waiting, scripts, started, request_pc>>
driverVars == <<inbox, network, phase, to_dial>>
vars       == <<config, capiVars, callVars, suiteVars, corrupt, driverVars>>

NoPlci        == 0                  \* the PLCI of a CONNECT_CONF with Info # 0
MaybeCalls    == Calls \cup {None}
Numbers       == 0 .. MaxNumber
DDIBaseLength == Len(BaseNumber)
Digits        == Seq(0 .. 9)
CapiPCs       == {"run", "unregisterConnection"}
CallStates    == {"none", "P01", "P1", "P2", "P4", "P5", "P0"}
RequestPCs    == {"none", "key", "put"}
Phases        == {"free", "up", "asked", "cleared"}
MessageTypes  == {"CONNECT_IND", "CONNECT_CONF", "INFO_IND", "DISCONNECT_IND"}
Messages      == [type : MessageTypes,
                  call : Calls,             \* the one the network means
                  plci : Plcis \cup {NoPlci}, number : Numbers, digits : Digits]

DispatchTypeOK ==
    /\ config \in Configurations
    /\ connections \in [Plcis \cup {NoPlci} -> MaybeCalls]
    /\ requested \in [Numbers -> MaybeCalls]
    /\ messageNumber \in Numbers
    /\ capi_pc \in CapiPCs
    /\ handled \in MaybeCalls
    /\ plci_state \in [Calls -> CallStates]
    /\ plci \in [Calls -> Plcis \cup {NoPlci}]
    /\ call_to \in [Calls -> Digits]
    /\ deleted \in [Calls -> BOOLEAN]
    /\ waiting \in Seq(Calls)
    /\ scripts \in [Calls -> Nat] /\ started \in [Calls -> Nat]
    /\ request_pc \in [Calls -> RequestPCs]
    /\ corrupt \in BOOLEAN
    /\ inbox \in Seq(Messages)
    /\ network \in [Plcis -> MaybeCalls]
    /\ phase \in [Plcis -> Phases]
    /\ to_dial \in [Calls -> Digits]

Init ==
    /\ config \in Configurations
    /\ connections = [p \in Plcis \cup {NoPlci} |-> None]
    /\ requested = [m \in Numbers |-> None]
    /\ messageNumber = 0
    /\ capi_pc = "run" /\ handled = None
    /\ plci_state = [c \in Calls |-> "none"]
    /\ plci = [c \in Calls |-> NoPlci]
    /\ call_to = [c \in Calls |-> <<>>]
    /\ deleted = [c \in Calls |-> FALSE]
    /\ waiting = <<>>
    /\ scripts = [c \in Calls |-> 0] /\ started = [c \in Calls |-> 0]
    /\ request_pc = [c \in Calls |-> "none"]
    /\ corrupt = FALSE
    /\ inbox = <<>>
    /\ network = [p \in Plcis |-> None]
    /\ phase = [p \in Plcis |-> "free"]
    /\ to_dial = [c \in Calls |-> <<>>]

Use(c) == corrupt' = deleted[c]     \* what happens next to the program is undefined

-----------------------------------------------------------------------------
(* The message thread: Capi::readMessage.                                  *)

Message == Head(inbox)

Read(type) ==
    /\ ~corrupt /\ capi_pc = "run"
    /\ inbox # <<>> /\ Message.type = type
    /\ inbox' = Tail(inbox)
    /\ UNCHANGED <<config, messageNumber, scripts, started, request_pc,
                   network, to_dial>>

(* A message for a PLCI or number that is not in the map: CapiError.       *)
Unknown == UNCHANGED <<connections, requested, capi_pc, handled, callVars, waiting, corrupt, phase>>

callWaiting(c) == waiting' = Append(waiting, c)

(* Slip: every call is put into the queue at once.                         *)
EveryCallWaits ==
    /\ Read("CONNECT_IND")
    /\ connections[Message.plci] = None
    /\ LET c == Message.call IN
         /\ connections' = [connections EXCEPT ![Message.plci] = c]
         /\ plci' = [plci EXCEPT ![c] = Message.plci]
         /\ plci_state' = [plci_state EXCEPT ![c] = "P2"]
         /\ call_to' = [call_to EXCEPT ![c] = Message.digits]
         /\ callWaiting(c)
    /\ UNCHANGED <<requested, capi_pc, handled, deleted, corrupt, phase>>

connect_ind ==
    /\ Read("CONNECT_IND")
    /\ connections[Message.plci] = None
    /\ LET c == Message.call IN
         /\ connections' = [connections EXCEPT ![Message.plci] = c]
         /\ plci' = [plci EXCEPT ![c] = Message.plci]
         /\ plci_state' = [plci_state EXCEPT ![c] = "P2"]
         /\ IF config.DDILength = 0
            THEN call_to' = [call_to EXCEPT ![c] = Message.digits] /\ callWaiting(c)
            ELSE UNCHANGED <<call_to, waiting>>
    /\ UNCHANGED <<requested, capi_pc, handled, deleted, corrupt, phase>>

(* The list of stop numbers starts with one empty entry, which the first   *)
(* configured number fills: with none configured it stays.                 *)
DDIStopNumbers ==
    IF config.DDI_stop_numbers = {} THEN {<<>>} ELSE config.DDI_stop_numbers

Extension(number) == SubSeq(number, DDIBaseLength + 1, Len(number))

(* Slip: one digit more is waited for.                                     *)
CompleteOneLater(number) ==
    /\ Len(number) >= DDIBaseLength
    /\ \/ Extension(number) \in DDIStopNumbers
       \/ Len(number) > DDIBaseLength + config.DDILength

Complete(number) ==                     \* a number shorter than the base throws
    /\ Len(number) >= DDIBaseLength
    /\ \/ Extension(number) \in DDIStopNumbers
       \/ Len(number) >= DDIBaseLength + config.DDILength

info_ind_called_party_nr ==
    /\ Read("INFO_IND")
    /\ LET c == connections[Message.plci] IN
         \/ /\ c # None /\ plci_state[c] = "P2"
            /\ call_to' = [call_to EXCEPT ![c] = @ \o Message.digits]
            /\ IF Complete(call_to'[c]) THEN callWaiting(c) ELSE UNCHANGED waiting
            /\ Use(c)
            /\ UNCHANGED <<connections, requested, capi_pc, handled, plci_state, plci, deleted,
                           phase>>
         \/ ~(c # None /\ plci_state[c] = "P2") /\ Unknown

(* Slip: the entry stays under the pseudo PLCI.                            *)
ConnectConfKeepsPseudo ==
    /\ Read("CONNECT_CONF")
    /\ LET c == requested[Message.number] IN
         \/ /\ c # None
            /\ plci' = [plci EXCEPT ![c] = Message.plci]
            /\ plci_state' = [plci_state EXCEPT ![c] = "P1"]
            /\ Use(c)
            /\ UNCHANGED <<connections, requested, capi_pc, handled, call_to, deleted, waiting, phase>>
         \/ c = None /\ Unknown

(* connect_conf throws when Info # 0; the entry has been moved before.     *)
connect_conf ==
    /\ Read("CONNECT_CONF")
    /\ LET c == requested[Message.number] IN
         \/ /\ c # None
            /\ connections' = [connections EXCEPT ![Message.plci] = c]
            /\ requested' = [requested EXCEPT ![Message.number] = None]
            /\ IF Message.plci # NoPlci /\ plci_state[c] = "P01"
               THEN /\ plci' = [plci EXCEPT ![c] = Message.plci]
                    /\ plci_state' = [plci_state EXCEPT ![c] = "P1"]
               ELSE UNCHANGED <<plci, plci_state>>
            /\ Use(c)
            /\ UNCHANGED <<capi_pc, handled, call_to, deleted, waiting, phase>>
         \/ c = None /\ Unknown

Ends(c, p) == c # None /\ plci_state[c] \in {"P1", "P2", "P4", "P5"} /\ plci[c] = p

disconnect_ind ==                       \* up to DISCONNECT_RESP, which frees the PLCI
    /\ Read("DISCONNECT_IND")
    /\ LET c == connections[Message.plci] IN
         \/ /\ Ends(c, Message.plci)
            /\ plci_state' = [plci_state EXCEPT ![c] = "P0"]
            /\ Use(c)
            /\ \/ /\ phase' = [phase EXCEPT ![Message.plci] = "free"]
                  /\ capi_pc' = "unregisterConnection" /\ handled' = c
               \/ config.failing /\ UNCHANGED <<phase, capi_pc, handled>>
            /\ UNCHANGED <<connections, requested, plci, call_to, deleted, waiting>>
         \/ ~Ends(c, Message.plci) /\ Unknown

unregisterConnection ==                 \* with the callback behind it
    /\ ~corrupt /\ capi_pc = "unregisterConnection"
    /\ connections' = [connections EXCEPT ![plci[handled]] = None]
    /\ capi_pc' = "run" /\ handled' = None
    /\ Use(handled)
    /\ UNCHANGED <<config, requested, messageNumber, callVars, suiteVars, driverVars>>

CapiSteps ==
    \/ connect_ind \/ info_ind_called_party_nr \/ connect_conf
    \/ disconnect_ind \/ unregisterConnection

-----------------------------------------------------------------------------
(* The threads of the application.                                         *)

(* Slip: no script is started for a call that is down again.               *)
MainLoopSkipsDead ==
    /\ ~corrupt /\ waiting # <<>>
    /\ LET c == Head(waiting)
           n == IF plci_state[c] = "P2" THEN 1 ELSE 0
       IN /\ waiting' = Tail(waiting)
          /\ scripts' = [scripts EXCEPT ![c] = @ + n]
          /\ started' = [started EXCEPT ![c] = @ + n]
          /\ Use(c)
    /\ UNCHANGED <<config, capiVars, callVars, request_pc, driverVars>>

mainLoop ==                             \* an IncomingScript for the oldest waiting call
    /\ ~corrupt /\ waiting # <<>>
    /\ LET c == Head(waiting) IN
         /\ waiting' = Tail(waiting)
         /\ scripts' = [scripts EXCEPT ![c] = @ + 1]
         /\ started' = [started EXCEPT ![c] = @ + 1]
         /\ Use(c)
    /\ UNCHANGED <<config, capiVars, callVars, request_pc, driverVars>>

Holds(c) == ~corrupt /\ scripts[c] > 0

connectWaiting(c) ==
    /\ Holds(c) /\ plci_state[c] = "P2"
    /\ plci_state' = [plci_state EXCEPT ![c] = "P4"]
    /\ Use(c)
    /\ UNCHANGED <<config, capiVars, plci, call_to, deleted, suiteVars, driverVars>>

(* disconnectCall or rejectWaiting, by the script or by DisconnectModule in*)
(* the destruction of its object.                                          *)
disconnectCall(c) ==
    /\ Holds(c) /\ plci_state[c] \in {"P1", "P2", "P4"}
    /\ plci_state' = [plci_state EXCEPT ![c] = "P5"]
    /\ \/ phase' = [phase EXCEPT ![plci[c]] = IF @ = "up" THEN "asked" ELSE @]
       \/ config.failing /\ UNCHANGED phase
    /\ Use(c)
    /\ UNCHANGED <<config, capiVars, plci, call_to, deleted, suiteVars, inbox, network, to_dial>>

(* Slip: a call being disconnected is deleted without waiting for its end. *)
DestructTooEarly(c) ==
    /\ Holds(c) /\ (plci_state[c] \in {"P5", "P0"} \/ deleted[c])
    /\ scripts' = [scripts EXCEPT ![c] = @ - 1]
    /\ deleted' = [deleted EXCEPT ![c] = TRUE]
    /\ Use(c)
    /\ UNCHANGED <<config, capiVars, plci_state, plci, call_to, waiting, started, request_pc,
                   driverVars>>

(* Slip: the thread of the script releases the Connection as well.         *)
DestructTwice(c) ==
    /\ Holds(c) /\ (plci_state[c] = "P0" \/ deleted[c])
    /\ scripts' = [scripts EXCEPT ![c] = @ - 2]
    /\ deleted' = [deleted EXCEPT ![c] = TRUE]
    /\ Use(c)
    /\ UNCHANGED <<config, capiVars, plci_state, plci, call_to, waiting, started, request_pc,
                   driverVars>>

(* The script has ended: the Python object of the Connection is destroyed, *)
(* and the Connection with it as soon as it is down.                       *)
capisuitemodule_destruct_connection(c) ==
    /\ Holds(c) /\ (plci_state[c] = "P0" \/ deleted[c])
    /\ config.overlap \/ capi_pc = "run"
    /\ scripts' = [scripts EXCEPT ![c] = @ - 1]
    /\ deleted' = [deleted EXCEPT ![c] = TRUE]
    /\ Use(c)
    /\ UNCHANGED <<config, capiVars, plci_state, plci, call_to, waiting, started, request_pc,
                   driverVars>>

ScriptEnds(c)  == disconnectCall(c) \/ capisuitemodule_destruct_connection(c)
ScriptSteps(c) == connectWaiting(c) \/ ScriptEnds(c)

(* A call of ours.  connect_req reads messageNumber three times.           *)
Requesting == \E c \in Calls : request_pc[c] # "none"
NextNumber == messageNumber < MaxNumber /\ messageNumber' = messageNumber + 1
Fresh(c)   == plci_state[c] = "none" /\ \A p \in Plcis : network[p] # c

connect_req(c) ==
    /\ ~corrupt /\ Fresh(c) /\ request_pc[c] = "none"
    /\ config.overlap \/ ~Requesting
    /\ NextNumber
    /\ plci_state' = [plci_state EXCEPT ![c] = "P01"]
    /\ request_pc' = [request_pc EXCEPT ![c] = "key"]
    /\ UNCHANGED <<config, connections, requested, capi_pc, handled, plci, call_to, deleted,
                   waiting, scripts, started, corrupt, driverVars>>

connect_req_key(c) ==
    /\ ~corrupt /\ request_pc[c] = "key"
    /\ requested' = [requested EXCEPT ![messageNumber] = c]
    /\ request_pc' = [request_pc EXCEPT ![c] = "put"]
    /\ UNCHANGED <<config, connections, messageNumber, capi_pc, handled, callVars, waiting,
                   scripts, started, corrupt, driverVars>>

Confirm(c, p) ==
    inbox' = Append(inbox, [type |-> "CONNECT_CONF", call |-> c, plci |-> p,
                            number |-> messageNumber, digits |-> <<>>])

(* The driver takes the request, refuses it, or the message cannot be put: *)
(* then the constructor throws and its object is gone.                     *)
connect_req_put(c) ==
    /\ ~corrupt /\ request_pc[c] = "put"
    /\ request_pc' = [request_pc EXCEPT ![c] = "none"]
    /\ \/ /\ \/ \E p \in Plcis :
                  /\ phase[p] = "free"
                  /\ phase' = [phase EXCEPT ![p] = "up"]
                  /\ network' = [network EXCEPT ![p] = c]
                  /\ Confirm(c, p)
             \/ Confirm(c, NoPlci) /\ UNCHANGED <<phase, network>>
          /\ scripts' = [scripts EXCEPT ![c] = @ + 1]
          /\ UNCHANGED deleted
       \/ /\ config.failing
          /\ deleted' = [deleted EXCEPT ![c] = TRUE]
          /\ UNCHANGED <<scripts, inbox, phase, network>>
    /\ UNCHANGED <<config, capiVars, plci_state, plci, call_to, waiting, started, corrupt, to_dial>>

OtherRequest ==                         \* any other request of any call that is up
    /\ ~corrupt
    /\ \E c \in Calls : scripts[c] > 0 /\ plci_state[c] \in {"P1", "P4"}
    /\ config.overlap \/ ~Requesting
    /\ NextNumber
    /\ UNCHANGED <<config, connections, requested, capi_pc, handled, callVars, suiteVars,
                   corrupt, driverVars>>

CallOut(c) == connect_req(c) \/ connect_req_key(c) \/ connect_req_put(c)

-----------------------------------------------------------------------------
(* The driver and the callers.                                             *)

Tell(type, c, p, digits) ==
    inbox' = Append(inbox, [type |-> type, call |-> c, plci |-> p, number |-> 0,
                            digits |-> digits])

Ring(c, p) ==
    /\ ~corrupt /\ Fresh(c) /\ phase[p] = "free"
    /\ network' = [network EXCEPT ![p] = c]
    /\ phase' = [phase EXCEPT ![p] = "up"]
    /\ \E extension \in Extensions :
         LET number == BaseNumber \o extension IN
           IF config.DDILength = 0
           THEN Tell("CONNECT_IND", c, p, number) /\ UNCHANGED to_dial
           ELSE Tell("CONNECT_IND", c, p, <<>>) /\ to_dial' = [to_dial EXCEPT ![c] = number]
    /\ UNCHANGED <<config, capiVars, callVars, suiteVars, corrupt>>

Dial(p) ==
    /\ ~corrupt /\ phase[p] = "up"
    /\ LET c == network[p]
           rest == to_dial[c]
       IN \E k \in (IF config.enBloc THEN {Len(rest)} ELSE 1 .. Len(rest)) \ {0} :
            /\ Tell("INFO_IND", c, p, SubSeq(rest, 1, k))
            /\ to_dial' = [to_dial EXCEPT ![c] = SubSeq(rest, k + 1, Len(rest))]
    /\ UNCHANGED <<config, capiVars, callVars, suiteVars, corrupt, network, phase>>

Clear(p) ==                             \* because we asked, or the other side hangs up
    /\ ~corrupt /\ phase[p] \in {"up", "asked"}
    /\ phase' = [phase EXCEPT ![p] = "cleared"]
    /\ Tell("DISCONNECT_IND", network[p], p, <<>>)
    /\ UNCHANGED <<config, capiVars, callVars, suiteVars, corrupt, network, to_dial>>

Driver == \E p \in Plcis : Dial(p) \/ Clear(p) \/ \E c \in Calls : Ring(c, p)

-----------------------------------------------------------------------------

Next ==
    \/ CapiSteps \/ mainLoop \/ OtherRequest \/ Driver
    \/ \E c \in Calls : ScriptSteps(c) \/ CallOut(c)

Spec == Init /\ [][Next]_vars

(* The message thread and mainLoop never stop; the driver clears a call    *)
(* when asked.  A script need not answer, but it ends, and its Connection  *)
(* is disconnected then.                                                   *)
FairSpec ==
    /\ Spec
    /\ WF_vars(CapiSteps) /\ WF_vars(mainLoop)
    /\ \A p \in Plcis : WF_vars(phase[p] = "asked" /\ Clear(p))
    /\ \A c \in Calls : WF_vars(ScriptEnds(c))

-----------------------------------------------------------------------------
(* A CONNECT_CONF is found to belong to the call that asked for it (Capi:: *)
(* connect_req, readMessage).                                              *)
ConfirmationIsMatched ==
    inbox # <<>> /\ Message.type = "CONNECT_CONF" => requested[Message.number] = Message.call

(* Each message reaches the Connection it is for, and a PLCI is new when   *)
(* CONNECT_IND brings it: the entries follow the driver's use of a PLCI.   *)
ReachesItsConnection ==
    ~config.overlap /\ capi_pc = "run" /\ inbox # <<>> =>
        CASE Message.type = "CONNECT_CONF" -> ConfirmationIsMatched
          [] Message.type = "CONNECT_IND"  -> connections[Message.plci] = None
          [] OTHER -> connections[Message.plci] = Message.call

(* No more than one script is ever started, or going to be, for a call.    *)
WholeNumbers == config.DDILength = 0 \/ config.enBloc
OneScript ==
    /\ \A c \in Calls : started[c] <= 1
    /\ \A i \in DOMAIN waiting : started[waiting[i]] = 0
    /\ \A i, j \in DOMAIN waiting : waiting[i] = waiting[j] => i = j
OneScriptPerCall == WholeNumbers => OneScript

(* No thread uses a deleted Connection, not even after a failed request.   *)
NoUseAfterDelete == ~config.overlap /\ WholeNumbers => ~corrupt

(* Every call that comes in is deleted in the end, also when the caller    *)
(* hangs up before its script is started.                                  *)
CallIsDeleted ==
    \A c \in Calls :
        (plci_state[c] = "P2" /\ config.DDILength = 0 /\ ~config.failing /\ ~config.overlap)
          ~> deleted[c]

(* A number that is long enough gets a script, in whatever parts it came.  *)
LongNumberIsServed ==
    \A c \in Calls :
        (Len(call_to[c]) >= DDIBaseLength + config.DDILength /\ plci_state[c] = "P2")
          ~> (started[c] > 0 \/ corrupt)
=============================================================================
