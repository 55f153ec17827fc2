----------------------------- MODULE Connection -----------------------------
(***************************************************************************)
(* class Connection (backend/connection.cpp): the life of one call.        *)
(*                                                                         *)
(* Two threads work on a Connection without a common lock for plci_state   *)
(* and ncci_state: the message thread (Capi::run), which runs the handlers *)
(* of CAPI messages, and the thread of the script, which calls the public  *)
(* methods.  A handler or method first tests the states and later changes  *)
(* them and puts messages: each of these parts is one action, and capi_pc  *)
(* and app_pc name the part that comes next.                               *)
(*                                                                         *)
(* The script is arbitrary: any public method may be called in any state,  *)
(* one at a time.  Data transfer and DTMF leave the states modelled here   *)
(* alone; data transfer is in FileTransmission.                            *)
(***************************************************************************)
EXTENDS CapiDriver

CONSTANTS
    Origins,        \* which calls to start with, a subset of {"incoming", "outgoing"}
    Services,       \* the services a script may ask for
    Overlap,        \* TRUE: one thread may run inside a method of the other
    PutMayFail,     \* TRUE: CAPI_PUT_MESSAGE may report an error
    QueueBound      \* a script calls no method while so many messages are queued

ASSUME ConnectionAssumption ==
    /\ Origins \subseteq {"incoming", "outgoing"}
    /\ Services # {}
    /\ Overlap \in BOOLEAN
    /\ PutMayFail \in BOOLEAN
    /\ QueueBound \in Nat

VARIABLES
    our_call,                   \* we initiated the call
    plci_state,
    ncci_state,
    keepPhysicalConnection,
    service,
    registered,                 \* Capi::connections has an entry for the call
    call_if,                    \* a CallInterface is registered
    heard,                      \* the last callback it got, "nothing" at first
    capi_pc,                    \* what the message thread does next
    our_disconnect_req,         \* local variable of disconnect_b3_ind
    app_pc,                     \* what the script's thread does next
    arg,                        \* argument of the method it is in
    closing                     \* how the script last asked for the logical end (history)

stateVars == <<our_call, plci_state, ncci_state, keepPhysicalConnection, service>>
userVars  == <<registered, call_if, heard>>
capiVars  == <<capi_pc, our_disconnect_req>>
appVars   == <<app_pc, arg, closing>>
vars      == <<driverVars, stateVars, userVars, capiVars, appVars>>

PlciStates == {"P0", "P01", "P1", "P2", "P3", "P4", "P5", "P6", "PACT"}
NcciStates == {"N0", "N01", "N1", "N2", "N3", "N4", "N5", "NACT"}
Modes      == {"ALL", "PHYSICAL_ONLY", "LOGICAL_ONLY"}
LogicalModes == {"ALL", "LOGICAL_ONLY"}
Callbacks  == {"nothing", "connected", "logically down", "physically down"}

CapiPCs == {"run", "connect_active_ind", "connect_active_ind.active",
            "connect_b3_ind", "connect_b3_active_ind", "disconnect_b3_ind",
            "disconnect_b3_ind.callback", "disconnect_b3_ind.resp", "disconnect_b3_ind.rest",
            "disconnect_ind", "disconnect_ind.callback",
            "connect_conf", "connect_b3_conf", "connect_b3_conf.refused",
            "select_b_protocol_conf"}
AppPCs  == {"script", "connectWaiting", "rejectWaiting", "acceptWaiting", "changeProtocol",
            "disconnect.logical", "disconnect.keep", "disconnect.physical",
            "~Connection", "deleted"}

ConnectionTypeOK ==
    /\ DriverTypeOK
    /\ our_call \in BOOLEAN
    /\ plci_state \in PlciStates
    /\ ncci_state \in NcciStates
    /\ keepPhysicalConnection \in BOOLEAN
    /\ service \in Services
    /\ registered \in BOOLEAN
    /\ call_if \in BOOLEAN
    /\ heard \in Callbacks
    /\ capi_pc \in CapiPCs
    /\ our_disconnect_req \in BOOLEAN
    /\ app_pc \in AppPCs
    /\ arg \in Services \cup Modes \cup {"none"}
    /\ closing \in LogicalModes \cup {"none"}

getState ==
    IF plci_state = "PACT" /\ ncci_state = "NACT" THEN "UP"
    ELSE IF plci_state = "P2" /\ ncci_state = "N0" THEN "WAITING"
    ELSE IF plci_state = "P0" /\ ncci_state = "N0" THEN "DOWN"
    ELSE "OTHER_STATE"

(* The constructor for CONNECT_IND: the call waits for the script.         *)
InitIncoming ==
    /\ our_call = FALSE
    /\ plci_state = "P2"
    /\ line = "offered"
    /\ outbox = <<>>

(* The constructor for a call of ours has put CONNECT_REQ.                 *)
InitOutgoing ==
    /\ our_call = TRUE
    /\ plci_state = "P01"
    /\ line = "idle"
    /\ outbox = <<"CONNECT_REQ">>

Init ==
    /\ \/ "incoming" \in Origins /\ InitIncoming
       \/ "outgoing" \in Origins /\ InitOutgoing
    /\ inbox = <<>>
    /\ link = "none"
    /\ ncci_state = "N0"
    /\ keepPhysicalConnection = FALSE
    /\ service \in Services
    /\ registered = TRUE
    /\ call_if = FALSE
    /\ heard = "nothing"
    /\ capi_pc = "run"
    /\ our_disconnect_req = FALSE
    /\ app_pc = "script"
    /\ arg = "none"
    /\ closing = "none"

(* Every request goes through CAPI_PUT_MESSAGE; the methods of Capi throw  *)
(* CapiMsgError when it reports an error.                                  *)
Put(m)    == outbox' = Append(outbox, m)
PutFails  == PutMayFail /\ UNCHANGED outbox
TryPut(m) == Put(m) \/ PutFails

Callback(c) == heard' = IF call_if THEN c ELSE heard

Between == {"script", "~Connection", "deleted"}   \* the script is in no method's middle
CapiMayRun ==
    /\ Overlap \/ app_pc \in Between
    /\ app_pc = "deleted" => ~registered      \* no step on a freed Connection is modelled
AppMayRun  == Overlap \/ capi_pc = "run"

-----------------------------------------------------------------------------
(* The message thread: Capi::readMessage and the test each handler makes.  *)

(* The handler that has something to do for a message, if its test passes. *)
Handler == [m \in {"CONNECT_ACTIVE_IND", "CONNECT_B3_IND", "CONNECT_B3_ACTIVE_IND",
                   "DISCONNECT_B3_IND", "DISCONNECT_IND", "CONNECT_CONF",
                   "CONNECT_B3_CONF", "CONNECT_B3_CONF_REFUSED", "SELECT_B_PROTOCOL_CONF"} |->
    CASE m = "CONNECT_ACTIVE_IND"      -> "connect_active_ind"
      [] m = "CONNECT_B3_IND"          -> "connect_b3_ind"
      [] m = "CONNECT_B3_ACTIVE_IND"   -> "connect_b3_active_ind"
      [] m = "DISCONNECT_B3_IND"       -> "disconnect_b3_ind"
      [] m = "DISCONNECT_IND"          -> "disconnect_ind"
      [] m = "CONNECT_CONF"            -> "connect_conf"
      [] m = "CONNECT_B3_CONF"         -> "connect_b3_conf"
      [] m = "CONNECT_B3_CONF_REFUSED" -> "connect_b3_conf.refused"
      [] m = "SELECT_B_PROTOCOL_CONF"  -> "select_b_protocol_conf"]

(* Slip: the test of DISCONNECT_IND forgets that we may be in P5.          *)
AcceptsIndNotP5(m) ==
    CASE m = "CONNECT_ACTIVE_IND"    -> plci_state \in {"P4", "P1"}
      [] m = "CONNECT_B3_IND"        -> ncci_state = "N0"
      [] m = "CONNECT_B3_ACTIVE_IND" -> ncci_state = "N2"
      [] m = "DISCONNECT_B3_IND"     -> ncci_state \in {"NACT", "N1", "N2", "N3", "N4"}
      [] m = "DISCONNECT_IND"        -> ncci_state = "N0" /\ plci_state \notin {"P0", "P01", "P5"}

AcceptsInd(m) ==
    CASE m = "CONNECT_ACTIVE_IND"    -> plci_state \in {"P4", "P1"}
      [] m = "CONNECT_B3_IND"        -> ncci_state = "N0"
      [] m = "CONNECT_B3_ACTIVE_IND" -> ncci_state = "N2"
      [] m = "DISCONNECT_B3_IND"     -> ncci_state \in {"NACT", "N1", "N2", "N3", "N4"}
      [] m = "DISCONNECT_IND"        -> /\ ncci_state = "N0"
                                        /\ plci_state \in {"P1", "P2", "P3", "P4", "P5", "PACT"}

(* A confirmation no handler acts on is dropped, whatever the state.       *)
AcceptsConf(m) ==
    CASE m = "CONNECT_CONF"           -> plci_state = "P01"
      [] m \in {"CONNECT_B3_CONF", "CONNECT_B3_CONF_REFUSED"} -> ncci_state = "N01"
      [] m = "SELECT_B_PROTOCOL_CONF" -> plci_state = "PACT" /\ ncci_state = "N0"
      [] OTHER                        -> FALSE

Accepts(m) == IF m \in Indications THEN AcceptsInd(m) ELSE AcceptsConf(m)

readMessage ==
    /\ capi_pc = "run" /\ CapiMayRun
    /\ inbox # <<>>
    /\ inbox' = Tail(inbox)
    /\ capi_pc' = IF registered /\ Accepts(Head(inbox)) THEN Handler[Head(inbox)] ELSE "run"
    /\ UNCHANGED <<outbox, line, link, stateVars, userVars, our_disconnect_req, appVars>>

InHandler(h) == capi_pc = h /\ CapiMayRun
Leave        == capi_pc' = "run"

connect_active_ind ==                   \* the second test of P1
    /\ InHandler("connect_active_ind")
    /\ \/ /\ plci_state = "P1"
          /\ ncci_state' = "N01" /\ Put("CONNECT_B3_REQ")
          /\ capi_pc' = "connect_active_ind.active" /\ UNCHANGED plci_state
       \/ /\ plci_state = "P1"
          /\ plci_state' = "PACT" /\ ncci_state' = "N0" /\ PutFails /\ Leave
       \/ /\ plci_state # "P1"
          /\ capi_pc' = "connect_active_ind.active"
          /\ UNCHANGED <<plci_state, ncci_state, outbox>>
    /\ UNCHANGED <<inbox, line, link, our_call, keepPhysicalConnection, service,
                   userVars, our_disconnect_req, appVars>>

connect_active_ind_active ==            \* whatever the script made of plci_state meanwhile
    /\ InHandler("connect_active_ind.active") /\ Leave
    /\ plci_state' = "PACT"
    /\ UNCHANGED <<driverVars, our_call, ncci_state, keepPhysicalConnection, service,
                   userVars, our_disconnect_req, appVars>>

(* Slip: the link is taken for up as soon as it is accepted.               *)
ConnectB3IndTooEarly ==
    /\ InHandler("connect_b3_ind") /\ Leave
    /\ ncci_state' = "NACT"
    /\ TryPut("CONNECT_B3_RESP")
    /\ UNCHANGED <<inbox, line, link, our_call, plci_state, keepPhysicalConnection, service,
                   userVars, our_disconnect_req, appVars>>

connect_b3_ind ==
    /\ InHandler("connect_b3_ind") /\ Leave
    /\ ncci_state' = "N2"
    /\ TryPut("CONNECT_B3_RESP")
    /\ UNCHANGED <<inbox, line, link, our_call, plci_state, keepPhysicalConnection, service,
                   userVars, our_disconnect_req, appVars>>

connect_b3_active_ind ==
    /\ InHandler("connect_b3_active_ind") /\ Leave
    /\ ncci_state' = "NACT"
    /\ Callback("connected")
    /\ UNCHANGED <<driverVars, our_call, plci_state, keepPhysicalConnection, service,
                   registered, call_if, our_disconnect_req, appVars>>

disconnect_b3_ind ==                    \* who asked for the end?
    /\ InHandler("disconnect_b3_ind")
    /\ our_disconnect_req' = (ncci_state = "N4")
    /\ capi_pc' = "disconnect_b3_ind.callback"
    /\ UNCHANGED <<driverVars, stateVars, userVars, appVars>>

(* Slip: no callback when we asked for the end.                            *)
DisconnectB3IndSilent ==
    /\ InHandler("disconnect_b3_ind.callback")
    /\ ncci_state' = "N5"
    /\ IF our_disconnect_req THEN UNCHANGED heard ELSE Callback("logically down")
    /\ capi_pc' = "disconnect_b3_ind.resp"
    /\ UNCHANGED <<driverVars, our_call, plci_state, keepPhysicalConnection, service,
                   registered, call_if, our_disconnect_req, appVars>>

disconnect_b3_ind_callback ==           \* in state N5
    /\ InHandler("disconnect_b3_ind.callback")
    /\ ncci_state' = "N5"
    /\ Callback("logically down")
    /\ capi_pc' = "disconnect_b3_ind.resp"
    /\ UNCHANGED <<driverVars, our_call, plci_state, keepPhysicalConnection, service,
                   registered, call_if, our_disconnect_req, appVars>>

disconnect_b3_ind_resp ==
    /\ InHandler("disconnect_b3_ind.resp")
    /\ ncci_state' = "N0"
    /\ TryPut("DISCONNECT_B3_RESP")
    /\ capi_pc' = "disconnect_b3_ind.rest"
    /\ UNCHANGED <<inbox, line, link, our_call, plci_state, keepPhysicalConnection, service,
                   userVars, our_disconnect_req, appVars>>

(* Slip: keepPhysicalConnection is never reset.                            *)
DisconnectB3IndRestKeeps ==
    /\ InHandler("disconnect_b3_ind.rest") /\ Leave
    /\ IF our_disconnect_req /\ ~keepPhysicalConnection
       THEN plci_state' = "P5" /\ TryPut("DISCONNECT_REQ")
       ELSE UNCHANGED <<plci_state, outbox>>
    /\ UNCHANGED <<inbox, line, link, our_call, ncci_state, keepPhysicalConnection, service,
                   userVars, our_disconnect_req, appVars>>

disconnect_b3_ind_rest ==               \* the physical connection: to be ended, or kept once
    /\ InHandler("disconnect_b3_ind.rest") /\ Leave
    /\ IF our_disconnect_req /\ ~keepPhysicalConnection
       THEN plci_state' = "P5" /\ TryPut("DISCONNECT_REQ") /\ UNCHANGED keepPhysicalConnection
       ELSE keepPhysicalConnection' = FALSE /\ UNCHANGED <<plci_state, outbox>>
    /\ UNCHANGED <<inbox, line, link, our_call, ncci_state, service,
                   userVars, our_disconnect_req, appVars>>

disconnect_ind ==                       \* up to DISCONNECT_RESP
    /\ InHandler("disconnect_ind")
    /\ plci_state' = "P0"
    /\ \/ Put("DISCONNECT_RESP") /\ capi_pc' = "disconnect_ind.callback"
       \/ PutFails /\ Leave
    /\ UNCHANGED <<inbox, line, link, our_call, ncci_state, keepPhysicalConnection, service,
                   userVars, our_disconnect_req, appVars>>

disconnect_ind_callback ==              \* unregisterConnection and the callback
    /\ InHandler("disconnect_ind.callback") /\ Leave
    /\ registered' = FALSE
    /\ Callback("physically down")
    /\ UNCHANGED <<driverVars, stateVars, call_if, our_disconnect_req, appVars>>

connect_conf ==
    /\ InHandler("connect_conf") /\ Leave
    /\ plci_state' = "P1"
    /\ UNCHANGED <<driverVars, our_call, ncci_state, keepPhysicalConnection, service,
                   userVars, our_disconnect_req, appVars>>

connect_b3_conf ==
    /\ \/ InHandler("connect_b3_conf") /\ ncci_state' = "N2"
       \/ InHandler("connect_b3_conf.refused") /\ ncci_state' = "N0"
    /\ Leave
    /\ UNCHANGED <<driverVars, our_call, plci_state, keepPhysicalConnection, service,
                   userVars, our_disconnect_req, appVars>>

select_b_protocol_conf ==
    /\ InHandler("select_b_protocol_conf") /\ Leave
    /\ IF our_call
       THEN \/ ncci_state' = "N01" /\ Put("CONNECT_B3_REQ")
            \/ ncci_state' = "N0" /\ PutFails
       ELSE UNCHANGED <<ncci_state, outbox>>
    /\ UNCHANGED <<inbox, line, link, our_call, plci_state, keepPhysicalConnection, service,
                   userVars, our_disconnect_req, appVars>>

HandlerSteps ==
    \/ connect_active_ind \/ connect_active_ind_active
    \/ connect_b3_ind \/ connect_b3_active_ind
    \/ disconnect_b3_ind \/ disconnect_b3_ind_callback
    \/ disconnect_b3_ind_resp \/ disconnect_b3_ind_rest
    \/ disconnect_ind \/ disconnect_ind_callback
    \/ connect_conf \/ connect_b3_conf \/ select_b_protocol_conf

-----------------------------------------------------------------------------
(* The script's thread: the test of a method, then what the method does.   *)
(* A call whose test fails throws and changes nothing: it is no step.      *)

Enter(pc, a) ==
    /\ app_pc = "script" /\ AppMayRun
    /\ Len(inbox) + Len(outbox) < QueueBound
    /\ app_pc' = pc /\ arg' = a
    /\ UNCHANGED <<driverVars, stateVars, userVars, capiVars, closing>>

In(pc) == app_pc = pc /\ AppMayRun
Return == app_pc' = "script" /\ arg' = "none"

callConnectWaiting(s) == plci_state = "P2" /\ ~our_call /\ Enter("connectWaiting", s)
callRejectWaiting     == plci_state = "P2" /\ ~our_call /\ Enter("rejectWaiting", "none")
callAcceptWaiting     == plci_state = "P2" /\ Enter("acceptWaiting", "none")
(* Slip: the service asked for is lost on the way.                         *)
ChangeProtocolOfNone(s) ==
    ncci_state = "N0" /\ plci_state = "PACT" /\ s # service /\ Enter("changeProtocol", "none")

callChangeProtocol(s) == /\ ncci_state = "N0" /\ plci_state = "PACT" /\ s # service
                         /\ Enter("changeProtocol", s)

LogicalUp  == ncci_state \in {"N1", "N2", "N3", "NACT"}
PhysicalUpWhenDown == plci_state \notin {"P01", "P5"}    \* slip: P0 is taken for up
PhysicalUp == plci_state \in {"PACT", "P1", "P2", "P3", "P4"}

Disconnect(mode) ==
    IF LogicalUp /\ mode \in LogicalModes THEN "disconnect.logical"
    ELSE IF PhysicalUp /\ mode \in {"ALL", "PHYSICAL_ONLY"} THEN "disconnect.physical"
    ELSE "nothing"

callDisconnectCall(mode) ==
    /\ Disconnect(mode) # "nothing"
    /\ Enter(Disconnect(mode), mode)

connectWaiting ==
    /\ In("connectWaiting") /\ Return
    /\ plci_state' = "P4"
    /\ \/ Put("CONNECT_RESP") /\ service' = arg
       \/ PutFails /\ UNCHANGED service
    /\ UNCHANGED <<inbox, line, link, our_call, ncci_state, keepPhysicalConnection,
                   userVars, capiVars, closing>>

(* Slip: a call we reject is over at once.                                 *)
RejectWaitingIsDown ==
    /\ In("rejectWaiting") /\ Return
    /\ plci_state' = "P0"
    /\ TryPut("CONNECT_RESP_REJECT")
    /\ UNCHANGED <<inbox, line, link, our_call, ncci_state, keepPhysicalConnection, service,
                   userVars, capiVars, closing>>

rejectWaiting ==
    /\ In("rejectWaiting") /\ Return
    /\ plci_state' = "P5"
    /\ TryPut("CONNECT_RESP_REJECT")
    /\ UNCHANGED <<inbox, line, link, our_call, ncci_state, keepPhysicalConnection, service,
                   userVars, capiVars, closing>>

acceptWaiting ==
    /\ In("acceptWaiting") /\ Return
    /\ TryPut("ALERT_REQ")
    /\ UNCHANGED <<inbox, line, link, stateVars, userVars, capiVars, closing>>

changeProtocol ==
    /\ In("changeProtocol") /\ Return
    /\ \/ Put("SELECT_B_PROTOCOL_REQ") /\ service' = arg
       \/ PutFails /\ UNCHANGED service
    /\ UNCHANGED <<inbox, line, link, our_call, plci_state, ncci_state, keepPhysicalConnection,
                   userVars, capiVars, closing>>

disconnectLogical ==
    /\ In("disconnect.logical")
    /\ ncci_state' = "N4"
    /\ closing' = arg
    /\ \/ /\ Put("DISCONNECT_B3_REQ")
          /\ IF arg = "LOGICAL_ONLY" THEN app_pc' = "disconnect.keep" /\ UNCHANGED arg
                                     ELSE Return
       \/ PutFails /\ Return
    /\ UNCHANGED <<inbox, line, link, our_call, plci_state, keepPhysicalConnection, service,
                   userVars, capiVars>>

(* Slip: the request to keep the line is forgotten.                        *)
DisconnectKeepForgets ==
    /\ In("disconnect.keep") /\ Return
    /\ UNCHANGED <<driverVars, stateVars, userVars, capiVars, closing>>

disconnectKeep ==                       \* only after DISCONNECT_B3_REQ was put
    /\ In("disconnect.keep") /\ Return
    /\ keepPhysicalConnection' = TRUE
    /\ UNCHANGED <<driverVars, our_call, plci_state, ncci_state, service, userVars, capiVars, closing>>

disconnectPhysical ==
    /\ In("disconnect.physical") /\ Return
    /\ plci_state' = "P5"
    /\ TryPut("DISCONNECT_REQ")
    /\ UNCHANGED <<inbox, line, link, our_call, ncci_state, keepPhysicalConnection, service,
                   userVars, capiVars, closing>>

registerCallInterface ==
    /\ In("script")
    /\ call_if' = ~call_if
    /\ heard' = "nothing"
    /\ UNCHANGED <<driverVars, stateVars, registered, capiVars, appVars>>

(* The destructor disconnects by force, then waits until the call is down. *)
destroy ==
    /\ In("script")
    /\ arg' = "none"
    /\ IF getState # "DOWN" /\ PhysicalUp
       THEN /\ plci_state' = "P5"
            /\ \/ Put("DISCONNECT_REQ") /\ app_pc' = "~Connection"
               \/ PutFails /\ app_pc' = "deleted"
       ELSE app_pc' = "~Connection" /\ UNCHANGED <<plci_state, outbox>>
    /\ UNCHANGED <<inbox, line, link, our_call, ncci_state, keepPhysicalConnection, service,
                   userVars, capiVars, closing>>

destroyed ==
    /\ In("~Connection")
    /\ getState = "DOWN"
    /\ app_pc' = "deleted" /\ UNCHANGED arg
    /\ UNCHANGED <<driverVars, stateVars, userVars, capiVars, closing>>

ScriptCalls ==
    \/ \E s \in Services : callConnectWaiting(s) \/ callChangeProtocol(s)
    \/ callRejectWaiting \/ callAcceptWaiting
    \/ \E mode \in Modes : callDisconnectCall(mode)
    \/ registerCallInterface
    \/ destroy

MethodSteps ==
    \/ connectWaiting \/ rejectWaiting \/ acceptWaiting \/ changeProtocol
    \/ disconnectLogical \/ disconnectKeep \/ disconnectPhysical
    \/ destroyed

-----------------------------------------------------------------------------

Driver == (DriverReads \/ Network(~our_call)) /\ UNCHANGED <<stateVars, userVars, capiVars, appVars>>

Next == readMessage \/ HandlerSteps \/ ScriptCalls \/ MethodSteps \/ Driver

Spec == Init /\ [][Next]_vars

(* Capi::run never stops, a method that was entered goes on, and the driver*)
(* reads what was put and clears the line once the network releases it.    *)
(* No script has to call anything, and no party has to answer or hang up.  *)
FairSpec ==
    /\ Spec
    /\ WF_vars(readMessage)
    /\ WF_vars(HandlerSteps)
    /\ WF_vars(MethodSteps)
    /\ WF_vars(DriverReads /\ UNCHANGED <<stateVars, userVars, capiVars, appVars>>)
    /\ WF_vars((ClearLink \/ ClearLine) /\ UNCHANGED <<stateVars, userVars, capiVars, appVars>>)

-----------------------------------------------------------------------------
(* What the network still has to tell the handlers.                        *)
Unread(m) ==
    \/ \E i \in DOMAIN inbox : inbox[i] = m
    \/ /\ m = "DISCONNECT_B3_IND"
       /\ capi_pc \in {"disconnect_b3_ind", "disconnect_b3_ind.callback"}
    \/ m = "DISCONNECT_IND" /\ capi_pc = "disconnect_ind"

(* A script that sees the state DOWN (Connection::getState) deletes the    *)
(* object: then the network must have cleared the call.                    *)
DownIsReal == getState = "DOWN" => line \in {"cleared", "released"}

(* A script that sees UP sends and receives: the network's link must be    *)
(* active, or the news that it is not must still be in the queue.          *)
UpIsReal == getState = "UP" => link = "active" \/ Unread("DISCONNECT_B3_IND")

(* A module registered all along hears of the end of a logical connection  *)
(* it heard the start of before it hears of the end of the call, and never *)
(* of two starts in a row (CallInterface's callbacks).                     *)
CallbackOrder ==
    [][/\ heard = "connected" => heard' # "physically down"
       /\ heard = "physically down" => heard' \in {"physically down", "nothing"}
       /\ heard' = "connected" /\ capi_pc = "connect_b3_active_ind" => heard # "connected"]_vars

(* The end of a call is final: a call whose DISCONNECT_IND was answered is *)
(* never taken for one in another state again (getState() = DOWN is what   *)
(* DisconnectModule and the destructor wait for).                          *)
DownIsFinal == [][plci_state = "P0" => plci_state' = "P0"]_vars

(* The message thread disconnects physically of its own accord only to     *)
(* finish a disconnectCall(ALL); LOGICAL_ONLY leaves the line up, as       *)
(* Switch2FaxG3 needs it to.                                               *)
LogicalOnlyKeepsLine ==
    [][capi_pc = "disconnect_b3_ind.rest" /\ capi_pc' = "run"
         /\ plci_state # "P5" /\ plci_state' = "P5" => closing = "ALL"]_vars

(* Once the network has cleared the call, Connection comes to know.        *)
HangupNoticed == (line = "cleared") ~> (plci_state = "P0")
IncomingHangupNoticed == (line = "cleared" /\ ~our_call) ~> (plci_state = "P0")

(* disconnectCall(ALL) ends an incoming call, whatever state it found it in*)
(* (one of ours may be in N01, see HangupNoticed).                         *)
DisconnectClears ==
    (~our_call /\ arg = "ALL" /\ app_pc \in {"disconnect.logical", "disconnect.physical"})
      ~> (getState = "DOWN")

(* The calls of a user see what CallState says.                            *)
Contract == INSTANCE CallState WITH state <- getState, listening <- call_if, heard <- heard
ImplementsCallState == Contract!Spec

=============================================================================
