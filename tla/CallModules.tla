---------------------------- MODULE CallModules -----------------------------
(***************************************************************************)
(* How the commands of a script run.  Each builds a call module (modules/  *)
(* *.cpp), which registers itself at the Connection, starts something,     *)
(* sleeps until a callback or a timer wakes it, and goes.  Callbacks come  *)
(* from the message thread, whose handler first changes the Connection and *)
(* then calls the registered module.                                       *)
(*                                                                         *)
(* pc is the script's thread, capi_pc the message thread: each action is   *)
(* what lies between two places where one sees the other.  The network     *)
(* sends whatever the states of the call allow; crossing messages of the   *)
(* call itself are in Connection, blocks that are sent in FileTransmission.*)
(* pending are the messages the network owes.  No clock: a wait with a     *)
(* timeout may end at any time.                                            *)
(***************************************************************************)
EXTENDS ScriptCommands, FiniteSets

CONSTANTS
    Configurations,     \* the conditions, one of which Init chooses
    SilenceLimit,       \* silent packets a recording tolerates (silence_timeout)
    MaxPackets,         \* bound: packets received in a call
    MaxDigits           \* bound: digits the other side dials

(* outgoing: the script makes the call; overlap: one thread may run while  *)
(* the other is not asleep; faults: CAPI_PUT_MESSAGEs of the script that   *)
(* may fail; length: commands of the script.                               *)
ASSUME ModulesAssumption ==
    /\ Configurations \subseteq
         [outgoing : BOOLEAN, overlap : BOOLEAN, faults : Nat, length : Nat,
          commands : SUBSET Commands]
    /\ SilenceLimit \in Nat \ {0, 1}
    /\ MaxPackets \in Nat
    /\ MaxDigits \in Nat

(* Commands that disconnect are those the wrappers build.                  *)
ASSUME DisconnectAssumption ==
    \A c \in Configurations : \A w \in c.commands :
      w.active.class = "DisconnectModule" => w.active = DisconnectModule(w.active.quick)

VARIABLES
    config,
    plci_state, ncci_state, our_call, service,          \* Connection
    keepPhysicalConnection, our_disconnect_req,
    gone,                       \* the call has ended, DISCONNECT_IND was refused
    received_dtmf,              \* how many digits it holds
    file_to_send,               \* a file is open for sending
    file_for_reception,         \* and for reception
    call_if,                    \* what is registered: see CallIfs
    finish, call_finished,      \* CallModule, ReadDTMF
    timed,                      \* timeout # -1
    digit_count, silence_count, \* ReadDTMF, AudioReceive
    capi_pc,                    \* the callback the message thread is about to make
    pc, cmd,                    \* what the script does next, in which command
    outcome,                    \* how its last command ended
    left, faults,               \* commands and faults still to come (bounds)
    pending, listening,         \* the network: messages it owes, DTMF detection
    blocks, quiet, packets,     \* packets in the file, silent ones at its end, all
    typed, given,               \* digits dialled, digits returned (history)
    wild                        \* undefined behaviour was reached

lineVars   == <<plci_state, ncci_state, our_call, service, keepPhysicalConnection,
                our_disconnect_req, pending, gone>>
fileVars   == <<file_to_send, file_for_reception>>
moduleVars == <<finish, call_finished, timed, digit_count, silence_count>>
digitVars  == <<received_dtmf, listening, typed, given>>
packetVars == <<blocks, quiet, packets>>
scriptVars == <<pc, cmd, outcome, left>>
outside    == <<config, capi_pc, wild>>         \* what no step of the script changes
vars == <<outside, lineVars, fileVars, call_if, moduleVars, scriptVars, faults,
          digitVars, packetVars>>

(* Nobody; a module while the constructor of its base class runs, with the *)
(* virtual methods of the base class; a module; one that is gone.          *)
CallIfs == {"none", "base", "module", "dead"}
Owed    == {"CONNECT_CONF", "INFO_IND", "CONNECT_ACTIVE_IND", "CONNECT_B3_CONF",
            "CONNECT_B3_IND", "SELECT_B_PROTOCOL_CONF"}
Outside == {"idle", "drop", "delete", "delete.wait", "deleted", "lost", "escaped"}
Inside  == {"delay", "register", "registered", "construct", "mainLoop", "sleep",
            "dialled", "evaluate", "hangup", "open", "truncate", "reject", "disconnect",
            "change", "sleep.again", "fetch", "clear", "open.send", "fill", "stopping"}
PCs     == Inside \cup Outside
CapiPCs == CallInterface \cup {"run", "disconnect_b3_ind.resp"}
PlciStates == {"none", "P0", "P01", "P1", "P2", "P4", "P5", "PACT"}
NcciStates == {"N0", "N01", "N2", "N4", "N5", "NACT"}
Outcomes   == {"none", "ok", "timeout", "failed", "CallGoneError", "BackendError", "escaped"}

ConnectionTypeOK ==
    /\ plci_state \in PlciStates
    /\ ncci_state \in NcciStates
    /\ our_call \in BOOLEAN
    /\ service \in Services
    /\ keepPhysicalConnection \in BOOLEAN
    /\ our_disconnect_req \in BOOLEAN
    /\ gone \in BOOLEAN
    /\ pending \subseteq Owed
    /\ file_to_send \in BOOLEAN
    /\ file_for_reception \in BOOLEAN
    /\ call_if \in CallIfs

ModuleTypeOK ==
    /\ finish \in BOOLEAN
    /\ call_finished \in BOOLEAN
    /\ timed \in BOOLEAN
    /\ digit_count \in 0 .. MaxDigits
    /\ silence_count \in 0 .. MaxPackets

ThreadTypeOK ==
    /\ config \in Configurations
    /\ capi_pc \in CapiPCs
    /\ wild \in BOOLEAN
    /\ pc \in PCs
    /\ cmd \in Commands
    /\ outcome \in Outcomes
    /\ left \in Nat
    /\ faults \in Nat

CountTypeOK ==
    /\ received_dtmf \in 0 .. MaxDigits
    /\ listening \in BOOLEAN
    /\ typed \in 0 .. MaxDigits
    /\ given \in Nat
    /\ blocks \in 0 .. MaxPackets
    /\ quiet \in 0 .. MaxPackets
    /\ packets \in 0 .. MaxPackets

ModulesTypeOK == ConnectionTypeOK /\ ModuleTypeOK /\ ThreadTypeOK /\ CountTypeOK

active   == cmd.active
In(S)    == active.class \in S

getState ==
    IF plci_state = "PACT" /\ ncci_state = "NACT" THEN "UP"
    ELSE IF plci_state = "P2" /\ ncci_state = "N0" THEN "WAITING"
    ELSE IF plci_state = "P0" /\ ncci_state = "N0" THEN "DOWN"
    ELSE "OTHER_STATE"

(* A script that answers is started with a call that waits, a script that  *)
(* calls has no Connection yet.                                            *)
Init ==
    /\ config \in Configurations
    /\ our_call = config.outgoing
    /\ plci_state = IF our_call THEN "none" ELSE "P2"
    /\ ncci_state = "N0"
    /\ service \in Services
    /\ keepPhysicalConnection = FALSE
    /\ our_disconnect_req = FALSE
    /\ gone = FALSE
    /\ received_dtmf = 0
    /\ file_to_send = FALSE
    /\ file_for_reception = FALSE
    /\ call_if = "none"
    /\ finish = FALSE
    /\ call_finished = FALSE
    /\ timed = FALSE
    /\ digit_count = 0
    /\ silence_count = 0
    /\ capi_pc = "run"
    /\ pc = "idle"
    /\ cmd = capisuitemodule_destruct_connection
    /\ outcome = "none"
    /\ left = config.length
    /\ faults = config.faults
    /\ pending = {}
    /\ listening = FALSE
    /\ blocks = 0
    /\ quiet = 0
    /\ packets = 0
    /\ typed = 0
    /\ given = 0
    /\ wild = FALSE

(* Threads sleep nearly always; with overlap one need not while the other  *)
(* runs.                                                                   *)
Asleep    == {"idle", "delay", "sleep", "sleep.again", "stopping", "hangup",
              "delete.wait", "lost"}
MayHandle == /\ ~wild
             /\ capi_pc = "run"
             /\ plci_state \notin {"none", "P0"}
             /\ config.overlap \/ pc \in Asleep
MayRun    == ~wild /\ (config.overlap \/ capi_pc = "run")

-----------------------------------------------------------------------------
(* The message thread: what a handler does before its callback.            *)

Then(k) ==
    /\ capi_pc' = k
    /\ UNCHANGED <<config, call_if, moduleVars, scriptVars, faults, wild>>

restLine == <<our_call, our_disconnect_req, gone>>
elsewhere == <<restLine, service, keepPhysicalConnection, fileVars, digitVars, packetVars>>

connect_conf ==
    /\ MayHandle
    /\ "CONNECT_CONF" \in pending
    /\ \/ pending' = {} /\ UNCHANGED plci_state                 \* Info # 0
       \/ pending' = {"INFO_IND", "CONNECT_ACTIVE_IND"} /\ plci_state' = "P1"
    /\ Then("run")
    /\ UNCHANGED <<elsewhere, ncci_state>>

info_ind_alerting ==
    /\ MayHandle
    /\ "INFO_IND" \in pending
    /\ plci_state = "P1"
    /\ pending' = pending \ {"INFO_IND"}
    /\ Then("alerting")
    /\ UNCHANGED <<elsewhere, plci_state, ncci_state>>

connect_active_ind ==
    /\ MayHandle
    /\ "CONNECT_ACTIVE_IND" \in pending
    /\ plci_state \in {"P1", "P4"}
    /\ plci_state' = "PACT"
    /\ IF plci_state = "P1"
       THEN ncci_state' = "N01" /\ pending' = {"CONNECT_B3_CONF"}
       ELSE pending' = {"CONNECT_B3_IND"} /\ UNCHANGED ncci_state
    /\ Then("run")
    /\ UNCHANGED elsewhere

connect_b3_conf ==
    /\ MayHandle
    /\ ncci_state = "N01"
    /\ pending' = {}
    /\ ncci_state' \in {"N0", "N2"}                             \* N0: Info # 0
    /\ gone => ncci_state' = "N0"
    /\ Then("run")
    /\ UNCHANGED <<elsewhere, plci_state>>

connect_b3_ind ==
    /\ MayHandle
    /\ "CONNECT_B3_IND" \in pending
    /\ plci_state = "PACT"
    /\ ncci_state = "N0"
    /\ pending' = {}
    /\ ncci_state' = "N2"
    /\ Then("run")
    /\ UNCHANGED <<elsewhere, plci_state>>

connect_b3_active_ind ==
    /\ MayHandle
    /\ plci_state = "PACT"
    /\ ncci_state = "N2"
    /\ ncci_state' = "NACT"
    /\ Then("callConnected")
    /\ UNCHANGED <<elsewhere, plci_state, pending>>

select_b_protocol_conf ==
    /\ MayHandle
    /\ "SELECT_B_PROTOCOL_CONF" \in pending
    /\ plci_state = "PACT"
    /\ ncci_state = "N0"
    /\ \/ pending' = {} /\ UNCHANGED ncci_state                 \* Info # 0
       \/ ~gone /\ our_call /\ ncci_state' = "N01" /\ pending' = {"CONNECT_B3_CONF"}
       \/ ~gone /\ ~our_call /\ pending' = {"CONNECT_B3_IND"} /\ UNCHANGED ncci_state
    /\ Then("run")
    /\ UNCHANGED <<elsewhere, plci_state>>

disconnect_b3_ind ==
    /\ MayHandle
    /\ ncci_state \in {"N2", "NACT", "N4"}
    /\ file_to_send' = FALSE
    /\ file_for_reception' = FALSE
    /\ our_disconnect_req' = (ncci_state = "N4")
    /\ ncci_state' = "N5"
    /\ Then("callDisconnectedLogical")
    /\ UNCHANGED <<plci_state, our_call, service, keepPhysicalConnection, pending, gone,
                   digitVars, packetVars>>

(* Slip: the physical connection is forgotten.                             *)
disconnect_b3_resp_only ==
    /\ ~wild
    /\ capi_pc = "disconnect_b3_ind.resp"
    /\ ncci_state' = "N0"
    /\ keepPhysicalConnection' = FALSE
    /\ Then("run")
    /\ UNCHANGED <<plci_state, restLine, service, pending, fileVars, digitVars, packetVars>>

(* The rest of it, after the callback.                                     *)
disconnect_b3_resp ==
    /\ ~wild
    /\ capi_pc = "disconnect_b3_ind.resp"
    /\ ncci_state' = "N0"
    /\ IF our_disconnect_req /\ ~keepPhysicalConnection
       THEN plci_state' = "P5" /\ UNCHANGED keepPhysicalConnection
       ELSE keepPhysicalConnection' = FALSE /\ UNCHANGED plci_state
    /\ Then("run")
    /\ UNCHANGED <<restLine, service, pending, fileVars, digitVars, packetVars>>

disconnect_ind ==
    /\ MayHandle
    /\ ~gone
    /\ plci_state \in {"P1", "P2", "P4", "P5", "PACT"}
    /\ ncci_state = "N0"
    /\ plci_state' = "P0"
    /\ pending' = {}
    /\ Then("callDisconnectedPhysical")
    /\ UNCHANGED <<elsewhere, ncci_state>>

(* The call has ended when our CONNECT_B3_REQ reached the driver: in state  *)
(* N01 DISCONNECT_IND is refused, not answered and not repeated.           *)
disconnect_ind_refused ==
    /\ MayHandle
    /\ ~gone
    /\ ncci_state = "N01"
    /\ gone' = TRUE
    /\ Then("run")
    /\ UNCHANGED <<plci_state, ncci_state, our_call, our_disconnect_req, pending, service,
                   keepPhysicalConnection, fileVars, digitVars, packetVars>>

(* A packet is written and shown to the module: only a module that records *)
(* minds.                                                                  *)
data_b3_ind(silent) ==
    /\ MayHandle
    /\ ncci_state \in {"NACT", "N4"}
    /\ packets < MaxPackets
    /\ file_for_reception \/ call_if = "dead" \/ (call_if # "none" /\ In({"AudioReceive"}))
    /\ packets' = packets + 1
    /\ IF file_for_reception
       THEN blocks' = blocks + 1 /\ quiet' = IF silent THEN quiet + 1 ELSE 0
       ELSE UNCHANGED <<blocks, quiet>>
    /\ Then(IF silent THEN "silence" ELSE "sound")
    /\ UNCHANGED <<lineVars, fileVars, digitVars>>

(* Slip: every digit is appended twice.                                    *)
facility_ind_DTMF_twice ==
    /\ MayHandle
    /\ ~gone
    /\ plci_state = "PACT"
    /\ listening
    /\ typed < MaxDigits
    /\ typed' = typed + 1
    /\ received_dtmf' = received_dtmf + 2
    /\ Then("gotDTMF")
    /\ UNCHANGED <<lineVars, fileVars, packetVars, listening, given>>

facility_ind_DTMF ==
    /\ MayHandle
    /\ ~gone
    /\ plci_state = "PACT"
    /\ listening
    /\ typed < MaxDigits
    /\ typed' = typed + 1
    /\ received_dtmf' = received_dtmf + 1
    /\ Then("gotDTMF")
    /\ UNCHANGED <<lineVars, fileVars, packetVars, listening, given>>

(* The confirmation after which send_block finds the end of the file.      *)
file_completed ==
    /\ MayHandle
    /\ ncci_state = "NACT"
    /\ file_to_send /\ pc \in {"fill", "sleep"} /\ In({"AudioSend", "FaxSend"})
    /\ file_to_send' = FALSE
    /\ Then("transmissionComplete")
    /\ UNCHANGED <<lineVars, file_for_reception, digitVars, packetVars>>

-----------------------------------------------------------------------------
(* The callback: the methods of CallModule and what subclasses make of     *)
(* them.  While its base class is built, a module has those of CallModule. *)

Dead == call_if = "dead" \/ pc = "deleted"

Calls(k) ==
    /\ ~wild
    /\ capi_pc = k
    /\ ~Dead
    /\ capi_pc' = IF k = "callDisconnectedLogical" THEN "disconnect_b3_ind.resp" ELSE "run"
    /\ UNCHANGED <<config, wild, lineVars, fileVars, call_if, scriptVars, faults, digitVars,
                   packetVars>>

Is(class) == call_if = "module" /\ In({class})

(* Slip: only the logical end ends Switch2FaxG3.                           *)
EndsOnLink(k) ==
    call_if # "none" /\
      k \in IF call_if = "base"
            THEN CallModule(active.timed, active.DTMF_exit, active.checkConnection).endedBy
            ELSE IF In({"Switch2FaxG3"}) THEN active.endedBy \ {"callDisconnectedPhysical"}
            ELSE active.endedBy

Ends(k) ==
    call_if # "none" /\
      k \in IF call_if = "base"
            THEN CallModule(active.timed, active.DTMF_exit, active.checkConnection).endedBy
            ELSE active.endedBy

callDisconnectedPhysical ==
    /\ Calls("callDisconnectedPhysical")
    /\ finish' = (finish \/ Ends("callDisconnectedPhysical"))
    /\ call_finished' = (call_finished \/ Is("ReadDTMF"))
    /\ UNCHANGED <<timed, digit_count, silence_count>>

callDisconnectedLogical ==
    /\ Calls("callDisconnectedLogical")
    /\ finish' = (finish \/ Ends("callDisconnectedLogical"))
    /\ call_finished' = (call_finished \/ Is("ReadDTMF"))
    /\ UNCHANGED <<timed, digit_count, silence_count>>

(* The Connection misses a module only here: it throws, which is logged.   *)
callConnected ==
    /\ Calls("callConnected")
    /\ finish' = (finish \/ Ends("callConnected"))
    /\ UNCHANGED <<call_finished, timed, digit_count, silence_count>>

transmissionComplete ==
    /\ Calls("transmissionComplete")
    /\ finish' = (finish \/ Ends("transmissionComplete"))
    /\ UNCHANGED <<call_finished, timed, digit_count, silence_count>>

(* CallOutgoing: resetTimer(saved_timeout).                                *)
alerting ==
    /\ Calls("alerting")
    /\ timed' = IF Is("CallOutgoing") THEN active.timed ELSE timed
    /\ UNCHANGED <<finish, call_finished, digit_count, silence_count>>

Enough == active.max_digits > 0 /\ received_dtmf >= active.max_digits

gotDTMF ==
    /\ Calls("gotDTMF")
    /\ finish' = (finish \/ Ends("gotDTMF") \/ (Is("ReadDTMF") /\ Enough))
    /\ digit_count' = IF Is("ReadDTMF") THEN received_dtmf ELSE digit_count
    /\ UNCHANGED <<call_finished, timed, silence_count>>

(* Slip: AudioReceive forgets to start counting anew.                      *)
CountsSilenceOnly(k) ==
    /\ Calls(k)
    /\ IF Is("AudioReceive") /\ active.silence
       THEN /\ silence_count' = IF k = "silence" THEN silence_count + 1 ELSE silence_count
            /\ finish' = (finish \/ (k = "silence" /\ silence_count' > SilenceLimit))
       ELSE UNCHANGED <<silence_count, finish>>
    /\ UNCHANGED <<call_finished, timed, digit_count>>

dataIn(k) ==
    /\ Calls(k)
    /\ IF Is("AudioReceive") /\ active.silence
       THEN /\ silence_count' = IF k = "silence" THEN silence_count + 1 ELSE 0
            /\ finish' = (finish \/ (k = "silence" /\ silence_count' > SilenceLimit))
       ELSE UNCHANGED <<silence_count, finish>>
    /\ UNCHANGED <<call_finished, timed, digit_count>>

CallsDeadModule ==
    /\ ~wild
    /\ capi_pc \in CallInterface
    /\ Dead
    /\ wild' = TRUE
    /\ UNCHANGED <<config, capi_pc, lineVars, fileVars, call_if, moduleVars, scriptVars,
                   faults, digitVars, packetVars>>

Callback ==
    \/ callDisconnectedPhysical \/ callDisconnectedLogical \/ callConnected
    \/ transmissionComplete \/ alerting \/ gotDTMF
    \/ \E k \in {"silence", "sound"} : dataIn(k)
    \/ CallsDeadModule

-----------------------------------------------------------------------------
(* The script's thread.                                                    *)

Goto(p) == pc' = p /\ UNCHANGED <<cmd, outcome, left>>
Step(p) == Goto(p) /\ UNCHANGED call_if

(* Where the script is after a command; the module of the last one, that   *)
(* of the call reference, is followed by the deletion of the call.         *)
AfterCommand == IF cmd = capisuitemodule_destruct_connection THEN "delete" ELSE "idle"

(* A command is over: ~CallModule deregisters the module.                  *)
Return(o) ==
    /\ call_if' = "none"
    /\ outcome' = o
    /\ pc' = AfterCommand
    /\ UNCHANGED <<cmd, left>>

(* An exception: the destructor, and then the clauses of the wrapper.      *)
Throw(e) ==
    /\ call_if' = "none"
    /\ outcome' = Outcome(e, cmd)
    /\ pc' = IF outcome' = "escaped" THEN "escaped" ELSE AfterCommand
    /\ UNCHANGED <<cmd, left>>

Fail    == faults > 0 /\ faults' = faults - 1      \* CapiMsgError
Succeed == UNCHANGED faults

Logical(mode)  == ncci_state \in {"N2", "NACT"} /\ mode \in {"ALL", "LOGICAL_ONLY"}
Physical(mode) == plci_state \in {"PACT", "P1", "P2", "P4"}
                    /\ mode \in {"ALL", "PHYSICAL_ONLY"}

disconnectCall(mode, fails) ==
    /\ IF fails THEN (Logical(mode) \/ Physical(mode)) /\ Fail ELSE Succeed
    /\ ncci_state' = IF Logical(mode) THEN "N4" ELSE ncci_state
    /\ plci_state' = IF Physical(mode) /\ ~Logical(mode) THEN "P5" ELSE plci_state
    /\ keepPhysicalConnection' =
         (keepPhysicalConnection \/ (Logical(mode) /\ mode = "LOGICAL_ONLY" /\ ~fails))
    /\ UNCHANGED <<restLine, service, pending>>

Begin(c) ==
    /\ MayRun
    /\ pc = "idle"
    /\ left > 0
    /\ left' = left - 1
    /\ (c.active.class = "CallOutgoing") = (plci_state = "none")
    /\ cmd' = c
    /\ UNCHANGED <<outside, lineVars, fileVars, call_if, moduleVars, received_dtmf, typed,
                   given, packetVars>>

Starts(c) ==
    /\ Begin(c)
    /\ c.active.class \notin {"enableDTMF", "disableDTMF"}
    /\ ~c.delay
    /\ pc' = "register"
    /\ UNCHANGED <<outcome, faults, listening>>

(* A delay before the answer is announced with ALERT_REQ.                  *)
acceptWaiting(c) ==
    /\ Begin(c)
    /\ c.delay
    /\ \/ /\ plci_state # "P2"
          /\ pc' = "idle" /\ outcome' = Outcome("CapiWrongState", c) /\ Succeed
       \/ /\ plci_state = "P2"
          /\ \/ pc' = "idle" /\ outcome' = Outcome("CapiMsgError", c) /\ Fail
             \/ pc' = "delay" /\ Succeed /\ UNCHANGED outcome
    /\ UNCHANGED listening

SetDTMF(c, on) ==
    /\ Begin(c)
    /\ pc' = "idle"
    /\ \/ /\ plci_state # "PACT"
          /\ outcome' = Outcome("CapiWrongState", c) /\ Succeed /\ UNCHANGED listening
       \/ /\ plci_state = "PACT"
          /\ \/ outcome' = Outcome("CapiMsgError", c) /\ Fail /\ UNCHANGED listening
             \/ outcome' = "ok" /\ Succeed /\ listening' = on

enableDTMF(c)  == c.active.class = "enableDTMF"  /\ SetDTMF(c, TRUE)
disableDTMF(c) == c.active.class = "disableDTMF" /\ SetDTMF(c, FALSE)

Wake ==
    /\ MayRun
    /\ pc = "delay"
    /\ Step("register")
    /\ UNCHANGED <<outside, lineVars, fileVars, moduleVars, faults, digitVars, packetVars>>

(* CallModule::CallModule up to registerCallInterface: CallOutgoing has no *)
(* Connection yet.  Nobody initializes call_finished of ReadDTMF.          *)
Register ==
    /\ MayRun
    /\ pc = "register"
    /\ finish' = FALSE
    /\ call_finished' \in IF In({"ReadDTMF"}) THEN BOOLEAN ELSE {FALSE}
    /\ timed' = (active.timed /\ ~In({"CallOutgoing"}))
    /\ silence_count' = 0
    /\ \/ plci_state = "none" /\ Step("construct")
       \/ plci_state # "none" /\ call_if' = "base" /\ Goto("registered")
    /\ UNCHANGED <<outside, lineVars, fileVars, digit_count, faults, digitVars, packetVars>>

(* The rest of it: what it throws leaves the constructor of the base class, *)
(* so that no destructor deregisters the module.                           *)
CheckConnection ==
    /\ MayRun
    /\ pc = "registered"
    /\ \/ /\ active.checkConnection /\ getState # "UP"
          /\ call_if' = "dead"
          /\ outcome' = Outcome("CapiWrongState", cmd)
          /\ pc' = "idle"
          /\ UNCHANGED <<cmd, left>>
       \/ /\ active.checkConnection => getState = "UP"
          /\ call_if' = "module"
          /\ Goto("construct")
    /\ UNCHANGED <<outside, lineVars, fileVars, moduleVars, faults, digitVars, packetVars>>

(* The constructor of the subclass.                                        *)
Construct ==
    /\ MayRun
    /\ pc = "construct"
    /\ \/ /\ service \notin active.needs \/ (In({"ConnectModule"}) /\ getState = "UP")
          /\ Throw("CapiExternalError") /\ UNCHANGED digit_count
       \/ /\ In({"ConnectModule"}) /\ getState \notin {"UP", "WAITING"}
          /\ Throw("CapiWrongState") /\ UNCHANGED digit_count
       \/ /\ service \in active.needs
          /\ In({"ConnectModule"}) => getState = "WAITING"
          /\ digit_count' = received_dtmf
          /\ Step("mainLoop")
    /\ UNCHANGED <<outside, lineVars, fileVars, finish, call_finished, timed, silence_count,
                   faults, digitVars, packetVars>>

(* CallModule::mainLoop, which is not entered if digits wait that may end  *)
(* the command.                                                            *)
AlreadyDialled == active.DTMF_exit /\ received_dtmf > 0

Awake == AlreadyDialled \/ finish \/ timed

Enters(S)   == MayRun /\ pc = "mainLoop" /\ In(S)
WakesUp(S)  == MayRun /\ pc = "sleep" /\ In(S) /\ Awake

-----------------------------------------------------------------------------
(* CallOutgoing::mainLoop.  The constructor of Connection puts CONNECT_REQ. *)

Dial ==
    /\ Enters({"CallOutgoing"})
    /\ \/ /\ Succeed
          /\ plci_state' = "P01"
          /\ service' = active.service
          /\ pending' = {"CONNECT_CONF"}
          /\ Step("dialled")
       \/ Fail /\ Throw("CapiMsgError") /\ UNCHANGED <<plci_state, service, pending>>
    /\ UNCHANGED <<outside, ncci_state, keepPhysicalConnection, restLine, fileVars,
                   moduleVars, digitVars, packetVars>>

Dialled ==
    /\ MayRun
    /\ pc = "dialled"
    /\ call_if' = "module"
    /\ Goto("sleep")
    /\ UNCHANGED <<outside, lineVars, fileVars, moduleVars, faults, digitVars, packetVars>>

CallWaited ==
    /\ WakesUp({"CallOutgoing"})
    /\ Step("evaluate")
    /\ UNCHANGED <<outside, lineVars, fileVars, moduleVars, faults, digitVars, packetVars>>

(* Slip: the call is not cleared after the timeout.                        *)
EvaluateOnly ==
    /\ MayRun
    /\ pc = "evaluate"
    /\ \/ getState = "UP" /\ Return("ok")
       \/ getState # "UP" /\ finish /\ Return("failed")
       \/ getState # "UP" /\ ~finish /\ Step("hangup")
    /\ UNCHANGED <<outside, lineVars, fileVars, moduleVars, faults, digitVars, packetVars>>

(* result 0, the cause or 2, or 1.  Nobody gets the Connection when the    *)
(* request to clear it fails.                                              *)
Evaluate ==
    /\ MayRun
    /\ pc = "evaluate"
    /\ \/ /\ getState = "UP"
          /\ Return("ok") /\ Succeed
          /\ UNCHANGED lineVars
       \/ /\ getState # "UP" /\ finish
          /\ Return("failed") /\ Succeed
          /\ UNCHANGED lineVars
       \/ /\ getState # "UP" /\ ~finish
          /\ \/ disconnectCall("ALL", FALSE) /\ Step("hangup")
             \/ /\ disconnectCall("ALL", TRUE)
                /\ call_if' = "none" /\ pc' = "lost" /\ outcome' = "BackendError"
                /\ UNCHANGED <<cmd, left>>
    /\ UNCHANGED <<outside, fileVars, moduleVars, digitVars, packetVars>>

HungUp ==
    /\ MayRun
    /\ pc = "hangup"
    /\ getState = "DOWN"
    /\ Return("timeout")
    /\ UNCHANGED <<outside, lineVars, fileVars, moduleVars, faults, digitVars, packetVars>>

-----------------------------------------------------------------------------
(* ConnectModule::mainLoop with Connection::connectWaiting, and            *)
(* DisconnectModule::mainLoop with rejectWaiting or disconnectCall.        *)

connectWaiting ==
    /\ Enters({"ConnectModule"})
    /\ \/ plci_state # "P2" /\ Throw("CapiWrongState") /\ Succeed
            /\ UNCHANGED <<plci_state, service, pending>>
       \/ /\ plci_state = "P2"
          /\ plci_state' = "P4"
          /\ \/ Fail /\ Throw("CapiMsgError") /\ UNCHANGED <<service, pending>>
             \/ /\ Succeed /\ Step("sleep")
                /\ service' = active.service
                /\ pending' = {"CONNECT_ACTIVE_IND"}
    /\ UNCHANGED <<outside, ncci_state, keepPhysicalConnection, restLine, fileVars,
                   moduleVars, digitVars, packetVars>>

Disconnect ==
    /\ Enters({"DisconnectModule"})
    /\ \/ getState = "DOWN" /\ Return("ok")
       \/ getState = "WAITING" /\ Step("reject")
       \/ getState \notin {"DOWN", "WAITING"} /\ Step("disconnect")
    /\ UNCHANGED <<outside, lineVars, fileVars, moduleVars, faults, digitVars, packetVars>>

(* CapiWrongState is caught in mainLoop.                                   *)
rejectWaiting ==
    /\ MayRun
    /\ pc = "reject"
    /\ \/ plci_state # "P2" /\ Return("ok") /\ Succeed /\ UNCHANGED plci_state
       \/ /\ plci_state = "P2"
          /\ plci_state' = "P5"
          /\ \/ Fail /\ Throw("CapiMsgError")
             \/ Succeed /\ Step("sleep")
    /\ UNCHANGED <<outside, ncci_state, service, keepPhysicalConnection, restLine, pending,
                   fileVars, moduleVars, digitVars, packetVars>>

DisconnectCall ==
    /\ MayRun
    /\ pc = "disconnect"
    /\ LET mode == IF active.quick THEN "PHYSICAL_ONLY" ELSE "ALL" IN
       \/ disconnectCall(mode, TRUE) /\ Throw("CapiMsgError")
       \/ disconnectCall(mode, FALSE) /\ Step("sleep")
    /\ UNCHANGED <<outside, fileVars, moduleVars, digitVars, packetVars>>

Waited ==
    /\ WakesUp({"ConnectModule", "DisconnectModule"})
    /\ Return("ok")
    /\ UNCHANGED <<outside, lineVars, fileVars, moduleVars, faults, digitVars, packetVars>>

-----------------------------------------------------------------------------
(* Sending and receiving.                                                  *)

(* The state is tested before the file is opened, and again with each      *)
(* block: the exception of the second test leaves the file open.           *)
start_file_transmission ==
    /\ \/ ncci_state # "NACT" /\ Throw("CapiWrongState")
       \/ ncci_state = "NACT" /\ file_to_send /\ Throw("CapiExternalError")
       \/ ncci_state = "NACT" /\ ~file_to_send /\ Step("open.send")
    /\ UNCHANGED <<outside, lineVars, fileVars, moduleVars, faults, digitVars, packetVars>>

OpenToSend ==
    /\ MayRun
    /\ pc = "open.send"
    /\ \/ Throw("CapiExternalError") /\ UNCHANGED file_to_send
       \/ Step("fill") /\ file_to_send' = TRUE
    /\ UNCHANGED <<outside, lineVars, file_for_reception, moduleVars, faults, digitVars,
                   packetVars>>

(* The buffers are full, or the file ended before, or the handler of       *)
(* DISCONNECT_B3_IND has closed it.                                        *)
Fill ==
    /\ MayRun
    /\ pc = "fill"
    /\ \/ ~file_to_send /\ Step("sleep") /\ UNCHANGED <<file_to_send, finish>>
       \/ file_to_send /\ ncci_state # "NACT" /\ Throw("CapiWrongState")
            /\ UNCHANGED <<file_to_send, finish>>
       \/ /\ file_to_send /\ ncci_state = "NACT" /\ Step("sleep")
          /\ \/ UNCHANGED <<file_to_send, finish>>
             \/ file_to_send' = FALSE /\ finish' = TRUE
    /\ UNCHANGED <<outside, lineVars, file_for_reception, call_finished, timed, digit_count,
                   silence_count, faults, digitVars, packetVars>>

(* Digits dialled before the command end it at once, if they may end it.   *)
SkipsAudio ==
    /\ Enters({"AudioSend", "AudioReceive"})
    /\ AlreadyDialled
    /\ Return("ok")
    /\ UNCHANGED <<outside, lineVars, fileVars, moduleVars, faults, digitVars, packetVars>>

SendAudio == Enters({"AudioSend"}) /\ ~AlreadyDialled /\ start_file_transmission
SendFax   == Enters({"FaxSend"}) /\ start_file_transmission

(* It waits until the driver has given all buffers back (FileTransmission). *)
stop_file_transmission ==
    /\ WakesUp({"AudioSend", "FaxSend"})
    /\ file_to_send' = FALSE
    /\ Step("stopping")
    /\ UNCHANGED <<outside, lineVars, file_for_reception, moduleVars, faults, digitVars,
                   packetVars>>

Stopped ==
    /\ MayRun
    /\ pc = "stopping"
    /\ Return("ok")
    /\ UNCHANGED <<outside, lineVars, fileVars, moduleVars, faults, digitVars, packetVars>>

(* The state is tested before the file is opened.                          *)
start_file_reception ==
    /\ \/ ncci_state # "NACT" /\ Throw("CapiWrongState")
       \/ ncci_state = "NACT" /\ file_for_reception /\ Throw("CapiExternalError")
       \/ ncci_state = "NACT" /\ ~file_for_reception /\ Step("open")
    /\ UNCHANGED <<outside, lineVars, fileVars, moduleVars, faults, digitVars, packetVars>>

ReceiveAudio == Enters({"AudioReceive"}) /\ ~AlreadyDialled /\ start_file_reception
ReceiveFax   == Enters({"FaxReceive"}) /\ start_file_reception

Open ==
    /\ MayRun
    /\ pc = "open"
    /\ \/ Throw("CapiExternalError") /\ UNCHANGED <<file_for_reception, blocks, quiet>>
       \/ /\ Step("sleep")
          /\ file_for_reception' = TRUE
          /\ blocks' = 0
          /\ quiet' = 0
    /\ UNCHANGED <<outside, lineVars, file_to_send, moduleVars, faults, digitVars, packets>>

(* Slip: after a timeout the file stays open.                              *)
stop_file_reception_in_time ==
    /\ WakesUp({"AudioReceive", "FaxReceive"})
    /\ file_for_reception' = (file_for_reception /\ ~finish)
    /\ IF In({"AudioReceive"}) THEN Step("truncate") ELSE Return("ok")
    /\ UNCHANGED <<outside, lineVars, file_to_send, moduleVars, faults, digitVars, packetVars>>

stop_file_reception ==
    /\ WakesUp({"AudioReceive", "FaxReceive"})
    /\ file_for_reception' = FALSE
    /\ IF In({"AudioReceive"}) THEN Step("truncate") ELSE Return("ok")
    /\ UNCHANGED <<outside, lineVars, file_to_send, moduleVars, faults, digitVars, packetVars>>

(* AudioReceive cuts off all but one of the tolerated silent packets; a    *)
(* file can not be made shorter than nothing.                              *)
Truncate ==
    /\ MayRun
    /\ pc = "truncate"
    /\ \/ /\ active.silence /\ silence_count > SilenceLimit
          /\ IF blocks + 1 < SilenceLimit
             THEN Throw("CapiExternalError") /\ UNCHANGED <<blocks, quiet>>
             ELSE /\ Return("ok")
                  /\ blocks' = blocks + 1 - SilenceLimit
                  /\ quiet' = IF quiet + 1 < SilenceLimit THEN 0 ELSE quiet + 1 - SilenceLimit
       \/ /\ active.silence => silence_count <= SilenceLimit
          /\ Return("ok") /\ UNCHANGED <<blocks, quiet>>
    /\ UNCHANGED <<outside, lineVars, fileVars, moduleVars, faults, digitVars, packets>>

-----------------------------------------------------------------------------
(* ReadDTMF, Switch2FaxG3.                                                 *)

Read ==
    /\ Enters({"ReadDTMF"})
    /\ IF active.max_digits = 0 \/ digit_count < active.max_digits
       THEN Step("sleep") /\ finish' = FALSE
       ELSE Step("fetch") /\ UNCHANGED finish
    /\ UNCHANGED <<outside, lineVars, fileVars, call_finished, timed, digit_count,
                   silence_count, faults, digitVars, packetVars>>

(* Another round when digits are missing.                                  *)
ReadWaited ==
    /\ WakesUp({"ReadDTMF"})
    /\ IF ~call_finished /\ digit_count < active.min_digits
       THEN finish' = FALSE /\ UNCHANGED <<scriptVars, call_if>>
       ELSE Step("fetch") /\ UNCHANGED finish
    /\ UNCHANGED <<outside, lineVars, fileVars, call_finished, timed, digit_count,
                   silence_count, faults, digitVars, packetVars>>

(* capisuite_read_DTMF goes on with getDTMF, and then clearDTMF.           *)
getDTMF ==
    /\ MayRun
    /\ pc = "fetch"
    /\ given' = given + received_dtmf
    /\ Step("clear")
    /\ UNCHANGED <<outside, lineVars, fileVars, moduleVars, faults, received_dtmf,
                   listening, typed, packetVars>>

(* Slip: the digits stay in the buffer.                                    *)
clearNothing ==
    /\ MayRun
    /\ pc = "clear"
    /\ Return("ok")
    /\ UNCHANGED <<outside, lineVars, fileVars, moduleVars, faults, digitVars, packetVars>>

clearDTMF ==
    /\ MayRun
    /\ pc = "clear"
    /\ received_dtmf' = 0
    /\ Return("ok")
    /\ UNCHANGED <<outside, lineVars, fileVars, moduleVars, faults, listening, typed, given,
                   packetVars>>

Switch ==
    /\ Enters({"Switch2FaxG3"})
    /\ \/ disconnectCall("LOGICAL_ONLY", TRUE) /\ Throw("CapiMsgError")
       \/ disconnectCall("LOGICAL_ONLY", FALSE) /\ Step("sleep")
    /\ UNCHANGED <<outside, fileVars, moduleVars, digitVars, packetVars>>

SwitchWaited ==
    /\ WakesUp({"Switch2FaxG3"})
    /\ finish' = FALSE
    /\ Step("change")
    /\ UNCHANGED <<outside, lineVars, fileVars, call_finished, timed, digit_count,
                   silence_count, faults, digitVars, packetVars>>

(* Nothing is asked for if the service is the old one.                     *)
changeProtocol ==
    /\ MayRun
    /\ pc = "change"
    /\ LET ready == plci_state = "PACT" /\ ncci_state = "N0" IN
       \/ ~ready /\ Throw("CapiWrongState") /\ Succeed /\ UNCHANGED <<service, pending>>
       \/ ready /\ service = "FAXG3" /\ Step("sleep.again") /\ Succeed
            /\ UNCHANGED <<service, pending>>
       \/ /\ ready /\ service # "FAXG3"
          /\ \/ Fail /\ Throw("CapiMsgError") /\ UNCHANGED <<service, pending>>
             \/ /\ Succeed /\ Step("sleep.again")
                /\ pending' = {"SELECT_B_PROTOCOL_CONF"}
                /\ service' = "FAXG3"
    /\ UNCHANGED <<outside, plci_state, ncci_state, keepPhysicalConnection, restLine,
                   fileVars, moduleVars, digitVars, packetVars>>

Switched ==
    /\ MayRun
    /\ pc = "sleep.again"
    /\ Awake
    /\ Return("ok")
    /\ UNCHANGED <<outside, lineVars, fileVars, moduleVars, faults, digitVars, packetVars>>

-----------------------------------------------------------------------------
(* The end of the script drops the call reference: the module of           *)
(* capisuitemodule_destruct_connection, then Connection::~Connection, which *)
(* asks for the end again if the module did not wait for it (plci_state is *)
(* P5 then: nothing is put), and waits.                                    *)

Drop ==
    /\ MayRun
    /\ pc = "idle"
    /\ \/ plci_state = "none" /\ pc' = "deleted" /\ UNCHANGED cmd
       \/ getState = "DOWN" /\ pc' = "delete" /\ UNCHANGED cmd
       \/ /\ plci_state # "none" /\ getState # "DOWN"
          /\ pc' = "register"
          /\ cmd' = capisuitemodule_destruct_connection
    /\ UNCHANGED <<outcome, left, moduleVars, outside, lineVars, fileVars, call_if, faults,
                   digitVars, packetVars>>

Delete ==
    /\ MayRun
    /\ pc = "delete"
    /\ file_to_send' = FALSE
    /\ file_for_reception' = FALSE
    /\ IF getState = "DOWN"
       THEN Step("deleted") /\ UNCHANGED <<lineVars, faults>>
       ELSE disconnectCall("PHYSICAL_ONLY", FALSE) /\ Step("delete.wait")
    /\ UNCHANGED <<outside, moduleVars, digitVars, packetVars>>

Deleted ==
    /\ MayRun
    /\ pc = "delete.wait"
    /\ getState = "DOWN"
    /\ Step("deleted")
    /\ UNCHANGED <<outside, lineVars, fileVars, moduleVars, faults, digitVars, packetVars>>

-----------------------------------------------------------------------------
Handle ==
    \/ connect_conf \/ info_ind_alerting \/ connect_active_ind
    \/ connect_b3_conf \/ connect_b3_ind \/ connect_b3_active_ind
    \/ select_b_protocol_conf
    \/ disconnect_b3_ind \/ disconnect_b3_resp \/ disconnect_ind
    \/ disconnect_ind_refused
    \/ \E silent \in BOOLEAN : data_b3_ind(silent)
    \/ facility_ind_DTMF \/ file_completed

Command == \E c \in config.commands :
    Starts(c) \/ acceptWaiting(c) \/ enableDTMF(c) \/ disableDTMF(c)

Continue ==
    \/ Wake \/ Register \/ CheckConnection \/ Construct
    \/ Dial \/ Dialled \/ CallWaited \/ Evaluate \/ HungUp
    \/ connectWaiting \/ Disconnect \/ rejectWaiting \/ DisconnectCall \/ Waited
    \/ SkipsAudio \/ SendAudio \/ SendFax \/ OpenToSend \/ Fill
    \/ stop_file_transmission \/ Stopped
    \/ ReceiveAudio \/ ReceiveFax \/ Open \/ stop_file_reception \/ Truncate
    \/ Read \/ ReadWaited \/ getDTMF \/ clearDTMF
    \/ Switch \/ SwitchWaited \/ changeProtocol \/ Switched
    \/ Delete \/ Deleted

Next == Handle \/ Callback \/ Command \/ Continue \/ Drop

Spec == Init /\ [][Next]_vars

(* Both threads go on; the network confirms and does what it was asked for. *)
(* What the other side does - answer, hang up, talk, dial - is its affair.  *)
Fairness ==
    /\ WF_vars(Continue)
    /\ WF_vars(Callback)
    /\ WF_vars(disconnect_b3_resp)
    /\ WF_vars(connect_conf)
    /\ WF_vars(connect_b3_conf)
    /\ WF_vars(disconnect_b3_ind /\ (ncci_state = "N4" \/ plci_state = "P5"))
    /\ WF_vars(disconnect_ind /\ plci_state = "P5")

FairSpec == Spec /\ Fairness

-----------------------------------------------------------------------------
(* Properties.                                                             *)

(* No command leaves a file open, however it ends, so that the next one    *)
(* can open its own.  (The end of the link between the two tests of        *)
(* start_file_transmission leaves its file open.)                          *)
FilesAreClosed ==
    pc \in {"idle", "lost", "deleted"} =>
        ~file_for_reception /\ (config.overlap \/ ~file_to_send)

(* disconnect and reject return without an exception only when the call is *)
(* down: the script may delete it.  (Threads that run while the other does *)
(* may have the base class take the logical end for the physical one.)     *)
DisconnectedIsDown ==
    [][~config.overlap /\ In({"DisconnectModule"}) /\ pc \in Inside /\ pc' \in Outside
         /\ outcome' = "ok" => getState' = "DOWN"]_vars

(* Every digit dialled is in the buffer or was given to the script, once.  *)
DigitsAreKept ==
    ~config.overlap =>
        typed = given + IF pc = "clear" THEN 0 ELSE received_dtmf

(* What is cut off a recording for its silence is silent.                  *)
CutsSilence ==
    [][~config.overlap /\ pc = "truncate" => blocks - blocks' <= quiet]_vars

(* The end of the call ends the command under way, whichever it is.        *)
DownEndsCommand ==
    (~config.overlap /\ plci_state = "P0") ~> (pc \in Outside \/ wild)

(* Disconnecting comes to an end when all requests reach the driver: the   *)
(* reference can always be dropped, unless DISCONNECT_IND was refused.     *)
DisconnectEnds ==
    (~config.overlap /\ config.faults = 0 /\ In({"DisconnectModule"}) /\ pc \in Inside)
      ~> (pc \in Outside \/ wild \/ gone)

(* Once the other side rings, a call with a timeout comes to an end, again *)
(* unless DISCONNECT_IND was refused: nothing ends the wait for DOWN then. *)
TimeoutEndsCall ==
    (~config.overlap /\ config.faults = 0 /\ In({"CallOutgoing"}) /\ pc = "sleep" /\ timed)
      ~> (pc \in Outside \/ gone)

(* A callback calls a module that is alive.                                *)
CallbacksReachModules == ~wild

(* As long as the call goes on, read_DTMF gives the digits it was asked    *)
(* for.                                                                    *)
ReadsMinimum ==
    [][In({"ReadDTMF"}) /\ pc = "sleep" /\ pc' = "fetch" /\ getState = "UP"
         => received_dtmf >= active.min_digits]_vars
=============================================================================
