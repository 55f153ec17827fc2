------------------------- MODULE CallModulesProofs --------------------------
(* What holds of the commands of a script for any script, any number of    *)
(* faults, digits and packets, with both threads interleaved.              *)
EXTENDS CallModules, TLAPS

(* The type invariant in the parts the steps disturb together; the counts  *)
(* are bounded by what the other side dialled and sent.                    *)
CapiType   == capi_pc \in CapiPCs /\ config \in Configurations /\ wild \in BOOLEAN
LineType ==
    /\ plci_state \in PlciStates /\ ncci_state \in NcciStates
    /\ our_call \in BOOLEAN /\ service \in Services
    /\ keepPhysicalConnection \in BOOLEAN /\ our_disconnect_req \in BOOLEAN
    /\ gone \in BOOLEAN /\ pending \subseteq Owed
FileType   == file_to_send \in BOOLEAN /\ file_for_reception \in BOOLEAN
IfType     == call_if \in CallIfs
FlagType   == finish \in BOOLEAN /\ call_finished \in BOOLEAN /\ timed \in BOOLEAN
ScriptType == pc \in PCs /\ cmd \in Commands /\ outcome \in Outcomes /\ left \in Nat
FaultType  == faults \in Nat
DigitType ==
    /\ received_dtmf \in Nat /\ typed \in Nat /\ given \in Nat /\ digit_count \in Nat
    /\ listening \in BOOLEAN
    /\ received_dtmf <= typed /\ typed <= MaxDigits /\ digit_count <= MaxDigits
PacketType ==
    /\ silence_count \in Nat /\ quiet \in Nat /\ blocks \in Nat /\ packets \in Nat
    /\ packets <= MaxPackets /\ quiet <= packets /\ blocks <= packets
    /\ silence_count <= packets
    /\ capi_pc \in {"silence", "sound"} => silence_count + 1 <= packets

TypeInv ==
    /\ CapiType /\ LineType /\ FileType /\ IfType /\ FlagType /\ ScriptType /\ FaultType
    /\ DigitType /\ PacketType

USE DEF lineVars, fileVars, moduleVars, digitVars, packetVars, scriptVars, outside,
        restLine, elsewhere

LEMMA TypeImplies == TypeInv => ModulesTypeOK
  <1> SUFFICES ASSUME TypeInv PROVE ModulesTypeOK
    OBVIOUS
  <1>1. ConnectionTypeOK
    BY DEF TypeInv, LineType, FileType, IfType, ConnectionTypeOK
  <1>2. digit_count \in 0 .. MaxDigits /\ silence_count \in 0 .. MaxPackets
    BY ModulesAssumption DEF TypeInv, DigitType, PacketType
  <1>3. ModuleTypeOK
    BY <1>2 DEF TypeInv, FlagType, ModuleTypeOK
  <1>4. ThreadTypeOK
    BY DEF TypeInv, CapiType, ScriptType, FaultType, ThreadTypeOK
  <1>5. CountTypeOK
    BY ModulesAssumption DEF TypeInv, DigitType, PacketType, CountTypeOK
  <1> QED
    BY <1>1, <1>3, <1>4, <1>5 DEF ModulesTypeOK

LEMMA Names ==
    /\ CallInterface \subseteq CapiPCs /\ {"run", "disconnect_b3_ind.resp"} \subseteq CapiPCs
    /\ {"alerting", "callConnected", "callDisconnectedLogical", "callDisconnectedPhysical",
        "transmissionComplete", "gotDTMF", "silence", "sound"} = CallInterface
    /\ {"none", "P0", "P01", "P1", "P2", "P4", "P5", "PACT"} \subseteq PlciStates
    /\ {"N0", "N01", "N2", "N4", "N5", "NACT"} \subseteq NcciStates
    /\ {"VOICE", "FAXG3"} = Services
    /\ {"CONNECT_CONF", "INFO_IND", "CONNECT_ACTIVE_IND", "CONNECT_B3_CONF",
        "CONNECT_B3_IND", "SELECT_B_PROTOCOL_CONF"} \subseteq Owed
    /\ {"none", "base", "module", "dead"} \subseteq CallIfs
    /\ {"idle", "drop", "delete", "delete.wait", "deleted", "lost", "escaped", "delay",
        "register", "registered", "construct", "mainLoop", "sleep", "dialled", "evaluate",
        "hangup", "open", "truncate", "reject", "disconnect", "change", "sleep.again",
        "fetch", "clear", "open.send", "fill", "stopping"} \subseteq PCs
    /\ {"none", "ok", "timeout", "failed", "CallGoneError", "BackendError", "escaped"}
         \subseteq Outcomes
  BY DEF CallInterface, CapiPCs, PlciStates, NcciStates, Services, Owed, CallIfs, PCs, Inside,
         Outside, Outcomes

(* The command that drops the reference is one like the others.            *)
LEMMA DestructIsCommand == capisuitemodule_destruct_connection \in Commands
  <1>1. CallModule(FALSE, FALSE, FALSE) \in Modules
    BY DEF CallModule, Modules, Classes, Services, Exceptions, CallInterface
  <1>2. DisconnectModule(TRUE) \in Modules
    BY <1>1 DEF DisconnectModule, CallModule, Modules, Classes, Services, Exceptions,
                CallInterface
  <1> QED
    BY <1>2 DEF capisuitemodule_destruct_connection, Wrapper, Commands, Exceptions

LEMMA TypeInit == Init => TypeInv
  <1> SUFFICES ASSUME Init PROVE TypeInv
    OBVIOUS
  <1>1. /\ config.outgoing \in BOOLEAN /\ config.faults \in Nat /\ config.length \in Nat
    BY ModulesAssumption DEF Init
  <1>2. CapiType /\ FileType /\ IfType /\ FlagType
    BY Names DEF Init, CapiType, FileType, IfType, FlagType
  <1>3. LineType
    BY <1>1, Names DEF Init, LineType
  <1>4. ScriptType /\ FaultType
    BY <1>1, Names, DestructIsCommand DEF Init, ScriptType, FaultType
  <1>5. MaxDigits \in Nat /\ 0 <= MaxDigits /\ MaxPackets \in Nat /\ 0 <= MaxPackets
    BY ModulesAssumption
  <1>6. DigitType
    <2>1. received_dtmf = 0 /\ typed = 0 /\ given = 0 /\ digit_count = 0
      BY DEF Init
    <2>2. listening \in BOOLEAN
      BY DEF Init
    <2> QED
      BY <1>5, <2>1, <2>2 DEF DigitType
  <1>7. capi_pc \notin {"silence", "sound"}
    BY DEF Init
  <1>8. PacketType
    BY <1>5, <1>7 DEF Init, PacketType
  <1> QED
    BY <1>2, <1>3, <1>4, <1>6, <1>8 DEF TypeInv

(* What a step leaves alone keeps its type.                                *)
LEMMA Kept ==
    ASSUME TypeInv
    PROVE  /\ UNCHANGED outside => CapiType'
           /\ UNCHANGED lineVars => LineType'
           /\ UNCHANGED fileVars => FileType'
           /\ UNCHANGED call_if => IfType'
           /\ UNCHANGED <<finish, call_finished, timed>> => FlagType'
           /\ UNCHANGED scriptVars => ScriptType'
           /\ UNCHANGED faults => FaultType'
           /\ UNCHANGED <<digitVars, digit_count>> => DigitType'
           /\ UNCHANGED <<packetVars, silence_count, capi_pc>> => PacketType'
  BY DEF TypeInv, CapiType, LineType, FileType, IfType, FlagType, ScriptType, FaultType,
         DigitType, PacketType

LEMMA QuietPacket ==
    ASSUME TypeInv, capi_pc' \notin {"silence", "sound"}, UNCHANGED <<packetVars, silence_count>>
    PROVE  PacketType'
  BY DEF TypeInv, PacketType

(* A handler leaves the script alone.                                      *)
LEMMA ThenType ==
    ASSUME TypeInv, NEW k \in CapiPCs, Then(k)
    PROVE  /\ CapiType' /\ IfType' /\ FlagType' /\ ScriptType' /\ FaultType'
           /\ UNCHANGED <<digit_count, silence_count>>
           /\ k \notin {"silence", "sound"} /\ UNCHANGED packetVars => PacketType'
  <1>1. CapiType'
    BY DEF TypeInv, CapiType, Then
  <1>2. k \notin {"silence", "sound"} /\ UNCHANGED packetVars => PacketType'
    BY QuietPacket DEF Then
  <1> QED
    BY <1>1, <1>2, Kept DEF Then

(* How a step of the script ends.                                          *)
LEMMA GotoType ==
    ASSUME TypeInv, NEW p \in PCs, Goto(p)
    PROVE  ScriptType'
  BY DEF TypeInv, ScriptType, Goto

LEMMA StepType ==
    ASSUME TypeInv, NEW p \in PCs, Step(p)
    PROVE  ScriptType' /\ IfType'
  BY GotoType, Kept DEF Step

LEMMA AfterType == AfterCommand \in PCs
  BY Names DEF AfterCommand

LEMMA ReturnType ==
    ASSUME TypeInv, NEW o \in Outcomes, Return(o)
    PROVE  ScriptType' /\ IfType'
  BY AfterType, Names DEF TypeInv, ScriptType, IfType, Return

LEMMA OutcomeType == ASSUME NEW e, NEW w PROVE Outcome(e, w) \in Outcomes
  BY Names DEF Outcome

LEMMA ThrowType ==
    ASSUME TypeInv, NEW e, Throw(e)
    PROVE  ScriptType' /\ IfType'
  BY AfterType, OutcomeType, Names DEF TypeInv, ScriptType, IfType, Throw

LEMMA FailType == ASSUME TypeInv, Fail \/ Succeed PROVE FaultType'
  BY DEF TypeInv, FaultType, Fail, Succeed

LEMMA DisconnectType ==
    ASSUME TypeInv, NEW mode, NEW fails \in BOOLEAN, disconnectCall(mode, fails)
    PROVE  LineType' /\ FaultType'
  <1>1. FaultType'
    BY FailType DEF disconnectCall
  <1>2. plci_state' \in PlciStates /\ ncci_state' \in NcciStates
    BY Names DEF TypeInv, LineType, disconnectCall
  <1>3. keepPhysicalConnection' \in BOOLEAN
    BY DEF disconnectCall, TypeInv, LineType
  <1> QED
    BY <1>1, <1>2, <1>3 DEF disconnectCall, TypeInv, LineType

-----------------------------------------------------------------------------
(* The message thread.                                                     *)

LEMMA TypeOutgoingCall ==
    ASSUME TypeInv,
           connect_conf \/ info_ind_alerting \/ connect_active_ind \/ connect_b3_conf
    PROVE  TypeInv'
  <1>1. CASE connect_conf
    <2>1. LineType'
      BY <1>1, Names DEF connect_conf, TypeInv, LineType
    <2> QED
      BY <1>1, <2>1, ThenType, Kept, Names DEF connect_conf, TypeInv
  <1>2. CASE info_ind_alerting
    <2>1. LineType'
      BY <1>2, Names DEF info_ind_alerting, TypeInv, LineType
    <2> QED
      BY <1>2, <2>1, ThenType, Kept, Names DEF info_ind_alerting, TypeInv
  <1>3. CASE connect_active_ind
    <2>1. LineType'
      BY <1>3, Names DEF connect_active_ind, TypeInv, LineType
    <2> QED
      BY <1>3, <2>1, ThenType, Kept, Names DEF connect_active_ind, TypeInv
  <1>4. CASE connect_b3_conf
    <2>1. LineType'
      BY <1>4, Names DEF connect_b3_conf, TypeInv, LineType
    <2> QED
      BY <1>4, <2>1, ThenType, Kept, Names DEF connect_b3_conf, TypeInv
  <1> QED
    BY <1>1, <1>2, <1>3, <1>4

LEMMA TypeLink ==
    ASSUME TypeInv,
           connect_b3_ind \/ connect_b3_active_ind \/ select_b_protocol_conf
    PROVE  TypeInv'
  <1>1. CASE connect_b3_ind
    <2>1. LineType'
      BY <1>1, Names DEF connect_b3_ind, TypeInv, LineType
    <2> QED
      BY <1>1, <2>1, ThenType, Kept, Names DEF connect_b3_ind, TypeInv
  <1>2. CASE connect_b3_active_ind
    <2>1. LineType'
      BY <1>2, Names DEF connect_b3_active_ind, TypeInv, LineType
    <2> QED
      BY <1>2, <2>1, ThenType, Kept, Names DEF connect_b3_active_ind, TypeInv
  <1>3. CASE select_b_protocol_conf
    <2>1. LineType'
      BY <1>3, Names DEF select_b_protocol_conf, TypeInv, LineType
    <2> QED
      BY <1>3, <2>1, ThenType, Kept, Names DEF select_b_protocol_conf, TypeInv
  <1> QED
    BY <1>1, <1>2, <1>3

LEMMA TypeHangUp ==
    ASSUME TypeInv,
           disconnect_b3_ind \/ disconnect_b3_resp \/ disconnect_ind \/ disconnect_ind_refused
    PROVE  TypeInv'
  <1>1. CASE disconnect_b3_ind
    <2>1. LineType' /\ FileType'
      BY <1>1, Names DEF disconnect_b3_ind, TypeInv, LineType, FileType
    <2> QED
      BY <1>1, <2>1, ThenType, Kept, Names DEF disconnect_b3_ind, TypeInv
  <1>2. CASE disconnect_b3_resp
    <2>1. LineType'
      BY <1>2, Names DEF disconnect_b3_resp, TypeInv, LineType
    <2> QED
      BY <1>2, <2>1, ThenType, Kept, Names DEF disconnect_b3_resp, TypeInv
  <1>3. CASE disconnect_ind
    <2>1. LineType'
      BY <1>3, Names DEF disconnect_ind, TypeInv, LineType
    <2> QED
      BY <1>3, <2>1, ThenType, Kept, Names DEF disconnect_ind, TypeInv
  <1>4. CASE disconnect_ind_refused
    <2>1. LineType'
      BY <1>4 DEF disconnect_ind_refused, TypeInv, LineType
    <2> QED
      BY <1>4, <2>1, ThenType, Kept, Names DEF disconnect_ind_refused, TypeInv
  <1> QED
    BY <1>1, <1>2, <1>3, <1>4

LEMMA TypeData ==
    ASSUME TypeInv,
           (\E silent \in BOOLEAN : data_b3_ind(silent)) \/ facility_ind_DTMF \/ file_completed
    PROVE  TypeInv'
  <1>1. ASSUME NEW silent \in BOOLEAN, data_b3_ind(silent) PROVE TypeInv'
    <2>1. /\ CapiType' /\ IfType' /\ FlagType' /\ ScriptType' /\ FaultType'
          /\ UNCHANGED <<digit_count, silence_count>>
      BY <1>1, ThenType, Names DEF data_b3_ind
    <2>2. packets' = packets + 1 /\ packets + 1 <= MaxPackets
      BY <1>1, ModulesAssumption DEF data_b3_ind, TypeInv, PacketType
    <2>3. \/ blocks' = blocks + 1 /\ (quiet' = quiet + 1 \/ quiet' = 0)
          \/ blocks' = blocks /\ quiet' = quiet
      BY <1>1 DEF data_b3_ind
    <2>4. PacketType'
      BY <2>1, <2>2, <2>3 DEF TypeInv, PacketType
    <2> QED
      BY <1>1, <2>1, <2>4, Kept DEF data_b3_ind, TypeInv
  <1>2. CASE facility_ind_DTMF
    <2>1. typed' = typed + 1 /\ typed + 1 <= MaxDigits /\ received_dtmf' = received_dtmf + 1
      BY <1>2, ModulesAssumption DEF facility_ind_DTMF, TypeInv, DigitType
    <2>2. UNCHANGED <<listening, given, digit_count>>
      BY <1>2, ThenType, Names DEF facility_ind_DTMF
    <2>3. DigitType'
      BY <2>1, <2>2 DEF TypeInv, DigitType
    <2> QED
      BY <1>2, <2>3, ThenType, Kept, Names DEF facility_ind_DTMF, TypeInv
  <1>3. CASE file_completed
    <2>1. FileType'
      BY <1>3 DEF file_completed, TypeInv, FileType
    <2> QED
      BY <1>3, <2>1, ThenType, Kept, Names DEF file_completed, TypeInv
  <1> QED
    BY <1>1, <1>2, <1>3

LEMMA TypeHandle == ASSUME TypeInv, Handle PROVE TypeInv'
  BY TypeOutgoingCall, TypeLink, TypeHangUp, TypeData DEF Handle

(* A callback leaves all but the module alone.                             *)
LEMMA CallsType ==
    ASSUME TypeInv, NEW k \in CallInterface, Calls(k)
    PROVE  /\ CapiType' /\ LineType' /\ FileType' /\ IfType' /\ ScriptType' /\ FaultType'
           /\ capi_pc' \notin {"silence", "sound"} /\ UNCHANGED <<packetVars, digitVars>>
  <1>1. CapiType'
    BY Names DEF TypeInv, CapiType, Calls
  <1> QED
    BY <1>1, Kept DEF Calls

LEMMA TypeCallback == ASSUME TypeInv, Callback PROVE TypeInv'
  <1>1. CASE callDisconnectedPhysical \/ callDisconnectedLogical
    <2>1. FlagType'
      <3>1. finish' \in BOOLEAN /\ call_finished' \in BOOLEAN /\ UNCHANGED timed
        BY <1>1 DEF callDisconnectedPhysical, callDisconnectedLogical
      <3> QED
        BY <3>1 DEF TypeInv, FlagType
    <2> QED
      BY <1>1, <2>1, CallsType, QuietPacket, Kept, Names
      DEF callDisconnectedPhysical, callDisconnectedLogical, TypeInv
  <1>2. CASE callConnected \/ transmissionComplete
    <2>1. FlagType'
      <3>1. finish' \in BOOLEAN /\ UNCHANGED <<call_finished, timed>>
        BY <1>2 DEF callConnected, transmissionComplete
      <3> QED
        BY <3>1 DEF TypeInv, FlagType
    <2> QED
      BY <1>2, <2>1, CallsType, QuietPacket, Kept, Names
      DEF callConnected, transmissionComplete, TypeInv
  <1>3. CASE alerting
    <2>1. FlagType'
      BY <1>3 DEF alerting, TypeInv, FlagType, ScriptType, active, Commands, Modules
    <2> QED
      BY <1>3, <2>1, CallsType, QuietPacket, Kept, Names DEF alerting, TypeInv
  <1>4. CASE gotDTMF
    <2>1. FlagType'
      <3>1. finish' \in BOOLEAN /\ UNCHANGED <<call_finished, timed>>
        BY <1>4 DEF gotDTMF
      <3> QED
        BY <3>1 DEF TypeInv, FlagType
    <2>2. DigitType'
      <3>1. UNCHANGED digitVars /\ (digit_count' = received_dtmf \/ digit_count' = digit_count)
        BY <1>4, CallsType, Names DEF gotDTMF
      <3> QED
        BY <3>1, ModulesAssumption DEF TypeInv, DigitType
    <2> QED
      BY <1>4, <2>1, <2>2, CallsType, QuietPacket, Kept, Names DEF gotDTMF, TypeInv
  <1>5. ASSUME NEW k \in {"silence", "sound"}, dataIn(k) PROVE TypeInv'
    <2>1. k \in CallInterface /\ capi_pc \in {"silence", "sound"}
      BY <1>5, Names DEF dataIn, Calls
    <2>2. FlagType'
      <3>1. finish' \in BOOLEAN /\ UNCHANGED <<call_finished, timed>>
        BY <1>5 DEF dataIn, TypeInv, FlagType
      <3> QED
        BY <3>1 DEF TypeInv, FlagType
    <2>3. PacketType'
      <3>1. silence_count' = silence_count + 1 \/ silence_count' = 0
              \/ silence_count' = silence_count
        BY <1>5 DEF dataIn
      <3>2. capi_pc' \notin {"silence", "sound"} /\ UNCHANGED packetVars
        BY <1>5, <2>1, CallsType DEF dataIn
      <3> QED
        BY <2>1, <3>1, <3>2 DEF TypeInv, PacketType
    <2> QED
      BY <1>5, <2>1, <2>2, <2>3, CallsType, Kept DEF dataIn, TypeInv
  <1>6. CASE CallsDeadModule
    <2>1. CapiType'
      BY <1>6 DEF CallsDeadModule, TypeInv, CapiType
    <2> QED
      BY <1>6, <2>1, Kept DEF CallsDeadModule, TypeInv
  <1> QED
    BY <1>1, <1>2, <1>3, <1>4, <1>5, <1>6 DEF Callback

-----------------------------------------------------------------------------
(* The script's thread.                                                    *)

LEMMA BeginType ==
    ASSUME TypeInv, NEW c \in config.commands, Begin(c), pc' \in PCs, outcome' \in Outcomes
    PROVE  /\ CapiType' /\ LineType' /\ FileType' /\ IfType' /\ FlagType' /\ ScriptType'
           /\ PacketType' /\ UNCHANGED <<received_dtmf, typed, given, digit_count>>
  <1>1. c \in Commands
    BY ModulesAssumption DEF TypeInv, CapiType
  <1>2. ScriptType'
    BY <1>1 DEF Begin, TypeInv, ScriptType
  <1> QED
    BY <1>2, Kept DEF Begin

LEMMA ListenType ==
    ASSUME TypeInv, UNCHANGED <<received_dtmf, typed, given, digit_count>>,
           listening' \in BOOLEAN
    PROVE  DigitType'
  BY DEF TypeInv, DigitType

LEMMA TypeCommand == ASSUME TypeInv, Command PROVE TypeInv'
  <1> SUFFICES ASSUME NEW c \in config.commands,
                      Starts(c) \/ acceptWaiting(c) \/ enableDTMF(c) \/ disableDTMF(c)
               PROVE  TypeInv'
    BY DEF Command
  <1>1. listening \in BOOLEAN /\ outcome \in Outcomes
    BY DEF TypeInv, DigitType, ScriptType
  <1>2. CASE Starts(c)
    <2>1. pc' \in PCs /\ outcome' \in Outcomes /\ listening' \in BOOLEAN
      BY <1>1, <1>2, Names DEF Starts
    <2> QED
      BY <1>2, <2>1, BeginType, ListenType, Kept DEF Starts, TypeInv
  <1>3. CASE acceptWaiting(c)
    <2>1. pc' \in PCs /\ outcome' \in Outcomes /\ listening' \in BOOLEAN
      BY <1>1, <1>3, Names, OutcomeType DEF acceptWaiting
    <2>2. Fail \/ Succeed
      BY <1>3 DEF acceptWaiting
    <2> QED
      BY <1>3, <2>1, <2>2, BeginType, ListenType, FailType DEF acceptWaiting, TypeInv
  <1>4. ASSUME NEW on \in BOOLEAN, SetDTMF(c, on) PROVE TypeInv'
    <2>1. pc' \in PCs /\ outcome' \in Outcomes /\ listening' \in BOOLEAN
      BY <1>1, <1>4, Names, OutcomeType DEF SetDTMF
    <2>2. Fail \/ Succeed
      BY <1>4 DEF SetDTMF
    <2> QED
      BY <1>4, <2>1, <2>2, BeginType, ListenType, FailType DEF SetDTMF, TypeInv
  <1> QED
    BY <1>2, <1>3, <1>4 DEF enableDTMF, disableDTMF

(* A step that leaves line, files, module and counts alone.                *)
LEMMA ScriptOnly ==
    ASSUME TypeInv, ScriptType', IfType', FaultType',
           UNCHANGED <<outside, lineVars, fileVars, moduleVars, digitVars, packetVars>>
    PROVE  TypeInv'
  BY Kept DEF TypeInv

LEMMA TypeBegins ==
    ASSUME TypeInv, Wake \/ Register \/ CheckConnection \/ Construct
    PROVE  TypeInv'
  <1>1. CASE Wake
    BY <1>1, StepType, ScriptOnly, Kept, Names DEF Wake
  <1>2. CASE Register
    <2>1. ScriptType' /\ IfType'
      BY <1>2, StepType, GotoType, Names DEF Register, IfType
    <2>2. FlagType'
      BY <1>2 DEF Register, TypeInv, FlagType, ScriptType, active, Commands, Modules
    <2>3. PacketType'
      <3>1. silence_count' = 0 /\ UNCHANGED <<packetVars, capi_pc>>
        BY <1>2 DEF Register
      <3> QED
        BY <3>1 DEF TypeInv, PacketType
    <2> QED
      BY <1>2, <2>1, <2>2, <2>3, Kept DEF Register, TypeInv
  <1>3. CASE CheckConnection
    <2>1. CASE Goto("construct") /\ call_if' = "module"
      BY <1>3, <2>1, GotoType, ScriptOnly, Kept, Names DEF CheckConnection, IfType
    <2>2. CASE ~(Goto("construct") /\ call_if' = "module")
      <3>1. pc' = "idle" /\ outcome' \in Outcomes /\ call_if' = "dead" /\ UNCHANGED <<cmd, left>>
        BY <1>3, <2>2, OutcomeType DEF CheckConnection
      <3>2. ScriptType' /\ IfType'
        BY <3>1, Names DEF TypeInv, ScriptType, IfType
      <3> QED
        BY <1>3, <3>2, ScriptOnly, Kept DEF CheckConnection
    <2> QED
      BY <2>1, <2>2
  <1>4. CASE Construct
    <2>1. ScriptType' /\ IfType'
      BY <1>4, StepType, ThrowType, Names DEF Construct
    <2>2. DigitType'
      <3>1. UNCHANGED digitVars /\ (digit_count' = received_dtmf \/ digit_count' = digit_count)
        BY <1>4 DEF Construct
      <3> QED
        BY <3>1, ModulesAssumption DEF TypeInv, DigitType
    <2> QED
      BY <1>4, <2>1, <2>2, Kept DEF Construct, TypeInv
  <1> QED
    BY <1>1, <1>2, <1>3, <1>4

LEMMA TypeCall ==
    ASSUME TypeInv, Dial \/ Dialled \/ CallWaited \/ Evaluate \/ HungUp
    PROVE  TypeInv'
  <1>1. CASE Dial
    <2>1. ScriptType' /\ IfType' /\ FaultType'
      BY <1>1, StepType, ThrowType, FailType, Names DEF Dial
    <2>2. LineType'
      <3>1. active.service \in Services
        BY DEF TypeInv, ScriptType, active, Commands, Modules
      <3> QED
        BY <1>1, <3>1, Names DEF Dial, TypeInv, LineType
    <2> QED
      BY <1>1, <2>1, <2>2, Kept DEF Dial, TypeInv
  <1>2. CASE Dialled
    BY <1>2, GotoType, ScriptOnly, Kept, Names DEF Dialled, IfType
  <1>3. CASE CallWaited
    BY <1>3, StepType, ScriptOnly, Kept, Names DEF CallWaited
  <1>4. CASE Evaluate
    <2>1. LineType' /\ FaultType'
      BY <1>4, DisconnectType, FailType, Kept DEF Evaluate
    <2>2. ScriptType' /\ IfType'
      <3>1. CASE Return("ok") \/ Return("failed") \/ Step("hangup")
        BY <3>1, ReturnType, StepType, Names
      <3>2. CASE call_if' = "none" /\ pc' = "lost" /\ outcome' = "BackendError"
                   /\ UNCHANGED <<cmd, left>>
        BY <3>2, Names DEF TypeInv, ScriptType, IfType
      <3> QED
        BY <1>4, <3>1, <3>2 DEF Evaluate
    <2> QED
      BY <1>4, <2>1, <2>2, Kept DEF Evaluate, TypeInv
  <1>5. CASE HungUp
    BY <1>5, ReturnType, ScriptOnly, Kept, Names DEF HungUp
  <1> QED
    BY <1>1, <1>2, <1>3, <1>4, <1>5

LEMMA TypeLeave ==
    ASSUME TypeInv,
           connectWaiting \/ Disconnect \/ rejectWaiting \/ DisconnectCall \/ Waited
    PROVE  TypeInv'
  <1>1. CASE connectWaiting
    <2>1. ScriptType' /\ IfType' /\ FaultType'
      BY <1>1, StepType, ThrowType, FailType, Names DEF connectWaiting
    <2>2. LineType'
      <3>1. active.service \in Services
        BY DEF TypeInv, ScriptType, active, Commands, Modules
      <3> QED
        BY <1>1, <3>1, Names DEF connectWaiting, TypeInv, LineType
    <2> QED
      BY <1>1, <2>1, <2>2, Kept DEF connectWaiting, TypeInv
  <1>2. CASE Disconnect
    BY <1>2, StepType, ReturnType, ScriptOnly, Kept, Names DEF Disconnect
  <1>3. CASE rejectWaiting
    <2>1. ScriptType' /\ IfType' /\ FaultType'
      BY <1>3, StepType, ReturnType, ThrowType, FailType, Names DEF rejectWaiting
    <2>2. LineType'
      BY <1>3, Names DEF rejectWaiting, TypeInv, LineType
    <2> QED
      BY <1>3, <2>1, <2>2, Kept DEF rejectWaiting, TypeInv
  <1>4. CASE DisconnectCall
    <2>1. LineType' /\ FaultType'
      BY <1>4, DisconnectType DEF DisconnectCall
    <2>2. ScriptType' /\ IfType'
      BY <1>4, StepType, ThrowType, Names DEF DisconnectCall
    <2> QED
      BY <1>4, <2>1, <2>2, Kept DEF DisconnectCall, TypeInv
  <1>5. CASE Waited
    BY <1>5, ReturnType, ScriptOnly, Kept, Names DEF Waited
  <1> QED
    BY <1>1, <1>2, <1>3, <1>4, <1>5

(* The steps of a command that sends a file.                               *)
Sending ==
    \/ SendAudio \/ SendFax \/ OpenToSend \/ Fill
    \/ stop_file_transmission \/ Stopped

LEMMA TypeSending ==
    ASSUME TypeInv, SkipsAudio \/ Sending
    PROVE  TypeInv'
  <1>1. CASE SkipsAudio
    BY <1>1, ReturnType, ScriptOnly, Kept, Names DEF SkipsAudio
  <1>2. CASE start_file_transmission
    BY <1>2, StepType, ThrowType, ScriptOnly, Kept, Names DEF start_file_transmission
  <1>3. CASE OpenToSend
    <2>1. ScriptType' /\ IfType'
      BY <1>3, StepType, ThrowType, Names DEF OpenToSend
    <2>2. FileType'
      BY <1>3 DEF OpenToSend, TypeInv, FileType
    <2> QED
      BY <1>3, <2>1, <2>2, Kept DEF OpenToSend, TypeInv
  <1>4. CASE Fill
    <2>1. ScriptType' /\ IfType'
      BY <1>4, StepType, ThrowType, Names DEF Fill
    <2>2. FileType' /\ FlagType'
      BY <1>4 DEF Fill, TypeInv, FileType, FlagType
    <2> QED
      BY <1>4, <2>1, <2>2, Kept DEF Fill, TypeInv
  <1>5. CASE stop_file_transmission
    <2>1. ScriptType' /\ IfType'
      BY <1>5, StepType, Names DEF stop_file_transmission
    <2>2. FileType'
      BY <1>5 DEF stop_file_transmission, TypeInv, FileType
    <2> QED
      BY <1>5, <2>1, <2>2, Kept DEF stop_file_transmission, TypeInv
  <1>6. CASE Stopped
    BY <1>6, ReturnType, ScriptOnly, Kept, Names DEF Stopped
  <1> QED
    BY <1>1, <1>2, <1>3, <1>4, <1>5, <1>6 DEF Sending, SendAudio, SendFax

LEMMA TypeReceiving ==
    ASSUME TypeInv, ReceiveAudio \/ ReceiveFax \/ Open \/ stop_file_reception \/ Truncate
    PROVE  TypeInv'
  <1>1. CASE start_file_reception
    BY <1>1, StepType, ThrowType, ScriptOnly, Kept, Names DEF start_file_reception
  <1>2. CASE Open
    <2>1. ScriptType' /\ IfType'
      BY <1>2, StepType, ThrowType, Names DEF Open
    <2>2. FileType'
      BY <1>2 DEF Open, TypeInv, FileType
    <2>3. PacketType'
      <3>1. UNCHANGED <<packets, silence_count, capi_pc>>
              /\ \/ blocks' = 0 /\ quiet' = 0
                 \/ UNCHANGED <<blocks, quiet>>
        BY <1>2 DEF Open
      <3> QED
        BY <3>1 DEF TypeInv, PacketType
    <2> QED
      BY <1>2, <2>1, <2>2, <2>3, Kept DEF Open, TypeInv
  <1>3. CASE stop_file_reception
    <2>1. ScriptType' /\ IfType'
      BY <1>3, StepType, ReturnType, Names DEF stop_file_reception
    <2>2. FileType'
      BY <1>3 DEF stop_file_reception, TypeInv, FileType
    <2> QED
      BY <1>3, <2>1, <2>2, Kept DEF stop_file_reception, TypeInv
  <1>4. CASE Truncate
    <2>1. ScriptType' /\ IfType'
      BY <1>4, ReturnType, ThrowType, Names DEF Truncate
    <2>2. PacketType'
      <3>1. UNCHANGED <<packets, silence_count, capi_pc>>
        BY <1>4 DEF Truncate
      <3>2. CASE UNCHANGED <<blocks, quiet>>
        BY <3>1, <3>2 DEF TypeInv, PacketType
      <3>3. CASE ~UNCHANGED <<blocks, quiet>>
        <4>1. ~(blocks + 1 < SilenceLimit) /\ blocks' = blocks + 1 - SilenceLimit
                /\ quiet' = IF quiet + 1 < SilenceLimit THEN 0 ELSE quiet + 1 - SilenceLimit
          BY <1>4, <3>3 DEF Truncate
        <4> QED
          BY <3>1, <4>1, ModulesAssumption DEF TypeInv, PacketType
      <3> QED
        BY <3>2, <3>3
    <2> QED
      BY <1>4, <2>1, <2>2, Kept DEF Truncate, TypeInv
  <1> QED
    BY <1>1, <1>2, <1>3, <1>4 DEF ReceiveAudio, ReceiveFax

LEMMA TypeDigits ==
    ASSUME TypeInv, Read \/ ReadWaited \/ getDTMF \/ clearDTMF
    PROVE  TypeInv'
  <1>1. CASE Read
    <2>1. ScriptType' /\ IfType'
      BY <1>1, StepType, Names DEF Read
    <2>2. FlagType'
      BY <1>1 DEF Read, TypeInv, FlagType
    <2> QED
      BY <1>1, <2>1, <2>2, Kept DEF Read, TypeInv
  <1>2. CASE ReadWaited
    <2>1. ScriptType' /\ IfType'
      BY <1>2, StepType, Kept, Names DEF ReadWaited
    <2>2. FlagType'
      BY <1>2 DEF ReadWaited, TypeInv, FlagType
    <2> QED
      BY <1>2, <2>1, <2>2, Kept DEF ReadWaited, TypeInv
  <1>3. CASE getDTMF
    <2>1. ScriptType' /\ IfType'
      BY <1>3, StepType, Names DEF getDTMF
    <2>2. DigitType'
      BY <1>3 DEF getDTMF, TypeInv, DigitType
    <2> QED
      BY <1>3, <2>1, <2>2, Kept DEF getDTMF, TypeInv
  <1>4. CASE clearDTMF
    <2>1. ScriptType' /\ IfType'
      BY <1>4, ReturnType, Names DEF clearDTMF
    <2>2. DigitType'
      BY <1>4 DEF clearDTMF, TypeInv, DigitType
    <2> QED
      BY <1>4, <2>1, <2>2, Kept DEF clearDTMF, TypeInv
  <1> QED
    BY <1>1, <1>2, <1>3, <1>4

LEMMA TypeSwitch ==
    ASSUME TypeInv, Switch \/ SwitchWaited \/ changeProtocol \/ Switched
    PROVE  TypeInv'
  <1>1. CASE Switch
    <2>1. LineType' /\ FaultType'
      BY <1>1, DisconnectType DEF Switch
    <2>2. ScriptType' /\ IfType'
      BY <1>1, StepType, ThrowType, Names DEF Switch
    <2> QED
      BY <1>1, <2>1, <2>2, Kept DEF Switch, TypeInv
  <1>2. CASE SwitchWaited
    <2>1. ScriptType' /\ IfType'
      BY <1>2, StepType, Names DEF SwitchWaited
    <2>2. FlagType'
      BY <1>2 DEF SwitchWaited, TypeInv, FlagType
    <2> QED
      BY <1>2, <2>1, <2>2, Kept DEF SwitchWaited, TypeInv
  <1>3. CASE changeProtocol
    <2>1. ScriptType' /\ IfType' /\ FaultType'
      BY <1>3, StepType, ThrowType, FailType, Names DEF changeProtocol
    <2>2. LineType'
      <3>1. service' \in Services /\ pending' \subseteq Owed
        BY <1>3, Names DEF changeProtocol, TypeInv, LineType
      <3>2. UNCHANGED <<plci_state, ncci_state, keepPhysicalConnection, restLine>>
        BY <1>3 DEF changeProtocol
      <3> QED
        BY <3>1, <3>2 DEF TypeInv, LineType
    <2> QED
      BY <1>3, <2>1, <2>2, Kept DEF changeProtocol, TypeInv
  <1>4. CASE Switched
    BY <1>4, ReturnType, ScriptOnly, Kept, Names DEF Switched
  <1> QED
    BY <1>1, <1>2, <1>3, <1>4

LEMMA TypeEnd ==
    ASSUME TypeInv, Drop \/ Delete \/ Deleted
    PROVE  TypeInv'
  <1>1. CASE Drop
    <2>1. ScriptType'
      BY <1>1, DestructIsCommand, Names DEF Drop, TypeInv, ScriptType
    <2> QED
      BY <1>1, <2>1, ScriptOnly, Kept DEF Drop
  <1>2. CASE Delete
    <2>1. LineType' /\ FaultType'
      BY <1>2, DisconnectType, Kept DEF Delete
    <2>2. ScriptType' /\ IfType'
      BY <1>2, StepType, Names DEF Delete
    <2>3. FileType'
      BY <1>2 DEF Delete, FileType
    <2> QED
      BY <1>2, <2>1, <2>2, <2>3, Kept DEF Delete, TypeInv
  <1>3. CASE Deleted
    BY <1>3, StepType, ScriptOnly, Kept, Names DEF Deleted
  <1> QED
    BY <1>1, <1>2, <1>3

LEMMA TypeStutter == ASSUME TypeInv, UNCHANGED vars PROVE TypeInv'
  BY Kept DEF vars, TypeInv

LEMMA TypeNext == ASSUME TypeInv, [Next]_vars PROVE TypeInv'
  <1>1. CASE Continue
    BY <1>1, TypeBegins, TypeCall, TypeLeave, TypeSending, TypeReceiving, TypeDigits,
       TypeSwitch, TypeEnd DEF Continue, Sending
  <1> QED
    BY <1>1, TypeHandle, TypeCallback, TypeCommand, TypeEnd, TypeStutter DEF Next

(* Connection, module, threads and counters have values of their types,    *)
(* and no counter passes what the other side dialled and sent: whatever    *)
(* commands the script gives and however the two threads interleave.       *)
THEOREM ModulesTypeCorrect == Spec => []ModulesTypeOK
  <1>1. Init => TypeInv
    BY TypeInit
  <1>2. TypeInv /\ [Next]_vars => TypeInv'
    BY TypeNext
  <1>3. TypeInv => ModulesTypeOK
    BY TypeImplies
  <1> QED
    BY <1>1, <1>2, <1>3, PTL DEF Spec

LEMMA TypeAlways == Spec => []TypeInv
  BY TypeInit, TypeNext, PTL DEF Spec
-----------------------------------------------------------------------------
(* The commands: which class a place belongs to, and where files are open. *)

PlaceInv ==
    /\ pc = "open" => In({"AudioReceive", "FaxReceive"})
    /\ pc = "truncate" => In({"AudioReceive"})
    /\ pc = "dialled" => In({"CallOutgoing"})
    /\ pc \in {"reject", "disconnect"} => In({"DisconnectModule"})
    /\ pc \in {"open.send", "fill", "stopping"} => In({"AudioSend", "FaxSend"})

(* Without overlap the link does not end between the two tests of          *)
(* start_file_transmission.                                                *)
FileInv ==
    /\ ~config.overlap =>
         /\ file_to_send => pc \in {"fill", "sleep"} /\ In({"AudioSend", "FaxSend"})
         /\ pc \in {"open.send", "fill"} => ncci_state = "NACT"
    /\ file_for_reception => pc = "sleep" /\ In({"AudioReceive", "FaxReceive"})

DigitInv == ~config.overlap => typed = given + IF pc = "clear" THEN 0 ELSE received_dtmf

(* The call: what the states say of each other and of what is owed.        *)
LineInv ==
    /\ ncci_state # "N0" => plci_state \in {"PACT", "P5"}
    /\ ncci_state \in {"N2", "NACT", "N4", "N5"} => pending = {}
    /\ "CONNECT_CONF" \in pending => plci_state = "P01"
    /\ capi_pc \in {"callDisconnectedLogical", "disconnect_b3_ind.resp"} => ncci_state = "N5"

NewCallInv ==
    /\ In({"CallOutgoing"}) /\ pc \in {"delay", "register", "registered", "construct", "mainLoop"}
         => plci_state = "none"
    /\ In({"AudioReceive"}) => plci_state # "none"

(* A recording under way counts no more silent packets than its file ends  *)
(* with, and nothing but packets can come.                                 *)
RegisteredInv ==
    In({"AudioReceive"}) /\ pc \in {"construct", "mainLoop", "open", "sleep", "truncate"}
      => call_if = "module"

AsleepInv == ~config.overlap /\ capi_pc # "run" => pc \in Asleep

OpenInv ==
    ~config.overlap =>
      /\ pc = "open" => ncci_state = "NACT"
      /\ In({"AudioReceive"}) /\ pc \in {"registered", "construct", "mainLoop", "open"}
           => silence_count = 0

RecordInv ==
    ~config.overlap /\ In({"AudioReceive"}) /\ pc \in {"sleep", "truncate"} =>
      /\ pending = {}
      /\ ncci_state \in {"NACT", "N5", "N0"}
      /\ ncci_state = "NACT" /\ pc = "sleep" => file_for_reception

CountInv ==
    ~config.overlap /\ In({"AudioReceive"}) /\ pc \in {"sleep", "truncate"} /\ active.silence =>
      /\ capi_pc \notin {"silence", "sound"} => silence_count <= quiet
      /\ capi_pc = "silence" => silence_count + 1 <= quiet

(* What the threads leave alone.                                           *)
LEMMA HandleFrame ==
    ASSUME Handle
    PROVE  /\ UNCHANGED <<config, call_if, moduleVars, scriptVars, faults, wild>>
           /\ config.overlap \/ pc \in Asleep \/ capi_pc = "disconnect_b3_ind.resp"
           /\ (file_to_send' => file_to_send) /\ (file_for_reception' => file_for_reception)
  <1>1. connect_conf \/ info_ind_alerting \/ connect_active_ind \/ connect_b3_conf
          => UNCHANGED <<config, call_if, moduleVars, scriptVars, faults, wild, fileVars>>
             /\ (config.overlap \/ pc \in Asleep)
    BY DEF connect_conf, info_ind_alerting, connect_active_ind, connect_b3_conf, Then, MayHandle
  <1>2. connect_b3_ind \/ connect_b3_active_ind \/ select_b_protocol_conf \/ disconnect_ind
          => UNCHANGED <<config, call_if, moduleVars, scriptVars, faults, wild, fileVars>>
             /\ (config.overlap \/ pc \in Asleep)
    BY DEF connect_b3_ind, connect_b3_active_ind, select_b_protocol_conf, disconnect_ind, Then,
           MayHandle
  <1>3. disconnect_b3_ind
          => UNCHANGED <<config, call_if, moduleVars, scriptVars, faults, wild>>
             /\ (config.overlap \/ pc \in Asleep) /\ ~file_to_send' /\ ~file_for_reception'
    BY DEF disconnect_b3_ind, Then, MayHandle
  <1>4. disconnect_b3_resp \/ disconnect_ind_refused
          => UNCHANGED <<config, call_if, moduleVars, scriptVars, faults, wild, fileVars>>
             /\ (config.overlap \/ pc \in Asleep \/ capi_pc = "disconnect_b3_ind.resp")
    BY DEF disconnect_b3_resp, disconnect_ind_refused, MayHandle, Then
  <1>5. ASSUME NEW silent \in BOOLEAN, data_b3_ind(silent)
        PROVE  UNCHANGED <<config, call_if, moduleVars, scriptVars, faults, wild, fileVars>>
                 /\ (config.overlap \/ pc \in Asleep)
    BY <1>5 DEF data_b3_ind, Then, MayHandle
  <1>6. facility_ind_DTMF \/ file_completed
          => UNCHANGED <<config, call_if, moduleVars, scriptVars, faults, wild,
                         file_for_reception>>
             /\ (config.overlap \/ pc \in Asleep) /\ (file_to_send' => file_to_send)
    BY DEF facility_ind_DTMF, file_completed, Then, MayHandle
  <1> QED
    BY <1>1, <1>2, <1>3, <1>4, <1>5, <1>6 DEF Handle

LEMMA CallbackFrame ==
    ASSUME Callback
    PROVE  /\ UNCHANGED <<config, lineVars, fileVars, call_if, scriptVars, faults, digitVars,
                          packetVars>>
           /\ capi_pc # "run"
  BY DEF Callback, callDisconnectedPhysical, callDisconnectedLogical, callConnected,
         transmissionComplete, alerting, gotDTMF, dataIn, CallsDeadModule, Calls, CallInterface

(* After a command the script is outside of it.                            *)
LEMMA Leaving ==
    ASSUME NEW o, Return(o) \/ Throw(o)
    PROVE  pc' \in Outside /\ UNCHANGED cmd /\ call_if' = "none"
  BY DEF Return, Throw, AfterCommand, Outside

LEMMA OutsideIsElsewhere ==
    \A p \in Outside :
      p \notin {"open", "truncate", "dialled", "reject", "disconnect", "sleep", "clear",
                "delay", "register", "registered", "construct", "mainLoop", "fetch",
                "evaluate", "hangup", "change", "sleep.again", "open.send", "fill", "stopping"}
  BY DEF Outside

LEMMA AsleepIsElsewhere ==
    \A p \in Asleep :
      p \notin {"open", "truncate", "clear", "fetch", "registered", "construct", "mainLoop",
                "reject", "disconnect", "open.send", "fill"}
  BY DEF Asleep

(* The steps of a script, by what they do to pc and cmd.                   *)
LEMMA CommandMoves ==
    ASSUME Command
    PROVE  pc = "idle" /\ pc' \in {"idle", "delay", "register"}
  BY DEF Command, Starts, acceptWaiting, enableDTMF, disableDTMF, SetDTMF, Begin

LEMMA BeginMoves ==
    ASSUME Wake \/ Register \/ CheckConnection \/ Construct
    PROVE  /\ pc' \in {"register", "registered", "construct", "mainLoop"} \cup Outside
           /\ pc \in {"delay", "register", "registered", "construct"} /\ UNCHANGED cmd
  <1>1. Wake \/ Register \/ CheckConnection
          => pc' \in {"register", "registered", "construct", "mainLoop"} \cup Outside
             /\ pc \in {"delay", "register", "registered", "construct"} /\ UNCHANGED cmd
    BY DEF Wake, Register, CheckConnection, Step, Goto, Outside
  <1>2. Construct
          => pc' \in {"register", "registered", "construct", "mainLoop"} \cup Outside
             /\ pc \in {"delay", "register", "registered", "construct"} /\ UNCHANGED cmd
    BY Leaving DEF Construct, Step, Goto
  <1> QED
    BY <1>1, <1>2

LEMMA CallMoves ==
    ASSUME Dial \/ CallWaited \/ Evaluate \/ HungUp
    PROVE  /\ pc' \in {"dialled", "evaluate", "hangup"} \cup Outside /\ UNCHANGED cmd
           /\ pc' = "dialled" => In({"CallOutgoing"})
           /\ pc = "sleep" => In({"CallOutgoing"})
           /\ pc \in {"mainLoop", "sleep", "evaluate", "hangup"}
  <1>1. Dial => /\ pc = "mainLoop" /\ In({"CallOutgoing"}) /\ UNCHANGED cmd
                /\ pc' \in {"dialled"} \cup Outside
    BY Leaving DEF Dial, Enters, Step, Goto
  <1>2. CallWaited => /\ pc = "sleep" /\ In({"CallOutgoing"}) /\ UNCHANGED cmd
                      /\ pc' = "evaluate"
    BY DEF CallWaited, WakesUp, Step, Goto
  <1>3. Evaluate => pc = "evaluate" /\ UNCHANGED cmd /\ pc' \in {"hangup"} \cup Outside
    BY Leaving DEF Evaluate, Step, Goto, Outside
  <1>4. HungUp => pc = "hangup" /\ UNCHANGED cmd /\ pc' \in Outside
    BY Leaving DEF HungUp
  <1> QED
    BY <1>1, <1>2, <1>3, <1>4, OutsideIsElsewhere

LEMMA LeaveMoves ==
    ASSUME PlaceInv, connectWaiting \/ Disconnect \/ rejectWaiting \/ DisconnectCall \/ Waited
    PROVE  /\ pc' \in {"reject", "disconnect", "sleep"} \cup Outside /\ UNCHANGED cmd
           /\ pc' \in {"reject", "disconnect"} => In({"DisconnectModule"})
           /\ In({"ConnectModule", "DisconnectModule"})
           /\ pc \in {"mainLoop", "reject", "disconnect", "sleep"}
  <1>1. connectWaiting => /\ pc = "mainLoop" /\ In({"ConnectModule"}) /\ UNCHANGED cmd
                          /\ pc' \in {"sleep"} \cup Outside
    BY Leaving DEF connectWaiting, Enters, Step, Goto
  <1>2. Disconnect => /\ pc = "mainLoop" /\ In({"DisconnectModule"}) /\ UNCHANGED cmd
                      /\ pc' \in {"reject", "disconnect"} \cup Outside
    BY Leaving DEF Disconnect, Enters, Step, Goto
  <1>3. rejectWaiting \/ DisconnectCall
          => /\ pc \in {"reject", "disconnect"} /\ In({"DisconnectModule"}) /\ UNCHANGED cmd
             /\ pc' \in {"sleep"} \cup Outside
    BY Leaving DEF rejectWaiting, DisconnectCall, Step, Goto, PlaceInv
  <1>4. Waited => /\ pc = "sleep" /\ In({"ConnectModule", "DisconnectModule"})
                  /\ UNCHANGED cmd /\ pc' \in Outside
    BY Leaving DEF Waited, WakesUp
  <1>5. In({"ConnectModule"}) \/ In({"DisconnectModule"})
          => In({"ConnectModule", "DisconnectModule"})
    BY DEF In
  <1> QED
    BY <1>1, <1>2, <1>3, <1>4, <1>5, OutsideIsElsewhere

LEMMA SendMoves ==
    ASSUME PlaceInv, Sending
    PROVE  /\ pc' \in {"open.send", "fill", "stopping", "sleep"} \cup Outside
           /\ UNCHANGED <<cmd, file_for_reception, ncci_state>>
           /\ In({"AudioSend", "FaxSend"})
           /\ pc \in {"mainLoop", "open.send", "fill", "stopping", "sleep"}
           /\ file_to_send' => \/ pc' \in {"fill", "sleep"}
                             \/ /\ pc # "sleep" /\ file_to_send
                                /\ pc = "fill" => ncci_state # "NACT"
           /\ pc' = "open.send" => ncci_state = "NACT"
           /\ pc' = "fill" => pc = "open.send"
  <1>1. SendAudio \/ SendFax
          => /\ pc = "mainLoop" /\ In({"AudioSend", "FaxSend"})
             /\ UNCHANGED <<cmd, fileVars, ncci_state>>
             /\ pc' \in {"open.send"} \cup Outside
             /\ pc' = "open.send" => ncci_state = "NACT"
    BY Leaving, OutsideIsElsewhere
    DEF SendAudio, SendFax, Enters, In, start_file_transmission, Step, Goto
  <1>2. OpenToSend
          => /\ pc = "open.send" /\ In({"AudioSend", "FaxSend"})
             /\ UNCHANGED <<cmd, file_for_reception, ncci_state>>
             /\ pc' \in {"fill"} \cup Outside
             /\ file_to_send' => pc' = "fill" \/ file_to_send
    BY Leaving DEF OpenToSend, Step, Goto, PlaceInv
  <1>3. Fill
          => /\ pc = "fill" /\ In({"AudioSend", "FaxSend"})
             /\ UNCHANGED <<cmd, file_for_reception, ncci_state>>
             /\ pc' \in {"sleep"} \cup Outside
             /\ file_to_send' => pc' = "sleep" \/ (file_to_send /\ ncci_state # "NACT")
    BY Leaving DEF Fill, Step, Goto, PlaceInv
  <1>4. stop_file_transmission
          => /\ pc = "sleep" /\ In({"AudioSend", "FaxSend"})
             /\ UNCHANGED <<cmd, file_for_reception, ncci_state>>
             /\ pc' = "stopping" /\ ~file_to_send'
    BY DEF stop_file_transmission, WakesUp, Step, Goto
  <1>5. Stopped
          => /\ pc = "stopping" /\ In({"AudioSend", "FaxSend"})
             /\ UNCHANGED <<cmd, fileVars, ncci_state>> /\ pc' \in Outside
    BY Leaving DEF Stopped, PlaceInv
  <1> QED
    BY <1>1, <1>2, <1>3, <1>4, <1>5, OutsideIsElsewhere DEF Sending

LEMMA SkipMoves ==
    ASSUME SkipsAudio
    PROVE  pc = "mainLoop" /\ pc' \in Outside /\ UNCHANGED <<cmd, fileVars>>
  BY Leaving DEF SkipsAudio, Enters

LEMMA ReceiveMoves ==
    ASSUME PlaceInv,
           ReceiveAudio \/ ReceiveFax \/ Open \/ stop_file_reception \/ Truncate
    PROVE  /\ pc' \in {"open", "sleep", "truncate"} \cup Outside
           /\ UNCHANGED <<cmd, file_to_send>>
           /\ In({"AudioReceive", "FaxReceive"})
           /\ pc \in {"mainLoop", "open", "sleep", "truncate"}
           /\ pc' = "truncate" => In({"AudioReceive"})
           /\ file_for_reception' => pc' = "sleep" \/ (file_for_reception /\ pc # "sleep")
  <1>1. ReceiveAudio \/ ReceiveFax
          => /\ pc = "mainLoop" /\ In({"AudioReceive", "FaxReceive"}) /\ UNCHANGED <<cmd, fileVars>>
             /\ pc' \in {"open"} \cup Outside
    BY Leaving DEF ReceiveAudio, ReceiveFax, Enters, In, start_file_reception, Step, Goto
  <1>2. Open
          => /\ pc = "open" /\ In({"AudioReceive", "FaxReceive"}) /\ UNCHANGED <<cmd, file_to_send>>
             /\ pc' \in {"sleep"} \cup Outside
             /\ file_for_reception' => pc' = "sleep" \/ file_for_reception
    BY Leaving DEF Open, Step, Goto, PlaceInv
  <1>3. stop_file_reception
          => /\ pc = "sleep" /\ In({"AudioReceive", "FaxReceive"})
             /\ UNCHANGED <<cmd, file_to_send>>
             /\ pc' \in {"truncate"} \cup Outside /\ ~file_for_reception'
             /\ (pc' = "truncate" => In({"AudioReceive"}))
    BY Leaving, OutsideIsElsewhere DEF stop_file_reception, WakesUp, Step, Goto
  <1>4. Truncate
          => /\ pc = "truncate" /\ In({"AudioReceive"}) /\ UNCHANGED <<cmd, fileVars>>
             /\ pc' \in Outside
    BY Leaving DEF Truncate, PlaceInv
  <1>5. In({"AudioReceive"}) => In({"AudioReceive", "FaxReceive"})
    BY DEF In
  <1> QED
    BY <1>1, <1>2, <1>3, <1>4, <1>5, OutsideIsElsewhere

LEMMA DigitMoves ==
    ASSUME Read \/ ReadWaited \/ getDTMF \/ clearDTMF
    PROVE  /\ UNCHANGED <<cmd, fileVars>>
           /\ pc \in {"mainLoop", "sleep"} => In({"ReadDTMF"})
           /\ pc \in {"mainLoop", "sleep", "fetch", "clear"}
           /\ pc' \in {"sleep", "fetch", "clear"} \cup Outside
           /\ pc' = "sleep" => In({"ReadDTMF"})
  <1>1. Read => /\ pc = "mainLoop" /\ In({"ReadDTMF"}) /\ UNCHANGED <<cmd, fileVars>>
                /\ pc' \in {"sleep", "fetch"}
    BY DEF Read, Enters, Step, Goto
  <1>2. ReadWaited => /\ pc = "sleep" /\ In({"ReadDTMF"}) /\ UNCHANGED <<cmd, fileVars>>
                      /\ pc' \in {"sleep", "fetch"}
    BY DEF ReadWaited, WakesUp, Step, Goto
  <1>3. getDTMF => pc = "fetch" /\ UNCHANGED <<cmd, fileVars>> /\ pc' = "clear"
    BY DEF getDTMF, Step, Goto
  <1>4. clearDTMF => pc = "clear" /\ UNCHANGED <<cmd, fileVars>> /\ pc' \in Outside
    BY Leaving DEF clearDTMF
  <1> QED
    BY <1>1, <1>2, <1>3, <1>4, OutsideIsElsewhere

LEMMA SwitchMoves ==
    ASSUME Switch \/ SwitchWaited \/ changeProtocol \/ Switched
    PROVE  /\ UNCHANGED <<cmd, fileVars>>
           /\ pc \in {"mainLoop", "sleep"} => In({"Switch2FaxG3"})
           /\ pc \in {"mainLoop", "sleep", "change", "sleep.again"}
           /\ pc' \in {"sleep", "change", "sleep.again"} \cup Outside
           /\ pc' = "sleep" => In({"Switch2FaxG3"})
  <1>1. Switch => /\ pc = "mainLoop" /\ In({"Switch2FaxG3"}) /\ UNCHANGED <<cmd, fileVars>>
                  /\ pc' \in {"sleep"} \cup Outside
    BY Leaving DEF Switch, Enters, Step, Goto
  <1>2. SwitchWaited => /\ pc = "sleep" /\ In({"Switch2FaxG3"}) /\ UNCHANGED <<cmd, fileVars>>
                        /\ pc' = "change"
    BY DEF SwitchWaited, WakesUp, Step, Goto
  <1>3. changeProtocol => /\ pc = "change" /\ UNCHANGED <<cmd, fileVars>>
                          /\ pc' \in {"sleep.again"} \cup Outside
    BY Leaving DEF changeProtocol, Step, Goto
  <1>4. Switched => pc = "sleep.again" /\ UNCHANGED <<cmd, fileVars>> /\ pc' \in Outside
    BY Leaving DEF Switched
  <1> QED
    BY <1>1, <1>2, <1>3, <1>4, OutsideIsElsewhere

LEMMA EndMoves ==
    ASSUME Delete \/ Deleted
    PROVE  /\ UNCHANGED cmd /\ pc' \in Outside /\ pc \in Outside
           /\ (file_to_send' => file_to_send) /\ (file_for_reception' => file_for_reception)
  <1>1. Delete => pc = "delete" /\ pc' \in {"deleted", "delete.wait"} /\ UNCHANGED cmd
    BY DEF Delete, Step, Goto
  <1>2. Delete => file_to_send' = FALSE /\ file_for_reception' = FALSE
    BY DEF Delete
  <1>3. Deleted => /\ pc = "delete.wait" /\ pc' = "deleted" /\ UNCHANGED cmd
                   /\ UNCHANGED fileVars
    BY DEF Deleted, Step, Goto
  <1> QED
    BY <1>1, <1>2, <1>3 DEF Outside

LEMMA DropMoves ==
    ASSUME Drop
    PROVE  /\ pc = "idle" /\ UNCHANGED fileVars
           /\ pc' \in Outside \/ (pc' = "register" /\ cmd' = capisuitemodule_destruct_connection)
  BY DEF Drop, Outside

LEMMA DialledMoves ==
    ASSUME PlaceInv, Dialled
    PROVE  pc = "dialled" /\ pc' = "sleep" /\ In({"CallOutgoing"}) /\ UNCHANGED <<cmd, fileVars>>
  BY DEF Dialled, Goto, PlaceInv

LEMMA FilesElsewhere ==
    ASSUME \/ Command \/ Wake \/ Register \/ CheckConnection \/ Construct \/ Dial \/ CallWaited
           \/ Evaluate \/ HungUp \/ connectWaiting \/ Disconnect \/ rejectWaiting
           \/ DisconnectCall \/ Waited
    PROVE  UNCHANGED fileVars
  <1>1. Command => UNCHANGED fileVars
    BY DEF Command, Starts, acceptWaiting, enableDTMF, disableDTMF, SetDTMF, Begin
  <1> QED
    BY <1>1 DEF Wake, Register, CheckConnection, Construct, Dial, CallWaited, Evaluate, HungUp,
                connectWaiting, Disconnect, rejectWaiting, DisconnectCall, Waited

(* The class of a command does not change under way.                       *)
LEMMA SameClass == ASSUME UNCHANGED cmd, NEW S PROVE In(S)' <=> In(S)
  BY DEF In, active

-----------------------------------------------------------------------------
(* Places and files.                                                       *)

LEMMA PlaceInit == Init => PlaceInv /\ FileInv
  BY DEF Init, PlaceInv, FileInv

LEMMA PlaceNext == ASSUME PlaceInv, [Next]_vars PROVE PlaceInv'
  <1>1. CASE UNCHANGED <<pc, cmd>>
    BY <1>1, SameClass DEF PlaceInv
  <1>2. CASE pc' \notin {"open", "truncate", "dialled", "reject", "disconnect", "open.send",
                        "fill", "stopping"}
    BY <1>2 DEF PlaceInv
  <1>3. CASE Handle \/ Callback \/ UNCHANGED vars
    BY <1>1, <1>3, HandleFrame, CallbackFrame DEF vars
  <1>4. CASE Command \/ Wake \/ Register \/ CheckConnection \/ Construct
    BY <1>2, <1>4, CommandMoves, BeginMoves, OutsideIsElsewhere
  <1>5. CASE Dial \/ CallWaited \/ Evaluate \/ HungUp
    BY <1>5, CallMoves, OutsideIsElsewhere, SameClass DEF PlaceInv
  <1>6. CASE connectWaiting \/ Disconnect \/ rejectWaiting \/ DisconnectCall \/ Waited
    BY <1>6, LeaveMoves, OutsideIsElsewhere, SameClass DEF PlaceInv
  <1>7. CASE ReceiveAudio \/ ReceiveFax \/ Open \/ stop_file_reception \/ Truncate
    BY <1>7, ReceiveMoves, OutsideIsElsewhere, SameClass DEF PlaceInv
  <1>8. CASE SkipsAudio \/ Dialled
    BY <1>2, <1>8, SkipMoves, DialledMoves, OutsideIsElsewhere DEF PlaceInv
  <1>11. CASE Sending
    BY <1>11, SendMoves, OutsideIsElsewhere, SameClass DEF PlaceInv
  <1>9. CASE \/ Read \/ ReadWaited \/ getDTMF \/ clearDTMF
             \/ Switch \/ SwitchWaited \/ changeProtocol \/ Switched
    BY <1>2, <1>9, DigitMoves, SwitchMoves, OutsideIsElsewhere
  <1>10. CASE Delete \/ Deleted \/ Drop
    BY <1>2, <1>10, EndMoves, DropMoves, OutsideIsElsewhere
  <1> QED
    BY <1>3, <1>4, <1>5, <1>6, <1>7, <1>8, <1>9, <1>10, <1>11 DEF Next, Continue, Sending

LEMMA ScriptFrame == ASSUME Continue \/ Drop \/ Command PROVE UNCHANGED outside /\ MayRun
  <1>1. Command => UNCHANGED outside /\ MayRun
    BY DEF Command, Starts, acceptWaiting, enableDTMF, disableDTMF, SetDTMF, Begin
  <1>2. Wake \/ Register \/ CheckConnection \/ Construct \/ Dial \/ Dialled \/ CallWaited
          \/ Evaluate \/ HungUp \/ connectWaiting \/ Disconnect \/ rejectWaiting
          \/ DisconnectCall \/ Waited => UNCHANGED outside /\ MayRun
    BY DEF Wake, Register, CheckConnection, Construct, Dial, Dialled, CallWaited, Evaluate,
           HungUp, connectWaiting, Disconnect, rejectWaiting, DisconnectCall, Waited, Enters,
           WakesUp
  <1>3. SkipsAudio \/ Sending \/ ReceiveAudio
          \/ ReceiveFax \/ Open \/ stop_file_reception \/ Truncate
          => UNCHANGED outside /\ MayRun
    BY DEF SkipsAudio, SendAudio, SendFax, start_file_transmission, stop_file_transmission,
           OpenToSend, Fill, Stopped, Sending, ReceiveAudio, ReceiveFax, start_file_reception,
           Open, stop_file_reception, Truncate,
           Enters, WakesUp
  <1>4. Read \/ ReadWaited \/ getDTMF \/ clearDTMF \/ Switch \/ SwitchWaited \/ changeProtocol
          \/ Switched \/ Delete \/ Deleted \/ Drop => UNCHANGED outside /\ MayRun
    BY DEF Read, ReadWaited, getDTMF, clearDTMF, Switch, SwitchWaited, changeProtocol, Switched,
           Delete, Deleted, Drop, Enters, WakesUp
  <1> QED
    BY <1>1, <1>2, <1>3, <1>4 DEF Continue, Sending

LEMMA AsleepNext == ASSUME AsleepInv, [Next]_vars PROVE AsleepInv'
  <1>1. CASE Handle
    <2>1. UNCHANGED <<config, pc>> /\ (config.overlap \/ pc \in Asleep)
      BY <1>1, HandleFrame DEF AsleepInv
    <2> QED
      BY <2>1 DEF AsleepInv, Asleep
  <1>2. CASE Callback
    <2>1. UNCHANGED <<config, pc>> /\ (config.overlap \/ pc \in Asleep)
      BY <1>2, CallbackFrame DEF AsleepInv
    <2> QED
      BY <2>1 DEF AsleepInv, Asleep
  <1>3. CASE Continue \/ Drop \/ Command
    BY <1>3, ScriptFrame DEF AsleepInv, MayRun
  <1>4. CASE UNCHANGED vars
    BY <1>4 DEF vars, AsleepInv, Asleep
  <1> QED
    BY <1>1, <1>2, <1>3, <1>4 DEF Next

(* With the threads apart, the other one runs while the script sleeps.     *)
LEMMA OnlyAsleep ==
    ASSUME AsleepInv, Handle \/ Callback, ~config.overlap
    PROVE  pc \in Asleep /\ UNCHANGED <<config, pc, cmd, call_if>>
  BY HandleFrame, CallbackFrame DEF AsleepInv

(* A file that was not open, or whose command goes on.                     *)
LEMMA FilesAway ==
    ASSUME FileInv, pc \notin {"sleep", "fill"}, pc' \notin {"open.send", "fill"},
           UNCHANGED config, file_to_send' => file_to_send,
           file_for_reception' => file_for_reception
    PROVE  FileInv'
  BY DEF FileInv

LEMMA ClassesApart ==
    /\ In({"AudioSend", "FaxSend"}) => ~In({"AudioReceive", "FaxReceive"})
    /\ In({"CallOutgoing"}) \/ In({"ConnectModule", "DisconnectModule"}) \/ In({"ReadDTMF"})
         \/ In({"Switch2FaxG3"})
         => ~In({"AudioSend", "FaxSend"}) /\ ~In({"AudioReceive", "FaxReceive"})
  BY DEF In

LEMMA OtherClass ==
    ASSUME FileInv, UNCHANGED <<config, fileVars>>, pc' \notin {"open.send", "fill"},
           ~In({"AudioSend", "FaxSend"}), ~In({"AudioReceive", "FaxReceive"})
    PROVE  FileInv'
  BY DEF FileInv

LEMMA FileNext == ASSUME PlaceInv, AsleepInv, FileInv, [Next]_vars PROVE FileInv'
  <1>1. CASE Handle \/ Callback
    <2>1. /\ UNCHANGED <<config, pc, cmd>> /\ (file_to_send' => file_to_send)
          /\ (file_for_reception' => file_for_reception)
      BY <1>1, HandleFrame, CallbackFrame
    <2>2. ~config.overlap => pc \notin {"open.send", "fill"}
      BY <1>1, OnlyAsleep, AsleepIsElsewhere
    <2> QED
      BY <2>1, <2>2, SameClass DEF FileInv
  <1>0. CASE UNCHANGED vars
    <2>1. UNCHANGED <<config, pc, cmd, fileVars, ncci_state>>
      BY <1>0 DEF vars
    <2> QED
      BY <2>1, SameClass DEF FileInv
  <1>c. Continue \/ Drop \/ Command => UNCHANGED config
    BY ScriptFrame
  <1>2. CASE Command \/ Wake \/ Register \/ CheckConnection \/ Construct \/ Drop \/ Dialled
    <2>1. /\ pc \notin {"sleep", "fill"} /\ pc' \notin {"open.send", "fill"}
          /\ UNCHANGED fileVars
      BY <1>2, CommandMoves, BeginMoves, DropMoves, DialledMoves, FilesElsewhere,
         OutsideIsElsewhere
    <2> QED
      BY <1>2, <1>c, <2>1, FilesAway DEF Continue
  <1>3. CASE Dial \/ CallWaited \/ Evaluate \/ HungUp
    <2>1. pc \in {"mainLoop", "sleep", "evaluate", "hangup"} /\ pc' \notin {"open.send", "fill"}
            /\ (pc = "sleep" => In({"CallOutgoing"})) /\ UNCHANGED <<config, fileVars>>
      BY <1>3, <1>c, CallMoves, FilesElsewhere, OutsideIsElsewhere DEF Continue
    <2> QED
      BY <2>1, FilesAway, OtherClass, ClassesApart
  <1>4. CASE connectWaiting \/ Disconnect \/ rejectWaiting \/ DisconnectCall \/ Waited
    <2>1. /\ pc' \notin {"open.send", "fill"} /\ In({"ConnectModule", "DisconnectModule"})
          /\ UNCHANGED <<config, fileVars>>
      BY <1>4, <1>c, LeaveMoves, FilesElsewhere, OutsideIsElsewhere DEF Continue
    <2> QED
      BY <2>1, OtherClass, ClassesApart
  <1>5. CASE Sending
    <2>1. /\ ~file_for_reception' /\ In({"AudioSend", "FaxSend"})' /\ UNCHANGED config
      BY <1>5, <1>c, SendMoves, ClassesApart, SameClass DEF FileInv, Continue, Sending
    <2>2. ASSUME ~config.overlap
          PROVE  /\ file_to_send' => pc' \in {"fill", "sleep"}
                 /\ pc' \in {"open.send", "fill"} => ncci_state' = "NACT"
      BY <1>5, <2>2, SendMoves DEF FileInv
    <2> QED
      BY <2>1, <2>2 DEF FileInv
  <1>6. CASE ReceiveAudio \/ ReceiveFax \/ Open \/ stop_file_reception \/ Truncate
    <2>1. /\ UNCHANGED <<config, file_to_send>> /\ pc' \notin {"open.send", "fill"}
          /\ In({"AudioReceive", "FaxReceive"})' /\ ~In({"AudioSend", "FaxSend"})
      BY <1>6, <1>c, ReceiveMoves, ClassesApart, SameClass, OutsideIsElsewhere DEF Continue
    <2>2. file_for_reception' => pc' = "sleep"
      BY <1>6, ReceiveMoves DEF FileInv
    <2> QED
      BY <2>1, <2>2 DEF FileInv
  <1>7. CASE Read \/ ReadWaited \/ getDTMF \/ clearDTMF
    <2>1. /\ UNCHANGED <<config, fileVars>> /\ pc' \notin {"open.send", "fill"}
          /\ pc \in {"mainLoop", "sleep", "fetch", "clear"}
          /\ pc = "sleep" => In({"ReadDTMF"})
      BY <1>7, <1>c, DigitMoves, OutsideIsElsewhere DEF Continue
    <2> QED
      BY <2>1, FilesAway, OtherClass, ClassesApart
  <1>8. CASE Switch \/ SwitchWaited \/ changeProtocol \/ Switched
    <2>1. /\ UNCHANGED <<config, fileVars>> /\ pc' \notin {"open.send", "fill"}
          /\ pc \in {"mainLoop", "sleep", "change", "sleep.again"}
          /\ pc = "sleep" => In({"Switch2FaxG3"})
      BY <1>8, <1>c, SwitchMoves, OutsideIsElsewhere DEF Continue
    <2> QED
      BY <2>1, FilesAway, OtherClass, ClassesApart
  <1>9. CASE SkipsAudio \/ Delete \/ Deleted
    <2>1. /\ pc \notin {"sleep", "fill"} /\ pc' \notin {"open.send", "fill"}
          /\ UNCHANGED config
          /\ (file_to_send' => file_to_send) /\ (file_for_reception' => file_for_reception)
      BY <1>9, <1>c, SkipMoves, EndMoves, OutsideIsElsewhere DEF Continue
    <2> QED
      BY <2>1, FilesAway
  <1> QED
    BY <1>0, <1>1, <1>2, <1>3, <1>4, <1>5, <1>6, <1>7, <1>8, <1>9 DEF Next, Continue, Sending

(* Every command closes the file it opened, however it ends: a file for    *)
(* reception is open only while its module sleeps, whatever the message    *)
(* thread does meanwhile, and a file to send only while its module fills   *)
(* the buffers or sleeps, if the link does not end while it does not sleep. *)
THEOREM NoFileIsLeftOpen == Spec => []FilesAreClosed
  <1>1. Init => PlaceInv /\ AsleepInv /\ FileInv
    <2>1. Init => AsleepInv
      BY DEF Init, AsleepInv
    <2> QED
      BY <2>1, PlaceInit
  <1>2. PlaceInv /\ AsleepInv /\ FileInv /\ [Next]_vars => PlaceInv' /\ AsleepInv' /\ FileInv'
    BY PlaceNext, AsleepNext, FileNext
  <1>3. FileInv => FilesAreClosed
    BY DEF FileInv, FilesAreClosed
  <1> QED
    BY <1>1, <1>2, <1>3, PTL DEF Spec

-----------------------------------------------------------------------------
(* Digits.                                                                 *)

LEMMA DigitsElsewhere ==
    ASSUME Continue \/ Drop \/ Command
    PROVE  \/ getDTMF \/ clearDTMF \/ UNCHANGED <<received_dtmf, typed, given>>
  <1>1. Command => UNCHANGED <<received_dtmf, typed, given>>
    BY DEF Command, Starts, acceptWaiting, enableDTMF, disableDTMF, SetDTMF, Begin
  <1>2. Wake \/ Register \/ CheckConnection \/ Construct \/ Dial \/ Dialled \/ CallWaited
          \/ Evaluate \/ HungUp \/ connectWaiting \/ Disconnect \/ rejectWaiting
          \/ DisconnectCall \/ Waited => UNCHANGED <<received_dtmf, typed, given>>
    BY DEF Wake, Register, CheckConnection, Construct, Dial, Dialled, CallWaited, Evaluate,
           HungUp, connectWaiting, Disconnect, rejectWaiting, DisconnectCall, Waited
  <1>3. SkipsAudio \/ Sending \/ ReceiveAudio
          \/ ReceiveFax \/ Open \/ stop_file_reception \/ Truncate
          => UNCHANGED <<received_dtmf, typed, given>>
    BY DEF SkipsAudio, SendAudio, SendFax, start_file_transmission, stop_file_transmission,
           OpenToSend, Fill, Stopped, Sending, ReceiveAudio, ReceiveFax, start_file_reception,
           Open, stop_file_reception, Truncate
  <1>4. Read \/ ReadWaited \/ Switch \/ SwitchWaited \/ changeProtocol \/ Switched \/ Delete
          \/ Deleted \/ Drop => UNCHANGED <<received_dtmf, typed, given>>
    BY DEF Read, ReadWaited, Switch, SwitchWaited, changeProtocol, Switched, Delete, Deleted,
           Drop
  <1> QED
    BY <1>1, <1>2, <1>3, <1>4 DEF Continue, Sending

(* Only getDTMF goes to "clear", and only clearDTMF leaves it.             *)
LEMMA ClearMoves ==
    ASSUME PlaceInv, Continue \/ Drop \/ Command, ~getDTMF, ~clearDTMF
    PROVE  pc # "clear" /\ pc' # "clear"
  <1>1. CASE Read \/ ReadWaited
    BY <1>1 DEF Read, ReadWaited, Enters, WakesUp, Step, Goto
  <1>2. CASE ~(Read \/ ReadWaited)
    BY <1>2, CommandMoves, BeginMoves, CallMoves, LeaveMoves, SkipMoves, SendMoves,
       ReceiveMoves, SwitchMoves, EndMoves, DropMoves, DialledMoves, OutsideIsElsewhere
    DEF Continue, Sending
  <1> QED
    BY <1>1, <1>2

LEMMA DigitsHandled ==
    ASSUME Handle, ~facility_ind_DTMF
    PROVE  UNCHANGED digitVars
  BY DEF Handle, connect_conf, info_ind_alerting, connect_active_ind, connect_b3_conf,
         connect_b3_ind, connect_b3_active_ind, select_b_protocol_conf, disconnect_b3_ind,
         disconnect_b3_resp, disconnect_ind, disconnect_ind_refused, data_b3_ind,
         file_completed

LEMMA DigitNext ==
    ASSUME TypeInv, PlaceInv, DigitInv, [Next]_vars
    PROVE  DigitInv'
  <1>1. CASE facility_ind_DTMF
    <2>1. UNCHANGED <<config, pc>> /\ (config.overlap \/ pc # "clear")
      BY <1>1, AsleepIsElsewhere DEF facility_ind_DTMF, Then, MayHandle
    <2>2. typed' = typed + 1 /\ received_dtmf' = received_dtmf + 1 /\ given' = given
      BY <1>1 DEF facility_ind_DTMF
    <2> QED
      BY <2>1, <2>2 DEF DigitInv, TypeInv, DigitType
  <1>2. CASE (Handle /\ ~facility_ind_DTMF) \/ Callback \/ UNCHANGED vars
    <2>1. UNCHANGED <<config, pc, received_dtmf, typed, given>>
      BY <1>2, HandleFrame, CallbackFrame, DigitsHandled DEF vars
    <2> QED
      BY <2>1 DEF DigitInv
  <1>3. CASE getDTMF
    <2>1. /\ UNCHANGED <<config, received_dtmf, typed>> /\ given' = given + received_dtmf
          /\ pc = "fetch" /\ pc' = "clear"
      BY <1>3 DEF getDTMF, Step, Goto
    <2> QED
      BY <2>1 DEF DigitInv, TypeInv, DigitType
  <1>4. CASE clearDTMF
    <2>1. /\ UNCHANGED <<config, given, typed>> /\ received_dtmf' = 0
          /\ pc = "clear" /\ pc' # "clear"
      BY <1>4, Leaving, OutsideIsElsewhere DEF clearDTMF
    <2> QED
      BY <2>1 DEF DigitInv, TypeInv, DigitType
  <1>5. CASE (Continue \/ Drop \/ Command) /\ ~getDTMF /\ ~clearDTMF
    <2>1. UNCHANGED <<config, received_dtmf, typed, given>> /\ pc # "clear" /\ pc' # "clear"
      BY <1>5, DigitsElsewhere, ScriptFrame, ClearMoves
    <2> QED
      BY <2>1 DEF DigitInv
  <1> QED
    BY <1>1, <1>2, <1>3, <1>4, <1>5 DEF Next, Continue, Sending

(* No digit is lost or given twice, for any number of digits: getDTMF and  *)
(* clearDTMF are two steps, but no digit comes between them while the      *)
(* message thread handles messages only when the script sleeps.            *)
THEOREM EveryDigitIsGivenOnce == Spec => []DigitsAreKept
  <1>1. Init => TypeInv /\ PlaceInv /\ DigitInv
    <2>1. Init => DigitInv
      BY DEF Init, DigitInv
    <2> QED
      BY <2>1, TypeInit, PlaceInit
  <1>2. TypeInv /\ PlaceInv /\ DigitInv /\ [Next]_vars => TypeInv' /\ PlaceInv' /\ DigitInv'
    BY TypeNext, PlaceNext, DigitNext
  <1>3. DigitInv => DigitsAreKept
    BY DEF DigitInv, DigitsAreKept
  <1> QED
    BY <1>1, <1>2, <1>3, PTL DEF Spec

-----------------------------------------------------------------------------
(* The call.                                                               *)

LEMMA LineElsewhere ==
    ASSUME Continue \/ Drop \/ Command, ~Dial, ~Evaluate, ~connectWaiting, ~rejectWaiting,
           ~DisconnectCall, ~Switch, ~changeProtocol, ~Delete
    PROVE  UNCHANGED lineVars
  <1>1. Command => UNCHANGED lineVars
    BY DEF Command, Starts, acceptWaiting, enableDTMF, disableDTMF, SetDTMF, Begin
  <1>2. Wake \/ Register \/ CheckConnection \/ Construct \/ Dialled \/ CallWaited \/ HungUp
          \/ Disconnect \/ Waited => UNCHANGED lineVars
    BY DEF Wake, Register, CheckConnection, Construct, Dialled, CallWaited, HungUp, Disconnect,
           Waited
  <1>3. SkipsAudio \/ Sending \/ ReceiveAudio
          \/ ReceiveFax \/ Open \/ stop_file_reception \/ Truncate => UNCHANGED lineVars
    BY DEF SkipsAudio, SendAudio, SendFax, start_file_transmission, stop_file_transmission,
           OpenToSend, Fill, Stopped, Sending, ReceiveAudio, ReceiveFax, start_file_reception,
           Open, stop_file_reception, Truncate
  <1>4. Read \/ ReadWaited \/ getDTMF \/ clearDTMF \/ SwitchWaited \/ Switched \/ Deleted
          \/ Drop => UNCHANGED lineVars
    BY DEF Read, ReadWaited, getDTMF, clearDTMF, SwitchWaited, Switched, Deleted, Drop
  <1> QED
    BY <1>1, <1>2, <1>3, <1>4 DEF Continue, Sending

LEMMA DisconnectLine ==
    ASSUME LineInv, NEW mode, NEW fails, disconnectCall(mode, fails), UNCHANGED capi_pc
    PROVE  LineInv' /\ (plci_state' = "none" => plci_state = "none")
  <1>1. UNCHANGED pending
    BY DEF disconnectCall
  <1>2. \/ ncci_state \in {"N2", "NACT"} /\ ncci_state' = "N4" /\ UNCHANGED plci_state
        \/ UNCHANGED ncci_state /\ UNCHANGED plci_state
        \/ UNCHANGED ncci_state /\ plci_state # "P01" /\ plci_state' = "P5"
    BY DEF disconnectCall, Logical, Physical
  <1>3. CASE ncci_state \in {"N2", "NACT"} /\ ncci_state' = "N4" /\ UNCHANGED plci_state
    BY <1>1, <1>3 DEF LineInv
  <1>4. CASE UNCHANGED ncci_state /\ UNCHANGED plci_state
    BY <1>1, <1>4 DEF LineInv
  <1>5. CASE UNCHANGED ncci_state /\ plci_state # "P01" /\ plci_state' = "P5"
    BY <1>1, <1>5 DEF LineInv
  <1> QED
    BY <1>2, <1>3, <1>4, <1>5

LEMMA LineHandled ==
    ASSUME LineInv, Handle
    PROVE  LineInv' /\ plci_state # "none" /\ plci_state' # "none"
  <1>1. CASE connect_conf
    BY <1>1 DEF connect_conf, MayHandle, Then, LineInv
  <1>2. CASE info_ind_alerting
    BY <1>2 DEF info_ind_alerting, MayHandle, Then, LineInv
  <1>3. CASE connect_active_ind
    <2>1. ncci_state = "N0"
      BY <1>3 DEF connect_active_ind, LineInv
    <2> QED
      BY <1>3, <2>1 DEF connect_active_ind, MayHandle, Then, LineInv
  <1>4. CASE connect_b3_conf
    BY <1>4 DEF connect_b3_conf, MayHandle, Then, LineInv
  <1>5. CASE connect_b3_ind
    BY <1>5 DEF connect_b3_ind, MayHandle, Then, LineInv
  <1>6. CASE connect_b3_active_ind
    BY <1>6 DEF connect_b3_active_ind, MayHandle, Then, LineInv
  <1>7. CASE select_b_protocol_conf
    <2>1. /\ plci_state = "PACT" /\ UNCHANGED plci_state /\ capi_pc' = "run"
          /\ ncci_state' \in {"N0", "N01"} /\ "CONNECT_CONF" \notin pending'
      BY <1>7 DEF select_b_protocol_conf, Then
    <2> QED
      BY <2>1 DEF LineInv
  <1>8. CASE disconnect_b3_ind
    BY <1>8 DEF disconnect_b3_ind, MayHandle, Then, LineInv
  <1>9. CASE disconnect_b3_resp
    <2>1. ncci_state = "N5" /\ plci_state \in {"PACT", "P5"} /\ pending = {}
      BY <1>9 DEF disconnect_b3_resp, LineInv
    <2>2. /\ plci_state' \in {"PACT", "P5"} /\ pending' = {} /\ ncci_state' = "N0"
          /\ capi_pc' = "run"
      BY <1>9, <2>1 DEF disconnect_b3_resp, Then
    <2> QED
      BY <2>1, <2>2 DEF LineInv
  <1>10. CASE disconnect_ind
    BY <1>10 DEF disconnect_ind, MayHandle, Then, LineInv
  <1>13. CASE disconnect_ind_refused
    <2>1. /\ UNCHANGED <<plci_state, ncci_state, pending>> /\ capi_pc' = "run"
          /\ plci_state # "none"
      BY <1>13 DEF disconnect_ind_refused, MayHandle, Then
    <2> QED
      BY <2>1 DEF LineInv
  <1>11. ASSUME NEW silent \in BOOLEAN, data_b3_ind(silent)
         PROVE  LineInv' /\ plci_state # "none" /\ plci_state' # "none"
    <2>1. /\ UNCHANGED lineVars /\ capi_pc' \in {"silence", "sound"} /\ plci_state # "none"
      BY <1>11 DEF data_b3_ind, MayHandle, Then
    <2> QED
      BY <2>1 DEF LineInv
  <1>12. CASE facility_ind_DTMF \/ file_completed
    <2>1. /\ UNCHANGED lineVars /\ capi_pc' \in {"gotDTMF", "transmissionComplete"}
          /\ plci_state # "none"
      BY <1>12 DEF facility_ind_DTMF, file_completed, MayHandle, Then
    <2> QED
      BY <2>1 DEF LineInv
  <1> QED
    BY <1>1, <1>2, <1>3, <1>4, <1>5, <1>6, <1>7, <1>8, <1>9, <1>10, <1>11, <1>12, <1>13
    DEF Handle

LEMMA LineCalled == ASSUME LineInv, Callback PROVE LineInv'
  <1>1. UNCHANGED lineVars
    BY CallbackFrame
  <1>2. capi_pc' \in {"callDisconnectedLogical", "disconnect_b3_ind.resp"}
          => capi_pc \in {"callDisconnectedLogical", "disconnect_b3_ind.resp"}
    BY DEF Callback, callDisconnectedPhysical, callDisconnectedLogical, callConnected,
           transmissionComplete, alerting, gotDTMF, dataIn, CallsDeadModule, Calls
  <1> QED
    BY <1>1, <1>2 DEF LineInv

(* The script's own steps.                                                 *)
LEMMA LineAsked ==
    ASSUME LineInv, NewCallInv, Continue \/ Drop \/ Command
    PROVE  LineInv' /\ (plci_state' = "none" => plci_state = "none")
  <1>1. UNCHANGED outside
    BY ScriptFrame
  <1>2. CASE UNCHANGED lineVars
    BY <1>1, <1>2 DEF LineInv
  <1>3. CASE Dial
    <2>1. plci_state = "none"
      BY <1>3 DEF Dial, Enters, NewCallInv
    <2>2. ncci_state = "N0" /\ UNCHANGED ncci_state
      BY <1>3, <2>1 DEF Dial, LineInv
    <2>3. \/ plci_state' = "P01" /\ pending' = {"CONNECT_CONF"}
          \/ UNCHANGED <<plci_state, pending>>
      BY <1>3 DEF Dial
    <2> QED
      BY <1>1, <2>1, <2>2, <2>3 DEF LineInv
  <1>4. CASE Evaluate
    <2>1. UNCHANGED lineVars \/ disconnectCall("ALL", TRUE) \/ disconnectCall("ALL", FALSE)
      BY <1>4 DEF Evaluate
    <2> QED
      BY <1>1, <1>2, <2>1, DisconnectLine
  <1>5. CASE connectWaiting
    <2>1. CASE UNCHANGED <<plci_state, pending>>
      BY <1>1, <1>5, <2>1 DEF connectWaiting, LineInv
    <2>2. CASE ~UNCHANGED <<plci_state, pending>>
      <3>1. /\ plci_state = "P2" /\ plci_state' = "P4" /\ UNCHANGED ncci_state
            /\ (UNCHANGED pending \/ pending' = {"CONNECT_ACTIVE_IND"})
        BY <1>5, <2>2 DEF connectWaiting
      <3> QED
        BY <1>1, <3>1 DEF LineInv
    <2> QED
      BY <2>1, <2>2
  <1>6. CASE rejectWaiting
    <2>1. /\ UNCHANGED <<ncci_state, pending>>
          /\ UNCHANGED plci_state \/ (plci_state = "P2" /\ plci_state' = "P5")
      BY <1>6 DEF rejectWaiting
    <2> QED
      BY <1>1, <2>1 DEF LineInv
  <1>7. CASE DisconnectCall
    BY <1>1, <1>7, DisconnectLine DEF DisconnectCall
  <1>8. CASE Switch
    BY <1>1, <1>8, DisconnectLine DEF Switch
  <1>9. CASE changeProtocol
    <2>1. UNCHANGED <<plci_state, ncci_state>>
      BY <1>9 DEF changeProtocol
    <2>2. UNCHANGED pending \/ (ncci_state = "N0" /\ pending' = {"SELECT_B_PROTOCOL_CONF"})
      BY <1>9 DEF changeProtocol
    <2> QED
      BY <1>1, <2>1, <2>2 DEF LineInv
  <1>10. CASE Delete
    BY <1>1, <1>2, <1>10, DisconnectLine DEF Delete
  <1> QED
    BY <1>2, <1>3, <1>4, <1>5, <1>6, <1>7, <1>8, <1>9, <1>10, LineElsewhere

LEMMA DestructClass ==
    capisuitemodule_destruct_connection.active.class = "DisconnectModule"
  BY DEF capisuitemodule_destruct_connection, Wrapper, DisconnectModule, CallModule

LEMMA NewCallNext ==
    ASSUME PlaceInv, LineInv, NewCallInv, [Next]_vars
    PROVE  NewCallInv'
  <1>1. CASE Handle \/ Callback \/ UNCHANGED vars
    <2>1. UNCHANGED <<pc, cmd>> /\ (UNCHANGED plci_state \/ plci_state # "none")
            /\ (UNCHANGED plci_state \/ plci_state' # "none")
      BY <1>1, HandleFrame, LineHandled, CallbackFrame DEF vars
    <2> QED
      BY <2>1, SameClass DEF NewCallInv
  <1>2. CASE Command
    <2>1. PICK c \in config.commands :
            Starts(c) \/ acceptWaiting(c) \/ enableDTMF(c) \/ disableDTMF(c)
      BY <1>2 DEF Command
    <2>2. cmd' = c /\ UNCHANGED plci_state
            /\ (c.active.class = "CallOutgoing") = (plci_state = "none")
      BY <2>1 DEF Starts, acceptWaiting, enableDTMF, disableDTMF, SetDTMF, Begin
    <2> QED
      BY <2>2 DEF NewCallInv, In, active
  <1>3. CASE Drop
    <2>1. /\ UNCHANGED plci_state
          /\ (UNCHANGED cmd /\ pc' \in Outside) \/ cmd' = capisuitemodule_destruct_connection
      BY <1>3 DEF Drop, Outside
    <2>2. CASE UNCHANGED cmd /\ pc' \in Outside
      BY <2>1, <2>2, OutsideIsElsewhere, SameClass DEF NewCallInv
    <2>3. CASE cmd' = capisuitemodule_destruct_connection
      BY <2>3, DestructClass DEF NewCallInv, In, active
    <2> QED
      BY <2>1, <2>2, <2>3
  <1>4. CASE Wake \/ Register \/ CheckConnection \/ Construct
    <2>1. UNCHANGED plci_state
      BY <1>4 DEF Wake, Register, CheckConnection, Construct
    <2> QED
      BY <1>4, <2>1, BeginMoves, SameClass DEF NewCallInv
  <1>5. CASE Continue /\ ~(Wake \/ Register \/ CheckConnection \/ Construct)
    <2>1. /\ UNCHANGED cmd
          /\ pc' \notin {"delay", "register", "registered", "construct", "mainLoop"}
      BY <1>5, CallMoves, LeaveMoves, SkipMoves, SendMoves, ReceiveMoves, DigitMoves,
         SwitchMoves, EndMoves, DialledMoves, OutsideIsElsewhere DEF Continue, Sending
    <2>2. plci_state' = "none" => plci_state = "none"
      BY <1>5, LineAsked
    <2> QED
      BY <2>1, <2>2, SameClass DEF NewCallInv
  <1> QED
    BY <1>1, <1>2, <1>3, <1>4, <1>5 DEF Next

LEMMA LineNext == ASSUME LineInv, NewCallInv, [Next]_vars PROVE LineInv'
  <1>1. UNCHANGED vars => LineInv'
    BY DEF vars, LineInv
  <1> QED
    BY <1>1, LineHandled, LineCalled, LineAsked DEF Next

-----------------------------------------------------------------------------
(* Recordings.                                                             *)

LEMMA RecordClass ==
    In({"AudioReceive"}) => /\ ~In({"CallOutgoing"}) /\ ~In({"ReadDTMF"})
                            /\ ~In({"ConnectModule", "DisconnectModule"})
                            /\ ~In({"Switch2FaxG3"}) /\ ~In({"AudioSend", "FaxSend"})
                            /\ ~In({"FaxReceive"})
  BY DEF In

(* Where a recording goes.                                                 *)
LEMMA OnlyRecords ==
    ASSUME PlaceInv, Continue \/ Drop \/ Command, In({"AudioReceive"})',
           pc' \in {"open", "sleep", "truncate"}
    PROVE  In({"AudioReceive"}) /\ UNCHANGED cmd /\ (ReceiveAudio \/ Open \/ stop_file_reception)
  <1>1. ~Command /\ ~Drop
    BY CommandMoves, DropMoves, OutsideIsElsewhere
  <1>2. UNCHANGED cmd
    BY <1>1, BeginMoves, CallMoves, LeaveMoves, SkipMoves, SendMoves, ReceiveMoves, DigitMoves,
       SwitchMoves, EndMoves, DialledMoves DEF Continue, Sending
  <1>3. In({"AudioReceive"})
    BY <1>2, SameClass
  <1>4. ~(Wake \/ Register \/ CheckConnection \/ Construct) /\ ~SkipsAudio /\ ~(Delete \/ Deleted)
    BY BeginMoves, SkipMoves, EndMoves, OutsideIsElsewhere
  <1>5. ~(Dial \/ CallWaited \/ Evaluate \/ HungUp) /\ ~Dialled
    BY <1>3, RecordClass, CallMoves, DialledMoves, OutsideIsElsewhere
  <1>6. ~(connectWaiting \/ Disconnect \/ rejectWaiting \/ DisconnectCall \/ Waited)
          /\ ~(Sending)
    BY <1>3, RecordClass, LeaveMoves, SendMoves
  <1>7. ~(Read \/ ReadWaited \/ getDTMF \/ clearDTMF)
          /\ ~(Switch \/ SwitchWaited \/ changeProtocol \/ Switched)
    BY <1>3, RecordClass, DigitMoves, SwitchMoves, OutsideIsElsewhere
  <1>8. ~ReceiveFax /\ ~Truncate
    <2>1. ReceiveFax => In({"FaxReceive"})
      BY DEF ReceiveFax, Enters
    <2>2. Truncate => pc' \in Outside
      BY Leaving DEF Truncate
    <2> QED
      BY <1>3, <2>1, <2>2, RecordClass, OutsideIsElsewhere
  <1> QED
    BY <1>1, <1>2, <1>3, <1>4, <1>5, <1>6, <1>7, <1>8 DEF Continue, Sending

(* Only the constructors go where constructors are.                        *)
LEMMA OnlyConstructs ==
    ASSUME PlaceInv, Continue \/ Drop \/ Command,
           pc' \in {"registered", "construct", "mainLoop"}
    PROVE  UNCHANGED cmd /\ (Register \/ CheckConnection \/ Construct)
  <1>1. ~Command /\ ~Drop /\ ~Wake
    BY CommandMoves, DropMoves, OutsideIsElsewhere DEF Wake, Step, Goto
  <1>2. Wake \/ Register \/ CheckConnection \/ Construct
    BY <1>1, CallMoves, LeaveMoves, SkipMoves, SendMoves, ReceiveMoves, DigitMoves,
       SwitchMoves, EndMoves, DialledMoves, OutsideIsElsewhere DEF Continue, Sending
  <1> QED
    BY <1>1, <1>2, BeginMoves

LEMMA ConstructMoves ==
    ASSUME Register \/ CheckConnection \/ Construct,
           pc' \in {"registered", "construct", "mainLoop"}
    PROVE  \/ pc = "register" /\ silence_count' = 0
                /\ (plci_state # "none" => pc' = "registered")
           \/ pc = "registered" /\ call_if' = "module" /\ UNCHANGED silence_count
           \/ pc = "construct" /\ UNCHANGED <<call_if, silence_count>>
  <1>1. CASE Register
    BY <1>1 DEF Register, Step, Goto
  <1>2. CASE CheckConnection
    BY <1>2 DEF CheckConnection, Goto
  <1>3. CASE Construct
    BY <1>3, Leaving, OutsideIsElsewhere DEF Construct, Step, Goto
  <1> QED
    BY <1>1, <1>2, <1>3

LEMMA RecordMoves ==
    ASSUME ReceiveAudio \/ Open \/ stop_file_reception, In({"AudioReceive"}),
           pc' \in {"open", "sleep", "truncate"}
    PROVE  /\ UNCHANGED <<call_if, silence_count, lineVars, capi_pc, config>>
           /\ \/ /\ pc = "mainLoop" /\ pc' = "open" /\ ncci_state = "NACT"
              \/ /\ pc = "open" /\ pc' = "sleep" /\ file_for_reception' /\ quiet' = 0
              \/ /\ pc = "sleep" /\ pc' = "truncate" /\ UNCHANGED quiet
  <1>1. CASE ReceiveAudio
    BY <1>1, Leaving, OutsideIsElsewhere
    DEF ReceiveAudio, Enters, start_file_reception, Step, Goto
  <1>2. CASE Open
    <2>1. Step("sleep") /\ file_for_reception' = TRUE /\ quiet' = 0
      BY <1>2, Leaving, OutsideIsElsewhere DEF Open
    <2> QED
      BY <1>2, <2>1 DEF Open, Step, Goto
  <1>3. CASE stop_file_reception
    BY <1>3 DEF stop_file_reception, WakesUp, Step, Goto
  <1> QED
    BY <1>1, <1>2, <1>3

LEMMA RegisteredNext ==
    ASSUME PlaceInv, NewCallInv, RegisteredInv, [Next]_vars
    PROVE  RegisteredInv'
  <1>1. CASE Handle \/ Callback \/ UNCHANGED vars
    <2>1. UNCHANGED <<pc, cmd, call_if>>
      BY <1>1, HandleFrame, CallbackFrame DEF vars
    <2> QED
      BY <2>1, SameClass DEF RegisteredInv
  <1>2. CASE Continue \/ Drop \/ Command
    <2>1. CASE In({"AudioReceive"})' /\ pc' \in {"construct", "mainLoop"}
      <3>1. UNCHANGED cmd /\ (Register \/ CheckConnection \/ Construct)
        BY <1>2, <2>1, OnlyConstructs
      <3>2. plci_state # "none" /\ In({"AudioReceive"})
        BY <2>1, <3>1, SameClass DEF NewCallInv
      <3>3. call_if' = "module"
        BY <2>1, <3>1, <3>2, ConstructMoves DEF RegisteredInv
      <3> QED
        BY <3>3 DEF RegisteredInv
    <2>2. CASE In({"AudioReceive"})' /\ pc' \in {"open", "sleep", "truncate"}
      <3>1. In({"AudioReceive"}) /\ (ReceiveAudio \/ Open \/ stop_file_reception)
        BY <1>2, <2>2, OnlyRecords
      <3>2. call_if' = "module"
        BY <2>2, <3>1, RecordMoves DEF RegisteredInv
      <3> QED
        BY <3>2 DEF RegisteredInv
    <2> QED
      BY <2>1, <2>2 DEF RegisteredInv
  <1> QED
    BY <1>1, <1>2 DEF Next

LEMMA OpenNext ==
    ASSUME PlaceInv, AsleepInv, OpenInv, [Next]_vars
    PROVE  OpenInv'
  <1> SUFFICES ASSUME ~config.overlap' PROVE OpenInv'
    BY DEF OpenInv
  <1>1. CASE Handle \/ Callback
    <2>1. UNCHANGED config
      BY <1>1, HandleFrame, CallbackFrame
    <2>2. pc \in Asleep /\ UNCHANGED pc
      BY <1>1, <2>1, OnlyAsleep
    <2> QED
      BY <2>2, AsleepIsElsewhere DEF OpenInv
  <1>2. CASE UNCHANGED vars
    <2>1. UNCHANGED <<config, pc, cmd, ncci_state, silence_count>>
      BY <1>2 DEF vars
    <2> QED
      BY <2>1, SameClass DEF OpenInv
  <1>3. CASE Continue \/ Drop \/ Command
    <2>1. ~config.overlap
      BY <1>3, ScriptFrame
    <2>2. pc' = "open" => ncci_state' = "NACT"
      <3> SUFFICES ASSUME pc' = "open" PROVE ncci_state' = "NACT"
        OBVIOUS
      <3>1. ReceiveAudio \/ ReceiveFax
        BY <1>3, CommandMoves, DropMoves, BeginMoves, CallMoves, LeaveMoves, SkipMoves,
           SendMoves, DigitMoves, SwitchMoves, EndMoves, DialledMoves, Leaving,
           OutsideIsElsewhere DEF Continue, Sending, Open, stop_file_reception, Truncate, Step, Goto
      <3> QED
        BY <3>1, Leaving, OutsideIsElsewhere
        DEF ReceiveAudio, ReceiveFax, start_file_reception
    <2>3. In({"AudioReceive"})' /\ pc' \in {"registered", "construct", "mainLoop"}
            => silence_count' = 0
      <3> SUFFICES ASSUME In({"AudioReceive"})', pc' \in {"registered", "construct", "mainLoop"}
                   PROVE  silence_count' = 0
        OBVIOUS
      <3>1. UNCHANGED cmd /\ (Register \/ CheckConnection \/ Construct)
        BY <1>3, OnlyConstructs
      <3>2. In({"AudioReceive"})
        BY <3>1, SameClass
      <3> QED
        BY <2>1, <3>1, <3>2, ConstructMoves DEF OpenInv
    <2>4. In({"AudioReceive"})' /\ pc' = "open" => silence_count' = 0
      <3> SUFFICES ASSUME In({"AudioReceive"})', pc' = "open" PROVE silence_count' = 0
        OBVIOUS
      <3>1. In({"AudioReceive"}) /\ (ReceiveAudio \/ Open \/ stop_file_reception)
        BY <1>3, OnlyRecords
      <3> QED
        BY <2>1, <3>1, RecordMoves DEF OpenInv
    <2> QED
      BY <2>2, <2>3, <2>4 DEF OpenInv
  <1> QED
    BY <1>1, <1>2, <1>3 DEF Next

(* While a recording sleeps, only its packets, digits and the end come.    *)
LEMMA RecordHandled ==
    ASSUME Handle, pending = {}, ncci_state \in {"NACT", "N5", "N0"},
           ncci_state = "NACT" => file_for_reception
    PROVE  /\ pending' = {} /\ ncci_state' \in {"NACT", "N5", "N0"}
           /\ ncci_state' = "NACT" => file_for_reception'
  <1>1. ~connect_conf /\ ~info_ind_alerting /\ ~connect_active_ind /\ ~connect_b3_conf
    BY DEF connect_conf, info_ind_alerting, connect_active_ind, connect_b3_conf
  <1>6. ~disconnect_ind_refused
    BY DEF disconnect_ind_refused
  <1>2. ~connect_b3_ind /\ ~connect_b3_active_ind /\ ~select_b_protocol_conf
    BY DEF connect_b3_ind, connect_b3_active_ind, select_b_protocol_conf
  <1>3. disconnect_b3_ind \/ disconnect_b3_resp => pending' = {} /\ ncci_state' \in {"N5", "N0"}
    BY DEF disconnect_b3_ind, disconnect_b3_resp
  <1>4. disconnect_ind => pending' = {} /\ ncci_state' = "N0"
    BY DEF disconnect_ind
  <1>5. (\E silent \in BOOLEAN : data_b3_ind(silent)) \/ facility_ind_DTMF \/ file_completed
          => UNCHANGED <<lineVars, file_for_reception>>
    BY DEF data_b3_ind, facility_ind_DTMF, file_completed
  <1> QED
    BY <1>1, <1>2, <1>3, <1>4, <1>5, <1>6 DEF Handle

LEMMA RecordNext ==
    ASSUME PlaceInv, LineInv, AsleepInv, OpenInv, RecordInv, [Next]_vars
    PROVE  RecordInv'
  <1> SUFFICES ASSUME ~config.overlap', In({"AudioReceive"})', pc' \in {"sleep", "truncate"}
               PROVE  RecordInv'
    BY DEF RecordInv
  <1>1. CASE Handle \/ Callback
    <2>1. ~config.overlap
      BY <1>1, HandleFrame, CallbackFrame
    <2>2. pc = "sleep" /\ UNCHANGED <<pc, cmd>> /\ In({"AudioReceive"})
      BY <1>1, <2>1, OnlyAsleep, AsleepIsElsewhere, SameClass
    <2>3. /\ pending = {} /\ ncci_state \in {"NACT", "N5", "N0"}
          /\ ncci_state = "NACT" => file_for_reception
      BY <2>1, <2>2 DEF RecordInv
    <2>4. /\ pending' = {} /\ ncci_state' \in {"NACT", "N5", "N0"}
          /\ ncci_state' = "NACT" => file_for_reception'
      <3>1. CASE Handle
        BY <3>1, <2>3, RecordHandled
      <3>2. CASE Callback
        BY <3>2, <2>3, CallbackFrame
      <3> QED
        BY <1>1, <3>1, <3>2
    <2> QED
      BY <2>4 DEF RecordInv
  <1>2. CASE UNCHANGED vars
    <2>1. UNCHANGED <<config, pc, cmd, ncci_state, pending, file_for_reception>>
      BY <1>2 DEF vars
    <2> QED
      BY <2>1, SameClass DEF RecordInv
  <1>3. CASE Continue \/ Drop \/ Command
    <2>1. ~config.overlap
      BY <1>3, ScriptFrame
    <2>2. In({"AudioReceive"}) /\ (ReceiveAudio \/ Open \/ stop_file_reception)
      BY <1>3, OnlyRecords
    <2>3. UNCHANGED <<lineVars, capi_pc>>
      BY <2>2, RecordMoves
    <2>4. CASE pc = "open" /\ pc' = "sleep" /\ file_for_reception' /\ quiet' = 0
      <3>1. ncci_state = "NACT" /\ pending = {}
        BY <2>1, <2>4 DEF OpenInv, LineInv
      <3> QED
        BY <2>3, <2>4, <3>1 DEF RecordInv
    <2>5. CASE pc = "sleep" /\ pc' = "truncate"
      <3>1. pending = {} /\ ncci_state \in {"NACT", "N5", "N0"}
        BY <2>1, <2>2, <2>5 DEF RecordInv
      <3> QED
        BY <2>3, <2>5, <3>1 DEF RecordInv
    <2> QED
      BY <2>2, <2>4, <2>5, RecordMoves
  <1> QED
    BY <1>1, <1>2, <1>3 DEF Next

(* What the handlers do to the counts of a recording under way.            *)
LEMMA CountHandled ==
    ASSUME TypeInv, Handle, ncci_state \in {"NACT", "N5", "N0"},
           ncci_state = "NACT" => file_for_reception
    PROVE  /\ UNCHANGED silence_count
           /\ capi_pc \notin {"silence", "sound"}
           /\ \/ capi_pc' \notin {"silence", "sound"} /\ UNCHANGED quiet
              \/ capi_pc' = "silence" /\ quiet' = quiet + 1
              \/ capi_pc' = "sound"
  <1>1. UNCHANGED silence_count
    BY HandleFrame
  <1>2. ASSUME NEW silent \in BOOLEAN, data_b3_ind(silent)
        PROVE  /\ capi_pc \notin {"silence", "sound"}
               /\ \/ capi_pc' = "silence" /\ quiet' = quiet + 1
                  \/ capi_pc' = "sound"
    <2>1. file_for_reception /\ capi_pc = "run"
      BY <1>2 DEF data_b3_ind, MayHandle
    <2>2. quiet' = (IF silent THEN quiet + 1 ELSE 0)
            /\ capi_pc' = IF silent THEN "silence" ELSE "sound"
      BY <1>2, <2>1 DEF data_b3_ind, Then
    <2> QED
      BY <2>1, <2>2
  <1>3. connect_conf \/ info_ind_alerting \/ connect_active_ind \/ connect_b3_conf
          \/ connect_b3_ind \/ connect_b3_active_ind \/ select_b_protocol_conf
          \/ disconnect_ind_refused
          => capi_pc = "run" /\ capi_pc' \in {"run", "alerting", "callConnected"} /\ UNCHANGED quiet
    BY DEF connect_conf, info_ind_alerting, connect_active_ind, connect_b3_conf, connect_b3_ind,
           connect_b3_active_ind, select_b_protocol_conf, disconnect_ind_refused, Then,
           MayHandle
  <1>4. disconnect_b3_ind \/ disconnect_ind \/ facility_ind_DTMF \/ file_completed
          => /\ capi_pc = "run" /\ UNCHANGED quiet
             /\ capi_pc' \in {"callDisconnectedLogical", "callDisconnectedPhysical", "gotDTMF",
                              "transmissionComplete"}
    BY DEF disconnect_b3_ind, disconnect_ind, facility_ind_DTMF, file_completed, Then, MayHandle
  <1>5. disconnect_b3_resp
          => capi_pc = "disconnect_b3_ind.resp" /\ capi_pc' = "run" /\ UNCHANGED quiet
    BY DEF disconnect_b3_resp, Then
  <1> QED
    BY <1>1, <1>2, <1>3, <1>4, <1>5 DEF Handle

LEMMA CountCalled ==
    ASSUME Callback, call_if = "module", In({"AudioReceive"}), active.silence
    PROVE  \/ /\ capi_pc \notin {"silence", "sound"} /\ capi_pc' \notin {"silence", "sound"}
              /\ UNCHANGED silence_count
           \/ /\ capi_pc' \notin {"silence", "sound"}
              /\ \/ capi_pc = "silence" /\ silence_count' = silence_count + 1
                 \/ capi_pc = "sound" /\ silence_count' = 0
           \/ UNCHANGED <<capi_pc, silence_count>>
  <1>1. ASSUME NEW k \in {"silence", "sound"}, dataIn(k)
        PROVE  /\ capi_pc' \notin {"silence", "sound"}
               /\ \/ capi_pc = "silence" /\ silence_count' = silence_count + 1
                  \/ capi_pc = "sound" /\ silence_count' = 0
    BY <1>1 DEF dataIn, Calls, Is
  <1>2. callDisconnectedPhysical \/ callDisconnectedLogical \/ callConnected
          \/ transmissionComplete \/ alerting \/ gotDTMF
          => /\ capi_pc \notin {"silence", "sound"} /\ capi_pc' \notin {"silence", "sound"}
             /\ UNCHANGED silence_count
    BY DEF callDisconnectedPhysical, callDisconnectedLogical, callConnected,
           transmissionComplete, alerting, gotDTMF, Calls
  <1>3. CallsDeadModule => UNCHANGED <<capi_pc, silence_count>>
    BY DEF CallsDeadModule
  <1> QED
    BY <1>1, <1>2, <1>3 DEF Callback

LEMMA CountNext ==
    ASSUME TypeInv, PlaceInv, AsleepInv, RegisteredInv, OpenInv, RecordInv, CountInv,
           [Next]_vars
    PROVE  CountInv'
  <1> SUFFICES ASSUME ~config.overlap', In({"AudioReceive"})', pc' \in {"sleep", "truncate"},
                      active'.silence
               PROVE  CountInv'
    BY DEF CountInv
  <1>t. silence_count \in Nat /\ quiet \in Nat
    BY DEF TypeInv, PacketType
  <1>1. CASE Handle \/ Callback
    <2>1. ~config.overlap
      BY <1>1, HandleFrame, CallbackFrame
    <2>2. pc = "sleep" /\ UNCHANGED <<pc, cmd>> /\ In({"AudioReceive"})
      BY <1>1, <2>1, OnlyAsleep, AsleepIsElsewhere, SameClass
    <2>3. active.silence
      BY <2>2 DEF active
    <2>4. /\ ncci_state \in {"NACT", "N5", "N0"} /\ (ncci_state = "NACT" => file_for_reception)
          /\ call_if = "module"
      BY <2>1, <2>2 DEF RecordInv, RegisteredInv
    <2>5. /\ capi_pc \notin {"silence", "sound"} => silence_count <= quiet
          /\ capi_pc = "silence" => silence_count + 1 <= quiet
      BY <2>1, <2>2, <2>3 DEF CountInv
    <2>6. CASE Handle
      <3>1. capi_pc' = "silence" => silence_count' + 1 <= quiet'
        BY <1>t, <2>4, <2>5, <2>6, CountHandled
      <3>2. capi_pc' \notin {"silence", "sound"} => silence_count' <= quiet'
        BY <1>t, <2>4, <2>5, <2>6, CountHandled
      <3> QED
        BY <3>1, <3>2 DEF CountInv
    <2>7. CASE Callback
      <3>1. UNCHANGED quiet
        BY <2>7, CallbackFrame
      <3>2. capi_pc' = "silence" => silence_count' + 1 <= quiet'
        BY <1>t, <2>2, <2>3, <2>4, <2>5, <2>7, <3>1, CountCalled
      <3>3. capi_pc' \notin {"silence", "sound"} => silence_count' <= quiet'
        BY <1>t, <2>2, <2>3, <2>4, <2>5, <2>7, <3>1, CountCalled
      <3> QED
        BY <3>2, <3>3 DEF CountInv
    <2> QED
      BY <1>1, <2>6, <2>7
  <1>2. CASE UNCHANGED vars
    <2>1. UNCHANGED <<config, pc, cmd, capi_pc, silence_count, quiet>>
      BY <1>2 DEF vars
    <2>2. /\ ~config.overlap /\ In({"AudioReceive"}) /\ pc \in {"sleep", "truncate"}
          /\ active.silence
      BY <2>1, SameClass DEF active
    <2> QED
      BY <2>1, <2>2 DEF CountInv
  <1>3. CASE Continue \/ Drop \/ Command
    <2>1. ~config.overlap /\ capi_pc = "run" /\ UNCHANGED capi_pc
      BY <1>3, ScriptFrame DEF MayRun
    <2>2. In({"AudioReceive"}) /\ UNCHANGED cmd /\ (ReceiveAudio \/ Open \/ stop_file_reception)
      BY <1>3, OnlyRecords
    <2>3. active.silence
      BY <2>2 DEF active
    <2>4. UNCHANGED silence_count
      BY <2>2, RecordMoves
    <2>5. silence_count' <= quiet'
      <3>1. CASE pc = "open" /\ quiet' = 0
        BY <1>t, <2>1, <2>2, <2>4, <3>1 DEF OpenInv
      <3>2. CASE pc = "sleep" /\ UNCHANGED quiet
        BY <2>1, <2>2, <2>3, <2>4, <3>2 DEF CountInv
      <3> QED
        BY <2>2, <3>1, <3>2, RecordMoves
    <2> QED
      BY <2>1, <2>5 DEF CountInv
  <1> QED
    BY <1>1, <1>2, <1>3 DEF Next

SilenceInv ==
    /\ TypeInv /\ PlaceInv /\ LineInv /\ NewCallInv
    /\ RegisteredInv /\ AsleepInv /\ OpenInv /\ RecordInv /\ CountInv

LEMMA SilenceInit == Init => SilenceInv
  <1> SUFFICES ASSUME Init PROVE SilenceInv
    OBVIOUS
  <1>1. ~In({"AudioReceive"}) /\ pc = "idle"
    BY DestructClass DEF Init, In, active
  <1>2. LineInv
    BY DEF Init, LineInv
  <1>3. AsleepInv
    BY DEF Init, AsleepInv
  <1> QED
    BY <1>1, <1>2, <1>3, TypeInit, PlaceInit
    DEF SilenceInv, NewCallInv, RegisteredInv, OpenInv, RecordInv, CountInv

LEMMA SilenceNext == ASSUME SilenceInv, [Next]_vars PROVE SilenceInv'
  BY TypeNext, PlaceNext, LineNext, NewCallNext, RegisteredNext, AsleepNext, OpenNext,
     RecordNext, CountNext DEF SilenceInv

(* Only the end of a recording cuts anything off, and it cuts off silence. *)
LEMMA CutStep ==
    ASSUME SilenceInv, [Next]_vars, ~config.overlap, pc = "truncate"
    PROVE  blocks - blocks' <= quiet
  <1>t. silence_count \in Nat /\ quiet \in Nat /\ blocks \in Nat
    BY DEF SilenceInv, TypeInv, PacketType
  <1>1. ~Handle /\ ~Callback
    BY OnlyAsleep, AsleepIsElsewhere DEF SilenceInv
  <1>2. CASE UNCHANGED vars
    BY <1>t, <1>2 DEF vars
  <1>3. CASE Continue \/ Drop \/ Command
    <2>1. In({"AudioReceive"}) /\ capi_pc = "run"
      BY <1>3, ScriptFrame DEF SilenceInv, PlaceInv, MayRun
    <2>2. Truncate
      BY <1>3, CommandMoves, DropMoves, BeginMoves, CallMoves, LeaveMoves, SkipMoves,
         SendMoves, DigitMoves, SwitchMoves, EndMoves, DialledMoves, OutsideIsElsewhere
      DEF SilenceInv, Continue, Sending, ReceiveAudio, ReceiveFax, Enters, Open,
          stop_file_reception, WakesUp
    <2>3. CASE UNCHANGED blocks
      BY <1>t, <2>3
    <2>4. CASE ~UNCHANGED blocks
      <3>1. /\ active.silence /\ silence_count > SilenceLimit
            /\ blocks' = blocks + 1 - SilenceLimit
        BY <2>2, <2>4 DEF Truncate
      <3>2. silence_count <= quiet
        BY <2>1, <3>1 DEF SilenceInv, CountInv
      <3>3. SilenceLimit \in Nat
        BY ModulesAssumption
      <3> QED
        BY <1>t, <3>1, <3>2, <3>3
    <2> QED
      BY <2>3, <2>4
  <1> QED
    BY <1>1, <1>2, <1>3 DEF Next

(* A recording that ended in silence loses nothing but silence, for any    *)
(* number of packets and any silence_timeout: the packets that AudioReceive *)
(* counts are the last ones of the file, because it counts from the moment *)
(* the file is opened and nothing is written while it does not count.      *)
THEOREM OnlySilenceIsCut == Spec => CutsSilence
  <1>1. Init => SilenceInv
    BY SilenceInit
  <1>2. SilenceInv /\ [Next]_vars => SilenceInv'
    BY SilenceNext
  <1>3. SilenceInv /\ [Next]_vars
          => [~config.overlap /\ pc = "truncate" => blocks - blocks' <= quiet]_vars
    BY CutStep
  <1> QED
    BY <1>1, <1>2, <1>3, PTL DEF Spec, CutsSilence

-----------------------------------------------------------------------------
(* Disconnecting.                                                          *)

(* The places that belong to one class each.                               *)
ClassInv ==
    /\ pc \in {"evaluate", "hangup"} => In({"CallOutgoing"})
    /\ pc \in {"fetch", "clear"} => In({"ReadDTMF"})
    /\ pc \in {"change", "sleep.again"} => In({"Switch2FaxG3"})

(* A DisconnectModule has no timeout, waits for no digits, and takes the   *)
(* physical end only.                                                      *)
ArgumentInv ==
    In({"DisconnectModule"}) =>
      ~active.timed /\ ~active.DTMF_exit /\ active.endedBy = {"callDisconnectedPhysical"}

(* A call that is down stays down, and only then a module hears of it.     *)
DownInv == capi_pc = "callDisconnectedPhysical" => plci_state = "P0"

Disconnecting == {"construct", "mainLoop", "reject", "disconnect", "sleep"}

(* When a DisconnectModule runs, there is a call and the module hears its  *)
(* end with its own methods, not with those of the base class.             *)
HearsInv ==
    In({"DisconnectModule"}) =>
      /\ pc \in Inside => plci_state # "none"
      /\ pc \in Disconnecting => call_if = "module"

(* finish is set by the end of the call and by nothing else.               *)
EndInv ==
    ~config.overlap /\ In({"DisconnectModule"}) =>
      /\ pc \in Disconnecting \cup {"registered"} => ~timed
      /\ pc \in (Disconnecting \ {"sleep"}) \cup {"registered"} => ~finish
      /\ pc = "reject" => plci_state = "P2"
      /\ pc = "sleep" /\ finish => plci_state = "P0"

LEMMA ClassNext == ASSUME PlaceInv, ClassInv, [Next]_vars PROVE ClassInv'
  <1>1. CASE UNCHANGED <<pc, cmd>>
    BY <1>1, SameClass DEF ClassInv
  <1>2. CASE pc' \notin {"evaluate", "hangup", "fetch", "clear", "change", "sleep.again"}
    BY <1>2 DEF ClassInv
  <1>3. CASE Handle \/ Callback \/ UNCHANGED vars
    BY <1>1, <1>3, HandleFrame, CallbackFrame DEF vars
  <1>4. CASE Command \/ Wake \/ Register \/ CheckConnection \/ Construct
    BY <1>2, <1>4, CommandMoves, BeginMoves, OutsideIsElsewhere
  <1>5. CASE Dial \/ CallWaited \/ Evaluate \/ HungUp
    <2>1. UNCHANGED cmd /\ (pc' \in {"evaluate", "hangup"} => In({"CallOutgoing"}))
      BY <1>5, CallMoves, Leaving, OutsideIsElsewhere
      DEF ClassInv, Dial, CallWaited, WakesUp, HungUp, Enters, Evaluate
    <2> QED
      BY <1>5, <2>1, CallMoves, OutsideIsElsewhere, SameClass DEF ClassInv
  <1>6. CASE connectWaiting \/ Disconnect \/ rejectWaiting \/ DisconnectCall \/ Waited
    BY <1>2, <1>6, LeaveMoves, OutsideIsElsewhere
  <1>7. CASE \/ SkipsAudio \/ Sending \/ Dialled
             \/ ReceiveAudio \/ ReceiveFax \/ Open \/ stop_file_reception \/ Truncate
    BY <1>2, <1>7, SkipMoves, SendMoves, ReceiveMoves, DialledMoves, OutsideIsElsewhere
  <1>8. CASE Read \/ ReadWaited \/ getDTMF \/ clearDTMF
    <2>1. pc' \in {"fetch", "clear"} => In({"ReadDTMF"})
      BY <1>8, Leaving, OutsideIsElsewhere
      DEF ClassInv, Read, ReadWaited, Enters, WakesUp, getDTMF, clearDTMF
    <2> QED
      BY <1>8, <2>1, DigitMoves, OutsideIsElsewhere, SameClass DEF ClassInv
  <1>9. CASE Switch \/ SwitchWaited \/ changeProtocol \/ Switched
    <2>1. pc' \in {"change", "sleep.again"} => In({"Switch2FaxG3"})
      BY <1>9, Leaving, OutsideIsElsewhere
      DEF ClassInv, Switch, SwitchWaited, Enters, WakesUp, changeProtocol, Switched
    <2> QED
      BY <1>9, <2>1, SwitchMoves, OutsideIsElsewhere, SameClass DEF ClassInv
  <1>10. CASE Delete \/ Deleted \/ Drop
    BY <1>2, <1>10, EndMoves, DropMoves, OutsideIsElsewhere
  <1> QED
    BY <1>3, <1>4, <1>5, <1>6, <1>7, <1>8, <1>9, <1>10 DEF Next, Continue, Sending

LEMMA Arguments ==
    ASSUME NEW w, w.active = DisconnectModule(w.active.quick)
    PROVE  /\ ~w.active.timed /\ ~w.active.DTMF_exit
           /\ w.active.endedBy = {"callDisconnectedPhysical"}
  <1>1. DisconnectModule(w.active.quick).timed = FALSE
          /\ DisconnectModule(w.active.quick).DTMF_exit = FALSE
    BY DEF DisconnectModule, CallModule
  <1>2. DisconnectModule(w.active.quick).endedBy = {"callDisconnectedPhysical"}
    BY DEF DisconnectModule, CallModule
  <1> QED
    BY <1>1, <1>2

LEMMA DestructArguments ==
    ASSUME cmd' = capisuitemodule_destruct_connection
    PROVE  ArgumentInv'
  <1>1. cmd'.active = DisconnectModule(cmd'.active.quick)
    BY DEF capisuitemodule_destruct_connection, Wrapper, DisconnectModule, CallModule
  <1> QED
    BY <1>1, Arguments DEF ArgumentInv, active

LEMMA ArgumentInit == Init => ArgumentInv
  <1> SUFFICES ASSUME Init PROVE ArgumentInv
    OBVIOUS
  <1>1. cmd.active = DisconnectModule(cmd.active.quick)
    BY DEF Init, capisuitemodule_destruct_connection, Wrapper, DisconnectModule, CallModule
  <1> QED
    BY <1>1, Arguments DEF ArgumentInv, active

LEMMA ArgumentNext ==
    ASSUME TypeInv, PlaceInv, ArgumentInv, [Next]_vars
    PROVE  ArgumentInv'
  <1>1. CASE UNCHANGED cmd
    BY <1>1, SameClass DEF ArgumentInv, active
  <1>2. CASE Command
    <2>1. PICK c \in config.commands :
            Starts(c) \/ acceptWaiting(c) \/ enableDTMF(c) \/ disableDTMF(c)
      BY <1>2 DEF Command
    <2>2. cmd' = c
      BY <2>1 DEF Starts, acceptWaiting, enableDTMF, disableDTMF, SetDTMF, Begin
    <2>3. config \in Configurations
      BY DEF TypeInv, CapiType
    <2>4. c.active.class = "DisconnectModule" => c.active = DisconnectModule(c.active.quick)
      BY <2>3, DisconnectAssumption
    <2>5. In({"DisconnectModule"})' => c.active.class = "DisconnectModule"
      BY <2>2 DEF In, active
    <2> QED
      BY <2>2, <2>4, <2>5, Arguments DEF ArgumentInv, active
  <1>3. CASE Drop
    BY <1>1, <1>3, DestructArguments DEF Drop
  <1>4. CASE Handle \/ Callback \/ UNCHANGED vars
    BY <1>1, <1>4, HandleFrame, CallbackFrame DEF vars
  <1>5. CASE Continue
    BY <1>1, <1>5, BeginMoves, CallMoves, LeaveMoves, SkipMoves, SendMoves, ReceiveMoves,
       DigitMoves, SwitchMoves, EndMoves, DialledMoves DEF Continue, Sending
  <1> QED
    BY <1>2, <1>3, <1>4, <1>5 DEF Next

(* Once the call is down no message comes and no request changes that.     *)
LEMMA DownStays ==
    ASSUME LineInv, NewCallInv, [Next]_vars, plci_state = "P0"
    PROVE  plci_state' = "P0" /\ ~Handle
  <1>1. ~Handle
    BY DEF LineInv, Handle, MayHandle, connect_conf, info_ind_alerting, connect_active_ind,
           connect_b3_conf, connect_b3_ind, connect_b3_active_ind, select_b_protocol_conf,
           disconnect_b3_ind, disconnect_b3_resp, disconnect_ind, disconnect_ind_refused,
           data_b3_ind, facility_ind_DTMF, file_completed
  <1>2. CASE Callback \/ UNCHANGED vars
    BY <1>1, <1>2, CallbackFrame DEF vars
  <1>3. CASE Continue \/ Drop \/ Command
    <2>1. CASE Dial
      BY <2>1 DEF Dial, Enters, NewCallInv
    <2>2. CASE \/ Evaluate \/ connectWaiting \/ rejectWaiting \/ DisconnectCall \/ Switch
               \/ changeProtocol \/ Delete
      BY <1>1, <2>2
      DEF Evaluate, connectWaiting, rejectWaiting, DisconnectCall, Switch, changeProtocol,
          Delete, disconnectCall, Physical
    <2> QED
      BY <1>1, <1>3, <2>1, <2>2, LineElsewhere
  <1> QED
    BY <1>1, <1>2, <1>3 DEF Next

LEMMA DownNext ==
    ASSUME LineInv, NewCallInv, DownInv, [Next]_vars
    PROVE  DownInv'
  <1>1. CASE Handle
    <2>1. disconnect_ind => plci_state' = "P0"
      BY DEF disconnect_ind
    <2>2. ~disconnect_ind => capi_pc' # "callDisconnectedPhysical"
      BY <1>1
      DEF Handle, Then, connect_conf, info_ind_alerting, connect_active_ind,
          connect_b3_conf, connect_b3_ind, connect_b3_active_ind, select_b_protocol_conf,
          disconnect_b3_ind, disconnect_b3_resp, disconnect_ind_refused, data_b3_ind,
          facility_ind_DTMF, file_completed
    <2> QED
      BY <2>1, <2>2 DEF DownInv
  <1>2. CASE Callback
    <2>1. UNCHANGED plci_state
      BY <1>2, CallbackFrame
    <2>2. capi_pc' = "callDisconnectedPhysical" => UNCHANGED capi_pc
      BY <1>2
      DEF Callback, callDisconnectedPhysical, callDisconnectedLogical, callConnected,
          transmissionComplete, alerting, gotDTMF, dataIn, CallsDeadModule, Calls
    <2> QED
      BY <2>1, <2>2 DEF DownInv
  <1>3. CASE Continue \/ Drop \/ Command \/ UNCHANGED vars
    <2>1. UNCHANGED capi_pc
      BY <1>3, ScriptFrame DEF vars
    <2> QED
      BY <2>1, DownStays DEF DownInv
  <1> QED
    BY <1>1, <1>2, <1>3 DEF Next

(* How a DisconnectModule goes on.                                         *)
LEMMA OnlyDisconnects ==
    ASSUME PlaceInv, Continue, In({"DisconnectModule"})',
           pc' \in Disconnecting \cup {"registered"}
    PROVE  /\ UNCHANGED cmd /\ In({"DisconnectModule"})
           /\ \/ Register \/ CheckConnection \/ Construct
              \/ Disconnect \/ rejectWaiting \/ DisconnectCall
  <1>0. pc' \in {"registered", "construct", "mainLoop", "reject", "disconnect", "sleep"}
    BY DEF Disconnecting
  <1>1. UNCHANGED cmd
    BY BeginMoves, CallMoves, LeaveMoves, SkipMoves, SendMoves, ReceiveMoves, DigitMoves,
       SwitchMoves, EndMoves, DialledMoves DEF Continue, Sending
  <1>2. In({"DisconnectModule"})
    BY <1>1, SameClass
  <1>3. /\ ~In({"CallOutgoing"}) /\ ~In({"ConnectModule"}) /\ ~In({"AudioSend", "FaxSend"})
        /\ ~In({"AudioReceive", "FaxReceive"}) /\ ~In({"ReadDTMF"})
        /\ ~In({"Switch2FaxG3"})
    BY <1>2 DEF In
  <1>4. ~Wake
    BY <1>0 DEF Wake, Step, Goto
  <1>5. ~(Dial \/ CallWaited \/ Evaluate \/ HungUp) /\ ~Dialled
    BY <1>0, <1>3, CallMoves, DialledMoves, OutsideIsElsewhere DEF Outside
  <1>6. ~connectWaiting /\ ~Waited
    BY <1>0, <1>3, Leaving, OutsideIsElsewhere DEF connectWaiting, Waited, Enters, Outside
  <1>7. ~SkipsAudio /\ ~(Sending)
    BY <1>0, <1>3, SkipMoves, SendMoves DEF Outside
  <1>8. ~(ReceiveAudio \/ ReceiveFax \/ Open \/ stop_file_reception \/ Truncate)
    BY <1>3, ReceiveMoves
  <1>9. ~(Read \/ ReadWaited \/ getDTMF \/ clearDTMF)
    BY <1>0, <1>3, DigitMoves DEF Outside
  <1>10. ~(Switch \/ SwitchWaited \/ changeProtocol \/ Switched)
    BY <1>0, <1>3, SwitchMoves DEF Outside
  <1>11. ~(Delete \/ Deleted)
    BY <1>0, EndMoves DEF Outside
  <1> QED
    BY <1>1, <1>2, <1>4, <1>5, <1>6, <1>7, <1>8, <1>9, <1>10, <1>11 DEF Continue, Sending

LEMMA DisconnectSteps ==
    ASSUME Disconnect \/ rejectWaiting \/ DisconnectCall,
           pc' \in Disconnecting \cup {"registered"}
    PROVE  /\ UNCHANGED <<call_if, finish, timed>>
           /\ pc \in {"mainLoop", "reject", "disconnect"}
           /\ \/ pc' = "reject" /\ plci_state = "P2" /\ UNCHANGED plci_state
              \/ pc' \in {"disconnect", "sleep"}
  <1>0. pc' \notin Outside
    BY DEF Disconnecting, Outside
  <1>1. CASE Disconnect
    BY <1>0, <1>1, Leaving DEF Disconnect, Enters, Step, Goto, getState
  <1>2. CASE rejectWaiting
    BY <1>0, <1>2, Leaving DEF rejectWaiting, Step, Goto
  <1>3. CASE DisconnectCall
    BY <1>0, <1>3, Leaving DEF DisconnectCall, Step, Goto
  <1> QED
    BY <1>1, <1>2, <1>3

(* A command that goes on has begun.                                       *)
LEMMA GoesOnInside ==
    ASSUME PlaceInv, Continue, pc' \in Inside
    PROVE  pc \in Inside /\ UNCHANGED cmd
  <1>0. pc' \notin Outside
    BY DEF Inside, Outside
  <1> QED
    BY <1>0, BeginMoves, CallMoves, LeaveMoves, SendMoves, SkipMoves, ReceiveMoves, DigitMoves,
       SwitchMoves, EndMoves, DialledMoves DEF Continue, Sending, Inside

LEMMA HearsNext ==
    ASSUME PlaceInv, LineInv, NewCallInv, HearsInv, [Next]_vars
    PROVE  HearsInv'
  <1>1. CASE Handle \/ Callback \/ UNCHANGED vars
    <2>1. UNCHANGED <<pc, cmd, call_if>> /\ (UNCHANGED plci_state \/ plci_state' # "none")
      BY <1>1, HandleFrame, LineHandled, CallbackFrame DEF vars
    <2> QED
      BY <2>1, SameClass DEF HearsInv
  <1>2. CASE Command
    <2>1. PICK c \in config.commands :
            Starts(c) \/ acceptWaiting(c) \/ enableDTMF(c) \/ disableDTMF(c)
      BY <1>2 DEF Command
    <2>2. cmd' = c /\ UNCHANGED plci_state
            /\ (c.active.class = "CallOutgoing") = (plci_state = "none")
      BY <2>1 DEF Starts, acceptWaiting, enableDTMF, disableDTMF, SetDTMF, Begin
    <2>3. In({"DisconnectModule"})' => plci_state' # "none"
      BY <2>2 DEF In, active
    <2>4. pc' \notin Disconnecting
      BY <1>2, CommandMoves DEF Disconnecting
    <2> QED
      BY <2>3, <2>4 DEF HearsInv
  <1>3. CASE Drop
    <2>1. pc' \in Inside => plci_state' # "none"
      BY <1>3 DEF Drop, Inside
    <2>2. pc' \notin Disconnecting
      BY <1>3 DEF Drop, Disconnecting
    <2> QED
      BY <2>1, <2>2 DEF HearsInv
  <1>4. ASSUME Continue, In({"DisconnectModule"})', pc' \in Inside
        PROVE  plci_state' # "none"
    BY <1>4, GoesOnInside, SameClass, LineAsked DEF HearsInv
  <1>5. ASSUME Continue, In({"DisconnectModule"})', pc' \in Disconnecting
        PROVE  call_if' = "module"
    <2>1. /\ UNCHANGED cmd /\ In({"DisconnectModule"})
          /\ \/ Register \/ CheckConnection \/ Construct
             \/ Disconnect \/ rejectWaiting \/ DisconnectCall
      BY <1>5, OnlyDisconnects
    <2>2. CASE Disconnect \/ rejectWaiting \/ DisconnectCall
      BY <1>5, <2>1, <2>2, DisconnectSteps DEF HearsInv, Disconnecting
    <2>3. CASE Register \/ CheckConnection \/ Construct
      <3>1. pc' \in {"registered", "construct", "mainLoop"} \cup Outside
              \/ pc' = "register"
        BY <2>3, BeginMoves
      <3>2. pc' \in {"construct", "mainLoop"}
        BY <1>5, <3>1 DEF Disconnecting, Outside
      <3>3. CASE Register
        <4>1. pc = "register" /\ plci_state = "none"
          BY <3>2, <3>3 DEF Register, Goto
        <4> QED
          BY <2>1, <4>1 DEF HearsInv, Inside
      <3>4. CASE CheckConnection \/ Construct
        BY <2>1, <3>2, <3>4, ConstructMoves
        DEF HearsInv, Disconnecting, CheckConnection, Construct
      <3> QED
        BY <2>3, <3>3, <3>4
    <2> QED
      BY <2>1, <2>2, <2>3
  <1>6. CASE Continue
    BY <1>4, <1>5, <1>6 DEF HearsInv
  <1> QED
    BY <1>1, <1>2, <1>3, <1>6 DEF Next

(* What the message thread does to a DisconnectModule that sleeps.         *)
LEMMA EndHeard ==
    ASSUME ArgumentInv, DownInv, HearsInv, Callback, In({"DisconnectModule"}), pc = "sleep"
    PROVE  /\ UNCHANGED timed
           /\ UNCHANGED plci_state /\ (finish' => finish \/ plci_state = "P0")
  <1>1. /\ call_if = "module" /\ active.endedBy = {"callDisconnectedPhysical"}
        /\ UNCHANGED plci_state
    BY CallbackFrame DEF HearsInv, Disconnecting, ArgumentInv
  <1>2. /\ ~Is("ReadDTMF") /\ ~Is("AudioReceive") /\ ~Is("CallOutgoing")
        /\ \A k : k # "callDisconnectedPhysical" => ~Ends(k)
    BY <1>1 DEF Is, In, Ends
  <1>3. CASE callDisconnectedPhysical
    BY <1>1, <1>3 DEF callDisconnectedPhysical, Calls, DownInv
  <1>4. CASE callDisconnectedLogical \/ callConnected \/ transmissionComplete
    BY <1>1, <1>2, <1>4 DEF callDisconnectedLogical, callConnected, transmissionComplete
  <1>5. CASE alerting
    BY <1>1, <1>2, <1>5 DEF alerting
  <1>6. CASE gotDTMF
    BY <1>1, <1>2, <1>6 DEF gotDTMF
  <1>7. ASSUME NEW k, dataIn(k) PROVE UNCHANGED <<timed, finish>>
    BY <1>2, <1>7 DEF dataIn
  <1>8. CASE CallsDeadModule
    BY <1>8 DEF CallsDeadModule
  <1> QED
    BY <1>1, <1>3, <1>4, <1>5, <1>6, <1>7, <1>8 DEF Callback

LEMMA EndNext ==
    ASSUME PlaceInv, LineInv, NewCallInv, AsleepInv, ArgumentInv, DownInv, HearsInv, EndInv,
           [Next]_vars
    PROVE  EndInv'
  <1> SUFFICES ASSUME (~config.overlap)', In({"DisconnectModule"})',
                      pc' \in Disconnecting \cup {"registered"}
               PROVE  /\ ~timed'
                      /\ pc' # "sleep" => ~finish'
                      /\ pc' = "reject" => plci_state' = "P2"
                      /\ pc' = "sleep" /\ finish' => plci_state' = "P0"
    BY DEF EndInv, Disconnecting
  <1>0. pc' \in {"registered", "construct", "mainLoop", "reject", "disconnect", "sleep"}
    BY DEF Disconnecting
  <1>1. ~config.overlap
    BY HandleFrame, CallbackFrame, ScriptFrame DEF Next, vars
  <1>2. CASE Handle \/ Callback
    <2>1. pc = "sleep" /\ UNCHANGED <<pc, cmd>> /\ In({"DisconnectModule"})
      <3>1. pc \in Asleep /\ UNCHANGED <<pc, cmd>>
        BY <1>1, <1>2, OnlyAsleep
      <3> QED
        BY <1>0, <3>1, AsleepIsElsewhere, SameClass
    <2>2. ~timed /\ (finish => plci_state = "P0")
      BY <1>1, <2>1 DEF EndInv, Disconnecting
    <2>3. CASE Handle
      <3>1. UNCHANGED <<finish, timed>>
        BY <2>3, HandleFrame
      <3>2. plci_state # "P0"
        BY <2>3, DownStays
      <3> QED
        BY <2>1, <2>2, <3>1, <3>2
    <2>4. CASE Callback
      BY <2>1, <2>2, <2>4, EndHeard
    <2> QED
      BY <1>2, <2>3, <2>4
  <1>3. CASE UNCHANGED vars
    BY <1>0, <1>1, <1>3, SameClass DEF vars, EndInv, Disconnecting
  <1>4. CASE Command \/ Drop
    BY <1>0, <1>4, CommandMoves, DropMoves DEF Outside
  <1>5. CASE Continue
    <2>1. /\ UNCHANGED cmd /\ In({"DisconnectModule"})
          /\ \/ Register \/ CheckConnection \/ Construct
             \/ Disconnect \/ rejectWaiting \/ DisconnectCall
      BY <1>5, OnlyDisconnects
    <2>2. CASE Disconnect \/ rejectWaiting \/ DisconnectCall
      <3>1. ~timed /\ ~finish
        BY <1>1, <2>1, <2>2, DisconnectSteps DEF EndInv, Disconnecting
      <3> QED
        BY <1>0, <2>2, <3>1, DisconnectSteps
    <2>3. CASE Register
      <3>1. finish' = FALSE /\ (timed' => active.timed) /\ pc' \in {"construct", "registered"}
        BY <2>3 DEF Register, Step, Goto
      <3> QED
        BY <2>1, <3>1 DEF ArgumentInv
    <2>4. CASE CheckConnection \/ Construct
      <3>1. /\ UNCHANGED <<finish, timed>> /\ pc \in {"registered", "construct"}
            /\ pc' \in {"construct", "mainLoop"}
        BY <1>0, <2>4, BeginMoves
        DEF CheckConnection, Construct, Outside, Step, Goto, Throw, AfterCommand
      <3> QED
        BY <1>1, <2>1, <3>1 DEF EndInv, Disconnecting
    <2> QED
      BY <2>1, <2>2, <2>3, <2>4
  <1> QED
    BY <1>2, <1>3, <1>4, <1>5 DEF Next

DownWhenOver ==
    /\ TypeInv /\ PlaceInv /\ LineInv /\ NewCallInv /\ AsleepInv
    /\ ClassInv /\ ArgumentInv /\ DownInv /\ HearsInv /\ EndInv

LEMMA OverInit == Init => DownWhenOver
  <1> SUFFICES ASSUME Init PROVE DownWhenOver
    OBVIOUS
  <1>1. pc = "idle" /\ capi_pc = "run" /\ LineInv /\ AsleepInv
    BY DEF Init, LineInv, AsleepInv
  <1>2. NewCallInv
    BY <1>1, DestructClass DEF Init, NewCallInv, In, active
  <1>3. ClassInv /\ DownInv /\ HearsInv /\ EndInv
    BY <1>1 DEF ClassInv, DownInv, HearsInv, EndInv, Disconnecting, Inside
  <1> QED
    BY <1>1, <1>2, <1>3, TypeInit, PlaceInit, ArgumentInit DEF DownWhenOver

LEMMA OverNext == ASSUME DownWhenOver, [Next]_vars PROVE DownWhenOver'
  BY TypeNext, PlaceNext, LineNext, NewCallNext, AsleepNext, ClassNext, ArgumentNext,
     DownNext, HearsNext, EndNext DEF DownWhenOver

(* An exception is never reported as success.                              *)
LEMMA ThrownIsNotOk == ASSUME NEW e, Throw(e) PROVE outcome' # "ok"
  BY DEF Throw, Outcome

LEMMA OverStep ==
    ASSUME DownWhenOver, [Next]_vars, ~config.overlap, In({"DisconnectModule"}),
           pc \in Inside, pc' \in Outside, outcome' = "ok"
    PROVE  getState' = "DOWN"
  <1>1. pc' # pc /\ pc # "idle"
    BY DEF Inside, Outside
  <1>2. Continue
    BY <1>1, HandleFrame, CallbackFrame, CommandMoves, DropMoves DEF Next, vars
  <1>3. /\ ~In({"CallOutgoing"}) /\ ~In({"ConnectModule"}) /\ ~In({"AudioSend", "FaxSend"})
        /\ ~In({"AudioReceive", "FaxReceive"}) /\ ~In({"ReadDTMF"}) /\ ~In({"Switch2FaxG3"})
        /\ ~In({"AudioSend", "AudioReceive"})
    BY DEF In
  <1>4. ~(Wake \/ Register \/ CheckConnection \/ Construct)
    <2>1. ~Wake /\ ~Register
      BY <1>1 DEF Wake, Register, Step, Goto, Outside
    <2>2. ~CheckConnection
      BY DEF CheckConnection, Goto, Outcome, Outside
    <2>3. ~Construct
      BY ThrownIsNotOk DEF Construct, Step, Goto, Outside
    <2> QED
      BY <2>1, <2>2, <2>3
  <1>5. ~(Dial \/ CallWaited \/ Evaluate \/ HungUp) /\ ~Dialled
    BY <1>3, CallMoves, DialledMoves
    DEF DownWhenOver, ClassInv, Dial, CallWaited, Evaluate, HungUp, Enters, WakesUp
  <1>6. ~(SkipsAudio \/ Sending)
    BY <1>3, SendMoves DEF DownWhenOver, SkipsAudio, Enters
  <1>7. ~(ReceiveAudio \/ ReceiveFax \/ Open \/ stop_file_reception \/ Truncate)
    BY <1>3, ReceiveMoves DEF DownWhenOver
  <1>8. ~(Read \/ ReadWaited \/ getDTMF \/ clearDTMF)
    BY <1>3, DigitMoves DEF DownWhenOver, ClassInv
  <1>9. ~(Switch \/ SwitchWaited \/ changeProtocol \/ Switched)
    BY <1>3, SwitchMoves DEF DownWhenOver, ClassInv
  <1>10. ~(Delete \/ Deleted)
    BY EndMoves DEF Inside, Outside
  <1>11. CASE connectWaiting \/ DisconnectCall
    BY <1>3, <1>11, ThrownIsNotOk DEF connectWaiting, DisconnectCall, Enters, Step, Goto, Outside
  <1>12. CASE Disconnect
    <2>1. getState = "DOWN" /\ UNCHANGED lineVars
      BY <1>12 DEF Disconnect, Step, Goto, Outside
    <2> QED
      BY <2>1 DEF getState
  <1>13. CASE rejectWaiting
    <2>1. pc = "reject"
      BY <1>13 DEF rejectWaiting
    <2>2. plci_state = "P2"
      BY <2>1 DEF DownWhenOver, EndInv
    <2> QED
      BY <1>13, <2>2, ThrownIsNotOk DEF rejectWaiting, Step, Goto, Outside
  <1>14. CASE Waited
    <2>1. pc = "sleep" /\ Awake /\ UNCHANGED lineVars
      BY <1>14 DEF Waited, WakesUp
    <2>2. ~active.DTMF_exit /\ ~timed /\ (finish => plci_state = "P0")
      BY <2>1 DEF DownWhenOver, ArgumentInv, EndInv, Disconnecting
    <2>3. plci_state = "P0"
      BY <2>1, <2>2 DEF Awake, AlreadyDialled
    <2>4. ncci_state = "N0"
      BY <2>3 DEF DownWhenOver, LineInv
    <2> QED
      BY <2>1, <2>3, <2>4 DEF getState
  <1> QED
    BY <1>2, <1>4, <1>5, <1>6, <1>7, <1>8, <1>9, <1>10, <1>11, <1>12, <1>13, <1>14
    DEF Continue, Sending

(* Without overlap, disconnect, reject and the end of a call reference     *)
(* return without an exception only when the call is down, for any script, *)
(* any number of faults and whatever the other side does: either it did    *)
(* not sleep, because the call was down, or its own                        *)
(* callDisconnectedPhysical woke it up, which is called only after the     *)
(* Connection went to P0; and nothing leaves P0.                           *)
THEOREM DisconnectMeansDown == Spec => DisconnectedIsDown
  <1>1. Init => DownWhenOver
    BY OverInit
  <1>2. DownWhenOver /\ [Next]_vars => DownWhenOver'
    BY OverNext
  <1>3. DownWhenOver /\ [Next]_vars
          => [~config.overlap /\ In({"DisconnectModule"}) /\ pc \in Inside /\ pc' \in Outside
                /\ outcome' = "ok" => getState' = "DOWN"]_vars
    BY OverStep
  <1> QED
    BY <1>1, <1>2, <1>3, PTL DEF Spec, DisconnectedIsDown
=============================================================================
