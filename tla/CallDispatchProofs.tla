------------------------- MODULE CallDispatchProofs -------------------------
(* What holds of the dispatch of messages for any number of calls, PLCIs,  *)
(* message numbers and installations.                                      *)
EXTENDS CallDispatch, QueueLemmas, TLAPS

(* The type invariant in the parts the steps disturb together.  A PLCI in  *)
(* use has a call, and the handler that unregisters one knows which.       *)
CapiType ==
    /\ config \in Configurations
    /\ connections \in [Plcis \cup {NoPlci} -> MaybeCalls]
    /\ requested \in [Numbers -> MaybeCalls]
    /\ messageNumber \in Numbers
    /\ capi_pc \in CapiPCs
    /\ handled \in MaybeCalls
    /\ capi_pc = "unregisterConnection" => handled \in Calls

CallType ==
    /\ plci_state \in [Calls -> CallStates]
    /\ plci \in [Calls -> Plcis \cup {NoPlci}]
    /\ deleted \in [Calls -> BOOLEAN]
    /\ scripts \in [Calls -> Nat] /\ started \in [Calls -> Nat]
    /\ request_pc \in [Calls -> RequestPCs]

FlagType    == corrupt \in BOOLEAN
CallToType  == call_to \in [Calls -> Digits]
ToDialType  == to_dial \in [Calls -> Digits]
WaitingType == waiting \in Seq(Calls)
InboxType   == inbox \in Seq(Messages)

LineType ==
    /\ network \in [Plcis -> MaybeCalls]
    /\ phase \in [Plcis -> Phases]
    /\ \A p \in Plcis : phase[p] # "free" => network[p] \in Calls

TypeInv ==
    /\ CapiType /\ CallType /\ FlagType /\ CallToType /\ ToDialType /\ WaitingType
    /\ InboxType /\ LineType

USE DEF capiVars, callVars, suiteVars, driverVars

LEMMA TypeImplies == TypeInv => DispatchTypeOK
  BY DEF TypeInv, CapiType, CallType, FlagType, CallToType, ToDialType, WaitingType,
         InboxType, LineType, DispatchTypeOK

(* What a step leaves alone keeps its type.                                *)
LEMMA Kept ==
    ASSUME TypeInv
    PROVE  /\ UNCHANGED <<config, connections, requested, messageNumber, capi_pc, handled>>
                => CapiType'
           /\ UNCHANGED <<plci_state, plci, deleted, scripts, started, request_pc>> => CallType'
           /\ UNCHANGED corrupt => FlagType'
           /\ UNCHANGED call_to => CallToType'
           /\ UNCHANGED to_dial => ToDialType'
           /\ UNCHANGED waiting => WaitingType'
           /\ UNCHANGED inbox => InboxType'
           /\ UNCHANGED <<network, phase>> => LineType'
  BY DEF TypeInv, CapiType, CallType, FlagType, CallToType, ToDialType, WaitingType,
         InboxType, LineType

LEMMA Names ==
    /\ "run" \in CapiPCs /\ "unregisterConnection" \in CapiPCs
    /\ {"none", "P01", "P1", "P2", "P4", "P5", "P0"} \subseteq CallStates
    /\ {"none", "key", "put"} \subseteq RequestPCs
    /\ {"free", "up", "asked", "cleared"} \subseteq Phases
    /\ {"CONNECT_IND", "CONNECT_CONF", "INFO_IND", "DISCONNECT_IND"} \subseteq MessageTypes
  BY DEF CapiPCs, CallStates, RequestPCs, Phases, MessageTypes

(* The message in hand, and the ones after it.                             *)
LEMMA ReadType ==
    ASSUME TypeInv, NEW type, Read(type)
    PROVE  /\ Message.call \in Calls
           /\ Message.plci \in Plcis \cup {NoPlci}
           /\ Message.number \in Numbers
           /\ Message.digits \in Digits
           /\ InboxType' /\ ToDialType'
           /\ UNCHANGED <<config, messageNumber, scripts, started, request_pc, network>>
  <1>1. inbox \in Seq(Messages) /\ inbox # <<>>
    BY DEF TypeInv, InboxType, Read
  <1>2. Head(inbox) \in Messages /\ Tail(inbox) \in Seq(Messages)
    BY <1>1
  <1>3. ToDialType'
    BY Kept DEF Read
  <1>4. InboxType'
    BY <1>2 DEF Read, InboxType
  <1> QED
    BY <1>2, <1>3, <1>4 DEF Read, Message, Messages

(* A call that is used next is one of the calls.                           *)
LEMMA UseType == ASSUME CallType, NEW c \in Calls, Use(c) PROVE FlagType'
  BY DEF CallType, Use, FlagType

LEMMA TypeInit == Init => TypeInv
  <1> SUFFICES ASSUME Init PROVE TypeInv
    OBVIOUS
  <1>1. CapiType
    BY DispatchAssumption, Names DEF Init, CapiType, MaybeCalls, Numbers
  <1>2. CallType /\ FlagType
    BY Names DEF Init, CallType, FlagType
  <1>3. CallToType /\ ToDialType /\ WaitingType /\ InboxType
    <2>1. <<>> \in Digits /\ <<>> \in Seq(Calls) /\ <<>> \in Seq(Messages)
      BY DEF Digits
    <2> QED
      BY <2>1 DEF Init, CallToType, ToDialType, WaitingType, InboxType
  <1>4. LineType
    BY Names DEF Init, LineType, MaybeCalls
  <1> QED
    BY <1>1, <1>2, <1>3, <1>4 DEF TypeInv

-----------------------------------------------------------------------------
(* The message thread.                                                     *)

LEMMA WaitingPush ==
    ASSUME TypeInv, NEW c \in Calls, callWaiting(c)
    PROVE  WaitingType'
  BY AppendType DEF TypeInv, WaitingType, callWaiting

(* A digit string put behind another.                                      *)
LEMMA JoinDigits ==
    ASSUME NEW d \in Digits, NEW e \in Digits
    PROVE  d \o e \in Digits
  BY DEF Digits

LEMMA UnknownType ==
    ASSUME TypeInv, NEW type, Read(type), Unknown
    PROVE  TypeInv'
  BY ReadType, Kept DEF Unknown, TypeInv

LEMMA TypeConnectInd == ASSUME TypeInv, connect_ind PROVE TypeInv'
  <1>1. Read("CONNECT_IND")
    BY DEF connect_ind
  <1> DEFINE c == Message.call
  <1>2. c \in Calls /\ Message.plci \in Plcis \cup {NoPlci} /\ Message.digits \in Digits
    BY <1>1, ReadType
  <1>3. InboxType' /\ ToDialType' /\ LineType' /\ FlagType'
    BY <1>1, ReadType, Kept DEF connect_ind
  <1>4. CapiType'
    BY <1>1, <1>2, ReadType DEF connect_ind, TypeInv, CapiType, MaybeCalls
  <1>5. CallType'
    BY <1>1, <1>2, ReadType, Names DEF connect_ind, TypeInv, CallType
  <1>6. CallToType'
    BY <1>2 DEF connect_ind, TypeInv, CallToType
  <1>7. WaitingType'
    BY <1>2, WaitingPush, Kept DEF connect_ind
  <1> QED
    BY <1>3, <1>4, <1>5, <1>6, <1>7 DEF TypeInv

LEMMA TypeInfoInd == ASSUME TypeInv, info_ind_called_party_nr PROVE TypeInv'
  <1>1. Read("INFO_IND")
    BY DEF info_ind_called_party_nr
  <1> DEFINE c == connections[Message.plci]
  <1>2. CASE ~(c # None /\ plci_state[c] = "P2") /\ Unknown
    BY <1>1, <1>2, UnknownType
  <1>3. CASE /\ c # None /\ plci_state[c] = "P2"
             /\ call_to' = [call_to EXCEPT ![c] = @ \o Message.digits]
             /\ IF Complete(call_to'[c]) THEN callWaiting(c) ELSE UNCHANGED waiting
             /\ Use(c)
             /\ UNCHANGED <<connections, requested, capi_pc, handled, plci_state, plci, deleted,
                            phase>>
    <2>1. c \in Calls /\ Message.digits \in Digits
      BY <1>1, <1>3, ReadType DEF TypeInv, CapiType, MaybeCalls
    <2>2. InboxType' /\ ToDialType' /\ LineType' /\ CapiType' /\ CallType'
      BY <1>1, <1>3, ReadType, Kept
    <2>3. FlagType'
      BY <1>3, <2>1, UseType DEF TypeInv
    <2>4. CallToType'
      <3>1. call_to \in [Calls -> Digits]
        BY DEF TypeInv, CallToType
      <3>2. call_to[c] \o Message.digits \in Digits
        BY <2>1, <3>1, JoinDigits
      <3> QED
        BY <1>3, <3>1, <3>2 DEF CallToType
    <2>5. WaitingType'
      BY <1>3, <2>1, WaitingPush, Kept
    <2> QED
      BY <2>2, <2>3, <2>4, <2>5 DEF TypeInv
  <1> QED
    BY <1>2, <1>3 DEF info_ind_called_party_nr

LEMMA TypeConnectConf == ASSUME TypeInv, connect_conf PROVE TypeInv'
  <1>1. Read("CONNECT_CONF")
    BY DEF connect_conf
  <1> DEFINE c == requested[Message.number]
  <1>2. CASE c = None /\ Unknown
    BY <1>1, <1>2, UnknownType
  <1>3. CASE /\ c # None
             /\ connections' = [connections EXCEPT ![Message.plci] = c]
             /\ requested' = [requested EXCEPT ![Message.number] = None]
             /\ IF Message.plci # NoPlci /\ plci_state[c] = "P01"
                THEN /\ plci' = [plci EXCEPT ![c] = Message.plci]
                     /\ plci_state' = [plci_state EXCEPT ![c] = "P1"]
                ELSE UNCHANGED <<plci, plci_state>>
             /\ Use(c)
             /\ UNCHANGED <<capi_pc, handled, call_to, deleted, waiting, phase>>
    <2>1. c \in Calls /\ Message.plci \in Plcis \cup {NoPlci}
      BY <1>1, <1>3, ReadType DEF TypeInv, CapiType, MaybeCalls
    <2>2. InboxType' /\ ToDialType' /\ LineType' /\ CallToType' /\ WaitingType'
      BY <1>1, <1>3, ReadType, Kept
    <2>3. CapiType'
      <3>1. connections' \in [Plcis \cup {NoPlci} -> MaybeCalls]
        BY <1>3, <2>1 DEF TypeInv, CapiType, MaybeCalls
      <3>2. requested' \in [Numbers -> MaybeCalls]
        BY <1>3 DEF TypeInv, CapiType, MaybeCalls
      <3>3. UNCHANGED <<config, messageNumber, capi_pc, handled>>
        BY <1>1, <1>3, ReadType
      <3> QED
        BY <3>1, <3>2, <3>3 DEF TypeInv, CapiType
    <2>4. CallType'
      BY <1>1, <1>3, <2>1, ReadType, Names DEF TypeInv, CallType
    <2>5. FlagType'
      BY <1>3, <2>1, UseType DEF TypeInv
    <2> QED
      BY <2>2, <2>3, <2>4, <2>5 DEF TypeInv
  <1> QED
    BY <1>2, <1>3 DEF connect_conf

LEMMA TypeDisconnectInd == ASSUME TypeInv, disconnect_ind PROVE TypeInv'
  <1>1. Read("DISCONNECT_IND")
    BY DEF disconnect_ind
  <1> DEFINE c == connections[Message.plci]
  <1>2. CASE ~Ends(c, Message.plci) /\ Unknown
    BY <1>1, <1>2, UnknownType
  <1>3. CASE /\ Ends(c, Message.plci)
             /\ plci_state' = [plci_state EXCEPT ![c] = "P0"]
             /\ Use(c)
             /\ \/ /\ phase' = [phase EXCEPT ![Message.plci] = "free"]
                   /\ capi_pc' = "unregisterConnection" /\ handled' = c
                \/ config.failing /\ UNCHANGED <<phase, capi_pc, handled>>
             /\ UNCHANGED <<connections, requested, plci, call_to, deleted, waiting>>
    <2>1. c \in Calls /\ Message.plci \in Plcis \cup {NoPlci}
      BY <1>1, <1>3, ReadType DEF TypeInv, CapiType, MaybeCalls, Ends
    <2>2. InboxType' /\ ToDialType' /\ CallToType' /\ WaitingType'
      BY <1>1, <1>3, ReadType, Kept
    <2>3. CapiType'
      BY <1>1, <1>3, <2>1, ReadType, Names DEF TypeInv, CapiType, MaybeCalls
    <2>4. CallType'
      BY <1>1, <1>3, <2>1, ReadType, Names DEF TypeInv, CallType
    <2>5. FlagType'
      BY <1>3, <2>1, UseType DEF TypeInv
    <2>6. LineType'
      BY <1>1, <1>3, <2>1, ReadType, Names DEF TypeInv, LineType
    <2> QED
      BY <2>2, <2>3, <2>4, <2>5, <2>6 DEF TypeInv
  <1> QED
    BY <1>2, <1>3 DEF disconnect_ind

LEMMA TypeUnregister == ASSUME TypeInv, unregisterConnection PROVE TypeInv'
  <1>1. handled \in Calls
    BY DEF unregisterConnection, TypeInv, CapiType
  <1>2. CapiType'
    BY Names DEF unregisterConnection, TypeInv, CapiType, MaybeCalls, CapiPCs
  <1>3. FlagType'
    BY <1>1, UseType DEF unregisterConnection, TypeInv
  <1>4. CallType' /\ CallToType' /\ ToDialType' /\ WaitingType' /\ InboxType' /\ LineType'
    BY Kept DEF unregisterConnection
  <1> QED
    BY <1>2, <1>3, <1>4 DEF TypeInv

-----------------------------------------------------------------------------
(* The threads of the application.                                         *)

LEMMA TypeMainLoop == ASSUME TypeInv, mainLoop PROVE TypeInv'
  <1> DEFINE c == Head(waiting)
  <1>1. c \in Calls /\ WaitingType'
    BY TailType DEF mainLoop, TypeInv, WaitingType
  <1>2. CallType'
    BY <1>1 DEF mainLoop, TypeInv, CallType
  <1>3. FlagType'
    BY <1>1, UseType DEF mainLoop, TypeInv
  <1>4. CapiType' /\ CallToType' /\ ToDialType' /\ InboxType' /\ LineType'
    BY Kept DEF mainLoop
  <1> QED
    BY <1>1, <1>2, <1>3, <1>4 DEF TypeInv

LEMMA TypeScript == ASSUME TypeInv, NEW c \in Calls, ScriptSteps(c) PROVE TypeInv'
  <1>1. CASE connectWaiting(c)
    <2>1. CallType'
      BY <1>1, Names DEF connectWaiting, TypeInv, CallType
    <2>2. FlagType'
      BY <1>1, UseType DEF connectWaiting, TypeInv
    <2>3. CapiType' /\ CallToType' /\ ToDialType' /\ WaitingType' /\ InboxType' /\ LineType'
      BY <1>1, Kept DEF connectWaiting
    <2> QED
      BY <2>1, <2>2, <2>3 DEF TypeInv
  <1>2. CASE disconnectCall(c)
    <2>1. CallType'
      BY <1>2, Names DEF disconnectCall, TypeInv, CallType
    <2>2. FlagType'
      BY <1>2, UseType DEF disconnectCall, TypeInv
    <2>3. CapiType' /\ CallToType' /\ ToDialType' /\ WaitingType' /\ InboxType'
      BY <1>2, Kept DEF disconnectCall
    <2>4. LineType'
      BY <1>2, Names DEF disconnectCall, TypeInv, LineType
    <2> QED
      BY <2>1, <2>2, <2>3, <2>4 DEF TypeInv
  <1>3. CASE capisuitemodule_destruct_connection(c)
    <2>1. CallType'
      <3>1. scripts[c] - 1 \in Nat
        BY <1>3 DEF capisuitemodule_destruct_connection, Holds, TypeInv, CallType
      <3> QED
        BY <1>3, <3>1 DEF capisuitemodule_destruct_connection, TypeInv, CallType
    <2>2. FlagType'
      BY <1>3, UseType DEF capisuitemodule_destruct_connection, TypeInv
    <2>3. CapiType' /\ CallToType' /\ ToDialType' /\ WaitingType' /\ InboxType' /\ LineType'
      BY <1>3, Kept DEF capisuitemodule_destruct_connection
    <2> QED
      BY <2>1, <2>2, <2>3 DEF TypeInv
  <1> QED
    BY <1>1, <1>2, <1>3 DEF ScriptSteps, ScriptEnds

LEMMA NumberType == ASSUME TypeInv, NextNumber PROVE messageNumber' \in Numbers
  BY DispatchAssumption DEF TypeInv, CapiType, NextNumber, Numbers

(* A message of the right parts put behind the queue.                      *)
LEMMA InboxPush ==
    ASSUME TypeInv, NEW m \in Messages, inbox' = Append(inbox, m)
    PROVE  InboxType'
  BY AppendType DEF TypeInv, InboxType

LEMMA ConfirmType ==
    ASSUME TypeInv, NEW c \in Calls, NEW p \in Plcis \cup {NoPlci}, Confirm(c, p)
    PROVE  InboxType'
  <1> DEFINE m == [type |-> "CONNECT_CONF", call |-> c, plci |-> p,
                   number |-> messageNumber, digits |-> <<>>]
  <1>1. messageNumber \in Numbers /\ <<>> \in Digits
    BY DEF TypeInv, CapiType, Digits
  <1>2. m \in Messages
    BY <1>1, Names DEF Messages
  <1> QED
    BY <1>2, InboxPush DEF Confirm

LEMMA TypeCallOut == ASSUME TypeInv, NEW c \in Calls, CallOut(c) PROVE TypeInv'
  <1>1. CASE connect_req(c)
    <2>1. CapiType'
      BY <1>1, NumberType DEF connect_req, TypeInv, CapiType
    <2>2. CallType'
      BY <1>1, Names DEF connect_req, TypeInv, CallType
    <2>3. /\ FlagType' /\ CallToType' /\ ToDialType' /\ WaitingType' /\ InboxType' /\ LineType'
      BY <1>1, Kept DEF connect_req
    <2> QED
      BY <2>1, <2>2, <2>3 DEF TypeInv
  <1>2. CASE connect_req_key(c)
    <2>1. CapiType'
      BY <1>2 DEF connect_req_key, TypeInv, CapiType, MaybeCalls
    <2>2. CallType'
      BY <1>2, Names DEF connect_req_key, TypeInv, CallType
    <2>3. /\ FlagType' /\ CallToType' /\ ToDialType' /\ WaitingType' /\ InboxType' /\ LineType'
      BY <1>2, Kept DEF connect_req_key
    <2> QED
      BY <2>1, <2>2, <2>3 DEF TypeInv
  <1>3. CASE connect_req_put(c)
    <2>1. CapiType' /\ FlagType' /\ CallToType' /\ ToDialType' /\ WaitingType'
      BY <1>3, Kept DEF connect_req_put
    <2>2. CallType'
      <3>1. scripts' \in [Calls -> Nat] /\ deleted' \in [Calls -> BOOLEAN]
        <4>1. \/ scripts' = [scripts EXCEPT ![c] = @ + 1] /\ UNCHANGED deleted
              \/ deleted' = [deleted EXCEPT ![c] = TRUE] /\ UNCHANGED scripts
          BY <1>3 DEF connect_req_put
        <4>2. scripts \in [Calls -> Nat] /\ deleted \in [Calls -> BOOLEAN]
          BY DEF TypeInv, CallType
        <4>3. CASE scripts' = [scripts EXCEPT ![c] = @ + 1] /\ UNCHANGED deleted
          <5>1. scripts[c] + 1 \in Nat
            BY <4>2
          <5> QED
            BY <4>2, <4>3, <5>1
        <4>4. CASE deleted' = [deleted EXCEPT ![c] = TRUE] /\ UNCHANGED scripts
          BY <4>2, <4>4
        <4> QED
          BY <4>1, <4>3, <4>4
      <3>2. request_pc' \in [Calls -> RequestPCs]
        BY <1>3, Names DEF connect_req_put, TypeInv, CallType
      <3>3. UNCHANGED <<plci_state, plci, started>>
        BY <1>3 DEF connect_req_put
      <3> QED
        BY <3>1, <3>2, <3>3 DEF TypeInv, CallType
    <2>3. InboxType'
      BY <1>3, Kept, ConfirmType DEF connect_req_put
    <2>4. LineType'
      BY <1>3, Names, Kept DEF connect_req_put, TypeInv, LineType, MaybeCalls
    <2> QED
      BY <2>1, <2>2, <2>3, <2>4 DEF TypeInv
  <1> QED
    BY <1>1, <1>2, <1>3 DEF CallOut

LEMMA TypeOtherRequest == ASSUME TypeInv, OtherRequest PROVE TypeInv'
  <1>1. CapiType'
    BY NumberType DEF OtherRequest, TypeInv, CapiType
  <1>2. /\ CallType' /\ FlagType' /\ CallToType' /\ ToDialType' /\ WaitingType' /\ InboxType'
        /\ LineType'
    BY Kept DEF OtherRequest
  <1> QED
    BY <1>1, <1>2 DEF TypeInv

-----------------------------------------------------------------------------
(* The driver and the callers.                                             *)

LEMMA TellType ==
    ASSUME TypeInv, NEW type \in MessageTypes, NEW c \in Calls, NEW p \in Plcis,
           NEW digits \in Digits, Tell(type, c, p, digits)
    PROVE  InboxType'
  <1> DEFINE m == [type |-> type, call |-> c, plci |-> p, number |-> 0, digits |-> digits]
  <1>1. m \in Messages
    BY DispatchAssumption DEF Messages, Numbers
  <1> QED
    BY <1>1, InboxPush DEF Tell

(* A part of a digit string.                                               *)
LEMMA PartOfDigits ==
    ASSUME NEW d \in Digits, NEW k \in 1 .. Len(d)
    PROVE  SubSeq(d, 1, k) \in Digits /\ SubSeq(d, k + 1, Len(d)) \in Digits
  BY DEF Digits

LEMMA TypeDriver == ASSUME TypeInv, Driver PROVE TypeInv'
  <1> PICK p \in Plcis : Dial(p) \/ Clear(p) \/ \E c \in Calls : Ring(c, p)
    BY DEF Driver
  <1>1. CASE Dial(p)
    <2> DEFINE d    == network[p]
               rest == to_dial[d]
    <2>1. d \in Calls
      BY <1>1 DEF Dial, TypeInv, LineType
    <2>2. rest \in Digits /\ Len(rest) \in Nat
      BY <2>1 DEF TypeInv, ToDialType, Digits
    <2>3. PICK k \in 1 .. Len(rest) :
            /\ Tell("INFO_IND", d, p, SubSeq(rest, 1, k))
            /\ to_dial' = [to_dial EXCEPT ![d] = SubSeq(rest, k + 1, Len(rest))]
      <3>1. PICK k \in (IF config.enBloc THEN {Len(rest)} ELSE 1 .. Len(rest)) \ {0} :
              /\ Tell("INFO_IND", d, p, SubSeq(rest, 1, k))
              /\ to_dial' = [to_dial EXCEPT ![d] = SubSeq(rest, k + 1, Len(rest))]
        BY <1>1 DEF Dial
      <3>2. k \in 1 .. Len(rest)
        BY <2>2
      <3> QED
        BY <3>1, <3>2
    <2>4. SubSeq(rest, 1, k) \in Digits /\ SubSeq(rest, k + 1, Len(rest)) \in Digits
      BY <2>2, PartOfDigits
    <2>5. InboxType'
      BY <2>1, <2>3, <2>4, TellType, Names
    <2>6. ToDialType'
      BY <2>1, <2>3, <2>4 DEF TypeInv, ToDialType
    <2>7. CapiType' /\ CallType' /\ FlagType' /\ CallToType' /\ WaitingType' /\ LineType'
      BY <1>1, Kept DEF Dial
    <2> QED
      BY <2>5, <2>6, <2>7 DEF TypeInv
  <1>2. CASE Clear(p)
    <2>1. network[p] \in Calls /\ <<>> \in Digits
      BY <1>2 DEF Clear, TypeInv, LineType, Digits
    <2>2. InboxType'
      BY <1>2, <2>1, TellType, Names DEF Clear
    <2>3. LineType'
      BY <1>2, <2>1, Names DEF Clear, TypeInv, LineType
    <2>4. CapiType' /\ CallType' /\ FlagType' /\ CallToType' /\ ToDialType' /\ WaitingType'
      BY <1>2, Kept DEF Clear
    <2> QED
      BY <2>2, <2>3, <2>4 DEF TypeInv
  <1>3. CASE \E c \in Calls : Ring(c, p)
    <2>0. PICK c \in Calls : Ring(c, p)
      BY <1>3
    <2>1. PICK extension \in Extensions :
            \/ /\ Tell("CONNECT_IND", c, p, BaseNumber \o extension)
               /\ UNCHANGED to_dial
            \/ /\ Tell("CONNECT_IND", c, p, <<>>)
               /\ to_dial' = [to_dial EXCEPT ![c] = BaseNumber \o extension]
      BY <2>0 DEF Ring
    <2>2. BaseNumber \o extension \in Digits /\ <<>> \in Digits
      BY DispatchAssumption, JoinDigits DEF Digits
    <2>3. InboxType'
      BY <2>1, <2>2, TellType, Names
    <2>4. ToDialType'
      BY <2>1, <2>2, Kept DEF TypeInv, ToDialType
    <2>5. LineType'
      BY <2>0, Names DEF Ring, TypeInv, LineType, MaybeCalls
    <2>6. CapiType' /\ CallType' /\ FlagType' /\ CallToType' /\ WaitingType'
      BY <2>0, Kept DEF Ring
    <2> QED
      BY <2>3, <2>4, <2>5, <2>6 DEF TypeInv
  <1> QED
    BY <1>1, <1>2, <1>3

-----------------------------------------------------------------------------
LEMMA TypeNext == TypeInv /\ [Next]_vars => TypeInv'
  <1> SUFFICES ASSUME TypeInv, [Next]_vars PROVE TypeInv'
    OBVIOUS
  <1>1. CASE CapiSteps
    BY <1>1, TypeConnectInd, TypeInfoInd, TypeConnectConf, TypeDisconnectInd,
       TypeUnregister DEF CapiSteps
  <1>2. CASE mainLoop \/ OtherRequest \/ Driver
    BY <1>2, TypeMainLoop, TypeOtherRequest, TypeDriver
  <1>3. CASE \E c \in Calls : ScriptSteps(c) \/ CallOut(c)
    BY <1>3, TypeScript, TypeCallOut
  <1>4. CASE UNCHANGED vars
    BY <1>4, Kept DEF vars, TypeInv
  <1> QED
    BY <1>1, <1>2, <1>3, <1>4 DEF Next

LEMMA TypeAlways == Spec => []TypeInv
  BY TypeInit, TypeNext, PTL DEF Spec

(* The variables of CallDispatch keep their types: no step speaks of a     *)
(* Connection, a PLCI or a message number that does not exist.             *)
THEOREM DispatchTypeCorrect == Spec => []DispatchTypeOK
  BY TypeAlways, TypeImplies, PTL

-----------------------------------------------------------------------------
(* Where the messages of a PLCI are.  The entry of a PLCI counts as gone   *)
(* from DISCONNECT_RESP on, though unregisterConnection has yet to take it *)
(* out: the driver may use the PLCI again at once.                         *)
Entry(p) ==
    IF capi_pc = "unregisterConnection" /\ plci[handled] = p THEN None ELSE connections[p]

InUse(p) == phase[p] # "free"

(* The messages queued, by their places.                                   *)
Places      == DOMAIN inbox
Is(i, type) == inbox[i].type = type
Opens(i)    == Is(i, "CONNECT_IND") \/ Is(i, "CONNECT_CONF")
For(i)      == inbox[i].plci
About(i)    == inbox[i].call
Number(i)   == inbox[i].number

(* A free PLCI has neither an entry nor messages.                          *)
FreeIsUnused ==
    \A p \in Plcis : ~InUse(p) =>
        /\ Entry(p) = None
        /\ \A i \in Places : For(i) # p

(* The messages of a PLCI are those of its one call, the first of them     *)
(* opens it while it has no entry, and DISCONNECT_IND is the last.         *)
InOrder(i) ==
    /\ ~Is(i, "CONNECT_CONF") => For(i) \in Plcis
    /\ \A p \in Plcis : For(i) = p =>
         /\ InUse(p) /\ network[p] = About(i)
         /\ Opens(i) =>
              /\ Entry(p) = None
              /\ \A j \in Places : j < i => For(j) # p
         /\ Is(i, "DISCONNECT_IND") =>
              /\ phase[p] = "cleared"
              /\ \A j \in Places : j > i => For(j) # p

MessagesInOrder == \A i \in Places : InOrder(i)

OrderInv == FreeIsUnused /\ MessagesInOrder

(* A PLCI in use has its entry, or the message that makes it is queued.    *)
Opening(p) == \E i \in Places : Opens(i) /\ For(i) = p
Attached   == \A p \in Plcis : InUse(p) => Entry(p) = network[p] \/ Opening(p)

(* One thread at a time is in connect_req; its number is above those of    *)
(* all confirmations queued, and these find the call that asked.           *)
OneRequester ==
    /\ \A c, d \in Calls : request_pc[c] # "none" /\ request_pc[d] # "none" => c = d
    /\ \A c \in Calls : request_pc[c] = "put" => requested[messageNumber] = c

Confirms(i) == Is(i, "CONNECT_CONF")

NumbersInOrder ==
    /\ \A i \in Places : Confirms(i) =>
         /\ requested[Number(i)] = About(i)
         /\ Number(i) <= messageNumber
         /\ Requesting => Number(i) < messageNumber
    /\ \A i, j \in Places :
         Confirms(i) /\ Confirms(j) /\ Number(i) = Number(j) => i = j

ReachInv == ~config.overlap => Attached /\ OneRequester /\ NumbersInOrder

(* No script has been started for a call, and none is going to be.         *)
Unserved(c) == started[c] = 0 /\ \A i \in DOMAIN waiting : waiting[i] # c

(* A call that calls in is unknown until its one CONNECT_IND is handled.   *)
NoCallYet(c) == plci_state[c] = "none"
Rings(i, c)  == Is(i, "CONNECT_IND") /\ About(i) = c
Ringing(c)   == \E i \in Places : Rings(i, c)

RingsOnce ==
    \A c \in Calls :
        /\ NoCallYet(c) => Unserved(c)
        /\ Ringing(c) => NoCallYet(c)
        /\ \A i, j \in Places : Rings(i, c) /\ Rings(j, c) => i = j

(* Digits are dialled by those who call in.                                *)
CallersDial ==
    \A c \in Calls :
        /\ request_pc[c] # "none" => ~NoCallYet(c) /\ to_dial[c] = <<>>
        /\ NoCallYet(c) /\ to_dial[c] # <<>> => Ringing(c)

(* An incoming call has its entry, or CONNECT_IND is queued.               *)
Calling(p)  == \E i \in Places : Is(i, "CONNECT_IND") /\ For(i) = p
Incoming(p) == Entry(p) = network[p] \/ Calling(p)

HasDigits(p) == \E i \in Places : Is(i, "INFO_IND") /\ For(i) = p
Dialling(p)  ==
    \/ HasDigits(p)
    \/ InUse(p) /\ to_dial[network[p]] # <<>>

DigitsArrive == \A p \in Plcis : Dialling(p) => Incoming(p)

(* Without extensions nobody dials; a whole number is dialled once.        *)
Dialled(i, c) == Is(i, "INFO_IND") /\ About(i) = c

Undialled ==
    /\ \A c \in Calls : to_dial[c] = <<>>
    /\ \A i \in Places : ~Is(i, "INFO_IND")

DialledOnce ==
    \A c \in Calls :
        /\ to_dial[c] # <<>> => Unserved(c)
        /\ \A i \in Places : Dialled(i, c) =>
             /\ Unserved(c)
             /\ to_dial[c] = <<>>
             /\ \A j \in Places : Dialled(j, c) => i = j

DialsOnce == IF config.DDILength = 0 THEN Undialled ELSE DialledOnce

DialInv   == RingsOnce /\ CallersDial /\ DigitsArrive
ScriptInv == WholeNumbers => DialsOnce /\ OneScript

(* Who has the Connection of a call that is not over: the thread that makes*)
(* it, the confirmation, the queue, or one script.                         *)
OwnedOnce(c) ==
    /\ deleted[c] => plci_state[c] \in {"P01", "P0"}
    /\ scripts[c] > 0 => scripts[c] = 1 /\ ~deleted[c]
    /\ plci_state[c] = "none" => scripts[c] = 0
    /\ plci_state[c] = "P2" => scripts[c] <= started[c]
    /\ request_pc[c] # "none" => plci_state[c] = "P01" /\ ~deleted[c] /\ scripts[c] = 0

OneOwner == \A c \in Calls : OwnedOnce(c)

Queued(c) == plci_state[c] \in {"P2", "P0"} /\ ~deleted[c] /\ scripts[c] = 0
Asking(c) == plci_state[c] = "P01" /\ ~deleted[c] /\ request_pc[c] = "none"
Ended(c)  == plci_state[c] = "P0" /\ ~deleted[c]

QueuedIsAlive == \A c \in Calls : \A i \in DOMAIN waiting : waiting[i] = c => Queued(c)

AskingIsAlive ==
    /\ \A c \in Calls : \A i \in Places : Confirms(i) /\ About(i) = c => Asking(c)
    /\ \A i, j \in Places : Confirms(i) /\ Confirms(j) /\ About(i) = About(j) => i = j

EndedIsAlive ==
    \A c \in Calls : capi_pc = "unregisterConnection" /\ handled = c => Ended(c)

(* A deleted Connection is used by nobody from then on, so that the rest   *)
(* holds of every state.                                                   *)
AliveInv == OneOwner /\ QueuedIsAlive /\ AskingIsAlive /\ EndedIsAlive /\ ~corrupt
OwnerInv == ~config.overlap /\ WholeNumbers => AliveInv

DispatchInv == TypeInv /\ OrderInv /\ ReachInv /\ DialInv /\ ScriptInv /\ OwnerInv

-----------------------------------------------------------------------------
(* The queue of messages read from and put to.                             *)

LEMMA PlciNames == NoPlci \notin Plcis /\ None \notin Calls
  BY DispatchAssumption DEF NoPlci

LEMMA PulledFrom ==
    ASSUME TypeInv, NEW type, Read(type)
    PROVE  /\ 1 \in Places /\ Message = inbox[1] /\ Is(1, type)
           /\ \A i \in Places' :
                /\ i + 1 \in Places /\ i + 1 > 1 /\ i \in Nat
                /\ \A t : Is(i, t)' <=> Is(i + 1, t)
                /\ For(i)' = For(i + 1) /\ About(i)' = About(i + 1)
                /\ Number(i)' = Number(i + 1)
           /\ \A i, j \in Places' : i < j <=> i + 1 < j + 1
           /\ \A i \in Places : i > 1 => \E j \in Places' : i = j + 1
           /\ \A i \in Places : i = 1 \/ i > 1
           /\ capi_pc = "run"
           /\ UNCHANGED <<config, messageNumber, scripts, started, request_pc, network, to_dial>>
  <1>1. inbox \in Seq(Messages) /\ inbox # <<>> /\ inbox' = Tail(inbox)
    BY DEF TypeInv, InboxType, Read
  <1>2. Message = inbox[1] /\ Is(1, type)
    BY <1>1 DEF Read, Message, Is
  <1>3. 1 \in Places /\ \A i \in Places : i = 1 \/ i > 1
    BY <1>1 DEF Places
  <1>4. \A i \in Places' : /\ i + 1 \in Places /\ inbox'[i] = inbox[i + 1]
                           /\ i + 1 > 1 /\ i \in Nat
    BY <1>1 DEF Places
  <1>5. \A i \in Places' :
                /\ \A t : Is(i, t)' <=> Is(i + 1, t)
                /\ For(i)' = For(i + 1) /\ About(i)' = About(i + 1)
                /\ Number(i)' = Number(i + 1)
    BY <1>4 DEF Is, For, About, Number
  <1>6. \A i \in Places : i > 1 => \E j \in Places' : i = j + 1
    <2> TAKE i \in Places
    <2> HAVE i > 1
    <2>1. i - 1 \in Places' /\ i = (i - 1) + 1
      BY <1>1 DEF Places
    <2> QED
      BY <2>1
  <1>7. \A i, j \in Places' : i < j <=> i + 1 < j + 1
    BY <1>4
  <1> QED
    BY <1>2, <1>3, <1>4, <1>5, <1>6, <1>7 DEF Read

(* What is put is behind all that is queued.                               *)
Puts(m) == inbox' = Append(inbox, m)

LEMMA PutTo ==
    ASSUME TypeInv, NEW m, Puts(m)
    PROVE  \E last \in Places' :
             /\ inbox'[last] = m
             /\ \A i \in Places :
                  /\ i \in Places' /\ i < last /\ ~(last < i)
                  /\ \A t : Is(i, t)' <=> Is(i, t)
                  /\ For(i)' = For(i) /\ About(i)' = About(i) /\ Number(i)' = Number(i)
             /\ \A i \in Places' : ~(i > last) /\ (i \in Places \/ i = last)
  <1> DEFINE last == Len(inbox) + 1
  <1>1. inbox \in Seq(Messages) /\ last \in Nat
    BY DEF TypeInv, InboxType
  <1>2. last \in Places' /\ inbox'[last] = m
    BY <1>1 DEF Places, Puts
  <1>3. \A i \in Places : /\ i \in Places' /\ inbox'[i] = inbox[i]
                          /\ i < last /\ ~(last < i)
    BY <1>1 DEF Places, Puts
  <1>4. \A i \in Places' : ~(i > last) /\ (i \in Places \/ i = last)
    BY <1>1 DEF Places, Puts
  <1> HIDE DEF last
  <1>5. \A i \in Places :
                  /\ \A t : Is(i, t)' <=> Is(i, t)
                  /\ For(i)' = For(i) /\ About(i)' = About(i) /\ Number(i)' = Number(i)
    BY <1>3 DEF Is, For, About, Number
  <1> QED
    BY <1>2, <1>3, <1>4, <1>5

-----------------------------------------------------------------------------
(* The order of messages.                                                  *)

(* A step that changes neither the queue nor who uses a PLCI.              *)
LEMMA OrderKept ==
    ASSUME OrderInv, UNCHANGED <<inbox, network>>,
           \A p \in Plcis : /\ Entry(p)' = Entry(p)
                            /\ InUse(p)' <=> InUse(p)
                            /\ phase[p] = "cleared" => phase'[p] = "cleared"
    PROVE  OrderInv'
  <1>0. /\ Places' = Places
        /\ \A i \in Places : /\ \A t : Is(i, t)' <=> Is(i, t)
                             /\ For(i)' = For(i) /\ About(i)' = About(i)
    BY DEF Places, Is, For, About
  <1>1. FreeIsUnused'
    BY <1>0 DEF OrderInv, FreeIsUnused
  <1>2. MessagesInOrder'
    <2> SUFFICES ASSUME NEW i \in Places
                 PROVE  InOrder(i)'
      BY <1>0 DEF MessagesInOrder
    <2>1. InOrder(i)
      BY DEF OrderInv, MessagesInOrder
    <2> QED
      BY <1>0, <2>1 DEF InOrder, Opens
  <1> QED
    BY <1>1, <1>2 DEF OrderInv

(* A message is taken, which may give its own PLCI an entry, or end it.    *)
LEMMA OrderPulled ==
    ASSUME TypeInv, OrderInv, NEW type, Read(type),
           \A p \in Plcis :
             /\ p # For(1) => Entry(p)' = Entry(p) /\ phase'[p] = phase[p]
             /\ phase'[p] = phase[p] \/ ~InUse(p)'
             /\ InUse(p) /\ ~InUse(p)' => type = "DISCONNECT_IND" /\ Entry(p)' = None
    PROVE  OrderInv'
  <1>1. /\ 1 \in Places /\ Is(1, type)
        /\ \A i \in Places' :
             /\ i + 1 \in Places /\ i + 1 > 1
             /\ \A t : Is(i, t)' <=> Is(i + 1, t)
             /\ For(i)' = For(i + 1) /\ About(i)' = About(i + 1)
        /\ \A i, j \in Places' : i < j <=> i + 1 < j + 1
        /\ UNCHANGED network
    BY PulledFrom
  <1>2. \A p \in Plcis : InUse(p)' /\ phase'[p] = phase[p] => InUse(p)
    BY DEF InUse
  <1>3. InOrder(1)
    BY <1>1 DEF OrderInv, MessagesInOrder
  <1>4. \A p \in Plcis : InUse(p) /\ ~InUse(p)' =>
            p = For(1) /\ \A j \in Places : j > 1 => For(j) # p
    <2> TAKE p \in Plcis
    <2> HAVE InUse(p) /\ ~InUse(p)'
    <2>1. p = For(1)
      BY DEF InUse
    <2> QED
      BY <1>1, <1>3, <2>1 DEF InOrder
  <1>5. FreeIsUnused'
    <2> SUFFICES ASSUME NEW p \in Plcis, ~InUse(p)'
                 PROVE  Entry(p)' = None /\ \A i \in Places' : For(i)' # p
      BY DEF FreeIsUnused
    <2>1. CASE ~InUse(p)
      <3>1. p # For(1)
        BY <1>3, <2>1 DEF InOrder
      <3>2. Entry(p) = None /\ \A i \in Places : For(i) # p
        BY <2>1 DEF OrderInv, FreeIsUnused
      <3> QED
        BY <1>1, <3>1, <3>2
    <2>2. CASE InUse(p)
      BY <1>1, <1>4, <2>2
    <2> QED
      BY <2>1, <2>2
  <1>6. MessagesInOrder'
    <2> SUFFICES ASSUME NEW i \in Places' PROVE InOrder(i)'
      BY DEF MessagesInOrder
    <2>0. InOrder(i + 1)
      BY <1>1 DEF OrderInv, MessagesInOrder
    <2>1. ~Is(i, "CONNECT_CONF")' => For(i)' \in Plcis
      BY <1>1, <2>0 DEF InOrder
    <2>2. ASSUME NEW p \in Plcis, For(i)' = p
          PROVE  /\ InUse(p)' /\ network'[p] = About(i)'
                 /\ Opens(i)' =>
                      /\ Entry(p)' = None
                      /\ \A j \in Places' : j < i => For(j)' # p
                 /\ Is(i, "DISCONNECT_IND")' =>
                      /\ phase'[p] = "cleared"
                      /\ \A j \in Places' : j > i => For(j)' # p
      <3>1. For(i + 1) = p /\ i + 1 > 1 /\ i + 1 \in Places
        BY <1>1, <2>2
      <3>2. InUse(p) /\ InUse(p)' /\ phase'[p] = phase[p]
        BY <1>4, <2>0, <3>1 DEF InOrder
      <3>3. network'[p] = About(i)'
        BY <1>1, <2>0, <3>1 DEF InOrder
      <3>4. ASSUME Opens(i)'
            PROVE  Entry(p)' = None /\ \A j \in Places' : j < i => For(j)' # p
        <4>1. Opens(i + 1)
          BY <1>1, <3>4 DEF Opens
        <4>2. Entry(p) = None /\ \A j \in Places : j < i + 1 => For(j) # p
          BY <2>0, <3>1, <4>1 DEF InOrder
        <4>3. For(1) # p
          BY <1>1, <3>1, <4>2
        <4> QED
          BY <1>1, <4>2, <4>3
      <3>5. ASSUME Is(i, "DISCONNECT_IND")'
            PROVE  phase'[p] = "cleared" /\ \A j \in Places' : j > i => For(j)' # p
        <4>1. Is(i + 1, "DISCONNECT_IND")
          BY <1>1, <3>5
        <4>2. phase[p] = "cleared" /\ \A j \in Places : j > i + 1 => For(j) # p
          BY <2>0, <3>1, <4>1 DEF InOrder
        <4> QED
          BY <1>1, <3>2, <4>2
      <3> QED
        BY <3>2, <3>3, <3>4, <3>5
    <2> QED
      BY <2>1, <2>2 DEF InOrder
  <1> QED
    BY <1>5, <1>6 DEF OrderInv

(* A message is put: the first of a call on a free PLCI, one that tells of *)
(* no PLCI, or a later one while the call is up.                           *)
Follows(m, p) ==
    /\ m.plci = p
    /\ \A q \in Plcis : /\ Entry(q)' = Entry(q)
                        /\ q # p => phase'[q] = phase[q] /\ network'[q] = network[q]
    /\ m.type # "CONNECT_CONF" => p \in Plcis
    /\ p \in Plcis => InUse(p)' /\ network'[p] = m.call
    /\ p \in Plcis /\ InUse(p) =>
         /\ phase[p] # "cleared" /\ network'[p] = network[p]
         /\ m.type # "CONNECT_IND" /\ m.type # "CONNECT_CONF"
    /\ m.type = "DISCONNECT_IND" => phase'[p] = "cleared"

LEMMA OrderPut ==
    ASSUME TypeInv, OrderInv, NEW m, Puts(m), NEW p, Follows(m, p)
    PROVE  OrderInv'
  <1>1. PICK last \in Places' :
             /\ inbox'[last] = m
             /\ \A i \in Places :
                  /\ i \in Places' /\ i < last /\ ~(last < i)
                  /\ \A t : Is(i, t)' <=> Is(i, t)
                  /\ For(i)' = For(i) /\ About(i)' = About(i)
             /\ \A i \in Places' : ~(i > last) /\ (i \in Places \/ i = last)
    BY PutTo
  <1>2. For(last)' = p /\ About(last)' = m.call /\ \A t : Is(last, t)' <=> m.type = t
    BY <1>1 DEF For, About, Is, Follows
  <1>3. \A q \in Plcis : /\ Entry(q)' = Entry(q)
                         /\ q # p => /\ phase'[q] = phase[q] /\ network'[q] = network[q]
                                     /\ InUse(q)' <=> InUse(q)
    BY DEF Follows, InUse
  <1>4. /\ ~Is(last, "CONNECT_CONF")' => p \in Plcis
        /\ p \in Plcis => InUse(p)' /\ network'[p] = About(last)'
        /\ p \in Plcis /\ InUse(p) =>
             /\ phase[p] # "cleared" /\ network'[p] = network[p]
             /\ ~Opens(last)'
        /\ Is(last, "DISCONNECT_IND")' => phase'[p] = "cleared"
    BY <1>2 DEF Follows, Opens
  <1>5. FreeIsUnused'
    <2> SUFFICES ASSUME NEW q \in Plcis, ~InUse(q)'
                 PROVE  Entry(q)' = None /\ \A i \in Places' : For(i)' # q
      BY DEF FreeIsUnused
    <2>1. q # p /\ ~InUse(q)
      BY <1>3, <1>4
    <2> QED
      BY <1>1, <1>2, <1>3, <2>1 DEF OrderInv, FreeIsUnused
  <1>6. InOrder(last)'
    <2>1. p \in Plcis /\ Opens(last)' =>
             Entry(p) = None /\ \A j \in Places : For(j) # p
      BY <1>4 DEF OrderInv, FreeIsUnused
    <2>2. p \in Plcis /\ Opens(last)' =>
             Entry(p)' = None /\ \A j \in Places' : j < last => For(j)' # p
      BY <1>1, <1>3, <2>1
    <2> QED
      BY <1>1, <1>2, <1>4, <2>2 DEF InOrder
  <1>7. ASSUME NEW i \in Places PROVE InOrder(i)'
    <2>0. InOrder(i)
      BY DEF OrderInv, MessagesInOrder
    <2>1. ~Is(i, "CONNECT_CONF")' => For(i)' \in Plcis
      BY <1>1, <2>0 DEF InOrder
    <2>2. ASSUME NEW q \in Plcis, For(i)' = q
          PROVE  /\ InUse(q)' /\ network'[q] = About(i)'
                 /\ Opens(i)' =>
                      /\ Entry(q)' = None
                      /\ \A j \in Places' : j < i => For(j)' # q
                 /\ Is(i, "DISCONNECT_IND")' =>
                      /\ phase'[q] = "cleared"
                      /\ \A j \in Places' : j > i => For(j)' # q
      <3>1. /\ InUse(q) /\ network[q] = About(i)
            /\ Opens(i) =>
                 /\ Entry(q) = None
                 /\ \A j \in Places : j < i => For(j) # q
            /\ Is(i, "DISCONNECT_IND") =>
                 /\ phase[q] = "cleared"
                 /\ \A j \in Places : j > i => For(j) # q
        BY <1>1, <2>0, <2>2 DEF InOrder
      <3>2. InUse(q)' /\ network'[q] = About(i)'
        BY <1>1, <1>3, <1>4, <3>1
      <3>3. Opens(i)' =>
                 /\ Entry(q)' = None
                 /\ \A j \in Places' : j < i => For(j)' # q
        BY <1>1, <1>3, <3>1 DEF Opens
      <3>4. Is(i, "DISCONNECT_IND")' =>
                 /\ phase'[q] = "cleared"
                 /\ \A j \in Places' : j > i => For(j)' # q
        BY <1>1, <1>2, <1>3, <1>4, <3>1
      <3> QED
        BY <3>2, <3>3, <3>4
    <2> QED
      BY <2>1, <2>2 DEF InOrder
  <1>8. MessagesInOrder'
    BY <1>1, <1>6, <1>7 DEF MessagesInOrder
  <1> QED
    BY <1>5, <1>8 DEF OrderInv

-----------------------------------------------------------------------------
(* What the steps do to the entries.                                       *)

LEMMA Received ==
    ASSUME TypeInv, NEW type, Read(type)
    PROVE  /\ Message.plci = For(1) /\ Message.call = About(1) /\ Message.number = Number(1)
           /\ For(1) \in Plcis \cup {NoPlci} /\ About(1) \in Calls /\ Number(1) \in Numbers
           /\ capi_pc = "run" /\ 1 \in Places /\ Is(1, type)
  BY PulledFrom, ReadType DEF For, About, Number

LEMMA EntryRun ==
    ASSUME NEW p, capi_pc = "run"
    PROVE  Entry(p) = connections[p]
  BY DEF Entry

(* CONNECT_IND makes the entry of its PLCI.                                *)
LEMMA EntryConnectInd ==
    ASSUME TypeInv, OrderInv, connect_ind
    PROVE  \E p \in Plcis, c \in Calls :
             /\ For(1) = p /\ About(1) = c /\ network[p] = c
             /\ Entry(p)' = c
             /\ \A q \in Plcis : q # p => Entry(q)' = Entry(q)
  <1>1. Read("CONNECT_IND")
    BY DEF connect_ind
  <1>2. /\ Message.plci = For(1) /\ Message.call = About(1) /\ About(1) \in Calls
        /\ capi_pc = "run" /\ 1 \in Places /\ Is(1, "CONNECT_IND")
    BY <1>1, Received
  <1>3. InOrder(1) /\ ~Is(1, "CONNECT_CONF")
    BY <1>2 DEF OrderInv, MessagesInOrder, Is
  <1>4. PICK p \in Plcis, c \in Calls : For(1) = p /\ About(1) = c /\ network[p] = c
    BY <1>2, <1>3 DEF InOrder
  <1>5. connections' = [connections EXCEPT ![p] = c] /\ capi_pc' = "run"
    BY <1>2, <1>4 DEF connect_ind
  <1>6. connections \in [Plcis \cup {NoPlci} -> MaybeCalls]
    BY DEF TypeInv, CapiType
  <1>7. Entry(p)' = c /\ \A q \in Plcis : q # p => Entry(q)' = Entry(q)
    BY <1>2, <1>5, <1>6 DEF Entry
  <1> QED
    BY <1>4, <1>7

(* CONNECT_CONF makes the entry of the call it is taken to be for.         *)
LEMMA EntryConnectConf ==
    ASSUME TypeInv, OrderInv, connect_conf
    PROVE  \/ requested[Number(1)] = None /\ Unknown
           \/ \E c \in Calls :
                /\ requested[Number(1)] = c
                /\ requested' = [requested EXCEPT ![Number(1)] = None]
                /\ \A q \in Plcis : Entry(q)' = IF q = For(1) THEN c ELSE Entry(q)
  <1>1. Read("CONNECT_CONF")
    BY DEF connect_conf
  <1>2. /\ Message.plci = For(1) /\ Message.number = Number(1) /\ Number(1) \in Numbers
        /\ capi_pc = "run"
    BY <1>1, Received
  <1>3. CASE requested[Number(1)] # None
    <2>1. PICK c \in Calls : requested[Number(1)] = c
      BY <1>2, <1>3 DEF TypeInv, CapiType, MaybeCalls
    <2>2. /\ connections' = [connections EXCEPT ![For(1)] = c] /\ capi_pc' = "run"
          /\ requested' = [requested EXCEPT ![Number(1)] = None]
      BY <1>2, <1>3, <2>1 DEF connect_conf
    <2>3. connections \in [Plcis \cup {NoPlci} -> MaybeCalls]
      BY DEF TypeInv, CapiType
    <2>4. \A q \in Plcis : Entry(q)' = IF q = For(1) THEN c ELSE Entry(q)
      BY <1>2, <2>2, <2>3 DEF Entry
    <2> QED
      BY <2>1, <2>2, <2>4
  <1>4. CASE requested[Number(1)] = None
    BY <1>2, <1>4 DEF connect_conf
  <1> QED
    BY <1>3, <1>4

(* After DISCONNECT_RESP the PLCI is free and its entry counts as gone.    *)
LEMMA EntryDisconnectInd ==
    ASSUME TypeInv, OrderInv, disconnect_ind
    PROVE  \E p \in Plcis :
             /\ For(1) = p
             /\ \A q \in Plcis : q # p => Entry(q)' = Entry(q) /\ phase'[q] = phase[q]
             /\ \/ ~InUse(p)' /\ Entry(p)' = None
                \/ phase'[p] = phase[p] /\ Entry(p)' = Entry(p)
  <1>1. Read("DISCONNECT_IND")
    BY DEF disconnect_ind
  <1>2. /\ Message.plci = For(1) /\ capi_pc = "run" /\ 1 \in Places /\ Is(1, "DISCONNECT_IND")
    BY <1>1, Received
  <1>3. InOrder(1) /\ ~Is(1, "CONNECT_CONF")
    BY <1>2 DEF OrderInv, MessagesInOrder, Is
  <1>4. PICK p \in Plcis : For(1) = p
    BY <1>3 DEF InOrder
  <1> DEFINE c == connections[p]
  <1>5. CASE Ends(c, p) /\ phase' = [phase EXCEPT ![p] = "free"]
    <2>1. /\ capi_pc' = "unregisterConnection" /\ handled' = c /\ plci[c] = p
          /\ UNCHANGED <<connections, plci>>
      <3>1. phase[p] # "free" /\ phase \in [Plcis -> Phases]
        BY <1>3, <1>4 DEF InOrder, InUse, TypeInv, LineType
      <3>2. ~UNCHANGED phase
        BY <1>5, <3>1
      <3> QED
        BY <1>2, <1>4, <1>5, <3>2 DEF disconnect_ind, Unknown, Ends
    <2>2. Entry(p)' = None /\ \A q \in Plcis : q # p => Entry(q)' = Entry(q)
      BY <1>2, <2>1 DEF Entry
    <2>3. ~InUse(p)' /\ \A q \in Plcis : q # p => phase'[q] = phase[q]
      BY <1>5 DEF InUse, TypeInv, LineType
    <2> QED
      BY <1>4, <2>2, <2>3
  <1>6. CASE UNCHANGED <<phase, capi_pc, handled, connections, plci>>
    <2>1. \A q \in Plcis : Entry(q)' = Entry(q) /\ phase'[q] = phase[q]
      BY <1>6 DEF Entry
    <2> QED
      BY <1>4, <2>1
  <1> QED
    BY <1>2, <1>4, <1>5, <1>6 DEF disconnect_ind, Unknown

LEMMA EntryUnregister ==
    ASSUME TypeInv, unregisterConnection
    PROVE  \A p \in Plcis : Entry(p)' = Entry(p)
  <1>1. /\ connections' = [connections EXCEPT ![plci[handled]] = None]
        /\ capi_pc = "unregisterConnection" /\ capi_pc' = "run"
    BY DEF unregisterConnection
  <1>2. connections \in [Plcis \cup {NoPlci} -> MaybeCalls]
    BY DEF TypeInv, CapiType
  <1> QED
    BY <1>1, <1>2 DEF Entry

LEMMA EntryKept ==
    ASSUME UNCHANGED <<connections, capi_pc, handled, plci>>
    PROVE  \A p \in Plcis : Entry(p)' = Entry(p)
  BY DEF Entry

(* The steps that leave the queue and the use of PLCIs alone.              *)
Quiet ==
    \/ unregisterConnection \/ mainLoop \/ OtherRequest
    \/ \E c \in Calls : \/ ScriptSteps(c) \/ connect_req(c) \/ connect_req_key(c)
                        \/ connect_req_put(c) /\ UNCHANGED inbox
    \/ UNCHANGED vars

(* The steps that put a message.                                           *)
LEMMA ConfirmPuts ==
    ASSUME NEW c, NEW p, Confirm(c, p)
    PROVE  \E m : /\ Puts(m) /\ m.type = "CONNECT_CONF" /\ m.call = c /\ m.plci = p
                  /\ m.number = messageNumber
  <1> DEFINE m == [type |-> "CONNECT_CONF", call |-> c, plci |-> p,
                   number |-> messageNumber, digits |-> <<>>]
  <1>1. Puts(m)
    BY DEF Confirm, Puts
  <1>2. m.type = "CONNECT_CONF" /\ m.call = c /\ m.plci = p /\ m.number = messageNumber
    OBVIOUS
  <1> HIDE DEF m
  <1> QED
    BY <1>1, <1>2

LEMMA TellPuts ==
    ASSUME NEW type, NEW c, NEW p, NEW digits, Tell(type, c, p, digits)
    PROVE  \E m : Puts(m) /\ m.type = type /\ m.call = c /\ m.plci = p
  <1> DEFINE m == [type |-> type, call |-> c, plci |-> p, number |-> 0, digits |-> digits]
  <1>1. Puts(m)
    BY DEF Tell, Puts
  <1>2. m.type = type /\ m.call = c /\ m.plci = p
    OBVIOUS
  <1> HIDE DEF m
  <1> QED
    BY <1>1, <1>2

LEMMA ConfirmIsNew == ASSUME TypeInv, NEW c, NEW p, Confirm(c, p) PROVE inbox' # inbox
  BY DEF TypeInv, InboxType, Confirm

(* The request is put and taken, or put and refused.                       *)
LEMMA PutRequest ==
    ASSUME TypeInv, NEW c \in Calls, connect_req_put(c)
    PROVE  \/ UNCHANGED <<inbox, phase, network, scripts>> /\ config.failing
              /\ deleted' = [deleted EXCEPT ![c] = TRUE]
           \/ /\ scripts' = [scripts EXCEPT ![c] = @ + 1] /\ UNCHANGED deleted
              /\ \/ /\ Confirm(c, NoPlci) /\ UNCHANGED <<phase, network>>
                 \/ \E p \in Plcis :
                      /\ ~InUse(p) /\ Confirm(c, p)
                      /\ phase' = [phase EXCEPT ![p] = "up"]
                      /\ network' = [network EXCEPT ![p] = c]
  BY DEF connect_req_put, InUse

LEMMA QuietLines ==
    ASSUME TypeInv, Quiet
    PROVE  /\ UNCHANGED <<inbox, network, to_dial, config>>
           /\ \A p \in Plcis : /\ Entry(p)' = Entry(p)
                               /\ InUse(p)' <=> InUse(p)
                               /\ phase[p] = "cleared" => phase'[p] = "cleared"
  <1>1. CASE unregisterConnection
    BY <1>1, EntryUnregister DEF unregisterConnection, InUse
  <1>2. CASE mainLoop \/ OtherRequest \/ UNCHANGED vars
    BY <1>2, EntryKept DEF mainLoop, OtherRequest, vars, InUse
  <1>3. ASSUME NEW c \in Calls, ScriptSteps(c)
        PROVE  /\ UNCHANGED <<inbox, network, to_dial, config>>
               /\ \A p \in Plcis : /\ Entry(p)' = Entry(p)
                                   /\ InUse(p)' <=> InUse(p)
                                   /\ phase[p] = "cleared" => phase'[p] = "cleared"
    <2>1. CASE connectWaiting(c) \/ capisuitemodule_destruct_connection(c)
      BY <2>1, EntryKept DEF connectWaiting, capisuitemodule_destruct_connection, InUse
    <2>2. CASE disconnectCall(c)
      <3>1. \A p \in Plcis : Entry(p)' = Entry(p)
        BY <2>2, EntryKept DEF disconnectCall
      <3>2. phase \in [Plcis -> Phases]
        BY DEF TypeInv, LineType
      <3> QED
        BY <2>2, <3>1, <3>2 DEF disconnectCall, InUse
    <2> QED
      BY <1>3, <2>1, <2>2 DEF ScriptSteps, ScriptEnds
  <1>4. ASSUME NEW c \in Calls,
               \/ connect_req(c) \/ connect_req_key(c)
               \/ connect_req_put(c) /\ UNCHANGED inbox
        PROVE  /\ UNCHANGED <<inbox, network, to_dial, config>>
               /\ \A p \in Plcis : /\ Entry(p)' = Entry(p)
                                   /\ InUse(p)' <=> InUse(p)
                                   /\ phase[p] = "cleared" => phase'[p] = "cleared"
    <2>1. CASE connect_req(c) \/ connect_req_key(c)
      BY <2>1, EntryKept DEF connect_req, connect_req_key, InUse
    <2>2. CASE connect_req_put(c) /\ UNCHANGED inbox
      <3>1. UNCHANGED <<phase, network>>
        BY <2>2, PutRequest, ConfirmIsNew
      <3> QED
        BY <2>2, <3>1, EntryKept DEF connect_req_put, InUse
    <2> QED
      BY <1>4, <2>1, <2>2
  <1> QED
    BY <1>1, <1>2, <1>3, <1>4 DEF Quiet

(* Every step is a quiet one, takes a message, or puts one.                *)
LEMMA StepKinds ==
    ASSUME TypeInv, [Next]_vars
    PROVE  \/ Quiet
           \/ connect_ind \/ info_ind_called_party_nr \/ connect_conf \/ disconnect_ind
           \/ \E c \in Calls : connect_req_put(c) /\ ~UNCHANGED inbox
           \/ Driver
  BY DEF Next, CapiSteps, CallOut, Quiet

LEMMA OrderNext == ASSUME TypeInv, OrderInv, [Next]_vars PROVE OrderInv'
  <1>1. CASE Quiet
    BY <1>1, QuietLines, OrderKept
  <1>2. CASE connect_ind
    <2>1. PICK p \in Plcis, c \in Calls :
             /\ For(1) = p
             /\ \A q \in Plcis : q # p => Entry(q)' = Entry(q)
      BY <1>2, EntryConnectInd
    <2>2. Read("CONNECT_IND") /\ UNCHANGED phase
      BY <1>2 DEF connect_ind
    <2>3. \A q \in Plcis : phase'[q] = phase[q] /\ (InUse(q)' <=> InUse(q))
      BY <2>2 DEF InUse
    <2> QED
      BY <2>1, <2>2, <2>3, OrderPulled
  <1>3. CASE info_ind_called_party_nr
    <2>1. Read("INFO_IND") /\ UNCHANGED <<connections, capi_pc, handled, plci, phase>>
      BY <1>3 DEF info_ind_called_party_nr, Unknown
    <2>2. \A q \in Plcis : phase'[q] = phase[q] /\ (InUse(q)' <=> InUse(q))
      BY <2>1 DEF InUse
    <2> QED
      BY <2>1, <2>2, EntryKept, OrderPulled
  <1>4. CASE connect_conf
    <2>1. Read("CONNECT_CONF") /\ UNCHANGED phase
      BY <1>4 DEF connect_conf, Unknown
    <2>2. \A q \in Plcis : phase'[q] = phase[q] /\ (InUse(q)' <=> InUse(q))
      BY <2>1 DEF InUse
    <2>3. \A q \in Plcis : q # For(1) => Entry(q)' = Entry(q)
      BY <1>4, EntryConnectConf, EntryKept DEF Unknown
    <2> QED
      BY <2>1, <2>2, <2>3, OrderPulled
  <1>5. CASE disconnect_ind
    <2>1. PICK p \in Plcis :
             /\ For(1) = p
             /\ \A q \in Plcis : q # p => Entry(q)' = Entry(q) /\ phase'[q] = phase[q]
             /\ \/ ~InUse(p)' /\ Entry(p)' = None
                \/ phase'[p] = phase[p] /\ Entry(p)' = Entry(p)
      BY <1>5, EntryDisconnectInd
    <2>2. Read("DISCONNECT_IND")
      BY <1>5 DEF disconnect_ind
    <2>3. \A q \in Plcis :
             /\ q # For(1) => Entry(q)' = Entry(q) /\ phase'[q] = phase[q]
             /\ phase'[q] = phase[q] \/ ~InUse(q)'
             /\ InUse(q) /\ ~InUse(q)' => Entry(q)' = None
      BY <2>1 DEF InUse
    <2> QED
      BY <2>2, <2>3, OrderPulled
  <1>6. ASSUME NEW c \in Calls, connect_req_put(c), ~UNCHANGED inbox
        PROVE  OrderInv'
    <2>1. \A q \in Plcis : Entry(q)' = Entry(q)
      BY <1>6, EntryKept DEF connect_req_put
    <2>2. CASE Confirm(c, NoPlci) /\ UNCHANGED <<phase, network>>
      <3>1. PICK m : Puts(m) /\ m.type = "CONNECT_CONF" /\ m.plci = NoPlci
        BY <2>2, ConfirmPuts
      <3>2. Follows(m, NoPlci)
        BY <2>1, <2>2, <3>1, PlciNames DEF Follows
      <3> QED
        BY <3>1, <3>2, OrderPut
    <2>3. ASSUME NEW p \in Plcis, ~InUse(p), Confirm(c, p),
                 phase' = [phase EXCEPT ![p] = "up"], network' = [network EXCEPT ![p] = c]
          PROVE  OrderInv'
      <3>1. PICK m : Puts(m) /\ m.type = "CONNECT_CONF" /\ m.call = c /\ m.plci = p
        BY <2>3, ConfirmPuts
      <3>2. phase \in [Plcis -> Phases] /\ network \in [Plcis -> MaybeCalls]
        BY DEF TypeInv, LineType
      <3>3. InUse(p)' /\ network'[p] = c
            /\ \A q \in Plcis : q # p => phase'[q] = phase[q] /\ network'[q] = network[q]
        BY <2>3, <3>2 DEF InUse
      <3>4. Follows(m, p)
        BY <2>1, <2>3, <3>1, <3>3 DEF Follows
      <3> QED
        BY <3>1, <3>4, OrderPut
    <2> QED
      BY <1>6, <2>2, <2>3, PutRequest
  <1>7. ASSUME NEW p \in Plcis, Dial(p) PROVE OrderInv'
    <2>1. /\ \A q \in Plcis : Entry(q)' = Entry(q)
          /\ phase[p] = "up" /\ UNCHANGED <<phase, network>>
      BY <1>7, EntryKept DEF Dial
    <2>2. PICK digits : Tell("INFO_IND", network[p], p, digits)
      BY <1>7 DEF Dial
    <2>3. PICK m : Puts(m) /\ m.type = "INFO_IND" /\ m.call = network[p] /\ m.plci = p
      BY <2>2, TellPuts
    <2>4. Follows(m, p)
      BY <2>1, <2>3 DEF Follows, InUse
    <2> QED
      BY <2>3, <2>4, OrderPut
  <1>8. ASSUME NEW p \in Plcis, Clear(p) PROVE OrderInv'
    <2>1. /\ \A q \in Plcis : Entry(q)' = Entry(q)
          /\ phase[p] \in {"up", "asked"} /\ UNCHANGED network
          /\ phase' = [phase EXCEPT ![p] = "cleared"]
          /\ Tell("DISCONNECT_IND", network[p], p, <<>>)
      BY <1>8, EntryKept DEF Clear
    <2>2. PICK m : Puts(m) /\ m.type = "DISCONNECT_IND" /\ m.call = network[p] /\ m.plci = p
      BY <2>1, TellPuts
    <2>3. phase'[p] = "cleared" /\ \A q \in Plcis : q # p => phase'[q] = phase[q]
      BY <2>1 DEF TypeInv, LineType
    <2>4. Follows(m, p)
      BY <2>1, <2>2, <2>3 DEF Follows, InUse
    <2> QED
      BY <2>2, <2>4, OrderPut
  <1>9. ASSUME NEW p \in Plcis, NEW c \in Calls, Ring(c, p) PROVE OrderInv'
    <2>1. /\ \A q \in Plcis : Entry(q)' = Entry(q)
          /\ ~InUse(p) /\ phase' = [phase EXCEPT ![p] = "up"]
          /\ network' = [network EXCEPT ![p] = c]
      BY <1>9, EntryKept DEF Ring, InUse
    <2>2. PICK digits : Tell("CONNECT_IND", c, p, digits)
      BY <1>9 DEF Ring
    <2>3. PICK m : Puts(m) /\ m.type = "CONNECT_IND" /\ m.call = c /\ m.plci = p
      BY <2>2, TellPuts
    <2>4. InUse(p)' /\ network'[p] = c
          /\ \A q \in Plcis : q # p => phase'[q] = phase[q] /\ network'[q] = network[q]
      BY <2>1 DEF TypeInv, LineType, InUse
    <2>5. Follows(m, p)
      BY <2>1, <2>3, <2>4 DEF Follows
    <2> QED
      BY <2>3, <2>5, OrderPut
  <1> QED
    BY <1>1, <1>2, <1>3, <1>4, <1>5, <1>6, <1>7, <1>8, <1>9, StepKinds DEF Driver

LEMMA OrderInit == Init => OrderInv
  BY DEF Init, OrderInv, FreeIsUnused, MessagesInOrder, Places, InUse, Entry

-----------------------------------------------------------------------------
(* Messages find their Connections.                                        *)

LEMMA PlaceTypes ==
    ASSUME TypeInv
    PROVE  \A i \in Places : About(i) \in Calls /\ Number(i) \in Numbers /\ Number(i) \in Nat
  <1>1. \A n \in Numbers : n \in Nat
    BY DispatchAssumption DEF Numbers
  <1>2. \A i \in Places : inbox[i] \in Messages
    BY DEF TypeInv, InboxType, Places
  <1>3. \A i \in Places : About(i) \in Calls /\ Number(i) \in Numbers
    BY <1>2 DEF Messages, About, Number
  <1> QED
    BY <1>1, <1>3

LEMMA SamePlaces ==
    ASSUME UNCHANGED inbox
    PROVE  /\ Places' = Places
           /\ \A i \in Places : /\ \A t : Is(i, t)' <=> Is(i, t)
                                /\ Confirms(i)' <=> Confirms(i)
                                /\ Opens(i)' <=> Opens(i)
                                /\ For(i)' = For(i) /\ About(i)' = About(i)
                                /\ Number(i)' = Number(i)
           /\ \A p : (Opening(p)' <=> Opening(p)) /\ (Calling(p)' <=> Calling(p))
  BY DEF Places, Is, For, About, Number, Confirms, Opens, Opening, Calling

(* Taking a message leaves the others, putting one leaves all.             *)
LEMMA OpeningPulled ==
    ASSUME TypeInv, NEW type, Read(type), NEW p,
           For(1) # p \/ type \notin {"CONNECT_IND", "CONNECT_CONF"}
    PROVE  (Opening(p) => Opening(p)') /\ (Calling(p) => Calling(p)')
  <1>1. /\ Is(1, type)
        /\ \A i \in Places' :
             /\ \A t : Is(i, t)' <=> Is(i + 1, t)
             /\ For(i)' = For(i + 1)
        /\ \A i \in Places : i > 1 => \E j \in Places' : i = j + 1
        /\ \A i \in Places : i = 1 \/ i > 1
    BY PulledFrom
  <1>2. For(1) # p \/ ~Opens(1)
    BY <1>1 DEF Opens, Is
  <1>3. Opening(p) => Opening(p)'
    <2> HAVE Opening(p)
    <2>1. PICK i \in Places : Opens(i) /\ For(i) = p
      BY DEF Opening
    <2>2. i > 1
      BY <1>1, <1>2, <2>1
    <2>3. PICK j \in Places' : i = j + 1
      BY <1>1, <2>2
    <2>4. Opens(j)' /\ For(j)' = p
      BY <1>1, <2>1, <2>3 DEF Opens
    <2> QED
      BY <2>4 DEF Opening
  <1>4. Calling(p) => Calling(p)'
    <2> HAVE Calling(p)
    <2>1. PICK i \in Places : Is(i, "CONNECT_IND") /\ For(i) = p
      BY DEF Calling
    <2>2. i > 1
      BY <1>1, <1>2, <2>1 DEF Opens
    <2>3. PICK j \in Places' : i = j + 1
      BY <1>1, <2>2
    <2>4. Is(j, "CONNECT_IND")' /\ For(j)' = p
      BY <1>1, <2>1, <2>3
    <2> QED
      BY <2>4 DEF Calling
  <1> QED
    BY <1>3, <1>4

LEMMA OpeningPut ==
    ASSUME TypeInv, NEW m, Puts(m)
    PROVE  /\ \A p : (Opening(p) => Opening(p)') /\ (Calling(p) => Calling(p)')
           /\ m.type = "CONNECT_IND" => Calling(m.plci)'
           /\ m.type \in {"CONNECT_IND", "CONNECT_CONF"} => Opening(m.plci)'
  <1>1. PICK last \in Places' :
             /\ inbox'[last] = m
             /\ \A i \in Places :
                  /\ i \in Places'
                  /\ \A t : Is(i, t)' <=> Is(i, t)
                  /\ For(i)' = For(i)
    BY PutTo
  <1>2. For(last)' = m.plci /\ \A t : Is(last, t)' <=> m.type = t
    BY <1>1 DEF For, Is
  <1>3. \A p : (Opening(p) => Opening(p)') /\ (Calling(p) => Calling(p)')
    BY <1>1 DEF Opening, Calling, Opens
  <1>4. m.type = "CONNECT_IND" => Is(last, "CONNECT_IND")' /\ Opens(last)'
    BY <1>2 DEF Opens
  <1>5. m.type = "CONNECT_CONF" => Opens(last)'
    BY <1>2 DEF Opens
  <1>6. \A p : p = m.plci /\ Opens(last)' => Opening(p)'
    BY <1>2 DEF Opening
  <1>7. \A p : p = m.plci /\ Is(last, "CONNECT_IND")' => Calling(p)'
    BY <1>2 DEF Calling
  <1> QED
    BY <1>3, <1>4, <1>5, <1>6, <1>7

(* A message that opens a PLCI is the only one, and the PLCI has no entry. *)
LEMMA FirstOpens ==
    ASSUME TypeInv, OrderInv, NEW type, Read(type), NEW p \in Plcis, For(1) = p
    PROVE  /\ InUse(p) /\ network[p] = About(1)
           /\ type \in {"CONNECT_IND", "CONNECT_CONF"} => Entry(p) = None
           /\ type \notin {"CONNECT_IND", "CONNECT_CONF"} => ~Opening(p)
           /\ type # "CONNECT_IND" => ~Calling(p)
  <1>1. /\ 1 \in Places /\ Is(1, type)
        /\ \A i \in Places : i = 1 \/ 1 < i
    BY PulledFrom
  <1>2. \A i \in Places : InOrder(i)
    BY DEF OrderInv, MessagesInOrder
  <1>3. InUse(p) /\ network[p] = About(1)
    BY <1>1, <1>2 DEF InOrder
  <1>4. Opens(1) <=> type \in {"CONNECT_IND", "CONNECT_CONF"}
    BY <1>1 DEF Opens, Is
  <1>5. Opens(1) => Entry(p) = None
    BY <1>1, <1>2 DEF InOrder
  <1>6. \A i \in Places : Opens(i) /\ For(i) = p => i = 1
    BY <1>1, <1>2 DEF InOrder
  <1>7. ~Opens(1) => ~Opening(p)
    BY <1>6 DEF Opening
  <1>8. type # "CONNECT_IND" => ~Calling(p)
    BY <1>1, <1>6 DEF Calling, Opens, Is
  <1> QED
    BY <1>3, <1>4, <1>5, <1>7, <1>8

LEMMA AttachedNext ==
    ASSUME TypeInv, OrderInv, Attached, NumbersInOrder, [Next]_vars
    PROVE  Attached'
  <1>1. CASE Quiet
    BY <1>1, QuietLines, SamePlaces DEF Attached
  <1>2. CASE connect_ind
    <2>1. PICK p \in Plcis, c \in Calls :
             /\ For(1) = p /\ network[p] = c /\ Entry(p)' = c
             /\ \A q \in Plcis : q # p => Entry(q)' = Entry(q)
      BY <1>2, EntryConnectInd
    <2>2. Read("CONNECT_IND") /\ UNCHANGED <<phase, network>>
      BY <1>2 DEF connect_ind, Read
    <2>3. \A q \in Plcis : (InUse(q)' <=> InUse(q)) /\ network'[q] = network[q]
      BY <2>2 DEF InUse
    <2>4. \A q \in Plcis : q # p /\ Opening(q) => Opening(q)'
      BY <2>1, <2>2, OpeningPulled
    <2> QED
      BY <2>1, <2>3, <2>4 DEF Attached
  <1>3. CASE info_ind_called_party_nr
    <2>1. Read("INFO_IND") /\ UNCHANGED <<connections, capi_pc, handled, plci, phase, network>>
      BY <1>3 DEF info_ind_called_party_nr, Unknown, Read
    <2>2. \A q \in Plcis : (InUse(q)' <=> InUse(q)) /\ network'[q] = network[q]
      BY <2>1 DEF InUse
    <2>3. \A q \in Plcis : Opening(q) => Opening(q)'
      BY <2>1, OpeningPulled
    <2> QED
      BY <2>1, <2>2, <2>3, EntryKept DEF Attached
  <1>4. CASE connect_conf
    <2>1. Read("CONNECT_CONF") /\ UNCHANGED <<phase, network>>
      BY <1>4 DEF connect_conf, Unknown, Read
    <2>2. 1 \in Places /\ Confirms(1) /\ About(1) \in Calls
      BY <2>1, Received DEF Confirms
    <2>3. requested[Number(1)] = About(1)
      BY <2>2 DEF NumbersInOrder
    <2>4. requested[Number(1)] # None
      BY <2>2, <2>3, PlciNames
    <2>6. \A q \in Plcis : Entry(q)' = IF q = For(1) THEN About(1) ELSE Entry(q)
      BY <1>4, <2>3, <2>4, EntryConnectConf
    <2>7. \A q \in Plcis : (InUse(q)' <=> InUse(q)) /\ network'[q] = network[q]
      BY <2>1 DEF InUse
    <2>8. \A q \in Plcis : q = For(1) => network[q] = About(1)
      BY <2>1, FirstOpens
    <2>9. \A q \in Plcis : q # For(1) /\ Opening(q) => Opening(q)'
      BY <2>1, OpeningPulled
    <2> QED
      BY <2>6, <2>7, <2>8, <2>9 DEF Attached
  <1>5. CASE disconnect_ind
    <2>1. PICK p \in Plcis :
             /\ For(1) = p
             /\ \A q \in Plcis : q # p => Entry(q)' = Entry(q) /\ phase'[q] = phase[q]
             /\ \/ ~InUse(p)' /\ Entry(p)' = None
                \/ phase'[p] = phase[p] /\ Entry(p)' = Entry(p)
      BY <1>5, EntryDisconnectInd
    <2>2. Read("DISCONNECT_IND") /\ UNCHANGED network
      BY <1>5 DEF disconnect_ind, Read
    <2>3. \A q \in Plcis : Opening(q) => Opening(q)'
      BY <2>2, OpeningPulled
    <2>4. \A q \in Plcis : InUse(q)' => InUse(q) /\ Entry(q)' = Entry(q)
      BY <2>1 DEF InUse
    <2> QED
      BY <2>2, <2>3, <2>4 DEF Attached
  <1>6. ASSUME NEW c \in Calls, connect_req_put(c), ~UNCHANGED inbox
        PROVE  Attached'
    <2>1. \A q \in Plcis : Entry(q)' = Entry(q)
      BY <1>6, EntryKept DEF connect_req_put
    <2>2. CASE Confirm(c, NoPlci) /\ UNCHANGED <<phase, network>>
      <3>1. \A q \in Plcis : Opening(q) => Opening(q)'
        BY <2>2, ConfirmPuts, OpeningPut
      <3> QED
        BY <2>1, <2>2, <3>1 DEF Attached, InUse
    <2>3. ASSUME NEW p \in Plcis, Confirm(c, p),
                 phase' = [phase EXCEPT ![p] = "up"], network' = [network EXCEPT ![p] = c]
          PROVE  Attached'
      <3>1. Opening(p)' /\ \A q \in Plcis : Opening(q) => Opening(q)'
        BY <2>3, ConfirmPuts, OpeningPut
      <3>2. \A q \in Plcis : q # p => (InUse(q)' <=> InUse(q)) /\ network'[q] = network[q]
        BY <2>3 DEF InUse, TypeInv, LineType
      <3> QED
        BY <2>1, <3>1, <3>2 DEF Attached
    <2> QED
      BY <1>6, <2>2, <2>3, PutRequest
  <1>7. ASSUME NEW p \in Plcis, Dial(p) \/ Clear(p) PROVE Attached'
    <2>1. /\ \A q \in Plcis : Entry(q)' = Entry(q)
          /\ InUse(p) /\ UNCHANGED network
          /\ UNCHANGED phase \/ phase' = [phase EXCEPT ![p] = "cleared"]
      BY <1>7, EntryKept DEF Dial, Clear, InUse
    <2>2. PICK type, digits : Tell(type, network[p], p, digits)
      BY <1>7 DEF Dial, Clear
    <2>3. \A q \in Plcis : Opening(q) => Opening(q)'
      BY <2>2, TellPuts, OpeningPut
    <2>4. \A q \in Plcis : InUse(q)' => InUse(q)
      BY <2>1 DEF InUse, TypeInv, LineType
    <2> QED
      BY <2>1, <2>3, <2>4 DEF Attached
  <1>8. ASSUME NEW p \in Plcis, NEW c \in Calls, Ring(c, p) PROVE Attached'
    <2>1. /\ \A q \in Plcis : Entry(q)' = Entry(q)
          /\ phase' = [phase EXCEPT ![p] = "up"]
          /\ network' = [network EXCEPT ![p] = c]
      BY <1>8, EntryKept DEF Ring
    <2>2. PICK digits : Tell("CONNECT_IND", c, p, digits)
      BY <1>8 DEF Ring
    <2>3. Opening(p)' /\ \A q \in Plcis : Opening(q) => Opening(q)'
      BY <2>2, TellPuts, OpeningPut
    <2>4. \A q \in Plcis : q # p => (InUse(q)' <=> InUse(q)) /\ network'[q] = network[q]
      BY <2>1 DEF InUse, TypeInv, LineType
    <2> QED
      BY <2>1, <2>3, <2>4 DEF Attached
  <1> QED
    BY <1>1, <1>2, <1>3, <1>4, <1>5, <1>6, <1>7, <1>8, StepKinds DEF Driver

(* A message is taken; a confirmation takes its own entry with it.         *)
LEMMA NumbersPulled ==
    ASSUME TypeInv, OneRequester, NumbersInOrder, NEW type, Read(type),
           \A n \in Numbers :
             \/ requested'[n] = requested[n]
             \/ type = "CONNECT_CONF" /\ n = Number(1)
    PROVE  OneRequester' /\ NumbersInOrder'
  <1>1. /\ 1 \in Places /\ Is(1, type)
        /\ \A i \in Places' :
             /\ i + 1 \in Places /\ i + 1 > 1 /\ i \in Nat
             /\ \A t : Is(i, t)' <=> Is(i + 1, t)
             /\ About(i)' = About(i + 1) /\ Number(i)' = Number(i + 1)
        /\ UNCHANGED <<messageNumber, request_pc>>
    BY PulledFrom
  <1>2. \A i \in Places' : Confirms(i)' <=> Confirms(i + 1)
    BY <1>1 DEF Confirms
  <1>3. Requesting' <=> Requesting
    BY <1>1 DEF Requesting
  <1>4. messageNumber \in Numbers /\ messageNumber \in Nat
    BY DispatchAssumption DEF TypeInv, CapiType, Numbers
  <1>5. \A i \in Places : Number(i) \in Numbers /\ Number(i) \in Nat
    BY PlaceTypes
  <1>6. OneRequester'
    <2>1. ASSUME NEW c \in Calls, request_pc[c] = "put"
          PROVE  requested'[messageNumber] = c
      <3>1. Requesting /\ requested[messageNumber] = c
        BY <2>1 DEF Requesting, OneRequester
      <3>2. type = "CONNECT_CONF" => Number(1) < messageNumber
        BY <1>1, <3>1 DEF NumbersInOrder, Confirms
      <3>3. type = "CONNECT_CONF" => Number(1) # messageNumber
        BY <1>1, <1>4, <1>5, <3>2
      <3> QED
        BY <1>4, <3>1, <3>3
    <2> QED
      BY <1>1, <2>1 DEF OneRequester
  <1>7. ASSUME NEW i \in Places', Confirms(i)'
        PROVE  /\ requested'[Number(i)'] = About(i)'
               /\ Number(i)' <= messageNumber'
               /\ Requesting' => Number(i)' < messageNumber'
    <2>1. /\ requested[Number(i + 1)] = About(i + 1)
          /\ Number(i + 1) <= messageNumber
          /\ Requesting => Number(i + 1) < messageNumber
      BY <1>1, <1>2, <1>7 DEF NumbersInOrder
    <2>2. type = "CONNECT_CONF" => Number(i + 1) # Number(1)
      <3>1. type = "CONNECT_CONF" => Confirms(1)
        BY <1>1 DEF Confirms
      <3>2. i + 1 # 1
        BY <1>1
      <3> QED
        BY <1>1, <1>2, <1>7, <3>1, <3>2 DEF NumbersInOrder
    <2>3. requested'[Number(i + 1)] = requested[Number(i + 1)]
      BY <1>1, <1>5, <2>2
    <2> QED
      BY <1>1, <1>3, <2>1, <2>3
  <1>8. ASSUME NEW i \in Places', NEW j \in Places',
               Confirms(i)', Confirms(j)', Number(i)' = Number(j)'
        PROVE  i = j
    <2>1. i + 1 = j + 1
      BY <1>1, <1>2, <1>8 DEF NumbersInOrder
    <2> QED
      BY <1>1, <2>1
  <1> QED
    BY <1>6, <1>7, <1>8 DEF NumbersInOrder

(* Nothing is confirmed, and the number may grow while nobody uses it.     *)
LEMMA NumbersKept ==
    ASSUME TypeInv, OneRequester, NumbersInOrder,
           \A i \in Places' : Confirms(i)' =>
             i \in Places /\ Confirms(i) /\ Number(i)' = Number(i) /\ About(i)' = About(i),
           UNCHANGED <<requested, messageNumber, request_pc>>
    PROVE  OneRequester' /\ NumbersInOrder'
  <1>1. OneRequester' /\ (Requesting' <=> Requesting)
    BY DEF OneRequester, Requesting
  <1>2. NumbersInOrder'
    BY <1>1 DEF NumbersInOrder
  <1> QED
    BY <1>1, <1>2

LEMMA NumberGrows ==
    ASSUME TypeInv, NumbersInOrder, UNCHANGED <<inbox, requested>>, NextNumber
    PROVE  /\ NumbersInOrder'
           /\ \A i \in Places' : Confirms(i)' => Number(i)' < messageNumber'
  <1>1. messageNumber \in Nat /\ messageNumber' = messageNumber + 1
    BY DispatchAssumption DEF TypeInv, CapiType, Numbers, NextNumber
  <1>2. /\ Places' = Places
        /\ \A i \in Places : /\ Confirms(i)' <=> Confirms(i)
                             /\ About(i)' = About(i) /\ Number(i)' = Number(i)
                             /\ Number(i) \in Nat
    BY SamePlaces, PlaceTypes
  <1>3. \A i \in Places : Confirms(i) => /\ Number(i) < messageNumber'
                                         /\ Number(i) <= messageNumber'
                                         /\ requested[Number(i)] = About(i)
    BY <1>1, <1>2 DEF NumbersInOrder
  <1>4. \A i \in Places' : Confirms(i)' => /\ Number(i)' < messageNumber'
                                           /\ Number(i)' <= messageNumber'
                                           /\ requested'[Number(i)'] = About(i)'
    BY <1>2, <1>3
  <1>5. \A i, j \in Places' : Confirms(i)' /\ Confirms(j)' /\ Number(i)' = Number(j)' => i = j
    BY <1>2 DEF NumbersInOrder
  <1> QED
    BY <1>4, <1>5 DEF NumbersInOrder

LEMMA NumbersNext ==
    ASSUME TypeInv, OrderInv, OneRequester, NumbersInOrder, ~config.overlap, [Next]_vars
    PROVE  OneRequester' /\ NumbersInOrder'
  <1>0. ASSUME UNCHANGED <<inbox, requested, messageNumber, request_pc>>
        PROVE  OneRequester' /\ NumbersInOrder'
    BY <1>0, SamePlaces, NumbersKept
  <1>1. CASE unregisterConnection \/ mainLoop \/ UNCHANGED vars \/ \E c \in Calls : ScriptSteps(c)
    <2>1. UNCHANGED <<inbox, requested, messageNumber, request_pc>>
      BY <1>1 DEF unregisterConnection, mainLoop, vars, ScriptSteps, ScriptEnds, connectWaiting,
                  disconnectCall, capisuitemodule_destruct_connection
    <2> QED
      BY <1>0, <2>1
  <1>2. CASE OtherRequest
    <2>1. ~Requesting /\ NextNumber /\ UNCHANGED <<inbox, requested, request_pc>>
      BY <1>2 DEF OtherRequest
    <2>2. OneRequester'
      BY <2>1 DEF OneRequester, Requesting
    <2> QED
      BY <2>1, <2>2, NumberGrows
  <1>3. ASSUME NEW c \in Calls, connect_req(c)
        PROVE  OneRequester' /\ NumbersInOrder'
    <2>1. /\ ~Requesting /\ NextNumber /\ UNCHANGED <<inbox, requested>>
          /\ request_pc' = [request_pc EXCEPT ![c] = "key"]
          /\ request_pc \in [Calls -> RequestPCs]
      BY <1>3 DEF connect_req, TypeInv, CallType
    <2>2. \A d \in Calls : request_pc'[d] = IF d = c THEN "key" ELSE "none"
      BY <2>1 DEF Requesting
    <2>3. OneRequester'
      BY <2>2 DEF OneRequester
    <2> QED
      BY <2>1, <2>3, NumberGrows
  <1>4. ASSUME NEW c \in Calls, connect_req_key(c)
        PROVE  OneRequester' /\ NumbersInOrder'
    <2>1. /\ UNCHANGED <<inbox, messageNumber>> /\ request_pc[c] = "key"
          /\ requested' = [requested EXCEPT ![messageNumber] = c]
          /\ request_pc' = [request_pc EXCEPT ![c] = "put"]
          /\ request_pc \in [Calls -> RequestPCs]
          /\ requested \in [Numbers -> MaybeCalls] /\ messageNumber \in Numbers
      BY <1>4 DEF connect_req_key, TypeInv, CallType, CapiType
    <2>2. Requesting /\ \A d \in Calls : d # c => request_pc[d] = "none"
      BY <2>1 DEF Requesting, OneRequester
    <2>3. \A d \in Calls : request_pc'[d] = IF d = c THEN "put" ELSE "none"
      BY <2>1, <2>2
    <2>4. OneRequester'
      BY <2>1, <2>3 DEF OneRequester
    <2>5. /\ Places' = Places
          /\ \A i \in Places : /\ Confirms(i)' <=> Confirms(i)
                               /\ About(i)' = About(i) /\ Number(i)' = Number(i)
                               /\ Number(i) \in Nat /\ Number(i) \in Numbers
      BY <2>1, SamePlaces, PlaceTypes
    <2>6. \A i \in Places : Confirms(i) => /\ Number(i) # messageNumber
                                           /\ Number(i) < messageNumber
                                           /\ Number(i) <= messageNumber
                                           /\ requested[Number(i)] = About(i)
      <3>1. messageNumber \in Nat
        BY DispatchAssumption DEF TypeInv, CapiType, Numbers
      <3> QED
        BY <2>2, <2>5, <3>1 DEF NumbersInOrder
    <2>7. \A i \in Places : Confirms(i) => requested'[Number(i)] = About(i)
      BY <2>1, <2>5, <2>6
    <2>8. \A i \in Places' : Confirms(i)' => /\ Number(i)' < messageNumber'
                                             /\ Number(i)' <= messageNumber'
                                             /\ requested'[Number(i)'] = About(i)'
      BY <2>1, <2>5, <2>6, <2>7
    <2>9. \A i, j \in Places' : Confirms(i)' /\ Confirms(j)' /\ Number(i)' = Number(j)' => i = j
      BY <2>5 DEF NumbersInOrder
    <2> QED
      BY <2>4, <2>8, <2>9 DEF NumbersInOrder
  <1>5. ASSUME NEW c \in Calls, connect_req_put(c)
        PROVE  OneRequester' /\ NumbersInOrder'
    <2>1. /\ UNCHANGED <<requested, messageNumber>> /\ request_pc[c] = "put"
          /\ request_pc' = [request_pc EXCEPT ![c] = "none"]
          /\ request_pc \in [Calls -> RequestPCs]
      BY <1>5 DEF connect_req_put, TypeInv, CallType
    <2>2. Requesting /\ requested[messageNumber] = c
          /\ \A d \in Calls : d # c => request_pc[d] = "none"
      BY <2>1 DEF Requesting, OneRequester
    <2>3. \A d \in Calls : request_pc'[d] = "none"
      BY <2>1, <2>2
    <2>4. OneRequester' /\ ~Requesting'
      BY <2>3 DEF OneRequester, Requesting
    <2>5. \A i \in Places : Number(i) \in Nat
      BY PlaceTypes
    <2>6. messageNumber \in Nat
      BY DispatchAssumption DEF TypeInv, CapiType, Numbers
    <2>7. CASE UNCHANGED inbox
      <3>1. /\ Places' = Places
            /\ \A i \in Places : /\ Confirms(i)' <=> Confirms(i)
                                 /\ About(i)' = About(i) /\ Number(i)' = Number(i)
        BY <2>7, SamePlaces
      <3>2. NumbersInOrder'
        BY <2>1, <2>4, <3>1 DEF NumbersInOrder
      <3> QED
        BY <2>4, <3>2
    <2>8. ASSUME NEW p, Confirm(c, p)
          PROVE  NumbersInOrder'
      <3>1. PICK m : /\ Puts(m) /\ m.type = "CONNECT_CONF" /\ m.call = c
                     /\ m.number = messageNumber
        BY <2>8, ConfirmPuts
      <3>2. PICK last \in Places' :
             /\ inbox'[last] = m
             /\ \A i \in Places :
                  /\ i \in Places'
                  /\ \A t : Is(i, t)' <=> Is(i, t)
                  /\ About(i)' = About(i) /\ Number(i)' = Number(i)
             /\ \A i \in Places' : i \in Places \/ i = last
        BY <3>1, PutTo
      <3>3. About(last)' = c /\ Number(last)' = messageNumber
        BY <3>1, <3>2 DEF About, Number
      <3>4. \A i \in Places : /\ Confirms(i)' <=> Confirms(i)
                              /\ Confirms(i) => /\ requested[Number(i)] = About(i)
                                                /\ Number(i) <= messageNumber
                                                /\ Number(i) # messageNumber
        BY <2>2, <2>5, <2>6, <3>2 DEF NumbersInOrder, Confirms
      <3>5. \A i \in Places' : Confirms(i)' => /\ requested'[Number(i)'] = About(i)'
                                               /\ Number(i)' <= messageNumber'
        BY <2>1, <2>2, <2>6, <3>2, <3>3, <3>4
      <3>6. \A i, j \in Places' : Confirms(i)' /\ Confirms(j)' /\ Number(i)' = Number(j)' => i = j
        BY <3>2, <3>3, <3>4 DEF NumbersInOrder
      <3> QED
        BY <2>4, <3>5, <3>6 DEF NumbersInOrder
    <2> QED
      BY <1>5, <2>4, <2>7, <2>8, PutRequest
  <1>6. CASE connect_ind \/ info_ind_called_party_nr \/ disconnect_ind
    <2>1. PICK type : Read(type) /\ UNCHANGED requested
      BY <1>6 DEF connect_ind, info_ind_called_party_nr, disconnect_ind, Unknown
    <2> QED
      BY <2>1, NumbersPulled
  <1>7. CASE connect_conf
    <2>1. Read("CONNECT_CONF") /\ requested \in [Numbers -> MaybeCalls]
      BY <1>7 DEF connect_conf, TypeInv, CapiType
    <2>2. UNCHANGED requested \/ requested' = [requested EXCEPT ![Number(1)] = None]
      BY <1>7, EntryConnectConf DEF Unknown
    <2>3. \A n \in Numbers : requested'[n] = requested[n] \/ n = Number(1)
      BY <2>1, <2>2
    <2> QED
      BY <2>1, <2>3, NumbersPulled
  <1>8. CASE Driver
    <2>1. UNCHANGED <<requested, messageNumber, request_pc>>
      BY <1>8 DEF Driver, Dial, Clear, Ring
    <2>2. PICK type, c, p, digits : Tell(type, c, p, digits) /\ type # "CONNECT_CONF"
      BY <1>8 DEF Driver, Dial, Clear, Ring
    <2>3. PICK m : Puts(m) /\ m.type # "CONNECT_CONF"
      BY <2>2, TellPuts
    <2>4. PICK last \in Places' :
             /\ inbox'[last] = m
             /\ \A i \in Places :
                  /\ \A t : Is(i, t)' <=> Is(i, t)
                  /\ About(i)' = About(i) /\ Number(i)' = Number(i)
             /\ \A i \in Places' : i \in Places \/ i = last
      BY <2>3, PutTo
    <2>5. ~Confirms(last)' /\ \A i \in Places : Confirms(i)' <=> Confirms(i)
      BY <2>3, <2>4 DEF Confirms, Is
    <2> QED
      BY <2>1, <2>4, <2>5, NumbersKept
  <1> QED
    BY <1>1, <1>2, <1>3, <1>4, <1>5, <1>6, <1>7, <1>8, StepKinds DEF Quiet

LEMMA ReachInit == Init => ReachInv
  BY DEF Init, ReachInv, Attached, InUse, OneRequester, NumbersInOrder, Places

LEMMA ConfigStays == ASSUME TypeInv, [Next]_vars PROVE UNCHANGED config
  <1>1. CASE Quiet
    BY <1>1, QuietLines
  <1>2. CASE connect_ind \/ info_ind_called_party_nr \/ connect_conf \/ disconnect_ind
    BY <1>2 DEF connect_ind, info_ind_called_party_nr, connect_conf, disconnect_ind, Read
  <1>3. CASE (\E c \in Calls : connect_req_put(c)) \/ Driver
    BY <1>3 DEF connect_req_put, Driver, Dial, Clear, Ring
  <1> QED
    BY <1>1, <1>2, <1>3, StepKinds

LEMMA ReachNext == ASSUME TypeInv, OrderInv, ReachInv, [Next]_vars PROVE ReachInv'
  <1>1. UNCHANGED config
    BY ConfigStays
  <1>2. CASE ~config.overlap
    BY <1>2, AttachedNext, NumbersNext DEF ReachInv
  <1>3. CASE config.overlap
    BY <1>1, <1>3 DEF ReachInv
  <1> QED
    BY <1>2, <1>3

LEMMA ReachFollows == TypeInv /\ OrderInv /\ ReachInv => ReachesItsConnection
  <1> SUFFICES ASSUME TypeInv, OrderInv, ReachInv, ~config.overlap, capi_pc = "run", inbox # <<>>
               PROVE  CASE Message.type = "CONNECT_CONF" -> ConfirmationIsMatched
                        [] Message.type = "CONNECT_IND"  -> connections[Message.plci] = None
                        [] OTHER -> connections[Message.plci] = Message.call
    BY DEF ReachesItsConnection
  <1>1. /\ 1 \in Places /\ inbox[1] = Message /\ inbox[1] \in Messages
        /\ \A i \in Places : i = 1 \/ 1 < i
    BY DEF TypeInv, InboxType, Places, Message
  <1>2. /\ Message.plci = For(1) /\ Message.call = About(1) /\ Message.number = Number(1)
        /\ \A t : Is(1, t) <=> Message.type = t
    BY <1>1 DEF For, About, Number, Is
  <1>3. InOrder(1) /\ \A i \in Places : InOrder(i)
    BY <1>1 DEF OrderInv, MessagesInOrder
  <1>4. CASE Message.type = "CONNECT_CONF"
    BY <1>1, <1>2, <1>4 DEF ReachInv, NumbersInOrder, Confirms, ConfirmationIsMatched
  <1>5. CASE Message.type # "CONNECT_CONF"
    <2>1. PICK p \in Plcis : For(1) = p
      BY <1>2, <1>3, <1>5 DEF InOrder
    <2>2. Entry(p) = connections[p]
      BY EntryRun
    <2>3. InUse(p) /\ network[p] = About(1)
      BY <1>3, <2>1 DEF InOrder
    <2>4. CASE Message.type = "CONNECT_IND"
      <3>1. Opens(1)
        BY <1>2, <2>4 DEF Opens
      <3>2. Entry(p) = None
        BY <1>3, <2>1, <3>1 DEF InOrder
      <3> QED
        BY <1>2, <2>1, <2>2, <2>4, <3>2
    <2>5. CASE Message.type # "CONNECT_IND"
      <3>1. ~Opens(1)
        BY <1>2, <1>5, <2>5 DEF Opens
      <3>2. ~Opening(p)
        BY <1>1, <1>3, <2>1, <3>1 DEF Opening, InOrder
      <3>3. Entry(p) = About(1)
        BY <2>3, <3>2 DEF ReachInv, Attached
      <3> QED
        BY <1>2, <1>5, <2>1, <2>2, <2>5, <3>3
    <2> QED
      BY <2>4, <2>5
  <1> QED
    BY <1>4, <1>5

(* Each message reaches the Connection it is for, and CONNECT_IND finds its*)
(* PLCI unused, for any number of calls: Capi::readMessage looks messages  *)
(* up by PLCI, and unregisterConnection and the driver use PLCIs again.    *)
THEOREM MessagesArrive == Spec => []ReachesItsConnection
  <1>1. TypeInv /\ OrderInv /\ ReachInv /\ [Next]_vars => OrderInv' /\ ReachInv'
    BY OrderNext, ReachNext
  <1>2. Init => OrderInv /\ ReachInv
    BY OrderInit, ReachInit
  <1> QED
    BY TypeAlways, <1>1, <1>2, ReachFollows, PTL DEF Spec

-----------------------------------------------------------------------------
(* Who rings, who dials, and who waits for a script.                       *)

LEMMA UnservedKept ==
    ASSUME UNCHANGED <<started, waiting>>
    PROVE  \A c \in Calls : Unserved(c)' <=> Unserved(c)
  BY DEF Unserved

LEMMA UnservedPushed ==
    ASSUME TypeInv, NEW d \in Calls, callWaiting(d), UNCHANGED started
    PROVE  \A c \in Calls : c # d /\ Unserved(c) => Unserved(c)'
  <1>1. /\ waiting \in Seq(Calls) /\ waiting' = Append(waiting, d)
    BY DEF TypeInv, WaitingType, callWaiting
  <1>2. \A i \in DOMAIN waiting' : \/ i \in DOMAIN waiting /\ waiting'[i] = waiting[i]
                                   \/ waiting'[i] = d
    BY <1>1
  <1> QED
    BY <1>2 DEF Unserved

LEMMA UnservedMain ==
    ASSUME TypeInv, mainLoop
    PROVE  \A c \in Calls : Unserved(c) => Unserved(c)'
  <1>1. /\ waiting \in Seq(Calls) /\ waiting # <<>> /\ waiting' = Tail(waiting)
        /\ started' = [started EXCEPT ![Head(waiting)] = @ + 1]
        /\ started \in [Calls -> Nat]
    BY DEF TypeInv, WaitingType, CallType, mainLoop
  <1>2. Head(waiting) = waiting[1] /\ 1 \in DOMAIN waiting
        /\ \A i \in DOMAIN waiting' : i + 1 \in DOMAIN waiting /\ waiting'[i] = waiting[i + 1]
    BY <1>1
  <1>3. ASSUME NEW c \in Calls, Unserved(c) PROVE Unserved(c)'
    <2>1. c # Head(waiting) /\ started[c] = 0
      BY <1>2, <1>3 DEF Unserved
    <2>2. started'[c] = 0
      BY <1>1, <2>1
    <2> QED
      BY <1>2, <1>3, <2>2 DEF Unserved
  <1> QED
    BY <1>3

(* The steps without a message.                                            *)
LEMMA QuietCalls ==
    ASSUME TypeInv, Quiet
    PROVE  \A c \in Calls :
             /\ NoCallYet(c)' => NoCallYet(c)
             /\ NoCallYet(c) => NoCallYet(c)' \/ Fresh(c)
             /\ request_pc'[c] # "none" => \/ request_pc[c] # "none"
                                           \/ Fresh(c) /\ ~NoCallYet(c)'
             /\ Unserved(c) => Unserved(c)'
  <1>0. /\ plci_state \in [Calls -> CallStates]
        /\ request_pc \in [Calls -> RequestPCs]
    BY DEF TypeInv, CallType
  <1>1. CASE unregisterConnection \/ OtherRequest \/ UNCHANGED vars
    BY <1>1, UnservedKept DEF unregisterConnection, OtherRequest, vars, NoCallYet
  <1>2. CASE mainLoop
    BY <1>2, UnservedMain DEF mainLoop, NoCallYet
  <1>3. ASSUME NEW d \in Calls, ScriptSteps(d)
        PROVE  \A c \in Calls :
                 /\ NoCallYet(c)' <=> NoCallYet(c)
                 /\ request_pc'[c] = request_pc[c]
                 /\ Unserved(c) => Unserved(c)'
    <2>1. /\ UNCHANGED <<request_pc, started, waiting>>
          /\ \/ UNCHANGED plci_state
             \/ /\ plci_state[d] # "none"
                /\ \E s : s # "none" /\ plci_state' = [plci_state EXCEPT ![d] = s]
      BY <1>3 DEF ScriptSteps, ScriptEnds, connectWaiting, disconnectCall,
                  capisuitemodule_destruct_connection
    <2> QED
      BY <1>0, <2>1, UnservedKept DEF NoCallYet
  <1>4. ASSUME NEW d \in Calls, connect_req(d)
        PROVE  \A c \in Calls :
                 /\ NoCallYet(c)' => NoCallYet(c)
                 /\ NoCallYet(c) => NoCallYet(c)' \/ Fresh(c)
                 /\ request_pc'[c] # "none" => \/ request_pc[c] # "none"
                                               \/ Fresh(c) /\ ~NoCallYet(c)'
                 /\ Unserved(c) => Unserved(c)'
    <2>1. /\ UNCHANGED <<started, waiting>> /\ Fresh(d)
          /\ plci_state' = [plci_state EXCEPT ![d] = "P01"]
          /\ request_pc' = [request_pc EXCEPT ![d] = "key"]
      BY <1>4 DEF connect_req
    <2>2. \A c \in Calls : c # d =>
            /\ plci_state'[c] = plci_state[c] /\ request_pc'[c] = request_pc[c]
      BY <1>0, <2>1
    <2>3. NoCallYet(d) /\ ~NoCallYet(d)'
      BY <1>0, <2>1 DEF NoCallYet, Fresh
    <2> QED
      BY <2>1, <2>2, <2>3, UnservedKept DEF NoCallYet
  <1>5. ASSUME NEW d \in Calls, connect_req_key(d) \/ connect_req_put(d)
        PROVE  \A c \in Calls :
                 /\ NoCallYet(c)' <=> NoCallYet(c)
                 /\ request_pc'[c] # "none" => request_pc[c] # "none"
                 /\ Unserved(c) => Unserved(c)'
    <2>1. /\ UNCHANGED <<started, waiting, plci_state>> /\ request_pc[d] # "none"
          /\ \E s : request_pc' = [request_pc EXCEPT ![d] = s]
      BY <1>5 DEF connect_req_key, connect_req_put
    <2> QED
      BY <1>0, <2>1, UnservedKept DEF NoCallYet
  <1> QED
    BY <1>1, <1>2, <1>3, <1>4, <1>5 DEF Quiet

(* The steps that take one.                                                *)
LEMMA ConnectIndCalls ==
    ASSUME TypeInv, connect_ind
    PROVE  /\ \A c \in Calls : /\ NoCallYet(c)' <=> NoCallYet(c) /\ c # About(1)
                               /\ Unserved(c) /\ c # About(1) => Unserved(c)'
           /\ UNCHANGED started
           /\ config.DDILength = 0 => callWaiting(About(1))
           /\ config.DDILength # 0 => UNCHANGED waiting
  <1>1. Read("CONNECT_IND") /\ plci_state \in [Calls -> CallStates]
    BY DEF connect_ind, TypeInv, CallType
  <1>2. PICK d \in Calls : About(1) = d /\ Message.call = d
    BY <1>1, Received
  <1>3. /\ plci_state' = [plci_state EXCEPT ![d] = "P2"] /\ UNCHANGED started
        /\ config.DDILength = 0 => callWaiting(d)
        /\ config.DDILength # 0 => UNCHANGED waiting
    BY <1>1, <1>2, PulledFrom DEF connect_ind
  <1>4. \A c \in Calls : NoCallYet(c)' <=> NoCallYet(c) /\ c # d
    BY <1>1, <1>3 DEF NoCallYet
  <1>5. \A c \in Calls : Unserved(c) /\ c # d => Unserved(c)'
    BY <1>3, UnservedKept, UnservedPushed
  <1> QED
    BY <1>2, <1>3, <1>4, <1>5

LEMMA ReadCalls ==
    ASSUME TypeInv, info_ind_called_party_nr \/ connect_conf \/ disconnect_ind
    PROVE  \A c \in Calls : NoCallYet(c)' <=> NoCallYet(c)
  <1>1. PICK type : Read(type)
    BY DEF info_ind_called_party_nr, connect_conf, disconnect_ind
  <1>2. /\ plci_state \in [Calls -> CallStates]
        /\ Message.number \in Numbers /\ Message.plci \in Plcis \cup {NoPlci}
        /\ requested \in [Numbers -> MaybeCalls]
        /\ connections \in [Plcis \cup {NoPlci} -> MaybeCalls]
    BY <1>1, Received DEF TypeInv, CallType, CapiType
  <1>3. \/ UNCHANGED plci_state
        \/ \E d \in Calls : \E s : /\ plci_state[d] # "none" /\ s # "none"
                                   /\ plci_state' = [plci_state EXCEPT ![d] = s]
    <2>1. CASE info_ind_called_party_nr
      BY <2>1 DEF info_ind_called_party_nr, Unknown
    <2>2. CASE connect_conf
      BY <1>2, <2>2 DEF connect_conf, Unknown, MaybeCalls
    <2>3. CASE disconnect_ind
      BY <1>2, <2>3 DEF disconnect_ind, Unknown, Ends, MaybeCalls
    <2> QED
      BY <2>1, <2>2, <2>3
  <1> QED
    BY <1>2, <1>3 DEF NoCallYet

(* The queue of messages again, as the calls see it.                       *)
LEMMA CallsPulled ==
    ASSUME TypeInv, NEW type, Read(type)
    PROVE  /\ \A c : Ringing(c)' => Ringing(c)
           /\ \A c : Ringing(c) => Ringing(c)' \/ (type = "CONNECT_IND" /\ About(1) = c)
           /\ \A p : HasDigits(p)' => HasDigits(p)
           /\ \A c : \A i \in Places' : /\ i + 1 \in Places /\ i + 1 > 1 /\ i \in Nat
                                        /\ Rings(i, c)' <=> Rings(i + 1, c)
                                        /\ Dialled(i, c)' <=> Dialled(i + 1, c)
           /\ 1 \in Places
           /\ \A c : type = "CONNECT_IND" /\ About(1) = c => Rings(1, c)
           /\ \A c : type = "INFO_IND" /\ About(1) = c => Dialled(1, c)
           /\ \A p : type = "INFO_IND" /\ For(1) = p => HasDigits(p)
  <1>1. /\ 1 \in Places /\ Is(1, type)
        /\ \A i \in Places' :
             /\ i + 1 \in Places /\ i + 1 > 1 /\ i \in Nat
             /\ \A t : Is(i, t)' <=> Is(i + 1, t)
             /\ For(i)' = For(i + 1) /\ About(i)' = About(i + 1)
        /\ \A i \in Places : i > 1 => \E j \in Places' : i = j + 1
        /\ \A i \in Places : i = 1 \/ i > 1
    BY PulledFrom
  <1>2. \A c : \A i \in Places' : /\ Rings(i, c)' <=> Rings(i + 1, c)
                                  /\ Dialled(i, c)' <=> Dialled(i + 1, c)
    BY <1>1 DEF Rings, Dialled
  <1>3. \A c : Ringing(c)' => Ringing(c)
    BY <1>1, <1>2 DEF Ringing
  <1>4. \A p : HasDigits(p)' => HasDigits(p)
    BY <1>1 DEF HasDigits
  <1>5. ASSUME NEW c, Ringing(c)
        PROVE  Ringing(c)' \/ (type = "CONNECT_IND" /\ About(1) = c)
    <2>1. PICK i \in Places : Rings(i, c)
      BY <1>5 DEF Ringing
    <2>2. CASE i = 1
      BY <1>1, <2>1, <2>2 DEF Rings, Is
    <2>3. CASE i > 1
      BY <1>1, <1>2, <2>1, <2>3 DEF Ringing
    <2> QED
      BY <1>1, <2>2, <2>3
  <1>6. \A c : type = "CONNECT_IND" /\ About(1) = c => Rings(1, c)
    BY <1>1 DEF Rings
  <1>7. \A c : type = "INFO_IND" /\ About(1) = c => Dialled(1, c)
    BY <1>1 DEF Dialled
  <1>8. \A p : type = "INFO_IND" /\ For(1) = p => HasDigits(p)
    BY <1>1 DEF HasDigits
  <1> QED
    BY <1>1, <1>2, <1>3, <1>4, <1>5, <1>6, <1>7, <1>8

LEMMA CallsPut ==
    ASSUME TypeInv, NEW m, Puts(m)
    PROVE  /\ \A c : Ringing(c) => Ringing(c)'
           /\ \A c : Ringing(c)' => Ringing(c) \/ (m.type = "CONNECT_IND" /\ m.call = c)
           /\ \A c : m.type = "CONNECT_IND" /\ m.call = c => Ringing(c)'
           /\ \A p : HasDigits(p)' => HasDigits(p) \/ (m.type = "INFO_IND" /\ m.plci = p)
           /\ \E last \in Places' :
                \A c : \A i \in Places' :
                  \/ i \in Places /\ (Rings(i, c)' <=> Rings(i, c))
                                  /\ (Dialled(i, c)' <=> Dialled(i, c))
                  \/ /\ i = last
                     /\ Rings(i, c)' <=> m.type = "CONNECT_IND" /\ m.call = c
                     /\ Dialled(i, c)' <=> m.type = "INFO_IND" /\ m.call = c
  <1>1. PICK last \in Places' :
             /\ inbox'[last] = m
             /\ \A i \in Places :
                  /\ i \in Places'
                  /\ \A t : Is(i, t)' <=> Is(i, t)
                  /\ For(i)' = For(i) /\ About(i)' = About(i)
             /\ \A i \in Places' : i \in Places \/ i = last
    BY PutTo
  <1>2. For(last)' = m.plci /\ About(last)' = m.call /\ \A t : Is(last, t)' <=> m.type = t
    BY <1>1 DEF For, About, Is
  <1>3. \A c : /\ Rings(last, c)' <=> m.type = "CONNECT_IND" /\ m.call = c
               /\ Dialled(last, c)' <=> m.type = "INFO_IND" /\ m.call = c
    BY <1>2 DEF Rings, Dialled
  <1>4. \A c : \A i \in Places : /\ Rings(i, c)' <=> Rings(i, c)
                                 /\ Dialled(i, c)' <=> Dialled(i, c)
    BY <1>1 DEF Rings, Dialled
  <1>5. \A c : Ringing(c) => Ringing(c)'
    BY <1>1, <1>4 DEF Ringing
  <1>6. \A c : Ringing(c)' => Ringing(c) \/ (m.type = "CONNECT_IND" /\ m.call = c)
    BY <1>1, <1>3, <1>4 DEF Ringing
  <1>7. \A c : m.type = "CONNECT_IND" /\ m.call = c => Ringing(c)'
    BY <1>3 DEF Ringing
  <1>8. \A p : HasDigits(p)' => HasDigits(p) \/ (m.type = "INFO_IND" /\ m.plci = p)
    BY <1>1, <1>2 DEF HasDigits
  <1> QED
    BY <1>1, <1>3, <1>4, <1>5, <1>6, <1>7, <1>8

LEMMA CallsSame ==
    ASSUME UNCHANGED inbox
    PROVE  /\ Places' = Places
           /\ \A c : /\ Ringing(c)' <=> Ringing(c)
                     /\ \A i \in Places : /\ Rings(i, c)' <=> Rings(i, c)
                                          /\ Dialled(i, c)' <=> Dialled(i, c)
           /\ \A p : HasDigits(p)' <=> HasDigits(p)
  BY DEF Places, Is, For, About, Ringing, Rings, Dialled, HasDigits

(* A call that has no PLCI has no messages that tell of one.               *)
LEMMA FreshIsSilent ==
    ASSUME OrderInv, NEW c \in Calls, Fresh(c)
    PROVE  ~Ringing(c) /\ \A i \in Places : ~Dialled(i, c)
  <1>1. ASSUME NEW i \in Places, Is(i, "CONNECT_IND") \/ Is(i, "INFO_IND") PROVE About(i) # c
    <2>1. InOrder(i) /\ ~Is(i, "CONNECT_CONF")
      BY <1>1 DEF OrderInv, MessagesInOrder, Is
    <2>2. PICK p \in Plcis : For(i) = p /\ network[p] = About(i)
      BY <2>1 DEF InOrder
    <2> QED
      BY <2>2 DEF Fresh
  <1> QED
    BY <1>1 DEF Ringing, Rings, Dialled

LEMMA RingsNext ==
    ASSUME TypeInv, OrderInv, RingsOnce, [Next]_vars
    PROVE  RingsOnce'
  <1>1. CASE Quiet
    <2>1. \A c \in Calls : /\ NoCallYet(c)' => NoCallYet(c)
                           /\ NoCallYet(c) => NoCallYet(c)' \/ Fresh(c)
                           /\ Unserved(c) => Unserved(c)'
      BY <1>1, QuietCalls
    <2>2. \A c \in Calls : Fresh(c) => ~Ringing(c)
      BY FreshIsSilent
    <2>3. UNCHANGED inbox
      BY <1>1, QuietLines
    <2> QED
      BY <2>1, <2>2, <2>3, CallsSame DEF RingsOnce
  <1>2. ASSUME NEW type, Read(type),
               \A c \in Calls : /\ NoCallYet(c)' => NoCallYet(c) /\ Unserved(c)'
                                /\ NoCallYet(c) => \/ NoCallYet(c)'
                                                   \/ type = "CONNECT_IND" /\ About(1) = c
        PROVE  RingsOnce'
    <2>1. ASSUME NEW c \in Calls, NEW i \in Places', NEW j \in Places', Rings(i, c)', Rings(j, c)'
          PROVE  i = j
      <3>1. i + 1 = j + 1 /\ i \in Nat /\ j \in Nat
        BY <1>2, <2>1, CallsPulled DEF RingsOnce
      <3> QED
        BY <3>1
    <2>2. ASSUME NEW c \in Calls, Ringing(c)'
          PROVE  NoCallYet(c)'
      <3>1. Ringing(c)
        BY <1>2, <2>2, CallsPulled
      <3>2. PICK i \in Places' : Rings(i, c)'
        BY <2>2 DEF Ringing
      <3>3. ~(type = "CONNECT_IND" /\ About(1) = c)
        BY <1>2, <3>2, CallsPulled DEF RingsOnce
      <3> QED
        BY <1>2, <3>1, <3>3 DEF RingsOnce
    <2> QED
      BY <1>2, <2>1, <2>2 DEF RingsOnce
  <1>3. CASE connect_ind
    <2>1. Read("CONNECT_IND")
      BY <1>3 DEF connect_ind
    <2> QED
      BY <1>2, <1>3, <2>1, ConnectIndCalls DEF RingsOnce
  <1>4. CASE connect_conf \/ disconnect_ind
    <2>1. PICK type : Read(type) /\ UNCHANGED <<waiting, started>>
      BY <1>4 DEF connect_conf, disconnect_ind, Unknown, Read
    <2> QED
      BY <1>2, <1>4, <2>1, ReadCalls, UnservedKept DEF RingsOnce
  <1>5. CASE info_ind_called_party_nr
    <2>1. Read("INFO_IND") /\ UNCHANGED started
      BY <1>5 DEF info_ind_called_party_nr, Unknown, Read
    <2>2. \A c \in Calls : NoCallYet(c) /\ Unserved(c) => Unserved(c)'
      <3>1. CASE UNCHANGED waiting
        BY <2>1, <3>1, UnservedKept
      <3>2. ASSUME NEW d, d = connections[Message.plci], d # None, plci_state[d] = "P2",
                   callWaiting(d)
            PROVE  \A c \in Calls : NoCallYet(c) /\ Unserved(c) => Unserved(c)'
        <4>1. d \in Calls
          BY <2>1, <3>2, Received DEF TypeInv, CapiType, MaybeCalls
        <4>2. ~NoCallYet(d)
          BY <3>2 DEF NoCallYet
        <4> QED
          BY <2>1, <3>2, <4>1, <4>2, UnservedPushed
      <3> QED
        BY <1>5, <3>1, <3>2 DEF info_ind_called_party_nr, Unknown
    <2> QED
      BY <1>2, <1>5, <2>1, <2>2, ReadCalls DEF RingsOnce
  <1>6. ASSUME NEW m, Puts(m), UNCHANGED <<plci_state, waiting, started>>,
               m.type = "CONNECT_IND" => Fresh(m.call) /\ m.call \in Calls
        PROVE  RingsOnce'
    <2>1. \A c \in Calls : (NoCallYet(c)' <=> NoCallYet(c)) /\ (Unserved(c)' <=> Unserved(c))
      BY <1>6, UnservedKept DEF NoCallYet
    <2>2. PICK d : d = m.call
      OBVIOUS
    <2>3. m.type = "CONNECT_IND" => d \in Calls /\ NoCallYet(d) /\ ~Ringing(d)
      BY <1>6, <2>2, FreshIsSilent DEF Fresh, NoCallYet
    <2>4. \A c \in Calls : Ringing(c)' => NoCallYet(c)'
      BY <1>6, <2>1, <2>2, <2>3, CallsPut DEF RingsOnce
    <2>5. \A c \in Calls : \A i, j \in Places' : Rings(i, c)' /\ Rings(j, c)' => i = j
      <3>1. PICK last \in Places' :
                \A c : \A i \in Places' :
                  \/ i \in Places /\ (Rings(i, c)' <=> Rings(i, c))
                  \/ /\ i = last
                     /\ Rings(i, c)' <=> m.type = "CONNECT_IND" /\ m.call = c
        BY <1>6, CallsPut
      <3> QED
        BY <2>2, <2>3, <3>1 DEF RingsOnce, Ringing
    <2> QED
      BY <2>1, <2>4, <2>5 DEF RingsOnce
  <1>7. ASSUME NEW c \in Calls, connect_req_put(c), ~UNCHANGED inbox
        PROVE  RingsOnce'
    <2>1. PICK p : Confirm(c, p)
      BY <1>7, PutRequest
    <2>2. PICK m : Puts(m) /\ m.type = "CONNECT_CONF"
      BY <2>1, ConfirmPuts
    <2>3. UNCHANGED <<plci_state, waiting, started>>
      BY <1>7 DEF connect_req_put
    <2> QED
      BY <1>6, <2>2, <2>3
  <1>8. ASSUME NEW p \in Plcis, Dial(p) \/ Clear(p) PROVE RingsOnce'
    <2>1. PICK type, c, digits : Tell(type, c, p, digits) /\ type # "CONNECT_IND"
      BY <1>8 DEF Dial, Clear
    <2>2. PICK m : Puts(m) /\ m.type # "CONNECT_IND"
      BY <2>1, TellPuts
    <2>3. UNCHANGED <<plci_state, waiting, started>>
      BY <1>8 DEF Dial, Clear
    <2> QED
      BY <1>6, <2>2, <2>3
  <1>9. ASSUME NEW p \in Plcis, NEW c \in Calls, Ring(c, p) PROVE RingsOnce'
    <2>1. PICK digits : Tell("CONNECT_IND", c, p, digits)
      BY <1>9 DEF Ring
    <2>2. PICK m : Puts(m) /\ m.type = "CONNECT_IND" /\ m.call = c
      BY <2>1, TellPuts
    <2>3. Fresh(c) /\ UNCHANGED <<plci_state, waiting, started>>
      BY <1>9 DEF Ring
    <2> QED
      BY <1>6, <2>2, <2>3
  <1> QED
    BY <1>1, <1>3, <1>4, <1>5, <1>7, <1>8, <1>9, StepKinds DEF Driver

(* What Dial does: it sends the beginning of the rest of the number.       *)
LEMMA DialFacts ==
    ASSUME TypeInv, NEW p \in Plcis, Dial(p)
    PROVE  \E c \in Calls :
             /\ network[p] = c /\ InUse(p) /\ to_dial[c] # <<>>
             /\ \E digits : Tell("INFO_IND", c, p, digits)
             /\ \A d \in Calls : d # c => to_dial'[d] = to_dial[d]
             /\ config.enBloc => to_dial'[c] = <<>>
             /\ UNCHANGED <<phase, network, connections, capi_pc, handled, plci>>
  <1>1. PICK c \in Calls : network[p] = c
    BY DEF Dial, TypeInv, LineType
  <1>2. to_dial \in [Calls -> Digits] /\ to_dial[c] \in Digits /\ Len(to_dial[c]) \in Nat
    BY DEF TypeInv, ToDialType, Digits
  <1>3. PICK k \in (IF config.enBloc THEN {Len(to_dial[c])} ELSE 1 .. Len(to_dial[c])) \ {0} :
          /\ Tell("INFO_IND", c, p, SubSeq(to_dial[c], 1, k))
          /\ to_dial' = [to_dial EXCEPT ![c] = SubSeq(to_dial[c], k + 1, Len(to_dial[c]))]
    BY <1>1 DEF Dial
  <1>4. to_dial[c] # <<>>
    BY <1>2, <1>3
  <1>5. config.enBloc => to_dial'[c] = <<>>
    <2> HAVE config.enBloc
    <2>1. to_dial'[c] = SubSeq(to_dial[c], Len(to_dial[c]) + 1, Len(to_dial[c]))
      BY <1>2, <1>3
    <2> QED
      BY <1>2, <2>1 DEF Digits
  <1>6. \A d \in Calls : d # c => to_dial'[d] = to_dial[d]
    BY <1>2, <1>3
  <1>7. InUse(p) /\ UNCHANGED <<phase, network, connections, capi_pc, handled, plci>>
    BY DEF Dial, InUse
  <1> QED
    BY <1>1, <1>3, <1>4, <1>5, <1>6, <1>7

LEMMA CallersNext ==
    ASSUME TypeInv, OrderInv, CallersDial, [Next]_vars
    PROVE  CallersDial'
  <1>1. CASE Quiet
    <2>1. \A c \in Calls : /\ NoCallYet(c)' => NoCallYet(c)
                           /\ request_pc'[c] # "none" => \/ request_pc[c] # "none"
                                                         \/ Fresh(c) /\ ~NoCallYet(c)'
      BY <1>1, QuietCalls
    <2>2. \A c \in Calls : Fresh(c) => NoCallYet(c) /\ ~Ringing(c)
      BY FreshIsSilent DEF Fresh, NoCallYet
    <2>3. UNCHANGED <<inbox, to_dial>>
      BY <1>1, QuietLines
    <2> QED
      BY <2>1, <2>2, <2>3, CallsSame DEF CallersDial
  <1>2. CASE connect_ind
    <2>1. Read("CONNECT_IND")
      BY <1>2 DEF connect_ind
    <2>2. /\ UNCHANGED <<request_pc, to_dial>>
          /\ \A c \in Calls : NoCallYet(c)' <=> NoCallYet(c) /\ c # About(1)
      BY <1>2, <2>1, PulledFrom, ConnectIndCalls
    <2>3. \A c \in Calls : Ringing(c) => Ringing(c)' \/ About(1) = c
      BY <2>1, CallsPulled
    <2> QED
      BY <2>2, <2>3 DEF CallersDial
  <1>3. CASE info_ind_called_party_nr \/ connect_conf \/ disconnect_ind
    <2>0. Read("INFO_IND") \/ Read("CONNECT_CONF") \/ Read("DISCONNECT_IND")
      BY <1>3 DEF info_ind_called_party_nr, connect_conf, disconnect_ind
    <2>1. PICK type : Read(type) /\ type # "CONNECT_IND"
      BY <2>0
    <2>2. /\ UNCHANGED <<request_pc, to_dial>>
          /\ \A c \in Calls : NoCallYet(c)' <=> NoCallYet(c)
      BY <1>3, <2>1, PulledFrom, ReadCalls
    <2>3. \A c \in Calls : Ringing(c) => Ringing(c)'
      BY <2>1, CallsPulled
    <2> QED
      BY <2>2, <2>3 DEF CallersDial
  <1>4. ASSUME NEW c \in Calls, connect_req_put(c), ~UNCHANGED inbox
        PROVE  CallersDial'
    <2>1. PICK p : Confirm(c, p)
      BY <1>4, PutRequest
    <2>2. \A d \in Calls : Ringing(d) => Ringing(d)'
      BY <2>1, ConfirmPuts, CallsPut
    <2>3. /\ UNCHANGED <<plci_state, to_dial>> /\ request_pc \in [Calls -> RequestPCs]
          /\ request_pc' = [request_pc EXCEPT ![c] = "none"]
      BY <1>4 DEF connect_req_put, TypeInv, CallType
    <2>4. \A d \in Calls : /\ request_pc'[d] # "none" => request_pc[d] # "none"
                           /\ NoCallYet(d)' <=> NoCallYet(d)
      BY <2>3 DEF NoCallYet
    <2> QED
      BY <2>2, <2>3, <2>4 DEF CallersDial
  <1>5. ASSUME NEW p \in Plcis, Dial(p) \/ Clear(p) PROVE CallersDial'
    <2>1. /\ UNCHANGED <<plci_state, request_pc>> /\ to_dial \in [Calls -> Digits]
          /\ network[p] \in Calls
      BY <1>5 DEF Dial, Clear, TypeInv, ToDialType, LineType
    <2>2. PICK type, digits : Tell(type, network[p], p, digits)
      BY <1>5 DEF Dial, Clear
    <2>3. \A d \in Calls : Ringing(d) => Ringing(d)'
      BY <2>2, TellPuts, CallsPut
    <2>4. \A d \in Calls : to_dial[d] = <<>> => to_dial'[d] = <<>>
      BY <1>5, DialFacts DEF Clear
    <2>5. \A d \in Calls : NoCallYet(d)' <=> NoCallYet(d)
      BY <2>1 DEF NoCallYet
    <2> QED
      BY <2>1, <2>3, <2>4, <2>5 DEF CallersDial
  <1>6. ASSUME NEW p \in Plcis, NEW c \in Calls, Ring(c, p) PROVE CallersDial'
    <2>1. /\ UNCHANGED <<plci_state, request_pc>> /\ to_dial \in [Calls -> Digits]
          /\ Fresh(c) /\ NoCallYet(c)
          /\ \/ UNCHANGED to_dial
             \/ \E number : to_dial' = [to_dial EXCEPT ![c] = number]
      BY <1>6 DEF Ring, TypeInv, ToDialType, Fresh, NoCallYet
    <2>2. PICK digits : Tell("CONNECT_IND", c, p, digits)
      BY <1>6 DEF Ring
    <2>3. Ringing(c)' /\ \A d \in Calls : Ringing(d) => Ringing(d)'
      BY <2>2, TellPuts, CallsPut
    <2>4. \A d \in Calls : /\ d # c => to_dial'[d] = to_dial[d]
                           /\ NoCallYet(d)' <=> NoCallYet(d)
      BY <2>1 DEF NoCallYet
    <2> QED
      BY <2>1, <2>3, <2>4 DEF CallersDial
  <1> QED
    BY <1>1, <1>2, <1>3, <1>4, <1>5, <1>6, StepKinds DEF Driver

(* A PLCI nobody dials for, or that has its entry or CONNECT_IND, keeps so.*)
LEMMA DigitsKept ==
    ASSUME DigitsArrive, NEW p \in Plcis,
           Dialling(p)' => Dialling(p),
           Incoming(p) => Incoming(p)'
    PROVE  Dialling(p)' => Incoming(p)'
  BY DEF DigitsArrive

LEMMA DigitsNext ==
    ASSUME TypeInv, OrderInv, CallersDial, DigitsArrive, [Next]_vars
    PROVE  DigitsArrive'
  <1>1. CASE Quiet
    <2>1. \A p \in Plcis : /\ Entry(p)' = Entry(p) /\ (InUse(p)' <=> InUse(p))
                           /\ HasDigits(p)' <=> HasDigits(p)
                           /\ Calling(p)' <=> Calling(p)
      BY <1>1, QuietLines, SamePlaces, CallsSame
    <2>2. UNCHANGED <<network, to_dial>>
      BY <1>1, QuietLines
    <2> QED
      BY <2>1, <2>2 DEF DigitsArrive, Dialling, Incoming
  <1>2. ASSUME NEW type, Read(type), UNCHANGED phase PROVE
           \A p \in Plcis : Dialling(p)' => Dialling(p)
    <2>1. \A p \in Plcis : HasDigits(p)' => HasDigits(p)
      BY <1>2, CallsPulled
    <2>2. UNCHANGED <<network, to_dial>>
      BY <1>2 DEF Read
    <2> QED
      BY <1>2, <2>1, <2>2 DEF Dialling, InUse
  <1>3. CASE connect_ind
    <2>1. Read("CONNECT_IND") /\ UNCHANGED <<phase, network>>
      BY <1>3 DEF connect_ind, Read
    <2>2. PICK p \in Plcis, c \in Calls :
             /\ For(1) = p /\ network[p] = c /\ Entry(p)' = c
             /\ \A q \in Plcis : q # p => Entry(q)' = Entry(q)
      BY <1>3, EntryConnectInd
    <2>3. \A q \in Plcis : q # p /\ Calling(q) => Calling(q)'
      BY <2>1, <2>2, OpeningPulled
    <2>4. \A q \in Plcis : Incoming(q) => Incoming(q)'
      BY <2>1, <2>2, <2>3 DEF Incoming
    <2> QED
      BY <1>2, <2>1, <2>4, DigitsKept DEF DigitsArrive
  <1>4. CASE info_ind_called_party_nr
    <2>1. Read("INFO_IND") /\ UNCHANGED <<connections, capi_pc, handled, plci, phase, network>>
      BY <1>4 DEF info_ind_called_party_nr, Unknown, Read
    <2>2. \A q \in Plcis : Calling(q) => Calling(q)'
      BY <2>1, OpeningPulled
    <2>3. \A q \in Plcis : Incoming(q) => Incoming(q)'
      BY <2>1, <2>2, EntryKept DEF Incoming
    <2> QED
      BY <1>2, <2>1, <2>3, DigitsKept DEF DigitsArrive
  <1>5. CASE connect_conf
    <2>1. Read("CONNECT_CONF") /\ UNCHANGED <<phase, network>>
      BY <1>5 DEF connect_conf, Unknown, Read
    <2>2. \A q \in Plcis : q # For(1) => Entry(q)' = Entry(q)
      BY <1>5, EntryConnectConf, EntryKept DEF Unknown
    <2>3. \A q \in Plcis : q # For(1) /\ Calling(q) => Calling(q)'
      BY <2>1, OpeningPulled
    <2>4. ASSUME NEW q \in Plcis, q = For(1) PROVE ~Incoming(q)
      <3>1. InUse(q) /\ Entry(q) = None /\ ~Calling(q)
        BY <2>1, <2>4, FirstOpens
      <3>2. network[q] # None
        BY <3>1, PlciNames DEF TypeInv, LineType, InUse
      <3> QED
        BY <3>1, <3>2 DEF Incoming
    <2>5. \A q \in Plcis : Incoming(q) => Incoming(q)'
      BY <2>1, <2>2, <2>3, <2>4 DEF Incoming
    <2> QED
      BY <1>2, <2>1, <2>5, DigitsKept DEF DigitsArrive
  <1>6. CASE disconnect_ind
    <2>1. PICK p \in Plcis :
             /\ For(1) = p
             /\ \A q \in Plcis : q # p => Entry(q)' = Entry(q) /\ phase'[q] = phase[q]
             /\ \/ ~InUse(p)' /\ Entry(p)' = None
                \/ phase'[p] = phase[p] /\ Entry(p)' = Entry(p)
      BY <1>6, EntryDisconnectInd
    <2>2. Read("DISCONNECT_IND") /\ UNCHANGED <<network, to_dial>>
      BY <1>6 DEF disconnect_ind, Read
    <2>3. \A q \in Plcis : (HasDigits(q)' => HasDigits(q)) /\ (Calling(q) => Calling(q)')
      BY <2>2, OpeningPulled, CallsPulled
    <2>4. ~HasDigits(p)'
      <3>1. 1 \in Places /\ Is(1, "DISCONNECT_IND")
            /\ \A i \in Places' : i + 1 \in Places /\ i + 1 > 1 /\ For(i)' = For(i + 1)
        BY <2>2, PulledFrom
      <3>2. \A j \in Places : j > 1 => For(j) # p
        BY <2>1, <3>1 DEF OrderInv, MessagesInOrder, InOrder
      <3> QED
        BY <3>1, <3>2 DEF HasDigits
    <2>5. \A q \in Plcis : InUse(q)' => InUse(q) /\ Entry(q)' = Entry(q)
      BY <2>1 DEF InUse
    <2>6. \A q \in Plcis : ~InUse(q)' => ~Dialling(q)' \/ (q # p /\ Entry(q)' = Entry(q))
      BY <2>1, <2>4 DEF Dialling
    <2>7. \A q \in Plcis : InUse(q)' /\ Dialling(q)' => Dialling(q)
      BY <2>2, <2>3, <2>5 DEF Dialling
    <2>8. \A q \in Plcis : Entry(q)' = Entry(q) /\ Incoming(q) => Incoming(q)'
      BY <2>2, <2>3 DEF Incoming
    <2>9. \A q \in Plcis : ~InUse(q)' /\ Dialling(q)' => Dialling(q)
      BY <2>3 DEF Dialling
    <2> QED
      BY <2>5, <2>6, <2>7, <2>8, <2>9 DEF DigitsArrive
  <1>7. ASSUME NEW c \in Calls, connect_req_put(c), ~UNCHANGED inbox
        PROVE  DigitsArrive'
    <2>1. /\ \A q \in Plcis : Entry(q)' = Entry(q)
          /\ UNCHANGED to_dial
      BY <1>7, EntryKept DEF connect_req_put
    <2>2. PICK p : Confirm(c, p)
      BY <1>7, PutRequest
    <2>3. \A q \in Plcis : (HasDigits(q)' => HasDigits(q)) /\ (Calling(q) => Calling(q)')
      <3>1. PICK m : Puts(m) /\ m.type = "CONNECT_CONF"
        BY <2>2, ConfirmPuts
      <3> QED
        BY <3>1, CallsPut, OpeningPut
    <2>4. CASE UNCHANGED <<phase, network>>
      BY <2>1, <2>3, <2>4 DEF DigitsArrive, Dialling, Incoming, InUse
    <2>5. ASSUME NEW r \in Plcis, ~InUse(r),
                 phase' = [phase EXCEPT ![r] = "up"], network' = [network EXCEPT ![r] = c]
          PROVE  DigitsArrive'
      <3>1. to_dial[c] = <<>>
        BY <1>7 DEF connect_req_put, CallersDial
      <3>2. ~HasDigits(r)
        BY <2>5 DEF OrderInv, FreeIsUnused, HasDigits
      <3>3. network'[r] = c
            /\ \A q \in Plcis : q # r => (InUse(q)' <=> InUse(q)) /\ network'[q] = network[q]
        BY <2>5 DEF TypeInv, LineType, InUse
      <3>4. ~Dialling(r)'
        BY <2>1, <2>3, <3>1, <3>2, <3>3 DEF Dialling
      <3>5. \A q \in Plcis : q # r /\ Dialling(q)' => Dialling(q)
        BY <2>1, <2>3, <3>3 DEF Dialling
      <3>6. \A q \in Plcis : q # r /\ Incoming(q) => Incoming(q)'
        BY <2>1, <2>3, <3>3 DEF Incoming
      <3> QED
        BY <3>4, <3>5, <3>6 DEF DigitsArrive
    <2> QED
      BY <1>7, <2>4, <2>5, PutRequest
  <1>8. ASSUME NEW p \in Plcis, Dial(p) PROVE DigitsArrive'
    <2>1. PICK c \in Calls :
             /\ network[p] = c /\ InUse(p) /\ to_dial[c] # <<>>
             /\ \E digits : Tell("INFO_IND", c, p, digits)
             /\ \A d \in Calls : d # c => to_dial'[d] = to_dial[d]
             /\ UNCHANGED <<phase, network, connections, capi_pc, handled, plci>>
      BY <1>8, DialFacts
    <2>2. PICK m : Puts(m) /\ m.type = "INFO_IND" /\ m.plci = p
      BY <2>1, TellPuts
    <2>3. \A q \in Plcis : /\ HasDigits(q)' => HasDigits(q) \/ q = p
                           /\ Calling(q) => Calling(q)'
      BY <2>2, CallsPut, OpeningPut
    <2>4. \A q \in Plcis : InUse(q)' /\ to_dial'[network'[q]] # <<>> =>
                             InUse(q) /\ to_dial[network[q]] # <<>>
      <3>1. \A q \in Plcis : InUse(q) => network[q] \in Calls
        BY DEF TypeInv, LineType, InUse
      <3> QED
        BY <2>1, <3>1 DEF InUse
    <2>5. Dialling(p)
      BY <2>1 DEF Dialling
    <2>6. \A q \in Plcis : Dialling(q)' => Dialling(q)
      BY <2>3, <2>4, <2>5 DEF Dialling
    <2>7. \A q \in Plcis : Incoming(q) => Incoming(q)'
      BY <2>1, <2>3, EntryKept DEF Incoming
    <2> QED
      BY <2>6, <2>7, DigitsKept DEF DigitsArrive
  <1>9. ASSUME NEW p \in Plcis, Clear(p) PROVE DigitsArrive'
    <2>1. /\ UNCHANGED <<network, to_dial, connections, capi_pc, handled, plci>>
          /\ InUse(p) /\ phase' = [phase EXCEPT ![p] = "cleared"]
          /\ Tell("DISCONNECT_IND", network[p], p, <<>>)
      BY <1>9 DEF Clear, InUse
    <2>2. PICK m : Puts(m) /\ m.type = "DISCONNECT_IND"
      BY <2>1, TellPuts
    <2>3. \A q \in Plcis : /\ HasDigits(q)' => HasDigits(q)
                           /\ Calling(q) => Calling(q)'
      BY <2>2, CallsPut, OpeningPut
    <2>4. \A q \in Plcis : InUse(q)' => InUse(q)
      BY <2>1 DEF TypeInv, LineType, InUse
    <2>5. \A q \in Plcis : (Dialling(q)' => Dialling(q)) /\ (Incoming(q) => Incoming(q)')
      BY <2>1, <2>3, <2>4, EntryKept DEF Dialling, Incoming
    <2> QED
      BY <2>5, DigitsKept DEF DigitsArrive
  <1>10. ASSUME NEW p \in Plcis, NEW c \in Calls, Ring(c, p) PROVE DigitsArrive'
    <2>1. /\ UNCHANGED <<connections, capi_pc, handled, plci>>
          /\ Fresh(c) /\ phase' = [phase EXCEPT ![p] = "up"]
          /\ network' = [network EXCEPT ![p] = c] /\ to_dial \in [Calls -> Digits]
          /\ \/ UNCHANGED to_dial
             \/ \E number : to_dial' = [to_dial EXCEPT ![c] = number]
      BY <1>10 DEF Ring, TypeInv, ToDialType
    <2>2. PICK digits : Tell("CONNECT_IND", c, p, digits)
      BY <1>10 DEF Ring
    <2>3. PICK m : Puts(m) /\ m.type = "CONNECT_IND" /\ m.plci = p
      BY <2>2, TellPuts
    <2>4. /\ Calling(p)'
          /\ \A q \in Plcis : /\ HasDigits(q)' => HasDigits(q)
                              /\ Calling(q) => Calling(q)'
      BY <2>3, CallsPut, OpeningPut
    <2>5. \A q \in Plcis : q # p => (InUse(q)' <=> InUse(q)) /\ network'[q] = network[q]
      BY <2>1 DEF TypeInv, LineType, InUse
    <2>6. \A q \in Plcis : InUse(q) => network[q] \in Calls /\ network[q] # c
      BY <2>1 DEF TypeInv, LineType, InUse, Fresh
    <2>7. \A q \in Plcis : InUse(q) => to_dial'[network[q]] = to_dial[network[q]]
      BY <2>1, <2>6
    <2>8. \A q \in Plcis : q # p => (Dialling(q)' => Dialling(q)) /\ (Incoming(q) => Incoming(q)')
      BY <2>1, <2>4, <2>5, <2>7, EntryKept DEF Dialling, Incoming
    <2>9. Incoming(p)'
      BY <2>4 DEF Incoming
    <2> QED
      BY <2>8, <2>9, DigitsKept DEF DigitsArrive
  <1> QED
    BY <1>1, <1>3, <1>4, <1>5, <1>6, <1>7, <1>8, <1>9, <1>10, StepKinds DEF Driver

(* Digits reach the call that has been dialled.                            *)
LEMMA InfoReaches ==
    ASSUME TypeInv, OrderInv, DigitsArrive, info_ind_called_party_nr
    PROVE  /\ Read("INFO_IND") /\ UNCHANGED started
           /\ \/ UNCHANGED <<waiting, plci_state, deleted, corrupt>>
              \/ \E c \in Calls :
                   /\ About(1) = c /\ plci_state[c] = "P2" /\ corrupt' = deleted[c]
                   /\ callWaiting(c) \/ UNCHANGED waiting
                   /\ UNCHANGED <<plci_state, deleted>>
  <1>1. Read("INFO_IND") /\ UNCHANGED started
    BY DEF info_ind_called_party_nr, Read
  <1>2. /\ Message.plci = For(1) /\ About(1) \in Calls
        /\ capi_pc = "run" /\ 1 \in Places /\ Is(1, "INFO_IND")
    BY <1>1, Received
  <1>3. InOrder(1) /\ ~Is(1, "CONNECT_CONF")
    BY <1>2 DEF OrderInv, MessagesInOrder, Is
  <1>4. PICK p \in Plcis : For(1) = p
    BY <1>3 DEF InOrder
  <1>5. network[p] = About(1) /\ ~Calling(p)
    BY <1>1, <1>4, FirstOpens
  <1>6. Incoming(p)
    BY <1>2, <1>4 DEF DigitsArrive, Dialling, HasDigits
  <1>7. connections[p] = About(1)
    BY <1>2, <1>5, <1>6, EntryRun DEF Incoming
  <1>8. PICK c \in Calls : About(1) = c /\ connections[Message.plci] = c
    BY <1>2, <1>4, <1>7
  <1>9. \/ UNCHANGED <<waiting, plci_state, deleted, corrupt>>
        \/ /\ plci_state[c] = "P2" /\ corrupt' = deleted[c]
           /\ callWaiting(c) \/ UNCHANGED waiting
           /\ UNCHANGED <<plci_state, deleted>>
    BY <1>8 DEF info_ind_called_party_nr, Unknown, Use
  <1> QED
    BY <1>1, <1>8, <1>9

(* A message is taken, whose call may get into the queue by it.            *)
LEMMA DialledPulled ==
    ASSUME TypeInv, NEW type, Read(type), DialledOnce,
           \A c \in Calls : Unserved(c) => Unserved(c)' \/ (type = "INFO_IND" /\ About(1) = c)
    PROVE  DialledOnce'
  <1> SUFFICES ASSUME NEW c \in Calls
               PROVE  /\ to_dial'[c] # <<>> => Unserved(c)'
                      /\ \A i \in Places' : Dialled(i, c)' =>
                           /\ Unserved(c)'
                           /\ to_dial'[c] = <<>>
                           /\ \A j \in Places' : Dialled(j, c)' => i = j
    BY DEF DialledOnce
  <1>1. /\ 1 \in Places /\ (type = "INFO_IND" /\ About(1) = c => Dialled(1, c))
        /\ \A i \in Places' : /\ i + 1 \in Places /\ i + 1 > 1 /\ i \in Nat
                              /\ Dialled(i, c)' <=> Dialled(i + 1, c)
    BY CallsPulled
  <1>2. UNCHANGED to_dial
    BY DEF Read
  <1>3. to_dial'[c] # <<>> => Unserved(c)'
    BY <1>1, <1>2 DEF DialledOnce
  <1>4. ASSUME NEW i \in Places', Dialled(i, c)'
        PROVE  /\ Unserved(c)'
               /\ to_dial'[c] = <<>>
               /\ \A j \in Places' : Dialled(j, c)' => i = j
    <2>1. i + 1 \in Places /\ i + 1 > 1 /\ i \in Nat /\ Dialled(i + 1, c)
      BY <1>1, <1>4
    <2>2. Unserved(c) /\ to_dial[c] = <<>>
      BY <2>1 DEF DialledOnce
    <2>3. \A j \in Places : Dialled(j, c) => i + 1 = j
      BY <2>1 DEF DialledOnce
    <2>4. ~(type = "INFO_IND" /\ About(1) = c)
      BY <1>1, <2>1, <2>3
    <2>5. ASSUME NEW j \in Places', Dialled(j, c)' PROVE i = j
      <3>1. j + 1 \in Places /\ j \in Nat /\ Dialled(j + 1, c)
        BY <1>1, <2>5
      <3>2. i + 1 = j + 1
        BY <2>3, <3>1
      <3> QED
        BY <2>1, <3>1, <3>2
    <2> QED
      BY <1>2, <2>2, <2>4, <2>5
  <1> QED
    BY <1>3, <1>4

(* A message is put, and nobody is served by it.                           *)
LEMMA DialledPut ==
    ASSUME TypeInv, NEW m, Puts(m), UNCHANGED <<started, waiting>>, DialledOnce,
           \A c \in Calls :
             \/ to_dial'[c] = to_dial[c] /\ ~(m.type = "INFO_IND" /\ m.call = c)
             \/ /\ to_dial'[c] = <<>> \/ m.type # "INFO_IND"
                /\ Unserved(c)
                /\ \A i \in Places : ~Dialled(i, c)
    PROVE  DialledOnce'
  <1> SUFFICES ASSUME NEW c \in Calls
               PROVE  /\ to_dial'[c] # <<>> => Unserved(c)'
                      /\ \A i \in Places' : Dialled(i, c)' =>
                           /\ Unserved(c)'
                           /\ to_dial'[c] = <<>>
                           /\ \A j \in Places' : Dialled(j, c)' => i = j
    BY DEF DialledOnce
  <1>1. Unserved(c)' <=> Unserved(c)
    BY UnservedKept
  <1>2. PICK last \in Places' :
          \A i \in Places' :
             \/ i \in Places /\ (Dialled(i, c)' <=> Dialled(i, c))
             \/ i = last /\ (Dialled(i, c)' <=> m.type = "INFO_IND" /\ m.call = c)
    BY CallsPut
  <1>3. CASE to_dial'[c] = to_dial[c] /\ ~(m.type = "INFO_IND" /\ m.call = c)
    <2>1. \A i \in Places' : Dialled(i, c)' => i \in Places /\ Dialled(i, c)
      BY <1>2, <1>3
    <2> QED
      BY <1>1, <1>3, <2>1 DEF DialledOnce
  <1>4. CASE /\ to_dial'[c] = <<>> \/ m.type # "INFO_IND"
             /\ Unserved(c)
             /\ \A i \in Places : ~Dialled(i, c)
    BY <1>1, <1>2, <1>4
  <1> QED
    BY <1>3, <1>4

(* Where no extensions are expected nobody dials.                          *)
LEMMA UndialledNext ==
    ASSUME TypeInv, Undialled, [Next]_vars, config.DDILength = 0
    PROVE  Undialled'
  <1>1. CASE Quiet
    <2>1. UNCHANGED <<inbox, to_dial>>
      BY <1>1, QuietLines
    <2> QED
      BY <2>1, SamePlaces DEF Undialled
  <1>2. ASSUME NEW type, Read(type) PROVE Undialled'
    <2>1. \A i \in Places' : i + 1 \in Places /\ (Is(i, "INFO_IND")' <=> Is(i + 1, "INFO_IND"))
      BY <1>2, PulledFrom
    <2> QED
      BY <1>2, <2>1 DEF Undialled, Read
  <1>3. CASE connect_ind \/ info_ind_called_party_nr \/ connect_conf \/ disconnect_ind
    BY <1>2, <1>3 DEF connect_ind, info_ind_called_party_nr, connect_conf, disconnect_ind
  <1>4. ASSUME NEW m, Puts(m), m.type # "INFO_IND", UNCHANGED to_dial PROVE Undialled'
    <2>1. PICK last \in Places' :
             /\ inbox'[last] = m
             /\ \A i \in Places : Is(i, "INFO_IND")' <=> Is(i, "INFO_IND")
             /\ \A i \in Places' : i \in Places \/ i = last
      BY <1>4, PutTo
    <2>2. ~Is(last, "INFO_IND")'
      BY <1>4, <2>1 DEF Is
    <2> QED
      BY <1>4, <2>1, <2>2 DEF Undialled
  <1>5. ASSUME NEW c \in Calls, connect_req_put(c), ~UNCHANGED inbox PROVE Undialled'
    <2>1. PICK p : Confirm(c, p)
      BY <1>5, PutRequest
    <2>2. PICK m : Puts(m) /\ m.type = "CONNECT_CONF"
      BY <2>1, ConfirmPuts
    <2> QED
      BY <1>4, <1>5, <2>2 DEF connect_req_put
  <1>6. ASSUME NEW p \in Plcis PROVE ~Dial(p)
    BY DialFacts DEF Undialled
  <1>7. ASSUME NEW p \in Plcis, Clear(p) PROVE Undialled'
    <2>1. PICK m : Puts(m) /\ m.type = "DISCONNECT_IND"
      BY <1>7, TellPuts DEF Clear
    <2> QED
      BY <1>4, <1>7, <2>1 DEF Clear
  <1>8. ASSUME NEW p \in Plcis, NEW c \in Calls, Ring(c, p) PROVE Undialled'
    <2>1. PICK digits : Tell("CONNECT_IND", c, p, digits) /\ UNCHANGED to_dial
      BY <1>8 DEF Ring
    <2>2. PICK m : Puts(m) /\ m.type = "CONNECT_IND"
      BY <2>1, TellPuts
    <2> QED
      BY <1>4, <2>1, <2>2
  <1> QED
    BY <1>1, <1>3, <1>5, <1>6, <1>7, <1>8, StepKinds DEF Driver

LEMMA DialledNext ==
    ASSUME TypeInv, OrderInv, RingsOnce, DigitsArrive, DialledOnce, [Next]_vars,
           config.enBloc, config.DDILength # 0
    PROVE  DialledOnce'
  <1>1. CASE Quiet
    <2>1. UNCHANGED <<inbox, to_dial>> /\ \A c \in Calls : Unserved(c) => Unserved(c)'
      BY <1>1, QuietLines, QuietCalls
    <2>2. /\ Places' = Places
          /\ \A c : \A i \in Places : Dialled(i, c)' <=> Dialled(i, c)
      BY <2>1, CallsSame
    <2> QED
      BY <2>1, <2>2 DEF DialledOnce
  <1>2. CASE connect_ind
    <2>1. Read("CONNECT_IND")
      BY <1>2 DEF connect_ind
    <2>2. UNCHANGED <<started, waiting>>
      BY <1>2, ConnectIndCalls
    <2> QED
      BY <2>1, <2>2, UnservedKept, DialledPulled
  <1>3. CASE info_ind_called_party_nr
    <2>1. Read("INFO_IND") /\ UNCHANGED started
      BY <1>3, InfoReaches
    <2>2. \A c \in Calls : Unserved(c) => Unserved(c)' \/ About(1) = c
      BY <1>3, <2>1, InfoReaches, UnservedKept, UnservedPushed
    <2> QED
      BY <2>1, <2>2, DialledPulled
  <1>4. CASE connect_conf \/ disconnect_ind
    <2>1. PICK type : Read(type) /\ UNCHANGED <<waiting, started>>
      BY <1>4 DEF connect_conf, disconnect_ind, Unknown, Read
    <2> QED
      BY <2>1, UnservedKept, DialledPulled
  <1>5. ASSUME NEW m, Puts(m), m.type # "INFO_IND", UNCHANGED <<started, waiting, to_dial>>
        PROVE  DialledOnce'
    BY <1>5, DialledPut
  <1>6. ASSUME NEW c \in Calls, connect_req_put(c), ~UNCHANGED inbox PROVE DialledOnce'
    <2>1. PICK p : Confirm(c, p)
      BY <1>6, PutRequest
    <2>2. PICK m : Puts(m) /\ m.type = "CONNECT_CONF"
      BY <2>1, ConfirmPuts
    <2> QED
      BY <1>5, <1>6, <2>2 DEF connect_req_put
  <1>7. ASSUME NEW p \in Plcis, Clear(p) PROVE DialledOnce'
    <2>1. PICK m : Puts(m) /\ m.type = "DISCONNECT_IND"
      BY <1>7, TellPuts DEF Clear
    <2> QED
      BY <1>5, <1>7, <2>1 DEF Clear
  <1>8. ASSUME NEW p \in Plcis, Dial(p) PROVE DialledOnce'
    <2>1. PICK c \in Calls :
             /\ to_dial[c] # <<>>
             /\ \E digits : Tell("INFO_IND", c, p, digits)
             /\ \A d \in Calls : d # c => to_dial'[d] = to_dial[d]
             /\ to_dial'[c] = <<>>
      BY <1>8, DialFacts
    <2>2. PICK m : Puts(m) /\ m.type = "INFO_IND" /\ m.call = c
      BY <2>1, TellPuts
    <2>3. Unserved(c) /\ \A i \in Places : ~Dialled(i, c)
      BY <2>1 DEF DialledOnce
    <2>4. UNCHANGED <<started, waiting>>
      BY <1>8 DEF Dial
    <2> QED
      BY <2>1, <2>2, <2>3, <2>4, DialledPut
  <1>9. ASSUME NEW p \in Plcis, NEW c \in Calls, Ring(c, p) PROVE DialledOnce'
    <2>1. PICK digits : Tell("CONNECT_IND", c, p, digits)
      BY <1>9 DEF Ring
    <2>2. PICK m : Puts(m) /\ m.type = "CONNECT_IND"
      BY <2>1, TellPuts
    <2>3. /\ Fresh(c) /\ UNCHANGED <<waiting, started>>
          /\ \A d \in Calls : d # c => to_dial'[d] = to_dial[d]
      <3>1. to_dial \in [Calls -> Digits]
        BY DEF TypeInv, ToDialType
      <3> QED
        BY <1>9, <3>1 DEF Ring
    <2>4. Unserved(c) /\ \A i \in Places : ~Dialled(i, c)
      BY <2>3, FreshIsSilent DEF RingsOnce, NoCallYet, Fresh
    <2> QED
      BY <2>2, <2>3, <2>4, DialledPut
  <1> QED
    BY <1>1, <1>2, <1>3, <1>4, <1>6, <1>7, <1>8, <1>9, StepKinds DEF Driver

LEMMA DialsNext ==
    ASSUME TypeInv, OrderInv, DialInv, WholeNumbers, DialsOnce, [Next]_vars
    PROVE  DialsOnce'
  <1>1. UNCHANGED config
    BY ConfigStays
  <1> QED
    BY <1>1, UndialledNext, DialledNext DEF DialsOnce, DialInv, WholeNumbers

LEMMA DialNext == ASSUME TypeInv, OrderInv, DialInv, [Next]_vars PROVE DialInv'
  BY RingsNext, CallersNext, DigitsNext DEF DialInv

-----------------------------------------------------------------------------
(* One script for each call.                                               *)

LEMMA ScriptPushed ==
    ASSUME TypeInv, OneScript, NEW d \in Calls, Unserved(d), callWaiting(d), UNCHANGED started
    PROVE  OneScript'
  <1>1. /\ waiting \in Seq(Calls) /\ waiting' = Append(waiting, d)
    BY DEF TypeInv, WaitingType, callWaiting
  <1>2. /\ \A i \in DOMAIN waiting' : \/ i \in DOMAIN waiting /\ waiting'[i] = waiting[i]
                                      \/ i = Len(waiting) + 1 /\ waiting'[i] = d
        /\ \A i \in DOMAIN waiting : waiting[i] # d
    BY <1>1 DEF Unserved
  <1>3. \A i \in DOMAIN waiting' : started'[waiting'[i]] = 0
    BY <1>2 DEF OneScript, Unserved
  <1>4. \A i, j \in DOMAIN waiting' : waiting'[i] = waiting'[j] => i = j
    BY <1>2 DEF OneScript
  <1> QED
    BY <1>3, <1>4 DEF OneScript

LEMMA ScriptMain == ASSUME TypeInv, OneScript, mainLoop PROVE OneScript'
  <1>1. /\ waiting \in Seq(Calls) /\ waiting # <<>> /\ waiting' = Tail(waiting)
        /\ started' = [started EXCEPT ![Head(waiting)] = @ + 1]
        /\ started \in [Calls -> Nat]
    BY DEF TypeInv, WaitingType, CallType, mainLoop
  <1>2. PICK d \in Calls : d = waiting[1] /\ Head(waiting) = d
    BY <1>1
  <1>3. /\ 1 \in DOMAIN waiting
        /\ \A i \in DOMAIN waiting' :
             /\ i + 1 \in DOMAIN waiting /\ waiting'[i] = waiting[i + 1]
             /\ i + 1 # 1 /\ i \in Nat /\ waiting[i + 1] \in Calls
    BY <1>1
  <1>4. started[d] = 0 /\ started'[d] = 1 /\ \A c \in Calls : c # d => started'[c] = started[c]
    BY <1>1, <1>2, <1>3 DEF OneScript
  <1>5. \A c \in Calls : started'[c] <= 1
    BY <1>4 DEF OneScript
  <1>6. \A i \in DOMAIN waiting' : waiting'[i] # d
    BY <1>2, <1>3 DEF OneScript
  <1>7. \A i \in DOMAIN waiting' : started'[waiting'[i]] = 0
    BY <1>3, <1>4, <1>6 DEF OneScript
  <1>8. \A i, j \in DOMAIN waiting' : waiting'[i] = waiting'[j] => i = j
    <2> TAKE i, j \in DOMAIN waiting'
    <2> HAVE waiting'[i] = waiting'[j]
    <2>1. i + 1 = j + 1
      BY <1>3 DEF OneScript
    <2> QED
      BY <1>3, <2>1
  <1> QED
    BY <1>5, <1>7, <1>8 DEF OneScript

LEMMA ScriptKept == ASSUME OneScript, UNCHANGED <<waiting, started>> PROVE OneScript'
  BY DEF OneScript

(* Only these put a call into the queue or take it out.                    *)
LEMMA QueueKept ==
    ASSUME TypeInv, [Next]_vars
    PROVE  mainLoop \/ connect_ind \/ info_ind_called_party_nr \/ UNCHANGED <<waiting, started>>
  <1>1. CASE connect_conf \/ disconnect_ind
    BY <1>1 DEF connect_conf, disconnect_ind, Unknown, Read
  <1>2. CASE unregisterConnection \/ OtherRequest \/ Driver \/ UNCHANGED vars
    BY <1>2 DEF unregisterConnection, OtherRequest, Driver, Dial, Clear, Ring, vars
  <1>3. CASE \E c \in Calls : ScriptSteps(c) \/ CallOut(c)
    BY <1>3 DEF ScriptSteps, ScriptEnds, connectWaiting, disconnectCall,
                capisuitemodule_destruct_connection, CallOut, connect_req, connect_req_key,
                connect_req_put
  <1> QED
    BY <1>1, <1>2, <1>3 DEF Next, CapiSteps

LEMMA ScriptsNext ==
    ASSUME TypeInv, OrderInv, DialInv, DialsOnce, OneScript, [Next]_vars
    PROVE  OneScript'
  <1>1. CASE connect_ind
    <2>1. Read("CONNECT_IND")
      BY <1>1 DEF connect_ind
    <2>2. PICK c \in Calls : About(1) = c
      BY <2>1, Received
    <2>3. Ringing(c)
      BY <2>1, <2>2, CallsPulled DEF Ringing
    <2>4. Unserved(c)
      BY <2>3 DEF DialInv, RingsOnce
    <2> QED
      BY <1>1, <2>2, <2>4, ConnectIndCalls, ScriptPushed, ScriptKept
  <1>2. CASE info_ind_called_party_nr
    <2>1. Read("INFO_IND")
      BY <1>2 DEF info_ind_called_party_nr
    <2>2. PICK c \in Calls : About(1) = c
      BY <2>1, Received
    <2>3. 1 \in Places /\ Is(1, "INFO_IND") /\ Dialled(1, c)
      BY <2>1, <2>2, Received, CallsPulled
    <2>4. Unserved(c)
      BY <2>3 DEF DialsOnce, Undialled, DialledOnce
    <2>5. UNCHANGED started /\ (UNCHANGED waiting \/ callWaiting(c))
      BY <1>2, <2>2, InfoReaches DEF DialInv
    <2> QED
      BY <2>4, <2>5, ScriptPushed, ScriptKept
  <1> QED
    BY <1>1, <1>2, ScriptMain, ScriptKept, QueueKept

LEMMA ScriptNext ==
    ASSUME TypeInv, OrderInv, DialInv, ScriptInv, [Next]_vars
    PROVE  ScriptInv'
  <1>1. CASE WholeNumbers
    BY <1>1, DialsNext, ScriptsNext DEF ScriptInv
  <1>2. CASE ~WholeNumbers
    BY <1>2, ConfigStays DEF ScriptInv, WholeNumbers
  <1> QED
    BY <1>1, <1>2

LEMMA DialInit == Init => DialInv /\ ScriptInv
  <1> SUFFICES ASSUME Init PROVE DialInv /\ ScriptInv
    OBVIOUS
  <1>1. /\ Places = {} /\ waiting = <<>> /\ DOMAIN waiting = {}
        /\ \A c \in Calls : started[c] = 0 /\ to_dial[c] = <<>> /\ request_pc[c] = "none"
        /\ \A p \in Plcis : ~InUse(p)
    BY DEF Init, Places, InUse
  <1>2. RingsOnce /\ CallersDial
    BY <1>1 DEF RingsOnce, CallersDial, Ringing, Unserved
  <1>3. DigitsArrive
    BY <1>1 DEF DigitsArrive, Dialling, HasDigits
  <1>4. DialsOnce
    BY <1>1 DEF DialsOnce, Undialled, DialledOnce
  <1>5. OneScript
    BY <1>1 DEF OneScript
  <1> QED
    BY <1>2, <1>3, <1>4, <1>5 DEF DialInv, ScriptInv

(* For whoever gives the whole number at once, or where no extensions are  *)
(* expected, no call gets a second script, however its messages and the    *)
(* main loop interleave: a call is put into the queue of callWaiting once. *)
THEOREM OneScriptEach == Spec => []OneScriptPerCall
  <1>1. TypeInv /\ OrderInv /\ DialInv /\ ScriptInv /\ [Next]_vars
          => OrderInv' /\ DialInv' /\ ScriptInv'
    BY OrderNext, DialNext, ScriptNext
  <1>2. Init => OrderInv /\ DialInv /\ ScriptInv
    BY OrderInit, DialInit
  <1>3. ScriptInv => OneScriptPerCall
    BY DEF ScriptInv, OneScriptPerCall
  <1> QED
    BY TypeAlways, <1>1, <1>2, <1>3, PTL DEF Spec

-----------------------------------------------------------------------------
(* A Connection that is used is not deleted.                               *)

SameCall(c) ==
    /\ plci_state'[c] = plci_state[c] /\ deleted'[c] = deleted[c]
    /\ scripts'[c] = scripts[c] /\ started'[c] = started[c]
    /\ request_pc'[c] = request_pc[c]

LEMMA SameOwner ==
    ASSUME NEW c \in Calls, SameCall(c)
    PROVE  /\ OwnedOnce(c) => OwnedOnce(c)'
           /\ Queued(c)' <=> Queued(c)
           /\ Asking(c)' <=> Asking(c)
           /\ Ended(c)' <=> Ended(c)
  BY DEF SameCall, OwnedOnce, Queued, Asking, Ended

(* The step of one call, while others stay as they are.                    *)
OnlyCall(d) == \A c \in Calls : c # d => SameCall(c)

LEMMA OwnerKept ==
    ASSUME OneOwner, NEW d, OnlyCall(d), d \in Calls => OwnedOnce(d)'
    PROVE  OneOwner'
  BY SameOwner DEF OneOwner, OnlyCall

LEMMA QueuedKept ==
    ASSUME QueuedIsAlive, NEW d, OnlyCall(d), UNCHANGED waiting,
           d \in Calls /\ Queued(d) => Queued(d)'
    PROVE  QueuedIsAlive'
  BY SameOwner DEF QueuedIsAlive, OnlyCall

LEMMA QueuedPushed ==
    ASSUME TypeInv, QueuedIsAlive, NEW d \in Calls, OnlyCall(d), callWaiting(d), Queued(d)'
    PROVE  QueuedIsAlive'
  <1>1. /\ waiting \in Seq(Calls) /\ waiting' = Append(waiting, d)
    BY DEF TypeInv, WaitingType, callWaiting
  <1>2. \A i \in DOMAIN waiting' : \/ i \in DOMAIN waiting /\ waiting'[i] = waiting[i]
                                   \/ waiting'[i] = d
    BY <1>1
  <1>3. \A c \in Calls : c # d /\ Queued(c) => Queued(c)'
    BY SameOwner DEF OnlyCall
  <1> QED
    BY <1>2, <1>3 DEF QueuedIsAlive

LEMMA AskingKept ==
    ASSUME AskingIsAlive, NEW d, OnlyCall(d),
           \A i \in Places' : Confirms(i)' =>
             i \in Places /\ Confirms(i) /\ About(i)' = About(i),
           d \in Calls /\ Asking(d) => Asking(d)'
    PROVE  AskingIsAlive'
  <1>1. \A c \in Calls : Asking(c) => Asking(c)'
    BY SameOwner DEF OnlyCall
  <1> QED
    BY <1>1 DEF AskingIsAlive

LEMMA EndedKept ==
    ASSUME EndedIsAlive, NEW d, OnlyCall(d), UNCHANGED <<capi_pc, handled>>,
           d \in Calls /\ Ended(d) => Ended(d)'
    PROVE  EndedIsAlive'
  BY SameOwner DEF EndedIsAlive, OnlyCall

(* A message is taken.                                                     *)
LEMMA AskingPulled ==
    ASSUME TypeInv, AskingIsAlive, NEW type, Read(type), NEW d, OnlyCall(d),
           d \in Calls /\ Asking(d) => Asking(d)' \/ (type = "CONNECT_CONF" /\ About(1) = d)
    PROVE  AskingIsAlive'
  <1>1. /\ 1 \in Places /\ Is(1, type)
        /\ \A i \in Places' : /\ i + 1 \in Places /\ i + 1 > 1 /\ i \in Nat
                              /\ \A t : Is(i, t)' <=> Is(i + 1, t)
                              /\ About(i)' = About(i + 1)
    BY PulledFrom
  <1>2. \A i \in Places' : (Confirms(i)' <=> Confirms(i + 1))
    BY <1>1 DEF Confirms
  <1>3. ASSUME NEW c \in Calls, NEW i \in Places', Confirms(i)', About(i)' = c
        PROVE  Asking(c)'
    <2>1. i + 1 \in Places /\ Confirms(i + 1) /\ About(i + 1) = c /\ i + 1 # 1
      BY <1>1, <1>2, <1>3
    <2>2. Asking(c)
      BY <2>1 DEF AskingIsAlive
    <2>3. ~(type = "CONNECT_CONF" /\ About(1) = c)
      BY <1>1, <2>1 DEF AskingIsAlive, Confirms
    <2>4. CASE c = d
      BY <2>2, <2>3, <2>4
    <2>5. CASE c # d
      BY <2>2, <2>5, SameOwner DEF OnlyCall
    <2> QED
      BY <2>4, <2>5
  <1>4. ASSUME NEW i \in Places', NEW j \in Places', Confirms(i)', Confirms(j)',
               About(i)' = About(j)'
        PROVE  i = j
    <2>1. i + 1 = j + 1 /\ i \in Nat /\ j \in Nat
      BY <1>1, <1>2, <1>4 DEF AskingIsAlive
    <2> QED
      BY <2>1
  <1> QED
    BY <1>3, <1>4 DEF AskingIsAlive

(* A message is put: a confirmation only for a call that has none.         *)
LEMMA AskingPut ==
    ASSUME TypeInv, AskingIsAlive, NEW m, Puts(m), NEW d, OnlyCall(d),
           d \in Calls /\ Asking(d) => Asking(d)',
           m.type = "CONNECT_CONF" => d \in Calls /\ m.call = d /\ ~Asking(d) /\ Asking(d)'
    PROVE  AskingIsAlive'
  <1>1. PICK last \in Places' :
             /\ inbox'[last] = m
             /\ \A i \in Places :
                  /\ i \in Places'
                  /\ \A t : Is(i, t)' <=> Is(i, t)
                  /\ About(i)' = About(i)
             /\ \A i \in Places' : i \in Places \/ i = last
    BY PutTo
  <1>2. /\ About(last)' = m.call /\ (Confirms(last)' <=> m.type = "CONNECT_CONF")
        /\ \A i \in Places : Confirms(i)' <=> Confirms(i)
    BY <1>1 DEF About, Is, Confirms
  <1>3. \A c \in Calls : Asking(c) => Asking(c)'
    BY SameOwner DEF OnlyCall
  <1>4. \A c \in Calls : \A i \in Places' : Confirms(i)' /\ About(i)' = c => Asking(c)'
    BY <1>1, <1>2, <1>3 DEF AskingIsAlive
  <1>5. \A i, j \in Places' : Confirms(i)' /\ Confirms(j)' /\ About(i)' = About(j)' => i = j
    <2>1. \A i \in Places : Confirms(i) /\ m.type = "CONNECT_CONF" => About(i) # m.call
      BY DEF AskingIsAlive
    <2> QED
      BY <1>1, <1>2, <2>1 DEF AskingIsAlive
  <1> QED
    BY <1>4, <1>5 DEF AskingIsAlive

LEMMA AllSame ==
    ASSUME UNCHANGED <<plci_state, deleted, scripts, started, request_pc>>
    PROVE  OnlyCall(None) /\ None \notin Calls
  BY PlciNames DEF OnlyCall, SameCall

LEMMA NoneAsks ==
    ASSUME UNCHANGED inbox
    PROVE  \A i \in Places' : Confirms(i)' => i \in Places /\ Confirms(i) /\ About(i)' = About(i)
  BY SamePlaces

(* The message thread.                                                     *)
LEMMA AliveConnectInd ==
    ASSUME TypeInv, RingsOnce, AliveInv, connect_ind
    PROVE  AliveInv'
  <1>1. Read("CONNECT_IND")
    BY DEF connect_ind
  <1>2. PICK d \in Calls : About(1) = d /\ Message.call = d
    BY <1>1, Received
  <1>3. /\ plci_state' = [plci_state EXCEPT ![d] = "P2"]
        /\ UNCHANGED <<scripts, started, request_pc, deleted, corrupt, capi_pc, handled>>
    BY <1>1, <1>2 DEF connect_ind, Read
  <1>4. Ringing(d)
    BY <1>1, <1>2, CallsPulled DEF Ringing
  <1>5. NoCallYet(d) /\ OwnedOnce(d)
    BY <1>4 DEF RingsOnce, AliveInv, OneOwner
  <1>6. ~deleted[d] /\ scripts[d] = 0 /\ request_pc[d] = "none"
    BY <1>5 DEF NoCallYet, OwnedOnce
  <1>7. /\ plci_state'[d] = "P2" /\ OnlyCall(d)
        /\ ~Queued(d) /\ ~Asking(d) /\ ~Ended(d)
    <2>1. plci_state \in [Calls -> CallStates]
      BY DEF TypeInv, CallType
    <2> QED
      BY <1>3, <1>5, <2>1 DEF OnlyCall, SameCall, NoCallYet, Queued, Asking, Ended
  <1>8. OwnedOnce(d)' /\ Queued(d)'
    <2>1. scripts'[d] = 0 /\ started'[d] \in Nat /\ ~deleted'[d] /\ request_pc'[d] = "none"
      BY <1>3, <1>6 DEF TypeInv, CallType
    <2> QED
      BY <1>7, <2>1 DEF OwnedOnce, Queued
  <1>9. QueuedIsAlive'
    BY <1>2, <1>7, <1>8, ConnectIndCalls, QueuedKept, QueuedPushed DEF AliveInv
  <1>10. AskingIsAlive' /\ EndedIsAlive' /\ OneOwner'
    BY <1>1, <1>3, <1>7, <1>8, AskingPulled, EndedKept, OwnerKept DEF AliveInv
  <1> QED
    BY <1>3, <1>9, <1>10 DEF AliveInv

LEMMA AliveInfoInd ==
    ASSUME TypeInv, OrderInv, DigitsArrive, DialsOnce, AliveInv, info_ind_called_party_nr
    PROVE  AliveInv'
  <1>1. /\ Read("INFO_IND")
        /\ UNCHANGED <<plci_state, deleted, scripts, started, request_pc, capi_pc, handled>>
    BY InfoReaches DEF Read, info_ind_called_party_nr, Unknown
  <1>2. OnlyCall(None) /\ None \notin Calls
    BY <1>1, AllSame
  <1>3. OneOwner' /\ AskingIsAlive' /\ EndedIsAlive'
    BY <1>1, <1>2, OwnerKept, AskingPulled, EndedKept DEF AliveInv
  <1>4. CASE UNCHANGED <<waiting, corrupt>>
    BY <1>2, <1>3, <1>4, QueuedKept DEF AliveInv
  <1>5. ASSUME NEW d \in Calls, About(1) = d, plci_state[d] = "P2", corrupt' = deleted[d],
               callWaiting(d) \/ UNCHANGED waiting
        PROVE  AliveInv'
    <2>1. 1 \in Places /\ Is(1, "INFO_IND") /\ Dialled(1, d)
      BY <1>1, <1>5, Received, CallsPulled
    <2>2. Unserved(d)
      BY <2>1 DEF DialsOnce, Undialled, DialledOnce
    <2>3. ~deleted[d] /\ scripts[d] = 0
      BY <1>5, <2>2 DEF AliveInv, OneOwner, OwnedOnce, Unserved, TypeInv, CallType
    <2>4. Queued(d)'
      BY <1>1, <1>5, <2>3 DEF Queued
    <2>5. OnlyCall(d)
      BY <1>2 DEF OnlyCall
    <2>6. QueuedIsAlive'
      BY <1>2, <1>5, <2>4, <2>5, QueuedKept, QueuedPushed DEF AliveInv
    <2> QED
      BY <1>3, <1>5, <2>3, <2>6 DEF AliveInv
  <1> QED
    BY <1>4, <1>5, InfoReaches

LEMMA AliveConnectConf ==
    ASSUME TypeInv, NumbersInOrder, AliveInv, connect_conf
    PROVE  AliveInv'
  <1>1. Read("CONNECT_CONF")
    BY DEF connect_conf
  <1>2. PICK d \in Calls : About(1) = d
    BY <1>1, Received
  <1>3. 1 \in Places /\ Confirms(1) /\ requested[Number(1)] = d /\ Message.number = Number(1)
    BY <1>1, <1>2, Received DEF NumbersInOrder, Confirms
  <1>4. Asking(d) /\ d # None
    BY <1>2, <1>3, PlciNames DEF AliveInv, AskingIsAlive
  <1>5. /\ plci_state' = [plci_state EXCEPT ![d] = "P1"] \/ UNCHANGED plci_state
        /\ UNCHANGED <<scripts, started, request_pc, deleted, waiting, capi_pc, handled>>
        /\ corrupt' = deleted[d]
    BY <1>1, <1>3, <1>4 DEF connect_conf, Read, Use
  <1>6. /\ plci_state'[d] \in {"P1", "P01"} /\ OnlyCall(d)
        /\ plci_state[d] = "P01" /\ ~deleted[d] /\ request_pc[d] = "none"
    <2>1. plci_state \in [Calls -> CallStates]
      BY DEF TypeInv, CallType
    <2> QED
      BY <1>4, <1>5, <2>1 DEF Asking, OnlyCall, SameCall
  <1>7. OwnedOnce(d)'
    <2>1. OwnedOnce(d)
      BY DEF AliveInv, OneOwner
    <2> QED
      BY <1>5, <1>6, <2>1 DEF OwnedOnce
  <1>8. ~Queued(d) /\ ~Ended(d)
    BY <1>6 DEF Queued, Ended
  <1>9. OneOwner' /\ QueuedIsAlive' /\ AskingIsAlive' /\ EndedIsAlive'
    BY <1>1, <1>2, <1>5, <1>6, <1>7, <1>8, OwnerKept, QueuedKept, AskingPulled, EndedKept
       DEF AliveInv
  <1> QED
    BY <1>5, <1>6, <1>9 DEF AliveInv

LEMMA AliveDisconnectInd ==
    ASSUME TypeInv, AliveInv, disconnect_ind
    PROVE  AliveInv'
  <1>1. Read("DISCONNECT_IND")
    BY DEF disconnect_ind
  <1>2. capi_pc = "run" /\ Message.plci \in Plcis \cup {NoPlci}
    BY <1>1, Received
  <1>3. UNCHANGED <<scripts, started, request_pc, deleted, waiting>>
    BY <1>1 DEF disconnect_ind, Read, Unknown
  <1>4. CASE UNCHANGED <<plci_state, corrupt, capi_pc, handled>>
    <2>1. OnlyCall(None) /\ None \notin Calls
      BY <1>3, <1>4, AllSame
    <2> QED
      BY <1>1, <1>3, <1>4, <2>1, OwnerKept, QueuedKept, AskingPulled, EndedKept DEF AliveInv
  <1>5. ASSUME NEW d, Ends(d, Message.plci), d = connections[Message.plci],
               plci_state' = [plci_state EXCEPT ![d] = "P0"], corrupt' = deleted[d],
               \/ capi_pc' = "unregisterConnection" /\ handled' = d
               \/ UNCHANGED <<capi_pc, handled>>
        PROVE  AliveInv'
    <2>1. d \in Calls
      BY <1>2, <1>5 DEF TypeInv, CapiType, MaybeCalls, Ends
    <2>2. OwnedOnce(d)
      BY <2>1 DEF AliveInv, OneOwner
    <2>3. plci_state[d] \in {"P1", "P2", "P4", "P5"}
      BY <1>5 DEF Ends
    <2>4. ~deleted[d] /\ request_pc[d] = "none"
      BY <2>2, <2>3 DEF OwnedOnce
    <2>5. plci_state'[d] = "P0" /\ OnlyCall(d)
      <3>1. plci_state \in [Calls -> CallStates]
        BY DEF TypeInv, CallType
      <3> QED
        BY <1>3, <1>5, <2>1, <3>1 DEF OnlyCall, SameCall
    <2>6. OwnedOnce(d)' /\ Ended(d)'
      BY <1>3, <2>2, <2>4, <2>5 DEF OwnedOnce, Ended
    <2>7. ~Asking(d) /\ (Queued(d) => Queued(d)')
      BY <1>3, <2>3, <2>5 DEF Asking, Queued
    <2>8. OneOwner' /\ QueuedIsAlive' /\ AskingIsAlive'
      BY <1>1, <1>3, <2>5, <2>6, <2>7, OwnerKept, QueuedKept, AskingPulled DEF AliveInv
    <2>9. EndedIsAlive'
      BY <1>2, <1>5, <2>6 DEF EndedIsAlive
    <2> QED
      BY <1>5, <2>4, <2>8, <2>9 DEF AliveInv
  <1> QED
    BY <1>4, <1>5 DEF disconnect_ind, Unknown, Use

LEMMA AliveUnregister ==
    ASSUME TypeInv, AliveInv, unregisterConnection
    PROVE  AliveInv'
  <1>1. /\ UNCHANGED <<plci_state, deleted, scripts, started, request_pc, waiting, inbox>>
        /\ capi_pc = "unregisterConnection" /\ capi_pc' = "run" /\ corrupt' = deleted[handled]
    BY DEF unregisterConnection, Use
  <1>2. OnlyCall(None) /\ None \notin Calls
    BY <1>1, AllSame
  <1>3. handled \in Calls
    BY <1>1 DEF TypeInv, CapiType
  <1>4. ~deleted[handled]
    BY <1>1, <1>3 DEF AliveInv, EndedIsAlive, Ended
  <1>5. OneOwner' /\ QueuedIsAlive' /\ AskingIsAlive'
    BY <1>1, <1>2, OwnerKept, QueuedKept, AskingKept, NoneAsks DEF AliveInv
  <1>6. EndedIsAlive'
    BY <1>1 DEF EndedIsAlive
  <1>7. corrupt' = FALSE
    BY <1>1, <1>3, <1>4 DEF TypeInv, CallType
  <1> QED
    BY <1>5, <1>6, <1>7 DEF AliveInv

(* The main loop and the scripts.                                          *)
LEMMA AliveMainLoop ==
    ASSUME TypeInv, OneScript, AliveInv, mainLoop
    PROVE  AliveInv'
  <1>1. /\ waiting \in Seq(Calls) /\ waiting # <<>> /\ waiting' = Tail(waiting)
        /\ scripts \in [Calls -> Nat] /\ started \in [Calls -> Nat]
    BY DEF TypeInv, WaitingType, CallType, mainLoop
  <1>2. PICK d \in Calls : d = waiting[1] /\ Head(waiting) = d
    BY <1>1
  <1>3. /\ 1 \in DOMAIN waiting
        /\ \A i \in DOMAIN waiting' :
             /\ i + 1 \in DOMAIN waiting /\ waiting'[i] = waiting[i + 1] /\ i + 1 # 1
    BY <1>1
  <1>4. /\ UNCHANGED <<plci_state, deleted, request_pc, inbox, capi_pc, handled>>
        /\ scripts' = [scripts EXCEPT ![d] = @ + 1]
        /\ started' = [started EXCEPT ![d] = @ + 1]
        /\ corrupt' = deleted[d]
    BY <1>2 DEF mainLoop, Use
  <1>5. Queued(d)
    BY <1>2, <1>3 DEF AliveInv, QueuedIsAlive
  <1>6. scripts[d] = 0 /\ ~deleted[d] /\ plci_state[d] \in {"P2", "P0"}
    BY <1>5 DEF Queued
  <1>7. scripts'[d] = 1 /\ started'[d] >= 1 /\ OnlyCall(d)
    BY <1>1, <1>4, <1>6 DEF OnlyCall, SameCall
  <1>8. OwnedOnce(d) /\ request_pc[d] = "none"
    BY <1>6 DEF AliveInv, OneOwner, OwnedOnce
  <1>9. OwnedOnce(d)'
    BY <1>4, <1>6, <1>7, <1>8 DEF OwnedOnce
  <1>10. (Asking(d) => Asking(d)') /\ (Ended(d) => Ended(d)')
    BY <1>4 DEF Asking, Ended
  <1>11. OneOwner' /\ AskingIsAlive' /\ EndedIsAlive'
    BY <1>4, <1>7, <1>9, <1>10, OwnerKept, AskingKept, NoneAsks, EndedKept DEF AliveInv
  <1>12. QueuedIsAlive'
    <2>1. \A i \in DOMAIN waiting' : waiting'[i] # d
      BY <1>2, <1>3 DEF OneScript
    <2>2. \A c \in Calls : c # d /\ Queued(c) => Queued(c)'
      BY <1>7, SameOwner DEF OnlyCall
    <2> QED
      BY <1>3, <2>1, <2>2 DEF AliveInv, QueuedIsAlive
  <1> QED
    BY <1>4, <1>6, <1>11, <1>12 DEF AliveInv

LEMMA AliveScript ==
    ASSUME TypeInv, AliveInv, ~config.overlap, NEW d \in Calls, ScriptSteps(d)
    PROVE  AliveInv'
  <1>1. /\ Holds(d) /\ UNCHANGED <<started, request_pc, waiting, inbox, capi_pc, handled>>
        /\ corrupt' = deleted[d]
    BY DEF ScriptSteps, ScriptEnds, connectWaiting, disconnectCall,
           capisuitemodule_destruct_connection, Use
  <1>2. OwnedOnce(d)
    BY DEF AliveInv, OneOwner
  <1>3. scripts[d] > 0 /\ scripts[d] = 1 /\ ~deleted[d]
    BY <1>1, <1>2 DEF OwnedOnce, Holds
  <1>4. ~Queued(d)
    BY <1>3 DEF Queued
  <1>5. ASSUME OnlyCall(d), OwnedOnce(d)', ~Asking(d), ~Ended(d) \/ capi_pc = "run"
        PROVE  AliveInv'
    <2>1. OneOwner' /\ QueuedIsAlive' /\ AskingIsAlive'
      BY <1>1, <1>4, <1>5, OwnerKept, QueuedKept, AskingKept, NoneAsks DEF AliveInv
    <2>2. EndedIsAlive'
      <3>1. CASE ~Ended(d)
        BY <1>1, <1>5, <3>1, EndedKept DEF AliveInv
      <3>2. CASE capi_pc = "run"
        BY <1>1, <3>2 DEF EndedIsAlive
      <3> QED
        BY <1>5, <3>1, <3>2
    <2> QED
      BY <1>1, <1>3, <2>1, <2>2 DEF AliveInv
  <1>6. /\ plci_state \in [Calls -> CallStates] /\ scripts \in [Calls -> Nat]
        /\ deleted \in [Calls -> BOOLEAN]
    BY DEF TypeInv, CallType
  <1>7. ASSUME NEW s, s \in {"P4", "P5"}, plci_state' = [plci_state EXCEPT ![d] = s],
               plci_state[d] \in {"P1", "P2", "P4"}, UNCHANGED <<scripts, deleted>>
        PROVE  AliveInv'
    <2>1. OnlyCall(d) /\ plci_state'[d] = s
      BY <1>1, <1>6, <1>7 DEF OnlyCall, SameCall
    <2>2. OwnedOnce(d)' /\ ~Asking(d) /\ ~Ended(d)
      BY <1>1, <1>2, <1>3, <1>7, <2>1 DEF OwnedOnce, Asking, Ended
    <2> QED
      BY <1>5, <2>1, <2>2
  <1>8. CASE connectWaiting(d)
    BY <1>7, <1>8 DEF connectWaiting
  <1>9. CASE disconnectCall(d)
    BY <1>7, <1>9 DEF disconnectCall
  <1>10. CASE capisuitemodule_destruct_connection(d)
    <2>1. /\ plci_state[d] = "P0" /\ capi_pc = "run" /\ UNCHANGED plci_state
          /\ scripts' = [scripts EXCEPT ![d] = @ - 1]
          /\ deleted' = [deleted EXCEPT ![d] = TRUE]
      BY <1>3, <1>10 DEF capisuitemodule_destruct_connection
    <2>2. OnlyCall(d) /\ scripts'[d] = 0
      BY <1>1, <1>3, <1>6, <2>1 DEF OnlyCall, SameCall
    <2>3. OwnedOnce(d)' /\ ~Asking(d)
      BY <1>1, <1>2, <2>1, <2>2 DEF OwnedOnce, Asking
    <2> QED
      BY <1>5, <2>1, <2>2, <2>3
  <1> QED
    BY <1>8, <1>9, <1>10 DEF ScriptSteps, ScriptEnds

(* A call of ours.                                                         *)
LEMMA AliveRequest ==
    ASSUME TypeInv, AliveInv, NEW d \in Calls, connect_req(d) \/ connect_req_key(d)
    PROVE  AliveInv'
  <1>1. /\ UNCHANGED <<deleted, scripts, started, waiting, inbox, capi_pc, handled, corrupt>>
        /\ plci_state \in [Calls -> CallStates] /\ request_pc \in [Calls -> RequestPCs]
        /\ scripts \in [Calls -> Nat]
    BY DEF connect_req, connect_req_key, TypeInv, CallType
  <1>2. OwnedOnce(d)
    BY DEF AliveInv, OneOwner
  <1>3. /\ plci_state'[d] = "P01" /\ ~deleted[d] /\ scripts[d] = 0
        /\ OnlyCall(d) /\ ~Queued(d) /\ ~Asking(d) /\ ~Ended(d)
    <2>1. CASE connect_req(d)
      <3>1. plci_state[d] = "none" /\ plci_state' = [plci_state EXCEPT ![d] = "P01"]
            /\ request_pc' = [request_pc EXCEPT ![d] = "key"]
        BY <2>1 DEF connect_req, Fresh
      <3>2. ~deleted[d] /\ scripts[d] = 0
        BY <1>2, <3>1 DEF OwnedOnce
      <3> QED
        BY <1>1, <3>1, <3>2 DEF OnlyCall, SameCall, Queued, Asking, Ended
    <2>2. CASE connect_req_key(d)
      <3>1. request_pc[d] = "key" /\ UNCHANGED plci_state
            /\ request_pc' = [request_pc EXCEPT ![d] = "put"]
        BY <2>2 DEF connect_req_key
      <3>2. plci_state[d] = "P01" /\ ~deleted[d] /\ scripts[d] = 0
        BY <1>2, <3>1 DEF OwnedOnce
      <3> QED
        BY <1>1, <3>1, <3>2 DEF OnlyCall, SameCall, Queued, Asking, Ended
    <2> QED
      BY <2>1, <2>2
  <1>4. OwnedOnce(d)'
    BY <1>1, <1>3 DEF OwnedOnce
  <1>5. OneOwner' /\ QueuedIsAlive' /\ AskingIsAlive' /\ EndedIsAlive'
    BY <1>1, <1>3, <1>4, OwnerKept, QueuedKept, AskingKept, NoneAsks, EndedKept DEF AliveInv
  <1> QED
    BY <1>1, <1>5 DEF AliveInv

LEMMA AlivePut ==
    ASSUME TypeInv, AliveInv, NEW d \in Calls, connect_req_put(d)
    PROVE  AliveInv'
  <1>1. /\ UNCHANGED <<plci_state, started, waiting, capi_pc, handled, corrupt>>
        /\ request_pc' = [request_pc EXCEPT ![d] = "none"] /\ request_pc[d] = "put"
        /\ request_pc \in [Calls -> RequestPCs]
        /\ scripts \in [Calls -> Nat] /\ deleted \in [Calls -> BOOLEAN]
    BY DEF connect_req_put, TypeInv, CallType
  <1>2. OwnedOnce(d)
    BY DEF AliveInv, OneOwner
  <1>3. plci_state[d] = "P01" /\ ~deleted[d] /\ scripts[d] = 0
    BY <1>1, <1>2 DEF OwnedOnce
  <1>4. ~Queued(d) /\ ~Asking(d) /\ ~Ended(d)
    BY <1>1, <1>3 DEF Queued, Asking, Ended
  <1>5. CASE UNCHANGED <<inbox, scripts>> /\ deleted' = [deleted EXCEPT ![d] = TRUE]
    <2>1. OnlyCall(d) /\ OwnedOnce(d)'
      BY <1>1, <1>3, <1>5 DEF OnlyCall, SameCall, OwnedOnce
    <2>2. OneOwner' /\ QueuedIsAlive' /\ AskingIsAlive' /\ EndedIsAlive'
      BY <1>1, <1>4, <1>5, <2>1, OwnerKept, QueuedKept, AskingKept, NoneAsks, EndedKept
         DEF AliveInv
    <2> QED
      BY <1>1, <2>2 DEF AliveInv
  <1>6. ASSUME NEW p, Confirm(d, p), scripts' = [scripts EXCEPT ![d] = @ + 1], UNCHANGED deleted
        PROVE  AliveInv'
    <2>1. OnlyCall(d) /\ scripts'[d] = 1 /\ request_pc'[d] = "none"
      BY <1>1, <1>3, <1>6 DEF OnlyCall, SameCall
    <2>2. OwnedOnce(d)' /\ Asking(d)'
      BY <1>1, <1>3, <1>6, <2>1 DEF OwnedOnce, Asking
    <2>3. PICK m : Puts(m) /\ m.call = d
      BY <1>6, ConfirmPuts
    <2>4. OneOwner' /\ QueuedIsAlive' /\ AskingIsAlive' /\ EndedIsAlive'
      BY <1>1, <1>4, <2>1, <2>2, <2>3, OwnerKept, QueuedKept, AskingPut, EndedKept DEF AliveInv
    <2> QED
      BY <1>1, <2>4 DEF AliveInv
  <1> QED
    BY <1>5, <1>6, PutRequest

(* The driver and other requests.                                          *)
LEMMA AliveElse ==
    ASSUME TypeInv, AliveInv, OtherRequest \/ Driver \/ UNCHANGED vars
    PROVE  AliveInv'
  <1>1. UNCHANGED <<plci_state, deleted, scripts, started, request_pc, waiting, capi_pc, handled,
                    corrupt>>
    BY DEF OtherRequest, Driver, Dial, Clear, Ring, vars
  <1>2. OnlyCall(None) /\ None \notin Calls
    BY <1>1, AllSame
  <1>3. AskingIsAlive'
    <2>1. CASE OtherRequest \/ UNCHANGED vars
      <3>1. UNCHANGED inbox
        BY <2>1 DEF OtherRequest, vars
      <3> QED
        BY <1>2, <3>1, AskingKept, NoneAsks DEF AliveInv
    <2>2. CASE Driver
      <3>1. PICK type, c, p, digits : Tell(type, c, p, digits) /\ type # "CONNECT_CONF"
        BY <2>2 DEF Driver, Dial, Clear, Ring
      <3>2. PICK m : Puts(m) /\ m.type # "CONNECT_CONF"
        BY <3>1, TellPuts
      <3> QED
        BY <1>2, <3>2, AskingPut DEF AliveInv
    <2> QED
      BY <2>1, <2>2
  <1>4. OneOwner' /\ QueuedIsAlive' /\ EndedIsAlive'
    BY <1>1, <1>2, OwnerKept, QueuedKept, EndedKept DEF AliveInv
  <1> QED
    BY <1>1, <1>3, <1>4 DEF AliveInv

LEMMA AliveNext ==
    ASSUME TypeInv, OrderInv, NumbersInOrder, DialInv, DialsOnce, OneScript, AliveInv,
           ~config.overlap, [Next]_vars
    PROVE  AliveInv'
  <1>1. CASE CapiSteps
    BY <1>1, AliveConnectInd, AliveInfoInd, AliveConnectConf, AliveDisconnectInd,
       AliveUnregister DEF CapiSteps, DialInv
  <1>2. CASE mainLoop
    BY <1>2, AliveMainLoop
  <1>3. CASE \E c \in Calls : ScriptSteps(c) \/ CallOut(c)
    BY <1>3, AliveScript, AliveRequest, AlivePut DEF CallOut
  <1> QED
    BY <1>1, <1>2, <1>3, AliveElse DEF Next

LEMMA OwnerNext ==
    ASSUME TypeInv, OrderInv, ReachInv, DialInv, ScriptInv, OwnerInv, [Next]_vars
    PROVE  OwnerInv'
  <1>1. UNCHANGED config
    BY ConfigStays
  <1>2. CASE ~config.overlap /\ WholeNumbers
    BY <1>2, AliveNext DEF OwnerInv, ReachInv, ScriptInv
  <1>3. CASE ~(~config.overlap /\ WholeNumbers)
    BY <1>1, <1>3 DEF OwnerInv, WholeNumbers
  <1> QED
    BY <1>2, <1>3

LEMMA OwnerInit == Init => OwnerInv
  BY DEF Init, OwnerInv, AliveInv, OneOwner, OwnedOnce, QueuedIsAlive, AskingIsAlive,
         EndedIsAlive, Places

(* All of it holds of every state, with every part resting on those before.*)
LEMMA DispatchAlways == Spec => []DispatchInv
  <1>1. DispatchInv /\ [Next]_vars => DispatchInv'
    BY TypeNext, OrderNext, ReachNext, DialNext, ScriptNext, OwnerNext DEF DispatchInv
  <1>2. Init => DispatchInv
    BY TypeInit, OrderInit, ReachInit, DialInit, OwnerInit DEF DispatchInv
  <1> QED
    BY <1>1, <1>2, PTL DEF Spec

(* No thread uses a deleted Connection, in whatever order the message      *)
(* thread, the main loop and the scripts run between each other's methods: *)
(* the Connection of a call has one owner at a time, and the script, which *)
(* deletes it, has it only when the queues and the handler have not.       *)
THEOREM NobodyUsesDeleted == Spec => []NoUseAfterDelete
  <1>1. DispatchInv => NoUseAfterDelete
    BY DEF DispatchInv, OwnerInv, AliveInv, NoUseAfterDelete
  <1> QED
    BY DispatchAlways, <1>1, PTL
=============================================================================
