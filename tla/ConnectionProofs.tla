-------------------------- MODULE ConnectionProofs --------------------------
(* What holds of a Connection for every set of services, every kind of call*)
(* and every interleaving of its two threads.                              *)
EXTENDS Connection, QueueLemmas, TLAPS

(* The argument of a method has the method's type: without it service and  *)
(* closing would not keep theirs.                                          *)
ArgumentOK ==
    /\ app_pc \in {"connectWaiting", "changeProtocol"} => arg \in Services
    /\ app_pc = "disconnect.logical" => arg \in LogicalModes

(* The types in three parts: the two queues are kept apart from the rest,  *)
(* so that a step has to speak of a queue only if it touches it.           *)
InboxOK  == inbox \in Seq(ToApplication)
OutboxOK == outbox \in Seq(ToDriver)

PlainOK ==
    /\ line \in LineStates
    /\ link \in LinkStates
    /\ our_call \in BOOLEAN
    /\ plci_state \in PlciStates
    /\ ncci_state \in NcciStates
    /\ keepPhysicalConnection \in BOOLEAN
    /\ service \in Services
    /\ registered \in BOOLEAN
    /\ call_if \in BOOLEAN
    /\ heard \in Callbacks
    /\ capi_pc \in CapiPCs
    /\ our_disconnect_req \in BOOLEAN
    /\ app_pc \in AppPCs
    /\ arg \in Services \cup Modes \cup {"none"}
    /\ closing \in LogicalModes \cup {"none"}

TypeInv == InboxOK /\ OutboxOK /\ PlainOK /\ ArgumentOK

USE DEF driverVars, stateVars, userVars, capiVars, appVars

LEMMA TypeImplies == TypeInv => ConnectionTypeOK
  BY DEF TypeInv, InboxOK, OutboxOK, PlainOK, ConnectionTypeOK, DriverTypeOK

(* A queue nobody touches stays one of messages.                           *)
LEMMA Kept ==
    /\ InboxOK /\ inbox' = inbox => InboxOK'
    /\ OutboxOK /\ outbox' = outbox => OutboxOK'
  BY DEF InboxOK, OutboxOK

(* A message a handler accepts has a handler.                              *)
LEMMA HandlerType ==
    ASSUME NEW m \in ToApplication, Accepts(m)
    PROVE  Handler[m] \in CapiPCs
  <1>1. m \in {"CONNECT_ACTIVE_IND", "CONNECT_B3_IND", "CONNECT_B3_ACTIVE_IND",
               "DISCONNECT_B3_IND", "DISCONNECT_IND", "CONNECT_CONF",
               "CONNECT_B3_CONF", "CONNECT_B3_CONF_REFUSED", "SELECT_B_PROTOCOL_CONF"}
    BY DEF Accepts, AcceptsInd, AcceptsConf, ToApplication, Indications, Confirmations
  <1> QED
    BY <1>1 DEF Handler, CapiPCs

LEMMA TypeInit == Init => TypeInv
  <1> SUFFICES ASSUME Init PROVE TypeInv
    OBVIOUS
  <1>1. outbox \in Seq(ToDriver) /\ inbox \in Seq(ToApplication)
    <2>1. <<>> \in Seq(ToDriver) /\ <<>> \in Seq(ToApplication) /\ "CONNECT_REQ" \in ToDriver
      BY DEF ToDriver
    <2>2. <<"CONNECT_REQ">> \in Seq(ToDriver)
      BY <2>1
    <2> QED
      BY <2>1, <2>2 DEF Init, InitIncoming, InitOutgoing
  <1>2. our_call \in BOOLEAN /\ plci_state \in PlciStates /\ line \in LineStates
    BY DEF Init, InitIncoming, InitOutgoing, PlciStates, LineStates
  <1> QED
    BY <1>1, <1>2 DEF Init, TypeInv, InboxOK, OutboxOK, PlainOK, ArgumentOK,
         Modes, LogicalModes, Callbacks, LinkStates, NcciStates, CapiPCs, AppPCs

LEMMA TypeRead == ASSUME TypeInv, readMessage PROVE TypeInv'
  <1>1. Head(inbox) \in ToApplication /\ Tail(inbox) \in Seq(ToApplication)
    <2>1. inbox \in Seq(ToApplication) /\ inbox # <<>>
      BY DEF TypeInv, InboxOK, readMessage
    <2> QED
      BY <2>1
  <1>2. capi_pc' \in CapiPCs
    BY <1>1, HandlerType DEF readMessage, CapiPCs
  <1>3. InboxOK' /\ OutboxOK'
    BY <1>1, Kept DEF TypeInv, InboxOK, readMessage
  <1> QED
    BY <1>2, <1>3 DEF TypeInv, PlainOK, ArgumentOK, readMessage

(* The values the steps assign are of the sets they should be of.          *)
LEMMA Names ==
    /\ {"P0", "P1", "P4", "P5", "PACT"} \subseteq PlciStates
    /\ {"N0", "N01", "N2", "N4", "N5", "NACT"} \subseteq NcciStates
    /\ {"run", "connect_active_ind.active", "disconnect_b3_ind.callback",
         "disconnect_b3_ind.resp", "disconnect_b3_ind.rest",
         "disconnect_ind.callback"} \subseteq CapiPCs
    /\ {"script", "connectWaiting", "rejectWaiting", "acceptWaiting", "changeProtocol",
         "disconnect.logical", "disconnect.keep", "disconnect.physical",
         "~Connection", "deleted"} \subseteq AppPCs
    /\ {"nothing", "connected", "logically down", "physically down"} \subseteq Callbacks
  BY DEF PlciStates, NcciStates, CapiPCs, AppPCs, Callbacks

LEMMA MessageNames ==
    /\ "CONNECT_RESP" \in ToDriver /\ "CONNECT_RESP_REJECT" \in ToDriver
    /\ "ALERT_REQ" \in ToDriver /\ "SELECT_B_PROTOCOL_REQ" \in ToDriver
    /\ "CONNECT_B3_REQ" \in ToDriver /\ "CONNECT_B3_RESP" \in ToDriver
    /\ "DISCONNECT_B3_REQ" \in ToDriver /\ "DISCONNECT_B3_RESP" \in ToDriver
    /\ "DISCONNECT_REQ" \in ToDriver /\ "DISCONNECT_RESP" \in ToDriver
  BY DEF ToDriver

(* A message put keeps the queue to the driver one of messages.            *)
LEMMA PutType ==
    ASSUME OutboxOK, NEW m \in ToDriver, TryPut(m)
    PROVE  OutboxOK'
  BY DEF OutboxOK, TryPut, Put, PutFails

LEMMA TypeHandlers == ASSUME TypeInv, HandlerSteps PROVE TypeInv'
  <1> USE DEF TypeInv, PlainOK, ArgumentOK, InHandler, Leave
  <1>1. CASE connect_active_ind
    <2>1. OutboxOK'
      <3>1. outbox' = outbox \/ TryPut("CONNECT_B3_REQ")
        BY <1>1 DEF connect_active_ind, TryPut, PutFails, Put
      <3> QED
        BY <3>1, PutType, Kept, MessageNames
    <2>2. plci_state' \in PlciStates /\ ncci_state' \in NcciStates /\ capi_pc' \in CapiPCs
      BY <1>1, Kept, Names DEF connect_active_ind
    <2>3. UNCHANGED <<inbox, line, link, our_call, keepPhysicalConnection, service,
                      userVars, our_disconnect_req, appVars>>
      BY <1>1 DEF connect_active_ind
    <2> QED
      BY <2>1, <2>2, <2>3, Kept
  <1>2. CASE connect_b3_ind
    <2>1. OutboxOK'
      BY <1>2, PutType, MessageNames DEF connect_b3_ind, TryPut, PutFails, Put
    <2> QED
      BY <1>2, <2>1, Kept, Names DEF connect_b3_ind
  <1>3. CASE connect_b3_active_ind
    BY <1>3, Kept, Names DEF connect_b3_active_ind, Callback
  <1>4. CASE disconnect_b3_ind \/ disconnect_b3_ind_callback
    BY <1>4, Kept, Names DEF disconnect_b3_ind, disconnect_b3_ind_callback, Callback
  <1>5. CASE disconnect_b3_ind_resp \/ disconnect_b3_ind_rest
    <2>1. OutboxOK'
      <3>1. \E m \in {"DISCONNECT_B3_RESP", "DISCONNECT_REQ"} : outbox' = outbox \/ TryPut(m)
        BY <1>5 DEF disconnect_b3_ind_resp, disconnect_b3_ind_rest
      <3> QED
        BY <3>1, PutType, Kept, MessageNames
    <2>2. /\ plci_state' \in PlciStates /\ ncci_state' \in NcciStates /\ capi_pc' \in CapiPCs
          /\ keepPhysicalConnection' \in BOOLEAN
      BY <1>5, Kept, Names DEF disconnect_b3_ind_resp, disconnect_b3_ind_rest
    <2>3. UNCHANGED <<inbox, line, link, our_call, service, userVars, our_disconnect_req, appVars>>
      BY <1>5 DEF disconnect_b3_ind_resp, disconnect_b3_ind_rest
    <2> QED
      BY <2>1, <2>2, <2>3, Kept
  <1>6. CASE disconnect_ind
    <2>1. OutboxOK'
      BY <1>6, PutType, MessageNames DEF disconnect_ind, TryPut, PutFails, Put
    <2>2. capi_pc' \in CapiPCs /\ plci_state' \in PlciStates
      BY <1>6, Kept, Names DEF disconnect_ind
    <2>3. UNCHANGED <<inbox, line, link, our_call, ncci_state, keepPhysicalConnection, service,
                      userVars, our_disconnect_req, appVars>>
      BY <1>6 DEF disconnect_ind
    <2> QED
      BY <2>1, <2>2, <2>3, Kept
  <1>7. CASE disconnect_ind_callback
    BY <1>7, Kept, Names DEF disconnect_ind_callback, Callback
  <1>8. CASE connect_conf
    BY <1>8, Kept, Names DEF connect_conf
  <1>9. CASE connect_b3_conf
    <2>1. ncci_state' \in NcciStates /\ capi_pc' \in CapiPCs
      BY <1>9, Kept, Names DEF connect_b3_conf
    <2>2. UNCHANGED <<driverVars, our_call, plci_state, keepPhysicalConnection, service,
                      userVars, our_disconnect_req, appVars>>
      BY <1>9 DEF connect_b3_conf
    <2> QED
      BY <2>1, <2>2, Kept
  <1>10. CASE select_b_protocol_conf
    <2>1. OutboxOK'
      <3>1. outbox' = outbox \/ TryPut("CONNECT_B3_REQ")
        BY <1>10 DEF select_b_protocol_conf, TryPut, PutFails, Put
      <3> QED
        BY <3>1, PutType, Kept, MessageNames
    <2>2. ncci_state' \in NcciStates /\ capi_pc' \in CapiPCs
      BY <1>10, Kept, Names DEF select_b_protocol_conf
    <2>3. UNCHANGED <<inbox, line, link, our_call, plci_state, keepPhysicalConnection, service,
                      userVars, our_disconnect_req, appVars>>
      BY <1>10 DEF select_b_protocol_conf
    <2> QED
      BY <2>1, <2>2, <2>3, Kept
  <1>11. CASE connect_active_ind_active
    BY <1>11, Kept, Names DEF connect_active_ind_active
  <1> QED
    BY <1>1, <1>2, <1>3, <1>4, <1>5, <1>6, <1>7, <1>8, <1>9, <1>10, <1>11 DEF HandlerSteps


LEMMA TypeCalls == ASSUME TypeInv, ScriptCalls PROVE TypeInv'
  <1> USE DEF TypeInv, PlainOK, ArgumentOK, Enter
  <1>1. CASE \E sv \in Services : callConnectWaiting(sv) \/ callChangeProtocol(sv)
    BY <1>1, Kept, Names DEF callConnectWaiting, callChangeProtocol
  <1>2. CASE callRejectWaiting \/ callAcceptWaiting
    BY <1>2, Kept, Names DEF callRejectWaiting, callAcceptWaiting
  <1>3. CASE \E mode \in Modes : callDisconnectCall(mode)
    <2>1. PICK mode \in Modes : callDisconnectCall(mode)
      BY <1>3
    <2>2. /\ app_pc' \in {"disconnect.logical", "disconnect.physical"}
          /\ app_pc' = "disconnect.logical" => mode \in LogicalModes
      BY <2>1 DEF callDisconnectCall, Disconnect
    <2>3. arg' = mode /\ UNCHANGED <<driverVars, stateVars, userVars, capiVars, closing>>
      BY <2>1 DEF callDisconnectCall
    <2> QED
      BY <2>1, <2>2, <2>3, Kept, Names
  <1>4. CASE registerCallInterface
    BY <1>4, Kept, Names DEF registerCallInterface
  <1>5. CASE destroy
    <2>1. OutboxOK'
      <3>1. outbox' = outbox \/ TryPut("DISCONNECT_REQ")
        BY <1>5 DEF destroy, TryPut, PutFails, Put
      <3> QED
        BY <3>1, PutType, Kept, MessageNames
    <2> QED
      BY <1>5, <2>1, Kept, Names DEF destroy
  <1> QED
    BY <1>1, <1>2, <1>3, <1>4, <1>5 DEF ScriptCalls

LEMMA TypeMethods == ASSUME TypeInv, MethodSteps PROVE TypeInv'
  <1> USE DEF TypeInv, PlainOK, ArgumentOK, In, Return
  <1>1. CASE connectWaiting
    <2>1. OutboxOK'
      BY <1>1, PutType, MessageNames DEF connectWaiting, TryPut, PutFails, Put
    <2> QED
      BY <1>1, <2>1, Kept, Names DEF connectWaiting
  <1>2. CASE rejectWaiting
    <2>1. OutboxOK'
      BY <1>2, PutType, MessageNames DEF rejectWaiting, TryPut, PutFails, Put
    <2> QED
      BY <1>2, <2>1, Kept, Names DEF rejectWaiting
  <1>3. CASE acceptWaiting
    <2>1. OutboxOK'
      BY <1>3, PutType, MessageNames DEF acceptWaiting, TryPut, PutFails, Put
    <2> QED
      BY <1>3, <2>1, Kept, Names DEF acceptWaiting
  <1>4. CASE changeProtocol
    <2>1. OutboxOK'
      BY <1>4, PutType, MessageNames DEF changeProtocol, TryPut, PutFails, Put
    <2> QED
      BY <1>4, <2>1, Kept, Names DEF changeProtocol
  <1>5. CASE disconnectLogical
    <2>1. OutboxOK'
      BY <1>5, PutType, MessageNames DEF disconnectLogical, TryPut, PutFails, Put
    <2> QED
      BY <1>5, <2>1, Kept, Names DEF disconnectLogical
  <1>6. CASE disconnectKeep
    BY <1>6, Kept, Names DEF disconnectKeep
  <1>7. CASE disconnectPhysical
    <2>1. OutboxOK'
      BY <1>7, PutType, MessageNames DEF disconnectPhysical, TryPut, PutFails, Put
    <2> QED
      BY <1>7, <2>1, Kept, Names DEF disconnectPhysical
  <1>8. CASE destroyed
    BY <1>8, Kept, Names DEF destroyed
  <1> QED
    BY <1>1, <1>2, <1>3, <1>4, <1>5, <1>6, <1>7, <1>8 DEF MethodSteps

(* What the driver and the network put into the queue to the application.  *)
LEMMA ToApplicationNames ==
    /\ \A c \in Confirmations : c \in ToApplication
    /\ \A c \in Indications : c \in ToApplication
    /\ "DISCONNECT_B3_CONF" \in ToApplication /\ "DISCONNECT_B3_IND" \in ToApplication
  BY DEF ToApplication, Confirmations, Indications

LEMMA LineNames ==
    /\ {"setup", "refused", "answered", "active", "clearing", "cleared", "released"}
          \subseteq LineStates
    /\ {"none", "offered", "pending", "active", "cleared"} \subseteq LinkStates
  BY DEF LineStates, LinkStates

LEMMA ConfirmationNames ==
    /\ "CONNECT_CONF" \in Confirmations /\ "CONNECT_CONF_REFUSED" \in Confirmations
    /\ "CONNECT_B3_CONF" \in Confirmations /\ "CONNECT_B3_CONF_REFUSED" \in Confirmations
    /\ "SELECT_B_PROTOCOL_CONF" \in Confirmations
    /\ "SELECT_B_PROTOCOL_CONF_REFUSED" \in Confirmations
    /\ "ALERT_CONF" \in Confirmations /\ "DISCONNECT_B3_CONF" \in Confirmations
    /\ "DISCONNECT_CONF" \in Confirmations
  BY DEF Confirmations

LEMMA DriverReadsTell ==
    ASSUME DriverReads
    PROVE  /\ line' \in {line, "setup", "refused", "answered", "clearing", "released"}
           /\ link' \in {link, "pending", "cleared", "none"}
           /\ \/ inbox' = inbox
              \/ \E c \in Confirmations : inbox' = Append(inbox, c)
              \/ inbox' = inbox \o <<"DISCONNECT_B3_CONF", "DISCONNECT_B3_IND">>
  <1> USE DEF Tell
  <1>1. CASE TakeConnectReq
    BY <1>1, ConfirmationNames DEF TakeConnectReq
  <1>2. CASE TakeAlertReq
    BY <1>2, ConfirmationNames DEF TakeAlertReq
  <1>3. CASE TakeConnectResp
    BY <1>3 DEF TakeConnectResp
  <1>4. CASE TakeConnectB3Req
    BY <1>4, ConfirmationNames DEF TakeConnectB3Req
  <1>5. CASE TakeConnectB3Resp
    BY <1>5 DEF TakeConnectB3Resp
  <1>6. CASE TakeSelectBProtocolReq
    BY <1>6, ConfirmationNames DEF TakeSelectBProtocolReq
  <1>7. CASE TakeDisconnectB3Req
    BY <1>7, ConfirmationNames DEF TakeDisconnectB3Req
  <1>8. CASE TakeDisconnectB3Resp
    BY <1>8 DEF TakeDisconnectB3Resp
  <1>9. CASE TakeDisconnectReq
    BY <1>9, ConfirmationNames DEF TakeDisconnectReq
  <1>10. CASE TakeDisconnectResp
    BY <1>10 DEF TakeDisconnectResp
  <1> QED
    BY <1>1, <1>2, <1>3, <1>4, <1>5, <1>6, <1>7, <1>8, <1>9, <1>10 DEF DriverReads

(* CONNECT_B3_IND is for the called side only.                             *)
LEMMA NetworkTells ==
    ASSUME NEW incoming \in BOOLEAN, Network(incoming)
    PROVE  /\ line' \in {line, "active", "clearing", "cleared"}
           /\ link' \in {link, "offered", "active", "cleared"}
           /\ outbox' = outbox
           /\ \/ inbox' = inbox
              \/ \E c \in Indications :
                    inbox' = Append(inbox, c) /\ (~incoming => c # "CONNECT_B3_IND")
  <1>1. /\ "CONNECT_ACTIVE_IND" \in Indications /\ "CONNECT_B3_IND" \in Indications
        /\ "CONNECT_B3_ACTIVE_IND" \in Indications /\ "DISCONNECT_B3_IND" \in Indications
        /\ "DISCONNECT_IND" \in Indications
    BY DEF Indications
  <1> QED
    BY <1>1 DEF Network, Tell, Activate, OfferLink, ActivateLink,
                RemoteClearsLink, HangUp, ClearLink, ClearLine

LEMMA TypeDriver == ASSUME TypeInv, Driver PROVE TypeInv'
  <1>1. InboxOK /\ OutboxOK /\ line \in LineStates /\ link \in LinkStates
    BY DEF TypeInv, PlainOK
  <1>2. CASE DriverReads
    <2>1. outbox \in Seq(ToDriver) /\ outbox # <<>> /\ outbox' = Tail(outbox)
      BY <1>1, <1>2 DEF DriverReads, OutboxOK, Take, TakeConnectReq, TakeAlertReq,
            TakeConnectResp, TakeConnectB3Req, TakeConnectB3Resp, TakeSelectBProtocolReq,
            TakeDisconnectB3Req, TakeDisconnectB3Resp, TakeDisconnectReq, TakeDisconnectResp
    <2>2. OutboxOK'
      BY <2>1, TailType DEF OutboxOK
    <2>3. /\ line' \in {line, "setup", "refused", "answered", "clearing", "released"}
          /\ link' \in {link, "pending", "cleared", "none"}
          /\ \/ inbox' = inbox
             \/ \E c \in Confirmations : inbox' = Append(inbox, c)
             \/ inbox' = inbox \o <<"DISCONNECT_B3_CONF", "DISCONNECT_B3_IND">>
      BY <1>2, DriverReadsTell
    <2>4. InboxOK'
      BY <1>1, <2>3, AppendType, ConcatType, ToApplicationNames DEF InboxOK
    <2>5. line' \in LineStates /\ link' \in LinkStates
      BY <1>1, <2>3, LineNames
    <2> QED
      BY <2>2, <2>4, <2>5 DEF Driver, TypeInv, PlainOK, ArgumentOK
  <1>3. CASE Network(~our_call)
    <2>1. /\ line' \in {line, "active", "clearing", "cleared"}
          /\ link' \in {link, "offered", "active", "cleared"}
          /\ outbox' = outbox
          /\ \/ inbox' = inbox
             \/ \E c \in Indications : inbox' = Append(inbox, c)
      BY <1>3, NetworkTells
    <2>2. InboxOK'
      BY <1>1, <2>1, AppendType, ToApplicationNames DEF InboxOK
    <2>3. line' \in LineStates /\ link' \in LinkStates
      BY <1>1, <2>1, LineNames
    <2> QED
      BY <1>1, <2>1, <2>2, <2>3, Kept DEF Driver, TypeInv, PlainOK, ArgumentOK
  <1> QED
    BY <1>2, <1>3 DEF Driver

LEMMA TypeNext == TypeInv /\ [Next]_vars => TypeInv'
  <1> SUFFICES ASSUME TypeInv, [Next]_vars PROVE TypeInv'
    OBVIOUS
  <1>1. CASE Next
    BY <1>1, TypeRead, TypeHandlers, TypeCalls, TypeMethods, TypeDriver DEF Next
  <1>2. CASE UNCHANGED vars
    BY <1>2, Kept DEF vars, TypeInv, PlainOK, ArgumentOK
  <1> QED
    BY <1>1, <1>2

(* Every variable keeps its type, whatever the two threads and the network *)
(* do; in particular the handler readMessage finds for a message exists.   *)
THEOREM TypeCorrect == Spec => []ConnectionTypeOK
  BY TypeInit, TypeNext, TypeImplies, PTL DEF Spec


-----------------------------------------------------------------------------
(* CallbackOrder needs what the logical state is while a callback is the   *)
(* last one heard.  It must also exclude that connect_active_ind, in P1,   *)
(* resets the logical state of a link that is up: in P01 and P1 none is,   *)
(* because the called side alone gets CONNECT_B3_IND.                      *)
NoLinkYet ==
    plci_state \in {"P01", "P1"} =>
        /\ our_call
        /\ \/ ncci_state = "N0"
           \/ ncci_state = "N01" /\ capi_pc = "connect_active_ind.active"
        /\ app_pc \notin {"disconnect.logical", "disconnect.keep"}
        /\ capi_pc \in {"run", "connect_conf", "connect_active_ind", "connect_active_ind.active",
                       "disconnect_ind"}

CallerGetsNoB3Ind ==
    our_call => /\ capi_pc # "connect_b3_ind"
                /\ Lacks(inbox, "CONNECT_B3_IND")

HeardConnected ==
    heard = "connected" =>
        /\ ncci_state \in {"NACT", "N4"}
        /\ capi_pc \in {"run", "connect_conf", "connect_active_ind", "connect_active_ind.active",
                       "disconnect_b3_ind", "disconnect_b3_ind.callback"}

HeardDown ==
    /\ heard = "physically down" => ~registered
    /\ ~registered => capi_pc = "run"

HeardByUser == heard # "nothing" => call_if

ConfPC == capi_pc = "connect_conf" => plci_state = "P01"

WaitingIsIncoming ==
    /\ app_pc \in {"connectWaiting", "rejectWaiting"} => ~our_call
    /\ plci_state = "P01" => app_pc # "disconnect.physical"

CallbackInv ==
    /\ NoLinkYet /\ CallerGetsNoB3Ind /\ HeardConnected /\ HeardDown /\ HeardByUser
    /\ ConfPC /\ WaitingIsIncoming


(* One step of the order of callbacks.                                     *)
OrderStep ==
    /\ heard = "connected" => heard' # "physically down"
    /\ heard = "physically down" => heard' \in {"physically down", "nothing"}
    /\ heard' = "connected" /\ capi_pc = "connect_b3_active_ind" => heard # "connected"

LEMMA CallbackInit == Init => CallbackInv
  <1> SUFFICES ASSUME Init PROVE CallbackInv
    OBVIOUS
  <1>1. Lacks(inbox, "CONNECT_B3_IND")
    BY DEF Init, Lacks
  <1>2. /\ plci_state = "P01" => our_call
        /\ plci_state # "P1"
        /\ capi_pc = "run" /\ app_pc = "script" /\ heard = "nothing" /\ registered
        /\ ncci_state = "N0"
    BY DEF Init, InitIncoming, InitOutgoing
  <1> QED
    BY <1>1, <1>2 DEF CallbackInv, NoLinkYet, CallerGetsNoB3Ind, HeardConnected,
         HeardDown, HeardByUser, ConfPC, WaitingIsIncoming

(* A handler runs only for its own message and in a state it accepts.      *)
HandlerFor(m, h) ==
    \/ m = "CONNECT_ACTIVE_IND" /\ h = "connect_active_ind" /\ plci_state \in {"P4", "P1"}
    \/ m = "CONNECT_B3_IND" /\ h = "connect_b3_ind" /\ ncci_state = "N0"
    \/ m = "CONNECT_B3_ACTIVE_IND" /\ h = "connect_b3_active_ind" /\ ncci_state = "N2"
    \/ /\ m = "DISCONNECT_B3_IND" /\ h = "disconnect_b3_ind"
       /\ ncci_state \in {"NACT", "N1", "N2", "N3", "N4"}
    \/ /\ m = "DISCONNECT_IND" /\ h = "disconnect_ind"
       /\ ncci_state = "N0" /\ plci_state \in {"P1", "P2", "P3", "P4", "P5", "PACT"}
    \/ m = "CONNECT_CONF" /\ h = "connect_conf" /\ plci_state = "P01"
    \/ /\ m \in {"CONNECT_B3_CONF", "CONNECT_B3_CONF_REFUSED"}
       /\ h \in {"connect_b3_conf", "connect_b3_conf.refused"} /\ ncci_state = "N01"
    \/ /\ m = "SELECT_B_PROTOCOL_CONF" /\ h = "select_b_protocol_conf"
       /\ plci_state = "PACT" /\ ncci_state = "N0"

LEMMA HandlerIs ==
    ASSUME NEW m \in ToApplication, Accepts(m)
    PROVE  HandlerFor(m, Handler[m])
  <1>1. CASE m \in Indications
    <2>1. AcceptsInd(m)
      BY <1>1 DEF Accepts
    <2> QED
      BY <1>1, <2>1 DEF AcceptsInd, Handler, HandlerFor, Indications
  <1>2. CASE m \notin Indications
    <2>1. AcceptsConf(m)
      BY <1>2 DEF Accepts
    <2> QED
      BY <2>1 DEF AcceptsConf, Handler, HandlerFor
  <1> QED
    BY <1>1, <1>2

LEMMA CallbackRead == ASSUME TypeInv, CallbackInv, readMessage PROVE CallbackInv' /\ OrderStep
  <1> USE DEF CallbackInv, NoLinkYet, CallerGetsNoB3Ind, HeardConnected,
         HeardDown, HeardByUser, ConfPC, WaitingIsIncoming
  <1>1. inbox \in Seq(ToApplication) /\ inbox # <<>> /\ inbox' = Tail(inbox)
    BY DEF readMessage, TypeInv, InboxOK
  <1>2. Head(inbox) \in ToApplication
    BY <1>1, TailType
  <1>3. /\ capi_pc = "run"
        /\ capi_pc' = "run" \/ (registered /\ HandlerFor(Head(inbox), capi_pc'))
        /\ UNCHANGED <<our_call, plci_state, ncci_state, registered, call_if, heard, app_pc>>
    BY <1>2, HandlerIs DEF readMessage
  <1>4. our_call => Head(inbox) # "CONNECT_B3_IND" /\ Lacks(inbox', "CONNECT_B3_IND")
    BY <1>1, TailLacks
  <1>5. CallerGetsNoB3Ind'
    BY <1>3, <1>4 DEF HandlerFor
  <1>6. HeardConnected' /\ HeardDown' /\ HeardByUser' /\ ConfPC' /\ WaitingIsIncoming'
    BY <1>3 DEF HandlerFor
  <1>7. NoLinkYet'
    BY <1>3, <1>4 DEF HandlerFor
  <1> QED
    BY <1>3, <1>5, <1>6, <1>7 DEF OrderStep

LEMMA CallbackHandlers == ASSUME CallbackInv, HandlerSteps PROVE CallbackInv' /\ OrderStep
  <1> USE DEF CallbackInv, NoLinkYet, CallerGetsNoB3Ind, HeardConnected,
         HeardDown, HeardByUser, ConfPC, WaitingIsIncoming, OrderStep, InHandler, Leave, Callback
  <1>1. CASE connect_active_ind
    BY <1>1 DEF connect_active_ind
  <1>2. CASE connect_b3_ind
    BY <1>2 DEF connect_b3_ind
  <1>3. CASE connect_b3_active_ind
    BY <1>3 DEF connect_b3_active_ind
  <1>4. CASE disconnect_b3_ind
    <2>1. /\ capi_pc = "disconnect_b3_ind" /\ capi_pc' = "disconnect_b3_ind.callback"
          /\ UNCHANGED <<inbox, our_call, plci_state, ncci_state, userVars, app_pc>>
      BY <1>4 DEF disconnect_b3_ind
    <2> QED
      BY <2>1
  <1>5. CASE disconnect_b3_ind_callback
    BY <1>5 DEF disconnect_b3_ind_callback
  <1>12. CASE disconnect_b3_ind_resp
    <2>1. /\ capi_pc = "disconnect_b3_ind.resp" /\ capi_pc' = "disconnect_b3_ind.rest"
          /\ UNCHANGED <<inbox, our_call, plci_state, userVars, app_pc>>
      BY <1>12 DEF disconnect_b3_ind_resp
    <2> QED
      BY <2>1
  <1>13. CASE disconnect_b3_ind_rest
    <2>1. /\ capi_pc = "disconnect_b3_ind.rest" /\ capi_pc' = "run"
          /\ plci_state' \in {plci_state, "P5"}
          /\ UNCHANGED <<inbox, our_call, userVars, app_pc>>
      BY <1>13 DEF disconnect_b3_ind_rest
    <2> QED
      BY <2>1
  <1>6. CASE disconnect_ind
    BY <1>6 DEF disconnect_ind
  <1>7. CASE disconnect_ind_callback
    BY <1>7 DEF disconnect_ind_callback
  <1>8. CASE connect_conf
    BY <1>8 DEF connect_conf
  <1>9. CASE connect_b3_conf
    BY <1>9 DEF connect_b3_conf
  <1>10. CASE select_b_protocol_conf
    BY <1>10 DEF select_b_protocol_conf
  <1>11. CASE connect_active_ind_active
    BY <1>11 DEF connect_active_ind_active
  <1> QED
    BY <1>1, <1>2, <1>3, <1>4, <1>5, <1>6, <1>7, <1>8, <1>9, <1>10, <1>11, <1>12,
       <1>13 DEF HandlerSteps

LEMMA CallbackCalls == ASSUME CallbackInv, ScriptCalls PROVE CallbackInv' /\ OrderStep
  <1> USE DEF CallbackInv, NoLinkYet, CallerGetsNoB3Ind, HeardConnected,
         HeardDown, HeardByUser, ConfPC, WaitingIsIncoming, OrderStep, Enter, In
  <1>1. CASE \E sv \in Services : callConnectWaiting(sv) \/ callChangeProtocol(sv)
    <2>1. /\ (app_pc' = "connectWaiting" /\ ~our_call) \/ app_pc' = "changeProtocol"
          /\ UNCHANGED <<driverVars, stateVars, userVars, capiVars>>
      BY <1>1 DEF callConnectWaiting, callChangeProtocol
    <2> QED
      BY <2>1
  <1>2. CASE callRejectWaiting \/ callAcceptWaiting
    <2>1. /\ (app_pc' = "rejectWaiting" /\ ~our_call) \/ app_pc' = "acceptWaiting"
          /\ UNCHANGED <<driverVars, stateVars, userVars, capiVars>>
      BY <1>2 DEF callRejectWaiting, callAcceptWaiting
    <2> QED
      BY <2>1
  <1>3. CASE \E mode \in Modes : callDisconnectCall(mode)
    <2>1. /\ \/ app_pc' = "disconnect.logical" /\ ncci_state \notin {"N0", "N01"}
             \/ app_pc' = "disconnect.physical" /\ plci_state # "P01"
          /\ UNCHANGED <<driverVars, stateVars, userVars, capiVars>>
      BY <1>3 DEF callDisconnectCall, Disconnect, LogicalUp, PhysicalUp
    <2> QED
      BY <2>1
  <1>4. CASE registerCallInterface
    BY <1>4 DEF registerCallInterface
  <1>5. CASE destroy
    BY <1>5 DEF destroy, PhysicalUp
  <1> QED
    BY <1>1, <1>2, <1>3, <1>4, <1>5 DEF ScriptCalls

LEMMA CallbackMethods == ASSUME CallbackInv, MethodSteps PROVE CallbackInv' /\ OrderStep
  <1> USE DEF CallbackInv, NoLinkYet, CallerGetsNoB3Ind, HeardConnected,
         HeardDown, HeardByUser, ConfPC, WaitingIsIncoming, OrderStep, In, Return
  <1>1. CASE connectWaiting \/ rejectWaiting
    <2>1. /\ app_pc \in {"connectWaiting", "rejectWaiting"} /\ app_pc' = "script"
          /\ plci_state' \in {"P4", "P5"}
          /\ UNCHANGED <<inbox, our_call, ncci_state, userVars, capi_pc>>
      BY <1>1 DEF connectWaiting, rejectWaiting
    <2> QED
      BY <2>1
  <1>2. CASE acceptWaiting \/ changeProtocol \/ disconnectKeep \/ destroyed
    <2>1. /\ app_pc' \in {"script", "deleted"}
          /\ UNCHANGED <<inbox, our_call, plci_state, ncci_state, userVars, capi_pc>>
      BY <1>2 DEF acceptWaiting, changeProtocol, disconnectKeep, destroyed
    <2> QED
      BY <2>1
  <1>3. CASE disconnectLogical
    <2>1. /\ app_pc = "disconnect.logical" /\ app_pc' \in {"script", "disconnect.keep"}
          /\ ncci_state' = "N4"
          /\ UNCHANGED <<inbox, our_call, plci_state, userVars, capi_pc>>
      BY <1>3 DEF disconnectLogical
    <2> QED
      BY <2>1
  <1>4. CASE disconnectPhysical
    <2>1. /\ app_pc = "disconnect.physical" /\ app_pc' = "script"
          /\ plci_state' = "P5"
          /\ UNCHANGED <<inbox, our_call, ncci_state, userVars, capi_pc>>
      BY <1>4 DEF disconnectPhysical
    <2> QED
      BY <2>1
  <1> QED
    BY <1>1, <1>2, <1>3, <1>4 DEF MethodSteps

LEMMA CallbackDriver == ASSUME TypeInv, CallbackInv, Driver PROVE CallbackInv' /\ OrderStep
  <1> USE DEF CallbackInv, NoLinkYet, CallerGetsNoB3Ind, HeardConnected,
         HeardDown, HeardByUser, ConfPC, WaitingIsIncoming
  <1>1. inbox \in Seq(ToApplication)
    BY TypeImplies DEF ConnectionTypeOK, DriverTypeOK
  <1>2. \/ inbox' = inbox
        \/ \E c : inbox' = Append(inbox, c) /\ (our_call => c # "CONNECT_B3_IND")
        \/ inbox' = inbox \o <<"DISCONNECT_B3_CONF", "DISCONNECT_B3_IND">>
    <2>1. CASE DriverReads
      <3>1. \A c \in Confirmations : c # "CONNECT_B3_IND"
        BY DEF Confirmations
      <3> QED
        BY <2>1, <3>1, DriverReadsTell
    <2>2. CASE Network(~our_call)
      <3>1. our_call \in BOOLEAN
        BY DEF TypeInv, PlainOK
      <3> QED
        BY <2>2, <3>1, NetworkTells
    <2> QED
      BY <2>1, <2>2 DEF Driver
  <1>3. our_call => Lacks(inbox', "CONNECT_B3_IND")
    <2> SUFFICES ASSUME our_call PROVE Lacks(inbox', "CONNECT_B3_IND")
      OBVIOUS
    <2>1. Lacks(inbox, "CONNECT_B3_IND")
      OBVIOUS
    <2> HIDE DEF CallbackInv
    <2>2. ASSUME NEW c, inbox' = Append(inbox, c), c # "CONNECT_B3_IND"
          PROVE  Lacks(inbox', "CONNECT_B3_IND")
      BY <1>1, <2>1, <2>2, AppendLacks
    <2>3. CASE inbox' = inbox \o <<"DISCONNECT_B3_CONF", "DISCONNECT_B3_IND">>
      BY <1>1, <2>1, <2>3, ConcatLacks
    <2> QED
      BY <1>2, <2>1, <2>2, <2>3
  <1>4. UNCHANGED <<stateVars, userVars, capiVars, appVars>>
    BY DEF Driver
  <1> QED
    BY <1>3, <1>4 DEF OrderStep

(* A module never hears that the call is physically down while the last it *)
(* heard is that it is connected, nor of two starts in a row: for every    *)
(* kind of call, with both threads in each other's methods and with        *)
(* CAPI_PUT_MESSAGE failing.                                               *)
THEOREM CallbacksInOrder == Spec => CallbackOrder
  <1>1. Init => TypeInv /\ CallbackInv
    BY TypeInit, CallbackInit
  <1>2. TypeInv /\ CallbackInv /\ [Next]_vars
          => (TypeInv /\ CallbackInv)' /\ [OrderStep]_vars
    <2> SUFFICES ASSUME TypeInv, CallbackInv, [Next]_vars
                 PROVE  (TypeInv /\ CallbackInv)' /\ [OrderStep]_vars
      OBVIOUS
    <2>1. CASE Next
      BY <2>1, TypeRead, TypeHandlers, TypeCalls, TypeMethods, TypeDriver, CallbackRead,
         CallbackHandlers, CallbackCalls, CallbackMethods, CallbackDriver DEF Next
    <2>2. CASE UNCHANGED vars
      <3>1. TypeInv'
        BY <2>2, Kept DEF vars, TypeInv, PlainOK, ArgumentOK
      <3>2. CallbackInv'
        BY <2>2 DEF vars, CallbackInv, NoLinkYet, CallerGetsNoB3Ind, HeardConnected,
         HeardDown, HeardByUser, ConfPC, WaitingIsIncoming
      <3> QED
        BY <2>2, <3>1, <3>2
    <2> QED
      BY <2>1, <2>2
  <1>3. Spec => [][OrderStep]_vars
    BY <1>1, <1>2, PTL DEF Spec
  <1> QED
    BY <1>3 DEF CallbackOrder, OrderStep

-----------------------------------------------------------------------------
(* What the script takes for down has been cleared by the network: only    *)
(* ClearLine sends DISCONNECT_IND, and nothing brings the line back.       *)
Has(q, m) == ~Lacks(q, m)
Gone      == line \in {"cleared", "released"}

ConnectReqFirst ==
    Has(outbox, "CONNECT_REQ") => line = "idle" /\ Lacks(Tail(outbox), "CONNECT_REQ")

EndIsReal ==
    plci_state = "P0" \/ capi_pc = "disconnect_ind" \/ Has(inbox, "DISCONNECT_IND") => Gone

DownInv == ConnectReqFirst /\ EndIsReal

(* What the script takes for up is the network's active link, or news of   *)
(* its end is on the way, behind that of its start.                        *)
EndFollows ==
    link = "active" \/ FollowedBy(inbox, "CONNECT_B3_ACTIVE_IND", "DISCONNECT_B3_IND")

StartIsReal ==
    capi_pc = "connect_b3_active_ind" => link = "active" \/ Has(inbox, "DISCONNECT_B3_IND")

ActiveIsReal == ncci_state = "NACT" => link = "active" \/ Unread("DISCONNECT_B3_IND")

EndedIsNotActive ==
    capi_pc \in {"disconnect_ind", "disconnect_ind.callback"} \/ ~registered
        => ncci_state # "NACT"

UpInv == EndFollows /\ StartIsReal /\ ActiveIsReal /\ EndedIsNotActive

(* The message is read, and the state still that of before.                *)
B3EndPCs  == {"disconnect_b3_ind", "disconnect_b3_ind.callback"}
ActivePCs == {"connect_active_ind", "connect_active_ind.active"}

(* When no thread runs inside the other's methods, what a handler or method*)
(* has tested still holds when it goes on.                                 *)
TestsHold ==
    /\ capi_pc # "run" => app_pc \in Between
    /\ capi_pc \in ActivePCs => plci_state \in {"P4", "P1"}
    /\ capi_pc = "connect_b3_ind" => ncci_state = "N0"
    /\ capi_pc = "connect_b3_active_ind" => ncci_state = "N2"
    /\ capi_pc \in B3EndPCs => ncci_state \in {"NACT", "N1", "N2", "N3", "N4"}
    /\ capi_pc = "disconnect_b3_ind.resp" => ncci_state = "N5"
    /\ capi_pc = "disconnect_b3_ind.rest" => ncci_state = "N0"
    /\ capi_pc = "disconnect_ind" =>
         ncci_state = "N0" /\ plci_state \in {"P1", "P2", "P3", "P4", "P5", "PACT"}
    /\ capi_pc = "disconnect_ind.callback" => plci_state = "P0"
    /\ capi_pc = "connect_conf" => plci_state = "P01"
    /\ capi_pc \in {"connect_b3_conf", "connect_b3_conf.refused"} => ncci_state = "N01"
    /\ capi_pc = "select_b_protocol_conf" => plci_state = "PACT" /\ ncci_state = "N0"
    /\ app_pc \in {"connectWaiting", "rejectWaiting", "acceptWaiting"} => plci_state = "P2"
    /\ app_pc = "disconnect.logical" => LogicalUp
    /\ app_pc = "disconnect.physical" => PhysicalUp

(* A call that is down has no link, and gets none: the network offers none *)
(* once it has sent DISCONNECT_IND.                                        *)
DownHasNoLink ==
    /\ plci_state = "P0" => ncci_state = "N0" /\ Lacks(inbox, "CONNECT_B3_IND")
    /\ capi_pc = "disconnect_ind" => Lacks(inbox, "CONNECT_B3_IND")
    /\ capi_pc \in {"connect_b3_ind", "disconnect_b3_ind.rest"} => plci_state # "P0"
    /\ NoneAfter(inbox, "DISCONNECT_IND", "CONNECT_B3_IND")
    /\ ~registered => plci_state = "P0"

FinalInv == TestsHold /\ DownHasNoLink

(* Nor has one that waits or has just been accepted: the network offers the*)
(* link after CONNECT_ACTIVE_IND only, and that after CONNECT_RESP.        *)
WaitingHasNoLink ==
    /\ plci_state \in {"P2", "P4"} =>
         ncci_state = "N0" /\ capi_pc \notin {"connect_b3_ind", "disconnect_b3_ind.rest"}
    /\ plci_state = "P2" =>
         /\ line \in {"offered", "clearing", "cleared", "released"}
         /\ Lacks(inbox, "CONNECT_ACTIVE_IND") /\ Lacks(inbox, "CONNECT_B3_IND")
         /\ Lacks(outbox, "CONNECT_RESP")
    /\ plci_state = "P4" =>
         \/ capi_pc \in ActivePCs
         \/ /\ PrecededBy(inbox, "CONNECT_B3_IND", "CONNECT_ACTIVE_IND")
            /\ line = "active" => Has(inbox, "CONNECT_ACTIVE_IND")

B3AnswerPCs ==
    {"disconnect_b3_ind.callback", "disconnect_b3_ind.resp", "disconnect_b3_ind.rest"}

(* A logical end the script asked for is that of disconnectCall(ALL), or   *)
(* the line is to be kept: the request is one step with its put.           *)
ClosingIsKnown ==
    /\ ncci_state = "N4" => closing = "ALL" \/ keepPhysicalConnection \/ app_pc = "disconnect.keep"
    /\ our_disconnect_req /\ capi_pc \in B3AnswerPCs => closing = "ALL" \/ keepPhysicalConnection
    /\ capi_pc = "disconnect_b3_ind.rest" => ncci_state = "N0"

(* What the driver and the network do to the line, the link and the queues.*)
Tells(m) ==
    /\ inbox' = Append(inbox, m)
    /\ m = "DISCONNECT_IND" => Gone'
    /\ m = "CONNECT_B3_IND" => line = "active"
    /\ m = "CONNECT_ACTIVE_IND" => line \in {"setup", "answered"}
    /\ m = "CONNECT_B3_ACTIVE_IND" => link' = "active"
    /\ m # "DISCONNECT_B3_IND" => (link = "active" => link' = "active")
    /\ m # "CONNECT_ACTIVE_IND" => (line' = "active" => line = "active")

TellsOfEnd ==
    /\ inbox' = Append(Append(inbox, "DISCONNECT_B3_CONF"), "DISCONNECT_B3_IND")
    /\ line' = line

Silent ==
    /\ inbox' = inbox
    /\ link = "active" => link' = "active"
    /\ line' = "active" => line = "active"

NotAnswered == line \in {"offered", "clearing", "cleared", "released"}

Taken == outbox # <<>> /\ outbox' = Tail(outbox)

LineMoves ==
    /\ Gone => Gone' \/ (Taken /\ Head(outbox) = "CONNECT_REQ")
    /\ line = "idle" => line' = "idle" \/ Taken
    /\ NotAnswered => NotAnswered' \/ (Taken /\ Head(outbox) \in {"CONNECT_REQ", "CONNECT_RESP"})
    /\ Taken \/ outbox' = outbox

LEMMA ReadsEffect ==
    ASSUME TypeInv, DriverReads
    PROVE  (Silent \/ TellsOfEnd \/ \E m : Tells(m)) /\ LineMoves
  <1> USE DEF Take, Tell, Taken, Gone, NotAnswered, LineMoves, Silent
  <1>0. \A c, d : inbox \o <<c, d>> = Append(Append(inbox, c), d)
    BY HasAppend DEF TypeInv, InboxOK
  <1>1. CASE TakeConnectReq
    <2>1. LineMoves
      BY <1>1 DEF TakeConnectReq
    <2>2. Tells("CONNECT_CONF") \/ Tells("CONNECT_CONF_REFUSED")
      BY <1>1 DEF TakeConnectReq, Tells
    <2> QED
      BY <2>1, <2>2
  <1>2. CASE TakeAlertReq
    <2>1. LineMoves /\ Tells("ALERT_CONF")
      BY <1>2 DEF TakeAlertReq, Tells
    <2> QED
      BY <2>1
  <1>3. CASE TakeConnectResp
    BY <1>3 DEF TakeConnectResp
  <1>4. CASE TakeConnectB3Req
    <2>1. LineMoves
      BY <1>4 DEF TakeConnectB3Req
    <2>2. Tells("CONNECT_B3_CONF") \/ Tells("CONNECT_B3_CONF_REFUSED")
      BY <1>4 DEF TakeConnectB3Req, Tells
    <2> QED
      BY <2>1, <2>2
  <1>5. CASE TakeConnectB3Resp
    BY <1>5 DEF TakeConnectB3Resp
  <1>6. CASE TakeSelectBProtocolReq
    <2>1. LineMoves
      BY <1>6 DEF TakeSelectBProtocolReq
    <2>2. Tells("SELECT_B_PROTOCOL_CONF") \/ Tells("SELECT_B_PROTOCOL_CONF_REFUSED")
      BY <1>6 DEF TakeSelectBProtocolReq, Tells
    <2> QED
      BY <2>1, <2>2
  <1>7. CASE TakeDisconnectB3Req
    <2>1. LineMoves
      BY <1>7 DEF TakeDisconnectB3Req
    <2>2. TellsOfEnd \/ Tells("DISCONNECT_B3_CONF")
      BY <1>0, <1>7 DEF TakeDisconnectB3Req, TellsOfEnd, Tells, LinkUp
    <2> QED
      BY <2>1, <2>2
  <1>8. CASE TakeDisconnectB3Resp
    BY <1>8 DEF TakeDisconnectB3Resp
  <1>9. CASE TakeDisconnectReq
    <2>1. LineMoves /\ Tells("DISCONNECT_CONF")
      BY <1>9 DEF TakeDisconnectReq, Tells, LineUp
    <2> QED
      BY <2>1
  <1>10. CASE TakeDisconnectResp
    BY <1>10 DEF TakeDisconnectResp
  <1> QED
    BY <1>1, <1>2, <1>3, <1>4, <1>5, <1>6, <1>7, <1>8, <1>9, <1>10 DEF DriverReads

LEMMA NetworkEffect ==
    ASSUME TypeInv, Network(~our_call)
    PROVE  (Silent \/ TellsOfEnd \/ \E m : Tells(m)) /\ LineMoves
  <1> USE DEF Tell, Gone, NotAnswered, LineMoves, Silent, LineUp, LinkUp
  <1>1. CASE Activate
    <2>1. LineMoves /\ Tells("CONNECT_ACTIVE_IND")
      BY <1>1 DEF Activate, Tells
    <2> QED
      BY <2>1
  <1>2. CASE OfferLink(~our_call)
    <2>1. LineMoves /\ Tells("CONNECT_B3_IND")
      BY <1>2 DEF OfferLink, Tells
    <2> QED
      BY <2>1
  <1>3. CASE ActivateLink
    <2>1. LineMoves /\ Tells("CONNECT_B3_ACTIVE_IND")
      BY <1>3 DEF ActivateLink, Tells
    <2> QED
      BY <2>1
  <1>4. CASE RemoteClearsLink \/ ClearLink
    <2>1. LineMoves /\ Tells("DISCONNECT_B3_IND")
      BY <1>4 DEF RemoteClearsLink, ClearLink, Tells
    <2> QED
      BY <2>1
  <1>5. CASE HangUp
    BY <1>5 DEF HangUp
  <1>6. CASE ClearLine
    <2>1. LineMoves /\ Tells("DISCONNECT_IND")
      BY <1>6 DEF ClearLine, Tells
    <2> QED
      BY <2>1
  <1> QED
    BY <1>1, <1>2, <1>3, <1>4, <1>5, <1>6 DEF Network

LEMMA DriverEffect ==
    ASSUME TypeInv, Driver
    PROVE  /\ Silent \/ TellsOfEnd \/ \E m : Tells(m)
           /\ LineMoves
           /\ UNCHANGED <<stateVars, userVars, capiVars, appVars>>
  BY ReadsEffect, NetworkEffect DEF Driver

(* What the two threads put.                                               *)
Grows(q) ==
    \/ outbox' = q
    \/ \E m : /\ m # "CONNECT_REQ"
              /\ m = "CONNECT_RESP" => app_pc = "connectWaiting"
              /\ outbox' = Append(q, m)

LEMMA ThreadsEffect ==
    ASSUME HandlerSteps \/ ScriptCalls \/ MethodSteps
    PROVE  /\ UNCHANGED <<inbox, line, link>>
           /\ Grows(outbox)
  <1>1. CASE HandlerSteps
    <2>1. CASE disconnect_b3_ind_resp \/ disconnect_b3_ind_rest
      BY <2>1 DEF disconnect_b3_ind_resp, disconnect_b3_ind_rest, TryPut, Put, PutFails, Grows
    <2>2. CASE connect_active_ind \/ select_b_protocol_conf
      BY <2>2 DEF connect_active_ind, select_b_protocol_conf, Put, PutFails, Grows
    <2>3. CASE connect_b3_ind \/ disconnect_ind
      BY <2>3 DEF connect_b3_ind, disconnect_ind, TryPut, Put, PutFails, Grows
    <2>4. CASE \/ connect_b3_active_ind \/ disconnect_b3_ind \/ disconnect_b3_ind_callback
               \/ disconnect_ind_callback \/ connect_conf \/ connect_b3_conf
               \/ connect_active_ind_active
      BY <2>4 DEF connect_b3_active_ind, disconnect_b3_ind, disconnect_b3_ind_callback,
                  disconnect_ind_callback, connect_conf, connect_b3_conf,
                  connect_active_ind_active, Grows
    <2> QED
      BY <1>1, <2>1, <2>2, <2>3, <2>4 DEF HandlerSteps
  <1>2. CASE ScriptCalls
    <2>1. CASE destroy
      BY <2>1 DEF destroy, Put, PutFails, Grows
    <2> QED
      BY <1>2, <2>1 DEF ScriptCalls, callConnectWaiting, callChangeProtocol, callRejectWaiting,
         callAcceptWaiting, callDisconnectCall, registerCallInterface, Enter, Grows
  <1>3. CASE MethodSteps
    <2>1. CASE connectWaiting
      BY <2>1 DEF connectWaiting, In, Put, PutFails, Grows
    <2>2. CASE rejectWaiting \/ acceptWaiting \/ changeProtocol \/ disconnectPhysical
      BY <2>2 DEF rejectWaiting, acceptWaiting, changeProtocol, disconnectPhysical, TryPut, Put,
                  PutFails, Grows
    <2>3. CASE disconnectLogical
      BY <2>3 DEF disconnectLogical, Put, PutFails, Grows
    <2>4. CASE disconnectKeep \/ destroyed
      BY <2>4 DEF disconnectKeep, destroyed, Grows
    <2> QED
      BY <1>3, <2>1, <2>2, <2>3, <2>4 DEF MethodSteps
  <1> QED
    BY <1>1, <1>2, <1>3

LEMMA DownInit == Init => DownInv
  <1> SUFFICES ASSUME Init PROVE DownInv
    OBVIOUS
  <1>1. Lacks(inbox, "DISCONNECT_IND") /\ plci_state # "P0" /\ capi_pc = "run"
    BY DEF Init, InitIncoming, InitOutgoing, Lacks
  <1>2. CASE outbox = <<>>
    BY <1>1, <1>2 DEF DownInv, ConnectReqFirst, EndIsReal, Has, Lacks
  <1>3. CASE outbox = <<"CONNECT_REQ">> /\ line = "idle"
    <2>1. Tail(outbox) = <<>>
      BY <1>3
    <2> QED
      BY <1>1, <1>3, <2>1 DEF DownInv, ConnectReqFirst, EndIsReal, Has, Lacks
  <1> QED
    BY <1>2, <1>3 DEF Init, InitIncoming, InitOutgoing

(* A put of anything else leaves CONNECT_REQ where it is.                  *)
ReqFirstIn(q) == Has(q, "CONNECT_REQ") => q # <<>> /\ Lacks(Tail(q), "CONNECT_REQ")

LEMMA GrowsBehind ==
    ASSUME NEW q \in Seq(ToDriver), Grows(q)
    PROVE  /\ Lacks(q, "CONNECT_REQ") => Lacks(outbox', "CONNECT_REQ")
           /\ ReqFirstIn(q) => ReqFirstIn(outbox')
           /\ Lacks(q, "CONNECT_RESP") /\ app_pc # "connectWaiting"
                => Lacks(outbox', "CONNECT_RESP")
  <1>1. CASE outbox' = q
    BY <1>1
  <1>2. ASSUME NEW m, m # "CONNECT_REQ", outbox' = Append(q, m),
               m = "CONNECT_RESP" => app_pc = "connectWaiting"
        PROVE  /\ Lacks(q, "CONNECT_REQ") => Lacks(outbox', "CONNECT_REQ")
               /\ ReqFirstIn(q) => ReqFirstIn(outbox')
               /\ Lacks(q, "CONNECT_RESP") /\ app_pc # "connectWaiting"
                    => Lacks(outbox', "CONNECT_RESP")
    <2>1. \A e : Lacks(outbox', e) <=> Lacks(q, e) /\ m # e
      BY <1>2, HasAppend
    <2>2. ASSUME q # <<>>
          PROVE  /\ outbox' # <<>>
                 /\ Lacks(Tail(q), "CONNECT_REQ") => Lacks(Tail(outbox'), "CONNECT_REQ")
      <3>1. Tail(outbox') = Append(Tail(q), m) /\ outbox' # <<>> /\ Tail(q) \in Seq(ToDriver)
        BY <1>2, <2>2, TailAppend, TailType
      <3>2. \A e : Lacks(Append(Tail(q), m), e) <=> Lacks(Tail(q), e) /\ m # e
        BY <3>1, HasAppend
      <3> QED
        BY <1>2, <3>1, <3>2
    <2> QED
      BY <1>2, <2>1, <2>2 DEF ReqFirstIn, Has
  <1> QED
    BY <1>1, <1>2 DEF Grows

LEMMA ThreadsPut ==
    ASSUME TypeInv, HandlerSteps \/ ScriptCalls \/ MethodSteps
    PROVE  /\ ReqFirstIn(outbox) => ReqFirstIn(outbox')
           /\ Lacks(outbox, "CONNECT_REQ") => Lacks(outbox', "CONNECT_REQ")
           /\ Lacks(outbox, "CONNECT_RESP") /\ app_pc # "connectWaiting"
                => Lacks(outbox', "CONNECT_RESP")
  <1>1. outbox \in Seq(ToDriver)
    BY DEF TypeInv, OutboxOK
  <1> QED
    BY <1>1, ThreadsEffect, GrowsBehind

(* Where the threads lead: P0 comes of a handler for DISCONNECT_IND only,  *)
(* and no handler starts another.                                          *)
LEMMA ThreadsDown ==
    ASSUME HandlerSteps \/ ScriptCalls \/ MethodSteps
    PROVE  /\ plci_state' = "P0" => plci_state = "P0" \/ capi_pc = "disconnect_ind"
           /\ capi_pc' = "disconnect_ind" => capi_pc = "disconnect_ind"
  <1>1. CASE HandlerSteps
    <2>1. CASE \/ disconnect_b3_ind \/ disconnect_b3_ind_callback
               \/ disconnect_b3_ind_resp \/ disconnect_b3_ind_rest
      BY <2>1 DEF disconnect_b3_ind, disconnect_b3_ind_callback, disconnect_b3_ind_resp,
         disconnect_b3_ind_rest, Leave
    <2>2. CASE connect_active_ind \/ connect_active_ind_active
      BY <2>2 DEF connect_active_ind, connect_active_ind_active, Leave
    <2> QED
      BY <1>1, <2>1, <2>2 DEF HandlerSteps, connect_b3_ind, connect_b3_active_ind,
         disconnect_ind, disconnect_ind_callback, connect_conf,
         connect_b3_conf, select_b_protocol_conf, InHandler, Leave
  <1>2. CASE ScriptCalls
    BY <1>2 DEF ScriptCalls, callConnectWaiting, callChangeProtocol, callRejectWaiting,
         callAcceptWaiting, callDisconnectCall, registerCallInterface, destroy, Enter
  <1>3. CASE MethodSteps
    BY <1>3 DEF MethodSteps, connectWaiting, rejectWaiting, acceptWaiting, changeProtocol,
         disconnectLogical, disconnectKeep, disconnectPhysical, destroyed
  <1> QED
    BY <1>1, <1>2, <1>3

LEMMA ReqFirstIs ==
    ASSUME OutboxOK
    PROVE  ConnectReqFirst <=> (Has(outbox, "CONNECT_REQ") => line = "idle") /\ ReqFirstIn(outbox)
  BY DEF ConnectReqFirst, ReqFirstIn, Has, Lacks, OutboxOK

LEMMA DownThreads ==
    ASSUME TypeInv, TypeInv', DownInv, HandlerSteps \/ ScriptCalls \/ MethodSteps
    PROVE  DownInv'
  <1>1. UNCHANGED <<inbox, line, link>>
    BY ThreadsEffect
  <1>2. (Has(outbox, "CONNECT_REQ") => line = "idle") /\ ReqFirstIn(outbox)
    BY ReqFirstIs DEF DownInv, TypeInv
  <1>3. (Has(outbox', "CONNECT_REQ") => line' = "idle") /\ ReqFirstIn(outbox')
    BY <1>1, <1>2, ThreadsPut DEF Has
  <1>4. ConnectReqFirst'
    BY <1>3, ReqFirstIs DEF TypeInv, ConnectReqFirst, ReqFirstIn
  <1>5. EndIsReal'
    BY <1>1, ThreadsDown DEF DownInv, EndIsReal, Gone, Has
  <1> QED
    BY <1>4, <1>5 DEF DownInv

LEMMA DownRead == ASSUME TypeInv, DownInv, readMessage PROVE DownInv'
  <1>1. inbox \in Seq(ToApplication) /\ inbox # <<>> /\ inbox' = Tail(inbox)
    BY DEF readMessage, TypeInv, InboxOK
  <1>2. Head(inbox) \in ToApplication
    BY <1>1, TailType
  <1>3. /\ capi_pc' = "run" \/ HandlerFor(Head(inbox), capi_pc')
        /\ UNCHANGED <<outbox, line, plci_state>>
    BY <1>2, HandlerIs DEF readMessage
  <1>4. \A e : Lacks(inbox, e) <=> Head(inbox) # e /\ Lacks(inbox', e)
    BY <1>1, HasTail
  <1>5. capi_pc' = "disconnect_ind" => Has(inbox, "DISCONNECT_IND")
    BY <1>3, <1>4 DEF HandlerFor, Has
  <1>6. Has(inbox', "DISCONNECT_IND") => Has(inbox, "DISCONNECT_IND")
    BY <1>4 DEF Has
  <1>7. EndIsReal'
    BY <1>3, <1>5, <1>6 DEF DownInv, EndIsReal, Gone
  <1> QED
    BY <1>3, <1>7 DEF DownInv, ConnectReqFirst

LEMMA DownDriver == ASSUME TypeInv, DownInv, Driver PROVE DownInv'
  <1>1. inbox \in Seq(ToApplication) /\ outbox \in Seq(ToDriver)
    BY DEF TypeInv, InboxOK, OutboxOK
  <1>2. /\ Silent \/ TellsOfEnd \/ \E m : Tells(m)
        /\ LineMoves
        /\ UNCHANGED <<plci_state, capi_pc>>
    BY DriverEffect
  <1>3. ASSUME Taken PROVE /\ Lacks(outbox', "CONNECT_REQ")
                           /\ Head(outbox) = "CONNECT_REQ" => line = "idle"
    <2>1. Lacks(outbox, "CONNECT_REQ") <=> Head(outbox) # "CONNECT_REQ" /\ Lacks(outbox', "CONNECT_REQ")
      BY <1>1, <1>3, HasTail DEF Taken
    <2> QED
      BY <1>3, <2>1 DEF DownInv, ConnectReqFirst, Has, Taken
  <1>4. ConnectReqFirst'
    BY <1>2, <1>3 DEF LineMoves, DownInv, ConnectReqFirst, Has
  <1>5. Gone => Gone'
    BY <1>2, <1>3 DEF LineMoves, Gone
  <1>6. Has(inbox', "DISCONNECT_IND") => Has(inbox, "DISCONNECT_IND") \/ Gone'
    <2>1. CASE Silent
      BY <2>1 DEF Silent
    <2>2. CASE TellsOfEnd
      <3>1. Append(inbox, "DISCONNECT_B3_CONF") \in Seq(ToApplication)
        BY <1>1, AppendType, ToApplicationNames
      <3>2. Lacks(inbox, "DISCONNECT_IND") => Lacks(inbox', "DISCONNECT_IND")
        BY <1>1, <2>2, <3>1, HasAppend DEF TellsOfEnd
      <3> QED
        BY <3>2 DEF Has
    <2>3. ASSUME NEW m, Tells(m)
          PROVE  Has(inbox', "DISCONNECT_IND") => Has(inbox, "DISCONNECT_IND") \/ Gone'
      BY <1>1, <2>3, HasAppend DEF Tells, Has
    <2> QED
      BY <1>2, <2>1, <2>2, <2>3
  <1>7. EndIsReal'
    BY <1>2, <1>5, <1>6 DEF DownInv, EndIsReal
  <1> QED
    BY <1>4, <1>7 DEF DownInv

LEMMA DownNext == TypeInv /\ DownInv /\ [Next]_vars => DownInv'
  <1> SUFFICES ASSUME TypeInv, DownInv, [Next]_vars PROVE DownInv'
    OBVIOUS
  <1>1. TypeInv'
    BY TypeNext
  <1>2. CASE Next
    BY <1>1, <1>2, DownRead, DownThreads, DownDriver DEF Next
  <1>3. CASE UNCHANGED vars
    BY <1>3 DEF vars, DownInv, ConnectReqFirst, EndIsReal, Gone, Has
  <1> QED
    BY <1>2, <1>3

(* getState() = DOWN, for which the destructor and DisconnectModule wait,  *)
(* is never believed too early: the network has cleared the call.          *)
THEOREM DownIsTrue == Spec => []DownIsReal
  <1>1. DownInv => DownIsReal
    BY DEF DownInv, EndIsReal, Gone, DownIsReal, getState
  <1> QED
    BY TypeInit, TypeNext, DownInit, DownNext, <1>1, PTL DEF Spec

-----------------------------------------------------------------------------
(* What the threads do to the logical state and to registered.             *)
EndPCs == {"disconnect_ind", "disconnect_ind.callback"}

LEMMA ThreadsUp ==
    ASSUME HandlerSteps \/ ScriptCalls \/ MethodSteps
    PROVE  /\ ncci_state' = "NACT" =>
                \/ ncci_state = "NACT"
                \/ /\ capi_pc = "connect_b3_active_ind" /\ capi_pc' = "run"
                   /\ registered' = registered
           /\ capi_pc \in B3EndPCs => capi_pc' \in B3EndPCs \/ ncci_state' # "NACT"
           /\ capi_pc' = "connect_b3_active_ind" => capi_pc = capi_pc'
           /\ capi_pc' \in EndPCs => capi_pc \in EndPCs
           /\ ~registered' => ~registered \/ capi_pc = "disconnect_ind.callback"
  <1>1. CASE HandlerSteps
    <2> USE DEF EndPCs, B3EndPCs
    <2>1. CASE disconnect_b3_ind_resp \/ disconnect_b3_ind_rest
      BY <2>1 DEF disconnect_b3_ind_resp, disconnect_b3_ind_rest, InHandler, Leave
    <2>2. CASE connect_active_ind \/ connect_active_ind_active
      BY <2>2 DEF connect_active_ind, connect_active_ind_active, InHandler, Leave
    <2>3. CASE connect_b3_ind \/ connect_b3_active_ind
      BY <2>3 DEF connect_b3_ind, connect_b3_active_ind, InHandler, Leave
    <2>4. CASE disconnect_b3_ind \/ disconnect_b3_ind_callback
      <3>1. CASE disconnect_b3_ind
        <4>1. /\ capi_pc = "disconnect_b3_ind" /\ capi_pc' = "disconnect_b3_ind.callback"
              /\ UNCHANGED <<ncci_state, registered>>
          BY <3>1 DEF disconnect_b3_ind, InHandler
        <4> QED
          BY <4>1
      <3>2. CASE disconnect_b3_ind_callback
        BY <3>2 DEF disconnect_b3_ind_callback, InHandler
      <3> QED
        BY <2>4, <3>1, <3>2
    <2>5. CASE disconnect_ind \/ disconnect_ind_callback
      <3>1. CASE disconnect_ind
        BY <3>1 DEF disconnect_ind, InHandler, Leave, EndPCs
      <3>2. CASE disconnect_ind_callback
        BY <3>2 DEF disconnect_ind_callback, InHandler, Leave, EndPCs
      <3> QED
        BY <2>5, <3>1, <3>2
    <2>6. CASE connect_conf \/ connect_b3_conf \/ select_b_protocol_conf
      BY <2>6 DEF connect_conf, connect_b3_conf, select_b_protocol_conf, InHandler, Leave, EndPCs
    <2> QED
      BY <1>1, <2>1, <2>2, <2>3, <2>4, <2>5, <2>6 DEF HandlerSteps
  <1>2. CASE ScriptCalls
    BY <1>2 DEF ScriptCalls, callConnectWaiting, callChangeProtocol, callRejectWaiting,
         callAcceptWaiting, callDisconnectCall, registerCallInterface, destroy, Enter
  <1>3. CASE MethodSteps
    BY <1>3 DEF MethodSteps, connectWaiting, rejectWaiting, acceptWaiting, changeProtocol,
         disconnectLogical, disconnectKeep, disconnectPhysical, destroyed
  <1> QED
    BY <1>1, <1>2, <1>3

UnreadB3 == Has(inbox, "DISCONNECT_B3_IND") \/ capi_pc \in B3EndPCs

LEMMA UnreadIs == Unread("DISCONNECT_B3_IND") <=> UnreadB3
  BY DEF Unread, UnreadB3, B3EndPCs, Has, Lacks

LEMMA UnreadIsNext == Unread("DISCONNECT_B3_IND")' <=> UnreadB3'
  BY DEF Unread, UnreadB3, B3EndPCs, Has, Lacks

LEMMA UpInit == Init => UpInv
  <1> SUFFICES ASSUME Init PROVE UpInv
    OBVIOUS
  <1>1. /\ inbox = <<>> /\ ncci_state = "N0" /\ capi_pc = "run" /\ registered
    BY DEF Init
  <1> QED
    BY <1>1 DEF UpInv, EndFollows, StartIsReal, ActiveIsReal, EndedIsNotActive, FollowedBy

LEMMA UpThreads ==
    ASSUME TypeInv, CallbackInv, UpInv, HandlerSteps \/ ScriptCalls \/ MethodSteps
    PROVE  UpInv'
  <1> USE DEF UpInv
  <1>1. UNCHANGED <<inbox, line, link>>
    BY ThreadsEffect
  <1>2. EndFollows' /\ StartIsReal'
    BY <1>1, ThreadsUp DEF EndFollows, StartIsReal, Has
  <1>3. ActiveIsReal'
    <2>1. ncci_state = "NACT" => link = "active" \/ UnreadB3
      BY UnreadIs DEF ActiveIsReal
    <2>2. ncci_state' = "NACT" => link' = "active" \/ UnreadB3'
      BY <1>1, <2>1, ThreadsUp DEF StartIsReal, UnreadB3, Has
    <2> QED
      BY <2>2, UnreadIsNext DEF ActiveIsReal
  <1>4. EndedIsNotActive'
    BY ThreadsUp DEF EndedIsNotActive, CallbackInv, HeardDown, EndPCs
  <1> QED
    BY <1>2, <1>3, <1>4

LEMMA UpRead == ASSUME TypeInv, CallbackInv, UpInv, readMessage PROVE UpInv'
  <1> USE DEF UpInv
  <1>1. inbox \in Seq(ToApplication) /\ inbox # <<>> /\ inbox' = Tail(inbox)
    BY DEF readMessage, TypeInv, InboxOK
  <1>2. Head(inbox) \in ToApplication
    BY <1>1, TailType
  <1>3. /\ capi_pc = "run"
        /\ capi_pc' = "run" \/ HandlerFor(Head(inbox), capi_pc')
        /\ UNCHANGED <<link, ncci_state, registered>>
    BY <1>2, HandlerIs DEF readMessage
  <1>4. \A e : Lacks(inbox, e) <=> Head(inbox) # e /\ Lacks(inbox', e)
    BY <1>1, HasTail
  <1>5. FollowedBy(inbox, "CONNECT_B3_ACTIVE_IND", "DISCONNECT_B3_IND") =>
          /\ FollowedBy(inbox', "CONNECT_B3_ACTIVE_IND", "DISCONNECT_B3_IND")
          /\ Head(inbox) = "CONNECT_B3_ACTIVE_IND" => Has(inbox', "DISCONNECT_B3_IND")
    BY <1>1, TailOrder DEF Has
  <1>6. EndFollows'
    BY <1>3, <1>5 DEF EndFollows
  <1>7. StartIsReal'
    BY <1>3, <1>5 DEF EndFollows, StartIsReal, HandlerFor
  <1>8. ActiveIsReal'
    <2> SUFFICES ASSUME ncci_state = "NACT", link # "active" PROVE UnreadB3'
      BY <1>3, UnreadIsNext DEF ActiveIsReal
    <2>1. registered /\ Has(inbox, "DISCONNECT_B3_IND")
      BY <1>3, UnreadIs DEF ActiveIsReal, EndedIsNotActive, UnreadB3, B3EndPCs
    <2>2. CASE Head(inbox) = "DISCONNECT_B3_IND"
      <3>1. Accepts("DISCONNECT_B3_IND")
        BY DEF Accepts, AcceptsInd, Indications
      <3>2. capi_pc' = "disconnect_b3_ind"
        BY <2>1, <2>2, <3>1 DEF readMessage, Handler
      <3> QED
        BY <3>2 DEF UnreadB3, B3EndPCs
    <2>3. CASE Head(inbox) # "DISCONNECT_B3_IND"
      BY <1>4, <2>1, <2>3 DEF Has, UnreadB3
    <2> QED
      BY <2>2, <2>3
  <1>9. EndedIsNotActive'
    BY <1>3 DEF EndedIsNotActive, HandlerFor
  <1> QED
    BY <1>6, <1>7, <1>8, <1>9

LEMMA UpDriver == ASSUME TypeInv, UpInv, Driver PROVE UpInv'
  <1> USE DEF UpInv
  <1>1. inbox \in Seq(ToApplication)
    BY DEF TypeInv, InboxOK
  <1>2. /\ Silent \/ TellsOfEnd \/ \E m : Tells(m)
        /\ UNCHANGED <<ncci_state, capi_pc, registered>>
    BY DriverEffect
  <1>3. ASSUME NEW q \in Seq(ToApplication), NEW m
        PROVE  /\ \A e : Has(Append(q, m), e) <=> Has(q, e) \/ m = e
               /\ FollowedBy(q, "CONNECT_B3_ACTIVE_IND", "DISCONNECT_B3_IND")
                    /\ m # "CONNECT_B3_ACTIVE_IND"
                    => FollowedBy(Append(q, m), "CONNECT_B3_ACTIVE_IND", "DISCONNECT_B3_IND")
               /\ m = "DISCONNECT_B3_IND"
                    => FollowedBy(Append(q, m), "CONNECT_B3_ACTIVE_IND", "DISCONNECT_B3_IND")
    <2>1. \A e : Has(Append(q, m), e) <=> Has(q, e) \/ m = e
      BY HasAppend DEF Has
    <2> QED
      BY <2>1, AppendOrder
  <1>4. /\ link = "active" => link' = "active" \/ Has(inbox', "DISCONNECT_B3_IND")
        /\ Has(inbox, "DISCONNECT_B3_IND") => Has(inbox', "DISCONNECT_B3_IND")
        /\ EndFollows'
    <2>1. CASE Silent
      BY <2>1 DEF Silent, EndFollows
    <2>2. CASE TellsOfEnd
      <3>1. Append(inbox, "DISCONNECT_B3_CONF") \in Seq(ToApplication)
        BY <1>1, AppendType, ToApplicationNames
      <3>2. /\ Has(inbox', "DISCONNECT_B3_IND")
            /\ FollowedBy(inbox', "CONNECT_B3_ACTIVE_IND", "DISCONNECT_B3_IND")
        BY <2>2, <3>1, <1>3 DEF TellsOfEnd
      <3> QED
        BY <3>2 DEF EndFollows
    <2>3. ASSUME NEW m, Tells(m)
          PROVE  /\ link = "active" => link' = "active" \/ Has(inbox', "DISCONNECT_B3_IND")
                 /\ Has(inbox, "DISCONNECT_B3_IND") => Has(inbox', "DISCONNECT_B3_IND")
                 /\ EndFollows'
      <3>1. /\ inbox' = Append(inbox, m)
            /\ m = "CONNECT_B3_ACTIVE_IND" => link' = "active"
            /\ m # "DISCONNECT_B3_IND" => (link = "active" => link' = "active")
        BY <2>3 DEF Tells
      <3> QED
        BY <1>1, <1>3, <3>1 DEF EndFollows
    <2> QED
      BY <1>2, <2>1, <2>2, <2>3
  <1>5. StartIsReal' /\ EndedIsNotActive'
    BY <1>2, <1>4 DEF StartIsReal, EndedIsNotActive
  <1>6. ActiveIsReal'
    BY <1>2, <1>4, UnreadIs, UnreadIsNext DEF ActiveIsReal, UnreadB3
  <1> QED
    BY <1>4, <1>5, <1>6

LEMMA CallbackNext == TypeInv /\ CallbackInv /\ [Next]_vars => CallbackInv'
  <1> SUFFICES ASSUME TypeInv, CallbackInv, [Next]_vars PROVE CallbackInv'
    OBVIOUS
  <1>1. CASE Next
    BY <1>1, CallbackRead, CallbackHandlers, CallbackCalls, CallbackMethods, CallbackDriver
       DEF Next
  <1>2. CASE UNCHANGED vars
    BY <1>2 DEF vars, CallbackInv, NoLinkYet, CallerGetsNoB3Ind, HeardConnected,
       HeardDown, HeardByUser, ConfPC, WaitingIsIncoming
  <1> QED
    BY <1>1, <1>2

LEMMA UpNext == TypeInv /\ CallbackInv /\ UpInv /\ [Next]_vars => UpInv'
  <1> SUFFICES ASSUME TypeInv, CallbackInv, UpInv, [Next]_vars PROVE UpInv'
    OBVIOUS
  <1>1. CASE Next
    BY <1>1, UpRead, UpThreads, UpDriver DEF Next
  <1>2. CASE UNCHANGED vars
    <2>1. UNCHANGED <<inbox, link, capi_pc, ncci_state, registered>>
      BY <1>2 DEF vars
    <2>2. ActiveIsReal'
      BY <2>1, UnreadIs, UnreadIsNext DEF UpInv, ActiveIsReal, UnreadB3, Has
    <2> QED
      BY <2>1, <2>2 DEF UpInv, EndFollows, StartIsReal, EndedIsNotActive, Has
  <1> QED
    BY <1>1, <1>2

(* getState() = UP, in which a script starts to send and receive, is true  *)
(* of the network, or the end of the link is in the queue: no B3 active    *)
(* indication is taken for news after the link has ended and been forgotten*)
THEOREM UpIsTrue == Spec => []UpIsReal
  <1>1. UpInv => UpIsReal
    BY DEF UpInv, ActiveIsReal, UpIsReal, getState
  <1> QED
    BY TypeInit, TypeNext, CallbackInit, CallbackNext, UpInit, UpNext, <1>1, PTL DEF Spec

-----------------------------------------------------------------------------
(* From here on no thread runs inside a method of the other.  Tests first. *)
LEMMA TestsRead == ASSUME ~Overlap, TypeInv, TestsHold, readMessage PROVE TestsHold'
  <1>1. Head(inbox) \in ToApplication
    <2>1. inbox \in Seq(ToApplication) /\ inbox # <<>>
      BY DEF readMessage, TypeInv, InboxOK
    <2> QED
      BY <2>1, TailType
  <1>2. /\ app_pc \in Between
        /\ capi_pc' = "run" \/ HandlerFor(Head(inbox), capi_pc')
        /\ UNCHANGED <<plci_state, ncci_state, app_pc>>
    BY <1>1, HandlerIs DEF readMessage, CapiMayRun
  <1>3. /\ app_pc' \notin {"connectWaiting", "rejectWaiting", "acceptWaiting",
                           "disconnect.logical", "disconnect.physical"}
        /\ app_pc' \in Between
    BY <1>2 DEF Between
  <1> QED
    BY <1>2, <1>3 DEF TestsHold, HandlerFor, B3EndPCs, ActivePCs

LEMMA TestsHandlers == ASSUME ~Overlap, TestsHold, HandlerSteps PROVE TestsHold'
  <1> USE DEF InHandler, Leave, CapiMayRun, B3EndPCs, ActivePCs
  <1>1. /\ app_pc' \in Between
        /\ \/ capi_pc' = "run"
           \/ capi_pc' = "connect_active_ind.active" /\ plci_state' \in {"P4", "P1"}
           \/ /\ capi_pc' = "disconnect_b3_ind.callback"
              /\ ncci_state' \in {"NACT", "N1", "N2", "N3", "N4"}
           \/ capi_pc' = "disconnect_b3_ind.resp" /\ ncci_state' = "N5"
           \/ capi_pc' = "disconnect_b3_ind.rest" /\ ncci_state' = "N0"
           \/ capi_pc' = "disconnect_ind.callback" /\ plci_state' = "P0"
    <2>1. CASE disconnect_b3_ind \/ disconnect_b3_ind_callback
      BY <2>1 DEF disconnect_b3_ind, disconnect_b3_ind_callback, TestsHold
    <2>2. CASE disconnect_b3_ind_resp \/ disconnect_b3_ind_rest
      BY <2>2 DEF disconnect_b3_ind_resp, disconnect_b3_ind_rest
    <2>3. CASE connect_active_ind \/ connect_active_ind_active
      BY <2>3 DEF connect_active_ind, connect_active_ind_active, TestsHold
    <2> QED
      BY <2>1, <2>2, <2>3 DEF HandlerSteps, connect_b3_ind, connect_b3_active_ind,
         disconnect_ind, disconnect_ind_callback, connect_conf,
         connect_b3_conf, select_b_protocol_conf
  <1> QED
    BY <1>1 DEF TestsHold, Between

LEMMA TestsCalls == ASSUME ~Overlap, TestsHold, ScriptCalls PROVE TestsHold'
  <1> USE DEF TestsHold, Enter, AppMayRun, LogicalUp, PhysicalUp, B3EndPCs, ActivePCs
  <1>1. CASE \E sv \in Services : callConnectWaiting(sv) \/ callChangeProtocol(sv)
    <2>1. /\ app_pc' \in {"connectWaiting", "changeProtocol"} /\ capi_pc' = "run"
          /\ app_pc' = "connectWaiting" => plci_state' = "P2"
      BY <1>1 DEF callConnectWaiting, callChangeProtocol
    <2> QED
      BY <2>1
  <1>2. CASE callRejectWaiting \/ callAcceptWaiting
    <2>1. /\ app_pc' \in {"rejectWaiting", "acceptWaiting"} /\ capi_pc' = "run"
          /\ plci_state' = "P2"
      BY <1>2 DEF callRejectWaiting, callAcceptWaiting
    <2> QED
      BY <2>1
  <1>3. CASE \E mode \in Modes : callDisconnectCall(mode)
    <2>1. /\ \/ app_pc' = "disconnect.logical" /\ LogicalUp'
             \/ app_pc' = "disconnect.physical" /\ PhysicalUp'
          /\ capi_pc' = "run"
      BY <1>3 DEF callDisconnectCall, Disconnect
    <2> QED
      BY <2>1
  <1>4. CASE registerCallInterface
    BY <1>4 DEF registerCallInterface, In
  <1>5. CASE destroy
    <2>1. app_pc' \in {"~Connection", "deleted"} /\ capi_pc' = "run"
      BY <1>5 DEF destroy, In
    <2> QED
      BY <2>1
  <1> QED
    BY <1>1, <1>2, <1>3, <1>4, <1>5 DEF ScriptCalls

LEMMA TestsMethods == ASSUME ~Overlap, MethodSteps PROVE TestsHold'
  <1>1. app_pc' \in {"script", "disconnect.keep", "deleted"} /\ capi_pc' = "run"
    BY DEF MethodSteps, connectWaiting, rejectWaiting, acceptWaiting, changeProtocol,
       disconnectLogical, disconnectKeep, disconnectPhysical, destroyed, In, Return, AppMayRun
  <1> QED
    BY <1>1 DEF TestsHold, B3EndPCs, ActivePCs

LEMMA TestsNext == ASSUME ~Overlap PROVE TypeInv /\ TestsHold /\ [Next]_vars => TestsHold'
  <1> SUFFICES ASSUME TypeInv, TestsHold, [Next]_vars PROVE TestsHold'
    OBVIOUS
  <1>1. CASE Driver \/ UNCHANGED vars
    BY <1>1 DEF vars, Driver, TestsHold, LogicalUp, PhysicalUp
  <1> QED
    BY <1>1, TestsRead, TestsHandlers, TestsCalls, TestsMethods DEF Next

(* With the tests still valid, no step leaves P0 and none starts a link in *)
(* it, and a call is unregistered in P0 only.                              *)
DownStep ==
    /\ plci_state = "P0" => plci_state' = "P0" /\ ncci_state' = ncci_state
    /\ plci_state' = "P0" => plci_state = "P0" \/ capi_pc = "disconnect_ind"
    /\ capi_pc = "disconnect_ind" => ncci_state' = ncci_state
    /\ capi_pc' = "disconnect_ind" => capi_pc = "disconnect_ind"
    /\ capi_pc' = "connect_b3_ind" => capi_pc = "connect_b3_ind"
    /\ capi_pc = "connect_b3_ind" => plci_state' = plci_state
    /\ capi_pc' = "disconnect_b3_ind.rest" => plci_state' # "P0"
    /\ ~registered' => ~registered \/ plci_state = "P0"

LEMMA DownStepHandlers ==
    ASSUME ~Overlap, TestsHold, DownHasNoLink, HandlerSteps
    PROVE  DownStep
  <1> USE DEF TestsHold, DownHasNoLink, DownStep, InHandler, Leave, B3EndPCs, ActivePCs
  <1>1. CASE connect_active_ind \/ connect_active_ind_active
    BY <1>1 DEF connect_active_ind, connect_active_ind_active
  <1>2. CASE connect_b3_ind \/ connect_b3_active_ind
    BY <1>2 DEF connect_b3_ind, connect_b3_active_ind
  <1>3. CASE disconnect_b3_ind \/ disconnect_b3_ind_callback
    BY <1>3 DEF disconnect_b3_ind, disconnect_b3_ind_callback
  <1>4. CASE disconnect_b3_ind_resp \/ disconnect_b3_ind_rest
    BY <1>4 DEF disconnect_b3_ind_resp, disconnect_b3_ind_rest
  <1>5. CASE disconnect_ind
    BY <1>5 DEF disconnect_ind
  <1>6. CASE disconnect_ind_callback
    BY <1>6 DEF disconnect_ind_callback
  <1>7. CASE connect_conf
    BY <1>7 DEF connect_conf
  <1>8. CASE connect_b3_conf
    <2>1. /\ capi_pc \in {"connect_b3_conf", "connect_b3_conf.refused"} /\ capi_pc' = "run"
          /\ UNCHANGED <<registered, plci_state>>
      BY <1>8 DEF connect_b3_conf
    <2> QED
      BY <2>1
  <1>9. CASE select_b_protocol_conf
    BY <1>9 DEF select_b_protocol_conf
  <1> QED
    BY <1>1, <1>2, <1>3, <1>4, <1>5, <1>6, <1>7, <1>8, <1>9 DEF HandlerSteps

LEMMA DownStepScript ==
    ASSUME ~Overlap, TestsHold, DownHasNoLink, ScriptCalls \/ MethodSteps
    PROVE  DownStep
  <1> USE DEF TestsHold, DownHasNoLink, DownStep, In, AppMayRun, LogicalUp, PhysicalUp
  <1>1. CASE ScriptCalls
    <2>1. CASE destroy
      BY <2>1 DEF destroy
    <2> QED
      BY <1>1, <2>1 DEF ScriptCalls, callConnectWaiting, callChangeProtocol, callRejectWaiting,
         callAcceptWaiting, callDisconnectCall, registerCallInterface, Enter
  <1>2. CASE MethodSteps
    BY <1>2 DEF MethodSteps, connectWaiting, rejectWaiting, acceptWaiting, changeProtocol,
       disconnectLogical, disconnectKeep, disconnectPhysical, destroyed
  <1> QED
    BY <1>1, <1>2

LEMMA FinalThreads ==
    ASSUME ~Overlap, TypeInv, TestsHold, DownHasNoLink, HandlerSteps \/ ScriptCalls \/ MethodSteps
    PROVE  DownStep /\ DownHasNoLink'
  <1>1. DownStep
    BY DownStepHandlers, DownStepScript
  <1>2. inbox' = inbox
    BY ThreadsEffect
  <1> QED
    BY <1>1, <1>2 DEF DownStep, TestsHold, DownHasNoLink, Lacks, NoneAfter

LEMMA FinalRead ==
    ASSUME ~Overlap, TypeInv, DownHasNoLink, readMessage
    PROVE  plci_state' = plci_state /\ DownHasNoLink'
  <1>1. inbox \in Seq(ToApplication) /\ inbox # <<>> /\ inbox' = Tail(inbox)
    BY DEF readMessage, TypeInv, InboxOK
  <1>2. Head(inbox) \in ToApplication
    BY <1>1, TailType
  <1>3. /\ capi_pc' = "run" \/ HandlerFor(Head(inbox), capi_pc')
        /\ UNCHANGED <<plci_state, ncci_state, registered>>
    BY <1>2, HandlerIs DEF readMessage
  <1>4. \A e : Lacks(inbox, e) <=> Head(inbox) # e /\ Lacks(inbox', e)
    BY <1>1, HasTail
  <1>5. /\ NoneAfter(inbox', "DISCONNECT_IND", "CONNECT_B3_IND")
        /\ Head(inbox) = "DISCONNECT_IND" => Lacks(inbox', "CONNECT_B3_IND")
    BY <1>1, TailOrder DEF DownHasNoLink
  <1> QED
    BY <1>3, <1>4, <1>5 DEF DownHasNoLink, HandlerFor

LEMMA FinalDriver ==
    ASSUME TypeInv, DownInv, DownHasNoLink, Driver
    PROVE  plci_state' = plci_state /\ DownHasNoLink'
  <1>1. inbox \in Seq(ToApplication)
    BY DEF TypeInv, InboxOK
  <1>2. /\ Silent \/ TellsOfEnd \/ \E m : Tells(m)
        /\ UNCHANGED <<plci_state, ncci_state, registered, capi_pc>>
    BY DriverEffect
  <1>3. ASSUME NEW q \in Seq(ToApplication), NEW m
        PROVE  /\ \A e : Lacks(Append(q, m), e) <=> Lacks(q, e) /\ m # e
               /\ m # "CONNECT_B3_IND" \/ Lacks(q, "DISCONNECT_IND")
                    => (NoneAfter(q, "DISCONNECT_IND", "CONNECT_B3_IND")
                          => NoneAfter(Append(q, m), "DISCONNECT_IND", "CONNECT_B3_IND"))
    <2>1. \A e : Lacks(Append(q, m), e) <=> Lacks(q, e) /\ m # e
      BY HasAppend
    <2> QED
      BY <2>1, AppendOrder
  <1>4. /\ NoneAfter(inbox', "DISCONNECT_IND", "CONNECT_B3_IND")
        /\ (plci_state = "P0" \/ capi_pc = "disconnect_ind") /\ Lacks(inbox, "CONNECT_B3_IND")
             => Lacks(inbox', "CONNECT_B3_IND")
    <2>1. CASE Silent
      BY <2>1 DEF Silent, DownHasNoLink
    <2>2. CASE TellsOfEnd
      <3>1. Append(inbox, "DISCONNECT_B3_CONF") \in Seq(ToApplication)
        BY <1>1, AppendType, ToApplicationNames
      <3>2. /\ NoneAfter(Append(inbox, "DISCONNECT_B3_CONF"), "DISCONNECT_IND", "CONNECT_B3_IND")
            /\ Lacks(inbox, "CONNECT_B3_IND")
                 => Lacks(Append(inbox, "DISCONNECT_B3_CONF"), "CONNECT_B3_IND")
        BY <1>1, <1>3 DEF DownHasNoLink
      <3> QED
        BY <1>3, <2>2, <3>1, <3>2 DEF TellsOfEnd
    <2>3. ASSUME NEW m, Tells(m)
          PROVE  /\ NoneAfter(inbox', "DISCONNECT_IND", "CONNECT_B3_IND")
                 /\ (plci_state = "P0" \/ capi_pc = "disconnect_ind")
                      /\ Lacks(inbox, "CONNECT_B3_IND")
                      => Lacks(inbox', "CONNECT_B3_IND")
      <3>1. inbox' = Append(inbox, m) /\ (m = "CONNECT_B3_IND" => ~Gone)
        BY <2>3 DEF Tells, Gone
      <3>2. m = "CONNECT_B3_IND" => /\ Lacks(inbox, "DISCONNECT_IND")
                                    /\ plci_state # "P0" /\ capi_pc # "disconnect_ind"
        BY <3>1 DEF DownInv, EndIsReal, Has
      <3> QED
        BY <1>1, <1>3, <3>1, <3>2 DEF DownHasNoLink
    <2> QED
      BY <1>2, <2>1, <2>2, <2>3
  <1> QED
    BY <1>2, <1>4 DEF DownHasNoLink

FinalStep == plci_state = "P0" => plci_state' = "P0"

LEMMA FinalInit == Init => FinalInv
  <1> SUFFICES ASSUME Init PROVE FinalInv
    OBVIOUS
  <1>1. /\ inbox = <<>> /\ ncci_state = "N0" /\ capi_pc = "run" /\ app_pc = "script" /\ registered
        /\ plci_state # "P0"
    BY DEF Init, InitIncoming, InitOutgoing
  <1> QED
    BY <1>1 DEF FinalInv, TestsHold, DownHasNoLink, B3EndPCs, ActivePCs, Lacks, NoneAfter

LEMMA FinalNext ==
    ASSUME ~Overlap
    PROVE  TypeInv /\ DownInv /\ FinalInv /\ [Next]_vars => FinalInv' /\ [FinalStep]_vars
  <1> SUFFICES ASSUME TypeInv, DownInv, FinalInv, [Next]_vars
               PROVE  FinalInv' /\ [FinalStep]_vars
    OBVIOUS
  <1> USE DEF FinalInv
  <1>1. TestsHold'
    BY TestsNext
  <1>2. CASE Next
    <2>1. DownHasNoLink' /\ FinalStep
      BY <1>2, FinalRead, FinalThreads, FinalDriver DEF Next, FinalStep, DownStep
    <2> QED
      BY <1>1, <2>1
  <1>3. CASE UNCHANGED vars
    <2>1. DownHasNoLink'
      BY <1>3 DEF vars, DownHasNoLink, Lacks, NoneAfter
    <2> QED
      BY <1>1, <1>3, <2>1
  <1> QED
    BY <1>2, <1>3

(* A call that is down stays down, for every pattern of failing puts, as   *)
(* long as no thread runs inside a method of the other: then what a method *)
(* has tested is not stale, and the network offers no link any more.       *)
THEOREM DownStaysDown == ASSUME ~Overlap PROVE Spec => DownIsFinal
  <1>1. Init => TypeInv /\ DownInv /\ FinalInv
    BY TypeInit, DownInit, FinalInit
  <1>2. TypeInv /\ DownInv /\ FinalInv /\ [Next]_vars
          => (TypeInv /\ DownInv /\ FinalInv)' /\ [FinalStep]_vars
    BY TypeNext, DownNext, FinalNext
  <1>3. Spec => [][FinalStep]_vars
    BY <1>1, <1>2, PTL DEF Spec
  <1> QED
    BY <1>3 DEF DownIsFinal, FinalStep

-----------------------------------------------------------------------------
(* A call that waits or was just accepted.  No handler leaves one behind,  *)
(* but the first part of connect_active_ind to the second.                 *)
LEMMA HandlersEndWaiting ==
    ASSUME ~Overlap, TypeInv, TestsHold, DownHasNoLink, WaitingHasNoLink, HandlerSteps
    PROVE  \/ plci_state' \notin {"P2", "P4"}
           \/ /\ plci_state = "P4" /\ plci_state' = "P4" /\ ncci_state' = ncci_state
              /\ capi_pc' = "connect_active_ind.active"
  <1> USE DEF TestsHold, InHandler, WaitingHasNoLink, B3EndPCs, ActivePCs
  <1>1. CASE disconnect_b3_ind_resp \/ disconnect_b3_ind_rest
    BY <1>1 DEF disconnect_b3_ind_resp, disconnect_b3_ind_rest
  <1>2. CASE connect_active_ind \/ connect_active_ind_active \/ disconnect_ind \/ connect_conf
    BY <1>2 DEF connect_active_ind, connect_active_ind_active, disconnect_ind, connect_conf
  <1>3. CASE \/ connect_b3_ind \/ connect_b3_active_ind
             \/ disconnect_b3_ind \/ disconnect_b3_ind_callback
    BY <1>3 DEF connect_b3_ind, connect_b3_active_ind, disconnect_b3_ind, disconnect_b3_ind_callback
  <1>4. CASE disconnect_ind_callback \/ select_b_protocol_conf
    BY <1>4 DEF disconnect_ind_callback, select_b_protocol_conf
  <1>5. CASE connect_b3_conf
    BY <1>5 DEF connect_b3_conf
  <1> QED
    BY <1>1, <1>2, <1>3, <1>4, <1>5 DEF HandlerSteps

(* The script makes one an accepted one, and starts no link in it.         *)
LEMMA ScriptKeepsWaiting ==
    ASSUME ~Overlap, TestsHold, WaitingHasNoLink, ScriptCalls \/ MethodSteps
    PROVE  /\ plci_state' = "P2" => plci_state = "P2" /\ app_pc # "connectWaiting"
           /\ plci_state' = "P4" => plci_state \in {"P2", "P4"}
           /\ plci_state' \in {"P2", "P4"} => ncci_state' = ncci_state
           /\ capi_pc' = capi_pc
  <1>1. CASE ScriptCalls
    <2>1. CASE destroy
      BY <2>1 DEF destroy, In
    <2> QED
      BY <1>1, <2>1 DEF ScriptCalls, callConnectWaiting, callChangeProtocol, callRejectWaiting,
         callAcceptWaiting, callDisconnectCall, registerCallInterface, Enter, In
  <1>2. CASE MethodSteps
    <2>1. CASE disconnectLogical
      BY <2>1 DEF disconnectLogical, In, TestsHold, LogicalUp, WaitingHasNoLink
    <2> QED
      BY <1>2, <2>1 DEF MethodSteps, connectWaiting, rejectWaiting, acceptWaiting, changeProtocol,
         disconnectKeep, disconnectPhysical, destroyed, TestsHold, In
  <1> QED
    BY <1>1, <1>2

LEMMA WaitingInit == Init => WaitingHasNoLink
  <1> SUFFICES ASSUME Init PROVE WaitingHasNoLink
    OBVIOUS
  <1>1. /\ inbox = <<>> /\ ncci_state = "N0" /\ capi_pc = "run" /\ plci_state # "P4"
        /\ plci_state = "P2" => line = "offered" /\ outbox = <<>>
    BY DEF Init, InitIncoming, InitOutgoing
  <1> QED
    BY <1>1 DEF WaitingHasNoLink, Lacks

LEMMA WaitingThreads ==
    ASSUME ~Overlap, TypeInv, FinalInv, WaitingHasNoLink, HandlerSteps \/ ScriptCalls \/ MethodSteps
    PROVE  WaitingHasNoLink'
  <1> USE DEF FinalInv
  <1>1. CASE HandlerSteps
    BY <1>1, HandlersEndWaiting DEF WaitingHasNoLink, ActivePCs
  <1>2. CASE ScriptCalls \/ MethodSteps
    <2>1. UNCHANGED <<inbox, line, link>>
      BY <1>2, ThreadsEffect
    <2>2. plci_state' = "P2" => Lacks(outbox', "CONNECT_RESP")
      BY <1>2, ScriptKeepsWaiting, ThreadsPut DEF WaitingHasNoLink
    <2>3. plci_state' = "P4" => \/ capi_pc' \in ActivePCs
                                \/ /\ PrecededBy(inbox', "CONNECT_B3_IND", "CONNECT_ACTIVE_IND")
                                   /\ line' = "active" => Has(inbox', "CONNECT_ACTIVE_IND")
      BY <1>2, <2>1, ScriptKeepsWaiting DEF WaitingHasNoLink, Lacks, PrecededBy, Has
    <2>4. plci_state' = "P2" =>
             /\ line' \in {"offered", "clearing", "cleared", "released"}
             /\ Lacks(inbox', "CONNECT_ACTIVE_IND") /\ Lacks(inbox', "CONNECT_B3_IND")
      BY <1>2, <2>1, ScriptKeepsWaiting DEF WaitingHasNoLink
    <2> QED
      BY <1>2, <2>2, <2>3, <2>4, ScriptKeepsWaiting DEF WaitingHasNoLink
  <1> QED
    BY <1>1, <1>2

LEMMA WaitingRead ==
    ASSUME ~Overlap, TypeInv, FinalInv, WaitingHasNoLink, readMessage
    PROVE  WaitingHasNoLink'
  <1>1. inbox \in Seq(ToApplication) /\ inbox # <<>> /\ inbox' = Tail(inbox)
    BY DEF readMessage, TypeInv, InboxOK
  <1>2. Head(inbox) \in ToApplication
    BY <1>1, TailType
  <1>3. /\ capi_pc = "run"
        /\ capi_pc' = "run" \/ HandlerFor(Head(inbox), capi_pc')
        /\ UNCHANGED <<plci_state, ncci_state, outbox, line>>
    BY <1>2, HandlerIs DEF readMessage
  <1>4. \A e : Lacks(inbox, e) <=> Head(inbox) # e /\ Lacks(inbox', e)
    BY <1>1, HasTail
  <1>5. CASE plci_state = "P2"
    BY <1>3, <1>4, <1>5 DEF WaitingHasNoLink, HandlerFor
  <1>6. CASE plci_state = "P4"
    <2>1. /\ PrecededBy(inbox, "CONNECT_B3_IND", "CONNECT_ACTIVE_IND")
          /\ line = "active" => Has(inbox, "CONNECT_ACTIVE_IND")
      BY <1>3, <1>6 DEF WaitingHasNoLink, ActivePCs
    <2>2. /\ Head(inbox) # "CONNECT_B3_IND"
          /\ Head(inbox) # "CONNECT_ACTIVE_IND"
               => PrecededBy(inbox', "CONNECT_B3_IND", "CONNECT_ACTIVE_IND")
      BY <1>1, <2>1, TailOrder
    <2>3. Head(inbox) = "CONNECT_ACTIVE_IND" => capi_pc' = "connect_active_ind"
      <3>1. registered
        BY <1>6 DEF FinalInv, DownHasNoLink
      <3>2. Accepts("CONNECT_ACTIVE_IND")
        BY <1>6 DEF Accepts, AcceptsInd, Indications
      <3> QED
        BY <3>1, <3>2 DEF readMessage, Handler
    <2> QED
      BY <1>3, <1>4, <1>6, <2>1, <2>2, <2>3 DEF WaitingHasNoLink, HandlerFor, Has, ActivePCs
  <1> QED
    BY <1>3, <1>5, <1>6 DEF WaitingHasNoLink

LEMMA WaitingDriver ==
    ASSUME TypeInv, DownInv, WaitingHasNoLink, Driver
    PROVE  WaitingHasNoLink'
  <1>1. inbox \in Seq(ToApplication) /\ outbox \in Seq(ToDriver)
    BY DEF TypeInv, InboxOK, OutboxOK
  <1>2. /\ Silent \/ TellsOfEnd \/ \E m : Tells(m)
        /\ LineMoves
        /\ UNCHANGED <<plci_state, ncci_state, capi_pc>>
    BY DriverEffect
  <1>3. ASSUME NEW q \in Seq(ToApplication), NEW m
        PROVE  /\ \A e : Lacks(Append(q, m), e) <=> Lacks(q, e) /\ m # e
               /\ m # "CONNECT_B3_IND" \/ Has(q, "CONNECT_ACTIVE_IND")
                    => (PrecededBy(q, "CONNECT_B3_IND", "CONNECT_ACTIVE_IND")
                          => PrecededBy(Append(q, m), "CONNECT_B3_IND", "CONNECT_ACTIVE_IND"))
    <2>1. \A e : Lacks(Append(q, m), e) <=> Lacks(q, e) /\ m # e
      BY HasAppend
    <2> QED
      BY <2>1, AppendOrder DEF Has
  <1>4. TellsOfEnd => Append(inbox, "DISCONNECT_B3_CONF") \in Seq(ToApplication)
    BY <1>1, AppendType, ToApplicationNames
  <1>5. CASE plci_state = "P2"
    <2>1. /\ NotAnswered /\ Lacks(outbox, "CONNECT_RESP")
          /\ Lacks(inbox, "CONNECT_ACTIVE_IND") /\ Lacks(inbox, "CONNECT_B3_IND")
      BY <1>5 DEF WaitingHasNoLink, NotAnswered
    <2>2. /\ Taken => Head(outbox) \notin {"CONNECT_REQ", "CONNECT_RESP"}
          /\ Lacks(outbox', "CONNECT_RESP")
      <3>1. CASE Taken
        <4>1. \A e : Lacks(outbox, e) <=> Head(outbox) # e /\ Lacks(outbox', e)
          BY <1>1, <3>1, HasTail DEF Taken
        <4> QED
          BY <2>1, <4>1 DEF DownInv, ConnectReqFirst, Has, NotAnswered
      <3>2. CASE ~Taken
        BY <1>2, <2>1, <3>2 DEF LineMoves
      <3> QED
        BY <3>1, <3>2
    <2>3. NotAnswered'
      BY <1>2, <2>1, <2>2 DEF LineMoves
    <2>4. Lacks(inbox', "CONNECT_ACTIVE_IND") /\ Lacks(inbox', "CONNECT_B3_IND")
      <3>1. CASE Silent
        BY <2>1, <3>1 DEF Silent
      <3>2. CASE TellsOfEnd
        BY <1>1, <1>3, <1>4, <2>1, <3>2 DEF TellsOfEnd
      <3>3. ASSUME NEW m, Tells(m)
            PROVE  Lacks(inbox', "CONNECT_ACTIVE_IND") /\ Lacks(inbox', "CONNECT_B3_IND")
        <4>1. inbox' = Append(inbox, m) /\ m # "CONNECT_B3_IND" /\ m # "CONNECT_ACTIVE_IND"
          BY <2>1, <3>3 DEF Tells, NotAnswered
        <4> QED
          BY <1>1, <1>3, <2>1, <4>1
      <3> QED
        BY <1>2, <3>1, <3>2, <3>3
    <2> QED
      BY <1>2, <1>5, <2>2, <2>3, <2>4 DEF WaitingHasNoLink, NotAnswered
  <1>6. CASE plci_state = "P4" /\ capi_pc \notin ActivePCs
    <2>1. /\ PrecededBy(inbox, "CONNECT_B3_IND", "CONNECT_ACTIVE_IND")
          /\ line = "active" => Has(inbox, "CONNECT_ACTIVE_IND")
      BY <1>6 DEF WaitingHasNoLink
    <2>2. /\ PrecededBy(inbox', "CONNECT_B3_IND", "CONNECT_ACTIVE_IND")
          /\ line' = "active" => Has(inbox', "CONNECT_ACTIVE_IND")
      <3>1. CASE Silent
        BY <2>1, <3>1 DEF Silent
      <3>2. CASE TellsOfEnd
        <4>1. PrecededBy(Append(inbox, "DISCONNECT_B3_CONF"), "CONNECT_B3_IND", "CONNECT_ACTIVE_IND")
          BY <1>1, <1>3, <2>1
        <4> QED
          BY <1>1, <1>3, <1>4, <2>1, <3>2, <4>1 DEF TellsOfEnd, Has
      <3>3. ASSUME NEW m, Tells(m)
            PROVE  /\ PrecededBy(inbox', "CONNECT_B3_IND", "CONNECT_ACTIVE_IND")
                   /\ line' = "active" => Has(inbox', "CONNECT_ACTIVE_IND")
        <4>1. /\ inbox' = Append(inbox, m)
              /\ m = "CONNECT_B3_IND" => line = "active"
              /\ m # "CONNECT_ACTIVE_IND" => (line' = "active" => line = "active")
          BY <3>3 DEF Tells
        <4> QED
          BY <1>1, <1>3, <2>1, <4>1 DEF Has
      <3> QED
        BY <1>2, <3>1, <3>2, <3>3
    <2> QED
      BY <1>2, <1>6, <2>2 DEF WaitingHasNoLink
  <1> QED
    BY <1>2, <1>5, <1>6 DEF WaitingHasNoLink

LEMMA WaitingNext ==
    ASSUME ~Overlap
    PROVE  TypeInv /\ DownInv /\ FinalInv /\ WaitingHasNoLink /\ [Next]_vars => WaitingHasNoLink'
  <1> SUFFICES ASSUME TypeInv, DownInv, FinalInv, WaitingHasNoLink, [Next]_vars
               PROVE  WaitingHasNoLink'
    OBVIOUS
  <1>1. CASE Next
    BY <1>1, WaitingRead, WaitingThreads, WaitingDriver DEF Next
  <1>2. CASE UNCHANGED vars
    BY <1>2 DEF vars, WaitingHasNoLink, Has
  <1> QED
    BY <1>1, <1>2

-----------------------------------------------------------------------------
(* Each step is one of CallState's, or changes nothing a user sees.        *)
ContractStep == [Contract!Next]_(Contract!vars)

LEMMA ContractInit == Init => Contract!Init
  BY DEF Init, InitIncoming, InitOutgoing, Contract!Init, getState

LEMMA StutterIsContract ==
    ASSUME UNCHANGED <<getState, call_if, heard>>
    PROVE  ContractStep
  BY DEF ContractStep, Contract!vars

(* What a handler relies on when it goes on.                               *)
HandlerStarts ==
    /\ capi_pc = "connect_active_ind" => plci_state \in {"P4", "P1"} /\ ncci_state = "N0"
    /\ capi_pc = "connect_active_ind.active" =>
          plci_state \in {"P4", "P1"} /\ ncci_state \in {"N0", "N01"}
    /\ capi_pc = "connect_b3_ind" => ncci_state = "N0" /\ plci_state \notin {"P0", "P2"}
    /\ capi_pc = "connect_b3_active_ind" => ncci_state = "N2" /\ heard # "connected"
    /\ capi_pc = "disconnect_b3_ind.callback" => getState \in {"UP", "OTHER_STATE"}
    /\ capi_pc = "disconnect_b3_ind.resp" => ncci_state = "N5" /\ plci_state \notin {"P0", "P2"}
    /\ capi_pc = "disconnect_b3_ind.rest" => ncci_state = "N0" /\ plci_state \notin {"P0", "P2"}
    /\ capi_pc = "disconnect_ind" =>
          ncci_state = "N0" /\ getState \in {"WAITING", "OTHER_STATE"} /\ heard # "connected"
    /\ capi_pc = "disconnect_ind.callback" => getState = "DOWN"
    /\ capi_pc = "connect_conf" => plci_state = "P01"
    /\ capi_pc \in {"connect_b3_conf", "connect_b3_conf.refused"} =>
          ncci_state = "N01" /\ plci_state \notin {"P0", "P2"}
    /\ capi_pc = "select_b_protocol_conf" => plci_state = "PACT" /\ ncci_state = "N0"

LEMMA HandlersStart ==
    ASSUME CallbackInv, FinalInv, WaitingHasNoLink
    PROVE  HandlerStarts
  BY DEF CallbackInv, NoLinkYet, HeardConnected, FinalInv, TestsHold, DownHasNoLink,
         WaitingHasNoLink, HandlerStarts, B3EndPCs, ActivePCs, getState

LEMMA ContractHandlers ==
    ASSUME HandlerStarts, HandlerSteps
    PROVE  ContractStep
  <1> USE DEF InHandler
  <1>1. CASE connect_active_ind \/ connect_active_ind_active
    <2>1. /\ getState = "OTHER_STATE" /\ ncci_state' \in {"N0", "N01"}
          /\ plci_state' \in {"P4", "P1", "PACT"}
          /\ UNCHANGED <<call_if, heard>>
      BY <1>1 DEF connect_active_ind, connect_active_ind_active, HandlerStarts, getState
    <2>2. getState' = "OTHER_STATE"
      BY <2>1 DEF getState
    <2> QED
      BY <2>1, <2>2, StutterIsContract
  <1>2. CASE connect_b3_ind
    <2>1. /\ getState = "OTHER_STATE" /\ ncci_state' = "N2"
          /\ UNCHANGED <<call_if, heard>>
      BY <1>2 DEF connect_b3_ind, HandlerStarts, getState
    <2>2. getState' = "OTHER_STATE"
      BY <2>1 DEF getState
    <2> QED
      BY <2>1, <2>2, StutterIsContract
  <1>3. CASE connect_b3_active_ind
    <2>1. /\ getState = "OTHER_STATE" /\ heard # "connected" /\ ncci_state' = "NACT"
          /\ heard' = (IF call_if THEN "connected" ELSE heard) /\ call_if' = call_if
      BY <1>3 DEF connect_b3_active_ind, HandlerStarts, Callback, getState
    <2>2. getState' \in {"UP", "OTHER_STATE"}
      BY <2>1 DEF getState
    <2> QED
      BY <2>1, <2>2 DEF ContractStep, Contract!Next, Contract!Connected, Contract!Report
  <1>4. CASE disconnect_b3_ind_callback
    <2>1. /\ getState \in {"UP", "OTHER_STATE"} /\ ncci_state' = "N5"
          /\ heard' = (IF call_if THEN "logically down" ELSE heard) /\ call_if' = call_if
      BY <1>4 DEF disconnect_b3_ind_callback, HandlerStarts, Callback
    <2>2. getState' = "OTHER_STATE"
      BY <2>1 DEF getState
    <2> QED
      BY <2>1, <2>2 DEF ContractStep, Contract!Next, Contract!DisconnectedLogical, Contract!Report
  <1>5. CASE disconnect_b3_ind_resp \/ disconnect_b3_ind_rest
    <2>1. /\ capi_pc \in {"disconnect_b3_ind.resp", "disconnect_b3_ind.rest"}
          /\ ncci_state' \in {"N0", ncci_state}
          /\ plci_state' \in {plci_state, "P5"} /\ UNCHANGED <<call_if, heard>>
      BY <1>5 DEF disconnect_b3_ind_resp, disconnect_b3_ind_rest
    <2>2. getState = "OTHER_STATE" /\ getState' = "OTHER_STATE"
      BY <2>1 DEF getState, HandlerStarts
    <2> QED
      BY <2>1, <2>2, StutterIsContract
  <1>6. CASE disconnect_ind
    <2>1. /\ getState \in {"WAITING", "OTHER_STATE"} /\ heard # "connected"
          /\ plci_state' = "P0" /\ ncci_state' = "N0" /\ UNCHANGED <<call_if, heard>>
      BY <1>6 DEF disconnect_ind, HandlerStarts
    <2>2. getState' = "DOWN"
      BY <2>1 DEF getState
    <2> QED
      BY <2>1, <2>2 DEF ContractStep, Contract!Next, Contract!Down
  <1>7. CASE disconnect_ind_callback
    <2>1. /\ getState = "DOWN" /\ UNCHANGED <<plci_state, ncci_state, call_if>>
          /\ heard' = (IF call_if THEN "physically down" ELSE heard)
      BY <1>7 DEF disconnect_ind_callback, HandlerStarts, Callback
    <2>2. getState' = getState
      BY <2>1 DEF getState
    <2> QED
      BY <2>1, <2>2 DEF ContractStep, Contract!Next, Contract!DisconnectedPhysical, Contract!Report
  <1>8. CASE connect_conf
    <2>1. plci_state = "P01" /\ plci_state' = "P1" /\ UNCHANGED <<call_if, heard>>
      BY <1>8 DEF connect_conf, HandlerStarts
    <2>2. getState = "OTHER_STATE" /\ getState' = "OTHER_STATE"
      BY <2>1 DEF getState
    <2> QED
      BY <2>1, <2>2, StutterIsContract
  <1>9. CASE connect_b3_conf
    <2>1. /\ ncci_state = "N01" /\ plci_state \notin {"P0", "P2"} /\ plci_state' = plci_state
          /\ ncci_state' \in {"N2", "N0"} /\ UNCHANGED <<call_if, heard>>
      BY <1>9 DEF connect_b3_conf, HandlerStarts
    <2>2. getState = "OTHER_STATE" /\ getState' = "OTHER_STATE"
      BY <2>1 DEF getState
    <2> QED
      BY <2>1, <2>2, StutterIsContract
  <1>10. CASE select_b_protocol_conf
    <2>1. /\ plci_state = "PACT" /\ ncci_state = "N0" /\ plci_state' = "PACT"
          /\ ncci_state' \in {"N01", "N0"} /\ UNCHANGED <<call_if, heard>>
      BY <1>10 DEF select_b_protocol_conf, HandlerStarts
    <2>2. getState = "OTHER_STATE" /\ getState' = "OTHER_STATE"
      BY <2>1 DEF getState
    <2> QED
      BY <2>1, <2>2, StutterIsContract
  <1>11. CASE disconnect_b3_ind
    <2>1. getState' = getState /\ UNCHANGED <<call_if, heard>>
      BY <1>11 DEF disconnect_b3_ind, getState
    <2> QED
      BY <2>1, StutterIsContract
  <1> QED
    BY <1>1, <1>2, <1>3, <1>4, <1>5, <1>6, <1>7, <1>8, <1>9, <1>10, <1>11 DEF HandlerSteps

(* A method leaves a call that waits or is up, or what is seen of it alone.*)
LEMMA LeaveIsContract ==
    ASSUME getState \in {"WAITING", "UP", "OTHER_STATE"}, getState' = "OTHER_STATE",
           UNCHANGED <<call_if, heard>>
    PROVE  ContractStep
  BY DEF ContractStep, Contract!Next, Contract!Leave, Contract!vars

LEMMA ContractScript ==
    ASSUME TestsHold, WaitingHasNoLink, DownHasNoLink, ScriptCalls \/ MethodSteps
    PROVE  ContractStep
  <1> USE DEF In
  <1>1. CASE registerCallInterface
    <2>1. getState' = getState
      BY <1>1 DEF registerCallInterface, getState
    <2> QED
      BY <1>1, <2>1 DEF registerCallInterface, ContractStep, Contract!Next, Contract!Register
  <1>2. CASE destroy \/ disconnectPhysical
    <2>1. UNCHANGED <<ncci_state, call_if, heard>>
      BY <1>2 DEF destroy, disconnectPhysical
    <2>2. CASE plci_state' = plci_state
      <3>1. getState' = getState
        BY <2>1, <2>2 DEF getState
      <3> QED
        BY <2>1, <3>1, StutterIsContract
    <2>3. CASE plci_state' # plci_state
      <3>1. PhysicalUp /\ plci_state' = "P5"
        BY <1>2, <2>3 DEF destroy, disconnectPhysical, TestsHold
      <3>2. getState \in {"WAITING", "UP", "OTHER_STATE"} /\ getState' = "OTHER_STATE"
        BY <3>1 DEF getState, PhysicalUp
      <3> QED
        BY <2>1, <3>2, LeaveIsContract
    <2> QED
      BY <2>2, <2>3
  <1>3. CASE connectWaiting \/ rejectWaiting
    <2>1. /\ plci_state = "P2" /\ plci_state' \in {"P4", "P5"}
          /\ UNCHANGED <<call_if, heard>>
      BY <1>3 DEF connectWaiting, rejectWaiting, TestsHold
    <2>2. getState \in {"WAITING", "UP", "OTHER_STATE"} /\ getState' = "OTHER_STATE"
      BY <2>1 DEF getState
    <2> QED
      BY <2>1, <2>2, LeaveIsContract
  <1>4. CASE disconnectLogical
    <2>1. /\ LogicalUp /\ ncci_state' = "N4" /\ UNCHANGED <<call_if, heard>>
      BY <1>4 DEF disconnectLogical, TestsHold
    <2>2. getState \in {"WAITING", "UP", "OTHER_STATE"} /\ getState' = "OTHER_STATE"
      BY <2>1 DEF getState, LogicalUp
    <2> QED
      BY <2>1, <2>2, LeaveIsContract
  <1>5. ASSUME UNCHANGED <<plci_state, ncci_state, call_if, heard>> PROVE ContractStep
    <2>1. getState' = getState
      BY <1>5 DEF getState
    <2> QED
      BY <1>5, <2>1, StutterIsContract
  <1>6. CASE acceptWaiting \/ changeProtocol \/ disconnectKeep \/ destroyed
    BY <1>5, <1>6 DEF acceptWaiting, changeProtocol, disconnectKeep, destroyed
  <1>7. CASE \/ \E sv \in Services : callConnectWaiting(sv) \/ callChangeProtocol(sv)
             \/ callRejectWaiting \/ callAcceptWaiting
             \/ \E mode \in Modes : callDisconnectCall(mode)
    BY <1>5, <1>7 DEF callConnectWaiting, callChangeProtocol, callRejectWaiting,
       callAcceptWaiting, callDisconnectCall, Enter
  <1> QED
    BY <1>1, <1>2, <1>3, <1>4, <1>6, <1>7 DEF ScriptCalls, MethodSteps

LEMMA ContractNext ==
    ASSUME CallbackInv, FinalInv, WaitingHasNoLink, [Next]_vars
    PROVE  ContractStep
  <1>1. CASE readMessage \/ Driver \/ UNCHANGED vars
    <2>1. UNCHANGED <<plci_state, ncci_state, call_if, heard>>
      BY <1>1 DEF readMessage, Driver, vars
    <2>2. getState' = getState
      BY <2>1 DEF getState
    <2> QED
      BY <2>1, <2>2, StutterIsContract
  <1>2. CASE HandlerSteps
    BY <1>2, HandlersStart, ContractHandlers
  <1>3. CASE ScriptCalls \/ MethodSteps
    BY <1>3, ContractScript DEF FinalInv
  <1> QED
    BY <1>1, <1>2, <1>3 DEF Next

(* Without overlap a user of Connection sees what CallState says, for any  *)
(* pattern of failing puts: a call waits or is set up, goes up and down    *)
(* logically, ends once and for all, and each change is reported in order. *)
THEOREM CallStateImplemented == ASSUME ~Overlap PROVE Spec => ImplementsCallState
  <1>1. Init => TypeInv /\ CallbackInv /\ DownInv /\ FinalInv /\ WaitingHasNoLink
    BY TypeInit, CallbackInit, DownInit, FinalInit, WaitingInit
  <1>2. TypeInv /\ CallbackInv /\ DownInv /\ FinalInv /\ WaitingHasNoLink /\ [Next]_vars
          => /\ (TypeInv /\ CallbackInv /\ DownInv /\ FinalInv /\ WaitingHasNoLink)'
             /\ [Contract!Next]_(Contract!vars)
    BY TypeNext, CallbackNext, DownNext, FinalNext, WaitingNext, ContractNext DEF ContractStep
  <1>3. Spec => Contract!Init /\ [][Contract!Next]_(Contract!vars)
    BY <1>1, <1>2, ContractInit, PTL DEF Spec
  <1> QED
    BY <1>3 DEF ImplementsCallState, Contract!Spec

-----------------------------------------------------------------------------
(* Who asked for the logical end, and how: a step of                       *)
(* LogicalOnlyKeepsLine.                                                   *)
KeepsStep ==
    capi_pc = "disconnect_b3_ind.rest" /\ capi_pc' = "run"
      /\ plci_state # "P5" /\ plci_state' = "P5" => closing = "ALL"

LEMMA ClosingHandlers ==
    ASSUME ~Overlap, ClosingIsKnown, HandlerSteps
    PROVE  ClosingIsKnown' /\ KeepsStep
  <1> USE DEF ClosingIsKnown, B3AnswerPCs, KeepsStep, InHandler, Leave, CapiMayRun, Between
  <1>1. CASE disconnect_b3_ind
    <2>1. /\ capi_pc = "disconnect_b3_ind" /\ capi_pc' = "disconnect_b3_ind.callback"
          /\ our_disconnect_req' => ncci_state = "N4"
          /\ app_pc \in Between /\ UNCHANGED <<stateVars, appVars>>
      BY <1>1 DEF disconnect_b3_ind
    <2> QED
      BY <2>1
  <1>2. CASE disconnect_b3_ind_callback
    BY <1>2 DEF disconnect_b3_ind_callback
  <1>9. CASE disconnect_b3_ind_resp
    BY <1>9 DEF disconnect_b3_ind_resp
  <1>10. CASE disconnect_b3_ind_rest
    <2>1. /\ capi_pc = "disconnect_b3_ind.rest" /\ capi_pc' = "run" /\ ncci_state' = ncci_state
          /\ plci_state' # plci_state => our_disconnect_req /\ ~keepPhysicalConnection
      BY <1>10 DEF disconnect_b3_ind_rest
    <2> QED
      BY <2>1
  <1>3. CASE connect_active_ind \/ connect_active_ind_active
    BY <1>3 DEF connect_active_ind, connect_active_ind_active
  <1>4. CASE connect_b3_ind \/ connect_b3_active_ind
    BY <1>4 DEF connect_b3_ind, connect_b3_active_ind
  <1>5. CASE disconnect_ind
    BY <1>5 DEF disconnect_ind
  <1>6. CASE disconnect_ind_callback \/ connect_conf
    BY <1>6 DEF disconnect_ind_callback, connect_conf
  <1>7. CASE connect_b3_conf
    BY <1>7 DEF connect_b3_conf
  <1>8. CASE select_b_protocol_conf
    BY <1>8 DEF select_b_protocol_conf
  <1> QED
    BY <1>1, <1>2, <1>3, <1>4, <1>5, <1>6, <1>7, <1>8, <1>9, <1>10 DEF HandlerSteps

LEMMA ClosingScript ==
    ASSUME ~Overlap, ~PutMayFail, TypeInv, ClosingIsKnown, ScriptCalls \/ MethodSteps
    PROVE  ClosingIsKnown' /\ KeepsStep
  <1> USE DEF ClosingIsKnown, B3AnswerPCs, KeepsStep, In, AppMayRun
  <1>1. CASE disconnectLogical
    <2>1. arg \in LogicalModes
      BY <1>1 DEF disconnectLogical, TypeInv, ArgumentOK
    <2>2. /\ capi_pc = "run" /\ capi_pc' = capi_pc /\ closing' = arg
          /\ arg = "LOGICAL_ONLY" => app_pc' = "disconnect.keep"
      BY <1>1 DEF disconnectLogical, PutFails
    <2> QED
      BY <2>1, <2>2 DEF LogicalModes
  <1>2. CASE disconnectKeep
    BY <1>2 DEF disconnectKeep
  <1>3. CASE \/ connectWaiting \/ rejectWaiting \/ acceptWaiting \/ changeProtocol
             \/ disconnectPhysical \/ destroyed
    BY <1>3 DEF connectWaiting, rejectWaiting, acceptWaiting, changeProtocol,
       disconnectPhysical, destroyed
  <1>4. CASE ScriptCalls
    <2>1. CASE destroy
      BY <2>1 DEF destroy
    <2> QED
      BY <1>4, <2>1 DEF ScriptCalls, callConnectWaiting, callChangeProtocol, callRejectWaiting,
         callAcceptWaiting, callDisconnectCall, registerCallInterface, Enter
  <1> QED
    BY <1>1, <1>2, <1>3, <1>4 DEF MethodSteps

LEMMA ClosingNext ==
    ASSUME ~Overlap, ~PutMayFail
    PROVE  TypeInv /\ ClosingIsKnown /\ [Next]_vars => ClosingIsKnown' /\ [KeepsStep]_vars
  <1> SUFFICES ASSUME TypeInv, ClosingIsKnown, [Next]_vars
               PROVE  ClosingIsKnown' /\ [KeepsStep]_vars
    OBVIOUS
  <1>1. CASE readMessage
    <2>1. Head(inbox) \in ToApplication
      <3>1. inbox \in Seq(ToApplication) /\ inbox # <<>>
        BY <1>1 DEF readMessage, TypeInv, InboxOK
      <3> QED
        BY <3>1, TailType
    <2>2. capi_pc = "run" /\ (capi_pc' = "run" \/ HandlerFor(Head(inbox), capi_pc'))
      BY <1>1, <2>1, HandlerIs DEF readMessage
    <2> QED
      BY <1>1, <2>2 DEF readMessage, ClosingIsKnown, B3AnswerPCs, KeepsStep, HandlerFor
  <1>2. CASE HandlerSteps
    BY <1>2, ClosingHandlers
  <1>3. CASE ScriptCalls \/ MethodSteps
    BY <1>3, ClosingScript
  <1>4. CASE Driver \/ UNCHANGED vars
    BY <1>4 DEF Driver, vars, ClosingIsKnown, KeepsStep
  <1> QED
    BY <1>1, <1>2, <1>3, <1>4 DEF Next

(* The message thread ends a call of its own accord only to finish a       *)
(* disconnectCall(ALL).  Both hypotheses are needed: with a failing put, or*)
(* with the indication handled between DISCONNECT_B3_REQ and the line that *)
(* remembers to keep the call, LOGICAL_ONLY takes the line down too.       *)
THEOREM LineIsKept ==
    ASSUME ~Overlap, ~PutMayFail
    PROVE  Spec => LogicalOnlyKeepsLine
  <1>1. Init => TypeInv /\ ClosingIsKnown
    <2>1. Init => ncci_state = "N0" /\ capi_pc = "run"
      BY DEF Init
    <2> QED
      BY <2>1, TypeInit DEF ClosingIsKnown, B3AnswerPCs
  <1>2. TypeInv /\ ClosingIsKnown /\ [Next]_vars
          => (TypeInv /\ ClosingIsKnown)' /\ [KeepsStep]_vars
    BY TypeNext, ClosingNext
  <1>3. Spec => [][KeepsStep]_vars
    BY <1>1, <1>2, PTL DEF Spec
  <1> QED
    BY <1>3 DEF LogicalOnlyKeepsLine, KeepsStep
=============================================================================
