----------------------------- MODULE CapiDriver -----------------------------
(***************************************************************************)
(* The CAPI 2.0 driver and the ISDN network behind it, for one call of one *)
(* application.  None of this is code of CapiSuite: it is the environment  *)
(* as backend/connection.cpp relies on it.                                 *)
(*                                                                         *)
(* Requests and responses of the application are read from outbox in the   *)
(* order they were put; confirmations and indications reach it through     *)
(* inbox, one FIFO per application (CAPI_GET_MESSAGE).  Both sides work on *)
(* their own, so a message of the network may cross one of CapiSuite.      *)
(*                                                                         *)
(* A message is a string; the suffix _REFUSED marks a confirmation with    *)
(* Info # 0.  Confirmations whose Info the code only logs have one form.   *)
(***************************************************************************)
EXTENDS Naturals, Sequences

VARIABLES
    inbox,      \* from the driver to the application, oldest first
    outbox,     \* from the application to the driver, oldest first
    line,       \* the physical connection (PLCI) as the network sees it
    link        \* the logical connection (NCCI) as the network sees it

driverVars == <<inbox, outbox, line, link>>

LineStates == {"idle", "offered", "setup", "answered", "active",
               "clearing", "cleared", "released", "refused"}
LinkStates == {"none", "offered", "pending", "active", "cleared"}

Indications   == {"CONNECT_ACTIVE_IND", "CONNECT_B3_IND", "CONNECT_B3_ACTIVE_IND",
                  "DISCONNECT_B3_IND", "DISCONNECT_IND"}
Confirmations == {"CONNECT_CONF", "CONNECT_CONF_REFUSED",
                  "CONNECT_B3_CONF", "CONNECT_B3_CONF_REFUSED",
                  "SELECT_B_PROTOCOL_CONF", "SELECT_B_PROTOCOL_CONF_REFUSED",
                  "ALERT_CONF", "DISCONNECT_B3_CONF", "DISCONNECT_CONF"}
ToApplication == Indications \cup Confirmations
ToDriver      == {"CONNECT_REQ", "ALERT_REQ", "CONNECT_RESP", "CONNECT_RESP_REJECT",
                  "CONNECT_B3_REQ", "CONNECT_B3_RESP", "SELECT_B_PROTOCOL_REQ",
                  "DISCONNECT_B3_REQ", "DISCONNECT_B3_RESP",
                  "DISCONNECT_REQ", "DISCONNECT_RESP"}

DriverTypeOK ==
    /\ inbox \in Seq(ToApplication)
    /\ outbox \in Seq(ToDriver)
    /\ line \in LineStates
    /\ link \in LinkStates

LineUp == line \in {"offered", "setup", "answered", "active"}
LinkUp == link \in {"offered", "pending", "active"}

Tell(m) == inbox' = Append(inbox, m)

-----------------------------------------------------------------------------
(* The driver takes the oldest message of the application.                 *)

Take(m) ==
    /\ outbox # <<>>
    /\ Head(outbox) = m
    /\ outbox' = Tail(outbox)

TakeConnectReq ==
    /\ Take("CONNECT_REQ")
    /\ \/ line' = "setup" /\ Tell("CONNECT_CONF")
       \/ line' = "refused" /\ Tell("CONNECT_CONF_REFUSED")
    /\ UNCHANGED link

TakeAlertReq ==
    /\ Take("ALERT_REQ")
    /\ Tell("ALERT_CONF")
    /\ UNCHANGED <<line, link>>

TakeConnectResp ==
    /\ \/ Take("CONNECT_RESP") /\ line' = IF line = "offered" THEN "answered" ELSE line
       \/ Take("CONNECT_RESP_REJECT") /\ line' = IF line = "offered" THEN "clearing" ELSE line
    /\ UNCHANGED <<inbox, link>>

TakeConnectB3Req ==
    /\ Take("CONNECT_B3_REQ")
    /\ \/ line = "active" /\ link = "none" /\ link' = "pending" /\ Tell("CONNECT_B3_CONF")
       \/ UNCHANGED link /\ Tell("CONNECT_B3_CONF_REFUSED")
    /\ UNCHANGED line

TakeConnectB3Resp ==
    /\ Take("CONNECT_B3_RESP")
    /\ link' = IF link = "offered" THEN "pending" ELSE link
    /\ UNCHANGED <<inbox, line>>

TakeSelectBProtocolReq ==
    /\ Take("SELECT_B_PROTOCOL_REQ")
    /\ Tell(IF line = "active" /\ link = "none"
            THEN "SELECT_B_PROTOCOL_CONF" ELSE "SELECT_B_PROTOCOL_CONF_REFUSED")
    /\ UNCHANGED <<line, link>>

TakeDisconnectB3Req ==
    /\ Take("DISCONNECT_B3_REQ")
    /\ inbox' = IF LinkUp THEN inbox \o <<"DISCONNECT_B3_CONF", "DISCONNECT_B3_IND">>
                          ELSE Append(inbox, "DISCONNECT_B3_CONF")
    /\ link' = IF LinkUp THEN "cleared" ELSE link
    /\ UNCHANGED line

TakeDisconnectB3Resp ==
    /\ Take("DISCONNECT_B3_RESP")
    /\ link' = IF link = "cleared" THEN "none" ELSE link
    /\ UNCHANGED <<inbox, line>>

TakeDisconnectReq ==
    /\ Take("DISCONNECT_REQ")
    /\ Tell("DISCONNECT_CONF")
    /\ line' = IF LineUp THEN "clearing" ELSE line
    /\ UNCHANGED link

TakeDisconnectResp ==
    /\ Take("DISCONNECT_RESP")
    /\ line' = IF line = "cleared" THEN "released" ELSE line
    /\ UNCHANGED <<inbox, link>>

DriverReads ==
    \/ TakeConnectReq \/ TakeAlertReq \/ TakeConnectResp
    \/ TakeConnectB3Req \/ TakeConnectB3Resp \/ TakeSelectBProtocolReq
    \/ TakeDisconnectB3Req \/ TakeDisconnectB3Resp
    \/ TakeDisconnectReq \/ TakeDisconnectResp

-----------------------------------------------------------------------------
(* The driver and the network on their own account.                        *)

Activate ==                              \* the call is through
    /\ line \in {"setup", "answered"}
    /\ line' = "active"
    /\ Tell("CONNECT_ACTIVE_IND")
    /\ UNCHANGED <<outbox, link>>

OfferLink(incoming) ==                   \* the called side is offered the B channel
    /\ incoming /\ line = "active" /\ link = "none"
    /\ link' = "offered"
    /\ Tell("CONNECT_B3_IND")
    /\ UNCHANGED <<outbox, line>>

ActivateLink ==
    /\ link = "pending" /\ line = "active"
    /\ link' = "active"
    /\ Tell("CONNECT_B3_ACTIVE_IND")
    /\ UNCHANGED <<outbox, line>>

RemoteClearsLink ==                      \* e.g. the end of a fax
    /\ LinkUp
    /\ link' = "cleared"
    /\ Tell("DISCONNECT_B3_IND")
    /\ UNCHANGED <<outbox, line>>

HangUp ==                                \* the other party, or a network timeout
    /\ LineUp
    /\ line' = "clearing"
    /\ UNCHANGED <<inbox, outbox, link>>

ClearLink ==                             \* the link goes down before the line
    /\ line = "clearing" /\ LinkUp
    /\ link' = "cleared"
    /\ Tell("DISCONNECT_B3_IND")
    /\ UNCHANGED <<outbox, line>>

ClearLine ==
    /\ line = "clearing" /\ link = "none"
    /\ line' = "cleared"
    /\ Tell("DISCONNECT_IND")
    /\ UNCHANGED <<outbox, link>>

Network(incoming) ==
    \/ Activate \/ OfferLink(incoming) \/ ActivateLink
    \/ RemoteClearsLink \/ HangUp \/ ClearLink \/ ClearLine
=============================================================================
