--------------------------- MODULE ScriptCommands ---------------------------
(***************************************************************************)
(* What a script can ask for: the classes of the call modules (modules/*.h) *)
(* as records, and the wrappers that make them commands of the Python      *)
(* module capisuite (application/capisuitemodule.cpp).  How they run is in *)
(* CallModules.                                                            *)
(***************************************************************************)
EXTENDS Naturals

Services   == {"VOICE", "FAXG3"}
Exceptions == {"CapiError", "CapiWrongState", "CapiMsgError", "CapiExternalError"}
Classes    == {"CallModule", "CallOutgoing", "ConnectModule", "DisconnectModule",
               "AudioSend", "AudioReceive", "FaxSend", "FaxReceive", "ReadDTMF",
               "Switch2FaxG3", "enableDTMF", "disableDTMF"}

(* The methods of the interface that the message thread calls; a packet is *)
(* silent or not.                                                          *)
CallInterface == {"alerting", "callConnected", "callDisconnectedLogical",
                  "callDisconnectedPhysical", "transmissionComplete", "gotDTMF",
                  "silence", "sound"}

(* All the exceptions of the backend are CapiErrors.                       *)
Among(e, S) == e \in S \/ "CapiError" \in S

-----------------------------------------------------------------------------
(* The classes.  endedBy: the methods that set finish, inherited or not;   *)
(* throws: what the declarations of constructor and mainLoop let through;  *)
(* needs: the services the constructor accepts; the rest are arguments.    *)

CallModule(timed, DTMF_exit, checkConnection) ==
    [class |-> "CallModule", timed |-> timed, DTMF_exit |-> DTMF_exit,
     checkConnection |-> checkConnection,
     endedBy |-> {"callDisconnectedLogical", "callDisconnectedPhysical"}
                   \cup IF DTMF_exit THEN {"gotDTMF"} ELSE {},
     throws |-> Exceptions, needs |-> Services,
     service |-> "VOICE", silence |-> FALSE, min_digits |-> 0, max_digits |-> 0,
     quick |-> FALSE]

CallOutgoing(service, timed) ==         \* timed when the other side rings
    [CallModule(timed, FALSE, FALSE) EXCEPT
       !.class = "CallOutgoing", !.service = service,
       !.endedBy = @ \cup {"callConnected"},
       !.throws = {"CapiExternalError", "CapiMsgError"}]

ConnectModule(service) ==
    [CallModule(FALSE, FALSE, FALSE) EXCEPT
       !.class = "ConnectModule", !.service = service,
       !.endedBy = @ \cup {"callConnected"},
       !.throws = {"CapiWrongState", "CapiExternalError", "CapiMsgError"}]

(* Slip: callDisconnectedLogical is inherited.                             *)
DisconnectModuleInherits(quick) ==
    [CallModule(FALSE, FALSE, FALSE) EXCEPT
       !.class = "DisconnectModule", !.quick = quick,
       !.throws = {"CapiMsgError", "CapiExternalError"}]

DisconnectModule(quick) ==
    [CallModule(FALSE, FALSE, FALSE) EXCEPT
       !.class = "DisconnectModule", !.quick = quick,
       !.endedBy = @ \ {"callDisconnectedLogical"},
       !.throws = {"CapiMsgError", "CapiExternalError"}]

AudioSend(DTMF_exit) ==
    [CallModule(FALSE, DTMF_exit, TRUE) EXCEPT
       !.class = "AudioSend", !.needs = {"VOICE"},
       !.endedBy = @ \cup {"transmissionComplete"}]

FaxSend ==
    [CallModule(FALSE, FALSE, TRUE) EXCEPT
       !.class = "FaxSend", !.needs = {"FAXG3"},
       !.endedBy = @ \cup {"transmissionComplete"}]

AudioReceive(timed, silence, DTMF_exit) ==
    [CallModule(timed, DTMF_exit, TRUE) EXCEPT
       !.class = "AudioReceive", !.needs = {"VOICE"}, !.silence = silence,
       !.throws = {"CapiWrongState", "CapiExternalError"}]

FaxReceive ==
    [CallModule(FALSE, FALSE, TRUE) EXCEPT
       !.class = "FaxReceive", !.needs = {"FAXG3"},
       !.endedBy = @ \cup {"transmissionComplete"},
       !.throws = {"CapiWrongState", "CapiExternalError"}]

ReadDTMF(timed, min_digits, max_digits) ==
    [CallModule(timed, FALSE, TRUE) EXCEPT
       !.class = "ReadDTMF", !.min_digits = min_digits, !.max_digits = max_digits,
       !.throws = {"CapiWrongState"}]

Switch2FaxG3 ==
    [CallModule(FALSE, FALSE, TRUE) EXCEPT
       !.class = "Switch2FaxG3",
       !.endedBy = @ \cup {"callConnected"},
       !.throws = {"CapiWrongState", "CapiExternalError", "CapiMsgError"}]

-----------------------------------------------------------------------------
(* The wrappers: the module each of them builds, named active, whether it  *)
(* waits before, and its catch clauses.                                    *)

Wrapper(active, catches) == [active |-> active, delay |-> FALSE, catches |-> catches]

capisuite_audio_send(exit_DTMF) ==
    Wrapper(AudioSend(exit_DTMF),
            {"CapiWrongState", "CapiMsgError", "CapiExternalError", "CapiError"})

capisuite_audio_receive(timed, silence_timeout, exit_DTMF) ==
    Wrapper(AudioReceive(timed, silence_timeout, exit_DTMF),
            {"CapiWrongState", "CapiExternalError"})

capisuite_fax_receive == Wrapper(FaxReceive, {"CapiWrongState", "CapiExternalError"})

capisuite_fax_send ==
    Wrapper(FaxSend, {"CapiWrongState", "CapiMsgError", "CapiExternalError", "CapiError"})

capisuite_disconnect ==
    Wrapper(DisconnectModule(FALSE), {"CapiMsgError", "CapiExternalError"})

capisuite_reject == Wrapper(DisconnectModule(FALSE), {"CapiMsgError", "CapiExternalError"})

capisuite_connect(delay, service) ==
    [Wrapper(ConnectModule(service), {"CapiMsgError", "CapiWrongState", "CapiExternalError"})
       EXCEPT !.delay = delay]

capisuite_connect_voice(delay) == capisuite_connect(delay, "VOICE")
capisuite_connect_faxG3(delay) == capisuite_connect(delay, "FAXG3")

capisuite_call(service, timed) ==
    Wrapper(CallOutgoing(service, timed), {"CapiMsgError", "CapiExternalError"})

capisuite_call_voice(timed) == capisuite_call("VOICE", timed)
capisuite_call_faxG3(timed) == capisuite_call("FAXG3", timed)

capisuite_switch_to_faxG3 == Wrapper(Switch2FaxG3, {"CapiWrongState", "CapiExternalError"})

(* These two call the Connection themselves.                               *)
capisuite_enable_DTMF ==
    Wrapper([CallModule(FALSE, FALSE, FALSE) EXCEPT !.class = "enableDTMF"],
            {"CapiWrongState", "CapiMsgError"})

capisuite_disable_DTMF ==
    Wrapper([CallModule(FALSE, FALSE, FALSE) EXCEPT !.class = "disableDTMF"],
            {"CapiWrongState", "CapiMsgError"})

capisuite_read_DTMF(timed, min_digits, max_digits) ==
    Wrapper(ReadDTMF(timed, min_digits, max_digits), {"CapiWrongState"})

(* What Python calls when the reference to the call is dropped.            *)
capisuitemodule_destruct_connection == Wrapper(DisconnectModule(TRUE), {"CapiError"})

(* The exception of a script's command; none of the clauses: it leaves     *)
(* through the interpreter.                                                *)
Outcome(e, w) ==
    IF ~Among(e, w.active.throws) \/ ~Among(e, w.catches) THEN "escaped"
    ELSE IF e = "CapiWrongState" /\ e \in w.catches THEN "CallGoneError" ELSE "BackendError"

Modules  == [class : Classes, timed : BOOLEAN, DTMF_exit : BOOLEAN, checkConnection : BOOLEAN,
             endedBy : SUBSET CallInterface, throws : SUBSET Exceptions,
             needs : SUBSET Services, service : Services, silence : BOOLEAN,
             min_digits : Nat, max_digits : Nat, quick : BOOLEAN]
Commands == [active : Modules, delay : BOOLEAN, catches : SUBSET Exceptions]
=============================================================================
