--------------------------- MODULE MCCallModules ----------------------------
(* Instances of CallModules for TLC.                                       *)
EXTENDS CallModules

Answer    == capisuite_connect_voice(FALSE)
AnswerFax == capisuite_connect_faxG3(TRUE)
Say       == capisuite_audio_send(TRUE)
Record    == capisuite_audio_receive(TRUE, TRUE, TRUE)
ReadTwo   == capisuite_read_DTMF(TRUE, 1, 2)

Case(outgoing, overlap, faulty, length, commands) ==
    [outgoing |-> outgoing, overlap |-> overlap, faults |-> faulty, length |-> length,
     commands |-> commands]

HangUp == {capisuite_disconnect, capisuite_reject}

(* A recorded call; a call with digits; a call switched to fax; a fax sent.  *)
Orderly(faulty, longer) ==
    {Case(FALSE, FALSE, faulty, longer, {Answer, Record, capisuite_disconnect}),
     Case(FALSE, FALSE, faulty, longer + 1,
          {Answer, capisuite_enable_DTMF, capisuite_disable_DTMF, Say, ReadTwo}),
     Case(FALSE, FALSE, faulty, longer,
          {Answer, capisuite_switch_to_faxG3, capisuite_fax_receive} \cup HangUp),
     Case(FALSE, FALSE, faulty, longer, {AnswerFax, capisuite_fax_receive, Record} \cup HangUp),
     Case(TRUE, FALSE, faulty, longer,
          {capisuite_call_faxG3(TRUE), capisuite_fax_send, capisuite_disconnect}),
     Case(TRUE, FALSE, faulty, longer,
          {capisuite_call_voice(TRUE), capisuite_switch_to_faxG3, Record})}

Overlapping ==
    {Case(FALSE, TRUE, 0, 2, {Answer, Record, capisuite_disconnect}),
     Case(FALSE, TRUE, 0, 3, {Answer, capisuite_enable_DTMF, ReadTwo}),
     Case(FALSE, TRUE, 0, 2, {Answer, capisuite_switch_to_faxG3} \cup HangUp),
     Case(TRUE, TRUE, 1, 2, {capisuite_call_voice(TRUE), Say, capisuite_disconnect})}

MCConfigurations == Orderly(0, 4) \cup Orderly(1, 3) \cup Overlapping
MCOrderly == Orderly(0, 3)
MCReading == {Case(FALSE, FALSE, 0, 3, {Answer, capisuite_enable_DTMF, ReadTwo})}
=============================================================================
