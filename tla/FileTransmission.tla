-------------------------- MODULE FileTransmission --------------------------
(***************************************************************************)
(* The sending half of class Connection (backend/connection.cpp): a file is*)
(* cut into blocks, and send_block hands each to the driver in a buffer of *)
(* its own, of a ring of seven.  The driver reads a buffer until it answers*)
(* with DATA_B3_CONF; at most conf_send_buffers blocks wait for that.      *)
(*                                                                         *)
(* The message thread (data_b3_conf, disconnect_b3_ind) and the script's   *)
(* thread (start_file_transmission, stop_file_transmission) both send.     *)
(* send_mutex keeps them apart, but not everywhere: ncci_state and         *)
(* file_to_send are tested without it, and the waits for buffers_used to   *)
(* become 0 poll it without the mutex.  Each stretch between two such      *)
(* points is one action; capi_pc and app_pc name the next one.             *)
(*                                                                         *)
(* The other states of the logical connection are in module Connection;    *)
(* here it is up (NACT), being closed by us (N4), or not there (N0).       *)
(***************************************************************************)
EXTENDS Naturals, Sequences

CONSTANTS
    conf_send_buffers,  \* how many blocks may be unconfirmed
    BlockSize,          \* bytes of a block, 2048 in the code
    Lengths,            \* the lengths in bytes of the files a script may send
    Overlap,            \* TRUE: handlers may run inside start_file_transmission
    PutMayFail,         \* TRUE: CAPI_PUT_MESSAGE may report an error
    ConfMayFail         \* TRUE: a DATA_B3_CONF may carry Info # 0

SendBuffers == 7        \* send_buffer[7][2048]

ASSUME TransmissionAssumption ==
    /\ conf_send_buffers \in 1 .. SendBuffers
    /\ BlockSize \in Nat \ {0}
    /\ Lengths \subseteq Nat
    /\ Overlap \in BOOLEAN
    /\ PutMayFail \in BOOLEAN
    /\ ConfMayFail \in BOOLEAN

VARIABLES
    ncci_state,
    buffer_start,       \* the oldest buffer in use
    buffers_used,
    file_to_send,       \* a file is open (the pointer is not NULL)
    left,               \* bytes of it not read yet
    capi_pc,            \* what the message thread does next
    handle,             \* the data handle of the confirmation it handles
    app_pc,             \* what the script's thread does next
    size,               \* length of the file last started
    handed,             \* bytes of it handed to the driver (history)
    complete,           \* transmissionComplete() was called for it
    crashed,            \* a null pointer was dereferenced
    link,               \* driver: the logical connection
    asked,              \* driver: DISCONNECT_B3_REQ has been put
    unconfirmed,        \* driver: handles of the blocks it has and reads
    confirmations,      \* driver to message thread: DATA_B3_CONFs, oldest first
    indications         \* and the indications behind them

ringVars   == <<buffer_start, buffers_used>>
fileVars   == <<file_to_send, left, size, handed, complete>>
threadVars == <<capi_pc, handle, app_pc>>
driverVars == <<link, asked, unconfirmed>>
inboxVars  == <<confirmations, indications>>
vars == <<ncci_state, ringVars, fileVars, threadVars, crashed, driverVars, inboxVars>>

Handles == 0 .. SendBuffers - 1

FileTypeOK ==
    /\ ncci_state \in {"N0", "N4", "NACT"}
    /\ buffer_start \in Handles
    /\ buffers_used \in 0 .. conf_send_buffers
    /\ file_to_send \in BOOLEAN
    /\ left \in Nat /\ size \in Nat /\ handed \in Nat
    /\ complete \in BOOLEAN
    /\ capi_pc \in {"run", "data_b3_conf", "data_b3_conf.send", "disconnect_b3_ind",
                    "disconnect_b3_ind.stop", "disconnect_b3_ind.wait"}
    /\ handle \in Handles
    /\ app_pc \in {"script", "start.open", "start.check", "start.unreadable", "start.lock",
                   "start.send", "stop.wait"}
    /\ crashed \in BOOLEAN
    /\ link \in {"none", "up", "cleared"}
    /\ asked \in BOOLEAN
    /\ unconfirmed \in Seq(Handles)
    /\ confirmations \in Seq([handle : Handles, Info : {0, 1}])
    /\ indications \in Seq({"CONNECT_B3_ACTIVE_IND", "DISCONNECT_B3_IND"})

Init ==
    /\ ncci_state = "N0"
    /\ buffer_start = 0 /\ buffers_used = 0
    /\ file_to_send = FALSE /\ left = 0 /\ size = 0 /\ handed = 0 /\ complete = FALSE
    /\ capi_pc = "run" /\ handle = 0 /\ app_pc = "script"
    /\ crashed = FALSE
    /\ link = "none" /\ asked = FALSE /\ unconfirmed = <<>>
    /\ confirmations = <<>> /\ indications = <<>>

send_mutex_free == capi_pc # "data_b3_conf.send" /\ app_pc # "start.send"

Starting == app_pc \in {"start.open", "start.check", "start.unreadable", "start.lock"}
CapiMayRun == ~crashed /\ (Overlap \/ ~Starting)
AppMayRun  == ~crashed

-----------------------------------------------------------------------------
(* send_block, in the loop its callers wrap around it.                     *)

OneTooMany == file_to_send /\ buffers_used <= conf_send_buffers      \* slip: off by one

MoreToSend == file_to_send /\ buffers_used < conf_send_buffers

(* Slips: the ring of eight the comment in connection.h speaks of; a ring  *)
(* that starts at the first buffer again and again.                        *)
RingOfEight == (buffer_start + buffers_used) % 8
AlwaysFromFirst == buffers_used % SendBuffers

buff_num == (buffer_start + buffers_used) % SendBuffers
WholeBlocksOnly == IF left < BlockSize THEN 0 ELSE BlockSize     \* slip: the rest is lost

n == IF left < BlockSize THEN left ELSE BlockSize       \* bytes of the next block
file_completed == left < BlockSize                      \* get() has met the end

data_b3_req ==                          \* a put after the link went is lost
    /\ unconfirmed' = IF link = "up" THEN Append(unconfirmed, buff_num) ELSE unconfirmed
    /\ buffers_used' = buffers_used + 1
    /\ handed' = handed + n

(* CapiMsgError is caught: the block is dropped.  If it was the last one,  *)
(* file_to_send is set to NULL and then used.                              *)
data_b3_req_failed ==
    /\ PutMayFail
    /\ UNCHANGED <<unconfirmed, buffers_used, handed>>

send_block ==
    /\ left' = left - n
    /\ file_to_send' = ~file_completed
    /\ \/ /\ \/ n > 0 /\ data_b3_req
             \/ n = 0 /\ UNCHANGED <<unconfirmed, buffers_used, handed>>
          /\ complete' = (complete \/ file_completed)
          /\ UNCHANGED crashed
       \/ /\ n > 0 /\ data_b3_req_failed
          /\ crashed' = file_completed
          /\ UNCHANGED complete
    /\ UNCHANGED <<ncci_state, buffer_start, size, link, asked, inboxVars>>

(* One pass of the loop; it ends when nothing is to be sent, or by the     *)
(* exception of send_block for a connection that is not up.                *)
SendLoop(leave) ==
    \/ /\ MoreToSend /\ ncci_state = "NACT"
       /\ send_block
       /\ UNCHANGED threadVars
    \/ /\ ~MoreToSend \/ ncci_state # "NACT"
       /\ leave
       /\ UNCHANGED <<ncci_state, ringVars, fileVars, crashed, driverVars, inboxVars>>

-----------------------------------------------------------------------------
(* The message thread.                                                     *)

read_data_b3_conf ==
    /\ CapiMayRun /\ capi_pc = "run"
    /\ confirmations # <<>>
    /\ confirmations' = Tail(confirmations)
    /\ IF ncci_state = "NACT" /\ Head(confirmations).Info = 0
       THEN capi_pc' = "data_b3_conf" /\ handle' = Head(confirmations).handle
       ELSE UNCHANGED <<capi_pc, handle>>
    /\ UNCHANGED <<ncci_state, ringVars, fileVars, app_pc, crashed, driverVars, indications>>

ValidHandle == buffers_used > 0 /\ handle = buffer_start

(* Slip: the freed buffer is not used for the next block.                  *)
DataB3ConfSendsNoMore ==
    /\ CapiMayRun /\ capi_pc = "data_b3_conf"
    /\ send_mutex_free
    /\ buffers_used' = buffers_used - 1
    /\ buffer_start' = (buffer_start + 1) % SendBuffers
    /\ capi_pc' = "run"
    /\ UNCHANGED <<ncci_state, fileVars, handle, app_pc, crashed, driverVars, inboxVars>>

data_b3_conf ==                         \* takes the mutex
    /\ CapiMayRun /\ capi_pc = "data_b3_conf"
    /\ send_mutex_free
    /\ IF ValidHandle
       THEN /\ buffers_used' = buffers_used - 1
            /\ buffer_start' = (buffer_start + 1) % SendBuffers
            /\ capi_pc' = "data_b3_conf.send"
       ELSE capi_pc' = "run" /\ UNCHANGED ringVars
    /\ UNCHANGED <<ncci_state, fileVars, handle, app_pc, crashed, driverVars, inboxVars>>

data_b3_conf_send ==
    /\ CapiMayRun /\ capi_pc = "data_b3_conf.send"
    /\ SendLoop(capi_pc' = "run" /\ UNCHANGED <<handle, app_pc>>)

ReadIndication(m) ==
    /\ CapiMayRun /\ capi_pc = "run"
    /\ confirmations = <<>> /\ indications # <<>> /\ Head(indications) = m
    /\ indications' = Tail(indications)

(* connect_b3_ind or connect_b3_conf has set N2 before; N0 stands for both.*)
connect_b3_active_ind ==
    /\ ReadIndication("CONNECT_B3_ACTIVE_IND")
    /\ ncci_state' = IF ncci_state = "N0" THEN "NACT" ELSE ncci_state
    /\ UNCHANGED <<ringVars, fileVars, threadVars, crashed, driverVars, confirmations>>

read_disconnect_b3_ind ==
    /\ ReadIndication("DISCONNECT_B3_IND")
    /\ capi_pc' = IF ncci_state \in {"NACT", "N4"} THEN "disconnect_b3_ind" ELSE "run"
    /\ UNCHANGED <<ncci_state, ringVars, fileVars, handle, app_pc, crashed, driverVars,
                   confirmations>>

(* Slip: the blocks that will never be confirmed still count as used.      *)
DisconnectB3IndNoReset ==
    /\ CapiMayRun /\ capi_pc = "disconnect_b3_ind"
    /\ capi_pc' = "disconnect_b3_ind.stop"
    /\ UNCHANGED <<ncci_state, ringVars, fileVars, handle, app_pc, crashed, driverVars, inboxVars>>

disconnect_b3_ind ==
    /\ CapiMayRun /\ capi_pc = "disconnect_b3_ind"
    /\ send_mutex_free
    /\ buffers_used' = 0
    /\ capi_pc' = "disconnect_b3_ind.stop"
    /\ UNCHANGED <<ncci_state, buffer_start, fileVars, handle, app_pc, crashed, driverVars,
                   inboxVars>>

disconnect_b3_ind_stop ==               \* stop_file_transmission, first part
    /\ CapiMayRun /\ capi_pc = "disconnect_b3_ind.stop"
    /\ send_mutex_free
    /\ file_to_send' = FALSE
    /\ capi_pc' = "disconnect_b3_ind.wait"
    /\ UNCHANGED <<ncci_state, ringVars, left, size, handed, complete, handle, app_pc, crashed,
                   driverVars, inboxVars>>

disconnect_b3_ind_wait ==               \* its wait, then N5, the callback and the response
    /\ CapiMayRun /\ capi_pc = "disconnect_b3_ind.wait"
    /\ buffers_used = 0
    /\ ncci_state' = "N0"
    /\ \/ link' = "none"
       \/ PutMayFail /\ UNCHANGED link
    /\ capi_pc' = "run"
    /\ UNCHANGED <<ringVars, fileVars, handle, app_pc, crashed, asked, unconfirmed, inboxVars>>

CapiSteps ==
    \/ read_data_b3_conf \/ data_b3_conf \/ data_b3_conf_send
    \/ connect_b3_active_ind \/ read_disconnect_b3_ind
    \/ disconnect_b3_ind \/ disconnect_b3_ind_stop \/ disconnect_b3_ind_wait

-----------------------------------------------------------------------------
(* The script's thread.                                                    *)

start_file_transmission(length) ==      \* its tests
    /\ AppMayRun /\ app_pc = "script"
    /\ Overlap \/ capi_pc = "run"
    /\ ncci_state = "NACT" /\ ~file_to_send
    /\ app_pc' = "start.open"
    /\ size' = length /\ handed' = 0 /\ complete' = FALSE
    /\ UNCHANGED <<ncci_state, ringVars, file_to_send, left, capi_pc, handle, crashed,
                   driverVars, inboxVars>>

(* new ifstream; nothing can be read from a file that can not be opened.   *)
start_open ==
    /\ AppMayRun /\ app_pc = "start.open"
    /\ \/ app_pc' = "start.check" /\ left' = size /\ UNCHANGED size
       \/ app_pc' = "start.unreadable" /\ left' = 0 /\ size' = 0
    /\ file_to_send' = TRUE
    /\ UNCHANGED <<ncci_state, ringVars, handed, complete, capi_pc, handle, crashed,
                   driverVars, inboxVars>>

start_check ==                          \* !(*file_to_send)
    /\ AppMayRun /\ app_pc = "start.check"
    /\ crashed' = ~file_to_send
    /\ app_pc' = "start.lock"
    /\ UNCHANGED <<ncci_state, ringVars, fileVars, capi_pc, handle, driverVars, inboxVars>>

start_unreadable ==                     \* the test fails: CapiExternalError
    /\ AppMayRun /\ app_pc = "start.unreadable"
    /\ crashed' = ~file_to_send
    /\ file_to_send' = FALSE
    /\ app_pc' = "script"
    /\ UNCHANGED <<ncci_state, ringVars, left, size, handed, complete, capi_pc, handle,
                   driverVars, inboxVars>>

start_lock ==
    /\ AppMayRun /\ app_pc = "start.lock"
    /\ send_mutex_free
    /\ app_pc' = "start.send"
    /\ UNCHANGED <<ncci_state, ringVars, fileVars, capi_pc, handle, crashed, driverVars,
                   inboxVars>>

start_send ==
    /\ AppMayRun /\ app_pc = "start.send"
    /\ SendLoop(app_pc' = "script" /\ UNCHANGED <<capi_pc, handle>>)

stop_file_transmission ==
    /\ AppMayRun /\ app_pc = "script"
    /\ send_mutex_free
    /\ file_to_send' = FALSE
    /\ app_pc' = "stop.wait"
    /\ UNCHANGED <<ncci_state, ringVars, left, size, handed, complete, capi_pc, handle, crashed,
                   driverVars, inboxVars>>

(* Slip: no file means nothing to wait for.                                *)
StopWaitsForFile ==
    /\ AppMayRun /\ app_pc = "stop.wait"
    /\ ~file_to_send
    /\ app_pc' = "script"
    /\ UNCHANGED <<ncci_state, ringVars, fileVars, capi_pc, handle, crashed, driverVars, inboxVars>>

stop_wait ==
    /\ AppMayRun /\ app_pc = "stop.wait"
    /\ buffers_used = 0
    /\ app_pc' = "script"
    /\ UNCHANGED <<ncci_state, ringVars, fileVars, capi_pc, handle, crashed, driverVars,
                   inboxVars>>

disconnectCall ==
    /\ AppMayRun /\ app_pc = "script"
    /\ ncci_state = "NACT"
    /\ ncci_state' = "N4"
    /\ \/ asked' = (link = "up")
       \/ PutMayFail /\ UNCHANGED asked
    /\ UNCHANGED <<ringVars, fileVars, threadVars, crashed, link, unconfirmed, inboxVars>>

ScriptCalls == (\E length \in Lengths : start_file_transmission(length)) \/ disconnectCall
               \/ stop_file_transmission

MethodSteps ==
    \/ start_open \/ start_check \/ start_unreadable \/ start_lock \/ start_send
    \/ stop_wait

-----------------------------------------------------------------------------
(* The driver.                                                             *)

Confirm ==
    /\ ~crashed /\ link = "up" /\ unconfirmed # <<>>
    /\ unconfirmed' = Tail(unconfirmed)
    /\ \E Info \in {0} \cup (IF ConfMayFail THEN {1} ELSE {}) :
         confirmations' = Append(confirmations, [handle |-> Head(unconfirmed), Info |-> Info])
    /\ UNCHANGED <<ncci_state, ringVars, fileVars, threadVars, crashed, link, asked, indications>>

ClearLink ==                            \* no DATA_B3_CONF after DISCONNECT_B3_IND
    /\ ~crashed /\ link = "up"
    /\ link' = "cleared" /\ asked' = FALSE /\ unconfirmed' = <<>>
    /\ indications' = Append(indications, "DISCONNECT_B3_IND")
    /\ UNCHANGED <<ncci_state, ringVars, fileVars, threadVars, crashed, confirmations>>

ConnectLink ==
    /\ ~crashed /\ link = "none"
    /\ link' = "up"
    /\ indications' = Append(indications, "CONNECT_B3_ACTIVE_IND")
    /\ UNCHANGED <<ncci_state, ringVars, fileVars, threadVars, crashed, asked, unconfirmed,
                   confirmations>>

Driver == Confirm \/ ClearLink \/ ConnectLink

Next == CapiSteps \/ ScriptCalls \/ MethodSteps \/ Driver

Spec == Init /\ [][Next]_vars

(* Both threads go on, the driver confirms what it has got, and closes the *)
(* link when it is asked to.  No link has to come or to go by itself.      *)
FairSpec ==
    /\ Spec
    /\ WF_vars(CapiSteps)
    /\ WF_vars(MethodSteps)
    /\ WF_vars(Confirm)
    /\ WF_vars(asked /\ ClearLink)

-----------------------------------------------------------------------------
(* A confirmation that reaches the ring is for its oldest buffer: the test *)
(* of the handle never throws, although N4 and DISCONNECT_B3_IND drop      *)
(* confirmations and buffers (disconnect_b3_ind resets buffers_used, not   *)
(* buffer_start).                                                          *)
HandleIsValid == capi_pc = "data_b3_conf" => ValidHandle

(* The next block goes to a buffer the driver does not read any more.      *)
NextBufferIsFree ==
    MoreToSend /\ ncci_state = "NACT" => \A i \in DOMAIN unconfirmed : unconfirmed[i] # buff_num

(* A module is told that its file is sent (CallInterface::                 *)
(* transmissionComplete) only when each of its bytes was handed over.      *)
CompleteMeansHanded == complete => handed = size

(* stop_file_transmission waits until the driver reads no buffer any more. *)
StoppedMeansUnused ==
    [][app_pc = "stop.wait" /\ app_pc' = "script" => unconfirmed = <<>>]_vars

(* No pointer is used after it was set to NULL.                            *)
NoNullDereference == ~crashed

(* The handler of DISCONNECT_B3_IND ends, and with it the logical call.    *)
DisconnectB3IndReturns == (capi_pc = "disconnect_b3_ind") ~> (ncci_state = "N0" \/ crashed)

(* A file that was started is sent, or stopped, or the link is closed:     *)
(* no further call is needed.                                              *)
FileIsSent == file_to_send ~> (~file_to_send \/ crashed)
=============================================================================
