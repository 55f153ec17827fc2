----------------------- MODULE FileTransmissionProofs -----------------------
(* What holds of the ring of send buffers for every window, every block    *)
(* size and every set of files.                                            *)
EXTENDS FileTransmission, QueueLemmas, TLAPS

USE DEF ringVars, fileVars, threadVars, driverVars, inboxVars

Confs  == [handle : Handles, Info : {0, 1}]
Inds   == {"CONNECT_B3_ACTIVE_IND", "DISCONNECT_B3_IND"}
CapiPC == {"run", "data_b3_conf", "data_b3_conf.send", "disconnect_b3_ind",
           "disconnect_b3_ind.stop", "disconnect_b3_ind.wait"}
AppPC  == {"script", "start.open", "start.check", "start.unreadable", "start.lock",
           "start.send", "stop.wait"}

(* The type invariant in the parts the steps disturb together.             *)
RingType   == buffer_start \in Handles /\ buffers_used \in 0 .. conf_send_buffers
                /\ handle \in Handles
FileType   == /\ file_to_send \in BOOLEAN /\ complete \in BOOLEAN /\ crashed \in BOOLEAN
              /\ left \in Nat /\ size \in Nat /\ handed \in Nat
PCType     == ncci_state \in {"N0", "N4", "NACT"} /\ capi_pc \in CapiPC /\ app_pc \in AppPC
QueueType  == unconfirmed \in Seq(Handles) /\ confirmations \in Seq(Confs)
                /\ indications \in Seq(Inds)
LinkType   == link \in {"none", "up", "cleared"} /\ asked \in BOOLEAN
TypeInv    == RingType /\ FileType /\ PCType /\ QueueType /\ LinkType

LEMMA TypeInvIsTypeOK == TypeInv <=> FileTypeOK
  BY DEF TypeInv, RingType, FileType, PCType, QueueType, LinkType, FileTypeOK,
         Confs, Inds, CapiPC, AppPC

(* Places in a ring of seven.                                              *)
LEMMA RingIndex ==
    ASSUME NEW s \in Nat PROVE s % SendBuffers \in Handles
  BY DEF SendBuffers, Handles

LEMMA RingStep ==
    ASSUME NEW s \in Handles, NEW k \in Nat
    PROVE  (((s + 1) % SendBuffers) + k) % SendBuffers = (s + 1 + k) % SendBuffers
  BY DEF SendBuffers, Handles

LEMMA TypeInit == Init => TypeInv
  <1> SUFFICES ASSUME Init PROVE TypeInv
    OBVIOUS
  <1>1. RingType
    BY TransmissionAssumption DEF Init, RingType, Handles, SendBuffers
  <1>2. FileType /\ PCType /\ LinkType
    BY DEF Init, FileType, PCType, LinkType, CapiPC, AppPC
  <1>3. QueueType
    BY DEF Init, QueueType
  <1> QED
    BY <1>1, <1>2, <1>3 DEF TypeInv

(* What send_block does to the ring, whoever calls it.                     *)
LEMMA SendBlock ==
    ASSUME TypeInv, MoreToSend, send_block
    PROVE  /\ FileType'
           /\ buffers_used' \in 0 .. conf_send_buffers
           /\ buff_num \in Handles
           /\ unconfirmed' \in Seq(Handles)
           /\ \/ UNCHANGED <<buffers_used, unconfirmed>>
              \/ /\ buffers_used' = buffers_used + 1
                 /\ link = "up" => unconfirmed' = Append(unconfirmed, buff_num)
                 /\ link # "up" => UNCHANGED unconfirmed
  <1>1. /\ buffer_start \in Handles /\ buffers_used \in 0 .. conf_send_buffers
        /\ buffers_used < conf_send_buffers /\ conf_send_buffers \in Nat
        /\ unconfirmed \in Seq(Handles)
    BY TransmissionAssumption DEF TypeInv, RingType, QueueType, MoreToSend, SendBuffers
  <1>2. buff_num \in Handles
    BY <1>1, RingIndex DEF buff_num, Handles
  <1>3. \/ UNCHANGED <<buffers_used, unconfirmed, handed>>
        \/ data_b3_req
    BY DEF send_block, data_b3_req_failed
  <1>4. Append(unconfirmed, buff_num) \in Seq(Handles)
    BY <1>1, <1>2, AppendType
  <1>5. n \in Nat /\ left - n \in Nat
    BY TransmissionAssumption DEF n, TypeInv, FileType
  <1>6. handed' \in Nat
    BY <1>3, <1>5 DEF data_b3_req, TypeInv, FileType
  <1>7. left' \in Nat /\ size' \in Nat
    BY <1>5 DEF send_block, TypeInv, FileType
  <1>8. file_to_send' \in BOOLEAN /\ complete' \in BOOLEAN /\ crashed' \in BOOLEAN
    <2>1. file_completed \in BOOLEAN
      BY DEF file_completed
    <2>2. complete \in BOOLEAN /\ crashed \in BOOLEAN
      BY DEF TypeInv, FileType
    <2>3. /\ file_to_send' = ~file_completed
          /\ complete' = (complete \/ file_completed) \/ complete' = complete
          /\ crashed' = crashed \/ crashed' = file_completed
      BY DEF send_block
    <2> QED
      BY <2>1, <2>2, <2>3, Zenon
  <1>9. FileType'
    BY <1>6, <1>7, <1>8 DEF FileType
  <1> QED
    BY <1>1, <1>2, <1>3, <1>4, <1>9 DEF data_b3_req

LEMMA TypeSend ==
    ASSUME TypeInv, MoreToSend, send_block, PCType', RingType => handle' \in Handles
    PROVE  TypeInv'
  <1>1. UNCHANGED <<ncci_state, buffer_start, link, asked, inboxVars>>
    BY DEF send_block
  <1> QED
    BY <1>1, SendBlock DEF TypeInv, RingType, QueueType, LinkType

LEMMA TypeCapi == ASSUME TypeInv, CapiSteps PROVE TypeInv'
  <1> USE DEF TypeInv
  <1>1. CASE read_data_b3_conf
    <2>1. confirmations \in Seq(Confs) /\ confirmations # <<>>
      BY <1>1 DEF read_data_b3_conf, QueueType
    <2>2. Tail(confirmations) \in Seq(Confs) /\ Head(confirmations) \in Confs
      BY <2>1, TailType
    <2>3. Head(confirmations).handle \in Handles
      BY <2>2 DEF Confs
    <2> QED
      BY <1>1, <2>2, <2>3 DEF read_data_b3_conf, RingType, FileType, PCType, QueueType, LinkType, CapiPC
  <1>2. CASE data_b3_conf
    <2>1. buffer_start' \in Handles
      BY <1>2, RingIndex DEF data_b3_conf, RingType, Handles
    <2>2. buffers_used' \in 0 .. conf_send_buffers
      BY <1>2, TransmissionAssumption DEF data_b3_conf, RingType, ValidHandle
    <2> QED
      BY <1>2, <2>1, <2>2 DEF data_b3_conf, RingType, FileType, PCType, QueueType, LinkType, CapiPC
  <1>3. CASE data_b3_conf_send
    <2>1. CASE MoreToSend /\ send_block /\ UNCHANGED threadVars
      BY <1>3, <2>1, TypeSend DEF data_b3_conf_send, PCType, RingType, send_block
    <2>2. CASE capi_pc' = "run" /\ UNCHANGED <<handle, app_pc, ncci_state, ringVars, fileVars,
                                              crashed, driverVars, inboxVars>>
      BY <2>2 DEF RingType, FileType, PCType, QueueType, LinkType, CapiPC
    <2> QED
      BY <1>3, <2>1, <2>2 DEF data_b3_conf_send, SendLoop
  <1>4. CASE connect_b3_active_ind \/ read_disconnect_b3_ind
    <2>1. indications \in Seq(Inds) /\ indications # <<>> /\ indications' = Tail(indications)
      BY <1>4 DEF connect_b3_active_ind, read_disconnect_b3_ind, ReadIndication, QueueType
    <2>2. indications' \in Seq(Inds)
      BY <2>1, TailType
    <2>3. PCType'
      BY <1>4 DEF connect_b3_active_ind, read_disconnect_b3_ind, PCType, CapiPC
    <2>4. UNCHANGED <<ringVars, fileVars, handle, crashed, driverVars, confirmations>>
      BY <1>4 DEF connect_b3_active_ind, read_disconnect_b3_ind
    <2> QED
      BY <2>2, <2>3, <2>4 DEF RingType, FileType, QueueType, LinkType
  <1>5. CASE disconnect_b3_ind
    BY <1>5, TransmissionAssumption DEF disconnect_b3_ind, RingType, FileType, PCType,
       QueueType, LinkType, CapiPC, SendBuffers
  <1>6. CASE disconnect_b3_ind_stop
    BY <1>6 DEF disconnect_b3_ind_stop, RingType, FileType, PCType, QueueType, LinkType, CapiPC
  <1>7. CASE disconnect_b3_ind_wait
    BY <1>7 DEF disconnect_b3_ind_wait, RingType, FileType, PCType, QueueType, LinkType, CapiPC
  <1> QED
    BY <1>1, <1>2, <1>3, <1>4, <1>5, <1>6, <1>7 DEF CapiSteps

LEMMA TypeScript == ASSUME TypeInv, ScriptCalls \/ MethodSteps PROVE TypeInv'
  <1> USE DEF TypeInv
  <1>1. CASE \E length \in Lengths : start_file_transmission(length)
    <2>1. size' \in Nat /\ handed' \in Nat /\ complete' \in BOOLEAN
      <3>1. PICK length \in Lengths : size' = length /\ handed' = 0 /\ complete' = FALSE
        BY <1>1 DEF start_file_transmission
      <3>2. length \in Nat
        BY TransmissionAssumption
      <3> QED
        BY <3>1, <3>2
    <2>2. PCType'
      BY <1>1 DEF start_file_transmission, PCType, AppPC
    <2>3. UNCHANGED <<ringVars, file_to_send, left, handle, crashed, driverVars, inboxVars>>
      BY <1>1 DEF start_file_transmission
    <2> QED
      BY <2>1, <2>2, <2>3 DEF RingType, FileType, QueueType, LinkType
  <1>2. CASE disconnectCall
    BY <1>2 DEF disconnectCall, RingType, FileType, PCType, QueueType, LinkType
  <1>3. CASE \/ stop_file_transmission \/ start_open \/ start_check \/ start_unreadable
             \/ start_lock \/ stop_wait
    <2>1. PCType'
      BY <1>3 DEF stop_file_transmission, start_open, start_check, start_unreadable, start_lock,
         stop_wait, PCType, AppPC
    <2>2. FileType'
      <3>1. /\ left' \in {left, size, 0} /\ size' \in {size, 0}
            /\ UNCHANGED <<handed, complete>>
        BY <1>3 DEF stop_file_transmission, start_open, start_check, start_unreadable,
           start_lock, stop_wait
      <3>2. /\ file_to_send' \in {file_to_send, TRUE, FALSE}
            /\ crashed' \in {crashed, ~file_to_send}
        BY <1>3 DEF stop_file_transmission, start_open, start_check, start_unreadable,
           start_lock, stop_wait
      <3>3. file_to_send \in BOOLEAN /\ crashed \in BOOLEAN /\ complete \in BOOLEAN
        BY DEF FileType
      <3>4. file_to_send' \in BOOLEAN /\ crashed' \in BOOLEAN /\ complete' \in BOOLEAN
        BY <3>1, <3>2, <3>3, Zenon
      <3>5. left' \in Nat /\ size' \in Nat /\ handed' \in Nat
        BY <3>1 DEF FileType
      <3> QED
        BY <3>4, <3>5 DEF FileType
    <2>3. UNCHANGED <<ringVars, handle, driverVars, inboxVars>>
      BY <1>3 DEF stop_file_transmission, start_open, start_check, start_unreadable, start_lock,
         stop_wait
    <2> QED
      BY <2>1, <2>2, <2>3 DEF RingType, QueueType, LinkType
  <1>4. CASE start_send
    <2>1. CASE MoreToSend /\ send_block /\ UNCHANGED threadVars
      BY <1>4, <2>1, TypeSend DEF start_send, PCType, RingType, send_block
    <2>2. CASE app_pc' = "script" /\ UNCHANGED <<handle, capi_pc, ncci_state, ringVars, fileVars,
                                                crashed, driverVars, inboxVars>>
      BY <2>2 DEF RingType, FileType, PCType, QueueType, LinkType, AppPC
    <2> QED
      BY <1>4, <2>1, <2>2 DEF start_send, SendLoop
  <1> QED
    BY <1>1, <1>2, <1>3, <1>4 DEF ScriptCalls, MethodSteps

LEMMA TypeDriver == ASSUME TypeInv, Driver PROVE TypeInv'
  <1> USE DEF TypeInv
  <1>1. CASE Confirm
    <2>1. unconfirmed \in Seq(Handles) /\ unconfirmed # <<>> /\ confirmations \in Seq(Confs)
      BY <1>1 DEF Confirm, QueueType
    <2>2. Head(unconfirmed) \in Handles /\ Tail(unconfirmed) \in Seq(Handles)
      BY <2>1, TailType
    <2>3. PICK Info \in {0, 1} :
            confirmations' = Append(confirmations, [handle |-> Head(unconfirmed), Info |-> Info])
      BY <1>1 DEF Confirm
    <2>4. [handle |-> Head(unconfirmed), Info |-> Info] \in Confs
      BY <2>2 DEF Confs
    <2>5. confirmations' \in Seq(Confs)
      BY <2>1, <2>3, <2>4, AppendType
    <2> QED
      BY <1>1, <2>2, <2>5 DEF Confirm, RingType, FileType, PCType, QueueType, LinkType
  <1>2. CASE ClearLink \/ ConnectLink
    <2>1. "DISCONNECT_B3_IND" \in Inds /\ "CONNECT_B3_ACTIVE_IND" \in Inds
          /\ indications \in Seq(Inds)
      BY DEF Inds, QueueType
    <2>2. indications' \in Seq(Inds)
      BY <1>2, <2>1, AppendType DEF ClearLink, ConnectLink
    <2>3. unconfirmed' \in Seq(Handles) /\ UNCHANGED confirmations
      <3>1. <<>> \in Seq(Handles) /\ unconfirmed \in Seq(Handles)
        BY DEF QueueType
      <3> QED
        BY <1>2, <3>1 DEF ClearLink, ConnectLink
    <2>4. LinkType'
      BY <1>2 DEF ClearLink, ConnectLink, LinkType
    <2>5. UNCHANGED <<ncci_state, ringVars, fileVars, threadVars, crashed>>
      BY <1>2 DEF ClearLink, ConnectLink
    <2> QED
      BY <2>2, <2>3, <2>4, <2>5 DEF RingType, FileType, PCType, QueueType
  <1> QED
    BY <1>1, <1>2 DEF Driver

(* Every variable keeps its type; in particular buffers_used never exceeds *)
(* conf_send_buffers, so that send_block never finds the ring full.        *)
THEOREM FileTypeCorrect == Spec => []FileTypeOK
  <1>1. TypeInv /\ [Next]_vars => TypeInv'
    <2> SUFFICES ASSUME TypeInv, [Next]_vars PROVE TypeInv'
      OBVIOUS
    <2>1. CASE Next
      BY <2>1, TypeCapi, TypeScript, TypeDriver DEF Next
    <2>2. CASE UNCHANGED vars
      BY <2>2 DEF vars, TypeInv, RingType, FileType, PCType, QueueType, LinkType
    <2> QED
      BY <2>1, <2>2
  <1> QED
    BY TypeInit, <1>1, TypeInvIsTypeOK, PTL DEF Spec

-----------------------------------------------------------------------------
(* HandleIsValid is not inductive: it says nothing of the confirmations    *)
(* still in the queue.  While the connection is up (NACT), these and the   *)
(* blocks the driver still has are, in this order, the buffers from        *)
(* buffer_start on, after the one whose confirmation is being handled.     *)
InHand == IF capi_pc = "data_b3_conf" THEN 1 ELSE 0

Ending == capi_pc \in {"disconnect_b3_ind", "disconnect_b3_ind.stop", "disconnect_b3_ind.wait"}

RingIsQueue ==
    ncci_state = "NACT" =>
        /\ InHand + Len(confirmations) + Len(unconfirmed) <= buffers_used
        /\ link = "up" => InHand + Len(confirmations) + Len(unconfirmed) = buffers_used
        /\ \A i \in DOMAIN confirmations :
             confirmations[i].handle = (buffer_start + InHand + i - 1) % SendBuffers
        /\ \A i \in DOMAIN unconfirmed :
             unconfirmed[i] = (buffer_start + InHand + Len(confirmations) + i - 1) % SendBuffers

(* Nothing is left of a link when the next one comes.                      *)
NothingLeft ==
    /\ ncci_state = "N0" => /\ capi_pc = "run"
                            /\ buffers_used = 0
                            /\ confirmations = <<>> /\ unconfirmed = <<>>
    /\ link = "none" => ncci_state = "N0"
    /\ link # "up" => unconfirmed = <<>>

EndMeansCleared ==
    /\ Ending => link = "cleared" /\ confirmations = <<>> /\ indications = <<>>
    /\ link = "up" => Lacks(indications, "DISCONNECT_B3_IND")
    /\ link = "none" => indications = <<>>

(* DISCONNECT_B3_IND is the last a link sends.                             *)
EndIsLast ==
    \A i \in DOMAIN indications :
      indications[i] = "DISCONNECT_B3_IND" => i = Len(indications)

NoneRefused == \A i \in DOMAIN confirmations : confirmations[i].Info = 0

RingInv ==
    /\ HandleIsValid /\ RingIsQueue /\ NothingLeft /\ EndMeansCleared /\ EndIsLast
    /\ NoneRefused
(* The types of the ring, in the form the steps below use them.            *)
LEMMA RingTypes ==
    ASSUME TypeInv
    PROVE  /\ buffer_start \in Handles /\ buffers_used \in Nat
           /\ unconfirmed \in Seq(Handles) /\ confirmations \in Seq(Confs)
           /\ indications \in Seq(Inds)
           /\ Len(unconfirmed) \in Nat /\ Len(confirmations) \in Nat
           /\ link \in {"none", "up", "cleared"}
           /\ ncci_state \in {"N0", "N4", "NACT"}
  BY TransmissionAssumption DEF TypeInv, RingType, QueueType, LinkType, PCType, SendBuffers

LEMMA RingSend ==
    ASSUME TypeInv, RingInv, MoreToSend, ncci_state = "NACT", send_block, UNCHANGED capi_pc,
           UNCHANGED handle
    PROVE  RingInv'
  <1>1. UNCHANGED <<ncci_state, buffer_start, link, confirmations, indications>>
    BY DEF send_block
  <1>2. CASE UNCHANGED <<buffers_used, unconfirmed>>
    BY <1>1, <1>2 DEF RingInv, HandleIsValid, ValidHandle, RingIsQueue, InHand, NothingLeft,
       EndMeansCleared, Ending, EndIsLast, NoneRefused
  <1>3. CASE buffers_used' = buffers_used + 1
    <2>1. HandleIsValid'
      BY <1>1, <1>3, RingTypes DEF RingInv, HandleIsValid, ValidHandle
    <2>2. RingIsQueue'
      <3> DEFINE c == Len(confirmations)
                 u == Len(unconfirmed)
      <3>1. InHand' = InHand /\ InHand \in {0, 1} /\ c \in Nat /\ u \in Nat
            /\ buffer_start \in Nat /\ buffers_used \in Nat
        BY RingTypes DEF InHand, Handles
      <3>2. CASE link = "up"
        <4>1. unconfirmed' = Append(unconfirmed, buff_num) /\ InHand + c + u = buffers_used
          BY <3>2, <1>3, SendBlock DEF RingInv, RingIsQueue
        <4>2. /\ Len(unconfirmed') = u + 1
              /\ \A i \in DOMAIN unconfirmed' :
                   \/ i \in DOMAIN unconfirmed /\ unconfirmed'[i] = unconfirmed[i]
                   \/ i = u + 1 /\ unconfirmed'[i] = buff_num
          BY <4>1, RingTypes, AppendElements
        <4>3. buff_num = (buffer_start + InHand + c + (u + 1) - 1) % SendBuffers
          BY <4>1, <3>1 DEF buff_num
        <4>4. \A i \in DOMAIN unconfirmed' :
                unconfirmed'[i] = (buffer_start + InHand + c + i - 1) % SendBuffers
          BY <4>2, <4>3 DEF RingInv, RingIsQueue
        <4>5. InHand + c + Len(unconfirmed') = buffers_used'
          BY <4>1, <4>2, <3>1, <1>3
        <4> QED
          BY <4>4, <4>5, <3>1, <1>1, <1>3 DEF RingInv, RingIsQueue
      <3>3. CASE link # "up"
        <4>1. unconfirmed' = unconfirmed
          BY <3>3, <1>3, SendBlock, RingTypes
        <4> QED
          BY <3>1, <3>3, <4>1, <1>1, <1>3 DEF RingInv, RingIsQueue
      <3> QED
        BY <3>2, <3>3
    <2>3. NothingLeft'
      <3>1. link # "up" => unconfirmed' = unconfirmed
        BY <1>3, SendBlock, RingTypes
      <3> QED
        BY <3>1, <1>1 DEF RingInv, NothingLeft
    <2> QED
      BY <2>1, <2>2, <2>3, <1>1 DEF RingInv, EndMeansCleared, Ending, EndIsLast, NoneRefused
  <1> QED
    BY <1>2, <1>3, SendBlock

LEMMA RingReadConf == ASSUME TypeInv, RingInv, read_data_b3_conf PROVE RingInv'
  <1>1. /\ capi_pc = "run" /\ confirmations # <<>> /\ confirmations' = Tail(confirmations)
        /\ UNCHANGED <<ncci_state, buffer_start, buffers_used, link, unconfirmed, indications>>
        /\ capi_pc' \in {"run", "data_b3_conf"}
    BY DEF read_data_b3_conf
  <1>2. /\ 1 \in DOMAIN confirmations /\ Head(confirmations) = confirmations[1]
        /\ Len(confirmations') = Len(confirmations) - 1 /\ Len(confirmations) >= 1
        /\ \A i \in DOMAIN confirmations' :
             i \in Nat /\ i + 1 \in DOMAIN confirmations /\ confirmations'[i] = confirmations[i + 1]
    BY <1>1, RingTypes, TailType, TailLength
  <1>3. ncci_state # "N0"
    BY <1>1 DEF RingInv, NothingLeft
  <1>4. NothingLeft' /\ EndMeansCleared' /\ EndIsLast'
    BY <1>1, <1>3 DEF RingInv, NothingLeft, EndMeansCleared, Ending, EndIsLast
  <1>5. NoneRefused'
    BY <1>2 DEF RingInv, NoneRefused
  <1>6. CASE ncci_state # "NACT"
    <2>1. capi_pc' = "run" /\ ncci_state' # "NACT"
      BY <1>6, <1>1 DEF read_data_b3_conf
    <2> QED
      BY <2>1, <1>4, <1>5 DEF RingInv, HandleIsValid, RingIsQueue
  <1>7. CASE ncci_state = "NACT"
    <2> DEFINE c == Len(confirmations)
               u == Len(unconfirmed)
    <2>1. capi_pc' = "data_b3_conf" /\ handle' = confirmations[1].handle
      BY <1>7, <1>2 DEF read_data_b3_conf, RingInv, NoneRefused
    <2>2. /\ InHand = 0 /\ InHand' = 1 /\ c \in Nat /\ u \in Nat /\ buffers_used \in Nat
          /\ buffer_start \in Handles /\ buffer_start \in Nat
      BY <1>1, <2>1, RingTypes DEF InHand, Handles
    <2>3. handle' = (buffer_start + 0 + 1 - 1) % SendBuffers
      BY <1>2, <1>7, <2>1, <2>2 DEF RingInv, RingIsQueue
    <2>4. handle' = buffer_start
      BY <2>2, <2>3 DEF Handles, SendBuffers
    <2>5. buffers_used > 0
      BY <1>2, <1>7, <2>2 DEF RingInv, RingIsQueue
    <2>6. HandleIsValid'
      BY <2>4, <2>5, <1>1 DEF HandleIsValid, ValidHandle
    <2>7. \A i \in DOMAIN confirmations' :
            confirmations'[i].handle = (buffer_start' + InHand' + i - 1) % SendBuffers
      <3> SUFFICES ASSUME NEW i \in DOMAIN confirmations'
                   PROVE  confirmations'[i].handle
                            = (buffer_start' + InHand' + i - 1) % SendBuffers
        OBVIOUS
      <3>1. confirmations'[i].handle = (buffer_start + 0 + (i + 1) - 1) % SendBuffers
        BY <1>2, <1>7, <2>2 DEF RingInv, RingIsQueue
      <3>2. buffer_start' + InHand' + i - 1 = buffer_start + 0 + (i + 1) - 1
        BY <1>1, <1>2, <2>2
      <3> QED
        BY <3>1, <3>2
    <2>8. \A i \in DOMAIN unconfirmed' :
            unconfirmed'[i] = (buffer_start' + InHand' + Len(confirmations') + i - 1) % SendBuffers
      <3>1. buffer_start' + InHand' + Len(confirmations') = buffer_start + InHand + c
        BY <1>1, <1>2, <2>2
      <3> QED
        BY <3>1, <1>1, <1>7 DEF RingInv, RingIsQueue
    <2>9. InHand' + Len(confirmations') + Len(unconfirmed') = InHand + c + u
      BY <1>1, <1>2, <2>2
    <2>10. RingIsQueue'
      BY <2>7, <2>8, <2>9, <1>1, <1>7 DEF RingInv, RingIsQueue
    <2> QED
      BY <2>6, <2>10, <1>4, <1>5 DEF RingInv
  <1> QED
    BY <1>6, <1>7

LEMMA RingConf == ASSUME TypeInv, RingInv, data_b3_conf PROVE RingInv'
  <1>1. /\ capi_pc = "data_b3_conf" /\ capi_pc' = "data_b3_conf.send"
        /\ buffers_used' = buffers_used - 1 /\ buffers_used > 0
        /\ buffer_start' = (buffer_start + 1) % SendBuffers
        /\ UNCHANGED <<ncci_state, link, unconfirmed, confirmations, indications>>
    BY DEF data_b3_conf, RingInv, HandleIsValid, ValidHandle
  <1>2. ncci_state # "N0"
    BY <1>1 DEF RingInv, NothingLeft
  <1>3. /\ HandleIsValid' /\ NothingLeft' /\ EndMeansCleared' /\ EndIsLast' /\ NoneRefused'
    BY <1>1, <1>2 DEF RingInv, HandleIsValid, NothingLeft, EndMeansCleared, Ending, EndIsLast,
       NoneRefused
  <1>4. RingIsQueue'
    <2> SUFFICES ASSUME ncci_state = "NACT" PROVE RingIsQueue'
      BY <1>1 DEF RingIsQueue
    <2> DEFINE c == Len(confirmations)
               u == Len(unconfirmed)
    <2>1. /\ InHand = 1 /\ InHand' = 0 /\ c \in Nat /\ u \in Nat /\ buffers_used \in Nat
          /\ buffer_start \in Handles /\ buffer_start \in Nat /\ buffer_start' \in Nat
      BY <1>1, RingTypes, RingIndex DEF InHand, Handles
    <2>2. \A k \in Nat : (buffer_start' + k) % SendBuffers = (buffer_start + 1 + k) % SendBuffers
      BY <1>1, <2>1, RingStep
    <2>3. \A i \in DOMAIN confirmations :
            confirmations[i].handle = (buffer_start' + InHand' + i - 1) % SendBuffers
      <3> SUFFICES ASSUME NEW i \in DOMAIN confirmations
                   PROVE  confirmations[i].handle
                            = (buffer_start' + InHand' + i - 1) % SendBuffers
        OBVIOUS
      <3>1. i \in Nat /\ i - 1 \in Nat
        BY RingTypes
      <3>2. confirmations[i].handle = (buffer_start + 1 + i - 1) % SendBuffers
        BY <2>1 DEF RingInv, RingIsQueue
      <3>3. /\ buffer_start + 1 + i - 1 = buffer_start + 1 + (i - 1)
            /\ buffer_start' + InHand' + i - 1 = buffer_start' + (i - 1)
        BY <2>1, <3>1
      <3> QED
        BY <2>2, <3>1, <3>2, <3>3
    <2>4. \A i \in DOMAIN unconfirmed :
            unconfirmed[i] = (buffer_start' + InHand' + c + i - 1) % SendBuffers
      <3> SUFFICES ASSUME NEW i \in DOMAIN unconfirmed
                   PROVE  unconfirmed[i] = (buffer_start' + InHand' + c + i - 1) % SendBuffers
        OBVIOUS
      <3>1. i \in Nat /\ i - 1 \in Nat /\ c + (i - 1) \in Nat
        BY RingTypes
      <3>2. unconfirmed[i] = (buffer_start + 1 + c + i - 1) % SendBuffers
        BY <2>1 DEF RingInv, RingIsQueue
      <3>3. /\ buffer_start + 1 + c + i - 1 = buffer_start + 1 + (c + (i - 1))
            /\ buffer_start' + InHand' + c + i - 1 = buffer_start' + (c + (i - 1))
        BY <2>1, <3>1
      <3> QED
        BY <2>2, <3>1, <3>2, <3>3
    <2>5. InHand' + c + u <= buffers_used' /\ (link = "up" => InHand' + c + u = buffers_used')
      BY <1>1, <2>1 DEF RingInv, RingIsQueue
    <2> QED
      BY <1>1, <2>3, <2>4, <2>5 DEF RingIsQueue
  <1> QED
    BY <1>3, <1>4 DEF RingInv

(* A step that leaves the ring and the queues alone keeps the invariant.   *)
LEMMA RingSame ==
    ASSUME RingInv, UNCHANGED <<ncci_state, ringVars, capi_pc, handle, link, unconfirmed, inboxVars>>
    PROVE  RingInv'
  BY DEF RingInv, HandleIsValid, ValidHandle, RingIsQueue, InHand, NothingLeft,
     EndMeansCleared, Ending, EndIsLast, NoneRefused

LEMMA RingCapi == ASSUME TypeInv, RingInv, CapiSteps PROVE RingInv'
  <1>1. CASE data_b3_conf_send
    <2>1. CASE MoreToSend /\ ncci_state = "NACT" /\ send_block /\ UNCHANGED threadVars
      BY <2>1, RingSend
    <2>2. CASE /\ capi_pc = "data_b3_conf.send" /\ capi_pc' = "run"
               /\ UNCHANGED <<ncci_state, ringVars, handle, driverVars, inboxVars>>
      BY <2>2 DEF RingInv, HandleIsValid, RingIsQueue, InHand, NothingLeft,
         EndMeansCleared, Ending, EndIsLast, NoneRefused
    <2> QED
      BY <1>1, <2>1, <2>2 DEF data_b3_conf_send, SendLoop
  <1>2. CASE connect_b3_active_ind
    <2>1. /\ indications \in Seq(Inds) /\ indications # <<>> /\ indications' = Tail(indications)
          /\ capi_pc = "run" /\ confirmations = <<>>
          /\ Head(indications) = "CONNECT_B3_ACTIVE_IND"
          /\ ncci_state' = IF ncci_state = "N0" THEN "NACT" ELSE ncci_state
          /\ UNCHANGED <<ringVars, threadVars, driverVars, confirmations>>
      BY <1>2, RingTypes DEF connect_b3_active_ind, ReadIndication
    <2>2. link # "none"
      BY <2>1 DEF RingInv, EndMeansCleared
    <2>3. RingIsQueue'
      <3>1. CASE ncci_state = "N0"
        <4>1. InHand' = 0 /\ confirmations' = <<>> /\ unconfirmed' = <<>> /\ buffers_used' = 0
          BY <2>1, <3>1 DEF RingInv, NothingLeft, InHand
        <4> QED
          BY <4>1 DEF RingIsQueue
      <3>2. CASE ncci_state # "N0"
        BY <2>1, <3>2 DEF RingInv, RingIsQueue, InHand
      <3> QED
        BY <3>1, <3>2
    <2>4. EndIsLast' /\ (link = "up" => Lacks(indications', "DISCONNECT_B3_IND"))
      BY <2>1, TailKeepsLast, TailLacks DEF RingInv, EndIsLast, EndMeansCleared
    <2> QED
      BY <2>1, <2>2, <2>3, <2>4 DEF RingInv, HandleIsValid, NothingLeft, EndMeansCleared, Ending,
         NoneRefused
  <1>3. CASE read_disconnect_b3_ind
    <2>1. /\ indications \in Seq(Inds) /\ indications # <<>> /\ indications' = Tail(indications)
          /\ capi_pc = "run" /\ confirmations = <<>>
          /\ Head(indications) = "DISCONNECT_B3_IND"
          /\ capi_pc' = IF ncci_state \in {"NACT", "N4"} THEN "disconnect_b3_ind" ELSE "run"
          /\ UNCHANGED <<ncci_state, ringVars, handle, driverVars, confirmations>>
      BY <1>3, RingTypes DEF read_disconnect_b3_ind, ReadIndication
    <2>2. indications' = <<>>
      BY <2>1, LastOnly DEF RingInv, EndIsLast
    <2>3. link = "cleared"
      BY <2>1, TailLacks, RingTypes DEF RingInv, EndMeansCleared
    <2> QED
      BY <2>1, <2>2, <2>3 DEF RingInv, HandleIsValid, RingIsQueue, InHand, NothingLeft,
         EndMeansCleared, Ending, EndIsLast, NoneRefused
  <1>4. CASE disconnect_b3_ind
    <2>1. unconfirmed = <<>> /\ confirmations = <<>> /\ link = "cleared" /\ ncci_state # "N0"
          /\ indications = <<>>
      BY <1>4 DEF disconnect_b3_ind, RingInv, NothingLeft, EndMeansCleared, Ending
    <2>2. RingIsQueue'
      BY <1>4, <2>1 DEF disconnect_b3_ind, RingIsQueue, InHand
    <2> QED
      BY <1>4, <2>1, <2>2 DEF disconnect_b3_ind, RingInv, HandleIsValid, NothingLeft,
         EndMeansCleared, Ending, EndIsLast, NoneRefused
  <1>5. CASE disconnect_b3_ind_stop
    BY <1>5 DEF disconnect_b3_ind_stop, RingInv, HandleIsValid, RingIsQueue, InHand, NothingLeft,
       EndMeansCleared, Ending, EndIsLast, NoneRefused
  <1>6. CASE disconnect_b3_ind_wait
    <2>1. unconfirmed = <<>> /\ confirmations = <<>> /\ link = "cleared" /\ indications = <<>>
          /\ buffers_used = 0 /\ ncci_state' = "N0" /\ capi_pc' = "run"
          /\ link' \in {"none", "cleared"}
          /\ UNCHANGED <<ringVars, unconfirmed, inboxVars>>
      BY <1>6 DEF disconnect_b3_ind_wait, RingInv, NothingLeft, EndMeansCleared, Ending
    <2> QED
      BY <2>1 DEF RingInv, HandleIsValid, RingIsQueue, NothingLeft, EndMeansCleared, Ending,
         EndIsLast, NoneRefused
  <1> QED
    BY <1>1, <1>2, <1>3, <1>4, <1>5, <1>6, RingReadConf, RingConf DEF CapiSteps

LEMMA RingScript == ASSUME TypeInv, RingInv, ScriptCalls \/ MethodSteps PROVE RingInv'
  <1>1. CASE start_send
    <2>1. CASE MoreToSend /\ ncci_state = "NACT" /\ send_block /\ UNCHANGED threadVars
      BY <2>1, RingSend
    <2>2. CASE UNCHANGED <<ncci_state, ringVars, capi_pc, handle, driverVars, inboxVars>>
      BY <2>2, RingSame
    <2> QED
      BY <1>1, <2>1, <2>2 DEF start_send, SendLoop
  <1>2. CASE disconnectCall
    <2>1. /\ ncci_state = "NACT" /\ ncci_state' = "N4"
          /\ UNCHANGED <<ringVars, threadVars, link, unconfirmed, inboxVars>>
      BY <1>2 DEF disconnectCall
    <2> QED
      BY <2>1 DEF RingInv, HandleIsValid, ValidHandle, RingIsQueue, InHand, NothingLeft,
         EndMeansCleared, Ending, EndIsLast, NoneRefused
  <1>3. CASE \/ \E length \in Lengths : start_file_transmission(length)
             \/ stop_file_transmission \/ start_open \/ start_check \/ start_unreadable
             \/ start_lock \/ stop_wait
    BY <1>3, RingSame DEF start_file_transmission, stop_file_transmission, start_open,
       start_check, start_unreadable, start_lock, stop_wait
  <1> QED
    BY <1>1, <1>2, <1>3 DEF ScriptCalls, MethodSteps

LEMMA RingConfirm == ASSUME ~ConfMayFail, TypeInv, RingInv, Confirm PROVE RingInv'
  <1> DEFINE c == Len(confirmations)
             u == Len(unconfirmed)
             d == [handle |-> Head(unconfirmed), Info |-> 0]
  <1>1. /\ link = "up" /\ unconfirmed # <<>> /\ unconfirmed' = Tail(unconfirmed)
        /\ confirmations' = Append(confirmations, d)
        /\ UNCHANGED <<ncci_state, ringVars, threadVars, link, indications>>
    BY DEF Confirm
  <1>2. /\ c \in Nat /\ u \in Nat /\ Len(confirmations') = c + 1 /\ Len(unconfirmed') = u - 1
        /\ 1 \in DOMAIN unconfirmed /\ d.handle = unconfirmed[1] /\ d.Info = 0
    BY <1>1, RingTypes, AppendElements, TailType, TailLength
  <1>3. \A i \in DOMAIN confirmations' :
          \/ i \in DOMAIN confirmations /\ confirmations'[i] = confirmations[i]
          \/ i = c + 1 /\ confirmations'[i] = d
    BY <1>1, RingTypes, AppendElements
  <1>4. \A i \in DOMAIN unconfirmed' :
          i \in Nat /\ i + 1 \in DOMAIN unconfirmed /\ unconfirmed'[i] = unconfirmed[i + 1]
    BY <1>1, RingTypes, TailType, TailLength
  <1>5. ncci_state # "N0" /\ ~Ending
    BY <1>1 DEF RingInv, NothingLeft, EndMeansCleared
  <1>6. NoneRefused'
    BY <1>2, <1>3 DEF RingInv, NoneRefused
  <1>7. RingIsQueue'
    <2> SUFFICES ASSUME ncci_state = "NACT" PROVE RingIsQueue'
      BY <1>1 DEF RingIsQueue
    <2>1. InHand' = InHand /\ InHand \in {0, 1} /\ buffer_start \in Nat /\ buffer_start' = buffer_start
      BY <1>1, RingTypes DEF InHand, Handles
    <2>2. d.handle = (buffer_start + InHand + (c + 1) - 1) % SendBuffers
      <3>1. unconfirmed[1] = (buffer_start + InHand + c + 1 - 1) % SendBuffers
        BY <1>2 DEF RingInv, RingIsQueue
      <3>2. buffer_start + InHand + c + 1 - 1 = buffer_start + InHand + (c + 1) - 1
        BY <1>2, <2>1
      <3> QED
        BY <1>2, <3>1, <3>2
    <2>3. \A i \in DOMAIN confirmations' :
            confirmations'[i].handle = (buffer_start + InHand + i - 1) % SendBuffers
      <3> HIDE DEF d
      <3> QED
        BY <1>3, <2>2 DEF RingInv, RingIsQueue
    <2>4. \A i \in DOMAIN unconfirmed' :
            unconfirmed'[i] = (buffer_start + InHand + (c + 1) + i - 1) % SendBuffers
      <3> SUFFICES ASSUME NEW i \in DOMAIN unconfirmed'
                   PROVE  unconfirmed'[i]
                            = (buffer_start + InHand + (c + 1) + i - 1) % SendBuffers
        OBVIOUS
      <3>1. unconfirmed'[i] = (buffer_start + InHand + c + (i + 1) - 1) % SendBuffers
        BY <1>4 DEF RingInv, RingIsQueue
      <3>2. buffer_start + InHand + c + (i + 1) - 1 = buffer_start + InHand + (c + 1) + i - 1
        BY <1>2, <1>4, <2>1
      <3> QED
        BY <3>1, <3>2
    <2>5. InHand + (c + 1) + (u - 1) = buffers_used
      BY <1>1, <1>2, <2>1 DEF RingInv, RingIsQueue
    <2> QED
      BY <1>1, <1>2, <2>1, <2>3, <2>4, <2>5, RingTypes DEF RingIsQueue
  <1> QED
    BY <1>1, <1>5, <1>6, <1>7 DEF RingInv, HandleIsValid, ValidHandle, NothingLeft,
       EndMeansCleared, Ending, EndIsLast

LEMMA RingDriver == ASSUME ~ConfMayFail, TypeInv, RingInv, Driver PROVE RingInv'
  <1>1. CASE ClearLink
    <2>1. /\ link = "up" /\ link' = "cleared" /\ unconfirmed' = <<>>
          /\ indications' = Append(indications, "DISCONNECT_B3_IND")
          /\ UNCHANGED <<ncci_state, ringVars, threadVars, confirmations>>
      BY <1>1 DEF ClearLink
    <2>2. EndIsLast'
      BY <2>1, RingTypes, AppendLast DEF RingInv, EndMeansCleared, EndIsLast
    <2>3. ~Ending
      BY <2>1 DEF RingInv, EndMeansCleared
    <2>4. RingIsQueue'
      BY <2>1, RingTypes DEF RingInv, RingIsQueue, InHand
    <2> QED
      BY <2>1, <2>2, <2>3, <2>4 DEF RingInv, HandleIsValid, ValidHandle, NothingLeft,
         EndMeansCleared, Ending, NoneRefused
  <1>2. CASE ConnectLink
    <2>1. /\ link = "none" /\ link' = "up" /\ ncci_state = "N0" /\ indications = <<>>
          /\ indications' = Append(indications, "CONNECT_B3_ACTIVE_IND")
          /\ UNCHANGED <<ncci_state, ringVars, threadVars, unconfirmed, confirmations>>
      BY <1>2 DEF ConnectLink, RingInv, NothingLeft, EndMeansCleared
    <2>2. Lacks(indications', "DISCONNECT_B3_IND")
      BY <2>1, RingTypes, AppendLacks DEF Lacks
    <2>3. EndIsLast'
      BY <2>2 DEF EndIsLast, Lacks
    <2> QED
      BY <2>1, <2>2, <2>3 DEF RingInv, HandleIsValid, ValidHandle, RingIsQueue, NothingLeft,
         EndMeansCleared, Ending, NoneRefused
  <1> QED
    BY <1>1, <1>2, RingConfirm DEF Driver

LEMMA RingInit == Init => RingInv
  BY DEF Init, RingInv, HandleIsValid, RingIsQueue, NothingLeft, EndMeansCleared, Ending,
     EndIsLast, NoneRefused, Lacks

LEMMA RingIsInvariant == ~ConfMayFail => (Spec => [](TypeInv /\ RingInv))
  <1> SUFFICES ASSUME ~ConfMayFail PROVE Spec => [](TypeInv /\ RingInv)
    OBVIOUS
  <1>1. TypeInv /\ RingInv /\ [Next]_vars => (TypeInv /\ RingInv)'
    <2> SUFFICES ASSUME TypeInv, RingInv, [Next]_vars PROVE TypeInv' /\ RingInv'
      OBVIOUS
    <2>1. CASE Next
      BY <2>1, TypeCapi, TypeScript, TypeDriver, RingCapi, RingScript, RingDriver DEF Next
    <2>2. CASE UNCHANGED vars
      <3>1. TypeInv'
        BY <2>2 DEF vars, TypeInv, RingType, FileType, PCType, QueueType, LinkType
      <3>2. RingInv'
        BY <2>2, RingSame DEF vars
      <3> QED
        BY <3>1, <3>2
    <2> QED
      BY <2>1, <2>2
  <1> QED
    BY TypeInit, RingInit, <1>1, PTL DEF Spec

(* data_b3_conf never throws for an invalid data handle, as long as no     *)
(* confirmation reports an error: neither DISCONNECT_B3_IND, which empties *)
(* the ring without resetting buffer_start, nor our disconnectCall, after  *)
(* which confirmations are dropped, nor a start_file_transmission in the   *)
(* midst of either puts handles and ring out of step.                      *)
THEOREM HandlesAreValid == ~ConfMayFail => (Spec => []HandleIsValid)
  <1>1. TypeInv /\ RingInv => HandleIsValid
    BY DEF RingInv
  <1> QED
    BY RingIsInvariant, <1>1, PTL

-----------------------------------------------------------------------------
(* What is sent adds up: the bytes handed over and the bytes left are the  *)
(* file, from the moment it is opened until it is complete.                *)
BytesInv ==
    /\ file_to_send => ~complete /\ handed + left = size
    /\ complete => handed = size
    /\ app_pc = "start.open" => ~file_to_send /\ ~complete /\ handed = 0

LEMMA BytesSend ==
    ASSUME ~PutMayFail, TypeInv, BytesInv, MoreToSend, send_block, UNCHANGED threadVars
    PROVE  BytesInv'
  <1>1. /\ file_to_send /\ ~complete /\ handed + left = size
        /\ left \in Nat /\ handed \in Nat /\ size \in Nat
    BY DEF MoreToSend, BytesInv, TypeInv, FileType
  <1>2. /\ left' = left - n /\ handed' = handed + n /\ size' = size
        /\ file_to_send' = ~file_completed /\ complete' = (complete \/ file_completed)
    BY <1>1 DEF send_block, data_b3_req, data_b3_req_failed
  <1>3. n \in Nat /\ (file_completed => n = left)
    BY <1>1, TransmissionAssumption DEF n, file_completed
  <1>4. handed' + left' = size' /\ (file_completed => handed' = size')
    BY <1>1, <1>2, <1>3
  <1>5. app_pc' # "start.open"
    BY <1>1 DEF BytesInv
  <1>6. CASE file_completed
    BY <1>2, <1>4, <1>5, <1>6 DEF BytesInv
  <1>7. CASE ~file_completed
    BY <1>1, <1>2, <1>4, <1>5, <1>7 DEF BytesInv
  <1> QED
    BY <1>6, <1>7

LEMMA BytesNext == ASSUME ~PutMayFail PROVE TypeInv /\ BytesInv /\ [Next]_vars => BytesInv'
  <1> SUFFICES ASSUME TypeInv, BytesInv, [Next]_vars PROVE BytesInv'
    OBVIOUS
  <1>1. CASE data_b3_conf_send \/ start_send
    <2>1. CASE MoreToSend /\ send_block /\ UNCHANGED threadVars
      BY <2>1, BytesSend
    <2>2. CASE UNCHANGED fileVars /\ app_pc' \in {app_pc, "script"}
      BY <2>2 DEF BytesInv
    <2> QED
      BY <1>1, <2>1, <2>2 DEF data_b3_conf_send, start_send, SendLoop
  <1>2. CASE read_data_b3_conf \/ data_b3_conf \/ connect_b3_active_ind \/ read_disconnect_b3_ind
             \/ disconnect_b3_ind \/ disconnect_b3_ind_wait \/ disconnectCall \/ Driver
             \/ UNCHANGED vars
    <2>1. UNCHANGED <<fileVars, app_pc>>
      BY <1>2 DEF read_data_b3_conf, data_b3_conf, connect_b3_active_ind, read_disconnect_b3_ind,
         disconnect_b3_ind, disconnect_b3_ind_wait, disconnectCall, Driver, Confirm, ClearLink,
         ConnectLink, vars
    <2> QED
      BY <2>1 DEF BytesInv
  <1>3. CASE disconnect_b3_ind_stop \/ stop_file_transmission \/ start_unreadable
    <2>1. /\ file_to_send' = FALSE /\ UNCHANGED <<left, size, handed, complete>>
          /\ app_pc' \in {app_pc, "stop.wait", "script"}
      BY <1>3 DEF disconnect_b3_ind_stop, stop_file_transmission, start_unreadable
    <2> QED
      BY <2>1 DEF BytesInv
  <1>4. CASE \E length \in Lengths : start_file_transmission(length)
    <2>1. ~file_to_send /\ file_to_send' = file_to_send /\ handed' = 0 /\ complete' = FALSE
      BY <1>4 DEF start_file_transmission
    <2> QED
      BY <2>1 DEF BytesInv
  <1>5. CASE start_open
    <2>1. ~complete /\ handed = 0 /\ size \in Nat
      BY <1>5 DEF start_open, BytesInv, TypeInv, FileType
    <2>2. /\ complete' = complete /\ handed' = handed
          /\ left' = size' /\ (size' = size \/ size' = 0) /\ app_pc' # "start.open"
      BY <1>5 DEF start_open
    <2>3. ~complete' /\ handed' + left' = size'
      BY <2>1, <2>2
    <2> QED
      BY <2>2, <2>3 DEF BytesInv
  <1>6. CASE start_check \/ start_lock \/ stop_wait
    <2>1. UNCHANGED fileVars /\ app_pc' \in {"start.lock", "start.send", "script"}
      BY <1>6 DEF start_check, start_lock, stop_wait
    <2> QED
      BY <2>1 DEF BytesInv
  <1> QED
    BY <1>1, <1>2, <1>3, <1>4, <1>5, <1>6 DEF Next, CapiSteps, ScriptCalls, MethodSteps

LEMMA TypeNext == TypeInv /\ [Next]_vars => TypeInv'
  <1> SUFFICES ASSUME TypeInv, [Next]_vars PROVE TypeInv'
    OBVIOUS
  <1>1. CASE Next
    BY <1>1, TypeCapi, TypeScript, TypeDriver DEF Next
  <1>2. CASE UNCHANGED vars
    BY <1>2 DEF vars, TypeInv, RingType, FileType, PCType, QueueType, LinkType
  <1> QED
    BY <1>1, <1>2

(* As long as no request fails, transmissionComplete is called for a file  *)
(* only when every byte of it was handed to the driver, for every length,  *)
(* block size and window: with a file stopped, with the link cleared in the*)
(* midst of it and with handlers inside start_file_transmission.           *)
THEOREM CompleteFilesAreHanded == ASSUME ~PutMayFail PROVE Spec => []CompleteMeansHanded
  <1>1. Init => BytesInv
    BY DEF Init, BytesInv
  <1>2. TypeInv /\ BytesInv /\ [Next]_vars => TypeInv' /\ BytesInv'
    BY TypeNext, BytesNext
  <1>3. BytesInv => CompleteMeansHanded
    BY DEF BytesInv, CompleteMeansHanded
  <1> QED
    BY TypeInit, <1>1, <1>2, <1>3, PTL DEF Spec

-----------------------------------------------------------------------------
(* Each buffer the driver reads, or whose confirmation is still to be      *)
(* handled, counts as used: no error of a confirmation and no lost block   *)
(* changes that, while the handles may get out of step.                    *)
StillUsed == InHand + Len(confirmations) + Len(unconfirmed) <= buffers_used

LinkInv == NothingLeft /\ EndMeansCleared /\ EndIsLast /\ StillUsed

LEMMA LinkSame ==
    ASSUME LinkInv, UNCHANGED <<ncci_state, buffers_used, capi_pc, link, unconfirmed, inboxVars>>
    PROVE  LinkInv'
  BY DEF LinkInv, NothingLeft, EndMeansCleared, Ending, EndIsLast, StillUsed, InHand

LEMMA CountTypes ==
    ASSUME TypeInv
    PROVE  /\ InHand \in {0, 1} /\ buffers_used \in Nat
           /\ Len(confirmations) \in Nat /\ Len(unconfirmed) \in Nat
  BY RingTypes DEF InHand

LEMMA LinkSend ==
    ASSUME TypeInv, LinkInv, MoreToSend, ncci_state = "NACT", send_block, UNCHANGED threadVars
    PROVE  LinkInv'
  <1>1. UNCHANGED <<ncci_state, link, capi_pc, confirmations, indications>>
    BY DEF send_block
  <1>2. CASE UNCHANGED <<buffers_used, unconfirmed>>
    BY <1>1, <1>2, LinkSame
  <1>3. CASE buffers_used' = buffers_used + 1
    <2>1. \/ link = "up" /\ unconfirmed' = Append(unconfirmed, buff_num)
          \/ link # "up" /\ unconfirmed' = unconfirmed
      BY <1>3, SendBlock, RingTypes
    <2>2. Len(unconfirmed') \in Nat /\ Len(unconfirmed') <= Len(unconfirmed) + 1
      BY <2>1, RingTypes, AppendElements
    <2>3. StillUsed'
      <3>1. InHand' = InHand
        BY <1>1 DEF InHand
      <3> QED
        BY <1>1, <1>3, <2>2, <3>1, CountTypes DEF LinkInv, StillUsed
    <2> QED
      BY <1>1, <2>1, <2>3 DEF LinkInv, NothingLeft, EndMeansCleared, Ending, EndIsLast
  <1> QED
    BY <1>2, <1>3, SendBlock

LEMMA LinkReadConf == ASSUME TypeInv, LinkInv, read_data_b3_conf PROVE LinkInv'
  <1>1. /\ capi_pc = "run" /\ confirmations # <<>> /\ confirmations' = Tail(confirmations)
        /\ UNCHANGED <<ncci_state, buffers_used, link, unconfirmed, indications>>
        /\ capi_pc' \in {"run", "data_b3_conf"}
    BY DEF read_data_b3_conf
  <1>2. Len(confirmations') = Len(confirmations) - 1
    BY <1>1, RingTypes, TailLength
  <1>3. InHand = 0 /\ InHand' \in {0, 1}
    BY <1>1 DEF InHand
  <1>4. StillUsed'
    BY <1>1, <1>2, <1>3, CountTypes DEF LinkInv, StillUsed
  <1> QED
    BY <1>1, <1>4 DEF LinkInv, NothingLeft, EndMeansCleared, Ending, EndIsLast

LEMMA LinkConf == ASSUME TypeInv, LinkInv, data_b3_conf PROVE LinkInv'
  <1>1. /\ capi_pc = "data_b3_conf" /\ capi_pc' \in {"run", "data_b3_conf.send"}
        /\ buffers_used' \in {buffers_used, buffers_used - 1}
        /\ UNCHANGED <<ncci_state, link, unconfirmed, confirmations, indications>>
    BY DEF data_b3_conf
  <1>2. InHand = 1 /\ InHand' = 0
    BY <1>1 DEF InHand
  <1>3. StillUsed'
    BY <1>1, <1>2, CountTypes DEF LinkInv, StillUsed
  <1> QED
    BY <1>1, <1>3 DEF LinkInv, NothingLeft, EndMeansCleared, Ending, EndIsLast

LEMMA LinkCapi == ASSUME TypeInv, LinkInv, CapiSteps PROVE LinkInv'
  <1>1. CASE data_b3_conf_send
    <2>1. CASE MoreToSend /\ ncci_state = "NACT" /\ send_block /\ UNCHANGED threadVars
      BY <2>1, LinkSend
    <2>2. CASE /\ capi_pc = "data_b3_conf.send" /\ capi_pc' = "run"
               /\ UNCHANGED <<ncci_state, ringVars, handle, driverVars, inboxVars>>
      BY <2>2 DEF LinkInv, StillUsed, InHand, NothingLeft, EndMeansCleared, Ending, EndIsLast
    <2> QED
      BY <1>1, <2>1, <2>2 DEF data_b3_conf_send, SendLoop
  <1>2. CASE connect_b3_active_ind
    <2>1. /\ indications \in Seq(Inds) /\ indications # <<>> /\ indications' = Tail(indications)
          /\ capi_pc = "run" /\ Head(indications) = "CONNECT_B3_ACTIVE_IND"
          /\ ncci_state' = IF ncci_state = "N0" THEN "NACT" ELSE ncci_state
          /\ UNCHANGED <<ringVars, threadVars, driverVars, confirmations>>
      BY <1>2, RingTypes DEF connect_b3_active_ind, ReadIndication
    <2>2. link # "none"
      BY <2>1 DEF LinkInv, EndMeansCleared
    <2>3. EndIsLast' /\ (link = "up" => Lacks(indications', "DISCONNECT_B3_IND"))
      BY <2>1, TailKeepsLast, TailLacks DEF LinkInv, EndIsLast, EndMeansCleared
    <2> QED
      BY <2>1, <2>2, <2>3 DEF LinkInv, NothingLeft, EndMeansCleared, Ending, StillUsed, InHand
  <1>3. CASE read_disconnect_b3_ind
    <2>1. /\ indications \in Seq(Inds) /\ indications # <<>> /\ indications' = Tail(indications)
          /\ capi_pc = "run" /\ confirmations = <<>>
          /\ Head(indications) = "DISCONNECT_B3_IND"
          /\ capi_pc' = IF ncci_state \in {"NACT", "N4"} THEN "disconnect_b3_ind" ELSE "run"
          /\ UNCHANGED <<ncci_state, ringVars, handle, driverVars, confirmations>>
      BY <1>3, RingTypes DEF read_disconnect_b3_ind, ReadIndication
    <2>2. indications' = <<>>
      BY <2>1, LastOnly DEF LinkInv, EndIsLast
    <2>3. link = "cleared"
      BY <2>1, TailLacks, RingTypes DEF LinkInv, EndMeansCleared
    <2> QED
      BY <2>1, <2>2, <2>3 DEF LinkInv, StillUsed, InHand, NothingLeft, EndMeansCleared, Ending,
         EndIsLast
  <1>4. CASE disconnect_b3_ind
    <2>1. /\ unconfirmed = <<>> /\ confirmations = <<>> /\ link = "cleared" /\ ncci_state # "N0"
          /\ indications = <<>>
      BY <1>4 DEF disconnect_b3_ind, LinkInv, NothingLeft, EndMeansCleared, Ending
    <2>2. StillUsed'
      BY <1>4, <2>1 DEF disconnect_b3_ind, StillUsed, InHand
    <2> QED
      BY <1>4, <2>1, <2>2 DEF disconnect_b3_ind, LinkInv, NothingLeft, EndMeansCleared, Ending,
         EndIsLast
  <1>5. CASE disconnect_b3_ind_stop
    BY <1>5 DEF disconnect_b3_ind_stop, LinkInv, StillUsed, InHand, NothingLeft, EndMeansCleared,
       Ending, EndIsLast
  <1>6. CASE disconnect_b3_ind_wait
    <2>1. /\ unconfirmed = <<>> /\ confirmations = <<>> /\ link = "cleared" /\ indications = <<>>
          /\ buffers_used = 0 /\ ncci_state' = "N0" /\ capi_pc' = "run"
          /\ link' \in {"none", "cleared"}
          /\ UNCHANGED <<ringVars, unconfirmed, inboxVars>>
      BY <1>6 DEF disconnect_b3_ind_wait, LinkInv, NothingLeft, EndMeansCleared, Ending
    <2> QED
      BY <2>1 DEF LinkInv, StillUsed, InHand, NothingLeft, EndMeansCleared, Ending, EndIsLast
  <1> QED
    BY <1>1, <1>2, <1>3, <1>4, <1>5, <1>6, LinkReadConf, LinkConf DEF CapiSteps

LEMMA LinkScript == ASSUME TypeInv, LinkInv, ScriptCalls \/ MethodSteps PROVE LinkInv'
  <1>1. CASE start_send
    <2>1. CASE MoreToSend /\ ncci_state = "NACT" /\ send_block /\ UNCHANGED threadVars
      BY <2>1, LinkSend
    <2>2. CASE UNCHANGED <<ncci_state, ringVars, capi_pc, handle, driverVars, inboxVars>>
      BY <2>2, LinkSame
    <2> QED
      BY <1>1, <2>1, <2>2 DEF start_send, SendLoop
  <1>2. CASE disconnectCall
    <2>1. /\ ncci_state = "NACT" /\ ncci_state' = "N4"
          /\ UNCHANGED <<ringVars, threadVars, link, unconfirmed, inboxVars>>
      BY <1>2 DEF disconnectCall
    <2> QED
      BY <2>1 DEF LinkInv, StillUsed, InHand, NothingLeft, EndMeansCleared, Ending, EndIsLast
  <1>3. CASE \/ \E length \in Lengths : start_file_transmission(length)
             \/ stop_file_transmission \/ start_open \/ start_check \/ start_unreadable
             \/ start_lock \/ stop_wait
    BY <1>3, LinkSame DEF start_file_transmission, stop_file_transmission, start_open,
       start_check, start_unreadable, start_lock, stop_wait
  <1> QED
    BY <1>1, <1>2, <1>3 DEF ScriptCalls, MethodSteps

LEMMA LinkDriver == ASSUME TypeInv, LinkInv, Driver PROVE LinkInv'
  <1>1. CASE Confirm
    <2>1. PICK d : /\ link = "up" /\ unconfirmed # <<>> /\ unconfirmed' = Tail(unconfirmed)
                   /\ confirmations' = Append(confirmations, d)
                   /\ UNCHANGED <<ncci_state, ringVars, threadVars, link, indications>>
      BY <1>1 DEF Confirm
    <2>2. /\ Len(confirmations') = Len(confirmations) + 1
          /\ Len(unconfirmed') = Len(unconfirmed) - 1
      BY <2>1, RingTypes, AppendElements, TailLength
    <2>3. InHand' = InHand
      BY <2>1 DEF InHand
    <2>4. StillUsed'
      BY <2>1, <2>2, <2>3, CountTypes DEF LinkInv, StillUsed
    <2>5. ncci_state # "N0" /\ ~Ending
      BY <2>1 DEF LinkInv, NothingLeft, EndMeansCleared
    <2> QED
      BY <2>1, <2>4, <2>5 DEF LinkInv, NothingLeft, EndMeansCleared, Ending, EndIsLast
  <1>2. CASE ClearLink
    <2>1. /\ link = "up" /\ link' = "cleared" /\ unconfirmed' = <<>>
          /\ indications' = Append(indications, "DISCONNECT_B3_IND")
          /\ UNCHANGED <<ncci_state, ringVars, threadVars, confirmations>>
      BY <1>2 DEF ClearLink
    <2>2. EndIsLast'
      BY <2>1, RingTypes, AppendLast DEF LinkInv, EndMeansCleared, EndIsLast
    <2>3. ~Ending
      BY <2>1 DEF LinkInv, EndMeansCleared
    <2>4. StillUsed'
      <3>1. InHand' = InHand /\ Len(unconfirmed') = 0
        BY <2>1 DEF InHand
      <3> QED
        BY <2>1, <3>1, CountTypes DEF LinkInv, StillUsed
    <2> QED
      BY <2>1, <2>2, <2>3, <2>4 DEF LinkInv, NothingLeft, EndMeansCleared, Ending
  <1>3. CASE ConnectLink
    <2>1. /\ link = "none" /\ link' = "up" /\ ncci_state = "N0" /\ indications = <<>>
          /\ indications' = Append(indications, "CONNECT_B3_ACTIVE_IND")
          /\ UNCHANGED <<ncci_state, ringVars, threadVars, unconfirmed, confirmations>>
      BY <1>3 DEF ConnectLink, LinkInv, NothingLeft, EndMeansCleared
    <2>2. Lacks(indications', "DISCONNECT_B3_IND")
      BY <2>1, RingTypes, AppendLacks DEF Lacks
    <2>3. EndIsLast'
      BY <2>2 DEF EndIsLast, Lacks
    <2> QED
      BY <2>1, <2>2, <2>3 DEF LinkInv, StillUsed, InHand, NothingLeft, EndMeansCleared, Ending
  <1> QED
    BY <1>1, <1>2, <1>3 DEF Driver

LEMMA LinkInit == Init => LinkInv
  BY DEF Init, LinkInv, StillUsed, InHand, NothingLeft, EndMeansCleared, Ending, EndIsLast, Lacks

LEMMA LinkNext == TypeInv /\ LinkInv /\ [Next]_vars => LinkInv'
  <1> SUFFICES ASSUME TypeInv, LinkInv, [Next]_vars PROVE LinkInv'
    OBVIOUS
  <1>1. CASE Next
    BY <1>1, LinkCapi, LinkScript, LinkDriver DEF Next
  <1>2. CASE UNCHANGED vars
    BY <1>2, LinkSame DEF vars
  <1> QED
    BY <1>1, <1>2

(* When stop_file_transmission returns, the driver reads no buffer of the  *)
(* file: with failing requests, refused blocks and handlers anywhere in    *)
(* between, for buffers_used never counts too few.                         *)
THEOREM StoppedFilesAreUnused == Spec => StoppedMeansUnused
  <1>1. TypeInv /\ LinkInv /\ [Next]_vars
          => [app_pc = "stop.wait" /\ app_pc' = "script" => unconfirmed = <<>>]_vars
    <2> SUFFICES ASSUME TypeInv, LinkInv, [Next]_vars, app_pc = "stop.wait", app_pc' = "script"
                 PROVE  unconfirmed = <<>>
      OBVIOUS
    <2>1. stop_wait
      BY DEF Next, CapiSteps, ScriptCalls, MethodSteps, Driver, read_data_b3_conf, data_b3_conf,
         data_b3_conf_send, SendLoop, connect_b3_active_ind, read_disconnect_b3_ind,
         disconnect_b3_ind, disconnect_b3_ind_stop, disconnect_b3_ind_wait,
         start_file_transmission, stop_file_transmission, disconnectCall, start_open,
         start_check, start_unreadable, start_lock, start_send, Confirm, ClearLink, ConnectLink, vars
    <2>2. buffers_used = 0
      BY <2>1 DEF stop_wait
    <2>3. Len(unconfirmed) = 0
      BY <2>2, CountTypes DEF LinkInv, StillUsed
    <2> QED
      BY <2>3, RingTypes
  <1>2. Spec => [][app_pc = "stop.wait" /\ app_pc' = "script" => unconfirmed = <<>>]_vars
    BY TypeInit, TypeNext, LinkInit, LinkNext, <1>1, PTL DEF Spec
  <1> QED
    BY <1>2 DEF StoppedMeansUnused

-----------------------------------------------------------------------------
(* NextBufferIsFree needs no such order: when confirmations with errors    *)
(* drop buffers out of step, the handles on their way are still different  *)
(* from each other, and each is a buffer of the window that is in use.     *)
Place(s, h) == IF s <= h THEN h - s ELSE h + SendBuffers - s

BlocksFit(s, k, U) ==
    /\ \A i \in DOMAIN U : Place(s, U[i]) < k
    /\ \A i, j \in DOMAIN U : U[i] = U[j] => i = j

ConfsFit(s, k, C, U) ==
    /\ \A i \in DOMAIN C : Place(s, C[i].handle) < k
    /\ \A i, j \in DOMAIN C : C[i].handle = C[j].handle => i = j
    /\ \A i \in DOMAIN C, j \in DOMAIN U : C[i].handle # U[j]

HandFits(s, k, h, C, U) ==
    /\ Place(s, h) < k
    /\ \A i \in DOMAIN C : C[i].handle # h
    /\ \A i \in DOMAIN U : U[i] # h

WindowInv ==
    ncci_state = "NACT" =>
        /\ BlocksFit(buffer_start, buffers_used, unconfirmed)
        /\ ConfsFit(buffer_start, buffers_used, confirmations, unconfirmed)
        /\ capi_pc = "data_b3_conf" =>
             HandFits(buffer_start, buffers_used, handle, confirmations, unconfirmed)

LEMMA PlaceOfNext ==
    ASSUME NEW s \in Handles, NEW k \in 0 .. 6
    PROVE  Place(s, (s + k) % SendBuffers) = k /\ (s + k) % SendBuffers \in Handles
  BY DEF Place, SendBuffers, Handles

LEMMA PlaceAfterFree ==
    ASSUME NEW s \in Handles, NEW h \in Handles, h # s, NEW k \in Nat, Place(s, h) < k
    PROVE  Place((s + 1) % SendBuffers, h) < k - 1
  BY DEF Place, SendBuffers, Handles

LEMMA HandleTypes ==
    ASSUME NEW C \in Seq(Confs), NEW U \in Seq(Handles)
    PROVE  /\ \A i \in DOMAIN U : U[i] \in Handles
           /\ \A i \in DOMAIN C : C[i].handle \in Handles
  <1>1. \A i \in DOMAIN U : U[i] \in Handles
    OBVIOUS
  <1>2. \A i \in DOMAIN C : C[i] \in Confs
    OBVIOUS
  <1>3. \A c \in Confs : c.handle \in Handles
    BY DEF Confs
  <1> QED
    BY <1>1, <1>2, <1>3

LEMMA FitSend ==
    ASSUME NEW s \in Handles, NEW k \in 0 .. 6, NEW C \in Seq(Confs), NEW U \in Seq(Handles),
           NEW h \in Handles, BlocksFit(s, k, U), ConfsFit(s, k, C, U)
    PROVE  LET b == (s + k) % SendBuffers IN
           /\ \A i \in DOMAIN U : U[i] # b
           /\ BlocksFit(s, k + 1, Append(U, b)) /\ BlocksFit(s, k + 1, U)
           /\ ConfsFit(s, k + 1, C, Append(U, b)) /\ ConfsFit(s, k + 1, C, U)
           /\ HandFits(s, k, h, C, U) => /\ HandFits(s, k + 1, h, C, Append(U, b))
                                         /\ HandFits(s, k + 1, h, C, U)
  <1> DEFINE b == (s + k) % SendBuffers
  <1>1. Place(s, b) = k /\ b \in Handles
    BY PlaceOfNext
  <1>2. /\ DOMAIN U \subseteq DOMAIN Append(U, b)
        /\ \A i \in DOMAIN Append(U, b) : \/ i \in DOMAIN U /\ Append(U, b)[i] = U[i]
                                          \/ i = Len(U) + 1 /\ Append(U, b)[i] = b
    BY <1>1, AppendElements
  <1> HIDE DEF b
  <1>3. /\ \A i \in DOMAIN U : U[i] \in Handles
        /\ \A i \in DOMAIN C : C[i].handle \in Handles
    BY HandleTypes
  <1>4. \A x \in Handles : Place(s, x) \in Nat
    BY DEF Place, SendBuffers, Handles
  <1>5. \A x \in Handles : Place(s, x) < k => x # b /\ Place(s, x) < k + 1
    BY <1>1, <1>4
  <1>6. Place(s, b) < k + 1
    BY <1>1
  <1>7. \A i \in DOMAIN U : U[i] # b /\ Place(s, U[i]) < k + 1
    BY <1>3, <1>5 DEF BlocksFit
  <1>8. \A i \in DOMAIN C : C[i].handle # b /\ Place(s, C[i].handle) < k + 1
    BY <1>3, <1>5 DEF ConfsFit
  <1>9. BlocksFit(s, k + 1, Append(U, b)) /\ BlocksFit(s, k + 1, U)
    BY <1>2, <1>6, <1>7 DEF BlocksFit
  <1>10. ConfsFit(s, k + 1, C, Append(U, b)) /\ ConfsFit(s, k + 1, C, U)
    BY <1>2, <1>8 DEF ConfsFit
  <1>11. ASSUME HandFits(s, k, h, C, U)
         PROVE  HandFits(s, k + 1, h, C, Append(U, b)) /\ HandFits(s, k + 1, h, C, U)
    BY <1>2, <1>5, <1>11 DEF HandFits
  <1> QED
    BY <1>7, <1>9, <1>10, <1>11 DEF b

(* The oldest buffer is free, and none of the others is the oldest.        *)
LEMMA FitFree ==
    ASSUME NEW s \in Handles, NEW k \in Nat, NEW C \in Seq(Confs), NEW U \in Seq(Handles),
           BlocksFit(s, k, U), ConfsFit(s, k, C, U), HandFits(s, k, s, C, U)
    PROVE  LET t == (s + 1) % SendBuffers IN BlocksFit(t, k - 1, U) /\ ConfsFit(t, k - 1, C, U)
  <1>1. \A i \in DOMAIN U : U[i] \in Handles /\ U[i] # s /\ Place(s, U[i]) < k
    BY HandleTypes DEF HandFits, BlocksFit
  <1>2. \A i \in DOMAIN C : /\ C[i].handle \in Handles /\ C[i].handle # s
                            /\ Place(s, C[i].handle) < k
    BY HandleTypes DEF HandFits, ConfsFit
  <1>3. BlocksFit((s + 1) % SendBuffers, k - 1, U)
    BY <1>1, PlaceAfterFree DEF BlocksFit
  <1>4. ConfsFit((s + 1) % SendBuffers, k - 1, C, U)
    BY <1>2, PlaceAfterFree DEF ConfsFit
  <1> QED
    BY <1>3, <1>4

(* The oldest confirmation is taken in hand, or dropped.                   *)
LEMMA FitRead ==
    ASSUME NEW s \in Handles, NEW k \in Nat, NEW C \in Seq(Confs), NEW U \in Seq(Handles),
           C # <<>>, ConfsFit(s, k, C, U)
    PROVE  ConfsFit(s, k, Tail(C), U) /\ HandFits(s, k, Head(C).handle, Tail(C), U)
  <1>1. /\ Head(C) = C[1] /\ 1 \in DOMAIN C
        /\ \A i \in DOMAIN Tail(C) : i + 1 \in DOMAIN C /\ Tail(C)[i] = C[i + 1]
    BY TailType
  <1>2. \A i \in DOMAIN Tail(C) : i \in Nat /\ i >= 1
    OBVIOUS
  <1>3. \A i, j \in DOMAIN Tail(C) : Tail(C)[i].handle = Tail(C)[j].handle => i = j
    <2> SUFFICES ASSUME NEW i \in DOMAIN Tail(C), NEW j \in DOMAIN Tail(C),
                        Tail(C)[i].handle = Tail(C)[j].handle
                 PROVE  i = j
      OBVIOUS
    <2>1. i + 1 = j + 1
      BY <1>1 DEF ConfsFit
    <2> QED
      BY <1>2, <2>1
  <1>4. \A i \in DOMAIN Tail(C) : Tail(C)[i].handle # Head(C).handle
    <2> SUFFICES ASSUME NEW i \in DOMAIN Tail(C), Tail(C)[i].handle = Head(C).handle
                 PROVE  FALSE
      OBVIOUS
    <2>1. i + 1 = 1
      BY <1>1 DEF ConfsFit
    <2> QED
      BY <1>2, <2>1
  <1>5. /\ \A i \in DOMAIN Tail(C) : Place(s, Tail(C)[i].handle) < k
        /\ \A i \in DOMAIN Tail(C), j \in DOMAIN U : Tail(C)[i].handle # U[j]
        /\ Place(s, Head(C).handle) < k
        /\ \A j \in DOMAIN U : U[j] # Head(C).handle
    BY <1>1 DEF ConfsFit
  <1> QED
    BY <1>3, <1>4, <1>5 DEF ConfsFit, HandFits

(* The driver confirms the oldest block it has.                            *)
LEMMA FitConfirm ==
    ASSUME NEW s \in Handles, NEW k \in Nat, NEW C \in Seq(Confs), NEW U \in Seq(Handles),
           U # <<>>, NEW h, NEW e \in Confs, e.handle = Head(U),
           BlocksFit(s, k, U), ConfsFit(s, k, C, U)
    PROVE  /\ BlocksFit(s, k, Tail(U)) /\ ConfsFit(s, k, Append(C, e), Tail(U))
           /\ HandFits(s, k, h, C, U) => HandFits(s, k, h, Append(C, e), Tail(U))
  <1>1. /\ Head(U) = U[1] /\ 1 \in DOMAIN U
        /\ \A i \in DOMAIN Tail(U) : i + 1 \in DOMAIN U /\ Tail(U)[i] = U[i + 1]
    BY TailType
  <1>2. \A i \in DOMAIN Tail(U) : i \in Nat /\ i >= 1
    OBVIOUS
  <1>3. /\ \A i \in DOMAIN Append(C, e) : \/ i \in DOMAIN C /\ Append(C, e)[i] = C[i]
                                          \/ i = Len(C) + 1 /\ Append(C, e)[i] = e
    BY AppendElements
  <1>4. \A i, j \in DOMAIN Tail(U) : Tail(U)[i] = Tail(U)[j] => i = j
    <2> SUFFICES ASSUME NEW i \in DOMAIN Tail(U), NEW j \in DOMAIN Tail(U),
                        Tail(U)[i] = Tail(U)[j]
                 PROVE  i = j
      OBVIOUS
    <2>1. i + 1 = j + 1
      BY <1>1 DEF BlocksFit
    <2> QED
      BY <1>2, <2>1
  <1>5. \A i \in DOMAIN Tail(U) : Tail(U)[i] # e.handle
    <2> SUFFICES ASSUME NEW i \in DOMAIN Tail(U), Tail(U)[i] = e.handle
                 PROVE  FALSE
      OBVIOUS
    <2>1. i + 1 = 1
      BY <1>1 DEF BlocksFit
    <2> QED
      BY <1>2, <2>1
  <1>6. BlocksFit(s, k, Tail(U))
    BY <1>1, <1>4 DEF BlocksFit
  <1>7. Place(s, e.handle) < k /\ \A i \in DOMAIN C : C[i].handle # e.handle
    BY <1>1 DEF BlocksFit, ConfsFit
  <1>8. ConfsFit(s, k, Append(C, e), Tail(U))
    <2>1. \A i \in DOMAIN Append(C, e) : Place(s, Append(C, e)[i].handle) < k
      BY <1>3, <1>7 DEF ConfsFit
    <2>2. \A i, j \in DOMAIN Append(C, e) : Append(C, e)[i].handle = Append(C, e)[j].handle => i = j
      BY <1>3, <1>7 DEF ConfsFit
    <2>3. \A i \in DOMAIN Append(C, e), j \in DOMAIN Tail(U) : Append(C, e)[i].handle # Tail(U)[j]
      BY <1>1, <1>3, <1>5 DEF ConfsFit
    <2> QED
      BY <2>1, <2>2, <2>3 DEF ConfsFit
  <1>9. HandFits(s, k, h, C, U) => HandFits(s, k, h, Append(C, e), Tail(U))
    BY <1>1, <1>3 DEF HandFits
  <1> QED
    BY <1>6, <1>8, <1>9

(* The link is cleared: the driver reads no block any more.                *)
LEMMA FitClear ==
    ASSUME NEW s, NEW k, NEW C, NEW U, NEW h, ConfsFit(s, k, C, U)
    PROVE  /\ BlocksFit(s, k, <<>>) /\ ConfsFit(s, k, C, <<>>)
           /\ HandFits(s, k, h, C, U) => HandFits(s, k, h, C, <<>>)
  BY DEF BlocksFit, ConfsFit, HandFits

LEMMA FitEmpty ==
    ASSUME NEW s, NEW k PROVE BlocksFit(s, k, <<>>) /\ ConfsFit(s, k, <<>>, <<>>)
  BY DEF BlocksFit, ConfsFit

LEMMA WindowSame ==
    ASSUME WindowInv, capi_pc' # "data_b3_conf" \/ UNCHANGED capi_pc,
           ncci_state' = "NACT" => ncci_state = "NACT",
           UNCHANGED <<ringVars, handle, unconfirmed, confirmations>>
    PROVE  WindowInv'
  BY DEF WindowInv

LEMMA WindowSend ==
    ASSUME TypeInv, WindowInv, MoreToSend, ncci_state = "NACT", send_block, UNCHANGED threadVars
    PROVE  WindowInv'
  <1>1. /\ UNCHANGED <<ncci_state, buffer_start, confirmations, capi_pc, handle>>
        /\ \/ UNCHANGED <<buffers_used, unconfirmed>>
           \/ /\ buffers_used' = buffers_used + 1
              /\ unconfirmed' \in {unconfirmed, Append(unconfirmed, buff_num)}
    BY SendBlock, RingTypes DEF send_block
  <1>2. /\ buffer_start \in Handles /\ buffers_used \in 0 .. 6 /\ handle \in Handles
        /\ unconfirmed \in Seq(Handles) /\ confirmations \in Seq(Confs)
    BY RingTypes, TransmissionAssumption DEF MoreToSend, SendBuffers, TypeInv, RingType
  <1>3. /\ BlocksFit(buffer_start, buffers_used, unconfirmed)
        /\ ConfsFit(buffer_start, buffers_used, confirmations, unconfirmed)
        /\ capi_pc = "data_b3_conf" =>
             HandFits(buffer_start, buffers_used, handle, confirmations, unconfirmed)
    BY DEF WindowInv
  <1>4. LET s == buffer_start
            k == buffers_used
            C == confirmations
            U == unconfirmed
            W == Append(U, buff_num)
        IN  /\ BlocksFit(s, k + 1, W) /\ BlocksFit(s, k + 1, U)
            /\ ConfsFit(s, k + 1, C, W) /\ ConfsFit(s, k + 1, C, U)
            /\ HandFits(s, k, handle, C, U) => /\ HandFits(s, k + 1, handle, C, W)
                                               /\ HandFits(s, k + 1, handle, C, U)
    BY <1>2, <1>3, FitSend DEF buff_num
  <1>5. CASE UNCHANGED <<buffers_used, unconfirmed>>
    BY <1>1, <1>4, <1>5, WindowSame
  <1>6. CASE buffers_used' = buffers_used + 1 /\ unconfirmed' = unconfirmed
    BY <1>1, <1>3, <1>4, <1>6 DEF WindowInv
  <1>7. CASE buffers_used' = buffers_used + 1 /\ unconfirmed' = Append(unconfirmed, buff_num)
    BY <1>1, <1>3, <1>4, <1>7 DEF WindowInv
  <1> QED
    BY <1>1, <1>5, <1>6, <1>7

LEMMA WindowCapi == ASSUME TypeInv, LinkInv, WindowInv, CapiSteps PROVE WindowInv'
  <1> USE RingTypes
  <1>1. CASE read_data_b3_conf
    <2>1. /\ confirmations # <<>> /\ confirmations' = Tail(confirmations)
          /\ UNCHANGED <<ncci_state, ringVars, unconfirmed>>
          /\ capi_pc' = "data_b3_conf" => handle' = Head(confirmations).handle
      BY <1>1 DEF read_data_b3_conf
    <2>2. ncci_state = "NACT" =>
            /\ ConfsFit(buffer_start, buffers_used, Tail(confirmations), unconfirmed)
            /\ HandFits(buffer_start, buffers_used, Head(confirmations).handle,
                        Tail(confirmations), unconfirmed)
      BY <2>1, FitRead DEF WindowInv
    <2> QED
      BY <2>1, <2>2 DEF WindowInv
  <1>2. CASE data_b3_conf
    <2>1. /\ capi_pc = "data_b3_conf" /\ capi_pc' # "data_b3_conf"
          /\ UNCHANGED <<ncci_state, handle, unconfirmed, confirmations>>
          /\ \/ UNCHANGED ringVars
             \/ /\ handle = buffer_start /\ buffers_used' = buffers_used - 1
                /\ buffer_start' = (buffer_start + 1) % SendBuffers
      BY <1>2 DEF data_b3_conf, ValidHandle
    <2>2. CASE UNCHANGED ringVars
      BY <2>1, <2>2, WindowSame
    <2>3. CASE handle = buffer_start /\ buffers_used' = buffers_used - 1
               /\ buffer_start' = (buffer_start + 1) % SendBuffers
      <3>1. ncci_state = "NACT" =>
              LET t == (buffer_start + 1) % SendBuffers
                  k == buffers_used - 1
              IN  BlocksFit(t, k, unconfirmed) /\ ConfsFit(t, k, confirmations, unconfirmed)
        BY <2>1, <2>3, FitFree DEF WindowInv
      <3> QED
        BY <2>1, <2>3, <3>1 DEF WindowInv
    <2> QED
      BY <2>1, <2>2, <2>3
  <1>3. CASE data_b3_conf_send
    <2>1. CASE MoreToSend /\ ncci_state = "NACT" /\ send_block /\ UNCHANGED threadVars
      BY <2>1, WindowSend
    <2>2. CASE capi_pc' = "run" /\ UNCHANGED <<handle, ncci_state, ringVars, driverVars, inboxVars>>
      BY <2>2, WindowSame
    <2> QED
      BY <1>3, <2>1, <2>2 DEF data_b3_conf_send, SendLoop
  <1>4. CASE connect_b3_active_ind
    <2>1. /\ UNCHANGED <<ringVars, handle, unconfirmed, confirmations, capi_pc>>
          /\ capi_pc = "run"
      BY <1>4 DEF connect_b3_active_ind, ReadIndication
    <2>2. CASE ncci_state = "N0"
      <3>1. confirmations = <<>> /\ unconfirmed = <<>>
        BY <2>2 DEF LinkInv, NothingLeft
      <3> QED
        BY <2>1, <3>1, FitEmpty DEF WindowInv
    <2>3. CASE ncci_state # "N0"
      <3>1. UNCHANGED ncci_state
        BY <1>4, <2>3 DEF connect_b3_active_ind
      <3> QED
        BY <2>1, <3>1, WindowSame
    <2> QED
      BY <2>2, <2>3
  <1>5. CASE read_disconnect_b3_ind \/ disconnect_b3_ind_stop
    BY <1>5, WindowSame DEF read_disconnect_b3_ind, disconnect_b3_ind_stop
  <1>6. CASE disconnect_b3_ind
    <2>1. confirmations = <<>> /\ unconfirmed = <<>>
      BY <1>6 DEF disconnect_b3_ind, LinkInv, NothingLeft, EndMeansCleared, Ending
    <2>2. /\ UNCHANGED <<unconfirmed, confirmations>> /\ capi_pc' # "data_b3_conf"
      BY <1>6 DEF disconnect_b3_ind
    <2> QED
      BY <2>1, <2>2, FitEmpty DEF WindowInv
  <1>7. CASE disconnect_b3_ind_wait
    BY <1>7 DEF disconnect_b3_ind_wait, WindowInv
  <1> QED
    BY <1>1, <1>2, <1>3, <1>4, <1>5, <1>6, <1>7 DEF CapiSteps

LEMMA WindowScript == ASSUME TypeInv, WindowInv, ScriptCalls \/ MethodSteps PROVE WindowInv'
  <1>1. CASE start_send
    <2>1. CASE MoreToSend /\ ncci_state = "NACT" /\ send_block /\ UNCHANGED threadVars
      BY <2>1, WindowSend
    <2>2. CASE UNCHANGED <<ncci_state, ringVars, capi_pc, handle, driverVars, inboxVars>>
      BY <2>2, WindowSame
    <2> QED
      BY <1>1, <2>1, <2>2 DEF start_send, SendLoop
  <1>2. CASE disconnectCall
    BY <1>2 DEF disconnectCall, WindowInv
  <1>3. CASE \/ \E length \in Lengths : start_file_transmission(length)
             \/ stop_file_transmission \/ start_open \/ start_check \/ start_unreadable
             \/ start_lock \/ stop_wait
    BY <1>3, WindowSame DEF start_file_transmission, stop_file_transmission, start_open,
       start_check, start_unreadable, start_lock, stop_wait
  <1> QED
    BY <1>1, <1>2, <1>3 DEF ScriptCalls, MethodSteps

LEMMA WindowDriver == ASSUME TypeInv, WindowInv, Driver PROVE WindowInv'
  <1> USE RingTypes
  <1>1. CASE Confirm
    <2>1. PICK Info \in {0, 1} :
            /\ unconfirmed # <<>> /\ unconfirmed' = Tail(unconfirmed)
            /\ confirmations' = Append(confirmations, [handle |-> Head(unconfirmed), Info |-> Info])
            /\ UNCHANGED <<ncci_state, ringVars, threadVars>>
      BY <1>1 DEF Confirm
    <2> DEFINE e == [handle |-> Head(unconfirmed), Info |-> Info]
    <2>2. Head(unconfirmed) \in Handles
      BY <2>1, TailType
    <2>3. e \in Confs /\ e.handle = Head(unconfirmed)
      BY <2>2 DEF Confs
    <2>4. confirmations' = Append(confirmations, e)
      BY <2>1
    <2> HIDE DEF e
    <2>5. ncci_state = "NACT" =>
            LET s == buffer_start
                k == buffers_used
                C == confirmations
                U == unconfirmed
            IN  /\ BlocksFit(s, k, Tail(U)) /\ ConfsFit(s, k, Append(C, e), Tail(U))
                /\ HandFits(s, k, handle, C, U) => HandFits(s, k, handle, Append(C, e), Tail(U))
      BY <2>1, <2>3, FitConfirm DEF WindowInv
    <2> QED
      BY <2>1, <2>4, <2>5 DEF WindowInv
  <1>2. CASE ClearLink
    <2>1. unconfirmed' = <<>> /\ UNCHANGED <<ncci_state, ringVars, threadVars, confirmations>>
      BY <1>2 DEF ClearLink
    <2> QED
      BY <2>1, FitClear DEF WindowInv
  <1>3. CASE ConnectLink
    BY <1>3, WindowSame DEF ConnectLink
  <1> QED
    BY <1>1, <1>2, <1>3 DEF Driver

LEMMA WindowNext == TypeInv /\ LinkInv /\ WindowInv /\ [Next]_vars => WindowInv'
  <1> SUFFICES ASSUME TypeInv, LinkInv, WindowInv, [Next]_vars PROVE WindowInv'
    OBVIOUS
  <1>1. CASE Next
    BY <1>1, WindowCapi, WindowScript, WindowDriver DEF Next
  <1>2. CASE UNCHANGED vars
    BY <1>2, WindowSame DEF vars
  <1> QED
    BY <1>1, <1>2

(* send_block never writes to a buffer that the driver still reads: with   *)
(* failing requests, with refused blocks, whose confirmations put handles  *)
(* and ring out of step, and with handlers anywhere in between.            *)
THEOREM BuffersAreFree == Spec => []NextBufferIsFree
  <1>1. Init => WindowInv
    BY DEF Init, WindowInv
  <1>2. TypeInv /\ WindowInv => NextBufferIsFree
    <2> SUFFICES ASSUME TypeInv, WindowInv, MoreToSend, ncci_state = "NACT"
                 PROVE  \A i \in DOMAIN unconfirmed : unconfirmed[i] # buff_num
      BY DEF NextBufferIsFree
    <2>1. buffers_used \in 0 .. 6 /\ handle \in Handles
      BY RingTypes, TransmissionAssumption DEF MoreToSend, SendBuffers, TypeInv, RingType
    <2> QED
      BY <2>1, RingTypes, FitSend DEF WindowInv, buff_num
  <1> QED
    BY TypeInit, TypeNext, LinkInit, LinkNext, <1>1, WindowNext, <1>2, PTL DEF Spec
=============================================================================
