--------------------------- MODULE MCCallDispatch ---------------------------
(* Instances of CallDispatch for TLC: the callers dial 5-1.               *)
EXTENDS CallDispatch

MCBaseNumber == <<5>>
MCExtensions == {<<1>>}

Installations(length, stop, enBloc, overlap, failing) ==
    [DDILength : {length}, DDI_stop_numbers : {stop}, enBloc : {enBloc},
     overlap : overlap, failing : failing]

(* With the default settings but for the length of the extensions, the     *)
(* digits sent one by one or together.                                     *)
MCDefaultStop == Installations(1, {}, FALSE, {FALSE}, {FALSE})

(* Threads that run at the same time, and no extensions.                   *)
MCConcurrent == Installations(0, {}, TRUE, {TRUE}, {FALSE})

(* Extensions of two digits with 1 as a stop number, sent with the call;   *)
(* the ones above; and no extensions at all: the threads and the failing   *)
(* requests matter in the same way for all.                                *)
MCConfigurations ==
    Installations(2, {<<1>>}, TRUE, {FALSE}, {FALSE})
      \cup MCDefaultStop
      \cup MCConcurrent
      \cup Installations(0, {}, TRUE, {FALSE}, BOOLEAN)
=============================================================================
