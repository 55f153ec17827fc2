----------------------------- MODULE MCFaxQueue -----------------------------
(* Instances of FaxQueue for TLC.                                          *)
EXTENDS FaxQueue

MCInodes == 1 .. MaxJob + Cardinality(Processes)

Conditions(clients, documents, aborts, crashing, breaks, raises, overlaps) ==
    {[clients |-> clients, documents |-> documents, aborts |-> aborts,
      crashing |-> crashing, broken |-> breaks, raising |-> raises,
      overlap |-> overlaps]}

SomeOf(S) == {CHOOSE x \in S : TRUE}

(* One document with aborts, and one crash or a script that is broken for  *)
(* a time; two documents sent, and two enqueued one after the other with a *)
(* crash; calls that raise, and a crash of the daemon.                     *)
MCApart ==
    Conditions(Clients, SomeOf(Documents), TRUE, Processes, FALSE, FALSE, FALSE)
      \cup Conditions(Clients, SomeOf(Documents), TRUE, {}, TRUE, FALSE, FALSE)
      \cup Conditions(Clients, Documents, FALSE, {}, FALSE, FALSE, FALSE)
      \cup Conditions(SomeOf(Clients), Documents, FALSE, Clients, FALSE, FALSE, FALSE)
      \cup Conditions(SomeOf(Clients), SomeOf(Documents), TRUE, {Idle}, FALSE, TRUE, FALSE)

MCOverlapping == Conditions(Clients, Documents, FALSE, {}, FALSE, FALSE, TRUE)
=============================================================================
