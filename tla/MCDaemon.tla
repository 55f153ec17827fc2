------------------------------ MODULE MCDaemon ------------------------------
(* Instances of Daemon for TLC.                                            *)
EXTENDS Daemon

Case(idle_script, faulty, callers) ==
    [idle |-> idle_script, faults |-> faulty, calls |-> callers]

MCConfigurations ==
    {Case(i, f, Calls) : i \in BOOLEAN, f \in 0 .. 1}
=============================================================================
