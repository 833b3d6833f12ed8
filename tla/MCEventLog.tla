---------------------------- MODULE MCEventLog ------------------------------
(* An instance of EventLog for TLC.                                        *)
EXTENDS EventLog

CONSTANTS e1, e2, e3

MCEvents == {e1, e2, e3}
=============================================================================
