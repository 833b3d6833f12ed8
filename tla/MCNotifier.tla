----------------------------- MODULE MCNotifier -----------------------------
(* Instances of Notifier for TLC.                                          *)
EXTENDS Notifier

CONSTANTS u1

Raised(id, verdict, category) ==
  [id |-> id, verdict |-> verdict, category |-> category]
MCAlerts == {Raised(1, "blocked", "xss"), Raised(2, "detected", "sqli"),
             Raised(3, "blocked", "sqli")}
MCURLs == {u1}
=============================================================================
