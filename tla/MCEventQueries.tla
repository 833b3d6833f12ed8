--------------------------- MODULE MCEventQueries ---------------------------
(* An instance of EventQueries for TLC.                                    *)
EXTENDS EventQueries

\* Two applications and two addresses: an allowed request, a light attack
\* that was let through, and a graver one that was blocked.
MCContent ==
  {[app |-> "a", ip |-> "i1", path |-> "/", verdict |-> "allowed",
    score |-> 2, cats |-> {"probe"}],
   [app |-> "b", ip |-> "i1", path |-> "/", verdict |-> "detected",
    score |-> 5, cats |-> {"sqli", "probe"}],
   [app |-> "a", ip |-> "i2", path |-> "/login", verdict |-> "blocked",
    score |-> 10, cats |-> {"xss"}]}
=============================================================================
