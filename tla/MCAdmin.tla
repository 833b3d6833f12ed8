------------------------------ MODULE MCAdmin -------------------------------
(* An instance of Admin for TLC.                                           *)
EXTENDS Admin, TLC

CONSTANTS c1, c2, p1, p2, tiny

MCClients == {c1, c2}
MCPasswords == {p1, p2, tiny}
MCShort == {tiny}
MCEnv == {NoPassword, tiny}
MCMissed == {{}, {"admin_hash"}, {"auth_secret"}}
MCSymmetry == Permutations(MCClients) \cup Permutations({p1, p2})
=============================================================================
