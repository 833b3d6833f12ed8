---------------------------- MODULE MCBruteForce ----------------------------
(* Instances of BruteForce for TLC.                                        *)
EXTENDS BruteForce, TLC

CONSTANTS r1, r2, ip1, ip2

MCRequests == {r1, r2}
MCAddresses == {ip1, ip2}
Symmetry == Permutations(MCRequests) \cup Permutations(MCAddresses)
=============================================================================
