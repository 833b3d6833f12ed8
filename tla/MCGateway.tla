----------------------------- MODULE MCGateway ------------------------------
(* An instance of Gateway for TLC.                                          *)
EXTENDS Gateway

CONSTANTS r1, ip1, host1, sqli, xss

MCOneRequest == {r1}
MCIPs == {ip1}
MCHosts == {host1}
MCCategories == {sqli, xss}
MCThresholds == {3, 6}

MCApps == {[name |-> "shop", mode |-> "detect", threshold |-> 4]}

Finding(c, s) == [cat |-> c, sev |-> s]
Req(fs) == [ip |-> ip1, host |-> host1, findings |-> fs]

\* Two categories, each enough for the low threshold and both needed for the
\* high one; two findings of one category.
MCInputs == {Req(<<Finding(sqli, 5), Finding(xss, 3)>>),
             Req(<<Finding(xss, 4), Finding(xss, 2)>>)}
=============================================================================
