----------------------------- MODULE MCSettings -----------------------------
(* Instances of Settings for TLC.                                          *)
EXTENDS Settings, TLC

CONSTANTS w1, w2, ip1, ip2, sqli, xss, u1, env, k1, k2

MCOneWriter == {w1}
MCTwoWriters == {w1, w2}
MCIPs == {ip1, ip2}
MCFamilies == {sqli, xss}
MCURLs == {u1, env}
MCVersions == {{sqli}, {sqli, xss}}
MCOneVersion == {{sqli, xss}}
MCMissed == {{}, {"blocklist", "disabled_categories", "llm_api_key"}}
MCNoneMissed == {{}}
MCKeys == {k1, k2}
MCNoLLM == NoLLM
MCEnvLLM == [base_url |-> env, api_key |-> k2]

Set(k, v) == [key |-> k, val |-> v]
Ban(ip, b) == <<Set("blocklist", [ip |-> ip, on |-> b])>>

\* A request about the language model: some fields, each <<value>> or absent.
LLM(u, k) == <<[key |-> "llm", val |-> [base_url |-> u, api_key |-> k]]>>

\* Every setting, alone and with another, valid and not.
MCBodies ==
  {<<Set("mode", "detect"), Set("threshold", 0)>>,
   <<Set("mode", "other"), Set("webhook", u1)>>,
   <<Set("webhook", NoURL)>>, <<Set("disabled_categories", {sqli})>>,
   Ban(ip1, TRUE), Ban(ip1, FALSE), Ban("", TRUE),
   LLM(<<>>, <<k1>>), LLM(<<u1>>, <<>>)}

MCRaceBodies == {Ban(ip1, TRUE), Ban(ip2, TRUE), Ban(ip1, FALSE)}

MCCategoryBodies == {<<Set("disabled_categories", {sqli})>>}

Symmetry == Permutations(MCTwoWriters)
=============================================================================
