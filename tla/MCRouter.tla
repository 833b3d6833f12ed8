------------------------------ MODULE MCRouter ------------------------------
(* Instances of Router for TLC.                                            *)
EXTENDS Router

CONSTANTS h1, h2

MCTwoHandlers == {h1, h2}
MCDomains == {"", "Shop.tg", "shop.tg:80", "blog.tg"}
MCHosts == {"", "shop.tg", "blog.tg"}
MCNormalize == [d \in MCDomains |->
  CASE d = "" -> "" [] d \in {"Shop.tg", "shop.tg:80"} -> "shop.tg" [] OTHER -> "blog.tg"]
MCUpstreams == {"", "up", "bad"}
MCBad == {"bad"}
MCModes == {"", "block", "detect", "other", "x"}

App(d, u, m, t) == [domain |-> d, upstream |-> u, mode |-> m, threshold |-> t]

\* Two spellings of one host, a bad upstream, defaults to fill in.
MCAdds == {App("Shop.tg", "up", "", 0), App("shop.tg:80", "up", "other", 6),
           App("", "up", "block", 4)}
MCUpdates == {App("", "", "detect", 5), App("blog.tg", "bad", "x", 0)}
MCExternals == {App("", "up", "block", 4), App("shop.tg:80", "bad", "block", 4)}
=============================================================================
