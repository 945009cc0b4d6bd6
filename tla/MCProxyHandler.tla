--------------------------- MODULE MCProxyHandler ---------------------------
(* Small instances of ProxyHandler for TLC. *)
EXTENDS ProxyHandler

CONSTANTS t1, t2, h1, h2

TwoThreads == {t1, t2}
OneThread  == {t1}
OneHost    == {h1}
TwoHosts   == {h1, h2}
SomePaths  == {"", "/", "/a"}

\* Every failure, but no redirect.
PlainHosts == [h \in OneHost |-> Outcomes \ Redirecting]

\* The configured host does everything; the other one never redirects.
OneHop == [h \in TwoHosts |->
             IF h = h1 THEN Outcomes ELSE Outcomes \ Redirecting]

\* Hosts that always answer, with a page or a redirect.
Friendly == [h \in TwoHosts |-> {"page", "sameHost", "otherHost"}]

=============================================================================
