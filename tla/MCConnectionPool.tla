-------------------------- MODULE MCConnectionPool --------------------------
(* Small instances of ConnectionPool for TLC, with keys made from requests *)
EXTENDS ConnectionPool, TLC

\* The requests: to one server directly and with SSL; through an HTTP proxy, and through
\* a tunnel of the proxy
Request(ssl, server, proxy) ==
  [auth |-> 1, ssl |-> ssl, server |-> server, port |-> IF ssl THEN 443 ELSE 80,
   proxy |-> proxy, proxyPort |-> 3128]

TwoKeys == {ConstructConnectionKey(Request(ssl, 1, NoProxy)) : ssl \in BOOLEAN}
ProxyKeys == {ConstructConnectionKey(Request(ssl, 1, 9)) : ssl \in BOOLEAN}
OneKey  == {ConstructConnectionKey(Request(TRUE, 1, NoProxy))}

\* The safety properties of the win32 run say nothing once a stale pointer was
\* followed; from there TLC goes on only while one transport has ever worked, which
\* is what the retry loop needs
AstrayAlone ==
  astray => \E t \in Transport : \A u \in Transport \ {t} : pc[u] = "idle" /\ conn[u] = NULL

Symmetry == Permutations(Transport) \cup Permutations(Addr) \cup Permutations(Handle)
=============================================================================
