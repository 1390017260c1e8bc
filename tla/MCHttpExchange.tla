--------------------------- MODULE MCHttpExchange ---------------------------
(* Small instances of HttpExchange for TLC: two sites, paths in one and in two *)
(* directories, a body below, at and above what the buffer has room for         *)
EXTENDS HttpExchange

Site(h) == [host |-> h, port |-> 80]
TwoSites == {Site("x"), Site("y")}
OneTlsSite == {Site("x")}
OneUrl == {[site |-> Site("x"), path |-> <<"/", "a", "/", "b">>]}

Cookie(d, p, v) == [name |-> "c", domain |-> d, path |-> p, val |-> v]
OneCookie == {Cookie("x", <<"/", "a", "/">>, 1)}

Reply(code, to, basic, set) == [code |-> code, to |-> to, basic |-> basic, set |-> set]
SomeCookies == {{}, {Cookie(NONE, <<>>, 2)}}
Locations == {NONE, [site |-> NONE, path |-> <<"b">>], [site |-> NONE, path |-> <<"/", "a", "/">>],
              [site |-> Site("y"), path |-> <<"/">>]}
SmallReplies ==
  {Reply("ok", NONE, FALSE, s) : s \in SomeCookies} \cup {Reply("bad", NONE, FALSE, {})}
  \cup {Reply("redirect", l, FALSE, s) : l \in Locations, s \in SomeCookies}
  \cup {Reply(c, NONE, b, s) : c \in {"server", "proxy"}, b \in BOOLEAN, s \in SomeCookies}
=============================================================================
