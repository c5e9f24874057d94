----------------------------- MODULE MCRefusals -----------------------------
(* Rules with a name /dev/kmsg escapes, with none, with "]: " in it and    *)
(* with too many words; one address under two names, tried by two services *)
(* on two ports.                                                           *)
EXTENDS Refusals

Rule(verdict) == [verdict |-> verdict, exact |-> {}, suffixes |-> {}, prefixes |-> {},
                  ports |-> {}, proto |-> "", cgroup |-> NoCgroup]
range(p) == [lo |-> p, hi |-> p]

MCRules ==
  <<[Rule("deny") EXCEPT !.exact = {<<"b", "x">>}],
    [Rule("deny") EXCEPT !.ports = {range(25)}],
    [Rule("deny") EXCEPT !.prefixes = {[fam |-> "v6", bits |-> <<1>>]}],
    [Rule("deny") EXCEPT !.cgroup = <<"s", "guest">>],
    [Rule("allow") EXCEPT !.suffixes = {<<"x">>}]>>

MCFileName ==
  <<<<"corp\\names">>, <<>>, <<"no", "]", "v6">>, <<"no", "guest", "may", "go", "out">>, <<"all">>>>

MCPosition == <<"deny[0]", "deny[1]", "deny[2]", "deny[3]", "allow[0]">>

MCEscapes == [w \in {"corp\\names"} |-> "corp\\x5cnames"]

host   == [fam |-> "v4", bits |-> <<0, 1>>]
mapped == [fam |-> "v4in6", bits |-> <<0, 1>>]

MCAddrs == {host, mapped}

MCFlows ==
  [ip : {host}, port : {25, 443}, proto : {"tcp"}, cgroup : {<<"s", "app">>, <<"s", "guest">>}]

MCAnswers ==
  {[name |-> <<"a", "x">>, addrs |-> {host}, ttl |-> 0],
   [name |-> <<"b", "x">>, addrs |-> {host}, ttl |-> 2]}
=============================================================================
