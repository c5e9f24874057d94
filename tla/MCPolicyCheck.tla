--------------------------- MODULE MCPolicyCheck ----------------------------
(* Small policy files for TLC: up to one deny rule and two allow rules.    *)
EXTENDS PolicyCheck

Blank == [domains |-> {}, cidrs |-> {}, ports |-> {}, proto |-> "", cgroup |-> NoCgroup]

https == [lo |-> 443, hi |-> 443]
low   == [lo |-> 1, hi |-> 80]

v4(bits)    == [fam |-> "v4", bits |-> bits]
v6(bits)    == [fam |-> "v6", bits |-> bits]
v4in6(bits) == [fam |-> "v4in6", bits |-> bits]

MCRules ==
  {[Blank EXCEPT !.ports = {https}],
   [Blank EXCEPT !.domains = {<<"a", "x">>, <<"x", "">>}],
   [Blank EXCEPT !.domains = {<<"*", "x", "">>}, !.ports = {https, low}, !.proto = "tcp"],
   [Blank EXCEPT !.cidrs = {v4(<<0, 1>>), v6(<<0>>)}, !.proto = "udp"],
   [Blank EXCEPT !.cidrs = {v4in6(<<0>>)}, !.domains = {<<"b", "x">>}],
   [Blank EXCEPT !.domains = {<<"*", "x">>}, !.cgroup = <<"", "s", "p", "">>],
   [Blank EXCEPT !.cidrs = {v4(<<0, 1, 0>>)}, !.cgroup = <<"s">>]}

MCBadRules ==
  {[Blank EXCEPT !.domains = {<<"a", "x">>, <<"*">>}],
   [Blank EXCEPT !.domains = {<<"*", "*", "x">>}],
   [Blank EXCEPT !.ports = {[lo |-> 0, hi |-> 80]}],
   [Blank EXCEPT !.ports = {https, [lo |-> 80, hi |-> 79]}],
   [Blank EXCEPT !.cidrs = {BadCidr}],
   [Blank EXCEPT !.proto = "icmp"],
   [Blank EXCEPT !.cgroup = <<"", "">>],
   [Blank EXCEPT !.cgroup = <<"s", "..", "t">>]}

FileOf(deny, allow, default) ==
  [version |-> 1, default |-> default, deny |-> deny, allow |-> allow]

UpTo1(S) == {<<>>} \cup {<<r>> : r \in S}
UpTo2(S) == UpTo1(S) \cup (S \X S)

MCFiles ==
  {FileOf(d, a, v) : d \in UpTo1(MCRules), a \in UpTo2(MCRules), v \in Verdicts}
    \cup {FileOf(<<r>>, a, "deny") : r \in MCBadRules, a \in UpTo1(MCRules)}
    \cup {FileOf(d, <<r, [Blank EXCEPT !.ports = {https}]>>, "deny") :
            r \in MCBadRules, d \in UpTo1(MCRules)}
    \cup {[FileOf(<<>>, <<>>, "deny") EXCEPT !.version = 2], FileOf(<<>>, <<>>, "drop")}

MCResolves ==
  {<<<<"a", "x">>, v4(<<0, 1, 0, 0>>)>>,
   <<<<"x">>, v6(<<0, 1>>)>>,
   <<<<"b", "x">>, v4in6(<<0, 0, 1, 0>>)>>}

\* Every resolved address under its name, and two that no name answers for.
Destinations ==
  {[name |-> p[1], ip |-> p[2]] : p \in MCResolves}
    \cup {[name |-> NoName, ip |-> v4(<<0, 1, 0, 1>>)],
          [name |-> NoName, ip |-> v4(<<1, 1, 1, 0, 1>>)]}

MCConnections ==
  {[name |-> d.name, ip |-> d.ip, port |-> p, proto |-> l4[1], cgroup |-> g[1], hook |-> g[2]] :
     d \in Destinations, p \in {80, 443}, l4 \in {<<"tcp">>, <<"udp">>},
     g \in {<<NoCgroup, "forward">>, <<<<"s">>, "output">>,
            <<<<"", "s", "p", "q">>, "output">>, <<<<"s", "pq">>, "output">>}}
=============================================================================
