----------------------------- MODULE MCEnforce ------------------------------
(* One policy with static denies, a seeded name, a wildcard and cgroups.   *)
EXTENDS Enforce

Blank == [verdict |-> "allow", exact |-> {}, suffixes |-> {}, prefixes |-> {}, ports |-> {},
          proto |-> "", cgroup |-> NoCgroup]
http  == [lo |-> 80, hi |-> 80]
web   == [lo |-> 80, hi |-> 443]

host == [fam |-> "v4", bits |-> <<0, 1>>]
s    == <<"s">>
app  == <<"s", "app">>

\* Port 80 stays denied on an address that both names may resolve to, and every port
\* to the inner of the two cgroups.
DenyPort == [Blank EXCEPT !.verdict = "deny", !.prefixes = {host}, !.ports = {http}]
DenyApp  == [Blank EXCEPT !.verdict = "deny", !.prefixes = {host}, !.cgroup = app]
SeededA  == [Blank EXCEPT !.exact = {<<"a", "x">>}]
WildX    == [Blank EXCEPT !.suffixes = {<<"x">>}, !.ports = {web}, !.proto = "tcp",
                          !.cgroup = s]
MCRules  == <<DenyPort, DenyApp, SeededA, WildX>>

MCQuestions == {<<"a", "x", "">>, <<"b", "x", "">>}
MCAddrs     == {host}
MCCgroups   == {s, app}

\* Smaller, for the liveness runs.
MCOneCgroupRules == <<DenyPort, SeededA, WildX>>
MCOneQuestion == {<<"a", "x", "">>}
MCOneCgroup   == {s}

MCPackets ==
  [ip : KAddrs, port : {80, 443}, proto : {"tcp"}, cgroup : {NoCgroup, s, app},
   hook : {"output"}, oif : {"eth"}, est : {FALSE}]
    \cup [ip : KAddrs, port : {443}, proto : {"tcp"}, cgroup : {NoCgroup},
          hook : {"forward"}, oif : {"eth", "bridge"}, est : {FALSE}]
=============================================================================
