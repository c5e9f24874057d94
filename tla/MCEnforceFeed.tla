--------------------------- MODULE MCEnforceFeed ----------------------------
(* Names and lifetimes: no rule has a cgroup.                              *)
EXTENDS Enforce

Blank == [verdict |-> "allow", exact |-> {}, suffixes |-> {}, prefixes |-> {}, ports |-> {},
          proto |-> "", cgroup |-> NoCgroup]
web   == [lo |-> 80, hi |-> 443]

host  == [fam |-> "v4", bits |-> <<0, 1>>]

\* A denied name below an allowed suffix, sharing an address.
MCRules ==
  <<[Blank EXCEPT !.verdict = "deny", !.exact = {<<"b", "x">>}],
    [Blank EXCEPT !.suffixes = {<<"x">>}, !.ports = {web}, !.proto = "tcp"]>>

MCQuestions == {<<"a", "x", "">>, <<"b", "x", "">>, <<"y", "">>}
MCAddrs     == {host}

MCPackets ==
  [ip : KAddrs, port : {80, 8080}, proto : {"tcp", "icmp"}, cgroup : {NoCgroup},
   hook : {"output", "forward"}, oif : {"eth"}, est : {FALSE}]
=============================================================================
