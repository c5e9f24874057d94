------------------------------- MODULE MCLearn ------------------------------
(* A resolver, a peer that also speaks first, the metadata address, and    *)
(* questions that read as patterns or as an address.                       *)
EXTENDS Learn

peer     == [fam |-> "v4", bits |-> <<0, 1>>]
metadata == [fam |-> "v4", bits |-> <<1, 0>>]
other    == [fam |-> "v4", bits |-> <<1, 1>>]
mapped   == [fam |-> "v4in6", bits |-> <<1, 1>>]

MCAddrs == {peer, metadata, other, mapped}

MCAddrText ==
  peer :> <<"10", "1">> @@ metadata :> <<"169", "254">> @@
  other :> <<"10", "2">> @@ mapped :> <<"::ffff:10", "2">>

\* The peer answers DNS and the host may answer it.
MCTuples == {[peer |-> peer, peerPort |-> 53, local |-> 9]}

MCDestinations ==
  {[ip |-> mapped, port |-> 80], [ip |-> peer, port |-> 0], [ip |-> metadata, port |-> 80]}

MCAnswers ==
  {[name |-> <<"b", "x">>, addrs |-> {peer, other}, ttl |-> 0],
   [name |-> <<"*", "x">>, addrs |-> {peer, metadata}, ttl |-> 0],
   [name |-> <<"10", "1">>, addrs |-> {other}, ttl |-> 0],
   [name |-> <<"b", "*">>, addrs |-> {mapped, metadata}, ttl |-> 0]}
=============================================================================
