-------------------------------- MODULE Ruleset ------------------------------
(***************************************************************************)
(* enforce -print: plan.go Text, the ruleset written in nft's language     *)
(* beside the netlink messages of apply_linux.go, and what nft would make  *)
(* of it.  A line is the phrases it is put together from, <<>> for one it  *)
(* lacks, and the index of its rule, which is its place in the chain.      *)
(***************************************************************************)
EXTENDS Plan

FamilyWord(fam) == IF fam = "v4" THEN "ip" ELSE "ip6"

SocketPhrase(a) == IF a.cgroup = NoCgroup THEN <<>> ELSE <<"level", Len(a.cgroup), a.cgroup>>

AddressPhrase(a) ==
  CASE a.base.kind = "prefix" -> <<FamilyWord(a.base.fam), "daddr", a.base>>
    [] a.base.kind = "set"    -> <<FamilyWord(a.base.fam), "daddr @", <<a.rule, a.base.fam>>>>
    [] OTHER                  -> <<>>

\* Mutant: the port is written without the protocol it goes with.
TransportPhraseBare(a) ==
  IF a.port.hi # 0 THEN <<"th dport", {"tcp", "udp"}, a.port>>
  ELSE IF a.proto # "" THEN <<"l4proto", {a.proto}, AnyPort>> ELSE <<>>

TransportPhrase(a) ==
  CASE a.proto # "" /\ a.port.hi # 0 -> <<"dport", {a.proto}, a.port>>
    [] a.proto # "" /\ a.port.hi = 0 -> <<"l4proto", {a.proto}, AnyPort>>
    [] a.proto = "" /\ a.port.hi # 0 -> <<"th dport", {"tcp", "udp"}, a.port>>
    [] OTHER                         -> <<>>

TextOf(a) ==
  [rule |-> a.rule, socket |-> SocketPhrase(a), address |-> AddressPhrase(a),
   transport |-> TransportPhrase(a), accept |-> a.verdict = "allow"]

\* The lines of a chain after those that come before any policy, and the last
\* one, which logs and rejects what is left when the default is deny.
ChainText(rules, default, hook) ==
  {TextOf(a) : a \in {b \in Atoms(rules) : InChain(b, hook)}}
    \cup IF default = "deny"
         THEN {[rule |-> Len(rules) + 1, socket |-> <<>>, address |-> <<>>, transport |-> <<>>,
                accept |-> FALSE]}
         ELSE {}

Text(rules, default, forward) ==
  [policy |-> IF default = "deny" THEN "drop" ELSE "accept",
   chains |-> [hook \in {"output"} \cup IF forward THEN {"forward"} ELSE {} |->
                 ChainText(rules, default, hook)]]

----------------------------------------------------------------------------
(* nft's reading of the text.                                              *)

\* A socket has the ancestor written at that level.
SocketMatches(phrase, pkt) ==
  phrase # <<>> =>
    phrase[2] <= Len(pkt.cgroup) /\ SubSeq(pkt.cgroup, 1, phrase[2]) = phrase[3]

\* `ip` and `ip6` bring the family along.
AddressMatches(phrase, pkt, elems) ==
  phrase # <<>> =>
    /\ phrase[1] = FamilyWord(pkt.ip.fam)
    /\ IF phrase[2] = "daddr @" THEN elems[phrase[3]][pkt.ip] > 0
       ELSE PrefixContains(phrase[3], pkt.ip)

\* `tcp dport` and `udp dport` bring the protocol.
TransportMatches(phrase, pkt) ==
  phrase # <<>> =>
    /\ pkt.proto \in phrase[2]
    /\ phrase[1] # "l4proto" => InRange(pkt.port, phrase[3])

LineMatches(line, pkt, elems) ==
  /\ SocketMatches(line.socket, pkt)
  /\ AddressMatches(line.address, pkt, elems)
  /\ TransportMatches(line.transport, pkt)

TextVerdict(text, pkt, elems) ==
  IF pkt.hook \notin DOMAIN text.chains THEN "accept"
  ELSE LET hits == {l \in text.chains[pkt.hook] : LineMatches(l, pkt, elems)} IN
       IF hits = {} THEN text.policy
       ELSE IF (CHOOSE l \in hits : \A k \in hits : l.rule <= k.rule).accept
            THEN "accept" ELSE "reject"
=============================================================================
