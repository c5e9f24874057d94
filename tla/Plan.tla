-------------------------------- MODULE Plan --------------------------------
(***************************************************************************)
(* internal/nft: the plan a policy becomes, and the verdict the kernel     *)
(* gives on a packet once the plan is loaded.                              *)
(*                                                                         *)
(* The atoms of one policy rule share its verdict and its log prefix, so   *)
(* the plan is a set of atoms that carry the index of their rule: the      *)
(* first atom of the chain to match belongs to the least matching rule.    *)
(* The kernel's side (Matches, Filter) is external: it is what the         *)
(* expressions sent by apply_linux.go ask of nf_tables.                    *)
(***************************************************************************)
EXTENDS Policy

Families == {"v4", "v6"}

AnyPort == [lo |-> 0, hi |-> 0]
AnyBase == [kind |-> "any", fam |-> "any", bits |-> <<>>]

\* 224.0.0.0/4, ff00::/8 and fe80::/10.
Housekeeping ==
  {[fam |-> "v4", bits |-> <<1, 1, 1, 0>>],
   [fam |-> "v6", bits |-> <<1, 1, 1, 1, 1, 1, 1, 1>>],
   [fam |-> "v6", bits |-> <<1, 1, 1, 1, 1, 1, 1, 0, 1, 0>>]}

\* Mutant: sets for rules with exact names only.
PlanSetsOfExactNames(rules) == {i \in DOMAIN rules : rules[i].exact # {}} \X Families

\* The timeout sets: two per rule with domains, <<rule, family>>.
PlanSets(rules) == {i \in DOMAIN rules : HasDomains(rules[i])} \X Families

\* Mutant: a v4-mapped address keeps its IPv6 family.
SetForMapped(i, ip) == <<i, IF ip.fam = "v4" THEN "v4" ELSE "v6">>

\* The set that a resolved address for rule i belongs in.
SetFor(i, ip) == <<i, IF Unmap(ip).fam = "v4" THEN "v4" ELSE "v6">>

\* What the destination address of a rule's atoms is matched against.
Bases(r) ==
  IF AnyHost(r) THEN {AnyBase}
  ELSE {[kind |-> "prefix", fam |-> p.fam, bits |-> p.bits] : p \in r.prefixes}
       \cup IF HasDomains(r)
            THEN {[kind |-> "set", fam |-> f, bits |-> <<>>] : f \in Families}
            ELSE {}

AtomPorts(r) == IF r.ports = {} THEN {AnyPort} ELSE r.ports

AtomsOf(i, r) ==
  {[rule |-> i, base |-> b, port |-> p, proto |-> r.proto, cgroup |-> r.cgroup,
    verdict |-> r.verdict] : b \in Bases(r), p \in AtomPorts(r)}

Atoms(rules) == UNION {AtomsOf(i, rules[i]) : i \in DOMAIN rules}

\* A forwarded packet has no local socket: atoms with a cgroup stay out.
InChain(atom, hook) == ~ (hook = "forward" /\ atom.cgroup # NoCgroup)

----------------------------------------------------------------------------
(* The kernel.  A loaded table is [loaded, elems, forward]: the atoms with *)
(* the cgroup id each was loaded with, the remaining lifetime of each      *)
(* address in each set (0: not in it), and whether it has a forward chain. *)
(* inode maps the cgroup paths to the ids they have now.  A packet is      *)
(* [ip, port, proto, cgroup, hook, oif, est].                              *)

NoId == 0

\* The chain's rules before the policy: loopback, docker bridges, the
\* established connections, and the housekeeping destinations.
PreAccepted(pkt) ==
  \/ pkt.hook = "output" /\ pkt.oif = "lo"
  \/ pkt.hook = "forward" /\ pkt.oif = "bridge"
  \/ pkt.est
  \/ \E pfx \in Housekeeping : PrefixContains(pfx, pkt.ip)

\* socket cgroupv2 level N: the id of the socket's ancestor at depth N.
MatchesCgroup(atom, id, pkt, inode) ==
  atom.cgroup # NoCgroup =>
    /\ Len(atom.cgroup) <= Len(pkt.cgroup)
    /\ inode[SubSeq(pkt.cgroup, 1, Len(atom.cgroup))] = id

MatchesHost(atom, pkt, elems) ==
  \/ atom.base.kind = "any"
  \/ atom.base.kind = "prefix" /\ PrefixContains(atom.base, pkt.ip)
  \/ /\ atom.base.kind = "set"
     /\ atom.base.fam = pkt.ip.fam
     /\ elems[<<atom.rule, atom.base.fam>>][pkt.ip] > 0

MatchesL4(atom, pkt) ==
  /\ atom.proto # "" => pkt.proto = atom.proto
  /\ atom.port.hi # 0 => pkt.proto \in {"tcp", "udp"} /\ InRange(pkt.port, atom.port)

Hits(table, pkt, inode) ==
  {e \in table.loaded :
     /\ InChain(e.atom, pkt.hook)
     /\ MatchesCgroup(e.atom, e.id, pkt, inode)
     /\ MatchesHost(e.atom, pkt, table.elems)
     /\ MatchesL4(e.atom, pkt)}

FirstHit(hits) == CHOOSE e \in hits : \A f \in hits : e.atom.rule <= f.atom.rule

Filter(table, default, pkt, inode) ==
  IF PreAccepted(pkt) \/ (pkt.hook = "forward" /\ ~ table.forward)
  THEN [verdict |-> "allow", rule |-> 0]
  ELSE LET hits == Hits(table, pkt, inode)
       IN  IF hits = {} THEN [verdict |-> default, rule |-> 0]
           ELSE [verdict |-> FirstHit(hits).atom.verdict, rule |-> FirstHit(hits).atom.rule]
=============================================================================
