----------------------------- MODULE PolicyProofs ---------------------------
(***************************************************************************)
(* Evaluate, the plan in the kernel and the printed ruleset, for every     *)
(* policy file, connection and set of DNS answers that the assumptions of  *)
(* PolicyCheck admit.                                                      *)
(***************************************************************************)
EXTENDS PolicyCheck, MinProofs, SequenceTheorems, FiniteSetTheorems, TLAPS

----------------------------------------------------------------------------
(* What Load makes of a file.                                              *)

\* A trimmed path is a path.
LEMMA TrimmedIsPath ==
  ASSUME NEW path \in Seq(STRING)
  PROVE  TrimSlashes(path) \in Seq(STRING)
<1> DEFINE named == {i \in DOMAIN path : path[i] # ""}
<1>1. CASE named = {}
  <2>1. TrimSlashes(path) = NoCgroup
    BY <1>1 DEF TrimSlashes
  <2> QED BY <2>1, EmptySeq DEF NoCgroup
<1>2. CASE named # {}
  <2>1. Len(path) \in Nat /\ DOMAIN path = 1..Len(path)
    OBVIOUS
  <2>2. named \subseteq DOMAIN path
    OBVIOUS
  <2> HIDE DEF named
  <2>3. named \in SUBSET Nat /\ named \in SUBSET (0..Len(path))
    BY <2>1, <2>2
  <2>4. Min(named) \in named /\ Max(named) \in named
    BY <1>2, <2>1, <2>3, MinIsLeast, MaxIsGreatest
  <2>5. Min(named) \in 1..Len(path) /\ Max(named) \in 1..Len(path)
    BY <2>1, <2>2, <2>4
  <2>6. \A i \in Min(named)..Max(named) : path[i] \in STRING
    BY <2>1, <2>5
  <2>7. SubSeq(path, Min(named), Max(named)) \in Seq(STRING)
    BY <2>5, <2>6, SubSeqProperties
  <2> QED BY <1>2, <2>7 DEF TrimSlashes, named
<1> QED BY <1>1, <1>2

\* The rules Load keeps.
Rule ==
  {r \in [verdict : Verdicts, exact : SUBSET Seq(STRING), suffixes : SUBSET Seq(STRING),
          prefixes : SUBSET [fam : STRING, bits : Seq({0, 1})],
          ports : SUBSET [lo : Nat, hi : Nat], proto : {"", "tcp", "udp"}, cgroup : Seq(STRING)] :
     \A p \in r.ports : GoodPorts(p)}

\* A record of such fields is one.
LEMMA FieldsMakeARule ==
  ASSUME NEW verdict \in Verdicts, NEW exact \in SUBSET Seq(STRING),
         NEW suffixes \in SUBSET Seq(STRING),
         NEW prefixes \in SUBSET [fam : STRING, bits : Seq({0, 1})],
         NEW ports \in SUBSET [lo : Nat, hi : Nat], NEW proto \in {"", "tcp", "udp"},
         NEW cgroup \in Seq(STRING), \A p \in ports : GoodPorts(p)
  PROVE  [verdict |-> verdict, exact |-> exact, suffixes |-> suffixes, prefixes |-> prefixes,
          ports |-> ports, proto |-> proto, cgroup |-> cgroup] \in Rule
  BY DEF Rule

\* A name without its trailing dot is a name.
LEMMA NormalizedIsName ==
  ASSUME NEW name \in Seq(STRING)
  PROVE  NormalizeDomain(name) \in Seq(STRING)
<1>1. Len(name) \in Nat /\ DOMAIN name = 1..Len(name)
  OBVIOUS
<1>2. \A i \in 1..(Len(name) - 1) : name[i] \in STRING
  BY <1>1
<1>3. SubSeq(name, 1, Len(name) - 1) \in Seq(STRING)
  BY <1>1, <1>2, SubSeqProperties
<1> QED BY <1>3 DEF NormalizeDomain, Front

\* A rule that Compile accepts becomes one of these.
LEMMA CompiledRuleTypes ==
  ASSUME NEW r \in RuleSyntax, GoodRule(r), NEW verdict \in Verdicts
  PROVE  CompileRule(r, verdict) \in Rule
<1> DEFINE patterns == {NormalizeDomain(d) : d \in r.domains}
<1>1. patterns \subseteq Seq(STRING)
  BY NormalizedIsName DEF RuleSyntax
<1>2. {d \in patterns : IsExact(d)} \in SUBSET Seq(STRING)
  BY <1>1
<1>3. {Tail(d) : d \in {p \in patterns : IsWildcard(p)}} \in SUBSET Seq(STRING)
  <2>1. \A p \in patterns : IsWildcard(p) => Tail(p) \in Seq(STRING)
    <3> SUFFICES ASSUME NEW p \in patterns, Len(p) > 1 PROVE Tail(p) \in Seq(STRING)
      BY DEF IsWildcard
    <3>1. p \in Seq(STRING) /\ p # <<>>
      BY <1>1
    <3> QED BY <3>1, HeadTailProperties
  <2> QED BY <2>1
<1>4. TrimSlashes(r.cgroup) \in Seq(STRING)
  BY TrimmedIsPath DEF RuleSyntax
<1>5. /\ r.proto \in {"", "tcp", "udp"}
      /\ r.ports \in SUBSET [lo : Nat, hi : Nat] /\ \A p \in r.ports : GoodPorts(p)
      /\ r.cidrs \in SUBSET [fam : STRING, bits : Seq({0, 1})]
  BY DEF GoodRule, RuleSyntax
<1> HIDE DEF patterns
<1>6. CompileRule(r, verdict) =
        [verdict |-> verdict, exact |-> {d \in patterns : IsExact(d)},
         suffixes |-> {Tail(d) : d \in {p \in patterns : IsWildcard(p)}},
         prefixes |-> r.cidrs, ports |-> r.ports, proto |-> r.proto,
         cgroup |-> TrimSlashes(r.cgroup)]
  BY DEF CompileRule, patterns
<1> DEFINE exact    == {d \in patterns : IsExact(d)}
           suffixes == {Tail(d) : d \in {p \in patterns : IsWildcard(p)}}
<1>7. exact \in SUBSET Seq(STRING) /\ suffixes \in SUBSET Seq(STRING)
  BY <1>2, <1>3
<1>8. CompileRule(r, verdict) =
        [verdict |-> verdict, exact |-> exact, suffixes |-> suffixes, prefixes |-> r.cidrs,
         ports |-> r.ports, proto |-> r.proto, cgroup |-> TrimSlashes(r.cgroup)]
  BY <1>6
<1> HIDE DEF exact, suffixes
<1>9. [verdict |-> verdict, exact |-> exact, suffixes |-> suffixes, prefixes |-> r.cidrs,
       ports |-> r.ports, proto |-> r.proto, cgroup |-> TrimSlashes(r.cgroup)] \in Rule
  BY <1>4, <1>5, <1>7, FieldsMakeARule, Zenon
<1> QED BY <1>8, <1>9, Zenon

\* A file that loads becomes a sequence of them.
LEMMA CompiledTypes ==
  ASSUME NEW f \in Files, Compile(f).ok
  PROVE  Compile(f).rules \in Seq(Rule) /\ Compile(f).default \in Verdicts
<1>1. /\ f.default \in Verdicts /\ Compile(f).default = f.default
      /\ Compile(f).rules = CompiledRules(f)
      /\ \A i \in DOMAIN f.deny : GoodRule(f.deny[i])
      /\ \A i \in DOMAIN f.allow : GoodRule(f.allow[i])
  BY DEF Compile, Rejected
<1> DEFINE denying  == [i \in 1..Len(f.deny) |-> CompileRule(f.deny[i], "deny")]
           allowing == [i \in 1..Len(f.allow) |-> CompileRule(f.allow[i], "allow")]
<1>2. f.deny \in Seq(RuleSyntax) /\ f.allow \in Seq(RuleSyntax)
  BY FilesAssumption
<1>3. \A i \in 1..Len(f.deny) : CompileRule(f.deny[i], "deny") \in Rule
  BY <1>1, <1>2, CompiledRuleTypes DEF Verdicts
<1>4. \A i \in 1..Len(f.allow) : CompileRule(f.allow[i], "allow") \in Rule
  BY <1>1, <1>2, CompiledRuleTypes DEF Verdicts
<1>5. denying \in [1..Len(f.deny) -> Rule] /\ allowing \in [1..Len(f.allow) -> Rule]
  BY <1>3, <1>4
<1>6. Len(f.deny) \in Nat /\ Len(f.allow) \in Nat
  BY <1>2
<1> HIDE DEF denying, allowing
<1>7. denying \in Seq(Rule) /\ allowing \in Seq(Rule)
  BY <1>5, <1>6, FunctionIsSeq
<1>8. denying \o allowing \in Seq(Rule)
  BY <1>7, ConcatProperties
<1> QED BY <1>1, <1>8 DEF CompiledRules, denying, allowing

\* An atom belongs to a rule, whose verdict, protocol and cgroup it has.
LEMMA AtomOfRule ==
  ASSUME NEW rules \in Seq(Rule), NEW a \in Atoms(rules)
  PROVE  /\ a.rule \in DOMAIN rules /\ a.rule \in Nat /\ rules[a.rule] \in Rule
         /\ a.verdict = rules[a.rule].verdict
         /\ a.proto = rules[a.rule].proto /\ a.proto \in {"", "tcp", "udp"}
         /\ a.cgroup = rules[a.rule].cgroup /\ a.cgroup \in Seq(STRING)
         /\ a.base \in Bases(rules[a.rule])
         /\ a.port \in AtomPorts(rules[a.rule])
<1>1. /\ a.rule \in DOMAIN rules /\ a.verdict = rules[a.rule].verdict
      /\ a.proto = rules[a.rule].proto /\ a.cgroup = rules[a.rule].cgroup
      /\ a.base \in Bases(rules[a.rule]) /\ a.port \in AtomPorts(rules[a.rule])
  BY DEF Atoms, AtomsOf
<1>2. a.rule \in Nat /\ rules[a.rule] \in Rule
  BY <1>1
<1> QED BY <1>1, <1>2 DEF Rule

\* The packet of a connection is of one of the table's families, over TCP or UDP,
\* and of a cgroup path.
LEMMA PacketTypes ==
  ASSUME NEW c \in Connections
  PROVE  /\ PacketOf(c).ip = Unmap(c.ip) /\ PacketOf(c).ip.fam \in Families
         /\ PacketOf(c).proto = c.proto /\ c.proto \in {"tcp", "udp"}
         /\ PacketOf(c).port = c.port /\ c.port \in Nat
         /\ PacketOf(c).hook = c.hook /\ c.hook \in {"output", "forward"}
         /\ PacketOf(c).cgroup = TrimSlashes(c.cgroup) /\ PacketOf(c).cgroup \in Seq(STRING)
<1>1. Unmap(c.ip).fam \in Families
  BY ConnectionsAssumption DEF Unmap, Families, Address
<1>2. TrimSlashes(c.cgroup) \in Seq(STRING)
  BY ConnectionsAssumption, TrimmedIsPath
<1> QED BY <1>1, <1>2, ConnectionsAssumption DEF PacketOf

----------------------------------------------------------------------------
(* One atom: the expressions sent and the line printed.                    *)

\* A socket's ancestor at the depth of a cgroup has the cgroup's id exactly when
\* the socket is within the cgroup.
LEMMA SocketIsWithin ==
  ASSUME NEW pkt, pkt.cgroup \in Seq(STRING), NEW a, a.cgroup \in Seq(STRING)
  PROVE  MatchesCgroup(a, a.cgroup, pkt, PathIds(pkt.cgroup))
           <=> (a.cgroup # NoCgroup => CgroupWithin(pkt.cgroup, a.cgroup))
<1> DEFINE n == Len(a.cgroup)
           path == pkt.cgroup
<1>1. n \in Nat /\ Len(path) \in Nat
  BY LenProperties
<1>2. SubSeq(a.cgroup, 1, n) = a.cgroup
  BY SubSeqFull
<1>3. n <= Len(path) => PathIds(path)[SubSeq(path, 1, n)] = SubSeq(path, 1, n)
  <2> SUFFICES ASSUME n <= Len(path)
               PROVE  PathIds(path)[SubSeq(path, 1, n)] = SubSeq(path, 1, n)
    OBVIOUS
  <2>1. SubSeq(path, 1, n) \in {SubSeq(path, 1, m) : m \in 0..Len(path)}
    BY <1>1
  <2> QED BY <2>1 DEF PathIds
<1>4. MatchesCgroup(a, a.cgroup, pkt, PathIds(path))
        <=> (a.cgroup # NoCgroup =>
               n <= Len(path) /\ PathIds(path)[SubSeq(path, 1, n)] = a.cgroup)
  BY DEF MatchesCgroup
<1>5. CgroupWithin(path, a.cgroup)
        <=> n <= Len(path) /\ SubSeq(a.cgroup, 1, n) = SubSeq(path, 1, n)
  BY DEF CgroupWithin, IsPrefix
<1> QED BY <1>2, <1>3, <1>4, <1>5

\* A phrase has its parts.
LEMMA PartsOfThree ==
  ASSUME NEW x, NEW y, NEW z, NEW phrase, phrase = <<x, y, z>>
  PROVE  phrase # <<>> /\ phrase[1] = x /\ phrase[2] = y /\ phrase[3] = z
  OBVIOUS

\* The socket phrase asks for the same.
LEMMA SocketLine ==
  ASSUME NEW pkt, pkt.cgroup \in Seq(STRING), NEW a, a.cgroup \in Seq(STRING)
  PROVE  SocketMatches(SocketPhrase(a), pkt)
           <=> (a.cgroup # NoCgroup => CgroupWithin(pkt.cgroup, a.cgroup))
<1>1. SubSeq(a.cgroup, 1, Len(a.cgroup)) = a.cgroup
  BY SubSeqFull
<1>2. CASE a.cgroup = NoCgroup
  BY <1>2 DEF SocketPhrase, SocketMatches
<1>3. CASE a.cgroup # NoCgroup
  <2>1. SocketPhrase(a) = <<"level", Len(a.cgroup), a.cgroup>>
    BY <1>3 DEF SocketPhrase
  <2>2. SocketPhrase(a) # <<>> /\ SocketPhrase(a)[2] = Len(a.cgroup)
          /\ SocketPhrase(a)[3] = a.cgroup
    BY <2>1, PartsOfThree
  <2> QED BY <1>1, <1>3, <2>2 DEF CgroupWithin, IsPrefix, SocketMatches
<1> QED BY <1>2, <1>3

\* The bases of a rule, by kind.
LEMMA BaseKinds ==
  ASSUME NEW r, NEW b \in Bases(r)
  PROVE  \/ b.kind = "any"
         \/ /\ b.kind = "prefix"
            /\ [fam |-> b.fam, bits |-> b.bits]
                 \in {[fam |-> p.fam, bits |-> p.bits] : p \in r.prefixes}
         \/ b.kind = "set" /\ b.fam \in Families
  BY DEF Bases, AnyBase

\* The address phrase asks for what the payload and lookup expressions ask.
LEMMA AddressLine ==
  ASSUME NEW r, NEW a, a.base \in Bases(r), NEW pkt, pkt.ip.fam \in Families, NEW elems
  PROVE  AddressMatches(AddressPhrase(a), pkt, elems) <=> MatchesHost(a, pkt, elems)
<1> DEFINE phrase == AddressPhrase(a)
<1>1. CASE a.base.kind = "any"
  <2>1. phrase = <<>>
    BY <1>1 DEF AddressPhrase
  <2> QED BY <1>1, <2>1 DEF MatchesHost, AddressMatches
<1>2. CASE a.base.kind = "prefix"
  <2>1. phrase = <<FamilyWord(a.base.fam), "daddr", a.base>>
    BY <1>2 DEF AddressPhrase
  <2>2. /\ phrase # <<>> /\ phrase[1] = FamilyWord(a.base.fam)
        /\ phrase[2] = "daddr" /\ phrase[3] = a.base
    BY <2>1, PartsOfThree
  <2>3. PrefixContains(a.base, pkt.ip) => FamilyWord(a.base.fam) = FamilyWord(pkt.ip.fam)
    BY DEF PrefixContains
  <2>4. MatchesHost(a, pkt, elems) <=> PrefixContains(a.base, pkt.ip)
    BY <1>2 DEF MatchesHost
  <2> HIDE DEF phrase
  <2> QED BY <2>2, <2>3, <2>4 DEF phrase, AddressMatches
<1>3. CASE a.base.kind = "set"
  <2> DEFINE key == <<a.rule, a.base.fam>>
  <2>1. phrase = <<FamilyWord(a.base.fam), "daddr @", key>>
    BY <1>3 DEF AddressPhrase
  <2>2. FamilyWord(a.base.fam) = FamilyWord(pkt.ip.fam) <=> a.base.fam = pkt.ip.fam
    BY <1>3, BaseKinds DEF FamilyWord, Families
  <2>3. MatchesHost(a, pkt, elems) <=> a.base.fam = pkt.ip.fam /\ elems[key][pkt.ip] > 0
    BY <1>3 DEF MatchesHost
  <2> HIDE DEF phrase, key
  <2>4. /\ phrase # <<>> /\ phrase[1] = FamilyWord(a.base.fam)
        /\ phrase[2] = "daddr @" /\ phrase[3] = key
    BY <2>1, PartsOfThree
  <2> QED BY <2>2, <2>3, <2>4 DEF phrase, AddressMatches
<1> QED BY <1>1, <1>2, <1>3, BaseKinds

\* The transport phrase asks for the same protocol and ports.
LEMMA TransportLine ==
  ASSUME NEW rules \in Seq(Rule), NEW a \in Atoms(rules), NEW c \in Connections
  PROVE  TransportMatches(TransportPhrase(a), PacketOf(c)) <=> MatchesL4(a, PacketOf(c))
<1>0. a.proto \in {"", "tcp", "udp"} /\ PacketOf(c).proto \in {"tcp", "udp"}
  BY AtomOfRule, PacketTypes
<1> DEFINE pkt    == PacketOf(c)
           phrase == TransportPhrase(a)
           both   == {"tcp", "udp"}
           one    == {a.proto}
           port   == a.port
<1>1. CASE a.proto # "" /\ port.hi # 0
  <2>1. phrase = <<"dport", one, port>>
    BY <1>1 DEF TransportPhrase
  <2>2. MatchesL4(a, pkt) <=> pkt.proto \in one /\ InRange(pkt.port, port)
    BY <1>0, <1>1 DEF MatchesL4
  <2> HIDE DEF phrase, one, port
  <2>3. phrase # <<>> /\ phrase[1] = "dport" /\ phrase[2] = one /\ phrase[3] = port
    BY <2>1, PartsOfThree
  <2> QED BY <2>2, <2>3 DEF phrase, TransportMatches
<1>2. CASE a.proto # "" /\ port.hi = 0
  <2>1. phrase = <<"l4proto", one, AnyPort>>
    BY <1>2 DEF TransportPhrase
  <2>2. MatchesL4(a, pkt) <=> pkt.proto \in one
    BY <1>0, <1>2 DEF MatchesL4
  <2> HIDE DEF phrase, one, port
  <2>3. phrase # <<>> /\ phrase[1] = "l4proto" /\ phrase[2] = one
    BY <2>1, PartsOfThree
  <2> QED BY <2>2, <2>3 DEF phrase, TransportMatches
<1>3. CASE a.proto = "" /\ port.hi # 0
  <2>1. phrase = <<"th dport", both, port>>
    BY <1>3 DEF TransportPhrase
  <2>2. MatchesL4(a, pkt) <=> pkt.proto \in both /\ InRange(pkt.port, port)
    BY <1>0, <1>3 DEF MatchesL4
  <2> HIDE DEF phrase, both, port
  <2>3. phrase # <<>> /\ phrase[1] = "th dport" /\ phrase[2] = both /\ phrase[3] = port
    BY <2>1, PartsOfThree
  <2> QED BY <2>2, <2>3 DEF phrase, TransportMatches
<1>4. CASE a.proto = "" /\ port.hi = 0
  <2>1. phrase = <<>>
    BY <1>4 DEF TransportPhrase
  <2>2. MatchesL4(a, pkt)
    BY <1>0, <1>4 DEF MatchesL4
  <2> QED BY <2>1, <2>2 DEF TransportMatches
<1> QED BY <1>0, <1>1, <1>2, <1>3, <1>4

\* The atoms that match a packet of a chain.
Matched(rules, pkt, elems) ==
  {a \in Atoms(rules) :
     /\ InChain(a, pkt.hook)
     /\ a.cgroup # NoCgroup => CgroupWithin(pkt.cgroup, a.cgroup)
     /\ MatchesHost(a, pkt, elems)
     /\ MatchesL4(a, pkt)}

\* The kernel's hits are those atoms.
LEMMA HitsAreMatched ==
  ASSUME NEW rules \in Seq(Rule), NEW c \in Connections
  PROVE  Hits(TableOf(rules), PacketOf(c), PathIds(PacketOf(c).cgroup))
           = {[atom |-> a, id |-> a.cgroup] :
                a \in Matched(rules, PacketOf(c), TableOf(rules).elems)}
<1> DEFINE pkt == PacketOf(c)
           elems == TableOf(rules).elems
           ids == PathIds(pkt.cgroup)
<1>1. TableOf(rules).loaded = {[atom |-> a, id |-> a.cgroup] : a \in Atoms(rules)}
  BY DEF TableOf
<1>2. \A a \in Atoms(rules) :
        MatchesCgroup(a, a.cgroup, pkt, ids)
          <=> (a.cgroup # NoCgroup => CgroupWithin(pkt.cgroup, a.cgroup))
  BY AtomOfRule, PacketTypes, SocketIsWithin
<1>3. Hits(TableOf(rules), pkt, ids)
        = {e \in TableOf(rules).loaded :
             /\ InChain(e.atom, pkt.hook)
             /\ MatchesCgroup(e.atom, e.id, pkt, ids)
             /\ MatchesHost(e.atom, pkt, elems)
             /\ MatchesL4(e.atom, pkt)}
  BY DEF Hits
<1> HIDE DEF pkt, elems, ids
<1> QED BY <1>1, <1>2, <1>3 DEF Matched, pkt, elems, ids

\* A line of a chain matches what its atom matches.
LEMMA LineIsAtom ==
  ASSUME NEW rules \in Seq(Rule), NEW a \in Atoms(rules), NEW c \in Connections, NEW elems
  PROVE  LineMatches(TextOf(a), PacketOf(c), elems)
           <=> /\ a.cgroup # NoCgroup => CgroupWithin(PacketOf(c).cgroup, a.cgroup)
               /\ MatchesHost(a, PacketOf(c), elems)
               /\ MatchesL4(a, PacketOf(c))
<1> DEFINE pkt == PacketOf(c)
           line == TextOf(a)
<1>1. /\ line.socket = SocketPhrase(a) /\ line.address = AddressPhrase(a)
      /\ line.transport = TransportPhrase(a)
  BY DEF TextOf
<1>2. /\ a.cgroup \in Seq(STRING) /\ a.proto \in {"", "tcp", "udp"}
      /\ \E r : a.base \in Bases(r)
  BY AtomOfRule
<1>3. pkt.cgroup \in Seq(STRING) /\ pkt.proto \in {"tcp", "udp"} /\ pkt.ip.fam \in Families
  BY PacketTypes
<1> HIDE DEF pkt, line
<1>4. SocketMatches(line.socket, pkt) <=> (a.cgroup # NoCgroup => CgroupWithin(pkt.cgroup, a.cgroup))
  BY <1>1, <1>2, <1>3, SocketLine
<1>5. AddressMatches(line.address, pkt, elems) <=> MatchesHost(a, pkt, elems)
  BY <1>1, <1>2, <1>3, AddressLine
<1>6. TransportMatches(line.transport, pkt) <=> MatchesL4(a, pkt)
  BY <1>1, TransportLine DEF pkt
<1> QED BY <1>4, <1>5, <1>6 DEF LineMatches, pkt, line

----------------------------------------------------------------------------
(* The rule that decides.                                                  *)

MatchedRules(rules, c) == {a.rule : a \in Matched(rules, PacketOf(c), TableOf(rules).elems)}

\* What matches are atoms, and their rules are indexes.
LEMMA MatchedTypes ==
  ASSUME NEW rules \in Seq(Rule), NEW c \in Connections
  PROVE  /\ Matched(rules, PacketOf(c), TableOf(rules).elems) \subseteq Atoms(rules)
         /\ MatchedRules(rules, c) \in SUBSET Nat
         /\ MatchedRules(rules, c) \subseteq DOMAIN rules
<1>1. Matched(rules, PacketOf(c), TableOf(rules).elems) \subseteq Atoms(rules)
  BY DEF Matched
<1> QED BY <1>1, AtomOfRule DEF MatchedRules

KernelOf(rules, default, c) ==
  Filter(TableOf(rules), default, PacketOf(c), PathIds(PacketOf(c).cgroup))

\* The chain decides by the least rule with an atom that matches.
LEMMA FilterByRule ==
  ASSUME NEW rules \in Seq(Rule), NEW default, NEW c \in Connections, ~ PreAccepted(PacketOf(c))
  PROVE  KernelOf(rules, default, c) =
           IF MatchedRules(rules, c) = {} THEN [verdict |-> default, rule |-> 0]
           ELSE [verdict |-> rules[Min(MatchedRules(rules, c))].verdict,
                 rule |-> Min(MatchedRules(rules, c))]
<1> DEFINE matched == Matched(rules, PacketOf(c), TableOf(rules).elems)
           hits    == Hits(TableOf(rules), PacketOf(c), PathIds(PacketOf(c).cgroup))
           indexes == MatchedRules(rules, c)
<1>1. hits = {[atom |-> a, id |-> a.cgroup] : a \in matched}
  BY HitsAreMatched
<1>2. TableOf(rules).forward
  BY DEF TableOf
<1>3. indexes = {a.rule : a \in matched}
  BY DEF MatchedRules
<1>4. indexes \in SUBSET Nat /\ matched \subseteq Atoms(rules)
  BY MatchedTypes
<1>5. KernelOf(rules, default, c) =
        IF hits = {} THEN [verdict |-> default, rule |-> 0]
        ELSE [verdict |-> FirstHit(hits).atom.verdict, rule |-> FirstHit(hits).atom.rule]
  BY <1>2 DEF KernelOf, Filter
<1> HIDE DEF matched, hits, indexes
<1>6. CASE matched = {}
  <2>1. hits = {} /\ indexes = {}
    BY <1>1, <1>3, <1>6
  <2> QED BY <1>5, <2>1 DEF indexes
<1>7. CASE matched # {}
  <2>1. hits # {} /\ indexes # {}
    BY <1>1, <1>3, <1>7
  <2>2. Min(indexes) \in indexes /\ \A k \in indexes : Min(indexes) <= k
    BY <1>4, <2>1, MinIsLeast
  <2>3. PICK a \in matched : a.rule = Min(indexes)
    BY <1>3, <2>2
  <2>4. \E e \in hits : \A f \in hits : e.atom.rule <= f.atom.rule
    <3>1. [atom |-> a, id |-> a.cgroup] \in hits
      BY <1>1
    <3>2. \A f \in hits : f.atom.rule \in indexes
      BY <1>1, <1>3
    <3>3. \A f \in hits : a.rule <= f.atom.rule
      BY <2>2, <2>3, <3>2
    <3> QED BY <3>1, <3>3
  <2>5. FirstHit(hits) \in hits /\ \A f \in hits : FirstHit(hits).atom.rule <= f.atom.rule
    BY <2>4 DEF FirstHit
  <2>6. PICK b \in matched : FirstHit(hits) = [atom |-> b, id |-> b.cgroup]
    BY <1>1, <2>5
  <2>7. b.rule = Min(indexes)
    <3>1. b.rule \in indexes /\ b.rule \in Nat /\ Min(indexes) \in Nat
      BY <1>3, <1>4, <2>2
    <3>2. [atom |-> a, id |-> a.cgroup] \in hits
      BY <1>1
    <3>3. b.rule <= a.rule
      BY <2>5, <2>6, <3>2
    <3> QED BY <2>2, <2>3, <3>1, <3>3
  <2>8. b.verdict = rules[b.rule].verdict
    BY <1>4, AtomOfRule
  <2> QED BY <1>5, <2>1, <2>6, <2>7, <2>8 DEF indexes
<1> QED BY <1>6, <1>7

TextOfLoaded(rules, default, c) ==
  TextVerdict(Text(rules, default, TRUE), PacketOf(c), TableOf(rules).elems)

LastLine(rules) ==
  [rule |-> Len(rules) + 1, socket |-> <<>>, address |-> <<>>, transport |-> <<>>, accept |-> FALSE]

\* The lines of a chain that match a packet: those of the atoms that match, and
\* the last when the default is deny.
LEMMA LinesAreMatched ==
  ASSUME NEW rules \in Seq(Rule), NEW default, NEW c \in Connections
  PROVE  {l \in ChainText(rules, default, PacketOf(c).hook) :
            LineMatches(l, PacketOf(c), TableOf(rules).elems)}
           = {TextOf(a) : a \in Matched(rules, PacketOf(c), TableOf(rules).elems)}
               \cup IF default = "deny" THEN {LastLine(rules)} ELSE {}
<1> DEFINE pkt   == PacketOf(c)
           elems == TableOf(rules).elems
           inChain == {b \in Atoms(rules) : InChain(b, pkt.hook)}
           tail  == IF default = "deny" THEN {LastLine(rules)} ELSE {}
<1>1. ChainText(rules, default, pkt.hook) = {TextOf(a) : a \in inChain} \cup tail
  BY DEF ChainText, LastLine
<1>2. LineMatches(LastLine(rules), pkt, elems)
  BY DEF LastLine, LineMatches, SocketMatches, AddressMatches, TransportMatches
<1>3. \A a \in inChain : LineMatches(TextOf(a), pkt, elems) <=> a \in Matched(rules, pkt, elems)
  <2> SUFFICES ASSUME NEW a \in inChain
               PROVE  LineMatches(TextOf(a), pkt, elems) <=> a \in Matched(rules, pkt, elems)
    OBVIOUS
  <2>1. a \in Atoms(rules) /\ InChain(a, pkt.hook)
    OBVIOUS
  <2> HIDE DEF pkt, elems, inChain
  <2>2. LineMatches(TextOf(a), pkt, elems)
          <=> (a.cgroup # NoCgroup => CgroupWithin(pkt.cgroup, a.cgroup))
              /\ MatchesHost(a, pkt, elems) /\ MatchesL4(a, pkt)
    BY <2>1, LineIsAtom DEF pkt
  <2> QED BY <2>1, <2>2 DEF Matched
<1>4. \A a \in Matched(rules, pkt, elems) : a \in inChain
  BY DEF Matched
<1>5. \A l \in tail : LineMatches(l, pkt, elems)
  BY <1>2
<1> HIDE DEF pkt, elems, inChain, tail
<1>6. {l \in ChainText(rules, default, pkt.hook) : LineMatches(l, pkt, elems)}
        = {TextOf(a) : a \in Matched(rules, pkt, elems)} \cup tail
  BY <1>1, <1>3, <1>4, <1>5
<1> QED BY <1>6 DEF pkt, elems, tail

\* nft, reading the text, decides by that rule too.
LEMMA TextByRule ==
  ASSUME NEW rules \in Seq(Rule), NEW default \in Verdicts, NEW c \in Connections
  PROVE  TextOfLoaded(rules, default, c) =
           IF MatchedRules(rules, c) = {} THEN IF default = "deny" THEN "reject" ELSE "accept"
           ELSE IF rules[Min(MatchedRules(rules, c))].verdict = "allow" THEN "accept" ELSE "reject"
<1> DEFINE pkt     == PacketOf(c)
           matched == Matched(rules, pkt, TableOf(rules).elems)
           text    == Text(rules, default, TRUE)
           lines   == {l \in ChainText(rules, default, pkt.hook) :
                         LineMatches(l, pkt, TableOf(rules).elems)}
           tail    == IF default = "deny" THEN {LastLine(rules)} ELSE {}
           first   == CHOOSE l \in lines : \A k \in lines : l.rule <= k.rule
           indexes == MatchedRules(rules, c)
<1>1. lines = {TextOf(a) : a \in matched} \cup tail
  BY LinesAreMatched
<1>2. /\ text.policy = IF default = "deny" THEN "drop" ELSE "accept"
      /\ pkt.hook \in DOMAIN text.chains
      /\ text.chains[pkt.hook] = ChainText(rules, default, pkt.hook)
  BY PacketTypes DEF Text
<1>3. TextOfLoaded(rules, default, c) =
        IF lines = {} THEN text.policy ELSE IF first.accept THEN "accept" ELSE "reject"
  BY <1>2 DEF TextOfLoaded, TextVerdict
<1>4. indexes = {a.rule : a \in matched}
  BY DEF MatchedRules
<1>5. indexes \in SUBSET Nat /\ indexes \subseteq DOMAIN rules /\ matched \subseteq Atoms(rules)
  BY MatchedTypes
<1>6. Len(rules) \in Nat /\ DOMAIN rules = 1..Len(rules)
  BY LenProperties
<1>7. \A a \in matched : TextOf(a).rule = a.rule /\ (TextOf(a).accept <=> a.verdict = "allow")
  BY DEF TextOf
<1>8. LastLine(rules).rule = Len(rules) + 1 /\ ~ LastLine(rules).accept
  BY DEF LastLine
<1> HIDE DEF matched, text, lines, tail, indexes
<1>9. CASE matched = {}
  <2>1. indexes = {} /\ lines = tail
    BY <1>1, <1>4, <1>9
  <2>2. CASE default = "deny"
    <3>1. lines = {LastLine(rules)}
      BY <2>1, <2>2 DEF tail
    <3>2. first = LastLine(rules)
      BY <1>6, <1>8, <3>1
    <3> HIDE DEF first
    <3> QED BY <1>3, <1>8, <2>1, <2>2, <3>1, <3>2 DEF indexes
  <2>3. CASE default # "deny"
    <3>1. lines = {} /\ text.policy = "accept"
      BY <1>2, <2>1, <2>3 DEF tail
    <3> HIDE DEF first
    <3> QED BY <1>3, <2>1, <2>3, <3>1 DEF indexes
  <2> QED BY <2>2, <2>3
<1>10. CASE matched # {}
  <2>1. indexes # {} /\ lines # {}
    BY <1>1, <1>4, <1>10
  <2>2. Min(indexes) \in indexes /\ \A k \in indexes : Min(indexes) <= k
    BY <1>5, <2>1, MinIsLeast
  <2>3. PICK a \in matched : a.rule = Min(indexes)
    BY <1>4, <2>2
  <2>4. a.rule \in 1..Len(rules)
    BY <1>5, <1>6, <2>2, <2>3
  <2>5. \A k \in lines : k.rule \in indexes \/ k = LastLine(rules)
    BY <1>1, <1>4, <1>7 DEF tail
  <2>6. TextOf(a) \in lines /\ \A k \in lines : TextOf(a).rule <= k.rule
    <3>1. TextOf(a) \in lines
      BY <1>1
    <3>2. \A k \in indexes : a.rule <= k
      BY <2>2, <2>3
    <3>3. a.rule <= LastLine(rules).rule
      BY <1>6, <1>8, <2>4
    <3>4. \A k \in lines : a.rule <= k.rule
      BY <2>5, <3>2, <3>3
    <3> QED BY <1>7, <3>1, <3>4
  <2>7. first \in lines /\ \A k \in lines : first.rule <= k.rule
    BY <2>6
  <2> HIDE DEF first
  <2>8. first # LastLine(rules)
    BY <1>6, <1>7, <1>8, <2>4, <2>6, <2>7
  <2>9. PICK b \in matched : first = TextOf(b)
    BY <1>1, <2>7, <2>8 DEF tail
  <2>10. b.rule = Min(indexes)
    <3>1. b.rule \in indexes /\ b.rule \in Nat /\ Min(indexes) \in Nat
      BY <1>4, <1>5, <2>2
    <3>2. b.rule <= a.rule
      BY <1>7, <2>6, <2>7, <2>9
    <3> QED BY <2>2, <2>3, <3>1, <3>2
  <2>11. b.verdict = rules[b.rule].verdict
    BY <1>5, AtomOfRule
  <2>12. first.accept <=> rules[Min(indexes)].verdict = "allow"
    BY <1>7, <2>9, <2>10, <2>11
  <2> QED BY <1>3, <2>1, <2>12 DEF indexes
<1> QED BY <1>9, <1>10

----------------------------------------------------------------------------
(* Evaluate.                                                               *)

\* An address is in the sets of a rule when the name it was answered for is one
\* the rule covers.
LEMMA SetHolds ==
  ASSUME NEW rules \in Seq(Rule), NEW i \in DOMAIN rules, HasDomains(rules[i]),
         NEW c \in Connections
  PROVE  TableOf(rules).elems[<<i, Unmap(c.ip).fam>>][Unmap(c.ip)] > 0
           <=> NormalizeDomain(c.name) # NoName /\ CoversName(rules[i], NormalizeDomain(c.name))
<1> DEFINE ip == Unmap(c.ip)
           s  == <<i, ip.fam>>
<1>1. ip.fam \in Families
  BY PacketTypes
<1>2. s \in PlanSets(rules)
  BY <1>1 DEF PlanSets
<1>3. TableOf(rules).elems[s][ip] = IF Fed(rules, s, ip) THEN 1 ELSE 0
  BY <1>2 DEF TableOf
<1>4. \A p \in Resolves : Unmap(p[2]) = ip => SetFor(i, p[2]) = s
  BY <1>1 DEF SetFor, Families
<1>5. \A p \in Resolves : \A k \in DOMAIN rules : SetFor(k, p[2]) = s => k = i
  BY DEF SetFor
<1>6. Fed(rules, s, ip)
        <=> \E p \in Resolves : Unmap(p[2]) = ip /\ CoversName(rules[i], NormalizeDomain(p[1]))
  BY <1>4, <1>5 DEF Fed, DomainRules
<1>7. {p[1] : p \in {q \in Resolves : Unmap(q[2]) = ip}} = IF c.name = NoName THEN {} ELSE {c.name}
  BY ConnectionsAssumption
<1>8. CASE c.name = NoName
  <2>1. NormalizeDomain(c.name) = NoName
    BY <1>8 DEF NormalizeDomain, NoName
  <2>2. ~ \E p \in Resolves : Unmap(p[2]) = ip
    BY <1>7, <1>8
  <2> QED BY <1>3, <1>6, <2>1, <2>2
<1>9. CASE c.name # NoName
  <2>1. PICK p \in Resolves : Unmap(p[2]) = ip /\ p[1] = c.name
    BY <1>7, <1>9
  <2>2. \A q \in Resolves : Unmap(q[2]) = ip => q[1] = c.name
    BY <1>7, <1>9
  <2>3. NormalizeDomain(c.name) # NoName
    BY <2>1, ResolvesAssumption
  <2>4. Fed(rules, s, ip) <=> CoversName(rules[i], NormalizeDomain(c.name))
    BY <1>6, <2>1, <2>2
  <2> QED BY <1>3, <2>3, <2>4
<1> QED BY <1>8, <1>9

\* A port range of a rule does not read as no range.
LEMMA PortsAreNoZero ==
  ASSUME NEW r \in Rule, NEW p \in r.ports
  PROVE  p.hi # 0
<1>1. p \in [lo : Nat, hi : Nat] /\ GoodPorts(p)
  BY DEF Rule
<1>2. p.lo \in Nat /\ p.hi \in Nat /\ 1 <= p.lo /\ p.lo <= p.hi
  BY <1>1 DEF GoodPorts
<1> QED BY <1>2

\* Within no cgroup is within none that has a name.
LEMMA NowhereIsNotWithin ==
  ASSUME NEW path \in Seq(STRING), path # NoCgroup
  PROVE  ~ CgroupWithin(NoCgroup, path)
<1>1. Len(path) \in Nat /\ Len(path) # 0 /\ Len(NoCgroup) = 0
  BY EmptySeq DEF NoCgroup
<1> QED BY <1>1 DEF CgroupWithin, IsPrefix

\* An atom that matches is of a rule that Evaluate matches.
LEMMA MatchedIsMatching ==
  ASSUME NEW rules \in Seq(Rule), NEW c \in Connections,
         NEW a \in Matched(rules, PacketOf(c), TableOf(rules).elems)
  PROVE  Match(rules[a.rule], DestOf(c))
<1> DEFINE r == rules[a.rule]
           pkt == PacketOf(c)
           d == DestOf(c)
<1>1. /\ a \in Atoms(rules)
      /\ a.cgroup # NoCgroup => CgroupWithin(pkt.cgroup, a.cgroup)
      /\ MatchesHost(a, pkt, TableOf(rules).elems) /\ MatchesL4(a, pkt)
  BY DEF Matched
<1>2. /\ a.rule \in DOMAIN rules /\ r \in Rule /\ a.proto = r.proto /\ a.cgroup = r.cgroup
      /\ a.base \in Bases(r) /\ a.port \in AtomPorts(r)
  BY <1>1, AtomOfRule
<1>3. /\ d.domain = c.name /\ d.ip = c.ip /\ d.port = c.port /\ d.proto = c.proto
      /\ d.cgroup = c.cgroup
  BY DEF DestOf
<1>4. /\ pkt.ip = Unmap(c.ip) /\ pkt.ip.fam \in Families /\ pkt.port = c.port /\ pkt.proto = c.proto
      /\ pkt.cgroup = TrimSlashes(c.cgroup)
  BY PacketTypes
<1>5. r.cgroup # NoCgroup => CgroupWithin(TrimSlashes(d.cgroup), r.cgroup)
  BY <1>1, <1>2, <1>3, <1>4
<1>6. MatchProto(r, d.proto)
  BY <1>1, <1>2, <1>3, <1>4 DEF MatchesL4, MatchProto
<1>7. MatchPorts(r, d.port)
  <2> SUFFICES ASSUME r.ports # {} PROVE \E p \in r.ports : InRange(d.port, p)
    BY DEF MatchPorts
  <2>1. a.port \in r.ports
    BY <1>2 DEF AtomPorts
  <2>2. a.port.hi # 0
    BY <1>2, <2>1, PortsAreNoZero
  <2> QED BY <1>1, <1>3, <1>4, <2>1, <2>2 DEF MatchesL4
<1>8. MatchHost(r, NormalizeDomain(d.domain), d.ip)
  <2>1. CASE AnyHost(r)
    BY <2>1 DEF MatchHost
  <2>2. CASE ~ AnyHost(r) /\ a.base.kind = "prefix"
    <3>1. PICK p \in r.prefixes : a.base.fam = p.fam /\ a.base.bits = p.bits
      BY <1>2, <2>2 DEF Bases, AnyBase
    <3>2. PrefixContains(a.base, pkt.ip)
      BY <1>1, <2>2 DEF MatchesHost
    <3>3. PrefixContains(p, Unmap(d.ip))
      BY <1>3, <1>4, <3>1, <3>2 DEF PrefixContains
    <3>4. d.ip # NoIP
      BY <1>3, ConnectionsAssumption DEF NoIP, Address
    <3> QED BY <3>3, <3>4 DEF MatchHost
  <2>3. CASE ~ AnyHost(r) /\ a.base.kind = "set"
    <3>1. HasDomains(r)
      BY <1>2, <2>3 DEF Bases
    <3>2. TableOf(rules).elems[<<a.rule, pkt.ip.fam>>][pkt.ip] > 0
      BY <1>1, <2>3 DEF MatchesHost
    <3>3. NormalizeDomain(c.name) # NoName /\ CoversName(r, NormalizeDomain(c.name))
      BY <1>2, <1>4, <3>1, <3>2, SetHolds
    <3> QED BY <1>3, <3>3 DEF MatchHost
  <2>4. a.base.kind \in {"prefix", "set"} \/ AnyHost(r)
    BY <1>2 DEF Bases
  <2> QED BY <2>1, <2>2, <2>3, <2>4
<1> QED BY <1>5, <1>6, <1>7, <1>8 DEF Match

\* A rule that Evaluate matches has an atom that matches.
LEMMA MatchingIsMatched ==
  ASSUME NEW rules \in Seq(Rule), NEW c \in Connections, NEW i \in DOMAIN rules,
         Match(rules[i], DestOf(c))
  PROVE  i \in MatchedRules(rules, c)
<1> DEFINE r == rules[i]
           pkt == PacketOf(c)
           elems == TableOf(rules).elems
<1>1. /\ pkt.ip = Unmap(c.ip) /\ pkt.ip.fam \in Families /\ pkt.port = c.port /\ pkt.proto = c.proto
      /\ pkt.cgroup = TrimSlashes(c.cgroup) /\ pkt.hook = c.hook /\ pkt.proto \in {"tcp", "udp"}
  BY PacketTypes
<1>2. r.proto \in {"", "tcp", "udp"} /\ r.cgroup \in Seq(STRING)
  <2>1. r \in Rule
    OBVIOUS
  <2> HIDE DEF r
  <2> QED BY <2>1 DEF Rule
<1>3. /\ r.cgroup # NoCgroup => CgroupWithin(pkt.cgroup, r.cgroup)
      /\ r.proto # "" => pkt.proto = r.proto
      /\ r.ports = {} \/ \E p \in r.ports : InRange(pkt.port, p)
  BY <1>1 DEF Match, MatchProto, MatchPorts, DestOf
<1>4. MatchHost(r, NormalizeDomain(c.name), c.ip)
  BY DEF Match, DestOf
<1>5. PICK p \in AtomPorts(r) : p.hi # 0 => InRange(pkt.port, p)
  BY <1>3 DEF AtomPorts, AnyPort
<1>6. PICK b \in Bases(r) :
        \/ b.kind = "any"
        \/ b.kind = "prefix" /\ PrefixContains(b, pkt.ip)
        \/ b.kind = "set" /\ b.fam = pkt.ip.fam /\ elems[<<i, b.fam>>][pkt.ip] > 0
  <2>1. CASE AnyHost(r)
    BY <2>1 DEF Bases, AnyBase
  <2>2. CASE ~ AnyHost(r) /\ NormalizeDomain(c.name) # NoName
               /\ CoversName(r, NormalizeDomain(c.name))
    <3> DEFINE b == [kind |-> "set", fam |-> pkt.ip.fam, bits |-> <<>>]
    <3>1. HasDomains(r)
      BY <2>2 DEF CoversName, HasDomains
    <3>2. b \in Bases(r)
      BY <1>1, <2>2, <3>1 DEF Bases
    <3>3. elems[<<i, pkt.ip.fam>>][pkt.ip] > 0
      BY <1>1, <2>2, <3>1, SetHolds
    <3> QED BY <3>2, <3>3
  <2>3. CASE ~ AnyHost(r) /\ \E pfx \in r.prefixes : PrefixContains(pfx, Unmap(c.ip))
    <3>1. PICK pfx \in r.prefixes : PrefixContains(pfx, pkt.ip)
      BY <1>1, <2>3
    <3> DEFINE b == [kind |-> "prefix", fam |-> pfx.fam, bits |-> pfx.bits]
    <3>2. b \in Bases(r)
      BY <2>3 DEF Bases
    <3>3. PrefixContains(b, pkt.ip)
      BY <3>1 DEF PrefixContains
    <3> QED BY <3>2, <3>3
  <2> QED BY <1>4, <2>1, <2>2, <2>3 DEF MatchHost
<1> DEFINE a == [rule |-> i, base |-> b, port |-> p, proto |-> r.proto, cgroup |-> r.cgroup,
                 verdict |-> r.verdict]
<1>7. a \in Atoms(rules)
  BY DEF Atoms, AtomsOf
<1>8. InChain(a, pkt.hook)
  <2> SUFFICES ASSUME pkt.hook = "forward", r.cgroup # NoCgroup PROVE FALSE
    BY DEF InChain
  <2>1. c.cgroup = NoCgroup
    BY <1>1, ConnectionsAssumption
  <2>2. pkt.cgroup = NoCgroup
    BY <1>1, <2>1 DEF TrimSlashes, NoCgroup
  <2> QED BY <1>2, <1>3, <2>2, NowhereIsNotWithin
<1>9. MatchesHost(a, pkt, elems)
  BY <1>6 DEF MatchesHost
<1>10. MatchesL4(a, pkt)
  BY <1>1, <1>3, <1>5 DEF MatchesL4
<1>11. a.cgroup # NoCgroup => CgroupWithin(pkt.cgroup, a.cgroup)
  BY <1>3
<1>12. a \in Matched(rules, pkt, elems)
  BY <1>7, <1>8, <1>9, <1>10, <1>11 DEF Matched
<1>13. a.rule = i
  OBVIOUS
<1> HIDE DEF a
<1> QED BY <1>12, <1>13 DEF MatchedRules

\* The rules with an atom that matches are those that Evaluate matches.
LEMMA MatchedRulesAreMatching ==
  ASSUME NEW rules \in Seq(Rule), NEW c \in Connections
  PROVE  MatchedRules(rules, c) = Matching(rules, DestOf(c))
<1>1. \A a \in Matched(rules, PacketOf(c), TableOf(rules).elems) :
        a.rule \in DOMAIN rules /\ Match(rules[a.rule], DestOf(c))
  BY MatchedIsMatching, MatchedTypes, AtomOfRule
<1>2. \A i \in DOMAIN rules : Match(rules[i], DestOf(c)) => i \in MatchedRules(rules, c)
  BY MatchingIsMatched
<1>3. \A k \in MatchedRules(rules, c) : k \in DOMAIN rules /\ Match(rules[k], DestOf(c))
  BY <1>1 DEF MatchedRules
<1> QED BY <1>2, <1>3 DEF Matching

----------------------------------------------------------------------------
(* The file as it is read.                                                 *)

\* A label of a path that is not empty is a part of it.
Part(path, i) == path[i] # ""

Parts(path) == {i \in DOMAIN path : Part(path, i)}

\* Nothing in a path is empty.
Whole(path) == \A i \in DOMAIN path : Part(path, i)

\* The parts of a path begin at a and end at b.
Spans(path, a, b) ==
  /\ a \in DOMAIN path /\ b \in DOMAIN path /\ a <= b /\ Part(path, a) /\ Part(path, b)
  /\ \A i \in DOMAIN path : Part(path, i) => a <= i /\ i <= b

\* The definitions, in these terms: trimming.
LEMMA TrimByParts ==
  \A path : TrimSlashes(path) =
    IF Parts(path) = {} THEN NoCgroup ELSE SubSeq(path, Min(Parts(path)), Max(Parts(path)))
BY Zenon DEF TrimSlashes, Parts, Part

\* The place of a part.
LEMMA PlaceByParts ==
  \A path, i : Place(path, i) = Cardinality({k \in 1..i : Part(path, k)})
BY Zenon DEF Place, Part

\* What is below what.
LEMMA BelowByParts ==
  ASSUME NEW child, NEW parent
  PROVE  Below(child, parent) <=>
           \A i \in DOMAIN parent : Part(parent, i) =>
             \E j \in DOMAIN child : child[j] = parent[i] /\ Place(child, j) = Place(parent, i)
BY Zenon DEF Below, Part

\* Being a part is a matter of the label alone.
LEMMA PartByLabel ==
  ASSUME NEW p, NEW i, NEW q, NEW j, p[i] = q[j]
  PROVE  Part(p, i) <=> Part(q, j)
BY Zenon DEF Part

\* A path without an empty label has parts only.
LEMMA NoEmptyIsWhole ==
  ASSUME NEW path, "" \notin Range(path)
  PROVE  Whole(path)
BY Zenon DEF Whole, Part, Range

\* Trimmed, a path is what stands between its first part and its last.
LEMMA TrimmedSpan ==
  ASSUME NEW path \in Seq(STRING)
  PROVE  \/ TrimSlashes(path) = NoCgroup /\ \A i \in DOMAIN path : ~ Part(path, i)
         \/ \E a, b \in Nat :
              /\ Spans(path, a, b) /\ Len(TrimSlashes(path)) = (b - a) + 1
              /\ \A i \in 1..((b - a) + 1) : TrimSlashes(path)[i] = path[(a - 1) + i]
<1> DEFINE named == Parts(path)
<1>1. CASE named = {}
  BY <1>1, TrimByParts, Zenon DEF Parts
<1>2. CASE named # {}
  <2> DEFINE a == Min(named)
             b == Max(named)
             t == SubSeq(path, a, b)
  <2>1. Len(path) \in Nat /\ DOMAIN path = 1..Len(path)
    BY LenProperties
  <2>2. named \subseteq DOMAIN path /\ TrimSlashes(path) = t
    BY <1>2, TrimByParts, Zenon DEF Parts
  <2>3. \A i \in named : i \in DOMAIN path /\ Part(path, i)
    BY DEF Parts
  <2>4. \A i \in DOMAIN path : Part(path, i) => i \in named
    BY DEF Parts
  <2> HIDE DEF named
  <2>5. named \in SUBSET Nat /\ named \in SUBSET (0..Len(path))
    BY <2>1, <2>2
  <2>6. a \in named /\ b \in named /\ \A i \in named : a <= i /\ i <= b
    BY <1>2, <2>1, <2>5, MinIsLeast, MaxIsGreatest
  <2> HIDE DEF a, b
  <2>7. a \in 1..Len(path) /\ b \in 1..Len(path) /\ a <= b
    BY <2>1, <2>2, <2>6
  <2>8. Spans(path, a, b)
    <3>1. \A i \in DOMAIN path : Part(path, i) => a <= i /\ i <= b
      BY <2>4, <2>6
    <3> QED BY <2>1, <2>3, <2>6, <2>7, <3>1 DEF Spans
  <2>9. /\ Len(t) = IF a <= b THEN b - a + 1 ELSE 0
        /\ \A i \in 1..(b - a + 1) : t[i] = path[a + i - 1]
    <3>1. \A i \in a..b : path[i] \in STRING
      BY <2>7, ElementOfSeq
    <3> QED BY <2>7, <3>1, SubSeqProperties
  <2>10. \A i \in 1..((b - a) + 1) : a + i - 1 = (a - 1) + i
    BY <2>7
  <2> HIDE DEF t
  <2>11. /\ Len(t) = (b - a) + 1
         /\ \A i \in 1..((b - a) + 1) : t[i] = path[(a - 1) + i]
    BY <2>7, <2>9, <2>10
  <2> QED BY <2>2, <2>7, <2>8, <2>11
<1> QED BY <1>1, <1>2

\* In a path without an empty part, the parts are counted from its first.
LEMMA PlaceInSpan ==
  ASSUME NEW path \in Seq(STRING), NEW a \in Nat, NEW b \in Nat, Spans(path, a, b),
         \A k \in a..b : Part(path, k), NEW i \in a..b
  PROVE  Place(path, i) = (i - a) + 1
<1>1. Len(path) \in Nat /\ DOMAIN path = 1..Len(path)
  BY LenProperties
<1>2. 1 <= a /\ b <= Len(path)
  BY <1>1 DEF Spans
<1>3. {k \in 1..i : Part(path, k)} = a..i
  <2>1. ASSUME NEW k \in 1..i, Part(path, k) PROVE k \in a..i
    <3>1. k \in DOMAIN path
      BY <1>1, <1>2
    <3>2. a <= k
      BY <2>1, <3>1 DEF Spans
    <3> QED BY <3>2
  <2>2. ASSUME NEW k \in a..i PROVE k \in 1..i /\ Part(path, k)
    <3>1. k \in 1..i /\ k \in a..b
      BY <1>2
    <3> QED BY <3>1
  <2> QED BY <2>1, <2>2
<1>4. Cardinality(a..i) = (i - a) + 1
  <2>1. a \in Int /\ i \in Int /\ a <= i
    OBVIOUS
  <2>2. Cardinality(a..i) = IF a > i THEN 0 ELSE i - a + 1
    BY <2>1, FS_Interval
  <2> QED BY <2>1, <2>2
<1> QED BY <1>3, <1>4, PlaceByParts, Zenon

\* A cgroup is below another, read part by part, when its trimmed path begins with
\* the other's.
LEMMA BelowIsWithin ==
  ASSUME NEW child \in Seq(STRING), NEW parent \in Seq(STRING), GoodCgroup(parent),
         Whole(TrimSlashes(child))
  PROVE  Below(child, parent) <=> CgroupWithin(TrimSlashes(child), TrimSlashes(parent))
<1> DEFINE tp == TrimSlashes(parent)
           tc == TrimSlashes(child)
<1>1. tp \in Seq(STRING) /\ tc \in Seq(STRING) /\ tp # NoCgroup
  BY TrimmedIsPath DEF GoodCgroup
<1>2. /\ Len(parent) \in Nat /\ DOMAIN parent = 1..Len(parent)
      /\ Len(child) \in Nat /\ DOMAIN child = 1..Len(child)
      /\ Len(tp) \in Nat /\ DOMAIN tp = 1..Len(tp)
      /\ Len(tc) \in Nat /\ DOMAIN tc = 1..Len(tc)
  BY <1>1, LenProperties
<1>3. PICK a, b \in Nat : /\ Spans(parent, a, b) /\ Len(tp) = (b - a) + 1
                          /\ \A i \in 1..((b - a) + 1) : tp[i] = parent[(a - 1) + i]
  BY <1>1, TrimmedSpan
<1>4. Whole(tp)
  <2>1. "" \notin Range(tp)
    BY Zenon DEF GoodCgroup
  <2> QED BY <2>1, NoEmptyIsWhole, Zenon
<1>5. (\A i \in DOMAIN tp : Part(tp, i)) /\ (\A i \in DOMAIN tc : Part(tc, i))
  BY <1>4 DEF Whole
<1>6. CgroupWithin(tc, tp) <=> Len(tp) <= Len(tc) /\ \A i \in 1..Len(tp) : tp[i] = tc[i]
  BY <1>1, PrefixIsPointwise DEF CgroupWithin
<1> HIDE DEF tp, tc
<1>7. \A k \in a..b : /\ (k - a) + 1 \in 1..((b - a) + 1) /\ parent[k] = tp[(k - a) + 1]
                      /\ Part(parent, k)
  <2> SUFFICES ASSUME NEW k \in a..b
               PROVE  /\ (k - a) + 1 \in 1..((b - a) + 1) /\ parent[k] = tp[(k - a) + 1]
                      /\ Part(parent, k)
    OBVIOUS
  <2>1. (k - a) + 1 \in 1..((b - a) + 1) /\ (a - 1) + ((k - a) + 1) = k
    OBVIOUS
  <2>2. parent[k] = tp[(k - a) + 1]
    BY <1>3, <2>1
  <2>3. Part(tp, (k - a) + 1)
    BY <1>2, <1>3, <1>5, <2>1
  <2> QED BY <2>1, <2>2, <2>3, PartByLabel, Zenon
<1>8. \A k \in a..b : k \in DOMAIN parent /\ Place(parent, k) = (k - a) + 1
  <2>1. \A k \in a..b : k \in DOMAIN parent
    BY <1>2, <1>3 DEF Spans
  <2> QED BY <1>3, <1>7, <2>1, PlaceInSpan
<1>9. \A i \in DOMAIN parent : Part(parent, i) => i \in a..b
  BY <1>2, <1>3 DEF Spans
<1>10. CASE tc = NoCgroup
  <2>1. \A i \in DOMAIN child : ~ Part(child, i)
    <3>1. ASSUME NEW c \in Nat, NEW d \in Nat, Spans(child, c, d), Len(tc) = (d - c) + 1
          PROVE  FALSE
      BY <1>10, <3>1 DEF Spans, NoCgroup
    <3> QED BY <3>1, TrimmedSpan DEF tc
  <2>2. a \in DOMAIN parent /\ Part(parent, a) /\ a <= b
    BY <1>3 DEF Spans
  <2>6. \A j \in DOMAIN child : child[j] # parent[a]
    BY <2>1, <2>2, PartByLabel, Zenon
  <2>3. ~ Below(child, parent)
    BY <2>2, <2>6, BelowByParts, Zenon
  <2>4. Len(tc) = 0
    BY <1>10 DEF NoCgroup
  <2>5. ~ (Len(tp) <= Len(tc))
    BY <1>3, <2>2, <2>4
  <2> QED BY <1>6, <2>3, <2>5 DEF tp, tc
<1>11. CASE tc # NoCgroup
  <2>1. PICK c, d \in Nat : /\ Spans(child, c, d) /\ Len(tc) = (d - c) + 1
                            /\ \A i \in 1..((d - c) + 1) : tc[i] = child[(c - 1) + i]
    BY <1>11, TrimmedSpan DEF tc
  <2>2. \A k \in c..d : /\ (k - c) + 1 \in 1..((d - c) + 1) /\ child[k] = tc[(k - c) + 1]
                        /\ Part(child, k)
    <3> SUFFICES ASSUME NEW k \in c..d
                 PROVE  /\ (k - c) + 1 \in 1..((d - c) + 1) /\ child[k] = tc[(k - c) + 1]
                        /\ Part(child, k)
      OBVIOUS
    <3>1. (k - c) + 1 \in 1..((d - c) + 1) /\ (c - 1) + ((k - c) + 1) = k
      OBVIOUS
    <3>2. child[k] = tc[(k - c) + 1]
      BY <2>1, <3>1
    <3>3. Part(tc, (k - c) + 1)
      BY <1>2, <1>5, <2>1, <3>1
    <3> QED BY <3>1, <3>2, <3>3, PartByLabel, Zenon
  <2>3. \A k \in c..d : k \in DOMAIN child /\ Place(child, k) = (k - c) + 1
    <3>1. \A k \in c..d : k \in DOMAIN child
      BY <1>2, <2>1 DEF Spans
    <3> QED BY <2>1, <2>2, <3>1, PlaceInSpan
  <2>4. \A i \in DOMAIN child : Part(child, i) => i \in c..d
    BY <1>2, <2>1 DEF Spans
  <2>5. ASSUME Below(child, parent), NEW i \in 1..Len(tp)
        PROVE  i <= Len(tc) /\ tp[i] = tc[i]
    <3> DEFINE k == (a - 1) + i
    <3>1. k \in a..b /\ (k - a) + 1 = i
      BY <1>2, <1>3
    <3> HIDE DEF k
    <3>2. k \in DOMAIN parent /\ Part(parent, k) /\ parent[k] = tp[i] /\ Place(parent, k) = i
      BY <1>7, <1>8, <3>1
    <3>3. PICK j \in DOMAIN child : child[j] = parent[k] /\ Place(child, j) = Place(parent, k)
      <4>1. \A q \in DOMAIN parent : Part(parent, q) =>
              \E j \in DOMAIN child : child[j] = parent[q] /\ Place(child, j) = Place(parent, q)
        BY <2>5, BelowByParts, Zenon
      <4> QED BY <3>2, <4>1, Zenon
    <3>4. j \in c..d
      <4>1. Part(child, j)
        BY <3>2, <3>3, PartByLabel, Zenon
      <4> QED BY <2>4, <4>1
    <3>5. (j - c) + 1 = i /\ child[j] = tc[i] /\ (j - c) + 1 \in 1..((d - c) + 1)
      BY <2>2, <2>3, <3>2, <3>3, <3>4
    <3> QED BY <2>1, <3>2, <3>3, <3>5
  <2>6. ASSUME Below(child, parent) PROVE Len(tp) <= Len(tc)
    <3>1. Len(tp) \in 1..Len(tp)
      BY <1>2, <1>3 DEF Spans
    <3> QED BY <2>5, <2>6, <3>1
  <2>7. ASSUME Len(tp) <= Len(tc), \A i \in 1..Len(tp) : tp[i] = tc[i],
               NEW k \in DOMAIN parent, Part(parent, k)
        PROVE  \E j \in DOMAIN child : child[j] = parent[k] /\ Place(child, j) = Place(parent, k)
    <3> DEFINE i == (k - a) + 1
               j == (c - 1) + i
    <3>1. k \in a..b
      BY <1>9, <2>7
    <3>2. i \in 1..Len(tp) /\ parent[k] = tp[i] /\ Place(parent, k) = i
      BY <1>3, <1>7, <1>8, <3>1
    <3> HIDE DEF i
    <3>3. i \in 1..Len(tc) /\ tc[i] = tp[i]
      BY <1>2, <2>7, <3>2
    <3>4. j \in c..d /\ (j - c) + 1 = i
      BY <2>1, <3>3
    <3> HIDE DEF j
    <3>5. j \in DOMAIN child /\ child[j] = tc[i] /\ Place(child, j) = i
      BY <2>2, <2>3, <3>4
    <3> QED BY <3>2, <3>3, <3>5
  <2>8. Below(child, parent) <=> Len(tp) <= Len(tc) /\ \A i \in 1..Len(tp) : tp[i] = tc[i]
    BY <2>5, <2>6, <2>7, BelowByParts, Zenon
  <2> QED BY <1>6, <2>8 DEF tp, tc
<1> QED BY <1>10, <1>11
\* The reference strips a dot as the code does.
LEMMA BareIsNormalized == \A labels : Bare(labels) = NormalizeDomain(labels)
  BY Zenon DEF Bare, NormalizeDomain

\* What a pattern is, by its first label.
LEMMA PatternKinds ==
  ASSUME NEW p \in Seq(STRING), IsExact(p) \/ IsWildcard(p), NEW name
  PROVE  /\ IsWildcard(p) <=> ~ IsExact(p)
         /\ IsWildcard(p) => Len(p) > 1
         /\ \A d : Bare(d) = p =>
              (PatternCovers(d, name) <=>
                 IF IsExact(p) THEN name = p
                 ELSE /\ Len(name) >= Len(p)
                      /\ \A k \in 1..(Len(p) - 1) : name[Len(name) - Len(p) + 1 + k] = p[1 + k])
<1>1. p # <<>> => 1 \in DOMAIN p
  BY EmptySeq, LenProperties
<1>2. IsExact(p) => p[1] # "*"
  <2>1. IsExact(p) => p # <<>> /\ "*" \notin Range(p)
    BY Zenon DEF IsExact
  <2>2. \A i \in DOMAIN p : p[i] \in Range(p)
    BY Zenon DEF Range
  <2> QED BY <1>1, <2>1, <2>2, Zenon
<1>3. IsWildcard(p) => Len(p) > 1 /\ p[1] = "*"
  BY Zenon DEF IsWildcard
<1>4. \A d : Bare(d) = p =>
        (PatternCovers(d, name) <=>
           IF p[1] = "*"
           THEN /\ Len(name) >= Len(p)
                /\ \A k \in 1..(Len(p) - 1) : name[Len(name) - Len(p) + 1 + k] = p[1 + k]
           ELSE name = p)
  BY Zenon DEF PatternCovers
<1> QED BY <1>2, <1>3, <1>4, Zenon

\* A pattern of the file covers the names its compiled form does.
LEMMA PatternsCover ==
  ASSUME NEW d \in Seq(STRING), NEW name \in Seq(STRING),
         IsExact(NormalizeDomain(d)) \/ IsWildcard(NormalizeDomain(d))
  PROVE  PatternCovers(d, name)
           <=> \/ IsExact(NormalizeDomain(d)) /\ name = NormalizeDomain(d)
               \/ IsWildcard(NormalizeDomain(d)) /\ IsStrictSuffix(Tail(NormalizeDomain(d)), name)
<1> DEFINE p == NormalizeDomain(d)
           t == Tail(p)
<1>1. p \in Seq(STRING) /\ Bare(d) = p /\ (IsExact(p) \/ IsWildcard(p))
  BY NormalizedIsName, BareIsNormalized
<1> HIDE DEF p
<1>2. /\ IsWildcard(p) <=> ~ IsExact(p)
      /\ IsWildcard(p) => Len(p) > 1
      /\ PatternCovers(d, name) <=>
           IF IsExact(p) THEN name = p
           ELSE /\ Len(name) >= Len(p)
                /\ \A k \in 1..(Len(p) - 1) : name[Len(name) - Len(p) + 1 + k] = p[1 + k]
  BY <1>1, PatternKinds, Zenon
<1>3. ASSUME IsWildcard(p)
      PROVE  IsStrictSuffix(t, name)
               <=> /\ Len(name) >= Len(p)
                   /\ \A k \in 1..(Len(p) - 1) : name[Len(name) - Len(p) + 1 + k] = p[1 + k]
  <2>1. Len(p) \in Nat /\ Len(name) \in Nat /\ Len(p) > 1
    BY <1>1, <1>2, <1>3, LenProperties
  <2>2. p # <<>>
    BY <1>1, <2>1, EmptySeq
  <2>3. t \in Seq(STRING) /\ Len(t) = Len(p) - 1 /\ \A i \in 1..(Len(p) - 1) : t[i] = p[i + 1]
    BY <1>1, <2>2, HeadTailProperties
  <2> HIDE DEF t
  <2>4. IsStrictSuffix(t, name)
          <=> Len(t) < Len(name) /\ \A i \in 1..Len(t) : t[i] = name[(Len(name) - Len(t)) + i]
    BY <2>3, SuffixIsPointwise
  <2>5. \A i \in 1..(Len(p) - 1) :
          /\ (Len(name) - Len(t)) + i = Len(name) - Len(p) + 1 + i
          /\ i + 1 = 1 + i
    BY <2>1, <2>3
  <2>6. (\A i \in 1..Len(t) : t[i] = name[(Len(name) - Len(t)) + i])
          <=> \A k \in 1..(Len(p) - 1) : name[Len(name) - Len(p) + 1 + k] = p[1 + k]
    BY <2>3, <2>5
  <2>7. Len(t) < Len(name) <=> Len(name) >= Len(p)
    BY <2>1, <2>3
  <2> QED BY <2>4, <2>6, <2>7
<1> QED BY <1>1, <1>2, <1>3, Zenon DEF p, t

\* A network of the file holds the addresses its compiled form does.
LEMMA NetsHold ==
  ASSUME NEW pfx, pfx.bits \in Seq({0, 1}), NEW ip, ip.bits \in Seq({0, 1})
  PROVE  SameNet(pfx, ip) <=> PrefixContains(pfx, ip)
<1>1. IsPrefix(pfx.bits, ip.bits)
        <=> /\ Len(pfx.bits) <= Len(ip.bits)
            /\ \A i \in 1..Len(pfx.bits) : pfx.bits[i] = ip.bits[i]
  BY PrefixIsPointwise
<1>2. DOMAIN pfx.bits = 1..Len(pfx.bits)
  BY LenProperties
<1> QED BY <1>1, <1>2 DEF SameNet, PrefixContains

\* A connection's name is one the DNS gave, or none, and its address is one.
LEMMA ConnectionNames ==
  ASSUME NEW c \in Connections
  PROVE  /\ c.name \in Seq(STRING) /\ (c.name = NoName <=> NormalizeDomain(c.name) = NoName)
         /\ NormalizeDomain(c.name) \in Seq(STRING)
         /\ Unmap(c.ip).bits \in Seq({0, 1}) /\ c.ip # NoIP
<1>1. c.name = NoName \/ \E p \in Resolves : c.name = p[1]
  BY ConnectionsAssumption
<1>2. c.name # NoName => c.name \in Seq(STRING) /\ NormalizeDomain(c.name) # NoName
  BY <1>1, ResolvesAssumption, Zenon
<1>3. NoName \in Seq(STRING)
  BY EmptySeq DEF NoName
<1>4. NormalizeDomain(NoName) = NoName
  BY Zenon DEF NormalizeDomain, NoName
<1>5. c.name \in Seq(STRING)
  BY <1>2, <1>3
<1>6. c.ip \in Address
  BY ConnectionsAssumption
<1>7. Unmap(c.ip).bits \in Seq({0, 1}) /\ c.ip # NoIP
  BY <1>6 DEF Address, Unmap, NoIP
<1> QED BY <1>2, <1>4, <1>5, <1>7, NormalizedIsName

\* What the fields of a compiled rule are.
LEMMA CompiledFields ==
  ASSUME NEW r, NEW verdict
  PROVE  LET rule == CompileRule(r, verdict)
             patterns == {NormalizeDomain(d) : d \in r.domains}
         IN  /\ rule.verdict = verdict /\ rule.prefixes = r.cidrs /\ rule.ports = r.ports
             /\ rule.proto = r.proto /\ rule.cgroup = TrimSlashes(r.cgroup)
             /\ rule.exact = {d \in patterns : IsExact(d)}
             /\ rule.suffixes = {Tail(d) : d \in {p \in patterns : IsWildcard(p)}}
  BY DEF CompileRule

\* The hosts a rule of the file names are those its compiled form matches.
LEMMA HostsMatch ==
  ASSUME NEW r \in RuleSyntax, GoodRule(r), NEW verdict, NEW c \in Connections
  PROVE  MatchHost(CompileRule(r, verdict), NormalizeDomain(c.name), c.ip)
           <=> \/ r.domains = {} /\ r.cidrs = {}
               \/ \E d \in r.domains : c.name # NoName /\ PatternCovers(d, Bare(c.name))
               \/ \E pfx \in r.cidrs : SameNet(pfx, Unmap(c.ip))
<1> DEFINE rule == CompileRule(r, verdict)
           patterns == {NormalizeDomain(d) : d \in r.domains}
           name == NormalizeDomain(c.name)
           kind(p) == IsExact(p) \/ IsWildcard(p)
<1>1. /\ rule.prefixes = r.cidrs /\ rule.exact = {d \in patterns : IsExact(d)}
      /\ rule.suffixes = {Tail(d) : d \in {p \in patterns : IsWildcard(p)}}
  BY CompiledFields, Zenon
<1>2. /\ name \in Seq(STRING) /\ (c.name = NoName <=> name = NoName)
      /\ Unmap(c.ip).bits \in Seq({0, 1}) /\ c.ip # NoIP
  BY ConnectionNames
<1>3. \A d \in r.domains : d \in Seq(STRING)
  BY DEF RuleSyntax
<1>4. \A d \in r.domains : kind(NormalizeDomain(d))
  BY Zenon DEF GoodRule
<1>5. \A pfx \in r.cidrs : pfx.bits \in Seq({0, 1})
  BY DEF RuleSyntax
<1> HIDE DEF rule, name
<1>6. AnyHost(rule) <=> r.domains = {} /\ r.cidrs = {}
  <2>1. ASSUME NEW d \in r.domains PROVE rule.exact # {} \/ rule.suffixes # {}
    <3>1. NormalizeDomain(d) \in patterns
      OBVIOUS
    <3>2. CASE IsExact(NormalizeDomain(d))
      BY <1>1, <3>1, <3>2
    <3>3. CASE IsWildcard(NormalizeDomain(d))
      <4>1. Tail(NormalizeDomain(d)) \in rule.suffixes
        BY <1>1, <3>1, <3>3
      <4> QED BY <4>1
    <3> QED BY <1>4, <3>2, <3>3
  <2>2. r.domains = {} => rule.exact = {} /\ rule.suffixes = {}
    BY <1>1
  <2> QED BY <1>1, <2>1, <2>2 DEF AnyHost
<1>7. CoversName(rule, name) <=> \E d \in r.domains : PatternCovers(d, name)
  <2>1. \A d \in r.domains :
          PatternCovers(d, name)
            <=> \/ IsExact(NormalizeDomain(d)) /\ name = NormalizeDomain(d)
                \/ IsWildcard(NormalizeDomain(d))
                   /\ IsStrictSuffix(Tail(NormalizeDomain(d)), name)
    BY <1>2, <1>3, <1>4, PatternsCover, Zenon
  <2>2. name \in rule.exact
          <=> \E d \in r.domains : IsExact(NormalizeDomain(d)) /\ name = NormalizeDomain(d)
    BY <1>1, Zenon
  <2>3. (\E s \in rule.suffixes : IsStrictSuffix(s, name))
          <=> \E d \in r.domains : /\ IsWildcard(NormalizeDomain(d))
                                   /\ IsStrictSuffix(Tail(NormalizeDomain(d)), name)
    BY <1>1, Zenon
  <2> QED BY <2>1, <2>2, <2>3, Zenon DEF CoversName
<1>8. \A pfx \in r.cidrs : SameNet(pfx, Unmap(c.ip)) <=> PrefixContains(pfx, Unmap(c.ip))
  BY <1>2, <1>5, NetsHold
<1>9. Bare(c.name) = name
  BY BareIsNormalized, Zenon DEF name
<1>10. MatchHost(rule, name, c.ip)
         <=> \/ AnyHost(rule)
             \/ name # NoName /\ CoversName(rule, name)
             \/ \E pfx \in rule.prefixes : PrefixContains(pfx, Unmap(c.ip))
  BY <1>2, Zenon DEF MatchHost
<1>11. MatchHost(rule, name, c.ip)
         <=> \/ r.domains = {} /\ r.cidrs = {}
             \/ \E d \in r.domains : c.name # NoName /\ PatternCovers(d, name)
             \/ \E pfx \in r.cidrs : SameNet(pfx, Unmap(c.ip))
  BY <1>1, <1>2, <1>6, <1>7, <1>8, <1>10, Zenon
<1> QED BY <1>9, <1>11, Zenon DEF rule, name

\* A rule applies to a connection, as the file is read, when its compiled form
\* matches (policy.go:149-204, 252-325).
LEMMA AppliesIsMatch ==
  ASSUME NEW r \in RuleSyntax, GoodRule(r), NEW verdict, NEW c \in Connections
  PROVE  Match(CompileRule(r, verdict), DestOf(c)) <=> Applies(r, c)
<1> DEFINE rule == CompileRule(r, verdict)
<1>1. /\ rule.ports = r.ports /\ rule.proto = r.proto /\ rule.cgroup = TrimSlashes(r.cgroup)
  BY CompiledFields, Zenon
<1>2. MatchHost(rule, NormalizeDomain(c.name), c.ip)
        <=> \/ r.domains = {} /\ r.cidrs = {}
            \/ \E d \in r.domains : c.name # NoName /\ PatternCovers(d, Bare(c.name))
            \/ \E pfx \in r.cidrs : SameNet(pfx, Unmap(c.ip))
  BY HostsMatch
<1> HIDE DEF rule
<1>3. MatchPorts(rule, c.port) <=> (r.ports # {} => \E p \in r.ports : c.port \in p.lo..p.hi)
  <2>1. c.port \in Nat /\ \A p \in r.ports : p.lo \in Nat /\ p.hi \in Nat
    BY ConnectionsAssumption DEF RuleSyntax
  <2>2. \A p \in r.ports : c.port \in p.lo..p.hi <=> InRange(c.port, p)
    BY <2>1 DEF InRange
  <2> QED BY <1>1, <2>2, Zenon DEF MatchPorts
<1>4. MatchProto(rule, c.proto) <=> r.proto \in {"", c.proto}
  <2>1. c.proto # ""
    <3>1. c.proto = "tcp" \/ c.proto = "udp"
      BY ConnectionsAssumption
    <3> QED BY <3>1, Zenon
  <2> QED BY <1>1, <2>1, Zenon DEF MatchProto
<1>5. (rule.cgroup # NoCgroup => CgroupWithin(TrimSlashes(c.cgroup), rule.cgroup))
        <=> (r.cgroup # NoCgroup => Below(c.cgroup, r.cgroup))
  <2>1. r.cgroup \in Seq(STRING) /\ c.cgroup \in Seq(STRING)
    BY ConnectionsAssumption DEF RuleSyntax
  <2>2. CASE r.cgroup = NoCgroup
    <3>1. Parts(NoCgroup) = {}
      BY DEF Parts, NoCgroup
    <3>2. TrimSlashes(NoCgroup) = NoCgroup
      BY <3>1, TrimByParts, Zenon
    <3> QED BY <1>1, <2>2, <3>2
  <2>3. CASE r.cgroup # NoCgroup
    <3>1. GoodCgroup(r.cgroup)
      BY <2>3, Zenon DEF GoodRule
    <3>2. rule.cgroup # NoCgroup
      BY <1>1, <3>1, Zenon DEF GoodCgroup
    <3>3. Whole(TrimSlashes(c.cgroup))
      BY CgroupsAssumption, NoEmptyIsWhole, Zenon
    <3>4. Below(c.cgroup, r.cgroup)
            <=> CgroupWithin(TrimSlashes(c.cgroup), TrimSlashes(r.cgroup))
      BY <2>1, <3>1, <3>3, BelowIsWithin
    <3> QED BY <1>1, <2>3, <3>2, <3>4
  <2> QED BY <2>2, <2>3
<1>6. /\ DestOf(c).domain = c.name /\ DestOf(c).ip = c.ip /\ DestOf(c).port = c.port
      /\ DestOf(c).proto = c.proto /\ DestOf(c).cgroup = c.cgroup
  BY DEF DestOf
<1>7. Match(rule, DestOf(c))
        <=> /\ rule.cgroup # NoCgroup => CgroupWithin(TrimSlashes(c.cgroup), rule.cgroup)
            /\ MatchProto(rule, c.proto) /\ MatchPorts(rule, c.port)
            /\ MatchHost(rule, NormalizeDomain(c.name), c.ip)
  BY <1>6, Zenon DEF Match
<1>8. Match(rule, DestOf(c)) <=> Applies(r, c)
  BY <1>2, <1>3, <1>4, <1>5, <1>7, Zenon DEF Applies
<1> QED BY <1>8 DEF rule
\* The rules of a file that loads: its deny rules, and then its allow rules.
LEMMA CompiledOrder ==
  ASSUME NEW f \in Files, Compile(f).ok
  PROVE  LET n == Len(f.deny)
             rules == Compile(f).rules
         IN  /\ n \in Nat /\ Len(f.allow) \in Nat /\ Compile(f).default = f.default
             /\ DOMAIN f.deny = 1..n /\ DOMAIN f.allow = 1..Len(f.allow)
             /\ DOMAIN rules = 1..(n + Len(f.allow))
             /\ \A i \in 1..n : GoodRule(f.deny[i]) /\ f.deny[i] \in RuleSyntax
                                /\ rules[i] = CompileRule(f.deny[i], "deny")
             /\ \A j \in 1..Len(f.allow) :
                  GoodRule(f.allow[j]) /\ f.allow[j] \in RuleSyntax
                  /\ rules[n + j] = CompileRule(f.allow[j], "allow")
<1> DEFINE n == Len(f.deny)
           m == Len(f.allow)
           denying  == [i \in 1..n |-> CompileRule(f.deny[i], "deny")]
           allowing == [j \in 1..m |-> CompileRule(f.allow[j], "allow")]
<1>1. /\ Compile(f).default = f.default /\ Compile(f).rules = denying \o allowing
      /\ \A i \in DOMAIN f.deny : GoodRule(f.deny[i])
      /\ \A j \in DOMAIN f.allow : GoodRule(f.allow[j])
  BY DEF Compile, Rejected, CompiledRules
<1>2. f.deny \in Seq(RuleSyntax) /\ f.allow \in Seq(RuleSyntax)
  BY FilesAssumption
<1>3. n \in Nat /\ m \in Nat /\ DOMAIN f.deny = 1..n /\ DOMAIN f.allow = 1..m
  BY <1>2, LenProperties
<1>4. (\A i \in 1..n : f.deny[i] \in RuleSyntax) /\ (\A j \in 1..m : f.allow[j] \in RuleSyntax)
  BY <1>2, <1>3, ElementOfSeq
<1>5. /\ \A i \in 1..n : CompileRule(f.deny[i], "deny") \in Rule
      /\ \A j \in 1..m : CompileRule(f.allow[j], "allow") \in Rule
  BY <1>1, <1>3, <1>4, CompiledRuleTypes DEF Verdicts
<1>6. denying \in [1..n -> Rule] /\ allowing \in [1..m -> Rule]
  BY <1>5
<1>7. denying \in Seq(Rule) /\ allowing \in Seq(Rule)
  BY <1>3, <1>6, FunctionIsSeq
<1>8. Len(denying) = n /\ Len(allowing) = m
  BY <1>3, <1>6, <1>7, LenProperties
<1>9. /\ \A i \in 1..n : denying[i] = CompileRule(f.deny[i], "deny")
      /\ \A j \in 1..m : allowing[j] = CompileRule(f.allow[j], "allow")
  OBVIOUS
<1> DEFINE rules == denying \o allowing
<1> HIDE DEF denying, allowing, n, m
<1>10. /\ rules \in Seq(Rule) /\ Len(rules) = n + m
       /\ \A i \in 1..(n + m) : rules[i] = IF i <= n THEN denying[i] ELSE allowing[i - n]
  BY <1>7, <1>8, ConcatProperties
<1> HIDE DEF rules
<1>11. DOMAIN rules = 1..(n + m)
  BY <1>10, LenProperties
<1>12. \A i \in 1..n : rules[i] = CompileRule(f.deny[i], "deny")
  <2>1. \A i \in 1..n : i \in 1..(n + m) /\ i <= n
    BY <1>3
  <2> QED BY <1>9, <1>10, <2>1
<1>13. \A j \in 1..m : rules[n + j] = CompileRule(f.allow[j], "allow")
  <2>1. \A j \in 1..m : n + j \in 1..(n + m) /\ ~ (n + j <= n) /\ (n + j) - n = j
    BY <1>3
  <2> QED BY <1>9, <1>10, <2>1
<1> QED BY <1>1, <1>3, <1>4, <1>11, <1>12, <1>13 DEF n, m, rules

\* Evaluate, on the rules a file compiles to, decides by the first deny rule that
\* applies, else by the first allow rule that does, else by the default.
LEMMA FirstOfTheList ==
  ASSUME NEW f \in Files, Compile(f).ok, NEW c \in Connections
  PROVE  LET denying  == {i \in DOMAIN f.deny : Applies(f.deny[i], c)}
             allowing == {i \in DOMAIN f.allow : Applies(f.allow[i], c)}
         IN  Evaluate(Compile(f).rules, Compile(f).default, DestOf(c)) =
               IF denying # {} THEN [verdict |-> "deny", rule |-> Min(denying)]
               ELSE IF allowing # {}
                    THEN [verdict |-> "allow", rule |-> Len(f.deny) + Min(allowing)]
                    ELSE [verdict |-> f.default, rule |-> 0]
<1> DEFINE n == Len(f.deny)
           m == Len(f.allow)
           rules == Compile(f).rules
           denying  == {i \in DOMAIN f.deny : Applies(f.deny[i], c)}
           allowing == {i \in DOMAIN f.allow : Applies(f.allow[i], c)}
           hits == Matching(rules, DestOf(c))
<1>1. /\ n \in Nat /\ m \in Nat /\ Compile(f).default = f.default
      /\ DOMAIN f.deny = 1..n /\ DOMAIN f.allow = 1..m /\ DOMAIN rules = 1..(n + m)
      /\ \A i \in 1..n : GoodRule(f.deny[i]) /\ f.deny[i] \in RuleSyntax
                         /\ rules[i] = CompileRule(f.deny[i], "deny")
      /\ \A j \in 1..m : GoodRule(f.allow[j]) /\ f.allow[j] \in RuleSyntax
                         /\ rules[n + j] = CompileRule(f.allow[j], "allow")
  BY CompiledOrder
<1> HIDE DEF n, m, rules
<1>2. /\ \A i \in 1..n : i \in hits <=> i \in denying
      /\ \A j \in 1..m : n + j \in hits <=> j \in allowing
  <2>1. /\ \A i \in 1..n : Match(rules[i], DestOf(c)) <=> Applies(f.deny[i], c)
        /\ \A j \in 1..m : Match(rules[n + j], DestOf(c)) <=> Applies(f.allow[j], c)
    BY <1>1, AppliesIsMatch, Zenon
  <2>2. /\ \A i \in 1..n : i \in DOMAIN rules
        /\ \A j \in 1..m : n + j \in DOMAIN rules
    BY <1>1
  <2> QED BY <1>1, <2>1, <2>2, Zenon DEF Matching
<1>3. /\ \A i \in 1..n : rules[i].verdict = "deny"
      /\ \A j \in 1..m : rules[n + j].verdict = "allow"
  <2>1. \A r, verdict : CompileRule(r, verdict).verdict = verdict
    BY DEF CompileRule
  <2>2. ASSUME NEW i \in 1..n PROVE rules[i].verdict = "deny"
    <3>1. rules[i] = CompileRule(f.deny[i], "deny")
      BY <1>1
    <3> QED BY <2>1, <3>1
  <2>3. ASSUME NEW j \in 1..m PROVE rules[n + j].verdict = "allow"
    <3>1. rules[n + j] = CompileRule(f.allow[j], "allow")
      BY <1>1
    <3> QED BY <2>1, <3>1
  <2> QED BY <2>2, <2>3
<1>4. hits \subseteq 1..(n + m) /\ denying \subseteq 1..n /\ allowing \subseteq 1..m
  BY <1>1 DEF Matching
<1>5. Evaluate(rules, f.default, DestOf(c)) =
        IF hits = {} THEN [verdict |-> f.default, rule |-> 0]
        ELSE [verdict |-> rules[Min(hits)].verdict, rule |-> Min(hits)]
  BY DEF Evaluate
<1> HIDE DEF hits, denying, allowing
<1>6. hits \in SUBSET Nat /\ denying \in SUBSET Nat /\ allowing \in SUBSET Nat
  BY <1>1, <1>4
<1>7. \A k \in hits : k \in denying \/ \E j \in allowing : k = n + j
  <2> SUFFICES ASSUME NEW k \in hits PROVE k \in denying \/ \E j \in allowing : k = n + j
    OBVIOUS
  <2>1. k \in 1..(n + m)
    BY <1>4
  <2>2. CASE k <= n
    BY <1>1, <1>2, <2>1, <2>2
  <2>3. CASE ~ (k <= n)
    <3>1. k - n \in 1..m /\ n + (k - n) = k
      BY <1>1, <2>1, <2>3
    <3> QED BY <1>2, <3>1
  <2> QED BY <2>2, <2>3
<1>8. /\ \A i \in denying : i \in hits /\ i \in 1..n
      /\ \A j \in allowing : n + j \in hits /\ j \in 1..m
  BY <1>2, <1>4
<1>9. CASE denying # {}
  <2>1. Min(denying) \in denying /\ \A i \in denying : Min(denying) <= i
    BY <1>6, <1>9, MinIsLeast
  <2>2. hits # {}
    BY <1>8, <2>1
  <2>3. Min(hits) \in hits /\ \A k \in hits : Min(hits) <= k
    BY <1>6, <2>2, MinIsLeast
  <2> DEFINE a == Min(denying)
             b == Min(hits)
  <2> HIDE DEF a, b
  <2>4. a \in denying /\ b \in hits /\ b <= a /\ a \in 1..n /\ b \in Nat
    BY <1>6, <1>8, <2>1, <2>3 DEF a, b
  <2>5. b \in denying
    <3>1. ASSUME NEW j \in allowing, b = n + j PROVE FALSE
      BY <1>1, <1>8, <2>4, <3>1
    <3> QED BY <1>7, <2>4, <3>1
  <2>6. a <= b
    BY <2>1, <2>5 DEF a
  <2>7. a = b
    BY <1>1, <2>4, <2>6
  <2>8. rules[b].verdict = "deny"
    BY <1>3, <1>8, <2>5
  <2> QED BY <1>1, <1>5, <1>9, <2>2, <2>7, <2>8, Zenon DEF a, b, denying, allowing, rules, n
<1>10. CASE denying = {} /\ allowing # {}
  <2>1. Min(allowing) \in allowing /\ \A i \in allowing : Min(allowing) <= i
    BY <1>6, <1>10, MinIsLeast
  <2>2. hits # {}
    BY <1>8, <2>1
  <2>3. Min(hits) \in hits /\ \A k \in hits : Min(hits) <= k
    BY <1>6, <2>2, MinIsLeast
  <2> DEFINE a == Min(allowing)
             b == Min(hits)
  <2> HIDE DEF a, b
  <2>4. a \in allowing /\ b \in hits /\ b <= n + a /\ a \in 1..m /\ b \in Nat
    BY <1>6, <1>8, <2>1, <2>3 DEF a, b
  <2>5. PICK j \in allowing : b = n + j
    BY <1>7, <1>10, <2>4
  <2>6. a <= j /\ j \in 1..m
    BY <1>8, <2>1 DEF a
  <2>7. b = n + a
    BY <1>1, <2>4, <2>5, <2>6
  <2>8. rules[b].verdict = "allow"
    BY <1>3, <2>4, <2>7
  <2> QED BY <1>1, <1>5, <1>10, <2>2, <2>7, <2>8, Zenon DEF a, b, denying, allowing, rules, n
<1>11. CASE denying = {} /\ allowing = {}
  <2>1. hits = {}
    BY <1>7, <1>11
  <2> QED BY <1>1, <1>5, <1>11, <2>1, Zenon DEF denying, allowing, rules, n
<1> QED BY <1>9, <1>10, <1>11

----------------------------------------------------------------------------
(* The specification.                                                      *)

\* A connection is asked about once the policy is loaded, and both answers are
\* those of the policy that was.
IInv ==
  /\ file \in Files
  /\ stage \in {"ready", "done"} => set = Compile(file) /\ set.ok
  /\ stage = "done" =>
       /\ conn \in Connections
       /\ decision = Evaluate(set.rules, set.default, DestOf(conn))
       /\ filtered = KernelOf(set.rules, set.default, conn)

\* Before the file is loaded there is nothing to agree on.
LEMMA InitIInv == Init => IInv
  BY DEF Init, IInv

\* Loading sets what Compile makes of the file; a connection gets both answers of it.
LEMMA NextIInv == IInv /\ [Next]_vars => IInv'
<1> SUFFICES ASSUME IInv, [Next]_vars PROVE IInv'
  OBVIOUS
<1>1. CASE LoadPolicy
  BY <1>1 DEF IInv, LoadPolicy
<1>2. ASSUME NEW c \in Connections, Connect(c) PROVE IInv'
  BY <1>2 DEF IInv, Connect, KernelOf
<1>3. CASE UNCHANGED vars
  BY <1>3 DEF IInv, vars, KernelOf
<1> QED BY <1>1, <1>2, <1>3 DEF Next

\* The policy asked about is the one its file compiles to, and the answers kept are
\* those of Evaluate and of the chains for the connection kept.
THEOREM InvariantHolds == Spec => []IInv
  BY InitIInv, NextIInv, PTL DEF Spec

\* The invariant gives PrintedIsLoaded.
LEMMA IInvPrints == IInv => PrintedIsLoaded
<1> SUFFICES ASSUME IInv, stage = "done", ~ PreAccepted(PacketOf(conn))
             PROVE  TextOfLoaded(set.rules, set.default, conn)
                      = IF filtered.verdict = "allow" THEN "accept" ELSE "reject"
  BY DEF PrintedIsLoaded, TextOfLoaded
<1> DEFINE first == Min(MatchedRules(set.rules, conn))
<1>1. /\ set.rules \in Seq(Rule) /\ set.default \in Verdicts /\ conn \in Connections
      /\ filtered = KernelOf(set.rules, set.default, conn)
  BY CompiledTypes DEF IInv
<1>2. filtered.verdict = IF MatchedRules(set.rules, conn) = {} THEN set.default
                         ELSE set.rules[first].verdict
  BY <1>1, FilterByRule
<1>3. TextOfLoaded(set.rules, set.default, conn) =
        IF MatchedRules(set.rules, conn) = {}
        THEN IF set.default = "deny" THEN "reject" ELSE "accept"
        ELSE IF set.rules[first].verdict = "allow" THEN "accept" ELSE "reject"
  BY <1>1, TextByRule
<1> HIDE DEF first
<1> QED BY <1>1, <1>2, <1>3 DEF Verdicts

\* The invariant gives KernelAgrees.
LEMMA IInvAgrees == IInv => KernelAgrees
<1> SUFFICES ASSUME IInv, stage = "done", ~ PreAccepted(PacketOf(conn))
             PROVE  filtered = decision
  BY DEF KernelAgrees
<1>1. /\ set.rules \in Seq(Rule) /\ conn \in Connections
      /\ decision = Evaluate(set.rules, set.default, DestOf(conn))
      /\ filtered = KernelOf(set.rules, set.default, conn)
  BY CompiledTypes DEF IInv
<1>2. MatchedRules(set.rules, conn) = Matching(set.rules, DestOf(conn))
  BY <1>1, MatchedRulesAreMatching
<1> QED BY <1>1, <1>2, FilterByRule DEF Evaluate

\* What `check` and the dry run say is what enforcement does, for every policy and
\* connection: Evaluate and the chains name the same rule and verdict.
THEOREM EvaluateIsTheKernel == Spec => []KernelAgrees
  BY InvariantHolds, IInvAgrees, PTL

\* What -print shows is what Apply loads, for every policy: the text written
\* beside the netlink messages decides as they do.
THEOREM TextIsTheTable == Spec => []PrintedIsLoaded
  BY InvariantHolds, IInvPrints, PTL

\* No DNS answer is fed to a set that Build did not make, for every policy, name
\* and address.
THEOREM EveryAnswerHasItsSets == Spec => []FeedFindsItsSets
<1>1. FeedFindsItsSets
  BY DEF FeedFindsItsSets, DomainRules, CoversName, SetFor, PlanSets, HasDomains, Families
<1> QED BY <1>1, PTL

\* What README.md:93 promises, for every policy file that loads and every
\* connection: the decision names the first deny rule of the file that applies,
\* else the first allow rule that does, else the default.
THEOREM DenyWins == Spec => []DenyThenAllowThenDefault
<1>1. IInv => DenyThenAllowThenDefault
  <2> SUFFICES ASSUME IInv, stage = "done"
               PROVE  LET denying  == {i \in DOMAIN file.deny : Applies(file.deny[i], conn)}
                          allowing == {i \in DOMAIN file.allow : Applies(file.allow[i], conn)}
                      IN  decision =
                            IF denying # {} THEN [verdict |-> "deny", rule |-> Min(denying)]
                            ELSE IF allowing # {}
                                 THEN [verdict |-> "allow",
                                       rule |-> Len(file.deny) + Min(allowing)]
                                 ELSE [verdict |-> file.default, rule |-> 0]
    BY Zenon DEF DenyThenAllowThenDefault
  <2>1. /\ file \in Files /\ Compile(file).ok /\ conn \in Connections
        /\ decision = Evaluate(Compile(file).rules, Compile(file).default, DestOf(conn))
    BY DEF IInv
  <2> QED BY <2>1, FirstOfTheList, Zenon
<1> QED BY <1>1, InvariantHolds, PTL
=============================================================================
