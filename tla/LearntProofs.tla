----------------------------- MODULE LearntProofs ---------------------------
(***************************************************************************)
(* The policy learn leaves, for every set of tuples, addresses and answers *)
(* and every number of flows: its types, what enforcing the file allows,   *)
(* and when the file is not written at all.                                *)
(***************************************************************************)
EXTENDS LearnProofs, MinProofs, SequenceTheorems, FiniteSetTheorems

----------------------------------------------------------------------------
(* Sequences and addresses.                                                *)

\* SetToSeq lists a finite set: the allow rules of a rendered policy are all
\* the rules made, and no other (write.go:82).
LEMMA SetToSeqLists ==
  ASSUME NEW S, IsFiniteSet(S)
  PROVE  SetToSeq(S) \in Seq(S) /\ \A x \in S : \E i \in DOMAIN SetToSeq(S) : SetToSeq(S)[i] = x
<1> DEFINE n == Cardinality(S)
           s == SetToSeq(S)
<1>1. n \in Nat /\ ExistsBijection(1..n, S)
  BY FS_CardinalityType
<1>2. \E f \in [1..n -> S] : IsInjective(f)
  BY <1>1 DEF ExistsBijection, Bijection, Injection
<1>3. s \in [1..n -> S] /\ IsInjective(s)
  BY <1>2 DEF SetToSeq
<1>4. s \in Injection(1..n, S)
  BY <1>3 DEF Injection
<1>5. Cardinality(1..n) = n
  BY <1>1, FS_Interval
<1> HIDE DEF n, s
<1>6. s \in Surjection(1..n, S)
  BY <1>4, <1>5, FS_Injection DEF n
<1>7. \A x \in S : \E i \in 1..n : s[i] = x
  BY <1>6 DEF Surjection
<1>8. s \in Seq(S)
  BY <1>1, <1>3, FunctionIsSeq
<1> QED BY <1>3, <1>7, <1>8 DEF s

\* The pattern "*.x" read as a name is below the suffix it stands for.
LEMMA TailIsStrictSuffix ==
  ASSUME NEW s \in Seq(STRING), Len(s) > 1
  PROVE  IsStrictSuffix(Tail(s), s)
<1> DEFINE n == Len(s)
           t == Tail(s)
           rs == Reverse(s)
           rt == Reverse(t)
<1>1. n \in Nat /\ \A i \in 1..n : s[i] \in STRING
  BY LenProperties, ElementOfSeq
<1>2. s # <<>>
  BY EmptySeq
<1>3. t \in Seq(STRING) /\ Len(t) = n - 1 /\ \A i \in 1..(n - 1) : t[i] = s[i + 1]
  BY <1>2, HeadTailProperties
<1>4. rs = [i \in 1..n |-> s[(n - i) + 1]] /\ rt = [i \in 1..(n - 1) |-> t[((n - 1) - i) + 1]]
  BY <1>3 DEF Reverse
<1>5. \A i \in 1..n : rs[i] \in STRING
  BY <1>1, <1>4
<1>6. \A i \in 1..(n - 1) : rt[i] = rs[i]
  <2> SUFFICES ASSUME NEW i \in 1..(n - 1) PROVE rt[i] = rs[i]
    OBVIOUS
  <2>1. ((n - 1) - i) + 1 \in 1..(n - 1) /\ i \in 1..n /\ (((n - 1) - i) + 1) + 1 = (n - i) + 1
    BY <1>1
  <2> QED BY <1>3, <1>4, <2>1
<1>7. n - 1 \in Nat
  BY <1>1
<1>8. rs \in Seq(STRING) /\ rt \in Seq(STRING)
  <2>1. rs \in [1..n -> STRING]
    BY <1>4, <1>5
  <2>2. rt \in [1..(n - 1) -> STRING]
    <3>1. \A i \in 1..(n - 1) : rt[i] \in STRING
      BY <1>1, <1>5, <1>6
    <3> QED BY <1>4, <3>1
  <2> QED BY <1>1, <1>7, <2>1, <2>2, FunctionIsSeq
<1>9. Len(rs) = n /\ Len(rt) = n - 1
  BY <1>1, <1>4, <1>7, <1>8, LenProperties
<1> HIDE DEF n, t, rs, rt
<1>10. SubSeq(rt, 1, n - 1) = rt
  BY <1>8, <1>9, SubSeqFull
<1>11. SubSeq(rs, 1, n - 1) = rt
  <2>1. /\ SubSeq(rs, 1, n - 1) \in Seq(STRING) /\ Len(SubSeq(rs, 1, n - 1)) = n - 1
        /\ \A i \in 1..(n - 1) : SubSeq(rs, 1, n - 1)[i] = rs[i]
    <3>1. \A i \in 1..(n - 1) : rs[i] \in STRING
      BY <1>1, <1>5
    <3>2. /\ SubSeq(rs, 1, n - 1) \in Seq(STRING)
          /\ Len(SubSeq(rs, 1, n - 1)) = IF 1 <= n - 1 THEN (n - 1) - 1 + 1 ELSE 0
          /\ \A i \in 1..((n - 1) - 1 + 1) : SubSeq(rs, 1, n - 1)[i] = rs[1 + i - 1]
      BY <1>7, <3>1, SubSeqProperties
    <3> QED BY <1>7, <3>2
  <2> QED BY <1>6, <1>8, <1>9, <2>1, SeqEqual
<1>12. IsPrefix(rt, rs)
  BY <1>1, <1>9, <1>10, <1>11 DEF IsPrefix
<1>13. t # s
  BY <1>1, <1>3 DEF n
<1> QED BY <1>12, <1>13 DEF IsStrictSuffix, IsSuffix, rs, rt, t

\* A whole address is within another of its family only when it is the other.
LEMMA WholePrefix ==
  ASSUME NEW a, NEW b, a.bits \in Seq({0, 1}), b.bits \in Seq({0, 1}),
         a.fam = b.fam => Len(a.bits) = Len(b.bits)
  PROVE  PrefixContains(a, b) <=> a.fam = b.fam /\ a.bits = b.bits
<1>1. SubSeq(a.bits, 1, Len(a.bits)) = a.bits /\ SubSeq(b.bits, 1, Len(b.bits)) = b.bits
  BY SubSeqFull
<1>2. Len(a.bits) \in Nat
  BY LenProperties
<1> QED BY <1>1, <1>2 DEF PrefixContains, IsPrefix

\* They are unmapped, are addresses, and are within each other only when equal.
LEMMA OwnAddresses ==
  /\ \A a \in Own : Unmap(a) = a /\ a # NoIP /\ a # BadCidr
  /\ \A a, b \in Own : PrefixContains(a, b) <=> a = b
<1>1. Own \subseteq [fam : {"v4", "v6"}, bits : Seq({0, 1})]
  BY AddressesAssumption DEF Own, Unmap
<1>2. \A a, b \in Own : a.fam = b.fam => Len(a.bits) = Len(b.bits)
  BY AddressesAssumption DEF Own
<1>3. \A a \in Own : Unmap(a) = a /\ a # NoIP /\ a # BadCidr
  BY <1>1 DEF Unmap, NoIP, BadCidr
<1>4. \A a, b \in Own : PrefixContains(a, b) <=> a.fam = b.fam /\ a.bits = b.bits
  BY <1>1, <1>2, WholePrefix
<1>5. \A a, b \in Own : a.fam = b.fam /\ a.bits = b.bits => a = b
  BY <1>1
<1> QED BY <1>3, <1>4, <1>5

----------------------------------------------------------------------------
(* One rule of the rendered policy.                                        *)

\* The hosts of the entries that become rules, and the entries of one.
Hosts(es) == {e.host : e \in Kept(es)}

EntriesOf(es, h) == {e \in Kept(es) : e.host = h}

\* The destinations asked of the policy.
Dests ==
  [domain : Names \cup {NoName}, ip : Own, port : 0..MaxPort, proto : {"tcp", "udp"},
   cgroup : {NoCgroup}]

\* The fields of a flow.
LEMMA FlowFields ==
  \A f \in Flows : /\ f.host \in Names \cup {NoName} /\ f.ip \in Own
                   /\ f.port \in 0..MaxPort /\ f.proto \in {"tcp", "udp"}
BY DEF Flows, Own

\* The fields of an entry.
LEMMA EntryFields ==
  \A e \in Learnt : /\ e.domain => e.host \in Names
                    /\ ~ e.domain => \E a \in Own : e.host = AddrText[a]
                    /\ e.port \in 0..MaxPort /\ e.proto \in {"tcp", "udp"}
                    /\ e.domain \in BOOLEAN
BY DEF Learnt

\* An address that is written is read back as itself.
LEMMA TextIsParsed == \A a \in Own : Parsed(AddrText[a]) = a
BY TextsAssumption, AddressesAssumption DEF Parsed

\* What a host stands for: a name, or an address.
LEMMA HostFields ==
  ASSUME NEW es \in SUBSET Learnt, NEW h \in Hosts(es)
  PROVE  /\ EntriesOf(es, h) \in SUBSET Learnt /\ EntriesOf(es, h) # {}
         /\ IsDomain(EntriesOf(es, h)) => h \in Names
         /\ ~ IsDomain(EntriesOf(es, h)) => Parsed(h) \in Own /\ h = AddrText[Parsed(h)]
<1>1. PICK e \in Kept(es) : h = e.host
  BY DEF Hosts
<1>2. Kept(es) \subseteq Learnt
  BY DEF Kept
<1>3. e \in EntriesOf(es, h) /\ \A k \in EntriesOf(es, h) : k \in Learnt /\ k.host = h
  BY <1>1, <1>2 DEF EntriesOf
<1>4. IsDomain(EntriesOf(es, h)) => h \in Names
  BY <1>3, EntryFields DEF IsDomain
<1>5. ASSUME ~ IsDomain(EntriesOf(es, h))
      PROVE  Parsed(h) \in Own /\ h = AddrText[Parsed(h)]
  <2>1. PICK a \in Own : h = AddrText[a]
    BY <1>3, <1>5, EntryFields DEF IsDomain
  <2> QED BY <2>1, TextIsParsed
<1> QED BY <1>3, <1>4, <1>5

\* The fields of the rule made for a host.
LEMMA RuleFields ==
  ASSUME NEW h, NEW es
  PROVE  /\ RuleFor(h, es).domains = IF IsDomain(es) THEN {h} ELSE {}
         /\ RuleFor(h, es).cidrs = IF IsDomain(es) THEN {} ELSE {Parsed(h)}
         /\ RuleFor(h, es).ports = {[lo |-> e.port, hi |-> e.port] : e \in es}
         /\ RuleFor(h, es).proto = IF Cardinality({e.proto : e \in es}) = 1
                                   THEN (CHOOSE e \in es : TRUE).proto ELSE ""
         /\ RuleFor(h, es).cgroup = NoCgroup
BY DEF RuleFor, Blank

\* A rule names its protocol when its entries have one in common, and admits the
\* protocols they had (write.go:87-91).
LEMMA LearntProto ==
  ASSUME NEW h, NEW es \in SUBSET Learnt, es # {}
  PROVE  /\ RuleFor(h, es).proto \in {"", "tcp", "udp"}
         /\ \A p \in {"tcp", "udp"} :
              MatchProto(RuleFor(h, es), p) <=> \E g \in es : g.proto = p
<1> DEFINE protos == {f.proto : f \in es}
           first == CHOOSE f \in es : TRUE
<1>1. first \in es /\ first.proto \in {"tcp", "udp"} /\ protos \subseteq {"tcp", "udp"}
  BY EntryFields
<1>2. RuleFor(h, es).proto = IF Cardinality(protos) = 1 THEN first.proto ELSE ""
  BY RuleFields
<1>3. Cardinality(protos) = 1 <=> \E x : protos = {x}
  <2>1. IsFiniteSet({"tcp"}) /\ {"tcp", "udp"} = {"tcp"} \cup {"udp"}
    BY FS_Singleton
  <2>2. IsFiniteSet({"tcp", "udp"})
    BY <2>1, FS_AddElement
  <2>3. IsFiniteSet(protos)
    BY <1>1, <2>2, FS_Subset
  <2> HIDE DEF protos
  <2> QED BY <2>3, FS_Singleton
<1>4. ASSUME NEW p \in {"tcp", "udp"}
      PROVE  MatchProto(RuleFor(h, es), p) <=> \E g \in es : g.proto = p
  <2>1. p # ""
    OBVIOUS
  <2>2. MatchProto(RuleFor(h, es), p) <=> RuleFor(h, es).proto \in {"", p}
    BY <2>1 DEF MatchProto
  <2>3. CASE \E x : protos = {x}
    <3>1. \A g \in es : g.proto = first.proto
      BY <1>1, <2>3
    <3>2. first.proto # ""
      BY <1>1
    <3> QED BY <1>1, <1>2, <1>3, <2>2, <2>3, <3>1, <3>2
  <2>4. CASE ~ \E x : protos = {x}
    <3>1. \E g \in es : g.proto = p
      <4> SUFFICES ASSUME \A g \in es : g.proto # p PROVE FALSE
        OBVIOUS
      <4>1. \A g, k \in es : g.proto = k.proto
        BY <1>1
      <4>2. protos = {first.proto}
        BY <1>1, <4>1
      <4> QED BY <2>4, <4>2
    <3> QED BY <1>2, <1>3, <2>2, <2>4, <3>1
  <2> QED BY <2>3, <2>4
<1> QED BY <1>1, <1>2, <1>4

\* The empty path has nothing to trim.
LEMMA NoCgroupTrimmed == TrimSlashes(NoCgroup) = NoCgroup
BY DEF TrimSlashes, NoCgroup

\* A name an answer was recorded under is normalized.
LEMMA NamesNormalized ==
  \A name \in Names \cup {NoName} : NormalizeDomain(name) = name /\ name \in Seq(STRING)
<1>1. NormalizeDomain(NoName) = NoName /\ NoName \in Seq(STRING)
  BY EmptySeq DEF NormalizeDomain, NoName
<1> QED BY <1>1, NamesAssumption DEF Names

\* The host of a rule, as the daemon matches it: the address, the name, or the
\* names below a name that reads as a pattern.
Reaches(h, es, d) ==
  IF ~ IsDomain(es)
  THEN Parsed(h) = d.ip
  ELSE /\ d.domain # NoName
       /\ \/ IsExact(h) /\ h = d.domain
          \/ IsWildcard(h) /\ IsStrictSuffix(Tail(h), d.domain)

\* A compiled rule of learn matches the host it was made for.
LEMMA LearntHost ==
  ASSUME NEW h, NEW es, NEW r, NEW d \in Dests,
         IsDomain(es) => h \in Names, ~ IsDomain(es) => Parsed(h) \in Own,
         r.domains = IF IsDomain(es) THEN {h} ELSE {},
         r.cidrs = IF IsDomain(es) THEN {} ELSE {Parsed(h)},
         IsDomain(es) => IsExact(h) \/ IsWildcard(h)
  PROVE  MatchHost(CompileRule(r, "allow"), NormalizeDomain(d.domain), d.ip) <=> Reaches(h, es, d)
<1> DEFINE c == CompileRule(r, "allow")
           patterns == {NormalizeDomain(x) : x \in r.domains}
<1>1. /\ c.exact = {x \in patterns : IsExact(x)}
      /\ c.suffixes = {Tail(x) : x \in {p \in patterns : IsWildcard(p)}}
      /\ c.prefixes = r.cidrs
  BY DEF CompileRule
<1>2. /\ NormalizeDomain(d.domain) = d.domain /\ d.ip \in Own /\ d.ip # NoIP /\ Unmap(d.ip) = d.ip
  BY NamesNormalized, OwnAddresses DEF Dests
<1>3. CASE ~ IsDomain(es)
  <2>1. c.exact = {} /\ c.suffixes = {} /\ c.prefixes = {Parsed(h)}
    BY <1>1, <1>3
  <2>2. MatchHost(c, d.domain, d.ip) <=> PrefixContains(Parsed(h), d.ip)
    BY <1>2, <2>1 DEF MatchHost, AnyHost, CoversName
  <2> QED BY <1>2, <1>3, <2>2, OwnAddresses DEF Reaches
<1>4. CASE IsDomain(es)
  <2>1. patterns = {h} /\ c.prefixes = {}
    BY <1>1, <1>4, NamesNormalized
  <2>2. /\ \A x : x \in c.exact <=> x = h /\ IsExact(h)
        /\ \A x : x \in c.suffixes <=> x = Tail(h) /\ IsWildcard(h)
    BY <1>1, <2>1
  <2>3. ~ AnyHost(c)
    BY <1>4, <2>2 DEF AnyHost
  <2> HIDE DEF c, patterns
  <2>4. MatchHost(c, d.domain, d.ip) <=> d.domain # NoName /\ CoversName(c, d.domain)
    BY <2>1, <2>3 DEF MatchHost
  <2>5. CoversName(c, d.domain) <=> \/ IsExact(h) /\ h = d.domain
                                    \/ IsWildcard(h) /\ IsStrictSuffix(Tail(h), d.domain)
    BY <2>2 DEF CoversName
  <2> QED BY <1>2, <1>4, <2>4, <2>5 DEF Reaches, c
<1> QED BY <1>3, <1>4

\* A compiled rule of learn matches the ports and the protocols of its flows, at
\* its host: the product, and no more (write.go:41-58, 82-92).
LEMMA LearntMatch ==
  ASSUME NEW es \in SUBSET Learnt, NEW h \in Hosts(es), NEW d \in Dests,
         GoodRule(RuleFor(h, EntriesOf(es, h)))
  PROVE  Match(CompileRule(RuleFor(h, EntriesOf(es, h)), "allow"), d)
           <=> /\ \E e \in EntriesOf(es, h) : e.port = d.port
               /\ \E g \in EntriesOf(es, h) : g.proto = d.proto
               /\ Reaches(h, EntriesOf(es, h), d)
<1> DEFINE mine == EntriesOf(es, h)
           r == RuleFor(h, mine)
           c == CompileRule(r, "allow")
<1>1. /\ mine \in SUBSET Learnt /\ mine # {}
      /\ IsDomain(mine) => h \in Names
      /\ ~ IsDomain(mine) => Parsed(h) \in Own
  BY HostFields
<1>2. /\ r.domains = IF IsDomain(mine) THEN {h} ELSE {}
      /\ r.cidrs = IF IsDomain(mine) THEN {} ELSE {Parsed(h)}
      /\ r.ports = {[lo |-> e.port, hi |-> e.port] : e \in mine}
      /\ r.cgroup = NoCgroup
  BY RuleFields
<1>3. GoodRule(r) /\ d.proto \in {"tcp", "udp"} /\ d.port \in Int
  BY DEF Dests
<1>4. MatchProto(r, d.proto) <=> \E g \in mine : g.proto = d.proto
  BY <1>1, <1>3, LearntProto
<1> HIDE DEF mine, r
<1>5. c.ports = r.ports /\ c.proto = r.proto /\ c.cgroup = NoCgroup
  BY <1>2, NoCgroupTrimmed DEF CompileRule
<1>6. MatchProto(c, d.proto) <=> \E g \in mine : g.proto = d.proto
  BY <1>4, <1>5 DEF MatchProto
<1>7. MatchPorts(c, d.port) <=> \E e \in mine : e.port = d.port
  <2>1. \A e \in mine : e.port \in Int
    BY <1>1, EntryFields
  <2>2. \A e \in mine : InRange(d.port, [lo |-> e.port, hi |-> e.port]) <=> e.port = d.port
    BY <1>3, <2>1 DEF InRange
  <2>3. PICK e \in mine : TRUE
    BY <1>1
  <2>4. [lo |-> e.port, hi |-> e.port] \in c.ports
    BY <1>2, <1>5
  <2>5. \A p \in c.ports : \E g \in mine : p = [lo |-> g.port, hi |-> g.port]
    BY <1>2, <1>5
  <2>6. \A g \in mine : [lo |-> g.port, hi |-> g.port] \in c.ports
    BY <1>2, <1>5
  <2> HIDE DEF c
  <2> QED BY <2>2, <2>4, <2>5, <2>6 DEF MatchPorts
<1>8. IsDomain(mine) => IsExact(h) \/ IsWildcard(h)
  <2>1. SUFFICES ASSUME IsDomain(mine) PROVE IsExact(h) \/ IsWildcard(h)
    OBVIOUS
  <2>2. h \in r.domains /\ NormalizeDomain(h) = h
    BY <1>1, <1>2, <2>1, NamesNormalized
  <2> QED BY <1>3, <2>2 DEF GoodRule
<1>9. MatchHost(c, NormalizeDomain(d.domain), d.ip) <=> Reaches(h, mine, d)
  BY <1>1, <1>2, <1>8, LearntHost
<1> HIDE DEF c
<1>10. Match(c, d) <=> /\ MatchProto(c, d.proto) /\ MatchPorts(c, d.port)
                       /\ MatchHost(c, NormalizeDomain(d.domain), d.ip)
  BY <1>5 DEF Match
<1> QED BY <1>6, <1>7, <1>9, <1>10 DEF c, r, mine

----------------------------------------------------------------------------
(* The rendered policy.                                                    *)

\* The allow rules are the rules of the hosts, in some order.
LEMMA RenderedAllow ==
  ASSUME NEW es, IsFiniteSet(es)
  PROVE  LET allow == Rendered(es).allow
         IN  /\ Len(allow) \in Nat /\ DOMAIN allow = 1..Len(allow)
             /\ \A i \in 1..Len(allow) : \E h \in Hosts(es) : allow[i] = RuleFor(h, EntriesOf(es, h))
             /\ \A h \in Hosts(es) : \E i \in 1..Len(allow) : allow[i] = RuleFor(h, EntriesOf(es, h))
<1> DEFINE kept  == Kept(es)
           hosts == Hosts(es)
           rules == {RuleFor(h, EntriesOf(es, h)) : h \in hosts}
           allow == Rendered(es).allow
<1>1. IsFiniteSet(kept)
  BY FS_Subset DEF Kept
<1>2. IsFiniteSet(hosts)
  <2> DEFINE host == [e \in kept |-> e.host]
  <2>1. host \in Surjection(kept, hosts)
    BY DEF Surjection, Hosts
  <2> QED BY <1>1, <2>1, FS_Surjection
<1>3. IsFiniteSet(rules)
  <2> DEFINE rule == [h \in hosts |-> RuleFor(h, EntriesOf(es, h))]
  <2> HIDE DEF hosts
  <2>1. rule \in Surjection(hosts, rules)
    BY DEF Surjection
  <2> QED BY <1>2, <2>1, FS_Surjection
<1>4. allow = SetToSeq(rules)
  BY DEF Rendered, Hosts, EntriesOf
<1> HIDE DEF rules, allow
<1>5. allow \in Seq(rules) /\ \A x \in rules : \E i \in DOMAIN allow : allow[i] = x
  BY <1>3, <1>4, SetToSeqLists
<1>6. Len(allow) \in Nat /\ DOMAIN allow = 1..Len(allow) /\ \A i \in 1..Len(allow) : allow[i] \in rules
  BY <1>5, LenProperties, ElementOfSeq
<1> QED BY <1>5, <1>6 DEF rules, allow

\* The other fields: one rule that denies the metadata address.
LEMMA RenderedRest ==
  ASSUME NEW es
  PROVE  /\ Rendered(es).version = 1 /\ Rendered(es).default = "deny"
         /\ Len(Rendered(es).deny) = 1 /\ DOMAIN Rendered(es).deny = {1}
         /\ Rendered(es).deny[1] = [Blank EXCEPT !.cidrs = {Metadata}]
BY DEF Rendered

\* That rule is a good one, and matches the metadata address and no other,
\* under any name (write.go:68-74).
LEMMA MetadataRule ==
  LET r == [Blank EXCEPT !.cidrs = {Metadata}]
  IN  /\ GoodRule(r)
      /\ CompileRule(r, "deny").verdict = "deny"
      /\ \A d \in Dests : Match(CompileRule(r, "deny"), d) <=> d.ip = Metadata
<1> DEFINE r == [Blank EXCEPT !.cidrs = {Metadata}]
           c == CompileRule(r, "deny")
<1>1. /\ r.domains = {} /\ r.cidrs = {Metadata} /\ r.ports = {} /\ r.proto = ""
      /\ r.cgroup = NoCgroup
  BY DEF Blank
<1> HIDE DEF r
<1>2. Metadata \in Own
  BY DEF Own
<1>3. GoodRule(r)
  BY <1>1, <1>2, OwnAddresses DEF GoodRule
<1>4. /\ c.exact = {} /\ c.suffixes = {} /\ c.prefixes = {Metadata} /\ c.ports = {}
      /\ c.proto = "" /\ c.cgroup = NoCgroup /\ c.verdict = "deny"
  BY <1>1, NoCgroupTrimmed DEF CompileRule
<1> HIDE DEF c
<1>5. ASSUME NEW d \in Dests PROVE Match(c, d) <=> d.ip = Metadata
  <2>1. d.ip \in Own /\ d.ip # NoIP /\ Unmap(d.ip) = d.ip
    BY OwnAddresses DEF Dests
  <2>2. Match(c, d) <=> PrefixContains(Metadata, d.ip)
    BY <1>4, <2>1 DEF Match, MatchProto, MatchPorts, MatchHost, AnyHost, CoversName
  <2> QED BY <1>2, <2>1, <2>2, OwnAddresses
<1> QED BY <1>3, <1>4, <1>5 DEF r, c

\* The compiled rules: the one that denies, then those of the hosts.
LEMMA RenderedRules ==
  ASSUME NEW es, IsFiniteSet(es)
  PROVE  LET rules == CompiledRules(Rendered(es))
             allow == Rendered(es).allow
         IN  /\ DOMAIN rules = 1..(1 + Len(allow))
             /\ rules[1] = CompileRule([Blank EXCEPT !.cidrs = {Metadata}], "deny")
             /\ \A i \in 1..Len(allow) : rules[1 + i] = CompileRule(allow[i], "allow")
<1> DEFINE rendered == Rendered(es)
           n == Len(rendered.allow)
           denying  == [i \in 1..Len(rendered.deny) |-> CompileRule(rendered.deny[i], "deny")]
           allowing == [i \in 1..n |-> CompileRule(rendered.allow[i], "allow")]
           all == {denying[i] : i \in 1..Len(rendered.deny)} \cup {allowing[i] : i \in 1..n}
<1>1. n \in Nat /\ Len(rendered.deny) = 1
  BY RenderedAllow, RenderedRest
<1>2. denying \in [1..1 -> all] /\ allowing \in [1..n -> all]
  BY <1>1
<1>3. /\ denying[1] = CompileRule([Blank EXCEPT !.cidrs = {Metadata}], "deny")
      /\ \A i \in 1..n : allowing[i] = CompileRule(rendered.allow[i], "allow")
  <2>1. denying[1] = CompileRule(rendered.deny[1], "deny")
    BY <1>1
  <2>2. rendered.deny[1] = [Blank EXCEPT !.cidrs = {Metadata}]
    BY RenderedRest
  <2> QED BY <2>1, <2>2
<1>4. CompiledRules(rendered) = denying \o allowing
  BY DEF CompiledRules
<1> HIDE DEF rendered, n, denying, allowing, all
<1>5. denying \in Seq(all) /\ allowing \in Seq(all) /\ Len(denying) = 1 /\ Len(allowing) = n
  <2>1. denying \in Seq(all) /\ allowing \in Seq(all)
    BY <1>1, <1>2, FunctionIsSeq
  <2> QED BY <1>1, <1>2, <2>1, LenProperties
<1>6. /\ denying \o allowing \in Seq(all) /\ Len(denying \o allowing) = 1 + n
      /\ \A i \in 1..(1 + n) : (denying \o allowing)[i] =
           IF i <= 1 THEN denying[i] ELSE allowing[i - 1]
  <2>1. /\ denying \o allowing \in Seq(all)
        /\ Len(denying \o allowing) = Len(denying) + Len(allowing)
        /\ \A i \in 1..(Len(denying) + Len(allowing)) : (denying \o allowing)[i] =
             IF i <= Len(denying) THEN denying[i] ELSE allowing[i - Len(denying)]
    BY <1>5, ConcatProperties, Zenon
  <2> QED BY <1>5, <2>1, Zenon
<1>7. DOMAIN (denying \o allowing) = 1..(1 + n)
  BY <1>6, LenProperties
<1>8. (denying \o allowing)[1] = denying[1]
  BY <1>1, <1>6
<1>9. ASSUME NEW i \in 1..n PROVE (denying \o allowing)[1 + i] = allowing[i]
  <2>1. 1 + i \in 1..(1 + n) /\ ~ (1 + i <= 1) /\ (1 + i) - 1 = i
    BY <1>1
  <2> QED BY <1>6, <2>1
<1> QED BY <1>3, <1>4, <1>7, <1>8, <1>9 DEF rendered, n

\* A compiled rule has the verdict of its list (policy.go:128, 136).
LEMMA CompileVerdict == \A r, v : CompileRule(r, v).verdict = v
BY DEF CompileRule

\* What enforcing a learnt policy that loads allows: not the metadata address,
\* and what a rule of a host matches.
LEMMA LearntVerdict ==
  ASSUME NEW es \in SUBSET Learnt, IsFiniteSet(es), Compile(Rendered(es)).ok, NEW d \in Dests
  PROVE  Evaluate(Compile(Rendered(es)).rules, Compile(Rendered(es)).default, d).verdict = "allow"
           <=> /\ d.ip # Metadata
               /\ \E h \in Hosts(es) : /\ \E e \in EntriesOf(es, h) : e.port = d.port
                                       /\ \E g \in EntriesOf(es, h) : g.proto = d.proto
                                       /\ Reaches(h, EntriesOf(es, h), d)
<1> DEFINE rendered == Rendered(es)
           allow == rendered.allow
           rules == CompiledRules(rendered)
           matching == Matching(rules, d)
           first == Min(matching)
<1>1. /\ Compile(rendered).rules = rules /\ Compile(rendered).default = "deny"
      /\ \A i \in DOMAIN allow : GoodRule(allow[i])
  BY RenderedRest DEF Compile, Rejected
<1>2. /\ Len(allow) \in Nat /\ DOMAIN allow = 1..Len(allow)
      /\ \A i \in 1..Len(allow) : \E h \in Hosts(es) : allow[i] = RuleFor(h, EntriesOf(es, h))
      /\ \A h \in Hosts(es) : \E i \in 1..Len(allow) : allow[i] = RuleFor(h, EntriesOf(es, h))
  BY RenderedAllow
<1>3. /\ DOMAIN rules = 1..(1 + Len(allow))
      /\ rules[1] = CompileRule([Blank EXCEPT !.cidrs = {Metadata}], "deny")
      /\ \A i \in 1..Len(allow) : rules[1 + i] = CompileRule(allow[i], "allow")
  BY RenderedRules
<1> HIDE DEF rendered, allow, rules
<1>4. rules[1].verdict = "deny" /\ (Match(rules[1], d) <=> d.ip = Metadata)
  BY <1>3, MetadataRule
<1>5. \A i \in 1..Len(allow) : rules[1 + i].verdict = "allow"
  BY <1>3, CompileVerdict
<1>6. (\E i \in 1..Len(allow) : Match(rules[1 + i], d))
        <=> \E h \in Hosts(es) : /\ \E e \in EntriesOf(es, h) : e.port = d.port
                                 /\ \E g \in EntriesOf(es, h) : g.proto = d.proto
                                 /\ Reaches(h, EntriesOf(es, h), d)
  <2>1. \A i \in 1..Len(allow), h \in Hosts(es) :
          allow[i] = RuleFor(h, EntriesOf(es, h)) =>
            (Match(rules[1 + i], d) <=> /\ \E e \in EntriesOf(es, h) : e.port = d.port
                                        /\ \E g \in EntriesOf(es, h) : g.proto = d.proto
                                        /\ Reaches(h, EntriesOf(es, h), d))
    <3> SUFFICES ASSUME NEW i \in 1..Len(allow), NEW h \in Hosts(es),
                        allow[i] = RuleFor(h, EntriesOf(es, h))
                 PROVE  Match(rules[1 + i], d)
                          <=> /\ \E e \in EntriesOf(es, h) : e.port = d.port
                              /\ \E g \in EntriesOf(es, h) : g.proto = d.proto
                              /\ Reaches(h, EntriesOf(es, h), d)
      OBVIOUS
    <3>1. GoodRule(RuleFor(h, EntriesOf(es, h)))
      BY <1>1, <1>2
    <3>2. rules[1 + i] = CompileRule(RuleFor(h, EntriesOf(es, h)), "allow")
      BY <1>3
    <3> QED BY <3>1, <3>2, LearntMatch
  <2> QED BY <1>2, <2>1
<1>7. matching = {i \in 1..(1 + Len(allow)) : Match(rules[i], d)}
  BY <1>3 DEF Matching
<1>8. matching # {} => first \in matching /\ \A k \in matching : first <= k
  <2>1. matching \in SUBSET Nat
    BY <1>2, <1>7
  <2> HIDE DEF matching
  <2> QED BY <2>1, MinIsLeast
<1>9. Evaluate(rules, "deny", d).verdict = IF matching = {} THEN "deny" ELSE rules[first].verdict
  BY DEF Evaluate
<1> HIDE DEF matching, first
<1>10. 1 \in matching <=> d.ip = Metadata
  BY <1>2, <1>4, <1>7
<1>11. \A k \in matching : k = 1 \/ (k - 1 \in 1..Len(allow) /\ k = 1 + (k - 1))
  BY <1>2, <1>7
<1>12. \A i \in 1..Len(allow) : 1 + i \in 1..(1 + Len(allow))
  BY <1>2
<1>13. CASE d.ip = Metadata
  <2>1. matching # {} /\ first = 1
    <3>1. first \in matching /\ first <= 1
      BY <1>8, <1>10, <1>13
    <3> QED BY <1>2, <1>7, <3>1
  <2> QED BY <1>1, <1>4, <1>9, <1>13, <2>1 DEF rendered
<1>14. CASE d.ip # Metadata
  <2>1. \A k \in matching : /\ rules[k].verdict = "allow"
                            /\ k - 1 \in 1..Len(allow) /\ Match(rules[1 + (k - 1)], d)
    BY <1>5, <1>7, <1>10, <1>11, <1>14
  <2>2. matching # {} <=> \E i \in 1..Len(allow) : Match(rules[1 + i], d)
    BY <1>7, <1>12, <2>1
  <2>3. Evaluate(rules, "deny", d).verdict = "allow" <=> matching # {}
    BY <1>8, <1>9, <2>1
  <2> QED BY <1>1, <1>6, <1>14, <2>2, <2>3 DEF rendered
<1> QED BY <1>13, <1>14

----------------------------------------------------------------------------
(* Types.                                                                  *)

\* The cache holds entries.
CacheOK == cache \in [Addrs -> Entries]

\* Record and Purge leave entries in the cache, and time does.
LEMMA CacheOps ==
  ASSUME NEW c \in [Addrs -> Entries]
  PROVE  /\ \A a \in Answers : Record(c, a) \in [Addrs -> Entries]
         /\ Record(c, NoAnswer) \in [Addrs -> Entries]
         /\ Purge(c) \in [Addrs -> Entries]
         /\ Aged(c) \in [Addrs -> Entries]
<1> DEFINE spans == {MinTTL} \cup {a.ttl : a \in Answers}
           lefts == {Expired} \cup UNION {0..n : n \in spans}
<1>1. spans \subseteq Nat
  BY LearnAssumption, AddrsAssumption
<1>2. \A e : e \in Entries <=> e \in [name : Names \cup {NoName}, left : lefts]
  BY DEF Entries
<1>3. ASSUME NEW a \in Answers PROVE Record(c, a) \in [Addrs -> Entries]
  <2> DEFINE left == IF a.ttl < MinTTL THEN MinTTL ELSE a.ttl
  <2>1. left \in spans /\ left \in 0..left
    BY <1>1
  <2>2. left \in lefts /\ a.name \in Names
    BY <2>1 DEF Names
  <2> HIDE DEF lefts, left
  <2>3. [name |-> a.name, left |-> left] \in Entries
    BY <1>2, <2>2
  <2>4. Record(c, a) = [ip \in Addrs |-> IF ip \in a.addrs THEN [name |-> a.name, left |-> left]
                                         ELSE c[ip]]
    BY DEF Record, left
  <2> QED BY <2>3, <2>4
<1>4. Record(c, NoAnswer) \in [Addrs -> Entries]
  BY DEF Record, NoAnswer
<1>5. Purge(c) \in [Addrs -> Entries]
  <2>1. NoEntry \in Entries
    BY <1>2 DEF NoEntry
  <2> QED BY <2>1 DEF Purge
<1>6. ASSUME NEW ip \in Addrs
      PROVE  [c[ip] EXCEPT !.left = IF @ = Expired THEN Expired ELSE @ - 1] \in Entries
  <2> DEFINE left == IF c[ip].left = Expired THEN Expired ELSE c[ip].left - 1
  <2>1. c[ip] \in [name : Names \cup {NoName}, left : lefts]
    BY <1>2
  <2>2. left \in lefts
    <3>1. c[ip].left \in lefts
      BY <2>1
    <3>2. CASE c[ip].left = Expired
      BY <3>2
    <3>3. CASE c[ip].left # Expired
      <4>1. PICK n \in spans : c[ip].left \in 0..n
        BY <3>1, <3>3
      <4>2. n \in Nat
        BY <1>1
      <4>3. left = -1 \/ left \in 0..n
        BY <3>3, <4>1, <4>2
      <4> QED BY <4>3 DEF Expired
    <3> QED BY <3>2, <3>3
  <2> HIDE DEF lefts, left
  <2>3. [c[ip] EXCEPT !.left = left] \in [name : Names \cup {NoName}, left : lefts]
    BY <2>1, <2>2
  <2> QED BY <1>2, <2>3 DEF left
<1>7. Aged(c) \in [Addrs -> Entries]
  BY <1>6 DEF Aged
<1> QED BY <1>3, <1>4, <1>5, <1>7

\* A flow that is recorded is a flow: its name is one that was answered, its
\* address is unmapped.
LEMMA FlowToIsFlow ==
  ASSUME CacheOK, NEW ip \in Addrs, NEW port \in 0..MaxPort, NEW proto \in {"tcp", "udp"}
  PROVE  {FlowTo(ip, port, proto)} \in SUBSET Flows /\ IsFiniteSet({FlowTo(ip, port, proto)})
<1>1. Unmap(ip) \in Addrs
  BY AddrsAssumption
<1>2. cache[Unmap(ip)] \in Entries
  BY <1>1 DEF CacheOK
<1>3. cache[Unmap(ip)].name \in Names \cup {NoName}
  BY <1>2 DEF Entries
<1>4. Lookup(cache, ip) \in Names \cup {NoName}
  BY <1>3 DEF Lookup
<1>5. FlowTo(ip, port, proto) \in Flows
  BY <1>4 DEF FlowTo, Flows
<1> QED BY <1>5, FS_Singleton

\* The entry a flow makes, and whether it was made of it.
Entry(f) == [host |-> Text(f), domain |-> f.host # NoName, port |-> f.port, proto |-> f.proto]

SameKey(e, f) == e.host = Text(f) /\ e.port = f.port /\ e.proto = f.proto

\* Every entry was made of a flow, and every flow has an entry of its text, port and
\* protocol.
Linked(es, fs) ==
  /\ \A e \in es : \E f \in fs : SameKey(e, f) /\ (e.domain <=> f.host # NoName)
  /\ \A f \in fs : \E e \in es : SameKey(e, f)

\* An entry that is made is one, and has the key of its flow.
LEMMA EntryOfFlow ==
  ASSUME NEW f \in Flows
  PROVE  Entry(f) \in Learnt /\ SameKey(Entry(f), f) /\ (Entry(f).domain <=> f.host # NoName)
<1>1. f.host # NoName => f.host \in Names
  BY FlowFields
<1>2. Entry(f) \in Learnt
  BY <1>1, FlowFields DEF Entry, Learnt, Text
<1> QED BY <1>2 DEF Entry, SameKey

\* record keeps the entries finitely many, of their types, and linked to the flows
\* (learn.go:131-147).
LEMMA RecordedLinks ==
  ASSUME entries \in SUBSET Learnt, IsFiniteSet(entries), Linked(entries, flows),
         NEW seen \in SUBSET Flows, IsFiniteSet(seen)
  PROVE  /\ Recorded(seen) \in SUBSET Learnt /\ IsFiniteSet(Recorded(seen))
         /\ Linked(Recorded(seen), flows \cup seen)
<1> DEFINE fresh == {g \in seen : \A e \in entries : ~ SameKey(e, g)}
           made  == {Entry(f) : f \in fresh}
<1>1. Recorded(seen) = entries \cup made
  <2>1. \A g \in seen, e \in entries :
          <<e.host, e.port, e.proto>> # <<Text(g), g.port, g.proto>> <=> ~ SameKey(e, g)
    BY DEF SameKey
  <2>2. fresh = {g \in seen : \A e \in entries :
                  <<e.host, e.port, e.proto>> # <<Text(g), g.port, g.proto>>}
    BY <2>1
  <2> QED BY <2>2 DEF Recorded, Entry
<1>2. IsFiniteSet(made)
  <2> DEFINE make == [f \in fresh |-> Entry(f)]
  <2>1. IsFiniteSet(fresh)
    BY FS_Subset
  <2> HIDE DEF fresh
  <2>2. make \in Surjection(fresh, made)
    BY DEF Surjection
  <2> QED BY <2>1, <2>2, FS_Surjection
<1>3. \A e \in made : \E f \in fresh : e = Entry(f)
  OBVIOUS
<1>4. \A f \in fresh : Entry(f) \in made
  OBVIOUS
<1>5. \A f \in seen : f \in fresh \/ \E e \in entries : SameKey(e, f)
  OBVIOUS
<1>6. fresh \subseteq seen
  OBVIOUS
<1> HIDE DEF fresh, made
<1>7. made \in SUBSET Learnt
  BY <1>3, <1>6, EntryOfFlow
<1>8. Recorded(seen) \in SUBSET Learnt /\ IsFiniteSet(Recorded(seen))
  BY <1>1, <1>2, <1>7, FS_Union
<1>9. ASSUME NEW e \in entries \cup made
      PROVE  \E f \in flows \cup seen : SameKey(e, f) /\ (e.domain <=> f.host # NoName)
  <2>1. CASE e \in entries
    BY <2>1 DEF Linked
  <2>2. CASE e \in made
    BY <1>3, <1>6, <2>2, EntryOfFlow
  <2> QED BY <2>1, <2>2
<1>10. ASSUME NEW f \in flows \cup seen
       PROVE  \E e \in entries \cup made : SameKey(e, f)
  <2>1. CASE f \in flows
    BY <2>1 DEF Linked
  <2>2. CASE f \in seen
    BY <1>4, <1>5, <2>2, EntryOfFlow
  <2> QED BY <2>1, <2>2
<1> QED BY <1>1, <1>8, <1>9, <1>10 DEF Linked

----------------------------------------------------------------------------
(* The invariant.                                                          *)

\* The entries are finitely many and are those of the flows, and once the loop is
\* left they are those the file was rendered from.
LearntInv ==
  /\ TypeOK
  /\ IsFiniteSet(entries)
  /\ Linked(entries, flows)
  /\ pc = "write" => file = EmptyFile
  /\ pc = "done" => file = PolicyFile(Rendered(entries)) /\ Compile(Rendered(entries)).ok
  /\ pc = "rejected" => file = EmptyFile /\ ~ Compile(Rendered(entries)).ok

\* learn starts with nothing seen and the old file in place.
LEMMA LearntInit == Init => LearntInv
<1> SUFFICES ASSUME Init PROVE LearntInv
  OBVIOUS
<1>1. /\ pc = "loop" /\ stop = FALSE /\ cache = NoCache /\ entries = {} /\ flows = {} /\ since = 0
      /\ udpIn = [t \in Tuples |-> Absent] /\ udpOut = [t \in Tuples |-> Absent]
      /\ file = OldFile
  BY DEF Init
<1>2. NoEntry \in Entries
  BY DEF NoEntry, Entries
<1>3. cache \in [Addrs -> Entries]
  BY <1>1, <1>2 DEF NoCache
<1>4. since \in 0..(SweepEvery + 1)
  BY <1>1, LearnAssumption
<1>5. IsFiniteSet({})
  BY FS_EmptySet
<1>6. Linked(entries, flows)
  BY <1>1 DEF Linked
<1> QED BY <1>1, <1>3, <1>4, <1>5, <1>6 DEF LearntInv, TypeOK, OldFile, Ages

\* The loop's body keeps the invariant when what it is given has the types.
LEMMA IterateInv ==
  ASSUME LearntInv, NEW in \in [Tuples -> Ages], NEW out \in [Tuples -> Ages],
         NEW names \in [Addrs -> Entries], NEW seen \in SUBSET Flows, IsFiniteSet(seen),
         Iterate(in, out, names, seen)
  PROVE  LearntInv'
<1>1. pc' = "loop" /\ stop' = stop /\ file' = file
  BY DEF Iterate
<1>2. udpIn' \in [Tuples -> Ages] /\ udpOut' \in [Tuples -> Ages]
  BY SweepIsInvisible DEF Iterate
<1>3. cache' \in [Addrs -> Entries]
  BY CacheOps DEF Iterate
<1>4. since' \in 0..(SweepEvery + 1)
  <2>1. since' = 0 \/ since' = since
    BY DEF Iterate
  <2> QED BY <2>1, LearnAssumption DEF LearntInv, TypeOK
<1>5. entries' = Recorded(seen) /\ flows' = flows \cup seen
  BY DEF Iterate
<1>6. /\ entries' \in SUBSET Learnt /\ IsFiniteSet(entries')
      /\ Linked(entries', flows') /\ flows' \in SUBSET Flows
  BY <1>5, RecordedLinks DEF LearntInv, TypeOK
<1>7. TypeOK'
  BY <1>1, <1>2, <1>3, <1>4, <1>6 DEF LearntInv, TypeOK
<1> QED BY <1>1, <1>6, <1>7 DEF LearntInv, Linked

\* Every step keeps it: flows change in the loop only, and the file is rendered
\* from them after it (learn.go:78-101).
LEMMA LearntStep ==
  ASSUME LearntInv, [Next]_vars
  PROVE  LearntInv'
<1>1. /\ AgesOK /\ CacheOK /\ {} \in SUBSET Flows /\ IsFiniteSet({})
  BY FS_EmptySet DEF LearntInv, TypeOK, AgesOK, CacheOK
<1>2. ASSUME NEW t \in Tuples, UdpOut(t) PROVE LearntInv'
  <2>1. Sent(t) \in [Tuples -> Ages]
    BY <1>1, PacketAges
  <2>2. t.peer \in Addrs /\ t.peerPort \in 0..MaxPort
    BY LearnAssumption
  <2> DEFINE seen == IF IsReply(t) THEN {} ELSE {FlowTo(t.peer, t.peerPort, "udp")}
  <2>3. seen \in SUBSET Flows /\ IsFiniteSet(seen)
    BY <1>1, <2>2, FlowToIsFlow
  <2>4. Iterate(udpIn, Sent(t), cache, seen)
    BY <1>2 DEF UdpOut
  <2> HIDE DEF seen
  <2> QED BY <1>1, <2>1, <2>3, <2>4, IterateInv DEF AgesOK, CacheOK
<1>3. ASSUME NEW t \in Tuples, NEW a \in Answers \cup {NoAnswer}, UdpIn(t, a) PROVE LearntInv'
  <2>1. Heard(t) \in [Tuples -> Ages]
    BY <1>1, PacketAges
  <2>2. Record(cache, a) \in [Addrs -> Entries]
    BY <1>1, CacheOps DEF CacheOK
  <2>3. Iterate(Heard(t), udpOut, Record(cache, a), {})
    BY <1>3 DEF UdpIn
  <2> QED BY <1>1, <2>1, <2>2, <2>3, IterateInv DEF AgesOK
<1>4. ASSUME NEW d \in Destinations, TcpOut(d) PROVE LearntInv'
  <2>1. d.ip \in Addrs /\ d.port \in 0..MaxPort
    BY LearnAssumption
  <2>2. {FlowTo(d.ip, d.port, "tcp")} \in SUBSET Flows /\ IsFiniteSet({FlowTo(d.ip, d.port, "tcp")})
    BY <1>1, <2>1, FlowToIsFlow
  <2>3. Iterate(udpIn, udpOut, cache, {FlowTo(d.ip, d.port, "tcp")})
    BY <1>4 DEF TcpOut
  <2> QED BY <1>1, <2>2, <2>3, IterateInv DEF AgesOK, CacheOK
<1>5. CASE Other
  BY <1>1, <1>5, IterateInv DEF Other, AgesOK, CacheOK
<1>6. CASE Stop \/ LeaveLoop \/ ReadFails \/ Crash
  BY <1>6 DEF Stop, LeaveLoop, ReadFails, Crash, observer, LearntInv, TypeOK
<1>7. CASE OpenFile
  BY <1>7 DEF OpenFile, observer, EmptyFile, LearntInv, TypeOK
<1>8. CASE WritePolicy
  <2>1. entries' = entries /\ flows' = flows /\ UNCHANGED <<stop, observer>> /\ pc = "write" /\ file = EmptyFile
    BY <1>8 DEF WritePolicy, observer, LearntInv
  <2>2. \/ /\ pc' = "done" /\ file' = PolicyFile(Rendered(entries)) /\ Compile(Rendered(entries)).ok
        \/ pc' = "failed" /\ file' = TornFile
        \/ pc' = "rejected" /\ file' = file /\ ~ Compile(Rendered(entries)).ok
    BY <1>8 DEF WritePolicy
  <2>3. TypeOK'
    BY <2>1, <2>2 DEF LearntInv, TypeOK, observer, PolicyFile, TornFile, EmptyFile
  <2>4. Rendered(entries)' = Rendered(entries)
    BY <2>1
  <2>5. Compile(Rendered(entries))' = Compile(Rendered(entries))
    BY <2>4
  <2>6. IsFiniteSet(entries)' /\ Linked(entries, flows)'
    BY <2>1 DEF LearntInv, Linked
  <2> QED BY <2>1, <2>2, <2>3, <2>4, <2>5, <2>6 DEF LearntInv
<1>9. CASE Tick
  <2>1. /\ pc = "loop" /\ pc' = "loop" /\ stop' = stop /\ entries' = entries /\ flows' = flows
        /\ file' = file /\ udpIn' = Aging(udpIn) /\ udpOut' = Aging(udpOut) /\ cache' = Aged(cache)
        /\ since' = IF since > SweepEvery THEN since ELSE since + 1
    BY <1>9 DEF Tick
  <2>2. udpIn' \in [Tuples -> Ages] /\ udpOut' \in [Tuples -> Ages]
    BY <1>1, <2>1, AgingAges DEF AgesOK
  <2>3. cache' \in [Addrs -> Entries]
    BY <1>1, <2>1, CacheOps DEF CacheOK
  <2>4. since' \in 0..(SweepEvery + 1)
    BY <2>1, LearnAssumption DEF LearntInv, TypeOK
  <2> QED BY <2>1, <2>2, <2>3, <2>4 DEF LearntInv, TypeOK
<1>10. CASE UNCHANGED vars
  BY <1>10 DEF vars, observer, LearntInv, TypeOK
<1> QED BY <1>2, <1>3, <1>4, <1>5, <1>6, <1>7, <1>8, <1>9, <1>10 DEF Next

\* Whatever packets arrive, in whatever order, the file that learn leaves is the
\* rendering of the flows it recorded, or nothing.
THEOREM LearntInvariant == Spec => []LearntInv
  BY LearntInit, LearntStep, PTL DEF Spec

\* The state of learn has its types, for every run of it.
THEOREM LearnTypes == Spec => []TypeOK
<1>1. LearntInv => TypeOK
  BY DEF LearntInv
<1> QED BY <1>1, LearntInvariant, PTL

----------------------------------------------------------------------------
(* What the file allows, and when there is none.                           *)

\* Done, the verdicts are those of the policy rendered from the entries.
LEMMA DoneVerdict ==
  ASSUME LearntInv, pc = "done", NEW d \in Dests
  PROVE  /\ Compile(file.policy).ok
         /\ Verdict(d) = "allow"
              <=> /\ d.ip # Metadata
                  /\ \E h \in Hosts(entries) :
                       /\ \E e \in EntriesOf(entries, h) : e.port = d.port
                       /\ \E g \in EntriesOf(entries, h) : g.proto = d.proto
                       /\ Reaches(h, EntriesOf(entries, h), d)
<1>1. /\ file = PolicyFile(Rendered(entries)) /\ Compile(Rendered(entries)).ok
      /\ entries \in SUBSET Learnt /\ IsFiniteSet(entries)
  BY DEF LearntInv, TypeOK
<1>2. file.policy = Rendered(entries)
  BY <1>1 DEF PolicyFile
<1> QED BY <1>1, <1>2, LearntVerdict DEF Verdict

\* The rules of a learnt policy that loads are good ones.
LEMMA LearntGood ==
  ASSUME NEW es, IsFiniteSet(es), NEW h \in Hosts(es), Compile(Rendered(es)).ok
  PROVE  GoodRule(RuleFor(h, EntriesOf(es, h)))
<1> DEFINE allow == Rendered(es).allow
<1>1. \A i \in DOMAIN allow : GoodRule(allow[i])
  BY DEF Compile, Rejected
<1>2. DOMAIN allow = 1..Len(allow) /\ \E i \in 1..Len(allow) : allow[i] = RuleFor(h, EntriesOf(es, h))
  BY RenderedAllow
<1> QED BY <1>1, <1>2

\* An entry has the text of a flow that was taken for what it is.
LEMMA EntryHasFlow ==
  ASSUME LearntInv, NEW h, NEW e \in EntriesOf(entries, h)
  PROVE  \E f \in flows : /\ Text(f) = h /\ f.port = e.port /\ f.proto = e.proto
                          /\ (e.domain <=> f.host # NoName)
<1>1. e \in entries /\ e.host = h
  BY DEF EntriesOf, Kept
<1> QED BY <1>1 DEF LearntInv, Linked, SameKey

\* The entry of a flow whose text is no other's, if it is not of the metadata
\* address, becomes a rule, for a name if the flow had one.
LEMMA SeenIsKept ==
  ASSUME LearntInv, NEW f \in flows, f.ip # Metadata, ~ Ambiguous(f)
  PROVE  /\ \E e \in EntriesOf(entries, Text(f)) : e.port = f.port /\ e.proto = f.proto
         /\ IsDomain(EntriesOf(entries, Text(f))) <=> f.host # NoName
<1>1. PICK e \in entries : e.host = Text(f) /\ e.port = f.port /\ e.proto = f.proto
  BY DEF LearntInv, Linked, SameKey
<1>2. \A k \in entries : k.host = Text(f) => (k.domain <=> f.host # NoName)
  BY DEF LearntInv, Linked, SameKey, Ambiguous
<1>3. e \in Kept(entries)
  <2>1. CASE f.host # NoName
    BY <1>1, <1>2, <2>1 DEF Kept
  <2>2. CASE f.host = NoName
    <3>1. f.ip \in Own /\ Metadata \in Own /\ Text(f) = AddrText[f.ip]
      BY <2>2, FlowFields DEF Own, Text, LearntInv, TypeOK
    <3>2. AddrText[f.ip] # AddrText[Metadata]
      BY <3>1, TextIsParsed
    <3> QED BY <1>1, <3>1, <3>2 DEF Kept
  <2> QED BY <2>1, <2>2
<1>4. e \in EntriesOf(entries, Text(f))
  BY <1>1, <1>3 DEF EntriesOf
<1>5. \A k \in EntriesOf(entries, Text(f)) : k \in entries /\ k.host = Text(f)
  BY DEF EntriesOf, Kept
<1>6. IsDomain(EntriesOf(entries, Text(f))) <=> f.host # NoName
  BY <1>1, <1>2, <1>4, <1>5 DEF IsDomain
<1> QED BY <1>1, <1>4, <1>6

\* The rule of the text of a flow that was seen reaches the destination it was seen
\* with, when it is a good one and for what the flow was taken for.
LEMMA SeenIsReached ==
  ASSUME NEW f \in Flows, NEW es, IsDomain(es) <=> f.host # NoName,
         GoodRule(RuleFor(Text(f), es)), NEW d \in Dests, d.domain = f.host, d.ip = f.ip
  PROVE  Reaches(Text(f), es, d)
<1>1. CASE f.host = NoName
  <2>1. Text(f) = AddrText[f.ip] /\ f.ip \in Own
    BY <1>1, FlowFields DEF Text
  <2> QED BY <1>1, <2>1, TextIsParsed DEF Reaches
<1>2. CASE f.host # NoName
  <2> DEFINE r == RuleFor(Text(f), es)
  <2>1. Text(f) = f.host
    BY <1>2 DEF Text
  <2>2. r.domains = {f.host}
    <3>1. r.domains = IF IsDomain(es) THEN {Text(f)} ELSE {}
      BY RuleFields
    <3> HIDE DEF r
    <3> QED BY <1>2, <2>1, <3>1
  <2>3. f.host \in Names \cup {NoName}
    BY FlowFields
  <2>4. NormalizeDomain(f.host) = f.host /\ f.host \in Seq(STRING)
    BY <2>3, NamesNormalized
  <2>5. GoodRule(r)
    OBVIOUS
  <2> HIDE DEF r
  <2>6. IsExact(f.host) \/ IsWildcard(f.host)
    BY <2>2, <2>4, <2>5 DEF GoodRule
  <2>7. IsWildcard(f.host) => IsStrictSuffix(Tail(f.host), f.host)
    BY <2>4, TailIsStrictSuffix DEF IsWildcard
  <2> QED BY <1>2, <2>1, <2>6, <2>7 DEF Reaches
<1> QED BY <1>1, <1>2

\* A file that was written allows every flow that was seen, but to the metadata
\* address, and but those of an address when a name that reads as it was seen too:
\* all else this host did has a rule (write.go:41-46, 64).
THEOREM SeenIsAllowed == Spec => []LearntPolicyAllowsWhatItSaw
<1>1. ASSUME LearntInv PROVE LearntPolicyAllowsWhatItSaw
  <2>1. SUFFICES ASSUME pc = "done"
                 PROVE  /\ Compile(file.policy).ok
                        /\ \A f \in flows :
                             f.ip # Metadata /\ ~ Ambiguous(f) =>
                               Verdict([domain |-> f.host, ip |-> f.ip, port |-> f.port,
                                        proto |-> f.proto, cgroup |-> NoCgroup]) = "allow"
    BY DEF LearntPolicyAllowsWhatItSaw
  <2>2. /\ file = PolicyFile(Rendered(entries)) /\ Compile(Rendered(entries)).ok
        /\ entries \in SUBSET Learnt /\ IsFiniteSet(entries) /\ flows \in SUBSET Flows
    BY <1>1, <2>1 DEF LearntInv, TypeOK
  <2>3. Compile(file.policy).ok
    BY <2>2 DEF PolicyFile
  <2>4. ASSUME NEW f \in flows, f.ip # Metadata, ~ Ambiguous(f)
        PROVE  Verdict([domain |-> f.host, ip |-> f.ip, port |-> f.port,
                        proto |-> f.proto, cgroup |-> NoCgroup]) = "allow"
    <3> DEFINE d == [domain |-> f.host, ip |-> f.ip, port |-> f.port, proto |-> f.proto,
                     cgroup |-> NoCgroup]
               h == Text(f)
               mine == EntriesOf(entries, h)
    <3>1. /\ \E e \in mine : e.port = f.port /\ e.proto = f.proto
          /\ IsDomain(mine) <=> f.host # NoName
      BY <1>1, <2>4, SeenIsKept
    <3>2. h \in Hosts(entries)
      BY <3>1 DEF EntriesOf, Hosts
    <3>3. d \in Dests
      BY <2>2, FlowFields DEF Dests
    <3>4. d.domain = f.host /\ d.ip = f.ip /\ d.port = f.port /\ d.proto = f.proto
      OBVIOUS
    <3>5. GoodRule(RuleFor(h, mine))
      BY <2>2, <3>2, LearntGood
    <3> HIDE DEF d, mine
    <3>6. Reaches(h, mine, d)
      BY <2>2, <3>1, <3>3, <3>4, <3>5, SeenIsReached
    <3> HIDE DEF h
    <3>7. Verdict(d) = "allow"
      BY <1>1, <2>1, <2>4, <3>1, <3>2, <3>3, <3>4, <3>6, DoneVerdict DEF mine
    <3> QED BY <3>7 DEF d
  <2> QED BY <2>3, <2>4
<1> QED BY <1>1, LearntInvariant, PTL

\* What the rule of a host reaches is the host of a flow of that text.
LEMMA ReachedIsSameHost ==
  ASSUME LearntInv, NEW h \in Hosts(entries), NEW d, Reaches(h, EntriesOf(entries, h), d)
  PROVE  \E f \in flows : Text(f) = h /\ SameHost(f, d)
<1> DEFINE mine == EntriesOf(entries, h)
<1>1. /\ mine # {} /\ (IsDomain(mine) => h \in Names)
      /\ flows \in SUBSET Flows
  BY HostFields DEF LearntInv, TypeOK
<1>2. CASE ~ IsDomain(mine)
  <2>1. PICK e \in mine : ~ e.domain
    BY <1>1, <1>2 DEF IsDomain
  <2>2. PICK f \in flows : Text(f) = h /\ f.host = NoName
    BY <2>1, EntryHasFlow
  <2>3. h = AddrText[f.ip] /\ f.ip \in Own
    BY <1>1, <2>2, FlowFields DEF Text
  <2>4. f.ip = d.ip
    BY <1>2, <2>3, TextIsParsed DEF Reaches
  <2> QED BY <2>2, <2>4 DEF SameHost
<1>3. CASE IsDomain(mine)
  <2>1. PICK e \in mine : e.domain
    BY <1>3 DEF IsDomain
  <2>2. PICK f \in flows : Text(f) = h /\ f.host # NoName
    BY <2>1, EntryHasFlow
  <2>3. f.host = h
    BY <2>2 DEF Text
  <2>4. h = d.domain \/ (IsWildcard(h) /\ IsStrictSuffix(Tail(h), d.domain))
    BY <1>3 DEF Reaches
  <2>5. CASE h = d.domain
    BY <2>2, <2>3, <2>5 DEF SameHost
  <2>6. CASE IsWildcard(h) /\ IsStrictSuffix(Tail(h), d.domain)
    <3> DEFINE r == [Blank EXCEPT !.domains = {f.host}]
               c == CompileRule(r, "allow")
    <3>1. r.domains = {f.host}
      BY DEF Blank
    <3>2. {NormalizeDomain(x) : x \in r.domains} = {f.host}
      BY <1>1, <1>3, <2>3, <3>1, NamesNormalized
    <3> HIDE DEF r
    <3>3. Tail(f.host) \in c.suffixes
      BY <2>3, <2>6, <3>2 DEF CompileRule
    <3> HIDE DEF c
    <3>4. CoversName(c, d.domain)
      BY <2>3, <2>6, <3>3 DEF CoversName
    <3> QED BY <2>2, <3>4 DEF SameHost, c, r
  <2> QED BY <2>4, <2>5, <2>6
<1> QED BY <1>2, <1>3

\* A file that was written allows the product of the ports and protocols seen of the
\* names and the address of one text, and never the metadata address, and no more
\* (write.go:41-58, 68).
THEOREM NoMoreIsAllowed == Spec => []LearntPolicyAllowsNoMore
<1>1. ASSUME LearntInv PROVE LearntPolicyAllowsNoMore
  <2>1. SUFFICES ASSUME pc = "done", NEW d \in Asked, Verdict(d) = "allow"
                 PROVE  /\ d.ip # Metadata
                        /\ \E f, g, h \in flows :
                             /\ SameHost(h, d) /\ Text(f) = Text(h) /\ Text(g) = Text(h)
                             /\ f.port = d.port /\ g.proto = d.proto
    BY DEF LearntPolicyAllowsNoMore
  <2>2. d \in Dests
    BY LearnAssumption DEF Asked, Dests, Own, Ports
  <2>3. /\ d.ip # Metadata
        /\ \E t \in Hosts(entries) : /\ \E e \in EntriesOf(entries, t) : e.port = d.port
                                      /\ \E g \in EntriesOf(entries, t) : g.proto = d.proto
                                      /\ Reaches(t, EntriesOf(entries, t), d)
    BY <1>1, <2>1, <2>2, DoneVerdict
  <2>4. PICK t \in Hosts(entries) : /\ \E e \in EntriesOf(entries, t) : e.port = d.port
                                    /\ \E g \in EntriesOf(entries, t) : g.proto = d.proto
                                    /\ Reaches(t, EntriesOf(entries, t), d)
    BY <2>3
  <2>5. PICK h \in flows : Text(h) = t /\ SameHost(h, d)
    BY <1>1, <2>4, ReachedIsSameHost
  <2>6. PICK f \in flows : Text(f) = t /\ f.port = d.port
    BY <1>1, <2>4, EntryHasFlow
  <2>7. PICK g \in flows : Text(g) = t /\ g.proto = d.proto
    BY <1>1, <2>4, EntryHasFlow
  <2> QED BY <2>3, <2>5, <2>6, <2>7
<1> QED BY <1>1, LearntInvariant, PTL

\* A policy that does not load has a rule with a port 0 or a name that is no pattern.
LEMMA BadRuleHasCause ==
  ASSUME NEW es \in SUBSET Learnt, IsFiniteSet(es), ~ Compile(Rendered(es)).ok
  PROVE  \E e \in es : e.port = 0 \/ (e.domain /\ ~ IsExact(e.host) /\ ~ IsWildcard(e.host))
<1> DEFINE allow == Rendered(es).allow
<1>1. \E i \in DOMAIN allow : ~ GoodRule(allow[i])
  <2>1. /\ Rendered(es).version = 1 /\ Rendered(es).default \in Verdicts
        /\ \A i \in DOMAIN Rendered(es).deny : GoodRule(Rendered(es).deny[i])
    BY RenderedRest, MetadataRule DEF Verdicts
  <2> QED BY <2>1 DEF Compile
<1>2. PICK h \in Hosts(es) : ~ GoodRule(RuleFor(h, EntriesOf(es, h)))
  BY <1>1, RenderedAllow
<1> DEFINE mine == EntriesOf(es, h)
           r == RuleFor(h, mine)
<1>3. /\ mine \in SUBSET Learnt /\ mine # {} /\ mine \subseteq es
      /\ IsDomain(mine) => h \in Names
      /\ ~ IsDomain(mine) => Parsed(h) \in Own
      /\ \A e \in mine : e.host = h
  BY HostFields DEF EntriesOf, Kept
<1>4. /\ r.domains = IF IsDomain(mine) THEN {h} ELSE {}
      /\ r.cidrs = IF IsDomain(mine) THEN {} ELSE {Parsed(h)}
      /\ r.ports = {[lo |-> e.port, hi |-> e.port] : e \in mine}
      /\ r.cgroup = NoCgroup
  BY RuleFields
<1>5. r.proto \in {"", "tcp", "udp"}
  BY <1>3, LearntProto
<1> HIDE DEF mine, r
<1>6. BadCidr \notin r.cidrs
  BY <1>3, <1>4, OwnAddresses
<1>7. CASE \E e \in mine : e.port = 0
  BY <1>3, <1>7
<1>8. CASE IsDomain(mine) /\ ~ IsExact(h) /\ ~ IsWildcard(h)
  BY <1>3, <1>8 DEF IsDomain
<1>9. CASE (\A e \in mine : e.port # 0) /\ (~ IsDomain(mine) \/ IsExact(h) \/ IsWildcard(h))
  <2>1. \A e \in mine : e.port \in 1..MaxPort
    BY <1>3, <1>9, EntryFields
  <2>2. \A p \in r.ports : GoodPorts(p)
    <3>1. ASSUME NEW n \in 1..MaxPort PROVE GoodPorts([lo |-> n, hi |-> n])
      <4> DEFINE p == [lo |-> n, hi |-> n]
      <4>1. p.lo = n /\ p.hi = n
        OBVIOUS
      <4>2. 1 <= n /\ n <= n /\ n <= MaxPort
        <5>1. MaxPort \in Int
          BY DEF MaxPort
        <5> QED BY <5>1
      <4> HIDE DEF p
      <4>3. GoodPorts(p)
        BY <4>1, <4>2, Zenon DEF GoodPorts
      <4> QED BY <4>3 DEF p
    <3> QED BY <1>4, <2>1, <3>1
  <2>3. \A x \in r.domains : IsExact(NormalizeDomain(x)) \/ IsWildcard(NormalizeDomain(x))
    BY <1>3, <1>4, <1>9, NamesNormalized
  <2>4. GoodRule(r)
    BY <1>4, <1>5, <1>6, <2>2, <2>3 DEF GoodRule
  <2> QED BY <1>2, <2>4 DEF r, mine
<1> QED BY <1>7, <1>8, <1>9

\* learn gives its policy up, and leaves the file empty, only after a flow to port
\* 0 or a question whose name has a "*" and is no pattern (write.go:102-104).
THEOREM RejectionHasCause == Spec => []RejectedOnlyForPortOrName
<1>1. ASSUME LearntInv PROVE RejectedOnlyForPortOrName
  <2>1. SUFFICES ASSUME pc = "rejected"
                 PROVE  /\ file = EmptyFile
                        /\ \E f \in flows :
                             f.port = 0 \/ (~ IsExact(f.host) /\ ~ IsWildcard(f.host) /\ f.host # NoName)
    BY DEF RejectedOnlyForPortOrName
  <2>2. /\ file = EmptyFile /\ ~ Compile(Rendered(entries)).ok
        /\ entries \in SUBSET Learnt /\ IsFiniteSet(entries)
    BY <1>1, <2>1 DEF LearntInv, TypeOK
  <2>3. PICK e \in entries : e.port = 0 \/ (e.domain /\ ~ IsExact(e.host) /\ ~ IsWildcard(e.host))
    BY <2>2, BadRuleHasCause
  <2>4. PICK f \in flows : /\ Text(f) = e.host /\ f.port = e.port
                          /\ (e.domain <=> f.host # NoName)
    BY <1>1 DEF LearntInv, Linked, SameKey
  <2>5. e.domain => f.host = e.host /\ f.host # NoName
    BY <2>4 DEF Text
  <2> QED BY <2>2, <2>3, <2>4, <2>5
<1> QED BY <1>1, LearntInvariant, PTL
=============================================================================
