------------------------------- MODULE Policy -------------------------------
(***************************************************************************)
(* internal/policy: the rules of a policy file, their compiled form, and   *)
(* the verdict they give on a destination.                                 *)
(*                                                                         *)
(* DNS names, name patterns and cgroup paths are sequences of labels: a    *)
(* label is one dot- or slash-separated part, a trailing dot is a trailing *)
(* "" label, and "/a/" is <<"", "a", "">>.  Comparison is case-insensitive *)
(* in the code, so a label of a name, like a protocol, stands for all its  *)
(* spellings.  An address is a family and its leading bits.                *)
(***************************************************************************)
EXTENDS Integers, FiniteSets, Sequences, SequencesExt

MaxPort == 65535

NoName   == <<>>
NoCgroup == <<>>
NoIP     == [fam |-> "none", bits |-> <<>>]
BadCidr  == [fam |-> "bad", bits |-> <<>>]

Verdicts == {"deny", "allow"}

----------------------------------------------------------------------------
(* Names, addresses, cgroup paths.                                         *)

NormalizeDomain(name) ==
  IF name # <<>> /\ Last(name) = "" THEN Front(name) ELSE name

\* netip.Addr.Unmap: a v4-mapped IPv6 address becomes the IPv4 address.
Unmap(ip) == IF ip.fam = "v4in6" THEN [ip EXCEPT !.fam = "v4"] ELSE ip

\* netip.Prefix.Contains: families must agree.
PrefixContains(pfx, ip) == pfx.fam = ip.fam /\ IsPrefix(pfx.bits, ip.bits)

\* strings.Trim(path, "/"): the empty parts at both ends go.
TrimSlashes(path) ==
  LET named == {i \in DOMAIN path : path[i] # ""}
  IN  IF named = {} THEN NoCgroup ELSE SubSeq(path, Min(named), Max(named))

GoodCgroup(path) ==
  /\ TrimSlashes(path) # NoCgroup
  /\ Range(TrimSlashes(path)) \cap {"", ".", ".."} = {}

CgroupWithin(child, parent) == IsPrefix(parent, child)

----------------------------------------------------------------------------
(* Compilation: a rule of the file to the rule the daemon evaluates.       *)

IsExact(pattern) == pattern # <<>> /\ "*" \notin Range(pattern)
IsWildcard(pattern) ==
  /\ Len(pattern) > 1
  /\ pattern[1] = "*"
  /\ "*" \notin Range(Tail(pattern))

GoodPorts(range) == 1 <= range.lo /\ range.lo <= range.hi /\ range.hi <= MaxPort

GoodRule(r) ==
  /\ \A d \in r.domains : IsExact(NormalizeDomain(d)) \/ IsWildcard(NormalizeDomain(d))
  /\ BadCidr \notin r.cidrs
  /\ \A p \in r.ports : GoodPorts(p)
  /\ r.proto \in {"", "tcp", "udp"}
  /\ r.cgroup # NoCgroup => GoodCgroup(r.cgroup)

CompileRule(r, verdict) ==
  LET patterns == {NormalizeDomain(d) : d \in r.domains}
  IN  [verdict  |-> verdict,
       exact    |-> {d \in patterns : IsExact(d)},
       suffixes |-> {Tail(d) : d \in {p \in patterns : IsWildcard(p)}},
       prefixes |-> r.cidrs,
       ports    |-> r.ports,
       proto    |-> r.proto,
       cgroup   |-> TrimSlashes(r.cgroup)]

\* Mutant: rules kept in the order allow, deny.
AllowFirstRules(file) ==
  [i \in 1..Len(file.allow) |-> CompileRule(file.allow[i], "allow")]
    \o [i \in 1..Len(file.deny) |-> CompileRule(file.deny[i], "deny")]

\* Deny rules first, then allow rules, each in the order of the file.
CompiledRules(file) ==
  [i \in 1..Len(file.deny) |-> CompileRule(file.deny[i], "deny")]
    \o [i \in 1..Len(file.allow) |-> CompileRule(file.allow[i], "allow")]

Rejected == [ok |-> FALSE, default |-> "deny", rules |-> <<>>]

\* A file with one bad rule is rejected as a whole.
Compile(file) ==
  IF /\ file.version = 1
     /\ file.default \in Verdicts
     /\ \A i \in DOMAIN file.deny : GoodRule(file.deny[i])
     /\ \A i \in DOMAIN file.allow : GoodRule(file.allow[i])
  THEN [ok |-> TRUE, default |-> file.default, rules |-> CompiledRules(file)]
  ELSE Rejected

----------------------------------------------------------------------------
(* Evaluation of a destination d = [domain, ip, port, proto, cgroup].      *)

AnyHost(r) == r.exact = {} /\ r.suffixes = {} /\ r.prefixes = {}

HasDomains(r) == r.exact # {} \/ r.suffixes # {}

\* An exact name, or a name strictly below a wildcard's suffix.
CoversName(r, name) ==
  name \in r.exact \/ \E s \in r.suffixes : IsStrictSuffix(s, name)

InRange(port, range) == range.lo <= port /\ port <= range.hi

MatchPorts(r, port) == r.ports = {} \/ \E p \in r.ports : InRange(port, p)

MatchProto(r, proto) == r.proto = "" \/ proto = "" \/ r.proto = proto

MatchHost(r, name, ip) ==
  \/ AnyHost(r)
  \/ name # NoName /\ CoversName(r, name)
  \/ ip # NoIP /\ \E pfx \in r.prefixes : PrefixContains(pfx, Unmap(ip))

Match(r, d) ==
  /\ r.cgroup # NoCgroup => CgroupWithin(TrimSlashes(d.cgroup), r.cgroup)
  /\ MatchProto(r, d.proto)
  /\ MatchPorts(r, d.port)
  /\ MatchHost(r, NormalizeDomain(d.domain), d.ip)

Matching(rules, d) == {i \in DOMAIN rules : Match(rules[i], d)}

\* The first matching rule decides; rule 0 is the default.
Evaluate(rules, default, d) ==
  IF Matching(rules, d) = {}
  THEN [verdict |-> default, rule |-> 0]
  ELSE LET first == Min(Matching(rules, d))
       IN  [verdict |-> rules[first].verdict, rule |-> first]

\* The rules whose patterns cover a name: where a DNS answer for it belongs.
DomainRules(rules, name) == {i \in DOMAIN rules : CoversName(rules[i], NormalizeDomain(name))}
=============================================================================
