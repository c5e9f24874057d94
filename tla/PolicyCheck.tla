---------------------------- MODULE PolicyCheck -----------------------------
(***************************************************************************)
(* A policy file asked twice about one connection: by Evaluate, the way    *)
(* `egresswall check` and the dry run ask it, and by the kernel, once the  *)
(* plan is loaded and every DNS answer has reached its sets.               *)
(***************************************************************************)
EXTENDS Ruleset

CONSTANTS Files,        \* policy files, as written
          Connections,  \* [name, ip, port, proto, cgroup, hook]
          Resolves      \* <<name, address>> pairs the DNS answered

Address == [fam : {"v4", "v4in6", "v6"}, bits : Seq({0, 1})]

RuleSyntax ==
  [domains : SUBSET Seq(STRING), cidrs : SUBSET [fam : STRING, bits : Seq({0, 1})],
   ports : SUBSET [lo : Nat, hi : Nat], proto : STRING, cgroup : Seq(STRING)]

ASSUME FilesAssumption ==
  \A f \in Files : f.deny \in Seq(RuleSyntax) /\ f.allow \in Seq(RuleSyntax)

\* A resolver answers for names, with addresses.
ASSUME ResolvesAssumption ==
  \A p \in Resolves :
    p[1] \in Seq(STRING) /\ NormalizeDomain(p[1]) # NoName /\ p[2] \in Address

\* The name asked about is the one its address was answered for: with two, the
\* cache keeps the last and the sets keep both (see Enforce).  A forwarded
\* connection has no socket, and so no cgroup, on this host.
ASSUME ConnectionsAssumption ==
  \A c \in Connections :
    /\ c.ip \in Address
    /\ c.port \in Nat /\ c.proto \in {"tcp", "udp"}
    /\ c.cgroup \in Seq(STRING)
    /\ c.hook = "output" \/ (c.hook = "forward" /\ c.cgroup = NoCgroup)
    /\ {p[1] : p \in {q \in Resolves : Unmap(q[2]) = Unmap(c.ip)}}
         = IF c.name = NoName THEN {} ELSE {c.name}

\* A socket's cgroup is a path the kernel gave (procs/lookup_linux.go): nothing in
\* it is empty but its ends.
ASSUME CgroupsAssumption ==
  \A c \in Connections : "" \notin Range(TrimSlashes(c.cgroup))

VARIABLES stage,     \* "start", "ready", "rejected", "done"
          file,      \* the policy file
          set,       \* what Load made of it
          conn,      \* the connection asked about
          decision,  \* Evaluate's answer
          filtered   \* the kernel's answer

vars == <<stage, file, set, conn, decision, filtered>>

NoConnection == [name |-> NoName, ip |-> NoIP, port |-> 0, proto |-> "", cgroup |-> NoCgroup,
                 hook |-> "output"]
NoDecision   == [verdict |-> "none", rule |-> 0]

Init ==
  /\ stage = "start"
  /\ file \in Files
  /\ set = Rejected
  /\ conn = NoConnection
  /\ decision = NoDecision
  /\ filtered = NoDecision

LoadPolicy ==
  /\ stage = "start"
  /\ set' = Compile(file)
  /\ stage' = IF set'.ok THEN "ready" ELSE "rejected"
  /\ UNCHANGED <<file, conn, decision, filtered>>

DestOf(c) == [domain |-> c.name, ip |-> c.ip, port |-> c.port, proto |-> c.proto,
              cgroup |-> c.cgroup]

\* The first packet of a new connection that leaves the host.
PacketOf(c) == [ip |-> Unmap(c.ip), port |-> c.port, proto |-> c.proto,
                cgroup |-> TrimSlashes(c.cgroup), hook |-> c.hook, oif |-> "eth", est |-> FALSE]

\* The plan with every cgroup present (its path is its id) and every answer
\* of Resolves fed to the sets.
Fed(rules, s, ip) ==
  \E p \in Resolves :
    /\ Unmap(p[2]) = ip
    /\ \E i \in DomainRules(rules, p[1]) : SetFor(i, p[2]) = s

TableOf(rules) ==
  [loaded  |-> {[atom |-> a, id |-> a.cgroup] : a \in Atoms(rules)},
   elems   |-> [s \in PlanSets(rules) |->
                  [ip \in {Unmap(c.ip) : c \in Connections} |->
                     IF Fed(rules, s, ip) THEN 1 ELSE 0]],
   forward |-> TRUE]

PathIds(path) == LET paths == {SubSeq(path, 1, n) : n \in 0..Len(path)} IN [p \in paths |-> p]

Connect(c) ==
  /\ stage = "ready"
  /\ stage' = "done"
  /\ conn' = c
  /\ decision' = Evaluate(set.rules, set.default, DestOf(c))
  /\ filtered' = Filter(TableOf(set.rules), set.default, PacketOf(c),
                        PathIds(PacketOf(c).cgroup))
  /\ UNCHANGED <<file, set>>

Next == LoadPolicy \/ \E c \in Connections : Connect(c)

Spec == Init /\ [][Next]_vars

----------------------------------------------------------------------------
(* Reference semantics: the README read on the file as written.            *)

Bare(labels) == IF labels # <<>> /\ Last(labels) = "" THEN Front(labels) ELSE labels

\* `*.example.com` matches subdomains only.
PatternCovers(pattern, name) ==
  LET p == Bare(pattern) IN
  IF p[1] = "*"
  THEN /\ Len(name) >= Len(p)
       /\ \A k \in 1..(Len(p) - 1) : name[Len(name) - Len(p) + 1 + k] = p[1 + k]
  ELSE name = p

\* Which part of a path its i-th label is: the n-th that is not empty.
Place(path, i) == Cardinality({k \in 1..i : path[k] # ""})

\* "from that cgroup v2 path or any cgroup below it" (policy.go:44-46): the parts
\* of the rule's path are the first of the socket's.
Below(child, parent) ==
  \A i \in DOMAIN parent : parent[i] # "" =>
    \E j \in DOMAIN child : child[j] = parent[i] /\ Place(child, j) = Place(parent, i)

SameNet(pfx, ip) ==
  /\ pfx.fam = ip.fam
  /\ Len(pfx.bits) <= Len(ip.bits)
  /\ \A k \in DOMAIN pfx.bits : pfx.bits[k] = ip.bits[k]

Applies(r, c) ==
  /\ \/ r.domains = {} /\ r.cidrs = {}
     \/ \E d \in r.domains : c.name # NoName /\ PatternCovers(d, Bare(c.name))
     \/ \E pfx \in r.cidrs : SameNet(pfx, Unmap(c.ip))
  /\ r.ports # {} => \E p \in r.ports : c.port \in p.lo..p.hi
  /\ r.proto \in {"", c.proto}
  /\ r.cgroup # NoCgroup => Below(c.cgroup, r.cgroup)

\* What README.md:93 promises: "Deny wins, then allow in file order, then
\* default" (policy.go Compile and Evaluate), on files that load at all: the
\* decision names the first rule of the winning list that applies.
DenyThenAllowThenDefault ==
  stage = "done" =>
    LET denying  == {i \in DOMAIN file.deny : Applies(file.deny[i], conn)}
        allowing == {i \in DOMAIN file.allow : Applies(file.allow[i], conn)}
    IN  decision =
          IF denying # {} THEN [verdict |-> "deny", rule |-> Min(denying)]
          ELSE IF allowing # {}
               THEN [verdict |-> "allow", rule |-> Len(file.deny) + Min(allowing)]
               ELSE [verdict |-> file.default, rule |-> 0]

\* The chains of Apply decide as Evaluate does, and log the same rule: the
\* expansion into atoms (plan.go Build, apply_linux.go atomExprs, the forward
\* chain that leaves cgroup atoms out) and the sets feed fills lose nothing.
KernelAgrees ==
  stage = "done" /\ ~ PreAccepted(PacketOf(conn)) => filtered = decision

\* "-print shows the exact nft ruleset the policy becomes" (README.md:159), which
\* is written beside what Apply sends and not from it (plan.go:155-157): read by
\* nft, the text accepts and rejects what the loaded table does, and nothing is
\* left to a drop that no line logs.
PrintedIsLoaded ==
  stage = "done" /\ ~ PreAccepted(PacketOf(conn)) =>
    TextVerdict(Text(set.rules, set.default, TRUE), PacketOf(conn), TableOf(set.rules).elems)
      = IF filtered.verdict = "allow" THEN "accept" ELSE "reject"

\* Every set that feed names for a DNS answer exists in the table, so AddAddrs
\* never throws a whole batch away on "no set" (SetFor and DomainRules against
\* Build, over all names and both families).
FeedFindsItsSets ==
  stage # "start" =>
    \A p \in Resolves : \A i \in DomainRules(set.rules, p[1]) :
      SetFor(i, p[2]) \in PlanSets(set.rules)
=============================================================================
