------------------------------- MODULE Enforce ------------------------------
(***************************************************************************)
(* cmd/egresswall/enforce.go, enforcing: one daemon that loads the table,  *)
(* feeds it the DNS answers it captures, reloads it when a cgroup appears  *)
(* and removes it when it stops; the kernel that holds the table; the      *)
(* cgroup tree the rules refer to; the traffic.                            *)
(*                                                                         *)
(* Time is the remaining lifetime of what expires, which Tick decrements.  *)
(***************************************************************************)
EXTENDS Plan

CONSTANTS
  Rules, Default, Forward,  \* the policy, compiled, and -forward
  Questions,                \* names as they stand in DNS questions
  Addrs,                    \* addresses DNS answers carry and packets go to
  Packets,                  \* packets the properties ask the kernel about
  Cgroups,                  \* cgroup paths, closed under parents
  TTLs, MinTTL,             \* wire TTLs, and learnMinTTL (learn.go:24)
  CheckEvery,               \* the 5 s between two looks at missing cgroups
  FrameCap,                 \* bound: frames the capture socket holds
  MaxInode,                 \* bound: cgroup directories ever made
  Refresh,                  \* re-adding an element resets its timeout (Linux 6.12)
  KernelMayRefuse           \* whether netlink calls and reads may fail

Names  == {NormalizeDomain(q) : q \in Questions}
KAddrs == {Unmap(ip) : ip \in Addrs}
Sets   == PlanSets(Rules)

Stretch(ttl) == IF ttl < MinTTL THEN MinTTL ELSE ttl
Lifetimes    == {Stretch(ttl) : ttl \in TTLs} \cup {MinTTL}
Left         == UNION {0..n : n \in Lifetimes}

Address == [fam : {"v4", "v6", "v4in6"}, bits : Seq({0, 1})]
Rule ==
  [verdict : Verdicts, exact : SUBSET Seq(STRING), suffixes : SUBSET Seq(STRING),
   prefixes : SUBSET Address, ports : SUBSET [lo : 1..MaxPort, hi : 1..MaxPort],
   proto : {"", "tcp", "udp"}, cgroup : Cgroups \cup {NoCgroup}]
Packet ==
  [ip : KAddrs, port : 0..MaxPort, proto : {"tcp", "udp", "icmp"},
   cgroup : Cgroups \cup {NoCgroup}, hook : {"output", "forward"},
   oif : {"lo", "bridge", "eth"}, est : BOOLEAN]

ASSUME PolicyAssumption ==
  /\ Rules \in Seq(Rule)
  /\ Default \in Verdicts
  /\ Forward \in BOOLEAN
  /\ \A i \in DOMAIN Rules : Rules[i].exact \subseteq Names
  /\ \A i, j \in DOMAIN Rules :        \* as CompiledRules leaves them
       i <= j /\ Rules[j].verdict = "deny" => Rules[i].verdict = "deny"

ASSUME WorldAssumption ==
  /\ Addrs \subseteq Address
  /\ KAddrs \subseteq Addrs
  /\ Packets \subseteq Packet
  /\ NoCgroup \notin Cgroups
  /\ \A c \in Cgroups : c \in Seq(STRING) /\ \A n \in 1..Len(c) : SubSeq(c, 1, n) \in Cgroups

ASSUME BoundsAssumption ==
  /\ TTLs \subseteq Nat
  /\ MinTTL \in Nat \ {0}
  /\ {CheckEvery, FrameCap, MaxInode} \subseteq Nat
  /\ {Refresh, KernelMayRefuse} \subseteq BOOLEAN

VARIABLES
  pc,         \* where the main goroutine is
  stop,       \* the signal context is done
  build,      \* the batch Apply is building
  handle,     \* the cgroups Apply left out (Handle.missing)
  seeding,    \* <<rule, name>> pairs seed has still to resolve
  pending,    \* the answer being fed, and where feed returns to
  cache,      \* dnswatch.Cache: the last name each address answered for
  since,      \* time since the last cgroup check, saturating
  frames,     \* what the capture socket holds
  table,      \* the kernel's inet egresswall table
  inode,      \* the cgroup tree: inode of each path, NoId when absent
  lastInode,  \* inodes are never reused
  promise,    \* history: how long what was fed to the table loaded still counts
  recent,     \* history: how long what was fed to it is younger than MinTTL
  lapsed      \* history: a reload or a refused batch lost addresses since startup

daemon == <<pc, stop, build, handle, seeding, pending, cache, since>>
world  == <<inode, lastInode>>
vars   == <<daemon, frames, table, world, promise, recent, lapsed>>

----------------------------------------------------------------------------
(* Shapes.                                                                 *)

EmptySets == [s \in Sets |-> [ip \in KAddrs |-> 0]]
NoTable   == [present |-> FALSE, loaded |-> {}, elems |-> EmptySets, forward |-> FALSE]
NoEntry   == [name |-> NoName, left |-> 0]
NoCache   == [ip \in Addrs |-> NoEntry]
NoBuild   == [left |-> {}, loaded |-> {}, missing |-> {}, reload |-> FALSE]
NoPending == [name |-> NoName, addrs |-> {}, ttl |-> 0, back |-> "loop"]

\* A frame is a DNS answer, one whose handling ends at a `continue` (it does
\* not parse), or any other: what the loop handles to its end.
DnsFrames   == [kind : {"dns"}, question : Questions, addrs : SUBSET Addrs \ {{}}, ttl : TTLs]
PlainFrames == [kind : {"junk", "other"}, question : {NoName}, addrs : {{}}, ttl : {0}]
Frames      == DnsFrames \cup PlainFrames

CgroupAtoms == {a \in Atoms(Rules) : a.cgroup # NoCgroup}
\* Mutant: a reload looks up only the cgroups that were missing.
NewBuildOfMissing(reload) ==
  [left    |-> {a \in CgroupAtoms : reload => a.cgroup \in handle},
   loaded  |-> {[atom |-> a, id |-> NoId] : a \in Atoms(Rules) \ CgroupAtoms},
   missing |-> {},
   reload  |-> reload]

\* Mutant: a reload sends only what is new, though it replaces the table.
NewBuildOfCgroupAtoms(reload) ==
  [left    |-> CgroupAtoms,
   loaded  |-> IF reload THEN {}
               ELSE {[atom |-> a, id |-> NoId] : a \in Atoms(Rules) \ CgroupAtoms},
   missing |-> {},
   reload  |-> reload]

NewBuild(reload) ==
  [left    |-> CgroupAtoms,
   loaded  |-> {[atom |-> a, id |-> NoId] : a \in Atoms(Rules) \ CgroupAtoms},
   missing |-> {},
   reload  |-> reload]

Init ==
  /\ pc = "down" /\ stop = FALSE
  /\ build = NoBuild /\ handle = {} /\ seeding = {} /\ pending = NoPending
  /\ cache = NoCache /\ since = 0 /\ frames = <<>>
  /\ table = NoTable
  /\ inode = [c \in Cgroups |-> NoId] /\ lastInode = NoId
  /\ promise = [p \in Names \X KAddrs |-> 0]
  /\ recent = [p \in Names \X KAddrs |-> 0]
  /\ lapsed = FALSE

----------------------------------------------------------------------------
(* Startup and reload: runEnforce up to the loop, Apply, seed.             *)

\* The socket is open from here on, and ctx catches the signals.
Start ==
  /\ pc = "down"
  /\ pc' = "apply" /\ stop' = FALSE
  /\ build' = NewBuild(FALSE)
  /\ lapsed' = FALSE
  /\ UNCHANGED <<handle, seeding, pending, cache, since, frames, table, world, promise, recent>>

\* Mutant: an atom whose cgroup is missing is loaded without the cgroup match.
LookedUpOpen(a) ==
  IF inode[a.cgroup] = NoId
  THEN [build EXCEPT !.left = @ \ {a}, !.missing = @ \cup {a.cgroup},
                     !.loaded = @ \cup {[atom |-> [a EXCEPT !.cgroup = NoCgroup], id |-> NoId]}]
  ELSE [build EXCEPT !.left = @ \ {a},
                     !.loaded = @ \cup {[atom |-> a, id |-> inode[a.cgroup]]}]

\* Mutant: an atom is left out and its cgroup not noted.
LookedUpForgetful(a) ==
  [build EXCEPT !.left = @ \ {a},
                !.loaded = IF inode[a.cgroup] = NoId THEN @
                           ELSE @ \cup {[atom |-> a, id |-> inode[a.cgroup]]}]

\* The batch after one more cgroup lookup: the atom under the id it has now,
\* or left out.
LookedUp(a) ==
  IF inode[a.cgroup] = NoId
  THEN [build EXCEPT !.left = @ \ {a}, !.missing = @ \cup {a.cgroup}]
  ELSE [build EXCEPT !.left = @ \ {a},
                     !.loaded = @ \cup {[atom |-> a, id |-> inode[a.cgroup]]}]

\* Apply looks a cgroup up as it meets its atom, in the order of the rules.
ResolveAtom ==
  /\ pc = "apply"
  /\ \E a \in build.left :
       /\ \A b \in build.left : a.rule <= b.rule
       /\ build' = LookedUp(a)
  /\ UNCHANGED <<pc, stop, handle, seeding, pending, cache, since, frames, table, world,
                 promise, recent, lapsed>>

\* The batch commits: the kernel drops the old table and has the new one, its
\* sets empty.
Commit ==
  /\ pc = "apply" /\ build.left = {}
  /\ table' = [present |-> TRUE, loaded |-> build.loaded, elems |-> EmptySets,
               forward |-> Forward]
  /\ handle' = build.missing
  /\ seeding' = {p \in (DOMAIN Rules) \X Names : p[2] \in Rules[p[1]].exact}
  /\ promise' = [p \in Names \X KAddrs |-> 0]
  /\ recent' = [p \in Names \X KAddrs |-> 0]
  /\ lapsed' = build.reload
  /\ pc' = "seed"
  /\ UNCHANGED <<stop, build, pending, cache, since, frames, world>>

\* What a process that ends leaves of its own state.
Exit ==
  /\ pc' = "down" /\ stop' = FALSE
  /\ build' = NoBuild /\ handle' = {} /\ seeding' = {} /\ pending' = NoPending
  /\ cache' = NoCache /\ since' = 0 /\ frames' = <<>>

\* Mutant: a failed reload overwrites the handle (handle, err = nft.Apply).
ApplyFailsLosingHandle ==
  /\ KernelMayRefuse
  /\ pc = "apply"
  /\ \/ ~ build.reload /\ Exit
     \/ /\ build.reload
        /\ pc' = "loop" /\ build' = NoBuild /\ handle' = {}
        /\ UNCHANGED <<stop, seeding, pending, cache, since, frames>>
  /\ UNCHANGED <<table, world, promise, recent, lapsed>>

\* Apply returns an error, the batch uncommitted: fatal at startup, where no
\* table is removed; a reload carries on with the table it has.
ApplyFails ==
  /\ KernelMayRefuse
  /\ pc = "apply"
  /\ \/ ~ build.reload /\ Exit
     \/ /\ build.reload
        /\ pc' = "loop" /\ build' = NoBuild
        /\ UNCHANGED <<stop, handle, seeding, pending, cache, since, frames>>
  /\ UNCHANGED <<table, world, promise, recent, lapsed>>

\* Cache.Record: the last answer wins, and a short TTL is stretched.
Record(answer) ==
  cache' = [ip \in Addrs |->
              IF ip \in answer.addrs
              THEN [name |-> answer.name, left |-> Stretch(answer.ttl)]
              ELSE cache[ip]]

\* LookupNetIP answers or fails (the five seconds of all lookups included).
SeedLookup ==
  /\ pc = "seed"
  /\ \E p \in seeding :
       /\ \A q \in seeding : p[1] <= q[1]
       /\ seeding' = seeding \ {p}
       /\ \/ UNCHANGED <<pc, pending, cache>>
          \/ \E addrs \in SUBSET KAddrs \ {{}} :
               /\ pending' = [name |-> p[2], addrs |-> addrs, ttl |-> MinTTL, back |-> "seed"]
               /\ Record(pending')
               /\ pc' = "feed"
  /\ UNCHANGED <<stop, build, handle, since, frames, table, world, promise, recent, lapsed>>

SeedDone ==
  /\ pc = "seed" /\ seeding = {}
  /\ pc' = "loop"
  /\ build' = NoBuild
  /\ since' = IF build.reload THEN since ELSE 0
  /\ UNCHANGED <<stop, handle, seeding, pending, cache, frames, table, world, promise, recent, lapsed>>

----------------------------------------------------------------------------
(* feed: the answer's addresses into the sets of every rule that covers    *)
(* the name, in one batch.                                                 *)

\* Mutant: the answer goes to the first covering rule alone.
AddsToFirstRule(answer) ==
  {<<SetFor(i, ip), Unmap(ip)>> :
     i \in {j \in DomainRules(Rules, answer.name) :
              \A k \in DomainRules(Rules, answer.name) : j <= k},
     ip \in answer.addrs}

\* Mutant: a rule with a wildcard takes any answer.
AddsToAnyWildcard(answer) ==
  {<<SetFor(i, ip), Unmap(ip)>> :
     i \in DomainRules(Rules, answer.name) \cup {j \in DOMAIN Rules : Rules[j].suffixes # {}},
     ip \in answer.addrs}

\* Mutant: only the rules that allow are fed.
AddsToAllowRules(answer) ==
  {<<SetFor(i, ip), Unmap(ip)>> :
     i \in {j \in DomainRules(Rules, answer.name) : Rules[j].verdict = "allow"},
     ip \in answer.addrs}

\* Mutant: the answer goes to the rules that have the name exactly.
AddsToExactRules(answer) ==
  {<<SetFor(i, ip), Unmap(ip)>> :
     i \in {j \in DomainRules(Rules, answer.name) : answer.name \in Rules[j].exact},
     ip \in answer.addrs}

Adds(answer) ==
  {<<SetFor(i, ip), Unmap(ip)>> : i \in DomainRules(Rules, answer.name), ip \in answer.addrs}

\* This name with this address is in the answer.
IsIn(p, answer) == p[1] = answer.name /\ p[2] \in {Unmap(ip) : ip \in answer.addrs}

FeedAdd ==
  /\ pc = "feed"
  /\ Adds(pending) # {} => table.present
  /\ LET fresh == Stretch(pending.ttl) IN
     /\ table' = [table EXCEPT !.elems =
                    [s \in Sets |-> [ip \in KAddrs |->
                       IF <<s, ip>> \in Adds(pending) /\ (Refresh \/ @[s][ip] = 0)
                       THEN fresh ELSE @[s][ip]]]]
     /\ promise' = [p \in Names \X KAddrs |->
                      IF IsIn(p, pending) /\ promise[p] < fresh THEN fresh ELSE promise[p]]
     /\ recent' = [p \in Names \X KAddrs |-> IF IsIn(p, pending) THEN MinTTL ELSE recent[p]]
  /\ pc' = pending.back /\ pending' = NoPending
  /\ UNCHANGED <<stop, build, handle, seeding, cache, since, frames, world, lapsed>>

\* The error is logged and the addresses are gone.
FeedRefused ==
  /\ pc = "feed"
  /\ Adds(pending) # {}
  /\ ~ table.present \/ KernelMayRefuse
  /\ lapsed' = TRUE
  /\ pc' = pending.back /\ pending' = NoPending
  /\ UNCHANGED <<stop, build, handle, seeding, cache, since, frames, table, world, promise, recent>>

----------------------------------------------------------------------------
(* The loop: one frame at a time, until the context is done.               *)

Reading(kind) ==
  /\ pc = "loop" /\ ~ stop
  /\ frames # <<>> /\ Head(frames).kind = kind
  /\ frames' = Tail(frames)

ReadJunk ==
  /\ Reading("junk")
  /\ UNCHANGED <<daemon, table, world, promise, recent, lapsed>>

\* Mutant: the question name keeps its trailing dot.
AnswerDotted(frame) ==
  [name |-> frame.question, addrs |-> frame.addrs, ttl |-> frame.ttl, back |-> "loop"]

\* dnswatch.Parse: the addresses under the question's name, whatever CNAMEs led
\* to them.
AnswerOf(frame) ==
  [name |-> NormalizeDomain(frame.question), addrs |-> frame.addrs, ttl |-> frame.ttl,
   back |-> "loop"]

ReadDns ==
  /\ Reading("dns")
  /\ pending' = AnswerOf(Head(frames))
  /\ Record(pending')
  /\ pc' = "feed"
  /\ UNCHANGED <<stop, build, handle, seeding, since, table, world, promise, recent, lapsed>>

Appeared(missing) == \E c \in missing : inode[c] # NoId

\* Mutant: the old table is removed before the new one is built.
ReadOtherRemovingFirst ==
  /\ Reading("other")
  /\ since' = IF since > CheckEvery THEN 0 ELSE since
  /\ IF since > CheckEvery /\ Appeared(handle)
     THEN pc' = "apply" /\ build' = NewBuild(TRUE) /\ table' = NoTable
     ELSE UNCHANGED <<pc, build, table>>
  /\ UNCHANGED <<stop, handle, seeding, pending, cache, world, promise, recent, lapsed>>

\* Only here does the loop look for cgroups that appeared since the load.
ReadOther ==
  /\ Reading("other")
  /\ since' = IF since > CheckEvery THEN 0 ELSE since
  /\ IF since > CheckEvery /\ Appeared(handle)
     THEN pc' = "apply" /\ build' = NewBuild(TRUE)
     ELSE UNCHANGED <<pc, build>>
  /\ UNCHANGED <<stop, handle, seeding, pending, cache, table, world, promise, recent, lapsed>>

\* Mutant: the context is looked at only when a read times out.
LeaveLoopOnTimeout ==
  /\ pc = "loop"
  /\ (stop /\ frames = <<>>) \/ (~ stop /\ KernelMayRefuse)
  /\ pc' = "closing"
  /\ UNCHANGED <<stop, build, handle, seeding, pending, cache, since, frames, table, world,
                 promise, recent, lapsed>>

LeaveLoop ==
  /\ pc = "loop"
  /\ stop \/ KernelMayRefuse       \* or Read returns an error
  /\ pc' = "closing"
  /\ UNCHANGED <<stop, build, handle, seeding, pending, cache, since, frames, table, world,
                 promise, recent, lapsed>>

\* The deferred Handle.Close removes the table; then the process ends.
Close ==
  /\ pc = "closing"
  /\ table' = NoTable \/ (KernelMayRefuse /\ table' = table)
  /\ Exit
  /\ UNCHANGED <<world, promise, recent, lapsed>>

----------------------------------------------------------------------------
(* The operator, the host, the kernel and the clock.                       *)

Signal ==
  /\ pc # "down" /\ ~ stop
  /\ stop' = TRUE
  /\ UNCHANGED <<pc, build, handle, seeding, pending, cache, since, frames, table, world,
                 promise, recent, lapsed>>

Crash ==
  /\ pc # "down"
  /\ Exit
  /\ UNCHANGED <<table, world, promise, recent, lapsed>>

\* enforce -off: another process, and nothing keeps it for after a crash.
Off ==
  /\ table.present
  /\ table' = NoTable
  /\ UNCHANGED <<daemon, frames, world, promise, recent, lapsed>>

\* A frame that finds the socket full is lost.
Arrive(frame) ==
  /\ pc # "down"
  /\ Len(frames) < FrameCap
  /\ frames' = Append(frames, frame)
  /\ UNCHANGED <<daemon, table, world, promise, recent, lapsed>>

Mkdir(c) ==
  /\ inode[c] = NoId
  /\ Len(c) > 1 => inode[Front(c)] # NoId
  /\ lastInode < MaxInode
  /\ lastInode' = lastInode + 1
  /\ inode' = [inode EXCEPT ![c] = lastInode']
  /\ UNCHANGED <<daemon, frames, table, promise, recent, lapsed>>

Rmdir(c) ==
  /\ inode[c] # NoId
  /\ \A d \in Cgroups : IsStrictPrefix(c, d) => inode[d] = NoId
  /\ inode' = [inode EXCEPT ![c] = NoId]
  /\ UNCHANGED <<daemon, frames, table, lastInode, promise, recent, lapsed>>

Less(n) == IF n = 0 THEN 0 ELSE n - 1

Tick ==
  /\ since' = IF pc # "down" /\ since <= CheckEvery THEN since + 1 ELSE since
  /\ cache' = [ip \in Addrs |->
                 IF cache[ip].left <= 1 THEN NoEntry ELSE [cache[ip] EXCEPT !.left = Less(@)]]
  /\ table' = [table EXCEPT !.elems = [s \in Sets |-> [ip \in KAddrs |-> Less(@[s][ip])]]]
  /\ promise' = [p \in Names \X KAddrs |-> Less(promise[p])]
  /\ recent' = [p \in Names \X KAddrs |-> Less(recent[p])]
  /\ UNCHANGED <<pc, stop, build, handle, seeding, pending, frames, world, lapsed>>

Daemon ==
  \/ Start \/ ResolveAtom \/ Commit \/ ApplyFails \/ SeedLookup \/ SeedDone
  \/ FeedAdd \/ FeedRefused \/ ReadJunk \/ ReadDns \/ ReadOther \/ LeaveLoop \/ Close

Environment ==
  \/ Signal \/ Crash \/ Off \/ Tick
  \/ \E f \in Frames : Arrive(f)
  \/ \E c \in Cgroups : Mkdir(c) \/ Rmdir(c)

Next == Daemon \/ Environment

Spec == Init /\ [][Next]_vars

\* The goroutine is scheduled and its calls return; the kernel does not refuse
\* for ever; time passes.
DaemonFairness ==
  /\ <>[][~ ApplyFails]_vars
  /\ WF_vars(ResolveAtom) /\ WF_vars(Commit)
  /\ WF_vars(SeedLookup) /\ WF_vars(SeedDone) /\ WF_vars(FeedAdd \/ FeedRefused)
  /\ WF_vars(ReadJunk \/ ReadDns \/ ReadOther)
  /\ WF_vars(stop /\ LeaveLoop) /\ WF_vars(Close)
  /\ WF_vars(Tick)

\* The host keeps opening connections: no stretch of time is without one.
BusyHost == SF_vars(\E f \in PlainFrames : f.kind = "other" /\ Arrive(f))

FairSpec == Spec /\ DaemonFairness /\ BusyHost

\* Nothing is assumed of the traffic.
QuietSpec == Spec /\ DaemonFairness

----------------------------------------------------------------------------
(* Properties.                                                             *)

Loaded  == [atom : Atoms(Rules), id : 0..MaxInode]
Builds  == [left : SUBSET CgroupAtoms, loaded : SUBSET Loaded, missing : SUBSET Cgroups,
            reload : BOOLEAN]
Answers == [name : Names \cup {NoName}, addrs : SUBSET Addrs, ttl : TTLs \cup {0, MinTTL},
            back : {"seed", "loop"}]
Entries == [name : Names \cup {NoName}, left : Left]
Tables  == [present : BOOLEAN, loaded : SUBSET Loaded, elems : [Sets -> [KAddrs -> Left]],
            forward : BOOLEAN]

TypeOK ==
  /\ pc \in {"down", "apply", "seed", "feed", "loop", "closing"}
  /\ stop \in BOOLEAN
  /\ build \in Builds
  /\ handle \subseteq Cgroups
  /\ seeding \subseteq (DOMAIN Rules) \X Names
  /\ pending \in Answers
  /\ cache \in [Addrs -> Entries]
  /\ since \in 0..(CheckEvery + 1)
  /\ frames \in Seq(Frames) /\ Len(frames) <= FrameCap
  /\ table \in Tables
  /\ inode \in [Cgroups -> 0..MaxInode]
  /\ lastInode \in 0..MaxInode
  /\ promise \in [Names \X KAddrs -> Left] /\ recent \in [Names \X KAddrs -> 0..MinTTL]
  /\ lapsed \in BOOLEAN

\* The part of a rule that no DNS answer changes: who may be talking, and on
\* which port.
Concerns(i, pkt) ==
  /\ Rules[i].cgroup # NoCgroup =>
       pkt.hook = "output" /\ CgroupWithin(pkt.cgroup, Rules[i].cgroup)
  /\ Rules[i].proto # "" => pkt.proto = Rules[i].proto
  /\ Rules[i].ports # {} =>
       pkt.proto \in {"tcp", "udp"} /\ \E p \in Rules[i].ports : pkt.port \in p.lo..p.hi

Listed(i, ip) == AnyHost(Rules[i]) \/ \E pfx \in Rules[i].prefixes : PrefixContains(pfx, ip)

\* Some name the rule covers was answered with this address, and that answer
\* still counts.
Resolved(i, ip) == \E n \in Names : i \in DomainRules(Rules, n) /\ promise[<<n, ip>>] > 0

RuleCgroups == {a.cgroup : a \in CgroupAtoms}

\* Every rule of the cgroup is in the kernel, under the inode it has now.
Active(c) ==
  \A a \in CgroupAtoms : a.cgroup = c => [atom |-> a, id |-> inode[c]] \in table.loaded

\* A rule without a cgroup always is in the table, one with a cgroup when that was
\* there at the load and is the same directory still.
InForce(i) ==
  Rules[i].cgroup # NoCgroup => inode[Rules[i].cgroup] # NoId /\ Active(Rules[i].cgroup)

Asked(pkt) == ~ PreAccepted(pkt) /\ (pkt.hook = "forward" => Forward)
KernelVerdict(pkt) == Filter(table, Default, pkt, inode).verdict

\* "A connection to an IP that no allowed name resolved to is refused"
\* (README.md:91): while a table is in the kernel, whatever wrote it, and
\* through reloads, crashes, removed cgroups and late answers, a packet passes
\* only under an allow rule for its sender, its port and a destination that is
\* listed or that a covered name still answers for.
AcceptedOnlyIfAllowed ==
  table.present =>
    \A pkt \in Packets :
      Asked(pkt) /\ KernelVerdict(pkt) = "allow" =>
        \/ Default = "allow"
        \/ \E i \in DOMAIN Rules :
             /\ Rules[i].verdict = "allow"
             /\ Concerns(i, pkt)
             /\ Listed(i, pkt.ip) \/ Resolved(i, pkt.ip)

\* "Metadata service on 169.254.169.254 stays denied even when a broad rule
\* allows port 443" (README.md:93): a deny rule on addresses holds in every
\* table the daemon ever leaves in the kernel, half-way through a reload or
\* after a crash included (Apply commits whole batches, deny rules first); that of a
\* cgroup as long as it is in force.
StaticDenyHolds ==
  table.present =>
    \A pkt \in Packets : \A i \in DOMAIN Rules :
      /\ Asked(pkt)
      /\ Rules[i].verdict = "deny" /\ InForce(i)
      /\ Concerns(i, pkt) /\ Listed(i, pkt.ip)
      => KernelVerdict(pkt) = "deny"

\* The table in the kernel was fed an answer of the name with this address less than
\* MinTTL ago, whatever its TTL.
JustAnswered(n, ip) == recent[<<n, ip>>] > 0

\* "Deny wins" (README.md:93) and "five minutes at least" (README.md:114), for
\* names: an address of an answer for a denied name that was fed less than MinTTL
\* ago, whatever its TTL, is refused, though an allowed name shares it and was
\* answered later or for longer, and whatever shorter answers came in between.
\* This is so only where adding an element again restarts its timeout (Refresh,
\* Linux 6.12), though the daemon runs on 5.13 and later (README.md:166-167).
DeniedNamesStayDenied ==
  Refresh /\ table.present =>
    \A pkt \in Packets : \A i \in DOMAIN Rules :
      /\ Asked(pkt)
      /\ Rules[i].verdict = "deny" /\ InForce(i)
      /\ Concerns(i, pkt)
      /\ \E n \in Names : i \in DomainRules(Rules, n) /\ JustAnswered(n, pkt.ip)
      => KernelVerdict(pkt) = "deny"

\* "every DNS answer for a name a rule covers puts the answered addresses into that
\* rule's sets" (README.md:113), and "deny wins" is the only way to lose: what an
\* allow rule in force lists, or a name it covers was answered with and feed added
\* less than MinTTL ago, is refused only if a deny rule concerns the packet and lists
\* its destination or covers a name that still answers for it (Build and feed leave
\* out nothing, whichever rules share the name and whatever expires).  What is said of
\* answers is so only where adding an element again restarts its timeout.
RefusedOnlyIfDenied ==
  table.present =>
    \A pkt \in Packets : \A i \in DOMAIN Rules :
      /\ Asked(pkt)
      /\ Rules[i].verdict = "allow" /\ InForce(i)
      /\ Concerns(i, pkt)
      /\ \/ Listed(i, pkt.ip)
         \/ Refresh /\ \E n \in Names : i \in DomainRules(Rules, n) /\ JustAnswered(n, pkt.ip)
      /\ KernelVerdict(pkt) = "deny"
      => \E j \in DOMAIN Rules :
           /\ Rules[j].verdict = "deny"
           /\ Concerns(j, pkt)
           /\ Listed(j, pkt.ip) \/ Resolved(j, pkt.ip)

\* The daemon watches for exactly the cgroups whose atoms its table lacks
\* (Handle.missing against the committed batch), even when a cgroup comes or
\* goes between two lookups of one Apply, and across failed reloads.
LeftOutAtomsAreWatched ==
  table.present /\ pc \in {"seed", "feed", "loop"} =>
    handle = {a.cgroup : a \in Atoms(Rules) \ {e.atom : e \in table.loaded}}

\* An address the daemon would print under a name is in the set of every rule
\* that covers the name, for at least as long (dns.Record against feed), until
\* a reload or a refused batch loses some.  For addresses without v4-mapped
\* aliases: the cache keys those apart, the sets do not.
SetsFollowTheCache ==
  Refresh /\ ~ lapsed /\ table.present /\ pc # "feed" =>
    \A ip \in Addrs : \A i \in DomainRules(Rules, cache[ip].name) :
      table.elems[SetFor(i, ip)][Unmap(ip)] >= cache[ip].left

\* Replacing the table never passes through having none: a step of the daemon
\* takes the table away only as it stops (README.md:161, Apply's "atomically",
\* apply_linux.go:69).
ReloadNeverUnfilters ==
  [][table.present /\ ~ table'.present /\ pc' # pc => pc = "closing"]_vars

\* What replaces the table takes no rule out of force: be it the reload for another
\* cgroup or a restart over the table a crash left, whichever directories come and go
\* between two of its lookups, a cgroup whose rules the kernel has keeps them all as
\* long as it is the same directory (a reload builds the whole table anew,
\* enforce.go:200).
RulesStayInForce ==
  [][\A c \in RuleCgroups :
       /\ table.present /\ table'.present
       /\ inode[c] # NoId /\ inode'[c] = inode[c]
       /\ Active(c)
       => Active(c)']_vars

\* "every DNS answer for a name a rule covers puts the answered addresses into
\* that rule's sets for the TTL (five minutes at least ...)" (README.md:113):
\* while the daemon sits in its loop, no covered name's last answer lapses
\* before its time.
AnswersLastTheirTTL ==
  table.present /\ pc = "loop" =>
    \A ip \in Addrs : \A i \in DomainRules(Rules, cache[ip].name) :
      cache[ip].left > 0 => table.elems[SetFor(i, ip)][Unmap(ip)] > 0

\* "A cgroup that does not exist yet ... is reported and its rules stay
\* inactive; the daemon checks every few seconds and reloads the table when it
\* appears" (README.md:168-170): a cgroup that is there becomes active, unless
\* it goes away again, the daemon ends or the table is removed from outside.
CgroupBecomesActive ==
  \A c \in RuleCgroups :
    (pc = "loop" /\ table.present /\ inode[c] # NoId)
      ~> (Active(c) \/ inode[c] = NoId \/ pc = "down" \/ ~ table.present)

\* SIGINT and SIGTERM end the daemon wherever it is, seeding and reloading
\* included; the loop's condition is all that looks at the context.
SignalEndsTheDaemon == stop ~> (pc = "down")

----------------------------------------------------------------------------
(* The inductive invariant.                                                *)

\* An address is in a set for a covered name, and no longer than the name
\* answers for it.
ElementsArePromised ==
  \A set \in Sets, ip \in KAddrs :
    table.elems[set][ip] > 0 =>
      \E n \in Names : /\ set[1] \in DomainRules(Rules, n)
                      /\ table.elems[set][ip] <= promise[<<n, ip>>]

\* What was fed less than MinTTL ago is in the set of every rule that covers the name
\* for what is left of MinTTL at least, whichever name its address was last fed for.
NamesAreHeld ==
  Refresh /\ table.present =>
    \A n \in Names, ip \in KAddrs : \A i \in DomainRules(Rules, n) :
      table.elems[SetFor(i, ip)][ip] >= recent[<<n, ip>>]

PendingIsNamed == pc = "feed" => pending.name \in Names

\* Directories that are there have different inodes, none yet to be given.
TreeIsSound ==
  \A c, d \in Cgroups :
    /\ inode[c] <= lastInode
    /\ inode[c] = inode[d] /\ inode[c] # NoId => c = d

\* An id is of the atom's cgroup, be it gone, and can be of no other.
IdOf(a, id) ==
  a.cgroup # NoCgroup =>
    /\ id # NoId /\ id <= lastInode
    /\ \A c \in Cgroups : inode[c] = id => c = a.cgroup

IdsAreRight == \A e \in table.loaded \cup build.loaded : IdOf(e.atom, e.id)

\* What needs no lookup is in every batch, and so in every table.
HasStaticAtoms(loaded) ==
  \A a \in Atoms(Rules) : a.cgroup = NoCgroup => [atom |-> a, id |-> NoId] \in loaded

TablesAreWhole ==
  /\ pc = "apply" => HasStaticAtoms(build.loaded)
  /\ table.present => HasStaticAtoms(table.loaded) /\ table.forward = Forward

LeftOut(left, loaded) == {a.cgroup : a \in Atoms(Rules) \ (left \cup {e.atom : e \in loaded})}

\* Missing counts what the batch has passed over, the handle what the table
\* lacks: from the commit to the end of the daemon, reloads included.
MissingIsCounted ==
  /\ pc = "apply" =>
       /\ build.left \cap {e.atom : e \in build.loaded} = {}
       /\ build.missing = LeftOut(build.left, build.loaded)
  /\ table.present /\ (pc \in {"seed", "feed", "loop"} \/ (pc = "apply" /\ build.reload)) =>
       handle = LeftOut({}, table.loaded)

\* What a batch in the making has looked up it found as the table has it, unless the
\* directory is gone or another.
BatchFindsTheSame ==
  pc = "apply" /\ table.present =>
    \A e \in table.loaded :
      e.atom.cgroup # NoCgroup /\ inode[e.atom.cgroup] = e.id =>
        e.atom \in build.left \/ e \in build.loaded

\* The inductive invariant behind AcceptedOnlyIfAllowed, StaticDenyHolds,
\* DeniedNamesStayDenied, RefusedOnlyIfDenied, LeftOutAtomsAreWatched and
\* RulesStayInForce: what Apply reads, what feed adds and what a failed reload leaves
\* stay true of whatever table is in the kernel.
IInv ==
  /\ TypeOK
  /\ ElementsArePromised /\ NamesAreHeld /\ PendingIsNamed
  /\ TreeIsSound /\ IdsAreRight
  /\ TablesAreWhole
  /\ MissingIsCounted /\ BatchFindsTheSame
=============================================================================
