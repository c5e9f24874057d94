---------------------------- MODULE EnforceProofs ---------------------------
(***************************************************************************)
(* The enforcing daemon, for every policy, address set, cgroup tree, TTL   *)
(* and bound the assumptions of Enforce admit.                             *)
(***************************************************************************)
EXTENDS Enforce, SequenceTheorems, WellFoundedInduction, TLAPS

----------------------------------------------------------------------------
(* Data.                                                                   *)

\* The bounds, one by one.
LEMMA Bounds ==
  /\ TTLs \subseteq Nat /\ MinTTL \in Nat /\ MinTTL # 0
  /\ CheckEvery \in Nat /\ FrameCap \in Nat /\ MaxInode \in Nat
  /\ Refresh \in BOOLEAN /\ KernelMayRefuse \in BOOLEAN
  BY BoundsAssumption

\* Remaining lifetimes are naturals, and 0 is one.
LEMMA LeftNat == Left \subseteq Nat /\ 0 \in Left
<1>1. Lifetimes \subseteq Nat /\ MinTTL \in Lifetimes
  BY Bounds DEF Lifetimes, Stretch
<1> QED BY <1>1, Bounds DEF Left

\* What feed and Record make of any TTL is a lifetime.
LEMMA StretchLeft ==
  ASSUME NEW ttl \in TTLs \cup {0, MinTTL}
  PROVE  Stretch(ttl) \in Left
<1>1. Stretch(ttl) \in Lifetimes /\ Stretch(ttl) \in Nat
  BY Bounds DEF Lifetimes, Stretch
<1>2. Stretch(ttl) \in 0..Stretch(ttl)
  BY <1>1
<1> QED BY <1>1, <1>2 DEF Left

\* A lifetime one tick later is a lifetime.
LEMMA LessLeft ==
  ASSUME NEW n \in Left
  PROVE  Less(n) \in Left
<1>1. PICK m \in Lifetimes : n \in 0..m
  BY DEF Left
<1>2. m \in Nat
  BY <1>1, Bounds DEF Lifetimes, Stretch
<1>3. Less(n) \in 0..m
  BY <1>1, <1>2 DEF Less
<1> QED BY <1>3 DEF Left

\* An atom belongs to a rule of the policy and carries that rule's verdict,
\* protocol and cgroup.
LEMMA AtomOfRule ==
  ASSUME NEW a \in Atoms(Rules)
  PROVE  /\ a.rule \in DOMAIN Rules
         /\ a.cgroup = Rules[a.rule].cgroup
         /\ a.proto = Rules[a.rule].proto
         /\ a.verdict = Rules[a.rule].verdict
         /\ a.base \in Bases(Rules[a.rule])
         /\ a.port \in AtomPorts(Rules[a.rule])
  BY DEF Atoms, AtomsOf

\* What PolicyAssumption says of one rule.
LEMMA RuleFields ==
  ASSUME NEW i \in DOMAIN Rules
  PROVE  /\ i \in Nat
         /\ Rules[i] \in Rule
         /\ Rules[i].cgroup \in Cgroups \cup {NoCgroup}
<1>1. Rules \in Seq(Rule)
  BY PolicyAssumption
<1>2. i \in 1..Len(Rules) /\ Rules[i] \in Rule
  BY <1>1
<1>3. Len(Rules) \in Nat
  BY <1>1
<1>4. Rules[i].cgroup \in Cgroups \cup {NoCgroup}
  BY <1>2 DEF Rule
<1> QED BY <1>2, <1>3, <1>4

\* The cgroup of an atom that has one is a path of the tree.
LEMMA CgroupOfAtom ==
  ASSUME NEW a \in CgroupAtoms
  PROVE  a \in Atoms(Rules) /\ a.cgroup \in Cgroups /\ a.cgroup # NoCgroup
  BY AtomOfRule, RuleFields DEF CgroupAtoms

\* A non-empty set of naturals has a least element.
LEMMA LeastExists ==
  ASSUME NEW S \in SUBSET Nat, S # {}
  PROVE  \E m \in S : \A k \in S : m <= k
<1>1. PICK m \in S : \A k \in S : ~ (<<k, m>> \in OpToRel(<, Nat))
  BY WFMin, NatLessThanWellFounded
<1>2. \A k \in S : ~ (k < m)
  BY <1>1 DEF OpToRel
<1> QED BY <1>2

----------------------------------------------------------------------------
(* Types.                                                                  *)

\* No table is a table.
LEMMA NoTableTypes == NoTable \in Tables
<1>1. EmptySets \in [Sets -> [KAddrs -> Left]]
  BY LeftNat DEF EmptySets
<1> QED BY <1>1 DEF NoTable, Tables

\* The daemon starts well-typed.
LEMMA InitTypeOK == Init => TypeOK
<1> SUFFICES ASSUME Init PROVE TypeOK
  OBVIOUS
<1>1. /\ frames \in Seq(Frames) /\ Len(frames) <= FrameCap
      /\ since \in 0..(CheckEvery + 1) /\ lastInode \in 0..MaxInode
      /\ inode \in [Cgroups -> 0..MaxInode]
  BY Bounds DEF Init, NoId
<1>2. /\ cache \in [Addrs -> Entries] /\ table \in Tables
      /\ promise \in [Names \X KAddrs -> Left] /\ recent \in [Names \X KAddrs -> 0..MinTTL]
  BY LeftNat, Bounds, NoTableTypes DEF Init, NoCache, NoEntry, Entries
<1>3. build \in Builds /\ pending \in Answers
  BY DEF Init, NoBuild, NoPending, Builds, Answers
<1> QED BY <1>1, <1>2, <1>3 DEF Init, TypeOK

\* A process that ends is well-typed again.
LEMMA ExitTypes ==
  ASSUME Exit
  PROVE  /\ pc' = "down" /\ stop' = FALSE
         /\ build' \in Builds /\ pending' \in Answers /\ cache' \in [Addrs -> Entries]
         /\ handle' = {} /\ seeding' = {} /\ since' = 0 /\ frames' = <<>>
  BY LeftNat DEF Exit, NoBuild, NoPending, NoCache, NoEntry, Builds, Answers, Entries

\* A batch starts with the atoms that need no lookup.
LEMMA NewBuildTypes ==
  ASSUME NEW reload \in BOOLEAN
  PROVE  NewBuild(reload) \in Builds
  BY Bounds DEF NewBuild, NoId, Builds, Loaded

\* Recording an answer keeps the cache well-typed.
LEMMA RecordTypes ==
  ASSUME TypeOK, NEW answer \in Answers, Record(answer)
  PROVE  cache' \in [Addrs -> Entries]
<1>1. Stretch(answer.ttl) \in Left /\ answer.name \in Names \cup {NoName}
  BY StretchLeft DEF Answers
<1> QED BY <1>1 DEF Record, TypeOK, Entries

\* A frame that is read leaves a shorter, well-typed queue behind.
LEMMA ReadingTypes ==
  ASSUME TypeOK, NEW kind, Reading(kind)
  PROVE  /\ frames' \in Seq(Frames) /\ Len(frames') <= FrameCap
         /\ Head(frames) \in Frames /\ Head(frames).kind = kind
<1>1. frames \in Seq(Frames) /\ Len(frames) <= FrameCap /\ frames # <<>>
  BY DEF TypeOK, Reading
<1>2. /\ Head(frames) \in Frames /\ Tail(frames) \in Seq(Frames)
      /\ Len(Tail(frames)) = Len(frames) - 1
  BY <1>1, HeadTailProperties
<1> QED BY <1>1, <1>2, Bounds, LenProperties DEF Reading

\* The answer of a DNS frame is well-typed and has a name.
LEMMA AnswerTypes ==
  ASSUME NEW f \in Frames, f.kind = "dns"
  PROVE  AnswerOf(f) \in Answers /\ AnswerOf(f).name \in Names
  BY DEF Frames, DnsFrames, PlainFrames, AnswerOf, Answers, Names

\* Every step of the daemon and of its surroundings keeps the types.
LEMMA NextTypeOK == TypeOK /\ [Next]_vars => TypeOK'
<1> SUFFICES ASSUME TypeOK, [Next]_vars PROVE TypeOK'
  OBVIOUS
<1>1. CASE Start
  BY <1>1, NewBuildTypes DEF Start, TypeOK, world
<1>2. CASE ResolveAtom
  <2>1. PICK a \in build.left : build' = LookedUp(a)
    BY <1>2 DEF ResolveAtom
  <2>2. a \in CgroupAtoms /\ build \in Builds
    BY DEF TypeOK, Builds
  <2>3. a \in Atoms(Rules) /\ a.cgroup \in Cgroups /\ inode[a.cgroup] \in 0..MaxInode
    BY <2>2, CgroupOfAtom DEF TypeOK
  <2>4. LookedUp(a) \in Builds
    <3>1. CASE inode[a.cgroup] = NoId
      BY <2>2, <2>3, <3>1 DEF LookedUp, Builds
    <3>2. CASE inode[a.cgroup] # NoId
      <4>1. build.loaded \cup {[atom |-> a, id |-> inode[a.cgroup]]} \subseteq Loaded
        BY <2>2, <2>3 DEF Builds, Loaded
      <4> QED BY <2>2, <3>2, <4>1 DEF LookedUp, Builds
    <3> QED BY <3>1, <3>2
  <2> QED BY <1>2, <2>1, <2>4 DEF ResolveAtom, TypeOK, world
<1>3. CASE Commit
  <2>1. table' \in Tables /\ handle' \subseteq Cgroups /\ lapsed' \in BOOLEAN
    BY <1>3, LeftNat, PolicyAssumption DEF Commit, TypeOK, Tables, Builds, EmptySets
  <2>2. seeding' \subseteq (DOMAIN Rules) \X Names
    BY <1>3 DEF Commit
  <2>3. promise' \in [Names \X KAddrs -> Left] /\ recent' \in [Names \X KAddrs -> 0..MinTTL]
    BY <1>3, LeftNat, Bounds DEF Commit
  <2> QED BY <1>3, <2>1, <2>2, <2>3 DEF Commit, TypeOK, world
<1>4. CASE ApplyFails
  <2>1. CASE Exit
    BY <1>4, <2>1, ExitTypes, Bounds DEF ApplyFails, TypeOK, world
  <2>2. CASE pc' = "loop" /\ build' = NoBuild
             /\ UNCHANGED <<stop, handle, seeding, pending, cache, since, frames>>
    <3>1. build' \in Builds
      BY <2>2 DEF NoBuild, Builds
    <3> QED BY <1>4, <2>2, <3>1 DEF ApplyFails, TypeOK, world
  <2> QED BY <1>4, <2>1, <2>2 DEF ApplyFails
<1>5. CASE SeedLookup
  <2>1. PICK p \in seeding :
          /\ seeding' = seeding \ {p}
          /\ \/ UNCHANGED <<pc, pending, cache>>
             \/ \E addrs \in SUBSET KAddrs \ {{}} :
                  /\ pending' = [name |-> p[2], addrs |-> addrs, ttl |-> MinTTL, back |-> "seed"]
                  /\ Record(pending') /\ pc' = "feed"
    BY <1>5 DEF SeedLookup
  <2>2. CASE UNCHANGED <<pc, pending, cache>>
    BY <1>5, <2>1, <2>2 DEF SeedLookup, TypeOK, world
  <2>3. CASE \E addrs \in SUBSET KAddrs \ {{}} :
               /\ pending' = [name |-> p[2], addrs |-> addrs, ttl |-> MinTTL, back |-> "seed"]
               /\ Record(pending') /\ pc' = "feed"
    <3>1. pending' \in Answers
      BY <2>3, WorldAssumption DEF TypeOK, Answers
    <3>2. cache' \in [Addrs -> Entries]
      BY <2>3, <3>1, RecordTypes
    <3> QED BY <1>5, <2>1, <2>3, <3>1, <3>2 DEF SeedLookup, TypeOK, world
  <2> QED BY <2>1, <2>2, <2>3
<1>6. CASE SeedDone
  <2>1. build' \in Builds /\ since' \in 0..(CheckEvery + 1)
    BY <1>6, Bounds DEF SeedDone, NoBuild, Builds, TypeOK
  <2> QED BY <1>6, <2>1 DEF SeedDone, TypeOK, world
<1>7. CASE FeedAdd
  <2>1. Stretch(pending.ttl) \in Left
    BY StretchLeft DEF TypeOK, Answers
  <2>2. table' \in Tables
    <3> DEFINE E == [s \in Sets |-> [ip \in KAddrs |->
                      IF <<s, ip>> \in Adds(pending) /\ (Refresh \/ table.elems[s][ip] = 0)
                      THEN Stretch(pending.ttl) ELSE table.elems[s][ip]]]
    <3>1. table \in Tables
      BY DEF TypeOK
    <3>2. \A s \in Sets, ip \in KAddrs : table.elems[s][ip] \in Left
      BY <3>1 DEF Tables
    <3>3. E \in [Sets -> [KAddrs -> Left]]
      BY <2>1, <3>2
    <3>4. table' = [table EXCEPT !.elems = E]
      BY <1>7 DEF FeedAdd
    <3> HIDE DEF E
    <3> QED BY <3>1, <3>3, <3>4 DEF Tables
  <2>3. promise' \in [Names \X KAddrs -> Left] /\ recent' \in [Names \X KAddrs -> 0..MinTTL]
    BY <1>7, <2>1, Bounds DEF FeedAdd, TypeOK
  <2>4. pc' \in {"seed", "loop"} /\ pending' \in Answers
    BY <1>7 DEF FeedAdd, TypeOK, NoPending, Answers
  <2> QED BY <1>7, <2>2, <2>3, <2>4 DEF FeedAdd, TypeOK, world
<1>8. CASE FeedRefused
  <2>1. pc' \in {"seed", "loop"} /\ pending' \in Answers
    BY <1>8 DEF FeedRefused, TypeOK, NoPending, Answers
  <2> QED BY <1>8, <2>1 DEF FeedRefused, TypeOK, world
<1>9. CASE ReadJunk
  BY <1>9, ReadingTypes DEF ReadJunk, TypeOK, daemon, world
<1>10. CASE ReadDns
  <2>1. frames' \in Seq(Frames) /\ Len(frames') <= FrameCap
    BY <1>10, ReadingTypes DEF ReadDns
  <2>2. pending' \in Answers
    BY <1>10, ReadingTypes, AnswerTypes DEF ReadDns
  <2>3. cache' \in [Addrs -> Entries]
    BY <1>10, <2>2, RecordTypes DEF ReadDns
  <2> QED BY <1>10, <2>1, <2>2, <2>3 DEF ReadDns, TypeOK, world
<1>11. CASE ReadOther
  <2>1. frames' \in Seq(Frames) /\ Len(frames') <= FrameCap
    BY <1>11, ReadingTypes DEF ReadOther
  <2>2. build' \in Builds /\ pc' \in {"apply", pc} /\ since' \in 0..(CheckEvery + 1)
    <3>1. since' \in 0..(CheckEvery + 1)
      BY <1>11, Bounds DEF ReadOther, TypeOK
    <3>2. build' \in Builds /\ pc' \in {"apply", pc}
      BY <1>11, NewBuildTypes DEF ReadOther, TypeOK
    <3> QED BY <3>1, <3>2
  <2> QED BY <1>11, <2>1, <2>2 DEF ReadOther, TypeOK, world
<1>12. CASE LeaveLoop
  BY <1>12 DEF LeaveLoop, TypeOK, world
<1>13. CASE Close
  <2>1. table' \in Tables
    BY <1>13, NoTableTypes DEF Close, TypeOK
  <2> QED BY <1>13, <2>1, ExitTypes, Bounds DEF Close, TypeOK, world
<1>14. CASE Signal
  BY <1>14 DEF Signal, TypeOK, world
<1>15. CASE Crash
  BY <1>15, ExitTypes, Bounds DEF Crash, TypeOK, world
<1>16. CASE Off
  <2>1. table' \in Tables
    BY <1>16, NoTableTypes DEF Off
  <2> QED BY <1>16, <2>1 DEF Off, TypeOK, daemon, world
<1>17. ASSUME NEW f \in Frames, Arrive(f) PROVE TypeOK'
  <2>1. frames' \in Seq(Frames) /\ Len(frames') = Len(frames) + 1
    BY <1>17, AppendProperties DEF Arrive, TypeOK
  <2>2. Len(frames') <= FrameCap
    BY <1>17, <2>1, Bounds, LenProperties DEF Arrive, TypeOK
  <2> QED BY <1>17, <2>1, <2>2 DEF Arrive, TypeOK, daemon, world
<1>18. ASSUME NEW c \in Cgroups, Mkdir(c) PROVE TypeOK'
  <2>1. lastInode' \in 0..MaxInode
    BY <1>18, Bounds DEF Mkdir, TypeOK
  <2> QED BY <1>18, <2>1 DEF Mkdir, TypeOK, daemon
<1>19. ASSUME NEW c \in Cgroups, Rmdir(c) PROVE TypeOK'
  BY <1>19, Bounds DEF Rmdir, TypeOK, daemon, NoId
<1>20. CASE Tick
  <2>1. since' \in 0..(CheckEvery + 1)
    BY <1>20, Bounds DEF Tick, TypeOK
  <2>2. cache' \in [Addrs -> Entries]
    <3>1. ASSUME NEW ip \in Addrs
          PROVE  /\ NoEntry \in Entries
                 /\ [cache[ip] EXCEPT !.left = Less(@)] \in Entries
      BY LessLeft, LeftNat DEF TypeOK, Entries, NoEntry
    <3> QED BY <1>20, <3>1 DEF Tick
  <2>3. table' \in Tables
    <3> DEFINE E == [s \in Sets |-> [ip \in KAddrs |-> Less(table.elems[s][ip])]]
    <3>1. table \in Tables
      BY DEF TypeOK
    <3>2. E \in [Sets -> [KAddrs -> Left]]
      BY <3>1, LessLeft DEF Tables
    <3>3. table' = [table EXCEPT !.elems = E]
      BY <1>20 DEF Tick
    <3> HIDE DEF E
    <3> QED BY <3>1, <3>2, <3>3 DEF Tables
  <2>4. promise' \in [Names \X KAddrs -> Left] /\ recent' \in [Names \X KAddrs -> 0..MinTTL]
    <3>1. promise' \in [Names \X KAddrs -> Left]
      BY <1>20, LessLeft DEF Tick, TypeOK
    <3>2. \A k \in 0..MinTTL : Less(k) \in 0..MinTTL
      BY Bounds DEF Less
    <3> QED BY <1>20, <3>1, <3>2 DEF Tick, TypeOK
  <2> QED BY <1>20, <2>1, <2>2, <2>3, <2>4 DEF Tick, TypeOK, world
<1>21. CASE UNCHANGED vars
  BY <1>21 DEF vars, daemon, world, TypeOK
<1> QED
  BY <1>1, <1>2, <1>3, <1>4, <1>5, <1>6, <1>7, <1>8, <1>9, <1>10, <1>11, <1>12, <1>13, <1>14,
     <1>15, <1>16, <1>17, <1>18, <1>19, <1>20, <1>21
  DEF Next, Daemon, Environment

\* Whatever the policy, the tree and the traffic, the daemon's state and the
\* kernel's keep their types: inodes and lifetimes stay in range, the socket
\* within its capacity, a table holds atoms of the policy and nothing else.
THEOREM TypesHold == Spec => []TypeOK
  BY InitTypeOK, NextTypeOK, PTL DEF Spec

----------------------------------------------------------------------------
(* The inductive invariant, part by part.                                  *)

\* It holds before the daemon is started.
LEMMA InitIInv == Init => IInv
<1> SUFFICES ASSUME Init PROVE IInv
  OBVIOUS
<1>1. TypeOK
  BY InitTypeOK
<1>2. ElementsArePromised /\ NamesAreHeld /\ PendingIsNamed
  BY DEF Init, NoTable, EmptySets, ElementsArePromised, NamesAreHeld, PendingIsNamed
<1>3. TreeIsSound /\ IdsAreRight
  BY DEF Init, TreeIsSound, IdsAreRight, NoTable, NoBuild, NoId
<1>4. TablesAreWhole /\ MissingIsCounted /\ BatchFindsTheSame
  BY DEF Init, NoTable, NoBuild, TablesAreWhole, MissingIsCounted, BatchFindsTheSame
<1> QED BY <1>1, <1>2, <1>3, <1>4 DEF IInv

\* Only an answer is fed, under a name a question asked for.
LEMMA PendingStep ==
  ASSUME TypeOK, PendingIsNamed, [Next]_vars
  PROVE  PendingIsNamed'
<1>1. CASE SeedLookup
  <2>1. \A p \in seeding : p[2] \in Names
    BY DEF TypeOK
  <2> QED BY <1>1, <2>1 DEF SeedLookup, PendingIsNamed, TypeOK
<1>2. CASE ReadDns
  <2>1. AnswerOf(Head(frames)).name \in Names
    BY <1>2, ReadingTypes, AnswerTypes DEF ReadDns
  <2> QED BY <1>2, <2>1 DEF ReadDns, PendingIsNamed
<1>3. CASE FeedAdd \/ FeedRefused
  BY <1>3 DEF FeedAdd, FeedRefused, PendingIsNamed, TypeOK, Answers
<1>4. CASE UNCHANGED <<pc, pending>>
  BY <1>4 DEF PendingIsNamed
<1>5. CASE pc' # "feed"
  BY <1>5 DEF PendingIsNamed
<1> QED
  BY <1>1, <1>2, <1>3, <1>4, <1>5
  DEF Next, Daemon, Environment, vars, daemon, Start, ResolveAtom, Commit, ApplyFails, Exit,
      SeedDone, ReadJunk, ReadOther, LeaveLoop, Close, Signal, Crash, Off, Tick, Arrive, Mkdir,
      Rmdir

\* What is left of an element is a natural number.
LEMMA ElementNat ==
  ASSUME TypeOK, NEW set \in Sets, NEW ip \in KAddrs
  PROVE  table.elems[set][ip] \in Nat
<1>1. table.elems \in [Sets -> [KAddrs -> Left]]
  BY DEF TypeOK, Tables
<1> QED BY <1>1, LeftNat

\* The sets grow by feed alone, which promises what it adds; both sides age
\* alike.
LEMMA ElementsStep ==
  ASSUME TypeOK, ElementsArePromised, PendingIsNamed, [Next]_vars
  PROVE  ElementsArePromised'
<1>1. CASE FeedAdd
  <2> SUFFICES ASSUME NEW set \in Sets, NEW ip \in KAddrs, table'.elems[set][ip] > 0
               PROVE  \E n \in Names : /\ set[1] \in DomainRules(Rules, n)
                                       /\ table'.elems[set][ip] <= promise'[<<n, ip>>]
    BY DEF ElementsArePromised
  <2> DEFINE fresh == Stretch(pending.ttl)
  <2>1. /\ fresh \in Nat /\ pending.name \in Names
        /\ \A n \in Names : promise[<<n, ip>>] \in Nat
    BY <1>1, StretchLeft, LeftNat DEF FeedAdd, PendingIsNamed, TypeOK, Answers
  <2>2. table.elems[set][ip] \in Nat
    BY ElementNat
  <2>3. table' = [table EXCEPT !.elems =
                    [t \in Sets |-> [a \in KAddrs |->
                       IF <<t, a>> \in Adds(pending) /\ (Refresh \/ @[t][a] = 0)
                       THEN fresh ELSE @[t][a]]]]
    BY <1>1 DEF FeedAdd
  <2>4. table'.elems[set][ip] = IF <<set, ip>> \in Adds(pending)
                                   /\ (Refresh \/ table.elems[set][ip] = 0)
                                THEN fresh ELSE table.elems[set][ip]
    BY <2>3 DEF TypeOK, Tables
  <2>5. promise' = [p \in Names \X KAddrs |->
                      IF p[1] = pending.name /\ p[2] \in {Unmap(a) : a \in pending.addrs}
                         /\ promise[p] < fresh
                      THEN fresh ELSE promise[p]]
    BY <1>1 DEF FeedAdd, IsIn
  <2>6. \A n \in Names : promise'[<<n, ip>>] >= promise[<<n, ip>>]
    BY <2>1, <2>5
  <2>7. CASE <<set, ip>> \in Adds(pending)
    <3>1. set[1] \in DomainRules(Rules, pending.name) /\ ip \in {Unmap(a) : a \in pending.addrs}
      BY <2>7 DEF Adds, SetFor
    <3>2. promise'[<<pending.name, ip>>] >= fresh
      BY <2>1, <2>5, <3>1
    <3>3. CASE table'.elems[set][ip] = fresh
      BY <2>1, <3>1, <3>2, <3>3
    <3>4. CASE table'.elems[set][ip] = table.elems[set][ip]
      <4>1. PICK n \in Names : /\ set[1] \in DomainRules(Rules, n)
                               /\ table.elems[set][ip] <= promise[<<n, ip>>]
        BY <3>4 DEF ElementsArePromised
      <4>2. promise'[<<n, ip>>] \in Nat
        BY <2>1, <2>5
      <4> QED BY <2>1, <2>2, <2>6, <3>4, <4>1, <4>2
    <3> QED BY <2>4, <3>3, <3>4
  <2>8. CASE <<set, ip>> \notin Adds(pending)
    <3>1. table'.elems[set][ip] = table.elems[set][ip]
      BY <2>4, <2>8
    <3>2. PICK n \in Names : /\ set[1] \in DomainRules(Rules, n)
                             /\ table.elems[set][ip] <= promise[<<n, ip>>]
      BY <3>1 DEF ElementsArePromised
    <3>3. promise'[<<n, ip>>] \in Nat
      BY <2>1, <2>5
    <3> QED BY <2>1, <2>2, <2>6, <3>1, <3>2, <3>3
  <2> QED BY <2>7, <2>8
<1>2. CASE Tick
  <2> SUFFICES ASSUME NEW set \in Sets, NEW ip \in KAddrs, table'.elems[set][ip] > 0
               PROVE  \E n \in Names : /\ set[1] \in DomainRules(Rules, n)
                                       /\ table'.elems[set][ip] <= promise'[<<n, ip>>]
    BY DEF ElementsArePromised
  <2>1. table.elems[set][ip] \in Nat /\ table'.elems[set][ip] = Less(table.elems[set][ip])
    <3>1. table'.elems = [t \in Sets |-> [a \in KAddrs |-> Less(table.elems[t][a])]]
      BY <1>2 DEF Tick, TypeOK, Tables
    <3> QED BY <3>1, ElementNat
  <2>2. PICK n \in Names : /\ set[1] \in DomainRules(Rules, n)
                           /\ table.elems[set][ip] <= promise[<<n, ip>>]
    BY <2>1 DEF ElementsArePromised, Less
  <2>3. promise[<<n, ip>>] \in Nat /\ promise'[<<n, ip>>] = Less(promise[<<n, ip>>])
    BY <1>2, LeftNat DEF Tick, TypeOK
  <2>4. table'.elems[set][ip] <= promise'[<<n, ip>>]
    BY <2>1, <2>2, <2>3 DEF Less
  <2> QED BY <2>2, <2>4
<1>3. CASE table'.elems = EmptySets
  BY <1>3 DEF ElementsArePromised, EmptySets
<1>4. CASE UNCHANGED <<table, promise>>
  BY <1>4 DEF ElementsArePromised
<1>5. CASE Commit \/ Close \/ Off
  <2>1. table'.elems = EmptySets \/ UNCHANGED <<table, promise>>
    BY <1>5 DEF Commit, Close, Off, NoTable
  <2> QED BY <1>3, <1>4, <2>1
<1> QED
  BY <1>1, <1>2, <1>4, <1>5
  DEF Next, Daemon, Environment, vars, Start, ResolveAtom, ApplyFails, SeedLookup, SeedDone,
      FeedRefused, ReadJunk, ReadDns, ReadOther, LeaveLoop, Signal, Crash, Arrive, Mkdir, Rmdir

\* A lifetime is a natural no shorter than MinTTL, and what an answer is
\* stretched to is one.
LEMMA LifetimeNat ==
  /\ MinTTL \in Lifetimes
  /\ \A l \in Lifetimes : l \in Nat /\ l >= MinTTL
  /\ \A ttl \in TTLs \cup {0, MinTTL} : Stretch(ttl) \in Lifetimes
  BY Bounds DEF Lifetimes, Stretch

\* Unmapping twice is unmapping once, and an address and its unmapped form
\* belong in the same set.
LEMMA UnmapTwice ==
  ASSUME NEW ip \in Address
  PROVE  /\ Unmap(ip) \in Address /\ Unmap(ip).fam \in Families
         /\ Unmap(Unmap(ip)) = Unmap(ip)
         /\ \A i : SetFor(i, Unmap(ip)) = SetFor(i, ip)
<1>1. CASE ip.fam = "v4in6"
  <2>1. Unmap(ip) = [fam |-> "v4", bits |-> ip.bits]
    BY <1>1 DEF Unmap, Address
  <2>2. Unmap(ip).fam = "v4" /\ Unmap(ip) \in Address
    BY <2>1 DEF Address
  <2> QED BY <2>2 DEF Unmap, SetFor, Families
<1>2. CASE ip.fam # "v4in6"
  BY <1>2 DEF Unmap, SetFor, Families, Address
<1> QED BY <1>1, <1>2

\* A rule that covers a name has domains, and a set for each address.
LEMMA CoveredHasSets ==
  ASSUME NEW n, NEW i \in DomainRules(Rules, n), NEW ip
  PROVE  /\ i \in DOMAIN Rules /\ HasDomains(Rules[i]) /\ SetFor(i, ip) \in Sets
  BY DEF DomainRules, CoversName, HasDomains, Sets, PlanSets, SetFor, Families

\* The sets are refreshed with every answer, age with it, and are emptied with
\* what they hold forgotten.
LEMMA NamesStep ==
  ASSUME TypeOK, NamesAreHeld, PendingIsNamed, [Next]_vars
  PROVE  NamesAreHeld'
<1>1. CASE FeedAdd
  <2> SUFFICES ASSUME Refresh, table'.present, NEW n \in Names, NEW ip \in KAddrs,
                      NEW i \in DomainRules(Rules, n)
               PROVE  table'.elems[SetFor(i, ip)][ip] >= recent'[<<n, ip>>]
    BY DEF NamesAreHeld
  <2> DEFINE fresh == Stretch(pending.ttl)
             set == SetFor(i, ip)
  <2>1. fresh \in Nat /\ fresh >= MinTTL /\ MinTTL \in Nat
    BY Bounds, LifetimeNat DEF TypeOK, Answers
  <2>2. set \in Sets
    BY CoveredHasSets
  <2>3. recent[<<n, ip>>] \in 0..MinTTL
    BY DEF TypeOK
  <2>4. table' = [table EXCEPT !.elems =
                    [t \in Sets |-> [a \in KAddrs |->
                       IF <<t, a>> \in Adds(pending) /\ (Refresh \/ @[t][a] = 0)
                       THEN fresh ELSE @[t][a]]]]
    BY <1>1 DEF FeedAdd
  <2>5. /\ table'.present = table.present
        /\ table'.elems[set][ip] = IF <<set, ip>> \in Adds(pending)
                                   THEN fresh ELSE table.elems[set][ip]
    BY <2>2, <2>4 DEF TypeOK, Tables
  <2>6. recent'[<<n, ip>>] =
          IF n = pending.name /\ ip \in {Unmap(a) : a \in pending.addrs}
          THEN MinTTL ELSE recent[<<n, ip>>]
    BY <1>1 DEF FeedAdd, IsIn
  <2>7. CASE <<set, ip>> \in Adds(pending)
    BY <2>1, <2>3, <2>5, <2>6, <2>7
  <2>8. CASE <<set, ip>> \notin Adds(pending)
    <3>1. ~ (n = pending.name /\ ip \in {Unmap(a) : a \in pending.addrs})
      <4> SUFFICES ASSUME n = pending.name, NEW a \in pending.addrs, ip = Unmap(a) PROVE FALSE
        OBVIOUS
      <4>1. a \in Address
        BY WorldAssumption DEF TypeOK, Answers
      <4>2. SetFor(i, ip) = SetFor(i, a)
        BY <4>1, UnmapTwice
      <4>3. i \in DomainRules(Rules, pending.name)
        OBVIOUS
      <4> QED BY <2>8, <4>2, <4>3 DEF Adds
    <3>2. recent'[<<n, ip>>] = recent[<<n, ip>>] /\ table'.elems[set][ip] = table.elems[set][ip]
      BY <2>5, <2>6, <2>8, <3>1
    <3> QED BY <2>5, <3>2 DEF NamesAreHeld
  <2> QED BY <2>7, <2>8
<1>2. CASE Tick
  <2> SUFFICES ASSUME Refresh, table'.present, NEW n \in Names, NEW ip \in KAddrs,
                      NEW i \in DomainRules(Rules, n)
               PROVE  table'.elems[SetFor(i, ip)][ip] >= recent'[<<n, ip>>]
    BY DEF NamesAreHeld
  <2> DEFINE set == SetFor(i, ip)
  <2>1. set \in Sets
    BY CoveredHasSets
  <2>2. table'.present = table.present /\ table'.elems[set][ip] = Less(table.elems[set][ip])
    BY <1>2, <2>1 DEF Tick, TypeOK, Tables
  <2>3. table.elems[set][ip] \in Nat
    BY <2>1, ElementNat
  <2>4. recent[<<n, ip>>] \in Nat /\ recent'[<<n, ip>>] = Less(recent[<<n, ip>>])
    BY <1>2, Bounds DEF Tick, TypeOK
  <2>5. table.elems[set][ip] >= recent[<<n, ip>>]
    BY <2>2 DEF NamesAreHeld
  <2> QED BY <2>2, <2>3, <2>4, <2>5 DEF Less
<1>3. CASE Commit
  <2> SUFFICES ASSUME NEW n \in Names, NEW ip \in KAddrs, NEW i \in DomainRules(Rules, n)
               PROVE  table'.elems[SetFor(i, ip)][ip] >= recent'[<<n, ip>>]
    BY DEF NamesAreHeld
  <2>1. SetFor(i, ip) \in Sets
    BY CoveredHasSets
  <2>2. table'.elems = EmptySets /\ recent' = [p \in Names \X KAddrs |-> 0]
    BY <1>3 DEF Commit
  <2>3. table'.elems[SetFor(i, ip)][ip] = 0 /\ recent'[<<n, ip>>] = 0
    BY <2>1, <2>2 DEF EmptySets
  <2> QED BY <2>3
<1>4. CASE UNCHANGED <<table, recent>>
  BY <1>4 DEF NamesAreHeld
<1>5. CASE Close \/ Off
  <2>1. ~ table'.present \/ UNCHANGED <<table, recent>>
    BY <1>5 DEF Close, Off, NoTable
  <2>2. CASE ~ table'.present
    BY <2>2 DEF NamesAreHeld
  <2> QED BY <1>4, <2>1, <2>2
<1> QED
  BY <1>1, <1>2, <1>3, <1>4, <1>5
  DEF Next, Daemon, Environment, vars, Start, ResolveAtom, ApplyFails, SeedLookup, SeedDone,
      FeedRefused, ReadJunk, ReadDns, ReadOther, LeaveLoop, Signal, Crash, Arrive, Mkdir, Rmdir

\* A directory gets an inode nothing had.
LEMMA TreeStep ==
  ASSUME TypeOK, TreeIsSound, [Next]_vars
  PROVE  TreeIsSound'
<1>1. ASSUME NEW c \in Cgroups, Mkdir(c) PROVE TreeIsSound'
  BY <1>1, Bounds DEF Mkdir, TreeIsSound, TypeOK, NoId
<1>2. ASSUME NEW c \in Cgroups, Rmdir(c) PROVE TreeIsSound'
  BY <1>2, Bounds DEF Rmdir, TreeIsSound, TypeOK, NoId
<1>3. CASE UNCHANGED world
  BY <1>3 DEF TreeIsSound, world
<1> QED
  BY <1>1, <1>2, <1>3
  DEF Next, Daemon, Environment, vars, Start, ResolveAtom, Commit, ApplyFails, SeedLookup,
      SeedDone, FeedAdd, FeedRefused, ReadJunk, ReadDns, ReadOther, LeaveLoop, Close, Signal,
      Crash, Off, Tick, Arrive

\* No lookup, and no change of the tree after one, gives an atom the id of
\* another cgroup.
LEMMA IdsStep ==
  ASSUME TypeOK, TreeIsSound, IdsAreRight, [Next]_vars
  PROVE  IdsAreRight'
<1>1. CASE UNCHANGED world /\ table'.loaded \cup build'.loaded \subseteq table.loaded \cup build.loaded
  BY <1>1 DEF IdsAreRight, IdOf, world
<1>2. ASSUME NEW reload \in BOOLEAN, build' = NewBuild(reload), UNCHANGED <<world, table>>
      PROVE  IdsAreRight'
  <2>1. \A e \in build'.loaded : e.atom.cgroup = NoCgroup
    BY <1>2 DEF NewBuild, CgroupAtoms
  <2> QED BY <1>2, <2>1 DEF IdsAreRight, IdOf, world
<1>3. CASE ResolveAtom
  <2>1. PICK a \in build.left : build' = LookedUp(a)
    BY <1>3 DEF ResolveAtom
  <2>2. a.cgroup \in Cgroups
    BY CgroupOfAtom DEF TypeOK, Builds
  <2>3. UNCHANGED world /\ UNCHANGED table
    BY <1>3 DEF ResolveAtom
  <2>4. CASE inode[a.cgroup] = NoId
    <3>1. build'.loaded = build.loaded
      BY <2>1, <2>4 DEF LookedUp, TypeOK, Builds
    <3> QED BY <1>1, <2>3, <3>1
  <2>5. CASE inode[a.cgroup] # NoId
    <3>1. build'.loaded = build.loaded \cup {[atom |-> a, id |-> inode[a.cgroup]]}
      BY <2>1, <2>5 DEF LookedUp, TypeOK, Builds
    <3>2. IdOf(a, inode[a.cgroup])
      BY <2>2, <2>5 DEF IdOf, TreeIsSound
    <3> QED BY <2>3, <3>1, <3>2 DEF IdsAreRight, IdOf, world
  <2> QED BY <2>4, <2>5
<1>4. ASSUME NEW c \in Cgroups, Mkdir(c) PROVE IdsAreRight'
  <2>1. UNCHANGED <<table, build>> /\ lastInode' = lastInode + 1
        /\ inode' = [inode EXCEPT ![c] = lastInode + 1]
    BY <1>4 DEF Mkdir, daemon
  <2> SUFFICES ASSUME NEW e \in table.loaded \cup build.loaded PROVE IdOf(e.atom, e.id)'
    BY <2>1 DEF IdsAreRight
  <2>2. IdOf(e.atom, e.id) /\ e.id \in Nat /\ lastInode \in Nat
    BY Bounds DEF IdsAreRight, TypeOK, Tables, Builds, Loaded
  <2> QED BY <2>1, <2>2 DEF IdOf, TypeOK
<1>5. ASSUME NEW c \in Cgroups, Rmdir(c) PROVE IdsAreRight'
  <2>1. UNCHANGED <<table, build, lastInode>> /\ inode' = [inode EXCEPT ![c] = NoId]
    BY <1>5 DEF Rmdir, daemon
  <2> QED BY <2>1 DEF IdsAreRight, IdOf, TypeOK
<1>6. CASE Start \/ ReadOther
  BY <1>1, <1>2, <1>6 DEF Start, ReadOther
<1>7. CASE Commit
  BY <1>1, <1>7 DEF Commit
<1>8. CASE ApplyFails \/ SeedDone \/ Close \/ Crash \/ Off
  <2>1. build' \in {NoBuild, build} /\ table' \in {NoTable, table} /\ UNCHANGED world
    BY <1>8 DEF ApplyFails, SeedDone, Close, Crash, Off, Exit, daemon
  <2> QED BY <1>1, <2>1 DEF NoBuild, NoTable
<1>9. CASE FeedAdd \/ Tick
  <2>1. table'.loaded = table.loaded /\ UNCHANGED <<build, world>>
    BY <1>9 DEF FeedAdd, Tick, TypeOK, Tables
  <2> QED BY <1>1, <2>1
<1>10. CASE UNCHANGED <<build, table, world>>
  BY <1>1, <1>10
<1> QED
  BY <1>3, <1>4, <1>5, <1>6, <1>7, <1>8, <1>9, <1>10
  DEF Next, Daemon, Environment, vars, daemon, SeedLookup, FeedRefused, ReadJunk, ReadDns,
      LeaveLoop, Signal, Arrive

\* Every batch starts with the static atoms and loses none.
LEMMA TablesStep ==
  ASSUME TypeOK, TablesAreWhole, [Next]_vars
  PROVE  TablesAreWhole'
<1>1. ASSUME NEW reload \in BOOLEAN, build' = NewBuild(reload), UNCHANGED table
      PROVE  TablesAreWhole'
  <2>1. HasStaticAtoms(build'.loaded)
    BY <1>1 DEF NewBuild, HasStaticAtoms, CgroupAtoms
  <2> QED BY <1>1, <2>1 DEF TablesAreWhole, HasStaticAtoms
<1>2. CASE ResolveAtom
  <2>1. PICK a \in build.left : build' = LookedUp(a)
    BY <1>2 DEF ResolveAtom
  <2>2. build.loaded \subseteq build'.loaded
    BY <2>1 DEF LookedUp, TypeOK, Builds
  <2> QED BY <1>2, <2>2 DEF ResolveAtom, TablesAreWhole, HasStaticAtoms
<1>3. CASE Commit
  BY <1>3 DEF Commit, TablesAreWhole, HasStaticAtoms
<1>4. CASE table'.present = FALSE /\ pc' # "apply"
  BY <1>4 DEF TablesAreWhole
<1>5. CASE pc' # "apply" /\ UNCHANGED table
  BY <1>5 DEF TablesAreWhole, HasStaticAtoms
<1>6. CASE UNCHANGED <<pc, build, table>>
  BY <1>6 DEF TablesAreWhole, HasStaticAtoms
<1>7. CASE Start \/ ReadOther
  BY <1>1, <1>6, <1>7 DEF Start, ReadOther
<1>8. CASE FeedAdd \/ Tick
  <2>1. /\ table'.loaded = table.loaded /\ table'.present = table.present
        /\ table'.forward = table.forward /\ UNCHANGED build
        /\ pc' # "apply" \/ pc' = pc
    BY <1>8 DEF FeedAdd, Tick, TypeOK, Tables, Answers
  <2> QED BY <2>1 DEF TablesAreWhole, HasStaticAtoms
<1>9. CASE Close \/ Crash \/ ApplyFails
  <2>1. pc' # "apply" /\ table' \in {NoTable, table}
    BY <1>9 DEF Close, Crash, ApplyFails, Exit
  <2>2. CASE table' = NoTable
    <3>1. table'.present = FALSE
      BY <2>2 DEF NoTable
    <3> QED BY <1>4, <2>1, <3>1
  <2>3. CASE table' = table
    BY <1>5, <2>1, <2>3
  <2> QED BY <2>1, <2>2, <2>3
<1>10. CASE Off
  BY <1>10 DEF Off, NoTable, daemon, TablesAreWhole, HasStaticAtoms
<1>11. CASE SeedLookup \/ SeedDone \/ FeedRefused \/ LeaveLoop \/ ReadDns
  BY <1>5, <1>6, <1>11
  DEF SeedLookup, SeedDone, FeedRefused, LeaveLoop, ReadDns, TypeOK, Answers
<1> QED
  BY <1>2, <1>3, <1>6, <1>7, <1>8, <1>9, <1>10, <1>11
  DEF Next, Daemon, Environment, vars, daemon, ReadJunk, Signal, Arrive, Mkdir, Rmdir

\* Each lookup either loads its atom or notes its cgroup, the commit hands
\* both over together, and nothing else touches the handle of a running daemon.
LEMMA MissingStep ==
  ASSUME TypeOK, MissingIsCounted, [Next]_vars
  PROVE  MissingIsCounted'
<1>1. ASSUME NEW reload \in BOOLEAN, build' = NewBuild(reload)
      PROVE  /\ build'.left \cap {e.atom : e \in build'.loaded} = {}
             /\ build'.missing = LeftOut(build'.left, build'.loaded)
             /\ build'.reload = reload
  <2>1. /\ build'.left = CgroupAtoms /\ build'.missing = {} /\ build'.reload = reload
        /\ build'.loaded = {[atom |-> a, id |-> NoId] : a \in Atoms(Rules) \ CgroupAtoms}
    BY <1>1 DEF NewBuild
  <2>2. {e.atom : e \in build'.loaded} = Atoms(Rules) \ CgroupAtoms
    <3>1. \A a \in Atoms(Rules) \ CgroupAtoms :
            [atom |-> a, id |-> NoId] \in build'.loaded /\ [atom |-> a, id |-> NoId].atom = a
      BY <2>1
    <3>2. \A e \in build'.loaded : e.atom \in Atoms(Rules) \ CgroupAtoms
      BY <2>1
    <3> QED BY <3>1, <3>2
  <2> QED BY <2>1, <2>2 DEF LeftOut
<1>2. CASE Start
  BY <1>1, <1>2 DEF Start, MissingIsCounted
<1>3. CASE ReadOther
  <2>1. CASE pc' = "apply" /\ build' = NewBuild(TRUE)
    BY <1>1, <1>3, <2>1 DEF ReadOther, Reading, MissingIsCounted
  <2>2. CASE UNCHANGED <<pc, build>>
    BY <1>3, <2>2 DEF ReadOther, MissingIsCounted
  <2> QED BY <1>3, <2>1, <2>2 DEF ReadOther
<1>4. CASE ResolveAtom
  <2>1. PICK a \in build.left : build' = LookedUp(a)
    BY <1>4 DEF ResolveAtom
  <2>2. a \in Atoms(Rules) /\ build \in Builds /\ pc = "apply"
    BY <1>4, CgroupOfAtom DEF ResolveAtom, TypeOK, Builds
  <2>3. a \notin {e.atom : e \in build.loaded}
    BY <2>2 DEF MissingIsCounted
  <2>4. build'.left \cap {e.atom : e \in build'.loaded} = {}
        /\ build'.missing = LeftOut(build'.left, build'.loaded)
    <3>1. CASE inode[a.cgroup] = NoId
      <4>1. /\ build'.left = build.left \ {a} /\ build'.loaded = build.loaded
            /\ build'.missing = build.missing \cup {a.cgroup}
        BY <2>1, <2>2, <3>1 DEF LookedUp, Builds
      <4> QED BY <2>2, <2>3, <4>1 DEF MissingIsCounted, LeftOut
    <3>2. CASE inode[a.cgroup] # NoId
      <4>1. /\ build'.left = build.left \ {a} /\ build'.missing = build.missing
            /\ build'.loaded = build.loaded \cup {[atom |-> a, id |-> inode[a.cgroup]]}
        BY <2>1, <2>2, <3>2 DEF LookedUp, Builds
      <4>2. {e.atom : e \in build'.loaded} = {e.atom : e \in build.loaded} \cup {a}
        <5>1. [atom |-> a, id |-> inode[a.cgroup]].atom = a
          OBVIOUS
        <5> QED BY <4>1, <5>1
      <4> QED BY <2>2, <2>3, <4>1, <4>2 DEF MissingIsCounted, LeftOut
    <3> QED BY <3>1, <3>2
  <2>5. build'.reload = build.reload
    BY <2>1, <2>2 DEF LookedUp, Builds
  <2> QED BY <1>4, <2>4, <2>5 DEF ResolveAtom, MissingIsCounted
<1>5. CASE Commit
  BY <1>5 DEF Commit, MissingIsCounted, LeftOut
<1>6. CASE ApplyFails
  BY <1>6 DEF ApplyFails, Exit, MissingIsCounted
<1>7. CASE SeedLookup \/ SeedDone \/ FeedRefused \/ ReadDns
  BY <1>7 DEF SeedLookup, SeedDone, FeedRefused, ReadDns, Reading, MissingIsCounted, TypeOK, Answers
<1>8. CASE FeedAdd
  <2>1. /\ table'.loaded = table.loaded /\ table'.present = table.present
        /\ pc = "feed" /\ pc' \in {"seed", "loop"} /\ UNCHANGED <<build, handle>>
    BY <1>8 DEF FeedAdd, TypeOK, Tables, Answers
  <2> QED BY <2>1 DEF MissingIsCounted
<1>9. CASE Tick
  <2>1. /\ table'.loaded = table.loaded /\ table'.present = table.present
        /\ UNCHANGED <<pc, build, handle>>
    BY <1>9 DEF Tick, TypeOK, Tables
  <2> QED BY <2>1 DEF MissingIsCounted
<1>10. CASE pc' \in {"down", "closing"}
  BY <1>10 DEF MissingIsCounted
<1>11. CASE Off
  BY <1>11 DEF Off, NoTable, daemon, MissingIsCounted
<1>12. CASE UNCHANGED <<pc, build, handle, table>>
  BY <1>12 DEF MissingIsCounted
<1> QED
  BY <1>2, <1>3, <1>4, <1>5, <1>6, <1>7, <1>8, <1>9, <1>10, <1>11, <1>12
  DEF Next, Daemon, Environment, vars, daemon, Exit, ReadJunk, LeaveLoop, Close, Signal, Crash,
      Arrive, Mkdir, Rmdir

\* A batch starts with every cgroup atom still to look up, a lookup finds the
\* directory the table has the atom under, and a directory made meanwhile has an id
\* no table knows.
LEMMA BatchStep ==
  ASSUME TypeOK, IdsAreRight, BatchFindsTheSame, [Next]_vars
  PROVE  BatchFindsTheSame'
<1>1. ASSUME NEW e \in table.loaded, e.atom.cgroup # NoCgroup
      PROVE  /\ e = [atom |-> e.atom, id |-> e.id]
             /\ e.atom \in CgroupAtoms /\ e.atom.cgroup \in Cgroups
             /\ e.id \in Nat /\ e.id # NoId /\ e.id <= lastInode
  <2>1. e \in Loaded
    BY DEF TypeOK, Tables
  <2>2. e.atom \in CgroupAtoms
    BY <1>1, <2>1 DEF Loaded, CgroupAtoms
  <2>3. IdOf(e.atom, e.id)
    BY DEF IdsAreRight
  <2> QED BY <1>1, <2>1, <2>2, <2>3, CgroupOfAtom, Bounds DEF Loaded, IdOf
<1>2. ASSUME NEW reload \in BOOLEAN, build' = NewBuild(reload), UNCHANGED table
      PROVE  BatchFindsTheSame'
  <2>1. build'.left = CgroupAtoms
    BY <1>2 DEF NewBuild
  <2> QED BY <1>1, <1>2, <2>1 DEF BatchFindsTheSame
<1>3. CASE ResolveAtom
  <2>1. PICK a \in build.left : build' = LookedUp(a)
    BY <1>3 DEF ResolveAtom
  <2>2. UNCHANGED <<pc, table, inode>> /\ pc = "apply"
    BY <1>3 DEF ResolveAtom, world
  <2> SUFFICES ASSUME table.present, NEW e \in table.loaded,
                      e.atom.cgroup # NoCgroup, inode[e.atom.cgroup] = e.id
               PROVE  e.atom \in build'.left \/ e \in build'.loaded
    BY <2>2 DEF BatchFindsTheSame
  <2>3. e.atom \in build.left \/ e \in build.loaded
    BY <2>2 DEF BatchFindsTheSame
  <2>4. build \in Builds
    BY DEF TypeOK
  <2>5. CASE e.atom = a
    <3>1. inode[a.cgroup] # NoId /\ e = [atom |-> a, id |-> inode[a.cgroup]]
      BY <1>1, <2>5
    <3>2. build'.loaded = build.loaded \cup {[atom |-> a, id |-> inode[a.cgroup]]}
      BY <2>1, <2>4, <3>1 DEF LookedUp, Builds
    <3> QED BY <3>1, <3>2
  <2>6. CASE e.atom # a
    <3>1. build'.left = build.left \ {a} /\ build.loaded \subseteq build'.loaded
      BY <2>1, <2>4 DEF LookedUp, Builds
    <3> QED BY <2>3, <2>6, <3>1
  <2> QED BY <2>5, <2>6
<1>4. ASSUME NEW c \in Cgroups, Mkdir(c) PROVE BatchFindsTheSame'
  <2>1. UNCHANGED <<pc, build, table>> /\ inode' = [inode EXCEPT ![c] = lastInode + 1]
    BY <1>4 DEF Mkdir, daemon
  <2>2. inode \in [Cgroups -> 0..MaxInode] /\ lastInode \in Nat
    BY Bounds DEF TypeOK
  <2>3. ASSUME NEW e \in table.loaded, e.atom.cgroup # NoCgroup, inode'[e.atom.cgroup] = e.id
        PROVE  inode[e.atom.cgroup] = e.id
    BY <1>1, <2>1, <2>2, <2>3
  <2> QED BY <2>1, <2>3 DEF BatchFindsTheSame
<1>5. ASSUME NEW c \in Cgroups, Rmdir(c) PROVE BatchFindsTheSame'
  <2>1. UNCHANGED <<pc, build, table>> /\ inode' = [inode EXCEPT ![c] = NoId]
    BY <1>5 DEF Rmdir, daemon
  <2>2. inode \in [Cgroups -> 0..MaxInode]
    BY DEF TypeOK
  <2>3. ASSUME NEW e \in table.loaded, e.atom.cgroup # NoCgroup, inode'[e.atom.cgroup] = e.id
        PROVE  inode[e.atom.cgroup] = e.id
    BY <1>1, <2>1, <2>2, <2>3
  <2> QED BY <2>1, <2>3 DEF BatchFindsTheSame
<1>6. CASE pc' # "apply" \/ ~ table'.present
  BY <1>6 DEF BatchFindsTheSame
<1>7. CASE UNCHANGED <<pc, build, table, inode>>
  BY <1>7 DEF BatchFindsTheSame
<1>8. CASE Tick
  <2>1. /\ table'.loaded = table.loaded /\ table'.present = table.present
        /\ UNCHANGED <<pc, build, inode>>
    BY <1>8 DEF Tick, TypeOK, Tables, world
  <2> QED BY <2>1 DEF BatchFindsTheSame
<1>9. CASE Start \/ ReadOther
  BY <1>2, <1>7, <1>9 DEF Start, ReadOther, world
<1>10. CASE Commit \/ ApplyFails \/ SeedLookup \/ SeedDone \/ Close \/ Crash \/ Off
  BY <1>6, <1>7, <1>10
  DEF Commit, ApplyFails, SeedLookup, SeedDone, Close, Crash, Off, Exit, NoTable
<1>11. CASE FeedAdd \/ FeedRefused
  BY <1>6, <1>11 DEF FeedAdd, FeedRefused, TypeOK, Answers
<1> QED
  BY <1>3, <1>4, <1>5, <1>6, <1>7, <1>8, <1>9, <1>10, <1>11
  DEF Next, Daemon, Environment, vars, daemon, world, ReadJunk, ReadDns, LeaveLoop, Signal, Arrive

\* The parts together.
LEMMA NextIInv == IInv /\ [Next]_vars => IInv'
  BY NextTypeOK, ElementsStep, NamesStep, PendingStep, TreeStep, IdsStep, TablesStep, MissingStep,
     BatchStep
  DEF IInv

\* The strengthening that the safety theorems below rest on.
THEOREM InvariantHolds == Spec => []IInv
  BY InitIInv, NextIInv, PTL DEF Spec

----------------------------------------------------------------------------
(* What the kernel decides.                                                *)

\* The chain decides by an atom that matches and that no earlier rule's
\* matching atom precedes.
LEMMA FirstHitIsFirst ==
  ASSUME NEW hits, hits # {}, \A e \in hits : e.atom.rule \in Nat
  PROVE  /\ FirstHit(hits) \in hits
         /\ \A f \in hits : FirstHit(hits).atom.rule <= f.atom.rule
<1> DEFINE indexes == {e.atom.rule : e \in hits}
<1>1. PICK m \in indexes : \A k \in indexes : m <= k
  <2>1. indexes \in SUBSET Nat /\ indexes # {}
    OBVIOUS
  <2> HIDE DEF indexes
  <2> QED BY <2>1, LeastExists
<1>2. \E e \in hits : \A f \in hits : e.atom.rule <= f.atom.rule
  BY <1>1
<1> QED BY <1>2 DEF FirstHit

\* A hit of a well-typed table is an atom of the policy.
LEMMA HitsAreAtoms ==
  ASSUME TypeOK, NEW pkt, NEW e \in Hits(table, pkt, inode)
  PROVE  /\ e \in table.loaded /\ e.atom \in Atoms(Rules)
         /\ e.atom.rule \in DOMAIN Rules /\ e.atom.rule \in Nat
<1>1. e \in table.loaded /\ table.loaded \subseteq Loaded
  BY DEF Hits, TypeOK, Tables
<1> QED BY <1>1, AtomOfRule, RuleFields DEF Loaded

\* A packet whose socket matches an atom's id is from within its cgroup, as
\* long as the id is of that cgroup and no other.
LEMMA CgroupMatchIsWithin ==
  ASSUME NEW a \in Atoms(Rules), a.cgroup # NoCgroup, NEW id, IdOf(a, id),
         NEW pkt \in Packet, MatchesCgroup(a, id, pkt, inode)
  PROVE  CgroupWithin(pkt.cgroup, a.cgroup)
<1> DEFINE n == Len(a.cgroup)
<1>1. a.cgroup \in Cgroups
  BY CgroupOfAtom DEF CgroupAtoms
<1>2. a.cgroup \in Seq(STRING) /\ n \in Nat /\ n # 0
  BY <1>1, WorldAssumption, LenProperties, EmptySeq DEF NoCgroup
<1>3. n <= Len(pkt.cgroup) /\ inode[SubSeq(pkt.cgroup, 1, n)] = id
  BY DEF MatchesCgroup
<1>4. pkt.cgroup \in Cgroups
  <2>1. pkt.cgroup \in Cgroups \cup {NoCgroup}
    BY DEF Packet
  <2>2. Len(NoCgroup) = 0
    BY DEF NoCgroup
  <2> QED BY <1>2, <1>3, <2>1, <2>2
<1>5. SubSeq(pkt.cgroup, 1, n) \in Cgroups
  <2>1. pkt.cgroup \in Seq(STRING) /\ Len(pkt.cgroup) \in Nat
    BY <1>4, WorldAssumption, LenProperties
  <2>2. n \in 1..Len(pkt.cgroup)
    BY <1>2, <1>3, <2>1
  <2> QED BY <1>4, <2>2, WorldAssumption
<1>6. SubSeq(pkt.cgroup, 1, n) = a.cgroup
  BY <1>3, <1>5 DEF IdOf
<1>7. SubSeq(a.cgroup, 1, n) = a.cgroup
  BY <1>2, <1>6, <1>4, <1>3, SubSeqProperties, WorldAssumption
<1> QED BY <1>3, <1>6, <1>7 DEF CgroupWithin, IsPrefix

\* An atom that matches a packet speaks for a rule that concerns it.
LEMMA HitConcerns ==
  ASSUME IInv, NEW pkt \in Packet, NEW e \in Hits(table, pkt, inode)
  PROVE  Concerns(e.atom.rule, pkt)
<1> DEFINE a == e.atom
           i == e.atom.rule
<1>1. /\ a \in Atoms(Rules) /\ i \in DOMAIN Rules
      /\ a.cgroup = Rules[i].cgroup /\ a.proto = Rules[i].proto
      /\ a.port \in AtomPorts(Rules[i])
      /\ e \in table.loaded
  BY HitsAreAtoms, AtomOfRule DEF IInv
<1>2. /\ InChain(a, pkt.hook) /\ MatchesCgroup(a, e.id, pkt, inode) /\ MatchesL4(a, pkt)
  BY DEF Hits
<1>3. ASSUME Rules[i].cgroup # NoCgroup
      PROVE  pkt.hook = "output" /\ CgroupWithin(pkt.cgroup, Rules[i].cgroup)
  <2>1. pkt.hook = "output"
    BY <1>1, <1>2, <1>3 DEF InChain, Packet
  <2>2. IdOf(a, e.id)
    BY <1>1 DEF IInv, IdsAreRight
  <2> QED BY <1>1, <1>2, <1>3, <2>1, <2>2, CgroupMatchIsWithin
<1>4. Rules[i].proto # "" => pkt.proto = Rules[i].proto
  BY <1>1, <1>2 DEF MatchesL4
<1>5. ASSUME Rules[i].ports # {}
      PROVE  pkt.proto \in {"tcp", "udp"} /\ \E p \in Rules[i].ports : pkt.port \in p.lo..p.hi
  <2>1. a.port \in Rules[i].ports
    BY <1>1, <1>5 DEF AtomPorts
  <2>2. a.port.lo \in 1..MaxPort /\ a.port.hi \in 1..MaxPort
    BY <1>1, <2>1, RuleFields DEF Rule
  <2>3. MaxPort \in Nat
    BY DEF MaxPort
  <2>4. a.port.hi # 0 /\ a.port.lo \in Int /\ a.port.hi \in Int
    BY <2>2, <2>3
  <2>5. pkt.proto \in {"tcp", "udp"} /\ InRange(pkt.port, a.port)
    BY <1>2, <2>4 DEF MatchesL4
  <2>6. pkt.port \in 0..MaxPort
    BY DEF Packet
  <2>7. pkt.port \in a.port.lo..a.port.hi
    BY <2>3, <2>4, <2>5, <2>6 DEF InRange
  <2> QED BY <2>1, <2>5, <2>7
<1> QED BY <1>3, <1>4, <1>5 DEF Concerns

\* An atom that matches a packet has its destination listed or resolved.
LEMMA HitReaches ==
  ASSUME IInv, NEW pkt \in Packet, NEW e \in Hits(table, pkt, inode)
  PROVE  Listed(e.atom.rule, pkt.ip) \/ Resolved(e.atom.rule, pkt.ip)
<1> DEFINE a == e.atom
           i == e.atom.rule
<1>1. a.base \in Bases(Rules[i]) /\ i \in DOMAIN Rules
  BY HitsAreAtoms, AtomOfRule DEF IInv
<1>2. MatchesHost(a, pkt, table.elems)
  BY DEF Hits
<1>3. CASE AnyHost(Rules[i])
  BY <1>3 DEF Listed
<1>4. CASE ~ AnyHost(Rules[i]) /\ a.base.kind = "prefix"
  <2>1. PICK p \in Rules[i].prefixes : a.base = [kind |-> "prefix", fam |-> p.fam, bits |-> p.bits]
    BY <1>1, <1>4 DEF Bases
  <2>2. PrefixContains(a.base, pkt.ip)
    BY <1>2, <1>4 DEF MatchesHost
  <2>3. PrefixContains(p, pkt.ip)
    BY <2>1, <2>2 DEF PrefixContains
  <2> QED BY <2>1, <2>3 DEF Listed
<1>5. CASE ~ AnyHost(Rules[i]) /\ a.base.kind # "prefix"
  <2>1. /\ HasDomains(Rules[i]) /\ a.base.kind = "set" /\ a.base.fam \in Families
    BY <1>1, <1>5 DEF Bases
  <2>2. table.elems[<<i, a.base.fam>>][pkt.ip] > 0
    BY <1>2, <2>1 DEF MatchesHost
  <2>3. <<i, a.base.fam>> \in Sets /\ pkt.ip \in KAddrs
    BY <1>1, <2>1 DEF Sets, PlanSets, Packet
  <2>4. PICK n \in Names : /\ i \in DomainRules(Rules, n)
                           /\ table.elems[<<i, a.base.fam>>][pkt.ip] <= promise[<<n, pkt.ip>>]
    BY <2>2, <2>3 DEF IInv, ElementsArePromised
  <2>5. table.elems[<<i, a.base.fam>>][pkt.ip] \in Nat /\ promise[<<n, pkt.ip>>] \in Nat
    BY <2>3, ElementNat, LeftNat DEF IInv, TypeOK
  <2>6. promise[<<n, pkt.ip>>] > 0
    BY <2>2, <2>4, <2>5
  <2> QED BY <2>4, <2>6 DEF Resolved
<1> QED BY <1>3, <1>4, <1>5

\* The invariant gives AcceptedOnlyIfAllowed.
LEMMA IInvAccepts == IInv => AcceptedOnlyIfAllowed
<1> SUFFICES ASSUME IInv, table.present, NEW pkt \in Packets,
                    Asked(pkt), KernelVerdict(pkt) = "allow", Default # "allow"
             PROVE  \E i \in DOMAIN Rules :
                      /\ Rules[i].verdict = "allow"
                      /\ Concerns(i, pkt)
                      /\ Listed(i, pkt.ip) \/ Resolved(i, pkt.ip)
  BY DEF AcceptedOnlyIfAllowed
<1> DEFINE hits == Hits(table, pkt, inode)
<1>1. pkt \in Packet /\ TypeOK
  BY WorldAssumption DEF IInv
<1>2. ~ PreAccepted(pkt) /\ ~ (pkt.hook = "forward" /\ ~ table.forward)
  BY DEF Asked, IInv, TablesAreWhole
<1>3. hits # {} /\ FirstHit(hits).atom.verdict = "allow"
  BY <1>2 DEF KernelVerdict, Filter
<1>4. FirstHit(hits) \in hits
  BY <1>1, <1>3, HitsAreAtoms, FirstHitIsFirst
<1> HIDE DEF hits
<1> DEFINE i == FirstHit(hits).atom.rule
<1>5. i \in DOMAIN Rules /\ Rules[i].verdict = "allow"
  BY <1>1, <1>3, <1>4, HitsAreAtoms, AtomOfRule DEF hits
<1>6. Concerns(i, pkt) /\ (Listed(i, pkt.ip) \/ Resolved(i, pkt.ip))
  BY <1>1, <1>4, HitConcerns, HitReaches DEF hits
<1> QED BY <1>5, <1>6

\* Fail closed, for every policy and through every interleaving: as long as a
\* table of the daemon is in the kernel, no packet that reaches the policy
\* passes unless an allow rule concerns it and its destination.
THEOREM OnlyTheAllowedPass == Spec => []AcceptedOnlyIfAllowed
  BY InvariantHolds, IInvAccepts, PTL

\* What an atom of rule i on base b is matched by.
MatchesBase(i, b, ip) ==
  \/ b.kind = "any"
  \/ b.kind = "prefix" /\ PrefixContains(b, ip)
  \/ b.kind = "set" /\ b.fam = ip.fam /\ table.elems[<<i, b.fam>>][ip] > 0

\* The atoms of a rule in force are in the table, with the id its cgroup has now.
LEMMA InForceIsLoaded ==
  ASSUME IInv, table.present, NEW i \in DOMAIN Rules, InForce(i),
         NEW a \in Atoms(Rules), a.cgroup = Rules[i].cgroup
  PROVE  \E id : /\ [atom |-> a, id |-> id] \in table.loaded
                 /\ a.cgroup # NoCgroup => id = inode[a.cgroup]
<1>1. CASE a.cgroup = NoCgroup
  BY <1>1 DEF IInv, TablesAreWhole, HasStaticAtoms
<1>2. CASE a.cgroup # NoCgroup
  <2>1. a \in CgroupAtoms
    BY <1>2 DEF CgroupAtoms
  <2> QED BY <1>2, <2>1 DEF InForce, Active
<1> QED BY <1>1, <1>2

\* A packet from within a cgroup has that cgroup's inode among its ancestors'.
LEMMA WithinMatchesCgroup ==
  ASSUME NEW a, NEW pkt, a.cgroup # NoCgroup => CgroupWithin(pkt.cgroup, a.cgroup),
         a.cgroup \in Seq(STRING), pkt.cgroup \in Seq(STRING),
         NEW id, a.cgroup # NoCgroup => id = inode[a.cgroup]
  PROVE  MatchesCgroup(a, id, pkt, inode)
<1> SUFFICES ASSUME a.cgroup # NoCgroup
             PROVE  /\ Len(a.cgroup) <= Len(pkt.cgroup)
                    /\ SubSeq(pkt.cgroup, 1, Len(a.cgroup)) = a.cgroup
  BY DEF MatchesCgroup
<1>1. Len(a.cgroup) <= Len(pkt.cgroup)
      /\ SubSeq(a.cgroup, 1, Len(a.cgroup)) = SubSeq(pkt.cgroup, 1, Len(a.cgroup))
  BY DEF CgroupWithin, IsPrefix
<1>2. SubSeq(a.cgroup, 1, Len(a.cgroup)) = a.cgroup
  BY SubSeqFull
<1> QED BY <1>1, <1>2

\* A rule in force that concerns a packet, and one of whose bases matches its
\* destination, has an atom that matches it.
LEMMA BaseIsHit ==
  ASSUME IInv, table.present, NEW pkt \in Packet, NEW i \in DOMAIN Rules,
         InForce(i), Concerns(i, pkt),
         NEW b \in Bases(Rules[i]), MatchesBase(i, b, pkt.ip)
  PROVE  \E e \in Hits(table, pkt, inode) : e.atom.rule = i
<1>1. PICK p \in AtomPorts(Rules[i]) :
        p.hi # 0 => pkt.proto \in {"tcp", "udp"} /\ InRange(pkt.port, p)
  <2>1. CASE Rules[i].ports = {}
    BY <2>1 DEF AtomPorts, AnyPort
  <2>2. CASE Rules[i].ports # {}
    <3>1. PICK p \in Rules[i].ports : pkt.port \in p.lo..p.hi
      BY <2>2 DEF Concerns
    <3>2. pkt.proto \in {"tcp", "udp"}
      BY <2>2 DEF Concerns
    <3>3. MaxPort \in Nat
      BY DEF MaxPort
    <3>4. p.lo \in 1..MaxPort /\ p.hi \in 1..MaxPort
      BY <3>1, RuleFields DEF Rule
    <3>5. InRange(pkt.port, p)
      BY <3>1, <3>3, <3>4 DEF InRange
    <3> QED BY <2>2, <3>1, <3>2, <3>5 DEF AtomPorts
  <2> QED BY <2>1, <2>2
<1> DEFINE a == [rule |-> i, base |-> b, port |-> p, proto |-> Rules[i].proto,
                 cgroup |-> Rules[i].cgroup, verdict |-> Rules[i].verdict]
<1>2. a \in Atoms(Rules)
  BY <1>1 DEF Atoms, AtomsOf
<1>3. /\ a.rule = i /\ a.base = b /\ a.port = p /\ a.proto = Rules[i].proto
      /\ a.cgroup = Rules[i].cgroup
  OBVIOUS
<1> HIDE DEF a
<1>4. PICK id : /\ [atom |-> a, id |-> id] \in table.loaded
                /\ a.cgroup # NoCgroup => id = inode[a.cgroup]
  BY <1>2, <1>3, InForceIsLoaded
<1> DEFINE e == [atom |-> a, id |-> id]
<1>5. e.atom = a /\ e.id = id /\ e \in table.loaded
  BY <1>4
<1> HIDE DEF e
<1>6. InChain(a, pkt.hook) /\ MatchesCgroup(a, e.id, pkt, inode)
  <2>1. a.cgroup # NoCgroup => pkt.hook = "output" /\ CgroupWithin(pkt.cgroup, a.cgroup)
    BY <1>3 DEF Concerns
  <2>2. a.cgroup \in Seq(STRING) /\ pkt.cgroup \in Seq(STRING)
    <3>1. Rules[i].cgroup \in Cgroups \cup {NoCgroup} /\ pkt.cgroup \in Cgroups \cup {NoCgroup}
      BY RuleFields DEF Packet, Rule
    <3>2. NoCgroup \in Seq(STRING)
      BY EmptySeq DEF NoCgroup
    <3> QED BY <1>3, <3>1, <3>2, WorldAssumption
  <2> QED BY <1>4, <1>5, <2>1, <2>2, WithinMatchesCgroup DEF InChain
<1>7. MatchesHost(a, pkt, table.elems)
  BY <1>3 DEF MatchesHost, MatchesBase
<1>8. MatchesL4(a, pkt)
  BY <1>1, <1>3 DEF MatchesL4, Concerns
<1>9. e \in Hits(table, pkt, inode)
  BY <1>5, <1>6, <1>7, <1>8 DEF Hits
<1> QED BY <1>3, <1>5, <1>9

\* Listed destinations match a base.
LEMMA ListedMatches ==
  ASSUME NEW i \in DOMAIN Rules, NEW ip, Listed(i, ip)
  PROVE  \E b \in Bases(Rules[i]) : MatchesBase(i, b, ip)
<1>1. CASE AnyHost(Rules[i])
  <2>1. AnyBase.kind = "any"
    BY DEF AnyBase
  <2>2. AnyBase \in Bases(Rules[i])
    BY <1>1 DEF Bases
  <2> WITNESS AnyBase \in Bases(Rules[i])
  <2> QED BY <2>1 DEF MatchesBase
<1>2. CASE ~ AnyHost(Rules[i])
  <2>1. PICK p \in Rules[i].prefixes : PrefixContains(p, ip)
    BY <1>2 DEF Listed
  <2> DEFINE b == [kind |-> "prefix", fam |-> p.fam, bits |-> p.bits]
  <2>2. b \in Bases(Rules[i]) /\ b.kind = "prefix"
    BY <1>2, <2>1 DEF Bases
  <2>3. PrefixContains(b, ip)
    BY <2>1 DEF PrefixContains
  <2> QED BY <2>2, <2>3 DEF MatchesBase
<1> QED BY <1>1, <1>2

\* So does the address of a name that was just answered.
LEMMA AnsweredMatches ==
  ASSUME IInv, Refresh, table.present, NEW n \in Names, NEW i \in DomainRules(Rules, n),
         NEW ip \in KAddrs, JustAnswered(n, ip)
  PROVE  /\ i \in DOMAIN Rules
         /\ \E b \in Bases(Rules[i]) : MatchesBase(i, b, ip)
<1>1. i \in DOMAIN Rules /\ HasDomains(Rules[i]) /\ SetFor(i, ip) \in Sets
  BY CoveredHasSets
<1>2. recent[<<n, ip>>] \in Nat /\ recent[<<n, ip>>] > 0
  BY Bounds DEF IInv, TypeOK, JustAnswered
<1>3. table.elems[SetFor(i, ip)][ip] >= recent[<<n, ip>>]
  BY DEF IInv, NamesAreHeld
<1>4. table.elems[SetFor(i, ip)][ip] \in Nat
  BY <1>1, ElementNat DEF IInv
<1>5. table.elems[SetFor(i, ip)][ip] > 0
  BY <1>2, <1>3, <1>4
<1>6. Unmap(ip) = ip /\ ip.fam \in Families
  <2>1. PICK a \in Addrs : ip = Unmap(a)
    BY DEF KAddrs
  <2> QED BY <2>1, UnmapTwice, WorldAssumption
<1>7. SetFor(i, ip) = <<i, ip.fam>>
  BY <1>6 DEF SetFor, Families
<1> DEFINE b == [kind |-> "set", fam |-> ip.fam, bits |-> <<>>]
<1>8. b \in Bases(Rules[i])
  BY <1>1, <1>6 DEF Bases, AnyHost, HasDomains
<1>9. b.kind = "set" /\ b.fam = ip.fam
  OBVIOUS
<1>10. MatchesBase(i, b, ip)
  BY <1>5, <1>7, <1>9 DEF MatchesBase
<1> QED BY <1>1, <1>8, <1>10

\* A matching atom of a deny rule decides: no allow rule comes before it.
LEMMA DenyHitDenies ==
  ASSUME IInv, table.present, NEW pkt \in Packet, NEW i \in DOMAIN Rules,
         Asked(pkt), Rules[i].verdict = "deny",
         \E e \in Hits(table, pkt, inode) : e.atom.rule = i
  PROVE  KernelVerdict(pkt) = "deny"
<1> DEFINE hits == Hits(table, pkt, inode)
<1>1. TypeOK
  BY DEF IInv
<1>2. ~ PreAccepted(pkt) /\ ~ (pkt.hook = "forward" /\ ~ table.forward)
  BY DEF Asked, IInv, TablesAreWhole
<1>3. PICK e \in hits : e.atom.rule = i
  OBVIOUS
<1>4. KernelVerdict(pkt) = FirstHit(hits).atom.verdict
  BY <1>2, <1>3 DEF KernelVerdict, Filter
<1>5. FirstHit(hits) \in hits /\ FirstHit(hits).atom.rule <= i
  BY <1>1, <1>3, HitsAreAtoms, FirstHitIsFirst
<1> HIDE DEF hits
<1> DEFINE first == FirstHit(hits).atom.rule
<1>6. first \in DOMAIN Rules /\ FirstHit(hits).atom.verdict = Rules[first].verdict
  BY <1>1, <1>5, HitsAreAtoms, AtomOfRule DEF hits
<1>7. Rules[first].verdict = "deny"
  BY <1>5, <1>6, PolicyAssumption
<1> QED BY <1>4, <1>6, <1>7

\* The invariant gives StaticDenyHolds.
LEMMA IInvDenies == IInv => StaticDenyHolds
<1> SUFFICES ASSUME IInv, table.present, NEW pkt \in Packets, NEW i \in DOMAIN Rules,
                    Asked(pkt), Rules[i].verdict = "deny", InForce(i),
                    Concerns(i, pkt), Listed(i, pkt.ip)
             PROVE  KernelVerdict(pkt) = "deny"
  BY DEF StaticDenyHolds
<1>1. pkt \in Packet
  BY WorldAssumption
<1>2. \E e \in Hits(table, pkt, inode) : e.atom.rule = i
  BY <1>1, ListedMatches, BaseIsHit
<1> QED BY <1>1, <1>2, DenyHitDenies

\* The invariant gives DeniedNamesStayDenied.
LEMMA IInvDeniesNames == IInv => DeniedNamesStayDenied
<1> SUFFICES ASSUME IInv, Refresh, table.present, NEW pkt \in Packets, NEW i \in DOMAIN Rules,
                    Asked(pkt), Rules[i].verdict = "deny", InForce(i),
                    Concerns(i, pkt), NEW n \in Names, i \in DomainRules(Rules, n),
                    JustAnswered(n, pkt.ip)
             PROVE  KernelVerdict(pkt) = "deny"
  BY DEF DeniedNamesStayDenied
<1>1. pkt \in Packet /\ pkt.ip \in KAddrs
  BY WorldAssumption DEF Packet
<1>2. \E b \in Bases(Rules[i]) : MatchesBase(i, b, pkt.ip)
  BY <1>1, AnsweredMatches
<1>3. \E e \in Hits(table, pkt, inode) : e.atom.rule = i
  BY <1>1, <1>2, BaseIsHit
<1> QED BY <1>1, <1>3, DenyHitDenies

\* The invariant gives RefusedOnlyIfDenied.
LEMMA IInvRefuses == IInv => RefusedOnlyIfDenied
<1> SUFFICES ASSUME IInv, table.present, NEW pkt \in Packets, NEW i \in DOMAIN Rules,
                    Asked(pkt), InForce(i), Concerns(i, pkt),
                    \/ Listed(i, pkt.ip)
                    \/ Refresh /\ \E n \in Names : /\ i \in DomainRules(Rules, n)
                                                   /\ JustAnswered(n, pkt.ip),
                    KernelVerdict(pkt) = "deny"
             PROVE  \E j \in DOMAIN Rules : /\ Rules[j].verdict = "deny"
                                            /\ Concerns(j, pkt)
                                            /\ Listed(j, pkt.ip) \/ Resolved(j, pkt.ip)
  BY DEF RefusedOnlyIfDenied
<1> DEFINE hits == Hits(table, pkt, inode)
<1>1. pkt \in Packet /\ pkt.ip \in KAddrs /\ TypeOK
  BY WorldAssumption DEF Packet, IInv
<1>2. \E b \in Bases(Rules[i]) : MatchesBase(i, b, pkt.ip)
  BY <1>1, ListedMatches, AnsweredMatches
<1>3. hits # {}
  BY <1>1, <1>2, BaseIsHit
<1>4. ~ PreAccepted(pkt) /\ ~ (pkt.hook = "forward" /\ ~ table.forward)
  BY DEF Asked, IInv, TablesAreWhole
<1>5. FirstHit(hits) \in hits
  BY <1>1, <1>3, HitsAreAtoms, FirstHitIsFirst
<1>6. FirstHit(hits).atom.verdict = "deny"
  BY <1>3, <1>4 DEF KernelVerdict, Filter
<1> HIDE DEF hits
<1> DEFINE j == FirstHit(hits).atom.rule
<1>7. j \in DOMAIN Rules /\ Rules[j].verdict = "deny"
  BY <1>1, <1>5, <1>6, HitsAreAtoms, AtomOfRule DEF hits
<1>8. Concerns(j, pkt) /\ (Listed(j, pkt.ip) \/ Resolved(j, pkt.ip))
  BY <1>1, <1>5, HitConcerns, HitReaches DEF hits
<1> QED BY <1>7, <1>8

\* Nothing else is lost: for every policy, what an allow rule in force lists, or a
\* name it covers was just answered with, is refused only by a deny rule that has a
\* reason of its own.
THEOREM OnlyTheDeniedAreRefused == Spec => []RefusedOnlyIfDenied
  BY InvariantHolds, IInvRefuses, PTL

\* Deny wins, for every policy: a deny rule on addresses is in force in every
\* table the daemon ever commits, whatever the sets hold and the cgroups do.
THEOREM DenyWins == Spec => []StaticDenyHolds
  BY InvariantHolds, IInvDenies, PTL

\* Deny wins for names too, where adding an element again restarts its timeout
\* (Linux 6.12): for every policy, every set of addresses names share and every order
\* of their answers, an address of an answer for a denied name that was fed to the
\* table in the kernel less than MinTTL ago, whatever its TTL, is refused.
THEOREM DeniedNamesAreRefused == Spec => []DeniedNamesStayDenied
  BY InvariantHolds, IInvDeniesNames, PTL

\* The daemon never forgets a cgroup whose rules it left out, nor watches one
\* for nothing: however lookups and the tree interleave, whatever reloads fail.
THEOREM NothingLeftOutIsForgotten == Spec => []LeftOutAtomsAreWatched
<1>1. IInv => LeftOutAtomsAreWatched
  BY DEF IInv, MissingIsCounted, LeftOut, LeftOutAtomsAreWatched
<1> QED BY <1>1, InvariantHolds, PTL

\* A reload never opens the host: the daemon takes a table away only as it
\* closes.
THEOREM NoGapInAReload == Spec => ReloadNeverUnfilters
<1> DEFINE NoGap == table.present /\ ~ table'.present /\ pc' # pc => pc = "closing"
<1>1. TypeOK /\ [Next]_vars => [NoGap]_vars
  <2> SUFFICES ASSUME TypeOK, Next, table.present, ~ table'.present, pc' # pc
               PROVE  pc = "closing"
    OBVIOUS
  <2>1. CASE Commit
    BY <2>1 DEF Commit
  <2>2. CASE FeedAdd \/ Tick
    <3>1. table'.present = table.present
      BY <2>2 DEF FeedAdd, Tick, TypeOK, Tables
    <3> QED BY <3>1
  <2> QED
    BY <2>1, <2>2
    DEF Next, Daemon, Environment, daemon, Start, ResolveAtom, ApplyFails, SeedLookup, SeedDone,
        FeedRefused, ReadJunk, ReadDns, ReadOther, LeaveLoop, Close, Signal, Crash, Off, Arrive,
        Mkdir, Rmdir
<1> QED BY <1>1, TypesHold, PTL DEF Spec, ReloadNeverUnfilters

\* No table the daemon commits, at a reload or over what a crash left, loses a cgroup
\* rule the kernel had: for every policy and every tree, the rules in force are in
\* force until their directory is gone or the table is.
THEOREM NothingInForceIsDropped == Spec => RulesStayInForce
<1> DEFINE Stay == \A c \in RuleCgroups :
                     /\ table.present /\ table'.present
                     /\ inode[c] # NoId /\ inode'[c] = inode[c]
                     /\ Active(c)
                     => Active(c)'
<1>1. IInv /\ [Next]_vars => [Stay]_vars
  <2> SUFFICES ASSUME IInv, Next, NEW c \in RuleCgroups,
                      table.present, table'.present, inode'[c] = inode[c], Active(c),
                      NEW a \in CgroupAtoms, a.cgroup = c
               PROVE  [atom |-> a, id |-> inode[c]] \in table'.loaded
    BY DEF Active
  <2> DEFINE e == [atom |-> a, id |-> inode[c]]
  <2>1. e \in table.loaded /\ e.atom = a /\ e.id = inode[a.cgroup] /\ a.cgroup # NoCgroup
    BY DEF Active, CgroupAtoms
  <2>2. CASE Commit
    <3>1. a \in build.left \/ e \in build.loaded
      BY <2>1, <2>2 DEF Commit, IInv, BatchFindsTheSame
    <3> QED BY <2>2, <3>1 DEF Commit
  <2>3. CASE table'.loaded = table.loaded
    BY <2>1, <2>3
  <2>4. CASE FeedAdd \/ Tick
    <3>1. table'.loaded = table.loaded
      BY <2>4 DEF FeedAdd, Tick, IInv, TypeOK, Tables
    <3> QED BY <2>3, <3>1
  <2>5. CASE table' \in {table, NoTable}
    BY <2>3, <2>5 DEF NoTable
  <2> QED
    BY <2>2, <2>4, <2>5
    DEF Next, Daemon, Environment, daemon, Start, ResolveAtom, ApplyFails, SeedLookup, SeedDone,
        FeedRefused, ReadJunk, ReadDns, ReadOther, LeaveLoop, Close, Signal, Crash, Off, Arrive,
        Mkdir, Rmdir
<1> QED BY <1>1, InvariantHolds, PTL DEF Spec, RulesStayInForce
=============================================================================
