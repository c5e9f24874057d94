----------------------------- MODULE CacheProofs ----------------------------
(***************************************************************************)
(* The address sets against the DNS cache, for every policy and bound.     *)
(***************************************************************************)
EXTENDS EnforceProofs

\* No address is also answered as a v4-mapped one: the cache keys the two apart,
\* the sets do not.
NoAliases == \A ip \in Addrs : Unmap(ip) = ip

\* A process that has no table yet has no name on record.
FreshStart == pc = "down" \/ (pc = "apply" /\ ~ build.reload) => cache = NoCache

\* What is being fed is what was recorded, or what is left of it.
PendingIsRecorded ==
  pc = "feed" =>
    \A ip \in pending.addrs :
      \/ cache[ip].left = 0
      \/ cache[ip].name = pending.name /\ cache[ip].left <= Stretch(pending.ttl)

Followed(ip) ==
  \A i \in DomainRules(Rules, cache[ip].name) :
    table.elems[SetFor(i, ip)][Unmap(ip)] >= cache[ip].left

\* All but the addresses about to be fed are in their sets for long enough.
AllFollowed ==
  Refresh /\ ~ lapsed /\ table.present =>
    \A ip \in Addrs : (pc = "feed" /\ ip \in pending.addrs) \/ Followed(ip)

CacheInv == IInv /\ FreshStart /\ PendingIsRecorded /\ AllFollowed

\* A process starts without names and without a table.
LEMMA InitCacheInv == Init => CacheInv
  BY InitIInv DEF Init, CacheInv, FreshStart, PendingIsRecorded, AllFollowed, NoTable

\* Names are recorded after the first table is there, and go with the process.
LEMMA FreshStep ==
  ASSUME TypeOK, FreshStart, [Next]_vars
  PROVE  FreshStart'
<1>1. CASE Start
  BY <1>1 DEF Start, FreshStart
<1>2. CASE ResolveAtom
  <2>1. build'.reload = build.reload
    BY <1>2 DEF ResolveAtom, LookedUp, TypeOK, Builds
  <2> QED BY <1>2, <2>1 DEF ResolveAtom, FreshStart
<1>3. CASE ReadOther
  BY <1>3 DEF ReadOther, Reading, FreshStart, NewBuild
<1>4. CASE Tick
  <2>1. cache = NoCache => cache' = NoCache
    BY <1>4 DEF Tick, NoCache, NoEntry
  <2> QED BY <1>4, <2>1 DEF Tick, FreshStart
<1>5. CASE Exit
  BY <1>5 DEF Exit, FreshStart
<1>6. CASE UNCHANGED <<pc, build, cache>>
  BY <1>6 DEF FreshStart
<1>7. CASE pc' \in {"seed", "feed", "loop", "closing"}
  BY <1>7 DEF FreshStart
<1>8. ASSUME FeedAdd \/ FeedRefused PROVE pc' \in {"seed", "loop"}
  BY <1>8 DEF FeedAdd, FeedRefused, TypeOK, Answers
<1> QED
  BY <1>1, <1>2, <1>3, <1>4, <1>5, <1>6, <1>7, <1>8
  DEF Next, Daemon, Environment, vars, daemon, Commit, ApplyFails, SeedLookup, SeedDone,
      ReadJunk, ReadDns, Reading, LeaveLoop, Close, Signal, Crash, Off, Arrive, Mkdir, Rmdir

\* Record puts the answer about to be fed on record, and ageing takes from it.
LEMMA RecordedStep ==
  ASSUME TypeOK, PendingIsRecorded, [Next]_vars
  PROVE  PendingIsRecorded'
<1>1. ASSUME SeedLookup \/ ReadDns, pc' = "feed" PROVE PendingIsRecorded'
  <2>1. Record(pending') /\ pending'.addrs \subseteq Addrs
    <3>1. CASE SeedLookup
      BY <1>1, <3>1, WorldAssumption DEF SeedLookup
    <3>2. CASE ReadDns
      BY <3>2, ReadingTypes, AnswerTypes DEF ReadDns, Answers
    <3> QED BY <1>1, <3>1, <3>2
  <2>2. \A ip \in pending'.addrs :
          cache'[ip] = [name |-> pending'.name, left |-> Stretch(pending'.ttl)]
    BY <2>1 DEF Record
  <2>3. pending' \in Answers
    BY <1>1, NextTypeOK DEF TypeOK
  <2>4. Stretch(pending'.ttl) \in Nat
    BY <2>3, LifetimeNat DEF Answers
  <2> QED BY <2>2, <2>4 DEF PendingIsRecorded
<1>2. CASE Tick
  <2> SUFFICES ASSUME pc = "feed", NEW ip \in pending.addrs
               PROVE  \/ cache'[ip].left = 0
                      \/ cache'[ip].name = pending.name /\ cache'[ip].left <= Stretch(pending.ttl)
    BY <1>2 DEF Tick, PendingIsRecorded
  <2>1. ip \in Addrs /\ cache[ip] \in Entries /\ cache[ip].left \in Nat
    BY LeftNat DEF TypeOK, Answers, Entries
  <2>2. cache'[ip] = IF cache[ip].left <= 1 THEN NoEntry
                     ELSE [cache[ip] EXCEPT !.left = Less(@)]
    BY <1>2, <2>1 DEF Tick
  <2>3. Stretch(pending.ttl) \in Nat
    BY LifetimeNat DEF TypeOK, Answers
  <2> QED BY <2>1, <2>2, <2>3 DEF NoEntry, Less, Entries, PendingIsRecorded
<1>3. CASE UNCHANGED <<pc, pending, cache>>
  BY <1>3 DEF PendingIsRecorded
<1>4. CASE pc' # "feed"
  BY <1>4 DEF PendingIsRecorded
<1>5. ASSUME FeedAdd \/ FeedRefused PROVE pc' # "feed"
  BY <1>5 DEF FeedAdd, FeedRefused, TypeOK, Answers
<1> QED
  BY <1>1, <1>2, <1>3, <1>4, <1>5
  DEF Next, Daemon, Environment, vars, daemon, Start, ResolveAtom, Commit, ApplyFails, Exit,
      SeedDone, ReadJunk, ReadOther, LeaveLoop, Close, Signal, Crash, Off, Arrive, Mkdir, Rmdir

\* A name that is gone asks nothing of the sets.
LEMMA NothingLeftIsFollowed ==
  ASSUME TypeOK, NEW ip \in Addrs, cache[ip].left = 0
  PROVE  Followed(ip)
<1> SUFFICES ASSUME NEW i \in DomainRules(Rules, cache[ip].name)
             PROVE  table.elems[SetFor(i, ip)][Unmap(ip)] >= 0
  BY DEF Followed
<1>1. SetFor(i, ip) \in Sets /\ Unmap(ip) \in KAddrs
  BY CoveredHasSets DEF KAddrs
<1> QED BY <1>1, ElementNat

\* Followed says what it says of the next state.
LEMMA NothingLeftIsFollowedThen ==
  ASSUME TypeOK', NEW ip \in Addrs, (cache[ip].left = 0)'
  PROVE  Followed(ip)'
  BY NothingLeftIsFollowed, PTL

\* feed gives the addresses at least what Record gave them, and takes nothing from
\* the others; a table that starts empty finds no name on record, or is a reload's.
LEMMA FollowedStep ==
  ASSUME NoAliases, TypeOK, FreshStart, PendingIsRecorded, AllFollowed, [Next]_vars
  PROVE  AllFollowed'
<1>0. TypeOK'
  BY NextTypeOK
<1>1. CASE FeedAdd
  <2> SUFFICES ASSUME Refresh, ~ lapsed, table.present, NEW ip \in Addrs,
                      NEW i \in DomainRules(Rules, cache[ip].name)
               PROVE  table'.elems[SetFor(i, ip)][Unmap(ip)] >= cache[ip].left
    <3>1. UNCHANGED <<cache, lapsed>> /\ table'.present = table.present
      BY <1>1 DEF FeedAdd, TypeOK, Tables
    <3> QED BY <3>1 DEF AllFollowed, Followed
  <2> DEFINE fresh == Stretch(pending.ttl)
             set == SetFor(i, ip)
  <2>1. Unmap(ip) = ip /\ ip \in KAddrs /\ set \in Sets
    BY CoveredHasSets DEF NoAliases, KAddrs
  <2>2. table.elems[set][ip] \in Nat /\ fresh \in Nat /\ cache[ip].left \in Nat
    BY <2>1, ElementNat, LifetimeNat, LeftNat DEF TypeOK, Answers, Entries
  <2>3. table' = [table EXCEPT !.elems =
                    [t \in Sets |-> [a \in KAddrs |->
                       IF <<t, a>> \in Adds(pending) /\ (Refresh \/ @[t][a] = 0)
                       THEN fresh ELSE @[t][a]]]]
    BY <1>1 DEF FeedAdd
  <2>4. table'.elems[set][ip] = IF <<set, ip>> \in Adds(pending)
                                THEN fresh ELSE table.elems[set][ip]
    BY <2>1, <2>3 DEF TypeOK, Tables
  <2>5. CASE ip \in pending.addrs
    <3>1. cache[ip].left = 0 \/ (cache[ip].name = pending.name /\ cache[ip].left <= fresh)
      BY <1>1, <2>5 DEF FeedAdd, PendingIsRecorded
    <3>2. cache[ip].name = pending.name => <<set, ip>> \in Adds(pending)
      BY <2>1, <2>5 DEF Adds
    <3> QED BY <2>1, <2>2, <2>4, <3>1, <3>2
  <2>6. CASE ip \notin pending.addrs
    <3>1. <<set, ip>> \notin Adds(pending)
      BY <2>1, <2>6 DEF Adds, NoAliases, TypeOK, Answers
    <3>2. table.elems[set][ip] >= cache[ip].left
      BY <2>1, <2>6 DEF AllFollowed, Followed
    <3> QED BY <2>1, <2>4, <3>1, <3>2
  <2> QED BY <2>5, <2>6
<1>2. CASE Tick
  <2> SUFFICES ASSUME Refresh, ~ lapsed, table.present, NEW ip \in Addrs,
                      ~ (pc = "feed" /\ ip \in pending.addrs),
                      NEW i \in DomainRules(Rules, cache'[ip].name), cache'[ip].left # 0
               PROVE  table'.elems[SetFor(i, ip)][Unmap(ip)] >= cache'[ip].left
    <3>1. UNCHANGED <<pc, pending, lapsed>> /\ table'.present = table.present
      BY <1>2 DEF Tick, TypeOK, Tables
    <3>2. \A ip \in Addrs : cache'[ip].left = 0 => Followed(ip)'
      BY <1>0, NothingLeftIsFollowedThen
    <3> QED BY <3>1, <3>2 DEF AllFollowed, Followed
  <2> DEFINE set == SetFor(i, ip)
             a == Unmap(ip)
  <2>1. set \in Sets /\ a \in KAddrs
    BY CoveredHasSets DEF KAddrs
  <2>2. cache[ip] \in Entries /\ cache[ip].left \in Nat /\ table.elems[set][a] \in Nat
    BY <2>1, ElementNat, LeftNat DEF TypeOK, Entries
  <2>3. /\ cache'[ip] = IF cache[ip].left <= 1 THEN NoEntry ELSE [cache[ip] EXCEPT !.left = Less(@)]
        /\ table'.elems[set][a] = Less(table.elems[set][a])
    BY <1>2, <2>1 DEF Tick, TypeOK, Tables
  <2>4. cache'[ip].name = cache[ip].name /\ cache'[ip].left = Less(cache[ip].left)
    BY <2>2, <2>3 DEF NoEntry, Entries
  <2>5. table.elems[set][a] >= cache[ip].left
    BY <2>4 DEF AllFollowed, Followed
  <2>6. Less(table.elems[set][a]) >= Less(cache[ip].left)
    BY <2>2, <2>5 DEF Less
  <2> QED BY <2>3, <2>4, <2>6
<1>3. ASSUME SeedLookup \/ ReadDns, pc' = "feed" PROVE AllFollowed'
  <2>1. Record(pending') /\ UNCHANGED <<table, lapsed>> /\ pc # "feed"
    BY <1>3 DEF SeedLookup, ReadDns, Reading
  <2>2. \A ip \in Addrs : ip \notin pending'.addrs => cache'[ip] = cache[ip]
    BY <2>1 DEF Record
  <2> QED BY <1>3, <2>1, <2>2 DEF AllFollowed, Followed
<1>4. CASE cache' = NoCache
  <2>1. \A ip \in Addrs : cache'[ip].left = 0
    BY <1>4 DEF NoCache, NoEntry
  <2> QED BY <1>0, <2>1, NothingLeftIsFollowedThen DEF AllFollowed
<1>5. CASE Commit \/ Start
  <2>1. UNCHANGED cache /\ (lapsed' \/ cache = NoCache)
    BY <1>5 DEF Commit, Start, FreshStart, TypeOK, Builds
  <2>2. CASE lapsed'
    BY <2>2 DEF AllFollowed
  <2> QED BY <1>4, <2>1, <2>2
<1>6. CASE Exit
  BY <1>4, <1>6 DEF Exit
<1>7. CASE FeedRefused \/ Off
  BY <1>7 DEF FeedRefused, Off, NoTable, AllFollowed
<1>8. CASE UNCHANGED <<pc, pending, cache, table, lapsed>>
  BY <1>8 DEF AllFollowed, Followed
<1>9. ASSUME UNCHANGED <<cache, table, lapsed>>, pc # "feed", pc' # "feed" PROVE AllFollowed'
  BY <1>9 DEF AllFollowed, Followed
<1> QED
  BY <1>1, <1>2, <1>3, <1>5, <1>6, <1>7, <1>8, <1>9
  DEF Next, Daemon, Environment, vars, daemon, ResolveAtom, ApplyFails, SeedLookup, SeedDone,
      ReadJunk, ReadDns, ReadOther, Reading, LeaveLoop, Close, Signal, Crash, Arrive, Mkdir, Rmdir

\* Every step keeps the four parts together.
LEMMA NextCacheInv == NoAliases /\ CacheInv /\ [Next]_vars => CacheInv'
<1>1. IInv => TypeOK
  BY DEF IInv
<1> QED BY <1>1, NextIInv, FreshStep, RecordedStep, FollowedStep DEF CacheInv

\* The invariant gives SetsFollowTheCache: outside feed no address is excepted.
LEMMA CacheInvFollows == CacheInv => SetsFollowTheCache
  BY DEF CacheInv, AllFollowed, Followed, SetsFollowTheCache

\* What the daemon would print under a name is in the sets of every rule that
\* covers the name, for as long, for every policy and through every failure, crash
\* and interleaving that has lost nothing; stated for addresses without aliases.
THEOREM TheSetsFollow == NoAliases /\ Spec => []SetsFollowTheCache
<1> SUFFICES ASSUME NoAliases PROVE Spec => []SetsFollowTheCache
  OBVIOUS
<1>1. CacheInv /\ [Next]_vars => CacheInv'
  BY NextCacheInv
<1> QED BY <1>1, InitCacheInv, CacheInvFollows, PTL DEF Spec
=============================================================================
