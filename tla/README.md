# Verification of egresswall

TLA+ models of [egresswall](../src/README.md), an outbound firewall: a policy
file of names, networks, ports and cgroups becomes an nftables table, and a
daemon keeps the table's address sets in step with the DNS answers it captures.
The modules are checked with TLC on small instances and, where it matters
most, proved with TLAPS for all of them. File references are relative to `src/`.

## 1. The system

| Part | State it keeps | Operations | What makes it correct |
|---|---|---|---|
| **policy** `internal/policy/policy.go` | none | `Load`, `Compile`, `Evaluate`, `DomainRules`, `NormalizeDomain`, `NormalizeCgroup` | deny, then allow in file order, then default; one bad rule rejects the file |
| **nft plan** `internal/nft/plan.go` | none | `Build`, `Text`, `SetFor`, `inChain`, `LogPrefix` | the atoms decide as `Evaluate` does; the text shown is the table loaded; every set a DNS answer may go to exists |
| **nft apply** `internal/nft/apply_linux.go` | `Handle.missing`; the kernel's `inet egresswall` table | `Apply`, `AddAddrs`, `Missing`, `Close`, `Remove` | a batch commits whole; what was left out is known; ids are those of the right cgroups |
| **enforce daemon** `cmd/egresswall/enforce.go` | the handle, `lastCheck`, the cache, the capture socket, the memory of what was reported | startup, `seed`, the loop, `feed`, reload, `report`, the kernel-log goroutine, stop | nothing passes that no rule allows; nothing an allow rule lists is refused without a deny rule; a denied name stays denied; no gap in a reload, and no rule lost in one; absent cgroups become active; every refusal is accounted for; signals end it |
| **dnswatch cache** `internal/dnswatch/cache.go` | address to name, with expiry | `Parse`, `Record`, `Lookup`, `Purge` | a name is only printed for an address the sets hold |
| **alert webhook** `internal/alert/` | channel, batch, dropped counter | `Send`, the loop, `post`, `Close` | nothing is reported twice over or uncounted; `Close` flushes and returns; `Send` never blocks |
| **learn observer** `internal/learn/learn.go` | what was learnt, keyed by the text of a name or an address; what arrived and left on each UDP tuple | `Packet`, `Sweep` | a flow has one initiator; only the host's own flows are learnt |
| **policy writer, learn command** `internal/learn/write.go`, `cmd/egresswall/learn.go` | the output file | `WritePolicy`, the capture loop | what is written loads, allows what was seen and no more, up to what shares a text; the old file goes last |
| **kernel log** `internal/kmsg/` | position in the ring | `ParseLine`, `Tail` | a refusal logged under `LogPrefix` is read back under its rule; what the ring loses takes nothing else along |
| **packet parser, capture, procs** `internal/packet`, `internal/capture`, `internal/procs` | the socket | `Parse`, `Read`, `Cgroup` | I/O and header decoding |
| **command line** `cmd/egresswall/main.go` | none | `check`, `validate`, `learn`, `enforce` | `check` answers what enforcement would |

How they interact. `enforce` loads the policy once, opens the capture socket,
and calls `Apply`, which builds one netlink batch (delete the table, make it
anew with empty sets, add the chains) and looks each rule's cgroup up in the
file system as it meets it. `seed` resolves the exact names. The loop then
reads one frame at a time: a DNS answer is recorded in the cache and fed to the
sets; any other frame lets the loop look, every five seconds, for cgroups that
were missing, and reload. In a second goroutine the kernel log's refusals are
printed, with names from the same cache, and sent to the webhook, whose own
goroutine coalesces and posts them. `-off` is another process that removes the
table. The dry run has no table: the loop itself evaluates every connection and
is the webhook's only sender. `learn` has neither: its loop records the flows of
the frames it captures, and when it is told to end it opens the output, renders
a policy, parses it back and writes it. `-print` writes the plan in nft's
language; nothing reads that text but its user.

Hard to test, and why this project exists: the cgroup tree changes between two
lookups of one `Apply`, after a load, or under the same path with a new inode;
a reload or a netlink call fails half-way; a daemon is killed and leaves its
table; signals arrive during lookups; two names share an address and their
answers expire apart; senders, timer, retry and `Close` race in the webhook; the kernel's
ring overtakes its reader; a reply is to be told from a new flow at the edges of
a window that a sweep also looks at.
`PROJECT.json` lists these hazards one by one, at their lines, with the
properties that would catch them going wrong or the reason there is none yet.

## 2. The modules

| Module | Models | Checked by | Proved in |
|---|---|---|---|
| `Policy` | policy.go as operators | all that follow | lemmas in `PolicyProofs` |
| `Plan` | plan.go, and what the kernel does with the expressions of apply_linux.go | `PolicyCheck`, `Enforce` | lemmas in `EnforceProofs`, `PolicyProofs` |
| `Ruleset` | `-print`: plan.go's `Text`, and what nft makes of it | `PolicyCheck` | lemmas in `PolicyProofs` |
| `PolicyCheck`, `MCPolicyCheck` | one file, loaded, asked about one connection by `Evaluate`, by the kernel and by the printed text | run `policy` | `PolicyProofs` |
| `Enforce` | the enforcing daemon, the kernel's table, the cgroup tree, traffic, time | runs `enforce*` | `EnforceProofs`, `CacheProofs` |
| `MCEnforce`, `MCEnforceFeed` | two policies for TLC | | |
| `DnsCache` | cache.go as operators on a cache | `Learn`, `Refusals` | lemmas in `LearntProofs`, `RefusalsProofs` |
| `Writer` | write.go: the policy for a set of entries | `Learn` | lemmas in `LearntProofs` |
| `FlowOwner` | what the observer promises of UDP tuples | | |
| `Learn`, `MCLearn` | `learn`: the observer, the loop, the output file | run `learn`, as a refinement of `FlowOwner` | `LearnProofs` (the observer, the file), `LearntProofs` (what the policy allows) |
| `Refusals`, `MCRefusals` | refusals and alerts: the kernel log, its reader, the dry run's reports | run `refusals` | `RefusalsProofs` |
| `AlertSink` | what an alert sink promises | | |
| `Webhook` | webhook.go | runs `webhook*`, as a refinement of `AlertSink` | `WebhookProofs` |
| `MinProofs` | the least and the greatest of a set of naturals; prefixes, suffixes and reversed sequences, element by element | | itself |

### Policy, Plan and Ruleset

Names, patterns and cgroup paths are sequences of labels, so that a wildcard is
a strict suffix and a trailing dot a trailing `""`; comparison ignores case in
the code, so a label stands for all its spellings. An address is a family (v4,
v6, or v4-mapped v6) and leading bits; a prefix is the same thing shorter. The
policy rule, compiled, keeps the code's fields. `Atoms` is `Build`: one atom per
host base and port range. All atoms of a rule share its verdict and log prefix,
so a set of atoms that carry their rule's index is as good as the list, and
"first match" is the least matching rule. Two operators stand for Linux: `Filter` (a chain walked to
the first match, with the rules before the policy in `PreAccepted`) and
`MatchesCgroup` (`socket cgroupv2 level N`: the id of the socket's ancestor at
that depth).

The text is written by other code than the messages, from the same plan. A line
of it is three phrases (socket, address, transport), each kept as the words that
decide, and `LineMatches` is nft's reading of them: `ip daddr` implies a family,
`tcp dport` a protocol. The order of the lines is that of their rules.

### Enforce

| Variable | Code |
|---|---|
| `pc` | where the main goroutine of `runEnforce` is: in `apply`, `seed`, `feed`, at the top of the `loop`, `closing` in the deferred `Close`, or `down` |
| `stop` | `ctx` is done |
| `build` | the batch `Apply` is building: atoms still to look up, atoms loaded with the id read, cgroups missing |
| `handle` | `Handle.missing` |
| `seeding`, `pending` | the rest of `seed`'s loops; the answer `feed` is working on |
| `cache`, `since` | `dnswatch.Cache`; time since `lastCheck` |
| `frames` | the socket's buffer |
| `table` | the kernel's table: whether it is there, its atoms with their ids, remaining lifetimes of set elements |
| `inode`, `lastInode` | the cgroup tree |
| `promise`, `recent`, `lapsed` | history, read by no action's guard: for how long, by name and address, an answer that was fed to the table loaded still counts, and for how long it is younger than `MinTTL`; whether addresses were lost since startup |

Actions are the program's steps between two points at which another party can
act: each cgroup lookup, the commit, each name lookup, each `AddAddrs`, each
frame. `ReadOther` contains the cgroup check because the code makes it at the
end of the same iteration; `ReadDns`, `ReadJunk` and a timeout `continue` before
it. The environment may send a signal, kill the process, run `-off`, make and
remove cgroup directories (in the order a tree allows; an inode is never
reused), deliver frames, and let time pass; netlink calls and reads may fail
when `KernelMayRefuse`. Time is the remaining lifetime of whatever expires:
`Tick` is the only clock. Frames are classes: a DNS answer, a frame whose
handling ends at a `continue`, any other. The cache is part of `Enforce` as
`Record` and expiry use it; an entry that has expired is gone at once, which is
what `Lookup` shows of it (`DnsCache` has the interval between the two).

### DnsCache, Writer and Learn

`DnsCache` keeps entries under the addresses as answers carry them, v4-mapped
ones included, and looks them up unmapped, as the code does: an entry recorded
under a mapped address is never found again. Expired and purged are two states.

| Variable of `Learn` | Code |
|---|---|
| `pc`, `stop` | where `runLearn` is; its context is done |
| `udpIn`, `udpOut` | the observer's two maps of tuples to times, as ages: exact up to the window, one more for anything later, -1 for none |
| `cache`, `entries`, `since` | the cache, `Observer.entries`, time since the last sweep |
| `flows` | history: what was recorded, each with its address and the name it was taken for |
| `file` | the output: the old policy, empty, cut off, or a policy |

An action is an iteration of the loop, from the frame to the sweep at its end,
since nothing else looks at its state. What follows the loop is one action per
step that can fail or be interrupted: `OpenFile` truncates, `WritePolicy` renders,
compiles and writes. Counts, times and origins end in comments of the file and
are left out.

The observer keys its entries by a string, a port and a protocol (learn.go:136), and
the writer merges them by that string alone (write.go:41-46). `AddrText` gives
addresses their texts, as the labels a name of that text has, so that a question's
name may read as an address. `Recorded` makes an entry for the first flow of a key,
which settles whether the text is a name; `Rendered` gives one rule per text, for a
name when any of its entries is one (the entries come sorted, names first), with the
product of their ports and protocols.

### Refusals

| Variable | Code |
|---|---|
| `dryRun`, `stop` | the flag; the context is done |
| `cache` | `dnswatch.Cache`, written by the loop and read by the goroutine |
| `seen` | the memory of `report`: time left per destination, and, as history, of which service, name and verdict the flow was that took the slot |
| `ring`, `behind` | `/dev/kmsg` as one reader sees it: the records not read yet, and whether it lost some |
| `tail`, `event` | where the kernel-log goroutine is, and the refusal it has in hand |
| `sent` | the last event given to the sink (`Webhook` takes it from there) |
| `refused`, `alerted`, `overwritten` | history: what the kernel refused, what was alerted, what the ring dropped |

Text is a sequence of words, and `"]"`, which stands for `]: `, is one of them, so
that a name may hold what the reader looks for; `MaxPrefix` counts words. A rule
without a name in the file is named by its place in it (policy.go:150-153,
`RuleName`); only the default has none, and logs as `default-deny`. `/dev/kmsg`
writes backslashes, control and non-ASCII bytes as `\xNN`, and `ParseLine` takes what
it is given: `Kmsg` replaces the words that have such bytes. Which packet the kernel
refuses is `Enforce`'s business: here any deny rule, or the default, may log at
any time. The lookup of the name and the send are steps of their own, so that
the loop may record or purge in between. Expired names and spent memories are
dropped by `Tick`, which no operation can tell from dropping them later.

### Webhook

A variable per field and per place in the code where an event can be: the
channel, the batch, a `Send` that found the queue full and has not yet locked
the counter (`holding`), the payload of the post under way. Counts are sets of
the events they count, so that "counted twice" can be said. A failed request may
or may not have reached the endpoint. `SendersQuiesce` tells the dry run (the
sender is the goroutine that closes) from enforcement (the kernel-log goroutine
is not waited for).

## 3. The runs

| Run | Asks | Result |
|---|---|---|
| `policy` | for every small file and connection: is `Evaluate` the README's "deny wins, then allow in file order, then default"; do the chains decide and log the same; does the printed text; does every answer find its sets | holds |
| `enforce` | startups, reloads and their failures, signals, kills, `-off`, cgroups that come, go and come back: does anything pass that no rule allows, does a static deny ever lapse, is anything allowed refused without a deny rule's reason, is every left-out cgroup watched, does a reload ever unfilter or take a rule out of force; is the invariant of the proofs one | holds |
| `enforce_feed` | names that share an address, two TTLs, a denied name below an allowed suffix: does the address of a denied name stay refused and that of an allowed one pass, do the sets hold what the cache still has, does nothing pass that no rule allows | holds |
| `enforce_live` | on a busy host, does a cgroup that appears become active; does a signal end the daemon | holds |
| `enforce_recreated` | the same, with a cgroup directory made a second time | **violated** |
| `enforce_quiet` | the same, without traffic that reaches the check | **violated** |
| `enforce_reload` | does an answer stay in the sets for its TTL across a reload | **violated** |
| `webhook` | is the webhook an alert sink; does `Close` flush and return; is what was queued posted | holds |
| `learn` | replies and flows at the edges of the window, sweeps, names that change, ports and names no policy may have, failed writes and kills: does the observer implement `FlowOwner`; does the policy load and allow what was seen, and no more, with a name that reads as an address among what was seen; when is the old file gone | holds |
| `refusals` | a ring that overtakes its reader, other records in it, prefixes that are cut, names with `]: `, names the log escapes: is every refusal accounted for, under its rule, and alerted in the end; what does the dry run's memory hide | holds |
| `webhook_drop` | is a counted drop ever lost with a faultless endpoint | **violated** |
| `webhook_panic` | does `Close` flush while another goroutine sends | **violated** |

The violated runs state sentences of the repository's README and comments, and
`PROJECT.json` "findings" quotes them:

1. Only cgroups missing at the last load are watched. A service whose cgroup
   directory is removed and made again gets a new inode; its loaded rules match
   nothing any more and no reload ever happens (enforce.go:199).
2. The check for cgroups that appeared is skipped by timeouts, unparsable frames
   and DNS answers: on a quiet host it is never made (enforce.go:186).
3. A reload starts with empty sets and seeds exact names only: answers that were
   to last five minutes at least are gone, in deny sets too (enforce.go:200).
4. A drop counted after the last payload was taken is lost at `Close`
   (webhook.go:146).
5. In enforcement `Close` closes a channel on which another goroutine may still
   send: the process panics before the flush (webhook.go:111).

Some sentences of the documentation need a qualification that the models made
plain. They are stated as properties in their exact form, which hold:

* "what lands on disk always loads" (write.go:19-21): the file is truncated
  before the policy is parsed back, so a policy that does not load, for a flow to
  port 0 or a question with a `*` that is no pattern, leaves an empty file
  (`RejectedOnlyForPortOrName`, `FileIsReplacedAfterTheLoop`).
* "whoever sent the first packet of a tuple is the initiator" (README.md:84-86):
  only the initiator's own packets keep the tuple its own. After a minute of its
  silence the other side's next packet is a flow of its own, however busy the
  tuple was (`FlowOwner`).
* "prints what the policy would have refused" (README.md:158): the ten-second
  memory is keyed by destination and taken before the verdict is known, so an
  allowed service's connection hides another's refusal (`HiddenOnlyByAnother`).
* "logged by the kernel with the rule that caused it, and the daemon reads those
  back" (README.md:131-132): a name that cuts the prefix is not read back at all, one
  with `]: ` in it up to that point only, and one with a backslash, a control or a
  non-ASCII byte as `/dev/kmsg` escapes it (`AlertNamesItsRule`, `Unreadable`).
* "every rule below is something this host actually did" (write.go:64): a name in a
  question may read as an address. It and that address, reached bare, then share one
  rule, for the name, with the ports of both: the bare flows are refused, and the
  name is allowed the address's ports (`Ambiguous` in `LearntPolicyAllowsWhatItSaw`,
  the texts in `LearntPolicyAllowsNoMore`).
* "a kernel of 5.13 or later" (README.md:166-167): that the sets keep up with the
  answers depends on an element's timeout being restarted when it is added again,
  which Linux does since 6.12 (`Refresh`); what needs it says so.

### Bounds

*policy*: at most one deny and two allow rules out of seven that differ in
patterns, families (v4-mapped included), ports, protocol and cgroup spelling,
plus eight malformed rules in either list. Three rules are enough for the
orders that matter (deny against allow, allow against allow), and no rule's
match depends on another rule. Each connection is asked about under the one name
its address was answered for: with two names, the cache has the last and the sets
have both, which is `enforce_feed`'s subject.

*enforce*: two names with one address, a static deny, an exact rule, a
wildcard rule behind a cgroup, with two atoms (one per family), and a deny rule
behind that cgroup's child; `MaxInode = 2` lets a directory be made twice or
the parent and the child once each, so that an `Apply` can meet a cgroup present for
one atom and absent for the next, and a reload for one cgroup can meet the other in
force. The socket holds one frame (`FrameCap = 1`):
the loop handles a frame to its end before it reads the next, and a frame may
arrive at any time in between, so a longer queue adds delay alone. `CheckEvery
= 0` and lifetimes of one tick make "elapsed" and "not yet" one step apart.
With them `Refresh` makes no difference (an element that is there already has the one
tick it would get); the theorems below are for both its values, what depends on it
apart. `enforce_feed` has `Refresh = TRUE`, which what the sets owe a name depends on;
it drops the cgroups and takes two lifetimes, 2 (`MinTTL`) and 3, and a third name that
no rule covers. What was answered less than `MinTTL` ago, with either lifetime, must be
in its sets. One address is enough for names to compete for it;
v4-mapped aliases are met in `policy` and `learn`. In `enforce_live` a directory may
be made once (`MaxInode = 1`): made twice is finding 1; it and the violated runs have
the outer cgroup's rule only.

*learn*: one tuple, on port 53 so that what arrives on it may be an answer and the
host may answer back; `Window = 2` has an age within, at the edge and beyond,
`SweepEvery = 1` lets a sweep come in each; tuples do not interact. Three flows
are enough for two ports and two protocols of one host beside another host. The
answers change an address's name between flows, and have a name that reads as
a pattern, one that reads as none, one that reads as an address the host also
reaches bare, the metadata address under a name, and a mapped address.

*refusals*: `RingCap = 2` and three refusals overtake a reader that has read
nothing; another firewall's record may be among them. Prefixes are cut at five
words, which the name of one of the four deny rules exceeds; of the others one is
escaped by `/dev/kmsg`, one is a position, for want of a name, and one has a `]: ` in it. Two services, two ports and one address with two names make every
pair of flows that share a slot.

*webhook*: a queue of one, four events, one sender: enough for a full queue, a
drop before and after a payload is taken, a retry and an empty batch at the end.

### Fairness

The daemon's steps are weakly fair: a goroutine is scheduled, the calls of
`Apply` and `seed` return (lookups have a five-second limit), time passes.
Frames are read as long as they come. `Apply` may fail any finite number of
times, not for ever (`<>[][~ApplyFails]`); nothing is assumed of `Start`,
signals, kills or cgroups. `CgroupBecomesActive` also needs `BusyHost`, frames
that reach the check arriving again and again (strong fairness, since the socket
may be full whenever one would come); `enforce_quiet` shows that it does. Leaving
the loop is only fair after a signal. In the webhook the loop's receive, timer,
request and sleep are weakly fair each, and requests end (15 s at most); `Send`
and `Close` are not obliged to be called. In `refusals` the goroutine's read of a
log that has records, its lookup and its send are fair together; that the read
fails or the daemon stops instead is an outcome the property allows.

## 4. The proofs

`EnforceProofs` proves, from the named assumptions of `Enforce` only, for every
policy, address set, cgroup tree, set of TTLs and bound:

| Theorem | States |
|---|---|
| `TypesHold` | `Spec => []TypeOK` |
| `InvariantHolds` | `Spec => []IInv` |
| `OnlyTheAllowedPass` | `Spec => []AcceptedOnlyIfAllowed` |
| `DenyWins` | `Spec => []StaticDenyHolds` |
| `DeniedNamesAreRefused` | `Spec => []DeniedNamesStayDenied` |
| `OnlyTheDeniedAreRefused` | `Spec => []RefusedOnlyIfDenied` |
| `NothingInForceIsDropped` | `Spec => RulesStayInForce` |
| `NothingLeftOutIsForgotten` | `Spec => []LeftOutAtomsAreWatched` |
| `NoGapInAReload` | `Spec => ReloadNeverUnfilters` |
| `TheSetsFollow` (`CacheProofs`) | `NoAliases /\ Spec => []SetsFollowTheCache` |

*Assumptions.* `PolicyAssumption`: the rules are well-formed, with deny rules
first (what `Compile` produces, see `PolicyProofs`), and the names of exact rules are among the names considered.
`WorldAssumption`: the cgroup paths are closed under parents; packets carry
unmapped addresses and cgroups of the tree. `BoundsAssumption`: types of the
numbers; the shortest lifetime is not zero.

*The argument.* The kernel's verdict is a function of the table, the tree and
the packet, and none of the safety properties is inductive, since each
says nothing of what `Apply` has read but not yet committed, or of promises
behind the elements. `IInv` adds: an element of a set is there for a covered name and no
longer than the name answers (`ElementsArePromised`; feed adds and promises
together, a commit empties, time wears both); inodes of present directories are
distinct and were all given out (`TreeIsSound`), so an id read at any time,
in a batch or a table, can only be that of its own path (`IdsAreRight`), even
after the directory is gone; every batch starts with the atoms that need no lookup
and loses none (`TablesAreWhole`); a lookup either loads its atom or notes its
cgroup (`MissingIsCounted`); and what a batch has looked up it found as the table in the
kernel has it, unless the directory is gone or another (`BatchFindsTheSame`: an id is
never given twice, so the id the table knows, found in the tree, was there at every
lookup). Each part has its own step lemma, by cases on the
actions that touch what it mentions. `NamesAreHeld` is the one that is about lower
bounds: `AddAddrs` restarts an element's timeout at the new answer's lifetime
(Linux 6.12), though a longer answer put it there; so a set may run out before an
answer does, but never less than `MinTTL` after the last one, since no answer's
lifetime is shorter. An element lasts at least `recent`, whatever the TTLs, and what was
answered less than `MinTTL` ago is still in its sets. Then: an accepted packet has a first hit
(`FirstHitIsFirst`, from the least element of a set of naturals), which is an
atom of an allow rule that concerns the packet (`HitConcerns`) and reaches its
destination (`HitReaches`); and a destination that a deny rule lists, or that is
in its set, has a hit of that rule (`BaseIsHit`, `ListedMatches`), so that the first
hit is of a rule no later than it, which denies too (`DenyHitDenies`). A rule
behind a cgroup is in these arguments as one without, as long as it is in force
(`InForce`: the directory is there and all the rule's atoms are in the table under its
id; `InForceIsLoaded`, `WithinMatchesCgroup`). The same two halves give the converse: a
destination that an allow rule in force lists or was just fed has a hit, so a refusal
is not the default's but a deny atom's, and that atom has its reason. That no commit
takes a cgroup out of force is `BatchFindsTheSame` at the commit, where nothing is left
to look up.

`CacheProofs` adds to `IInv` that what is being fed is what was recorded
(`PendingIsRecorded`), that a process without a table has no names (`FreshStart`),
and that every address but those about to be fed is in its sets for long enough
(`AllFollowed`). With v4-mapped aliases of one address in different answers this
is false: the cache keys them apart, the sets do not; hence `NoAliases`.

The theorems hold for both values of `Refresh` (whether re-adding an
element restarts its timeout, as Linux does since 6.12) and with
`KernelMayRefuse`; `DeniedNamesStayDenied`, `SetsFollowTheCache` and the part of
`RefusedOnlyIfDenied` about answers speak of `Refresh` only.

`PolicyProofs` proves, for every file, connection and set of answers:

| Theorem | States |
|---|---|
| `EvaluateIsTheKernel` | `Spec => []KernelAgrees` |
| `TextIsTheTable` | `Spec => []PrintedIsLoaded` |
| `EveryAnswerHasItsSets` | `Spec => []FeedFindsItsSets` |
| `DenyWins` | `Spec => []DenyThenAllowThenDefault` |

*Assumptions.* `FilesAssumption`, `ResolvesAssumption` and `ConnectionsAssumption`:
types; answers are for names; an address asked about was answered for one name,
the one `Evaluate` is given; a forwarded packet has no cgroup here.
`CgroupsAssumption`: a socket's cgroup is a path of the kernel's, without an empty
part between its ends (`check` takes no cgroup).

*The argument.* An accepted file compiles to well-formed rules (`CompiledTypes`).
For one packet, `Matched` are the atoms it satisfies. The kernel's hits are these
(`HitsAreMatched`); the lines that match are theirs and the last one
(`LinesAreMatched`, phrase by phrase: `SocketLine`, `AddressLine`, `TransportLine`);
and the rules they belong to are exactly those `Evaluate` matches
(`MatchedRulesAreMatching`, both ways: an atom is found for every way a rule can
match). All three deciders then take the least rule (`FilterByRule`, `TextByRule`).

`DenyWins` is about the file as it is written. What the code makes of a rule
(trailing dots, wildcards as suffixes, `strings.Trim`) and what the README says of it
are two definitions, and a compiled rule matches exactly where
the written one applies (`AppliesIsMatch`, field by field: `PatternsCover`,
`NetsHold`, `BelowIsWithin`). The reference reads a cgroup path by its parts that are not
empty, the code by a prefix of the trimmed text; they agree because trimming
removes only what counts for nothing (`TrimmedSpan`, `PlaceInSpan`), and an accepted
rule's path has no empty part left (`NoEmptyIsWhole`). The compiled list is the file's
deny rules, then its allow rules (`CompiledOrder`), so its least match is the first
of the list that wins (`FirstOfTheList`).

`LearnProofs` proves, for any tuples, destinations, answers, window and sweep interval:

| Theorem | States |
|---|---|
| `InitiatorTheorem` | `Spec => []OneInitiator` |
| `RefinementTheorem` | `Spec => ImplementsFlowOwner` |
| `FileTheorem` | `Spec => FileIsReplacedAfterTheLoop` |

*The argument.* A sweep cannot be told from none (`SweepIsInvisible`: it drops
what has lapsed only), a packet refreshes one table only if the other has lapsed,
and time lapses but never revives; so one table at most counts for a tuple, and
the owner read off the two tables is well defined. Each packet and tick is then a
step of `FlowOwner` (`HeardStep`, `SentStep`, `AgingStep`), the edge of the window,
where the reply test and the table's test differ by one comparison, included.

`LearntProofs` proves, for any capture and any answers in it:

| Theorem | States |
|---|---|
| `LearnTypes` | `Spec => []TypeOK` |
| `SeenIsAllowed` | `Spec => []LearntPolicyAllowsWhatItSaw` |
| `NoMoreIsAllowed` | `Spec => []LearntPolicyAllowsNoMore` |
| `RejectionHasCause` | `Spec => []RejectedOnlyForPortOrName` |

*Assumptions.* `LearnAssumption`: the types of what is captured. `NamesAssumption`: a
question's name is as `dnswatch.Parse` normalizes it. `AddressesAssumption`: the
addresses of one family are of one length, have texts, and `Metadata` is a v4 one.
`TextsAssumption`: no two addresses are written alike.

*The argument.* `LearntInv` says what the file is at each `pc`: once written, it is
the policy rendered from the entries, and it compiles; rejected, it is empty and
that policy does not. It also ties the entries to the flows (`Linked`, kept by
`RecordedLinks`): every entry is that of a flow it took its kind from
(`EntryHasFlow`), and every flow has an entry of its text, port and protocol, though
perhaps of the other kind. The rest is about the operators. `Rendered` has one rule
per text (`RenderedAllow`), below one deny of the metadata address (`MetadataRule`); an
address is read back from its text (`TextIsParsed`); such a rule
compiles unless its port or its name is bad; and `LearntVerdict` says when `Evaluate`
allows a destination: it is not the metadata address, and a rule's host reaches it, on a
port of one of its entries and with the protocol of one. A flow that was seen, and
whose text no flow of the other kind has, is its own witness (`SeenIsKept`,
`SeenIsReached`); conversely there is a flow of the host of the destination
(`ReachedIsSameHost`), and flows of the same text with the port and the protocol, three
perhaps, since ports and protocols are merged.

`RefusalsProofs` proves, for any policy, rule names, prefix length, ring and memory:

| Theorem | States |
|---|---|
| `RefusalsAreAccountedFor` | `Spec => []NoRefusalVanishes` |
| `OnlyAnotherHides` | `Spec => []HiddenOnlyByAnother` |
| `AlertsNameTheRule` | `Spec => []AlertNamesItsRule` |
| `RefusalsTypes` | `Spec => []TypeOK` |

*Assumption.* `RefusalsAssumption`: the rules are a sequence, each with a name or none
in the file and a position; what `/dev/kmsg` escapes is no mark the reader looks for, nor
becomes one; a flow's address is one the cache may hold; the prefix has room for a word,
the ring for a record.

*The argument.* Every record of a refusal in the ring has that refusal's line
(`RingOK`), so one that is passed over has an unreadable line, for good; a record
that leaves the ring is in hand or noted as overwritten (`RingAfterLog`,
`TakenIsInHand`). A slot of the memory keeps the verdict of the flow that took
it (`SlotsTell`), which is what `Evaluate` would say of the same service under the
same name, whatever the cache has become. Of an alert's name: the first words of a prefix
that was cut are words of the name, and no `"]"` follows them but the name's own or the
prefix's (`Keeps`), so what a parsed line yields is the name, with its words as `Kmsg` gives them, or what
precedes a `"]"` in it (`LeftOfPrefix`, `ParsedIsReadBack`); `TypeInv` carries this from the ring through the
goroutine's hand to the sink (`Tells`), beside the types.

`WebhookProofs` proves, for any events, senders, queue length and endpoint, with
or without `SendersQuiesce`:

| Theorem | States |
|---|---|
| `TypesHold`, `InvariantHolds` | `Spec => []TypeOK`, `Spec => []IInv` |
| `WebhookImplementsSink` | `Spec => ImplementsSink`, the refinement of `AlertSink` |
| `WebhookCountsOnce` | `Spec => []Sink!CountedOnce` |
| `CloseFlushes` | `SendersQuiesce /\ Spec => []CloseFlushesWhatIsPending` |

*Assumption.* `WebhookAssumption`: the channel has a capacity of at least one.

*The argument.* The refinement maps what waits to the channel, the batch and the
part of the payload not yet received, and the tally to what `Send` holds, the
counter and the payload's part of it. A step is then a step of the sink only if
the places are apart (`EventsAreApart`): a request must take away from "waiting"
exactly what it reports. A retry after a request that did arrive must be a
stutter, which needs that a payload has been received whole or not at all
(`PayloadIsWhole`). `CloseFlushes` rests on `EndIsClean`: the last post is made
only when the channel is closed and drained, and of all there is. Without
`SendersQuiesce` it fails, which is run `webhook_panic`.

*Only model-checked.* Liveness (`CgroupBecomesActive`, `SignalEndsTheDaemon`,
`QueuedIsPosted`, `CloseTerminates`, `RefusalIsAlerted`): fairness and ENABLED are
out of the prover's reach. Every invariant, action property and refinement that a
passing run checks is stated by a theorem. The modules declare no RECURSIVE operator.

## 5. Not modelled

* Formatting and decoding: YAML, JSON, netlink messages, packet headers
  (`internal/packet`, a function of bytes without state). Frames and files are
  taken as decoded; texts are modelled only where a program reads them back
  (log prefixes) or a property is about them (`-print`).
* `internal/procs` (reads /proc) and the socket calls of `internal/capture`; the
  buffer that loses what does not fit is part of `Enforce`. In `Refusals` a flow
  has the cgroup `procs` would find.
* What is only printed: hits and origins in comments of a learnt policy, the
  terminal lines of enforcement.
* A packet without a destination address, or of a protocol other than TCP, UDP
  and ICMP. A second daemon beside the first.
* Growth: the memory of reported flows (enforce.go:120) is never purged.

## 6. Plan

Done: the policy, its plan and its printed form, proved to agree; the enforcing
daemon with its safety proofs, the sets against denied names and against the
cache; `learn` from packets to the file, refining an abstract owner; refusals from
the kernel's log, or the dry run, to the sink; the webhook as an alert sink.
Next:

1. `Firewall`: the abstract firewall (a packet passes iff the policy says so of
   what is resolved now), which `Enforce` implements up to `lapsed`.
2. Two daemons: a second `enforce` replaces the first one's table, and `Close` of
   either removes it.

To repeat a check: `tlc -config <run>.cfg <module>`, and `tlapm` on
`EnforceProofs.tla`, `CacheProofs.tla`, `PolicyProofs.tla`, `LearnProofs.tla`,
`LearntProofs.tla`, `RefusalsProofs.tla`, `WebhookProofs.tla` and `MinProofs.tla`.
