------------------------------ MODULE Refusals ------------------------------
(***************************************************************************)
(* How a refusal becomes an alert.  Enforcing, the kernel logs it under    *)
(* the prefix of its rule (nft/plan.go LogPrefix) and a goroutine reads    *)
(* the log back (kmsg/tail_linux.go, kmsg.go, enforce.go:97-116) while the *)
(* loop records names.  In a dry run the loop evaluates each flow itself   *)
(* and remembers for ten seconds that it did (enforce.go:122-162);         *)
(* enforcing, it does so only to print, which is left out.                 *)
(*                                                                         *)
(* Text is a sequence of words.  "deny[" and "]", for "]: ", are the words *)
(* the log prefix and its reader share, ".." is the end of one that is     *)
(* cut; a rule's name may hold any of them.  A word with a backslash, a    *)
(* control or a non-ASCII byte in it is one /dev/kmsg escapes.             *)
(***************************************************************************)
EXTENDS DnsCache

CONSTANTS
  Rules, Default,  \* the policy, compiled
  FileName,        \* the name each rule has in the file, <<>> when none
  Position,        \* "deny[i]" or "allow[i]", its place in the file, one word
  Escapes,         \* what /dev/kmsg gives for each word it escapes
  Flows,           \* [ip, port, proto, cgroup] the host tries
  Answers,         \* [name, addrs, ttl] of the DNS answers it is sent
  MaxPrefix,       \* maxPrefix (plan.go:25), in words
  Memory,          \* the ten seconds of enforce.go:134
  RingCap,         \* bound: records the kernel keeps for a reader
  MaxRefusals      \* bound: refusals one run logs

\* The words of the log that are not of a name.
Marks == {"deny[", "]", "..", "default-deny", "DST"}

ASSUME RefusalsAssumption ==
  /\ Len(Rules) \in Nat /\ DOMAIN Rules = 1..Len(Rules)
  /\ FileName \in [DOMAIN Rules -> Seq(STRING)]
  /\ Position \in [DOMAIN Rules -> STRING]
  /\ \A w \in DOMAIN Escapes : w \notin Marks /\ Escapes[w] \in STRING \ Marks
  /\ \A f \in Flows : f.ip \in Addrs
  /\ {MaxPrefix, RingCap, Memory} \subseteq Nat \ {0}
  /\ MaxRefusals \in Nat

VARIABLES
  dryRun,       \* the -dry-run flag
  stop,         \* the signal context is done
  cache,        \* dnswatch.Cache
  seen,         \* per destination, how long it stays reported, and what was
  ring,         \* kernel log records the reader has not had
  behind,       \* the ring overwrote some of them: the next read is EPIPE
  tail,         \* where the kernel-log goroutine is
  event,        \* the refusal it has in hand
  sent,         \* the last event given to the sink
  refused,      \* history: the rules of the refusals logged
  alerted,      \* history: refusals given to the sink
  overwritten   \* history: refusals the ring dropped

reader == <<tail, event, sent, alerted>>
log    == <<ring, behind, refused, overwritten>>
vars   == <<dryRun, stop, cache, seen, reader, log>>

Destination(f) == [ip |-> f.ip, port |-> f.port, proto |-> f.proto]

NotSeen == [left |-> 0, verdict |-> "none", domain |-> NoName, cgroup |-> NoCgroup]
NoEvent == [id |-> 0, rule |-> <<>>, ip |-> NoIP, host |-> NoName, by |-> 0]

Init ==
  /\ dryRun \in BOOLEAN /\ stop = FALSE
  /\ cache = NoCache
  /\ seen = [d \in {Destination(f) : f \in Flows} |-> NotSeen]
  /\ ring = <<>> /\ behind = FALSE
  /\ tail = IF dryRun THEN "none" ELSE "read"
  /\ event = NoEvent /\ sent = NoEvent
  /\ refused = <<>> /\ alerted = {} /\ overwritten = {}

----------------------------------------------------------------------------
(* The kernel log.                                                         *)

\* Mutant: a rule without a name stays without.
RuleNameOfFile(i) == FileName[i]

\* A rule the file gives no name is named by its position.
RuleName(i) == IF FileName[i] = <<>> THEN <<Position[i]>> ELSE FileName[i]

\* The default, rule 0, has no name.
NameOf(rule) == IF rule = 0 THEN <<>> ELSE RuleName(rule)

\* Only the default has no name; a prefix too long is cut, and its end with it.
LogPrefix(rule) ==
  LET p == IF rule = <<>> THEN <<"default-deny">> ELSE <<"deny[">> \o rule \o <<"]">>
  IN  IF Len(p) > MaxPrefix THEN SubSeq(p, 1, MaxPrefix - 1) \o <<"..">> ELSE p

NotOurs == [ok |-> FALSE, rule |-> <<>>]

\* Mutant: what has no "]: " is taken whole.
ParseLineWhole(text) ==
  LET ends == {i \in DOMAIN text : text[i] = "]"} \cup {Len(text) + 1} IN
  IF text[1] = "deny[" THEN [ok |-> TRUE, rule |-> SubSeq(text, 2, Min(ends) - 1)]
  ELSE [ok |-> text[1] = "default-deny", rule |-> <<>>]

\* Mutant: any line is a refusal.
ParseLineOfAny(text) ==
  LET ends == {i \in DOMAIN text : text[i] = "]"} IN
  IF text[1] = "deny[" THEN
    IF ends = {} THEN NotOurs ELSE [ok |-> TRUE, rule |-> SubSeq(text, 2, Min(ends) - 1)]
  ELSE [ok |-> TRUE, rule |-> <<>>]

\* A rule's name is the words up to the first "]: ", of a line that has one.
ParseLine(text) ==
  LET ends == {i \in DOMAIN text : text[i] = "]"} IN
  IF text[1] = "deny[" THEN
    IF ends = {} THEN NotOurs ELSE [ok |-> TRUE, rule |-> SubSeq(text, 2, Min(ends) - 1)]
  ELSE [ok |-> text[1] = "default-deny", rule |-> <<>>]

\* What a reader of /dev/kmsg is given for a text that was logged.
Kmsg(text) ==
  [i \in DOMAIN text |-> IF text[i] \in DOMAIN Escapes THEN Escapes[text[i]] ELSE text[i]]

\* The line a refusal by a rule leaves for the reader.
LineOf(rule) == Kmsg(LogPrefix(NameOf(rule)) \o <<"DST">>)

Refusing ==
  {i \in DOMAIN Rules : Rules[i].verdict = "deny"} \cup IF Default = "deny" THEN {0} ELSE {}

\* A record enters the ring; when that is full the oldest goes.
Log(record) ==
  /\ ring' = Append(IF Len(ring) = RingCap THEN Tail(ring) ELSE ring, record)
  /\ behind' = (behind \/ Len(ring) = RingCap)
  /\ overwritten' = overwritten \cup (IF Len(ring) = RingCap THEN {Head(ring).id} \ {0} ELSE {})

\* The kernel refuses a packet: which rule does is the table's business.
KernelRefuses(rule, ip) ==
  /\ ~ dryRun /\ Len(refused) < MaxRefusals
  /\ refused' = Append(refused, rule)
  /\ Log([id |-> Len(refused'), text |-> LineOf(rule), ip |-> Unmap(ip), by |-> rule])
  /\ UNCHANGED <<dryRun, stop, cache, seen, reader>>

\* What else the kernel logs: another firewall's record, with a DST as well.
KernelLogs(ip) ==
  /\ ~ dryRun /\ Len(refused) < MaxRefusals
  /\ Log([id |-> 0, text |-> <<"ufw", "DST">>, ip |-> Unmap(ip), by |-> 0])
  /\ UNCHANGED <<dryRun, stop, cache, seen, reader, refused>>

----------------------------------------------------------------------------
(* The kernel-log goroutine: Tail and its callback.                        *)

\* Mutant: EPIPE ends the tail as any other error would.
CarryOnNot == behind' = FALSE /\ tail' = "over" /\ UNCHANGED <<ring, event>>

\* Mutant: EPIPE skips to the end of the log.
CarryOnAtTheEnd == behind' = FALSE /\ ring' = <<>> /\ UNCHANGED <<tail, event>>

\* EPIPE: the next read has the oldest record there is.
CarryOn == behind' = FALSE /\ UNCHANGED <<ring, tail, event>>

\* A line that is not ours is passed over.
TakeLine(line) ==
  LET parsed == ParseLine(line.text) IN
  /\ ring' = Tail(ring) /\ UNCHANGED behind
  /\ IF parsed.ok
     THEN /\ event' = [id |-> line.id, rule |-> parsed.rule, ip |-> line.ip, host |-> NoName,
                       by |-> line.by]
          /\ tail' = "lookup"
     ELSE UNCHANGED <<event, tail>>

TailRead ==
  /\ tail = "read" /\ ring # <<>>
  /\ IF behind THEN CarryOn ELSE TakeLine(Head(ring))
  /\ UNCHANGED <<dryRun, stop, cache, seen, sent, refused, alerted, overwritten>>

\* The callback asks the cache, which the loop may have changed since.
TailLookup ==
  /\ tail = "lookup"
  /\ event' = [event EXCEPT !.host = Lookup(cache, event.ip)]
  /\ tail' = "send"
  /\ UNCHANGED <<dryRun, stop, cache, seen, sent, alerted, log>>

TailSend ==
  /\ tail = "send"
  /\ sent' = event /\ alerted' = alerted \cup {event.id}
  /\ event' = NoEvent /\ tail' = "read"
  /\ UNCHANGED <<dryRun, stop, cache, seen, log>>

\* The context is done and its goroutine has closed the device, or a read
\* failed for another reason.
TailEnds ==
  /\ tail = "read"
  /\ tail' = IF stop THEN "over" ELSE "failed"
  /\ UNCHANGED <<dryRun, stop, cache, seen, event, sent, alerted, log>>

----------------------------------------------------------------------------
(* The loop.                                                               *)

Evaluated(f) ==
  Evaluate(Rules, Default,
           [domain |-> Lookup(cache, f.ip), ip |-> f.ip, port |-> f.port, proto |-> f.proto,
            cgroup |-> f.cgroup])

\* Mutant: a destination is an address.
SlotOfAddress(f) == CHOOSE d \in DOMAIN seen : d.ip = f.ip

\* The key of the memory: the cgroup and the name are not part of it.
Slot(f) == Destination(f)

\* report: once per destination and ten seconds; the slot is taken before the
\* flow is evaluated, whatever the verdict.
Report(f) ==
  /\ dryRun /\ ~ stop /\ seen[Slot(f)].left = 0
  /\ seen' = [seen EXCEPT ![Slot(f)] =
                [left |-> Memory, verdict |-> Evaluated(f).verdict,
                 domain |-> Lookup(cache, f.ip), cgroup |-> f.cgroup]]
  /\ sent' = IF Evaluated(f).verdict = "deny"
             THEN [id |-> 0, rule |-> NameOf(Evaluated(f).rule), ip |-> f.ip,
                   host |-> Lookup(cache, f.ip), by |-> Evaluated(f).rule]
             ELSE sent
  /\ UNCHANGED <<dryRun, stop, cache, tail, event, alerted, log>>

ReadDns(answer) ==
  /\ ~ stop
  /\ cache' = Record(cache, answer)
  /\ UNCHANGED <<dryRun, stop, seen, reader, log>>

Signal ==
  /\ ~ stop
  /\ stop' = TRUE
  /\ UNCHANGED <<dryRun, cache, seen, reader, log>>

\* A memory that is over is as good as none, an expired name as good as purged.
Tick ==
  /\ cache' = Purge(Aged(cache))
  /\ seen' = [d \in DOMAIN seen |->
                IF seen[d].left <= 1 THEN NotSeen ELSE [seen[d] EXCEPT !.left = @ - 1]]
  /\ UNCHANGED <<dryRun, stop, reader, log>>

TailStep == TailRead \/ TailLookup \/ TailSend

Next ==
  \/ \E r \in Refusing, f \in Flows : KernelRefuses(r, f.ip)
  \/ \E f \in Flows : Report(f)
  \/ \E a \in Answers : ReadDns(a)
  \/ \E f \in Flows : KernelLogs(f.ip)
  \/ TailStep \/ TailEnds \/ Signal \/ Tick

\* The goroutine is scheduled; a read of a log with records in it returns.
Spec == Init /\ [][Next]_vars /\ WF_vars(TailStep)

----------------------------------------------------------------------------
(* Properties.                                                             *)

Words  == Seq(STRING)
Events == [id : 0..MaxRefusals, rule : Words, ip : Addrs \cup {NoIP},
           host : {a.name : a \in Answers} \cup {NoName}, by : {0} \cup DOMAIN Rules]

TypeOK ==
  /\ dryRun \in BOOLEAN /\ stop \in BOOLEAN /\ behind \in BOOLEAN
  /\ \A ip \in Addrs : cache[ip].name \in {a.name : a \in Answers} \cup {NoName}
  /\ \A d \in DOMAIN seen : seen[d].left \in 0..Memory
  /\ Len(ring) <= RingCap
  /\ tail \in {"none", "read", "lookup", "send", "over", "failed"}
  /\ event \in Events /\ sent \in Events
  /\ refused \in Seq({0} \cup DOMAIN Rules) /\ Len(refused) <= MaxRefusals
  /\ alerted \cup overwritten \subseteq DOMAIN refused

\* What a name may be read back as: all of it, or what stands before a "]: " in it.
ReadBack(words, name) ==
  /\ IsPrefix(words, name)
  /\ words # name => name[Len(words) + 1] = "]"

\* "Each refusal is logged by the kernel with the rule that caused it, and the
\* daemon reads those back" (README.md:131-132): through LogPrefix, the cut,
\* /dev/kmsg and ParseLine, an alert of the kernel's has the name of the rule that
\* refused as /dev/kmsg escapes it, whole or up to a "]: " in it; an alert of a dry
\* run has the name itself.  Without a rule, as the default's, goes only a refusal of
\* the default or of a rule whose name begins with "]: ".
AlertNamesItsRule ==
  /\ ReadBack(sent.rule, IF dryRun THEN NameOf(sent.by) ELSE Kmsg(NameOf(sent.by)))
  /\ sent.rule = <<>> => sent.by = 0 \/ IsPrefix(<<"]">>, NameOf(sent.by))

\* The goroutine will not parse it: the name is too long for the prefix, and has
\* no "]: " in what is left of it.
Unreadable(rule) == ~ ParseLine(LineOf(rule)).ok

InRing(id) == \E i \in DOMAIN ring : ring[i].id = id

\* "EPIPE means we fell behind and the ring overwrote records; carry on"
\* (tail_linux.go:35): a refusal is alerted, or waits in the log or in the
\* goroutine's hand, or was overwritten before it was read, or was of a rule
\* whose prefix was cut; what a slow reader lost takes nothing else with it.
NoRefusalVanishes ==
  tail \in {"read", "lookup", "send"} =>
    \A id \in DOMAIN refused :
      \/ id \in alerted \/ id \in overwritten \/ id = event.id \/ InRing(id)
      \/ Unreadable(refused[id])

\* A refusal that waits in the log becomes an alert unless the log overwrites
\* it, the daemon is stopped or a read fails.
RefusalIsAlerted ==
  \A id \in 1..MaxRefusals :
    (InRing(id) /\ ~ Unreadable(refused[id]))
      ~> (id \in alerted \/ id \in overwritten \/ stop \/ tail = "failed")

\* "prints what the policy would have refused" (README.md:158): a flow that would
\* be refused is passed over only because the same refusal was reported less than
\* ten seconds ago, or because another service, or the same address under another
\* name, was looked at instead: the memory is taken before Evaluate and its key
\* is the destination alone (enforce.go:133-138).
HiddenOnlyByAnother ==
  \A f \in Flows :
    LET slot == seen[Destination(f)] IN
    slot.left > 0 /\ Evaluated(f).verdict = "deny" =>
      \/ slot.verdict = "deny"
      \/ slot.cgroup # f.cgroup \/ slot.domain # Lookup(cache, f.ip)
=============================================================================
