-------------------------------- MODULE Learn -------------------------------
(***************************************************************************)
(* egresswall learn: the observer (internal/learn/learn.go) fed by the     *)
(* loop of cmd/egresswall/learn.go, and the policy file it leaves.         *)
(*                                                                         *)
(* What the observer remembers of a UDP tuple is the time since: ages are  *)
(* exact up to Window and saturate one above.                              *)
(***************************************************************************)
EXTENDS DnsCache, Writer

CONSTANTS
  Tuples,       \* [peer, peerPort, local]
  Destinations, \* [ip, port] of the connections the host opens over TCP
  Answers,      \* [name, addrs, ttl] of the DNS answers it is sent
  Window,       \* replyWindow
  SweepEvery,   \* the 30 s between two sweeps
  MaxFlows      \* bound: flows one run remembers

ASSUME LearnAssumption ==
  /\ \A t \in Tuples : t.peer \in Addrs /\ t.peerPort \in 0..MaxPort
  /\ \A d \in Destinations : d.ip \in Addrs /\ d.port \in 0..MaxPort
  /\ \A a \in Answers : a.addrs \subseteq Addrs /\ a.ttl \in Nat
  /\ Window \in Nat \ {0}
  /\ {SweepEvery, MaxFlows} \subseteq Nat

\* dnswatch.Parse normalizes the question's name (cache.go:67), which on the wire
\* ends in one dot.
ASSUME NamesAssumption ==
  \A a \in Answers : a.name \in Seq(STRING) /\ NormalizeDomain(a.name) = a.name

\* The addresses flows and rules have: unmapped, and that of the metadata service.
Own == {Unmap(ip) : ip \in Addrs} \cup {Metadata}

\* An address of a packet is whole: those of one family are of one length.
ASSUME AddressesAssumption ==
  /\ Addrs \subseteq [fam : {"v4", "v6", "v4in6"}, bits : Seq({0, 1})]
  /\ Metadata \in [fam : {"v4"}, bits : Seq({0, 1})]
  /\ Own \subseteq DOMAIN AddrText
  /\ \A a, b \in Own : a.fam = b.fam => Len(a.bits) = Len(b.bits)

VARIABLES
  pc,       \* where runLearn is
  stop,     \* the signal or -duration has ended the context
  udpIn,    \* age of what the peer of each tuple sent
  udpOut,   \* age of what the host sent on it
  cache,    \* dnswatch.Cache
  entries,  \* Observer.entries
  flows,    \* history: [host, ip, port, proto] of what was recorded, the host a
            \* name or NoName
  since,    \* time since the last sweep, saturating
  file      \* the output file

observer == <<udpIn, udpOut, cache, entries, flows, since>>
vars     == <<pc, stop, observer, file>>

Absent == -1

OldFile      == [is |-> "old"]
EmptyFile    == [is |-> "empty"]
TornFile     == [is |-> "torn"]
PolicyFile(p) == [is |-> "policy", policy |-> p]

Init ==
  /\ pc = "loop" /\ stop = FALSE
  /\ udpIn = [t \in Tuples |-> Absent] /\ udpOut = [t \in Tuples |-> Absent]
  /\ cache = NoCache /\ entries = {} /\ flows = {} /\ since = 0
  /\ file = OldFile

----------------------------------------------------------------------------
(* Observer.Packet and Sweep.                                              *)

\* now.Sub(at) > replyWindow, or nothing remembered.
Lapsed(age) == age = Absent \/ age > Window

\* Mutant: whatever arrives is remembered.
HeardAlways(t) == [udpIn EXCEPT ![t] = 0]

\* A packet that arrives on the host's tuple is a reply and not remembered.
Heard(t) == IF Lapsed(udpOut[t]) THEN [udpIn EXCEPT ![t] = 0] ELSE udpIn

Sent(t) == IF Lapsed(udpIn[t]) THEN [udpOut EXCEPT ![t] = 0] ELSE udpOut

IsReply(t) == udpIn[t] # Absent /\ udpIn[t] < Window

\* Mutant: a v4-mapped address is kept as it is.
FlowToMapped(ip, port, proto) ==
  [host |-> Lookup(cache, ip), ip |-> ip, port |-> port, proto |-> proto]

\* An address is taken for the name it has now, if any.
FlowTo(ip, port, proto) ==
  [host |-> Lookup(cache, ip), ip |-> Unmap(ip), port |-> port, proto |-> proto]

\* The name or the address, as it is written.
Text(f) == IF f.host = NoName THEN AddrText[f.ip] ELSE f.host

\* Mutant: keyed by the host only.
RecordedPerHost(seen) ==
  entries \cup
    {[host |-> Text(f), domain |-> f.host # NoName, port |-> f.port, proto |-> f.proto] :
       f \in {g \in seen : \A e \in entries : e.host # Text(g)}}

\* record: an entry is made for the first flow of a text, port and protocol, and
\* keeps what that flow was taken for.
Recorded(seen) ==
  entries \cup
    {[host |-> Text(f), domain |-> f.host # NoName, port |-> f.port, proto |-> f.proto] :
       f \in {g \in seen : \A e \in entries :
                <<e.host, e.port, e.proto>> # <<Text(g), g.port, g.proto>>}}

\* Mutant: Sweep forgets what still counts.
SweepEarly(ages) == [t \in Tuples |-> IF ages[t] >= Window THEN Absent ELSE ages[t]]

Sweep(ages) == [t \in Tuples |-> IF ages[t] > Window THEN Absent ELSE ages[t]]

\* The loop's body after a frame was read: what Packet makes of it, with the flow
\* it is, if any, then the sweep and the purge when they are due.
Iterate(in, out, names, seen) ==
  /\ pc = "loop" /\ ~ stop
  /\ Cardinality(flows \cup seen) <= MaxFlows
  /\ flows' = flows \cup seen
  /\ entries' = Recorded(seen)
  /\ IF since > SweepEvery
     THEN udpIn' = Sweep(in) /\ udpOut' = Sweep(out) /\ cache' = Purge(names) /\ since' = 0
     ELSE udpIn' = in /\ udpOut' = out /\ cache' = names /\ UNCHANGED since
  /\ UNCHANGED <<pc, stop, file>>

\* UDP comes in; from port 53 it may carry an answer.
UdpIn(t, answer) ==
  Iterate(Heard(t), udpOut, Record(cache, answer), {})

\* UDP goes out.
UdpOut(t) ==
  Iterate(udpIn, Sent(t), cache,
          IF IsReply(t) THEN {} ELSE {FlowTo(t.peer, t.peerPort, "udp")})

\* The SYN of a connection the host opens.
TcpOut(d) == Iterate(udpIn, udpOut, cache, {FlowTo(d.ip, d.port, "tcp")})

\* A frame that is neither: any other TCP, what packet.Parse does not handle,
\* what goes to a loopback, multicast or unspecified address.
Other == Iterate(udpIn, udpOut, cache, {})

----------------------------------------------------------------------------
(* The rest of runLearn.                                                   *)

\* SIGINT, SIGTERM, or -duration is over.
Stop ==
  /\ pc = "loop" /\ ~ stop
  /\ stop' = TRUE
  /\ UNCHANGED <<pc, observer, file>>

LeaveLoop ==
  /\ pc = "loop" /\ stop
  /\ pc' = "open"
  /\ UNCHANGED <<stop, observer, file>>

\* Any read error but a timeout: what was learnt is given up.
ReadFails ==
  /\ pc = "loop"
  /\ pc' = "failed"
  /\ UNCHANGED <<stop, observer, file>>

\* O_TRUNC: the old policy goes before the new one is rendered.
OpenFile ==
  /\ pc = "open"
  /\ \/ pc' = "failed" /\ UNCHANGED file
     \/ pc' = "write" /\ file' = EmptyFile
  /\ UNCHANGED <<stop, observer>>

\* Mutant: written as it is rendered, not parsed back.
WriteUnparsed ==
  /\ pc = "write"
  /\ \/ pc' = "done" /\ file' = PolicyFile(Rendered(entries))
     \/ pc' = "failed" /\ file' = TornFile
  /\ UNCHANGED <<stop, observer>>

\* WritePolicy: parsed back, then written, which may fail half-way.
WritePolicy ==
  /\ pc = "write"
  /\ IF Compile(Rendered(entries)).ok
     THEN \/ pc' = "done" /\ file' = PolicyFile(Rendered(entries))
          \/ pc' = "failed" /\ file' = TornFile
     ELSE pc' = "rejected" /\ UNCHANGED file
  /\ UNCHANGED <<stop, observer>>

Crash ==
  /\ pc \in {"loop", "open", "write"}
  /\ pc' = "killed"
  /\ UNCHANGED <<stop, observer, file>>

Aging(ages) ==
  [t \in Tuples |-> IF ages[t] = Absent \/ ages[t] > Window THEN ages[t] ELSE ages[t] + 1]

Tick ==
  /\ pc = "loop"
  /\ udpIn' = Aging(udpIn) /\ udpOut' = Aging(udpOut)
  /\ cache' = Aged(cache)
  /\ since' = IF since > SweepEvery THEN since ELSE since + 1
  /\ UNCHANGED <<pc, stop, entries, flows, file>>

Next ==
  \/ \E t \in Tuples : UdpOut(t) \/ UdpIn(t, NoAnswer)
  \/ \E t \in Tuples : t.peerPort = 53 /\ \E a \in Answers : UdpIn(t, a)
  \/ \E d \in Destinations : TcpOut(d)
  \/ Other \/ Stop \/ LeaveLoop \/ ReadFails \/ OpenFile \/ WritePolicy \/ Crash \/ Tick

Spec == Init /\ [][Next]_vars

----------------------------------------------------------------------------
(* Properties.                                                             *)

Ages  == {Absent} \cup 0..(Window + 1)
Names == {a.name : a \in Answers}
Flows ==
  [host : Names \cup {NoName}, ip : {Unmap(ip) : ip \in Addrs}, port : 0..MaxPort,
   proto : {"tcp", "udp"}]
Learnt ==
  [host : Names, domain : {TRUE}, port : 0..MaxPort, proto : {"tcp", "udp"}] \cup
  [host : {AddrText[a] : a \in Own}, domain : {FALSE}, port : 0..MaxPort, proto : {"tcp", "udp"}]
Entries ==
  [name : Names \cup {NoName},
   left : {Expired} \cup UNION {0..n : n \in {MinTTL} \cup {a.ttl : a \in Answers}}]

TypeOK ==
  /\ pc \in {"loop", "open", "write", "done", "failed", "rejected", "killed"}
  /\ stop \in BOOLEAN
  /\ udpIn \in [Tuples -> Ages] /\ udpOut \in [Tuples -> Ages]
  /\ cache \in [Addrs -> Entries]
  /\ entries \subseteq Learnt
  /\ flows \subseteq Flows
  /\ since \in 0..(SweepEvery + 1)
  /\ file.is \in {"old", "empty", "torn", "policy"}

\* "an outbound packet mirroring something we received is our reply, not a new
\* flow, and an inbound packet mirroring something we sent is a response that
\* must not poison the reply table" (learn.go:60-64): the two tables never both
\* count for a tuple, whatever arrives at whatever edge of the window, between
\* two sweeps or after one.
OneInitiator == \A t \in Tuples : Lapsed(udpIn[t]) \/ Lapsed(udpOut[t])

OwnerOf(t) == IF ~ Lapsed(udpOut[t]) THEN "host" ELSE IF ~ Lapsed(udpIn[t]) THEN "peer" ELSE "none"

QuietOf(t) ==
  IF ~ Lapsed(udpOut[t]) THEN udpOut[t] ELSE IF ~ Lapsed(udpIn[t]) THEN udpIn[t] ELSE 0

Owners ==
  INSTANCE FlowOwner WITH
    owner   <- [t \in Tuples |-> OwnerOf(t)],
    quiet   <- [t \in Tuples |-> QuietOf(t)],
    reached <- {[ip |-> f.ip, port |-> f.port] : f \in {g \in flows : g.proto = "udp"}},
    Dest    <- [t \in Tuples |-> [ip |-> Unmap(t.peer), port |-> t.peerPort]]

\* "for UDP, whoever sent the first packet of a tuple is the initiator, so our
\* replies to inbound traffic do not show up as destinations" (README.md:84-86),
\* with what ends an initiative: the initiator's own silence, not the silence of
\* the tuple.  The two tables and their sweep implement FlowOwner.
ImplementsFlowOwner == Owners!Spec

Ports == {t.peerPort : t \in Tuples} \cup {d.port : d \in Destinations}

Asked ==
  [domain : Names \cup {NoName}, ip : {Unmap(ip) : ip \in Addrs}, port : Ports,
   proto : {"tcp", "udp"}, cgroup : {NoCgroup}]

Verdict(d) ==
  Evaluate(Compile(file.policy).rules, Compile(file.policy).default, d).verdict

\* One text, and both a name and a bare address of that text were reached.
Ambiguous(f) == \E g \in flows : Text(g) = Text(f) /\ (g.host = NoName) # (f.host = NoName)

\* "every rule below is something this host actually did" (write.go:64): when
\* learn reports success its file loads, and enforcing it refuses no flow that
\* was seen but those to the metadata address, under whatever name, and those of
\* an address when a name that reads as it was seen too: entries are keyed and
\* merged by their text (learn.go:136, write.go:41-46), and the two share a rule.
LearntPolicyAllowsWhatItSaw ==
  pc = "done" =>
    /\ Compile(file.policy).ok
    /\ \A f \in flows :
         f.ip # Metadata /\ ~ Ambiguous(f) =>
           Verdict([domain |-> f.host, ip |-> f.ip, port |-> f.port, proto |-> f.proto,
                    cgroup |-> NoCgroup]) = "allow"

\* A name seen in a question may read as a pattern, and is then enforced as one.
SameHost(f, d) ==
  \/ f.host = NoName /\ f.ip = d.ip
  \/ f.host # NoName /\ (f.host = d.domain \/ CoversName(CompileRule(
       [Blank EXCEPT !.domains = {f.host}], "allow"), d.domain))

\* The merge of ports and protocols per text (write.go:41-58, 74-92) widens what
\* was seen to their product and no further: what is allowed goes to a host that
\* was reached, on a port and over a protocol that were seen of it, or of the
\* address its name reads as, or of the name that reads as it.  And "denied
\* anyway" (write.go:68) holds for the metadata address.
LearntPolicyAllowsNoMore ==
  pc = "done" =>
    \A d \in Asked :
      Verdict(d) = "allow" =>
        /\ d.ip # Metadata
        /\ \E f, g, h \in flows :
             /\ SameHost(h, d) /\ Text(f) = Text(h) /\ Text(g) = Text(h)
             /\ f.port = d.port /\ g.proto = d.proto

\* "rendered policy does not load, this is a bug" (write.go:103): the message is
\* reached, and the file left empty, only for a flow to port 0 or a name with a
\* "*" that is no pattern.
RejectedOnlyForPortOrName ==
  pc = "rejected" =>
    /\ file = EmptyFile
    /\ \E f \in flows : f.port = 0 \/ (~ IsExact(f.host) /\ ~ IsWildcard(f.host) /\ f.host # NoName)

\* The old policy is gone only once learning is over without a read error
\* (learn.go:78-80, 93-101), and what replaces it loads, or is nothing, or what
\* a failed write left: nothing half-way between the two policies is.
FileIsReplacedAfterTheLoop ==
  [][file' # file => /\ stop /\ pc \in {"open", "write"}
                     /\ file'.is = "policy" => Compile(file'.policy).ok]_vars
=============================================================================
