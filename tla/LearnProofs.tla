----------------------------- MODULE LearnProofs ----------------------------
(***************************************************************************)
(* The observer of learn, for every set of tuples, addresses and answers,  *)
(* every window and every bound: its types, its two UDP tables never       *)
(* counting together, and the abstract ownership they implement.           *)
(***************************************************************************)
EXTENDS Learn, TLAPS

\* The tables hold ages.
AgesOK == udpIn \in [Tuples -> Ages] /\ udpOut \in [Tuples -> Ages]

\* What a step may do to the two tables, in the terms of the observer.
Tables(in, out) ==
  \/ udpIn' = in /\ udpOut' = out
  \/ udpIn' = Sweep(in) /\ udpOut' = Sweep(out)

----------------------------------------------------------------------------
(* The tables.                                                             *)

\* Sweep changes nothing that counts: an age that lapses lapsed before, and
\* one that does not is kept (learn.go:190-200).
LEMMA SweepIsInvisible ==
  ASSUME NEW ages \in [Tuples -> Ages]
  PROVE  /\ Sweep(ages) \in [Tuples -> Ages]
         /\ \A t \in Tuples : /\ Lapsed(Sweep(ages)[t]) <=> Lapsed(ages[t])
                              /\ ~ Lapsed(ages[t]) => Sweep(ages)[t] = ages[t]
BY LearnAssumption DEF Sweep, Ages, Lapsed, Absent

\* Observer.Packet leaves ages in the tables.
LEMMA PacketAges ==
  ASSUME AgesOK, NEW t \in Tuples
  PROVE  Heard(t) \in [Tuples -> Ages] /\ Sent(t) \in [Tuples -> Ages]
BY LearnAssumption DEF AgesOK, Heard, Sent, Ages, Absent

\* Time leaves ages in the tables, and lapses what has reached the window.
LEMMA AgingAges ==
  ASSUME NEW ages \in [Tuples -> Ages]
  PROVE  /\ Aging(ages) \in [Tuples -> Ages]
         /\ \A t \in Tuples :
              /\ Lapsed(ages[t]) => Lapsed(Aging(ages)[t])
              /\ ~ Lapsed(ages[t]) => Aging(ages)[t] = ages[t] + 1
BY LearnAssumption DEF Aging, Ages, Lapsed, Absent

\* The loop's body, split from the purge and the counter.
LEMMA IterateTables ==
  ASSUME NEW in, NEW out, NEW names, NEW seen, Iterate(in, out, names, seen)
  PROVE  Tables(in, out) /\ flows' = flows \cup seen
BY DEF Iterate, Tables

\* A step of the loop comes from a packet, or leaves the tables alone; the
\* others leave tables and flows alone, but for time.
LEMMA StepCases ==
  ASSUME [Next]_vars
  PROVE  \/ \E t \in Tuples : Tables(Heard(t), udpOut) /\ flows' = flows
         \/ \E t \in Tuples :
              /\ Tables(udpIn, Sent(t))
              /\ flows' = IF IsReply(t) THEN flows ELSE flows \cup {FlowTo(t.peer, t.peerPort, "udp")}
         \/ \E d \in Destinations : /\ Tables(udpIn, udpOut)
                                     /\ flows' = flows \cup {FlowTo(d.ip, d.port, "tcp")}
         \/ Tables(udpIn, udpOut) /\ flows' = flows
         \/ udpIn' = Aging(udpIn) /\ udpOut' = Aging(udpOut) /\ flows' = flows
<1>1. ASSUME NEW t \in Tuples, UdpOut(t) 
      PROVE  /\ Tables(udpIn, Sent(t))
             /\ flows' = IF IsReply(t) THEN flows ELSE flows \cup {FlowTo(t.peer, t.peerPort, "udp")}
  BY <1>1, IterateTables DEF UdpOut
<1>2. ASSUME NEW t \in Tuples, NEW a, UdpIn(t, a)
      PROVE  Tables(Heard(t), udpOut) /\ flows' = flows
  BY <1>2, IterateTables DEF UdpIn
<1>3. ASSUME NEW d \in Destinations, TcpOut(d)
      PROVE  Tables(udpIn, udpOut) /\ flows' = flows \cup {FlowTo(d.ip, d.port, "tcp")}
  BY <1>3, IterateTables DEF TcpOut
<1>4. Other => Tables(udpIn, udpOut) /\ flows' = flows
  BY IterateTables DEF Other
<1>5. Stop \/ LeaveLoop \/ ReadFails \/ OpenFile \/ WritePolicy \/ Crash \/ UNCHANGED vars
        => Tables(udpIn, udpOut) /\ flows' = flows
  BY DEF Stop, LeaveLoop, ReadFails, OpenFile, WritePolicy, Crash, observer, vars, Tables
<1>6. Tick => udpIn' = Aging(udpIn) /\ udpOut' = Aging(udpOut) /\ flows' = flows
  BY DEF Tick
<1> QED BY <1>1, <1>2, <1>3, <1>4, <1>5, <1>6 DEF Next

----------------------------------------------------------------------------
(* OneInitiator.                                                           *)

\* Two empty tables count for nothing.
LEMMA AgesInit == Init => AgesOK /\ OneInitiator
BY LearnAssumption DEF Init, AgesOK, OneInitiator, Ages, Lapsed, Absent

\* Two tables that do not both count do not after Sweep.
LEMMA TablesKeep ==
  ASSUME NEW in \in [Tuples -> Ages], NEW out \in [Tuples -> Ages], Tables(in, out),
         \A t \in Tuples : Lapsed(in[t]) \/ Lapsed(out[t])
  PROVE  AgesOK' /\ OneInitiator'
<1>1. CASE udpIn' = in /\ udpOut' = out
  BY <1>1 DEF AgesOK, OneInitiator
<1>2. CASE udpIn' = Sweep(in) /\ udpOut' = Sweep(out)
  BY <1>2, SweepIsInvisible DEF AgesOK, OneInitiator
<1> QED BY <1>1, <1>2 DEF Tables

\* No packet, sweep or tick makes both tables count for a tuple.
LEMMA OneInitiatorStep ==
  ASSUME AgesOK, OneInitiator, [Next]_vars
  PROVE  AgesOK' /\ OneInitiator'
<1> USE DEF AgesOK
<1>1. ASSUME NEW t \in Tuples, Tables(Heard(t), udpOut)
      PROVE  AgesOK' /\ OneInitiator'
  <2>1. \A u \in Tuples : Lapsed(Heard(t)[u]) \/ Lapsed(udpOut[u])
    BY DEF OneInitiator, Heard
  <2> QED BY <1>1, <2>1, PacketAges, TablesKeep
<1>2. ASSUME NEW t \in Tuples, Tables(udpIn, Sent(t))
      PROVE  AgesOK' /\ OneInitiator'
  <2>1. \A u \in Tuples : Lapsed(udpIn[u]) \/ Lapsed(Sent(t)[u])
    BY DEF OneInitiator, Sent
  <2> QED BY <1>2, <2>1, PacketAges, TablesKeep
<1>3. Tables(udpIn, udpOut) => AgesOK' /\ OneInitiator'
  BY TablesKeep DEF OneInitiator
<1>4. udpIn' = Aging(udpIn) /\ udpOut' = Aging(udpOut) => AgesOK' /\ OneInitiator'
  BY AgingAges DEF OneInitiator
<1> QED BY <1>1, <1>2, <1>3, <1>4, StepCases

\* The two UDP tables never both count for a tuple (learn.go:60-64, 84-123).
THEOREM InitiatorTheorem == Spec => []OneInitiator
<1>1. Spec => [](AgesOK /\ OneInitiator)
  BY AgesInit, OneInitiatorStep, PTL DEF Spec
<1> QED BY <1>1, PTL

----------------------------------------------------------------------------
(* The refinement of FlowOwner.                                            *)

OwnerIn(in, out) == IF ~ Lapsed(out) THEN "host" ELSE IF ~ Lapsed(in) THEN "peer" ELSE "none"

QuietIn(in, out) == IF ~ Lapsed(out) THEN out ELSE IF ~ Lapsed(in) THEN in ELSE 0

Reached(fs) == {[ip |-> f.ip, port |-> f.port] : f \in {g \in fs : g.proto = "udp"}}

\* What a step of the loop makes of the owners, swept or not.
LEMMA TablesOwn ==
  ASSUME NEW in \in [Tuples -> Ages], NEW out \in [Tuples -> Ages], Tables(in, out)
  PROVE  \A t \in Tuples : /\ OwnerOf(t)' = OwnerIn(in[t], out[t])
                           /\ QuietOf(t)' = QuietIn(in[t], out[t])
<1>1. CASE udpIn' = in /\ udpOut' = out
  BY <1>1 DEF OwnerOf, QuietOf, OwnerIn, QuietIn
<1>2. CASE udpIn' = Sweep(in) /\ udpOut' = Sweep(out)
  BY <1>2, SweepIsInvisible DEF OwnerOf, QuietOf, OwnerIn, QuietIn
<1> QED BY <1>1, <1>2 DEF Tables

\* The owner of a tuple, and its silence, as functions of its two ages.
LEMMA OwnersNow ==
  \A t \in Tuples : /\ OwnerOf(t) = OwnerIn(udpIn[t], udpOut[t])
                    /\ QuietOf(t) = QuietIn(udpIn[t], udpOut[t])
BY DEF OwnerOf, QuietOf, OwnerIn, QuietIn

\* Recording a flow reaches its destination, when it is over UDP.
LEMMA RecordedReaches ==
  ASSUME NEW ip, NEW port, NEW proto
  PROVE  Reached(flows \cup {FlowTo(ip, port, proto)}) =
           IF proto = "udp" THEN Reached(flows) \cup {[ip |-> Unmap(ip), port |-> port]}
                            ELSE Reached(flows)
<1> DEFINE f == FlowTo(ip, port, proto)
<1>1. f.ip = Unmap(ip) /\ f.port = port /\ f.proto = proto
  BY DEF FlowTo
<1> HIDE DEF f
<1>2. Reached(flows \cup {f}) = IF f.proto = "udp" THEN Reached(flows) \cup {[ip |-> f.ip, port |-> f.port]}
                                                   ELSE Reached(flows)
  BY DEF Reached
<1> QED BY <1>1, <1>2 DEF f

\* The abstract state: the mapping, written once.
LEMMA Mapping ==
  /\ Owners!Init <=> /\ [t \in Tuples |-> OwnerOf(t)] = [t \in Tuples |-> "none"]
                     /\ [t \in Tuples |-> QuietOf(t)] = [t \in Tuples |-> 0]
                     /\ Reached(flows) = {}
  /\ Owners!Pass <=>
       /\ [t \in Tuples |-> OwnerOf(t)]' =
            [t \in Tuples |-> IF QuietOf(t) < Window THEN OwnerOf(t) ELSE "none"]
       /\ [t \in Tuples |-> QuietOf(t)]' =
            [t \in Tuples |-> IF QuietOf(t) < Window /\ OwnerOf(t) # "none"
                              THEN QuietOf(t) + 1 ELSE 0]
       /\ Reached(flows)' = Reached(flows)
BY DEF Owners!Init, Owners!Pass, Reached

\* No owner changes, and no destination is new.
Stutters ==
  /\ \A t \in Tuples : OwnerOf(t)' = OwnerOf(t) /\ QuietOf(t)' = QuietOf(t)
  /\ Reached(flows)' = Reached(flows)

\* What changes no owner, no silence and no destination stutters.
LEMMA StutterStep == Stutters => UNCHANGED Owners!vars
BY DEF Stutters, Owners!vars, Reached

\* The owner of t becomes who, and no other changes.
Takes(t, who) ==
  \A u \in Tuples :
    /\ OwnerOf(u)' = IF u = t THEN who ELSE OwnerOf(u)
    /\ QuietOf(u)' = IF u = t THEN 0 ELSE QuietOf(u)

\* A tuple that changes hands alone is a Take of FlowOwner.
LEMMA TakeStep ==
  ASSUME NEW t \in Tuples, NEW who, Takes(t, who)
  PROVE  Owners!Take(t, who)
BY DEF Takes, Owners!Take

\* An observer that has seen nothing has no owners.
LEMMA OwnersInit == Init => Owners!Init
BY LearnAssumption, Mapping DEF Init, OwnerOf, QuietOf, Lapsed, Absent, Reached

\* What arrives: the host's tuple stays the host's (learn.go:90-95).
LEMMA HeardStep ==
  ASSUME AgesOK, OneInitiator, NEW t \in Tuples, Tables(Heard(t), udpOut), flows' = flows
  PROVE  [Owners!Next]_Owners!vars
<1> USE DEF AgesOK
<1>1. \A u \in Tuples : /\ OwnerOf(u)' = OwnerIn(Heard(t)[u], udpOut[u])
                        /\ QuietOf(u)' = QuietIn(Heard(t)[u], udpOut[u])
  BY PacketAges, TablesOwn
<1>2. Reached(flows)' = Reached(flows)
  BY DEF Reached
<1>3. CASE Lapsed(udpOut[t])
  <2>1. Takes(t, "peer")
    BY <1>1, <1>3, OwnersNow, LearnAssumption DEF Takes, Heard, OwnerIn, QuietIn, Lapsed, Absent
  <2>2. OwnerOf(t) # "host"
    BY <1>3 DEF OwnerOf
  <2>3. Owners!PeerSends(t)
    BY <1>2, <2>1, <2>2, TakeStep DEF Owners!PeerSends, Reached
  <2> QED BY <2>3 DEF Owners!Next
<1>4. CASE ~ Lapsed(udpOut[t])
  <2>1. Stutters
    BY <1>1, <1>2, <1>4, OwnersNow DEF Stutters, Heard
  <2> QED BY <2>1, StutterStep
<1> QED BY <1>3, <1>4

\* What the host sends: it counts unless the peer was heard within the window,
\* and takes the tuple unless the peer still has it (learn.go:109-120).
LEMMA SentStep ==
  ASSUME AgesOK, OneInitiator, NEW t \in Tuples, Tables(udpIn, Sent(t)),
         flows' = IF IsReply(t) THEN flows ELSE flows \cup {FlowTo(t.peer, t.peerPort, "udp")}
  PROVE  [Owners!Next]_Owners!vars
<1> USE DEF AgesOK
<1> DEFINE dest == [ip |-> Unmap(t.peer), port |-> t.peerPort]
<1>1. \A u \in Tuples : /\ OwnerOf(u)' = OwnerIn(udpIn[u], Sent(t)[u])
                        /\ QuietOf(u)' = QuietIn(udpIn[u], Sent(t)[u])
  BY PacketAges, TablesOwn
<1>2. IsReply(t) => Reached(flows)' = Reached(flows)
  BY DEF Reached
<1>3. ~ IsReply(t) => Reached(flows)' = Reached(flows) \cup {dest}
  <2>1. SUFFICES ASSUME ~ IsReply(t) PROVE Reached(flows)' = Reached(flows) \cup {dest}
    OBVIOUS
  <2>2. Reached(flows)' = Reached(flows \cup {FlowTo(t.peer, t.peerPort, "udp")})
    BY <2>1 DEF Reached
  <2> QED BY <2>2, RecordedReaches
<1>4. CASE Lapsed(udpIn[t])
  <2>1. Takes(t, "host")
    BY <1>1, <1>4, OwnersNow, LearnAssumption DEF Takes, Sent, OwnerIn, QuietIn, Lapsed, Absent
  <2>2. OwnerOf(t) # "peer" /\ ~ IsReply(t)
    BY <1>4, LearnAssumption DEF OwnerOf, IsReply, Lapsed, Ages, Absent
  <2>3. Owners!HostSends(t)
    BY <1>3, <2>1, <2>2, TakeStep DEF Owners!HostSends, Reached
  <2> QED BY <2>3 DEF Owners!Next
<1>5. CASE ~ Lapsed(udpIn[t])
  <2>1. \A u \in Tuples : OwnerOf(u)' = OwnerOf(u) /\ QuietOf(u)' = QuietOf(u)
    BY <1>1, <1>5, OwnersNow DEF Sent
  <2>2. CASE IsReply(t)
    BY <1>2, <2>1, <2>2, StutterStep DEF Stutters
  <2>3. CASE ~ IsReply(t)
    <3>1. OwnerOf(t) = "peer" /\ QuietOf(t) = Window
      BY <1>5, <2>3, LearnAssumption
      DEF OwnerOf, QuietOf, IsReply, OneInitiator, Lapsed, Ages, Absent
    <3>2. Owners!HostSends(t)
      BY <1>3, <2>1, <2>3, <3>1 DEF Owners!HostSends, Reached
    <3> QED BY <3>2 DEF Owners!Next
  <2> QED BY <2>2, <2>3
<1> QED BY <1>4, <1>5

\* Time: an owner that has been silent for the window loses its tuple.
LEMMA AgingStep ==
  ASSUME AgesOK, OneInitiator, udpIn' = Aging(udpIn), udpOut' = Aging(udpOut), flows' = flows
  PROVE  [Owners!Next]_Owners!vars
<1> USE DEF AgesOK
<1>1. ASSUME NEW t \in Tuples
      PROVE  /\ OwnerOf(t)' = IF QuietOf(t) < Window THEN OwnerOf(t) ELSE "none"
             /\ QuietOf(t)' = IF QuietOf(t) < Window /\ OwnerOf(t) # "none"
                              THEN QuietOf(t) + 1 ELSE 0
  <2>1. CASE Lapsed(udpOut[t])
    BY <2>1, AgingAges, LearnAssumption DEF OwnerOf, QuietOf, Lapsed, Ages, Absent
  <2>2. CASE ~ Lapsed(udpOut[t])
    BY <2>2, AgingAges, LearnAssumption DEF OwnerOf, QuietOf, OneInitiator, Lapsed, Ages, Absent
  <2> QED BY <2>1, <2>2
<1>2. Owners!Pass
  BY <1>1, Mapping DEF Reached
<1> QED BY <1>2 DEF Owners!Next

\* Every step of learn is a step of FlowOwner or a stutter.
LEMMA OwnersStep ==
  ASSUME AgesOK, OneInitiator, [Next]_vars
  PROVE  [Owners!Next]_Owners!vars
<1>1. ASSUME Tables(udpIn, udpOut), Reached(flows)' = Reached(flows)
      PROVE  [Owners!Next]_Owners!vars
  <2>1. Stutters
    BY <1>1, OwnersNow, TablesOwn DEF Stutters, AgesOK
  <2> QED BY <2>1, StutterStep
<1>2. ASSUME NEW d \in Destinations, flows' = flows \cup {FlowTo(d.ip, d.port, "tcp")}
      PROVE  Reached(flows)' = Reached(flows)
  <2>1. Reached(flows)' = Reached(flows \cup {FlowTo(d.ip, d.port, "tcp")})
    BY <1>2 DEF Reached
  <2> QED BY <2>1, RecordedReaches
<1>3. flows' = flows => Reached(flows)' = Reached(flows)
  BY DEF Reached
<1> QED BY <1>1, <1>2, <1>3, HeardStep, SentStep, AgingStep, StepCases

\* The observer's two tables, with their sweep and their window, implement
\* FlowOwner: for every tuple at most one owner, who keeps it by sending, and no
\* reply of the host among its destinations (README.md:84-86).
THEOREM RefinementTheorem == Spec => ImplementsFlowOwner
<1>1. Init => Owners!Init
  BY OwnersInit
<1>2. Spec => [](AgesOK /\ OneInitiator)
  BY AgesInit, OneInitiatorStep, PTL DEF Spec
<1>3. AgesOK /\ OneInitiator /\ [Next]_vars => [Owners!Next]_Owners!vars
  BY OwnersStep
<1> QED BY <1>1, <1>2, <1>3, PTL DEF Spec, ImplementsFlowOwner, Owners!Spec

----------------------------------------------------------------------------
(* The file.                                                               *)

\* The output is opened once the loop has been told to end.
OpenedWhenStopped == pc \in {"open", "write"} => stop

\* No step opens the output before the loop has ended, or takes back its end.
LEMMA OpenedStep ==
  ASSUME OpenedWhenStopped, [Next]_vars
  PROVE  OpenedWhenStopped'
BY DEF OpenedWhenStopped, Next, vars, observer, UdpOut, UdpIn, TcpOut, Other, Iterate, Stop,
       LeaveLoop, ReadFails, OpenFile, WritePolicy, Crash, Tick

\* The old policy goes only when learning has been told to end, and a policy
\* that takes its place is one that Compile accepts.
THEOREM FileTheorem == Spec => FileIsReplacedAfterTheLoop
<1>1. Init => OpenedWhenStopped
  BY DEF Init, OpenedWhenStopped
<1>2. OpenedWhenStopped /\ [Next]_vars => OpenedWhenStopped'
  BY OpenedStep
<1>3. ASSUME OpenedWhenStopped, [Next]_vars, file' # file
      PROVE  /\ stop /\ pc \in {"open", "write"}
             /\ file'.is = "policy" => Compile(file'.policy).ok
  <2>1. OpenFile \/ WritePolicy
    BY <1>3 DEF Next, vars, observer, UdpOut, UdpIn, TcpOut, Other, Iterate, Stop, LeaveLoop,
               ReadFails, Crash, Tick
  <2>2. CASE OpenFile
    BY <1>3, <2>2 DEF OpenFile, EmptyFile, OpenedWhenStopped
  <2>3. CASE WritePolicy
    <3>1. /\ pc = "write"
          /\ \/ /\ Compile(Rendered(entries)).ok
                /\ file' \in {PolicyFile(Rendered(entries)), TornFile}
             \/ file' = file
      BY <2>3 DEF WritePolicy
    <3> QED BY <1>3, <3>1 DEF PolicyFile, TornFile, OpenedWhenStopped
  <2> QED BY <2>1, <2>2, <2>3
<1>4. OpenedWhenStopped /\ [Next]_vars
        => [file' # file => /\ stop /\ pc \in {"open", "write"}
                            /\ file'.is = "policy" => Compile(file'.policy).ok]_vars
  BY <1>3
<1> QED BY <1>1, <1>2, <1>4, PTL DEF Spec, FileIsReplacedAfterTheLoop
=============================================================================
