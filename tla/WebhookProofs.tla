---------------------------- MODULE WebhookProofs ---------------------------
(***************************************************************************)
(* The webhook is an alert sink, for any number of events and senders, any *)
(* queue length and any endpoint.                                          *)
(***************************************************************************)
EXTENDS Webhook, SequenceTheorems, TLAPS

----------------------------------------------------------------------------
(* The channel.                                                            *)

\* Sending adds the event to what is queued, and keeps it once.
LEMMA QueueAppend ==
  ASSUME NEW q \in Seq(Events), NEW e \in Events
  PROVE  /\ Append(q, e) \in Seq(Events) /\ Len(Append(q, e)) = Len(q) + 1
         /\ Range(Append(q, e)) = Range(q) \cup {e}
         /\ IsInjective(q) /\ e \notin Range(q) => IsInjective(Append(q, e))
<1> DEFINE r == Append(q, e)
<1>1. /\ r \in Seq(Events) /\ Len(r) = Len(q) + 1 /\ r[Len(q) + 1] = e
      /\ \A i \in 1..Len(q) : r[i] = q[i]
  BY AppendProperties
<1>2. Len(q) \in Nat /\ DOMAIN q = 1..Len(q) /\ DOMAIN r = 1..(Len(q) + 1)
  BY <1>1, LenProperties
<1> HIDE DEF r
<1>3. Range(r) = Range(q) \cup {e}
  <2>1. \A i \in DOMAIN q : i \in DOMAIN r /\ r[i] = q[i]
    BY <1>1, <1>2
  <2>2. \A i \in DOMAIN r : i \in DOMAIN q \/ r[i] = e
    BY <1>1, <1>2
  <2>3. Len(q) + 1 \in DOMAIN r
    BY <1>2
  <2> QED BY <1>1, <2>1, <2>2, <2>3 DEF Range
<1>4. ASSUME IsInjective(q), e \notin Range(q) PROVE IsInjective(r)
  <2>1. \A i \in 1..Len(q) : q[i] # e
    BY <1>2, <1>4 DEF Range
  <2> QED BY <1>1, <1>2, <1>4, <2>1 DEF IsInjective
<1> QED BY <1>1, <1>3, <1>4 DEF r

\* Receiving takes the oldest event off, and it is not there a second time.
LEMMA QueueTail ==
  ASSUME NEW q \in Seq(Events), q # <<>>
  PROVE  /\ Head(q) \in Events /\ Tail(q) \in Seq(Events) /\ Len(Tail(q)) <= Len(q)
         /\ Range(q) = Range(Tail(q)) \cup {Head(q)}
         /\ IsInjective(q) => IsInjective(Tail(q)) /\ Head(q) \notin Range(Tail(q))
<1> DEFINE r == Tail(q)
<1>1. /\ r \in Seq(Events) /\ Len(r) = Len(q) - 1 /\ Head(q) \in Events /\ Head(q) = q[1]
      /\ \A i \in 1..Len(r) : r[i] = q[i + 1]
  BY HeadTailProperties
<1>2. /\ Len(q) \in Nat /\ Len(q) # 0 /\ DOMAIN q = 1..Len(q)
      /\ Len(r) \in Nat /\ DOMAIN r = 1..Len(r)
  BY <1>1, LenProperties, EmptySeq
<1> HIDE DEF r
<1>3. Range(q) = Range(r) \cup {Head(q)}
  <2>1. \A i \in DOMAIN r : i + 1 \in DOMAIN q /\ r[i] = q[i + 1]
    BY <1>1, <1>2
  <2>2. \A i \in DOMAIN q : q[i] = Head(q) \/ \E j \in DOMAIN r : q[i] = r[j]
    <3> SUFFICES ASSUME NEW i \in 1..Len(q), i # 1 PROVE \E j \in DOMAIN r : q[i] = r[j]
      BY <1>1, <1>2
    <3>1. i - 1 \in 1..Len(r)
      BY <1>1, <1>2
    <3>2. r[i - 1] = q[(i - 1) + 1] /\ (i - 1) + 1 = i
      BY <1>1, <3>1
    <3> QED BY <1>2, <3>1, <3>2
  <2>3. 1 \in DOMAIN q
    BY <1>2
  <2> QED BY <1>1, <2>1, <2>2, <2>3 DEF Range
<1>4. ASSUME IsInjective(q) PROVE IsInjective(r) /\ Head(q) \notin Range(r)
  <2>1. \A i \in 1..Len(r) : i + 1 \in DOMAIN q /\ i + 1 # 1 /\ 1 \in DOMAIN q
    BY <1>1, <1>2
  <2>2. IsInjective(r)
    BY <1>1, <1>2, <1>4, <2>1 DEF IsInjective
  <2>3. \A i \in 1..Len(r) : r[i] # Head(q)
    BY <1>1, <1>4, <2>1 DEF IsInjective
  <2> QED BY <1>2, <2>2, <2>3 DEF Range
<1>5. Len(r) <= Len(q)
  BY <1>1, <1>2
<1> QED BY <1>1, <1>3, <1>4, <1>5 DEF r

\* An empty channel holds nothing, twice or once.
LEMMA QueueEmpty == Range(<< >>) = {} /\ IsInjective(<< >>)
  BY DEF Range, IsInjective

----------------------------------------------------------------------------
(* What a Send that found the queue full holds.                            *)

\* Taking an event in hand.
LEMMA HeldMore ==
  ASSUME TypeOK, NEW s \in Senders, NEW e, holding[s] = {},
         holding' = [holding EXCEPT ![s] = {e}]
  PROVE  Held' = Held \cup {e}
  BY DEF Held, TypeOK

\* Counting it.
LEMMA HeldLess ==
  ASSUME TypeOK, EventsAreApart, NEW s \in Senders, holding' = [holding EXCEPT ![s] = {}]
  PROVE  Held' = Held \ holding[s] /\ holding[s] \subseteq Held
<1>1. \A t \in Senders : t # s => holding'[t] = holding[t] /\ holding[t] \cap holding[s] = {}
  BY DEF TypeOK, EventsAreApart
<1>2. holding'[s] = {}
  BY DEF TypeOK
<1>3. holding[s] \subseteq Held
  BY DEF Held
<1> QED BY <1>1, <1>2, <1>3 DEF Held

----------------------------------------------------------------------------
(* The invariant, part by part.                                            *)

\* It holds when the webhook is made.
LEMMA InitIInv == Init => IInv
<1> SUFFICES ASSUME Init PROVE IInv
  OBVIOUS
<1>1. TypeOK
  <2>1. queue \in Seq(Events) /\ Len(queue) <= Queue
    BY WebhookAssumption DEF Init
  <2>2. inflight \in [refused : SUBSET Events, dropped : SUBSET Events]
    BY DEF Init, NoPayload
  <2>3. holding \in [Senders -> SUBSET Events]
    BY DEF Init
  <2> QED BY <2>1, <2>2, <2>3 DEF Init, TypeOK
<1>2. Held = {} /\ Queued = {} /\ Carried = {} /\ IsInjective(queue)
  BY QueueEmpty DEF Init, Held, Queued, Carried, NoPayload
<1>3. EventsAreApart
  BY <1>2 DEF Init, EventsAreApart, NoPayload
<1>4. PayloadIsWhole /\ EndIsClean
  BY <1>2 DEF Init, PayloadIsWhole, EndIsClean
<1> QED BY <1>1, <1>3, <1>4 DEF IInv

\* No step leaves its type, the channel its capacity.
LEMMA TypeStep == TypeOK /\ [Next]_vars => TypeOK'
<1> SUFFICES ASSUME TypeOK, [Next]_vars PROVE TypeOK'
  OBVIOUS
<1>1. ASSUME NEW s \in Senders, NEW e \in Events, Send(s, e) PROVE TypeOK'
  <2>1. CASE ~ closed /\ Room /\ queue' = Append(queue, e) /\ UNCHANGED <<holding, panicked>>
    <3>1. queue' \in Seq(Events) /\ Len(queue') <= Queue
      BY <2>1, QueueAppend, WebhookAssumption, LenProperties DEF Room, TypeOK
    <3> QED BY <1>1, <2>1, <3>1 DEF Send, TypeOK
  <2>2. CASE UNCHANGED <<queue, holding>> /\ panicked'
    BY <1>1, <2>2 DEF Send, TypeOK
  <2>3. CASE holding' = [holding EXCEPT ![s] = {e}] /\ UNCHANGED <<queue, panicked>>
    BY <1>1, <2>3 DEF Send, TypeOK
  <2> QED BY <1>1, <2>1, <2>2, <2>3 DEF Send
<1>2. ASSUME NEW s \in Senders, CountDrop(s) PROVE TypeOK'
  BY <1>2 DEF CountDrop, TypeOK
<1>3. CASE Receive
  <2>1. /\ Head(queue) \in Events /\ Tail(queue) \in Seq(Events)
        /\ Len(Tail(queue)) <= Queue
    BY <1>3, QueueTail, WebhookAssumption, LenProperties DEF Receive, TypeOK
  <2> QED BY <1>3, <2>1 DEF Receive, TypeOK
<1>4. CASE CloseChannel \/ CloseReturns \/ Wake
  BY <1>4 DEF CloseChannel, CloseReturns, Wake, TypeOK
<1>5. CASE TimerPosts \/ Drained
  <2>1. [refused |-> batch, dropped |-> dropped]
          \in [refused : SUBSET Events, dropped : SUBSET Events]
    BY DEF TypeOK
  <2>2. CASE TakePayload /\ loop' = "sending"
    BY <1>5, <2>1, <2>2 DEF TimerPosts, Drained, TakePayload, TypeOK
  <2>3. CASE loop' = "done" /\ UNCHANGED <<batch, dropped, inflight, attempt>>
    BY <1>5, <2>3 DEF TimerPosts, Drained, TypeOK
  <2> QED BY <1>5, <2>2, <2>3 DEF TimerPosts, Drained
<1>6. CASE Attempt
  BY <1>6 DEF Attempt, Accepted, Failed, PostReturns, Carried, NoPayload, TypeOK
<1>7. CASE UNCHANGED vars
  BY <1>7 DEF vars, TypeOK
<1> QED BY <1>1, <1>2, <1>3, <1>4, <1>5, <1>6, <1>7 DEF Next

\* A payload takes what there is; a retry sends the same again.
LEMMA WholeStep ==
  ASSUME TypeOK, EventsAreApart, PayloadIsWhole, EndIsClean, [Next]_vars
  PROVE  PayloadIsWhole'
<1>1. CASE UNCHANGED <<loop, inflight, reported>>
  BY <1>1 DEF PayloadIsWhole, Carried
<1>2. CASE TimerPosts \/ (Drained /\ batch # {})
  <2>1. /\ loop' = "sending" /\ inflight' = [refused |-> batch, dropped |-> dropped]
        /\ batch # {} /\ reported' = reported
    BY <1>2 DEF TimerPosts, Drained, TakePayload
  <2>2. inflight'.refused = batch /\ inflight'.dropped = dropped
    BY <2>1
  <2>3. Carried' = batch \cup dropped
    BY <2>2 DEF Carried
  <2> QED BY <2>1, <2>2, <2>3 DEF PayloadIsWhole, EventsAreApart
<1>3. CASE Drained /\ batch = {}
  <2>1. loop = "select" /\ loop' = "done" /\ UNCHANGED <<inflight, reported>>
    BY <1>3 DEF Drained
  <2> QED BY <2>1 DEF PayloadIsWhole, Carried
<1>4. CASE Attempt
  <2>1. CASE inflight' = NoPayload /\ loop' \in {"select", "done"}
    <3>1. Carried' = {}
      BY <2>1 DEF Carried, NoPayload
    <3> QED BY <2>1, <3>1 DEF PayloadIsWhole
  <2>2. CASE inflight' = inflight /\ loop' = "sleeping" /\ reported' \in {reported, reported \cup Carried}
    <3>1. Carried' = Carried
      BY <2>2 DEF Carried
    <3> QED BY <1>4, <2>2, <3>1 DEF PayloadIsWhole, Attempt
  <2> QED BY <1>4, <2>1, <2>2 DEF Attempt, Accepted, Failed, PostReturns
<1>5. CASE Wake
  <2>1. loop = "sleeping" /\ loop' = "sending" /\ UNCHANGED <<inflight, reported>>
    BY <1>5 DEF Wake
  <2> QED BY <2>1 DEF PayloadIsWhole, Carried
<1> QED
  BY <1>1, <1>2, <1>3, <1>4, <1>5
  DEF Next, vars, Send, CountDrop, CloseChannel, CloseReturns, Receive

\* The loop ends after the last post and with nothing left; only then does
\* Close return; and a Send after Close is the only way to panic.
LEMMA EndStep ==
  ASSUME TypeOK, EndIsClean, [Next]_vars
  PROVE  EndIsClean'
<1>1. ASSUME NEW s \in Senders, NEW e \in Events, Send(s, e) PROVE EndIsClean'
  BY <1>1 DEF Send, EndIsClean
<1>2. ASSUME NEW s \in Senders, CountDrop(s) PROVE EndIsClean'
  BY <1>2 DEF CountDrop, EndIsClean
<1>3. CASE CloseChannel \/ CloseReturns
  BY <1>3 DEF CloseChannel, CloseReturns, EndIsClean
<1>4. CASE Receive \/ TimerPosts
  BY <1>4 DEF Receive, TimerPosts, EndIsClean
<1>5. CASE Drained
  BY <1>5 DEF Drained, TakePayload, EndIsClean
<1>6. CASE Attempt
  BY <1>6 DEF Attempt, Accepted, Failed, PostReturns, EndIsClean
<1>7. CASE Wake
  BY <1>7 DEF Wake, EndIsClean
<1>8. CASE UNCHANGED vars
  BY <1>8 DEF vars, EndIsClean
<1> QED BY <1>1, <1>2, <1>3, <1>4, <1>5, <1>6, <1>7, <1>8 DEF Next

\* Every step moves events from one place to another.
LEMMA ApartStep ==
  ASSUME TypeOK, EventsAreApart, PayloadIsWhole, EndIsClean, [Next]_vars
  PROVE  EventsAreApart'
<1>1. ASSUME NEW s \in Senders, NEW e \in Events, Send(s, e) PROVE EventsAreApart'
  <2>1. /\ e \in unsent /\ unsent' = unsent \ {e} /\ holding[s] = {}
        /\ UNCHANGED <<batch, dropped, inflight, reported, missed>>
    BY <1>1 DEF Send, Idle
  <2>2. UNCHANGED Carried
    BY <2>1 DEF Carried
  <2>3. CASE UNCHANGED <<queue, holding>>
    <3>1. UNCHANGED <<Queued, Held>>
      BY <2>3 DEF Queued, Held
    <3> QED BY <2>1, <2>2, <2>3, <3>1 DEF EventsAreApart
  <2>4. CASE queue' = Append(queue, e) /\ UNCHANGED holding
    <3>1. Held' = Held
      BY <2>4 DEF Held
    <3>2. Queued' = Queued \cup {e} /\ IsInjective(queue')
      BY <2>1, <2>4, QueueAppend DEF TypeOK, EventsAreApart, Queued
    <3> QED BY <2>1, <2>2, <2>4, <3>1, <3>2 DEF EventsAreApart
  <2>5. CASE holding' = [holding EXCEPT ![s] = {e}] /\ UNCHANGED queue
    <3>1. Queued' = Queued
      BY <2>5 DEF Queued
    <3>2. Held' = Held \cup {e}
      BY <2>1, <2>5, HeldMore
    <3>3. \A r, t \in Senders : r # t => holding'[r] \cap holding'[t] = {}
      <4>1. \A r \in Senders : e \notin holding[r]
        BY <2>1 DEF EventsAreApart, Held
      <4> QED BY <2>1, <2>5, <4>1 DEF EventsAreApart, TypeOK
    <3> QED BY <2>1, <2>2, <2>5, <3>1, <3>2, <3>3 DEF EventsAreApart
  <2> QED BY <1>1, <2>3, <2>4, <2>5 DEF Send
<1>2. ASSUME NEW s \in Senders, CountDrop(s) PROVE EventsAreApart'
  <2>1. /\ dropped' = dropped \cup holding[s] /\ holding' = [holding EXCEPT ![s] = {}]
        /\ UNCHANGED <<unsent, queue, batch, inflight, reported, missed>>
    BY <1>2 DEF CountDrop
  <2>2. UNCHANGED <<Queued, Carried>>
    BY <2>1 DEF Queued, Carried
  <2>3. Held' = Held \ holding[s] /\ holding[s] \subseteq Held
    BY <2>1, HeldLess
  <2>4. \A r, t \in Senders : r # t => holding'[r] \cap holding'[t] = {}
    BY <2>1 DEF EventsAreApart, TypeOK
  <2> QED BY <2>1, <2>2, <2>3, <2>4 DEF EventsAreApart
<1>3. CASE Receive
  <2>1. /\ queue # <<>> /\ batch' = batch \cup {Head(queue)} /\ queue' = Tail(queue)
        /\ UNCHANGED <<unsent, holding, dropped, inflight, reported, missed>>
    BY <1>3 DEF Receive
  <2>2. UNCHANGED <<Held, Carried>>
    BY <2>1 DEF Held, Carried
  <2>3. /\ Queued = Queued' \cup {Head(queue)} /\ Head(queue) \notin Queued'
        /\ IsInjective(queue')
    BY <2>1, QueueTail DEF TypeOK, EventsAreApart, Queued
  <2> QED BY <2>1, <2>2, <2>3 DEF EventsAreApart
<1>4. CASE TimerPosts \/ (Drained /\ batch # {})
  <2>1. /\ loop = "select" /\ inflight' = [refused |-> batch, dropped |-> dropped]
        /\ batch' = {} /\ dropped' = {}
        /\ UNCHANGED <<unsent, queue, holding, reported, missed>>
    BY <1>4 DEF TimerPosts, Drained, TakePayload
  <2>2. UNCHANGED <<Queued, Held>>
    BY <2>1 DEF Queued, Held
  <2>3. inflight'.refused = batch /\ inflight'.dropped = dropped /\ Carried' = batch \cup dropped
    BY <2>1 DEF Carried
  <2> QED BY <2>1, <2>2, <2>3 DEF EventsAreApart
<1>5. CASE Attempt
  <2>1. /\ UNCHANGED <<unsent, queue, holding, batch, dropped>>
        /\ reported' \in {reported, reported \cup Carried}
        /\ \/ inflight' = inflight /\ missed' = missed
           \/ inflight' = NoPayload /\ missed' \in {missed, missed \cup (Carried \ reported')}
    BY <1>5 DEF Attempt, Accepted, Failed, PostReturns
  <2>2. UNCHANGED <<Queued, Held>>
    BY <2>1 DEF Queued, Held
  <2>3. CASE inflight' = inflight /\ missed' = missed
    <3>1. Carried' = Carried
      BY <2>3 DEF Carried
    <3> QED BY <2>1, <2>2, <2>3, <3>1 DEF EventsAreApart
  <2>4. CASE inflight' = NoPayload /\ missed' \in {missed, missed \cup (Carried \ reported')}
    <3>1. Carried' = {} /\ inflight'.refused = {} /\ inflight'.dropped = {}
      BY <2>4 DEF Carried, NoPayload
    <3> QED BY <2>1, <2>2, <2>4, <3>1 DEF EventsAreApart
  <2> QED BY <2>1, <2>3, <2>4
<1>6. CASE UNCHANGED <<unsent, queue, holding, batch, dropped, inflight, reported, missed>>
  <2>1. UNCHANGED <<Queued, Held, Carried>>
    BY <1>6 DEF Queued, Held, Carried
  <2> QED BY <1>6, <2>1 DEF EventsAreApart
<1> QED
  BY <1>1, <1>2, <1>3, <1>4, <1>5, <1>6
  DEF Next, vars, CloseChannel, CloseReturns, Drained, Wake

\* The parts together.
LEMMA NextIInv == IInv /\ [Next]_vars => IInv'
  BY TypeStep, ApartStep, WholeStep, EndStep DEF IInv

\* The strengthening the theorems below rest on.
THEOREM InvariantHolds == Spec => []IInv
  BY InitIInv, NextIInv, PTL DEF Spec

\* Types and the channel's capacity, for every queue length and any senders.
THEOREM TypesHold == Spec => []TypeOK
<1>1. IInv => TypeOK
  BY DEF IInv
<1> QED BY <1>1, InvariantHolds, PTL

\* Close flushes: whoever closes after the last Send leaves nothing in the
\* channel, in the batch or under way, whatever the endpoint did.
THEOREM CloseFlushes == SendersQuiesce /\ Spec => []CloseFlushesWhatIsPending
<1>1. SendersQuiesce /\ IInv => CloseFlushesWhatIsPending
  BY DEF IInv, EndIsClean, PayloadIsWhole, CloseFlushesWhatIsPending
<1> QED
  <2>1. CASE SendersQuiesce
    <3>1. IInv => CloseFlushesWhatIsPending
      BY <1>1, <2>1
    <3> QED BY <3>1, InvariantHolds, PTL
  <2>2. CASE ~ SendersQuiesce
    BY <2>2
  <2> QED BY <2>1, <2>2

----------------------------------------------------------------------------
(* The webhook implements the sink.                                        *)

Waiting == Queued \cup batch \cup (inflight.refused \ reported)
Tally   == Held \cup dropped \cup (inflight.dropped \ reported)

\* The sink's steps over the webhook's state, spelled out.
LEMMA SinkSteps ==
  /\ \A e \in Events : Sink!Accept(e) <=>
       /\ e \notin Waiting \cup Tally \cup reported \cup missed
       /\ Waiting' = Waiting \cup {e} /\ UNCHANGED <<Tally, reported, missed>>
  /\ \A e \in Events : Sink!Drop(e) <=>
       /\ e \notin Waiting \cup Tally \cup reported \cup missed
       /\ Tally' = Tally \cup {e} /\ UNCHANGED <<Waiting, reported, missed>>
  /\ \A r \in SUBSET Waiting, d \in SUBSET Tally :
       /\ r # {} /\ Waiting' = Waiting \ r /\ Tally' = Tally \ d
       /\ \/ reported' = reported \cup r \cup d /\ UNCHANGED missed
          \/ missed' = missed \cup r \cup d /\ UNCHANGED reported
       => Sink!Next
  /\ UNCHANGED <<Waiting, Tally, reported, missed>> => UNCHANGED Sink!vars
  BY DEF Sink!Accept, Sink!Drop, Sink!Next, Sink!Request, Sink!Report, Sink!Miss, Sink!Known,
         Sink!vars, Waiting, Tally, Queued

\* A webhook just made is a sink that knows of nothing.
LEMMA InitSink == Init => Sink!Init
<1> SUFFICES ASSUME Init PROVE Sink!Init
  OBVIOUS
<1>1. Held = {} /\ Range(queue) = {} /\ inflight.refused = {} /\ inflight.dropped = {}
  BY QueueEmpty DEF Init, Held, NoPayload
<1> QED BY <1>1 DEF Init, Sink!Init

\* Every step of senders, loop and closer is a step of the sink, or none of
\* its business.
LEMMA NextSink == IInv /\ IInv' /\ [Next]_vars => [Sink!Next]_(Sink!vars)
<1> SUFFICES ASSUME IInv, IInv', [Next]_vars PROVE Sink!Next \/ UNCHANGED Sink!vars
  OBVIOUS
<1> USE DEF IInv
<1>1. ASSUME NEW s \in Senders, NEW e \in Events, Send(s, e)
      PROVE  Sink!Next \/ UNCHANGED Sink!vars
  <2>1. /\ e \in unsent /\ holding[s] = {}
        /\ UNCHANGED <<batch, dropped, inflight, reported, missed>>
    BY <1>1 DEF Send, Idle
  <2>2. e \notin Waiting \cup Tally \cup reported \cup missed
    BY <2>1 DEF EventsAreApart, Waiting, Tally, Carried
  <2>3. CASE UNCHANGED <<queue, holding>>
    <3>1. UNCHANGED <<Waiting, Tally>>
      BY <2>1, <2>3 DEF Waiting, Tally, Queued, Held
    <3> QED BY <2>1, <3>1, SinkSteps
  <2>4. CASE queue' = Append(queue, e) /\ UNCHANGED holding
    <3>1. Queued' = Queued \cup {e} /\ Held' = Held
      BY <2>4, QueueAppend DEF TypeOK, Queued, Held
    <3>2. Waiting' = Waiting \cup {e} /\ Tally' = Tally
      BY <2>1, <3>1 DEF Waiting, Tally
    <3>3. Sink!Accept(e)
      BY <2>1, <2>2, <3>2, SinkSteps
    <3> QED BY <3>3 DEF Sink!Next
  <2>5. CASE holding' = [holding EXCEPT ![s] = {e}] /\ UNCHANGED queue
    <3>1. Held' = Held \cup {e} /\ Queued' = Queued
      BY <2>1, <2>5, HeldMore DEF Queued
    <3>2. Tally' = Tally \cup {e} /\ Waiting' = Waiting
      BY <2>1, <3>1 DEF Waiting, Tally
    <3>3. Sink!Drop(e)
      BY <2>1, <2>2, <3>2, SinkSteps
    <3> QED BY <3>3 DEF Sink!Next
  <2> QED BY <1>1, <2>3, <2>4, <2>5 DEF Send
<1>2. ASSUME NEW s \in Senders, CountDrop(s) PROVE UNCHANGED Sink!vars
  <2>1. /\ dropped' = dropped \cup holding[s] /\ holding' = [holding EXCEPT ![s] = {}]
        /\ UNCHANGED <<queue, batch, inflight, reported, missed>>
    BY <1>2 DEF CountDrop
  <2>2. Held' = Held \ holding[s] /\ holding[s] \subseteq Held
    BY <2>1, HeldLess
  <2>3. UNCHANGED <<Waiting, Tally>>
    BY <2>1, <2>2 DEF Waiting, Tally, Queued
  <2> QED BY <2>1, <2>3, SinkSteps
<1>3. CASE Receive
  <2>1. /\ queue # <<>> /\ batch' = batch \cup {Head(queue)} /\ queue' = Tail(queue)
        /\ UNCHANGED <<holding, dropped, inflight, reported, missed>>
    BY <1>3 DEF Receive
  <2>2. Queued = Queued' \cup {Head(queue)} /\ Held' = Held
    BY <2>1, QueueTail DEF TypeOK, Queued, Held
  <2>3. UNCHANGED <<Waiting, Tally>>
    BY <2>1, <2>2 DEF Waiting, Tally
  <2> QED BY <2>1, <2>3, SinkSteps
<1>4. CASE TimerPosts \/ (Drained /\ batch # {})
  <2>1. /\ loop = "select" /\ inflight' = [refused |-> batch, dropped |-> dropped]
        /\ batch' = {} /\ dropped' = {}
        /\ UNCHANGED <<queue, holding, reported, missed>>
    BY <1>4 DEF TimerPosts, Drained, TakePayload
  <2>2. /\ inflight'.refused = batch /\ inflight'.dropped = dropped
        /\ inflight.refused = {} /\ inflight.dropped = {}
        /\ UNCHANGED <<Queued, Held>>
    BY <2>1 DEF Queued, Held, PayloadIsWhole, NoPayload
  <2>3. UNCHANGED <<Waiting, Tally>>
    BY <2>1, <2>2 DEF Waiting, Tally, EventsAreApart
  <2> QED BY <2>1, <2>3, SinkSteps
<1>5. CASE Attempt
  <2> DEFINE r == inflight.refused
             d == inflight.dropped
  <2>1. /\ UNCHANGED <<queue, holding, batch, dropped>> /\ loop = "sending"
        /\ \/ missed' = missed /\ reported' \in {reported, reported \cup Carried}
              /\ (inflight' = inflight \/ (inflight' = NoPayload /\ reported' = reported \cup Carried))
           \/ missed' = missed \cup (Carried \ reported')
              /\ reported' \in {reported, reported \cup Carried}
              /\ inflight' = NoPayload
    BY <1>5 DEF Attempt, Accepted, Failed, PostReturns
  <2>2. UNCHANGED <<Queued, Held>> /\ r # {} /\ Carried = r \cup d
    BY <2>1 DEF Queued, Held, PayloadIsWhole, Carried
  <2>3. r \cap (Queued \cup batch) = {} /\ d \cap (Held \cup dropped) = {}
    BY <2>2 DEF EventsAreApart
  <2>4. CASE Carried \subseteq reported
    <3>1. reported' = reported /\ missed' = missed /\ Waiting' = Waiting /\ Tally' = Tally
      <4>1. reported' = reported /\ missed' = missed
        BY <2>1, <2>4
      <4>2. r \ reported = {} /\ d \ reported = {}
        BY <2>2, <2>4
      <4>3. inflight'.refused \ reported' = {} /\ inflight'.dropped \ reported' = {}
        BY <2>1, <4>1, <4>2 DEF NoPayload
      <4> QED BY <2>1, <2>2, <4>1, <4>2, <4>3 DEF Waiting, Tally
    <3> QED BY <3>1, SinkSteps
  <2>5. CASE Carried \cap reported = {}
    <3>1. r \in SUBSET Waiting /\ d \in SUBSET Tally
      BY <2>2, <2>5 DEF Waiting, Tally
    <3>2. CASE reported' = reported \cup Carried
      <4>1. missed' = missed
        BY <2>1, <3>2
      <4>2. inflight'.refused \ reported' = {} /\ inflight'.dropped \ reported' = {}
        BY <2>1, <2>2, <3>2 DEF NoPayload
      <4>3. Waiting' = Waiting \ r /\ Tally' = Tally \ d
        BY <2>1, <2>2, <2>3, <4>2 DEF Waiting, Tally
      <4>4. reported' = reported \cup r \cup d
        BY <2>2, <3>2
      <4> QED BY <2>2, <3>1, <4>1, <4>3, <4>4, SinkSteps
    <3>3. CASE reported' = reported /\ inflight' = NoPayload /\ missed' = missed \cup (Carried \ reported')
      <4>1. missed' = missed \cup r \cup d
        BY <2>2, <2>5, <3>3
      <4>2. inflight'.refused = {} /\ inflight'.dropped = {}
        BY <3>3 DEF NoPayload
      <4>3. Waiting' = Waiting \ r /\ Tally' = Tally \ d
        BY <2>1, <2>2, <2>3, <2>5, <3>3, <4>2 DEF Waiting, Tally
      <4> QED BY <2>2, <3>1, <3>3, <4>1, <4>3, SinkSteps
    <3>4. CASE reported' = reported /\ inflight' = inflight /\ missed' = missed
      <4>1. UNCHANGED <<Waiting, Tally>>
        BY <2>1, <2>2, <3>4 DEF Waiting, Tally
      <4> QED BY <3>4, <4>1, SinkSteps
    <3> QED BY <2>1, <2>2, <3>2, <3>3, <3>4
  <2> QED BY <2>4, <2>5 DEF PayloadIsWhole
<1>6. CASE UNCHANGED <<queue, holding, batch, dropped, inflight, reported, missed>>
  <2>1. UNCHANGED <<Waiting, Tally>>
    BY <1>6 DEF Waiting, Tally, Queued, Held
  <2> QED BY <1>6, <2>1, SinkSteps
<1> QED
  BY <1>1, <1>2, <1>3, <1>4, <1>5, <1>6
  DEF Next, vars, CloseChannel, CloseReturns, Drained, Wake

\* The webhook is an alert sink: whatever senders, timer, retries and Close do,
\* an event is reported once, counted once, or given up with its request.
THEOREM WebhookImplementsSink == Spec => ImplementsSink
  BY InvariantHolds, InitSink, NextSink, PTL DEF Spec, ImplementsSink, Sink!Spec

\* So the endpoint's sums are right: an event known to the webhook is waiting,
\* counted as dropped, reported or given up, and only one of these.
THEOREM WebhookCountsOnce == Spec => []Sink!CountedOnce
<1>1. IInv => Sink!CountedOnce
  BY DEF IInv, EventsAreApart, PayloadIsWhole, Carried, Sink!CountedOnce, Queued
<1> QED BY <1>1, InvariantHolds, PTL
=============================================================================
