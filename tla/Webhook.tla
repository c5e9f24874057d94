------------------------------- MODULE Webhook ------------------------------
(***************************************************************************)
(* internal/alert/webhook.go: goroutines that Send, the loop that coalesces*)
(* and posts, and Close.                                                   *)
(*                                                                         *)
(* Events are distinct (two refusals of one process differ in At), and a   *)
(* count is the set of the events it counts: the batch, whose groups are   *)
(* its events by key, and the dropped counter.                             *)
(***************************************************************************)
EXTENDS Integers, FiniteSets, Sequences, SequencesExt

CONSTANTS
  Events,           \* bound: the events there are to send
  Senders,          \* goroutines that call Send
  Queue,            \* capacity of the channel
  EndpointMayFail,  \* whether a request may fail
  SendersQuiesce    \* whoever closes knows that no Send runs or will run

ASSUME WebhookAssumption ==
  /\ Queue \in Nat \ {0}
  /\ EndpointMayFail \in BOOLEAN /\ SendersQuiesce \in BOOLEAN

VARIABLES
  unsent,    \* events that have not happened yet
  queue,     \* the channel's buffer
  closed,    \* the channel is closed
  holding,   \* per sender: at most the one event that found the queue full
  batch,     \* the loop's batch
  dropped,   \* the drops counted since the last payload
  loop,      \* where the loop is
  final,     \* the post under way is the last
  inflight,  \* the payload of the post under way
  attempt,   \* attempts made at it
  closer,    \* "open", "waiting" in Close, "closed" once it returned
  panicked,  \* a Send hit the closed channel: the process is gone
  reported,  \* events in payloads the endpoint received
  missed     \* events in payloads given up, never received

vars == <<unsent, queue, closed, holding, batch, dropped, loop, final, inflight, attempt,
          closer, panicked, reported, missed>>

NoPayload == [refused |-> {}, dropped |-> {}]

Init ==
  /\ unsent = Events
  /\ queue = <<>> /\ closed = FALSE
  /\ holding = [s \in Senders |-> {}]
  /\ batch = {} /\ dropped = {}
  /\ loop = "select" /\ final = FALSE /\ inflight = NoPayload /\ attempt = 0
  /\ closer = "open" /\ panicked = FALSE
  /\ reported = {} /\ missed = {}

----------------------------------------------------------------------------
(* Send: the select, then, when the queue was full, the locked increment.  *)

Idle(s) == holding[s] = {}

\* Mutant: the buffer takes one event too many.
RoomForOneMore == Len(queue) <= Queue

Room == Len(queue) < Queue

Send(s, e) ==
  /\ ~ panicked /\ Idle(s) /\ e \in unsent
  /\ SendersQuiesce => closer = "open"
  /\ unsent' = unsent \ {e}
  /\ \/ closed /\ panicked' = TRUE /\ UNCHANGED <<queue, holding>>
     \/ /\ ~ closed /\ Room
        /\ queue' = Append(queue, e)
        /\ UNCHANGED <<holding, panicked>>
     \/ /\ ~ closed /\ ~ Room
        /\ holding' = [holding EXCEPT ![s] = {e}]
        /\ UNCHANGED <<queue, panicked>>
  /\ UNCHANGED <<closed, batch, dropped, loop, final, inflight, attempt, closer, reported, missed>>

CountDrop(s) ==
  /\ ~ panicked /\ ~ Idle(s)
  /\ dropped' = dropped \cup holding[s]
  /\ holding' = [holding EXCEPT ![s] = {}]
  /\ UNCHANGED <<unsent, queue, closed, batch, loop, final, inflight, attempt, closer, panicked,
                 reported, missed>>

----------------------------------------------------------------------------
(* Close.                                                                  *)

CloseChannel ==
  /\ ~ panicked /\ closer = "open"
  /\ SendersQuiesce => \A s \in Senders : Idle(s)
  /\ closed' = TRUE /\ closer' = "waiting"
  /\ UNCHANGED <<unsent, queue, holding, batch, dropped, loop, final, inflight, attempt, panicked,
                 reported, missed>>

CloseReturns ==
  /\ ~ panicked /\ closer = "waiting" /\ loop = "done"
  /\ closer' = "closed"
  /\ UNCHANGED <<unsent, queue, closed, holding, batch, dropped, loop, final, inflight, attempt,
                 panicked, reported, missed>>

----------------------------------------------------------------------------
(* The loop.                                                               *)

Receive ==
  /\ ~ panicked /\ loop = "select" /\ queue # <<>>
  /\ batch' = batch \cup {Head(queue)}
  /\ queue' = Tail(queue)
  /\ UNCHANGED <<unsent, closed, holding, dropped, loop, final, inflight, attempt, closer,
                 panicked, reported, missed>>

\* Mutant: the count is not reset.
TakePayloadKeepingCount ==
  /\ inflight' = [refused |-> batch, dropped |-> dropped]
  /\ batch' = {} /\ dropped' = dropped
  /\ attempt' = 0

\* Mutant: the batch is emptied before the payload is made of it.
TakePayloadTooLate ==
  /\ inflight' = [refused |-> {}, dropped |-> dropped]
  /\ batch' = {} /\ dropped' = {}
  /\ attempt' = 0

\* post's head: the payload takes the batch and the count, under the lock.
TakePayload ==
  /\ inflight' = [refused |-> batch, dropped |-> dropped]
  /\ batch' = {} /\ dropped' = {}
  /\ attempt' = 0

\* The timer fires with something to say; with nothing it is just re-armed.
TimerPosts ==
  /\ ~ panicked /\ loop = "select" /\ batch # {}
  /\ TakePayload
  /\ loop' = "sending"
  /\ UNCHANGED <<unsent, queue, closed, holding, final, closer, panicked, reported, missed>>

\* Mutant: the loop returns as soon as the channel is closed and drained.
DrainedUnposted ==
  /\ ~ panicked /\ loop = "select" /\ closed /\ queue = <<>>
  /\ final' = TRUE /\ loop' = "done"
  /\ UNCHANGED <<unsent, queue, closed, holding, batch, dropped, inflight, attempt, closer,
                 panicked, reported, missed>>

\* The channel is closed and drained: the last post, nothing at all if the
\* batch is empty.
Drained ==
  /\ ~ panicked /\ loop = "select" /\ closed /\ queue = <<>>
  /\ final' = TRUE
  /\ IF batch = {}
     THEN loop' = "done" /\ UNCHANGED <<batch, dropped, inflight, attempt>>
     ELSE loop' = "sending" /\ TakePayload
  /\ UNCHANGED <<unsent, queue, closed, holding, closer, panicked, reported, missed>>

Carried == inflight.refused \cup inflight.dropped

PostReturns ==
  /\ loop' = IF final THEN "done" ELSE "select"
  /\ inflight' = NoPayload /\ attempt' = 0

Accepted ==
  /\ reported' = reported \cup Carried
  /\ PostReturns
  /\ UNCHANGED missed

\* Mutant: retried for ever.
FailedAgain ==
  /\ EndpointMayFail
  /\ reported' \in {reported, reported \cup Carried}
  /\ loop' = "sleeping" /\ attempt' = 1
  /\ UNCHANGED <<inflight, missed>>

\* An error, after which the endpoint may nevertheless have the payload.
Failed ==
  /\ EndpointMayFail
  /\ reported' \in {reported, reported \cup Carried}
  /\ IF attempt = 0
     THEN loop' = "sleeping" /\ attempt' = 1 /\ UNCHANGED <<inflight, missed>>
     ELSE missed' = missed \cup (Carried \ reported') /\ PostReturns

Attempt ==
  /\ ~ panicked /\ loop = "sending"
  /\ Accepted \/ Failed
  /\ UNCHANGED <<unsent, queue, closed, holding, batch, dropped, final, closer, panicked>>

Wake ==
  /\ ~ panicked /\ loop = "sleeping"
  /\ loop' = "sending"
  /\ UNCHANGED <<unsent, queue, closed, holding, batch, dropped, final, inflight, attempt, closer,
                 panicked, reported, missed>>

Next ==
  \/ \E s \in Senders : CountDrop(s) \/ \E e \in Events : Send(s, e)
  \/ CloseChannel \/ CloseReturns
  \/ Receive \/ TimerPosts \/ Drained \/ Attempt \/ Wake

Spec == Init /\ [][Next]_vars

\* The loop's goroutine runs, its timer fires, its requests end (15 s at
\* most), and Send and Close run to their ends once called.
FairSpec ==
  /\ Spec
  /\ WF_vars(Receive \/ Drained) /\ WF_vars(TimerPosts)
  /\ WF_vars(Attempt) /\ WF_vars(Wake)
  /\ WF_vars(CloseReturns)
  /\ \A s \in Senders : WF_vars(CountDrop(s))

----------------------------------------------------------------------------
(* Properties.                                                             *)

TypeOK ==
  /\ unsent \subseteq Events
  /\ queue \in Seq(Events) /\ Len(queue) <= Queue
  /\ closed \in BOOLEAN
  /\ holding \in [Senders -> SUBSET Events]
  /\ batch \subseteq Events /\ dropped \subseteq Events
  /\ loop \in {"select", "sending", "sleeping", "done"}
  /\ final \in BOOLEAN
  /\ inflight \in [refused : SUBSET Events, dropped : SUBSET Events]
  /\ attempt \in {0, 1}
  /\ closer \in {"open", "waiting", "closed"}
  /\ panicked \in BOOLEAN
  /\ reported \subseteq Events /\ missed \subseteq Events

Held == UNION {holding[s] : s \in Senders}

\* alert.go:1-4 as a specification.  What waits is in the channel, the batch
\* or a payload not yet received; a drop counts from the moment Send finds the
\* queue full, whatever the loop posts before Send has the lock.
Sink == INSTANCE AlertSink WITH
  waiting <- Range(queue) \cup batch \cup (inflight.refused \ reported),
  tally   <- Held \cup dropped \cup (inflight.dropped \ reported)

\* No interleaving of senders, loop and closer reports an event in two
\* payloads, counts one twice or leaves one out: the webhook is an alert sink.
ImplementsSink == Sink!Spec

\* "Close flushes what is pending and stops the loop" (webhook.go:108): when
\* the process is done with the webhook, no accepted event is left behind.
CloseFlushesWhatIsPending ==
  closer = "closed" \/ panicked =>
    queue = <<>> /\ batch = {} /\ inflight = NoPayload

\* "never lose the count of what was dropped" (alert.go:2): with an endpoint
\* that takes every request, a drop that was counted is in the counter of a
\* running loop, in a payload or at the endpoint.
NeverLosesTheCount ==
  loop = "done" => dropped = {}

\* An event in the channel is in a request sooner or later, with senders and
\* the timer racing for the loop, unless the process dies.
QueuedIsPosted ==
  \A e \in Events : (e \in Range(queue)) ~> (e \in reported \cup missed \/ panicked)

\* Close comes back, however full the queue and however bad the endpoint.
CloseTerminates == (closer = "waiting") ~> (closer = "closed" \/ panicked)

----------------------------------------------------------------------------
(* The inductive invariant.                                                *)

Queued == Range(queue)

\* No event is in two places, nor twice in the channel; what a request that
\* was believed lost has delivered may be sent again.
EventsAreApart ==
  /\ IsInjective(queue)
  /\ \A s, t \in Senders : s # t => holding[s] \cap holding[t] = {}
  /\ unsent \cap (Queued \cup batch \cup Held \cup dropped \cup Carried \cup reported \cup missed) = {}
  /\ Queued \cap (batch \cup Held \cup dropped \cup Carried \cup reported \cup missed) = {}
  /\ batch \cap (Held \cup dropped \cup Carried \cup reported \cup missed) = {}
  /\ Held \cap (dropped \cup Carried \cup reported \cup missed) = {}
  /\ dropped \cap (Carried \cup reported \cup missed) = {}
  /\ inflight.refused \cap inflight.dropped = {}
  /\ missed \cap (Carried \cup reported) = {}

\* A payload under way has an event, and has been received whole or not at all.
PayloadIsWhole ==
  /\ IF loop \in {"sending", "sleeping"} THEN inflight.refused # {} ELSE inflight = NoPayload
  /\ Carried \subseteq reported \/ Carried \cap reported = {}

\* The last post is made of all there is, and nothing comes after it.
EndIsClean ==
  /\ closed <=> closer # "open"
  /\ final => closed /\ queue = <<>> /\ batch = {} /\ loop # "select"
  /\ loop = "done" => final
  /\ closer = "closed" => loop = "done"
  /\ SendersQuiesce => ~ panicked

\* The inductive invariant behind ImplementsSink and CloseFlushesWhatIsPending:
\* senders, counter, loop, retry and closer hand each event over, never copy it.
IInv == TypeOK /\ EventsAreApart /\ PayloadIsWhole /\ EndIsClean
=============================================================================
