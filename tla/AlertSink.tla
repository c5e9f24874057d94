------------------------------ MODULE AlertSink -----------------------------
(***************************************************************************)
(* What an alert sink promises (internal/alert/alert.go:1-4 and the Sink   *)
(* interface), whatever carries the alerts: an event handed in is either   *)
(* waiting to be reported or counted as dropped, at once and for good; a   *)
(* request reports waiting events together with drops counted so far; an   *)
(* event is reported, or given up with the request that carried it.        *)
(***************************************************************************)
EXTENDS Naturals

CONSTANT Events

VARIABLES
  waiting,   \* accepted, not yet in a request that ended
  tally,     \* counted as dropped, the count not yet in a request that ended
  reported,  \* what requests that reached the endpoint carried
  missed     \* what requests given up carried

vars == <<waiting, tally, reported, missed>>

Known == waiting \cup tally \cup reported \cup missed

Init == waiting = {} /\ tally = {} /\ reported = {} /\ missed = {}

Accept(e) ==
  /\ e \notin Known
  /\ waiting' = waiting \cup {e}
  /\ UNCHANGED <<tally, reported, missed>>

Drop(e) ==
  /\ e \notin Known
  /\ tally' = tally \cup {e}
  /\ UNCHANGED <<waiting, reported, missed>>

\* A request with nothing refused is never made: the count needs a carrier.
Request(refused, dropped) ==
  /\ refused # {}
  /\ refused \subseteq waiting /\ dropped \subseteq tally
  /\ waiting' = waiting \ refused /\ tally' = tally \ dropped

Report(refused, dropped) ==
  /\ Request(refused, dropped)
  /\ reported' = reported \cup refused \cup dropped
  /\ UNCHANGED missed

Miss(refused, dropped) ==
  /\ Request(refused, dropped)
  /\ missed' = missed \cup refused \cup dropped
  /\ UNCHANGED reported

Next ==
  \/ \E e \in Events : Accept(e) \/ Drop(e)
  \/ \E refused \in SUBSET waiting, dropped \in SUBSET tally :
       Report(refused, dropped) \/ Miss(refused, dropped)

Spec == Init /\ [][Next]_vars

\* Every known event is in exactly one place: nothing is counted twice.
CountedOnce ==
  /\ waiting \cap tally = {} /\ reported \cap missed = {}
  /\ (waiting \cup tally) \cap (reported \cup missed) = {}
=============================================================================
