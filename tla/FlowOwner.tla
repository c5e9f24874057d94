----------------------------- MODULE FlowOwner ------------------------------
(***************************************************************************)
(* What the observer promises of UDP: a tuple has at most one owner, who   *)
(* sent first after a silence and keeps the tuple while no more than       *)
(* Window passes between two of its packets.  Only what the host sends     *)
(* when the tuple is not the peer's counts as a destination.               *)
(***************************************************************************)
EXTENDS Naturals

CONSTANTS Tuples, Window,
          Dest     \* the destination of each tuple

VARIABLES owner,     \* who owns each tuple
          quiet,     \* time since the owner's last packet
          reached    \* destinations counted

vars == <<owner, quiet, reached>>

Init ==
  /\ owner = [t \in Tuples |-> "none"]
  /\ quiet = [t \in Tuples |-> 0]
  /\ reached = {}

Take(t, who) ==
  /\ owner' = [owner EXCEPT ![t] = who]
  /\ quiet' = [quiet EXCEPT ![t] = 0]

\* What the peer sends on the host's tuple is a reply.
PeerSends(t) ==
  /\ IF owner[t] = "host" THEN UNCHANGED <<owner, quiet>> ELSE Take(t, "peer")
  /\ UNCHANGED reached

\* What the host sends on the peer's tuple is a reply, but at the last moment
\* of the window it counts, and the tuple remains the peer's.
HostSends(t) ==
  \/ owner[t] = "peer" /\ quiet[t] < Window /\ UNCHANGED vars
  \/ /\ owner[t] = "peer" /\ quiet[t] = Window
     /\ reached' = reached \cup {Dest[t]}
     /\ UNCHANGED <<owner, quiet>>
  \/ /\ owner[t] # "peer"
     /\ Take(t, "host")
     /\ reached' = reached \cup {Dest[t]}

Pass ==
  /\ owner' = [t \in Tuples |-> IF quiet[t] < Window THEN owner[t] ELSE "none"]
  /\ quiet' = [t \in Tuples |-> IF quiet[t] < Window /\ owner[t] # "none" THEN quiet[t] + 1 ELSE 0]
  /\ UNCHANGED reached

Next == Pass \/ \E t \in Tuples : PeerSends(t) \/ HostSends(t)

Spec == Init /\ [][Next]_vars
=============================================================================
