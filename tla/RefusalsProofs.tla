---------------------------- MODULE RefusalsProofs --------------------------
(***************************************************************************)
(* What becomes of a refusal, and of a flow a dry run passes over, for     *)
(* every policy, rule names, flows, answers, ring size and prefix length.  *)
(***************************************************************************)
EXTENDS Refusals, MinProofs, SequenceTheorems, TLAPS

Indexes == {0} \cup DOMAIN Rules

Lines   == {LineOf(i) : i \in Indexes} \cup {<<"ufw", "DST">>}
Records == [id : Nat, text : Lines, ip : {Unmap(f.ip) : f \in Flows}, by : Indexes]

\* Every record of a refusal is of one that was logged, and holds its line.
RingOK ==
  /\ ring \in Seq(Records) /\ refused \in Seq(Indexes)
  /\ \A i \in DOMAIN ring :
       \/ ring[i].id = 0
       \/ ring[i].id \in DOMAIN refused /\ ring[i].text = LineOf(refused[ring[i].id])

\* Before it reads, the goroutine has nothing in hand.
HandOK ==
  /\ event = [id |-> event.id, rule |-> event.rule, ip |-> event.ip, host |-> event.host,
              by |-> event.by]
  /\ tail = "read" => event.id = 0

Slots == {Destination(f) : f \in Flows}

\* What a flow to the destination of a slot, of the service it keeps and under
\* the name it keeps, comes to.
SlotVerdict(d, slot) ==
  Evaluate(Rules, Default,
           [domain |-> slot.domain, ip |-> d.ip, port |-> d.port, proto |-> d.proto,
            cgroup |-> slot.cgroup]).verdict

IsSlot(slot) ==
  slot = [left |-> slot.left, verdict |-> slot.verdict, domain |-> slot.domain,
          cgroup |-> slot.cgroup]

\* A slot that is taken keeps the verdict of the flow that took it.
SlotsTell ==
  /\ seen = [d \in Slots |-> seen[d]]
  /\ \A d \in Slots :
       /\ IsSlot(seen[d]) /\ seen[d].left \in Nat
       /\ seen[d].left > 0 => seen[d].verdict = SlotVerdict(d, seen[d])

IInv == RingOK /\ HandOK /\ NoRefusalVanishes /\ SlotsTell

----------------------------------------------------------------------------
\* The lines a rule's refusals leave are all readable or none is.
LEMMA UnreadableLine ==
  ASSUME NEW rule
  PROVE  Unreadable(rule) <=> ~ ParseLine(LineOf(rule)).ok
BY DEF Unreadable

\* What the ring holds once a record has entered it: the new one, and the old
\* ones but the oldest, which is told to be overwritten.
LEMMA RingAfterLog ==
  ASSUME RingOK, NEW record \in Records, Log(record), RingCap \in Nat \ {0}
  PROVE  /\ ring' \in Seq(Records) /\ Len(ring') > 0 /\ ring'[Len(ring')] = record
         /\ \A i \in DOMAIN ring' : ring'[i] = record \/ \E j \in DOMAIN ring : ring'[i] = ring[j]
         /\ \A j \in DOMAIN ring :
              \/ \E i \in DOMAIN ring' : ring'[i] = ring[j]
              \/ ring[j].id \in overwritten' \cup {0}
         /\ overwritten \subseteq overwritten'
<1> DEFINE kept == IF Len(ring) = RingCap THEN Tail(ring) ELSE ring
<1>1. ring \in Seq(Records) /\ Len(ring) \in Nat /\ DOMAIN ring = 1..Len(ring)
  BY LenProperties DEF RingOK
<1>2. /\ kept \in Seq(Records)
      /\ \A i \in DOMAIN kept : \E j \in DOMAIN ring : kept[i] = ring[j]
      /\ \A j \in DOMAIN ring :
           (\E i \in DOMAIN kept : kept[i] = ring[j]) \/ (Len(ring) = RingCap /\ j = 1)
  <2>1. CASE Len(ring) # RingCap
    BY <1>1, <2>1
  <2>2. CASE Len(ring) = RingCap
    <3>1. ring # <<>>
      BY <1>1, <2>2, EmptySeq
    <3>2. /\ Tail(ring) \in Seq(Records) /\ Len(Tail(ring)) = Len(ring) - 1
          /\ \A i \in 1..Len(Tail(ring)) : Tail(ring)[i] = ring[i + 1]
      BY <1>1, <3>1, HeadTailProperties
    <3>3. kept = Tail(ring)
      BY <2>2
    <3> HIDE DEF kept
    <3>4. DOMAIN kept = 1..(Len(ring) - 1)
      BY <3>2, <3>3, LenProperties
    <3>5. \A i \in DOMAIN kept : i + 1 \in DOMAIN ring /\ kept[i] = ring[i + 1]
      BY <1>1, <3>2, <3>3, <3>4
    <3>6. \A j \in DOMAIN ring : j # 1 => j - 1 \in DOMAIN kept /\ kept[j - 1] = ring[j]
      BY <1>1, <3>2, <3>3, <3>4
    <3> QED BY <2>2, <3>2, <3>3, <3>5, <3>6
  <2> QED BY <2>1, <2>2
<1>3. ring' = Append(kept, record)
  BY DEF Log
<1> HIDE DEF kept
<1>4. /\ ring' \in Seq(Records) /\ Len(ring') = Len(kept) + 1
      /\ \A i \in 1..Len(kept) : ring'[i] = kept[i]
      /\ ring'[Len(kept) + 1] = record
  BY <1>2, <1>3, AppendProperties
<1>5. Len(kept) \in Nat /\ DOMAIN kept = 1..Len(kept) /\ DOMAIN ring' = 1..(Len(kept) + 1)
  BY <1>2, <1>4, LenProperties
<1>6. \A i \in DOMAIN ring' : ring'[i] = record \/ \E j \in DOMAIN kept : ring'[i] = kept[j]
  BY <1>4, <1>5
<1>7. \A j \in DOMAIN kept : j \in DOMAIN ring' /\ ring'[j] = kept[j]
  BY <1>4, <1>5
<1>8. Len(ring) = RingCap => ring[1].id \in overwritten' \cup {0}
  <2> SUFFICES ASSUME Len(ring) = RingCap PROVE ring[1].id \in overwritten' \cup {0}
    OBVIOUS
  <2>1. ring # <<>>
    BY <1>1, EmptySeq
  <2>2. Head(ring) = ring[1]
    BY <1>1, <2>1, HeadTailProperties
  <2> QED BY <2>2 DEF Log
<1>9. overwritten \subseteq overwritten'
  BY DEF Log
<1>10. \A i \in DOMAIN ring' : ring'[i] = record \/ \E j \in DOMAIN ring : ring'[i] = ring[j]
  BY <1>2, <1>6
<1>11. \A j \in DOMAIN ring :
         (\E i \in DOMAIN ring' : ring'[i] = ring[j]) \/ ring[j].id \in overwritten' \cup {0}
  BY <1>2, <1>7, <1>8
<1> QED BY <1>4, <1>5, <1>9, <1>10, <1>11

----------------------------------------------------------------------------
(* The steps.                                                              *)

\* The goroutine's place and what it has in hand, and the ledger of refusals.
tellers == <<tail, event, alerted, overwritten, refused, ring>>

\* A step that logs nothing and tells nothing keeps what is known of refusals.
LEMMA NothingTold ==
  ASSUME IInv, UNCHANGED tellers
  PROVE  RingOK' /\ HandOK' /\ NoRefusalVanishes'
BY DEF IInv, tellers, RingOK, HandOK, NoRefusalVanishes, InRing

\* A record that enters the ring is that of the refusal it counts, if any.
LEMMA LogKeeps ==
  ASSUME IInv, RingCap \in Nat \ {0}, NEW record \in Records, Log(record),
         UNCHANGED <<tail, event, alerted>>,
         \/ refused' = refused /\ record.id = 0
         \/ \E rule \in Indexes :
              /\ refused' = Append(refused, rule) /\ record.id = Len(refused')
              /\ record.text = LineOf(rule)
  PROVE  RingOK' /\ HandOK' /\ NoRefusalVanishes'
<1>1. RingOK /\ HandOK /\ NoRefusalVanishes
  BY DEF IInv
<1>2. /\ ring' \in Seq(Records) /\ Len(ring') > 0 /\ ring'[Len(ring')] = record
      /\ \A i \in DOMAIN ring' : ring'[i] = record \/ \E j \in DOMAIN ring : ring'[i] = ring[j]
      /\ \A j \in DOMAIN ring :
           \/ \E i \in DOMAIN ring' : ring'[i] = ring[j]
           \/ ring[j].id \in overwritten' \cup {0}
      /\ overwritten \subseteq overwritten'
  BY <1>1, RingAfterLog
<1>3. /\ refused \in Seq(Indexes) /\ refused' \in Seq(Indexes)
      /\ DOMAIN refused \subseteq DOMAIN refused'
      /\ \A id \in DOMAIN refused : refused'[id] = refused[id] /\ id # 0
      /\ \A id \in DOMAIN refused' : id \in DOMAIN refused \/ id = record.id
      /\ \/ record.id = 0
         \/ record.id \in DOMAIN refused' /\ record.text = LineOf(refused'[record.id])
  <2>1. refused \in Seq(Indexes) /\ Len(refused) \in Nat /\ DOMAIN refused = 1..Len(refused)
    BY <1>1, LenProperties DEF RingOK
  <2>2. CASE refused' = refused /\ record.id = 0
    BY <2>1, <2>2
  <2>3. CASE \E rule \in Indexes : /\ refused' = Append(refused, rule)
                                   /\ record.id = Len(refused')
                                   /\ record.text = LineOf(rule)
    <3>1. PICK rule \in Indexes : /\ refused' = Append(refused, rule)
                                  /\ record.id = Len(refused')
                                  /\ record.text = LineOf(rule)
      BY <2>3
    <3>2. /\ refused' \in Seq(Indexes) /\ Len(refused') = Len(refused) + 1
          /\ \A i \in 1..Len(refused) : refused'[i] = refused[i]
          /\ refused'[Len(refused) + 1] = rule
      <4>1. refused' = Append(refused, rule)
        BY <3>1
      <4>2. /\ Append(refused, rule) \in Seq(Indexes)
            /\ Len(Append(refused, rule)) = Len(refused) + 1
            /\ \A i \in 1..Len(refused) : Append(refused, rule)[i] = refused[i]
            /\ Append(refused, rule)[Len(refused) + 1] = rule
        BY ONLY <2>1, AppendProperties, rule \in Indexes
      <4> QED BY <4>1, <4>2
    <3>3. DOMAIN refused' = 1..(Len(refused) + 1)
      BY <3>2, LenProperties
    <3>4. \A id \in DOMAIN refused' : id \in DOMAIN refused \/ id = Len(refused')
      BY <2>1, <3>2, <3>3
    <3>5. Len(refused') \in DOMAIN refused' /\ refused'[Len(refused')] = rule
      BY <2>1, <3>2, <3>3
    <3>6. \A id \in DOMAIN refused : id \in DOMAIN refused' /\ refused'[id] = refused[id] /\ id # 0
      BY <2>1, <3>2, <3>3
    <3>7. /\ record.id \in DOMAIN refused' /\ record.text = LineOf(refused'[record.id])
          /\ \A id \in DOMAIN refused' : id \in DOMAIN refused \/ id = record.id
      BY <3>1, <3>4, <3>5
    <3> QED BY <2>1, <3>2, <3>6, <3>7
  <2> QED BY <2>2, <2>3
<1>4. \A j \in DOMAIN ring :
        \/ ring[j].id = 0
        \/ ring[j].id \in DOMAIN refused' /\ ring[j].text = LineOf(refused'[ring[j].id])
  BY <1>1, <1>3 DEF RingOK
<1>5. RingOK'
  BY <1>2, <1>3, <1>4 DEF RingOK
<1>6. HandOK'
  BY <1>1 DEF HandOK
<1>7. NoRefusalVanishes'
  <2> SUFFICES ASSUME tail \in {"read", "lookup", "send"}, NEW id \in DOMAIN refused'
               PROVE  \/ id \in alerted \/ id \in overwritten' \/ id = event.id \/ InRing(id)'
                      \/ Unreadable(refused'[id])
    BY DEF NoRefusalVanishes
  <2>1. CASE id \in DOMAIN refused
    <3>1. \/ id \in alerted \/ id \in overwritten \/ id = event.id \/ InRing(id)
          \/ Unreadable(refused[id])
      BY <1>1, <2>1 DEF NoRefusalVanishes
    <3>2. InRing(id) => id \in overwritten' \/ InRing(id)'
      BY <1>2, <1>3, <2>1 DEF InRing
    <3> QED BY <1>2, <1>3, <2>1, <3>1, <3>2
  <2>2. CASE id = record.id
    <3>1. Len(ring') \in DOMAIN ring'
      BY <1>2, LenProperties
    <3> QED BY <1>2, <2>2, <3>1 DEF InRing
  <2> QED BY <1>3, <2>1, <2>2
<1> QED BY <1>5, <1>6, <1>7

\* A line taken from the ring is in the goroutine's hand, or was not readable.
LEMMA TakenIsInHand ==
  ASSUME IInv, tail = "read", ring # <<>>, TakeLine(Head(ring)),
         UNCHANGED <<alerted, overwritten, refused>>
  PROVE  RingOK' /\ HandOK' /\ NoRefusalVanishes'
<1>1. RingOK /\ HandOK /\ NoRefusalVanishes /\ event.id = 0
  BY DEF IInv, HandOK
<1>2. ring \in Seq(Records) /\ Len(ring) \in Nat /\ DOMAIN ring = 1..Len(ring)
  BY <1>1, LenProperties DEF RingOK
<1>3. /\ Head(ring) = ring[1] /\ 1 \in DOMAIN ring
      /\ Tail(ring) \in Seq(Records) /\ Len(Tail(ring)) = Len(ring) - 1
      /\ \A i \in 1..Len(Tail(ring)) : Tail(ring)[i] = ring[i + 1]
  BY <1>2, HeadTailProperties, EmptySeq
<1>4. ring' = Tail(ring)
  BY DEF TakeLine
<1>5. DOMAIN ring' = 1..(Len(ring) - 1)
  BY <1>3, <1>4, LenProperties
<1>6. \A i \in DOMAIN ring' : i + 1 \in DOMAIN ring /\ ring'[i] = ring[i + 1]
  BY <1>2, <1>3, <1>4, <1>5
<1>7. \A j \in DOMAIN ring : j # 1 => j - 1 \in DOMAIN ring' /\ ring'[j - 1] = ring[j]
  BY <1>2, <1>3, <1>4, <1>5
<1>8. RingOK'
  BY <1>1, <1>3, <1>4, <1>6 DEF RingOK
<1>9. \/ /\ ParseLine(ring[1].text).ok
         /\ event' = [id |-> ring[1].id, rule |-> ParseLine(ring[1].text).rule,
                      ip |-> ring[1].ip, host |-> NoName, by |-> ring[1].by]
         /\ tail' = "lookup"
      \/ ~ ParseLine(ring[1].text).ok /\ event' = event /\ tail' = tail
  BY <1>3 DEF TakeLine
<1>10. HandOK'
  BY <1>1, <1>9 DEF HandOK
<1>11. NoRefusalVanishes'
  <2> SUFFICES ASSUME NEW id \in DOMAIN refused
               PROVE  \/ id \in alerted \/ id \in overwritten \/ id = event'.id \/ InRing(id)'
                      \/ Unreadable(refused[id])
    BY DEF NoRefusalVanishes
  <2>1. id # 0
    BY <1>1, LenProperties DEF RingOK
  <2>2. \/ id \in alerted \/ id \in overwritten \/ InRing(id) \/ Unreadable(refused[id])
    BY <1>1, <2>1 DEF NoRefusalVanishes
  <2>3. CASE InRing(id)
    <3>1. PICK j \in DOMAIN ring : ring[j].id = id
      BY <2>3 DEF InRing
    <3>2. CASE j = 1
      <4>1. ring[1].text = LineOf(refused[id])
        BY <1>1, <2>1, <3>1, <3>2 DEF RingOK
      <4> QED BY <1>9, <3>1, <3>2, <4>1, UnreadableLine
    <3>3. CASE j # 1
      BY <1>7, <3>1, <3>3 DEF InRing
    <3> QED BY <3>2, <3>3
  <2> QED BY <2>2, <2>3
<1> QED BY <1>8, <1>10, <1>11

----------------------------------------------------------------------------
(* The memory of the dry run.                                              *)

\* A step that leaves the memory alone keeps what its slots tell.
LEMMA MemoryKept ==
  ASSUME SlotsTell, UNCHANGED seen
  PROVE  SlotsTell'
BY DEF SlotsTell

\* The flow that takes a slot leaves its verdict there.
LEMMA ReportTells ==
  ASSUME SlotsTell, NEW f \in Flows, Memory \in Nat, Report(f)
  PROVE  SlotsTell'
<1> DEFINE taken == [left |-> Memory, verdict |-> Evaluated(f).verdict,
                     domain |-> Lookup(cache, f.ip), cgroup |-> f.cgroup]
<1>1. Destination(f) \in Slots
  BY DEF Slots
<1>2. seen' = [seen EXCEPT ![Destination(f)] = taken]
  BY DEF Report, Slot
<1>3. seen' = [d \in Slots |-> IF d = Destination(f) THEN taken ELSE seen[d]]
  BY <1>1, <1>2 DEF SlotsTell
<1>4. Evaluated(f).verdict = SlotVerdict(Destination(f), taken)
  BY DEF Evaluated, SlotVerdict, Destination
<1>5. IsSlot(taken) /\ taken.left \in Nat
      /\ taken.verdict = SlotVerdict(Destination(f), taken)
  BY <1>4 DEF IsSlot
<1> HIDE DEF taken
<1> QED BY <1>3, <1>5 DEF SlotsTell

\* A slot that ages keeps what it tells.
LEMMA TickTells ==
  ASSUME SlotsTell, Tick
  PROVE  SlotsTell'
<1>1. seen' = [d \in Slots |->
                IF seen[d].left <= 1 THEN NotSeen ELSE [seen[d] EXCEPT !.left = @ - 1]]
  BY DEF SlotsTell, Tick
<1> SUFFICES ASSUME NEW d \in Slots
             PROVE  /\ IsSlot(seen'[d]) /\ seen'[d].left \in Nat
                    /\ seen'[d].left > 0 => seen'[d].verdict = SlotVerdict(d, seen'[d])
  BY <1>1 DEF SlotsTell
<1>2. /\ IsSlot(seen[d]) /\ seen[d].left \in Nat
      /\ seen[d].left > 0 => seen[d].verdict = SlotVerdict(d, seen[d])
  BY DEF SlotsTell
<1>3. CASE seen[d].left <= 1
  <2>1. seen'[d] = NotSeen
    BY <1>1, <1>3
  <2> QED BY <2>1 DEF IsSlot, NotSeen
<1>4. CASE ~ (seen[d].left <= 1)
  <2>1. seen'[d] = [seen[d] EXCEPT !.left = @ - 1]
    BY <1>1, <1>4
  <2>2. seen'[d] = [left |-> seen[d].left - 1, verdict |-> seen[d].verdict,
                    domain |-> seen[d].domain, cgroup |-> seen[d].cgroup]
    BY <1>2, <2>1 DEF IsSlot
  <2>3. seen[d].left - 1 \in Nat /\ seen[d].left > 0
    BY <1>2, <1>4
  <2> QED BY <1>2, <2>2, <2>3 DEF IsSlot, SlotVerdict
<1> QED BY <1>3, <1>4

----------------------------------------------------------------------------
(* The invariant.                                                          *)

\* The line of a record the kernel writes is one the ring may hold.
LEMMA RecordsAre ==
  ASSUME NEW f \in Flows, NEW id \in Nat, NEW text \in Lines, NEW by \in Indexes
  PROVE  [id |-> id, text |-> text, ip |-> Unmap(f.ip), by |-> by] \in Records
BY DEF Records

\* Before anything is logged or reported the invariant holds.
THEOREM InitHolds == Init => IInv
<1> SUFFICES ASSUME Init PROVE IInv
  OBVIOUS
<1>1. ring = <<>> /\ refused = <<>> /\ event = NoEvent /\ event.id = 0
  BY DEF Init, NoEvent
<1>2. RingOK
  BY <1>1 DEF RingOK
<1>3. HandOK
  BY <1>1 DEF HandOK, NoEvent
<1>4. NoRefusalVanishes
  BY <1>1 DEF NoRefusalVanishes
<1>5. SlotsTell
  <2>1. seen = [d \in Slots |-> NotSeen]
    BY DEF Init, Slots
  <2> QED BY <2>1 DEF SlotsTell, IsSlot, NotSeen
<1> QED BY <1>2, <1>3, <1>4, <1>5 DEF IInv

\* Every step of the kernel, the goroutine, the loop and the clock keeps it.
THEOREM NextKeeps == IInv /\ [Next]_vars => IInv'
<1> SUFFICES ASSUME IInv, [Next]_vars PROVE IInv'
  OBVIOUS
<1>1. RingCap \in Nat \ {0} /\ Memory \in Nat
  BY RefusalsAssumption
<1>2. RingOK /\ HandOK /\ NoRefusalVanishes /\ SlotsTell
  BY DEF IInv
<1>3. ASSUME NEW rule \in Refusing, NEW f \in Flows, KernelRefuses(rule, f.ip)
      PROVE  IInv'
  <2>1. rule \in Indexes
    BY <1>3 DEF Refusing, Indexes
  <2>2. Len(refused) \in Nat /\ refused \in Seq(Indexes)
    BY <1>2, LenProperties DEF RingOK
  <2>3. refused' = Append(refused, rule)
    BY <1>3 DEF KernelRefuses
  <2>4. Len(refused') \in Nat
    BY <2>1, <2>2, <2>3, AppendProperties
  <2> DEFINE record == [id |-> Len(refused'), text |-> LineOf(rule), ip |-> Unmap(f.ip),
                        by |-> rule]
  <2>5. Log(record)
    BY <1>3 DEF KernelRefuses
  <2>6. LineOf(rule) \in Lines
    BY <2>1 DEF Lines
  <2>7. record \in Records
    BY <2>1, <2>4, <2>6, RecordsAre
  <2>8. record.id = Len(refused') /\ record.text = LineOf(rule)
    OBVIOUS
  <2>9. UNCHANGED <<tail, event, alerted, seen>>
    BY <1>3 DEF KernelRefuses, reader
  <2> HIDE DEF record
  <2>10. RingOK' /\ HandOK' /\ NoRefusalVanishes'
    BY <1>1, <2>1, <2>3, <2>5, <2>7, <2>8, <2>9, LogKeeps
  <2> QED BY <1>2, <2>9, <2>10, MemoryKept DEF IInv
<1>4. ASSUME NEW f \in Flows, KernelLogs(f.ip)
      PROVE  IInv'
  <2> DEFINE record == [id |-> 0, text |-> <<"ufw", "DST">>, ip |-> Unmap(f.ip), by |-> 0]
  <2>1. Log(record)
    BY <1>4 DEF KernelLogs
  <2>2. 0 \in Indexes /\ <<"ufw", "DST">> \in Lines /\ 0 \in Nat
    BY DEF Indexes, Lines
  <2>3. record \in Records
    BY <2>2, RecordsAre
  <2>4. record.id = 0
    OBVIOUS
  <2>5. UNCHANGED <<tail, event, alerted, seen, refused>>
    BY <1>4 DEF KernelLogs, reader
  <2> HIDE DEF record
  <2>6. RingOK' /\ HandOK' /\ NoRefusalVanishes'
    BY <1>1, <2>1, <2>3, <2>4, <2>5, LogKeeps
  <2> QED BY <1>2, <2>5, <2>6, MemoryKept DEF IInv
<1>5. CASE TailRead
  <2>1. /\ tail = "read" /\ ring # <<>>
        /\ UNCHANGED <<seen, alerted, overwritten, refused>>
    BY <1>5 DEF TailRead
  <2>2. CASE behind
    <3>1. UNCHANGED tellers
      BY <1>5, <2>1, <2>2 DEF TailRead, CarryOn, tellers
    <3> QED BY <1>2, <2>1, <3>1, NothingTold, MemoryKept DEF IInv
  <2>3. CASE ~ behind
    <3>1. TakeLine(Head(ring))
      BY <1>5, <2>3 DEF TailRead
    <3> QED BY <1>2, <2>1, <3>1, TakenIsInHand, MemoryKept DEF IInv
  <2> QED BY <2>2, <2>3
<1>6. CASE TailLookup
  <2>1. /\ tail = "lookup" /\ tail' = "send"
        /\ UNCHANGED <<seen, alerted, overwritten, refused, ring>>
    BY <1>6 DEF TailLookup, log
  <2>2. event' = [event EXCEPT !.host = Lookup(cache, event.ip)]
    BY <1>6 DEF TailLookup
  <2>3. event' = [id |-> event.id, rule |-> event.rule, ip |-> event.ip,
                  host |-> Lookup(cache, event.ip), by |-> event.by]
    BY <1>2, <2>2 DEF HandOK
  <2> QED BY <1>2, <2>1, <2>3, MemoryKept
          DEF IInv, RingOK, HandOK, NoRefusalVanishes, InRing
<1>7. CASE TailSend
  <2>1. /\ event' = NoEvent /\ alerted' = alerted \cup {event.id}
        /\ tail = "send" /\ tail' = "read"
        /\ UNCHANGED <<seen, overwritten, refused, ring>>
    BY <1>7 DEF TailSend, log
  <2>2. event'.id = 0 /\ HandOK'
    BY <2>1 DEF HandOK, NoEvent
  <2> QED BY <1>2, <2>1, <2>2, MemoryKept DEF IInv, RingOK, HandOK, NoRefusalVanishes, InRing
<1>8. CASE TailEnds
  <2>1. tail' \in {"over", "failed"} /\ UNCHANGED <<seen, event, refused, ring>>
    BY <1>8 DEF TailEnds, log
  <2> QED BY <1>2, <2>1, MemoryKept DEF IInv, RingOK, HandOK, NoRefusalVanishes
<1>9. ASSUME NEW f \in Flows, Report(f)
      PROVE  IInv'
  <2>1. UNCHANGED tellers
    BY <1>9 DEF Report, log, tellers
  <2> QED BY <1>1, <1>2, <1>9, <2>1, NothingTold, ReportTells DEF IInv
<1>10. ASSUME NEW a \in Answers, ReadDns(a)
       PROVE  IInv'
  <2>1. UNCHANGED <<tellers, seen>>
    BY <1>10 DEF ReadDns, reader, log, tellers
  <2> QED BY <1>2, <2>1, NothingTold, MemoryKept DEF IInv
<1>11. CASE Signal
  <2>1. UNCHANGED <<tellers, seen>>
    BY <1>11 DEF Signal, reader, log, tellers
  <2> QED BY <1>2, <2>1, NothingTold, MemoryKept DEF IInv
<1>12. CASE Tick
  <2>1. UNCHANGED tellers
    BY <1>12 DEF Tick, reader, log, tellers
  <2> QED BY <1>2, <1>12, <2>1, NothingTold, TickTells DEF IInv
<1>13. CASE UNCHANGED vars
  <2>1. UNCHANGED <<tellers, seen>>
    BY <1>13 DEF vars, reader, log, tellers
  <2> QED BY <1>2, <2>1, NothingTold, MemoryKept DEF IInv
<1> QED BY <1>3, <1>4, <1>5, <1>6, <1>7, <1>8, <1>9, <1>10, <1>11, <1>12, <1>13
        DEF Next, TailStep

\* The inductive strengthening: what the ring holds is of refusals that were
\* logged, the goroutine has nothing in hand when it reads, and a slot that is
\* taken keeps the verdict of the flow that took it.
THEOREM InvariantHolds == Spec => []IInv
BY InitHolds, NextKeeps, PTL DEF Spec

\* A refusal the kernel logged is alerted, waits in the log or in the
\* goroutine's hand, was overwritten, or was logged under a prefix that was cut,
\* whatever else is logged and however slow the reader is.
THEOREM RefusalsAreAccountedFor == Spec => []NoRefusalVanishes
<1>1. IInv => NoRefusalVanishes
  BY DEF IInv
<1> QED BY <1>1, InvariantHolds, PTL

\* A dry run passes over a flow that would be refused only where the same
\* refusal was reported, or another service or name was looked at instead.
THEOREM OnlyAnotherHides == Spec => []HiddenOnlyByAnother
<1>1. IInv => HiddenOnlyByAnother
  <2> SUFFICES ASSUME IInv, NEW f \in Flows,
                      seen[Destination(f)].left > 0,
                      Evaluated(f).verdict = "deny",
                      seen[Destination(f)].cgroup = f.cgroup,
                      seen[Destination(f)].domain = Lookup(cache, f.ip)
               PROVE  seen[Destination(f)].verdict = "deny"
    BY DEF HiddenOnlyByAnother
  <2>1. Destination(f) \in Slots
    BY DEF Slots
  <2>2. seen[Destination(f)].verdict = SlotVerdict(Destination(f), seen[Destination(f)])
    BY <2>1 DEF IInv, SlotsTell
  <2>3. SlotVerdict(Destination(f), seen[Destination(f)]) = Evaluated(f).verdict
    BY DEF SlotVerdict, Evaluated, Destination
  <2> QED BY <2>2, <2>3
<1> QED BY <1>1, InvariantHolds, PTL

----------------------------------------------------------------------------
(* The name an alert carries.                                              *)

\* What a line of the log is made of.
Word == STRING \cup Marks

Text == Seq(Word)

\* The words the prefix and its reader share are such.
LEMMA SharedWords ==
  /\ "deny[" \in Word /\ "]" \in Word /\ ".." \in Word
  /\ "DST" \in Word /\ "default-deny" \in Word
BY DEF Word, Marks

\* A name is a text.
LEMMA NamesAreTexts == Words \subseteq Text
BY SeqMonotonic DEF Words, Text, Word

\* The words of a text after its first, up to the m-th, begin a name when they are
\* those of the name.
LEMMA WordsBeginName ==
  ASSUME NEW text \in Text, NEW name \in Words, NEW m \in Nat,
         2 <= m, m - 2 <= Len(name), m - 1 <= Len(text),
         \A j \in 1..(m - 2) : text[j + 1] = name[j]
  PROVE  /\ SubSeq(text, 2, m - 1) \in Words /\ Len(SubSeq(text, 2, m - 1)) = m - 2
         /\ IsPrefix(SubSeq(text, 2, m - 1), name)
         /\ m - 2 = Len(name) => SubSeq(text, 2, m - 1) = name
<1> DEFINE s == SubSeq(text, 2, m - 1)
           n == m - 2
           t == SubSeq(name, 1, n)
<1>1. Len(text) \in Nat /\ Len(name) \in Nat /\ n \in Nat
  BY LenProperties DEF Text, Words
<1>2. s \in Text /\ Len(s) = n /\ \A i \in 1..n : s[i] = text[i + 1]
  <2>1. \A i \in 2..(m - 1) : text[i] \in Word
    BY <1>1, ElementOfSeq DEF Text
  <2>2. /\ s \in Text /\ Len(s) = IF 2 <= m - 1 THEN (m - 1) - 2 + 1 ELSE 0
        /\ \A i \in 1..((m - 1) - 2 + 1) : s[i] = text[2 + i - 1]
    BY <2>1, SubSeqProperties DEF Text
  <2>3. \A i \in 1..n : i \in 1..((m - 1) - 2 + 1) /\ 2 + i - 1 = i + 1
    BY <1>1
  <2> HIDE DEF s
  <2> QED BY <2>2, <2>3
<1>3. t \in Words /\ Len(t) = n /\ \A i \in 1..n : t[i] = name[i]
  <2>1. \A i \in 1..n : name[i] \in STRING
    BY <1>1, ElementOfSeq DEF Words
  <2>2. /\ t \in Words /\ Len(t) = IF 1 <= n THEN n - 1 + 1 ELSE 0
        /\ \A i \in 1..(n - 1 + 1) : t[i] = name[1 + i - 1]
    BY <1>1, <2>1, SubSeqProperties DEF Words
  <2>3. \A i \in 1..n : i \in 1..(n - 1 + 1) /\ 1 + i - 1 = i
    BY <1>1
  <2> HIDE DEF t
  <2> QED BY <1>1, <2>2, <2>3
<1> HIDE DEF s, t
<1>4. s = t
  BY <1>2, <1>3, NamesAreTexts, SeqEqual DEF Text
<1>5. SubSeq(s, 1, Len(s)) = s
  BY <1>2, SubSeqFull DEF Text
<1>6. n = Len(name) => t = name
  BY SubSeqFull DEF Words, t
<1>7. IsPrefix(s, name)
  BY <1>1, <1>2, <1>3, <1>4, <1>5 DEF IsPrefix, t
<1> QED BY <1>2, <1>3, <1>4, <1>6, <1>7 DEF s

\* A rule without a name is read back without one.
LEMMA NothingIsReadBack == <<>> \in Words /\ ReadBack(<<>>, <<>>)
<1>1. <<>> \in Words /\ Len(<<>>) = 0
  BY EmptySeq DEF Words
<1>2. SubSeq(<<>>, 1, 0) = <<>>
  BY SubSeqEmpty
<1> QED BY <1>1, <1>2 DEF IsPrefix, ReadBack

\* A word put before a text, and one put after it.
Before(w, text) == <<w>> \o text
After(text, w)  == text \o <<w>>

\* The word put before a text is its first, and moves the others up.
LEMMA WordBefore ==
  ASSUME NEW w \in Word, NEW s \in Text
  PROVE  /\ Before(w, s) \in Text /\ Len(Before(w, s)) = Len(s) + 1 /\ Before(w, s)[1] = w
         /\ \A i \in 1..Len(s) : Before(w, s)[i + 1] = s[i]
<1> DEFINE one == <<w>>
           u == Before(w, s)
<1>1. one \in Text /\ Len(one) = 1 /\ one[1] = w
  <2>1. one \in [1..1 -> Word]
    OBVIOUS
  <2>2. one \in Text
    BY <2>1, SeqDef DEF Text
  <2> QED BY <2>2
<1>2. Len(s) \in Nat /\ u = one \o s
  BY LenProperties DEF Text, Before
<1> HIDE DEF one, u
<1>3. /\ one \o s \in Text /\ Len(one \o s) = Len(one) + Len(s)
      /\ \A i \in 1..(Len(one) + Len(s)) : (one \o s)[i] =
           IF i <= Len(one) THEN one[i] ELSE s[i - Len(one)]
  BY <1>1, ConcatProperties, Zenon DEF Text
<1>4. /\ u \in Text /\ Len(u) = 1 + Len(s)
      /\ \A i \in 1..(1 + Len(s)) : u[i] = IF i <= 1 THEN one[i] ELSE s[i - 1]
  BY <1>1, <1>2, <1>3, Zenon
<1>5. u[1] = w
  BY <1>1, <1>2, <1>4
<1>6. ASSUME NEW i \in 1..Len(s) PROVE u[i + 1] = s[i]
  <2>1. i + 1 \in 1..(1 + Len(s)) /\ ~ (i + 1 <= 1) /\ (i + 1) - 1 = i
    BY <1>2
  <2> QED BY <1>4, <2>1
<1> QED BY <1>2, <1>4, <1>5, <1>6 DEF u

\* The word put after a text is its last.
LEMMA WordAfter ==
  ASSUME NEW w \in Word, NEW s \in Text
  PROVE  /\ After(s, w) \in Text /\ Len(After(s, w)) = Len(s) + 1
         /\ DOMAIN After(s, w) = 1..(Len(s) + 1) /\ After(s, w)[Len(s) + 1] = w
         /\ \A i \in 1..Len(s) : After(s, w)[i] = s[i]
<1>1. After(s, w) = Append(s, w)
  BY AppendIsConcat DEF Text, After
<1> QED BY <1>1, AppendProperties, LenProperties DEF Text

\* The words of a prefix that names its rule.
LEMMA PrefixWords ==
  ASSUME NEW name \in Words
  PROVE  LET p == <<"deny[">> \o name \o <<"]">>
         IN  /\ p \in Text /\ Len(p) = Len(name) + 2
             /\ p[1] = "deny[" /\ p[Len(name) + 2] = "]"
             /\ \A j \in 1..Len(name) : p[j + 1] = name[j]
<1> DEFINE h == <<"deny[">> \o name
           p == h \o <<"]">>
<1>1. h \in Text /\ Len(h) = Len(name) + 1 /\ h[1] = "deny["
      /\ \A i \in 1..Len(name) : h[i + 1] = name[i]
  <2>1. name \in Text /\ h = Before("deny[", name)
    BY NamesAreTexts DEF Before
  <2>2. "deny[" \in Word
    BY SharedWords
  <2> HIDE DEF h
  <2> QED BY <2>1, <2>2, WordBefore
<1>2. Len(name) \in Nat
  BY LenProperties DEF Words
<1>3. /\ p \in Text /\ Len(p) = Len(h) + 1 /\ p[Len(h) + 1] = "]"
      /\ \A i \in 1..Len(h) : p[i] = h[i]
  <2> HIDE DEF h
  <2>1. h \in Text /\ p = After(h, "]")
    BY <1>1 DEF After
  <2>2. "]" \in Word
    BY SharedWords
  <2> HIDE DEF p
  <2> QED BY <2>1, <2>2, WordAfter
<1> HIDE DEF h, p
<1>4. \A j \in 1..Len(name) : p[j + 1] = name[j]
  <2>1. \A j \in 1..Len(name) : j + 1 \in 1..Len(h)
    BY <1>1, <1>2
  <2> QED BY <1>1, <1>3, <2>1
<1>5. (Len(name) + 1) + 1 = Len(name) + 2 /\ 1 \in 1..(Len(name) + 1)
  BY <1>2
<1> QED BY <1>1, <1>3, <1>4, <1>5 DEF p, h

\* The first k words of a text are of the prefix a name is logged under, and no
\* other ends it.
Keeps(text, k, name) ==
  /\ text \in Text /\ k \in Nat /\ k <= Len(name) + 2 /\ k <= Len(text)
  /\ 1 <= Len(text) /\ text[1] = "deny["
  /\ \A j \in 1..Len(name) : j + 1 <= k => text[j + 1] = name[j]
  /\ \A j \in DOMAIN text : text[j] = "]" => j <= k

\* A line of a named rule that parses yields the beginning of the name: k words of
\* the prefix are left of it, all of them or what stands before the cut.
LEMMA LeftOfPrefix ==
  ASSUME NEW name \in Words, NEW text, NEW k, Keeps(text, k, name), ParseLine(text).ok
  PROVE  ParseLine(text).rule \in Words /\ ReadBack(ParseLine(text).rule, name)
<1> DEFINE ends == {i \in DOMAIN text : text[i] = "]"}
           m == Min(ends)
<1>0. text \in Text /\ k \in Nat /\ k <= Len(name) + 2 /\ k <= Len(text) /\ text[1] = "deny["
  BY DEF Keeps
<1>1. ends # {} /\ ParseLine(text).rule = SubSeq(text, 2, m - 1)
  BY <1>0 DEF ParseLine, NotOurs
<1>2. Len(text) \in Nat /\ Len(name) \in Nat /\ DOMAIN text = 1..Len(text)
  BY <1>0, LenProperties DEF Text, Words
<1>3. /\ \A j \in 1..Len(name) : j + 1 <= k => text[j + 1] = name[j]
      /\ \A j \in DOMAIN text : text[j] = "]" => j <= k
  BY DEF Keeps
<1>4. ends \in SUBSET Nat
  BY <1>2
<1> HIDE DEF m
<1>5. m \in ends
  BY <1>1, <1>4, MinIsLeast DEF m
<1>6. m \in 1..Len(text) /\ text[m] = "]" /\ m <= k
  BY <1>2, <1>3, <1>5
<1>7. 2 <= m
  BY <1>0, <1>6
<1>8. m - 2 <= Len(name) /\ m - 1 <= Len(text) /\ m \in Nat
  BY <1>0, <1>2, <1>6
<1>9. ASSUME NEW j \in 1..(m - 2) PROVE text[j + 1] = name[j]
  <2>1. j \in 1..Len(name) /\ j + 1 <= k
    BY <1>0, <1>2, <1>6, <1>8
  <2> QED BY <1>3, <2>1
<1> HIDE DEF ends
<1> DEFINE s == SubSeq(text, 2, m - 1)
<1>10. /\ s \in Words /\ Len(s) = m - 2 /\ IsPrefix(s, name)
       /\ m - 2 = Len(name) => s = name
  BY <1>0, <1>7, <1>8, <1>9, WordsBeginName
<1> HIDE DEF s
<1>11. m - 2 # Len(name) => name[Len(s) + 1] = "]"
  <2> SUFFICES ASSUME m - 2 # Len(name) PROVE name[m - 1] = "]"
    BY <1>8, <1>10
  <2>1. m - 1 \in 1..Len(name) /\ (m - 1) + 1 = m
    BY <1>2, <1>7, <1>8
  <2> QED BY <1>3, <1>6, <2>1
<1>12. ReadBack(s, name)
  BY <1>10, <1>11 DEF ReadBack
<1> QED BY <1>1, <1>10, <1>12 DEF s

\* A rule has words for a name, and none but the default is without.
LEMMA NameIsWords ==
  ASSUME NEW i \in Indexes
  PROVE  NameOf(i) \in Words /\ (NameOf(i) = <<>> => i = 0)
<1>1. CASE i = 0
  BY <1>1, EmptySeq DEF NameOf, Words
<1>2. CASE i # 0
  <2>1. i \in DOMAIN Rules /\ NameOf(i) = RuleName(i)
    BY <1>2 DEF NameOf, Indexes
  <2>2. FileName[i] \in Words /\ Position[i] \in STRING
    BY <2>1, RefusalsAssumption DEF Words
  <2>3. <<Position[i]>> \in Words /\ <<Position[i]>> # <<>>
    <3>1. <<Position[i]>> \in [1..1 -> STRING]
      BY <2>2
    <3>2. <<Position[i]>> \in Words
      BY <3>1, SeqDef DEF Words
    <3>3. Len(<<Position[i]>>) = 1 /\ Len(<<>>) = 0
      OBVIOUS
    <3> QED BY <3>2, <3>3
  <2> QED BY <2>1, <2>2, <2>3 DEF RuleName
<1> QED BY <1>1, <1>2

\* What /dev/kmsg gives for a word: the word of a mark, and no mark for another.
Escaped(w) == IF w \in DOMAIN Escapes THEN Escapes[w] ELSE w

\* A mark is given as it is, and what is given as a mark is that mark.
LEMMA EscapedWord ==
  ASSUME NEW w \in Word
  PROVE  /\ Escaped(w) \in Word
         /\ w \in STRING => Escaped(w) \in STRING
         /\ w \in Marks => Escaped(w) = w
         /\ Escaped(w) \in Marks => Escaped(w) = w
BY RefusalsAssumption DEF Escaped, Word

\* A text comes out of /dev/kmsg word by word.
LEMMA KmsgWords ==
  ASSUME NEW text \in Text
  PROVE  /\ Kmsg(text) \in Text /\ Len(Kmsg(text)) = Len(text)
         /\ DOMAIN Kmsg(text) = DOMAIN text
         /\ \A j \in DOMAIN text : Kmsg(text)[j] = Escaped(text[j])
<1>1. /\ Len(text) \in Nat /\ DOMAIN text = 1..Len(text)
      /\ \A j \in 1..Len(text) : text[j] \in Word
  BY LenProperties, ElementOfSeq DEF Text
<1>2. Kmsg(text) = [j \in 1..Len(text) |-> Escaped(text[j])]
  BY <1>1 DEF Kmsg, Escaped
<1>3. \A j \in 1..Len(text) : Escaped(text[j]) \in Word
  BY <1>1, EscapedWord
<1>4. Kmsg(text) \in [1..Len(text) -> Word]
  BY <1>2, <1>3
<1>5. Kmsg(text) \in Text
  BY <1>1, <1>4, SeqDef DEF Text
<1>6. Len(Kmsg(text)) = Len(text)
  BY <1>1, <1>4, <1>5, LenProperties DEF Text
<1> QED BY <1>1, <1>2, <1>5, <1>6

\* A name comes out as words, and none comes out as none.
LEMMA KmsgName ==
  ASSUME NEW name \in Words
  PROVE  /\ Kmsg(name) \in Words /\ Len(Kmsg(name)) = Len(name)
         /\ \A j \in 1..Len(name) : Kmsg(name)[j] = Escaped(name[j])
<1>1. /\ Len(name) \in Nat /\ DOMAIN name = 1..Len(name) /\ name \in Text
      /\ \A j \in 1..Len(name) : name[j] \in STRING
  BY NamesAreTexts, LenProperties, ElementOfSeq DEF Words
<1>2. /\ Kmsg(name) \in Text /\ Len(Kmsg(name)) = Len(name)
      /\ DOMAIN Kmsg(name) = 1..Len(name)
      /\ \A j \in 1..Len(name) : Kmsg(name)[j] = Escaped(name[j])
  BY <1>1, KmsgWords
<1>3. \A j \in 1..Len(name) : Escaped(name[j]) \in STRING
  BY <1>1, EscapedWord DEF Word
<1>4. Kmsg(name) = [j \in 1..Len(name) |-> Escaped(name[j])]
  BY <1>1 DEF Kmsg, Escaped
<1>5. Kmsg(name) \in [1..Len(name) -> STRING]
  BY <1>3, <1>4
<1>6. Kmsg(name) \in Words
  BY <1>1, <1>5, SeqDef DEF Words
<1> QED BY <1>2, <1>6

\* What is left of the prefix comes out as what is left of the name as it comes out.
LEMMA KmsgKeeps ==
  ASSUME NEW name \in Words, NEW text, NEW k, Keeps(text, k, name)
  PROVE  Keeps(Kmsg(text), k, Kmsg(name))
<1>1. /\ text \in Text /\ k \in Nat /\ k <= Len(name) + 2 /\ k <= Len(text)
      /\ 1 <= Len(text) /\ text[1] = "deny["
      /\ \A j \in 1..Len(name) : j + 1 <= k => text[j + 1] = name[j]
      /\ \A j \in DOMAIN text : text[j] = "]" => j <= k
  BY DEF Keeps
<1>2. /\ Kmsg(text) \in Text /\ Len(Kmsg(text)) = Len(text)
      /\ DOMAIN Kmsg(text) = DOMAIN text
      /\ \A j \in DOMAIN text : Kmsg(text)[j] = Escaped(text[j])
  BY <1>1, KmsgWords
<1>3. /\ Len(Kmsg(name)) = Len(name) /\ Len(name) \in Nat
      /\ \A j \in 1..Len(name) : Kmsg(name)[j] = Escaped(name[j])
  BY KmsgName, LenProperties DEF Words
<1>4. /\ Len(text) \in Nat /\ DOMAIN text = 1..Len(text)
      /\ \A j \in 1..Len(text) : text[j] \in Word
  BY <1>1, LenProperties, ElementOfSeq DEF Text
<1>5. 1 \in DOMAIN text
  BY <1>1, <1>4
<1>6. Kmsg(text)[1] = "deny["
  <2>1. "deny[" \in Marks /\ "deny[" \in Word
    BY <1>4, <1>5, SharedWords DEF Marks
  <2> QED BY <1>1, <1>2, <1>5, <2>1, EscapedWord
<1>7. ASSUME NEW j \in 1..Len(name), j + 1 <= k PROVE Kmsg(text)[j + 1] = Kmsg(name)[j]
  <2>1. j + 1 \in 1..Len(text)
    BY <1>1, <1>3, <1>4, <1>7
  <2> QED BY <1>1, <1>2, <1>3, <1>4, <1>7, <2>1
<1>8. ASSUME NEW j \in DOMAIN text, Kmsg(text)[j] = "]" PROVE j <= k
  <2>1. text[j] \in Word /\ Escaped(text[j]) = "]" /\ "]" \in Marks
    BY <1>2, <1>4, <1>8 DEF Marks
  <2>2. text[j] = "]"
    BY <2>1, EscapedWord
  <2> QED BY <1>1, <2>2
<1> QED BY <1>1, <1>2, <1>3, <1>6, <1>7, <1>8 DEF Keeps

\* Through LogPrefix, its cut, /dev/kmsg and ParseLine, what comes out is the name
\* that went in, as /dev/kmsg escapes it, whole or up to a "]: " in it
\* (plan.go:144-153, kmsg.go:22-46).
LEMMA ParsedIsReadBack ==
  ASSUME NEW i \in Indexes, ParseLine(LineOf(i)).ok
  PROVE  ParseLine(LineOf(i)).rule \in Words /\ ReadBack(ParseLine(LineOf(i)).rule, Kmsg(NameOf(i)))
<1> DEFINE name == NameOf(i)
           p == <<"deny[">> \o name \o <<"]">>
           text == LogPrefix(name) \o <<"DST">>
           n == Len(name)
<1>1. name \in Words /\ n \in Nat
  BY NameIsWords, LenProperties DEF Words
<1>2. MaxPrefix \in Nat \ {0}
  BY RefusalsAssumption
<1>3. LineOf(i) = Kmsg(text)
  BY DEF LineOf
<1>4. CASE name = <<>>
  <2> DEFINE q == <<"default-deny">>
  <2>1. q \in Text /\ Len(q) = 1 /\ q[1] = "default-deny"
    <3>1. q \in [1..1 -> Word]
      BY SharedWords
    <3>2. q \in Text
      BY <3>1, SeqDef DEF Text
    <3> QED BY <3>2
  <2>2. LogPrefix(name) = q
    <3> HIDE DEF name
    <3> QED BY <1>2, <1>4, <2>1 DEF LogPrefix
  <2>3. text = q \o <<"DST">>
    BY <2>2
  <2> HIDE DEF q, text
  <2>4. text \in Text /\ 1 \in DOMAIN text /\ text[1] = "default-deny"
    <3>1. q \in Text /\ "DST" \in Word /\ text = After(q, "DST")
      BY <2>1, <2>3, SharedWords DEF After
    <3>2. /\ text \in Text /\ DOMAIN text = 1..(Len(q) + 1)
          /\ \A j \in 1..Len(q) : text[j] = q[j]
      BY <3>1, WordAfter
    <3> QED BY <2>1, <3>2
  <2>5. Kmsg(text)[1] = "default-deny"
    <3>1. "default-deny" \in Word /\ "default-deny" \in Marks
      BY SharedWords DEF Marks
    <3> QED BY <2>4, <3>1, KmsgWords, EscapedWord
  <2>6. ParseLine(Kmsg(text)).rule = <<>>
    BY <2>5 DEF ParseLine
  <2>7. Kmsg(name) = <<>>
    <3> HIDE DEF name
    <3>1. Kmsg(name) \in Words /\ Len(Kmsg(name)) = Len(name) /\ Len(name) = 0
      BY <1>1, <1>4, KmsgName
    <3> QED BY <3>1, EmptySeq DEF Words
  <2> HIDE DEF name
  <2> QED BY <1>3, <2>6, <2>7, NothingIsReadBack DEF name
<1>5. CASE name # <<>>
  <2>1. /\ p \in Text /\ Len(p) = n + 2 /\ p[1] = "deny["
        /\ \A j \in 1..n : p[j + 1] = name[j]
    BY <1>1, PrefixWords
  <2>2. LogPrefix(name) =
          IF Len(p) > MaxPrefix THEN SubSeq(p, 1, MaxPrefix - 1) \o <<"..">> ELSE p
    <3> HIDE DEF name
    <3> QED BY <1>5 DEF LogPrefix
  <2>3. text = LogPrefix(name) \o <<"DST">> /\ ParseLine(Kmsg(text)).ok
    BY <1>3
  <2> HIDE DEF p, name, n, text
  <2>4. CASE ~ (Len(p) > MaxPrefix)
    <3>1. text = p \o <<"DST">>
      BY <2>2, <2>3, <2>4
    <3>2. /\ text \in Text /\ Len(text) = (n + 2) + 1 /\ DOMAIN text = 1..((n + 2) + 1)
          /\ text[(n + 2) + 1] = "DST"
          /\ \A j \in 1..(n + 2) : text[j] = p[j]
      <4>1. p \in Text /\ "DST" \in Word /\ text = After(p, "DST")
        BY <2>1, <3>1, SharedWords DEF After
      <4>2. /\ text \in Text /\ Len(text) = Len(p) + 1 /\ DOMAIN text = 1..(Len(p) + 1)
            /\ text[Len(p) + 1] = "DST" /\ \A j \in 1..Len(p) : text[j] = p[j]
        BY <4>1, WordAfter
      <4> QED BY <2>1, <4>2
    <3>3. ASSUME NEW j \in DOMAIN text, text[j] = "]" PROVE j <= n + 2
      <4>1. j # (n + 2) + 1
        BY <3>2, <3>3
      <4> QED BY <1>1, <3>2, <4>1
    <3>4. text[1] = "deny[" /\ n + 2 \in Nat /\ n + 2 <= Len(text) /\ n + 2 <= n + 2
      BY <1>1, <2>1, <3>2
    <3>5. ParseLine(Kmsg(text)).rule \in Words /\ ReadBack(ParseLine(Kmsg(text)).rule, Kmsg(name))
      <4>1. \A j \in 1..n : j + 1 <= n + 2 => text[j + 1] = name[j]
        <5>1. \A j \in 1..n : j + 1 \in 1..(n + 2)
          BY <1>1
        <5> QED BY <2>1, <3>2, <5>1
      <4>2. Keeps(text, n + 2, name)
        BY <3>2, <3>3, <3>4, <4>1 DEF Keeps, n
      <4> QED BY <1>1, <2>3, <4>2, KmsgKeeps, KmsgName, LeftOfPrefix
    <3> QED BY <1>3, <3>5 DEF name
  <2>5. CASE Len(p) > MaxPrefix
    <3> DEFINE k == MaxPrefix - 1
               left == SubSeq(p, 1, k)
               short == left \o <<"..">>
    <3>1. text = short \o <<"DST">>
      BY <2>2, <2>3, <2>5
    <3>2. k \in Nat /\ k <= n + 1
      BY <1>1, <1>2, <2>1, <2>5
    <3> HIDE DEF k
    <3>3. left \in Text /\ Len(left) = k /\ \A j \in 1..k : left[j] = p[j]
      <4>1. \A j \in 1..k : p[j] \in Word
        <5>1. \A j \in 1..k : j \in 1..Len(p)
          BY <1>1, <2>1, <3>2
        <5> QED BY <2>1, <5>1, ElementOfSeq DEF Text
      <4>2. /\ left \in Text /\ Len(left) = IF 1 <= k THEN k - 1 + 1 ELSE 0
            /\ \A j \in 1..(k - 1 + 1) : left[j] = p[1 + j - 1]
        BY <3>2, <4>1, SubSeqProperties DEF Text
      <4>3. \A j \in 1..k : j \in 1..(k - 1 + 1) /\ 1 + j - 1 = j
        BY <3>2
      <4> HIDE DEF left
      <4> QED BY <3>2, <4>2, <4>3
    <3> HIDE DEF left
    <3>4. /\ short \in Text /\ Len(short) = k + 1 /\ short[k + 1] = ".."
          /\ \A j \in 1..k : short[j] = left[j]
      <4>1. left \in Text /\ ".." \in Word /\ short = After(left, "..")
        BY <3>3, SharedWords DEF After
      <4> HIDE DEF short
      <4>2. /\ short \in Text /\ Len(short) = Len(left) + 1
            /\ short[Len(left) + 1] = ".." /\ \A j \in 1..Len(left) : short[j] = left[j]
        BY <4>1, WordAfter
      <4> QED BY <3>3, <4>2
    <3> HIDE DEF short
    <3>5. /\ text \in Text /\ Len(text) = (k + 1) + 1 /\ DOMAIN text = 1..((k + 1) + 1)
          /\ text[(k + 1) + 1] = "DST"
          /\ \A j \in 1..(k + 1) : text[j] = short[j]
      <4>1. short \in Text /\ "DST" \in Word /\ text = After(short, "DST")
        BY <3>1, <3>4, SharedWords DEF After
      <4>2. /\ text \in Text /\ Len(text) = Len(short) + 1
            /\ DOMAIN text = 1..(Len(short) + 1) /\ text[Len(short) + 1] = "DST"
            /\ \A j \in 1..Len(short) : text[j] = short[j]
        BY <4>1, WordAfter
      <4> QED BY <3>4, <4>2
    <3>6. \A j \in 1..k : j \in 1..(k + 1) /\ text[j] = p[j]
      BY <3>2, <3>3, <3>4, <3>5
    <3>7. text[k + 1] = ".."
      BY <3>2, <3>4, <3>5
    <3>8. ASSUME NEW j \in DOMAIN text, text[j] = "]" PROVE j <= k
      <4>1. j # k + 1 /\ j # (k + 1) + 1
        BY <3>5, <3>7, <3>8
      <4> QED BY <3>2, <3>5, <4>1
    <3>9. text[1] = "deny["
      <4>1. CASE k = 0
        <5>1. text[1] = ".." /\ 1 \in DOMAIN text /\ text \in Text
          BY <3>5, <3>7, <4>1
        <5>2. ".." \in Word /\ ".." \in Marks
          BY SharedWords DEF Marks
        <5>3. Kmsg(text)[1] = ".."
          BY <5>1, <5>2, KmsgWords, EscapedWord
        <5> QED BY <2>3, <5>3 DEF ParseLine
      <4>2. CASE k # 0
        BY <2>1, <3>2, <3>6, <4>2
      <4> QED BY <4>1, <4>2
    <3>10. k <= n + 2 /\ k <= Len(text)
      BY <1>1, <3>2, <3>5
    <3>11. ParseLine(Kmsg(text)).rule \in Words /\ ReadBack(ParseLine(Kmsg(text)).rule, Kmsg(name))
      <4>1. \A j \in 1..n : j + 1 <= k => text[j + 1] = name[j]
        <5>1. \A j \in 1..n : j + 1 <= k => j + 1 \in 1..k
          BY <1>1
        <5> QED BY <2>1, <3>6, <5>1
      <4>2. Keeps(text, k, name)
        BY <3>2, <3>5, <3>8, <3>9, <3>10, <4>1 DEF Keeps, n
      <4> QED BY <1>1, <2>3, <4>2, KmsgKeeps, KmsgName, LeftOfPrefix
    <3> QED BY <1>3, <3>11 DEF name
  <2> QED BY <2>4, <2>5
<1> QED BY <1>4, <1>5
----------------------------------------------------------------------------
(* The types, and the name an alert carries, of every reachable state.     *)

Hosts == {a.name : a \in Answers} \cup {NoName}

\* What an entry of the cache is.
IsEntry(entry) ==
  entry.name \in Hosts /\ entry = [name |-> entry.name, left |-> entry.left]

NamesOK == cache = [ip \in Addrs |-> cache[ip]] /\ \A ip \in Addrs : IsEntry(cache[ip])

\* An event names the rule that refused, as it is read back or, in a dry run, as it is.
Tells(e) ==
  e \in Events /\ ReadBack(e.rule, IF dryRun THEN NameOf(e.by) ELSE Kmsg(NameOf(e.by)))

\* Every record holds the line of its rule, if it is of a refusal.
LinesOK ==
  \A i \in DOMAIN ring :
    ring[i].text = IF ring[i].id = 0 THEN <<"ufw", "DST">> ELSE LineOf(ring[i].by)

\* What the goroutine has in hand is a refusal that was logged; a dry run has none.
HeldOK ==
  /\ dryRun => tail = "none"
  /\ tail \in {"none", "read", "lookup", "send", "over", "failed"}
  /\ tail \in {"lookup", "send"} => event.id \in DOMAIN refused /\ event.ip \in Addrs
  /\ Tells(event) /\ Tells(sent)

LedgerOK == Len(refused) <= MaxRefusals /\ alerted \cup overwritten \subseteq DOMAIN refused

FlagsOK == dryRun \in BOOLEAN /\ stop \in BOOLEAN /\ behind \in BOOLEAN

AgesOK == \A d \in Slots : seen[d].left <= Memory

TypeInv ==
  FlagsOK /\ NamesOK /\ LinesOK /\ HeldOK /\ LedgerOK /\ AgesOK /\ Len(ring) <= RingCap

\* The cache gives a name that was answered, or none.
LEMMA LookupNames ==
  ASSUME NamesOK, NEW ip, Unmap(ip) \in Addrs
  PROVE  Lookup(cache, ip) \in Hosts
BY DEF NamesOK, IsEntry, Lookup, Hosts

\* An answer recorded, and time, leave entries in the cache.
LEMMA NamesKept ==
  ASSUME NamesOK
  PROVE  /\ \A a \in Answers : cache' = Record(cache, a) => NamesOK'
         /\ cache' = Purge(Aged(cache)) => NamesOK'
<1>1. ASSUME NEW a \in Answers, cache' = Record(cache, a) PROVE NamesOK'
  <2> DEFINE entry == [name |-> a.name, left |-> IF a.ttl < MinTTL THEN MinTTL ELSE a.ttl]
  <2>1. IsEntry(entry)
    BY DEF IsEntry, Hosts
  <2>2. cache' = [ip \in Addrs |-> IF ip \in a.addrs THEN entry ELSE cache[ip]]
    BY <1>1 DEF Record
  <2> HIDE DEF entry
  <2> QED BY <2>1, <2>2 DEF NamesOK
<1>2. ASSUME cache' = Purge(Aged(cache)) PROVE NamesOK'
  <2> DEFINE aged(ip) == [cache[ip] EXCEPT !.left = IF @ = Expired THEN Expired ELSE @ - 1]
  <2>1. ASSUME NEW ip \in Addrs PROVE IsEntry(aged(ip))
    <3>1. IsEntry(cache[ip])
      BY DEF NamesOK
    <3>2. aged(ip) = [name |-> cache[ip].name,
                      left |-> IF cache[ip].left = Expired THEN Expired ELSE cache[ip].left - 1]
      BY <3>1 DEF IsEntry
    <3> QED BY <3>1, <3>2 DEF IsEntry
  <2>2. IsEntry(NoEntry)
    BY DEF IsEntry, NoEntry, Hosts
  <2>3. Aged(cache) = [ip \in Addrs |-> aged(ip)]
    BY DEF Aged
  <2> HIDE DEF aged
  <2>4. cache' = [ip \in Addrs |-> IF aged(ip).left = Expired THEN NoEntry ELSE aged(ip)]
    BY <1>2, <2>3 DEF Purge
  <2> QED BY <2>1, <2>2, <2>4 DEF NamesOK
<1> QED BY <1>1, <1>2

\* The rule a flow is evaluated to is one of the policy's, or its default.
LEMMA EvaluatedRule ==
  ASSUME NEW f \in Flows
  PROVE  Evaluated(f).rule \in Indexes
<1> DEFINE d == [domain |-> Lookup(cache, f.ip), ip |-> f.ip, port |-> f.port,
                 proto |-> f.proto, cgroup |-> f.cgroup]
           hits == Matching(Rules, d)
<1>1. hits \subseteq DOMAIN Rules /\ hits \in SUBSET Nat
  BY RefusalsAssumption DEF Matching
<1>2. Evaluated(f) = Evaluate(Rules, Default, d)
  BY DEF Evaluated
<1> HIDE DEF d
<1>3. CASE hits = {}
  BY <1>2, <1>3 DEF Evaluate, Indexes
<1>4. CASE hits # {}
  <2>1. Min(hits) \in hits
    BY <1>1, <1>4, MinIsLeast
  <2>2. Evaluated(f).rule = Min(hits)
    BY <1>2, <1>4 DEF Evaluate
  <2> QED BY <1>1, <2>1, <2>2 DEF Indexes
<1> QED BY <1>3, <1>4

\* A name that nothing cuts is read back whole.
LEMMA NameIsReadBack ==
  ASSUME NEW i \in Indexes
  PROVE  NameOf(i) \in Words /\ ReadBack(NameOf(i), NameOf(i))
<1>1. NameOf(i) \in Words /\ Len(NameOf(i)) \in Nat
  BY NameIsWords, LenProperties DEF Words
<1> QED BY <1>1 DEF IsPrefix, ReadBack

\* No event is the default's, and tells so.
LEMMA NoEventTells == Tells(NoEvent)
<1>1. 0 \in Indexes /\ NameOf(0) = <<>>
  BY DEF Indexes, NameOf
<1>2. <<>> \in Words /\ ReadBack(<<>>, <<>>)
  BY NothingIsReadBack
<1>3. Kmsg(<<>>) = <<>>
  <2>1. Kmsg(<<>>) \in Words /\ Len(Kmsg(<<>>)) = Len(<<>>) /\ Len(<<>>) = 0
    BY <1>2, KmsgName
  <2> QED BY <2>1, EmptySeq DEF Words
<1>4. 0 \in 0..MaxRefusals
  BY RefusalsAssumption
<1>5. /\ NoEvent.rule = <<>> /\ NoEvent.by = 0
      /\ NoEvent \in Events
  BY <1>2, <1>4 DEF NoEvent, Events
<1> QED BY <1>1, <1>2, <1>3, <1>5 DEF Tells

\* An address a flow goes to is one the cache has a slot for.
LEMMA FlowAddrs ==
  ASSUME NEW f \in Flows
  PROVE  f.ip \in Addrs /\ Unmap(f.ip) \in Addrs
BY RefusalsAssumption, AddrsAssumption

\* A record of the ring is parsed to an event that tells.
LEMMA TakenTells ==
  ASSUME RingOK, LinesOK, LedgerOK, ring # <<>>, ParseLine(Head(ring).text).ok, ~ dryRun
  PROVE  LET line == Head(ring)
         IN  /\ line.id \in DOMAIN refused /\ line.ip \in Addrs
             /\ Tells([id |-> line.id, rule |-> ParseLine(line.text).rule, ip |-> line.ip,
                       host |-> NoName, by |-> line.by])
<1> DEFINE line == ring[1]
<1>1. ring \in Seq(Records) /\ Head(ring) = line /\ 1 \in DOMAIN ring
  BY HeadTailProperties, EmptySeq, LenProperties DEF RingOK
<1>2. line \in Records
  BY <1>1, ElementOfSeq, LenProperties
<1>3. line.id # 0
  <2> SUFFICES ASSUME line.id = 0 PROVE FALSE
    OBVIOUS
  <2>1. line.text = <<"ufw", "DST">>
    BY <1>1 DEF LinesOK
  <2>2. line.text[1] = "ufw"
    BY <2>1
  <2> QED BY <1>1, <2>2 DEF ParseLine
<1>4. line.id \in DOMAIN refused
  BY <1>1, <1>3 DEF RingOK
<1>5. line.id \in 0..MaxRefusals
  <2>1. Len(refused) \in Nat /\ DOMAIN refused = 1..Len(refused) /\ Len(refused) <= MaxRefusals
    BY LenProperties DEF RingOK, LedgerOK
  <2> QED BY <1>4, <2>1, RefusalsAssumption
<1>6. line.by \in Indexes /\ line.ip \in Addrs
  BY <1>2, FlowAddrs DEF Records
<1>7. line.text = LineOf(line.by)
  BY <1>1, <1>3 DEF LinesOK
<1>8. /\ ParseLine(line.text).rule \in Words
      /\ ReadBack(ParseLine(line.text).rule, Kmsg(NameOf(line.by)))
  BY <1>1, <1>6, <1>7, ParsedIsReadBack
<1> HIDE DEF line
<1> QED BY <1>1, <1>4, <1>5, <1>6, <1>8 DEF Tells, Events, Hosts, Indexes

\* A record that enters the ring is of the refusal it counts, if any, and finds
\* room: the ring never holds more than its capacity.
LEMMA LogTypes ==
  ASSUME RingOK, LinesOK, LedgerOK, Len(ring) <= RingCap, NEW record \in Records, Log(record),
         UNCHANGED alerted, behind \in BOOLEAN,
         record.text = IF record.id = 0 THEN <<"ufw", "DST">> ELSE LineOf(record.by),
         \/ refused' = refused
         \/ \E rule \in Indexes : refused' = Append(refused, rule) /\ Len(refused) < MaxRefusals
  PROVE  /\ LinesOK' /\ LedgerOK' /\ Len(ring') <= RingCap /\ behind' \in BOOLEAN
         /\ DOMAIN refused \subseteq DOMAIN refused'
<1>1. /\ ring \in Seq(Records) /\ Len(ring) \in Nat /\ RingCap \in Nat \ {0}
      /\ refused \in Seq(Indexes) /\ Len(refused) \in Nat /\ DOMAIN refused = 1..Len(refused)
  BY RefusalsAssumption, LenProperties DEF RingOK
<1>2. LinesOK'
  <2>1. \A i \in DOMAIN ring' : ring'[i] = record \/ \E j \in DOMAIN ring : ring'[i] = ring[j]
    BY <1>1, RingAfterLog
  <2> QED BY <2>1 DEF LinesOK
<1>3. Len(ring') <= RingCap
  <2> DEFINE kept == IF Len(ring) = RingCap THEN Tail(ring) ELSE ring
  <2>1. kept \in Seq(Records) /\ Len(kept) < RingCap
    <3>1. CASE Len(ring) = RingCap
      <4>1. ring # <<>>
        BY <1>1, <3>1, EmptySeq
      <4>2. Tail(ring) \in Seq(Records) /\ Len(Tail(ring)) = Len(ring) - 1
        BY <1>1, <4>1, HeadTailProperties
      <4> QED BY <1>1, <3>1, <4>2
    <3>2. CASE Len(ring) # RingCap
      BY <1>1, <3>2
    <3> QED BY <3>1, <3>2
  <2>2. ring' = Append(kept, record)
    BY DEF Log
  <2> HIDE DEF kept
  <2>3. Len(kept) \in Nat /\ Len(ring') = Len(kept) + 1
    BY <2>1, <2>2, AppendProperties, LenProperties
  <2> QED BY <1>1, <2>1, <2>3
<1>4. DOMAIN refused \subseteq DOMAIN refused' /\ Len(refused') <= MaxRefusals
  <2>1. ASSUME NEW rule \in Indexes, refused' = Append(refused, rule), Len(refused) < MaxRefusals
        PROVE  DOMAIN refused \subseteq DOMAIN refused' /\ Len(refused') <= MaxRefusals
    <3>1. refused' \in Seq(Indexes) /\ Len(refused') = Len(refused) + 1
      BY <1>1, <2>1, AppendProperties
    <3>2. DOMAIN refused' = 1..(Len(refused) + 1)
      BY <3>1, LenProperties
    <3>3. MaxRefusals \in Nat
      BY RefusalsAssumption
    <3>4. Len(refused) + 1 <= MaxRefusals
      <4>1. Len(refused) \in Nat /\ Len(refused) < MaxRefusals
        BY <1>1, <2>1
      <4> QED BY <3>3, <4>1
    <3> QED BY <1>1, <3>1, <3>2, <3>4
  <2> QED BY <2>1 DEF LedgerOK
<1>5. overwritten' \subseteq DOMAIN refused
  <2>1. CASE Len(ring) = RingCap
    <3>1. ring # <<>>
      BY <1>1, <2>1, EmptySeq
    <3>2. Head(ring) = ring[1] /\ 1 \in DOMAIN ring
      BY <1>1, <3>1, HeadTailProperties, LenProperties
    <3>3. Head(ring).id = 0 \/ Head(ring).id \in DOMAIN refused
      BY <3>2 DEF RingOK
    <3> QED BY <2>1, <3>3 DEF Log, LedgerOK
  <2>2. CASE Len(ring) # RingCap
    BY <2>2 DEF Log, LedgerOK
  <2> QED BY <2>1, <2>2
<1>6. behind' \in BOOLEAN
  BY DEF Log
<1> QED BY <1>2, <1>3, <1>4, <1>5, <1>6 DEF LedgerOK

\* Before anything is logged or reported the types hold.
LEMMA InitTypes == Init => TypeInv
<1> SUFFICES ASSUME Init PROVE TypeInv
  OBVIOUS
<1>1. FlagsOK
  BY DEF Init, FlagsOK
<1>2. NamesOK
  BY DEF Init, NamesOK, NoCache, NoEntry, IsEntry, Hosts
<1>3. ring = <<>> /\ Len(ring) = 0 /\ refused = <<>> /\ Len(refused) = 0
  BY DEF Init
<1>4. LinesOK /\ LedgerOK /\ Len(ring) <= RingCap
  BY <1>3, RefusalsAssumption DEF Init, LinesOK, LedgerOK
<1>5. Tells(event) /\ Tells(sent)
  BY NoEventTells DEF Init
<1>6. HeldOK
  BY <1>5 DEF Init, HeldOK
<1>7. AgesOK
  BY RefusalsAssumption DEF Init, AgesOK, Slots, NotSeen
<1> QED BY <1>1, <1>2, <1>4, <1>6, <1>7 DEF TypeInv

\* What the kernel's side and the goroutine's step leave alone.
others == <<dryRun, stop, cache, seen, sent>>

\* Every step keeps the types and what an event tells.
LEMMA NextTypes ==
  ASSUME IInv, TypeInv, [Next]_vars
  PROVE  TypeInv'
<1>1. RingOK /\ HandOK /\ SlotsTell
  BY DEF IInv
<1>2. /\ FlagsOK /\ NamesOK /\ LinesOK /\ HeldOK /\ LedgerOK /\ AgesOK
      /\ Len(ring) <= RingCap
  BY DEF TypeInv
<1>3. MaxRefusals \in Nat /\ Memory \in Nat /\ RingCap \in Nat \ {0}
  BY RefusalsAssumption
<1>4. ASSUME NEW record \in Records, Log(record), UNCHANGED <<alerted, tail, event, others>>,
             record.text = IF record.id = 0 THEN <<"ufw", "DST">> ELSE LineOf(record.by),
             \/ refused' = refused
             \/ \E rule \in Indexes :
                  refused' = Append(refused, rule) /\ Len(refused) < MaxRefusals
      PROVE  TypeInv'
  <2>1. behind \in BOOLEAN
    BY <1>2 DEF FlagsOK
  <2>2. /\ LinesOK' /\ LedgerOK' /\ Len(ring') <= RingCap /\ behind' \in BOOLEAN
        /\ DOMAIN refused \subseteq DOMAIN refused'
    BY <1>1, <1>2, <1>4, <2>1, LogTypes
  <2>3. HeldOK'
    BY <1>2, <1>4, <2>2 DEF HeldOK, others, Tells
  <2>4. FlagsOK' /\ NamesOK' /\ AgesOK'
    BY <1>2, <1>4, <2>2 DEF FlagsOK, NamesOK, AgesOK, others
  <2> QED BY <2>2, <2>3, <2>4 DEF TypeInv
<1>5. ASSUME NEW rule \in Refusing, NEW f \in Flows, KernelRefuses(rule, f.ip)
      PROVE  TypeInv'
  <2>1. rule \in Indexes
    BY DEF Refusing, Indexes
  <2>2. /\ refused' = Append(refused, rule) /\ Len(refused) < MaxRefusals
        /\ UNCHANGED <<alerted, tail, event, others>>
    BY <1>5 DEF KernelRefuses, reader, others
  <2>3. Len(refused) \in Nat /\ Len(refused') = Len(refused) + 1
    BY <1>1, <2>1, <2>2, AppendProperties, LenProperties DEF RingOK
  <2> DEFINE record == [id |-> Len(refused'), text |-> LineOf(rule), ip |-> Unmap(f.ip),
                        by |-> rule]
  <2>4. Log(record)
    BY <1>5 DEF KernelRefuses
  <2>5. record \in Records
    BY <2>1, <2>3, RecordsAre DEF Lines
  <2>6. record.id # 0 /\ record.text = LineOf(record.by)
    BY <2>3
  <2> HIDE DEF record
  <2> QED BY <1>4, <2>1, <2>2, <2>4, <2>5, <2>6
<1>6. ASSUME NEW f \in Flows, KernelLogs(f.ip)
      PROVE  TypeInv'
  <2> DEFINE record == [id |-> 0, text |-> <<"ufw", "DST">>, ip |-> Unmap(f.ip), by |-> 0]
  <2>1. Log(record) /\ UNCHANGED <<alerted, tail, event, others, refused>>
    BY <1>6 DEF KernelLogs, reader, others
  <2>2. 0 \in Indexes /\ <<"ufw", "DST">> \in Lines /\ 0 \in Nat
    BY DEF Indexes, Lines
  <2>3. record \in Records
    BY <2>2, RecordsAre
  <2>4. record.id = 0 /\ record.text = <<"ufw", "DST">>
    OBVIOUS
  <2> HIDE DEF record
  <2> QED BY <1>4, <2>1, <2>3, <2>4
<1>7. CASE TailRead
  <2>1. /\ tail = "read" /\ ring # <<>>
        /\ UNCHANGED <<others, refused, alerted, overwritten>>
    BY <1>7 DEF TailRead, others
  <2>2. FlagsOK' /\ NamesOK' /\ AgesOK' /\ LedgerOK'
    <3>1. behind' \in BOOLEAN
      BY <1>2, <1>7 DEF FlagsOK, TailRead, CarryOn, TakeLine
    <3> QED BY <1>2, <2>1, <3>1 DEF FlagsOK, NamesOK, AgesOK, LedgerOK, others
  <2>3. CASE behind
    <3>1. UNCHANGED <<dryRun, ring, tail, event, sent, refused>>
      BY <1>7, <2>1, <2>3 DEF TailRead, CarryOn, others
    <3>2. HeldOK' /\ LinesOK' /\ Len(ring') <= RingCap
      BY <1>2, <3>1 DEF HeldOK, LinesOK, Tells
    <3> QED BY <2>2, <3>2 DEF TypeInv
  <2>4. CASE ~ behind
    <3> DEFINE line  == Head(ring)
               taken == [id |-> line.id, rule |-> ParseLine(line.text).rule, ip |-> line.ip,
                         host |-> NoName, by |-> line.by]
    <3>1. /\ ring' = Tail(ring)
          /\ \/ ParseLine(line.text).ok /\ event' = taken /\ tail' = "lookup"
             \/ ~ ParseLine(line.text).ok /\ UNCHANGED <<event, tail>>
      BY <1>7, <2>4 DEF TailRead, TakeLine
    <3>2. ParseLine(line.text).ok => /\ line.id \in DOMAIN refused /\ line.ip \in Addrs
                                       /\ Tells(taken)
      BY <1>1, <1>2, <2>1, TakenTells DEF HeldOK
    <3>3. taken.id = line.id /\ taken.ip = line.ip
      OBVIOUS
    <3> HIDE DEF taken, line
    <3>4. HeldOK'
      BY <1>2, <2>1, <3>1, <3>2, <3>3 DEF HeldOK, Tells, others
    <3>5. /\ ring \in Seq(Records) /\ Len(ring) \in Nat /\ DOMAIN ring = 1..Len(ring)
          /\ Tail(ring) \in Seq(Records) /\ Len(Tail(ring)) = Len(ring) - 1
          /\ \A i \in 1..Len(Tail(ring)) : Tail(ring)[i] = ring[i + 1]
      BY <1>1, <2>1, HeadTailProperties, LenProperties DEF RingOK
    <3>6. DOMAIN ring' = 1..(Len(ring) - 1)
      BY <3>1, <3>5, LenProperties
    <3>7. \A i \in DOMAIN ring' : i + 1 \in DOMAIN ring /\ ring'[i] = ring[i + 1]
      BY <3>1, <3>5, <3>6
    <3>8. LinesOK' /\ Len(ring') <= RingCap
      BY <1>2, <1>3, <3>1, <3>5, <3>7 DEF LinesOK
    <3> QED BY <2>2, <3>4, <3>8 DEF TypeInv
  <2> QED BY <2>3, <2>4
<1>8. CASE TailLookup
  <2>1. /\ tail = "lookup" /\ tail' = "send"
        /\ event' = [event EXCEPT !.host = Lookup(cache, event.ip)]
        /\ UNCHANGED <<others, ring, behind, refused, alerted, overwritten>>
    BY <1>8 DEF TailLookup, log, others
  <2>2. event' = [id |-> event.id, rule |-> event.rule, ip |-> event.ip,
                  host |-> Lookup(cache, event.ip), by |-> event.by]
    BY <1>1, <2>1 DEF HandOK
  <2>3. Tells(event) /\ event.ip \in Addrs
    BY <1>2, <2>1 DEF HeldOK
  <2>4. Lookup(cache, event.ip) \in Hosts
    BY <1>2, <2>3, AddrsAssumption, LookupNames
  <2>5. Tells(event')
    BY <2>2, <2>3, <2>4 DEF Tells, Events, Hosts
  <2>6. HeldOK'
    BY <1>2, <2>1, <2>2, <2>5 DEF HeldOK, Tells, others
  <2>7. FlagsOK' /\ NamesOK' /\ AgesOK' /\ LedgerOK' /\ LinesOK' /\ Len(ring') <= RingCap
    BY <1>2, <2>1 DEF FlagsOK, NamesOK, AgesOK, LedgerOK, LinesOK, others
  <2> QED BY <2>6, <2>7 DEF TypeInv
<1>9. CASE TailSend
  <2>1. /\ tail = "send" /\ tail' = "read" /\ sent' = event /\ event' = NoEvent
        /\ alerted' = alerted \cup {event.id}
        /\ UNCHANGED <<dryRun, stop, cache, seen, ring, behind, refused, overwritten>>
    BY <1>9 DEF TailSend, log
  <2>2. Tells(NoEvent)
    BY NoEventTells
  <2>3. HeldOK' /\ LedgerOK'
    BY <1>2, <2>1, <2>2 DEF HeldOK, LedgerOK, Tells
  <2>4. FlagsOK' /\ NamesOK' /\ AgesOK' /\ LinesOK' /\ Len(ring') <= RingCap
    BY <1>2, <2>1 DEF FlagsOK, NamesOK, AgesOK, LinesOK
  <2> QED BY <2>3, <2>4 DEF TypeInv
<1>10. CASE TailEnds
  <2>1. /\ tail = "read" /\ tail' \in {"over", "failed"}
        /\ UNCHANGED <<others, event, ring, behind, refused, alerted, overwritten>>
    BY <1>10 DEF TailEnds, log, others
  <2>2. HeldOK'
    BY <1>2, <2>1 DEF HeldOK, Tells, others
  <2>3. FlagsOK' /\ NamesOK' /\ AgesOK' /\ LedgerOK' /\ LinesOK' /\ Len(ring') <= RingCap
    BY <1>2, <2>1 DEF FlagsOK, NamesOK, AgesOK, LedgerOK, LinesOK, others
  <2> QED BY <2>2, <2>3 DEF TypeInv
<1>11. ASSUME UNCHANGED <<dryRun, tail, event, ring, behind, refused, alerted, overwritten>>,
              stop' \in BOOLEAN, NamesOK', AgesOK', Tells(sent')
       PROVE  TypeInv'
  <2>1. FlagsOK' /\ HeldOK' /\ LedgerOK' /\ LinesOK' /\ Len(ring') <= RingCap
    BY <1>2, <1>11 DEF FlagsOK, HeldOK, LedgerOK, LinesOK, Tells
  <2> QED BY <1>11, <2>1 DEF TypeInv
<1>12. Tells(sent) /\ stop \in BOOLEAN
  BY <1>2 DEF HeldOK, FlagsOK
<1>13. ASSUME NEW f \in Flows, Report(f)
       PROVE  TypeInv'
  <2>1. UNCHANGED <<dryRun, stop, cache, tail, event, ring, behind, refused, alerted, overwritten>>
    BY <1>13 DEF Report, log
  <2>2. AgesOK'
    <3> DEFINE took == [left |-> Memory, verdict |-> Evaluated(f).verdict,
                        domain |-> Lookup(cache, f.ip), cgroup |-> f.cgroup]
    <3>1. seen' = [seen EXCEPT ![Destination(f)] = took] /\ took.left = Memory
      BY <1>13 DEF Report, Slot
    <3> HIDE DEF took
    <3>2. \A d \in Slots : seen'[d] = IF d = Destination(f) THEN took ELSE seen[d]
      BY <1>1, <3>1 DEF SlotsTell
    <3> QED BY <1>2, <1>3, <3>1, <3>2 DEF AgesOK
  <2>3. Tells(sent')
    <3> DEFINE rule == Evaluated(f).rule
               told == [id |-> 0, rule |-> NameOf(rule), ip |-> f.ip,
                        host |-> Lookup(cache, f.ip), by |-> rule]
    <3>1. sent' = told \/ sent' = sent
      BY <1>13 DEF Report
    <3>2. rule \in Indexes
      BY EvaluatedRule
    <3> HIDE DEF rule
    <3>3. NameOf(rule) \in Words /\ ReadBack(NameOf(rule), NameOf(rule))
      BY <3>2, NameIsReadBack
    <3>4. Lookup(cache, f.ip) \in Hosts /\ f.ip \in Addrs
      BY <1>2, FlowAddrs, LookupNames
    <3>5. dryRun
      BY <1>13 DEF Report
    <3>6. Tells(told)
      BY <1>3, <3>2, <3>3, <3>4, <3>5 DEF Tells, Events, Hosts, Indexes
    <3> HIDE DEF told
    <3> QED BY <1>12, <3>1, <3>6
  <2>4. NamesOK'
    BY <1>2, <2>1 DEF NamesOK
  <2> QED BY <1>11, <1>12, <2>1, <2>2, <2>3, <2>4
<1>14. ASSUME NEW a \in Answers, ReadDns(a)
       PROVE  TypeInv'
  <2>1. /\ cache' = Record(cache, a)
        /\ UNCHANGED <<dryRun, stop, seen, tail, event, sent, ring, behind, refused, alerted,
                       overwritten>>
    BY <1>14 DEF ReadDns, reader, log
  <2>2. NamesOK' /\ AgesOK'
    BY <1>2, <2>1, NamesKept DEF AgesOK
  <2> QED BY <1>11, <1>12, <2>1, <2>2
<1>15. CASE Signal
  <2>1. /\ stop' = TRUE
        /\ UNCHANGED <<dryRun, cache, seen, tail, event, sent, ring, behind, refused, alerted,
                       overwritten>>
    BY <1>15 DEF Signal, reader, log
  <2>2. NamesOK' /\ AgesOK'
    BY <1>2, <2>1 DEF NamesOK, AgesOK
  <2> QED BY <1>11, <1>12, <2>1, <2>2
<1>16. CASE Tick
  <2>1. /\ cache' = Purge(Aged(cache))
        /\ UNCHANGED <<dryRun, stop, tail, event, sent, ring, behind, refused, alerted,
                       overwritten>>
    BY <1>16 DEF Tick, reader, log
  <2>2. NamesOK'
    BY <1>2, <2>1, NamesKept
  <2>3. AgesOK'
    <3> SUFFICES ASSUME NEW d \in Slots PROVE seen'[d].left <= Memory
      BY DEF AgesOK
    <3>1. seen[d].left \in Nat /\ seen[d].left <= Memory /\ IsSlot(seen[d])
      BY <1>1, <1>2 DEF SlotsTell, AgesOK
    <3>2. seen'[d] = IF seen[d].left <= 1 THEN NotSeen ELSE [seen[d] EXCEPT !.left = @ - 1]
      BY <1>1, <1>16 DEF SlotsTell, Tick
    <3>3. seen'[d].left = IF seen[d].left <= 1 THEN 0 ELSE seen[d].left - 1
      BY <3>1, <3>2 DEF IsSlot, NotSeen
    <3> QED BY <1>3, <3>1, <3>3
  <2> QED BY <1>11, <1>12, <2>1, <2>2, <2>3
<1>17. CASE UNCHANGED vars
  <2>1. UNCHANGED <<others, tail, event, ring, behind, refused, alerted, overwritten>>
    BY <1>17 DEF vars, reader, log, others
  <2>2. NamesOK' /\ AgesOK'
    BY <1>2, <2>1 DEF NamesOK, AgesOK, others
  <2> QED BY <1>11, <1>12, <2>1, <2>2 DEF others
<1> QED BY <1>5, <1>6, <1>7, <1>8, <1>9, <1>10, <1>13, <1>14, <1>15, <1>16, <1>17
        DEF Next, TailStep

\* The types, and what an event tells, hold in every reachable state.
THEOREM TypesHold == Spec => []TypeInv
<1>1. IInv /\ TypeInv /\ [Next]_vars => TypeInv'
  BY NextTypes
<1> QED BY <1>1, InitTypes, InvariantHolds, PTL DEF Spec

\* Every variable has its type: the memory of the dry run is never longer than its
\* ten seconds, nor the ring than its capacity, and what was alerted or
\* overwritten was refused.
THEOREM RefusalsTypes == Spec => []TypeOK
<1>1. IInv /\ TypeInv => TypeOK
  <2> SUFFICES ASSUME IInv, TypeInv PROVE TypeOK
    OBVIOUS
  <2>1. /\ RingOK /\ SlotsTell /\ FlagsOK /\ NamesOK /\ HeldOK /\ LedgerOK /\ AgesOK
        /\ Len(ring) <= RingCap
    BY DEF IInv, TypeInv
  <2>2. \A ip \in Addrs : cache[ip].name \in {a.name : a \in Answers} \cup {NoName}
    BY <2>1 DEF NamesOK, IsEntry, Hosts
  <2>3. \A d \in DOMAIN seen : seen[d].left \in 0..Memory
    BY <2>1, RefusalsAssumption DEF SlotsTell, AgesOK
  <2>4. event \in Events /\ sent \in Events
    BY <2>1 DEF HeldOK, Tells
  <2>5. refused \in Seq({0} \cup DOMAIN Rules)
    BY <2>1 DEF RingOK, Indexes
  <2> QED BY <2>1, <2>2, <2>3, <2>4, <2>5 DEF TypeOK, FlagsOK, HeldOK, LedgerOK
<1> QED BY <1>1, TypesHold, InvariantHolds, PTL

\* Whatever the rules' names, the prefix's length and the policy, an alert of the
\* kernel's has the name of the rule that refused as /dev/kmsg escapes it, whole or
\* up to a "]: " in it, and one of a dry run has the name itself; only the default's
\* refusals, and those of a rule whose name begins with "]: ", go as the default's:
\* what the prefix, the cut and the parser (plan.go:144-153, kmsg.go:22-46) leave of
\* another line is no alert.
THEOREM AlertsNameTheRule == Spec => []AlertNamesItsRule
<1>1. TypeInv => AlertNamesItsRule
  <2> SUFFICES ASSUME TypeInv PROVE AlertNamesItsRule
    OBVIOUS
  <2> DEFINE name == NameOf(sent.by)
             told == IF dryRun THEN name ELSE Kmsg(name)
  <2>1. sent.rule \in Words /\ sent.by \in Indexes /\ ReadBack(sent.rule, told)
    BY DEF TypeInv, HeldOK, Tells, Events, Indexes
  <2>2. name \in Words /\ (name = <<>> => sent.by = 0)
    BY <2>1, NameIsWords
  <2> HIDE DEF name
  <2>3. ASSUME sent.rule = <<>>, sent.by # 0 PROVE IsPrefix(<<"]">>, name)
    <3>1. /\ Len(name) \in Nat /\ Len(name) # 0 /\ DOMAIN name = 1..Len(name)
          /\ name[1] \in Word
      BY <2>2, <2>3, EmptySeq, LenProperties, ElementOfSeq DEF Words, Word
    <3>2. /\ told \in Words /\ Len(told) = Len(name)
          /\ told[1] = name[1] \/ told[1] = Escaped(name[1])
      BY <2>2, <3>1, KmsgName
    <3>3. told # <<>> /\ Len(sent.rule) = 0
      BY <2>3, <3>1, <3>2
    <3>4. told[1] = "]"
      <4>1. told[Len(sent.rule) + 1] = "]"
        BY <2>1, <2>3, <3>3 DEF ReadBack
      <4> QED BY <3>3, <4>1
    <3>5. name[1] = "]"
      BY <3>1, <3>2, <3>4, EscapedWord DEF Marks
    <3> DEFINE one == <<"]">>
    <3>6. Len(one) = 1 /\ one[1] = "]"
      OBVIOUS
    <3>7. /\ SubSeq(name, 1, 1) \in Seq(Word) /\ Len(SubSeq(name, 1, 1)) = 1
          /\ SubSeq(name, 1, 1)[1] = name[1]
      <4>1. \A j \in 1..1 : name[j] \in Word
        BY <3>1
      <4>2. /\ SubSeq(name, 1, 1) \in Seq(Word)
            /\ Len(SubSeq(name, 1, 1)) = IF 1 <= 1 THEN 1 - 1 + 1 ELSE 0
            /\ \A j \in 1..(1 - 1 + 1) : SubSeq(name, 1, 1)[j] = name[1 + j - 1]
        BY <2>2, <4>1, NamesAreTexts, SubSeqProperties DEF Text
      <4> QED BY <4>2
    <3>8. one \in Seq(Word)
      <4>1. one \in [1..1 -> Word]
        BY SharedWords
      <4> QED BY <4>1, SeqDef
    <3> HIDE DEF one
    <3>9. SubSeq(name, 1, 1) = one
      BY <3>5, <3>6, <3>7, <3>8, SeqEqual
    <3>10. SubSeq(one, 1, 1) = one
      BY <3>6, <3>8, SubSeqFull
    <3>11. IsPrefix(one, name)
      BY <3>1, <3>6, <3>9, <3>10 DEF IsPrefix
    <3> QED BY <3>11 DEF one
  <2> QED BY <2>1, <2>3 DEF AlertNamesItsRule, name
<1> QED BY <1>1, TypesHold, PTL
=============================================================================
