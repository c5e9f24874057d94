------------------------------ MODULE DnsCache ------------------------------
(***************************************************************************)
(* internal/dnswatch: the name each address last resolved from.  A cache   *)
(* maps the addresses DNS answers carry, as the answers carry them, to     *)
(* [name, left]: left is the time to the entry's expiry, 0 its last moment *)
(* and Expired any time after.  Its mutex makes each operation one step.   *)
(***************************************************************************)
EXTENDS Policy

CONSTANTS Addrs,   \* addresses of answers and packets
          MinTTL   \* learnMinTTL (learn.go:24)

ASSUME AddrsAssumption ==
  /\ \A ip \in Addrs : Unmap(ip) \in Addrs
  /\ MinTTL \in Nat

Expired  == -1
NoEntry  == [name |-> NoName, left |-> Expired]
NoCache  == [ip \in Addrs |-> NoEntry]
NoAnswer == [name |-> NoName, addrs |-> {}, ttl |-> 0]

\* Record: the last answer wins, and a short TTL is stretched.
Record(cache, answer) ==
  [ip \in Addrs |->
     IF ip \in answer.addrs
     THEN [name |-> answer.name, left |-> IF answer.ttl < MinTTL THEN MinTTL ELSE answer.ttl]
     ELSE cache[ip]]

\* Lookup: an entry counts to its expiry, that moment included.  It is looked
\* up under the unmapped address, whatever address it was recorded under.
Lookup(cache, ip) ==
  IF cache[Unmap(ip)].left = Expired THEN NoName ELSE cache[Unmap(ip)].name

Purge(cache) == [ip \in Addrs |-> IF cache[ip].left = Expired THEN NoEntry ELSE cache[ip]]

\* Time passes.
Aged(cache) ==
  [ip \in Addrs |->
     [cache[ip] EXCEPT !.left = IF @ = Expired THEN Expired ELSE @ - 1]]
=============================================================================
