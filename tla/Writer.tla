------------------------------- MODULE Writer -------------------------------
(***************************************************************************)
(* internal/learn/write.go: the policy file for what the observer learnt.  *)
(* An entry is [host, domain, port, proto]: host is a text, a name the     *)
(* address had or the address itself, and domain tells which it was when   *)
(* the entry was made.  Comments, counts, times and origins are left out.  *)
(***************************************************************************)
EXTENDS Policy

CONSTANTS
  AddrText,   \* netip.Addr.String: the text of each address, as the labels of a name
  Metadata    \* 169.254.169.254

\* No two addresses are written alike.
ASSUME TextsAssumption ==
  /\ Metadata \in DOMAIN AddrText
  /\ \A a, b \in DOMAIN AddrText : AddrText[a] = AddrText[b] => a = b

Blank == [domains |-> {}, cidrs |-> {}, ports |-> {}, proto |-> "", cgroup |-> NoCgroup]

\* The address that a text of the file is read back as.
Parsed(text) == CHOOSE a \in DOMAIN AddrText : AddrText[a] = text

\* Entries come sorted, names first: the first one of a host is a name when any is.
IsDomain(es) == \E e \in es : e.domain

\* What was learnt of the bare metadata address becomes no rule: it is denied anyway.
Kept(entries) == {e \in entries : e.domain \/ e.host # AddrText[Metadata]}

\* Mutant: the protocol of one entry for all.
RuleOfOneProto(host, es) ==
  [Blank EXCEPT
     !.domains = IF IsDomain(es) THEN {host} ELSE {},
     !.cidrs   = IF IsDomain(es) THEN {} ELSE {Parsed(host)},
     !.ports   = {[lo |-> e.port, hi |-> e.port] : e \in es},
     !.proto   = (CHOOSE e \in es : TRUE).proto]

\* Mutant: one range of ports from the least to the greatest.
RuleOfOneRange(host, es) ==
  [Blank EXCEPT
     !.domains = IF IsDomain(es) THEN {host} ELSE {},
     !.cidrs   = IF IsDomain(es) THEN {} ELSE {Parsed(host)},
     !.ports   = {[lo |-> Min({e.port : e \in es}), hi |-> Max({e.port : e \in es})]}]

\* Mutant: a rule on protocols when there are several.
RuleOfAllProtos(host, es) ==
  [Blank EXCEPT
     !.domains = IF IsDomain(es) THEN {host} ELSE {},
     !.cidrs   = IF IsDomain(es) THEN {} ELSE {Parsed(host)},
     !.ports   = {[lo |-> e.port, hi |-> e.port] : e \in es},
     !.proto   = IF Cardinality({e.proto : e \in es}) = 1
                 THEN (CHOOSE e \in es : TRUE).proto ELSE "tcp, udp"]

\* One rule for all entries of a host: their ports, and their protocol when they
\* have one in common.  A name that reads as an address and that address are one
\* host, under the rule of the name.
RuleFor(host, es) ==
  [Blank EXCEPT
     !.domains = IF IsDomain(es) THEN {host} ELSE {},
     !.cidrs   = IF IsDomain(es) THEN {} ELSE {Parsed(host)},
     !.ports   = {[lo |-> e.port, hi |-> e.port] : e \in es},
     !.proto   = IF Cardinality({e.proto : e \in es}) = 1
                 THEN (CHOOSE e \in es : TRUE).proto ELSE ""]

\* The order of the rules among themselves decides nothing: all allow.
Rendered(entries) ==
  [version |-> 1,
   default |-> "deny",
   deny    |-> <<[Blank EXCEPT !.cidrs = {Metadata}]>>,
   allow   |-> SetToSeq({RuleFor(host, {e \in Kept(entries) : e.host = host}) :
                          host \in {e.host : e \in Kept(entries)}})]
=============================================================================
