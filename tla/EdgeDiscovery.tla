---------------------------- MODULE EdgeDiscovery ----------------------------
(***************************************************************************)
(* discover_edges (src/edge/discovery.rs): ask the resolvers for the SRV   *)
(* records one after the other, look every target up, and collect the      *)
(* addresses.  It has no control state of its own: EdgeRun takes its steps *)
(* inside the discovery of EdgeConnector::run.                             *)
(*                                                                         *)
(* Hosts are not told apart, because a lookup may answer anything; a       *)
(* target is the port of its record.  A DNS message is its answer count    *)
(* and what each answer is to the parser.                                  *)
(***************************************************************************)
EXTENDS Naturals, Sequences, SequencesExt

CONSTANTS
  Ips,           \* addresses a lookup can return
  Ports,         \* ports an SRV record can name
  FallbackPort,  \* FALLBACK_EDGE_PORT
  MaxResolvers,  \* bound on the nameservers of resolv.conf, plus 1.1.1.1
  MaxAnswers,    \* bound on the answers of a DNS message
  MaxLookup      \* bound on the addresses one lookup returns

ASSUME EdgeDiscoveryAssumption ==
  /\ FallbackPort \in Ports
  /\ MaxResolvers \in Nat \ {0}
  /\ MaxAnswers \in Nat
  /\ MaxLookup \in Nat

VARIABLES
  resolvers,  \* how many resolvers resolver_address found
  asked,      \* how many of them srv_lookup asked
  looking,    \* srv_lookup has returned: the hosts are being looked up
  targets,    \* ports of the hosts not looked up yet
  fallback,   \* whether the hosts are FALLBACK_EDGES
  found,      \* edges
  offered,    \* history: a resolver of this round sent a whole reply with a
              \* record in it
  stuck       \* decode_name follows a pointer for ever

discoveryVars ==
  <<resolvers, asked, looking, targets, fallback, found, offered, stuck>>

DiscoveryTypeOK ==
  /\ resolvers \in 0..MaxResolvers
  /\ asked \in 0..resolvers
  /\ looking \in BOOLEAN
  /\ targets \in Seq(Ports)
  /\ Len(targets) <= MaxAnswers + 2
  /\ fallback \in BOOLEAN
  /\ found \in Seq([ip : Ips, port : Ports])
  /\ offered \in BOOLEAN
  /\ stuck \in BOOLEAN

\* An answer: the port of an SRV record of class IN, a record of another type
\* or class or one too short for a port, one the parser trips over, or an SRV
\* record whose name has a compression pointer back to itself, which
\* decode_name follows without a bound.
Answers == Ports \cup {"other", "broken", "endless"}

\* What a resolver sends.  ours: it came in time, with our identifier and a
\* question that can be skipped.  count is the header's answer count, which
\* need not be the number of answers that follow.
Replies ==
  [ours : BOOLEAN, count : 0..MaxAnswers, answers : BoundedSeq(Answers, MaxAnswers)]

IsSrv(answer) == answer \in Ports

Malformed(reply) ==
  \/ reply.count > Len(reply.answers)
  \/ \E i \in 1..reply.count : reply.answers[i] = "broken"

\* The parser gets to an endless name: nothing before it is an error.
Endless(reply) ==
  /\ reply.ours
  /\ \E i \in 1..reply.count \cap DOMAIN reply.answers :
       /\ reply.answers[i] = "endless"
       /\ \A j \in 1..(i - 1) : reply.answers[j] # "broken"

Keep(records, answer) ==
  IF IsSrv(answer) THEN Append(records, answer) ELSE records

\* The records among the answers, in their order.  A recursive function, so
\* that it can be reasoned about.
Kept(answers) ==
  LET kept[i \in 0..Len(answers)] ==
        IF i = 0 THEN <<>> ELSE Keep(kept[i - 1], answers[i])
  IN  kept

SrvRecords(answers) == Kept(answers)[Len(answers)]

\* Variant: a message is read as far as it can be.
RecordsLenient(reply) ==
  IF ~reply.ours THEN <<>> ELSE SrvRecords(reply.answers)

\* parse_srv_response: one bad answer among those counted and the whole reply
\* is an error, which srv_lookup treats like a reply without records.
Records(reply) ==
  IF ~reply.ours \/ Malformed(reply)
    THEN <<>>
    ELSE SrvRecords(SubSeq(reply.answers, 1, reply.count))

\* What a reader of the message, not of the parser, would call an answer.
Offers(reply) ==
  /\ reply.ours
  /\ 1..reply.count \subseteq DOMAIN reply.answers
  /\ \E i \in 1..reply.count : IsSrv(reply.answers[i])
  /\ \A i \in 1..reply.count : reply.answers[i] # "broken"

FallbackTargets == <<FallbackPort, FallbackPort>>

InitDiscovery ==
  /\ resolvers = 0
  /\ asked = 0
  /\ looking = FALSE
  /\ targets = <<>>
  /\ fallback = FALSE
  /\ found = <<>>
  /\ offered = FALSE
  /\ stuck = FALSE

StartDiscovery ==
  /\ resolvers' \in 1..MaxResolvers
  /\ asked' = 0
  /\ looking' = FALSE
  /\ targets' = <<>>
  /\ fallback' = FALSE
  /\ found' = <<>>
  /\ offered' = FALSE
  /\ stuck' = FALSE

\* srv_lookup returned these records; without any, the fallback hosts take
\* their place.
Resolve(records) ==
  /\ looking' = TRUE
  /\ fallback' = (records = <<>>)
  /\ targets' = IF records = <<>> THEN FallbackTargets ELSE records

\* Variant: srv_lookup gives up at the first resolver.
AskOnce(reply) ==
  /\ ~looking /\ ~stuck
  /\ ~Endless(reply)
  /\ asked' = asked + 1
  /\ offered' = (offered \/ Offers(reply))
  /\ Resolve(Records(reply))
  /\ UNCHANGED <<resolvers, found, stuck>>

\* srv_lookup asks the next resolver, until one sends records.
Ask(reply) ==
  /\ ~looking /\ ~stuck
  /\ ~Endless(reply)
  /\ asked' = asked + 1
  /\ offered' = (offered \/ Offers(reply))
  /\ IF Records(reply) # <<>> \/ asked' = resolvers
       THEN Resolve(Records(reply))
       ELSE UNCHANGED <<looking, targets, fallback>>
  /\ UNCHANGED <<resolvers, found, stuck>>

\* The next resolver's reply holds an endless name: parse_srv_response does not
\* return, and nothing in it awaits, so no timer ends it either.
NeverParsed(reply) ==
  /\ ~looking /\ ~stuck
  /\ Endless(reply)
  /\ stuck' = TRUE
  /\ UNCHANGED <<resolvers, asked, looking, targets, fallback, found, offered>>

\* Variant: an address is listed as often as it is found.
WithAll(list, ips, port) ==
  list \o [i \in DOMAIN ips |-> [ip |-> ips[i], port |-> port]]

\* edges.contains and push.
AddNew(list, edge) ==
  IF Contains(list, edge) THEN list ELSE Append(list, edge)

Added(list, ips, port) ==
  LET known[i \in 0..Len(ips)] ==
        IF i = 0 THEN list ELSE AddNew(known[i - 1], [ip |-> ips[i], port |-> port])
  IN  known

\* With the addresses of one host that the list does not hold yet.
WithNew(list, ips, port) == Added(list, ips, port)[Len(ips)]

\* resolve_host: a failed lookup is a host without addresses.
LookUp(ips) ==
  /\ looking
  /\ targets # <<>>
  /\ found' = WithNew(found, ips, Head(targets))
  /\ targets' = Tail(targets)
  /\ UNCHANGED <<resolvers, asked, looking, fallback, offered, stuck>>

Lookups == BoundedSeq(Ips, MaxLookup)

\* Every host was looked up.
Discovered == looking /\ targets = <<>>
=============================================================================
