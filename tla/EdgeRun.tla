------------------------------- MODULE EdgeRun -------------------------------
(***************************************************************************)
(* EdgeConnector::run with discover_edges opened: the connector's loop and *)
(* the discovery it awaits, in the one task they share.  Connector chooses *)
(* how many addresses a round has; here they are what the resolvers and    *)
(* the lookups of that round answered.                                     *)
(***************************************************************************)
EXTENDS Connector, EdgeDiscovery, Backoff

edgeRunVars == <<vars, discoveryVars>>

EdgeInit == Init /\ InitDiscovery

RoundStarts == BeginRound /\ StartDiscovery

ResolverAnswers ==
  /\ pc = "discovering"
  /\ \E reply \in Replies : Ask(reply)
  /\ UNCHANGED vars

\* One of them sends a name decode_name never gets to the end of.
ParserLoops ==
  /\ pc = "discovering"
  /\ \E reply \in Replies : NeverParsed(reply)
  /\ UNCHANGED vars

\* decode_name takes the same jumps again.
LoopsOn == stuck /\ UNCHANGED edgeRunVars

HostLookedUp ==
  /\ pc = "discovering"
  /\ \E ips \in Lookups : LookUp(ips)
  /\ Len(found') \in 0..MaxEdges            \* the bound
  /\ UNCHANGED vars

\* Variant: an empty list of addresses is no error.
DiscoveryReturnsEmpty ==
  /\ Discovered
  /\ DiscoverySucceeds(Len(found))
  /\ UNCHANGED discoveryVars

\* discover_edges returns; no address at all is its only error.
DiscoveryReturns ==
  /\ Discovered
  /\ IF Len(found) = 0 THEN DiscoveryFails ELSE DiscoverySucceeds(Len(found))
  /\ UNCHANGED discoveryVars

EdgeNext ==
  \/ RoundStarts
  \/ ResolverAnswers
  \/ ParserLoops
  \/ LoopsOn
  \/ HostLookedUp
  \/ DiscoveryReturns
  \/ (FireShutdown \/ AttemptEnds \/ ShutdownSeen \/ DelayElapses \/ Returned)
       /\ UNCHANGED discoveryVars

(***************************************************************************)
(* query_srv waits five seconds at most for a reply, and the system's own  *)
(* lookup is assumed to end, with an error if need be: a discovery takes   *)
(* its next step.  That step may be ParserLoops, after which there is none *)
(* to take: no timer runs over the parsing of a reply.  The rest is        *)
(* Connector's own fairness.                                               *)
(***************************************************************************)
EdgeFairness ==
  /\ WF_edgeRunVars(RoundStarts)
  /\ WF_edgeRunVars(ResolverAnswers \/ ParserLoops \/ HostLookedUp \/ DiscoveryReturns)
  /\ WF_edgeRunVars(ShutdownSeen /\ UNCHANGED discoveryVars)
  /\ WF_edgeRunVars(DelayElapses /\ UNCHANGED discoveryVars)

EdgeSafety == EdgeInit /\ [][EdgeNext]_edgeRunVars

EdgeSpec == EdgeSafety /\ EdgeFairness

-----------------------------------------------------------------------------
\* The loop over the edges makes one attempt per address and never a second
\* one on the same address in a round, whatever the SRV records and their
\* hosts have in common (discovery.rs:36-38, 51-53; mod.rs:101).
TriesEachOnce == pc = "attempting" => edges <= Len(found) /\ IsInjective(found)

\* The well-known hosts replace the SRV records only when every resolver was
\* asked and none sent a whole reply with a record in it; any other address
\* stems from such a reply (discovery.rs:33-61, 80-90, 147-202).
FallbackLastResort ==
  IF fallback THEN asked = resolvers /\ ~offered
              ELSE found # <<>> => offered

\* The discovery typed, and both.
RightAddresses == DiscoveryTypeOK /\ TriesEachOnce /\ FallbackLastResort

\* "until `shutdown` resolves or the connection cannot be re-established"
\* (run.rs:61-62) holds of the loop (mod.rs:70-180) but for one exception: a
\* reply whose name never ends (discovery.rs:242-252) keeps the task inside
\* one discovery, with no retry, no fallback and no answer to a shutdown.
TriesUnlessStuck == <>stuck \/ KeepsTrying

\* What Connector assumes of a discovery holds of this one: it returns an error
\* or at least one address, and it does return unless a name never ends
\* (mod.rs:82-97, discovery.rs:61-63, 228-253).
ImplementsConnector == Spec /\ (<>stuck \/ Fairness)
=============================================================================
