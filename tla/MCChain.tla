------------------------------- MODULE MCChain ------------------------------
(***************************************************************************)
(* The upstream chain of a virtual key: CandidateChain, which upstreams it *)
(* has, and ChainServe, requests going through one.  A behaviour picks one *)
(* of the two parts and runs it.                                           *)
(***************************************************************************)
EXTENDS Integers, Sequences, FiniteSets, TLC

CONSTANTS N, Reqs, IdleGap, MaxStickiness, TotalBudget, CoolDown, MaxTime,   \* ChainServe
          Protocols, Vendors, Groups, Pools, Blank, MaxPriority, MaxBindings  \* CandidateChain

ASSUME ChainBounds ==
  /\ N \in Nat \ {0} /\ IsFiniteSet(Reqs) /\ MaxTime \in Nat
  /\ {IdleGap, MaxStickiness, TotalBudget, CoolDown} \subseteq Nat
  /\ Protocols # {} /\ Vendors # {} /\ Blank \notin Protocols \cup Vendors \cup Groups \cup Pools
  /\ MaxPriority \in Nat \ {0} /\ MaxBindings \in Nat

VARIABLES part, now, until, act, req, seen, chosen, server, faulty, input, chain

serveVars == <<now, until, act, req, seen, chosen, server, faulty>>
chainVars == <<input, chain>>
vars == <<part, serveVars, chainVars>>

Serve == INSTANCE ChainServe
Pick == INSTANCE CandidateChain

NoInput == [bindings |-> <<>>, group |-> Blank, pin |-> Pick!NoPin, protocol |-> Blank]

Init ==
  /\ part \in {"serve", "pick"}
  /\ Serve!Init
  /\ IF part = "pick" THEN Pick!Init ELSE input = NoInput /\ chain = Pick!Unset

Next ==
  /\ UNCHANGED part
  /\ \/ part = "serve" /\ Serve!Next /\ UNCHANGED chainVars
     \/ part = "pick" /\ Pick!Select /\ UNCHANGED serveVars

Spec == Init /\ [][Next]_vars

\* Requests only differ by name.
SameRequests == Permutations(Reqs)

-----------------------------------------------------------------------------
\* The type invariant of serveManagedChain's state.
TypeOK == Serve!TypeOK

\* chain_serve.go: a chain is reported as spent only when every hop of it, cooling
\* ones included, has failed under the request.
SpentMeansAllFailed == Serve!SpentMeansAllFailed

\* chain_serve.go, orderCandidates: every departure from the administrator's order
\* is a kept hop or a cooling one that had a fault.
OrderExplained == Serve!OrderExplained

\* chain_activity.go, observe: a hop is kept only inside a conversation.
KeptInConversation == Serve!KeptInConversation

\* candidate_chain.go, chainFrom: one hop per binding or pool, in order; a key is
\* refused only when its chain has no order.
ChainIsOrdered == Pick!ChainIsOrdered

\* candidate_chain.go, chainFrom: only a pin turns failover off.
OnlyPinStopsFailover == Pick!OnlyPinStopsFailover
=============================================================================
