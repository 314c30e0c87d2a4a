----------------------------- MODULE ChainServe -----------------------------
(***************************************************************************)
(* One chain of upstreams serving requests (internal/proxy/chain_serve.go, *)
(* binding_cooldown.go, chain_activity.go): serveManagedChain observes the *)
(* chain's activity, orders the hops, and tries them one after the other   *)
(* until one answers.  The cooldown store and the activity entry are       *)
(* shared by all requests; each call on them takes their lock once and is  *)
(* a step of its own.                                                      *)
(*                                                                         *)
(* Hops are numbered in the administrator's order; hop 1 is the primary.   *)
(* Time is counted in ticks.                                               *)
(***************************************************************************)
EXTENDS Integers, Sequences, FiniteSets, SequencesExt

CONSTANTS N,               \* hops of the chain
          Reqs,            \* requests that may be in progress at once
          IdleGap,         \* policy.IdleGap
          MaxStickiness,   \* policy.MaxStickiness, 0: no bound
          TotalBudget,     \* policy.ChainTotalBudget, 0: none
          CoolDown,        \* policy.BindingCooldown, 0: never cool
          MaxTime          \* bound: the clock

Hops == 1 .. N
Primary == 1
None == 0                  \* no hop; also "no deadline"

VARIABLES
  now,         \* the clock
  until,       \* bindingCooldownStore.until; None: no entry
  act,         \* the chain's chainActivityEntry; known: there is one
  req,         \* req[r]: a call of serveManagedChain
  seen,        \* history: the latest time a request was observed or served
  chosen,      \* history: the latest time selection ran without a sticky hop
  server,      \* history: the hop that served the latest request
  faulty       \* history: hops that had an upstream fault

vars == <<now, until, act, req, seen, chosen, server, faulty>>
store == <<until, act>>
history == <<seen, chosen, server, faulty>>

\* cool: the hops found cooling while ordering.  failed is history: the hops that were
\* skipped, had a fault or refused the model under this request.
Idle == [pc |-> "idle", start |-> 0, stick |-> None, cool |-> {}, order |-> <<>>, i |-> 0,
         failed |-> {}]

Init ==
  /\ now = 0
  /\ until = [h \in Hops |-> None]
  /\ act = [known |-> FALSE, lastRequest |-> 0, lastProbe |-> 0, current |-> None]
  /\ req = [r \in Reqs |-> Idle]
  /\ seen = 0 /\ chosen = 0 /\ server = None /\ faulty = {}

Hop(r) == req[r].order[req[r].i]
Larger(a, b) == IF a > b THEN a ELSE b

-----------------------------------------------------------------------------
(* The order of one request.                                               *)

\* cooling: an entry whose deadline is still ahead.
Cooling(h, t) == until[h] > t

\* orderCandidates: the sticky hop, then those available, then those cooling,
\* each band in the administrator's order.
OrderCandidates(stick, cool) ==
  LET Band(h) == CASE h = stick -> 0 [] h \in cool \ {stick} -> 2 [] OTHER -> 1
  IN  SetToSortSeq(Hops, LAMBDA a, b : Band(a) < Band(b) \/ (Band(a) = Band(b) /\ a < b))

-----------------------------------------------------------------------------
(* serveManagedChain                                                       *)

Return(r) == req' = [req EXCEPT ![r] = Idle]

Tick == now < MaxTime /\ now' = now + 1 /\ UNCHANGED <<store, req, history>>

\* now := time.Now(); reading the body may take any time after it.
Begin(r) ==
  /\ req[r].pc = "idle"
  /\ req' = [req EXCEPT ![r] = [Idle EXCEPT !.pc = "observe", !.start = now]]
  /\ UNCHANGED <<now, store, history>>

BodyUnreadable(r) ==
  /\ req[r].pc = "observe"
  /\ Return(r)
  /\ UNCHANGED <<now, store, history>>

\* Mutant: no bound on how long a hop is kept.
StickToForever(t) ==
  IF ~act.known \/ act.current = None \/ t - act.lastRequest >= IdleGap
  THEN None ELSE act.current

\* What observe decides: the hop to keep, None for normal selection.
StickTo(t) ==
  IF \/ ~act.known
     \/ act.current = None
     \/ t - act.lastRequest >= IdleGap
     \/ MaxStickiness > 0 /\ t - act.lastProbe >= MaxStickiness
  THEN None ELSE act.current

\* chainActivityStore.observe
Observe(r) ==
  /\ req[r].pc = "observe"
  /\ LET t == req[r].start
         stick == StickTo(t)
     IN  /\ act' = [known |-> TRUE, current |-> act.current, lastRequest |-> t,
                    lastProbe |-> IF stick = None THEN t ELSE act.lastProbe]
         /\ req' = [req EXCEPT ![r].pc = "order", ![r].stick = stick, ![r].i = 1]
         /\ chosen' = IF stick = None THEN Larger(chosen, t) ELSE chosen
         /\ seen' = Larger(seen, t)
  /\ UNCHANGED <<now, until, server, faulty>>

\* orderCandidates asks the store about one hop after the other, and sorts after the
\* last answer; other requests may change the store in between.
Asked(r) ==
  req[r].cool \cup {h \in {req[r].i} : Cooling(h, req[r].start)}

AskCooling(r) ==
  /\ req[r].pc = "order" /\ req[r].i < N
  /\ req' = [req EXCEPT ![r].i = @ + 1, ![r].cool = Asked(r)]
  /\ UNCHANGED <<now, store, history>>

Order(r) ==
  /\ req[r].pc = "order" /\ req[r].i = N
  /\ req' = [req EXCEPT ![r].pc = "hop", ![r].i = 1, ![r].cool = {},
                         ![r].order = OrderCandidates(req[r].stick, Asked(r))]
  /\ UNCHANGED <<now, store, history>>

NextHop(r) ==
  req' = [req EXCEPT ![r].pc = "hop", ![r].i = @ + 1, ![r].failed = @ \cup {Hop(r)}]

OverBudget(r) ==
  req[r].i > 1 /\ TotalBudget > 0 /\ now > req[r].start + TotalBudget

\* The whole-chain budget is checked before each switch, never during an attempt.
StopAtBudget(r) ==
  /\ req[r].pc = "hop" /\ req[r].i <= Len(req[r].order) /\ OverBudget(r)
  /\ Return(r)
  /\ UNCHANGED <<now, store, history>>

\* Mutant: a hop that cannot be attempted ends the loop.
SkipHopBreaks(r) ==
  /\ req[r].pc = "hop" /\ req[r].i <= Len(req[r].order) /\ ~OverBudget(r)
  /\ req' = [req EXCEPT ![r].i = Len(req[r].order) + 1, ![r].failed = @ \cup {Hop(r)}]
  /\ UNCHANGED <<now, store, history>>

\* No credential, no adapter or no address: the hop is skipped, not attempted.
SkipHop(r) ==
  /\ req[r].pc = "hop" /\ req[r].i <= Len(req[r].order) /\ ~OverBudget(r)
  /\ NextHop(r)
  /\ UNCHANGED <<now, store, history>>

\* Mutant: the loop runs one hop too far.
AttemptPastEnd(r) ==
  /\ req[r].pc = "hop" /\ req[r].i <= Len(req[r].order) + 1 /\ ~OverBudget(r)
  /\ req' = [req EXCEPT ![r].pc = "attempt"]
  /\ UNCHANGED <<now, store, history>>

Attempt(r) ==
  /\ req[r].pc = "hop" /\ req[r].i <= Len(req[r].order) /\ ~OverBudget(r)
  /\ req' = [req EXCEPT ![r].pc = "attempt"]
  /\ UNCHANGED <<now, store, history>>

\* The response went to the client; noteSuccess clears the hop's cooldown.
Served(r) ==
  /\ req[r].pc = "attempt"
  /\ until' = [until EXCEPT ![Hop(r)] = None]
  /\ req' = [req EXCEPT ![r].pc = "served"]
  /\ UNCHANGED <<now, act, history>>

\* chainActivityStore.noteServed.  The caller passes isPrimary also for the first
\* hop of this request's order, whichever hop that is.
NoteServed(r) ==
  /\ req[r].pc = "served"
  /\ act' = [act EXCEPT !.lastRequest = now,
                        !.current = IF Hop(r) = Primary \/ req[r].i = 1 THEN None ELSE Hop(r)]
  /\ Return(r)
  /\ seen' = Larger(seen, now) /\ server' = Hop(r)
  /\ UNCHANGED <<now, until, chosen, faulty>>

\* An eligible fault: note cools the hop, for the time the response asks for but
\* at most CoolDown.
Fault(r, d) ==
  /\ req[r].pc = "attempt"
  /\ until' = IF CoolDown = 0 THEN until ELSE [until EXCEPT ![Hop(r)] = now + d]
  /\ NextHop(r)
  /\ faulty' = faulty \cup {Hop(r)}
  /\ UNCHANGED <<now, act, seen, chosen, server>>

\* Mutant: a model rejection cools the hop.
RejectModelCools(r) ==
  /\ req[r].pc = "attempt"
  /\ until' = IF CoolDown = 0 THEN until ELSE [until EXCEPT ![Hop(r)] = now + CoolDown]
  /\ NextHop(r)
  /\ UNCHANGED <<now, act, history>>

\* chainSkipResponse: the hop does not map this model.  It is not cooled and its
\* answer is not the one relayed.
RejectModel(r) ==
  /\ req[r].pc = "attempt"
  /\ NextHop(r)
  /\ UNCHANGED <<now, store, history>>

\* The chain is spent: the client is told so.
Spent(r) == req[r].pc = "hop" /\ req[r].i > Len(req[r].order)

Exhaust(r) ==
  /\ Spent(r)
  /\ Return(r)
  /\ UNCHANGED <<now, store, history>>

\* snapshot, for the health endpoint, forgets the entries that are over.  It counts
\* whole seconds, so that one in its last tick may go too.
Snapshot ==
  /\ \E forgotten \in SUBSET {h \in Hops : until[h] <= now + 1} :
       /\ {h \in Hops : until[h] <= now} \subseteq forgotten
       /\ until' = [h \in Hops |-> IF h \in forgotten THEN None ELSE until[h]]
  /\ UNCHANGED <<now, act, req, history>>

Next ==
  \/ Tick \/ Snapshot
  \/ \E r \in Reqs :
       \/ Begin(r) \/ BodyUnreadable(r) \/ Observe(r) \/ AskCooling(r) \/ Order(r)
       \/ StopAtBudget(r) \/ SkipHop(r) \/ Attempt(r)
       \/ Served(r) \/ NoteServed(r) \/ RejectModel(r) \/ Exhaust(r)
       \/ \E d \in 1 .. CoolDown : Fault(r, d)

Spec == Init /\ [][Next]_vars

-----------------------------------------------------------------------------
\* The type invariant: a request is always at a hop of an order it has.
TypeOK ==
  /\ now \in 0 .. MaxTime
  /\ until \in [Hops -> 0 .. MaxTime + CoolDown]
  /\ act \in [known : BOOLEAN, lastRequest : 0 .. now, lastProbe : 0 .. now,
              current : Hops \cup {None}]
  /\ \A r \in Reqs :
       /\ req[r].pc \in {"idle", "observe", "order", "hop", "attempt", "served"}
       /\ req[r].start \in 0 .. now /\ req[r].stick \in Hops \cup {None}
       /\ req[r].cool \subseteq Hops /\ req[r].failed \subseteq Hops
       /\ req[r].order \in Seq(Hops) /\ IsInjective(req[r].order)
       /\ req[r].pc \in {"attempt", "served"} => req[r].i \in DOMAIN req[r].order
  /\ seen \in 0 .. now /\ chosen \in 0 .. now
  /\ server \in Hops \cup {None} /\ faulty \subseteq Hops

\* orderCandidates: "Cooling is a PREFERENCE".  A request is only told that the chain
\* is spent when every hop has failed under it: other requests cooling a hop, or a
\* hop that had to be skipped, neither end the chain nor take a hop out of it.  And
\* no hop that failed under a request is attempted by it again.
SpentMeansAllFailed ==
  \A r \in Reqs :
    /\ Spent(r) => req[r].failed = Hops
    /\ req[r].pc = "attempt" => Hop(r) \notin req[r].failed

\* orderCandidates: "why did it pick that one" has an answer.  In the order a
\* request is about to get, a hop goes before one the administrator put ahead of
\* it only because it is being kept or because the other is cooling after a fault
\* of its own.
OrderExplained ==
  \A r \in {x \in Reqs : req[x].pc = "order" /\ req[x].i = N} :
    LET order == OrderCandidates(req[r].stick, Asked(r))
    IN  \A p, q \in DOMAIN order :
          p < q /\ order[p] > order[q] =>
            order[p] = req[r].stick \/ order[q] \in Asked(r) \cap faulty

\* A conversation is in progress on a fallback, by what really happened: the
\* latest request was served by it, a request was seen less than IdleGap before t,
\* and selection ran less than MaxStickiness before t.
InProgress(t) ==
  /\ server \notin {None, Primary}
  /\ t - seen < IdleGap
  /\ MaxStickiness > 0 => t - chosen < MaxStickiness

\* observe: a hop is kept only inside a conversation: it served the latest request,
\* and neither a quiet gap nor the stickiness bound has passed.
KeptInConversation ==
  \A r \in Reqs :
    req[r].pc = "observe" /\ StickTo(req[r].start) # None =>
      InProgress(req[r].start) /\ StickTo(req[r].start) = server

\* orderCandidates: "A conversation in progress keeps the upstream that is serving
\* it".
ConversationSticks ==
  \A r \in Reqs :
    req[r].pc = "observe" /\ InProgress(req[r].start) => StickTo(req[r].start) = server
=============================================================================
