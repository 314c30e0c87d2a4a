----------------------------- MODULE Generation -----------------------------
(***************************************************************************)
(* The life of a runtime generation (internal/supervisor/supervisor.go):   *)
(* requests enter through Handler and ServeHTTP, Reload builds and         *)
(* activates a new generation and drains the old one in the background,    *)
(* Shutdown, once the HTTP server has stopped, drains and closes whatever  *)
(* is active, and SetTransport changes a setting that the active           *)
(* generation must carry.                                                  *)
(*                                                                         *)
(* The counters, the draining flag and the channel are separate atomic     *)
(* operations in the code, so each is a step of its own here.              *)
(***************************************************************************)
EXTENDS Integers, FiniteSets

CONSTANTS Reqs,          \* requests that may be in progress at once
          Settings,      \* values of the supervisor-owned runtime state
          MaxGens        \* bound: generations built

ASSUME GenerationBounds ==
  MaxGens \in Nat \ {0} /\ IsFiniteSet(Reqs) /\ IsFiniteSet(Settings) /\ Settings # {}

Gens == 1 .. MaxGens
Drainers == {"reload", "shutdown"}

VARIABLES
  active,      \* Supervisor.active
  built,       \* the last generation built; built > active inside a reload
  setting,     \* Supervisor.transport (and broker, egress override)
  carried,     \* carried[g]: what generation g's proxy was given
  req,         \* req[r]: [pc, gen]
  inflight,    \* inflight[g]
  draining,    \* draining[g]
  drained,     \* drained[g]: how often the channel was closed (2: a panic)
  drainer,     \* drainer[d][g]: where the drain of g by d stands
  server,      \* the HTTP server: "open", "closing" while srv.Shutdown waits for its
               \* handlers, then "closed", or "overdue" if that wait timed out
  timedOut,    \* history: timedOut[g], a drain of g gave up waiting
  released     \* released[g]: how often closeAll ran

vars == <<active, built, setting, carried, req, inflight, draining, drained,
          drainer, server, timedOut, released>>

Idle == [pc |-> "idle", gen |-> 0]

Init ==
  /\ active = 1 /\ built = 1
  /\ setting \in Settings
  /\ carried = [g \in Gens |-> setting]
  /\ req = [r \in Reqs |-> Idle]
  /\ inflight = [g \in Gens |-> 0]
  /\ draining = [g \in Gens |-> FALSE]
  /\ drained = [g \in Gens |-> 0]
  /\ drainer = [d \in Drainers |-> [g \in Gens |-> "none"]]
  /\ server = "open"
  /\ timedOut = [g \in Gens |-> FALSE]
  /\ released = [g \in Gens |-> 0]

\* Supervisor.Shutdown has begun.
Stopping == server \in {"closed", "overdue"}

-----------------------------------------------------------------------------
(* Requests: Handler loads the active pointer, ServeHTTP counts, serves and *)
(* signals the drain when it was the last one.                              *)

Go(r, pc) == req' = [req EXCEPT ![r].pc = pc]
Finish(r) == req' = [req EXCEPT ![r] = Idle]

\* close of a channel; the second close panics.
CloseOnce(n) == IF n = 0 THEN 1 ELSE 2

Load(r) ==
  /\ req[r].pc = "idle" /\ server = "open"
  /\ req' = [req EXCEPT ![r] = [pc |-> "loaded", gen |-> active]]
  /\ UNCHANGED <<active, built, setting, carried, inflight, draining, drained, drainer, server, timedOut, released>>

\* Mutant: the count of whatever is active now is raised.
EnterActive(r) ==
  /\ req[r].pc = "loaded"
  /\ inflight' = [inflight EXCEPT ![active] = @ + 1]
  /\ Go(r, "serving")
  /\ UNCHANGED <<active, built, setting, carried, draining, drained, drainer, server, timedOut, released>>

Enter(r) ==
  /\ req[r].pc = "loaded"
  /\ inflight' = [inflight EXCEPT ![req[r].gen] = @ + 1]
  /\ Go(r, "serving")
  /\ UNCHANGED <<active, built, setting, carried, draining, drained, drainer, server, timedOut, released>>

\* Mutant: the count is compared before it is lowered.
LeaveComparesBefore(r) ==
  /\ req[r].pc = "serving"
  /\ inflight' = [inflight EXCEPT ![req[r].gen] = @ - 1]
  /\ IF inflight[req[r].gen] = 0 THEN Go(r, "last") ELSE Finish(r)
  /\ UNCHANGED <<active, built, setting, carried, draining, drained, drainer, server, timedOut, released>>

Leave(r) ==
  /\ req[r].pc = "serving"
  /\ inflight' = [inflight EXCEPT ![req[r].gen] = @ - 1]
  /\ IF inflight[req[r].gen] = 1 THEN Go(r, "last") ELSE Finish(r)
  /\ UNCHANGED <<active, built, setting, carried, draining, drained, drainer, server, timedOut, released>>

CheckDraining(r) ==
  /\ req[r].pc = "last"
  /\ IF draining[req[r].gen] THEN Go(r, "select") ELSE Finish(r)
  /\ UNCHANGED <<active, built, setting, carried, inflight, draining, drained, drainer, server, timedOut, released>>

SelectDrained(r) ==
  /\ req[r].pc = "select"
  /\ IF drained[req[r].gen] = 0 THEN Go(r, "close") ELSE Finish(r)
  /\ UNCHANGED <<active, built, setting, carried, inflight, draining, drained, drainer, server, timedOut, released>>

\* A panic here ends the request only: net/http recovers it.
CloseDrained(r) ==
  /\ req[r].pc = "close"
  /\ drained' = [drained EXCEPT ![req[r].gen] = CloseOnce(@)]
  /\ Finish(r)
  /\ UNCHANGED <<active, built, setting, carried, inflight, draining, drainer, server, timedOut, released>>

-----------------------------------------------------------------------------
(* Reload, SetTransport and Shutdown.                                       *)

\* buildGeneration runs off-lock; it may fail, and then nothing was built.
Build ==
  /\ built = active /\ built < MaxGens
  /\ built' = built + 1
  /\ UNCHANGED <<active, setting, carried, req, inflight, draining, drained, drainer, server, timedOut, released>>

\* Mutant: the new generation keeps what it was built with.
ActivateAsBuilt ==
  /\ built = active + 1
  /\ active' = built
  /\ drainer' = [drainer EXCEPT !["reload"][active] = "start"]
  /\ UNCHANGED <<built, setting, carried, req, inflight, draining, drained, server, timedOut, released>>

\* Mutant: the background goroutine looks the generation to drain up again.
ActivateDrainsActive ==
  /\ built = active + 1
  /\ carried' = [carried EXCEPT ![built] = setting]
  /\ active' = built
  /\ drainer' = [drainer EXCEPT !["reload"][built] = "start"]
  /\ UNCHANGED <<built, setting, req, inflight, draining, drained, server, timedOut, released>>

\* activateGeneration applies the runtime state and swaps under runtimeStateMu;
\* Reload then starts drain_old for the generation it had found active.
Activate ==
  /\ built = active + 1
  /\ carried' = [carried EXCEPT ![built] = setting]
  /\ active' = built
  /\ drainer' = [drainer EXCEPT !["reload"][active] = "start"]
  /\ UNCHANGED <<built, setting, req, inflight, draining, drained, server, timedOut, released>>

\* SetTransport, SetBroker and SetOAuthEgressOverride, under the same mutex.
SetTransport(v) ==
  /\ setting' = v
  /\ carried' = [carried EXCEPT ![active] = v]
  /\ UNCHANGED <<active, built, req, inflight, draining, drained, drainer, server, timedOut, released>>

\* srv.Shutdown stops accepting and waits up to 30 s for the handlers in progress.
ServerShutdown ==
  /\ server = "open"
  /\ server' = "closing"
  /\ UNCHANGED <<active, built, setting, carried, req, inflight, draining, drained, drainer, timedOut, released>>

\* Supervisor.Shutdown, when that wait is over.
Shutdown ==
  /\ server = "closing"
  /\ server' = IF \A r \in Reqs : req[r] = Idle THEN "closed" ELSE "overdue"
  /\ drainer' = [drainer EXCEPT !["shutdown"][active] = "start"]
  /\ UNCHANGED <<active, built, setting, carried, req, inflight, draining, drained, timedOut, released>>

-----------------------------------------------------------------------------
(* generation.drain followed by generation.close, run by d on g.            *)

At(d, g, pc) == drainer[d][g] = pc
To(d, g, pc) == drainer' = [drainer EXCEPT ![d][g] = pc]

DrainStore(d, g) ==
  /\ At(d, g, "start") /\ To(d, g, "count")
  /\ draining' = [draining EXCEPT ![g] = TRUE]
  /\ UNCHANGED <<active, built, setting, carried, req, inflight, drained, server, timedOut, released>>

DrainCount(d, g) ==
  /\ At(d, g, "count")
  /\ To(d, g, IF inflight[g] = 0 THEN "select" ELSE "wait")
  /\ UNCHANGED <<active, built, setting, carried, req, inflight, draining, drained, server, timedOut, released>>

DrainSelect(d, g) ==
  /\ At(d, g, "select")
  /\ To(d, g, IF drained[g] = 0 THEN "close" ELSE "wait")
  /\ UNCHANGED <<active, built, setting, carried, req, inflight, draining, drained, server, timedOut, released>>

\* The second close panics: the goroutine ends here and close() is not reached.
DrainClose(d, g) ==
  /\ At(d, g, "close")
  /\ To(d, g, IF drained[g] = 0 THEN "wait" ELSE "panic")
  /\ drained' = [drained EXCEPT ![g] = CloseOnce(@)]
  /\ UNCHANGED <<active, built, setting, carried, req, inflight, draining, server, timedOut, released>>

DrainDone(d, g) ==
  /\ At(d, g, "wait") /\ drained[g] > 0
  /\ To(d, g, "release")
  /\ UNCHANGED <<active, built, setting, carried, req, inflight, draining, drained, server, timedOut, released>>

\* Mutant: the wait has no time limit.
DrainTimeoutNever(d, g) == FALSE /\ UNCHANGED vars

DrainTimeout(d, g) ==
  /\ At(d, g, "wait")
  /\ To(d, g, "release")
  /\ timedOut' = [timedOut EXCEPT ![g] = TRUE]
  /\ UNCHANGED <<active, built, setting, carried, req, inflight, draining, drained, server, released>>

\* generation.close: closeAll under closeOnce.
Release(d, g) ==
  /\ At(d, g, "release") /\ To(d, g, "over")
  /\ released' = [released EXCEPT ![g] = IF @ = 0 THEN 1 ELSE @]
  /\ UNCHANGED <<active, built, setting, carried, req, inflight, draining, drained, server, timedOut>>

DrainStep(d, g) ==
  \/ DrainStore(d, g) \/ DrainCount(d, g) \/ DrainSelect(d, g) \/ DrainClose(d, g)
  \/ DrainDone(d, g) \/ DrainTimeout(d, g) \/ Release(d, g)

Next ==
  \/ \E r \in Reqs :
       \/ Load(r) \/ Enter(r) \/ Leave(r)
       \/ CheckDraining(r) \/ SelectDrained(r) \/ CloseDrained(r)
  \/ Build \/ Activate \/ ServerShutdown \/ Shutdown
  \/ \E v \in Settings : SetTransport(v)
  \/ \E d \in Drainers, g \in Gens : DrainStep(d, g)

Spec == Init /\ [][Next]_vars

\* The drain goroutines are scheduled and their timer fires; a request may take
\* for ever.
FairSpec == Spec /\ \A d \in Drainers, g \in Gens : WF_vars(DrainStep(d, g))

-----------------------------------------------------------------------------
\* The type invariant: the count is the number of requests between Add(1) and
\* Add(-1), and no generation newer than the active one is drained.
TypeOK ==
  /\ active \in Gens /\ built \in active .. active + 1 /\ built \in Gens
  /\ setting \in Settings /\ carried \in [Gens -> Settings]
  /\ req \in [Reqs -> [pc : {"idle", "loaded", "serving", "last", "select", "close"},
                       gen : 0 .. active]]
  /\ inflight \in [Gens -> Nat]
  /\ \A g \in Gens : inflight[g] = Cardinality({r \in Reqs : req[r] = [pc |-> "serving", gen |-> g]})
  /\ draining \in [Gens -> BOOLEAN] /\ drained \in [Gens -> 0 .. 2]
  /\ drainer \in [Drainers -> [Gens -> {"none", "start", "count", "select", "close",
                                        "wait", "release", "over", "panic"}]]
  /\ server \in {"open", "closing", "closed", "overdue"}
  /\ timedOut \in [Gens -> BOOLEAN] /\ released \in [Gens -> 0 .. 1]
  /\ \A g \in Gens : draining[g] => g <= active

\* activateGeneration: "neither ordering can lose state".  However a hot update
\* and a reload interleave, the active generation carries the latest setting.
HotStateKept == carried[active] = setting

\* Until Shutdown, the generation that takes new requests is not being drained
\* and its resources are not released.
ActiveServes == ~Stopping => ~draining[active] /\ released[active] = 0

\* drain and ServeHTTP: no wake-up is lost.  While a drain waits for a channel that is
\* not closed, a request is left that will find the draining flag set and close it:
\* whichever way the flag, the count and the two drains of one generation interleave,
\* only a request that takes too long makes a drain time out.
LastRequestSignals ==
  \A d \in Drainers, g \in Gens : (At(d, g, "wait") /\ drained[g] = 0) =>
    \E r \in Reqs : req[r].gen = g /\ req[r].pc \in {"serving", "last", "select", "close"}

\* A superseded generation is released in the end, even if a request never
\* finishes, unless its drain goroutine panicked.
OldReleased ==
  \A g \in Gens : (active > g) ~> (released[g] > 0 \/ drainer["reload"][g] = "panic")

\* supervisor.go:269, drain "waits until all in-flight requests complete or the
\* timeout is reached": no request is being served by a generation released
\* without a timeout, of its drain or of the server's stop.
DrainWaits ==
  \A r \in Reqs : req[r].pc = "serving" /\ released[req[r].gen] > 0 =>
    timedOut[req[r].gen] \/ server = "overdue"
=============================================================================
