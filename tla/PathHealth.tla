----------------------------- MODULE PathHealth -----------------------------
(***************************************************************************)
(* The circuit breaker of one outbound path: the operations of             *)
(* ProviderPathHealthManager (internal/proxy/path_health.go) on an entry.  *)
(* Each takes the manager's lock once.                                     *)
(*                                                                         *)
(* "healthy" stands for no entry.  probeInFlight is set exactly in state   *)
(* half_open, and a path that has an entry has failed at least once, so    *)
(* that the next failure opens it; what is left of nextProbeAt is whether  *)
(* the time has come.                                                      *)
(***************************************************************************)

PathStates == {"healthy", "suspect", "half_open", "open"}
Entries == [state : PathStates, due : BOOLEAN]

Healthy == [state |-> "healthy", due |-> FALSE]

\* Permit
Permitted(e) == e.state \in {"healthy", "suspect"} \/ (e.state = "open" /\ e.due)
IsProbe(e) == e.state # "healthy"
AfterPermit(e) == IF IsProbe(e) THEN [state |-> "half_open", due |-> e.due] ELSE e

\* NoteTransportFailure: the first failure makes the path suspect, the next one
\* opens it for the time of the backoff.
AfterFailure(e) ==
  IF e = Healthy THEN [state |-> "suspect", due |-> TRUE] ELSE [state |-> "open", due |-> FALSE]

\* NoteProbeCanceled: whoever calls it, a half-open path is open and due again.
AfterCancel(e) == IF e.state = "half_open" THEN [state |-> "open", due |-> TRUE] ELSE e

\* NotifyInputsChanged
AfterInputs(e) == IF e = Healthy THEN e ELSE [state |-> "open", due |-> TRUE]
=============================================================================
