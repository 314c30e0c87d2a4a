------------------------------- MODULE GenSeq -------------------------------
(***************************************************************************)
(* The sequence allocator under hot reload (internal/supervisor/           *)
(* supervisor.go).  Every generation of the proxy owns a LaneAllocator on  *)
(* the same state file.  Reload activates the new generation first and     *)
(* closes the old one later, when its requests have drained, so the        *)
(* allocators of two generations are alive over one file.  One lane is     *)
(* modelled: lanes have separate files and do not interact.                *)
(***************************************************************************)
EXTENDS SeqOps, Sequences, FiniteSets

CONSTANTS MaxGens,       \* bound: generations built over all process runs
          MaxSeq,        \* bound: no number above it is handed out
          LateRequests   \* whether a request may outlive the drain timeout

Gens == 1 .. MaxGens

VARIABLES
  status,      \* status[g]: "none", "active", "draining" or "closed"
  built,       \* generations built so far (Supervisor.genID)
  file,        \* the lane's state file
  alloc,       \* alloc[g]: the allocator of generation g for the lane
  issued,      \* history: numbers handed out, in order
  overlap      \* history: two allocators were in use over the file at once

vars == <<status, built, file, alloc, issued, overlap>>

Init ==
  /\ status = [g \in Gens |-> IF g = 1 THEN "active" ELSE "none"]
  /\ built = 1
  /\ file = Absent
  /\ alloc = [g \in Gens |-> NoAlloc]
  /\ issued = << >>
  /\ overlap = FALSE

\* Generations that may still serve a request: a retired one while it drains,
\* and, when the drain timed out, even after it was closed.
InUse(g) == status[g] \in {"active", "draining"} \/ (LateRequests /\ status[g] = "closed")
Open(g) == alloc[g] # NoAlloc /\ status[g] \in {"active", "draining"}

\* LaneAllocator.For on first use by g: a request's Next, or the uploader's
\* Allocated when it reports a backlog batch.
OpenLane(g) ==
  /\ InUse(g) /\ alloc[g] = NoAlloc
  /\ alloc' = [alloc EXCEPT ![g] = NewSeqAllocator(file)]
  /\ overlap' = (overlap \/ \E h \in Gens \ {g} : Open(h))
  /\ UNCHANGED <<status, built, file, issued>>

\* SeqAllocator.Next for a request served by generation g.  A request that
\* outlived the drain timeout still runs on a closed generation.
NextSeq(g) ==
  /\ InUse(g) /\ alloc[g] # NoAlloc
  /\ alloc[g].next <= MaxSeq
  /\ LET a == IF Exhausted(alloc[g]) THEN Reserved(alloc[g]) ELSE alloc[g]
     IN /\ file' = IF Exhausted(alloc[g]) THEN NewHi(alloc[g]) ELSE file
        /\ alloc' = [alloc EXCEPT ![g] = HandedOut(a)]
        /\ issued' = Append(issued, alloc[g].next)
  /\ overlap' = (overlap \/ (status[g] = "closed"))
  /\ UNCHANGED <<status, built>>

\* Reload: the new generation becomes active, the old one starts draining.
Reload ==
  /\ built < MaxGens
  /\ \E g \in Gens :
       /\ status[g] = "active"
       /\ status' = [status EXCEPT ![g] = "draining", ![built + 1] = "active"]
  /\ built' = built + 1
  /\ UNCHANGED <<file, alloc, issued, overlap>>

\* The state file after closeAll has closed generation g's allocator.
FileAfterClose(g) ==
  IF alloc[g] # NoAlloc /\ NeedsShrink(alloc[g]) THEN Allocated(alloc[g]) ELSE file

\* drain_old finished (or timed out): the retired generation is closed.
CloseOld(g) ==
  /\ status[g] = "draining"
  /\ status' = [status EXCEPT ![g] = "closed"]
  /\ file' = FileAfterClose(g)
  /\ alloc' = [alloc EXCEPT ![g] = IF @ = NoAlloc THEN NoAlloc ELSE Shrunk(@)]
  /\ UNCHANGED <<built, issued, overlap>>

\* The process ends and is started again over the same file.
NewProcess ==
  /\ built < MaxGens
  /\ status' = [g \in Gens |-> IF g = built + 1 THEN "active" ELSE "none"]
  /\ alloc' = [g \in Gens |-> NoAlloc]
  /\ built' = built + 1

\* Shutdown closes the active generation only: one that is still draining
\* is abandoned with its block.
Restart ==
  /\ \E g \in Gens : status[g] = "active" /\ file' = FileAfterClose(g)
  /\ NewProcess
  /\ UNCHANGED <<issued, overlap>>

\* The process dies without closing anything.
Crash ==
  /\ NewProcess
  /\ UNCHANGED <<file, issued, overlap>>

Next ==
  \/ Reload \/ Restart \/ Crash
  \/ \E g \in Gens : OpenLane(g) \/ NextSeq(g) \/ CloseOld(g)

Spec == Init /\ [][Next]_vars
-----------------------------------------------------------------------------
\* The type invariant of the reload model: Supervisor.active names exactly
\* one generation.
TypeOK ==
  /\ status \in [Gens -> {"none", "active", "draining", "closed"}]
  /\ built \in Gens
  /\ file \in Files
  /\ alloc \in [Gens -> Allocators]
  /\ issued \in Seq(Nat)
  /\ overlap \in BOOLEAN
  /\ Cardinality({g \in Gens : status[g] = "active"}) = 1

Increasing(s) == \A i, j \in 1 .. Len(s) : i < j => s[i] < s[j]

\* As long as the allocators of two generations were never in use at the same
\* time, reloads, restarts and crashes never make the source reuse a number.
NeverReusedSerial == ~overlap => Increasing(issued)
=============================================================================
