------------------------------ MODULE LaneSeq -------------------------------
(***************************************************************************)
(* LaneAllocator (internal/events/seqalloc_lane.go) over its state files,  *)
(* for one process at a time: every delivery lane (an org id) has its own  *)
(* SeqAllocator, opened on first use and seeded above the legacy single    *)
(* stream.  The process may crash between any two steps and start again;   *)
(* any durable write may fail.                                             *)
(***************************************************************************)
EXTENDS SeqOps, Sequences, FiniteSets

CONSTANTS Lanes,         \* the org ids that produce usage events
          LegacyHi,      \* high-water mark in the pre-split file seq.state
          MaxSeq,        \* bound: no lane issues a number above it
          MaxStops       \* bound: how often the process stops

ASSUME LegacyAssumption == LegacyHi \in Nat
ASSUME BoundsAssumption == MaxSeq \in Nat /\ MaxStops \in Nat

VARIABLES
  phase,       \* "down", "open" (serving) or "closed" (Close was called)
  file,        \* file[l]: the lane's state file
  alloc,       \* alloc[l]: LaneAllocator.lanes[l], NoAlloc until first use
  mid,         \* mid[l]: Next holds the lane's mutex, block already reserved
  floor,       \* floor[l]: LaneAllocator.pendingFloor[l], 0 when none
  issued,      \* history: issued[l] is the sequence of numbers handed out
  hard         \* history: hard[l] counts stops that left the file unshrunk

vars == <<phase, file, alloc, mid, floor, issued, hard>>

Init ==
  /\ phase = "down"
  /\ file = [l \in Lanes |-> Absent]
  /\ alloc = [l \in Lanes |-> NoAlloc]
  /\ mid = [l \in Lanes |-> FALSE]
  /\ floor = [l \in Lanes |-> 0]
  /\ issued = [l \in Lanes |-> << >>]
  /\ hard = [l \in Lanes |-> 0]

\* NewLaneAllocator: lanes are opened lazily, so nothing is read yet.
Start ==
  /\ phase = "down"
  /\ phase' = "open"
  /\ UNCHANGED <<file, alloc, mid, floor, issued, hard>>

Live == phase \in {"open", "closed"}

\* Mutant: the legacy mark is not written to a new lane's file.
SeededNever(f) == f

\* The lane's file when For has run: seeded above the legacy stream.
Seeded(f) == IF f = Absent /\ LegacyHi > 0 THEN LegacyHi ELSE f

\* For on a lane not opened yet.  The seed is written before the allocator
\* is created and the obligation to tell the server is noted in memory.
For(l) ==
  /\ Live
  /\ alloc[l] = NoAlloc
  /\ file' = [file EXCEPT ![l] = Seeded(@)]
  /\ alloc' = [alloc EXCEPT ![l] = NewSeqAllocator(Seeded(file[l]))]
  /\ floor' = [floor EXCEPT ![l] =
                 IF file[l] = Absent /\ LegacyHi > 0 THEN LegacyHi ELSE @]
  /\ UNCHANGED <<phase, mid, issued, hard>>

Take(l) ==
  /\ alloc' = [alloc EXCEPT ![l] = HandedOut(@)]
  /\ issued' = [issued EXCEPT ![l] = Append(@, alloc[l].next)]

\* Next, when the current block still has a number.
NextInBlock(l) ==
  /\ Live /\ alloc[l] # NoAlloc /\ ~mid[l]
  /\ ~Exhausted(alloc[l])
  /\ alloc[l].next <= MaxSeq
  /\ Take(l)
  /\ UNCHANGED <<phase, file, mid, floor, hard>>

\* Mutant: the reservation stays in memory.
NextReserveInMemory(l) ==
  /\ Live /\ alloc[l] # NoAlloc /\ ~mid[l]
  /\ Exhausted(alloc[l])
  /\ alloc[l].next <= MaxSeq
  /\ alloc' = [alloc EXCEPT ![l] = Reserved(@)]
  /\ mid' = [mid EXCEPT ![l] = TRUE]
  /\ UNCHANGED <<phase, file, floor, issued, hard>>

\* Next, first half: the new mark is durable before anything is handed out.
NextReserve(l) ==
  /\ Live /\ alloc[l] # NoAlloc /\ ~mid[l]
  /\ Exhausted(alloc[l])
  /\ alloc[l].next <= MaxSeq
  /\ file' = [file EXCEPT ![l] = NewHi(alloc[l])]
  /\ alloc' = [alloc EXCEPT ![l] = Reserved(@)]
  /\ mid' = [mid EXCEPT ![l] = TRUE]
  /\ UNCHANGED <<phase, floor, issued, hard>>

\* Next, second half: the number is returned and the mutex released.
NextReturn(l) ==
  /\ Live /\ mid[l]
  /\ Take(l)
  /\ mid' = [mid EXCEPT ![l] = FALSE]
  /\ UNCHANGED <<phase, file, floor, hard>>

\* declareStreamSwitch: the server accepted the floor (ClearPendingFloor).
Declare(l) ==
  /\ Live
  /\ floor[l] > 0
  /\ floor' = [floor EXCEPT ![l] = 0]
  /\ UNCHANGED <<phase, file, alloc, mid, issued, hard>>

\* Close: every open lane shrinks its file; the writes of the lanes in
\* failed do not succeed and leave the file at the block boundary.
Close ==
  /\ phase = "open"
  /\ \A l \in Lanes : ~mid[l]
  /\ phase' = "closed"
  /\ \E failed \in SUBSET {l \in Lanes : alloc[l] # NoAlloc /\ NeedsShrink(alloc[l])} :
       LET done == {l \in Lanes : alloc[l] # NoAlloc /\ NeedsShrink(alloc[l])} \ failed
       IN /\ file' = [l \in Lanes |-> IF l \in done THEN Allocated(alloc[l]) ELSE file[l]]
          /\ alloc' = [l \in Lanes |-> IF l \in done THEN Shrunk(alloc[l]) ELSE alloc[l]]
  /\ UNCHANGED <<mid, floor, issued, hard>>

\* Mutant: the allocators survive the end of the process.
StopKeepsMemory ==
  /\ Live
  /\ \A l \in Lanes : hard[l] < MaxStops
  /\ phase' = "down"
  /\ UNCHANGED <<file, alloc, mid, floor, issued, hard>>

\* The process ends: after Close, or as a crash between two steps.  Memory
\* is lost; the state files stay as they are.
Stop ==
  /\ Live
  /\ \A l \in Lanes : hard[l] < MaxStops
  /\ phase' = "down"
  /\ hard' = [l \in Lanes |->
                IF alloc[l] # NoAlloc /\ NeedsShrink(alloc[l]) THEN hard[l] + 1 ELSE hard[l]]
  /\ alloc' = [l \in Lanes |-> NoAlloc]
  /\ mid' = [l \in Lanes |-> FALSE]
  /\ floor' = [l \in Lanes |-> 0]
  /\ UNCHANGED <<file, issued>>

LaneStep(l) ==
  \/ For(l) \/ NextInBlock(l) \/ NextReserve(l) \/ NextReturn(l) \/ Declare(l)

Next == Start \/ Close \/ Stop \/ \E l \in Lanes : LaneStep(l)

Spec == Init /\ [][Next]_vars

-----------------------------------------------------------------------------
\* The type invariant: allocators live in memory only, so a process that is
\* down has none and the next one starts from the files.
TypeOK ==
  /\ phase \in {"down", "open", "closed"}
  /\ file \in [Lanes -> Files]
  /\ alloc \in [Lanes -> Allocators]
  /\ mid \in [Lanes -> BOOLEAN]
  /\ floor \in [Lanes -> Nat]
  /\ issued \in [Lanes -> Seq(Nat)]
  /\ hard \in [Lanes -> Nat]
  /\ phase = "down" => alloc = [l \in Lanes |-> NoAlloc]

\* seqalloc.go, NEVER-REUSED: the numbers a lane handed out, over every run of
\* the process, are strictly increasing, and all of them are above what the legacy
\* single stream may have used before the split; no number is ever used twice.
NeverReused ==
  \A l \in Lanes : \A i, j \in 1 .. Len(issued[l]) :
    /\ issued[l][i] > LegacyHi
    /\ i < j => issued[l][i] < issued[l][j]

\* seqalloc.go, reserve-ahead: a number is handed out only when the file on
\* disk already covers it, so a crash at any point cannot forget it.
DurableBeforeUse ==
  \A l \in Lanes : \A i \in 1 .. Len(issued[l]) : issued[l][i] <= LoadSeqState(file[l])

\* The numbers above the legacy mark that a lane skipped for good: those below
\* the start of the current block that nobody was given.
Burned(l) ==
  LET top == IF alloc[l] = NoAlloc THEN LoadSeqState(file[l]) ELSE Allocated(alloc[l])
      given == {issued[l][i] : i \in 1 .. Len(issued[l])}
  IN (LegacyHi + 1 .. top) \ given

\* seqalloc.go, "Burn is bounded by blockSize": every stop that left the file
\* unshrunk loses at most one block, and a graceful one loses nothing.
BurnBounded ==
  \A l \in Lanes : Cardinality(Burned(l)) <= hard[l] * BlockSize

\* The abstract specification: numbers are issued in increasing order.
Issue == INSTANCE SeqIssue WITH Numbers <- 1 .. MaxSeq

\* LaneAllocator implements it through crashes, restarts and failed writes.
IssueSpec == Issue!Spec
=============================================================================
