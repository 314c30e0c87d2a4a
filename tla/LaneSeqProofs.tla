--------------------------- MODULE LaneSeqProofs ----------------------------
(***************************************************************************)
(* Proofs that LaneSeq never reissues a number, for every set of lanes,    *)
(* block size, legacy mark and bound.                                      *)
(***************************************************************************)
EXTENDS LaneSeq, TLAPS

\* What a single lane maintains.  The allocator in memory agrees with the file
\* (there is one writer), it has handed out only numbers below next, and the
\* file never falls below what was handed out or below the legacy mark.
LaneInv(l) ==
  /\ phase = "down" => alloc[l] = NoAlloc
  /\ mid[l] => alloc[l] # NoAlloc /\ alloc[l].next <= alloc[l].reservedHi
                                  /\ alloc[l].next <= MaxSeq
  /\ alloc[l] # NoAlloc =>
       /\ alloc[l].reservedHi \in Nat
       /\ alloc[l].reservedHi = LoadSeqState(file[l])
       /\ alloc[l].next <= alloc[l].reservedHi + 1
       /\ alloc[l].next > LegacyHi
       /\ \A i \in 1 .. Len(issued[l]) : issued[l][i] < alloc[l].next
  /\ file[l] # Absent => file[l] >= LegacyHi
  /\ \A i \in 1 .. Len(issued[l]) :
       /\ issued[l][i] <= LoadSeqState(file[l])
       /\ issued[l][i] > LegacyHi
  /\ \A i, j \in 1 .. Len(issued[l]) : i < j => issued[l][i] < issued[l][j]

IInv == TypeOK /\ \A l \in Lanes : LaneInv(l)

USE BlockSizeAssumption, LegacyAssumption, BoundsAssumption

\* Appending a number larger than all others keeps a sequence increasing.
LEMMA AppendIncreasing ==
  ASSUME NEW s \in Seq(Nat), NEW n \in Nat,
         \A i \in 1 .. Len(s) : s[i] < n,
         \A i, j \in 1 .. Len(s) : i < j => s[i] < s[j]
  PROVE  /\ Append(s, n) \in Seq(Nat)
         /\ Len(Append(s, n)) = Len(s) + 1
         /\ \A i \in 1 .. Len(s) : Append(s, n)[i] = s[i]
         /\ Append(s, n)[Len(s) + 1] = n
         /\ \A i, j \in 1 .. Len(Append(s, n)) :
              i < j => Append(s, n)[i] < Append(s, n)[j]
  OBVIOUS

\* The initial state satisfies the inductive invariant: no lane is open.
LEMMA InitIInv == Init => IInv
  BY DEF Init, IInv, TypeOK, LaneInv, NoAlloc, Absent, Files, Allocators, LoadSeqState

\* The elements of a lane's history and its next number are naturals.
LEMMA LaneNat ==
  ASSUME TypeOK, NEW l \in Lanes
  PROVE  /\ issued[l] \in Seq(Nat)
         /\ \A i \in 1 .. Len(issued[l]) : issued[l][i] \in Nat
         /\ alloc[l].next \in Nat
<1>1. issued[l] \in Seq(Nat)
  BY DEF TypeOK
<1>2. alloc[l].next \in Nat
  BY DEF TypeOK, Allocators
<1> QED BY <1>1, <1>2

\* Handing out alloc[l].next, when the file covers it, preserves the lane's
\* invariant: the one step that extends the history.
LEMMA TakeLane ==
  ASSUME TypeOK, NEW l \in Lanes, LaneInv(l),
         alloc[l] # NoAlloc, alloc[l].next <= alloc[l].reservedHi,
         alloc'[l] = HandedOut(alloc[l]),
         issued'[l] = Append(issued[l], alloc[l].next),
         file'[l] = file[l], phase' = phase, phase # "down", mid'[l] = FALSE
  PROVE  LaneInv(l)'
<1> DEFINE a == alloc[l]
           s == issued[l]
           n == alloc[l].next
<1>1. /\ s \in Seq(Nat)
      /\ n \in Nat
      /\ \A i \in 1 .. Len(s) : s[i] < n
      /\ \A i, j \in 1 .. Len(s) : i < j => s[i] < s[j]
  BY DEF TypeOK, LaneInv, Allocators
<1>2. /\ Len(issued'[l]) = Len(s) + 1
      /\ \A i \in 1 .. Len(s) : issued'[l][i] = s[i]
      /\ issued'[l][Len(s) + 1] = n
      /\ \A i, j \in 1 .. Len(issued'[l]) : i < j => issued'[l][i] < issued'[l][j]
  BY <1>1, AppendIncreasing
<1>3. /\ alloc'[l] # NoAlloc
      /\ alloc'[l].next = n + 1
      /\ alloc'[l].reservedHi = a.reservedHi
  BY <1>1 DEF TypeOK, HandedOut, NoAlloc, Allocators
<1>4. /\ a.reservedHi \in Nat
      /\ a.reservedHi = LoadSeqState(file[l])
      /\ n > LegacyHi
  BY DEF LaneInv
<1>5. LoadSeqState(file'[l]) = LoadSeqState(file[l])
  BY DEF LoadSeqState
<1>6. \A i \in 1 .. Len(issued'[l]) :
        /\ issued'[l][i] < alloc'[l].next
        /\ issued'[l][i] <= LoadSeqState(file'[l])
        /\ issued'[l][i] > LegacyHi
  <2> SUFFICES ASSUME NEW i \in 1 .. Len(issued'[l])
               PROVE  /\ issued'[l][i] < n + 1
                      /\ issued'[l][i] <= a.reservedHi
                      /\ issued'[l][i] > LegacyHi
    BY <1>3, <1>4, <1>5
  <2>1. CASE i = Len(s) + 1
    BY <1>1, <1>2, <1>4, <2>1
  <2>2. CASE i \in 1 .. Len(s)
    <3>1. s[i] \in Nat /\ s[i] < n
      BY <1>1, <2>2
    <3>2. s[i] <= a.reservedHi /\ s[i] > LegacyHi
      BY <1>4, <2>2 DEF LaneInv
    <3> QED BY <1>1, <1>2, <2>2, <3>1, <3>2
  <2> QED BY <1>1, <1>2, <2>1, <2>2
<1>7. file'[l] # Absent => file'[l] >= LegacyHi
  BY DEF LaneInv
<1>8. n + 1 <= a.reservedHi + 1 /\ n + 1 > LegacyHi
  BY <1>1, <1>4
<1> HIDE DEF a, s, n
<1> QED BY <1>2, <1>3, <1>4, <1>5, <1>6, <1>7, <1>8 DEF LaneInv

\* A lane none of whose variables change keeps its invariant.
LEMMA LaneFrame ==
  ASSUME NEW l \in Lanes, LaneInv(l),
         alloc'[l] = alloc[l], issued'[l] = issued[l], file'[l] = file[l],
         mid'[l] = mid[l], phase' # "down"
  PROVE  LaneInv(l)'
  BY DEF LaneInv, LoadSeqState

\* The type invariant is preserved by every step.
LEMMA NextTypeOK == TypeOK /\ (\A l \in Lanes : LaneInv(l)) /\ [Next]_vars => TypeOK'
<1> SUFFICES ASSUME TypeOK, \A l \in Lanes : LaneInv(l), [Next]_vars PROVE TypeOK'
  OBVIOUS
<1> USE DEF TypeOK, Files, Allocators
<1>1. CASE Start
  BY <1>1 DEF Start
<1>2. CASE Close
  <2>1. \A l \in Lanes : alloc[l] # NoAlloc => alloc[l].next \in Nat \ {0}
    BY DEF LaneInv
  <2>2. PICK failed \in SUBSET {l \in Lanes : alloc[l] # NoAlloc /\ NeedsShrink(alloc[l])} :
          LET done == {l \in Lanes : alloc[l] # NoAlloc /\ NeedsShrink(alloc[l])} \ failed
          IN /\ file' = [l \in Lanes |-> IF l \in done THEN Allocated(alloc[l]) ELSE file[l]]
             /\ alloc' = [l \in Lanes |-> IF l \in done THEN Shrunk(alloc[l]) ELSE alloc[l]]
    BY <1>2 DEF Close
  <2>3. \A l \in Lanes : alloc[l] # NoAlloc =>
          Allocated(alloc[l]) \in Nat /\ Shrunk(alloc[l]) \in Allocators
    BY <2>1 DEF Allocated, Shrunk
  <2> QED BY <1>2, <2>2, <2>3 DEF Close
<1>3. CASE Stop
  BY <1>3 DEF Stop, NoAlloc
<1>4. ASSUME NEW l \in Lanes, LaneStep(l) PROVE TypeOK'
  <2>0. phase # "down" /\ phase' = phase
    BY <1>4 DEF LaneStep, For, NextInBlock, NextReserve, NextReturn, Declare, Live, LaneInv
  <2>1. CASE For(l)
    <3>1. Seeded(file[l]) \in Files /\ NewSeqAllocator(Seeded(file[l])) \in Allocators
      BY DEF Seeded, NewSeqAllocator, LoadSeqState, Absent
    <3> QED BY <2>0, <2>1, <3>1 DEF For
  <2>2. CASE NextInBlock(l)
    BY <2>0, <2>2 DEF NextInBlock, Take, HandedOut
  <2>3. CASE NextReserve(l)
    <3>1. alloc[l].reservedHi \in Nat
      BY <2>3 DEF NextReserve, LaneInv
    <3> QED BY <2>0, <2>3, <3>1 DEF NextReserve, Reserved, NewHi
  <2>4. CASE NextReturn(l)
    BY <2>0, <2>4 DEF NextReturn, Take, HandedOut
  <2>5. CASE Declare(l)
    BY <2>0, <2>5 DEF Declare
  <2> QED BY <1>4, <2>1, <2>2, <2>3, <2>4, <2>5 DEF LaneStep
<1>5. CASE UNCHANGED vars
  BY <1>5 DEF vars
<1> QED BY <1>1, <1>2, <1>3, <1>4, <1>5 DEF Next

\* Every step preserves the invariant of every lane.
LEMMA NextLaneInv ==
  TypeOK /\ (\A l \in Lanes : LaneInv(l)) /\ [Next]_vars => \A l \in Lanes : LaneInv(l)'
<1> SUFFICES ASSUME TypeOK, \A l \in Lanes : LaneInv(l), [Next]_vars, NEW k \in Lanes
             PROVE  LaneInv(k)'
  OBVIOUS
<1>0. LaneInv(k)
  OBVIOUS
<1>1. CASE Start
  BY <1>0, <1>1, LaneFrame DEF Start
<1>2. CASE Close
  <2>1. PICK failed \in SUBSET {l \in Lanes : alloc[l] # NoAlloc /\ NeedsShrink(alloc[l])} :
          LET done == {l \in Lanes : alloc[l] # NoAlloc /\ NeedsShrink(alloc[l])} \ failed
          IN /\ file' = [l \in Lanes |-> IF l \in done THEN Allocated(alloc[l]) ELSE file[l]]
             /\ alloc' = [l \in Lanes |-> IF l \in done THEN Shrunk(alloc[l]) ELSE alloc[l]]
    BY <1>2 DEF Close
  <2> DEFINE done == {l \in Lanes : alloc[l] # NoAlloc /\ NeedsShrink(alloc[l])} \ failed
  <2>2. CASE k \notin done
    BY <1>0, <1>2, <2>1, <2>2, LaneFrame DEF Close
  <2>3. CASE k \in done
    <3>1. /\ alloc[k] # NoAlloc
          /\ alloc'[k] = [next |-> alloc[k].next, reservedHi |-> alloc[k].next - 1]
          /\ file'[k] = alloc[k].next - 1
          /\ issued'[k] = issued[k] /\ mid'[k] = FALSE /\ phase' = "closed"
      BY <1>2, <2>1, <2>3 DEF Close, TypeOK, Shrunk, Allocated
    <3>2. /\ alloc[k].next \in Nat /\ alloc[k].next > LegacyHi
          /\ \A i \in 1 .. Len(issued[k]) : issued[k][i] \in Nat /\ issued[k][i] < alloc[k].next
                                            /\ issued[k][i] > LegacyHi
          /\ \A i, j \in 1 .. Len(issued[k]) : i < j => issued[k][i] < issued[k][j]
      BY <1>0, <3>1, LaneNat DEF LaneInv
    <3>3. LoadSeqState(file'[k]) = alloc[k].next - 1
      BY <3>1, <3>2 DEF LoadSeqState, Absent
    <3> QED BY <3>1, <3>2, <3>3 DEF LaneInv
  <2> QED BY <2>2, <2>3
<1>3. CASE Stop
  <2>1. /\ alloc'[k] = NoAlloc /\ mid'[k] = FALSE
        /\ issued'[k] = issued[k] /\ file'[k] = file[k]
    BY <1>3 DEF Stop
  <2> QED BY <1>0, <2>1 DEF LaneInv, LoadSeqState
<1>4. ASSUME NEW l \in Lanes, LaneStep(l) PROVE LaneInv(k)'
  <2>0. phase # "down" /\ phase' = phase
    BY <1>4 DEF LaneStep, For, NextInBlock, NextReserve, NextReturn, Declare, Live, LaneInv
  <2>1. CASE k # l
    <3>1. /\ alloc'[k] = alloc[k] /\ issued'[k] = issued[k]
          /\ file'[k] = file[k] /\ mid'[k] = mid[k]
      BY <1>4, <2>1 DEF LaneStep, For, NextInBlock, NextReserve, NextReturn, Declare, Take, TypeOK
    <3> QED BY <1>0, <2>0, <3>1, LaneFrame
  <2>2. CASE k = l /\ For(l)
    <3>1. /\ alloc[k] = NoAlloc /\ ~mid[k] /\ mid'[k] = mid[k] /\ issued'[k] = issued[k]
          /\ file'[k] = Seeded(file[k])
          /\ alloc'[k] = NewSeqAllocator(Seeded(file[k]))
      BY <1>0, <2>2 DEF For, TypeOK, LaneInv
    <3>2. file[k] \in Nat \cup {-1} /\ (file[k] # -1 => file[k] >= LegacyHi)
      BY <1>0 DEF LaneInv, TypeOK, Files, Absent
    <3>3. /\ LoadSeqState(Seeded(file[k])) \in Nat
          /\ LoadSeqState(Seeded(file[k])) >= LegacyHi
          /\ LoadSeqState(file[k]) \in Nat
          /\ LoadSeqState(Seeded(file[k])) >= LoadSeqState(file[k])
          /\ Seeded(file[k]) # Absent => Seeded(file[k]) >= LegacyHi
      BY <3>2 DEF LoadSeqState, Seeded, Absent
    <3>4. \A i \in 1 .. Len(issued[k]) :
            /\ issued[k][i] \in Nat
            /\ issued[k][i] <= LoadSeqState(file[k]) /\ issued[k][i] > LegacyHi
      BY <1>0, LaneNat DEF LaneInv
    <3>5. \A i, j \in 1 .. Len(issued[k]) : i < j => issued[k][i] < issued[k][j]
      BY <1>0 DEF LaneInv
    <3> QED BY <2>0, <3>1, <3>3, <3>4, <3>5 DEF LaneInv, NewSeqAllocator
  <2>3. CASE k = l /\ NextInBlock(l)
    <3>1. /\ alloc[k] # NoAlloc /\ mid'[k] = FALSE /\ file'[k] = file[k]
          /\ ~Exhausted(alloc[k])
          /\ alloc'[k] = HandedOut(alloc[k])
          /\ issued'[k] = Append(issued[k], alloc[k].next)
      BY <2>3 DEF NextInBlock, Take, TypeOK
    <3>2. alloc[k].next <= alloc[k].reservedHi
      BY <1>0, <3>1, LaneNat DEF Exhausted, LaneInv
    <3> QED BY <1>0, <2>0, <3>1, <3>2, TakeLane
  <2>4. CASE k = l /\ NextReserve(l)
    <3>1. /\ alloc[k] # NoAlloc /\ alloc[k].next <= MaxSeq
          /\ alloc'[k] = [next |-> alloc[k].next, reservedHi |-> alloc[k].reservedHi + BlockSize]
          /\ file'[k] = alloc[k].reservedHi + BlockSize
          /\ issued'[k] = issued[k]
      BY <2>4 DEF NextReserve, Reserved, NewHi, TypeOK
    <3>2. /\ alloc[k].next \in Nat /\ alloc[k].reservedHi \in Nat
          /\ alloc[k].reservedHi = LoadSeqState(file[k])
          /\ alloc[k].next <= alloc[k].reservedHi + 1 /\ alloc[k].next > LegacyHi
          /\ \A i \in 1 .. Len(issued[k]) :
               /\ issued[k][i] \in Nat /\ issued[k][i] < alloc[k].next
               /\ issued[k][i] <= alloc[k].reservedHi /\ issued[k][i] > LegacyHi
          /\ \A i, j \in 1 .. Len(issued[k]) : i < j => issued[k][i] < issued[k][j]
      BY <1>0, <3>1, LaneNat DEF LaneInv
    <3>3. LoadSeqState(file'[k]) = alloc[k].reservedHi + BlockSize /\ file'[k] >= LegacyHi
      BY <3>1, <3>2 DEF LoadSeqState, Absent
    <3>4. alloc'[k] # NoAlloc
      BY <3>1, <3>2 DEF NoAlloc
    <3>5. /\ alloc[k].next <= alloc[k].reservedHi + BlockSize
          /\ \A i \in 1 .. Len(issued[k]) : issued[k][i] <= alloc[k].reservedHi + BlockSize
      BY <3>2
    <3> QED BY <2>0, <3>1, <3>2, <3>3, <3>4, <3>5 DEF LaneInv
  <2>5. CASE k = l /\ NextReturn(l)
    BY <1>0, <2>0, <2>5, TakeLane DEF NextReturn, Take, TypeOK, LaneInv
  <2>6. CASE k = l /\ Declare(l)
    BY <1>0, <2>0, <2>6, LaneFrame DEF Declare
  <2> QED BY <1>4, <2>1, <2>2, <2>3, <2>4, <2>5, <2>6 DEF LaneStep
<1>5. CASE UNCHANGED vars
  BY <1>0, <1>5 DEF vars, LaneInv, LoadSeqState
<1> QED BY <1>1, <1>2, <1>3, <1>4, <1>5 DEF Next

\* The inductive invariant holds in every reachable state.
THEOREM LaneSeqInvariant == Spec => []IInv
<1>1. IInv /\ [Next]_vars => IInv'
  BY NextTypeOK, NextLaneInv DEF IInv
<1> QED BY InitIInv, <1>1, PTL DEF Spec

\* Type correctness of the lane allocator.
THEOREM LaneSeqTypeCorrect == Spec => []TypeOK
  BY LaneSeqInvariant, PTL DEF IInv

\* seqalloc.go, NEVER-REUSED: whatever crashes, failed writes and restarts
\* happen, a lane of a single process never hands out the same number twice, nor
\* one of the legacy stream (seqalloc_lane.go, seeding).
THEOREM LaneSeqNeverReused == Spec => []NeverReused
<1>1. IInv => NeverReused
  BY DEF IInv, LaneInv, NeverReused
<1> QED BY LaneSeqInvariant, <1>1, PTL

\* seqalloc.go, reserve-ahead: every number handed out is covered on disk.
THEOREM LaneSeqDurableBeforeUse == Spec => []DurableBeforeUse
<1>1. IInv => DurableBeforeUse
  BY DEF IInv, LaneInv, DurableBeforeUse
<1> QED BY LaneSeqInvariant, <1>1, PTL

\* The lane allocator implements the abstract issuer: every step issues one
\* number above all earlier ones on its lane, or leaves the history alone.
THEOREM LaneSeqRefines == Spec => IssueSpec
<1>1. Init => Issue!Init
  BY DEF Init, Issue!Init
<1>2. IInv /\ [Next]_vars => [Issue!Next]_issued
  <2> SUFFICES ASSUME IInv, [Next]_vars PROVE [Issue!Next]_issued
    OBVIOUS
  <2> USE DEF IInv
  <2>1. ASSUME NEW l \in Lanes, Take(l), LaneInv(l), alloc[l] # NoAlloc, alloc[l].next <= MaxSeq
        PROVE  Issue!Next
    <3>1. alloc[l].next \in 1 .. MaxSeq
      BY <2>1, LaneNat DEF LaneInv
    <3>2. \A i \in 1 .. Len(issued[l]) : issued[l][i] < alloc[l].next
      BY <2>1 DEF LaneInv
    <3>3. Issue!Issue(l, alloc[l].next)
      BY <2>1, <3>2 DEF Take, Issue!Issue
    <3> QED BY <3>1, <3>3 DEF Issue!Next
  <2>2. CASE Start \/ Close \/ Stop
    BY <2>2 DEF Start, Close, Stop
  <2>3. ASSUME NEW l \in Lanes, LaneStep(l) PROVE [Issue!Next]_issued
    <3>1. CASE For(l) \/ NextReserve(l) \/ Declare(l)
      BY <3>1 DEF For, NextReserve, Declare
    <3>2. CASE NextInBlock(l)
      BY <2>1, <3>2 DEF NextInBlock
    <3>3. CASE NextReturn(l)
      BY <2>1, <3>3 DEF NextReturn, LaneInv
    <3> QED BY <2>3, <3>1, <3>2, <3>3 DEF LaneStep
  <2>4. CASE UNCHANGED vars
    BY <2>4 DEF vars
  <2> QED BY <2>2, <2>3, <2>4 DEF Next
<1> QED BY <1>1, <1>2, LaneSeqInvariant, PTL DEF Spec, IssueSpec, Issue!Spec
=============================================================================
