------------------------------- MODULE SeqOps -------------------------------
(***************************************************************************)
(* The reserve-ahead sequence allocator of internal/events/seqalloc.go as  *)
(* operators on one allocator record and one state file.                   *)
(*                                                                         *)
(* A state file holds the reserved high-water mark or is Absent.  An       *)
(* allocator in memory is a record [next, reservedHi]: the next number to  *)
(* hand out and the highest number it believes is reserved on disk.  The   *)
(* state machines LaneSeq and GenSeq are built from these operators.  *)
(***************************************************************************)
EXTENDS Integers

CONSTANT BlockSize       \* numbers reserved by one durable write of the file

ASSUME BlockSizeAssumption == BlockSize \in Nat \ {0}

Absent == -1             \* the state file does not exist
NoAlloc == [next |-> 0, reservedHi |-> -1]   \* the lane has no allocator yet

Files == Nat \cup {Absent}
Allocators == [next : Nat, reservedHi : Nat \cup {-1}]

\* loadSeqState: an absent file reads as 0.
LoadSeqState(f) == IF f = Absent THEN 0 ELSE f

\* Mutant: resume at the mark itself.
NewSeqAllocatorAtMark(f) ==
  [next |-> LoadSeqState(f), reservedHi |-> LoadSeqState(f)]

\* NewSeqAllocator: resume strictly above everything the file covers.
NewSeqAllocator(f) ==
  [next |-> LoadSeqState(f) + 1, reservedHi |-> LoadSeqState(f)]

\* Next must reserve a block before it can hand out a number.
Exhausted(a) == a.next > a.reservedHi

\* Mutant: two blocks are reserved at once.
NewHiTwice(a) == a.reservedHi + 2 * BlockSize

\* The mark Next writes durably when the block is exhausted.
NewHi(a) == a.reservedHi + BlockSize

\* The allocator after the reservation is on disk, and after a hand-out.
Reserved(a) == [next |-> a.next, reservedHi |-> NewHi(a)]
HandedOut(a) == [next |-> a.next + 1, reservedHi |-> a.reservedHi]

\* Allocated: the highest number handed out, never the reserved mark.
Allocated(a) == a.next - 1

\* Close writes the last used number unless the file already says so.
NeedsShrink(a) == Allocated(a) # a.reservedHi
Shrunk(a) == [next |-> a.next, reservedHi |-> Allocated(a)]
=============================================================================
