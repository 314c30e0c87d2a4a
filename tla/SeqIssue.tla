------------------------------ MODULE SeqIssue ------------------------------
(***************************************************************************)
(* What the sequence allocator promises to the delivery pipeline: on every *)
(* lane numbers are issued in strictly increasing order, so that no number *)
(* is ever issued twice, whatever crashes and restarts happen in between.  *)
(***************************************************************************)
EXTENDS Integers, Sequences

CONSTANTS Lanes, Numbers
VARIABLE issued          \* issued[l]: the numbers handed out on lane l, in order

Init == issued = [l \in Lanes |-> << >>]

\* One lane issues one number above every number it issued before.
Issue(l, n) ==
  /\ \A i \in 1 .. Len(issued[l]) : issued[l][i] < n
  /\ issued' = [issued EXCEPT ![l] = Append(@, n)]

Next == \E l \in Lanes, n \in Numbers : Issue(l, n)

Spec == Init /\ [][Next]_issued
=============================================================================
