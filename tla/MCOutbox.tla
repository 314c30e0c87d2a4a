------------------------------ MODULE MCOutbox ------------------------------
(***************************************************************************)
(* Three instances of the outbox of a source that feeds one lane; a        *)
(* behaviour is one of one of them.  In "files", files of the log may be        *)
(* unreadable whenever they are read, and a reply of the collector has     *)
(* room for one missing number.  In "restart", the process stops and       *)
(* starts again at any point.  In "passes", a reconcile pass started by    *)
(* hand overlaps an automatic one, with both of the above.                 *)
(***************************************************************************)
EXTENDS Integers

CONSTANTS Lanes, Outcomes

VARIABLES part, alloc, inflight, wal, cur, open, sent, confirmed, lastView, stallPasses,
          tracked, owed, pump, rec, stored, lost, srvHi, srvFloor, dead, restarts,
          appended, resent, unseen

vars == <<part, alloc, inflight, wal, cur, open, sent, confirmed, lastView, stallPasses,
          tracked, owed, pump, rec, stored, lost, srvHi, srvFloor, dead, restarts,
          appended, resent, unseen>>

Files == INSTANCE Outbox WITH
  LegacyHi <- 0, BatchSize <- 2, terminalResendAttempts <- 2, sentStallReconcilePasses <- 1,
  Passes <- {"auto"}, GapWindow <- 1, ReadsFail <- TRUE,
  MaxSeq <- 2, MaxFiles <- 2, MaxRestarts <- 0

Restarted == INSTANCE Outbox WITH
  LegacyHi <- 0, BatchSize <- 2, terminalResendAttempts <- 2, sentStallReconcilePasses <- 1,
  Passes <- {"auto"}, GapWindow <- 2, ReadsFail <- FALSE,
  MaxSeq <- 2, MaxFiles <- 1, MaxRestarts <- 1

Overlapping == INSTANCE Outbox WITH
  LegacyHi <- 0, BatchSize <- 2, terminalResendAttempts <- 2, sentStallReconcilePasses <- 1,
  Passes <- {"auto", "admin"}, GapWindow <- 1, ReadsFail <- TRUE,
  MaxSeq <- 1, MaxFiles <- 2, MaxRestarts <- 1

Init ==
  \/ part = "files" /\ Files!Init
  \/ part = "restart" /\ Restarted!Init
  \/ part = "passes" /\ Overlapping!Init

Next ==
  /\ UNCHANGED part
  /\ \/ part = "files" /\ Files!Next
     \/ part = "restart" /\ Restarted!Next
     \/ part = "passes" /\ Overlapping!Next

Spec == Init /\ [][Next]_vars

\* The properties of Outbox, each of the instance that is running.
TypeOK ==
  CASE part = "files" -> Files!TypeOK
    [] part = "restart" -> Restarted!TypeOK
    [] part = "passes" -> Overlapping!TypeOK

Conserved ==
  CASE part = "files" -> Files!Conserved
    [] part = "restart" -> Restarted!Conserved
    [] part = "passes" -> Overlapping!Conserved


LossEarned ==
  CASE part = "files" -> Files!LossEarned
    [] part = "restart" -> Restarted!LossEarned
    [] part = "passes" -> Overlapping!LossEarned
=============================================================================
