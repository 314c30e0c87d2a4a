----------------------------- MODULE ReplayBody -----------------------------
(***************************************************************************)
(* The replayable request bodies of pool requests and the memory budget    *)
(* they share (internal/proxy/group_replay.go, with its use in             *)
(* group_serve.go and groupFailoverWriter's commit in group_failover.go).  *)
(*                                                                         *)
(* A body is read into a buffer whose capacity is reserved in the budget   *)
(* before it is allocated.  Each attempt opens a reader; the transport may *)
(* open more with GetBody and closes what it opened in its own time.  The  *)
(* first client-visible header commits the body, and it is released when   *)
(* it is committed and the last reader is closed.                          *)
(*                                                                         *)
(* Sizes count initial chunks of 64 KiB: the first capacity of a body of   *)
(* unknown length is 1.  CAS loops and atomic adds are single steps.       *)
(***************************************************************************)
EXTENDS Integers, FiniteSets, FiniteSetsExt

CONSTANTS Reqs, BodyLimit, ProcessBudget,
          MaxAttempts,   \* bound: forward attempts of a request
          MaxReaders     \* bound: readers open on one body

VARIABLES
  used,      \* groupReplayBudget.used
  body       \* body[r]: the groupReplayBody of request r and the handler around it

Unknown == -1
Chunk == 1

\* declared: Content-Length; size: what the client sends; len, cap: of the buffer;
\* next: the capacity being grown into; readers, own: open readers, and whether the
\* attempt's own is one of them; empty: an attempt was given the empty reader.
Fresh == [pc |-> "idle", declared |-> 0, size |-> 0, len |-> 0, cap |-> 0, next |-> 0,
          reserved |-> 0, readers |-> 0, own |-> FALSE, committed |-> FALSE, released |-> FALSE,
          attempts |-> 0, empty |-> FALSE]

Init == used = 0 /\ body = [r \in Reqs |-> Fresh]

Set(r, new) == body' = [body EXCEPT ![r] = new]

\* groupReplayBudget.reserve
CanReserve(n) == n <= ProcessBudget - used

-----------------------------------------------------------------------------
(* readGroupReplayBody                                                     *)

\* A declared length over the limit is refused unread.  net/http frames a body to
\* its declared length; one that ends short of it is a read error.
Begin(r, declared, size) ==
  /\ body[r].pc = "idle"
  /\ declared # Unknown => size <= declared
  /\ LET initial == IF declared = Unknown THEN Chunk ELSE declared
     IN  IF declared > BodyLimit \/ ~CanReserve(initial)
         THEN UNCHANGED <<used, body>>
         ELSE /\ used' = used + initial
              /\ Set(r, [Fresh EXCEPT !.pc = "read", !.declared = declared, !.size = size,
                                      !.cap = initial, !.reserved = initial])

Complete(b) == b.declared # Unknown /\ b.len = b.declared

\* The error returns release what is reserved.
Fail(r) == Set(r, Fresh) /\ used' = used - body[r].reserved

\* Mutant: the difference is all that is reserved for the new buffer.
GrowByDifference(r) ==
  LET b == body[r]
      new == Min({Max({2 * b.cap, Chunk}), BodyLimit})
  IN  /\ b.pc = "read" /\ ~Complete(b) /\ b.len < BodyLimit /\ b.len = b.cap
      /\ IF CanReserve(new - b.cap)
         THEN used' = used + new - b.cap /\ Set(r, [b EXCEPT !.pc = "grow", !.next = new])
         ELSE Fail(r)

\* The buffer is full: the whole new one is reserved while the old one is live.
Grow(r) ==
  LET b == body[r]
      new == Min({Max({2 * b.cap, Chunk}), BodyLimit})
  IN  /\ b.pc = "read" /\ ~Complete(b) /\ b.len < BodyLimit /\ b.len = b.cap
      /\ IF CanReserve(new)
         THEN used' = used + new /\ Set(r, [b EXCEPT !.pc = "grow", !.next = new])
         ELSE Fail(r)

\* After the copy the old capacity is given back.
Grown(r) ==
  LET b == body[r]
  IN  /\ b.pc = "grow"
      /\ used' = used - b.reserved
      /\ Set(r, [b EXCEPT !.pc = "read", !.cap = b.next, !.reserved = b.next, !.next = 0])

\* A read of at least one chunk into the free capacity.
Read(r, n) ==
  LET b == body[r]
  IN  /\ b.pc = "read" /\ ~Complete(b) /\ b.len < b.cap /\ b.len + n <= Min({b.cap, b.size})
      /\ Set(r, [b EXCEPT !.len = @ + n])
      /\ UNCHANGED used

\* The end of the body: complete, or io.EOF with the size unknown.  A read may fail at
\* any time; at the limit, finding one more byte is a failure too.
ReadEnds(r) ==
  LET b == body[r]
  IN  /\ b.pc = "read"
      /\ \/ /\ Complete(b) \/ (b.declared = Unknown /\ b.len = b.size)
            /\ Set(r, [b EXCEPT !.pc = "ready"])
            /\ UNCHANGED used
         \/ ~Complete(b) /\ Fail(r)

-----------------------------------------------------------------------------
(* The attempts                                                            *)

\* Mutant: the last reader's Close frees the body, committed or not.
ReleaseUncommitted(r, b) ==
  IF ~b.released /\ b.readers = 0
  THEN used' = used - b.reserved /\ Set(r, [b EXCEPT !.released = TRUE, !.reserved = 0])
  ELSE UNCHANGED used /\ Set(r, b)

\* releaseIfIdleLocked, on a body whose other fields have been updated.
Idle(b) == ~b.released /\ b.committed /\ b.readers = 0
ReleaseIfIdle(r, b) ==
  IF Idle(b)
  THEN used' = used - b.reserved /\ Set(r, [b EXCEPT !.released = TRUE, !.reserved = 0])
  ELSE UNCHANGED used /\ Set(r, b)

\* serveGroupAttempt opens a reader for a body that has data.
Attempt(r) ==
  LET b == body[r]
      has == b.len > 0 /\ ~b.released
  IN  /\ b.pc = "ready" /\ b.attempts < MaxAttempts
      /\ b.readers < MaxReaders
      /\ Set(r, [b EXCEPT !.pc = "attempt", !.attempts = @ + 1, !.own = has,
                          !.readers = IF has THEN @ + 1 ELSE @,
                          !.empty = @ \/ (b.len > 0 /\ b.released)])
      /\ UNCHANGED used

\* GetBody: the transport sends the request again, before any response to it.
Resend(r) ==
  LET b == body[r]
  IN  /\ b.pc = "attempt" /\ ~b.committed /\ b.len > 0 /\ b.readers < MaxReaders
      /\ Set(r, [b EXCEPT !.readers = IF b.released THEN @ ELSE @ + 1, !.empty = @ \/ b.released])
      /\ UNCHANGED used

\* The transport closes the attempt's reader (once) or one of its own.
CloseOwn(r) ==
  LET b == body[r]
  IN  /\ b.own
      /\ ReleaseIfIdle(r, [b EXCEPT !.own = FALSE, !.readers = @ - 1])

CloseOther(r) ==
  LET b == body[r]
  IN  /\ b.readers > (IF b.own THEN 1 ELSE 0)
      /\ ReleaseIfIdle(r, [b EXCEPT !.readers = @ - 1])

\* The first header that reaches the client commits (groupFailoverWriter.commit).
Commit(r) ==
  LET b == body[r]
  IN  /\ b.pc = "attempt" /\ ~b.committed
      /\ ReleaseIfIdle(r, [b EXCEPT !.committed = TRUE])

\* serveGroupAttempt returns through its deferred Close.  Only a captured failure is
\* followed by another attempt.
AttemptReturns(r) ==
  LET b == body[r]
      after == IF b.committed THEN "done" ELSE "ready"
  IN  /\ b.pc = "attempt"
      /\ IF b.own THEN ReleaseIfIdle(r, [b EXCEPT !.pc = after, !.own = FALSE, !.readers = @ - 1])
         ELSE UNCHANGED used /\ Set(r, [b EXCEPT !.pc = after])

\* handleOauthGroupRoute returns through replay.Close.
Finish(r) ==
  LET b == body[r]
  IN  /\ b.pc \in {"ready", "done"}
      /\ ReleaseIfIdle(r, [b EXCEPT !.pc = "returned", !.committed = TRUE])

\* The slot is reused once the transport has closed the last reader.
Forget(r) ==
  /\ body[r].pc = "returned" /\ body[r].readers = 0
  /\ Set(r, Fresh)
  /\ UNCHANGED used

Next ==
  \E r \in Reqs :
    \/ \E d \in Unknown .. BodyLimit + 1, s \in 0 .. BodyLimit + 1 : Begin(r, d, s)
    \/ Grow(r) \/ Grown(r) \/ ReadEnds(r) \/ \E n \in 1 .. BodyLimit : Read(r, n)
    \/ Attempt(r) \/ Resend(r) \/ CloseOwn(r) \/ CloseOther(r) \/ Commit(r)
    \/ AttemptReturns(r) \/ Finish(r) \/ Forget(r)

-----------------------------------------------------------------------------
(* Properties                                                              *)

\* The bytes request r really keeps alive: its buffer, and the new one while it is
\* copied into; after the release only what an open reader still points to.
Live(r) ==
  IF body[r].released /\ body[r].readers = 0 THEN 0 ELSE body[r].cap + body[r].next

\* The budget's count is what the buffers of bodies not yet released occupy and never
\* exceeds the limit: nothing is leaked, given back twice or given back while it is
\* read.  (A closed reader that an attempt has not let go of may keep the array from
\* the garbage collector a little longer; the code does not count that.)
BudgetIsMemory ==
  /\ used = MapThenSumSet(Live, Reqs)
  /\ used <= ProcessBudget

\* An attempt, or a retry of the transport within it, has the whole body to send: a
\* body is complete when it is first opened and is not released before a response
\* was committed.
AttemptHasBody ==
  \A r \in Reqs :
    /\ ~body[r].empty
    /\ body[r].pc = "attempt" => body[r].len = body[r].size
=============================================================================
