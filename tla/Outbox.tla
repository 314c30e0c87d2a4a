------------------------------- MODULE Outbox -------------------------------
(***************************************************************************)
(* The usage outbox of internal/events: the write-ahead log (wal.go) that  *)
(* requests append to, the Reporter's upload loop with its cursors         *)
(* (reporter.go) and the reconcile pass that repairs what the loop cannot  *)
(* (reconcile.go), against a collector.                                    *)
(*                                                                         *)
(* One proxy process, one source id, one collector.  An event is the lane  *)
(* (org) and the number it was stamped with: numbers are dense per lane,   *)
(* while every cursor of the Reporter is kept per source id, hence a       *)
(* single number here.  The collector is external: it stores events once,  *)
(* keeps a watermark per lane and a ledger of known losses.                *)
(***************************************************************************)
EXTENDS Integers, Sequences, FiniteSets, FiniteSetsExt

CONSTANTS Lanes,         \* the org ids that produce usage events
          LegacyHi,      \* lanes were seeded above this pre-split mark
          BatchSize,     \* ReporterConfig.BatchSize
          terminalResendAttempts,    \* 3 in reconcile.go
          sentStallReconcilePasses,  \* 3 in reconcile.go
          Outcomes,      \* what an upload may meet, a subset of AllOutcomes
          Passes,        \* reconcile passes that may run at once: "auto", "admin"
          GapWindow,     \* the collector's bound on the numbers of one /gaps reply
          ReadsFail,     \* whether a file of the log may be unreadable when read
          MaxSeq,        \* bound: no lane allocates above it
          MaxFiles,      \* bound: hourly files written
          MaxRestarts    \* bound: how often the process restarts

\* ok: 2xx with a watermark; reject: 2xx, but the collector refuses rows;
\* blank: 2xx without a parseable body; lostreply: stored, but the reply never
\* arrives; down: not delivered, or 5xx/429; terminal: 400, 401 or 403.
AllOutcomes == {"ok", "reject", "blank", "lostreply", "down", "terminal"}

ASSUME OutboxConstants ==
  /\ LegacyHi \in Nat /\ MaxSeq \in Nat /\ LegacyHi <= MaxSeq
  /\ terminalResendAttempts \in Nat \ {0} /\ sentStallReconcilePasses \in Nat \ {0}
  /\ BatchSize \in Nat \ {0} /\ MaxFiles \in Nat \ {0} /\ MaxRestarts \in Nat
  /\ Outcomes \subseteq AllOutcomes /\ Passes \subseteq {"auto", "admin"}
  /\ GapWindow \in Nat \ {0} /\ ReadsFail \in BOOLEAN

Numbers == 1 .. MaxSeq
Events == [lane : Lanes, seq : Numbers]

VARIABLES
  alloc,       \* alloc[l]: SeqAlloc.Allocated(l)
  inflight,    \* events numbered by a request that has not appended yet
  wal,         \* entries in file order, [ev, file]
  cur, open,   \* number of the newest hourly file; the writer has it open
  sent,        \* sentSeq of the source
  confirmed,   \* confirmedSeq of the source
  lastView,    \* lastConfirmedView of the source
  stallPasses,
  tracked,     \* resendDelivered of the source
  owed,        \* owed[l]: PendingFloor(l)
  pump,        \* the upload loop: [pc, rest, batch]
  rec,         \* rec[p]: a reconcile pass, [pc, todo, lane, missing, resend, absent, gave]
  stored,      \* collector: stored[l], numbers it holds an event for
  lost,        \* collector: lost[l], the known-loss ledger
  srvHi,       \* collector: highest allocated_seq it was told per lane
  srvFloor,    \* collector: numbers at or below it are terminated, per lane
  dead,        \* events in dead_letter.jsonl
  restarts,
  appended,    \* history: events that reached the WAL
  resent,      \* history: answered re-sends per event, up to the budget
  unseen       \* history: events a reconcile pass took for absent: appended after
               \* it had read the log, or in a file it could not read

client == <<sent, confirmed, lastView, stallPasses, tracked, owed>>
server == <<stored, lost, srvHi, srvFloor>>
vars == <<alloc, inflight, wal, cur, open, client, pump, rec, server, dead,
          restarts, appended, resent, unseen>>

IdlePump == [pc |-> "idle", rest |-> << >>, batch |-> << >>]
IdleRec == [pc |-> "idle", todo |-> {}, lane |-> CHOOSE l \in Lanes : TRUE,
            missing |-> {}, resend |-> {}, absent |-> {}, gave |-> {}]

\* The process starts with lanes already seeded and their floor still owed.
Init ==
  /\ alloc = [l \in Lanes |-> LegacyHi]
  /\ inflight = {} /\ wal = << >> /\ cur = 1 /\ open = FALSE
  /\ sent = 0 /\ confirmed = 0 /\ lastView = 0 /\ stallPasses = 0
  /\ tracked = [n \in Numbers |-> 0]
  /\ owed = [l \in Lanes |-> LegacyHi]
  /\ pump = IdlePump /\ rec = [p \in Passes |-> IdleRec]
  /\ stored = [l \in Lanes |-> {}] /\ lost = [l \in Lanes |-> {}]
  /\ srvHi = [l \in Lanes |-> 0] /\ srvFloor = [l \in Lanes |-> 0]
  /\ dead = {} /\ restarts = 0
  /\ appended = {} /\ resent = [e \in Events |-> 0] /\ unseen = {}

Larger(a, b) == IF a > b THEN a ELSE b
SeqsOf(S) == {e.seq : e \in S}
Elements(s) == {s[i] : i \in DOMAIN s}
InWal == {wal[i].ev : i \in DOMAIN wal}

\* ReadAllWAL: a file that cannot be read is logged and left out; no file at all is
\* what a failed listing leaves.
Readings == IF ReadsFail THEN SUBSET (1 .. cur) ELSE {1 .. cur}
ReadAllWAL(files) == SelectSeq(wal, LAMBDA x : x.file \in files)

-----------------------------------------------------------------------------
(* Requests: reportUsage numbers an event, builds it and appends it.        *)

Allocate(l) ==
  /\ alloc[l] < MaxSeq
  /\ alloc' = [alloc EXCEPT ![l] = @ + 1]
  /\ inflight' = inflight \cup {[lane |-> l, seq |-> alloc[l] + 1]}
  /\ UNCHANGED <<wal, cur, open, client, pump, rec, server, dead, restarts,
                 appended, resent, unseen>>

\* WALWriter.Append: ensureFile rotates when the hour has changed.
AppendWAL(e) ==
  /\ e \in inflight
  /\ inflight' = inflight \ {e}
  /\ \E rotated \in BOOLEAN :
       /\ rotated => cur < MaxFiles
       /\ cur' = IF rotated THEN cur + 1 ELSE cur
  /\ open' = TRUE
  /\ wal' = Append(wal, [ev |-> e, file |-> cur'])
  /\ appended' = appended \cup {e}
  /\ unseen' = IF e.seq \in lost[e.lane] \cup UNION {rec[p].absent : p \in Passes}
               THEN unseen \cup {e} ELSE unseen
  /\ UNCHANGED <<alloc, client, pump, rec, server, dead, restarts, resent>>

\* Append fails on marshal, open or write: counted, the event is gone.
AppendFails(e) ==
  /\ e \in inflight
  /\ inflight' = inflight \ {e}
  /\ UNCHANGED <<alloc, wal, cur, open, client, pump, rec, server, dead,
                 restarts, appended, resent, unseen>>

-----------------------------------------------------------------------------
(* The collector (external).                                                *)

Accounted(l) == stored[l] \cup lost[l] \cup 1 .. srvFloor[l]

\* The watermark for a lane whose accounted numbers are S.
Contiguous(S) ==
  CHOOSE n \in 0 .. MaxSeq : 1 .. n \subseteq S /\ (n + 1 \notin S \/ n = MaxSeq)

\* /v1/diagnostics/gaps: numbers up to the highest one the collector has heard
\* of that nobody accounts for.  /completeness lists the lanes it knows.
Gaps(l) ==
  {n \in Numbers \ Accounted(l) : n <= srvHi[l] \/ \E m \in stored[l] : n < m}
KnownLanes == {l \in Lanes : srvHi[l] > 0 \/ stored[l] # {}}

\* The collector takes the events of a batch, except the rows it refuses.
StoredWith(evs) == [l \in Lanes |-> stored[l] \cup SeqsOf({e \in evs : e.lane = l})]

-----------------------------------------------------------------------------
(* uploadGroupTo: one attempt for one group, with the stream switch that    *)
(* is declared before it.  refused are the rows a 2xx reply hides.          *)

Arrives(o) == o \in {"ok", "reject", "blank", "lostreply"}
groupDone(o) == o \in {"ok", "reject", "blank", "terminal"}

\* declareStreamSwitch, when a floor is owed: it may succeed or not.
DeclareStreamSwitch(l) ==
  \/ UNCHANGED <<owed, srvFloor>>
  \/ /\ owed[l] > 0
     /\ srvFloor' = [srvFloor EXCEPT ![l] = Larger(@, owed[l])]
     /\ owed' = [owed EXCEPT ![l] = 0]

\* confirmedSeq after an attempt; k is the lane the reply's watermark is for.
ConfirmedAfter(o, k) ==
  IF o \in {"ok", "reject"} THEN Larger(confirmed, Contiguous(Accounted(k)')) ELSE confirmed

UploadGroupTo(evs, l, o, refused) ==
  /\ DeclareStreamSwitch(l)
  /\ stored' = IF Arrives(o) THEN StoredWith(evs \ refused) ELSE stored
  /\ srvHi' = IF Arrives(o) THEN [srvHi EXCEPT ![l] = Larger(@, alloc[l])] ELSE srvHi
  /\ lost' = lost
  /\ \E k \in {e.lane : e \in evs} : confirmed' = ConfirmedAfter(o, k)
  /\ dead' = IF o = "terminal" THEN dead \cup evs ELSE dead

\* The outcomes one attempt may have, with the rows refused in it.
Attempts(evs) ==
  {<<o, {}>> : o \in Outcomes \ {"reject"}} \cup
  (IF "reject" \in Outcomes THEN {<<"reject", r>> : r \in SUBSET evs \ {{}}} ELSE {})

\* Mutant: the cursor points at the next number to send.
MarkProcessedNext(evs, o) ==
  sent' = IF groupDone(o) THEN 1 + Max(SeqsOf(evs) \cup {sent}) ELSE sent


\* markProcessed: the source's cursor moves to the group's highest number.
MarkProcessed(evs, o) ==
  sent' = IF groupDone(o) THEN Max(SeqsOf(evs) \cup {sent}) ELSE sent

-----------------------------------------------------------------------------
(* The upload loop: drainOnce.                                              *)

\* A tick or a poke, once the backoff gate of the last pass has expired (the
\* gate only delays the pass).  The whole log is read before anything is sent.
DrainStart ==
  /\ pump.pc = "idle"
  /\ \E files \in Readings :
       LET read == ReadAllWAL(files)
       IN pump' = [IdlePump EXCEPT !.pc = "scan", !.rest = [i \in DOMAIN read |-> read[i].ev]]
  /\ UNCHANGED <<alloc, inflight, wal, cur, open, client, rec, server, dead,
                 restarts, appended, resent, unseen>>

\* Entries at or below the cursor are skipped; the next BatchSize make a batch.
NotSent(s) == SelectSeq(s, LAMBDA e : e.seq > sent)

NextBatch ==
  /\ pump.pc = "scan" /\ pump.batch = << >> /\ pump.rest # << >>
  /\ LET pending == NotSent(pump.rest)
         n == IF Len(pending) < BatchSize THEN Len(pending) ELSE BatchSize
     IN pump' = [pump EXCEPT !.batch = SubSeq(pending, 1, n),
                             !.rest = SubSeq(pending, n + 1, Len(pending))]
  /\ UNCHANGED <<alloc, inflight, wal, cur, open, client, rec, server, dead,
                 restarts, appended, resent, unseen>>

\* uploadPending: the batch is sent lane by lane, in any order.
UploadLane(l, os) ==
  LET evs == {e \in Elements(pump.batch) : e.lane = l}
  IN /\ pump.pc = "scan" /\ evs # {}
     /\ \E a \in Attempts(evs) :
          /\ a[1] \in os
          /\ UploadGroupTo(evs, l, a[1], a[2])
          /\ MarkProcessed(evs, a[1])
          /\ pump' = [pump EXCEPT !.batch = SelectSeq(@, LAMBDA e : e.lane # l)]
     /\ UNCHANGED <<alloc, inflight, wal, cur, open, lastView, stallPasses,
                    tracked, rec, restarts, appended, resent, unseen>>

\* Mutant: a file goes when all its entries were handed to an upload.
PrunableSent(f) ==
  /\ ~(open /\ f = cur)
  /\ \A i \in DOMAIN wal : wal[i].file = f => wal[i].ev.seq <= sent

\* pruneConfirmedWAL: a closed file that can be read goes when the mark covers all its
\* entries.
Prunable(f) ==
  /\ ~(open /\ f = cur)
  /\ \A i \in DOMAIN wal : wal[i].file = f => wal[i].ev.seq <= confirmed

PruneConfirmedWAL ==
  \E files \in Readings : wal' = SelectSeq(wal, LAMBDA x : ~(x.file \in files /\ Prunable(x.file)))

\* Mutant: any confirmation counts as progress, not only a new one.
QuietOnceConfirmed == sent <= confirmed \/ confirmed > 0

\* Nothing is outstanding, or the mark has moved since the last pass.
Quiet == sent <= confirmed \/ confirmed > lastView

Started(p) == [rec EXCEPT ![p] = [IdleRec EXCEPT !.pc = "ask", !.todo = KnownLanes]]

\* maybeAutoReconcile, at the end of a pass; one automatic reconcile at a time.  due: autoReconcileMinInterval has
\* passed since the last trigger; sweep: the hourly clock has run out.
MaybeAutoReconcile(due, sweep) ==
  LET fire == ~Quiet /\ (sweep \/ (stallPasses + 1 >= sentStallReconcilePasses /\ due))
  IN /\ lastView' = confirmed
     /\ stallPasses' = IF Quiet \/ fire THEN 0
                       ELSE IF stallPasses < sentStallReconcilePasses THEN stallPasses + 1
                       ELSE stallPasses
     /\ rec' = IF fire /\ rec["auto"].pc = "idle" THEN Started("auto") ELSE rec

DrainEnd(due, sweep) ==
  /\ pump.pc = "scan" /\ pump.batch = << >> /\ pump.rest = << >>
  /\ PruneConfirmedWAL
  /\ MaybeAutoReconcile(due, sweep)
  /\ pump' = IdlePump
  /\ UNCHANGED <<alloc, inflight, cur, open, sent, confirmed, tracked, owed,
                 server, dead, restarts, appended, resent, unseen>>

-----------------------------------------------------------------------------
(* A reconcile pass: reconcileAgainst, lane by lane.                        *)

Set(p, new) == rec' = [rec EXCEPT ![p] = new]

\* The admin endpoint starts a pass by hand, beside an automatic one or not.
ReconcileGaps ==
  /\ "admin" \in Passes /\ rec["admin"].pc = "idle" /\ KnownLanes # {}
  /\ rec' = Started("admin")
  /\ UNCHANGED <<alloc, inflight, wal, cur, open, client, pump, server, dead,
                 restarts, appended, resent, unseen>>

\* The first numbers of S, as many as one reply has room for.
Window(S) == {n \in S : Cardinality({m \in S : m < n}) < GapWindow}

\* Ask the collector for a lane's missing numbers.  After a truncated reply the lane
\* is asked for again, at most maxReconcileWindows times: EndReconcile may cut it off.
AskGaps(p, l) ==
  /\ rec[p].pc = "ask" /\ l \in rec[p].todo
  /\ LET window == Window(Gaps(l))
         todo == IF window = Gaps(l) THEN rec[p].todo \ {l} ELSE rec[p].todo
     IN Set(p, IF window = {} THEN [rec[p] EXCEPT !.todo = todo]
               ELSE [rec[p] EXCEPT !.pc = "sort", !.todo = todo, !.lane = l, !.missing = window])
  /\ UNCHANGED <<alloc, inflight, wal, cur, open, client, pump, server, dead,
                 restarts, appended, resent, unseen>>

\* A request of the pass fails, or it has no lane left: the pass is over.
EndReconcile(p) ==
  /\ rec[p].pc \in {"ask", "confirm"}
  /\ rec[p].pc = "ask" \/ rec[p].absent \cup rec[p].gave # {}
  /\ Set(p, IdleRec)
  /\ UNCHANGED <<alloc, inflight, wal, cur, open, client, pump, server, dead,
                 restarts, appended, resent, unseen>>

\* Mutants: a number at the floor is not held back; the budget is one short.
HeldBackBelow(l, n) == owed[l] > 0 /\ n < owed[l]
SpentEarly(n) == tracked[n] >= terminalResendAttempts - 1

\* Numbers at or below an owed floor are left alone; a number re-sent often enough
\* and still missing is given up.
HeldBack(l, n) == owed[l] > 0 /\ n <= owed[l]
Spent(n) == tracked[n] >= terminalResendAttempts

\* Sort the missing numbers by what is read of the log (of the whole source).
SortGaps(p) ==
  /\ rec[p].pc = "sort"
  /\ \E files \in Readings :
       LET gap == {n \in rec[p].missing : ~HeldBack(rec[p].lane, n)}
           kept == {n \in gap : \E i \in DOMAIN wal : wal[i].file \in files /\ wal[i].ev.seq = n}
       IN /\ Set(p, [rec[p] EXCEPT !.pc = "resend", !.missing = {},
                                   !.absent = gap \ kept,
                                   !.gave = {n \in kept : Spent(n)},
                                   !.resend = {n \in kept : ~Spent(n)}])
          /\ unseen' = unseen \cup {e \in InWal : e.seq \in gap \ kept}
  /\ tracked' = [n \in Numbers |-> IF n \in rec[p].missing THEN tracked[n] ELSE 0]
  /\ UNCHANGED <<alloc, inflight, wal, cur, open, sent, confirmed, lastView,
                 stallPasses, owed, pump, server, dead, restarts, appended, resent>>

\* The entries resendWALSeqs picks: the first read with each number.
FirstEntries(read, ns) ==
  {read[i].ev : i \in {j \in DOMAIN read :
     /\ read[j].ev.seq \in ns
     /\ \A k \in 1 .. j - 1 : read[k].ev.seq # read[j].ev.seq}}

\* A count per element that stops at the budget, raised for S.
Counted(count, S) ==
  [x \in DOMAIN count |->
     IF x \in S /\ count[x] < terminalResendAttempts THEN count[x] + 1 ELSE count[x]]

\* resendWALSeqs: the picked entries go out again as one group, whatever the cursor
\* says; an attempt that was answered, by a 2xx or terminally, counts against each
\* number's budget.
ResendWALSeqs(p, os) ==
  /\ rec[p].pc = "resend"
  /\ \E files \in Readings :
       LET evs == FirstEntries(ReadAllWAL(files), rec[p].resend)
       IN IF evs = {}
          THEN UNCHANGED <<client, server, dead, resent>>
          ELSE \E a \in Attempts(evs), l \in {e.lane : e \in evs} :
                 /\ a[1] \in os
                 /\ UploadGroupTo(evs, l, a[1], a[2])
                 /\ MarkProcessed(evs, a[1])
                 /\ LET answered == IF groupDone(a[1]) THEN evs ELSE {}
                    IN tracked' = Counted(tracked, SeqsOf(answered)) /\ resent' = Counted(resent, answered)
                 /\ UNCHANGED <<lastView, stallPasses>>
  /\ Set(p, [rec[p] EXCEPT !.pc = "confirm", !.resend = {}])
  /\ UNCHANGED <<alloc, inflight, wal, cur, open, pump, restarts, appended, unseen>>

\* confirm-lost: the collector ledgers the numbers it cannot account for.  Absent
\* numbers are posted first; the post of the given-up ones may fail.
ConfirmLost(p, posted) ==
  /\ rec[p].pc = "confirm"
  /\ posted \in {rec[p].absent, rec[p].absent \cup rec[p].gave}
  /\ lost' = [lost EXCEPT ![rec[p].lane] = @ \cup (posted \ Accounted(rec[p].lane))]
  /\ Set(p, IF posted = rec[p].absent \cup rec[p].gave
            THEN [IdleRec EXCEPT !.pc = "ask", !.todo = rec[p].todo]
            ELSE IdleRec)
  /\ UNCHANGED <<alloc, inflight, wal, cur, open, client, pump, stored, srvHi,
                 srvFloor, dead, restarts, appended, resent, unseen>>

-----------------------------------------------------------------------------
\* ReplayDeadLetter: entries whose upload succeeds leave the file.
ReplayDeadLetter ==
  /\ dead # {}
  /\ \E ok \in SUBSET dead \ {{}} :
       /\ stored' = StoredWith(ok)
       /\ dead' = dead \ ok
  /\ UNCHANGED <<alloc, inflight, wal, cur, open, client, pump, rec, lost, srvHi,
                 srvFloor, restarts, appended, resent, unseen>>

\* The process stops at any point and starts again: what was in memory is
\* gone, the log, the dead-letter file and the allocator's files stay.
Restart ==
  /\ restarts < MaxRestarts
  /\ restarts' = restarts + 1
  /\ inflight' = {} /\ open' = FALSE
  /\ sent' = 0 /\ confirmed' = 0 /\ lastView' = 0 /\ stallPasses' = 0
  /\ tracked' = [n \in Numbers |-> 0]
  /\ owed' = [l \in Lanes |-> 0]
  /\ pump' = IdlePump /\ rec' = [p \in Passes |-> IdleRec]
  /\ UNCHANGED <<alloc, wal, cur, server, dead, appended, resent, unseen>>

Request == \E l \in Lanes : Allocate(l)
Appending == \E e \in inflight : AppendWAL(e)
Losing == \E e \in inflight : AppendFails(e)
Uploading(os) == \E l \in Lanes : UploadLane(l, os)
PassEnd == \E due, sweep \in BOOLEAN : DrainEnd(due, sweep)
Asking(p) == \E l \in Lanes : AskGaps(p, l)
Posting(p) == \E posted \in SUBSET Numbers : ConfirmLost(p, posted)

\* The requests, the upload loop and the passes that have started ...
Running ==
  \/ Request \/ Appending \/ Losing
  \/ DrainStart \/ NextBatch \/ Uploading(Outcomes) \/ PassEnd
  \/ \E p \in Passes :
       Asking(p) \/ SortGaps(p) \/ ResendWALSeqs(p, Outcomes) \/ Posting(p) \/ EndReconcile(p)

\* ... with the admin endpoint, the replay of dead letters and a stop.
Next == Running \/ ReconcileGaps \/ ReplayDeadLetter \/ Restart

Spec == Init /\ [][Next]_vars

\* Fairness of the code's scheduling.  The upload loop is woken by its ticker
\* and never blocks; every HTTP call is bounded by a timeout.  The network and
\* the collector are only assumed to answer again and again: a call retried
\* forever is answered some time.  The timers of the auto-reconcile run out.
Answered == {o \in Outcomes : groupDone(o)}

Fairness ==
  /\ WF_vars(DrainStart) /\ WF_vars(NextBatch) /\ WF_vars(PassEnd)
  /\ SF_vars(Uploading(Answered))
  /\ SF_vars(PassEnd /\ rec # rec')
  /\ \A p \in Passes :
       /\ SF_vars(Asking(p)) /\ WF_vars(SortGaps(p)) /\ SF_vars(ResendWALSeqs(p, Answered))
       /\ SF_vars(ConfirmLost(p, rec[p].absent \cup rec[p].gave))
       /\ WF_vars(rec[p].todo = {} /\ EndReconcile(p))

\* Liveness is about one process whose only passes are automatic, and about uploads that
\* never end terminally, so that no dead letter is left to replay.
FairSpec == Init /\ [][Running]_vars /\ Fairness

-----------------------------------------------------------------------------
\* The type invariant of the outbox.
TypeOK ==
  /\ alloc \in [Lanes -> 0 .. MaxSeq]
  /\ inflight \subseteq Events /\ appended \subseteq Events
  /\ dead \subseteq Events /\ unseen \subseteq Events
  /\ wal \in Seq([ev : Events, file : 1 .. MaxFiles])
  /\ cur \in 1 .. MaxFiles /\ open \in BOOLEAN
  /\ sent \in 0 .. MaxSeq /\ confirmed \in 0 .. MaxSeq /\ lastView \in 0 .. MaxSeq
  /\ stallPasses \in 0 .. sentStallReconcilePasses
  /\ tracked \in [Numbers -> 0 .. terminalResendAttempts]
  /\ owed \in [Lanes -> {0, LegacyHi}] /\ srvFloor \in [Lanes -> {0, LegacyHi}]
  /\ pump \in [pc : {"idle", "scan"}, rest : Seq(Events), batch : Seq(Events)]
  /\ rec \in [Passes -> [pc : {"idle", "ask", "sort", "resend", "confirm"}, todo : SUBSET Lanes,
                         lane : Lanes, missing : SUBSET Numbers, resend : SUBSET Numbers,
                         absent : SUBSET Numbers, gave : SUBSET Numbers]]
  /\ stored \in [Lanes -> SUBSET Numbers] /\ lost \in [Lanes -> SUBSET Numbers]
  /\ srvHi \in [Lanes -> 0 .. MaxSeq]
  /\ restarts \in 0 .. MaxRestarts
  /\ resent \in [Events -> 0 .. terminalResendAttempts]

IsStored(e) == e.seq \in stored[e.lane]
IsLedgered(e) == e.seq \in lost[e.lane]

\* reporter.go, pruneConfirmedWAL, "conservative so nothing un-acked is ever
\* lost": an event that reached the log stays there until the collector
\* stores it or has it in its ledger.
Conserved ==
  \A e \in appended : e \in InWal \/ IsStored(e) \/ IsLedgered(e)


\* reconcile.go, resendWALSeqs, "the caller's terminal-resend budget counts exactly
\* these": an event of the log is written off only after as many answered re-sends as
\* the budget says, original uploads and outages not counted, in whatever order passes
\* overlap, unless a pass took it for absent: it was appended after the pass had read
\* the log, or its file could not be read.
LossEarned ==
  \A e \in appended : IsLedgered(e) =>
    resent[e] >= terminalResendAttempts \/ e \in unseen

\* reconcile.go:304, "file never-issued numbers as DATA LOSS - the exact
\* pollution this whole change exists to remove": in the process that seeded
\* the lane, the span of the legacy stream is never in the ledger.
LegacyNotLost ==
  \A l \in Lanes : restarts = 0 => lost[l] \cap 1 .. LegacyHi = {}

\* Every event that reached the log is eventually stored by the collector or
\* written to its ledger: neither a retryable failure that the cursor jumped
\* over, nor a row refused inside a 2xx, nor an append behind the cursor makes
\* the outbox forget it.
Delivery == \A e \in Events : (e \in InWal) ~> (IsStored(e) \/ IsLedgered(e))
=============================================================================
