------------------------------ MODULE WalFiles ------------------------------
(***************************************************************************)
(* The files of the usage WAL (internal/events/wal.go) and the pruning     *)
(* pass over them (reporter.go, pruneConfirmedWAL), under hot reload.      *)
(*                                                                         *)
(* Every generation of the proxy has its own WALWriter and Reporter on one *)
(* directory.  A file is named after the hour; a writer keeps the file it  *)
(* has open even when its name is gone from the directory.  What an upload *)
(* does is reduced to its result for pruning: the collector stores     *)
(* entries and its reply moves the mark (Outbox has the details).          *)
(***************************************************************************)
EXTENDS Integers

CONSTANTS MaxGens,       \* bound: generations built
          MaxHours,      \* bound: hours that pass
          MaxEvents      \* bound: events appended

Gens == 1 .. MaxGens
Hours == 1 .. MaxHours
Inodes == 1 .. MaxEvents     \* a file exists only once something was appended
None == 0

VARIABLES
  status,      \* status[g]: "none", "active", "draining", "closed" or "dead"
  hour,        \* the wall clock, in hours
  dirent,      \* dirent[h]: the inode usage-<h>.jsonl names, or None
  data,        \* data[i]: the events written to inode i
  handle,      \* handle[g]: [hour, inode] of the file writer g has open
  stored,      \* the events the collector has
  confirmed,   \* confirmed[g]: Reporter g's confirmedSeq
  prune,       \* prune[g]: the pruning pass of g (NoPass: none)
  count,       \* events appended so far; the next one has number count + 1
  blind        \* history: inodes removed under a writer the pass did not see

vars == <<status, hour, dirent, data, handle, stored, confirmed, prune, count, blind>>

Closed == [hour |-> None, inode |-> None]

\* A pass: the files still to look at, the name of the file its own writer has
\* open, the confirmed mark, and the file found prunable with what it held.
NoPass == [pc |-> "idle", files |-> {}, current |-> None, mark |-> 0,
           victim |-> None, seen |-> {}]

Init ==
  /\ status = [g \in Gens |-> IF g = 1 THEN "active" ELSE "none"]
  /\ hour = 1
  /\ dirent = [h \in Hours |-> None]
  /\ data = [i \in Inodes |-> {}]
  /\ handle = [g \in Gens |-> Closed]
  /\ stored = {}
  /\ confirmed = [g \in Gens |-> 0]
  /\ prune = [g \in Gens |-> NoPass]
  /\ count = 0 /\ blind = {}

Tick ==
  /\ hour < MaxHours
  /\ hour' = hour + 1
  /\ UNCHANGED <<status, dirent, data, handle, stored, confirmed, prune, count, blind>>

\* The reporter of a closed generation has stopped; a request that outlived the
\* drain can still append through its writer, which then opens its file again.
Uploads(g) == status[g] \in {"active", "draining"}
Appends(g) == status[g] \in {"active", "draining", "closed"}

FreeInode == CHOOSE i \in Inodes : data[i] = {}

\* ensureFile: the writer's open file if it is of this hour, else the file the
\* directory has for the hour, else a new one.
EnsuredInode(g) ==
  IF handle[g].hour = hour THEN handle[g].inode
  ELSE IF dirent[hour] # None THEN dirent[hour] ELSE FreeInode

AppendWAL(g) ==
  /\ Appends(g) /\ count < MaxEvents
  /\ LET i == EnsuredInode(g)
     IN /\ handle' = [handle EXCEPT ![g] = [hour |-> hour, inode |-> i]]
        /\ dirent' = IF handle[g].hour = hour THEN dirent
                     ELSE [dirent EXCEPT ![hour] = i]
        /\ data' = [data EXCEPT ![i] = @ \cup {count + 1}]
  /\ count' = count + 1
  /\ UNCHANGED <<status, hour, stored, confirmed, prune, blind>>

Linked == UNION {data[dirent[h]] : h \in {k \in Hours : dirent[k] # None}}
Contiguous(S) == CHOOSE n \in 0 .. MaxEvents : 1 .. n \subseteq S /\ n + 1 \notin S

\* Mutant: the mark is what was sent, whatever the reply says.
UploadMarksSent(g) ==
  /\ Uploads(g) /\ prune[g].pc = "idle"
  /\ \E n \in Linked :
       /\ stored' = stored \cup {e \in Linked : e <= n}
       /\ confirmed' = [confirmed EXCEPT ![g] = n]
  /\ UNCHANGED <<status, hour, dirent, data, handle, prune, count, blind>>

\* An upload pass of g delivers the lowest entries it reads, up to n, and the
\* reply moves its mark.
Upload(g) ==
  /\ Uploads(g) /\ prune[g].pc = "idle"
  /\ \E n \in Linked :
       LET S == stored \cup {e \in Linked : e <= n}
       IN /\ stored' = S
          /\ confirmed' = [confirmed EXCEPT ![g] = Contiguous(S)]
  /\ UNCHANGED <<status, hour, dirent, data, handle, prune, count, blind>>

\* pruneConfirmedWAL: the directory is listed, then the name of the file this
\* writer has open and the mark are read, once for the whole pass.
PruneStart(g) ==
  /\ Uploads(g) /\ prune[g].pc = "idle"
  /\ prune' = [prune EXCEPT ![g] =
       [NoPass EXCEPT !.pc = "scan", !.files = {h \in Hours : dirent[h] # None},
                      !.current = handle[g].hour, !.mark = confirmed[g]]]
  /\ UNCHANGED <<status, hour, dirent, data, handle, stored, confirmed, count, blind>>

\* Mutant: the file being appended to is a candidate too.
PrunableAny(g, h) ==
  dirent[h] # None /\ data[dirent[h]] \subseteq 1 .. prune[g].mark

\* Not the file being appended to, still there, and confirmed to its last entry.
Prunable(g, h) ==
  h # prune[g].current /\ dirent[h] # None /\ data[dirent[h]] \subseteq 1 .. prune[g].mark

\* The next file of the list is read; it is kept or becomes the victim.
PruneRead(g) ==
  /\ prune[g].pc = "scan" /\ prune[g].files # {}
  /\ LET h == CHOOSE k \in prune[g].files : \A j \in prune[g].files : k <= j
     IN prune' = [prune EXCEPT ![g] =
          IF Prunable(g, h)
          THEN [@ EXCEPT !.pc = "remove", !.files = @ \ {h}, !.victim = h,
                         !.seen = data[dirent[h]]]
          ELSE [@ EXCEPT !.files = @ \ {h}]]
  /\ UNCHANGED <<status, hour, dirent, data, handle, stored, confirmed, count, blind>>

\* A writer the pass did not take into account uses inode i, named h: it wrote
\* since the file was read, or has it open.
Unseen(g, h, i) ==
  \/ data[i] # prune[g].seen
  \/ \E k \in Gens : handle[k].inode = i /\ (k # g \/ prune[g].current # h)

\* os.Remove by name, whatever the name refers to by now.
PruneRemove(g) ==
  /\ prune[g].pc = "remove"
  /\ LET h == prune[g].victim
         i == dirent[h]
     IN /\ blind' = IF i # None /\ Unseen(g, h, i) THEN blind \cup {i} ELSE blind
        /\ dirent' = [dirent EXCEPT ![h] = None]
  /\ prune' = [prune EXCEPT ![g].pc = "scan", ![g].victim = None, ![g].seen = {}]
  /\ UNCHANGED <<status, hour, data, handle, stored, confirmed, count>>

PruneEnd(g) ==
  /\ prune[g].pc = "scan" /\ prune[g].files = {}
  /\ prune' = [prune EXCEPT ![g] = NoPass]
  /\ UNCHANGED <<status, hour, dirent, data, handle, stored, confirmed, count, blind>>

\* Reload: a new generation, with a writer that has nothing open and a reporter
\* that knows no mark; the old one drains.
Reload ==
  /\ \E g \in Gens :
       /\ status[g] = "active" /\ g + 1 \in Gens
       /\ status' = [status EXCEPT ![g] = "draining", ![g + 1] = "active"]
  /\ UNCHANGED <<hour, dirent, data, handle, stored, confirmed, prune, count, blind>>

\* generation.close, drained or timed out: Reporter.Close ends the upload loop
\* and closes the file.
CloseOld(g) ==
  /\ status[g] = "draining" /\ prune[g].pc = "idle"
  /\ status' = [status EXCEPT ![g] = "closed"]
  /\ handle' = [handle EXCEPT ![g] = Closed]
  /\ UNCHANGED <<hour, dirent, data, stored, confirmed, prune, count, blind>>

\* The process dies, at any point, and another is started.
Restart ==
  /\ \E g \in Gens :
       /\ status[g] = "active" /\ g + 1 \in Gens
       /\ status' = [k \in Gens |-> IF k = g + 1 THEN "active"
                                    ELSE IF k <= g THEN "dead" ELSE "none"]
  /\ handle' = [g \in Gens |-> Closed]
  /\ prune' = [g \in Gens |-> NoPass]
  /\ UNCHANGED <<hour, dirent, data, stored, confirmed, count, blind>>

Next ==
  \/ Tick \/ Reload \/ Restart
  \/ \E g \in Gens :
       \/ AppendWAL(g) \/ Upload(g) \/ CloseOld(g)
       \/ PruneStart(g) \/ PruneRead(g) \/ PruneRemove(g) \/ PruneEnd(g)

Spec == Init /\ [][Next]_vars

-----------------------------------------------------------------------------
\* Events no reader of the directory can find and the collector does not have.
Vanished == (1 .. count) \ (Linked \cup stored)

\* The type invariant: no file of the directory is empty, no two names refer to
\* one inode, and a mark never passes a number the collector lacks.
TypeOK ==
  /\ status \in [Gens -> {"none", "active", "draining", "closed", "dead"}]
  /\ hour \in Hours /\ count \in 0 .. MaxEvents
  /\ dirent \in [Hours -> Inodes \cup {None}]
  /\ data \in [Inodes -> SUBSET (1 .. count)]
  /\ handle \in [Gens -> [hour : 0 .. hour, inode : Inodes \cup {None}]]
  /\ stored \subseteq 1 .. count
  /\ confirmed \in [Gens -> 0 .. count]
  /\ \A g \in Gens : 1 .. confirmed[g] \subseteq stored
  /\ prune \in [Gens -> [pc : {"idle", "scan", "remove"}, files : SUBSET (1 .. hour),
                         current : 0 .. hour, mark : 0 .. count,
                         victim : 0 .. hour, seen : SUBSET (1 .. count)]]
  /\ blind \subseteq Inodes
  /\ \A h \in Hours : dirent[h] # None => data[dirent[h]] # {}
  /\ \A h, k \in Hours : dirent[h] = dirent[k] /\ h # k => dirent[h] = None

\* pruneConfirmedWAL drops an event the collector does not have only by removing
\* a file under a writer the pass could not see: one of another generation, or
\* its own writer when that opened the file after the pass had looked.
LossNeedsUnseenWriter == \A e \in Vanished : \E i \in blind : e \in data[i]
=============================================================================
