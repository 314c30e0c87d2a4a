----------------------------- MODULE DeadLetter -----------------------------
(***************************************************************************)
(* dead_letter.jsonl (internal/events/dead_letter.go and                   *)
(* compliance_upload.go): batches whose upload failed are appended to it,  *)
(* and a replay pass reads the file, uploads entry by entry and replaces   *)
(* the file by the entries that still fail.                                *)
(*                                                                         *)
(* Each generation's Reporter has a deadLetterWriter, hence a mutex, of    *)
(* its own; all of them use one file.  A compliance batch has no other     *)
(* copy, and is refused when the file is full.                             *)
(***************************************************************************)
EXTENDS Integers, Sequences, SequencesExt

CONSTANTS Usage,         \* usage batches
          Compliance,    \* compliance batches
          MaxLines,      \* complianceDeadLetterMaxBytes, in lines
          MaxGens,       \* bound: generations built
          MaxPasses,     \* bound: replay passes started
          MaxCrashes     \* bound: process deaths

Batches == Usage \cup Compliance
Gens == 1 .. MaxGens

VARIABLES
  file,        \* the lines of dead_letter.jsonl
  tmp,         \* dead_letter.jsonl.tmp: {} or {its lines}
  live,        \* the generations whose Reporter runs
  replay,      \* replay[g]: [pc, todo, keep], a pass of g; it holds g's mutex
  failed,      \* failed[g]: batches whose upload failed, not looked at yet
  admitted,    \* admitted[g]: batches g's writer is about to append
  arrived,     \* batches the collector has
  refused,     \* batches dropped: the file was full, or could not be written
  passes, crashes,
  recorded,    \* history: batches appended to the file
  overlap      \* history: a pass of one generation met another generation

vars == <<file, tmp, live, replay, failed, admitted, arrived, refused, passes, crashes,
          recorded, overlap>>

NoPass == [pc |-> "idle", todo |-> << >>, keep |-> << >>]

Init ==
  /\ file = << >> /\ tmp = {}
  /\ live = {1}
  /\ replay = [g \in Gens |-> NoPass]
  /\ failed = [g \in Gens |-> {}] /\ admitted = [g \in Gens |-> {}]
  /\ arrived = {} /\ refused = {}
  /\ passes = 0 /\ crashes = 0
  /\ recorded = {} /\ overlap = FALSE

Replaying(g) == replay[g].pc # "idle"

\* Another generation is in the middle of a replay pass.
Meets(g) == \E h \in Gens \ {g} : Replaying(h)

\* An upload of g failed: the batch is to be recorded by g's writer.
Fail(g, b) ==
  /\ g \in live
  /\ b \notin recorded \cup arrived \cup refused
  /\ \A h \in Gens : b \notin failed[h] \cup admitted[h]
  /\ failed' = [failed EXCEPT ![g] = @ \cup {b}]
  /\ UNCHANGED <<file, tmp, live, replay, admitted, arrived, refused, passes, crashes, recorded, overlap>>

\* writeDeadLetter for usage; deadLetterCompliance looks at the size of the
\* file first, outside the mutex.
Admit(g, b) ==
  /\ b \in failed[g] /\ (b \in Compliance => Len(file) < MaxLines)
  /\ failed' = [failed EXCEPT ![g] = @ \ {b}]
  /\ admitted' = [admitted EXCEPT ![g] = @ \cup {b}]
  /\ UNCHANGED <<file, tmp, live, replay, arrived, refused, passes, crashes, recorded, overlap>>

\* The file is full: the compliance batch is dropped, loudly.
Refuse(g, b) ==
  /\ b \in failed[g] \cap Compliance /\ Len(file) >= MaxLines
  /\ failed' = [failed EXCEPT ![g] = @ \ {b}]
  /\ refused' = refused \cup {b}
  /\ UNCHANGED <<file, tmp, live, replay, admitted, arrived, passes, crashes, recorded, overlap>>

\* Mutant: the mutex is not taken.
WriteUnlocked(g, b) ==
  /\ b \in admitted[g]
  /\ file' = Append(file, b)
  /\ admitted' = [admitted EXCEPT ![g] = @ \ {b}]
  /\ recorded' = recorded \cup {b}
  /\ overlap' = (overlap \/ Meets(g))
  /\ UNCHANGED <<tmp, live, replay, failed, arrived, refused, passes, crashes>>

\* deadLetterWriter.write: an append under the mutex of g's writer.
Write(g, b) ==
  /\ b \in admitted[g] /\ ~Replaying(g)
  /\ file' = Append(file, b)
  /\ admitted' = [admitted EXCEPT ![g] = @ \ {b}]
  /\ recorded' = recorded \cup {b}
  /\ overlap' = (overlap \/ Meets(g))
  /\ UNCHANGED <<tmp, live, replay, failed, arrived, refused, passes, crashes>>

\* The file cannot be opened or written: the batch is dropped with a log line.
WriteFails(g, b) ==
  /\ b \in admitted[g] /\ ~Replaying(g)
  /\ admitted' = [admitted EXCEPT ![g] = @ \ {b}]
  /\ refused' = refused \cup {b}
  /\ UNCHANGED <<file, tmp, live, replay, failed, arrived, passes, crashes, recorded, overlap>>

\* ReplayDeadLetter, by hand or after an upload succeeded again: the mutex is
\* taken and the whole file read.
ReplayStart(g) ==
  /\ g \in live /\ ~Replaying(g) /\ file # << >> /\ passes < MaxPasses
  /\ replay' = [replay EXCEPT ![g] = [pc |-> "send", todo |-> file, keep |-> << >>]]
  /\ passes' = passes + 1
  /\ overlap' = (overlap \/ Meets(g))
  /\ UNCHANGED <<file, tmp, live, failed, admitted, arrived, refused, crashes, recorded>>

\* The next entry is delivered: it is left out of the new file.
ReplayOK(g) ==
  /\ replay[g].pc = "send" /\ replay[g].todo # << >>
  /\ arrived' = arrived \cup {Head(replay[g].todo)}
  /\ replay' = [replay EXCEPT ![g].todo = Tail(@)]
  /\ UNCHANGED <<file, tmp, live, failed, admitted, refused, passes, crashes, recorded, overlap>>

\* It fails again, has no destination, is malformed, or the context is done;
\* the collector may have it all the same.
ReplayKeep(g) ==
  /\ replay[g].pc = "send" /\ replay[g].todo # << >>
  /\ \E b \in {{}, {Head(replay[g].todo)}} : arrived' = arrived \cup b
  /\ replay' = [replay EXCEPT ![g].todo = Tail(@),
                              ![g].keep = Append(@, Head(replay[g].todo))]
  /\ UNCHANGED <<file, tmp, live, failed, admitted, refused, passes, crashes, recorded, overlap>>

\* The rest is written next to the file ...
ReplayWrite(g) ==
  /\ replay[g].pc = "send" /\ replay[g].todo = << >>
  /\ tmp' = {replay[g].keep}
  /\ replay' = [replay EXCEPT ![g] = [NoPass EXCEPT !.pc = "rename"]]
  /\ UNCHANGED <<file, live, failed, admitted, arrived, refused, passes, crashes, recorded, overlap>>

\* ... and renamed over it; the mutex is released.
ReplayRename(g) ==
  /\ replay[g].pc = "rename"
  /\ tmp # {} /\ tmp' = {}
  /\ file' \in tmp
  /\ replay' = [replay EXCEPT ![g] = NoPass]
  /\ UNCHANGED <<live, failed, admitted, arrived, refused, passes, crashes, recorded, overlap>>

\* The write or the rename fails: the file stays.
ReplayAbort(g) ==
  /\ replay[g].pc = "rename" \/ (replay[g].pc = "send" /\ replay[g].todo = << >>)
  /\ tmp' = {}
  /\ replay' = [replay EXCEPT ![g] = NoPass]
  /\ UNCHANGED <<file, live, failed, admitted, arrived, refused, passes, crashes, recorded, overlap>>

\* A new generation starts; the old one goes on until it is closed.
Reload ==
  /\ \E g \in Gens : g \in live /\ g + 1 \in Gens /\ g + 1 \notin live
                     /\ (\A h \in live : h <= g) /\ live' = live \cup {g + 1}
  /\ UNCHANGED <<file, tmp, replay, failed, admitted, arrived, refused, passes, crashes, recorded, overlap>>

\* The process dies at any point and starts again.
Crash ==
  /\ crashes < MaxCrashes
  /\ crashes' = crashes + 1
  /\ live' = {CHOOSE g \in live : \A h \in live : h <= g}
  /\ replay' = [g \in Gens |-> NoPass]
  /\ failed' = [g \in Gens |-> {}] /\ admitted' = [g \in Gens |-> {}]
  /\ UNCHANGED <<file, tmp, arrived, refused, passes, recorded, overlap>>

Next ==
  \/ \E g \in Gens :
       \/ \E b \in Batches : Fail(g, b) \/ Admit(g, b) \/ Refuse(g, b)
                             \/ Write(g, b) \/ WriteFails(g, b)
       \/ ReplayStart(g) \/ ReplayOK(g) \/ ReplayKeep(g)
       \/ ReplayWrite(g) \/ ReplayRename(g) \/ ReplayAbort(g)
  \/ Reload \/ Crash

Spec == Init /\ [][Next]_vars

-----------------------------------------------------------------------------
\* The type invariant: an entry is in the file at most once.
TypeOK ==
  /\ file \in Seq(Batches) /\ (\A t \in tmp : t \in Seq(Batches))
  /\ live \subseteq Gens
  /\ replay \in [Gens -> [pc : {"idle", "send", "rename"}, todo : Seq(Batches), keep : Seq(Batches)]]
  /\ failed \in [Gens -> SUBSET Batches] /\ admitted \in [Gens -> SUBSET Batches]
  /\ arrived \subseteq Batches /\ refused \subseteq Batches /\ recorded \subseteq Batches
  /\ passes \in 0 .. MaxPasses /\ crashes \in 0 .. MaxCrashes /\ overlap \in BOOLEAN
  /\ IsInjective(file)

Kept == \A b \in recorded : b \in ToSet(file) \cup arrived

\* A recorded batch stays in dead_letter.jsonl until the collector has it, over
\* failing uploads, failed rewrites and crashes inside a replay pass, as long
\* as no other generation used the file during a pass.
KeptSerial == ~overlap => Kept
=============================================================================
