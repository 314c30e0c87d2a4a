---------------------------- MODULE MCEventsDir -----------------------------
(***************************************************************************)
(* The events directory under hot reload: the three kinds of files that    *)
(* every generation of the proxy opens for itself.                         *)
(*   GenSeq      the lane's sequence state file                            *)
(*   WalFiles    the hourly files of the usage log                         *)
(*   DeadLetter  dead_letter.jsonl                                         *)
(* The three share no state and no step, so what one of them can reach is  *)
(* what it reaches while the other two rest: a behaviour picks a part and  *)
(* runs it.                                                                *)
(***************************************************************************)
EXTENDS Integers, Sequences, FiniteSets

CONSTANTS BlockSize, SeqGens, MaxSeq, LateRequests,             \* GenSeq
          WalGens, MaxHours, MaxEvents,                         \* WalFiles
          Usage, Compliance, MaxLines, DeadGens, MaxPasses, MaxCrashes  \* DeadLetter

ASSUME EventsDirBounds ==
  /\ SeqGens \in Nat \ {0} /\ MaxSeq \in Nat /\ LateRequests \in BOOLEAN
  /\ WalGens \in Nat \ {0} /\ MaxHours \in Nat \ {0} /\ MaxEvents \in Nat
  /\ Usage \cap Compliance = {}
  /\ MaxLines \in Nat /\ DeadGens \in Nat \ {0} /\ MaxPasses \in Nat /\ MaxCrashes \in Nat

VARIABLES
  part,        \* the part this behaviour is about
  sStatus, sBuilt, sFile, sAlloc, sIssued, sOverlap,
  wStatus, wHour, wDirent, wData, wHandle, wStored, wConfirmed, wPrune, wCount, wBlind,
  dFile, dTmp, dLive, dReplay, dFailed, dAdmitted, dArrived, dRefused, dPasses,
  dCrashes, dRecorded, dOverlap

seqVars == <<sStatus, sBuilt, sFile, sAlloc, sIssued, sOverlap>>
walVars == <<wStatus, wHour, wDirent, wData, wHandle, wStored, wConfirmed, wPrune,
             wCount, wBlind>>
deadVars == <<dFile, dTmp, dLive, dReplay, dFailed, dAdmitted, dArrived, dRefused,
              dPasses, dCrashes, dRecorded, dOverlap>>
vars == <<part, seqVars, walVars, deadVars>>

SeqFile == INSTANCE GenSeq WITH
  MaxGens <- SeqGens, status <- sStatus, built <- sBuilt, file <- sFile,
  alloc <- sAlloc, issued <- sIssued, overlap <- sOverlap

Wal == INSTANCE WalFiles WITH
  MaxGens <- WalGens, status <- wStatus, hour <- wHour, dirent <- wDirent,
  data <- wData, handle <- wHandle, stored <- wStored, confirmed <- wConfirmed,
  prune <- wPrune, count <- wCount, blind <- wBlind

Dead == INSTANCE DeadLetter WITH
  MaxGens <- DeadGens, file <- dFile, tmp <- dTmp, live <- dLive, replay <- dReplay,
  failed <- dFailed, admitted <- dAdmitted, arrived <- dArrived, refused <- dRefused,
  passes <- dPasses, crashes <- dCrashes, recorded <- dRecorded, overlap <- dOverlap

Init ==
  /\ part \in {"seq", "wal", "dead"}
  /\ SeqFile!Init /\ Wal!Init /\ Dead!Init

Next ==
  /\ UNCHANGED part
  /\ \/ part = "seq" /\ SeqFile!Next /\ UNCHANGED <<walVars, deadVars>>
     \/ part = "wal" /\ Wal!Next /\ UNCHANGED <<seqVars, deadVars>>
     \/ part = "dead" /\ Dead!Next /\ UNCHANGED <<seqVars, walVars>>

Spec == Init /\ [][Next]_vars

-----------------------------------------------------------------------------
\* The type invariants of the three parts.
TypeOK == SeqFile!TypeOK /\ Wal!TypeOK /\ Dead!TypeOK

\* seqalloc.go, NEVER-REUSED: reloads, restarts and crashes never make the source
\* reuse a number, unless two generations used the lane's file at one time.
NeverReusedSerial == SeqFile!NeverReusedSerial

\* reporter.go, pruneConfirmedWAL: an event the collector does not have is only
\* lost when a pass removes a file under a writer it could not see.
LossNeedsUnseenWriter == Wal!LossNeedsUnseenWriter

\* dead_letter.go, ReplayDeadLetter: a recorded batch stays in the file until the
\* collector has it, unless two generations used the file during a pass.
KeptSerial == Dead!KeptSerial
=============================================================================
