------------------------------- MODULE MCPool -------------------------------
(***************************************************************************)
(* Three independent instances; a behaviour is one of either.  In "one     *)
(* account", several requests meet in the tombstone, the cooldown and the  *)
(* breaker of an account.  In "pool", a single request for a premium model *)
(* walks a pool of accounts with every kind of material, two of them on    *)
(* one path.  In "bodies", requests share the budget of replay bodies.     *)
(***************************************************************************)
EXTENDS Integers, FiniteSets, TLC

CONSTANTS Shared,      \* the requests that share one account
          Alone        \* the requests that walk the pool

VARIABLES part, mat, cool, tierCool, tomb, entry, req, rejected, undone,
          used, body

vars == <<part, mat, cool, tierCool, tomb, entry, req, rejected, undone, used, body>>

OneAccount == INSTANCE GroupServe WITH
  A <- 1, Reqs <- Shared, Premium <- {}, Paths <- {1}, PathOf <- <<1>>,
  MaxSwitches <- 1, MaxToken <- 2, Delivered <- {"ok", "bare", "login"},
  Redelivered <- {"ok", "login"}, InputsChange <- TRUE

Pool == INSTANCE GroupServe WITH
  A <- 3, Reqs <- Alone, Premium <- Alone, Paths <- {1, 2}, PathOf <- <<1, 1, 2>>,
  MaxSwitches <- 1, MaxToken <- 1,
  Delivered <- {"ok", "bare", "login", "expired", "window", "corrupt", "absent"},
  Redelivered <- {}, InputsChange <- FALSE

Bodies == INSTANCE ReplayBody WITH
  Reqs <- Shared, BodyLimit <- 3, ProcessBudget <- 5, MaxAttempts <- 2, MaxReaders <- 2

Init ==
  /\ Bodies!Init
  /\ \/ part \in {"one account", "bodies"} /\ OneAccount!Init
     \/ part = "pool" /\ Pool!Init
  /\ part = "bodies" => \A a \in DOMAIN mat : mat[a].kind = "ok"

Next ==
  /\ UNCHANGED part
  /\ \/ part = "one account" /\ OneAccount!Next /\ UNCHANGED <<used, body>>
     \/ part = "pool" /\ Pool!Next /\ UNCHANGED <<used, body>>
     \/ part = "bodies" /\ Bodies!Next
        /\ UNCHANGED <<mat, cool, tierCool, tomb, entry, req, rejected, undone>>

Spec == Init /\ [][Next]_vars

SameRequests == Permutations(Shared)

\* The properties of GroupServe, each of the instance that is running.
TypeOK == IF part = "pool" THEN Pool!TypeOK ELSE OneAccount!TypeOK
NoRepeat == IF part = "pool" THEN Pool!NoRepeat ELSE OneAccount!NoRepeat
HalfOpenHasProber ==
  IF part = "pool" THEN Pool!HalfOpenHasProber ELSE OneAccount!HalfOpenHasProber
LoginEarned == IF part = "pool" THEN Pool!LoginEarned ELSE OneAccount!LoginEarned
NothingOverlooked ==
  IF part = "pool" THEN Pool!NothingOverlooked ELSE OneAccount!NothingOverlooked
RevokedIsMarked == IF part = "pool" THEN Pool!RevokedIsMarked ELSE OneAccount!RevokedIsMarked


\* The properties of ReplayBody.
BudgetIsMemory == Bodies!BudgetIsMemory
AttemptHasBody == Bodies!AttemptHasBody

\* A request that goes round again has one candidate less.
RoundsShrink ==
  [][\A r \in DOMAIN req :
       (req[r].pc \notin {"idle", "cooling", "answered"} /\ req'[r].pc = "cooling") =>
         req[r].failed \subseteq req'[r].failed /\ req[r].failed # req'[r].failed]_vars
=============================================================================
