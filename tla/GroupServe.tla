----------------------------- MODULE GroupServe -----------------------------
(***************************************************************************)
(* Requests of one seat on an OAuth account pool                           *)
(* (internal/proxy/group_serve.go, handleOauthGroupRoute and               *)
(* serveGroupAttempt; ModifyResponse and ErrorHandler of                   *)
(* forward_and_resolve.go for group routes).  A request resolves an        *)
(* account, asks the path's breaker, forwards, and on a failure it may     *)
(* still hide tries the next candidate.  The cooldowns, the tombstones of  *)
(* revoked tokens and the breakers are shared by all requests, and every   *)
(* call on one of these stores is a step.                                  *)
(*                                                                         *)
(* A request works on the material its route had when it was resolved.     *)
(* How long an account cools or a path backs off is left open.             *)
(***************************************************************************)
EXTENDS RoutedPick, PathHealth

CONSTANTS Reqs,            \* requests that may be in progress at once
          Premium,         \* the requests for a premium model
          Paths, PathOf,   \* PathOf[a]: the outbound path of account a
          MaxSwitches,     \* groupFailoverMaxSwitches
          MaxToken,        \* bound: token versions of an account
          Delivered,       \* kinds of material the pool may start with
          Redelivered,     \* kinds of material the rail may deliver later
          InputsChange     \* whether the node's network may change

Kinds == {"ok", "bare", "login", "expired", "window", "corrupt", "absent"}

VARIABLES
  mat,         \* mat[a]: [kind, token], the material delivered to the registry
  cool,        \* accounts cooling down
  tierCool,    \* accounts cooling down for the premium models only
  tomb,        \* authFailedTokens: tomb[a], the rejected token of a; 0: none
  entry,       \* entry[p]: the breaker of path p
  req,         \* req[r]: a call of handleOauthGroupRoute
  rejected,    \* history: tokens the provider has revoked, as <<account, token>>
  undone       \* history: accounts whose tombstone a request with other
               \* material has removed or replaced

vars == <<mat, cool, tierCool, tomb, entry, req, rejected, undone>>
stores == <<cool, tierCool, tomb, entry>>

\* answer.of is the material the request had of the named account, answer.left the
\* usable accounts it had not skipped when it ended.
NoMaterial == [kind |-> "absent", token |-> 0]
NoAnswer == [kind |-> "none", account |-> NoAccount, of |-> NoMaterial, left |-> {}]

\* captured: lastCaptured is set; revoked: lastAuthFailedAccount; blocked:
\* lastBlockedPath is set.  tried and dead are history: accounts forwarded to and
\* paths that failed during the request.
Fresh == [pc |-> "idle", mat |-> [a \in Accounts |-> NoMaterial],
          override |-> NoAccount, timed |-> {}, failed |-> {}, failedPaths |-> {},
          attempts |-> 0, account |-> NoAccount, probe |-> FALSE, outcome |-> "none",
          captured |-> FALSE, revoked |-> NoAccount, blocked |-> FALSE,
          answer |-> NoAnswer, tried |-> {}, dead |-> {}]

Init ==
  /\ mat \in [Accounts -> {[kind |-> k, token |-> 1] : k \in Delivered}]
  /\ cool = {} /\ tierCool = {}
  /\ tomb = [a \in Accounts |-> 0]
  /\ entry = [p \in Paths |-> Healthy]
  /\ req = [r \in Reqs |-> Fresh]
  /\ rejected = {} /\ undone = {}

KindsOf(m) == [a \in Accounts |-> m[a].kind]
Path(r) == PathOf[req[r].account]
Set(r, new) == req' = [req EXCEPT ![r] = new]
Usable(r) == {a \in Accounts : req[r].mat[a].kind = "ok"}
Answer(r, kind, account, skip) ==
  Set(r, [Fresh EXCEPT
            !.pc = "answered", !.tried = req[r].tried,
            !.answer = [kind |-> kind, account |-> account, left |-> Usable(r) \ skip,
                        of |-> IF account \in Accounts THEN req[r].mat[account] ELSE NoMaterial]])

-----------------------------------------------------------------------------
(* The surroundings                                                        *)

\* syncGroupRuntimeWithReload: a changed delivery replaces the material of the
\* registry, with a new token of the account or with another state of the same one.
Deliver(a, k, token) ==
  /\ token \in mat[a].token .. MaxToken /\ token <= mat[a].token + 1
  /\ mat' = [mat EXCEPT ![a] = [kind |-> k, token |-> token]]
  /\ UNCHANGED <<stores, req, rejected, undone>>

\* The deadlines of an account and of its premium tier are separate.
CoolEnds(a) ==
  /\ a \in cool
  /\ cool' = cool \ {a}
  /\ UNCHANGED <<mat, tierCool, tomb, entry, req, rejected, undone>>

TierCoolEnds(a) ==
  /\ a \in tierCool
  /\ tierCool' = tierCool \ {a}
  /\ UNCHANGED <<mat, cool, tomb, entry, req, rejected, undone>>

BackoffEnds(p) ==
  /\ entry[p].state = "open" /\ ~entry[p].due
  /\ entry' = [entry EXCEPT ![p].due = TRUE]
  /\ UNCHANGED <<mat, cool, tierCool, tomb, req, rejected, undone>>

NotifyInputsChanged ==
  /\ InputsChange
  /\ entry' = [p \in Paths |-> AfterInputs(entry[p])]
  /\ UNCHANGED <<mat, cool, tierCool, tomb, req, rejected, undone>>

-----------------------------------------------------------------------------
(* handleOauthGroupRoute                                                   *)

\* The gates before the loop (no vault key, removed or blocked seat, unreadable
\* body) answer without touching anything shared.  The override is looked up once.
Begin(r, override) ==
  /\ req[r].pc = "idle"
  /\ Set(r, [Fresh EXCEPT !.pc = "cooling", !.mat = mat, !.override = override])
  /\ UNCHANGED <<mat, stores, rejected, undone>>

\* skipSetFor(reqModel)
ReadCooling(r) ==
  /\ req[r].pc = "cooling"
  /\ Set(r, [req[r] EXCEPT !.pc = "tombs",
                           !.timed = IF r \in Premium THEN cool \cup tierCool ELSE cool])
  /\ UNCHANGED <<mat, stores, rejected, undone>>

\* authFailureSkipSet: a tombstone is compared with the token this request has of the
\* account.  The same token stays out; another one clears the tombstone.
Compared(r) == {a \in Accounts : tomb[a] # 0 /\ req[r].mat[a].kind \in {"ok", "bare", "expired", "window"}}
AuthSkip(r) == {a \in Compared(r) : req[r].mat[a].token = tomb[a]}

\* Mutant: a tombstone only lasts as long as a cooldown.
ClearTombsLapsing(r) ==
  /\ tomb' = [a \in Accounts |-> IF a \in cool THEN tomb[a] ELSE 0]
  /\ UNCHANGED undone

ClearTombs(r) ==
  LET other == Compared(r) \ AuthSkip(r)
  IN  /\ tomb' = [a \in Accounts |-> IF a \in other THEN 0 ELSE tomb[a]]
      /\ undone' = undone \cup {a \in other : req[r].mat[a] # mat[a]}

Skip(r) == req[r].timed \cup AuthSkip(r) \cup req[r].failed
Found(r, skip) == Resolve(KindsOf(req[r].mat), req[r].override, skip)

\* Mutant: an account on a failed path is passed over without being remembered.
CandidateLoops(r) ==
  /\ req[r].pc = "tombs" /\ Found(r, Skip(r)).kind = "ok"
  /\ LET a == Found(r, Skip(r)).account
     IN  IF PathOf[a] \in req[r].failedPaths
         THEN Set(r, [req[r] EXCEPT !.pc = "cooling", !.timed = {}])
         ELSE Set(r, [req[r] EXCEPT !.pc = "permit", !.timed = {}, !.account = a])
  /\ ClearTombs(r)
  /\ UNCHANGED <<mat, cool, tierCool, entry, rejected>>

\* A candidate: a request no account can serve is refused at once, an account without
\* its ExternalID answers with a login, a path that failed during this request is not
\* tried again, and otherwise the breaker is asked.
Candidate(r) ==
  /\ req[r].pc = "tombs" /\ Found(r, Skip(r)).kind = "ok"
  /\ LET a == Found(r, Skip(r)).account
     IN  \/ Answer(r, "refused", a, Skip(r))
         \/ req[r].mat[a].kind = "bare" /\ Answer(r, "login", a, Skip(r))
         \/ /\ req[r].mat[a].kind # "bare"
            /\ IF PathOf[a] \in req[r].failedPaths
               THEN Set(r, [req[r] EXCEPT !.pc = "cooling", !.timed = {}, !.failed = @ \cup {a}])
               ELSE Set(r, [req[r] EXCEPT !.pc = "permit", !.timed = {}, !.account = a])
  /\ ClearTombs(r)
  /\ UNCHANGED <<mat, cool, tierCool, entry, rejected>>

\* The answer when there is no candidate, in the order of the code's branches: a login
\* that nothing preceded or that the durable skip set alone leads to, the exhausted
\* tier, a login for an account that only its tombstone excludes, the last failure of
\* this request, the blocked path.
FinalAnswer(r) ==
  LET q == req[r]
      found == Found(r, Skip(r))
      unnamed == Found(r, q.timed)
      tierOut == r \in Premium /\ tierCool # {}
      only(kind) == [kind |-> kind, account |-> NoAccount]
  IN  CASE /\ found.kind = "login"
           /\ ~(q.captured \/ q.blocked) \/ Found(r, q.timed \cup AuthSkip(r)) = found -> found
        [] found.kind = "none" /\ tierOut -> only("tier")
        [] found.kind = "none" /\ ~tierOut /\ ~q.captured
             /\ unnamed.kind = "ok" /\ unnamed.account \in AuthSkip(r) -> Login(unnamed.account)
        [] OTHER -> CASE q.revoked # NoAccount -> Login(q.revoked)
                      [] q.revoked = NoAccount /\ q.captured -> only("captured")
                      [] ~q.captured /\ q.blocked -> only("path")
                      [] OTHER -> only("degraded")

GiveUp(r) ==
  /\ req[r].pc = "tombs" /\ Found(r, Skip(r)).kind # "ok"
  /\ Answer(r, FinalAnswer(r).kind, FinalAnswer(r).account, Skip(r))
  /\ ClearTombs(r)
  /\ UNCHANGED <<mat, cool, tierCool, entry, rejected>>

Permit(r) ==
  /\ req[r].pc = "permit"
  /\ IF Permitted(entry[Path(r)])
     THEN /\ entry' = [entry EXCEPT ![Path(r)] = AfterPermit(@)]
          /\ Set(r, [req[r] EXCEPT !.pc = "attempt", !.probe = IsProbe(entry[Path(r)]),
                                   !.tried = @ \cup {req[r].account}])
     ELSE /\ Set(r, [req[r] EXCEPT !.pc = "cooling", !.blocked = TRUE,
                                   !.failed = @ \cup {req[r].account},
                                   !.failedPaths = @ \cup {Path(r)}])
          /\ UNCHANGED entry
  /\ UNCHANGED <<mat, cool, tierCool, tomb, rejected, undone>>

-----------------------------------------------------------------------------
(* The forward                                                             *)

Token(r) == <<req[r].account, req[r].mat[req[r].account].token>>
Ended(r, outcome) == Set(r, [req[r] EXCEPT !.pc = "release", !.outcome = outcome])

\* ModifyResponse: the path is reachable; the status decides what cools.  "ok" may
\* cross the window cap, a server error may be the one that completes the streak.  A
\* revoked token is not served again; it may still meet a limit or a server error.
HttpResponse(r, outcome) ==
  /\ req[r].pc = "attempt"
  /\ Token(r) \in rejected => outcome # "ok"
  /\ outcome = "tier" => r \in Premium
  /\ entry' = [entry EXCEPT ![Path(r)] = Healthy]
  /\ CASE outcome = "limited" -> cool' = cool \cup {req[r].account} /\ UNCHANGED tierCool
       [] outcome = "tier" -> tierCool' = tierCool \cup {req[r].account} /\ UNCHANGED cool
       [] outcome \in {"ok", "server_error"} ->
            cool' \in {cool, cool \cup {req[r].account}} /\ UNCHANGED tierCool
       [] OTHER -> UNCHANGED <<cool, tierCool>>
  /\ rejected' = IF outcome = "revoked" THEN rejected \cup {Token(r)} ELSE rejected
  /\ Ended(r, outcome)
  /\ UNCHANGED <<mat, tomb, undone>>

\* ErrorHandler: no response.  A node without an egress also counts against the
\* path, but its answer is not one that may be hidden.
TransportFailure(r, outcome) ==
  /\ req[r].pc = "attempt"
  /\ entry' = [entry EXCEPT ![Path(r)] = AfterFailure(@)]
  /\ Set(r, [req[r] EXCEPT !.pc = "release", !.outcome = outcome, !.dead = @ \cup {Path(r)}])
  /\ UNCHANGED <<mat, cool, tierCool, tomb, rejected, undone>>

\* ErrorHandler after the client went away.
Canceled(r) ==
  /\ req[r].pc = "attempt"
  /\ entry' = [entry EXCEPT ![Path(r)] = AfterCancel(@)]
  /\ Ended(r, "canceled")
  /\ UNCHANGED <<mat, cool, tierCool, tomb, rejected, undone>>

\* A guard before the forward answered, with an error that may be hidden or not, or
\* the account's egress could not be built; the network was not touched.
LocalGuard(r, outcome) ==
  /\ req[r].pc = "attempt"
  /\ Ended(r, outcome)
  /\ UNCHANGED <<mat, stores, rejected, undone>>

\* Mutant: the slot is only given back on the paths that touch the network.
ReleaseNothing(r) ==
  /\ req[r].pc = "release"
  /\ Set(r, [req[r] EXCEPT !.pc = "after", !.probe = FALSE])
  /\ UNCHANGED <<mat, stores, rejected, undone>>

\* NoteProbeCanceled after every attempt.
Release(r) ==
  /\ req[r].pc = "release"
  /\ entry' = [entry EXCEPT ![Path(r)] = AfterCancel(@)]
  /\ Set(r, [req[r] EXCEPT !.pc = "after", !.probe = FALSE])
  /\ UNCHANGED <<mat, cool, tierCool, tomb, rejected, undone>>

-----------------------------------------------------------------------------
(* After the attempt                                                       *)

\* failoverEligibleResponse, on what the writer has captured.
Captured(outcome) ==
  outcome \in {"limited", "tier", "server_error", "revoked", "unauthorized",
               "transport", "canceled", "engine", "guard_error"}

\* markProviderPathFailure
PathFailed(r) == IF req[r].outcome \in {"transport", "engine"} THEN {Path(r)} ELSE {}

\* The response is streaming to the client.
Streamed(r) ==
  /\ req[r].pc = "after" /\ ~Captured(req[r].outcome)
  /\ Answer(r, "streamed", req[r].account, {})
  /\ UNCHANGED <<mat, stores, rejected, undone>>

\* Mutant: any 401 is taken for a revocation.
NoteAnyUnauthorized(r) ==
  /\ tomb' = IF req[r].outcome \in {"revoked", "unauthorized"}
             THEN [tomb EXCEPT ![req[r].account] = Token(r)[2]] ELSE tomb
  /\ UNCHANGED <<mat, cool, tierCool, entry, rejected, undone>>

\* markAuthFailedToken for a revoked token, a cooldown for another 401.
NoteUnauthorized(r) ==
  LET a == req[r].account
  IN  /\ tomb' = IF req[r].outcome = "revoked" THEN [tomb EXCEPT ![a] = Token(r)[2]] ELSE tomb
      /\ cool' = IF req[r].outcome = "unauthorized" THEN cool \cup {a} ELSE cool
      /\ undone' = IF /\ req[r].outcome = "revoked" /\ tomb[a] \notin {0, Token(r)[2]}
                      /\ req[r].mat[a] # mat[a]
                   THEN undone \cup {a} ELSE undone
      /\ UNCHANGED <<mat, tierCool, entry, rejected>>

RevokedNow(r) == IF req[r].outcome = "revoked" THEN req[r].account ELSE NoAccount

\* The last permitted attempt: its failure is the answer.
LastAttempt(r) ==
  /\ req[r].pc = "after" /\ Captured(req[r].outcome) /\ req[r].attempts >= MaxSwitches
  /\ NoteUnauthorized(r)
  /\ Answer(r, IF req[r].outcome = "revoked" THEN "login" ELSE "captured", RevokedNow(r), {})

\* Mutant: only a cooldown keeps an account out of the next round.
RetryForgetting(r) ==
  /\ req[r].pc = "after" /\ Captured(req[r].outcome) /\ req[r].attempts < MaxSwitches
  /\ NoteUnauthorized(r)
  /\ Set(r, [req[r] EXCEPT !.pc = "cooling", !.attempts = @ + 1, !.captured = TRUE,
                           !.outcome = "none", !.account = NoAccount, !.revoked = RevokedNow(r)])

\* Mutant: one switch too many.
RetryOnceMore(r) ==
  /\ req[r].pc = "after" /\ Captured(req[r].outcome) /\ req[r].attempts <= MaxSwitches
  /\ NoteUnauthorized(r)
  /\ Set(r, [req[r] EXCEPT !.pc = "cooling", !.attempts = @ + 1, !.captured = TRUE,
                           !.failed = @ \cup {req[r].account}])

\* Nothing has reached the client: the account, and its path if that failed, is out for
\* the rest of the request.
Retry(r) ==
  /\ req[r].pc = "after" /\ Captured(req[r].outcome) /\ req[r].attempts < MaxSwitches
  /\ NoteUnauthorized(r)
  /\ Set(r, [req[r] EXCEPT
               !.pc = "cooling", !.attempts = @ + 1, !.captured = TRUE, !.revoked = RevokedNow(r),
               !.outcome = "none", !.account = NoAccount,
               !.failed = @ \cup {req[r].account},
               !.failedPaths = @ \cup PathFailed(r)])

Return(r) ==
  /\ req[r].pc = "answered"
  /\ Set(r, Fresh)
  /\ UNCHANGED <<mat, stores, rejected, undone>>

\* What a request does by itself.
Step(r) ==
  \/ ReadCooling(r) \/ Candidate(r) \/ GiveUp(r) \/ Permit(r)
  \/ \E o \in {"ok", "client_error", "limited", "tier", "server_error", "revoked", "unauthorized"} :
       HttpResponse(r, o)
  \/ \E o \in {"transport", "node"} : TransportFailure(r, o)
  \/ \E o \in {"guard", "guard_error", "engine"} : LocalGuard(r, o)
  \/ Canceled(r) \/ Release(r)
  \/ Streamed(r) \/ LastAttempt(r) \/ Retry(r) \/ Return(r)

Next ==
  \/ \E r \in Reqs : Step(r) \/ \E o \in Accounts \cup {NoAccount} : Begin(r, o)
  \/ \E a \in Accounts : CoolEnds(a) \/ TierCoolEnds(a)
  \/ \E a \in Accounts, k \in Redelivered, t \in 1 .. MaxToken : Deliver(a, k, t)
  \/ \E p \in Paths : BackoffEnds(p)
  \/ NotifyInputsChanged

Spec == Init /\ [][Next]_vars

-----------------------------------------------------------------------------
(* Properties                                                              *)

Materials == [kind : Kinds, token : 1 .. MaxToken]
Outcomes == {"none", "ok", "client_error", "limited", "tier", "server_error", "revoked",
             "unauthorized", "transport", "node", "canceled", "guard", "guard_error", "engine"}
Answers == {"none", "login", "tier", "captured", "path", "degraded", "refused", "streamed"}

\* The variables keep their types; a request never counts more than MaxSwitches
\* switches (groupFailoverMaxSwitches).
TypeOK ==
  /\ mat \in [Accounts -> Materials]
  /\ cool \subseteq Accounts /\ tierCool \subseteq Accounts
  /\ tomb \in [Accounts -> 0 .. MaxToken]
  /\ entry \in [Paths -> Entries]
  /\ \A r \in Reqs :
       /\ req[r].pc \in {"idle", "cooling", "tombs", "permit", "attempt", "release",
                         "after", "answered"}
       /\ req[r].override \in Accounts \cup {NoAccount}
       /\ req[r].account \in Accounts \cup {NoAccount}
       /\ req[r].attempts \in 0 .. MaxSwitches
       /\ req[r].outcome \in Outcomes
       /\ req[r].answer.kind \in Answers
       /\ req[r].failedPaths \subseteq Paths

\* One request forwards at most MaxSwitches + 1 times, to a different account each
\* time, and never again over a path whose transport failed under it.
NoRepeat ==
  \A r \in Reqs :
    /\ Cardinality(req[r].tried) <= MaxSwitches + 1
    /\ req[r].pc = "permit" => req[r].account \notin req[r].tried
    /\ req[r].pc = "attempt" => Path(r) \notin req[r].dead

\* A half-open path has a request that will report on it: the slot never outlives
\* the request it was given to, whatever way the request ends.
HalfOpenHasProber ==
  \A p \in Paths : entry[p].state = "half_open" =>
    \E r \in Reqs : req[r].probe /\ req[r].pc \in {"attempt", "release"} /\ Path(r) = p

\* A member is asked to log in only for an account whose material, as this request
\* had it, a login repairs: the token is missing, has expired or was revoked by the
\* provider, or the ExternalID that the first login fills in is missing.
LoginEarned ==
  \A r \in Reqs : req[r].answer.kind = "login" =>
    LET answer == req[r].answer
    IN  \/ answer.of.kind \in {"login", "expired", "bare"}
        \/ <<answer.account, answer.of.token>> \in rejected

\* A request that gives up before its attempts are spent has no account left: every
\* usable one cools down, was revoked, or has failed during the request.  The guard on
\* a missing ExternalID is the one exception: its login answers whatever is left.
NothingOverlooked ==
  \A r \in Reqs :
    (/\ req[r].answer.kind \in {"login", "tier", "captured", "path", "degraded"}
     /\ req[r].answer.of.kind # "bare"
     /\ Cardinality(req[r].tried) <= MaxSwitches)
    => req[r].answer.left = {}

Marking(r, a) ==
  req[r].pc \in {"release", "after"} /\ req[r].outcome = "revoked" /\ req[r].account = a

\* The delivered token of an account that the provider has revoked is in the
\* tombstones, or about to be, as long as no request with other material of that
\* account has interfered.
RevokedIsMarked ==
  \A a \in Accounts : (<<a, mat[a].token>> \in rejected /\ a \notin undone) =>
    tomb[a] = mat[a].token \/ \E r \in Reqs : Marking(r, a)
=============================================================================
