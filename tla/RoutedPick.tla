----------------------------- MODULE RoutedPick -----------------------------
(***************************************************************************)
(* Which account of an OAuth pool serves a seat: vkeys.PickRoutedAccount   *)
(* (internal/vkeys/routed_pick.go) and the hot path's                      *)
(* resolveGroupCredential around it (internal/proxy/group_resolve.go).     *)
(*                                                                         *)
(* Accounts are numbered in the seat's rank order (seatassign.Rank), so    *)
(* account 1 is the local primary.  The material of an account is one of   *)
(*   "ok"       can serve now                                              *)
(*   "bare"     like "ok" to the picker, but without the ExternalID that    *)
(*              an Anthropic account is served with                        *)
(*   "login"    the member has no token for it (needs_login)               *)
(*   "expired"  its token has expired, its quota window is open            *)
(*   "window"   its quota window is exhausted, whether expired or not      *)
(*   "corrupt"  usable, but its secret does not decrypt                    *)
(*   "absent"   not delivered                                              *)
(***************************************************************************)
EXTENDS Integers, FiniteSets

CONSTANT A                       \* accounts of the pool

Accounts == 1 .. A
NoAccount == 0

First(S) == CHOOSE a \in S : \A b \in S : a <= b

\* The gate of the picker: whether an account serves, prompts or is passed over.
Serves(mat, skip) == {a \in Accounts \ skip : mat[a] \in {"ok", "bare"}}
Prompts(mat, skip) == {a \in Accounts \ skip : mat[a] = "login"}

Picked(a) == [kind |-> "ok", account |-> a]
Login(a) == [kind |-> "login", account |-> a]
Unusable == [kind |-> "none", account |-> NoAccount]
NothingDelivered == [kind |-> "empty", account |-> NoAccount]

\* Mutant: a needs_login override is honoured at once, the rule before 2026-08-15.
PickLoginFirst(mat, override, skip) ==
  LET serves == Serves(mat, skip)
      prompts == Prompts(mat, skip)
  IN  CASE override \in prompts -> Login(override)
        [] override \in serves -> Picked(override)
        [] override \notin serves \cup prompts /\ serves # {} -> Picked(First(serves))
        [] override \notin serves \cup prompts /\ serves = {} /\ prompts # {} ->
             Login(First(prompts))
        [] OTHER -> Unusable

\* PickRoutedAccount: the engine's override, then the rank order; a login is only
\* asked for when nothing serves, for the override before any other.
PickRoutedAccount(mat, override, skip) ==
  LET serves == Serves(mat, skip)
      prompts == Prompts(mat, skip)
  IN  CASE override \in serves -> Picked(override)
        [] override \notin serves /\ serves # {} -> Picked(First(serves))
        [] serves = {} /\ override \in prompts -> Login(override)
        [] serves = {} /\ override \notin prompts /\ prompts # {} -> Login(First(prompts))
        [] OTHER -> Unusable

\* resolveGroupCredential.  A secret that does not decrypt is found after the pick;
\* the account is then skipped and the pick repeated, until none is left that the
\* picker takes for usable.  The assigned account, the override or else the first of
\* those delivered, is one the member can repair if its token has expired.
Resolve(mat, override, skip) ==
  LET readable == [a \in Accounts |-> IF mat[a] = "corrupt" THEN "absent" ELSE mat[a]]
      pick == PickRoutedAccount(readable, override, skip)
      live == {a \in Accounts : mat[a] # "absent"}
      assigned == IF override \in live THEN override ELSE First(live)
  IN  CASE live = {} -> NothingDelivered
        [] live # {} /\ pick.kind = "none" /\ assigned \notin skip /\ mat[assigned] = "expired" ->
             Login(assigned)
        [] OTHER -> pick
=============================================================================
