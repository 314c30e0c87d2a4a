--------------------------- MODULE CandidateChain ---------------------------
(***************************************************************************)
(* Which upstreams a request may use, and in which order                   *)
(* (internal/proxy/candidate_chain.go): chainFrom turns the bindings of a  *)
(* virtual key and the local pin into a candidate chain.  Init chooses an  *)
(* input, Select computes the chain, and the properties compare it with    *)
(* definitions that name the chain without building it.                    *)
(*                                                                         *)
(* A binding is a record; Blank stands for an empty field.  A chain lists  *)
(* positions in the bindings, so that two equal rows stay two hops.        *)
(***************************************************************************)
EXTENDS Integers, Sequences, FiniteSets, SequencesExt

CONSTANTS Protocols, Vendors, Groups, Pools, Blank,
          MaxPriority,   \* priorities are 1 .. MaxPriority
          MaxBindings    \* bound: rows of one virtual key

VARIABLES input,         \* [bindings, group, pin, protocol]
          chain          \* the candidateChain, Unset before chainFrom ran

Bindings(vendors, prios, pools) ==
  [protocol : Protocols, vendor : vendors, group : Groups \cup {Blank}, priority : prios,
   pool : pools, rank : 0 .. 2]

Rows(S) == UNION {[1 .. n -> S] : n \in 0 .. MaxBindings}

NoPin == [scope |-> "none", vendor |-> Blank, protocol |-> Blank]

\* DerivePinScope: a row without a group is legacy, one without a vendor pins the
\* group.  A row for another key does not apply and is no pin.
Pins ==
  {NoPin} \cup [scope : {"group"}, vendor : {Blank}, protocol : Protocols \cup {Blank}]
          \cup [scope : {"member", "legacy"}, vendor : Vendors, protocol : Protocols \cup {Blank}]

Chain(hops, pinned, grouped) ==
  [err |-> "none", hops |-> hops, pinned |-> pinned, grouped |-> grouped]
Failed(err) == [err |-> err, hops |-> <<>>, pinned |-> FALSE, grouped |-> FALSE]
Unset == Failed("unset")

\* Two families: pools and priorities without a pin, and pins over plain rows.
Init ==
  /\ chain = Unset
  /\ \/ \E v \in {CHOOSE x \in Vendors : TRUE} :
          input \in [bindings : Rows({b \in Bindings({v}, 1 .. MaxPriority, Pools \cup {Blank}) :
                                        b.pool = Blank => b.rank = 2}),
                     group : {Blank}, pin : {NoPin}, protocol : Protocols \cup {Blank}]
     \/ input \in [bindings : Rows({b \in Bindings(Vendors, {1}, {Blank}) : b.rank = 2}),
                   group : Groups \cup {Blank}, pin : Pins, protocol : Protocols \cup {Blank}]

Rs == input.bindings

-----------------------------------------------------------------------------
Matches(b, vendor, protocol) == b.vendor = vendor /\ protocol \in {Blank, b.protocol}

\* The first row a pin names, as a sequence of at most one position.
FirstMatch(bs, pin) ==
  LET hit == {i \in DOMAIN bs : Matches(bs[i], pin.vendor, pin.protocol)}
  IN  IF hit = {} THEN <<>> ELSE <<CHOOSE i \in hit : \A j \in hit : i <= j>>

\* Mutant: the first row of a pool stands for it.
CollapseFirst(bs, cand) ==
  SelectSeq(cand, LAMBDA i : bs[i].pool = Blank
                             \/ \A j \in ToSet(cand) : bs[j].pool = bs[i].pool => i <= j)

\* collapseOauthGroups: a pool is one hop, at the place of its first row; a later
\* row replaces the one kept only when its rank is higher.
CollapseOauthGroups(bs, cand) ==
  FoldLeft(LAMBDA out, i :
             LET at == {k \in DOMAIN out : bs[out[k]].pool = bs[i].pool}
             IN  IF bs[i].pool = Blank \/ at = {} THEN Append(out, i)
                 ELSE [k \in DOMAIN out |-> IF k \in at /\ bs[i].rank > bs[out[k]].rank
                                            THEN i ELSE out[k]],
           <<>>, cand)

\* duplicatePriority: two members of one route group at the same priority.
DuplicatePriority(bs, cand) ==
  \E k, m \in DOMAIN cand :
    /\ k < m /\ bs[cand[k]].group # Blank /\ bs[cand[k]].group = bs[cand[m]].group
    /\ bs[cand[k]].priority = bs[cand[m]].priority

\* sort.SliceStable by priority.
SortStable(bs, cand) ==
  LET Before(k, m) == \/ bs[cand[k]].priority < bs[cand[m]].priority
                      \/ bs[cand[k]].priority = bs[cand[m]].priority /\ k < m
      place == SetToSortSeq(DOMAIN cand, Before)
  IN  [k \in DOMAIN cand |-> cand[place[k]]]

\* The part of chainFrom after the pin.
WholeChain(bs, protocol) ==
  LET mine == SelectSeq([i \in DOMAIN bs |-> i], LAMBDA i : protocol \in {Blank, bs[i].protocol})
      cand == CollapseOauthGroups(bs, mine)
      hops == SortStable(bs, cand)
  IN  CASE mine = <<>> -> Failed("no_binding")
        [] mine # <<>> /\ DuplicatePriority(bs, cand) -> Failed("ambiguous")
        [] OTHER -> Chain(hops, FALSE, bs[hops[1]].group # Blank)

\* Mutant: a legacy pin fixes its row even inside a group.
ChainFromLegacyPins(bs, group, pin, protocol) ==
  LET hit == FirstMatch(bs, pin)
  IN  CASE bs = <<>> -> Chain(<<0>>, FALSE, group # Blank)
        [] bs # <<>> /\ pin.scope \in {"member", "legacy"} /\ hit # <<>> ->
             Chain(hit, TRUE, bs[hit[1]].group # Blank)
        [] OTHER -> WholeChain(bs, protocol)

\* chainFrom.  Without sibling rows the route itself, position 0, is the chain.  A
\* member pin restricts the chain to its row while that row exists, a legacy pin
\* only where its row is in no group.
ChainFrom(bs, group, pin, protocol) ==
  LET hit == FirstMatch(bs, pin)
  IN  CASE bs = <<>> -> Chain(<<0>>, FALSE, group # Blank)
        [] bs # <<>> /\ pin.scope = "member" /\ hit # <<>> ->
             Chain(hit, TRUE, bs[hit[1]].group # Blank)
        [] bs # <<>> /\ pin.scope = "legacy" /\ hit # <<>> /\ bs[hit[1]].group = Blank ->
             Chain(hit, TRUE, FALSE)
        [] OTHER -> WholeChain(bs, protocol)

CanFailover(c) == ~c.pinned /\ c.grouped /\ Len(c.hops) > 1

Select ==
  /\ chain = Unset
  /\ chain' = ChainFrom(Rs, input.group, input.pin, input.protocol)
  /\ UNCHANGED input

-----------------------------------------------------------------------------
(* What a chain is, without the order of the code.                         *)

Mine == {i \in DOMAIN Rs : input.protocol \in {Blank, Rs[i].protocol}}
PoolOf(i) == IF Rs[i].pool = Blank THEN {i} ELSE {j \in Mine : Rs[j].pool = Rs[i].pool}

\* The row that can serve: no row of the pool has a higher rank, and of several
\* the first.
Serves(i) ==
  \A j \in PoolOf(i) : Rs[j].rank < Rs[i].rank \/ (Rs[j].rank = Rs[i].rank /\ i <= j)

Seat(i) == CHOOSE j \in PoolOf(i) : \A k \in PoolOf(i) : j <= k

\* chainFrom: the unpinned chain has exactly one hop per binding or pool of the
\* requested protocol, the row of a pool that can serve, in the administrator's
\* order, rows of equal priority as they were delivered.  A key is refused only when
\* it has nothing for the protocol or, "the NARROWED ambiguity", two hops of one
\* route group have the same priority.
ChainIsOrdered ==
  /\ chain.err = "none" /\ ~chain.pinned /\ Rs # <<>> =>
       LET Before(i, j) == \/ Rs[i].priority < Rs[j].priority
                           \/ Rs[i].priority = Rs[j].priority /\ Seat(i) < Seat(j)
       IN  chain.hops = SetToSortSeq({i \in Mine : Serves(i)}, Before)
  /\ chain.err = "no_binding" => Mine = {}
  /\ chain.err = "ambiguous" =>
       \E i, j \in Mine : /\ i # j /\ Serves(i) /\ Serves(j)
                          /\ Rs[i].group \in Groups /\ Rs[i].group = Rs[j].group
                          /\ Rs[i].priority = Rs[j].priority

\* chainFrom, D-1: where several hops of the protocol are all members of a route
\* group, failover is on unless a pin names a row: a member pin any row, a legacy
\* pin a row outside every group.
OnlyPinStopsFailover ==
  LET hops == {i \in Mine : Serves(i)}
      named == FirstMatch(Rs, input.pin)
  IN  /\ chain.err = "none" /\ Rs # <<>>
      /\ Cardinality(hops) > 1 /\ \A i \in hops : Rs[i].group # Blank
      => \/ CanFailover(chain)
         \/ input.pin.scope = "member" /\ named # <<>>
         \/ input.pin.scope = "legacy" /\ named # <<>> /\ Rs[named[1]].group = Blank
=============================================================================
