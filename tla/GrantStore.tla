----------------------------- MODULE GrantStore -----------------------------
(***************************************************************************)
(* The broker's standing permissions (crates/yara-broker/src/grant.rs).    *)
(*                                                                         *)
(* GrantStore is a Vec.  `issue` pushes at the end and nothing reorders    *)
(* it, so the order of the Vec is the order of issue: the store is a set   *)
(* of grants whose `id` is their issue number, and "the first grant that   *)
(* authorises" is the one with the least id.                               *)
(*                                                                         *)
(* Abstractions.  An executable path is a member of Program (two spellings *)
(* that differ only in ASCII case are one member); an item id and a field  *)
(* together are a Target; a Scope is Reveal or one exact command line,     *)
(* with its arguments and its directory.                                   *)
(***************************************************************************)
EXTENDS Naturals

CONSTANTS
  Target,        \* an item and one of its fields
  Scope,         \* what a request does: one exact command, or the reveal
  Disclosing,    \* the scopes Intent::discloses_secret says yes to
  Program,       \* resolved image paths
  Unidentified   \* a client whose image path could not be resolved

ASSUME ScopeAssumption == Disclosing \subseteq Scope
ASSUME ClientAssumption == Unidentified \notin Program

Client == Program \cup {Unidentified}

\* What one Access request asks for, and who asks.
Access == [client : Client, target : Target, scope : Scope]

Grant == [id : Nat \ {0}, target : Target, scope : Scope, client : Client,
          expires : Nat, max : Nat, uses : Nat]

\* Mutation of SameProgram: two unidentified clients pass for one program.
SameProgramIfEqual(a, b) == a = b

\* ClientId::same_program_as: an unidentified side never matches.
SameProgram(a, b) == a \in Program /\ b \in Program /\ a = b

NewGrant(id, want, issuedAt, duration, max) ==
  [id |-> id, target |-> want.target, scope |-> want.scope,
   client |-> want.client, expires |-> issuedAt + duration,
   max |-> max, uses |-> 0]

\* Mutation of IsLive: one use too many.
IsLiveOnceMore(g, now) == now < g.expires /\ g.uses <= g.max

IsLive(g, now) == now < g.expires /\ g.uses < g.max

Authorises(g, want, now) ==
  /\ IsLive(g, now)
  /\ g.target = want.target
  /\ g.scope = want.scope
  /\ SameProgram(g.client, want.client)

Issue(store, g) == store \cup {g}

Prune(store, now) == {g \in store : IsLive(g, now)}

Revoke(store, id) == {g \in store : g.id # id}

Matching(store, want, now) == {g \in store : Authorises(g, want, now)}

\* The grant `redeem` finds: none, or the one issued first.
Redeemable(store, want, now) ==
  {g \in Matching(store, want, now) :
     \A h \in Matching(store, want, now) : g.id <= h.id}

\* Mutation of Charge: a copy is charged.
ChargeCopy(store, g) == store

Charge(store, g) == (store \ {g}) \cup {[g EXCEPT !.uses = @ + 1]}

=============================================================================
