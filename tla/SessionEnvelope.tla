-------------------------- MODULE SessionEnvelope --------------------------
(***************************************************************************)
(* The metadata the plugin keeps in one canonical OpenClaw session row      *)
(* (src/src/harness/session-bindings.ts): its shape, what parseEnvelope      *)
(* accepts, and the new envelope each mutation computes from the old one.    *)
(*                                                                         *)
(* One row is modelled, so the canonical identity (session id, key, agent,   *)
(* store), the schema and the harness id are the same everywhere and left    *)
(* out.  A random UUID is named after the operation that draws it: an        *)
(* attempt is its own token and the epoch it may start, a reset is the       *)
(* epoch it starts.  A conversation is named after the attempt whose native  *)
(* process created it.  A route is the pair of exact model and authority     *)
(* scope, which the code always compares together.                           *)
(***************************************************************************)

CONSTANTS
    Attempts,    \* calls of runAntigravityAttempt for the session
    Resets,      \* calls of clear for the session
    Routes,      \* (modelId, scopeKey) pairs
    Revisions,   \* host lifecycle revisions of the row
    None         \* an absent optional field

ASSUME ActorsDisjoint == Attempts \cap Resets = {}

Epochs == Attempts \cup Resets
Conversations == Attempts

Bindings  == [epoch : Epochs, rev : Revisions, conv : Conversations, route : Routes]
Claims    == [token : Attempts, route : Routes]
Settled   == [token : Attempts, route : Routes, conv : Conversations \cup {None}]
Envelopes == [epoch : Epochs, rev : Revisions,
              binding : Bindings \cup {None}, active : Claims \cup {None},
              settled : Settled \cup {None}, pending : BOOLEAN]
Rows      == [rev : Revisions, env : Envelopes \cup {None}]
Leases    == [epoch : Epochs, rev : Revisions, binding : Bindings \cup {None}]

ASSUME NoneIsNothing ==
    None \notin Epochs \cup Bindings \cup Claims \cup Settled \cup Envelopes
                \cup Rows \cup Leases

ConvOf(binding) == IF binding = None THEN None ELSE binding.conv

(***************************************************************************)
(* What parseEnvelope accepts, field by field.                              *)
(***************************************************************************)
BindingMatches(env) ==
    env.binding # None => /\ env.binding.epoch = env.epoch
                          /\ env.binding.rev = env.rev

ClaimMatches(env) ==
    env.active # None => /\ ~env.pending
                         /\ env.binding # None => env.binding.route = env.active.route

SettledMatches(env) ==
    env.settled # None =>
        /\ env.active = None
        /\ ~env.pending
        /\ env.settled.conv = ConvOf(env.binding)
        /\ env.binding # None => env.binding.route = env.settled.route

WellFormed(env) == BindingMatches(env) /\ ClaimMatches(env) /\ SettledMatches(env)

(* parseEnvelope does not throw: nothing stored, or a well-formed envelope   *)
(* stamped with the row's own lifecycle revision.                            *)
Parses(row) == row.env # None => row.env.rev = row.rev /\ WellFormed(row.env)

(***************************************************************************)
(* The update callbacks: the envelope each mutation derives from the row it  *)
(* was given, and whether it goes ahead or throws.                           *)
(***************************************************************************)
Resolvable(row) == Parses(row) /\ (row.env # None => ~row.env.pending)

StoredBinding(row) == IF row.env = None THEN None ELSE row.env.binding

(* Mutant: a claim is given out over an active or interrupted one.           *)
MayClaimOverActive(row, route) ==
    /\ Resolvable(row)
    /\ row.env # None /\ row.env.binding # None => row.env.binding.route = route

(* beginAttempt *)
MayClaim(row, route) ==
    /\ Resolvable(row)
    /\ row.env # None =>
          /\ row.env.active = None
          /\ row.env.binding # None => row.env.binding.route = route

(* Mutant: the previous result is not withdrawn by the next claim.           *)
ClaimedKeepingResult(row, a, route) ==
    LET claim == [token |-> a, route |-> route] IN
    IF row.env = None
    THEN [epoch |-> a, rev |-> row.rev, binding |-> None, active |-> claim,
          settled |-> None, pending |-> FALSE]
    ELSE [row.env EXCEPT !.active = claim]

Claimed(row, a, route) ==
    LET claim == [token |-> a, route |-> route] IN
    IF row.env = None
    THEN [epoch |-> a, rev |-> row.rev, binding |-> None, active |-> claim,
          settled |-> None, pending |-> FALSE]
    ELSE [row.env EXCEPT !.settled = None, !.active = claim]

(* #assertLease: the row still carries this lease's claim in its generation. *)
HoldsClaim(row, lease, a, route) ==
    /\ Parses(row)
    /\ row.env # None
    /\ ~row.env.pending
    /\ row.env.epoch = lease.epoch
    /\ row.env.rev = lease.rev
    /\ row.env.active = [token |-> a, route |-> route]

(* bindFresh: a second binding of the same conversation changes nothing.     *)
Bound(row, lease, a, route) ==
    IF row.env.binding # None THEN row.env
    ELSE [row.env EXCEPT !.binding =
            [epoch |-> lease.epoch, rev |-> lease.rev, conv |-> a, route |-> route]]

(* endAttempt: the claim becomes the last settled attempt, unless the row    *)
(* has moved on to another epoch or another claim.                           *)
OwnsEnd(row, lease, a) ==
    /\ row.env # None
    /\ row.env.epoch = lease.epoch
    /\ row.env.active # None
    /\ row.env.active.token = a

(* Mutant: the settled attempt is stored without its conversation field.     *)
EndedWithoutConversation(row, lease, a, route) ==
    IF ~OwnsEnd(row, lease, a) THEN row.env
    ELSE [row.env EXCEPT !.active = None, !.settled = [token |-> a, route |-> route]]

Ended(row, lease, a, route) ==
    IF ~OwnsEnd(row, lease, a) THEN row.env
    ELSE [row.env EXCEPT !.active = None,
            !.settled = [token |-> a, route |-> route, conv |-> ConvOf(row.env.binding)]]

(* clear, first commit: malformed metadata is dropped, a sound binding is    *)
(* kept under the reset's own epoch until the drain is done.                 *)
MayRetire(row) == ~(Parses(row) /\ row.env # None /\ row.env.pending)

(* Mutant: the binding is dropped by the first commit, before the drain.     *)
RetiredUnbound(row, r) ==
    [epoch |-> r, rev |-> row.rev, binding |-> None,
     active |-> None, settled |-> None, pending |-> TRUE]

Retired(row, r) ==
    LET kept == IF Parses(row) THEN StoredBinding(row) ELSE None IN
    [epoch |-> r, rev |-> row.rev,
     binding |-> IF kept = None THEN None ELSE [kept EXCEPT !.epoch = r],
     active |-> None, settled |-> None, pending |-> TRUE]

(* clear, second commit: the epoch alone remains as a tombstone.             *)
MayClear(row, r) == Parses(row) /\ row.env # None /\ row.env.epoch = r /\ row.env.pending

Cleared(row) == [row.env EXCEPT !.binding = None, !.pending = FALSE]

(* Mutant: any settled attempt of the generation passes for this one.        *)
AnyResultCurrent(row, lease, a, route) ==
    /\ Parses(row)
    /\ row.env # None
    /\ ~row.env.pending
    /\ row.env.active = None
    /\ row.env.epoch = lease.epoch
    /\ row.env.settled # None

(* assertResultCurrent *)
ResultCurrent(row, lease, a, route) ==
    /\ Parses(row)
    /\ row.env # None
    /\ ~row.env.pending
    /\ row.env.active = None
    /\ row.env.epoch = lease.epoch
    /\ row.env.rev = lease.rev
    /\ row.env.settled # None
    /\ row.env.settled.token = a
    /\ row.env.settled.route = route
=============================================================================
