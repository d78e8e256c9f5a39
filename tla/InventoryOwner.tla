---------------------------- MODULE InventoryOwner ----------------------------
(***************************************************************************)
(* The owner through which the host's hooks ask for models                   *)
(* (AgyHostInventoryOwner, src/src/inventory-scope.ts), together with the     *)
(* inventory it owns.  A hook comes with a configuration, a coordinate        *)
(* (agent, workspace, profile) and an environment; the owner turns changes    *)
(* of the first and the last into invalidations.  Attempts ask the inventory  *)
(* directly, under an authority of their own.                                *)
(*                                                                         *)
(* A hook makes its scope and calls get in one turn of the event loop.        *)
(* "turn" holds the turn between the two; nothing else moves meanwhile.       *)
(***************************************************************************)
EXTENDS Inventory, Sequences

CONSTANTS
    Coordinates, Environments, Configs,
    Undefined,        \* the configuration of a hook that brings none
    AttemptScopes,    \* the authorities of attempts
    MaxGenerations,   \* bound: the configurations the owner gets to see
    MaxObserved       \* scopes the owner remembers

Owned == [gen : 1..MaxGenerations, coord : Coordinates, env : Environments]

ASSUME ConfigsAreProper == Undefined \in Configs /\ None \notin Configs
ASSUME AuthoritiesAreScopes == Authorities = Owned \cup AttemptScopes /\ Owned \cap AttemptScopes = {}
ASSUME MaxGenerationsIsNatural == MaxGenerations \in Nat
ASSUME MaxObservedIsPositive == MaxObserved \in Nat \ {0}

VARIABLES
    generation,  \* of the configuration
    config,      \* the last one seen (None: none yet)
    observed,    \* the scopes remembered, the oldest first
    turn         \* the hook whose scope is made, or None

ownerVars == <<generation, config, observed, turn>>
allVars == <<vars, ownerVars>>

OwnerInit ==
    /\ Init
    /\ generation = 0 /\ config = None /\ observed = <<>> /\ turn = None

-----------------------------------------------------------------------------
Changed(conf) == config = None \/ conf \notin {Undefined, config}

SameCoordinate(s, t) == s.gen = t.gen /\ s.coord = t.coord

(* Mutant: a coordinate is remembered with the environment it first had.     *)
RememberedOnce(s) ==
    IF \E i \in DOMAIN observed : SameCoordinate(s, observed[i]) THEN observed
    ELSE IF Len(observed) < MaxObserved THEN Append(observed, s) ELSE Append(Tail(observed), s)

(* Where the coordinate of s is remembered: nowhere, or in one place.         *)
PlacesOf(s) == {i \in DOMAIN observed : SameCoordinate(s, observed[i])}

Others(s) ==
    LET at == CHOOSE i \in PlacesOf(s) : TRUE
    IN  IF PlacesOf(s) = {} THEN observed
        ELSE [j \in 1 .. Len(observed) - 1 |-> observed[IF j < at THEN j ELSE j + 1]]

(* The oldest scope is forgotten when there are too many.                     *)
Remembered(s) ==
    IF Len(Others(s)) < MaxObserved THEN Append(Others(s), s) ELSE Append(Tail(Others(s)), s)

(* The scopes that another environment at their coordinate retires.           *)
Superseded(s) ==
    {t \in Owned : /\ SameCoordinate(s, t) /\ t.env # s.env
                   /\ \E i \in DOMAIN observed : observed[i] = t}

(* scope: the executable may not be found, or the caller be aborted, when     *)
(* the configuration has been taken note of already.                          *)
MakeScope(c) ==
    /\ turn = None /\ call[c] = "idle" /\ ~stopped
    /\ \E conf \in Configs, coord \in Coordinates, env \in Environments, made \in BOOLEAN :
       LET changed == Changed(conf)
           gen == IF changed THEN generation + 1 ELSE generation
           s == [gen |-> gen, coord |-> coord, env |-> env]
       IN  /\ gen <= MaxGenerations
           /\ made \/ changed
           /\ generation' = gen
           /\ config' = IF changed THEN conf ELSE config
           /\ observed' = IF made THEN Remembered(s) ELSE observed
           /\ turn' = [caller |-> c, scope |-> s, made |-> made]
           /\ IF changed /\ config # None THEN InvalidateAll
              ELSE IF made /\ Superseded(s) # {}
              THEN \E t \in Superseded(s) : Invalidate(t)
              ELSE UNCHANGED vars

(* models: get follows at once, always a fresh one.                          *)
Models ==
    /\ turn # None
    /\ LET c == turn.caller
           s == turn.scope
       IN  IF turn.made
           THEN \/ GetRetiring(c, s, TRUE) \/ GetJoins(c, s, TRUE) \/ GetStarts(c, s, TRUE)
                \/ GetRefused(c, s, TRUE)
           ELSE GetRefused(c, s, FALSE)
    /\ turn' = None
    /\ UNCHANGED <<generation, config, observed>>

(* The plugin's service stops; nothing calls the owner's invalidate.          *)
OwnerStops ==
    /\ generation' = generation + 1
    /\ observed' = <<>>
    /\ Stop
    /\ UNCHANGED <<config, turn>>

(* Everything the inventory does by itself, and the calls of attempts.  No     *)
(* hook reads a snapshot, so the age of its models does not matter.           *)
InventoryStep ==
    /\ \/ \E c \in Callers : Lapse(c) \/ Abort(c) \/ CallerTimer(c)
       \/ \E c \in Callers, au \in AttemptScopes : GetFor(c, au)
       \/ \E o \in Callers : Callback(o) \/ Checks(o) \/ Return(o) \/ AcquisitionTimer(o)
       \/ \E au \in AttemptScopes : SnapshotAges(au)
    /\ UNCHANGED ownerVars

OwnerNext ==
    \/ Models
    \/ \E c \in Callers : MakeScope(c)
    \/ turn = None /\ (OwnerStops \/ InventoryStep)

OwnerSpec == OwnerInit /\ [][OwnerNext]_allVars

-----------------------------------------------------------------------------
(* A coordinate is remembered once, with the scope that was last made there.  *)
OwnerTypeOK ==
    /\ TypeOK
    /\ generation \in 0..(MaxGenerations + 1)
    /\ config \in Configs \cup {None}
    /\ observed \in Seq(Owned) /\ Len(observed) <= MaxObserved
    /\ \A i, j \in DOMAIN observed : SameCoordinate(observed[i], observed[j]) => i = j
    /\ turn \in [caller : Callers, scope : Owned, made : BOOLEAN] \cup {None}

(* No hook waits for models of a configuration that has been replaced, or of  *)
(* an environment that a later hook at the same coordinate has replaced, as   *)
(* long as there are no more coordinates than the owner remembers.            *)
WaitsForLatest ==
    \A c \in Callers : call[c] = "waiting" /\ scope[c] \in Owned =>
        /\ scope[c].gen = generation
        /\ \A i \in DOMAIN observed :
              SameCoordinate(observed[i], scope[c]) => observed[i].env = scope[c].env
=============================================================================
