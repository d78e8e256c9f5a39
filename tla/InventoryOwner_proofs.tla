------------------------ MODULE InventoryOwner_proofs ------------------------
(***************************************************************************)
(* The owner uses its inventory as any caller may, so everything proved of   *)
(* the inventory holds under it; and what it adds, that nobody waits for     *)
(* models of a configuration that was replaced, is proved on top of that.    *)
(***************************************************************************)
EXTENDS InventoryOwner, Inventory_proofs

(* The generation runs past its bound only when the owner stops.             *)
Turns ==
    /\ generation \in Nat /\ generation <= MaxGenerations + 1
    /\ ~stopped => generation <= MaxGenerations
    /\ config \in Configs \cup {None}
    /\ config # None => generation # 0
    /\ turn \in [caller : Callers, scope : Owned, made : BOOLEAN] \cup {None}
    /\ turn # None =>
          /\ turn.caller \in Callers /\ turn.scope \in Owned
          /\ turn.scope.gen = generation /\ config # None

(* The scope that a hook of configuration conf gets.                         *)
LEMMA ScopesAreOwned ==
    ASSUME Turns, NEW conf \in Configs, NEW coord \in Coordinates, NEW env \in Environments,
           NEW gen, gen = IF Changed(conf) THEN generation + 1 ELSE generation,
           gen <= MaxGenerations
    PROVE  [gen |-> gen, coord |-> coord, env |-> env] \in Owned /\ gen \in Nat \ {0}
  BY DEF Turns, Changed, Owned

(* What the owner does to the inventory in a step.                           *)
LEMMA ScopesInvalidate ==
    ASSUME NEW c \in Callers, MakeScope(c)
    PROVE  InvalidateAll \/ (\E au \in Authorities : Invalidate(au)) \/ UNCHANGED vars
  BY AuthoritiesAreScopes DEF MakeScope, Superseded

LEMMA ModelsGets ==
    ASSUME Turns, Models
    PROVE  Get(turn.caller) /\ turn.caller \in Callers
  <1>1. turn.caller \in Callers /\ turn.scope \in Authorities
    BY AuthoritiesAreScopes DEF Models, Turns
  <1>2. \/ \E active \in BOOLEAN : GetRefused(turn.caller, turn.scope, active)
        \/ \/ GetRetiring(turn.caller, turn.scope, TRUE)
           \/ GetJoins(turn.caller, turn.scope, TRUE)
           \/ GetStarts(turn.caller, turn.scope, TRUE)
    BY DEF Models
  <1> QED
    BY <1>1, <1>2 DEF Get, GetFor

LEMMA StepsAreSteps == Turns /\ [OwnerNext]_allVars => [Next]_vars
  <1> SUFFICES ASSUME Turns, [OwnerNext]_allVars PROVE [Next]_vars
    OBVIOUS
  <1>1. CASE Models
    BY <1>1, ModelsGets DEF Next
  <1>2. ASSUME NEW c \in Callers, MakeScope(c) PROVE [Next]_vars
    BY <1>2, ScopesInvalidate DEF Next
  <1>3. CASE OwnerStops
    BY <1>3 DEF OwnerStops, Next
  <1>4. ASSUME NEW c \in Callers, NEW au \in AttemptScopes, GetFor(c, au) PROVE Next
    BY <1>4, AuthoritiesAreScopes DEF Get, Next
  <1>5. CASE InventoryStep
    BY <1>4, <1>5, AuthoritiesAreScopes DEF InventoryStep, Next
  <1>6. CASE UNCHANGED allVars
    BY <1>6 DEF allVars
  <1> QED
    BY <1>1, <1>2, <1>3, <1>5, <1>6 DEF OwnerNext

LEMMA StoppedForGood == [Next]_vars => (stopped => stopped')
  <1> SUFFICES ASSUME [Next]_vars PROVE stopped => stopped'
    OBVIOUS
  <1>1. CASE \E c \in Callers : Get(c) \/ Lapse(c) \/ Abort(c) \/ CallerTimer(c)
    <2>1. ASSUME NEW c \in Callers, Get(c) PROVE UNCHANGED stopped
      BY <2>1 DEF Get, GetFor, GetRefused, GetRetiring, GetJoins, GetCached, GetStarts, Admitted, entryVars
    <2>2. ASSUME NEW c \in Callers, Lapse(c) \/ Abort(c) \/ CallerTimer(c) PROVE UNCHANGED stopped
      BY <2>2 DEF Lapse, Abort, CallerTimer, Leave, entryVars
    <2> QED
      BY <1>1, <2>1, <2>2
  <1>2. CASE \E o \in Callers : Callback(o) \/ Checks(o) \/ Return(o) \/ AcquisitionTimer(o)
    BY <1>2 DEF Callback, Start, Discard, Complete, Fail, Finish, Checks, Check, Return,
                AcquisitionTimer, entryVars
  <1>3. CASE \E au \in Authorities : SnapshotAges(au) \/ Invalidate(au)
    BY <1>3 DEF SnapshotAges, Invalidate
  <1> QED
    BY <1>1, <1>2, <1>3 DEF Next, InvalidateAll, Stop, vars, entryVars

LEMMA TurnsInductive == Turns /\ [OwnerNext]_allVars => Turns'
  <1> SUFFICES ASSUME Turns, [OwnerNext]_allVars PROVE Turns'
    OBVIOUS
  <1>1. stopped => stopped'
    BY StepsAreSteps, StoppedForGood
  <1>2. CASE Models
    BY <1>1, <1>2 DEF Models, Turns
  <1>3. ASSUME NEW c \in Callers, MakeScope(c) PROVE Turns'
    <2>1. PICK conf \in Configs, coord \in Coordinates, env \in Environments, made \in BOOLEAN :
             LET changed == Changed(conf)
                 gen == IF changed THEN generation + 1 ELSE generation
                 s == [gen |-> gen, coord |-> coord, env |-> env]
             IN  /\ gen <= MaxGenerations
                 /\ generation' = gen
                 /\ config' = IF changed THEN conf ELSE config
                 /\ turn' = [caller |-> c, scope |-> s, made |-> made]
      BY <1>3 DEF MakeScope
    <2>2. /\ turn'.scope \in Owned /\ turn'.scope.gen = generation'
          /\ generation' \in Nat \ {0} /\ generation' <= MaxGenerations
      BY <2>1, ScopesAreOwned
    <2>3. config' # None /\ config' \in Configs
      BY <2>1, ConfigsAreProper DEF Changed, Turns
    <2>4. turn' \in [caller : Callers, scope : Owned, made : BOOLEAN]
      BY <2>1, <2>2
    <2>5. generation' <= MaxGenerations + 1
      BY <2>2, MaxGenerationsIsNatural
    <2>6. turn'.caller = c
      BY <2>1
    <2> QED
      BY <2>2, <2>3, <2>4, <2>5, <2>6 DEF Turns
  <1>4. CASE turn = None /\ OwnerStops
    <2>1. generation' = generation + 1 /\ generation <= MaxGenerations /\ stopped' = TRUE
      BY <1>4 DEF OwnerStops, Stop, Turns
    <2> QED
      BY <1>4, <2>1, MaxGenerationsIsNatural DEF OwnerStops, Turns
  <1>5. CASE UNCHANGED ownerVars
    BY <1>1, <1>5 DEF ownerVars, Turns
  <1> QED
    BY <1>2, <1>3, <1>4, <1>5 DEF OwnerNext, InventoryStep, allVars

LEMMA TurnsInit == OwnerInit => Turns
  BY MaxGenerationsIsNatural DEF OwnerInit, Turns

(* Whatever the owner does, the inventory under it behaves as Inventory      *)
(* says: its theorems hold of the plugin's own use (inventory-scope.ts).     *)
THEOREM OwnerUsesInventory == OwnerSpec => Spec
  <1>1. OwnerInit => Init
    BY DEF OwnerInit
  <1> QED
    BY <1>1, TurnsInit, TurnsInductive, StepsAreSteps, PTL DEF OwnerSpec, Spec

-----------------------------------------------------------------------------
(* The first half of WaitsForLatest.                                         *)
WaitsForConfiguration ==
    \A c \in Callers : call[c] = "waiting" /\ scope[c] \in Owned =>
        scope[c].gen = generation /\ config # None

LEMMA InvalidationEmpties ==
    ASSUME Safe, Invalidated(Authorities), NEW c \in Callers
    PROVE  call'[c] # "waiting"
  <1> SUFFICES ASSUME call[c] = "waiting" PROVE call'[c] = "rejected"
    BY DEF Invalidated, Rejected
  <1> DEFINE o == inflight[scope[c]]
             gone == {inflight[au] : au \in Authorities \cap entries} \ {None}
  <1>1. scope[c] \in Authorities \cap entries /\ o # None /\ c \in waiters[o]
    BY DEF Safe, Core, Waiting, Places
  <1>2. c \in UNION {waiters[p] : p \in gone}
    BY <1>1
  <1>3. Rejected(UNION {waiters[p] : p \in gone})
    BY DEF Invalidated
  <1> QED
    BY <1>2, <1>3 DEF Rejected

(* Only a call of its own makes a caller wait.                               *)
Quieter == \A c \in Callers : call'[c] = "waiting" => call[c] = "waiting" /\ scope'[c] = scope[c]

LEMMA InvalidationQuietens ==
    ASSUME NEW aus, Invalidated(aus)
    PROVE  Quieter
  BY DEF Invalidated, Rejected, Quieter

LEMMA OwnStepsQuieten ==
    ASSUME \/ \E c \in Callers : Lapse(c) \/ Abort(c) \/ CallerTimer(c)
           \/ \E o \in Callers : Callback(o) \/ Checks(o) \/ Return(o) \/ AcquisitionTimer(o)
           \/ \E au \in Authorities : SnapshotAges(au)
    PROVE  Quieter
  <1>1. ASSUME NEW o \in Callers, NEW cs, RemoveWaiters(o, cs), UNCHANGED scope
        PROVE  Quieter
    BY <1>1 DEF RemoveWaiters, Rejected, Quieter
  <1>2. ASSUME NEW c \in Callers, Lapse(c) \/ Abort(c) \/ CallerTimer(c) PROVE Quieter
    <2>1. CASE Lapse(c)
      BY <2>1 DEF Lapse, Quieter
    <2>2. CASE Leave(c)
      BY <1>1, <2>2 DEF Leave
    <2> QED
      BY <1>2, <2>1, <2>2 DEF Abort, CallerTimer
  <1>3. ASSUME NEW o \in Callers, Start(o) \/ Discard(o) \/ Checks(o) PROVE Quieter
    BY <1>1, <1>3 DEF Start, Discard, Checks, Check
  <1>4. ASSUME NEW o \in Callers, Complete(o) \/ Fail(o) \/ AcquisitionTimer(o) PROVE Quieter
    BY <1>4 DEF Complete, Fail, AcquisitionTimer, Rejected, Quieter
  <1>5. ASSUME NEW o \in Callers, Finish(o) \/ Return(o) PROVE Quieter
    BY <1>5 DEF Finish, Return, callVars, Quieter
  <1>6. ASSUME NEW au \in Authorities, SnapshotAges(au) PROVE Quieter
    BY <1>6 DEF SnapshotAges, callVars, Quieter
  <1> QED
    BY <1>2, <1>3, <1>4, <1>5, <1>6 DEF Callback

(* What a call does to who waits.                                            *)
LEMMA CallerWaits ==
    ASSUME Core, NEW c \in Callers, NEW au \in Authorities, NEW fresh \in BOOLEAN,
           \/ GetRetiring(c, au, fresh) \/ GetJoins(c, au, fresh)
           \/ GetCached(c, au, fresh) \/ GetStarts(c, au, fresh)
    PROVE  \A d \in Callers : call'[d] = "waiting" =>
               \/ d = c /\ scope'[d] = au
               \/ call[d] = "waiting" /\ scope'[d] = scope[d]
  BY DEF GetRetiring, GetJoins, GetCached, GetStarts, Admitted, Core, Types

LEMMA RefusalQuietens ==
    ASSUME NEW c, NEW au, NEW active, GetRefused(c, au, active), Core
    PROVE  Quieter
  BY DEF GetRefused, Quieter, Core, Types

(* A hook that waits has waited before, or its models were asked for now.    *)
LEMMA OwnedWaiters ==
    ASSUME Safe, Turns, [OwnerNext]_allVars,
           NEW c \in Callers, call'[c] = "waiting", scope'[c] \in Owned
    PROVE  \/ call[c] = "waiting" /\ scope'[c] = scope[c]
           \/ Models /\ turn.made /\ scope'[c] = turn.scope
  <1> DEFINE Before == call[c] = "waiting" /\ scope'[c] = scope[c]
  <1>1. ASSUME Quieter PROVE Before
    BY <1>1 DEF Quieter
  <1>2. CASE Models
    <2> DEFINE s == turn.scope
    <2>1. turn.caller \in Callers /\ s \in Authorities
      BY <1>2, AuthoritiesAreScopes DEF Models, Turns
    <2>2. CASE \E active \in BOOLEAN : GetRefused(turn.caller, s, active)
      BY <1>1, <2>2, RefusalQuietens DEF Safe
    <2>3. CASE /\ turn.made
               /\ \/ GetRetiring(turn.caller, s, TRUE) \/ GetJoins(turn.caller, s, TRUE)
                  \/ GetStarts(turn.caller, s, TRUE)
      BY <1>2, <2>1, <2>3, CallerWaits DEF Safe
    <2> QED
      BY <1>2, <2>2, <2>3 DEF Models
  <1>3. ASSUME NEW d \in Callers, MakeScope(d) PROVE Before
    <2>1. ASSUME NEW aus, Invalidated(aus) PROVE Before
      BY <1>1, <2>1, InvalidationQuietens
    <2>2. CASE UNCHANGED vars
      BY <2>2 DEF vars, callVars
    <2> QED
      BY <1>3, <2>1, <2>2, ScopesInvalidate DEF Invalidate, InvalidateAll
  <1>4. CASE OwnerStops
    BY <1>1, <1>4, InvalidationQuietens DEF OwnerStops, Stop
  <1>5. CASE InventoryStep
    <2>1. ASSUME NEW d \in Callers, NEW au \in AttemptScopes, GetFor(d, au)
          PROVE  Before
      <3>1. au \in Authorities /\ au \notin Owned
        BY AuthoritiesAreScopes
      <3>2. CASE \E active \in BOOLEAN : GetRefused(d, au, active)
        BY <1>1, <3>2, RefusalQuietens DEF Safe
      <3>3. CASE \E fresh \in BOOLEAN :
                    \/ GetRetiring(d, au, fresh) \/ GetJoins(d, au, fresh)
                    \/ GetCached(d, au, fresh) \/ GetStarts(d, au, fresh)
        BY <3>1, <3>3, CallerWaits DEF Safe
      <3> QED
        BY <2>1, <3>2, <3>3 DEF GetFor
    <2>2. CASE \/ \E d \in Callers : Lapse(d) \/ Abort(d) \/ CallerTimer(d)
               \/ \E o \in Callers : Callback(o) \/ Checks(o) \/ Return(o) \/ AcquisitionTimer(o)
               \/ \E au \in AttemptScopes : SnapshotAges(au)
      BY <1>1, <2>2, OwnStepsQuieten, AuthoritiesAreScopes
    <2> QED
      BY <1>5, <2>1, <2>2 DEF InventoryStep
  <1>6. CASE UNCHANGED allVars
    BY <1>6 DEF allVars, vars, callVars
  <1> QED
    BY <1>2, <1>3, <1>4, <1>5, <1>6 DEF OwnerNext

LEMMA ConfigurationInductive ==
    ASSUME Safe, Turns, WaitsForConfiguration, [OwnerNext]_allVars
    PROVE  WaitsForConfiguration'
  <1> SUFFICES ASSUME NEW c \in Callers, call'[c] = "waiting", scope'[c] \in Owned
               PROVE  scope'[c].gen = generation' /\ config' # None
    BY DEF WaitsForConfiguration
  <1>1. CASE Models
    BY <1>1, OwnedWaiters DEF Models, Turns, WaitsForConfiguration
  <1>2. CASE ~Models
    <2>1. scope'[c].gen = generation /\ config # None
      BY <1>2, OwnedWaiters DEF WaitsForConfiguration
    <2>2. ~InvalidateAll /\ ~Stop
      BY InvalidationEmpties DEF InvalidateAll, Stop
    <2>3. UNCHANGED <<generation, config>>
      BY <1>2, <2>1, <2>2 DEF OwnerNext, MakeScope, OwnerStops, InventoryStep, ownerVars, allVars
    <2> QED
      BY <2>1, <2>3
  <1> QED
    BY <1>1, <1>2

(* No hook waits for models of a configuration that has been replaced, for   *)
(* any number of configurations, coordinates and remembered scopes: scope    *)
(* turns the change into an invalidation of everything that is in flight.    *)
THEOREM LatestConfiguration == OwnerSpec => []WaitsForConfiguration
  <1>1. OwnerInit => Turns /\ WaitsForConfiguration
    BY TurnsInit DEF OwnerInit, Init, WaitsForConfiguration
  <1>2. Safe /\ Turns /\ WaitsForConfiguration /\ [OwnerNext]_allVars
           => Turns' /\ WaitsForConfiguration'
    BY TurnsInductive, ConfigurationInductive
  <1>3. OwnerSpec => []Safe
    BY OwnerUsesInventory, SafeInductive, PTL
  <1> QED
    BY <1>1, <1>2, <1>3, PTL DEF OwnerSpec

-----------------------------------------------------------------------------
(***************************************************************************)
(* The scopes the owner remembers: each coordinate once, and the later ones  *)
(* never of an earlier configuration than the ones before them.              *)
(***************************************************************************)
Memory ==
    /\ observed \in Seq(Owned) /\ Len(observed) <= MaxObserved
    /\ \A i, j \in DOMAIN observed : SameCoordinate(observed[i], observed[j]) => i = j
    /\ \A i, j \in DOMAIN observed : i <= j => observed[i].gen <= observed[j].gen
    /\ \A i \in DOMAIN observed : observed[i].gen <= generation

(* What is left of the memory when a coordinate is taken out of it.          *)
LEMMA OthersKept ==
    ASSUME Memory, NEW s \in Owned
    PROVE  /\ Others(s) \in Seq(Owned) /\ Len(Others(s)) <= MaxObserved
           /\ \A i \in 1 .. Len(Others(s)) :
                 /\ ~SameCoordinate(s, Others(s)[i])
                 /\ \E k \in DOMAIN observed : Others(s)[i] = observed[k]
           /\ \A i, j \in 1 .. Len(Others(s)) :
                 /\ SameCoordinate(Others(s)[i], Others(s)[j]) => i = j
                 /\ i <= j => Others(s)[i].gen <= Others(s)[j].gen
           /\ \A k \in DOMAIN observed : ~SameCoordinate(s, observed[k]) =>
                 \E i \in 1 .. Len(Others(s)) : Others(s)[i] = observed[k]
  <1>1. DOMAIN observed = 1 .. Len(observed) /\ Len(observed) \in Nat
    BY DEF Memory
  <1>2. CASE PlacesOf(s) = {}
    BY <1>1, <1>2 DEF Memory, Others, PlacesOf
  <1>3. CASE PlacesOf(s) # {}
    <2> DEFINE at == CHOOSE i \in PlacesOf(s) : TRUE
               n == Len(observed) - 1
               place(j) == IF j < at THEN j ELSE j + 1
               q == [j \in 1 .. n |-> observed[place(j)]]
    <2>1. at \in PlacesOf(s)
      BY <1>3
    <2>2. at \in 1 .. Len(observed) /\ SameCoordinate(s, observed[at]) /\ n \in Nat
      BY <1>1, <2>1 DEF PlacesOf
    <2>3. Others(s) = q
      BY <1>3 DEF Others
    <2> HIDE DEF at
    <2>4. \A i \in 1 .. n : place(i) \in 1 .. Len(observed) /\ place(i) # at /\ place(i) \in Nat
      BY <1>1, <2>2
    <2>5. \A i, j \in 1 .. n : /\ place(i) = place(j) => i = j
                               /\ i <= j => place(i) <= place(j)
      BY <1>1, <2>2
    <2>6. \A k \in 1 .. Len(observed) : k # at => \E i \in 1 .. n : place(i) = k
      <3> SUFFICES ASSUME NEW k \in 1 .. Len(observed), k # at
                   PROVE  \E i \in 1 .. n : place(i) = k
        OBVIOUS
      <3>1. CASE k < at
        <4>1. k \in 1 .. n /\ place(k) = k
          BY <1>1, <2>2, <3>1
        <4> QED
          BY <4>1
      <3>2. CASE k > at
        <4>1. k - 1 \in 1 .. n /\ place(k - 1) = k
          BY <1>1, <2>2, <3>2
        <4> QED
          BY <4>1
      <3> QED
        BY <1>1, <2>2, <3>1, <3>2
    <2> HIDE DEF place
    <2>7. q \in [1 .. n -> Owned]
      BY <1>1, <2>4 DEF Memory
    <2>8. q \in Seq(Owned) /\ Len(q) = n
      BY <2>2, <2>7
    <2>9. \A i \in 1 .. n : q[i] = observed[place(i)]
      OBVIOUS
    <2> HIDE DEF q
    <2>10. \A i \in 1 .. n : /\ ~SameCoordinate(s, q[i])
                             /\ \E k \in DOMAIN observed : q[i] = observed[k]
      <3> SUFFICES ASSUME NEW i \in 1 .. n
                   PROVE  /\ ~SameCoordinate(s, observed[place(i)])
                          /\ place(i) \in DOMAIN observed
        BY <2>9
      <3>1. SameCoordinate(s, observed[place(i)])
               => SameCoordinate(observed[at], observed[place(i)])
        BY <2>2 DEF SameCoordinate
      <3> QED
        BY <1>1, <2>2, <2>4, <3>1 DEF Memory
    <2>11. \A i, j \in 1 .. n : /\ SameCoordinate(q[i], q[j]) => i = j
                                /\ i <= j => q[i].gen <= q[j].gen
      BY <1>1, <2>4, <2>5, <2>9 DEF Memory
    <2>12. \A k \in DOMAIN observed : ~SameCoordinate(s, observed[k]) =>
              \E i \in 1 .. n : q[i] = observed[k]
      BY <1>1, <2>2, <2>6, <2>9
    <2>13. n <= MaxObserved
      BY <1>1, MaxObservedIsPositive DEF Memory
    <2> QED
      BY <2>3, <2>8, <2>10, <2>11, <2>12, <2>13
  <1> QED
    BY <1>2, <1>3

LEMMA GenerationsAreNatural == \A t \in Owned : t.gen \in Nat
  BY MaxGenerationsIsNatural DEF Owned

(* The scope is added as the last one; at most the oldest other one goes.    *)
LEMMA RememberedKept ==
    ASSUME Memory, NEW s \in Owned, NEW g \in Nat, generation \in Nat,
           generation <= g, s.gen = g
    PROVE  LET r == Remembered(s) IN
           /\ r \in Seq(Owned) /\ Len(r) <= MaxObserved
           /\ \A i, j \in DOMAIN r : SameCoordinate(r[i], r[j]) => i = j
           /\ \A i, j \in DOMAIN r : i <= j => r[i].gen <= r[j].gen
           /\ \A i \in DOMAIN r : r[i].gen <= g
           /\ \E i \in DOMAIN r : r[i] = s
           /\ \A k \in DOMAIN observed : ~SameCoordinate(s, observed[k]) =>
                 \/ \E i \in DOMAIN r : r[i] = observed[k]
                 \/ Len(Others(s)) = MaxObserved /\ observed[k] = Others(s)[1]
  <1> DEFINE q == Others(s)
             kept == IF Len(q) < MaxObserved THEN q ELSE Tail(q)
             d == IF Len(q) < MaxObserved THEN 0 ELSE 1
             r == Append(kept, s)
             m == Len(kept)
  <1>1. /\ q \in Seq(Owned) /\ Len(q) <= MaxObserved /\ Len(q) \in Nat
        /\ \A i \in 1 .. Len(q) : ~SameCoordinate(s, q[i]) /\ q[i].gen <= g
        /\ \A i, j \in 1 .. Len(q) : /\ SameCoordinate(q[i], q[j]) => i = j
                                     /\ i <= j => q[i].gen <= q[j].gen
        /\ \A k \in DOMAIN observed : ~SameCoordinate(s, observed[k]) =>
              \E i \in 1 .. Len(q) : q[i] = observed[k]
    <2>1. \A k \in DOMAIN observed : observed[k].gen <= g
      <3> SUFFICES ASSUME NEW k \in DOMAIN observed
                   PROVE  observed[k].gen <= g
        OBVIOUS
      <3>1. observed[k] \in Owned /\ observed[k].gen <= generation
        BY DEF Memory
      <3>2. observed[k].gen \in Nat
        BY <3>1, GenerationsAreNatural
      <3> QED
        BY <3>1, <3>2
    <2> QED
      BY <2>1, OthersKept
  <1>2. Remembered(s) = r
    BY DEF Remembered
  <1> HIDE DEF q
  <1>3. /\ kept \in Seq(Owned) /\ m \in Nat /\ m < MaxObserved /\ m = Len(q) - d /\ d \in {0, 1}
        /\ \A i \in 1 .. m : kept[i] = q[i + d] /\ i + d \in 1 .. Len(q)
        /\ d = 1 => Len(q) = MaxObserved
    BY <1>1, MaxObservedIsPositive
  <1>4. \A i \in 1 .. Len(q) : (\E j \in 1 .. m : j + d = i) \/ (d = 1 /\ i = 1)
    <2> SUFFICES ASSUME NEW i \in 1 .. Len(q), ~(d = 1 /\ i = 1)
                 PROVE  i - d \in 1 .. m /\ (i - d) + d = i
      OBVIOUS
    <2> QED
      BY <1>1, <1>3
  <1> HIDE DEF kept, d
  <1>5. /\ r \in Seq(Owned) /\ Len(r) = m + 1 /\ DOMAIN r = 1 .. m + 1 /\ r[m + 1] = s
        /\ \A i \in 1 .. m : r[i] = q[i + d]
    BY <1>3
  <1> HIDE DEF r, m
  <1>6. \A i, j \in 1 .. m + 1 : SameCoordinate(r[i], r[j]) => i = j
    <2> SUFFICES ASSUME NEW i \in 1 .. m + 1, NEW j \in 1 .. m + 1, SameCoordinate(r[i], r[j])
                 PROVE  i = j
      OBVIOUS
    <2>1. CASE i \in 1 .. m /\ j \in 1 .. m
      BY <1>1, <1>3, <1>5, <2>1
    <2>2. \A k \in 1 .. m : ~SameCoordinate(s, r[k]) /\ ~SameCoordinate(r[k], s)
      BY <1>1, <1>3, <1>5 DEF SameCoordinate
    <2>3. CASE i \in 1 .. m /\ j = m + 1
      BY <1>5, <2>2, <2>3
    <2>4. CASE i = m + 1 /\ j \in 1 .. m
      BY <1>5, <2>2, <2>4
    <2>5. m \in Nat
      BY <1>3
    <2>6. (i \in 1 .. m \/ i = m + 1) /\ (j \in 1 .. m \/ j = m + 1)
      BY <2>5
    <2> QED
      BY <2>1, <2>3, <2>4, <2>6
  <1>7. \A i \in 1 .. m + 1 : r[i].gen <= g
    BY <1>1, <1>3, <1>5
  <1>8. \A i, j \in 1 .. m + 1 : i <= j => r[i].gen <= r[j].gen
    <2> SUFFICES ASSUME NEW i \in 1 .. m + 1, NEW j \in 1 .. m + 1, i <= j
                 PROVE  r[i].gen <= r[j].gen
      OBVIOUS
    <2>1. CASE j = m + 1
      BY <1>5, <1>7, <2>1
    <2>2. CASE j # m + 1
      <3>1. i \in 1 .. m /\ j \in 1 .. m /\ i + d <= j + d
        BY <1>3, <2>2
      <3> QED
        BY <1>1, <1>3, <1>5, <3>1
    <2> QED
      BY <2>1, <2>2
  <1>9. ASSUME NEW k \in DOMAIN observed, ~SameCoordinate(s, observed[k])
        PROVE  \/ \E i \in 1 .. m + 1 : r[i] = observed[k]
               \/ Len(q) = MaxObserved /\ observed[k] = q[1]
    <2>1. PICK i \in 1 .. Len(q) : q[i] = observed[k]
      BY <1>1, <1>9
    <2>2. CASE d = 1 /\ i = 1
      BY <1>3, <2>1, <2>2
    <2>3. ASSUME NEW j \in 1 .. m, j + d = i PROVE \E l \in 1 .. m + 1 : r[l] = observed[k]
      BY <1>3, <1>5, <2>1, <2>3
    <2> QED
      BY <1>4, <2>2, <2>3
  <1>10. Len(r) <= MaxObserved /\ m + 1 \in 1 .. m + 1
    BY <1>3, <1>5, MaxObservedIsPositive
  <1> QED
    BY <1>2, <1>5, <1>6, <1>7, <1>8, <1>9, <1>10 DEF q

(* What MakeScope does, for one hook that comes.                             *)
Scoping(c, conf, s, made) ==
    /\ turn = None /\ call[c] = "idle" /\ ~stopped
    /\ s \in Owned
    /\ s.gen = generation' /\ generation' \in Nat /\ generation <= generation'
    /\ config' = IF Changed(conf) THEN conf ELSE config
    /\ Changed(conf) \/ generation' = generation
    /\ observed' = IF made THEN Remembered(s) ELSE observed
    /\ turn' = [caller |-> c, scope |-> s, made |-> made]
    /\ IF Changed(conf) /\ config # None THEN InvalidateAll
       ELSE IF made /\ Superseded(s) # {}
       THEN \E t \in Superseded(s) : Invalidate(t)
       ELSE UNCHANGED vars

LEMMA MakingScopes ==
    ASSUME Turns, NEW c \in Callers, MakeScope(c)
    PROVE  \E conf \in Configs, s \in Owned, made \in BOOLEAN : Scoping(c, conf, s, made)
  <1>1. PICK conf \in Configs, coord \in Coordinates, env \in Environments, made \in BOOLEAN :
           LET changed == Changed(conf)
               gen == IF changed THEN generation + 1 ELSE generation
               s == [gen |-> gen, coord |-> coord, env |-> env]
           IN  /\ gen <= MaxGenerations
               /\ generation' = gen
               /\ config' = IF changed THEN conf ELSE config
               /\ observed' = IF made THEN Remembered(s) ELSE observed
               /\ turn' = [caller |-> c, scope |-> s, made |-> made]
               /\ IF changed /\ config # None THEN InvalidateAll
                  ELSE IF made /\ Superseded(s) # {}
                  THEN \E t \in Superseded(s) : Invalidate(t)
                  ELSE UNCHANGED vars
    BY DEF MakeScope
  <1> DEFINE s == [gen |-> generation', coord |-> coord, env |-> env]
  <1>2. /\ s \in Owned /\ s.gen = generation' /\ generation' \in Nat
        /\ generation <= generation' /\ (Changed(conf) \/ generation' = generation)
    BY <1>1, ScopesAreOwned DEF Turns
  <1>3. turn = None /\ call[c] = "idle" /\ ~stopped
    BY DEF MakeScope
  <1>4. Scoping(c, conf, s, made)
    BY <1>1, <1>2, <1>3 DEF Scoping
  <1> QED
    BY <1>2, <1>4

LEMMA MemoryInductive == Turns /\ Memory /\ [OwnerNext]_allVars => Memory'
  <1> SUFFICES ASSUME Turns, Memory, [OwnerNext]_allVars PROVE Memory'
    OBVIOUS
  <1>1. ASSUME UNCHANGED <<generation, observed>> PROVE Memory'
    BY <1>1 DEF Memory, SameCoordinate
  <1>2. ASSUME NEW c \in Callers, MakeScope(c) PROVE Memory'
    <2>1. PICK conf \in Configs, s \in Owned, made \in BOOLEAN : Scoping(c, conf, s, made)
      BY <1>2, MakingScopes
    <2>2. generation \in Nat
      BY DEF Turns
    <2>3. CASE made
      <3>1. observed' = Remembered(s)
        BY <2>1, <2>3 DEF Scoping
      <3> QED
        BY <2>1, <2>2, <3>1, RememberedKept DEF Memory, Scoping, SameCoordinate
    <2>4. CASE ~made
      <3>1. /\ UNCHANGED observed /\ generation <= generation'
            /\ generation' \in Nat
        BY <2>1, <2>4 DEF Scoping
      <3>2. ASSUME NEW i \in DOMAIN observed PROVE observed[i].gen <= generation'
        <4>1. observed[i] \in Owned /\ observed[i].gen <= generation
          BY DEF Memory
        <4>2. observed[i].gen \in Nat
          BY <4>1, GenerationsAreNatural
        <4> QED
          BY <2>2, <3>1, <4>1, <4>2
      <3> QED
        BY <3>1, <3>2 DEF Memory, SameCoordinate
    <2> QED
      BY <2>3, <2>4
  <1>3. CASE OwnerStops
    BY <1>3, MaxObservedIsPositive DEF OwnerStops, Memory
  <1> QED
    BY <1>1, <1>2, <1>3 DEF OwnerNext, Models, InventoryStep, ownerVars, allVars

LEMMA MemoryInit == OwnerInit => Memory
  BY MaxObservedIsPositive DEF OwnerInit, Memory

(* OwnerTypeOK: the inventory under the owner stays well-formed, and no      *)
(* coordinate is remembered twice, however the hooks at it come and change   *)
(* their environment (scope, inventory-scope.ts).                            *)
THEOREM OwnerTypes == OwnerSpec => []OwnerTypeOK
  <1>1. OwnerInit => Turns /\ Memory
    BY TurnsInit, MemoryInit
  <1>2. Turns /\ Memory /\ [OwnerNext]_allVars => Turns' /\ Memory'
    BY TurnsInductive, MemoryInductive
  <1>3. OwnerSpec => []TypeOK
    BY OwnerUsesInventory, TypeCorrect, PTL
  <1>4. TypeOK /\ Turns /\ Memory => OwnerTypeOK
    BY MaxGenerationsIsNatural DEF Turns, Memory, OwnerTypeOK
  <1> QED
    BY <1>1, <1>2, <1>3, <1>4, PTL DEF OwnerSpec

-----------------------------------------------------------------------------
(***************************************************************************)
(* Who waits, waits for a scope that the owner remembers: that is where the  *)
(* next hook at the coordinate finds it when the environment has changed.    *)
(***************************************************************************)
Known(t) == \E i \in DOMAIN observed : observed[i] = t

WaitersKnown ==
    /\ \A c \in Callers : call[c] = "waiting" /\ scope[c] \in Owned => Known(scope[c])
    /\ turn # None /\ turn.made => Known(turn.scope)

(* Forgetting the oldest scope takes one of an earlier configuration, unless *)
(* there are more coordinates than the owner remembers.                      *)
LEMMA LatestNotForgotten ==
    ASSUME IsFiniteSet(Coordinates), Cardinality(Coordinates) <= MaxObserved,
           Memory, generation \in Nat, NEW s \in Owned, s.gen = generation,
           Len(Others(s)) = MaxObserved, Others(s)[1].gen = generation
    PROVE  FALSE
  <1> DEFINE q == Others(s)
             at == [i \in 1 .. MaxObserved |-> q[i].coord]
             left == Coordinates \ {s.coord}
  <1>1. \A i \in 1 .. MaxObserved : q[i] \in Owned /\ q[i].gen = generation
    <2> SUFFICES ASSUME NEW i \in 1 .. MaxObserved
                 PROVE  q[i] \in Owned /\ q[i].gen = generation
      OBVIOUS
    <2>1. q \in Seq(Owned) /\ Len(q) = MaxObserved /\ 1 \in 1 .. Len(q) /\ 1 <= i
      BY OthersKept, MaxObservedIsPositive
    <2>2. q[i] \in Owned
      BY <2>1
    <2>3. generation <= q[i].gen
      BY <2>1, OthersKept
    <2>4. PICK k \in DOMAIN observed : q[i] = observed[k]
      BY <2>1, OthersKept
    <2>5. q[i].gen <= generation
      BY <2>4 DEF Memory
    <2>6. q[i].gen \in Nat
      BY <2>2, GenerationsAreNatural
    <2> QED
      BY <2>2, <2>3, <2>5, <2>6
  <1>2. at \in [1 .. MaxObserved -> left]
    <2> SUFFICES ASSUME NEW i \in 1 .. MaxObserved PROVE q[i].coord \in left
      OBVIOUS
    <2>1. ~SameCoordinate(s, q[i])
      BY OthersKept
    <2> QED
      BY <1>1, <2>1 DEF SameCoordinate, Owned
  <1>3. \A i, j \in 1 .. MaxObserved : at[i] = at[j] => i = j
    <2> SUFFICES ASSUME NEW i \in 1 .. MaxObserved, NEW j \in 1 .. MaxObserved,
                        q[i].coord = q[j].coord
                 PROVE  i = j
      OBVIOUS
    <2>1. SameCoordinate(q[i], q[j])
      BY <1>1 DEF SameCoordinate
    <2> QED
      BY <2>1, OthersKept
  <1>4. at \in Injection(1 .. MaxObserved, left)
    BY <1>2, <1>3 DEF Injection, IsInjective
  <1>5. s.coord \in Coordinates
    BY DEF Owned
  <1>6. /\ IsFiniteSet(left) /\ Cardinality(left) = Cardinality(Coordinates) - 1
        /\ Cardinality(Coordinates) \in Nat
    BY <1>5, FS_RemoveElement, FS_CardinalityType
  <1>7. IsFiniteSet(1 .. MaxObserved) /\ Cardinality(1 .. MaxObserved) = MaxObserved
    BY MaxObservedIsPositive, FS_Interval
  <1> HIDE DEF at, left
  <1>8. Cardinality(1 .. MaxObserved) <= Cardinality(left)
    BY <1>4, <1>6, FS_Injection
  <1> QED
    BY <1>6, <1>7, <1>8, MaxObservedIsPositive

LEMMA ScopeInvalidationEmpties ==
    ASSUME Safe, NEW t \in Authorities, Invalidate(t), NEW c \in Callers,
           call[c] = "waiting", scope[c] = t
    PROVE  call'[c] # "waiting"
  <1> DEFINE gone == {inflight[au] : au \in {t} \cap entries} \ {None}
  <1>1. t \in entries /\ inflight[t] # None /\ c \in waiters[inflight[t]]
    BY DEF Safe, Core, Waiting, Places
  <1>2. c \in UNION {waiters[p] : p \in gone}
    BY <1>1
  <1>3. Rejected(UNION {waiters[p] : p \in gone})
    BY DEF Invalidate, Invalidated
  <1> QED
    BY <1>2, <1>3 DEF Rejected

LEMMA ScopingKnows ==
    ASSUME IsFiniteSet(Coordinates), Cardinality(Coordinates) <= MaxObserved,
           Safe, Turns, Memory, WaitsForConfiguration, WaitersKnown,
           NEW c \in Callers, MakeScope(c), Quieter
    PROVE  WaitersKnown'
  <1>1. PICK conf \in Configs, s \in Owned, made \in BOOLEAN : Scoping(c, conf, s, made)
    BY MakingScopes
  <1>2. ASSUME made PROVE Known(s)'
    BY <1>1, <1>2, RememberedKept DEF Scoping, Known, Turns
  <1>3. turn' # None /\ turn'.made => Known(turn.scope)'
    BY <1>1, <1>2 DEF Scoping, Known
  <1>4. ASSUME NEW d \in Callers, call'[d] = "waiting", scope'[d] \in Owned
        PROVE  Known(scope[d])' /\ scope'[d] = scope[d]
    <2> DEFINE t == scope[d]
    <2>1. call[d] = "waiting" /\ scope'[d] = t /\ t \in Owned
      BY <1>4 DEF Quieter
    <2>2. t.gen = generation /\ config # None /\ Known(t)
      BY <2>1 DEF WaitsForConfiguration, WaitersKnown
    <2>3. ~InvalidateAll
      BY <1>4, InvalidationEmpties DEF InvalidateAll
    <2>4. /\ ~Changed(conf) /\ s.gen = generation
          /\ made /\ Superseded(s) # {} => \E u \in Superseded(s) : Invalidate(u)
      BY <1>1, <2>2, <2>3 DEF Scoping
    <2>5. PICK k \in DOMAIN observed : observed[k] = t
      BY <2>2 DEF Known
    <2>6. CASE ~made
      BY <1>1, <2>1, <2>2, <2>6 DEF Scoping, Known
    <2>7. CASE made /\ t = s
      BY <1>2, <2>1, <2>7
    <2>8. CASE made /\ SameCoordinate(s, t) /\ t # s
      <3>1. t.env # s.env
        BY <2>1, <2>8 DEF SameCoordinate, Owned
      <3>2. t \in Superseded(s)
        BY <2>1, <2>5, <2>8, <3>1 DEF Superseded
      <3>3. PICK u \in Superseded(s) : Invalidate(u)
        BY <2>4, <2>8, <3>2
      <3>4. u = t
        BY <2>5, <2>8, <3>3 DEF Superseded, SameCoordinate, Memory
      <3> QED
        BY <1>4, <2>1, <3>3, <3>4, ScopeInvalidationEmpties, AuthoritiesAreScopes
    <2>9. CASE made /\ ~SameCoordinate(s, t)
      <3>1. ~(Len(Others(s)) = MaxObserved /\ t = Others(s)[1])
        BY <2>2, <2>4, LatestNotForgotten DEF Turns
      <3>2. observed' = Remembered(s)
        BY <1>1, <2>9 DEF Scoping
      <3>3. \E i \in DOMAIN Remembered(s) : Remembered(s)[i] = t
        BY <2>4, <2>5, <2>9, <3>1, RememberedKept DEF Turns
      <3> QED
        BY <2>1, <3>2, <3>3 DEF Known
    <2> QED
      BY <2>6, <2>7, <2>8, <2>9
  <1> QED
    BY <1>3, <1>4 DEF WaitersKnown

LEMMA WaitersKnownInductive ==
    ASSUME IsFiniteSet(Coordinates), Cardinality(Coordinates) <= MaxObserved,
           Safe, Turns, Memory, WaitsForConfiguration, WaitersKnown, [OwnerNext]_allVars
    PROVE  WaitersKnown'
  <1>1. ASSUME NEW c \in Callers, MakeScope(c) PROVE WaitersKnown'
    <2>1. ASSUME NEW aus, Invalidated(aus) PROVE Quieter
      BY <2>1, InvalidationQuietens
    <2>2. ASSUME UNCHANGED vars PROVE Quieter
      BY <2>2 DEF vars, callVars, Quieter
    <2>3. Quieter
      BY <1>1, <2>1, <2>2, ScopesInvalidate DEF Invalidate, InvalidateAll
    <2> QED
      BY <1>1, <2>3, ScopingKnows
  <1>2. CASE Models
    <2>1. /\ UNCHANGED observed /\ turn' = None
          /\ \A c \in Callers : call'[c] = "waiting" /\ scope'[c] \in Owned =>
                \/ call[c] = "waiting" /\ scope'[c] = scope[c]
                \/ turn.made /\ turn # None /\ scope'[c] = turn.scope
      BY <1>2, OwnedWaiters DEF Models
    <2> QED
      BY <2>1 DEF WaitersKnown, Known
  <1>3. CASE turn = None /\ OwnerStops
    <2>1. \A c \in Callers : call'[c] # "waiting"
      BY <1>3, InvalidationEmpties DEF OwnerStops, Stop
    <2> QED
      BY <1>3, <2>1 DEF OwnerStops, WaitersKnown
  <1>4. CASE UNCHANGED ownerVars /\ ~Models
    BY <1>4, OwnedWaiters DEF ownerVars, WaitersKnown, Known
  <1> QED
    BY <1>1, <1>2, <1>3, <1>4 DEF OwnerNext, InventoryStep, allVars

(* WaitsForLatest: no hook waits for models of an environment that a later   *)
(* hook at its coordinate has replaced, as long as the owner remembers as    *)
(* many scopes as there are coordinates (it remembers 64): only then has the *)
(* scope that scope() must retire not been forgotten.                        *)
THEOREM LatestEnvironment ==
    ASSUME IsFiniteSet(Coordinates), Cardinality(Coordinates) <= MaxObserved
    PROVE  OwnerSpec => []WaitsForLatest
  <1> DEFINE Inv == Turns /\ Memory /\ WaitsForConfiguration /\ WaitersKnown
  <1>1. OwnerInit => Inv
    BY TurnsInit, MemoryInit DEF OwnerInit, Init, WaitsForConfiguration, WaitersKnown
  <1>2. Safe /\ Inv /\ [OwnerNext]_allVars => Inv'
    BY TurnsInductive, MemoryInductive, ConfigurationInductive, WaitersKnownInductive
  <1>3. Inv => WaitsForLatest
    <2> SUFFICES ASSUME Inv, NEW c \in Callers, call[c] = "waiting", scope[c] \in Owned,
                        NEW i \in DOMAIN observed, SameCoordinate(observed[i], scope[c])
                 PROVE  observed[i] = scope[c]
      BY DEF WaitsForLatest, WaitsForConfiguration
    <2>1. PICK k \in DOMAIN observed : observed[k] = scope[c]
      BY DEF WaitersKnown, Known
    <2> QED
      BY <2>1 DEF Memory
  <1>4. OwnerSpec => []Safe
    BY OwnerUsesInventory, SafeInductive, PTL
  <1> HIDE DEF Inv
  <1> QED
    BY <1>1, <1>2, <1>3, <1>4, PTL DEF OwnerSpec
=============================================================================
