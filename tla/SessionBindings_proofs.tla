----------------------- MODULE SessionBindings_proofs -----------------------
(***************************************************************************)
(* What holds of the session binding protocol for every set of attempts,     *)
(* resets, routes and revisions, and however often the host interferes.      *)
(***************************************************************************)
EXTENDS SessionBindings, TLAPS

-----------------------------------------------------------------------------
(* What the update callbacks return is an envelope again, and a well-formed  *)
(* one when the row they were given was.                                     *)

LEMMA ClaimedEnvelope ==
    ASSUME NEW x \in Rows, NEW a \in Attempts, NEW m \in Routes
    PROVE  /\ Claimed(x, a, m) \in Envelopes
           /\ MayClaim(x, m) => WellFormed(Claimed(x, a, m))
           /\ MayClaim(x, m) => Claimed(x, a, m).active = [token |-> a, route |-> m]
           /\ MayClaim(x, m) => ~Claimed(x, a, m).pending
           /\ Claimed(x, a, m).epoch = IF x.env = None THEN a ELSE x.env.epoch
  <1> DEFINE c == [token |-> a, route |-> m]
  <1>0. c \in Claims /\ c # None
    BY NoneIsNothing DEF Claims
  <1>1. CASE x.env = None
    BY <1>0, <1>1, NoneIsNothing
    DEF Claimed, MayClaim, WellFormed, BindingMatches, ClaimMatches, SettledMatches,
        Rows, Envelopes, Epochs
  <1>2. CASE x.env # None
    <2>1. x.env \in Envelopes
      BY <1>2 DEF Rows
    <2>2. Claimed(x, a, m) = [x.env EXCEPT !.settled = None, !.active = c]
      BY <1>2 DEF Claimed
    <2>3. Claimed(x, a, m) = [epoch |-> x.env.epoch, rev |-> x.env.rev,
                              binding |-> x.env.binding, active |-> c,
                              settled |-> None, pending |-> x.env.pending]
      BY <2>1, <2>2 DEF Envelopes
    <2> HIDE DEF c
    <2>4. Claimed(x, a, m) \in Envelopes
      BY <1>0, <2>1, <2>3 DEF Envelopes
    <2>5. ASSUME MayClaim(x, m)
          PROVE  WellFormed(Claimed(x, a, m)) /\ ~x.env.pending
      BY <1>2, <2>1, <2>3, <2>5
      DEF MayClaim, Resolvable, Parses, WellFormed, BindingMatches, ClaimMatches,
          SettledMatches, c
    <2> QED
      BY <1>2, <2>3, <2>4, <2>5 DEF c
  <1> QED
    BY <1>1, <1>2

LEMMA BoundEnvelope ==
    ASSUME NEW x \in Rows, NEW a \in Attempts, NEW m \in Routes, NEW l,
           HoldsClaim(x, l, a, m)
    PROVE  /\ x.env \in Envelopes
           /\ Bound(x, l, a, m) \in Envelopes
           /\ WellFormed(Bound(x, l, a, m))
           /\ Bound(x, l, a, m).active = x.env.active
           /\ Bound(x, l, a, m).epoch = x.env.epoch
           /\ Bound(x, l, a, m).pending = x.env.pending
  <1>1. /\ x.env \in Envelopes /\ x.env # None /\ WellFormed(x.env) /\ ~x.env.pending
        /\ x.env.epoch = l.epoch /\ x.env.rev = l.rev
        /\ x.env.active = [token |-> a, route |-> m]
    BY DEF HoldsClaim, Parses, Rows
  <1>2. CASE x.env.binding # None
    BY <1>1, <1>2 DEF Bound
  <1>3. CASE x.env.binding = None
    <2> DEFINE b == [epoch |-> l.epoch, rev |-> l.rev, conv |-> a, route |-> m]
    <2>1. b \in Bindings /\ b # None
      BY <1>1, NoneIsNothing DEF Bindings, Envelopes, Conversations
    <2>2. x.env.active # None /\ x.env.settled = None
      BY <1>1, NoneIsNothing DEF WellFormed, SettledMatches, Claims
    <2>3. Bound(x, l, a, m) = [epoch |-> x.env.epoch, rev |-> x.env.rev,
                               binding |-> b, active |-> x.env.active,
                               settled |-> x.env.settled, pending |-> x.env.pending]
      BY <1>1, <1>3 DEF Bound, Envelopes
    <2>4. b.epoch = x.env.epoch /\ b.rev = x.env.rev /\ b.route = x.env.active.route
      BY <1>1
    <2> HIDE DEF b
    <2>5. Bound(x, l, a, m) \in Envelopes
      BY <1>1, <2>1, <2>3 DEF Envelopes
    <2>6. WellFormed(Bound(x, l, a, m))
      BY <1>1, <2>2, <2>3, <2>4
      DEF WellFormed, BindingMatches, ClaimMatches, SettledMatches
    <2> QED
      BY <1>1, <2>3, <2>5, <2>6
  <1> QED
    BY <1>2, <1>3

LEMMA EndedEnvelope ==
    ASSUME NEW x \in Rows, NEW a \in Attempts, NEW m \in Routes, NEW l
    PROVE  /\ Ended(x, l, a, m) \in Envelopes \cup {None}
           /\ ~OwnsEnd(x, l, a) => Ended(x, l, a, m) = x.env
           /\ OwnsEnd(x, l, a) => /\ x.env # None
                                  /\ Ended(x, l, a, m) # None
                                  /\ Ended(x, l, a, m).active = None
                                  /\ Ended(x, l, a, m).epoch = x.env.epoch
                                  /\ Ended(x, l, a, m).pending = x.env.pending
           /\ OwnsEnd(x, l, a) /\ WellFormed(x.env) /\ x.env.active.route = m
                 => WellFormed(Ended(x, l, a, m))
  <1>1. CASE ~OwnsEnd(x, l, a)
    BY <1>1 DEF Ended, Rows
  <1>2. CASE OwnsEnd(x, l, a)
    <2> DEFINE s == [token |-> a, route |-> m, conv |-> ConvOf(x.env.binding)]
    <2>1. x.env \in Envelopes /\ x.env # None /\ x.env.active # None
      BY <1>2 DEF OwnsEnd, Rows
    <2>2. s \in Settled /\ s # None
      BY <2>1, NoneIsNothing DEF Settled, ConvOf, Envelopes, Bindings
    <2>3. Ended(x, l, a, m) = [epoch |-> x.env.epoch, rev |-> x.env.rev,
                               binding |-> x.env.binding, active |-> None,
                               settled |-> s, pending |-> x.env.pending]
      BY <1>2, <2>1 DEF Ended, Envelopes
    <2>4. s.conv = ConvOf(x.env.binding) /\ s.route = m
      OBVIOUS
    <2> HIDE DEF s
    <2>5. Ended(x, l, a, m) \in Envelopes
      BY <2>1, <2>2, <2>3 DEF Envelopes
    <2>6. ASSUME WellFormed(x.env), x.env.active.route = m
          PROVE  WellFormed(Ended(x, l, a, m))
      BY <2>1, <2>3, <2>4, <2>6
      DEF WellFormed, BindingMatches, ClaimMatches, SettledMatches
    <2> QED
      BY <1>2, <2>1, <2>3, <2>5, <2>6, NoneIsNothing
  <1> QED
    BY <1>1, <1>2

LEMMA RetiredEnvelope ==
    ASSUME NEW x \in Rows, NEW r \in Resets
    PROVE  /\ Retired(x, r) \in Envelopes
           /\ WellFormed(Retired(x, r))
           /\ Retired(x, r).pending
           /\ Retired(x, r).active = None
           /\ Retired(x, r).epoch = r
  <1> DEFINE kept == IF Parses(x) THEN StoredBinding(x) ELSE None
             b == IF kept = None THEN None ELSE [kept EXCEPT !.epoch = r]
  <1>1. Retired(x, r) = [epoch |-> r, rev |-> x.rev, binding |-> b,
                         active |-> None, settled |-> None, pending |-> TRUE]
    BY DEF Retired
  <1>2. kept # None => kept \in Bindings /\ kept.rev = x.rev
    BY DEF StoredBinding, Parses, WellFormed, BindingMatches, Rows, Envelopes
  <1>3. b # None => b \in Bindings /\ b.rev = x.rev /\ b.epoch = r
    BY <1>2 DEF Bindings, Epochs
  <1> HIDE DEF b
  <1>4. Retired(x, r) \in Envelopes
    BY <1>1, <1>3 DEF Envelopes, Rows, Epochs
  <1> QED
    BY <1>1, <1>3, <1>4 DEF WellFormed, BindingMatches, ClaimMatches, SettledMatches

LEMMA ClearedEnvelope ==
    ASSUME NEW x \in Rows, NEW r \in Resets, MayClear(x, r)
    PROVE  /\ Cleared(x) \in Envelopes
           /\ WellFormed(Cleared(x))
           /\ ~Cleared(x).pending
           /\ Cleared(x).active = None
           /\ Cleared(x).epoch = x.env.epoch
  <1>1. /\ x.env \in Envelopes /\ x.env.pending /\ WellFormed(x.env)
        /\ x.env.active = None /\ x.env.settled = None
    BY DEF MayClear, Parses, Rows, WellFormed, ClaimMatches, SettledMatches
  <1>2. Cleared(x) = [epoch |-> x.env.epoch, rev |-> x.env.rev, binding |-> None,
                      active |-> None, settled |-> None, pending |-> FALSE]
    <2> DEFINE e == x.env
               no == FALSE
    <2>1. e \in Envelopes /\ e.active = None /\ e.settled = None /\ no \in BOOLEAN
      BY <1>1
    <2>2. Cleared(x) = [e EXCEPT !.binding = None, !.pending = no]
      BY DEF Cleared
    <2> HIDE DEF e, no
    <2>3. Cleared(x) = [epoch |-> e.epoch, rev |-> e.rev, binding |-> None,
                        active |-> e.active, settled |-> e.settled, pending |-> no]
      BY <2>1, <2>2 DEF Envelopes
    <2> QED
      BY <2>1, <2>3 DEF e, no
  <1>3. Cleared(x) \in Envelopes
    BY <1>1, <1>2 DEF Envelopes
  <1>4. WellFormed(Cleared(x))
    BY <1>2 DEF WellFormed, BindingMatches, ClaimMatches, SettledMatches
  <1> QED
    BY <1>2, <1>3, <1>4

-----------------------------------------------------------------------------
(***************************************************************************)
(* The inductive invariant, in named parts.                                  *)
(***************************************************************************)

(* A claim in the row was made on the route of the attempt it names.         *)
ClaimRoutes ==
    row.env # None /\ row.env.active # None =>
        row.env.active.route = route[row.env.active.token]

(* A claim in flight was prepared on a snapshot that admits it, and a clear  *)
(* in flight on a snapshot that carries its own tombstone.                   *)
Prepared ==
    /\ \A a \in Attempts :
          pc[a] \in {"claiming", "claimed"} =>
             base[a] \in Rows /\ MayClaim(base[a], route[a])
    /\ \A r \in Resets :
          rpc[r] = "clearing" => rbase[r] \in Rows /\ MayClear(rbase[r], r)

(* The native process of an attempt starts only at its spawn, and one whose  *)
(* termination is confirmed at settlement is not running.                    *)
NativePhases ==
    \A a \in Attempts :
        /\ pc[a] \in {"idle", "resolved", "claiming", "claimed", "leased", "launching"}
              => native[a] = "none"
        /\ pc[a] = "settling" => clean[a]
        /\ pc[a] \in {"closing", "settling"} /\ clean[a] => native[a] # "running"

(* While the host keeps the row, a native process at work is covered by the  *)
(* claim of its attempt or by the tombstone of a reset under way.            *)
Covered(a) ==
    /\ row.env # None
    /\ \/ row.env.pending
       \/ row.env.active # None /\ row.env.active.token = a

DrivingCovered == recreated = 0 => \A a \in Attempts : Driving(a) => Covered(a)

(* Once its drain is done, a reset whose tombstone stands has nothing left   *)
(* running under it: no new process passes its last fence.                   *)
DrainHolds ==
    \A r \in Resets :
        /\ rpc[r] \in {"drained", "clearing"}
        /\ row.env # None
        /\ row.env.pending
        /\ row.env.epoch = r
        => Drained

IInv ==
    /\ TypeOK
    /\ EnvelopeWellFormed
    /\ ClaimRoutes
    /\ Prepared
    /\ NativePhases
    /\ DrivingCovered
    /\ NativeExclusion
    /\ DrainHolds

-----------------------------------------------------------------------------
(* Storing an envelope in a row keeps the row's type.                        *)
LEMMA StoreType ==
    ASSUME NEW x \in Rows, NEW e \in Envelopes \cup {None}, TypeOK, StoreEnvelope(x, e)
    PROVE  row' \in Rows /\ row'.env = e /\ row'.rev = x.rev /\ gone' \in SUBSET Epochs
  <1>1. row' = [rev |-> x.rev, env |-> e]
    BY DEF StoreEnvelope, Store, Rows
  <1>2. row' \in Rows
    BY <1>1 DEF Rows
  <1>3. row.env # None => row.env.epoch \in Epochs
    BY DEF TypeOK, Rows, Envelopes
  <1> QED
    BY <1>1, <1>2, <1>3 DEF StoreEnvelope, Store, TypeOK

(* The lease built from a committed claim is a lease.                        *)
LEMMA LeaseType ==
    ASSUME TypeOK, Prepared, NEW a \in Attempts, pc[a] = "claimed"
    PROVE  LeaseOf(a) \in Leases
  <1>1. base[a] \in Rows /\ route[a] \in Routes
    BY DEF Prepared, TypeOK
  <1>2. Claimed(base[a], a, route[a]) \in Envelopes
    BY <1>1, ClaimedEnvelope
  <1> QED
    BY <1>2 DEF LeaseOf, Leases, Envelopes

(* Every step keeps every variable in its type.                              *)
LEMMA TypeStep ==
    ASSUME TypeOK, Prepared, [Next]_vars
    PROVE  TypeOK'
  <1> USE DEF TypeOK, Goto, RGoto, attemptVars, resetVars, hostVars
  <1>1. ASSUME NEW a \in Attempts, Resolve(a) PROVE TypeOK'
    <2>1. StoredBinding(row) \in Bindings \cup {None}
      BY DEF StoredBinding, Rows, Envelopes
    <2> QED
      BY <1>1, <2>1 DEF Resolve, AttemptStates, Settling, Final
  <1>2. ASSUME NEW a \in Attempts, ClaimPrepare(a) PROVE TypeOK'
    BY <1>2 DEF ClaimPrepare, AttemptStates, Settling, Final
  <1>3. ASSUME NEW a \in Attempts, ClaimCommit(a) PROVE TypeOK'
    <2>1. base[a] \in Rows /\ route[a] \in Routes
      BY <1>3 DEF ClaimCommit, Unchanged
    <2>2. Claimed(base[a], a, route[a]) \in Envelopes \cup {None}
      BY <1>3, <2>1, ClaimedEnvelope DEF ClaimCommit, Unchanged
    <2>3. row' \in Rows /\ gone' \in SUBSET Epochs
      BY <1>3, <2>1, <2>2, StoreType DEF ClaimCommit
    <2> QED
      BY <1>3, <2>3 DEF ClaimCommit, AttemptStates, Settling, Final
  <1>4. ASSUME NEW a \in Attempts, ClaimLost(a) PROVE TypeOK'
    BY <1>4 DEF ClaimLost, AttemptStates, Settling, Final
  <1>5. ASSUME NEW a \in Attempts, ClaimReturn(a) PROVE TypeOK'
    <2>1. LeaseOf(a) \in Leases
      BY <1>5, LeaseType DEF ClaimReturn
    <2> QED
      BY <1>5, <2>1 DEF ClaimReturn, AttemptStates, Settling, Final
  <1>6. ASSUME NEW a \in Attempts, LaunchFence(a) PROVE TypeOK'
    BY <1>6 DEF LaunchFence, AttemptStates, Settling, Final
  <1>7. ASSUME NEW a \in Attempts, Spawn(a) PROVE TypeOK'
    BY <1>7 DEF Spawn, AttemptStates, Settling, Final
  <1>8. ASSUME NEW a \in Attempts, NotStarted(a) PROVE TypeOK'
    BY <1>8 DEF NotStarted, AttemptStates, Settling, Final
  <1>9. ASSUME NEW a \in Attempts, InitResumed(a) PROVE TypeOK'
    BY <1>9 DEF InitResumed, AttemptStates, Settling, Final
  <1>10. ASSUME NEW a \in Attempts, BindPrepare(a) PROVE TypeOK'
    BY <1>10 DEF BindPrepare, AttemptStates, Settling, Final
  <1>11. ASSUME NEW a \in Attempts, BindCommit(a) PROVE TypeOK'
    <2>1. base[a] \in Rows /\ route[a] \in Routes
      BY <1>11 DEF BindCommit, Unchanged
    <2>2. Bound(base[a], lease[a], a, route[a]) \in Envelopes \cup {None}
      BY <1>11, <2>1, BoundEnvelope DEF BindCommit, Unchanged, LeaseActive
    <2>3. row' \in Rows /\ gone' \in SUBSET Epochs
      BY <1>11, <2>1, <2>2, StoreType DEF BindCommit
    <2> QED
      BY <1>11, <2>3 DEF BindCommit, AttemptStates, Settling, Final
  <1>12. ASSUME NEW a \in Attempts, BindReturn(a) PROVE TypeOK'
    BY <1>12 DEF BindReturn, AttemptStates, Settling, Final
  <1>13. ASSUME NEW a \in Attempts, ProcessSettles(a) PROVE TypeOK'
    BY <1>13 DEF ProcessSettles, AttemptStates, Settling, Final
  <1>14. ASSUME NEW a \in Attempts, EndSkipped(a) PROVE TypeOK'
    BY <1>14 DEF EndSkipped, AttemptStates, Settling, Final
  <1>15. ASSUME NEW a \in Attempts, EndRetains(a) PROVE TypeOK'
    BY <1>15 DEF EndRetains, AttemptStates, Settling, Final
  <1>16. ASSUME NEW a \in Attempts, EndPrepare(a) PROVE TypeOK'
    BY <1>16 DEF EndPrepare, AttemptStates, Settling, Final
  <1>17. ASSUME NEW a \in Attempts, EndCommit(a) PROVE TypeOK'
    <2>1. base[a] \in Rows /\ route[a] \in Routes
      BY <1>17 DEF EndCommit, Unchanged
    <2>2. Ended(base[a], lease[a], a, route[a]) \in Envelopes \cup {None}
      BY <1>17, <2>1, EndedEnvelope DEF EndCommit, Unchanged
    <2>3. row' \in Rows /\ gone' \in SUBSET Epochs
      BY <1>17, <2>1, <2>2, StoreType DEF EndCommit
    <2> QED
      BY <1>17, <2>3 DEF EndCommit, AttemptStates, Settling, Final
  <1>18. ASSUME NEW a \in Attempts, EndTimesOut(a) PROVE TypeOK'
    BY <1>18 DEF EndTimesOut, AttemptStates, Settling, Final
  <1>19. ASSUME NEW a \in Attempts, EndReturn(a) PROVE TypeOK'
    BY <1>19 DEF EndReturn, AttemptStates, Settling, Final
  <1>20. ASSUME NEW a \in Attempts, Admit(a) PROVE TypeOK'
    BY <1>20 DEF Admit, AttemptStates, Settling, Final
  <1>21. ASSUME NEW a \in Attempts, AppendAnswer(a) PROVE TypeOK'
    BY <1>21 DEF AppendAnswer, AttemptStates, Settling, Final
  <1>22. ASSUME NEW a \in Attempts, AppendRejected(a) PROVE TypeOK'
    BY <1>22 DEF AppendRejected, AttemptStates, Settling, Final
  <1>23. ASSUME NEW a \in Attempts, NativeExit(a) PROVE TypeOK'
    BY <1>23 DEF NativeExit, AttemptStates, Settling, Final
  <1>24. ASSUME NEW a \in Attempts, Revoke(a) PROVE TypeOK'
    BY <1>24 DEF Revoke, AttemptStates, Settling, Final
  <1>25. ASSUME NEW a \in Attempts, Crash(a) PROVE TypeOK'
    BY <1>25 DEF Crash, AttemptStates, Settling, Final
  <1>26. ASSUME NEW r \in Resets, RetirePrepare(r) PROVE TypeOK'
    BY <1>26 DEF RetirePrepare, ResetStates, ResetFinal
  <1>27. ASSUME NEW r \in Resets, RetireCommit(r) PROVE TypeOK'
    <2>1. rbase[r] \in Rows
      BY <1>27 DEF RetireCommit, Unchanged
    <2>2. Retired(rbase[r], r) \in Envelopes \cup {None}
      BY <1>27, <2>1, RetiredEnvelope DEF RetireCommit, Prepared
    <2>3. row' \in Rows /\ gone' \in SUBSET Epochs
      BY <1>27, <2>1, <2>2, StoreType DEF RetireCommit
    <2> QED
      BY <1>27, <2>3 DEF RetireCommit, ResetStates, ResetFinal
  <1>28. ASSUME NEW r \in Resets, DrainCompletes(r) PROVE TypeOK'
    BY <1>28 DEF DrainCompletes, ResetStates, ResetFinal
  <1>29. ASSUME NEW r \in Resets, ClearPrepare(r) PROVE TypeOK'
    BY <1>29 DEF ClearPrepare, ResetStates, ResetFinal
  <1>30. ASSUME NEW r \in Resets, ClearCommit(r) PROVE TypeOK'
    <2>1. rbase[r] \in Rows
      BY <1>30 DEF ClearCommit, Unchanged
    <2>2. Cleared(rbase[r]) \in Envelopes \cup {None}
      BY <1>30, <2>1, ClearedEnvelope DEF ClearCommit, Prepared
    <2>3. row' \in Rows /\ gone' \in SUBSET Epochs
      BY <1>30, <2>1, <2>2, StoreType DEF ClearCommit
    <2> QED
      BY <1>30, <2>3 DEF ClearCommit, ResetStates, ResetFinal
  <1>31. ASSUME NEW r \in Resets, ResetFails(r) PROVE TypeOK'
    BY <1>31 DEF ResetFails, ResetStates, ResetFinal
  <1>32. ASSUME NEW rev \in Revisions, HostRecreates(rev) PROVE TypeOK'
    <2>1. row' \in Rows /\ gone' \in SUBSET Epochs
      BY <1>32 DEF HostRecreates, Store, Rows, Envelopes
    <2> QED
      BY <1>32, <2>1 DEF HostRecreates
  <1>33. ASSUME NEW rev \in Revisions, HostRevises(rev) PROVE TypeOK'
    <2>1. row' \in Rows /\ gone' \in SUBSET Epochs
      BY <1>33 DEF HostRevises, Store, Rows, Envelopes
    <2> QED
      BY <1>33, <2>1 DEF HostRevises
  <1>34. CASE UNCHANGED vars
    BY <1>34 DEF vars
  <1> QED
    BY <1>1, <1>2, <1>3, <1>4, <1>5, <1>6, <1>7, <1>8, <1>9, <1>10, <1>11,
       <1>12, <1>13, <1>14, <1>15, <1>16, <1>17, <1>18, <1>19, <1>20, <1>21,
       <1>22, <1>23, <1>24, <1>25, <1>26, <1>27, <1>28, <1>29, <1>30, <1>31,
       <1>32, <1>33, <1>34
    DEF Next, AttemptStep, ResetStep

-----------------------------------------------------------------------------
(* Only these steps write the row, and no step changes an attempt's route.   *)
LEMMA RowWrites ==
    ASSUME [Next]_vars
    PROVE  /\ UNCHANGED route
           /\ \/ UNCHANGED <<row, gone>>
              \/ \E a \in Attempts : ClaimCommit(a) \/ BindCommit(a) \/ EndCommit(a)
              \/ \E r \in Resets : RetireCommit(r) \/ ClearCommit(r)
              \/ \E rev \in Revisions : HostRecreates(rev) \/ HostRevises(rev)
  BY DEF Next, vars, attemptVars, resetVars, hostVars, AttemptStep,
     ResetStep, Resolve, ClaimPrepare, ClaimCommit, ClaimLost, ClaimReturn,
     LaunchFence, Spawn, NotStarted, InitResumed, BindPrepare, BindCommit,
     BindReturn, ProcessSettles, EndSkipped, EndRetains, EndPrepare,
     EndCommit, EndTimesOut, EndReturn, Admit, AppendAnswer, AppendRejected,
     NativeExit, Revoke, Crash, RetirePrepare, RetireCommit, DrainCompletes,
     ClearPrepare, ClearCommit, ResetFails, HostRecreates, HostRevises

(* The row a commit writes is well formed and names its claimant's route.    *)
LEMMA RowStep ==
    ASSUME TypeOK, EnvelopeWellFormed, ClaimRoutes, Prepared, [Next]_vars
    PROVE  EnvelopeWellFormed' /\ ClaimRoutes'
  <1> USE DEF EnvelopeWellFormed, ClaimRoutes
  <1>0. route' = route /\ row \in Rows /\ route \in [Attempts -> Routes]
    BY RowWrites DEF TypeOK
  <1>1. CASE UNCHANGED <<row, gone>>
    BY <1>0, <1>1
  <1>2. ASSUME NEW a \in Attempts, ClaimCommit(a)
        PROVE  EnvelopeWellFormed' /\ ClaimRoutes'
    <2>1. base[a] \in Rows /\ MayClaim(base[a], route[a])
      BY <1>2 DEF ClaimCommit, Prepared
    <2> DEFINE e == Claimed(base[a], a, route[a])
    <2>2. e \in Envelopes /\ WellFormed(e) /\ e.active = [token |-> a, route |-> route[a]]
      BY <1>0, <2>1, ClaimedEnvelope
    <2>3. row'.env = e
      BY <1>2, <2>1, <2>2, StoreType DEF ClaimCommit
    <2> HIDE DEF e
    <2> QED
      BY <1>0, <2>2, <2>3
  <1>3. ASSUME NEW a \in Attempts, BindCommit(a)
        PROVE  EnvelopeWellFormed' /\ ClaimRoutes'
    <2>1. base[a] = row /\ HoldsClaim(base[a], lease[a], a, route[a])
      BY <1>3 DEF BindCommit, LeaseActive, Unchanged
    <2> DEFINE e == Bound(base[a], lease[a], a, route[a])
    <2>2. e \in Envelopes /\ WellFormed(e) /\ e.active = row.env.active
      BY <1>0, <2>1, BoundEnvelope
    <2>3. row'.env = e
      BY <1>0, <1>3, <2>1, <2>2, StoreType DEF BindCommit
    <2>4. row.env # None
      BY <2>1 DEF HoldsClaim
    <2> HIDE DEF e
    <2> QED
      BY <1>0, <2>2, <2>3, <2>4
  <1>4. ASSUME NEW a \in Attempts, EndCommit(a)
        PROVE  EnvelopeWellFormed' /\ ClaimRoutes'
    <2>1. base[a] = row /\ base[a] \in Rows
      BY <1>0, <1>4 DEF EndCommit, Unchanged
    <2> DEFINE e == Ended(base[a], lease[a], a, route[a])
    <2>2. /\ e \in Envelopes \cup {None}
          /\ ~OwnsEnd(row, lease[a], a) => e = row.env
          /\ OwnsEnd(row, lease[a], a) => e.active = None
          /\ OwnsEnd(row, lease[a], a) /\ WellFormed(row.env)
                /\ row.env.active.route = route[a] => WellFormed(e)
      BY <1>0, <2>1, EndedEnvelope
    <2>3. row'.env = e
      BY <1>4, <2>1, <2>2, StoreType DEF EndCommit
    <2> HIDE DEF e
    <2>4. CASE OwnsEnd(row, lease[a], a)
      BY <1>0, <2>2, <2>3, <2>4 DEF OwnsEnd
    <2>5. CASE ~OwnsEnd(row, lease[a], a)
      BY <1>0, <2>2, <2>3, <2>5
    <2> QED
      BY <2>4, <2>5
  <1>5. ASSUME NEW r \in Resets, RetireCommit(r)
        PROVE  EnvelopeWellFormed' /\ ClaimRoutes'
    <2>1. rbase[r] \in Rows
      BY <1>0, <1>5 DEF RetireCommit, Unchanged
    <2>2. Retired(rbase[r], r) \in Envelopes /\ WellFormed(Retired(rbase[r], r))
          /\ Retired(rbase[r], r).active = None
      BY <2>1, RetiredEnvelope
    <2>3. row'.env = Retired(rbase[r], r)
      BY <1>5, <2>1, <2>2, StoreType DEF RetireCommit
    <2> QED
      BY <2>2, <2>3
  <1>6. ASSUME NEW r \in Resets, ClearCommit(r)
        PROVE  EnvelopeWellFormed' /\ ClaimRoutes'
    <2>1. rbase[r] \in Rows /\ MayClear(rbase[r], r)
      BY <1>6 DEF ClearCommit, Prepared
    <2>2. Cleared(rbase[r]) \in Envelopes /\ WellFormed(Cleared(rbase[r]))
          /\ Cleared(rbase[r]).active = None
      BY <2>1, ClearedEnvelope
    <2>3. row'.env = Cleared(rbase[r])
      BY <1>6, <2>1, <2>2, StoreType DEF ClearCommit
    <2> QED
      BY <2>2, <2>3
  <1>7. ASSUME NEW rev \in Revisions, HostRecreates(rev)
        PROVE  EnvelopeWellFormed' /\ ClaimRoutes'
    BY <1>7 DEF HostRecreates, Store
  <1>8. ASSUME NEW rev \in Revisions, HostRevises(rev)
        PROVE  EnvelopeWellFormed' /\ ClaimRoutes'
    <2>1. row'.env = row.env
      BY <1>0, <1>8 DEF HostRevises, Store, Rows
    <2> QED
      BY <1>0, <2>1
  <1> QED
    BY <1>1, <1>2, <1>3, <1>4, <1>5, <1>6, <1>7, <1>8, RowWrites

(* A patch in flight stays prepared until it commits or is given up.         *)
LEMMA PreparedStep ==
    ASSUME TypeOK, Prepared, [Next]_vars
    PROVE  Prepared'
  <1> USE DEF Prepared, TypeOK, Goto, RGoto
  <1>0. route' = route
    BY RowWrites
  <1>1. ASSUME NEW a \in Attempts, Resolve(a) PROVE Prepared'
    BY <1>0, <1>1 DEF Resolve, attemptVars, resetVars
  <1>2. ASSUME NEW a \in Attempts, ClaimPrepare(a) PROVE Prepared'
    BY <1>0, <1>2 DEF ClaimPrepare, attemptVars, resetVars
  <1>3. ASSUME NEW a \in Attempts, ClaimCommit(a) PROVE Prepared'
    BY <1>0, <1>3 DEF ClaimCommit, attemptVars, resetVars
  <1>4. ASSUME NEW a \in Attempts, ClaimLost(a) PROVE Prepared'
    BY <1>0, <1>4 DEF ClaimLost, attemptVars, resetVars
  <1>5. ASSUME NEW a \in Attempts, ClaimReturn(a) PROVE Prepared'
    BY <1>0, <1>5 DEF ClaimReturn, attemptVars, resetVars
  <1>6. ASSUME NEW a \in Attempts, LaunchFence(a) PROVE Prepared'
    BY <1>0, <1>6 DEF LaunchFence, attemptVars, resetVars
  <1>7. ASSUME NEW a \in Attempts, Spawn(a) PROVE Prepared'
    BY <1>0, <1>7 DEF Spawn, attemptVars, resetVars
  <1>8. ASSUME NEW a \in Attempts, NotStarted(a) PROVE Prepared'
    BY <1>0, <1>8 DEF NotStarted, attemptVars, resetVars
  <1>9. ASSUME NEW a \in Attempts, InitResumed(a) PROVE Prepared'
    BY <1>0, <1>9 DEF InitResumed, attemptVars, resetVars
  <1>10. ASSUME NEW a \in Attempts, BindPrepare(a) PROVE Prepared'
    BY <1>0, <1>10 DEF BindPrepare, attemptVars, resetVars
  <1>11. ASSUME NEW a \in Attempts, BindCommit(a) PROVE Prepared'
    BY <1>0, <1>11 DEF BindCommit, attemptVars, resetVars
  <1>12. ASSUME NEW a \in Attempts, BindReturn(a) PROVE Prepared'
    BY <1>0, <1>12 DEF BindReturn, attemptVars, resetVars
  <1>13. ASSUME NEW a \in Attempts, ProcessSettles(a) PROVE Prepared'
    BY <1>0, <1>13 DEF ProcessSettles, attemptVars, resetVars
  <1>14. ASSUME NEW a \in Attempts, EndSkipped(a) PROVE Prepared'
    BY <1>0, <1>14 DEF EndSkipped, attemptVars, resetVars
  <1>15. ASSUME NEW a \in Attempts, EndRetains(a) PROVE Prepared'
    BY <1>0, <1>15 DEF EndRetains, attemptVars, resetVars
  <1>16. ASSUME NEW a \in Attempts, EndPrepare(a) PROVE Prepared'
    BY <1>0, <1>16 DEF EndPrepare, attemptVars, resetVars
  <1>17. ASSUME NEW a \in Attempts, EndCommit(a) PROVE Prepared'
    BY <1>0, <1>17 DEF EndCommit, attemptVars, resetVars
  <1>18. ASSUME NEW a \in Attempts, EndTimesOut(a) PROVE Prepared'
    BY <1>0, <1>18 DEF EndTimesOut, attemptVars, resetVars
  <1>19. ASSUME NEW a \in Attempts, EndReturn(a) PROVE Prepared'
    BY <1>0, <1>19 DEF EndReturn, attemptVars, resetVars
  <1>20. ASSUME NEW a \in Attempts, Admit(a) PROVE Prepared'
    BY <1>0, <1>20 DEF Admit, attemptVars, resetVars
  <1>21. ASSUME NEW a \in Attempts, AppendAnswer(a) PROVE Prepared'
    BY <1>0, <1>21 DEF AppendAnswer, attemptVars, resetVars
  <1>22. ASSUME NEW a \in Attempts, AppendRejected(a) PROVE Prepared'
    BY <1>0, <1>22 DEF AppendRejected, attemptVars, resetVars
  <1>23. ASSUME NEW a \in Attempts, NativeExit(a) PROVE Prepared'
    BY <1>0, <1>23 DEF NativeExit, attemptVars, resetVars
  <1>24. ASSUME NEW a \in Attempts, Revoke(a) PROVE Prepared'
    BY <1>0, <1>24 DEF Revoke, attemptVars, resetVars
  <1>25. ASSUME NEW a \in Attempts, Crash(a) PROVE Prepared'
    BY <1>0, <1>25 DEF Crash, attemptVars, resetVars
  <1>26. ASSUME NEW r \in Resets, RetirePrepare(r) PROVE Prepared'
    BY <1>0, <1>26 DEF RetirePrepare, attemptVars, resetVars
  <1>27. ASSUME NEW r \in Resets, RetireCommit(r) PROVE Prepared'
    BY <1>0, <1>27 DEF RetireCommit, attemptVars, resetVars
  <1>28. ASSUME NEW r \in Resets, DrainCompletes(r) PROVE Prepared'
    BY <1>0, <1>28 DEF DrainCompletes, attemptVars, resetVars
  <1>29. ASSUME NEW r \in Resets, ClearPrepare(r) PROVE Prepared'
    BY <1>0, <1>29 DEF ClearPrepare, attemptVars, resetVars
  <1>30. ASSUME NEW r \in Resets, ClearCommit(r) PROVE Prepared'
    BY <1>0, <1>30 DEF ClearCommit, attemptVars, resetVars
  <1>31. ASSUME NEW r \in Resets, ResetFails(r) PROVE Prepared'
    BY <1>0, <1>31 DEF ResetFails, attemptVars, resetVars
  <1>32. ASSUME NEW rev \in Revisions, HostRecreates(rev) PROVE Prepared'
    BY <1>0, <1>32 DEF HostRecreates, attemptVars, resetVars
  <1>33. ASSUME NEW rev \in Revisions, HostRevises(rev) PROVE Prepared'
    BY <1>0, <1>33 DEF HostRevises, attemptVars, resetVars
  <1>34. CASE UNCHANGED vars
    BY <1>34 DEF vars, attemptVars, resetVars
  <1> QED
    BY <1>1, <1>2, <1>3, <1>4, <1>5, <1>6, <1>7, <1>8, <1>9, <1>10, <1>11,
       <1>12, <1>13, <1>14, <1>15, <1>16, <1>17, <1>18, <1>19, <1>20, <1>21,
       <1>22, <1>23, <1>24, <1>25, <1>26, <1>27, <1>28, <1>29, <1>30, <1>31,
       <1>32, <1>33, <1>34
    DEF Next, AttemptStep, ResetStep

(* The phases of the native process follow the attempt's control.            *)
LEMMA NativeStep ==
    ASSUME TypeOK, NativePhases, [Next]_vars
    PROVE  NativePhases'
  <1> USE DEF NativePhases, TypeOK, Goto, Settling, Final
  <1>1. ASSUME NEW a \in Attempts, Resolve(a) PROVE NativePhases'
    BY <1>1 DEF Resolve
  <1>2. ASSUME NEW a \in Attempts, ClaimPrepare(a) PROVE NativePhases'
    BY <1>2 DEF ClaimPrepare
  <1>3. ASSUME NEW a \in Attempts, ClaimCommit(a) PROVE NativePhases'
    BY <1>3 DEF ClaimCommit
  <1>4. ASSUME NEW a \in Attempts, ClaimLost(a) PROVE NativePhases'
    BY <1>4 DEF ClaimLost
  <1>5. ASSUME NEW a \in Attempts, ClaimReturn(a) PROVE NativePhases'
    BY <1>5 DEF ClaimReturn
  <1>6. ASSUME NEW a \in Attempts, LaunchFence(a) PROVE NativePhases'
    BY <1>6 DEF LaunchFence
  <1>7. ASSUME NEW a \in Attempts, Spawn(a) PROVE NativePhases'
    BY <1>7 DEF Spawn
  <1>8. ASSUME NEW a \in Attempts, NotStarted(a) PROVE NativePhases'
    BY <1>8 DEF NotStarted
  <1>9. ASSUME NEW a \in Attempts, InitResumed(a) PROVE NativePhases'
    BY <1>9 DEF InitResumed
  <1>10. ASSUME NEW a \in Attempts, BindPrepare(a) PROVE NativePhases'
    BY <1>10 DEF BindPrepare
  <1>11. ASSUME NEW a \in Attempts, BindCommit(a) PROVE NativePhases'
    BY <1>11 DEF BindCommit
  <1>12. ASSUME NEW a \in Attempts, BindReturn(a) PROVE NativePhases'
    BY <1>12 DEF BindReturn
  <1>13. ASSUME NEW a \in Attempts, ProcessSettles(a) PROVE NativePhases'
    BY <1>13 DEF ProcessSettles
  <1>14. ASSUME NEW a \in Attempts, EndSkipped(a) PROVE NativePhases'
    BY <1>14 DEF EndSkipped
  <1>15. ASSUME NEW a \in Attempts, EndRetains(a) PROVE NativePhases'
    BY <1>15 DEF EndRetains
  <1>16. ASSUME NEW a \in Attempts, EndPrepare(a) PROVE NativePhases'
    BY <1>16 DEF EndPrepare
  <1>17. ASSUME NEW a \in Attempts, EndCommit(a) PROVE NativePhases'
    BY <1>17 DEF EndCommit
  <1>18. ASSUME NEW a \in Attempts, EndTimesOut(a) PROVE NativePhases'
    BY <1>18 DEF EndTimesOut
  <1>19. ASSUME NEW a \in Attempts, EndReturn(a) PROVE NativePhases'
    BY <1>19 DEF EndReturn
  <1>20. ASSUME NEW a \in Attempts, Admit(a) PROVE NativePhases'
    BY <1>20 DEF Admit
  <1>21. ASSUME NEW a \in Attempts, AppendAnswer(a) PROVE NativePhases'
    BY <1>21 DEF AppendAnswer
  <1>22. ASSUME NEW a \in Attempts, AppendRejected(a) PROVE NativePhases'
    BY <1>22 DEF AppendRejected
  <1>23. ASSUME NEW a \in Attempts, NativeExit(a) PROVE NativePhases'
    BY <1>23 DEF NativeExit
  <1>24. ASSUME NEW a \in Attempts, Revoke(a) PROVE NativePhases'
    BY <1>24 DEF Revoke
  <1>25. ASSUME NEW a \in Attempts, Crash(a) PROVE NativePhases'
    BY <1>25 DEF Crash
  <1>26. ASSUME UNCHANGED attemptVars PROVE NativePhases'
    BY <1>26 DEF attemptVars
  <1> QED
    BY <1>1, <1>2, <1>3, <1>4, <1>5, <1>6, <1>7, <1>8, <1>9, <1>10, <1>11,
       <1>12, <1>13, <1>14, <1>15, <1>16, <1>17, <1>18, <1>19, <1>20, <1>21,
       <1>22, <1>23, <1>24, <1>25, <1>26
    DEF Next, vars, AttemptStep, ResetStep, RetirePrepare, RetireCommit,
       DrainCompletes, ClearPrepare, ClearCommit, ResetFails, HostRecreates,
       HostRevises

(* An attempt comes to drive a native process only through its last fence,   *)
(* where it holds the row's claim.                                           *)
LEMMA DrivingFrom ==
    ASSUME TypeOK, [Next]_vars, NEW b \in Attempts, Driving(b)'
    PROVE  Driving(b) \/ LaunchFence(b)
  <1>1. ASSUME NEW a \in Attempts, AttemptStep(a) \/ NativeExit(a) \/ Revoke(a) \/ Crash(a)
        PROVE  Driving(b) \/ LaunchFence(b)
    <2>1. CASE LaunchFence(a)
      BY <2>1 DEF LaunchFence, Driving, Goto, TypeOK
    <2>2. CASE ~LaunchFence(a)
      BY <1>1, <2>2 DEF AttemptStep, Driving, Goto, TypeOK, Settling, Final,
         Resolve, ClaimPrepare, ClaimCommit, ClaimLost, ClaimReturn, Spawn,
         NotStarted, InitResumed, BindPrepare, BindCommit, BindReturn,
         ProcessSettles, EndSkipped, EndRetains, EndPrepare, EndCommit,
         EndTimesOut, EndReturn, Admit, AppendAnswer, AppendRejected,
         NativeExit, Revoke, Crash
    <2> QED
      BY <2>1, <2>2
  <1>2. ASSUME UNCHANGED attemptVars PROVE Driving(b)
    BY <1>2 DEF attemptVars, Driving
  <1> QED
    BY <1>1, <1>2 DEF Next, vars, ResetStep, RetirePrepare, RetireCommit,
       DrainCompletes, ClearPrepare, ClearCommit, ResetFails, HostRecreates,
       HostRevises

LEMMA FenceCovers ==
    ASSUME TypeOK, NEW b \in Attempts, LaunchFence(b)
    PROVE  Covered(b)' /\ row' = row /\ row.env # None /\ ~row.env.pending
  <1>1. row' = row /\ HoldsClaim(row, lease[b], b, route[b])
    BY DEF LaunchFence, LeaseActive
  <1>2. /\ row.env # None /\ ~row.env.pending
        /\ row.env.active = [token |-> b, route |-> route[b]]
    BY <1>1 DEF HoldsClaim
  <1>3. [token |-> b, route |-> route[b]] \in Claims
    BY DEF Claims, TypeOK
  <1> QED
    BY <1>1, <1>2, <1>3, NoneIsNothing DEF Covered

(* Only the host recreates the row, and it never takes a recreation back.    *)
LEMMA Recreations ==
    ASSUME [Next]_vars, recreated \in Nat, recreated' = 0
    PROVE  recreated = 0
  <1>1. ASSUME NEW a \in Attempts, AttemptStep(a) PROVE recreated' = recreated
    BY <1>1 DEF AttemptStep, hostVars, LaunchFence,
       Resolve, ClaimPrepare, ClaimCommit, ClaimLost, ClaimReturn,
       Spawn, NotStarted, InitResumed, BindPrepare, BindCommit,
       BindReturn, ProcessSettles, EndSkipped, EndRetains, EndPrepare,
       EndCommit, EndTimesOut, EndReturn, Admit, AppendAnswer, AppendRejected
  <1>2. ASSUME NEW a \in Attempts, NativeExit(a) \/ Revoke(a) \/ Crash(a)
        PROVE  recreated' = recreated
    BY <1>2 DEF NativeExit, Revoke, Crash, hostVars
  <1>3. ASSUME NEW r \in Resets, ResetStep(r) PROVE recreated' = recreated
    BY <1>3 DEF ResetStep, RetirePrepare, RetireCommit, DrainCompletes,
       ClearPrepare, ClearCommit, ResetFails, hostVars
  <1>4. ASSUME NEW rev \in Revisions, HostRecreates(rev) PROVE FALSE
    BY <1>4 DEF HostRecreates
  <1>5. ASSUME NEW rev \in Revisions, HostRevises(rev) PROVE recreated' = recreated
    BY <1>5 DEF HostRevises
  <1> QED
    BY <1>1, <1>2, <1>3, <1>4, <1>5 DEF Next, vars, hostVars

(* A row the protocol writes keeps every running native process covered.     *)
LEMMA CoverStep ==
    ASSUME IInv, [Next]_vars
    PROVE  DrivingCovered'
  <1> SUFFICES ASSUME recreated' = 0, NEW b \in Attempts, Driving(b)'
               PROVE  Covered(b)'
    BY DEF DrivingCovered
  <1> USE DEF IInv
  <1>0. row \in Rows /\ route \in [Attempts -> Routes] /\ recreated \in Nat
    BY DEF TypeOK
  <1>a. CASE LaunchFence(b)
    BY <1>a, FenceCovers
  <1>b. CASE Driving(b)
    <2>0. recreated = 0 => Covered(b)
      BY <1>b DEF DrivingCovered
    <2>1. CASE UNCHANGED <<row, gone>>
      <3>1. recreated = 0
        BY <1>0, Recreations
      <3> QED
        BY <2>0, <2>1, <3>1 DEF Covered
    <2>2. ASSUME NEW a \in Attempts, ClaimCommit(a) PROVE Covered(b)'
      <3>1. row = base[a] /\ MayClaim(base[a], route[a]) /\ recreated' = recreated
        BY <2>2 DEF ClaimCommit, Unchanged, Prepared, hostVars
      <3> QED
        BY <2>0, <3>1 DEF MayClaim, Resolvable, Covered
    <2>3. ASSUME NEW a \in Attempts, BindCommit(a) PROVE Covered(b)'
      <3>1. base[a] = row /\ HoldsClaim(row, lease[a], a, route[a]) /\ recreated' = recreated
        BY <2>3 DEF BindCommit, LeaseActive, Unchanged, hostVars
      <3> DEFINE e == Bound(row, lease[a], a, route[a])
      <3>2. /\ e \in Envelopes /\ e.active = row.env.active /\ e.pending = row.env.pending
        BY <1>0, <3>1, BoundEnvelope
      <3>3. row'.env = e
        BY <1>0, <2>3, <3>1, <3>2, StoreType DEF BindCommit
      <3>4. e # None
        BY <3>2, NoneIsNothing
      <3> HIDE DEF e
      <3> QED
        BY <2>0, <3>1, <3>2, <3>3, <3>4 DEF Covered
    <2>4. ASSUME NEW a \in Attempts, EndCommit(a) PROVE Covered(b)'
      <3>1. base[a] = row /\ pc[a] = "settling" /\ recreated' = recreated
        BY <2>4 DEF EndCommit, Unchanged, hostVars
      <3> DEFINE e == Ended(row, lease[a], a, route[a])
      <3>2. /\ e \in Envelopes \cup {None}
            /\ ~OwnsEnd(row, lease[a], a) => e = row.env
            /\ OwnsEnd(row, lease[a], a) => e # None /\ e.pending = row.env.pending
        BY <1>0, <3>1, EndedEnvelope
      <3>3. row'.env = e
        BY <1>0, <2>4, <3>1, <3>2, StoreType DEF EndCommit
      <3> HIDE DEF e
      <3>4. CASE ~OwnsEnd(row, lease[a], a)
        BY <2>0, <3>1, <3>2, <3>3, <3>4 DEF Covered
      <3>5. CASE OwnsEnd(row, lease[a], a)
        <4>1. b # a
          BY <1>b, <3>1 DEF NativePhases, Driving
        <4>2. row.env.pending
          BY <2>0, <3>1, <3>5, <4>1 DEF OwnsEnd, Covered
        <4> QED
          BY <3>2, <3>3, <3>5, <4>2 DEF Covered
      <3> QED
        BY <3>4, <3>5
    <2>5. ASSUME NEW r \in Resets, RetireCommit(r) PROVE Covered(b)'
      <3>1. rbase[r] = row
        BY <2>5 DEF RetireCommit, Unchanged
      <3>2. Retired(row, r) \in Envelopes /\ Retired(row, r).pending
        BY <1>0, RetiredEnvelope
      <3>3. row'.env = Retired(row, r)
        BY <1>0, <2>5, <3>1, <3>2, StoreType DEF RetireCommit
      <3> QED
        BY <3>2, <3>3, NoneIsNothing DEF Covered
    <2>6. ASSUME NEW r \in Resets, ClearCommit(r) PROVE FALSE
      <3>1. rbase[r] = row /\ rpc[r] = "clearing" /\ MayClear(row, r)
        BY <2>6 DEF ClearCommit, Unchanged, Prepared
      <3>2. Drained
        BY <3>1 DEF DrainHolds, MayClear
      <3> QED
        BY <1>b, <3>2 DEF Drained
    <2>7. ASSUME NEW rev \in Revisions, HostRecreates(rev) PROVE FALSE
      BY <1>0, <2>7 DEF HostRecreates
    <2>8. ASSUME NEW rev \in Revisions, HostRevises(rev) PROVE Covered(b)'
      <3>1. row'.env = row.env /\ recreated' = recreated
        BY <1>0, <2>8 DEF HostRevises, Store, Rows
      <3> QED
        BY <2>0, <3>1 DEF Covered
    <2> QED
      BY <2>1, <2>2, <2>3, <2>4, <2>5, <2>6, <2>7, <2>8, RowWrites
  <1> QED
    BY <1>a, <1>b, DrivingFrom

(* Nothing starts under a tombstone whose drain is done.                     *)
LEMMA DrainStep ==
    ASSUME IInv, [Next]_vars
    PROVE  DrainHolds'
  <1> SUFFICES ASSUME NEW r \in Resets, NEW b \in Attempts, Driving(b)',
                      rpc'[r] \in {"drained", "clearing"},
                      row'.env # None, row'.env.pending, row'.env.epoch = r
               PROVE  FALSE
    BY DEF DrainHolds, Drained
  <1> USE DEF IInv
  <1>0. row \in Rows /\ route \in [Attempts -> Routes] /\ rpc \in [Resets -> ResetStates]
    BY DEF TypeOK
  <1>1. Driving(b)
    BY DrivingFrom, FenceCovers
  <1>2. ~(/\ rpc[r] \in {"drained", "clearing"}
          /\ row.env # None /\ row.env.pending /\ row.env.epoch = r)
    BY <1>1 DEF DrainHolds, Drained
  <1>3. CASE UNCHANGED <<row, gone>>
    <2>1. rpc[r] \in {"drained", "clearing"} \/ Drained
      BY <1>0 DEF Next, vars, resetVars, RGoto, AttemptStep, ResetStep,
         LaunchFence, Resolve, ClaimPrepare, ClaimCommit, ClaimLost,
         ClaimReturn, Spawn, NotStarted, InitResumed, BindPrepare,
         BindCommit, BindReturn, ProcessSettles, EndSkipped, EndRetains,
         EndPrepare, EndCommit, EndTimesOut, EndReturn, Admit, AppendAnswer,
         AppendRejected, NativeExit, Revoke, Crash, RetirePrepare,
         RetireCommit, DrainCompletes, ClearPrepare, ClearCommit,
         ResetFails, HostRecreates, HostRevises
    <2> QED
      BY <1>1, <1>2, <1>3, <2>1 DEF Drained
  <1>4. ASSUME NEW a \in Attempts, ClaimCommit(a) PROVE FALSE
    <2>1. base[a] \in Rows /\ MayClaim(base[a], route[a])
      BY <1>4 DEF ClaimCommit, Prepared
    <2>2. Claimed(base[a], a, route[a]) \in Envelopes /\ ~Claimed(base[a], a, route[a]).pending
      BY <1>0, <2>1, ClaimedEnvelope
    <2>3. row'.env = Claimed(base[a], a, route[a])
      BY <1>4, <2>1, <2>2, StoreType DEF ClaimCommit
    <2> QED
      BY <2>2, <2>3
  <1>5. ASSUME NEW a \in Attempts, BindCommit(a) PROVE FALSE
    <2>1. base[a] = row /\ HoldsClaim(row, lease[a], a, route[a])
      BY <1>5 DEF BindCommit, LeaseActive, Unchanged
    <2>2. /\ Bound(row, lease[a], a, route[a]) \in Envelopes
          /\ Bound(row, lease[a], a, route[a]).pending = row.env.pending
      BY <1>0, <2>1, BoundEnvelope
    <2>3. row'.env = Bound(row, lease[a], a, route[a])
      BY <1>0, <1>5, <2>1, <2>2, StoreType DEF BindCommit
    <2> QED
      BY <2>1, <2>2, <2>3 DEF HoldsClaim
  <1>6. ASSUME NEW a \in Attempts, EndCommit(a) PROVE FALSE
    <2>1. base[a] = row /\ rpc' = rpc
      BY <1>6 DEF EndCommit, Unchanged, resetVars
    <2> DEFINE e == Ended(row, lease[a], a, route[a])
    <2>2. /\ e \in Envelopes \cup {None}
          /\ ~OwnsEnd(row, lease[a], a) => e = row.env
          /\ OwnsEnd(row, lease[a], a) =>
                row.env # None /\ e.pending = row.env.pending /\ e.epoch = row.env.epoch
      BY <1>0, <2>1, EndedEnvelope
    <2>3. row'.env = e
      BY <1>0, <1>6, <2>1, <2>2, StoreType DEF EndCommit
    <2> HIDE DEF e
    <2> QED
      BY <1>2, <2>1, <2>2, <2>3
  <1>7. ASSUME NEW s \in Resets, RetireCommit(s) PROVE FALSE
    <2>1. rbase[s] = row /\ rpc' = [rpc EXCEPT ![s] = "draining"]
      BY <1>7 DEF RetireCommit, Unchanged, RGoto
    <2>2. Retired(row, s) \in Envelopes /\ Retired(row, s).epoch = s
      BY <1>0, RetiredEnvelope
    <2>3. row'.env = Retired(row, s)
      BY <1>0, <1>7, <2>1, <2>2, StoreType DEF RetireCommit
    <2> QED
      BY <1>0, <2>1, <2>2, <2>3
  <1>8. ASSUME NEW s \in Resets, ClearCommit(s) PROVE FALSE
    <2>1. rbase[s] \in Rows /\ MayClear(rbase[s], s)
      BY <1>8 DEF ClearCommit, Prepared
    <2>2. Cleared(rbase[s]) \in Envelopes /\ ~Cleared(rbase[s]).pending
      BY <2>1, ClearedEnvelope
    <2>3. row'.env = Cleared(rbase[s])
      BY <1>8, <2>1, <2>2, StoreType DEF ClearCommit
    <2> QED
      BY <2>2, <2>3
  <1>9. ASSUME NEW rev \in Revisions, HostRecreates(rev) \/ HostRevises(rev) PROVE FALSE
    <2>1. rpc' = rpc /\ (row'.env = None \/ row'.env = row.env)
      BY <1>0, <1>9 DEF HostRecreates, HostRevises, Store, Rows, resetVars
    <2> QED
      BY <1>2, <2>1
  <1> QED
    BY <1>3, <1>4, <1>5, <1>6, <1>7, <1>8, <1>9, RowWrites

(* A native process passes its last fence only where every other one that    *)
(* still runs would have to hold the same claim.                             *)
LEMMA ExclusionStep ==
    ASSUME IInv, [Next]_vars
    PROVE  NativeExclusion'
  <1> SUFFICES ASSUME recreated' = 0, NEW a \in Attempts, NEW b \in Attempts,
                      Driving(a)', Driving(b)'
               PROVE  a = b
    BY DEF NativeExclusion
  <1>1. TypeOK /\ DrivingCovered /\ NativeExclusion
    BY DEF IInv
  <1>2. recreated = 0
    BY <1>1, Recreations DEF TypeOK
  <1>3. ASSUME NEW c \in Attempts, NEW d \in Attempts, LaunchFence(c), Driving(d)
        PROVE  c = d
    <2>1. Covered(d)
      BY <1>1, <1>2, <1>3 DEF DrivingCovered
    <2>2. ~row.env.pending /\ row.env.active = [token |-> c, route |-> route[c]]
      BY <1>3 DEF LaunchFence, LeaseActive, HoldsClaim
    <2> QED
      BY <2>1, <2>2 DEF Covered
  <1>4. ASSUME LaunchFence(a), LaunchFence(b)
        PROVE  a = b
    <2>1. /\ row.env.active = [token |-> a, route |-> route[a]]
          /\ row.env.active = [token |-> b, route |-> route[b]]
      BY <1>4 DEF LaunchFence, LeaseActive, HoldsClaim
    <2> QED
      BY <2>1
  <1>5. Driving(a) \/ LaunchFence(a)
    BY <1>1, DrivingFrom
  <1>6. Driving(b) \/ LaunchFence(b)
    BY <1>1, DrivingFrom
  <1>7. Driving(a) /\ Driving(b) => a = b
    BY <1>1, <1>2 DEF NativeExclusion
  <1> QED
    BY <1>3, <1>4, <1>5, <1>6, <1>7

-----------------------------------------------------------------------------
LEMMA Inductive ==
    /\ Init => IInv
    /\ IInv /\ [Next]_vars => IInv'
  <1>1. Init => IInv
    <2> SUFFICES ASSUME Init PROVE IInv
      OBVIOUS
    <2>1. row \in Rows /\ row.env = None
      BY DEF Init, Rows
    <2>2. TypeOK
      BY <2>1 DEF Init, TypeOK, AttemptStates, ResetStates
    <2> QED
      BY <2>1, <2>2
      DEF Init, IInv, EnvelopeWellFormed, ClaimRoutes, Prepared, NativePhases,
          DrivingCovered, NativeExclusion, Driving, DrainHolds
  <1>2. IInv /\ [Next]_vars => IInv'
    BY TypeStep, RowStep, PreparedStep, NativeStep, CoverStep, ExclusionStep, DrainStep DEF IInv
  <1> QED
    BY <1>1, <1>2

(* Every variable keeps its type, whatever the bounds.                       *)
THEOREM TypeCorrect == Spec => []TypeOK
  <1>1. IInv => TypeOK
    BY DEF IInv
  <1> QED
    BY <1>1, Inductive, PTL DEF Spec

(* No legal sequence of operations of the plugin and the host stores an      *)
(* envelope that parseEnvelope rejects for its own contents.                 *)
THEOREM EnvelopesParse == Spec => []EnvelopeWellFormed
  <1>1. IInv => EnvelopeWellFormed
    BY DEF IInv
  <1> QED
    BY <1>1, Inductive, PTL DEF Spec

(* As long as the host keeps the session row, at most one native process     *)
(* works for the session, across crashes, timeouts, unconfirmed              *)
(* terminations and resets, for any number of attempts and resets.           *)
THEOREM AtMostOneNative == Spec => []NativeExclusion
  <1>1. IInv => NativeExclusion
    BY DEF IInv
  <1> QED
    BY <1>1, Inductive, PTL DEF Spec

-----------------------------------------------------------------------------
(***************************************************************************)
(* What each commit leaves of the row it was prepared on.                    *)
(***************************************************************************)
LEMMA ClaimWrites ==
    ASSUME IInv, NEW a \in Attempts, ClaimCommit(a)
    PROVE  /\ pc[a] = "claiming" /\ row = base[a] /\ MayClaim(row, route[a])
           /\ row'.env = Claimed(row, a, route[a]) /\ row'.env # None
           /\ row'.env.binding = StoredBinding(row)
           /\ row'.env.active = [token |-> a, route |-> route[a]] /\ row'.env.active # None
           /\ row'.env.epoch = IF row.env = None THEN a ELSE row.env.epoch
           /\ ~row'.env.pending
  <1> USE DEF IInv
  <1>1. /\ row = base[a] /\ row \in Rows /\ MayClaim(row, route[a]) /\ route[a] \in Routes
        /\ pc[a] = "claiming"
    BY DEF ClaimCommit, Unchanged, Prepared, TypeOK
  <1> DEFINE e == Claimed(row, a, route[a])
  <1>2. /\ e \in Envelopes /\ e # None
        /\ e.active = [token |-> a, route |-> route[a]]
        /\ e.epoch = IF row.env = None THEN a ELSE row.env.epoch
        /\ ~e.pending
    BY <1>1, ClaimedEnvelope, NoneIsNothing
  <1>3. e.binding = StoredBinding(row)
    <2>1. CASE row.env = None
      BY <2>1 DEF Claimed, StoredBinding
    <2>2. CASE row.env # None
      <3>1. row.env \in Envelopes
        BY <1>1, <2>2 DEF Rows
      <3> QED
        BY <2>2, <3>1 DEF Claimed, StoredBinding, Envelopes
    <2> QED
      BY <2>1, <2>2
  <1>4. row'.env = e
    BY <1>1, <1>2, StoreType DEF ClaimCommit
  <1>5. [token |-> a, route |-> route[a]] # None
    BY <1>1, NoneIsNothing DEF Claims
  <1> HIDE DEF e
  <1> QED
    BY <1>1, <1>2, <1>3, <1>4, <1>5 DEF e

LEMMA BindWrites ==
    ASSUME IInv, NEW a \in Attempts, BindCommit(a)
    PROVE  /\ pc[a] = "binding" /\ row.env # None /\ row'.env # None
           /\ row.env.active # None /\ row.env.active.token = a
           /\ row'.env.active = row.env.active /\ row'.env.epoch = row.env.epoch
           /\ row'.env.pending = row.env.pending
           /\ \/ row'.env.binding = row.env.binding
              \/ row'.env.binding # None /\ row'.env.binding.conv = a
  <1> USE DEF IInv
  <1>1. /\ base[a] = row /\ row \in Rows /\ HoldsClaim(row, lease[a], a, route[a])
        /\ route[a] \in Routes /\ pc[a] = "binding"
    BY DEF BindCommit, LeaseActive, Unchanged, TypeOK
  <1> DEFINE e == Bound(row, lease[a], a, route[a])
  <1>2. /\ row.env \in Envelopes /\ e \in Envelopes /\ e # None
        /\ e.active = row.env.active /\ e.epoch = row.env.epoch /\ e.pending = row.env.pending
    BY <1>1, BoundEnvelope, NoneIsNothing
  <1>3. row.env # None /\ row.env.active = [token |-> a, route |-> route[a]]
    BY <1>1 DEF HoldsClaim
  <1>4. row.env.active # None
    BY <1>1, <1>3, NoneIsNothing DEF Claims
  <1>5. \/ e.binding = row.env.binding
        \/ e.binding # None /\ e.binding.conv = a
    <2>1. CASE row.env.binding # None
      BY <2>1 DEF Bound
    <2>2. CASE row.env.binding = None
      <3> DEFINE b == [epoch |-> lease[a].epoch, rev |-> lease[a].rev, conv |-> a, route |-> route[a]]
      <3>1. e.binding = b
        BY <1>2, <2>2 DEF Bound, Envelopes
      <3>2. b \in Bindings
        BY <1>1, <1>2 DEF HoldsClaim, Bindings, Envelopes, Conversations
      <3> QED
        BY <3>1, <3>2, NoneIsNothing
    <2> QED
      BY <2>1, <2>2
  <1>6. row'.env = e
    BY <1>1, <1>2, StoreType DEF BindCommit
  <1> HIDE DEF e
  <1> QED
    BY <1>1, <1>2, <1>3, <1>4, <1>5, <1>6

LEMMA BindsOnce ==
    ASSUME IInv, NEW a \in Attempts, BindCommit(a), row'.env.binding # row.env.binding
    PROVE  row.env.binding = None
  <1> SUFFICES ASSUME row.env.binding # None PROVE FALSE
    OBVIOUS
  <1> USE DEF IInv
  <1>1. /\ base[a] = row /\ row \in Rows /\ HoldsClaim(row, lease[a], a, route[a])
        /\ route[a] \in Routes
    BY DEF BindCommit, LeaseActive, Unchanged, TypeOK
  <1>2. Bound(row, lease[a], a, route[a]) = row.env
    BY DEF Bound
  <1>3. row'.env = row.env
    BY <1>1, <1>2, BoundEnvelope, StoreType DEF BindCommit
  <1> QED
    BY <1>3

LEMMA EndWrites ==
    ASSUME IInv, NEW a \in Attempts, EndCommit(a)
    PROVE  /\ pc[a] = "settling"
           /\ \/ row'.env = row.env
              \/ /\ row.env # None /\ row.env.active # None /\ row.env.active.token = a
                 /\ row'.env # None /\ row'.env.active = None
                 /\ row'.env.binding = row.env.binding
                 /\ row'.env.epoch = row.env.epoch /\ row'.env.pending = row.env.pending
  <1> USE DEF IInv
  <1>1. base[a] = row /\ row \in Rows /\ pc[a] = "settling" /\ route[a] \in Routes
    BY DEF EndCommit, Unchanged, TypeOK
  <1> DEFINE e == Ended(row, lease[a], a, route[a])
  <1>2. row'.env = e
    BY <1>1, EndedEnvelope, StoreType DEF EndCommit
  <1>3. CASE ~OwnsEnd(row, lease[a], a)
    BY <1>1, <1>2, <1>3, EndedEnvelope
  <1>4. CASE OwnsEnd(row, lease[a], a)
    <2>1. /\ e # None /\ e.active = None /\ e.epoch = row.env.epoch /\ e.pending = row.env.pending
      BY <1>1, <1>4, EndedEnvelope
    <2>2. row.env \in Envelopes
      BY <1>1, <1>4 DEF OwnsEnd, Rows
    <2>3. e.binding = row.env.binding
      BY <1>4, <2>2 DEF Ended, Envelopes
    <2> HIDE DEF e
    <2> QED
      BY <1>1, <1>2, <1>4, <2>1, <2>3 DEF OwnsEnd
  <1> QED
    BY <1>3, <1>4

LEMMA RetireWrites ==
    ASSUME IInv, NEW r \in Resets, RetireCommit(r)
    PROVE  /\ rpc[r] = "retiring" /\ row'.env # None
           /\ row'.env.epoch = r /\ row'.env.active = None /\ row'.env.pending
           /\ row'.env.binding # None =>
                 /\ row.env # None /\ row.env.binding # None
                 /\ row'.env.binding.conv = row.env.binding.conv
  <1> USE DEF IInv
  <1>1. rbase[r] = row /\ row \in Rows /\ rpc[r] = "retiring"
    BY DEF RetireCommit, Unchanged, TypeOK
  <1>2. /\ Retired(row, r) \in Envelopes /\ Retired(row, r).pending
        /\ Retired(row, r).active = None /\ Retired(row, r).epoch = r
    BY <1>1, RetiredEnvelope
  <1>3. row'.env = Retired(row, r)
    BY <1>1, <1>2, StoreType DEF RetireCommit
  <1>4. ASSUME Retired(row, r).binding # None
        PROVE  /\ row.env # None /\ row.env.binding # None
               /\ Retired(row, r).binding.conv = row.env.binding.conv
    <2>1. /\ row.env # None /\ row.env.binding # None
          /\ Retired(row, r).binding = [row.env.binding EXCEPT !.epoch = r]
      BY <1>4 DEF Retired, StoredBinding
    <2>2. row.env.binding \in Bindings
      BY <1>1, <2>1 DEF Rows, Envelopes
    <2> QED
      BY <2>1, <2>2 DEF Bindings
  <1> QED
    BY <1>1, <1>2, <1>3, <1>4, NoneIsNothing

LEMMA ClearWrites ==
    ASSUME IInv, NEW r \in Resets, ClearCommit(r)
    PROVE  /\ row.env # None /\ row'.env # None
           /\ row'.env.epoch = row.env.epoch /\ row'.env.active = None /\ row'.env.binding = None
  <1> USE DEF IInv
  <1>1. /\ rbase[r] = row /\ row \in Rows /\ MayClear(row, r)
    BY DEF ClearCommit, Unchanged, Prepared, TypeOK
  <1>2. /\ Cleared(row) \in Envelopes /\ Cleared(row).active = None
        /\ Cleared(row).epoch = row.env.epoch
    BY <1>1, ClearedEnvelope
  <1>3. row.env \in Envelopes /\ row.env # None
    BY <1>1 DEF MayClear, Rows
  <1>4. Cleared(row).binding = None
    BY <1>3 DEF Cleared, Envelopes
  <1>5. row'.env = Cleared(row)
    BY <1>1, <1>2, StoreType DEF ClearCommit
  <1> QED
    BY <1>2, <1>3, <1>4, <1>5, NoneIsNothing

LEMMA HostWrites ==
    ASSUME TypeOK, NEW rev \in Revisions, HostRecreates(rev) \/ HostRevises(rev)
    PROVE  row'.env = None \/ row'.env = row.env
  BY DEF HostRecreates, HostRevises, Store, TypeOK, Rows

(* Who has passed the start of his work never comes back to it.              *)
Early == {"idle", "resolved", "claiming"}
Unbound == Early \cup {"claimed", "leased", "launching", "running", "binding"}

LEMMA NoWayBack ==
    ASSUME TypeOK, [Next]_vars, NEW b \in Attempts
    PROVE  /\ pc'[b] \in Early => pc[b] \in Early
           /\ pc'[b] \in Unbound => pc[b] \in Unbound
           /\ pc[b] # "idle" => snap'[b] = snap[b]
  <1> USE DEF TypeOK, Goto, Early, Unbound, Settling, Final
  <1>1. ASSUME NEW a \in Attempts,
               \/ Resolve(a) \/ ClaimPrepare(a) \/ ClaimCommit(a) \/ ClaimLost(a) \/ ClaimReturn(a)
               \/ LaunchFence(a) \/ Spawn(a) \/ NotStarted(a)
        PROVE  /\ pc'[b] \in Early => pc[b] \in Early
               /\ pc'[b] \in Unbound => pc[b] \in Unbound
               /\ pc[b] # "idle" => snap'[b] = snap[b]
    BY <1>1 DEF Resolve, ClaimPrepare, ClaimCommit, ClaimLost, ClaimReturn, LaunchFence, Spawn,
       NotStarted
  <1>2. ASSUME NEW a \in Attempts,
               \/ InitResumed(a) \/ BindPrepare(a) \/ BindCommit(a) \/ BindReturn(a) \/ ProcessSettles(a)
               \/ EndSkipped(a) \/ EndRetains(a) \/ EndPrepare(a) \/ EndCommit(a)
               \/ EndTimesOut(a) \/ EndReturn(a)
               \/ Admit(a) \/ AppendAnswer(a) \/ AppendRejected(a)
               \/ NativeExit(a) \/ Revoke(a) \/ Crash(a)
        PROVE  /\ pc'[b] \in Early => pc[b] \in Early
               /\ pc'[b] \in Unbound => pc[b] \in Unbound
               /\ pc[b] # "idle" => snap'[b] = snap[b]
    BY <1>2 DEF InitResumed, BindPrepare, BindCommit, BindReturn, ProcessSettles, EndSkipped,
       EndRetains, EndPrepare, EndCommit, EndTimesOut, EndReturn, Admit, AppendAnswer,
       AppendRejected, NativeExit, Revoke, Crash
  <1>3. ASSUME UNCHANGED attemptVars
        PROVE  /\ pc'[b] \in Early => pc[b] \in Early
               /\ pc'[b] \in Unbound => pc[b] \in Unbound
               /\ pc[b] # "idle" => snap'[b] = snap[b]
    BY <1>3 DEF attemptVars
  <1>4. ASSUME NEW r \in Resets, ResetStep(r) PROVE UNCHANGED attemptVars
    BY <1>4 DEF ResetStep, RetirePrepare, RetireCommit, DrainCompletes, ClearPrepare, ClearCommit,
       ResetFails
  <1>5. ASSUME NEW rev \in Revisions, HostRecreates(rev) \/ HostRevises(rev)
        PROVE  UNCHANGED attemptVars
    BY <1>5 DEF HostRecreates, HostRevises
  <1>6. CASE UNCHANGED vars
    BY <1>3, <1>6 DEF vars
  <1> QED
    BY <1>1, <1>2, <1>3, <1>4, <1>5, <1>6 DEF Next, AttemptStep

LEMMA SnapshotTaken ==
    ASSUME TypeOK, [Next]_vars, NEW b \in Attempts, snap'[b] # snap[b]
    PROVE  snap'[b] = StoredBinding(row)
  <1>1. ASSUME NEW a \in Attempts, AttemptStep(a) \/ NativeExit(a) \/ Revoke(a) \/ Crash(a)
        PROVE  snap'[b] = StoredBinding(row)
    <2>1. CASE Resolve(a)
      BY <2>1 DEF Resolve, TypeOK
    <2>2. CASE ~Resolve(a)
      BY <1>1, <2>2 DEF AttemptStep, ClaimPrepare, ClaimCommit, ClaimLost, ClaimReturn, LaunchFence,
         Spawn, NotStarted, InitResumed, BindPrepare, BindCommit, BindReturn, ProcessSettles,
         EndSkipped, EndRetains, EndPrepare, EndCommit, EndTimesOut, EndReturn, Admit,
         AppendAnswer, AppendRejected, NativeExit, Revoke, Crash
    <2> QED
      BY <2>1, <2>2
  <1>2. ASSUME UNCHANGED attemptVars PROVE FALSE
    BY <1>2 DEF attemptVars
  <1>3. ASSUME NEW r \in Resets, ResetStep(r) PROVE UNCHANGED attemptVars
    BY <1>3 DEF ResetStep, RetirePrepare, RetireCommit, DrainCompletes, ClearPrepare, ClearCommit,
       ResetFails
  <1> QED
    BY <1>1, <1>2, <1>3 DEF Next, vars, HostRecreates, HostRevises

LEMMA ResolveTakes ==
    ASSUME TypeOK, [Next]_vars, NEW b \in Attempts, snap'[b] # snap[b]
    PROVE  Resolvable(row) /\ UNCHANGED <<row, gone>>
  <1>1. ASSUME NEW a \in Attempts, AttemptStep(a) \/ NativeExit(a) \/ Revoke(a) \/ Crash(a)
        PROVE  Resolvable(row) /\ UNCHANGED <<row, gone>>
    <2>1. CASE Resolve(a)
      BY <2>1 DEF Resolve
    <2>2. CASE ~Resolve(a)
      BY <1>1, <2>2 DEF AttemptStep, ClaimPrepare, ClaimCommit, ClaimLost, ClaimReturn, LaunchFence,
         Spawn, NotStarted, InitResumed, BindPrepare, BindCommit, BindReturn, ProcessSettles,
         EndSkipped, EndRetains, EndPrepare, EndCommit, EndTimesOut, EndReturn, Admit,
         AppendAnswer, AppendRejected, NativeExit, Revoke, Crash
    <2> QED
      BY <2>1, <2>2
  <1>2. ASSUME UNCHANGED attemptVars PROVE FALSE
    BY <1>2 DEF attemptVars
  <1>3. ASSUME NEW r \in Resets, ResetStep(r) PROVE UNCHANGED attemptVars
    BY <1>3 DEF ResetStep, RetirePrepare, RetireCommit, DrainCompletes, ClearPrepare, ClearCommit,
       ResetFails
  <1> QED
    BY <1>1, <1>2, <1>3 DEF Next, vars, HostRecreates, HostRevises

LEMMA FencePasses ==
    ASSUME IInv, [Next]_vars, NEW b \in Attempts, pc[b] = "leased", pc'[b] = "launching"
    PROVE  LaunchFence(b)
  <1>1. Driving(b)'
    BY DEF Driving
  <1>2. Driving(b) \/ LaunchFence(b)
    BY <1>1, DrivingFrom DEF IInv
  <1>3. ~Driving(b)
    BY DEF IInv, NativePhases, Driving
  <1> QED
    BY <1>2, <1>3

LEMMA NoResetBack ==
    ASSUME TypeOK, [Next]_vars, NEW q \in Resets, rpc'[q] \in {"idle", "retiring"}
    PROVE  rpc[q] \in {"idle", "retiring"}
  <1>1. ASSUME NEW r \in Resets, ResetStep(r) PROVE rpc[q] \in {"idle", "retiring"}
    BY <1>1 DEF ResetStep, RetirePrepare, RetireCommit, DrainCompletes, ClearPrepare, ClearCommit,
       ResetFails, RGoto, TypeOK
  <1>2. ASSUME UNCHANGED resetVars PROVE rpc[q] \in {"idle", "retiring"}
    BY <1>2 DEF resetVars
  <1>3. ASSUME NEW a \in Attempts, AttemptStep(a) \/ NativeExit(a) \/ Revoke(a) \/ Crash(a)
        PROVE  UNCHANGED resetVars
    BY <1>3 DEF AttemptStep, LaunchFence, Resolve, ClaimPrepare, ClaimCommit, ClaimLost, ClaimReturn,
       Spawn, NotStarted, InitResumed, BindPrepare, BindCommit, BindReturn, ProcessSettles,
       EndSkipped, EndRetains, EndPrepare, EndCommit, EndTimesOut, EndReturn, Admit,
       AppendAnswer, AppendRejected, NativeExit, Revoke, Crash
  <1>4. ASSUME NEW rev \in Revisions, HostRecreates(rev) \/ HostRevises(rev)
        PROVE  UNCHANGED resetVars
    BY <1>4 DEF HostRecreates, HostRevises
  <1> QED
    BY <1>1, <1>2, <1>3, <1>4 DEF Next, vars

-----------------------------------------------------------------------------
(***************************************************************************)
(* Generations.                                                             *)
(***************************************************************************)
Used == gone \cup (IF row.env = None THEN {} ELSE {row.env.epoch})

(* An epoch is used once only, by the operation that draws it.               *)
Spent ==
    /\ \A a \in Attempts : a \in Used => pc[a] \notin Early
    /\ \A r \in Resets : r \in Used => rpc[r] \notin {"idle", "retiring"}
    /\ EpochNeverReturns

(* A commit that leaves the generation alone, or ends it, uses no epoch.     *)
LEMMA SameGeneration ==
    ASSUME TypeOK, Spent, [Next]_vars,
           \/ UNCHANGED <<row, gone>>
           \/ \E new : Store(new),
           \/ row'.env = None
           \/ row.env # None /\ row'.env # None /\ row'.env.epoch = row.env.epoch
           \/ row'.env = row.env
    PROVE  Spent'
  <1>1. Used' \subseteq Used /\ EpochNeverReturns'
    BY DEF Store, Used, Spent, EpochNeverReturns
  <1> QED
    BY <1>1, NoWayBack, NoResetBack DEF Spent

LEMMA SpentStep ==
    ASSUME IInv, Spent, [Next]_vars
    PROVE  Spent'
  <1>0. TypeOK
    BY DEF IInv
  <1>1. CASE UNCHANGED <<row, gone>>
    BY <1>0, <1>1, SameGeneration
  <1>2. ASSUME NEW a \in Attempts, ClaimCommit(a) PROVE Spent'
    <2>1. /\ pc[a] = "claiming" /\ row'.env # None
          /\ row'.env.epoch = IF row.env = None THEN a ELSE row.env.epoch
      BY <1>2, ClaimWrites
    <2>2. \E new : Store(new)
      BY <1>2 DEF ClaimCommit, StoreEnvelope
    <2>3. CASE row.env # None
      BY <1>0, <2>1, <2>2, <2>3, SameGeneration
    <2>4. CASE row.env = None
      <3>1. gone' = gone /\ Used' = Used \cup {a} /\ a \notin Used /\ a \notin Resets
        BY <2>1, <2>2, <2>4, ActorsDisjoint DEF Store, Used, Spent, Early
      <3>2. pc'[a] = "claimed"
        BY <1>0, <1>2 DEF ClaimCommit, Goto, TypeOK
      <3>3. \A b \in Attempts : b \in Used' => pc'[b] \notin Early
        BY <1>0, <3>1, <3>2, NoWayBack DEF Spent, Early
      <3>4. \A r \in Resets : r \in Used' => rpc'[r] \notin {"idle", "retiring"}
        BY <1>0, <3>1, NoResetBack DEF Spent
      <3>5. EpochNeverReturns'
        BY <2>1, <2>4, <3>1 DEF Used, EpochNeverReturns
      <3> QED
        BY <3>3, <3>4, <3>5 DEF Spent
    <2> QED
      BY <2>3, <2>4
  <1>3. ASSUME NEW a \in Attempts, BindCommit(a) PROVE Spent'
    <2>1. \E new : Store(new)
      BY <1>3 DEF BindCommit, StoreEnvelope
    <2> QED
      BY <1>0, <1>3, <2>1, BindWrites, SameGeneration
  <1>4. ASSUME NEW a \in Attempts, EndCommit(a) PROVE Spent'
    <2>1. \E new : Store(new)
      BY <1>4 DEF EndCommit, StoreEnvelope
    <2> QED
      BY <1>0, <1>4, <2>1, EndWrites, SameGeneration
  <1>5. ASSUME NEW r \in Resets, RetireCommit(r) PROVE Spent'
    <2>1. rpc[r] = "retiring" /\ row'.env # None /\ row'.env.epoch = r
      BY <1>5, RetireWrites
    <2>2. r \notin Used /\ r \notin Attempts
      BY <2>1, ActorsDisjoint DEF Spent
    <2>3. gone' \subseteq Used /\ Used' \subseteq Used \cup {r}
      BY <1>5, <2>1 DEF RetireCommit, StoreEnvelope, Store, Used
    <2>4. rpc'[r] = "draining"
      BY <1>0, <1>5 DEF RetireCommit, RGoto, TypeOK
    <2>5. \A b \in Attempts : b \in Used' => pc'[b] \notin Early
      BY <1>0, <2>2, <2>3, NoWayBack DEF Spent
    <2>6. \A q \in Resets : q \in Used' => rpc'[q] \notin {"idle", "retiring"}
      BY <1>0, <2>3, <2>4, NoResetBack DEF Spent
    <2>7. EpochNeverReturns'
      BY <2>1, <2>2, <2>3 DEF EpochNeverReturns
    <2> QED
      BY <2>5, <2>6, <2>7 DEF Spent
  <1>6. ASSUME NEW r \in Resets, ClearCommit(r) PROVE Spent'
    <2>1. \E new : Store(new)
      BY <1>6 DEF ClearCommit, StoreEnvelope
    <2> QED
      BY <1>0, <1>6, <2>1, ClearWrites, SameGeneration
  <1>7. ASSUME NEW rev \in Revisions, HostRecreates(rev) \/ HostRevises(rev) PROVE Spent'
    <2>1. \E new : Store(new)
      BY <1>7 DEF HostRecreates, HostRevises
    <2> QED
      BY <1>0, <1>7, <2>1, HostWrites, SameGeneration
  <1> QED
    BY <1>1, <1>2, <1>3, <1>4, <1>5, <1>6, <1>7, RowWrites

(* EpochNeverReturns: a generation that a reset or the host ended is not     *)
(* brought back by a delayed commit, though every operation may be suspended *)
(* between its snapshot and its commit (patchSessionEntry, no ABA).          *)
THEOREM GenerationsEnd == Spec => []EpochNeverReturns
  <1>1. Init => Spent
    BY DEF Init, Spent, Used, EpochNeverReturns, Rows
  <1>2. Spent => EpochNeverReturns
    BY DEF Spent
  <1> QED
    BY <1>1, <1>2, Inductive, SpentStep, PTL DEF Spec

-----------------------------------------------------------------------------
(***************************************************************************)
(* Conversations.                                                           *)
(***************************************************************************)
(* A conversation is named only after its attempt has bound it.              *)
NamedWhenBound ==
    /\ row.env # None /\ row.env.binding # None => pc[row.env.binding.conv] \notin Unbound
    /\ \A a \in Attempts : snap[a] # None => pc[snap[a].conv] \notin Unbound

(* As long as an attempt's claim stands the binding is the one it claimed.   *)
ClaimStands ==
    /\ \A a \in Attempts :
          row.env # None /\ row.env.active # None /\ row.env.active.token = a =>
             /\ pc[a] \notin Early
             /\ pc[a] = "claimed" => row.env.binding = Claimed(base[a], a, route[a]).binding
             /\ pc[a] = "leased" => row.env.binding = lease[a].binding
    /\ \A a \in Attempts : pc[a] = "leased" => SameBinding(snap[a], lease[a].binding)

(* A process at work on the conversation in the row is covered there.        *)
ConversationCovered ==
    \A a \in Attempts :
        /\ Driving(a)
        /\ row.env # None /\ row.env.binding # None
        /\ row.env.binding.conv = Conversation(a)
        => Covered(a)

LEMMA NamedStep ==
    ASSUME IInv, NamedWhenBound, [Next]_vars
    PROVE  NamedWhenBound'
  <1>0. TypeOK
    BY DEF IInv
  <1>1. ASSUME row'.env # None, row'.env.binding # None
        PROVE  pc'[row'.env.binding.conv] \notin Unbound
    <2>1. \A b \in Attempts : pc[b] \notin Unbound => pc'[b] \notin Unbound
      BY <1>0, NoWayBack
    <2>2. ASSUME row.env # None, row.env.binding # None
          PROVE  row.env.binding.conv \in Attempts /\ pc[row.env.binding.conv] \notin Unbound
      BY <1>0, <2>2 DEF TypeOK, Rows, Envelopes, Bindings, Conversations, NamedWhenBound
    <2>3. ASSUME row'.env.binding = StoredBinding(row) PROVE pc'[row'.env.binding.conv] \notin Unbound
      BY <1>1, <2>1, <2>2, <2>3 DEF StoredBinding
    <2>4. CASE row'.env = None \/ row'.env = row.env
      BY <1>1, <2>3, <2>4 DEF StoredBinding
    <2>5. ASSUME NEW a \in Attempts, ClaimCommit(a) PROVE pc'[row'.env.binding.conv] \notin Unbound
      BY <2>3, <2>5, ClaimWrites
    <2>6. ASSUME NEW a \in Attempts, BindCommit(a) PROVE pc'[row'.env.binding.conv] \notin Unbound
      <3>1. pc'[a] = "rebinding"
        BY <1>0, <2>6 DEF BindCommit, Goto, TypeOK
      <3> QED
        BY <2>3, <2>6, <3>1, BindWrites DEF StoredBinding, Unbound, Early
    <2>7. ASSUME NEW a \in Attempts, EndCommit(a) PROVE pc'[row'.env.binding.conv] \notin Unbound
      BY <2>3, <2>4, <2>7, EndWrites DEF StoredBinding
    <2>8. ASSUME NEW r \in Resets, RetireCommit(r) PROVE pc'[row'.env.binding.conv] \notin Unbound
      BY <1>1, <2>1, <2>2, <2>8, RetireWrites
    <2>9. ASSUME NEW r \in Resets, ClearCommit(r) PROVE FALSE
      BY <1>1, <2>9, ClearWrites
    <2>10. ASSUME NEW rev \in Revisions, HostRecreates(rev) \/ HostRevises(rev)
           PROVE  pc'[row'.env.binding.conv] \notin Unbound
      BY <1>0, <2>4, <2>10, HostWrites
    <2> QED
      BY <2>4, <2>5, <2>6, <2>7, <2>8, <2>9, <2>10, RowWrites
  <1>2. ASSUME NEW a \in Attempts, snap'[a] # None
        PROVE  pc'[snap'[a].conv] \notin Unbound
    <2>1. \A b \in Attempts : pc[b] \notin Unbound => pc'[b] \notin Unbound
      BY <1>0, NoWayBack
    <2>2. CASE snap'[a] = snap[a]
      BY <1>0, <1>2, <2>1, <2>2 DEF TypeOK, Bindings, Conversations, NamedWhenBound
    <2>3. CASE snap'[a] # snap[a]
      <3>1. snap'[a] = StoredBinding(row)
        BY <1>0, <2>3, SnapshotTaken
      <3>2. /\ row.env # None /\ row.env.binding # None /\ row.env.binding.conv \in Attempts
            /\ pc[row.env.binding.conv] \notin Unbound
        BY <1>0, <1>2, <3>1 DEF StoredBinding, TypeOK, Rows, Envelopes, Bindings, Conversations,
           NamedWhenBound
      <3> QED
        BY <2>1, <3>1, <3>2 DEF StoredBinding
    <2> QED
      BY <2>2, <2>3
  <1> QED
    BY <1>1, <1>2 DEF NamedWhenBound

(* An attempt that claims does so once, on one snapshot and with one lease.  *)
LEMMA ClaimOnce ==
    ASSUME TypeOK, [Next]_vars, NEW b \in Attempts
    PROVE  /\ pc'[b] = "claimed" /\ pc[b] \notin Early => pc[b] = "claimed" /\ base'[b] = base[b]
           /\ pc'[b] = "leased" => ClaimReturn(b) \/ (pc[b] = "leased" /\ lease'[b] = lease[b])
  <1> USE DEF TypeOK, Goto, Early, Settling, Final
  <1>1. ASSUME NEW a \in Attempts, AttemptStep(a) \/ NativeExit(a) \/ Revoke(a) \/ Crash(a)
        PROVE  /\ pc'[b] = "claimed" /\ pc[b] \notin Early => pc[b] = "claimed" /\ base'[b] = base[b]
               /\ pc'[b] = "leased" => ClaimReturn(b) \/ (pc[b] = "leased" /\ lease'[b] = lease[b])
    <2>1. CASE ClaimReturn(a)
      <3>1. a = b \/ (pc'[b] = pc[b] /\ base'[b] = base[b] /\ lease'[b] = lease[b])
        BY <2>1 DEF ClaimReturn
      <3>2. pc'[a] \in {"leased", "closing", "failed"}
        BY <2>1 DEF ClaimReturn
      <3> QED
        BY <2>1, <3>1, <3>2
    <2>2. CASE ~ClaimReturn(a)
      BY <1>1, <2>2 DEF AttemptStep, Resolve, ClaimPrepare, ClaimCommit, ClaimLost, LaunchFence,
         Spawn, NotStarted, InitResumed, BindPrepare, BindCommit, BindReturn, ProcessSettles,
         EndSkipped, EndRetains, EndPrepare, EndCommit, EndTimesOut, EndReturn, Admit,
         AppendAnswer, AppendRejected, NativeExit, Revoke, Crash
    <2> QED
      BY <2>1, <2>2
  <1>2. ASSUME UNCHANGED attemptVars
        PROVE  pc'[b] = pc[b] /\ base'[b] = base[b] /\ lease'[b] = lease[b]
    BY <1>2 DEF attemptVars
  <1>3. ASSUME NEW r \in Resets, ResetStep(r) PROVE UNCHANGED attemptVars
    BY <1>3 DEF ResetStep, RetirePrepare, RetireCommit, DrainCompletes, ClearPrepare, ClearCommit,
       ResetFails
  <1> QED
    BY <1>1, <1>2, <1>3 DEF Next, vars, HostRecreates, HostRevises

LEMMA ClaimStandsStep ==
    ASSUME IInv, ClaimStands, [Next]_vars
    PROVE  ClaimStands'
  <1>0. TypeOK /\ route' = route
    BY RowWrites DEF IInv
  <1>1. ASSUME NEW a \in Attempts,
               row'.env # None, row'.env.active # None, row'.env.active.token = a
        PROVE  /\ pc'[a] \notin Early
               /\ pc'[a] = "claimed" => row'.env.binding = Claimed(base'[a], a, route'[a]).binding
               /\ pc'[a] = "leased" => row'.env.binding = lease'[a].binding
    <2> DEFINE Stands == /\ pc'[a] \notin Early
                         /\ pc'[a] = "claimed" => row'.env.binding = Claimed(base'[a], a, route'[a]).binding
                         /\ pc'[a] = "leased" => row'.env.binding = lease'[a].binding
    <2>1. CASE row'.env = row.env
      <3>1. /\ pc[a] \notin Early
            /\ pc[a] = "claimed" => row.env.binding = Claimed(base[a], a, route[a]).binding
            /\ pc[a] = "leased" => row.env.binding = lease[a].binding
        BY <1>1, <2>1 DEF ClaimStands
      <3>2. pc'[a] \notin Early
        BY <1>0, <3>1, NoWayBack
      <3>3. pc'[a] = "claimed" => row'.env.binding = Claimed(base'[a], a, route'[a]).binding
        BY <1>0, <2>1, <3>1, ClaimOnce
      <3>4. ASSUME pc'[a] = "leased" PROVE row'.env.binding = lease'[a].binding
        <4>1. CASE ClaimReturn(a)
          <5>1. pc[a] = "claimed" /\ lease'[a] = LeaseOf(a)
            BY <1>0, <3>4, <4>1 DEF ClaimReturn, Goto, TypeOK
          <5> QED
            BY <2>1, <3>1, <5>1 DEF LeaseOf
        <4>2. CASE ~ClaimReturn(a)
          BY <1>0, <2>1, <3>1, <3>4, <4>2, ClaimOnce
        <4> QED
          BY <4>1, <4>2
      <3> QED
        BY <3>2, <3>3, <3>4
    <2>2. ASSUME NEW c \in Attempts, ClaimCommit(c) PROVE Stands
      <3>0. /\ row = base[c] /\ row'.env = Claimed(row, c, route[c])
            /\ row'.env.active = [token |-> c, route |-> route[c]]
        BY <2>2, ClaimWrites
      <3>1. a = c
        BY <1>1, <3>0
      <3>2. pc'[c] = "claimed" /\ base' = base
        BY <1>0, <2>2 DEF ClaimCommit, Goto, TypeOK
      <3> QED
        BY <1>0, <3>0, <3>1, <3>2 DEF Early
    <2>3. ASSUME NEW c \in Attempts, BindCommit(c) PROVE Stands
      <3>1. a = c
        BY <1>1, <2>3, BindWrites
      <3>2. pc'[c] = "rebinding"
        BY <1>0, <2>3 DEF BindCommit, Goto, TypeOK
      <3> QED
        BY <3>1, <3>2 DEF Early
    <2>4. ASSUME \/ UNCHANGED <<row, gone>>
                 \/ \E c \in Attempts : EndCommit(c)
                 \/ \E r \in Resets : RetireCommit(r) \/ ClearCommit(r)
                 \/ \E rev \in Revisions : HostRecreates(rev) \/ HostRevises(rev)
          PROVE  row'.env = row.env
      BY <1>0, <1>1, <2>4, EndWrites, RetireWrites, ClearWrites, HostWrites
    <2> QED
      BY <2>1, <2>2, <2>3, <2>4, RowWrites
  <1>2. ASSUME NEW a \in Attempts, pc'[a] = "leased"
        PROVE  SameBinding(snap'[a], lease'[a].binding)
    <2>1. CASE ClaimReturn(a)
      BY <1>0, <1>2, <2>1 DEF ClaimReturn, Goto, TypeOK
    <2>2. CASE ~ClaimReturn(a)
      <3>1. pc[a] = "leased" /\ lease'[a] = lease[a] /\ snap'[a] = snap[a]
        BY <1>0, <1>2, <2>2, ClaimOnce, NoWayBack
      <3> QED
        BY <3>1 DEF ClaimStands
    <2> QED
      BY <2>1, <2>2
  <1> QED
    BY <1>1, <1>2 DEF ClaimStands

(* The conversation an attempt drives was fixed before.                      *)
LEMMA ConversationFixed ==
    ASSUME IInv, [Next]_vars, NEW b \in Attempts, Driving(b) \/ LaunchFence(b)
    PROVE  Conversation(b)' = Conversation(b)
  <1>1. pc[b] # "idle"
    BY DEF IInv, NativePhases, Driving, LaunchFence
  <1>2. snap'[b] = snap[b]
    BY <1>1, NoWayBack DEF IInv
  <1> QED
    BY <1>2 DEF Conversation

LEMMA ConversationStep ==
    ASSUME IInv, NamedWhenBound, ConversationCovered, [Next]_vars
    PROVE  ConversationCovered'
  <1> SUFFICES ASSUME NEW b \in Attempts, Driving(b)', row'.env # None, row'.env.binding # None,
                      row'.env.binding.conv = Conversation(b)'
               PROVE  Covered(b)'
    BY DEF ConversationCovered
  <1>0. TypeOK
    BY DEF IInv
  <1>1. CASE LaunchFence(b)
    BY <1>0, <1>1, FenceCovers
  <1>2. CASE Driving(b)
    <2>0. row'.env.binding.conv = Conversation(b)
      BY <1>2, ConversationFixed
    <2>1. ASSUME row.env # None, row.env.binding # None,
                 row'.env.binding.conv = row.env.binding.conv
          PROVE  Covered(b)
      BY <1>2, <2>0, <2>1 DEF ConversationCovered
    <2>2. CASE row'.env = row.env
      BY <2>1, <2>2 DEF Covered
    <2>3. ASSUME NEW a \in Attempts, ClaimCommit(a) PROVE FALSE
      <3>1. row.env # None /\ row.env.binding # None /\ row'.env.binding = row.env.binding
        BY <2>3, ClaimWrites DEF StoredBinding
      <3>2. row.env.active = None /\ ~row.env.pending
        BY <2>3, <3>1, ClaimWrites DEF MayClaim, Resolvable
      <3> QED
        BY <2>1, <3>1, <3>2 DEF Covered
    <2>4. ASSUME NEW a \in Attempts, BindCommit(a) PROVE Covered(b)'
      <3>1. /\ row.env # None /\ row.env.active # None /\ row.env.active.token = a
            /\ row'.env.active = row.env.active /\ row'.env.pending = row.env.pending
            /\ pc[a] = "binding"
        BY <2>4, BindWrites
      <3>2. CASE row'.env.binding = row.env.binding
        BY <2>1, <3>1, <3>2 DEF Covered
      <3>3. CASE row'.env.binding.conv = a /\ b = a
        BY <3>1, <3>3 DEF Covered
      <3>4. CASE row'.env.binding.conv = a /\ b # a
        <4>1. snap[b] # None /\ snap[b].conv = a
          BY <2>0, <3>4 DEF Conversation
        <4> QED
          BY <3>1, <4>1 DEF NamedWhenBound, Unbound
      <3> QED
        BY <2>4, <3>2, <3>3, <3>4, BindWrites
    <2>5. ASSUME NEW a \in Attempts, EndCommit(a) PROVE Covered(b)'
      <3>1. CASE row'.env = row.env
        BY <2>2, <3>1
      <3>2. CASE row'.env # row.env
        <4>1. /\ pc[a] = "settling" /\ row.env # None /\ row.env.active.token = a
              /\ row'.env.binding = row.env.binding /\ row'.env.pending = row.env.pending
          BY <2>5, <3>2, EndWrites
        <4>2. b # a
          BY <1>2, <4>1 DEF IInv, NativePhases, Driving
        <4> QED
          BY <2>1, <4>1, <4>2 DEF Covered
      <3> QED
        BY <3>1, <3>2
    <2>6. ASSUME NEW r \in Resets, RetireCommit(r) \/ ClearCommit(r) PROVE Covered(b)'
      BY <2>6, RetireWrites, ClearWrites DEF Covered
    <2>7. ASSUME NEW rev \in Revisions, HostRecreates(rev) \/ HostRevises(rev) PROVE Covered(b)'
      BY <1>0, <2>2, <2>7, HostWrites
    <2> QED
      BY <2>2, <2>3, <2>4, <2>5, <2>6, <2>7, RowWrites
  <1> QED
    BY <1>0, <1>1, <1>2, DrivingFrom

(* At the last fence nobody else is at work on the attempt's conversation.   *)
LEMMA FenceIsAlone ==
    ASSUME IInv, NamedWhenBound, ClaimStands, ConversationCovered,
           NEW c \in Attempts, NEW d \in Attempts, c # d, LaunchFence(c), Driving(d)
    PROVE  Conversation(c) # Conversation(d)
  <1>1. /\ pc[c] = "leased" /\ row.env # None /\ ~row.env.pending
        /\ row.env.active = [token |-> c, route |-> route[c]]
    BY DEF LaunchFence, LeaseActive, HoldsClaim
  <1>2. row.env.active # None /\ row.env.active.token = c
    BY <1>1, NoneIsNothing DEF IInv, TypeOK, Claims
  <1>3. row.env.binding = lease[c].binding /\ SameBinding(snap[c], lease[c].binding)
    BY <1>1, <1>2 DEF ClaimStands
  <1>4. ~Covered(d)
    BY <1>1, <1>2 DEF Covered
  <1>5. CASE snap[c] = None
    <2>1. Conversation(c) = c
      BY <1>5 DEF Conversation
    <2>2. snap[d] # None => snap[d].conv # c
      BY <1>1 DEF NamedWhenBound, Unbound
    <2> QED
      BY <2>1, <2>2 DEF Conversation
  <1>6. CASE snap[c] # None
    <2>1. snap[c].conv \in Attempts /\ None \notin Attempts
      BY <1>6, NoneIsNothing DEF IInv, TypeOK, Bindings, Conversations, Epochs
    <2>2. row.env.binding # None /\ row.env.binding.conv = Conversation(c)
      BY <1>3, <1>6, <2>1 DEF SameBinding, ConvOf, Conversation
    <2> QED
      BY <1>1, <1>4, <2>2 DEF ConversationCovered
  <1> QED
    BY <1>5, <1>6

Conversing == IInv /\ NamedWhenBound /\ ClaimStands /\ ConversationCovered /\ NoSharedConversation

LEMMA ConversingStep ==
    ASSUME Conversing, [Next]_vars
    PROVE  NoSharedConversation'
  <1> SUFFICES ASSUME NEW a \in Attempts, NEW b \in Attempts, a # b, Driving(a)', Driving(b)'
               PROVE  Conversation(a)' # Conversation(b)'
    BY DEF NoSharedConversation
  <1>1. (Driving(a) \/ LaunchFence(a)) /\ (Driving(b) \/ LaunchFence(b))
    BY DrivingFrom DEF Conversing, IInv
  <1>2. Conversation(a)' = Conversation(a) /\ Conversation(b)' = Conversation(b)
    BY <1>1, ConversationFixed DEF Conversing
  <1>3. CASE LaunchFence(a) /\ LaunchFence(b)
    <2>1. /\ row.env.active = [token |-> a, route |-> route[a]]
          /\ row.env.active = [token |-> b, route |-> route[b]]
      BY <1>3 DEF LaunchFence, LeaseActive, HoldsClaim
    <2> QED
      BY <2>1
  <1>4. CASE Driving(a) /\ Driving(b)
    BY <1>2, <1>4 DEF Conversing, NoSharedConversation
  <1>5. CASE LaunchFence(a) /\ Driving(b)
    BY <1>2, <1>5, FenceIsAlone DEF Conversing
  <1>6. CASE Driving(a) /\ LaunchFence(b)
    BY <1>2, <1>6, FenceIsAlone DEF Conversing
  <1> QED
    BY <1>1, <1>3, <1>4, <1>5, <1>6

LEMMA ConversingInductive ==
    /\ Init => Conversing
    /\ Conversing /\ [Next]_vars => Conversing'
  <1>1. Init => Conversing
    <2> SUFFICES ASSUME Init PROVE Conversing
      OBVIOUS
    <2>1. row.env = None /\ IInv
      BY Inductive DEF Init
    <2> QED
      BY <2>1 DEF Init, Conversing, NamedWhenBound, ClaimStands, ConversationCovered,
         NoSharedConversation, Driving
  <1>2. Conversing /\ [Next]_vars => Conversing'
    BY Inductive, NamedStep, ClaimStandsStep, ConversationStep, ConversingStep DEF Conversing
  <1> QED
    BY <1>1, <1>2

(* NoSharedConversation: even when the host has thrown the row away under a  *)
(* running attempt, no two native processes work on one conversation.        *)
THEOREM ConversationsAreExclusive == Spec => []NoSharedConversation
  <1>1. Conversing => NoSharedConversation
    BY DEF Conversing
  <1> QED
    BY <1>1, ConversingInductive, PTL DEF Spec

-----------------------------------------------------------------------------
(***************************************************************************)
(* Bindings.                                                                *)
(***************************************************************************)
(* A conversation enters the row only by the attempt that holds the claim    *)
(* and whose own native process created it, and never replaces another.      *)
BindingWrittenByClaimant ==
    [][LET old == ConvOf(StoredBinding(row))
           new == ConvOf(StoredBinding(row'))
       IN  new \notin {None, old} =>
              /\ old = None
              /\ row.env # None
              /\ row.env.active # None
              /\ row.env.active.token = new]_vars

(* BindingWrittenByClaimant: a conversation is bound only under the claim of *)
(* the attempt whose own native process created it, and only where there was *)
(* none (bindFresh), however long ago its patch was prepared.                *)
THEOREM BoundByClaimant == Spec => BindingWrittenByClaimant
  <1> DEFINE old == ConvOf(StoredBinding(row))
             new == ConvOf(StoredBinding(row'))
  <1>1. ASSUME IInv, [Next]_vars, new \notin {None, old}
        PROVE  /\ old = None
               /\ row.env # None
               /\ row.env.active # None
               /\ row.env.active.token = new
    <2>1. row'.env # None /\ row'.env.binding # None /\ new = row'.env.binding.conv
      BY <1>1 DEF ConvOf, StoredBinding
    <2>2. ASSUME row'.env = row.env PROVE FALSE
      BY <1>1, <2>2 DEF StoredBinding
    <2>3. ASSUME NEW a \in Attempts, ClaimCommit(a) PROVE FALSE
      BY <1>1, <2>3, ClaimWrites DEF StoredBinding
    <2>4. ASSUME NEW a \in Attempts, BindCommit(a)
          PROVE  /\ old = None /\ row.env # None /\ row.env.active # None
                 /\ row.env.active.token = new
      <3>1. /\ row.env # None /\ row.env.active # None /\ row.env.active.token = a
            /\ \/ row'.env.binding = row.env.binding
               \/ row'.env.binding.conv = a
        BY <1>1, <2>4, BindWrites
      <3>2. row'.env.binding # row.env.binding
        BY <1>1, <2>1, <3>1 DEF StoredBinding
      <3>3. row.env.binding = None
        BY <1>1, <2>4, <3>2, BindsOnce
      <3> QED
        BY <2>1, <3>1, <3>2, <3>3 DEF ConvOf, StoredBinding
    <2>5. ASSUME NEW a \in Attempts, EndCommit(a) PROVE FALSE
      BY <1>1, <2>2, <2>5, EndWrites DEF StoredBinding
    <2>6. ASSUME NEW r \in Resets, RetireCommit(r) PROVE FALSE
      BY <1>1, <2>1, <2>6, RetireWrites DEF ConvOf, StoredBinding
    <2>7. ASSUME NEW r \in Resets, ClearCommit(r) PROVE FALSE
      BY <1>1, <2>1, <2>7, ClearWrites
    <2>8. ASSUME NEW rev \in Revisions, HostRecreates(rev) \/ HostRevises(rev) PROVE FALSE
      BY <1>1, <2>1, <2>2, <2>8, HostWrites DEF IInv
    <2> QED
      BY <1>1, <2>2, <2>3, <2>4, <2>5, <2>6, <2>7, <2>8, RowWrites
  <1>2. ASSUME IInv, [Next]_vars
        PROVE  [new \notin {None, old} =>
                  /\ old = None
                  /\ row.env # None
                  /\ row.env.active # None
                  /\ row.env.active.token = new]_vars
    BY <1>1, <1>2
  <1> QED
    BY <1>2, Inductive, PTL DEF Spec, BindingWrittenByClaimant

(* BindingDroppedWhenQuiet: a reset forgets a sound binding only after its   *)
(* drain, when nobody works on the conversation any more (clear).            *)
THEOREM DroppedWhenQuiet == Spec => BindingDroppedWhenQuiet
  <1>1. ASSUME IInv, [Next]_vars, NEW a \in Attempts,
               ConvOf(StoredBinding(row)) # None, row.env.rev = row.rev,
               row'.env # None, row'.env.binding = None,
               Driving(a), Conversation(a) = ConvOf(StoredBinding(row))
        PROVE  FALSE
    <2>1. row.env # None /\ row.env.binding # None
      BY <1>1 DEF ConvOf, StoredBinding
    <2>2. ASSUME row'.env = row.env PROVE FALSE
      BY <1>1, <2>1, <2>2
    <2>3. ASSUME NEW b \in Attempts, ClaimCommit(b) PROVE FALSE
      BY <1>1, <2>1, <2>3, ClaimWrites DEF StoredBinding
    <2>4. ASSUME NEW b \in Attempts, BindCommit(b) PROVE FALSE
      BY <1>1, <2>1, <2>4, BindWrites
    <2>5. ASSUME NEW b \in Attempts, EndCommit(b) PROVE FALSE
      BY <1>1, <2>1, <2>2, <2>5, EndWrites
    <2>6. ASSUME NEW r \in Resets, RetireCommit(r) PROVE FALSE
      <3>1. rbase[r] = row /\ row \in Rows /\ Parses(row)
        BY <1>1, <2>6 DEF RetireCommit, Unchanged, IInv, TypeOK, EnvelopeWellFormed, Parses
      <3>2. Retired(row, r) \in Envelopes
        BY <3>1, RetiredEnvelope
      <3>3. row'.env = Retired(row, r)
        BY <1>1, <2>6, <3>1, <3>2, StoreType DEF RetireCommit, IInv
      <3>4. Retired(row, r).binding = [row.env.binding EXCEPT !.epoch = r]
        BY <2>1, <3>1 DEF Retired, StoredBinding
      <3>5. [row.env.binding EXCEPT !.epoch = r] \in Bindings
        BY <2>1, <3>1 DEF Rows, Envelopes, Bindings, Epochs
      <3> QED
        BY <1>1, <3>3, <3>4, <3>5, NoneIsNothing
    <2>7. ASSUME NEW r \in Resets, ClearCommit(r) PROVE FALSE
      <3>1. rbase[r] = row /\ rpc[r] = "clearing" /\ MayClear(row, r)
        BY <1>1, <2>7 DEF ClearCommit, Unchanged, IInv, Prepared
      <3>2. Drained
        BY <1>1, <3>1 DEF IInv, DrainHolds, MayClear
      <3> QED
        BY <1>1, <3>2 DEF Drained
    <2>8. ASSUME NEW rev \in Revisions, HostRecreates(rev) \/ HostRevises(rev) PROVE FALSE
      BY <1>1, <2>2, <2>8, HostWrites DEF IInv
    <2> QED
      BY <1>1, <2>2, <2>3, <2>4, <2>5, <2>6, <2>7, <2>8, RowWrites
  <1>2. ASSUME IInv, [Next]_vars
        PROVE  [\A a \in Attempts :
                  LET old == ConvOf(StoredBinding(row)) IN
                  /\ old # None
                  /\ row.env.rev = row.rev
                  /\ row'.env # None
                  /\ row'.env.binding = None
                  => ~(Driving(a) /\ Conversation(a) = old)]_vars
    BY <1>1, <1>2
  <1> QED
    BY <1>2, Inductive, PTL DEF Spec, BindingDroppedWhenQuiet

-----------------------------------------------------------------------------
(***************************************************************************)
(* Resuming.                                                                *)
(***************************************************************************)
(* As long as the generation stands in which an attempt resolved a binding,  *)
(* the row holds that very binding.                                          *)
SnapshotStands ==
    \A a \in Attempts : snap[a] # None =>
        /\ snap[a].epoch \in Used
        /\ row.env # None /\ row.env.epoch = snap[a].epoch =>
              row.env.binding = snap[a] /\ ~row.env.pending

LEMMA SnapshotStep ==
    ASSUME IInv, Spent, SnapshotStands, [Next]_vars
    PROVE  SnapshotStands'
  <1> SUFFICES ASSUME NEW a \in Attempts, snap'[a] # None
               PROVE  /\ snap'[a].epoch \in Used'
                      /\ row'.env # None /\ row'.env.epoch = snap'[a].epoch =>
                            row'.env.binding = snap'[a] /\ ~row'.env.pending
    BY DEF SnapshotStands
  <1>0. TypeOK
    BY DEF IInv
  <1>1. Used \subseteq Used'
    BY RowWrites DEF Used, Store, StoreEnvelope, ClaimCommit, BindCommit, EndCommit, RetireCommit,
       ClearCommit, HostRecreates, HostRevises
  <1>2. CASE snap'[a] # snap[a]
    <2>1. snap'[a] = StoredBinding(row)
      BY <1>0, <1>2, SnapshotTaken
    <2>2. Resolvable(row) /\ UNCHANGED <<row, gone>>
      BY <1>0, <1>2, ResolveTakes
    <2>3. /\ row.env # None /\ row.env.binding = snap'[a]
          /\ row.env.binding.epoch = row.env.epoch /\ ~row.env.pending
      BY <2>1, <2>2 DEF StoredBinding, Resolvable, Parses, WellFormed, BindingMatches
    <2> QED
      BY <2>2, <2>3 DEF Used
  <1>3. CASE snap'[a] = snap[a]
    <2>1. /\ snap[a].epoch \in Used
          /\ row.env # None /\ row.env.epoch = snap[a].epoch =>
                row.env.binding = snap[a] /\ ~row.env.pending
      BY <1>3 DEF SnapshotStands
    <2> SUFFICES ASSUME row'.env # None, row'.env.epoch = snap[a].epoch
                 PROVE  row'.env.binding = snap[a] /\ ~row'.env.pending
      BY <1>1, <1>3, <2>1
    <2>2. CASE row'.env = row.env
      BY <2>1, <2>2
    <2>3. ASSUME NEW b \in Attempts, ClaimCommit(b)
          PROVE  row'.env.binding = snap[a] /\ ~row'.env.pending
      <3>1. b \notin Used
        BY <2>3, ClaimWrites DEF Spent, Early
      <3>2. row.env # None /\ row.env.epoch = snap[a].epoch
        BY <2>1, <2>3, <3>1, ClaimWrites
      <3> QED
        BY <2>1, <2>3, <3>2, ClaimWrites DEF StoredBinding
    <2>4. ASSUME NEW b \in Attempts, BindCommit(b)
          PROVE  row'.env.binding = snap[a] /\ ~row'.env.pending
      <3>1. row.env.binding = snap[a] /\ ~row.env.pending /\ row'.env.pending = row.env.pending
        BY <2>1, <2>4, BindWrites
      <3> QED
        BY <1>3, <2>4, <3>1, BindsOnce
    <2>5. ASSUME NEW b \in Attempts, EndCommit(b)
          PROVE  row'.env.binding = snap[a] /\ ~row'.env.pending
      BY <2>1, <2>2, <2>5, EndWrites
    <2>6. ASSUME NEW r \in Resets, RetireCommit(r) PROVE FALSE
      BY <2>1, <2>6, RetireWrites DEF Spent
    <2>7. ASSUME NEW r \in Resets, ClearCommit(r) PROVE FALSE
      <3>1. row.env # None /\ row.env.pending
        BY <2>7 DEF ClearCommit, Unchanged, IInv, Prepared, MayClear
      <3> QED
        BY <2>1, <2>7, <3>1, ClearWrites
    <2>8. ASSUME NEW rev \in Revisions, HostRecreates(rev) \/ HostRevises(rev)
          PROVE  row'.env.binding = snap[a] /\ ~row'.env.pending
      BY <1>0, <2>2, <2>8, HostWrites
    <2> QED
      BY <2>2, <2>3, <2>4, <2>5, <2>6, <2>7, <2>8, RowWrites
  <1> QED
    BY <1>2, <1>3

(* An attempt resumes what the row holds at its last fence.                  *)
LEMMA ResumesBound ==
    ASSUME Conversing, SnapshotStands, NEW a \in Attempts, LaunchFence(a)
    PROVE  StoredBinding(row) = snap[a]
  <1>0. TypeOK
    BY DEF Conversing, IInv
  <1>1. /\ pc[a] = "leased" /\ row.env # None /\ Parses(row)
        /\ row.env.active = [token |-> a, route |-> route[a]]
    BY DEF LaunchFence, LeaseActive, HoldsClaim
  <1>2. row.env.active # None /\ row.env.active.token = a
    BY <1>0, <1>1, NoneIsNothing DEF TypeOK, Claims
  <1>3. row.env.binding = lease[a].binding /\ SameBinding(snap[a], lease[a].binding)
    BY <1>1, <1>2 DEF Conversing, ClaimStands
  <1>4. CASE snap[a] = None
    <2>1. ConvOf(row.env.binding) = None
      BY <1>3, <1>4 DEF SameBinding, ConvOf
    <2>2. row.env.binding # None => row.env.binding.conv \in Attempts
      BY <1>0, <1>1 DEF TypeOK, Rows, Envelopes, Bindings, Conversations
    <2>3. row.env.binding = None
      BY <2>1, <2>2, NoneIsNothing DEF ConvOf, Epochs
    <2> QED
      BY <1>1, <1>4, <2>3 DEF StoredBinding
  <1>5. CASE snap[a] # None
    <2>1. snap[a].conv \in Attempts
      BY <1>0, <1>5 DEF TypeOK, Bindings, Conversations
    <2>2. row.env.binding # None /\ row.env.binding.epoch = snap[a].epoch
      BY <1>3, <1>5, <2>1, NoneIsNothing DEF SameBinding, ConvOf, Epochs
    <2>3. row.env.epoch = snap[a].epoch
      BY <1>1, <2>2 DEF Parses, WellFormed, BindingMatches
    <2> QED
      BY <1>1, <1>5, <2>3 DEF SnapshotStands, StoredBinding
  <1> QED
    BY <1>4, <1>5

(* ResumeMatchesRow: an attempt passes its last fence only if the row still  *)
(* holds the binding it resolved, or none if it found none, whatever became  *)
(* of the session in between (run-attempt.ts, before the spawn).             *)
THEOREM ResumesWhatStands == Spec => ResumeMatchesRow
  <1>1. ASSUME Conversing, SnapshotStands, [Next]_vars,
               NEW a \in Attempts, pc[a] = "leased", pc'[a] = "launching"
        PROVE  StoredBinding(row) = snap[a]
    <2>1. LaunchFence(a)
      BY <1>1, FencePasses DEF Conversing
    <2> QED
      BY <1>1, <2>1, ResumesBound
  <1>2. ASSUME Conversing, SnapshotStands, [Next]_vars
        PROVE  [\A a \in Attempts :
                  pc[a] = "leased" /\ pc'[a] = "launching" => StoredBinding(row) = snap[a]]_vars
    BY <1>1, <1>2
  <1>3. Init => Spent /\ SnapshotStands
    BY DEF Init, Spent, Used, EpochNeverReturns, Rows, SnapshotStands
  <1>4. Conversing => IInv
    BY DEF Conversing
  <1> QED
    BY <1>2, <1>3, <1>4, ConversingInductive, SpentStep, SnapshotStep, PTL DEF Spec, ResumeMatchesRow

-----------------------------------------------------------------------------
(***************************************************************************)
(* Results.                                                                 *)
(***************************************************************************)
(* Whoever is named in the row, by its claim or its settled attempt, claimed *)
(* last.                                                                     *)
ClaimsInOrder ==
    row.env # None =>
        /\ row.env.active # None =>
              claims # <<>> /\ row.env.active.token = claims[Len(claims)]
        /\ row.env.settled # None =>
              claims # <<>> /\ row.env.settled.token = claims[Len(claims)]

(* A lease is of a generation that was not pending, and never is.            *)
LeaseStands ==
    \A a \in Attempts : lease[a] # None =>
        /\ pc[a] \notin Early \cup {"claimed"}
        /\ lease[a].epoch \in Used
        /\ row.env # None /\ row.env.epoch = lease[a].epoch => ~row.env.pending

Launched == {"leased", "launching", "running", "binding", "rebinding", "bound"}

(* An attempt that goes on with its lease resolved in the same generation.   *)
SuccessorStands ==
    \A a \in Attempts : pc[a] \in Launched \/ ok[a] =>
        /\ lease[a] # None
        /\ snap[a] # None => snap[a].epoch = lease[a].epoch

Assured(a) == pc[a] \in {"rebinding", "bound"} \/ ok[a]

(* As long as its generation stands, what a fresh attempt bound is bound.    *)
BindingStands ==
    \A a \in Attempts :
        /\ pc[a] \in {"binding", "rebinding"} => snap[a] = None
        /\ pc[a] = "binding" /\ base[a].env # None /\ base[a].env.binding # None =>
              base[a].env.binding.conv = a
        /\ Assured(a) /\ snap[a] = None /\ row.env # None /\ row.env.epoch = lease[a].epoch =>
              row.env.binding # None /\ row.env.binding.conv = a

(* Where an attempt comes from.                                              *)
LEMMA ComesFrom ==
    ASSUME TypeOK, [Next]_vars, NEW b \in Attempts
    PROVE  /\ lease'[b] # lease[b] => ClaimReturn(b)
           /\ pc'[b] \in Launched => pc[b] \in Launched \/ ClaimReturn(b)
           /\ ok'[b] /\ ~ok[b] => pc[b] = "bound"
           /\ pc'[b] = "binding" => BindPrepare(b) \/ (pc[b] = "binding" /\ base'[b] = base[b])
           /\ pc'[b] = "rebinding" => pc[b] = "rebinding" \/ BindCommit(b)
           /\ pc'[b] = "bound" => pc[b] \in {"rebinding", "bound"} \/ InitResumed(b)
           /\ pc'[b] = "appending" /\ pc[b] = "ended" => Admit(b)
  <1> USE DEF TypeOK, Goto, Launched, Settling, Final
  <1> DEFINE Goal ==
        /\ lease'[b] # lease[b] => ClaimReturn(b)
        /\ pc'[b] \in Launched => pc[b] \in Launched \/ ClaimReturn(b)
        /\ ok'[b] /\ ~ok[b] => pc[b] = "bound"
        /\ pc'[b] = "binding" => BindPrepare(b) \/ (pc[b] = "binding" /\ base'[b] = base[b])
        /\ pc'[b] = "rebinding" => pc[b] = "rebinding" \/ BindCommit(b)
        /\ pc'[b] = "bound" => pc[b] \in {"rebinding", "bound"} \/ InitResumed(b)
        /\ pc'[b] = "appending" /\ pc[b] = "ended" => Admit(b)
  <1>1. ASSUME UNCHANGED attemptVars PROVE Goal
    BY <1>1 DEF attemptVars
  <1>2. ASSUME NEW a \in Attempts, a # b, AttemptStep(a) \/ NativeExit(a) \/ Revoke(a) \/ Crash(a)
        PROVE  Goal
    <2>1. UNCHANGED <<pc[b], base[b], lease[b], ok[b]>>
      BY <1>2 DEF AttemptStep, Resolve, ClaimPrepare, ClaimCommit, ClaimLost, ClaimReturn, LaunchFence,
         Spawn, NotStarted, InitResumed, BindPrepare, BindCommit, BindReturn, ProcessSettles,
         EndSkipped, EndRetains, EndPrepare, EndCommit, EndTimesOut, EndReturn, Admit,
         AppendAnswer, AppendRejected, NativeExit, Revoke, Crash
    <2> QED
      BY <2>1
  <1>3. ASSUME \/ Resolve(b) \/ ClaimPrepare(b) \/ ClaimCommit(b) \/ ClaimLost(b)
               \/ LaunchFence(b) \/ Spawn(b) \/ NotStarted(b) \/ ProcessSettles(b)
        PROVE  Goal
    BY <1>3 DEF Resolve, ClaimPrepare, ClaimCommit, ClaimLost, LaunchFence, Spawn, NotStarted,
       ProcessSettles
  <1>4. ASSUME ClaimReturn(b)
        PROVE  Goal
    <2>1. pc'[b] \in {"leased", "closing", "failed"} /\ ok' = ok
      BY <1>4 DEF ClaimReturn
    <2> QED
      BY <1>4, <2>1
  <1>5. ASSUME InitResumed(b)
        PROVE  Goal
    <2>1. pc'[b] = "bound" /\ pc[b] = "running" /\ UNCHANGED <<ok, lease>>
      BY <1>5 DEF InitResumed
    <2> QED
      BY <1>5, <2>1
  <1>6. ASSUME BindPrepare(b)
        PROVE  Goal
    <2>1. pc'[b] = "binding" /\ pc[b] = "running" /\ UNCHANGED <<ok, lease>>
      BY <1>6 DEF BindPrepare
    <2> QED
      BY <1>6, <2>1
  <1>7. ASSUME BindCommit(b)
        PROVE  Goal
    <2>1. pc'[b] = "rebinding" /\ pc[b] = "binding" /\ UNCHANGED <<ok, lease>>
      BY <1>7 DEF BindCommit
    <2> QED
      BY <1>7, <2>1
  <1>8. ASSUME Admit(b)
        PROVE  Goal
    <2>1. pc'[b] \in {"appending", "failed"} /\ UNCHANGED <<ok, lease>>
      BY <1>8 DEF Admit
    <2> QED
      BY <1>8, <2>1
  <1>9. ASSUME \/ BindReturn(b) \/ EndSkipped(b) \/ EndRetains(b) \/ EndPrepare(b) \/ EndCommit(b)
               \/ EndTimesOut(b) \/ EndReturn(b) \/ AppendAnswer(b) \/ AppendRejected(b)
               \/ NativeExit(b) \/ Revoke(b) \/ Crash(b)
        PROVE  Goal
    BY <1>9 DEF BindReturn, EndSkipped, EndRetains, EndPrepare, EndCommit, EndTimesOut, EndReturn,
       AppendAnswer, AppendRejected, NativeExit, Revoke, Crash
  <1>10. ASSUME NEW r \in Resets, ResetStep(r) PROVE UNCHANGED attemptVars
    BY <1>10 DEF ResetStep, RetirePrepare, RetireCommit, DrainCompletes, ClearPrepare, ClearCommit,
       ResetFails
  <1>11. ASSUME NEW rev \in Revisions, HostRecreates(rev) \/ HostRevises(rev)
         PROVE  UNCHANGED attemptVars
    BY <1>11 DEF HostRecreates, HostRevises
  <1>12. UNCHANGED vars => UNCHANGED attemptVars
    BY DEF vars
  <1> HIDE DEF Goal, TypeOK, Goto, Launched, Settling, Final
  <1>13. ASSUME NEW a \in Attempts, AttemptStep(a) \/ NativeExit(a) \/ Revoke(a) \/ Crash(a)
         PROVE  Goal
    <2>1. CASE a # b
      BY <1>2, <1>13, <2>1
    <2>2. CASE a = b
      <3>1. AttemptStep(b) \/ NativeExit(b) \/ Revoke(b) \/ Crash(b)
        BY <1>13, <2>2
      <3> QED
        BY <1>3, <1>4, <1>5, <1>6, <1>7, <1>8, <1>9, <3>1 DEF AttemptStep
    <2> QED
      BY <2>1, <2>2
  <1>14. Goal
    BY <1>1, <1>10, <1>11, <1>12, <1>13 DEF Next
  <1> QED
    BY <1>14 DEF Goal

(* What becomes of the settled attempt when the row is written.              *)
LEMMA SettledWrites ==
    ASSUME IInv, NEW a \in Attempts, EndCommit(a), row'.env # row.env
    PROVE  /\ row.env # None /\ row.env.active # None /\ row.env.active.token = a
           /\ row'.env.active = None /\ row'.env.settled # None /\ row'.env.settled.token = a
  <1> USE DEF IInv
  <1>1. base[a] = row /\ row \in Rows /\ route[a] \in Routes
    BY DEF EndCommit, Unchanged, TypeOK
  <1> DEFINE e == Ended(row, lease[a], a, route[a])
             d == [token |-> a, route |-> route[a], conv |-> ConvOf(row.env.binding)]
  <1>2. row'.env = e /\ e \in Envelopes \cup {None}
    BY <1>1, EndedEnvelope, StoreType DEF EndCommit
  <1>3. OwnsEnd(row, lease[a], a)
    BY <1>1, <1>2, EndedEnvelope
  <1>4. row.env \in Envelopes /\ row.env # None /\ row.env.active # None /\ row.env.active.token = a
    BY <1>1, <1>3 DEF OwnsEnd, Rows
  <1>5. e.active = None /\ e.settled = d
    BY <1>3, <1>4 DEF Ended, Envelopes
  <1>6. d \in Settled
    BY <1>1, <1>4 DEF Settled, ConvOf, Envelopes, Bindings
  <1>7. d # None /\ d.token = a
    BY <1>6, NoneIsNothing
  <1> QED
    BY <1>2, <1>4, <1>5, <1>7

LEMMA ClearSettlesNothing ==
    ASSUME IInv, NEW r \in Resets, ClearCommit(r)
    PROVE  row'.env.settled = None
  <1> USE DEF IInv
  <1>1. rbase[r] = row /\ row \in Rows /\ MayClear(row, r)
    BY DEF ClearCommit, Unchanged, Prepared, TypeOK
  <1>2. row.env \in Envelopes /\ row.env # None /\ row.env.settled = None
    BY <1>1 DEF MayClear, Rows, Parses, WellFormed, SettledMatches
  <1>3. Cleared(row).settled = None /\ Cleared(row) \in Envelopes
    BY <1>1, <1>2, ClearedEnvelope DEF Cleared, Envelopes
  <1>4. row'.env = Cleared(row)
    BY <1>1, <1>3, StoreType DEF ClearCommit
  <1> QED
    BY <1>3, <1>4

LEMMA ClaimsOnlyByClaim ==
    ASSUME [Next]_vars
    PROVE  UNCHANGED claims \/ \E a \in Attempts : ClaimCommit(a)
  BY DEF Next, vars, AttemptStep, ResetStep, Resolve, ClaimPrepare, ClaimLost, ClaimReturn,
     LaunchFence, Spawn, NotStarted, InitResumed, BindPrepare, BindCommit,
     BindReturn, ProcessSettles, EndSkipped, EndRetains, EndPrepare,
     EndCommit, EndTimesOut, EndReturn, Admit, AppendAnswer, AppendRejected,
     NativeExit, Revoke, Crash, RetirePrepare, RetireCommit, DrainCompletes,
     ClearPrepare, ClearCommit, ResetFails, HostRecreates, HostRevises

LEMMA ClaimsStep ==
    ASSUME IInv, ClaimsInOrder, [Next]_vars
    PROVE  ClaimsInOrder'
  <1>0. IInv'
    BY Inductive
  <1>1. ASSUME row'.env # None, row'.env.active # None \/ row'.env.pending
        PROVE  row'.env.settled = None
    BY <1>0, <1>1 DEF IInv, EnvelopeWellFormed, WellFormed, SettledMatches
  <1>2. ASSUME NEW a \in Attempts, ClaimCommit(a) PROVE ClaimsInOrder'
    <2>1. claims' = Append(claims, a) /\ claims \in Seq(Attempts)
      BY <1>2 DEF ClaimCommit, IInv, TypeOK
    <2>2. claims' # <<>> /\ claims'[Len(claims')] = a
      <3>1. Len(claims') = Len(claims) + 1 /\ claims'[Len(claims) + 1] = a
        BY <2>1
      <3>2. claims' # <<>>
        BY <2>1, <3>1
      <3>3. claims'[Len(claims')] = a
        BY <3>1, Zenon
      <3> QED
        BY <3>2, <3>3
    <2>3. /\ row'.env # None /\ row'.env.active # None
          /\ row'.env.active = [token |-> a, route |-> route[a]]
      BY <1>2, ClaimWrites
    <2> QED
      BY <1>1, <2>2, <2>3 DEF ClaimsInOrder
  <1>3. CASE UNCHANGED claims
    <2>1. CASE row'.env = None \/ row'.env = row.env
      BY <1>3, <2>1 DEF ClaimsInOrder
    <2>2. ASSUME NEW a \in Attempts, BindCommit(a) PROVE ClaimsInOrder'
      <3>1. /\ row.env # None /\ row'.env # None
            /\ row'.env.active = row.env.active /\ row'.env.active # None
        BY <2>2, BindWrites
      <3> QED
        BY <1>1, <1>3, <3>1 DEF ClaimsInOrder
    <2>3. ASSUME NEW a \in Attempts, EndCommit(a) PROVE ClaimsInOrder'
      <3>1. CASE row'.env # row.env
        BY <1>3, <2>3, <3>1, SettledWrites DEF ClaimsInOrder
      <3> QED
        BY <2>1, <3>1
    <2>4. ASSUME NEW r \in Resets, RetireCommit(r) PROVE ClaimsInOrder'
      BY <1>1, <2>4, RetireWrites DEF ClaimsInOrder
    <2>5. ASSUME NEW r \in Resets, ClearCommit(r) PROVE ClaimsInOrder'
      BY <2>5, ClearWrites, ClearSettlesNothing DEF ClaimsInOrder
    <2>6. ASSUME NEW rev \in Revisions, HostRecreates(rev) \/ HostRevises(rev)
          PROVE  ClaimsInOrder'
      BY <2>1, <2>6, HostWrites DEF IInv
    <2> QED
      BY <1>2, <2>1, <2>2, <2>3, <2>4, <2>5, <2>6, RowWrites
  <1> QED
    BY <1>2, <1>3, ClaimsOnlyByClaim

(* What a lease rests on: the row of a generation in use changes only so.    *)
LEMMA GenerationStands ==
    ASSUME IInv, Spent, LeaseStands, [Next]_vars, NEW a \in Attempts, lease[a] # None,
           row'.env # None, row'.env.epoch = lease[a].epoch
    PROVE  /\ row.env # None /\ row.env.epoch = lease[a].epoch /\ ~row'.env.pending
           /\ \/ row'.env.binding = row.env.binding
              \/ \E b \in Attempts : BindCommit(b) /\ row.env.binding = None
  <1>0. TypeOK
    BY DEF IInv
  <1>1. /\ lease[a].epoch \in Used
        /\ row.env # None /\ row.env.epoch = lease[a].epoch => ~row.env.pending
    BY DEF LeaseStands
  <1>2. CASE row'.env = row.env
    BY <1>1, <1>2
  <1>3. ASSUME NEW b \in Attempts, ClaimCommit(b), row'.env # row.env
        PROVE  /\ row.env # None /\ row.env.epoch = lease[a].epoch /\ ~row'.env.pending
               /\ row'.env.binding = row.env.binding
    <2>1. b \notin Used
      BY <1>3, ClaimWrites DEF Spent, Early
    <2>2. row.env # None /\ row.env.epoch = lease[a].epoch
      BY <1>1, <1>3, <2>1, ClaimWrites
    <2> QED
      BY <1>3, <2>2, ClaimWrites DEF StoredBinding
  <1>4. ASSUME NEW b \in Attempts, BindCommit(b)
        PROVE  /\ row.env # None /\ row.env.epoch = lease[a].epoch /\ ~row'.env.pending
               /\ row'.env.binding = row.env.binding \/ row.env.binding = None
    <2>1. row.env # None /\ row.env.epoch = lease[a].epoch /\ ~row'.env.pending
      BY <1>1, <1>4, BindWrites
    <2> QED
      BY <1>4, <2>1, BindsOnce
  <1>5. ASSUME NEW b \in Attempts, EndCommit(b), row'.env # row.env
        PROVE  /\ row.env # None /\ row.env.epoch = lease[a].epoch /\ ~row'.env.pending
               /\ row'.env.binding = row.env.binding
    BY <1>1, <1>5, EndWrites
  <1>6. ASSUME NEW r \in Resets, RetireCommit(r) PROVE FALSE
    BY <1>1, <1>6, RetireWrites DEF Spent
  <1>7. ASSUME NEW r \in Resets, ClearCommit(r) PROVE FALSE
    <2>1. row.env # None /\ row.env.pending
      BY <1>7 DEF ClearCommit, Unchanged, IInv, Prepared, MayClear
    <2> QED
      BY <1>1, <1>7, <2>1, ClearWrites
  <1>8. ASSUME NEW rev \in Revisions, HostRecreates(rev) \/ HostRevises(rev)
        PROVE  row'.env = row.env
    BY <1>0, <1>8, HostWrites
  <1> QED
    BY <1>2, <1>3, <1>4, <1>5, <1>6, <1>7, <1>8, RowWrites

(* A lease is taken of the generation in which the attempt resolved.         *)
LEMMA LeaseTaken ==
    ASSUME Conversing, NEW a \in Attempts, ClaimReturn(a), lease'[a] # lease[a]
    PROVE  /\ lease'[a] # None /\ UNCHANGED <<row, gone, snap>>
           /\ row.env # None /\ row.env.epoch = lease'[a].epoch /\ ~row.env.pending
           /\ pc'[a] \in {"leased", "closing"}
           /\ pc'[a] = "leased" /\ snap[a] # None => snap[a].epoch = lease'[a].epoch
  <1>0. IInv /\ TypeOK
    BY DEF Conversing, IInv
  <1> DEFINE l == LeaseOf(a)
  <1>1. /\ lease'[a] = l /\ HoldsClaim(row, l, a, route[a]) /\ pc[a] = "claimed"
        /\ pc'[a] = IF SameBinding(snap[a], l.binding) THEN "leased" ELSE "closing"
        /\ UNCHANGED <<row, gone, snap>>
    BY <1>0 DEF ClaimReturn, TypeOK, Goto
  <1>2. l \in Leases /\ l # None
    BY <1>0, <1>1, LeaseType, NoneIsNothing DEF IInv
  <1>3. /\ row.env # None /\ row.env.epoch = l.epoch /\ ~row.env.pending
        /\ row.env.active = [token |-> a, route |-> route[a]] /\ BindingMatches(row.env)
    BY <1>1 DEF HoldsClaim, Parses, WellFormed
  <1>4. row.env.active # None /\ row.env.active.token = a
    BY <1>0, <1>3, NoneIsNothing DEF TypeOK, Claims
  <1>5. row.env.binding = l.binding
    BY <1>1, <1>3, <1>4 DEF Conversing, ClaimStands, LeaseOf
  <1>6. ASSUME SameBinding(snap[a], l.binding), snap[a] # None
        PROVE  snap[a].epoch = l.epoch
    <2>1. snap[a].conv \in Attempts
      BY <1>0, <1>6 DEF TypeOK, Bindings, Conversations
    <2>2. l.binding # None /\ l.binding.epoch = snap[a].epoch
      BY <1>6, <2>1, NoneIsNothing DEF SameBinding, ConvOf, Epochs
    <2> QED
      BY <1>3, <1>5, <2>2 DEF BindingMatches
  <1> HIDE DEF l
  <1> QED
    BY <1>1, <1>2, <1>3, <1>6

Standing == LeaseStands /\ SuccessorStands /\ BindingStands

LEMMA LeaseStandsStep ==
    ASSUME Conversing, Spent, LeaseStands, [Next]_vars
    PROVE  LeaseStands'
  <1> SUFFICES ASSUME NEW a \in Attempts, lease'[a] # None
               PROVE  /\ pc'[a] \notin Early \cup {"claimed"}
                      /\ lease'[a].epoch \in Used'
                      /\ row'.env # None /\ row'.env.epoch = lease'[a].epoch => ~row'.env.pending
    BY DEF LeaseStands
  <1>0. IInv /\ TypeOK
    BY DEF Conversing, IInv
  <1>1. CASE lease'[a] = lease[a]
    <2>1. pc[a] \notin Early \cup {"claimed"} /\ lease[a].epoch \in Used
      BY <1>1 DEF LeaseStands
    <2>2. pc'[a] \notin Early \cup {"claimed"}
      BY <1>0, <2>1, NoWayBack, ClaimOnce
    <2>3. Used \subseteq Used'
      BY RowWrites DEF Used, Store, StoreEnvelope, ClaimCommit, BindCommit, EndCommit, RetireCommit,
         ClearCommit, HostRecreates, HostRevises
    <2> QED
      BY <1>0, <1>1, <2>1, <2>2, <2>3, GenerationStands
  <1>2. CASE lease'[a] # lease[a]
    BY <1>0, <1>2, ComesFrom, LeaseTaken DEF Used, Early
  <1> QED
    BY <1>1, <1>2

LEMMA SuccessorStep ==
    ASSUME Conversing, Standing, [Next]_vars
    PROVE  SuccessorStands'
  <1> SUFFICES ASSUME NEW a \in Attempts, pc'[a] \in Launched \/ ok'[a]
               PROVE  /\ lease'[a] # None
                      /\ snap'[a] # None => snap'[a].epoch = lease'[a].epoch
    BY DEF SuccessorStands
  <1>0. IInv /\ TypeOK
    BY DEF Conversing, IInv
  <1>1. ASSUME pc[a] \in Launched \/ ok[a]
        PROVE  /\ lease'[a] # None
               /\ snap'[a] # None => snap'[a].epoch = lease'[a].epoch
    <2>1. lease[a] # None /\ (snap[a] # None => snap[a].epoch = lease[a].epoch)
      BY <1>1 DEF Standing, SuccessorStands
    <2>2. pc[a] \notin {"idle", "claimed"}
      BY <2>1 DEF Standing, LeaseStands, Early
    <2>3. lease'[a] = lease[a]
      BY <1>0, <2>2, ComesFrom DEF ClaimReturn
    <2>4. snap'[a] = snap[a]
      BY <1>0, <2>2, NoWayBack
    <2> QED
      BY <2>1, <2>3, <2>4
  <1>2. ASSUME pc[a] \notin Launched, ~ok[a]
        PROVE  ClaimReturn(a) /\ pc'[a] = "leased"
    <2>1. ~ok'[a]
      BY <1>0, <1>2, ComesFrom DEF Launched
    <2>2. ClaimReturn(a)
      BY <1>0, <1>2, <2>1, ComesFrom
    <2>3. pc'[a] \in {"leased", "closing", "failed"}
      BY <1>0, <2>2 DEF ClaimReturn, Goto, TypeOK
    <2> QED
      BY <2>1, <2>2, <2>3 DEF Launched
  <1>3. CASE pc[a] \notin Launched /\ ~ok[a]
    <2>1. ClaimReturn(a) /\ pc'[a] = "leased"
      BY <1>2, <1>3
    <2>2. lease[a] = None
      BY <2>1 DEF ClaimReturn, Standing, LeaseStands
    <2>3. lease'[a] = LeaseOf(a) /\ LeaseOf(a) \in Leases
      BY <1>0, <2>1, LeaseType DEF ClaimReturn, Goto, TypeOK, IInv
    <2>4. lease'[a] # lease[a]
      BY <2>2, <2>3, NoneIsNothing
    <2> QED
      BY <2>1, <2>4, LeaseTaken
  <1> QED
    BY <1>1, <1>3

LEMMA BindLeavesBinding ==
    ASSUME IInv, NEW a \in Attempts, BindCommit(a)
    PROVE  row'.env.binding # None
  <1> USE DEF IInv
  <1>1. /\ base[a] = row /\ row \in Rows /\ HoldsClaim(row, lease[a], a, route[a])
        /\ route[a] \in Routes
    BY DEF BindCommit, LeaseActive, Unchanged, TypeOK
  <1> DEFINE e == Bound(row, lease[a], a, route[a])
             b == [epoch |-> lease[a].epoch, rev |-> lease[a].rev, conv |-> a, route |-> route[a]]
  <1>2. row'.env = e /\ row.env \in Envelopes
    BY <1>1, BoundEnvelope, StoreType DEF BindCommit
  <1>3. CASE row.env.binding # None
    BY <1>2, <1>3 DEF Bound
  <1>4. CASE row.env.binding = None
    <2>1. e.binding = b
      BY <1>2, <1>4 DEF Bound, Envelopes
    <2>2. b \in Bindings
      BY <1>1, <1>2 DEF HoldsClaim, Bindings, Envelopes, Conversations
    <2> QED
      BY <1>2, <2>1, <2>2, NoneIsNothing
  <1> QED
    BY <1>3, <1>4

LEMMA BindingStandsStep ==
    ASSUME Conversing, Spent, Standing, [Next]_vars
    PROVE  BindingStands'
  <1>0. IInv /\ TypeOK
    BY DEF Conversing, IInv
  <1>1. ASSUME NEW a \in Attempts, pc'[a] \in {"binding", "rebinding"}
        PROVE  snap'[a] = None
    <2>1. BindPrepare(a) \/ pc[a] \in {"binding", "rebinding"}
      BY <1>0, <1>1, ComesFrom DEF BindCommit
    <2>2. CASE BindPrepare(a)
      BY <2>2 DEF BindPrepare
    <2>3. CASE pc[a] \in {"binding", "rebinding"}
      BY <1>0, <2>3, NoWayBack DEF Standing, BindingStands
    <2> QED
      BY <2>1, <2>2, <2>3
  <1>2. ASSUME NEW a \in Attempts, pc'[a] = "binding",
               base'[a].env # None, base'[a].env.binding # None
        PROVE  base'[a].env.binding.conv = a
    <2>1. CASE BindPrepare(a)
      BY <1>0, <1>2, <2>1 DEF BindPrepare, TypeOK
    <2>2. CASE pc[a] = "binding" /\ base'[a] = base[a]
      BY <1>2, <2>2 DEF Standing, BindingStands
    <2> QED
      BY <1>0, <1>2, <2>1, <2>2, ComesFrom
  <1>3. ASSUME NEW a \in Attempts, Assured(a)', snap'[a] = None,
               row'.env # None, row'.env.epoch = lease'[a].epoch
        PROVE  row'.env.binding # None /\ row'.env.binding.conv = a
    <2>1. CASE Assured(a)
      <3>1. lease[a] # None
        BY <2>1 DEF Assured, Launched, Standing, SuccessorStands
      <3>2. pc[a] \notin {"idle", "claimed"}
        BY <3>1 DEF Standing, LeaseStands, Early
      <3>3. lease'[a] = lease[a] /\ snap'[a] = snap[a]
        BY <1>0, <3>2, ComesFrom, NoWayBack DEF ClaimReturn
      <3>4. /\ row.env # None /\ row.env.epoch = lease[a].epoch
            /\ row'.env.binding = row.env.binding \/ row.env.binding = None
        BY <1>0, <1>3, <3>1, <3>3, GenerationStands DEF Standing
      <3> QED
        BY <1>3, <2>1, <3>3, <3>4 DEF Standing, BindingStands
    <2>2. CASE ~Assured(a)
      <3>1. BindCommit(a) \/ InitResumed(a)
        BY <1>0, <1>3, <2>2, ComesFrom DEF Assured
      <3>2. ~InitResumed(a)
        BY <1>3 DEF InitResumed
      <3>3. /\ BindCommit(a) /\ row.env # None /\ pc[a] = "binding" /\ base[a] = row
            /\ \/ row'.env.binding = row.env.binding
               \/ row'.env.binding.conv = a
        BY <1>0, <3>1, <3>2, BindWrites DEF BindCommit, Unchanged
      <3>4. row'.env.binding # None
        BY <1>0, <3>3, BindLeavesBinding
      <3> QED
        BY <3>3, <3>4 DEF Standing, BindingStands
    <2> QED
      BY <2>1, <2>2
  <1> QED
    BY <1>1, <1>2, <1>3 DEF BindingStands

(* ResultIsLatest: the answer that passes the last fence before its delivery *)
(* is that of the latest claim, of a generation still standing, and of the   *)
(* conversation in the row, in whatever order answers settle                 *)
(* (assertResultCurrent).                                                    *)
THEOREM LatestResultWins == Spec => ResultIsLatest
  <1>1. ASSUME Conversing, Spent, SnapshotStands, ClaimsInOrder, Standing, [Next]_vars,
               NEW a \in Attempts, pc[a] = "ended", pc'[a] = "appending"
        PROVE  /\ a = claims[Len(claims)]
               /\ lease[a].epoch \notin gone
               /\ ConvOf(StoredBinding(row)) = Conversation(a)
    <2>0. IInv /\ TypeOK
      BY <1>1 DEF Conversing, IInv
    <2>1. Admit(a)
      BY <1>1, <2>0, ComesFrom
    <2>2. ok[a] /\ ResultCurrent(row, lease[a], a, route[a])
      BY <1>1, <2>0, <2>1 DEF Admit, Goto, TypeOK
    <2>3. /\ row.env # None /\ row.env.epoch = lease[a].epoch
          /\ row.env.settled # None /\ row.env.settled.token = a
      BY <2>2 DEF ResultCurrent
    <2>4. a = claims[Len(claims)]
      BY <1>1, <2>3 DEF ClaimsInOrder
    <2>5. lease[a].epoch \notin gone
      BY <1>1, <2>3 DEF Spent, EpochNeverReturns
    <2>6. snap[a] # None => snap[a].epoch = lease[a].epoch
      BY <1>1, <2>2 DEF Standing, SuccessorStands
    <2>7. CASE snap[a] = None
      <3>1. row.env.binding # None /\ row.env.binding.conv = a
        BY <1>1, <2>2, <2>3, <2>7 DEF Standing, BindingStands, Assured
      <3> QED
        BY <2>3, <2>4, <2>5, <2>7, <3>1 DEF StoredBinding, ConvOf, Conversation
    <2>8. CASE snap[a] # None
      <3>1. row.env.binding = snap[a]
        BY <1>1, <2>3, <2>6, <2>8 DEF SnapshotStands
      <3> QED
        BY <2>3, <2>4, <2>5, <2>8, <3>1 DEF StoredBinding, ConvOf, Conversation
    <2> QED
      BY <2>4, <2>5, <2>7, <2>8
  <1>2. ASSUME Conversing, Spent, SnapshotStands, ClaimsInOrder, Standing, [Next]_vars
        PROVE  [\A a \in Attempts :
                  pc[a] = "ended" /\ pc'[a] = "appending" =>
                      /\ a = claims[Len(claims)]
                      /\ lease[a].epoch \notin gone
                      /\ ConvOf(StoredBinding(row)) = Conversation(a)]_vars
    BY <1>1, <1>2
  <1>3. Init => Spent /\ SnapshotStands /\ ClaimsInOrder /\ Standing
    BY DEF Init, Spent, Used, EpochNeverReturns, Rows, SnapshotStands, ClaimsInOrder, Standing,
       LeaseStands, SuccessorStands, BindingStands, Launched, Assured
  <1>4. Conversing => IInv
    BY DEF Conversing
  <1>5. Conversing /\ Spent /\ Standing /\ [Next]_vars => Standing'
    BY LeaseStandsStep, SuccessorStep, BindingStandsStep DEF Standing
  <1> QED
    BY <1>2, <1>3, <1>4, <1>5, ConversingInductive, SpentStep, SnapshotStep, ClaimsStep,
       PTL DEF Spec, ResultIsLatest

-----------------------------------------------------------------------------
(***************************************************************************)
(* The abstract authority.                                                  *)
(***************************************************************************)
(* What was checked when a patch was prepared holds of the row it commits    *)
(* to, and an attempt delivers its answer at most once.                      *)
Fenced ==
    /\ \A a \in Attempts : pc[a] = "settling" => Parses(base[a])
    /\ \A r \in Resets : rpc[r] = "retiring" => MayRetire(rbase[r])
    /\ \A i \in 1 .. Len(transcript) : pc[transcript[i]] = "done"

LEMMA PatchesFrom ==
    ASSUME TypeOK, [Next]_vars
    PROVE  /\ \A b \in Attempts : pc'[b] = "settling" =>
                 EndPrepare(b) \/ (pc[b] = "settling" /\ base'[b] = base[b])
           /\ \A b \in Attempts : pc[b] = "done" => pc'[b] = "done"
           /\ \A q \in Resets : rpc'[q] = "retiring" =>
                 RetirePrepare(q) \/ (rpc[q] = "retiring" /\ rbase'[q] = rbase[q])
           /\ transcript' = transcript \/ \E b \in Attempts : AppendAnswer(b)
  <1> USE DEF TypeOK, Goto, RGoto, Settling, Final
  <1> DEFINE Answers == transcript' = transcript
             Attends(b) == /\ pc'[b] = "settling" => pc[b] = "settling" /\ base'[b] = base[b]
                           /\ pc[b] = "done" => pc'[b] = "done"
  <1>1. ASSUME NEW a \in Attempts,
               \/ Resolve(a) \/ ClaimPrepare(a) \/ ClaimCommit(a) \/ ClaimLost(a)
               \/ LaunchFence(a) \/ Spawn(a) \/ NotStarted(a)
               \/ InitResumed(a) \/ BindPrepare(a) \/ BindCommit(a) \/ BindReturn(a)
               \/ ProcessSettles(a) \/ EndSkipped(a) \/ EndRetains(a) \/ EndCommit(a)
        PROVE  Answers /\ \A b \in Attempts : Attends(b)
    BY <1>1 DEF Resolve, ClaimPrepare, ClaimCommit, ClaimLost, LaunchFence, Spawn, NotStarted,
       InitResumed, BindPrepare, BindCommit, BindReturn, ProcessSettles, EndSkipped, EndRetains,
       EndCommit
  <1>2. ASSUME NEW a \in Attempts,
               \/ EndTimesOut(a) \/ EndReturn(a) \/ AppendRejected(a)
               \/ NativeExit(a) \/ Revoke(a) \/ Crash(a)
        PROVE  Answers /\ \A b \in Attempts : Attends(b)
    BY <1>2 DEF EndTimesOut, EndReturn, AppendRejected, NativeExit, Revoke, Crash
  <1>3. ASSUME NEW a \in Attempts, ClaimReturn(a) \/ Admit(a)
        PROVE  Answers /\ \A b \in Attempts : Attends(b)
    <2>1. /\ pc[a] \notin {"settling", "done"} /\ pc'[a] # "settling"
          /\ \A b \in Attempts : b # a => pc'[b] = pc[b] /\ base'[b] = base[b]
          /\ transcript' = transcript
      BY <1>3 DEF ClaimReturn, Admit
    <2> QED
      BY <2>1
  <1>4. ASSUME NEW a \in Attempts, EndPrepare(a)
        PROVE  Answers /\ \A b \in Attempts : Attends(b) \/ (EndPrepare(b) /\ pc[b] # "done")
    <2>1. /\ pc[a] = "closing" /\ transcript' = transcript
          /\ \A b \in Attempts : b # a => pc'[b] = pc[b] /\ base'[b] = base[b]
      BY <1>4 DEF EndPrepare
    <2> QED
      BY <1>4, <2>1
  <1>5. ASSUME NEW a \in Attempts, AppendAnswer(a)
        PROVE  \A b \in Attempts : Attends(b)
    BY <1>5 DEF AppendAnswer
  <1>6. ASSUME NEW a \in Attempts, AttemptStep(a) \/ NativeExit(a) \/ Revoke(a) \/ Crash(a)
        PROVE  UNCHANGED resetVars
    BY <1>6 DEF AttemptStep, LaunchFence, Resolve, ClaimPrepare, ClaimCommit, ClaimLost, ClaimReturn,
       Spawn, NotStarted, InitResumed, BindPrepare, BindCommit, BindReturn, ProcessSettles,
       EndSkipped, EndRetains, EndPrepare, EndCommit, EndTimesOut, EndReturn, Admit,
       AppendAnswer, AppendRejected, NativeExit, Revoke, Crash
  <1>7. ASSUME UNCHANGED resetVars
        PROVE  rpc' = rpc /\ rbase' = rbase
    BY <1>7 DEF resetVars
  <1>8. ASSUME UNCHANGED <<attemptVars, transcript>>
        PROVE  Answers /\ \A b \in Attempts : Attends(b)
    BY <1>8 DEF attemptVars
  <1>9. ASSUME NEW r \in Resets, RetirePrepare(r)
        PROVE  \A q \in Resets : rpc'[q] = "retiring" =>
                  RetirePrepare(q) \/ (rpc[q] = "retiring" /\ rbase'[q] = rbase[q])
    <2>1. \A q \in Resets : q # r => rpc'[q] = rpc[q] /\ rbase'[q] = rbase[q]
      BY <1>9 DEF RetirePrepare
    <2> QED
      BY <1>9, <2>1
  <1>10. ASSUME NEW r \in Resets,
                \/ RetireCommit(r) \/ DrainCompletes(r) \/ ClearPrepare(r) \/ ClearCommit(r)
                \/ ResetFails(r)
         PROVE  \A q \in Resets : rpc'[q] = "retiring" => rpc[q] = "retiring" /\ rbase'[q] = rbase[q]
    BY <1>10 DEF RetireCommit, DrainCompletes, ClearPrepare, ClearCommit, ResetFails
  <1>11. ASSUME NEW r \in Resets, ResetStep(r) PROVE UNCHANGED <<attemptVars, transcript>>
    BY <1>11 DEF ResetStep, RetirePrepare, RetireCommit, DrainCompletes, ClearPrepare, ClearCommit,
       ResetFails
  <1>12. ASSUME NEW rev \in Revisions, HostRecreates(rev) \/ HostRevises(rev)
         PROVE  UNCHANGED <<attemptVars, resetVars, transcript>>
    BY <1>12 DEF HostRecreates, HostRevises
  <1>13. UNCHANGED vars => UNCHANGED <<attemptVars, resetVars, transcript>>
    BY DEF vars
  <1> HIDE DEF TypeOK, Goto, RGoto, Settling, Final
  <1>14. ASSUME NEW a \in Attempts, AttemptStep(a) \/ NativeExit(a) \/ Revoke(a) \/ Crash(a)
         PROVE  /\ \A b \in Attempts : pc'[b] = "settling" =>
                      EndPrepare(b) \/ (pc[b] = "settling" /\ base'[b] = base[b])
                /\ \A b \in Attempts : pc[b] = "done" => pc'[b] = "done"
                /\ transcript' = transcript \/ \E b \in Attempts : AppendAnswer(b)
    BY <1>1, <1>2, <1>3, <1>4, <1>5, <1>14 DEF AttemptStep
  <1>15. ASSUME NEW r \in Resets, ResetStep(r)
         PROVE  \A q \in Resets : rpc'[q] = "retiring" =>
                   RetirePrepare(q) \/ (rpc[q] = "retiring" /\ rbase'[q] = rbase[q])
    BY <1>9, <1>10, <1>15 DEF ResetStep
  <1> QED
    BY <1>6, <1>7, <1>8, <1>11, <1>12, <1>13, <1>14, <1>15 DEF Next

LEMMA FencedStep ==
    ASSUME TypeOK, Fenced, [Next]_vars
    PROVE  Fenced'
  <1>1. ASSUME NEW a \in Attempts, pc'[a] = "settling" PROVE Parses(base'[a])
    <2>1. CASE EndPrepare(a)
      BY <2>1 DEF EndPrepare, TypeOK
    <2> QED
      BY <1>1, <2>1, PatchesFrom DEF Fenced
  <1>2. ASSUME NEW r \in Resets, rpc'[r] = "retiring" PROVE MayRetire(rbase'[r])
    <2>1. CASE RetirePrepare(r)
      BY <1>2, <2>1 DEF RetirePrepare, RGoto, TypeOK
    <2> QED
      BY <1>2, <2>1, PatchesFrom DEF Fenced
  <1>3. ASSUME NEW i \in 1 .. Len(transcript') PROVE pc'[transcript'[i]] = "done"
    <2>1. \A b \in Attempts : pc[b] = "done" => pc'[b] = "done"
      BY PatchesFrom
    <2>2. transcript \in Seq(Attempts)
      BY DEF TypeOK
    <2>3. CASE transcript' = transcript
      BY <1>3, <2>1, <2>2, <2>3 DEF Fenced
    <2>4. ASSUME NEW b \in Attempts, AppendAnswer(b) PROVE pc'[transcript'[i]] = "done"
      <3>1. transcript' = Append(transcript, b) /\ pc'[b] = "done"
        BY <2>4 DEF AppendAnswer, Goto, TypeOK
      <3>2. CASE i = Len(transcript) + 1
        BY <2>2, <3>1, <3>2
      <3>3. CASE i \in 1 .. Len(transcript)
        <4>1. transcript'[i] = transcript[i] /\ transcript[i] \in Attempts
          BY <2>2, <3>1, <3>3
        <4> QED
          BY <2>1, <3>3, <4>1 DEF Fenced
      <3> QED
        BY <1>3, <2>2, <3>1, <3>2, <3>3
    <2> QED
      BY <2>3, <2>4, PatchesFrom
  <1> QED
    BY <1>1, <1>2, <1>3 DEF Fenced

(* What the abstract authority sees of an attempt.                           *)
LEMMA TalksOf ==
    ASSUME TypeOK, NEW b \in Attempts
    PROVE  /\ Conversation(b) \in Attempts /\ Conversation(b) # None
           /\ Driving(b) => Talks[b] = Conversation(b)
           /\ ~Driving(b) => Talks[b] = None
  <1>1. snap[b] # None => snap[b].conv \in Attempts
    BY DEF TypeOK, Bindings, Conversations
  <1>2. Conversation(b) \in Attempts
    BY <1>1 DEF Conversation
  <1> QED
    BY <1>2, NoneIsNothing DEF Talks, Epochs

(* What it sees of the row is a matter of the row alone.                     *)
LEMMA RowKept ==
    ASSUME row'.env = row.env, row'.rev = row.rev
    PROVE  UNCHANGED <<Generation, Sound, Closing, BoundTo, Holder, Winner>>
  BY DEF Generation, Sound, Closing, BoundTo, StoredBinding, Holder, Winner

Views ==
    /\ row.env # None => /\ Generation = row.env.epoch /\ Generation # None
                         /\ Closing <=> row.env.pending
                         /\ BoundTo = ConvOf(row.env.binding)
                         /\ row.env.active # None =>
                               /\ Holder = row.env.active.token /\ Holder # None
                               /\ Winner = None /\ ~Closing
                         /\ row.env.active = None => Holder = None
                         /\ row.env.settled # None => Winner = row.env.settled.token
                         /\ row.env.settled = None => Winner = None
                         /\ row.env.pending => Holder = None /\ Winner = None
    /\ row.env = None => /\ Generation = None /\ Sound /\ ~Closing
                         /\ BoundTo = None /\ Holder = None /\ Winner = None
    /\ Sound <=> Parses(row)
    /\ BoundTo = None <=> StoredBinding(row) = None

LEMMA Seen == IInv => Views
  <1> SUFFICES ASSUME IInv PROVE Views
    OBVIOUS
  <1>0. row \in Rows /\ EnvelopeWellFormed
    BY DEF IInv, TypeOK
  <1>1. Sound <=> Parses(row)
    BY <1>0 DEF Sound, Parses, EnvelopeWellFormed
  <1>2. StoredBinding(row) # None => StoredBinding(row).conv \in Attempts
    BY <1>0 DEF StoredBinding, Rows, Envelopes, Bindings, Conversations
  <1>3. BoundTo = None <=> StoredBinding(row) = None
    BY <1>2, NoneIsNothing DEF BoundTo, ConvOf, Epochs
  <1>4. CASE row.env = None
    BY <1>1, <1>3, <1>4
    DEF Views, Generation, Closing, BoundTo, Holder, Winner, StoredBinding, ConvOf, Parses
  <1>5. CASE row.env # None
    <2>1. row.env \in Envelopes /\ ClaimMatches(row.env) /\ SettledMatches(row.env)
      BY <1>0, <1>5 DEF Rows, EnvelopeWellFormed, WellFormed
    <2>2. /\ row.env.epoch # None
          /\ row.env.active # None => row.env.active.token # None
      BY <2>1, NoneIsNothing DEF Envelopes, Claims, Epochs
    <2>3. /\ row.env.active # None => row.env.settled = None /\ ~row.env.pending
          /\ row.env.pending => row.env.active = None /\ row.env.settled = None
      BY <2>1 DEF ClaimMatches, SettledMatches
    <2> QED
      BY <1>1, <1>3, <1>5, <2>2, <2>3
      DEF Views, Generation, Closing, BoundTo, Holder, Winner, StoredBinding
  <1> QED
    BY <1>4, <1>5

LEMMA SeenNext == IInv' => Views'
  BY Seen, PTL

(* No commit moves the row to another revision, or the session with it.      *)
LEMMA RevisionKept ==
    ASSUME IInv, NEW a \in Attempts, ClaimCommit(a) \/ BindCommit(a) \/ EndCommit(a)
    PROVE  /\ row'.rev = row.rev
           /\ row.env # None /\ row'.env # None => row'.env.rev = row.env.rev
           /\ row.env = None /\ row'.env # None => row'.env.rev = row.rev
  <1>1. row = base[a] /\ row \in Rows /\ TypeOK /\ Prepared /\ route[a] \in Routes
    BY DEF ClaimCommit, BindCommit, EndCommit, Unchanged, IInv, TypeOK
  <1>2. row.env # None => row.env \in Envelopes
    BY <1>1 DEF Rows
  <1>3. CASE ClaimCommit(a)
    <2>1. Claimed(row, a, route[a]) \in Envelopes /\ StoreEnvelope(row, Claimed(row, a, route[a]))
      BY <1>1, <1>3, ClaimedEnvelope DEF ClaimCommit, Prepared
    <2>2. row'.rev = row.rev /\ row'.env = Claimed(row, a, route[a])
      BY <1>1, <2>1, StoreType
    <2> QED
      BY <1>2, <2>2 DEF Claimed, Envelopes
  <1>4. CASE BindCommit(a)
    <2>1. HoldsClaim(row, lease[a], a, route[a])
      BY <1>4 DEF BindCommit, LeaseActive
    <2>2. /\ Bound(row, lease[a], a, route[a]) \in Envelopes
          /\ StoreEnvelope(row, Bound(row, lease[a], a, route[a]))
      BY <1>1, <1>4, <2>1, BoundEnvelope DEF BindCommit
    <2>3. row'.rev = row.rev /\ row'.env = Bound(row, lease[a], a, route[a]) /\ row.env # None
      BY <1>1, <2>1, <2>2, StoreType DEF HoldsClaim
    <2> QED
      BY <1>2, <2>3 DEF Bound, Envelopes
  <1>5. CASE EndCommit(a)
    <2>1. /\ Ended(row, lease[a], a, route[a]) \in Envelopes \cup {None}
          /\ StoreEnvelope(row, Ended(row, lease[a], a, route[a]))
      BY <1>1, <1>5, EndedEnvelope DEF EndCommit
    <2>2. row'.rev = row.rev /\ row'.env = Ended(row, lease[a], a, route[a])
      BY <1>1, <2>1, StoreType
    <2> QED
      BY <1>2, <2>2 DEF Ended, OwnsEnd, Envelopes
  <1> QED
    BY <1>3, <1>4, <1>5

LEMMA RevisionReset ==
    ASSUME IInv, NEW r \in Resets, RetireCommit(r) \/ ClearCommit(r)
    PROVE  /\ row'.rev = row.rev
           /\ RetireCommit(r) => row'.env.rev = row.rev
           /\ ClearCommit(r) => row'.env.rev = row.env.rev
  <1>1. rbase[r] = row /\ row \in Rows /\ TypeOK
    BY DEF RetireCommit, ClearCommit, Unchanged, IInv, TypeOK
  <1>2. CASE RetireCommit(r)
    <2>1. Retired(row, r) \in Envelopes /\ StoreEnvelope(row, Retired(row, r))
      BY <1>1, <1>2, RetiredEnvelope DEF RetireCommit
    <2>2. row'.rev = row.rev /\ row'.env = Retired(row, r) /\ Retired(row, r).rev = row.rev
      BY <1>1, <2>1, StoreType DEF Retired
    <2>3. ~ClearCommit(r)
      BY <1>2 DEF RetireCommit, ClearCommit
    <2> QED
      BY <2>2, <2>3
  <1>3. CASE ClearCommit(r)
    <2>1. MayClear(row, r)
      BY <1>1, <1>3 DEF ClearCommit, IInv, Prepared
    <2>2. Cleared(row) \in Envelopes /\ StoreEnvelope(row, Cleared(row)) /\ row.env \in Envelopes
      BY <1>1, <1>3, <2>1, ClearedEnvelope DEF ClearCommit, MayClear, Rows
    <2>3. row'.rev = row.rev /\ row'.env = Cleared(row) /\ Cleared(row).rev = row.env.rev
      BY <1>1, <2>2, StoreType DEF Cleared, Envelopes
    <2>4. ~RetireCommit(r)
      BY <1>3 DEF RetireCommit, ClearCommit
    <2> QED
      BY <2>3, <2>4
  <1> QED
    BY <1>2, <1>3

(* Most steps of an attempt neither start nor end a process and deliver      *)
(* nothing.                                                                  *)
LEMMA Unheard ==
    ASSUME IInv, NEW a \in Attempts,
           \/ Resolve(a) \/ ClaimPrepare(a) \/ ClaimCommit(a) \/ ClaimLost(a) \/ ClaimReturn(a)
           \/ Spawn(a)
           \/ InitResumed(a) \/ BindPrepare(a) \/ BindCommit(a) \/ BindReturn(a) \/ ProcessSettles(a)
           \/ EndSkipped(a) \/ EndRetains(a) \/ EndPrepare(a) \/ EndCommit(a)
           \/ EndTimesOut(a) \/ EndReturn(a) \/ Revoke(a)
    PROVE  UNCHANGED <<Talks, Lost, Admitted, transcript>>
  <1>0. TypeOK /\ NativePhases
    BY DEF IInv
  <1>1. UNCHANGED <<Lost, transcript>>
    BY DEF Lost, hostVars, Resolve, ClaimPrepare, ClaimCommit, ClaimLost, ClaimReturn, Spawn,
       InitResumed, BindPrepare, BindCommit, BindReturn, ProcessSettles, EndSkipped, EndRetains,
       EndPrepare, EndCommit, EndTimesOut, EndReturn, Revoke
  <1>2. \A b \in Attempts : b # a => UNCHANGED <<pc[b], native[b], snap[b]>>
    BY <1>0 DEF TypeOK, Goto, Resolve, ClaimPrepare, ClaimCommit, ClaimLost, ClaimReturn, Spawn,
       InitResumed, BindPrepare, BindCommit, BindReturn, ProcessSettles, EndSkipped, EndRetains,
       EndPrepare, EndCommit, EndTimesOut, EndReturn, Revoke
  <1>3. /\ pc'[a] = "appending" <=> pc[a] = "appending"
        /\ Driving(a)' <=> Driving(a)
        /\ Driving(a) => snap'[a] = snap[a]
    <2>1. CASE Resolve(a) \/ ClaimPrepare(a) \/ ClaimReturn(a)
      <3>1. /\ pc[a] \in {"idle", "resolved", "claimed"} /\ native' = native
            /\ pc'[a] \in {"resolved", "claiming", "leased", "closing", "failed"}
        BY <1>0, <2>1 DEF TypeOK, Goto, Resolve, ClaimPrepare, ClaimReturn
      <3> QED
        BY <1>0, <3>1 DEF Driving, NativePhases
    <2>2. CASE Spawn(a)
      BY <1>0, <2>2 DEF TypeOK, Goto, Spawn, Driving
    <2>3. CASE ~(Resolve(a) \/ ClaimPrepare(a) \/ ClaimReturn(a) \/ Spawn(a))
      BY <1>0, <2>3 DEF TypeOK, Goto, Driving, Settling, Final, ClaimCommit, ClaimLost,
         InitResumed, BindPrepare, BindCommit, BindReturn, ProcessSettles, EndSkipped, EndRetains,
         EndPrepare, EndCommit, EndTimesOut, EndReturn, Revoke
    <2> QED
      BY <2>1, <2>2, <2>3
  <1>4. Admitted' = Admitted
    BY <1>2, <1>3 DEF Admitted
  <1>5. \A b \in Attempts : /\ Driving(b)' <=> Driving(b)
                            /\ Driving(b) => Conversation(b)' = Conversation(b)
    BY <1>2, <1>3 DEF Driving, Conversation
  <1>6. Talks' = Talks
    BY <1>5 DEF Talks
  <1> QED
    BY <1>1, <1>4, <1>6

(***************************************************************************)
(* Each operation of the plugin, of the host and of the native processes as  *)
(* a step of the abstract authority, or as none.                             *)
(***************************************************************************)
Governed == Conversing /\ Spent /\ SnapshotStands /\ Standing /\ Fenced

LEMMA Unnoticed ==
    ASSUME row'.env = row.env, row'.rev = row.rev, gone' = gone,
           UNCHANGED <<Talks, Lost, Admitted, transcript>>
    PROVE  UNCHANGED Authority!authorityVars
  BY RowKept DEF Authority!authorityVars, Authority!rowVars, Authority!answerVars

LEMMA SilentAttempt ==
    ASSUME IInv, NEW a \in Attempts,
           \/ Resolve(a) \/ ClaimPrepare(a) \/ ClaimLost(a) \/ ClaimReturn(a) \/ Spawn(a)
           \/ InitResumed(a) \/ BindPrepare(a) \/ BindReturn(a) \/ ProcessSettles(a)
           \/ EndSkipped(a) \/ EndRetains(a) \/ EndPrepare(a) \/ EndTimesOut(a) \/ EndReturn(a)
           \/ Revoke(a)
    PROVE  UNCHANGED Authority!authorityVars
  <1>1. UNCHANGED <<row, gone>>
    BY DEF Resolve, ClaimPrepare, ClaimLost, ClaimReturn, Spawn, InitResumed, BindPrepare,
       BindReturn, ProcessSettles, EndSkipped, EndRetains, EndPrepare, EndTimesOut, EndReturn, Revoke
  <1> QED
    BY <1>1, Unheard, Unnoticed

LEMMA SilentReset ==
    ASSUME NEW r \in Resets,
           RetirePrepare(r) \/ DrainCompletes(r) \/ ClearPrepare(r) \/ ResetFails(r)
    PROVE  UNCHANGED Authority!authorityVars
  <1>1. UNCHANGED <<row, gone, attemptVars, hostVars, transcript>>
    BY DEF RetirePrepare, DrainCompletes, ClearPrepare, ResetFails
  <1>2. UNCHANGED <<Talks, Lost, Admitted>>
    BY <1>1 DEF attemptVars, hostVars, Talks, Driving, Conversation, Lost, Admitted
  <1> QED
    BY <1>1, <1>2, Unnoticed

(* A claim in flight is stored on the row that admitted it.                  *)
LEMMA ClaimIsClaim ==
    ASSUME Governed, [Next]_vars, NEW a \in Attempts, ClaimCommit(a)
    PROVE  Authority!Claim(a)
  <1>0. IInv /\ IInv' /\ Spent
    BY Inductive DEF Governed, Conversing
  <1>1. /\ pc[a] = "claiming" /\ MayClaim(row, route[a])
        /\ row'.env # None /\ row'.env.binding = StoredBinding(row)
        /\ row'.env.active = [token |-> a, route |-> route[a]] /\ row'.env.active # None
        /\ row'.env.epoch = IF row.env = None THEN a ELSE row.env.epoch
        /\ ~row'.env.pending
    BY <1>0, ClaimWrites
  <1>2. /\ Holder = None /\ Sound /\ ~Closing
        /\ row.env # None => Generation # None
    BY <1>0, <1>1, Seen DEF Views, MayClaim, Resolvable
  <1>3. Holder' = a /\ Winner' = None /\ ~Closing'
    BY <1>0, <1>1, SeenNext DEF Views
  <1>4. UNCHANGED <<Sound, Closing, BoundTo>>
    <2>1. Sound'
      BY <1>0, <1>1, <1>2, RevisionKept DEF Sound
    <2> QED
      BY <1>1, <1>2, <1>3, <2>1 DEF Sound, Closing, BoundTo, StoredBinding
  <1>5. UNCHANGED <<Talks, Lost, Admitted, transcript>>
    BY <1>0, Unheard
  <1>6. CASE row.env = None
    <2>1. gone' = gone /\ Generation = None /\ Generation' = a
      BY <1>1, <1>6 DEF ClaimCommit, StoreEnvelope, Store, Generation
    <2>2. a \notin gone
      BY <1>0, <1>1 DEF Spent, Used, Early
    <2>3. a \in Epochs /\ Authority!Begins(a)
      BY <2>1, <2>2 DEF Epochs, Authority!Begins
    <2> QED
      BY <1>2, <1>3, <1>4, <1>5, <2>1, <2>3 DEF Authority!Claim, Authority!answerVars
  <1>7. CASE row.env # None
    <2>1. Generation' = Generation /\ gone' = gone
      BY <1>1, <1>7 DEF ClaimCommit, StoreEnvelope, Store, Generation
    <2> QED
      BY <1>2, <1>3, <1>4, <1>5, <1>7, <2>1
      DEF Authority!Claim, Authority!Open, Authority!answerVars
  <1> QED
    BY <1>6, <1>7

LEMMA FenceIsStart ==
    ASSUME Governed, [Next]_vars, NEW a \in Attempts, LaunchFence(a)
    PROVE  Authority!Start(a)
  <1>0. IInv /\ TypeOK /\ Conversing /\ SnapshotStands
    BY DEF Governed, Conversing, IInv
  <1>1. /\ pc[a] = "leased" /\ row.env # None /\ Parses(row) /\ ~row.env.pending
        /\ row.env.active = [token |-> a, route |-> route[a]]
        /\ UNCHANGED <<row, gone, recreated, native, snap, transcript>>
        /\ pc' = [pc EXCEPT ![a] = "launching"]
    BY DEF LaunchFence, LeaseActive, HoldsClaim, hostVars, Goto
  <1>2. row.env.active # None /\ row.env.active.token = a
    BY <1>0, <1>1, NoneIsNothing DEF TypeOK, Claims
  <1>3. Authority!Open /\ Holder = a
    BY <1>0, <1>1, <1>2, Seen DEF Views, Authority!Open
  <1>4. ~Driving(a) /\ Driving(a)' /\ Conversation(a)' = Conversation(a)
    BY <1>0, <1>1 DEF TypeOK, IInv, NativePhases, Driving, Conversation
  <1>5. (IF BoundTo = None THEN a ELSE BoundTo) = Conversation(a)
    BY <1>0, ResumesBound, Seen DEF Views, BoundTo, ConvOf, Conversation
  <1>6. \A b \in Attempts : Talks[b] # Conversation(a)
    <2> SUFFICES ASSUME NEW b \in Attempts PROVE Talks[b] # Conversation(a)
      OBVIOUS
    <2>1. CASE ~Driving(b)
      BY <1>0, <2>1, TalksOf
    <2>2. CASE Driving(b)
      BY <1>0, <1>4, <2>2, TalksOf, FenceIsAlone DEF Conversing
    <2> QED
      BY <2>1, <2>2
  <1>7. Lost \/ \A b \in Attempts : Talks[b] = None
    <2> SUFFICES ASSUME recreated = 0, NEW b \in Attempts PROVE ~Driving(b)
      BY <1>0, TalksOf DEF Lost
    <2> QED
      BY <1>0, <1>1, <1>2, <1>4 DEF IInv, DrivingCovered, Covered
  <1>8. Talks' = [Talks EXCEPT ![a] = Conversation(a)]
    <2>1. \A b \in Attempts : b # a => /\ Driving(b)' <=> Driving(b)
                                       /\ Conversation(b)' = Conversation(b)
      BY <1>0, <1>1 DEF TypeOK, Driving, Conversation
    <2> QED
      BY <1>4, <2>1 DEF Talks
  <1>9. UNCHANGED <<Lost, Admitted>>
    BY <1>0, <1>1 DEF TypeOK, Lost, Admitted
  <1>10. Talks[a] = None
    BY <1>0, <1>4, TalksOf
  <1> QED
    BY <1>1, <1>3, <1>5, <1>6, <1>7, <1>8, <1>9, <1>10, RowKept
    DEF Authority!Start, Authority!rowVars, Authority!answerVars

(* A process ends by itself, or with the attempt that never came to spawn it. *)
LEMMA EndsAreExits ==
    ASSUME Governed, [Next]_vars, NEW a \in Attempts,
           NativeExit(a) \/ NotStarted(a) \/ (Crash(a) /\ pc[a] # "appending")
    PROVE  Authority!Exits(a) \/ UNCHANGED Authority!authorityVars
  <1>0. IInv /\ TypeOK /\ NativePhases
    BY DEF Governed, Conversing, IInv
  <1>1. /\ UNCHANGED <<row, gone, recreated, transcript, snap>>
        /\ \A b \in Attempts : b # a => UNCHANGED <<pc[b], native[b]>>
    BY <1>0 DEF NativeExit, NotStarted, Crash, hostVars, Goto, TypeOK
  <1>2. UNCHANGED <<Lost, Generation, Sound, Closing, BoundTo, Holder, Winner>>
    BY <1>1, RowKept DEF Lost
  <1>3. Admitted' = Admitted
    <2>1. pc'[a] = "appending" <=> pc[a] = "appending"
      BY <1>0 DEF NativeExit, NotStarted, Crash, Goto, TypeOK
    <2> QED
      BY <1>1, <2>1 DEF Admitted
  <1>4. \A b \in Attempts : Conversation(b)' = Conversation(b)
    BY <1>1 DEF Conversation
  <1>5. \A b \in Attempts : b # a => (Driving(b)' <=> Driving(b))
    BY <1>1 DEF Driving
  <1>6. CASE Driving(a) /\ ~Driving(a)'
    <2>1. Talks' = [Talks EXCEPT ![a] = None]
      BY <1>4, <1>5, <1>6 DEF Talks
    <2> QED
      BY <1>0, <1>1, <1>2, <1>3, <1>6, <2>1, TalksOf
      DEF Authority!Exits, Authority!rowVars, Authority!answerVars
  <1>7. CASE Driving(a)' <=> Driving(a)
    <2>1. Talks' = Talks
      BY <1>4, <1>5, <1>7 DEF Talks
    <2> QED
      BY <1>1, <1>2, <1>3, <2>1, Unnoticed
  <1>8. Driving(a)' => Driving(a)
    BY <1>0 DEF NativeExit, NotStarted, Crash, Goto, TypeOK, NativePhases, Driving
  <1> QED
    BY <1>6, <1>7, <1>8

(* bindFresh stores the conversation of the holder's own process.            *)
LEMMA BindIsBind ==
    ASSUME Governed, [Next]_vars, NEW a \in Attempts, BindCommit(a)
    PROVE  Authority!Bind(a) \/ UNCHANGED Authority!authorityVars
  <1>0. IInv /\ IInv' /\ TypeOK
    BY Inductive DEF Governed, Conversing, IInv
  <1>1. /\ pc[a] = "binding" /\ row.env # None /\ row'.env # None
        /\ row.env.active # None /\ row.env.active.token = a
        /\ row'.env.active = row.env.active /\ row'.env.epoch = row.env.epoch
        /\ row'.env.pending = row.env.pending
        /\ row'.env.binding = row.env.binding \/ row'.env.binding.conv = a
    BY <1>0, BindWrites
  <1>2. row'.rev = row.rev /\ row'.env.rev = row.env.rev
    BY <1>0, <1>1, RevisionKept
  <1>3. gone' = gone
    BY <1>1 DEF BindCommit, StoreEnvelope, Store
  <1>4. UNCHANGED <<Talks, Lost, Admitted, transcript>>
    BY <1>0, Unheard
  <1>5. Parses(row)
    BY DEF BindCommit, LeaseActive, HoldsClaim
  <1>6. Authority!Open /\ Holder = a
    BY <1>0, <1>1, <1>5, Seen DEF Views, Authority!Open
  <1>7. UNCHANGED <<Generation, Sound, Closing, Holder, Winner>>
    <2>1. Winner' = None /\ Winner = None
      BY <1>0, <1>1, Seen, SeenNext DEF Views
    <2> QED
      BY <1>1, <1>2, <2>1 DEF Generation, Sound, Closing, Holder
  <1>8. CASE row'.env.binding = row.env.binding
    <2>1. BoundTo' = BoundTo
      BY <1>1, <1>8 DEF BoundTo, StoredBinding
    <2> QED
      BY <1>3, <1>4, <1>7, <2>1
      DEF Authority!authorityVars, Authority!rowVars, Authority!answerVars
  <1>9. CASE row'.env.binding # row.env.binding
    <2>1. row.env.binding = None
      BY <1>0, <1>9, BindsOnce
    <2>2. BoundTo = None /\ BoundTo' = a
      BY <1>1, <1>9, <2>1 DEF BoundTo, StoredBinding, ConvOf
    <2>3. snap[a] = None
      BY <1>1 DEF Governed, Standing, BindingStands
    <2>4. Talks[a] \in {None, a}
      BY <1>0, <2>3, TalksOf DEF Conversation
    <2> QED
      BY <1>3, <1>4, <1>6, <1>7, <2>2, <2>4 DEF Authority!Bind, Authority!answerVars
  <1> QED
    BY <1>8, <1>9

(* endAttempt gives the session back with its result, or finds it gone.      *)
LEMMA EndIsRelease ==
    ASSUME Governed, [Next]_vars, NEW a \in Attempts, EndCommit(a)
    PROVE  Authority!Release(a) \/ UNCHANGED Authority!authorityVars
  <1>0. IInv /\ IInv' /\ TypeOK /\ Fenced
    BY Inductive DEF Governed, Conversing, IInv
  <1>1. row = base[a] /\ pc[a] = "settling"
    BY DEF EndCommit, Unchanged
  <1>2. row'.rev = row.rev
    BY <1>0, RevisionKept
  <1>3. UNCHANGED <<Talks, Lost, Admitted, transcript>>
    BY <1>0, Unheard
  <1>4. CASE row'.env = row.env
    <2>1. gone' = gone
      BY <1>4 DEF EndCommit, StoreEnvelope, Store
    <2> QED
      BY <1>2, <1>3, <1>4, <2>1, Unnoticed
  <1>5. CASE row'.env # row.env
    <2>1. /\ row.env # None /\ row.env.active # None /\ row.env.active.token = a
          /\ row'.env # None /\ row'.env.active = None
          /\ row'.env.binding = row.env.binding
          /\ row'.env.epoch = row.env.epoch /\ row'.env.pending = row.env.pending
          /\ row'.env.settled # None /\ row'.env.settled.token = a
      BY <1>0, <1>5, EndWrites, SettledWrites
    <2>2. row'.env.rev = row.env.rev
      BY <1>0, <2>1, RevisionKept
    <2>3. gone' = gone
      BY <2>1 DEF EndCommit, StoreEnvelope, Store
    <2>4. Parses(row)
      BY <1>0, <1>1 DEF Fenced
    <2>5. Authority!Open /\ Holder = a
      BY <1>0, <2>1, <2>4, Seen DEF Views, Authority!Open
    <2>6. Holder' = None /\ Winner' = a
      BY <1>0, <2>1, SeenNext DEF Views
    <2>7. UNCHANGED <<Generation, Sound, Closing, BoundTo>>
      BY <1>2, <2>1, <2>2 DEF Generation, Sound, Closing, BoundTo, StoredBinding
    <2>8. Talks[a] = None
      BY <1>0, <1>1, TalksOf DEF IInv, NativePhases, Driving
    <2> QED
      BY <1>3, <2>3, <2>5, <2>6, <2>7, <2>8 DEF Authority!Release, Authority!answerVars
  <1> QED
    BY <1>4, <1>5

(* The delivery guard lets through the result that the session holds.        *)
LEMMA AdmitIsAdmit ==
    ASSUME Governed, [Next]_vars, NEW a \in Attempts, Admit(a)
    PROVE  Authority!Admit(a) \/ UNCHANGED Authority!authorityVars
  <1>0. IInv /\ TypeOK /\ NativePhases /\ Fenced
    BY DEF Governed, Conversing, IInv
  <1>1. /\ pc[a] = "ended" /\ pc'[a] \in {"appending", "failed"}
        /\ pc'[a] = "appending" => ResultCurrent(row, lease[a], a, route[a])
        /\ \A b \in Attempts : b # a => pc'[b] = pc[b]
        /\ UNCHANGED <<row, gone, recreated, transcript, native, snap>>
    BY <1>0 DEF Admit, Goto, TypeOK, hostVars
  <1>2. UNCHANGED <<Talks, Lost>>
    BY <1>1 DEF Talks, Lost, Driving, Conversation
  <1>3. CASE pc'[a] = "failed"
    <2>1. Admitted' = Admitted
      BY <1>1, <1>3 DEF Admitted
    <2> QED
      BY <1>1, <1>2, <2>1, Unnoticed
  <1>4. CASE pc'[a] = "appending"
    <2>1. Authority!Open /\ Holder = None /\ Winner = a
      BY <1>0, <1>1, <1>4, Seen DEF Views, ResultCurrent, Authority!Open
    <2>2. a \notin Admitted /\ Admitted' = Admitted \cup {a}
      BY <1>1, <1>4 DEF Admitted
    <2>3. \A i \in DOMAIN transcript : transcript[i] # a
      BY <1>0, <1>1 DEF Fenced, TypeOK
    <2> QED
      BY <1>1, <1>2, <2>1, <2>2, <2>3, RowKept DEF Authority!Admit, Authority!rowVars
  <1> QED
    BY <1>1, <1>3, <1>4

LEMMA AnswersAreDelivered ==
    ASSUME Governed, [Next]_vars, NEW a \in Attempts, pc[a] = "appending",
           AppendAnswer(a) \/ AppendRejected(a) \/ Crash(a)
    PROVE  Authority!Deliver(a)
  <1>0. TypeOK
    BY DEF Governed, Conversing, IInv
  <1>1. /\ pc'[a] \in {"done", "failed", "crashed"}
        /\ \A b \in Attempts : b # a => pc'[b] = pc[b]
        /\ UNCHANGED <<row, gone, recreated, native, snap>>
        /\ transcript' \in {transcript, Append(transcript, a)}
    BY <1>0 DEF AppendAnswer, AppendRejected, Crash, Goto, TypeOK, hostVars
  <1>2. UNCHANGED <<Talks, Lost>>
    BY <1>1 DEF Talks, Lost, Driving, Conversation
  <1>3. a \in Admitted /\ Admitted' = Admitted \ {a}
    BY <1>1 DEF Admitted
  <1> QED
    BY <1>1, <1>2, <1>3, RowKept DEF Authority!Deliver, Authority!rowVars

(* The steps of a reset and of the host leave attempts and answers alone.    *)
LEMMA AttemptsKept ==
    ASSUME UNCHANGED <<attemptVars, transcript>>
    PROVE  UNCHANGED <<Talks, Admitted, transcript>>
  BY DEF attemptVars, Talks, Driving, Conversation, Admitted

(* clear ends the generation and keeps the conversation, if it is known.     *)
LEMMA RetireIsRetire ==
    ASSUME Governed, [Next]_vars, NEW r \in Resets, RetireCommit(r)
    PROVE  Authority!Retire(r)
  <1>0. IInv /\ IInv' /\ TypeOK /\ Fenced /\ Spent
    BY Inductive DEF Governed, Conversing, IInv
  <1>1. /\ rpc[r] = "retiring" /\ row'.env # None /\ row'.env.epoch = r
        /\ row'.env.pending
        /\ row'.rev = row.rev /\ row'.env.rev = row.rev
    BY <1>0, RetireWrites, RevisionReset
  <1>2. row = rbase[r] /\ MayRetire(row)
    BY <1>0, <1>1 DEF RetireCommit, Unchanged, Fenced
  <1>3. ~(Sound /\ Closing)
    BY <1>0, <1>2, Seen DEF Views, MayRetire
  <1>4. Sound' /\ Closing' /\ Holder' = None /\ Winner' = None /\ Generation' = r
    <2>1. Closing' /\ Holder' = None /\ Winner' = None /\ Generation' = r
      BY <1>0, <1>1, SeenNext DEF Views
    <2> QED
      BY <1>1, <2>1 DEF Sound
  <1>5. Authority!Begins(r)
    <2>1. r \notin Used
      BY <1>0, <1>1 DEF Spent
    <2>2. CASE row.env = None
      <3>1. gone' = gone /\ Generation = None
        BY <2>2 DEF RetireCommit, StoreEnvelope, Store, Generation
      <3> QED
        BY <1>4, <2>1, <3>1 DEF Used, Authority!Begins
    <2>3. CASE row.env # None
      <3>1. row.env.epoch # r
        BY <2>1, <2>3 DEF Used
      <3>2. gone' = gone \cup {row.env.epoch}
        BY <1>1, <2>3, <3>1 DEF RetireCommit, StoreEnvelope, Store
      <3>3. Generation = row.env.epoch /\ Generation # None
        BY <1>0, <2>3, Seen DEF Views
      <3> QED
        BY <1>4, <2>1, <3>1, <3>2, <3>3 DEF Used, Authority!Begins
    <2> QED
      BY <2>2, <2>3
  <1>6. BoundTo' = IF Sound THEN BoundTo ELSE None
    <2>1. row'.env = Retired(row, r)
      <3>1. row \in Rows /\ Retired(row, r) \in Envelopes
        BY <1>0, RetiredEnvelope DEF TypeOK
      <3> QED
        BY <1>0, <1>2, <3>1, StoreType DEF RetireCommit
    <2>2. StoredBinding(row') = Retired(row, r).binding
      BY <1>1, <2>1 DEF StoredBinding
    <2>3. CASE ~Sound \/ StoredBinding(row) = None
      <3>1. Retired(row, r).binding = None
        BY <1>0, <2>3, Seen DEF Views, Retired
      <3>2. BoundTo' = None
        BY <2>2, <3>1 DEF BoundTo, ConvOf
      <3> QED
        BY <1>0, <2>3, <3>2, Seen DEF Views
    <2>4. CASE Sound /\ StoredBinding(row) # None
      <3>1. StoredBinding(row) \in Bindings
        BY <1>0, <2>4 DEF TypeOK, StoredBinding, Rows, Envelopes
      <3>2. Retired(row, r).binding = [StoredBinding(row) EXCEPT !.epoch = r]
        BY <1>0, <2>4, Seen DEF Views, Retired
      <3>3. Retired(row, r).binding # None /\ Retired(row, r).binding.conv = StoredBinding(row).conv
        BY <3>1, <3>2, NoneIsNothing DEF Bindings, Epochs
      <3> QED
        BY <2>2, <2>4, <3>3 DEF BoundTo, ConvOf
    <2> QED
      BY <2>3, <2>4
  <1>7. UNCHANGED <<Talks, Lost, Admitted, transcript>>
    BY AttemptsKept DEF RetireCommit, hostVars, Lost
  <1> QED
    BY <1>3, <1>4, <1>5, <1>6, <1>7 DEF Authority!Retire, Authority!answerVars

(* clear drops the conversation once nobody works on it.                     *)
LEMMA ClearIsClear ==
    ASSUME Governed, [Next]_vars, NEW r \in Resets, ClearCommit(r)
    PROVE  Authority!Clear
  <1>0. IInv /\ IInv' /\ TypeOK /\ DrainHolds
    BY Inductive DEF Governed, Conversing, IInv
  <1>1. row = rbase[r] /\ rpc[r] = "clearing" /\ MayClear(row, r)
    BY <1>0 DEF ClearCommit, Unchanged, IInv, Prepared
  <1>2. /\ row.env # None /\ row.env.pending /\ row.env.epoch = r /\ Parses(row)
        /\ row'.env # None /\ row'.env.epoch = row.env.epoch /\ row'.env.binding = None
        /\ row'.env.active = None /\ row'.env.settled = None
        /\ row'.rev = row.rev /\ row'.env.rev = row.env.rev
    BY <1>0, <1>1, ClearWrites, ClearSettlesNothing, RevisionReset DEF MayClear
  <1>3. ~row'.env.pending
    <2>1. row \in Rows /\ Cleared(row) \in Envelopes /\ ~Cleared(row).pending
      BY <1>0, <1>1, ClearedEnvelope DEF TypeOK
    <2> QED
      BY <1>0, <1>1, <2>1, StoreType DEF ClearCommit
  <1>4. Sound /\ Closing /\ Holder = None /\ Winner = None
    BY <1>0, <1>2, Seen DEF Views
  <1>5. /\ ~Closing' /\ Holder' = None /\ Winner' = None
        /\ BoundTo' = ConvOf(row'.env.binding) /\ Sound'
    <2>1. Sound'
      BY <1>2, <1>4 DEF Sound
    <2> QED
      BY <1>0, <1>2, <1>3, <2>1, SeenNext DEF Views
  <1>6. gone' = gone /\ Generation' = Generation /\ BoundTo' = None
    BY <1>2, <1>5 DEF ClearCommit, StoreEnvelope, Store, Generation, ConvOf
  <1>7. \A b \in Attempts : Talks[b] = None
    <2>1. Drained
      BY <1>0, <1>1, <1>2 DEF DrainHolds
    <2> QED
      BY <1>0, <2>1, TalksOf DEF Drained
  <1>8. UNCHANGED <<Talks, Lost, Admitted, transcript>>
    BY AttemptsKept DEF ClearCommit, hostVars, Lost
  <1>9. UNCHANGED <<Sound, Holder, Winner>> /\ Closing' = FALSE
    BY <1>4, <1>5 DEF Sound, Closing
  <1> QED
    BY <1>4, <1>6, <1>7, <1>8, <1>9 DEF Authority!Clear, Authority!answerVars

LEMMA HostRecreatesRow ==
    ASSUME Governed, NEW rev \in Revisions, HostRecreates(rev)
    PROVE  Authority!HostRecreates
  <1>0. IInv /\ TypeOK
    BY DEF Governed, Conversing, IInv
  <1>1. row' = [rev |-> rev, env |-> None] /\ recreated' = recreated + 1
    BY DEF HostRecreates, Store
  <1>2. /\ Generation' = None /\ Sound' = TRUE /\ Closing' = FALSE
        /\ BoundTo' = None /\ Holder' = None /\ Winner' = None
    BY <1>1 DEF Generation, Sound, Closing, BoundTo, StoredBinding, ConvOf, Holder, Winner
  <1>3. Lost' = TRUE
    BY <1>0, <1>1 DEF Lost, TypeOK
  <1>4. gone' = gone \cup ({Generation} \ {None}) /\ None \notin gone'
    <2>1. row.env # None => row.env.epoch \in Epochs
      BY <1>0 DEF TypeOK, Rows, Envelopes
    <2> QED
      BY <1>0, <1>1, <2>1, NoneIsNothing DEF HostRecreates, Store, Generation, TypeOK
  <1>5. UNCHANGED <<Talks, Admitted, transcript>>
    BY AttemptsKept DEF HostRecreates
  <1> QED
    BY <1>2, <1>3, <1>4, <1>5 DEF Authority!HostRecreates, Authority!Begins, Authority!answerVars

LEMMA HostRevisesRow ==
    ASSUME Governed, NEW rev \in Revisions, HostRevises(rev)
    PROVE  Authority!HostRevises \/ UNCHANGED Authority!authorityVars
  <1>0. IInv /\ TypeOK
    BY DEF Governed, Conversing, IInv
  <1>1. row'.env = row.env /\ gone' = gone
    BY <1>0 DEF HostRevises, Store, TypeOK, Rows
  <1>2. UNCHANGED <<Generation, Closing, BoundTo, Holder, Winner>>
    BY <1>1 DEF Generation, Closing, BoundTo, StoredBinding, Holder, Winner
  <1>3. UNCHANGED <<Talks, Lost, Admitted, transcript>>
    BY AttemptsKept DEF HostRevises, Lost
  <1>4. CASE row.env = None
    <2>1. Sound' = Sound
      BY <1>1, <1>4 DEF Sound
    <2> QED
      BY <1>1, <1>2, <1>3, <2>1
      DEF Authority!authorityVars, Authority!rowVars, Authority!answerVars
  <1>5. CASE row.env # None
    <2>1. Generation # None
      BY <1>0, <1>5, Seen DEF Views
    <2>2. Sound' \in BOOLEAN
      BY DEF Sound
    <2> QED
      BY <1>1, <1>2, <1>3, <2>1, <2>2 DEF Authority!HostRevises, Authority!answerVars
  <1> QED
    BY <1>4, <1>5

LEMMA AuthorityStep ==
    ASSUME Governed, [Next]_vars
    PROVE  [Authority!AuthorityNext]_Authority!authorityVars
  <1>0. IInv
    BY DEF Governed, Conversing
  <1>1. ASSUME NEW a \in Attempts, AttemptStep(a) \/ NativeExit(a) \/ Revoke(a) \/ Crash(a)
        PROVE  \/ UNCHANGED Authority!authorityVars
               \/ Authority!Claim(a) \/ Authority!Start(a) \/ Authority!Exits(a) \/ Authority!Bind(a)
               \/ Authority!Release(a) \/ Authority!Admit(a) \/ Authority!Deliver(a)
    <2>1. CASE ClaimCommit(a)
      BY <2>1, ClaimIsClaim
    <2>2. CASE LaunchFence(a)
      BY <2>2, FenceIsStart
    <2>3. CASE NativeExit(a) \/ NotStarted(a) \/ Crash(a)
      <3>1. CASE Crash(a) /\ pc[a] = "appending"
        BY <3>1, AnswersAreDelivered
      <3> QED
        BY <2>3, <3>1, EndsAreExits
    <2>4. CASE BindCommit(a)
      BY <2>4, BindIsBind
    <2>5. CASE EndCommit(a)
      BY <2>5, EndIsRelease
    <2>6. CASE Admit(a)
      BY <2>6, AdmitIsAdmit
    <2>7. CASE AppendAnswer(a) \/ AppendRejected(a)
      <3>1. pc[a] = "appending"
        BY <2>7 DEF AppendAnswer, AppendRejected
      <3> QED
        BY <2>7, <3>1, AnswersAreDelivered
    <2> QED
      BY <1>0, <1>1, <2>1, <2>2, <2>3, <2>4, <2>5, <2>6, <2>7, SilentAttempt DEF AttemptStep
  <1>2. ASSUME NEW r \in Resets, ResetStep(r)
        PROVE  \/ UNCHANGED Authority!authorityVars
               \/ r \in Epochs /\ Authority!Retire(r)
               \/ Authority!Clear
    BY <1>2, SilentReset, RetireIsRetire, ClearIsClear DEF ResetStep, Epochs
  <1>3. ASSUME NEW rev \in Revisions, HostRecreates(rev) \/ HostRevises(rev)
        PROVE  \/ UNCHANGED Authority!authorityVars
               \/ Authority!HostRecreates \/ Authority!HostRevises
    BY <1>3, HostRecreatesRow, HostRevisesRow
  <1>4. CASE UNCHANGED vars
    <2>1. UNCHANGED <<row, gone, attemptVars, hostVars, transcript>>
      BY <1>4 DEF vars
    <2> QED
      BY <2>1, AttemptsKept, Unnoticed DEF hostVars, Lost
  <1> QED
    BY <1>1, <1>2, <1>3, <1>4 DEF Next, Authority!AuthorityNext

LEMMA GovernedInductive ==
    /\ Init => Governed
    /\ Governed /\ [Next]_vars => Governed'
  <1>1. Init => Governed
    <2> SUFFICES ASSUME Init PROVE Governed
      OBVIOUS
    <2>1. Conversing
      BY ConversingInductive
    <2>2. Spent /\ SnapshotStands /\ Standing
      BY DEF Init, Spent, Used, EpochNeverReturns, Rows, SnapshotStands, Standing, LeaseStands,
         SuccessorStands, BindingStands, Launched, Assured
    <2>3. Fenced
      BY DEF Init, Fenced
    <2> QED
      BY <2>1, <2>2, <2>3 DEF Governed
  <1>2. Governed /\ [Next]_vars => Governed'
    <2> SUFFICES ASSUME Governed, [Next]_vars PROVE Governed'
      OBVIOUS
    <2>1. Conversing' /\ Spent' /\ SnapshotStands' /\ Standing'
      BY ConversingInductive, SpentStep, SnapshotStep, LeaseStandsStep, SuccessorStep,
         BindingStandsStep DEF Governed, Conversing, Standing
    <2>2. Fenced'
      BY FencedStep DEF Governed, Conversing, IInv
    <2> QED
      BY <2>1, <2>2 DEF Governed
  <1> QED
    BY <1>1, <1>2

(* KeepsAuthority: every interleaving of attempts, resets, crashes, timeouts  *)
(* and host writes hands the session on as the abstract authority does, for  *)
(* any number of them (AntigravitySessionBindings as a whole).               *)
THEOREM AuthorityKept == Spec => KeepsAuthority
  <1>1. Init => Authority!AuthorityInit
    <2> SUFFICES ASSUME Init PROVE Authority!AuthorityInit
      OBVIOUS
    <2>1. row.env = None
      BY DEF Init
    <2>2. /\ Generation = None /\ Sound = TRUE /\ Closing = FALSE
          /\ BoundTo = None /\ Holder = None /\ Winner = None
      BY <2>1 DEF Generation, Sound, Closing, BoundTo, StoredBinding, ConvOf, Holder, Winner
    <2>3. Talks = [a \in Attempts |-> None] /\ Lost = FALSE /\ Admitted = {}
      BY DEF Init, Talks, Driving, Lost, Admitted
    <2> QED
      BY <2>2, <2>3 DEF Init, Authority!AuthorityInit
  <1> QED
    BY <1>1, AuthorityStep, GovernedInductive, PTL DEF Spec, KeepsAuthority, Authority!AuthoritySpec
=============================================================================
