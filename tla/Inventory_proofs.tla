--------------------------- MODULE Inventory_proofs ---------------------------
(***************************************************************************)
(* For any number of callers, authorities and entries: discovery never       *)
(* overlaps under one authority, nobody is left waiting for an acquisition   *)
(* that was given up, and a fresh call gets fresh models.                    *)
(***************************************************************************)
EXTENDS Inventory, FiniteSetTheorems, TLAPS

InFlight == {"queued", "running", "answered", "threw"}
Past == {"settling", "over"}
Phases == {"none"} \cup InFlight \cup Past

(* What every variable but the entries and their order may be.               *)
Types ==
    /\ snapshot \in [Authorities -> Callers \cup {None}]
    /\ inflight \in [Authorities -> Callers \cup {None}]
    /\ stopped \in BOOLEAN
    /\ phase \in [Callers -> Phases]
    /\ retired \subseteq Callers /\ outdated \subseteq Callers
    /\ waiters \in [Callers -> SUBSET Callers]
    /\ call \in [Callers -> {"idle", "waiting", "answered", "rejected"}]
    /\ scope \in [Callers -> Authorities \cup {None}]
    /\ live \in [Callers -> BOOLEAN]
    /\ answer \in [Callers -> Callers \cup {None}]
    /\ old \in [Callers -> SUBSET Callers]
    /\ void \subseteq Callers

(* The acquisitions under way are the ones in flight, one per authority.     *)
Flights ==
    /\ \A au \in Authorities :
          LET o == inflight[au] IN o # None => scope[o] = au /\ phase[o] \in InFlight
    /\ \A o \in Callers : phase[o] # "none" => scope[o] \in Authorities
    /\ \A o \in Callers : phase[o] \in InFlight => inflight[scope[o]] = o

(* Who has not called yet has left no trace.                                 *)
Untouched ==
    \A c \in Callers :
        call[c] = "idle" => phase[c] = "none" /\ answer[c] = None /\ c \notin retired

(* Who waits is with the acquisition in flight, which is not retired.        *)
Waiting ==
    /\ \A o \in Callers : \A c \in waiters[o] :
          /\ call[c] = "waiting" /\ scope[c] = scope[o]
          /\ phase[o] \in InFlight /\ o \notin retired
    /\ \A c \in Callers : call[c] = "waiting" =>
          /\ scope[c] \in Authorities
          /\ inflight[scope[c]] # None /\ c \in waiters[inflight[scope[c]]]

(* Whatever is cached or was answered comes from an acquisition that settled *)
(* under the same authority, after the caller came if that asked for it.     *)
Answered ==
    /\ \A c \in Callers : \A o \in old[c] : phase[o] \in Past
    /\ \A au \in Authorities :
          LET o == snapshot[au] IN o # None => scope[o] = au /\ phase[o] \in Past
    /\ \A c \in Callers :
          LET o == answer[c] IN
          o # None => scope[o] = scope[c] /\ phase[o] \in Past /\ o \notin old[c]

Core == Types /\ Flights /\ Untouched /\ Waiting /\ Answered

(* The entries.                                                              *)
Places ==
    /\ entries \subseteq Authorities /\ IsFiniteSet(entries)
    /\ Cardinality(entries) <= MaxScopes
    /\ older \subseteq entries \X entries
    /\ \A e, f \in entries : e # f => (<<e, f>> \in older <=> <<f, e>> \notin older)
    /\ \A e \in entries : <<e, e>> \notin older
    /\ \A au \in Authorities : inflight[au] # None \/ snapshot[au] # None => au \in entries

-----------------------------------------------------------------------------
LEMMA CoreInit == Init => Core /\ Places
  <1> SUFFICES ASSUME Init PROVE Core /\ Places
    OBVIOUS
  <1>1. Core
    BY NoneIsNeither DEF Init, Core, Types, Phases, Flights, Untouched, Waiting, Answered, InFlight
  <1>2. Places
    BY FS_EmptySet, MaxScopesIsPositive DEF Init, Places
  <1> QED
    BY <1>1, <1>2

(***************************************************************************)
(* Callers are dismissed, and acquisitions given up together with whoever    *)
(* waits for them; the cache only loses models.                              *)
(***************************************************************************)
Dismissal(out, gone) ==
    /\ call' = [c \in Callers |-> IF c \in out THEN "rejected" ELSE call[c]]
    /\ waiters' = [o \in Callers |-> waiters[o] \ out]
    /\ gone \subseteq Callers /\ retired' = retired \cup gone
    /\ \A o \in gone : waiters[o] \subseteq out /\ phase[o] # "none"
    /\ UNCHANGED <<inflight, scope, answer, old>>
    /\ snapshot' \in [Authorities -> Callers \cup {None}]
    /\ \A au \in Authorities : snapshot'[au] \in {snapshot[au], None}

(* An acquisition under way moves on, but not to its end.                    *)
Underway ==
    /\ phase' \in [Callers -> Phases]
    /\ \A o \in Callers : phase'[o] # phase[o] => phase[o] \in InFlight /\ phase'[o] \in InFlight

Rest ==
    /\ stopped' \in BOOLEAN /\ outdated' \subseteq Callers
    /\ live' \in [Callers -> BOOLEAN] /\ void' \subseteq Callers

LEMMA DismissalKeeps ==
    ASSUME Core, NEW out, NEW gone, Dismissal(out, gone), Underway, Rest
    PROVE  Core'
  <1> USE DEF Core, Dismissal, Underway, Rest
  <1>1. Types'
    BY DEF Types
  <1>2. Flights'
    BY NoneIsNeither DEF Types, Flights, InFlight
  <1>3. Untouched'
    BY DEF Types, Untouched, InFlight
  <1>4. Waiting'
    BY NoneIsNeither DEF Types, Waiting
  <1>5. Answered'
    <2>1. \A o \in Callers : phase[o] \in Past => phase'[o] \in Past
      BY DEF InFlight, Past
    <2>2. /\ \A c \in Callers : old'[c] = old[c] /\ old[c] \subseteq Callers
          /\ \A c \in Callers : answer'[c] = answer[c] /\ answer[c] \in Callers \cup {None}
          /\ \A au \in Authorities : snapshot[au] \in Callers \cup {None}
          /\ scope' = scope
      BY DEF Types
    <2>3. \A c \in Callers : \A o \in old'[c] : phase'[o] \in Past
      BY <2>1, <2>2 DEF Answered
    <2>4. \A au \in Authorities :
             LET o == snapshot'[au] IN o # None => scope'[o] = au /\ phase'[o] \in Past
      BY <2>1, <2>2 DEF Answered
    <2>5. \A c \in Callers :
             LET o == answer'[c] IN
             o # None => scope'[o] = scope'[c] /\ phase'[o] \in Past /\ o \notin old'[c]
      BY <2>1, <2>2 DEF Answered
    <2> QED
      BY <2>3, <2>4, <2>5 DEF Answered
  <1> QED
    BY <1>1, <1>2, <1>3, <1>4, <1>5

(* Nobody waits in two places.                                               *)
LEMMA WaitsOnce ==
    ASSUME Core, NEW o \in Callers, NEW p \in Callers, NEW c \in waiters[o], c \in waiters[p]
    PROVE  o = p
  BY DEF Core, Types, Flights, Waiting, InFlight

(* What RemoveWaiters does is a dismissal.                                   *)
LEMMA RemovalDismisses ==
    ASSUME Core, NEW o \in Callers, NEW cs \in SUBSET waiters[o], RemoveWaiters(o, cs),
           UNCHANGED <<scope, answer, old>>
    PROVE  \E out, gone : Dismissal(out, gone)
  <1> USE DEF Core
  <1>1. CASE cs = {}
    <2>1. Dismissal({}, {})
      BY <1>1 DEF RemoveWaiters, Dismissal, Types
    <2> QED
      BY <2>1
  <1>2. CASE cs # {} /\ NobodyLeft(o, cs)
    <2>1. /\ Rejected(waiters[o]) /\ waiters' = [waiters EXCEPT ![o] = {}] /\ Retire({o})
      BY <1>2 DEF RemoveWaiters
    <2>2. waiters' = [p \in Callers |-> waiters[p] \ waiters[o]]
      BY <2>1, WaitsOnce DEF Types
    <2>3. phase[o] # "none"
      BY <1>2 DEF Waiting, InFlight
    <2>4. Dismissal(waiters[o], {o})
      BY <2>1, <2>2, <2>3 DEF Dismissal, Rejected, Retire, Types
    <2> QED
      BY <2>4
  <1>3. CASE cs # {} /\ ~NobodyLeft(o, cs)
    <2>1. /\ Rejected(cs) /\ waiters' = [waiters EXCEPT ![o] = @ \ cs]
          /\ UNCHANGED <<retired, snapshot, inflight>>
      BY <1>3 DEF RemoveWaiters
    <2>2. waiters' = [p \in Callers |-> waiters[p] \ cs]
      BY <2>1, WaitsOnce DEF Types
    <2>3. Dismissal(cs, {})
      BY <2>1, <2>2 DEF Dismissal, Rejected, Types
    <2> QED
      BY <2>3
  <1> QED
    BY <1>1, <1>2, <1>3

LEMMA InvalidationDismisses ==
    ASSUME Core, NEW aus \in SUBSET Authorities, Invalidated(aus)
    PROVE  /\ \E out, gone : Dismissal(out, gone)
           /\ void' \subseteq Callers
  <1> USE DEF Core
  <1> DEFINE gone == {inflight[au] : au \in aus \cap entries} \ {None}
             out == UNION {waiters[o] : o \in gone}
  <1>1. gone \subseteq Callers
    BY DEF Types
  <1>2. /\ retired' = retired \cup gone /\ Rejected(out)
        /\ waiters' = [o \in Callers |-> IF o \in gone THEN {} ELSE waiters[o]]
        /\ snapshot' = [au \in Authorities |-> IF au \in aus THEN None ELSE snapshot[au]]
        /\ UNCHANGED <<inflight, phase, scope, live, answer, old>>
    BY DEF Invalidated
  <1>3. \A o \in gone : waiters[o] \subseteq out /\ phase[o] # "none"
    BY DEF Flights, InFlight
  <1>4. \A c \in out : \E o \in gone : c \in waiters[o]
    OBVIOUS
  <1> HIDE DEF gone, out
  <1>5. waiters' = [o \in Callers |-> waiters[o] \ out]
    <2> SUFFICES ASSUME NEW o \in Callers
                 PROVE  (IF o \in gone THEN {} ELSE waiters[o]) = waiters[o] \ out
      BY <1>2
    <2> QED
      BY <1>1, <1>3, <1>4, WaitsOnce
  <1>6. Dismissal(out, gone)
    BY <1>1, <1>2, <1>3, <1>5 DEF Dismissal, Rejected, Types
  <1>7. void' \subseteq Callers
    BY DEF Invalidated, Begun, Types
  <1> QED
    BY <1>6, <1>7

(* Lapses, departures, timers, ageing, invalidations, and an acquisition's   *)
(* progress up to its end.                                                   *)
LEMMA DismissalsKeep ==
    ASSUME Core,
           \/ \E c \in Callers : Lapse(c) \/ Abort(c) \/ CallerTimer(c)
           \/ \E o \in Callers : Start(o) \/ Checks(o) \/ Return(o) \/ Discard(o) \/ AcquisitionTimer(o)
           \/ \E au \in Authorities : SnapshotAges(au) \/ Invalidate(au)
           \/ InvalidateAll \/ Stop
    PROVE  Core'
  <1> USE DEF Core
  <1>1. ASSUME NEW c \in Callers, Lapse(c) PROVE Core'
    <2>1. Dismissal({}, {})
      BY <1>1 DEF Lapse, entryVars, acqVars, Dismissal, Types
    <2>2. Underway /\ Rest
      BY <1>1 DEF Lapse, entryVars, acqVars, Underway, Rest, Types
    <2> QED
      BY <2>1, <2>2, DismissalKeeps
  <1>2. ASSUME NEW c \in Callers, Leave(c) PROVE Core'
    <2>1. PICK o \in Callers : c \in waiters[o] /\ RemoveWaiters(o, {c})
      BY <1>2 DEF Leave
    <2>2. \E out, gone : Dismissal(out, gone)
      BY <1>2, <2>1, RemovalDismisses DEF Leave
    <2>3. Underway /\ Rest
      BY <1>2 DEF Leave, Underway, Rest, Types
    <2> QED
      BY <2>2, <2>3, DismissalKeeps
  <1>3. ASSUME NEW o \in Callers, Start(o) \/ Discard(o) \/ Checks(o) PROVE Core'
    <2>1. Check(o)
      BY <1>3 DEF Start, Discard, Checks
    <2>2. \E out, gone : Dismissal(out, gone)
      <3>1. Lapsed(o) \subseteq waiters[o]
        BY DEF Lapsed
      <3> QED
        BY <2>1, <3>1, RemovalDismisses DEF Check
    <2>3. Underway
      BY <1>3 DEF Start, Discard, Checks, Go, Underway, Types, Phases, InFlight
    <2>4. Rest
      BY <2>1 DEF Check, Rest, Types
    <2> QED
      BY <2>2, <2>3, <2>4, DismissalKeeps
  <1>4. ASSUME NEW o \in Callers, Return(o) PROVE Core'
    <2>1. Dismissal({}, {})
      BY <1>4 DEF Return, entryVars, callVars, Dismissal, Types
    <2>2. Underway /\ Rest
      BY <1>4 DEF Return, Go, entryVars, callVars, Underway, Rest, Types, Phases, InFlight
    <2> QED
      BY <2>1, <2>2, DismissalKeeps
  <1>5. ASSUME NEW o \in Callers, AcquisitionTimer(o) PROVE Core'
    <2>1. waiters' = [p \in Callers |-> waiters[p] \ waiters[o]]
      BY <1>5, WaitsOnce DEF AcquisitionTimer, Types
    <2>2. Dismissal(waiters[o], {o})
      BY <1>5, <2>1 DEF AcquisitionTimer, Dismissal, Rejected, Retire, Types
    <2>3. Underway /\ Rest
      BY <1>5 DEF AcquisitionTimer, Underway, Rest, Types
    <2> QED
      BY <2>2, <2>3, DismissalKeeps
  <1>6. ASSUME NEW au \in Authorities, SnapshotAges(au) PROVE Core'
    <2>1. Dismissal({}, {})
      BY <1>6 DEF SnapshotAges, acqVars, callVars, Dismissal, Types
    <2>2. Underway /\ Rest
      BY <1>6 DEF SnapshotAges, acqVars, callVars, Underway, Rest, Types
    <2> QED
      BY <2>1, <2>2, DismissalKeeps
  <1>7. ASSUME NEW aus \in SUBSET Authorities, Invalidated(aus),
               stopped' \in BOOLEAN, outdated' \subseteq Callers
        PROVE  Core'
    <2>1. Underway /\ Rest
      BY <1>7, InvalidationDismisses DEF Invalidated, Underway, Rest, Types
    <2> QED
      BY <1>7, <2>1, InvalidationDismisses, DismissalKeeps
  <1>8. ASSUME NEW au \in Authorities, Invalidate(au) PROVE Core'
    BY <1>7, <1>8 DEF Invalidate, Types
  <1>9. CASE InvalidateAll \/ Stop
    <2>1. {inflight[au] : au \in Authorities} \ {None} \subseteq Callers
      BY DEF Types
    <2> QED
      BY <1>7, <1>9, <2>1 DEF InvalidateAll, Stop, Types
  <1> QED
    BY <1>1, <1>2, <1>3, <1>4, <1>5, <1>6, <1>8, <1>9 DEF Abort, CallerTimer

(* A call leaves what others were answered alone.                            *)
LEMMA AnsweredKept ==
    ASSUME Core, NEW c \in Callers, answer[c] = None, phase[c] = "none",
           \A o \in Callers : phase[o] \in Past => phase'[o] \in Past /\ scope'[o] = scope[o],
           \A d \in Callers \ {c} :
              scope'[d] = scope[d] /\ old'[d] = old[d] /\ answer'[d] = answer[d],
           \A o \in old'[c] : o \in Callers /\ phase'[o] \in Past,
           \A au \in Authorities : snapshot'[au] \in {snapshot[au], None},
           \/ answer'[c] = None
           \/ /\ answer'[c] \in Callers /\ phase[answer'[c]] \in Past
              /\ scope[answer'[c]] = scope'[c] /\ answer'[c] \notin old'[c]
    PROVE  Answered'
  <1> USE DEF Core
  <1>1. \A d \in Callers : \A o \in old'[d] : phase'[o] \in Past
    <2> SUFFICES ASSUME NEW d \in Callers \ {c}, NEW o \in old'[d]
                 PROVE  phase'[o] \in Past
      OBVIOUS
    <2>1. o \in Callers /\ phase[o] \in Past
      BY DEF Types, Answered
    <2> QED
      BY <2>1
  <1>2. ASSUME NEW au \in Authorities, snapshot'[au] # None
        PROVE  scope'[snapshot'[au]] = au /\ phase'[snapshot'[au]] \in Past
    <2>1. /\ snapshot'[au] = snapshot[au] /\ snapshot[au] \in Callers
          /\ scope[snapshot[au]] = au /\ phase[snapshot[au]] \in Past
      BY <1>2 DEF Types, Answered
    <2> QED
      BY <2>1
  <1>3. ASSUME NEW d \in Callers, answer'[d] # None
        PROVE  /\ scope'[answer'[d]] = scope'[d] /\ phase'[answer'[d]] \in Past
               /\ answer'[d] \notin old'[d]
    <2>1. CASE d = c
      BY <1>3, <2>1
    <2>2. CASE d # c
      <3>1. /\ answer'[d] = answer[d] /\ answer[d] \in Callers
            /\ scope[answer[d]] = scope[d] /\ phase[answer[d]] \in Past
            /\ answer[d] \notin old[d]
        BY <1>3, <2>2 DEF Types, Answered
      <3> QED
        BY <2>2, <3>1
    <2> QED
      BY <2>1, <2>2
  <1> QED
    BY <1>1, <1>2, <1>3 DEF Answered

LEMMA GetKeeps ==
    ASSUME Core, NEW c \in Callers, Get(c)
    PROVE  Core'
  <1> USE DEF Core
  <1>1. ASSUME NEW au \in Authorities, NEW active \in BOOLEAN, GetRefused(c, au, active)
        PROVE  Core'
    <2> USE <1>1 DEF GetRefused, entryVars, acqVars
    <2>1. Types' /\ Flights' /\ Untouched'
      BY DEF Types, Flights, Untouched
    <2>2. Waiting' /\ Answered'
      BY DEF Types, Waiting, Answered
    <2> QED
      BY <2>1, <2>2
  <1>2. ASSUME NEW au \in Authorities, NEW fresh \in BOOLEAN, Admitted(c, au, fresh)
        PROVE  /\ call[c] = "idle" /\ phase[c] = "none" /\ answer[c] = None
               /\ c \notin retired
               /\ scope' = [scope EXCEPT ![c] = au]
               /\ scope' \in [Callers -> Authorities \cup {None}]
               /\ snapshot' \in [Authorities -> Callers \cup {None}]
               /\ \A b \in Authorities : snapshot'[b] \in {snapshot[b], None}
               /\ old' \in [Callers -> SUBSET Callers]
               /\ \A d \in Callers \ {c} : old'[d] = old[d] /\ scope'[d] = scope[d]
               /\ \A o \in old'[c] : o \in Callers /\ phase[o] \in Past
               /\ ~fresh => old'[c] = {}
               /\ scope'[c] = au
               /\ UNCHANGED <<stopped, retired, outdated, live, void>>
               /\ \A o \in Callers : phase[o] # "none" => scope'[o] = scope[o]
               /\ \A o \in Callers : \A d \in waiters[o] : d # c /\ o # c
    <2>1. /\ call[c] = "idle" /\ phase[c] = "none" /\ answer[c] = None /\ c \notin retired
          /\ scope' = [scope EXCEPT ![c] = au]
          /\ UNCHANGED <<stopped, retired, outdated, live, void>>
      BY <1>2 DEF Admitted, Untouched
    <2>2. /\ snapshot' \in [Authorities -> Callers \cup {None}]
          /\ \A b \in Authorities : snapshot'[b] \in {snapshot[b], None}
      BY <1>2 DEF Admitted, Touch, Types
    <2>3. old' = [old EXCEPT ![c] = IF fresh THEN Settled ELSE {}]
      BY <1>2 DEF Admitted
    <2>4. Settled \subseteq Callers /\ \A o \in Settled : phase[o] \in Past
      BY DEF Settled, Past
    <2>5. \A o \in Callers : \A d \in waiters[o] : d # c /\ o # c
      BY <2>1 DEF Waiting, InFlight
    <2> QED
      BY <2>1, <2>2, <2>3, <2>4, <2>5 DEF Types
  <1>3. \A o \in Callers : phase[o] \in Past => phase[o] # "none"
    BY DEF Past
  <1>4. ASSUME NEW au \in Authorities, NEW fresh \in BOOLEAN, GetRetiring(c, au, fresh)
        PROVE  Core'
    <2>1. Admitted(c, au, fresh) /\ UNCHANGED <<inflight, phase, waiters, answer>>
          /\ call' = [call EXCEPT ![c] = "rejected"]
      BY <1>4 DEF GetRetiring
    <2>2. Types' /\ Flights' /\ Untouched'
      BY <1>2, <2>1, NoneIsNeither DEF Types, Flights, Untouched, InFlight
    <2>3. Waiting'
      BY <1>2, <2>1, NoneIsNeither DEF Types, Waiting, InFlight
    <2>4. Answered'
      BY <1>2, <1>3, <2>1, AnsweredKept
    <2> QED
      BY <2>2, <2>3, <2>4
  <1>5. ASSUME NEW au \in Authorities, NEW fresh \in BOOLEAN, GetJoins(c, au, fresh)
        PROVE  Core'
    <2> DEFINE p == inflight[au]
    <2>1. /\ Admitted(c, au, fresh) /\ UNCHANGED <<inflight, phase, answer>>
          /\ p \in Callers /\ p \notin retired
          /\ call' = [call EXCEPT ![c] = "waiting"]
          /\ waiters' = [waiters EXCEPT ![p] = @ \cup {c}]
      BY <1>5 DEF GetJoins, Joinable, Types
    <2>2. scope[p] = au /\ phase[p] \in InFlight /\ p # c
      BY <1>2, <2>1, NoneIsNeither DEF Flights, InFlight
    <2>3. Types' /\ Flights' /\ Untouched'
      BY <1>2, <2>1, NoneIsNeither DEF Types, Flights, Untouched, InFlight
    <2>4. Waiting'
      BY <1>2, <2>1, <2>2, NoneIsNeither DEF Types, Waiting, InFlight
    <2>5. Answered'
      BY <1>2, <1>3, <2>1, AnsweredKept
    <2> QED
      BY <2>3, <2>4, <2>5
  <1>6. ASSUME NEW au \in Authorities, NEW fresh \in BOOLEAN, GetCached(c, au, fresh)
        PROVE  Core'
    <2>1. /\ Admitted(c, au, fresh) /\ ~fresh /\ snapshot[au] # None
          /\ UNCHANGED <<inflight, phase, waiters>>
          /\ call' = [call EXCEPT ![c] = "answered"]
          /\ answer' = [answer EXCEPT ![c] = snapshot[au]]
      BY <1>6 DEF GetCached, Cached
    <2>2. snapshot[au] \in Callers /\ scope[snapshot[au]] = au /\ phase[snapshot[au]] \in Past
      BY <2>1 DEF Types, Answered
    <2>3. Types' /\ Flights' /\ Untouched'
      BY <1>2, <2>1, <2>2, NoneIsNeither DEF Types, Flights, Untouched, InFlight
    <2>4. Waiting'
      BY <1>2, <2>1, NoneIsNeither DEF Types, Waiting, InFlight
    <2>5. Answered'
      <3>1. answer'[c] = snapshot[au] /\ \A d \in Callers \ {c} : answer'[d] = answer[d]
        BY <2>1 DEF Types
      <3> QED
        BY <1>2, <1>3, <2>1, <2>2, <3>1, AnsweredKept
    <2> QED
      BY <2>3, <2>4, <2>5
  <1>7. ASSUME NEW au \in Authorities, NEW fresh \in BOOLEAN, GetStarts(c, au, fresh)
        PROVE  Core'
    <2>1. /\ Admitted(c, au, fresh) /\ inflight[au] = None /\ UNCHANGED answer
          /\ call' = [call EXCEPT ![c] = "waiting"]
          /\ inflight' = [inflight EXCEPT ![au] = c]
          /\ phase' = [phase EXCEPT ![c] = "queued"]
          /\ waiters' = [waiters EXCEPT ![c] = {c}]
      BY <1>7 DEF GetStarts
    <2>2. Types' /\ Untouched'
      BY <1>2, <2>1, NoneIsNeither DEF Types, Phases, Untouched, InFlight
    <2>3. Flights'
      BY <1>2, <2>1, NoneIsNeither DEF Types, Flights, InFlight
    <2>4. Waiting'
      <3>1. ASSUME NEW o \in Callers, NEW d \in waiters'[o]
            PROVE  /\ call'[d] = "waiting" /\ scope'[d] = scope'[o]
                   /\ phase'[o] \in InFlight /\ o \notin retired'
        <4>1. CASE o = c
          BY <1>2, <2>1, <3>1, <4>1 DEF Types, InFlight
        <4>2. CASE o # c
          BY <1>2, <2>1, <3>1, <4>2 DEF Types, Waiting, InFlight
        <4> QED
          BY <4>1, <4>2
      <3>2. ASSUME NEW d \in Callers, call'[d] = "waiting"
            PROVE  /\ scope'[d] \in Authorities
                   /\ inflight'[scope'[d]] # None /\ d \in waiters'[inflight'[scope'[d]]]
        <4>1. CASE d = c
          BY <1>2, <2>1, <4>1, NoneIsNeither DEF Types
        <4>2. CASE d # c
          <5>1. /\ call[d] = "waiting" /\ scope'[d] = scope[d]
                /\ scope[d] \in Authorities /\ inflight[scope[d]] # None
                /\ inflight[scope[d]] \in Callers
                /\ d \in waiters[inflight[scope[d]]]
            BY <1>2, <2>1, <3>2, <4>2 DEF Types, Waiting
          <5>2. scope[d] # au /\ inflight[scope[d]] # c
            BY <1>2, <2>1, <5>1
          <5> QED
            BY <2>1, <5>1, <5>2 DEF Types
        <4> QED
          BY <4>1, <4>2
      <3> QED
        BY <3>1, <3>2 DEF Waiting
    <2>5. Answered'
      <3>1. \A o \in Callers : phase[o] # "none" => phase'[o] = phase[o]
        BY <1>2, <2>1 DEF Types
      <3> QED
        BY <1>2, <1>3, <2>1, <3>1, AnsweredKept
    <2> QED
      BY <2>2, <2>3, <2>4, <2>5
  <1> QED
    BY <1>1, <1>4, <1>5, <1>6, <1>7 DEF Get, GetFor

(* An acquisition that ends takes its place and its waiters with it.         *)
LEMMA EndKeeps ==
    ASSUME Core, NEW o \in Callers, Complete(o) \/ Fail(o)
    PROVE  Core'
  <1> USE DEF Core
  <1> DEFINE au == scope[o]
  <1>1. /\ phase[o] \in {"answered", "threw"} /\ phase[o] \in InFlight
        /\ phase' = [phase EXCEPT ![o] = "settling"]
        /\ waiters' = [waiters EXCEPT ![o] = {}]
        /\ UNCHANGED <<stopped, retired, outdated, scope, live, old>>
        /\ void' \subseteq Callers
    BY DEF Complete, Fail, Go, InFlight, Begun, Types
  <1>2. au \in Authorities /\ inflight[au] = o
    BY <1>1 DEF Flights, InFlight
  <1>3. inflight' = [inflight EXCEPT ![au] = None]
    BY <1>2 DEF Complete, Fail, Release, Freed
  <1>4. \A c \in Callers : call'[c] = "waiting" <=> call[c] = "waiting" /\ c \notin waiters[o]
    <2>1. CASE Complete(o)
      <3>1. Lapsed(o) \subseteq waiters[o]
        BY DEF Lapsed
      <3> QED
        BY <2>1, <3>1 DEF Complete
    <2>2. CASE Fail(o)
      BY <2>2 DEF Fail, Rejected
    <2> QED
      BY <2>1, <2>2
  <1>5. /\ call' \in [Callers -> {"idle", "waiting", "answered", "rejected"}]
        /\ answer' \in [Callers -> Callers \cup {None}]
        /\ \A c \in Callers : call'[c] = "idle" => call[c] = "idle"
        /\ \A c \in Callers : answer'[c] = answer[c] \/ (answer'[c] = o /\ c \in waiters[o])
        /\ snapshot' \in [Authorities -> Callers \cup {None}]
        /\ \A b \in Authorities : snapshot'[b] \in {snapshot[b], None} \/ (b = au /\ snapshot'[b] = o)
    <2>1. CASE Complete(o)
      BY <1>2, <2>1 DEF Complete, Types
    <2>2. CASE Fail(o)
      BY <1>2, <2>2 DEF Fail, Rejected, Withdrawn, Types
    <2> QED
      BY <2>1, <2>2
  <1>6. Types'
    BY <1>1, <1>3, <1>5 DEF Types, Phases, Past
  <1>7. Flights'
    BY <1>1, <1>2, <1>3, NoneIsNeither DEF Types, Flights, InFlight
  <1>8. Untouched'
    <2>1. \A c \in waiters[o] : call[c] # "idle"
      BY DEF Waiting
    <2> QED
      BY <1>1, <1>5, <2>1 DEF Types, Untouched, InFlight
  <1>9. Waiting'
    <2>1. ASSUME NEW p \in Callers, NEW c \in waiters'[p]
          PROVE  /\ call'[c] = "waiting" /\ scope'[c] = scope'[p]
                 /\ phase'[p] \in InFlight /\ p \notin retired'
      <3>1. p # o /\ c \in waiters[p] /\ c \in Callers
        BY <1>1, <2>1 DEF Types
      <3>2. c \notin waiters[o]
        BY <3>1, WaitsOnce
      <3> QED
        BY <1>1, <1>4, <3>1, <3>2 DEF Types, Waiting
    <2>2. ASSUME NEW c \in Callers, call'[c] = "waiting"
          PROVE  /\ scope'[c] \in Authorities
                 /\ inflight'[scope'[c]] # None /\ c \in waiters'[inflight'[scope'[c]]]
      <3>1. call[c] = "waiting" /\ c \notin waiters[o]
        BY <1>4, <2>2
      <3>2. /\ scope[c] \in Authorities /\ inflight[scope[c]] # None
            /\ c \in waiters[inflight[scope[c]]] /\ inflight[scope[c]] \in Callers
        BY <3>1 DEF Waiting, Types
      <3>3. scope[c] # au /\ inflight[scope[c]] # o
        BY <1>2, <3>1, <3>2
      <3> QED
        BY <1>1, <1>3, <3>2, <3>3 DEF Types
    <2> QED
      BY <2>1, <2>2 DEF Waiting
  <1>10. Answered'
    <2>1. /\ \A p \in Callers : phase[p] \in Past => phase'[p] \in Past
          /\ phase'[o] \in Past /\ phase[o] \notin Past
      BY <1>1 DEF Types, Past
    <2>2. ASSUME NEW c \in Callers, NEW p \in old'[c]
          PROVE  phase'[p] \in Past
      BY <1>1, <2>1, <2>2 DEF Types, Answered
    <2>3. ASSUME NEW b \in Authorities, snapshot'[b] # None
          PROVE  scope'[snapshot'[b]] = b /\ phase'[snapshot'[b]] \in Past
      <3>1. CASE snapshot'[b] = snapshot[b]
        BY <1>1, <2>1, <2>3, <3>1 DEF Types, Answered
      <3>2. CASE b = au /\ snapshot'[b] = o
        BY <1>1, <2>1, <3>2
      <3> QED
        BY <1>5, <2>3, <3>1, <3>2
    <2>4. ASSUME NEW c \in Callers, answer'[c] # None
          PROVE  /\ scope'[answer'[c]] = scope'[c] /\ phase'[answer'[c]] \in Past
                 /\ answer'[c] \notin old'[c]
      <3>1. CASE answer'[c] = answer[c]
        BY <1>1, <2>1, <2>4, <3>1 DEF Types, Answered
      <3>2. CASE answer'[c] = o /\ c \in waiters[o]
        BY <1>1, <2>1, <3>2 DEF Waiting, Answered
      <3> QED
        BY <1>5, <3>1, <3>2
    <2> QED
      BY <2>2, <2>3, <2>4 DEF Answered
  <1> QED
    BY <1>6, <1>7, <1>8, <1>9, <1>10

LEMMA FinishKeeps ==
    ASSUME Core, NEW o \in Callers, Finish(o)
    PROVE  Core' /\ UNCHANGED <<orderVars, inflight, snapshot>>
  <1> USE DEF Core
  <1>1. /\ phase[o] = "settling" /\ phase' = [phase EXCEPT ![o] = "over"]
        /\ UNCHANGED <<snapshot, stopped, retired, outdated, waiters, callVars, void>>
    BY DEF Finish, Go
  <1>2. inflight[scope[o]] # o
    BY <1>1, NoneIsNeither DEF Types, Flights, InFlight
  <1>3. UNCHANGED <<inflight, orderVars>>
    BY <1>2 DEF Finish, Release
  <1>4. Types' /\ Untouched'
    BY <1>1, <1>3 DEF callVars, Types, Phases, Past, Untouched
  <1>5. Flights'
    BY <1>1, <1>3, NoneIsNeither DEF callVars, Types, Flights, InFlight
  <1>6. Waiting'
    BY <1>1, <1>3 DEF callVars, Types, Waiting, InFlight
  <1>7. Answered'
    BY <1>1, <1>3 DEF callVars, Types, Answered, Past
  <1> QED
    BY <1>1, <1>3, <1>4, <1>5, <1>6, <1>7

LEMMA CoreInductive == Core /\ [Next]_vars => Core'
  <1> SUFFICES ASSUME Core, [Next]_vars PROVE Core'
    OBVIOUS
  <1>1. CASE UNCHANGED vars
    BY <1>1 DEF vars, entryVars, acqVars, callVars, Core, Types, Flights, Untouched, Waiting, Answered
  <1> QED
    BY <1>1, DismissalsKeep, GetKeeps, EndKeeps, FinishKeeps DEF Next, Callback

-----------------------------------------------------------------------------
(***************************************************************************)
(* The entries.                                                             *)
(***************************************************************************)
LEMMA FewerPlaces ==
    ASSUME Places, NEW aus, Without(aus),
           \A au \in Authorities : au \in aus => inflight'[au] = None /\ snapshot'[au] = None,
           \A au \in Authorities : inflight'[au] # None \/ snapshot'[au] # None
              => inflight[au] # None \/ snapshot[au] # None
    PROVE  Places'
  <1>1. entries' = entries \ aus /\ entries' \in SUBSET entries
    BY DEF Without
  <1>2. IsFiniteSet(entries') /\ Cardinality(entries') <= Cardinality(entries)
    BY <1>1, FS_Subset DEF Places
  <1>3. Cardinality(entries') <= MaxScopes
    BY <1>1, <1>2, FS_Subset, FS_CardinalityType, MaxScopesIsPositive DEF Places
  <1>4. /\ older' \subseteq entries' \X entries'
        /\ \A e, f \in entries' : e # f => (<<e, f>> \in older' <=> <<f, e>> \notin older')
        /\ \A e \in entries' : <<e, e>> \notin older'
    BY <1>1 DEF Places, Without, OlderWithout
  <1> QED
    BY <1>1, <1>2, <1>3, <1>4 DEF Places

LEMMA SamePlaces ==
    ASSUME Places, UNCHANGED orderVars,
           \A au \in Authorities : inflight'[au] # None \/ snapshot'[au] # None
              => inflight[au] # None \/ snapshot[au] # None
    PROVE  Places'
  BY DEF Places, orderVars

(* The entry that is used moves to the end, where there is room for it.      *)
LEMMA TouchKeeps ==
    ASSUME Core, Places, NEW au \in Authorities, Touch(au),
           ~Full(au) \/ Evictable # {},
           \A b \in Authorities \ {au} : inflight'[b] = inflight[b]
    PROVE  Places'
  <1>1. PICK out \in IF Full(au) THEN {{e} : e \in Oldest(Evictable)} ELSE {{}} :
           LET others == entries \ (out \cup {au}) IN
           /\ entries' = others \cup {au}
           /\ older' = OlderWithout(out \cup {au}) \cup (others \X {au})
           /\ snapshot' = [e \in Authorities |-> IF e \in out THEN None ELSE snapshot[e]]
    BY DEF Touch
  <1> DEFINE others == entries \ (out \cup {au})
  <1>2. \/ out = {} /\ ~Full(au)
        \/ Full(au) /\ \E e \in Evictable : out = {e}
    BY DEF Oldest
  <1>3. \A e \in out : e \in entries /\ inflight[e] = None
    BY <1>2 DEF Evictable
  <1>4. others \in SUBSET entries /\ au \notin others
    OBVIOUS
  <1>5. IsFiniteSet(others) /\ Cardinality(others) \in Nat /\ Cardinality(entries) \in Nat
    BY <1>4, FS_Subset, FS_CardinalityType DEF Places
  <1>6. IsFiniteSet(entries') /\ Cardinality(entries') = Cardinality(others) + 1
    BY <1>1, <1>4, <1>5, FS_AddElement
  <1>7. Cardinality(others) + 1 <= MaxScopes
    <2>1. CASE au \in entries
      <3>1. others \in SUBSET entries /\ others # entries
        BY <2>1
      <3>2. Cardinality(others) < Cardinality(entries)
        BY <1>5, <3>1, FS_Subset DEF Places
      <3> QED
        BY <1>5, <3>2, MaxScopesIsPositive DEF Places
    <2>2. CASE au \notin entries /\ out = {}
      <3>1. others = entries /\ ~Full(au)
        BY <1>2, <2>2
      <3> QED
        BY <1>5, <2>2, <3>1, MaxScopesIsPositive DEF Full
    <2>3. CASE au \notin entries /\ out # {}
      <3>1. others # entries
        BY <1>3, <2>3
      <3>2. Cardinality(others) < Cardinality(entries)
        BY <1>4, <1>5, <3>1, FS_Subset DEF Places
      <3> QED
        BY <1>5, <3>2, MaxScopesIsPositive DEF Places
    <2> QED
      BY <2>1, <2>2, <2>3
  <1>8. /\ entries' \subseteq Authorities
        /\ older' \subseteq entries' \X entries'
        /\ \A e \in entries' : <<e, e>> \notin older'
    BY <1>1 DEF Places, OlderWithout
  <1>9. ASSUME NEW e \in entries', NEW f \in entries', e # f
        PROVE  <<e, f>> \in older' <=> <<f, e>> \notin older'
    <2>1. CASE e = au
      BY <1>1, <1>9, <2>1 DEF OlderWithout
    <2>2. CASE f = au
      BY <1>1, <1>9, <2>2 DEF OlderWithout
    <2>3. CASE e # au /\ f # au
      <3>1. e \in entries /\ f \in entries /\ e \notin out /\ f \notin out
        BY <1>1, <2>3
      <3>2. (<<e, f>> \in older' <=> <<e, f>> \in older) /\ (<<f, e>> \in older' <=> <<f, e>> \in older)
        BY <1>1, <2>3, <3>1 DEF OlderWithout
      <3> QED
        BY <1>9, <3>1, <3>2 DEF Places
    <2> QED
      BY <2>1, <2>2, <2>3
  <1>10. ASSUME NEW b \in Authorities, inflight'[b] # None \/ snapshot'[b] # None
         PROVE  b \in entries'
    <2>1. CASE b = au
      BY <1>1, <2>1
    <2>2. CASE b # au
      <3>1. b \notin out /\ (inflight[b] # None \/ snapshot[b] # None)
        BY <1>1, <1>3, <1>10, <2>2
      <3> QED
        BY <1>1, <2>2, <3>1 DEF Places
    <2> QED
      BY <2>1, <2>2
  <1> QED
    BY <1>6, <1>7, <1>8, <1>9, <1>10 DEF Places

LEMMA PlacesInductive == Core /\ Places /\ [Next]_vars => Places'
  <1> SUFFICES ASSUME Core, Places, [Next]_vars PROVE Places'
    OBVIOUS
  <1>1. ASSUME UNCHANGED <<orderVars, inflight>>,
               \A au \in Authorities : snapshot'[au] \in {snapshot[au], None}
        PROVE  Places'
    BY <1>1, SamePlaces
  <1>2. ASSUME NEW o \in Callers, NEW cs, RemoveWaiters(o, cs)
        PROVE  /\ UNCHANGED inflight
               /\ \A au \in Authorities : snapshot'[au] \in {snapshot[au], None}
    BY <1>2 DEF RemoveWaiters, Retire
  <1>3. ASSUME NEW c \in Callers, Get(c) PROVE Places'
    <2>1. ASSUME NEW au \in Authorities, NEW active \in BOOLEAN, GetRefused(c, au, active)
          PROVE  Places'
      BY <1>1, <2>1 DEF GetRefused, entryVars
    <2>2. ASSUME NEW au \in Authorities, NEW fresh \in BOOLEAN,
                 \/ GetRetiring(c, au, fresh) \/ GetJoins(c, au, fresh)
                 \/ GetCached(c, au, fresh) \/ GetStarts(c, au, fresh)
          PROVE  Places'
      <3>1. Admitted(c, au, fresh)
        BY <2>2 DEF GetRetiring, GetJoins, GetCached, GetStarts
      <3>2. \A b \in Authorities \ {au} : inflight'[b] = inflight[b]
        BY <2>2 DEF GetRetiring, GetJoins, GetCached, GetStarts, Core, Types
      <3> QED
        BY <3>1, <3>2, TouchKeeps DEF Admitted
    <2> QED
      BY <1>3, <2>1, <2>2 DEF Get, GetFor
  <1>4. ASSUME NEW c \in Callers, Lapse(c) \/ Abort(c) \/ CallerTimer(c) PROVE Places'
    <2>1. UNCHANGED orderVars
      BY <1>4 DEF Lapse, Abort, CallerTimer, Leave, entryVars
    <2>2. CASE Lapse(c)
      BY <1>1, <2>2 DEF Lapse, entryVars
    <2>3. CASE Leave(c)
      BY <1>1, <1>2, <2>1, <2>3 DEF Leave
    <2> QED
      BY <1>4, <2>2, <2>3 DEF Abort, CallerTimer
  <1>5. ASSUME NEW o \in Callers,
               Start(o) \/ Checks(o) \/ Discard(o) \/ Return(o) \/ AcquisitionTimer(o) \/ Finish(o)
        PROVE  Places'
    <2>1. CASE Start(o) \/ Checks(o) \/ Discard(o)
      BY <1>1, <1>2, <2>1 DEF Start, Checks, Discard, Check
    <2>2. CASE Return(o)
      BY <1>1, <2>2 DEF Return, entryVars
    <2>3. CASE AcquisitionTimer(o)
      BY <1>1, <2>3 DEF AcquisitionTimer, Retire
    <2>4. CASE Finish(o)
      BY <1>1, <2>4, FinishKeeps
    <2> QED
      BY <1>5, <2>1, <2>2, <2>3, <2>4
  <1>6. ASSUME NEW au \in Authorities, SnapshotAges(au) PROVE Places'
    <2>1. UNCHANGED <<orderVars, inflight>> /\ snapshot' = [snapshot EXCEPT ![au] = None]
      BY <1>6 DEF SnapshotAges
    <2> QED
      BY <1>1, <2>1 DEF Core, Types
  <1>7. ASSUME NEW o \in Callers, Complete(o) \/ Fail(o) PROVE Places'
    <2> DEFINE au == scope[o]
    <2>1. au \in Authorities /\ inflight[au] = o /\ o # None
      BY <1>7, NoneIsNeither DEF Complete, Fail, Go, Core, Flights, InFlight
    <2>2. inflight' = [inflight EXCEPT ![au] = None]
      BY <1>7, <2>1 DEF Complete, Fail, Release, Freed
    <2>3. \A b \in Authorities : inflight'[b] # None => inflight[b] # None
      BY <2>2 DEF Core, Types
    <2>4. CASE Complete(o)
      <3>1. snapshot' = [snapshot EXCEPT ![au] = o] /\ UNCHANGED orderVars
        BY <2>4 DEF Complete
      <3>2. \A b \in Authorities : inflight'[b] # None \/ snapshot'[b] # None
               => inflight[b] # None \/ snapshot[b] # None
        BY <2>1, <2>3, <3>1 DEF Core, Types
      <3> QED
        BY <3>1, <3>2, SamePlaces
    <2>5. CASE Fail(o)
      <3>1. /\ snapshot' = [snapshot EXCEPT ![au] = None]
            /\ Without({au}) \/ UNCHANGED orderVars
        BY <2>1, <2>5 DEF Fail, Withdrawn, Release
      <3>2. \A b \in Authorities : inflight'[b] # None \/ snapshot'[b] # None
               => inflight[b] # None \/ snapshot[b] # None
        BY <2>3, <3>1 DEF Core, Types
      <3>3. inflight'[au] = None /\ snapshot'[au] = None
        BY <2>1, <2>2, <3>1 DEF Core, Types
      <3> QED
        BY <3>1, <3>2, <3>3, SamePlaces, FewerPlaces
    <2> QED
      BY <1>7, <2>4, <2>5
  <1>8. ASSUME NEW aus \in SUBSET Authorities, Invalidated(aus) PROVE Places'
    <2> DEFINE empty == {au \in aus : inflight[au] = None}
    <2>1. /\ Without(empty) /\ UNCHANGED inflight
          /\ snapshot' = [au \in Authorities |-> IF au \in aus THEN None ELSE snapshot[au]]
      BY <1>8 DEF Invalidated
    <2>2. /\ \A au \in Authorities : au \in empty => inflight'[au] = None /\ snapshot'[au] = None
          /\ \A au \in Authorities : inflight'[au] # None \/ snapshot'[au] # None
                => inflight[au] # None \/ snapshot[au] # None
      BY <2>1
    <2> HIDE DEF empty
    <2> QED
      BY <2>1, <2>2, FewerPlaces
  <1>9. ASSUME (\E au \in Authorities : Invalidate(au)) \/ InvalidateAll \/ Stop
        PROVE  Places'
    BY <1>8, <1>9 DEF Invalidate, InvalidateAll, Stop
  <1>10. CASE UNCHANGED vars
    BY <1>1, <1>10 DEF vars, entryVars
  <1> QED
    BY <1>3, <1>4, <1>5, <1>6, <1>7, <1>9, <1>10 DEF Next, Callback

-----------------------------------------------------------------------------
(***************************************************************************)
(* What was revoked or superseded is not handed out any more.                *)
(***************************************************************************)
Open == {"queued", "running", "answered"}

Revoked ==
    /\ \A au \in Authorities : snapshot[au] # None => snapshot[au] \notin void
    /\ \A o \in void : phase[o] # "none" /\ (phase[o] \in Open => Doomed(o))

(* The steps that revoke nothing and cache nothing.                          *)
LEMMA NothingRevoked ==
    ASSUME Core, Revoked, UNCHANGED void,
           stopped => stopped', retired \subseteq retired', outdated \subseteq outdated',
           \A o \in void : phase'[o] # "none" /\ (phase'[o] \in Open => phase[o] \in Open),
           \A au \in Authorities : snapshot'[au] \in {snapshot[au], None}
    PROVE  Revoked'
  BY DEF Revoked, Doomed

(* The models of an authority are revoked.                                   *)
LEMMA MoreRevoked ==
    ASSUME Core, Revoked, NEW aus \in SUBSET Authorities,
           void' = void \cup UNION {Begun(au) : au \in aus}, UNCHANGED <<phase, scope>>,
           stopped => stopped', retired \subseteq retired', outdated \subseteq outdated',
           \A au \in aus : inflight[au] # None => inflight[au] \in retired',
           \A au \in Authorities : snapshot'[au] = IF au \in aus THEN None ELSE snapshot[au]
    PROVE  Revoked'
  <1> USE DEF Core
  <1>1. ASSUME NEW au \in Authorities, snapshot'[au] # None
        PROVE  snapshot'[au] \notin void'
    <2>1. /\ au \notin aus /\ snapshot'[au] = snapshot[au] /\ scope[snapshot[au]] = au
          /\ snapshot[au] \notin void
      BY <1>1 DEF Revoked, Answered
    <2> QED
      BY <2>1 DEF Begun
  <1>2. ASSUME NEW o \in void', o \notin void
        PROVE  phase'[o] # "none" /\ (phase'[o] \in Open => Doomed(o)')
    <2>1. PICK au \in aus : o \in Callers /\ scope[o] = au /\ phase[o] # "none"
      BY <1>2 DEF Begun
    <2>2. phase[o] \in Open => inflight[au] = o
      BY <2>1 DEF Flights, Open, InFlight
    <2>3. phase[o] \in Open => o \in retired'
      BY <2>1, <2>2, NoneIsNeither
    <2> QED
      BY <2>1, <2>3 DEF Doomed
  <1>3. ASSUME NEW o \in void
        PROVE  phase'[o] # "none" /\ (phase'[o] \in Open => Doomed(o)')
    BY DEF Revoked, Doomed
  <1> QED
    BY <1>1, <1>2, <1>3 DEF Revoked

LEMMA CompletionIsCurrent ==
    ASSUME Core, Revoked, NEW o \in Callers, Complete(o)
    PROVE  o \notin void' /\ Revoked'
  <1> USE DEF Core
  <1> DEFINE au == scope[o]
  <1>1. /\ phase[o] = "answered" /\ ~Doomed(o)
        /\ phase' = [phase EXCEPT ![o] = "settling"]
        /\ snapshot' = [snapshot EXCEPT ![au] = o]
        /\ void' = void \cup (Begun(au) \ {o})
        /\ UNCHANGED <<stopped, retired, outdated>>
    BY DEF Complete, Go, Throws
  <1>2. o \notin void'
    BY <1>1 DEF Revoked, Open
  <1>3. \A b \in Authorities : snapshot'[b] # None => snapshot'[b] \notin void'
    <2> SUFFICES ASSUME NEW b \in Authorities \ {au}, snapshot'[b] # None
                 PROVE  snapshot'[b] \notin void'
      BY <1>1, <1>2 DEF Types
    <2>1. snapshot'[b] = snapshot[b] /\ scope[snapshot[b]] = b /\ snapshot[b] \notin void
      BY <1>1 DEF Types, Answered, Revoked
    <2> QED
      BY <1>1, <2>1 DEF Begun
  <1>4. ASSUME NEW p \in void', p \in Callers
        PROVE  phase'[p] # "none" /\ (phase'[p] \in Open => Doomed(p)')
    <2>1. p # o
      BY <1>2
    <2>2. phase'[p] = phase[p]
      BY <1>1, <1>4, <2>1 DEF Types
    <2>3. CASE p \in void
      BY <1>1, <2>2, <2>3 DEF Revoked, Doomed
    <2>4. CASE p \in Begun(au)
      <3>1. scope[p] = scope[o] /\ phase[p] # "none"
        BY <2>4 DEF Begun
      <3>2. phase[p] \notin Open
        BY <1>1, <1>4, <2>1, <3>1 DEF Flights, Open, InFlight
      <3> QED
        BY <2>2, <3>1, <3>2
    <2> QED
      BY <1>1, <2>3, <2>4
  <1>5. void' \subseteq Callers
    BY <1>1 DEF Types, Begun
  <1> QED
    BY <1>2, <1>3, <1>4, <1>5 DEF Revoked

LEMMA FailureRevokes ==
    ASSUME Core, Revoked, NEW o \in Callers, Fail(o)
    PROVE  Revoked'
  <1> USE DEF Core
  <1> DEFINE au == scope[o]
  <1>1. /\ phase[o] = "threw"
        /\ phase' = [phase EXCEPT ![o] = "settling"]
        /\ snapshot' = [snapshot EXCEPT ![au] = None]
        /\ void' = void \cup Begun(au)
        /\ UNCHANGED <<stopped, retired, outdated>>
    BY DEF Fail, Go, Withdrawn
  <1>2. ASSUME NEW b \in Authorities, snapshot'[b] # None
        PROVE  snapshot'[b] \notin void'
    <2>1. /\ b # au /\ snapshot'[b] = snapshot[b] /\ scope[snapshot[b]] = b
          /\ snapshot[b] \notin void
      BY <1>1, <1>2 DEF Types, Answered, Revoked
    <2> QED
      BY <1>1, <2>1 DEF Begun
  <1>3. ASSUME NEW p \in void', p \in Callers
        PROVE  phase'[p] # "none" /\ (phase'[p] \in Open => Doomed(p)')
    <2>1. CASE p = o
      BY <1>1, <2>1 DEF Types, Open
    <2>2. CASE p # o /\ p \in void
      BY <1>1, <1>3, <2>2 DEF Types, Revoked, Doomed
    <2>3. CASE p # o /\ p \in Begun(au)
      <3>1. scope[p] = scope[o] /\ phase[p] # "none" /\ phase'[p] = phase[p]
        BY <1>1, <1>3, <2>3 DEF Begun, Types
      <3>2. phase[p] \notin Open
        BY <1>1, <1>3, <2>3, <3>1 DEF Flights, Open, InFlight
      <3> QED
        BY <3>1, <3>2
    <2> QED
      BY <1>1, <2>1, <2>2, <2>3
  <1>4. void' \subseteq Callers
    BY <1>1 DEF Types, Begun
  <1> QED
    BY <1>2, <1>3, <1>4 DEF Revoked

LEMMA RevokedInductive == Core /\ Places /\ Revoked /\ [Next]_vars => Revoked'
  <1> SUFFICES ASSUME Core, Places, Revoked, [Next]_vars PROVE Revoked'
    OBVIOUS
  <1> USE DEF Core
  <1>1. ASSUME NEW o \in Callers, NEW cs, RemoveWaiters(o, cs)
        PROVE  /\ retired \subseteq retired'
               /\ \A au \in Authorities : snapshot'[au] \in {snapshot[au], None}
    BY <1>1 DEF RemoveWaiters, Retire
  <1>2. ASSUME NEW c \in Callers, Get(c) PROVE Revoked'
    <2>1. ASSUME NEW au \in Authorities, NEW active \in BOOLEAN, GetRefused(c, au, active)
          PROVE  Revoked'
      BY <2>1 DEF GetRefused, entryVars, acqVars, Revoked, Doomed
    <2>2. ASSUME NEW au \in Authorities, NEW fresh \in BOOLEAN,
                 \/ GetRetiring(c, au, fresh) \/ GetJoins(c, au, fresh)
                 \/ GetCached(c, au, fresh) \/ GetStarts(c, au, fresh)
          PROVE  Revoked'
      <3>1. /\ call[c] = "idle" /\ UNCHANGED <<stopped, retired, outdated, void>>
            /\ \A b \in Authorities : snapshot'[b] \in {snapshot[b], None}
        BY <2>2 DEF GetRetiring, GetJoins, GetCached, GetStarts, Admitted, Touch
      <3>2. c \notin void
        BY <3>1 DEF Untouched, Revoked
      <3>3. \A o \in Callers \ {c} : phase'[o] = phase[o]
        BY <2>2 DEF GetRetiring, GetJoins, GetCached, GetStarts, Types
      <3> QED
        BY <3>1, <3>2, <3>3, NothingRevoked DEF Types, Revoked
    <2> QED
      BY <1>2, <2>1, <2>2 DEF Get, GetFor
  <1>3. ASSUME NEW c \in Callers, Lapse(c) \/ Abort(c) \/ CallerTimer(c) PROVE Revoked'
    <2>1. CASE Lapse(c)
      BY <2>1, NothingRevoked DEF Lapse, entryVars, acqVars, Revoked
    <2>2. CASE Leave(c)
      BY <1>1, <2>2, NothingRevoked DEF Leave, Revoked
    <2> QED
      BY <1>3, <2>1, <2>2 DEF Abort, CallerTimer
  <1>4. ASSUME NEW o \in Callers, Start(o) \/ Checks(o) \/ Discard(o) PROVE Revoked'
    <2>1. /\ UNCHANGED <<stopped, outdated, void>> /\ retired \subseteq retired'
          /\ \A au \in Authorities : snapshot'[au] \in {snapshot[au], None}
      BY <1>1, <1>4 DEF Start, Checks, Discard, Check
    <2>2. \A p \in void : phase'[p] # "none" /\ (phase'[p] \in Open => phase[p] \in Open)
      BY <1>4 DEF Start, Checks, Discard, Go, Types, Revoked, Open
    <2> QED
      BY <2>1, <2>2, NothingRevoked
  <1>5. ASSUME NEW o \in Callers, Return(o) \/ Finish(o) PROVE Revoked'
    <2>1. UNCHANGED <<snapshot, stopped, retired, outdated, void>>
      BY <1>5 DEF Return, Finish, entryVars, callVars
    <2>2. \A p \in void : phase'[p] # "none" /\ (phase'[p] \in Open => phase[p] \in Open)
      BY <1>5 DEF Return, Finish, Go, Types, Revoked, Open
    <2> QED
      BY <2>1, <2>2, NothingRevoked
  <1>6. ASSUME NEW o \in Callers, AcquisitionTimer(o) PROVE Revoked'
    BY <1>6, NothingRevoked DEF AcquisitionTimer, Retire, Revoked
  <1>7. ASSUME NEW au \in Authorities, SnapshotAges(au) PROVE Revoked'
    <2>1. snapshot' = [snapshot EXCEPT ![au] = None] /\ UNCHANGED <<stopped, acqVars, void>>
      BY <1>7 DEF SnapshotAges
    <2> QED
      BY <2>1, NothingRevoked DEF acqVars, Types, Revoked
  <1>8. ASSUME NEW aus \in SUBSET Authorities, Invalidated(aus),
               stopped => stopped', outdated \subseteq outdated'
        PROVE  Revoked'
    <2>1. \A au \in aus : inflight[au] # None => inflight[au] \in retired'
      BY <1>8 DEF Invalidated, Places
    <2> QED
      BY <1>8, <2>1, MoreRevoked DEF Invalidated
  <1>9. ASSUME (\E au \in Authorities : Invalidate(au)) \/ InvalidateAll \/ Stop
        PROVE  Revoked'
    <2>1. ASSUME NEW au \in Authorities, Invalidate(au) PROVE Revoked'
      <3>1. Invalidated({au}) /\ UNCHANGED <<stopped, outdated>>
        BY <2>1 DEF Invalidate
      <3> QED
        BY <1>8, <3>1
    <2>2. CASE InvalidateAll \/ Stop
      <3>1. Invalidated(Authorities) /\ (stopped => stopped') /\ outdated \subseteq outdated'
        BY <2>2 DEF InvalidateAll, Stop
      <3> QED
        BY <1>8, <3>1
    <2> QED
      BY <1>9, <2>1, <2>2
  <1>10. CASE UNCHANGED vars
    BY <1>10 DEF vars, entryVars, acqVars, Revoked, Doomed
  <1> QED
    BY <1>2, <1>3, <1>4, <1>5, <1>6, <1>7, <1>9, <1>10, CompletionIsCurrent, FailureRevokes
       DEF Next, Callback

-----------------------------------------------------------------------------
(***************************************************************************)
(* The theorems.                                                            *)
(***************************************************************************)
Safe == Core /\ Places /\ Revoked

LEMMA SafeInductive == Spec => []Safe
  <1>1. Init => Safe
    BY CoreInit, NoneIsNeither DEF Init, Safe, Revoked
  <1>2. Safe /\ [Next]_vars => Safe'
    BY CoreInductive, PlacesInductive, RevokedInductive DEF Safe
  <1> QED
    BY <1>1, <1>2, PTL DEF Spec

(* TypeOK: the entries are ordered by their use and no more than MaxScopes,  *)
(* and every acquisition in flight and every snapshot has one, however the   *)
(* evictions of get and the removals of #retire fall (src/src/inventory.ts). *)
THEOREM TypeCorrect == Spec => []TypeOK
  <1>1. Safe => TypeOK
    BY DEF Safe, Core, Types, Places, TypeOK, Phases, InFlight, Past
  <1> QED
    BY <1>1, SafeInductive, PTL

(* NoOverlap: one discovery process at a time under one authority, and no    *)
(* more of them than the capacity, though an acquisition is retired long     *)
(* before its process has ended and its entry could be wanted by another.    *)
THEOREM DiscoveryNeverOverlaps == Spec => []NoOverlap
  <1>1. ASSUME Safe PROVE NoOverlap
    <2> USE <1>1 DEF Safe, Core
    <2>1. \A o \in Running : scope[o] \in entries /\ inflight[scope[o]] = o
      BY NoneIsNeither DEF Running, Flights, Places, InFlight
    <2>2. \A o, p \in Running : scope[o] = scope[p] => o = p
      BY <2>1
    <2> DEFINE f == [o \in Running |-> scope[o]]
    <2>3. f \in Injection(Running, entries)
      BY <2>1, <2>2 DEF Injection, IsInjective
    <2>4. IsFiniteSet(Running) /\ Cardinality(Running) <= Cardinality(entries)
      BY <2>3, FS_Injection DEF Places
    <2>5. Cardinality(Running) <= MaxScopes
      BY <2>4, FS_CardinalityType, MaxScopesIsPositive DEF Places
    <2> QED
      BY <2>2, <2>5 DEF NoOverlap
  <1> QED
    BY <1>1, SafeInductive, PTL

(* OccupiedByRunning: what occupies an entry is an acquisition of that       *)
(* authority that has not ended: one that was retired frees it as soon as    *)
(* its process is settled, whoever replaced it meanwhile.                    *)
THEOREM PlacesAreFreed == Spec => []OccupiedByRunning
  <1>1. Safe => OccupiedByRunning
    BY DEF Safe, Core, Flights, InFlight, OccupiedByRunning
  <1> QED
    BY <1>1, SafeInductive, PTL

(* NobodyStranded: who waits is known to the acquisition in flight under its *)
(* authority, and that was not given up.                                     *)
THEOREM NobodyIsStranded == Spec => []NobodyStranded
  <1>1. Safe => NobodyStranded
    BY DEF Safe, Core, Types, Waiting, NobodyStranded
  <1> QED
    BY <1>1, SafeInductive, PTL

(* FreshIsFresh: who asks for fresh models gets those of an acquisition that *)
(* had not settled when it asked.                                            *)
THEOREM FreshModels == Spec => []FreshIsFresh
  <1>1. Safe => FreshIsFresh
    BY DEF Safe, Core, Answered, FreshIsFresh
  <1> QED
    BY <1>1, SafeInductive, PTL

(* AnswersAreCurrent: no call returns models that an invalidation revoked, a *)
(* failure withdrew or a later acquisition replaced, from the cache or late. *)
THEOREM CurrentModels == Spec => AnswersAreCurrent
  <1>1. ASSUME Safe, Next, NEW c \in Callers, answer'[c] # answer[c]
        PROVE  answer'[c] \notin void'
    <2> USE <1>1 DEF Safe, Core
    <2>1. ASSUME NEW d \in Callers, NEW au \in Authorities, NEW fresh \in BOOLEAN,
                 GetCached(d, au, fresh)
          PROVE  answer'[c] \notin void'
      <3>1. /\ answer' = [answer EXCEPT ![d] = snapshot[au]]
            /\ snapshot[au] # None /\ void' = void
        BY <2>1 DEF GetCached, Cached, Admitted
      <3> QED
        BY <3>1 DEF Types, Revoked
    <2>2. ASSUME NEW d \in Callers, Get(d) PROVE answer'[c] \notin void'
      BY <2>1, <2>2 DEF Get, GetFor, GetRefused, GetRetiring, GetJoins, GetStarts
    <2>3. ASSUME NEW o \in Callers, Complete(o) PROVE answer'[c] \notin void'
      <3>1. answer'[c] = o
        BY <2>3 DEF Complete
      <3> QED
        BY <2>3, <3>1, CompletionIsCurrent
    <2>4. CASE \E d \in Callers : Lapse(d) \/ Abort(d) \/ CallerTimer(d)
      BY <2>4 DEF Lapse, Abort, CallerTimer, Leave
    <2>5. CASE \E o \in Callers : Start(o) \/ Discard(o) \/ Checks(o)
      BY <2>5 DEF Start, Discard, Checks, Check
    <2>6. CASE \E o \in Callers :
                  Fail(o) \/ Finish(o) \/ Return(o) \/ AcquisitionTimer(o)
      BY <2>6 DEF Fail, Finish, Return, AcquisitionTimer, callVars
    <2>7. CASE \/ \E au \in Authorities : SnapshotAges(au) \/ Invalidate(au)
               \/ InvalidateAll \/ Stop
      BY <2>7 DEF SnapshotAges, Invalidate, InvalidateAll, Stop, Invalidated, callVars
    <2> QED
      BY <2>2, <2>3, <2>4, <2>5, <2>6, <2>7 DEF Next, Callback
  <1>2. ASSUME Safe, [Next]_vars
        PROVE  [\A c \in Callers : answer'[c] # answer[c] => answer'[c] \notin void']_vars
    BY <1>1, <1>2
  <1> QED
    BY <1>2, SafeInductive, PTL DEF Spec, AnswersAreCurrent

(* What a caller that is turned away is turned away on account of.           *)
Excused(c) ==
    LET o == inflight[scope[c]] IN
    \/ ~live'[c]
    \/ phase[o] = "threw"
    \/ o \in void'
    \/ AcquisitionTimer(o)

(* OthersUnharmed: a caller that waits is turned away because it lapsed or   *)
(* left itself, because the acquisition failed or ran out of time, or by an  *)
(* invalidation; never because another caller aborted (#removeWaiter).       *)
THEOREM LeavingHarmsNobody == Spec => OthersUnharmed
  <1>1. ASSUME Safe, Next, NEW c \in Callers, call[c] = "waiting", call'[c] = "rejected"
        PROVE  Excused(c)
    <2> USE <1>1 DEF Safe, Core
    <2>1. ASSUME NEW o \in Callers, c \in waiters[o]
          PROVE  inflight[scope[c]] = o
      BY <2>1 DEF Waiting, Flights
    <2>2. ASSUME NEW o \in Callers, NEW cs, RemoveWaiters(o, cs)
          PROVE  c \in cs
      BY <2>2 DEF RemoveWaiters, Rejected, NobodyLeft
    <2>3. ASSUME NEW d \in Callers, Get(d) PROVE FALSE
      <3>1. call'[c] = call[c]
        BY <2>3 DEF Get, GetFor, GetRefused, GetRetiring, GetJoins, GetCached, GetStarts, Admitted, Types
      <3> QED
        BY <3>1
    <2>4. ASSUME NEW d \in Callers, Lapse(d) \/ Abort(d) \/ CallerTimer(d)
          PROVE  Excused(c)
      <3>1. CASE Lapse(d)
        BY <3>1 DEF Lapse
      <3>2. CASE Leave(d)
        BY <2>2, <3>2 DEF Leave, Types, Excused
      <3> QED
        BY <2>4, <3>1, <3>2 DEF Abort, CallerTimer
    <2>5. ASSUME NEW o \in Callers, Start(o) \/ Discard(o) \/ Checks(o)
          PROVE  Excused(c)
      <3>1. RemoveWaiters(o, Lapsed(o)) /\ UNCHANGED live
        BY <2>5 DEF Start, Discard, Checks, Check
      <3> QED
        BY <2>2, <3>1 DEF Lapsed, Excused
    <2>6. ASSUME NEW o \in Callers, Complete(o) PROVE Excused(c)
      BY <2>6 DEF Complete, Lapsed, Excused
    <2>7. ASSUME NEW o \in Callers, Fail(o) PROVE Excused(c)
      BY <2>1, <2>7 DEF Fail, Go, Rejected, Excused
    <2>8. ASSUME NEW o \in Callers, AcquisitionTimer(o) PROVE Excused(c)
      <3>1. c \in waiters[o]
        BY <2>8 DEF AcquisitionTimer, Rejected
      <3> QED
        BY <2>1, <2>8, <3>1 DEF Excused
    <2>9. CASE \E o \in Callers : Finish(o) \/ Return(o)
      BY <2>9 DEF Finish, Return, callVars
    <2>10. ASSUME NEW aus \in SUBSET Authorities, Invalidated(aus) PROVE Excused(c)
      <3>1. PICK au \in aus \cap entries : inflight[au] # None /\ c \in waiters[inflight[au]]
        BY <2>10 DEF Invalidated, Rejected
      <3>2. inflight[au] \in Callers /\ scope[inflight[au]] = au /\ phase[inflight[au]] # "none"
        BY <3>1 DEF Types, Flights, InFlight
      <3>3. inflight[au] \in void'
        BY <2>10, <3>2 DEF Invalidated, Begun
      <3> QED
        BY <2>1, <3>1, <3>2, <3>3 DEF Excused
    <2>11. ASSUME NEW au \in Authorities, Invalidate(au) PROVE Excused(c)
      <3>1. Invalidated({au})
        BY <2>11 DEF Invalidate
      <3> QED
        BY <2>10, <3>1
    <2>12. CASE InvalidateAll \/ Stop
      <3>1. Invalidated(Authorities)
        BY <2>12 DEF InvalidateAll, Stop
      <3> QED
        BY <2>10, <3>1
    <2>13. ASSUME NEW au \in Authorities, SnapshotAges(au) PROVE FALSE
      BY <2>13 DEF SnapshotAges, callVars
    <2>14. CASE \E d \in Callers : Get(d) \/ Lapse(d) \/ Abort(d) \/ CallerTimer(d)
      BY <2>3, <2>4, <2>14
    <2>15. CASE \E o \in Callers :
                   Callback(o) \/ Checks(o) \/ Return(o) \/ AcquisitionTimer(o)
      BY <2>5, <2>6, <2>7, <2>8, <2>9, <2>15 DEF Callback
    <2>16. CASE \E au \in Authorities : SnapshotAges(au) \/ Invalidate(au)
      BY <2>11, <2>13, <2>16
    <2> QED
      BY <2>12, <2>14, <2>15, <2>16 DEF Next
  <1>2. ASSUME Safe, [Next]_vars
        PROVE  [\A c \in Callers :
                  LET o == inflight[scope[c]] IN
                  call[c] = "waiting" /\ call'[c] = "rejected" =>
                      \/ ~live'[c]
                      \/ phase[o] = "threw"
                      \/ o \in void'
                      \/ AcquisitionTimer(o)]_vars
    BY <1>1, <1>2 DEF Excused
  <1> QED
    BY <1>2, SafeInductive, PTL DEF Spec, OthersUnharmed
=============================================================================
