----------------------------- MODULE Inventory -----------------------------
(***************************************************************************)
(* The model inventory of one plugin instance (AgyInventoryService,          *)
(* src/src/inventory.ts): callers that ask for the models under the same     *)
(* authority share one discovery process, and its answer is cached.          *)
(*                                                                         *)
(* An action is one turn of the event loop.  An acquisition is named after   *)
(* the caller that started it, and its models after the acquisition.  The    *)
(* entry of an authority is dropped only when it has no acquisition in       *)
(* flight, so an acquisition's entry is always that of its authority.  A     *)
(* snapshot past its freshness is never looked at again and counts as none.  *)
(***************************************************************************)
EXTENDS Naturals, FiniteSets

CONSTANTS
    Callers,      \* calls of get
    Authorities,  \* what sameAuthority tells apart
    MaxScopes,    \* entries the service keeps
    None          \* no acquisition

ASSUME MaxScopesIsPositive == MaxScopes \in Nat \ {0}
ASSUME NoneIsNeither == None \notin Callers \cup Authorities

VARIABLES
    entries,    \* the authorities kept
    older,      \* the pairs of them of which the first was used longer ago
    snapshot,   \* the acquisition whose models an authority has cached
    inflight,   \* the acquisition an authority has in flight
    stopped,    \* the service has stopped
    phase,      \* where each acquisition is
    retired,    \* acquisitions retired
    outdated,   \* acquisitions of an earlier owner generation
    waiters,    \* who waits for each acquisition
    call,       \* where each caller is
    scope,      \* its authority
    live,       \* its scope is still active and its deadline not reached
    answer,     \* the acquisition whose models it was given
    old,        \* history: acquisitions settled before a fresh call
    void        \* history: acquisitions whose models were revoked or superseded

orderVars == <<entries, older>>
entryVars == <<orderVars, snapshot, inflight, stopped>>
acqVars == <<phase, retired, outdated, waiters>>
callVars == <<call, scope, live, answer, old>>
vars == <<entryVars, acqVars, callVars, void>>

Init ==
    /\ entries = {} /\ older = {}
    /\ snapshot = [au \in Authorities |-> None]
    /\ inflight = [au \in Authorities |-> None]
    /\ stopped = FALSE
    /\ phase = [o \in Callers |-> "none"]
    /\ retired = {} /\ outdated = {}
    /\ waiters = [o \in Callers |-> {}]
    /\ call = [c \in Callers |-> "idle"]
    /\ scope = [c \in Callers |-> None]
    /\ live = [c \in Callers |-> TRUE]
    /\ answer = [c \in Callers |-> None]
    /\ old = [c \in Callers |-> {}]
    /\ void = {}

OlderWithout(aus) == {p \in older : p[1] \notin aus /\ p[2] \notin aus}
Without(aus) == entries' = entries \ aus /\ older' = OlderWithout(aus)
Begun(au) == {o \in Callers : scope[o] = au /\ phase[o] # "none"}
Settled == {o \in Callers : phase[o] \in {"settling", "over"}}

(* Promise callbacks run before any timer does.                              *)
Quiet == \A o \in Callers : phase[o] \in {"none", "running", "over"}

-----------------------------------------------------------------------------
(***************************************************************************)
(* #removeWaiter and #retire.                                               *)
(***************************************************************************)
(* Mutant: an acquisition that was aborted is taken to have ended.           *)
RetireFreeing(os) ==
    LET scopes == {scope[o] : o \in os} IN
    /\ retired' = retired \cup os
    /\ snapshot' = [au \in Authorities |-> IF au \in scopes THEN None ELSE snapshot[au]]
    /\ inflight' = [au \in Authorities |-> IF au \in scopes THEN None ELSE inflight[au]]

Retire(os) ==
    LET scopes == {scope[o] : o \in os} IN
    /\ retired' = retired \cup os
    /\ snapshot' = [au \in Authorities |-> IF au \in scopes THEN None ELSE snapshot[au]]
    /\ UNCHANGED inflight

Rejected(cs) == call' = [c \in Callers |-> IF c \in cs THEN "rejected" ELSE call[c]]

(* Mutant: one caller that leaves takes the acquisition along.               *)
SomebodyLeaves(o, cs) == cs # {}

NobodyLeft(o, cs) == waiters[o] \subseteq cs

RemoveWaiters(o, cs) ==
    IF cs = {} THEN UNCHANGED <<call, waiters, retired, snapshot, inflight>>
    ELSE IF NobodyLeft(o, cs)
         THEN /\ Rejected(waiters[o])
              /\ waiters' = [waiters EXCEPT ![o] = {}]
              /\ Retire({o})
         ELSE /\ Rejected(cs)
              /\ waiters' = [waiters EXCEPT ![o] = @ \ cs]
              /\ UNCHANGED <<retired, snapshot, inflight>>

-----------------------------------------------------------------------------
(***************************************************************************)
(* get.                                                                     *)
(***************************************************************************)
(* Mutant: whatever was used least recently is evicted.                      *)
AnyEntry == entries

Evictable == {au \in entries : inflight[au] = None}

Oldest(aus) == {au \in aus : \A other \in aus \ {au} : <<au, other>> \in older}

Full(au) == au \notin entries /\ Cardinality(entries) >= MaxScopes

GetRefused(c, au, active) ==
    /\ call[c] = "idle"
    /\ stopped \/ ~active \/ (Full(au) /\ Evictable = {})
    /\ call' = [call EXCEPT ![c] = "rejected"]
    /\ UNCHANGED <<entryVars, acqVars, scope, live, answer, old, void>>

(* The entry is found, or made in place of the least recently used one that  *)
(* has no acquisition in flight, and becomes the most recently used.         *)
Touch(au) ==
    \E out \in IF Full(au) THEN {{e} : e \in Oldest(Evictable)} ELSE {{}} :
        LET others == entries \ (out \cup {au}) IN
        /\ entries' = others \cup {au}
        /\ older' = OlderWithout(out \cup {au}) \cup (others \X {au})
        /\ snapshot' = [e \in Authorities |-> IF e \in out THEN None ELSE snapshot[e]]

Admitted(c, au, fresh) ==
    /\ call[c] = "idle"
    /\ ~stopped
    /\ ~Full(au) \/ Evictable # {}
    /\ Touch(au)
    /\ scope' = [scope EXCEPT ![c] = au]
    /\ old' = [old EXCEPT ![c] = IF fresh THEN Settled ELSE {}]
    /\ UNCHANGED <<stopped, retired, outdated, live, void>>

(* Mutant: an acquisition that is retiring is joined like any other.         *)
JoinableRetiring(o) == o # None

Joinable(o) == o # None /\ o \notin retired

GetRetiring(c, au, fresh) ==
    /\ Admitted(c, au, fresh)
    /\ inflight[au] # None /\ ~Joinable(inflight[au])
    /\ call' = [call EXCEPT ![c] = "rejected"]
    /\ UNCHANGED <<inflight, phase, waiters, answer>>

GetJoins(c, au, fresh) ==
    /\ Admitted(c, au, fresh)
    /\ Joinable(inflight[au])
    /\ call' = [call EXCEPT ![c] = "waiting"]
    /\ waiters' = [waiters EXCEPT ![inflight[au]] = @ \cup {c}]
    /\ UNCHANGED <<inflight, phase, answer>>

(* Mutant: a fresh call may be answered from the cache.                      *)
CachedForAll(au, fresh) == inflight[au] = None /\ snapshot[au] # None

Cached(au, fresh) == inflight[au] = None /\ ~fresh /\ snapshot[au] # None

GetCached(c, au, fresh) ==
    /\ Admitted(c, au, fresh)
    /\ Cached(au, fresh)
    /\ call' = [call EXCEPT ![c] = "answered"]
    /\ answer' = [answer EXCEPT ![c] = snapshot[au]]
    /\ UNCHANGED <<inflight, phase, waiters>>

GetStarts(c, au, fresh) ==
    /\ Admitted(c, au, fresh)
    /\ inflight[au] = None /\ ~Cached(au, fresh)
    /\ call' = [call EXCEPT ![c] = "waiting"]
    /\ inflight' = [inflight EXCEPT ![au] = c]
    /\ phase' = [phase EXCEPT ![c] = "queued"]
    /\ waiters' = [waiters EXCEPT ![c] = {c}]
    /\ UNCHANGED answer

GetFor(c, au) ==
    \/ \E active \in BOOLEAN : GetRefused(c, au, active)
    \/ \E fresh \in BOOLEAN :
          \/ GetRetiring(c, au, fresh) \/ GetJoins(c, au, fresh)
          \/ GetCached(c, au, fresh) \/ GetStarts(c, au, fresh)

Get(c) == \E au \in Authorities : GetFor(c, au)

-----------------------------------------------------------------------------
(***************************************************************************)
(* What befalls a caller, and the clock.                                    *)
(***************************************************************************)
(* Its deadline is reached or its owner changed, and nobody knows yet.       *)
Lapse(c) ==
    /\ live[c] /\ call[c] = "waiting"
    /\ live' = [live EXCEPT ![c] = FALSE]
    /\ UNCHANGED <<entryVars, acqVars, call, scope, answer, old, void>>

Leave(c) ==
    /\ \E o \in Callers : c \in waiters[o] /\ RemoveWaiters(o, {c})
    /\ live' = [live EXCEPT ![c] = FALSE]
    /\ UNCHANGED <<orderVars, stopped, phase, outdated, scope, answer, old, void>>

Abort(c) == live[c] /\ Leave(c)

CallerTimer(c) == Quiet /\ Leave(c)

SnapshotAges(au) ==
    /\ snapshot[au] # None
    /\ snapshot' = [snapshot EXCEPT ![au] = None]
    /\ UNCHANGED <<orderVars, inflight, stopped, acqVars, callVars, void>>

AcquisitionTimer(o) ==
    /\ Quiet /\ phase[o] = "running" /\ o \notin retired
    /\ Rejected(waiters[o])
    /\ waiters' = [waiters EXCEPT ![o] = {}]
    /\ Retire({o})
    /\ UNCHANGED <<orderVars, stopped, phase, outdated, scope, live, answer, old, void>>

-----------------------------------------------------------------------------
(***************************************************************************)
(* invalidate and stop.                                                     *)
(***************************************************************************)
Invalidated(aus) ==
    LET gone == {inflight[au] : au \in aus \cap entries} \ {None}
    IN  /\ retired' = retired \cup gone
        /\ snapshot' = [au \in Authorities |-> IF au \in aus THEN None ELSE snapshot[au]]
        /\ Without({au \in aus : inflight[au] = None})
        /\ Rejected(UNION {waiters[o] : o \in gone})
        /\ waiters' = [o \in Callers |-> IF o \in gone THEN {} ELSE waiters[o]]
        /\ void' = void \cup UNION {Begun(au) : au \in aus}
        /\ UNCHANGED <<inflight, phase, scope, live, answer, old>>

Invalidate(au) ==
    /\ Invalidated({au})
    /\ UNCHANGED <<stopped, outdated>>

InvalidateAll ==
    /\ Invalidated(Authorities)
    /\ outdated' = outdated \cup ({inflight[au] : au \in Authorities} \ {None})
    /\ UNCHANGED stopped

Stop ==
    /\ ~stopped
    /\ stopped' = TRUE
    /\ Invalidated(Authorities)
    /\ outdated' = outdated \cup ({inflight[au] : au \in Authorities} \ {None})

-----------------------------------------------------------------------------
(***************************************************************************)
(* #start: the acquisition, from one promise callback to the next.           *)
(***************************************************************************)
(* assertActive of the acquisition, which also rejects the callers that are  *)
(* not active any more; it throws when none is left, too.                    *)
Doomed(o) == stopped \/ o \in retired \cup outdated

Lapsed(o) == IF Doomed(o) THEN {} ELSE {c \in waiters[o] : ~live[c]}
Throws(o) == Doomed(o) \/ waiters[o] \subseteq Lapsed(o)

Check(o) == RemoveWaiters(o, Lapsed(o)) /\ UNCHANGED <<orderVars, stopped, outdated, scope, live, answer, old, void>>

Go(o, from, to) == phase[o] = from /\ phase' = [phase EXCEPT ![o] = to]

Start(o) ==
    /\ Go(o, "queued", IF Throws(o) THEN "threw" ELSE "running")
    /\ Check(o)

(* The process runner asks again and again while the process runs.           *)
Checks(o) ==
    /\ phase[o] = "running" /\ Lapsed(o) # {}
    /\ Check(o)
    /\ UNCHANGED phase

(* The process has ended and was settled.                                    *)
Return(o) ==
    /\ \/ Go(o, "running", "answered")
       \/ Go(o, "running", "threw")
    /\ UNCHANGED <<entryVars, retired, outdated, waiters, callVars, void>>

(* The deadline of the acquisition may be reached before its timer runs.     *)
Discard(o) ==
    /\ Go(o, "answered", "threw")
    /\ Check(o)

Complete(o) ==
    LET au == scope[o]
        served == waiters[o] \ Lapsed(o)
    IN  /\ ~Throws(o)
        /\ Go(o, "answered", "settling")
        /\ snapshot' = [snapshot EXCEPT ![au] = o]
        /\ inflight' = IF inflight[au] = o THEN [inflight EXCEPT ![au] = None] ELSE inflight
        /\ call' = [c \in Callers |-> IF c \in served THEN "answered"
                                      ELSE IF c \in Lapsed(o) THEN "rejected" ELSE call[c]]
        /\ answer' = [c \in Callers |-> IF c \in served THEN o ELSE answer[c]]
        /\ waiters' = [waiters EXCEPT ![o] = {}]
        /\ void' = void \cup (Begun(au) \ {o})
        /\ UNCHANGED <<orderVars, stopped, retired, outdated, scope, live, old>>

(* Mutant: a retired acquisition keeps its place.                            *)
HeldWhenRetired(o) == IF o \in retired THEN UNCHANGED inflight
                      ELSE inflight' = [inflight EXCEPT ![scope[o]] = None]

Freed(o) == inflight' = [inflight EXCEPT ![scope[o]] = None]

(* The acquisition leaves its entry, which goes too when it was retired.     *)
Release(o) ==
    IF inflight[scope[o]] = o
    THEN /\ Freed(o)
         /\ IF o \in retired \/ stopped THEN Without({scope[o]}) ELSE UNCHANGED orderVars
    ELSE UNCHANGED <<inflight, orderVars>>

(* Mutant: a failure leaves the last models in the cache.                    *)
Retained(o) == UNCHANGED snapshot

Withdrawn(o) == snapshot' = [snapshot EXCEPT ![scope[o]] = None]

Fail(o) ==
    /\ Go(o, "threw", "settling")
    /\ Withdrawn(o)
    /\ Release(o)
    /\ Rejected(waiters[o])
    /\ waiters' = [waiters EXCEPT ![o] = {}]
    /\ void' = void \cup Begun(scope[o])
    /\ UNCHANGED <<stopped, retired, outdated, scope, live, answer, old>>

Finish(o) ==
    /\ Go(o, "settling", "over")
    /\ Release(o)
    /\ UNCHANGED <<snapshot, stopped, retired, outdated, waiters, callVars, void>>

Callback(o) == Start(o) \/ Discard(o) \/ Complete(o) \/ Fail(o) \/ Finish(o)

-----------------------------------------------------------------------------
Next ==
    \/ \E c \in Callers : Get(c) \/ Lapse(c) \/ Abort(c) \/ CallerTimer(c)
    \/ \E o \in Callers : Callback(o) \/ Checks(o) \/ Return(o) \/ AcquisitionTimer(o)
    \/ \E au \in Authorities : SnapshotAges(au) \/ Invalidate(au)
    \/ InvalidateAll \/ Stop

Spec == Init /\ [][Next]_vars

-----------------------------------------------------------------------------
Running == {o \in Callers : phase[o] = "running"}

(* An acquisition in flight has its entry, and the entries are ordered and    *)
(* no more than MaxScopes.                                                   *)
TypeOK ==
    /\ entries \subseteq Authorities /\ Cardinality(entries) <= MaxScopes
    /\ older \subseteq entries \X entries
    /\ \A e, f \in entries : e # f => (<<e, f>> \in older <=> <<f, e>> \notin older)
    /\ \A e \in entries : <<e, e>> \notin older
    /\ snapshot \in [Authorities -> Callers \cup {None}]
    /\ inflight \in [Authorities -> Callers \cup {None}]
    /\ \A au \in Authorities : inflight[au] # None \/ snapshot[au] # None => au \in entries
    /\ stopped \in BOOLEAN
    /\ phase \in [Callers -> {"none", "queued", "running", "answered", "threw", "settling", "over"}]
    /\ retired \subseteq Callers /\ outdated \subseteq Callers
    /\ waiters \in [Callers -> SUBSET Callers]
    /\ call \in [Callers -> {"idle", "waiting", "answered", "rejected"}]
    /\ scope \in [Callers -> Authorities \cup {None}]
    /\ live \in [Callers -> BOOLEAN]
    /\ answer \in [Callers -> Callers \cup {None}]
    /\ old \in [Callers -> SUBSET Callers]
    /\ void \subseteq Callers

(* Native discovery never overlaps under one authority, and never exceeds    *)
(* the capacity, though acquisitions are retired before their process ends   *)
(* and entries are evicted (get, #retire).                                   *)
NoOverlap ==
    /\ \A o, p \in Running : scope[o] = scope[p] => o = p
    /\ Cardinality(Running) <= MaxScopes

(* Nobody is given models that an invalidation revoked, that a later failure *)
(* withdrew or that a later acquisition replaced, whether from the cache or  *)
(* by a late completion.                                                     *)
AnswersAreCurrent ==
    [][\A c \in Callers : answer'[c] # answer[c] => answer'[c] \notin void']_vars

(* A fresh call is answered by an acquisition that settled after it came and *)
(* under its own authority, whoever else it shares it with.                  *)
FreshIsFresh ==
    \A c \in Callers : answer[c] # None =>
        answer[c] \notin old[c] /\ scope[answer[c]] = scope[c]

(* A caller waits for the acquisition its authority has in flight, which is  *)
(* not retired: nobody is left behind by one that is given up.               *)
NobodyStranded ==
    \A c \in Callers : call[c] = "waiting" =>
        LET o == inflight[scope[c]] IN o # None /\ c \in waiters[o] /\ o \notin retired

(* A caller is turned away on account of itself, of the acquisition as a     *)
(* whole or of an invalidation, never because another caller left.           *)
OthersUnharmed ==
    [][\A c \in Callers :
          LET o == inflight[scope[c]] IN
          call[c] = "waiting" /\ call'[c] = "rejected" =>
              \/ ~live'[c]
              \/ phase[o] = "threw"
              \/ o \in void'
              \/ AcquisitionTimer(o)]_vars

(* An entry is occupied by an acquisition only while that is under way: what *)
(* was retired frees its place as soon as its process has been settled.      *)
OccupiedByRunning ==
    \A au \in Authorities : inflight[au] # None =>
        /\ scope[inflight[au]] = au
        /\ phase[inflight[au]] \in {"queued", "running", "answered", "threw"}
=============================================================================
