--------------------------- MODULE SharedCarrier ---------------------------
(***************************************************************************)
(* What AntigravityNativeAgentCarrierManager promises the attempts that      *)
(* share a native agent (src/src/harness/native-agent-carrier.ts), as long   *)
(* as no process dies inside the lock and no removal of a bundle fails: each  *)
(* critical section, of whatever file system calls it consists, is one step; *)
(* the bundle appears whole and disappears whole, and only when nobody uses  *)
(* it.                                                                       *)
(* NativeAgentCarrier implements it.                                         *)
(***************************************************************************)
CONSTANTS Attempts, None

VARIABLES
    present,  \* there is a bundle
    owner,    \* who made it (None: somebody who does not know of us)
    leases,   \* who is recorded as its user
    users,    \* who does use it
    dead      \* whose process has died

carrierVars == <<present, owner, leases, users, dead>>

SharedInit ==
    /\ present \in BOOLEAN /\ owner = None
    /\ leases = {} /\ users = {} /\ dead = {}

Begins(a) == a \notin users \cup dead /\ users' = users \cup {a}

(* acquire: a new bundle, our own one, or one that is none of our business.  *)
Make(a) ==
    /\ ~present /\ present' = TRUE
    /\ Begins(a)
    /\ owner' = a /\ leases' = {a}
    /\ UNCHANGED dead

Join(a) ==
    /\ present /\ owner # None
    /\ Begins(a)
    /\ \E pruned \in SUBSET dead : leases' = (leases \ pruned) \cup {a}
    /\ UNCHANGED <<present, owner, dead>>

Borrow(a) ==
    /\ present /\ owner = None
    /\ Begins(a)
    /\ UNCHANGED <<present, owner, leases, dead>>

(* release, before the lock and inside it.                                   *)
Ends(a) ==
    /\ a \in users /\ users' = users \ {a}
    /\ UNCHANGED <<present, owner, leases, dead>>

Forget(a) ==
    /\ a \notin users /\ owner # None
    /\ \E dropped \in SUBSET (dead \cup {a}) : leases' = leases \ dropped
    /\ UNCHANGED <<present, owner, users, dead>>

(* pruneDeadLeases, when the new lease cannot be written.                    *)
Prune ==
    /\ owner # None
    /\ \E pruned \in SUBSET dead : leases' = leases \ pruned
    /\ UNCHANGED <<present, owner, users, dead>>

(* cleanupOwnedBundle: our own bundle, which nobody uses or is recorded for. *)
Dispose ==
    /\ present /\ owner # None
    /\ users = {} /\ leases = {}
    /\ present' = FALSE /\ owner' = None
    /\ UNCHANGED <<leases, users, dead>>

(* A process that dies leaves its lease behind.                              *)
Dies(a) ==
    /\ a \notin dead
    /\ dead' = dead \cup {a} /\ users' = users \ {a}
    /\ UNCHANGED <<present, owner, leases>>

SharedNext ==
    \/ Prune \/ Dispose
    \/ \E a \in Attempts :
          Make(a) \/ Join(a) \/ Borrow(a) \/ Ends(a) \/ Forget(a) \/ Dies(a)

SharedSpec == SharedInit /\ [][SharedNext]_carrierVars
=============================================================================
