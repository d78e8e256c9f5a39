------------------------ MODULE NativeAgentCarrier ------------------------
(***************************************************************************)
(* The generated native agent that carries the host's tool policy and system *)
(* instructions (AntigravityNativeAgentCarrierManager,                       *)
(* src/src/harness/native-agent-carrier.ts): a content-addressed directory,  *)
(* created by the first attempt that needs it, shared through lease files by *)
(* attempts of any plugin process, and removed by the last.  Every change    *)
(* is made inside the lock of CarrierLock.                                   *)
(*                                                                         *)
(* What a section does between two things that others could tell apart is    *)
(* one action, of one file system call or several: others are kept out by    *)
(* the lock, and a death or a failure among those calls is a RollBackFails,  *)
(* a RemovalFails or a part of the leases gone, and then a Crash.  Where     *)
(* exclusion has already failed that is coarser than the code.               *)
(*                                                                         *)
(* The bundle's files are all written and all removed before the next thing *)
(* happens, so they are one Boolean; an ownership marker is named after the  *)
(* attempt that drew its token, a lease file after its attempt.              *)
(***************************************************************************)
EXTENDS CarrierLock

VARIABLES
    agentDir,  \* the agent directory exists
    files,     \* with exactly the expected definition, hooks and plugin
    marker,    \* whose ownership marker it holds
    leaseDir,  \* the lease directory exists
    leases,    \* whose lease files it holds
    pc,        \* where each attempt is
    record     \* the marker each attempt recorded (None: a bundle not ours)

bundleVars == <<agentDir, files, marker, leaseDir, leases>>
vars == <<lockVars, bundleVars, pc, record>>

Filling == {"filling", "marking", "opening"}
Erasing == {"erasing", "unmarking", "closing", "discarding"}
Spoiled == {"abandoned", "spoiled"}
Final == {"done", "failed"}
Phases == {"idle", "acquiring", "leasing", "acquired", "refused", "holding",
           "releasing", "cleaning", "released"} \cup Filling \cup Erasing \cup Spoiled \cup Final

(* Nothing there, or an exact bundle somebody put there without our marker.  *)
Init ==
    /\ LockInit
    /\ agentDir \in BOOLEAN
    /\ files = agentDir
    /\ marker = None
    /\ leaseDir = FALSE
    /\ leases = {}
    /\ pc = [a \in Attempts |-> "idle"]
    /\ record = [a \in Attempts |-> None]

Go(a, from, to) == pc[a] = from /\ pc' = [pc EXCEPT ![a] = to]
Inside(a) == a \notin dead /\ lk[a] = "inside" /\ UNCHANGED lockVars

(***************************************************************************)
(* acquire.                                                                 *)
(***************************************************************************)
Acquire(a) ==
    /\ Go(a, "idle", "acquiring")
    /\ Enter(a)
    /\ UNCHANGED <<bundleVars, record>>

CreateDir(a) ==
    /\ Inside(a)
    /\ ~agentDir
    /\ Go(a, "acquiring", "filling")
    /\ agentDir' = TRUE
    /\ UNCHANGED <<files, marker, leaseDir, leases, record>>

WriteFiles(a) ==
    /\ Inside(a)
    /\ agentDir /\ ~files
    /\ Go(a, "filling", "marking")
    /\ files' = TRUE
    /\ UNCHANGED <<agentDir, marker, leaseDir, leases, record>>

WriteMarker(a) ==
    /\ Inside(a)
    /\ agentDir /\ marker = None
    /\ Go(a, "marking", "opening")
    /\ marker' = a
    /\ record' = [record EXCEPT ![a] = a]
    /\ UNCHANGED <<agentDir, files, leaseDir, leases>>

OpenLeases(a) ==
    /\ Inside(a)
    /\ agentDir /\ ~leaseDir
    /\ Go(a, "opening", "acquired")
    /\ leaseDir' = TRUE
    /\ leases' = {a}
    /\ UNCHANGED <<agentDir, files, marker, record>>

(* Mutant: the rollback forgets the agent directory.                         *)
DirLeft == agentDir /\ UNCHANGED <<agentDir, leaseDir>> /\ files' = FALSE /\ marker' = None /\ leases' = {}

Gone == agentDir' = FALSE /\ files' = FALSE /\ marker' = None /\ leaseDir' = FALSE /\ leases' = {}

(* A step of the creation fails: everything it made is taken back.           *)
RollBack(a) ==
    /\ Inside(a)
    /\ \E from \in Filling : Go(a, from, "refused")
    /\ Gone
    /\ record' = [record EXCEPT ![a] = None]

(* The disk refuses to take all of it back.                                  *)
RollBackFails(a) ==
    /\ Inside(a)
    /\ agentDir
    /\ \E from \in Filling : Go(a, from, "abandoned")
    /\ files' \in {files, FALSE}
    /\ marker' \in {marker, None}
    /\ leaseDir' \in {leaseDir, pc[a] = "opening"}
    /\ leases' \in {{}, IF leaseDir' THEN {a} ELSE {}}
    /\ record' = [record EXCEPT ![a] = None]
    /\ UNCHANGED agentDir

(* The directory holds our bundle, somebody else's exact one, or remains.    *)
Usable == files /\ (marker # None => leaseDir)

Inspect(a) ==
    /\ Inside(a)
    /\ agentDir
    /\ Go(a, "acquiring", IF ~Usable THEN "refused"
                          ELSE IF marker = None THEN "acquired" ELSE "leasing")
    /\ record' = [record EXCEPT ![a] = IF Usable THEN marker ELSE None]
    /\ UNCHANGED bundleVars

(* Mutant: pruning takes the leases of the living, too.                      *)
AddOnlyLease(a) ==
    /\ Inside(a)
    /\ leaseDir
    /\ Go(a, "leasing", "acquired")
    /\ leases' = {a}
    /\ UNCHANGED <<agentDir, files, marker, leaseDir, record>>

(* pruneDeadLeases, then the attempt's own lease.  What the disk refuses to  *)
(* unlink is passed over.                                                    *)
AddLease(a) ==
    /\ Inside(a)
    /\ leaseDir
    /\ Go(a, "leasing", "acquired")
    /\ \E pruned \in SUBSET dead : leases' = (leases \ pruned) \cup {a}
    /\ UNCHANGED <<agentDir, files, marker, leaseDir, record>>

LeaseFails(a) ==
    /\ Inside(a)
    /\ Go(a, "leasing", "refused")
    /\ \E pruned \in SUBSET dead : leases' = leases \ pruned
    /\ UNCHANGED <<agentDir, files, marker, leaseDir, record>>

EndSection(a) ==
    /\ pc[a] \in {"acquired", "refused", "released", "abandoned"}
    /\ Unlock(a)
    /\ UNCHANGED <<bundleVars, pc, record>>

(* assertCurrent: what the attempt recorded is still there.                  *)
Current(a) ==
    /\ files
    /\ record[a] # None => marker = record[a] /\ a \in leases

(* acquire returns, or throws and never releases.                            *)
AcquireReturns(a) ==
    /\ a \notin dead
    /\ lk[a] = "out"
    /\ \/ Go(a, "acquired", IF Current(a) THEN "holding" ELSE "failed")
       \/ Go(a, "refused", "failed")
    /\ UNCHANGED <<lockVars, bundleVars, record>>

AcquireThrows(a) ==
    /\ Go(a, "acquiring", "failed")
    /\ Recover(a)
    /\ UNCHANGED <<bundleVars, record>>

(***************************************************************************)
(* release.  Its own errors are swallowed, and the lease then stays.         *)
(***************************************************************************)
Release(a) ==
    /\ record[a] # None
    /\ Go(a, "holding", "releasing")
    /\ Enter(a)
    /\ UNCHANGED <<bundleVars, record>>

ReleaseUnowned(a) ==
    /\ a \notin dead
    /\ record[a] = None
    /\ Go(a, "holding", "done")
    /\ UNCHANGED <<lockVars, bundleVars, record>>

DropLease(a) ==
    /\ Inside(a)
    /\ Go(a, "releasing", "cleaning")
    /\ \E dropped \in SUBSET (dead \cup {a}) : leases' = leases \ dropped
    /\ UNCHANGED <<agentDir, files, marker, leaseDir, record>>

(* Mutant: other leases are not looked at.                                   *)
ErasableInUse(a) == marker = record[a] /\ files

(* cleanupOwnedBundle: our marker, our files, and nobody's lease.            *)
Erasable(a) == marker = record[a] /\ files /\ leaseDir /\ leases = {}

Clean(a) ==
    /\ Inside(a)
    /\ Go(a, "cleaning", IF Erasable(a) THEN "erasing" ELSE "released")
    /\ UNCHANGED <<bundleVars, record>>

EraseFiles(a) ==
    /\ Inside(a)
    /\ Go(a, "erasing", IF files THEN "unmarking" ELSE "released")
    /\ files' = FALSE
    /\ UNCHANGED <<agentDir, marker, leaseDir, leases, record>>

EraseMarker(a) ==
    /\ Inside(a)
    /\ Go(a, "unmarking", IF marker = None THEN "released" ELSE "closing")
    /\ marker' = None
    /\ UNCHANGED <<agentDir, files, leaseDir, leases, record>>

CloseLeases(a) ==
    /\ Inside(a)
    /\ Go(a, "closing", IF leaseDir /\ leases = {} THEN "discarding" ELSE "released")
    /\ leaseDir' = (leaseDir /\ leases # {})
    /\ UNCHANGED <<agentDir, files, marker, leases, record>>

RemoveDir(a) ==
    /\ Inside(a)
    /\ Go(a, "discarding", "released")
    /\ agentDir' = (agentDir /\ (files \/ marker # None \/ leaseDir))
    /\ UNCHANGED <<files, marker, leaseDir, leases, record>>

(* A removal fails: the rest is left where it is.                            *)
RemovalFails(a) ==
    /\ Inside(a)
    /\ \E from \in Erasing : Go(a, from, "abandoned")
    /\ files' \in {files, FALSE}
    /\ UNCHANGED <<agentDir, marker, leaseDir, leases, record>>

(* release returns; and an acquire that could not roll back throws.          *)
ReleaseReturns(a) ==
    /\ a \notin dead
    /\ lk[a] = "out"
    /\ Go(a, "released", "done") \/ Go(a, "abandoned", "spoiled")
    /\ UNCHANGED <<lockVars, bundleVars, record>>

ReleaseGivesUp(a) ==
    /\ Go(a, "releasing", "done")
    /\ Recover(a)
    /\ UNCHANGED <<bundleVars, record>>

(***************************************************************************)
(* The whole system.                                                        *)
(***************************************************************************)
AcquireStep(a) ==
    \/ CreateDir(a) \/ WriteFiles(a) \/ WriteMarker(a) \/ OpenLeases(a)
    \/ RollBack(a) \/ RollBackFails(a)
    \/ Inspect(a) \/ AddLease(a) \/ LeaseFails(a) \/ EndSection(a)
    \/ AcquireReturns(a) \/ AcquireThrows(a)

ReleaseStep(a) ==
    \/ DropLease(a) \/ Clean(a) \/ EraseFiles(a) \/ EraseMarker(a) \/ CloseLeases(a)
    \/ RemoveDir(a) \/ RemovalFails(a) \/ ReleaseReturns(a) \/ ReleaseGivesUp(a)

Crash(a) ==
    /\ pc[a] # "idle"
    /\ Die(a)
    /\ UNCHANGED <<bundleVars, pc, record>>

Step(a) ==
    \/ LockStep(a) /\ UNCHANGED <<bundleVars, pc, record>>
    \/ AcquireStep(a)
    \/ ReleaseStep(a)

Next == \E a \in Attempts :
    Step(a) \/ Acquire(a) \/ Release(a) \/ ReleaseUnowned(a) \/ Crash(a)

Spec == Init /\ [][Next]_vars

(* A call that has begun runs on, and its five seconds pass: a process that  *)
(* keeps coming round to the deadline meets it.                              *)
Fairness == \A a \in Attempts :
    WF_vars(Step(a)) /\ SF_vars(Expire(a) /\ UNCHANGED <<bundleVars, pc, record>>)

FairSpec == Spec /\ Fairness

-----------------------------------------------------------------------------
(* The bundle is one a file system can hold, and everything has its type.    *)
TypeOK ==
    /\ LockTypeOK
    /\ agentDir \in BOOLEAN
    /\ files \in BOOLEAN
    /\ marker \in Attempts \cup {None}
    /\ leaseDir \in BOOLEAN
    /\ leases \in SUBSET Attempts
    /\ pc \in [Attempts -> Phases]
    /\ record \in [Attempts -> Attempts \cup {None}]
    /\ leases # {} => leaseDir
    /\ files \/ marker # None \/ leaseDir => agentDir

(* The carrier an attempt holds is there, complete and under the marker and  *)
(* the lease it recorded, until it lets go of it: no other attempt's release *)
(* or pruning takes it away (acquire, release, cleanupOwnedBundle).          *)
HeldCarrierIntact ==
    \A a \in Attempts \ dead : pc[a] = "holding" => agentDir /\ Current(a)

(* What is left behind when nobody is at work on the bundle is nothing, or   *)
(* something the next acquire accepts and a later release reconciles (the    *)
(* comment in cleanupOwnedBundle).                                           *)
LeftoverUsable ==
    (\A a \in Attempts : a \in dead \/ lk[a] # "inside") => (agentDir => Usable)

(* No process has died inside the lock, and no removal has failed.           *)
OrderlyDeaths == \A a \in dead : lk[a] \notin Section
Unspoiled == \A a \in Attempts : pc[a] \notin Spoiled
Orderly == OrderlyDeaths /\ Unspoiled

(* The same, when no process has died inside the lock and no removal has     *)
(* failed: neither a rollback, a release, a lease that cannot be written or  *)
(* unlinked nor a death elsewhere leaves remains behind (acquire, release).  *)
OrderlyLeftoverUsable == Orderly => LeftoverUsable

(* What there is for others to see: a bundle that is still being made, or is *)
(* being removed, is none.                                                   *)
Present == agentDir /\ \A a \in Attempts : pc[a] \notin Filling \cup Erasing

Owner == IF Present THEN marker ELSE None
Users == {a \in Attempts \ dead : pc[a] \in {"acquired", "holding"}}

Shared == INSTANCE SharedCarrier WITH
    present <- Present, owner <- Owner, users <- Users

(* Until a process dies inside the lock or a removal fails, every critical   *)
(* section is one step to everybody else: the bundle appears and disappears  *)
(* whole, and never under somebody who uses it (withCarrierLock, acquire,    *)
(* release, cleanupOwnedBundle).                                             *)
SectionsAreAtomic ==
    /\ Shared!SharedInit
    /\ [][Orderly' => Shared!SharedNext \/ UNCHANGED Shared!carrierVars]_vars

(* Every acquire and release returns, even on a lock whose owner is dead.    *)
CallsReturn ==
    \A a \in Attempts :
        lk[a] # "out" ~> lk[a] = "out" \/ a \in dead
=============================================================================
