--------------------- MODULE NativeAgentCarrier_proofs ---------------------
(***************************************************************************)
(* For any number of attempts, as long as no process has died inside a lock  *)
(* section: the lock excludes, a held carrier stays intact, and what is left *)
(* behind is usable.  The lock is dealt with on its own, and the carrier is  *)
(* shown to use it as specified.                                             *)
(***************************************************************************)
EXTENDS NativeAgentCarrier, TLAPS

(* The owner file is its owner's, who is alive and inside, or still writing  *)
(* it, or has failed to; whoever is inside owns it; and so nobody ever sees   *)
(* a dead owner.                                                             *)
LockInv ==
    /\ LockTypeOK
    /\ lockOwner # None /\ ~halfway => lk[lockOwner] = "inside" /\ lockOwner \notin dead
    /\ \A a \in Attempts : lk[a] = "inside" => lockOwner = a /\ ~halfway
    /\ \A a \in Attempts : lk[a] = "writing" => lockOwner = a /\ halfway
    /\ \A a \in Attempts : lk[a] # "unlinking"

LEMMA LockInductive ==
    /\ LockInit => LockInv
    /\ LockInv /\ OrderlyDeaths' /\ [LockNext]_lockVars => LockInv'
  <1> USE NoneIsNoAttempt
  <1>1. LockInit => LockInv
    BY DEF LockInit, LockInv, LockTypeOK, LockStates, Section
  <1>2. ASSUME LockInv, OrderlyDeaths', [LockNext]_lockVars
        PROVE  LockInv'
    <2> USE <1>2 DEF LockInv, LockTypeOK, LockStates, Section
    <2>1. ASSUME NEW a \in Attempts, Enter(a) PROVE LockInv'
      BY <2>1 DEF Enter, LkGo, LockKept
    <2>2. ASSUME NEW a \in Attempts, Mkdir(a) PROVE LockInv'
      BY <2>2 DEF Mkdir, LkGo
    <2>3. ASSUME NEW a \in Attempts, Lstat(a) PROVE LockInv'
      BY <2>3 DEF Lstat, LkGo, LockKept
    <2>4. ASSUME NEW a \in Attempts, ReadOwner(a) PROVE LockInv'
      BY <2>4 DEF ReadOwner, LkGo, LockKept
    <2>5. ASSUME NEW a \in Attempts, Age(a) PROVE LockInv'
      BY <2>5 DEF Age, LkGo, LockKept
    <2>6. ASSUME NEW a \in Attempts, UnlinkOwner(a) PROVE LockInv'
      BY <2>6 DEF UnlinkOwner, LkGo
    <2>7. ASSUME NEW a \in Attempts, Rmdir(a) PROVE LockInv'
      BY <2>7 DEF Rmdir, LkGo, Removed
    <2>8. ASSUME NEW a \in Attempts, Retry(a) PROVE LockInv'
      BY <2>8 DEF Retry, LkGo, LockKept
    <2>9. ASSUME NEW a \in Attempts, Expire(a) PROVE LockInv'
      BY <2>9 DEF Expire, LkGo, LockKept
    <2>10. ASSUME NEW a \in Attempts, OpenOwner(a) PROVE LockInv'
      BY <2>10 DEF OpenOwner, LkGo
    <2>16. ASSUME NEW a \in Attempts, WriteOwner(a) PROVE LockInv'
      BY <2>16 DEF WriteOwner, LkGo
    <2>17. ASSUME NEW a \in Attempts, MkdirFails(a) \/ OpenFails(a) \/ WriteFails(a)
           PROVE  LockInv'
      BY <2>17 DEF MkdirFails, OpenFails, WriteFails, LkGo, LockKept
    <2>18. ASSUME NEW a \in Attempts, UndoLock(a) PROVE LockInv'
      BY <2>18 DEF UndoLock, LkGo, Removed
    <2>11. ASSUME NEW a \in Attempts, Unlock(a) PROVE LockInv'
      BY <2>11 DEF Unlock, LkGo
    <2>12. ASSUME NEW a \in Attempts, Leave(a) PROVE LockInv'
      BY <2>12 DEF Leave, LkGo, Removed
    <2>13. ASSUME NEW a \in Attempts, Recover(a) PROVE LockInv'
      BY <2>13 DEF Recover, LkGo, LockKept
    <2>14. ASSUME NEW a \in Attempts, Die(a) PROVE LockInv'
      BY <2>14 DEF Die, OrderlyDeaths
    <2>15. CASE UNCHANGED lockVars
      BY <2>15 DEF lockVars
    <2> QED
      BY <2>1, <2>2, <2>3, <2>4, <2>5, <2>6, <2>7, <2>8, <2>9, <2>10, <2>11,
         <2>12, <2>13, <2>14, <2>15, <2>16, <2>17, <2>18 DEF LockNext, LockStep
  <1> QED
    BY <1>1, <1>2

(* Every step of the carrier is a step of the lock, or leaves it alone.      *)
LEMMA CarrierUsesLock ==
    /\ Init => LockInit
    /\ [Next]_vars => [LockNext]_lockVars
  <1>1. Init => LockInit
    BY DEF Init
  <1>2. ASSUME [Next]_vars PROVE [LockNext]_lockVars
    <2>1. ASSUME NEW a \in Attempts, AcquireStep(a) PROVE [LockNext]_lockVars
      BY <2>1 DEF AcquireStep, CreateDir, WriteFiles, WriteMarker, OpenLeases, RollBack,
         RollBackFails, Inspect, AddLease, LeaseFails, EndSection, AcquireReturns,
            AcquireThrows,
         Inside, LockNext
    <2>2. ASSUME NEW a \in Attempts, ReleaseStep(a) PROVE [LockNext]_lockVars
      BY <2>2 DEF ReleaseStep, DropLease, Clean, EraseFiles, EraseMarker, CloseLeases,
         RemoveDir, RemovalFails, ReleaseReturns, ReleaseGivesUp, Inside, LockNext
    <2>3. ASSUME NEW a \in Attempts,
                 LockStep(a) \/ Acquire(a) \/ Release(a) \/ ReleaseUnowned(a) \/ Crash(a)
          PROVE  [LockNext]_lockVars
      BY <2>3 DEF Acquire, Release, ReleaseUnowned, Crash, LockNext
    <2> QED
      BY <1>2, <2>1, <2>2, <2>3 DEF Next, Step, vars, lockVars
  <1> QED
    BY <1>1, <1>2

-----------------------------------------------------------------------------
(***************************************************************************)
(* The carrier.  Only the attempt inside the lock is in the middle of a      *)
(* change; what it finds then depends on how far it is.                      *)
(***************************************************************************)
Busy == {"leasing", "cleaning"} \cup Filling \cup Erasing

(* What lies there is exact, and has a lease directory if it is ours.        *)
Whole == files /\ (marker # None <=> leaseDir)

Held(a) ==
    /\ agentDir /\ files
    /\ marker = record[a]
    /\ record[a] # None => leaseDir /\ a \in leases

Progress(a) ==
    /\ pc[a] \in Filling \cup Erasing => agentDir /\ Users = {}
    /\ pc[a] = "filling" => ~files /\ marker = None /\ ~leaseDir
    /\ pc[a] = "marking" => files /\ marker = None /\ ~leaseDir
    /\ pc[a] = "opening" => files /\ marker = a /\ record[a] = a /\ ~leaseDir
    /\ pc[a] = "leasing" => agentDir /\ files /\ marker = record[a] /\ leaseDir
    /\ pc[a] = "cleaning" => (agentDir /\ Unspoiled => Whole)
    /\ pc[a] \in Erasing => leases = {}
    /\ pc[a] = "erasing" => files /\ leaseDir /\ marker = record[a]
    /\ pc[a] = "unmarking" => ~files /\ marker # None /\ leaseDir
    /\ pc[a] = "closing" => ~files /\ marker = None /\ leaseDir
    /\ pc[a] = "discarding" => ~files /\ marker = None /\ ~leaseDir
    /\ pc[a] \in {"opening", "leasing", "releasing", "cleaning"} \cup Erasing
          => record[a] # None

CarrierTypeOK ==
    /\ agentDir \in BOOLEAN
    /\ files \in BOOLEAN
    /\ marker \in Attempts \cup {None}
    /\ leaseDir \in BOOLEAN
    /\ leases \in SUBSET Attempts
    /\ pc \in [Attempts -> Phases]
    /\ record \in [Attempts -> Attempts \cup {None}]
    /\ leases # {} => leaseDir
    /\ files \/ marker # None \/ leaseDir => agentDir

CInv ==
    /\ CarrierTypeOK
    /\ (\A a \in Attempts : pc[a] \notin Busy) => (agentDir /\ Unspoiled => Whole)
    /\ \A a \in Attempts : pc[a] \in Busy => lk[a] = "inside"
    /\ \A a \in Attempts : Progress(a)
    /\ \A a \in Users : Held(a)

LEMMA CarrierInductive ==
    /\ Init => CInv
    /\ LockInv /\ CInv /\ OrderlyDeaths' /\ [Next]_vars => CInv'
  <1> USE NoneIsNoAttempt
  <1>1. Init => CInv
    <2> SUFFICES ASSUME Init PROVE CInv
      OBVIOUS
    <2>1. /\ agentDir \in BOOLEAN /\ files \in BOOLEAN /\ (files => agentDir)
          /\ leaseDir = FALSE
      BY DEF Init
    <2>2. CarrierTypeOK
      BY <2>1 DEF Init, CarrierTypeOK, Phases
    <2> QED
      BY <2>1, <2>2 DEF Init, CInv, Busy, Filling, Erasing, Users, Progress, Whole
  <1>2. ASSUME LockInv, CInv, OrderlyDeaths', [Next]_vars
        PROVE  CInv'
    <2> USE <1>2
    <2>0. \A a, b \in Attempts : lk[a] = "inside" /\ lk[b] = "inside" => a = b
      BY DEF LockInv
    <2>1. ASSUME NEW a \in Attempts, CreateDir(a) PROVE CInv'
      BY <2>0, <2>1 DEF CreateDir, Go, CInv, CarrierTypeOK, Busy, Filling, Erasing, Users,
         Held, Progress, Phases, lockVars, Inside
    <2>2. ASSUME NEW a \in Attempts, WriteFiles(a) PROVE CInv'
      BY <2>0, <2>2 DEF WriteFiles, Go, CInv, CarrierTypeOK, Busy, Filling, Erasing, Users,
         Progress, Phases, lockVars, Inside
    <2>3. ASSUME NEW a \in Attempts, WriteMarker(a) PROVE CInv'
      BY <2>0, <2>3 DEF WriteMarker, Go, CInv, CarrierTypeOK, Busy, Filling, Users,
         Progress,
         Phases, lockVars, Inside
    <2>4. ASSUME NEW a \in Attempts, OpenLeases(a) PROVE CInv'
      BY <2>4 DEF OpenLeases, Go, CInv, CarrierTypeOK, Filling, Erasing, Users, Held,
         Progress, Phases, Whole, lockVars, Inside
    <2>5. ASSUME NEW a \in Attempts, RollBack(a) PROVE CInv'
      <3>1. pc[a] \in Filling /\ pc' = [pc EXCEPT ![a] = "refused"]
        BY <2>5 DEF RollBack, Go
      <3>2. /\ UNCHANGED lockVars
            /\ lk[a] = "inside"
            /\ agentDir' = FALSE /\ files' = FALSE /\ marker' = None /\ leaseDir' = FALSE
            /\ leases' = {}
            /\ record' = [record EXCEPT ![a] = None]
        BY <2>5 DEF RollBack, Inside, Gone
      <3>3. \A b \in Attempts : b # a => pc[b] \notin Busy
        BY <2>0, <3>2 DEF CInv
      <3>4. Users' = {}
        BY <3>1, <3>2 DEF CInv, CarrierTypeOK, Progress, Users, lockVars
      <3>5. CarrierTypeOK'
        BY <3>1, <3>2 DEF CInv, CarrierTypeOK, Phases
      <3>6. \A b \in Attempts : pc'[b] \notin Busy
        BY <3>1, <3>3 DEF CInv, CarrierTypeOK, Busy, Filling, Erasing
      <3>7. \A b \in Attempts : Progress(b)'
        BY <3>1, <3>2, <3>6 DEF CInv, CarrierTypeOK, Progress, Busy, Filling, Erasing
      <3> QED
        <4>1. ~agentDir' /\ \A b \in Users' : FALSE
          BY <3>2, <3>4
        <4>2. \A b \in Attempts : pc'[b] \in Busy => lk'[b] = "inside"
          BY <3>6
        <4> QED
          BY <3>5, <3>7, <4>1, <4>2 DEF CInv, Busy, Filling, Erasing
    <2>26. ASSUME NEW a \in Attempts, RollBackFails(a) \/ RemovalFails(a) PROVE CInv'
      <3>1. /\ pc[a] \in Filling \cup Erasing
            /\ pc' = [pc EXCEPT ![a] = "abandoned"]
            /\ UNCHANGED lockVars /\ lk[a] = "inside"
            /\ record' \in {record, [record EXCEPT ![a] = None]}
        BY <2>26 DEF RollBackFails, RemovalFails, Inside, Go
      <3>2. \A b \in Attempts : b # a => pc[b] \notin Busy
        BY <2>0, <3>1 DEF CInv
      <3>3. Users' = {}
        <4>1. Users = {}
          BY <3>1 DEF CInv, Progress
        <4> QED
          BY <3>1, <4>1 DEF CInv, CarrierTypeOK, Users, lockVars
      <3>4. CarrierTypeOK'
        <4>1. CASE RollBackFails(a)
          BY <4>1, <3>1 DEF RollBackFails, CInv, CarrierTypeOK, Progress, Phases, Spoiled
        <4>2. CASE RemovalFails(a)
          BY <4>2, <3>1 DEF RemovalFails, CInv, CarrierTypeOK, Progress, Phases, Spoiled
        <4> QED
          BY <2>26, <4>1, <4>2
      <3>5. \A b \in Attempts : pc'[b] \notin Busy
        BY <3>1, <3>2 DEF CInv, CarrierTypeOK, Busy, Filling, Erasing
      <3>6. \A b \in Attempts : Progress(b)'
        <4>1. \A b \in Attempts : pc'[b] = "releasing" => pc[b] = "releasing" /\
           record'[b] = record[b]
          BY <3>1 DEF CInv, CarrierTypeOK
        <4> QED
          BY <3>5, <4>1 DEF CInv, Progress, Busy, Filling, Erasing
      <3>7. ~Unspoiled'
        BY <3>1 DEF CInv, CarrierTypeOK, Unspoiled, Spoiled
      <3> QED
        BY <3>3, <3>4, <3>5, <3>6, <3>7 DEF CInv
    <2>6. ASSUME NEW a \in Attempts, Inspect(a) PROVE CInv'
      BY <2>0, <2>6 DEF Inspect, Go, CInv, CarrierTypeOK, Busy, Filling, Erasing, Spoiled,
         Users, Held, Progress, Phases, Usable, Whole, Unspoiled, bundleVars, lockVars,
            Inside
    <2>7. ASSUME NEW a \in Attempts, AddLease(a) PROVE CInv'
      BY <2>0, <2>7 DEF AddLease, Go, CInv, CarrierTypeOK, Busy, Filling, Erasing, Users,
         Held, Progress, Phases, Whole, lockVars, Inside
    <2>8. ASSUME NEW a \in Attempts, LeaseFails(a) PROVE CInv'
      BY <2>8 DEF LeaseFails, Go, CInv, CarrierTypeOK, Filling, Erasing, Users, Held,
         Progress, Phases, Whole, lockVars, Inside
    <2>9. ASSUME NEW a \in Attempts, DropLease(a) PROVE CInv'
      BY <2>0, <2>9 DEF DropLease, Go, CInv, CarrierTypeOK, Busy, Filling, Erasing, Spoiled,
         Users, Held, Progress, Phases, Whole, Unspoiled, lockVars, Inside
    <2>10. ASSUME NEW a \in Attempts, Clean(a) PROVE CInv'
      <3>0. UNCHANGED <<lockVars, bundleVars, record>> /\ lk[a] = "inside" /\ pc[a] =
         "cleaning"
        BY <2>10 DEF Clean, Inside, Go
      <3>1. \A b \in Attempts : b # a => pc[b] \notin Busy
        BY <2>0, <3>0 DEF CInv
      <3>2. ASSUME Erasable(a), pc' = [pc EXCEPT ![a] = "erasing"] PROVE CInv'
        <4>1. Users = {}
          BY <3>0, <3>2 DEF CInv, Progress, Held, Erasable, Users
        <4> QED
          BY <3>0, <3>1, <3>2, <4>1 DEF CInv, CarrierTypeOK, Phases, Busy, Filling,
             Erasing, Users,
             Held, Progress, Whole, Erasable, bundleVars, lockVars
      <3>3. ASSUME pc' = [pc EXCEPT ![a] = "released"] PROVE CInv'
        <4>1. \A b \in Attempts : Progress(b)'
          <5>1. \A b \in Attempts \ {a} : pc'[b] = pc[b] /\ pc[b] \notin Busy
            BY <3>1, <3>3 DEF CInv, CarrierTypeOK
          <5>2. pc'[a] = "released" /\ record' = record
            BY <3>0, <3>3 DEF CInv, CarrierTypeOK
          <5> QED
            BY <5>1, <5>2 DEF CInv, Busy, Filling, Erasing, Progress
        <4>2. Users' = Users
          BY <3>0, <3>3 DEF CInv, CarrierTypeOK, Users, bundleVars, lockVars
        <4>3. agentDir /\ Unspoiled => Whole
          BY <3>0 DEF CInv, Progress
        <4>5. Unspoiled' => Unspoiled
          BY <3>0, <3>3 DEF CInv, CarrierTypeOK, Unspoiled, Spoiled
        <4> QED
          BY <3>0, <3>1, <3>3, <4>1, <4>2, <4>3, <4>5 DEF CInv, CarrierTypeOK, Phases,
             Busy, Filling,
             Erasing, Held, Whole, bundleVars, lockVars
      <3> QED
        BY <2>10, <3>2, <3>3 DEF Clean, Go
    <2>11. ASSUME NEW a \in Attempts, EraseFiles(a) PROVE CInv'
      <3>0. /\ UNCHANGED <<lockVars, agentDir, marker, leaseDir, leases, record>>
            /\ lk[a] = "inside" /\ pc[a] = "erasing" /\ files' = FALSE
        BY <2>11 DEF EraseFiles, Inside, Go
      <3>1. \A b \in Attempts : b # a => pc[b] \notin Busy
        BY <2>0, <3>0 DEF CInv
      <3>2. /\ agentDir /\ files /\ leaseDir /\ leases = {} /\ Users = {}
            /\ marker = record[a] /\ marker # None
        BY <3>0 DEF CInv, Progress, Erasing
      <3>3. pc' = [pc EXCEPT ![a] = "unmarking"]
        BY <2>11, <3>2 DEF EraseFiles, Go
      <3>4. Users' = {}
        BY <3>0, <3>2, <3>3 DEF CInv, CarrierTypeOK, Users, lockVars
      <3>5. \A b \in Attempts : Progress(b)'
        BY <3>0, <3>1, <3>2, <3>3, <3>4
        DEF CInv, CarrierTypeOK, Progress, Busy, Filling, Erasing, lockVars
      <3> QED
        BY <3>0, <3>1, <3>2, <3>3, <3>4, <3>5
        DEF CInv, CarrierTypeOK, Phases, Busy, Filling, Erasing, lockVars
    <2>12. ASSUME NEW a \in Attempts, EraseMarker(a) PROVE CInv'
      BY <2>0, <2>12 DEF EraseMarker, Go, CInv, CarrierTypeOK, Busy, Erasing, Users,
         Progress,
         Phases, lockVars, Inside
    <2>13. ASSUME NEW a \in Attempts, CloseLeases(a) PROVE CInv'
      BY <2>0, <2>13 DEF CloseLeases, Go, CInv, CarrierTypeOK, Busy, Erasing, Users,
         Progress,
         Phases, lockVars, Inside
    <2>14. ASSUME NEW a \in Attempts, RemoveDir(a) PROVE CInv'
      BY <2>0, <2>14 DEF RemoveDir, Go, CInv, CarrierTypeOK, Busy, Filling, Erasing, Users,
         Progress, Phases, lockVars, Inside
    <2>15. ASSUME NEW a \in Attempts, EndSection(a) PROVE CInv'
      BY <2>15 DEF EndSection, CInv, CarrierTypeOK, Busy, Filling, Erasing, Users, Held,
         Progress, Whole, Unspoiled, bundleVars, Unlock, LkGo
    <2>16. ASSUME NEW a \in Attempts, AcquireReturns(a) PROVE CInv'
      BY <2>16 DEF AcquireReturns, Go, CInv, CarrierTypeOK, Busy, Filling, Erasing, Spoiled,
         Final, Users, Held, Progress, Phases, Whole, Unspoiled, bundleVars, lockVars
    <2>17. ASSUME NEW a \in Attempts, AcquireThrows(a) PROVE CInv'
      BY <2>17 DEF AcquireThrows, Go, CInv, CarrierTypeOK, Busy, Filling, Erasing, Spoiled,
         Final, Users, Held, Progress, Phases, Whole, Unspoiled, bundleVars, Recover, LkGo,
         LockKept
    <2>18. ASSUME NEW a \in Attempts, ReleaseReturns(a) PROVE CInv'
      BY <2>18 DEF ReleaseReturns, Go, CInv, CarrierTypeOK, Busy, Filling, Erasing, Spoiled,
         Final, Users, Held, Progress, Phases, Whole, Unspoiled, bundleVars, lockVars
    <2>19. ASSUME NEW a \in Attempts, ReleaseGivesUp(a) PROVE CInv'
      BY <2>19 DEF ReleaseGivesUp, Go, CInv, CarrierTypeOK, Busy, Filling, Erasing, Spoiled,
         Final, Users, Held, Progress, Phases, Whole, Unspoiled, bundleVars, Recover, LkGo,
         LockKept
    <2>20. ASSUME NEW a \in Attempts, Acquire(a) PROVE CInv'
      BY <2>20 DEF Acquire, Go, CInv, CarrierTypeOK, Busy, Filling, Erasing, Spoiled, Users,
         Held, Progress, Phases, Whole, Unspoiled, bundleVars, Enter, LkGo, LockKept
    <2>21. ASSUME NEW a \in Attempts, Release(a) PROVE CInv'
      BY <2>21 DEF Release, Go, CInv, CarrierTypeOK, Busy, Filling, Erasing, Users, Held,
         Progress, Phases, Whole, bundleVars, Enter, LkGo, LockKept
    <2>22. ASSUME NEW a \in Attempts, ReleaseUnowned(a) PROVE CInv'
      BY <2>22 DEF ReleaseUnowned, Go, CInv, CarrierTypeOK, Busy, Filling, Erasing, Spoiled,
         Final, Users, Held, Progress, Phases, Whole, Unspoiled, bundleVars, lockVars
    <2>23. ASSUME NEW a \in Attempts, Crash(a) PROVE CInv'
      BY <2>23 DEF Crash, CInv, CarrierTypeOK, Users, Held, Progress, Whole, Unspoiled,
         bundleVars, Die
    <2>24. ASSUME NEW a \in Attempts, LockStep(a), UNCHANGED <<bundleVars, pc, record>>
       PROVE CInv'
      BY <2>24 DEF LockStep, CInv, CarrierTypeOK, Users, Held, Progress, Whole, Unspoiled,
         bundleVars, LockInv, LockTypeOK, Mkdir, Lstat, ReadOwner, Age, UnlinkOwner, Rmdir,
         Retry, Expire, OpenOwner, OpenFails, WriteOwner, WriteFails, UndoLock, MkdirFails,
         Leave, LkGo, LockKept
    <2>25. CASE UNCHANGED vars
      BY <2>25 DEF vars, CInv, CarrierTypeOK, Users, Held, Progress, Whole, Unspoiled,
         bundleVars,
         lockVars
    <2> QED
      BY <2>1, <2>2, <2>3, <2>4, <2>5, <2>6, <2>7, <2>8, <2>9, <2>10, <2>11, <2>12, <2>13,
         <2>14, <2>15, <2>16, <2>17, <2>18, <2>19, <2>20, <2>21, <2>22, <2>23, <2>24, <2>25,
         <2>26 DEF Next, Step, AcquireStep, ReleaseStep
  <1> QED
    BY <1>1, <1>2

(* Whatever dies where, the lock and the bundle stay ones a file system can  *)
(* hold, and everything keeps its type (TypeOK).                             *)
THEOREM CarrierTypeCorrect == Spec => []TypeOK
  <1> USE NoneIsNoAttempt
  <1>1. Init => TypeOK
    <2> SUFFICES ASSUME Init PROVE TypeOK
      OBVIOUS
    <2>1. agentDir \in BOOLEAN /\ files \in BOOLEAN /\ (files => agentDir)
      BY DEF Init
    <2> QED
      BY <2>1 DEF Init, LockInit, TypeOK, LockTypeOK, LockStates, Phases
  <1>2. ASSUME TypeOK, [Next]_vars PROVE LockTypeOK'
    <2>1. LockTypeOK /\ [LockNext]_lockVars
      BY <1>2, CarrierUsesLock DEF TypeOK
    <2> USE <2>1 DEF LockTypeOK, LockStates, Section, LkGo, LockKept
    <2>2. ASSUME NEW a \in Attempts, Mkdir(a) PROVE LockTypeOK'
      BY <2>2 DEF Mkdir
    <2>3. ASSUME NEW a \in Attempts, Rmdir(a) \/ UndoLock(a) \/ Leave(a)
          PROVE  LockTypeOK'
      <3>1. /\ lk' \in [Attempts -> LockStates]
            /\ UNCHANGED <<lockOwner, halfway, dead>>
            /\ lockDir' = (lockDir /\ lockOwner # None)
        BY <2>3 DEF Rmdir, UndoLock, Leave, Removed
      <3> QED
        BY <3>1
    <2>7. ASSUME NEW a \in Attempts, UnlinkOwner(a) PROVE LockTypeOK'
      BY <2>7 DEF UnlinkOwner
    <2>8. ASSUME NEW a \in Attempts, OpenOwner(a) PROVE LockTypeOK'
      BY <2>8 DEF OpenOwner
    <2>9. ASSUME NEW a \in Attempts, Unlock(a) PROVE LockTypeOK'
      BY <2>9 DEF Unlock
    <2>4. ASSUME NEW a \in Attempts, WriteOwner(a) PROVE LockTypeOK'
      BY <2>4 DEF WriteOwner
    <2>5. ASSUME NEW a \in Attempts,
                 MkdirFails(a) \/ Lstat(a) \/ ReadOwner(a) \/ Age(a) \/ Retry(a) \/ Expire(a)
          PROVE  LockTypeOK'
      BY <2>5 DEF MkdirFails, Lstat, ReadOwner, Age, Retry, Expire
    <2>6. ASSUME NEW a \in Attempts,
                 OpenFails(a) \/ WriteFails(a) \/ Enter(a) \/ Recover(a) \/ Die(a)
          PROVE  LockTypeOK'
      BY <2>6 DEF OpenFails, WriteFails, Enter, Recover, Die
    <2> QED
      BY <2>2, <2>3, <2>4, <2>5, <2>6, <2>7, <2>8, <2>9 DEF LockNext, LockStep, lockVars
  <1>3. ASSUME TypeOK, [Next]_vars PROVE CarrierTypeOK'
    <2> USE <1>3
    <2>0. CarrierTypeOK
      BY DEF TypeOK, CarrierTypeOK
    <2>1. ASSUME NEW a \in Attempts, AcquireStep(a) PROVE CarrierTypeOK'
      <3>1. ASSUME \E from \in Filling : Go(a, from, "refused"), Gone,
                   record' = [record EXCEPT ![a] = None]
            PROVE  CarrierTypeOK'
        BY <2>0, <3>1 DEF CarrierTypeOK, Go, Gone, Phases
      <3>2. CASE RollBack(a)
        BY <3>1, <3>2 DEF RollBack
      <3>6. CASE RollBackFails(a)
        <4>1. /\ pc' = [pc EXCEPT ![a] = "abandoned"] /\ agentDir' /\ agentDir' = agentDir
              /\ record' = [record EXCEPT ![a] = None]
              /\ files' \in BOOLEAN /\ marker' \in {marker, None} /\ leaseDir' \in BOOLEAN
              /\ leases' \in SUBSET Attempts /\ (leases' # {} => leaseDir')
          BY <2>0, <3>6 DEF CarrierTypeOK, RollBackFails, Go
        <4>2. "abandoned" \in Phases
          BY DEF Phases, Spoiled
        <4> QED
          BY <2>0, <4>1, <4>2 DEF CarrierTypeOK
      <3>3. CASE CreateDir(a) \/ WriteFiles(a) \/ WriteMarker(a) \/ OpenLeases(a)
        BY <2>0, <3>3 DEF CarrierTypeOK, CreateDir, WriteFiles, WriteMarker, OpenLeases, Go,
           Phases, Filling
      <3>4. CASE Inspect(a) \/ AddLease(a) \/ LeaseFails(a)
        BY <2>0, <3>4 DEF CarrierTypeOK, Inspect, AddLease, LeaseFails, Go, Phases,
           bundleVars
      <3>5. CASE EndSection(a) \/ AcquireReturns(a) \/ AcquireThrows(a)
        BY <2>0, <3>5 DEF CarrierTypeOK, EndSection, AcquireReturns, AcquireThrows, Go,
           Phases,
           Final, bundleVars
      <3> QED
        BY <2>1, <3>2, <3>3, <3>4, <3>5, <3>6 DEF AcquireStep
    <2>2. ASSUME NEW a \in Attempts, ReleaseStep(a) PROVE CarrierTypeOK'
      <3>1. CASE DropLease(a)
        BY <2>0, <3>1 DEF CarrierTypeOK, DropLease, Go, Phases
      <3>8. CASE RemovalFails(a)
        <4>1. /\ pc' = [pc EXCEPT ![a] = "abandoned"]
              /\ files' \in {files, FALSE}
              /\ UNCHANGED <<agentDir, marker, leaseDir, leases, record>>
          BY <3>8 DEF RemovalFails, Go
        <4>2. "abandoned" \in Phases
          BY DEF Phases, Spoiled
        <4>3. pc' \in [Attempts -> Phases]
          BY <2>0, <4>1, <4>2 DEF CarrierTypeOK
        <4>4. CASE UNCHANGED files
          BY <2>0, <4>1, <4>3, <4>4 DEF CarrierTypeOK
        <4>5. CASE files' = FALSE
          BY <2>0, <4>1, <4>3, <4>5 DEF CarrierTypeOK
        <4> QED
          BY <4>1, <4>4, <4>5
      <3>6. CASE EraseFiles(a)
        BY <2>0, <3>6 DEF CarrierTypeOK, EraseFiles, Go, Phases, Erasing
      <3>7. CASE EraseMarker(a)
        BY <2>0, <3>7 DEF CarrierTypeOK, EraseMarker, Go, Phases, Erasing
      <3>5. CASE Clean(a)
        <4>1. pc' = [pc EXCEPT ![a] = "erasing"] \/ pc' = [pc EXCEPT ![a] = "released"]
          BY <3>5 DEF Clean, Go
        <4> QED
          BY <2>0, <3>5, <4>1 DEF CarrierTypeOK, Clean, Phases, Erasing, bundleVars
      <3>2. CASE CloseLeases(a)
        BY <2>0, <3>2 DEF CarrierTypeOK, CloseLeases, Go, Phases, Erasing
      <3>3. CASE RemoveDir(a)
        BY <2>0, <3>3 DEF CarrierTypeOK, RemoveDir, Go, Phases
      <3>4. CASE ReleaseReturns(a) \/ ReleaseGivesUp(a)
        BY <2>0, <3>4 DEF CarrierTypeOK, ReleaseReturns, ReleaseGivesUp, Go, Phases,
           Spoiled, Final,
           bundleVars
      <3> QED
        BY <2>2, <3>1, <3>2, <3>3, <3>4, <3>5, <3>6, <3>7, <3>8 DEF ReleaseStep
    <2>3. ASSUME NEW a \in Attempts, Acquire(a) \/ Release(a) \/ ReleaseUnowned(a)
          PROVE  CarrierTypeOK'
      BY <2>0, <2>3 DEF CarrierTypeOK, Acquire, Release, ReleaseUnowned, Go, Phases, Final,
         bundleVars
    <2>4. ASSUME UNCHANGED <<bundleVars, pc, record>> PROVE CarrierTypeOK'
      BY <2>0, <2>4 DEF CarrierTypeOK, bundleVars
    <2> QED
      BY <2>1, <2>2, <2>3, <2>4 DEF Next, Step, Crash, vars
  <1>4. TypeOK <=> LockTypeOK /\ CarrierTypeOK
    BY DEF TypeOK, CarrierTypeOK
  <1>5. TypeOK /\ [Next]_vars => TypeOK'
    BY <1>2, <1>3 DEF TypeOK, CarrierTypeOK
  <1> QED
    BY <1>1, <1>5, PTL DEF Spec

(* A process that dies inside the lock stays there for ever; and none does    *)
(* if none may.                                                              *)
LEMMA OrderlySoFar ==
    ASSUME LockTypeOK, [LockNext]_lockVars
    PROVE  /\ OrderlyDeaths' => OrderlyDeaths
           /\ OrderlyDeaths /\ ~CrashInSection => OrderlyDeaths'
  <1> USE DEF LockTypeOK, OrderlyDeaths, LkGo, LockKept
  <1>1. ASSUME NEW a \in Attempts, a \notin dead, UNCHANGED dead,
               NEW s, lk' = [lk EXCEPT ![a] = s]
        PROVE  OrderlyDeaths' <=> OrderlyDeaths
    BY <1>1
  <1>2. ASSUME NEW a \in Attempts, Die(a)
        PROVE  /\ OrderlyDeaths' => OrderlyDeaths
               /\ OrderlyDeaths /\ ~CrashInSection => OrderlyDeaths'
    BY <1>2 DEF Die
  <1>3. ASSUME NEW a \in Attempts, LockStep(a) \/ Enter(a) \/ Unlock(a) \/ Recover(a)
        PROVE  OrderlyDeaths' <=> OrderlyDeaths
    <2>1. a \notin dead /\ UNCHANGED dead /\ \E s : lk' = [lk EXCEPT ![a] = s]
      BY <1>3 DEF LockStep, Enter, Mkdir, Lstat, ReadOwner, Age, UnlinkOwner, Rmdir, Retry,
         Expire, OpenOwner, OpenFails, WriteOwner, WriteFails, UndoLock, MkdirFails, Unlock,
         Leave, Recover
    <2> QED
      BY <1>1, <2>1
  <1>4. CASE UNCHANGED lockVars
    BY <1>4 DEF lockVars
  <1> QED
    BY <1>2, <1>3, <1>4 DEF LockNext

LEMMA Invariants ==
    /\ Spec => [](OrderlyDeaths => LockInv /\ CInv)
    /\ ~CrashInSection /\ Spec => []OrderlyDeaths
  <1>1. TypeOK => LockTypeOK
    BY DEF TypeOK
  <1>2. Init => OrderlyDeaths
    BY DEF Init, LockInit, OrderlyDeaths
  <1>3. ASSUME TypeOK, [Next]_vars
        PROVE  /\ OrderlyDeaths' => OrderlyDeaths
               /\ OrderlyDeaths /\ ~CrashInSection => OrderlyDeaths'
    BY <1>1, <1>3, CarrierUsesLock, OrderlySoFar
  <1>4. Init => LockInv /\ CInv
    BY LockInductive, CarrierUsesLock, CarrierInductive
  <1>5. ASSUME TypeOK, OrderlyDeaths => LockInv /\ CInv, [Next]_vars
        PROVE  (OrderlyDeaths => LockInv /\ CInv)'
    BY <1>3, <1>5, LockInductive, CarrierUsesLock, CarrierInductive
  <1>6. Spec => [](OrderlyDeaths => LockInv /\ CInv)
    BY <1>4, <1>5, CarrierTypeCorrect, PTL DEF Spec
  <1>7. ASSUME ~CrashInSection
        PROVE  Spec => []OrderlyDeaths
    <2>1. TypeOK /\ OrderlyDeaths /\ [Next]_vars => OrderlyDeaths'
      BY <1>3, <1>7
    <2> QED
      BY <1>2, <2>1, CarrierTypeCorrect, PTL DEF Spec
  <1> QED
    BY <1>6, <1>7

(* No two attempts are inside the lock at once (SectionExclusion), for any   *)
(* number of them, if no process dies inside it.                             *)
THEOREM LockExcludes ==
    ASSUME ~CrashInSection
    PROVE  Spec => []SectionExclusion
  <1>1. LockInv => SectionExclusion
    BY DEF LockInv, SectionExclusion
  <1>2. Spec => []OrderlyDeaths
    BY Invariants
  <1> QED
    BY <1>1, <1>2, Invariants, PTL

(* The carrier an attempt holds stays complete, with its marker and its      *)
(* lease, whatever the other attempts do, if no process dies inside the lock *)
(* (HeldCarrierIntact).                                                      *)
THEOREM CarrierStaysIntact ==
    ASSUME ~CrashInSection
    PROVE  Spec => []HeldCarrierIntact
  <1>1. CInv => HeldCarrierIntact
    BY DEF CInv, Users, Held, HeldCarrierIntact, Current
  <1>2. Spec => []OrderlyDeaths
    BY Invariants
  <1> QED
    BY <1>1, <1>2, Invariants, PTL

(* Outside the lock the directory is absent or usable, however many attempts *)
(* came, failed and went, until a process dies inside it or a removal fails  *)
(* (OrderlyLeftoverUsable).                                                  *)
THEOREM LeftoverStaysUsable == Spec => []OrderlyLeftoverUsable
  <1>1. ASSUME OrderlyDeaths => LockInv /\ CInv
        PROVE  OrderlyLeftoverUsable
    <2> SUFFICES ASSUME Orderly, \A a \in Attempts : a \in dead \/ lk[a] # "inside",
                        agentDir
                 PROVE  Usable
      BY DEF OrderlyLeftoverUsable, LeftoverUsable, Orderly
    <2>1. OrderlyDeaths /\ Unspoiled /\ \A a \in Attempts : lk[a] # "inside"
      BY DEF Orderly, OrderlyDeaths, Section
    <2> QED
      BY <1>1, <2>1 DEF CInv, Whole, Usable
  <1> QED
    BY <1>1, Invariants, PTL

-----------------------------------------------------------------------------
(***************************************************************************)
(* The refinement: who is inside the lock is alone in the middle of a        *)
(* change, so what the others see changes in one of its calls only.          *)
(***************************************************************************)
Calm == LockInv /\ CInv /\ Unspoiled /\ Unspoiled'

LEMMA Alone ==
    ASSUME LockInv, CInv, NEW a \in Attempts, lk[a] = "inside"
    PROVE  /\ \A b \in Attempts : b # a => pc[b] \notin Busy
           /\ Present <=> agentDir /\ pc[a] \notin Filling \cup Erasing
  <1>1. \A b \in Attempts : b # a => pc[b] \notin Busy
    BY DEF LockInv, CInv
  <1> QED
    BY <1>1 DEF Present, Busy

(* What makes a step one that nobody sees.                                   *)
LEMMA Unseen ==
    ASSUME Present' <=> Present, Users' = Users, UNCHANGED <<leases, dead>>,
           Present => UNCHANGED marker
    PROVE  UNCHANGED Shared!carrierVars
  <1>1. Present' = Present
    BY DEF Present
  <1> QED
    BY <1>1 DEF Owner, Shared!carrierVars

(* An attempt that moves, and what that makes of the users and the bundle.   *)
LEMMA Moved ==
    ASSUME CarrierTypeOK, UNCHANGED dead, NEW a \in Attempts, NEW to \in Phases,
           pc' = [pc EXCEPT ![a] = to]
    PROVE  /\ to \in {"acquired", "holding"} /\ a \notin dead => Users' = Users \cup {a}
           /\ to \notin {"acquired", "holding"} => Users' = Users \ {a}
           /\ (\A b \in Attempts : b # a => pc[b] \notin Busy) =>
                 (Present' <=> agentDir' /\ to \notin Filling \cup Erasing)
  BY DEF CarrierTypeOK, Users, Present, Busy

LEMMA GoesOn ==
    ASSUME Calm, UNCHANGED dead, NEW a \in Attempts, lk[a] = "inside", a \notin Users,
           NEW to \in {"leasing", "refused", "cleaning", "released"},
           pc' = [pc EXCEPT ![a] = to]
    PROVE  (Present' <=> agentDir') /\ Users' = Users
  <1>1. /\ CarrierTypeOK
        /\ to \in Phases /\ to \notin Filling \cup Erasing /\ to \notin {"acquired",
           "holding"}
    BY DEF Calm, CInv, Phases, Filling, Erasing
  <1>2. \A b \in Attempts : b # a => pc[b] \notin Busy
    BY Alone DEF Calm
  <1>3. Users' = Users \ {a} /\ (Present' <=> agentDir')
    BY <1>1, <1>2, Moved
  <1> QED
    BY <1>3

LEMMA StartsUsing ==
    ASSUME Calm, UNCHANGED dead, NEW a \in Attempts, lk[a] = "inside", a \notin dead,
           pc' = [pc EXCEPT ![a] = "acquired"]
    PROVE  (Present' <=> agentDir') /\ Users' = Users \cup {a}
  <1>1. CarrierTypeOK /\ "acquired" \in Phases /\ "acquired" \notin Filling \cup Erasing
    BY DEF Calm, CInv, Phases, Filling, Erasing
  <1>2. \A b \in Attempts : b # a => pc[b] \notin Busy
    BY Alone DEF Calm
  <1> QED
    BY <1>1, <1>2, Moved

(* Nobody sees the creation before its last call, nor its rollback, nor the  *)
(* removal after the decision.                                               *)
LEMMA MakingUnseen ==
    ASSUME Calm, NEW a \in Attempts,
           CreateDir(a) \/ WriteFiles(a) \/ WriteMarker(a) \/ RollBack(a)
    PROVE  UNCHANGED Shared!carrierVars
  <1>1. CarrierTypeOK /\ lk[a] = "inside" /\ UNCHANGED dead
    BY DEF Calm, CInv, CreateDir, WriteFiles, WriteMarker, RollBack, Inside, lockVars
  <1>2. /\ pc[a] \in {"acquiring"} \cup Filling
        /\ \E to \in {"filling", "marking", "opening", "refused"} :
              /\ pc' = [pc EXCEPT ![a] = to]
              /\ to = "refused" => ~agentDir'
    BY DEF CreateDir, WriteFiles, WriteMarker, RollBack, Go, Gone, Filling
  <1>3. PICK to \in {"filling", "marking", "opening", "refused"} :
              /\ pc' = [pc EXCEPT ![a] = to]
              /\ to = "refused" => ~agentDir'
    BY <1>2
  <1>4. ~Present
    BY <1>1, <1>2, Alone DEF Calm, CreateDir, WriteFiles, WriteMarker, RollBack, Go, Filling
  <1>5. UNCHANGED leases
    BY DEF Calm, CInv, CarrierTypeOK, Progress, Filling, CreateDir, WriteFiles, WriteMarker,
       RollBack, Go, Gone
  <1>6. ~Present' /\ Users' = Users \ {a}
    BY <1>1, <1>3, Alone, Moved DEF Calm, Filling, Phases
  <1>7. a \notin Users
    BY <1>2 DEF Users, Filling
  <1>8. Users' = Users
    BY <1>6, <1>7
  <1> QED
    BY <1>1, <1>4, <1>5, <1>6, <1>8, Unseen

LEMMA RemovalUnseen ==
    ASSUME Calm, NEW a \in Attempts,
           EraseFiles(a) \/ EraseMarker(a) \/ CloseLeases(a) \/ RemoveDir(a)
    PROVE  UNCHANGED Shared!carrierVars
  <1>1. CarrierTypeOK /\ lk[a] = "inside" /\ UNCHANGED <<dead, leases>>
    BY DEF Calm, CInv, EraseFiles, EraseMarker, CloseLeases, RemoveDir, Inside, lockVars
  <1>2. pc[a] \in Erasing
    BY DEF EraseFiles, EraseMarker, CloseLeases, RemoveDir, Go, Erasing
  <1>3. Progress(a)
    BY DEF Calm, CInv
  <1>4. \E to \in {"unmarking", "closing", "discarding", "released"} :
           /\ pc' = [pc EXCEPT ![a] = to]
           /\ to = "released" => ~agentDir'
    BY <1>2, <1>3 DEF Progress, EraseFiles, EraseMarker, CloseLeases, RemoveDir, Go, Erasing
  <1>5. PICK to \in {"unmarking", "closing", "discarding", "released"} :
           /\ pc' = [pc EXCEPT ![a] = to]
           /\ to = "released" => ~agentDir'
    BY <1>4
  <1>6. ~Present
    BY <1>1, <1>2, Alone DEF Calm
  <1>7. ~Present' /\ Users' = Users \ {a}
    BY <1>1, <1>5, Alone, Moved DEF Calm, Erasing, Phases
  <1>8. a \notin Users
    BY <1>2 DEF Users, Erasing
  <1>9. Users' = Users
    BY <1>7, <1>8
  <1> QED
    BY <1>1, <1>6, <1>7, <1>9, Unseen

LEMMA CreationIsMake ==
    ASSUME Calm, NEW a \in Attempts, OpenLeases(a)
    PROVE  Shared!Make(a)
  <1>1. CarrierTypeOK /\ lk[a] = "inside" /\ a \notin dead /\ UNCHANGED <<dead, agentDir,
     marker>>
    BY DEF Calm, CInv, OpenLeases, Inside, lockVars
  <1>2. pc[a] = "opening" /\ pc' = [pc EXCEPT ![a] = "acquired"] /\ leases' = {a} /\
     agentDir
    BY DEF OpenLeases, Go
  <1>3. marker = a
    BY <1>2 DEF Calm, CInv, Progress
  <1>4. ~Present /\ Present' /\ Users' = Users \cup {a}
    BY <1>1, <1>2, Alone, StartsUsing DEF Calm, Filling
  <1>5. a \notin Users
    BY <1>2 DEF Users
  <1> QED
    BY <1>1, <1>2, <1>3, <1>4, <1>5 DEF Owner, Shared!Make, Shared!Begins

(* Outside a change our own bundle is exact, and somebody else's has no      *)
(* leases.                                                                   *)
LEMMA Outside ==
    ASSUME Calm, NEW a \in Attempts, lk[a] = "inside", pc[a] \notin Busy
    PROVE  agentDir => Whole
  <1>1. \A b \in Attempts : pc[b] \notin Busy
    BY Alone DEF Calm
  <1> QED
    BY <1>1 DEF Calm, CInv

LEMMA InspectionIsBorrow ==
    ASSUME Calm, NEW a \in Attempts, Inspect(a)
    PROVE  Shared!Borrow(a) \/ UNCHANGED Shared!carrierVars
  <1>1. /\ CarrierTypeOK /\ lk[a] = "inside" /\ a \notin dead
        /\ UNCHANGED <<dead, agentDir, marker, leases>> /\ agentDir
    BY DEF Calm, CInv, Inspect, Inside, lockVars, bundleVars
  <1>2. pc[a] = "acquiring"
    BY DEF Inspect, Go
  <1>3. Usable
    BY <1>1, <1>2, Outside DEF Busy, Filling, Erasing, Whole, Usable
  <1>4. pc' = [pc EXCEPT ![a] = IF marker = None THEN "acquired" ELSE "leasing"]
    BY <1>3 DEF Inspect, Go
  <1>5. Present /\ a \notin Users
    BY <1>1, <1>2, Alone DEF Calm, Filling, Erasing, Users
  <1>6. CASE marker = None
    <2>1. Present' /\ Users' = Users \cup {a}
      BY <1>1, <1>4, <1>6, StartsUsing
    <2> QED
      BY <1>1, <1>5, <1>6, <2>1 DEF Owner, Shared!Borrow, Shared!Begins
  <1>7. CASE marker # None
    <2>1. pc' = [pc EXCEPT ![a] = "leasing"]
      BY <1>4, <1>7
    <2>2. Present' /\ Users' = Users
      BY <1>1, <1>5, <2>1, GoesOn
    <2> QED
      BY <1>1, <1>5, <2>2, Unseen
  <1> QED
    BY <1>6, <1>7

LEMMA LeaseIsJoin ==
    ASSUME Calm, NEW a \in Attempts
    PROVE  /\ AddLease(a) => Shared!Join(a)
           /\ LeaseFails(a) => Shared!Prune
  <1>1. SUFFICES ASSUME AddLease(a) \/ LeaseFails(a)
                 PROVE  /\ AddLease(a) => Shared!Join(a)
                        /\ LeaseFails(a) => Shared!Prune
    OBVIOUS
  <1>2. /\ CarrierTypeOK /\ lk[a] = "inside" /\ a \notin dead /\ pc[a] = "leasing"
        /\ UNCHANGED <<dead, agentDir, marker>>
    BY <1>1 DEF Calm, CInv, AddLease, LeaseFails, Inside, Go, lockVars
  <1>3. agentDir /\ marker # None
    BY <1>2 DEF Calm, CInv, Progress
  <1>4. Present /\ a \notin Users
    BY <1>2, <1>3, Alone DEF Calm, Filling, Erasing, Users
  <1>5. ASSUME AddLease(a) PROVE Shared!Join(a)
    <2>1. /\ pc' = [pc EXCEPT ![a] = "acquired"]
          /\ \E pruned \in SUBSET dead : leases' = (leases \ pruned) \cup {a}
      BY <1>5 DEF AddLease, Go
    <2>2. Present' /\ Users' = Users \cup {a}
      BY <1>2, <1>3, <2>1, StartsUsing
    <2> QED
      BY <1>2, <1>3, <1>4, <2>1, <2>2 DEF Owner, Shared!Join, Shared!Begins
  <1>6. ASSUME LeaseFails(a) PROVE Shared!Prune
    <2>1. /\ pc' = [pc EXCEPT ![a] = "refused"]
          /\ \E pruned \in SUBSET dead : leases' = leases \ pruned
      BY <1>6 DEF LeaseFails, Go
    <2>2. Present' /\ Users' = Users
      BY <1>2, <1>3, <1>4, <2>1, GoesOn
    <2>3. Present' = Present
      BY <1>4, <2>2 DEF Present
    <2> QED
      BY <1>2, <1>3, <1>4, <2>1, <2>2, <2>3 DEF Owner, Shared!Prune
  <1> QED
    BY <1>5, <1>6

(* The lease goes with its file, or has gone with the whole bundle.          *)
LEMMA DropIsForget ==
    ASSUME Calm, NEW a \in Attempts, DropLease(a)
    PROVE  Shared!Forget(a) \/ UNCHANGED Shared!carrierVars
  <1>1. /\ CarrierTypeOK /\ lk[a] = "inside" /\ pc[a] = "releasing"
        /\ UNCHANGED <<dead, agentDir, marker, leaseDir>>
        /\ pc' = [pc EXCEPT ![a] = "cleaning"]
        /\ \E dropped \in SUBSET (dead \cup {a}) : leases' = leases \ dropped
    BY DEF Calm, CInv, DropLease, Inside, Go, lockVars
  <1>2. (Present <=> agentDir) /\ (agentDir => Whole) /\ a \notin Users
    BY <1>1, Alone, Outside DEF Calm, Busy, Filling, Erasing, Users
  <1>3. (Present' <=> Present) /\ Users' = Users
    BY <1>1, <1>2, GoesOn
  <1>4. CASE Owner # None
    <2>1. Present' = Present
      BY <1>3 DEF Present
    <2> QED
      BY <1>1, <1>2, <1>3, <1>4, <2>1 DEF Owner, Shared!Forget
  <1>5. CASE Owner = None
    <2>1. leases = {}
      BY <1>1, <1>2, <1>5 DEF Owner, Whole, CarrierTypeOK
    <2>2. leases' = leases
      BY <1>1, <2>1
    <2> QED
      BY <1>1, <1>3, <2>2, Unseen
  <1> QED
    BY <1>4, <1>5

LEMMA CleanIsDispose ==
    ASSUME Calm, NEW a \in Attempts, Clean(a)
    PROVE  Shared!Dispose \/ UNCHANGED Shared!carrierVars
  <1>1. /\ CarrierTypeOK /\ lk[a] = "inside" /\ pc[a] = "cleaning"
        /\ UNCHANGED <<dead, agentDir, marker, leases>>
        /\ pc' = [pc EXCEPT ![a] = IF Erasable(a) THEN "erasing" ELSE "released"]
    BY DEF Calm, CInv, Clean, Inside, Go, lockVars, bundleVars
  <1>2. (Present <=> agentDir) /\ a \notin Users
    BY <1>1, Alone DEF Calm, Filling, Erasing, Users
  <1>3. CASE Erasable(a)
    <2>1. record[a] # None /\ marker = record[a] /\ leases = {} /\ agentDir
      BY <1>1, <1>3 DEF Calm, CInv, CarrierTypeOK, Progress, Erasable
    <2>2. Users = {}
      BY <2>1 DEF Calm, CInv, Held
    <2>3. ~Present' /\ Users' = Users \ {a}
      BY <1>1, <1>3, Alone, Moved DEF Calm, Erasing, Phases
    <2> QED
      BY <1>1, <1>2, <2>1, <2>2, <2>3 DEF Owner, Shared!Dispose
  <1>4. CASE ~Erasable(a)
    <2>1. pc' = [pc EXCEPT ![a] = "released"]
      BY <1>1, <1>4
    <2>2. (Present' <=> Present) /\ Users' = Users
      BY <1>1, <1>2, <2>1, GoesOn
    <2> QED
      BY <1>1, <2>2, Unseen
  <1> QED
    BY <1>3, <1>4

(* Steps that leave the bundle alone.                                        *)
LEMMA BundleKept ==
    ASSUME CarrierTypeOK, UNCHANGED <<bundleVars, dead>>, NEW a \in Attempts,
           NEW to \in Phases \ Busy, pc[a] \notin Busy, pc' = [pc EXCEPT ![a] = to]
    PROVE  UNCHANGED <<Present, Owner, leases>>
  <1>1. Present' <=> Present
    BY DEF CarrierTypeOK, Present, Busy, bundleVars
  <1> QED
    BY <1>1 DEF Owner, bundleVars

LEMMA ReturnsUnseen ==
    ASSUME Calm, NEW a \in Attempts,
           \/ AcquireReturns(a) \/ AcquireThrows(a) \/ Acquire(a)
           \/ ReleaseReturns(a) \/ ReleaseGivesUp(a)
    PROVE  UNCHANGED Shared!carrierVars
  <1>1. /\ CarrierTypeOK /\ UNCHANGED <<bundleVars, dead>>
        /\ a \notin dead
    BY DEF Calm, CInv, AcquireReturns, AcquireThrows, Acquire, ReleaseReturns,
       ReleaseGivesUp,
       lockVars, Recover, Enter, LkGo, LockKept
  <1>2. CASE AcquireReturns(a) /\ pc[a] = "acquired"
    <2>1. a \in Users
      BY <1>1, <1>2 DEF Users
    <2>2. Current(a)
      BY <2>1 DEF Calm, CInv, Held, Current
    <2>3. pc' = [pc EXCEPT ![a] = "holding"]
      BY <1>2, <2>2 DEF AcquireReturns, Go
    <2>4. Users' = Users
      BY <1>1, <1>2, <2>3 DEF CarrierTypeOK, Users
    <2>5. UNCHANGED <<Present, Owner, leases>>
      BY <1>1, <1>2, <2>3, BundleKept DEF Phases, Busy, Filling, Erasing
    <2> QED
      BY <1>1, <2>4, <2>5 DEF Shared!carrierVars
  <1>3. CASE ~(AcquireReturns(a) /\ pc[a] = "acquired")
    <2>1. /\ pc[a] \in {"idle", "acquiring", "refused", "releasing", "released"}
          /\ \E to \in {"acquiring", "failed", "done"} : pc' = [pc EXCEPT ![a] = to]
      BY <1>3 DEF Calm, Unspoiled, Spoiled, AcquireReturns, AcquireThrows, Acquire,
         ReleaseReturns, ReleaseGivesUp, Go
    <2>2. PICK to \in {"acquiring", "failed", "done"} : pc' = [pc EXCEPT ![a] = to]
      BY <2>1
    <2>3. to \in Phases \ Busy
      BY DEF Phases, Busy, Final, Filling, Erasing
    <2>4. Users' = Users
      BY <1>1, <2>1, <2>2, <2>3, Moved DEF Users
    <2>5. UNCHANGED <<Present, Owner, leases>>
      BY <1>1, <2>1, <2>2, <2>3, BundleKept DEF Busy, Filling, Erasing
    <2> QED
      BY <1>1, <2>4, <2>5 DEF Shared!carrierVars
  <1> QED
    BY <1>2, <1>3

LEMMA ReleaseEnds ==
    ASSUME Calm, NEW a \in Attempts, Release(a) \/ ReleaseUnowned(a)
    PROVE  Shared!Ends(a)
  <1>1. /\ CarrierTypeOK /\ UNCHANGED <<bundleVars, dead>> /\ a \notin dead
        /\ pc[a] = "holding"
        /\ \E to \in {"releasing", "done"} : pc' = [pc EXCEPT ![a] = to]
    BY DEF Calm, CInv, Release, ReleaseUnowned, Go, lockVars, Enter, LkGo, LockKept
  <1>2. PICK to \in {"releasing", "done"} : pc' = [pc EXCEPT ![a] = to]
    BY <1>1
  <1>3. to \in Phases \ Busy
    BY DEF Phases, Busy, Final, Filling, Erasing
  <1>4. a \in Users /\ Users' = Users \ {a}
    BY <1>1, <1>2, <1>3, Moved DEF Users
  <1>5. UNCHANGED <<Present, Owner, leases>>
    BY <1>1, <1>2, <1>3, BundleKept DEF Busy, Filling, Erasing
  <1> QED
    BY <1>1, <1>4, <1>5 DEF Shared!Ends

LEMMA CrashIsDeath ==
    ASSUME NEW a \in Attempts, Crash(a)
    PROVE  Shared!Dies(a)
  <1>1. UNCHANGED <<bundleVars, pc>> /\ a \notin dead /\ dead' = dead \cup {a}
    BY DEF Crash, Die
  <1>2. Users' = Users \ {a} /\ UNCHANGED <<Present, Owner, leases>>
    BY <1>1 DEF Users, Present, Owner, bundleVars
  <1> QED
    BY <1>1, <1>2 DEF Shared!Dies

LEMMA LockUnseen ==
    ASSUME UNCHANGED <<bundleVars, pc, dead>>
    PROVE  UNCHANGED Shared!carrierVars
  BY DEF Users, Present, Owner, bundleVars, Shared!carrierVars

(* A removal that fails is there for good.                                   *)
LEMMA FailureSpoils ==
    ASSUME CarrierTypeOK, NEW a \in Attempts, RollBackFails(a) \/ RemovalFails(a)
    PROVE  ~Unspoiled'
  <1>1. pc' = [pc EXCEPT ![a] = "abandoned"]
    BY DEF RollBackFails, RemovalFails, Go
  <1> QED
    BY <1>1 DEF CarrierTypeOK, Unspoiled, Spoiled

LEMMA SpoiledForGood ==
    ASSUME CarrierTypeOK, [Next]_vars, Unspoiled'
    PROVE  Unspoiled
  <1>1. SUFFICES ASSUME NEW a \in Attempts, pc[a] \in Spoiled
                 PROVE  pc'[a] \in Spoiled
    BY DEF Unspoiled
  <1>2. ASSUME NEW b \in Attempts, NEW from, NEW to, Go(b, from, to), from \notin Spoiled
        PROVE  pc'[a] = pc[a]
    BY <1>1, <1>2 DEF Go, CarrierTypeOK
  <1>3. ASSUME NEW b \in Attempts, AcquireStep(b)
        PROVE  pc'[a] = pc[a]
    BY <1>2, <1>3 DEF AcquireStep, CreateDir, WriteFiles, WriteMarker, OpenLeases, RollBack,
       RollBackFails, Inspect, AddLease, LeaseFails, EndSection, AcquireReturns,
          AcquireThrows,
       Filling, Spoiled
  <1>4. ASSUME NEW b \in Attempts, ReleaseStep(b)
        PROVE  pc'[a] \in Spoiled
    <2>1. CASE ReleaseReturns(b)
      BY <1>1, <2>1 DEF ReleaseReturns, Go, CarrierTypeOK, Spoiled
    <2>2. CASE ~ReleaseReturns(b)
      <3>1. pc'[a] = pc[a]
        BY <1>2, <1>4, <2>2 DEF ReleaseStep, DropLease, Clean, EraseFiles, EraseMarker,
           CloseLeases, RemoveDir, RemovalFails, ReleaseGivesUp, Erasing, Spoiled
      <3> QED
        BY <1>1, <3>1
    <2> QED
      BY <2>1, <2>2
  <1>5. ASSUME NEW b \in Attempts, Acquire(b) \/ Release(b) \/ ReleaseUnowned(b)
        PROVE  pc'[a] = pc[a]
    BY <1>2, <1>5 DEF Acquire, Release, ReleaseUnowned, Spoiled
  <1>6. UNCHANGED pc => pc'[a] = pc[a]
    OBVIOUS
  <1> QED
    BY <1>1, <1>3, <1>4, <1>5, <1>6 DEF Next, Step, Crash, vars

LEMMA SharedStep ==
    ASSUME Calm, [Next]_vars
    PROVE  Shared!SharedNext \/ UNCHANGED Shared!carrierVars
  <1>1. ASSUME NEW a \in Attempts, AcquireStep(a)
        PROVE  Shared!SharedNext \/ UNCHANGED Shared!carrierVars
    <2>1. CASE EndSection(a)
      BY <2>1, LockUnseen DEF EndSection, Unlock
    <2>2. ~RollBackFails(a)
      BY FailureSpoils DEF Calm, CInv
    <2> QED
      BY <1>1, <2>1, <2>2, MakingUnseen, CreationIsMake, InspectionIsBorrow, LeaseIsJoin,
         ReturnsUnseen
      DEF AcquireStep, Shared!SharedNext
  <1>2. ASSUME NEW a \in Attempts, ReleaseStep(a)
        PROVE  Shared!SharedNext \/ UNCHANGED Shared!carrierVars
    <2>1. ~RemovalFails(a)
      BY FailureSpoils DEF Calm, CInv
    <2> QED
      BY <1>2, <2>1, DropIsForget, CleanIsDispose, RemovalUnseen, ReturnsUnseen
      DEF ReleaseStep, Shared!SharedNext
  <1>3. ASSUME NEW a \in Attempts, LockStep(a), UNCHANGED <<bundleVars, pc, record>>
        PROVE  UNCHANGED Shared!carrierVars
    <2>1. UNCHANGED dead
      BY <1>3 DEF LockStep, Mkdir, Lstat, ReadOwner, Age, UnlinkOwner, Rmdir, Retry, Expire,
         OpenOwner, OpenFails, WriteOwner, WriteFails, UndoLock, MkdirFails, Leave, LockKept
    <2> QED
      BY <1>3, <2>1, LockUnseen
  <1>4. ASSUME NEW a \in Attempts, Acquire(a) \/ Release(a) \/ ReleaseUnowned(a) \/ Crash(a)
        PROVE  Shared!SharedNext \/ UNCHANGED Shared!carrierVars
    BY <1>4, ReturnsUnseen, ReleaseEnds, CrashIsDeath DEF Shared!SharedNext
  <1>5. CASE UNCHANGED vars
    BY <1>5, LockUnseen DEF vars, lockVars
  <1> QED
    BY <1>1, <1>2, <1>3, <1>4, <1>5 DEF Next, Step

(* SectionsAreAtomic: for any number of attempts, and until a process dies   *)
(* inside the lock or a removal fails, acquire and release are single steps  *)
(* to everybody else and the bundle is removed only when nobody uses it.     *)
THEOREM SectionsOneStep == Spec => SectionsAreAtomic
  <1>1. Init => Shared!SharedInit
    <2> SUFFICES ASSUME Init PROVE Shared!SharedInit
      OBVIOUS
    <2>1. agentDir \in BOOLEAN /\ marker = None /\ leases = {} /\ dead = {}
          /\ \A a \in Attempts : pc[a] = "idle"
      BY DEF Init, LockInit
    <2>2. Present \in BOOLEAN /\ Owner = None /\ Users = {}
      BY <2>1 DEF Present, Owner, Users, Filling, Erasing
    <2> QED
      BY <2>1, <2>2 DEF Shared!SharedInit
  <1>2. ASSUME OrderlyDeaths => LockInv /\ CInv, TypeOK, [Next]_vars, Orderly'
        PROVE  Shared!SharedNext \/ UNCHANGED Shared!carrierVars
    <2>1. OrderlyDeaths
      BY <1>2, CarrierUsesLock, OrderlySoFar DEF TypeOK, Orderly
    <2>2. Unspoiled /\ Unspoiled'
      BY <1>2, <2>1, SpoiledForGood DEF CInv, Orderly
    <2> QED
      BY <1>2, <2>1, <2>2, SharedStep DEF Calm
  <1> QED
    BY <1>1, <1>2, Invariants, CarrierTypeCorrect, PTL DEF Spec, SectionsAreAtomic

(* As long as no process dies inside the lock and no removal fails, the      *)
(* whole manager implements the shared carrier                               *)
(* (AntigravityNativeAgentCarrierManager).                                   *)
THEOREM CarrierIsShared == Spec /\ []Orderly => Shared!SharedSpec
  <1>1. (Orderly' => Shared!SharedNext \/ UNCHANGED Shared!carrierVars) /\ Orderly'
           => [Shared!SharedNext]_(Shared!carrierVars)
    OBVIOUS
  <1>2. UNCHANGED vars => UNCHANGED Shared!carrierVars
    BY LockUnseen DEF vars, lockVars
  <1> QED
    BY <1>1, <1>2, SectionsOneStep, PTL DEF SectionsAreAtomic, Shared!SharedSpec
=============================================================================
