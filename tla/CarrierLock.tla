---------------------------- MODULE CarrierLock ----------------------------
(***************************************************************************)
(* The file-system lock that plugin processes share around one native agent *)
(* carrier (withCarrierLock and tryReclaimStaleLock,                        *)
(* src/src/harness/native-agent-carrier.ts): a directory made with mkdir,    *)
(* holding owner.json, made with O_EXCL and then written.  One action is one *)
(* system call with the code up to the next, and the calls of other          *)
(* processes come in between; only Unlock stands for two, the comparison of  *)
(* the owner file and its unlink.  The disk may refuse to make or to write   *)
(* either of them; what it has made it can unlink.                           *)
(*                                                                         *)
(* A caller is one attempt of a process of its own: sections of attempts in  *)
(* one process never interleave, because everything here is synchronous.     *)
(***************************************************************************)
CONSTANTS
    Attempts,         \* attempts that acquire and release the carrier
    None,             \* no owner file
    CrashInSection    \* whether a process may die between mkdir and the last rmdir

ASSUME NoneIsNoAttempt == None \notin Attempts

VARIABLES
    lockDir,    \* the lock directory exists
    lockOwner,  \* whose owner.json it holds
    halfway,    \* which is open and not written yet, or never will be
    lk,         \* where each attempt is in withCarrierLock
    dead        \* attempts whose process has died

lockVars == <<lockDir, lockOwner, halfway, lk, dead>>

(* Between its own mkdir and its own rmdir; and the part the lock protects.  *)
Section == {"owning", "writing", "undoing", "inside", "leaving"}
LockStates == {"out", "making", "probing", "reading", "aging", "unlinking",
               "removing", "waiting", "threw"} \cup Section

LockInit ==
    /\ lockDir = FALSE
    /\ lockOwner = None
    /\ halfway = FALSE
    /\ lk = [a \in Attempts |-> "out"]
    /\ dead = {}

LkGo(a, from, to) == a \notin dead /\ lk[a] = from /\ lk' = [lk EXCEPT ![a] = to]
LockKept == UNCHANGED <<lockDir, lockOwner, halfway, dead>>

Enter(a) == LkGo(a, "out", "making") /\ LockKept

Mkdir(a) ==
    /\ IF lockDir THEN LkGo(a, "making", "probing") ELSE LkGo(a, "making", "owning")
    /\ lockDir' = TRUE
    /\ UNCHANGED <<lockOwner, halfway, dead>>

(* Anything but EEXIST leaves withCarrierLock.                               *)
MkdirFails(a) == LkGo(a, "making", "threw") /\ LockKept

(***************************************************************************)
(* tryReclaimStaleLock.  Either lstat throws when the lock has been released *)
(* in the meantime, and the error leaves withCarrierLock altogether.         *)
(***************************************************************************)
Lstat(a) == LkGo(a, "probing", IF lockDir THEN "reading" ELSE "threw") /\ LockKept

(* An owner file that is not written yet does not parse, like none at all.   *)
ReadOwner(a) ==
    /\ LkGo(a, "reading", IF lockOwner = None \/ halfway THEN "aging"
                          ELSE IF lockOwner \in dead THEN "unlinking" ELSE "waiting")
    /\ LockKept

(* Such a lock is old enough to be removed, or not yet.                      *)
Age(a) ==
    /\ IF lockDir THEN \E s \in {"removing", "waiting"} : LkGo(a, "aging", s)
                  ELSE LkGo(a, "aging", "threw")
    /\ LockKept

(* The decision to reclaim is not looked at again.                           *)
UnlinkOwner(a) ==
    /\ LkGo(a, "unlinking", "removing")
    /\ lockOwner' = None
    /\ halfway' = FALSE
    /\ UNCHANGED <<lockDir, dead>>

(* Mutant: the directory is removed with its content.                        *)
RemovedRecursively == FALSE

(* rmdir: only an empty directory goes.                                      *)
Removed == lockDir /\ lockOwner # None

Rmdir(a) ==
    /\ LkGo(a, "removing", "waiting")
    /\ lockDir' = Removed
    /\ UNCHANGED <<lockOwner, halfway, dead>>

Retry(a) == LkGo(a, "waiting", "making") /\ LockKept

(* Mutant: the deadline is looked at only while somebody owns the lock.      *)
ExpireWhileOwned(a) == lockOwner # None /\ LkGo(a, "waiting", "threw") /\ LockKept

Expire(a) == LkGo(a, "waiting", "threw") /\ LockKept

(***************************************************************************)
(* The owner file, the section, and the finally block.                       *)
(***************************************************************************)
(* Mutant: the owner file is opened without O_EXCL.                          *)
OpenExisting(a) ==
    /\ lockDir
    /\ LkGo(a, "owning", "writing")
    /\ lockOwner' = a
    /\ halfway' = TRUE
    /\ UNCHANGED <<lockDir, dead>>

(* installExactFile: the open finds the directory there, and nobody's file.  *)
OpenOwner(a) ==
    /\ lockDir /\ lockOwner = None
    /\ LkGo(a, "owning", "writing")
    /\ lockOwner' = a
    /\ halfway' = TRUE
    /\ UNCHANGED <<lockDir, dead>>

(* The directory was reclaimed under it (ENOENT), or made and owned again by *)
(* another (EEXIST), or the disk refuses.                                    *)
OpenFails(a) == LkGo(a, "owning", "undoing") /\ LockKept

(* Somebody may have unlinked the file that is being written.                *)
WriteOwner(a) ==
    /\ LkGo(a, "writing", "inside")
    /\ halfway' = (halfway /\ lockOwner # a)
    /\ UNCHANGED <<lockDir, lockOwner, dead>>

WriteFails(a) == LkGo(a, "writing", "undoing") /\ LockKept

(* The error path: the directory goes unless there is a file in it, be it    *)
(* one that it could not write.                                              *)
UndoLock(a) ==
    /\ LkGo(a, "undoing", "threw")
    /\ lockDir' = Removed
    /\ UNCHANGED <<lockOwner, halfway, dead>>

Unlock(a) ==
    /\ LkGo(a, "inside", "leaving")
    /\ lockOwner' = IF lockOwner = a /\ ~halfway THEN None ELSE lockOwner
    /\ UNCHANGED <<lockDir, halfway, dead>>

Leave(a) ==
    /\ LkGo(a, "leaving", "out")
    /\ lockDir' = Removed
    /\ UNCHANGED <<lockOwner, halfway, dead>>

(* The caller of withCarrierLock catches the error, or fails with it.        *)
Recover(a) == LkGo(a, "threw", "out") /\ LockKept

Die(a) ==
    /\ a \notin dead
    /\ lk[a] \in Section => CrashInSection
    /\ dead' = dead \cup {a}
    /\ UNCHANGED <<lockDir, lockOwner, halfway, lk>>

(* The calls withCarrierLock makes on its own, once entered.                 *)
LockStep(a) ==
    \/ Mkdir(a) \/ MkdirFails(a)
    \/ Lstat(a) \/ ReadOwner(a) \/ Age(a) \/ UnlinkOwner(a) \/ Rmdir(a)
    \/ Retry(a) \/ Expire(a)
    \/ OpenOwner(a) \/ OpenFails(a) \/ WriteOwner(a) \/ WriteFails(a) \/ UndoLock(a)
    \/ Leave(a)

LockNext == \E a \in Attempts :
    LockStep(a) \/ Enter(a) \/ Unlock(a) \/ Recover(a) \/ Die(a)

LockSpec == LockInit /\ [][LockNext]_lockVars

-----------------------------------------------------------------------------
(* The state is one a file system can be in, and everything has its type: a  *)
(* file is in a directory that exists (mkdir, rmdir and O_EXCL).             *)
LockTypeOK ==
    /\ lockDir \in BOOLEAN
    /\ lockOwner \in Attempts \cup {None}
    /\ halfway \in BOOLEAN
    /\ lk \in [Attempts -> LockStates]
    /\ dead \in SUBSET Attempts
    /\ lockOwner # None => lockDir
    /\ halfway => lockOwner # None

(* No two attempts are inside the lock at once, as long as no process dies   *)
(* holding it: neither slow waiters nor the reclamation of an ownerless      *)
(* directory under its maker breaks it (withCarrierLock).                    *)
SectionExclusion ==
    \A a, b \in Attempts \ dead : lk[a] = "inside" /\ lk[b] = "inside" => a = b
=============================================================================
