------------------------------ MODULE AttemptRun ------------------------------
(***************************************************************************)
(* One attempt of the harness, from admission to the result the host gets     *)
(* (src/src/harness/run-attempt.ts, the end of src/src/harness/harness.ts):   *)
(* preparation, staging of image files (src/src/harness/image-input.ts), the  *)
(* native run, removal of the files, end of the session lease, delivery.      *)
(*                                                                         *)
(* The native run is the contract NativeRun, which AgyProcess implements.     *)
(* Everything after it shares one deadline, after which no promise is         *)
(* awaited any longer though what it stands for may still happen.  "reading"  *)
(* is a reader of the files outside the process group, of which only the      *)
(* host's readersSettled tells.                                             *)
(***************************************************************************)
EXTENDS NativeRun, AttemptResult

CONSTANT MaxImages  \* images of an attempt

ASSUME MaxImagesIsNat == MaxImages \in Nat

VARIABLES
    pc,          \* where runAttempt stands
    owner,       \* the host still runs this attempt in this session
    session,     \* the lease: "none", "claimed", "released", "retained"
    unwritten,   \* images still to be written
    dir,         \* the staging directory exists
    published,   \* its paths were handed to the caller
    handle,      \* the attempt holds the cleanup of the images (cleanupImages)
    removal,     \* cleanupState
    reading,     \* a detached reader is at the files
    late,        \* cleanupDeadline has passed
    evidence, snapshot, completed

filesVars == <<unwritten, dir, published, removal>>
resultVars == <<evidence, snapshot, completed>>
attemptVars == <<pc, owner, session, handle, reading, late, filesVars, resultVars>>
vars == <<runVars, attemptVars>>

Steps == {"preparing", "staging", "unstaging", "launching", "running", "cleaning", "removing",
          "ending", "settling", "flushing", "delivering", "done"}

Kinds == {"aborted", "timeout", "other"}

Init ==
    /\ RunInit
    /\ pc = "preparing" /\ owner = TRUE /\ session = "none"
    /\ unwritten \in 0..MaxImages
    /\ dir = FALSE /\ published = FALSE /\ handle = FALSE /\ removal = "pending"
    /\ reading = FALSE /\ late = FALSE
    /\ evidence = FreshEvidence /\ snapshot = NoSnapshot
    /\ completed = None

(* The surroundings: the host retires the attempt, the deadline of all        *)
(* cleanup passes, a process leaves a reader behind and that one ends.        *)
Retire ==
    /\ owner /\ owner' = FALSE
    /\ UNCHANGED <<runVars, pc, session, handle, reading, late, filesVars, resultVars>>

Expire ==
    /\ pc \in {"cleaning", "removing", "ending", "settling", "flushing"}
    /\ ~late /\ late' = TRUE
    /\ UNCHANGED <<runVars, pc, owner, session, handle, reading, filesVars, resultVars>>

Read ==
    /\ reading' = ~reading
    /\ reading' => living /\ published
    /\ UNCHANGED <<runVars, pc, owner, session, handle, late, filesVars, resultVars>>

-----------------------------------------------------------------------------
(* The outer catch.                                                          *)
Fails(e, s, terminal) ==
    /\ evidence' = e /\ snapshot' = s
    /\ completed' = Failure(e, s, terminal)
    /\ pc' = "cleaning"

FailsEarly == \E kind \in Kinds : Fails(evidence, snapshot, FailureTerminal(kind))

(* Capabilities, projection, claim, preflight, inventory and model.           *)
Prepare ==
    /\ pc = "preparing"
    /\ \/ owner /\ session' = "claimed" /\ pc' = "staging" /\ UNCHANGED resultVars
       \/ session' \in {"none", "claimed"} /\ FailsEarly
    /\ UNCHANGED <<runVars, owner, handle, reading, late, filesVars>>

(* Nothing to stage; or the directory, once the whole batch is valid; or not. *)
StageBegins ==
    /\ pc = "staging" /\ ~dir
    /\ \/ unwritten = 0 /\ pc' = "launching" /\ UNCHANGED <<dir, resultVars>>
       \/ unwritten # 0 /\ dir' = TRUE /\ UNCHANGED <<pc, resultVars>>
       \/ FailsEarly /\ UNCHANGED dir
    /\ UNCHANGED <<runVars, owner, session, unwritten, published, handle, removal, reading, late>>

(* Mutant: one image more than there are.                                    *)
StageOneMore ==
    /\ pc = "staging" /\ dir
    /\ unwritten' = unwritten - 1
    /\ UNCHANGED <<runVars, pc, removal, owner, session, dir, published, handle, reading, late, resultVars>>

(* The next image is written, or that fails and what was written goes.       *)
StageImage ==
    /\ pc = "staging" /\ dir /\ unwritten # 0
    /\ \/ unwritten' = unwritten - 1 /\ UNCHANGED <<pc, removal>>
       \/ pc' = "unstaging" /\ removal' = "in_progress" /\ UNCHANGED unwritten
    /\ UNCHANGED <<runVars, owner, session, dir, published, handle, reading, late, resultVars>>

StageEnds ==
    /\ pc = "staging" /\ dir /\ unwritten = 0
    /\ published' = TRUE /\ handle' = TRUE /\ pc' = "launching"
    /\ UNCHANGED <<runVars, owner, session, unwritten, dir, removal, reading, late, resultVars>>

(* The invocation's fence, the arguments.                                     *)
Launch ==
    /\ pc = "launching"
    /\ \/ owner /\ pc' = "running" /\ UNCHANGED resultVars
       \/ FailsEarly
    /\ UNCHANGED <<runVars, owner, session, handle, reading, late, filesVars>>

NativeStep ==
    /\ RunNext
    /\ run = "ready" => pc = "running"
    /\ UNCHANGED attemptVars

(* The run has settled: its answer, or its error with what was seen of it.    *)
(* Of the doubts only a timeout changes what is made of an error.             *)
Collect ==
    /\ pc = "running" /\ run = "settled"
    /\ \E s \in SnapshotsOf(acc) :
       \E doubt \in IF born /\ outcome = "threw" THEN {"timeout", None} ELSE {None} :
       \E kind \in Kinds \cup {"native_timeout"} :
       \E reason \in {kind, None} \cap (Kinds \cup {None}) :
          LET e == RunEvidence(told, clean, s, reason, doubt) IN
          \/ /\ outcome = "returned" /\ reason = None /\ kind = "other"
             /\ evidence' = e /\ snapshot' = s /\ pc' = "cleaning"
             /\ \/ completed' = Answer(e, s)
                \/ ~owner /\ completed' = Failure(e, s, "failed")
          \/ /\ outcome = "threw"
             /\ kind = "native_timeout" => doubt = "timeout"
             /\ reason = None => told = "not_started" \/ kind \in {"native_timeout", "other"}
             /\ Fails(e, s, FailureTerminal(kind))
    /\ UNCHANGED <<runVars, owner, session, handle, reading, late, filesVars>>

-----------------------------------------------------------------------------
(* Mutant: the directory is removed as soon as the run has settled.           *)
ReadersAssumedSettled == TRUE

(* Only the attempt's own evidence and the host together vouch for readers.   *)
ReadersSettled == evidence.invocation = "not_started" \/ (evidence.clean /\ ~reading)

(* buildAntigravityFailureResult over the result so far.                      *)
Replaced(e) == completed' = Failure(e, snapshot, completed.terminal)

CleanupFails ==
    LET e == [evidence EXCEPT !.clean = FALSE]
    IN  evidence' = e /\ Replaced(e) /\ pc' = "ending" /\ UNCHANGED snapshot

(* The owner's cleanup of the image files.                                    *)
CleanImages ==
    /\ pc = "cleaning"
    /\ \/ ~handle /\ pc' = "ending" /\ UNCHANGED <<removal, resultVars>>
       \/ handle /\ late /\ CleanupFails /\ UNCHANGED removal
       \/ /\ handle /\ ~late
          /\ IF published /\ ~ReadersSettled
             THEN CleanupFails /\ removal' = "blocked"
             ELSE pc' = "removing" /\ removal' = "in_progress" /\ UNCHANGED resultVars
    /\ UNCHANGED <<runVars, owner, session, unwritten, dir, published, handle, reading, late>>

Awaiting == {"unstaging", "removing"}

(* The file system answers, to whoever still waits.                           *)
Removed ==
    /\ removal = "in_progress"
    /\ removal' = "complete" /\ dir' = FALSE
    /\ \/ pc = "unstaging" /\ FailsEarly
       \/ pc = "removing" /\ pc' = "ending" /\ UNCHANGED resultVars
       \/ pc \notin Awaiting /\ UNCHANGED <<pc, resultVars>>
    /\ UNCHANGED <<runVars, owner, session, unwritten, published, handle, reading, late>>

(* Mutant: an error of staging keeps no handle on what it could not remove.   *)
NotRemovedForgotten ==
    /\ removal = "in_progress"
    /\ removal' = "failed"
    /\ \/ pc = "unstaging" /\ FailsEarly
       \/ pc = "removing" /\ CleanupFails
       \/ pc \notin Awaiting /\ UNCHANGED <<pc, resultVars>>
    /\ UNCHANGED <<runVars, owner, session, unwritten, dir, published, handle, reading, late>>

NotRemoved ==
    /\ removal = "in_progress"
    /\ removal' = "failed"
    /\ \/ pc = "unstaging" /\ handle' = TRUE /\ FailsEarly
       \/ pc = "removing" /\ CleanupFails /\ UNCHANGED handle
       \/ pc \notin Awaiting /\ UNCHANGED <<pc, handle, resultVars>>
    /\ UNCHANGED <<runVars, owner, session, unwritten, dir, published, reading, late>>

(* Mutant: the file system is awaited for as long as it takes.                *)
StopWaitingNever == FALSE /\ UNCHANGED vars

StopWaiting ==
    /\ pc = "removing" /\ late
    /\ CleanupFails
    /\ UNCHANGED <<runVars, owner, session, handle, reading, late, filesVars>>

-----------------------------------------------------------------------------
(* Without a lease there is nothing to end and nothing to check.              *)
EndLease ==
    /\ pc = "ending"
    /\ \/ session = "none" /\ pc' = "flushing" /\ UNCHANGED completed
       \/ session # "none" /\ ~late /\ pc' = "settling" /\ UNCHANGED completed
       \/ /\ session # "none" /\ (late \/ (completed.terminal = "ok" /\ ~owner))
          /\ Replaced(evidence) /\ pc' = "flushing"
    /\ UNCHANGED <<runVars, owner, session, handle, reading, late, filesVars, evidence, snapshot>>

(* The session store commits, before the deadline or not at all.              *)
LeaseEnds ==
    /\ pc = "settling" /\ session = "claimed" /\ ~late
    /\ session' = IF evidence.clean THEN "released" ELSE "retained"
    /\ UNCHANGED <<runVars, pc, owner, handle, reading, late, filesVars, resultVars>>

(* assertDeliveryCurrent: the lease has settled, and nothing has replaced it  *)
(* or its owner since.                                                       *)
Deliverable == session = "released" /\ owner

(* endAttempt returns, throws or is given up; then the first delivery check.  *)
Settle ==
    /\ pc = "settling"
    /\ \/ session # "claimed" /\ (IF completed.terminal = "ok" /\ ~Deliverable
                                  THEN Replaced(evidence) ELSE UNCHANGED completed)
       \/ Replaced(evidence)
    /\ pc' = "flushing"
    /\ UNCHANGED <<runVars, owner, session, handle, reading, late, filesVars, evidence, snapshot>>

(* The trace is flushed, or not waited for; then the second check.            *)
Flush ==
    /\ pc = "flushing"
    /\ IF completed.terminal = "ok" /\ session # "none" /\ ~Deliverable
       THEN Replaced(evidence) ELSE UNCHANGED completed
    /\ pc' = "delivering"
    /\ UNCHANGED <<runVars, owner, session, handle, reading, late, filesVars, evidence, snapshot>>

(* The harness makes that check of every report, whatever its terminal, and    *)
(* then writes the transcript of a completed answer.                          *)
Deliver ==
    /\ pc = "delivering" /\ pc' = "done"
    /\ \/ (session = "none" \/ Deliverable) /\ UNCHANGED completed
       \/ /\ session # "none" /\ (~Deliverable \/ completed.kind = "completed")
          /\ completed' = Undelivered(completed)
    /\ UNCHANGED <<runVars, owner, session, handle, reading, late, filesVars, evidence, snapshot>>

Attempt ==
    \/ Prepare \/ StageBegins \/ StageImage \/ StageEnds \/ Launch \/ Collect
    \/ CleanImages \/ StopWaiting \/ EndLease \/ LeaseEnds \/ Settle \/ Flush \/ Deliver

Done == pc = "done" /\ UNCHANGED vars

Next == Attempt \/ Removed \/ NotRemoved \/ NativeStep \/ Retire \/ Expire \/ Read \/ Done

Spec == Init /\ [][Next]_vars

(* What the attempt computes or awaits under a timer is fair, and so are the  *)
(* timer and the settlement of a run.  The preparation has the invocation's   *)
(* deadline; staging and the transcript wait for the file system without one. *)
(* A removal after the run and endAttempt need never answer.                  *)
Fairness ==
    /\ WF_vars(Prepare) /\ WF_vars(StageBegins \/ StageImage \/ StageEnds \/ Launch)
    /\ WF_vars(pc = "unstaging" /\ (Removed \/ NotRemoved))
    /\ WF_vars(NativeStep /\ run = "ready") /\ WF_vars(RunSettles /\ UNCHANGED attemptVars)
    /\ WF_vars(Collect) /\ WF_vars(CleanImages) /\ WF_vars(Expire) /\ WF_vars(StopWaiting)
    /\ WF_vars(EndLease) /\ WF_vars(Settle) /\ WF_vars(Flush) /\ WF_vars(Deliver)

FairSpec == Spec /\ Fairness

-----------------------------------------------------------------------------
TypeOK ==
    /\ pc \in Steps /\ owner \in BOOLEAN
    /\ session \in {"none", "claimed", "released", "retained"}
    /\ unwritten \in 0..MaxImages /\ dir \in BOOLEAN /\ published \in BOOLEAN
    /\ handle \in BOOLEAN /\ reading \in BOOLEAN /\ late \in BOOLEAN
    /\ removal \in {"pending", "blocked", "in_progress", "failed", "complete"}
    /\ evidence \in Evidences /\ snapshot \in Snapshots
    /\ IF pc \in {"preparing", "staging", "unstaging", "launching", "running"}
       THEN completed = None
       ELSE completed \in Reports

(* The host is told that it may run the attempt again only when no native     *)
(* process was ever started, whatever failed and in which order.              *)
ReplaySafeIsTrue == pc = "done" /\ completed.replaySafe => ~born

(* Staged images are never removed under a process or a reader that may       *)
(* still be at them, whoever asks and however often.                          *)
FilesOutliveReaders == [][dir /\ ~dir' => ~living /\ ~reading]_vars

(* A result that claims complete cleanup, and a session released for the next *)
(* attempt, leave neither a process nor a staging directory behind.           *)
NothingLeftUnsaid ==
    pc = "done" /\ (completed.clean \/ session = "released") => ~living /\ ~dir

(* "completed" is said of an attempt, and its message kept, only if the run   *)
(* returned a success without denied actions, the files are gone, and the     *)
(* session was released; and then the terminal says so too.                   *)
CompletedIsComplete ==
    pc = "done" =>
        /\ completed.kind = "completed" <=> completed.terminal = "ok"
        /\ completed.kind = "completed" =>
              /\ outcome = "returned" /\ snapshot.status = "SUCCESS" /\ ~snapshot.denied
              /\ completed.message /\ ~living /\ ~dir /\ session = "released"

(* Every attempt ends in a result.                                            *)
AttemptReturns == []<>(pc = "done")
=============================================================================
