-------------------------- MODULE SessionBindings --------------------------
(***************************************************************************)
(* The durable binding protocol between one OpenClaw session and one native  *)
(* AGY conversation: AntigravitySessionBindings                              *)
(* (src/src/harness/session-bindings.ts), driven by the attempts             *)
(* (src/src/harness/run-attempt.ts) and resets (src/src/harness/harness.ts)  *)
(* of any number of plugin processes that share the row.                     *)
(*                                                                         *)
(* Every mutation is a patchSessionEntry call in two steps: Prepare runs the *)
(* update callback on a snapshot, Commit stores its answer if the row still  *)
(* equals the snapshot and assertCommitAllowed still holds.  Everything      *)
(* between two awaits of the code is one action; an await is a place where   *)
(* the other processes, the host and the native children may act.            *)
(***************************************************************************)
EXTENDS SessionEnvelope, Naturals, Sequences

CONSTANTS
    MaxRecreations,   \* bound: how often the host recreates the row
    MaxRevisions      \* bound: how often the host revises it in place

VARIABLES
    row,       \* the canonical session row: revision and plugin envelope
    pc,        \* where each attempt is
    snap,      \* binding each attempt resolved (existingBinding)
    route,     \* model and scope each attempt runs with
    base,      \* row snapshot of the attempt's patch in flight
    lease,     \* the attempt's lease: epoch, revision, binding
    live,      \* the host still owns the attempt: not aborted, not expired
    native,    \* the attempt's native process: "none", "running", "dead"
    clean,     \* evidence.termination.cleanupComplete
    ok,        \* completed.terminal.kind = "ok"
    rpc,       \* where each reset is
    rbase,     \* row snapshot of the reset's patch in flight
    transcript,\* attempts whose answer reached the host transcript, in order
    claims,    \* history: attempts in the order their claims were committed
    gone,      \* history: epochs the row carried once and no longer does
    recreated, \* how often the host has recreated the row
    revised    \* how often the host has advanced its revision in place

attemptVars == <<pc, snap, route, base, lease, live, native, clean, ok>>
resetVars == <<rpc, rbase>>
hostVars == <<recreated, revised>>
vars == <<row, attemptVars, resetVars, transcript, claims, gone, hostVars>>

Settling == {"settling", "settled"}
Final == {"done", "failed", "crashed"}
AttemptStates == {"idle", "resolved", "claiming", "claimed", "leased", "launching",
                  "running", "binding", "rebinding", "bound", "closing", "ended", "appending"}
                 \cup Settling \cup Final
ResetFinal == {"done", "failed"}
ResetStates == {"idle", "retiring", "draining", "drained", "clearing"} \cup ResetFinal

Init ==
    /\ row \in [rev : Revisions, env : {None}]
    /\ pc = [a \in Attempts |-> "idle"]
    /\ snap = [a \in Attempts |-> None]
    /\ route \in [Attempts -> Routes]
    /\ base = [a \in Attempts |-> None]
    /\ lease = [a \in Attempts |-> None]
    /\ live = [a \in Attempts |-> TRUE]
    /\ native = [a \in Attempts |-> "none"]
    /\ clean = [a \in Attempts |-> TRUE]
    /\ ok = [a \in Attempts |-> FALSE]
    /\ rpc = [r \in Resets |-> "idle"]
    /\ rbase = [r \in Resets |-> None]
    /\ transcript = <<>>
    /\ claims = <<>>
    /\ gone = {}
    /\ recreated = 0
    /\ revised = 0

(***************************************************************************)
(* The host's side of patchSessionEntry: the snapshot check, and the write.  *)
(***************************************************************************)
(* Mutant: last write wins.                                                  *)
LastWriteWins(snapshot) == snapshot # None

Unchanged(snapshot) == row = snapshot

Store(new) ==
    /\ row' = new
    /\ gone' = IF row.env # None /\ (new.env = None \/ new.env.epoch # row.env.epoch)
               THEN gone \cup {row.env.epoch} ELSE gone

StoreEnvelope(snapshot, env) == Store([snapshot EXCEPT !.env = env])

(* lease.assertActive: the host still owns the attempt and its claim stands. *)
LeaseActive(a) == live[a] /\ HoldsClaim(row, lease[a], a, route[a])

(* The conversation attempt a's native process works on, and whether that    *)
(* process exists or is past the last fence before its spawn.                *)
Conversation(a) == IF snap[a] = None THEN a ELSE snap[a].conv
Driving(a) == pc[a] = "launching" \/ native[a] = "running"

Goto(a, s) == pc' = [pc EXCEPT ![a] = s]

(***************************************************************************)
(* Preparation: resolve, then claim within at most a second.                 *)
(***************************************************************************)
Resolve(a) ==
    /\ pc[a] = "idle"
    /\ IF Resolvable(row)
       THEN /\ snap' = [snap EXCEPT ![a] = StoredBinding(row)]
            /\ Goto(a, "resolved")
       ELSE Goto(a, "failed") /\ UNCHANGED snap
    /\ UNCHANGED <<row, route, base, lease, live, native, clean, ok,
                   resetVars, transcript, claims, gone, hostVars>>

ClaimPrepare(a) ==
    /\ pc[a] = "resolved"
    /\ IF live[a] /\ MayClaim(row, route[a])
       THEN /\ base' = [base EXCEPT ![a] = row]
            /\ Goto(a, "claiming")
       ELSE Goto(a, "failed") /\ UNCHANGED base
    /\ UNCHANGED <<row, snap, route, lease, live, native, clean, ok,
                   resetVars, transcript, claims, gone, hostVars>>

ClaimCommit(a) ==
    /\ pc[a] = "claiming"
    /\ live[a]
    /\ Unchanged(base[a])
    /\ StoreEnvelope(base[a], Claimed(base[a], a, route[a]))
    /\ claims' = Append(claims, a)
    /\ Goto(a, "claimed")
    /\ UNCHANGED <<snap, route, base, lease, live, native, clean, ok,
                   resetVars, transcript, hostVars>>

(* The allowance expires, or the host refuses the commit: a claim already    *)
(* stored stays in the row, and no lease exists to end it.                   *)
ClaimLost(a) ==
    /\ pc[a] \in {"claiming", "claimed"}
    /\ Goto(a, "failed")
    /\ base' = [base EXCEPT ![a] = None]
    /\ UNCHANGED <<row, snap, route, lease, live, native, clean, ok,
                   resetVars, transcript, claims, gone, hostVars>>

LeaseOf(a) ==
    LET env == Claimed(base[a], a, route[a]) IN
    [epoch |-> env.epoch, rev |-> env.rev, binding |-> env.binding]

(* Mutant: the attempt trusts the binding it resolved before the claim.      *)
AnyBinding(resolved, claimed) == resolved = None \/ claimed \in Bindings \cup {None}

(* run-attempt.ts compares the binding it resolved with the one it claimed.  *)
SameBinding(resolved, claimed) ==
    /\ ConvOf(resolved) = ConvOf(claimed)
    /\ resolved # None => resolved.epoch = claimed.epoch

ClaimReturn(a) ==
    /\ pc[a] = "claimed"
    /\ base' = [base EXCEPT ![a] = None]
    /\ IF live[a] /\ HoldsClaim(row, LeaseOf(a), a, route[a])
       THEN /\ lease' = [lease EXCEPT ![a] = LeaseOf(a)]
            /\ Goto(a, IF SameBinding(snap[a], LeaseOf(a).binding) THEN "leased" ELSE "closing")
       ELSE Goto(a, "failed") /\ UNCHANGED lease
    /\ UNCHANGED <<row, snap, route, live, native, clean, ok,
                   resetVars, transcript, claims, gone, hostVars>>

(***************************************************************************)
(* The native process.  The last fence reads the row; the spawn follows in   *)
(* the same turn, but another process may commit between the two.            *)
(***************************************************************************)
LaunchFence(a) ==
    /\ pc[a] = "leased"
    /\ LeaseActive(a)
    /\ Goto(a, "launching")
    /\ UNCHANGED <<row, snap, route, base, lease, live, native, clean, ok,
                   resetVars, transcript, claims, gone, hostVars>>

Spawn(a) ==
    /\ pc[a] = "launching"
    /\ native' = [native EXCEPT ![a] = "running"]
    /\ Goto(a, "running")
    /\ UNCHANGED <<row, snap, route, base, lease, live, clean, ok,
                   resetVars, transcript, claims, gone, hostVars>>

(* A gate before the spawn fails; image files left behind make it unclean.   *)
NotStarted(a) ==
    /\ pc[a] \in {"leased", "launching"}
    /\ \E c \in BOOLEAN : clean' = [clean EXCEPT ![a] = c]
    /\ Goto(a, "closing")
    /\ UNCHANGED <<row, snap, route, base, lease, live, native, ok,
                   resetVars, transcript, claims, gone, hostVars>>

(* The native init event of a resumed conversation needs no commit.          *)
InitResumed(a) ==
    /\ pc[a] = "running"
    /\ snap[a] # None
    /\ LeaseActive(a)
    /\ Goto(a, "bound")
    /\ UNCHANGED <<row, snap, route, base, lease, live, native, clean, ok,
                   resetVars, transcript, claims, gone, hostVars>>

(* The native init event of a fresh conversation: bindFresh.                 *)
BindPrepare(a) ==
    /\ pc[a] = "running"
    /\ snap[a] = None
    /\ LeaseActive(a)
    /\ row.env.binding # None => row.env.binding.conv = a
    /\ base' = [base EXCEPT ![a] = row]
    /\ Goto(a, "binding")
    /\ UNCHANGED <<row, snap, route, lease, live, native, clean, ok,
                   resetVars, transcript, claims, gone, hostVars>>

BindCommit(a) ==
    /\ pc[a] = "binding"
    /\ LeaseActive(a)
    /\ Unchanged(base[a])
    /\ StoreEnvelope(base[a], Bound(base[a], lease[a], a, route[a]))
    /\ base' = [base EXCEPT ![a] = None]
    /\ Goto(a, "rebinding")
    /\ UNCHANGED <<snap, route, lease, live, native, clean, ok,
                   resetVars, transcript, claims, hostVars>>

BindReturn(a) ==
    /\ pc[a] = "rebinding"
    /\ LeaseActive(a)
    /\ Goto(a, "bound")
    /\ UNCHANGED <<row, snap, route, base, lease, live, native, clean, ok,
                   resetVars, transcript, claims, gone, hostVars>>

(* runAgyStreamProcess settles.  It may give up on a process that does not   *)
(* die, and succeeds only for a bound conversation, cleanly finished.  A     *)
(* patch still in flight is fenced off from here on.                         *)
ProcessSettles(a) ==
    /\ pc[a] \in {"running", "binding", "rebinding", "bound"}
    /\ \E c, o \in BOOLEAN :
          /\ c => native[a] = "dead"
          /\ o => c /\ live[a] /\ pc[a] = "bound"
          /\ clean' = [clean EXCEPT ![a] = c]
          /\ ok' = [ok EXCEPT ![a] = o]
    /\ base' = [base EXCEPT ![a] = None]
    /\ Goto(a, "closing")
    /\ UNCHANGED <<row, snap, route, lease, live, native,
                   resetVars, transcript, claims, gone, hostVars>>

NativeExit(a) ==
    /\ native[a] = "running"
    /\ native' = [native EXCEPT ![a] = "dead"]
    /\ UNCHANGED <<row, pc, snap, route, base, lease, live, clean, ok,
                   resetVars, transcript, claims, gone, hostVars>>

(***************************************************************************)
(* Settlement: endAttempt, within what is left of the cleanup allowance.     *)
(***************************************************************************)
(* The whole result becomes a failure and the claim is left in the row: the  *)
(* allowance is used up, the lease of a successful attempt is no longer      *)
(* active, or the row does not parse.                                        *)
EndSkipped(a) ==
    /\ pc[a] = "closing"
    /\ ok' = [ok EXCEPT ![a] = FALSE]
    /\ Goto(a, "ended")
    /\ UNCHANGED <<row, snap, route, base, lease, live, native, clean,
                   resetVars, transcript, claims, gone, hostVars>>

(* Termination is uncertain: the lease is retired and the claim retained.    *)
EndRetains(a) ==
    /\ pc[a] = "closing"
    /\ ~clean[a]
    /\ Goto(a, "ended")
    /\ UNCHANGED <<row, snap, route, base, lease, live, native, clean, ok,
                   resetVars, transcript, claims, gone, hostVars>>

EndPrepare(a) ==
    /\ pc[a] = "closing"
    /\ clean[a]
    /\ ok[a] => LeaseActive(a)
    /\ Parses(row)
    /\ base' = [base EXCEPT ![a] = row]
    /\ Goto(a, "settling")
    /\ UNCHANGED <<row, snap, route, lease, live, native, clean, ok,
                   resetVars, transcript, claims, gone, hostVars>>

EndCommit(a) ==
    /\ pc[a] = "settling"
    /\ Unchanged(base[a])
    /\ StoreEnvelope(base[a], Ended(base[a], lease[a], a, route[a]))
    /\ base' = [base EXCEPT ![a] = None]
    /\ Goto(a, "settled")
    /\ UNCHANGED <<snap, route, lease, live, native, clean, ok,
                   resetVars, transcript, claims, hostVars>>

(* Mutant: the settlement commit is awaited without an allowance.            *)
EndTimesOutAfterCommit(a) ==
    /\ pc[a] = "settled"
    /\ ok' = [ok EXCEPT ![a] = FALSE]
    /\ Goto(a, "ended")
    /\ UNCHANGED <<row, snap, route, base, lease, live, native, clean,
                   resetVars, transcript, claims, gone, hostVars>>

EndTimesOut(a) ==
    /\ pc[a] \in Settling
    /\ base' = [base EXCEPT ![a] = None]
    /\ ok' = [ok EXCEPT ![a] = FALSE]
    /\ Goto(a, "ended")
    /\ UNCHANGED <<row, snap, route, lease, live, native, clean,
                   resetVars, transcript, claims, gone, hostVars>>

(* The settlement's answer arrives; a successful result is checked against   *)
(* the row before it is returned.                                            *)
EndReturn(a) ==
    /\ pc[a] = "settled"
    /\ ok' = [ok EXCEPT ![a] = @ /\ ResultCurrent(row, lease[a], a, route[a])]
    /\ Goto(a, "ended")
    /\ UNCHANGED <<row, snap, route, base, lease, live, native, clean,
                   resetVars, transcript, claims, gone, hostVars>>

(***************************************************************************)
(* Delivery: the harness checks the result once more, then appends it to the *)
(* host transcript in an awaited call.                                       *)
(***************************************************************************)
Admit(a) ==
    /\ pc[a] = "ended"
    /\ Goto(a, IF ok[a] /\ ResultCurrent(row, lease[a], a, route[a])
               THEN "appending" ELSE "failed")
    /\ UNCHANGED <<row, snap, route, base, lease, live, native, clean, ok,
                   resetVars, transcript, claims, gone, hostVars>>

AppendAnswer(a) ==
    /\ pc[a] = "appending"
    /\ transcript' = Append(transcript, a)
    /\ Goto(a, "done")
    /\ UNCHANGED <<row, snap, route, base, lease, live, native, clean, ok,
                   resetVars, claims, gone, hostVars>>

AppendRejected(a) ==
    /\ pc[a] = "appending"
    /\ Goto(a, "failed")
    /\ UNCHANGED <<row, snap, route, base, lease, live, native, clean, ok,
                   resetVars, transcript, claims, gone, hostVars>>

AttemptStep(a) ==
    \/ Resolve(a) \/ ClaimPrepare(a) \/ ClaimCommit(a) \/ ClaimLost(a) \/ ClaimReturn(a)
    \/ LaunchFence(a) \/ Spawn(a) \/ NotStarted(a)
    \/ InitResumed(a) \/ BindPrepare(a) \/ BindCommit(a) \/ BindReturn(a) \/ ProcessSettles(a)
    \/ EndSkipped(a) \/ EndRetains(a) \/ EndPrepare(a) \/ EndCommit(a)
    \/ EndTimesOut(a) \/ EndReturn(a)
    \/ Admit(a) \/ AppendAnswer(a) \/ AppendRejected(a)

(* The host aborts the attempt, its deadline passes or its owner goes away.  *)
Revoke(a) ==
    /\ live[a]
    /\ pc[a] \notin {"idle"} \cup Final
    /\ live' = [live EXCEPT ![a] = FALSE]
    /\ UNCHANGED <<row, pc, snap, route, base, lease, native, clean, ok,
                   resetVars, transcript, claims, gone, hostVars>>

(* The plugin process dies; its patch in flight dies with it, its native     *)
(* child and its durable claim do not.                                       *)
Crash(a) ==
    /\ pc[a] \notin {"idle"} \cup Final
    /\ Goto(a, "crashed")
    /\ base' = [base EXCEPT ![a] = None]
    /\ UNCHANGED <<row, snap, route, lease, live, native, clean, ok,
                   resetVars, transcript, claims, gone, hostVars>>

(***************************************************************************)
(* clear.                                                                   *)
(***************************************************************************)
RGoto(r, s) == rpc' = [rpc EXCEPT ![r] = s]

RetirePrepare(r) ==
    /\ rpc[r] = "idle"
    /\ IF MayRetire(row)
       THEN rbase' = [rbase EXCEPT ![r] = row] /\ RGoto(r, "retiring")
       ELSE RGoto(r, "failed") /\ UNCHANGED rbase
    /\ UNCHANGED <<row, attemptVars, transcript, claims, gone, hostVars>>

RetireCommit(r) ==
    /\ rpc[r] = "retiring"
    /\ Unchanged(rbase[r])
    /\ StoreEnvelope(rbase[r], Retired(rbase[r], r))
    /\ rbase' = [rbase EXCEPT ![r] = None]
    /\ RGoto(r, "draining")
    /\ UNCHANGED <<attemptVars, transcript, claims, hostVars>>

(* External: the host's cancelAndDrain answers once no native process of     *)
(* the session is left, in any plugin process.                               *)
Drained == \A a \in Attempts : ~Driving(a)

DrainCompletes(r) ==
    /\ rpc[r] = "draining"
    /\ Drained
    /\ RGoto(r, "drained")
    /\ UNCHANGED <<row, attemptVars, rbase, transcript, claims, gone, hostVars>>

ClearPrepare(r) ==
    /\ rpc[r] = "drained"
    /\ IF MayClear(row, r)
       THEN rbase' = [rbase EXCEPT ![r] = row] /\ RGoto(r, "clearing")
       ELSE RGoto(r, "failed") /\ UNCHANGED rbase
    /\ UNCHANGED <<row, attemptVars, transcript, claims, gone, hostVars>>

ClearCommit(r) ==
    /\ rpc[r] = "clearing"
    /\ Unchanged(rbase[r])
    /\ StoreEnvelope(rbase[r], Cleared(rbase[r]))
    /\ rbase' = [rbase EXCEPT ![r] = None]
    /\ RGoto(r, "done")
    /\ UNCHANGED <<attemptVars, transcript, claims, hostVars>>

(* Mutant: the budget does not cover the drain.                              *)
ResetFailsOutsideDrain(r) ==
    /\ rpc[r] \in {"retiring", "drained", "clearing"}
    /\ rbase' = [rbase EXCEPT ![r] = None]
    /\ RGoto(r, "failed")
    /\ UNCHANGED <<row, attemptVars, transcript, claims, gone, hostVars>>

(* The reset's budget of at most 6 s ends, its drain fails, a commit is      *)
(* refused, or its process dies: whatever it stored stays stored.            *)
ResetFails(r) ==
    /\ rpc[r] \in {"retiring", "draining", "drained", "clearing"}
    /\ rbase' = [rbase EXCEPT ![r] = None]
    /\ RGoto(r, "failed")
    /\ UNCHANGED <<row, attemptVars, transcript, claims, gone, hostVars>>

ResetStep(r) ==
    \/ RetirePrepare(r) \/ RetireCommit(r) \/ DrainCompletes(r)
    \/ ClearPrepare(r) \/ ClearCommit(r) \/ ResetFails(r)

(***************************************************************************)
(* External: the host deletes and recreates the row without plugin           *)
(* extensions (its own reset, or a deletion; the generation may be reused),  *)
(* or advances the lifecycle revision and leaves the extensions in place.    *)
(***************************************************************************)
HostRecreates(rev) ==
    /\ recreated < MaxRecreations
    /\ recreated' = recreated + 1
    /\ Store([rev |-> rev, env |-> None])
    /\ UNCHANGED <<attemptVars, resetVars, transcript, claims, revised>>

HostRevises(rev) ==
    /\ revised < MaxRevisions
    /\ revised' = revised + 1
    /\ Store([row EXCEPT !.rev = rev])
    /\ UNCHANGED <<attemptVars, resetVars, transcript, claims, recreated>>

Next ==
    \/ \E a \in Attempts : AttemptStep(a) \/ NativeExit(a) \/ Revoke(a) \/ Crash(a)
    \/ \E r \in Resets : ResetStep(r)
    \/ \E rev \in Revisions : HostRecreates(rev) \/ HostRevises(rev)

Spec == Init /\ [][Next]_vars
(***************************************************************************)
(* Fairness.  The awaits of an attempt are raced against its deadline, its   *)
(* cleanup allowance or the one second of its claim, so a handler is not     *)
(* stuck in them, except two that have no timer: the staging of the images,  *)
(* between the claim and the launch, and the append to the host transcript.  *)
(* Nothing is assumed of those.  A reset races all its work against one      *)
(* timer.  The native process, the host and the drain owe nothing.           *)
(***************************************************************************)
Untimed == {"leased", "appending"}

Fairness ==
    /\ \A a \in Attempts : WF_vars(pc[a] \notin Untimed /\ AttemptStep(a))
    /\ \A r \in Resets : WF_vars(ResetStep(r))

FairSpec == Spec /\ Fairness

-----------------------------------------------------------------------------
(* Every variable holds a value of its type.                                 *)
TypeOK ==
    /\ row \in Rows
    /\ pc \in [Attempts -> AttemptStates]
    /\ snap \in [Attempts -> Bindings \cup {None}]
    /\ route \in [Attempts -> Routes]
    /\ base \in [Attempts -> Rows \cup {None}]
    /\ lease \in [Attempts -> Leases \cup {None}]
    /\ live \in [Attempts -> BOOLEAN]
    /\ native \in [Attempts -> {"none", "running", "dead"}]
    /\ clean \in [Attempts -> BOOLEAN]
    /\ ok \in [Attempts -> BOOLEAN]
    /\ rpc \in [Resets -> ResetStates]
    /\ rbase \in [Resets -> Rows \cup {None}]
    /\ transcript \in Seq(Attempts)
    /\ claims \in Seq(Attempts)
    /\ gone \in SUBSET Epochs
    /\ recreated \in Nat
    /\ revised \in Nat

(* No sequence of claims, binds, settlements, resets, crashes and timeouts   *)
(* stores an envelope its own parser would reject; only the host's revision  *)
(* of the row can make one unreadable (parseEnvelope against the writers).   *)
EnvelopeWellFormed == row.env # None => WellFormed(row.env)

(* Unless the host throws the row away, no two native processes ever work    *)
(* for the session at once, whatever crashed, timed out or was left          *)
(* unsettled: an uncertain claim blocks its successor until a reset has      *)
(* drained it (beginAttempt, endAttempt, clear).                             *)
NativeExclusion ==
    recreated = 0 =>
        \A a, b \in Attempts : Driving(a) /\ Driving(b) => a = b

(* Even after the host recreates the row, no two native processes work on    *)
(* the same AGY conversation.                                                *)
NoSharedConversation ==
    \A a, b \in Attempts :
        a # b /\ Driving(a) /\ Driving(b) => Conversation(a) # Conversation(b)

(* A generation that was retired never comes back: a delayed commit prepared *)
(* before a reset or a recreation cannot resurrect it (no ABA).              *)
EpochNeverReturns == row.env # None => row.env.epoch \notin gone

(* An attempt resumes, or starts afresh, only on the binding the row holds   *)
(* at the moment of its last fence, however long ago it resolved it.         *)
ResumeMatchesRow ==
    [][\A a \in Attempts :
          pc[a] = "leased" /\ pc'[a] = "launching" => StoredBinding(row) = snap[a]]_vars

(* A sound binding leaves the row only when no native process works on its   *)
(* conversation any more (clear drains before its second commit).            *)
BindingDroppedWhenQuiet ==
    [][\A a \in Attempts :
          LET old == ConvOf(StoredBinding(row)) IN
          /\ old # None
          /\ row.env.rev = row.rev
          /\ row'.env # None
          /\ row'.env.binding = None
          => ~(Driving(a) /\ Conversation(a) = old)]_vars

(* The answer the harness goes on to deliver is that of the latest claim of  *)
(* a generation still standing, and the row binds the very conversation it   *)
(* came from (assertResultCurrent).                                          *)
ResultIsLatest ==
    [][\A a \in Attempts :
          pc[a] = "ended" /\ pc'[a] = "appending" =>
              /\ a = claims[Len(claims)]
              /\ lease[a].epoch \notin gone
              /\ ConvOf(StoredBinding(row)) = Conversation(a)]_vars

(* The generation fence of a final result holds at the host commit that      *)
(* delivers it (the comment on assertResultCurrent).                         *)
AppendWhileCurrent ==
    [][\A a \in Attempts :
          transcript' = Append(transcript, a) /\ transcript' # transcript
          => ResultCurrent(row, lease[a], a, route[a])]_vars

(* What the row and the attempts amount to for the abstract authority.       *)
Generation == IF row.env = None THEN None ELSE row.env.epoch
Sound == row.env # None => row.env.rev = row.rev
Closing == row.env # None /\ row.env.pending
BoundTo == ConvOf(StoredBinding(row))
Holder == IF row.env = None \/ row.env.active = None THEN None ELSE row.env.active.token
Winner == IF row.env = None \/ row.env.settled = None THEN None ELSE row.env.settled.token
Talks == [a \in Attempts |-> IF Driving(a) THEN Conversation(a) ELSE None]
Lost == recreated # 0
Admitted == {a \in Attempts : pc[a] = "appending"}

Authority == INSTANCE SessionAuthority WITH
    Generations <- Epochs, generation <- Generation, retired <- gone, sound <- Sound,
    closing <- Closing, bound <- BoundTo, holder <- Holder, winner <- Winner,
    talks <- Talks, lost <- Lost, admitted <- Admitted

(* Whatever is prepared on an old snapshot, times out or dies between two    *)
(* commits, the session is handed from one attempt to the next as the        *)
(* abstract authority says: patchSessionEntry and its fences implement it.   *)
KeepsAuthority == Authority!AuthoritySpec

(* Every attempt that begins returns, unless its process dies, or waits for  *)
(* ever in one of the two awaits without a timer: a patch the host never     *)
(* answers and a native process that never exits do not hold it.             *)
AttemptsSettle ==
    \A a \in Attempts :
        pc[a] # "idle" ~> (pc[a] \in Final \/ [](pc[a] \in Untimed))

(* Every reset that begins answers, even when its drain never does.          *)
ResetsSettle ==
    \A r \in Resets : rpc[r] # "idle" ~> rpc[r] \in ResetFinal
=============================================================================
