-------------------------- MODULE AttemptRun_proofs --------------------------
(***************************************************************************)
(* For any number of images and any output of the native program: what the   *)
(* attempt tells of itself is true, and its files outlive their readers.     *)
(***************************************************************************)
EXTENDS AttemptRun, TLAPS

Terminals == {"ok", "aborted", "timeout", "failed"}

(***************************************************************************)
(* What a report says, given the evidence and the snapshot it is made from.  *)
(***************************************************************************)
LEMMA EvidenceKept ==
    ASSUME NEW e \in Evidences, NEW s \in Snapshots
    PROVE  LET f == EvidenceForResult(e, s) IN
           /\ f \in Evidences
           /\ f.clean => e.clean
           /\ f.invocation = "not_started" => e.invocation = "not_started"
           /\ f.reason = e.reason /\ f.doubt = e.doubt
           /\ e.clean /\ e.contained # "not_started" => f.clean
  <1> DEFINE f == EvidenceForResult(e, s)
             observed == s.facts \/ s.tools \/ s.text # "none"
             stale == observed /\ e.contained = "not_started"
             inv == IF observed THEN "started" ELSE e.invocation
             eff == IF s.tools THEN "observed_possible"
                    ELSE IF observed /\ e.invocation = "not_started" /\ e.effects = "none_proven"
                    THEN "unknown" ELSE e.effects
             out == e.output \/ s.text # "none"
             con == IF stale THEN "unqualified" ELSE e.contained
             cle == e.clean /\ ~stale
  <1>1. /\ e = [invocation |-> e.invocation, effects |-> e.effects, output |-> e.output,
                reason |-> e.reason, doubt |-> e.doubt, contained |-> e.contained,
                clean |-> e.clean]
        /\ e.invocation \in {"not_started", "possible", "started"}
        /\ e.effects \in {"none_proven", "observed_possible", "unknown"}
        /\ e.reason \in {"aborted", "timeout", "other", None}
        /\ e.doubt \in {"timeout", "warning", None}
        /\ e.contained \in {"not_started", "group", "unqualified"}
    BY DEF Evidences
  <1>2. f = [invocation |-> inv, effects |-> eff, output |-> out, reason |-> e.reason,
             doubt |-> e.doubt, contained |-> con, clean |-> cle]
    <2>1. f = [[[[[e EXCEPT !.invocation = inv] EXCEPT !.effects = eff]
                 EXCEPT !.contained = con] EXCEPT !.clean = cle] EXCEPT !.output = out]
      BY <1>1 DEF EvidenceForResult
    <2> HIDE DEF f, inv, eff, out, con, cle
    <2> QED
      BY <1>1, <2>1
  <1>3. /\ inv \in {"not_started", "possible", "started"}
        /\ eff \in {"none_proven", "observed_possible", "unknown"}
        /\ con \in {"not_started", "group", "unqualified"}
    BY <1>1
  <1>4. out \in BOOLEAN /\ cle \in BOOLEAN
    OBVIOUS
  <1>5. /\ inv = "not_started" => e.invocation = "not_started"
        /\ cle => e.clean
        /\ e.clean /\ e.contained # "not_started" => cle
    BY <1>1
  <1> HIDE DEF f, inv, eff, out, con, cle
  <1>6. f \in Evidences
    BY <1>1, <1>2, <1>3, <1>4 DEF Evidences
  <1>7. f.invocation = inv /\ f.clean = cle /\ f.reason = e.reason /\ f.doubt = e.doubt
    BY <1>2
  <1> QED
    BY <1>5, <1>6, <1>7 DEF f

LEMMA RunEvidenceType ==
    ASSUME NEW s \in Snapshots, NEW t \in {"started", "not_started"}, NEW c \in BOOLEAN,
           NEW reason \in Kinds \cup {None}, NEW doubt \in {"timeout", "warning", None}
    PROVE  RunEvidence(t, c, s, reason, doubt) \in Evidences
  BY DEF RunEvidence, Evidences, Snapshots, Kinds

(* The result of a failure is never a success.                               *)
FailsAs(r, e) ==
    /\ r \in Reports
    /\ r.clean => e.clean
    /\ r.replaySafe => e.invocation = "not_started"
    /\ r.terminal # "ok" /\ r.kind # "completed"

LEMMA FailureSays ==
    ASSUME NEW e \in Evidences, NEW s \in Snapshots, NEW t \in Terminals
    PROVE  FailsAs(Failure(e, s, t), e)
  <1> DEFINE f == EvidenceForResult(e, s)
  <1>1. /\ f \in Evidences
        /\ f.clean => e.clean
        /\ f.invocation = "not_started" => e.invocation = "not_started"
    BY EvidenceKept
  <1> HIDE DEF f
  <1>2. KeptTerminal(f, t) \in Terminals \ {"ok"}
    BY DEF KeptTerminal, Normalize, Terminals
  <1>3. ASSUME NEW u \in Terminals \ {"ok"}
        PROVE  FailsAs(Report(u, f, s, FALSE), e)
    <2>1. f.clean \in BOOLEAN /\ ReplaySafe(f) \in BOOLEAN /\ Available(s) \in BOOLEAN
      BY <1>1 DEF Evidences, ReplaySafe, Available
    <2>2. Outcome(u, f, s) \in {"partial", "blocked", "timeout", "canceled", "failed"}
      BY DEF Outcome
    <2>3. ReplaySafe(f) => e.invocation = "not_started"
      BY <1>1 DEF ReplaySafe
    <2> QED
      BY <1>1, <2>1, <2>2, <2>3 DEF Report, Reports, FailsAs, Terminals
  <1> QED
    BY <1>2, <1>3 DEF Failure, f

(* The result of a run that returned is a success exactly if everything was. *)
LEMMA AnswerSays ==
    ASSUME Finalizes(acc), NEW s \in SnapshotsOf(acc), NEW e,
           e = RunEvidence("started", TRUE, s, None, None)
    PROVE  LET r == Answer(e, s) IN
           /\ r \in Reports
           /\ ~r.replaySafe
           /\ r.kind = "completed" <=> r.terminal = "ok"
           /\ r.terminal = "ok" => s.status = "SUCCESS" /\ ~s.denied /\ r.message
  <1> DEFINE f == EvidenceForResult(e, s)
             t == TerminalOf(s, f)
             ok == s.status = "SUCCESS" /\ ~s.denied
  <1>1. /\ s \in Snapshots
        /\ s.status # None
        /\ ok => s.text = "words"
    <2>1. /\ s \in Snapshots
          /\ IF acc.result = None THEN s.status = None
             ELSE IF acc.result.status = "SUCCESS" THEN s.status = "SUCCESS"
             ELSE s.status \in {"ERROR", "CANCELED"}
          /\ s.status = "SUCCESS" =>
                IF acc.result.empty THEN ~s.denied ELSE s.denied \/ s.text = "words"
      BY Zenon DEF SnapshotsOf
    <2>2. acc.result # None /\ ~(acc.result.status = "SUCCESS" /\ acc.result.empty)
      BY DEF Finalizes
    <2> QED
      BY <2>1, <2>2, NoneIsNoReason
  <1>2. e \in Evidences
    BY <1>1, RunEvidenceType
  <1>3. /\ e.clean /\ e.contained = "group" /\ e.reason = None /\ e.doubt = None
        /\ e.invocation = "started"
    BY DEF RunEvidence
  <1>4. /\ f \in Evidences
        /\ f.clean /\ f.reason = None /\ f.doubt = None
        /\ f.invocation # "not_started"
    BY <1>1, <1>2, <1>3, EvidenceKept
  <1> HIDE DEF f
  <1>5. ~TimedOut(f)
    BY <1>4, NoneIsNoReason DEF TimedOut
  <1>6. t \in Terminals /\ (t = "ok" <=> ok)
    <2>1. f.doubt # "warning" /\ s.status \in {"SUCCESS", "ERROR", "CANCELED"}
      BY <1>1, <1>4, NoneIsNoReason DEF Snapshots
    <2> QED
      BY <1>5, <2>1 DEF TerminalOf, Normalize, Terminals
  <1>7. ok => Outcome(t, f, s) = "completed"
    BY <1>4, <1>5, <1>6, NoneIsNoReason DEF Outcome
  <1>8. ~ok => Outcome(t, f, s) # "completed"
    BY <1>6 DEF Outcome
  <1>9. Outcome(t, f, s) \in {"completed", "partial", "blocked", "timeout", "canceled", "failed"}
    BY DEF Outcome
  <1> HIDE DEF t
  <1> DEFINE m == t = "ok" /\ Outcome(t, f, s) = "completed" /\ Available(s)
  <1>10. m \in BOOLEAN
    OBVIOUS
  <1>11. ok => m
    BY <1>1, <1>6, <1>7 DEF Available
  <1> HIDE DEF m
  <1>12. Answer(e, s) = Report(t, f, s, m)
    BY DEF Answer, f, t, m
  <1>13. ReplaySafe(f) = FALSE /\ f.clean \in BOOLEAN /\ Available(s) \in BOOLEAN
    BY <1>4 DEF ReplaySafe, Available
  <1>14. ASSUME NEW r, r = Report(t, f, s, m)
         PROVE  /\ r \in Reports
                /\ r.terminal = t /\ r.kind = Outcome(t, f, s)
                /\ ~r.replaySafe /\ r.message = m
    BY <1>6, <1>9, <1>13, <1>10, <1>14 DEF Report, Reports, Terminals
  <1> QED
    BY <1>6, <1>7, <1>8, <1>12, <1>14, <1>11

LEMMA UndeliveredSays ==
    ASSUME NEW r \in Reports
    PROVE  /\ Undelivered(r) \in Reports
           /\ Undelivered(r).clean = r.clean
           /\ ~Undelivered(r).replaySafe
           /\ Undelivered(r).terminal # "ok" /\ Undelivered(r).kind # "completed"
  BY DEF Undelivered, Reports

LEMMA FailureTerminals ==
    ASSUME NEW kind
    PROVE  FailureTerminal(kind) \in Terminals
  BY DEF FailureTerminal, Normalize, Terminals

-----------------------------------------------------------------------------
(***************************************************************************)
(* The native run.                                                          *)
(***************************************************************************)
RunInv ==
    /\ clean \in BOOLEAN
    /\ run = "ready" => ~born /\ ~living
    /\ living => born
    /\ run = "settled" => told = IF born THEN "started" ELSE "not_started"
    /\ run = "settled" /\ clean => ~living
    /\ run = "settled" /\ outcome = "returned" => clean /\ born /\ Finalizes(acc)

LEMMA RunInductive ==
    /\ RunInit => RunInv
    /\ RunInv /\ [RunNext]_runVars => RunInv'
  <1>1. RunInit => RunInv
    BY DEF RunInit, RunInv
  <1>2. ASSUME RunInv, [RunNext]_runVars PROVE RunInv'
    <2> USE <1>2
    <2>1. CASE Refuse
      BY <2>1 DEF RunInv, Refuse
    <2>2. CASE Start
      BY <2>2 DEF RunInv, Start
    <2>3. CASE LastEnds
      BY <2>3 DEF RunInv, LastEnds, Finalizes
    <2>4. CASE RunSettles
      BY <2>4 DEF RunInv, RunSettles, Finalizes
    <2>5. ASSUME NEW l \in Lines, TakeLine(l) PROVE RunInv'
      BY <2>5 DEF RunInv, TakeLine
    <2>6. CASE UNCHANGED runVars
      BY <2>6 DEF RunInv, runVars, Finalizes
    <2> QED
      BY <2>1, <2>2, <2>3, <2>4, <2>5, <2>6 DEF RunNext
  <1> QED
    BY <1>1, <1>2

-----------------------------------------------------------------------------
(***************************************************************************)
(* The attempt.                                                             *)
(***************************************************************************)
Early == {"preparing", "staging", "unstaging", "launching"}
Over == {"cleaning", "removing", "ending", "settling", "flushing", "delivering", "done"}

(* The native program runs in one place, and its files are there by then.    *)
Order ==
    /\ pc \in Early => run = "ready"
    /\ pc \in Over => run # "going"
    /\ pc \notin Over => evidence = FreshEvidence /\ snapshot = NoSnapshot
    /\ reading => published /\ born
    /\ published => pc \notin {"preparing", "staging", "unstaging"}
    /\ handle /\ ~published => run = "ready" /\ pc \in Over
    /\ pc = "preparing" => ~dir

(* The evidence doubts at least what is in doubt.                            *)
Evident ==
    pc \in Over =>
        /\ evidence.invocation = "not_started" => ~born
        /\ evidence.clean => ~living

(* A removal has begun only when nobody can come back to the files, and no   *)
(* directory is forgotten.                                                   *)
Files ==
    /\ removal = "in_progress" => pc \in Over \cup {"unstaging"} /\ ~living /\ ~reading
    /\ pc \in {"launching", "running", "cleaning", "removing"} /\ dir => handle
    /\ pc \in Over \ {"cleaning", "removing"} /\ evidence.clean => ~dir

(* What the result claims, the evidence bears out.                           *)
Reported ==
    pc \in Over =>
        /\ completed \in Reports
        /\ completed.clean => evidence.clean
        /\ completed.replaySafe => evidence.invocation = "not_started"

(* The session, and a result that is a success.                              *)
Lease ==
    /\ pc \in {"staging", "unstaging", "launching", "running"} => session = "claimed"
    /\ session \in {"released", "retained"}
          => pc \in {"settling", "flushing", "delivering", "done"}
    /\ session = "released" => evidence.clean
    /\ session = "retained" => ~evidence.clean

Success ==
    /\ outcome = "returned" /\ run = "settled"
    /\ snapshot.status = "SUCCESS" /\ ~snapshot.denied
    /\ completed.message /\ evidence.clean
    /\ session # "none"
    /\ pc \in {"flushing", "delivering", "done"} => session = "released"

Claimed ==
    pc \in Over =>
        /\ completed.kind = "completed" <=> completed.terminal = "ok"
        /\ completed.terminal = "ok" => Success

Inv == TypeOK /\ RunInv /\ Order /\ Evident /\ Files /\ Reported /\ Lease /\ Claimed

LEMMA FreshTypes ==
    /\ FreshEvidence \in Evidences /\ NoSnapshot \in Snapshots
    /\ FreshEvidence.invocation = "not_started" /\ FreshEvidence.clean
  BY DEF FreshEvidence, Evidences, NoSnapshot, Snapshots

LEMMA AttemptInit == Init => Inv
  <1> SUFFICES ASSUME Init PROVE Inv
    OBVIOUS
  <1>1. RunInv
    BY RunInductive DEF Init
  <1>2. TypeOK
    BY FreshTypes DEF Init, TypeOK, Steps
  <1> QED
    BY <1>1, <1>2 DEF Init, RunInit, Inv, Order, Evident, Files, Reported, Lease, Claimed, Early, Over

LEMMA RunKept ==
    ASSUME RunInv, [Next]_vars
    PROVE  RunInv'
  <1>1. Attempt => UNCHANGED runVars
    BY DEF Attempt, Prepare, StageBegins, StageImage, StageEnds, Launch, Collect,
       CleanImages, StopWaiting, EndLease, LeaseEnds, Settle, Flush, Deliver
  <1>2. Removed \/ NotRemoved \/ Retire \/ Expire \/ Read => UNCHANGED runVars
    BY DEF Removed, NotRemoved, Retire, Expire, Read
  <1>3. Done \/ UNCHANGED vars => UNCHANGED runVars
    BY DEF Done, vars
  <1>4. NativeStep => RunNext
    BY DEF NativeStep
  <1> QED
    BY <1>1, <1>2, <1>3, <1>4, RunInductive DEF Next

LEMMA FailsEarlySays ==
    ASSUME Inv, pc \in Early, FailsEarly
    PROVE  /\ pc' = "cleaning" /\ evidence' = FreshEvidence /\ snapshot' = NoSnapshot
           /\ FailsAs(completed', FreshEvidence)
  <1>1. evidence = FreshEvidence /\ snapshot = NoSnapshot
    BY DEF Inv, Order, Early, Over
  <1> QED
    BY <1>1, FailureSays, FailureTerminals, FreshTypes DEF FailsEarly, Fails

LEMMA ReplacedSays ==
    ASSUME Inv, pc \in Over, NEW e \in Evidences, Replaced(e)
    PROVE  FailsAs(completed', e)
  <1>1. completed \in Reports /\ snapshot \in Snapshots
    BY DEF Inv, Reported, TypeOK
  <1>2. completed.terminal \in Terminals
    BY <1>1 DEF Reports, Terminals
  <1> QED
    BY <1>1, <1>2, FailureSays DEF Replaced

LEMMA CleanupFailsSays ==
    ASSUME Inv, pc \in Over, CleanupFails
    PROVE  /\ pc' = "ending" /\ snapshot' = snapshot
           /\ evidence' \in Evidences /\ ~evidence'.clean
           /\ evidence'.invocation = evidence.invocation
           /\ FailsAs(completed', evidence')
  <1>1. evidence \in Evidences
    BY DEF Inv, TypeOK
  <1>2. /\ evidence' \in Evidences /\ ~evidence'.clean
        /\ evidence'.invocation = evidence.invocation
    BY <1>1 DEF CleanupFails, Evidences
  <1> QED
    BY <1>2, ReplacedSays DEF CleanupFails

(* What the run leaves behind, and the result made of it.                    *)
LEMMA CollectSays ==
    ASSUME Inv, Collect
    PROVE  /\ pc = "running" /\ run = "settled" /\ pc' = "cleaning"
           /\ evidence' \in Evidences /\ snapshot' \in Snapshots
           /\ evidence'.invocation = told /\ evidence'.clean = clean
           /\ completed' \in Reports
           /\ completed'.clean => evidence'.clean
           /\ completed'.replaySafe => evidence'.invocation = "not_started"
           /\ completed'.kind = "completed" <=> completed'.terminal = "ok"
           /\ completed'.terminal = "ok" =>
                 /\ outcome = "returned"
                 /\ snapshot'.status = "SUCCESS" /\ ~snapshot'.denied /\ completed'.message
                 /\ evidence'.clean
  <1>1. PICK s \in SnapshotsOf(acc), doubt \in {"timeout", None},
             kind \in Kinds \cup {"native_timeout"}, reason \in Kinds \cup {None} :
             LET e == RunEvidence(told, clean, s, reason, doubt) IN
             \/ /\ outcome = "returned" /\ reason = None /\ doubt = None
                /\ evidence' = e /\ snapshot' = s /\ pc' = "cleaning"
                /\ \/ completed' = Answer(e, s)
                   \/ completed' = Failure(e, s, "failed")
             \/ Fails(e, s, FailureTerminal(kind))
    BY DEF Collect
  <1> DEFINE e == RunEvidence(told, clean, s, reason, doubt)
  <1>2. pc = "running" /\ run = "settled"
    BY DEF Collect
  <1>3. clean \in BOOLEAN /\ told \in {"started", "not_started"}
    BY <1>2 DEF Inv, RunInv
  <1>4. s \in Snapshots
    BY DEF SnapshotsOf
  <1>5. e \in Evidences
    BY <1>3, <1>4, RunEvidenceType
  <1>6. e.invocation = told /\ e.clean = clean
    BY DEF RunEvidence
  <1>7. ASSUME outcome = "returned", reason = None, doubt = None, evidence' = e,
               snapshot' = s, completed' = Answer(e, s)
        PROVE  /\ completed' \in Reports
               /\ ~completed'.replaySafe /\ evidence'.clean
               /\ completed'.kind = "completed" <=> completed'.terminal = "ok"
               /\ completed'.terminal = "ok" =>
                     snapshot'.status = "SUCCESS" /\ ~snapshot'.denied /\ completed'.message
    <2>1. clean = TRUE /\ told = "started" /\ Finalizes(acc)
      BY <1>2, <1>3, <1>7 DEF Inv, RunInv
    <2>2. e = RunEvidence("started", TRUE, s, None, None)
      BY <1>7, <2>1
    <2>3. e.clean
      BY <1>6, <2>1
    <2> QED
      BY <1>7, <2>1, <2>2, <2>3, AnswerSays
  <1>8. ASSUME NEW t \in Terminals, completed' = Failure(e, s, t)
        PROVE  FailsAs(completed', e)
    BY <1>4, <1>5, <1>8, FailureSays
  <1> HIDE DEF e
  <1>9. CASE Fails(e, s, FailureTerminal(kind))
    <2>1. FailsAs(completed', e)
      BY <1>8, <1>9, FailureTerminals DEF Fails
    <2> QED
      BY <1>2, <1>4, <1>5, <1>6, <1>9, <2>1 DEF Fails, FailsAs
  <1>10. CASE /\ outcome = "returned" /\ reason = None /\ doubt = None
              /\ evidence' = e /\ snapshot' = s /\ pc' = "cleaning"
              /\ completed' = Answer(e, s)
    BY <1>2, <1>4, <1>5, <1>6, <1>7, <1>10
  <1>11. CASE /\ evidence' = e /\ snapshot' = s /\ pc' = "cleaning"
              /\ completed' = Failure(e, s, "failed")
    <2>1. FailsAs(completed', e)
      BY <1>8, <1>11 DEF Terminals
    <2> QED
      BY <1>2, <1>4, <1>5, <1>6, <1>11, <2>1 DEF FailsAs
  <1> QED
    BY <1>1, <1>9, <1>10, <1>11 DEF e

-----------------------------------------------------------------------------
(* Inv without what runVars alone decide.                                    *)
AttemptInv == TypeOK /\ Order /\ Evident /\ Files /\ Reported /\ Lease /\ Claimed

LEMMA SurroundingsKeep ==
    ASSUME Inv, RunInv', NativeStep \/ Retire \/ Expire \/ Read \/ UNCHANGED vars
    PROVE  AttemptInv'
  <1> USE DEF Inv, AttemptInv
  <1>1. CASE NativeStep
    <2>1. /\ run = "ready" => pc = "running"
          /\ pc \in Over => run' = run /\ outcome' = outcome /\ born' = born
          /\ living' => living \/ run = "ready"
          /\ born => born'
          /\ run' = "ready" => run = "ready"
      BY <1>1 DEF NativeStep, RunNext, Refuse, Start, LastEnds, RunSettles, TakeLine, Order,
         Over, RunInv
    <2>2. TypeOK' /\ Reported' /\ Lease'
      BY <1>1 DEF NativeStep, attemptVars, filesVars, resultVars, TypeOK, Reported, Lease, Over
    <2>3. Order' /\ Evident' /\ Files'
      BY <1>1, <2>1 DEF NativeStep, attemptVars, filesVars, resultVars, Order, Evident, Files,
         Over, Early, RunInv
    <2>4. Claimed'
      BY <1>1, <2>1 DEF NativeStep, attemptVars, filesVars, resultVars, Claimed, Success, Over
    <2> QED
      BY <2>2, <2>3, <2>4
  <1>2. CASE Retire \/ Expire \/ Read \/ UNCHANGED vars
    <2>1. /\ UNCHANGED <<runVars, pc, session, handle, filesVars, resultVars>>
          /\ owner' \in BOOLEAN /\ late' \in BOOLEAN /\ reading' \in BOOLEAN
          /\ reading' => reading \/ (living /\ published)
      <3>1. owner \in BOOLEAN /\ late \in BOOLEAN /\ reading \in BOOLEAN
        BY DEF TypeOK
      <3>2. CASE Retire
        BY <3>1, <3>2 DEF Retire
      <3>3. CASE Expire
        BY <3>1, <3>3 DEF Expire
      <3>4. CASE Read
        BY <3>1, <3>4 DEF Read
      <3>5. CASE UNCHANGED vars
        BY <3>1, <3>5 DEF vars, attemptVars
      <3> QED
        BY <1>2, <3>2, <3>3, <3>4, <3>5
    <2>2. TypeOK' /\ Reported' /\ Lease' /\ Evident'
      BY <2>1 DEF runVars, filesVars, resultVars, TypeOK, Reported, Lease, Evident
    <2>3. Order'
      BY <2>1 DEF runVars, filesVars, resultVars, Order, RunInv, Over, Early
    <2>4. Files'
      BY <2>1 DEF runVars, filesVars, Files, resultVars
    <2>5. Claimed'
      BY <2>1 DEF runVars, filesVars, resultVars, Claimed, Success
    <2> QED
      BY <2>2, <2>3, <2>4, <2>5
  <1> QED
    BY <1>1, <1>2

(* What an early failure leaves true, given what is left on the disk.        *)
LEMMA FailsEarlyKeeps ==
    ASSUME Inv, pc \in Early, FailsEarly,
           UNCHANGED <<runVars, owner, unwritten, published, reading, late>>,
           session' \in {"none", "claimed"},
           dir' \in BOOLEAN, handle' \in BOOLEAN, dir' => handle', handle => handle',
           removal' \in {"pending", "blocked", "failed", "complete"}
    PROVE  AttemptInv'
  <1> USE DEF Inv, AttemptInv
  <1>1. /\ pc' = "cleaning" /\ evidence' = FreshEvidence /\ snapshot' = NoSnapshot
        /\ FailsAs(completed', FreshEvidence)
    BY FailsEarlySays
  <1>2. completed' \in Reports
    BY <1>1 DEF FailsAs
  <1>3. run = "ready" /\ ~born /\ ~living /\ ~reading
    BY DEF Order, RunInv
  <1>4. TypeOK' /\ Reported'
    BY <1>1, <1>2, FreshTypes DEF TypeOK, Steps, Reported, FailsAs
  <1>5. Order'
    BY <1>1, <1>3 DEF runVars, Order, Over, Early
  <1>6. Evident' /\ Files'
    BY <1>1, <1>3 DEF runVars, Evident, Files, Over
  <1>7. Lease' /\ Claimed'
    BY <1>1 DEF Lease, Claimed, FailsAs, Over
  <1> QED
    BY <1>4, <1>5, <1>6, <1>7

LEMMA PreparationKeeps ==
    ASSUME Inv, Prepare \/ StageBegins \/ StageImage \/ StageEnds \/ Launch
    PROVE  AttemptInv'
  <1> USE DEF Inv, AttemptInv
  <1>0. /\ dir \in BOOLEAN /\ handle \in BOOLEAN
        /\ removal \in {"pending", "blocked", "failed", "complete", "in_progress"}
    BY DEF TypeOK
  <1>1. ASSUME pc \in {"preparing", "staging", "launching"}, FailsEarly, ~dir \/ handle,
               UNCHANGED <<runVars, owner, handle, reading, late, filesVars>>,
               session' \in {"none", "claimed"}
        PROVE  AttemptInv'
    <2>1. pc \in Early /\ removal # "in_progress"
      BY <1>1 DEF Files, Early, Over
    <2>2. UNCHANGED <<runVars, owner, unwritten, published, reading, late>>
      BY <1>1 DEF filesVars
    <2>3. /\ dir' \in BOOLEAN /\ handle' \in BOOLEAN
          /\ dir' => handle'
          /\ handle => handle'
          /\ removal' \in {"pending", "blocked", "failed", "complete"}
      BY <1>0, <1>1, <2>1 DEF filesVars
    <2> HIDE DEF Inv, AttemptInv
    <2> QED
      BY <1>1, <2>1, <2>2, <2>3, FailsEarlyKeeps
  <1>2. CASE Prepare
    <2>1. CASE FailsEarly /\ session' \in {"none", "claimed"}
      BY <1>1, <1>2, <2>1 DEF Prepare, Order
    <2>2. CASE session' = "claimed" /\ pc' = "staging" /\ UNCHANGED resultVars
      <3>1. pc = "preparing" /\ ~dir /\ ~published /\ removal # "in_progress"
        BY <1>2 DEF Prepare, Order, Files, Over
      <3>2. UNCHANGED <<runVars, owner, handle, reading, late, filesVars>>
        BY <1>2 DEF Prepare
      <3>3. TypeOK' /\ Reported' /\ Lease'
        BY <2>2, <3>1, <3>2 DEF filesVars, resultVars, TypeOK, Steps, Reported, Lease, Over
      <3>4. Order' /\ Evident' /\ Files' /\ Claimed'
        BY <2>2, <3>1, <3>2 DEF runVars, filesVars, resultVars, Order, Evident, Files, Claimed,
           Over, Early
      <3> QED
        BY <3>3, <3>4
    <2> QED
      BY <1>2, <2>1, <2>2 DEF Prepare
  <1>3. CASE StageBegins
    <2>1. pc = "staging" /\ ~dir /\ session = "claimed" /\ removal # "in_progress"
      BY <1>3 DEF StageBegins, Lease, Files, Over
    <2>2. UNCHANGED <<runVars, owner, session, unwritten, published, handle, removal, reading, late>>
      BY <1>3 DEF StageBegins
    <2>3. CASE FailsEarly /\ UNCHANGED dir
      BY <1>1, <2>1, <2>2, <2>3 DEF filesVars
    <2>4. CASE /\ UNCHANGED resultVars
               /\ \/ pc' = "launching" /\ UNCHANGED dir
                  \/ dir' = TRUE /\ UNCHANGED pc
      <3>1. pc' \in {"staging", "launching"} /\ dir' \in BOOLEAN /\ (pc' = "launching" => ~dir')
        <4>1. CASE pc' = "launching" /\ UNCHANGED dir
          BY <1>0, <2>1, <4>1
        <4>2. CASE dir' = TRUE /\ UNCHANGED pc
          BY <2>1, <4>2
        <4> QED
          BY <2>4, <4>1, <4>2
      <3>2. TypeOK' /\ Reported' /\ Lease'
        BY <2>1, <2>2, <2>4, <3>1 DEF resultVars, TypeOK, Steps, Reported, Lease, Over
      <3>3. Order' /\ Evident' /\ Files' /\ Claimed'
        BY <2>1, <2>2, <2>4, <3>1 DEF runVars, resultVars, Order, Evident, Files, Claimed,
           Over, Early
      <3> QED
        BY <3>2, <3>3
    <2> QED
      BY <1>3, <2>3, <2>4 DEF StageBegins
  <1>4. CASE StageImage
    <2>1. /\ pc = "staging" /\ session = "claimed" /\ run = "ready"
          /\ ~born /\ ~living /\ ~reading
      BY <1>4 DEF StageImage, Lease, Order, Early, RunInv
    <2>2. /\ UNCHANGED <<runVars, owner, session, dir, published, handle, reading, late, resultVars>>
          /\ \/ pc' = "staging" /\ removal' = removal
             \/ pc' = "unstaging" /\ removal' = "in_progress"
          /\ unwritten' \in 0..MaxImages
      BY <1>4, MaxImagesIsNat DEF StageImage, TypeOK
    <2>3. TypeOK' /\ Reported' /\ Lease'
      BY <2>1, <2>2 DEF resultVars, TypeOK, Steps, Reported, Lease, Over
    <2>4. Order' /\ Evident' /\ Files' /\ Claimed'
      BY <2>1, <2>2 DEF runVars, resultVars, Order, Evident, Files, Claimed, Over, Early
    <2> QED
      BY <2>3, <2>4
  <1>5. CASE StageEnds
    <2>1. pc = "staging" /\ session = "claimed" /\ run = "ready" /\ removal # "in_progress"
      BY <1>5 DEF StageEnds, Lease, Order, Early, Files, Over
    <2>2. TypeOK' /\ Reported' /\ Lease'
      BY <1>5, <2>1 DEF StageEnds, resultVars, TypeOK, Steps, Reported, Lease, Over
    <2>3. Order' /\ Evident' /\ Files' /\ Claimed'
      BY <1>5, <2>1 DEF StageEnds, runVars, resultVars, Order, Evident, Files, Claimed, Over, Early
    <2> QED
      BY <2>2, <2>3
  <1>6. CASE Launch
    <2>1. pc = "launching" /\ session = "claimed" /\ (~dir \/ handle)
      BY <1>6 DEF Launch, Lease, Files
    <2>2. UNCHANGED <<runVars, owner, session, handle, reading, late, filesVars>>
      BY <1>6 DEF Launch
    <2>3. CASE FailsEarly
      BY <1>1, <2>1, <2>2, <2>3
    <2>4. CASE pc' = "running" /\ UNCHANGED resultVars
      <3>1. TypeOK' /\ Reported' /\ Lease'
        BY <2>1, <2>2, <2>4 DEF filesVars, resultVars, TypeOK, Steps, Reported, Lease, Over
      <3>2. Order' /\ Evident' /\ Files' /\ Claimed'
        BY <2>1, <2>2, <2>4 DEF runVars, filesVars, resultVars, Order, Evident, Files, Claimed,
           Over, Early
      <3> QED
        BY <3>1, <3>2
    <2> QED
      BY <1>6, <2>3, <2>4 DEF Launch
  <1> QED
    BY <1>2, <1>3, <1>4, <1>5, <1>6

LEMMA CollectKeeps ==
    ASSUME Inv, Collect
    PROVE  AttemptInv'
  <1> USE DEF Inv, AttemptInv
  <1>1. UNCHANGED <<runVars, owner, session, handle, reading, late, filesVars>>
    BY DEF Collect
  <1>2. pc = "running" /\ run = "settled" /\ session = "claimed"
    BY CollectSays DEF Lease
  <1>3. TypeOK' /\ Reported' /\ Lease'
    BY <1>1, <1>2, CollectSays DEF filesVars, TypeOK, Steps, Reported, Lease, Over
  <1>4. Evident' /\ Claimed'
    BY <1>1, <1>2, CollectSays DEF runVars, Evident, Claimed, Success, RunInv
  <1>5. Order' /\ Files'
    BY <1>1, <1>2, CollectSays DEF runVars, filesVars, Order, Files, Over, Early
  <1> QED
    BY <1>3, <1>4, <1>5

(* What a failed cleanup leaves true, given what has become of the removal.  *)
LEMMA CleanupFailsKeeps ==
    ASSUME Inv, pc \in {"cleaning", "removing"}, CleanupFails,
           UNCHANGED <<runVars, owner, session, unwritten, dir, published, handle, reading, late>>,
           removal' = removal \/ removal' \in {"blocked", "failed"}
    PROVE  AttemptInv'
  <1> USE DEF Inv, AttemptInv
  <1>1. /\ pc' = "ending" /\ snapshot' = snapshot
        /\ evidence' \in Evidences /\ ~evidence'.clean
        /\ evidence'.invocation = evidence.invocation
        /\ FailsAs(completed', evidence')
    BY CleanupFailsSays DEF Over
  <1>2. TypeOK' /\ Reported'
    BY <1>1 DEF TypeOK, Steps, Reported, FailsAs
  <1>3. Lease' /\ Claimed'
    BY <1>1 DEF Lease, Claimed, FailsAs
  <1>4. Order' /\ Evident' /\ Files'
    BY <1>1 DEF runVars, Order, Evident, Files, Over, Early
  <1> QED
    BY <1>2, <1>3, <1>4

LEMMA CleanupKeeps ==
    ASSUME Inv, CleanImages \/ StopWaiting
    PROVE  AttemptInv'
  <1> USE DEF Inv, AttemptInv
  <1>1. pc \in {"cleaning", "removing"}
    BY DEF CleanImages, StopWaiting
  <1>2. UNCHANGED <<runVars, owner, session, unwritten, dir, published, handle, reading, late>>
    BY DEF CleanImages, StopWaiting, filesVars
  <1>3. CASE CleanupFails /\ (removal' = removal \/ removal' = "blocked")
    <2> HIDE DEF Inv, AttemptInv
    <2> QED
      BY <1>1, <1>2, <1>3, CleanupFailsKeeps
  <1>4. CASE /\ pc = "cleaning" /\ UNCHANGED resultVars
             /\ \/ ~handle /\ pc' = "ending" /\ removal' = removal
                \/ /\ handle /\ (~published \/ ReadersSettled)
                   /\ pc' = "removing" /\ removal' = "in_progress"
    <2>1. pc' = "removing" => ~living /\ ~reading
      BY <1>4 DEF ReadersSettled, Evident, Order, RunInv, Over
    <2>2. pc' = "ending" => ~dir /\ removal' = removal
      BY <1>4 DEF Files
    <2>3. pc' \in {"ending", "removing"} /\ removal' \in {removal, "in_progress"}
      BY <1>4
    <2>4. TypeOK' /\ Reported' /\ Lease'
      BY <1>2, <1>4, <2>3 DEF resultVars, TypeOK, Steps, Reported, Lease, Over
    <2>5. Evident' /\ Claimed'
      BY <1>2, <1>4, <2>3 DEF runVars, resultVars, Evident, Claimed, Success, Over
    <2>6. Order'
      BY <1>2, <1>4, <2>3 DEF runVars, resultVars, Order, Over, Early
    <2>7. Files'
      BY <1>2, <1>4, <2>1, <2>2, <2>3 DEF runVars, resultVars, Files, Over
    <2> QED
      BY <2>4, <2>5, <2>6, <2>7
  <1> QED
    BY <1>3, <1>4 DEF CleanImages, StopWaiting, filesVars

(* The file system's answer to a removal.                                    *)
LEMMA AnswerKeeps ==
    ASSUME Inv, Removed \/ NotRemoved
    PROVE  AttemptInv'
  <1> USE DEF Inv, AttemptInv
  <1>1. /\ removal = "in_progress"
        /\ pc \in Over \cup {"unstaging"} /\ ~living /\ ~reading
        /\ UNCHANGED <<runVars, owner, session, unwritten, published, reading, late>>
        /\ removal' \in {"complete", "failed"}
        /\ Removed => dir' = FALSE /\ handle' = handle
        /\ NotRemoved => dir' = dir
    BY DEF Removed, NotRemoved, Files
  <1>2. dir \in BOOLEAN /\ handle \in BOOLEAN
    BY DEF TypeOK
  <1>3. CASE pc = "unstaging"
    <2>1. FailsEarly
      BY <1>3 DEF Removed, NotRemoved, Awaiting
    <2>2. dir' \in BOOLEAN /\ handle' \in BOOLEAN
      BY <1>1, <1>2, <1>3 DEF Removed, NotRemoved, Awaiting
    <2>3. (dir' => handle') /\ (handle => handle')
      BY <1>1, <1>3 DEF Removed, NotRemoved, Awaiting
    <2>4. session' \in {"none", "claimed"} /\ pc \in Early
      BY <1>1, <1>3 DEF Lease, Early
    <2> HIDE DEF Inv, AttemptInv
    <2> QED
      BY <1>1, <2>1, <2>2, <2>3, <2>4, FailsEarlyKeeps
  <1>4. CASE pc = "removing" /\ NotRemoved
    <2>1. CleanupFails /\ UNCHANGED <<handle, dir>>
      BY <1>1, <1>4 DEF NotRemoved, Awaiting
    <2>2. removal' = "failed"
      BY <1>4 DEF NotRemoved
    <2> HIDE DEF Inv, AttemptInv
    <2> QED
      BY <1>1, <1>4, <2>1, <2>2, CleanupFailsKeeps
  <1>5. CASE pc # "unstaging" /\ ~(pc = "removing" /\ NotRemoved)
    <2>1. /\ UNCHANGED <<handle, resultVars>>
          /\ pc \in Over /\ pc' = IF pc = "removing" THEN "ending" ELSE pc
          /\ pc = "removing" => dir' = FALSE
          /\ dir' => dir
          /\ dir' \in BOOLEAN
      <3>1. CASE Removed
        BY <1>1, <1>5, <3>1 DEF Removed, Awaiting
      <3>2. CASE NotRemoved
        BY <1>1, <1>2, <1>5, <3>2 DEF NotRemoved, Awaiting
      <3> QED
        BY <3>1, <3>2
    <2>2. TypeOK' /\ Reported' /\ Lease'
      BY <1>1, <2>1 DEF resultVars, TypeOK, Steps, Reported, Lease, Over
    <2>3. Evident' /\ Claimed'
      BY <1>1, <2>1 DEF runVars, resultVars, Evident, Claimed, Success, Over
    <2>4. Order' /\ Files'
      BY <1>1, <2>1 DEF runVars, resultVars, Order, Files, Over, Early
    <2> QED
      BY <2>2, <2>3, <2>4
  <1> QED
    BY <1>3, <1>4, <1>5

LEMMA EndingKeeps ==
    ASSUME Inv, EndLease \/ LeaseEnds \/ Settle \/ Flush \/ Deliver \/ Done
    PROVE  AttemptInv'
  <1> USE DEF Inv, AttemptInv
  <1>1. /\ UNCHANGED <<runVars, owner, handle, reading, late, filesVars, evidence, snapshot>>
        /\ pc \in {"ending", "settling", "flushing", "delivering", "done"}
        /\ pc' \in {"settling", "flushing", "delivering", "done"}
    BY DEF EndLease, LeaseEnds, Settle, Flush, Deliver, Done, vars, attemptVars, resultVars
  <1>2. evidence \in Evidences /\ completed \in Reports /\ evidence.clean \in BOOLEAN
    BY <1>1 DEF Reported, TypeOK, Over, Evidences
  <1>3. Order' /\ Evident' /\ Files'
    BY <1>1 DEF runVars, filesVars, Order, Evident, Files, Over, Early
  <1>4. \/ FailsAs(completed', evidence)
        \/ completed' = completed
    <2>1. Replaced(evidence) => FailsAs(completed', evidence)
      <3> HIDE DEF Inv
      <3> QED
        BY <1>1, <1>2, ReplacedSays DEF Over
    <2>2. completed' = Undelivered(completed) => FailsAs(completed', evidence)
      BY <1>1, <1>2, UndeliveredSays DEF FailsAs, Reported, Over
    <2> QED
      BY <2>1, <2>2 DEF EndLease, LeaseEnds, Settle, Flush, Deliver, Done, vars, attemptVars,
         resultVars
  <1>5. Reported'
    BY <1>1, <1>4 DEF Reported, FailsAs, Over
  <1>6. Lease'
    BY <1>1, <1>2 DEF Lease, EndLease, LeaseEnds, Settle, Flush, Deliver, Done, vars, attemptVars
  <1>7. TypeOK'
    BY <1>1, <1>2, <1>4, <1>6 DEF filesVars, TypeOK, Steps, FailsAs, EndLease, LeaseEnds, Settle,
       Flush, Deliver, Done, vars, attemptVars
  <1>8. Claimed'
    <2>1. CASE FailsAs(completed', evidence)
      BY <2>1 DEF Claimed, FailsAs
    <2>2. CASE completed' = completed /\ completed.terminal # "ok"
      BY <1>1, <2>2 DEF Claimed, Over
    <2>3. CASE completed' = completed /\ completed.terminal = "ok" /\ ~FailsAs(completed', evidence)
      <3>1. Success /\ completed.kind = "completed"
        BY <1>1, <2>3 DEF Claimed, Over
      <3>2. session' # "none" /\ (pc' # "settling" => session' = "released")
        <4>1. session # "none" /\ evidence.clean
          BY <3>1 DEF Success
        <4>2. ~Replaced(evidence)
          BY <1>4, <2>3, <1>1, <1>2, ReplacedSays DEF Over
        <4>3. CASE EndLease
          BY <4>1, <4>2, <4>3 DEF EndLease
        <4>4. CASE LeaseEnds
          BY <4>4 DEF LeaseEnds
        <4>5. CASE Settle
          BY <4>1, <4>2, <4>5, <1>1 DEF Settle, Lease, TypeOK
        <4>6. CASE Flush \/ Deliver \/ Done
          BY <3>1, <4>6 DEF Success, Flush, Deliver, Done, vars, attemptVars
        <4> QED
          BY <4>3, <4>4, <4>5, <4>6
      <3> QED
        BY <1>1, <2>3, <3>1, <3>2 DEF Claimed, Success, runVars
    <2> QED
      BY <1>4, <2>1, <2>2, <2>3
  <1> QED
    BY <1>3, <1>5, <1>6, <1>7, <1>8

LEMMA InvInductive ==
    /\ Init => Inv
    /\ Inv /\ [Next]_vars => Inv'
  <1>1. ASSUME Inv, [Next]_vars PROVE Inv'
    <2>1. RunInv'
      BY <1>1, RunKept DEF Inv
    <2>2. AttemptInv'
      BY <1>1, <2>1, SurroundingsKeep, PreparationKeeps, CollectKeeps, CleanupKeeps, AnswerKeeps,
         EndingKeeps DEF Next, Attempt
    <2> QED
      BY <2>1, <2>2 DEF Inv, AttemptInv
  <1> QED
    BY <1>1, AttemptInit

-----------------------------------------------------------------------------
(* Every record the attempt hands out keeps its type (TypeOK).               *)
THEOREM AttemptTypeCorrect == Spec => []TypeOK
  <1>1. Inv => TypeOK
    BY DEF Inv
  <1> QED
    BY <1>1, InvInductive, PTL DEF Spec

(* A result that calls the attempt safe to replay comes from one that never  *)
(* started a native process (ReplaySafeIsTrue).                              *)
THEOREM ReplayIsSafe == Spec => []ReplaySafeIsTrue
  <1>1. Inv => ReplaySafeIsTrue
    BY DEF Inv, ReplaySafeIsTrue, Reported, Evident, Over
  <1> QED
    BY <1>1, InvInductive, PTL DEF Spec

(* Clean results and released sessions leave nothing behind                  *)
(* (NothingLeftUnsaid).                                                      *)
THEOREM CleanMeansClean == Spec => []NothingLeftUnsaid
  <1>1. Inv => NothingLeftUnsaid
    BY DEF Inv, NothingLeftUnsaid, Reported, Evident, Files, Lease, Over
  <1> QED
    BY <1>1, InvInductive, PTL DEF Spec

(* What is reported completed is complete in every respect                   *)
(* (CompletedIsComplete).                                                    *)
THEOREM CompletionIsComplete == Spec => []CompletedIsComplete
  <1>1. Inv => CompletedIsComplete
    BY DEF Inv, CompletedIsComplete, Claimed, Success, Evident, Files, Over
  <1> QED
    BY <1>1, InvInductive, PTL DEF Spec

(* Staged images are never removed under whoever may still read them         *)
(* (FilesOutliveReaders).                                                    *)
THEOREM FilesAreNotPulledAway == Spec => FilesOutliveReaders
  <1>1. Inv /\ [Next]_vars => [dir /\ ~dir' => ~living /\ ~reading]_vars
    <2> SUFFICES ASSUME Inv, Next, dir, ~dir'
                 PROVE  ~living /\ ~reading
      BY DEF vars
    <2>1. ~Removed => UNCHANGED dir \/ dir' = TRUE
      <3>1. Attempt => UNCHANGED dir \/ dir' = TRUE
        BY DEF Attempt, Prepare, StageBegins, StageImage, StageEnds, Launch, Collect, CleanImages,
           StopWaiting, EndLease, LeaseEnds, Settle, Flush, Deliver, filesVars
      <3>2. NotRemoved \/ NativeStep \/ Retire \/ Expire \/ Read \/ Done
               => UNCHANGED dir
        BY DEF NotRemoved, NativeStep, Retire, Expire, Read, Done, vars, attemptVars, filesVars
      <3> QED
        BY <3>1, <3>2 DEF Next
    <2>2. Removed => ~living /\ ~reading
      BY DEF Removed, Inv, Files
    <2> QED
      BY <2>1, <2>2
  <1> QED
    BY <1>1, InvInductive, PTL DEF Spec, FilesOutliveReaders
=============================================================================
