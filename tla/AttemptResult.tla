---------------------------- MODULE AttemptResult ----------------------------
(***************************************************************************)
(* What one attempt tells the host: the evidence of its native run, the       *)
(* terminal and outcome derived from evidence and snapshot, and whether the   *)
(* host may run the attempt again (src/src/harness/result.ts,                 *)
(* src/src/cli/attempt-evidence.ts).  Operators only.                         *)
(*                                                                         *)
(* Texts are absent, blank or words.  Usage, messages to the user, tool and   *)
(* item lists and the fields that are always empty are left out.              *)
(***************************************************************************)
EXTENDS AgyStreamEvents, Naturals

ASSUME NoneIsNoReason ==
    None \notin {"SUCCESS", "ERROR", "CANCELED", "aborted", "timeout", "other", "warning"}

Snapshots ==
    [facts : BOOLEAN, tools : BOOLEAN, text : {"none", "blank", "words"},
     status : {"SUCCESS", "ERROR", "CANCELED", None}, denied : BOOLEAN]

(* No snapshot, and one of a run that accepted no event, tell the same.       *)
NoSnapshot ==
    [facts |-> FALSE, tools |-> FALSE, text |-> "none", status |-> None, denied |-> FALSE]

(* What an accumulator's snapshot may show.  A denied action is not an empty  *)
(* result; one that is neither empty nor denied has a response.               *)
SnapshotsOf(acc) ==
    {s \in Snapshots :
        /\ s.facts = (acc.conv # None)
        /\ s.tools = \E i \in 1..Len(acc.updates) : acc.updates[i].type = "tool"
        /\ IF acc.result = None THEN s.status = None
           ELSE IF acc.result.status = "SUCCESS" THEN s.status = "SUCCESS"
           ELSE s.status \in {"ERROR", "CANCELED"}
        /\ s.text # "none" =>
              \/ acc.result # None
              \/ \E i \in 1..Len(acc.updates) : acc.updates[i].type = "agent_response"
        /\ s.denied => acc.result # None
        /\ s.status = "SUCCESS" =>
              IF acc.result.empty THEN ~s.denied ELSE s.denied \/ s.text = "words"}

Evidences ==
    [invocation : {"not_started", "possible", "started"},
     effects : {"none_proven", "observed_possible", "unknown"}, output : BOOLEAN,
     reason : {"aborted", "timeout", "other", None}, doubt : {"timeout", "warning", None},
     contained : {"not_started", "group", "unqualified"}, clean : BOOLEAN]

(* Before the native runner is entered.                                       *)
FreshEvidence ==
    [invocation |-> "not_started", effects |-> "none_proven", output |-> FALSE,
     reason |-> None, doubt |-> None, contained |-> "not_started", clean |-> TRUE]

(* What the native runner leaves behind.                                      *)
RunEvidence(told, clean, s, reason, doubt) ==
    [invocation |-> told,
     effects |-> IF s.tools THEN "observed_possible"
                 ELSE IF told = "started" THEN "unknown" ELSE "none_proven",
     output |-> s.facts, reason |-> reason, doubt |-> doubt,
     contained |-> IF told = "started" THEN "group" ELSE "not_started", clean |-> clean]

(* The observations of an invocation outweigh a record from before it.        *)
EvidenceForResult(e, s) ==
    LET observed == s.facts \/ s.tools \/ s.text # "none"
        stale == observed /\ e.contained = "not_started"
    IN  [e EXCEPT
            !.invocation = IF observed THEN "started" ELSE @,
            !.effects = IF s.tools THEN "observed_possible"
                        ELSE IF observed /\ e.invocation = "not_started" /\ @ = "none_proven"
                        THEN "unknown" ELSE @,
            !.contained = IF stale THEN "unqualified" ELSE @,
            !.clean = @ /\ ~stale,
            !.output = @ \/ s.text # "none"]

(* Mutant: what was not seen to happen did not happen.                       *)
ReplaySafeUnlessSeen(e) == e.effects # "observed_possible" /\ ~e.output

(* isReplaySafe.  deliveredOutput is left out: only a consumer of the run's    *)
(* output can mark it, and then there was a process.                          *)
ReplaySafe(e) == e.invocation = "not_started" /\ e.effects = "none_proven" /\ ~e.output

-----------------------------------------------------------------------------
(* normalizeTerminalFallback: a timeout prevails, then an abort.              *)
Normalize(aborted, timedOut, failed) ==
    IF timedOut THEN "timeout" ELSE IF aborted THEN "aborted" ELSE IF failed THEN "failed" ELSE "ok"

TimedOut(e) == e.doubt = "timeout" \/ e.reason = "timeout"

(* A snapshot whose stream was complete.                                      *)
TerminalOf(s, e) ==
    Normalize(s.status = "CANCELED" /\ e.doubt # "warning", TimedOut(e),
              e.doubt = "warning" \/ s.status = "ERROR" \/ s.denied)

FailureTerminal(kind) ==
    Normalize(kind \in {"aborted", "timeout", "native_timeout"},
              kind \in {"timeout", "native_timeout"}, TRUE)

(* A failure keeps the terminal it is given unless that is success.           *)
KeptTerminal(e, terminal) ==
    IF terminal # "ok" THEN terminal ELSE Normalize(FALSE, TimedOut(e), TRUE)

Available(s) == s.text = "words"

Outcome(terminal, e, s) ==
    IF terminal = "timeout" \/ TimedOut(e) THEN "timeout"
    ELSE IF terminal = "aborted" \/ e.reason = "aborted" \/ s.status = "CANCELED" THEN "canceled"
    ELSE IF terminal = "ok" /\ ~s.denied THEN "completed"
    ELSE IF Available(s) THEN "partial"
    ELSE IF s.denied \/ e.invocation = "not_started" THEN "blocked"
    ELSE "failed"

Report(terminal, e, s, message) ==
    [terminal |-> terminal, kind |-> Outcome(terminal, e, s), replaySafe |-> ReplaySafe(e),
     clean |-> e.clean, message |-> message, available |-> Available(s)]

Reports ==
    [terminal : {"ok", "aborted", "timeout", "failed"},
     kind : {"completed", "partial", "blocked", "timeout", "canceled", "failed"},
     replaySafe : BOOLEAN, clean : BOOLEAN, message : BOOLEAN, available : BOOLEAN]

(* The result of a run that returned its snapshot.                            *)
Answer(source, s) ==
    LET e == EvidenceForResult(source, s)
        terminal == TerminalOf(s, e)
        complete == terminal = "ok" /\ Outcome(terminal, e, s) = "completed"
    IN  Report(terminal, e, s, complete /\ Available(s))

(* The result of everything else.                                             *)
Failure(source, s, terminal) ==
    LET e == EvidenceForResult(source, s)
    IN  Report(KeptTerminal(e, terminal), e, s, FALSE)

(* Mutant: only the terminal says that the result was refused.                *)
UndeliveredByTerminal(r) ==
    [r EXCEPT !.terminal = IF @ = "ok" THEN "failed" ELSE @, !.replaySafe = FALSE]

(* The host refuses the result at the last moment.                            *)
Undelivered(r) ==
    [r EXCEPT !.terminal = IF @ = "ok" THEN "failed" ELSE @,
              !.kind = IF r.available THEN "partial" ELSE "failed",
              !.replaySafe = FALSE]
=============================================================================
