-------------------------- MODULE AgyStreamEvents --------------------------
(***************************************************************************)
(* The lines the native program writes, as the parser sees them, and the     *)
(* accumulator that decides whether they are one complete conversation turn  *)
(* (AgyStreamAccumulator, src/src/protocol/agy-stream.ts).  Operators only.  *)
(*                                                                         *)
(* An event is a record of the fields the accumulator looks at.  Every line  *)
(* a parse function rejects is Malformed; ERROR stands for the statuses that *)
(* end a turn without success, RUNNING for the two that do not end it, and   *)
(* agent_response for the step categories that are not tools.                *)
(***************************************************************************)
EXTENDS Sequences

CONSTANTS
    Conversations,  \* conversation ids
    StepIndices,    \* native step indices
    Tools,          \* tool names
    Expected,       \* the conversation to resume (None: a fresh one)
    None            \* an absent field

ASSUME NoneIsAbsent == None \notin Conversations \cup Tools

Malformed == [event |-> "malformed"]

InitEvents == [event : {"init"}, conv : Conversations, model : {"requested", "other"}]

StepEvents ==
    {e \in [event : {"step_update"}, conv : Conversations, step : StepIndices,
            state : {"ACTIVE", "DONE", "ERROR"}, type : {"tool", "agent_response"},
            tool : Tools \cup {None}] :
        e.tool # None => e.type = "tool"}

(* empty: no response, no structured output and no denied action.            *)
ResultEvents ==
    [event : {"result"}, conv : Conversations,
     status : {"SUCCESS", "ERROR", "RUNNING"}, empty : BOOLEAN]

Events == {Malformed} \cup InitEvents \cup StepEvents \cup ResultEvents

Accumulators ==
    [conv : Conversations \cup {None}, steps : [StepIndices -> StepEvents \cup {None}],
     updates : Seq(StepEvents), result : ResultEvents \cup {None}, failed : BOOLEAN]

NewAccumulator ==
    [conv |-> None, steps |-> [i \in StepIndices |-> None],
     updates |-> <<>>, result |-> None, failed |-> FALSE]

-----------------------------------------------------------------------------
(* Mutant: an update is compared with the last one as it came, so a tool      *)
(* name is forgotten when a message in between omits it.                     *)
AsItCame(p, u) == u

(* A step keeps the tool it is known to run when an update omits it.         *)
Identified(p, u) == IF u.tool = None /\ p # None THEN [u EXCEPT !.tool = p.tool] ELSE u

(* Mutant: the category of a step may change.                                *)
ContinuesAsAnything(p, u) ==
    p # None =>
        /\ p.state = "ACTIVE"
        /\ p.tool # None /\ u.tool # None => p.tool = u.tool

(* u may follow p as an update of the same step.                             *)
Continues(p, u) ==
    p # None =>
        /\ p.state = "ACTIVE"
        /\ p.type = u.type
        /\ p.tool # None /\ u.tool # None => p.tool = u.tool

(* #guard and #consume throw before anything is recorded.                    *)
Rejected(acc, e) ==
    \/ acc.failed
    \/ e = Malformed
    \/ acc.result # None
    \/ e \in InitEvents /\ acc.conv # None
    \/ e \in StepEvents \cup ResultEvents /\ (acc.conv = None \/ e.conv # acc.conv)
    \/ e \in StepEvents /\ ~Continues(acc.steps[e.step], e)

Recorded(acc, e) ==
    IF e \in InitEvents THEN [acc EXCEPT !.conv = e.conv]
    ELSE IF e \in StepEvents
         THEN [acc EXCEPT !.steps[e.step] = Identified(@, e),
                          !.updates = Append(@, e)]
         ELSE [acc EXCEPT !.result = e]

Unfinished(acc) == \E i \in StepIndices : acc.steps[i] # None /\ acc.steps[i].state = "ACTIVE"

(* #consume throws after it has recorded the event.                          *)
Contradicts(acc, e) ==
    \/ e \in InitEvents /\ (e.model # "requested" \/ Expected \notin {None, e.conv})
    \/ e \in ResultEvents /\ (e.status = "RUNNING" \/ (e.status = "SUCCESS" /\ Unfinished(acc)))

Consume(acc, e) ==
    IF Rejected(acc, e) THEN [acc EXCEPT !.failed = TRUE]
    ELSE [Recorded(acc, e) EXCEPT !.failed = Contradicts(acc, e)]

(* finalize returns a snapshot.                                              *)
Finalizes(acc) ==
    /\ ~acc.failed
    /\ acc.conv # None
    /\ acc.result # None
    /\ ~(acc.result.status = "SUCCESS" /\ acc.result.empty)
=============================================================================
