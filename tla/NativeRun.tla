------------------------------ MODULE NativeRun ------------------------------
(***************************************************************************)
(* What the caller of runAgyStreamProcess may rely on, whatever happens      *)
(* inside it (src/src/cli/agy-process.ts): whether a process was started,    *)
(* whether one may still be alive, and when a snapshot is returned.          *)
(* AgyProcess implements this, and AttemptRun is built on it.                *)
(***************************************************************************)
EXTENDS AgyStreamEvents

CONSTANT Lines  \* what the process may write

VARIABLES
    run,        \* "ready", "going", "settled"
    born,       \* the operating system started the process
    living,     \* the process or a descendant is alive
    acc,        \* the accumulator
    told,       \* evidence.invocation, once settled
    clean,      \* termination.cleanupComplete, once settled
    outcome     \* "returned" or "threw", once settled

runVars == <<run, born, living, acc, told, clean, outcome>>

RunInit ==
    /\ run = "ready" /\ born = FALSE /\ living = FALSE
    /\ acc = NewAccumulator
    /\ told = None /\ clean = FALSE /\ outcome = None

(* The owner is gone, or the arguments are rejected.                         *)
Refuse ==
    /\ run = "ready" /\ run' = "settled"
    /\ told' = "not_started" /\ clean' = TRUE /\ outcome' = "threw"
    /\ UNCHANGED <<born, living, acc>>

Start ==
    /\ run = "ready" /\ run' = "going"
    /\ born' \in BOOLEAN /\ living' = born'
    /\ UNCHANGED <<acc, told, clean, outcome>>

Takes(l) == born /\ ~acc.failed /\ acc' = Consume(acc, l)

TakeLine(l) ==
    /\ run = "going"
    /\ Takes(l)
    /\ UNCHANGED <<run, born, living, told, clean, outcome>>

(* The last of them ends when it pleases, after settlement too.              *)
LastEnds ==
    /\ living /\ living' = FALSE
    /\ UNCHANGED <<run, born, acc, told, clean, outcome>>

(* The last line may be the one that fails.                                  *)
RunSettles ==
    /\ run = "going" /\ run' = "settled"
    /\ acc' = acc \/ \E l \in Lines : Takes(l)
    /\ told' = IF born THEN "started" ELSE "not_started"
    /\ clean' \in BOOLEAN /\ (clean' => ~living)
    /\ outcome' \in {"returned", "threw"}
    /\ outcome' = "returned" => clean' /\ born /\ Finalizes(acc')
    /\ UNCHANGED <<born, living>>

RunNext ==
    \/ Refuse \/ Start \/ LastEnds \/ RunSettles
    \/ \E l \in Lines : TakeLine(l)

RunSafety == RunInit /\ [][RunNext]_runVars

(* A run that was started settles.                                           *)
RunSpec == RunSafety /\ WF_runVars(RunSettles)
=============================================================================
