----------------------------- MODULE AgyStream -----------------------------
(***************************************************************************)
(* The accumulator fed one line after the other by consumeLine of            *)
(* src/src/cli/agy-process.ts, which stops at the first line that throws,    *)
(* against a definition of the streams it is meant to accept.                *)
(***************************************************************************)
EXTENDS AgyStreamEvents, Naturals

CONSTANT MaxLines  \* lines fed

ASSUME MaxLinesIsNatural == MaxLines \in Nat
ASSUME NoneIsNoEvent == None \notin Events

VARIABLES
    acc,  \* the accumulator
    log   \* the lines it was given

vars == <<acc, log>>

Init == acc = NewAccumulator /\ log = <<>>

ConsumeLine(e) ==
    /\ ~acc.failed
    /\ Len(log) < MaxLines
    /\ acc' = Consume(acc, e)
    /\ log' = Append(log, e)

Next == \E e \in Events : ConsumeLine(e)

Spec == Init /\ [][Next]_vars

-----------------------------------------------------------------------------
TypeOK == acc \in Accumulators /\ log \in Seq(Events)

(* What a stream must be, whatever reads it: an init for the requested model *)
(* and the resumed conversation, updates of steps, one result, all of that   *)
(* conversation.  A step ends once, keeps its category and has one tool; a   *)
(* success ends every step and says something.                               *)
WellFormed(s) ==
    LET n == Len(s)
        body == 2 .. n - 1
        before(i, j) == i < j /\ s[i].step = s[j].step
    IN  /\ n >= 2
        /\ s[1] \in InitEvents /\ s[n] \in ResultEvents
        /\ \A i \in body : s[i] \in StepEvents
        /\ s[1].model = "requested"
        /\ Expected \in {None, s[1].conv}
        /\ \A i \in 2 .. n : s[i].conv = s[1].conv
        /\ \A i, j \in body : before(i, j) =>
              /\ s[i].state = "ACTIVE"
              /\ s[i].type = s[j].type
              /\ None \in {s[i].tool, s[j].tool} \/ s[i].tool = s[j].tool
        /\ s[n].status # "RUNNING"
        /\ s[n].status = "SUCCESS" =>
              /\ ~s[n].empty
              /\ \A i \in body : s[i].state = "ACTIVE" => \E j \in body : before(i, j)

(* The accumulator completes exactly the well-formed streams: it accepts no  *)
(* other one, whatever the order its checks see the lines in, and refuses    *)
(* none (AgyStreamAccumulator.consumeLine, finalize).                        *)
CompleteIffWellFormed == Finalizes(acc) <=> WellFormed(log)
=============================================================================
