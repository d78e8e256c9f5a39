------------------------ MODULE AgyStreamEvents_proofs ------------------------
(***************************************************************************)
(* What holds of the accumulator's operators, whatever they are used for.    *)
(***************************************************************************)
EXTENDS AgyStreamEvents, TLAPS

(* An update that goes on with a step is one of its updates.                 *)
LEMMA IdentifiedIsUpdate ==
    ASSUME NEW p \in StepEvents \cup {None}, NEW e \in StepEvents, Continues(p, e)
    PROVE  Identified(p, e) \in StepEvents
  <1>1. CASE e.tool = None /\ p # None
    <2>1. p \in StepEvents /\ p.type = e.type
      BY <1>1 DEF Continues
    <2>2. p.tool \in Tools \cup {None} /\ (p.tool # None => p.type = "tool")
      BY <2>1 DEF StepEvents
    <2>3. [e EXCEPT !.tool = p.tool] \in StepEvents
      BY <2>1, <2>2 DEF StepEvents
    <2> QED
      BY <1>1, <2>3 DEF Identified
  <1>2. CASE ~(e.tool = None /\ p # None)
    BY <1>2 DEF Identified
  <1> QED
    BY <1>1, <1>2

LEMMA RecordedType ==
    ASSUME NEW a \in Accumulators, NEW e \in Events, ~Rejected(a, e)
    PROVE  Recorded(a, e) \in Accumulators
  <1>1. CASE e \in InitEvents
    BY <1>1 DEF Recorded, Accumulators, InitEvents
  <1>2. CASE e \in StepEvents /\ e \notin InitEvents
    <2> DEFINE steps == [a.steps EXCEPT ![e.step] = Identified(a.steps[e.step], e)]
    <2>1. e.step \in StepIndices /\ a.steps[e.step] \in StepEvents \cup {None}
      BY <1>2 DEF StepEvents, Accumulators
    <2>2. Identified(a.steps[e.step], e) \in StepEvents
      BY <1>2, <2>1, IdentifiedIsUpdate DEF Rejected
    <2>3. /\ steps \in [StepIndices -> StepEvents \cup {None}]
          /\ Append(a.updates, e) \in Seq(StepEvents)
      BY <1>2, <2>1, <2>2 DEF Accumulators
    <2>4. Recorded(a, e) = [a EXCEPT !.steps = steps, !.updates = Append(a.updates, e)]
      BY <1>2 DEF Recorded, Accumulators
    <2> QED
      BY <2>3, <2>4 DEF Accumulators
  <1>3. CASE e \notin InitEvents \cup StepEvents
    <2>1. e \in ResultEvents
      BY <1>3 DEF Events, Rejected
    <2> QED
      BY <1>3, <2>1 DEF Recorded, Accumulators
  <1> QED
    BY <1>1, <1>2, <1>3

(* Whatever line it is given, the accumulator stays one.                     *)
LEMMA ConsumeType ==
    ASSUME NEW a \in Accumulators, NEW e \in Events
    PROVE  Consume(a, e) \in Accumulators
  <1>1. ASSUME NEW b \in Accumulators, NEW f \in BOOLEAN
        PROVE  [b EXCEPT !.failed = f] \in Accumulators
    BY <1>1 DEF Accumulators
  <1>2. Contradicts(a, e) \in BOOLEAN
    BY DEF Contradicts
  <1> QED
    BY <1>1, <1>2, RecordedType DEF Consume
===============================================================================
