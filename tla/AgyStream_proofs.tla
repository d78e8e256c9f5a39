-------------------------- MODULE AgyStream_proofs --------------------------
(***************************************************************************)
(* For streams of any length, over any conversations, steps and tools: the   *)
(* accumulator completes exactly the well-formed ones.                       *)
(***************************************************************************)
EXTENDS AgyStream, AgyStreamEvents_proofs

(* The lines between the first and the result, which may be still to come.   *)
Body == 2 .. (IF acc.result = None THEN Len(log) ELSE Len(log) - 1)

Before(i, j) == i < j /\ log[i].step = log[j].step

(* What the accumulator knows of the lines it did not refuse: the frame,     *)
Framed ==
    /\ acc.conv = None => log = <<>> /\ acc.result = None
    /\ acc.conv # None =>
          /\ log # <<>> /\ log[1] \in InitEvents
          /\ log[1].conv = acc.conv /\ log[1].model = "requested"
          /\ Expected \in {None, acc.conv}
    /\ acc.result # None =>
          /\ Len(log) >= 2 /\ log[Len(log)] = acc.result
          /\ acc.result.conv = acc.conv /\ acc.result.status # "RUNNING"
          /\ acc.result.status = "SUCCESS" => ~Unfinished(acc)

(* that the body is made of updates of steps that follow each other,         *)
Ordered ==
    /\ \A i \in Body : log[i] \in StepEvents /\ log[i].conv = acc.conv
    /\ \A i, j \in Body : Before(i, j) =>
          /\ log[i].state = "ACTIVE"
          /\ log[i].type = log[j].type
          /\ None \in {log[i].tool, log[j].tool} \/ log[i].tool = log[j].tool

(* and how each step stands: as its last update says, with the category of   *)
(* all of them and the one tool that any of them names.                      *)
Standing(k) ==
    /\ acc.steps[k] = None => \A i \in Body : log[i].step # k
    /\ acc.steps[k] # None =>
          /\ \E i \in Body :
                /\ log[i].step = k /\ log[i].state = acc.steps[k].state
                /\ \A j \in Body : log[j].step = k => j <= i
          /\ \A i \in Body : log[i].step = k =>
                /\ log[i].type = acc.steps[k].type
                /\ log[i].tool \in {None, acc.steps[k].tool}
          /\ acc.steps[k].tool # None =>
                \E i \in Body : log[i].step = k /\ log[i].tool = acc.steps[k].tool

Known == Framed /\ Ordered /\ \A k \in StepIndices : Standing(k)

StreamInv ==
    /\ TypeOK
    /\ ~acc.failed => Known
    /\ acc.failed => ~WellFormed(log)

(* No line is of two kinds.                                                  *)
LEMMA KindsDiffer ==
    /\ Malformed \notin InitEvents \cup StepEvents \cup ResultEvents
    /\ InitEvents \cap StepEvents = {} /\ InitEvents \cap ResultEvents = {}
    /\ StepEvents \cap ResultEvents = {}
    /\ None \notin InitEvents \cup StepEvents \cup ResultEvents
  <1>1. /\ \A e \in InitEvents : e.event = "init"
        /\ \A e \in StepEvents : e.event = "step_update"
        /\ \A e \in ResultEvents : e.event = "result"
        /\ Malformed.event = "malformed"
    BY DEF InitEvents, StepEvents, ResultEvents, Malformed
  <1> QED
    BY <1>1, NoneIsNoEvent DEF Events

LEMMA StreamInit == Init => StreamInv
  <1>1. NewAccumulator \in Accumulators /\ ~NewAccumulator.failed
    BY DEF NewAccumulator, Accumulators
  <1>2. Init => Known
    BY DEF Init, NewAccumulator, Known, Framed, Ordered, Standing, Body
  <1> QED
    BY <1>1, <1>2 DEF Init, StreamInv, TypeOK

(* A complete snapshot is of a well-formed stream,                           *)
LEMMA SoundWhenKnown ==
    ASSUME TypeOK, Known, ~acc.failed, Finalizes(acc)
    PROVE  WellFormed(log)
  <1>1. /\ acc.conv # None /\ acc.result # None
        /\ ~(acc.result.status = "SUCCESS" /\ acc.result.empty)
    BY DEF Finalizes
  <1>2. acc.result \in ResultEvents /\ log \in Seq(Events) /\ Len(log) \in Nat
    BY <1>1 DEF TypeOK, Accumulators
  <1>3. Body = 2 .. Len(log) - 1
    BY <1>1 DEF Body
  <1>4. /\ Len(log) >= 2 /\ log[1] \in InitEvents /\ log[Len(log)] = acc.result
        /\ log[1].model = "requested" /\ Expected \in {None, log[1].conv}
        /\ log[1].conv = acc.conv /\ acc.result.conv = acc.conv
        /\ acc.result.status # "RUNNING"
        /\ acc.result.status = "SUCCESS" => ~Unfinished(acc)
    BY <1>1 DEF Known, Framed
  <1>5. \A i \in 2 .. Len(log) : log[i].conv = log[1].conv
    <2>1. \A i \in 2 .. Len(log) : i \in Body \/ i = Len(log)
      BY <1>2, <1>3
    <2> QED
      BY <2>1, <1>4 DEF Known, Ordered
  <1>6. ASSUME acc.result.status = "SUCCESS", NEW i \in Body, log[i].state = "ACTIVE"
        PROVE  \E j \in Body : Before(i, j)
    <2> DEFINE k == log[i].step
    <2>1. k \in StepIndices
      BY DEF Known, Ordered, StepEvents
    <2>2. Standing(k)
      BY <2>1 DEF Known
    <2>3. acc.steps[k] # None /\ acc.steps[k].state # "ACTIVE"
      BY <1>4, <1>6, <2>1, <2>2 DEF Unfinished, Standing
    <2>4. PICK j \in Body : /\ log[j].step = k /\ log[j].state = acc.steps[k].state
                            /\ \A h \in Body : log[h].step = k => h <= j
      BY <2>2, <2>3 DEF Standing
    <2>5. i <= j /\ i # j /\ i \in Nat /\ j \in Nat
      BY <1>3, <1>6, <2>3, <2>4
    <2> QED
      BY <2>4, <2>5 DEF Before
  <1> QED
    BY <1>1, <1>2, <1>3, <1>4, <1>5, <1>6 DEF WellFormed, Known, Ordered, Before

(* and a well-formed stream, if it was not refused, gives one.               *)
LEMMA CompleteWhenKnown ==
    ASSUME TypeOK, Known, ~acc.failed, WellFormed(log)
    PROVE  Finalizes(acc)
  <1>1. /\ Len(log) >= 2 /\ log[Len(log)] \in ResultEvents /\ Len(log) \in Nat
        /\ log[Len(log)].status = "SUCCESS" => ~log[Len(log)].empty
    BY DEF WellFormed, TypeOK
  <1>2. acc.conv # None
    BY <1>1 DEF Known, Framed
  <1>3. acc.result # None
    <2>1. ASSUME acc.result = None PROVE Len(log) \in Body
      BY <1>1, <2>1 DEF Body
    <2> QED
      BY <1>1, <2>1, KindsDiffer DEF Known, Ordered
  <1>4. log[Len(log)] = acc.result
    BY <1>3 DEF Known, Framed
  <1> QED
    BY <1>1, <1>2, <1>3, <1>4 DEF Finalizes

(* What ConsumeLine leaves of the log.                                       *)
LEMMA LogGrows ==
    ASSUME TypeOK, NEW e \in Events, log' = Append(log, e)
    PROVE  /\ log' \in Seq(Events) /\ Len(log) \in Nat
           /\ Len(log') = Len(log) + 1
           /\ log'[Len(log) + 1] = e
           /\ \A i \in 1 .. Len(log) : log'[i] = log[i]
  BY DEF TypeOK

(* A line that is refused ends no well-formed stream.                        *)
LEMMA RefusedIsMalformed ==
    ASSUME TypeOK, Known, ~acc.failed, NEW e \in Events, log' = Append(log, e),
           Rejected(acc, e) \/ Contradicts(acc, e)
    PROVE  ~WellFormed(log')
  <1> SUFFICES ASSUME WellFormed(log') PROVE FALSE
    OBVIOUS
  <1> DEFINE n == Len(log)
  <1>1. /\ n \in Nat /\ Len(log') = n + 1 /\ log'[n + 1] = e
        /\ \A i \in 1 .. n : log'[i] = log[i]
    BY LogGrows
  <1>2. /\ n >= 1 /\ e \in ResultEvents
        /\ \A i \in 2 .. n : log'[i] \in StepEvents
        /\ \A i \in 2 .. n + 1 : log'[i].conv = log'[1].conv
        /\ e.status # "RUNNING"
        /\ e.status = "SUCCESS" =>
             \A i \in 2 .. n : log'[i].state = "ACTIVE" =>
                \E j \in 2 .. n : i < j /\ log'[i].step = log'[j].step
    BY <1>1 DEF WellFormed
  <1>3. acc.conv # None /\ log'[1].conv = acc.conv
    BY <1>1, <1>2 DEF Known, Framed
  <1>4. e.conv = acc.conv
    BY <1>1, <1>2, <1>3
  <1>5. acc.result = None
    <2>1. ASSUME acc.result # None PROVE FALSE
      <3>1. n >= 2 /\ log[n] = acc.result
        BY <2>1 DEF Known, Framed
      <3>2. acc.result \in ResultEvents
        BY <2>1 DEF TypeOK, Accumulators
      <3>3. acc.result \in StepEvents
        BY <1>1, <1>2, <3>1
      <3> QED
        BY <3>2, <3>3, KindsDiffer
    <2> QED
      BY <2>1
  <1>6. Body = 2 .. n
    BY <1>5 DEF Body
  <1>7. e \notin InitEvents /\ e \notin StepEvents /\ e # Malformed
    BY <1>2, KindsDiffer
  <1>8. e.status = "SUCCESS" /\ Unfinished(acc)
    <2>1. ~Rejected(acc, e)
      BY <1>3, <1>4, <1>5, <1>7 DEF Rejected
    <2> QED
      BY <1>2, <1>7, <2>1 DEF Contradicts
  <1>9. PICK k \in StepIndices : acc.steps[k] # None /\ acc.steps[k].state = "ACTIVE"
    BY <1>8 DEF Unfinished
  <1>10. PICK i \in Body : /\ log[i].step = k /\ log[i].state = "ACTIVE"
                           /\ \A j \in Body : log[j].step = k => j <= i
    BY <1>9 DEF Known, Standing
  <1>11. PICK j \in 2 .. n : i < j /\ log'[i].step = log'[j].step
    BY <1>1, <1>2, <1>6, <1>8, <1>10
  <1>12. log[j].step = k /\ j \in Body
    BY <1>1, <1>6, <1>10, <1>11
  <1> QED
    BY <1>1, <1>6, <1>10, <1>11, <1>12

(* The three kinds of line that are recorded.                                *)
LEMMA InitIsKnown ==
    ASSUME TypeOK, Known, ~acc.failed, NEW e \in Events, log' = Append(log, e),
           acc' = Consume(acc, e), ~Rejected(acc, e), ~Contradicts(acc, e), e \in InitEvents
    PROVE  Known'
  <1>1. acc.conv = None /\ acc.result = None /\ log = <<>>
    BY DEF Rejected, Known, Framed
  <1>2. /\ acc'.conv = e.conv /\ acc'.result = None /\ acc'.steps = acc.steps
    BY <1>1 DEF Consume, Recorded, TypeOK, Accumulators
  <1>3. Len(log') = 1 /\ log'[1] = e /\ log' # <<>>
    BY <1>1
  <1>4. Body = {} /\ Body' = {}
    BY <1>1, <1>2, <1>3 DEF Body
  <1>5. e.model = "requested" /\ Expected \in {None, e.conv}
    BY DEF Contradicts
  <1>6. e.conv # None
    BY NoneIsAbsent DEF InitEvents
  <1>7. Framed'
    BY <1>2, <1>3, <1>5, <1>6 DEF Framed
  <1>8. Ordered'
    BY <1>4 DEF Ordered
  <1>9. ASSUME NEW k \in StepIndices PROVE Standing(k)'
    <2>1. acc.steps[k] = None
      BY <1>4 DEF Known, Standing
    <2> QED
      BY <1>2, <1>4, <2>1 DEF Standing
  <1> QED
    BY <1>7, <1>8, <1>9 DEF Known

LEMMA ResultIsKnown ==
    ASSUME TypeOK, Known, ~acc.failed, NEW e \in Events, log' = Append(log, e),
           acc' = Consume(acc, e), ~Rejected(acc, e), ~Contradicts(acc, e), e \in ResultEvents
    PROVE  Known'
  <1> DEFINE n == Len(log)
  <1>1. /\ n \in Nat /\ Len(log') = n + 1 /\ log'[n + 1] = e
        /\ \A i \in 1 .. n : log'[i] = log[i]
    BY LogGrows
  <1>2. /\ e \notin InitEvents /\ e \notin StepEvents /\ e # None
    BY KindsDiffer
  <1>3. acc.result = None /\ acc.conv # None /\ e.conv = acc.conv
    BY DEF Rejected
  <1>4. acc'.conv = acc.conv /\ acc'.result = e /\ acc'.steps = acc.steps
    BY <1>2 DEF Consume, Recorded, TypeOK, Accumulators
  <1>5. log # <<>> /\ n >= 1
    BY <1>1, <1>3 DEF Known, Framed, TypeOK
  <1>6. Body = 2 .. n /\ Body' = 2 .. n
    BY <1>1, <1>2, <1>3, <1>4 DEF Body
  <1>7. \A i \in Body : log'[i] = log[i]
    BY <1>1, <1>6
  <1>8. Framed'
    <2>1. e.status # "RUNNING" /\ (e.status = "SUCCESS" => ~Unfinished(acc))
      BY DEF Contradicts
    <2>2. Unfinished(acc) <=> Unfinished(acc')
      BY <1>4 DEF Unfinished
    <2>3. log'[1] = log[1] /\ log' # <<>> /\ Len(log') >= 2 /\ log'[Len(log')] = e
      BY <1>1, <1>5
    <2> QED
      BY <1>3, <1>4, <2>1, <2>2, <2>3 DEF Framed, Known
  <1>9. Ordered'
    BY <1>4, <1>6, <1>7 DEF Ordered, Known, Before
  <1>10. ASSUME NEW k \in StepIndices PROVE Standing(k)'
    BY <1>4, <1>6, <1>7 DEF Standing, Known
  <1> QED
    BY <1>8, <1>9, <1>10 DEF Known

LEMMA UpdateIsKnown ==
    ASSUME TypeOK, Known, ~acc.failed, NEW e \in Events, log' = Append(log, e),
           acc' = Consume(acc, e), ~Rejected(acc, e), ~Contradicts(acc, e), e \in StepEvents
    PROVE  Known'
  <1> DEFINE n == Len(log)
             s == e.step
             p == acc.steps[s]
             q == Identified(p, e)
  <1>1. /\ n \in Nat /\ Len(log') = n + 1 /\ log'[n + 1] = e
        /\ \A i \in 1 .. n : log'[i] = log[i]
    BY LogGrows
  <1>2. e \notin InitEvents /\ e \notin ResultEvents
    BY KindsDiffer
  <1>3. acc.result = None /\ acc.conv # None /\ e.conv = acc.conv /\ Continues(p, e)
    BY DEF Rejected
  <1>4. s \in StepIndices /\ p \in StepEvents \cup {None}
    BY DEF StepEvents, TypeOK, Accumulators
  <1>5. /\ acc'.conv = acc.conv /\ acc'.result = None
        /\ acc'.steps = [acc.steps EXCEPT ![s] = q]
    BY <1>2, <1>3 DEF Consume, Recorded, TypeOK, Accumulators
  <1>6. acc'.steps[s] = q /\ \A k \in StepIndices \ {s} : acc'.steps[k] = acc.steps[k]
    BY <1>4, <1>5 DEF TypeOK, Accumulators
  <1>7. log # <<>> /\ n >= 1
    BY <1>1, <1>3 DEF Known, Framed, TypeOK
  <1>8. Body = 2 .. n /\ Body' = Body \cup {n + 1} /\ n + 1 \notin Body
    BY <1>1, <1>3, <1>5, <1>7 DEF Body
  <1>9. \A i \in Body : log'[i] = log[i] /\ i < n + 1 /\ i \in Nat
    BY <1>1, <1>8
  <1>10. q # None /\ q.state = e.state /\ q.type = e.type
         /\ q.tool = IF e.tool = None /\ p # None THEN p.tool ELSE e.tool
    <2>1. q.state = e.state /\ q.type = e.type /\ q.event = "step_update"
          /\ q.tool = IF e.tool = None /\ p # None THEN p.tool ELSE e.tool
      BY DEF Identified, StepEvents
    <2>2. q # None
      <3>1. CASE e.tool = None /\ p # None
        BY <1>3, <1>4, <3>1, IdentifiedIsUpdate, KindsDiffer
      <3>2. CASE ~(e.tool = None /\ p # None)
        BY <3>2, KindsDiffer DEF Identified
      <3> QED
        BY <3>1, <3>2
    <2> QED
      BY <2>1, <2>2
  <1>11. Framed'
    <2>1. log'[1] = log[1] /\ log' # <<>>
      BY <1>1, <1>7
    <2> QED
      BY <1>3, <1>5, <2>1 DEF Framed, Known
  <1>12. ASSUME NEW i \in Body, log[i].step = s
         PROVE  /\ p # None /\ log[i].state = "ACTIVE" /\ log[i].type = e.type
                /\ log[i].type = p.type /\ log[i].tool \in {None, p.tool}
                /\ None \in {log[i].tool, e.tool} \/ log[i].tool = e.tool
    <2>1. Standing(s) /\ Ordered
      BY <1>4 DEF Known
    <2>2. p # None
      BY <1>12, <2>1 DEF Standing
    <2>3. p.state = "ACTIVE" /\ p.type = e.type
          /\ (p.tool # None /\ e.tool # None => p.tool = e.tool)
      BY <1>3, <2>2 DEF Continues
    <2>4. log[i].type = p.type /\ log[i].tool \in {None, p.tool}
      BY <1>12, <2>1, <2>2 DEF Standing
    <2>5. log[i].state = "ACTIVE"
      <3>1. PICK j \in Body : /\ log[j].step = s /\ log[j].state = p.state
                              /\ \A h \in Body : log[h].step = s => h <= j
        BY <2>1, <2>2 DEF Standing
      <3>2. i = j \/ i < j
        BY <1>9, <1>12, <3>1
      <3> QED
        BY <1>12, <2>1, <2>3, <3>1, <3>2 DEF Ordered, Before
    <2> QED
      BY <2>2, <2>3, <2>4, <2>5
  <1>13. Ordered'
    <2>1. \A i \in Body' : log'[i] \in StepEvents /\ log'[i].conv = acc'.conv
      BY <1>1, <1>3, <1>5, <1>8, <1>9 DEF Ordered, Known
    <2>2. ASSUME NEW i \in Body', NEW j \in Body', Before(i, j)'
          PROVE  /\ log'[i].state = "ACTIVE" /\ log'[i].type = log'[j].type
                 /\ None \in {log'[i].tool, log'[j].tool} \/ log'[i].tool = log'[j].tool
      <3>1. i \in Body
        BY <1>8, <1>9, <2>2 DEF Before
      <3>2. CASE j \in Body
        BY <1>9, <2>2, <3>1, <3>2 DEF Ordered, Known, Before
      <3>3. CASE j = n + 1
        BY <1>1, <1>9, <1>12, <2>2, <3>1, <3>3 DEF Before
      <3> QED
        BY <1>8, <3>2, <3>3
    <2> QED
      BY <2>1, <2>2 DEF Ordered
  <1>14. Standing(s)'
    <2>1. \A i \in Body' : i <= n + 1
      BY <1>1, <1>8, <1>9
    <2>2. n + 1 \in Body' /\ log'[n + 1].step = s /\ log'[n + 1].state = q.state
      BY <1>1, <1>8, <1>10
    <2>3. ASSUME NEW i \in Body', log'[i].step = s
          PROVE  log'[i].type = q.type /\ log'[i].tool \in {None, q.tool}
      <3>1. CASE i \in Body
        BY <1>9, <1>10, <1>12, <2>3, <3>1
      <3>2. CASE i = n + 1
        BY <1>1, <1>10, <3>2
      <3> QED
        BY <1>8, <3>1, <3>2
    <2>4. ASSUME q.tool # None
          PROVE  \E i \in Body' : log'[i].step = s /\ log'[i].tool = q.tool
      <3>1. CASE e.tool # None
        BY <1>1, <1>10, <2>2, <3>1
      <3>2. CASE e.tool = None
        <4>1. p # None /\ p.tool = q.tool
          BY <1>10, <2>4, <3>2
        <4>2. PICK i \in Body : log[i].step = s /\ log[i].tool = p.tool
          BY <1>4, <2>4, <4>1 DEF Known, Standing
        <4> QED
          BY <1>8, <1>9, <4>1, <4>2
      <3> QED
        BY <3>1, <3>2
    <2> QED
      BY <1>6, <1>10, <2>1, <2>2, <2>3, <2>4 DEF Standing
  <1>15. ASSUME NEW k \in StepIndices, k # s PROVE Standing(k)'
    <2>1. Standing(k) /\ acc'.steps[k] = acc.steps[k]
      BY <1>6, <1>15 DEF Known
    <2>2. \A i \in Body' : log'[i].step = k => i \in Body /\ log[i] = log'[i]
      BY <1>1, <1>8, <1>9, <1>15
    <2>3. \A i \in Body : i \in Body' /\ log[i] = log'[i]
      BY <1>8, <1>9
    <2> QED
      BY <2>1, <2>2, <2>3 DEF Standing
  <1> QED
    BY <1>11, <1>13, <1>14, <1>15 DEF Known

LEMMA StreamInductive == ASSUME StreamInv, [Next]_vars PROVE StreamInv'
  <1>1. ASSUME NEW e \in Events, ConsumeLine(e) PROVE StreamInv'
    <2>1. TypeOK /\ Known /\ ~acc.failed /\ acc' = Consume(acc, e) /\ log' = Append(log, e)
      BY <1>1 DEF ConsumeLine, StreamInv
    <2>2. TypeOK'
      BY <2>1, ConsumeType, LogGrows DEF TypeOK
    <2>3. CASE Rejected(acc, e) \/ Contradicts(acc, e)
      <3>1. acc'.failed
        <4>1. CASE Rejected(acc, e)
          BY <2>1, <4>1 DEF Consume, TypeOK, Accumulators
        <4>2. CASE ~Rejected(acc, e)
          <5>1. acc'.failed = Contradicts(acc, e)
            BY <2>1, <4>2, RecordedType DEF Consume, TypeOK, Accumulators
          <5> QED
            BY <2>3, <4>2, <5>1
        <4> QED
          BY <4>1, <4>2
      <3>2. ~WellFormed(log')
        BY <2>1, <2>3, RefusedIsMalformed
      <3> QED
        BY <2>2, <3>1, <3>2 DEF StreamInv
    <2>4. CASE ~Rejected(acc, e) /\ ~Contradicts(acc, e)
      <3>1. e \in InitEvents \cup StepEvents \cup ResultEvents
        BY <2>4 DEF Events, Rejected
      <3>2. Known'
        BY <2>1, <2>4, <3>1, InitIsKnown, UpdateIsKnown, ResultIsKnown
      <3>3. ~acc'.failed
        <4>1. acc'.failed = Contradicts(acc, e)
          BY <2>1, <2>4, RecordedType DEF Consume, TypeOK, Accumulators
        <4> QED
          BY <2>4, <4>1
      <3> QED
        BY <2>2, <3>2, <3>3 DEF StreamInv
    <2> QED
      BY <2>3, <2>4
  <1>2. CASE UNCHANGED vars
    <2>1. acc' = acc /\ log' = log
      BY <1>2 DEF vars
    <2>2. Framed' <=> Framed
      BY <2>1 DEF Framed
    <2>3. Ordered' <=> Ordered
      BY <2>1 DEF Ordered, Body, Before
    <2>4. ASSUME NEW k \in StepIndices PROVE Standing(k)' <=> Standing(k)
      BY <2>1 DEF Standing, Body
    <2> QED
      BY <2>1, <2>2, <2>3, <2>4 DEF StreamInv, TypeOK, Known
  <1> QED
    BY <1>1, <1>2 DEF Next

LEMMA StreamInvariant == Spec => []StreamInv
  BY StreamInit, StreamInductive, PTL DEF Spec

(* Whatever it is fed, the accumulator stays one.                            *)
THEOREM StreamTypes == Spec => []TypeOK
  <1>1. StreamInv => TypeOK
    BY DEF StreamInv
  <1> QED
    BY <1>1, StreamInvariant, PTL

(* Over any conversations, steps, tools and number of lines, the accumulator *)
(* completes exactly the streams that are well-formed.                       *)
THEOREM CompletesTheWellFormed == Spec => []CompleteIffWellFormed
  <1>1. ASSUME StreamInv PROVE Finalizes(acc) <=> WellFormed(log)
    <2>1. CASE acc.failed
      BY <1>1, <2>1 DEF StreamInv, Finalizes
    <2>2. CASE ~acc.failed
      <3>1. TypeOK /\ Known
        BY <1>1, <2>2 DEF StreamInv
      <3> QED
        BY <2>2, <3>1, SoundWhenKnown, CompleteWhenKnown
    <2> QED
      BY <2>1, <2>2
  <1>2. StreamInv => CompleteIffWellFormed
    BY <1>1 DEF CompleteIffWellFormed
  <1> QED
    BY <1>2, StreamInvariant, PTL
=============================================================================
