------------------------- MODULE AgyProcess_proofs -------------------------
(***************************************************************************)
(* For any output, limits and mix of descendants: what the evidence says of  *)
(* the processes is true, a failed run has delivered a prefix of what was    *)
(* written, and a run that returns has delivered all of it.                  *)
(***************************************************************************)
EXTENDS AgyProcess, AgyStreamEvents_proofs, SequenceTheorems, TLAPS

(***************************************************************************)
(* The process group.                                                       *)
(***************************************************************************)
(* What the cleanup knows of the group, and what close says of the pipes,    *)
(* stays true: nobody is left who could start another process there.         *)
GroupInv ==
    /\ alive \subseteq Processes
    /\ invocation \in {"not_started", "possible", "started"}
    /\ alive # {} => born
    /\ main = "ready" => alive = {} /\ ~born /\ invocation = "not_started"
    /\ main = "ready" => cleanup = "no" /\ ~closed
    /\ invocation = "started" => born
    /\ invocation = "not_started" /\ main # "ready" => ~born
    /\ main = "settled" => invocation # "possible"
    /\ cleanup = "clean" => ~GroupExists
    /\ main \in {"closing", "draining", "finishing"} => cleanup \in {"clean", "unclean"}
    /\ main = "settled" => cleanup \in {"clean", "unclean"} \/ alive = {}
    /\ closed /\ ~forced => alive \cap Writers = {}
    /\ main = "settled" /\ clean => alive = {}

LEMMA GroupInit == Init => GroupInv
  BY DEF Init, GroupInv, GroupExists

(* The events that leave the processes and the main flow alone.              *)
LEMMA GroupKept ==
    ASSUME GroupInv,
           UNCHANGED <<alive, born, main, closed, forced, clean, invocation>>,
           cleanup' = cleanup \/ (cleanup = "no" /\ cleanup' = "term" /\ main # "ready")
    PROVE  GroupInv'
  BY DEF GroupInv, GroupExists

LEMMA GroupNative == ASSUME GroupInv, Native PROVE GroupInv'
  <1> USE DEF GroupInv
  <1>1. UNCHANGED <<born, main, closed, forced, clean, invocation, cleanup>>
    BY DEF Native, failVars, endVars, Fork, Exit, Write, Warn
  <1>2. ASSUME NEW p \in Descendants, Fork(p) PROVE GroupInv'
    <2>1. alive' = alive \cup {p} /\ alive # {} /\ p \in {"member", "worker", "stray"}
      BY <1>2, DescendantsAreKinds DEF Fork
    <2>2. ~(alive \cap Owned = {} /\ p \in Owned)
      BY <1>2, <2>1 DEF Fork, Parents, Owned, Writers
    <2>3. ~(alive \cap Writers = {} /\ p \in Writers)
      BY <1>2, <2>1 DEF Fork, Parents, Owned, Writers
    <2> QED
      BY <1>1, <2>1, <2>2, <2>3 DEF GroupExists, Processes
  <1>3. ASSUME NEW p \in Processes, Exit(p) PROVE GroupInv'
    BY <1>1, <1>3 DEF Exit, GroupExists
  <1>4. CASE UNCHANGED alive
    BY <1>1, <1>4, GroupKept
  <1> QED
    BY <1>2, <1>3, <1>4 DEF Native, Write, Warn

LEMMA GroupMain == ASSUME GroupInv, MainStep PROVE GroupInv'
  <1> USE DEF GroupInv
  <1>1. UNCHANGED <<alive, born, invocation, closed>> /\ invocation # "possible"
    BY DEF MainStep, osVars, Handling
  <1>2. CASE GroupSettled
    BY <1>1, <1>2 DEF GroupSettled, Go, failVars, endVars, GroupExists
  <1>3. CASE PipesClosed
    BY <1>1, <1>3 DEF PipesClosed, Go, failVars, endVars, GroupExists
  <1>4. CASE ForceClose
    BY <1>1, <1>4 DEF ForceClose, Go, Fail, Started, endVars, GroupExists
  <1>5. CASE FinishDelivers
    BY <1>1, <1>5 DEF FinishDelivers, Go, endVars, GroupExists
  <1>6. ASSUME NEW failed, Settle(failed), main \in {"draining", "finishing"} PROVE GroupInv'
    <2>1. clean' => alive = {}
      BY <1>6, DescendantsAreKinds DEF Settle, CleanupComplete, GroupExists, Processes, Owned, Writers
    <2> QED
      BY <1>1, <1>6, <2>1 DEF Settle, GroupExists
  <1>7. CASE DrainTimesOut \/ SettleDrained \/ FinishRetired \/ FinishFails \/ FinalReturns
             \/ FinalFails
    BY <1>6, <1>7 DEF DrainTimesOut, SettleDrained, FinishRetired, FinishFails, FinalReturns,
       FinalFails
  <1> QED
    BY <1>2, <1>3, <1>4, <1>5, <1>7 DEF MainStep

LEMMA GroupInductive == ASSUME GroupInv, [Next]_vars PROVE GroupInv'
  <1> USE DEF GroupInv
  <1>1. CASE NotStarted
    <2>1. UNCHANGED <<alive, born, invocation, cleanup, closed, forced>>
      BY <1>1 DEF NotStarted, osVars, failVars
    <2>2. main = "ready" /\ main' = "settled"
      BY <1>1 DEF NotStarted
    <2> QED
      BY <2>1, <2>2 DEF GroupExists
  <1>2. CASE Spawn
    <2>1. UNCHANGED <<cleanup, closed, forced>> /\ main = "ready"
      BY <1>2 DEF Spawn, failVars
    <2>2. main' = "stopping" /\ invocation' = "possible"
      BY <1>2 DEF Spawn
    <2>3. alive' = {} \/ (alive' = {"leader"} /\ born')
      BY <1>2 DEF Spawn
    <2> QED
      BY <2>1, <2>2, <2>3 DEF GroupExists, Processes
  <1>3. CASE SpawnEvent
    BY <1>3 DEF SpawnEvent, Running, Fail, Started, osVars, failVars, endVars, GroupExists
  <1>4. CASE SpawnError
    BY <1>4 DEF SpawnError, Running, Fail, Started, osVars, endVars, GroupExists
  <1>5. CASE ExitEvent \/ ReadLine \/ ReadWarning \/ StreamError \/ OwnerCheck
    BY <1>5, GroupKept DEF ExitEvent, ReadLine, ReadWarning, StreamError, OwnerCheck,
       Handling, Running, Fail, BeginCleanup, Started, osVars, failVars, endVars
  <1>6. CASE CloseEvent
    BY <1>6 DEF CloseEvent, Closes, Handling, Running, osVars, failVars, endVars, GroupExists
  <1>7. CASE Retire
    BY <1>7, GroupKept DEF Retire, Running, Fail, Started, osVars, failVars, endVars
  <1>8. CASE Tick \/ \E i \in 1 .. MaxLines : ObserverActs(i)
    BY <1>8, GroupKept DEF Tick, ObserverActs, osVars, failVars, endVars
  <1>9. CASE PumpStep
    BY <1>9, GroupKept DEF PumpStep, Running, PumpEnds, PumpSettles, PumpKeeps, PumpDelivers, PumpRetired,
       ObserverReturns, ObserverFails, CallRejected, Fail, Started, osVars, failVars, endVars
  <1>10. CASE CleanupStep
    BY <1>10 DEF CleanupStep, Handling, Running, GroupGone, Escalate, GroupRemains, endVars,
       GroupExists
  <1>11. CASE UNCHANGED vars
    BY <1>11, GroupKept DEF vars, osVars, failVars, endVars
  <1> QED
    BY <1>1, <1>2, <1>3, <1>4, <1>5, <1>6, <1>7, <1>8, <1>9, <1>10, <1>11, GroupNative,
       GroupMain DEF Next, Child

LEMMA GroupInvariant == Spec => []GroupInv
  BY GroupInit, GroupInductive, PTL DEF Spec

(* cleanupComplete is never claimed while a process of the invocation lives. *)
THEOREM CleanIsClean == Spec => []CleanMeansGone
  <1>1. GroupInv => CleanMeansGone
    BY DEF GroupInv, CleanMeansGone
  <1> QED
    BY <1>1, GroupInvariant, PTL

(* The evidence tells whether there was a process (isReplaySafe).            *)
StartIsTold == main = "settled" => (invocation = "not_started" <=> ~born)

(* It does, in whatever order abort, spawn and rejection come.               *)
THEOREM StartStaysTold == Spec => []StartIsTold
  <1>1. GroupInv => StartIsTold
    <2>1. ASSUME GroupInv, main = "settled", invocation = "not_started" PROVE ~born
      BY <2>1 DEF GroupInv
    <2>2. ASSUME GroupInv, main = "settled", ~born PROVE invocation = "not_started"
      BY <2>2 DEF GroupInv
    <2> QED
      BY <2>1, <2>2 DEF StartIsTold
  <1> QED
    BY <1>1, GroupInvariant, PTL

-----------------------------------------------------------------------------
(***************************************************************************)
(* The output.                                                              *)
(***************************************************************************)
(* s is what stands in w after the first n lines.                            *)
Stretch(w, n, s) ==
    /\ n \in Nat
    /\ s \in Seq(Lines)
    /\ n + Len(s) <= Len(w)
    /\ \A i \in 1 .. Len(s) : s[i] = w[n + i]

LEMMA StretchOfEmpty ==
    ASSUME NEW w \in Seq(Lines), NEW n \in 0 .. Len(w)
    PROVE  Stretch(w, n, <<>>)
  BY DEF Stretch

LEMMA StretchWritten ==
    ASSUME NEW w \in Seq(Lines), NEW l \in Lines, NEW n, NEW s, Stretch(w, n, s)
    PROVE  Stretch(Append(w, l), n, s)
  BY DEF Stretch

LEMMA StretchTail ==
    ASSUME NEW w \in Seq(Lines), NEW n, NEW s, Stretch(w, n, s), s # <<>>
    PROVE  /\ Stretch(w, n + 1, Tail(s))
           /\ Head(s) = w[n + 1]
           /\ Len(Tail(s)) = Len(s) - 1
           /\ Head(s) \in Lines
           /\ n + 1 \in 1 .. Len(w)
  BY DEF Stretch

LEMMA StretchAppend ==
    ASSUME NEW w \in Seq(Lines), NEW n, NEW s, Stretch(w, n, s),
           NEW m \in 1 .. Len(w), m = n + Len(s) + 1
    PROVE  Stretch(w, n, Append(s, w[m]))
  BY DEF Stretch

(* A stretch from the start that is as long as the whole is the whole.       *)
LEMMA StretchIsWhole ==
    ASSUME NEW w \in Seq(Lines), NEW s, Stretch(w, 0, s), Len(s) = Len(w)
    PROVE  s = w
  BY SeqEqual DEF Stretch

(* Unless something has failed, what was written is what was consumed, then  *)
(* the unended line, then the queue, then the pipe.                          *)
OutputInv ==
    /\ wrote \in Seq(Lines)
    /\ queue \in Seq(Lines) /\ lineBuffer \in Seq(Lines) /\ Len(lineBuffer) <= 1
    /\ Stretch(wrote, 0, seen)
    /\ Stretch(wrote, Len(wrote) - Len(pipe), pipe)
    /\ ~fatal =>
          /\ Stretch(wrote, Len(seen), lineBuffer)
          /\ Stretch(wrote, Len(seen) + Len(lineBuffer), queue)
          /\ Len(seen) + Len(lineBuffer) + Len(queue) = Len(wrote) - Len(pipe)
    /\ lineBuffer # <<>> => unended /\ queue = <<>> /\ pipe = <<>>

outputVars == <<wrote, unended, pipe, lineBuffer, seen>>

LEMMA OutputInit == Init => OutputInv
  BY DEF Init, OutputInv, Stretch

(* Whatever does not touch the lines may fail the run and empty the queue.   *)
LEMMA OutputKept ==
    ASSUME OutputInv, UNCHANGED outputVars,
           queue' = queue \/ (queue' = <<>> /\ fatal'),
           ~fatal' => ~fatal
    PROVE  OutputInv'
  <1>1. CASE queue' = queue
    BY <1>1 DEF OutputInv, outputVars
  <1>2. CASE queue' = <<>> /\ fatal'
    BY <1>2 DEF OutputInv, outputVars
  <1> QED
    BY <1>1, <1>2

LEMMA OutputNative == ASSUME OutputInv, Native PROVE OutputInv'
  <1>1. UNCHANGED <<queue, fatal, lineBuffer, seen>>
    BY DEF Native, failVars, streamVars
  <1>2. ASSUME NEW l \in Lines, Write(l) PROVE OutputInv'
    <2>1. wrote' = Append(wrote, l) /\ pipe' = Append(pipe, l) /\ lineBuffer = <<>>
      BY <1>2 DEF Write, OutputInv
    <2>2. wrote' \in Seq(Lines) /\ Len(wrote') = Len(wrote) + 1
      BY <2>1 DEF OutputInv
    <2>3. Len(pipe') = Len(pipe) + 1 /\ pipe \in Seq(Lines)
      BY <2>1 DEF OutputInv, Stretch
    <2>4. Stretch(wrote', Len(wrote) - Len(pipe), pipe)
      BY <2>1, StretchWritten DEF OutputInv
    <2>5. Stretch(wrote', Len(wrote) - Len(pipe), Append(pipe, wrote'[Len(wrote) + 1]))
      <3>1. Len(wrote) + 1 \in 1 .. Len(wrote')
        BY <2>2 DEF OutputInv
      <3>2. Len(wrote) + 1 = Len(wrote) - Len(pipe) + Len(pipe) + 1
        BY <2>3 DEF OutputInv
      <3> QED
        BY <2>2, <2>4, <3>1, <3>2, StretchAppend
    <2>6. wrote'[Len(wrote) + 1] = l
      BY <2>1 DEF OutputInv
    <2>7. Stretch(wrote', Len(wrote') - Len(pipe'), pipe')
      BY <2>1, <2>2, <2>3, <2>5, <2>6 DEF OutputInv
    <2>8. Stretch(wrote', 0, seen')
      BY <1>1, <2>1, StretchWritten DEF OutputInv
    <2>9. ASSUME ~fatal
          PROVE  /\ Stretch(wrote', Len(seen'), lineBuffer')
                 /\ Stretch(wrote', Len(seen') + Len(lineBuffer'), queue')
      BY <1>1, <2>1, <2>9, StretchWritten DEF OutputInv
    <2>10. Len(seen) \in Nat /\ Len(lineBuffer) \in Nat /\ Len(queue) \in Nat
      BY DEF OutputInv, Stretch
    <2> QED
      BY <1>1, <2>1, <2>2, <2>3, <2>7, <2>8, <2>9, <2>10 DEF OutputInv
  <1>3. CASE UNCHANGED <<wrote, unended, pipe>>
    BY <1>1, <1>3, OutputKept DEF outputVars
  <1> QED
    BY <1>2, <1>3 DEF Native, Fork, Exit, Warn

LEMMA OutputReadLine == ASSUME OutputInv, ReadLine PROVE OutputInv'
  <1>1. pipe # <<>> /\ pipe' = Tail(pipe) /\ lineBuffer = <<>>
    BY DEF ReadLine, OutputInv
  <1>2. UNCHANGED <<wrote, unended, lineBuffer, seen>>
    BY DEF ReadLine, streamVars
  <1>3. /\ Stretch(wrote, Len(wrote) - Len(pipe) + 1, pipe')
        /\ Head(pipe) = wrote[Len(wrote) - Len(pipe) + 1]
        /\ Head(pipe) \in Lines
        /\ Len(pipe') = Len(pipe) - 1
    BY <1>1, StretchTail DEF OutputInv
  <1>4. Len(pipe) \in Nat /\ Len(wrote) \in Nat /\ Len(seen) \in Nat /\ Len(queue) \in Nat
    BY DEF OutputInv, Stretch
  <1>5. Stretch(wrote, Len(wrote) - Len(pipe'), pipe')
    <2>1. Len(wrote) - Len(pipe') = Len(wrote) - Len(pipe) + 1
      BY <1>3, <1>4
    <2> QED
      BY <1>3, <2>1
  <1>6. CASE fatal'
    <2>1. queue' \in Seq(Lines)
      BY <1>6, <1>3 DEF ReadLine, Fail, failVars, OutputInv
    <2> QED
      BY <1>1, <1>2, <1>5, <1>6, <2>1 DEF OutputInv
  <1>7. CASE ~fatal'
    <2>1. ~fatal /\ queue' = Append(queue, Head(pipe))
      BY <1>7 DEF ReadLine, Fail, failVars
    <2>2. Len(seen) + Len(queue) = Len(wrote) - Len(pipe) /\ Len(lineBuffer) = 0
      BY <1>1, <1>4, <2>1 DEF OutputInv
    <2>3. Stretch(wrote, Len(seen), queue)
      BY <1>4, <2>1, <2>2 DEF OutputInv
    <2>4. Stretch(wrote, Len(seen), queue')
      <3>1. Len(wrote) - Len(pipe) + 1 \in 1 .. Len(wrote)
        BY <1>1, StretchTail DEF OutputInv
      <3>2. Len(wrote) - Len(pipe) + 1 = Len(seen) + Len(queue) + 1
        BY <2>2
      <3> QED
        BY <1>3, <2>1, <2>3, <3>1, <3>2, StretchAppend DEF OutputInv
    <2>5. Stretch(wrote', Len(seen') + Len(lineBuffer'), queue')
      <3>1. Len(seen) + 0 = Len(seen)
        BY <1>4
      <3> QED
        BY <1>2, <2>2, <2>4, <3>1
    <2>6. queue' \in Seq(Lines) /\ Len(queue') = Len(queue) + 1
      BY <1>3, <2>1 DEF OutputInv
    <2>7. Stretch(wrote', Len(seen'), lineBuffer')
      BY <1>2, <2>1 DEF OutputInv
    <2> QED
      BY <1>1, <1>2, <1>3, <1>4, <1>5, <2>1, <2>2, <2>5, <2>6, <2>7 DEF OutputInv
  <1> QED
    BY <1>6, <1>7

(* Taking the next line keeps what was consumed a prefix.                    *)
LEMMA NextLineSeen ==
    ASSUME OutputInv, NEW s, Stretch(wrote, Len(seen), s), s # <<>>
    PROVE  /\ Stretch(wrote, 0, Append(seen, Head(s)))
           /\ Stretch(wrote, Len(seen) + 1, Tail(s))
           /\ Len(Append(seen, Head(s))) = Len(seen) + 1
           /\ Len(Tail(s)) = Len(s) - 1
  <1>1. /\ Stretch(wrote, Len(seen) + 1, Tail(s))
        /\ Head(s) = wrote[Len(seen) + 1]
        /\ Len(Tail(s)) = Len(s) - 1
        /\ Head(s) \in Lines
        /\ Len(seen) + 1 \in 1 .. Len(wrote)
    BY StretchTail DEF OutputInv
  <1>2. seen \in Seq(Lines) /\ Len(seen) \in Nat
    BY DEF OutputInv, Stretch
  <1>3. Stretch(wrote, 0, Append(seen, wrote[Len(seen) + 1]))
    BY <1>1, <1>2, StretchAppend DEF OutputInv
  <1> QED
    BY <1>1, <1>2, <1>3

LEMMA OutputPump == ASSUME OutputInv, PumpStep PROVE OutputInv'
  <1>1. UNCHANGED <<wrote, unended, pipe>>
    BY DEF PumpStep, osVars
  <1>2. CASE PumpKeeps
    <2>1. /\ lineBuffer' = queue /\ queue' = <<>> /\ UNCHANGED <<seen, fatal>>
          /\ unended /\ pipe = <<>> /\ Len(queue) = 1 /\ queue # <<>> /\ ~fatal
      BY <1>2 DEF PumpKeeps, Kept
    <2>2. lineBuffer = <<>> /\ Len(lineBuffer) = 0 /\ Len(seen) \in Nat
      BY <2>1 DEF OutputInv, Stretch
    <2>3. Stretch(wrote, Len(seen), queue) /\ Len(seen) + 1 = Len(wrote) - Len(pipe)
      BY <2>1, <2>2 DEF OutputInv
    <2>4. Stretch(wrote, Len(seen) + 1, <<>>)
      BY <2>2, <2>3, <2>1, StretchOfEmpty DEF OutputInv
    <2> QED
      BY <1>1, <2>1, <2>2, <2>3, <2>4 DEF OutputInv
  <1>3. CASE PumpDelivers
    <2>1. seen' = Append(seen, Head(queue)) /\ queue # <<>> /\ ~fatal /\ UNCHANGED lineBuffer
      BY <1>3 DEF PumpDelivers, Consumed
    <2>2. lineBuffer = <<>> /\ Len(lineBuffer) = 0 /\ Len(seen) \in Nat
      BY <2>1 DEF OutputInv, Stretch
    <2>3. Stretch(wrote, Len(seen), queue) /\ Len(seen) + Len(queue) = Len(wrote) - Len(pipe)
      BY <2>1, <2>2 DEF OutputInv
    <2>4. /\ Stretch(wrote, 0, seen') /\ Stretch(wrote, Len(seen'), Tail(queue))
          /\ Len(seen') = Len(seen) + 1 /\ Len(Tail(queue)) = Len(queue) - 1
      BY <2>1, <2>3, NextLineSeen
    <2>5. CASE fatal'
      <3>1. queue' = <<>> \/ queue' = Tail(queue)
        BY <1>3 DEF PumpDelivers, Fail
      <3>2. queue' \in Seq(Lines)
        <4>1. <<>> \in Seq(Lines) /\ Tail(queue) \in Seq(Lines)
          BY <2>1, EmptySeq, HeadTailProperties DEF OutputInv
        <4> QED
          BY <3>1, <4>1
      <3>3. lineBuffer' = <<>> /\ lineBuffer' \in Seq(Lines) /\ Len(lineBuffer') <= 1
        BY <2>1, <2>2 DEF OutputInv
      <3>4. wrote' \in Seq(Lines) /\ Stretch(wrote', Len(wrote') - Len(pipe'), pipe')
        BY <1>1 DEF OutputInv
      <3>5. Stretch(wrote', 0, seen')
        BY <1>1, <2>4
      <3> QED
        BY <2>5, <3>2, <3>3, <3>4, <3>5 DEF OutputInv
    <2>6. CASE ~fatal'
      <3>1. queue' = Tail(queue)
        BY <1>3, <2>6 DEF PumpDelivers, Fail
      <3>2. Len(queue) \in Nat
        BY DEF OutputInv
      <3>3. Stretch(wrote, Len(seen'), <<>>)
        BY <2>4, StretchOfEmpty DEF Stretch, OutputInv
      <3>4. queue' \in Seq(Lines) /\ Len(seen') + Len(lineBuffer') = Len(seen')
        BY <2>1, <2>2, <2>4, <3>1 DEF OutputInv
      <3> QED
        BY <1>1, <2>1, <2>2, <2>3, <2>4, <2>6, <3>1, <3>2, <3>3, <3>4 DEF OutputInv
    <2> QED
      BY <2>5, <2>6
  <1>4. CASE PumpEnds \/ PumpSettles \/ PumpRetired \/ ObserverReturns \/ ObserverFails \/ CallRejected
    BY <1>1, <1>4, OutputKept DEF PumpEnds, PumpSettles, PumpRetired, ObserverReturns, ObserverFails,
       CallRejected, Fail, failVars, streamVars, outputVars
  <1> QED
    BY <1>2, <1>3, <1>4 DEF PumpStep

LEMMA OneLeft == ASSUME NEW n \in Nat, n # 0, n <= 1 PROVE n = 1
  OBVIOUS

LEMMA OutputMain == ASSUME OutputInv, MainStep PROVE OutputInv'
  <1>1. UNCHANGED <<wrote, unended, pipe>>
    BY DEF MainStep, osVars
  <1>2. CASE FinishDelivers \/ FinishFails
    <2>1. /\ seen' = Append(seen, Head(lineBuffer)) /\ lineBuffer # <<>> /\ ~fatal
          /\ UNCHANGED queue
          /\ \/ lineBuffer' = <<>> /\ UNCHANGED fatal
             \/ lineBuffer' = lineBuffer /\ fatal'
      BY <1>2 DEF FinishDelivers, FinishFails, Consumed, Settle, Drained
    <2>2. Len(lineBuffer) = 1 /\ queue = <<>> /\ pipe = <<>> /\ Len(queue) = 0 /\ Len(seen) \in Nat
      <3>1. lineBuffer \in Seq(Lines) /\ lineBuffer # <<>>
        BY <2>1 DEF OutputInv
      <3>2. Len(lineBuffer) \in Nat /\ Len(lineBuffer) # 0
        BY <3>1, EmptySeq
      <3>3. Len(lineBuffer) = 1
        <4>1. Len(lineBuffer) <= 1
          BY DEF OutputInv
        <4> QED
          BY <3>2, <4>1, OneLeft
      <3>4. queue = <<>> /\ pipe = <<>>
        BY <2>1 DEF OutputInv
      <3>5. Len(queue) = 0
        BY <3>4
      <3>6. Len(seen) \in Nat
        BY DEF OutputInv, Stretch
      <3> QED
        BY <3>3, <3>4, <3>5, <3>6
    <2>3. Stretch(wrote, Len(seen), lineBuffer) /\ Len(seen) + 1 = Len(wrote) - Len(pipe)
      BY <2>1, <2>2 DEF OutputInv
    <2>4. Stretch(wrote, 0, seen') /\ Len(seen') = Len(seen) + 1
      BY <2>1, <2>3, NextLineSeen
    <2>5. Stretch(wrote, Len(seen'), <<>>)
      BY <2>4, StretchOfEmpty DEF Stretch, OutputInv
    <2>6. Len(seen') + 0 = Len(seen')
      BY <2>2, <2>4
    <2>7. wrote' \in Seq(Lines) /\ Stretch(wrote', Len(wrote') - Len(pipe'), pipe')
      BY <1>1 DEF OutputInv
    <2>8. Stretch(wrote', 0, seen') /\ queue' \in Seq(Lines)
      BY <1>1, <2>1, <2>4 DEF OutputInv
    <2>9. /\ lineBuffer' \in Seq(Lines) /\ Len(lineBuffer') <= 1
          /\ lineBuffer' # <<>> => unended' /\ queue' = <<>> /\ pipe' = <<>>
      <3>1. CASE lineBuffer' = <<>>
        BY <3>1, EmptySeq
      <3>2. CASE lineBuffer' = lineBuffer
        BY <1>1, <2>1, <3>2 DEF OutputInv
      <3> QED
        BY <2>1, <3>1, <3>2
    <2>10. ASSUME ~fatal'
           PROVE  /\ Stretch(wrote', Len(seen'), lineBuffer')
                  /\ Stretch(wrote', Len(seen') + Len(lineBuffer'), queue')
                  /\ Len(seen') + Len(lineBuffer') + Len(queue') = Len(wrote') - Len(pipe')
      <3>1. lineBuffer' = <<>> /\ Len(lineBuffer') = 0 /\ queue' = <<>> /\ Len(queue') = 0
        BY <2>1, <2>2, <2>10
      <3> QED
        BY <1>1, <2>2, <2>3, <2>4, <2>5, <2>6, <3>1
    <2> QED
      BY <2>7, <2>8, <2>9, <2>10 DEF OutputInv
  <1>3. CASE ~(FinishDelivers \/ FinishFails)
    <2>1. UNCHANGED <<lineBuffer, seen>>
      BY <1>3 DEF MainStep, GroupSettled, PipesClosed, ForceClose, DrainTimesOut,
         SettleDrained, FinishRetired, FinalReturns, FinalFails, streamVars
    <2>2. queue' = queue \/ (queue' = <<>> /\ fatal')
      BY <1>3 DEF MainStep, GroupSettled, PipesClosed, ForceClose, DrainTimesOut,
         SettleDrained, FinishRetired, FinalReturns, FinalFails, failVars, Fail, Settle
    <2>3. ~fatal' => ~fatal
      BY <1>3 DEF MainStep, GroupSettled, PipesClosed, ForceClose, DrainTimesOut,
         SettleDrained, FinishRetired, FinalReturns, FinalFails, failVars, Fail, Settle
    <2> QED
      BY <1>1, <2>1, <2>2, <2>3, OutputKept DEF outputVars
  <1> QED
    BY <1>2, <1>3

LEMMA OutputInductive == ASSUME OutputInv, [Next]_vars PROVE OutputInv'
  <1>1. CASE NotStarted \/ Spawn \/ SpawnEvent \/ SpawnError \/ ExitEvent \/ ReadWarning
             \/ CloseEvent \/ StreamError \/ Retire \/ OwnerCheck \/ Tick
             \/ CleanupStep \/ (\E i \in 1 .. MaxLines : ObserverActs(i))
    <2>1. UNCHANGED outputVars
      BY <1>1 DEF NotStarted, Spawn, SpawnEvent, SpawnError, ExitEvent, ReadWarning,
         CloseEvent, StreamError, Retire, OwnerCheck, Tick, CleanupStep, ObserverActs,
         osVars, streamVars, outputVars
    <2>2. /\ queue' = queue \/ (queue' = <<>> /\ fatal')
          /\ ~fatal' => ~fatal
      BY <1>1 DEF NotStarted, Spawn, SpawnEvent, SpawnError, ExitEvent, ReadWarning,
         CloseEvent, StreamError, Retire, OwnerCheck, Tick, CleanupStep, ObserverActs,
         Fail, BeginCleanup, failVars
    <2> QED
      BY <2>1, <2>2, OutputKept
  <1>2. CASE UNCHANGED vars
    BY <1>2, OutputKept DEF vars, osVars, failVars, streamVars, outputVars
  <1> QED
    BY <1>1, <1>2, OutputNative, OutputReadLine, OutputPump, OutputMain DEF Next, Child

LEMMA OutputInvariant == Spec => []OutputInv
  BY OutputInit, OutputInductive, PTL DEF Spec

(* What was consumed is always a prefix of what was written.                 *)
THEOREM PrefixSeen == Spec => []SeenIsPrefix
  <1>1. OutputInv => SeenIsPrefix
    BY DEF OutputInv, Stretch, SeenIsPrefix
  <1> QED
    BY <1>1, OutputInvariant, PTL

-----------------------------------------------------------------------------
(***************************************************************************)
(* A run that returns.                                                      *)
(***************************************************************************)
(* Where the main flow is tells what is left: pipes that closed by           *)
(* themselves are empty, and the last observer is called with nothing queued. *)
ReturnInv ==
    /\ warned \in {"no", "written", "read"}
    /\ forced => fatal
    /\ main \in {"draining", "finishing"} => closed \/ forced
    /\ closed /\ ~forced => pipe = <<>> /\ warned # "written"
    /\ main = "finishing" /\ ~fatal => lineBuffer = <<>> /\ queue = <<>>
    /\ outcome = "returned" => main = "settled" /\ seen = wrote /\ warned = "no" /\ alive = {}

LEMMA ReturnInit == Init => ReturnInv
  BY NoneIsNotYet DEF Init, ReturnInv

(* Whatever stays off the pipes, the main flow and the verdict may fail the  *)
(* run and empty the queue.                                                  *)
LEMMA ReturnKept ==
    ASSUME ReturnInv,
           UNCHANGED <<warned, forced, main, closed, pipe, lineBuffer, outcome, seen, wrote, alive>>,
           queue' = queue \/ queue' = <<>>,
           ~fatal' => ~fatal
    PROVE  ReturnInv'
  BY DEF ReturnInv

(* What closed pipes hold stays, for nobody is left who could write or warn. *)
LEMMA ReturnNative == ASSUME ReturnInv, GroupInv, Native PROVE ReturnInv'
  <1>1. UNCHANGED <<fatal, queue, lineBuffer, seen, main, closed, forced, outcome>>
    BY DEF Native, failVars, streamVars, endVars
  <1>2. ASSUME NEW p \in Descendants, Fork(p) PROVE ReturnInv'
    <2>1. alive # {} /\ UNCHANGED <<wrote, pipe, warned>>
      BY <1>2 DEF Fork
    <2> QED
      BY <1>1, <2>1 DEF ReturnInv
  <1>3. ASSUME NEW p \in Processes, Exit(p) PROVE ReturnInv'
    <2>1. (alive = {} => alive' = {}) /\ UNCHANGED <<wrote, pipe, warned>>
      BY <1>3 DEF Exit
    <2> QED
      BY <1>1, <2>1 DEF ReturnInv
  <1>4. ASSUME Running, Warn \/ \E l \in Lines : Write(l) PROVE ReturnInv'
    <2>1. /\ alive \cap Writers # {} /\ ~forced
          /\ warned' = warned \/ warned' = "written"
      BY <1>4 DEF Warn, Write
    <2>2. main # "settled"
      BY <1>4 DEF Running
    <2>3. ~closed
      BY <2>1 DEF GroupInv
    <2> QED
      BY <1>1, <2>1, <2>2, <2>3 DEF ReturnInv
  <1> QED
    BY <1>2, <1>3, <1>4 DEF Native

LEMMA ReturnPump == ASSUME ReturnInv, PumpStep PROVE ReturnInv'
  <1>1. UNCHANGED <<warned, forced, main, closed, pipe, outcome, wrote, alive>> /\ Running
    BY DEF PumpStep, osVars, endVars
  <1>2. CASE PumpKeeps \/ PumpDelivers
    <2>1. queue # <<>> /\ ~fatal /\ main # "settled"
      BY <1>1, <1>2 DEF PumpKeeps, PumpDelivers, Running
    <2>2. main # "finishing" /\ outcome # "returned" /\ ~forced
      BY <2>1 DEF ReturnInv
    <2> QED
      BY <1>1, <2>2 DEF ReturnInv
  <1>3. CASE PumpEnds \/ PumpSettles \/ PumpRetired \/ ObserverReturns \/ ObserverFails \/ CallRejected
    BY <1>1, <1>3, ReturnKept DEF PumpEnds, PumpSettles, PumpRetired, ObserverReturns, ObserverFails,
       CallRejected, Fail, failVars, streamVars
  <1> QED
    BY <1>2, <1>3 DEF PumpStep

(* The verdict: nothing failed, so nothing written is left unconsumed, and   *)
(* the group and the pipes are gone, so no process is.                       *)
LEMMA VerdictIsWhole ==
    ASSUME ReturnInv, GroupInv, OutputInv, main \in {"draining", "finishing"},
           NEW failed \in BOOLEAN, Settle(failed), outcome' = "returned",
           ~failed => ~fatal /\ lineBuffer = <<>> /\ queue = <<>>
    PROVE  seen = wrote /\ warned = "no" /\ alive = {}
  <1>1. ~failed /\ cleanup = "clean" /\ Agrees
    BY DEF Settle
  <1>2. ~fatal /\ lineBuffer = <<>> /\ queue = <<>> /\ closed /\ ~forced
    BY <1>1 DEF ReturnInv
  <1>3. pipe = <<>> /\ warned = "no"
    BY <1>1, <1>2 DEF ReturnInv, Agrees
  <1>4. alive = {}
    BY <1>1, <1>2, DescendantsAreKinds DEF GroupInv, GroupExists, Processes, Owned, Writers
  <1>5. Len(seen) = Len(wrote)
    BY <1>2, <1>3 DEF OutputInv, Stretch
  <1>6. seen = wrote
    BY <1>5, StretchIsWhole DEF OutputInv
  <1> QED
    BY <1>3, <1>4, <1>6

LEMMA ReturnMain == ASSUME ReturnInv, GroupInv, OutputInv, MainStep PROVE ReturnInv'
  <1>1. UNCHANGED <<alive, wrote, pipe, warned, closed>> /\ main # "settled"
    BY DEF MainStep, osVars, Handling, Running
  <1>2. CASE GroupSettled \/ PipesClosed
    BY <1>1, <1>2 DEF GroupSettled, PipesClosed, Go, failVars, streamVars, endVars, ReturnInv
  <1>3. CASE ForceClose
    BY <1>1, <1>3 DEF ForceClose, Go, Fail, streamVars, endVars, ReturnInv
  <1>4. CASE FinishDelivers
    BY <1>1, <1>4 DEF FinishDelivers, Go, Drained, endVars, ReturnInv
  <1>5. ASSUME NEW failed \in BOOLEAN, Settle(failed), main \in {"draining", "finishing"},
               ~failed => ~fatal /\ lineBuffer = <<>> /\ queue = <<>> /\ UNCHANGED seen
        PROVE  ReturnInv'
    <2>1. main' = "settled" /\ UNCHANGED forced /\ (fatal' <=> failed \/ cleanup # "clean")
      BY <1>5 DEF Settle
    <2>2. forced' => fatal'
      BY <1>5, <2>1 DEF ReturnInv
    <2>3. ASSUME outcome' = "returned" PROVE seen' = wrote' /\ warned' = "no" /\ alive' = {}
      <3>1. ~failed
        BY <1>5, <2>3 DEF Settle
      <3> QED
        BY <1>1, <1>5, <2>3, <3>1, VerdictIsWhole
    <2> QED
      BY <1>1, <2>1, <2>2, <2>3 DEF ReturnInv
  <1>6. CASE DrainTimesOut \/ FinishRetired \/ FinishFails \/ FinalFails
    BY <1>5, <1>6 DEF DrainTimesOut, FinishRetired, FinishFails, FinalFails
  <1>7. CASE SettleDrained \/ FinalReturns
    <2>1. PICK failed \in BOOLEAN : Settle(failed) /\ (~failed => ~fatal)
      <3>1. CASE fatal
        BY <1>7, <3>1 DEF SettleDrained, FinalReturns, Settle
      <3>2. CASE ~fatal
        BY <1>7, <3>2 DEF SettleDrained, FinalReturns, Settle
      <3> QED
        BY <3>1, <3>2
    <2>2. /\ main \in {"draining", "finishing"} /\ UNCHANGED seen
          /\ ~fatal => lineBuffer = <<>> /\ queue = <<>>
      BY <1>7 DEF SettleDrained, FinalReturns, Drained, streamVars, ReturnInv
    <2> QED
      BY <1>5, <2>1, <2>2
  <1> QED
    BY <1>2, <1>3, <1>4, <1>6, <1>7 DEF MainStep

LEMMA ReturnInductive ==
    ASSUME ReturnInv, GroupInv, OutputInv, [Next]_vars PROVE ReturnInv'
  <1>1. CASE SpawnEvent \/ SpawnError \/ ExitEvent \/ StreamError \/ Retire \/ OwnerCheck
             \/ Tick \/ CleanupStep \/ (\E i \in 1 .. MaxLines : ObserverActs(i))
    <2>1. UNCHANGED <<warned, forced, main, closed, pipe, lineBuffer, outcome, seen, wrote, alive>>
      BY <1>1 DEF SpawnEvent, SpawnError, ExitEvent, StreamError, Retire, OwnerCheck, Tick,
         CleanupStep, ObserverActs, osVars, streamVars, endVars
    <2>2. (queue' = queue \/ queue' = <<>>) /\ (~fatal' => ~fatal)
      BY <1>1 DEF SpawnEvent, SpawnError, ExitEvent, StreamError, Retire, OwnerCheck, Tick,
         CleanupStep, ObserverActs, Fail, BeginCleanup, failVars
    <2> QED
      BY <2>1, <2>2, ReturnKept
  <1>2. CASE UNCHANGED vars
    BY <1>2, ReturnKept DEF vars, osVars, failVars, streamVars, endVars
  <1>3. CASE NotStarted
    BY <1>3 DEF NotStarted, osVars, failVars, streamVars, ReturnInv
  <1>4. CASE Spawn
    BY <1>4 DEF Spawn, failVars, streamVars, GroupInv, ReturnInv
  <1>5. CASE ReadLine
    <2>1. UNCHANGED <<warned, forced, main, closed, lineBuffer, outcome, seen, wrote, alive>>
      BY <1>5 DEF ReadLine, streamVars, endVars
    <2>2. ~closed /\ ~forced /\ (~fatal' => ~fatal)
      BY <1>5 DEF ReadLine, Fail, failVars
    <2>3. main \notin {"draining", "finishing"}
      BY <2>2 DEF ReturnInv
    <2> QED
      BY <2>1, <2>2, <2>3 DEF ReturnInv
  <1>6. CASE ReadWarning
    <2>1. /\ UNCHANGED <<failVars, forced, main, closed, pipe, streamVars, outcome, wrote, alive>>
          /\ ~closed /\ warned' \in {"read", "no"} /\ main # "settled"
      BY <1>6 DEF ReadWarning, endVars, Handling, Running
    <2> QED
      BY <2>1 DEF ReturnInv, failVars, streamVars
  <1>7. CASE CloseEvent
    <2>1. /\ UNCHANGED <<osVars, failVars, streamVars, endVars, main, forced>>
          /\ closed' = TRUE /\ Closes
      BY <1>7 DEF CloseEvent
    <2> QED
      BY <2>1 DEF ReturnInv, Closes, osVars, failVars, streamVars, endVars
  <1> QED
    BY <1>1, <1>2, <1>3, <1>4, <1>5, <1>6, <1>7, ReturnNative, ReturnPump, ReturnMain
       DEF Next, Child

(* A run that returns gave the accumulator all that was ever written, saw no *)
(* warning, left none unread and no process alive.                           *)
THEOREM ReturnStaysWhole == Spec => []ReturnIsWhole
  <1>1. ReturnInv => ReturnIsWhole
    BY DEF ReturnInv, ReturnIsWhole
  <1>2. Spec => []ReturnInv
    BY ReturnInit, ReturnInductive, GroupInvariant, OutputInvariant, PTL DEF Spec
  <1> QED
    BY <1>1, <1>2, PTL

-----------------------------------------------------------------------------
(***************************************************************************)
(* The run as its caller sees it.                                           *)
(***************************************************************************)
(* Lines come from a process; a line that fails the accumulator fails the    *)
(* run; and no line is under way when the last observer is called.           *)
PromiseInv ==
    /\ main = "ready" => clean = TRUE
    /\ wrote # <<>> \/ exited \/ code # None => born
    /\ acc.failed => fatal \/ main = "settled"
    /\ main = "finishing" => pump = "idle"

LEMMA PromiseInit == Init => PromiseInv
  BY DEF Init, PromiseInv, NewAccumulator

LEMMA PromiseMain == ASSUME PromiseInv, MainStep PROVE PromiseInv'
  <1>1. UNCHANGED <<wrote, exited, code, born, pump>> /\ main' # "ready"
    BY DEF MainStep, osVars, Handling, Running, GroupSettled, PipesClosed, ForceClose,
       DrainTimesOut, SettleDrained, FinishRetired, FinishFails, FinishDelivers,
       FinalReturns, FinalFails, Go, Settle
  <1>2. main' = "finishing" => pump = "idle"
    BY DEF MainStep, GroupSettled, PipesClosed, ForceClose, DrainTimesOut, SettleDrained,
       FinishRetired, FinishFails, FinishDelivers, FinalReturns, FinalFails, Go, Settle,
       Drained
  <1>3. acc'.failed => fatal' \/ main' = "settled"
    <2>1. CASE GroupSettled \/ PipesClosed \/ ForceClose
      <3>1. acc' = acc /\ (fatal => fatal') /\ main # "settled"
        BY <2>1 DEF GroupSettled, PipesClosed, ForceClose, streamVars, failVars, Fail, Go
      <3> QED
        BY <3>1 DEF PromiseInv
    <2>2. CASE FinishDelivers
      BY <2>2 DEF FinishDelivers
    <2>3. CASE ~(GroupSettled \/ PipesClosed \/ ForceClose \/ FinishDelivers)
      BY <2>3 DEF MainStep, DrainTimesOut, SettleDrained, FinishRetired, FinishFails,
         FinalReturns, FinalFails, Settle
    <2> QED
      BY <2>1, <2>2, <2>3
  <1> QED
    BY <1>1, <1>2, <1>3 DEF PromiseInv

LEMMA PromiseInductive ==
    ASSUME PromiseInv, GroupInv, ReturnInv, [Next]_vars PROVE PromiseInv'
  <1>1. ASSUME UNCHANGED <<main, clean, wrote, code, born, acc, pump>>, fatal => fatal',
               exited' => exited \/ code # None
        PROVE  PromiseInv'
    BY <1>1 DEF PromiseInv
  <1>2. CASE SpawnEvent \/ SpawnError \/ ExitEvent \/ ReadWarning \/ CloseEvent \/ StreamError
             \/ Retire \/ OwnerCheck \/ Tick \/ CleanupStep
             \/ (\E i \in 1 .. MaxLines : ObserverActs(i))
    <2>1. /\ UNCHANGED <<main, clean, wrote, code, born, acc, pump>>
          /\ exited' => exited \/ code # None
      BY <1>2 DEF SpawnEvent, SpawnError, ExitEvent, ReadWarning, CloseEvent, StreamError,
         Retire, OwnerCheck, Tick, CleanupStep, ObserverActs, osVars, streamVars, endVars
    <2>2. fatal => fatal'
      BY <1>2 DEF SpawnEvent, SpawnError, ExitEvent, ReadWarning, CloseEvent, StreamError,
         Retire, OwnerCheck, Tick, CleanupStep, ObserverActs, failVars, Fail, BeginCleanup
    <2> QED
      BY <1>1, <2>1, <2>2
  <1>3. CASE NotStarted
    BY <1>3 DEF NotStarted, osVars, PromiseInv
  <1>4. CASE Spawn
    BY <1>4 DEF Spawn, failVars, streamVars, PromiseInv, GroupInv
  <1>5. CASE ReadLine
    <2>1. UNCHANGED <<main, clean, wrote, exited, code, born, acc>> /\ (fatal => fatal')
      BY <1>5 DEF ReadLine, streamVars, endVars, failVars, Fail
    <2>2. main # "finishing"
      BY <1>5 DEF ReadLine, ReturnInv
    <2> QED
      BY <2>1, <2>2 DEF PromiseInv
  <1>6. CASE PumpStep
    <2>1. UNCHANGED <<main, clean, wrote, exited, code, born>>
      BY <1>6 DEF PumpStep, osVars, endVars
    <2>2. main # "finishing"
      BY <1>6 DEF PumpStep, PumpEnds, PumpSettles, PumpKeeps, PumpDelivers, PumpRetired, ObserverReturns,
         ObserverFails, CallRejected, PromiseInv
    <2>3. acc'.failed => fatal' \/ main' = "settled"
      <3>1. CASE PumpDelivers
        BY <3>1 DEF PumpDelivers, Fail
      <3>2. CASE ~PumpDelivers
        <4>1. acc' = acc /\ (fatal => fatal')
          BY <1>6, <3>2 DEF PumpStep, PumpEnds, PumpSettles, PumpKeeps, PumpRetired, ObserverReturns,
             ObserverFails, CallRejected, streamVars, failVars, Fail
        <4> QED
          BY <2>1, <4>1 DEF PromiseInv
      <3> QED
        BY <3>1, <3>2
    <2> QED
      BY <2>1, <2>2, <2>3 DEF PromiseInv
  <1>7. CASE Native
    <2>1. UNCHANGED <<main, clean, acc, fatal, pump, born, exited>>
      BY <1>7 DEF Native, streamVars, endVars, failVars, Fork, Exit, Write, Warn
    <2>2. wrote' # <<>> => born
      <3>1. CASE wrote' = wrote
        BY <3>1 DEF PromiseInv
      <3>2. CASE \E l \in Lines : Write(l)
        BY <3>2 DEF Write, GroupInv
      <3> QED
        BY <1>7, <3>1, <3>2 DEF Native, Fork, Exit, Warn
    <2>3. code' # None => born
      BY <1>7 DEF Native, Fork, Exit, Write, Warn, GroupInv, PromiseInv
    <2> QED
      BY <2>1, <2>2, <2>3 DEF PromiseInv
  <1>8. CASE UNCHANGED vars
    BY <1>1, <1>8 DEF vars, osVars, failVars, streamVars, endVars
  <1> QED
    BY <1>2, <1>3, <1>4, <1>5, <1>6, <1>7, <1>8, PromiseMain DEF Next, Child

(* Most events are none of the caller's business.                            *)
LEMMA Unseen ==
    ASSUME UNCHANGED <<main, alive, born, acc, clean, outcome>>,
           main # "settled" \/ UNCHANGED invocation
    PROVE  UNCHANGED Promise!runVars
  BY DEF Promise!runVars, Running

(* Both read the stream with one accumulator.                                *)
LEMMA SameAccumulator ==
    /\ Promise!NewAccumulator = NewAccumulator
    /\ \A a, e : Promise!Consume(a, e) = Consume(a, e)
    /\ \A a : Promise!Finalizes(a) = Finalizes(a)
  <1>1. Promise!NewAccumulator = NewAccumulator
    BY DEF NewAccumulator, Promise!NewAccumulator
  <1>2. ASSUME NEW a PROVE Promise!Finalizes(a) = Finalizes(a)
    BY DEF Finalizes, Promise!Finalizes
  <1>3. ASSUME NEW a, NEW e PROVE Promise!Consume(a, e) = Consume(a, e)
    <2>1. /\ Promise!InitEvents = InitEvents
          /\ Promise!StepEvents = StepEvents
          /\ Promise!ResultEvents = ResultEvents
          /\ Promise!Malformed = Malformed
      BY DEF InitEvents, StepEvents, ResultEvents, Malformed, Promise!InitEvents,
         Promise!StepEvents, Promise!ResultEvents, Promise!Malformed
    <2>2. /\ \A p, u : Promise!Continues(p, u) = Continues(p, u)
          /\ \A p, u : Promise!Identified(p, u) = Identified(p, u)
          /\ Promise!Unfinished(a) = Unfinished(a)
      BY DEF Continues, Identified, Unfinished, Promise!Continues, Promise!Identified,
         Promise!Unfinished
    <2>3. Promise!Rejected(a, e) = Rejected(a, e)
      BY <2>1, <2>2 DEF Rejected, Promise!Rejected
    <2>4. Promise!Recorded(a, e) = Recorded(a, e)
      BY <2>1, <2>2 DEF Recorded, Promise!Recorded
    <2>5. Promise!Contradicts(a, e) = Contradicts(a, e)
      BY <2>1, <2>2 DEF Contradicts, Promise!Contradicts
    <2> QED
      BY <2>3, <2>4, <2>5 DEF Consume, Promise!Consume
  <1> QED
    BY <1>1, <1>2, <1>3

(* Lines are taken from a process, before anything has failed.               *)
LEMMA LineIsTaken ==
    ASSUME PromiseInv, OutputInv, NEW s \in Seq(Lines), s # <<>>, Consumed(Head(s)),
           Stretch(wrote, Len(seen), s), ~fatal, main # "settled"
    PROVE  Head(s) \in Lines /\ Promise!Takes(Head(s))
  <1>1. Head(s) \in Lines /\ wrote # <<>>
    <2>1. wrote \in Seq(Lines) /\ Len(seen) \in Nat
      BY DEF OutputInv, Stretch
    <2>2. Head(s) \in Lines /\ Len(seen) + 1 \in 1 .. Len(wrote)
      BY <2>1, StretchTail
    <2> QED
      BY <2>1, <2>2
  <1>2. born /\ ~acc.failed
    BY <1>1 DEF PromiseInv
  <1> QED
    BY <1>1, <1>2, SameAccumulator DEF Consumed, Promise!Takes

(* Settlement tells the truth, and what is returned is clean and complete.   *)
LEMMA SettlesAsPromised ==
    ASSUME PromiseInv, GroupInv, ReturnInv, OutputInv, Handling,
           main \in {"draining", "finishing"}, UNCHANGED osVars, UNCHANGED invocation,
           NEW failed \in BOOLEAN, Settle(failed),
           ~failed => ~fatal /\ acc' = acc /\ Drained,
           acc' = acc \/ \E l \in Lines : Promise!Takes(l)
    PROVE  Promise!RunSettles
  <1>1. main' = "settled" /\ Running /\ ~Running' /\ invocation # "possible"
    BY DEF Settle, Handling, Running
  <1>2. invocation = IF born THEN "started" ELSE "not_started"
    BY <1>1 DEF GroupInv
  <1>3. clean' \in BOOLEAN /\ (clean' => alive = {})
    BY DescendantsAreKinds DEF Settle, CleanupComplete, GroupInv, GroupExists, Processes, Owned,
       Writers
  <1>4. outcome' \in {"returned", "threw"}
    BY DEF Settle
  <1>5. ASSUME outcome' = "returned" PROVE clean' /\ born /\ Finalizes(acc')
    <2>1. ~failed /\ cleanup = "clean" /\ Agrees
      BY <1>5 DEF Settle
    <2>2. acc' = acc /\ closed /\ ~forced /\ Drained
      BY <2>1 DEF ReturnInv
    <2>3. exited /\ Finalizes(acc')
      BY <2>1, <2>2 DEF Agrees, Finalizes
    <2>4. clean'
      BY <2>1, <2>2 DEF Settle, CleanupComplete
    <2>5. born
      BY <2>3 DEF PromiseInv
    <2> QED
      BY <2>3, <2>4, <2>5
  <1> QED
    BY <1>1, <1>2, <1>3, <1>4, <1>5, SameAccumulator DEF Promise!RunSettles, osVars

LEMMA MainAsPromised ==
    ASSUME PromiseInv, GroupInv, ReturnInv, OutputInv, MainStep
    PROVE  [Promise!RunNext]_Promise!runVars
  <1>1. Handling /\ UNCHANGED osVars /\ UNCHANGED invocation /\ main # "settled"
    BY DEF MainStep, Handling, Running
  <1>2. CASE GroupSettled \/ PipesClosed \/ ForceClose
    BY <1>1, <1>2, Unseen DEF GroupSettled, PipesClosed, ForceClose, Go, streamVars, endVars,
       osVars, Promise!runVars, Handling, Running
  <1>3. CASE FinishDelivers
    <2>1. /\ lineBuffer # <<>> /\ lineBuffer \in Seq(Lines) /\ ~fatal
          /\ Stretch(wrote, Len(seen), lineBuffer) /\ Consumed(Head(lineBuffer))
      BY <1>3 DEF FinishDelivers, OutputInv
    <2>2. PICK l \in Lines : Promise!Takes(l)
      BY <1>1, <2>1, LineIsTaken
    <2>3. Running /\ Running' /\ UNCHANGED endVars /\ main' # "settled"
      BY <1>1, <1>3 DEF FinishDelivers, Go, Handling, Running
    <2> QED
      BY <1>1, <2>2, <2>3 DEF Promise!RunNext, Promise!TakeLine, osVars, endVars
  <1>4. CASE DrainTimesOut \/ SettleDrained \/ FinishRetired \/ FinalReturns \/ FinalFails
    <2>1. PICK failed \in BOOLEAN : Settle(failed) /\ (~failed => ~fatal /\ Drained)
      <3>1. CASE DrainTimesOut \/ FinishRetired \/ FinalFails
        BY <3>1 DEF DrainTimesOut, FinishRetired, FinalFails
      <3>2. CASE SettleDrained
        BY <3>2 DEF SettleDrained, Settle
      <3>3. CASE FinalReturns
        BY <3>3 DEF FinalReturns, Drained, PromiseInv, ReturnInv
      <3> QED
        BY <1>4, <3>1, <3>2, <3>3
    <2>2. main \in {"draining", "finishing"} /\ acc' = acc
      BY <1>4 DEF DrainTimesOut, SettleDrained, FinishRetired, FinalReturns, FinalFails,
         streamVars
    <2> QED
      BY <1>1, <2>1, <2>2, SettlesAsPromised DEF Promise!RunNext
  <1>5. CASE FinishFails
    <2>1. /\ lineBuffer # <<>> /\ lineBuffer \in Seq(Lines) /\ ~fatal
          /\ Stretch(wrote, Len(seen), lineBuffer) /\ Consumed(Head(lineBuffer))
          /\ main = "draining" /\ Settle(TRUE)
      BY <1>5 DEF FinishFails, OutputInv
    <2>2. \E l \in Lines : Promise!Takes(l)
      BY <1>1, <2>1, LineIsTaken
    <2> QED
      BY <1>1, <2>1, <2>2, SettlesAsPromised DEF Promise!RunNext
  <1> QED
    BY <1>2, <1>3, <1>4, <1>5 DEF MainStep

(* Every step of the run is one its caller was told of, or is unseen.        *)
LEMMA StepAsPromised ==
    ASSUME PromiseInv, GroupInv, ReturnInv, OutputInv, [Next]_vars
    PROVE  [Promise!RunNext]_Promise!runVars
  <1>1. CASE SpawnEvent \/ SpawnError \/ ExitEvent \/ ReadLine \/ ReadWarning \/ CloseEvent
             \/ StreamError \/ Retire \/ OwnerCheck \/ Tick \/ CleanupStep
             \/ (\E i \in 1 .. MaxLines : ObserverActs(i)) \/ UNCHANGED vars
    <2>1. UNCHANGED <<main, alive, born, acc, clean, outcome>>
      BY <1>1 DEF SpawnEvent, SpawnError, ExitEvent, ReadLine, ReadWarning, CloseEvent,
         StreamError, Retire, OwnerCheck, Tick, CleanupStep, ObserverActs, osVars,
         streamVars, endVars, vars
    <2>2. main # "settled" \/ UNCHANGED invocation
      BY <1>1 DEF SpawnEvent, SpawnError, ExitEvent, ReadLine, ReadWarning, CloseEvent,
         StreamError, Retire, OwnerCheck, Tick, CleanupStep, ObserverActs, Running, vars
    <2> QED
      BY <2>1, <2>2, Unseen
  <1>2. CASE NotStarted
    BY <1>2 DEF NotStarted, osVars, streamVars, GroupInv, PromiseInv, Running,
       Promise!RunNext, Promise!Refuse
  <1>3. CASE Spawn
    BY <1>3 DEF Spawn, streamVars, GroupInv, Running, Promise!RunNext, Promise!Start
  <1>4. CASE PumpStep
    <2>1. /\ UNCHANGED <<osVars, endVars, main, invocation>> /\ Running /\ Running'
          /\ main # "settled"
      BY <1>4 DEF PumpStep, Running
    <2>2. CASE PumpDelivers
      <3>1. /\ queue # <<>> /\ queue \in Seq(Lines) /\ ~fatal /\ Consumed(Head(queue))
        BY <2>2 DEF PumpDelivers, OutputInv
      <3>2. lineBuffer = <<>> /\ Len(seen) + 0 = Len(seen)
        BY <3>1 DEF OutputInv, Stretch
      <3>3. Stretch(wrote, Len(seen), queue)
        BY <3>1, <3>2 DEF OutputInv
      <3>4. PICK l \in Lines : Promise!Takes(l)
        BY <2>1, <3>1, <3>3, LineIsTaken
      <3> QED
        BY <2>1, <3>4 DEF Promise!RunNext, Promise!TakeLine, osVars, endVars
    <2>3. CASE ~PumpDelivers
      <3>1. acc' = acc
        BY <1>4, <2>3 DEF PumpStep, PumpEnds, PumpSettles, PumpKeeps, PumpRetired, ObserverReturns,
           ObserverFails, CallRejected, streamVars
      <3> QED
        BY <2>1, <3>1, Unseen DEF osVars, endVars
    <2> QED
      BY <2>2, <2>3
  <1>5. CASE Native
    <2>1. UNCHANGED <<main, born, acc, endVars, invocation>>
      BY <1>5 DEF Native, streamVars, Fork, Exit, Write, Warn
    <2>2. alive' = alive \/ (alive # {} /\ alive' # {}) \/ (alive # {} /\ alive' = {})
      BY <1>5 DEF Native, Fork, Exit, Write, Warn
    <2> QED
      BY <2>1, <2>2 DEF Promise!RunNext, Promise!LastEnds, Promise!runVars, Running, endVars
  <1> QED
    BY <1>1, <1>2, <1>3, <1>4, <1>5, MainAsPromised DEF Next, Child

(* Whatever the output, the limits, the descendants and the order of events, *)
(* a run does only what its caller was promised (KeepsPromise, but for its   *)
(* liveness).                                                               *)
THEOREM PromiseKept == Spec => Promise!RunSafety
  <1>1. Init => Promise!RunInit
    BY SameAccumulator DEF Init, Running, Promise!RunInit
  <1>2. Spec => []ReturnInv
    BY ReturnInit, ReturnInductive, GroupInvariant, OutputInvariant, PTL DEF Spec
  <1>3. Spec => []PromiseInv
    BY <1>2, PromiseInit, PromiseInductive, GroupInvariant, PTL DEF Spec
  <1> QED
    BY <1>1, <1>2, <1>3, StepAsPromised, GroupInvariant, OutputInvariant, PTL
       DEF Spec, Promise!RunSafety

-----------------------------------------------------------------------------
(***************************************************************************)
(* The observers.                                                           *)
(***************************************************************************)
(* Only the observer of the latest line may act.                             *)
TurnInv == authority \in {0, Len(seen)}

(* Lines are taken up in turn, by a run that nothing failed.                 *)
LEMMA TurnOfPump ==
    ASSUME TurnInv, PumpStep
    PROVE  TurnInv' /\ (seen' # seen => active /\ ~fatal)
  BY DEF TurnInv, PumpStep, PumpEnds, PumpSettles, PumpKeeps, PumpDelivers, PumpRetired, ObserverReturns,
     ObserverFails, CallRejected, Fail, failVars, streamVars

LEMMA TurnOfMain ==
    ASSUME TurnInv, MainStep
    PROVE  TurnInv' /\ (seen' # seen => active /\ ~fatal)
  BY DEF TurnInv, MainStep, GroupSettled, PipesClosed, ForceClose, DrainTimesOut, SettleDrained,
     FinishRetired, FinishFails, FinishDelivers, FinalReturns, FinalFails, Settle, Fail,
     failVars, streamVars

LEMMA TurnOfOthers ==
    ASSUME TurnInv, [Next]_vars, ~PumpStep, ~MainStep
    PROVE  TurnInv' /\ seen' = seen
  BY DEF TurnInv, Next, Child, NotStarted, Spawn, SpawnEvent, SpawnError, ExitEvent, ReadLine,
     ReadWarning, CloseEvent, StreamError, Retire, OwnerCheck, Tick, CleanupStep, Native,
     ObserverActs, Fail, BeginCleanup, failVars, streamVars, vars

LEMMA TurnInductive ==
    ASSUME TurnInv, [Next]_vars
    PROVE  TurnInv' /\ (seen' # seen => active /\ ~fatal)
  BY TurnOfPump, TurnOfMain, TurnOfOthers

(* Nothing but an observer whose turn it is adds to what was delivered.      *)
LEMMA DeliveredInTurn ==
    ASSUME TurnInv, [Next]_vars, NEW i \in delivered' \ delivered
    PROVE  i = Len(seen) /\ active /\ ~fatal /\ main # "settled"
  <1>1. CASE \E j \in 1 .. MaxLines : ObserverActs(j)
    BY <1>1, LimitsAreNatural DEF ObserverActs, MayAct, TurnInv
  <1>2. CASE delivered' = delivered
    BY <1>2
  <1> QED
    BY <1>1, <1>2 DEF Next, Child, NotStarted, Spawn, SpawnEvent, SpawnError, ExitEvent,
       ReadLine, ReadWarning, CloseEvent, StreamError, Retire, OwnerCheck, Tick, PumpStep,
       CleanupStep, MainStep, Native, vars

LEMMA TurnInvariant == Spec => []TurnInv
  <1>1. Init => TurnInv
    BY DEF Init, TurnInv
  <1> QED
    BY <1>1, TurnInductive, PTL DEF Spec

(* For any output and any limits, an observer acts only for the latest line, *)
(* and only while nothing has failed and the owner is live.                  *)
THEOREM ObserversTakeTurns == Spec => ObserversInTurn
  <1>1. ASSUME TurnInv, [Next]_vars
        PROVE  [/\ seen' # seen => active /\ ~fatal
                /\ \A i \in delivered' \ delivered :
                     i = Len(seen) /\ active /\ ~fatal /\ main # "settled"]_vars
    BY <1>1, TurnInductive, DeliveredInTurn
  <1> QED
    BY <1>1, TurnInvariant, PTL DEF Spec, ObserversInTurn

-----------------------------------------------------------------------------
(***************************************************************************)
(* The queue.                                                               *)
(***************************************************************************)
(* A run that failed keeps no queue, and any other has a pump for it.        *)
ServedInv ==
    /\ fatal => queue = <<>>
    /\ QueueServed

LEMMA ServedKept ==
    ASSUME ServedInv, UNCHANGED <<failVars, pump>> \/ (Fail /\ UNCHANGED pump)
    PROVE  ServedInv'
  BY DEF ServedInv, QueueServed, failVars, Fail

LEMMA ServedMain == ASSUME ServedInv, MainStep PROVE ServedInv'
  <1>1. pump' = pump
    BY DEF MainStep
  <1>2. CASE GroupSettled \/ PipesClosed \/ ForceClose
    BY <1>1, <1>2, ServedKept DEF GroupSettled, PipesClosed, ForceClose
  <1>3. CASE FinishDelivers
    BY <1>1, <1>3 DEF FinishDelivers, ServedInv, QueueServed
  <1>4. CASE DrainTimesOut \/ SettleDrained \/ FinishRetired \/ FinishFails \/ FinalReturns
             \/ FinalFails
    BY <1>1, <1>4 DEF DrainTimesOut, SettleDrained, FinishRetired, FinishFails, FinalReturns,
       FinalFails, Settle, ServedInv, QueueServed
  <1> QED
    BY <1>2, <1>3, <1>4 DEF MainStep

LEMMA ServedInductive == ASSUME ServedInv, [Next]_vars PROVE ServedInv'
  <1>1. CASE NotStarted \/ Spawn \/ SpawnEvent \/ SpawnError \/ ReadWarning \/ CloseEvent
             \/ StreamError \/ Retire \/ OwnerCheck \/ Tick \/ Native
             \/ (\E i \in 1 .. MaxLines : ObserverActs(i)) \/ UNCHANGED vars
    BY <1>1, ServedKept DEF NotStarted, Spawn, SpawnEvent, SpawnError, ReadWarning, CloseEvent,
       StreamError, Retire, OwnerCheck, Tick, Native, ObserverActs, vars
  <1>2. CASE ExitEvent \/ CleanupStep
    BY <1>2 DEF ExitEvent, BeginCleanup, CleanupStep, ServedInv, QueueServed
  <1>3. CASE ReadLine
    BY <1>3 DEF ReadLine, Fail, Awoken, failVars, ServedInv, QueueServed
  <1>4. CASE PumpStep
    BY <1>4 DEF PumpStep, PumpEnds, PumpSettles, PumpKeeps, PumpDelivers, PumpRetired,
       ObserverReturns, ObserverFails, CallRejected, Fail, failVars, ServedInv, QueueServed
  <1> QED
    BY <1>1, <1>2, <1>3, <1>4, ServedMain DEF Next, Child

(* For any output and any limits, a line that is queued at any moment, the   *)
(* end of the pump's loop included, has a pump that will come to it.         *)
THEOREM QueueStaysServed == Spec => []QueueServed
  <1>1. Init => ServedInv
    BY DEF Init, ServedInv, QueueServed
  <1>2. ServedInv => QueueServed
    BY DEF ServedInv
  <1> QED
    BY <1>1, <1>2, ServedInductive, PTL DEF Spec

-----------------------------------------------------------------------------
(***************************************************************************)
(* Types and limits.                                                        *)
(***************************************************************************)
(* The flags.                                                                *)
FlagsInv ==
    /\ born \in BOOLEAN /\ unended \in BOOLEAN
    /\ active \in BOOLEAN /\ fatal \in BOOLEAN /\ exited \in BOOLEAN
    /\ closed \in BOOLEAN /\ forced \in BOOLEAN /\ clean \in BOOLEAN

(* The states of the run.                                                    *)
StatesInv ==
    /\ code \in {"zero", "nonzero", "signal", None}
    /\ warned \in {"no", "written", "read"}
    /\ main \in {"ready", "stopping", "closing", "draining", "finishing", "settled"}
    /\ cleanup \in {"no", "term", "kill", "clean", "unclean"}
    /\ slice \in 0 .. 3
    /\ pump \in {"idle", "ready", "calling", "ending"}
    /\ outcome \in {"returned", "threw", None}

LEMMA FlagsInductive == ASSUME FlagsInv, [Next]_vars PROVE FlagsInv'
  <1> USE DEF FlagsInv
  <1>1. CASE NotStarted
    BY <1>1 DEF NotStarted, osVars, failVars
  <1>2. CASE Spawn
    BY <1>2 DEF Spawn, failVars
  <1>3. CASE SpawnEvent \/ SpawnError \/ StreamError \/ Retire \/ OwnerCheck
    BY <1>3 DEF SpawnEvent, SpawnError, StreamError, Retire, OwnerCheck, Fail, osVars, failVars,
       endVars
  <1>4. CASE ExitEvent \/ ReadLine \/ ReadWarning \/ CloseEvent
    BY <1>4 DEF ExitEvent, ReadLine, ReadWarning, CloseEvent, Fail, BeginCleanup, osVars,
       failVars, endVars
  <1>5. CASE Tick \/ CleanupStep
    BY <1>5 DEF Tick, CleanupStep, GroupGone, Escalate, GroupRemains, osVars, failVars, endVars
  <1>6. CASE PumpStep
    BY <1>6 DEF PumpStep, PumpEnds, PumpSettles, PumpKeeps, PumpDelivers, PumpRetired, ObserverReturns,
       ObserverFails, CallRejected, Fail, osVars, failVars, endVars
  <1>7. CASE MainStep
    <2>1. UNCHANGED <<osVars, active, exited, closed>>
      BY <1>7 DEF MainStep
    <2>2. fatal' \in BOOLEAN /\ forced' \in BOOLEAN /\ clean' \in BOOLEAN
      BY <1>7 DEF MainStep, GroupSettled, PipesClosed, ForceClose, FinishDelivers,
         DrainTimesOut, SettleDrained, FinishRetired, FinishFails, FinalReturns, FinalFails,
         Settle, CleanupComplete, Fail, failVars, endVars
    <2> QED
      BY <2>1, <2>2 DEF osVars
  <1>8. CASE Native
    BY <1>8 DEF Native, Fork, Exit, Write, Warn, failVars, endVars
  <1>9. CASE UNCHANGED vars \/ \E i \in 1 .. MaxLines : ObserverActs(i)
    BY <1>9 DEF vars, ObserverActs, osVars, failVars, endVars
  <1> QED
    BY <1>1, <1>2, <1>3, <1>4, <1>5, <1>6, <1>7, <1>8, <1>9 DEF Next, Child

LEMMA StatesInductive == ASSUME StatesInv, [Next]_vars PROVE StatesInv'
  <1> USE DEF StatesInv
  <1>1. CASE NotStarted \/ Spawn
    BY <1>1 DEF NotStarted, Spawn, osVars, failVars
  <1>2. CASE SpawnEvent \/ SpawnError \/ StreamError \/ Retire \/ OwnerCheck
    BY <1>2 DEF SpawnEvent, SpawnError, StreamError, Retire, OwnerCheck, Fail, Started, osVars,
       failVars, endVars
  <1>3. CASE ExitEvent \/ ReadLine \/ ReadWarning \/ CloseEvent
    BY <1>3 DEF ExitEvent, ReadLine, ReadWarning, CloseEvent, Fail, BeginCleanup, Started,
       Awoken, osVars, failVars, endVars
  <1>4. CASE Tick \/ CleanupStep
    BY <1>4 DEF Tick, CleanupStep, GroupGone, Escalate, GroupRemains, osVars, failVars, endVars
  <1>5. CASE PumpStep
    BY <1>5 DEF PumpStep, PumpEnds, PumpSettles, PumpKeeps, PumpDelivers, PumpRetired, ObserverReturns,
       ObserverFails, CallRejected, Fail, Started, osVars, failVars, endVars
  <1>6. CASE MainStep
    BY <1>6 DEF MainStep, GroupSettled, PipesClosed, ForceClose, FinishDelivers, DrainTimesOut,
       SettleDrained, FinishRetired, FinishFails, FinalReturns, FinalFails, Settle, Go, Fail,
       Started, osVars, failVars, endVars
  <1>7. CASE Native
    BY <1>7 DEF Native, Fork, Exit, Write, Warn, failVars, endVars
  <1>8. CASE UNCHANGED vars \/ \E i \in 1 .. MaxLines : ObserverActs(i)
    BY <1>8 DEF vars, ObserverActs, osVars, failVars, endVars
  <1> QED
    BY <1>1, <1>2, <1>3, <1>4, <1>5, <1>6, <1>7, <1>8 DEF Next, Child

(* The limits, the accumulator, and whose observers acted.                   *)
LimitsInv ==
    /\ Len(wrote) <= MaxLines
    /\ Len(queue) <= MaxQueue
    /\ acc \in Accumulators
    /\ delivered \subseteq 1 .. Len(seen)

LEMMA LimitsKept ==
    ASSUME LimitsInv, UNCHANGED <<wrote, acc, seen, delivered>>,
           queue' = queue \/ queue' = <<>>
    PROVE  LimitsInv'
  BY LimitsAreNatural DEF LimitsInv

(* A line that is taken up is one of the events.                             *)
LEMMA LimitsConsumed ==
    ASSUME LimitsInv, OutputInv, NEW s \in Seq(Lines), s # <<>>, Consumed(Head(s)),
           UNCHANGED <<wrote, delivered>>,
           queue' = queue \/ queue' = <<>> \/ (queue # <<>> /\ queue' = Tail(queue))
    PROVE  LimitsInv'
  <1>1. Head(s) \in Events
    BY LinesAreEvents
  <1>2. acc' \in Accumulators
    BY <1>1, ConsumeType DEF Consumed, LimitsInv
  <1>3. Len(seen') = Len(seen) + 1 /\ Len(seen) \in Nat
    <2>1. seen \in Seq(Lines) /\ Head(s) \in Lines
      BY DEF OutputInv, Stretch
    <2> QED
      BY <2>1 DEF Consumed
  <1>4. delivered' \subseteq 1 .. Len(seen')
    BY <1>3 DEF LimitsInv
  <1>5. Len(queue') <= MaxQueue
    <2>1. queue \in Seq(Lines) /\ MaxQueue \in Nat
      BY LimitsAreNatural DEF OutputInv
    <2>2. CASE queue # <<>> /\ queue' = Tail(queue)
      <3>1. Len(queue') = Len(queue) - 1 /\ Len(queue) \in Nat
        BY <2>1, <2>2
      <3> QED
        BY <2>1, <3>1 DEF LimitsInv
    <2>3. CASE queue' = queue \/ queue' = <<>>
      BY <2>1, <2>3 DEF LimitsInv
    <2> QED
      BY <2>2, <2>3
  <1> QED
    BY <1>2, <1>4, <1>5 DEF LimitsInv

LEMMA LimitsPump == ASSUME LimitsInv, OutputInv, PumpStep PROVE LimitsInv'
  <1>1. UNCHANGED <<wrote, delivered>>
    BY DEF PumpStep, osVars
  <1>2. CASE PumpDelivers
    BY <1>1, <1>2, LimitsConsumed DEF PumpDelivers, Fail, OutputInv
  <1>3. CASE ~PumpDelivers
    BY <1>1, <1>3, LimitsKept DEF PumpStep, PumpEnds, PumpSettles, PumpKeeps, PumpRetired, ObserverReturns,
       ObserverFails, CallRejected, Fail, failVars, streamVars
  <1> QED
    BY <1>2, <1>3

LEMMA LimitsMain == ASSUME LimitsInv, OutputInv, MainStep PROVE LimitsInv'
  <1>1. UNCHANGED <<wrote, delivered>>
    BY DEF MainStep, osVars
  <1>2. CASE FinishDelivers \/ FinishFails
    BY <1>1, <1>2, LimitsConsumed DEF FinishDelivers, FinishFails, Settle, OutputInv
  <1>3. CASE ~(FinishDelivers \/ FinishFails)
    BY <1>1, <1>3, LimitsKept DEF MainStep, GroupSettled, PipesClosed, ForceClose,
       DrainTimesOut, SettleDrained, FinishRetired, FinalReturns, FinalFails, Settle, Fail,
       failVars, streamVars
  <1> QED
    BY <1>2, <1>3

LEMMA LimitsInductive ==
    ASSUME LimitsInv, OutputInv, TurnInv, [Next]_vars PROVE LimitsInv'
  <1>1. CASE NotStarted \/ Spawn \/ SpawnEvent \/ SpawnError \/ ExitEvent \/ ReadWarning
             \/ CloseEvent \/ StreamError \/ Retire \/ OwnerCheck \/ Tick \/ CleanupStep
             \/ UNCHANGED vars
    <2>1. UNCHANGED <<wrote, acc, seen, delivered>>
      BY <1>1 DEF NotStarted, Spawn, SpawnEvent, SpawnError, ExitEvent, ReadWarning, CloseEvent,
         StreamError, Retire, OwnerCheck, Tick, CleanupStep, osVars, streamVars, vars
    <2>2. queue' = queue \/ queue' = <<>>
      BY <1>1 DEF NotStarted, Spawn, SpawnEvent, SpawnError, ExitEvent, ReadWarning, CloseEvent,
         StreamError, Retire, OwnerCheck, Tick, CleanupStep, Fail, BeginCleanup, failVars, vars
    <2> QED
      BY <2>1, <2>2, LimitsKept
  <1>2. CASE ReadLine
    <2>1. UNCHANGED <<wrote, acc, seen, delivered>>
      BY <1>2 DEF ReadLine, streamVars
    <2>2. CASE queue' = queue \/ queue' = <<>>
      BY <2>1, <2>2, LimitsKept
    <2>3. CASE queue' = Append(queue, Head(pipe)) /\ ~QueueFull
      <3>1. Len(queue') = Len(queue) + 1 /\ Len(queue) \in Nat
        BY <2>3 DEF OutputInv
      <3> QED
        BY <2>1, <2>3, <3>1, LimitsAreNatural DEF QueueFull, LimitsInv
    <2> QED
      BY <1>2, <2>2, <2>3 DEF ReadLine, Fail, failVars
  <1>3. CASE Native
    <2>1. UNCHANGED <<queue, acc, seen, delivered>>
      BY <1>3 DEF Native, failVars, streamVars
    <2>2. CASE wrote' = wrote
      BY <2>1, <2>2, LimitsKept
    <2>3. ASSUME NEW l \in Lines, Write(l) PROVE LimitsInv'
      <3>1. Len(wrote') = Len(wrote) + 1 /\ Len(wrote) \in Nat /\ Len(wrote) < MaxLines
        BY <2>3 DEF Write, OutputInv
      <3> QED
        BY <2>1, <3>1, LimitsAreNatural DEF LimitsInv
    <2> QED
      BY <1>3, <2>2, <2>3 DEF Native, Fork, Exit, Warn
  <1>4. ASSUME NEW i \in 1 .. MaxLines, ObserverActs(i) PROVE LimitsInv'
    <2>1. i = Len(seen) /\ delivered' = delivered \cup {i}
      BY <1>4, LimitsAreNatural DEF ObserverActs, MayAct, TurnInv
    <2>2. Len(seen) \in Nat /\ i \in 1 .. Len(seen)
      BY <2>1, LimitsAreNatural DEF OutputInv, Stretch
    <2>3. UNCHANGED <<wrote, queue, acc, seen>>
      BY <1>4 DEF ObserverActs, osVars, failVars, streamVars
    <2> QED
      BY <2>1, <2>2, <2>3 DEF LimitsInv
  <1> QED
    BY <1>1, <1>2, <1>3, <1>4, LimitsPump, LimitsMain DEF Next, Child

(* Every variable has its type and keeps its limit.                          *)
THEOREM TypesHold == Spec => []TypeOK
  <1>1. Init => FlagsInv /\ StatesInv /\ LimitsInv
    <2>1. Init => FlagsInv
      BY DEF Init, FlagsInv
    <2>2. Init => StatesInv
      BY DEF Init, StatesInv
    <2>3. NewAccumulator \in Accumulators
      BY DEF NewAccumulator, Accumulators
    <2>4. Init => LimitsInv
      BY <2>3, LimitsAreNatural DEF Init, LimitsInv
    <2> QED
      BY <2>1, <2>2, <2>4
  <1>2. FlagsInv /\ StatesInv /\ LimitsInv /\ GroupInv /\ OutputInv /\ TurnInv => TypeOK
    <2>1. ASSUME FlagsInv
          PROVE  {born, unended, active, fatal, exited, closed, forced, clean} \subseteq BOOLEAN
      BY <2>1 DEF FlagsInv
    <2>2. ASSUME OutputInv, TurnInv
          PROVE  /\ pipe \in Seq(Lines) /\ seen \in Seq(Lines)
                 /\ authority \in 0 .. Len(seen)
      BY <2>2 DEF OutputInv, TurnInv, Stretch
    <2> QED
      BY <2>1, <2>2 DEF StatesInv, LimitsInv, GroupInv, OutputInv, TypeOK
  <1>3. Spec => []FlagsInv
    BY <1>1, FlagsInductive, PTL DEF Spec
  <1>4. Spec => []StatesInv
    BY <1>1, StatesInductive, PTL DEF Spec
  <1>5. Spec => []LimitsInv
    BY <1>1, LimitsInductive, OutputInvariant, TurnInvariant, PTL DEF Spec
  <1> QED
    BY <1>2, <1>3, <1>4, <1>5, GroupInvariant, OutputInvariant, TurnInvariant, PTL
=============================================================================
