----------------------------- MODULE AgyProcess -----------------------------
(***************************************************************************)
(* One native process run to its end and settled (runBoundedProcess and      *)
(* runAgyStreamProcess, src/src/cli/agy-process.ts).  An action is one event *)
(* of the event loop, up to the next await.                                  *)
(*                                                                         *)
(* The queue and the output limits count lines, and a chunk is one line.     *)
(* Time is the slice of the six-second settlement allowance that has begun:  *)
(* 0 before the term grace ends, 1 before the kill drain and the wait for    *)
(* the pipes end, 2 before the allowance does, 3 after.  Only whether        *)
(* something has failed is kept, not the kind of the failure.                *)
(***************************************************************************)
EXTENDS AgyStreamEvents, Naturals

CONSTANTS
    Descendants, \* the kinds of process the leader may leave behind
    Lines,      \* what the process may write
    MaxLines,   \* lines it writes
    MaxQueue,   \* lines the delivery queue holds
    MaxOutput   \* lines the runner reads

ASSUME DescendantsAreKinds == Descendants \subseteq {"member", "worker", "stray"}
ASSUME LinesAreEvents == Lines \subseteq Events
ASSUME LimitsAreNatural == MaxLines \in Nat /\ MaxQueue \in Nat /\ MaxOutput \in Nat
ASSUME NoneIsNotYet == None \notin {"zero", "nonzero", "signal", "returned", "threw"}

VARIABLES
    \* the operating system
    alive,      \* the invocation's processes
    born,       \* the operating system started the leader (child.pid is set)
    code,       \* how the leader ended: "zero", "nonzero", "signal" (None: not yet)
    wrote,      \* lines written to standard output
    unended,    \* the last of them has no newline
    pipe,       \* lines written and not read
    warned,     \* whether standard error holds a critical warning, or one was read
    \* the runner
    active,     \* the scope and its owner are live
    main,       \* where the main flow is
    invocation, \* evidence.invocation
    fatal,      \* something has failed; its lifecycle is aborted
    cleanup,    \* the cleanup of the process group
    slice,      \* of the settlement allowance
    exited,     \* the exit event was handled
    closed,     \* streamsClosed
    forced,     \* forcedPipeClose
    queue,      \* lines read, not delivered
    lineBuffer, \* an unended line
    pump,       \* where the pump is
    acc,        \* the accumulator
    seen,       \* the lines it was given
    authority,  \* the line whose observer may act (0: none)
    delivered,  \* the lines whose observer did act (deliveredOutput)
    clean,      \* termination.cleanupComplete
    outcome     \* "returned" or "threw" (None: not settled)

osVars == <<alive, born, code, wrote, unended, pipe, warned>>
failVars == <<fatal, queue, cleanup, authority>>
streamVars == <<lineBuffer, acc, seen>>
endVars == <<clean, outcome>>
vars == <<osVars, failVars, streamVars, endVars, active, main, invocation, slice,
          exited, closed, forced, pump, delivered>>

(* The leader, descendants in its group with its pipes ("member") and        *)
(* without ("worker"), and those that left it and kept the pipes ("stray").  *)
Owned == {"leader", "member", "worker"}
Writers == {"leader", "member", "stray"}
Processes == {"leader"} \cup Descendants
GroupExists == alive \cap Owned # {}

Init ==
    /\ alive = {} /\ born = FALSE /\ code = None
    /\ wrote = <<>> /\ unended = FALSE /\ pipe = <<>> /\ warned = "no"
    /\ active \in BOOLEAN
    /\ main = "ready" /\ invocation = "not_started"
    /\ fatal = FALSE /\ cleanup = "no" /\ slice = 0
    /\ exited = FALSE /\ closed = FALSE /\ forced = FALSE
    /\ queue = <<>> /\ lineBuffer = <<>> /\ pump = "idle"
    /\ acc = NewAccumulator /\ seen = <<>>
    /\ authority = 0 /\ delivered = {}
    /\ clean = TRUE /\ outcome = None

Running == main \notin {"ready", "settled"}

(***************************************************************************)
(* What the native processes do.  A signal that reaches one is an Exit at a  *)
(* moment of its choosing: signalGroup ignores every error, so that nothing  *)
(* is known of a group that was sent SIGTERM, and SIGKILL, but whether it    *)
(* still exists.                                                            *)
(***************************************************************************)
(* A descendant has its parent's group or leaves it, its pipes or fewer.     *)
Parents == [member |-> Owned \cap Writers, worker |-> Owned, stray |-> Writers]

Fork(p) ==
    /\ p \notin alive
    /\ alive \cap Parents[p] # {}
    /\ alive' = alive \cup {p}
    /\ UNCHANGED <<born, code, wrote, unended, pipe, warned>>

Exit(p) ==
    /\ p \in alive
    /\ alive' = alive \ {p}
    /\ IF p = "leader" THEN code' \in {"zero", "nonzero", "signal"} ELSE UNCHANGED code
    /\ UNCHANGED <<born, wrote, unended, pipe, warned>>

Write(l) ==
    /\ alive \cap Writers # {}
    /\ ~forced /\ ~unended /\ Len(wrote) < MaxLines
    /\ wrote' = Append(wrote, l)
    /\ pipe' = Append(pipe, l)
    /\ unended' \in BOOLEAN
    /\ UNCHANGED <<alive, born, code, warned>>

Warn ==
    /\ alive \cap Writers # {}
    /\ ~forced /\ warned = "no"
    /\ warned' = "written"
    /\ UNCHANGED <<alive, born, code, wrote, unended, pipe>>

(* The processes run on when the runner has settled; what they write then is *)
(* nobody's.                                                                *)
Native ==
    /\ \/ \E p \in Descendants : Fork(p)
       \/ \E p \in Processes : Exit(p)
       \/ Running /\ \E l \in Lines : Write(l)
       \/ Running /\ Warn
    /\ UNCHANGED <<failVars, streamVars, endVars, active, main, invocation, slice,
                   exited, closed, forced, pump, delivered>>

(***************************************************************************)
(* fail and beginCleanup.                                                   *)
(***************************************************************************)
Started(c) == IF c = "no" THEN "term" ELSE c

(* The first failure aborts the observer in flight and empties the queue,    *)
(* which then stays empty.                                                   *)
Fail == fatal' = TRUE /\ queue' = <<>> /\ cleanup' = Started(cleanup) /\ authority' = 0

BeginCleanup == cleanup' = Started(cleanup) /\ UNCHANGED <<fatal, queue, authority>>

(***************************************************************************)
(* Spawning.                                                                *)
(***************************************************************************)
NotStarted ==
    /\ main = "ready"
    /\ main' = "settled"
    /\ outcome' = "threw"
    /\ UNCHANGED <<osVars, failVars, streamVars, clean, active, invocation, slice, exited,
                   closed, forced, pump, delivered>>

(* Mutant: the start is noted when the child says so.                        *)
SpawnUnnoted ==
    /\ main = "ready" /\ active
    /\ main' = "stopping"
    /\ clean' = FALSE
    /\ born' \in BOOLEAN
    /\ alive' = IF born' THEN {"leader"} ELSE {}
    /\ UNCHANGED <<code, wrote, unended, pipe, warned, failVars, streamVars, outcome,
                   active, invocation, slice, exited, closed, forced, pump, delivered>>

Spawn ==
    /\ main = "ready" /\ active
    /\ main' = "stopping"
    /\ invocation' = "possible"
    /\ clean' = FALSE
    /\ born' \in BOOLEAN
    /\ alive' = IF born' THEN {"leader"} ELSE {}
    /\ UNCHANGED <<code, wrote, unended, pipe, warned, failVars, streamVars, outcome,
                   active, slice, exited, closed, forced, pump, delivered>>

SpawnEvent ==
    /\ Running /\ born /\ invocation = "possible"
    /\ invocation' = "started"
    /\ IF active THEN UNCHANGED failVars ELSE Fail
    /\ UNCHANGED <<osVars, streamVars, endVars, active, main, slice, exited, closed, forced,
                   pump, delivered>>

SpawnError ==
    /\ Running /\ ~born /\ invocation = "possible"
    /\ invocation' = "not_started"
    /\ Fail
    /\ UNCHANGED <<osVars, streamVars, endVars, active, main, slice, exited, closed, forced,
                   pump, delivered>>

(***************************************************************************)
(* Events of the child and its pipes.  The first one is handled before any.  *)
(***************************************************************************)
Handling == Running /\ invocation # "possible"

ExitEvent ==
    /\ Handling /\ code # None /\ ~exited
    /\ exited' = TRUE
    /\ BeginCleanup
    /\ UNCHANGED <<osVars, streamVars, endVars, active, main, invocation, slice, closed,
                   forced, pump, delivered>>

(* Mutant: the line is counted before it is added.                           *)
QueueOverFull == Len(queue) > MaxQueue

QueueFull == Len(queue) >= MaxQueue

Awoken(p) == IF p = "idle" THEN "ready" ELSE p

ReadLine ==
    LET received == Len(wrote) - Len(pipe) + 1
        over == received > MaxOutput \/ (~fatal /\ QueueFull)
    IN  /\ Handling /\ ~closed /\ ~forced /\ pipe # <<>>
        /\ pipe' = Tail(pipe)
        /\ IF over THEN Fail /\ UNCHANGED pump
           ELSE IF fatal THEN UNCHANGED <<failVars, pump>>
           ELSE /\ queue' = Append(queue, Head(pipe))
                /\ pump' = Awoken(pump)
                /\ UNCHANGED <<fatal, cleanup, authority>>
        /\ UNCHANGED <<alive, born, code, wrote, unended, warned, streamVars, endVars,
                       active, main, invocation, slice, exited, closed, forced, delivered>>

(* A warning is missed, and then as if it had not been written, when more    *)
(* than 4096 bytes follow it in its chunk: the window is cut to its tail     *)
(* before it is searched.                                                   *)
ReadWarning ==
    /\ Handling /\ ~closed /\ ~forced /\ warned = "written"
    /\ warned' \in {"read", "no"}
    /\ UNCHANGED <<alive, born, code, wrote, unended, pipe, failVars, streamVars,
                   endVars, active, main, invocation, slice, exited, closed, forced, pump,
                   delivered>>

(* Mutant: exit is taken for close.                                          *)
ExitCloses == exited

(* The leader was reaped, and both pipes were read to their end or destroyed. *)
Closes ==
    /\ exited \/ ~born
    /\ forced \/ (alive \cap Writers = {} /\ pipe = <<>> /\ warned # "written")

CloseEvent ==
    /\ Handling /\ ~closed
    /\ Closes
    /\ closed' = TRUE
    /\ UNCHANGED <<osVars, failVars, streamVars, endVars, active, main, invocation, slice,
                   exited, forced, pump, delivered>>

(* An error of a pipe, or of the prompt on standard input.                   *)
StreamError ==
    /\ Handling
    /\ Fail
    /\ UNCHANGED <<osVars, streamVars, endVars, active, main, invocation, slice, exited,
                   closed, forced, pump, delivered>>

(***************************************************************************)
(* The owner and the clock.                                                 *)
(***************************************************************************)
(* The signal aborts, which is handled at once, or the deadline passes or    *)
(* the owner retires, which is not.                                          *)
Retire ==
    /\ active /\ main # "settled"
    /\ active' = FALSE
    /\ \/ Running /\ Fail
       \/ UNCHANGED failVars
    /\ UNCHANGED <<osVars, streamVars, endVars, main, invocation, slice, exited, closed,
                   forced, pump, delivered>>

(* deadlineTimer and ownerTimer.                                             *)
OwnerCheck ==
    /\ Handling /\ ~active /\ ~fatal
    /\ Fail
    /\ UNCHANGED <<osVars, streamVars, endVars, active, main, invocation, slice, exited,
                   closed, forced, pump, delivered>>

Tick ==
    /\ Handling /\ cleanup # "no" /\ slice < 3
    /\ slice' = slice + 1
    /\ UNCHANGED <<osVars, failVars, streamVars, endVars, active, main, invocation, exited,
                   closed, forced, pump, delivered>>

(***************************************************************************)
(* The pump, which hands lines to the accumulator and then to the observer.  *)
(***************************************************************************)
(* Mutant: a chunk that ends within a line replaces the buffer.              *)
KeptAlone == unended /\ Len(queue) = 1

(* The line that was written last lacks its newline and is kept.             *)
Kept == unended /\ pipe = <<>> /\ Len(queue) = 1

Consumed(l) ==
    /\ acc' = Consume(acc, l)
    /\ seen' = Append(seen, l)

(* The loop is left, here or by one of the failures below; lines that arrive *)
(* from now on find the pump still marked as running.                        *)
PumpEnds ==
    /\ pump = "ready"
    /\ fatal \/ queue = <<>>
    /\ pump' = "ending"
    /\ UNCHANGED <<failVars, streamVars>>

(* Mutant: the mark is cleared and the queue not looked at again.            *)
PumpForgets ==
    /\ pump = "ending"
    /\ pump' = "idle"
    /\ UNCHANGED <<failVars, streamVars>>

(* Its finally block clears the mark and starts it again for those lines.    *)
PumpSettles ==
    /\ pump = "ending"
    /\ pump' = IF ~fatal /\ queue # <<>> THEN "ready" ELSE "idle"
    /\ UNCHANGED <<failVars, streamVars>>

PumpKeeps ==
    /\ pump = "ready" /\ ~fatal /\ queue # <<>>
    /\ active /\ Kept
    /\ lineBuffer' = queue
    /\ queue' = <<>>
    /\ UNCHANGED <<acc, seen, pump, fatal, cleanup, authority>>

PumpDelivers ==
    /\ pump = "ready" /\ ~fatal /\ queue # <<>>
    /\ active /\ ~Kept
    /\ Consumed(Head(queue))
    /\ IF acc'.failed THEN Fail /\ pump' = "ending"
       ELSE /\ queue' = Tail(queue)
            /\ authority' = Len(seen')
            /\ pump' = "calling"
            /\ UNCHANGED <<fatal, cleanup>>
    /\ UNCHANGED lineBuffer

PumpRetired ==
    /\ pump = "ready" /\ ~fatal /\ queue # <<>>
    /\ ~active
    /\ Fail /\ pump' = "ending"
    /\ UNCHANGED streamVars

ObserverReturns ==
    /\ pump = "calling" /\ authority # 0
    /\ authority' = 0
    /\ pump' = "ready"
    /\ UNCHANGED <<fatal, queue, cleanup, streamVars>>

(* It throws, or its second is over.                                         *)
ObserverFails ==
    /\ pump = "calling" /\ authority # 0
    /\ Fail /\ pump' = "ending"
    /\ UNCHANGED streamVars

(* The abort of the lifecycle rejects the call.                              *)
CallRejected ==
    /\ pump = "calling" /\ authority = 0
    /\ pump' = "ending"
    /\ UNCHANGED <<failVars, streamVars>>

PumpStep ==
    /\ Running
    /\ \/ PumpEnds \/ PumpSettles \/ PumpKeeps \/ PumpDelivers \/ PumpRetired
       \/ ObserverReturns \/ ObserverFails \/ CallRejected
    /\ UNCHANGED <<osVars, endVars, active, main, invocation, slice, exited, closed, forced,
                   delivered>>

(* Mutant: assertActive of the whole run, not of the call.                   *)
MayActUntilFailure(i) == ~fatal /\ active /\ main # "settled"

(* assertActive of the call; its body may run on long after it is over.      *)
MayAct(i) == authority = i /\ ~fatal /\ active /\ main # "settled"

ObserverActs(i) ==
    /\ i \notin delivered
    /\ MayAct(i)
    /\ delivered' = delivered \cup {i}
    /\ UNCHANGED <<osVars, failVars, streamVars, endVars, active, main, invocation, slice,
                   exited, closed, forced, pump>>

(***************************************************************************)
(* The cleanup of the process group.                                        *)
(***************************************************************************)
GroupGone ==
    /\ cleanup \in {"term", "kill"} /\ ~GroupExists
    /\ cleanup' = "clean"

Escalate ==
    /\ cleanup = "term" /\ GroupExists /\ slice >= 1
    /\ cleanup' = "kill"

GroupRemains ==
    /\ cleanup = "kill" /\ GroupExists /\ slice >= 2
    /\ cleanup' = "unclean"

CleanupStep ==
    /\ Handling
    /\ GroupGone \/ Escalate \/ GroupRemains
    /\ UNCHANGED <<alive, born, code, wrote, unended, pipe, warned, fatal, queue, authority,
                   streamVars, endVars, active, main, invocation, slice, exited, closed,
                   forced, pump, delivered>>

(***************************************************************************)
(* The main flow.                                                           *)
(***************************************************************************)
Go(from, to) == main = from /\ main' = to

GroupSettled ==
    /\ Go("stopping", "closing")
    /\ cleanup \in {"clean", "unclean"}
    /\ UNCHANGED <<failVars, streamVars, endVars, forced>>

PipesClosed ==
    /\ Go("closing", "draining")
    /\ closed
    /\ UNCHANGED <<failVars, streamVars, endVars, forced>>

(* Mutant: only a run that has not failed yet waits no longer.               *)
ForceCloseUnfailed ==
    /\ Go("closing", "draining")
    /\ ~closed /\ slice >= 2 /\ ~fatal
    /\ forced' = TRUE
    /\ Fail
    /\ UNCHANGED <<streamVars, endVars>>

ForceClose ==
    /\ Go("closing", "draining")
    /\ ~closed /\ slice >= 2
    /\ forced' = TRUE
    /\ Fail
    /\ UNCHANGED <<streamVars, endVars>>

Drained == pump = "idle" /\ queue = <<>>

(* Mutant: a kill that did not work is not looked at.                        *)
CleanRegardless == closed /\ ~forced /\ Drained

CleanupComplete == cleanup = "clean" /\ closed /\ ~forced /\ Drained

(* Mutant: the exit is enough, whatever the stream says.                     *)
AgreesOnExit == exited /\ code = "zero"

(* What the caller is told: the snapshot only of a run that nothing failed   *)
(* and whose stream, exit and diagnostics agree.                             *)
Agrees ==
    /\ exited /\ code # "signal"
    /\ Finalizes(acc)
    /\ acc.result.status = "SUCCESS" => code = "zero"
    /\ warned # "read"

Settle(failed) ==
    /\ main' = "settled"
    /\ clean' = CleanupComplete
    /\ fatal' = (failed \/ cleanup # "clean")
    /\ outcome' = IF fatal' \/ ~Agrees THEN "threw" ELSE "returned"
    /\ queue' = IF fatal' THEN <<>> ELSE queue
    /\ authority' = 0
    /\ UNCHANGED <<cleanup, forced>>

DrainTimesOut ==
    /\ main = "draining" /\ ~Drained /\ slice = 3
    /\ Settle(TRUE)
    /\ UNCHANGED streamVars

SettleDrained ==
    /\ main = "draining" /\ Drained
    /\ fatal \/ lineBuffer = <<>>
    /\ Settle(fatal)
    /\ UNCHANGED streamVars

(* stream.finish consumes the unended line.                                  *)
FinishRetired ==
    /\ main = "draining" /\ Drained /\ ~fatal /\ lineBuffer # <<>>
    /\ ~active
    /\ Settle(TRUE)
    /\ UNCHANGED streamVars

FinishFails ==
    /\ main = "draining" /\ Drained /\ ~fatal /\ lineBuffer # <<>>
    /\ active
    /\ Consumed(Head(lineBuffer))
    /\ acc'.failed
    /\ Settle(TRUE)
    /\ UNCHANGED lineBuffer

FinishDelivers ==
    /\ Go("draining", "finishing")
    /\ Drained /\ ~fatal /\ lineBuffer # <<>>
    /\ active
    /\ Consumed(Head(lineBuffer))
    /\ ~acc'.failed
    /\ authority' = Len(seen')
    /\ lineBuffer' = <<>>
    /\ UNCHANGED <<fatal, queue, cleanup, endVars, forced>>

FinalReturns ==
    /\ main = "finishing" /\ ~fatal
    /\ Settle(FALSE)
    /\ UNCHANGED streamVars

(* The last observer throws, is aborted, or runs out of time.                *)
FinalFails ==
    /\ main = "finishing"
    /\ Settle(TRUE)
    /\ UNCHANGED streamVars

MainStep ==
    /\ Handling
    /\ \/ GroupSettled \/ PipesClosed \/ ForceClose \/ DrainTimesOut \/ SettleDrained
       \/ FinishRetired \/ FinishFails \/ FinishDelivers \/ FinalReturns \/ FinalFails
    /\ UNCHANGED <<osVars, active, invocation, slice, exited, closed, pump, delivered>>

(***************************************************************************)
(* The whole run.                                                           *)
(***************************************************************************)
Child == SpawnEvent \/ SpawnError \/ ExitEvent \/ ReadLine \/ ReadWarning \/ CloseEvent

Next ==
    \/ NotStarted \/ Spawn \/ Child \/ StreamError
    \/ Retire \/ OwnerCheck \/ Tick
    \/ PumpStep \/ CleanupStep \/ MainStep
    \/ Native
    \/ \E i \in 1 .. MaxLines : ObserverActs(i)

Spec == Init /\ [][Next]_vars

(* The event loop turns, the deadline is finite and the clock goes on.       *)
(* Nothing is assumed of the native processes, nor of an observer but that   *)
(* its second passes.                                                        *)
Fairness ==
    /\ WF_vars(Spawn) /\ WF_vars(SpawnEvent) /\ WF_vars(SpawnError)
    /\ WF_vars(Retire) /\ WF_vars(OwnerCheck) /\ WF_vars(Tick)
    /\ WF_vars(PumpStep) /\ WF_vars(CleanupStep) /\ WF_vars(MainStep)

FairSpec == Spec /\ Fairness

-----------------------------------------------------------------------------
TypeOK ==
    /\ alive \subseteq Processes
    /\ {born, unended, active, fatal, exited, closed, forced, clean} \subseteq BOOLEAN
    /\ code \in {"zero", "nonzero", "signal", None}
    /\ wrote \in Seq(Lines) /\ Len(wrote) <= MaxLines
    /\ pipe \in Seq(Lines) /\ seen \in Seq(Lines)
    /\ queue \in Seq(Lines) /\ Len(queue) <= MaxQueue
    /\ lineBuffer \in Seq(Lines) /\ Len(lineBuffer) <= 1
    /\ warned \in {"no", "written", "read"}
    /\ main \in {"ready", "stopping", "closing", "draining", "finishing", "settled"}
    /\ invocation \in {"not_started", "possible", "started"}
    /\ cleanup \in {"no", "term", "kill", "clean", "unclean"}
    /\ slice \in 0 .. 3
    /\ pump \in {"idle", "ready", "calling", "ending"}
    /\ acc \in Accumulators
    /\ authority \in 0 .. Len(seen)
    /\ delivered \subseteq 1 .. Len(seen)
    /\ outcome \in {"returned", "threw", None}

(* A run that returns has given the accumulator every line the process ever  *)
(* wrote, in order, the last one without a newline included, has ignored no  *)
(* warning that it saw and left none unread, and nothing of the invocation   *)
(* is alive (runBoundedProcess: exit, close, pump and finish in whatever     *)
(* order they come).                                                         *)
ReturnIsWhole ==
    outcome = "returned" => seen = wrote /\ warned = "no" /\ alive = {}

(* What the accumulator saw is a prefix of what was written: a failure in    *)
(* the middle leaves no gap in the partial snapshot (pump, fail).            *)
SeenIsPrefix ==
    Len(seen) <= Len(wrote) /\ \A i \in 1 .. Len(seen) : seen[i] = wrote[i]

(* cleanupComplete is never claimed while a process of the group lives or a  *)
(* descendant holds the pipes, then or later.                                *)
CleanMeansGone == main = "settled" /\ clean => alive = {}

(* A line in the queue always has a pump that will come to it, though it was *)
(* queued after the loop had ended and before its finally block ran, when no *)
(* new pump is started for it (pump, enqueue).                               *)
QueueServed == queue # <<>> => pump # "idle"

(* An observer acts only for the latest line, and a line is only taken up    *)
(* and acted on while nothing has failed and the owner is live; a late       *)
(* continuation never acts (boundedCallback, consumeLine).                   *)
ObserversInTurn ==
    [][/\ seen' # seen => active /\ ~fatal
       /\ \A i \in delivered' \ delivered :
            i = Len(seen) /\ active /\ ~fatal /\ main # "settled"]_vars

(* A run is what its caller may rely on: whatever the processes, observers,  *)
(* owner and clock do, it starts, takes lines, and settles with a true       *)
(* account of what was started and what may be left; and once started it     *)
(* settles, though the process never exits, its observer never returns or    *)
(* its pipes never close (runAgyStreamProcess).                             *)
Promise == INSTANCE NativeRun WITH
    run <- IF Running THEN "going" ELSE main,
    living <- alive # {},
    told <- IF main = "settled" THEN invocation ELSE None,
    clean <- main = "settled" /\ clean

KeepsPromise == Promise!RunSpec
=============================================================================
