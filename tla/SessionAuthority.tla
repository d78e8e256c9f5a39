-------------------------- MODULE SessionAuthority --------------------------
(***************************************************************************)
(* What AntigravitySessionBindings promises the attempts, resets and plugin  *)
(* processes that share a session (src/src/harness/session-bindings.ts), in  *)
(* whatever order their commits land: the session belongs to one attempt at  *)
(* a time, nobody starts a native process on a conversation that another one *)
(* still works on, an ended generation never comes back, and only the result *)
(* that the session holds is admitted to the transcript.                     *)
(*                                                                         *)
(* Every operation is one step here, and knows nothing of snapshots, leases, *)
(* timeouts and crashes.  SessionBindings implements it.                     *)
(***************************************************************************)
EXTENDS Sequences

CONSTANTS
    Attempts,     \* an attempt is also the conversation that its process creates
    Generations,
    None

VARIABLES
    generation,  \* the one that stands, or None
    retired,     \* those that ended
    sound,       \* what is stored belongs to the host's revision of the row
    closing,     \* a reset is ending the session
    bound,       \* the conversation of the session, or None
    holder,      \* the attempt to which it belongs, or None
    winner,      \* the attempt whose result it holds, or None
    talks,       \* the conversation on which each attempt's process works
    lost,        \* the host has thrown the row away
    admitted,    \* the attempts whose answer is on its way to the transcript
    transcript   \* those whose answer has reached it

rowVars == <<generation, retired, sound, closing, bound, holder, winner>>
answerVars == <<admitted, transcript>>
authorityVars == <<rowVars, talks, lost, answerVars>>

AuthorityInit ==
    /\ generation = None /\ retired = {}
    /\ sound = TRUE /\ closing = FALSE
    /\ bound = None /\ holder = None /\ winner = None
    /\ talks = [a \in Attempts |-> None]
    /\ lost = FALSE
    /\ admitted = {} /\ transcript = <<>>

Open == generation # None /\ sound /\ ~closing

(* The generation that stood, if any, has ended for good.                    *)
Begins(g) ==
    /\ generation' = g
    /\ retired' = retired \cup ({generation} \ {None})
    /\ g \notin retired'

(* beginAttempt: the result of the predecessor is withdrawn.                 *)
Claim(a) ==
    /\ holder = None
    /\ IF generation = None
       THEN \E g \in Generations : Begins(g)
       ELSE Open /\ UNCHANGED <<generation, retired>>
    /\ holder' = a /\ winner' = None
    /\ UNCHANGED <<sound, closing, bound, talks, lost, answerVars>>

(* The last fence before the spawn: the conversation of the session is       *)
(* resumed, or a new one begun, and no other process is in the way.          *)
Start(a) ==
    LET conversation == IF bound = None THEN a ELSE bound IN
    /\ Open /\ holder = a
    /\ talks[a] = None
    /\ \A b \in Attempts : talks[b] # conversation
    /\ lost \/ \A b \in Attempts : talks[b] = None
    /\ talks' = [talks EXCEPT ![a] = conversation]
    /\ UNCHANGED <<rowVars, lost, answerVars>>

Exits(a) ==
    /\ talks[a] # None
    /\ talks' = [talks EXCEPT ![a] = None]
    /\ UNCHANGED <<rowVars, lost, answerVars>>

(* bindFresh: the holder's own conversation, where there was none.           *)
Bind(a) ==
    /\ Open /\ holder = a
    /\ bound = None /\ bound' = a
    /\ talks[a] \in {None, a}
    /\ UNCHANGED <<generation, retired, sound, closing, holder, winner, talks, lost, answerVars>>

(* endAttempt, once the process of the holder is gone.                       *)
Release(a) ==
    /\ Open /\ holder = a
    /\ talks[a] = None
    /\ holder' = None /\ winner' = a
    /\ UNCHANGED <<generation, retired, sound, closing, bound, talks, lost, answerVars>>

(* assertResultCurrent, and the way to the transcript, which may be refused. *)
Admit(a) ==
    /\ Open /\ holder = None /\ winner = a
    /\ a \notin admitted /\ \A i \in DOMAIN transcript : transcript[i] # a
    /\ admitted' = admitted \cup {a}
    /\ UNCHANGED <<rowVars, talks, lost, transcript>>

Deliver(a) ==
    /\ a \in admitted
    /\ admitted' = admitted \ {a}
    /\ transcript' \in {transcript, Append(transcript, a)}
    /\ UNCHANGED <<rowVars, talks, lost>>

(* clear, first commit: whoever holds the session loses it, though its       *)
(* process may still work; the conversation is kept as long as it is known.  *)
Retire(g) ==
    /\ ~(sound /\ closing)
    /\ Begins(g)
    /\ sound' = TRUE /\ closing' = TRUE
    /\ holder' = None /\ winner' = None
    /\ bound' = IF sound THEN bound ELSE None
    /\ UNCHANGED <<talks, lost, answerVars>>

(* clear, second commit: nobody works on the conversation that is dropped.   *)
Clear ==
    /\ sound /\ closing
    /\ lost \/ \A a \in Attempts : talks[a] = None
    /\ bound # None => \A a \in Attempts : talks[a] # bound
    /\ closing' = FALSE /\ bound' = None
    /\ UNCHANGED <<generation, retired, sound, holder, winner, talks, lost, answerVars>>

(* The host throws the row away, with all that is in it, or revises it.      *)
HostRecreates ==
    /\ Begins(None)
    /\ sound' = TRUE /\ closing' = FALSE
    /\ bound' = None /\ holder' = None /\ winner' = None
    /\ lost' = TRUE
    /\ UNCHANGED <<talks, answerVars>>

HostRevises ==
    /\ generation # None
    /\ sound' \in BOOLEAN
    /\ UNCHANGED <<generation, retired, closing, bound, holder, winner, talks, lost, answerVars>>

AuthorityNext ==
    \/ HostRevises \/ HostRecreates
    \/ \E a \in Attempts :
          Claim(a) \/ Start(a) \/ Exits(a) \/ Bind(a) \/ Release(a) \/ Admit(a) \/ Deliver(a)
    \/ \E g \in Generations : Retire(g)
    \/ Clear

AuthoritySpec == AuthorityInit /\ [][AuthorityNext]_authorityVars
=============================================================================
