---------------------------- MODULE UsageBatcher ----------------------------
(***************************************************************************)
(* The path of a "this key was used now" stamp from a proxied request to   *)
(* api_keys.last_used_at: the handler touches an in-memory buffer, and a   *)
(* background task drains the buffer every 30 seconds, and once more when  *)
(* the server stops, writing one UPDATE per key.                           *)
(*                                                                         *)
(* A time is a natural number, and NotUsed stands for a key that is absent *)
(* from a map or whose column is NULL.                                     *)
(***************************************************************************)
EXTENDS Naturals

CONSTANTS
    Keys,
    Requests,   \* proxied requests being handled at the same time
    MaxTime,    \* bound on the clock
    None

ASSUME MaxTimeAssumption == MaxTime \in Nat
ASSUME NoneAssumption == None \notin Keys

VARIABLES
    clock,      \* SystemTime::now(), taken not to run backwards
    inflight,   \* the verified key of each request past keys::verify
    buffer,     \* UsageBatcher.inner
    drained,    \* what the current flush has taken and not written yet
    lastUsed,   \* the last_used_at column
    flusher,    \* the background task
    server,     \* the process
    used,       \* history: the latest touch of each key
    dropped     \* history: the latest stamp of each key that was lost

proc == <<inflight, buffer, drained, flusher, server>>
vars == <<clock, inflight, buffer, drained, lastUsed, flusher, server, used, dropped>>

NotUsed == 0
Time    == Nat
Empty   == [k \in Keys |-> NotUsed]
Later(s, t) == IF s < t THEN t ELSE s

-----------------------------------------------------------------------------
Init ==
    /\ clock = 1
    /\ inflight = [r \in Requests |-> None]
    /\ buffer = Empty /\ drained = Empty /\ lastUsed = Empty
    /\ flusher = "waiting"
    /\ server = "serving"
    /\ used = Empty /\ dropped = Empty

Tick ==
    /\ clock < MaxTime
    /\ clock' = clock + 1
    /\ UNCHANGED <<proc, lastUsed, used, dropped>>

(* The proxy handler: keys::verify succeeds, and once the upstream has sent *)
(* its headers the key is touched.  A refused, timed out or dropped request *)
(* ends without a touch.                                                    *)

Verified(r, k) ==
    /\ server = "serving"
    /\ inflight[r] = None
    /\ inflight' = [inflight EXCEPT ![r] = k]
    /\ UNCHANGED <<clock, buffer, drained, lastUsed, flusher, server, used, dropped>>

\* Bug: the time is read before the lock is taken, so that a touch may carry an
\* older time than the one it overwrites.
TouchLateLock(r) ==
    /\ inflight[r] # None
    /\ \E t \in 1..clock :
        /\ buffer' = [buffer EXCEPT ![inflight[r]] = t]
        /\ used' = [used EXCEPT ![inflight[r]] = Later(@, t)]
    /\ inflight' = [inflight EXCEPT ![r] = None]
    /\ UNCHANGED <<clock, drained, lastUsed, flusher, server, dropped>>

Touch(r) ==
    /\ inflight[r] # None
    /\ buffer' = [buffer EXCEPT ![inflight[r]] = clock]
    /\ used' = [used EXCEPT ![inflight[r]] = clock]
    /\ inflight' = [inflight EXCEPT ![r] = None]
    /\ UNCHANGED <<clock, drained, lastUsed, flusher, server, dropped>>

Abandon(r) ==
    /\ inflight[r] # None
    /\ inflight' = [inflight EXCEPT ![r] = None]
    /\ UNCHANGED <<clock, buffer, drained, lastUsed, flusher, server, used, dropped>>

(* run_usage_flusher.  While a flush runs the select! polls neither the     *)
(* timer nor the cancel signal.                                             *)

\* Bug: no early return when nothing was buffered.
DrainAlways(whenEmpty, whenNot) ==
    /\ flusher' = whenNot
    /\ drained' = buffer
    /\ buffer' = Empty
    /\ UNCHANGED <<clock, inflight, lastUsed, server, used, dropped>>

Drain(whenEmpty, whenNot) ==
    /\ flusher' = IF buffer = Empty THEN whenEmpty ELSE whenNot
    /\ drained' = buffer
    /\ buffer' = Empty
    /\ UNCHANGED <<clock, inflight, lastUsed, server, used, dropped>>

TimerFires == flusher = "waiting" /\ Drain("waiting", "flushing")

\* Bug: the loop returns on cancel without draining once more.
CancelReturns ==
    /\ flusher = "waiting" /\ server = "cancelled"
    /\ flusher' = "done"
    /\ UNCHANGED <<clock, inflight, buffer, drained, lastUsed, server, used, dropped>>

CancelSeen ==
    flusher = "waiting" /\ server = "cancelled" /\ Drain("done", "finalFlush")

Written(k) ==
    /\ drained' = [drained EXCEPT ![k] = NotUsed]
    /\ flusher' = IF \E j \in Keys \ {k} : drained[j] # NotUsed THEN flusher
                  ELSE IF flusher = "flushing" THEN "waiting" ELSE "done"
    /\ UNCHANGED <<clock, inflight, buffer, server, used>>

\* keys::mark_used overwrites the column, whatever it holds.
MarkUsed(k) ==
    /\ drained[k] # NotUsed
    /\ lastUsed' = [lastUsed EXCEPT ![k] = drained[k]]
    /\ Written(k)
    /\ UNCHANGED dropped

\* Bug: a failed write ends the flush with the rest of the drained map.
MarkUsedFailsAll(k) ==
    /\ drained[k] # NotUsed
    /\ drained' = Empty
    /\ dropped' = [dropped EXCEPT ![k] = Later(@, drained[k])]
    /\ flusher' = IF flusher = "flushing" THEN "waiting" ELSE "done"
    /\ UNCHANGED <<clock, inflight, buffer, lastUsed, server, used>>

\* A failed write is logged, and the stamp is gone.
MarkUsedFails(k) ==
    /\ drained[k] # NotUsed
    /\ dropped' = [dropped EXCEPT ![k] = Later(@, drained[k])]
    /\ Written(k)
    /\ UNCHANGED lastUsed

(* run_serve.  A signal closes the listener; axum::serve returns when the   *)
(* requests in flight are done, the flusher is cancelled and awaited.       *)

Signal ==
    /\ server = "serving"
    /\ server' = "stopping"
    /\ UNCHANGED <<clock, inflight, buffer, drained, lastUsed, flusher, used, dropped>>

\* Bug: the flusher is told to finish while requests are still being answered.
CancelEarly ==
    /\ server = "stopping"
    /\ server' = "cancelled"
    /\ UNCHANGED <<clock, inflight, buffer, drained, lastUsed, flusher, used, dropped>>

Cancel ==
    /\ server = "stopping"
    /\ \A r \in Requests : inflight[r] = None
    /\ server' = "cancelled"
    /\ UNCHANGED <<clock, inflight, buffer, drained, lastUsed, flusher, used, dropped>>

Exit ==
    /\ server = "cancelled" /\ flusher = "done"
    /\ server' = "exited"
    /\ UNCHANGED <<clock, inflight, buffer, drained, lastUsed, flusher, used, dropped>>

\* The process is killed, or axum::serve fails and run_serve returns at once:
\* what is in memory is gone.
Crash ==
    /\ server # "exited"
    /\ dropped' = [k \in Keys |-> Later(dropped[k], Later(buffer[k], drained[k]))]
    /\ buffer' = Empty /\ drained' = Empty
    /\ inflight' = [r \in Requests |-> None]
    /\ flusher' = "done" /\ server' = "exited"
    /\ UNCHANGED <<clock, lastUsed, used>>

Start ==
    /\ server = "exited"
    /\ server' = "serving" /\ flusher' = "waiting"
    /\ buffer' = Empty /\ drained' = Empty
    /\ UNCHANGED <<clock, inflight, lastUsed, used, dropped>>

Flush(k) == MarkUsed(k) \/ MarkUsedFails(k)

Next ==
    \/ Tick
    \/ \E r \in Requests, k \in Keys : Verified(r, k)
    \/ \E r \in Requests : Touch(r) \/ Abandon(r)
    \/ TimerFires \/ CancelSeen
    \/ \E k \in Keys : Flush(k)
    \/ Signal \/ Cancel \/ Exit \/ Crash \/ Start

Spec == Init /\ [][Next]_vars

(* The runtime polls the flusher whenever its timer or signal is ready, a   *)
(* write ends one way or the other within the 5 s timeouts, and a request   *)
(* ends within its upstream timeout if its client keeps reading; nothing    *)
(* makes a signal come.                                                     *)
Fairness ==
    /\ WF_vars(TimerFires) /\ WF_vars(CancelSeen)
    /\ \A k \in Keys : WF_vars(Flush(k))
    /\ \A r \in Requests : WF_vars(Touch(r) \/ Abandon(r))
    /\ WF_vars(Cancel) /\ WF_vars(Exit)

FairSpec == Spec /\ Fairness

-----------------------------------------------------------------------------
(* Properties                                                              *)

Flushing == flusher \in {"flushing", "finalFlush"}

\* Times are times, and a flush is under way exactly when something is drained.
TypeOK ==
    /\ clock \in Time
    /\ inflight \in [Requests -> Keys \cup {None}]
    /\ buffer \in [Keys -> Time] /\ drained \in [Keys -> Time]
    /\ lastUsed \in [Keys -> Time]
    /\ used \in [Keys -> Time] /\ dropped \in [Keys -> Time]
    /\ flusher \in {"waiting", "flushing", "finalFlush", "done"}
    /\ server \in {"serving", "stopping", "cancelled", "exited"}
    /\ Flushing <=> \E k \in Keys : drained[k] # NotUsed

\* The latest use of a key is buffered, or being flushed, or in the table, unless
\* that very stamp was lost to a failed write or a crash: an older stamp never
\* replaces it, and a touch that races a flush is not swallowed by it.
LatestUseIsKept ==
    \A k \in Keys :
        \/ used[k] \in {buffer[k], drained[k], lastUsed[k]}
        \/ used[k] = dropped[k]

\* last_used_at never runs backwards, although mark_used overwrites it blindly.
NeverBackwards == [][\A k \in Keys : lastUsed'[k] >= lastUsed[k]]_vars

\* "pietro shut down cleanly": when the process has exited, the table holds the
\* latest use of every key, but for stamps whose write failed or that a crash took.
ExitPersistsAll ==
    server = "exited" => \A k \in Keys : used[k] \in {lastUsed[k], dropped[k]}

\* Every use is in the table some day, or a later one is, unless it was lost.
UseIsRecorded ==
    \A k \in Keys : \A t \in 1..MaxTime :
        used[k] = t ~> lastUsed[k] >= t \/ dropped[k] >= t

\* A server told to stop stops, whatever flush the signal finds under way.
StopsWhenTold == server = "stopping" ~> server = "exited"
=============================================================================
