------------------------- MODULE UsageBatcher_proofs -------------------------
(***************************************************************************)
(* The usage stamps, for any number of keys and requests and any clock.    *)
(***************************************************************************)
EXTENDS UsageBatcher, TLAPS

-----------------------------------------------------------------------------
(* Where the stamps of a key are, from the oldest to the latest: the       *)
(* column, the flush under way, the buffer.  What is further on is later,  *)
(* and the furthest one is the latest use.                                 *)

StampsOrdered(k) ==
    /\ lastUsed[k] <= used[k] /\ drained[k] <= used[k] /\ dropped[k] <= used[k]
    /\ used[k] <= clock
    /\ drained[k] # NotUsed => lastUsed[k] <= drained[k]
    /\ buffer[k] # NotUsed => buffer[k] = used[k]
    /\ buffer[k] = NotUsed /\ drained[k] # NotUsed => drained[k] = used[k]
    /\ buffer[k] = NotUsed /\ drained[k] = NotUsed => used[k] \in {lastUsed[k], dropped[k]}

(* The order of a shutdown: no request is in flight once the flusher is    *)
(* cancelled, and nothing is buffered once it has drained for the last     *)
(* time.                                                                   *)
ShutdownOrdered ==
    /\ server \in {"cancelled", "exited"} => \A r \in Requests : inflight[r] = None
    /\ server = "exited" => flusher = "done"
    /\ flusher \in {"finalFlush", "done"} =>
          server \in {"cancelled", "exited"} /\ buffer = Empty

BatchInv ==
    /\ clock \in Nat \ {0}
    /\ \A k \in Keys : StampsOrdered(k)
    /\ ShutdownOrdered

\* Times stay times, and a flush is under way exactly when something is drained.
THEOREM TypeCorrect == Spec => []TypeOK
<1>1. Init => TypeOK
  BY DEF Init, TypeOK, Time, Empty, NotUsed, Flushing
<1>2. TypeOK /\ [Next]_vars => TypeOK'
  <2> SUFFICES ASSUME TypeOK, [Next]_vars PROVE TypeOK'
    OBVIOUS
  <2>1. CASE Tick
    BY <2>1 DEF Tick, TypeOK, Time, proc, Flushing
  <2>2. ASSUME NEW r \in Requests, NEW k \in Keys, Verified(r, k) PROVE TypeOK'
    BY <2>2 DEF Verified, TypeOK, Flushing
  <2>3. ASSUME NEW r \in Requests, Touch(r) PROVE TypeOK'
    BY <2>3, NoneAssumption DEF Touch, TypeOK, Flushing
  <2>4. ASSUME NEW r \in Requests, Abandon(r) PROVE TypeOK'
    BY <2>4 DEF Abandon, TypeOK, Flushing
  <2>5. ASSUME NEW e \in {"waiting", "done"}, NEW n \in {"flushing", "finalFlush"}, Drain(e, n)
        PROVE  TypeOK'
    <3>1. buffer = Empty <=> \A k \in Keys : buffer[k] = NotUsed
      BY DEF Empty, TypeOK
    <3>2. Empty \in [Keys -> Time]
      BY DEF Empty, Time, NotUsed
    <3> QED
      BY <2>5, <3>1, <3>2 DEF Drain, TypeOK, Flushing
  <2>6. ASSUME NEW k \in Keys, Flush(k) PROVE TypeOK'
    <3>1. flusher \in {"flushing", "finalFlush"} /\ drained[k] # NotUsed
      BY <2>6 DEF Flush, MarkUsed, MarkUsedFails, TypeOK, Flushing
    <3>2. /\ lastUsed' \in [Keys -> Time] /\ dropped' \in [Keys -> Time]
          /\ Written(k) /\ clock' = clock
      BY <2>6 DEF Flush, MarkUsed, MarkUsedFails, Written, TypeOK, Later, Time
    <3>3. drained' \in [Keys -> Time] /\ drained'[k] = NotUsed
          /\ \A j \in Keys \ {k} : drained'[j] = drained[j]
      BY <3>2 DEF Written, TypeOK, Time, NotUsed
    <3> QED
      BY <3>1, <3>2, <3>3 DEF Written, TypeOK, Flushing
  <2>7. CASE Signal \/ Cancel \/ Exit
    BY <2>7 DEF Signal, Cancel, Exit, TypeOK, Flushing
  <2>8. CASE Crash
    BY <2>8 DEF Crash, TypeOK, Flushing, Empty, Time, NotUsed, Later
  <2>9. CASE Start
    BY <2>9 DEF Start, TypeOK, Flushing, Empty, Time, NotUsed
  <2>10. CASE UNCHANGED vars
    BY <2>10 DEF vars, TypeOK, Flushing
  <2> QED
    BY <2>1, <2>2, <2>3, <2>4, <2>5, <2>6, <2>7, <2>8, <2>9, <2>10
       DEF Next, TimerFires, CancelSeen
<1> QED
  BY <1>1, <1>2, PTL DEF Spec

-----------------------------------------------------------------------------
\* A step that leaves the clock and the stamps of a key alone keeps their order.
LEMMA SameStamps ==
    ASSUME NEW k \in Keys, StampsOrdered(k),
           UNCHANGED <<clock, buffer[k], drained[k], lastUsed[k], used[k], dropped[k]>>
    PROVE  StampsOrdered(k)'
  BY DEF StampsOrdered

LEMMA DrainOrdered ==
    ASSUME TypeOK, BatchInv, ~Flushing, NEW e, NEW n, Drain(e, n), NEW k \in Keys
    PROVE  StampsOrdered(k)'
<1>1. drained[k] = NotUsed
  BY DEF TypeOK
<1>2. /\ buffer[k] \in Nat /\ drained[k] \in Nat /\ lastUsed[k] \in Nat
      /\ used[k] \in Nat /\ dropped[k] \in Nat
  BY DEF TypeOK, Time
<1>3. buffer'[k] = NotUsed /\ drained'[k] = buffer[k]
  BY DEF Drain, Empty
<1> QED
  BY <1>1, <1>2, <1>3 DEF Drain, BatchInv, StampsOrdered, NotUsed

\* One write of a flush, done or failed.
LEMMA FlushOrdered ==
    ASSUME TypeOK, BatchInv, NEW j \in Keys, Flush(j), NEW k \in Keys
    PROVE  StampsOrdered(k)'
<1>1. /\ buffer[k] \in Nat /\ drained[k] \in Nat /\ lastUsed[k] \in Nat
      /\ used[k] \in Nat /\ dropped[k] \in Nat /\ clock \in Nat
  BY DEF TypeOK, Time
<1>2. StampsOrdered(k) /\ clock' = clock /\ buffer' = buffer /\ used' = used
  BY DEF BatchInv, Flush, MarkUsed, MarkUsedFails, Written
<1>3. CASE k # j
  <2>1. UNCHANGED <<drained[k], lastUsed[k], dropped[k]>>
    BY <1>3 DEF Flush, MarkUsed, MarkUsedFails, Written, TypeOK
  <2> QED
    BY <1>2, <2>1, SameStamps
<1>4. CASE k = j
  <2>1. drained[k] # NotUsed /\ drained'[k] = NotUsed
    BY <1>4 DEF Flush, MarkUsed, MarkUsedFails, Written, TypeOK
  <2>2. CASE MarkUsed(j)
    <3>1. lastUsed'[k] = drained[k] /\ dropped'[k] = dropped[k]
      BY <1>4, <2>2 DEF MarkUsed, TypeOK
    <3> QED
      BY <1>1, <1>2, <2>1, <3>1 DEF StampsOrdered, NotUsed
  <2>3. CASE MarkUsedFails(j)
    <3>1. dropped'[k] = Later(dropped[k], drained[k]) /\ lastUsed'[k] = lastUsed[k]
      BY <1>4, <2>3 DEF MarkUsedFails, TypeOK
    <3> QED
      BY <1>1, <1>2, <2>1, <3>1 DEF StampsOrdered, NotUsed, Later
  <2> QED
    BY <2>2, <2>3 DEF Flush
<1> QED
  BY <1>3, <1>4

LEMMA StampsSteps ==
    ASSUME TypeOK, BatchInv, [Next]_vars, NEW k \in Keys
    PROVE  StampsOrdered(k)'
<1>1. StampsOrdered(k) /\ clock \in Nat \ {0}
  BY DEF BatchInv
<1>2. /\ buffer[k] \in Nat /\ drained[k] \in Nat /\ lastUsed[k] \in Nat
      /\ used[k] \in Nat /\ dropped[k] \in Nat
  BY DEF TypeOK, Time
<1>3. CASE Tick
  BY <1>1, <1>2, <1>3 DEF Tick, proc, StampsOrdered
<1>4. ASSUME NEW r \in Requests, Touch(r) PROVE StampsOrdered(k)'
  <2>1. CASE k = inflight[r]
    <3>1. /\ buffer'[k] = clock /\ used'[k] = clock
          /\ UNCHANGED <<clock, drained, lastUsed, dropped>>
      BY <1>4, <2>1 DEF Touch, TypeOK
    <3> QED
      BY <1>1, <1>2, <3>1 DEF StampsOrdered, NotUsed
  <2>2. CASE k # inflight[r]
    BY <1>1, <1>4, <2>2, SameStamps DEF Touch, TypeOK
  <2> QED
    BY <2>1, <2>2
<1>5. CASE TimerFires \/ CancelSeen
  BY <1>5, DrainOrdered DEF TimerFires, CancelSeen, Flushing
<1>6. ASSUME NEW j \in Keys, Flush(j) PROVE StampsOrdered(k)'
  BY <1>6, FlushOrdered
<1>7. CASE Crash
  <2>1. /\ dropped'[k] = Later(dropped[k], Later(buffer[k], drained[k]))
        /\ buffer'[k] = NotUsed /\ drained'[k] = NotUsed
        /\ UNCHANGED <<clock, lastUsed, used>>
    BY <1>7 DEF Crash, Empty
  <2> QED
    BY <1>1, <1>2, <2>1 DEF StampsOrdered, Later, NotUsed
<1>8. CASE Start
  <2>1. buffer = Empty /\ drained[k] = NotUsed
    BY <1>8 DEF Start, BatchInv, ShutdownOrdered, TypeOK, Flushing
  <2>2. buffer[k] = NotUsed /\ buffer'[k] = NotUsed /\ drained'[k] = NotUsed
    BY <1>8, <2>1 DEF Start, Empty
  <2> QED
    BY <1>1, <1>8, <2>1, <2>2, SameStamps DEF Start
<1>9. CASE \/ \E r \in Requests, j \in Keys : Verified(r, j)
           \/ \E r \in Requests : Abandon(r)
           \/ Signal \/ Cancel \/ Exit \/ UNCHANGED vars
  BY <1>1, <1>9, SameStamps DEF Verified, Abandon, Signal, Cancel, Exit, vars
<1> QED
  BY <1>3, <1>4, <1>5, <1>6, <1>7, <1>8, <1>9 DEF Next

LEMMA ShutdownSteps ==
    ASSUME TypeOK, BatchInv, [Next]_vars
    PROVE  ShutdownOrdered'
<1>1. ShutdownOrdered
  BY DEF BatchInv
<1>2. CASE Tick \/ UNCHANGED vars
  BY <1>1, <1>2 DEF Tick, proc, vars, ShutdownOrdered
<1>3. ASSUME NEW r \in Requests, NEW k \in Keys, Verified(r, k) PROVE ShutdownOrdered'
  BY <1>1, <1>3 DEF Verified, ShutdownOrdered
<1>4. ASSUME NEW r \in Requests, Touch(r) \/ Abandon(r) PROVE ShutdownOrdered'
  <2>1. server \notin {"cancelled", "exited"} /\ flusher \notin {"finalFlush", "done"}
    BY <1>1, <1>4 DEF Touch, Abandon, ShutdownOrdered
  <2> QED
    BY <1>4, <2>1 DEF Touch, Abandon, ShutdownOrdered
<1>5. CASE TimerFires \/ CancelSeen
  BY <1>1, <1>5 DEF TimerFires, CancelSeen, Drain, ShutdownOrdered
<1>6. ASSUME NEW k \in Keys, Flush(k) PROVE ShutdownOrdered'
  <2>1. Flushing
    BY <1>6 DEF Flush, MarkUsed, MarkUsedFails, TypeOK
  <2>2. /\ UNCHANGED <<inflight, buffer, server>>
        /\ flusher' = flusher \/ (flusher = "flushing" /\ flusher' = "waiting")
             \/ (flusher = "finalFlush" /\ flusher' = "done")
    BY <1>6, <2>1 DEF Flush, MarkUsed, MarkUsedFails, Written, Flushing
  <2> QED
    BY <1>1, <2>1, <2>2 DEF ShutdownOrdered, Flushing
<1>7. CASE Signal \/ Cancel \/ Exit
  BY <1>1, <1>7 DEF Signal, Cancel, Exit, ShutdownOrdered
<1>8. CASE Crash \/ Start
  BY <1>1, <1>8 DEF Crash, Start, ShutdownOrdered
<1> QED
  BY <1>2, <1>3, <1>4, <1>5, <1>6, <1>7, <1>8 DEF Next

LEMMA BatchInvariant == Spec => []BatchInv
<1>1. Init => BatchInv
  BY DEF Init, BatchInv, StampsOrdered, ShutdownOrdered, Empty, NotUsed
<1>2. TypeOK /\ BatchInv /\ [Next]_vars => BatchInv'
  <2> SUFFICES ASSUME TypeOK, BatchInv, [Next]_vars PROVE BatchInv'
    OBVIOUS
  <2>1. clock' \in Nat \ {0}
    BY DEF BatchInv, Next, Tick, Verified, Touch, Abandon, TimerFires, CancelSeen,
       Drain, Flush, MarkUsed, MarkUsedFails, Written, Signal, Cancel, Exit, Crash,
       Start, vars
  <2> QED
    BY <2>1, StampsSteps, ShutdownSteps DEF BatchInv
<1> QED
  BY <1>1, <1>2, TypeCorrect, PTL DEF Spec

\* The latest use of a key is always somewhere, unless that stamp was lost.
THEOREM LatestUseKept == Spec => []LatestUseIsKept
<1>1. BatchInv => LatestUseIsKept
  BY DEF BatchInv, StampsOrdered, LatestUseIsKept
<1> QED
  BY <1>1, BatchInvariant, PTL

\* last_used_at is monotone, although every write of it is unconditional.
THEOREM StampsNeverBackwards == Spec => NeverBackwards
<1>1. TypeOK /\ BatchInv /\ [Next]_vars => [\A k \in Keys : lastUsed'[k] >= lastUsed[k]]_vars
  <2> SUFFICES ASSUME TypeOK, BatchInv, [Next]_vars, NEW k \in Keys
               PROVE  lastUsed'[k] >= lastUsed[k]
    OBVIOUS
  <2>1. lastUsed[k] \in Nat /\ drained[k] \in Nat
    BY DEF TypeOK, Time
  <2>2. ASSUME NEW j \in Keys, MarkUsed(j) PROVE lastUsed'[k] >= lastUsed[k]
    <3>1. CASE j = k
      BY <2>1, <2>2, <3>1 DEF MarkUsed, TypeOK, BatchInv, StampsOrdered
    <3>2. CASE j # k
      BY <2>1, <2>2, <3>2 DEF MarkUsed, TypeOK
    <3> QED
      BY <3>1, <3>2
  <2>3. (\E j \in Keys : MarkUsed(j)) \/ lastUsed' = lastUsed
    BY DEF Next, Tick, Verified, Touch, Abandon, TimerFires, CancelSeen, Drain, Flush,
       MarkUsedFails, Signal, Cancel, Exit, Crash, Start, vars
  <2> QED
    BY <2>1, <2>2, <2>3
<1> QED
  BY <1>1, TypeCorrect, BatchInvariant, PTL DEF Spec, NeverBackwards

\* A clean exit leaves the latest use of every key in the table, but for the
\* stamps whose write failed.
THEOREM ExitIsComplete == Spec => []ExitPersistsAll
<1>1. TypeOK /\ BatchInv => ExitPersistsAll
  <2> SUFFICES ASSUME TypeOK, BatchInv, server = "exited", NEW k \in Keys
               PROVE  used[k] \in {lastUsed[k], dropped[k]}
    BY DEF ExitPersistsAll
  <2>1. buffer[k] = NotUsed
    BY DEF BatchInv, ShutdownOrdered, Empty
  <2>2. drained[k] = NotUsed
    BY DEF BatchInv, ShutdownOrdered, TypeOK, Flushing
  <2> QED
    BY <2>1, <2>2 DEF BatchInv, StampsOrdered
<1> QED
  BY <1>1, TypeCorrect, BatchInvariant, PTL
=============================================================================
