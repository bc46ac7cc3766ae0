------------------------ MODULE ProxyForward_proofs ------------------------
(***************************************************************************)
(* The safety properties of ProxyForward, for any number of requests, keys *)
(* and services.  Requests meet only in `revoked', so the inductive        *)
(* invariant is a condition on each request alone: where its handler is    *)
(* decides what its upstream and its caller can have seen so far.          *)
(***************************************************************************)
EXTENDS ProxyForward, TLAPS

\* Before the upstream has answered the caller knows nothing; the upstream is
\* reached from "sending" on, and has answered from "touching" on.
Phases(r) ==
    /\ stage[r] \in {"idle", "arrived", "sending", "touching"} => status[r] = None
    /\ stage[r] \in {"idle", "arrived"} => upstream[r] = "none"
    /\ stage[r] \in {"touching", "streaming"} => upstream[r] \notin {"none", "got"}
    /\ stage[r] = "streaming" => status[r] = Relayed

ReachedOnce(r) ==
    /\ upstream[r] = "none" => reached[r] = 0
    /\ upstream[r] # "none" => reached[r] = 1

\* A late request is still waiting for its SELECT, or was refused by it.
LateWaits(r) ==
    r \in late =>
        /\ upstream[r] = "none"
        /\ stage[r] \in {"arrived", "done"}
        /\ stage[r] = "arrived" => call[r].key \in revoked

Refused(r) == status[r] \in Refusals => stage[r] = "done" /\ upstream[r] = "none"

\* A body has a frame from the upstream's headers on, and no more pieces than it says.
Framed(r) ==
    /\ stage[r] \in {"idle", "arrived", "sending"} => frame[r] = None
    /\ stage[r] \in {"touching", "streaming"} => frame[r] \in Frame
    /\ frame[r] = None => sent[r] = 0
    /\ frame[r] # None /\ frame[r].by = "length" => sent[r] <= frame[r].pieces

\* What has ended for the caller is over, and as it should only if it was read so.
BodyEnded(r) ==
    /\ line[r] # "open" => stage[r] = "done"
    /\ line[r] = "ended" /\ frame[r].by # "length" =>
          relayed[r] = sent[r] /\ upstream[r] \in {"ended", "closed"}
    /\ line[r] = "ended" /\ frame[r].by = "chunked" => upstream[r] = "ended"

\* The condition on one request.
Good(r) ==
    /\ Phases(r) /\ ReachedOnce(r) /\ LateWaits(r) /\ Refused(r)
    /\ Framed(r) /\ BodyEnded(r)

IInv == TypeOK /\ \A r \in Requests : Good(r)

\* In every initial state the invariant holds.
LEMMA InitIInv == Init => IInv
  <1> SUFFICES ASSUME Init PROVE IInv
    OBVIOUS
  <1> USE DEF Init
  <1>1. TypeOK
    BY DEF TypeOK, Stages, Statuses
  <1>2. ASSUME NEW r \in Requests PROVE Good(r)
    BY NoneAssumption
       DEF Good, Phases, ReachedOnce, LateWaits, Refused, Framed, BodyEnded,
           Refusals, Relayed
  <1>q. QED
    BY <1>1, <1>2 DEF IInv

\* Types survive every step.
LEMMA TypeNext == TypeOK /\ [Next]_vars => TypeOK'
  <1> SUFFICES ASSUME TypeOK, [Next]_vars PROVE TypeOK'
    OBVIOUS
  <1> USE DEF TypeOK, Goto, Finish, EndBody, Stages, Statuses, Refusals, Relayed, caller, other
  <1>1. ASSUME NEW k \in Keys, Revoke(k) PROVE TypeOK'
    BY <1>1 DEF Revoke
  <1>2. ASSUME NEW r \in Requests, Arrive(r) PROVE TypeOK'
    BY <1>2 DEF Arrive
  <1>3. ASSUME NEW r \in Requests, Verify(r) PROVE TypeOK'
    BY <1>3 DEF Verify
  <1>4. ASSUME NEW r \in Requests, Reach(r) PROVE TypeOK'
    BY <1>4 DEF Reach
  <1>5. ASSUME NEW r \in Requests, SendFails(r) PROVE TypeOK'
    BY <1>5 DEF SendFails
  <1>6. ASSUME NEW r \in Requests, Answer(r) PROVE TypeOK'
    BY <1>6 DEF Answer
  <1>7. ASSUME NEW r \in Requests, Touch(r) PROVE TypeOK'
    BY <1>7 DEF Touch
  <1>8. ASSUME NEW r \in Requests, SendPiece(r) PROVE TypeOK'
    BY <1>8 DEF SendPiece, Answering, Frame
  <1>9. ASSUME NEW r \in Requests, UpstreamEnds(r) PROVE TypeOK'
    BY <1>9 DEF UpstreamEnds, Answering
  <1>10. ASSUME NEW r \in Requests, UpstreamBreaks(r) PROVE TypeOK'
    BY <1>10 DEF UpstreamBreaks, Answering
  <1>11. ASSUME NEW r \in Requests, RelayPiece(r) PROVE TypeOK'
    BY <1>11 DEF RelayPiece, Polled
  <1>12. ASSUME NEW r \in Requests, RelayEnd(r) PROVE TypeOK'
    BY <1>12 DEF RelayEnd, Polled
  <1>13. ASSUME NEW r \in Requests, RelayError(r) PROVE TypeOK'
    BY <1>13 DEF RelayError, Polled
  <1>14. ASSUME NEW r \in Requests, TimesOut(r) PROVE TypeOK'
    BY <1>14 DEF TimesOut, Polled
  <1>15. ASSUME NEW r \in Requests, CallerGone(r) PROVE TypeOK'
    BY <1>15 DEF CallerGone
  <1>16. ASSUME NEW r \in Requests, CallerStalls(r) PROVE TypeOK'
    BY <1>16 DEF CallerStalls
  <1>17. CASE UNCHANGED vars
    BY <1>17 DEF vars
  <1>q. QED
    BY <1>1, <1>2, <1>3, <1>4, <1>5, <1>6, <1>7, <1>8, <1>9, <1>10, <1>11, <1>12, <1>13, <1>14, <1>15, <1>16, <1>17 DEF Next

\* A step of one request keeps the condition of every request.
LEMMA GoodNext == IInv /\ [Next]_vars => \A q \in Requests : Good(q)'
  <1> SUFFICES ASSUME IInv, [Next]_vars, NEW q \in Requests PROVE Good(q)'
    OBVIOUS
  <1> USE DEF IInv, Good, Phases, ReachedOnce, LateWaits, Refused, Framed, BodyEnded
  <1>t. TypeOK
    OBVIOUS
  <1>1. ASSUME NEW k \in Keys, Revoke(k) PROVE Good(q)'
    BY <1>1 DEF Revoke, caller, other
  <1>2. ASSUME NEW r \in Requests, Arrive(r) PROVE Good(q)'
    BY <1>2 DEF Arrive, TypeOK, Goto, Finish, EndBody, Stages, Refusals, Relayed, caller, other
  <1>3. ASSUME NEW r \in Requests, Verify(r) PROVE Good(q)'
    BY <1>3 DEF Verify, TypeOK, Goto, Finish, EndBody, Stages, Refusals, Relayed, caller, other
  <1>4. ASSUME NEW r \in Requests, Reach(r) PROVE Good(q)'
    BY <1>4 DEF Reach, TypeOK, Goto, Finish, EndBody, Stages, Refusals, Relayed, caller, other
  <1>5. ASSUME NEW r \in Requests, SendFails(r) PROVE Good(q)'
    BY <1>5 DEF SendFails, TypeOK, Goto, Finish, EndBody, Stages, Refusals, Relayed, caller, other
  <1>6. ASSUME NEW r \in Requests, Answer(r) PROVE Good(q)'
    <2>1. PICK f \in Frame : frame' = [frame EXCEPT ![r] = f]
      BY <1>6 DEF Answer
    <2>2. f.by = "length" => 0 <= f.pieces
      BY DEF Frame
    <2> HIDE DEF Framed
    <2>3. Framed(q)'
      BY <1>6, <2>1, <2>2 DEF Framed, Answer, TypeOK, Goto
    <2>4. Good(q)'
      BY <1>6, <2>1, <2>3 DEF Answer, TypeOK, Goto, Refusals, Relayed, caller
    <2>q. QED
      BY <2>4
  <1>7. ASSUME NEW r \in Requests, Touch(r) PROVE Good(q)'
    BY <1>7 DEF Touch, TypeOK, Goto, Finish, EndBody, Stages, Refusals, Relayed, caller, other
  <1>8. ASSUME NEW r \in Requests, SendPiece(r) PROVE Good(q)'
    <2>1. frame[r] \in Frame /\ sent[r] \in Nat /\ line[r] = "open"
      BY <1>8 DEF SendPiece, Answering, TypeOK
    <2>2. frame[r].by = "length" => sent[r] + 1 <= frame[r].pieces
      BY <1>8, <2>1, MaxPiecesAssumption DEF SendPiece, Frame
    <2>3. frame[r] # None
      BY <2>1, NoneAssumption
    <2>q. QED
      BY <1>8, <2>1, <2>2, <2>3 DEF SendPiece, Answering, TypeOK, caller
  <1>9. ASSUME NEW r \in Requests, UpstreamEnds(r) PROVE Good(q)'
    BY <1>9 DEF UpstreamEnds, Answering, TypeOK, Goto, Finish, EndBody, Stages, Refusals, Relayed, caller, other
  <1>10. ASSUME NEW r \in Requests, UpstreamBreaks(r) PROVE Good(q)'
    <2>1. PICK how \in {"closed", "broken"} : upstream' = [upstream EXCEPT ![r] = how]
      BY <1>10 DEF UpstreamBreaks
    <2>q. QED
      BY <1>10, <2>1 DEF UpstreamBreaks, Answering, TypeOK, caller
  <1>11. ASSUME NEW r \in Requests, RelayPiece(r) PROVE Good(q)'
    BY <1>11 DEF RelayPiece, Polled, TypeOK, Goto, Finish, EndBody, Stages, Refusals, Relayed, caller, other
  <1>12. ASSUME NEW r \in Requests, RelayEnd(r) PROVE Good(q)'
    <2>1. frame[r].by \in {"length", "chunked", "close"}
      BY <1>12 DEF RelayEnd, Polled, Frame
    <2>2. /\ frame[r].by # "length" =>
                relayed[r] = sent[r] /\ upstream[r] \in {"ended", "closed"}
          /\ frame[r].by = "chunked" => upstream[r] = "ended"
      BY <1>12, <2>1 DEF RelayEnd, Read, LooksWhole
    <2>q. QED
      BY <1>12, <2>2 DEF RelayEnd, Polled, TypeOK, Goto, EndBody, Relayed, other
  <1>13. ASSUME NEW r \in Requests, RelayError(r) PROVE Good(q)'
    BY <1>13 DEF RelayError, Polled, TypeOK, Goto, Finish, EndBody, Stages, Refusals, Relayed, caller, other
  <1>14. ASSUME NEW r \in Requests, TimesOut(r) PROVE Good(q)'
    BY <1>14 DEF TimesOut, Polled, TypeOK, Goto, Finish, EndBody, Stages, Refusals, Relayed, caller, other
  <1>15. ASSUME NEW r \in Requests, CallerGone(r) PROVE Good(q)'
    BY <1>15 DEF CallerGone, TypeOK, Goto, Finish, EndBody, Stages, Refusals, Relayed, caller, other
  <1>16. ASSUME NEW r \in Requests, CallerStalls(r) PROVE Good(q)'
    BY <1>16 DEF CallerStalls, TypeOK, Goto, Finish, EndBody, Stages, Refusals, Relayed, caller, other
  <1>17. CASE UNCHANGED vars
    BY <1>17 DEF vars, caller, other
  <1>q. QED
    BY <1>1, <1>2, <1>3, <1>4, <1>5, <1>6, <1>7, <1>8, <1>9, <1>10, <1>11, <1>12, <1>13, <1>14, <1>15, <1>16, <1>17 DEF Next

\* The invariant is inductive.
LEMMA Invariance == Spec => []IInv
  <1>1. IInv /\ [Next]_vars => IInv'
    BY TypeNext, GoodNext DEF IInv
  <1>q. QED
    BY InitIInv, <1>1, PTL DEF Spec

-----------------------------------------------------------------------------
\* Requests, upstreams and callers keep their types in every reachable state.
THEOREM TypeCorrect == Spec => []TypeOK
  BY Invariance, PTL DEF IInv

\* What Pietro refuses, or what came after its key's revoke, is never forwarded:
\* such a request has no way past keys::verify.  And an upstream never sees a
\* request twice: no timeout or error is retried.
THEOREM RefusedAreNotForwarded == Spec => []RefusedNeverReach
  <1>1. IInv => RefusedNeverReach
    <2> SUFFICES ASSUME IInv, NEW r \in Requests
        PROVE reached[r] <= IF r \in late \/ status[r] \in Refusals THEN 0 ELSE 1
      BY DEF RefusedNeverReach
    <2>1. reached[r] = 0 \/ reached[r] = 1
      BY DEF IInv, Good, ReachedOnce
    <2>2. r \in late \/ status[r] \in Refusals => reached[r] = 0
      BY DEF IInv, Good, ReachedOnce, LateWaits, Refused
    <2>q. QED
      BY <2>1, <2>2
  <1>q. QED
    BY Invariance, <1>1, PTL

\* A body that a caller takes for whole, which a caller of HTTP/1.0 without a length
\* always does, is one that a client of the upstream takes for whole, and complete.
THEOREM WholeBodiesAreWhole == Spec => []WholeIsWhole
  <1>1. IInv => WholeIsWhole
    <2> SUFFICES ASSUME IInv, NEW r \in Requests, frame[r] # None, OutBy(r) # "close",
                        LooksWhole(OutBy(r), frame[r].pieces, relayed[r], line[r])
        PROVE  /\ relayed[r] = sent[r]
               /\ LooksWhole(frame[r].by, frame[r].pieces, sent[r], upstream[r])
      BY DEF WholeIsWhole
    <2>1. /\ relayed[r] \in Nat /\ sent[r] \in Nat /\ relayed[r] <= sent[r]
          /\ frame[r] \in Frame
      BY DEF IInv, TypeOK
    <2>2. CASE frame[r].by = "length"
      <3>1. relayed[r] = frame[r].pieces
        BY <2>2 DEF OutBy, LooksWhole
      <3>2. sent[r] <= frame[r].pieces
        BY <2>2 DEF IInv, Good, Framed
      <3>q. QED
        BY <2>1, <2>2, <3>1, <3>2 DEF LooksWhole
    <2>3. CASE frame[r].by # "length"
      <3>1. line[r] = "ended"
        BY <2>3 DEF OutBy, LooksWhole
      <3>2. frame[r].by \in {"chunked", "close"}
        BY <2>1, <2>3 DEF Frame
      <3>q. QED
        BY <2>3, <3>1, <3>2 DEF IInv, Good, BodyEnded, LooksWhole
    <2>q. QED
      BY <2>2, <2>3
  <1>q. QED
    BY Invariance, <1>1, PTL
=============================================================================
