------------------------- MODULE RsRunStreamProofs --------------------------
(***************************************************************************)
(* Proofs about RsRunStream, for every log bound, every retry limit, and   *)
(* servers with or without replay and execution-id stamps.                 *)
(*                                                                         *)
(* The inductive invariant is IInv of RsRunStream: the handshake between   *)
(* the listener and start_run_stream, the position of the connection, and  *)
(* the order of the indices along seen, outq, hubq and the connection.     *)
(* Each conjunct is preserved by a lemma of its own; all of them assume    *)
(* the whole of IInv before the step.  The second half, about what is      *)
(* delivered, adds DInv.                                                   *)
(***************************************************************************)
EXTENDS RsRunStream, HubLemmas

-----------------------------------------------------------------------------
(* Type correctness. *)

LEMMA InitInv == Init => IInv
<1> SUFFICES ASSUME Init PROVE IInv
  OBVIOUS
<1> USE DEF Init, HubInit
<1>1. TypeOK
  <2>1. <<>> \in Seq(Event) /\ <<>> \in Seq(Nat)
    BY EmptySeq
  <2>2. HubTypeOK
    BY <2>1 DEF HubTypeOK
  <2>3. 0 \in 0..(MaxRetries + 1)
    BY RetryAssumption
  <2>4. missed \subseteq Nat /\ attempt \in 0..(MaxRetries + 1)
    BY <2>3
  <2>5. broken \in BOOLEAN /\ closedByServer \in BOOLEAN
    OBVIOUS
  <2>6. pos \in Nat \ {0} /\ cursor \in Nat
    OBVIOUS
  <2> QED
    BY <2>1, <2>2, <2>4, <2>5, <2>6 DEF TypeOK, StartPC
<1>2. Handshake /\ AttemptsLeft /\ Position
  BY RetryAssumption DEF Handshake, AttemptsLeft, Position
<1>3. Pipeline
  BY DEF Pipeline, InLog, Increasing, Below
<1>4. Unsettled /\ NoOpeningGap
  BY DEF Unsettled, NoOpeningGap
<1> QED
  BY <1>1, <1>2, <1>3, <1>4 DEF IInv

LEMMA TypeStep ==
  ASSUME IInv, [Next]_vars
  PROVE  TypeOK'
<1> USE EventHubAssumption, RetryAssumption
<1>1. ASSUME NEW e \in Event, Publish(e) PROVE TypeOK'
  <2>1. HubTypeOK'
    BY <1>1, PublishAppends DEF IInv, Publish, TypeOK
  <2> QED
    BY <1>1, <2>1 DEF IInv, Publish, TypeOK, listenerVars, callerVars, ghostVars
<1>2. CASE Connect
  <2>1. pos' \in Nat \ {0} /\ pos <= pos'
    BY <1>2 DEF Connect, ResumeAt, IInv, TypeOK, HubTypeOK, Position
  <2>2. missed' \subseteq Nat
    <3>1. \A i \in pos..(pos' - 1) : i \in Nat
      BY <2>1 DEF IInv, TypeOK
    <3>2. \A i \in missed : i \in Nat
      BY DEF IInv, TypeOK
    <3>3. \A i \in missed' : i \in missed \/ i \in pos..(pos' - 1)
      BY <1>2 DEF Connect
    <3> QED
      BY <3>1, <3>2, <3>3
  <2> QED
    BY <1>2, <2>1, <2>2 DEF Connect, IInv, TypeOK, HubTypeOK, hubVars, callerVars
<1>3. CASE Deliver
  BY <1>3 DEF Deliver, IInv, TypeOK, HubTypeOK, hubVars, callerVars, ghostVars
<1>4. CASE DeliverClosed
  BY <1>4 DEF DeliverClosed, IInv, TypeOK, HubTypeOK, hubVars, callerVars, ghostVars
<1>5. CASE ServerClose
  BY <1>5 DEF ServerClose, IInv, TypeOK, HubTypeOK, hubVars, callerVars
<1>6. CASE ConnectFails
  BY <1>6 DEF ConnectFails, GiveUp, Retry, IInv, AttemptsLeft, TypeOK, HubTypeOK, hubVars,
              callerVars, ghostVars
<1>7. CASE BodyError
  BY <1>7 DEF BodyError, GiveUp, Retry, IInv, AttemptsLeft, TypeOK, HubTypeOK, hubVars, callerVars
<1>8. CASE Subscribed
  BY <1>8 DEF Subscribed, IInv, TypeOK, HubTypeOK, StartPC, hubVars, listenerVars, callerVars, ghostVars
<1>9. CASE SubscribeFails
  BY <1>9 DEF SubscribeFails, IInv, TypeOK, HubTypeOK, StartPC, hubVars, callerVars, ghostVars
<1>10. CASE PostAccepted
  BY <1>10 DEF PostAccepted, HubAccept, IInv, TypeOK, HubTypeOK, StartPC, listenerVars, callerVars, ghostVars
<1>11. CASE PostReturns
  BY <1>11 DEF PostReturns, IInv, TypeOK, HubTypeOK, StartPC, hubVars, listenerVars, ghostVars
<1>12. CASE PostFails
  BY <1>12 DEF PostFails, IInv, TypeOK, HubTypeOK, StartPC, hubVars, callerVars, ghostVars
<1>13. CASE StartCancelled
  BY <1>13 DEF StartCancelled, IInv, TypeOK, HubTypeOK, StartPC, hubVars, listenerVars, callerVars, ghostVars
<1>14. CASE FilterSkip
  BY <1>14 DEF FilterSkip, IInv, TypeOK, HubTypeOK, hubVars, listenerVars, callerVars, ghostVars
<1>15. CASE FilterForward
  BY <1>15 DEF FilterForward, IInv, TypeOK, HubTypeOK, hubVars, listenerVars, callerVars, ghostVars
<1>16. CASE FilterEnds
  BY <1>16 DEF FilterEnds, IInv, TypeOK, HubTypeOK, hubVars, listenerVars, callerVars, ghostVars
<1>17. CASE NextEvent
  <2>1. Head(outq) \in Nat /\ Head(outq) = outq[1] /\ 1 \in 1..Len(outq) /\ Tail(outq) \in Seq(Nat)
    BY <1>17 DEF NextEvent, IInv, TypeOK
  <2>2. Head(outq) \in 1..Len(log)
    BY <2>1 DEF IInv, TypeOK, HubTypeOK, Pipeline, InLog, Position
  <2>3. IsTerminal(Head(outq)) => log[Head(outq)].kind \in {"end", "error"}
    BY DEF IsTerminal, Terminal
  <2> QED
    BY <1>17, <2>1, <2>3 DEF NextEvent, IInv, TypeOK, HubTypeOK, hubVars, listenerVars, ghostVars
<1>18. CASE NextClosed
  BY <1>18 DEF NextClosed, IInv, TypeOK, HubTypeOK, hubVars, listenerVars, ghostVars
<1>19. CASE Drop
  BY <1>19 DEF Drop, IInv, TypeOK, HubTypeOK, hubVars, ghostVars
<1>20. CASE UNCHANGED vars
  BY <1>20 DEF IInv, TypeOK, HubTypeOK, vars, hubVars, listenerVars, callerVars, ghostVars
<1> QED
  BY <1>1, <1>2, <1>3, <1>4, <1>5, <1>6, <1>7, <1>8, <1>9, <1>10, <1>11, <1>12, <1>13, <1>14,
     <1>15, <1>16, <1>17, <1>18, <1>19, <1>20
  DEF Next, Listener, ConnectionLost, RequestTimeout, Starter, Filter, Caller

-----------------------------------------------------------------------------
(* The handshake between the listener and start_run_stream. *)

LEMMA HandshakeStep ==
  ASSUME IInv, [Next]_vars
  PROVE  Handshake'
<1> USE DEF IInv
<1>1. ASSUME NEW e \in Event, Publish(e) PROVE Handshake'
  <2>1. UNCHANGED <<ready, lpc, broken, start, handle>>
    BY <1>1 DEF Publish, listenerVars, ghostVars, callerVars
  <2>2. run' # "absent" => run # "absent"
    BY <1>1 DEF Publish, HubPublish
  <2>3. \A i \in 1..Len(log') : Own(i)' => run' # "absent"
    <3>1. SUFFICES ASSUME NEW i \in 1..Len(log'), log'[i].src = "own" PROVE run' # "absent"
      BY DEF Own
    <3>2. /\ Len(log') = Len(log) + 1
          /\ \A j \in 1..Len(log) : log'[j] = log[j]
          /\ log'[Len(log) + 1] = e
          /\ run # "absent" => run' # "absent"
          /\ e.src = "own" => run' # "absent"
      BY <1>1, PublishAppends DEF Publish, TypeOK
    <3>3. CASE i \in 1..Len(log)
      BY <3>1, <3>2, <3>3 DEF Own, Handshake
    <3>4. CASE i = Len(log) + 1
      BY <3>1, <3>2, <3>4
    <3> QED
      BY <3>2, <3>3, <3>4 DEF TypeOK, HubTypeOK
  <2> QED
    BY <2>1, <2>2, <2>3 DEF Handshake
<1>2. CASE Connect
  BY <1>2 DEF Connect, Handshake, TypeOK, hubVars, callerVars, Own
<1>3. CASE Deliver
  BY <1>3 DEF Deliver, Handshake, hubVars, ghostVars, callerVars, Own
<1>4. CASE DeliverClosed
  BY <1>4 DEF DeliverClosed, Handshake, TypeOK, hubVars, ghostVars, callerVars, Own
<1>5. CASE ServerClose
  BY <1>5 DEF ServerClose, Handshake, TypeOK, hubVars, callerVars, Own
<1>6. CASE ConnectFails
  BY <1>6 DEF ConnectFails, GiveUp, Retry, Handshake, TypeOK, hubVars, ghostVars, callerVars, Own
<1>7. CASE BodyError
  BY <1>7 DEF BodyError, GiveUp, Retry, Handshake, TypeOK, hubVars, callerVars, Own
<1>8. CASE Subscribed
  BY <1>8 DEF Subscribed, Handshake, hubVars, listenerVars, ghostVars, callerVars, Own
<1>9. CASE SubscribeFails
  BY <1>9 DEF SubscribeFails, Handshake, hubVars, ghostVars, callerVars, Own
<1>10. CASE PostAccepted
  BY <1>10 DEF PostAccepted, HubAccept, Handshake, listenerVars, ghostVars, callerVars, Own
<1>11. CASE PostReturns
  BY <1>11 DEF PostReturns, Handshake, hubVars, listenerVars, ghostVars, callerVars, Own
<1>12. CASE PostFails
  BY <1>12 DEF PostFails, Handshake, hubVars, ghostVars, callerVars, Own
<1>13. CASE StartCancelled
  BY <1>13 DEF StartCancelled, Handshake, hubVars, listenerVars, ghostVars, callerVars, Own
<1>14. CASE Filter
  BY <1>14 DEF Filter, FilterSkip, FilterForward, FilterEnds, Handshake, hubVars, listenerVars,
              ghostVars, callerVars, Own
<1>15. CASE NextEvent \/ NextClosed
  BY <1>15 DEF NextEvent, NextClosed, Handshake, hubVars, listenerVars, ghostVars, callerVars, Own
<1>16. CASE Drop
  <2>1. ready # "unset"
    BY <1>16 DEF Drop, Handshake
  <2> QED
    BY <1>16, <2>1 DEF Drop, Handshake, hubVars, ghostVars, callerVars, Own
<1>17. CASE UNCHANGED vars
  BY <1>17 DEF Handshake, vars, hubVars, listenerVars, ghostVars, callerVars, Own
<1> QED
  BY <1>1, <1>2, <1>3, <1>4, <1>5, <1>6, <1>7, <1>8, <1>9, <1>10, <1>11, <1>12, <1>13, <1>14,
     <1>15, <1>16, <1>17
  DEF Next, Listener, ConnectionLost, RequestTimeout, Starter, Caller

LEMMA AttemptsStep ==
  ASSUME IInv, [Next]_vars
  PROVE  AttemptsLeft'
<1> USE DEF IInv, AttemptsLeft
<1>1. CASE ConnectFails \/ BodyError
  BY <1>1 DEF ConnectFails, BodyError, GiveUp, Retry
<1>2. CASE Connect \/ Deliver
  BY <1>2 DEF Connect, Deliver
<1>3. CASE DeliverClosed \/ ServerClose \/ SubscribeFails \/ PostFails \/ Drop
  BY <1>3 DEF DeliverClosed, ServerClose, SubscribeFails, PostFails, Drop
<1>4. CASE UNCHANGED listenerVars
  BY <1>4 DEF listenerVars
<1> QED
  BY <1>1, <1>2, <1>3, <1>4
  DEF Next, vars, Publish, Listener, ConnectionLost, RequestTimeout, Starter, Subscribed, PostAccepted,
      PostReturns, StartCancelled, Filter, FilterSkip, FilterForward, FilterEnds, Caller, NextEvent,
      NextClosed

-----------------------------------------------------------------------------
(* The connection's position. *)

LEMMA PositionStep ==
  ASSUME IInv, [Next]_vars
  PROVE  Position' /\ pos <= pos'
<1> USE DEF IInv, TypeOK, HubTypeOK
<1>1. ASSUME NEW e \in Event, Publish(e) PROVE Position' /\ pos <= pos'
  <2>1. UNCHANGED <<pos, cursor>> /\ Len(log') = Len(log) + 1
    BY <1>1, PublishAppends DEF Publish, listenerVars
  <2> QED
    BY <2>1 DEF Position
<1>2. CASE Connect
  BY <1>2 DEF Connect, ResumeAt, Position, hubVars
<1>3. CASE Deliver \/ DeliverClosed
  BY <1>3 DEF Deliver, DeliverClosed, Position, hubVars
<1>4. CASE UNCHANGED <<pos, cursor, log>>
  BY <1>4 DEF Position
<1>5. CASE ServerClose \/ ConnectFails \/ BodyError
  BY <1>4, <1>5 DEF ServerClose, ConnectFails, BodyError, hubVars
<1>6. CASE Starter
  BY <1>4, <1>6 DEF Starter, Subscribed, SubscribeFails, PostAccepted, HubAccept, PostReturns, PostFails,
                    StartCancelled, hubVars, listenerVars
<1>7. CASE Filter \/ Caller \/ UNCHANGED vars
  BY <1>4, <1>7 DEF Filter, FilterSkip, FilterForward, FilterEnds, Caller, NextEvent, NextClosed, Drop,
                    vars, hubVars, listenerVars
<1> QED
  BY <1>1, <1>2, <1>3, <1>5, <1>6, <1>7 DEF Next, Listener, ConnectionLost, RequestTimeout

-----------------------------------------------------------------------------
(* A handle is pending until it is terminated or dropped. *)

LEMMA UnsettledStep ==
  ASSUME IInv, [Next]_vars
  PROVE  Unsettled'
<1> USE DEF IInv, Unsettled
<1>1. CASE UNCHANGED callerVars
  BY <1>1 DEF callerVars
<1>2. CASE PostReturns
  BY <1>2 DEF PostReturns, Handshake, TypeOK
<1>3. CASE Caller
  BY <1>3 DEF Caller, NextEvent, NextClosed, Drop
<1> QED
  BY <1>1, <1>2, <1>3
  DEF Next, vars, Publish, Listener, Connect, Deliver, DeliverClosed, ServerClose, ConnectFails, BodyError,
      ConnectionLost, RequestTimeout, Starter, Subscribed, SubscribeFails, PostAccepted, PostFails,
      StartCancelled, Filter, FilterSkip, FilterForward, FilterEnds

-----------------------------------------------------------------------------
(* No opening gap. *)

(***************************************************************************)
(* The one step that can lose an event is Connect; as long as no           *)
(* connection has been lost it is the first, and then the run has not been *)
(* POSTed yet, so none of the events passed over is ours.                  *)
(***************************************************************************)
LEMMA OpeningStep ==
  ASSUME IInv, [Next]_vars
  PROVE  NoOpeningGap'
<1> USE DEF IInv, NoOpeningGap
<1>1. CASE Connect
  <2>1. SUFFICES ASSUME ~broken PROVE missed' = {}
    BY <1>1 DEF Connect
  <2>2. missed = {}
    BY <2>1
  <2>3. ready = "unset"
    BY <1>1, <2>1 DEF Connect, Handshake, TypeOK
  <2>4. \A i \in 1..Len(log) : ~Own(i)
    BY <2>3 DEF Handshake
  <2>5. pos' <= Len(log) + 1
    BY <1>1 DEF Connect, ResumeAt, Position, TypeOK, HubTypeOK
  <2>6. \A i \in pos..(pos' - 1) : i \in 1..Len(log)
    BY <1>1, <2>5, PositionStep DEF Connect, ResumeAt, TypeOK, HubTypeOK, Position
  <2>7. missed' = missed \cup {i \in pos..(pos' - 1) : Own(i)}
    BY <1>1 DEF Connect
  <2> QED
    BY <2>2, <2>4, <2>6, <2>7
<1>2. CASE BodyError
  BY <1>2 DEF BodyError
<1>3. CASE UNCHANGED <<broken, missed>>
  BY <1>3
<1> QED
  BY <1>1, <1>2, <1>3
  DEF Next, vars, ghostVars, Publish, Listener, Deliver, DeliverClosed, ServerClose, ConnectFails,
      ConnectionLost, RequestTimeout, Starter, Subscribed, SubscribeFails, PostAccepted, PostReturns,
      PostFails, StartCancelled, Filter, FilterSkip, FilterForward, FilterEnds, Caller, NextEvent, NextClosed,
      Drop

-----------------------------------------------------------------------------
(* The order of the indices along the pipeline. *)

(***************************************************************************)
(* A step that moves nothing between the queues keeps their order.         *)
(***************************************************************************)
LEMMA PipelineQuiet ==
  ASSUME IInv, UNCHANGED <<hubq, outq, seen>>, pos' \in Nat, pos <= pos',
         \A i \in 1..Len(log) : log'[i] = log[i]
  PROVE  Pipeline'
<1> USE DEF IInv, Pipeline
<1>1. InLog(seen)' /\ InLog(outq)' /\ InLog(hubq)'
  BY DEF InLog, TypeOK
<1>2. Increasing(seen)' /\ Increasing(outq)' /\ Increasing(hubq)'
  BY DEF Increasing
<1>3. Below(seen, outq)' /\ Below(seen, hubq)' /\ Below(outq, hubq)'
  BY DEF Below
<1>4. ASSUME NEW i \in 1..Len(outq) PROVE Matches(outq[i])'
  <2>1. outq[i] \in 1..Len(log)
    BY DEF InLog, Position, TypeOK, HubTypeOK
  <2> QED
    BY <2>1 DEF Matches, Own
<1> QED
  BY <1>1, <1>2, <1>3, <1>4

LEMMA DeliverPipeline ==
  ASSUME IInv, Deliver
  PROVE  Pipeline'
<1> USE DEF IInv, Pipeline
<1>1. /\ hubq' = Append(hubq, pos) /\ pos' = pos + 1
      /\ UNCHANGED <<log, outq, seen>>
  BY DEF Deliver, hubVars, callerVars
<1>2. hubq \in Seq(Nat) /\ outq \in Seq(Nat) /\ seen \in Seq(Nat) /\ pos \in Nat \ {0}
  BY DEF TypeOK
<1>3. InLog(seen)' /\ InLog(outq)'
  BY <1>1, <1>2 DEF InLog
<1>4. InLog(hubq)'
  BY <1>1, <1>2 DEF InLog
<1>5. Increasing(hubq)'
  <2>1. \A i \in 1..Len(hubq) : hubq[i] < pos
    BY <1>2 DEF InLog
  <2>2. Increasing(Append(hubq, pos))
    BY <1>2, <2>1, IncreasingAppend
  <2> QED
    BY <1>1, <2>2 DEF Increasing
<1>6. Below(seen, hubq)'
  BY <1>1, <1>2 DEF Below, InLog
<1>7. Below(outq, hubq)'
  <2>1. SUFFICES ASSUME NEW i \in 1..Len(outq), NEW j \in 1..Len(Append(hubq, pos))
                 PROVE  outq[i] < Append(hubq, pos)[j]
    BY <1>1 DEF Below
  <2>2. CASE j \in 1..Len(hubq) /\ Append(hubq, pos)[j] = hubq[j]
    BY <2>2 DEF Below
  <2>3. CASE Append(hubq, pos)[j] = pos
    BY <1>2, <2>3 DEF InLog
  <2> QED
    BY <1>2, <2>2, <2>3, AppendMembers
<1>8. Increasing(seen)' /\ Increasing(outq)' /\ Below(seen, outq)'
  BY <1>1 DEF Increasing, Below
<1>9. \A i \in 1..Len(outq') : Matches(outq[i])'
  BY <1>1 DEF Matches, Own
<1> QED
  BY <1>3, <1>4, <1>5, <1>6, <1>7, <1>8, <1>9

LEMMA FilterSkipPipeline ==
  ASSUME IInv, FilterSkip
  PROVE  Pipeline'
<1> USE DEF IInv, Pipeline
<1>1. /\ hubq # <<>> /\ hubq' = Tail(hubq)
      /\ UNCHANGED <<log, pos, outq, seen>>
  BY DEF FilterSkip, hubVars, listenerVars, callerVars
<1>2. hubq \in Seq(Nat) /\ Tail(hubq) \in Seq(Nat)
  BY <1>1, HeadTailProperties DEF TypeOK
<1>3. ASSUME NEW i \in 1..Len(Tail(hubq))
      PROVE  i + 1 \in 1..Len(hubq) /\ Tail(hubq)[i] = hubq[i + 1]
  BY <1>1, <1>2, HeadTailProperties
<1>4. InLog(hubq)' /\ Below(seen, hubq)' /\ Below(outq, hubq)'
  BY <1>1, <1>3 DEF InLog, Below
<1>5. Increasing(hubq)'
  BY <1>1, <1>2, IncreasingTail DEF Increasing
<1>6. /\ InLog(seen)' /\ InLog(outq)' /\ Increasing(seen)' /\ Increasing(outq)' /\ Below(seen, outq)'
  BY <1>1 DEF InLog, Increasing, Below
<1>7. \A i \in 1..Len(outq') : Matches(outq[i])'
  BY <1>1 DEF Matches, Own
<1> QED
  BY <1>4, <1>5, <1>6, <1>7

LEMMA FilterForwardPipeline ==
  ASSUME IInv, FilterForward
  PROVE  Pipeline'
<1> USE DEF IInv, Pipeline
<1> DEFINE h == Head(hubq)
<1>1. /\ hubq # <<>> /\ hubq' = Tail(hubq) /\ outq' = Append(outq, h)
      /\ Matches(h)
      /\ UNCHANGED <<log, pos, seen>>
  BY DEF FilterForward, hubVars, listenerVars, callerVars
<1>2. /\ hubq \in Seq(Nat) /\ Tail(hubq) \in Seq(Nat) /\ h \in Nat
      /\ 1 \in 1..Len(hubq) /\ h = hubq[1]
      /\ outq \in Seq(Nat) /\ seen \in Seq(Nat) /\ pos \in Nat
  BY <1>1, HeadTailProperties DEF TypeOK
<1> HIDE DEF h
<1>3. ASSUME NEW i \in 1..Len(Tail(hubq))
      PROVE  /\ i + 1 \in 1..Len(hubq)
             /\ Tail(hubq)[i] = hubq[i + 1]
             /\ h < Tail(hubq)[i]
  BY <1>1, <1>2, HeadTailProperties, IncreasingTail DEF h
<1>4. \A i \in 1..Len(outq) : outq[i] < h
  BY <1>2 DEF Below
<1>5. \A i \in 1..Len(seen) : seen[i] < h
  BY <1>2 DEF Below
<1>6. h \in 1..(pos - 1)
  BY <1>2 DEF InLog
<1>7. InLog(hubq)' /\ Below(seen, hubq)' /\ InLog(seen)' /\ Increasing(seen)'
  BY <1>1, <1>3 DEF InLog, Below, Increasing
<1>8. Increasing(hubq)'
  BY <1>1, <1>2, IncreasingTail DEF Increasing
<1>9. Increasing(outq)'
  BY <1>1, <1>2, <1>4, IncreasingAppend DEF Increasing
<1>10. ASSUME NEW i \in 1..Len(outq')
       PROVE  (i \in 1..Len(outq) /\ outq'[i] = outq[i]) \/ outq'[i] = h
  BY <1>1, <1>2, AppendMembers
<1>11. InLog(outq)'
  BY <1>1, <1>6, <1>10 DEF InLog
<1>12. Below(seen, outq)'
  BY <1>1, <1>5, <1>10 DEF Below
<1>13. Below(outq, hubq)'
  BY <1>1, <1>3, <1>10 DEF Below
<1>14. \A i \in 1..Len(outq') : Matches(outq[i])'
  BY <1>1, <1>10 DEF Matches, Own
<1> QED
  BY <1>7, <1>8, <1>9, <1>11, <1>12, <1>13, <1>14

LEMMA NextEventPipeline ==
  ASSUME IInv, NextEvent
  PROVE  Pipeline'
<1> USE DEF IInv, Pipeline
<1> DEFINE h == Head(outq)
<1>1. /\ outq # <<>> /\ outq' = Tail(outq) /\ seen' = Append(seen, h)
      /\ UNCHANGED <<log, pos, hubq>>
  BY DEF NextEvent, hubVars, listenerVars
<1>2. /\ outq \in Seq(Nat) /\ Tail(outq) \in Seq(Nat) /\ h \in Nat
      /\ 1 \in 1..Len(outq) /\ h = outq[1]
      /\ seen \in Seq(Nat) /\ pos \in Nat
  BY <1>1, HeadTailProperties DEF TypeOK
<1> HIDE DEF h
<1>3. ASSUME NEW i \in 1..Len(Tail(outq))
      PROVE  /\ i + 1 \in 1..Len(outq)
             /\ Tail(outq)[i] = outq[i + 1]
             /\ h < Tail(outq)[i]
  BY <1>1, <1>2, HeadTailProperties, IncreasingTail DEF h
<1>4. \A i \in 1..Len(seen) : seen[i] < h
  BY <1>2 DEF Below
<1>5. h \in 1..(pos - 1) /\ \A j \in 1..Len(hubq) : h < hubq[j]
  BY <1>2 DEF InLog, Below
<1>6. InLog(hubq)' /\ Increasing(hubq)' /\ InLog(outq)' /\ Below(outq, hubq)'
  BY <1>1, <1>3 DEF InLog, Below, Increasing
<1>7. Increasing(outq)'
  BY <1>1, <1>2, IncreasingTail DEF Increasing
<1>8. Increasing(seen)'
  BY <1>1, <1>2, <1>4, IncreasingAppend DEF Increasing
<1>9. ASSUME NEW i \in 1..Len(seen')
      PROVE  (i \in 1..Len(seen) /\ seen'[i] = seen[i]) \/ seen'[i] = h
  BY <1>1, <1>2, AppendMembers
<1>10. InLog(seen)' /\ Below(seen, hubq)'
  BY <1>1, <1>5, <1>9 DEF InLog, Below
<1>11. Below(seen, outq)'
  BY <1>1, <1>3, <1>9 DEF Below
<1>12. \A i \in 1..Len(outq') : Matches(outq[i])'
  BY <1>1, <1>3 DEF Matches, Own
<1> QED
  BY <1>6, <1>7, <1>8, <1>10, <1>11, <1>12

LEMMA PipelineStep ==
  ASSUME IInv, [Next]_vars
  PROVE  Pipeline'
<1>1. pos' \in Nat /\ pos <= pos'
  BY TypeStep, PositionStep DEF TypeOK
<1>2. ASSUME NEW e \in Event, Publish(e) PROVE Pipeline'
  <2>1. \A i \in 1..Len(log) : log'[i] = log[i]
    BY <1>2, PublishAppends DEF Publish, IInv, TypeOK
  <2>2. UNCHANGED <<hubq, outq, seen>>
    BY <1>2 DEF Publish, callerVars
  <2> QED
    BY <1>1, <2>1, <2>2, PipelineQuiet
<1>3. CASE UNCHANGED <<log, hubq, outq, seen>>
  BY <1>1, <1>3, PipelineQuiet
<1>4. CASE Deliver
  BY <1>4, DeliverPipeline
<1>5. CASE FilterSkip
  BY <1>5, FilterSkipPipeline
<1>6. CASE FilterForward
  BY <1>6, FilterForwardPipeline
<1>7. CASE NextEvent
  BY <1>7, NextEventPipeline
<1>8. CASE PostAccepted
  BY <1>3, <1>8 DEF PostAccepted, HubAccept, callerVars
<1>9. CASE Connect \/ DeliverClosed \/ ServerClose \/ ConnectFails \/ BodyError
  BY <1>3, <1>9 DEF Connect, DeliverClosed, ServerClose, ConnectFails, BodyError, hubVars, callerVars
<1>10. CASE Subscribed \/ SubscribeFails \/ PostReturns \/ PostFails \/ StartCancelled
  BY <1>3, <1>10 DEF Subscribed, SubscribeFails, PostReturns, PostFails, StartCancelled, hubVars, callerVars
<1>11. CASE FilterEnds \/ NextClosed \/ Drop \/ UNCHANGED vars
  BY <1>3, <1>11 DEF FilterEnds, NextClosed, Drop, vars, hubVars, callerVars
<1> QED
  BY <1>2, <1>4, <1>5, <1>6, <1>7, <1>8, <1>9, <1>10, <1>11
  DEF Next, Listener, ConnectionLost, RequestTimeout, Starter, Filter, Caller

-----------------------------------------------------------------------------
(* The theorems. *)

(***************************************************************************)
(* IInv is an invariant: it holds initially and every step of the four     *)
(* actors preserves it.                                                    *)
(***************************************************************************)
THEOREM Inductive == Spec => []IInv
<1>1. IInv /\ [Next]_vars => IInv'
  BY TypeStep, HandshakeStep, AttemptsStep, PositionStep, UnsettledStep, OpeningStep, PipelineStep DEF IInv
<1> QED
  BY <1>1, InitInv, PTL DEF Spec

(***************************************************************************)
(* Type correctness; in particular the index next() looks up is always in  *)
(* the log.                                                                *)
(***************************************************************************)
THEOREM TypeCorrect == Spec => []TypeOK
  BY Inductive, PTL DEF IInv

(***************************************************************************)
(* start_run_stream subscribes before it POSTs, so no opening event of the *)
(* run is lost while the first connection lasts.                           *)
(***************************************************************************)
THEOREM OpeningEventsKept == Spec => []NoOpeningGap
  BY Inductive, PTL DEF IInv

(***************************************************************************)
(* The Rust run stream implements RunHandle: whatever the interleaving of  *)
(* listener, filter, caller and server, the caller is given events of its  *)
(* own run in order and once, and a terminal outcome is its own run's.     *)
(***************************************************************************)
THEOREM RefinesRunHandle == Spec => ImplementsRunHandle
<1>1. Init => RH!HandleInit
  BY DEF Init, HubInit, RH!HandleInit, RH!HubInit
<1>2. ASSUME IInv, [Next]_vars
      PROVE  [RH!HandleNext]_(RH!handleVars)
  <2> DEFINE Stutter == UNCHANGED <<log, run, seen, outcome>>
  <2>1. Stutter => UNCHANGED RH!handleVars
    BY DEF RH!handleVars
  <2>2. ASSUME NEW e \in Event, Publish(e) PROVE RH!HandleNext
    BY <1>2, <2>2
    DEF Publish, callerVars, RH!HandleNext, RH!HandleHub, HubPublish, RH!HubPublish, Terminal, RH!Terminal,
        Event, RH!Event, Source, RH!Source, Kind, RH!Kind
  <2>3. CASE PostAccepted
    BY <2>3 DEF PostAccepted, callerVars, RH!HandleNext, RH!HandleHub, HubAccept, RH!HubAccept
  <2>4. CASE NextEvent
    <3> DEFINE h == Head(outq)
    <3>1. /\ outq # <<>> /\ handle = "open"
          /\ seen' = Append(seen, h)
          /\ outcome' = IF IsTerminal(h) THEN log[h].kind ELSE outcome
          /\ UNCHANGED <<log, run>>
      BY <2>4 DEF NextEvent, hubVars
    <3>2. outcome = "pending"
      BY <1>2, <3>1 DEF IInv, Unsettled
    <3>3. /\ outq \in Seq(Nat) /\ seen \in Seq(Nat)
          /\ 1 \in 1..Len(outq) /\ h = outq[1]
      BY <1>2, <3>1, HeadTailProperties DEF IInv, TypeOK
    <3> HIDE DEF h
    <3>4. Matches(h)
      BY <1>2, <3>3 DEF IInv, Pipeline
    <3>5. h \in 1..Len(log)
      BY <1>2, <3>3 DEF IInv, Pipeline, InLog, Position, TypeOK, HubTypeOK
    <3>6. RH!Newest(seen) < h
      <4>1. CASE seen = <<>>
        BY <3>5, <4>1 DEF RH!Newest
      <4>2. CASE seen # <<>>
        <5>1. Len(seen) \in 1..Len(seen)
          BY <3>3, <4>2
        <5> QED
          BY <1>2, <3>3, <4>2, <5>1 DEF RH!Newest, IInv, Pipeline, Below
      <4> QED
        BY <4>1, <4>2
    <3>7. RH!Yield(h)
      BY <3>1, <3>2, <3>4, <3>6
      DEF RH!Yield, RH!Matches, RH!Own, Matches, Own, RH!IsTerminal, IsTerminal, Terminal, RH!Terminal,
          RH!hubVars
    <3> QED
      BY <3>5, <3>7 DEF RH!HandleNext
  <2>5. CASE NextClosed
    BY <1>2, <2>5 DEF NextClosed, IInv, Unsettled, hubVars, RH!HandleNext, RH!Close, RH!hubVars
  <2>6. CASE Drop
    <3>1. CASE outcome = "pending"
      BY <2>6, <3>1 DEF Drop, hubVars, RH!HandleNext, RH!Close, RH!hubVars
    <3>2. CASE outcome # "pending"
      BY <2>1, <2>6, <3>2 DEF Drop, hubVars
    <3> QED
      BY <3>1, <3>2
  <2>7. CASE Listener
    BY <2>1, <2>7 DEF Listener, Connect, Deliver, DeliverClosed, ServerClose, ConnectFails, ConnectionLost,
                      RequestTimeout, BodyError, hubVars, callerVars
  <2>8. CASE Subscribed \/ SubscribeFails \/ PostReturns \/ PostFails \/ StartCancelled
    BY <2>1, <2>8 DEF Subscribed, SubscribeFails, PostReturns, PostFails, StartCancelled, hubVars, callerVars
  <2>9. CASE Filter \/ UNCHANGED vars
    BY <2>1, <2>9 DEF Filter, FilterSkip, FilterForward, FilterEnds, vars, hubVars, callerVars
  <2> QED
    BY <1>2, <2>2, <2>3, <2>4, <2>5, <2>6, <2>7, <2>8, <2>9 DEF Next, Starter, Caller
<1> QED
  BY <1>1, <1>2, Inductive, PTL DEF Spec, ImplementsRunHandle, RH!HandleSpec

-----------------------------------------------------------------------------
(***************************************************************************)
(* What the stream delivers: no hole after the first frame, nothing        *)
(* dropped between the tasks, and a handle closed without a terminal event *)
(* only when the listener really stopped.  It rests on IInv; the inductive *)
(* invariant is DInv, with one lemma per added conjunct.                   *)
(***************************************************************************)

-----------------------------------------------------------------------------
(* What a step does to the set of delivered events. *)

LEMMA DeliveredMembers ==
  /\ Delivered = Members(hubq) \cup Members(outq) \cup Members(seen)
  /\ Delivered' = Members(hubq') \cup Members(outq') \cup Members(seen')
BY DEF Delivered, Members

LEMMA DeliverDelivered ==
  ASSUME IInv, Deliver
  PROVE  Delivered' = Delivered \cup {pos}
<1>1. hubq \in Seq(Nat) /\ pos \in Nat /\ hubq' = Append(hubq, pos) /\ UNCHANGED <<outq, seen>>
  BY DEF IInv, TypeOK, Deliver, callerVars
<1> QED
  BY <1>1, AppendSet, DeliveredMembers

LEMMA SkipDelivered ==
  ASSUME IInv, FilterSkip
  PROVE  Delivered = Delivered' \cup {Head(hubq)}
<1>1. hubq \in Seq(Nat) /\ hubq # <<>> /\ hubq' = Tail(hubq) /\ UNCHANGED <<outq, seen>>
  BY DEF IInv, TypeOK, FilterSkip, callerVars
<1>2. Members(hubq) = Members(hubq') \cup {Head(hubq)}
  BY <1>1, TailSet
<1> QED
  BY <1>1, <1>2, DeliveredMembers

LEMMA ForwardDelivered ==
  ASSUME IInv, FilterForward \/ NextEvent
  PROVE  Delivered' = Delivered
<1>1. CASE FilterForward
  <2>1. /\ hubq \in Seq(Nat) /\ hubq # <<>> /\ hubq' = Tail(hubq) /\ Head(hubq) \in Nat
        /\ outq \in Seq(Nat) /\ outq' = Append(outq, Head(hubq)) /\ UNCHANGED seen
    BY <1>1 DEF IInv, TypeOK, FilterForward, callerVars
  <2>2. Members(hubq) = Members(hubq') \cup {Head(hubq)}
    BY <2>1, TailSet
  <2>3. Members(outq') = Members(outq) \cup {Head(hubq)}
    BY <2>1, AppendSet
  <2> QED
    BY <2>1, <2>2, <2>3, DeliveredMembers
<1>2. CASE NextEvent
  <2>1. /\ outq \in Seq(Nat) /\ outq # <<>> /\ outq' = Tail(outq) /\ Head(outq) \in Nat
        /\ seen \in Seq(Nat) /\ seen' = Append(seen, Head(outq)) /\ UNCHANGED hubq
    BY <1>2 DEF IInv, TypeOK, NextEvent
  <2>2. Members(outq) = Members(outq') \cup {Head(outq)}
    BY <2>1, TailSet
  <2>3. Members(seen') = Members(seen) \cup {Head(outq)}
    BY <2>1, AppendSet
  <2> QED
    BY <2>1, <2>2, <2>3, DeliveredMembers
<1> QED
  BY <1>1, <1>2

(***************************************************************************)
(* Every other step leaves the queues alone.                               *)
(***************************************************************************)
LEMMA QuietDelivered ==
  ASSUME UNCHANGED <<hubq, outq, seen>>
  PROVE  Delivered' = Delivered
BY DEF Delivered

LEMMA DeliveredSteps ==
  ASSUME IInv, [Next]_vars
  PROVE  Deliver \/ FilterSkip \/ Delivered' = Delivered
<1>1. CASE FilterForward \/ NextEvent
  BY <1>1, ForwardDelivered
<1>2. CASE UNCHANGED <<hubq, outq, seen>>
  BY <1>2, QuietDelivered
<1> QED
  BY <1>1, <1>2
  DEF Next, vars, callerVars, Publish, Listener, Connect, DeliverClosed, ServerClose, ConnectFails, BodyError,
      ConnectionLost, RequestTimeout, Starter, Subscribed, SubscribeFails, PostAccepted, PostReturns,
      PostFails, StartCancelled, Filter, FilterEnds, Caller, NextClosed, Drop

-----------------------------------------------------------------------------
(* The cursor covers what was delivered. *)

(***************************************************************************)
(* The indices below a position that only grows.                           *)
(***************************************************************************)
LEMMA BelowGrows ==
  ASSUME NEW p \in Nat, NEW q \in Nat, 1 <= p, p <= q
  PROVE  /\ 1..(q - 1) = 1..(p - 1) \cup p..(q - 1)
         /\ q = p => p..(q - 1) = {}
OBVIOUS

LEMMA CoveredStep ==
  ASSUME DInv, [Next]_vars
  PROVE  Covered' /\ NoHoleAfterFirstFrame'
<1>a. IInv /\ Covered /\ NoHoleAfterFirstFrame
  BY DEF DInv
<1>0. /\ pos \in Nat /\ 1 <= pos /\ cursor \in Nat /\ pos <= pos' /\ pos' \in Nat
      /\ cursor < pos
  BY <1>a, TypeStep, PositionStep DEF IInv, TypeOK, Position
<1>b. 1..(pos' - 1) = 1..(pos - 1) \cup pos..(pos' - 1)
  BY <1>0, BelowGrows
<1>c. missed \subseteq 1..(pos' - 1)
  BY <1>a, <1>b DEF Covered
<1>1. CASE Connect
  <2>1. UNCHANGED <<hubq, outq, seen, cursor>> /\ missed' = missed \cup {i \in pos..(pos' - 1) : Own(i)}
    BY <1>1 DEF Connect, callerVars
  <2>2. Delivered' = Delivered
    BY <2>1, QuietDelivered
  <2>3. Covered'
    <3>1. missed' \subseteq 1..(pos' - 1)
      BY <1>b, <1>c, <2>1
    <3> QED
      BY <1>a, <2>1, <2>2, <3>1 DEF Covered
  <2>4. ASSUME Replay, cursor # 0 PROVE pos' = pos
    BY <1>a, <1>0, <1>1, <2>4 DEF Connect, ResumeAt, IInv, Position
  <2>5. CASE cursor = 0
    <3>1. Delivered' = {}
      BY <1>a, <1>0, <2>2, <2>5 DEF Covered
    <3> QED
      BY <2>3, <3>1 DEF NoHoleAfterFirstFrame
  <2>6. CASE cursor # 0
    <3>1. Replay => missed' = missed
      BY <1>0, <2>1, <2>4, <2>6
    <3> QED
      BY <1>a, <1>0, <2>2, <2>3, <3>1 DEF NoHoleAfterFirstFrame
  <2> QED
    BY <2>3, <2>5, <2>6
<1>2. CASE Deliver
  <2>1. Delivered' = Delivered \cup {pos} /\ cursor' = pos /\ pos' = pos + 1 /\ missed' = missed
    BY <1>a, <1>2, DeliverDelivered DEF Deliver, ghostVars
  <2>2. \A m \in missed : m < pos
    BY <1>a, <1>0, <2>1 DEF Covered
  <2>3. missed' \subseteq 1..(pos' - 1)
    BY <1>c, <2>1
  <2>4. \A d \in Delivered' : d \in 1..pos
    BY <1>a, <1>0, <2>1 DEF Covered
  <2>5. NoHoleAfterFirstFrame'
    BY <1>a, <1>0, <2>1, <2>2 DEF NoHoleAfterFirstFrame
  <2> QED
    BY <2>1, <2>3, <2>4, <2>5 DEF Covered
<1>3. CASE FilterSkip
  <2>1. Delivered' \subseteq Delivered /\ UNCHANGED <<missed, cursor, pos>>
    BY <1>a, <1>3, SkipDelivered DEF FilterSkip, listenerVars, ghostVars
  <2> QED
    BY <1>a, <1>0, <2>1 DEF Covered, NoHoleAfterFirstFrame
<1>4. CASE Delivered' = Delivered /\ missed' = missed /\ cursor <= cursor' /\ cursor' \in Nat
  <2>2. \A d \in Delivered : d \in 1..cursor'
    BY <1>a, <1>0, <1>4 DEF Covered
  <2> QED
    BY <1>a, <1>0, <1>c, <1>4, <2>2 DEF Covered, NoHoleAfterFirstFrame
<1>5. \/ Connect \/ Deliver \/ FilterSkip
      \/ missed' = missed /\ cursor <= cursor' /\ cursor' \in Nat
  BY <1>0
  DEF Next, vars, listenerVars, ghostVars, Publish, Listener, DeliverClosed, ServerClose, ConnectFails,
      BodyError, ConnectionLost, RequestTimeout, Starter, Subscribed, SubscribeFails, PostAccepted, PostReturns,
      PostFails, StartCancelled, Filter, FilterForward, FilterEnds, Caller, NextEvent, NextClosed, Drop
<1> QED
  BY <1>a, <1>0, <1>1, <1>2, <1>3, <1>4, <1>5, DeliveredSteps

-----------------------------------------------------------------------------
(* Nothing is dropped between the tasks. *)

(***************************************************************************)
(* Who an event is from and what it is never changes.                      *)
(***************************************************************************)
LEMMA LogKept ==
  ASSUME IInv, [Next]_vars, NEW i \in 1..(pos - 1)
  PROVE  /\ i \in Nat
         /\ Own(i)' = Own(i) /\ Matches(i)' = Matches(i) /\ IsTerminal(i)' = IsTerminal(i)
<1>1. i \in 1..Len(log)
  BY DEF IInv, TypeOK, HubTypeOK, Position
<1>2. log'[i] = log[i]
  <2>1. ASSUME NEW e \in Event, Publish(e) PROVE log'[i] = log[i]
    BY <1>1, <2>1, PublishAppends DEF Publish, IInv, TypeOK
  <2>2. CASE UNCHANGED log
    BY <2>2
  <2> QED
    BY <2>1, <2>2
    DEF Next, vars, hubVars, Listener, Connect, Deliver, DeliverClosed, ServerClose, ConnectFails, BodyError,
        ConnectionLost, RequestTimeout, Starter, Subscribed, SubscribeFails, PostAccepted, HubAccept,
        PostReturns, PostFails, StartCancelled, Filter, FilterSkip, FilterForward, FilterEnds, Caller,
        NextEvent, NextClosed, Drop
<1> QED
  BY <1>1, <1>2 DEF Own, Matches, IsTerminal

(***************************************************************************)
(* Nobody gets a handle back once it is gone.                              *)
(***************************************************************************)
LEMMA InChargeBefore ==
  ASSUME IInv, [Next]_vars, InCharge'
  PROVE  InCharge
<1>1. CASE UNCHANGED <<handle, start>>
  BY <1>1 DEF InCharge
<1>2. CASE Starter
  BY <1>2 DEF InCharge, Starter, Subscribed, SubscribeFails, PostAccepted, PostReturns, PostFails,
              StartCancelled, callerVars, IInv, Handshake
<1>3. CASE Caller
  BY <1>3 DEF InCharge, Caller, NextEvent, NextClosed, Drop
<1> QED
  BY <1>1, <1>2, <1>3
  DEF Next, vars, callerVars, Publish, Listener, Connect, Deliver, DeliverClosed, ServerClose, ConnectFails,
      BodyError, ConnectionLost, RequestTimeout, Filter, FilterSkip, FilterForward, FilterEnds

(***************************************************************************)
(* An event passed stays passed, unless the filter skips it: it is not of  *)
(* our run then.                                                           *)
(***************************************************************************)
LEMMA PassedStays ==
  ASSUME DInv, [Next]_vars, NEW i \in 1..(pos - 1), Passed(i), Own(i)
  PROVE  Passed(i)'
<1>a. IInv /\ Covered
  BY DEF DInv
<1>b. Delivered \subseteq 1..(pos - 1)
  BY <1>a DEF IInv, Covered, TypeOK, Position
<1>1. ASSUME NEW j \in Delivered, Matches(j) PROVE j \in Delivered'
  <2>1. CASE Deliver
    BY <1>a, <2>1, DeliverDelivered
  <2>2. CASE FilterSkip
    BY <1>a, <1>1, <2>2, SkipDelivered DEF FilterSkip
  <2> QED
    BY <1>a, <2>1, <2>2, DeliveredSteps
<1>2. missed \subseteq missed'
  BY DEF Next, vars, ghostVars, Publish, Listener, Connect, Deliver, DeliverClosed, ServerClose, ConnectFails,
         BodyError, ConnectionLost, RequestTimeout, Starter, Subscribed, SubscribeFails, PostAccepted,
         PostReturns, PostFails, StartCancelled, Filter, FilterSkip, FilterForward, FilterEnds, Caller,
         NextEvent, NextClosed, Drop
<1>3. Matches(i)
  BY DEF Matches
<1>4. CASE i \in missed \cup Delivered
  BY <1>1, <1>2, <1>3, <1>4 DEF Passed
<1>5. CASE \E j \in Delivered : j <= i /\ Matches(j) /\ IsTerminal(j)
  <2>1. PICK j \in Delivered : j <= i /\ Matches(j) /\ IsTerminal(j)
    BY <1>5
  <2>2. j \in 1..(pos - 1)
    BY <1>b
  <2>3. j \in Delivered' /\ Matches(j)' /\ IsTerminal(j)'
    BY <1>a, <1>1, <2>1, <2>2, LogKept
  <2> QED
    BY <2>1, <2>3 DEF Passed
<1> QED
  BY <1>4, <1>5 DEF Passed

LEMMA CustodyStep ==
  ASSUME DInv, [Next]_vars
  PROVE  Custody'
<1>a. IInv /\ Covered /\ Custody /\ Endings /\ pos \in Nat /\ 1 <= pos
  BY DEF DInv, IInv, TypeOK
<1>b. pos' \in Nat /\ pos <= pos'
  BY <1>a, TypeStep, PositionStep DEF TypeOK
<1>c. 1..(pos' - 1) = 1..(pos - 1) \cup pos..(pos' - 1)
  BY <1>a, <1>b, BelowGrows
<1>1. SUFFICES ASSUME InCharge', NEW i \in 1..(pos' - 1), Own(i)'
      PROVE  Passed(i)'
  BY DEF Custody
<1>2. InCharge
  BY <1>a, <1>1, InChargeBefore
<1>3. CASE i \in 1..(pos - 1)
  <2>1. Own(i)
    BY <1>a, <1>1, <1>3, LogKept
  <2>2. Passed(i)
    BY <1>a, <1>2, <1>3, <2>1 DEF Custody
  <2> QED
    BY <1>3, <2>1, <2>2, PassedStays
<1>4. CASE i \in pos..(pos' - 1)
  <2>1. pos' # pos
    BY <1>a, <1>b, <1>4, BelowGrows
  <2>2. CASE Connect
    <3>1. Own(i)
      BY <1>1, <2>2 DEF Connect, hubVars, Own
    <3>2. i \in missed'
      BY <1>4, <2>2, <3>1 DEF Connect
    <3> QED
      BY <3>2 DEF Passed
  <2>3. CASE Deliver
    <3>1. i = pos
      BY <1>a, <1>4, <2>3 DEF Deliver
    <3> QED
      BY <1>a, <2>3, <3>1, DeliverDelivered DEF Passed
  <2>4. CASE DeliverClosed
    <3>1. i = pos /\ Delivered' = Delivered
      BY <1>a, <1>4, <2>4, QuietDelivered DEF DeliverClosed, callerVars
    <3>2. handle = "open" /\ filter = "done" /\ lpc # "done"
      BY <1>a, <1>2, <2>4 DEF DeliverClosed, ReceiverOpen, InCharge, Endings
    <3>3. PICK j : \E k \in 1..Len(outq) : j = outq[k] /\ IsTerminal(j)
      BY <1>a, <3>2 DEF Endings, TerminalQueued
    <3>4. j \in Delivered /\ Matches(j)
      BY <1>a, <3>3, DeliveredMembers DEF Members, IInv, TypeOK, Pipeline
    <3>5. j \in 1..(pos - 1)
      BY <1>a, <3>3 DEF IInv, Pipeline, InLog
    <3>6. j <= i /\ Matches(j)' /\ IsTerminal(j)'
      BY <1>a, <3>1, <3>3, <3>4, <3>5, LogKept
    <3> QED
      BY <3>1, <3>4, <3>6 DEF Passed
  <2> QED
    BY <2>1, <2>2, <2>3, <2>4
    DEF Next, vars, listenerVars, Publish, Listener, ServerClose, ConnectFails, BodyError, ConnectionLost,
        RequestTimeout, Starter, Subscribed, SubscribeFails, PostAccepted, PostReturns, PostFails,
        StartCancelled, Filter, FilterSkip, FilterForward, FilterEnds, Caller, NextEvent, NextClosed, Drop
<1> QED
  BY <1>1, <1>c, <1>3, <1>4

-----------------------------------------------------------------------------
(* How a stream ends. *)

LEMMA TerminalQueuedStep ==
  ASSUME IInv, [Next]_vars, TerminalQueued, handle' = "open", handle = "open"
  PROVE  TerminalQueued'
<1>1. PICK j : \E k \in 1..Len(outq) : j = outq[k] /\ IsTerminal(j)
  BY DEF TerminalQueued
<1>2. PICK k \in 1..Len(outq) : j = outq[k]
  BY <1>1
<1>3. outq \in Seq(Nat) /\ j \in 1..(pos - 1)
  BY <1>2 DEF IInv, TypeOK, Pipeline, InLog
<1>4. IsTerminal(j)'
  BY <1>1, <1>3, LogKept
<1>5. CASE FilterForward
  <2>1. /\ Head(hubq) \in Nat /\ outq' = Append(outq, Head(hubq))
    BY <1>5 DEF FilterForward, IInv, TypeOK
  <2>2. k \in 1..Len(outq') /\ outq'[k] = j
    BY <1>2, <1>3, <2>1
  <2> QED
    BY <1>4, <2>2 DEF TerminalQueued, IsTerminal
<1>6. CASE NextEvent
  <2>1. outq # <<>> /\ outq' = Tail(outq) /\ ~IsTerminal(Head(outq))
    BY <1>6 DEF NextEvent
  <2>2. k # 1
    BY <1>1, <1>2, <1>3, <2>1
  <2>3. k - 1 \in 1..Len(outq') /\ outq'[k - 1] = j
    BY <1>2, <1>3, <2>1, <2>2, HeadTailProperties
  <2> QED
    BY <1>4, <2>3 DEF TerminalQueued, IsTerminal
<1>7. CASE UNCHANGED outq
  BY <1>2, <1>4, <1>7 DEF TerminalQueued, IsTerminal
<1> QED
  BY <1>5, <1>6, <1>7
  DEF Next, vars, callerVars, Publish, Listener, Connect, Deliver, DeliverClosed, ServerClose, ConnectFails,
      BodyError, ConnectionLost, RequestTimeout, Starter, Subscribed, SubscribeFails, PostAccepted, PostReturns,
      PostFails, StartCancelled, Filter, FilterSkip, FilterEnds, Caller, NextClosed, Drop

(***************************************************************************)
(* A listener is stopped by the server or by its attempts, unless the      *)
(* filter had finished before it.                                          *)
(***************************************************************************)
LEMMA ListenerEnds ==
  ASSUME DInv, [Next]_vars, InCharge', lpc' = "done", filter' # "done"
  PROVE  Stopped'
<1>a. IInv /\ Endings /\ attempt \in Nat /\ attempt' \in Nat /\ MaxRetries \in Nat
  BY TypeStep, RetryAssumption DEF DInv, IInv, TypeOK
<1>b. InCharge
  BY <1>a, InChargeBefore
<1>1. CASE lpc = "done"
  <2>1. filter # "done" /\ attempt <= attempt' /\ (closedByServer => closedByServer')
    BY <1>a, <1>1
    DEF Endings, IInv, Handshake, callerVars, Next, vars, listenerVars, ghostVars, Publish, Listener, Connect, Deliver, DeliverClosed, ServerClose,
        ConnectFails, BodyError, ConnectionLost, RequestTimeout, Starter, Subscribed, SubscribeFails,
        PostAccepted, PostReturns, PostFails, StartCancelled, Filter, FilterSkip, FilterForward, FilterEnds,
        Caller, NextEvent, NextClosed, Drop
  <2>2. Stopped
    BY <1>a, <1>b, <1>1, <2>1 DEF Endings
  <2> QED
    BY <1>a, <2>1, <2>2 DEF Stopped
<1>2. CASE lpc # "done"
  <2>1. CASE ServerClose
    BY <2>1 DEF ServerClose, Stopped
  <2>2. CASE ConnectFails \/ BodyError
    <3>1. GiveUp /\ UNCHANGED <<start, filter>>
      BY <1>2, <2>2 DEF ConnectFails, BodyError, Retry
    <3>2. ReceiverOpen
      BY <1>b, <3>1 DEF ReceiverOpen, InCharge
    <3> QED
      BY <3>1, <3>2 DEF GiveUp, Stopped
  <2>3. CASE DeliverClosed
    BY <1>b, <2>3 DEF DeliverClosed, ReceiverOpen, InCharge
  <2> QED
    BY <1>2, <2>1, <2>2, <2>3
    DEF InCharge, Next, vars, listenerVars, Publish, Listener, Connect, Deliver, ConnectionLost, RequestTimeout,
        Starter, Subscribed, SubscribeFails, PostAccepted, PostReturns, PostFails, StartCancelled, Filter,
        FilterSkip, FilterForward, FilterEnds, Caller, NextEvent, NextClosed, Drop
<1> QED
  BY <1>1, <1>2

(***************************************************************************)
(* Once the listener is done and hubq is empty, nothing fills it again.    *)
(***************************************************************************)
LEMMA DryStays ==
  ASSUME IInv, [Next]_vars, lpc = "done", hubq = <<>>, Stopped
  PROVE  lpc' = "done" /\ hubq' = <<>> /\ Stopped'
BY DEF Stopped, Next, vars, listenerVars, ghostVars, Publish, Listener, Connect, Deliver, DeliverClosed,
       ServerClose, ConnectFails, BodyError, ConnectionLost, RequestTimeout, Starter, Subscribed, SubscribeFails,
       PostAccepted, PostReturns, PostFails, StartCancelled, Filter, FilterSkip, FilterForward, FilterEnds,
       Caller, NextEvent, NextClosed, Drop

(***************************************************************************)
(* The filter is done after a terminal event of ours, still queued while   *)
(* the handle is open, or because the channel from the listener closed.    *)
(***************************************************************************)
LEMMA FilterDone ==
  ASSUME DInv, [Next]_vars, handle' = "open", filter' = "done", ~TerminalQueued'
  PROVE  lpc' = "done" /\ hubq' = <<>> /\ Stopped'
<1>a. IInv /\ Endings
  BY DEF DInv
<1>1. CASE FilterForward
  <2>1. /\ hubq # <<>> /\ outq' = Append(outq, Head(hubq)) /\ UNCHANGED log
        /\ filter' = IF IsTerminal(Head(hubq)) THEN "done" ELSE "on"
    BY <1>1 DEF FilterForward, hubVars
  <2>2. hubq \in Seq(Nat) /\ outq \in Seq(Nat)
    BY <1>a DEF IInv, TypeOK
  <2>3. Head(hubq) \in Nat
    BY <2>1, <2>2
  <2>4. Len(outq') \in 1..Len(outq') /\ outq'[Len(outq')] = Head(hubq)
    BY <2>1, <2>2, <2>3
  <2>5. IsTerminal(Head(hubq))
    BY <2>1
  <2>6. TerminalQueued'
    BY <2>1, <2>4, <2>5 DEF TerminalQueued, IsTerminal
  <2> QED
    BY <2>6
<1>2. CASE FilterEnds
  <2>1. /\ handle = "open" /\ filter = "on" /\ lpc = "done" /\ hubq = <<>>
    BY <1>2 DEF FilterEnds, callerVars
  <2>2. InCharge
    BY <1>a, <2>1 DEF InCharge, IInv, Handshake
  <2>3. Stopped
    BY <1>a, <2>1, <2>2 DEF Endings
  <2> QED
    BY <1>a, <2>1, <2>3, DryStays
<1>3. CASE filter = "done"
  <2>1. handle = "open"
    BY <1>a, <1>3
    DEF Endings, IInv, Handshake, Next, vars, callerVars, Publish, Listener, Connect, Deliver, DeliverClosed,
        ServerClose, ConnectFails, BodyError, ConnectionLost, RequestTimeout, Starter, Subscribed, SubscribeFails,
        PostAccepted, PostReturns, PostFails, StartCancelled, Filter, FilterSkip, FilterForward, FilterEnds,
        Caller, NextEvent, NextClosed, Drop
  <2>2. ~TerminalQueued
    BY <1>a, <2>1, TerminalQueuedStep
  <2> QED
    BY <1>a, <1>3, <2>1, <2>2, DryStays DEF Endings
<1> QED
  BY <1>1, <1>2, <1>3
  DEF Next, vars, Publish, Listener, Connect, Deliver, DeliverClosed, ServerClose, ConnectFails, BodyError,
      ConnectionLost, RequestTimeout, Starter, Subscribed, SubscribeFails, PostAccepted, PostReturns, PostFails,
      StartCancelled, Filter, FilterSkip, Caller, NextEvent, NextClosed, Drop

LEMMA EndingsStep ==
  ASSUME DInv, [Next]_vars
  PROVE  Endings'
<1>1. handle' = "none" <=> filter' = "off"
  BY DEF DInv, IInv, Handshake, Endings, Next, vars, callerVars, Publish, Listener, Connect, Deliver, DeliverClosed,
         ServerClose, ConnectFails, BodyError, ConnectionLost, RequestTimeout, Starter, Subscribed, SubscribeFails,
         PostAccepted, PostReturns, PostFails, StartCancelled, Filter, FilterSkip, FilterForward, FilterEnds,
         Caller, NextEvent, NextClosed, Drop
<1> QED
  BY <1>1, ListenerEnds, FilterDone DEF Endings

LEMMA ClosedStep ==
  ASSUME DInv, [Next]_vars
  PROVE  ClosedForAReason'
<1>a. IInv /\ Endings /\ ClosedForAReason /\ attempt' \in Nat /\ attempt \in Nat /\ MaxRetries \in Nat
  BY TypeStep, RetryAssumption DEF DInv, IInv, TypeOK
<1>1. SUFFICES ASSUME handle' = "terminated", outcome' = "closed"
      PROVE  lpc' = "done" /\ hubq' = <<>> /\ Stopped'
  BY <1>a DEF ClosedForAReason, Stopped
<1>2. CASE NextClosed
  <2>1. handle = "open" /\ filter = "done" /\ outq = <<>>
    BY <1>2 DEF NextClosed
  <2>2. ~TerminalQueued
    BY <2>1 DEF TerminalQueued
  <2> QED
    BY <1>a, <2>1, <2>2, DryStays DEF Endings
<1>3. CASE NextEvent
  <2>1. IsTerminal(Head(outq)) /\ outcome' = log[Head(outq)].kind
    BY <1>1, <1>3 DEF NextEvent
  <2> QED
    BY <1>1, <2>1 DEF IsTerminal, Terminal
<1>4. CASE handle = "terminated" /\ outcome = "closed"
  <2>1. lpc = "done" /\ hubq = <<>> /\ Stopped
    BY <1>a, <1>4 DEF ClosedForAReason, Stopped
  <2> QED
    BY <1>a, <2>1, DryStays
<1> QED
  BY <1>1, <1>2, <1>3, <1>4
  DEF Next, vars, callerVars, Publish, Listener, Connect, Deliver, DeliverClosed, ServerClose, ConnectFails,
      BodyError, ConnectionLost, RequestTimeout, Starter, Subscribed, SubscribeFails, PostAccepted, PostReturns,
      PostFails, StartCancelled, Filter, FilterSkip, FilterForward, FilterEnds, Caller, Drop

-----------------------------------------------------------------------------
(* The theorems. *)

LEMMA InitDInv == Init => DInv
<1> SUFFICES ASSUME Init PROVE DInv
  OBVIOUS
<1>1. IInv
  BY InitInv
<1>2. Delivered = {}
  BY DEF Init, Delivered
<1>3. Covered /\ NoHoleAfterFirstFrame
  BY <1>2 DEF Init, Covered, NoHoleAfterFirstFrame
<1>4. Custody
  BY DEF Init, Custody
<1>5. Endings /\ ClosedForAReason
  BY DEF Init, Endings, ClosedForAReason
<1> QED
  BY <1>1, <1>3, <1>4, <1>5 DEF DInv

(***************************************************************************)
(* DInv holds in every reachable state.                                    *)
(***************************************************************************)
THEOREM DeliveryInductive == Spec => []DInv
<1>1. DInv /\ [Next]_vars => DInv'
  <2> SUFFICES ASSUME DInv, [Next]_vars PROVE DInv'
    OBVIOUS
  <2>1. IInv'
    BY TypeStep, HandshakeStep, AttemptsStep, PositionStep, UnsettledStep, OpeningStep, PipelineStep DEF DInv, IInv
  <2> QED
    BY <2>1, CoveredStep, CustodyStep, EndingsStep, ClosedStep DEF DInv
<1> QED
  BY <1>1, InitDInv, PTL DEF Spec

(***************************************************************************)
(* With a server that replays, a lost connection costs at most events that *)
(* precede everything the handle was ever given.                           *)
(***************************************************************************)
THEOREM NoHole == Spec => []NoHoleAfterFirstFrame
<1>1. DInv => NoHoleAfterFirstFrame
  BY DEF DInv
<1> QED
  BY <1>1, DeliveryInductive, PTL

(***************************************************************************)
(* While the handle is open, no event of the run that the listener read is *)
(* lost between the tasks.                                                 *)
(***************************************************************************)
THEOREM NothingLostBetweenTasks == Spec => []NothingDropped
<1>1. DInv => NothingDropped
  <2>1. SUFFICES ASSUME DInv, handle = "open", NEW i \in 1..(pos - 1), Own(i)
        PROVE  Passed(i)
    BY DEF NothingDropped, Passed
  <2>2. InCharge
    BY <2>1 DEF InCharge, DInv, IInv, Handshake
  <2> QED
    BY <2>1, <2>2 DEF DInv, Custody
<1> QED
  BY <1>1, DeliveryInductive, PTL

(***************************************************************************)
(* output() says "ended without a terminal event" only of a stream the     *)
(* server closed or whose attempts are used up.                            *)
(***************************************************************************)
THEOREM ClosedOnlyForAReason == Spec => []ClosedForAReason
<1>1. DInv => ClosedForAReason
  BY DEF DInv
<1> QED
  BY <1>1, DeliveryInductive, PTL
=============================================================================
