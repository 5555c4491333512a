------------------------- MODULE PyRunStreamProofs --------------------------
(***************************************************************************)
(* Proofs about PyRunStream, for every log bound, any number of consumers, *)
(* every retry limit and number of lost or lagging connections, servers    *)
(* with or without replay and execution-id stamps, and WebSocket frames    *)
(* with or without a sequence number.                                      *)
(*                                                                         *)
(* The inductive invariant is IInv of PyRunStream: where the connection is *)
(* relative to the buffer, what the ready event means, and whose handle a  *)
(* listener at work belongs to, next to the four properties.               *)
(***************************************************************************)
EXTENDS PyRunStream, HubLemmas

ConsumerState == [got : Nat, doing : {"off", "ready", "waiting", "ended", "left"}]

\* What the actions other than the consumers' leave of the state.
clientVars == <<hubVars, transportVars, lpc, connVars, ready, start, closing, events, outcome, ghostVars>>

-----------------------------------------------------------------------------
(* What the steps do, under the invariant. *)

(***************************************************************************)
(* Setting the signal leaves nobody waiting.                               *)
(***************************************************************************)
LEMMA WokenFacts ==
  ASSUME IInv
  PROVE  /\ Woken \in [Consumers -> ConsumerState]
         /\ \A c \in Consumers : Woken[c].doing # "waiting"
<1>1. consumer \in [Consumers -> ConsumerState]
  BY DEF IInv, TypeOK, ConsumerState
<1>2. ASSUME NEW c \in Consumers
      PROVE  Woken[c] \in ConsumerState /\ Woken[c].doing # "waiting"
  <2>1. consumer[c] \in ConsumerState
    BY <1>1
  <2>2. CASE consumer[c].doing = "waiting"
    <3>1. Woken[c] = [consumer[c] EXCEPT !.doing = "ready"]
      BY <2>2 DEF Woken
    <3>2. /\ [consumer[c] EXCEPT !.doing = "ready"] \in ConsumerState
          /\ [consumer[c] EXCEPT !.doing = "ready"].doing = "ready"
      BY <2>1 DEF ConsumerState
    <3> QED
      BY <3>1, <3>2
  <2>3. CASE consumer[c].doing # "waiting"
    BY <2>1, <2>3 DEF Woken
  <2> QED
    BY <2>2, <2>3
<1> QED
  BY <1>2 DEF Woken

(***************************************************************************)
(* A failure: the listener connects again, or it stops, and then the       *)
(* handle is closed, ready is set and nobody waits.                        *)
(***************************************************************************)
LEMMA FailureFacts ==
  ASSUME IInv, RetryOrCrash
  PROVE  /\ attempt' \in 0..MaxRetries
         /\ \/ lpc' = "connecting" /\ UNCHANGED <<ready, outcome, consumer>>
            \/ Crash
  BY PyAssumption DEF RetryOrCrash, Retry, Crash, IInv, TypeOK

LEMMA CrashFacts ==
  ASSUME IInv, Crash
  PROVE  /\ lpc' = "done" /\ outcome' = "closed" /\ consumer' = Woken /\ UNCHANGED attempt
         /\ ready' # "unset" /\ (ready' = "live" => ready = "live")
         /\ ready' \in {"unset", "live", "refused", "over"}
         /\ (ready # "unset" => ready' = ready)
  BY DEF Crash, Leave, SetReady, IInv, TypeOK

(***************************************************************************)
(* A consumer's step moves that consumer only; it is left waiting only at  *)
(* the end of the buffer of a handle that is pending.                      *)
(***************************************************************************)
LEMMA ConsumerFacts ==
  ASSUME IInv, NEW c \in Consumers, Begin(c) \/ Consume(c) \/ Stop(c)
  PROVE  /\ UNCHANGED clientVars
         /\ consumer' \in [Consumers -> ConsumerState]
         /\ \A d \in Consumers \ {c} : consumer'[d] = consumer[d]
         /\ consumer'[c].doing = "waiting" => consumer'[c].got = Len(events) /\ outcome = "pending"
<1>1. consumer \in [Consumers -> ConsumerState] /\ consumer[c].got \in Nat
  BY DEF IInv, TypeOK, ConsumerState
<1>2. ASSUME NEW got \in Nat, NEW doing \in {"off", "ready", "waiting", "ended", "left"}, Set(c, got, doing)
      PROVE  /\ UNCHANGED clientVars
             /\ consumer' \in [Consumers -> ConsumerState]
             /\ \A d \in Consumers \ {c} : consumer'[d] = consumer[d]
             /\ consumer'[c].doing = doing /\ consumer'[c].got = got
  <2> DEFINE s == [got |-> got, doing |-> doing]
  <2>1. s \in ConsumerState /\ s.doing = doing /\ s.got = got
    BY DEF ConsumerState
  <2>2. consumer' = [consumer EXCEPT ![c] = s]
    BY <1>2 DEF Set
  <2> HIDE DEF s
  <2> QED
    BY <1>1, <1>2, <2>1, <2>2 DEF Set, clientVars
<1>3. CASE Begin(c)
  BY <1>2, <1>3 DEF Begin
<1>4. CASE Take(c)
  BY <1>1, <1>2, <1>4 DEF Take
<1>5. CASE End(c)
  BY <1>1, <1>2, <1>5 DEF End
<1>6. CASE Wait(c)
  BY <1>1, <1>2, <1>6 DEF Wait
<1>7. CASE Stop(c)
  BY <1>2, <1>7 DEF Stop
<1> QED
  BY <1>3, <1>4, <1>5, <1>6, <1>7 DEF Consume

(***************************************************************************)
(* A frame is skipped, buffered, or buffered as the last: then the         *)
(* listener stops and the handle has its own outcome.                      *)
(***************************************************************************)
LEMMA DeliverFacts ==
  ASSUME IInv, Deliver
  PROVE  /\ lpc = "streaming" /\ pos \in 1..Len(log) /\ pos' = pos + 1
         /\ cursor' = IF transport = "ws" /\ ~WsSeq THEN cursor ELSE pos
         /\ UNCHANGED <<log, run, transport, committed, attempt, start, closing, breaks, holed, missed>>
         /\ \/ /\ Skipped(pos)
               /\ UNCHANGED <<lpc, ready, events, outcome, consumer>>
            \/ /\ ~Skipped(pos) /\ ~IsTerminal(pos)
               /\ events' = Append(events, pos) /\ consumer' = Woken
               /\ UNCHANGED <<lpc, ready, outcome>>
            \/ /\ ~Skipped(pos) /\ IsTerminal(pos)
               /\ events' = Append(events, pos) /\ consumer' = Woken
               /\ lpc' = "done" /\ outcome' = log[pos].kind /\ UNCHANGED ready
<1>1. pos \in 1..Len(log)
  BY DEF Deliver, IInv, TypeOK, HubTypeOK
<1>2. ready # "unset"
  BY DEF Deliver, IInv, Handshake
<1>3. /\ lpc = "streaming" /\ pos' = pos + 1
      /\ cursor' = IF transport = "ws" /\ ~WsSeq THEN cursor ELSE pos
      /\ UNCHANGED <<log, run, transport, committed, attempt, start, closing, breaks, holed, missed>>
  BY DEF Deliver, hubVars, transportVars, ghostVars
<1>4. IF Skipped(pos) THEN UNCHANGED <<lpc, ready, events, outcome, consumer>> ELSE AppendEvent(pos)
  BY DEF Deliver, bufferVars
<1> QED
  BY <1>1, <1>2, <1>3, <1>4 DEF AppendEvent, Leave, SetReady

(***************************************************************************)
(* A connection starts past all that is buffered; with a replaying server  *)
(* and nothing in between, exactly where the last one stopped.             *)
(***************************************************************************)
LEMMA ConnectFacts ==
  ASSUME IInv, Connect
  PROVE  /\ lpc = "connecting" /\ lpc' = "streaming"
         /\ pos' \in Nat \ {0} /\ pos' <= Len(log) + 1 /\ cursor < pos'
         /\ (Replay /\ cursor # 0) => pos' = cursor + 1
         /\ ~(Replay /\ cursor # 0) => pos' = Len(log) + 1
         /\ \A k \in 1..Len(events) : events[k] \in 1..(pos' - 1)
         /\ missed' = missed \cup {i \in pos..(pos' - 1) : Own(i)}
         /\ ready' = IF ready = "unset" THEN "live" ELSE ready
         /\ attempt' = 0 /\ committed' = (committed \/ transport = "ws")
         /\ UNCHANGED <<log, run, transport, cursor, start, closing, events, outcome, consumer, breaks, holed>>
<1>1. /\ lpc = "connecting" /\ lpc' = "streaming"
      /\ pos' = ResumeAt(cursor)
      /\ missed' = missed \cup {i \in pos..(pos' - 1) : Own(i)}
      /\ ready' = IF ready = "unset" THEN "live" ELSE ready
      /\ attempt' = 0 /\ committed' = (committed \/ transport = "ws")
      /\ UNCHANGED <<log, run, transport, cursor, start, closing, events, outcome, consumer, breaks, holed>>
  BY DEF Connect, SetReady, hubVars, bufferVars
<1>2. pos \in Nat \ {0} /\ cursor \in Nat /\ Len(log) \in Nat /\ events \in Seq(Nat)
  BY DEF IInv, TypeOK, HubTypeOK
<1>3. /\ (Replay /\ cursor # 0) => pos' = cursor + 1
      /\ ~(Replay /\ cursor # 0) => pos' = Len(log) + 1
  BY <1>1 DEF ResumeAt
<1>4. pos' \in Nat \ {0} /\ pos' <= Len(log) + 1 /\ cursor < pos'
  BY <1>2, <1>3 DEF IInv, Position
<1>5. \A k \in 1..Len(events) : events[k] \in 1..(pos' - 1)
  BY <1>2, <1>3, <1>4 DEF IInv, Position
<1> QED
  BY <1>1, <1>3, <1>4, <1>5

-----------------------------------------------------------------------------
(* Type correctness. *)

LEMMA InitInv == Init => IInv
<1> SUFFICES ASSUME Init PROVE IInv
  OBVIOUS
<1> USE DEF Init, HubInit
<1>1. <<>> \in Seq(Event) /\ <<>> \in Seq(Nat) /\ Len(<<>>) = 0
  BY EmptySeq
<1>2. consumer \in [Consumers -> ConsumerState]
  BY DEF ConsumerState
<1>3. TypeOK
  <2>1. HubTypeOK
    BY <1>1 DEF HubTypeOK
  <2>2. /\ pos \in Nat \ {0} /\ cursor \in Nat /\ breaks \in 0..MaxBreaks /\ missed \subseteq Nat
        /\ attempt \in 0..MaxRetries
    BY PyAssumption
  <2> QED
    BY <1>1, <1>2, <2>1, <2>2 DEF TypeOK, ConsumerState, Outcome
<1>4. Position /\ Intact /\ Uncommitted /\ AtWork
  BY <1>1 DEF Position, Intact, Uncommitted, AtWork
<1>5. Handshake
  BY <1>1 DEF Handshake
<1>6. NothingDropped /\ NoOpeningGap /\ NoHoleOnOneTransport
  BY DEF NothingDropped, NoOpeningGap, NoHoleOnOneTransport
<1>7. NoLostWakeup
  BY DEF NoLostWakeup
<1> QED
  BY <1>3, <1>4, <1>5, <1>6, <1>7 DEF IInv

LEMMA TypeStep ==
  ASSUME IInv, [Next]_vars
  PROVE  TypeOK'
<1> USE DEF IInv
<1>0. Woken \in [Consumers -> ConsumerState]
  BY WokenFacts
<1>1. ASSUME NEW e \in Event, Publish(e) PROVE TypeOK'
  <2>1. HubTypeOK'
    BY <1>1, PublishAppends DEF Publish, TypeOK
  <2> QED
    BY <1>1, <2>1 DEF Publish, TypeOK, transportVars, connVars, bufferVars, ghostVars
<1>2. CASE Connect
  <2>1. missed' \subseteq Nat
    <3>1. \A i \in pos..(pos' - 1) : i \in Nat
      BY <1>2, ConnectFacts DEF TypeOK
    <3>2. \A i \in missed' : i \in missed \/ i \in pos..(pos' - 1)
      BY <1>2 DEF Connect
    <3> QED
      BY <3>1, <3>2 DEF TypeOK
  <2>2. /\ pos' \in Nat \ {0} /\ attempt' \in 0..MaxRetries /\ committed' \in BOOLEAN
        /\ ready' \in {"unset", "live", "refused", "over"}
    <3>1. pos' \in Nat \ {0}
      BY <1>2, ConnectFacts
    <3>2. attempt' \in 0..MaxRetries
      BY <1>2, PyAssumption DEF Connect
    <3>3. committed' \in BOOLEAN /\ ready' \in {"unset", "live", "refused", "over"}
      BY <1>2 DEF Connect, SetReady, TypeOK
    <3> QED
      BY <3>1, <3>2, <3>3
  <2> QED
    BY <1>2, <2>1, <2>2 DEF Connect, TypeOK, HubTypeOK, hubVars, bufferVars
<1>3. CASE WsFallsBack
  BY <1>3, PyAssumption DEF WsFallsBack, TypeOK, HubTypeOK, hubVars, bufferVars
<1>4. CASE WsForcedFails
  BY <1>0, <1>4, CrashFacts DEF WsForcedFails, TypeOK, HubTypeOK, hubVars, transportVars, ghostVars,
                                ConsumerState, Outcome
<1>5. CASE ConnectFails
  BY <1>0, <1>5, FailureFacts, CrashFacts
  DEF ConnectFails, TypeOK, HubTypeOK, hubVars, transportVars, ghostVars, ConsumerState, Outcome
<1>6. CASE ConnectionLost
  <2>1. breaks' \in 0..MaxBreaks
    BY <1>6, PyAssumption DEF ConnectionLost, TypeOK
  <2>2. RetryOrCrash
    BY <1>6 DEF ConnectionLost
  <2>3. CASE lpc' = "connecting" /\ UNCHANGED <<ready, outcome, consumer>>
    BY <1>6, <2>1, <2>2, <2>3, FailureFacts DEF ConnectionLost, TypeOK, HubTypeOK, hubVars, transportVars
  <2>4. CASE Crash
    BY <1>0, <1>6, <2>1, <2>2, <2>4, FailureFacts, CrashFacts
    DEF ConnectionLost, TypeOK, HubTypeOK, hubVars, transportVars, ConsumerState, Outcome
  <2> QED
    BY <2>2, <2>3, <2>4, FailureFacts
<1>7. CASE SseRefused
  BY <1>7, PyAssumption DEF SseRefused, SetReady, TypeOK, HubTypeOK, hubVars, transportVars, bufferVars, ghostVars
<1>8. CASE Deliver
  <2>1. /\ HubTypeOK' /\ transport' \in {"ws", "sse"} /\ committed' \in BOOLEAN /\ attempt' \in 0..MaxRetries
        /\ pos' \in Nat \ {0} /\ cursor' \in Nat
        /\ start' \in {"wait_ready", "posting", "accepted", "live", "failed", "cancelled"}
        /\ closing' \in {"no", "begun", "over"}
        /\ breaks' \in 0..MaxBreaks /\ holed' \in BOOLEAN /\ missed' \subseteq Nat
    BY <1>8 DEF Deliver, TypeOK, HubTypeOK, hubVars, transportVars, ghostVars
  <2>2. CASE UNCHANGED <<lpc, ready, events, outcome, consumer>>
    BY <2>1, <2>2 DEF TypeOK
  <2>3. CASE events' = Append(events, pos) /\ consumer' = Woken /\ UNCHANGED <<lpc, ready, outcome>>
    BY <1>0, <2>1, <2>3 DEF TypeOK, ConsumerState
  <2>4. CASE /\ IsTerminal(pos)
             /\ events' = Append(events, pos) /\ consumer' = Woken
             /\ lpc' = "done" /\ outcome' = log[pos].kind /\ UNCHANGED ready
    <3>1. outcome' \in Outcome
      BY <2>4 DEF IsTerminal, Terminal, Outcome
    <3> QED
      BY <1>0, <2>1, <2>4, <3>1 DEF TypeOK, ConsumerState
  <2> QED
    BY <1>8, <2>2, <2>3, <2>4, DeliverFacts
<1>9. CASE Lagged
  <2>1. missed' \subseteq Nat
    <3>1. \A i \in pos..Len(log) : i \in Nat
      BY DEF TypeOK, HubTypeOK
    <3>2. \A i \in missed' : i \in missed \/ i \in pos..Len(log)
      BY <1>9 DEF Lagged
    <3> QED
      BY <3>1, <3>2 DEF TypeOK
  <2>2. pos' \in Nat \ {0} /\ breaks' \in 0..MaxBreaks
    BY <1>9, PyAssumption DEF Lagged, TypeOK, HubTypeOK
  <2> QED
    BY <1>9, <2>1, <2>2 DEF Lagged, TypeOK, HubTypeOK, hubVars, transportVars, bufferVars
<1>10. CASE ServerClose
  BY <1>0, <1>10 DEF ServerClose, Leave, SetReady, TypeOK, HubTypeOK, hubVars, transportVars, connVars,
                     ghostVars, ConsumerState
<1>11. CASE Subscribed \/ PostReturns \/ PostFails \/ StartCancelled
  <2>1. /\ start' \in {"posting", "live", "failed", "cancelled"}
        /\ UNCHANGED <<hubVars, transportVars, lpc, connVars, ready, closing, bufferVars, ghostVars>>
    BY <1>11 DEF Subscribed, PostReturns, PostFails, StartCancelled, StartAbandoned
  <2> QED
    BY <2>1 DEF TypeOK, HubTypeOK, hubVars, transportVars, connVars, bufferVars, ghostVars
<1>12. CASE PostAccepted
  BY <1>12 DEF PostAccepted, HubAccept, TypeOK, HubTypeOK, transportVars, connVars, bufferVars, ghostVars
<1>13. CASE StartTimeout
  BY <1>0, <1>13 DEF StartTimeout, Leave, SetReady, TypeOK, HubTypeOK, hubVars, transportVars, connVars,
                     ghostVars, ConsumerState, Outcome
<1>14. CASE CancelBegins
  BY <1>0, <1>14 DEF CancelBegins, Leave, SetReady, TypeOK, HubTypeOK, hubVars, transportVars, connVars,
                     ghostVars, ConsumerState
<1>15. CASE CancelEnds
  BY <1>0, <1>15 DEF CancelEnds, TypeOK, HubTypeOK, hubVars, transportVars, connVars, ghostVars,
                     ConsumerState, Outcome
<1>16. ASSUME NEW c \in Consumers, Begin(c) \/ Consume(c) \/ Stop(c) PROVE TypeOK'
  <2>1. UNCHANGED clientVars /\ consumer' \in [Consumers -> ConsumerState]
    BY <1>16, ConsumerFacts
  <2> QED
    BY <2>1 DEF clientVars, TypeOK, HubTypeOK, hubVars, transportVars, connVars, ghostVars, ConsumerState
<1>17. CASE UNCHANGED vars
  BY <1>17 DEF vars, TypeOK, HubTypeOK, hubVars, transportVars, connVars, bufferVars, ghostVars
<1> QED
  BY <1>1, <1>2, <1>3, <1>4, <1>5, <1>6, <1>7, <1>8, <1>9, <1>10, <1>11, <1>12, <1>13, <1>14, <1>15, <1>16,
     <1>17
  DEF Next, Client, Listener, Starter

-----------------------------------------------------------------------------
(* The connection and the buffer. *)

AtWorkNow == lpc \in {"connecting", "streaming"}

(***************************************************************************)
(* Only four steps of the listener move the connection, its cursor or its  *)
(* transport or touch the buffer; and only Connect starts streaming.       *)
(***************************************************************************)
LEMMA QuietSteps ==
  ASSUME IInv, [Next]_vars
  PROVE  \/ \E e \in Event : Publish(e)
         \/ Connect \/ WsFallsBack \/ Deliver \/ Lagged
         \/ /\ UNCHANGED <<log, pos, cursor, transport, committed, events, holed, missed>>
            /\ lpc' = "streaming" => lpc = "streaming"
            /\ AtWorkNow' => AtWorkNow
<1> DEFINE Quiet == /\ UNCHANGED <<log, pos, cursor, transport, committed, events, holed, missed>>
                    /\ lpc' = "streaming" => lpc = "streaming"
                    /\ AtWorkNow' => AtWorkNow
<1>1. CASE WsForcedFails
  BY <1>1, CrashFacts DEF WsForcedFails, AtWorkNow, hubVars, transportVars, ghostVars
<1>2. CASE ConnectFails
  BY <1>2, FailureFacts, CrashFacts DEF ConnectFails, AtWorkNow, hubVars, transportVars, ghostVars
<1>3. CASE ConnectionLost
  BY <1>3, FailureFacts, CrashFacts DEF ConnectionLost, AtWorkNow, hubVars, transportVars
<1>4. CASE SseRefused
  BY <1>4 DEF SseRefused, AtWorkNow, hubVars, transportVars, bufferVars, ghostVars
<1>5. CASE ServerClose
  BY <1>5 DEF ServerClose, Leave, AtWorkNow, hubVars, transportVars, connVars, ghostVars
<1>6. CASE Subscribed \/ PostReturns \/ PostFails \/ StartCancelled
  BY <1>6 DEF Subscribed, PostReturns, PostFails, StartCancelled, StartAbandoned, AtWorkNow, hubVars,
              transportVars, connVars, bufferVars, ghostVars
<1>7. CASE PostAccepted
  BY <1>7 DEF PostAccepted, HubAccept, AtWorkNow, transportVars, connVars, bufferVars, ghostVars
<1>8. CASE StartTimeout \/ CancelBegins \/ CancelEnds
  BY <1>8 DEF StartTimeout, CancelBegins, CancelEnds, Leave, AtWorkNow, hubVars, transportVars, connVars,
              ghostVars
<1>9. ASSUME NEW c \in Consumers, Begin(c) \/ Consume(c) \/ Stop(c) PROVE Quiet
  BY <1>9, ConsumerFacts DEF clientVars, AtWorkNow, hubVars, transportVars, connVars, ghostVars
<1>10. CASE UNCHANGED vars
  BY <1>10 DEF vars, AtWorkNow, hubVars, transportVars, connVars, bufferVars, ghostVars
<1> QED
  BY <1>1, <1>2, <1>3, <1>4, <1>5, <1>6, <1>7, <1>8, <1>9, <1>10 DEF Next, Client, Listener, Starter

(***************************************************************************)
(* What is appended is above all that is in the buffer.                    *)
(***************************************************************************)
LEMMA DeliverEvents ==
  ASSUME IInv, Deliver
  PROVE  /\ events' = events \/ events' = Append(events, pos)
         /\ \A k \in 1..Len(events') : events'[k] \in 1..pos
         /\ pos \in Nat \ {0} /\ events \in Seq(Nat)
<1>1. pos \in Nat \ {0} /\ events \in Seq(Nat)
  BY DEF IInv, TypeOK
<1>2. events' = events \/ events' = Append(events, pos)
  BY DeliverFacts
<1>3. \A k \in 1..Len(events) : events[k] \in 1..pos
  BY <1>1 DEF IInv, Position
<1>4. CASE events' = Append(events, pos)
  <2>1. pos \in 1..pos
    BY <1>1
  <2> QED
    BY <1>1, <1>3, <1>4, <2>1, AppendMembers
<1> QED
  BY <1>1, <1>2, <1>3, <1>4

LEMMA PositionStep ==
  ASSUME IInv, [Next]_vars
  PROVE  Position'
<1> USE DEF IInv
<1>0. pos \in Nat \ {0} /\ cursor \in Nat /\ Len(log) \in Nat /\ events \in Seq(Nat)
  BY DEF TypeOK, HubTypeOK
<1>1. ASSUME NEW e \in Event, Publish(e) PROVE Position'
  <2>1. UNCHANGED <<pos, cursor, transport, events>> /\ Len(log') = Len(log) + 1
    BY <1>1, PublishAppends DEF Publish, TypeOK, transportVars, connVars, bufferVars
  <2> QED
    BY <1>0, <2>1 DEF Position
<1>2. CASE Connect
  <2>1. UNCHANGED <<log, transport, cursor, events>>
    BY <1>2, ConnectFacts
  <2>2. pos' <= Len(log) + 1 /\ cursor < pos' /\ \A k \in 1..Len(events) : events[k] \in 1..(pos' - 1)
    BY <1>2, ConnectFacts
  <2> QED
    BY <2>1, <2>2 DEF Position
<1>3. CASE WsFallsBack
  <2>1. cursor' = 0 /\ transport' = "sse" /\ UNCHANGED <<log, pos, events>>
    BY <1>3 DEF WsFallsBack, hubVars, bufferVars
  <2> QED
    BY <1>0, <2>1 DEF Position
<1>4. CASE Deliver
  <2>1. /\ pos' = pos + 1 /\ pos <= Len(log) /\ UNCHANGED <<log, transport>>
        /\ cursor' = IF transport = "ws" /\ ~WsSeq THEN cursor ELSE pos
    BY <1>4 DEF Deliver, hubVars, transportVars
  <2>2. \A k \in 1..Len(events') : events'[k] \in 1..(pos' - 1) /\ events'[k] <= pos
    BY <1>0, <1>4, <2>1, DeliverEvents
  <2>3. cursor' # 0 => cursor' = pos
    BY <2>1 DEF Position
  <2> QED
    BY <1>0, <2>1, <2>2, <2>3 DEF Position
<1>5. CASE Lagged
  <2>1. pos' = Len(log) + 1 /\ UNCHANGED <<log, transport, cursor, events>>
    BY <1>5 DEF Lagged, hubVars, transportVars, bufferVars
  <2> QED
    BY <1>0, <2>1 DEF Position
<1>6. CASE UNCHANGED <<log, pos, cursor, transport, events>>
  BY <1>6 DEF Position
<1> QED
  BY <1>1, <1>2, <1>3, <1>4, <1>5, <1>6, QuietSteps

LEMMA IntactStep ==
  ASSUME IInv, [Next]_vars
  PROVE  Intact'
<1> USE DEF IInv
<1>0. pos \in Nat \ {0} /\ cursor \in Nat /\ Len(log) \in Nat /\ events \in Seq(Nat)
  BY DEF TypeOK, HubTypeOK
<1>1. CASE UNCHANGED <<pos, cursor, events, holed, missed>>
  BY <1>1 DEF Intact
<1>2. ASSUME NEW e \in Event, Publish(e) PROVE Intact'
  BY <1>1, <1>2 DEF Publish, connVars, bufferVars, ghostVars
<1>3. CASE Connect
  <2>1. SUFFICES ASSUME ~holed
                 PROVE  /\ missed' \subseteq 1..(pos' - 1)
                        /\ (Replay /\ cursor # 0) => pos' = cursor + 1
                        /\ WsSeq => \A k \in 1..Len(events) : events[k] <= cursor
    BY <1>3, ConnectFacts DEF Intact
  <2>2. pos' \in Nat /\ pos <= pos' /\ ((Replay /\ cursor # 0) => pos' = cursor + 1)
    BY <1>0, <1>3, <2>1, ConnectFacts DEF Intact, Position
  <2>3. \A i \in missed' : i \in 1..(pos' - 1)
    <3>1. \A i \in missed : i \in 1..(pos' - 1)
      BY <1>0, <2>1, <2>2 DEF Intact
    <3>2. \A i \in pos..(pos' - 1) : i \in 1..(pos' - 1)
      <4>1. pos \in Nat \ {0} /\ pos' \in Nat
        BY <1>0, <2>2
      <4> QED
        BY <4>1, PassedOver
    <3>3. \A i \in missed' : i \in missed \/ i \in pos..(pos' - 1)
      BY <1>3 DEF Connect
    <3> QED
      BY <3>1, <3>2, <3>3
  <2> QED
    BY <2>1, <2>2, <2>3 DEF Intact
<1>4. CASE WsFallsBack
  <2>1. /\ cursor' = 0 /\ transport = "ws" /\ UNCHANGED <<pos, events, missed>>
        /\ ~holed' => ~holed /\ ~committed
    BY <1>4 DEF WsFallsBack, bufferVars
  <2>2. ~holed' => events = <<>>
    BY <2>1 DEF Uncommitted
  <2>3. events = <<>> => Len(events) = 0
    OBVIOUS
  <2> QED
    BY <2>1, <2>2, <2>3 DEF Intact
<1>5. CASE Deliver
  <2>1. /\ pos' = pos + 1 /\ UNCHANGED <<holed, missed>>
        /\ cursor' = IF transport = "ws" /\ ~WsSeq THEN cursor ELSE pos
    BY <1>5 DEF Deliver, ghostVars
  <2>2. \A k \in 1..Len(events') : events'[k] <= pos
    BY <1>0, <1>5, DeliverEvents
  <2>3. cursor' # 0 => cursor' = pos
    BY <2>1 DEF Position
  <2>4. WsSeq => cursor' = pos
    BY <2>1
  <2>5. ~holed => \A i \in missed : i \in 1..(pos' - 1)
    BY <1>0, <2>1 DEF Intact
  <2> QED
    BY <1>0, <2>1, <2>2, <2>3, <2>4, <2>5 DEF Intact
<1>6. CASE Lagged
  BY <1>6 DEF Lagged, Intact
<1> QED
  BY <1>1, <1>2, <1>3, <1>4, <1>5, <1>6, QuietSteps

LEMMA UncommittedStep ==
  ASSUME IInv, [Next]_vars
  PROVE  Uncommitted'
<1> USE DEF IInv, Uncommitted
<1>1. ASSUME NEW e \in Event, Publish(e) PROVE Uncommitted'
  BY <1>1 DEF Publish, transportVars, bufferVars
<1>2. CASE Connect
  BY <1>2 DEF Connect
<1>3. CASE WsFallsBack
  BY <1>3 DEF WsFallsBack
<1>4. CASE Deliver \/ Lagged
  BY <1>4 DEF Deliver, Lagged, transportVars
<1> QED
  BY <1>1, <1>2, <1>3, <1>4, QuietSteps

-----------------------------------------------------------------------------
(* The handshake. *)

LEMMA HandshakeStep ==
  ASSUME IInv, [Next]_vars
  PROVE  Handshake'
<1> USE DEF IInv
<1>0. breaks \in Nat /\ ready \in {"unset", "live", "refused", "over"}
  BY PyAssumption DEF TypeOK
<1>1. ASSUME NEW e \in Event, Publish(e) PROVE Handshake'
  <2>1. UNCHANGED <<lpc, ready, start, breaks, missed>>
    BY <1>1 DEF Publish, ghostVars
  <2>2. /\ Len(log') = Len(log) + 1 /\ Len(log) \in Nat
        /\ \A j \in 1..Len(log) : log'[j] = log[j]
        /\ log'[Len(log) + 1] = e
        /\ run # "absent" => run' # "absent"
        /\ e.src = "own" => run' # "absent"
    BY <1>1, PublishAppends DEF Publish, TypeOK, HubTypeOK
  <2>3. run' # "absent" => run # "absent"
    BY <1>1 DEF Publish, HubPublish
  <2>4. ASSUME NEW i \in 1..Len(log'), Own(i)' PROVE run' # "absent"
    <3>1. CASE i \in 1..Len(log)
      BY <2>2, <2>4, <3>1 DEF Own, Handshake
    <3>2. CASE i = Len(log) + 1
      BY <2>2, <2>4, <3>2 DEF Own
    <3> QED
      BY <2>2, <3>1, <3>2
  <2> QED
    BY <2>1, <2>3, <2>4 DEF Handshake
<1>2. CASE Connect
  <2>1. /\ lpc = "connecting" /\ lpc' = "streaming" /\ UNCHANGED <<log, run, start, breaks>>
        /\ ready' = IF ready = "unset" THEN "live" ELSE ready
    BY <1>2, ConnectFacts
  <2> QED
    BY <2>1 DEF Handshake, Own
<1>3. CASE WsFallsBack
  BY <1>3 DEF WsFallsBack, Handshake, Own, hubVars
<1>4. CASE WsForcedFails
  BY <1>4, CrashFacts DEF WsForcedFails, Handshake, Own, hubVars, ghostVars
<1>5. CASE ConnectFails
  BY <1>0, <1>5, FailureFacts, CrashFacts DEF ConnectFails, Handshake, Own, hubVars, ghostVars
<1>6. CASE ConnectionLost
  <2>1. breaks' # 0 /\ ready # "unset" /\ UNCHANGED <<log, run, start, missed>>
    BY <1>0, <1>6 DEF ConnectionLost, Handshake, hubVars
  <2>2. ready' = ready
    BY <1>6, <2>1, FailureFacts, CrashFacts DEF ConnectionLost
  <2> QED
    BY <2>1, <2>2 DEF Handshake, Own
<1>7. CASE SseRefused
  BY <1>0, <1>7 DEF SseRefused, SetReady, Handshake, Own, hubVars, ghostVars
<1>8. CASE Deliver
  <2>1. lpc' = "streaming" \/ lpc' = "done"
    BY <1>8, DeliverFacts
  <2>2. ready # "unset" /\ ready' = ready /\ UNCHANGED <<log, run, start>>
    BY <1>8, DeliverFacts DEF Handshake
  <2> QED
    BY <2>1, <2>2 DEF Handshake, Own
<1>9. CASE Lagged
  BY <1>9 DEF Lagged, Handshake, Own, hubVars
<1>10. CASE ServerClose
  BY <1>10 DEF ServerClose, Leave, SetReady, Handshake, Own, hubVars, ghostVars
<1>11. CASE Subscribed \/ PostReturns
  BY <1>11 DEF Subscribed, PostReturns, Handshake, Own, hubVars, ghostVars
<1>12. CASE PostFails \/ StartCancelled
  <2>1. /\ start' \in {"failed", "cancelled"}
        /\ UNCHANGED <<log, run, lpc, ready, breaks, missed>>
    BY <1>12 DEF PostFails, StartCancelled, StartAbandoned, hubVars, ghostVars
  <2> QED
    BY <2>1 DEF Handshake, Own
<1>13. CASE PostAccepted
  BY <1>13 DEF PostAccepted, HubAccept, Handshake, Own, ghostVars
<1>14. CASE StartTimeout
  BY <1>14 DEF StartTimeout, Leave, SetReady, Handshake, Own, hubVars, ghostVars
<1>15. CASE CancelBegins \/ CancelEnds
  BY <1>15 DEF CancelBegins, CancelEnds, Leave, SetReady, Handshake, Own, hubVars, ghostVars
<1>16. ASSUME NEW c \in Consumers, Begin(c) \/ Consume(c) \/ Stop(c) PROVE Handshake'
  BY <1>16, ConsumerFacts DEF clientVars, Handshake, Own, hubVars, ghostVars
<1>17. CASE UNCHANGED vars
  BY <1>17 DEF vars, Handshake, Own, hubVars, ghostVars
<1> QED
  BY <1>1, <1>2, <1>3, <1>4, <1>5, <1>6, <1>7, <1>8, <1>9, <1>10, <1>11, <1>12, <1>13, <1>14, <1>15, <1>16,
     <1>17
  DEF Next, Client, Listener, Starter

(***************************************************************************)
(* Whatever ends the handle has stopped the listener, or stops it in the   *)
(* same step.                                                              *)
(***************************************************************************)
LEMMA AtWorkStep ==
  ASSUME IInv, [Next]_vars
  PROVE  AtWork'
<1> USE DEF IInv, AtWork
<1>1. CASE UNCHANGED <<outcome, closing>>
  BY <1>1, QuietSteps DEF AtWorkNow, Publish, Connect, WsFallsBack, Deliver, Lagged
<1>2. CASE WsForcedFails
  BY <1>2, CrashFacts DEF WsForcedFails
<1>3. CASE ConnectFails
  BY <1>3, FailureFacts, CrashFacts DEF ConnectFails
<1>4. CASE ConnectionLost
  BY <1>4, FailureFacts, CrashFacts DEF ConnectionLost
<1>5. CASE Deliver
  BY <1>5, DeliverFacts
<1>6. CASE StartTimeout \/ CancelBegins
  BY <1>6 DEF StartTimeout, CancelBegins, Leave
<1>7. CASE CancelEnds
  BY <1>7 DEF CancelEnds
<1>8. ASSUME NEW c \in Consumers, Begin(c) \/ Consume(c) \/ Stop(c) PROVE AtWork'
  BY <1>1, <1>8, ConsumerFacts DEF clientVars
<1>9. CASE \/ (\E e \in Event : Publish(e)) \/ Connect \/ WsFallsBack \/ SseRefused \/ Lagged \/ ServerClose
           \/ Subscribed \/ PostAccepted \/ PostReturns \/ PostFails \/ StartCancelled \/ UNCHANGED vars
  BY <1>1, <1>9 DEF Publish, Connect, WsFallsBack, SseRefused, Lagged, ServerClose, Subscribed, PostAccepted,
                    PostReturns, PostFails, StartCancelled, StartAbandoned, vars, bufferVars
<1> QED
  BY <1>2, <1>3, <1>4, <1>5, <1>6, <1>7, <1>8, <1>9 DEF Next, Client, Listener, Starter

-----------------------------------------------------------------------------
(* Nothing dropped, no opening gap, no hole. *)

LEMMA BufferedMembers == Buffered = Members(events) /\ Buffered' = Members(events')
BY DEF Buffered, Members

(***************************************************************************)
(* A frame reaches the buffer unless it is skipped, and ours never is.     *)
(***************************************************************************)
LEMMA DeliverBuffered ==
  ASSUME IInv, Deliver
  PROVE  Buffered' = Buffered \cup {pos} \/ (Buffered' = Buffered /\ ~Own(pos))
<1>1. Skipped(pos) => ~Own(pos)
  BY DEF Skipped, Matches, Own
<1>2. CASE Skipped(pos) /\ UNCHANGED events
  BY <1>1, <1>2, BufferedMembers
<1>3. CASE events' = Append(events, pos)
  <2>1. events \in Seq(Nat) /\ pos \in Nat
    BY DEF IInv, TypeOK
  <2> QED
    BY <1>3, <2>1, AppendSet, BufferedMembers
<1> QED
  BY <1>2, <1>3, DeliverFacts

LEMMA NothingDroppedStep ==
  ASSUME IInv, [Next]_vars
  PROVE  NothingDropped'
<1> SUFFICES ASSUME AtWorkNow', NEW i \in 1..(pos' - 1), Own(i)'
             PROVE  i \in Buffered' \cup missed'
  BY DEF NothingDropped, AtWorkNow
<1>0. pos \in Nat /\ Len(log) \in Nat /\ pos <= Len(log) + 1
  BY DEF IInv, TypeOK, HubTypeOK, Position
<1>1. (AtWorkNow /\ i \in 1..(pos - 1) /\ Own(i)) => i \in Buffered \cup missed
  BY DEF IInv, NothingDropped, AtWorkNow
<1>2. ASSUME NEW e \in Event, Publish(e) PROVE i \in Buffered' \cup missed'
  <2>1. UNCHANGED <<pos, missed, events, lpc>>
    BY <1>2 DEF Publish, connVars, bufferVars, ghostVars
  <2>2. i \in 1..Len(log)
    BY <1>0, <2>1
  <2>3. Own(i)
    BY <1>2, <2>2, PublishAppends DEF Publish, IInv, TypeOK, Own
  <2> QED
    BY <1>1, <2>1, <2>3, BufferedMembers DEF AtWorkNow
<1>3. CASE Connect
  <2>1. AtWorkNow /\ UNCHANGED <<log, events>> /\ missed' = missed \cup {j \in pos..(pos' - 1) : Own(j)}
    BY <1>3, ConnectFacts DEF AtWorkNow
  <2>2. Own(i)
    BY <2>1 DEF Own
  <2>3. i \in 1..(pos - 1) \/ i \in pos..(pos' - 1)
    BY <1>0, <1>3, ConnectFacts
  <2> QED
    BY <1>1, <2>1, <2>2, <2>3, BufferedMembers
<1>4. CASE WsFallsBack
  <2>1. UNCHANGED <<log, pos, lpc, events, missed>>
    BY <1>4 DEF WsFallsBack, hubVars, bufferVars
  <2> QED
    BY <1>1, <2>1, BufferedMembers DEF AtWorkNow, Own
<1>5. CASE Deliver
  <2>1. AtWorkNow /\ pos' = pos + 1 /\ UNCHANGED <<log, missed>>
    BY <1>5, DeliverFacts DEF AtWorkNow
  <2>2. Own(i) /\ (i = pos \/ i \in 1..(pos - 1))
    BY <1>0, <2>1 DEF Own
  <2> QED
    BY <1>1, <1>5, <2>1, <2>2, DeliverBuffered
<1>6. CASE Lagged
  <2>1. /\ AtWorkNow /\ pos' = Len(log) + 1 /\ UNCHANGED <<log, events>>
        /\ missed' = missed \cup {j \in pos..Len(log) : Own(j)}
    BY <1>6 DEF Lagged, AtWorkNow, hubVars, bufferVars
  <2>2. Own(i) /\ (i \in 1..(pos - 1) \/ i \in pos..Len(log))
    BY <1>0, <2>1 DEF Own
  <2> QED
    BY <1>1, <2>1, <2>2, BufferedMembers
<1>7. CASE UNCHANGED <<log, pos, events, missed>> /\ (AtWorkNow' => AtWorkNow)
  BY <1>1, <1>7, BufferedMembers DEF Own
<1> QED
  BY <1>2, <1>3, <1>4, <1>5, <1>6, <1>7, QuietSteps

(***************************************************************************)
(* The first connection is made before the run is POSTed, so none of the   *)
(* events it passes over is ours; every later one follows a lost one.      *)
(***************************************************************************)
LEMMA NoOpeningGapStep ==
  ASSUME IInv, [Next]_vars
  PROVE  NoOpeningGap'
<1> USE DEF IInv
<1>0. breaks \in Nat
  BY PyAssumption DEF TypeOK
<1>1. CASE missed' = missed /\ (breaks' = 0 => breaks = 0) /\ (ready' = "live" => ready = "live")
  BY <1>1 DEF NoOpeningGap
<1>2. CASE Connect
  <2>1. SUFFICES ASSUME breaks = 0, ready' = "live" PROVE missed' = {}
    BY <1>2, ConnectFacts DEF NoOpeningGap
  <2>2. ready = "unset"
    BY <1>2, <2>1, ConnectFacts DEF Handshake
  <2>3. missed = {} /\ \A i \in 1..Len(log) : ~Own(i)
    BY <2>2 DEF Handshake
  <2>4. missed' = missed \cup {i \in pos..(pos' - 1) : Own(i)}
    BY <1>2, ConnectFacts
  <2>5. \A i \in pos..(pos' - 1) : i \in 1..Len(log)
    <3>1. /\ pos \in Nat \ {0} /\ pos' \in Nat /\ Len(log) \in Nat /\ pos' <= Len(log) + 1
      BY <1>2, ConnectFacts DEF TypeOK, HubTypeOK
    <3> QED
      BY <3>1, PassedOverInLog
  <2> QED
    BY <2>3, <2>4, <2>5
<1>3. CASE Lagged
  <2>1. breaks' # 0
    BY <1>0, <1>3 DEF Lagged
  <2> QED
    BY <2>1 DEF NoOpeningGap
<1>4. CASE Deliver
  BY <1>1, <1>4, DeliverFacts
<1>5. CASE WsForcedFails
  BY <1>1, <1>5, CrashFacts DEF WsForcedFails, ghostVars
<1>6. CASE ConnectFails
  BY <1>1, <1>6, FailureFacts, CrashFacts DEF ConnectFails, ghostVars
<1>7. CASE ConnectionLost
  <2>1. breaks' # 0
    BY <1>0, <1>7 DEF ConnectionLost
  <2> QED
    BY <2>1 DEF NoOpeningGap
<1>8. CASE SseRefused \/ ServerClose \/ StartTimeout \/ CancelBegins
  BY <1>1, <1>8 DEF SseRefused, ServerClose, StartTimeout, CancelBegins, Leave, SetReady, ghostVars
<1>9. CASE UNCHANGED <<missed, breaks, ready>>
  BY <1>1, <1>9
<1>10. CASE \/ (\E e \in Event : Publish(e)) \/ WsFallsBack \/ Subscribed \/ PostAccepted \/ PostReturns
            \/ PostFails \/ StartCancelled \/ CancelEnds \/ UNCHANGED vars
  BY <1>9, <1>10 DEF Publish, WsFallsBack, Subscribed, PostAccepted, PostReturns, PostFails, StartCancelled,
                     StartAbandoned, CancelEnds, vars, ghostVars
<1>11. ASSUME NEW c \in Consumers, Begin(c) \/ Consume(c) \/ Stop(c) PROVE NoOpeningGap'
  BY <1>9, <1>11, ConsumerFacts DEF clientVars, ghostVars
<1> QED
  BY <1>2, <1>3, <1>4, <1>5, <1>6, <1>7, <1>8, <1>10, <1>11 DEF Next, Client, Listener, Starter

LEMMA NoHoleStep ==
  ASSUME IInv, [Next]_vars
  PROVE  NoHoleOnOneTransport'
<1> SUFFICES ASSUME Replay, WsSeq, ~holed', NEW i \in missed', NEW b \in Buffered' PROVE i < b
  BY DEF NoHoleOnOneTransport
<1>0. pos \in Nat /\ cursor \in Nat
  BY DEF IInv, TypeOK
<1>1. (~holed /\ i \in missed /\ b \in Buffered) => i < b
  BY DEF IInv, NoHoleOnOneTransport
<1>2. CASE UNCHANGED <<missed, holed, events>>
  BY <1>1, <1>2, BufferedMembers
<1>3. ASSUME NEW e \in Event, Publish(e) PROVE i < b
  BY <1>2, <1>3 DEF Publish, bufferVars, ghostVars
<1>4. CASE Connect
  <2>1. ~holed /\ UNCHANGED events
    BY <1>4, ConnectFacts
  <2>2. b \in Buffered
    BY <2>1, BufferedMembers
  <2>3. cursor # 0
    <3>1. PICK k \in DOMAIN events : b = events[k]
      BY <2>2 DEF Buffered
    <3>2. k \in 1..Len(events) /\ events \in Seq(Nat)
      BY DEF IInv, TypeOK
    <3>3. events[k] \in 1..(pos - 1) /\ events[k] <= cursor
      BY <2>1, <3>2 DEF IInv, Position, Intact
    <3> QED
      BY <1>0, <3>3
  <2>4. pos' = cursor + 1
    BY <1>4, <2>3, ConnectFacts
  <2>5. pos = cursor + 1
    BY <2>1, <2>3 DEF IInv, Intact
  <2>6. pos' = pos
    BY <2>4, <2>5
  <2>7. pos..(pos - 1) = {}
    BY <1>0
  <2>8. missed' = missed
    BY <1>4, <2>6, <2>7, ConnectFacts
  <2> QED
    BY <1>1, <2>1, <2>2, <2>8
<1>5. CASE WsFallsBack
  <2>1. UNCHANGED <<missed, events>> /\ ~holed
    BY <1>5 DEF WsFallsBack, bufferVars
  <2> QED
    BY <1>1, <2>1, BufferedMembers
<1>6. CASE Deliver
  <2>1. UNCHANGED <<missed, holed>>
    BY <1>6 DEF Deliver, ghostVars
  <2>2. i < pos
    BY <1>0, <2>1 DEF IInv, Intact
  <2>3. b \in Buffered \/ b = pos
    BY <1>6, DeliverBuffered
  <2> QED
    BY <1>1, <2>1, <2>2, <2>3
<1>7. CASE Lagged
  BY <1>7 DEF Lagged
<1> QED
  BY <1>2, <1>3, <1>4, <1>5, <1>6, <1>7, QuietSteps

-----------------------------------------------------------------------------
(* The consumers. *)

(***************************************************************************)
(* Every step that appends to the buffer or settles the handle sets the    *)
(* signal; a consumer waits only after it has found nothing to do.         *)
(***************************************************************************)
LEMMA NoLostWakeupStep ==
  ASSUME IInv, [Next]_vars
  PROVE  NoLostWakeup'
<1> SUFFICES ASSUME NEW d \in Consumers, consumer'[d].doing = "waiting"
             PROVE  consumer'[d].got = Len(events') /\ outcome' = "pending"
  BY DEF NoLostWakeup
<1> DEFINE Goal == consumer'[d].got = Len(events') /\ outcome' = "pending"
<1>1. consumer[d].doing = "waiting" => consumer[d].got = Len(events) /\ outcome = "pending"
  BY DEF IInv, NoLostWakeup
<1>2. consumer' # Woken
  BY WokenFacts
<1>3. CASE UNCHANGED <<consumer, events, outcome>>
  BY <1>1, <1>3
<1>4. CASE Crash
  BY <1>2, <1>4, CrashFacts
<1>5. CASE WsForcedFails
  BY <1>4, <1>5 DEF WsForcedFails
<1>6. CASE ConnectFails
  BY <1>3, <1>4, <1>6, FailureFacts DEF ConnectFails
<1>7. CASE ConnectionLost
  BY <1>3, <1>4, <1>7, FailureFacts DEF ConnectionLost
<1>8. CASE Deliver
  BY <1>2, <1>3, <1>8, DeliverFacts
<1>9. CASE ServerClose \/ StartTimeout \/ CancelEnds
  BY <1>2, <1>9 DEF ServerClose, StartTimeout, CancelEnds, Leave
<1>10. CASE CancelBegins
  BY <1>2, <1>3, <1>10 DEF CancelBegins, Leave
<1>11. ASSUME NEW c \in Consumers, Begin(c) \/ Consume(c) \/ Stop(c) PROVE Goal
  <2>1. UNCHANGED <<events, outcome>>
    BY <1>11, ConsumerFacts DEF clientVars
  <2>2. CASE d = c
    BY <1>11, <2>1, <2>2, ConsumerFacts
  <2>3. CASE d # c
    BY <1>1, <1>11, <2>1, <2>3, ConsumerFacts
  <2> QED
    BY <2>2, <2>3
<1>12. CASE \/ (\E e \in Event : Publish(e)) \/ Connect \/ WsFallsBack \/ SseRefused \/ Lagged
            \/ Subscribed \/ PostAccepted \/ PostReturns \/ PostFails \/ StartCancelled \/ UNCHANGED vars
  BY <1>3, <1>12 DEF Publish, Connect, WsFallsBack, SseRefused, Lagged, Subscribed, PostAccepted,
                     PostReturns, PostFails, StartCancelled, StartAbandoned, vars, bufferVars
<1> QED
  BY <1>5, <1>6, <1>7, <1>8, <1>9, <1>10, <1>11, <1>12 DEF Next, Client, Listener, Starter

-----------------------------------------------------------------------------
(* The theorems. *)

(***************************************************************************)
(* Every step of listener, caller and consumers preserves IInv.            *)
(***************************************************************************)
LEMMA InvStep ==
  ASSUME IInv, [Next]_vars
  PROVE  IInv'
BY TypeStep, PositionStep, IntactStep, UncommittedStep, HandshakeStep, AtWorkStep, NothingDroppedStep,
   NoOpeningGapStep, NoHoleStep, NoLostWakeupStep DEF IInv

(***************************************************************************)
(* IInv is an invariant: through retries, lags, the fallback to SSE and    *)
(* both ways of cancelling.                                                *)
(***************************************************************************)
THEOREM Inductive == Spec => []IInv
  BY InitInv, InvStep, PTL DEF Spec

(***************************************************************************)
(* Type correctness; in particular the retry counter never exceeds its     *)
(* limit, across fallbacks, refusals and resets.                           *)
(***************************************************************************)
THEOREM TypeCorrect == Spec => []TypeOK
  BY Inductive, PTL DEF IInv

(***************************************************************************)
(* While the listener is at work nothing of our run is lost between the    *)
(* transport and the buffer, whenever the execution id becomes known.      *)
(***************************************************************************)
THEOREM NothingIsDropped == Spec => []NothingDropped
  BY Inductive, PTL DEF IInv

(***************************************************************************)
(* Waiting for a live connection before the POST keeps every opening event *)
(* of the run while no connection has been lost, on either transport and   *)
(* through the fallback between them.                                      *)
(***************************************************************************)
THEOREM OpeningEventsKept == Spec => []NoOpeningGap
  BY Inductive, PTL DEF IInv

(***************************************************************************)
(* On one transport with cursors and replay, reconnects leave no hole in   *)
(* the middle of the buffer.                                               *)
(***************************************************************************)
THEOREM NoHole == Spec => []NoHoleOnOneTransport
  BY Inductive, PTL DEF IInv

(***************************************************************************)
(* No consumer is left waiting next to an unread event or on a handle that *)
(* has settled, for any number of consumers on the one shared signal.      *)
(***************************************************************************)
THEOREM ConsumersAreWoken == Spec => []NoLostWakeup
  BY Inductive, PTL DEF IInv

(***************************************************************************)
(* Under SoloSpec, no event of another run is in the log before the        *)
(* execution id is known.                                                  *)
(***************************************************************************)
LEMMA SoloStep ==
  ASSUME IInv, Solo, [SoloNext]_vars
  PROVE  Solo'
<1>1. ASSUME NEW e \in Event, e.src = "other" => Known, Publish(e) PROVE Solo'
  <2>1. /\ Len(log') = Len(log) + 1 /\ Len(log) \in Nat
        /\ \A j \in 1..Len(log) : log'[j] = log[j]
        /\ log'[Len(log) + 1] = e
    BY <1>1, PublishAppends DEF Publish, IInv, TypeOK, HubTypeOK
  <2>2. start' = start
    BY <1>1 DEF Publish
  <2>3. ASSUME ~Known, NEW i \in 1..Len(log') PROVE log'[i].src # "other"
    <3>1. CASE i \in 1..Len(log)
      BY <2>1, <2>3, <3>1 DEF Solo
    <3>2. CASE i = Len(log) + 1
      BY <1>1, <2>1, <2>3, <3>2
    <3> QED
      BY <2>1, <3>1, <3>2
  <2> QED
    BY <2>2, <2>3 DEF Solo, Known
<1>2. CASE log' = log /\ (Known => Known')
  BY <1>2 DEF Solo
<1>3. CASE Listener
  BY <1>2, <1>3 DEF Listener, Connect, WsFallsBack, WsForcedFails, ConnectFails, SseRefused, Deliver, Lagged,
                    ConnectionLost, ServerClose, Known, hubVars
<1>4. CASE Starter
  BY <1>2, <1>4 DEF Starter, Subscribed, StartTimeout, PostAccepted, HubAccept, PostReturns, PostFails,
                    StartCancelled, StartAbandoned, Known, hubVars
<1>5. CASE CancelBegins \/ CancelEnds \/ UNCHANGED vars
  BY <1>2, <1>5 DEF CancelBegins, CancelEnds, vars, Known, hubVars
<1>6. ASSUME NEW c \in Consumers, Begin(c) \/ Consume(c) \/ Stop(c) PROVE Solo'
  BY <1>2, <1>6, ConsumerFacts DEF clientVars, Known, hubVars
<1> QED
  BY <1>1, <1>3, <1>4, <1>5, <1>6 DEF SoloNext, Client

(***************************************************************************)
(* The Python run stream implements RunHandle when no other run of the     *)
(* script publishes before the execution id is known: what it yields is    *)
(* its own run's, in order and once, and it settles once.                  *)
(***************************************************************************)
THEOREM RefinesRunHandle == SoloSpec => ImplementsRunHandle
<1>1. Init => RH!HandleInit /\ IInv /\ Solo
  BY InitInv DEF Init, HubInit, RH!HandleInit, RH!HubInit, Solo
<1>2. ASSUME [SoloNext]_vars PROVE [Next]_vars
  BY <1>2 DEF SoloNext, Next
<1>3. ASSUME IInv, Solo, [SoloNext]_vars
      PROVE  IInv' /\ Solo'
  BY <1>2, <1>3, InvStep, SoloStep
<1>4. ASSUME IInv, Solo, [SoloNext]_vars
      PROVE  [RH!HandleNext]_(RH!handleVars)
  <2> DEFINE Stutter == UNCHANGED <<log, run, events, outcome>>
             Closed == outcome = "pending" /\ outcome' = "closed" /\ UNCHANGED <<log, run, events>>
  <2>1. Stutter => UNCHANGED RH!handleVars
    BY DEF RH!handleVars
  <2>2. Closed => RH!HandleNext
    BY DEF RH!HandleNext, RH!Close, RH!hubVars
  <2>3. ASSUME NEW e \in Event, Publish(e) PROVE RH!HandleNext
    BY <2>3
    DEF Publish, bufferVars, RH!HandleNext, RH!HandleHub, HubPublish, RH!HubPublish, Terminal, RH!Terminal,
        Event, RH!Event, Source, RH!Source, Kind, RH!Kind
  <2>4. CASE PostAccepted
    BY <2>4 DEF PostAccepted, bufferVars, RH!HandleNext, RH!HandleHub, HubAccept, RH!HubAccept
  <2>5. lpc \in {"connecting", "streaming"} => outcome = "pending"
    BY <1>4 DEF IInv, AtWork
  <2>6. CASE Deliver
    <3>1. /\ lpc = "streaming" /\ pos \in 1..Len(log) /\ UNCHANGED <<log, run>>
          /\ \/ UNCHANGED <<events, outcome>>
             \/ /\ ~Skipped(pos) /\ events' = Append(events, pos)
                /\ outcome' = IF IsTerminal(pos) THEN log[pos].kind ELSE outcome
      BY <1>4, <2>6, DeliverFacts
    <3>2. ~Skipped(pos) => Matches(pos)
      <4>1. CASE Known
        BY <4>1 DEF Skipped
      <4>2. CASE ~Known
        <5>1. log[pos] \in Event /\ log[pos].src # "other"
          BY <1>4, <3>1, <4>2 DEF Solo, IInv, TypeOK, HubTypeOK
        <5> QED
          BY <4>2, <5>1 DEF Skipped, Matches, Own, Event, Source
      <4> QED
        BY <4>1, <4>2
    <3>3. RH!Newest(events) < pos
      <4>1. CASE events = <<>>
        BY <3>1, <4>1 DEF RH!Newest
      <4>2. CASE events # <<>>
        <5>1. Len(events) \in 1..Len(events) /\ pos \in Nat
          BY <1>4, <4>2 DEF IInv, TypeOK
        <5> QED
          BY <1>4, <4>2, <5>1 DEF RH!Newest, IInv, Position
      <4> QED
        BY <4>1, <4>2
    <3>4. CASE ~Skipped(pos) /\ events' = Append(events, pos)
               /\ outcome' = IF IsTerminal(pos) THEN log[pos].kind ELSE outcome
      <4>1. RH!Yield(pos)
        BY <2>5, <3>1, <3>2, <3>3, <3>4
        DEF RH!Yield, RH!Matches, RH!Own, Matches, Own, RH!IsTerminal, IsTerminal, Terminal, RH!Terminal,
            RH!hubVars
      <4> QED
        BY <3>1, <4>1 DEF RH!HandleNext
    <3> QED
      BY <2>1, <3>1, <3>4
  <2>7. ASSUME Crash, lpc \in {"connecting", "streaming"}, UNCHANGED <<log, run, events>> PROVE Closed
    BY <2>5, <2>7 DEF Crash
  <2>8. CASE WsForcedFails
    BY <2>2, <2>7, <2>8 DEF WsForcedFails, hubVars
  <2>9. CASE ConnectFails \/ ConnectionLost
    <3>1. lpc \in {"connecting", "streaming"} /\ RetryOrCrash /\ UNCHANGED <<log, run, events>>
      BY <2>9 DEF ConnectFails, ConnectionLost, hubVars
    <3> QED
      BY <1>4, <2>1, <2>2, <2>7, <3>1, FailureFacts
  <2>10. CASE StartTimeout
    <3>1. lpc = "connecting"
      BY <1>4, <2>10 DEF StartTimeout, IInv, Handshake
    <3> QED
      BY <2>2, <2>5, <2>10, <3>1 DEF StartTimeout, hubVars
  <2>11. CASE CancelEnds
    BY <2>1, <2>2, <2>11 DEF CancelEnds, hubVars
  <2>12. CASE CancelBegins \/ ServerClose
    BY <2>1, <2>12 DEF CancelBegins, ServerClose, hubVars
  <2>13. CASE Connect \/ WsFallsBack \/ SseRefused \/ Lagged \/ UNCHANGED vars
    BY <2>1, <2>13 DEF Connect, WsFallsBack, SseRefused, Lagged, vars, hubVars, bufferVars
  <2>14. CASE Subscribed \/ PostReturns \/ PostFails \/ StartCancelled
    BY <2>1, <2>14 DEF Subscribed, PostReturns, PostFails, StartCancelled, StartAbandoned, hubVars, bufferVars
  <2>15. ASSUME NEW c \in Consumers, Begin(c) \/ Consume(c) \/ Stop(c) PROVE UNCHANGED RH!handleVars
    BY <1>4, <2>1, <2>15, ConsumerFacts DEF clientVars, hubVars
  <2> QED
    BY <1>4, <2>3, <2>4, <2>6, <2>8, <2>9, <2>10, <2>11, <2>12, <2>13, <2>14, <2>15
    DEF SoloNext, Client, Listener, Starter
<1> QED
  BY <1>1, <1>3, <1>4, PTL DEF SoloSpec, ImplementsRunHandle, RH!HandleSpec
=============================================================================
