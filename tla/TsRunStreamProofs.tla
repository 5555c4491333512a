------------------------- MODULE TsRunStreamProofs --------------------------
(***************************************************************************)
(* Proofs about TsRunStream, for every log bound, any number of readers    *)
(* and lost connections, and servers with or without replay and            *)
(* execution-id stamps.                                                    *)
(*                                                                         *)
(* The inductive invariant is IInv of TsRunStream: the position of the     *)
(* connection, the start of the run, what anchors the handle, the life of  *)
(* the buffer, and the order of what the handle holds, next to the         *)
(* properties.  Each conjunct is preserved by a    *)
(* lemma of its own; all of them assume the whole of IInv before the step. *)
(***************************************************************************)
EXTENDS TsRunStream, HubLemmas

ReaderState == [got : Nat, doing : {"ready", "waiting", "done", "left"}]

-----------------------------------------------------------------------------
(* What the handlers do, under the invariant. *)

(***************************************************************************)
(* handleRaw wakes every parked iterator with the new event, so finish     *)
(* finds none to release; it closes the connection only when nobody else   *)
(* uses it.                                                                *)
(***************************************************************************)
LEMMA HandleFacts ==
  ASSUME IInv, NEW i \in 1..Len(log), Handle(i)
  PROVE  /\ ~finished
         /\ delivered' = Append(delivered, i)
         /\ finished' \in BOOLEAN /\ (finished' <=> IsTerminal(i))
         /\ output' = IF IsTerminal(i) THEN log[i].kind ELSE "pending"
         /\ output' \in {"pending", "end", "error"}
         /\ output' # "pending" <=> IsTerminal(i)
         /\ conn' = IF finished' /\ ~shared THEN "closed" ELSE conn
         /\ reader' \in [Readers -> ReaderState]
         /\ \A r \in Readers : reader'[r].doing \in {"ready", "left"}
<1> DEFINE n == Len(delivered) + 1
           w == Woken(n)
<1>1. /\ ~finished /\ finished = FALSE /\ output = "pending" /\ delivered' = Append(delivered, i)
      /\ reader \in [Readers -> ReaderState] /\ Len(delivered) \in Nat
  BY DEF Handle, IInv, TypeOK, Buffering, ReaderState
<1>2. ASSUME NEW r \in Readers
      PROVE  /\ w[r] \in ReaderState
             /\ w[r].doing \in {"ready", "left"}
  <2>1. /\ reader[r] \in ReaderState
        /\ reader[r].doing # "done"
        /\ reader[r].doing = "waiting" => reader[r].got = Len(delivered)
    BY <1>1 DEF IInv, NoLostWakeup
  <2>2. CASE reader[r].doing = "waiting"
    <3>1. w[r] = [got |-> reader[r].got + 1, doing |-> "ready"]
      BY <1>1, <2>1, <2>2 DEF Woken
    <3> QED
      BY <2>1, <3>1 DEF ReaderState
  <2>3. CASE reader[r].doing # "waiting"
    <3>1. w[r] = reader[r]
      BY <2>3 DEF Woken
    <3> QED
      BY <2>1, <2>3, <3>1 DEF ReaderState
  <2> QED
    BY <2>2, <2>3
<1>3. w \in [Readers -> ReaderState]
  BY <1>2 DEF Woken
<1>4. reader' = w
  <2>1. CASE IsTerminal(i)
    <3>1. reader' = [r \in Readers |->
                      IF w[r].doing = "waiting" THEN [w[r] EXCEPT !.doing = "done"] ELSE w[r]]
      BY <2>1 DEF Handle, Finish
    <3>2. reader' = [r \in Readers |-> w[r]]
      BY <1>2, <3>1
    <3> QED
      BY <1>3, <3>2
  <2>2. CASE ~IsTerminal(i)
    BY <2>2 DEF Handle
  <2> QED
    BY <2>1, <2>2
<1>5. /\ finished' \in BOOLEAN /\ (finished' <=> IsTerminal(i))
      /\ output' = IF IsTerminal(i) THEN log[i].kind ELSE "pending"
      /\ conn' = IF finished' /\ ~shared THEN "closed" ELSE conn
  <2>1. CASE IsTerminal(i)
    BY <2>1 DEF Handle, Finish
  <2>2. CASE ~IsTerminal(i)
    BY <1>1, <2>2 DEF Handle
  <2> QED
    BY <2>1, <2>2
<1>6. output' \in {"pending", "end", "error"} /\ (output' # "pending" <=> IsTerminal(i))
  BY <1>5 DEF IsTerminal, Terminal
<1> QED
  BY <1>1, <1>2, <1>3, <1>4, <1>5, <1>6

(***************************************************************************)
(* finish, from cancel() or a failed POST: the parked iterators end.       *)
(***************************************************************************)
LEMMA FinishFacts ==
  ASSUME IInv, Finish(reader)
  PROVE  /\ finished'
         /\ conn' = IF shared THEN conn ELSE "closed"
         /\ reader' \in [Readers -> ReaderState]
         /\ \A r \in Readers :
              /\ reader'[r].got = reader[r].got
              /\ reader'[r].doing = IF reader[r].doing = "waiting" THEN "done" ELSE reader[r].doing
<1>1. reader \in [Readers -> ReaderState]
  BY DEF IInv, TypeOK, ReaderState
<1>2. reader' = [r \in Readers |->
                  IF reader[r].doing = "waiting" THEN [reader[r] EXCEPT !.doing = "done"] ELSE reader[r]]
  BY DEF Finish
<1>3. ASSUME NEW r \in Readers
      PROVE  /\ reader'[r] \in ReaderState
             /\ reader'[r].got = reader[r].got
             /\ reader'[r].doing = IF reader[r].doing = "waiting" THEN "done" ELSE reader[r].doing
  <2>1. reader[r] \in ReaderState
    BY <1>1
  <2> QED
    BY <1>2, <2>1 DEF ReaderState
<1>4. reader' \in [Readers -> ReaderState]
  BY <1>2, <1>3
<1> QED
  BY <1>3, <1>4 DEF Finish

(***************************************************************************)
(* The three things a frame may do: it is buffered, handled, or nobody's   *)
(* business; in the last case the stream is over or it is not ours.        *)
(***************************************************************************)
LEMMA RouteFacts ==
  ASSUME IInv, ReadFrame
  PROVE  /\ pos \in 1..Len(log) /\ pos' = pos + 1 /\ cursor' = pos
         /\ UNCHANGED <<log, run, shared, post, breaks, missed, anchored>>
         /\ \/ /\ post \in {"sent", "accepted"} /\ ~finished
               /\ pending' = Append(pending, pos)
               /\ UNCHANGED <<delivered, output, finished, conn, reader>>
            \/ /\ post = "done" /\ Matches(pos) /\ Handle(pos)
               /\ UNCHANGED pending
            \/ /\ finished \/ ~Own(pos)
               /\ UNCHANGED <<pending, delivered, output, finished, conn, reader>>
<1>1. pos \in 1..Len(log)
  BY DEF ReadFrame, IInv, TypeOK, HubTypeOK
<1>2. pos' = pos + 1 /\ cursor' = pos /\ UNCHANGED <<log, run, shared, post, breaks, missed, anchored>>
  BY DEF ReadFrame, hubVars, ghostVars
<1>3. log[pos].src = "hub" => ~Own(pos)
  BY DEF Own
<1>4. ~Matches(pos) => ~Own(pos)
  BY DEF Matches
<1>5. post = "absent" => ~Own(pos)
  BY <1>1 DEF IInv, NoRunYet
<1> QED
  BY <1>1, <1>2, <1>3, <1>4, <1>5 DEF ReadFrame, Route, Ignore, Unheard, Subscribed

(***************************************************************************)
(* One step of the drain: the head of the buffer is handled or skipped; a  *)
(* skipped one is not ours, or the stream is over.                         *)
(***************************************************************************)
LEMMA DrainFacts ==
  ASSUME IInv, DrainStep
  PROVE  /\ post = "draining" /\ pending # <<>> /\ pending' = Tail(pending)
         /\ pending' \in Seq(Nat)
         /\ Head(pending) \in 1..(pos - 1) /\ Head(pending) \in 1..Len(log)
         /\ UNCHANGED <<log, run, cursor, pos, shared, post, breaks, missed, anchored>>
         /\ \/ Matches(Head(pending)) /\ Handle(Head(pending))
            \/ /\ finished \/ ~Own(Head(pending))
               /\ UNCHANGED <<delivered, output, finished, conn, reader>>
<1>1. post = "draining" /\ pending # <<>> /\ pending' = Tail(pending)
  BY DEF DrainStep
<1>2. UNCHANGED <<log, run, cursor, pos, shared, post, breaks, missed, anchored>>
  BY DEF DrainStep, hubVars, ghostVars
<1>3. /\ pending \in Seq(Nat) /\ Tail(pending) \in Seq(Nat)
      /\ Head(pending) = pending[1] /\ 1 \in 1..Len(pending)
  BY <1>1, HeadTailProperties DEF IInv, TypeOK
<1>4. Head(pending) \in 1..(pos - 1)
  BY <1>3 DEF IInv, Order, Read
<1>5. Head(pending) \in 1..Len(log)
  BY <1>4 DEF IInv, Position, TypeOK, HubTypeOK
<1>6. ~Matches(Head(pending)) => ~Own(Head(pending))
  BY DEF Matches
<1> QED
  BY <1>1, <1>2, <1>3, <1>4, <1>5, <1>6 DEF DrainStep, Ignore

(***************************************************************************)
(* next() and return() move one iterator: it takes an event, parks at the  *)
(* end of an open log, is told that a finished one is over, or leaves.     *)
(***************************************************************************)
LEMMA ReaderFacts ==
  ASSUME IInv, NEW r \in Readers, ReaderNext(r) \/ Return(r)
  PROVE  /\ reader' \in [Readers -> ReaderState]
         /\ \A q \in Readers \ {r} : reader'[q] = reader[q]
         /\ reader'[r].doing = "waiting" => reader'[r].got = Len(delivered) /\ ~finished
         /\ reader'[r].doing = "done" => reader'[r].got = Len(delivered) /\ finished
<1>1. reader \in [Readers -> ReaderState] /\ reader[r] \in ReaderState
  BY DEF IInv, TypeOK, ReaderState
<1>2. CASE NextBuffered(r)
  <2>1. reader' = [reader EXCEPT ![r] = [reader[r] EXCEPT !.got = reader[r].got + 1]]
    BY <1>2 DEF NextBuffered
  <2>2. /\ [reader[r] EXCEPT !.got = reader[r].got + 1] \in ReaderState
        /\ [reader[r] EXCEPT !.got = reader[r].got + 1].doing = "ready"
    BY <1>1, <1>2 DEF NextBuffered, CanCall, ReaderState
  <2> QED
    BY <1>1, <2>1, <2>2
<1>3. ASSUME NEW d \in {"waiting", "done", "left"}, reader' = [reader EXCEPT ![r].doing = d]
      PROVE  /\ reader' \in [Readers -> ReaderState]
             /\ \A q \in Readers \ {r} : reader'[q] = reader[q]
             /\ reader'[r].doing = d /\ reader'[r].got = reader[r].got
  <2>1. reader' = [reader EXCEPT ![r] = [reader[r] EXCEPT !.doing = d]]
    BY <1>3
  <2>2. /\ [reader[r] EXCEPT !.doing = d] \in ReaderState
        /\ [reader[r] EXCEPT !.doing = d].doing = d
        /\ [reader[r] EXCEPT !.doing = d].got = reader[r].got
    BY <1>1 DEF ReaderState
  <2> QED
    BY <1>1, <2>1, <2>2
<1>4. CASE NextDone(r)
  BY <1>3, <1>4 DEF NextDone
<1>5. CASE NextParks(r)
  BY <1>3, <1>5 DEF NextParks
<1>6. CASE Return(r)
  BY <1>3, <1>6 DEF Return
<1> QED
  BY <1>2, <1>4, <1>5, <1>6 DEF ReaderNext

-----------------------------------------------------------------------------
(* Type correctness. *)

LEMMA InitInv == Init => IInv
<1> SUFFICES ASSUME Init PROVE IInv
  OBVIOUS
<1> USE DEF Init, HubInit
<1>1. <<>> \in Seq(Event) /\ <<>> \in Seq(Nat) /\ Len(<<>>) = 0
  BY EmptySeq
<1>2. reader \in [Readers -> ReaderState]
  BY DEF ReaderState
<1>3. TypeOK
  <2>1. HubTypeOK
    BY <1>1 DEF HubTypeOK
  <2>2. /\ pos \in Nat \ {0} /\ cursor \in Nat /\ breaks \in 0..MaxBreaks /\ missed \subseteq Nat
        /\ conn \in {"connecting", "streaming", "closed"}
    BY TsAssumption
  <2> QED
    BY <1>1, <1>2, <2>1, <2>2 DEF TypeOK, ReaderState
<1>4. Position /\ NoRunYet /\ Anchor /\ Buffering
  BY <1>1 DEF Position, NoRunYet, Anchor, Buffering
<1>5. Order
  BY <1>1 DEF Order, Read, Increasing, Below
<1>6. NothingDropped /\ NoGapWhileAnchored /\ NoHoleAfterFirstFrame /\ ConnectionWhileSubscribed
  BY DEF NothingDropped, NoGapWhileAnchored, NoHoleAfterFirstFrame, ConnectionWhileSubscribed, Subscribed
<1>7. NoLostWakeup
  BY DEF NoLostWakeup
<1> QED
  BY <1>3, <1>4, <1>5, <1>6, <1>7 DEF IInv

LEMMA TypeStep ==
  ASSUME IInv, [Next]_vars
  PROVE  TypeOK'
<1> USE DEF IInv
<1>1. ASSUME NEW e \in Event, Publish(e) PROVE TypeOK'
  <2>1. HubTypeOK'
    BY <1>1, PublishAppends DEF Publish, TypeOK
  <2> QED
    BY <1>1, <2>1 DEF Publish, TypeOK, connVars, handleVars, ghostVars
<1>2. CASE PostAccepted
  BY <1>2 DEF PostAccepted, HubAccept, TypeOK, HubTypeOK, connVars, ghostVars
<1>3. CASE Connect
  <2>1. pos' \in Nat \ {0}
    BY <1>3 DEF Connect, ResumeAt, TypeOK, HubTypeOK
  <2>2. missed' \subseteq Nat
    <3>1. \A i \in pos..(pos' - 1) : i \in Nat
      BY <2>1 DEF TypeOK
    <3>2. missed' = missed \/ missed' = missed \cup {i \in pos..(pos' - 1) : Own(i)}
      BY <1>3 DEF Connect
    <3>3. \A i \in missed' : i \in missed \/ i \in pos..(pos' - 1)
      BY <3>2
    <3> QED
      BY <3>1, <3>3 DEF TypeOK
  <2> QED
    BY <1>3, <2>1, <2>2 DEF Connect, TypeOK, HubTypeOK, hubVars, handleVars
<1>4. CASE ReadFrame
  <2>1. HubTypeOK' /\ cursor' \in Nat /\ pos' \in Nat \ {0} /\ shared' \in BOOLEAN
        /\ post' \in {"absent", "sent", "accepted", "draining", "done", "failed"}
        /\ breaks' \in 0..MaxBreaks /\ missed' \subseteq Nat /\ anchored' \in BOOLEAN
    BY <1>4 DEF ReadFrame, TypeOK, HubTypeOK, hubVars, ghostVars
  <2>2. CASE UNCHANGED <<delivered, output, finished, conn, reader>> /\ pending' = Append(pending, pos)
    BY <2>1, <2>2 DEF TypeOK
  <2>3. CASE pos \in 1..Len(log) /\ Handle(pos) /\ UNCHANGED pending
    <3>1. /\ delivered' = Append(delivered, pos) /\ pos \in Nat
          /\ finished' \in BOOLEAN /\ output' \in {"pending", "end", "error"}
          /\ (conn' = conn \/ conn' = "closed") /\ reader' \in [Readers -> ReaderState]
      BY <2>3, HandleFacts
    <3>2. delivered' \in Seq(Nat) /\ conn' \in {"connecting", "streaming", "closed"}
      BY <3>1 DEF TypeOK
    <3> QED
      BY <2>1, <2>3, <3>1, <3>2 DEF TypeOK, ReaderState
  <2>4. CASE UNCHANGED <<pending, delivered, output, finished, conn, reader>>
    BY <2>1, <2>4 DEF TypeOK
  <2> QED
    BY <1>4, <2>2, <2>3, <2>4, RouteFacts
<1>5. CASE DrainStep
  <2> DEFINE h == Head(pending)
  <2>1. HubTypeOK' /\ cursor' \in Nat /\ pos' \in Nat \ {0} /\ shared' \in BOOLEAN
        /\ post' \in {"absent", "sent", "accepted", "draining", "done", "failed"}
        /\ breaks' \in 0..MaxBreaks /\ missed' \subseteq Nat /\ anchored' \in BOOLEAN /\ pending' \in Seq(Nat)
    BY <1>5, DrainFacts DEF TypeOK, HubTypeOK
  <2>2. h \in 1..Len(log) /\ h \in Nat
    BY <1>5, DrainFacts
  <2> HIDE DEF h
  <2>3. CASE Handle(h)
    <3>1. /\ delivered' = Append(delivered, h) /\ h \in Nat
          /\ finished' \in BOOLEAN /\ output' \in {"pending", "end", "error"}
          /\ (conn' = conn \/ conn' = "closed") /\ reader' \in [Readers -> ReaderState]
      BY <2>3, <2>2, HandleFacts
    <3>2. delivered' \in Seq(Nat) /\ conn' \in {"connecting", "streaming", "closed"}
      BY <3>1 DEF TypeOK
    <3> QED
      BY <2>1, <2>3, <3>1, <3>2 DEF TypeOK, ReaderState
  <2>4. CASE UNCHANGED <<delivered, output, finished, conn, reader>>
    BY <2>1, <2>4 DEF TypeOK
  <2> QED
    BY <1>5, <2>3, <2>4, DrainFacts DEF h
<1>6. CASE DrainEnds \/ PostResolves
  BY <1>6 DEF DrainEnds, PostResolves, TypeOK, HubTypeOK, hubVars, connVars, ghostVars
<1>7. CASE ConnectionLost
  BY <1>7, TsAssumption DEF ConnectionLost, Resumes, TypeOK, HubTypeOK, hubVars, handleVars
<1>8. CASE PostFails
  <2>1. <<>> \in Seq(Nat)
    BY EmptySeq
  <2>2. CASE finished
    BY <1>8, <2>1, <2>2 DEF PostFails, TypeOK, HubTypeOK, hubVars, ghostVars
  <2>3. CASE ~finished
    BY <1>8, <2>1, <2>3, FinishFacts DEF PostFails, TypeOK, HubTypeOK, hubVars, ghostVars, ReaderState
  <2> QED
    BY <2>2, <2>3
<1>9. CASE Cancel
  BY <1>9, FinishFacts DEF Cancel, TypeOK, HubTypeOK, hubVars, ghostVars, ReaderState
<1>10. ASSUME NEW r \in Readers, ReaderNext(r) \/ Return(r) PROVE TypeOK'
  <2>1. reader' \in [Readers -> ReaderState]
    BY <1>10, ReaderFacts
  <2> QED
    BY <1>10, <2>1 DEF ReaderNext, NextBuffered, NextDone, NextParks, Return, TypeOK, HubTypeOK, hubVars,
                       connVars, handleVars, ghostVars, ReaderState
<1>11. CASE UNCHANGED vars
  BY <1>11 DEF TypeOK, HubTypeOK, vars, hubVars, connVars, handleVars, ghostVars
<1>12. CASE Construct
  <2>1. anchored' \in BOOLEAN
    BY <1>12, Zenon DEF Construct
  <2> QED
    BY <1>12, <2>1 DEF Construct, EnsureConnection, TypeOK, HubTypeOK, hubVars
<1>13. CASE OtherSubscribes \/ OtherLeaves
  <2>1. /\ shared' \in BOOLEAN /\ (conn' = conn \/ conn' \in {"connecting", "closed"})
        /\ (cursor' = cursor \/ cursor' = 0)
    BY <1>13 DEF OtherSubscribes, OtherLeaves, EnsureConnection
  <2>2. UNCHANGED <<hubVars, pos, handleVars, reader, ghostVars>>
    BY <1>13 DEF OtherSubscribes, OtherLeaves
  <2> QED
    BY <2>1, <2>2 DEF TypeOK, HubTypeOK, hubVars, handleVars, ghostVars
<1> QED
  BY <1>1, <1>2, <1>3, <1>4, <1>5, <1>6, <1>7, <1>8, <1>9, <1>10, <1>11, <1>12, <1>13 DEF Next, Drain

-----------------------------------------------------------------------------
(* The connection. *)

(***************************************************************************)
(* Only Connect moves the connection by more than one event, and never     *)
(* back; what it passes over is missed.                                    *)
(***************************************************************************)
LEMMA ConnectFacts ==
  ASSUME IInv, Connect
  PROVE  /\ pos' \in Nat /\ pos <= pos' /\ pos' <= Len(log) + 1
         /\ (Replay /\ cursor # 0) => pos' = pos
         /\ (Replay /\ cursor # 0) => missed' = missed
         /\ finished => missed' = missed
         /\ ~finished => missed' = missed \cup {i \in pos..(pos' - 1) : Own(i)}
         /\ conn = "connecting" /\ conn' = "streaming"
         /\ UNCHANGED <<log, run, cursor, shared, post, pending, delivered, finished, output, reader, breaks,
                        anchored>>
<1>1. /\ pos' = ResumeAt(cursor)
      /\ finished => missed' = missed
      /\ ~finished => missed' = missed \cup {i \in pos..(pos' - 1) : Own(i)}
      /\ conn = "connecting" /\ conn' = "streaming"
      /\ UNCHANGED <<log, run, cursor, shared, post, pending, delivered, finished, output, reader, breaks,
                     anchored>>
  BY DEF Connect, hubVars, handleVars
<1>2. pos \in Nat /\ cursor \in Nat /\ Len(log) \in Nat
  BY DEF IInv, TypeOK, HubTypeOK
<1>3. pos' \in Nat /\ pos <= pos' /\ pos' <= Len(log) + 1 /\ ((Replay /\ cursor # 0) => pos' = pos)
  BY <1>1, <1>2 DEF IInv, Position, ResumeAt
<1>4. (Replay /\ cursor # 0) => missed' = missed
  <2>1. pos' = pos => pos..(pos' - 1) = {}
    BY <1>2
  <2> QED
    BY <1>1, <1>3, <2>1
<1> QED
  BY <1>1, <1>3, <1>4

LEMMA PositionStep ==
  ASSUME IInv, [Next]_vars
  PROVE  Position'
<1> USE DEF IInv, TypeOK, HubTypeOK
<1>1. ASSUME NEW e \in Event, Publish(e) PROVE Position'
  <2>1. UNCHANGED <<pos, cursor, missed>> /\ Len(log') = Len(log) + 1
    BY <1>1, PublishAppends DEF Publish, connVars, ghostVars
  <2> QED
    BY <2>1 DEF Position
<1>2. CASE Connect
  <2>1. \A i \in missed' : i \in 1..(pos' - 1)
    <3>1. \A i \in missed : i \in 1..(pos' - 1)
      BY <1>2, ConnectFacts DEF Position
    <3>2. \A i \in pos..(pos' - 1) : i \in 1..(pos' - 1)
      BY <1>2, ConnectFacts
    <3>3. missed' = missed \/ missed' = missed \cup {i \in pos..(pos' - 1) : Own(i)}
      BY <1>2, ConnectFacts
    <3> QED
      BY <3>1, <3>2, <3>3
  <2>2. pos' <= Len(log') + 1 /\ cursor' < pos' /\ ((Replay /\ cursor' # 0) => pos' = cursor' + 1)
    <3>1. UNCHANGED <<log, cursor>> /\ pos' \in Nat /\ pos <= pos' /\ pos' <= Len(log) + 1
      BY <1>2, ConnectFacts
    <3>2. (Replay /\ cursor # 0) => pos' = pos
      BY <1>2, ConnectFacts
    <3> QED
      BY <3>1, <3>2 DEF Position
  <2> QED
    BY <2>1, <2>2 DEF Position
<1>3. CASE ReadFrame
  <2>1. pos' = pos + 1 /\ cursor' = pos /\ pos <= Len(log) /\ UNCHANGED <<log, missed>>
    BY <1>3 DEF ReadFrame, hubVars, ghostVars
  <2>2. \A i \in missed : i \in 1..(pos' - 1)
    BY <2>1 DEF Position
  <2> QED
    BY <2>1, <2>2 DEF Position
<1>4. CASE UNCHANGED <<pos, cursor, log, missed>>
  BY <1>4 DEF Position
<1>5. CASE PostAccepted \/ PostResolves \/ PostFails \/ Drain \/ ConnectionLost \/ Cancel
  BY <1>4, <1>5 DEF PostAccepted, HubAccept, PostResolves, PostFails, Drain, DrainStep, DrainEnds,
                    ConnectionLost, Cancel, hubVars, connVars, ghostVars
<1>6. ASSUME NEW r \in Readers, ReaderNext(r) \/ Return(r) PROVE Position'
  BY <1>4, <1>6 DEF ReaderNext, NextBuffered, NextDone, NextParks, Return, hubVars, connVars, ghostVars
<1>7. CASE Construct \/ OtherSubscribes \/ OtherLeaves
  <2>1. UNCHANGED <<pos, log, missed>> /\ (cursor' = 0 \/ cursor' = cursor)
    BY <1>7 DEF Construct, OtherSubscribes, OtherLeaves, EnsureConnection, hubVars, ghostVars
  <2> QED
    BY <2>1 DEF Position
<1> QED
  BY <1>1, <1>2, <1>3, <1>4, <1>5, <1>6, <1>7 DEF Next, vars, hubVars, connVars, ghostVars

(***************************************************************************)
(* An anchored handle's connection is streaming or will resume: joining    *)
(* keeps it as it is, others cannot close it while the handle is           *)
(* subscribed, and a connect passes nothing over.                          *)
(***************************************************************************)
LEMMA AnchorStep ==
  ASSUME IInv, [Next]_vars
  PROVE  Anchor' /\ NoGapWhileAnchored'
<1> USE DEF Anchor, NoGapWhileAnchored
<1>0. /\ anchored => missed = {} /\ post # "absent"
      /\ (anchored /\ ~finished) => conn = "streaming" \/ Resumes
      /\ post = "absent" => ~finished
      /\ Resumes' <=> Replay /\ cursor' # 0
  BY DEF IInv, Buffering, Resumes
<1>1. CASE UNCHANGED <<missed, anchored, cursor>> /\ post' # "absent"
           /\ (~finished' => ~finished /\ conn' = conn)
  BY <1>0, <1>1 DEF Resumes
<1>2. CASE Connect
  <2>1. anchored => missed' = missed
    BY <1>0, <1>2, ConnectFacts DEF Resumes
  <2> QED
    BY <1>0, <1>2, <2>1, ConnectFacts
<1>3. CASE ConnectionLost
  BY <1>0, <1>3 DEF ConnectionLost, Resumes, handleVars
<1>4. CASE ReadFrame
  <2>1. cursor' # 0 /\ UNCHANGED <<missed, anchored, post>>
    BY <1>4, RouteFacts DEF IInv, TypeOK
  <2>2. ~finished' => ~finished
    BY <1>4, RouteFacts, HandleFacts
  <2>3. conn = "streaming" /\ (~finished' => conn' = conn)
    BY <1>4, RouteFacts, HandleFacts DEF ReadFrame
  <2> QED
    BY <1>0, <2>1, <2>2, <2>3
<1>5. CASE DrainStep
  <2>1. UNCHANGED <<missed, anchored, cursor>> /\ post' # "absent"
    BY <1>5, DrainFacts
  <2>2. ~finished' => ~finished /\ conn' = conn
    BY <1>5, DrainFacts, HandleFacts
  <2> QED
    BY <1>1, <2>1, <2>2
<1>6. CASE PostFails \/ Cancel
  <2>1. finished'
    BY <1>6, FinishFacts DEF PostFails, Cancel
  <2> QED
    BY <1>0, <1>1, <1>6, <2>1 DEF PostFails, Cancel, ghostVars, Subscribed
<1>7. CASE Construct
  <2>1. missed' = {} /\ post' = "sent"
    BY <1>7 DEF Construct, IInv, NoRunYet
  <2>2. anchored' => conn = "streaming" \/ (conn = "connecting" /\ Resumes)
    BY <1>7 DEF Construct
  <2>3. conn # "closed" => conn' = conn /\ cursor' = cursor
    BY <1>7 DEF Construct, EnsureConnection
  <2> QED
    BY <1>0, <2>1, <2>2, <2>3 DEF Resumes
<1>8. CASE OtherSubscribes
  BY <1>0, <1>8 DEF OtherSubscribes, EnsureConnection, Resumes, handleVars, ghostVars, IInv,
                    ConnectionWhileSubscribed, Subscribed
<1>9. CASE OtherLeaves
  BY <1>0, <1>9 DEF OtherLeaves, Resumes, handleVars, ghostVars, Subscribed
<1>10. CASE UNCHANGED <<post, finished, anchored, cursor, conn, missed>>
  BY <1>0, <1>10 DEF Resumes
<1>11. CASE (\E e \in Event : Publish(e)) \/ UNCHANGED vars
  BY <1>10, <1>11 DEF Publish, vars, connVars, handleVars, ghostVars
<1>12. CASE PostAccepted \/ PostResolves \/ DrainEnds
  BY <1>1, <1>12 DEF PostAccepted, PostResolves, DrainEnds, connVars, ghostVars
<1>13. ASSUME NEW r \in Readers, ReaderNext(r) \/ Return(r)
       PROVE  Anchor' /\ NoGapWhileAnchored'
  BY <1>10, <1>13 DEF ReaderNext, NextBuffered, NextDone, NextParks, Return, connVars, handleVars, ghostVars
<1> QED
  BY <1>2, <1>3, <1>4, <1>5, <1>6, <1>7, <1>8, <1>9, <1>11, <1>12, <1>13 DEF Next, Drain

(***************************************************************************)
(* Nobody opens a second connection, and only the last subscriber to go    *)
(* closes the one there is.                                                *)
(***************************************************************************)
LEMMA ConnectionStep ==
  ASSUME IInv, [Next]_vars
  PROVE  ConnectionWhileSubscribed'
<1> USE DEF ConnectionWhileSubscribed, Subscribed
<1>0. conn # "closed" <=> (shared \/ (post # "absent" /\ ~finished))
  BY DEF IInv
<1>1. CASE UNCHANGED <<shared, conn, finished>> /\ (post = "absent" <=> post' = "absent")
  BY <1>0, <1>1
<1>2. CASE Connect
  BY <1>0, <1>2, ConnectFacts
<1>3. CASE ConnectionLost
  BY <1>0, <1>3 DEF ConnectionLost, handleVars
<1>4. CASE ReadFrame
  BY <1>0, <1>1, <1>4, RouteFacts, HandleFacts
<1>5. CASE DrainStep
  BY <1>0, <1>1, <1>5, DrainFacts, HandleFacts
<1>6. CASE PostFails
  <2>1. CASE finished
    BY <1>1, <1>6, <2>1 DEF PostFails
  <2>2. CASE ~finished
    BY <1>0, <1>6, <2>2, FinishFacts DEF PostFails
  <2> QED
    BY <2>1, <2>2
<1>7. CASE Cancel
  BY <1>0, <1>7, FinishFacts DEF Cancel
<1>8. CASE Construct
  BY <1>0, <1>8 DEF Construct, EnsureConnection, IInv, Buffering
<1>9. CASE OtherSubscribes \/ OtherLeaves
  BY <1>0, <1>9 DEF OtherSubscribes, OtherLeaves, EnsureConnection, handleVars
<1>10. CASE (\E e \in Event : Publish(e)) \/ PostAccepted \/ PostResolves \/ DrainEnds \/ UNCHANGED vars
  BY <1>1, <1>10 DEF Publish, PostAccepted, PostResolves, DrainEnds, vars, connVars, handleVars
<1>11. ASSUME NEW r \in Readers, ReaderNext(r) \/ Return(r) PROVE ConnectionWhileSubscribed'
  BY <1>1, <1>11 DEF ReaderNext, NextBuffered, NextDone, NextParks, Return, connVars, handleVars
<1> QED
  BY <1>2, <1>3, <1>4, <1>5, <1>6, <1>7, <1>8, <1>9, <1>10, <1>11 DEF Next, Drain

(***************************************************************************)
(* The run starts when the POST is accepted, after the constructor, and    *)
(* publishes nothing before.                                               *)
(***************************************************************************)
LEMMA NoRunYetStep ==
  ASSUME IInv, [Next]_vars
  PROVE  NoRunYet'
<1>0. /\ post \in {"absent", "sent"} => run = "absent"
      /\ run = "absent" => missed = {} /\ \A i \in 1..Len(log) : ~Own(i)
  BY DEF IInv, NoRunYet
<1>1. CASE UNCHANGED <<log, run, missed>> /\ (post' \in {"absent", "sent"} => post \in {"absent", "sent"})
  BY <1>0, <1>1 DEF NoRunYet, Own
<1>2. ASSUME NEW e \in Event, Publish(e) PROVE NoRunYet'
  <2>1. HubPublish(e) /\ UNCHANGED <<post, missed>>
    BY <1>2 DEF Publish, handleVars, ghostVars
  <2>2. post' \in {"absent", "sent"} => run' = "absent"
    BY <1>0, <2>1 DEF HubPublish
  <2>3. ASSUME run' = "absent", NEW i \in 1..Len(log') PROVE ~(Own(i)')
    <3>1. /\ run = "absent" /\ e.src # "own" /\ Len(log') = Len(log) + 1
          /\ log'[Len(log) + 1] = e /\ \A k \in 1..Len(log) : log'[k] = log[k]
          /\ Len(log) \in Nat
      BY <2>1, <2>3, PublishAppends DEF IInv, TypeOK, HubTypeOK, HubPublish
    <3>2. i = Len(log) + 1 \/ i \in 1..Len(log)
      BY <3>1
    <3> QED
      BY <1>0, <3>1, <3>2 DEF Own
  <2>4. run' = "absent" => missed' = {}
    BY <1>0, <2>1 DEF HubPublish
  <2> QED
    BY <2>2, <2>3, <2>4 DEF NoRunYet
<1>3. CASE PostAccepted
  BY <1>3 DEF PostAccepted, HubAccept, NoRunYet
<1>4. CASE Construct \/ OtherSubscribes \/ OtherLeaves \/ PostResolves \/ PostFails \/ Drain
           \/ ReadFrame \/ ConnectionLost \/ Cancel \/ UNCHANGED vars
  BY <1>1, <1>4 DEF Construct, OtherSubscribes, OtherLeaves, PostResolves, PostFails, Drain, DrainStep,
                    DrainEnds, ReadFrame, ConnectionLost, Cancel, vars, hubVars, handleVars, ghostVars
<1>5. ASSUME NEW r \in Readers, ReaderNext(r) \/ Return(r) PROVE NoRunYet'
  BY <1>1, <1>5 DEF ReaderNext, NextBuffered, NextDone, NextParks, Return, hubVars, handleVars, ghostVars
<1>6. CASE Connect
  <2>1. UNCHANGED <<log, run, post>> /\ pos \in Nat \ {0} /\ pos' \in Nat /\ pos' <= Len(log) + 1
    BY <1>6, ConnectFacts DEF IInv, TypeOK
  <2>2. missed' = missed \/ missed' = missed \cup {i \in pos..(pos' - 1) : Own(i)}
    BY <1>6, ConnectFacts
  <2>3. ASSUME run = "absent" PROVE missed' = {}
    <3>1. \A i \in pos..(pos' - 1) : i \in 1..Len(log)
      <4>1. Len(log) \in Nat
        BY DEF IInv, TypeOK, HubTypeOK
      <4> QED
        BY <2>1, <4>1, PassedOverInLog
    <3> QED
      BY <1>0, <2>2, <2>3, <3>1
  <2> QED
    BY <1>0, <2>1, <2>3 DEF NoRunYet, Own
<1> QED
  BY <1>2, <1>3, <1>4, <1>5, <1>6 DEF Next

-----------------------------------------------------------------------------
(* The buffer. *)

LEMMA BufferingStep ==
  ASSUME IInv, [Next]_vars
  PROVE  Buffering'
<1> USE DEF IInv, Buffering
<1>1. CASE ReadFrame
  BY <1>1, RouteFacts, HandleFacts
<1>2. CASE DrainStep
  BY <1>2, DrainFacts, HandleFacts
<1>3. CASE DrainEnds \/ PostResolves \/ PostAccepted
  BY <1>3 DEF DrainEnds, PostResolves, PostAccepted
<1>4. CASE PostFails
  BY <1>4, FinishFacts DEF PostFails
<1>5. CASE Cancel
  BY <1>5, FinishFacts DEF Cancel, Idle, Subscribed
<1>6. CASE UNCHANGED handleVars
  BY <1>6 DEF handleVars
<1>7. CASE (\E e \in Event : Publish(e)) \/ Connect \/ ConnectionLost \/ UNCHANGED vars
  BY <1>6, <1>7 DEF Publish, Connect, ConnectionLost, vars
<1>8. ASSUME NEW r \in Readers, ReaderNext(r) \/ Return(r) PROVE Buffering'
  BY <1>6, <1>8 DEF ReaderNext, NextBuffered, NextDone, NextParks, Return
<1>9. CASE Construct
  BY <1>9 DEF Construct
<1>10. CASE OtherSubscribes \/ OtherLeaves
  BY <1>6, <1>10 DEF OtherSubscribes, OtherLeaves
<1> QED
  BY <1>1, <1>2, <1>3, <1>4, <1>5, <1>7, <1>8, <1>9, <1>10 DEF Next, Drain

(***************************************************************************)
(* Whatever reaches the log of the handle comes after all that is in it    *)
(* and before all that is still buffered.                                  *)
(***************************************************************************)
LEMMA OrderStep ==
  ASSUME IInv, [Next]_vars
  PROVE  Order'
<1> USE DEF IInv
<1>0. /\ pending \in Seq(Nat) /\ delivered \in Seq(Nat) /\ cursor \in Nat /\ pos \in Nat
      /\ cursor < pos
  BY DEF TypeOK, Position
<1>1. CASE /\ UNCHANGED <<pending, delivered>> /\ pos' \in Nat /\ pos <= pos'
           /\ (cursor' = 0 /\ ~finished') => (cursor = 0 /\ ~finished) \/ post = "absent"
  <2>1. (cursor' = 0 /\ ~finished') => delivered = <<>> /\ pending = <<>>
    <3>1. (cursor = 0 /\ ~finished) => delivered = <<>> /\ pending = <<>>
      BY DEF Order
    <3>2. post = "absent" => delivered = <<>> /\ pending = <<>>
      BY DEF Buffering
    <3> QED
      BY <1>1, <3>1, <3>2
  <2>2. \A i \in 1..(pos - 1) : i \in 1..(pos' - 1)
    <3>1. pos \in Nat /\ pos' \in Nat /\ pos <= pos'
      BY <1>0, <1>1
    <3> QED
      BY <3>1, StaysPast
  <2> QED
    BY <1>1, <2>1, <2>2 DEF Order, Read, Increasing, Below
<1>2. CASE ReadFrame
  <2>1. pos' = pos + 1 /\ pos' - 1 = pos /\ cursor' # 0
    BY <1>0, <1>2 DEF ReadFrame, TypeOK
  <2>2. \A k \in 1..Len(pending) : pending[k] \in 1..pos /\ pending[k] < pos
    BY <1>0 DEF Order, Read
  <2>3. \A k \in 1..Len(delivered) : delivered[k] \in 1..pos /\ delivered[k] < pos
    BY <1>0 DEF Order, Read
  <2>4. CASE UNCHANGED <<pending, delivered>>
    BY <2>1, <2>2, <2>3, <2>4 DEF Order, Read, Increasing, Below
  <2>5. CASE post \in {"sent", "accepted"} /\ pending' = Append(pending, pos) /\ UNCHANGED delivered
    <3>1. delivered' = <<>> /\ Len(delivered') = 0
      BY <2>5 DEF Buffering
    <3>2. Increasing(pending)'
      <4>1. Increasing(Append(pending, pos))
        BY <1>0, <2>2, IncreasingAppend DEF Order
      <4> QED
        BY <2>5, <4>1 DEF Increasing
    <3>3. \A k \in 1..Len(pending') : pending'[k] \in 1..pos
      <4>1. pos \in 1..pos
        BY <1>0
      <4> QED
        BY <1>0, <2>2, <2>5, <4>1, AppendMembers
    <3> QED
      BY <2>1, <3>1, <3>2, <3>3 DEF Order, Read, Below
  <2>6. CASE post = "done" /\ delivered' = Append(delivered, pos) /\ UNCHANGED pending
    <3>1. pending' = <<>> /\ Len(pending') = 0
      BY <2>6 DEF Buffering
    <3>2. \A k \in 1..Len(delivered') : delivered'[k] \in 1..pos
      <4>1. pos \in 1..pos
        BY <1>0
      <4> QED
        BY <1>0, <2>3, <2>6, <4>1, AppendMembers
    <3> QED
      BY <2>1, <3>1, <3>2 DEF Order, Read, Increasing, Below
  <2> QED
    BY <1>2, <2>4, <2>5, <2>6, RouteFacts, HandleFacts
<1>3. CASE DrainStep
  <2> DEFINE h == Head(pending)
  <2>1. /\ pending # <<>> /\ pending' = Tail(pending) /\ Tail(pending) \in Seq(Nat)
        /\ UNCHANGED <<cursor, pos>> /\ h \in 1..(pos - 1) /\ h \in 1..Len(log)
        /\ ~(cursor' = 0 /\ ~finished')
    BY <1>3, DrainFacts, HandleFacts DEF Order
  <2>2. h = pending[1] /\ 1 \in 1..Len(pending) /\ h \in Nat
    BY <1>0, <2>1
  <2> HIDE DEF h
  <2>3. ASSUME NEW k \in 1..Len(Tail(pending))
        PROVE  /\ k + 1 \in 1..Len(pending)
               /\ Tail(pending)[k] = pending[k + 1]
               /\ h < Tail(pending)[k]
    BY <1>0, <2>1, HeadTailProperties, IncreasingTail DEF h, Order
  <2>4. Increasing(pending)'
    BY <1>0, <2>1, IncreasingTail DEF Increasing, Order
  <2>5. Read(pending)'
    BY <2>1, <2>3 DEF Read, Order
  <2>6. CASE UNCHANGED delivered
    BY <2>1, <2>3, <2>4, <2>5, <2>6 DEF Order, Read, Below
  <2>7. CASE delivered' = Append(delivered, h)
    <3>1. ASSUME NEW k \in 1..Len(delivered')
          PROVE  (k \in 1..Len(delivered) /\ delivered'[k] = delivered[k]) \/ delivered'[k] = h
      BY <1>0, <2>2, <2>7, AppendMembers
    <3>2. Read(delivered)'
      BY <2>1, <3>1 DEF Read, Order
    <3>3. Below(delivered, pending)'
      BY <2>1, <2>3, <3>1 DEF Below, Order
    <3> QED
      BY <2>1, <2>4, <2>5, <3>2, <3>3 DEF Order
  <2> QED
    BY <1>3, <2>1, <2>6, <2>7, DrainFacts, HandleFacts DEF h
<1>4. CASE PostFails
  <2>1. pending' = <<>> /\ Len(pending') = 0 /\ UNCHANGED <<delivered, cursor, pos>> /\ finished'
    BY <1>4, FinishFacts DEF PostFails
  <2> QED
    BY <2>1 DEF Order, Read, Increasing, Below
<1>5. CASE UNCHANGED <<pending, delivered, pos, cursor, finished>>
  BY <1>0, <1>1, <1>5
<1>6. CASE (\E e \in Event : Publish(e)) \/ PostAccepted \/ PostResolves \/ DrainEnds \/ ConnectionLost
           \/ OtherLeaves \/ UNCHANGED vars
  BY <1>5, <1>6 DEF Publish, PostAccepted, PostResolves, DrainEnds, ConnectionLost, OtherLeaves, vars,
                    connVars, handleVars
<1>7. ASSUME NEW r \in Readers, ReaderNext(r) \/ Return(r) PROVE Order'
  BY <1>5, <1>7 DEF ReaderNext, NextBuffered, NextDone, NextParks, Return, connVars, handleVars
<1>8. CASE Connect
  BY <1>1, <1>8, ConnectFacts
<1>9. CASE Cancel
  BY <1>0, <1>1, <1>9, FinishFacts DEF Cancel
<1>10. CASE Construct
  BY <1>0, <1>1, <1>10 DEF Construct
<1>11. CASE OtherSubscribes
  BY <1>0, <1>1, <1>11 DEF OtherSubscribes, EnsureConnection, ConnectionWhileSubscribed, Subscribed, handleVars
<1> QED
  BY <1>2, <1>3, <1>4, <1>6, <1>7, <1>8, <1>9, <1>10, <1>11 DEF Next, Drain

-----------------------------------------------------------------------------
(* What the handle holds. *)

LEMMA HeldMembers ==
  /\ Held = Members(pending) \cup Members(delivered)
  /\ Held' = Members(pending') \cup Members(delivered')
BY DEF Held, Members

(***************************************************************************)
(* A frame is added to what the handle holds, or the stream is over, or it *)
(* is not ours.                                                            *)
(***************************************************************************)
LEMMA ReadHeld ==
  ASSUME IInv, ReadFrame
  PROVE  Held' = Held \cup {pos} \/ (Held' = Held /\ (finished \/ ~Own(pos)))
<1>1. pending \in Seq(Nat) /\ delivered \in Seq(Nat) /\ pos \in Nat
  BY DEF IInv, TypeOK
<1>2. CASE pending' = Append(pending, pos) /\ UNCHANGED delivered
  BY <1>1, <1>2, AppendSet, HeldMembers
<1>3. CASE delivered' = Append(delivered, pos) /\ UNCHANGED pending
  BY <1>1, <1>3, AppendSet, HeldMembers
<1>4. CASE (finished \/ ~Own(pos)) /\ UNCHANGED <<pending, delivered>>
  BY <1>4, HeldMembers
<1> QED
  BY <1>2, <1>3, <1>4, RouteFacts, HandleFacts

(***************************************************************************)
(* The drain loses only what is not ours, or what comes after the end.     *)
(***************************************************************************)
LEMMA DrainHeld ==
  ASSUME IInv, DrainStep
  PROVE  \/ Held' = Held
         \/ Held = Held' \cup {Head(pending)} /\ (finished \/ ~Own(Head(pending)))
<1>1. /\ pending \in Seq(Nat) /\ delivered \in Seq(Nat) /\ pending # <<>> /\ pending' = Tail(pending)
      /\ Head(pending) \in Nat
  BY DrainFacts DEF IInv, TypeOK
<1>2. Members(pending) = Members(pending') \cup {Head(pending)}
  BY <1>1, TailSet
<1>3. CASE delivered' = Append(delivered, Head(pending))
  BY <1>1, <1>2, <1>3, AppendSet, HeldMembers
<1>4. CASE (finished \/ ~Own(Head(pending))) /\ UNCHANGED delivered
  BY <1>2, <1>4, HeldMembers
<1> QED
  BY <1>3, <1>4, DrainFacts, HandleFacts

LEMMA PostFailsHeld ==
  ASSUME IInv, PostFails
  PROVE  finished' /\ Held' \subseteq Held
<1>1. finished'
  BY FinishFacts DEF PostFails
<1>2. pending' = <<>> /\ UNCHANGED delivered
  BY DEF PostFails
<1>3. Members(pending') = {}
  BY <1>2 DEF Members
<1> QED
  BY <1>1, <1>2, <1>3, HeldMembers

LEMMA OtherHeld ==
  ASSUME IInv, [Next]_vars
  PROVE  ReadFrame \/ DrainStep \/ PostFails \/ Held' = Held
<1>1. CASE UNCHANGED <<pending, delivered>>
  BY <1>1, HeldMembers
<1>2. CASE (\E e \in Event : Publish(e)) \/ Construct \/ OtherSubscribes \/ OtherLeaves \/ PostAccepted
           \/ PostResolves \/ DrainEnds \/ Connect \/ ConnectionLost \/ Cancel \/ UNCHANGED vars
  BY <1>1, <1>2 DEF Publish, Construct, OtherSubscribes, OtherLeaves, PostAccepted, PostResolves, DrainEnds,
                    Connect, ConnectionLost, Cancel, vars, handleVars
<1>3. ASSUME NEW r \in Readers, ReaderNext(r) \/ Return(r) PROVE Held' = Held
  BY <1>3, HeldMembers DEF ReaderNext, NextBuffered, NextDone, NextParks, Return, handleVars
<1> QED
  BY <1>2, <1>3 DEF Next, Drain

(***************************************************************************)
(* Everything held has been read: the connection is past it, and an open   *)
(* stream that holds something has a cursor.                               *)
(***************************************************************************)
LEMMA HeldIsRead ==
  ASSUME IInv
  PROVE  \A h \in Held : h \in 1..(pos - 1) /\ (cursor # 0 \/ finished)
<1>1. DOMAIN pending = 1..Len(pending) /\ DOMAIN delivered = 1..Len(delivered)
  BY DEF IInv, TypeOK
<1> QED
  BY <1>1 DEF IInv, Order, Read, Held

-----------------------------------------------------------------------------
(* Nothing dropped, and no hole. *)

LEMMA NothingDroppedStep ==
  ASSUME IInv, [Next]_vars
  PROVE  NothingDropped'
<1> SUFFICES ASSUME ~finished', NEW i \in 1..(pos' - 1), Own(i)'
             PROVE  i \in Held' \cup missed'
  BY DEF NothingDropped
<1>0. pos \in Nat /\ Len(log) \in Nat /\ pos <= Len(log) + 1
  BY DEF IInv, TypeOK, HubTypeOK, Position
<1>1. (~finished /\ i \in 1..(pos - 1) /\ Own(i)) => i \in Held \cup missed
  BY DEF IInv, NothingDropped
<1>2. ASSUME NEW e \in Event, Publish(e) PROVE i \in Held' \cup missed'
  <2>1. UNCHANGED <<pos, missed, finished, pending, delivered>>
    BY <1>2 DEF Publish, connVars, handleVars, ghostVars
  <2>2. i \in 1..Len(log)
    BY <1>0, <2>1
  <2>3. Own(i)
    BY <1>2, <2>2, PublishAppends DEF Publish, IInv, TypeOK, Own
  <2> QED
    BY <1>1, <2>1, <2>3, HeldMembers
<1>3. CASE ReadFrame
  <2>1. pos' = pos + 1 /\ UNCHANGED <<log, missed>>
    BY <1>3, RouteFacts
  <2>2. ~finished /\ Own(i)
    BY <1>3, <2>1, RouteFacts, HandleFacts DEF Own
  <2>3. i = pos \/ i \in 1..(pos - 1)
    BY <1>0, <2>1
  <2> QED
    BY <1>1, <1>3, <2>1, <2>2, <2>3, ReadHeld
<1>4. CASE DrainStep
  <2>1. UNCHANGED <<pos, log, missed>>
    BY <1>4, DrainFacts
  <2>2. ~finished /\ Own(i)
    BY <1>4, <2>1, DrainFacts, HandleFacts DEF Own
  <2> QED
    BY <1>1, <1>4, <2>1, <2>2, DrainHeld
<1>5. CASE PostFails
  BY <1>5, PostFailsHeld
<1>6. CASE Connect
  <2>1. Held' = Held /\ UNCHANGED <<log, finished>> /\ missed' = missed \cup {j \in pos..(pos' - 1) : Own(j)}
    BY <1>6, ConnectFacts, HeldMembers
  <2>2. Own(i)
    BY <2>1 DEF Own
  <2>3. i \in 1..(pos - 1) \/ i \in pos..(pos' - 1)
    BY <1>0, <1>6, ConnectFacts
  <2> QED
    BY <1>1, <2>1, <2>2, <2>3
<1>7. CASE UNCHANGED <<pos, log, finished, missed, pending, delivered>>
  BY <1>1, <1>7, HeldMembers DEF Own
<1>8. CASE Construct \/ OtherSubscribes \/ OtherLeaves \/ PostAccepted \/ PostResolves \/ DrainEnds
           \/ ConnectionLost \/ UNCHANGED vars
  BY <1>7, <1>8 DEF Construct, OtherSubscribes, OtherLeaves, PostAccepted, HubAccept, PostResolves, DrainEnds,
                    ConnectionLost, vars, hubVars, connVars, handleVars, ghostVars
<1>9. CASE Cancel
  BY <1>9, FinishFacts DEF Cancel
<1>10. ASSUME NEW r \in Readers, ReaderNext(r) \/ Return(r) PROVE i \in Held' \cup missed'
  BY <1>7, <1>10 DEF ReaderNext, NextBuffered, NextDone, NextParks, Return, hubVars, connVars, handleVars,
                     ghostVars
<1> QED
  BY <1>2, <1>3, <1>4, <1>5, <1>6, <1>8, <1>9, <1>10 DEF Next, Drain

(***************************************************************************)
(* With replay a reconnect passes nothing over once anything is held, and  *)
(* what is read later comes after all that was missed.                     *)
(***************************************************************************)
LEMMA NoHoleStep ==
  ASSUME IInv, [Next]_vars
  PROVE  NoHoleAfterFirstFrame'
<1> SUFFICES ASSUME Replay, NEW i \in missed', NEW h \in Held' PROVE i < h
  BY DEF NoHoleAfterFirstFrame
<1>1. (i \in missed /\ h \in Held) => i < h
  BY DEF IInv, NoHoleAfterFirstFrame
<1>2. CASE ReadFrame
  <2>1. i \in missed /\ i < pos
    <3>1. missed' = missed
      BY <1>2 DEF ReadFrame, ghostVars
    <3> QED
      BY <3>1 DEF IInv, Position, TypeOK
  <2>2. h \in Held \/ h = pos
    BY <1>2, ReadHeld
  <2> QED
    BY <1>1, <2>1, <2>2
<1>3. CASE Connect
  <2>1. h \in Held
    BY <1>3, ConnectFacts, HeldMembers
  <2>2. cursor # 0 \/ finished
    BY <2>1, HeldIsRead
  <2> QED
    BY <1>1, <1>3, <2>1, <2>2, ConnectFacts
<1>4. CASE missed' = missed /\ Held' \subseteq Held
  BY <1>1, <1>4
<1>5. CASE DrainStep
  <2>1. Held' \subseteq Held
    BY <1>5, DrainHeld
  <2> QED
    BY <1>4, <1>5, <2>1, DrainFacts
<1>6. CASE PostFails
  BY <1>4, <1>6, PostFailsHeld DEF PostFails, ghostVars
<1>7. ReadFrame \/ Connect \/ missed' = missed
  BY DEF Next, vars, ghostVars, Publish, Construct, OtherSubscribes, OtherLeaves, PostAccepted, PostResolves, PostFails, Drain, DrainStep, DrainEnds,
         ConnectionLost, Cancel, ReaderNext, NextBuffered, NextDone, NextParks, Return
<1> QED
  BY <1>2, <1>3, <1>4, <1>5, <1>6, <1>7, OtherHeld

-----------------------------------------------------------------------------
(* The iterators. *)

(***************************************************************************)
(* The log grows and the stream finishes only in steps that release every  *)
(* parked iterator; only next() itself parks one.                          *)
(***************************************************************************)
LEMMA NoLostWakeupStep ==
  ASSUME IInv, [Next]_vars
  PROVE  NoLostWakeup'
<1> SUFFICES ASSUME NEW q \in Readers
             PROVE  /\ reader'[q].doing = "waiting" => reader'[q].got = Len(delivered') /\ ~finished'
                    /\ reader'[q].doing = "done" => reader'[q].got = Len(delivered') /\ finished'
  BY DEF NoLostWakeup
<1> DEFINE Goal == /\ reader'[q].doing = "waiting" => reader'[q].got = Len(delivered') /\ ~finished'
                   /\ reader'[q].doing = "done" => reader'[q].got = Len(delivered') /\ finished'
<1>1. /\ reader[q].doing = "waiting" => reader[q].got = Len(delivered) /\ ~finished
      /\ reader[q].doing = "done" => reader[q].got = Len(delivered) /\ finished
  BY DEF IInv, NoLostWakeup
<1>2. CASE UNCHANGED <<reader, delivered, finished>>
  BY <1>1, <1>2
<1>3. ASSUME NEW i \in 1..Len(log), Handle(i) PROVE Goal
  BY <1>3, HandleFacts
<1>4. CASE ReadFrame
  BY <1>2, <1>3, <1>4, RouteFacts
<1>5. CASE DrainStep
  BY <1>2, <1>3, <1>5, DrainFacts
<1>6. ASSUME Finish(reader), UNCHANGED delivered PROVE Goal
  BY <1>1, <1>6, FinishFacts
<1>7. CASE PostFails
  BY <1>2, <1>6, <1>7 DEF PostFails
<1>8. CASE Cancel
  BY <1>6, <1>8 DEF Cancel
<1>9. ASSUME NEW r \in Readers, ReaderNext(r) \/ Return(r) PROVE Goal
  <2>1. UNCHANGED <<delivered, finished>>
    BY <1>9 DEF ReaderNext, NextBuffered, NextDone, NextParks, Return, handleVars
  <2>2. CASE q = r
    BY <1>9, <2>1, <2>2, ReaderFacts
  <2>3. CASE q # r
    BY <1>1, <1>9, <2>1, <2>3, ReaderFacts
  <2> QED
    BY <2>2, <2>3
<1>10. CASE (\E e \in Event : Publish(e)) \/ Construct \/ OtherSubscribes \/ OtherLeaves \/ PostAccepted
            \/ PostResolves \/ DrainEnds \/ Connect \/ ConnectionLost \/ UNCHANGED vars
  BY <1>2, <1>10 DEF Publish, Construct, OtherSubscribes, OtherLeaves, PostAccepted, PostResolves, DrainEnds,
                     Connect, ConnectionLost, vars, handleVars
<1> QED
  BY <1>4, <1>5, <1>7, <1>8, <1>9, <1>10 DEF Next, Drain

-----------------------------------------------------------------------------
(* The theorems. *)

(***************************************************************************)
(* IInv is an invariant: it holds initially and every handler preserves    *)
(* it.                                                                     *)
(***************************************************************************)
THEOREM Inductive == Spec => []IInv
<1>1. IInv /\ [Next]_vars => IInv'
  BY TypeStep, PositionStep, NoRunYetStep, AnchorStep, ConnectionStep, BufferingStep, OrderStep,
     NothingDroppedStep, NoHoleStep, NoLostWakeupStep DEF IInv
<1> QED
  BY <1>1, InitInv, PTL DEF Spec

(***************************************************************************)
(* Type correctness; in particular no iterator's index leaves the naturals *)
(* and the connection is never read outside the three states of the loop.  *)
(***************************************************************************)
THEOREM TypeCorrect == Spec => []TypeOK
  BY Inductive, PTL DEF IInv

(***************************************************************************)
(* routeRaw, the buffer and its drain lose nothing of our run while the    *)
(* stream is open, whenever the execution id becomes known.                *)
(***************************************************************************)
THEOREM NothingIsDropped == Spec => []NothingDropped
  BY Inductive, PTL DEF IInv

(***************************************************************************)
(* No iterator is left parked next to an event or after the end, and none  *)
(* is told that the stream is over before it has been given everything,    *)
(* for any number of iterators.                                            *)
(***************************************************************************)
THEOREM IteratorsAreWoken == Spec => []NoLostWakeup
  BY Inductive, PTL DEF IInv

(***************************************************************************)
(* A handle that joins a connection which is streaming, or backing off     *)
(* with a Last-Event-ID, misses nothing of its run for as long as every    *)
(* loss leaves an id to resume from, whatever the other subscribers do.    *)
(***************************************************************************)
THEOREM AnchoredHandleMissesNothing == Spec => []NoGapWhileAnchored
  BY Inductive, PTL DEF IInv

(***************************************************************************)
(* The connection the subscribers share is up exactly while there is one,  *)
(* the handle counting until it finishes.                                  *)
(***************************************************************************)
THEOREM ConnectionLivesWithSubscribers == Spec => []ConnectionWhileSubscribed
  BY Inductive, PTL DEF IInv

(***************************************************************************)
(* With a replaying server, reconnects leave no hole in the middle of what *)
(* the handle holds.                                                       *)
(***************************************************************************)
THEOREM NoHole == Spec => []NoHoleAfterFirstFrame
  BY Inductive, PTL DEF IInv

(***************************************************************************)
(* The TypeScript run stream implements RunHandle: through buffer, drain,  *)
(* filter, cancel() and failed POST the handle delivers events of its own  *)
(* run in order and once, and a terminal outcome is its own run's.         *)
(***************************************************************************)
THEOREM RefinesRunHandle == Spec => ImplementsRunHandle
<1>1. Init => RH!HandleInit
  BY DEF Init, HubInit, RH!HandleInit, RH!HubInit
<1>2. ASSUME IInv, [Next]_vars
      PROVE  [RH!HandleNext]_(RH!handleVars)
  <2> DEFINE Stutter == UNCHANGED <<log, run, delivered, output>>
  <2>1. Stutter => UNCHANGED RH!handleVars
    BY DEF RH!handleVars
  <2>2. ASSUME NEW e \in Event, Publish(e) PROVE RH!HandleNext
    BY <2>2
    DEF Publish, handleVars, RH!HandleNext, RH!HandleHub, HubPublish, RH!HubPublish, Terminal, RH!Terminal,
        Event, RH!Event, Source, RH!Source, Kind, RH!Kind
  <2>3. CASE PostAccepted
    BY <2>3 DEF PostAccepted, RH!HandleNext, RH!HandleHub, HubAccept, RH!HubAccept
  <2>4. ASSUME NEW i \in 1..Len(log), Handle(i), Matches(i), UNCHANGED <<log, run>>,
               \A k \in 1..Len(delivered) : delivered[k] < i
        PROVE  RH!HandleNext
    <3>1. /\ output = "pending" /\ delivered' = Append(delivered, i)
          /\ output' = IF IsTerminal(i) THEN log[i].kind ELSE "pending"
      BY <1>2, <2>4, HandleFacts DEF IInv, Buffering
    <3>2. RH!Newest(delivered) < i
      <4>1. CASE delivered = <<>>
        BY <4>1 DEF RH!Newest
      <4>2. CASE delivered # <<>>
        <5>1. Len(delivered) \in 1..Len(delivered)
          BY <1>2, <4>2 DEF IInv, TypeOK
        <5> QED
          BY <2>4, <4>2, <5>1 DEF RH!Newest
      <4> QED
        BY <4>1, <4>2
    <3>3. RH!Yield(i)
      BY <2>4, <3>1, <3>2
      DEF RH!Yield, RH!Matches, RH!Own, Matches, Own, RH!IsTerminal, IsTerminal, Terminal, RH!Terminal,
          RH!hubVars
    <3> QED
      BY <3>3 DEF RH!HandleNext
  <2>5. CASE ReadFrame
    <3>1. pos \in 1..Len(log) /\ UNCHANGED <<log, run>>
      BY <1>2, <2>5, RouteFacts
    <3>2. \A k \in 1..Len(delivered) : delivered[k] < pos
      <4>1. pos \in Nat
        BY <1>2 DEF IInv, TypeOK
      <4> QED
        BY <1>2, <4>1 DEF IInv, Order, Read
    <3> QED
      BY <1>2, <2>1, <2>4, <2>5, <3>1, <3>2, RouteFacts
  <2>6. CASE DrainStep
    <3> DEFINE h == Head(pending)
    <3>1. h \in 1..Len(log) /\ UNCHANGED <<log, run>> /\ pending # <<>>
      BY <1>2, <2>6, DrainFacts
    <3>2. \A k \in 1..Len(delivered) : delivered[k] < h
      <4>1. h = pending[1] /\ 1 \in 1..Len(pending)
        BY <1>2, <3>1 DEF IInv, TypeOK
      <4> QED
        BY <1>2, <4>1 DEF IInv, Order, Below
    <3>3. \/ Matches(h) /\ Handle(h)
          \/ UNCHANGED <<delivered, output>>
      BY <1>2, <2>6, DrainFacts
    <3> HIDE DEF h
    <3> QED
      BY <2>1, <2>4, <3>1, <3>2, <3>3
  <2>7. CASE PostFails \/ Cancel
    <3>1. UNCHANGED <<log, run, delivered>>
      BY <2>7 DEF PostFails, Cancel, hubVars
    <3>2. (output = "pending" /\ output' = "closed") \/ output' = output
      BY <1>2, <2>7 DEF PostFails, Cancel, Subscribed, IInv, Buffering
    <3> QED
      BY <2>1, <3>1, <3>2 DEF RH!HandleNext, RH!Close, RH!hubVars
  <2>8. CASE Construct \/ OtherSubscribes \/ OtherLeaves \/ PostResolves \/ DrainEnds \/ Connect
             \/ ConnectionLost \/ UNCHANGED vars
    BY <2>1, <2>8 DEF Construct, OtherSubscribes, OtherLeaves, PostResolves, DrainEnds, Connect, ConnectionLost, vars, hubVars, handleVars
  <2>9. ASSUME NEW r \in Readers, ReaderNext(r) \/ Return(r) PROVE UNCHANGED RH!handleVars
    BY <2>1, <2>9 DEF ReaderNext, NextBuffered, NextDone, NextParks, Return, hubVars, handleVars
  <2> QED
    BY <1>2, <2>2, <2>3, <2>5, <2>6, <2>7, <2>8, <2>9 DEF Next, Drain
<1> QED
  BY <1>1, <1>2, Inductive, PTL DEF Spec, ImplementsRunHandle, RH!HandleSpec
=============================================================================
