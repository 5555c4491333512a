------------------------------- MODULE RsBench -------------------------------
(***************************************************************************)
(* The live results of a bench run: BenchScope::subscribe_run_events       *)
(* (sub/bench.rs) and the task behind it, stream_bench_run_events          *)
(* (sub/events.rs).  The server, external, keeps a bounded broadcast       *)
(* buffer per subscriber: when it is full the oldest result is lost and    *)
(* counted in the next `lagged` frame; after the last result it sends      *)
(* `terminal` and closes the body.  One connection, no replay, no retry.   *)
(***************************************************************************)
EXTENDS Sequencing

CONSTANTS
  Results,    \* bound: the results of the run
  MaxBuffer,  \* the broadcast buffer
  Odd         \* the results this client cannot decode

\* A broadcast channel holds at least one message.
ASSUME BenchAssumption == Results \in Nat /\ MaxBuffer \in Nat \ {0}

VARIABLES
  run,     \* server: [published, ended]
  feed,    \* server, for this subscriber: [buffer, lagged, from]
  body,    \* the frames under way
  bench,   \* client: "asking", "open", "closed", or "refused"
  got      \* what the receiver was given

benchVars == <<run, feed, body, bench, got>>

BenchFrame(event, n) == [event |-> event, n |-> n]

BenchInit ==
  /\ run = [published |-> 0, ended |-> FALSE]
  /\ feed = [buffer |-> <<>>, lagged |-> 0, from |-> 0]
  /\ body = <<>> /\ bench = "asking" /\ got = <<>>

-----------------------------------------------------------------------------
(* The server. *)

\* Results go to the buffer of a subscriber, and out of it when it is full.
RecordResult ==
  /\ ~run.ended /\ run.published < Results
  /\ run' = [run EXCEPT !.published = @ + 1]
  /\ LET full == Len(feed.buffer) = MaxBuffer
         kept == IF full THEN Tail(feed.buffer) ELSE feed.buffer
     IN  feed' = IF bench # "open" THEN feed
                 ELSE [feed EXCEPT !.buffer = Append(kept, run'.published),
                                   !.lagged = IF full THEN @ + 1 ELSE @]
  /\ UNCHANGED <<body, bench, got>>

RunEnds ==
  /\ ~run.ended
  /\ run' = [run EXCEPT !.ended = TRUE]
  /\ UNCHANGED <<feed, body, bench, got>>

\* Has the server sent its last frame?
Over == \E i \in DOMAIN body : body[i].event \in {"terminal", "broken"}

\* One frame: first what was lost, then the oldest result, at last the end.
Write ==
  /\ bench = "open" /\ ~Over
  /\ \/ feed.lagged > 0 /\ body' = Append(body, BenchFrame("lagged", feed.lagged)) /\ feed' = [feed EXCEPT !.lagged = 0]
     \/ /\ feed.lagged = 0 /\ feed.buffer # <<>>
        /\ body' = Append(body, BenchFrame("result", Head(feed.buffer)))
        /\ feed' = [feed EXCEPT !.buffer = Tail(@)]
     \/ /\ feed.lagged = 0 /\ feed.buffer = <<>> /\ run.ended
        /\ body' = Append(body, BenchFrame("terminal", 0)) /\ feed' = feed
  /\ UNCHANGED <<run, bench, got>>

\* A frame of a later server.
Note ==
  /\ bench = "open" /\ ~Over /\ body = <<>>
  /\ body' = Append(body, BenchFrame("note", 0))
  /\ UNCHANGED <<run, feed, bench, got>>

\* The connection breaks behind what has been written, with nothing to say so.
Break ==
  /\ bench = "open" /\ ~Over
  /\ body' = Append(body, BenchFrame("broken", 0))
  /\ UNCHANGED <<run, feed, bench, got>>

-----------------------------------------------------------------------------
(* The client. *)

\* The answer to the GET; the caller gets its receiver, or the error.
Subscribe ==
  /\ bench = "asking"
  /\ bench' \in {"open", "refused"}
  /\ feed' = [feed EXCEPT !.from = run.published]
  /\ UNCHANGED <<run, body, got>>

\* Mutant of ReadFrame: a result that does not decode ends the stream with the run.
ReadFrameStrictly ==
  /\ bench = "open" /\ body # <<>>
  /\ LET f == Head(body)
         odd == f.event = "result" /\ f.n \in Odd
     IN  /\ got' = CASE f.event = "broken" -> got
                     [] odd -> Append(got, BenchFrame("terminal", 0))
                     [] OTHER -> Append(got, f)
         /\ bench' = IF odd \/ f.event \in {"terminal", "broken"} THEN "closed" ELSE bench
         /\ body' = Tail(body)
  /\ UNCHANGED <<run, feed>>

\* Mutant of ReadFrame: a frame it does not know is passed on.
ReadAnyFrame ==
  /\ bench = "open" /\ body # <<>>
  /\ LET f == Head(body)
         skip == f.event = "broken" \/ (f.event = "result" /\ f.n \in Odd)
     IN  /\ got' = IF skip THEN got ELSE Append(got, f)
         /\ bench' = IF f.event \in {"terminal", "broken"} THEN "closed" ELSE bench
         /\ body' = Tail(body)
  /\ UNCHANGED <<run, feed>>

(***************************************************************************)
(* One frame: a result that does not decode is skipped, and so is a frame  *)
(* of a kind it does not know; the terminal marker, or the end of the      *)
(* body, ends the task and closes the channel.                             *)
(***************************************************************************)
ReadFrame ==
  /\ bench = "open" /\ body # <<>>
  /\ LET f == Head(body)
         skip == f.event \in {"broken", "note"} \/ (f.event = "result" /\ f.n \in Odd)
     IN  /\ got' = IF skip THEN got ELSE Append(got, f)
         /\ bench' = IF f.event \in {"terminal", "broken"} THEN "closed" ELSE bench
         /\ body' = Tail(body)
  /\ UNCHANGED <<run, feed>>

\* The caller drops the subscription: the task is aborted, the channel closed.
Unsubscribe ==
  /\ bench = "open"
  /\ bench' = "closed"
  /\ UNCHANGED <<run, feed, body, got>>

BenchClient == Subscribe \/ ReadFrame
BenchNext == RecordResult \/ RunEnds \/ Write \/ Note \/ Break \/ BenchClient \/ Unsubscribe

-----------------------------------------------------------------------------
BenchTypeOK ==
  /\ run.published \in 0..Results /\ feed.from \in 0..run.published
  /\ Len(feed.buffer) <= MaxBuffer /\ feed.lagged \in 0..Results
  /\ bench \in {"asking", "open", "closed", "refused"}
  /\ \A i \in DOMAIN got : got[i].event \in {"result", "lagged", "terminal"}

GotResults == {got[i].n : i \in {k \in DOMAIN got : got[k].event = "result"}}

\* The results a frame accounts for, and those a sequence of frames does.
Accounts(f) == CASE f.event = "result" -> 1 [] f.event = "lagged" -> f.n [] OTHER -> 0
AccountedIn(frames) == Sum([i \in DOMAIN frames |-> Accounts(frames[i])], Len(frames))

GotTerminal == got # <<>> /\ got[Len(got)].event = "terminal"

(***************************************************************************)
(* "lagged: the broadcast subscriber fell behind and dropped n results ... *)
(* terminal: the run reached a terminal status; the stream ends after this *)
(* frame" (BenchRunEvent).  A receiver that got Terminal got it last, and  *)
(* can account for every result recorded since it subscribed: those it     *)
(* got, in order and once each, those the lagged frames count, and those   *)
(* it could not decode, which nobody tells it about; before that, no more  *)
(* than were recorded.  A channel that closes without Terminal accounts    *)
(* for nothing.                                                            *)
(***************************************************************************)
BenchAccounted ==
  LET sinceThen == (feed.from + 1)..run.published
      odd == Cardinality(Odd \cap sinceThen)
      counted == AccountedIn(got)
  IN  /\ GotResults \subseteq sinceThen \ Odd
      /\ \A i, j \in DOMAIN got :
           /\ (i < j /\ got[i].event = "result" /\ got[j].event = "result") => got[i].n < got[j].n
           /\ i < j => got[i].event # "terminal"
      /\ counted <= run.published - feed.from
      /\ GotTerminal => run.ended /\ bench = "closed"
                       /\ counted \in (run.published - feed.from - odd)..(run.published - feed.from)
=============================================================================
