------------------------------- MODULE RsCalls -------------------------------
(***************************************************************************)
(* Callers of the Rust resource clients, one thing on the server they all  *)
(* ask about, and the network between them: a gateway may refuse a request *)
(* or lose the answer of one the server has carried out.  A caller repeats *)
(* what AkribesError::Transient calls "safe to retry" (error.rs); the SDK  *)
(* itself repeats nothing.                                                 *)
(***************************************************************************)
EXTENDS Requests

CONSTANTS
  Callers,
  MaxRepeats  \* bound: a caller's repetitions of its call

ASSUME MaxRepeatsAssumption == MaxRepeats \in Nat

VARIABLES
  item,   \* server: is the thing there
  calls   \* [Callers -> the call each is at]

callVars == <<item, calls>>

\* did: the server has carried the call out; there: the server found it the last time.
NewCall(row) ==
  [pc |-> "sent", verb |-> row.verb, effect |-> row.effect, repeats |-> 0, did |-> FALSE,
   there |-> TRUE, status |-> Lost, body |-> "json", result |-> Ok("none")]

NoCall == [NewCall(Opt) EXCEPT !.pc = "idle"]

CallsInit == item \in BOOLEAN /\ calls = [c \in Callers |-> NoCall]

Start(c) ==
  /\ calls[c].pc = "idle"
  /\ \E row \in Calls : calls' = [calls EXCEPT ![c] = NewCall(row)]
  /\ UNCHANGED item

Refused(k, status) == [k EXCEPT !.pc = "answered", !.status = status, !.body = "json", !.there = TRUE]

\* Turned away before the server sees it.
Refuse(c) ==
  /\ calls[c].pc = "sent"
  /\ \E status \in {401, 429, Lost} :
       calls' = [calls EXCEPT ![c] = Refused(@, status)]
  /\ UNCHANGED item

\* Something is created unless it is there, the rest wants it there.
Done(effect) == IF effect = "create" THEN ~item ELSE item

Handled(effect) ==
  CASE effect = "create" /\ item -> 409
    [] effect # "create" /\ ~item -> 404
    [] OTHER -> 200

Served(k, status, body) ==
  [k EXCEPT !.pc = "answered", !.status = status, !.body = body, !.there = item,
            !.did = IF Done(k.effect) THEN TRUE ELSE @]

\* The server carries it out; the answer comes back, or 502 or nothing in its place.
Serve(c) ==
  /\ calls[c].pc = "sent"
  /\ LET effect == calls[c].effect IN
     /\ item' = CASE effect = "create" -> TRUE [] effect = "remove" -> FALSE [] OTHER -> item
     /\ \E status \in {Handled(effect), 502, Lost} : \E body \in BodiesOf(status) :
          calls' = [calls EXCEPT ![c] = Served(@, status, body)]

Returned(k, r) == [k EXCEPT !.pc = "done", !.status = Lost, !.body = "json", !.result = r]
Repeated(k) == [k EXCEPT !.pc = "sent", !.status = Lost, !.body = "json", !.repeats = @ + 1]

\* send and the helper around it; a Transient may be repeated.
Return(c) ==
  LET r == ResultOf(calls[c].verb, calls[c].status, calls[c].body)
  IN  /\ calls[c].pc = "answered"
      /\ \/ calls' = [calls EXCEPT ![c] = Returned(@, r)]
         \/ /\ r.error.variant = "Transient" /\ calls[c].repeats < MaxRepeats
            /\ calls' = [calls EXCEPT ![c] = Repeated(@)]
      /\ UNCHANGED item

CallsNext == \E c \in Callers : Start(c) \/ Refuse(c) \/ Serve(c) \/ Return(c)

CallsTypeOK ==
  /\ item \in BOOLEAN
  /\ \A c \in Callers :
       /\ calls[c].pc \in {"idle", "sent", "answered", "done"}
       /\ calls[c].repeats \in 0..MaxRepeats /\ {calls[c].did, calls[c].there} \subseteq BOOLEAN
       /\ calls[c].result.is \in {"none", "default", "true", "false", "unit", "null", "body", "error"}

(***************************************************************************)
(* What an answer says of the server.  "true if deleted, false if already  *)
(* absent (404)" (client.rs): a true is a removal of this very call, so    *)
(* no two callers are told true of one removal; a false, a None, a default *)
(* or a 404 was said of nothing; a body is that of something done.  What   *)
(* was refused for good was not done.  Only a caller that repeated may be  *)
(* told false, 404 or AlreadyExists of what it did itself.  Some answers   *)
(* say nothing, and nothing is claimed of them: the Ok(()) of a set, and   *)
(* of every delete but those of a bench and of an execution, which comes   *)
(* for a 404 too; the Null of post_json_value, an empty 404 or not.        *)
(***************************************************************************)
AnswersAreTrue ==
  \A c \in Callers :
    LET k == calls[c]
        told == k.result
    IN  k.pc = "done" =>
          /\ told.is = "true" => k.did
          /\ told.is \in {"none", "default", "false"} => ~k.there
          /\ told.error.status = 404 => ~k.there
          /\ told.is = "body" => k.did
          /\ (/\ k.repeats = 0
              /\ \/ told.is = "false"
                 \/ told.error.variant \in {"Fatal", "HttpStatus", "AlreadyExists"}) => ~k.did
=============================================================================
