----------------------- MODULE RsEventPipelineProofs -----------------------
(***************************************************************************)
(* The error tables, a value's way to JSON and back, and an event's way    *)
(* from the engine to its consumer.                                        *)
(*                                                                         *)
(* The inductive invariant of RsEventPipeline has two halves.  LogTrue is  *)
(* about the engine: nothing follows the end of a run, what is counted is  *)
(* what was emitted, and an end carries the sums up to it (Balance).       *)
(* TasksTrue is about everything behind it: where the listener stands      *)
(* (Position), what the queues hold of what it has read and in which order *)
(* (InOrderAlong, Carried), that a task which has ended left nothing in    *)
(* its queue while somebody receives (Endings), and that what was yielded  *)
(* is the typed form of what is at its place in the log (Receipts).        *)
(***************************************************************************)
EXTENDS RsEventPipeline, SequencingProofs

-----------------------------------------------------------------------------
(* The error tables. *)

\* The kinds of a code do not overlap.
LEMMA CodesDisjoint ==
  ASSUME NEW k \in ErrorKind, NEW l \in ErrorKind, NEW c, c \in CodesOf(k), c \in CodesOf(l)
  PROVE  k = l
BY DEF ErrorKind, TransientKinds, ServerErrorKinds, UserActionableKinds, CodesOf, InternalCodes, ScriptCodes

\* "Each code maps to exactly one ErrorKind" (ErrorCode::kind), and the code
\* from_kind picks for a kind leads back to it.
THEOREM CodesRollUp ==
  /\ \A k \in ErrorKind : \A c \in CodesOf(k) : KindOf(c) = k
  /\ \A k \in ErrorKind : CodeOfKind(k) \in ErrorCode /\ KindOf(CodeOfKind(k)) = k
<1>1. ASSUME NEW k \in ErrorKind, NEW c \in CodesOf(k)
      PROVE  KindOf(c) = k
  <2>1. \E l \in ErrorKind : c \in CodesOf(l)
    OBVIOUS
  <2>2. KindOf(c) \in ErrorKind /\ c \in CodesOf(KindOf(c))
    BY <2>1 DEF KindOf
  <2> QED
    BY <2>2, CodesDisjoint
<1>2. ASSUME NEW k \in ErrorKind
      PROVE  CodeOfKind(k) \in CodesOf(k)
  BY DEF ErrorKind, TransientKinds, ServerErrorKinds, UserActionableKinds, CodesOf, CodeOfKind,
         InternalCodes, ScriptCodes
<1> QED
  BY <1>1, <1>2 DEF ErrorCode

\* The three advices on a kind agree: it is transient exactly when it has a
\* backoff and exactly when the suggestion is to retry; a server error is
\* transient, and what only the user can repair is not.
THEOREM AdviceAgrees ==
  \A k \in ErrorKind :
    /\ is_transient(k) <=> base_backoff_ms(k) > 0
    /\ is_transient(k) <=> suggested_action(k) = "Retry"
    /\ suggested_action(k) \in SuggestedAction
    /\ is_server_error(k) => is_transient(k)
    /\ is_user_actionable(k) => ~is_transient(k)
BY DEF ErrorKind, TransientKinds, ServerErrorKinds, UserActionableKinds, is_transient, is_server_error,
       is_user_actionable, base_backoff_ms, suggested_action, SuggestedAction

\* An execution's recorded kind reaches the caller of await_execution as the
\* engine meant it: Transient for the transient kinds and no other but the
\* legacy "ServerError", with a status that asks for the kind's own backoff.
THEOREM ExecutionErrorsKeepTheirKind ==
  ASSUME NEW k \in ErrorKind \cup {"ServerError", NoneOpt}, NEW eid
  PROVE  /\ ExecutionError(k, eid).variant = "Transient" <=> is_transient(k) \/ k = "ServerError"
         /\ ExecutionError(k, eid).variant = "Fatal" => is_user_actionable(k)
         /\ ExecutionError(k, eid).eid = eid
         /\ StatusOfKind(k) # NoStatus => recommended_backoff_ms(StatusOfKind(k)) = base_backoff_ms(k)
BY DEF ErrorKind, TransientKinds, ServerErrorKinds, UserActionableKinds, is_transient, is_user_actionable,
       ExecutionError, StatusOfKind, SdkError, NoStatus, NoneOpt, base_backoff_ms, recommended_backoff_ms

\* A detail is retryable exactly when its kind is transient, whether it was made
\* from a code or from a kind with the hint a provider's message may hold:
\* from_kind keeps a hint for the transient kinds only.
THEOREM RetryableIsTransient ==
  /\ \A k \in ErrorKind : \A hint : is_retryable(FromKind(k, hint)) <=> is_transient(k)
  /\ \A c \in ErrorCode : is_retryable(NewDetail(c)) <=> is_transient(KindOf(c))
BY DEF is_retryable, FromKind, NewDetail, ErrorDetail, is_transient

\* A fatal value gives back what it was made of: the kind it was given, the code
\* it was given when that is one of the catalogue and Other when it is not
\* (fatal_with_code), and from a kind alone a code of that kind.
THEOREM FatalKeepsItsDetail ==
  ASSUME NEW k \in ErrorKind, NEW c, NEW hint
  PROVE  /\ as_fatal_detail(FatalWithCode(k, c)).kind = k
         /\ as_fatal_detail(FatalWithCode(k, c)).code = (IF c \in ErrorCode THEN c ELSE "Other")
         /\ KindOf(as_fatal_detail(FatalKind(k, hint)).code) = k
<1>1. PICK known : known = IF c \in ErrorCode THEN c ELSE "Other"
  OBVIOUS
<1>2. as_fatal_detail(FatalWithCode(k, c)) = [NewDetail(known) EXCEPT !.kind = k]
  BY <1>1 DEF as_fatal_detail, FatalWithCode, Fatal, Value
<1>3. /\ as_fatal_detail(FatalWithCode(k, c)).kind = k
      /\ as_fatal_detail(FatalWithCode(k, c)).code = known
  BY <1>2 DEF NewDetail, ErrorDetail
<1>4. as_fatal_detail(FatalKind(k, hint)).code = CodeOfKind(k)
  BY DEF as_fatal_detail, FatalKind, Fatal, Value, FromKind, ErrorDetail
<1> QED
  BY <1>1, <1>3, <1>4, CodesRollUp

-----------------------------------------------------------------------------
(* What a value's way to JSON and back keeps. *)

\* A secret at the first, the second and the third level.
LEMMA SecretsAtOne ==
  ASSUME NEW x
  PROVE  ToJson1(Redacted1(x)) = ToJson1(x)
<1>1. CASE x.t = "Secret"
  <2>1. Redacted1(x) = Value("Secret", "blank")
    BY <1>1 DEF Redacted1, NodeRedacted
  <2>2. Redacted1(x).t = "Secret"
    BY <2>1 DEF Value
  <2> QED
    BY <1>1, <2>2 DEF ToJson1, NodeToJson
<1>2. CASE x.t \in {"List", "Object"}
  <2>1. Redacted1(x) = Value(x.t, [k \in DOMAIN x.v |-> Cut(x.v[k])])
    BY <1>2 DEF Redacted1, NodeRedacted
  <2> QED
    BY <1>2, <2>1 DEF ToJson1, NodeToJson, Value, Cut
<1>3. CASE x.t = "Union"
  <2>1. Redacted1(x) = Value("Union", [variant |-> x.v.variant, payload |-> Cut(x.v.payload)])
    BY <1>3 DEF Redacted1, NodeRedacted
  <2>2. Redacted1(x).t = "Union" /\ Redacted1(x).v.variant = x.v.variant
    BY <2>1 DEF Value
  <2> QED
    BY <1>3, <2>2 DEF ToJson1, NodeToJson, Cut
<1>4. CASE x.t \notin {"Secret", "List", "Object", "Union"}
  BY <1>4 DEF Redacted1, NodeRedacted
<1> QED
  BY <1>1, <1>2, <1>3, <1>4

LEMMA SecretsAtTwo ==
  ASSUME NEW x
  PROVE  ToJson2(Redacted2(x)) = ToJson2(x)
<1>1. CASE x.t = "Secret"
  <2>1. Redacted2(x) = Value("Secret", "blank")
    BY <1>1 DEF Redacted2, NodeRedacted
  <2>2. Redacted2(x).t = "Secret"
    BY <2>1 DEF Value
  <2> QED
    BY <1>1, <2>2 DEF ToJson2, NodeToJson
<1>2. CASE x.t \in {"List", "Object"}
  <2> DEFINE f == [k \in DOMAIN x.v |-> Redacted1(x.v[k])]
  <2>1. Redacted2(x) = Value(x.t, f)
    BY <1>2 DEF Redacted2, NodeRedacted
  <2>2. Redacted2(x).t = x.t /\ Redacted2(x).v = f
    BY <2>1 DEF Value
  <2>3. [k \in DOMAIN f |-> ToJson1(f[k])] = [k \in DOMAIN x.v |-> ToJson1(x.v[k])]
    BY SecretsAtOne
  <2> QED
    BY <1>2, <2>2, <2>3 DEF ToJson2, NodeToJson
<1>3. CASE x.t = "Union"
  <2>1. Redacted2(x) = Value("Union", [variant |-> x.v.variant, payload |-> Redacted1(x.v.payload)])
    BY <1>3 DEF Redacted2, NodeRedacted
  <2>2. /\ Redacted2(x).t = "Union" /\ Redacted2(x).v.variant = x.v.variant
        /\ Redacted2(x).v.payload = Redacted1(x.v.payload)
    BY <2>1 DEF Value
  <2> QED
    BY <1>3, <2>2, SecretsAtOne DEF ToJson2, NodeToJson
<1>4. CASE x.t \notin {"Secret", "List", "Object", "Union"}
  BY <1>4 DEF Redacted2, NodeRedacted
<1> QED
  BY <1>1, <1>2, <1>3, <1>4

\* A value's JSON does not depend on its secrets, wherever in it they are.
THEOREM SecretsStayIn == \A x : to_json(Redacted(x)) = to_json(x)
<1> SUFFICES ASSUME NEW x PROVE to_json(Redacted(x)) = to_json(x)
  OBVIOUS
<1>1. CASE x.t = "Secret"
  <2>1. Redacted(x) = Value("Secret", "blank")
    BY <1>1 DEF Redacted, NodeRedacted
  <2>2. Redacted(x).t = "Secret"
    BY <2>1 DEF Value
  <2> QED
    BY <1>1, <2>2 DEF to_json, NodeToJson
<1>2. CASE x.t \in {"List", "Object"}
  <2> DEFINE f == [k \in DOMAIN x.v |-> Redacted2(x.v[k])]
  <2>1. Redacted(x) = Value(x.t, f)
    BY <1>2 DEF Redacted, NodeRedacted
  <2>2. Redacted(x).t = x.t /\ Redacted(x).v = f
    BY <2>1 DEF Value
  <2>3. [k \in DOMAIN f |-> ToJson2(f[k])] = [k \in DOMAIN x.v |-> ToJson2(x.v[k])]
    BY SecretsAtTwo
  <2> QED
    BY <1>2, <2>2, <2>3 DEF to_json, NodeToJson
<1>3. CASE x.t = "Union"
  <2>1. Redacted(x) = Value("Union", [variant |-> x.v.variant, payload |-> Redacted2(x.v.payload)])
    BY <1>3 DEF Redacted, NodeRedacted
  <2>2. /\ Redacted(x).t = "Union" /\ Redacted(x).v.variant = x.v.variant
        /\ Redacted(x).v.payload = Redacted2(x.v.payload)
    BY <2>1 DEF Value
  <2> QED
    BY <1>3, <2>2, SecretsAtTwo DEF to_json, NodeToJson
<1>4. CASE x.t \notin {"Secret", "List", "Object", "Union"}
  BY <1>4 DEF Redacted, NodeRedacted
<1> QED
  BY <1>1, <1>2, <1>3, <1>4

\* JSON read as a value is written as the JSON it was, level by level.
LEMMA ScalarTrip ==
  ASSUME NEW j, Scalar(j)
  PROVE  ToJson1(FromJson1(j)) = j /\ ToJson2(FromJson2(j)) = j /\ to_json(from_json(j)) = j
<1>1. j = Json(j.t, j.v) /\ j.t \in {"string", "integer", "float", "bool", "null"}
  BY DEF Scalar
<1> DEFINE t == CASE j.t = "string" -> "String" [] j.t = "integer" -> "Int" [] j.t = "float" -> "Decimal"
                  [] j.t = "bool" -> "Bool" [] j.t = "null" -> "Null"
           x == Value(t, j.v)
<1>2. j.t = "null" => j.v = "null"
  BY DEF Scalar, JsonNull, Json
<1>3. FromJson1(j) = x /\ FromJson2(j) = x /\ from_json(j) = x
  <2>1. FromJson1(j) = x
    BY <1>1, <1>2 DEF FromJson1, NodeFromJson
  <2>2. FromJson2(j) = x
    BY <1>1, <1>2 DEF FromJson2, NodeFromJson
  <2>3. from_json(j) = x
    BY <1>1, <1>2 DEF from_json, NodeFromJson
  <2> QED
    BY <2>1, <2>2, <2>3
<1>4. x.t = t /\ x.v = j.v
  BY DEF Value
<1> DEFINE json == CASE t = "String" -> Str(j.v) [] t = "Int" -> Json("integer", j.v)
                     [] t = "Decimal" -> Json("float", j.v) [] t = "Bool" -> Json("bool", j.v)
                     [] t = "Null" -> JsonNull
<1>5. t = "Decimal" => j.v \notin {"NaN", "inf", "-inf"}
  BY <1>1 DEF Scalar
<1>6. t \in {"String", "Int", "Decimal", "Bool", "Null"}
  BY <1>1
<1>7. json = j
  BY <1>1, <1>2 DEF Str, JsonNull
<1> HIDE DEF x, t
<1>8. ToJson1(x) = json /\ ToJson2(x) = json /\ to_json(x) = json
  <2>1. ToJson1(x) = json
    BY <1>4, <1>5, <1>6 DEF ToJson1, NodeToJson
  <2>2. ToJson2(x) = json
    BY <1>4, <1>5, <1>6 DEF ToJson2, NodeToJson
  <2>3. to_json(x) = json
    BY <1>4, <1>5, <1>6 DEF to_json, NodeToJson
  <2> QED
    BY <2>1, <2>2, <2>3
<1> QED
  BY <1>3, <1>7, <1>8

LEMMA ShallowTrip1 ==
  ASSUME NEW j, Shallow1(j)
  PROVE  ToJson2(FromJson2(j)) = j
<1>1. CASE Scalar(j)
  BY <1>1, ScalarTrip
<1>2. CASE Container(Scalar, j)
  <2>1. /\ j = Json(j.t, j.v) /\ j.t \in {"array", "object"} /\ j.v = [k \in DOMAIN j.v |-> j.v[k]]
        /\ \A k \in DOMAIN j.v : Scalar(j.v[k])
    BY <1>2 DEF Container
  <2> DEFINE f == [k \in DOMAIN j.v |-> FromJson1(j.v[k])]
             t == IF j.t = "array" THEN "List" ELSE "Object"
  <2>2. FromJson2(j) = Value(t, f)
    BY <2>1 DEF FromJson2, NodeFromJson
  <2>3. FromJson2(j).t = t /\ FromJson2(j).v = f
    BY <2>2 DEF Value
  <2>4. [k \in DOMAIN f |-> ToJson1(f[k])] = j.v
    <3>1. \A k \in DOMAIN j.v : ToJson1(FromJson1(j.v[k])) = j.v[k]
      BY <2>1, ScalarTrip
    <3>2. [k \in DOMAIN f |-> ToJson1(f[k])] = [k \in DOMAIN j.v |-> j.v[k]]
      BY <3>1
    <3> QED
      BY <2>1, <3>2
  <2>5. ToJson2(FromJson2(j)) = Json(j.t, [k \in DOMAIN f |-> ToJson1(f[k])])
    BY <2>1, <2>3 DEF ToJson2, NodeToJson
  <2> QED
    BY <2>1, <2>4, <2>5, Zenon
<1> QED
  BY <1>1, <1>2 DEF Shallow1

\* The whole conversion, both ways.
LEMMA ShallowTrip ==
  ASSUME NEW j, Shallow(j)
  PROVE  to_json(from_json(j)) = j
<1>1. CASE Scalar(j)
  BY <1>1, ScalarTrip
<1>2. CASE Container(Shallow1, j)
  <2>1. /\ j = Json(j.t, j.v) /\ j.t \in {"array", "object"} /\ j.v = [k \in DOMAIN j.v |-> j.v[k]]
        /\ \A k \in DOMAIN j.v : Shallow1(j.v[k])
    BY <1>2 DEF Container
  <2> DEFINE f == [k \in DOMAIN j.v |-> FromJson2(j.v[k])]
             t == IF j.t = "array" THEN "List" ELSE "Object"
  <2>2. from_json(j) = Value(t, f)
    BY <2>1 DEF from_json, NodeFromJson
  <2>3. from_json(j).t = t /\ from_json(j).v = f
    BY <2>2 DEF Value
  <2>4. [k \in DOMAIN f |-> ToJson2(f[k])] = j.v
    <3>1. \A k \in DOMAIN j.v : ToJson2(FromJson2(j.v[k])) = j.v[k]
      BY <2>1, ShallowTrip1
    <3>2. [k \in DOMAIN f |-> ToJson2(f[k])] = [k \in DOMAIN j.v |-> j.v[k]]
      BY <3>1
    <3> QED
      BY <2>1, <3>2
  <2>5. to_json(from_json(j)) = Json(j.t, [k \in DOMAIN f |-> ToJson2(f[k])])
    BY <2>1, <2>3 DEF to_json, NodeToJson
  <2> QED
    BY <2>1, <2>4, <2>5, Zenon
<1> QED
  BY <1>1, <1>2 DEF Shallow

\* A union's JSON is told from its tag.
LEMMA UnionsAreLifted ==
  ASSUME NEW x, x.t = "Union"
  PROVE  LiftUnion(to_json(x), {x.v.variant}).v.variant = x.v.variant
<1> DEFINE j == to_json(x)
<1>1. PICK payload : payload = ToJson2(x.v.payload)
  OBVIOUS
<1>2. PICK fields : fields = IF payload.t = "object" THEN payload.v ELSE [payload |-> payload]
  OBVIOUS
<1>3. j = Json("object", [f \in DOMAIN fields \cup {"kind"} |->
                            IF f = "kind" THEN Str(x.v.variant) ELSE fields[f]])
  BY <1>1, <1>2 DEF to_json, NodeToJson, UnionToJson
<1>4. j.t = "object" /\ "kind" \in DOMAIN j.v /\ j.v["kind"] = Str(x.v.variant)
  BY <1>3 DEF Json
<1>5. Str(x.v.variant).v = x.v.variant
  BY DEF Str, Json
<1> HIDE DEF j
<1>6. LiftUnion(j, {x.v.variant}).v.variant = j.v["kind"].v
  BY <1>4 DEF LiftUnion, Value
<1> QED
  BY <1>4, <1>5, <1>6 DEF j

\* The new shape of an end is read as what was written.
LEMMA EndIsRead ==
  ASSUME NEW value, NEW sums, sums = [d \in TotalDims |-> sums[d]]
  PROVE  /\ EndFromJson(EndToJson(value, sums)).value = from_json(to_json(value))
         /\ EndFromJson(EndToJson(value, sums)).totals = sums
<1> DEFINE v == to_json(value)
           obj == [f \in {"value"} \cup TotalDims |-> IF f = "value" THEN v ELSE TotalsToJson(sums)[f]]
           j == EndToJson(value, sums)
<1>1. "value" \notin TotalDims /\ "tasks" \in TotalDims
  BY DEF TotalDims, TokenDims
<1> HIDE DEF v
<1>2. /\ DOMAIN obj = {"value"} \cup TotalDims /\ obj["value"] = v
      /\ \A d \in TotalDims : obj[d] = Json("integer", sums[d])
  BY <1>1 DEF TotalsToJson
<1> HIDE DEF obj
<1>3. j = Json("object", obj)
  BY DEF EndToJson, obj, v
<1>4. j.t = "object" /\ j.v = obj
  BY <1>3 DEF Json
<1> HIDE DEF j
<1>5. LooksNew(j)
  BY <1>1, <1>2, <1>4 DEF LooksNew
<1>6. \A d \in TotalDims : d \in DOMAIN j.v /\ j.v[d].t = "integer" /\ j.v[d].v = sums[d]
  BY <1>2, <1>4 DEF Json
<1>7. EndFromJson(j) = [value |-> from_json(j.v["value"]),
                        totals |-> [d \in TotalDims |->
                                      IF d \in DOMAIN j.v /\ j.v[d].t = "integer" THEN j.v[d].v ELSE 0]]
  BY <1>5 DEF EndFromJson
<1>8. [d \in TotalDims |-> IF d \in DOMAIN j.v /\ j.v[d].t = "integer" THEN j.v[d].v ELSE 0] = sums
  BY <1>6
<1> QED
  BY <1>2, <1>4, <1>7, <1>8 DEF j, v

-----------------------------------------------------------------------------
(* Sub-script envelopes. *)

Levels(g, env) ==
  g = [i \in 1..Len(env) |-> IF i = 1 THEN env[1] ELSE Inward(g[i - 1], env[i])]

\* A walk down a chain of envelopes is the walk.
LEMMA InnermostIs ==
  ASSUME NEW env, Len(env) \in Nat \ {0}, NEW g, Levels(g, env)
  PROVE  Innermost(env) = g[Len(env)]
<1> DEFINE h == CHOOSE f : f = [i \in 1..Len(env) |-> IF i = 1 THEN env[1] ELSE Inward(f[i - 1], env[i])]
<1>1. \E f : f = [i \in 1..Len(env) |-> IF i = 1 THEN env[1] ELSE Inward(f[i - 1], env[i])]
  BY DEF Levels
<1>2. h = [i \in 1..Len(env) |-> IF i = 1 THEN env[1] ELSE Inward(h[i - 1], env[i])]
  BY <1>1
<1>3. Innermost(env) = h[Len(env)]
  BY DEF Innermost
<1> HIDE DEF h
<1>4. PICK n \in Nat \ {0} : n = Len(env)
  OBVIOUS
<1>5. \A i \in 1..n : g[i] = IF i = 1 THEN env[1] ELSE Inward(g[i - 1], env[i])
  BY <1>4 DEF Levels
<1>6. \A i \in 1..n : h[i] = IF i = 1 THEN env[1] ELSE Inward(h[i - 1], env[i])
  BY <1>2, <1>4
<1> DEFINE S == {i \in Nat : i < n => g[i + 1] = h[i + 1]}
<1>7. 0 \in S
  BY <1>4, <1>5, <1>6
<1>8. ASSUME NEW i \in S
      PROVE  i + 1 \in S
  <2> SUFFICES ASSUME i + 1 < n PROVE g[i + 1 + 1] = h[i + 1 + 1]
    OBVIOUS
  <2>1. PICK k \in 1..n : k = i + 1 + 1 /\ k # 1 /\ k - 1 = i + 1
    BY <1>4
  <2>2. g[k - 1] = h[k - 1]
    BY <1>4, <2>1
  <2>3. g[k] = Inward(g[k - 1], env[k]) /\ h[k] = Inward(h[k - 1], env[k])
    BY <1>5, <1>6, <2>1
  <2> QED
    BY <2>1, <2>2, <2>3
<1>9. S = Nat
  <2> HIDE DEF S
  <2>1. S \in SUBSET Nat
    BY DEF S
  <2> QED
    BY <1>7, <1>8, <2>1, SetInduction
<1>10. g[n] = h[n]
  <2>1. n - 1 \in S /\ n - 1 < n /\ (n - 1) + 1 = n
    BY <1>4, <1>9
  <2> QED
    BY <2>1
<1> QED
  BY <1>3, <1>4, <1>10

\* Nested envelopes lead to the last frame, with those before it as its path.
LEMMA NestedChain ==
  ASSUME NEW frames \in Seq(STRING), frames # <<>>
  PROVE  LET env == [i \in DOMAIN frames |-> [own |-> frames[i], path |-> <<>>]]
         IN  Innermost(env) = [own |-> Last(frames), path |-> Front(frames)]
<1> DEFINE env == [i \in DOMAIN frames |-> [own |-> frames[i], path |-> <<>>]]
           g == [i \in 1..Len(frames) |-> [own |-> frames[i], path |-> SubSeq(frames, 1, i - 1)]]
<1>1. PICK n \in Nat \ {0} : n = Len(frames)
  OBVIOUS
<1>2. DOMAIN frames = 1..n
  BY <1>1
<1>3. env \in Seq([own : STRING, path : {<<>>}]) /\ Len(env) = n
  BY <1>1, <1>2
<1>4. \A i \in 1..n : env[i].own = frames[i] /\ env[i].path = <<>>
  BY <1>2
<1>5. \A i \in 1..n : g[i] = [own |-> frames[i], path |-> SubSeq(frames, 1, i - 1)]
  BY <1>1
<1>6. g = [i \in 1..n |-> g[i]]
  BY <1>1
<1>7. env[1] = g[1]
  <2>1. SubSeq(frames, 1, 0) = <<>> /\ 1 \in 1..n /\ 1 - 1 = 0
    OBVIOUS
  <2> QED
    BY <1>2, <1>5, <2>1
<1>8. ASSUME NEW i \in 1..n, i # 1
      PROVE  g[i] = Inward(g[i - 1], env[i])
  <2>1. i - 1 \in 1..n /\ i \in Nat /\ i <= Len(frames) /\ i - 1 \in Nat
    BY <1>1, <1>8
  <2>2. g[i - 1].own = frames[i - 1] /\ g[i - 1].path = SubSeq(frames, 1, i - 2)
    BY <1>5, <2>1
  <2> DEFINE p == SubSeq(frames, 1, i - 2)
  <2>3. p \in Seq(STRING) /\ Len(p) = i - 2 /\ \A k \in 1..(i - 2) : p[k] = frames[k]
    BY <1>1, <2>1
  <2>4. p \o <<>> = p
    BY <2>3, ConcatEmptySeq
  <2>5. Append(p, frames[i - 1]) = SubSeq(frames, 1, i - 1)
    BY <1>1, <2>1, <2>3
  <2> HIDE DEF g, env
  <2>6. Inward(g[i - 1], env[i]) = [own |-> frames[i], path |-> Append(p, frames[i - 1])]
    BY <1>4, <2>2, <2>4 DEF Inward
  <2> QED
    BY <1>5, <2>5, <2>6
<1>9. Levels(g, env)
  <2> HIDE DEF g, env
  <2> QED
    BY <1>3, <1>6, <1>7, <1>8 DEF Levels
<1>10. Innermost(env) = g[n]
  <2> HIDE DEF g, env
  <2> QED
    BY <1>3, <1>9, InnermostIs
<1>11. g[n] = [own |-> Last(frames), path |-> Front(frames)]
  <2>1. n \in 1..n
    BY <1>1
  <2> HIDE DEF g
  <2> QED
    BY <1>1, <1>5, <2>1 DEF Last, Front
<1> QED
  BY <1>10, <1>11

LEMMA SingleChain ==
  ASSUME NEW x
  PROVE  Innermost(<<x>>) = x
<1>1. Levels([i \in 1..1 |-> x], <<x>>)
  BY DEF Levels
<1> QED
  BY <1>1, InnermostIs

LEMMA LastOfFrames ==
  ASSUME NEW frames \in Seq(STRING), frames # <<>>
  PROVE  Append(Front(frames), Last(frames)) = frames
BY DEF Front, Last

\* Whatever way the envelopes are written, the decoder finds the frames.
LEMMA FramesFound ==
  ASSUME NEW e, e.frames \in Seq(STRING), NEW t
  PROVE  LET flat == flatten_subscript_chain(ToWire(e, t))
         IN  /\ flat.leaf = ToWire(e, t).leaf
             /\ flat.env = <<>> <=> e.frames = <<>>
             /\ e.frames # <<>> => Append(flat.env[1].path, flat.env[1].own) = e.frames
<1> DEFINE wire == ToWire(e, t)
           flat == flatten_subscript_chain(wire)
           Found == /\ flat.leaf = wire.leaf
                    /\ flat.env = <<>> <=> e.frames = <<>>
                    /\ e.frames # <<>> => Append(flat.env[1].path, flat.env[1].own) = e.frames
<1>1. wire.env = Envelopes(e.frames, e.nested) /\ DOMAIN wire = {"env", "leaf"}
      /\ wire = [env |-> wire.env, leaf |-> wire.leaf]
  BY DEF ToWire
<1>2. ASSUME e.frames = <<>>
      PROVE  Found
  <2>1. wire.env = <<>>
    BY <1>1, <1>2 DEF Envelopes
  <2> HIDE DEF wire
  <2> QED
    BY <1>2, <2>1 DEF flatten_subscript_chain
<1>3. ASSUME e.frames # <<>>
      PROVE  Found
  <2> DEFINE inner == [own |-> Last(e.frames), path |-> Front(e.frames)]
  <2>1. wire.env # <<>> /\ Innermost(wire.env) = inner
    <3>1. CASE e.nested
      <4>1. wire.env = [i \in DOMAIN e.frames |-> [own |-> e.frames[i], path |-> <<>>]]
        BY <1>1, <1>3, <3>1 DEF Envelopes
      <4>2. wire.env # <<>>
        BY <1>3, <4>1
      <4> QED
        BY <1>3, <4>1, <4>2, NestedChain
    <3>2. CASE ~e.nested
      <4>1. wire.env = <<inner>>
        BY <1>1, <1>3, <3>2 DEF Envelopes
      <4> HIDE DEF inner, wire
      <4> QED
        BY <4>1, SingleChain
    <3> QED
      BY <3>1, <3>2
  <2> HIDE DEF wire
  <2>2. flat = [env |-> <<Innermost(wire.env)>>, leaf |-> wire.leaf]
    BY <1>1, <2>1 DEF flatten_subscript_chain
  <2>3. flat.env = <<inner>> /\ flat.leaf = wire.leaf
    BY <2>1, <2>2
  <2>4. flat.env[1].path = Front(e.frames) /\ flat.env[1].own = Last(e.frames)
    BY <2>3
  <2> QED
    BY <1>3, <2>3, <2>4, LastOfFrames
<1> QED
  BY <1>2, <1>3

-----------------------------------------------------------------------------
(* What becomes of an event on its way. *)

WaitTypes == {"Suspended", "ToolApprovalPending", "Breakpoint"}

\* The arm of an engine event says whether it ends a run and whether it waits.
LEMMA LeafKeepsItsKind ==
  ASSUME NEW leaf
  PROVE  /\ ProjectLeaf(leaf).path = <<>>
         /\ ProjectLeaf(leaf).arm \in DOMAIN EventCategory
         /\ is_terminal(ProjectLeaf(leaf)) <=> IsEnd(leaf.type)
         /\ category(ProjectLeaf(leaf)) = "Suspend" <=> leaf.type \in WaitTypes
<1> DEFINE w == ProjectLeaf(leaf)
<1>1. DOMAIN ArmOf = {"WorkflowStart", "WorkflowEnd", "TaskStart", "TaskEnd", "AgentOutput", "ToolCallStart",
                      "ToolCallEnd", "Suspended", "ToolApprovalPending", "Breakpoint", "Error",
                      "ValidationFailure"}
  BY DEF ArmOf
<1>2. w.path = <<>> /\ w.arm = IF leaf.type \in DOMAIN ArmOf THEN ArmOf[leaf.type] ELSE "Other"
  BY DEF ProjectLeaf, WorkflowEvent
<1> HIDE DEF w
<1>3. /\ w.arm \in DOMAIN EventCategory
      /\ w.arm \in {"End", "Error"} <=> IsEnd(leaf.type)
      /\ EventCategory[w.arm] = "Suspend" <=> leaf.type \in WaitTypes
  <2>1. CASE leaf.type \in DOMAIN ArmOf
    <3>1. CASE leaf.type \in {"WorkflowEnd", "Error"}
      BY <1>2, <2>1, <3>1 DEF ArmOf, EventCategory, IsEnd, WaitTypes
    <3>2. CASE leaf.type \in WaitTypes
      BY <1>2, <2>1, <3>2 DEF ArmOf, EventCategory, IsEnd, WaitTypes
    <3>3. CASE leaf.type \in {"WorkflowStart", "TaskStart", "TaskEnd", "AgentOutput", "ToolCallStart",
                              "ToolCallEnd", "ValidationFailure"}
      BY <1>2, <2>1, <3>3 DEF ArmOf, EventCategory, IsEnd, WaitTypes
    <3> QED
      BY <1>1, <2>1, <3>1, <3>2, <3>3 DEF WaitTypes
  <2>2. CASE leaf.type \notin DOMAIN ArmOf
    BY <1>1, <1>2, <2>2 DEF EventCategory, IsEnd, WaitTypes
  <2> QED
    BY <2>1, <2>2
<1> QED
  BY <1>2, <1>3 DEF w, is_terminal, category

\* And so for the typed event, by either decoder: see EventsKeepTheirPlace.
LEMMA PlaceKept ==
  ASSUME NEW e, e.frames \in Seq(STRING), NEW t
  PROVE  LET w == FromEngineEvent(ToWire(e, t))
             raw == FromEnvelopeJson(ToWire(e, t))
         IN  /\ w.arm \in DOMAIN EventCategory
             /\ is_terminal(w) <=> IsEnd(e.type) /\ e.frames = <<>>
             /\ category(w) = "Suspend" <=> Waits(e)
             /\ w.path = e.frames
             /\ is_terminal(raw) <=> is_terminal(w)
             /\ raw.path = w.path
<1> DEFINE wire == ToWire(e, t)
           flat == flatten_subscript_chain(wire)
           w == FromEngineEvent(wire)
           raw == FromEnvelopeJson(wire)
           Kept == /\ w.arm \in DOMAIN EventCategory
                   /\ is_terminal(w) <=> IsEnd(e.type) /\ e.frames = <<>>
                   /\ category(w) = "Suspend" <=> Waits(e)
                   /\ w.path = e.frames
           RawKept == (is_terminal(raw) <=> is_terminal(w)) /\ raw.path = w.path
<1>1. /\ flat.leaf = wire.leaf
      /\ flat.env = <<>> <=> e.frames = <<>>
      /\ e.frames # <<>> => Append(flat.env[1].path, flat.env[1].own) = e.frames
  BY FramesFound
<1>2. wire.leaf.type = e.type /\ (wire.env = <<>> <=> e.frames = <<>>)
  <2>1. wire.leaf.type = e.type /\ wire.env = Envelopes(e.frames, e.nested)
    BY DEF ToWire
  <2>2. Envelopes(e.frames, e.nested) = <<>> <=> e.frames = <<>>
    <3>1. CASE e.frames = <<>>
      BY <3>1 DEF Envelopes
    <3>2. CASE e.frames # <<>> /\ e.nested
      <4>1. DOMAIN Envelopes(e.frames, e.nested) = DOMAIN e.frames
        BY <3>2 DEF Envelopes
      <4>2. 1 \in DOMAIN e.frames /\ 1 \notin DOMAIN <<>>
        BY <3>2
      <4> QED
        BY <3>2, <4>1, <4>2
    <3>3. CASE e.frames # <<>> /\ ~e.nested
      BY <3>3 DEF Envelopes
    <3> QED
      BY <3>1, <3>2, <3>3
  <2> QED
    BY <2>1, <2>2
<1>3. w = IF flat.env = <<>> THEN ProjectLeaf(flat.leaf)
          ELSE WorkflowEvent("Other", "SubScript", flat.leaf, Append(flat.env[1].path, flat.env[1].own))
  BY DEF FromEngineEvent
<1>4. raw = IF wire.env = <<>> /\ wire.leaf.type \in RuntimeArms
            THEN WorkflowEvent(wire.leaf.type,
                               IF wire.leaf.type = "RuntimeError" THEN RuntimeErrorKind(wire.leaf.tag) ELSE "",
                               wire.leaf.data, <<>>)
            ELSE w
  BY DEF FromEnvelopeJson
<1> HIDE DEF wire, flat, w, raw
<1>5. Kept
  <2>1. CASE e.frames = <<>>
    <3>1. w = ProjectLeaf(wire.leaf)
      BY <1>1, <1>3, <2>1
    <3> QED
      BY <1>2, <2>1, <3>1, LeafKeepsItsKind DEF Waits, WaitTypes
  <2>2. CASE e.frames # <<>>
    <3>1. w.arm = "Other" /\ w.path = e.frames
      <4>1. PICK frames : frames = Append(flat.env[1].path, flat.env[1].own) /\ frames = e.frames
        BY <1>1, <2>2
      <4>2. w = WorkflowEvent("Other", "SubScript", flat.leaf, frames)
        BY <1>1, <1>3, <2>2, <4>1
      <4> QED
        BY <4>1, <4>2 DEF WorkflowEvent
    <3> QED
      BY <2>2, <3>1 DEF EventCategory, is_terminal, category, Waits
  <2> QED
    BY <2>1, <2>2
<1>6. RawKept
  <2>1. CASE e.frames = <<>> /\ e.type \in RuntimeArms
    <3>1. raw.arm = e.type /\ raw.path = <<>>
      BY <1>2, <1>4, <2>1 DEF WorkflowEvent
    <3>2. e.type \notin {"End", "Error", "WorkflowEnd"}
      BY <2>1 DEF RuntimeArms
    <3> QED
      BY <1>5, <2>1, <3>1, <3>2 DEF is_terminal, IsEnd
  <2>2. CASE ~(e.frames = <<>> /\ e.type \in RuntimeArms)
    <3>1. raw = w
      BY <1>2, <1>4, <2>2
    <3> QED
      BY <3>1
  <2> QED
    BY <2>1, <2>2
<1> QED
  BY <1>5, <1>6 DEF wire, w, raw

-----------------------------------------------------------------------------
(* The inductive invariant. *)

Emission == UNION {{Emissions[n][k] : k \in DOMAIN Emissions[n]} : n \in 1..Len(Emissions)}
Counts == [TotalDims -> 0..MaxCount]
Published == {[means |-> e, wire |-> ToWire(e, t)] : e \in Emission, t \in Counts}
Receipt == {[at |-> i, event |-> FromEngineEvent(p.wire)] : i \in Nat, p \in Published}

LogTyped ==
  /\ log \in Seq(Published) /\ Len(log) <= Len(Emissions)
  /\ totals \in Counts /\ child \in Counts

QueuesTyped ==
  /\ conn \in {"connecting", "streaming", "done"} /\ attempt \in Nat
  /\ cursor \in Nat /\ pos \in Nat \ {0} /\ from \in Nat \ {0} /\ closed \in BOOLEAN
  /\ hubq \in Seq(Nat) /\ rawq \in Seq(Nat) /\ out \in Seq(Receipt)
  /\ filter \in {"on", "done"} /\ typer \in {"on", "done"}
  /\ rx \in {"held", "dropped"} /\ sub \in {"held", "dropped"}
  /\ replay \in [at : Nat, failed : BOOLEAN]

\* Nothing follows the end of a run.
OneEnd == \A i \in 1..Len(log) : EndsRun(i) => i = Len(log)

(***************************************************************************)
(* What the engine has counted is what it emitted, between the run's own   *)
(* totals and those of the sub-script in progress; an end was published    *)
(* with the sums up to it.                                                 *)
(***************************************************************************)
Balance ==
  /\ \A d \in TotalDims : SatAdd(totals[d], child[d]) = SumUpTo(Len(log) + 1, d)
  /\ \A i \in 1..Len(log) :
       log[i].means.type = "WorkflowEnd" /\ log[i].means.frames = <<>> =>
         log[i].wire = ToWire(log[i].means, [d \in TotalDims |-> SumUpTo(i, d)])

LogTrue == LogTyped /\ OneEnd /\ Balance

\* Where the listener is; nothing was read before there was a cursor.
Position ==
  /\ from <= pos /\ pos <= Len(log) + 1 /\ replay.at <= Len(log)
  /\ cursor = 0 => pos = from
  /\ cursor # 0 => pos = cursor + 1
  /\ attempt > MaxRetries => conn = "done"

\* What is carried is in order along the tasks, and of what was read.
InOrderAlong ==
  /\ Increasing(Yielded) /\ Increasing(rawq) /\ Increasing(hubq)
  /\ \A m \in Members(Yielded), n \in Members(rawq) \cup Members(hubq) : m < n
  /\ \A m \in Members(rawq), n \in Members(hubq) : m < n

Carried ==
  /\ Members(Yielded) \cup Members(rawq) \subseteq Expected
  /\ Members(hubq) \subseteq {i \in from..(pos - 1) : Decoded(i)}
  /\ rx = "held" => Expected \subseteq Members(Yielded) \cup Members(rawq) \cup Members(hubq)

\* A task that has ended has left nothing behind it, while somebody receives.
Endings ==
  /\ typer = "done" => rawq = <<>>
  /\ filter = "done" => hubq = <<>>
  /\ rx = "held" /\ typer = "done" => filter = "done"
  /\ rx = "held" /\ filter = "done" => conn = "done"

\* What was yielded is what is at its place in the log.
Receipts == \A k \in 1..Len(out) : out[k].event = FromEngineEvent(log[out[k].at].wire)

CaughtUp == \A i \in 1..replay.at : Decoded(i)

TasksTrue ==
  QueuesTyped /\ Position /\ InOrderAlong /\ Carried /\ Endings /\ Receipts /\ CaughtUp

PipelineInv == LogTrue /\ TasksTrue

-----------------------------------------------------------------------------
(* Totals. *)

LEMMA Dims == /\ TotalDims = {"input", "output", "cached", "thinking", "tool", "cost", "tasks"}
              /\ TokenDims = TotalDims \ {"tool", "cost", "tasks"}
BY DEF TotalDims, TokenDims

Capped(n) == IF n > MaxCount THEN MaxCount ELSE n

\* Saturating sums do not depend on the order.
LEMMA SatSums ==
  ASSUME NEW a \in 0..MaxCount, NEW b \in 0..MaxCount, NEW s \in Nat, NEW u \in Nat,
         SatAdd(a, b) = Capped(s)
  PROVE  /\ SatAdd(SatAdd(a, u), b) = Capped(s + u)
         /\ SatAdd(a, SatAdd(b, u)) = Capped(s + u)
         /\ SatAdd(SatAdd(a, b), 0) = Capped(s)
         /\ SatAdd(a, u) \in 0..MaxCount
         /\ SatAdd(a, b) \in 0..MaxCount
         /\ b = 0 => a = Capped(s)
BY MaxCountAssumption DEF SatAdd, Capped

LEMMA EmissionsAreTyped ==
  ASSUME NEW e \in Emission
  PROVE  IsEmission(e)
BY PipelineAssumption DEF Emission

\* What an event adds to a dimension.
Used(e, d) ==
  CASE e.type # "TaskEnd" -> 0
    [] e.type = "TaskEnd" /\ d = "tasks" -> 1
    [] OTHER -> IF d \in DOMAIN e.data THEN e.data[d] ELSE 0

LEMMA UsedIsNatural ==
  ASSUME NEW e \in Emission, NEW d \in TotalDims
  PROVE  Used(e, d) \in Nat
BY EmissionsAreTyped, Dims DEF Used, IsEmission

LEMMA AccumulateAdds ==
  ASSUME NEW t \in Counts, NEW e, e.type = "TaskEnd", NEW d \in TotalDims
  PROVE  accumulate(t, e.data)[d] = SatAdd(t[d], Used(e, d))
<1>1. t[d] \in 0..MaxCount
  BY DEF Counts
<1>2. SatAdd(t[d], 0) = t[d]
  BY <1>1, MaxCountAssumption DEF SatAdd
<1>3. CASE d = "tasks"
  BY <1>3 DEF accumulate, Used
<1>4. CASE d # "tasks" /\ d \in DOMAIN e.data
  BY <1>4 DEF accumulate, Used
<1>5. CASE d # "tasks" /\ d \notin DOMAIN e.data
  BY <1>2, <1>5 DEF accumulate, Used
<1> QED
  BY <1>3, <1>4, <1>5

LEMMA CountsKept ==
  ASSUME NEW t \in Counts, NEW e \in Emission, e.type = "TaskEnd"
  PROVE  accumulate(t, e.data) \in Counts
<1>1. \A a \in 0..MaxCount, u \in Nat : SatAdd(a, u) \in 0..MaxCount
  BY MaxCountAssumption DEF SatAdd
<1>2. \A d \in TotalDims : accumulate(t, e.data)[d] \in 0..MaxCount
  BY <1>1, AccumulateAdds, UsedIsNatural DEF Counts
<1>3. accumulate(t, e.data) = [d \in TotalDims |-> accumulate(t, e.data)[d]]
  BY DEF accumulate
<1> QED
  BY <1>2, <1>3 DEF Counts

LEMMA MergeKept ==
  ASSUME NEW t \in Counts, NEW c \in Counts
  PROVE  merge(t, c) \in Counts /\ NoTotals \in Counts
<1>1. \A a \in 0..MaxCount, u \in 0..MaxCount : SatAdd(a, u) \in 0..MaxCount
  BY MaxCountAssumption DEF SatAdd
<1>2. \A d \in TotalDims : merge(t, c)[d] \in 0..MaxCount
  BY <1>1 DEF merge, Counts
<1>3. merge(t, c) = [d \in TotalDims |-> merge(t, c)[d]]
  BY DEF merge
<1>4. NoTotals \in Counts
  BY MaxCountAssumption DEF NoTotals, Counts
<1> QED
  BY <1>2, <1>3, <1>4 DEF Counts

LEMMA PublishedIs ==
  ASSUME NEW p \in Published
  PROVE  /\ p.means \in Emission
         /\ \E t \in Counts : p.wire = ToWire(p.means, t)
BY DEF Published

\* The sum of what the log holds before the n-th event.
SumBefore(n, d) == Sum([j \in 1..(n - 1) |-> UsedIn(j, d)], n - 1)

LEMMA SumOfLog ==
  ASSUME log \in Seq(Published), NEW n \in 1..(Len(log) + 1), NEW d \in TotalDims
  PROVE  SumBefore(n, d) \in Nat /\ SumUpTo(n, d) = Capped(SumBefore(n, d))
<1>1. ASSUME NEW j \in 1..Len(log)
      PROVE  UsedIn(j, d) = Used(log[j].means, d) /\ UsedIn(j, d) \in Nat
  <2>1. log[j].means \in Emission
    BY PublishedIs
  <2>2. UsedIn(j, d) = Used(log[j].means, d)
    BY DEF UsedIn, Used
  <2> QED
    BY <2>1, <2>2, UsedIsNatural
<1>2. PICK k \in Nat : k = n - 1 /\ k <= Len(log)
  OBVIOUS
<1> DEFINE u == [j \in 1..k |-> UsedIn(j, d)]
<1>3. \A j \in 1..k : u[j] \in Nat
  BY <1>1, <1>2
<1>4. Sum(u, k) \in Nat
  <2> HIDE DEF u
  <2> QED
    BY <1>3, SumIsNatural
<1> QED
  BY <1>2, <1>4 DEF SumBefore, SumUpTo, Capped

\* What is appended to the log changes no sum before it, and adds its own use.
LEMMA SumAfter ==
  ASSUME log \in Seq(Published), NEW p, log' = Append(log, p), NEW d \in TotalDims,
         NEW k \in Nat, k = Len(log)
  PROVE  /\ \A n \in 1..(k + 1) : SumUpTo(n, d)' = SumUpTo(n, d)
         /\ SumBefore(k + 2, d)' = SumBefore(k + 1, d) + Used(p.means, d)
<1>2. (\A j \in 1..k : log'[j] = log[j]) /\ log'[k + 1] = p
  OBVIOUS
<1>3. \A j \in 1..k : UsedIn(j, d)' = UsedIn(j, d)
  BY <1>2 DEF UsedIn
<1>4. UsedIn(k + 1, d)' = Used(p.means, d)
  BY <1>2 DEF UsedIn, Used
<1>5. ASSUME NEW n \in 1..(k + 1)
      PROVE  SumUpTo(n, d)' = SumUpTo(n, d)
  <2>1. PICK m \in Nat : m = n - 1 /\ m <= k
    OBVIOUS
  <2> DEFINE u == [j \in 1..m |-> UsedIn(j, d)]
             v == [j \in 1..m |-> UsedIn(j, d)']
  <2>2. \A j \in 1..m : u[j] = v[j]
    BY <1>3, <2>1
  <2>3. u = v
    BY <1>3, <2>1
  <2> QED
    BY <2>1, <2>3 DEF SumUpTo
<1>6. SumBefore(k + 2, d)' = SumBefore(k + 1, d) + Used(p.means, d)
  <2> DEFINE u == [j \in 1..k |-> UsedIn(j, d)]
             v == [j \in 1..(k + 1) |-> UsedIn(j, d)']
  <2>1. \A j \in 1..k : v[j] = u[j]
    BY <1>3
  <2>2. v[k + 1] = Used(p.means, d)
    BY <1>4
  <2>3. SumBefore(k + 2, d)' = Sum(v, k + 1)
    <3>1. (k + 2) - 1 = k + 1
      OBVIOUS
    <3> QED
      BY <3>1 DEF SumBefore
  <2>4. SumBefore(k + 1, d) = Sum(u, k)
    <3>1. (k + 1) - 1 = k
      OBVIOUS
    <3> QED
      BY <3>1 DEF SumBefore
  <2> HIDE DEF u, v
  <2>5. Sum(v, k + 1) = Sum(v, k) + v[k + 1]
    BY SumOfMore
  <2>6. Sum(v, k) = Sum(u, k)
    BY <2>1, SumOfSame
  <2> QED
    BY <2>2, <2>3, <2>4, <2>5, <2>6
<1> QED
  BY <1>5, <1>6

\* The engine's step in one dimension: the sum stays what the counters hold.
LEMMA EmitKeepsBalance ==
  ASSUME LogTrue, NEW e \in Emission, Emit(e), NEW d \in TotalDims, NEW s \in Nat,
         SatAdd(totals[d], child[d]) = Capped(s)
  PROVE  /\ totals' \in Counts /\ child' \in Counts
         /\ SatAdd(totals'[d], child'[d]) = Capped(s + Used(e, d))
<1>1. PICK a \in 0..MaxCount, b \in 0..MaxCount, u \in Nat :
        a = totals[d] /\ b = child[d] /\ u = Used(e, d)
  BY UsedIsNatural DEF LogTrue, LogTyped, Counts
<1>2. /\ SatAdd(SatAdd(a, u), b) = Capped(s + u)
      /\ SatAdd(a, SatAdd(b, u)) = Capped(s + u)
      /\ SatAdd(SatAdd(a, b), 0) = Capped(s)
  BY <1>1, SatSums
<1>3. totals \in Counts /\ child \in Counts
  BY DEF LogTrue, LogTyped
<1>4. CASE e.type = "TaskEnd" /\ e.frames = <<>>
  <2>1. totals' = accumulate(totals, e.data) /\ child' = child
    BY <1>4 DEF Emit, IsEnd
  <2> QED
    BY <1>1, <1>2, <1>3, <1>4, <2>1, AccumulateAdds, CountsKept
<1>5. CASE e.type = "TaskEnd" /\ e.frames # <<>>
  <2>1. totals' = totals /\ child' = accumulate(child, e.data)
    BY <1>5 DEF Emit, IsEnd
  <2> QED
    BY <1>1, <1>2, <1>3, <1>5, <2>1, AccumulateAdds, CountsKept
<1>6. CASE IsEnd(e.type) /\ e.frames # <<>>
  <2>1. totals' = merge(totals, child) /\ child' = NoTotals /\ u = 0
    BY <1>1, <1>6 DEF Emit, IsEnd, Used
  <2>2. totals'[d] = SatAdd(a, b) /\ child'[d] = 0
    BY <1>1, <2>1 DEF merge, NoTotals
  <2>3. s + u = s
    BY <2>1
  <2> QED
    BY <1>1, <1>2, <1>3, <2>1, <2>2, <2>3, MergeKept
<1>7. CASE e.type # "TaskEnd" /\ ~(IsEnd(e.type) /\ e.frames # <<>>)
  <2>1. totals' = totals /\ child' = child /\ u = 0
    BY <1>1, <1>7 DEF Emit, Used
  <2>2. s + u = s
    BY <2>1
  <2> QED
    BY <1>1, <1>3, <2>1, <2>2
<1> QED
  BY <1>4, <1>5, <1>6, <1>7

LEMMA PublishLog ==
  ASSUME LogTrue, Publish
  PROVE  /\ LogTrue' /\ Len(log') = Len(log) + 1
         /\ \A i \in 1..Len(log) : log'[i] = log[i]
         /\ UNCHANGED <<listenerVars, taskVars, consumerVars>>
<1>1. PICK k \in Nat : k = Len(log)
  BY DEF LogTrue, LogTyped
<1>2. PICK e \in Emission : Emit(e)
  <2>1. Len(log) + 1 \in 1..Len(Emissions)
    BY <1>1, PipelineAssumption DEF Publish
  <2> QED
    BY <2>1 DEF Publish, Emission
<1> DEFINE t == IF e.frames = <<>> THEN totals ELSE child
           p == [means |-> e, wire |-> ToWire(e, t)]
<1>3. /\ log \in Seq(Published) /\ totals \in Counts /\ child \in Counts /\ log' = Append(log, p)
      /\ UNCHANGED <<listenerVars, taskVars, consumerVars>>
  BY <1>2 DEF Emit, LogTrue, LogTyped
<1>4. p \in Published
  BY <1>3 DEF Published
<1>5. p.means = e /\ p.wire = ToWire(e, t)
  OBVIOUS
<1> HIDE DEF p
<1>6. log' \in Seq(Published) /\ Len(log') = k + 1 /\ (\A i \in 1..k : log'[i] = log[i]) /\ log'[k + 1] = p
  BY <1>1, <1>3, <1>4
<1>7. k + 1 <= Len(Emissions)
  BY <1>1, PipelineAssumption DEF Publish
<1>8. OneEnd'
  <2>1. \A i \in 1..k : ~EndsRun(i)
    BY <1>1, <1>2, <1>3 DEF Emit
  <2>2. \A i \in 1..k : ~EndsRun(i)'
    BY <1>6, <2>1 DEF EndsRun
  <2>3. \A i \in 1..(k + 1) : i \in 1..k \/ i = k + 1
    OBVIOUS
  <2> QED
    BY <1>6, <2>2, <2>3 DEF OneEnd
<1>9. ASSUME NEW d \in TotalDims
      PROVE  /\ totals' \in Counts /\ child' \in Counts
             /\ SatAdd(totals'[d], child'[d]) = SumUpTo(k + 2, d)'
             /\ \A i \in 1..(k + 1) : SumUpTo(i, d)' = SumUpTo(i, d)
             /\ child = NoTotals => totals[d] = SumUpTo(k + 1, d)
  <2>1. PICK s \in Nat : s = SumBefore(k + 1, d) /\ SumUpTo(k + 1, d) = Capped(s)
    <3>1. k + 1 \in 1..(Len(log) + 1)
      BY <1>1
    <3> QED
      BY <1>3, <3>1, SumOfLog
  <2>2. SatAdd(totals[d], child[d]) = Capped(s)
    BY <1>1, <2>1 DEF LogTrue, Balance
  <2>3. /\ totals' \in Counts /\ child' \in Counts
        /\ SatAdd(totals'[d], child'[d]) = Capped(s + Used(e, d))
    BY <1>2, <2>2, EmitKeepsBalance
  <2>4. /\ \A i \in 1..(k + 1) : SumUpTo(i, d)' = SumUpTo(i, d)
        /\ SumBefore(k + 2, d)' = SumBefore(k + 1, d) + Used(p.means, d)
    BY <1>1, <1>3, SumAfter
  <2>5. SumUpTo(k + 2, d)' = Capped(SumBefore(k + 2, d)')
    BY DEF SumUpTo, SumBefore, Capped
  <2>6. SumUpTo(k + 2, d)' = Capped(s + Used(e, d))
    BY <1>5, <2>1, <2>4, <2>5
  <2>7. child = NoTotals => totals[d] = Capped(s)
    <3>1. totals[d] \in 0..MaxCount /\ child[d] \in 0..MaxCount
      BY <1>3 DEF Counts
    <3>2. child = NoTotals => child[d] = 0
      BY DEF NoTotals
    <3> QED
      BY <2>2, <3>1, <3>2, SatSums
  <2> QED
    BY <2>1, <2>3, <2>4, <2>6, <2>7
<1>10. totals' \in Counts /\ child' \in Counts
  BY <1>9, Dims
<1>11. Balance'
  <2>1. (\A d \in TotalDims : SatAdd(totals[d], child[d]) = SumUpTo(Len(log) + 1, d))'
    <3>1. Len(log') + 1 = k + 2
      BY <1>6
    <3>2. \A d \in TotalDims : SatAdd(totals'[d], child'[d]) = SumUpTo(k + 2, d)'
      BY <1>9
    <3> QED
      BY <3>1, <3>2
  <2>2. ASSUME NEW i \in 1..(k + 1), log'[i].means.type = "WorkflowEnd", log'[i].means.frames = <<>>
        PROVE  log'[i].wire = ToWire(log'[i].means, [d \in TotalDims |-> SumUpTo(i, d)'])
    <3>1. [d \in TotalDims |-> SumUpTo(i, d)'] = [d \in TotalDims |-> SumUpTo(i, d)]
      BY <1>9
    <3>2. CASE i \in 1..k
      BY <1>1, <1>6, <2>2, <3>1, <3>2 DEF LogTrue, Balance
    <3>3. CASE i = k + 1
      <4>1. e.type = "WorkflowEnd" /\ e.frames = <<>> /\ t = totals
        BY <1>5, <1>6, <2>2, <3>3
      <4>2. child = NoTotals
        BY <1>2, <4>1 DEF Emit, IsEnd
      <4>3. totals = [d \in TotalDims |-> SumUpTo(k + 1, d)]
        BY <1>3, <1>9, <4>2 DEF Counts
      <4> QED
        BY <1>5, <1>6, <3>1, <3>3, <4>1, <4>3
    <3> QED
      BY <3>2, <3>3
  <2> QED
    BY <1>6, <2>1, <2>2 DEF Balance
<1> QED
  BY <1>1, <1>3, <1>6, <1>7, <1>8, <1>10, <1>11 DEF LogTrue, LogTyped

-----------------------------------------------------------------------------
(* The listener and the tasks. *)

LEMMA YieldedIs ==
  ASSUME out \in Seq(Receipt)
  PROVE  /\ Yielded \in Seq(Nat) /\ Len(Yielded) = Len(out)
         /\ \A i \in 1..Len(out) : Yielded[i] = out[i].at
<1>1. \A i \in 1..Len(out) : out[i].at \in Nat
  BY DEF Receipt
<1> QED
  BY <1>1 DEF Yielded

LEMMA MembersOfNats ==
  ASSUME NEW s \in Seq(Nat)
  PROVE  Members(s) \subseteq Nat
BY DEF Members

\* What an event's place in the log says of it stays.
LEMMA PublishTasks ==
  ASSUME PipelineInv, Publish
  PROVE  TasksTrue'
<1>1. PICK k \in Nat : k = Len(log)
  BY DEF PipelineInv, LogTrue, LogTyped
<1>2. /\ Len(log') = k + 1 /\ \A i \in 1..k : log'[i] = log[i]
      /\ UNCHANGED <<listenerVars, taskVars, consumerVars>>
  BY <1>1, PublishLog DEF PipelineInv
<1>3. QueuesTyped /\ Position /\ InOrderAlong /\ Carried /\ Endings /\ Receipts /\ CaughtUp
  BY DEF PipelineInv, TasksTrue
<1>4. \A i \in 1..k : Decoded(i)' = Decoded(i) /\ IsExecution(i)' = IsExecution(i)
  BY <1>2 DEF Decoded, IsExecution
<1>5. pos \in Nat /\ from \in Nat \ {0} /\ pos <= k + 1 /\ replay.at \in Nat /\ replay.at <= k
  BY <1>1, <1>3 DEF QueuesTyped, Position
<1>6. \A i \in from..(pos - 1) : i \in 1..k
  BY <1>5
<1>7. Expected' = Expected
  BY <1>2, <1>4, <1>6 DEF Expected, listenerVars
<1>8. Yielded' = Yielded
  BY <1>2 DEF Yielded, taskVars
<1>9. QueuesTyped' /\ Position' /\ InOrderAlong' /\ Endings'
  <2>1. QueuesTyped' /\ InOrderAlong' /\ Endings'
    BY <1>2, <1>3, <1>8 DEF QueuesTyped, InOrderAlong, Endings, listenerVars, taskVars, consumerVars
  <2>2. Position'
    BY <1>1, <1>2, <1>3, <1>5 DEF Position, listenerVars, consumerVars
  <2> QED
    BY <2>1, <2>2
<1>10. Carried'
  <2>1. {i \in from..(pos - 1) : Decoded(i)}' = {i \in from..(pos - 1) : Decoded(i)}
    BY <1>2, <1>4, <1>6 DEF listenerVars
  <2> QED
    BY <1>2, <1>3, <1>7, <1>8, <2>1 DEF Carried, listenerVars, taskVars, consumerVars
<1>11. Receipts'
  <2>1. ASSUME NEW i \in 1..Len(out)
        PROVE  log'[out[i].at] = log[out[i].at]
    <3>1. out[i].at \in Members(Yielded)
      <4>1. Yielded[i] = out[i].at /\ i \in DOMAIN Yielded
        BY <1>3, YieldedIs DEF QueuesTyped
      <4> QED
        BY <4>1 DEF Members
    <3>2. out[i].at \in 1..k
      BY <1>3, <1>6, <3>1 DEF Carried, Expected
    <3> QED
      BY <1>2, <3>2
  <2> QED
    BY <1>2, <1>3, <2>1 DEF Receipts, taskVars
<1>12. CaughtUp'
  <2>1. \A i \in 1..replay.at : i \in 1..k
    BY <1>5
  <2> QED
    BY <1>2, <1>3, <1>4, <2>1 DEF CaughtUp, consumerVars
<1> QED
  BY <1>7, <1>8, <1>9, <1>10, <1>11, <1>12 DEF TasksTrue

\* A step that leaves the log and the queues alone.
LEMMA Undisturbed ==
  ASSUME PipelineInv, UNCHANGED <<log, totals, child, pos, from, hubq, rawq, out>>,
         QueuesTyped', Position', Endings', CaughtUp', rx' \in {rx, "dropped"}
  PROVE  PipelineInv'
<1>1. LogTrue /\ QueuesTyped /\ InOrderAlong /\ Carried /\ Receipts
  BY DEF PipelineInv, TasksTrue
<1>2. LogTrue'
  BY <1>1 DEF LogTrue, LogTyped, OneEnd, Balance, EndsRun, SumUpTo, UsedIn
<1>3. Yielded' = Yielded /\ Expected' = Expected
  BY DEF Yielded, Expected, IsExecution, Decoded
<1>4. InOrderAlong'
  BY <1>1, <1>3 DEF InOrderAlong
<1>5. Carried'
  <2>1. {i \in from..(pos - 1) : Decoded(i)}' = {i \in from..(pos - 1) : Decoded(i)}
    BY DEF Decoded, IsExecution
  <2> QED
    BY <1>1, <1>3, <2>1 DEF Carried
<1>6. Receipts'
  BY <1>1 DEF Receipts
<1> QED
  BY <1>2, <1>4, <1>5, <1>6 DEF PipelineInv, TasksTrue

\* The log alone decides which events are executions and which decode.
LEMMA LogDecides ==
  ASSUME log' = log
  PROVE  \A i : Decoded(i)' = Decoded(i) /\ IsExecution(i)' = IsExecution(i)
BY DEF Decoded, IsExecution

LEMMA ConnectInv ==
  ASSUME PipelineInv, Connect
  PROVE  PipelineInv'
<1>1. /\ LogTrue /\ QueuesTyped /\ Position /\ InOrderAlong /\ Carried /\ Endings /\ Receipts /\ CaughtUp
      /\ conn = "connecting" /\ conn' = "streaming"
      /\ UNCHANGED <<engineVars, taskVars, consumerVars, attempt, cursor, closed>>
  BY DEF PipelineInv, TasksTrue, Connect
<1>2. PICK k \in Nat : k = Len(log)
  BY <1>1 DEF LogTrue, LogTyped
<1>3. CASE cursor = 0
  <2>1. pos' = k + 1 /\ from' = k + 1 /\ pos = from
    BY <1>1, <1>2, <1>3 DEF Connect, Position
  <2>2. /\ Expected = {} /\ Expected' = {} /\ {i \in from..(pos - 1) : Decoded(i)} = {}
    BY <1>1, <1>2, <2>1 DEF Expected, QueuesTyped
  <2>3. Members(Yielded) = {} /\ Members(rawq) = {} /\ Members(hubq) = {}
    BY <1>1, <2>2 DEF Carried
  <2>4. LogTrue'
    BY <1>1 DEF LogTrue, LogTyped, OneEnd, Balance, EndsRun, SumUpTo, UsedIn, engineVars
  <2>5. QueuesTyped' /\ Endings' /\ Receipts'
    BY <1>1, <1>2, <2>1 DEF QueuesTyped, Endings, Receipts, engineVars, taskVars, consumerVars
  <2>6. Position'
    BY <1>1, <1>2, <1>3, <2>1 DEF Position, engineVars, consumerVars
  <2>7. CaughtUp'
    BY <1>1, LogDecides DEF CaughtUp, engineVars, consumerVars
  <2>8. Yielded' = Yielded /\ UNCHANGED <<rawq, hubq, rx>>
    BY <1>1 DEF Yielded, taskVars, consumerVars
  <2>9. InOrderAlong' /\ Carried'
    BY <1>1, <2>2, <2>3, <2>8 DEF InOrderAlong, Carried
  <2> QED
    BY <2>4, <2>5, <2>6, <2>7, <2>9 DEF PipelineInv, TasksTrue
<1>4. CASE cursor # 0
  <2>1. pos' = pos /\ from' = from
    BY <1>1, <1>4 DEF Connect, Position
  <2>2. QueuesTyped' /\ Position' /\ Endings'
    BY <1>1, <1>4, <2>1 DEF QueuesTyped, Position, Endings, engineVars, taskVars, consumerVars
  <2>3. CaughtUp'
    BY <1>1, LogDecides DEF CaughtUp, engineVars, consumerVars
  <2> QED
    BY <1>1, <2>1, <2>2, <2>3, Undisturbed DEF engineVars, taskVars, consumerVars
<1> QED
  BY <1>3, <1>4

\* A failed attempt, a body that ends, an aborted listener; the consumer.
LEMMA ListenerStopsInv ==
  ASSUME PipelineInv,
         ConnectionFails \/ BodyEnds \/ AbortListener \/ DropReceiver \/ DropSubscription
  PROVE  PipelineInv'
<1>1. /\ LogTrue /\ QueuesTyped /\ Position /\ Endings /\ CaughtUp
      /\ UNCHANGED <<engineVars, taskVars, pos, from, cursor, replay>>
  BY DEF PipelineInv, TasksTrue, ConnectionFails, BodyEnds, AbortListener, DropReceiver, DropSubscription,
         listenerVars, consumerVars
<1>2. /\ conn' \in {conn, "connecting", "done"}
      /\ conn = "done" => conn' = "done"
      /\ attempt' \in {attempt, attempt + 1}
      /\ attempt' > MaxRetries => (attempt' = attempt /\ conn' \in {conn, "done"}) \/ conn' = "done"
      /\ closed' \in {closed, TRUE} /\ rx' \in {rx, "dropped"} /\ sub' \in {sub, "dropped"}
  <2>1. attempt \in Nat /\ MaxRetries \in Nat
    BY <1>1, PipelineAssumption DEF QueuesTyped
  <2>2. CASE ConnectionFails
    BY <2>1, <2>2 DEF ConnectionFails, consumerVars
  <2>3. CASE BodyEnds \/ AbortListener
    BY <2>1, <2>3 DEF BodyEnds, AbortListener, consumerVars
  <2>4. CASE DropReceiver \/ DropSubscription
    BY <2>1, <2>4 DEF DropReceiver, DropSubscription, listenerVars
  <2> QED
    BY <2>2, <2>3, <2>4
<1>3. QueuesTyped' /\ Endings'
  <2>1. conn' \in {"connecting", "streaming", "done"} /\ attempt' \in Nat /\ closed' \in BOOLEAN
    <3>1. conn \in {"connecting", "streaming", "done"} /\ attempt \in Nat /\ closed \in BOOLEAN
      BY <1>1 DEF QueuesTyped
    <3>2. conn' \in {"connecting", "streaming", "done"} /\ closed' \in BOOLEAN
      BY <1>2, <3>1
    <3>3. attempt' \in Nat
      BY <1>2, <3>1
    <3> QED
      BY <3>2, <3>3
  <2>2. rx' \in {"held", "dropped"} /\ sub' \in {"held", "dropped"}
    BY <1>1, <1>2 DEF QueuesTyped
  <2>3. QueuesTyped'
    BY <1>1, <2>1, <2>2 DEF QueuesTyped, taskVars
  <2>4. Endings'
    BY <1>1, <1>2 DEF Endings, taskVars
  <2> QED
    BY <2>3, <2>4
<1>4. Position'
  BY <1>1, <1>2 DEF Position, engineVars
<1>5. CaughtUp'
  BY <1>1, LogDecides DEF CaughtUp, engineVars
<1> QED
  BY <1>1, <1>2, <1>3, <1>4, <1>5, Undisturbed DEF engineVars, taskVars

(***************************************************************************)
(* One frame: what it sends on comes after all that was sent before, and   *)
(* what was read grows by as much.                                         *)
(***************************************************************************)
LEMMA BatchIs ==
  ASSUME NEW a \in Nat, NEW b \in Nat
  PROVE  Batch(a, b) \in Seq(Nat) /\ Increasing(Batch(a, b)) /\ Members(Batch(a, b)) = {i \in a..b : Decoded(i)}
<1> DEFINE S == {i \in a..b : Decoded(i)}
<1>1. S \in SUBSET Nat /\ \A i \in S : i <= b
  OBVIOUS
<1> HIDE DEF S
<1>2. InOrder(S) \in Seq(Nat) /\ Increasing(InOrder(S)) /\ Members(InOrder(S)) = S
  BY <1>1, InOrderIs
<1>3. Batch(a, b) = InOrder(S)
  BY DEF Batch, S
<1> QED
  BY <1>2, <1>3 DEF S

LEMMA NoMembers == Members(<<>>) = {}
BY DEF Members

LEMMA FrameInv ==
  ASSUME PipelineInv, Frame
  PROVE  PipelineInv'
<1>1. /\ LogTrue /\ QueuesTyped /\ Position /\ InOrderAlong /\ Carried /\ Endings /\ Receipts /\ CaughtUp
      /\ conn = "streaming"
      /\ UNCHANGED <<engineVars, consumerVars, attempt, from, closed, rawq, out, filter, typer>>
  BY DEF PipelineInv, TasksTrue, Frame
<1>2. PICK k \in Nat : k = Len(log)
  BY <1>1 DEF LogTrue, LogTyped
<1>3. PICK last \in pos..(pos + MaxBatch - 1) :
        /\ last <= k /\ cursor' = last /\ pos' = last + 1
        /\ IF Batch(pos, last) # <<>> /\ filter = "done"
           THEN conn' = "done" /\ hubq' = hubq
           ELSE conn' = conn /\ hubq' = hubq \o Batch(pos, last)
  BY <1>2 DEF Frame
<1>4. /\ pos \in Nat \ {0} /\ from \in Nat \ {0} /\ from <= pos /\ last \in Nat /\ pos <= last
      /\ hubq \in Seq(Nat) /\ rawq \in Seq(Nat) /\ out \in Seq(Receipt)
  <2>1. pos \in Nat \ {0} /\ MaxBatch \in Nat
    BY <1>1, PipelineAssumption DEF QueuesTyped
  <2> QED
    BY <1>1, <1>3, <2>1 DEF QueuesTyped, Position
<1> DEFINE batch == Batch(pos, last)
           B == {i \in pos..last : Decoded(i)}
           Read == {i \in from..(pos - 1) : Decoded(i)}
<1>5. batch \in Seq(Nat) /\ Increasing(batch) /\ Members(batch) = B
  BY <1>4, BatchIs
<1>6. \A i : Decoded(i)' = Decoded(i) /\ IsExecution(i)' = IsExecution(i)
  BY <1>1, LogDecides DEF engineVars
<1>7. Expected' = Expected \cup {i \in B : IsExecution(i)} /\ Read' = Read \cup B
  <2>1. pos' - 1 = last /\ from' = from
    BY <1>1, <1>3, <1>4
  <2>2. \A i : i \in from..last <=> i \in from..(pos - 1) \/ i \in pos..last
    BY <1>4
  <2>3. Expected' = {i \in from..last : IsExecution(i) /\ Decoded(i)}
    BY <1>6, <2>1 DEF Expected
  <2>4. Read' = {i \in from..last : Decoded(i)}
    BY <1>6, <2>1
  <2> QED
    BY <2>2, <2>3, <2>4 DEF Expected
<1>8. Yielded' = Yielded /\ Members(Yielded)' = Members(Yielded) /\ UNCHANGED <<rawq, out, rx, filter, typer>>
  BY <1>1 DEF Yielded, consumerVars
<1>9. LogTrue'
  BY <1>1 DEF LogTrue, LogTyped, OneEnd, Balance, EndsRun, SumUpTo, UsedIn, engineVars
<1>10. Position'
  BY <1>1, <1>2, <1>3, <1>4 DEF Position, engineVars, consumerVars
<1>11. Receipts' /\ CaughtUp'
  BY <1>1, <1>6 DEF Receipts, CaughtUp, engineVars, consumerVars
<1> HIDE DEF batch, B, Read
<1>12. \A m \in Members(Yielded) \cup Members(rawq) \cup Members(hubq), n \in Members(batch) : m < n
  <2>1. \A m \in Members(Yielded) \cup Members(rawq) \cup Members(hubq) : m \in from..(pos - 1)
    BY <1>1 DEF Carried, Expected
  <2>2. \A n \in Members(batch) : n \in pos..last
    BY <1>5 DEF B
  <2> QED
    BY <1>4, <2>1, <2>2
<1>13. Members(hubq) \subseteq Read
  BY <1>1 DEF Carried, Read
<1>14. CASE batch # <<>> /\ filter = "done"
  <2>1. conn' = "done" /\ hubq' = hubq
    BY <1>3, <1>14 DEF batch
  <2>2. rx # "held"
    BY <1>1, <1>14 DEF Endings
  <2>3. QueuesTyped' /\ Endings'
    BY <1>1, <1>3, <1>4, <1>8, <2>1, <2>2 DEF QueuesTyped, Endings, consumerVars
  <2>4. InOrderAlong'
    BY <1>1, <1>8, <2>1 DEF InOrderAlong
  <2>5. Carried'
    <3>1. Members(Yielded) \cup Members(rawq) \subseteq Expected'
      BY <1>1, <1>7 DEF Carried
    <3>2. Members(hubq) \subseteq Read'
      BY <1>7, <1>13
    <3> QED
      BY <1>8, <2>1, <2>2, <3>1, <3>2 DEF Carried, Read
  <2> QED
    BY <1>9, <1>10, <1>11, <2>3, <2>4, <2>5 DEF PipelineInv, TasksTrue
<1>15. CASE ~(batch # <<>> /\ filter = "done")
  <2>1. conn' = conn /\ hubq' = hubq \o batch
    BY <1>3, <1>15 DEF batch
  <2>2. hubq' \in Seq(Nat) /\ Members(hubq') = Members(hubq) \cup B
    <3>1. Members(hubq \o batch) = Members(hubq) \cup Members(batch)
      BY <1>4, <1>5, ConcatSet
    <3>2. hubq \o batch \in Seq(Nat)
      BY <1>4, <1>5
    <3> QED
      BY <1>5, <2>1, <3>1, <3>2
  <2>3. filter = "done" => hubq' = <<>>
    BY <1>1, <1>15, <2>1 DEF Endings
  <2>4. QueuesTyped'
    BY <1>1, <1>3, <1>4, <2>1, <2>2 DEF QueuesTyped, consumerVars
  <2>5. Endings'
    BY <1>1, <1>8, <2>1, <2>3 DEF Endings
  <2>6. InOrderAlong'
    <3>1. Increasing(hubq')
      <4>1. Below(hubq, batch)
        BY <1>4, <1>5, <1>12, BelowMembers
      <4> QED
        BY <1>1, <1>4, <1>5, <2>1, <4>1, IncreasingConcat DEF InOrderAlong
    <3>2. \A m \in Members(Yielded) \cup Members(rawq), n \in B : m < n
      BY <1>5, <1>12
    <3> QED
      BY <1>1, <1>8, <2>2, <3>1, <3>2 DEF InOrderAlong
  <2>7. Carried'
    <3>1. Members(Yielded) \cup Members(rawq) \subseteq Expected'
      BY <1>1, <1>7 DEF Carried
    <3>2. Members(hubq') \subseteq Read'
      BY <1>7, <1>13, <2>2
    <3>3. rx = "held" => Expected' \subseteq Members(Yielded) \cup Members(rawq) \cup Members(hubq')
      BY <1>1, <1>7, <2>2 DEF Carried
    <3> QED
      BY <1>8, <3>1, <3>2, <3>3 DEF Carried, Read
  <2> QED
    BY <1>9, <1>10, <1>11, <2>4, <2>5, <2>6, <2>7 DEF PipelineInv, TasksTrue
<1> QED
  BY <1>14, <1>15

\* A sequence with one more member, as a function.
LEMMA AppendIs ==
  ASSUME NEW s \in Seq(Nat), NEW n \in Nat
  PROVE  /\ Append(s, n) \in Seq(Nat)
         /\ \A i \in 1..Len(s) : Append(s, n)[i] = s[i]
         /\ Append(s, n)[Len(s) + 1] = n
         /\ Append(s, n) = [i \in 1..(Len(s) + 1) |-> Append(s, n)[i]]
<1>1. PICK y \in Seq(Nat) : y = Append(s, n) /\ Len(y) = Len(s) + 1
  BY AppendProperties
<1>2. y \in [1..Len(y) -> Nat]
  BY LenProperties
<1>3. y = [i \in 1..Len(y) |-> y[i]]
  BY <1>2
<1>4. (\A i \in 1..Len(s) : Append(s, n)[i] = s[i]) /\ Append(s, n)[Len(s) + 1] = n
  BY AppendProperties
<1> QED
  BY <1>1, <1>3, <1>4, Zenon

\* A task that takes from one queue and puts into the next.
LEMMA QueuesMoved ==
  ASSUME PipelineInv, UNCHANGED <<engineVars, listenerVars, consumerVars>>,
         QueuesTyped', InOrderAlong', Carried', Endings', Receipts'
  PROVE  PipelineInv'
<1>1. LogTrue /\ Position /\ CaughtUp
  BY DEF PipelineInv, TasksTrue
<1>2. LogTrue'
  BY <1>1 DEF LogTrue, LogTyped, OneEnd, Balance, EndsRun, SumUpTo, UsedIn, engineVars
<1>3. Position'
  BY <1>1 DEF Position, engineVars, listenerVars, consumerVars
<1>4. CaughtUp'
  BY <1>1, LogDecides DEF CaughtUp, engineVars, consumerVars
<1> QED
  BY <1>2, <1>3, <1>4 DEF PipelineInv, TasksTrue

\* The head and the tail of an increasing queue.
LEMMA Taken ==
  ASSUME NEW q \in Seq(Nat), q # <<>>, Increasing(q)
  PROVE  /\ Tail(q) \in Seq(Nat) /\ Increasing(Tail(q)) /\ Head(q) \in Nat
         /\ Members(q) = Members(Tail(q)) \cup {Head(q)}
         /\ \A n \in Members(Tail(q)) : Head(q) < n
<1>1. Tail(q) \in Seq(Nat) /\ Head(q) \in Nat
  OBVIOUS
<1>2. Increasing(Tail(q)) /\ \A i \in 1..Len(Tail(q)) : Head(q) < Tail(q)[i]
  BY IncreasingTail
<1>3. \A n \in Members(Tail(q)) : Head(q) < n
  BY <1>1, <1>2 DEF Members
<1> QED
  BY <1>1, <1>2, <1>3, TailSet

LEMMA FilterInv ==
  ASSUME PipelineInv, Filter
  PROVE  PipelineInv'
<1>1. /\ LogTrue /\ QueuesTyped /\ Position /\ InOrderAlong /\ Carried /\ Endings /\ Receipts /\ CaughtUp
      /\ filter = "on" /\ hubq # <<>>
      /\ UNCHANGED <<engineVars, listenerVars, consumerVars, out, typer>>
  BY DEF PipelineInv, TasksTrue, Filter
<1> DEFINE h == Head(hubq)
           t == Tail(hubq)
           Read == {i \in from..(pos - 1) : Decoded(i)}
<1>2. /\ t \in Seq(Nat) /\ Increasing(t) /\ h \in Nat /\ Members(hubq) = Members(t) \cup {h}
      /\ \A n \in Members(t) : h < n
  BY <1>1, Taken DEF QueuesTyped, InOrderAlong
<1>3. Yielded' = Yielded /\ Expected' = Expected /\ Read' = Read
  <2>1. \A i : Decoded(i)' = Decoded(i) /\ IsExecution(i)' = IsExecution(i)
    BY <1>1, LogDecides DEF engineVars
  <2> QED
    BY <1>1, <2>1 DEF Yielded, Expected, listenerVars
<1>4. h \in Read /\ Members(t) \subseteq Read /\ (h \in Expected <=> IsExecution(h))
  BY <1>1, <1>2 DEF Carried, Expected
<1>5. Receipts'
  BY <1>1 DEF Receipts, engineVars
<1> HIDE DEF Read
<1>6. CASE ~IsExecution(h)
  <2>1. hubq' = t /\ UNCHANGED <<rawq, filter, typer, rx, conn>>
    BY <1>1, <1>6 DEF Filter, listenerVars, consumerVars
  <2>2. QueuesTyped' /\ Endings'
    BY <1>1, <1>2, <2>1 DEF QueuesTyped, Endings, listenerVars, consumerVars
  <2>3. InOrderAlong'
    BY <1>1, <1>2, <1>3, <2>1 DEF InOrderAlong
  <2>4. Carried'
    <3>1. rx = "held" => Expected \subseteq Members(Yielded) \cup Members(rawq) \cup Members(t)
      BY <1>1, <1>2, <1>4, <1>6 DEF Carried
    <3> QED
      BY <1>1, <1>3, <1>4, <2>1, <3>1 DEF Carried, Read
  <2> QED
    BY <1>1, <1>5, <2>2, <2>3, <2>4, QueuesMoved
<1>7. CASE IsExecution(h) /\ typer = "done"
  <2>1. hubq' = <<>> /\ filter' = "done" /\ UNCHANGED <<rawq, typer, rx, conn>>
    BY <1>1, <1>7 DEF Filter, listenerVars, consumerVars
  <2>2. rx # "held"
    BY <1>1, <1>7 DEF Endings
  <2>3. QueuesTyped' /\ Endings'
    BY <1>1, <2>1, <2>2 DEF QueuesTyped, Endings, listenerVars, consumerVars
  <2>4. InOrderAlong'
    <3>1. Increasing(<<>>)
      BY DEF Increasing
    <3> QED
      BY <1>1, <1>3, <2>1, <3>1, NoMembers DEF InOrderAlong
  <2>5. Carried'
    BY <1>1, <1>3, <2>1, <2>2, NoMembers DEF Carried, Read
  <2> QED
    BY <1>1, <1>5, <2>3, <2>4, <2>5, QueuesMoved
<1>8. CASE IsExecution(h) /\ typer # "done"
  <2>1. hubq' = t /\ rawq' = Append(rawq, h) /\ UNCHANGED <<filter, typer, rx, conn>>
    BY <1>1, <1>8 DEF Filter, listenerVars, consumerVars
  <2>2. rawq \in Seq(Nat) /\ rawq' \in Seq(Nat)
    BY <1>1, <1>2, <2>1 DEF QueuesTyped
  <2>3. Members(rawq') = Members(rawq) \cup {h}
    BY <1>2, <2>1, <2>2, AppendSet
  <2>4. QueuesTyped'
    BY <1>1, <1>2, <2>1, <2>2 DEF QueuesTyped, listenerVars, consumerVars
  <2>5. Endings'
    BY <1>1, <1>8, <2>1 DEF Endings
  <2>6. InOrderAlong'
    <3>1. \A m \in Members(Yielded) \cup Members(rawq), n \in Members(hubq) : m < n
      BY <1>1 DEF InOrderAlong
    <3>2. \A i \in 1..Len(rawq) : rawq[i] < h
      <4>1. \A i \in 1..Len(rawq) : rawq[i] \in Members(rawq)
        BY <2>2 DEF Members
      <4> QED
        BY <1>2, <3>1, <4>1
    <3>3. Increasing(rawq')
      BY <1>1, <1>2, <2>1, <2>2, <3>2, IncreasingAppend DEF InOrderAlong
    <3>4. \A m \in Members(Yielded), n \in Members(rawq') \cup Members(t) : m < n
      BY <1>1, <1>2, <2>3, <3>1 DEF InOrderAlong
    <3>5. \A m \in Members(rawq'), n \in Members(t) : m < n
      BY <1>2, <2>3, <3>1
    <3> QED
      BY <1>1, <1>2, <1>3, <2>1, <3>3, <3>4, <3>5 DEF InOrderAlong
  <2>7. Carried'
    <3>1. Members(Yielded) \cup Members(rawq') \subseteq Expected
      BY <1>1, <1>4, <1>8, <2>3 DEF Carried
    <3>2. rx = "held" => Expected \subseteq Members(Yielded) \cup Members(rawq') \cup Members(t)
      BY <1>1, <1>2, <2>3 DEF Carried
    <3> QED
      BY <1>3, <1>4, <2>1, <3>1, <3>2 DEF Carried, Read
  <2> QED
    BY <1>1, <1>5, <2>4, <2>5, <2>6, <2>7, QueuesMoved
<1> QED
  BY <1>6, <1>7, <1>8

LEMMA ReceiptIs ==
  ASSUME NEW i \in Nat, NEW p \in Published
  PROVE  [at |-> i, event |-> FromEngineEvent(p.wire)] \in Receipt
BY DEF Receipt

LEMMA TypeInv ==
  ASSUME PipelineInv, Type
  PROVE  PipelineInv'
<1>1. /\ LogTrue /\ QueuesTyped /\ Position /\ InOrderAlong /\ Carried /\ Endings /\ Receipts /\ CaughtUp
      /\ typer = "on" /\ rawq # <<>>
      /\ UNCHANGED <<engineVars, listenerVars, consumerVars, hubq, filter>>
  BY DEF PipelineInv, TasksTrue, Type
<1> DEFINE h == Head(rawq)
           t == Tail(rawq)
           Read == {i \in from..(pos - 1) : Decoded(i)}
<1>2. /\ t \in Seq(Nat) /\ Increasing(t) /\ h \in Nat /\ Members(rawq) = Members(t) \cup {h}
      /\ \A n \in Members(t) : h < n
  BY <1>1, Taken DEF QueuesTyped, InOrderAlong
<1>3. Expected' = Expected /\ Read' = Read /\ log' = log /\ UNCHANGED <<hubq, filter, rx, conn>>
  <2>1. \A i : Decoded(i)' = Decoded(i) /\ IsExecution(i)' = IsExecution(i)
    BY <1>1, LogDecides DEF engineVars
  <2> QED
    BY <1>1, <2>1 DEF Expected, engineVars, listenerVars, consumerVars
<1> HIDE DEF Read
<1>4. CASE rx = "dropped"
  <2>1. rawq' = <<>> /\ typer' = "done" /\ out' = out
    BY <1>1, <1>4 DEF Type
  <2>2. QueuesTyped' /\ Endings'
    BY <1>1, <1>4, <2>1 DEF QueuesTyped, Endings, listenerVars, consumerVars
  <2>3. Receipts' /\ Yielded' = Yielded
    BY <1>1, <1>3, <2>1 DEF Receipts, Yielded
  <2>4. InOrderAlong'
    <3>1. Increasing(<<>>)
      BY DEF Increasing
    <3> QED
      BY <1>1, <2>1, <2>3, <3>1, NoMembers DEF InOrderAlong
  <2>5. Carried'
    BY <1>1, <1>3, <1>4, <2>1, <2>3, NoMembers DEF Carried, Read
  <2> QED
    BY <1>1, <2>2, <2>3, <2>4, <2>5, QueuesMoved
<1>5. CASE rx # "dropped"
  <2>1. rawq' = t /\ out' = Append(out, Received(h)) /\ typer' = typer
    BY <1>1, <1>5 DEF Type
  <2>2. Received(h) \in Receipt /\ Received(h).at = h /\ Received(h).event = FromEngineEvent(log[h].wire)
    <3>1. PICK k \in Nat : k = Len(log)
      BY <1>1 DEF LogTrue, LogTyped
    <3>2. h \in from..(pos - 1)
      BY <1>1, <1>2 DEF Carried, Expected
    <3>3. h \in 1..k
      BY <1>1, <3>1, <3>2 DEF QueuesTyped, Position
    <3>4. log[h] \in Published
      BY <1>1, <3>1, <3>3 DEF LogTrue, LogTyped
    <3>5. PICK p \in Published : p = log[h]
      BY <3>4
    <3>6. Received(h) = [at |-> h, event |-> FromEngineEvent(p.wire)]
      BY <3>5 DEF Received
    <3> HIDE DEF h
    <3>7. h \in Nat
      BY <1>2
    <3>8. [at |-> h, event |-> FromEngineEvent(p.wire)] \in Receipt
      BY <3>7, ReceiptIs
    <3>9. Received(h).at = h /\ Received(h).event = FromEngineEvent(log[h].wire)
      BY <3>5, <3>6
    <3> QED
      BY <3>6, <3>8, <3>9
  <2>3. out \in Seq(Receipt) /\ out' \in Seq(Receipt)
    <3>1. out \in Seq(Receipt)
      BY <1>1 DEF QueuesTyped
    <3> QED
      BY <2>1, <2>2, <3>1
  <2>4. PICK n \in Nat : n = Len(out)
    BY <2>3
  <2> DEFINE r == Received(h)
  <2> HIDE DEF r
  <2>5. Len(out') = n + 1 /\ (\A i \in 1..n : out'[i] = out[i]) /\ out'[n + 1] = r
    BY <2>1, <2>3, <2>4 DEF r
  <2>6. Yielded \in Seq(Nat) /\ Len(Yielded) = n /\ \A i \in 1..n : Yielded[i] = out[i].at
    BY <2>3, <2>4, YieldedIs
  <2>7. Yielded' = Append(Yielded, h)
    <3>1. DOMAIN out' = 1..(n + 1)
      BY <2>3, <2>5
    <3>2. Yielded' = [i \in 1..(n + 1) |-> out'[i].at]
      BY <3>1 DEF Yielded
    <3>3. PICK y \in Seq(Nat) :
            /\ y = Append(Yielded, h) /\ (\A i \in 1..n : y[i] = Yielded[i]) /\ y[n + 1] = h
            /\ y = [i \in 1..(n + 1) |-> y[i]]
      <4>1. h \in Nat /\ Yielded \in Seq(Nat) /\ Len(Yielded) = n
        BY <1>2, <2>6
      <4> HIDE DEF h
      <4>2. /\ Append(Yielded, h) \in Seq(Nat)
            /\ \A i \in 1..n : Append(Yielded, h)[i] = Yielded[i]
            /\ Append(Yielded, h)[n + 1] = h
            /\ Append(Yielded, h) = [i \in 1..(n + 1) |-> Append(Yielded, h)[i]]
        BY <4>1, AppendIs, Zenon
      <4> QED
        BY <4>2, Zenon
    <3>4. ASSUME NEW i \in 1..(n + 1)
          PROVE  out'[i].at = y[i]
      <4>1. CASE i \in 1..n
        BY <2>5, <2>6, <3>3, <4>1
      <4>2. CASE i = n + 1
        <5>1. out'[i].at = h
          BY <2>2, <2>5, <4>2 DEF r
        <5> QED
          BY <3>3, <4>2, <5>1
      <4> QED
        BY <4>1, <4>2
    <3> QED
      BY <3>2, <3>3, <3>4
  <2>8. Members(Yielded') = Members(Yielded) \cup {h}
    BY <1>2, <2>6, <2>7, AppendSet
  <2>9. Receipts'
    <3>1. ASSUME NEW i \in 1..(n + 1)
          PROVE  out'[i].event = FromEngineEvent(log[out'[i].at].wire)
      <4>1. CASE i \in 1..n
        BY <1>1, <2>4, <2>5, <4>1 DEF Receipts
      <4>2. CASE i = n + 1
        BY <2>2, <2>5, <4>2 DEF r
      <4> QED
        BY <4>1, <4>2
    <3> QED
      BY <1>3, <2>5, <3>1 DEF Receipts
  <2>10. QueuesTyped'
    BY <1>1, <1>2, <2>1, <2>3 DEF QueuesTyped, listenerVars, consumerVars
  <2>11. Endings'
    BY <1>1, <1>3, <2>1 DEF Endings
  <2>12. InOrderAlong'
    <3>1. \A m \in Members(Yielded), q \in Members(rawq) \cup Members(hubq) : m < q
      BY <1>1 DEF InOrderAlong
    <3>2. Increasing(Yielded')
      <4>1. \A i \in 1..Len(Yielded) : Yielded[i] < h
        <5>1. \A i \in 1..Len(Yielded) : Yielded[i] \in Members(Yielded)
          BY <2>6 DEF Members
        <5>2. \A m \in Members(Yielded) : m < h
          BY <1>2, <3>1
        <5> QED
          BY <5>1, <5>2
      <4> QED
        BY <1>1, <1>2, <2>6, <2>7, <4>1, IncreasingAppend DEF InOrderAlong
    <3>3. \A m \in Members(Yielded'), q \in Members(t) \cup Members(hubq) : m < q
      BY <1>1, <1>2, <2>8, <3>1 DEF InOrderAlong
    <3>4. \A m \in Members(t), q \in Members(hubq) : m < q
      BY <1>1, <1>2 DEF InOrderAlong
    <3> QED
      BY <1>1, <1>2, <1>3, <2>1, <3>2, <3>3, <3>4 DEF InOrderAlong
  <2>13. Carried'
    <3>1. Members(Yielded') \cup Members(t) = Members(Yielded) \cup Members(rawq)
      BY <1>2, <2>8
    <3>2. Members(Yielded') \cup Members(t) \subseteq Expected
      BY <1>1, <3>1 DEF Carried
    <3>3. rx = "held" => Expected \subseteq Members(Yielded') \cup Members(t) \cup Members(hubq)
      BY <1>1, <3>1 DEF Carried
    <3> QED
      BY <1>1, <1>3, <2>1, <3>2, <3>3 DEF Carried, Read
  <2> QED
    BY <1>1, <2>9, <2>10, <2>11, <2>12, <2>13, QueuesMoved
<1> QED
  BY <1>4, <1>5

\* A task that ends has nothing left to carry.
LEMMA TaskEndsInv ==
  ASSUME PipelineInv, FilterEnds \/ TypeEnds
  PROVE  PipelineInv'
<1>1. /\ QueuesTyped /\ Endings /\ Position /\ CaughtUp
      /\ UNCHANGED <<engineVars, listenerVars, consumerVars, hubq, rawq, out>>
      /\ filter' \in {filter, "done"} /\ typer' \in {typer, "done"}
  BY DEF PipelineInv, TasksTrue, FilterEnds, TypeEnds
<1>2. QueuesTyped'
  BY <1>1 DEF QueuesTyped, listenerVars, consumerVars
<1>3. Endings'
  BY <1>1 DEF Endings, FilterEnds, TypeEnds, listenerVars, consumerVars
<1>4. Position' /\ CaughtUp'
  BY <1>1, LogDecides DEF Position, CaughtUp, engineVars, listenerVars, consumerVars
<1> QED
  BY <1>1, <1>2, <1>3, <1>4, Undisturbed DEF engineVars, listenerVars, consumerVars

\* A page of the stored events is taken whole or not at all.
LEMMA ReplayPageInv ==
  ASSUME PipelineInv, ReplayPage
  PROVE  PipelineInv'
<1>1. /\ LogTrue /\ QueuesTyped /\ Endings /\ Position /\ CaughtUp
      /\ UNCHANGED <<engineVars, listenerVars, taskVars, rx, sub>>
  BY DEF PipelineInv, TasksTrue, ReplayPage
<1>2. PICK k \in Nat : k = Len(log)
  BY <1>1 DEF LogTrue, LogTyped
<1>3. replay \in [at : Nat, failed : BOOLEAN] /\ MaxBatch \in Nat
  BY <1>1, PipelineAssumption DEF QueuesTyped
<1>4. PICK last \in (replay.at + 1)..(replay.at + MaxBatch) :
        /\ last <= k
        /\ replay' = IF \A i \in (replay.at + 1)..last : Decoded(i)
                     THEN [replay EXCEPT !.at = last] ELSE [replay EXCEPT !.failed = TRUE]
  BY <1>2 DEF ReplayPage
<1>5. last \in Nat
  BY <1>3, <1>4
<1>6. /\ replay' \in [at : Nat, failed : BOOLEAN] /\ replay'.at <= k
      /\ \A i \in 1..replay'.at : Decoded(i)
  <2>1. CASE \A i \in (replay.at + 1)..last : Decoded(i)
    <3>1. replay' = [replay EXCEPT !.at = last]
      BY <1>4, <2>1
    <3>2. replay'.at = last /\ replay' \in [at : Nat, failed : BOOLEAN]
      BY <1>3, <1>5, <3>1
    <3>3. \A i \in 1..last : i \in 1..replay.at \/ i \in (replay.at + 1)..last
      BY <1>3, <1>5
    <3> QED
      BY <1>1, <1>4, <2>1, <3>2, <3>3 DEF CaughtUp
  <2>2. CASE ~\A i \in (replay.at + 1)..last : Decoded(i)
    <3>1. replay' = [replay EXCEPT !.failed = TRUE]
      BY <1>4, <2>2
    <3>2. replay'.at = replay.at /\ replay' \in [at : Nat, failed : BOOLEAN]
      BY <1>3, <3>1
    <3> QED
      BY <1>1, <1>2, <3>2 DEF CaughtUp, Position
  <2> QED
    BY <2>1, <2>2
<1>7. QueuesTyped' /\ Endings'
  <2>1. QueuesTyped'
    BY <1>1, <1>6 DEF QueuesTyped, listenerVars, taskVars
  <2> QED
    BY <1>1, <2>1 DEF Endings, listenerVars, taskVars
<1>8. Position'
  BY <1>1, <1>2, <1>6 DEF Position, engineVars, listenerVars
<1>9. CaughtUp'
  BY <1>1, <1>6, LogDecides DEF CaughtUp, engineVars
<1> QED
  BY <1>1, <1>7, <1>8, <1>9, Undisturbed DEF engineVars, listenerVars, taskVars

LEMMA InitInv == Init => PipelineInv
<1> SUFFICES ASSUME Init PROVE PipelineInv
  OBVIOUS
<1> USE DEF Init
<1>1. LogTyped
  <2>1. NoTotals \in Counts
    BY MaxCountAssumption DEF NoTotals, Counts
  <2> QED
    BY <2>1, PipelineAssumption DEF LogTyped
<1>2. OneEnd
  BY DEF OneEnd
<1>3. Balance
  <2>1. ASSUME NEW d \in TotalDims
        PROVE  SatAdd(totals[d], child[d]) = SumUpTo(1, d)
    <3>1. SatAdd(totals[d], child[d]) = 0
      BY MaxCountAssumption DEF SatAdd, NoTotals
    <3>2. SumUpTo(1, d) = Capped(SumBefore(1, d))
      BY DEF SumUpTo, SumBefore, Capped
    <3>3. SumBefore(1, d) = 0
      <4>1. 1 - 1 = 0
        OBVIOUS
      <4> QED
        BY <4>1, SumOfNone DEF SumBefore
    <3> QED
      BY <3>1, <3>2, <3>3, MaxCountAssumption DEF Capped
  <2>2. Len(log) = 0 /\ 1..0 = {} /\ Len(log) + 1 = 1
    OBVIOUS
  <2> QED
    BY <2>1, <2>2 DEF Balance
<1>4. Yielded = <<>> /\ Expected = {} /\ Increasing(<<>>)
  BY DEF Yielded, Expected, Increasing
<1>5. QueuesTyped /\ Endings
  <2>1. QueuesTyped
    <3>1. <<>> \in Seq(Nat) /\ <<>> \in Seq(Receipt)
      OBVIOUS
    <3>2. [at |-> 0, failed |-> FALSE] \in [at : Nat, failed : BOOLEAN]
      OBVIOUS
    <3>3. 1 \in Nat \ {0} /\ 0 \in Nat /\ FALSE \in BOOLEAN
      OBVIOUS
    <3> QED
      BY <3>1, <3>2, <3>3, Zenon DEF QueuesTyped
  <2>2. Endings
    BY DEF Endings
  <2> QED
    BY <2>1, <2>2
<1>6. Position /\ CaughtUp /\ Receipts
  BY PipelineAssumption DEF Position, CaughtUp, Receipts
<1>7. InOrderAlong /\ Carried
  BY <1>4, NoMembers DEF InOrderAlong, Carried
<1> QED
  BY <1>1, <1>2, <1>3, <1>5, <1>6, <1>7 DEF PipelineInv, LogTrue, TasksTrue

LEMMA PipelineInvInductive == PipelineInv /\ [Next]_vars => PipelineInv'
<1> SUFFICES ASSUME PipelineInv, [Next]_vars PROVE PipelineInv'
  OBVIOUS
<1>1. CASE Publish
  BY <1>1, PublishLog, PublishTasks DEF PipelineInv
<1>2. CASE Connect
  BY <1>2, ConnectInv
<1>3. CASE ConnectionFails \/ BodyEnds \/ AbortListener \/ DropReceiver \/ DropSubscription
  BY <1>3, ListenerStopsInv
<1>4. CASE Frame
  BY <1>4, FrameInv
<1>5. CASE Filter
  BY <1>5, FilterInv
<1>6. CASE Type
  BY <1>6, TypeInv
<1>7. CASE FilterEnds \/ TypeEnds
  BY <1>7, TaskEndsInv
<1>8. CASE ReplayPage
  BY <1>8, ReplayPageInv
<1>9. CASE UNCHANGED vars
  <2>1. UNCHANGED <<engineVars, listenerVars, taskVars, consumerVars>>
    BY <1>9 DEF vars
  <2>2. QueuesTyped /\ Endings /\ Position /\ CaughtUp
    BY DEF PipelineInv, TasksTrue
  <2>3. QueuesTyped' /\ Endings'
    BY <2>1, <2>2 DEF QueuesTyped, Endings, listenerVars, taskVars, consumerVars
  <2>4. Position' /\ CaughtUp'
    BY <2>1, <2>2, LogDecides DEF Position, CaughtUp, engineVars, listenerVars, consumerVars
  <2> QED
    BY <2>1, <2>3, <2>4, Undisturbed DEF engineVars, listenerVars, taskVars, consumerVars
<1> QED
  BY <1>1, <1>2, <1>3, <1>4, <1>5, <1>6, <1>7, <1>8, <1>9 DEF Next, Listener, Tasks, Consumer, Quiet

LEMMA PipelineAlways == Spec => []PipelineInv
BY InitInv, PipelineInvInductive, PTL DEF Spec

-----------------------------------------------------------------------------
(* What it is for. *)

\* Where the events a receiver has got are, and what they are.
LEMMA ReceiptsAre ==
  ASSUME PipelineInv, NEW i \in DOMAIN out
  PROVE  /\ out[i].at \in DOMAIN log /\ log[out[i].at].means \in Emission
         /\ out[i].event = FromEngineEvent(log[out[i].at].wire)
         /\ \E t \in Counts : log[out[i].at].wire = ToWire(log[out[i].at].means, t)
<1>1. LogTrue /\ QueuesTyped /\ Position /\ Carried /\ Receipts
  BY DEF PipelineInv, TasksTrue
<1>2. PICK k \in Nat : k = Len(log) /\ DOMAIN log = 1..k /\ log \in Seq(Published)
  BY <1>1 DEF LogTrue, LogTyped
<1>3. out \in Seq(Receipt) /\ i \in 1..Len(out)
  BY <1>1 DEF QueuesTyped
<1>4. out[i].at \in Members(Yielded)
  <2>1. Yielded[i] = out[i].at /\ i \in DOMAIN Yielded
    BY <1>3, YieldedIs
  <2> QED
    BY <2>1 DEF Members
<1>5. out[i].at \in 1..k
  <2>1. out[i].at \in from..(pos - 1)
    BY <1>1, <1>4 DEF Carried, Expected
  <2> QED
    BY <1>1, <1>2, <2>1 DEF QueuesTyped, Position
<1>6. log[out[i].at] \in Published
  BY <1>2, <1>5
<1>7. out[i].event = FromEngineEvent(log[out[i].at].wire)
  BY <1>1, <1>3 DEF Receipts
<1> QED
  BY <1>2, <1>5, <1>6, <1>7, PublishedIs

\* The queues hold places in the log, the counters keep their width, the
\* attempts end, and every event that is yielded has an arm.
THEOREM TypesOK == Spec => []TypeOK
<1>1. PipelineInv => TypeOK
  <2> SUFFICES ASSUME PipelineInv PROVE TypeOK
    OBVIOUS
  <2>1. LogTrue /\ QueuesTyped /\ Position /\ Carried
    BY DEF PipelineInv, TasksTrue
  <2>2. PICK k \in Nat : k = Len(log) /\ DOMAIN log = 1..k
    BY <2>1 DEF LogTrue, LogTyped
  <2>3. \A i \in from..(pos - 1) : i \in DOMAIN log
    BY <2>1, <2>2 DEF QueuesTyped, Position
  <2>4. \A i \in DOMAIN hubq : hubq[i] \in DOMAIN log
    BY <2>1, <2>3 DEF Carried, Members
  <2>5. \A i \in DOMAIN rawq : rawq[i] \in DOMAIN log
    BY <2>1, <2>3 DEF Carried, Expected, Members
  <2>6. ASSUME NEW i \in DOMAIN out
        PROVE  out[i].at \in DOMAIN log /\ out[i].event.arm \in DOMAIN EventCategory
    <3>1. PICK e \in Emission, t \in Counts :
            e = log[out[i].at].means /\ log[out[i].at].wire = ToWire(e, t)
      BY ReceiptsAre
    <3>2. e.frames \in Seq(STRING)
      BY EmissionsAreTyped DEF IsEmission
    <3> QED
      BY <3>1, <3>2, ReceiptsAre, PlaceKept
  <2>7. /\ Len(log) <= Len(Emissions) /\ {totals, child} \subseteq [TotalDims -> 0..MaxCount]
        /\ cursor \in 0..Len(log) /\ {pos, from} \subseteq 1..(Len(log) + 1)
    <3>1. cursor \in 0..k
      BY <2>1, <2>2 DEF QueuesTyped, Position
    <3>2. pos \in 1..(k + 1) /\ from \in 1..(k + 1)
      BY <2>1, <2>2 DEF QueuesTyped, Position
    <3> QED
      BY <2>1, <2>2, <3>1, <3>2 DEF LogTrue, LogTyped, Counts
  <2>8. replay.at \in 0..Len(log) /\ {replay.failed, closed} \subseteq BOOLEAN
    <3>1. replay.at \in Nat /\ replay.failed \in BOOLEAN /\ replay.at <= k
      BY <2>1, <2>2 DEF QueuesTyped, Position
    <3> QED
      BY <2>1, <2>2, <3>1 DEF QueuesTyped
  <2>9. /\ conn \in {"connecting", "streaming", "done"} /\ attempt \in Nat
        /\ attempt > MaxRetries => conn = "done"
        /\ {filter, typer} \subseteq {"on", "done"} /\ {rx, sub} \subseteq {"held", "dropped"}
    BY <2>1 DEF QueuesTyped, Position
  <2> QED
    BY <2>4, <2>5, <2>6, <2>7, <2>8, <2>9 DEF TypeOK
<1> QED
  BY <1>1, PipelineAlways, PTL

\* Per-element decoding loses what does not decode and nothing else, keeps the
\* order through every reconnect, and a receiver that sees its channel close
\* has got all of it.
THEOREM LossesAreExplained == Spec => []LossesExplained
<1>1. PipelineInv => LossesExplained
  <2> SUFFICES ASSUME PipelineInv PROVE LossesExplained
    OBVIOUS
  <2>1. QueuesTyped /\ InOrderAlong /\ Carried /\ Endings /\ CaughtUp
    BY DEF PipelineInv, TasksTrue
  <2>2. Yielded \in Seq(Nat) /\ rawq \in Seq(Nat) /\ hubq \in Seq(Nat)
    BY <2>1, YieldedIs DEF QueuesTyped
  <2> DEFINE Y == Yielded
             start == Y \o rawq
             All == Y \o rawq \o hubq
  <2>3. start \in Seq(Nat) /\ Members(start) = Members(Yielded) \cup Members(rawq) /\ Increasing(start)
    <3>1. Below(Yielded, rawq)
      BY <2>1, <2>2, BelowMembers DEF InOrderAlong
    <3>2. Increasing(Yielded \o rawq)
      BY <2>1, <2>2, <3>1, IncreasingConcat DEF InOrderAlong
    <3>3. Yielded \o rawq \in Seq(Nat)
      BY <2>2, ConcatProperties
    <3> QED
      BY <2>2, <3>2, <3>3, ConcatSet
  <2>4. Increasing(All)
    <3> HIDE DEF start
    <3>1. \A m \in Members(start), n \in Members(hubq) : m < n
      BY <2>1, <2>3 DEF InOrderAlong
    <3>2. Below(start, hubq)
      BY <2>2, <2>3, <3>1, BelowMembers
    <3>3. Increasing(start \o hubq)
      BY <2>1, <2>2, <2>3, <3>2, IncreasingConcat DEF InOrderAlong
    <3> QED
      BY <3>3 DEF start
  <2>5. \A i \in Members(hubq) : IsExecution(i) => i \in Expected
    BY <2>1 DEF Carried, Expected
  <2>6. \A i \in Expected : IsExecution(i)
    BY DEF Expected
  <2>7. ASSUME rx = "held"
        PROVE  Members(Yielded \o rawq) \cup {i \in Members(hubq) : IsExecution(i)} = Expected
    BY <2>1, <2>3, <2>5, <2>6, <2>7 DEF Carried
  <2>8. ASSUME rx = "held", typer = "done"
        PROVE  Members(Yielded) = Expected
    <3>1. rawq = <<>> /\ hubq = <<>>
      BY <2>1, <2>8 DEF Endings
    <3> QED
      BY <2>1, <2>8, <3>1, NoMembers DEF Carried
  <2>9. \A i \in 1..replay.at : Decoded(i)
    BY <2>1 DEF CaughtUp
  <2> QED
    BY <2>4, <2>7, <2>8, <2>9 DEF LossesExplained
<1> QED
  BY <1>1, PipelineAlways, PTL

\* Whatever envelopes an event came in, its consumer sees where it happened,
\* whether it ended the run, and nothing after the end of the run.
THEOREM EventsStayInPlace == Spec => []EventsKeepTheirPlace
<1>1. PipelineInv => EventsKeepTheirPlace
  <2> SUFFICES ASSUME PipelineInv, NEW i \in DOMAIN out
               PROVE  LET e == log[out[i].at].means
                          w == out[i].event
                          raw == FromEnvelopeJson(log[out[i].at].wire)
                      IN  /\ is_terminal(w) <=> EndsRun(out[i].at)
                          /\ is_terminal(w) => i = Len(out)
                          /\ (category(w) = "Suspend") <=> Waits(e)
                          /\ w.path = e.frames
                          /\ is_terminal(raw) <=> is_terminal(w)
                          /\ raw.path = w.path
    BY DEF EventsKeepTheirPlace
  <2> DEFINE e == log[out[i].at].means
             w == out[i].event
             raw == FromEnvelopeJson(log[out[i].at].wire)
  <2>1. /\ is_terminal(w) <=> IsEnd(e.type) /\ e.frames = <<>>
        /\ category(w) = "Suspend" <=> Waits(e)
        /\ w.path = e.frames
        /\ is_terminal(raw) <=> is_terminal(w)
        /\ raw.path = w.path
    <3>1. PICK m \in Emission, t \in Counts : m = e /\ log[out[i].at].wire = ToWire(m, t)
      BY ReceiptsAre
    <3>2. m.frames \in Seq(STRING)
      BY EmissionsAreTyped DEF IsEmission
    <3> QED
      BY <3>1, <3>2, ReceiptsAre, PlaceKept
  <2>2. is_terminal(w) <=> EndsRun(out[i].at)
    BY <2>1 DEF EndsRun
  <2>3. ASSUME is_terminal(w)
        PROVE  i = Len(out)
    <3>1. LogTrue /\ QueuesTyped /\ InOrderAlong
      BY DEF PipelineInv, TasksTrue
    <3>2. PICK k \in Nat : k = Len(log) /\ DOMAIN log = 1..k
      BY <3>1 DEF LogTrue, LogTyped
    <3>3. \A j \in DOMAIN out : out[j].at \in 1..k
      BY <3>2, ReceiptsAre
    <3>4. out[i].at = k
      BY <2>2, <2>3, <3>1, <3>2, <3>3 DEF LogTrue, OneEnd
    <3>5. PICK n \in Nat : n = Len(out) /\ DOMAIN out = 1..n
      BY <3>1 DEF QueuesTyped
    <3>6. Len(Yielded) = n /\ \A j \in 1..n : Yielded[j] = out[j].at
      BY <3>1, <3>5, YieldedIs DEF QueuesTyped
    <3>7. i < n => Yielded[i] < Yielded[n]
      BY <3>1, <3>5, <3>6 DEF InOrderAlong, Increasing
    <3> QED
      BY <3>2, <3>3, <3>4, <3>5, <3>6, <3>7
  <2> QED
    BY <2>1, <2>2, <2>3
<1> QED
  BY <1>1, PipelineAlways, PTL

\* An end at the top arrives as an end; what is read of it.
LEMMA EndArrives ==
  ASSUME NEW e \in Emission, NEW t, FromEngineEvent(ToWire(e, t)).arm = "End"
  PROVE  /\ e.type = "WorkflowEnd" /\ e.frames = <<>>
         /\ FromEngineEvent(ToWire(e, t)).data =
              LET end == EndFromJson(PayloadToJson(e, t))
              IN  [output |-> to_json(end.value), totals |-> end.totals]
<1> DEFINE wire == ToWire(e, t)
           leaf == wire.leaf
           w == FromEngineEvent(wire)
<1>1. e.frames \in Seq(STRING)
  BY EmissionsAreTyped DEF IsEmission
<1>2. is_terminal(w)
  BY DEF is_terminal
<1>3. IsEnd(e.type) /\ e.frames = <<>>
  BY <1>1, <1>2, PlaceKept
<1>4. wire.env = <<>> /\ leaf.type = e.type /\ leaf.data = PayloadToJson(e, t)
  BY <1>3 DEF ToWire, Envelopes
<1> HIDE DEF wire, leaf
<1>5. w = ProjectLeaf(wire.leaf)
  BY <1>4 DEF FromEngineEvent, flatten_subscript_chain
<1>6. leaf.type \in DOMAIN ArmOf
  BY <1>3, <1>4 DEF IsEnd, ArmOf
<1>7. w = WorkflowEvent(ArmOf[leaf.type], MirrorTag(leaf), ArmData(leaf), <<>>)
  BY <1>5, <1>6 DEF ProjectLeaf, leaf
<1>8. w.arm = ArmOf[leaf.type] /\ w.data = ArmData(leaf)
  BY <1>7 DEF WorkflowEvent
<1>9. e.type = "WorkflowEnd"
  <2>1. ArmOf["Error"] = "Error"
    BY DEF ArmOf
  <2> QED
    BY <1>3, <1>4, <1>8, <2>1 DEF IsEnd, wire
<1>10. ArmData(leaf) = LET end == EndFromJson(leaf.data)
                       IN  [output |-> to_json(end.value), totals |-> end.totals]
  BY <1>4, <1>9 DEF ArmData
<1> QED
  BY <1>3, <1>4, <1>8, <1>9, <1>10 DEF wire

\* A run's end reports the saturated sums over all its task ends, those of its
\* sub-scripts too, and the JSON of its value without the secrets; a legacy
\* payload the same value and no totals.
THEOREM EndsReportTheRun == Spec => []EndReportsTheRun
<1>1. PipelineInv => EndReportsTheRun
  <2> SUFFICES ASSUME PipelineInv, NEW i \in DOMAIN out, out[i].event.arm = "End",
                      ~(log[out[i].at].means.data.legacy /\ LooksNew(to_json(log[out[i].at].means.data.value)))
               PROVE  LET given == log[out[i].at].means.data
                          read == out[i].event.data
                      IN  /\ read.output = to_json(Redacted(given.value))
                          /\ read.totals = IF given.legacy THEN NoTotals
                                           ELSE [d \in TotalDims |-> SumUpTo(out[i].at, d)]
                          /\ given.value.t = "Union" =>
                               LiftUnion(read.output, {given.value.v.variant}).v.variant = given.value.v.variant
    BY DEF EndReportsTheRun
  <2>1. PICK n : n = out[i].at
    OBVIOUS
  <2>2. PICK e \in Emission, t \in Counts :
          /\ e = log[n].means /\ log[n].wire = ToWire(e, t) /\ out[i].event = FromEngineEvent(log[n].wire)
    BY <2>1, ReceiptsAre
  <2> DEFINE given == e.data
             read == out[i].event.data
             json == to_json(given.value)
             sums == [d \in TotalDims |-> SumUpTo(n, d)]
             Reads(p) == /\ read.output = to_json(EndFromJson(p).value)
                         /\ read.totals = EndFromJson(p).totals
  <2>3. ASSUME NEW u, log[n].wire = ToWire(e, u)
        PROVE  e.type = "WorkflowEnd" /\ e.frames = <<>> /\ Reads(PayloadToJson(e, u))
    <3>1. FromEngineEvent(ToWire(e, u)).arm = "End"
      BY <2>2, <2>3
    <3>2. /\ e.type = "WorkflowEnd" /\ e.frames = <<>>
          /\ read = LET end == EndFromJson(PayloadToJson(e, u))
                    IN  [output |-> to_json(end.value), totals |-> end.totals]
      BY <2>2, <2>3, <3>1, EndArrives
    <3> QED
      BY <3>2
  <2>4. e.type = "WorkflowEnd" /\ e.frames = <<>> /\ Reads(PayloadToJson(e, t))
    BY <2>2, <2>3
  <2>5. given.legacy \in BOOLEAN /\ Shallow(json)
    BY <2>4, EmissionsAreTyped DEF IsEmission
  <2>6. to_json(from_json(json)) = json
    BY <2>5, ShallowTrip
  <2>7. read.output = json /\ read.totals = IF given.legacy THEN NoTotals ELSE sums
    <3>1. CASE given.legacy
      <4>1. PayloadToJson(e, t) = json
        BY <2>4, <3>1 DEF PayloadToJson, LegacyEndToJson
      <4>2. ~LooksNew(json)
        BY <2>1, <2>2, <3>1
      <4> HIDE DEF json, read
      <4>3. EndFromJson(json) = [value |-> from_json(json), totals |-> NoTotals]
        BY <4>2 DEF EndFromJson
      <4> QED
        BY <2>4, <2>6, <3>1, <4>1, <4>3
    <3>2. CASE ~given.legacy
      <4>1. log[n].wire = ToWire(e, sums)
        <5>1. LogTrue
          BY DEF PipelineInv
        <5>2. n \in 1..Len(log)
          BY <2>1, <5>1, ReceiptsAre DEF LogTrue, LogTyped
        <5> QED
          BY <2>2, <2>4, <5>1, <5>2 DEF LogTrue, Balance
      <4>2. PayloadToJson(e, sums) = EndToJson(given.value, sums)
        BY <2>4, <3>2 DEF PayloadToJson
      <4>3. Reads(EndToJson(given.value, sums))
        BY <2>3, <4>1, <4>2
      <4>4. sums = [d \in TotalDims |-> sums[d]]
        OBVIOUS
      <4> HIDE DEF sums, read
      <4>5. /\ EndFromJson(EndToJson(given.value, sums)).value = from_json(json)
            /\ EndFromJson(EndToJson(given.value, sums)).totals = sums
        BY <4>4, EndIsRead
      <4> QED
        BY <2>6, <3>2, <4>3, <4>5
    <3> QED
      BY <2>5, <3>1, <3>2
  <2>8. json = to_json(Redacted(given.value))
    BY SecretsStayIn
  <2>9. given.value.t = "Union" => LiftUnion(json, {given.value.v.variant}).v.variant = given.value.v.variant
    BY UnionsAreLifted
  <2> HIDE DEF json, read, sums
  <2>10. read.output = to_json(Redacted(given.value))
    BY <2>7, <2>8
  <2>11. given.value.t = "Union" =>
           LiftUnion(read.output, {given.value.v.variant}).v.variant = given.value.v.variant
    BY <2>7, <2>9
  <2> QED
    BY <2>1, <2>2, <2>7, <2>10, <2>11 DEF read, sums
<1> QED
  BY <1>1, PipelineAlways, PTL
=============================================================================
