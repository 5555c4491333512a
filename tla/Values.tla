------------------------------- MODULE Values -------------------------------
(***************************************************************************)
(* The engine's runtime values and what becomes of one on the wire         *)
(* (akribes-types/src/value.rs).  A value is a record [t |-> variant,      *)
(* v |-> payload] and so is a JSON value, whose variants are JSON's own    *)
(* ("integer" is a number that fits an i64, "float" any other).  Strings,  *)
(* numbers and messages are opaque; objects are functions from keys.       *)
(*                                                                         *)
(* The conversions recurse through lists, objects and union payloads: one  *)
(* level is an operator of the conversion of its parts (Sub), and the      *)
(* levels are stacked deeper than the values of the model go.              *)
(***************************************************************************)
EXTENDS ErrorTaxonomy, Sequences

Value(t, v) == [t |-> t, v |-> v]
Json(t, v) == [t |-> t, v |-> v]
Str(s) == Json("string", s)
JsonNull == Json("null", "null")

UnableCategory ==
  {"input_missing", "input_ambiguous", "input_conflicts", "capability", "other", "partial_retry"}

\* Value::fatal carries an ErrorDetail; as_fatal_detail reads it back.
Fatal(detail) == Value("FatalError", detail)
FatalKind(k, hint) == Fatal(FromKind(k, hint))
FatalCode(c) == Fatal(NewDetail(c))

\* fatal_with_code: an unknown code becomes Other, the caller's kind stays.
FatalWithCode(k, c) ==
  Fatal([NewDetail(IF c \in ErrorCode THEN c ELSE "Other") EXCEPT !.kind = k])

as_fatal_detail(v) == IF v.t = "FatalError" THEN v.v ELSE NoneOpt

-----------------------------------------------------------------------------
DetailToJson(d) ==
  Json("object", [kind |-> Str(d.kind), code |-> Str(d.code),
                  retry_after_ms |-> IF d.hint = NoneOpt THEN JsonNull ELSE Json("integer", d.hint)])

\* The payload of a union keeps its fields beside the tag, which wins over a
\* field of that name; a payload that is no object goes under "payload".
UnionToJson(variant, payload) ==
  LET fields == IF payload.t = "object" THEN payload.v ELSE [payload |-> payload]
  IN  Json("object", [f \in DOMAIN fields \cup {"kind"} |->
                        IF f = "kind" THEN Str(variant) ELSE fields[f]])

\* Value::to_json, and so the wire form of a value in every event.
NodeToJson(Sub(_), x) ==
  CASE x.t \in {"String", "Document"} -> Str(x.v)
    [] x.t = "Int" -> Json("integer", x.v)
    [] x.t = "Decimal" -> IF x.v \in {"NaN", "inf", "-inf"} THEN JsonNull ELSE Json("float", x.v)
    [] x.t = "Bool" -> Json("bool", x.v)
    [] x.t = "Null" -> JsonNull
    [] x.t = "List" -> Json("array", [i \in DOMAIN x.v |-> Sub(x.v[i])])
    [] x.t = "Object" -> Json("object", [k \in DOMAIN x.v |-> Sub(x.v[k])])
    [] x.t = "Unable" ->
         Json("object", [unable |-> Json("object", [reason |-> Str(x.v.reason),
                                                    category |-> Str(x.v.category)])])
    [] x.t = "Union" -> UnionToJson(x.v.variant, Sub(x.v.payload))
    [] x.t = "FatalError" ->
         Json("object", [FatalError |-> Str("message"), error_kind |-> Str(x.v.kind),
                         code |-> Str(x.v.code), error_detail |-> DetailToJson(x.v)])
    [] x.t = "AgentRef" -> Json("object", [agent |-> Str(x.v)])
    [] x.t = "Json" -> x.v
    [] x.t = "Secret" -> Str("***")

\* Value::from_json: the tags of the richer variants do not come back.
NodeFromJson(Sub(_), j) ==
  CASE j.t = "string" -> Value("String", j.v)
    [] j.t = "integer" -> Value("Int", j.v)
    [] j.t = "float" -> Value("Decimal", j.v)
    [] j.t = "bool" -> Value("Bool", j.v)
    [] j.t = "null" -> Value("Null", "null")
    [] j.t = "array" -> Value("List", [i \in DOMAIN j.v |-> Sub(j.v[i])])
    [] j.t = "object" -> Value("Object", [k \in DOMAIN j.v |-> Sub(j.v[k])])

Cut(x) == JsonNull
ToJson1(x) == NodeToJson(Cut, x)
ToJson2(x) == NodeToJson(ToJson1, x)
to_json(x) == NodeToJson(ToJson2, x)

FromJson1(j) == NodeFromJson(Cut, j)
FromJson2(j) == NodeFromJson(FromJson1, j)
from_json(j) == NodeFromJson(FromJson2, j)

\* from_json_with_union_arms: an object tagged with one of the arms is lifted.
LiftUnion(j, arms) ==
  IF j.t = "object" /\ "kind" \in DOMAIN j.v /\ j.v["kind"] \in {Str(a) : a \in arms}
  THEN Value("Union", [variant |-> j.v["kind"].v,
                       payload |-> from_json(Json("object", [k \in DOMAIN j.v \ {"kind"} |-> j.v[k]]))])
  ELSE from_json(j)

-----------------------------------------------------------------------------
(* For the properties: a value whose secrets are blanked, and a JSON value *)
(* no deeper than the conversions above.                                   *)

NodeRedacted(Sub(_), x) ==
  CASE x.t = "Secret" -> Value("Secret", "blank")
    [] x.t \in {"List", "Object"} -> Value(x.t, [k \in DOMAIN x.v |-> Sub(x.v[k])])
    [] x.t = "Union" -> Value("Union", [variant |-> x.v.variant, payload |-> Sub(x.v.payload)])
    [] OTHER -> x

Redacted1(x) == NodeRedacted(Cut, x)
Redacted2(x) == NodeRedacted(Redacted1, x)
Redacted(x) == NodeRedacted(Redacted2, x)

Scalar(j) ==
  /\ j = Json(j.t, j.v)
  /\ j.t \in {"string", "integer", "float", "bool", "null"}
  /\ j.t = "float" => j.v \notin {"NaN", "inf", "-inf"}
  /\ j.t = "null" => j = JsonNull

Container(In(_), j) ==
  /\ j = Json(j.t, j.v) /\ j.t \in {"array", "object"}
  /\ j.v = [k \in DOMAIN j.v |-> j.v[k]]
  /\ \A k \in DOMAIN j.v : In(j.v[k])

Shallow1(j) == Scalar(j) \/ Container(Scalar, j)
Shallow(j) == Scalar(j) \/ Container(Shallow1, j)
=============================================================================
