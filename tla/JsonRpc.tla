---- MODULE JsonRpc ----
(***************************************************************************)
(* JSON values and the envelope of a message (src/src/core/JsonRpc.cpp).   *)
(* A JSON value, and a field of a struct, is a pair of a tag and its data, *)
(* so that values of different kinds can be compared.  A message is a      *)
(* record with the members of all four kinds, None where its kind has no   *)
(* such member.                                                            *)
(***************************************************************************)
EXTENDS Integers, Sequences, FiniteSets

CONSTANT MaxCode          \* the largest value of McpErrorCode's underlying type

ASSUME CodeAssumption == MaxCode \in Nat

----------------------------------------------------------------------------
\* Values.

None   == <<"none", 0>>                       \* std::nullopt: no value in a struct
Err    == <<"err", 0>>                        \* the reader threw
Null   == <<"null", 0>>
Str(s) == <<"str", s>>
Whole(n) == <<"int", n>>
Num(n) == <<"num", n>>                        \* a double
Bool(b) == <<"bool", b>>
Arr(q) == <<"arr", q>>
Obj(f) == <<"obj", f>>                        \* a JSON object, or the fields of a struct
NoMembers == [k \in {} |-> None]
Tag(j) == j[1]
Members(j) == IF Tag(j) = "obj" THEN j[2] ELSE NoMembers
Has(o, k) == k \in DOMAIN o
HasText(o, k) == Has(o, k) /\ Tag(o[k]) = "str"

\* The members of both objects; those of f win.
Over(f, g) == [k \in DOMAIN f \cup DOMAIN g |-> IF k \in DOMAIN f THEN f[k] ELSE g[k]]
\* The fields of f that have a value, as the members of an object.
Filled(f) == Obj([k \in {n \in DOMAIN f : f[n] # None} |-> f[k]])
Without(o, key) == [k \in DOMAIN o \ {key} |-> o[k]]

----------------------------------------------------------------------------
\* Messages.

Envelope(kind, id, method, params, meta, result, error) ==
  [kind |-> kind, id |-> id, method |-> method, params |-> params, meta |-> meta, result |-> result, error |-> error]
Request(id, method, params, meta) == Envelope("request", id, method, params, meta, None, None)
Notice(method, params, meta)      == Envelope("notification", None, method, params, meta, None, None)
Response(id, result)              == Envelope("response", id, "", None, None, result, None)
ErrorAnswer(id, error)            == Envelope("error", id, "", None, None, None, error)
Unreadable                        == Envelope("unreadable", None, "", None, None, None, None)

\* The metadata the parameters held is lost.
MergeMetaIntoParamsMutant(params, meta) == Obj(Over([_meta |-> meta], Members(params)))

\* Metadata goes into the parameters, beside metadata they hold; parameters that are no object make room for it.
MergeMetaIntoParams(params, meta) ==
  LET own == Members(params)
      both == Has(own, "_meta") /\ Tag(own["_meta"]) = "obj"
      slot == IF both THEN Obj(Over(Members(meta), Members(own["_meta"]))) ELSE meta
  IN Obj(Over([_meta |-> slot], own))

ParamsSent(m) == IF m.meta = None THEN m.params ELSE MergeMetaIntoParams(m.params, m.meta)

Serialize(m) ==
  Filled([jsonrpc |-> Str("2.0"),
         id |-> IF m.kind = "error" /\ m.id = None THEN Null ELSE m.id,
         method |-> IF m.kind \in {"request", "notification"} THEN Str(m.method) ELSE None,
         params |-> ParamsSent(m),
         result |-> m.result,
         error |-> IF m.kind = "error" THEN Filled(Members(m.error)) ELSE None])

DeserializeErrorData(j) ==
  LET o == Members(j)
      code == Has(o, "code") /\ Tag(o["code"]) = "int" /\ o["code"][2] \in -MaxCode - 1..MaxCode
  IN IF ~code \/ ~HasText(o, "message") THEN Err
     ELSE Obj([code |-> o["code"], message |-> o["message"], data |-> IF Has(o, "data") THEN o["data"] ELSE None])

\* Deserialize, and ExtractMetaFromParams after it.
ParseCall(kind, o) ==
  LET params == IF Has(o, "params") THEN o["params"] ELSE None
      own == Members(params)
      id == IF kind = "request" THEN o["id"] ELSE None
  IN IF Tag(o["method"]) # "str" \/ (kind = "request" /\ Tag(id) \notin {"str", "int"}) THEN Unreadable
     ELSE IF Has(own, "_meta")
          THEN Envelope(kind, id, o["method"][2], Obj(Without(own, "_meta")), own["_meta"], None, None)
          ELSE Envelope(kind, id, o["method"][2], params, None, None, None)

Known(o) == Has(o, "id") /\ Tag(o["id"]) \in {"str", "int"}

ParseResponse(o) == IF Known(o) THEN Response(o["id"], o["result"]) ELSE Unreadable

\* An error may do without an id, but not with an id of another kind.
ParseErrorResponse(o) ==
  LET error == DeserializeErrorData(o["error"])
  IN IF error = Err \/ (Has(o, "id") /\ ~Known(o) /\ o["id"] # Null) THEN Unreadable
     ELSE ErrorAnswer(IF Known(o) THEN o["id"] ELSE None, error)

\* DeserializeMessage: what a message is follows from the members it has; a null id counts as none.
Parse(j) ==
  LET o == Members(j)
      named == Has(o, "id") /\ o["id"] # Null
  IN IF ~Has(o, "jsonrpc") \/ o["jsonrpc"] # Str("2.0") THEN Unreadable
     ELSE IF Has(o, "method") THEN ParseCall(IF named THEN "request" ELSE "notification", o)
     ELSE IF Has(o, "result") = Has(o, "error") THEN Unreadable
     ELSE IF Has(o, "result") THEN ParseResponse(o) ELSE ParseErrorResponse(o)

----------------------------------------------------------------------------
\* The messages a program can hold.

IsValue(v) ==
  /\ v = <<v[1], v[2]>> /\ v[1] \in {"null", "str", "int", "num", "bool", "arr", "obj"}
  /\ v[1] = "obj" => v[2] = [k \in DOMAIN v[2] |-> v[2][k]]
IsId(id) == IsValue(id) /\ Tag(id) \in {"str", "int"}
\* GetObject refuses metadata that is no object where the parameters hold some already.
IsCall(m) ==
  LET own == Members(m.params)
  IN /\ m.params = None \/ IsValue(m.params)
     /\ m.meta = None \/ IsValue(m.meta)
     /\ m.meta # None /\ Has(own, "_meta") /\ Tag(own["_meta"]) = "obj" => Tag(m.meta) = "obj"
IsErrorData(e) ==
  LET data == e[2]
  IN /\ e = Obj([code |-> data.code, message |-> data.message, data |-> data.data])
     /\ data.code = Whole(data.code[2]) /\ data.code[2] \in -MaxCode - 1..MaxCode
     /\ data.message = Str(data.message[2])
     /\ data.data = None \/ IsValue(data.data)
IsMessage(m) ==
  \/ m = Request(m.id, m.method, m.params, m.meta) /\ IsId(m.id) /\ IsCall(m)
  \/ m = Notice(m.method, m.params, m.meta) /\ IsCall(m)
  \/ m = Response(m.id, m.result) /\ IsId(m.id) /\ IsValue(m.result)
  \/ m = ErrorAnswer(m.id, m.error) /\ (m.id = None \/ IsId(m.id)) /\ IsErrorData(m.error)
====
