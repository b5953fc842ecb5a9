---- MODULE Envelopes ----
(***************************************************************************)
(* A message on its way between the two ends of a connection: a transport  *)
(* writes it (SerializeMessage), the transport at the other end reads it   *)
(* (DeserializeMessage).  An errand is something on its way; this module   *)
(* handles the errands of kind "message".                                  *)
(***************************************************************************)
EXTENDS JsonRpc

CONSTANT Errands          \* what is sent, one record each, by kind

ASSUME ErrandsAssumption == \A e \in Errands : e.kind = "message" => IsMessage(e.message)

VARIABLES errand, wire, got, at    \* at: "sender", "wire" or "receiver"

Nothing == <<>>

ErrandInit == errand \in Errands /\ wire = Nothing /\ got = Nothing /\ at = "sender"

WriteMessage ==
  /\ errand.kind = "message" /\ at = "sender"
  /\ wire' = Serialize(errand.message) /\ at' = "wire" /\ UNCHANGED <<errand, got>>

ReadMessage ==
  /\ errand.kind = "message" /\ at = "wire"
  /\ got' = Parse(wire) /\ at' = "receiver" /\ UNCHANGED <<errand, wire>>

\* Messages alone.
EnvelopeSpec == ErrandInit /\ [][WriteMessage \/ ReadMessage]_<<errand, wire, got, at>>

Delivered(kind) == at = "receiver" /\ errand.kind = kind

\* A message that is written and parsed again is the same message: kind, id, method, answer, and the members of its
\* parameters with its metadata, which wins over metadata they held (JsonRpc.cpp, docs/en/reference/types.md).
EnvelopeKept ==
  Delivered("message") =>
    LET m == errand.message
        own == Members(m.params)
        slot == IF Has(own, "_meta") THEN own["_meta"] ELSE None
        meta == IF Tag(slot) = "obj" THEN Obj(Over(Members(m.meta), Members(slot))) ELSE m.meta
    IN /\ <<got.kind, got.id, got.method, got.result, got.error>> = <<m.kind, m.id, m.method, m.result, m.error>>
       /\ Members(got.params) = Without(own, "_meta")
       /\ m.meta = None /\ ~Has(own, "_meta") => got.params = m.params
       /\ got.meta = IF m.meta = None THEN slot ELSE meta
====
