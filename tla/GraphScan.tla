------------------------------ MODULE GraphScan ------------------------------
(***************************************************************************)
(* The preflight of a serialized ONNX model: scan_message walks the fields *)
(* of a protobuf message, and of the messages in it, and rejects a model   *)
(* before the decoder that allocates sees it.  One step is one turn of its *)
(* loop; the calls under way are a stack of slices of the same bytes.      *)
(***************************************************************************)
EXTENDS Integers, Sequences

CONSTANTS
    Models,         \* the serialized models that are inspected, sequences of 0..255
    MaxModelBytes,  \* MAX_ONNX_MODEL_BYTES
    MaxFields,      \* MAX_PROTO_FIELDS
    MaxDepth,       \* MAX_PROTO_DEPTH
    MaxText,        \* MAX_TEXT_BYTES
    VarintBytes,    \* the bytes of a varint at most: ten for the u64 of the code
    TagLimit,       \* a tag is less: 2^32
    PositionLimit   \* and so is a position in the bytes: 2^64

VARIABLES
    bytes,     \* the model
    frames,    \* the calls of scan_message, the innermost last
    position,  \* how far the innermost call has read
    fields,    \* PreflightBudget.fields
    verdict    \* "new", "scanning", "ok", or the code of the error

scan == <<bytes, frames, position, fields, verdict>>

Codes == {"too_large", "malformed", "limit", "unsupported"}

Top == frames[Len(frames)]

------------------------------------------------------------------------------
(***************************************************************************)
(* What each field of each message may hold.                               *)
(***************************************************************************)
Scalar == <<"scalar">>
Text == <<"bytes", MaxText>>
Packed == <<"bytes", MaxModelBytes>>
Forbidden == <<"forbidden">>
Message(schema) == <<"message", schema>>

\* field_payload: the tags, the wire type and the payload of the fields of a message.
FieldRows == [
    Model |-> {<<{1, 5}, 0, Scalar>>, <<{2, 3, 4, 6}, 2, Text>>, <<{7}, 2, Message("Graph")>>,
               <<{8}, 2, Message("Opset")>>, <<{14}, 2, Message("KeyValue")>>,
               <<{20, 25}, 2, Forbidden>>},
    Opset |-> {<<{1}, 2, Text>>, <<{2}, 0, Scalar>>},
    Graph |-> {<<{1}, 2, Message("Node")>>, <<{2, 10}, 2, Text>>, <<{5}, 2, Message("Tensor")>>,
               <<11..13, 2, Message("ValueInfo")>>, <<{14}, 2, Message("Annotation")>>,
               <<{15}, 2, Message("Sparse")>>, <<{16}, 2, Message("KeyValue")>>},
    Node |-> {<<(1..4) \cup (6..8), 2, Text>>, <<{5}, 2, Message("Attribute")>>,
              <<{9}, 2, Message("KeyValue")>>},
    Attribute |-> {<<{1, 4, 9, 13, 21}, 2, Text>>, <<{2, 7}, 5, Scalar>>, <<{3, 8, 20}, 0, Scalar>>,
                   <<{5, 10}, 2, Message("Tensor")>>, <<{6, 11}, 2, Message("Graph")>>,
                   <<{7, 8}, 2, Packed>>, <<{14, 15}, 2, Message("Type")>>,
                   <<{22, 23}, 2, Message("Sparse")>>},
    Tensor |-> {<<{1, 2, 5, 7, 11, 14}, 0, Scalar>>, <<{4}, 5, Scalar>>, <<{10}, 1, Scalar>>,
                <<{3}, 2, Message("Segment")>>, <<{1, 4, 5, 6, 7, 9, 10, 11}, 2, Packed>>,
                <<{8, 12}, 2, Text>>, <<{13, 16}, 2, Message("KeyValue")>>},
    Segment |-> {<<{1, 2}, 0, Scalar>>},
    Sparse |-> {<<{1, 2}, 2, Message("Tensor")>>, <<{3}, 0, Scalar>>, <<{3}, 2, Packed>>},
    ValueInfo |-> {<<{1, 3}, 2, Text>>, <<{2}, 2, Message("Type")>>, <<{4}, 2, Message("KeyValue")>>},
    Type |-> {<<{1, 8}, 2, Message("TensorType")>>, <<{4}, 2, Message("Sequence")>>,
              <<{5}, 2, Message("Map")>>, <<{6}, 2, Text>>, <<{9}, 2, Message("Optional")>>},
    TensorType |-> {<<{1}, 0, Scalar>>, <<{2}, 2, Message("Shape")>>},
    Sequence |-> {<<{1}, 2, Message("Type")>>},
    Optional |-> {<<{1}, 2, Message("Type")>>},
    Map |-> {<<{1}, 0, Scalar>>, <<{2}, 2, Message("Type")>>},
    Shape |-> {<<{1}, 2, Message("Dimension")>>},
    Dimension |-> {<<{1}, 0, Scalar>>, <<{2, 3}, 2, Text>>},
    KeyValue |-> {<<{1, 2}, 2, Text>>},
    Annotation |-> {<<{1}, 2, Text>>, <<{2}, 2, Message("KeyValue")>>}]

Schemas == DOMAIN FieldRows

\* The payload of a field, as a set that is empty for a field that is not admitted.
FieldPayload(schema, tag, wire) ==
    {row[3] : row \in {r \in FieldRows[schema] : tag \in r[1] /\ r[2] = wire}}

------------------------------------------------------------------------------
(***************************************************************************)
(* Reading.  A varint has seven bits in each byte, and a high bit in each  *)
(* but the last.  What is read ends before "end", the end of its slice.    *)
(***************************************************************************)
Nothing == [ok |-> FALSE, from |-> 0, to |-> 0, code |-> "malformed"]

ByteAt(i) == bytes[i + 1]
Continued(i) == ByteAt(i) >= 128

\* The number in the bytes from i to j, of which the last one weighs most.
Number(i, j) ==
    LET n[k \in 0..(j - i)] == IF k = 0 THEN 0 ELSE 128 * n[k - 1] + (ByteAt(j - k) % 128)
    IN  n[j - i]

\* The loop of read_varint leaves at its first byte without a high bit, at the end
\* of the slice, or at its last turn.
VarintLast(i, end) ==
    LET last == {k \in i..(i + VarintBytes - 1) : k >= end \/ ~Continued(k) \/ k = i + VarintBytes - 1}
    IN  CHOOSE k \in last : \A other \in last : k <= other

\* read_varint: the last of ten bytes holds one bit.
Varint(i, end) ==
    LET k == VarintLast(i, end)
    IN  IF k >= end \/ (k = i + VarintBytes - 1 /\ ByteAt(k) > 1)
        THEN Nothing
        ELSE [ok |-> TRUE, from |-> i, to |-> k + 1, code |-> "ok"]

\* read_length_delimited in a slice that begins at start; usize is as wide as u64.
Delimited(i, start, end) ==
    LET length == Varint(i, end)
        size == Number(i, length.to)
    IN  IF ~length.ok THEN Nothing
        ELSE IF length.to - start + size >= PositionLimit
        THEN [Nothing EXCEPT !.code = "limit"]
        ELSE IF length.to + size > end THEN Nothing
        ELSE [ok |-> TRUE, from |-> length.to, to |-> length.to + size, code |-> "ok"]

\* skip_scalar: a varint, eight bytes or four.
ScalarAt(i, wire, end) ==
    IF wire = 0 THEN Varint(i, end)
    ELSE LET to == i + (IF wire = 1 THEN 8 ELSE 4)
         IN  IF to > end THEN Nothing ELSE [ok |-> TRUE, from |-> i, to |-> to, code |-> "ok"]

------------------------------------------------------------------------------
Init ==
    /\ bytes \in Models
    /\ frames = <<>>
    /\ position = 0
    /\ fields = 0
    /\ verdict = "new"

Reject(code) ==
    /\ verdict' = code
    /\ UNCHANGED <<bytes, frames, position>>

\* inspect_onnx_model, up to the first call of scan_message.
Inspect ==
    /\ verdict = "new"
    /\ \/ bytes = <<>> /\ Reject("malformed")
       \/ Len(bytes) > MaxModelBytes /\ Reject("too_large")
       \/ /\ Len(bytes) \in 1..MaxModelBytes
          /\ frames' = <<[schema |-> "Model", start |-> 0, end |-> Len(bytes)]>>
          /\ verdict' = "scanning"
          /\ UNCHANGED <<bytes, position>>
    /\ UNCHANGED fields

\* A turn of the loop begins with the budget and the key of a field.
Turn ==
    /\ verdict = "scanning"
    /\ position < Top.end
    /\ fields' = fields + 1

Key == Varint(position, Top.end)
Tag == Number(position, Key.to) \div 8
Wire == Number(position, Key.to) % 8
Payload == FieldPayload(Top.schema, Tag, Wire)

\* What is wrong with a field before its payload is read, if anything.
KeyErrors ==
    CASE fields = MaxFields -> {"limit"}
      [] fields # MaxFields /\ ~Key.ok -> {"malformed"}
      [] fields # MaxFields /\ Key.ok /\ (Tag = 0 \/ Tag >= TagLimit) -> {"malformed"}
      [] OTHER -> IF Payload \subseteq {Forbidden} THEN {"unsupported"} ELSE {}

RejectKey ==
    /\ Turn
    /\ \E code \in KeyErrors : Reject(code)

\* Mutant: the position of the skipped bytes is not compared with the slice.
ScalarUnchecked ==
    /\ Turn
    /\ KeyErrors = {} /\ Scalar \in Payload
    /\ position' = Key.to + (IF Wire = 0 THEN 1 ELSE IF Wire = 1 THEN 8 ELSE 4)
    /\ UNCHANGED <<bytes, frames, verdict>>

SkipScalar ==
    /\ Turn
    /\ KeyErrors = {} /\ Scalar \in Payload
    /\ LET field == ScalarAt(Key.to, Wire, Top.end)
       IN  IF field.ok
           THEN position' = field.to /\ UNCHANGED <<bytes, frames, verdict>>
           ELSE Reject(field.code)

SkipBytes ==
    /\ Turn
    /\ KeyErrors = {}
    /\ LET field == Delimited(Key.to, Top.start, Top.end)
       IN  \E payload \in {p \in Payload : p[1] = "bytes"} :
              IF ~field.ok THEN Reject(field.code)
              ELSE IF field.to - field.from > payload[2] THEN Reject("limit")
              ELSE position' = field.to /\ UNCHANGED <<bytes, frames, verdict>>

\* Mutant: the nested message may read on to the end of the one around it.
EnterLoose ==
    /\ Turn
    /\ KeyErrors = {}
    /\ LET field == Delimited(Key.to, Top.start, Top.end)
       IN  \E payload \in {p \in Payload : p[1] = "message"} :
              IF ~field.ok THEN Reject(field.code)
              ELSE IF Len(frames) > MaxDepth THEN Reject("limit")
              ELSE /\ position' = field.from
                   /\ frames' = Append(frames, [schema |-> payload[2], start |-> field.from,
                                                end |-> Top.end])
                   /\ UNCHANGED <<bytes, verdict>>

\* The call of scan_message for a nested message, with a slice of its own.
Enter ==
    /\ Turn
    /\ KeyErrors = {}
    /\ LET field == Delimited(Key.to, Top.start, Top.end)
       IN  \E payload \in {p \in Payload : p[1] = "message"} :
              IF ~field.ok THEN Reject(field.code)
              ELSE IF Len(frames) > MaxDepth THEN Reject("limit")
              ELSE /\ position' = field.from
                   /\ frames' = Append(frames, [schema |-> payload[2], start |-> field.from,
                                                end |-> field.to])
                   /\ UNCHANGED <<bytes, verdict>>

\* The end of a slice: the call returns to the one around it.
Leave ==
    /\ verdict = "scanning"
    /\ position >= Top.end
    /\ frames' = SubSeq(frames, 1, Len(frames) - 1)
    /\ verdict' = IF Len(frames) = 1 THEN "ok" ELSE "scanning"
    /\ UNCHANGED <<bytes, position, fields>>

Next == Inspect \/ RejectKey \/ SkipScalar \/ SkipBytes \/ Enter \/ Leave

Spec == Init /\ [][Next]_scan

------------------------------------------------------------------------------
(***************************************************************************)
(* The language of the messages, for reference: a message is a sequence of *)
(* fields, however they are found.                                         *)
(***************************************************************************)
IsVarint(i, j) ==
    /\ j - i \in 1..VarintBytes
    /\ \A k \in i..(j - 2) : Continued(k)
    /\ ~Continued(j - 1)
    /\ j - i = VarintBytes => ByteAt(j - 1) <= 1

\* The ends of a length before the bytes that it counts, which end at m.
Lengths(k, m) == {h \in (k + 1)..m : IsVarint(k, h) /\ Number(k, h) = m - h}

\* The numbers of fields of the messages in a payload from k to m, at depth d: none
\* if the bytes are no such payload.
InPayload(count, k, m, wire, payload, d) ==
    CASE payload[1] = "scalar" ->
           IF \/ wire = 0 /\ IsVarint(k, m)
              \/ wire = 1 /\ m - k = 8
              \/ wire = 5 /\ m - k = 4
           THEN {0} ELSE {}
      [] payload[1] = "bytes" -> {0 : h \in {h \in Lengths(k, m) : m - h <= payload[2]}}
      [] payload[1] = "message" ->
           UNION {count[<<h, m, payload[2], d + 1>>] : h \in Lengths(k, m)}
      [] OTHER -> {}

\* The same of a field from i to m in a message of schema s: a key, then a payload.
InField(count, i, m, s, d) ==
    UNION {LET key == Number(i, k)
           IN  UNION {InPayload(count, k, m, key % 8, p, d) :
                         p \in FieldPayload(s, key \div 8, key % 8)} :
           k \in {k \in (i + 1)..m : IsVarint(i, k)}}

\* The sums of one number of each set, and one.
Sums(A, B) == {1 + a + b : a \in A, b \in B}

\* A message is empty, or a field and the rest of the message.
InMessage(count, i, j, s, d) ==
    IF d > MaxDepth THEN {}
    ELSE IF i = j THEN {0}
    ELSE UNION {Sums(InField(count, i, m, s, d), count[<<m, j, s, d>>]) : m \in (i + 1)..j}

\* The numbers of fields that a message from i to j may have, nested ones included;
\* there is one if the bytes are a message, and none if they are not.
Spans == (0..Len(bytes)) \X (0..Len(bytes)) \X Schemas \X (0..(MaxDepth + 1))

Messages ==
    LET count[span \in Spans] == InMessage(count, span[1], span[2], span[3], span[4])
    IN  count

FieldCounts == Messages[<<0, Len(bytes), "Model", 0>>]

\* What the models and the limits may be for the theorems.
ScanInputs ==
    /\ \A m \in Models : m \in Seq(0..255)
    /\ {MaxModelBytes, MaxFields, MaxDepth, MaxText} \subseteq Nat
    /\ VarintBytes \in Nat \ {0}
    /\ TagLimit \in Nat /\ \A s \in Schemas : \A row \in FieldRows[s] : \A tag \in row[1] : tag < TagLimit
    /\ PositionLimit \in Nat /\ MaxModelBytes < PositionLimit

\* The scanner accepts a model if and only if its bytes are a message of the schema,
\* nested no deeper than the limit, with no more fields in all its messages together
\* than the budget; wherever slices, lengths and overlong numbers end.
ScanIsExact ==
    verdict \in Codes \cup {"ok"} =>
        (verdict = "ok" <=>
            /\ Len(bytes) \in 1..MaxModelBytes
            /\ \E count \in FieldCounts : count <= MaxFields)
==============================================================================
