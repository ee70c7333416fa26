------------------------------- MODULE BatchWire -------------------------------
(***************************************************************************)
(* The byte limits of requests that carry images in base64: WireLimits     *)
(* derives the limit of a body from the limit of an image, the transport   *)
(* refuses a larger body unread, and recognize_batch and mcp_call count    *)
(* the images again as they decode them.                                   *)
(***************************************************************************)
EXTENDS Integers, Sequences

CONSTANTS
    ImageLimits,    \* what WireLimits.image may be configured to
    Images,         \* the sizes of the images that are sent, in bytes
    Shells,         \* the sizes of an item of a request without its image
    Wrappers,       \* the sizes of what is around the items of a batch or a tools/call
    ItemOverhead,   \* the size of the item that WireLimits::new measures
    BatchShell,     \* the size of the batch without items that it measures
    McpShell,       \* the size of the tools/call without arguments that it measures
    MaxBatchItems,  \* MAX_BATCH_ITEMS
    MaxExcess       \* a client sends no more than this many bytes beyond the limit

ASSUME WireAssumption ==
    /\ ImageLimits \subseteq Nat /\ Images \subseteq Nat /\ Shells \subseteq Nat
    /\ Wrappers \subseteq Nat
    /\ ItemOverhead \in Nat /\ BatchShell \in Nat /\ McpShell \in Nat /\ MaxExcess \in Nat
    /\ MaxBatchItems = 8

Routes == {"single", "batch", "mcp"}

VARIABLES
    limit,     \* WireLimits.image, and batch_images
    route,     \* the route, with the body limit of its own
    items,     \* the images of the request: their bytes, and those up to each one's end
    bytes,     \* the bytes of them all
    groups,    \* the groups of four characters that encode them
    overhead,  \* the characters of the items without their images
    around,    \* the characters around the items and the commas between them
    stage,     \* "compose", "sent", "decode", or the answer
    decoded,   \* the items that were decoded
    total      \* total, the bytes that they have

request == <<limit, route, items, bytes, groups, overhead, around>>
wire == <<limit, route, items, bytes, groups, overhead, around, stage, decoded, total>>

Answers == {"admitted", "too_large", "invalid"}

Groups(size) == (size + 2) \div 3

\* base64_wire_len
Base64(size) == 4 * Groups(size)

\* WireLimits::new
JsonSingle == Base64(limit) + ItemOverhead

\* Mutant: each image of a batch is taken to encode no longer than its share.
JsonBatchUnsplit == Base64(limit) + MaxBatchItems * ItemOverhead + BatchShell

JsonBatch ==
    Base64(limit) + 4 * (MaxBatchItems - 1) + MaxBatchItems * ItemOverhead + BatchShell

Mcp == JsonBatch + McpShell

\* DefaultBodyLimit of each route.
BodyLimit ==
    CASE route = "single" -> JsonSingle
      [] route = "batch" -> JsonBatch
      [] route = "mcp" -> Mcp

\* What WireLimits::new expects around the items.
Expected ==
    CASE route = "single" -> 0
      [] route = "batch" -> BatchShell
      [] route = "mcp" -> McpShell + BatchShell

Commas == IF items = <<>> THEN 0 ELSE Len(items) - 1

\* The characters of a body.
Body == 4 * groups + overhead + Commas + around

Init ==
    /\ limit \in ImageLimits
    /\ route \in Routes
    /\ items = <<>> /\ bytes = 0 /\ groups = 0 /\ overhead = 0 /\ around = 0
    /\ stage = "compose"
    /\ decoded = 0 /\ total = 0

\* A client adds an image to its request.
Compose ==
    /\ stage = "compose"
    /\ route = "single" => Len(items) = 0
    /\ Len(items) <= MaxBatchItems
    /\ \E size \in Images, shell \in Shells :
          /\ bytes + size <= limit + MaxExcess
          /\ items' = Append(items, [size |-> size, end |-> bytes + size])
          /\ bytes' = bytes + size
          /\ groups' = groups + Groups(size)
          /\ overhead' = overhead + shell
    /\ UNCHANGED <<limit, route, around, stage, decoded, total>>

\* It puts its own whitespace and, in MCP, its own id around them.
Send ==
    /\ stage = "compose"
    /\ route = "single" => Len(items) = 1
    /\ stage' = "sent"
    /\ IF route = "single" THEN UNCHANGED around ELSE around' \in Wrappers
    /\ UNCHANGED <<limit, route, items, bytes, groups, overhead, decoded, total>>

\* The extractor of the body, and has_valid_cardinality.
Receive ==
    /\ stage = "sent"
    /\ stage' = IF Body > BodyLimit THEN "too_large"
                ELSE IF Len(items) \in 1..MaxBatchItems THEN "decode" ELSE "invalid"
    /\ UNCHANGED <<request, decoded, total>>

\* A turn of the loop over the items: decode_json_request, then the sum.
DecodeItem ==
    /\ stage = "decode"
    /\ decoded < Len(items)
    /\ decoded' = decoded + 1
    /\ LET size == items[decoded + 1].size
       IN  /\ total' = total + size
           /\ stage' = IF size > limit THEN "invalid"
                       ELSE IF total + size > limit THEN "too_large" ELSE "decode"
    /\ UNCHANGED request

AllDecoded ==
    /\ stage = "decode"
    /\ decoded = Len(items)
    /\ stage' = "admitted"
    /\ UNCHANGED <<request, decoded, total>>

Next == Compose \/ Send \/ Receive \/ DecodeItem \/ AllDecoded

Spec == Init /\ [][Next]_wire

------------------------------------------------------------------------------
\* The limits that the capabilities advertise.
Legal == Len(items) \in 1..MaxBatchItems /\ bytes <= limit

\* No longer, but for its images, than what WireLimits::new measures: items written
\* without whitespace and with a confidence of 0.0, and an id of four characters.
Compact == overhead <= Len(items) * ItemOverhead /\ around <= Expected

\* The two checks, of the body unread and of the images decoded one by one, agree:
\* nothing above the advertised limits on images and items is admitted, and a compact
\* request within them is, however its bytes are split: padding, commas and shells fit
\* beside the encoded images to the last byte.
LimitsAreExact ==
    /\ stage = "admitted" => Legal
    /\ stage \in Answers /\ Legal /\ Compact => stage = "admitted"
==============================================================================
