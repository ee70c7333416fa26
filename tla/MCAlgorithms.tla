----------------------------- MODULE MCAlgorithms ----------------------------
(***************************************************************************)
(* Instances of the sequential parts for TLC.  A behaviour runs one of     *)
(* them, which the first state chooses; the others stay as they begin.     *)
(***************************************************************************)
EXTENDS Inputs

CONSTANT Absent

VARIABLES
    job,       \* the part that runs
    model, answer,                                               \* GraphContract
    foreground, visited, stack, boundary, contours, rectangles   \* TextRegions

------------------------------------------------------------------------------
(***************************************************************************)
(* Serialized models: all the short ones over the bytes that matter, and   *)
(* those that differ from three longer ones in a byte, or lack their end.  *)
(***************************************************************************)
Alphabet == {0, 1, 2, 8, 10, 18, 58, 128}

\* A graph with a node, an attribute, a tensor and a string; an overlong key before a
\* graph; an attribute with a number of four bytes.
Seeds == {<<58, 8, 10, 6, 42, 4, 50, 2, 18, 0>>,
          <<8, 128, 128, 128, 1, 58, 4, 10, 2, 18, 0>>,
          <<58, 9, 10, 7, 42, 5, 21, 1, 1, 1, 1>>}

Near(seed) ==
    {[seed EXCEPT ![i] = b] : i \in DOMAIN seed,
        b \in Alphabet \cup {3, 4, 5, 6, 7, 9, 16, 66, 162, 255}}
    \cup {SubSeq(seed, 1, n) : n \in DOMAIN seed}
    \cup {Append(seed, b) : b \in Alphabet}

\* A length that overflows a position, a tag that overflows its type, too many bytes.
Extremes == {<<58, 255, 255, 255, 1, 0>>, <<128, 128, 128, 1, 0>>, [i \in 1..13 |-> 8]}

MCModels ==
    UNION {[1..n -> Alphabet] : n \in 0..4} \cup UNION {Near(s) : s \in Seeds} \cup Extremes

------------------------------------------------------------------------------
(***************************************************************************)
(* Decoded models: each has a fault, a limit reached or exceeded, or two   *)
(* of them, in one of its parts or in a graph inside an attribute.         *)
(***************************************************************************)
Typed == [element |-> 1, shape |-> <<[kind |-> "fixed", of |-> 1], [kind |-> "symbol", of |-> 1]>>]
Types == {Typed, Absent, [Typed EXCEPT !.element = 0], [Typed EXCEPT !.shape = Absent],
          [Typed EXCEPT !.shape = <<>>], [Typed EXCEPT !.shape = @ \o @]}
    \cup {[Typed EXCEPT !.shape = <<d>>] : d \in [kind : {"fixed", "symbol", "neither"}, of : {-1, 0}]}
Value(n) == [name |-> n, type |-> Typed]
Weight == [name |-> 3, external |-> FALSE]
Stored == [Weight EXCEPT !.external = TRUE]
Sparse == [values |-> [Weight EXCEPT !.name = 4], indices |-> [Weight EXCEPT !.name = 0]]
Sparses == {Sparse, [Sparse EXCEPT !.values = Absent], [Sparse EXCEPT !.indices = Absent],
            [Sparse EXCEPT !.values = Stored], [Sparse EXCEPT !.indices = Stored],
            [Sparse EXCEPT !.values = Weight]}
Leaf == [inputs |-> <<Value(1)>>, outputs |-> <<Value(2)>>, values |-> <<>>,
         initializers |-> <<>>, sparse |-> <<>>, nodes |-> <<>>]
Node == [domain |-> 0, operator |-> 1, overload |-> FALSE, outputs |-> <<2>>, attributes |-> <<>>]
Attribute == [name |-> 1, reference |-> FALSE, tensors |-> <<>>, sparse |-> <<>>, graphs |-> <<>>]
Around(graph) == [Leaf EXCEPT !.nodes = <<[Node EXCEPT !.attributes =
                    <<[Attribute EXCEPT !.graphs = <<graph>>]>>]>>]
Inner == {Leaf, [Leaf EXCEPT !.outputs = <<>>], [Leaf EXCEPT !.nodes = <<Node>>],
          [Leaf EXCEPT !.initializers = <<Weight>>], [Leaf EXCEPT !.initializers = <<Stored>>],
          [Leaf EXCEPT !.nodes = <<Node, Node>>], Around(Leaf)}
Attributes == {Attribute, [Attribute EXCEPT !.name = 0], [Attribute EXCEPT !.name = 2],
               [Attribute EXCEPT !.reference = TRUE]}
    \cup {[Attribute EXCEPT !.tensors = ts] : ts \in {<<Weight>>, <<Weight, Weight>>, <<Weight, Stored>>}}
    \cup {[Attribute EXCEPT !.sparse = <<s>>] : s \in Sparses}
    \cup {[Attribute EXCEPT !.graphs = <<g>>] : g \in Inner}
    \cup {[Attribute EXCEPT !.graphs = <<g, h>>] : g, h \in Inner}
Second == {[a EXCEPT !.name = 2] : a \in {Attribute, [Attribute EXCEPT !.tensors = <<Weight, Weight>>],
                [Attribute EXCEPT !.graphs = <<[Leaf EXCEPT !.nodes = <<Node>>]>>]}} \cup {Attribute}
AttributeLists == {<<a>> : a \in Attributes} \cup {<<a, b>> : a \in Attributes, b \in Second}
Plain == {Node, [Node EXCEPT !.operator = 0], [Node EXCEPT !.domain = 1, !.outputs = <<>>],
          [Node EXCEPT !.domain = 2],
          [Node EXCEPT !.overload = TRUE], [Node EXCEPT !.outputs = <<0, 3, 0>>],
          [Node EXCEPT !.outputs = <<3, 3>>], [Node EXCEPT !.operator = 2, !.outputs = <<4, 1>>]}
Nodes == {[Node EXCEPT !.attributes = l] : l \in AttributeLists}
NodeLists == {<<>>} \cup {<<n>> : n \in Nodes \cup Plain} \cup {<<n, m>> : n \in Plain, m \in Plain}
    \cup {<<n, m>> : n \in Nodes, m \in {[Node EXCEPT !.operator = 2, !.outputs = <<4, 1>>]}}
    \cup {<<n, n, n, n>> : n \in {[Node EXCEPT !.outputs = <<>>]}}
WeightLists == {<<>>, <<Weight>>, <<Stored>>, <<[Weight EXCEPT !.name = 0]>>, <<Weight, Weight>>,
                <<Weight, [Weight EXCEPT !.name = 4]>>, [i \in 1..4 |-> [Weight EXCEPT !.name = i]]}
ValueLists == {<<>>, <<Value(0)>>, <<Value(1)>>, <<Value(1), Value(2)>>, <<Value(2), Value(2)>>,
               [i \in 1..4 |-> Value(i)]}
TopGraphs ==
    {[Leaf EXCEPT !.nodes = l] : l \in NodeLists}
    \cup {[Leaf EXCEPT !.nodes = <<n>>, !.initializers = w, !.sparse = s] :
             n \in Plain, w \in WeightLists, s \in {<<>>} \cup {<<s>> : s \in Sparses}}
    \cup {[Leaf EXCEPT !.nodes = <<Node>>, !.inputs = i, !.outputs = o, !.values = v] :
             i, o, v \in ValueLists}
    \cup {[Leaf EXCEPT !.nodes = <<Node>>, !.inputs[1].type = t, !.outputs[1].type = u] :
             t, u \in Types}
Model == [ir |-> 1, opsets |-> <<[domain |-> 0, version |-> 1]>>, training |-> FALSE,
          graph |-> [Leaf EXCEPT !.nodes = <<Node>>]]
Opset == [domain : 0..2, version : 0..2]
MCDecoded ==
    {[Model EXCEPT !.graph = g] : g \in TopGraphs \cup {Absent}}
    \cup {[Model EXCEPT !.opsets = <<a, b>>] : a, b \in Opset}
    \cup {[Model EXCEPT !.opsets = <<>>], [Model EXCEPT !.ir = 0], [Model EXCEPT !.training = TRUE]}

------------------------------------------------------------------------------
\* Lines of up to two bytes, and what is longer.
MCStreams == UNION {[1..n -> {"lf", "cr", "x"}] : n \in 0..6}

\* Maps of five by three pixels: all subsets of a square at the corner, and all that
\* have one run in each row.
Runs == {{}} \cup {l..r : l, r \in 0..4}
MCMaps ==
    SUBSET {5 * y + x : x, y \in 0..2}
    \cup {UNION {{5 * y + x : x \in rows[y]} : y \in 0..2} : rows \in [0..2 -> Runs]}

Contract == INSTANCE GraphContract WITH
    Decoded <- MCDecoded, MaxGraphDepth <- 8, MaxGraphIo <- 3, MaxOpsets <- 2, MaxNodes <- 3,
    MaxAttributes <- 3, MaxTensors <- 3, MaxValues <- 7, MaxRank <- 2, MaxContract <- 6

ASSUME \A m \in MCDecoded : Contract!IsModel(m)

Regions == INSTANCE TextRegions WITH
    Width <- 5, Height <- 3, Maps <- MCMaps, MaxCandidates <- 2

Contracts == <<model, answer>>
Scans == <<encoded, frames, position, fields, verdict>>
Readers == <<stream, consumed, output, tooLarge, observed, lines, ended>>
Detections == <<foreground, visited, stack, boundary, contours, rectangles>>

NoContract == model = Absent /\ answer = Contract!Unanswered
NoScan == encoded = <<>> /\ frames = <<>> /\ position = 0 /\ fields = 0 /\ verdict = "new"
NoReader ==
    /\ stream = <<>> /\ consumed = 0 /\ output = <<>> /\ tooLarge = FALSE /\ observed = FALSE
    /\ lines = <<>> /\ ended = FALSE
NoRegions ==
    /\ foreground = {} /\ visited = {} /\ stack = <<>> /\ boundary = <<>>
    /\ contours = <<>> /\ rectangles = <<>>
NoWire ==
    /\ limit = 0 /\ route = "single" /\ items = <<>> /\ bytes = 0 /\ groups = 0 /\ overhead = 0 /\ around = 0
    /\ stage = "compose" /\ decoded = 0 /\ total = 0

Start ==
    \/ job = "wire" /\ Init /\ NoContract /\ NoScan /\ NoReader /\ NoRegions
    \/ job = "contract" /\ Contract!Init /\ NoWire /\ NoScan /\ NoReader /\ NoRegions
    \/ job = "scan" /\ Scan!Init /\ NoWire /\ NoContract /\ NoReader /\ NoRegions
    \/ job = "reader" /\ Reader!Init /\ NoWire /\ NoContract /\ NoScan /\ NoRegions
    \/ job = "regions" /\ Regions!Init /\ NoWire /\ NoContract /\ NoScan /\ NoReader

WireOnly == job = "wire" /\ UNCHANGED <<job, Contracts, Scans, Readers, Detections>>
ContractOnly == job = "contract" /\ UNCHANGED <<job, wire, Scans, Readers, Detections>>
ScanOnly == job = "scan" /\ UNCHANGED <<job, wire, Contracts, Readers, Detections>>
ReaderOnly == job = "reader" /\ UNCHANGED <<job, wire, Contracts, Scans, Detections>>
RegionsOnly == job = "regions" /\ UNCHANGED <<job, wire, Contracts, Scans, Readers>>

Step ==
    \/ Compose /\ WireOnly
    \/ Send /\ WireOnly
    \/ Receive /\ WireOnly
    \/ DecodeItem /\ WireOnly
    \/ AllDecoded /\ WireOnly
    \/ ContractOnly /\ Contract!QualifyModel
    \/ Scan!Inspect /\ ScanOnly
    \/ Scan!RejectKey /\ ScanOnly
    \/ Scan!SkipScalar /\ ScanOnly
    \/ Scan!SkipBytes /\ ScanOnly
    \/ Scan!Enter /\ ScanOnly
    \/ Scan!Leave /\ ScanOnly
    \/ Reader!ReadToLineFeed /\ ReaderOnly
    \/ Reader!ReadOn /\ ReaderOnly
    \/ Reader!ReadEof /\ ReaderOnly
    \/ RegionsOnly /\ Regions!Discover
    \/ RegionsOnly /\ Regions!Flood
    \/ RegionsOnly /\ Regions!Enclose

MCSpec == Start /\ [][Step]_<<job, wire, Contracts, Scans, Readers, Detections>>

------------------------------------------------------------------------------
\* The shared budgets accept exactly the graphs that are well-formed at every level and
\* within the limits together (GraphContract).
AdmissionIsLocal == job = "contract" => Contract!AdmissionIsLocal

\* What the inspection accepts can be put under contract (GraphContract).
QualifiedIsAdmitted == job = "contract" => Contract!QualifiedIsAdmitted

\* Contours and rectangles are those of the components of the map (TextRegions).
RegionsAreExact == job = "regions" => Regions!RegionsAreExact
==============================================================================
