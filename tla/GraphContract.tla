---------------------------- MODULE GraphContract ----------------------------
(***************************************************************************)
(* The admission of a decoded ONNX model: its graph, with the graphs in    *)
(* the attributes of its nodes, is validated under budgets that all of     *)
(* them share, summarized, and compared with a reviewed contract.          *)
(*                                                                         *)
(* A string is a number in its order, and 0 is the empty one.  The strings *)
(* of a scanned model are no longer than the text limit.                   *)
(***************************************************************************)
EXTENDS Integers, Sequences, FiniteSets, SequencesExt

CONSTANTS
    Decoded,        \* the models that are qualified, each with IsModel
    MaxGraphDepth,  \* MAX_PROTO_DEPTH
    MaxGraphIo,     \* MAX_GRAPH_IO
    MaxOpsets,      \* MAX_OPSETS
    MaxNodes,       \* MAX_GRAPH_NODES
    MaxAttributes,  \* MAX_GRAPH_ATTRIBUTES
    MaxTensors,     \* MAX_GRAPH_TENSORS
    MaxValues,      \* MAX_GRAPH_VALUES
    MaxRank,        \* MAX_TENSOR_RANK
    MaxContract,    \* MAX_CONTRACT_BYTES, of one byte for each row of the document
    Absent          \* None: a model value

VARIABLES
    model,   \* the model of an artifact
    answer   \* what its qualification returned: nothing yet, an error, or its summary

contract == <<model, answer>>

NoError == "none"

StandardDomains == {0, 1}

------------------------------------------------------------------------------
(***************************************************************************)
(* The messages that the decoder returns, with the fields that are kept.   *)
(***************************************************************************)
\* Where the data of a tensor are is all that matters of it besides its name.
TensorProto == [name : Nat, external : BOOLEAN]
SparseTensorProto == [values : {Absent} \cup TensorProto, indices : {Absent} \cup TensorProto]

\* A type that is no tensor counts as none.
Dimension == [kind : {"fixed", "symbol", "neither"}, of : Int]
TypeProto == [element : Int, shape : {Absent} \cup Seq(Dimension)]
ValueInfoProto == [name : Nat, type : {Absent} \cup TypeProto]

OperatorSetIdProto == [domain : Nat, version : Int]

RECURSIVE IsGraph(_)

IsAttribute(a) ==
    /\ a.name \in Nat /\ a.reference \in BOOLEAN
    /\ a.tensors \in Seq(TensorProto) /\ a.sparse \in Seq(SparseTensorProto)
    /\ \A i \in DOMAIN a.graphs : IsGraph(a.graphs[i])

IsNode(n) ==
    /\ n.domain \in Nat /\ n.operator \in Nat /\ n.overload \in BOOLEAN
    /\ n.outputs \in Seq(Nat)
    /\ \A i \in DOMAIN n.attributes : IsAttribute(n.attributes[i])

IsGraph(g) ==
    /\ {g.inputs, g.outputs, g.values} \subseteq Seq(ValueInfoProto)
    /\ g.initializers \in Seq(TensorProto) /\ g.sparse \in Seq(SparseTensorProto)
    /\ \A i \in DOMAIN g.nodes : IsNode(g.nodes[i])

\* A model for training, or with functions, is one case.
IsModel(m) ==
    /\ m.ir \in Int /\ m.opsets \in Seq(OperatorSetIdProto) /\ m.training \in BOOLEAN
    /\ m.graph = Absent \/ IsGraph(m.graph)

------------------------------------------------------------------------------
(***************************************************************************)
(* Parts of a graph that change no budget.                                 *)
(***************************************************************************)
\* validate_value_names
Unnamed(values) ==
    \E i \in DOMAIN values :
        values[i].name = 0 \/ \E j \in 1..(i - 1) : values[j].name = values[i].name

\* validate_tensor
TensorError(tensor) == IF tensor.external THEN "unsupported" ELSE NoError

\* validate_sparse_tensor
SparseError(sparse) ==
    CASE Absent \in {sparse.values, sparse.indices} -> "malformed"
      [] OTHER -> IF sparse.values.external \/ sparse.indices.external
                  THEN "unsupported" ELSE NoError

\* An initializer is a tensor, or a sparse one with the name of its values.
Weights(graph) ==
    [i \in DOMAIN graph.initializers |->
        [name |-> graph.initializers[i].name, error |-> TensorError(graph.initializers[i])]]
    \o [i \in DOMAIN graph.sparse |->
        [name |-> IF graph.sparse[i].values = Absent THEN 0 ELSE graph.sparse[i].values.name,
         error |-> SparseError(graph.sparse[i])]]

FirstBad(items, Bad(_)) ==
    LET bad == {i \in DOMAIN items : Bad(i)}
    IN  IF bad = {} THEN 0 ELSE CHOOSE i \in bad : \A j \in bad : i <= j

\* The error of the first initializer that has one, or takes the name of another.
WeightsError(weights) ==
    LET first == FirstBad(weights, LAMBDA i :
                     weights[i].error # NoError \/ Unnamed(SubSeq(weights, 1, i)))
    IN  CASE first = 0 -> NoError
          [] first # 0 /\ weights[first].error # NoError -> weights[first].error
          [] OTHER -> "malformed"

\* The tensors of an attribute, in the order in which they are validated.
TensorsError(attribute) ==
    LET errors == [i \in DOMAIN attribute.tensors |-> TensorError(attribute.tensors[i])]
                  \o [i \in DOMAIN attribute.sparse |-> SparseError(attribute.sparse[i])]
        first == FirstBad(errors, LAMBDA i : errors[i] # NoError)
    IN  IF first = 0 THEN NoError ELSE errors[first]

------------------------------------------------------------------------------
(***************************************************************************)
(* The validation carries its budget, and its multiset of operators, from  *)
(* one graph to the next; the first error ends it.                         *)
(***************************************************************************)
\* GraphBudget, the operators, and the error.
FreshBudget ==
    [nodes |-> 0, attributes |-> 0, tensors |-> 0, values |-> 0,
     operators |-> [o \in {} |-> 0], error |-> NoError]

Failed(budget) == budget.error # NoError
Fail(budget, code) == [budget EXCEPT !.error = code]

OverBudget(budget) ==
    \/ budget.nodes > MaxNodes
    \/ budget.attributes > MaxAttributes
    \/ budget.tensors > MaxTensors
    \/ budget.values > MaxValues

Counted(operators, operator) ==
    [o \in DOMAIN operators \cup {operator} |->
        (IF o \in DOMAIN operators THEN operators[o] ELSE 0) + (IF o = operator THEN 1 ELSE 0)]

RECURSIVE ValidateGraph(_, _, _)

\* Mutant: what the graphs of an attribute used up is forgotten after it.
ValidateAttributeApart(attribute, depth, budget) ==
    LET counted == [budget EXCEPT !.tensors =
                        @ + Len(attribute.tensors) + Len(attribute.sparse)]
        inner == FoldLeft(LAMBDA b, graph :
                             IF Failed(b) THEN b ELSE ValidateGraph(graph, depth, b),
                          counted, attribute.graphs)
    IN  CASE OverBudget(counted) -> Fail(counted, "limit")
          [] ~OverBudget(counted) /\ TensorsError(attribute) # NoError ->
               Fail(counted, TensorsError(attribute))
          [] OTHER -> [counted EXCEPT !.error = inner.error, !.operators = inner.operators]

\* validate_attribute
ValidateAttribute(attribute, depth, budget) ==
    LET counted == [budget EXCEPT !.tensors =
                        @ + Len(attribute.tensors) + Len(attribute.sparse)]
    IN  CASE OverBudget(counted) -> Fail(counted, "limit")
          [] ~OverBudget(counted) /\ TensorsError(attribute) # NoError ->
               Fail(counted, TensorsError(attribute))
          [] OTHER -> FoldLeft(LAMBDA b, graph :
                                  IF Failed(b) THEN b ELSE ValidateGraph(graph, depth, b),
                               counted, attribute.graphs)

\* The attributes of a node, in order.
ValidateAttributes(attributes, depth, budget) ==
    FoldLeft(LAMBDA b, i :
                IF Failed(b) THEN b
                ELSE IF Unnamed(SubSeq(attributes, 1, i)) \/ attributes[i].reference
                THEN Fail(b, "malformed")
                ELSE ValidateAttribute(attributes[i], depth, b),
             budget, [i \in DOMAIN attributes |-> i])

\* Whether a node produces a value that an initializer, a node before it, or the
\* node itself produces too.
ProducesAgain(nodes, i, weights) ==
    LET before == weights \o FlattenSeq([k \in 1..(i - 1) |-> nodes[k].outputs])
        mine == nodes[i].outputs
    IN  \E j \in DOMAIN mine :
            mine[j] # 0 /\ mine[j] \in Range(before \o SubSeq(mine, 1, j - 1))

\* A turn of the loop over the nodes.
ValidateNode(nodes, i, weights, depth, budget) ==
    LET node == nodes[i]
        counted == [budget EXCEPT
                        !.operators = Counted(@, <<node.domain, node.operator>>),
                        !.attributes = @ + Len(node.attributes)]
        checked == ValidateAttributes(node.attributes, depth + 1, counted)
    IN  CASE node.operator = 0 \/ node.domain \notin StandardDomains \/ node.overload ->
               Fail(budget, "unsupported")
          [] OTHER ->
               IF OverBudget(counted) THEN Fail(counted, "limit")
               ELSE IF Failed(checked) THEN checked
               ELSE IF ProducesAgain(nodes, i, weights) THEN Fail(checked, "malformed")
               ELSE checked

\* validate_graph
ValidateGraph(graph, depth, budget) ==
    LET counted == [budget EXCEPT
                        !.nodes = @ + Len(graph.nodes),
                        !.tensors = @ + Len(graph.initializers) + Len(graph.sparse),
                        !.values = @ + Len(graph.inputs) + Len(graph.outputs) + Len(graph.values)]
        weights == Weights(graph)
        names == [i \in DOMAIN weights |-> weights[i].name]
    IN  CASE depth > MaxGraphDepth \/ <<>> \in {graph.inputs, graph.outputs} ->
               Fail(budget, "malformed")
          [] OTHER ->
               IF OverBudget(counted) THEN Fail(counted, "limit")
               ELSE IF \E values \in {graph.inputs, graph.outputs, graph.values} : Unnamed(values)
               THEN Fail(counted, "malformed")
               ELSE IF WeightsError(weights) # NoError THEN Fail(counted, WeightsError(weights))
               ELSE FoldLeft(LAMBDA b, i :
                                IF Failed(b) THEN b
                                ELSE ValidateNode(graph.nodes, i, names, depth, b),
                             counted, [i \in DOMAIN graph.nodes |-> i])

------------------------------------------------------------------------------
(***************************************************************************)
(* The summary of a model.                                                 *)
(***************************************************************************)
\* tensor_contracts, of one value; a dimension is a fixed number, a symbol or neither.
ValueError(value) ==
    CASE value.type = Absent -> "unsupported"
      [] value.type # Absent /\ (value.type.element <= 0 \/ value.type.shape = Absent) ->
           "malformed"
      [] OTHER ->
           IF Len(value.type.shape) > MaxRank THEN "limit"
           ELSE IF \A i \in DOMAIN value.type.shape :
                      LET d == value.type.shape[i]
                      IN  (d.kind = "fixed" /\ d.of >= 0) \/ (d.kind = "symbol" /\ d.of # 0)
           THEN NoError ELSE "malformed"

TensorContract(value) ==
    [name |-> value.name, element |-> value.type.element, dimensions |-> value.type.shape]

TensorContracts(values) == [i \in DOMAIN values |-> TensorContract(values[i])]

\* The order of tuples that is derived for OpsetContract and OperatorContract.
Before(a, b) ==
    \E i \in DOMAIN a : a[i] < b[i] /\ \A j \in 1..(i - 1) : a[j] = b[j]

\* Mutant: the operator sets stay in the order of the model.
Unsorted(rows) == rows

Sorted(rows) == SortSeq(rows, Before)

OpsetsOf(m) == Sorted([i \in DOMAIN m.opsets |-> <<m.opsets[i].domain, m.opsets[i].version>>])

OpsetsError(opsets) ==
    \E i \in DOMAIN opsets :
        \/ opsets[i].domain \notin StandardDomains
        \/ opsets[i].version <= 0
        \/ \E j \in 1..(i - 1) : opsets[j].domain = opsets[i].domain

OperatorsOf(budget) ==
    Sorted(SetToSeq({o \o <<budget.operators[o]>> : o \in DOMAIN budget.operators}))

Rejected(code) == [error |-> code]

\* summarize_model
SummarizeModel(m) ==
    LET budget == ValidateGraph(m.graph, 0, FreshBudget)
        values == m.graph.inputs \o m.graph.outputs
        first == FirstBad(values, LAMBDA i : ValueError(values[i]) # NoError)
    IN  IF m.ir <= 0 \/ m.opsets = <<>> \/ m.graph = Absent
        THEN Rejected("malformed")
        ELSE IF m.training \/ OpsetsError(m.opsets) THEN Rejected("unsupported")
        ELSE IF Failed(budget) THEN Rejected(budget.error)
        ELSE IF first # 0 THEN Rejected(ValueError(values[first]))
        ELSE [error |-> NoError, ir |-> m.ir, opsets |-> OpsetsOf(m),
              inputs |-> TensorContracts(m.graph.inputs),
              outputs |-> TensorContracts(m.graph.outputs),
              operators |-> OperatorsOf(budget)]

------------------------------------------------------------------------------
(***************************************************************************)
(* Contracts.  An artifact is the model it holds: its length and its       *)
(* digest stand for its bytes.                                             *)
(***************************************************************************)
Ascending(tuples) ==
    \A i \in 1..(Len(tuples) - 1) : Before(tuples[i], tuples[i + 1])

\* A key is there twice.
Duplicates(keys) == \E i, j \in DOMAIN keys : i < j /\ keys[i] = keys[j]

\* The measured part of a contract may be absent while it is provisional.
TensorInvalid(tensor) ==
    \/ tensor.name = 0
    \/ tensor.element # Absent /\ tensor.element <= 0
    \/ /\ tensor.dimensions # Absent
       /\ \/ Len(tensor.dimensions) > MaxRank
          \/ \E i \in DOMAIN tensor.dimensions :
                tensor.dimensions[i].kind = "symbol" /\ tensor.dimensions[i].of = 0

\* validate_contract_document
InvalidContract(c) ==
    LET tensors == Range(c.inputs) \cup Range(c.outputs)
        Names(values) == [i \in DOMAIN values |-> values[i].name]
        domains == [i \in DOMAIN c.opsets |-> c.opsets[i][1]]
        operators == [i \in DOMAIN c.operators |-> <<c.operators[i][1], c.operators[i][2]>>]
    IN  \/ Len(c.opsets) > MaxOpsets
        \/ Len(c.inputs) > MaxGraphIo \/ Len(c.outputs) > MaxGraphIo
        \/ Len(c.operators) > MaxNodes
        \/ Duplicates(domains) \/ Duplicates(operators)
        \/ Duplicates(Names(c.inputs)) \/ Duplicates(Names(c.outputs))
        \/ ~Ascending(c.opsets) \/ ~Ascending(c.operators)
        \/ \E t \in tensors : TensorInvalid(t)
        \/ \E o \in Range(c.opsets) : o[1] \notin StandardDomains \/ o[2] <= 0
        \/ \E o \in Range(c.operators) :
              o[1] \notin StandardDomains \/ o[2] = 0 \/ o[3] \notin 1..MaxNodes
        \/ /\ c.qualified
           /\ \/ c.ir = Absent \/ c.ir <= 0
              \/ <<>> \in {c.opsets, c.inputs, c.outputs, c.operators}
              \/ \E t \in tensors : Absent \in {t.element, t.dimensions}

\* admit_onnx_model
AdmitModel(m, c) ==
    LET summary == SummarizeModel(m)
        Executable == {"ir", "opsets", "inputs", "outputs", "operators"}
    IN  IF InvalidContract(c) THEN Rejected("invalid_contract")
        ELSE IF ~c.qualified THEN Rejected("provisional_contract")
        ELSE IF c.artifact # m THEN Rejected("contract_mismatch")
        ELSE IF summary.error # NoError THEN summary
        ELSE IF \E field \in Executable : c[field] # summary[field]
        THEN Rejected("contract_mismatch")
        ELSE summary

\* qualify_bytes: the contract of an artifact is made of its summary, and has to
\* pass the validation of contracts and the admission of the artifact.
ContractOf(m) ==
    LET summary == SummarizeModel(m)
    IN  [artifact |-> m, qualified |-> TRUE, ir |-> summary.ir, opsets |-> summary.opsets,
         inputs |-> summary.inputs, outputs |-> summary.outputs, operators |-> summary.operators]

\* The length of the document that parse_model_contract reads.
DocumentSize(c) == Len(c.opsets) + Len(c.inputs) + Len(c.outputs) + Len(c.operators)

Qualify(m) ==
    IF SummarizeModel(m).error # NoError THEN SummarizeModel(m)
    ELSE IF DocumentSize(ContractOf(m)) > MaxContract \/ InvalidContract(ContractOf(m))
    THEN Rejected("invalid_contract")
    ELSE AdmitModel(m, ContractOf(m))

Unanswered == [error |-> "pending"]

Init == model \in Decoded /\ answer = Unanswered

QualifyModel ==
    /\ answer = Unanswered
    /\ answer' = Qualify(model)
    /\ UNCHANGED model

Next == QualifyModel

Spec == Init /\ [][Next]_contract

------------------------------------------------------------------------------
(***************************************************************************)
(* What the admission promises, of a graph and of the graphs in it.        *)
(***************************************************************************)
RECURSIVE Nested(_)
Nested(graph) ==
    <<graph>> \o FlattenSeq([i \in DOMAIN graph.nodes |->
        FlattenSeq([j \in DOMAIN graph.nodes[i].attributes |->
            FlattenSeq([k \in DOMAIN graph.nodes[i].attributes[j].graphs |->
                Nested(graph.nodes[i].attributes[j].graphs[k])])])])

Sum(graphs, Size(_)) == FoldLeft(LAMBDA total, graph : total + Size(graph), 0, graphs)

AttributesOf(graph) ==
    FlattenSeq([i \in DOMAIN graph.nodes |-> graph.nodes[i].attributes])

WithinLimits(graphs) ==
    /\ Sum(graphs, LAMBDA g : Len(g.nodes)) <= MaxNodes
    /\ Sum(graphs, LAMBDA g : Len(AttributesOf(g))) <= MaxAttributes
    /\ Sum(graphs, LAMBDA g : Len(g.initializers) + Len(g.sparse)
                              + Sum(AttributesOf(g), LAMBDA a : Len(a.tensors) + Len(a.sparse)))
          <= MaxTensors
    /\ Sum(graphs, LAMBDA g : Len(g.inputs) + Len(g.outputs) + Len(g.values)) <= MaxValues

NoDuplicates(names) == Cardinality(Range(names)) = Len(names)

WellFormed(graph) ==
    LET sparse == Range(graph.sparse) \cup UNION {Range(a.sparse) : a \in Range(AttributesOf(graph))}
        tensors == Range(graph.initializers)
                   \cup UNION {Range(a.tensors) : a \in Range(AttributesOf(graph))}
                   \cup UNION {{s.values, s.indices} : s \in sparse}
        Names(values) == [i \in DOMAIN values |-> values[i].name]
        produced == Names(graph.initializers)
                    \o [i \in DOMAIN graph.sparse |-> graph.sparse[i].values.name]
                    \o SelectSeq(FlattenSeq([i \in DOMAIN graph.nodes |-> graph.nodes[i].outputs]),
                                 LAMBDA name : name # 0)
        named == {Names(values) : values \in {graph.inputs, graph.outputs, graph.values}}
                 \cup {Names(n.attributes) : n \in Range(graph.nodes)}
    IN  /\ graph.inputs # <<>> /\ graph.outputs # <<>>
        /\ Absent \notin tensors
        /\ \A t \in tensors : ~t.external
        /\ \A names \in named \cup {produced} : 0 \notin Range(names) /\ NoDuplicates(names)
        /\ \A n \in Range(graph.nodes) :
              n.operator # 0 /\ n.domain \in StandardDomains /\ ~n.overload
        /\ \A a \in Range(AttributesOf(graph)) : ~a.reference

Occurrences(graphs, operator) ==
    Sum(graphs, LAMBDA g : Cardinality({i \in DOMAIN g.nodes :
                                           <<g.nodes[i].domain, g.nodes[i].operator>> = operator}))

\* A validation that ends at the first error, with budgets that run through nested
\* graphs, accepts exactly the graphs that are well-formed at every level and, all
\* levels together, within the limits; blames a limit only if one is exceeded; and
\* counts the operators of every level.
AdmissionIsLocal ==
    answer # Unanswered /\ model.graph # Absent =>
        LET budget == ValidateGraph(model.graph, 0, FreshBudget)
            graphs == Nested(model.graph)
        IN  /\ ~Failed(budget) <=>
                   /\ \A g \in Range(graphs) : WellFormed(g)
                   /\ WithinLimits(graphs)
            /\ budget.error = "limit" => ~WithinLimits(graphs)
            /\ ~Failed(budget) =>
                   \A o \in StandardDomains \X (1..3) :
                       Occurrences(graphs, o) =
                           (IF o \in DOMAIN budget.operators THEN budget.operators[o] ELSE 0)

\* What the inspection accepts can be put under contract: the contract made from its
\* summary passes the validation of contracts, and the model passes the contract,
\* unless it has no node at all, or more values than a contract may list, or makes a
\* document that is too long.
QualifiedIsAdmitted ==
    answer # Unanswered /\ SummarizeModel(model).error = NoError =>
        (answer = SummarizeModel(model) <=>
            /\ model.graph.nodes # <<>>
            /\ Len(model.graph.inputs) <= MaxGraphIo
            /\ Len(model.graph.outputs) <= MaxGraphIo
            /\ DocumentSize(ContractOf(model)) <= MaxContract)
==============================================================================
