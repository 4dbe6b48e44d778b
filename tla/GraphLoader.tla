---------------------------- MODULE GraphLoader ----------------------------
(***************************************************************************)
(* The JSON loaders of graph_runtime.cc: GraphRuntime::Load, Node::Load,  *)
(* Node::LoadAttrs, NodeEntry::Load and GraphAttr::Load.                  *)
(*                                                                         *)
(* A document is taken after tokenisation: every JSON object is the       *)
(* sequence of its keys in document order (which is what the              *)
(* NextObjectItem loops walk) together with the value read for each key.  *)
(* Every CHECK and LOG(FATAL) of the loaders throws, and no loader        *)
(* catches, so a document either loads or makes Load throw; the order of  *)
(* the keys only decides which check throws first, not whether one does.  *)
(* A bitmask accumulator is the set of its bits.                          *)
(***************************************************************************)
EXTENDS Integers, Sequences, FiniteSets
LOCAL INSTANCE SequencesExt

CONSTANTS
  Indeterminate   \* values an uninitialised uint32_t field may hold

\* The keys of an object, in document order, as a set.
KeysOf(obj) == ToSet(obj.keys)

\* strtoul(value.c_str(), nullptr, 10) truncated to uint32_t: the leading
\* decimal digits, or 0 when there are none.
DecimalValue == [s \in {"0", "1", "2", "3"} |->
                  CASE s = "0" -> 0 [] s = "1" -> 1 [] s = "2" -> 2 [] s = "3" -> 3]
StrToUL(s) == IF s \in DOMAIN DecimalValue THEN DecimalValue[s] ELSE 0

(***************************************************************************)
(* NodeEntry::Load: a JSON array [node_id, index] or                       *)
(* [node_id, index, version]; version defaults to 0.                       *)
(***************************************************************************)
NodeEntryLoads(e) == Len(e) \in {2, 3}

NodeEntryLoad(e) ==
  [node_id |-> e[1], index |-> e[2], version |-> IF Len(e) = 3 THEN e[3] ELSE 0]

(***************************************************************************)
(* Node::LoadAttrs: every recognised key sets its field (a repeated key    *)
(* overwrites) and its bit; other keys are read and ignored; all four     *)
(* bits are required.                                                     *)
(***************************************************************************)
AttrKeys == {"func_name", "num_inputs", "num_outputs", "flatten_data"}

LoadAttrsOK(attrs) == {a.key : a \in ToSet(attrs)} \cap AttrKeys = AttrKeys

LoadAttrs(attrs) ==
  LET Set(p, a) ==
        CASE a.key = "func_name"    -> [p EXCEPT !.func_name = a.val]
          [] a.key = "num_inputs"   -> [p EXCEPT !.num_inputs = StrToUL(a.val)]
          [] a.key = "num_outputs"  -> [p EXCEPT !.num_outputs = StrToUL(a.val)]
          [] a.key = "flatten_data" -> [p EXCEPT !.flatten_data = StrToUL(a.val)]
          [] OTHER                  -> p
  IN  FoldLeft(Set, [func_name |-> "", num_inputs |-> 0, num_outputs |-> 0,
                     flatten_data |-> 0], attrs)

\* A TVMOpParam nobody assigned: the Node is default-constructed by the
\* vector reader, so func_name is "" and the uint32_t fields hold whatever
\* was in memory.
UnsetParams ==
  [func_name : {""}, num_inputs : Indeterminate, num_outputs : Indeterminate,
   flatten_data : Indeterminate]

(***************************************************************************)
(* Node::Load: op, name and inputs are required (bits 1, 2, 4); attr or   *)
(* attrs goes through LoadAttrs and sets no bit; control_deps is          *)
(* optional; any other key is fatal.                                      *)
(***************************************************************************)
NodeKeys == {"op", "name", "inputs", "attr", "attrs", "control_deps"}
NodeRequired == {"op", "name", "inputs"}

HasAttrs(nd) == KeysOf(nd) \cap {"attr", "attrs"} # {}

NodeLoads(nd) ==
  /\ KeysOf(nd) \subseteq NodeKeys
  /\ NodeRequired \subseteq KeysOf(nd)
  /\ \A j \in DOMAIN nd.inputs : NodeEntryLoads(nd.inputs[j])
  /\ HasAttrs(nd) => LoadAttrsOK(nd.attrs)

\* The Node read for nd, given the param it holds.
NodeLoad(nd, param) ==
  [op_type |-> nd.op, name |-> nd.name,
   inputs |-> [j \in DOMAIN nd.inputs |-> NodeEntryLoad(nd.inputs[j])],
   param |-> param]

(***************************************************************************)
(* GraphAttr::Load: each entry is the array [type tag, value].  dltype,   *)
(* storage_id and shape must carry their tag and are required; any other  *)
(* entry is skipped when tagged list_int or size_t, otherwise fatal.      *)
(***************************************************************************)
AttrTag == [dltype |-> "list_str", storage_id |-> "list_int", shape |-> "list_shape"]

GraphAttrLoads(ga) ==
  /\ \A j \in DOMAIN ga.keys :
       LET e == ga.keys[j]
       IN  IF e.key \in DOMAIN AttrTag THEN e.tag = AttrTag[e.key]
                                       ELSE e.tag \in {"list_int", "size_t"}
  /\ DOMAIN AttrTag \subseteq {ga.keys[j].key : j \in DOMAIN ga.keys}

(***************************************************************************)
(* GraphRuntime::Load: the five keys nodes, arg_nodes, node_row_ptr,      *)
(* heads and attrs are required, any other key is fatal.                  *)
(***************************************************************************)
TopKeys == {"nodes", "arg_nodes", "node_row_ptr", "heads", "attrs"}

GraphLoads(doc) ==
  /\ KeysOf(doc) \subseteq TopKeys
  /\ TopKeys \subseteq KeysOf(doc)
  /\ \A n \in DOMAIN doc.nodes : NodeLoads(doc.nodes[n])
  /\ \A j \in DOMAIN doc.heads : NodeEntryLoads(doc.heads[j])
  /\ GraphAttrLoads(doc.attrs)

\* The nodes of doc whose param is never assigned.  The param of a null
\* node is never read (SetupOpExecs skips it), so only the others are
\* given a choice of values.
Unassigned(doc) ==
  {n \in DOMAIN doc.nodes : ~HasAttrs(doc.nodes[n]) /\ doc.nodes[n].op # "null"}

\* A JSON array read into a std::vector: indexed from 0.
Vec(s) == [i \in 0..Len(s) - 1 |-> s[i + 1]]

\* The members the loader fills, for one choice ps of the unassigned params.
\* Node ids are 0-based: nodes_[i] is doc.nodes[i + 1].
LoadGraph(doc, ps) ==
  LET ParamOf(n) == CASE n \in Unassigned(doc)    -> ps[n]
                       [] HasAttrs(doc.nodes[n]) -> LoadAttrs(doc.nodes[n].attrs)
                       [] OTHER                  -> CHOOSE p \in UnsetParams : TRUE
  IN  [nodes        |-> [i \in 0..Len(doc.nodes) - 1 |->
                          NodeLoad(doc.nodes[i + 1], ParamOf(i + 1))],
       input_nodes  |-> Vec(doc.arg_nodes),
       node_row_ptr |-> Vec(doc.node_row_ptr),
       outputs      |-> Vec([j \in DOMAIN doc.heads |-> NodeEntryLoad(doc.heads[j])]),
       dltype       |-> Vec(doc.attrs.dltype),
       storage_id   |-> Vec(doc.attrs.storage_id),
       shape        |-> Vec(doc.attrs.shape)]

=============================================================================
