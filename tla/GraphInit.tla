----------------------------- MODULE GraphInit -----------------------------
(***************************************************************************)
(* The life of one GraphRuntime: GraphRuntimeCreate calls Init (Load,      *)
(* SetupStorage, SetupOpExecs); an exception in any of them unwinds        *)
(* GraphRuntimeCreate and the last shared_ptr to the runtime runs          *)
(* ~GraphRuntime, which frees every buffer in storage_pool_.  A runtime    *)
(* that was built is destroyed when its caller drops the module.           *)
(*                                                                         *)
(* The graph is whatever Load accepted, so the setup functions here read   *)
(* the loaded vectors with the indices the code computes; a read outside  *)
(* a vector is undefined behaviour, recorded in oob, after which nothing   *)
(* is modelled.  Buffer contents and tensor views are left out: the        *)
(* storage plan and the bound kernels are checked in StoragePlan and       *)
(* GraphRuntime.                                                           *)
(***************************************************************************)
EXTENDS GraphLoader
LOCAL INSTANCE Functions

CONSTANTS
  Docs,              \* graph documents a caller may pass
  ModuleFunctions,   \* names module_.GetFunction resolves
  DTypeOf            \* String2TVMType on the dltype strings of Docs

VARIABLES
  doc,            \* the graph_json passed to GraphRuntimeCreate
  graph,          \* nodes_, input_nodes_, node_row_ptr_, outputs_, attrs_
  storage_pool,   \* storage_pool_: sequence of allocation handles
  allocated,      \* handles TVMArrayAlloc returned
  freed,          \* handles passed to a TVMArrayFree that returned 0, in order
  phase,          \* where construction or destruction stands
  thrown,         \* the Init step that threw, or "none"
  oob             \* the vectors read out of range

vars == <<doc, graph, storage_pool, allocated, freed, phase, thrown, oob>>

LOCAL SP == INSTANCE StoragePlan WITH storage_id <- <<>>, dltype <- <<>>,
              shape <- <<>>, storage_pool <- <<>>, data_entry <- <<>>,
              phase <- "loaded"

\* The outcome of one step of a loop: it goes on, a CHECK throws, or it
\* reads the named vector out of range.
Ok == [kind |-> "ok", vec |-> ""]
Fail == [kind |-> "err", vec |-> ""]
Oob(v) == [kind |-> "oob", vec |-> v]

\* The first outcome in loop order that is not Ok.
FirstFailure(outcomes) ==
  LET bad == {i \in DOMAIN outcomes : outcomes[i] # Ok}
  IN  IF bad = {} THEN Ok
      ELSE outcomes[CHOOSE i \in bad : \A j \in bad : i <= j]

Len0(v) == Cardinality(DOMAIN v)

\* num_node_entries(): node_row_ptr_.back().
NumNodeEntries(g) == g.node_row_ptr[Len0(g.node_row_ptr) - 1]


(***************************************************************************)
(* SetupStorage.                                                           *)
(***************************************************************************)
\* One iteration of the sizing loop: read storage_id[i], CHECK_GE, read
\* vtype[i], CHECK_EQ(bits % 8, 0).
SizingStep(g, i) ==
  CASE i \notin DOMAIN g.storage_id                   -> Oob("attrs_.storage_id")
    [] g.storage_id[i] < 0                            -> Fail
    [] i \notin DOMAIN g.dltype                       -> Oob("vtype")
    [] SP!TypeBits(DTypeOf[g.dltype[i]]) % 8 # 0      -> Fail
    [] OTHER                                          -> Ok

\* pool_entry_bytes after the sizing loop over attrs_.shape.
PoolBytes(g) ==
  SP!PoolEntryBytes(g.storage_id, [i \in DOMAIN g.dltype |-> DTypeOf[g.dltype[i]]],
                    g.shape)

\* One iteration of the view loop over data_entry_: read storage_id[i],
\* CHECK_LT against storage_pool_.size(), read shape[i] and vtype[i].
ViewStep(g, npools, i) ==
  CASE i \notin DOMAIN g.storage_id   -> Oob("attrs_.storage_id")
    [] g.storage_id[i] < 0 \/ g.storage_id[i] >= npools -> Fail
    [] i \notin DOMAIN g.shape        -> Oob("attrs_.shape")
    [] i \notin DOMAIN g.dltype       -> Oob("vtype")
    [] OTHER                          -> Ok

StorageOutcome(g) ==
  IF Len0(g.node_row_ptr) = 0 THEN Oob("node_row_ptr_")
  ELSE FirstFailure([i \in DOMAIN g.shape |-> SizingStep(g, i)])

ViewOutcome(g, npools) ==
  FirstFailure([i \in 0..NumNodeEntries(g) - 1 |-> ViewStep(g, npools, i)])

(***************************************************************************)
(* SetupOpExecs and CreateTVMOp.                                           *)
(***************************************************************************)
\* data_entry_[entry_id(nid, index)], reading node_row_ptr_[nid] first.
EntryRead(g, nid, index) ==
  CASE nid \notin DOMAIN g.node_row_ptr                         -> Oob("node_row_ptr_")
    [] g.node_row_ptr[nid] + index >= NumNodeEntries(g)         -> Oob("data_entry_")
    [] OTHER                                                    -> Ok

\* Mutation of BindStep: the CHECK_EQ(op_type, "tvm_op") is left out.
BindStepNoOpCheck(g, nid) ==
  LET nd   == g.nodes[nid]
      ins  == [j \in DOMAIN nd.inputs |->
                 EntryRead(g, nd.inputs[j].node_id, nd.inputs[j].index)]
      outs == [k \in 1..nd.param.num_outputs |-> EntryRead(g, nid, k - 1)]
      found == FirstFailure(ins \o outs)
  IN  CASE nd.op_type = "null"  -> Ok
        [] found # Ok           -> found
        [] nd.param.func_name # "__nop" /\ nd.param.func_name \notin ModuleFunctions -> Fail
        [] OTHER                -> Ok

\* One node: skip a null node; push its input views, then its
\* num_outputs output views; CHECK_EQ(op_type, "tvm_op"); look the kernel
\* up unless it is __nop.
BindStep(g, nid) ==
  LET nd   == g.nodes[nid]
      ins  == [j \in DOMAIN nd.inputs |->
                 EntryRead(g, nd.inputs[j].node_id, nd.inputs[j].index)]
      outs == [k \in 1..nd.param.num_outputs |-> EntryRead(g, nid, k - 1)]
      found == FirstFailure(ins \o outs)
  IN  CASE nd.op_type = "null"  -> Ok
        [] found # Ok           -> found
        [] nd.op_type # "tvm_op" -> Fail
        [] nd.param.func_name # "__nop" /\ nd.param.func_name \notin ModuleFunctions -> Fail
        [] OTHER                -> Ok

OpExecsOutcome(g) == FirstFailure([nid \in DOMAIN g.nodes |-> BindStep(g, nid)])

\* Mutation of Destructor: the loop starts at the second buffer.
DestructorFromSecond ==
  \E k \in 0..Len(storage_pool) :
    /\ freed' = freed \o SubSeq(storage_pool, 2, k)
    /\ phase' = IF k = Len(storage_pool) THEN "destroyed" ELSE "terminated"

\* ~GraphRuntime frees storage_pool_ in order with TVM_CCALL: a failing
\* TVMArrayFree throws out of the destructor and terminates the process,
\* leaving the later buffers unfreed.
Destructor ==
  \E k \in 0..Len(storage_pool) :
    /\ freed' = freed \o SubSeq(storage_pool, 1, k)
    /\ phase' = IF k = Len(storage_pool) THEN "destroyed" ELSE "terminated"

(***************************************************************************)
(* Actions.                                                                *)
(***************************************************************************)
Init ==
  /\ doc \in Docs
  /\ graph = [nodes |-> <<>>]
  /\ storage_pool = <<>>
  /\ allocated = {}
  /\ freed = <<>>
  /\ phase = "start"
  /\ thrown = "none"
  /\ oob = {}

\* Init: this->Load(&reader).
Load ==
  /\ phase = "start"
  /\ IF GraphLoads(doc)
       THEN /\ \E ps \in [Unassigned(doc) -> UnsetParams] : graph' = LoadGraph(doc, ps)
            /\ phase' = "loaded"
            /\ UNCHANGED thrown
       ELSE /\ phase' = "unwinding"
            /\ thrown' = "Load"
            /\ UNCHANGED graph
  /\ UNCHANGED <<doc, storage_pool, allocated, freed, oob>>

\* Init: this->SetupStorage().  Pools are allocated one by one and pushed
\* to storage_pool_; the k+1-th TVMArrayAlloc may fail.
SetupStorage ==
  /\ phase = "loaded"
  /\ LET out   == StorageOutcome(graph)
         n     == Len0(PoolBytes(graph))
     IN  CASE out = Fail ->
                /\ phase' = "unwinding" /\ thrown' = "SetupStorage"
                /\ UNCHANGED <<storage_pool, allocated, oob>>
           [] out # Ok ->
                /\ phase' = "undefined" /\ oob' = oob \cup {out.vec}
                /\ UNCHANGED <<storage_pool, allocated, thrown>>
           [] OTHER ->
                \E k \in 0..n :
                  /\ storage_pool' = [j \in 1..k |-> j]
                  /\ allocated' = 1..k
                  /\ LET views == ViewOutcome(graph, n) IN
                     CASE k < n \/ views = Fail ->
                            phase' = "unwinding" /\ thrown' = "SetupStorage" /\ UNCHANGED oob
                       [] views # Ok ->
                            phase' = "undefined" /\ oob' = oob \cup {views.vec} /\ UNCHANGED thrown
                       [] OTHER ->
                            phase' = "planned" /\ UNCHANGED <<thrown, oob>>
  /\ UNCHANGED <<doc, graph, freed>>

\* Init: this->SetupOpExecs().
SetupOpExecs ==
  /\ phase = "planned"
  /\ LET out == OpExecsOutcome(graph)
     IN  CASE out = Ok   -> phase' = "ready" /\ UNCHANGED <<thrown, oob>>
           [] out = Fail -> phase' = "unwinding" /\ thrown' = "SetupOpExecs" /\ UNCHANGED oob
           [] OTHER      -> phase' = "undefined" /\ oob' = oob \cup {out.vec} /\ UNCHANGED thrown
  /\ UNCHANGED <<doc, graph, storage_pool, allocated, freed>>

\* The exception leaves GraphRuntimeCreate and the runtime is destroyed.
Unwind ==
  /\ phase = "unwinding"
  /\ Destructor
  /\ UNCHANGED <<doc, graph, storage_pool, allocated, thrown, oob>>

\* The caller drops the last reference to a constructed runtime.
Release ==
  /\ phase = "ready"
  /\ Destructor
  /\ UNCHANGED <<doc, graph, storage_pool, allocated, thrown, oob>>

Next == Load \/ SetupStorage \/ SetupOpExecs \/ Unwind \/ Release

\* Load, SetupStorage, SetupOpExecs and the unwinding are consecutive
\* statements of one GraphRuntimeCreate call: once started they run.
\* Whether the caller ever drops a constructed runtime is up to the caller.
Fairness == WF_vars(Load \/ SetupStorage \/ SetupOpExecs \/ Unwind)

Spec == Init /\ [][Next]_vars /\ Fairness

(***************************************************************************)
(* Properties.                                                             *)
(***************************************************************************)
\* The format rules of spec 4.1 and the NodeEntry and Node definitions of
\* spec 3, written from the spec: the five top-level keys, exactly; node
\* keys op, name, inputs, attr/attrs and control_deps, the first three
\* required; op_type null or tvm_op; a tvm_op's attribute object yields
\* all four parameters; entries of two or three numbers; the three tagged
\* graph attributes present, other attributes tagged list_int or size_t.
SpecFormatValid(d) ==
  /\ KeysOf(d) = TopKeys
  /\ \A n \in DOMAIN d.nodes :
       LET nd == d.nodes[n] IN
       /\ {"op", "name", "inputs"} \subseteq KeysOf(nd)
       /\ KeysOf(nd) \subseteq {"op", "name", "inputs", "attr", "attrs", "control_deps"}
       /\ nd.op \in {"null", "tvm_op"}
       /\ nd.op = "tvm_op" =>
            /\ KeysOf(nd) \cap {"attr", "attrs"} # {}
            /\ AttrKeys \subseteq {nd.attrs[j].key : j \in DOMAIN nd.attrs}
       /\ \A j \in DOMAIN nd.inputs : Len(nd.inputs[j]) \in {2, 3}
  /\ \A j \in DOMAIN d.heads : Len(d.heads[j]) \in {2, 3}
  /\ \A j \in DOMAIN d.attrs.keys :
       LET e == d.attrs.keys[j] IN
       CASE e.key = "dltype"     -> e.tag = "list_str"
         [] e.key = "storage_id" -> e.tag = "list_int"
         [] e.key = "shape"      -> e.tag = "list_shape"
         [] OTHER                -> e.tag \in {"list_int", "size_t"}
  /\ {"dltype", "storage_id", "shape"} \subseteq {d.attrs.keys[j].key : j \in DOMAIN d.attrs.keys}

\* A runtime is handed out only for a document the spec's format rules
\* accept: what Load lets through (an op_type other than tvm_op, a tvm_op
\* node without attrs, whose param is left unassigned) must be caught by
\* SetupOpExecs and CreateTVMOp before GraphRuntimeCreate returns.
ConstructedOnlyFromValidDocs == phase = "ready" => SpecFormatValid(doc)

\* Init never reads a loaded vector out of range: spec 8.1 and the
\* invariants of spec 3 hold for every graph that loads, so the sizing
\* loop (over attrs_.shape), the view loop (over num_node_entries()) and
\* the binding loop (over inputs and num_outputs) stay inside the vectors
\* they index.
SetupReadsInRange == oob = {}

\* Load rejects only documents the spec's format rules reject: a
\* document that follows spec 4.1 is never refused by the bitmask checks.
LoadAcceptsValidDocs == thrown = "Load" => ~SpecFormatValid(doc)

\* When Init throws, every buffer it had allocated is eventually freed by
\* the unwinding, unless a TVMArrayFree fails in the destructor and the
\* process terminates.
FailedInitReleasesPools ==
  (thrown # "none") ~> (Range(freed) = allocated \/ phase = "terminated")

=============================================================================
