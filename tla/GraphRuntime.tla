---------------------------- MODULE GraphRuntime ----------------------------
(***************************************************************************)
(* The GraphRuntime executor of graph_runtime.cc, from the graph the JSON  *)
(* loader produced to the calls of its PackedFunc surface.                 *)
(*                                                                         *)
(* GraphRuntimeCreate -> Init: SetupStorage (module StoragePlan), then     *)
(* SetupOpExecs; afterwards the caller may issue set_input, get_input,     *)
(* get_output, get_input_names, get_output_names, set_debug_buffer, run   *)
(* and load_params in any order.  Calls are synchronous and the executor   *)
(* is single-threaded (spec 5), so each call is one atomic action.         *)
(*                                                                         *)
(* Tensor contents are abstracted to one value of Values per pool buffer:  *)
(* all entries that share a storage id read and write that one value,      *)
(* which is exactly the aliasing the storage plan sets up.  A kernel is    *)
(* KernelOut(func_name, k, args): the value of its output k for the        *)
(* values of its inputs.                                                   *)
(*                                                                         *)
(* Vectors indexed by an id in the code (nodes_, input_nodes_, outputs_,   *)
(* node_row_ptr_, data_entry_, storage_pool_, op_execs_) are functions    *)
(* with domain 0..n-1; lists only iterated over (Node::inputs, the tensors *)
(* of a parameter blob, debug_buffers_) are sequences.                    *)
(***************************************************************************)
EXTENDS StoragePlan

CONSTANTS
  nodes,              \* nodes_: id -> [op_type, name, inputs, func_name,
                      \*   num_inputs, num_outputs, flatten_data]
  input_nodes,        \* input_nodes_ (arg_nodes): index -> node id
  node_row_ptr,       \* node_row_ptr_: node id (and num_nodes) -> entry id
  outputs,            \* outputs_ (heads): index -> [node_id, index]
  AttrStorageId, AttrDLType, AttrShape,   \* attrs_ as loaded
  ModuleChoices,      \* sets of function names a code module may export
  Values,             \* tensor contents
  KernelOut(_, _, _), \* semantics of the compiled kernels
  Debug,              \* debug_ flag of GraphRuntimeCreate
  DebugBuild,         \* TVM_GRAPH_RUNTIME_DEBUG is defined
  MaxDebugBuffers,    \* bound on set_debug_buffer calls
  Names,              \* strings a caller passes to set_input/get_input
  Blobs,              \* parameter blobs a caller passes to load_params
  None, Err, Unwritten, Garbage

VARIABLES
  module_,            \* the code module: the function names it exports
  op_execs,           \* op_execs_: node id -> closure
  pool_data,          \* contents of each storage_pool_ buffer
  debug_buffers,      \* debug_buffers_: contents of the host buffers
  ret,                \* what the last data call returned to the caller
  input_names,        \* what the last get_input_names call returned
  output_names,       \* what the last get_output_names call returned
  ran,                \* history: the last run() returned (no code state)
  oob                 \* the vectors read out of range so far

vars == <<storage_vars, module_, op_execs, pool_data, debug_buffers, ret,
          input_names, output_names, ran, oob>>

(***************************************************************************)
(* Graph indexing.                                                         *)
(***************************************************************************)
NumNodes == Size(nodes)

\* Mutation of EntryId: the output index is dropped.
EntryIdNoIndex(nid, index) == node_row_ptr[nid]

EntryId(nid, index) == node_row_ptr[nid] + index

EntryOf(e) == EntryId(e.node_id, e.index)

NumNodeEntries == node_row_ptr[Size(node_row_ptr) - 1]

\* The pool buffer behind data_entry_[eid].
PoolOf(eid) == data_entry[eid].pool

\* nodes_[i].name; an index past the end reads outside the vector.
NodeName(i) == IF i < NumNodes THEN nodes[i].name ELSE Garbage

\* GetInputIndex: the first input whose node has the name, else -1.
InputHasName(i, name) == nodes[input_nodes[i]].name = name

GetInputIndex(name) ==
  IF \E i \in Indices(input_nodes) : InputHasName(i, name)
    THEN CHOOSE i \in Indices(input_nodes) :
           InputHasName(i, name) /\ \A j \in 0..(i - 1) : ~InputHasName(j, name)
    ELSE -1

InputEntry(index) == EntryId(input_nodes[index], 0)

(***************************************************************************)
(* SetupOpExecs and CreateTVMOp.                                           *)
(***************************************************************************)
\* args: the views of the input entries, then of the output entries.
NodeArgs(nid) ==
  LET n == nodes[nid]
  IN  [j \in 1..Len(n.inputs) |-> data_entry[EntryOf(n.inputs[j])]]
      \o [k \in 1..n.num_outputs |-> data_entry[EntryId(nid, k - 1)]]

\* flatten_data: the closure's copy of the view becomes 1-D with the
\* product of the extents; data_entry_ keeps its own shape.
\* Mutation of FlattenView: the flat extent is the first extent only.
FlattenViewFirstDim(v) ==
  [v EXCEPT !.shape = IF v.shape = <<>> THEN <<1>> ELSE <<v.shape[1]>>, !.ndim = 1]

FlattenView(v) == [v EXCEPT !.shape = <<NumElements(v.shape)>>, !.ndim = 1]

CreateTVMOp(param, args, num_inputs) ==
  [kind       |-> IF param.func_name = "__nop" THEN "nop" ELSE "kernel",
   func       |-> param.func_name,
   args       |-> IF param.flatten_data # 0
                    THEN [j \in DOMAIN args |-> FlattenView(args[j])]
                    ELSE args,
   num_inputs |-> num_inputs]

\* A node SetupOpExecs can bind: "null" nodes get an empty slot; other
\* nodes must be "tvm_op" and name "__nop" or a function of the module.
Bindable(nid) ==
  \/ nodes[nid].op_type = "null"
  \/ /\ nodes[nid].op_type = "tvm_op"
     /\ nodes[nid].func_name \in module_ \cup {"__nop"}

NoOp == [kind |-> "none"]

\* Mutation of OpExecs: the loop stops one node early.
OpExecsShort ==
  [nid \in 0..(NumNodes - 2) |->
     IF nodes[nid].op_type = "null" THEN NoOp
     ELSE CreateTVMOp(nodes[nid], NodeArgs(nid), Len(nodes[nid].inputs))]

OpExecs ==
  [nid \in Indices(nodes) |->
     IF nodes[nid].op_type = "null" THEN NoOp
     ELSE CreateTVMOp(nodes[nid], NodeArgs(nid), Len(nodes[nid].inputs))]

(***************************************************************************)
(* Executing closures.                                                     *)
(***************************************************************************)
\* The closure of node nid called on pool contents pd: the kernel reads
\* its input views and writes output k through view num_inputs + k.
RECURSIVE WriteOutputs(_, _, _, _)
\* Mutation of WriteOutputs: output k is written through view
\* num_inputs + k - 1, one slot early.
WriteOutputsOneEarly(pd, op, ins, k) ==
  IF op.num_inputs + k >= Len(op.args) THEN pd
  ELSE WriteOutputs([pd EXCEPT ![op.args[op.num_inputs + k].pool] =
                                 KernelOut(op.func, k, ins)],
                    op, ins, k + 1)

WriteOutputs(pd, op, ins, k) ==
  IF op.num_inputs + k >= Len(op.args) THEN pd
  ELSE WriteOutputs([pd EXCEPT ![op.args[op.num_inputs + k + 1].pool] =
                                 KernelOut(op.func, k, ins)],
                    op, ins, k + 1)

ExecOp(pd, nid) ==
  LET op == op_execs[nid]
  IN  IF op.kind # "kernel" THEN pd
      ELSE WriteOutputs(pd, op, [j \in 1..op.num_inputs |-> pd[op.args[j].pool]], 0)

\* Run's loop over op_execs_[0 .. upto-1].
RECURSIVE RunOps(_, _, _)
RunOps(pd, i, upto) ==
  IF i >= upto THEN pd ELSE RunOps(ExecOp(pd, i), i + 1, upto)

\* One iteration of DebugRun with debug_buffers_[i] registered: run node
\* i, then copy data_entry_[i] into debug_buffers_[i].
DebugStep(st, i) ==
  [pool |-> ExecOp(st.pool, i),
   dbg |-> [st.dbg EXCEPT ![i + 1] = ExecOp(st.pool, i)[PoolOf(i)]]]

RECURSIVE DebugOps(_, _, _)
\* Mutation of DebugOps: the loop stops one node early.
DebugOpsShort(st, i, upto) ==
  IF i >= upto - 1 THEN st ELSE DebugOps(DebugStep(st, i), i + 1, upto)

DebugOps(st, i, upto) ==
  IF i >= upto THEN st ELSE DebugOps(DebugStep(st, i), i + 1, upto)

\* A node whose closure can throw: a kernel other than __nop.
CanFail(nid) == op_execs[nid].kind = "kernel"

(***************************************************************************)
(* LoadParams and LoadDLTensor.                                            *)
(***************************************************************************)
\* LoadDLTensor's checks of a tensor against its destination view: ndim,
\* dtype, every extent (the data_byte_size of a well-formed blob then
\* equals the planned size).
\* Mutation of TensorFits: the dtype lanes are not compared.
TensorFitsNoLanes(t, dst) ==
  /\ Len(t.shape) = dst.ndim
  /\ t.dtype.code = dst.dtype.code /\ t.dtype.bits = dst.dtype.bits
  /\ \A d \in 1..Len(t.shape) : t.shape[d] = dst.shape[d]

TensorFits(t, dst) ==
  /\ Len(t.shape) = dst.ndim
  /\ t.dtype = dst.dtype
  /\ \A d \in 1..Len(t.shape) : t.shape[d] = dst.shape[d]

\* The entry a tensor is copied to: entry_id(input_nodes_[in_idx], 0).
TensorEntry(t) == InputEntry(GetInputIndex(t.name))

\* A check of the loop body that throws on the tensor, in code order:
\* CHECK_GE(in_idx, 0), CHECK_LT(eid, data_entry_.size()), then
\* LoadDLTensor: the tensor magic, ndim/dtype/shape against the view,
\* data_byte_size against the planned size, and the read of the data.
TensorRejected(t) ==
  \/ GetInputIndex(t.name) < 0
  \/ TensorEntry(t) >= NumNodeEntries
  \/ ~t.magic
  \/ ~TensorFits(t, data_entry[TensorEntry(t)])
  \/ ~t.size_ok
  \/ ~t.complete

\* The loop of LoadParams over the tensors of a blob: it stops at the
\* first rejected tensor with the tensors before it already copied.
RECURSIVE LoadTensors(_, _, _)
LoadTensors(pd, ts, i) ==
  CASE i > Len(ts) -> [pool |-> pd, ok |-> TRUE]
    [] TensorRejected(ts[i]) -> [pool |-> pd, ok |-> FALSE]
    [] OTHER -> LoadTensors([pd EXCEPT ![PoolOf(TensorEntry(ts[i]))] = ts[i].val], ts, i + 1)

(***************************************************************************)
(* Construction (GraphRuntimeCreate, Init).                                *)
(***************************************************************************)
Init ==
  /\ storage_id = AttrStorageId
  /\ dltype = AttrDLType
  /\ shape = AttrShape
  /\ storage_pool = [s \in {} |-> 0]
  /\ data_entry = [i \in {} |-> 0]
  /\ phase = "loaded"
  /\ module_ \in ModuleChoices
  /\ op_execs = [nid \in {} |-> NoOp]
  /\ pool_data = [s \in {} |-> 0]
  /\ debug_buffers = <<>>
  /\ ret = None
  /\ input_names = <<>>
  /\ output_names = <<>>
  /\ ran = FALSE
  /\ oob = {}

\* SetupStorage; TVMArrayAlloc leaves the buffers' contents undefined.
AllocateStorage ==
  /\ SetupStorage
  /\ pool_data' \in [Indices(storage_pool') -> Values]
  /\ UNCHANGED <<module_, op_execs, debug_buffers, ret,
                 input_names, output_names, ran, oob>>

AllocateStorageFails ==
  /\ SetupStorageFails
  /\ UNCHANGED <<module_, op_execs, pool_data, debug_buffers, ret,
                 input_names, output_names, ran, oob>>

SetupOpExecs ==
  /\ phase = "planned"
  /\ \A nid \in Indices(nodes) : Bindable(nid)
  /\ op_execs' = OpExecs
  /\ phase' = "ready"
  /\ UNCHANGED <<storage_id, dltype, shape, storage_pool, data_entry,
                 module_, pool_data, debug_buffers, ret, input_names, output_names, ran, oob>>

\* CHECK_EQ(op_type, "tvm_op") or "no such function in module" throws
\* out of GraphRuntimeCreate; the destructor frees storage_pool_.
SetupOpExecsFails ==
  /\ phase = "planned"
  /\ \E nid \in Indices(nodes) : ~Bindable(nid)
  /\ phase' = "failed"
  /\ UNCHANGED <<storage_id, dltype, shape, storage_pool, data_entry,
                 module_, op_execs, pool_data, debug_buffers, ret, input_names, output_names, ran, oob>>

(***************************************************************************)
(* The PackedFunc surface (GetFunction).                                   *)
(***************************************************************************)
Ready == phase = "ready"

\* Variables a call that only returns a value leaves alone.
ReadOnly == UNCHANGED <<storage_vars, module_, op_execs, pool_data, debug_buffers,
                        input_names, output_names, ran, oob>>

\* SetInput: CHECK_LT(index, input_nodes_.size()), then copy into the
\* input's entry.  set_input(name) resolves the name first and does nothing
\* (after a warning) when it is unknown.
SetInput(index, v) ==
  /\ Ready
  /\ IF index \in Indices(input_nodes)
       THEN pool_data' = [pool_data EXCEPT ![PoolOf(InputEntry(index))] = v]
            /\ ret' = None
       ELSE UNCHANGED pool_data /\ ret' = Err
  /\ UNCHANGED <<storage_vars, module_, op_execs, debug_buffers,
                 input_names, output_names, ran, oob>>

SetInputByName(name, v) ==
  /\ Ready
  /\ IF GetInputIndex(name) >= 0
       THEN SetInput(GetInputIndex(name), v)
       ELSE ret' = None /\ ReadOnly

\* GetInput(index), and get_input(name), whose CHECK_GE(in_idx, 0) throws
\* on an unknown name.
GetInput(index) ==
  /\ Ready
  /\ ret' = IF index \in Indices(input_nodes)
              THEN pool_data[PoolOf(InputEntry(index))] ELSE Err
  /\ ReadOnly

GetInputByName(name) ==
  /\ Ready
  /\ IF GetInputIndex(name) >= 0 THEN GetInput(GetInputIndex(name))
                                ELSE ret' = Err /\ ReadOnly

\* GetOutput: CHECK_LT(index, outputs_.size()), then copy the entry out.
GetOutput(index) ==
  /\ Ready
  /\ ret' = IF index \in Indices(outputs)
              THEN pool_data[PoolOf(EntryOf(outputs[index]))] ELSE Err
  /\ ReadOnly

\* GetInputNames / GetOutputNames: the ';'-joined list is kept as the
\* sequence of names; each name is read as nodes_[eid].name with eid an
\* entry id.
GetInputNames ==
  /\ Ready
  /\ input_names' = [i \in 1..Size(input_nodes) |-> NodeName(InputEntry(i - 1))]
  /\ oob' = oob \cup (IF \E i \in Indices(input_nodes) : InputEntry(i) >= NumNodes
                       THEN {"nodes_"} ELSE {})
  /\ UNCHANGED <<storage_vars, module_, op_execs, pool_data, debug_buffers, ret,
                 output_names, ran>>

GetOutputNames ==
  /\ Ready
  /\ output_names' = [i \in 1..Size(outputs) |-> NodeName(EntryOf(outputs[i - 1]))]
  /\ oob' = oob \cup (IF \E i \in Indices(outputs) : EntryOf(outputs[i]) >= NumNodes
                       THEN {"nodes_"} ELSE {})
  /\ UNCHANGED <<storage_vars, module_, op_execs, pool_data, debug_buffers, ret,
                 input_names, ran>>

SetDebugBuffer ==
  /\ Ready
  /\ Len(debug_buffers) < MaxDebugBuffers
  /\ debug_buffers' = Append(debug_buffers, Unwritten)
  /\ UNCHANGED <<storage_vars, module_, op_execs, pool_data, ret,
                 input_names, output_names, ran, oob>>

\* A run() step returns to its caller: no throw and no crash.
Returns == phase' = "ready" /\ ret' = None

\* run with debug_ = false: Run() calls every closure in node order.  The
\* run either completes or the closure of node k throws, after nodes
\* 0..k-1 have written their outputs.
Run ==
  /\ Ready /\ ~Debug
  /\ \/ pool_data' = RunOps(pool_data, 0, NumNodes) /\ ret' = None
     \/ \E k \in Indices(nodes) :
          /\ CanFail(k)
          /\ pool_data' = RunOps(pool_data, 0, k)
          /\ ret' = Err
  /\ UNCHANGED <<storage_vars, module_, op_execs, debug_buffers,
                 input_names, output_names, oob>>
  /\ ran' = Returns

\* run with debug_ = true: DebugRun() also copies data_entry_[i] into
\* debug_buffers_[i] after node i (CheckNanOrInf is called with CHECK_NONE
\* and returns at once).  Nothing checks that debug_buffers_ has an
\* element i: once the loop reaches the first node n without a buffer,
\* line 79 dereferences a pointer read past the end of the vector.  That
\* undefined behaviour is taken as a crash of the process, a terminal
\* state, unless a closure before node n has thrown.
DebugRun ==
  /\ Ready /\ Debug
  /\ LET start == [pool |-> pool_data, dbg |-> debug_buffers]
         n == Len(debug_buffers)
     IN  \/ /\ n >= NumNodes
            /\ pool_data' = DebugOps(start, 0, NumNodes).pool
            /\ debug_buffers' = DebugOps(start, 0, NumNodes).dbg
            /\ ret' = None
            /\ UNCHANGED <<phase, oob>>
         \/ \E k \in Indices(nodes) :
              /\ CanFail(k) /\ k <= n
              /\ pool_data' = DebugOps(start, 0, k).pool
              /\ debug_buffers' = DebugOps(start, 0, k).dbg
              /\ ret' = Err
              /\ UNCHANGED <<phase, oob>>
         \/ /\ n < NumNodes
            /\ phase' = "crashed"
            /\ oob' = oob \cup {"debug_buffers_"}
            /\ UNCHANGED <<pool_data, debug_buffers, ret>>
  /\ ran' = Returns
  /\ UNCHANGED <<storage_id, dltype, shape, storage_pool, data_entry,
                 module_, op_execs, input_names, output_names>>

\* The loop's result: the call returns when every tensor was copied.
TensorsOutcome(r) == {[pool |-> r.pool, ret |-> IF r.ok THEN None ELSE Err]}

\* load_params: the list magic and the name list are checked, then
\* data_count is read without checking that the read succeeded.  On a
\* blob that ends after the names, sz keeps its uninitialised value: the
\* loop runs only when it happens to equal names.size(), and then the
\* first LoadDLTensor read fails, unless there are no names at all.
\* LoadParamsOutcomes is the set of results (pool contents, return) the
\* call can have; LoadParams takes one of them.
LoadParamsOutcomes(pd, blob) ==
  CASE ~blob.list_magic \/ blob.count = "differs" ->
         {[pool |-> pd, ret |-> Err]}
    [] blob.count = "missing" ->
         {[pool |-> pd, ret |-> r] : r \in IF blob.tensors = <<>> THEN {None, Err} ELSE {Err}}
    [] OTHER -> TensorsOutcome(LoadTensors(pd, blob.tensors, 1))

LoadParams(blob) ==
  /\ Ready
  /\ \E o \in LoadParamsOutcomes(pool_data, blob) :
       pool_data' = o.pool /\ ret' = o.ret
  /\ UNCHANGED <<storage_vars, module_, op_execs, debug_buffers,
                 input_names, output_names, ran, oob>>

\* GetNodeIndex (TVM_GRAPH_RUNTIME_DEBUG): the first node with the name;
\* LOG(FATAL) when there is none.
GetNodeIndex(name) ==
  IF \E n \in Indices(nodes) : nodes[n].name = name
    THEN CHOOSE n \in Indices(nodes) :
           nodes[n].name = name /\ \A m \in 0..(n - 1) : nodes[m].name # name
    ELSE -1

\* DebugGetNodeOutput (TVM_GRAPH_RUNTIME_DEBUG): CHECK_LT(index,
\* nodes_.size()) on the index cast to size_t, then the closures of nodes
\* 0..index run (one of them may throw), then data_entry_[eid] with
\* eid = index is copied out.
DebugGetNodeOutput(index) ==
  /\ Ready /\ DebugBuild
  /\ IF index \in Indices(nodes)
       THEN \/ LET pd == RunOps(pool_data, 0, index + 1)
               IN  pool_data' = pd /\ ret' = pd[PoolOf(index)]
            \/ \E k \in 0..index :
                 /\ CanFail(k)
                 /\ pool_data' = RunOps(pool_data, 0, k)
                 /\ ret' = Err
       ELSE UNCHANGED pool_data /\ ret' = Err
  /\ UNCHANGED <<storage_vars, module_, op_execs, debug_buffers,
                 input_names, output_names, ran, oob>>

\* debug_get_output(name): GetNodeIndex, then DebugGetNodeOutput.
DebugGetNodeOutputByName(name) ==
  /\ Ready /\ DebugBuild
  /\ IF GetNodeIndex(name) >= 0 THEN DebugGetNodeOutput(GetNodeIndex(name))
                               ELSE ret' = Err /\ ReadOnly

InputIndexChoices == -1..Size(input_nodes)
NodeIndexChoices == -1..NumNodes
OutputIndexChoices == -1..Size(outputs)

Next ==
  \/ AllocateStorage \/ AllocateStorageFails
  \/ SetupOpExecs \/ SetupOpExecsFails
  \/ \E i \in InputIndexChoices, v \in Values : SetInput(i, v)
  \/ \E nm \in Names, v \in Values : SetInputByName(nm, v)
  \/ \E i \in InputIndexChoices : GetInput(i)
  \/ \E nm \in Names : GetInputByName(nm)
  \/ \E i \in OutputIndexChoices : GetOutput(i)
  \/ GetInputNames \/ GetOutputNames \/ SetDebugBuffer
  \/ Run \/ DebugRun
  \/ \E b \in Blobs : LoadParams(b)
  \/ \E i \in NodeIndexChoices : DebugGetNodeOutput(i)
  \/ \E nm \in Names : DebugGetNodeOutputByName(nm)

Spec == Init /\ [][Next]_vars

(***************************************************************************)
(* Properties.                                                             *)
(***************************************************************************)
Ret == Values \cup {None, Err}

TypeOK ==
  /\ phase \in {"loaded", "planned", "ready", "failed", "crashed"}
  /\ pool_data \in [Indices(storage_pool) -> Values]
  /\ debug_buffers \in Seq(Values \cup {Unwritten})
  /\ Len(debug_buffers) <= MaxDebugBuffers
  /\ ret \in Ret
  /\ ran \in BOOLEAN
  /\ oob \subseteq {"nodes_", "debug_buffers_"}
  /\ phase = "ready" => DOMAIN op_execs = Indices(nodes)

\* The entry a NodeEntry names and the pool buffer the storage plan gives
\* it, read directly from the loaded graph (independent of data_entry_).
PlanEntry(e) == node_row_ptr[e.node_id] + e.index
PlanPool(eid) == AttrStorageId[eid]
InputOfNode(nid) == CHOOSE i \in Indices(input_nodes) : input_nodes[i] = nid
OwnerOf(eid) == CHOOSE n \in Indices(nodes) :
                  node_row_ptr[n] <= eid /\ eid < node_row_ptr[n + 1]

\* Reference meaning of the graph: the value of entry eid for graph input
\* values in.  A "null" node is an input; a "__nop" node passes its first
\* input through (the compiler plans it in place); any other node applies
\* its kernel to the values of its inputs.
RECURSIVE EntryValue(_, _)
EntryValue(eid, in) ==
  LET n == OwnerOf(eid)
      node == nodes[n]
  IN  CASE node.op_type = "null" -> in[InputOfNode(n)]
        [] node.func_name = "__nop" -> EntryValue(PlanEntry(node.inputs[1]), in)
        [] OTHER -> KernelOut(node.func_name, eid - node_row_ptr[n],
                              [j \in 1..Len(node.inputs) |->
                                 EntryValue(PlanEntry(node.inputs[j]), in)])

GraphEval(in) == [o \in Indices(outputs) |-> EntryValue(PlanEntry(outputs[o]), in)]

\* Spec 4.5: a name resolves to the first input whose node has it.
InputNamed(nm) ==
  IF \E i \in Indices(input_nodes) : nodes[input_nodes[i]].name = nm
    THEN CHOOSE i \in Indices(input_nodes) :
           /\ nodes[input_nodes[i]].name = nm
           /\ \A j \in 0..(i - 1) : nodes[input_nodes[j]].name # nm
    ELSE -1

\* Spec 4.4: a parameter tensor fits an input with the same ndim, dtype
\* and extents as the plan gives its entry.
ParamFitsInput(t, i) ==
  LET eid == node_row_ptr[input_nodes[i]]
  IN  t.shape = AttrShape[eid] /\ t.dtype = AttrDLType[eid]

\* The values the pool buffers give the graph inputs and the graph outputs.
InputsOf(pd) ==
  [i \in Indices(input_nodes) |-> pd[PlanPool(node_row_ptr[input_nodes[i]])]]

OutputsOf(pd) == [o \in Indices(outputs) |-> pd[PlanPool(PlanEntry(outputs[o]))]]

AnyIn == CHOOSE f \in [Indices(input_nodes) -> Values] : TRUE
AnyOut == CHOOSE f \in [Indices(outputs) -> Values] : TRUE

Executor == INSTANCE GraphExecutor WITH
  InputIds <- Indices(input_nodes),
  OutputIds <- Indices(outputs),
  Eval <- GraphEval,
  InputIndex <- InputNamed,
  ParamFits <- ParamFitsInput,
  aphase <- CASE phase \in {"loaded", "planned"} -> "creating"
              [] phase = "ready" -> "ready"
              [] phase = "failed" -> "failed",
  inVal <- IF phase = "ready" THEN InputsOf(pool_data) ELSE AnyIn,
  outVal <- IF phase = "ready" THEN OutputsOf(pool_data) ELSE AnyOut,
  aret <- ret

\* The executor implements GraphExecutor: after every run() that returns,
\* each output holds what the graph computes from the inputs at that
\* time, although the values pass through pool buffers shared by several
\* entries; inputs survive runs; set_input/get_input/get_output address
\* the entry of the index or name given; load_params copies each tensor
\* to the input it names.  This is what the storage plan, entry_id
\* arithmetic, the argument views bound at setup and the order of the
\* closures must get right together.
ImplementsExecutor == Executor!Spec

\* Every closure bound by SetupOpExecs reads and writes the planned pool
\* buffers of its input entries then its output entries, with the planned
\* number of elements, rank 1 when flatten_data is set; data_entry_ keeps
\* the planned shapes whatever the closures did to their copies.
ArgsBindEntries ==
  phase = "ready" =>
    /\ \A eid \in Indices(data_entry) : data_entry[eid].shape = AttrShape[eid]
    /\ \A nid \in Indices(nodes) : nodes[nid].op_type # "null" =>
         LET node == nodes[nid]
             op == op_execs[nid]
             ents == [j \in 1..Len(node.inputs) |-> PlanEntry(node.inputs[j])]
                     \o [k \in 1..node.num_outputs |-> node_row_ptr[nid] + k - 1]
         IN  /\ Len(op.args) = Len(ents)
             /\ \A j \in 1..Len(ents) :
                  /\ op.args[j].pool = PlanPool(ents[j])
                  /\ NumElements(op.args[j].shape) = NumElements(AttrShape[ents[j]])
                  /\ node.flatten_data # 0 => op.args[j].ndim = 1

\* Spec 8.7: every name get_input_names returns is accepted by set_input,
\* i.e. names an input.
InputNamesAccepted ==
  \A i \in 1..Len(input_names) : InputNamed(input_names[i]) >= 0

\* DebugRun never indexes debug_buffers_ out of range, whatever number of
\* set_debug_buffer calls preceded the run.
DebugBuffersInRange == "debug_buffers_" \notin oob

\* The graph input values held in the pool, as GraphExecutor sees them.
CurrentInputs == InputsOf(pool_data)

\* Spec 9 (debug mode): the hook between node executions observes the
\* node just run.  After a debug run() that returns, debug_buffers_[i]
\* holds what node i produced (its first output; an input node's own
\* value).  A debug run returns only when every buffer was registered.
\* DebugRun copies data_entry_[i], indexing entries by a node id.
DebugDumpsNodeOutputs ==
  [][DebugRun /\ Returns =>
       \A i \in Indices(nodes) :
         debug_buffers'[i + 1] = EntryValue(node_row_ptr[i], CurrentInputs)]_vars

\* Running closures never changes a graph input: neither run(), in either
\* mode, nor the partial re-run of debug_get_output, which goes over
\* nodes 0..index with pool buffers the plan shares between entries,
\* writes a buffer that holds an input's value.
ExecutionKeepsInputs ==
  [][(Run \/ DebugRun \/ \E i \in NodeIndexChoices : DebugGetNodeOutput(i))
       => CurrentInputs' = CurrentInputs]_vars

\* With debug_ set, run() dispatches to DebugRun, which executes the
\* nodes one at a time and copies an entry into a debug buffer after
\* each: when it returns, every graph output holds what the graph
\* computes from the inputs, as after run() without debug_.
DebugRunComputesGraph ==
  [][DebugRun /\ Returns =>
       OutputsOf(pool_data') = GraphEval(CurrentInputs)]_vars

\* Spec 9: the debug facility is an observer, not to be conflated with
\* correctness; spec 5: get_output after a run() that returned observes
\* that run.  So once run() has returned, debug_get_output leaves every
\* graph output as it is.
DebugGetOutputObserves ==
  [][ran /\ (\E i \in NodeIndexChoices : DebugGetNodeOutput(i)) =>
       OutputsOf(pool_data') = OutputsOf(pool_data)]_vars

\* load_params does what spec 4.4 says of the very blob it was given: a
\* well-formed blob whose tensors all name inputs and fit them is copied
\* in and the call returns; any other blob makes the call throw, after
\* copying at most a prefix of its tensors.  This is about the framing
\* checks, the unchecked read of data_count, and the ndim/dtype/shape
\* checks of LoadDLTensor, none of which the refinement alone pins to a
\* blob.
LoadParamsAsSpecified ==
  Ready =>
    \A b \in Blobs : \A o \in LoadParamsOutcomes(pool_data, b) :
      IF Executor!BlobLoads(b)
        THEN o.ret = None /\ InputsOf(o.pool) = Executor!ApplyParams(CurrentInputs, b.tensors)
        ELSE /\ o.ret = Err
             /\ \E k \in 0..Len(b.tensors) :
                  /\ \A j \in 1..k : InputNamed(b.tensors[j].name) >= 0
                  /\ InputsOf(o.pool) = Executor!ApplyParams(CurrentInputs, SubSeq(b.tensors, 1, k))

=============================================================================
