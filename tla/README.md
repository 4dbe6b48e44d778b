# TLA+ models of the TVM graph runtime

These modules model `src/tvm/src/runtime/graph/graph_runtime.cc`, the TVM `GraphRuntime`. All line numbers below refer to that file. The models were written from the code. `spec.md` was used only to say what the code is supposed to promise.

## The system

`GraphRuntime` runs a compiled neural-network graph on a single device. It has these parts:

1. **Graph loader** (`Load`, `NodeEntry::Load`, `Node::Load`, `GraphAttr::Load`, lines 300-470). It reads the graph JSON: nodes, `arg_nodes` (the graph inputs), `node_row_ptr`, `heads` (the graph outputs), and the attributes `storage_id`, `dltype` and `shape`. It validates required fields with bitmasks.
2. **Storage planner** (`SetupStorage`, 605-650). It sizes one pool buffer per storage id to the largest node entry that shares the id. It allocates `(bytes+3)/4` float32 elements per buffer. It then makes every node entry (`data_entry_[eid]`) a view of its buffer, with its own shape and dtype.
3. **Op binder** (`SetupOpExecs`, 652-674, and `CreateTVMOp`, 676-719). For every op node it copies the views of the node's inputs and outputs into a closure. If `flatten_data` is set, it flattens those copies. It looks the kernel up in the compiled module, which is fatal if the kernel is missing. `__nop` gets an empty closure.
4. **Executor**. `Run` (58-63) and, with `debug_`, `DebugRun` (65-83) call the closures in node order. `SetInput`, `GetInput` and `GetOutput` copy tensors in and out of entry views, by index or by name through `GetInputIndex`. `get_input_names` and `get_output_names` report names. `set_debug_buffer` registers buffers that `DebugRun` copies into.
5. **Parameter loader** (`LoadParams` and `LoadDLTensor`, 534-603). It reads a blob of named tensors. It copies each tensor into the input of that name, one at a time, and checks ndim, dtype and shape.
6. **Lifecycle**. `GraphRuntimeCreate` (788-800) runs `Init` (90-106): Load, then SetupStorage, then SetupOpExecs. The destructor (36-40) frees every pool. `GetFunction` (721-786) dispatches the packed calls.
7. **Debug helpers**. `PrintDlTensor`, `DumpGraphRuntime` and `CheckNanOrInf` only print, or are called so that they return at once. A build with `TVM_GRAPH_RUNTIME_DEBUG` adds `debug_get_output` (`GetNodeIndex` and `DebugGetNodeOutput`, 247-284 and 760-769). It re-runs nodes 0..index and copies `data_entry_[index]` out.

The parts interact through shared buffers. The planner decides which entries alias. The binder freezes views of those aliased buffers into closures. The executor's calls, load_params and the kernels then all write the same buffers. A wrong plan, a stale view, or a failure part-way through a step therefore shows up only as wrong values later. That is why the models are built around refinement: the detailed runtime is checked against an abstract executor that has no buffers at all.

## Modules

| Module | Models | Lines |
|---|---|---|
| `StoragePlan` | `SetupStorage`: the lazily resized sizing loop (`GrowPool`, `PoolEntryBytes`), its checks (`PlanSupported`), the allocation (`PoolElements`, `AllocatedPool`) and the views (`EntryView`). The actions are `SetupStorage` and `SetupStorageFails`. | 605-650 |
| `GraphExecutor` | The abstract promise. It holds one value per input and one per output. `Run` sets the outputs to `Eval(inputs)`. A failing run makes the outputs undefined. `LoadParams` applies a prefix of its tensors when it fails. In a debug build, `Observe` (the debug observer of spec 9) returns a value and changes nothing. Nothing in it is mapped to code: it is the specification that GraphRuntime refines. | spec 4.5, 5, 8 |
| `GraphRuntime` | Extends `StoragePlan`. It adds the binder (`NodeArgs`, `FlattenView`, `CreateTVMOp`, `OpExecs`), the kernels' effect on pool buffers (`ExecOp`, `WriteOutputs`, `RunOps`, `DebugOps`), the parameter loader (`TensorFits`, `LoadTensors`), and one action per packed function and per construction step. | 36-246, 491-803 |
| `GraphLoader` | The JSON loaders as predicates on a tokenised document: `NodeEntryLoad(s)`, `LoadAttrs(OK)` (with `StrToUL`), `NodeLoad(s)`, `GraphAttrLoads`, `GraphLoads`, and `LoadGraph`, the members `Load` fills. A bitmask is the set of keys seen. A tvm_op node without attrs keeps an uninitialised `TVMOpParam` (`UnsetParams`). No variables. | 300-470 |
| `GraphInit` | `GraphRuntimeCreate` end to end: `Load`, `SetupStorage` (sizing, allocation one pool at a time with a possible failure, views), `SetupOpExecs` (binding reads and the kernel lookup), `Unwind` (the exception destroys the runtime) and `Release`, both through `Destructor`. A read outside a loaded vector goes to the terminal phase "undefined" and is recorded in `oob`. | 36-40, 90-106, 300-502, 605-674, 788-800 |
| `MCStoragePlan` | Every plan of `NumEntries` entries over 3 dtypes, storage ids -1..2, and 4 shapes. | |
| `MCGraphRuntime` | One concrete graph, built to contain every interesting case. It is written as a graph JSON document (`MCDoc`), and the constants of `GraphRuntime` are what `GraphLoader!LoadGraph` produces from it, so the executor runs are checked on the loader's output. | |
| `MCGraphInit` | 26 documents: one valid graph (`Base`) and 25 variants, each broken at one place (a missing or extra key, a missing parameter, a wrong op, a bad entry, a wrong tag, an inconsistent plan). | |

### State and actions of `GraphRuntime`

The variables are the member fields:
- `storage_pool` and `pool_data` (the buffers and their contents);
- `data_entry`, `op_execs` and `debug_buffers`;
- `module_` (the kernel names the module exports);
- `phase` (loaded / planned / ready / failed / crashed);
- `ret` (what the last packed call returned, or `Err` if it threw);
- `input_names` and `output_names` (the last list each of get_input_names and get_output_names returned);
- `ran`, a history variable with no counterpart in the code: whether the last run() returned. Only `DebugGetOutputObserves` reads it.
- `oob`, the set of vectors that were indexed out of range. For most reads it records undefined behaviour instead of choosing its outcome. The exception is DebugRun's copy to an unregistered `debug_buffers_[i]` at line 79: it dereferences a pointer read past the vector, and it is modelled as a crash of the process (phase `crashed`, a terminal state). So a debug run returns only when every node has a buffer.

Tensor contents are abstracted to one value per pool buffer, from a small set `Values`. A kernel is the constant operator `KernelOut(func, k, args)`. Memory fresh from `TVMArrayAlloc` is a nondeterministic choice of values.

Each packed call is one atomic action. The runtime is single-threaded and every call is synchronous: nothing else runs between two statements of a call. The actions are:
- construction: `AllocateStorage` / `AllocateStorageFails`, then `SetupOpExecs` / `SetupOpExecsFails` (a kernel missing from the module);
- `SetInput`, `SetInputByName`, `GetInput`, `GetInputByName`, `GetOutput`, `GetInputNames`, `GetOutputNames`, `SetDebugBuffer`;
- `DebugGetNodeOutput` and `DebugGetNodeOutputByName`, enabled only when the constant `DebugBuild` is TRUE;
- `Run` and `DebugRun`. Either one may stop at any kernel that throws, leaving the earlier nodes' writes in place. `DebugRun` also crashes when it reaches the first node without a debug buffer;
- `LoadParams`. It takes one of `LoadParamsOutcomes(pool_data, blob)`, the results the call can have. A bad list magic or a `data_count` that differs from the names throws before any copy. A missing `data_count` leaves `sz` uninitialised: the call throws, or returns with nothing loaded when the name list is empty and the garbage happens to be 0. Otherwise `LoadTensors` stops at the first tensor with an unknown name, a bad magic, a shape that does not fit, a wrong `data_byte_size` or truncated data, after the earlier tensors were copied.

### The checked graph (`MCGraphRuntime`)

```
x(0) w(1) --fused_split(flatten)--> e2,e3      y(3) = e4
e3,y --fused_mul--> e5 --__nop--> e6           e2,e6 --fused_add--> e7
outputs: e7, e6        storage ids e0..e7: 0 1 2 3 4 5 5 3
```

This graph has:
- a two-output kernel, so entry ids and node ids differ after node 2;
- an input declared after it (`y`);
- an in-place `__nop` that shares its input's buffer;
- a buffer reused by a later entry (e7 takes e3's buffer);
- flattening of a 2×2 view;
- a module that may lack `fused_mul`.

Values are 0..1. `MCBlobs` holds well-formed blobs of at most two tensors and blobs that break one check each:
- an unknown name;
- the list magic, or `data_count` differing or missing;
- a tensor's magic, `data_byte_size`, or truncated data;
- a dtype differing only in its code, or only in its lanes;
- a shape of equal size but different extents.

`MCBlobsTruncated` adds the blob that ends right after an empty name list.

### State and actions of `GraphInit`

The variables are `doc` (the JSON passed in), `graph` (the loaded members), `storage_pool` (handles, in push order), `allocated`, `freed` (handles whose `TVMArrayFree` returned 0, in order), `phase`, `thrown` (the Init step that threw) and `oob`. Each setup loop is a sequence of per-iteration outcomes (`SizingStep`, `ViewStep`, `BindStep`), and `FirstFailure` takes the first one that throws or reads out of range, as the loop would. `Destructor` frees a prefix of `storage_pool`: all of it, or up to a free that fails, after which the process terminates.

## Runs

| Run | Cfg | Expect | What it shows |
|---|---|---|---|
| storage_plan | MCStoragePlan.cfg | pass | On every 3-entry plan, SetupStorage either throws or allocates exactly the reference plan (max bytes per id, rounded up to float32). Every view fits its buffer. 235,008 states. |
| storage_zero_pool | MCStoragePlanZero.cfg | violation | A zero-byte pool gets 0 elements, but spec 4.2 says it gets 1. |
| executor | MCGraphRuntime.cfg | pass | `LoadParamsAsSpecified`: in every ready state, each blob's possible outcomes are what spec 4.4 says of that blob. A well-formed blob whose tensors name and fit inputs is copied in and the call returns. Any other blob throws after copying a prefix of its tensors. The refinement alone cannot pin a step to its blob, because a bad blob with the same effect as a good one would match it. Also `TypeOK`, `ArgsBindEntries` (each closure's arguments are the views of exactly the node's entries, with flattening applied only to the copies) and `ImplementsExecutor`. Any sequence of calls, with kernels and load_params failing part-way, refines `GraphExecutor`. So run() computes the graph function of the current inputs despite buffer reuse, inputs are never clobbered, and partial failures have only the promised effects. |
| params_truncated | MCParamsTruncated.cfg | violation | `LoadParamsAsSpecified` is violated by a blob that ends after an empty name list. The unchecked read of `data_count` (591) leaves `sz` uninitialised. When it is 0, load_params returns normally on a blob spec 4.4 rejects. |
| executor_debug | MCGraphRuntimeDebug.cfg | pass | A `TVM_GRAPH_RUNTIME_DEBUG` build with `debug_ = true` and up to 7 set_debug_buffer calls, one per node. `DebugRunComputesGraph`: a DebugRun that returns leaves every output equal to the graph function of the inputs, as run() would. `ExecutionKeepsInputs`: neither DebugRun nor the partial re-run of debug_get_output ever changes a graph input, although closures write buffers the plan shares between entries. The refinement is not checked here, because debug_get_output breaks it (run debug_observe). |
| debug_observe | MCDebugObserve.cfg | violation | `DebugGetOutputObserves`: once run() has returned, debug_get_output leaves the graph outputs as they are (spec 9 calls it an observer, and spec 5 says get_output after run observes that run). In the trace, run() returns, then debug_get_output re-runs a prefix of the graph and turns the buffer of a graph output from 1 to 0. debug_get_output also copies entry `index`, not node `index`'s output. This is the indexing bug DebugRun has at line 79, so it has no separate run. |
| input_names | MCInputNames.cfg | violation | get_input_names returns `x;w;mul`. `nodes_` is indexed by entry id, and set_input("mul") is then ignored. |
| debug_buffers | MCDebugBuffers.cfg | violation | DebugRun writes `debug_buffers_[i]` for every node even when fewer buffers were registered. |
| debug_dump | MCDebugDump.cfg | violation | With one buffer registered for each of the 7 nodes, DebugRun copies entry i after node i. Node y's buffer receives split's second output, not y (spec 9). |
| init_lifecycle | MCGraphInit.cfg | pass | `ConstructedOnlyFromValidDocs`: a runtime is handed out only for a spec-valid document, because what Load lets through (a wrong op, a tvm_op without attrs) is caught by SetupOpExecs. `FailedInitReleasesPools`: after Init throws, the pools are eventually all freed, unless a free terminates the process. |
| init_reads | MCInitReads.cfg | violation | Load accepts a plan whose `storage_id` list is shorter than the entries, and SetupStorage reads past its end. `MCDocs` also holds documents that reach the unchecked reads at 642 and 661-663; TLC reports the first violation it finds. |
| init_valid_docs | MCInitValidDocs.cfg | violation | A null node with an empty `attrs` object is valid by spec 4.1, but LoadAttrs requires all four keys and Load throws. |

Each property of the passing runs has a mutant in `PROJECT.json`: a plausible bug in the mapped code that TLC catches. For example:
- the sizing loop keeping the last size instead of the max;
- floor instead of ceiling;
- `entry_id` ignoring the output index;
- flattening to the first dimension;
- binding one node too few;
- DebugRun stopping one node early;
- the dtype check ignoring lanes.

### Bounds and why they suffice

`NumEntries = 3` enumerates all the orders in which entries of one storage id can appear (grow, shrink, equal), as well as unused ids, zero-size shapes and rejected ids and dtypes. The one concrete graph contains each aliasing and indexing situation at least once. Two values are enough to tell xor/and kernels and stale data apart. `MaxDebugBuffers = 1` (run debug_buffers) is smaller than the number of nodes, which is the case where line 79 reads out of range. `MCGraphRuntimeDebug` and `MCDebugDump` allow 7 buffers, one per node, so debug runs can return.

The two debug runs use a TLC `VIEW`. A view fingerprints states by some of the variables, and states with the same view are explored once. No action reads `ret`, `input_names`, `output_names`, `ran` or the contents of `debug_buffers` (set_debug_buffer and DebugRun read only its length). So states that differ only there have the same successors, and merging them loses nothing. `MCDebugRunView` also drops the contents of `debug_buffers`, which its properties do not read. `MCDebugDumpView` keeps them, because `DebugDumpsNodeOutputs` reads them. The documents of `MCGraphInit` break the base graph at one place each, so that every check of every loader and every setup loop is the first to fail in at least one document. `Indeterminate = {0, 1, 3}` covers an uninitialised `num_outputs` that is zero, that fits, and that overruns the row.

### Fairness

`GraphRuntime` has none. Every step there is a call made by the caller, who may stop at any time.

`GraphInit` has weak fairness on `Load`, `SetupStorage`, `SetupOpExecs` and `Unwind`. These are consecutive statements of one `GraphRuntimeCreate` call and the stack unwinding of its exception: once the call starts, they run. `Release` has no fairness, because whether the caller ever drops the runtime is up to the caller. `FailedInitReleasesPools` depends only on the fair steps.

`CHECK_DEADLOCK FALSE` is set because a failed construction really is terminal (the runtime is never handed out), and so are a destroyed runtime, a terminated process, and the end of SetupStorage in the storage model.

## Not modelled, and the plan for later sittings

Done so far:
- the storage planner, binder, executor and parameter loader (including its framing);
- the refinement of GraphRuntime to GraphExecutor;
- the JSON loaders, composed with the executor through `MCDoc`;
- the construction and destruction lifecycle;
- the debug dump contract and `debug_get_output`;
- the per-blob contract of `load_params` (`LoadParamsAsSpecified`).

Planned next: vary the graph, to reach kernels with more inputs and more flattened views.

Not modelled:
- 64-bit overflow of the extents product (619). Extents are small and non-negative here.
- strtoul turning a non-numeric parameter into 0 (345-351). It is modelled, but the spec has no rule to check it against.
- printing and `CheckNanOrInf` (the call passes `CHECK_NONE`, so it returns at once);
- device selection and the `ctx_` argument;
- the registration macro.
