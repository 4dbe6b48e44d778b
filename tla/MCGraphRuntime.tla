-------------------------- MODULE MCGraphRuntime --------------------------
(***************************************************************************)
(* A graph with every feature the executor handles:                        *)
(*                                                                         *)
(*   0 x, 1 w   inputs                          entries e0 e1              *)
(*   2 split    fused_split(x, w), 2 outputs,   entries e2 e3, flatten     *)
(*   3 y        input declared after node 2     entry   e4                 *)
(*   4 mul      fused_mul(split.1, y)           entry   e5                 *)
(*   5 reshape  __nop(mul), planned in place    entry   e6 (pool of e5)    *)
(*   6 add      fused_add(split.0, reshape)     entry   e7 (pool of e3)    *)
(*   heads: add, reshape                                                   *)
(*                                                                         *)
(* The plan is that of a liveness-based planner: e7 reuses the buffer of   *)
(* e3, dead once node 4 ran, and e6 is e5 in place.  Values are bits and  *)
(* the kernels xor/and, so a value read from the wrong buffer shows.       *)
(***************************************************************************)
EXTENDS GraphRuntime, TLC

\* The loader, whose uninitialised params are only those of null nodes
\* here (never read).
Loader == INSTANCE GraphLoader WITH Indeterminate <- {0}

F32 == [code |-> 2, bits |-> 32, lanes |-> 1]

Attr(k, v) == [key |-> k, val |-> v]
Tagged(k, t) == [key |-> k, tag |-> t]

InputNode(nm) ==
  [keys |-> <<"op", "name", "inputs">>, op |-> "null", name |-> nm,
   inputs |-> <<>>, attrs |-> <<>>]
OpNode(nm, f, ins, nout, flat) ==
  [keys |-> <<"op", "name", "inputs", "attrs">>, op |-> "tvm_op", name |-> nm,
   inputs |-> ins,
   attrs |-> <<Attr("func_name", f), Attr("num_inputs", ToString(Len(ins))),
               Attr("num_outputs", nout), Attr("flatten_data", flat)>>]

\* The graph JSON the compiler emits for the graph above.
MCDoc ==
  [keys |-> <<"nodes", "arg_nodes", "node_row_ptr", "heads", "attrs">>,
   nodes |-> <<InputNode("x"), InputNode("w"),
               OpNode("split", "fused_split", <<<<0, 0>>, <<1, 0>>>>, "2", "1"),
               InputNode("y"),
               OpNode("mul", "fused_mul", <<<<2, 1>>, <<3, 0>>>>, "1", "0"),
               OpNode("reshape", "__nop", <<<<4, 0>>>>, "1", "0"),
               OpNode("add", "fused_add", <<<<2, 0>>, <<5, 0>>>>, "1", "0")>>,
   arg_nodes |-> <<0, 1, 3>>,
   node_row_ptr |-> <<0, 1, 2, 4, 5, 6, 7, 8>>,
   heads |-> <<<<6, 0, 0>>, <<5, 0, 0>>>>,
   attrs |-> [keys |-> <<Tagged("dltype", "list_str"), Tagged("storage_id", "list_int"),
                        Tagged("shape", "list_shape")>>,
              dltype |-> [e \in 1..8 |-> "float32"],
              storage_id |-> <<0, 1, 2, 3, 4, 5, 5, 3>>,
              shape |-> <<<<2, 2>>, <<2, 2>>, <<4>>, <<4>>, <<4>>, <<4>>, <<2, 2>>, <<4>>>>]]

ASSUME Loader!GraphLoads(MCDoc)

\* What GraphRuntime::Load fills from MCDoc.
Loaded == Loader!LoadGraph(MCDoc, CHOOSE ps \in [Loader!Unassigned(MCDoc) -> Loader!UnsetParams] : TRUE)

MCNodes ==
  [n \in DOMAIN Loaded.nodes |->
     LET nd == Loaded.nodes[n] IN
     [op_type |-> nd.op_type, name |-> nd.name, inputs |-> nd.inputs,
      func_name |-> nd.param.func_name, num_inputs |-> nd.param.num_inputs,
      num_outputs |-> nd.param.num_outputs, flatten_data |-> nd.param.flatten_data]]
MCInputNodes == Loaded.input_nodes
MCNodeRowPtr == Loaded.node_row_ptr
MCOutputs == Loaded.outputs
MCStorageId == Loaded.storage_id
\* String2TVMType("float32").
MCDLType == [e \in DOMAIN Loaded.dltype |-> F32]
MCShape == Loaded.shape

\* A module with every kernel, and one that lacks fused_mul.
MCModuleChoices == {{"fused_split", "fused_mul", "fused_add"}, {"fused_split", "fused_add"}}

MCValues == 0..1

MCKernelOut(f, k, a) ==
  CASE f = "fused_split" -> IF k = 0 THEN (a[1] + a[2]) % 2 ELSE a[1] * a[2]
    [] f = "fused_mul" -> a[1] * a[2]
    [] f = "fused_add" -> (a[1] + a[2]) % 2

MCNames == {"w", "y", "nope"}

\* Parameter blobs: up to two well-framed tensors, each naming an input
\* or not, with the shape of w or of y, carrying a bit (a second tensor
\* only follows one that loads: after a tensor that fails nothing more is
\* read); and blobs broken at each framing check: the list magic, a
\* data_count that differs from the names or is missing, and a second
\* tensor with a bad magic, a wrong data_byte_size or truncated data; and
\* tensors whose dtype
\* differs in its code or its lanes, or whose extents differ at the same ndim.
Tensor(nm, shp, v) ==
  [name |-> nm, magic |-> TRUE, dtype |-> F32, shape |-> shp, size_ok |-> TRUE,
   complete |-> TRUE, val |-> v]
Tensors == {Tensor(nm, shp, v) : nm \in {"w", "y", "nope"}, shp \in {<<2, 2>>, <<4>>}, v \in MCValues}
Loadable == {t \in Tensors : \/ t.name = "w" /\ t.shape = <<2, 2>>
                             \/ t.name = "y" /\ t.shape = <<4>>}
Blob(ts) == [list_magic |-> TRUE, count |-> "equal", tensors |-> ts]
W1 == Tensor("w", <<2, 2>>, 1)
\* dtypes that differ from float32 in the code field only, and in lanes only.
I32 == [code |-> 0, bits |-> 32, lanes |-> 1]
F32x2 == [code |-> 2, bits |-> 32, lanes |-> 2]
Y1 == Tensor("y", <<4>>, 1)
MCBlobs ==
  {Blob(ts) : ts \in {<<>>} \cup {<<t>> : t \in Tensors} \cup {<<t, u>> : t \in Loadable, u \in Tensors}}
  \cup {[Blob(<<W1>>) EXCEPT !.list_magic = FALSE],
        [Blob(<<W1>>) EXCEPT !.count = "differs"],
        [Blob(<<W1>>) EXCEPT !.count = "missing"],
        Blob(<<W1, [Y1 EXCEPT !.magic = FALSE]>>),
        Blob(<<W1, [Y1 EXCEPT !.size_ok = FALSE]>>),
        Blob(<<W1, [Y1 EXCEPT !.complete = FALSE]>>),
        Blob(<<[W1 EXCEPT !.dtype = I32]>>),
        Blob(<<W1, [Y1 EXCEPT !.dtype = F32x2]>>),
        Blob(<<[W1 EXCEPT !.shape = <<1, 4>>]>>)}

\* The blobs above and one that ends right after an empty name list.
MCBlobsTruncated == MCBlobs \cup {[Blob(<<>>) EXCEPT !.count = "missing"]}

\* State fingerprints for the debug runs.  No action reads ret, the name
\* lists, ran or the contents of debug_buffers (set_debug_buffer and
\* DebugRun read only its length), so states that differ only there have
\* the same successors.  MCDebugRunView also drops the contents, which
\* ExecutionKeepsInputs and DebugRunComputesGraph do not read;
\* MCDebugDumpView keeps them for DebugDumpsNodeOutputs.
MCDebugRunView ==
  <<storage_vars, module_, op_execs, pool_data, Len(debug_buffers), oob>>

MCDebugDumpView == <<storage_vars, module_, op_execs, pool_data, debug_buffers, oob>>

=============================================================================
