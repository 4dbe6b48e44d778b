---------------------------- MODULE MCGraphInit ----------------------------
(***************************************************************************)
(* GraphRuntimeCreate on a small graph, y = fused_add(x, w), and on        *)
(* documents that each change one thing of it: a missing, unknown or       *)
(* mistagged key at every level, a tvm_op without attrs, an op other than  *)
(* tvm_op, a null node with an attrs object, entries of the wrong arity,   *)
(* a kernel missing from the module, and plans whose vectors do not agree  *)
(* with node_row_ptr.                                                      *)
(***************************************************************************)
EXTENDS GraphInit

MCIndeterminate == {0, 1, 3}

MCModuleFunctions == {"fused_add"}

MCDTypeOf == [s \in {"float32", "bool"} |->
                IF s = "float32" THEN [code |-> 2, bits |-> 32, lanes |-> 1]
                                 ELSE [code |-> 1, bits |-> 1, lanes |-> 1]]

Attr(k, v) == [key |-> k, val |-> v]
Tagged(k, t) == [key |-> k, tag |-> t]

NullNode(nm) ==
  [keys |-> <<"op", "name", "inputs">>, op |-> "null", name |-> nm,
   inputs |-> <<>>, attrs |-> <<>>]

AddAttrs ==
  <<Attr("func_name", "fused_add"), Attr("num_inputs", "2"),
    Attr("num_outputs", "1"), Attr("flatten_data", "0")>>

AddNode ==
  [keys |-> <<"op", "name", "inputs", "attrs">>, op |-> "tvm_op", name |-> "y",
   inputs |-> <<<<0, 0, 0>>, <<1, 0, 0>>>>, attrs |-> AddAttrs]

GraphAttrs ==
  [keys |-> <<Tagged("dltype", "list_str"), Tagged("storage_id", "list_int"),
              Tagged("shape", "list_shape")>>,
   dltype |-> <<"float32", "float32", "float32">>,
   storage_id |-> <<0, 1, 2>>,
   shape |-> <<<<2>>, <<2>>, <<2>>>>]

Base ==
  [keys |-> <<"nodes", "arg_nodes", "node_row_ptr", "heads", "attrs">>,
   nodes |-> <<NullNode("x"), NullNode("w"), AddNode>>,
   arg_nodes |-> <<0, 1>>, node_row_ptr |-> <<0, 1, 2, 3>>,
   heads |-> <<<<2, 0, 0>>>>, attrs |-> GraphAttrs]

\* The add node with its attribute object replaced.
WithAddAttrs(as) == [Base EXCEPT !.nodes[3].attrs = as]
WithAddParam(k, v) ==
  WithAddAttrs([j \in DOMAIN AddAttrs |->
                  IF AddAttrs[j].key = k THEN Attr(k, v) ELSE AddAttrs[j]])

MCDocs == {
  Base,
  [Base EXCEPT !.keys = <<"nodes", "arg_nodes", "node_row_ptr", "attrs">>],
  [Base EXCEPT !.keys = Append(@, "version")],
  [Base EXCEPT !.nodes[3].keys = <<"op", "inputs", "attrs">>],
  [Base EXCEPT !.nodes[1].keys = Append(@, "shape")],
  [Base EXCEPT !.nodes[3].keys = <<"op", "name", "inputs", "control_deps">>],
  [Base EXCEPT !.nodes[3].keys = <<"op", "name", "inputs", "attr">>,
               !.nodes[3].inputs = <<<<0, 0>>, <<1, 0>>>>],
  WithAddAttrs(SubSeq(AddAttrs, 1, 2) \o <<Attr("flatten_data", "0")>>),
  WithAddParam("func_name", "__nop"),
  WithAddParam("func_name", "fused_mul"),
  WithAddParam("num_outputs", "2"),
  [Base EXCEPT !.nodes[3].op = "conv"],
  [Base EXCEPT !.nodes[1].keys = Append(@, "attrs")],
  [Base EXCEPT !.nodes[3].inputs = <<<<0>>, <<1, 0>>>>],
  [Base EXCEPT !.nodes[3].inputs = <<<<0, 0>>, <<5, 0>>>>],
  [Base EXCEPT !.heads = <<<<2, 0, 0, 0>>>>],
  [Base EXCEPT !.attrs.keys[1].tag = "list_int"],
  [Base EXCEPT !.attrs.keys = Append(@, Tagged("storage_num_not_allocated", "size_t"))],
  [Base EXCEPT !.attrs.keys = Append(@, Tagged("func_name_list", "list_str"))],
  [Base EXCEPT !.attrs.keys = SubSeq(@, 1, 2)],
  [Base EXCEPT !.attrs.storage_id = <<0, 1>>],
  [Base EXCEPT !.attrs.storage_id = <<0, -1, 2>>],
  [Base EXCEPT !.attrs.storage_id = <<0, 1, 0>>],
  [Base EXCEPT !.attrs.dltype[2] = "bool"],
  [Base EXCEPT !.node_row_ptr = <<>>],
  [Base EXCEPT !.attrs.storage_id = <<0, 1, 2, 3>>, !.attrs.dltype = Append(@, "float32"),
               !.attrs.shape = Append(@, <<4>>)]
}

=============================================================================
