--------------------------- MODULE GraphExecutor ---------------------------
(***************************************************************************)
(* What a graph executor promises its caller (spec.md 4.5, 5 and 8),       *)
(* stated without storage pools, entry ids or kernels: the executor holds  *)
(* one value per graph input and one per graph output; run() sets every    *)
(* output to the function of the current inputs that the graph computes;  *)
(* set_input, get_input, get_output and load_params touch only the values  *)
(* they name.  GraphRuntime is checked to implement this module.           *)
(***************************************************************************)
EXTENDS Integers, Sequences

CONSTANTS
  InputIds,          \* indices of the graph inputs (arg_nodes)
  OutputIds,         \* indices of the graph outputs (heads)
  Values,            \* tensor contents
  Eval(_),           \* Eval(in)[o]: output o of the graph for inputs in
  InputIndex(_),     \* the input a name resolves to, or -1
  ParamFits(_, _),   \* ParamFits(t, i): parameter tensor t fits input i
  Blobs,             \* parameter blobs a caller may pass to load_params
  DebugBuild,        \* whether the build has the debug observer call
  None, Err          \* "returned normally" and "threw"

VARIABLES
  aphase,   \* "creating", then "ready" or "failed"
  inVal,    \* InputIds -> Values
  outVal,   \* OutputIds -> Values
  aret      \* what the last call returned

avars == <<aphase, inVal, outVal, aret>>

\* The inputs after the parameter tensors ts are copied in, in order.
RECURSIVE ApplyParams(_, _)
ApplyParams(in, ts) ==
  IF ts = <<>> THEN in
  ELSE ApplyParams([in EXCEPT ![InputIndex(Head(ts).name)] = Head(ts).val], Tail(ts))

\* Spec 4.4: the list header carries its magic, data_count equals the
\* number of names, and every tensor carries its magic, a data_byte_size
\* that matches its shape, and all its bytes.
WellFramed(b) ==
  /\ b.list_magic
  /\ b.count = "equal"
  /\ \A j \in 1..Len(b.tensors) :
       b.tensors[j].magic /\ b.tensors[j].size_ok /\ b.tensors[j].complete

\* A blob loads when it is well framed and every tensor names an input
\* and fits it.
BlobLoads(b) ==
  /\ WellFramed(b)
  /\ \A j \in 1..Len(b.tensors) :
       LET t == b.tensors[j]
       IN  InputIndex(t.name) >= 0 /\ ParamFits(t, InputIndex(t.name))

AbstractInit ==
  /\ aphase = "creating"
  /\ inVal \in [InputIds -> Values]
  /\ outVal \in [OutputIds -> Values]
  /\ aret = None

\* Construction: the buffers are allocated with undefined contents.
Create ==
  /\ aphase = "creating"
  /\ aphase' = "ready"
  /\ inVal' \in [InputIds -> Values]
  /\ outVal' \in [OutputIds -> Values]
  /\ UNCHANGED aret

CreateFails ==
  /\ aphase = "creating"
  /\ aphase' = "failed"
  /\ UNCHANGED <<inVal, outVal, aret>>

SetInput(i, v) ==
  /\ aphase = "ready"
  /\ inVal' = [inVal EXCEPT ![i] = v]
  /\ aret' = None
  /\ UNCHANGED <<aphase, outVal>>

\* A call that returns without effect (an unknown name for set_input).
NoEffect ==
  /\ aphase = "ready"
  /\ aret' = None
  /\ UNCHANGED <<aphase, inVal, outVal>>

\* A call that throws without effect (a bad index or name).
Fails ==
  /\ aphase = "ready"
  /\ aret' = Err
  /\ UNCHANGED <<aphase, inVal, outVal>>

GetInput(i) ==
  /\ aphase = "ready"
  /\ aret' = inVal[i]
  /\ UNCHANGED <<aphase, inVal, outVal>>

GetOutput(o) ==
  /\ aphase = "ready"
  /\ aret' = outVal[o]
  /\ UNCHANGED <<aphase, inVal, outVal>>

Run ==
  /\ aphase = "ready"
  /\ outVal' = Eval(inVal)
  /\ aret' = None
  /\ UNCHANGED <<aphase, inVal>>

\* A kernel throws: the outputs are undefined, the inputs are untouched.
RunFails ==
  /\ aphase = "ready"
  /\ outVal' \in [OutputIds -> Values]
  /\ aret' = Err
  /\ UNCHANGED <<aphase, inVal>>

\* A blob that loads sets every input it names; one that does not load
\* throws after copying some prefix of its tensors.
LoadParams(b) ==
  /\ aphase = "ready"
  /\ IF BlobLoads(b)
       THEN inVal' = ApplyParams(inVal, b.tensors) /\ aret' = None
       ELSE /\ \E k \in 0..Len(b.tensors) :
                 /\ \A j \in 1..k : InputIndex(b.tensors[j].name) >= 0
                 /\ inVal' = ApplyParams(inVal, SubSeq(b.tensors, 1, k))
            /\ aret' = Err
  /\ UNCHANGED <<aphase, outVal>>

\* Spec 9: the debug observer reads a value and is not to be conflated
\* with correctness: it changes neither the inputs nor the outputs.
Observe ==
  /\ aphase = "ready"
  /\ DebugBuild
  /\ aret' \in Values
  /\ UNCHANGED <<aphase, inVal, outVal>>

AbstractNext ==
  \/ \E i \in InputIds, v \in Values : SetInput(i, v)
  \/ \E i \in InputIds : GetInput(i)
  \/ \E o \in OutputIds : GetOutput(o)
  \/ NoEffect \/ Fails \/ Create \/ CreateFails
  \/ Run \/ RunFails
  \/ \E b \in Blobs : LoadParams(b)
  \/ Observe

Spec == AbstractInit /\ [][AbstractNext]_avars

=============================================================================
