\* The executor of a TVM_GRAPH_RUNTIME_DEBUG build with debug_ set: run()
\* dispatches to DebugRun, and debug_get_output by node index and by name
\* are available.  Up to seven set_debug_buffer calls, one per node.
\* Construction failure is terminal, as in
\* MCGraphRuntime.cfg.
CONSTANTS
  nodes <- MCNodes
  input_nodes <- MCInputNodes
  node_row_ptr <- MCNodeRowPtr
  outputs <- MCOutputs
  AttrStorageId <- MCStorageId
  AttrDLType <- MCDLType
  AttrShape <- MCShape
  ModuleChoices <- MCModuleChoices
  Values <- MCValues
  KernelOut <- MCKernelOut
  Names <- MCNames
  Blobs <- MCBlobs
  Debug = TRUE
  DebugBuild = TRUE
  MaxDebugBuffers = 7
  None = None
  Err = Err
  Unwritten = Unwritten
  Garbage = Garbage
SPECIFICATION Spec
VIEW MCDebugRunView
CHECK_DEADLOCK FALSE
PROPERTIES ExecutionKeepsInputs DebugRunComputesGraph
