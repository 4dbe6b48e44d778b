\* debug_get_output in a TVM_GRAPH_RUNTIME_DEBUG build, against the
\* debug observer of spec 9, which leaves the outputs of the last run()
\* alone.
CONSTANTS
  nodes <- MCNodes
  input_nodes <- MCInputNodes
  node_row_ptr <- MCNodeRowPtr
  outputs <- MCOutputs
  AttrStorageId <- MCStorageId
  AttrDLType <- MCDLType
  AttrShape <- MCShape
  ModuleChoices <- MCModuleChoices
  Values <- MCValues
  KernelOut <- MCKernelOut
  Names <- MCNames
  Blobs <- MCBlobs
  Debug = FALSE
  DebugBuild = TRUE
  MaxDebugBuffers = 1
  None = None
  Err = Err
  Unwritten = Unwritten
  Garbage = Garbage
SPECIFICATION Spec
CHECK_DEADLOCK FALSE
PROPERTY DebugGetOutputObserves
