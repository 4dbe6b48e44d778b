\* The debug executor (debug_ = true) on the graph of MCGraphRuntime with
\* up to seven set_debug_buffer calls (one per node): what each debug buffer holds after a
\* debug run.
CONSTANTS
  nodes <- MCNodes
  input_nodes <- MCInputNodes
  node_row_ptr <- MCNodeRowPtr
  outputs <- MCOutputs
  AttrStorageId <- MCStorageId
  AttrDLType <- MCDLType
  AttrShape <- MCShape
  ModuleChoices <- MCModuleChoices
  Values <- MCValues
  KernelOut <- MCKernelOut
  Names <- MCNames
  Blobs <- MCBlobs
  Debug = TRUE
  DebugBuild = FALSE
  MaxDebugBuffers = 7
  None = None
  Err = Err
  Unwritten = Unwritten
  Garbage = Garbage
SPECIFICATION Spec
VIEW MCDebugDumpView
PROPERTY DebugDumpsNodeOutputs
CHECK_DEADLOCK FALSE
