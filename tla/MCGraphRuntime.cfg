\* The executor on the graph of MCGraphRuntime, debug_ = false.
\* Construction may fail (a module without fused_mul, an allocation
\* failure); GraphRuntimeCreate then throws and nothing further happens,
\* so those terminal states are not deadlocks.
CONSTANTS
  nodes <- MCNodes
  input_nodes <- MCInputNodes
  node_row_ptr <- MCNodeRowPtr
  outputs <- MCOutputs
  AttrStorageId <- MCStorageId
  AttrDLType <- MCDLType
  AttrShape <- MCShape
  ModuleChoices <- MCModuleChoices
  Values <- MCValues
  KernelOut <- MCKernelOut
  Names <- MCNames
  Blobs <- MCBlobs
  Debug = FALSE
  DebugBuild = FALSE
  MaxDebugBuffers = 1
  None = None
  Err = Err
  Unwritten = Unwritten
  Garbage = Garbage
SPECIFICATION Spec
INVARIANTS TypeOK ArgsBindEntries
INVARIANT LoadParamsAsSpecified
PROPERTIES ImplementsExecutor
CHECK_DEADLOCK FALSE
