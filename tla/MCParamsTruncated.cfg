\* load_params on the graph of MCGraphRuntime with one more blob: an empty
\* name list and nothing after it, so data_count is never read.
CONSTANTS
  nodes <- MCNodes
  input_nodes <- MCInputNodes
  node_row_ptr <- MCNodeRowPtr
  outputs <- MCOutputs
  AttrStorageId <- MCStorageId
  AttrDLType <- MCDLType
  AttrShape <- MCShape
  ModuleChoices <- MCModuleChoices
  Values <- MCValues
  KernelOut <- MCKernelOut
  Names <- MCNames
  Blobs <- MCBlobsTruncated
  Debug = FALSE
  DebugBuild = FALSE
  MaxDebugBuffers = 1
  None = None
  Err = Err
  Unwritten = Unwritten
  Garbage = Garbage
SPECIFICATION Spec
INVARIANT LoadParamsAsSpecified
CHECK_DEADLOCK FALSE
