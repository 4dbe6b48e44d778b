\* GraphRuntimeCreate on every document of MCDocs, with any TVMArrayAlloc
\* or TVMArrayFree failing, and the destructor after a failure or a release.
CONSTANTS
  Indeterminate <- MCIndeterminate
  ModuleFunctions <- MCModuleFunctions
  DTypeOf <- MCDTypeOf
  Docs <- MCDocs
SPECIFICATION Spec
INVARIANTS
  ConstructedOnlyFromValidDocs
PROPERTY
  FailedInitReleasesPools
\* A destroyed or terminated runtime, and one whose Init read out of range,
\* take no further step.
CHECK_DEADLOCK FALSE
