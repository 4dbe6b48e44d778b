\* Init on documents that Load accepts but whose vectors disagree with
\* node_row_ptr: SetupStorage or SetupOpExecs reads past a vector.
CONSTANTS
  Indeterminate <- MCIndeterminate
  ModuleFunctions <- MCModuleFunctions
  DTypeOf <- MCDTypeOf
  Docs <- MCDocs
SPECIFICATION Spec
INVARIANT
  SetupReadsInRange
CHECK_DEADLOCK FALSE
