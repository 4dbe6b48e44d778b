\* Load on documents that follow spec 4.1, among them a null node with an
\* (empty) attrs object.
CONSTANTS
  Indeterminate <- MCIndeterminate
  ModuleFunctions <- MCModuleFunctions
  DTypeOf <- MCDTypeOf
  Docs <- MCDocs
SPECIFICATION Spec
INVARIANT
  LoadAcceptsValidDocs
CHECK_DEADLOCK FALSE
