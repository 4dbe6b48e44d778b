--------------------------- MODULE MCStoragePlan ---------------------------
(***************************************************************************)
(* Checks SetupStorage on every storage plan of NumEntries entries whose   *)
(* storage ids, dtypes and shapes come from the small sets below.          *)
(***************************************************************************)
EXTENDS StoragePlan

CONSTANTS NumEntries

\* float32, int8 and a 1-bit bool (rejected: bits % 8 /= 0).
Float32 == [code |-> 2, bits |-> 32, lanes |-> 1]
Int8    == [code |-> 0, bits |-> 8,  lanes |-> 1]
Bool1   == [code |-> 1, bits |-> 1,  lanes |-> 1]
DTypes == {Float32, Int8, Bool1}

\* -1 marks a runtime-shape op; ids leave holes when an id is unused.
StorageIds == -1..2

\* A zero-dim entry (one element), an empty tensor, and tensors whose
\* int8 byte size is not a multiple of 4.
Shapes == {<<>>, <<0>>, <<3>>, <<2, 3>>}

Entries == 0..(NumEntries - 1)

Init ==
  /\ storage_id \in [Entries -> StorageIds]
  /\ dltype \in [Entries -> DTypes]
  /\ shape \in [Entries -> Shapes]
  /\ storage_pool = [s \in {} |-> 0]
  /\ data_entry = [i \in {} |-> 0]
  /\ phase = "loaded"

Spec == Init /\ [][StorageNext]_storage_vars
=============================================================================
