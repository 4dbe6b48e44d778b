---------------------------- MODULE StoragePlan ----------------------------
(***************************************************************************)
(* GraphRuntime::SetupStorage (graph_runtime.cc): the compiler's storage   *)
(* plan (attrs_.storage_id, attrs_.dltype, attrs_.shape, one element per   *)
(* node entry) is turned into a pool of device buffers, one per storage    *)
(* id, each sized to the largest entry that shares it, and every node      *)
(* entry becomes a non-owning view over its pool buffer.                   *)
(*                                                                         *)
(* Entry ids and storage ids are 0-based, as in the code: every per-entry  *)
(* array is a function with domain 0..NumEntries-1 and the pool is a       *)
(* function with domain 0..Len(pool_entry_bytes)-1.                        *)
(***************************************************************************)
EXTENDS Integers, Sequences, FiniteSets
LOCAL INSTANCE Functions

VARIABLES
  storage_id,       \* attrs_.storage_id : entry -> Int
  dltype,           \* vtype after String2TVMType: entry -> [code, bits, lanes]
  shape,            \* attrs_.shape : entry -> Seq(Nat)
  storage_pool,     \* storage_pool_ : pool id -> number of float32 elements
  data_entry,       \* data_entry_ : entry -> view [pool, shape, ndim, dtype]
  phase             \* "loaded" before SetupStorage, then "planned" or "failed"

storage_vars == <<storage_id, dltype, shape, storage_pool, data_entry, phase>>

\* The ids 0..n-1 of a function indexed like a std::vector.
Indices(f) == DOMAIN f
Size(f) == Cardinality(DOMAIN f)

(***************************************************************************)
(* Helpers of SetupStorage.                                                *)
(***************************************************************************)
RECURSIVE ProdFrom(_, _)
ProdFrom(s, i) == IF i > Len(s) THEN 1 ELSE s[i] * ProdFrom(s, i + 1)

\* size = product of the extents (an empty shape gives 1).
NumElements(shp) == ProdFrom(shp, 1)

\* bits = t.bits * t.lanes; the entry is planned only when bits % 8 = 0.
TypeBits(t) == t.bits * t.lanes

\* bytes = (bits / 8) * size
EntryBytes(t, shp) == (TypeBits(t) \div 8) * NumElements(shp)

\* Mutation of GrowPool: the last entry of a storage id sets its size.
GrowPoolLastWins(peb, sid, bytes) ==
  LET grown == IF sid >= Size(peb)
                 THEN [s \in 0..sid |-> IF s \in Indices(peb) THEN peb[s] ELSE 0]
                 ELSE peb
  IN  [grown EXCEPT ![sid] = bytes]

\* One iteration of the sizing loop: pool_entry_bytes.resize(sid + 1, 0)
\* when sid is past the end, then keep the larger of the old and new size.
GrowPool(peb, sid, bytes) ==
  LET grown == IF sid >= Size(peb)
                 THEN [s \in 0..sid |-> IF s \in Indices(peb) THEN peb[s] ELSE 0]
                 ELSE peb
  IN  [grown EXCEPT ![sid] = IF @ >= bytes THEN @ ELSE bytes]

\* The whole sizing loop over the entries of attrs_.shape, in order.
PoolEntryBytes(sids, types, shapes) ==
  LET RECURSIVE Loop(_, _)
      Loop(peb, i) ==
        IF i >= Size(shapes) THEN peb
        ELSE Loop(GrowPool(peb, sids[i], EntryBytes(types[i], shapes[i])), i + 1)
  IN  Loop([s \in {} |-> 0], 0)

\* The checks of the sizing loop: a non-negative storage id (negative ids
\* are for runtime-shape ops) and a byte-aligned type.
PlanSupported(sids, types) ==
  \A i \in Indices(sids) : sids[i] >= 0 /\ TypeBits(types[i]) % 8 = 0

\* Mutation of PoolElements: a truncating division.
PoolElementsFloor(bytes) == bytes \div 4

\* shape[] = {(pool_entry_bytes[i] + 3) / 4}: float32 elements allocated.
PoolElements(bytes) == (bytes + 3) \div 4

\* storage_pool_ after the allocation loop.
AllocatedPool(sids, types, shapes) ==
  LET peb == PoolEntryBytes(sids, types, shapes)
  IN  [s \in Indices(peb) |-> PoolElements(peb[s])]

\* Mutation of EntryView: the view points one buffer further.
EntryViewNextPool(sids, types, shapes, i) ==
  [pool |-> sids[i] + 1, shape |-> shapes[i], ndim |-> Len(shapes[i]), dtype |-> types[i]]

\* data_entry_[i]: the pool buffer of storage_id[i] with the planned shape
\* and dtype imposed on it.
EntryView(sids, types, shapes, i) ==
  [pool |-> sids[i], shape |-> shapes[i], ndim |-> Len(shapes[i]), dtype |-> types[i]]

(***************************************************************************)
(* Actions.                                                                *)
(***************************************************************************)
\* SetupStorage completes: every check passes and every TVMArrayAlloc
\* returns 0.
SetupStorage ==
  /\ phase = "loaded"
  /\ PlanSupported(storage_id, dltype)
  /\ LET pool == AllocatedPool(storage_id, dltype, shape)
     IN  /\ \A i \in Indices(storage_id) : storage_id[i] < Size(pool)
         /\ storage_pool' = pool
         /\ data_entry' = [i \in Indices(storage_id) |->
                             EntryView(storage_id, dltype, shape, i)]
  /\ phase' = "planned"
  /\ UNCHANGED <<storage_id, dltype, shape>>

\* SetupStorage throws: CHECK_GE(storage_id, 0), CHECK_EQ(bits % 8, 0),
\* a failing TVMArrayAlloc (TVM_CCALL) or CHECK_LT(storage_id, pool size).
\* Pools already pushed to storage_pool_ are released by ~GraphRuntime
\* while the exception unwinds GraphRuntimeCreate.
SetupStorageFails ==
  /\ phase = "loaded"
  /\ \/ ~PlanSupported(storage_id, dltype)
     \/ /\ PlanSupported(storage_id, dltype)
        /\ Size(PoolEntryBytes(storage_id, dltype, shape)) > 0
  /\ phase' = "failed"
  /\ UNCHANGED <<storage_id, dltype, shape, storage_pool, data_entry>>

StorageNext == SetupStorage \/ SetupStorageFails

(***************************************************************************)
(* Properties.                                                             *)
(***************************************************************************)
DType == [code : Nat, bits : Nat, lanes : Nat]

StorageTypeOK ==
  /\ phase \in {"loaded", "planned", "failed"}
  /\ storage_pool \in [Indices(storage_pool) -> Nat]
  /\ phase = "planned" =>
       data_entry \in [Indices(storage_id) ->
                         [pool : Indices(storage_pool), shape : Seq(Nat),
                          ndim : Nat, dtype : DType]]

\* Reference definition of the plan: the bytes a storage id must hold are
\* the largest byte size of the entries that name it (0 for an id no entry
\* names), and the pool has one buffer per id up to the largest id.
RefPoolBytes(s) ==
  LET sizes == {EntryBytes(dltype[i], shape[i]) : i \in {j \in Indices(storage_id) : storage_id[j] = s}}
  IN  IF sizes = {} THEN 0 ELSE CHOOSE m \in sizes : \A b \in sizes : b <= m
RefNumPools ==
  IF Indices(storage_id) = {} THEN 0
  ELSE 1 + CHOOSE m \in Range(storage_id) : \A t \in Range(storage_id) : t <= m

\* The buffers SetupStorage allocates, built by the lazily resized sizing
\* loop and the (bytes + 3) / 4 quantisation, are exactly the reference
\* plan rounded up to whole float32 elements: never smaller than the
\* largest entry of the id and never a whole element larger.  This is also
\* what settles the spec's doubt about the ceiling formula.
PoolMatchesReference ==
  phase = "planned" =>
    /\ Size(storage_pool) = RefNumPools
    /\ \A s \in Indices(storage_pool) :
          /\ 4 * storage_pool[s] >= RefPoolBytes(s)
          /\ 4 * storage_pool[s] < RefPoolBytes(s) + 4

\* Every entry view of data_entry_ fits in the pool buffer it points into
\* (spec invariant 2): a kernel writing an entry through its view never
\* writes past the end of the shared allocation.
PoolCoversEntry ==
  phase = "planned" =>
    \A i \in Indices(data_entry) :
      EntryBytes(data_entry[i].dtype, data_entry[i].shape)
        <= 4 * storage_pool[data_entry[i].pool]

\* Spec 4.2, edge cases: a pool whose entries are all zero-sized still gets
\* a one-element buffer.  SetupStorage allocates (0 + 3) / 4 = 0 elements.
ZeroBytePoolNonEmpty ==
  phase = "planned" => \A s \in Indices(storage_pool) : storage_pool[s] >= 1

=============================================================================
