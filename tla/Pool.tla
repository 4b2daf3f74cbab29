-------------------------------- MODULE Pool --------------------------------
(***************************************************************************)
(* Index pools: Pool of pool.go, and TypedPool of typed_pool.go, which     *)
(* keeps a type and some bytes of data for every index.  The pools that    *)
(* pool.tmpl generates use Pool as TypedPool does.                         *)
(***************************************************************************)
EXTENDS Integers, Sequences

CONSTANTS
  Types,    \* the types of objects; 0 is that of a free object too
  MaxLens,  \* bound: the values of maxLen, 0 for no limit
  MaxObjs   \* bound: objects of an unlimited pool

\* Assumed where the module is instantiated
PoolAssumption == Types \subseteq Nat /\ MaxLens \subseteq Nat /\ MaxObjs \in Nat

VARIABLES
  freeIndices,  \* Pool.freeIndices
  freeBitmap,   \* Pool.freeBitmap
  maxLen,       \* Pool.maxLen
  types,        \* TypedPool.object_types, from index 0
  data,         \* TypedPool.object_data: "zero", "poison" or "used"
  held          \* the indices that callers hold, with the type and data they expect

vars == <<freeIndices, freeBitmap, maxLen, types, data, held>>

Elements(s) == {s[i] : i \in DOMAIN s}
Extend(f, i, v) == [x \in DOMAIN f \cup {i} |-> IF x = i THEN v ELSE f[x]]
Without(f, i) == [x \in DOMAIN f \ {i} |-> f[x]]

Init ==
  /\ maxLen \in MaxLens
  /\ freeIndices = <<>> /\ freeBitmap = {}
  /\ types = <<>> /\ data = <<>> /\ held = <<>>

\* The number of objects: len(object_types)
len == IF DOMAIN types = {} THEN 0
       ELSE 1 + CHOOSE i \in DOMAIN types : \A j \in DOMAIN types : j <= i

\* Pool.GetIndex(len)
poolIndex == IF freeIndices = <<>> THEN len ELSE freeIndices[Len(freeIndices)]

\* GetIndex panics when a limited pool is full
GetIndex(typ) ==
  LET i == poolIndex
  IN /\ i < (IF maxLen = 0 THEN MaxObjs ELSE maxLen)
     /\ freeIndices' = IF freeIndices = <<>> THEN freeIndices
                       ELSE SubSeq(freeIndices, 1, Len(freeIndices) - 1)
     /\ freeBitmap' = freeBitmap \ {i}
     /\ types' = Extend(types, i, typ)
     /\ data' = Extend(data, i, "zero")
     /\ held' = Extend(held, i, [type |-> typ, data |-> "zero"])
     /\ UNCHANGED maxLen

\* Pool.PutIndex refuses an index that is free
PutOk(t, i) == types[i] = t /\ i \notin freeBitmap

\* A caller that names another type holds some other object
PutIndex(t, i) ==
  /\ i \in DOMAIN types
  /\ PutOk(t, i)
  /\ freeIndices' = Append(freeIndices, i)
  /\ freeBitmap' = freeBitmap \cup {i}
  /\ types' = [types EXCEPT ![i] = 0]
  /\ data' = [data EXCEPT ![i] = "poison"]
  /\ held' = IF i \in DOMAIN held /\ held[i].type = t THEN Without(held, i) ELSE held
  /\ UNCHANGED maxLen

\* A caller writes what Data points to
Write(i) ==
  /\ i \in DOMAIN held
  /\ data' = [data EXCEPT ![i] = "used"]
  /\ held' = [held EXCEPT ![i].data = "used"]
  /\ UNCHANGED <<freeIndices, freeBitmap, maxLen, types>>

Next == \/ \E t \in Types : GetIndex(t)
        \/ \E t \in Types, i \in DOMAIN types : PutIndex(t, i)
        \/ \E i \in DOMAIN held : Write(i)

Spec == Init /\ [][Next]_vars

-----------------------------------------------------------------------------
(* Properties *)

\* The stack of free indices and the bitmap of free indices agree, no index is on
\* the stack twice, and every index is free or held by one caller, also when
\* callers put an index back again or with another type.
FreeOrHeld ==
  /\ Elements(freeIndices) = freeBitmap
  /\ \A i, j \in DOMAIN freeIndices : i # j => freeIndices[i] # freeIndices[j]
  /\ freeBitmap \cap DOMAIN held = {}
  /\ freeBitmap \cup DOMAIN held = 0..len - 1

\* An object keeps its type and data for as long as it is held, and a free
\* object is poisoned.
ObjectsKept ==
  \A i \in DOMAIN types :
    IF i \in DOMAIN held THEN held[i] = [type |-> types[i], data |-> data[i]]
                         ELSE data[i] = "poison"

=============================================================================
