-------------------------------- MODULE Ownership --------------------------------
(***************************************************************************)
(* Who frees the data that a program's constants are loaded into.          *)
(* MergedDataMap joins two maps of named data; get_data answers with a     *)
(* Result<FreeableBuffer>, which is then moved: from Result to Result, out *)
(* of one by ET_UNWRAP, from buffer to buffer, into a Box.  The maps that  *)
(* are merged are the caller's: a PteDataMap, which knows no layouts, or   *)
(* one that does.                                                          *)
(***************************************************************************)
EXTENDS Naturals, Sequences, FiniteSets

CONSTANTS
    Key,        \* names of data
    Maps,       \* what there is to merge: the keys of a map in their order, and
                \* whether it has layouts
    Place,      \* where an object can be: a frame's local, a member
    MaxLoads    \* bound: loads

ASSUME MapsAssumption == Maps \subseteq [keys : Seq(Key), layouts : BOOLEAN]
\* A map names each of its data once.
ASSUME KeysAssumption ==
    \A map \in Maps : \A i, j \in 1 .. Len(map.keys) : map.keys[i] = map.keys[j] => i = j
ASSUME LoadsAssumption == MaxLoads \in Nat

VARIABLES
    first, second,  \* the merged maps
    objects,        \* the object at each place
    loads,          \* blocks of data loaded so far, each with its free function or without
    freed,          \* how often each was freed; 2 stands for more
    found           \* the last get_data: its key, the map it ended at, and its error

ownVars == <<first, second, objects, loads, freed, found>>

-----------------------------------------------------------------------------
(* The maps.                                                               *)

KeysOf(map) == {map.keys[i] : i \in 1 .. Len(map.keys)}

\* The wrapped map's own get_tensor_layout and get_data.
LayoutIn(map, key) ==
    IF ~map.layouts THEN "NotImplemented" ELSE IF key \in KeysOf(map) THEN "Ok" ELSE "NotFound"
DataIn(map, key) == IF key \in KeysOf(map) THEN {"Ok", "AccessFailed"} ELSE {"NotFound"}

\* Mutant: keys are not compared.
load_Unchecked(a, b) == TRUE

\* MergedDataMap::load: the keys of the first must be unknown to the second, as
\* far as it can tell.
load(a, b) ==
    \A i \in 1 .. Len(a.keys) : LayoutIn(b, a.keys[i]) \in {"NotFound", "NotImplemented"}

get_num_keys == Len(first.keys) + Len(second.keys)

\* Indices from 0, as in the code.
get_key(index) ==
    IF index < Len(first.keys) THEN first.keys[index + 1]
    ELSE second.keys[index - Len(first.keys) + 1]

get_tensor_layout(key) ==
    LET error == LayoutIn(first, key)
    IN  IF error # "NotFound" THEN error ELSE LayoutIn(second, key)

-----------------------------------------------------------------------------
(* The objects: a FreeableBuffer, alone or as the value of a Result or of  *)
(* a Box.                                                                  *)

Null == 0
Nothing == [kind |-> "none", has |-> FALSE, data |-> Null]
Object(kind, has, data) == [kind |-> kind, has |-> has, data |-> data]

\* Mutant: the moved-from buffer keeps its pointer.
Moved_KeepsData(o) == o

\* The moved-from buffer holds nothing, but a moved-from Result or Box still has
\* its value.
Moved(o) == [o EXCEPT !.data = Null]

\* FreeableBuffer::Free, of the buffer in an object that has one.
Free(o) ==
    freed' = IF o.has /\ o.data # Null /\ loads[o.data].fn
             THEN [freed EXCEPT ![o.data] = IF @ = 0 THEN 1 ELSE 2] ELSE freed

Empty(p) == objects[p].kind = "none"

OwnInit ==
    /\ first \in Maps /\ second \in Maps
    /\ load(first, second)
    /\ objects = [p \in Place |-> Nothing]
    /\ loads = <<>>
    /\ freed = [r \in 1 .. MaxLoads |-> 0]
    /\ found = [key |-> "none", at |-> first, error |-> "none"]

\* MergedDataMap::get_data; the loader decides whether the data has a function
\* to free it (BufferDataLoader's has none).
Answer(p, key, map, error) ==
    /\ found' = [key |-> key, at |-> map, error |-> error]
    /\ \/ /\ error = "Ok"
          /\ \E fn \in BOOLEAN : loads' = Append(loads, [fn |-> fn])
          /\ objects' = [objects EXCEPT ![p] = Object("result", TRUE, Len(loads) + 1)]
       \/ /\ error # "Ok"
          /\ objects' = [objects EXCEPT ![p] = Object("result", FALSE, Null)]
          /\ UNCHANGED loads
GetData(key, p) ==
    /\ Empty(p) /\ Len(loads) < MaxLoads
    /\ \E error \in DataIn(first, key) :
          IF error # "NotFound" THEN Answer(p, key, first, error)
          ELSE \E e \in DataIn(second, key) : Answer(p, key, second, e)
    /\ UNCHANGED <<first, second, freed>>

\* The move constructors of FreeableBuffer and Result.
Move(p, q) ==
    /\ objects[p].kind \in {"buffer", "result"} /\ Empty(q)
    /\ objects' = [objects EXCEPT ![q] = objects[p], ![p] = Moved(objects[p])]
    /\ UNCHANGED <<first, second, loads, freed, found>>

\* ET_UNWRAP: the Result is moved into a local, which gives its value away or
\* its error to the caller's Result, and is destroyed.
Unwrap(p, q) ==
    LET et_result == objects[p]
    IN  /\ objects[p].kind = "result" /\ Empty(q)
        /\ objects' = [objects EXCEPT ![p] = Moved(et_result),
                                      ![q] = IF et_result.has
                                             THEN Object("buffer", TRUE, et_result.data)
                                             ELSE Object("result", FALSE, Null)]
        /\ UNCHANGED <<first, second, loads, freed, found>>

NewBox(p) ==
    /\ Empty(p)
    /\ objects' = [objects EXCEPT ![p] = Object("box", FALSE, Null)]
    /\ UNCHANGED <<first, second, loads, freed, found>>

\* Box::reset(std::move(buffer)): the value it had is destroyed first.
BoxReset(b, p) ==
    /\ objects[b].kind = "box" /\ objects[p].kind = "buffer"
    /\ Free(objects[b])
    /\ objects' = [objects EXCEPT ![b] = Object("box", TRUE, objects[p].data),
                                  ![p] = Moved(objects[p])]
    /\ UNCHANGED <<first, second, loads, found>>

\* Free called by hand, any number of times.
FreeNow(p) ==
    /\ objects[p].has
    /\ Free(objects[p])
    /\ objects' = [objects EXCEPT ![p].data = Null]
    /\ UNCHANGED <<first, second, loads, found>>

\* The destructors.
Destroy(p) ==
    /\ ~Empty(p)
    /\ Free(objects[p])
    /\ objects' = [objects EXCEPT ![p] = Nothing]
    /\ UNCHANGED <<first, second, loads, found>>

OwnNext ==
    \/ \E key \in Key, p \in Place : GetData(key, p)
    \/ \E p, q \in Place : Move(p, q) \/ Unwrap(p, q) \/ BoxReset(p, q)
    \/ \E p \in Place : NewBox(p) \/ FreeNow(p) \/ Destroy(p)

OwnSpec == OwnInit /\ [][OwnNext]_ownVars

-----------------------------------------------------------------------------
(* However it is moved and whatever holds it when, data with a free        *)
(* function is freed once: until then exactly one object holds it, and     *)
(* afterwards none.  Data without one is never freed, or held twice.       *)
FreedOnce ==
    \A r \in 1 .. Len(loads) :
        LET holders == Cardinality({p \in Place : objects[p].has /\ objects[p].data = r})
        IN  IF loads[r].fn THEN freed[r] + holders = 1 ELSE freed[r] = 0 /\ holders <= 1

(* The keys are listed once for each map that has them, and get_data finds *)
(* each in the map that lists it, the first one's if both do, which they   *)
(* do only when the second knows no layouts.  Layouts are found for every  *)
(* key when both maps have them.                                           *)
MergedFinds ==
    LET Listed(key) == {i \in 0 .. get_num_keys - 1 : get_key(i) = key}
    IN  /\ \A key \in Key :
              /\ Cardinality(Listed(key)) =
                    Cardinality({i \in 1 .. 2 : key \in KeysOf(<<first, second>>[i])})
              /\ second.layouts => Cardinality(Listed(key)) <= 1
              /\ (first.layouts /\ second.layouts) =>
                    (get_tensor_layout(key) = "Ok" <=> Listed(key) # {})
        /\ found.error = "NotFound" => Listed(found.key) = {}
        /\ found.error \in {"Ok", "AccessFailed"} =>
              found.at = IF \E i \in Listed(found.key) : i < Len(first.keys) THEN first ELSE second

-----------------------------------------------------------------------------
=============================================================================
