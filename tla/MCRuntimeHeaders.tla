--------------------------- MODULE MCRuntimeHeaders ---------------------------
(* The parts of the runtime that the repository holds as code, most of it in   *)
(* headers.  They share no state, so a behaviour is one of one part, the       *)
(* others standing still.                                                      *)
EXTENDS ArmAllocator, TensorLayout, ScalarTypes, EventTracing, Ownership

VARIABLE part

\* A pool of 20 bytes in an address space of 64, requests of every kind: no
\* byte, odd sizes, sizes that wrap around, alignments that are no power of
\* two, lists whose size overflows.
ASSUME RoundingAssumption == RoundingFits(8, MaxBlocks)

\* Ranks 0 to 5, unit and empty dimensions, the same elements in other shapes.
MCShapes == {<<>>, <<3>>, <<3, 1>>, <<2, 3>>, <<1, 1>>, <<2, 1, 2>>, <<2, 2, 3>>,
             <<2, 0, 2>>, <<2, 3, 1, 2>>, <<1, 3, 2, 2>>, <<1, 2, 1, 3, 2>>}
MCStrides == UNION {[1 .. n -> 1 .. 6] : n \in 1 .. 3}

MCMaps == {[keys |-> k, layouts |-> l] : k \in {<<"a">>, <<"b", "a">>}, l \in BOOLEAN}
            \cup {[keys |-> <<>>, layouts |-> FALSE], [keys |-> <<"b">>, layouts |-> TRUE]}

Interchangeable == Permutations(Place) \cup Permutations(Instruction)

AllocatorStill == Init
LayoutStill == tensor = make(<<>>, <<>>) /\ prev = tensor /\ ops = 0
TypesStill == operands = <<"Byte">> /\ common = "Byte" /\ halfToFloat = FALSE
TracingStill == TracingInit /\ ~tracer
OwnStill == OwnInit /\ first = [keys |-> <<>>, layouts |-> FALSE] /\ first = second

HeadersInit ==
  \/ /\ part = "allocator" /\ Init
     /\ LayoutStill /\ TypesStill /\ TracingStill /\ OwnStill
  \/ /\ part = "layout" /\ LayoutInit
     /\ AllocatorStill /\ TypesStill /\ TracingStill /\ OwnStill
  \/ /\ part = "types" /\ TypesInit
     /\ AllocatorStill /\ LayoutStill /\ TracingStill /\ OwnStill
  \/ /\ part = "tracing" /\ TracingInit
     /\ AllocatorStill /\ LayoutStill /\ TypesStill /\ OwnStill
  \/ /\ part = "ownership" /\ OwnInit
     /\ AllocatorStill /\ LayoutStill /\ TypesStill /\ TracingStill

HeadersNext ==
  /\ UNCHANGED part
  /\ \/ /\ part = "allocator" /\ Next
        /\ UNCHANGED <<layoutVars, typesVars, tracingVars, ownVars>>
     \/ /\ part = "layout" /\ LayoutNext
        /\ UNCHANGED <<vars, typesVars, tracingVars, ownVars>>
     \/ /\ part = "types" /\ TypesNext
        /\ UNCHANGED <<vars, layoutVars, tracingVars, ownVars>>
     \/ /\ part = "tracing" /\ TracingNext
        /\ UNCHANGED <<vars, layoutVars, typesVars, ownVars>>
     \/ /\ part = "ownership" /\ OwnNext
        /\ UNCHANGED <<vars, layoutVars, typesVars, tracingVars>>

HeadersSpec ==
  HeadersInit /\ [][HeadersNext]_<<part, vars, layoutVars, typesVars, tracingVars, ownVars>>
=============================================================================
