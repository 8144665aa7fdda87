-------------------------------- MODULE Heap --------------------------------
(***************************************************************************)
(* What a client of malloc.c may rely on, with no block table in sight:    *)
(* every pool holds a set of objects, each a byte range and the bytes its  *)
(* owner finds there.  Objects never overlap and never leave their pool,   *)
(* nobody but the owner changes the bytes of an object, and a reallocation *)
(* carries the common prefix over to the new place.                        *)
(***************************************************************************)
EXTENDS Integers

CONSTANTS Pools,   \* the memory banks
          Limit,   \* bytes of each pool
          Data     \* values of a byte

VARIABLE objs      \* objs[m]: the objects of pool m

Extent(o) == o.ptr .. (o.ptr + o.size - 1)

Apart(o, p) == o.ptr + o.size <= p.ptr \/ p.ptr + p.size <= o.ptr

\* A new object may be placed anywhere clear of the ones in S.
Placed(m, n, S) ==
    /\ n.ptr >= 0
    /\ n.size > 0
    /\ n.ptr + n.size <= Limit[m]
    /\ \A o \in S : Apart(o, n)

HeapInit == objs = [m \in Pools |-> {}]

Alloc(m) ==
    \E n \in objs'[m] :
        /\ Placed(m, n, objs[m])
        /\ objs' = [objs EXCEPT ![m] = @ \cup {n}]

Free(m, o) == objs' = [objs EXCEPT ![m] = @ \ {o}]

Write(m, o) ==
    \E n \in objs'[m], i \in 0 .. (o.size - 1), d \in Data :
        /\ n = [ptr |-> o.ptr, size |-> o.size, data |-> [o.data EXCEPT ![i] = d]]
        /\ objs' = [objs EXCEPT ![m] = (@ \ {o}) \cup {n}]

\* The old object gives way to a new one that lies clear of it and starts
\* with the same bytes.
Realloc(m, o) ==
    \E n \in objs'[m] :
        /\ Placed(m, n, objs[m])
        /\ \A i \in 0 .. (o.size - 1) : i < n.size => n.data[i] = o.data[i]
        /\ objs' = [objs EXCEPT ![m] = (@ \ {o}) \cup {n}]

HeapNext ==
    \E m \in Pools :
        \/ Alloc(m)
        \/ \E o \in objs[m] : Free(m, o) \/ Write(m, o) \/ Realloc(m, o)

HeapSpec == HeapInit /\ [][HeapNext]_objs
=============================================================================
