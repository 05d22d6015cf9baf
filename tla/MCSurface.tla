----------------------------- MODULE MCSurface -----------------------------
(* Small instances of Surface for TLC.                                     *)
EXTENDS Surface

Symmetry == Permutations(Ids)

\* A surface that may be a subsurface, a pool with two buffers, two callbacks.
FrameLimit == [k \in Kinds |->
  CASE k \in {"buffer", "callback"} -> 2
    [] k \in {"surface", "pool", "subsurface"} -> 1
    [] OTHER -> 0]

\* Objects of every kind that recycle each other's ids.
AnyLimit == [k \in Kinds |-> IF k \in {"surface", "callback"} THEN 2 ELSE 1]
=============================================================================
