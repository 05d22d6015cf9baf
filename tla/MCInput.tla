------------------------------ MODULE MCInput ------------------------------
(* Small instances of Input.                                               *)
EXTENDS Input

CONSTANTS c1, c2, r1, o1, w1, p1, k1, s1, s2

MCKindOf == (r1 :> "registry") @@ (o1 :> "output") @@ (w1 :> "seat")
              @@ (p1 :> "pointer") @@ (k1 :> "keyboard")
              @@ [s \in {s1, s2} |-> "surface"]

\* One client with a pointer, a keyboard and two surfaces; the other binds
\* nothing, but keymaps are pushed to it.
MCAvailable == (c1 :> Ids) @@ (c2 :> {})

\* Everything kept; and descriptors running short.
MCWorlds == {Promises, Promises \ {"ownSurfaces", "memfdWorks"}}
Surf == Permutations({s1, s2})
=============================================================================
