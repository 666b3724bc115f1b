------------------------------- MODULE SegMap -------------------------------
(***************************************************************************)
(* What a segment tree (src/common/src/seg_tree.c) promises its callers,  *)
(* stated without any tree: a map from every logical byte offset of a     *)
(* file to the physical log offset holding its latest write, or Hole.     *)
(*                                                                         *)
(*   add(s, e, p)  overwrites bytes s..e with p, p+1, ..., p+(e-s), every  *)
(*                 other byte keeps its mapping (last writer wins);        *)
(*   clear()       forgets every byte.                                     *)
(*                                                                         *)
(* A failed add must leave the map as it was (spec section 4.1: "either   *)
(* the insert fully applied or fully reverted"), so it is a stutter here. *)
(* Offsets and pointers are C unsigned longs, i.e. numbers modulo 2^W.    *)
(***************************************************************************)
EXTENDS Naturals

\* SegTree instantiates W with its own width (whose assumption it states)
\* and Hole with 2^W, a value outside Word.
CONSTANTS
  W,        \* bit width of unsigned long in the model, a positive number
  Hole      \* the value of a byte no segment maps, not in Word

Mod == 2 ^ W
Word == 0 .. (Mod - 1)

VARIABLE map

TypeOK == map \in [Word -> Word \cup {Hole}]

Init == map = [x \in Word |-> Hole]

\* The bytes of add(s, e, p): x in s..e lives at p + (x - s), wrapping.
Add(s, e, p) ==
  map' = [x \in Word |-> IF s <= x /\ x <= e THEN (p + (x - s)) % Mod
                                            ELSE map[x]]

Clear == map' = [x \in Word |-> Hole]

Next ==
  \/ \E s, e, p \in Word : s <= e /\ Add(s, e, p)
  \/ Clear

Spec == Init /\ [][Next]_map
=============================================================================
