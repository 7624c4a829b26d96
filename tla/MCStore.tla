------------------------------ MODULE MCStore -------------------------------
(***************************************************************************)
(* One object with two keys, seen by thread A through two connections and  *)
(* by thread B through one.                                                *)
(***************************************************************************)
EXTENDS Store, TLC

CONSTANTS A, B, a1, a2, b1, k1, k2

MCThreadOf == (a1 :> A @@ a2 :> A @@ b1 :> B)
ConnSymmetry == Permutations({a1, a2})

\* Objects and strings stored by pointer, overwritten at will.
Fresh ==
  [objects |-> {1, 2}, keys |-> {k1}, writes |-> {"object", "string_ptr"},
   merges |-> {"long", "object"}, frees |-> {}, conns |-> Conns]

\* Two keys, one of which may have a plain value.
TwoKeys(c) ==
  [objects |-> {1}, keys |-> {k1, k2}, writes |-> {"object"}, merges |-> {"long"},
   frees |-> {}, conns |-> {c, b1}]

\* Strings of both kinds, whose owners drop their connections.
Lifetime ==
  [objects |-> {1}, keys |-> {k1}, writes |-> {"object", "string_ptr", "string"},
   merges |-> {"string_ptr"}, frees |-> Conns, conns |-> Conns]

\* A plain value is replaced by another one.
Overwrite ==
  [objects |-> {1}, keys |-> {k1, k2}, writes |-> {"long", "object"}, merges |-> {},
   frees |-> {}, conns |-> Conns]

MCPrograms == {Fresh, Lifetime, TwoKeys(a1), TwoKeys(a2)}
MCOverwrite == {Overwrite}
=============================================================================
