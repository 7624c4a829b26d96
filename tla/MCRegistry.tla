----------------------------- MODULE MCRegistry -----------------------------
(* Threads, addresses and slots are interchangeable.  Programs with a      *)
(* chain of ownership, without one, and with one or none while the         *)
(* allocator reuses stored addresses.                                      *)
EXTENDS Registry, TLC

Symmetry == Permutations(Threads) \cup Permutations(Addresses) \cup Permutations(Slots)

MCFreedoms == {{}, {"outlive"}, {"outlive", "reuse"}}
====
