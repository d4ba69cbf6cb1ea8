----------------------------- MODULE MCIndexTools -----------------------------
(* The instance of IndexTools for TLC. *)
EXTENDS IndexTools

CONSTANTS a, b, x, d1

\* a and b are small objects in slots 0 and 1; x is stored through a jump, in
\* the slot of a.
MCHeader ==
    [p \in Puts |->
        CASE p = a -> [fid |-> 6, size |-> 100, alias |-> NoAlias]
          [] p = b -> [fid |-> 7, size |-> 120, alias |-> NoAlias]
          [] p = x -> [fid |-> 12, size |-> 101, alias |-> 20]]

MCHeaders == {MCHeader[p] : p \in Puts}

MCSlots == [d \in {d1} |-> 6]

MCFids == {6, 7, 12, 20, 2, 4, 5, 9}
=============================================================================
