------------------------------ MODULE MCTrimDisk ------------------------------
(* Instances of TrimDisk for TLC. *)
EXTENDS TrimDisk, TLC

CONSTANTS a, b, x, d1

\* a and b are small objects in slots 0 and 1.  x is stored through a jump:
\* its slot is the one of a, so it finds room only once a has been packed and
\* the index compacted.
MCHeader ==
    [p \in Puts |->
        CASE p = a -> [fid |-> 6, size |-> 100, alias |-> NoAlias]
          [] p = b -> [fid |-> 7, size |-> 120, alias |-> NoAlias]
          [] p = x -> [fid |-> 12, size |-> 101, alias |-> 20]]

MCHeaders == {MCHeader[p] : p \in Puts}

\* Six slots of 128 bytes.  A container of a and b takes slots 2-3 (hash 2) or
\* 4-5 (hashes 4 and 9), or collides with a and b themselves (hash 5); an
\* object of one slot takes slot 2, 4, 5 or 3.
MCSlots == [d \in {d1} |-> 6]

MCFids == {6, 7, 12, 20, 2, 4, 5, 9}
=============================================================================
