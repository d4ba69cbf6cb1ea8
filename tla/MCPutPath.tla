------------------------------ MODULE MCPutPath ------------------------------
(* Instances of PutPath for TLC. *)
EXTENDS PutPath, TLC

CONSTANTS p1, p2, p3, d1, d2

Plain(fid, size) == [fid |-> fid, size |-> size, alias |-> NoAlias]
Jump(fid, size, alias) == [fid |-> fid, size |-> size, alias |-> alias]

\* Two disks of two slots of two bytes: fids 1 and 3 hash to slot 1, fid 2 to
\* slot 0, and any object of three bytes takes the whole disk.
MCSlots == [d \in {d1, d2} |-> 2]

\* The contended name 1: plain, plain with another size, and as the alias of
\* a jump target; a neighbour that collides with its extent; a header Put
\* rejects; and an object no disk can hold.
MCHeaders == {Plain(1, 1), Plain(1, 3), Jump(2, 2, 1), Plain(3, 1),
              Jump(1, 2, 1), Plain(3, 5)}

Symm == Permutations(Puts)
=============================================================================
