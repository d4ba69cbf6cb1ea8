----------------------------- MODULE ObjectStore -----------------------------
(***************************************************************************)
(* What a BSOS pool promises its clients, with no disks, no index and no   *)
(* locks: a write-once map from names (fids) to payloads.                  *)
(*                                                                         *)
(* An object is registered under its own fid and, when the Put carried     *)
(* alias_for, under that second name too; both names appear in one step.   *)
(* Nothing is ever renamed, overwritten or dropped, and a Put is           *)
(* acknowledged only after its object was registered.                      *)
(***************************************************************************)
EXTENDS PoolObjects

VARIABLES objects,  \* the registered objects
          acked     \* the calls whose client received PutResponse

vars == <<objects, acked>>

Init ==
    /\ objects = {}
    /\ acked = {}

\* New objects become readable.  One commit registers one object; a restart
\* may recover several in-doubt ones at once.
Register ==
    /\ objects' \in SUBSET Objects
    /\ objects \subseteq objects'
    /\ NamesUnique(objects')
    /\ UNCHANGED acked

\* A client learns that its object is stored.
Ack(p) ==
    /\ \E o \in objects : o.by = p
    /\ acked' = acked \cup {p}
    /\ UNCHANGED objects

Next == Register \/ \E p \in Puts : Ack(p)

Spec == Init /\ [][Next]_vars
=============================================================================
