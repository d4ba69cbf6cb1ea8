----------------------------- MODULE PoolObjects -----------------------------
(***************************************************************************)
(* The vocabulary shared by the abstract store and by the write path: Put  *)
(* calls, the headers they carry, and the objects they leave behind.       *)
(***************************************************************************)
EXTENDS Naturals

CONSTANTS Puts,     \* the Put calls; the identity of a call stands for its payload
          Headers   \* the PutHeaders a call may carry: [fid, size, alias]

\* alias_for = 0 means "no alias" on the wire.
NoAlias == 0

ASSUME HeadersAssumption == Headers \subseteq [fid : Nat, size : Nat, alias : Nat]

\* A stored object: the header it was stored with and whose payload it is.
Object(h, p) == [fid |-> h.fid, size |-> h.size, alias |-> h.alias, by |-> p]

Objects == {Object(h, p) : h \in Headers, p \in Puts}

\* The names (fids) under which an object can be read.
Names(o) == {o.fid} \cup ({o.alias} \ {NoAlias})

AllNames == UNION {Names(h) : h \in Headers}

\* No name belongs to two objects.
NamesUnique(S) ==
    \A x \in S, y \in S : x # y => Names(x) \cap Names(y) = {}
=============================================================================
