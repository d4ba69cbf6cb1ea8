----------------------------- MODULE MCJumpClient -----------------------------
(* Instances of JumpClient for TLC. *)
EXTENDS JumpClient, TLC

CONSTANTS a, b, c, d1

\* a and b upload the same two bytes; c uploads them with a trailing 1, which
\* is what the first jump attempt of a and b sends.
MCContent == (a :> <<7, 7>>) @@ (b :> <<7, 7>>) @@ (c :> <<7, 7, 1>>)

\* One disk of four slots of two bytes.  The direct extent of a and b lies
\* inside the one of c, so either can block the other; the second jump of a
\* and b and the first of c find free extents.
MCSlots == [d \in {d1} |-> 4]

\* With three slots every jump attempt overlaps the direct extents of both
\* contents, so an upload may use up its codes.
MCTightSlots == [d \in {d1} |-> 3]

MCFid == (<<7, 7>> :> 4) @@ (<<7, 7, 1>> :> 3) @@ (<<7, 7, 2>> :> 5)
         @@ (<<7, 7, 1, 1>> :> 7) @@ (<<7, 7, 1, 2>> :> 8)

\* The verdicts of VerifyContent are about contents whose hashes differ.
ASSUME NoCollisions

MCPuts == Uploads \X (0 .. MaxJumps)

MCHeaders == {AttemptHeader(p) : p \in MCPuts}

\* a and b are interchangeable.
Symm == Permutations({a, b})
=============================================================================
