------------------------------ MODULE JumpClient ------------------------------
(***************************************************************************)
(* The uploading side of pkg/client over the daemon of PutPath:            *)
(* PutWithJumpRetry and PutFileWithJumpRetry (a direct Put, then the       *)
(* one-hop jump codes 1..MaxJumps when the extent is taken), the           *)
(* interpretation of conflicts, and VerifyContent, the read-back of        *)
(* docs/CLIENT_SPEC.md section 4.                                          *)
(*                                                                         *)
(* Every Put of PutPath is an attempt <<upload, jump code>> of an upload.  *)
(* A second upload of the same content stands for a retry of the whole     *)
(* call as much as for another client.                                     *)
(***************************************************************************)
EXTENDS PutPath, Sequences

CONSTANTS
    Uploads,    \* calls of PutWithJumpRetry
    Content,    \* Content[u] = the bytes upload u stores
    Fid,        \* Fid[bytes] = xxh3_64(bytes)
    MaxJumps,   \* JumpOptions.MaxJumps
    MaxVerify   \* VerifyOptions.MaxAttempts

\* What attempt k of an upload sends: the content, or the content and the
\* jump code as one more byte.
Payload(p) == IF p[2] = 0 THEN Content[p[1]] ELSE Append(Content[p[1]], p[2])

\* A wrong variant: jump attempts send no alias.
AttemptHeader_NoAlias(p) ==
    [fid |-> Fid[Payload(p)], size |-> Len(Payload(p)), alias |-> NoAlias]

\* The header of an attempt: jump attempts name the content's fid as alias.
AttemptHeader(p) ==
    [fid   |-> Fid[Payload(p)],
     size  |-> Len(Payload(p)),
     alias |-> IF p[2] = 0 THEN NoAlias ELSE Fid[Content[p[1]]]]

\* Contents are not empty, and none hashes to the reserved alias 0.
ASSUME JumpAssumption ==
    /\ MaxJumps \in Nat /\ MaxVerify \in Nat
    /\ Puts = Uploads \X (0 .. MaxJumps)
    /\ Headers = {AttemptHeader(p) : p \in Puts}
    /\ \A u \in Uploads : /\ Content[u] \in Seq(Nat)
                          /\ Content[u] # <<>>
                          /\ Fid[Content[u]] # NoAlias

\* No two payloads that an attempt may send have the same xxh3_64.
NoCollisions ==
    \A p, q \in Puts : Fid[Payload(p)] = Fid[Payload(q)] => Payload(p) = Payload(q)

VARIABLES
    code,      \* the jump code of the upload's current attempt
    outcome,   \* what PutWithJumpRetry returned
    reads,     \* read-backs of VerifyContent so far
    verdict    \* what VerifyContent returned

clientVars == <<code, outcome, reads, verdict>>
allVars    == <<vars, clientVars>>

Current(u) == <<u, code[u]>>

Started(u) == pc[<<u, 0>>] # "idle"

JumpInit ==
    /\ hdr = [p \in Puts |-> AttemptHeader(p)]
    /\ Init
    /\ code = [u \in Uploads |-> 0]
    /\ outcome = [u \in Uploads |-> "none"]
    /\ reads = [u \in Uploads |-> 0]
    /\ verdict = [u \in Uploads |-> "none"]
-----------------------------------------------------------------------------
(* PutWithJumpRetry.                                                       *)

\* The current attempt proceeds, in the client or in its handler; a handler
\* that has started runs on when the call that started it is over.
Running(u) == outcome[u] = "none" \/ InFlight(Current(u))

AttemptServer(u) ==
    /\ Running(u)
    /\ ServerStep(Current(u))
    /\ UNCHANGED clientVars

AttemptClient(u) ==
    /\ Running(u)
    /\ ClientStep(Current(u))
    /\ UNCHANGED clientVars

\* The current attempt's RPC has returned with status s.
Returned(u, s) ==
    /\ outcome[u] = "none"
    /\ pc[Current(u)] = "done"
    /\ res[Current(u)] = s

Return(u, o) ==
    /\ outcome' = [outcome EXCEPT ![u] = o]
    /\ UNCHANGED <<vars, code, reads, verdict>>

\* A wrong variant: the caller believes in success although the response was
\* lost.
Stored_LostIsSuccess(u) ==
    /\ Returned(u, "ok") \/ Returned(u, "lost")
    /\ Return(u, "stored")

Stored(u) == Returned(u, "ok") /\ Return(u, "stored")

\* isIdempotentConflict on the direct attempt: "fid already registered".
Duplicate(u) ==
    /\ code[u] = 0
    /\ Returned(u, "registered")
    /\ Return(u, "duplicate")

\* A conflict that sends the client to the next jump code: a taken extent,
\* and from the first jump on a taken name as well.
Collided(u) ==
    \/ Returned(u, "reserved")
    \/ Returned(u, "registered") /\ code[u] > 0

\* Wrong variants: the loop runs one code too far; it starts over at the end.
NextJump_OneTooFar(u) ==
    /\ Collided(u)
    /\ code[u] <= MaxJumps
    /\ code' = [code EXCEPT ![u] = @ + 1]
    /\ UNCHANGED <<vars, outcome, reads, verdict>>

NextJump_StartsOver(u) ==
    /\ Collided(u)
    /\ code' = [code EXCEPT ![u] = IF @ < MaxJumps THEN @ + 1 ELSE 1]
    /\ UNCHANGED <<vars, outcome, reads, verdict>>

NextJump(u) ==
    /\ Collided(u)
    /\ code[u] < MaxJumps
    /\ code' = [code EXCEPT ![u] = @ + 1]
    /\ UNCHANGED <<vars, outcome, reads, verdict>>

\* ErrJumpExhausted.
Exhausted(u) ==
    /\ Collided(u)
    /\ code[u] = MaxJumps
    /\ Return(u, "exhausted")

\* Any other status ends the call with that error.
Failed(u) ==
    /\ \E s \in {"invalid", "internal", "exhausted", "lost"} : Returned(u, s)
    /\ Return(u, "error")

\* The daemon is down: the dial fails.
Unreachable(u) ==
    /\ outcome[u] = "none"
    /\ ~up /\ pc[Current(u)] = "idle"
    /\ Return(u, "error")

\* The caller's context ends: the call returns its error at once, while the
\* handler of the attempt may not have noticed.
Cancelled(u) ==
    /\ outcome[u] = "none"
    /\ Return(u, "error")
-----------------------------------------------------------------------------
(* VerifyContent, the read-back after a conflict.                          *)

LogicalFid(u) == Fid[Content[u]]

\* The bytes a Get of f delivers, when it delivers the bytes of one Put.
Delivers(f, bytes) ==
    /\ Get(f).code = "OK"
    /\ \E q \in Puts : Get(f).data = {q} /\ SubSeq(Payload(q), 1, Get(f).size) = bytes

Verifying(u) ==
    /\ outcome[u] = "duplicate"
    /\ verdict[u] = "none"

Conclude(u, v) ==
    /\ verdict' = [verdict EXCEPT ![u] = v]
    /\ UNCHANGED <<vars, code, outcome, reads>>

\* A wrong variant: a name nobody has registered yet passes for the content.
VerifyFound_NotFoundPasses(u) ==
    /\ Verifying(u) /\ up
    /\ Get(LogicalFid(u)).code # "Internal"
    /\ Conclude(u, IF Get(LogicalFid(u)).code = "NotFound" \/ Delivers(LogicalFid(u), Content[u])
                   THEN "same" ELSE "different")

VerifyFound(u) ==
    /\ Verifying(u) /\ up
    /\ reads[u] < MaxVerify
    /\ Get(LogicalFid(u)).code = "OK"
    /\ Conclude(u, IF Delivers(LogicalFid(u), Content[u]) THEN "same" ELSE "different")

\* Not found: another Put may still be in flight; back off and read again.
VerifyRetry(u) ==
    /\ Verifying(u) /\ up
    /\ reads[u] < MaxVerify
    /\ Get(LogicalFid(u)).code = "NotFound"
    /\ reads' = [reads EXCEPT ![u] = @ + 1]
    /\ UNCHANGED <<vars, code, outcome, verdict>>

\* The attempts are used up, the context ended during a back-off, the read
\* failed, or the daemon is gone.
VerifyGivesUp(u) ==
    /\ Verifying(u)
    /\ \/ reads[u] > 0
       \/ ~up
       \/ Get(LogicalFid(u)).code = "Internal"
    /\ Conclude(u, "unknown")
-----------------------------------------------------------------------------
ClientReturns(u) ==
    \/ Stored(u) \/ Duplicate(u) \/ NextJump(u) \/ Exhausted(u)
    \/ Failed(u) \/ Unreachable(u)

Verify(u) == VerifyFound(u) \/ VerifyRetry(u) \/ VerifyGivesUp(u)

JumpNext ==
    \/ \E u \in Uploads :
        \/ AttemptServer(u) \/ AttemptClient(u)
        \/ ClientReturns(u) \/ Cancelled(u) \/ Verify(u)
    \/ (Crash \/ Boot) /\ UNCHANGED clientVars

JumpSpec == JumpInit /\ [][JumpNext]_allVars

\* Once an upload has started, its handler is scheduled and the client acts
\* on what it returns.  Nobody has to cancel, and nobody has to verify.
JumpFairSpec ==
    /\ JumpSpec
    /\ \A u \in Uploads :
        /\ WF_allVars(Started(u) /\ AttemptServer(u))
        /\ WF_allVars(ClientReturns(u))
-----------------------------------------------------------------------------
(* Properties.                                                             *)

Outcomes == {"none", "stored", "duplicate", "exhausted", "error"}

\* The client's variables have their types and its loop stays in range.
JumpTypeOK ==
    /\ code \in [Uploads -> 0 .. MaxJumps]
    /\ outcome \in [Uploads -> Outcomes]
    /\ reads \in [Uploads -> 0 .. MaxVerify]
    /\ verdict \in [Uploads -> {"none", "same", "different", "unknown"}]

\* The content of u reads back under its own fid, without the jump byte,
\* unless a disk is out of service.
Served(u) ==
    Delivers(LogicalFid(u), Content[u]) \/ Get(LogicalFid(u)).code = "Internal"

\* An upload that reported success, directly or through a jump, is readable
\* under the fid of its content from then on, restarts included.
StoredIsServed ==
    up => \A u \in Uploads : outcome[u] = "stored" => Served(u)

\* CLIENT_SPEC section 4: once the read-back compared equal, the content is
\* there for good, whoever stored it; and without hash collisions it never
\* compares different.
VerifiedIsServed ==
    /\ up => \A u \in Uploads : verdict[u] = "same" => Served(u)
    /\ \A u \in Uploads : verdict[u] # "different"

\* Retries and concurrent uploads of the same bytes, whatever was lost or
\* refused in between, leave one stored copy of them.
StoredOnce ==
    \A x, y \in StoredObjects : x # y =>
        /\ Payload(x.by) # Payload(y.by)
        /\ Content[x.by[1]] # Content[y.by[1]]

\* pkg/client/client.go, isIdempotentConflict: "the exact same FID is already
\* registered (i.e., the object is already durably stored)".  Read as weakly
\* as possible: after a "duplicate" success the content is stored, or some
\* Put that may still store it is in flight.
DuplicateIsStored ==
    up => \A u \in Uploads : outcome[u] = "duplicate" =>
            \/ Get(LogicalFid(u)).code # "NotFound"
            \/ LogicalFid(u) \in gate

\* Every upload that starts returns: the jump loop is finite and every
\* attempt of it ends.
EveryUploadReturns == \A u \in Uploads : Started(u) ~> outcome[u] # "none"
=============================================================================
