--------------------------- MODULE JumpClientProofs ---------------------------
(***************************************************************************)
(* Proofs about JumpClient.  Its behaviours are behaviours of PutPath, so  *)
(* what PutPathProofs establishes about the daemon holds under the client; *)
(* the client adds that it reports success only on the daemon's word.      *)
(***************************************************************************)
EXTENDS JumpClient, PutPathProofs

\* The client reports "stored" only when the daemon acknowledged the attempt.
ClientInv ==
    /\ hdr = [p \in Puts |-> AttemptHeader(p)]
    /\ code \in [Uploads -> 0 .. MaxJumps]
    /\ outcome \in [Uploads -> Outcomes]
    /\ \A u \in Uploads : outcome[u] = "stored" => res[Current(u)] = "ok"

\* The object that a Get of u's content is answered with is that content.
StoredAs(u, o) ==
    /\ LogicalFid(u) \in Names(o)
    /\ SubSeq(Payload(o.by), 1, RefFor(LogicalFid(u), o).size) = Content[u]

\* A read-back that compared equal saw a stored object, and stored objects
\* stay.
VerifyInv ==
    /\ reads \in [Uploads -> 0 .. MaxVerify]
    /\ verdict \in [Uploads -> {"none", "same", "different", "unknown"}]
    /\ \A u \in Uploads : verdict[u] = "same" => \E o \in StoredObjects : StoredAs(u, o)

\* Attempts of uploads are Puts of the daemon.
LEMMA CurrentIsPut ==
    ASSUME ClientInv, NEW u \in Uploads
    PROVE  Current(u) \in Puts
  BY JumpAssumption DEF ClientInv, Current

\* Each step of the client and the daemon together is a step of the daemon or
\* leaves it alone.
LEMMA JumpStep ==
    ASSUME ClientInv, JumpNext
    PROVE  [Next]_vars
  <1>1. ASSUME NEW u \in Uploads, AttemptServer(u) \/ AttemptClient(u)
        PROVE  Next
    BY <1>1, CurrentIsPut DEF AttemptServer, AttemptClient, Next
  <1>2. ASSUME NEW u \in Uploads, ClientReturns(u) \/ Cancelled(u) \/ Verify(u)
        PROVE  UNCHANGED vars
    BY <1>2 DEF ClientReturns, Verify, Stored, Duplicate, NextJump, Exhausted, Failed,
       Unreachable, Cancelled, Return, VerifyFound, VerifyRetry, VerifyGivesUp, Conclude
  <1>3. CASE Crash \/ Boot
    BY <1>3 DEF Next
  <1> QED
    BY <1>1, <1>2, <1>3 DEF JumpNext

\* The daemon never takes an acknowledgement back, nor changes a header.
LEMMA AckStable ==
    ASSUME IInv, [Next]_vars
    PROVE  hdr' = hdr /\ \A p \in Puts : res[p] = "ok" => res'[p] = "ok"
  <1>n. ASSUME NEW p \in Puts, res[p] = "ok" PROVE pc[p] \in {"release", "done"}
    BY <1>n DEF IInv, CallsInv
  <1>1. ASSUME NEW p \in Puts, ClientStep(p) \/ ServerStep(p)
        PROVE  /\ hdr' = hdr
               /\ \/ res' = res
                  \/ /\ pc[p] \notin {"release", "done"}
                     /\ \E s \in Codes : res' = [res EXCEPT ![p] = s]
    BY <1>1 DEF ClientStep, ServerStep, Answer, Codes, RejectHeader, Reserve, ReserveConflict,
         ReserveError, SelectDisk, SelectNone, PrepareWrite, PrepareConflict, PrepareError,
         WriteSlot, WriteDone, WriteFail, CommitWrite, CommitRefused, CommitPublish,
         CommitRollback, CommitRollbackFail, Abort, Respond, Release
  <1>2. CASE \E p \in Puts : ClientStep(p) \/ ServerStep(p)
    BY <1>n, <1>1, <1>2 DEF IInv, TypeOK
  <1>3. CASE Crash
    BY <1>3 DEF Crash
  <1>4. CASE Boot \/ UNCHANGED vars
    BY <1>4 DEF Boot, vars, reqVars
  <1> QED
    BY <1>2, <1>3, <1>4 DEF Next

\* A client that has not started has reported nothing.
LEMMA ClientInvInit == JumpInit => ClientInv
  BY JumpAssumption DEF JumpInit, ClientInv, Outcomes

\* No step of the client or of the daemon makes an upload "stored" without
\* the daemon's acknowledgement of the attempt it stands at.
LEMMA ClientInvStep ==
    ASSUME IInv, ClientInv, [JumpNext]_allVars
    PROVE  ClientInv'
  <1>1. CASE UNCHANGED allVars
    BY <1>1 DEF ClientInv, allVars, clientVars, vars, reqVars, Current
  <1>2. CASE JumpNext
    <2>s. hdr' = hdr /\ \A p \in Puts : res[p] = "ok" => res'[p] = "ok"
      BY <1>2, JumpStep, AckStable
    <2>1. CASE UNCHANGED clientVars
      BY <2>1, <2>s, CurrentIsPut DEF ClientInv, clientVars, Current
    <2>2. ASSUME NEW u \in Uploads, NextJump(u) PROVE ClientInv'
      <3>1. /\ outcome[u] = "none" /\ code[u] < MaxJumps
            /\ code' = [code EXCEPT ![u] = @ + 1]
            /\ outcome' = outcome /\ res' = res
        BY <2>2 DEF NextJump, Collided, Returned, vars, reqVars
      <3>2. code' \in [Uploads -> 0 .. MaxJumps]
        BY <3>1, JumpAssumption DEF ClientInv
      <3>3. \A v \in Uploads : outcome'[v] = "stored" => v # u /\ code'[v] = code[v]
        BY <3>1 DEF ClientInv
      <3> QED
        BY <2>s, <3>1, <3>2, <3>3 DEF ClientInv, Current
    <2>3. ASSUME NEW u \in Uploads, NEW o \in Outcomes \ {"stored"}, Return(u, o)
          PROVE  ClientInv'
      BY <2>3, <2>s DEF Return, ClientInv, Current, vars, reqVars
    <2>4. ASSUME NEW u \in Uploads, Stored(u) PROVE ClientInv'
      BY <2>4, <2>s DEF Stored, Returned, Return, ClientInv, Current, Outcomes, vars, reqVars
    <2>5. ASSUME NEW u \in Uploads, Verify(u) PROVE ClientInv'
      BY <2>5, <2>s DEF Verify, VerifyFound, VerifyRetry, VerifyGivesUp, Conclude, ClientInv,
         Current, vars, reqVars
    <2>6. ASSUME NEW u \in Uploads, ClientReturns(u) \/ Cancelled(u), ~Stored(u), ~NextJump(u)
          PROVE  \E o \in Outcomes \ {"stored"} : Return(u, o)
      BY <2>6 DEF ClientReturns, Duplicate, Exhausted, Failed, Unreachable, Cancelled, Outcomes
    <2> QED
      BY <1>2, <2>1, <2>2, <2>3, <2>4, <2>5, <2>6 DEF JumpNext, AttemptServer, AttemptClient
  <1> QED BY <1>1, <1>2

\* The client and the daemon together behave as the daemon alone may: every
\* theorem of PutPathProofs holds under the retrying client.
THEOREM JumpRefinesPutPath == JumpSpec => Spec /\ [](IInv /\ ClientInv)
  <1>1. JumpInit => Init /\ IInv /\ ClientInv
    BY InitInv, ClientInvInit DEF JumpInit
  <1>2. ASSUME IInv, ClientInv, [JumpNext]_allVars
        PROVE  [Next]_vars /\ IInv' /\ ClientInv'
    <2>1. [Next]_vars
      BY <1>2, JumpStep DEF allVars
    <2> QED BY <1>2, <2>1, NextInv, ClientInvStep
  <1> QED BY <1>1, <1>2, PTL DEF JumpSpec, Spec

\* Retries and concurrent uploads leave one stored copy of any content: the
\* alias of a jump keeps the content's own fid taken.
THEOREM OneCopy == JumpSpec => []StoredOnce
  <1>1. IInv /\ ClientInv => StoredOnce
    <2> SUFFICES ASSUME IInv, ClientInv, NEW x \in StoredObjects, NEW y \in StoredObjects, x # y
                 PROVE  /\ Payload(x.by) # Payload(y.by)
                        /\ Content[x.by[1]] # Content[y.by[1]]
      BY DEF StoredOnce
    <2>1. Names(x) \cap Names(y) = {}
      BY DEF IInv, HomesInv, OnDisk, StoredObjects
    <2>2. ASSUME NEW o \in StoredObjects
          PROVE  /\ o.fid = Fid[Payload(o.by)] /\ o.fid \in Names(o)
                 /\ Fid[Content[o.by[1]]] \in Names(o)
      <3>1. PICK d \in Disks : o \in OnDisk(d)
        BY DEF StoredObjects, OnDisk
      <3>2. /\ o.by \in Puts /\ o.fid = hdr[o.by].fid /\ Names(o) = Names(hdr[o.by])
            /\ ValidHeader(hdr[o.by])
        BY <3>1, ObjFacts DEF IInv, ObjectsInv, GoodObject
      <3>3. hdr[o.by] = AttemptHeader(o.by)
        BY <3>2 DEF ClientInv
      <3>4. /\ o.fid = Fid[Payload(o.by)]
            /\ o.by[2] = 0 => Payload(o.by) = Content[o.by[1]]
            /\ o.by[2] # 0 => hdr[o.by].alias = Fid[Content[o.by[1]]]
        BY <3>2, <3>3 DEF AttemptHeader, Payload
      <3>5. o.by[1] \in Uploads
        BY <3>2, JumpAssumption
      <3> QED BY <3>2, <3>4, <3>5, JumpAssumption DEF Names
    <2> QED BY <2>1, <2>2
  <1> QED BY JumpRefinesPutPath, <1>1, PTL

\* The bytes a name of an attempt delivers are the content, without the jump
\* code.
LEMMA TrimmedPayload ==
    ASSUME NEW u \in Uploads, NEW k \in 0 .. MaxJumps,
           NEW h, h = AttemptHeader(<<u, k>>), ValidHeader(h)
    PROVE  /\ LogicalFid(u) \in Names(h)
           /\ SubSeq(Payload(<<u, k>>), 1, RefFor(LogicalFid(u), h).size) = Content[u]
  <1>1. Content[u] \in Seq(Nat) /\ Fid[Content[u]] # NoAlias /\ k \in Nat
    BY JumpAssumption
  <1>2. CASE k = 0
    <2>1. h = [fid |-> Fid[Content[u]], size |-> Len(Content[u]), alias |-> NoAlias]
      BY <1>2 DEF AttemptHeader, Payload
    <2>2. RefFor(LogicalFid(u), h).size = Len(Content[u]) /\ Payload(<<u, k>>) = Content[u]
      BY <1>2, <2>1 DEF RefFor, LogicalFid, Payload
    <2>3. SubSeq(Content[u], 1, Len(Content[u])) = Content[u]
      BY <1>1
    <2> QED BY <2>1, <2>2, <2>3 DEF Names, LogicalFid
  <1>3. CASE k # 0
    <2>1. /\ Payload(<<u, k>>) = Append(Content[u], k)
          /\ Len(Append(Content[u], k)) = Len(Content[u]) + 1
      BY <1>1, <1>3 DEF Payload
    <2>2. h.alias = Fid[Content[u]] /\ h.size = Len(Content[u]) + 1
      BY <1>3, <2>1 DEF AttemptHeader
    <2>3. h.fid # h.alias
      BY <1>1, <2>2 DEF ValidHeader
    <2>4. RefFor(LogicalFid(u), h).size = Len(Content[u])
      BY <1>1, <2>2, <2>3 DEF RefFor, LogicalFid
    <2>5. SubSeq(Append(Content[u], k), 1, Len(Content[u])) = Content[u]
      BY <1>1
    <2> QED BY <1>1, <2>1, <2>2, <2>4, <2>5 DEF Names, LogicalFid
  <1> QED BY <1>2, <1>3

\* An upload that reported success stays readable under the fid of its
\* content, whichever jump code stored it, unless a disk is out of service.
THEOREM StoredStaysServed == JumpSpec => []StoredIsServed
  <1>1. IInv /\ ClientInv /\ AckedServed => StoredIsServed
    <2> SUFFICES ASSUME IInv, ClientInv, AckedServed, up, NEW u \in Uploads, outcome[u] = "stored"
                 PROVE  Served(u)
      BY DEF StoredIsServed
    <2> DEFINE p == Current(u)
    <2>1. p \in Puts /\ res[p] = "ok" /\ p = <<u, code[u]>> /\ code[u] \in 0 .. MaxJumps
      BY CurrentIsPut DEF ClientInv, Current
    <2>2. hdr[p] = AttemptHeader(p)
      BY <2>1 DEF ClientInv
    <2>3. ValidHeader(hdr[p])
      <3>1. PICK d \in Disks : Obj(p) \in OnDisk(d)
        BY <2>1 DEF IInv, CallsInv, OnDisk
      <3>2. Obj(p).by = p
        BY <2>1, ObjFacts
      <3> QED BY <3>1, <3>2 DEF IInv, ObjectsInv, GoodObject
    <2>4. /\ LogicalFid(u) \in Names(hdr[p])
          /\ SubSeq(Payload(p), 1, RefFor(LogicalFid(u), hdr[p]).size) = Content[u]
      BY <2>1, <2>2, <2>3, TrimmedPayload
    <2>5. \/ Get(LogicalFid(u)) = [code |-> "OK", size |-> RefFor(LogicalFid(u), hdr[p]).size,
                                   data |-> {p}]
          \/ Get(LogicalFid(u)).code = "Internal"
      BY <2>1, <2>4 DEF AckedServed
    <2> QED BY <2>1, <2>4, <2>5 DEF Served, Delivers
  <1> QED BY JumpRefinesPutPath, AckedIsServed, <1>1, PTL
-----------------------------------------------------------------------------
(* VerifyContent.                                                          *)

\* The fid of a content is a name the daemon may have to look up.
LEMMA LogicalFidIsName ==
    ASSUME NEW u \in Uploads
    PROVE  LogicalFid(u) \in AllNames
  <1>1. <<u, 0>> \in Puts
    BY JumpAssumption
  <1>2. AttemptHeader(<<u, 0>>) \in Headers
    BY <1>1, JumpAssumption
  <1>3. AttemptHeader(<<u, 0>>).fid = LogicalFid(u)
    BY DEF AttemptHeader, Payload, LogicalFid
  <1> QED BY <1>2, <1>3 DEF AllNames, Names

\* The daemon never drops a stored object.
LEMMA StoredStays ==
    ASSUME IInv, IInv', [Next]_vars
    PROVE  StoredObjects \subseteq StoredObjects'
  BY StepRefines DEF OS!Next, OS!Register, OS!Ack, OS!vars

\* A Get that is answered reads one stored object, the only one of that name.
LEMMA GetIsStored ==
    ASSUME IInv, up, NEW f \in AllNames, Get(f).code = "OK"
    PROVE  \E o \in StoredObjects :
               /\ f \in Names(o) /\ o.by \in Puts
               /\ Get(f).data = {o.by} /\ Get(f).size = RefFor(f, o).size
  <1>1. PICK d \in Disks : \E o \in log[d] :
              /\ f \in Names(o)
              /\ Get(f) = [code |-> "OK", size |-> RefFor(f, o).size, data |-> {o.by}]
    BY GetFacts
  <1>2. PICK o \in log[d] :
              /\ f \in Names(o)
              /\ Get(f) = [code |-> "OK", size |-> RefFor(f, o).size, data |-> {o.by}]
    BY <1>1
  <1>3. o.by \in Puts
    BY <1>2 DEF IInv, ObjectsInv, GoodObject, OnDisk
  <1>4. o \in StoredObjects
    BY <1>2 DEF StoredObjects
  <1> QED BY <1>2, <1>3, <1>4

\* What the read-back compares equal is a stored object.
LEMMA DeliversStored ==
    ASSUME IInv, up, NEW u \in Uploads, Delivers(LogicalFid(u), Content[u])
    PROVE  \E o \in StoredObjects : StoredAs(u, o)
  <1>1. PICK o \in StoredObjects :
              /\ LogicalFid(u) \in Names(o)
              /\ Get(LogicalFid(u)).data = {o.by}
              /\ Get(LogicalFid(u)).size = RefFor(LogicalFid(u), o).size
    BY GetIsStored, LogicalFidIsName DEF Delivers
  <1>2. PICK q \in Puts :
              /\ Get(LogicalFid(u)).data = {q}
              /\ SubSeq(Payload(q), 1, Get(LogicalFid(u)).size) = Content[u]
    BY DEF Delivers
  <1>3. q = o.by
    BY <1>1, <1>2
  <1> QED BY <1>1, <1>2, <1>3 DEF StoredAs

\* A stored object answers for its names, unless its disk is out of service.
LEMMA StoredAnswers ==
    ASSUME IInv, up, NEW u \in Uploads, NEW o \in StoredObjects, StoredAs(u, o)
    PROVE  Served(u)
  <1> DEFINE f == LogicalFid(u)
  <1>1. f \in AllNames
    BY LogicalFidIsName
  <1>2. CASE Get(f).code = "OK"
    <2>1. PICK x \in StoredObjects :
              /\ f \in Names(x) /\ x.by \in Puts
              /\ Get(f).data = {x.by} /\ Get(f).size = RefFor(f, x).size
      BY <1>1, <1>2, GetIsStored
    <2>2. x = o
      BY <2>1 DEF IInv, HomesInv, OnDisk, StoredObjects, StoredAs
    <2> QED BY <1>2, <2>1, <2>2 DEF Served, Delivers, StoredAs
  <1>3. CASE ~Found(f) /\ Get(f).code = IF SomeFault THEN "Internal" ELSE "NotFound"
    <2>1. PICK d \in Disks : o \in log[d]
      BY DEF StoredObjects
    <2>2. confirmed[d][f] # NoRef
      BY <2>1, <1>1 DEF IInv, IndexInv, StoredAs
    <2>3. SomeFault
      BY <1>3, <2>2 DEF Found, SomeFault
    <2> QED BY <1>3, <2>3 DEF Served
  <1> QED BY <1>1, <1>2, <1>3, GetFacts

LEMMA VerifyInvInit == JumpInit => VerifyInv
  BY JumpAssumption DEF JumpInit, VerifyInv

\* Only a read-back gives a verdict.
LEMMA VerifyInvStep ==
    ASSUME IInv, IInv', ClientInv, VerifyInv, [JumpNext]_allVars
    PROVE  VerifyInv'
  <1>s. StoredObjects \subseteq StoredObjects'
    BY JumpStep, StoredStays DEF allVars
  <1>1. CASE UNCHANGED <<reads, verdict>>
    BY <1>1, <1>s DEF VerifyInv, StoredAs
  <1>2. ASSUME NEW u \in Uploads, VerifyRetry(u) PROVE VerifyInv'
    BY <1>2, <1>s, JumpAssumption DEF VerifyRetry, VerifyInv, StoredAs
  <1>3. ASSUME NEW u \in Uploads, VerifyFound(u) PROVE VerifyInv'
    <2>1. PICK v \in {"same", "different"} :
              /\ v = "same" => Delivers(LogicalFid(u), Content[u])
              /\ verdict' = [verdict EXCEPT ![u] = v] /\ reads' = reads /\ up
      BY <1>3 DEF VerifyFound, Conclude
    <2>2. v = "same" => \E o \in StoredObjects : StoredAs(u, o)
      BY <2>1, DeliversStored
    <2> QED BY <2>1, <2>2, <1>s DEF VerifyInv, StoredAs
  <1>4. ASSUME NEW u \in Uploads, VerifyGivesUp(u) PROVE VerifyInv'
    BY <1>4, <1>s DEF VerifyGivesUp, Conclude, VerifyInv, StoredAs
  <1> QED
    BY <1>1, <1>2, <1>3, <1>4 DEF JumpNext, AttemptServer, AttemptClient, ClientReturns, Verify,
       Stored, Duplicate, NextJump, Exhausted, Failed, Unreachable, Cancelled, Return,
       clientVars, allVars

\* The verdicts rest on objects the daemon has stored.
LEMMA VerifyInvariance == JumpSpec => [](IInv /\ ClientInv /\ VerifyInv)
  <1>1. ASSUME IInv, ClientInv, VerifyInv, [JumpNext]_allVars
        PROVE  IInv' /\ ClientInv' /\ VerifyInv'
    <2>1. [Next]_vars
      BY <1>1, JumpStep DEF allVars
    <2>2. IInv' /\ ClientInv'
      BY <1>1, <2>1, NextInv, ClientInvStep
    <2> QED BY <1>1, <2>2, VerifyInvStep
  <1>2. JumpInit => IInv /\ ClientInv /\ VerifyInv
    BY InitInv, ClientInvInit, VerifyInvInit DEF JumpInit
  <1> QED BY <1>1, <1>2, PTL DEF JumpSpec

\* The client's loop of PutWithJumpRetry and the read-backs of VerifyContent
\* stay in range, whatever the daemon answers.
THEOREM ClientTypeCorrect == JumpSpec => []JumpTypeOK
  <1>1. ClientInv /\ VerifyInv => JumpTypeOK
    BY DEF ClientInv, VerifyInv, JumpTypeOK
  <1> QED BY VerifyInvariance, <1>1, PTL

\* Without collisions, whatever is stored under the fid of a content is that
\* content: directly, or as the target of a jump without its code.
LEMMA NameTellsContent ==
    ASSUME NoCollisions, IInv, ClientInv, NEW u \in Uploads, NEW o \in StoredObjects,
           LogicalFid(u) \in Names(o)
    PROVE  StoredAs(u, o)
  <1>1. PICK d \in Disks : o \in OnDisk(d)
    BY DEF StoredObjects, OnDisk
  <1>2. /\ o.by \in Puts /\ Names(o) = Names(hdr[o.by])
        /\ ValidHeader(hdr[o.by]) /\ o = Obj(o.by)
    BY <1>1, ObjFacts DEF IInv, ObjectsInv, GoodObject
  <1>a. \A p \in Uploads \X (0 .. MaxJumps) :
            p[1] \in Uploads /\ p[2] \in 0 .. MaxJumps /\ p = <<p[1], p[2]>>
    OBVIOUS
  <1>b. o.by \in Uploads \X (0 .. MaxJumps)
    BY <1>2, JumpAssumption
  <1>3. PICK v \in Uploads, k \in 0 .. MaxJumps : o.by = <<v, k>>
    BY <1>a, <1>b
  <1>4. /\ hdr[o.by] = AttemptHeader(<<v, k>>)
        /\ o.fid = Fid[Payload(<<v, k>>)] /\ o.size = Len(Payload(<<v, k>>))
        /\ o.alias = IF k = 0 THEN NoAlias ELSE Fid[Content[v]]
    <2>1. hdr[o.by] = AttemptHeader(<<v, k>>)
      BY <1>2, <1>3 DEF ClientInv
    <2>2. o.fid = hdr[o.by].fid /\ o.size = hdr[o.by].size /\ o.alias = hdr[o.by].alias
      BY <1>2, ObjFacts
    <2> QED BY <2>1, <2>2 DEF AttemptHeader
  <1>5. /\ <<u, 0>> \in Puts /\ <<v, 0>> \in Puts /\ <<v, k>> \in Puts
        /\ Payload(<<u, 0>>) = Content[u] /\ Payload(<<v, 0>>) = Content[v]
    BY JumpAssumption DEF Payload
  <1>6. Payload(<<v, k>>) \in Seq(Nat)
    BY JumpAssumption DEF Payload
  <1>7. CASE LogicalFid(u) = o.fid
    <2>1. Payload(<<v, k>>) = Content[u]
      BY <1>4, <1>5, <1>7 DEF NoCollisions, LogicalFid
    <2>2. RefFor(LogicalFid(u), o).size = Len(Payload(<<v, k>>))
      BY <1>4, <1>7 DEF RefFor
    <2>3. SubSeq(Payload(<<v, k>>), 1, Len(Payload(<<v, k>>))) = Payload(<<v, k>>)
      BY <1>6
    <2> QED BY <1>3, <2>1, <2>2, <2>3 DEF StoredAs
  <1>8. CASE LogicalFid(u) # o.fid
    <2>1. LogicalFid(u) = o.alias /\ o.alias # NoAlias
      BY <1>8 DEF Names
    <2>2. LogicalFid(u) = Fid[Content[v]] /\ Content[v] = Content[u]
      BY <1>4, <1>5, <2>1 DEF NoCollisions, LogicalFid
    <2>3. LogicalFid(v) = LogicalFid(u)
      BY <2>2 DEF LogicalFid
    <2>4. SubSeq(Payload(<<v, k>>), 1, RefFor(LogicalFid(v), hdr[o.by]).size) = Content[v]
      BY <1>2, <1>4, TrimmedPayload
    <2>5. RefFor(LogicalFid(u), o) = RefFor(LogicalFid(u), hdr[o.by])
      BY <1>2, ObjFacts
    <2> QED BY <1>3, <2>2, <2>3, <2>4, <2>5 DEF StoredAs
  <1> QED BY <1>7, <1>8

\* Without collisions no read-back compares different.
LEMMA NeverDifferent ==
    ASSUME NoCollisions, IInv, IInv', ClientInv, [JumpNext]_allVars, VerifyInv,
           \A u \in Uploads : verdict[u] # "different"
    PROVE  \A u \in Uploads : verdict'[u] # "different"
  <1>1. ASSUME NEW u \in Uploads, VerifyFound(u)
        PROVE  verdict' = [verdict EXCEPT ![u] = "same"]
    <2>1. up /\ Get(LogicalFid(u)).code = "OK"
      BY <1>1 DEF VerifyFound
    <2>2. PICK o \in StoredObjects :
              /\ LogicalFid(u) \in Names(o) /\ o.by \in Puts
              /\ Get(LogicalFid(u)).data = {o.by}
              /\ Get(LogicalFid(u)).size = RefFor(LogicalFid(u), o).size
      BY <2>1, GetIsStored, LogicalFidIsName
    <2>3. StoredAs(u, o)
      BY <2>2, NameTellsContent
    <2>4. Delivers(LogicalFid(u), Content[u])
      BY <2>1, <2>2, <2>3 DEF Delivers, StoredAs
    <2> QED BY <1>1, <2>4 DEF VerifyFound, Conclude
  <1>2. ASSUME NEW u \in Uploads, VerifyGivesUp(u)
        PROVE  verdict' = [verdict EXCEPT ![u] = "unknown"]
    BY <1>2 DEF VerifyGivesUp, Conclude
  <1>3. \/ UNCHANGED verdict
        \/ \E u \in Uploads : VerifyFound(u) \/ VerifyGivesUp(u)
    BY DEF JumpNext, AttemptServer, AttemptClient, ClientReturns, Verify,
       Stored, Duplicate, NextJump, Exhausted, Failed, Unreachable, Cancelled, Return,
       VerifyRetry, clientVars, allVars
  <1>4. ASSUME NEW u \in Uploads, NEW s \in {"same", "unknown"}, verdict' = [verdict EXCEPT ![u] = s]
        PROVE  \A v \in Uploads : verdict'[v] # "different"
    BY <1>4 DEF VerifyInv
  <1> QED BY <1>1, <1>2, <1>3, <1>4

\* docs/CLIENT_SPEC.md section 4, for contents whose hashes do not collide:
\* a read-back that compared equal stays true, whoever stored the content and
\* whatever crashes, and none ever compares different.
THEOREM VerifiedStaysServed ==
    ASSUME NoCollisions
    PROVE  JumpSpec => []VerifiedIsServed
  <1> DEFINE Never == \A u \in Uploads : verdict[u] # "different"
  <1>1. JumpInit => Never
    BY DEF JumpInit
  <1>2. ASSUME IInv, IInv', ClientInv, VerifyInv, [JumpNext]_allVars, Never
        PROVE  Never'
    BY <1>2, NeverDifferent
  <1>3. ASSUME IInv, VerifyInv, Never PROVE VerifiedIsServed
    BY <1>3, StoredAnswers DEF VerifiedIsServed, VerifyInv
  <1> QED BY <1>1, <1>2, <1>3, VerifyInvariance, PTL DEF JumpSpec
=============================================================================
