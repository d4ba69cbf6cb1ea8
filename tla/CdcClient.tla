------------------------------ MODULE CdcClient ------------------------------
(***************************************************************************)
(* PutCDC and GetCDC of pkg/client/cdc.go: a stream is cut into            *)
(* content-defined chunks (pkg/cdc), a pool of workers uploads them, a     *)
(* collector gathers their descriptors, and a manifest (pkg/manifest) that *)
(* lists them is stored as the root object of the file.                    *)
(*                                                                         *)
(* Four kinds of goroutine share two bounded channels and a context that   *)
(* the caller, the slicer or the collector may cancel.  The daemon is      *)
(* reduced to what PutPath and JumpClient show of it: a write-once set of  *)
(* contents, and the contents whose Put is still in flight, which answer   *)
(* "fid already registered" as well.                                       *)
(***************************************************************************)
EXTENDS Naturals, FiniteSets, SequencesExt

CONSTANTS
    Streams,      \* the inputs: sequences of chunks, a chunk is a sequence of bytes
    Workers,      \* CDCOptions.Workers
    ChanCap,      \* capacity of both channels, 2 * Workers in the source
    MaxManifest,  \* chunks that fit into a manifest of MaxAtomicPayloadSize
    Known,        \* contents in the store from the start
    Foreign       \* contents some other client is uploading at the start

ASSUME CdcAssumption ==
    /\ IsFiniteSet(Workers) /\ Workers # {}
    /\ ChanCap \in Nat \ {0}
    /\ Known \cap Foreign = {}
    /\ Streams \subseteq Seq(Seq(Nat) \ {<<>>})   \* Chunker.Next returns no empty chunk

VARIABLES
    stream,       \* the input of this call
    sliced,       \* chunks that chunker.Next has returned and fullHasher has seen
    slicer,       \* "next", "send" or "done" (which closes taskCh)
    taskCh,       \* indices of chunks
    work,         \* per worker: [pc, task]
    resCh,        \* chunkResults
    parentDone,   \* the caller's context has ended
    cancelled,    \* cancelWorkers was called
    main,         \* "collect", "assemble", "commit" or "done"
    results,      \* descriptors collected so far
    sliceErr, firstErr,
    root,         \* the FileManifest that main has built
    outcome,      \* what PutCDC returned
    stored, inFlight, manifests,  \* the daemon; manifests are those of this call
    rival         \* another call's Put of the same manifest: "none", "flying",
                  \* "stored" or "failed"

slicerVars == <<sliced, slicer, sliceErr>>
mainVars   == <<main, results, firstErr, root, outcome, manifests>>
storeVars  == <<stored, inFlight, rival>>
vars == <<stream, slicerVars, taskCh, work, resCh, parentDone, cancelled,
          mainVars, storeVars>>

NoManifest == [total |-> 0, hash |-> <<>>, chunks |-> <<>>]

\* ctxWorker.Done() is closed.
WorkersDone == parentDone \/ cancelled

\* The closer goroutine closes resCh when the last worker has returned.
ResClosed == \A w \in Workers : work[w].pc = "done"

File == FlattenSeq(stream)

\* What a sum that starts at 0 and grows by sizes[1], sizes[2], ... comes to.
RunningSum(sizes) ==
    LET sum[i \in Nat] == IF i = 0 THEN 0 ELSE sum[i - 1] + sizes[i]
    IN  sum

\* Chunker.offset after each call of Next.
Offsets == RunningSum([i \in DOMAIN stream |-> Len(stream[i])])

\* cdc.Chunk, and the ChunkDescriptor made of it: the fid is the hash of the
\* bytes, for which the bytes themselves stand.
ChunkAt(i) ==
    [fid    |-> stream[i],
     offset |-> Offsets[i - 1],
     size   |-> Len(stream[i])]

Init ==
    /\ stream \in Streams
    /\ sliced = 0 /\ slicer = "next" /\ sliceErr = FALSE
    /\ taskCh = <<>> /\ resCh = <<>>
    /\ work = [w \in Workers |-> [pc |-> "take", task |-> 0]]
    /\ parentDone = FALSE /\ cancelled = FALSE
    /\ main = "collect" /\ results = <<>> /\ firstErr = FALSE
    /\ root = NoManifest /\ outcome = "none"
    /\ stored = Known /\ inFlight = Foreign /\ manifests = {}
    /\ rival = "none"

\* The caller's context is cancelled or its deadline passes.
CallerCancels ==
    /\ ~parentDone /\ main # "done"
    /\ parentDone' = TRUE
    /\ UNCHANGED <<stream, slicerVars, taskCh, work, resCh, cancelled, mainVars, storeVars>>
-----------------------------------------------------------------------------
(* The slicer.                                                             *)

\* A wrong variant: one more chunk than the stream has.
SlicerNext_OneTooFar ==
    /\ slicer = "next"
    /\ IF sliced <= Len(stream)
         THEN sliced' = sliced + 1 /\ slicer' = "send"
         ELSE slicer' = "done" /\ UNCHANGED sliced
    /\ UNCHANGED <<stream, sliceErr, taskCh, work, resCh, parentDone, cancelled,
                   mainVars, storeVars>>

SlicerNext ==
    /\ slicer = "next"
    /\ IF sliced < Len(stream)
         THEN sliced' = sliced + 1 /\ slicer' = "send"
         ELSE slicer' = "done" /\ UNCHANGED sliced
    /\ UNCHANGED <<stream, sliceErr, taskCh, work, resCh, parentDone, cancelled,
                   mainVars, storeVars>>

\* chunker.Next fails: the source could not be read.
SlicerError ==
    /\ slicer = "next"
    /\ slicer' = "done" /\ sliceErr' = TRUE /\ cancelled' = TRUE
    /\ UNCHANGED <<stream, sliced, taskCh, work, resCh, parentDone, mainVars, storeVars>>

SlicerSend ==
    /\ slicer = "send" /\ Len(taskCh) < ChanCap
    /\ taskCh' = Append(taskCh, sliced)
    /\ slicer' = "next"
    /\ UNCHANGED <<stream, sliced, sliceErr, work, resCh, parentDone, cancelled,
                   mainVars, storeVars>>

\* A wrong variant: the send to a full channel does not watch the context.
SlicerStop_IgnoresContext ==
    /\ slicer = "send" /\ WorkersDone /\ Len(taskCh) < ChanCap
    /\ slicer' = "done"
    /\ UNCHANGED <<stream, sliced, sliceErr, taskCh, work, resCh, parentDone, cancelled,
                   mainVars, storeVars>>

SlicerStop ==
    /\ slicer = "send" /\ WorkersDone
    /\ slicer' = "done"
    /\ UNCHANGED <<stream, sliced, sliceErr, taskCh, work, resCh, parentDone, cancelled,
                   mainVars, storeVars>>

Slicer == SlicerNext \/ SlicerError \/ SlicerSend \/ SlicerStop
-----------------------------------------------------------------------------
(* The workers.  A chunk is uploaded by PutWithJumpRetry.                   *)

Goto(w, pc) == work' = [work EXCEPT ![w].pc = pc]

\* A task leaves the channel; a worker that finds the context done drops it.
WorkerTake(w) ==
    /\ work[w].pc = "take" /\ taskCh # <<>>
    /\ work' = [work EXCEPT ![w] = [pc |-> IF WorkersDone THEN "done" ELSE "put",
                                    task |-> Head(taskCh)]]
    /\ taskCh' = Tail(taskCh)
    /\ UNCHANGED <<stream, slicerVars, resCh, parentDone, cancelled, mainVars, storeVars>>

WorkerEnds(w) ==
    /\ work[w].pc = "take" /\ taskCh = <<>> /\ slicer = "done"
    /\ Goto(w, "done")
    /\ UNCHANGED <<stream, slicerVars, taskCh, resCh, parentDone, cancelled, mainVars, storeVars>>

Content(w) == stream[work[w].task]

\* The request is sent, unless the context is done.  A content that is stored
\* or in flight is refused as registered, which counts as a success (a
\* duplicate; the count of those is left out).  The call fails without a
\* handler if the connection does, or when every jump code is taken.
PutStarts(w) ==
    /\ work[w].pc = "put"
    /\ \/ Goto(w, "fail") /\ UNCHANGED inFlight
       \/ /\ ~WorkersDone
          /\ Content(w) \in stored \cup inFlight
          /\ Goto(w, "report")
          /\ UNCHANGED inFlight
       \/ /\ ~WorkersDone
          /\ Content(w) \notin stored \cup inFlight
          /\ inFlight' = inFlight \cup {Content(w)}
          /\ Goto(w, "wait")
    /\ UNCHANGED <<stream, slicerVars, taskCh, resCh, parentDone, cancelled, mainVars, stored,
                   rival>>

\* The call returns as soon as its context is done; its handler may run on.
PutCancelled(w) ==
    /\ work[w].pc = "wait" /\ WorkersDone
    /\ Goto(w, "fail")
    /\ UNCHANGED <<stream, slicerVars, taskCh, resCh, parentDone, cancelled, mainVars, storeVars>>

Waiting(x) == {w \in Workers : work[w].pc = "wait" /\ Content(w) = x}

Answer(x, pc) ==
    work' = [w \in Workers |-> IF w \in Waiting(x) THEN [work[w] EXCEPT !.pc = pc] ELSE work[w]]

\* A handler stores its content, and the answer arrives or is lost; or it fails.
HandlerEnds(x) ==
    /\ x \in inFlight
    /\ inFlight' = inFlight \ {x}
    /\ \/ stored' = stored \cup {x} /\ (Answer(x, "report") \/ Answer(x, "fail"))
       \/ Answer(x, "fail") /\ UNCHANGED stored
    /\ UNCHANGED <<stream, slicerVars, taskCh, resCh, parentDone, cancelled, mainVars, rival>>

Result(w, err) == [index |-> work[w].task, err |-> err]

\* The descriptor goes to the collector, or the context ends first.
WorkerReports(w) ==
    /\ work[w].pc = "report"
    /\ \/ /\ Len(resCh) < ChanCap
          /\ resCh' = Append(resCh, Result(w, FALSE))
          /\ Goto(w, "take")
       \/ WorkersDone /\ Goto(w, "done") /\ UNCHANGED resCh
    /\ UNCHANGED <<stream, slicerVars, taskCh, parentDone, cancelled, mainVars, storeVars>>

\* A wrong variant: the error of an upload is dropped.
WorkerFails_DropsError(w) ==
    /\ work[w].pc = "fail"
    /\ Len(resCh) < ChanCap
    /\ resCh' = Append(resCh, Result(w, FALSE))
    /\ Goto(w, "take")
    /\ UNCHANGED <<stream, slicerVars, taskCh, parentDone, cancelled, mainVars, storeVars>>

\* A failed upload is reported, if the context lets it, and ends the worker.
WorkerFails(w) ==
    /\ work[w].pc = "fail"
    /\ \/ Len(resCh) < ChanCap /\ resCh' = Append(resCh, Result(w, TRUE))
       \/ WorkersDone /\ UNCHANGED resCh
    /\ Goto(w, "done")
    /\ UNCHANGED <<stream, slicerVars, taskCh, parentDone, cancelled, mainVars, storeVars>>

Worker(w) ==
    \/ WorkerTake(w) \/ WorkerEnds(w) \/ PutStarts(w) \/ PutCancelled(w)
    \/ WorkerReports(w) \/ WorkerFails(w)
-----------------------------------------------------------------------------
(* The caller's goroutine: collect, assemble, commit.                       *)

Collect ==
    /\ main = "collect" /\ resCh # <<>>
    /\ resCh' = Tail(resCh)
    /\ IF Head(resCh).err
         THEN firstErr' = TRUE /\ cancelled' = TRUE /\ UNCHANGED results
         ELSE /\ results' = Append(results, ChunkAt(Head(resCh).index))
              /\ UNCHANGED <<firstErr, cancelled>>
    /\ UNCHANGED <<stream, slicerVars, taskCh, work, parentDone, main, root, outcome,
                   manifests, storeVars>>

\* PutCDC returns; the deferred cancelWorkers runs.
Return(o) == main' = "done" /\ outcome' = o /\ cancelled' = TRUE

\* What fullHasher.Sum64 covers.  If the slicer is still running the two race,
\* and the sum is that of nothing in particular.
Torn == <<"torn">>
HashSeen == {SubSeq(stream, 1, sliced)} \cup IF slicer = "done" THEN {} ELSE {Torn}

\* sort.Slice by offset: the descriptors rearranged so that no offset decreases.
SortedByOffset(s) ==
    LET p == CHOOSE p \in Bijection(DOMAIN s, DOMAIN s) :
                \A i, j \in DOMAIN s : i < j => s[p[i]].offset <= s[p[j]].offset
    IN  [i \in DOMAIN s |-> s[p[i]]]

\* actualTotalSize of the sorted descriptors.
TotalSize(chunks) == RunningSum([i \in DOMAIN chunks |-> chunks[i].size])[Len(chunks)]

Assembled(hash) ==
    LET chunks == SortedByOffset(results)
    IN  [total |-> TotalSize(chunks), hash |-> hash, chunks |-> chunks]

\* resCh is closed and drained: an error of either kind ends the call,
\* otherwise the manifest is built.
CollectDone ==
    /\ main = "collect" /\ resCh = <<>> /\ ResClosed
    /\ IF sliceErr \/ firstErr
         THEN Return("error") /\ UNCHANGED root
         ELSE /\ \E hash \in HashSeen : root' = Assembled(hash)
              /\ main' = "assemble"
              /\ UNCHANGED <<outcome, cancelled>>
    /\ UNCHANGED <<stream, slicerVars, taskCh, work, resCh, parentDone, results, firstErr,
                   manifests, storeVars>>

\* A wrong variant: the manifest is committed with a context of its own.
CommitStarts_FreshContext ==
    /\ main = "assemble"
    /\ IF Len(root.chunks) > MaxManifest
         THEN Return("error")
         ELSE main' = "commit" /\ UNCHANGED <<outcome, cancelled>>
    /\ UNCHANGED <<stream, slicerVars, taskCh, work, resCh, parentDone, results, firstErr,
                   root, manifests, storeVars>>

\* PutAtomic(ctx, manifest): too large, or the caller's context is done, or sent.
CommitStarts ==
    /\ main = "assemble"
    /\ IF Len(root.chunks) > MaxManifest \/ parentDone
         THEN Return("error")
         ELSE main' = "commit" /\ UNCHANGED <<outcome, cancelled>>
    /\ UNCHANGED <<stream, slicerVars, taskCh, work, resCh, parentDone, results, firstErr,
                   root, manifests, storeVars>>

\* The manifest is stored and the caller learns it, or does not; or it is
\* refused as registered, which PutAtomic takes for a success although the
\* other Put may still be in flight; or it fails.
CommitEnds ==
    /\ main = "commit"
    /\ \/ rival \in {"none", "failed"} /\ manifests' = {root} /\ (Return("ok") \/ Return("error"))
       \/ rival \in {"flying", "stored"} /\ Return("ok") /\ UNCHANGED manifests
       \/ Return("error") /\ UNCHANGED manifests
    /\ UNCHANGED <<stream, slicerVars, taskCh, work, resCh, parentDone, results, firstErr,
                   root, storeVars>>

Main == Collect \/ CollectDone \/ CommitStarts \/ CommitEnds
-----------------------------------------------------------------------------
(* Another PutCDC of the same stream, in another client or an earlier call  *)
(* of this one that was given up, sends the same manifest; once.  Nothing   *)
(* before the commit looks at it, so it starts no earlier.                  *)

RivalCommits ==
    /\ rival = "none" /\ main = "commit"
    /\ rival' = "flying"
    /\ UNCHANGED <<stream, slicerVars, taskCh, work, resCh, parentDone, cancelled, mainVars,
                   stored, inFlight>>

RivalEnds ==
    /\ rival = "flying"
    /\ rival' \in {"stored", "failed"}
    /\ UNCHANGED <<stream, slicerVars, taskCh, work, resCh, parentDone, cancelled, mainVars,
                   stored, inFlight>>
-----------------------------------------------------------------------------
Next ==
    \/ CallerCancels \/ Slicer \/ Main
    \/ \E w \in Workers : Worker(w)
    \/ \E x \in inFlight : HandlerEnds(x)
    \/ RivalCommits \/ RivalEnds

Spec == Init /\ [][Next]_vars

\* Goroutines are scheduled, reads of the source return, handlers end (they
\* have a stall timeout).  Nobody has to cancel.
FairSpec ==
    /\ Spec
    /\ WF_vars(Slicer) /\ WF_vars(Main)
    /\ \A w \in Workers : WF_vars(Worker(w))
    /\ WF_vars(\E x \in inFlight : HandlerEnds(x))
-----------------------------------------------------------------------------
(* GetCDC and GetAuto.  Objects never change once stored, so a download is  *)
(* evaluated in one state.  r is a Range; none is [start |-> 0, end |-> 0]. *)

\* Server.Get of a range: the bytes [start, end) of an object.
Clamp(end, size) == IF end = 0 \/ end > size THEN size ELSE end
Window(bytes, start, end) == SubSeq(bytes, start + 1, end)

Overlaps(d, start, end) == ~(d.offset + d.size <= start \/ d.offset >= end)

\* A wrong variant: the end of the window counts from the start of the file.
Piece_EndInFile(d, start, end) ==
    LET from == IF start > d.offset THEN start - d.offset ELSE 0
        to   == IF end < d.offset + d.size THEN end ELSE d.size
    IN  IF from < to /\ to <= Len(d.fid) THEN Window(d.fid, from, to) ELSE <<>>

\* What one overlapping chunk contributes; a chunk that is shorter than its
\* descriptor contributes nothing.
Piece(d, start, end) ==
    LET from == IF start > d.offset THEN start - d.offset ELSE 0
        to   == IF end < d.offset + d.size THEN end - d.offset ELSE d.size
    IN  IF from < to /\ to <= Len(d.fid) THEN Window(d.fid, from, to) ELSE <<>>

GetCDC(m, r) ==
    LET end        == Clamp(r.end, m.total)
        touched(d) == Overlaps(d, r.start, end)
        written(d) == IF touched(d) THEN Piece(d, r.start, end) ELSE <<>>
    IN  IF r.start >= end THEN [ok |-> TRUE, data |-> <<>>]
        ELSE [ok   |-> \A i \in DOMAIN m.chunks : touched(m.chunks[i]) => m.chunks[i].fid \in stored,
              data |-> FlattenSeq([i \in DOMAIN m.chunks |-> written(m.chunks[i])])]
-----------------------------------------------------------------------------
(* Properties.                                                             *)

\* The variables have their types and the channels stay within their bounds.
CdcTypeOK ==
    /\ sliced \in 0 .. Len(stream)
    /\ slicer \in {"next", "send", "done"}
    /\ Len(taskCh) <= ChanCap /\ Len(resCh) <= ChanCap
    /\ \A w \in Workers : /\ work[w].pc \in {"take", "put", "wait", "report", "fail", "done"}
                          /\ work[w].task \in 0 .. sliced
    /\ main \in {"collect", "assemble", "commit", "done"}
    /\ outcome \in {"none", "ok", "error"}

\* A successful PutCDC has stored its manifest, unless another call had sent
\* the same one: then "fid already registered" counts as a success, and if
\* that other Put fails there is no manifest at all.  A manifest that this
\* call puts into the store, whether it reported success or not, describes the
\* whole stream: every chunk once, in order, at its offset, with the hash and
\* the size of all of it.  In particular a cancelled, failed or half-read
\* upload never leaves a manifest of the part that got through.
ManifestIsWhole ==
    /\ outcome = "ok" => manifests # {} \/ rival # "none"
    /\ \A m \in manifests :
        /\ m.total = Len(File)
        /\ m.hash = stream
        /\ Len(m.chunks) = Len(stream)
        /\ \A i \in DOMAIN m.chunks :
              LET d == m.chunks[i] IN
              /\ d.fid = stream[i]
              /\ Window(File, d.offset, d.offset + d.size) = stream[i]
              /\ d.offset = IF i = 1 THEN 0 ELSE m.chunks[i - 1].offset + m.chunks[i - 1].size

\* When the manifest is stored, so is every chunk it lists, although a chunk
\* that occurs twice is reported as a duplicate while its first upload is
\* still running: the failure of that upload fails the whole call.  Chunks
\* that another client is uploading at the time are the exception.
ChunksBeforeManifest ==
    \A m \in manifests : \A i \in DOMAIN m.chunks :
        m.chunks[i].fid \in stored \cup Foreign

\* Whatever range of a stored file is asked for, GetCDC delivers exactly those
\* bytes or an error; and an error only if a chunk of another client's failed
\* upload is missing.
RangesReadRight ==
    \A m \in manifests : \A start, end \in 0 .. Len(File) + 1 :
        LET got  == GetCDC(m, [start |-> start, end |-> end])
            stop == IF end = 0 \/ end > Len(File) THEN Len(File) ELSE end
        IN  /\ got.ok => got.data = [k \in 1 .. (IF stop > start THEN stop - start ELSE 0)
                                        |-> File[start + k]]
            /\ ToSet(stream) \subseteq stored => got.ok

\* PutCDC returns and leaves no goroutine behind: no order of errors,
\* cancellations and full channels blocks the slicer or a worker for good.
EverythingEnds ==
    <>(main = "done" /\ slicer = "done" /\ \A w \in Workers : work[w].pc = "done")
=============================================================================
