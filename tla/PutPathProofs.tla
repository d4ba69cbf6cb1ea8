---------------------------- MODULE PutPathProofs ----------------------------
(***************************************************************************)
(* Proofs about PutPath for every set of calls, headers and disks, every   *)
(* disk geometry and any number of crashes.                                *)
(*                                                                         *)
(* The safety properties are not inductive by themselves.  IInv adds what  *)
(* the code relies on silently: which handler states own a reservation,    *)
(* that an append in doubt belongs to the call that holds the disk's mu or *)
(* to a disk that is out of service, and which slots already carry the     *)
(* bytes of the call that reserved them.                                   *)
(***************************************************************************)
EXTENDS PutPath, TLAPS

\* A call between the gate and the end of its commit: its names are nobody's.
Uncommitted(p) == pc[p] \in {"select", "prepare", "write", "commit", "syncing"}

\* A call whose object is in no durable index.
Unpublished(p) == Uncommitted(p) \/ pc[p] = "abort"

Holding(p) == pc[p] \in {"write", "commit", "syncing", "abort"}

\* Objects that are or may turn out to be on disk d.
OnDisk(d) == log[d] \cup tail[d]

\* An object is the one its call stores, is well formed and fits the disk.
GoodObject(d, o) ==
    /\ o.by \in Puts
    /\ o = Obj(o.by)
    /\ ValidHeader(hdr[o.by])
    /\ AddrOK(d, hdr[o.by].fid, hdr[o.by].size)

ObjectsInv == \A d \in Disks : \A o \in OnDisk(d) : GoodObject(d, o)

CallsInv ==
    \A p \in Puts :
        /\ InFlight(p) => ValidHeader(hdr[p])
        /\ Holding(p) => AddrOK(disk[p], hdr[p].fid, hdr[p].size)
        /\ pc[p] = "respond" => Obj(p) \in log[disk[p]]
        /\ res[p] = "ok" => /\ pc[p] \in {"release", "done"}
                            /\ \E d \in Disks : Obj(p) \in log[d]

GateInv ==
    /\ \A f : f \in gate <=> \E p \in Puts : InFlight(p) /\ f \in Names(hdr[p])
    /\ \A p, q \in Puts : p # q /\ InFlight(p) /\ InFlight(q) =>
            Names(hdr[p]) \cap Names(hdr[q]) = {}

\* Down, everything volatile is empty.
DownInv ==
    ~up => /\ \A p \in Puts : ~InFlight(p)
           /\ \A d \in Disks : tail[d] = {} /\ ~indexErr[d]

TailInv ==
    /\ \A d \in Disks : \A o \in tail[d] :
            indexErr[d] \/ (pc[o.by] = "syncing" /\ disk[o.by] = d)
    /\ \A p \in Puts : pc[p] = "syncing" =>
            /\ tail[disk[p]] = {Obj(p)}
            /\ ~indexErr[disk[p]]
    /\ \A d \in Disks : \A x, y \in tail[d] : x = y

\* The RAM index and extent table against the durable index.
IndexInv ==
    up => \A d \in Disks :
        /\ \A f \in AllNames :
            confirmed[d][f] = NoRef <=> \A o \in log[d] : f \notin Names(o)
        /\ \A o \in log[d] : \A f \in Names(o) : confirmed[d][f] = RefFor(f, o)
        /\ intervals[d] = {ExtentOf(d, o) : o \in log[d]}

PendingInv ==
    \A d \in Disks : pendingIntervals[d] = {ExtentOf(d, hdr[p]) : p \in Holders(d)}

\* No name has two homes.
HomesInv ==
    \A d, e \in Disks : \A x \in OnDisk(d), y \in OnDisk(e) :
        x # y \/ d # e => Names(x) \cap Names(y) = {}

\* The names of a call that has not published are in no durable index, and
\* while it may still commit they are in doubt only as its own append.
FreshInv ==
    \A p \in Puts, d \in Disks :
        /\ Unpublished(p) => \A o \in log[d] : Names(o) \cap Names(hdr[p]) = {}
        /\ Uncommitted(p) => \A o \in tail[d] :
            \/ o.by = p /\ d = disk[p] /\ pc[p] = "syncing"
            \/ Names(o) \cap Names(hdr[p]) = {}

Disjoint(d, g, h) == ~Overlaps(ExtentOf(d, g), ExtentOf(d, h))

SpaceInv ==
    \A d \in Disks :
        /\ \A x, y \in OnDisk(d) : x # y => Disjoint(d, x, y)
        /\ \A p \in Holders(d) : \A o \in OnDisk(d) :
                o.by # p => Disjoint(d, o, hdr[p])
        /\ \A p, q \in Holders(d) : p # q => Disjoint(d, hdr[p], hdr[q])

\* Which slots carry whose bytes.
BytesInv ==
    /\ \A d \in Disks : \A o \in OnDisk(d) : \A s \in SlotsOf(d, o) :
            cache[d][s] = o.by /\ media[d][s] = o.by
    /\ \A p \in Puts : pc[p] \in {"write", "commit", "syncing"} =>
            /\ \A s \in SlotsOf(disk[p], hdr[p]) :
                s < ExtentOf(disk[p], hdr[p]).start + written[p] => cache[disk[p]][s] = p
            /\ pc[p] # "write" => written[p] = SlotsNeeded(hdr[p].size)

IInv ==
    /\ TypeOK
    /\ ObjectsInv
    /\ CallsInv
    /\ GateInv
    /\ DownInv
    /\ TailInv
    /\ IndexInv
    /\ PendingInv
    /\ HomesInv
    /\ FreshInv
    /\ SpaceInv
    /\ BytesInv

-----------------------------------------------------------------------------
(* Facts about the operators.                                              *)

\* An object has the names, the place and the references of its header.
LEMMA ObjFacts ==
    ASSUME NEW p \in Puts
    PROVE  /\ Obj(p).by = p
           /\ Obj(p).fid = hdr[p].fid
           /\ Obj(p).size = hdr[p].size
           /\ Obj(p).alias = hdr[p].alias
           /\ Names(Obj(p)) = Names(hdr[p])
           /\ \A d : ExtentOf(d, Obj(p)) = ExtentOf(d, hdr[p])
           /\ \A d : SlotsOf(d, Obj(p)) = SlotsOf(d, hdr[p])
           /\ \A f : RefFor(f, Obj(p)) = RefFor(f, hdr[p])
  BY DEF Obj, Object, Names, ExtentOf, SlotsOf, RefFor


\* A placed extent is a nonempty range of slots of the grid.
LEMMA ExtentFacts ==
    ASSUME NEW d \in Disks, NEW h, h.fid \in Nat, h.size \in Nat,
           AddrOK(d, h.fid, h.size)
    PROVE  /\ SlotsNeeded(h.size) \in Nat \ {0}
           /\ ExtentOf(d, h).start \in Nat
           /\ ExtentOf(d, h).end \in Nat
           /\ ExtentOf(d, h).end = ExtentOf(d, h).start + SlotsNeeded(h.size) - 1
           /\ ExtentOf(d, h).start <= ExtentOf(d, h).end
           /\ ExtentOf(d, h).end < Slots[d]
           /\ ExtentOf(d, h) \in Intervals
           /\ SlotsOf(d, h) \subseteq GridSlots(d)
  <1>1. SlotSize \in Nat \ {0} /\ Slots[d] \in Nat \ {0}
    BY DiskAssumption
  <1>2. SlotsNeeded(h.size) \in Nat \ {0}
    <2>1. (h.size + SlotSize - 1) \div SlotSize \in Nat
      BY <1>1
    <2> QED BY <2>1 DEF AddrOK, SlotsNeeded
  <1>3. SlotsNeeded(h.size) <= Slots[d]
    BY DEF AddrOK
  <1>4. SlotIndex(d, h.fid, h.size) \in Nat
    <2>1. Slots[d] - SlotsNeeded(h.size) + 1 \in Nat \ {0}
      BY <1>1, <1>2, <1>3
    <2>2. \A n \in Nat \ {0} : h.fid % n \in Nat
      OBVIOUS
    <2> QED BY <2>1, <2>2 DEF SlotIndex
  <1>5. SlotIndex(d, h.fid, h.size) + SlotsNeeded(h.size) <= Slots[d]
    BY DEF AddrOK
  <1> QED
    BY <1>1, <1>2, <1>4, <1>5 DEF ExtentOf, Extent, Intervals, SlotsOf, GridSlots

\* Extents that do not overlap share no slot.
LEMMA DisjointSlots ==
    ASSUME NEW d \in Disks, NEW g, NEW h,
           ExtentOf(d, g) \in Intervals, ExtentOf(d, h) \in Intervals
    PROVE  /\ Disjoint(d, g, h) <=> Disjoint(d, h, g)
           /\ Disjoint(d, g, h) => SlotsOf(d, g) \cap SlotsOf(d, h) = {}
           /\ Disjoint(d, g, h) /\ ExtentOf(d, g).start <= ExtentOf(d, g).end
                => ExtentOf(d, g) # ExtentOf(d, h)
  BY DEF Disjoint, Overlaps, SlotsOf, Intervals

\* What the invariant says about the header of a call.
LEMMA HeaderFacts ==
    ASSUME TypeOK, NEW p \in Puts
    PROVE  /\ hdr[p] \in Headers
           /\ hdr[p].fid \in Nat /\ hdr[p].size \in Nat /\ hdr[p].alias \in Nat
           /\ hdr[p].fid \in Names(hdr[p])
           /\ Names(hdr[p]) \subseteq AllNames
           /\ Obj(p) \in Objects
  BY HeadersAssumption DEF TypeOK, Names, AllNames, Objects, Obj

\* The names, the place and the owner of an object on a disk.
LEMMA OnDiskFacts ==
    ASSUME IInv, NEW d \in Disks, NEW o \in OnDisk(d)
    PROVE  /\ o.by \in Puts
           /\ o = Obj(o.by)
           /\ Names(o) = Names(hdr[o.by])
           /\ ExtentOf(d, o) = ExtentOf(d, hdr[o.by])
           /\ SlotsOf(d, o) = SlotsOf(d, hdr[o.by])
           /\ ExtentOf(d, o) \in Intervals
           /\ ExtentOf(d, o).start <= ExtentOf(d, o).end
           /\ SlotsOf(d, o) \subseteq GridSlots(d)
           /\ Names(o) \subseteq AllNames
           /\ o.fid \in Names(o)
  <1>1. /\ o.by \in Puts /\ o = Obj(o.by)
        /\ AddrOK(d, hdr[o.by].fid, hdr[o.by].size)
    BY DEF IInv, ObjectsInv, GoodObject
  <1>2. /\ Names(o) = Names(hdr[o.by])
        /\ o.fid = hdr[o.by].fid
        /\ ExtentOf(d, o) = ExtentOf(d, hdr[o.by])
        /\ SlotsOf(d, o) = SlotsOf(d, hdr[o.by])
    BY <1>1, ObjFacts
  <1> QED
    BY <1>1, <1>2, ExtentFacts, HeaderFacts DEF IInv

\* The place of a call that holds an extent.
LEMMA HolderFacts ==
    ASSUME IInv, NEW d \in Disks, NEW p \in Holders(d)
    PROVE  /\ p \in Puts /\ disk[p] = d
           /\ AddrOK(d, hdr[p].fid, hdr[p].size)
           /\ ExtentOf(d, hdr[p]) \in Intervals
           /\ ExtentOf(d, hdr[p]).start <= ExtentOf(d, hdr[p]).end
           /\ SlotsOf(d, hdr[p]) \subseteq GridSlots(d)
  <1>1. /\ p \in Puts /\ disk[p] = d
        /\ AddrOK(d, hdr[p].fid, hdr[p].size)
    BY DEF IInv, CallsInv, Holders, Holding
  <1> QED
    BY <1>1, ExtentFacts, HeaderFacts DEF IInv

\* Owners of appends in doubt on a disk in service are calls inside Commit.
LEMMA TailFacts ==
    ASSUME IInv, NEW d \in Disks, ~indexErr[d], NEW o \in tail[d]
    PROVE  /\ o.by \in Puts /\ pc[o.by] = "syncing" /\ disk[o.by] = d
           /\ o.by \in Holders(d)
           /\ Names(o) = Names(hdr[o.by])
           /\ Names(o) \subseteq gate
  <1>1. pc[o.by] = "syncing" /\ disk[o.by] = d
    BY DEF IInv, TailInv
  <1>2. o.by \in Puts /\ Names(o) = Names(hdr[o.by])
    BY OnDiskFacts DEF OnDisk
  <1>3. Names(o) \subseteq gate
    BY <1>1, <1>2 DEF IInv, GateInv, InFlight
  <1> QED
    BY <1>1, <1>2, <1>3 DEF Holders

-----------------------------------------------------------------------------
(* Steps that only move a handler on.                                      *)

\* The moves of a handler that touch neither a table nor a disk.
QuietMoves == {<<"idle", "done">>, <<"select", "prepare">>, <<"select", "release">>,
               <<"prepare", "release">>, <<"write", "commit">>, <<"write", "abort">>,
               <<"commit", "abort">>, <<"respond", "release">>}

Quiet(p, l) ==
    /\ UNCHANGED <<hdr, written, memVars, diskVars, up, crashes>>
    /\ Goto(p, l)
    /\ <<pc[p], l>> \in QuietMoves
    /\ l = "commit" => written[p] = SlotsNeeded(hdr[p].size)
    /\ disk' \in [Puts -> Disks]
    /\ \A q \in Puts : disk'[q] = disk[q] \/ (q = p /\ pc[p] = "select")
    /\ res' \in [Puts -> Codes]
    /\ \A q \in Puts : res'[q] = "ok" => res[q] = "ok" \/ (q = p /\ pc[p] = "respond")

\* A quiet step preserves the invariant.
LEMMA QuietInv ==
    ASSUME IInv, NEW p \in Puts, NEW l, Quiet(p, l)
    PROVE  IInv'
  <1>u. /\ hdr' = hdr /\ written' = written /\ gate' = gate
        /\ pendingIntervals' = pendingIntervals /\ intervals' = intervals
        /\ confirmed' = confirmed /\ indexErr' = indexErr
        /\ cut' = cut /\ log' = log /\ tail' = tail /\ cache' = cache /\ media' = media
        /\ up' = up /\ crashes' = crashes
    BY DEF Quiet, memVars, diskVars
  <1>m. /\ <<pc[p], l>> \in QuietMoves
        /\ l \in PCs
        /\ pc' = [pc EXCEPT ![p] = l]
        /\ l = "commit" => written[p] = SlotsNeeded(hdr[p].size)
    BY DEF Quiet, Goto, QuietMoves, PCs
  <1>d. /\ disk' \in [Puts -> Disks]
        /\ \A q \in Puts : disk'[q] = disk[q] \/ (q = p /\ pc[p] = "select")
    BY DEF Quiet
  <1>r. /\ res' \in [Puts -> Codes]
        /\ \A q \in Puts : res'[q] = "ok" => res[q] = "ok" \/ (q = p /\ pc[p] = "respond")
    BY DEF Quiet
  <1>t. TypeOK'
    BY <1>u, <1>m, <1>d, <1>r DEF IInv, TypeOK
  <1>q. \A q \in Puts :
        /\ q # p => pc'[q] = pc[q] /\ disk'[q] = disk[q]
        /\ pc[q] = "syncing" <=> pc'[q] = "syncing"
        /\ InFlight(q)' <=> InFlight(q)
        /\ Holding(q)' <=> Holding(q)
        /\ Uncommitted(q)' => Uncommitted(q)
        /\ Unpublished(q)' => Unpublished(q)
        /\ Holding(q) => disk'[q] = disk[q]
        /\ pc'[q] = "respond" => pc[q] = "respond" /\ disk'[q] = disk[q]
        /\ pc'[q] = "write" => pc[q] = "write"
        /\ pc'[q] = "commit" => pc[q] = "commit" \/ (pc[q] = "write" /\ written[q] = SlotsNeeded(hdr[q].size))
    <2>1. /\ pc'[p] = l
          /\ \A q \in Puts : q # p => pc'[q] = pc[q] /\ disk'[q] = disk[q]
      BY <1>m, <1>d DEF IInv, TypeOK
    <2>2. \/ pc[p] = "idle" /\ l = "done"
          \/ pc[p] = "select" /\ l \in {"prepare", "release"}
          \/ pc[p] \in {"prepare", "respond"} /\ l = "release"
          \/ pc[p] = "write" /\ l \in {"commit", "abort"}
          \/ pc[p] = "commit" /\ l = "abort"
      BY <1>m DEF QuietMoves
    <2> QED
      BY <1>m, <1>d, <2>1, <2>2 DEF InFlight, Holding, Uncommitted, Unpublished
  <1>h. \A d \in Disks : Holders(d)' = Holders(d)
    BY <1>q DEF Holders, Holding
  <1>1. ObjectsInv'
    BY <1>u DEF IInv, ObjectsInv, OnDisk, GoodObject, Obj
  <1>2. CallsInv'
    BY <1>u, <1>q, <1>r, <1>m DEF IInv, TypeOK, CallsInv, Obj, QuietMoves
  <1>3. GateInv'
    BY <1>u, <1>q DEF IInv, GateInv
  <1>4. DownInv'
    BY <1>u, <1>q DEF IInv, DownInv
  <1>5. TailInv'
    BY <1>u, <1>q DEF IInv, TailInv, ObjectsInv, OnDisk, GoodObject, Holding, Obj
  <1>6. IndexInv'
    BY <1>u DEF IInv, IndexInv
  <1>7. PendingInv'
    BY <1>u, <1>h DEF IInv, PendingInv
  <1>8. HomesInv'
    BY <1>u DEF IInv, HomesInv, OnDisk
  <1>9. FreshInv'
    BY <1>u, <1>q DEF IInv, FreshInv, Holding
  <1>10. SpaceInv'
    BY <1>u, <1>h DEF IInv, SpaceInv, OnDisk
  <1>11. BytesInv'
    BY <1>u, <1>q DEF IInv, BytesInv, OnDisk, Holding
  <1> QED
    BY <1>t, <1>1, <1>2, <1>3, <1>4, <1>5, <1>6, <1>7, <1>8, <1>9, <1>10, <1>11 DEF IInv

QuietActions(p) ==
    \/ RejectHeader(p) \/ ReserveConflict(p) \/ ReserveError(p)
    \/ SelectDisk(p) \/ SelectNone(p) \/ PrepareConflict(p) \/ PrepareError(p)
    \/ WriteDone(p) \/ WriteFail(p) \/ CommitRefused(p) \/ Respond(p)

\* The refusals, the disk choice, the failed write and the answer are quiet.
LEMMA QuietActionsInv ==
    ASSUME IInv, NEW p \in Puts, QuietActions(p)
    PROVE  IInv'
  <1> USE DEF IInv, TypeOK, Quiet, QuietMoves, Goto, Answer, Codes
  <1>1. CASE RejectHeader(p)
    <2> Quiet(p, "done") BY <1>1 DEF RejectHeader
    <2> QED BY QuietInv
  <1>2. CASE ReserveConflict(p)
    <2> Quiet(p, "done") BY <1>2 DEF ReserveConflict
    <2> QED BY QuietInv
  <1>3. CASE ReserveError(p)
    <2> Quiet(p, "done") BY <1>3 DEF ReserveError
    <2> QED BY QuietInv
  <1>4. CASE SelectDisk(p)
    <2> Quiet(p, "prepare") BY <1>4 DEF SelectDisk
    <2> QED BY QuietInv
  <1>5. CASE SelectNone(p)
    <2> Quiet(p, "release") BY <1>5 DEF SelectNone
    <2> QED BY QuietInv
  <1>6. CASE PrepareConflict(p)
    <2> Quiet(p, "release") BY <1>6 DEF PrepareConflict
    <2> QED BY QuietInv
  <1>7. CASE PrepareError(p)
    <2> Quiet(p, "release") BY <1>7 DEF PrepareError
    <2> QED BY QuietInv
  <1>8. CASE WriteDone(p)
    <2> Quiet(p, "commit") BY <1>8 DEF WriteDone
    <2> QED BY QuietInv
  <1>9. CASE WriteFail(p)
    <2> Quiet(p, "abort") BY <1>9 DEF WriteFail
    <2> QED BY QuietInv
  <1>10. CASE CommitRefused(p)
    <2> Quiet(p, "abort") BY <1>10 DEF CommitRefused
    <2> QED BY QuietInv
  <1>11. CASE Respond(p)
    <2> Quiet(p, "release") BY <1>11 DEF Respond
    <2> QED BY QuietInv
  <1> QED
    BY <1>1, <1>2, <1>3, <1>4, <1>5, <1>6, <1>7, <1>8, <1>9, <1>10, <1>11 DEF QuietActions

-----------------------------------------------------------------------------
(* One lemma per action that changes a table or a disk.                    *)

\* Reserve: the names that enter the gate are pending nowhere and on no disk.
LEMMA ReserveInv ==
    ASSUME IInv, NEW p \in Puts, Reserve(p)
    PROVE  IInv'
  <1>u. /\ hdr' = hdr /\ res' = res /\ disk' = disk /\ written' = written
        /\ pendingIntervals' = pendingIntervals /\ intervals' = intervals
        /\ confirmed' = confirmed /\ indexErr' = indexErr
        /\ cut' = cut /\ log' = log /\ tail' = tail /\ cache' = cache /\ media' = media
        /\ up' = up /\ crashes' = crashes
    BY DEF Reserve, diskVars
  <1>m. /\ up /\ pc[p] = "idle" /\ ValidHeader(hdr[p]) /\ GateFree(hdr[p])
        /\ gate' = gate \cup Names(hdr[p])
        /\ pc' = [pc EXCEPT ![p] = "select"]
    BY DEF Reserve, Goto
  <1>q. /\ pc'[p] = "select"
        /\ \A q \in Puts : q # p => pc'[q] = pc[q]
    BY <1>m DEF IInv, TypeOK
  <1>h. \A d \in Disks : Holders(d)' = Holders(d)
    BY <1>u, <1>q, <1>m DEF Holders
  <1>t. TypeOK'
    BY <1>u, <1>m, HeaderFacts DEF IInv, TypeOK, PCs
  <1>1. ObjectsInv'
    BY <1>u DEF IInv, ObjectsInv, OnDisk, GoodObject, Obj
  <1>2. CallsInv'
    BY <1>u, <1>q, <1>m DEF IInv, CallsInv, Obj, InFlight, Holding
  <1>3. GateInv'
    BY <1>u, <1>q, <1>m DEF IInv, GateInv, InFlight, GateFree
  <1>4. DownInv'
    BY <1>u, <1>m DEF DownInv
  <1>5. TailInv'
    BY <1>u, <1>q, <1>m DEF IInv, TailInv, ObjectsInv, OnDisk, GoodObject, Obj
  <1>6. IndexInv'
    BY <1>u DEF IInv, IndexInv
  <1>7. PendingInv'
    BY <1>u, <1>h DEF IInv, PendingInv
  <1>8. HomesInv'
    BY <1>u DEF IInv, HomesInv, OnDisk
  <1>9. FreshInv'
    <2>1. ASSUME NEW d \in Disks, NEW o \in log[d]
          PROVE  Names(o) \cap Names(hdr[p]) = {}
      <3>1. \A f \in Names(hdr[p]) : confirmed[d][f] = NoRef
        BY <1>m DEF GateFree, Found, SomeFault
      <3> QED
        BY <1>m, <3>1, HeaderFacts DEF IInv, IndexInv
    <2>2. ASSUME NEW d \in Disks, NEW o \in tail[d]
          PROVE  Names(o) \cap Names(hdr[p]) = {}
      BY <1>m, TailFacts DEF GateFree, SomeFault
    <2> QED
      BY <1>u, <1>q, <1>m, <2>1, <2>2 DEF IInv, FreshInv, Uncommitted, Unpublished
  <1>10. SpaceInv'
    BY <1>u, <1>h DEF IInv, SpaceInv, OnDisk
  <1>11. BytesInv'
    BY <1>u, <1>q DEF IInv, BytesInv, OnDisk
  <1> QED
    BY <1>t, <1>1, <1>2, <1>3, <1>4, <1>5, <1>6, <1>7, <1>8, <1>9, <1>10, <1>11 DEF IInv

\* PrepareWrite: the reserved extent overlaps nothing on the disk and nothing
\* in flight, because both tables were consulted.
LEMMA PrepareWriteInv ==
    ASSUME IInv, NEW p \in Puts, PrepareWrite(p)
    PROVE  IInv'
  <1> DEFINE d == disk[p]
             iv == ExtentOf(d, hdr[p])
  <1>u. /\ hdr' = hdr /\ res' = res /\ disk' = disk /\ gate' = gate
        /\ intervals' = intervals
        /\ confirmed' = confirmed /\ indexErr' = indexErr
        /\ cut' = cut /\ log' = log /\ tail' = tail /\ cache' = cache /\ media' = media
        /\ up' = up /\ crashes' = crashes
    BY DEF PrepareWrite, diskVars
  <1>m. /\ up /\ pc[p] = "prepare" /\ ~indexErr[d] /\ ExtentFree(d, iv)
        /\ AddrOK(d, hdr[p].fid, hdr[p].size)
        /\ pendingIntervals' = [pendingIntervals EXCEPT ![d] = @ \cup {iv}]
        /\ written' = [written EXCEPT ![p] = 0]
        /\ pc' = [pc EXCEPT ![p] = "write"]
    BY DEF PrepareWrite, Goto
  <1>q. /\ pc'[p] = "write" /\ written'[p] = 0
        /\ \A q \in Puts : q # p => pc'[q] = pc[q] /\ written'[q] = written[q]
    BY <1>m DEF IInv, TypeOK
  <1>d. d \in Disks
    BY DEF IInv, TypeOK
  <1>i. iv \in Intervals /\ iv.start \in Nat /\ iv.start <= iv.end
    BY <1>d, <1>m, ExtentFacts, HeaderFacts DEF IInv
  <1>h. /\ Holders(d)' = Holders(d) \cup {p}
        /\ \A e \in Disks : e # d => Holders(e)' = Holders(e)
    BY <1>u, <1>q, <1>m DEF Holders
  <1>t. TypeOK'
    BY <1>u, <1>m, <1>d, <1>i DEF IInv, TypeOK, PCs
  <1>1. ObjectsInv'
    BY <1>u DEF IInv, ObjectsInv, OnDisk, GoodObject, Obj
  <1>2. CallsInv'
    BY <1>u, <1>q, <1>m DEF IInv, CallsInv, Obj, InFlight, Holding
  <1>3. GateInv'
    BY <1>u, <1>q, <1>m DEF IInv, GateInv, InFlight
  <1>4. DownInv'
    BY <1>u, <1>m DEF DownInv
  <1>5. TailInv'
    BY <1>u, <1>q, <1>m DEF IInv, TailInv, ObjectsInv, OnDisk, GoodObject, Obj
  <1>6. IndexInv'
    BY <1>u DEF IInv, IndexInv
  <1>7. PendingInv'
    <2>1. pendingIntervals'[d] = pendingIntervals[d] \cup {iv}
      BY <1>m, <1>d DEF IInv, TypeOK
    <2>2. \A e \in Disks : e # d => pendingIntervals'[e] = pendingIntervals[e]
      BY <1>m DEF IInv, TypeOK
    <2> QED
      BY <1>u, <1>h, <2>1, <2>2 DEF IInv, PendingInv
  <1>8. HomesInv'
    BY <1>u DEF IInv, HomesInv, OnDisk
  <1>9. FreshInv'
    BY <1>u, <1>q, <1>m DEF IInv, FreshInv, Uncommitted, Unpublished
  <1>10. SpaceInv'
    <2>1. ASSUME NEW o \in OnDisk(d) PROVE Disjoint(d, o, hdr[p])
      <3>1. CASE o \in log[d]
        BY <1>m, <1>d, <3>1 DEF IInv, IndexInv, ExtentFree, Disjoint
      <3>2. CASE o \in tail[d]
        BY <1>m, <1>d, <3>2, TailFacts, OnDiskFacts
        DEF IInv, PendingInv, ExtentFree, Disjoint, OnDisk
      <3> QED BY <3>1, <3>2 DEF OnDisk
    <2>2. ASSUME NEW q \in Holders(d)
          PROVE  Disjoint(d, hdr[q], hdr[p]) /\ Disjoint(d, hdr[p], hdr[q])
      <3>1. Disjoint(d, hdr[q], hdr[p])
        BY <1>m, <1>d DEF IInv, PendingInv, ExtentFree, Disjoint
      <3> QED
        BY <1>d, <1>i, <3>1, HolderFacts, DisjointSlots
    <2> QED
      BY <1>u, <1>h, <1>d, <2>1, <2>2 DEF IInv, SpaceInv, OnDisk, Disjoint
  <1>11. BytesInv'
    <2>1. \A s \in SlotsOf(d, hdr[p]) : ~(s < iv.start + 0)
      BY <1>i DEF SlotsOf, Intervals
    <2> QED
      BY <1>u, <1>q, <2>1 DEF IInv, BytesInv, OnDisk
  <1> QED
    BY <1>t, <1>1, <1>2, <1>3, <1>4, <1>5, <1>6, <1>7, <1>8, <1>9, <1>10, <1>11 DEF IInv


\* WriteSlot: the slot written belongs to the writer's own extent.
LEMMA WriteSlotInv ==
    ASSUME IInv, NEW p \in Puts, WriteSlot(p)
    PROVE  IInv'
  <1> DEFINE d == disk[p]
             s == ExtentOf(d, hdr[p]).start + written[p]
  <1>u. /\ hdr' = hdr /\ pc' = pc /\ res' = res /\ disk' = disk /\ gate' = gate
        /\ pendingIntervals' = pendingIntervals /\ intervals' = intervals
        /\ confirmed' = confirmed /\ indexErr' = indexErr
        /\ cut' = cut /\ log' = log /\ tail' = tail /\ media' = media
        /\ up' = up /\ crashes' = crashes
    BY DEF WriteSlot, memVars
  <1>m. /\ up /\ pc[p] = "write" /\ written[p] < SlotsNeeded(hdr[p].size)
        /\ cache' = [cache EXCEPT ![d][s] = p]
        /\ written' = [written EXCEPT ![p] = @ + 1]
    BY DEF WriteSlot
  <1>d. d \in Disks /\ p \in Holders(d)
    BY <1>m DEF IInv, TypeOK, Holders
  <1>w. /\ written[p] \in Nat
        /\ written'[p] = written[p] + 1
        /\ \A q \in Puts : q # p => written'[q] = written[q]
    BY <1>m DEF IInv, TypeOK
  <1>s. s \in SlotsOf(d, hdr[p]) /\ s \in GridSlots(d)
    <2>1. /\ ExtentOf(d, hdr[p]).start \in Nat
          /\ SlotsNeeded(hdr[p].size) \in Nat
          /\ ExtentOf(d, hdr[p]).end = ExtentOf(d, hdr[p]).start + SlotsNeeded(hdr[p].size) - 1
          /\ SlotsOf(d, hdr[p]) \subseteq GridSlots(d)
      BY <1>d, HolderFacts, HeaderFacts, ExtentFacts DEF IInv
    <2>2. s \in SlotsOf(d, hdr[p])
      BY <2>1, <1>w, <1>m DEF SlotsOf
    <2> QED BY <2>1, <2>2
  <1>c. /\ cache'[d] = [cache[d] EXCEPT ![s] = p]
        /\ cache'[d][s] = p
        /\ \A e \in Disks : e # d => cache'[e] = cache[e]
        /\ \A i \in GridSlots(d) : i # s => cache'[d][i] = cache[d][i]
    BY <1>m, <1>d, <1>s DEF IInv, TypeOK, Contents
  <1>h. \A e \in Disks : Holders(e)' = Holders(e)
    BY <1>u DEF Holders
  <1>t. TypeOK'
    <2>1. cache'[d] \in Contents(d)
      <3>1. cache[d] \in [GridSlots(d) -> Puts \cup {Blank}]
        BY <1>d DEF IInv, TypeOK, Contents
      <3> QED BY <1>c, <3>1 DEF Contents
    <2>2. \A e \in Disks : cache'[e] \in Contents(e)
      BY <1>c, <2>1 DEF IInv, TypeOK
    <2>3. cache' = [e \in Disks |-> cache'[e]]
      <3>1. cache \in [Disks -> UNION {Contents(e) : e \in Disks}]
        BY DEF IInv, TypeOK
      <3> QED BY <1>m, <3>1
    <2>4. cache' \in [Disks -> UNION {Contents(e) : e \in Disks}]
      BY <2>2, <2>3
    <2>5. written' \in [Puts -> Nat]
      <3>1. written \in [Puts -> Nat]
        BY DEF IInv, TypeOK
      <3> QED BY <1>m, <1>w, <3>1
    <2> QED
      BY <1>u, <2>2, <2>4, <2>5 DEF IInv, TypeOK
  <1>1. ObjectsInv'
    BY <1>u DEF IInv, ObjectsInv, OnDisk, GoodObject, Obj
  <1>2. CallsInv'
    BY <1>u DEF IInv, CallsInv, Obj, InFlight, Holding
  <1>3. GateInv'
    BY <1>u DEF IInv, GateInv, InFlight
  <1>4. DownInv'
    BY <1>u, <1>m DEF DownInv
  <1>5. TailInv'
    BY <1>u DEF IInv, TailInv, Obj
  <1>6. IndexInv'
    BY <1>u DEF IInv, IndexInv
  <1>7. PendingInv'
    BY <1>u, <1>h DEF IInv, PendingInv
  <1>8. HomesInv'
    BY <1>u DEF IInv, HomesInv, OnDisk
  <1>9. FreshInv'
    BY <1>u DEF IInv, FreshInv, Uncommitted, Unpublished
  <1>10. SpaceInv'
    BY <1>u, <1>h DEF IInv, SpaceInv, OnDisk
  <1>11. BytesInv'
    <2>1. ASSUME NEW e \in Disks, NEW o \in OnDisk(e), NEW i \in SlotsOf(e, o)
          PROVE  cache'[e][i] = cache[e][i]
      <3>1. CASE e # d
        BY <1>c, <3>1
      <3>2. CASE e = d
        <4>1. o.by # p
          <5>1. SUFFICES ASSUME o.by = p PROVE FALSE
            OBVIOUS
          <5>2. o.fid \in Names(o) \cap Names(hdr[p])
            BY <5>1, <3>2, OnDiskFacts
          <5> QED
            BY <1>m, <3>2, <5>2 DEF IInv, FreshInv, Uncommitted, Unpublished, OnDisk
        <4>2. Disjoint(d, o, hdr[p])
          BY <1>d, <3>2, <4>1 DEF IInv, SpaceInv
        <4>3. SlotsOf(d, o) \cap SlotsOf(d, hdr[p]) = {}
          BY <1>d, <3>2, <4>2, OnDiskFacts, HolderFacts, DisjointSlots
        <4> QED
          BY <1>c, <1>s, <3>2, <4>3, OnDiskFacts
      <3> QED BY <3>1, <3>2
    <2>2. ASSUME NEW q \in Puts, q # p, pc[q] \in {"write", "commit", "syncing"},
                 NEW i \in SlotsOf(disk[q], hdr[q])
          PROVE  cache'[disk[q]][i] = cache[disk[q]][i]
      <3>1. disk[q] \in Disks /\ q \in Holders(disk[q])
        BY <2>2 DEF IInv, TypeOK, Holders
      <3>2. CASE disk[q] # d
        BY <1>c, <3>1, <3>2
      <3>3. CASE disk[q] = d
        <4>1. Disjoint(d, hdr[q], hdr[p])
          BY <1>d, <2>2, <3>1, <3>3 DEF IInv, SpaceInv
        <4>2. SlotsOf(d, hdr[q]) \cap SlotsOf(d, hdr[p]) = {}
          BY <1>d, <3>1, <3>3, <4>1, HolderFacts, DisjointSlots
        <4> QED
          BY <1>c, <1>s, <3>1, <3>3, <4>2, HolderFacts
      <3> QED BY <3>2, <3>3
    <2>3. ASSUME NEW i \in SlotsOf(d, hdr[p]),
                 i < ExtentOf(d, hdr[p]).start + written'[p]
          PROVE  cache'[d][i] = p
      <3>1. i \in GridSlots(d) /\ i \in Int /\ ExtentOf(d, hdr[p]).start \in Nat
        BY <1>d, HolderFacts DEF GridSlots, Intervals
      <3>2. i = s \/ i < s
        BY <1>w, <2>3, <3>1
      <3> QED
        BY <1>c, <1>d, <1>m, <3>1, <3>2 DEF IInv, BytesInv
    <2>4. \A e \in Disks : \A o \in OnDisk(e)' : \A i \in SlotsOf(e, o)' :
              cache'[e][i] = o.by /\ media'[e][i] = o.by
      BY <1>u, <2>1 DEF IInv, BytesInv, OnDisk
    <2>5. ASSUME NEW q \in Puts, q # p, pc[q] \in {"write", "commit", "syncing"}
          PROVE  /\ \A i \in SlotsOf(disk[q], hdr[q]) :
                       i < ExtentOf(disk[q], hdr[q]).start + written'[q] => cache'[disk[q]][i] = q
                 /\ pc[q] # "write" => written'[q] = SlotsNeeded(hdr[q].size)
      BY <1>w, <2>2, <2>5 DEF IInv, BytesInv
    <2> QED
      BY <1>u, <1>m, <2>3, <2>4, <2>5 DEF BytesInv
  <1> QED
    BY <1>t, <1>1, <1>2, <1>3, <1>4, <1>5, <1>6, <1>7, <1>8, <1>9, <1>10, <1>11 DEF IInv


\* CommitWrite: the payload is whole and durable before its entry is written,
\* and no other append of the disk is in doubt.
LEMMA CommitWriteInv ==
    ASSUME IInv, NEW p \in Puts, CommitWrite(p)
    PROVE  IInv'
  <1> DEFINE d == disk[p]
  <1>u. /\ hdr' = hdr /\ res' = res /\ disk' = disk /\ written' = written
        /\ gate' = gate
        /\ pendingIntervals' = pendingIntervals /\ intervals' = intervals
        /\ confirmed' = confirmed /\ indexErr' = indexErr
        /\ cut' = cut /\ log' = log /\ cache' = cache
        /\ up' = up /\ crashes' = crashes
    BY DEF CommitWrite, memVars
  <1>m. /\ up /\ pc[p] = "commit" /\ MuFree(d) /\ ~indexErr[d]
        /\ media' = [media EXCEPT ![d] = cache[d]]
        /\ tail' = [tail EXCEPT ![d] = {Obj(p)}]
        /\ pc' = [pc EXCEPT ![p] = "syncing"]
    BY DEF CommitWrite, Goto, SyncPayload
  <1>d. d \in Disks /\ p \in Holders(d)
    BY <1>m DEF IInv, TypeOK, Holders
  <1>q. /\ pc'[p] = "syncing"
        /\ \A q \in Puts : q # p => pc'[q] = pc[q]
    BY <1>m DEF IInv, TypeOK
  <1>e. tail[d] = {}
    BY <1>m, <1>d, TailFacts DEF MuFree
  <1>l. /\ tail'[d] = {Obj(p)}
        /\ \A e \in Disks : e # d => tail'[e] = tail[e]
        /\ media'[d] = cache[d]
        /\ \A e \in Disks : e # d => media'[e] = media[e]
    BY <1>m, <1>d DEF IInv, TypeOK
  <1>o. /\ OnDisk(d)' = OnDisk(d) \cup {Obj(p)}
        /\ \A e \in Disks : e # d => OnDisk(e)' = OnDisk(e)
    BY <1>u, <1>l, <1>e DEF OnDisk
  <1>h. \A e \in Disks : Holders(e)' = Holders(e)
    BY <1>u, <1>q, <1>m DEF Holders
  <1>t. TypeOK'
    <2>1. media' \in [Disks -> UNION {Contents(e) : e \in Disks}]
      BY <1>m, <1>d DEF IInv, TypeOK
    <2>2. \A e \in Disks : media'[e] \in Contents(e)
      BY <1>l DEF IInv, TypeOK
    <2>3. tail' \in [Disks -> SUBSET Objects]
      BY <1>m, HeaderFacts DEF IInv, TypeOK
    <2>4. pc' \in [Puts -> PCs]
      BY <1>m DEF IInv, TypeOK, PCs
    <2> QED
      BY <1>u, <2>1, <2>2, <2>3, <2>4 DEF IInv, TypeOK
  <1>1. ObjectsInv'
    <2>1. GoodObject(d, Obj(p))
      BY <1>d, <1>m, ObjFacts, HolderFacts DEF IInv, CallsInv, InFlight, GoodObject
    <2> QED
      BY <1>u, <1>o, <2>1 DEF IInv, ObjectsInv, GoodObject, Obj
  <1>2. CallsInv'
    BY <1>u, <1>q, <1>m DEF IInv, CallsInv, Obj, InFlight, Holding
  <1>3. GateInv'
    BY <1>u, <1>q, <1>m DEF IInv, GateInv, InFlight
  <1>4. DownInv'
    BY <1>u, <1>m DEF DownInv
  <1>5. TailInv'
    <2>1. \A e \in Disks : \A o \in tail'[e] :
            indexErr[e] \/ (pc'[o.by] = "syncing" /\ disk[o.by] = e)
      BY <1>l, <1>q, <1>m, ObjFacts DEF IInv, TailInv, ObjectsInv, OnDisk, GoodObject
    <2>2. \A q \in Puts : pc'[q] = "syncing" =>
            tail'[disk[q]] = {Obj(q)} /\ ~indexErr[disk[q]]
      BY <1>l, <1>q, <1>m DEF IInv, TypeOK, TailInv, MuFree
    <2>3. \A e \in Disks : \A x, y \in tail'[e] : x = y
      BY <1>l DEF IInv, TailInv
    <2> QED
      BY <1>u, <2>1, <2>2, <2>3 DEF TailInv, Obj
  <1>6. IndexInv'
    BY <1>u DEF IInv, IndexInv
  <1>7. PendingInv'
    BY <1>u, <1>h DEF IInv, PendingInv
  <1>8. HomesInv'
    <2>1. ASSUME NEW e \in Disks, NEW x \in OnDisk(e)
          PROVE  Names(x) \cap Names(Obj(p)) = {}
      BY <1>m, ObjFacts DEF IInv, FreshInv, Uncommitted, Unpublished, OnDisk
    <2>2. ASSUME NEW e \in Disks, NEW x \in OnDisk(e)'
          PROVE  x \in OnDisk(e) \/ (x = Obj(p) /\ e = d)
      BY <1>o, <1>u DEF OnDisk
    <2>3. \A e, g \in Disks : \A x \in OnDisk(e), y \in OnDisk(g) :
            x # y \/ e # g => Names(x) \cap Names(y) = {}
      BY DEF IInv, HomesInv
    <2> QED
      BY <2>1, <2>2, <2>3 DEF HomesInv
  <1>9. FreshInv'
    <2>1. \A q \in Puts : q # p /\ InFlight(q) => Names(Obj(p)) \cap Names(hdr[q]) = {}
      BY <1>m, ObjFacts DEF IInv, GateInv, InFlight
    <2>2. ASSUME NEW q \in Puts, NEW e \in Disks
          PROVE  /\ Unpublished(q)' => \A o \in log[e] : Names(o) \cap Names(hdr[q]) = {}
                 /\ Uncommitted(q)' => \A o \in tail'[e] :
                      \/ o.by = q /\ e = disk[q] /\ pc'[q] = "syncing"
                      \/ Names(o) \cap Names(hdr[q]) = {}
      <3>1. CASE q = p
        BY <1>l, <1>q, <1>m, <3>1, ObjFacts DEF IInv, FreshInv, Uncommitted, Unpublished
      <3>2. CASE q # p
        BY <1>l, <1>q, <2>1, <3>2 DEF IInv, FreshInv, Uncommitted, Unpublished, InFlight
      <3> QED BY <3>1, <3>2
    <2> QED
      BY <1>u, <2>2 DEF FreshInv
  <1>10. SpaceInv'
    <2>1. ExtentOf(d, Obj(p)) = ExtentOf(d, hdr[p]) /\ Obj(p).by = p
      BY ObjFacts
    <2>2. ASSUME NEW o \in OnDisk(d), o # Obj(p)
          PROVE  Disjoint(d, o, Obj(p)) /\ Disjoint(d, Obj(p), o)
      <3>1. o.by # p
        BY <1>d, <2>2, OnDiskFacts
      <3>2. Disjoint(d, o, hdr[p])
        BY <1>d, <3>1 DEF IInv, SpaceInv
      <3>3. Disjoint(d, hdr[p], o)
        BY <1>d, <3>2, OnDiskFacts, HolderFacts, DisjointSlots
      <3> QED
        BY <2>1, <3>2, <3>3 DEF Disjoint
    <2>3. ASSUME NEW q \in Holders(d), q # p
          PROVE  Disjoint(d, Obj(p), hdr[q])
      BY <1>d, <2>1, <2>3 DEF IInv, SpaceInv, Disjoint
    <2> QED
      BY <1>u, <1>o, <1>h, <1>d, <2>1, <2>2, <2>3 DEF IInv, SpaceInv, Disjoint
  <1>11. BytesInv'
    <2>1. ASSUME NEW i \in SlotsOf(d, hdr[p]) PROVE cache[d][i] = p
      <3>1. /\ ExtentOf(d, hdr[p]).start \in Nat /\ SlotsNeeded(hdr[p].size) \in Nat
            /\ ExtentOf(d, hdr[p]).end = ExtentOf(d, hdr[p]).start + SlotsNeeded(hdr[p].size) - 1
        BY <1>d, HolderFacts, HeaderFacts, ExtentFacts DEF IInv
      <3>2. written[p] = SlotsNeeded(hdr[p].size)
        BY <1>m DEF IInv, BytesInv
      <3>3. i < ExtentOf(d, hdr[p]).start + written[p]
        BY <3>1, <3>2 DEF SlotsOf
      <3> QED
        BY <1>m, <3>3 DEF IInv, BytesInv
    <2>2. \A e \in Disks : \A o \in OnDisk(e)' : \A i \in SlotsOf(e, o) :
              cache[e][i] = o.by /\ media'[e][i] = o.by
      <3>1. \A i \in SlotsOf(d, Obj(p)) : cache[d][i] = Obj(p).by /\ media'[d][i] = Obj(p).by
        BY <1>l, <2>1, ObjFacts
      <3>2. \A e \in Disks : \A o \in OnDisk(e) : \A i \in SlotsOf(e, o) :
              cache[e][i] = o.by /\ media'[e][i] = o.by
        BY <1>l DEF IInv, BytesInv
      <3> QED BY <1>o, <1>u, <3>1, <3>2 DEF OnDisk
    <2>3. \A q \in Puts : pc'[q] \in {"write", "commit", "syncing"} =>
            pc[q] \in {"write", "commit", "syncing"} /\ (pc'[q] # "write" => pc[q] # "write")
      BY <1>q, <1>m
    <2> QED
      BY <1>u, <2>2, <2>3 DEF IInv, BytesInv
  <1> QED
    BY <1>t, <1>1, <1>2, <1>3, <1>4, <1>5, <1>6, <1>7, <1>8, <1>9, <1>10, <1>11 DEF IInv


\* CommitPublish: the append in doubt becomes durable and both tables and
\* both names follow in one step.
LEMMA CommitPublishInv ==
    ASSUME IInv, NEW p \in Puts, CommitPublish(p)
    PROVE  IInv'
  <1> DEFINE d == disk[p]
             iv == ExtentOf(d, hdr[p])
  <1>u. /\ hdr' = hdr /\ res' = res /\ disk' = disk /\ written' = written
        /\ gate' = gate /\ indexErr' = indexErr /\ cut' = cut /\ cache' = cache
        /\ up' = up /\ crashes' = crashes
    BY DEF CommitPublish
  <1>m. /\ up /\ pc[p] = "syncing"
        /\ log' = [log EXCEPT ![d] = @ \cup tail[d]]
        /\ tail' = [tail EXCEPT ![d] = {}]
        /\ media' = [media EXCEPT ![d] = cache[d]]
        /\ pendingIntervals' = [pendingIntervals EXCEPT ![d] = @ \ {iv}]
        /\ intervals' = [intervals EXCEPT ![d] = @ \cup {iv}]
        /\ confirmed' = [confirmed EXCEPT ![d] =
             [f \in AllNames |-> IF f \in Names(hdr[p]) THEN RefFor(f, hdr[p]) ELSE @[f]]]
        /\ pc' = [pc EXCEPT ![p] = "respond"]
    BY DEF CommitPublish, Goto
  <1>d. d \in Disks /\ p \in Holders(d) /\ tail[d] = {Obj(p)}
    BY <1>m DEF IInv, TypeOK, Holders, TailInv
  <1>q. /\ pc'[p] = "respond"
        /\ \A q \in Puts : q # p => pc'[q] = pc[q]
    BY <1>m DEF IInv, TypeOK
  <1>l. /\ log'[d] = log[d] \cup {Obj(p)}
        /\ tail'[d] = {}
        /\ media'[d] = cache[d]
        /\ pendingIntervals'[d] = pendingIntervals[d] \ {iv}
        /\ intervals'[d] = intervals[d] \cup {iv}
        /\ confirmed'[d] = [f \in AllNames |-> IF f \in Names(hdr[p]) THEN RefFor(f, hdr[p])
                                               ELSE confirmed[d][f]]
    BY <1>m, <1>d DEF IInv, TypeOK
  <1>n. \A e \in Disks : e # d =>
        /\ log'[e] = log[e] /\ tail'[e] = tail[e] /\ media'[e] = media[e]
        /\ pendingIntervals'[e] = pendingIntervals[e]
        /\ intervals'[e] = intervals[e] /\ confirmed'[e] = confirmed[e]
    BY <1>m DEF IInv, TypeOK
  <1>o. \A e \in Disks : OnDisk(e)' = OnDisk(e)
    BY <1>l, <1>n, <1>d DEF OnDisk
  <1>h. /\ Holders(d)' = Holders(d) \ {p}
        /\ \A e \in Disks : e # d => Holders(e)' = Holders(e)
    BY <1>u, <1>q, <1>m DEF Holders
  <1>f. /\ hdr[p].size >= 2 \/ hdr[p].alias = NoAlias
        /\ hdr[p].size # 0
    BY <1>m DEF IInv, CallsInv, InFlight, ValidHeader
  <1>t. TypeOK'
    <2>1. \A f \in Names(hdr[p]) : RefFor(f, hdr[p]) \in Refs
      BY <1>f, HeaderFacts DEF IInv, RefFor, Refs, Names
    <2>2. confirmed'[d] \in [AllNames -> Refs]
      <3>1. confirmed[d] \in [AllNames -> Refs]
        BY <1>d DEF IInv, TypeOK
      <3> QED BY <1>l, <2>1, <3>1
    <2>3. confirmed' \in [Disks -> [AllNames -> Refs]]
      BY <1>m, <1>l, <1>d, <2>2 DEF IInv, TypeOK
    <2>4. iv \in Intervals
      BY <1>d, HolderFacts
    <2>5. /\ pendingIntervals' \in [Disks -> SUBSET Intervals]
          /\ intervals' \in [Disks -> SUBSET Intervals]
      BY <1>m, <1>d, <2>4 DEF IInv, TypeOK
    <2>6. /\ log' \in [Disks -> SUBSET Objects]
          /\ tail' \in [Disks -> SUBSET Objects]
      BY <1>m, <1>d DEF IInv, TypeOK
    <2>7. /\ media' \in [Disks -> UNION {Contents(e) : e \in Disks}]
          /\ \A e \in Disks : media'[e] \in Contents(e)
      BY <1>m, <1>d DEF IInv, TypeOK
    <2>8. pc' \in [Puts -> PCs]
      BY <1>m DEF IInv, TypeOK, PCs
    <2> QED
      BY <1>u, <2>3, <2>5, <2>6, <2>7, <2>8 DEF IInv, TypeOK
  <1>1. ObjectsInv'
    BY <1>u, <1>o DEF IInv, ObjectsInv, GoodObject, Obj
  <1>2. CallsInv'
    <2>1. \A e \in Disks : log[e] \subseteq log'[e]
      BY <1>l, <1>n
    <2>2. \A q \in Puts : pc'[q] = "respond" => Obj(q) \in log'[disk[q]]
      BY <1>q, <1>l, <2>1 DEF IInv, TypeOK, CallsInv
    <2> QED
      BY <1>u, <1>q, <1>m, <2>1, <2>2 DEF IInv, CallsInv, Obj, InFlight, Holding
  <1>3. GateInv'
    BY <1>u, <1>q, <1>m DEF IInv, GateInv, InFlight
  <1>4. DownInv'
    BY <1>u, <1>m DEF DownInv
  <1>5. TailInv'
    <2>1. \A e \in Disks : \A o \in tail'[e] :
            indexErr[e] \/ (pc'[o.by] = "syncing" /\ disk[o.by] = e)
      BY <1>l, <1>n, <1>q DEF IInv, TailInv, ObjectsInv, OnDisk, GoodObject
    <2>2. \A q \in Puts : pc'[q] = "syncing" => disk[q] # d
      <3> SUFFICES ASSUME NEW q \in Puts, pc'[q] = "syncing", disk[q] = d PROVE FALSE
        OBVIOUS
      <3>1. q # p /\ pc[q] = "syncing"
        BY <1>q
      <3>2. tail[d] = {Obj(q)}
        BY <3>1 DEF IInv, TailInv
      <3> QED
        BY <1>d, <3>1, <3>2, ObjFacts
    <2>3. \A q \in Puts : pc'[q] = "syncing" =>
            tail'[disk[q]] = {Obj(q)} /\ ~indexErr[disk[q]]
      <3> SUFFICES ASSUME NEW q \in Puts, pc'[q] = "syncing"
                   PROVE  tail'[disk[q]] = {Obj(q)} /\ ~indexErr[disk[q]]
        OBVIOUS
      <3>1. pc[q] = "syncing" /\ disk[q] \in Disks /\ disk[q] # d
        BY <1>q, <2>2 DEF IInv, TypeOK
      <3> QED
        BY <1>n, <3>1 DEF IInv, TailInv
    <2>4. \A e \in Disks : \A x, y \in tail'[e] : x = y
      BY <1>l, <1>n DEF IInv, TailInv
    <2> QED
      BY <1>u, <2>1, <2>3, <2>4 DEF TailInv, Obj
  <1>6. IndexInv'
    <2>1. ASSUME NEW f \in AllNames
          PROVE  confirmed'[d][f] = NoRef <=> \A o \in log'[d] : f \notin Names(o)
      <3>1. confirmed[d][f] = NoRef <=> \A o \in log[d] : f \notin Names(o)
        BY <1>m, <1>d DEF IInv, IndexInv
      <3>2. RefFor(f, hdr[p]) # NoRef
        BY <1>f, HeaderFacts DEF RefFor, NoRef, IInv
      <3> QED
        BY <1>l, <3>1, <3>2, ObjFacts
    <2>2. ASSUME NEW o \in log'[d], NEW f \in Names(o)
          PROVE  confirmed'[d][f] = RefFor(f, o)
      <3>1. CASE o = Obj(p)
        BY <1>l, <3>1, ObjFacts, HeaderFacts DEF IInv
      <3>2. CASE o \in log[d]
        <4>1. f \notin Names(hdr[p])
          BY <1>m, <1>d, <3>2 DEF IInv, FreshInv, Uncommitted, Unpublished
        <4>2. f \in AllNames
          BY <1>d, <3>2, OnDiskFacts DEF OnDisk
        <4>3. confirmed[d][f] = RefFor(f, o)
          BY <1>m, <1>d, <3>2 DEF IInv, IndexInv
        <4> QED
          BY <1>l, <4>1, <4>2, <4>3
      <3> QED BY <1>l, <3>1, <3>2
    <2>3. intervals'[d] = {ExtentOf(d, o) : o \in log'[d]}
      <3>1. intervals[d] = {ExtentOf(d, o) : o \in log[d]}
        BY <1>m, <1>d DEF IInv, IndexInv
      <3>2. iv = ExtentOf(d, Obj(p))
        BY ObjFacts
      <3> QED BY <1>l, <3>1, <3>2
    <2>4. ASSUME NEW e \in Disks, e # d
          PROVE  /\ \A f \in AllNames :
                     confirmed'[e][f] = NoRef <=> \A o \in log'[e] : f \notin Names(o)
                 /\ \A o \in log'[e] : \A f \in Names(o) : confirmed'[e][f] = RefFor(f, o)
                 /\ intervals'[e] = {ExtentOf(e, o) : o \in log'[e]}
      BY <1>n, <1>m, <2>4 DEF IInv, IndexInv
    <2> QED
      BY <2>1, <2>2, <2>3, <2>4 DEF IndexInv
  <1>7. PendingInv'
    <2>1. \A q \in Holders(d) : q # p => ExtentOf(d, hdr[q]) # iv
      BY <1>d, HolderFacts, DisjointSlots DEF IInv, SpaceInv
    <2>2. pendingIntervals[d] = {ExtentOf(d, hdr[q]) : q \in Holders(d)}
      BY <1>d DEF IInv, PendingInv
    <2>3. pendingIntervals'[d] = {ExtentOf(d, hdr[q]) : q \in Holders(d) \ {p}}
      BY <1>l, <1>d, <2>1, <2>2
    <2> QED
      BY <1>u, <1>n, <1>h, <2>3 DEF IInv, PendingInv
  <1>8. HomesInv'
    BY <1>o DEF IInv, HomesInv
  <1>9. FreshInv'
    <2>1. \A q \in Puts : q # p /\ InFlight(q) => Names(Obj(p)) \cap Names(hdr[q]) = {}
      BY <1>m, ObjFacts DEF IInv, GateInv, InFlight
    <2>2. ASSUME NEW q \in Puts, NEW e \in Disks
          PROVE  /\ Unpublished(q)' => \A o \in log'[e] : Names(o) \cap Names(hdr[q]) = {}
                 /\ Uncommitted(q)' => \A o \in tail'[e] :
                      \/ o.by = q /\ e = disk[q] /\ pc'[q] = "syncing"
                      \/ Names(o) \cap Names(hdr[q]) = {}
      <3>1. /\ Uncommitted(q)' => Uncommitted(q) /\ pc'[q] = pc[q]
            /\ Unpublished(q)' => q # p /\ Unpublished(q) /\ InFlight(q)
        BY <1>q DEF Uncommitted, Unpublished, InFlight
      <3> QED
        BY <1>l, <1>n, <2>1, <3>1 DEF IInv, FreshInv
    <2> QED
      BY <1>u, <2>2 DEF FreshInv
  <1>10. SpaceInv'
    BY <1>u, <1>o, <1>h DEF IInv, SpaceInv, Disjoint
  <1>11. BytesInv'
    <2>1. \A e \in Disks : \A o \in OnDisk(e) : \A i \in SlotsOf(e, o) :
              cache[e][i] = o.by /\ media'[e][i] = o.by
      BY <1>l, <1>n DEF IInv, BytesInv
    <2>2. \A q \in Puts : pc'[q] \in {"write", "commit", "syncing"} => pc'[q] = pc[q]
      BY <1>q
    <2> QED
      BY <1>u, <1>o, <2>1, <2>2 DEF IInv, BytesInv
  <1> QED
    BY <1>t, <1>1, <1>2, <1>3, <1>4, <1>5, <1>6, <1>7, <1>8, <1>9, <1>10, <1>11 DEF IInv


\* CommitRollback: the append in doubt is gone, nothing else changes place.
LEMMA CommitRollbackInv ==
    ASSUME IInv, NEW p \in Puts, CommitRollback(p)
    PROVE  IInv'
  <1> DEFINE d == disk[p]
  <1>u. /\ hdr' = hdr /\ disk' = disk /\ written' = written /\ gate' = gate
        /\ pendingIntervals' = pendingIntervals /\ intervals' = intervals
        /\ confirmed' = confirmed /\ indexErr' = indexErr
        /\ cut' = cut /\ log' = log /\ cache' = cache /\ up' = up /\ crashes' = crashes
    BY DEF CommitRollback, memVars
  <1>m. /\ up /\ pc[p] = "syncing"
        /\ tail' = [tail EXCEPT ![d] = {}]
        /\ media' = [media EXCEPT ![d] = cache[d]]
        /\ res' = [res EXCEPT ![p] = "internal"]
        /\ pc' = [pc EXCEPT ![p] = "abort"]
    BY DEF CommitRollback, Goto, Answer
  <1>d. d \in Disks /\ tail[d] = {Obj(p)}
    BY <1>m DEF IInv, TypeOK, TailInv
  <1>q. /\ pc'[p] = "abort" /\ res'[p] = "internal"
        /\ \A q \in Puts : q # p => pc'[q] = pc[q] /\ res'[q] = res[q]
    BY <1>m DEF IInv, TypeOK
  <1>l. /\ tail'[d] = {} /\ media'[d] = cache[d]
        /\ \A e \in Disks : e # d => tail'[e] = tail[e] /\ media'[e] = media[e]
    BY <1>m, <1>d DEF IInv, TypeOK
  <1>o. \A e \in Disks : OnDisk(e)' \subseteq OnDisk(e) /\ tail'[e] \subseteq tail[e]
    BY <1>u, <1>l DEF OnDisk
  <1>h. \A e \in Disks : Holders(e)' = Holders(e)
    BY <1>u, <1>q, <1>m DEF Holders
  <1>t. TypeOK'
    <2>1. /\ media' \in [Disks -> UNION {Contents(e) : e \in Disks}]
          /\ \A e \in Disks : media'[e] \in Contents(e)
      BY <1>m, <1>d DEF IInv, TypeOK
    <2>2. tail' \in [Disks -> SUBSET Objects]
      BY <1>m DEF IInv, TypeOK
    <2>3. pc' \in [Puts -> PCs] /\ res' \in [Puts -> Codes]
      BY <1>m DEF IInv, TypeOK, PCs, Codes
    <2> QED
      BY <1>u, <2>1, <2>2, <2>3 DEF IInv, TypeOK
  <1>1. ObjectsInv'
    BY <1>u, <1>o DEF IInv, ObjectsInv, GoodObject, Obj
  <1>2. CallsInv'
    BY <1>u, <1>q, <1>m DEF IInv, CallsInv, Obj, InFlight, Holding
  <1>3. GateInv'
    BY <1>u, <1>q, <1>m DEF IInv, GateInv, InFlight
  <1>4. DownInv'
    BY <1>u, <1>m DEF DownInv
  <1>5. TailInv'
    <2>1. ASSUME NEW e \in Disks, NEW o \in tail'[e]
          PROVE  indexErr[e] \/ (pc'[o.by] = "syncing" /\ disk[o.by] = e)
      BY <1>l, <1>q DEF IInv, TailInv, ObjectsInv, OnDisk, GoodObject
    <2>2. ASSUME NEW q \in Puts, pc'[q] = "syncing"
          PROVE  tail'[disk[q]] = {Obj(q)} /\ ~indexErr[disk[q]]
      <3>1. q # p /\ pc[q] = "syncing" /\ tail[disk[q]] = {Obj(q)}
        BY <1>q, <2>2 DEF IInv, TailInv
      <3>2. Obj(q) # Obj(p)
        BY <3>1, ObjFacts
      <3>3. disk[q] \in Disks /\ disk[q] # d
        <4>1. disk[q] # d
          BY <1>d, <3>1, <3>2
        <4> QED BY <4>1 DEF IInv, TypeOK
      <3> QED
        BY <1>l, <3>1, <3>3 DEF IInv, TailInv
    <2> QED
      BY <1>u, <1>o, <2>1, <2>2 DEF IInv, TailInv, Obj
  <1>6. IndexInv'
    BY <1>u DEF IInv, IndexInv
  <1>7. PendingInv'
    BY <1>u, <1>h DEF IInv, PendingInv
  <1>8. HomesInv'
    BY <1>o DEF IInv, HomesInv
  <1>9. FreshInv'
    <2>1. \A q \in Puts : /\ Uncommitted(q)' => Uncommitted(q) /\ pc'[q] = pc[q]
                          /\ Unpublished(q)' => Unpublished(q)
      BY <1>q, <1>m DEF Uncommitted, Unpublished
    <2> QED
      BY <1>u, <1>o, <2>1 DEF IInv, FreshInv
  <1>10. SpaceInv'
    BY <1>u, <1>h, <1>o DEF IInv, SpaceInv
  <1>11. BytesInv'
    <2>1. \A e \in Disks : \A o \in OnDisk(e) : \A i \in SlotsOf(e, o) :
              cache[e][i] = o.by /\ media'[e][i] = o.by
      BY <1>l DEF IInv, BytesInv
    <2>2. \A q \in Puts : pc'[q] \in {"write", "commit", "syncing"} => pc'[q] = pc[q]
      BY <1>q
    <2> QED
      BY <1>u, <1>o, <2>1, <2>2 DEF IInv, BytesInv
  <1> QED
    BY <1>t, <1>1, <1>2, <1>3, <1>4, <1>5, <1>6, <1>7, <1>8, <1>9, <1>10, <1>11 DEF IInv

\* CommitRollbackFail: the append stays in doubt on a disk taken out of
\* service.
LEMMA CommitRollbackFailInv ==
    ASSUME IInv, NEW p \in Puts, CommitRollbackFail(p)
    PROVE  IInv'
  <1> DEFINE d == disk[p]
  <1>u. /\ hdr' = hdr /\ disk' = disk /\ written' = written /\ gate' = gate
        /\ pendingIntervals' = pendingIntervals /\ intervals' = intervals
        /\ confirmed' = confirmed /\ cut' = cut /\ log' = log /\ tail' = tail
        /\ cache' = cache /\ media' = media /\ up' = up /\ crashes' = crashes
    BY DEF CommitRollbackFail, diskVars
  <1>m. /\ up /\ pc[p] = "syncing"
        /\ indexErr' = [indexErr EXCEPT ![d] = TRUE]
        /\ res' = [res EXCEPT ![p] = "internal"]
        /\ pc' = [pc EXCEPT ![p] = "abort"]
    BY DEF CommitRollbackFail, Goto, Answer
  <1>d. d \in Disks /\ tail[d] = {Obj(p)}
    BY <1>m DEF IInv, TypeOK, TailInv
  <1>q. /\ pc'[p] = "abort" /\ res'[p] = "internal"
        /\ \A q \in Puts : q # p => pc'[q] = pc[q] /\ res'[q] = res[q]
    BY <1>m DEF IInv, TypeOK
  <1>l. indexErr'[d] /\ \A e \in Disks : e # d => indexErr'[e] = indexErr[e]
    BY <1>m, <1>d DEF IInv, TypeOK
  <1>h. \A e \in Disks : Holders(e)' = Holders(e)
    BY <1>u, <1>q, <1>m DEF Holders
  <1>t. TypeOK'
    <2>1. indexErr' \in [Disks -> BOOLEAN]
      BY <1>m DEF IInv, TypeOK
    <2>2. pc' \in [Puts -> PCs] /\ res' \in [Puts -> Codes]
      BY <1>m DEF IInv, TypeOK, PCs, Codes
    <2> QED
      BY <1>u, <2>1, <2>2 DEF IInv, TypeOK
  <1>1. ObjectsInv'
    BY <1>u DEF IInv, ObjectsInv, OnDisk, GoodObject, Obj
  <1>2. CallsInv'
    BY <1>u, <1>q, <1>m DEF IInv, CallsInv, Obj, InFlight, Holding
  <1>3. GateInv'
    BY <1>u, <1>q, <1>m DEF IInv, GateInv, InFlight
  <1>4. DownInv'
    BY <1>u, <1>m DEF DownInv
  <1>5. TailInv'
    <2>1. ASSUME NEW e \in Disks, NEW o \in tail[e]
          PROVE  indexErr'[e] \/ (pc'[o.by] = "syncing" /\ disk[o.by] = e)
      <3>1. CASE e = d
        BY <1>l, <3>1
      <3>2. CASE e # d
        <4>1. o.by \in Puts
          BY OnDiskFacts DEF OnDisk
        <4>2. indexErr[e] \/ (pc[o.by] = "syncing" /\ disk[o.by] = e)
          BY DEF IInv, TailInv
        <4> QED BY <1>l, <1>q, <3>2, <4>1, <4>2
      <3> QED BY <3>1, <3>2
    <2>2. ASSUME NEW q \in Puts, pc'[q] = "syncing"
          PROVE  tail[disk[q]] = {Obj(q)} /\ ~indexErr'[disk[q]]
      <3>1. q # p /\ pc[q] = "syncing" /\ tail[disk[q]] = {Obj(q)} /\ ~indexErr[disk[q]]
        BY <1>q, <2>2 DEF IInv, TailInv
      <3>2. Obj(q) # Obj(p)
        BY <3>1, ObjFacts
      <3>3. disk[q] \in Disks /\ disk[q] # d
        <4>1. disk[q] # d
          BY <1>d, <3>1, <3>2
        <4> QED BY <4>1 DEF IInv, TypeOK
      <3> QED
        BY <1>l, <3>1, <3>3
    <2> QED
      BY <1>u, <2>1, <2>2 DEF IInv, TailInv, Obj
  <1>6. IndexInv'
    BY <1>u DEF IInv, IndexInv
  <1>7. PendingInv'
    BY <1>u, <1>h DEF IInv, PendingInv
  <1>8. HomesInv'
    BY <1>u DEF IInv, HomesInv, OnDisk
  <1>9. FreshInv'
    <2>1. \A q \in Puts : /\ Uncommitted(q)' => Uncommitted(q) /\ pc'[q] = pc[q]
                          /\ Unpublished(q)' => Unpublished(q)
      BY <1>q, <1>m DEF Uncommitted, Unpublished
    <2> QED
      BY <1>u, <2>1 DEF IInv, FreshInv
  <1>10. SpaceInv'
    BY <1>u, <1>h DEF IInv, SpaceInv, OnDisk
  <1>11. BytesInv'
    <2>2. \A q \in Puts : pc'[q] \in {"write", "commit", "syncing"} => pc'[q] = pc[q]
      BY <1>q
    <2> QED
      BY <1>u, <2>2 DEF IInv, BytesInv, OnDisk
  <1> QED
    BY <1>t, <1>1, <1>2, <1>3, <1>4, <1>5, <1>6, <1>7, <1>8, <1>9, <1>10, <1>11 DEF IInv

\* Abort: the extent given back is nobody else's.
LEMMA AbortInv ==
    ASSUME IInv, NEW p \in Puts, Abort(p)
    PROVE  IInv'
  <1> DEFINE d == disk[p]
             iv == ExtentOf(d, hdr[p])
  <1>u. /\ hdr' = hdr /\ res' = res /\ disk' = disk /\ written' = written
        /\ gate' = gate /\ intervals' = intervals
        /\ confirmed' = confirmed /\ indexErr' = indexErr
        /\ cut' = cut /\ log' = log /\ tail' = tail /\ cache' = cache /\ media' = media
        /\ up' = up /\ crashes' = crashes
    BY DEF Abort, diskVars
  <1>m. /\ up /\ pc[p] = "abort"
        /\ pendingIntervals' = [pendingIntervals EXCEPT ![d] = @ \ {iv}]
        /\ pc' = [pc EXCEPT ![p] = "release"]
    BY DEF Abort, Goto
  <1>d. d \in Disks /\ p \in Holders(d)
    BY <1>m DEF IInv, TypeOK, Holders
  <1>q. /\ pc'[p] = "release"
        /\ \A q \in Puts : q # p => pc'[q] = pc[q]
    BY <1>m DEF IInv, TypeOK
  <1>l. /\ pendingIntervals'[d] = pendingIntervals[d] \ {iv}
        /\ \A e \in Disks : e # d => pendingIntervals'[e] = pendingIntervals[e]
    BY <1>m, <1>d DEF IInv, TypeOK
  <1>h. /\ Holders(d)' = Holders(d) \ {p}
        /\ \A e \in Disks : e # d => Holders(e)' = Holders(e)
    BY <1>u, <1>q, <1>m DEF Holders
  <1>t. TypeOK'
    <2>1. pendingIntervals' \in [Disks -> SUBSET Intervals]
      BY <1>m DEF IInv, TypeOK
    <2>2. pc' \in [Puts -> PCs]
      BY <1>m DEF IInv, TypeOK, PCs
    <2> QED
      BY <1>u, <2>1, <2>2 DEF IInv, TypeOK
  <1>1. ObjectsInv'
    BY <1>u DEF IInv, ObjectsInv, OnDisk, GoodObject, Obj
  <1>2. CallsInv'
    BY <1>u, <1>q, <1>m DEF IInv, CallsInv, Obj, InFlight, Holding
  <1>3. GateInv'
    BY <1>u, <1>q, <1>m DEF IInv, GateInv, InFlight
  <1>4. DownInv'
    BY <1>u, <1>m DEF DownInv
  <1>5. TailInv'
    BY <1>u, <1>q, <1>m DEF IInv, TailInv, ObjectsInv, OnDisk, GoodObject, Obj
  <1>6. IndexInv'
    BY <1>u DEF IInv, IndexInv
  <1>7. PendingInv'
    <2>1. \A q \in Holders(d) : q # p => ExtentOf(d, hdr[q]) # iv
      BY <1>d, HolderFacts, DisjointSlots DEF IInv, SpaceInv
    <2>2. pendingIntervals[d] = {ExtentOf(d, hdr[q]) : q \in Holders(d)}
      BY <1>d DEF IInv, PendingInv
    <2>3. pendingIntervals'[d] = {ExtentOf(d, hdr[q]) : q \in Holders(d) \ {p}}
      BY <1>l, <1>d, <2>1, <2>2
    <2> QED
      BY <1>u, <1>l, <1>h, <2>3 DEF IInv, PendingInv
  <1>8. HomesInv'
    BY <1>u DEF IInv, HomesInv, OnDisk
  <1>9. FreshInv'
    <2>1. \A q \in Puts : /\ Uncommitted(q)' => Uncommitted(q) /\ pc'[q] = pc[q]
                          /\ Unpublished(q)' => Unpublished(q)
      BY <1>q, <1>m DEF Uncommitted, Unpublished
    <2> QED
      BY <1>u, <2>1 DEF IInv, FreshInv
  <1>10. SpaceInv'
    BY <1>u, <1>h DEF IInv, SpaceInv, OnDisk, Disjoint
  <1>11. BytesInv'
    <2>2. \A q \in Puts : pc'[q] \in {"write", "commit", "syncing"} => pc'[q] = pc[q]
      BY <1>q
    <2> QED
      BY <1>u, <2>2 DEF IInv, BytesInv, OnDisk
  <1> QED
    BY <1>t, <1>1, <1>2, <1>3, <1>4, <1>5, <1>6, <1>7, <1>8, <1>9, <1>10, <1>11 DEF IInv


\* Release: the names given back are nobody else's.
LEMMA ReleaseInv ==
    ASSUME IInv, NEW p \in Puts, Release(p)
    PROVE  IInv'
  <1>u. /\ hdr' = hdr /\ res' = res /\ disk' = disk /\ written' = written
        /\ pendingIntervals' = pendingIntervals /\ intervals' = intervals
        /\ confirmed' = confirmed /\ indexErr' = indexErr
        /\ cut' = cut /\ log' = log /\ tail' = tail /\ cache' = cache /\ media' = media
        /\ up' = up /\ crashes' = crashes
    BY DEF Release, diskVars
  <1>m. /\ up /\ pc[p] = "release"
        /\ gate' = gate \ Names(hdr[p])
        /\ pc' = [pc EXCEPT ![p] = "done"]
    BY DEF Release, ReleasedNames, Goto
  <1>q. /\ pc'[p] = "done"
        /\ \A q \in Puts : q # p => pc'[q] = pc[q]
    BY <1>m DEF IInv, TypeOK
  <1>h. \A e \in Disks : Holders(e)' = Holders(e)
    BY <1>u, <1>q, <1>m DEF Holders
  <1>t. TypeOK'
    BY <1>u, <1>m DEF IInv, TypeOK, PCs
  <1>1. ObjectsInv'
    BY <1>u DEF IInv, ObjectsInv, OnDisk, GoodObject, Obj
  <1>2. CallsInv'
    BY <1>u, <1>q, <1>m DEF IInv, CallsInv, Obj, InFlight, Holding
  <1>3. GateInv'
    <2>1. ASSUME NEW f
          PROVE  f \in gate' <=> \E q \in Puts : InFlight(q)' /\ f \in Names(hdr[q])
      <3>1. f \in gate <=> \E q \in Puts : InFlight(q) /\ f \in Names(hdr[q])
        BY DEF IInv, GateInv
      <3>2. \A q \in Puts : InFlight(q)' <=> InFlight(q) /\ q # p
        BY <1>q, <1>m DEF InFlight
      <3>3. InFlight(p)
        BY <1>m DEF InFlight
      <3>4. \A q \in Puts : q # p /\ InFlight(q) => Names(hdr[p]) \cap Names(hdr[q]) = {}
        BY <3>3 DEF IInv, GateInv
      <3> QED
        BY <1>m, <3>1, <3>2, <3>3, <3>4
    <2> QED
      BY <1>u, <1>q, <1>m, <2>1 DEF IInv, GateInv, InFlight
  <1>4. DownInv'
    BY <1>u, <1>m DEF DownInv
  <1>5. TailInv'
    BY <1>u, <1>q, <1>m DEF IInv, TailInv, ObjectsInv, OnDisk, GoodObject, Obj
  <1>6. IndexInv'
    BY <1>u DEF IInv, IndexInv
  <1>7. PendingInv'
    BY <1>u, <1>h DEF IInv, PendingInv
  <1>8. HomesInv'
    BY <1>u DEF IInv, HomesInv, OnDisk
  <1>9. FreshInv'
    <2>1. \A q \in Puts : /\ Uncommitted(q)' => Uncommitted(q) /\ pc'[q] = pc[q]
                          /\ Unpublished(q)' => Unpublished(q)
      BY <1>q, <1>m DEF Uncommitted, Unpublished
    <2> QED
      BY <1>u, <2>1 DEF IInv, FreshInv
  <1>10. SpaceInv'
    BY <1>u, <1>h DEF IInv, SpaceInv, OnDisk
  <1>11. BytesInv'
    <2>2. \A q \in Puts : pc'[q] \in {"write", "commit", "syncing"} => pc'[q] = pc[q]
      BY <1>q
    <2> QED
      BY <1>u, <2>2 DEF IInv, BytesInv, OnDisk
  <1> QED
    BY <1>t, <1>1, <1>2, <1>3, <1>4, <1>5, <1>6, <1>7, <1>8, <1>9, <1>10, <1>11 DEF IInv

\* Crash: what is on the disks afterwards is a part of what was on them or in
\* doubt, and an entry that made it there found its payload already durable.
LEMMA CrashInv ==
    ASSUME IInv, Crash
    PROVE  IInv'
  <1>m. /\ hdr' = hdr /\ disk' = disk /\ written' = written
        /\ crashes' = crashes + 1
        /\ up' = FALSE
        /\ pc' = [p \in Puts |-> IF InFlight(p) THEN "done" ELSE pc[p]]
        /\ res' = [p \in Puts |-> IF InFlight(p) /\ res[p] # "ok" THEN "lost" ELSE res[p]]
        /\ gate' = {}
        /\ pendingIntervals' = [d \in Disks |-> {}]
        /\ intervals' = [d \in Disks |-> {}]
        /\ confirmed' = [d \in Disks |-> [f \in AllNames |-> NoRef]]
        /\ indexErr' = [d \in Disks |-> FALSE]
        /\ tail' = [d \in Disks |-> {}]
        /\ media' = cache'
    BY DEF Crash
  <1>w. PICK W \in SUBSET Dirty :
          cache' = [d \in Disks |-> [s \in GridSlots(d) |->
                      IF <<d, s>> \in W THEN cache[d][s] ELSE media[d][s]]]
    BY DEF Crash
  <1>k. PICK K \in SUBSET Disks, H \in SUBSET Disks :
          /\ log' = [d \in Disks |-> IF d \in K THEN log[d] \cup tail[d] ELSE log[d]]
          /\ cut' = H
    BY DEF Crash
  <1>q. /\ \A p \in Puts : ~InFlight(p)' /\ pc'[p] \in {"idle", "done"}
        /\ \A p \in Puts : res'[p] = "ok" => res[p] = "ok"
    BY <1>m DEF InFlight
  <1>o. \A d \in Disks : /\ OnDisk(d)' \subseteq OnDisk(d)
                         /\ log[d] \subseteq log'[d] /\ tail'[d] = {}
    BY <1>m, <1>k DEF OnDisk
  <1>c. \A d \in Disks : \A s \in GridSlots(d) :
           cache'[d][s] = cache[d][s] \/ cache'[d][s] = media[d][s]
    BY <1>w
  <1>h. \A d \in Disks : Holders(d)' = {}
    BY <1>q DEF Holders
  <1>t. TypeOK'
    <2>1. ASSUME NEW d \in Disks PROVE cache'[d] \in Contents(d)
      <3>1. \A s \in GridSlots(d) : cache'[d][s] \in Puts \cup {Blank}
        BY <1>c DEF IInv, TypeOK, Contents
      <3> QED BY <1>w, <3>1 DEF Contents
    <2>2. cache' \in [Disks -> UNION {Contents(d) : d \in Disks}]
      BY <1>w, <2>1
    <2>3. log' \in [Disks -> SUBSET Objects] /\ tail' \in [Disks -> SUBSET Objects]
      BY <1>k, <1>m DEF IInv, TypeOK
    <2>4. pc' \in [Puts -> PCs] /\ res' \in [Puts -> Codes]
      BY <1>m DEF IInv, TypeOK, PCs, Codes
    <2>5. confirmed' \in [Disks -> [AllNames -> Refs]]
      BY <1>m DEF Refs
    <2>6. crashes' \in Nat
      BY <1>m DEF IInv, TypeOK
    <2>7. /\ indexErr' \in [Disks -> BOOLEAN] /\ up' \in BOOLEAN
          /\ intervals' \in [Disks -> SUBSET Intervals]
          /\ pendingIntervals' \in [Disks -> SUBSET Intervals]
          /\ gate' \in SUBSET AllNames
      BY <1>m
    <2> QED
      BY <1>m, <1>k, <2>1, <2>2, <2>3, <2>4, <2>5, <2>6, <2>7 DEF IInv, TypeOK
  <1>1. ObjectsInv'
    BY <1>m, <1>o DEF IInv, ObjectsInv, GoodObject, Obj
  <1>2. CallsInv'
    BY <1>m, <1>q, <1>o DEF IInv, CallsInv, Obj, Holding
  <1>3. GateInv'
    BY <1>m, <1>q DEF GateInv
  <1>4. DownInv'
    BY <1>m, <1>q DEF DownInv
  <1>5. TailInv'
    BY <1>o, <1>q, <1>m DEF TailInv
  <1>6. IndexInv'
    BY <1>m DEF IndexInv
  <1>7. PendingInv'
    BY <1>m, <1>h DEF PendingInv
  <1>8. HomesInv'
    BY <1>o DEF IInv, HomesInv
  <1>9. FreshInv'
    BY <1>q DEF FreshInv, Uncommitted, Unpublished
  <1>10. SpaceInv'
    BY <1>h, <1>o DEF IInv, SpaceInv
  <1>11. BytesInv'
    <2>1. ASSUME NEW d \in Disks, NEW o \in OnDisk(d)', NEW s \in SlotsOf(d, o)
          PROVE  cache'[d][s] = o.by
      <3>1. o \in OnDisk(d) /\ s \in GridSlots(d)
        BY <1>o, OnDiskFacts
      <3> QED
        BY <1>c, <3>1 DEF IInv, BytesInv
    <2> QED
      BY <1>m, <1>q, <2>1 DEF BytesInv
  <1> QED
    BY <1>t, <1>1, <1>2, <1>3, <1>4, <1>5, <1>6, <1>7, <1>8, <1>9, <1>10, <1>11 DEF IInv

\* Boot: the replay rebuilds a RAM index and an extent table that match the
\* durable index.
LEMMA BootInv ==
    ASSUME IInv, Boot
    PROVE  IInv'
  <1>u. /\ hdr' = hdr /\ pc' = pc /\ res' = res /\ disk' = disk /\ written' = written
        /\ gate' = gate /\ pendingIntervals' = pendingIntervals /\ indexErr' = indexErr
        /\ cut' = cut /\ log' = log /\ tail' = tail /\ cache' = cache /\ media' = media
        /\ crashes' = crashes
    BY DEF Boot, reqVars, diskVars
  <1>m. /\ ~up /\ Bootable /\ up' = TRUE
        /\ confirmed' = [d \in Disks |-> Replay(log[d])]
        /\ intervals' = [d \in Disks |-> {ExtentOf(d, o) : o \in log[d]}]
    BY DEF Boot
  <1>h. \A e \in Disks : Holders(e)' = Holders(e)
    BY <1>u DEF Holders
  <1>r. ASSUME NEW d \in Disks, NEW o \in log[d], NEW f \in Names(o)
        PROVE  f \in AllNames /\ Replay(log[d])[f] = RefFor(f, o)
    <2>1. f \in AllNames
      BY OnDiskFacts DEF OnDisk
    <2>2. \A x \in log[d] : f \in Names(x) => x = o
      BY DEF IInv, HomesInv, OnDisk
    <2>3. (CHOOSE x \in log[d] : f \in Names(x)) = o
      BY <2>2
    <2> QED
      BY <2>1, <2>3 DEF Replay, ReplayRef, RefFor
  <1>f. ASSUME NEW d \in Disks, NEW o \in log[d], NEW f \in Names(o)
        PROVE  RefFor(f, o) \in Refs /\ RefFor(f, o) # NoRef
    <2>1. /\ o.by \in Puts /\ o = Obj(o.by) /\ ValidHeader(hdr[o.by])
      BY DEF IInv, ObjectsInv, OnDisk, GoodObject
    <2>2. /\ RefFor(f, o) = RefFor(f, hdr[o.by]) /\ f \in Names(hdr[o.by])
      BY <2>1, ObjFacts
    <2>3. /\ hdr[o.by].fid \in Nat /\ hdr[o.by].size \in Nat \ {0}
          /\ hdr[o.by].size >= 2 \/ hdr[o.by].alias = NoAlias
      BY <2>1, HeaderFacts DEF IInv, ValidHeader
    <2> QED
      BY <2>2, <2>3 DEF RefFor, Refs, NoRef, Names
  <1>n. ASSUME NEW d \in Disks, NEW f \in AllNames, \A o \in log[d] : f \notin Names(o)
        PROVE  Replay(log[d])[f] = NoRef
    BY <1>n DEF Replay
  <1>6. IndexInv'
    <2>1. ASSUME NEW d \in Disks, NEW f \in AllNames
          PROVE  Replay(log[d])[f] = NoRef <=> \A o \in log[d] : f \notin Names(o)
      BY <1>r, <1>f, <1>n
    <2> QED
      BY <1>u, <1>m, <1>r, <2>1 DEF IndexInv
  <1>t. TypeOK'
    <2>1. ASSUME NEW d \in Disks PROVE Replay(log[d]) \in [AllNames -> Refs]
      <3>1. ASSUME NEW f \in AllNames PROVE Replay(log[d])[f] \in Refs
        <4>1. CASE \A o \in log[d] : f \notin Names(o)
          BY <1>n, <4>1 DEF Refs
        <4>2. CASE \E o \in log[d] : f \in Names(o)
          BY <1>r, <1>f, <4>2
        <4> QED BY <4>1, <4>2
      <3> QED BY <3>1 DEF Replay
    <2>2. confirmed' \in [Disks -> [AllNames -> Refs]]
      BY <1>m, <2>1
    <2>3. ASSUME NEW d \in Disks PROVE {ExtentOf(d, o) : o \in log[d]} \subseteq Intervals
      BY OnDiskFacts DEF OnDisk
    <2>4. intervals' \in [Disks -> SUBSET Intervals]
      BY <1>m, <2>3
    <2> QED
      BY <1>u, <1>m, <2>2, <2>4 DEF IInv, TypeOK
  <1>1. ObjectsInv'
    BY <1>u DEF IInv, ObjectsInv, OnDisk, GoodObject, Obj
  <1>2. CallsInv'
    BY <1>u DEF IInv, CallsInv, Obj, InFlight, Holding
  <1>3. GateInv'
    BY <1>u DEF IInv, GateInv, InFlight
  <1>4. DownInv'
    BY <1>m DEF DownInv
  <1>5. TailInv'
    BY <1>u DEF IInv, TailInv, Obj
  <1>7. PendingInv'
    BY <1>u, <1>h DEF IInv, PendingInv
  <1>8. HomesInv'
    BY <1>u DEF IInv, HomesInv, OnDisk
  <1>9. FreshInv'
    BY <1>u DEF IInv, FreshInv, Uncommitted, Unpublished
  <1>10. SpaceInv'
    BY <1>u, <1>h DEF IInv, SpaceInv, OnDisk
  <1>11. BytesInv'
    BY <1>u DEF IInv, BytesInv, OnDisk
  <1> QED
    BY <1>t, <1>1, <1>2, <1>3, <1>4, <1>5, <1>6, <1>7, <1>8, <1>9, <1>10, <1>11 DEF IInv

-----------------------------------------------------------------------------
(* The invariant.                                                          *)

\* A freshly initialised pool satisfies the invariant.
LEMMA InitInv == Init => IInv
  <1> SUFFICES ASSUME Init PROVE IInv
    OBVIOUS
  <1>p. \A p \in Puts : pc[p] = "idle" /\ res[p] = "none"
    BY DEF Init
  <1>d. \A d \in Disks : log[d] = {} /\ tail[d] = {} /\ OnDisk(d) = {} /\ Holders(d) = {}
    BY <1>p DEF Init, OnDisk, Holders
  <1>t. TypeOK
    <2>1. (CHOOSE d \in Disks : TRUE) \in Disks
      BY DiskAssumption
    <2>2. disk \in [Puts -> Disks]
      BY <2>1 DEF Init
    <2>3. \A d \in Disks : [s \in GridSlots(d) |-> Blank] \in Contents(d)
      BY DEF Contents
    <2>4. /\ cache \in [Disks -> UNION {Contents(d) : d \in Disks}]
          /\ \A d \in Disks : cache[d] \in Contents(d)
      BY <2>3 DEF Init
    <2>5. confirmed \in [Disks -> [AllNames -> Refs]]
      BY DEF Init, Refs
    <2>6. pc \in [Puts -> PCs] /\ res \in [Puts -> Codes]
      BY DEF Init, PCs, Codes
    <2>7. media = cache
      BY DEF Init
    <2>8. /\ pendingIntervals \in [Disks -> SUBSET Intervals]
          /\ intervals \in [Disks -> SUBSET Intervals]
          /\ log \in [Disks -> SUBSET Objects]
          /\ tail \in [Disks -> SUBSET Objects]
          /\ indexErr \in [Disks -> BOOLEAN]
          /\ written \in [Puts -> Nat]
          /\ gate \in SUBSET AllNames /\ cut \in SUBSET Disks
          /\ hdr \in [Puts -> Headers]
          /\ up \in BOOLEAN /\ crashes \in Nat
      BY DEF Init
    <2> QED
      BY <2>2, <2>4, <2>5, <2>6, <2>7, <2>8 DEF TypeOK
  <1>1. ObjectsInv
    BY <1>d DEF ObjectsInv
  <1>2. CallsInv
    BY <1>p DEF CallsInv, InFlight, Holding
  <1>3. GateInv
    BY <1>p DEF Init, GateInv, InFlight
  <1>4. DownInv
    BY DEF Init, DownInv
  <1>5. TailInv
    BY <1>p, <1>d DEF TailInv
  <1>6. IndexInv
    BY <1>d DEF Init, IndexInv
  <1>7. PendingInv
    BY <1>d DEF Init, PendingInv
  <1>8. HomesInv
    BY <1>d DEF HomesInv
  <1>9. FreshInv
    BY <1>p DEF FreshInv, Uncommitted, Unpublished
  <1>10. SpaceInv
    BY <1>d DEF SpaceInv
  <1>11. BytesInv
    BY <1>p, <1>d DEF BytesInv
  <1> QED
    BY <1>t, <1>1, <1>2, <1>3, <1>4, <1>5, <1>6, <1>7, <1>8, <1>9, <1>10, <1>11 DEF IInv

\* Stuttering preserves the invariant.
LEMMA StutterInv ==
    ASSUME IInv, UNCHANGED vars
    PROVE  IInv'
  <1>u. /\ hdr' = hdr /\ pc' = pc /\ res' = res /\ disk' = disk /\ written' = written
        /\ gate' = gate
        /\ pendingIntervals' = pendingIntervals /\ intervals' = intervals
        /\ confirmed' = confirmed /\ indexErr' = indexErr
        /\ cut' = cut /\ log' = log /\ tail' = tail /\ cache' = cache /\ media' = media
        /\ up' = up /\ crashes' = crashes
    BY DEF vars, reqVars, memVars, diskVars
  <1>h. \A d \in Disks : Holders(d)' = Holders(d) /\ OnDisk(d)' = OnDisk(d)
    BY <1>u DEF Holders, OnDisk
  <1>1. TypeOK' /\ ObjectsInv'
    BY <1>u, <1>h DEF IInv, TypeOK, ObjectsInv, GoodObject, Obj
  <1>2. CallsInv' /\ GateInv' /\ DownInv' /\ TailInv' /\ IndexInv'
    BY <1>u DEF IInv, CallsInv, GateInv, DownInv, TailInv, IndexInv, Obj, InFlight, Holding
  <1>3. PendingInv' /\ HomesInv' /\ FreshInv'
    BY <1>u, <1>h DEF IInv, PendingInv, HomesInv, FreshInv, Uncommitted, Unpublished
  <1>4. SpaceInv' /\ BytesInv'
    BY <1>u, <1>h DEF IInv, SpaceInv, BytesInv
  <1> QED
    BY <1>1, <1>2, <1>3, <1>4 DEF IInv

\* Every step of the daemon, of a client and of a failure preserves it.
LEMMA NextInv ==
    ASSUME IInv, [Next]_vars
    PROVE  IInv'
  <1>1. ASSUME NEW p \in Puts, ClientStep(p) \/ ServerStep(p)
        PROVE  IInv'
    <2>1. \/ QuietActions(p) \/ Reserve(p) \/ PrepareWrite(p) \/ WriteSlot(p)
          \/ CommitWrite(p) \/ CommitPublish(p) \/ CommitRollback(p)
          \/ CommitRollbackFail(p) \/ Abort(p) \/ Release(p)
      BY <1>1 DEF ClientStep, ServerStep, QuietActions
    <2> QED
      BY <2>1, QuietActionsInv, ReserveInv, PrepareWriteInv, WriteSlotInv, CommitWriteInv,
         CommitPublishInv, CommitRollbackInv, CommitRollbackFailInv, AbortInv, ReleaseInv
  <1>2. CASE Crash
    BY <1>2, CrashInv
  <1>3. CASE Boot
    BY <1>3, BootInv
  <1>4. CASE UNCHANGED vars
    BY <1>4, StutterInv
  <1> QED
    BY <1>1, <1>2, <1>3, <1>4 DEF Next

\* The strengthened invariant holds in every reachable state.
THEOREM Invariance == Spec => []IInv
  BY InitInv, NextInv, PTL DEF Spec

-----------------------------------------------------------------------------
(* The properties.                                                         *)

\* Every variable of the write path has its type: server.go, state.go,
\* gate.go and interval.go never store a malformed reference or extent.
THEOREM TypeCorrect == Spec => []TypeOK
  <1>1. IInv => TypeOK
    BY DEF IInv
  <1> QED BY Invariance, <1>1, PTL

\* No two objects of a disk, stored, in doubt or being streamed, ever share a
\* slot: reserveExtent keeps unlocked writes off everybody else's bytes.
THEOREM ExtentsNeverOverlap == Spec => []ExtentsDisjoint
  <1>1. IInv => ExtentsDisjoint
    <2> SUFFICES ASSUME IInv PROVE ExtentsDisjoint
      OBVIOUS
    <2> SUFFICES ASSUME NEW d \in Disks,
                        NEW x \in OnDisk(d) \cup {Obj(p) : p \in Holders(d)},
                        NEW y \in OnDisk(d) \cup {Obj(p) : p \in Holders(d)},
                        x # y
                 PROVE  ~Overlaps(ExtentOf(d, x), ExtentOf(d, y))
      BY DEF ExtentsDisjoint, OnDisk
    <2>1. CASE x \in OnDisk(d) /\ y \in OnDisk(d)
      BY <2>1 DEF IInv, SpaceInv, Disjoint
    <2>2. ASSUME NEW o \in OnDisk(d), NEW p \in Holders(d), o # Obj(p)
          PROVE  Disjoint(d, o, Obj(p)) /\ Disjoint(d, Obj(p), o)
      <3>1. o.by # p
        BY <2>2, OnDiskFacts
      <3>2. Disjoint(d, o, hdr[p])
        BY <3>1 DEF IInv, SpaceInv
      <3>3. Disjoint(d, hdr[p], o)
        BY <3>2, OnDiskFacts, HolderFacts, DisjointSlots
      <3> QED
        BY <3>2, <3>3, HolderFacts, ObjFacts DEF Disjoint
    <2>3. ASSUME NEW p \in Holders(d), NEW q \in Holders(d), p # q
          PROVE  Disjoint(d, Obj(p), Obj(q))
      BY <2>3, HolderFacts, ObjFacts DEF IInv, SpaceInv, Disjoint
    <2> QED
      BY <2>1, <2>2, <2>3 DEF Disjoint
  <1> QED BY Invariance, <1>1, PTL

\* The gate and the extent tables hold exactly what the calls in flight
\* reserved: no error path of Server.Put leaks or over-releases.
THEOREM ReservationsExact == Spec => []NoLeakedReservation
  <1>1. IInv => NoLeakedReservation
    <2> SUFFICES ASSUME IInv PROVE NoLeakedReservation
      OBVIOUS
    <2>1. gate = UNION {Names(hdr[p]) : p \in {q \in Puts : InFlight(q)}}
      BY DEF IInv, GateInv
    <2>2. \A d \in Disks : pendingIntervals[d] = {ExtentOf(d, hdr[p]) : p \in Holders(d)}
      BY DEF IInv, PendingInv
    <2> QED BY <2>1, <2>2 DEF NoLeakedReservation
  <1> QED BY Invariance, <1>1, PTL

\* A fid or alias is registered at most once in the whole pool, appends in
\* doubt included: what the gate of gate.go is for.
THEOREM NamesHaveOneHome == Spec => []OneHome
  <1>1. IInv => OneHome
    BY DEF IInv, HomesInv, OnDisk, OneHome
  <1> QED BY Invariance, <1>1, PTL

\* NewServer and replayIndex refuse the disks that the write path left only
\* where half of an alias pair is at the end of an index.
THEOREM BootRefusesOnlyHalfPairs == Spec => []NextBootAccepted
  <1>1. IInv => NextBootAccepted
    <2> SUFFICES ASSUME IInv PROVE NextBootAccepted
      OBVIOUS
    <2>1. ASSUME NEW d \in Disks PROVE NamesUnique(log[d])
      BY DEF IInv, HomesInv, OnDisk, NamesUnique
    <2>2. ASSUME NEW d \in Disks, NEW x \in log[d], NEW y \in log[d], x # y
          PROVE  ~Overlaps(ExtentOf(d, x), ExtentOf(d, y))
      BY <2>2 DEF IInv, SpaceInv, OnDisk, Disjoint
    <2>3. ASSUME NEW d \in Disks, NEW e \in Disks, d # e, NEW x \in log[d], NEW y \in log[e]
          PROVE  Names(x) \cap Names(y) = {}
      BY <2>3 DEF IInv, HomesInv, OnDisk
    <2> QED BY <2>1, <2>2, <2>3 DEF NextBootAccepted, Bootable
  <1> QED BY Invariance, <1>1, PTL

\* The RAM index of a running disk is the one a reopen would rebuild.
THEOREM MemoryIsReplay == Spec => []MemoryMatchesIndex
  <1>1. IInv => MemoryMatchesIndex
    <2> SUFFICES ASSUME IInv PROVE MemoryMatchesIndex
      OBVIOUS
    <2> SUFFICES ASSUME up, NEW d \in Disks
                 PROVE  /\ confirmed[d] = Replay(log[d])
                        /\ intervals[d] = {ExtentOf(d, o) : o \in log[d]}
      BY DEF MemoryMatchesIndex
    <2>1. ASSUME NEW f \in AllNames PROVE confirmed[d][f] = Replay(log[d])[f]
      <3>1. CASE \A o \in log[d] : f \notin Names(o)
        BY <3>1 DEF IInv, IndexInv, Replay
      <3>2. ASSUME NEW o \in log[d], f \in Names(o)
            PROVE  confirmed[d][f] = Replay(log[d])[f]
        <4>1. \A x \in log[d] : f \in Names(x) => x = o
          BY <3>2 DEF IInv, HomesInv, OnDisk
        <4>2. (CHOOSE x \in log[d] : f \in Names(x)) = o
          BY <3>2, <4>1
        <4>3. Replay(log[d])[f] = RefFor(f, o)
          BY <3>2, <4>2 DEF Replay, ReplayRef, RefFor
        <4> QED BY <3>2, <4>3 DEF IInv, IndexInv
      <3> QED BY <3>1, <3>2
    <2>2. confirmed[d] \in [AllNames -> Refs]
      BY DEF IInv, TypeOK
    <2>3. confirmed[d] = Replay(log[d])
      BY <2>1, <2>2 DEF Replay
    <2> QED BY <2>3 DEF IInv, IndexInv
  <1> QED BY Invariance, <1>1, PTL


\* What a lookup of a running daemon returns: the whole payload of the one
\* object stored under that name on a disk in service, or no object.
LEMMA GetFacts ==
    ASSUME IInv, up, NEW f \in AllNames
    PROVE  \/ \E d \in Disks : \E o \in log[d] :
                /\ f \in Names(o)
                /\ Get(f) = [code |-> "OK", size |-> RefFor(f, o).size, data |-> {o.by}]
           \/ /\ ~Found(f)
              /\ Get(f).code = IF SomeFault THEN "Internal" ELSE "NotFound"
  <1>1. CASE ~Found(f)
    BY <1>1 DEF Get
  <1>2. CASE Found(f)
    <2> DEFINE d == CHOOSE e \in Disks : ~indexErr[e] /\ confirmed[e][f] # NoRef
    <2>1. d \in Disks /\ ~indexErr[d] /\ confirmed[d][f] # NoRef
      BY <1>2 DEF Found
    <2> HIDE DEF d
    <2>2. PICK o \in log[d] : f \in Names(o)
      BY <2>1 DEF IInv, IndexInv
    <2>3. confirmed[d][f] = RefFor(f, o)
      BY <2>1, <2>2 DEF IInv, IndexInv
    <2>4. Extent(d, confirmed[d][f].fid, confirmed[d][f].storedSize) = ExtentOf(d, o)
      BY <2>3 DEF RefFor, ExtentOf
    <2>5. /\ ExtentOf(d, o).start \in SlotsOf(d, o)
          /\ \A s \in SlotsOf(d, o) : cache[d][s] = o.by
      <3>1. o \in OnDisk(d)
        BY <2>2 DEF OnDisk
      <3>2. ExtentOf(d, o) \in Intervals /\ ExtentOf(d, o).start <= ExtentOf(d, o).end
        BY <2>1, <3>1, OnDiskFacts
      <3>3. ExtentOf(d, o).start \in SlotsOf(d, o)
        BY <3>2 DEF SlotsOf, Intervals
      <3> QED
        BY <2>1, <3>1, <3>3 DEF IInv, BytesInv
    <2>6. {cache[d][s] : s \in SlotsOf(d, o)} = {o.by}
      BY <2>5
    <2>7. Get(f) = [code |-> "OK", size |-> confirmed[d][f].size,
                    data |-> {cache[d][s] : s \in SlotsOf(d, o)}]
      BY <1>2, <2>4 DEF Get, d, SlotsOf
    <2> QED
      BY <2>1, <2>2, <2>3, <2>6, <2>7
  <1> QED BY <1>1, <1>2

\* Get returns complete payloads of the right call, restarts included.
THEOREM ReadsWhole == Spec => []ReadsAreWhole
  <1>1. IInv => ReadsAreWhole
    <2> SUFFICES ASSUME IInv, up, NEW f \in AllNames, Get(f).code = "OK"
                 PROVE  \E d \in Disks : \E o \in log[d] :
                            f \in Names(o) /\ Get(f).data = {o.by}
      BY DEF ReadsAreWhole
    <2>1. PICK d \in Disks : \E o \in log[d] :
            /\ f \in Names(o)
            /\ Get(f) = [code |-> "OK", size |-> RefFor(f, o).size, data |-> {o.by}]
      BY GetFacts
    <2> QED BY <2>1
  <1> QED BY Invariance, <1>1, PTL

\* An acknowledged object is served under each of its names, or its disk is
\* out of service.
THEOREM AckedIsServed == Spec => []AckedServed
  <1>1. IInv => AckedServed
    <2> SUFFICES ASSUME IInv, up, NEW p \in Puts, res[p] = "ok", NEW f \in Names(hdr[p])
                 PROVE  \/ Get(f) = [code |-> "OK", size |-> RefFor(f, hdr[p]).size, data |-> {p}]
                        \/ Get(f).code = "Internal"
      BY DEF AckedServed
    <2>1. PICK d \in Disks : Obj(p) \in log[d]
      BY DEF IInv, CallsInv
    <2>2. f \in AllNames /\ f \in Names(Obj(p))
      BY HeaderFacts, ObjFacts DEF IInv
    <2>3. ASSUME NEW e \in Disks, NEW o \in log[e], f \in Names(o),
                 Get(f) = [code |-> "OK", size |-> RefFor(f, o).size, data |-> {o.by}]
          PROVE  Get(f) = [code |-> "OK", size |-> RefFor(f, hdr[p]).size, data |-> {p}]
      <3>1. o = Obj(p)
        BY <2>1, <2>2, <2>3 DEF IInv, HomesInv, OnDisk
      <3> QED BY <2>3, <3>1, ObjFacts
    <2>4. ASSUME ~Found(f), Get(f).code = IF SomeFault THEN "Internal" ELSE "NotFound"
          PROVE  Get(f).code = "Internal"
      <3>1. confirmed[d][f] # NoRef
        BY <2>1, <2>2 DEF IInv, IndexInv
      <3> QED BY <2>4, <3>1 DEF Found, SomeFault
    <2> QED BY <2>2, <2>3, <2>4, GetFacts
  <1> QED BY Invariance, <1>1, PTL

\* Nobody reads a name whose Put is still in flight.
THEOREM InFlightNotServed == Spec => []InFlightInvisible
  <1>1. IInv => InFlightInvisible
    <2> SUFFICES ASSUME IInv, up, NEW p \in Puts, InFlight(p),
                        pc[p] \notin {"respond", "release"},
                        NEW f \in Names(hdr[p]), Get(f).code = "OK"
                 PROVE  FALSE
      BY DEF InFlightInvisible
    <2>1. f \in AllNames
      BY HeaderFacts DEF IInv
    <2>2. PICK d \in Disks : \E o \in log[d] : f \in Names(o)
      BY <2>1, GetFacts
    <2>3. pc[p] \in PCs
      BY DEF IInv, TypeOK
    <2>4. Unpublished(p)
      BY <2>3 DEF Unpublished, Uncommitted, InFlight, PCs
    <2> QED BY <2>2, <2>4 DEF IInv, FreshInv
  <1> QED BY Invariance, <1>1, PTL
-----------------------------------------------------------------------------
(* The write path implements the write-once object store.                  *)

Acked == {p \in Puts : res[p] = "ok"}

\* A step that publishes an append, or a crash that keeps one, registers
\* objects; everything stored stays stored.
LEMMA RegisterStep ==
    ASSUME IInv, IInv', Acked' = Acked,
           \A d \in Disks : log[d] \subseteq log'[d]
    PROVE  OS!Register
  <1>1. StoredObjects \subseteq StoredObjects'
    BY DEF StoredObjects
  <1>2. StoredObjects' \in SUBSET OS!Objects
    BY DEF IInv, TypeOK, StoredObjects, OS!Objects, OS!Object, Objects, Object
  <1>3. OS!NamesUnique(StoredObjects')
    <2>1. \A x \in StoredObjects', y \in StoredObjects' : x # y => Names(x) \cap Names(y) = {}
      BY DEF IInv, HomesInv, OnDisk, StoredObjects
    <2> QED
      BY <2>1 DEF OS!NamesUnique, OS!Names, Names, OS!NoAlias, NoAlias
  <1> QED
    BY <1>1, <1>2, <1>3 DEF OS!Register, Acked

\* A step that leaves the indexes and the acknowledgements alone is invisible.
LEMMA StutterStep ==
    ASSUME log' = log, Acked' = Acked
    PROVE  UNCHANGED OS!vars
  BY DEF OS!vars, StoredObjects, Acked

\* Every step of the write path is a step of the object store, or invisible.
LEMMA StepRefines ==
    ASSUME IInv, IInv', [Next]_vars
    PROVE  [OS!Next]_(OS!vars)
  <1>n. ASSUME NEW p \in Puts, pc[p] \notin {"release", "done"} PROVE res[p] # "ok"
    BY <1>n DEF IInv, CallsInv
  <1>1. ASSUME NEW p \in Puts, CommitPublish(p)
        PROVE  OS!Register
    <2>1. Acked' = Acked
      BY <1>1 DEF CommitPublish, Acked
    <2>2. \A d \in Disks : log[d] \subseteq log'[d]
      BY <1>1 DEF CommitPublish, IInv, TypeOK
    <2> QED BY <2>1, <2>2, RegisterStep
  <1>2. ASSUME Crash PROVE OS!Register
    <2>1. Acked' = Acked
      BY <1>2 DEF Crash, Acked
    <2>2. \A d \in Disks : log[d] \subseteq log'[d]
      BY <1>2 DEF Crash
    <2> QED BY <2>1, <2>2, RegisterStep
  <1>3. ASSUME NEW p \in Puts, Respond(p)
        PROVE  OS!Ack(p) \/ UNCHANGED OS!vars
    <2>1. log' = log /\ pc[p] = "respond" /\ disk[p] \in Disks
      BY <1>3 DEF Respond, diskVars, IInv, TypeOK
    <2>r. res \in [Puts -> Codes]
      BY DEF IInv, TypeOK
    <2>2. StoredObjects' = StoredObjects
      BY <2>1 DEF StoredObjects
    <2>3. \E o \in StoredObjects : o.by = p
      BY <2>1, ObjFacts DEF IInv, CallsInv, StoredObjects
    <2>4. CASE Answer(p, "ok", "release")
      <3>1. Acked' = Acked \cup {p}
        BY <2>4, <2>r DEF Answer, Acked
      <3> QED BY <2>2, <2>3, <3>1 DEF OS!Ack, Acked
    <2>5. CASE Answer(p, "lost", "release")
      <3>1. Acked' = Acked
        BY <1>n, <2>1, <2>5, <2>r DEF Answer, Acked
      <3> QED BY <2>1, <3>1, StutterStep
    <2> QED BY <1>3, <2>4, <2>5 DEF Respond
  <1>4. ASSUME NEW p \in Puts, ClientStep(p) \/ ServerStep(p),
               ~CommitPublish(p), ~Respond(p)
        PROVE  UNCHANGED OS!vars
    <2>1. log' = log
      BY <1>4 DEF ClientStep, ServerStep, diskVars, RejectHeader, Reserve, ReserveConflict,
         ReserveError, SelectDisk, SelectNone, PrepareWrite, PrepareConflict, PrepareError,
         WriteSlot, WriteDone, WriteFail, CommitWrite, CommitRefused, CommitRollback,
         CommitRollbackFail, Abort, Release
    <2>2. \/ res' = res
          \/ /\ pc[p] \notin {"release", "done"}
             /\ \E c \in Codes \ {"ok"} : res' = [res EXCEPT ![p] = c]
      BY <1>4 DEF ClientStep, ServerStep, Answer, Codes, RejectHeader, Reserve, ReserveConflict,
         ReserveError, SelectDisk, SelectNone, PrepareWrite, PrepareConflict, PrepareError,
         WriteSlot, WriteDone, WriteFail, CommitWrite, CommitRefused, CommitRollback,
         CommitRollbackFail, Abort, Release
    <2>3. Acked' = Acked
      BY <1>n, <2>2 DEF Acked, IInv, TypeOK
    <2> QED BY <2>1, <2>3, StutterStep
  <1>5. ASSUME Boot \/ UNCHANGED vars PROVE UNCHANGED OS!vars
    <2>1. log' = log /\ res' = res
      BY <1>5 DEF Boot, vars, reqVars, diskVars
    <2> QED BY <2>1, StutterStep DEF Acked
  <1> QED
    BY <1>1, <1>2, <1>3, <1>4, <1>5 DEF Next, OS!Next

\* The write path, with its races, failures, crashes and restarts, implements
\* the write-once store of ObjectStore.
THEOREM Refinement == Spec => ImplementsObjectStore
  <1>1. Init => OS!Init
    BY DEF Init, OS!Init, StoredObjects
  <1> QED
    BY <1>1, StepRefines, Invariance, PTL DEF Spec, ImplementsObjectStore, OS!Spec
=============================================================================
