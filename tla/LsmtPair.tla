------------------------------ MODULE LsmtPair ------------------------------
(***************************************************************************)
(* The LSMT writable upper: a data file and a log of mapping records       *)
(* (lsmt_rw::FilePair) under the layer that serves them (LsmtRwLayer),     *)
(* from creation or migration to the offline seal, across exits of the     *)
(* process at every step that changes a file.                              *)
(*                                                                         *)
(* An exit keeps every completed file operation (the page cache survives). *)
(* Synchronisation therefore appears only by its failures.  A sector is    *)
(* written whole or not at all; a log record, a header and the last sector *)
(* of the data file may be left incomplete.                                *)
(***************************************************************************)
EXTENDS Segments

CONSTANTS
    Sizes,          \* capacities a device asks for, in sectors
    LiveLimit,      \* kMaxRoIndexSize: live ranges of a replayable log
    CompactFloor,   \* prepare_mutation compacts at 4096 records ...
    CompactRatio,   \* ... and at 4 records per live segment
    MaxOps, MaxFaults, MaxExits

ASSUME PairAssumption ==
    /\ Sizes \subseteq {s + 1 : s \in Sectors} /\ Sizes # {}
    /\ {LiveLimit, CompactFloor, CompactRatio} \subseteq Nat \ {0}
    /\ {MaxOps, MaxFaults, MaxExits} \subseteq Nat

VARIABLES
    disk,       \* the files
    mem,        \* the process that owns the pair, with its FilePair and layer
    op,         \* the operation it executes
    allowed,    \* the contents an exit may leave in each sector
    budget

pairVars == <<disk, mem, op, allowed, budget>>

\* Contents of a sector: Zero, a write's number, or one of these.
Lower == -1     \* whatever the lower layers hold
Junk == -2      \* payload no mapping refers to
Old == -3       \* written before the pair format

Torn == -1      \* a capacity whose bytes are partly rewritten

NoFiles == [stage |-> {}, init |-> 0, data |-> 0, index |-> 0, grow |-> <<>>,
            payload |-> <<>>, ragged |-> FALSE, log |-> <<>>, torn |-> FALSE,
            sealed |-> <<>>]

\* A data file with a checkpoint of the retired single-file layout.
LegacyFiles == [NoFiles EXCEPT !.data = Min(Sizes), !.payload = <<Old>>,
                               !.log = <<[lo |-> 1, n |-> 1, at |-> 1]>>]

NoProcess == [role |-> "none", ready |-> FALSE, size |-> 0, vsize |-> 0, segs |-> {},
              end |-> 0, journal_failed |-> FALSE, poisoned |-> FALSE,
              growth_pending |-> FALSE, checkpointed |-> FALSE]

NoOp == [kind |-> "none", pc |-> "idle", lo |-> 0, hi |-> 0, val |-> 0, goal |-> 0,
         cur |-> 0, ops |-> <<>>, k |-> 1, i |-> 0, published |-> FALSE,
         changed |-> FALSE, res |-> "ok"]

\* What the files say a sector holds.
Content(place, data) == IF place > 0 THEN data[place] ELSE IF place = Zero THEN Zero ELSE Lower

DiskValue(s) ==
    IF disk.sealed # <<>>
    THEN Content(Place(disk.sealed[1].segs, s), disk.sealed[1].data)
    ELSE Content(Place(Replayed(disk.log), s), disk.payload)

PairInit ==
    /\ disk \in {NoFiles, LegacyFiles}
    /\ mem = NoProcess /\ op = NoOp
    /\ allowed = [s \in Sectors |-> {DiskValue(s)}]
    /\ budget = [ops |-> 0, faults |-> 0, exits |-> 0]

----------------------------------------------------------------------------
Go(pc) == op' = [op EXCEPT !.pc = pc]
Files(d) == disk' = d
Fault == budget.faults < MaxFaults /\ budget' = [budget EXCEPT !.faults = @ + 1]
NoFault == budget' = budget

\* An opening that throws ends the process: every descriptor and lock goes.
Gone == mem' = NoProcess /\ op' = NoOp

\* The process leaves; an exit within an operation is counted.
Exit ==
    /\ mem.role # "none"
    /\ Gone
    /\ \/ mem.checkpointed /\ op = NoOp /\ NoFault
       \/ /\ ~(mem.checkpointed /\ op = NoOp) /\ budget.exits < MaxExits
          /\ budget' = [budget EXCEPT !.exits = @ + 1]
    /\ UNCHANGED <<disk, allowed>>

\* A device creates or reopens its upper, a recovering one only reopens it
\* (existing_only); a commit opens it to seal it, goal being its override.
Start(role, goal) ==
    /\ mem.role = "none"
    /\ mem' = [NoProcess EXCEPT !.role = role]
    /\ op' = [NoOp EXCEPT !.kind = "open", !.pc = "lookup", !.goal = goal]
    /\ UNCHANGED <<disk, allowed, budget>>

----------------------------------------------------------------------------
(* Creation: two staged headers, an intent, links without replacement.     *)

\* recover_creation accepts the files: each part is published or staged,
\* and holds a header only.
Candidates ==
    /\ disk.payload = <<>> /\ disk.log = <<>>
    /\ disk.index # 0 \/ "index" \in disk.stage
    /\ disk.data # 0 \/ "data" \in disk.stage

\* migrate_sync: finish a creation, open the pair, or migrate a checkpoint.
Lookup ==
    /\ op.pc = "lookup"
    /\ UNCHANGED <<disk, allowed, budget>>
    /\ \/ /\ disk.init # 0
          /\ IF Candidates THEN Go("linkIndex") /\ mem' = mem ELSE Gone
       \/ disk.init = 0 /\ disk.index # 0 /\ Go("opening") /\ mem' = mem
       \/ disk.init = 0 /\ disk.index = 0 /\ disk.data # 0 /\ Go("migrate") /\ mem' = mem
       \/ /\ disk.init = 0 /\ disk.index = 0 /\ disk.data = 0
          /\ IF mem.role = "device" THEN Go("stage") /\ mem' = mem ELSE Gone

\* create_sync up to the publication of its intent: the staged files have
\* names of their own until then.
PublishIntent ==
    /\ op.pc = "stage"
    /\ Files([disk EXCEPT !.stage = {"data", "index"}, !.init = op.goal])
    /\ Go("linkIndex")
    /\ UNCHANGED <<mem, allowed, budget>>

LinkIndex ==
    /\ op.pc = "linkIndex"
    /\ Files([disk EXCEPT !.index = disk.init]) /\ Go("linkData")
    /\ UNCHANGED <<mem, allowed, budget>>

LinkData ==
    /\ op.pc = "linkData"
    /\ Files([disk EXCEPT !.data = disk.init]) /\ Go("retireIntent")
    /\ UNCHANGED <<mem, allowed, budget>>

RetireIntent ==
    /\ op.pc = "retireIntent"
    /\ Files([disk EXCEPT !.init = 0]) /\ Go("retireStages")
    /\ UNCHANGED <<mem, allowed, budget>>

RetireStages ==
    /\ op.pc = "retireStages"
    /\ Files([disk EXCEPT !.stage = {}]) /\ Go("opening")
    /\ UNCHANGED <<mem, allowed, budget>>

\* The checkpoint's mappings become a paired index; its bytes stay behind as
\* payload nothing refers to.
Migrate ==
    /\ op.pc = "migrate"
    /\ IF disk.sealed = <<>> /\ Replays(disk.log, disk.data, Len(disk.payload))
       THEN /\ Files([disk EXCEPT !.index = disk.data, !.payload = Append(@, Junk),
                                  !.log = InOrder(Replayed(@))])
            /\ Go("opening") /\ mem' = mem
       ELSE Gone /\ disk' = disk
    /\ UNCHANGED <<allowed, budget>>

\* Any step of an opening may throw.
OpenFault ==
    /\ op.kind = "open" /\ op.pc # "loaded" /\ Fault /\ Gone
    /\ UNCHANGED <<disk, allowed>>

----------------------------------------------------------------------------
(* Growth: an intent with both target headers, rolled forward.             *)

GrowAdmits ==
    /\ disk.grow[1] < disk.grow[2]
    /\ {disk.data, disk.index} \subseteq {disk.grow[1], disk.grow[2], Torn}
    /\ Replays(disk.log, disk.grow[2], Len(disk.payload))

\* recover_grow from its validation to its first write: from here on the
\* pair refuses everything but the completion of the growth.
Recovering(m) == [m EXCEPT !.growth_pending = TRUE, !.poisoned = TRUE, !.size = disk.grow[2]]

\* LsmtRwLayer::grow on the way back.  The growth that open_or_create asks
\* for decides whether the upper opens.
GrowReturns(m, res) ==
    LET healthy == ~m.poisoned
        after == [m EXCEPT !.vsize = IF healthy THEN m.size ELSE @,
                           !.journal_failed = (@ \/ m.growth_pending) /\ ~healthy]
    IN  IF mem.ready
        THEN mem' = after /\ op' = [op EXCEPT !.pc = "returned", !.res = res]
        ELSE IF res = "ok"
        THEN mem' = after /\ op' = [op EXCEPT !.kind = "open", !.pc = "loaded"]
        ELSE Gone

GrowBegins ==
    /\ op.pc = "grow"
    /\ UNCHANGED <<disk, allowed, budget>>
    /\ \/ mem.growth_pending /\ disk.grow = <<>> /\ Go("growSettle") /\ mem' = mem
       \/ /\ mem.growth_pending /\ disk.grow # <<>>
          /\ IF GrowAdmits THEN mem' = Recovering(mem) /\ Go("data")
             ELSE GrowReturns(mem, "failed")
       \/ ~mem.growth_pending /\ Go("intent") /\ mem' = mem

\* The request itself, once no earlier growth is pending.
GrowIntent ==
    /\ op.pc = "intent"
    /\ UNCHANGED <<allowed, budget>>
    /\ IF op.goal = mem.size THEN GrowReturns(mem, "ok") /\ disk' = disk
       ELSE IF op.goal < mem.size \/ disk.ragged THEN GrowReturns(mem, "failed") /\ disk' = disk
       ELSE /\ Files([disk EXCEPT !.grow = <<mem.size, op.goal>>])
            /\ mem' = [mem EXCEPT !.growth_pending = TRUE, !.poisoned = TRUE]
            /\ Go("growPublished")

GrowPublished ==
    /\ op.pc = "growPublished"
    /\ UNCHANGED <<disk, allowed, budget>>
    /\ IF GrowAdmits THEN mem' = Recovering(mem) /\ Go("data") ELSE GrowReturns(mem, "failed")

\* A header is rewritten in place and may be caught half-way.
TearHeader ==
    /\ op.pc \in {"data", "index"} /\ disk[op.pc] \notin {Torn, disk.grow[2]}
    /\ Files([disk EXCEPT ![op.pc] = Torn])
    /\ UNCHANGED <<mem, op, allowed, budget>>

WriteDataHeader ==
    /\ op.pc \in {"data", "index"} /\ disk[op.pc] \in {Torn, disk.grow[2]}
    /\ Files([disk EXCEPT ![op.pc] = disk.grow[2]])
    /\ Go("retireGrow")
    /\ UNCHANGED <<mem, allowed, budget>>

WriteHeader ==
    /\ op.pc \in {"data", "index"} /\ disk[op.pc] \in {Torn, disk.grow[2]}
    /\ Files([disk EXCEPT ![op.pc] = disk.grow[2]])
    /\ Go(IF op.pc = "data" THEN "index" ELSE "retireGrow")
    /\ UNCHANGED <<mem, allowed, budget>>

RetireGrow ==
    /\ op.pc = "retireGrow"
    /\ Files([disk EXCEPT !.grow = <<>>]) /\ Go("growSettle")
    /\ UNCHANGED <<mem, allowed, budget>>

GrowSettles ==
    /\ op.pc = "growSettle"
    /\ mem' = [mem EXCEPT !.growth_pending = FALSE, !.poisoned = FALSE]
    /\ Go(IF op.kind = "open" THEN "load" ELSE "intent")
    /\ UNCHANGED <<disk, allowed, budget>>

GrowFault ==
    /\ op.kind = "grow"
    /\ op.pc \in {"intent", "growPublished", "data", "index", "retireGrow", "growSettle"}
    /\ Fault /\ GrowReturns(mem, "failed")
    /\ UNCHANGED <<disk, allowed>>

----------------------------------------------------------------------------
(* open_sync, and the offline seal of what it opens.                       *)

Opening ==
    /\ op.pc = "opening"
    /\ UNCHANGED <<disk, allowed, budget>>
    /\ IF disk.sealed # <<>> \/ disk.data = 0 THEN Gone
       ELSE IF disk.grow = <<>> THEN Go("load") /\ mem' = mem
       ELSE IF GrowAdmits THEN mem' = Recovering(mem) /\ Go("data")
       ELSE Gone

Loadable ==
    /\ disk.data = disk.index /\ disk.data # Torn
    /\ Replays(disk.log, disk.data, Len(disk.payload))

\* Replay; an incomplete record is cut off, the payload is completed to
\* whole sectors and the next allocation starts behind all of it.
Loaded == [mem EXCEPT !.size = disk.data, !.vsize = disk.data,
                      !.segs = Replayed(disk.log), !.end = Len(disk.payload)]

Resume ==
    /\ Files([disk EXCEPT !.torn = FALSE, !.ragged = FALSE])
    /\ allowed' = [s \in Sectors |-> {DiskValue(s)}]
    /\ \/ mem.role = "commit" /\ mem' = Loaded /\ Go("seal")
       \/ mem.role # "commit" /\ disk.data >= op.goal /\ mem' = Loaded /\ Go("loaded")
       \/ mem.role = "recover" /\ disk.data < op.goal /\ Gone
       \/ /\ mem.role = "device" /\ disk.data < op.goal /\ mem' = Loaded
          /\ op' = [op EXCEPT !.kind = "grow", !.pc = "grow"]

Load ==
    /\ op.pc = "load"
    /\ IF Loadable THEN Resume ELSE Gone /\ UNCHANGED <<disk, allowed>>
    /\ UNCHANGED budget

\* seal packs the live payload in index order.
Packed ==
    FoldLeft(LAMBDA image, m :
                 [data |-> IF m.at = Zero THEN image.data
                           ELSE image.data \o SubSeq(disk.payload, m.at, m.at + m.n - 1),
                  segs |-> Insert(image.segs,
                                  [m EXCEPT !.at = IF @ = Zero THEN Zero ELSE Len(image.data) + 1])],
             [data |-> <<>>, segs |-> {}], InOrder(mem.segs))

Extent == Max({End(m) : m \in mem.segs} \union {0})

\* seal_file: a refused size leaves the upper as it is; the packed file
\* replaces the data file in one rename, and the old index stays behind.
Seal ==
    /\ op.pc = "seal"
    /\ IF op.goal # 0 /\ (op.goal < mem.size \/ op.goal < Extent) THEN disk' = disk
       ELSE Files([disk EXCEPT !.sealed =
                      <<[size |-> IF op.goal = 0 THEN mem.size ELSE op.goal,
                         data |-> Packed.data, segs |-> Packed.segs]>>])
    /\ Gone
    /\ UNCHANGED <<allowed, budget>>

----------------------------------------------------------------------------
(* Mutations of a serving layer.  Its caller runs one at a time.           *)

Serving == mem.ready /\ ~mem.checkpointed /\ op = NoOp /\ budget.ops < MaxOps

Begin(kind, lo, hi, val) ==
    /\ Serving /\ lo < hi /\ hi <= mem.vsize
    /\ op' = [NoOp EXCEPT !.kind = kind, !.pc = "prepare", !.lo = lo, !.hi = hi,
                          !.val = val, !.cur = lo]
    /\ allowed' = [s \in Sectors |-> IF s \in lo .. hi-1 THEN allowed[s] \union {val} ELSE allowed[s]]
    /\ budget' = [budget EXCEPT !.ops = @ + 1]
    /\ UNCHANGED <<disk, mem>>

Returns(res) == op' = [op EXCEPT !.pc = "returned", !.res = res]

PieceEnd(o, cur) == Min({o.hi, cur + MaxLength})

\* The writes of a piece: in place where live payload covers it, appended
\* where nothing does or a zeroed mapping does.
Uncovered(S, lo, hi) == {s \in lo .. hi-1 : Place(S, s) <= 0}

GapOps(S, end, lo, hi) ==
    LET U == Uncovered(S, lo, hi) IN
    {[lo |-> s, n |-> Cardinality({t \in U : t >= s /\ s .. t \subseteq U}),
      at |-> end + Cardinality({t \in U : t < s}) + 1, inplace |-> FALSE] :
        s \in {s \in U : s - 1 \notin U}}

LiveOps(S, lo, hi) ==
    {LET from == Max({lo, m.lo})  to == Min({hi, End(m)})
     IN  [lo |-> from, n |-> to - from, at |-> At(m, from), inplace |-> TRUE] :
        m \in {m \in S : m.at # Zero /\ m.lo < hi /\ End(m) > lo}}

GapOpsReusing(S, end, lo, hi) ==
    LET free == Max({m.at + m.n - 1 : m \in {m \in S : m.at # Zero}} \union {0})
    IN  {[m EXCEPT !.at = @ - end + free] : m \in GapOps(S, end, lo, hi)}

PlannedReusing(o, cur, m) ==
    LET hi == PieceEnd(o, cur) IN
    IF cur = o.hi THEN [o EXCEPT !.pc = "returned", !.cur = cur]
    ELSE [o EXCEPT !.pc = "write", !.cur = cur, !.k = 1, !.i = 0,
                   !.ops = InOrder(GapOpsReusing(m.segs, m.end, cur, hi)
                                       \union LiveOps(m.segs, cur, hi))]

\* The next piece of a write, or its end.
Planned(o, cur, m) ==
    LET hi == PieceEnd(o, cur) IN
    IF cur = o.hi THEN [o EXCEPT !.pc = "returned", !.cur = cur]
    ELSE [o EXCEPT !.pc = "write", !.cur = cur, !.k = 1, !.i = 0,
                   !.ops = InOrder(GapOps(m.segs, m.end, cur, hi) \union LiveOps(m.segs, cur, hi))]

Allocated(o, cur, m) ==
    IF cur = o.hi THEN m
    ELSE [m EXCEPT !.end = @ + Cardinality(Uncovered(m.segs, cur, PieceEnd(o, cur)))]

Proceed(m) ==
    IF op.kind = "write"
    THEN op' = Planned(op, op.cur, m) /\ mem' = Allocated(op, op.cur, m)
    ELSE Go("zero") /\ mem' = m

CompactionDue ==
    Len(disk.log) >= Max({CompactFloor, CompactRatio * Cardinality(mem.segs)})

Prepare ==
    /\ op.pc = "prepare"
    /\ UNCHANGED <<disk, allowed, budget>>
    /\ IF mem.journal_failed THEN Returns("failed") /\ mem' = mem
       ELSE IF CompactionDue THEN Go("compact") /\ mem' = mem
       ELSE Proceed(mem)

CompactPayloadOnly ==
    /\ op.pc = "compact"
    /\ IF disk.ragged THEN Returns("failed") /\ disk' = disk
       ELSE /\ Files([disk EXCEPT !.log = InOrder({m \in mem.segs : m.at # Zero}), !.index = mem.size])
            /\ Go("compacted")
    /\ UNCHANGED <<mem, allowed, budget>>

\* The replacement log is complete before one rename puts it in place.  A
\* data file that ends inside a sector is refused by the replay check.
Compact ==
    /\ op.pc = "compact"
    /\ IF disk.ragged THEN Returns("failed") /\ disk' = disk
       ELSE /\ Files([disk EXCEPT !.log = InOrder(mem.segs), !.index = mem.size])
            /\ Go("compacted")
    /\ UNCHANGED <<mem, allowed, budget>>

Compacted ==
    /\ op.pc = "compacted" /\ Proceed(mem)
    /\ UNCHANGED <<disk, allowed, budget>>

CompactFault ==
    /\ op.pc \in {"compact", "compacted"} /\ Fault /\ Returns("failed")
    /\ UNCHANGED <<disk, mem, allowed>>

Stored(payload, place, val) ==
    [i \in 1 .. Max({Len(payload), place}) |->
        IF i = place THEN val ELSE IF i <= Len(payload) THEN payload[i] ELSE Junk]

NewOps == SelectSeq(op.ops, LAMBDA m : ~m.inplace)

\* One sector of payload.  Behind the last one the new mappings are
\* published; a piece written in place has none.
WriteSector ==
    /\ op.pc = "write"
    /\ LET m == op.ops[op.k]
           hi == PieceEnd(op, op.cur)
       IN  /\ Files([disk EXCEPT !.payload = Stored(@, m.at + op.i, op.val),
                                 !.ragged = @ /\ m.at + op.i <= Len(disk.payload)])
           /\ IF op.i + 1 < m.n THEN op' = [op EXCEPT !.i = @ + 1] /\ mem' = mem
              ELSE IF op.k < Len(op.ops) THEN op' = [op EXCEPT !.k = @ + 1, !.i = 0] /\ mem' = mem
              ELSE IF NewOps = <<>> THEN op' = Planned(op, hi, mem) /\ mem' = Allocated(op, hi, mem)
              ELSE op' = [op EXCEPT !.pc = "append", !.k = 1, !.published = FALSE] /\ mem' = mem
    /\ UNCHANGED <<allowed, budget>>

WriteFault ==
    /\ op.pc = "write" /\ Fault /\ Returns("failed")
    /\ \E ragged \in {disk.ragged, op.ops[op.k].at + op.i > Len(disk.payload)} :
          Files([disk EXCEPT !.ragged = ragged])
    /\ UNCHANGED <<mem, allowed>>

Record(m) == [lo |-> m.lo, n |-> m.n, at |-> m.at]
TooMany(m) == Cardinality(Starts(Append(disk.log, m))) > LiveLimit

\* FilePair::append, in a write: the last record makes the piece visible.
AppendRecord ==
    /\ op.pc = "append"
    /\ LET m == Record(NewOps[op.k])
           hi == PieceEnd(op, op.cur)
           live == [mem EXCEPT !.segs = InsertAll(Trim(@, op.cur, hi),
                                                 [i \in DOMAIN op.ops |-> Record(op.ops[i])])]
           next == [op EXCEPT !.changed = TRUE]
       IN  IF TooMany(m)
           THEN /\ Returns("failed") /\ disk' = disk
                /\ mem' = [mem EXCEPT !.journal_failed = op.published]
           ELSE /\ Files([disk EXCEPT !.log = Append(@, m)])
                /\ IF op.k < Len(NewOps)
                   THEN op' = [op EXCEPT !.k = @ + 1, !.published = TRUE] /\ mem' = mem
                   ELSE op' = Planned(next, hi, live) /\ mem' = Allocated(next, hi, live)
    /\ UNCHANGED <<allowed, budget>>

ZeroPieces ==
    {[lo |-> s, n |-> PieceEnd(op, s) - s, at |-> Zero] :
        s \in {s \in op.lo .. op.hi-1 : (s - op.lo) % MaxLength = 0}}

\* FilePair::append, in a discard: nothing is visible before the last one.
AppendZero ==
    /\ op.pc = "zero"
    /\ LET m == [lo |-> op.cur, n |-> PieceEnd(op, op.cur) - op.cur, at |-> Zero]
       IN  IF TooMany(m)
           THEN /\ Returns("failed") /\ disk' = disk
                /\ mem' = [mem EXCEPT !.journal_failed = op.cur # op.lo]
           ELSE /\ Files([disk EXCEPT !.log = Append(@, m)])
                /\ IF End(m) < op.hi THEN op' = [op EXCEPT !.cur = End(m)] /\ mem' = mem
                   ELSE /\ op' = [op EXCEPT !.pc = "returned", !.changed = TRUE]
                        /\ mem' = [mem EXCEPT !.segs = Trim(@, op.lo, op.hi) \union ZeroPieces]
    /\ UNCHANGED <<allowed, budget>>

\* A failed append may leave part of a record: the writer is finished.
AppendFault ==
    /\ op.pc \in {"append", "zero"} /\ Fault /\ Returns("failed")
    /\ \E torn \in BOOLEAN : Files([disk EXCEPT !.torn = torn])
    /\ mem' = [mem EXCEPT !.poisoned = TRUE, !.journal_failed = TRUE]
    /\ UNCHANGED allowed

\* Graceful shutdown: terminal for this instance unless the log has failed.
Checkpoint ==
    /\ mem.ready /\ ~mem.checkpointed /\ op = NoOp /\ ~mem.journal_failed
    /\ mem' = [mem EXCEPT !.checkpointed = TRUE]
    /\ UNCHANGED <<disk, op, allowed, budget>>

GrowRequest(goal) ==
    /\ Serving /\ (mem.journal_failed => mem.growth_pending)
    /\ op' = [NoOp EXCEPT !.kind = "grow", !.pc = "grow", !.goal = goal]
    /\ budget' = [budget EXCEPT !.ops = @ + 1]
    /\ UNCHANGED <<disk, mem, allowed>>

OpenStep ==
    \/ Lookup \/ PublishIntent \/ LinkIndex \/ LinkData \/ RetireIntent \/ RetireStages
    \/ Migrate \/ Opening \/ Load \/ Seal \/ OpenFault

GrowStep ==
    \/ GrowBegins \/ GrowIntent \/ GrowPublished \/ TearHeader \/ WriteHeader
    \/ RetireGrow \/ GrowSettles \/ GrowFault

MutationStep ==
    \/ Prepare \/ Compact \/ Compacted \/ CompactFault \/ WriteSector \/ WriteFault
    \/ AppendRecord \/ AppendZero \/ AppendFault
=============================================================================
