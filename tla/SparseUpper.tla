----------------------------- MODULE SparseUpper -----------------------------
(***************************************************************************)
(* The sparse upper: a file whose extents say who owns a block.  A hole is *)
(* inherited from the lowers, an unwritten extent reads as zeroes, a       *)
(* written one is data.  SparseRwLayer under a MergedWritable, and the     *)
(* offline export of the file to a sealed layer.                           *)
(*                                                                         *)
(* Guests address sectors; the file system allocates blocks.  A block is   *)
(* written as a whole or not at all (a page-aligned buffer, host alive), so*)
(* a process exit keeps what the file holds.  Op_mu_ excludes readers and  *)
(* other mutations from a mutation, hence one operation at a time.         *)
(***************************************************************************)
EXTENDS Naturals, Sequences, FiniteSets

CONSTANTS
    Blocks,     \* bound: blocks of the largest file
    PerBlock,   \* sectors of a block
    LowerSize,  \* sectors of the lower layers
    Sizes,      \* bound: sizes asked for, in sectors
    Ranges,     \* bound: the ranges written and discarded, <<lo, hi>>
    MaxOps,     \* bound: mutations
    MaxFaults   \* bound: I/O and allocation failures

ASSUME Geometry == Blocks \in Nat /\ PerBlock \in Nat \ {0} /\ LowerSize \in Nat
ASSUME Bounds == MaxOps \in Nat /\ MaxFaults \in Nat
ASSUME SizesCoverLowers ==
    \A n \in Sizes : n \in Nat /\ n >= LowerSize /\ n % PerBlock = 0 /\ n <= Blocks * PerBlock
ASSUME RangesAreProper == \A r \in Ranges : r \in Nat \X Nat /\ r[1] < r[2]

VARIABLES
    disk,       \* the file: size, state of each block, bytes of each sector
    owner,      \* who holds the inode lock
    top,        \* SparseRwLayer: its segments and whether they are valid
    vsize,      \* size of the merged view
    index,      \* the merged index, or none
    op,         \* the mutation that holds op_mu_
    allowed,    \* sector -> what a read may return
    export,     \* the export in progress
    target,     \* the exported file, or none
    budget

vars == <<disk, owner, top, vsize, index, op, allowed, export, target, budget>>
device == <<top, vsize, index, op>>

BlockIds == 0 .. Blocks - 1
Sectors == 0 .. Blocks * PerBlock - 1
Zero == 0
LowerByte == MaxOps + 1
Lower(s) == IF s < LowerSize THEN LowerByte ELSE Zero
Block(s) == s \div PerBlock
Of(b) == b * PerBlock .. (b + 1) * PerBlock - 1

NoTop == [segs |-> [s \in Sectors |-> "hole"], valid |-> FALSE, vsize |-> 0, life |-> "closed"]
NoIndex == <<>>
NoOp == [pc |-> "idle", kind |-> "none", at |-> 0, hi |-> 0, lo |-> 0, v |-> 0,
         fast |-> FALSE, snap |-> FALSE, failed |-> FALSE]
NoExport == [pc |-> "idle", size |-> 0, art |-> <<>>]
NoTarget == <<>>

Init ==
    /\ disk = [size |-> 0, kind |-> [b \in BlockIds |-> "hole"], val |-> [s \in Sectors |-> Zero]]
    /\ owner = "none" /\ top = NoTop /\ vsize = 0 /\ index = NoIndex /\ op = NoOp
    /\ allowed = [s \in Sectors |-> {Lower(s)}]
    /\ export = NoExport /\ target = NoTarget
    /\ budget = [ops |-> 0, faults |-> MaxFaults]

Charge == budget.faults > 0 /\ budget' = [budget EXCEPT !.faults = @ - 1]

----------------------------------------------------------------------------
(* What the file and the view say. *)

\* The file's own bytes: unwritten and missing blocks read as zeroes.
FileByte(d, s) == IF d.kind[Block(s)] = "data" THEN d.val[s] ELSE Zero

\* scan_sparse_extents(): every sector gets the state of its block.
Scan(d) == [s \in Sectors |-> d.kind[Block(s)]]

Resolve(place, d, s) ==
    CASE place = "hole" -> Lower(s)
      [] place = "zero" -> Zero
      [] place = "data" -> FileByte(d, s)
View(s) == Resolve(index[s], disk, s)
Recovered(d, s) == Resolve(Scan(d)[s], d, s)

\* rebuild_index(): fails without valid segments, and then no index is left.
Rebuilt(t) == IF t.valid THEN t.segs ELSE NoIndex

----------------------------------------------------------------------------
(* Open, grow, checkpoint and exit of the device. *)

\* open_sync(): the lock, the size, then the scan.  A failure before the
\* size is set changes nothing.
Larger(m, n) == IF m > n THEN m ELSE n
OpenDevice(goal) ==
    LET size == Larger(goal, disk.size)
        t == [segs |-> Scan(disk), valid |-> TRUE, vsize |-> size, life |-> "open"]
    IN  /\ owner = "none"
        /\ disk' = [disk EXCEPT !.size = size]
        /\ \/ /\ owner' = "device" /\ top' = t
              /\ vsize' = Larger(size, LowerSize) /\ index' = Rebuilt(t)
              /\ UNCHANGED budget
           \/ Charge /\ UNCHANGED <<owner, top, vsize, index>>
        /\ UNCHANGED <<op, allowed, export, target>>

\* begin_data_op(), begin_grow_op() and begin_checkpoint_op(): open, and the
\* last two only without an operation in progress.
Ready == owner = "device" /\ op.pc = "idle" /\ top.life = "open"

\* The file is sized before the larger window is published.
Grow(goal) ==
    /\ Ready /\ goal > vsize
    /\ disk' = [disk EXCEPT !.size = goal]
    /\ top' = [top EXCEPT !.vsize = goal] /\ vsize' = goal
    /\ UNCHANGED <<owner, index, op, allowed, export, target, budget>>

\* checkpoint(): mutations end with it; a failure reopens admission.
Checkpoint ==
    /\ Ready
    /\ top' = [top EXCEPT !.life = "checkpointed"]
    /\ UNCHANGED <<disk, owner, vsize, index, op, allowed, export, target, budget>>

\* The process ends, at any point; the file stays as it is.
Exit ==
    /\ owner = "device" /\ owner' = "none"
    /\ top' = NoTop /\ vsize' = 0 /\ index' = NoIndex /\ op' = NoOp
    /\ UNCHANGED <<disk, allowed, export, target, budget>>

----------------------------------------------------------------------------
(* write_extents(), for writes and discards. *)

\* An invalid view is scanned again before it is used.
Repaired == IF top.valid THEN top ELSE [top EXCEPT !.segs = Scan(disk), !.valid = TRUE]

\* range_is_data()
KnownData(segs, lo, hi) == \A s \in lo .. hi - 1 : segs[s] = "data"

\* A write repairs a missing index, a discard rebuilds it always; either is
\* refused when that fails.
Start(kind, lo, hi, v) ==
    /\ Ready /\ hi <= vsize /\ hi <= top.vsize
    /\ budget.ops < MaxOps /\ budget' = [budget EXCEPT !.ops = @ + 1]
    /\ index' = IF kind = "write" /\ index # NoIndex THEN index ELSE Rebuilt(top)
    /\ index' # NoIndex
    /\ top' = Repaired
    /\ op' = [pc |-> "block", kind |-> kind, at |-> lo, lo |-> lo, hi |-> hi, v |-> v,
              fast |-> kind = "write" /\ KnownData(top'.segs, lo, hi),
              snap |-> index # NoIndex, failed |-> FALSE]
    /\ allowed' = [s \in Sectors |-> IF s \in lo .. hi - 1 THEN allowed[s] \union {v} ELSE allowed[s]]
    /\ UNCHANGED <<disk, owner, vsize, export, target>>
Write(r) == Start("write", r[1], r[2], budget.ops + 1)
Discard(r) == Start("discard", r[1], r[2], Zero)

\* The rebuild before a discard runs out of memory.
DiscardRefused ==
    /\ Ready /\ index # NoIndex /\ Charge
    /\ index' = NoIndex
    /\ UNCHANGED <<disk, owner, top, vsize, op, allowed, export, target>>

\* The piece of the request in the block at hand.
Here == Of(Block(op.at))
Piece == Here \cap (op.at .. op.hi - 1)
Whole == Piece = Here
ZeroWhole == op.kind = "discard" /\ Whole

\* MUTANT of CopiesUp: a partial block is written without its neighbours.
CopiesUpNever == FALSE

\* A block that is only partly written and not owned is copied up whole.
Owned == \A s \in Here : top.segs[s] # "hole"
CopiesUp == ~Whole /\ ~Owned
Written == IF CopiesUp THEN Here ELSE Piece

\* The file after the write of the block, or after ZERO_RANGE.  Sectors of a
\* block that becomes data and are not written keep what they read.
BlockWritten(kind) ==
    [disk EXCEPT !.kind[Block(op.at)] = kind,
                 !.val = [s \in Sectors |->
                            CASE s \in Piece -> op.v
                              [] s \in Written \ Piece -> View(s)
                              [] s \in Here \ Written -> FileByte(disk, s)
                              [] OTHER -> disk.val[s]]]
Mutated == {BlockWritten("data")} \union (IF ZeroWhole THEN {BlockWritten("zero")} ELSE {})
BlockEnd == (Block(op.at) + 1) * PerBlock
NextPiece == IF BlockEnd < op.hi THEN BlockEnd ELSE op.hi
Advance == op' = [op EXCEPT !.at = NextPiece, !.pc = IF NextPiece = op.hi THEN "refresh" ELSE "block"]

\* A write of what is data already changes no mapping.
Overwrite ==
    /\ op.pc = "block" /\ op.fast
    /\ disk' \in Mutated /\ Advance
    /\ UNCHANGED <<owner, top, vsize, index, allowed, export, target, budget>>

\* The file first, then the segments prepared for it.
Claimed ==
    [s \in Sectors |-> IF s \notin Written THEN top.segs[s]
                       ELSE IF ZeroWhole THEN "zero" ELSE "data"]
BlockDone ==
    /\ op.pc = "block" /\ ~op.fast
    /\ disk' \in Mutated /\ Advance
    /\ top' = [top EXCEPT !.segs = Claimed]
    /\ UNCHANGED <<owner, vsize, index, allowed, export, target, budget>>

\* A failing write may have reached the file.  The extents are scanned again;
\* when that fails too, the segments are invalid.  A write of known data does
\* not scan; a failed copy-up read or allocation has written nothing yet.
BlockFails ==
    /\ op.pc = "block" /\ Charge
    /\ disk' \in Mutated \union {disk}
    /\ \/ (op.fast \/ disk' = disk) /\ UNCHANGED top
       \/ ~op.fast /\ top' = [top EXCEPT !.segs = Scan(disk'), !.valid = TRUE]
       \/ ~op.fast /\ top' = [top EXCEPT !.valid = FALSE]
    /\ op' = [op EXCEPT !.pc = "refresh", !.failed = TRUE]
    /\ UNCHANGED <<owner, vsize, index, allowed, export, target>>

\* MUTANT of NewIndex: a mutation that failed leaves the index as it was.
NewIndexOnSuccess == IF op.failed THEN index ELSE Rebuilt(top)

\* pwrite() and discard() of the merged view: the index stays when the top
\* proved that its segments did not change; otherwise it is rebuilt.
NewIndex == IF op.fast /\ op.snap /\ ~op.failed THEN index ELSE Rebuilt(top)
Acknowledged ==
    IF op.failed \/ index' = NoIndex THEN allowed
    ELSE [s \in Sectors |-> IF s \in op.lo .. op.hi - 1 THEN {op.v} ELSE allowed[s]]
Refresh ==
    /\ op.pc = "refresh"
    /\ \/ index' = NewIndex /\ UNCHANGED budget
       \/ index' = NoIndex /\ ~(op.fast /\ op.snap /\ ~op.failed) /\ Charge
    /\ allowed' = Acknowledged
    /\ op' = NoOp
    /\ UNCHANGED <<disk, owner, top, vsize, export, target>>

----------------------------------------------------------------------------
(* export_file(): offline, holding the same lock. *)

DataSectors(segs) == {s \in Sectors : segs[s] = "data"}

\* make_plan(): data is packed in the order of its sectors, zeroes are mappings
\* without payload, what is inherited is left out.
Rank(segs, s) == Cardinality({t \in DataSectors(segs) : t <= s})
Plan(segs) == [s \in Sectors |-> [kind |-> segs[s], at |-> IF segs[s] = "data" THEN Rank(segs, s) ELSE 0]]
\* write_delta(): the payload, then the index, the header and the trailer.
Packed(d, segs, i) == FileByte(d, CHOOSE s \in DataSectors(segs) : Rank(segs, s) = i)
Artifact(d, segs, size) ==
    [size |-> size, map |-> Plan(segs),
     payload |-> [i \in 1 .. Cardinality(DataSectors(segs)) |-> Packed(d, segs, i)]]
ArtifactByte(a, s) ==
    CASE a.map[s].kind = "data" -> a.payload[a.map[s].at]
      [] a.map[s].kind = "zero" -> Zero
      [] a.map[s].kind = "hole" -> Lower(s)

exportRest == <<disk, device, allowed, budget>>

Unowned == owner = "none"
\* open_existing() does not create; a size below the file's is refused.
ExportOpen(goal) ==
    /\ Unowned /\ export = NoExport
    /\ disk.size > 0 /\ (goal = 0 \/ goal >= disk.size)
    /\ owner' = IF owner = "none" THEN "export" ELSE owner
    /\ export' = [pc |-> "opened", size |-> IF goal = 0 THEN disk.size ELSE goal, art |-> Scan(disk)]
    /\ UNCHANGED <<exportRest, target>>
\* checkpoint(), then the delta into a file of a private name, synchronized.
ExportWrite ==
    /\ export.pc = "opened"
    /\ export' = [export EXCEPT !.pc = "staged", !.art = Artifact(disk, export.art, export.size)]
    /\ UNCHANGED <<exportRest, owner, target>>

\* MUTANT of Accepted: an existing output of the same size is taken for ours.
AcceptedBySize == Len(target.payload) = Len(export.art.payload)

\* publish(): a rename that never replaces; an existing output is accepted
\* when it has the same bytes, and synchronized again.
Publishable == target = NoTarget
Accepted == target = export.art
ExportPublish ==
    /\ export.pc = "staged"
    /\ \/ Publishable /\ target' = export.art /\ export' = [export EXCEPT !.pc = "published"]
       \/ ~Publishable /\ Accepted /\ export' = [export EXCEPT !.pc = "published"] /\ UNCHANGED target
    /\ UNCHANGED <<exportRest, owner>>
ExportDone ==
    /\ export.pc = "published"
    /\ export' = [export EXCEPT !.pc = "done"]
    /\ UNCHANGED <<exportRest, owner, target>>
\* The end of the export, by success, by an error or by an exit: the private
\* file goes or is orphaned, a published output stays.
ExportEnd ==
    /\ export # NoExport
    /\ export' = NoExport
    /\ owner' = IF owner = "export" THEN "none" ELSE owner
    /\ UNCHANGED <<exportRest, target>>

Next ==
    \/ \E n \in Sizes : OpenDevice(n) \/ Grow(n) \/ ExportOpen(n)
    \/ ExportOpen(0)
    \/ \E r \in Ranges : Write(r) \/ Discard(r)
    \/ Checkpoint \/ Exit \/ DiscardRefused
    \/ Overwrite \/ BlockDone \/ BlockFails \/ Refresh
    \/ ExportWrite \/ ExportPublish \/ ExportDone \/ ExportEnd
Spec == Init /\ [][Next]_vars

----------------------------------------------------------------------------
\* Whatever step the process exits at, the extents alone give back every
\* acknowledged write and discard, old or new bytes for one that was under
\* way or failed, and the untouched lower bytes beside them.
ExtentsAreEnough == \A s \in 0 .. disk.size - 1 : Recovered(disk, s) \in allowed[s]

\* Between mutations, a device that can be read shows exactly what a reopen
\* would show: a failed mutation never leaves an index that says otherwise.
ViewIsRecoverable ==
    owner = "device" /\ op.pc = "idle" /\ index # NoIndex =>
        \A s \in 0 .. vsize - 1 : View(s) = Recovered(disk, s)

\* An export that reported success left a layer that, over the same lowers,
\* reads as the upper does.
ExportIsExact ==
    export.pc = "done" =>
        /\ target.size = export.size
        /\ \A s \in 0 .. target.size - 1 : ArtifactByte(target, s) = Recovered(disk, s)

=============================================================================
