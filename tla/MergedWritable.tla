--------------------------- MODULE MergedWritable ---------------------------
(***************************************************************************)
(* The writable device view: an LSMT upper over immutable lower layers     *)
(* (MergedWritable), composed with the pair that backs it.  Mutations hold *)
(* op_mu_ from the pair's first step to the refresh of the merged index.   *)
(* Readers of an LSMT upper hold nothing: they select a snapshot of the    *)
(* index and read the payload it names later.                              *)
(***************************************************************************)
EXTENDS LsmtPair

CONSTANTS
    Readers,
    Ranges      \* bound: the ranges written and discarded, <<lo, hi>>

VARIABLES
    vsize,      \* vsize_ of the merged view
    index,      \* index_: where each sector is read from, or no snapshot
    reader      \* the reads in progress

vars == <<disk, mem, op, allowed, budget, vsize, index, reader>>

NoIndex == <<>>
NoRead == [pc |-> "idle", s |-> 0, place |-> Hole, held |-> {}]

\* merge_indexes: the upper wins where it has a mapping.
Merged(S) == [s \in Sectors |-> Place(S, s)]

Init ==
    /\ PairInit
    /\ vsize = 0 /\ index = NoIndex
    /\ reader = [r \in Readers |-> NoRead]

\* A read in progress may still return what a sector has held since it began.
Track ==
    reader' = [r \in Readers |->
        IF reader[r].pc = "read" THEN [reader[r] EXCEPT !.held = @ \union allowed'[reader[r].s]]
        ELSE reader[r]]

----------------------------------------------------------------------------
StartAny ==
    \/ \E role \in {"device", "recover"}, goal \in Sizes : Start(role, goal)
    \/ \E goal \in Sizes \union {0} : Start("commit", goal)

Opened ==
    /\ op.pc = "loaded"
    /\ mem' = [mem EXCEPT !.ready = TRUE] /\ op' = NoOp
    /\ vsize' = mem.vsize /\ index' = Merged(mem.segs)
    /\ UNCHANGED <<disk, allowed, budget, reader>>

Leaves ==
    /\ Exit
    /\ vsize' = 0 /\ index' = NoIndex /\ reader' = [r \in Readers |-> NoRead]

\* Every write has a number of its own; a discard leaves zeroes.
Write(lo, hi) == hi <= vsize /\ Begin("write", lo, hi, budget.ops + 1)
Discard(lo, hi) == hi <= vsize /\ Begin("discard", lo, hi, Zero)

\* rebuild_range: only the written range is resolved again; without a
\* snapshot, or where the upper has a hole, the index is merged anew.
Spliced(o) ==
    IF index = NoIndex \/ \E s \in o.lo .. o.hi-1 : Place(mem.segs, s) = Hole
    THEN Merged(mem.segs)
    ELSE [s \in Sectors |-> IF s \in o.lo .. o.hi-1 THEN Place(mem.segs, s) ELSE index[s]]

Acknowledged(o) ==
    [s \in Sectors |-> IF s \in o.lo .. o.hi-1 THEN {o.val} ELSE allowed[s]]

Unchanged(o) == o.kind = "write" /\ index # NoIndex /\ ~o.changed

\* pwrite and discard behind the upper: a snapshot that is provably current
\* stays, a success splices its range, an error rebuilds.
Refresh ==
    /\ op.pc = "returned" /\ op.kind \in {"write", "discard"}
    /\ index' = IF op.res # "ok" THEN Merged(mem.segs)
                ELSE IF Unchanged(op) THEN index ELSE Spliced(op)
    /\ allowed' = IF op.res = "ok" THEN Acknowledged(op) ELSE allowed
    /\ op' = NoOp
    /\ UNCHANGED <<disk, mem, budget, vsize>>
    /\ Track

\* Without memory for it there is no snapshot: reads fail until a mutation
\* rebuilds one, and this operation reports an error.
RefreshFault ==
    /\ op.pc = "returned" /\ op.kind \in {"write", "discard"}
    /\ ~(op.res = "ok" /\ Unchanged(op)) /\ Fault
    /\ index' = NoIndex /\ op' = NoOp
    /\ UNCHANGED <<disk, mem, allowed, vsize, reader>>

\* Growth excludes mutations, not reads.  The upper grows before the view.
Grow(goal) ==
    /\ mem.ready /\ op = NoOp /\ goal > vsize
    /\ IF goal > mem.vsize THEN GrowRequest(goal) /\ vsize' = vsize
       ELSE vsize' = goal /\ UNCHANGED pairVars
    /\ UNCHANGED <<index, reader>>

Grew ==
    /\ op.pc = "returned" /\ op.kind = "grow"
    /\ vsize' = IF op.res = "ok" THEN op.goal ELSE vsize
    /\ op' = NoOp
    /\ UNCHANGED <<disk, mem, allowed, budget, index, reader>>

ReadBegins(r, s) ==
    /\ mem.ready /\ reader[r].pc = "idle" /\ s < vsize /\ index # NoIndex
    /\ reader' = [reader EXCEPT ![r] =
                     [pc |-> "read", s |-> s, place |-> index[s], held |-> allowed[s]]]
    /\ UNCHANGED <<disk, mem, op, allowed, budget, vsize, index>>

ReadEnds(r) ==
    /\ reader[r].pc = "read"
    /\ reader' = [reader EXCEPT ![r] =
                     IF Content(@.place, disk.payload) \in @.held THEN NoRead
                     ELSE [@ EXCEPT !.pc = "stale"]]
    /\ UNCHANGED <<disk, mem, op, allowed, budget, vsize, index>>

PairStep ==
    /\ OpenStep \/ GrowStep \/ MutationStep \/ Checkpoint
    /\ UNCHANGED <<vsize, index>> /\ Track

Next ==
    \/ StartAny /\ UNCHANGED <<vsize, index, reader>>
    \/ PairStep \/ Opened \/ Leaves
    \/ /\ \E range \in Ranges : Write(range[1], range[2]) \/ Discard(range[1], range[2])
       /\ UNCHANGED <<vsize, index>> /\ Track
    \/ Refresh \/ RefreshFault \/ (\E goal \in Sizes : Grow(goal)) \/ Grew
    \/ \E r \in Readers : ReadEnds(r) \/ \E s \in Sectors : ReadBegins(r, s)

Spec == Init /\ [][Next]_vars

----------------------------------------------------------------------------
\* What the files hold never strays from what was acknowledged: in every
\* state, an exit of the process leaves in each sector its last acknowledged
\* contents, or those of a write or discard begun and not acknowledged since.
\* (FilePair::append, compact_sync, recover_grow, open_sync, seal)
SurvivesExit == \A s \in Sectors : DiskValue(s) \in allowed[s]

\* The files can be opened again from every state: a creation that published
\* its intent can be finished, a pair has both its parts with one capacity or
\* a growth that explains the difference, and its log replays.
\* (recover_creation, recover_grow, open_sync, LsmtRwLayer::open_or_create)
Reopens ==
    \/ disk.sealed # <<>>
    \/ disk.init # 0 /\ Candidates
    \/ disk.init = 0 /\ disk.index = 0 /\ disk.grow = <<>>
    \/ /\ disk.init = 0 /\ disk.data # 0 /\ disk.index # 0
       /\ IF disk.grow # <<>> THEN GrowAdmits ELSE Loadable

\* A read that took its snapshot before a write, a discard or a compaction
\* and its payload after returns contents the sector had in between.
\* (MergedWritable::pread against pwrite's allocation)
ReadsAreCurrent == \A r \in Readers : reader[r].pc # "stale"

Capacity ==
    IF disk.sealed # <<>> THEN disk.sealed[1].size
    ELSE IF disk.grow # <<>> THEN disk.grow[2] ELSE Max({disk.data, disk.init})

=============================================================================
