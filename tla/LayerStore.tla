---------------------------- MODULE LayerStore -----------------------------
(***************************************************************************)
(* The sparse layer store of one remote layer (source/layer_store.cpp):    *)
(* readers and warm-ups on Elio workers, one writer thread, and the files  *)
(* of the layer's directory, which survive a crash.                        *)
(*                                                                         *)
(* The bytes of an extent are one of: "good", what the blob really holds;  *)
(* "bad", wrong bytes the remote returned; "rot", bytes damaged on the     *)
(* local disk (torn or lost writes included); "hole", never written.       *)
(* A CRC is modelled by the bytes it was computed from, so a record is     *)
(* "hole" (not present) or the remote bytes it vouches for, and the sha256 *)
(* digest of the layer matches exactly when every extent is "good".        *)
(*                                                                         *)
(* Every atomic load, exchange and store of the hot path is a step of its  *)
(* own; a critical section is one step.  Coalescing of concurrent fetches  *)
(* is the subject of LayerFetch and the background fill of LayerFill: here *)
(* each miss fetches by itself, with the generation it captured first.     *)
(***************************************************************************)
EXTENDS Integers, Sequences, FiniteSets

CONSTANTS
    Extents,        \* extent ids of the layer
    Readers,        \* coroutines inside pread
    Warmers,        \* coroutines inside populate
    Pairs,          \* nonces a staging pair may get (a bound)
    QueueMax,       \* queue_max_bytes, in extents
    TryCount,       \* completion attempts before giving up
    HasDigest,      \* a sha256 digest is configured
    WriteErrors,    \* kinds of the writer's errors: "fatal" (ENOSPC, EIO), "other"
    MaxBad,         \* bound: fetches that return wrong bytes
    MaxRot,         \* bound: extents damaged on disk
    MaxCrash,       \* bound: restarts of the process
    NoPair          \* no descriptor

Clients == Readers \cup Warmers

Remote == {"good", "bad"}

Bytes == Remote \cup {"rot", "hole"}

ASSUME StoreAssumption ==
    /\ IsFiniteSet(Extents)
    /\ Readers \cap Warmers = {}
    /\ IsFiniteSet(Pairs) /\ NoPair \notin Pairs
    /\ QueueMax \in Nat \ {0} /\ TryCount \in Nat \ {0}
    /\ HasDigest \in BOOLEAN
    /\ WriteErrors \subseteq {"fatal", "other"}
    /\ MaxBad \in Nat /\ MaxRot \in Nat /\ MaxCrash \in Nat

VARIABLES
    \* The directory of the layer: it survives a crash.
    files,      \* files[p]: which files of pair p have a name
    data,       \* data[p]: the bytes of p's staging inode
    side,       \* side[p]: the records of p's sidecar
    commit,     \* bytes of overlaybd.commit, or << >> when there is none
    \* The memory of the process.
    state, records, present, generation,
    staging_fd, \* the pair whose staging inode is open for writing
    commit_fd,  \* the commit file is open
    attempts, queue, cache,
    writer,     \* [pc, job, new]: the writer thread
    client,     \* client[c]: a coroutine inside pread or populate
    budget      \* [bad, rot, crash]: what the environment may still do

disk == <<files, data, side, commit>>

core == <<state, generation, staging_fd, commit_fd, attempts>>

vars == <<files, data, side, commit, state, records, present, generation, staging_fd,
          commit_fd, attempts, queue, cache, writer, client, budget>>

Absent == "absent"      \* files[p]: neither file, or both unlinked

NoCommit == << >>

Empty == [e \in Extents |-> "hole"]

Present(recs) == {e \in Extents : recs[e] # "hole"}

ExtentCount == Cardinality(Extents)

NoJob == [clear |-> FALSE, eid |-> 0, val |-> "hole", gen |-> 0]

Idle(v) == [pc |-> "idle", part |-> FALSE, eid |-> 0, rec |-> "hole", gen |-> 0,
            fd |-> NoPair, val |-> v]

WriterAt(pc) == [pc |-> pc, job |-> NoJob, new |-> NoPair]

-----------------------------------------------------------------------------
(* open: bind the commit file, resume a valid pair or create a fresh one.  *)

Loadable(p) == files[p] = "both"

Unused(p) == files[p] = Absent /\ p # staging_fd /\ \A c \in Clients : client[c].fd # p

\* find_valid_pair keeps one loadable pair and deletes all other files.
Keep(p) ==
    /\ files' = [q \in Pairs |-> IF q = p THEN "both" ELSE Absent]
    /\ data' = [q \in Pairs |-> IF q = p /\ Loadable(p) THEN data[p] ELSE Empty]
    /\ side' = [q \in Pairs |-> IF q = p /\ Loadable(p) THEN side[p] ELSE Empty]
    /\ records' = side'[p]
    /\ present' = Cardinality(Present(side'[p]))
    /\ staging_fd' = p
    /\ state' = "Filling"
    /\ commit_fd' = FALSE
    \* kick_completion_check_
    /\ writer' = WriterAt(IF present' = ExtentCount THEN "verify" ELSE "wait")

OpenCommit ==
    /\ commit # NoCommit
    /\ files' = [q \in Pairs |-> Absent]      \* sweep_stale_layer_store_pairs
    /\ data' = [q \in Pairs |-> Empty] /\ side' = [q \in Pairs |-> Empty]
    /\ records' = Empty /\ present' = 0
    /\ staging_fd' = NoPair
    /\ state' = "Complete" /\ commit_fd' = TRUE
    /\ writer' = WriterAt("none")

OpenPair ==
    /\ commit = NoCommit
    /\ \E p \in Pairs :
         /\ \/ Loadable(p)
            \/ \A q \in Pairs : ~Loadable(q)
         /\ Keep(p)

(* The process dies or closes the store, and opens it again. *)
Reopen ==
    /\ budget.crash > 0
    /\ budget' = [budget EXCEPT !.crash = @ - 1]
    /\ OpenCommit \/ OpenPair
    /\ generation' = 1 /\ attempts' = 0
    /\ queue' = <<>> /\ cache' = {}
    /\ client' = [c \in Clients |-> Idle("none")]
    /\ UNCHANGED commit

Init ==
    /\ \E p \in Pairs :
         /\ files = [q \in Pairs |-> IF q = p THEN "both" ELSE Absent]
         /\ staging_fd = p
    /\ data = [q \in Pairs |-> Empty] /\ side = [q \in Pairs |-> Empty]
    /\ commit = NoCommit
    /\ state = "Filling" /\ records = Empty /\ present = 0
    /\ generation = 1 /\ commit_fd = FALSE /\ attempts = 0
    /\ queue = <<>> /\ cache = {}
    /\ writer = WriterAt(IF ExtentCount = 0 THEN "verify" ELSE "wait")
    /\ client = [c \in Clients |-> Idle("none")]
    /\ budget = [bad |-> MaxBad, rot |-> MaxRot, crash |-> MaxCrash]

-----------------------------------------------------------------------------
(* pread of one extent, and populate of one extent. *)

At(c, pc) == client[c].pc = pc

Set(c, fields) == client' = [client EXCEPT ![c] = fields]

Finish(c, v) == Set(c, Idle(v))

\* What a client step leaves alone.
Quiet == UNCHANGED <<disk, core, records, present, queue, cache, writer, budget>>

\* Only the first extent of a pread is served from the commit file; a store
\* that completes in the middle of the loop still fetches the rest.
PreadStart(c, e, first) ==
    /\ c \in Readers /\ At(c, "idle")
    /\ Set(c, [Idle("none") EXCEPT
                 !.eid = e,
                 !.pc = CASE state = "Complete" /\ first -> "commit"
                          [] state = "Filling" -> "record"
                          [] OTHER -> "miss"])
    /\ Quiet

ReadCommit(c) ==
    /\ At(c, "commit")
    /\ \/ Finish(c, IF commit_fd THEN commit[client[c].eid] ELSE "ebadf")
       \/ Finish(c, "error")
    /\ Quiet

LoadRecord(c) ==
    /\ At(c, "record")
    /\ LET rec == records[client[c].eid] IN
         Set(c, [client[c] EXCEPT !.rec = rec,
                                  !.pc = IF rec = "hole" THEN "miss" ELSE "generation"])
    /\ Quiet

LoadGeneration(c) ==
    /\ At(c, "generation")
    /\ Set(c, [client[c] EXCEPT !.gen = generation, !.pc = "fd"])
    /\ Quiet

\* Only a partial-extent read uses the cache.
LoadFd(c) ==
    /\ At(c, "fd")
    /\ \E part \in BOOLEAN :
         Set(c, [client[c] EXCEPT !.fd = staging_fd, !.part = part,
                                  !.pc = IF part THEN "find" ELSE "file"])
    /\ Quiet

Entry(c) == [eid |-> client[c].eid, rec |-> client[c].rec, gen |-> client[c].gen,
             fd |-> client[c].fd, val |-> client[c].val]

SameKey(x, y) == x.eid = y.eid /\ x.rec = y.rec /\ x.gen = y.gen /\ x.fd = y.fd

cache_identity_current(x) ==
    /\ state = "Filling"
    /\ generation = x.gen
    /\ staging_fd = x.fd
    /\ records[x.eid] = x.rec

find_verified(c) ==
    /\ At(c, "find")
    /\ \/ \E x \in cache : /\ SameKey(x, Entry(c)) /\ cache_identity_current(x)
                           /\ Finish(c, x.val)
       \/ /\ ~\E x \in cache : SameKey(x, Entry(c)) /\ cache_identity_current(x)
          /\ Set(c, [client[c] EXCEPT !.pc = "file"])
    /\ Quiet

\* Mutant: the CRC is not checked.
ReadFileUnchecked(c) ==
    /\ At(c, "file")
    /\ Finish(c, data[client[c].fd][client[c].eid])
    /\ Quiet

\* Reads the whole extent from the captured descriptor and checks its CRC; a
\* local read error is returned, it neither demotes nor fetches.
ReadFile(c) ==
    LET bytes == data[client[c].fd][client[c].eid] IN
    /\ At(c, "file")
    /\ \/ /\ bytes = client[c].rec
          /\ IF client[c].part
             THEN Set(c, [client[c] EXCEPT !.val = bytes, !.pc = "retain"])
             ELSE Finish(c, bytes)
       \/ /\ bytes # client[c].rec
          /\ Set(c, [Idle("none") EXCEPT !.eid = client[c].eid, !.pc = "demote"])
       \/ Finish(c, "error")
    /\ Quiet

retain_verified(c) ==
    /\ At(c, "retain")
    /\ cache' = IF cache_identity_current(Entry(c))
                THEN {Entry(c)} \cup
                     {x \in cache : x.eid # client[c].eid /\ cache_identity_current(x)}
                ELSE cache
    /\ Finish(c, client[c].val)
    /\ UNCHANGED <<disk, core, records, present, queue, writer, budget>>

\* A CRC mismatch: records_.exchange(0), then the counter, the cache, the sidecar.
Demote(c) ==
    /\ At(c, "demote")
    /\ records' = [records EXCEPT ![client[c].eid] = "hole"]
    /\ Set(c, [client[c] EXCEPT !.pc = IF records[client[c].eid] # "hole"
                                       THEN "subtract" ELSE "invalidate"])
    /\ UNCHANGED <<disk, core, present, queue, cache, writer, budget>>

DemoteCount(c) ==
    /\ At(c, "subtract")
    /\ present' = present - 1
    /\ Set(c, [client[c] EXCEPT !.pc = "invalidate"])
    /\ UNCHANGED <<disk, core, records, queue, cache, writer, budget>>

invalidate_verified(c) ==
    /\ At(c, "invalidate")
    /\ cache' = {x \in cache : x.eid # client[c].eid}
    /\ Set(c, [client[c] EXCEPT !.pc = "clear"])
    /\ UNCHANGED <<disk, core, records, present, queue, writer, budget>>

enqueue_clear(c) ==
    /\ At(c, "clear")
    /\ queue' = IF state = "Filling"
                THEN Append(queue, [NoJob EXCEPT !.clear = TRUE, !.eid = client[c].eid])
                ELSE queue
    /\ Set(c, [client[c] EXCEPT !.pc = "miss"])
    /\ UNCHANGED <<disk, core, records, present, cache, writer, budget>>

\* populate looks at the state, then at the record.
PopulateStart(c, e) ==
    /\ c \in Warmers /\ At(c, "idle")
    /\ state = "Filling" /\ records[e] = "hole"
    /\ Set(c, [Idle("none") EXCEPT !.eid = e, !.pc = "gate"])
    /\ Quiet

\* After the admission gate: skipped (EAGAIN), or the extent is no longer
\* wanted (a result with no data and no error), or fetch it.
PopulateAdmitted(c) ==
    /\ At(c, "gate")
    /\ \/ Finish(c, "eagain")
       \/ Set(c, IF state = "Filling" /\ records[client[c].eid] = "hole"
                 THEN [client[c] EXCEPT !.pc = "miss"]
                 ELSE [client[c] EXCEPT !.pc = "check", !.val = "null", !.gen = generation])
    /\ Quiet

\* The starter captures the generation before it reads the remote.
Capture(c) ==
    /\ At(c, "miss")
    /\ Set(c, [client[c] EXCEPT !.gen = generation, !.pc = "fetch"])
    /\ Quiet

Fetch(c) ==
    /\ At(c, "fetch")
    /\ \/ Finish(c, "error") /\ UNCHANGED budget
       \/ /\ Set(c, [client[c] EXCEPT !.val = "good", !.pc = "check"])
          /\ UNCHANGED budget
       \/ /\ budget.bad > 0
          /\ budget' = [budget EXCEPT !.bad = @ - 1]
          /\ Set(c, [client[c] EXCEPT !.val = "bad", !.pc = "check"])
    /\ UNCHANGED <<disk, core, records, present, queue, cache, writer>>

CheckRecord(c) ==
    /\ At(c, "check")
    /\ IF state = "Filling" /\ records[client[c].eid] = "hole"
       THEN Set(c, [client[c] EXCEPT !.pc = "enqueue"])
       ELSE Finish(c, client[c].val)
    /\ Quiet

Queued == Cardinality({i \in DOMAIN queue : ~queue[i].clear})

\* Mutant: a fetch of an earlier generation is enqueued.
EnqueueAnyGeneration(c) ==
    /\ At(c, "enqueue") /\ client[c].val # "null"
    /\ queue' = IF state = "Filling" /\ Queued < QueueMax
                THEN Append(queue, [clear |-> FALSE, eid |-> client[c].eid,
                                    val |-> client[c].val, gen |-> client[c].gen])
                ELSE queue
    /\ Finish(c, client[c].val)
    /\ UNCHANGED <<disk, core, records, present, cache, writer, budget>>

\* crc32_of reads the payload first: without one the process dies here.
enqueue_write(c) ==
    /\ At(c, "enqueue") /\ client[c].val # "null"
    /\ queue' = IF state = "Filling" /\ client[c].gen = generation /\ Queued < QueueMax
                THEN Append(queue, [clear |-> FALSE, eid |-> client[c].eid,
                                    val |-> client[c].val, gen |-> client[c].gen])
                ELSE queue
    /\ Finish(c, client[c].val)
    /\ UNCHANGED <<disk, core, records, present, cache, writer, budget>>

Client(c) ==
    \/ \E e \in Extents : \/ \E first \in BOOLEAN : PreadStart(c, e, first)
                          \/ PopulateStart(c, e)
    \/ ReadCommit(c) \/ LoadRecord(c) \/ LoadGeneration(c) \/ LoadFd(c)
    \/ find_verified(c) \/ ReadFile(c) \/ retain_verified(c)
    \/ Demote(c) \/ DemoteCount(c) \/ invalidate_verified(c) \/ enqueue_clear(c)
    \/ PopulateAdmitted(c) \/ Capture(c) \/ Fetch(c) \/ CheckRecord(c) \/ enqueue_write(c)

-----------------------------------------------------------------------------
(* The writer thread: the only one to write files. *)

WAt(pc) == writer.pc = pc

WGoto(pc) == writer' = [writer EXCEPT !.pc = pc]

WDone(pc) == writer' = WriterAt(pc)

\* What the writer's steps leave alone.
WQuiet == UNCHANGED <<client, budget>>

Memory == <<core, records, present, queue, cache>>

\* on_write_error: ENOSPC and EIO lead to bypass, other errors drop the entry.
WriteError ==
    \E err \in WriteErrors : WDone(IF err = "fatal" THEN "bypass" ELSE "wait")

\* writer_main pops a job; process_job drops it unless the store is filling.
PopJob ==
    /\ WAt("wait") /\ queue # <<>>
    /\ queue' = Tail(queue)
    /\ writer' = IF state # "Filling" THEN writer
                 ELSE [writer EXCEPT !.job = Head(queue),
                                     !.pc = IF Head(queue).clear THEN "clear" ELSE "data"]
    /\ UNCHANGED <<disk, core, records, present, cache>> /\ WQuiet

ClearSide ==
    /\ WAt("clear")
    /\ \/ /\ side' = [side EXCEPT ![staging_fd][writer.job.eid] = "hole"]
          /\ WGoto("clear record")
       \/ WriteError /\ UNCHANGED side
    /\ UNCHANGED <<files, data, commit, Memory>> /\ WQuiet

ClearRecord ==
    /\ WAt("clear record")
    /\ records' = [records EXCEPT ![writer.job.eid] = "hole"]
    /\ WGoto(IF records[writer.job.eid] # "hole" THEN "clear count" ELSE "clear cache")
    /\ UNCHANGED <<disk, core, present, queue, cache>> /\ WQuiet

ClearCount ==
    /\ WAt("clear count")
    /\ present' = present - 1
    /\ WGoto("clear cache")
    /\ UNCHANGED <<disk, core, records, queue, cache>> /\ WQuiet

ClearCache ==
    /\ WAt("clear cache")
    /\ cache' = {x \in cache : x.eid # writer.job.eid}
    /\ WDone("wait")
    /\ UNCHANGED <<disk, core, records, present, queue>> /\ WQuiet

\* pwrite_all of the extent; when it fails part of the extent may be written.
WriteData ==
    /\ WAt("data")
    /\ \/ /\ data' = [data EXCEPT ![staging_fd][writer.job.eid] = writer.job.val]
          /\ WGoto("side")
       \/ /\ WriteError
          /\ \E v \in {data[staging_fd][writer.job.eid], "rot"} :
               data' = [data EXCEPT ![staging_fd][writer.job.eid] = v]
    /\ UNCHANGED <<files, side, commit, Memory>> /\ WQuiet

\* The record lands only after the data.
WriteSide ==
    /\ WAt("side")
    /\ \/ /\ side' = [side EXCEPT ![staging_fd][writer.job.eid] = writer.job.val]
          /\ WGoto("publish")
       \/ WriteError /\ UNCHANGED side
    /\ UNCHANGED <<files, data, commit, Memory>> /\ WQuiet

PublishRecord ==
    /\ WAt("publish")
    /\ records' = [records EXCEPT ![writer.job.eid] = writer.job.val]
    /\ IF records[writer.job.eid] = "hole" THEN WGoto("count") ELSE WDone("wait")
    /\ UNCHANGED <<disk, core, present, queue, cache>> /\ WQuiet

CountRecord ==
    /\ WAt("count")
    /\ present' = present + 1
    /\ WDone(IF present' = ExtentCount THEN "verify" ELSE "wait")
    /\ UNCHANGED <<disk, core, records, queue, cache>> /\ WQuiet

\* Mutant: trusts the records instead of reading the file back.
VerifyTrustsRecords ==
    /\ WAt("verify")
    /\ attempts' = attempts + 1
    /\ WGoto(CASE ~HasDigest \/ (\A e \in Extents : records[e] = "good") -> "rename"
               [] attempts' >= TryCount -> "bypass"
               [] OTHER -> "restart")
    /\ UNCHANGED <<disk, state, generation, staging_fd, commit_fd, records, present,
                    queue, cache>> /\ WQuiet

\* complete_layer: the whole-file digest decides.  A read-back that fails
\* counts as a mismatch; when no digest can be computed the store gives up.
Verify ==
    /\ WAt("verify")
    /\ attempts' = attempts + 1
    /\ \/ /\ ~HasDigest \/ (\A e \in Extents : data[staging_fd][e] = "good")
          /\ WGoto("rename")
       \/ /\ HasDigest
          /\ WriteErrors # {} \/ (\E e \in Extents : data[staging_fd][e] # "good")
          /\ WGoto(IF attempts' >= TryCount THEN "bypass" ELSE "restart")
       \/ /\ HasDigest /\ WriteErrors # {}
          /\ WGoto("bypass")
    /\ UNCHANGED <<disk, state, generation, staging_fd, commit_fd, records, present,
                    queue, cache>> /\ WQuiet

Rename ==
    /\ WAt("rename")
    /\ \/ /\ commit' = data[staging_fd]
          /\ files' = [files EXCEPT ![staging_fd] = "side"]
          /\ WGoto("unlink sidecar")
       \/ /\ WriteErrors # {}
          /\ WDone("bypass") /\ UNCHANGED <<commit, files>>
    /\ UNCHANGED <<data, side, Memory>> /\ WQuiet

UnlinkSidecar ==
    /\ WAt("unlink sidecar")
    /\ files' = [files EXCEPT ![staging_fd] = Absent]
    /\ WGoto("commit fd")
    /\ UNCHANGED <<data, side, commit, Memory>> /\ WQuiet

BindCommit ==
    /\ WAt("commit fd")
    /\ commit_fd' = TRUE
    /\ WGoto("complete")
    /\ UNCHANGED <<disk, state, generation, staging_fd, attempts, records, present,
                    queue, cache>> /\ WQuiet

EnterComplete ==
    /\ WAt("complete")
    /\ state' = "Complete"
    /\ WGoto("drop cache")
    /\ UNCHANGED <<disk, generation, staging_fd, commit_fd, attempts, records, present,
                    queue, cache>> /\ WQuiet

EnterBypass ==
    /\ WAt("bypass")
    /\ state' = "Bypass"
    /\ WGoto("drop cache")
    /\ UNCHANGED <<disk, generation, staging_fd, commit_fd, attempts, records, present,
                    queue, cache>> /\ WQuiet

\* Mutant: restart_fresh clears the cache before it replaces the pair only.
ClearWithoutFence ==
    /\ \/ WAt("drop cache") /\ WDone("wait") /\ cache' = {}
       \/ WAt("restart cache") /\ WGoto("restart records") /\ cache' = {}
       \/ WAt("fence cache") /\ WGoto("unlink old staging") /\ UNCHANGED cache
    /\ UNCHANGED <<disk, core, records, present, queue>> /\ WQuiet

\* clear_verified, at the end of a transition and twice in restart_fresh.
clear_verified ==
    /\ \/ WAt("drop cache") /\ WDone("wait")
       \/ WAt("restart cache") /\ WGoto("restart records")
       \/ WAt("fence cache") /\ WGoto("unlink old staging")
    /\ cache' = {}
    /\ UNCHANGED <<disk, core, records, present, queue>> /\ WQuiet

-----------------------------------------------------------------------------
(* restart_fresh, after a digest mismatch. *)

NextGeneration ==
    /\ WAt("restart")
    /\ generation' = generation + 1
    /\ WGoto("restart cache")
    /\ UNCHANGED <<disk, state, staging_fd, commit_fd, attempts, records, present,
                    queue, cache>> /\ WQuiet

ResetRecords ==
    /\ WAt("restart records")
    /\ records' = Empty
    /\ WGoto("restart count")
    /\ UNCHANGED <<disk, core, present, queue, cache>> /\ WQuiet

ResetCount ==
    /\ WAt("restart count")
    /\ present' = 0
    /\ WGoto("restart queue")
    /\ UNCHANGED <<disk, core, records, queue, cache>> /\ WQuiet

ResetQueue ==
    /\ WAt("restart queue")
    /\ queue' = <<>>
    /\ WGoto("create staging")
    /\ UNCHANGED <<disk, core, records, present, cache>> /\ WQuiet

\* create_fresh_pair: a new staging file, then a sidecar that is valid only
\* once its header is whole.  A failure removes what it made.
CreateStaging ==
    /\ WAt("create staging")
    /\ \/ \E p \in Pairs :
            /\ Unused(p)
            /\ files' = [files EXCEPT ![p] = "staging"]
            /\ data' = [data EXCEPT ![p] = Empty]
            /\ side' = [side EXCEPT ![p] = Empty]
            /\ writer' = [writer EXCEPT !.pc = "create sidecar", !.new = p]
       \/ /\ WriteErrors # {} /\ WDone("bypass")
          /\ UNCHANGED <<files, data, side>>
    /\ UNCHANGED <<commit, Memory>> /\ WQuiet

CreateSidecar ==
    /\ WAt("create sidecar")
    /\ \/ /\ files' = [files EXCEPT ![writer.new] = "both"]
          /\ WGoto("publish fd")
       \/ /\ WriteErrors # {}
          /\ files' = [files EXCEPT ![writer.new] = Absent]
          /\ WDone("bypass")
    /\ UNCHANGED <<data, side, commit, Memory>> /\ WQuiet

\* The old descriptor is retired, not closed; the writer keeps its name.
PublishFd ==
    /\ WAt("publish fd")
    /\ staging_fd' = writer.new
    /\ writer' = [writer EXCEPT !.pc = "fence cache", !.new = staging_fd]
    /\ UNCHANGED <<disk, state, generation, commit_fd, attempts, records, present,
                    queue, cache>> /\ WQuiet

UnlinkOld ==
    /\ \/ /\ WAt("unlink old staging")
          /\ files' = [files EXCEPT ![writer.new] = "side"]
          /\ WGoto("unlink old sidecar")
       \/ /\ WAt("unlink old sidecar")
          /\ files' = [files EXCEPT ![writer.new] = Absent]
          /\ WDone("wait")
    /\ UNCHANGED <<data, side, commit, Memory>> /\ WQuiet

Writer ==
    \/ PopJob
    \/ ClearSide \/ ClearRecord \/ ClearCount \/ ClearCache
    \/ WriteData \/ WriteSide \/ PublishRecord \/ CountRecord
    \/ Verify \/ Rename \/ UnlinkSidecar \/ BindCommit \/ EnterComplete
    \/ EnterBypass \/ clear_verified
    \/ NextGeneration \/ ResetRecords \/ ResetCount \/ ResetQueue
    \/ CreateStaging \/ CreateSidecar \/ PublishFd \/ UnlinkOld

(* A persisted extent is damaged: a write lost or torn by a power failure, *)
(* a medium error.  Never of the commit file, nor of what was verified and *)
(* is about to be renamed: nothing checks those bytes again.               *)
Rot ==
    /\ budget.rot > 0
    /\ commit = NoCommit /\ writer.pc # "rename"
    /\ \E p \in Pairs, e \in Extents :
         /\ files[p] = "both" /\ data[p][e] \in Remote
         /\ data' = [data EXCEPT ![p][e] = "rot"]
    /\ budget' = [budget EXCEPT !.rot = @ - 1]
    /\ UNCHANGED <<files, side, commit, Memory, writer, client>>

Next == (\E c \in Clients : Client(c)) \/ Writer \/ Rot \/ Reopen

Spec == Init /\ [][Next]_vars

-----------------------------------------------------------------------------

\* With a digest configured, a read never returns damaged or unwritten bytes,
\* nor reads through a descriptor that was never opened: whatever crashes, torn
\* writes, restarts and races happen before the layer is committed, it returns
\* bytes the remote served, or an error.
ReadsAreRemoteBytes ==
    HasDigest => \A c \in Readers : client[c].val \notin {"rot", "hole", "ebadf"}

\* overlaybd.commit only ever appears with exactly the blob's bytes: neither
\* wrong remote bytes nor disk damage survive complete_layer.
CommitIsVerified ==
    HasDigest /\ commit # NoCommit => \A e \in Extents : commit[e] = "good"

InRestart == {"restart cache", "restart records", "restart count", "restart queue"}

\* Bytes fetched for a failed attempt never reach the retry pair: a queued
\* or running write belongs to the current generation, except while
\* restart_fresh is about to discard the queue.
NoStaleGeneration ==
    /\ writer.pc \notin InRestart =>
          \A i \in DOMAIN queue : queue[i].clear \/ queue[i].gen = generation
    /\ writer.pc \in {"data", "side", "publish", "count"} => writer.job.gen = generation

\* The verified-extent cache holds nothing of a replaced pair or a finished
\* attempt once the writer has left the transition: the second
\* clear_verified of restart_fresh catches the reader that combined the new
\* generation with the old descriptor.
CacheIsCurrent ==
    writer.pc \in {"wait", "data", "side", "publish", "count", "unlink old staging"} =>
        \A x \in cache : /\ state = "Filling"
                          /\ x.gen = generation /\ x.fd = staging_fd

=============================================================================
