----------------------------- MODULE LayerFill -----------------------------
(***************************************************************************)
(* The background fill of a layer store (LayerStore::run_fill and the      *)
(* parts of the writer thread it waits for): one coroutine walks the       *)
(* missing extents, waits for room in the write-behind queue and for the   *)
(* outcome of the completion check on two manual-reset events, and can be  *)
(* stopped at any time through a cancel token.                             *)
(*                                                                         *)
(* Steps under qmu_ are single steps.  The bytes are left out: whether the *)
(* digest matches is a choice.  Readers appear as the writes they enqueue  *)
(* and, step by step, as the extents they demote.                          *)
(***************************************************************************)
EXTENDS Integers, Sequences, FiniteSets

CONSTANTS
    ExtentCount,    \* extents are 1 .. ExtentCount
    RunCap,         \* coalescing cap, in extents
    QueueMax,       \* queue_max_bytes, in extents
    TryCount,       \* completion attempts before bypass
    Readers,        \* readers that may find a bad checksum
    MaxTrouble      \* bound: entries lost to write errors, and bad checksums

ASSUME FillAssumption ==
    /\ ExtentCount \in Nat \ {0} /\ RunCap \in Nat \ {0}
    /\ QueueMax \in Nat \ {0} /\ TryCount \in Nat \ {0}
    /\ IsFiniteSet(Readers) /\ MaxTrouble \in Nat

VARIABLES
    state, records, present, generation, attempts, queue, queued_bytes,
    fill_stop, cancelled, fill_wake_requested, stopping,
    fill_queue_room, fill_completion,   \* the two events: set or not
    fill,       \* [pc, todo, gen]: the fill coroutine
    writer,     \* [pc, job]: the writer thread
    reader,     \* [pc, eid] of each reader that demotes an extent
    parker,     \* pc of the owner that parks the fill and destroys the store
    budget      \* [trouble, straddled]

store == <<state, records, present, generation, attempts, queue, queued_bytes>>

signals == <<fill_stop, cancelled, fill_wake_requested, stopping, fill_queue_room,
             fill_completion>>

vars == <<state, records, present, generation, attempts, queue, queued_bytes, fill_stop,
          cancelled, fill_wake_requested, stopping, fill_queue_room, fill_completion, fill,
          writer, reader, parker, budget>>

Extents == 1 .. ExtentCount

Missing == Extents \ records

\* WriteJob, by what the writer does with it.
Job == [eid : Extents, clear : BOOLEAN]

\* A thread without a job.
NoJob == [eid |-> 1, clear |-> FALSE]

\* queued_bytes_ counts payload, in extents; a clear job has none.
Full == queued_bytes >= QueueMax

StopSeen == fill_stop \/ state # "Filling"

\* The contiguous run of missing extents that starts at the first one.
Run ==
    LET first == CHOOSE e \in Missing : \A x \in Missing : e <= x IN
    {x \in first .. first + RunCap - 1 : first .. x \subseteq Missing}

Init ==
    /\ state = "Filling" /\ generation = 1 /\ attempts = 0
    /\ queue = <<>> /\ queued_bytes = 0
    /\ records \in SUBSET Extents           \* a fresh or a resumed pair
    /\ present = Cardinality(records)
    /\ fill_stop = FALSE /\ cancelled = FALSE /\ fill_wake_requested = FALSE
    /\ stopping = FALSE
    /\ fill_queue_room = FALSE /\ fill_completion = FALSE
    /\ fill = [pc |-> "sleep", todo |-> {}, gen |-> 0]
    /\ writer = [pc |-> IF present = ExtentCount THEN "verify" ELSE "wait",
                 job |-> NoJob]
    /\ reader = [r \in Readers |-> [pc |-> "away", eid |-> 1]]
    /\ parker = "away"
    /\ budget = [trouble |-> MaxTrouble, straddled |-> FALSE]

-----------------------------------------------------------------------------
(* run_fill *)

FAt(pc) == fill.pc = pc

FGoto(pc) == fill' = [fill EXCEPT !.pc = pc]

FQuiet == UNCHANGED <<store, writer, reader, parker, budget>>

Finish == fill' = [pc |-> "done", todo |-> {}, gen |-> 0]

\* sleep_fill_stop_aware ends (start delay, error backoff or throttle): by its
\* timer or by the token, and then looks whether to go on.
SleepEnds ==
    /\ FAt("sleep")
    /\ IF StopSeen THEN Finish ELSE FGoto("scan")
    /\ UNCHANGED signals /\ FQuiet

Scan ==
    /\ FAt("scan")
    /\ CASE StopSeen -> Finish
         [] ~StopSeen /\ Missing = {} -> FGoto("all present")
         [] OTHER -> fill' = [pc |-> "read", todo |-> Run, gen |-> generation]
    /\ UNCHANGED signals /\ FQuiet

\* Predicate check and reset are one critical section.
AwaitCompletion ==
    /\ FAt("all present")
    /\ IF StopSeen \/ present # ExtentCount
       THEN FGoto("scan") /\ UNCHANGED signals
       ELSE /\ fill_completion' = FALSE
            /\ FGoto("await completion")
            /\ UNCHANGED <<fill_stop, cancelled, fill_wake_requested, stopping,
                           fill_queue_room>>
    /\ FQuiet

CompletionWaitEnds ==
    /\ FAt("await completion")
    /\ \/ fill_completion /\ FGoto("all present")
       \/ cancelled /\ FGoto("scan")
    /\ UNCHANGED signals /\ FQuiet

\* The Fill-class permit, for which see Admission, and the read of the run.
ReadFails ==
    /\ FAt("read")
    /\ fill' = [pc |-> "sleep", todo |-> {}, gen |-> 0]
    /\ UNCHANGED signals /\ FQuiet

ReadSucceeds ==
    /\ FAt("read")
    /\ FGoto("next extent")
    /\ UNCHANGED signals /\ FQuiet

\* The loop over the run; a reader may have been faster.  After the run the
\* walk goes on, at once or throttled.
NextExtent ==
    /\ FAt("next extent")
    /\ \/ /\ fill.todo = {}
          /\ \E pc \in {"scan", "sleep"} : fill' = [pc |-> pc, todo |-> {}, gen |-> 0]
       \/ \E x \in fill.todo :
            /\ \A y \in fill.todo : x <= y
            /\ IF x \in records
               THEN fill' = [fill EXCEPT !.todo = @ \ {x}]
               ELSE FGoto("room")
    /\ UNCHANGED signals /\ FQuiet

wait_queue_room ==
    /\ FAt("room")
    /\ CASE stopping \/ StopSeen -> Finish /\ UNCHANGED signals
         [] ~(stopping \/ StopSeen) /\ ~Full -> FGoto("enqueue") /\ UNCHANGED signals
         [] OTHER -> /\ fill_queue_room' = FALSE
                     /\ FGoto("await room")
                     /\ UNCHANGED <<fill_stop, cancelled, fill_wake_requested, stopping,
                                    fill_completion>>
    /\ FQuiet

RoomWaitEnds ==
    /\ FAt("await room")
    /\ \/ fill_queue_room /\ FGoto("room")
       \/ cancelled /\ Finish
    /\ UNCHANGED signals /\ FQuiet

\* The push of enqueue_write.
EnqueueWrite(e) ==
    /\ queue' = Append(queue, [eid |-> e, clear |-> FALSE])
    /\ queued_bytes' = queued_bytes + 1

\* enqueue_write: a critical section of its own, so it looks for room again.
EnqueueFill ==
    /\ FAt("enqueue")
    /\ LET x == CHOOSE e \in fill.todo : \A y \in fill.todo : e <= y IN
         /\ IF state = "Filling" /\ fill.gen = generation /\ ~Full
            THEN EnqueueWrite(x) ELSE UNCHANGED <<queue, queued_bytes>>
         /\ fill' = [fill EXCEPT !.pc = "next extent", !.todo = @ \ {x}]
    /\ UNCHANGED <<state, records, present, generation, attempts, signals, writer, reader,
                   parker, budget>>

FillStep ==
    \/ SleepEnds \/ Scan \/ AwaitCompletion \/ CompletionWaitEnds
    \/ ReadFails \/ ReadSucceeds \/ NextExtent \/ wait_queue_room
    \/ RoomWaitEnds \/ EnqueueFill

-----------------------------------------------------------------------------
(* The writer thread. *)

WAt(pc) == writer.pc = pc

WGoto(pc) == writer' = [pc |-> pc, job |-> NoJob]

WQuiet == UNCHANGED <<fill, reader, parker>>

\* writer_main: teardown first, then a requested wake, then the queue.
WriterLoop ==
    /\ WAt("wait")
    /\ \/ /\ stopping
          /\ queue' = <<>> /\ queued_bytes' = 0 /\ WGoto("exit")
          /\ UNCHANGED signals
       \/ /\ ~stopping /\ fill_wake_requested
          /\ fill_wake_requested' = FALSE /\ WGoto("signal")
          /\ UNCHANGED <<queue, queued_bytes, fill_stop, cancelled, stopping,
                         fill_queue_room, fill_completion>>
       \/ /\ ~stopping /\ ~fill_wake_requested /\ queue # <<>>
          /\ queue' = Tail(queue)
          /\ queued_bytes' = IF Head(queue).clear THEN queued_bytes ELSE queued_bytes - 1
          /\ writer' = [pc |-> "signal room", job |-> Head(queue)]
          /\ UNCHANGED signals
    /\ UNCHANGED <<state, records, present, generation, attempts, budget>> /\ WQuiet

\* Mutant: a popped entry does not signal room.
SignalRoomNever ==
    /\ WAt("signal room")
    /\ writer' = [writer EXCEPT !.pc = "process"]
    /\ UNCHANGED <<store, signals, budget>> /\ WQuiet

SignalRoom ==
    /\ WAt("signal room")
    /\ fill_queue_room' = TRUE
    /\ writer' = [writer EXCEPT !.pc = "process"]
    /\ UNCHANGED <<store, fill_stop, cancelled, fill_wake_requested, stopping,
                   fill_completion, budget>> /\ WQuiet

\* process_job, up to the record.
Process ==
    /\ WAt("process")
    /\ \/ /\ state # "Filling"
          /\ WGoto("wait") /\ UNCHANGED <<records, budget>>
       \/ /\ state = "Filling" /\ ~writer.job.clear
          /\ records' = records \cup {writer.job.eid}
          /\ WGoto(IF writer.job.eid \in records THEN "wait" ELSE "count")
          /\ UNCHANGED budget
       \/ /\ state = "Filling" /\ writer.job.clear
          /\ records' = records \ {writer.job.eid}
          /\ WGoto(IF writer.job.eid \in records THEN "clear count" ELSE "wait")
          /\ UNCHANGED budget
       \/ /\ state = "Filling"
          /\ WGoto("bypass") /\ UNCHANGED <<records, budget>>
       \/ /\ state = "Filling" /\ budget.trouble > 0
          /\ budget' = [budget EXCEPT !.trouble = @ - 1]
          /\ WGoto("wait") /\ UNCHANGED records
    /\ UNCHANGED <<state, present, generation, attempts, queue, queued_bytes, signals>>
    /\ WQuiet

\* present_, which wraps below zero: no count of extents is reached from there.
Count ==
    /\ \/ /\ WAt("count")
          /\ present' = present + 1
          /\ WGoto(IF present' = ExtentCount THEN "verify" ELSE "wait")
       \/ /\ WAt("clear count")
          /\ present' = present - 1
          /\ WGoto("wait")
    /\ UNCHANGED <<state, records, generation, attempts, queue, queued_bytes, signals, budget>>
    /\ WQuiet

\* complete_layer: commit, retry from an empty pair, or give up.
CompleteLayer ==
    /\ WAt("verify")
    /\ attempts' = attempts + 1
    /\ \/ state' = "Complete" /\ WGoto("signal")
       \/ attempts' < TryCount /\ WGoto("restart") /\ UNCHANGED state
       \/ WGoto("bypass") /\ UNCHANGED state
    /\ UNCHANGED <<records, present, generation, queue, queued_bytes, signals, budget>>
    /\ WQuiet

\* Mutant: the retry pair is published without a signal.
RestartQuietly ==
    /\ \/ /\ WAt("restart")
          /\ generation' = generation + 1 /\ records' = {}
          /\ WGoto("restart count") /\ UNCHANGED <<present, queue, queued_bytes, budget>>
       \/ /\ WAt("restart count")
          /\ present' = 0
          /\ budget' = [budget EXCEPT !.straddled =
                @ \/ \E r \in Readers : reader[r].pc = "subtract"]
          /\ WGoto("restart queue")
          /\ UNCHANGED <<generation, records, queue, queued_bytes>>
       \/ /\ WAt("restart queue")
          /\ queue' = <<>> /\ queued_bytes' = 0
          /\ WGoto("wait")
          /\ UNCHANGED <<generation, records, present, budget>>
    /\ UNCHANGED <<state, attempts, signals>> /\ WQuiet

\* restart_fresh, as far as the fill can see it; the new pair may not come to be.
RestartFresh ==
    /\ \/ /\ WAt("restart")
          /\ generation' = generation + 1 /\ records' = {}
          /\ WGoto("restart count") /\ UNCHANGED <<present, queue, queued_bytes, budget>>
       \/ /\ WAt("restart count")
          /\ present' = 0
          /\ budget' = [budget EXCEPT !.straddled =
                @ \/ \E r \in Readers : reader[r].pc = "subtract"]
          /\ WGoto("restart queue")
          /\ UNCHANGED <<generation, records, queue, queued_bytes>>
       \/ /\ WAt("restart queue")
          /\ queue' = <<>> /\ queued_bytes' = 0
          /\ \E pc \in {"signal", "bypass"} : WGoto(pc)
          /\ UNCHANGED <<generation, records, present, budget>>
    /\ UNCHANGED <<state, attempts, signals>> /\ WQuiet

\* enter_bypass: the state, then stop_fill, then the signals.
EnterBypass ==
    /\ \/ /\ WAt("bypass")
          /\ state' = "Bypass" /\ WGoto("bypass stop")
          /\ UNCHANGED <<fill_stop, cancelled, fill_wake_requested>>
       \/ /\ WAt("bypass stop")
          /\ fill_stop' = TRUE
          /\ cancelled' \in {TRUE, cancelled}
          /\ WGoto("bypass wake") /\ UNCHANGED <<state, fill_wake_requested>>
       \/ /\ WAt("bypass wake")
          /\ fill_wake_requested' = TRUE /\ WGoto("signal")
          /\ UNCHANGED <<state, fill_stop, cancelled>>
    /\ UNCHANGED <<records, present, generation, attempts, queue, queued_bytes, stopping,
                   fill_queue_room, fill_completion, budget>> /\ WQuiet

\* signal_fill_events_from_writer(true): both events, then the token, retried
\* until the allocation it needs succeeds.
SignalAll ==
    /\ \/ /\ WAt("signal")
          /\ fill_queue_room' = TRUE
          /\ WGoto("signal completion") /\ UNCHANGED <<fill_completion, cancelled>>
       \/ /\ WAt("signal completion")
          /\ fill_completion' = TRUE
          /\ WGoto("signal cancel") /\ UNCHANGED <<fill_queue_room, cancelled>>
       \/ /\ WAt("signal cancel")
          /\ cancelled' = (cancelled \/ StopSeen)
          /\ WGoto("wait") /\ UNCHANGED <<fill_queue_room, fill_completion>>
    /\ UNCHANGED <<store, fill_stop, fill_wake_requested, stopping, budget>> /\ WQuiet

WriterStep ==
    \/ WriterLoop \/ SignalRoom \/ Process \/ Count \/ CompleteLayer \/ RestartFresh
    \/ EnterBypass \/ SignalAll

-----------------------------------------------------------------------------
(* Readers, and the owner of the store. *)

\* A reader or prefetch has fetched a missing extent.
ReaderEnqueues ==
    /\ state = "Filling" /\ ~Full /\ ~stopping
    /\ \E e \in Missing : EnqueueWrite(e)
    /\ UNCHANGED <<state, records, present, generation, attempts, signals, fill, writer,
                   reader, parker, budget>>

\* pread: a reader takes the record of a present extent, and the bytes of the
\* file do not match it.
ReaderMismatch(r) ==
    /\ reader[r].pc = "away" /\ state = "Filling" /\ budget.trouble > 0
    /\ \E e \in records : reader' = [reader EXCEPT ![r] = [pc |-> "demote", eid |-> e]]
    /\ budget' = [budget EXCEPT !.trouble = @ - 1]
    /\ UNCHANGED <<store, signals, fill, writer, parker>>

\* It exchanges the record, whichever is there by now ...
ReaderDemotes(r) ==
    /\ reader[r].pc = "demote"
    /\ records' = records \ {reader[r].eid}
    /\ reader' = [reader EXCEPT ![r].pc =
                     IF reader[r].eid \in records THEN "subtract" ELSE "clear"]
    /\ UNCHANGED <<state, present, generation, attempts, queue, queued_bytes, signals, fill,
                   writer, parker, budget>>

\* ... counts one less if it was present ...
ReaderSubtracts(r) ==
    /\ reader[r].pc = "subtract"
    /\ present' = present - 1
    /\ reader' = [reader EXCEPT ![r].pc = "clear"]
    /\ UNCHANGED <<state, records, generation, attempts, queue, queued_bytes, signals, fill,
                   writer, parker, budget>>

\* ... and has the sidecar record cleared (enqueue_clear); then it fetches.
ReaderClears(r) ==
    /\ reader[r].pc = "clear"
    /\ queue' = IF stopping \/ state # "Filling" THEN queue
                ELSE Append(queue, [eid |-> reader[r].eid, clear |-> TRUE])
    /\ reader' = [reader EXCEPT ![r] = [pc |-> "away", eid |-> 1]]
    /\ UNCHANGED <<state, records, present, generation, attempts, queued_bytes, signals, fill,
                   writer, parker, budget>>

DemoteStep(r) == ReaderDemotes(r) \/ ReaderSubtracts(r) \/ ReaderClears(r)

\* park_fill: stop_fill in three steps (the cancel dispatch may fail), then join
\* the coroutine; the destructor of the store comes after it.
Park ==
    /\ \/ /\ parker = "away"
          /\ fill_stop' = TRUE /\ parker' = "cancel"
          /\ UNCHANGED <<cancelled, fill_wake_requested, stopping>>
       \/ /\ parker = "cancel"
          /\ cancelled' \in {TRUE, cancelled} /\ parker' = "wake"
          /\ UNCHANGED <<fill_stop, fill_wake_requested, stopping>>
       \/ /\ parker = "wake"
          /\ fill_wake_requested' = TRUE /\ parker' = "join"
          /\ UNCHANGED <<fill_stop, cancelled, stopping>>
       \/ /\ parker = "join" /\ FAt("done")
          /\ parker' = "parked"
          /\ UNCHANGED <<fill_stop, cancelled, fill_wake_requested, stopping>>
       \/ /\ parker = "parked"
          /\ stopping' = TRUE /\ parker' = "destroying"
          /\ UNCHANGED <<fill_stop, cancelled, fill_wake_requested>>
    /\ UNCHANGED <<store, fill_queue_room, fill_completion, fill, writer, reader, budget>>

Next ==
    \/ FillStep \/ WriterStep \/ ReaderEnqueues \/ Park
    \/ \E r \in Readers : ReaderMismatch(r) \/ DemoteStep(r)

Spec == Init /\ [][Next]_vars

\* The coroutine is scheduled, timers fire, the gate opens and remote reads end
\* (and do not fail for ever), the writer thread runs, and a started demotion
\* and a started park go on.
LiveSpec ==
    /\ Spec
    /\ WF_vars(FillStep) /\ SF_vars(ReadSucceeds)
    /\ WF_vars(WriterStep) /\ \A r \in Readers : WF_vars(DemoteStep(r))
    /\ WF_vars(parker # "away" /\ Park)

-----------------------------------------------------------------------------

\* The writer has yet to set the event of the queue's room.
RoomDue ==
    writer.pc \in {"signal room", "bypass", "bypass stop", "bypass wake", "signal"}

\* The writer has yet to set the completion event or to look at a request to.
CompletionDue ==
    \/ writer.pc \in {"verify", "restart", "restart count", "restart queue", "bypass",
                      "bypass stop", "bypass wake", "signal", "signal completion"}
    \/ fill_wake_requested
    \/ parker \in {"cancel", "wake"}

\* A stop is under way that will set both events.
StopDue ==
    \/ writer.pc \in {"bypass stop", "bypass wake", "signal"}
    \/ fill_wake_requested \/ parker \in {"cancel", "wake"}

\* No wakeup of the fill is lost: while it sleeps on an event that is not set,
\* the queue is full (so the writer will pop and signal) or the signal of room
\* is due; a decision about the layer is due; and once the fill is to stop, the
\* signals of that stop are.  Whatever is reset under qmu_ is set again after
\* the change it waits for.
NoLostSignal ==
    /\ FAt("await room") /\ ~fill_queue_room =>
          /\ Full \/ RoomDue
          /\ StopSeen => StopDue
    /\ FAt("await completion") /\ ~fill_completion => CompletionDue \/ cancelled

\* Every extent is there and the counter does not say so: a demotion that took
\* its record before restart_fresh has subtracted after the counter was zeroed.
\* run_fill then has nothing to fetch and no decision to wait for.
Miscounted == budget.straddled /\ Missing = {} /\ present # ExtentCount

\* The fill comes to an end: with the layer complete or in bypass, however many
\* digest mismatches, dropped writes and demoted extents it meets, or because
\* its owner parks it, in whichever of its waits the stop finds it and even
\* when the cancel dispatch of stop_fill fails.  It goes round for ever only
\* when a demotion straddles a restart and miscounts the layer, and nobody
\* parks it.
FillEnds ==
    \/ <>(FAt("done") /\ (state # "Filling" \/ fill_stop))
    \/ <>[](Miscounted /\ ~fill_stop)
=============================================================================
