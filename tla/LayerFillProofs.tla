-------------------------- MODULE LayerFillProofs --------------------------
(***************************************************************************)
(* Proof that the background fill of a layer loses no wakeup, for every    *)
(* number of extents, every queue bound, every set of readers and every    *)
(* number of attempts, dropped writes and demoted extents.                 *)
(***************************************************************************)
EXTENDS LayerFill, FiniteSetTheorems, WellFoundedInduction, TLAPS

FillPcs == {"sleep", "scan", "all present", "await completion", "read",
            "next extent", "room", "await room", "enqueue", "done"}

WriterPcs == {"wait", "signal room", "process", "count", "clear count", "verify",
              "restart", "restart count", "restart queue", "bypass", "bypass stop", "bypass wake",
              "signal", "signal completion", "signal cancel", "exit"}

Frame == [pc : {"away", "demote", "subtract", "clear"}, eid : Extents]

Budget == [trouble : Nat, straddled : BOOLEAN]

TypeOK ==
    /\ state \in {"Filling", "Complete", "Bypass"} /\ records \in SUBSET Extents
    /\ present \in Int /\ generation \in Nat /\ attempts \in Nat
    /\ queue \in Seq(Job) /\ queued_bytes \in Int
    /\ fill_stop \in BOOLEAN /\ cancelled \in BOOLEAN /\ fill_wake_requested \in BOOLEAN
    /\ stopping \in BOOLEAN /\ fill_queue_room \in BOOLEAN /\ fill_completion \in BOOLEAN
    /\ fill \in [pc : FillPcs, todo : SUBSET Extents, gen : Nat]
    /\ writer \in [pc : WriterPcs, job : Job]
    /\ reader \in [Readers -> Frame]
    /\ parker \in {"away", "cancel", "wake", "join", "parked", "destroying"}
    /\ budget \in Budget

\* Readers that have taken a record and not yet subtracted it.
Owed == {r \in Readers : reader[r].pc = "subtract"}

\* The counter, as long as no demotion has straddled a restart: it has every
\* record and every subtraction still owed, apart from the writer's own step
\* between a record and its count and between a restart's two resets.
CountInv ==
    ~ budget.straddled =>
        /\ writer.pc = "count" => Cardinality(records) + Cardinality(Owed) = present + 1
        /\ writer.pc = "clear count" => Cardinality(records) + Cardinality(Owed) = present - 1
        /\ writer.pc \notin {"count", "clear count", "restart count"} =>
              Cardinality(records) + Cardinality(Owed) = present

\* Whoever counts the last extent is on the way to a decision, and the counter
\* goes no further, straddled or not.
DecisionInv ==
    /\ present <= ExtentCount
    /\ state = "Filling" /\ present = ExtentCount =>
          writer.pc \in {"verify", "restart", "restart count", "bypass"}
    /\ writer.pc = "count" => state = "Filling"
    /\ writer.pc = "restart count" => records = {}

\* The extent the fill is about to enqueue.
HandInv ==
    FAt("room") \/ FAt("await room") \/ FAt("enqueue") =>
        \E x \in fill.todo : \A y \in fill.todo : x <= y

\* Teardown begins when the fill has been joined.
TeardownInv ==
    /\ parker \in {"parked", "destroying"} => FAt("done")
    /\ stopping => parker = "destroying"

IInv == TypeOK /\ CountInv /\ DecisionInv /\ HandInv /\ TeardownInv /\ NoLostSignal

-----------------------------------------------------------------------------
(* Extents and their number. *)

\* A set of extents that is not empty has a least one: where the walk of
\* run_fill starts a run.
LEMMA Least ==
    ASSUME NEW S \in SUBSET Nat, S # {}
    PROVE  \E x \in S : \A y \in S : x <= y
<1>1. \E x \in S : \A y \in S : <<y, x>> \notin OpToRel(<, Nat)
  BY NatLessThanWellFounded, WFMin, Zenon
<1>2. ASSUME NEW x \in Nat, NEW y \in Nat, <<y, x>> \notin OpToRel(<, Nat)
      PROVE  x <= y
  <2>1. <<y, x>> \in Nat \X Nat
    BY Zenon
  <2>2. ~ (y < x)
    BY <1>2, <2>1, Zenon DEF OpToRel
  <2> QED
    BY <2>2, SMT
<1> QED
  BY <1>1, <1>2, Zenon

\* The records are finitely many, never more than the extents.
LEMMA Counting ==
    ASSUME NEW R \in SUBSET Extents
    PROVE  IsFiniteSet(R) /\ Cardinality(R) \in 0 .. ExtentCount
<1>1. IsFiniteSet(Extents) /\ Cardinality(Extents) = ExtentCount
  <2>1. 1 \in Int /\ ExtentCount \in Int /\ ~ (1 > ExtentCount)
    BY FillAssumption
  <2>2. IsFiniteSet(1 .. ExtentCount)
        /\ Cardinality(1 .. ExtentCount) = ExtentCount - 1 + 1
    BY <2>1, FS_Interval, Zenon
  <2> QED
    BY <2>1, <2>2 DEF Extents
<1>2. IsFiniteSet(R) /\ Cardinality(R) <= Cardinality(Extents)
  BY <1>1, FS_Subset, Zenon
<1>3. Cardinality(R) \in Nat
  BY <1>2, FS_CardinalityType, Zenon
<1> QED
  BY <1>1, <1>2, <1>3, FillAssumption

\* The run that run_fill fetches consists of extents.
LEMMA RunInside ==
    ASSUME records \in SUBSET Extents, Missing # {}
    PROVE  Run \in SUBSET Extents
<1>1. Missing \subseteq Extents /\ Missing \in SUBSET Nat
  BY FillAssumption DEF Missing, Extents
<1>2. \E e \in Missing : \A x \in Missing : e <= x
  BY <1>1, Least, Zenon
<1>3. PICK f : f = CHOOSE e \in Missing : \A x \in Missing : e <= x
  BY Zenon
<1>4. f \in Missing
  BY <1>2, <1>3, Zenon
<1>5. f \in Nat
  BY <1>1, <1>4, Zenon
<1>6. Run = {x \in f .. f + RunCap - 1 : f .. x \subseteq Missing}
  BY <1>3, Zenon DEF Run
<1>7. ASSUME NEW x \in Run
      PROVE  x \in Extents
  <2>1. x \in f .. f + RunCap - 1 /\ f .. x \subseteq Missing
    BY <1>6, Zenon
  <2>2. x \in f .. x
    BY <1>5, <2>1, FillAssumption
  <2> QED
    BY <1>1, <2>1, <2>2, Zenon
<1> QED
  BY <1>7, Zenon

\* The program starts in the invariant.
LEMMA Initial == Init => IInv
<1> SUFFICES ASSUME Init
             PROVE  IInv
  BY Zenon
<1>1. records \in SUBSET Extents /\ present = Cardinality(records)
  BY Zenon DEF Init
<1>2. present \in 0 .. ExtentCount
  BY <1>1, Counting, Zenon
<1>3. TypeOK
  <2>0. 1 \in Extents /\ NoJob \in Job
    BY FillAssumption DEF Extents, Job, NoJob
  <2>1. writer \in [pc : WriterPcs, job : Job]
    BY <2>0, Zenon DEF Init, WriterPcs
  <2>2. fill \in [pc : FillPcs, todo : SUBSET Extents, gen : Nat]
    BY Zenon DEF Init, FillPcs
  <2>3. queue \in Seq(Job) /\ queued_bytes \in Int /\ generation \in Nat /\ attempts \in Nat
    BY DEF Init
  <2>4. budget \in Budget
    BY FillAssumption, Zenon DEF Init, Budget
  <2>5. reader \in [Readers -> Frame]
    BY <2>0, Zenon DEF Init, Frame
  <2>6. present \in Int
    BY <1>2
  <2> QED
    BY <1>1, <2>1, <2>2, <2>3, <2>4, <2>5, <2>6, Zenon DEF Init, TypeOK
<1>4. writer.pc = IF present = ExtentCount THEN "verify" ELSE "wait"
  BY Zenon DEF Init
<1>5. CountInv /\ DecisionInv
  <2>1. Owed = {}
    BY Zenon DEF Init, Owed
  <2>2. Cardinality(Owed) = 0
    BY <2>1, FS_EmptySet, Zenon
  <2>3. CountInv
    BY <1>1, <1>2, <1>4, <2>2 DEF CountInv
  <2>4. present <= ExtentCount
    BY <1>2, FillAssumption
  <2> QED
    BY <1>4, <2>3, <2>4, Zenon DEF DecisionInv
<1>6. fill.pc = "sleep" /\ parker = "away" /\ ~ stopping
  BY Zenon DEF Init
<1>7. HandInv /\ TeardownInv /\ NoLostSignal
  BY <1>4, <1>6, Zenon DEF HandInv, TeardownInv, NoLostSignal, FAt
<1> QED
  BY <1>3, <1>5, <1>7, Zenon DEF IInv

-----------------------------------------------------------------------------
(* The fill coroutine. *)

\* The frame of run_fill.
Fill == [pc : FillPcs, todo : SUBSET Extents, gen : Nat]

\* A set with a least element.
HasLeast(S) == \E x \in S : \A y \in S : x <= y

\* A step of run_fill: it suffices that a wait it enters has its reason.
LEMMA FillMoves ==
    ASSUME IInv,
           UNCHANGED <<state, records, present, generation, attempts, fill_stop, cancelled,
                       fill_wake_requested, stopping, writer, reader, parker, budget>>,
           queue' \in Seq(Job), queued_bytes' \in Int, fill_queue_room' \in BOOLEAN,
           fill_completion' \in BOOLEAN, fill.pc # "done", fill' \in Fill,
           fill'.pc \in {"room", "await room", "enqueue"} => HasLeast(fill'.todo),
           fill'.pc = "await room" => Full' /\ ~ StopSeen,
           fill'.pc = "await completion" => CompletionDue
    PROVE  IInv'
<1>1. TypeOK'
  BY Zenon DEF IInv, TypeOK, Fill
<1>2. CountInv' /\ DecisionInv'
  BY Zenon DEF IInv, CountInv, DecisionInv, Owed
<1>3. HandInv'
  BY Zenon DEF IInv, HandInv, FAt, HasLeast
<1>4. TeardownInv'
  BY Zenon DEF IInv, TeardownInv, FAt
<1>5. NoLostSignal'
  BY Zenon DEF NoLostSignal, FAt, StopSeen, CompletionDue
<1> QED
  BY <1>1, <1>2, <1>3, <1>4, <1>5, Zenon DEF IInv

\* What a fill step finds.
LEMMA FillTypes ==
    ASSUME IInv
    PROVE  /\ fill \in Fill /\ fill_queue_room \in BOOLEAN /\ fill_completion \in BOOLEAN
           /\ queue \in Seq(Job) /\ queued_bytes \in Int /\ records \in SUBSET Extents
           /\ generation \in Nat
BY Zenon DEF IInv, TypeOK, Fill

\* A new pc for the fill, and its end.
LEMMA FillGoes ==
    /\ \A pc \in FillPcs : fill \in Fill /\ FGoto(pc) =>
          fill' \in Fill /\ fill'.pc = pc /\ fill'.todo = fill.todo
    /\ Finish => fill' \in Fill /\ fill'.pc = "done"
    /\ \A pc \in FillPcs, todo \in SUBSET Extents, g \in Nat :
          fill' = [pc |-> pc, todo |-> todo, gen |-> g] => fill' \in Fill /\ fill'.pc = pc
<1>1. ASSUME NEW pc \in FillPcs, fill \in Fill, FGoto(pc)
      PROVE  fill' \in Fill /\ fill'.pc = pc /\ fill'.todo = fill.todo
  <2>1. fill' = [fill EXCEPT !.pc = pc]
    BY <1>1, Zenon DEF FGoto
  <2> QED
    BY <1>1, <2>1, Zenon DEF Fill
<1>2. ASSUME NEW pc \in FillPcs, NEW todo \in SUBSET Extents, NEW g \in Nat,
             fill' = [pc |-> pc, todo |-> todo, gen |-> g]
      PROVE  fill' \in Fill /\ fill'.pc = pc
  BY <1>2, Zenon DEF Fill
<1>3. ASSUME Finish
      PROVE  fill' \in Fill /\ fill'.pc = "done"
  BY <1>3, Zenon DEF Finish, Fill, FillPcs
<1> QED
  BY <1>1, <1>2, <1>3, Zenon

\* The steps that change nothing but the frame and enter no wait.
LEMMA QuietFillSteps ==
    ASSUME IInv, SleepEnds \/ Scan \/ CompletionWaitEnds \/ ReadFails
                 \/ ReadSucceeds \/ NextExtent \/ RoomWaitEnds
    PROVE  IInv'
<1>1. UNCHANGED <<state, records, present, generation, attempts, queue, queued_bytes,
                  fill_stop, cancelled, fill_wake_requested, stopping, fill_queue_room,
                  fill_completion, writer,
                  reader, parker, budget>>
  BY Zenon DEF SleepEnds, Scan, CompletionWaitEnds, ReadFails, ReadSucceeds, NextExtent,
         RoomWaitEnds, FQuiet, store, signals
<1>2. /\ fill.pc # "done" /\ fill' \in Fill
      /\ fill'.pc \notin {"await room", "await completion", "enqueue"}
      /\ fill'.pc = "room" => HasLeast(fill'.todo)
  <2>1. CASE SleepEnds
    BY <2>1, FillTypes, FillGoes, Zenon DEF SleepEnds, FAt, FillPcs
  <2>2. CASE Scan
    <3>1. CASE StopSeen \/ Missing = {}
      BY <2>2, <3>1, FillTypes, FillGoes, Zenon DEF Scan, FAt, FillPcs
    <3>2. CASE ~ (StopSeen \/ Missing = {})
      <4>1. Run \in SUBSET Extents
        BY <3>2, FillTypes, RunInside, Zenon
      <4>2. fill' = [pc |-> "read", todo |-> Run, gen |-> generation]
        BY <2>2, <3>2, Zenon DEF Scan
      <4> QED
        BY <2>2, <4>1, <4>2, FillTypes, FillGoes, Zenon DEF Scan, FAt, FillPcs
    <3> QED
      BY <3>1, <3>2, Zenon
  <2>3. CASE CompletionWaitEnds
    BY <2>3, FillTypes, FillGoes, Zenon DEF CompletionWaitEnds, FAt, FillPcs
  <2>4. CASE ReadFails \/ ReadSucceeds
    BY <2>4, FillTypes, FillGoes, Zenon DEF ReadFails, ReadSucceeds, FAt, FillPcs
  <2>5. CASE NextExtent
    <3>1. CASE \E pc \in {"scan", "sleep"} : fill' = [pc |-> pc, todo |-> {}, gen |-> 0]
      BY <2>5, <3>1, FillTypes, FillGoes, Zenon DEF NextExtent, FAt, FillPcs
    <3>2. CASE \E x \in fill.todo :
                 /\ \A y \in fill.todo : x <= y
                 /\ IF x \in records THEN fill' = [fill EXCEPT !.todo = @ \ {x}]
                    ELSE FGoto("room")
      <4>1. PICK x \in fill.todo :
                 /\ \A y \in fill.todo : x <= y
                 /\ IF x \in records THEN fill' = [fill EXCEPT !.todo = fill.todo \ {x}]
                    ELSE FGoto("room")
        BY <3>2, Zenon
      <4>2. fill.todo \ {x} \in SUBSET Extents
        BY FillTypes, Zenon DEF Fill
      <4>3. CASE x \in records
        BY <2>5, <4>1, <4>2, <4>3, FillTypes, Zenon DEF NextExtent, FAt, Fill
      <4>4. CASE x \notin records
        <5>1. FGoto("room") /\ "room" \in FillPcs
          BY <4>1, <4>4, Zenon DEF FillPcs
        <5>2. fill' \in Fill /\ fill'.pc = "room" /\ fill'.todo = fill.todo
          BY <5>1, FillTypes, FillGoes, Zenon
        <5> QED
          BY <2>5, <4>1, <5>2, Zenon DEF NextExtent, FAt, HasLeast
      <4> QED
        BY <4>3, <4>4, Zenon
    <3> QED
      BY <2>5, <3>1, <3>2, Zenon DEF NextExtent
  <2>6. CASE RoomWaitEnds
    <3>1. fill.pc = "await room" /\ HasLeast(fill.todo)
      BY <2>6, Zenon DEF RoomWaitEnds, FAt, IInv, HandInv, HasLeast
    <3> QED
      BY <2>6, <3>1, FillTypes, FillGoes, Zenon DEF RoomWaitEnds, FillPcs
  <2> QED
    BY <2>1, <2>2, <2>3, <2>4, <2>5, <2>6, Zenon
<1>3. /\ queue' \in Seq(Job) /\ queued_bytes' \in Int /\ fill_queue_room' \in BOOLEAN
      /\ fill_completion' \in BOOLEAN
  BY <1>1, FillTypes, Zenon
<1> QED
  BY <1>1, <1>2, <1>3, FillMoves, Zenon

\* AwaitCompletion (the reset of fill_completion_ under qmu_): all extents are
\* counted and the layer is undecided, so the writer has yet to decide.
LEMMA AwaitCompletionStep ==
    ASSUME IInv, AwaitCompletion
    PROVE  IInv'
<1>1. /\ UNCHANGED <<state, records, present, generation, attempts, queue, queued_bytes,
                     fill_stop, cancelled, fill_wake_requested, stopping, fill_queue_room, writer,
                     reader, parker, budget>>
      /\ fill.pc = "all present"
  BY Zenon DEF AwaitCompletion, FQuiet, store, signals, FAt
<1>2. /\ queue' \in Seq(Job) /\ queued_bytes' \in Int /\ fill_queue_room' \in BOOLEAN
      /\ fill_completion' \in BOOLEAN
  BY <1>1, FillTypes, Zenon DEF AwaitCompletion, signals
<1>3. /\ fill' \in Fill /\ fill'.pc \in {"scan", "await completion"}
  BY FillTypes, FillGoes, Zenon DEF AwaitCompletion, FillPcs
<1>4. fill'.pc = "await completion" => CompletionDue
  <2>1. fill'.pc = "await completion" => state = "Filling" /\ present = ExtentCount
    BY FillTypes, FillGoes, Zenon DEF AwaitCompletion, FillPcs, StopSeen
  <2> QED
    BY <2>1, Zenon DEF IInv, DecisionInv, CompletionDue
<1> QED
  BY <1>1, <1>2, <1>3, <1>4, FillMoves, Zenon

\* wait_queue_room: it resets fill_queue_room_ only when the queue is full and
\* no stop is to be seen, in the section in which it looks.
LEMMA wait_queue_roomStep ==
    ASSUME IInv, wait_queue_room
    PROVE  IInv'
<1>1. /\ UNCHANGED <<state, records, present, generation, attempts, queue, queued_bytes,
                     fill_stop, cancelled, fill_wake_requested, stopping, fill_completion, writer,
                     reader, parker, budget>>
      /\ fill.pc = "room"
  BY Zenon DEF wait_queue_room, FQuiet, store, signals, FAt
<1>2. /\ queue' \in Seq(Job) /\ queued_bytes' \in Int /\ fill_queue_room' \in BOOLEAN
      /\ fill_completion' \in BOOLEAN
  BY <1>1, FillTypes, Zenon DEF wait_queue_room, signals
<1>3. HasLeast(fill.todo)
  BY <1>1, Zenon DEF IInv, HandInv, FAt, HasLeast
<1>4. \/ Finish
      \/ FGoto("enqueue")
      \/ Full /\ ~ StopSeen /\ FGoto("await room")
  BY Zenon DEF wait_queue_room
<1>5. /\ fill' \in Fill
      /\ fill'.pc \in {"done", "enqueue", "await room"}
      /\ fill'.pc \in {"room", "await room", "enqueue"} => HasLeast(fill'.todo)
      /\ fill'.pc = "await room" => Full /\ ~ StopSeen
  BY <1>3, <1>4, FillTypes, FillGoes, Zenon DEF FillPcs
<1>6. Full' <=> Full
  BY <1>1, Zenon DEF Full
<1> QED
  BY <1>1, <1>2, <1>5, <1>6, FillMoves, Zenon

\* enqueue_write of the fill: what it appends is an extent of its run.
LEMMA EnqueueFillStep ==
    ASSUME IInv, EnqueueFill
    PROVE  IInv'
<1>1. /\ UNCHANGED <<state, records, present, generation, attempts, fill_stop, cancelled,
                     fill_wake_requested, stopping, fill_queue_room, fill_completion,
                     writer, reader, parker, budget>>
      /\ fill.pc = "enqueue"
  BY Zenon DEF EnqueueFill, signals, FAt
<1>2. PICK x : x = CHOOSE e \in fill.todo : \A y \in fill.todo : e <= y
  BY Zenon
<1>3. x \in fill.todo /\ x \in Extents
  BY <1>1, <1>2, FillTypes, Zenon DEF IInv, HandInv, FAt, Fill
<1>4. /\ \/ UNCHANGED <<queue, queued_bytes>>
         \/ /\ queue' = Append(queue, [eid |-> x, clear |-> FALSE])
            /\ queued_bytes' = queued_bytes + 1
      /\ fill' = [fill EXCEPT !.pc = "next extent", !.todo = fill.todo \ {x}]
  BY <1>2, Zenon DEF EnqueueFill, EnqueueWrite
<1>5. fill.todo \ {x} \in SUBSET Extents /\ "next extent" \in FillPcs
  BY FillTypes, Zenon DEF Fill, FillPcs
<1>6. fill' \in Fill /\ fill'.pc = "next extent"
  BY <1>4, <1>5, FillTypes, Zenon DEF Fill
<1>7. queue' \in Seq(Job) /\ queued_bytes' \in Int
  <2>1. [eid |-> x, clear |-> FALSE] \in Job
    BY <1>3, Zenon DEF Job
  <2> QED
    BY <1>4, <2>1, FillTypes
<1> QED
  BY <1>1, <1>6, <1>7, FillTypes, FillMoves, Zenon

-----------------------------------------------------------------------------
(* The writer thread. *)

\* The state of the writer thread.
Writer == [pc : WriterPcs, job : Job]

\* A step of the writer thread or of a reader.  It must keep the reason of either
\* wait of the fill, or set its event.
LEMMA WriterMoves ==
    ASSUME IInv, UNCHANGED <<stopping, fill, parker>>,
           state' \in {"Filling", "Complete", "Bypass"}, records' \in SUBSET Extents,
           present' \in Int, generation' \in Nat, attempts' \in Nat,
           queue' \in Seq(Job), queued_bytes' \in Int, fill_stop' \in BOOLEAN,
           cancelled' \in BOOLEAN, fill_wake_requested' \in BOOLEAN,
           fill_queue_room' \in BOOLEAN, fill_completion' \in BOOLEAN, writer' \in Writer,
           reader' \in [Readers -> Frame], budget' \in Budget,
           CountInv', DecisionInv', NoLostSignal'
    PROVE  IInv'
<1>1. TypeOK'
  BY Zenon DEF IInv, TypeOK, Writer
<1>2. HandInv'
  BY Zenon DEF IInv, HandInv, FAt
<1>3. TeardownInv'
  BY Zenon DEF IInv, TeardownInv, FAt
<1> QED
  BY <1>1, <1>2, <1>3, Zenon DEF IInv

\* What a step of the writer or of a reader finds.
LEMMA WriterTypes ==
    ASSUME IInv
    PROVE  /\ state \in {"Filling", "Complete", "Bypass"} /\ records \in SUBSET Extents
           /\ present \in Int /\ generation \in Nat /\ attempts \in Nat
           /\ queue \in Seq(Job) /\ queued_bytes \in Int
           /\ fill_stop \in BOOLEAN /\ cancelled \in BOOLEAN
           /\ fill_wake_requested \in BOOLEAN /\ fill_queue_room \in BOOLEAN
           /\ fill_completion \in BOOLEAN /\ writer \in Writer
           /\ reader \in [Readers -> Frame] /\ budget \in Budget
BY Zenon DEF IInv, TypeOK, Writer

\* A new pc for the writer, which then has no job.
LEMMA WriterGoes ==
    ASSUME NEW pc \in WriterPcs, WGoto(pc)
    PROVE  writer' \in Writer /\ writer'.pc = pc
<1>1. NoJob \in Job
  BY FillAssumption DEF NoJob, Job, Extents
<1>2. writer' = [pc |-> pc, job |-> NoJob]
  BY Zenon DEF WGoto
<1> QED
  BY <1>1, <1>2, Zenon DEF Writer

\* Finitely many readers owe a subtraction.
LEMMA OwedCounts == IsFiniteSet(Owed) /\ Cardinality(Owed) \in Nat
<1>1. Owed \subseteq Readers /\ IsFiniteSet(Readers)
  BY FillAssumption, Zenon DEF Owed
<1> QED
  BY <1>1, FS_Subset, FS_CardinalityType, Zenon

\* The numbers a step of the writer or of a reader counts with.
LEMMA Numbers ==
    ASSUME IInv
    PROVE  /\ present \in Int /\ ExtentCount \in Nat \ {0} /\ present <= ExtentCount
           /\ IsFiniteSet(records) /\ Cardinality(records) \in Nat
           /\ IsFiniteSet(Owed) /\ Cardinality(Owed) \in Nat
<1>1. IsFiniteSet(records) /\ Cardinality(records) \in Nat
  <2>1. records \in SUBSET Extents
    BY WriterTypes, Zenon
  <2>2. IsFiniteSet(records) /\ Cardinality(records) \in 0 .. ExtentCount
    BY <2>1, Counting, Zenon
  <2> QED
    BY <2>2, FS_CardinalityType, Zenon
<1> QED
  BY <1>1, WriterTypes, OwedCounts, FillAssumption, Zenon DEF IInv, DecisionInv

\* A step that leaves the counter and what it counts alone.
LEMMA SameCount ==
    ASSUME IInv, UNCHANGED <<records, present, reader, budget>>,
           writer.pc \notin {"count", "clear count", "restart count"},
           writer'.pc \notin {"count", "clear count"}
    PROVE  CountInv'
<1>1. Owed' = Owed
  BY Zenon DEF Owed
<1>2. ~ budget.straddled => Cardinality(records) + Cardinality(Owed) = present
  BY Zenon DEF IInv, CountInv
<1> QED
  BY <1>1, <1>2, Zenon DEF CountInv

\* A full queue stays full when nothing is taken from it.
LEMMA StaysFull ==
    ASSUME IInv, queued_bytes' = queued_bytes \/ queued_bytes' = queued_bytes + 1
    PROVE  Full => Full'
<1>1. queued_bytes \in Int /\ QueueMax \in Nat
  BY WriterTypes, FillAssumption, Zenon
<1> QED
  BY <1>1 DEF Full

\* writer_main takes a job: the pop is followed by the signal of room, a
\* requested wake by all signals; and it drops the queue only in a teardown,
\* when the fill is gone.
LEMMA WriterLoopStep ==
    ASSUME IInv, WriterLoop
    PROVE  IInv'
<1>1. /\ UNCHANGED <<state, records, present, generation, attempts, budget, fill_stop,
                     cancelled, stopping, fill_queue_room, fill_completion, fill, reader,
                     parker>>
      /\ writer.pc = "wait"
  BY Zenon DEF WriterLoop, signals, WQuiet, WAt
<1>2. /\ queue' \in Seq(Job) /\ queued_bytes' \in Int /\ fill_wake_requested' \in BOOLEAN
      /\ writer' \in Writer
      /\ \/ stopping /\ writer'.pc = "exit" /\ UNCHANGED fill_wake_requested
         \/ writer'.pc = "signal" /\ UNCHANGED <<queue, queued_bytes>>
         \/ writer'.pc = "signal room" /\ UNCHANGED fill_wake_requested
  <2>1. CASE /\ stopping /\ queue' = <<>> /\ queued_bytes' = 0 /\ WGoto("exit")
             /\ UNCHANGED signals
    <3>1. writer' \in Writer /\ writer'.pc = "exit"
      BY <2>1, WriterGoes, Zenon DEF WriterPcs
    <3>2. queue' \in Seq(Job) /\ queued_bytes' \in Int
      BY <2>1
    <3> QED
      BY <2>1, <3>1, <3>2, WriterTypes, Zenon DEF signals
  <2>2. CASE /\ fill_wake_requested' = FALSE /\ WGoto("signal")
             /\ UNCHANGED <<queue, queued_bytes>>
    BY <2>2, WriterTypes, WriterGoes, Zenon DEF WriterPcs
  <2>3. CASE /\ queue # <<>> /\ queue' = Tail(queue) /\ UNCHANGED signals
             /\ queued_bytes' = IF Head(queue).clear THEN queued_bytes ELSE queued_bytes - 1
             /\ writer' = [pc |-> "signal room", job |-> Head(queue)]
    <3>0. queue \in Seq(Job) /\ queue # <<>> /\ queued_bytes \in Int
      BY <2>3, WriterTypes, Zenon
    <3>1. Head(queue) \in Job /\ Tail(queue) \in Seq(Job)
      BY <3>0
    <3>2. queued_bytes' \in Int
      <4>1. queued_bytes - 1 \in Int
        BY <3>0
      <4> QED
        BY <2>3, <3>0, <4>1, Zenon
    <3> QED
      BY <2>3, <3>1, <3>2, WriterTypes, Zenon DEF Writer, WriterPcs, signals
  <2> QED
    BY <2>1, <2>2, <2>3, Zenon DEF WriterLoop
<1>3. CountInv'
  BY <1>1, <1>2, SameCount, Zenon
<1>4. DecisionInv'
  BY <1>1, <1>2, Zenon DEF IInv, DecisionInv
<1>5. stopping => fill.pc = "done"
  BY Zenon DEF IInv, TeardownInv, FAt
<1>6. NoLostSignal'
  <2>1. CASE stopping
    BY <1>1, <1>5, <2>1, Zenon DEF NoLostSignal, FAt
  <2>2. CASE writer'.pc = "signal" /\ UNCHANGED <<queue, queued_bytes>>
    BY <1>1, <2>2, Zenon DEF NoLostSignal, RoomDue, StopDue, CompletionDue
  <2>3. CASE writer'.pc = "signal room" /\ UNCHANGED fill_wake_requested
    BY <1>1, <2>3, Zenon DEF IInv, NoLostSignal, FAt, RoomDue, StopSeen, StopDue, CompletionDue
  <2> QED
    BY <1>2, <2>1, <2>2, <2>3, Zenon
<1> QED
  BY <1>1, <1>2, <1>3, <1>4, <1>6, WriterTypes, WriterMoves, Zenon

\* The signal of room after a pop.
LEMMA SignalRoomStep ==
    ASSUME IInv, SignalRoom
    PROVE  IInv'
<1>1. /\ UNCHANGED <<state, records, present, generation, attempts, queue, queued_bytes,
                     fill_stop, cancelled, fill_wake_requested, stopping, fill_completion,
                     budget, fill, reader, parker>>
      /\ fill_queue_room' = TRUE /\ writer.pc = "signal room"
      /\ writer' = [writer EXCEPT !.pc = "process"]
  BY Zenon DEF SignalRoom, store, WQuiet, WAt
<1>2. writer' \in Writer /\ writer'.pc = "process"
  BY <1>1, WriterTypes, Zenon DEF Writer, WriterPcs
<1>3. CountInv'
  BY <1>1, <1>2, SameCount, Zenon
<1>4. DecisionInv'
  BY <1>1, <1>2, Zenon DEF IInv, DecisionInv
<1>5. NoLostSignal'
  BY <1>1, <1>2, Zenon DEF IInv, NoLostSignal, FAt, CompletionDue
<1> QED
  BY <1>1, <1>2, <1>3, <1>4, <1>5, WriterTypes, WriterMoves, Zenon

\* The budget of a run, one less.
LEMMA Spend ==
    ASSUME budget \in Budget, budget.trouble > 0,
           budget' = [budget EXCEPT !.trouble = budget.trouble - 1]
    PROVE  budget' \in Budget /\ budget'.straddled = budget.straddled
<1>1. PICK n \in Nat : n = budget.trouble - 1
  BY DEF Budget
<1>2. budget' = [budget EXCEPT !.trouble = n]
  BY <1>1, Zenon
<1> QED
  BY <1>2, Zenon DEF Budget

\* process_job: a record is set, or cleared, before it is counted.
LEMMA ProcessStep ==
    ASSUME IInv, Process
    PROVE  IInv'
<1>1. /\ UNCHANGED <<state, present, generation, attempts, queue, queued_bytes, fill_stop,
                     cancelled, fill_wake_requested, stopping, fill_queue_room,
                     fill_completion, fill, reader, parker>>
      /\ writer.pc = "process"
  BY Zenon DEF Process, signals, WQuiet, WAt
<1>0. PICK e \in Extents : e = writer.job.eid
  <2>1. writer.job \in Job
    BY WriterTypes, Zenon DEF Writer
  <2> QED
    BY <2>1, Zenon DEF Job
<1>2. /\ writer' \in Writer /\ writer'.pc \in {"wait", "count", "clear count", "bypass"}
      /\ records' \in SUBSET Extents /\ budget' \in Budget
      /\ budget'.straddled = budget.straddled
      /\ \/ writer'.pc \in {"wait", "bypass"} /\ records' = records
         \/ /\ writer'.pc = "count" /\ e \notin records /\ records' = records \cup {e}
            /\ state = "Filling"
         \/ writer'.pc = "clear count" /\ e \in records /\ records' = records \ {e}
  <2>1. CASE WGoto("wait") /\ UNCHANGED <<records, budget>>
    BY <2>1, WriterTypes, WriterGoes, Zenon DEF WriterPcs
  <2>2. CASE /\ records' = records \cup {e} /\ UNCHANGED budget /\ state = "Filling"
             /\ WGoto(IF e \in records THEN "wait" ELSE "count")
    <3>1. CASE e \in records
      <4>1. records' = records
        BY <2>2, <3>1, Zenon
      <4> QED
        BY <2>2, <3>1, <4>1, WriterTypes, WriterGoes, Zenon DEF WriterPcs
    <3>2. CASE e \notin records
      <4>1. records' \in SUBSET Extents
        BY <2>2, WriterTypes, Zenon
      <4> QED
        BY <2>2, <3>2, <4>1, WriterTypes, WriterGoes, Zenon DEF WriterPcs
    <3> QED
      BY <3>1, <3>2, Zenon
  <2>3. CASE /\ records' = records \ {e} /\ UNCHANGED budget
             /\ WGoto(IF e \in records THEN "clear count" ELSE "wait")
    <3>0. records' \in SUBSET Extents
      BY <2>3, WriterTypes, Zenon
    <3>1. CASE e \in records
      BY <2>3, <3>0, <3>1, WriterTypes, WriterGoes, Zenon DEF WriterPcs
    <3>2. CASE e \notin records
      <4>1. records' = records
        BY <2>3, <3>2, Zenon
      <4> QED
        BY <2>3, <3>2, <4>1, WriterTypes, WriterGoes, Zenon DEF WriterPcs
    <3> QED
      BY <3>1, <3>2, Zenon
  <2>4. CASE WGoto("bypass") /\ UNCHANGED <<records, budget>>
    BY <2>4, WriterTypes, WriterGoes, Zenon DEF WriterPcs
  <2>5. CASE /\ budget.trouble > 0 /\ budget' = [budget EXCEPT !.trouble = budget.trouble - 1]
             /\ WGoto("wait") /\ UNCHANGED records
    <3>1. budget' \in Budget /\ budget'.straddled = budget.straddled
      BY <2>5, WriterTypes, Spend, Zenon
    <3> QED
      BY <2>5, <3>1, WriterTypes, WriterGoes, Zenon DEF WriterPcs
  <2> QED
    BY <1>0, <2>1, <2>2, <2>3, <2>4, <2>5, Zenon DEF Process
<1>3. CountInv'
  <2>0. /\ ~ budget.straddled => Cardinality(records) + Cardinality(Owed) = present
        /\ Owed' = Owed /\ present' = present /\ present \in Int
        /\ budget'.straddled = budget.straddled
    BY <1>1, <1>2, WriterTypes, Zenon DEF IInv, CountInv, Owed
  <2>1. /\ IsFiniteSet(records) /\ Cardinality(records) \in Nat /\ Cardinality(Owed) \in Nat
    BY Numbers, Zenon
  <2>2. CASE writer'.pc \in {"wait", "bypass"} /\ records' = records
    BY <2>0, <2>2, Zenon DEF CountInv
  <2>3. CASE writer'.pc = "count" /\ e \notin records /\ records' = records \cup {e}
    <3>1. Cardinality(records') = Cardinality(records) + 1
      BY <2>1, <2>3, FS_AddElement, Zenon
    <3>2. ~ budget'.straddled => Cardinality(records') + Cardinality(Owed') = present' + 1
      BY <2>0, <2>1, <3>1
    <3> QED
      BY <2>3, <3>2, Zenon DEF CountInv
  <2>4. CASE writer'.pc = "clear count" /\ e \in records /\ records' = records \ {e}
    <3>1. Cardinality(records') = Cardinality(records) - 1
      BY <2>1, <2>4, FS_RemoveElement, Zenon
    <3>2. ~ budget'.straddled => Cardinality(records') + Cardinality(Owed') = present' - 1
      BY <2>0, <2>1, <3>1
    <3> QED
      BY <2>4, <3>2, Zenon DEF CountInv
  <2> QED
    BY <1>2, <2>2, <2>3, <2>4, Zenon
<1>4. DecisionInv'
  BY <1>1, <1>2, Zenon DEF IInv, DecisionInv
<1>5. NoLostSignal'
  BY <1>1, <1>2, Zenon DEF IInv, NoLostSignal, FAt, Full, RoomDue, StopSeen, StopDue,
     CompletionDue
<1> QED
  BY <1>1, <1>2, <1>3, <1>4, <1>5, WriterTypes, WriterMoves, Zenon

\* The count: whoever counts the last extent verifies.
LEMMA CountStep ==
    ASSUME IInv, Count
    PROVE  IInv'
<1>1. UNCHANGED <<state, records, generation, attempts, queue, queued_bytes, fill_stop,
                  cancelled, fill_wake_requested, stopping, fill_queue_room, fill_completion,
                  budget, fill, reader, parker>>
  BY Zenon DEF Count, signals, WQuiet
<1>2. /\ present \in Int /\ ExtentCount \in Nat /\ present <= ExtentCount
      /\ Owed' = Owed
  BY <1>1, Numbers, Zenon DEF Owed
<1>3. CASE /\ writer.pc = "count" /\ present' = present + 1
           /\ WGoto(IF present' = ExtentCount THEN "verify" ELSE "wait")
  <2>1. /\ writer' \in Writer
        /\ writer'.pc = IF present' = ExtentCount THEN "verify" ELSE "wait"
    BY <1>3, WriterGoes, Zenon DEF WriterPcs
  <2>2. present # ExtentCount
    BY <1>3, Zenon DEF IInv, DecisionInv
  <2>3. ~ budget.straddled => Cardinality(records) + Cardinality(Owed) = present + 1
    BY <1>3, Zenon DEF IInv, CountInv
  <2>4. CountInv'
    BY <1>1, <1>2, <1>3, <2>1, <2>3, Zenon DEF CountInv
  <2>5. present' \in Int /\ present' <= ExtentCount
    BY <1>2, <1>3, <2>2
  <2>6. DecisionInv'
    BY <2>1, <2>5, Zenon DEF DecisionInv
  <2>7. NoLostSignal'
    BY <1>1, <1>3, <2>1, Zenon DEF IInv, NoLostSignal, FAt, Full, RoomDue, StopSeen, StopDue,
       CompletionDue
  <2> QED
    BY <1>1, <2>1, <2>4, <2>5, <2>6, <2>7, WriterTypes, WriterMoves, Zenon
<1>4. CASE writer.pc = "clear count" /\ present' = present - 1 /\ WGoto("wait")
  <2>1. writer' \in Writer /\ writer'.pc = "wait"
    BY <1>4, WriterGoes, Zenon DEF WriterPcs
  <2>2. ~ budget.straddled => Cardinality(records) + Cardinality(Owed) = present - 1
    BY <1>4, Zenon DEF IInv, CountInv
  <2>3. CountInv'
    BY <1>1, <1>2, <1>4, <2>1, <2>2, Zenon DEF CountInv
  <2>4. present' \in Int /\ present' <= ExtentCount /\ present' # ExtentCount
    <3>1. present' = present - 1
      BY <1>4, Zenon
    <3> QED
      BY <1>2, <3>1
  <2>5. DecisionInv'
    BY <2>1, <2>4, Zenon DEF DecisionInv
  <2>6. NoLostSignal'
    BY <1>1, <1>4, <2>1, Zenon DEF IInv, NoLostSignal, FAt, Full, RoomDue, StopSeen, StopDue,
       CompletionDue
  <2> QED
    BY <1>1, <2>1, <2>3, <2>4, <2>5, <2>6, WriterTypes, WriterMoves, Zenon
<1> QED
  BY <1>3, <1>4, Zenon DEF Count, WAt

\* complete_layer: commit, retry or give up; each of them signals later.
LEMMA CompleteLayerStep ==
    ASSUME IInv, CompleteLayer
    PROVE  IInv'
<1>1. /\ UNCHANGED <<records, present, generation, queue, queued_bytes, fill_stop, cancelled,
                     fill_wake_requested, stopping, fill_queue_room, fill_completion,
                     budget, fill, reader, parker>>
      /\ writer.pc = "verify" /\ attempts' = attempts + 1
  BY Zenon DEF CompleteLayer, signals, WQuiet, WAt
<1>2. /\ writer' \in Writer /\ state' \in {"Filling", "Complete", "Bypass"}
      /\ \/ state' = "Complete" /\ writer'.pc = "signal"
         \/ state' = state /\ writer'.pc \in {"restart", "bypass"}
  BY WriterTypes, WriterGoes, Zenon DEF CompleteLayer, WriterPcs
<1>3. CountInv'
  BY <1>1, <1>2, SameCount, Zenon
<1>4. DecisionInv'
  BY <1>1, <1>2, Zenon DEF IInv, DecisionInv
<1>5. NoLostSignal'
  BY <1>1, <1>2, Zenon DEF IInv, NoLostSignal, FAt, Full, RoomDue, StopSeen, StopDue,
     CompletionDue
<1>6. attempts' \in Nat
  BY <1>1, WriterTypes
<1> QED
  BY <1>1, <1>2, <1>3, <1>4, <1>5, <1>6, WriterTypes, WriterMoves, Zenon

\* restart_fresh: records, counter and queue are reset one after the other, and
\* the signals follow.  If no reader owes a subtraction when the counter is
\* reset, the counter is right.
LEMMA RestartFreshStep ==
    ASSUME IInv, RestartFresh
    PROVE  IInv'
<1>1. UNCHANGED <<state, attempts, fill_stop, cancelled, fill_wake_requested, stopping,
                  fill_queue_room, fill_completion, fill, reader, parker>>
  BY Zenon DEF RestartFresh, signals, WQuiet
<1>2. CASE /\ writer.pc = "restart" /\ generation' = generation + 1 /\ records' = {}
           /\ WGoto("restart count") /\ UNCHANGED <<present, queue, queued_bytes, budget>>
  <2>1. writer' \in Writer /\ writer'.pc = "restart count"
    BY <1>2, WriterGoes, Zenon DEF WriterPcs
  <2>2. CountInv' /\ DecisionInv'
    BY <1>1, <1>2, <2>1, Zenon DEF IInv, CountInv, DecisionInv
  <2>3. NoLostSignal'
    BY <1>1, <1>2, <2>1, Zenon DEF IInv, NoLostSignal, FAt, Full, RoomDue, StopSeen, StopDue,
       CompletionDue
  <2>4. generation' \in Nat /\ records' \in SUBSET Extents
    <3>1. PICK g \in Nat : g = generation + 1
      BY WriterTypes
    <3> QED
      BY <1>2, <3>1, Zenon
  <2> QED
    BY <1>1, <1>2, <2>1, <2>2, <2>3, <2>4, WriterTypes, WriterMoves, Zenon
<1>3. CASE /\ writer.pc = "restart count" /\ present' = 0
           /\ budget' = [budget EXCEPT !.straddled =
                  budget.straddled \/ \E r \in Readers : reader[r].pc = "subtract"]
           /\ WGoto("restart queue") /\ UNCHANGED <<generation, records, queue, queued_bytes>>
  <2>1. writer' \in Writer /\ writer'.pc = "restart queue"
    BY <1>3, WriterGoes, Zenon DEF WriterPcs
  <2>2. records' = {} /\ Cardinality({}) = 0
    BY <1>3, FS_EmptySet, Zenon DEF IInv, DecisionInv
  <2>3. present' \in Int /\ present' # ExtentCount /\ present' <= ExtentCount
    <3>1. present' = 0
      BY <1>3, Zenon
    <3> QED
      BY <3>1, FillAssumption
  <2>4. /\ budget' \in Budget
        /\ ~ budget'.straddled => Owed = {}
    <3>1. PICK b \in BOOLEAN :
              b <=> budget.straddled \/ \E r \in Readers : reader[r].pc = "subtract"
      BY Zenon
    <3>2. (budget.straddled \/ \E r \in Readers : reader[r].pc = "subtract") \in BOOLEAN
      BY Zenon
    <3>3. budget' = [budget EXCEPT !.straddled = b]
      BY <1>3, <3>1, <3>2, Zenon
    <3>4. budget' \in Budget /\ budget'.straddled = b
      BY <3>1, <3>3, WriterTypes, Zenon DEF Budget
    <3> QED
      BY <3>1, <3>4, Zenon DEF Owed
  <2>5. CountInv'
    <3>1. Owed' = Owed
      BY <1>1, Zenon DEF Owed
    <3>2. ~ budget'.straddled => Cardinality(records') + Cardinality(Owed') = present'
      <4>1. present' = 0
        BY <1>3, Zenon
      <4>2. ~ budget'.straddled => Cardinality(Owed') = 0
        BY <2>2, <2>4, <3>1, Zenon
      <4> QED
        BY <2>2, <4>1, <4>2
    <3> QED
      BY <2>1, <3>2, Zenon DEF CountInv
  <2>6. DecisionInv'
    BY <2>1, <2>2, <2>3, Zenon DEF DecisionInv
  <2>7. NoLostSignal'
    BY <1>1, <1>3, <2>1, Zenon DEF IInv, NoLostSignal, FAt, Full, RoomDue, StopSeen, StopDue,
       CompletionDue
  <2> QED
    BY <1>1, <1>3, <2>1, <2>3, <2>4, <2>5, <2>6, <2>7, WriterTypes, WriterMoves, Zenon
<1>4. CASE /\ writer.pc = "restart queue" /\ queue' = <<>> /\ queued_bytes' = 0
           /\ \E pc \in {"signal", "bypass"} : WGoto(pc)
           /\ UNCHANGED <<generation, records, present, budget>>
  <2>1. writer' \in Writer /\ writer'.pc \in {"signal", "bypass"}
    BY <1>4, WriterGoes, Zenon DEF WriterPcs
  <2>2. CountInv'
    BY <1>1, <1>4, <2>1, SameCount, Zenon
  <2>3. DecisionInv'
    BY <1>1, <1>4, <2>1, Zenon DEF IInv, DecisionInv
  <2>4. NoLostSignal'
    BY <1>1, <1>4, <2>1, Zenon DEF IInv, NoLostSignal, FAt, RoomDue, StopSeen, StopDue,
       CompletionDue
  <2>5. queue' \in Seq(Job) /\ queued_bytes' \in Int
    <3>1. queue' = <<>> /\ queued_bytes' = 0
      BY <1>4, Zenon
    <3> QED
      BY <3>1
  <2> QED
    BY <1>1, <1>4, <2>1, <2>2, <2>3, <2>4, <2>5, WriterTypes, WriterMoves, Zenon
<1> QED
  BY <1>2, <1>3, <1>4, Zenon DEF RestartFresh, WAt

\* enter_bypass: the state, then stop_fill, whose cancel may fail but whose wake
\* request does not.
LEMMA EnterBypassStep ==
    ASSUME IInv, EnterBypass
    PROVE  IInv'
<1>1. UNCHANGED <<records, present, generation, attempts, queue, queued_bytes, stopping,
                  fill_queue_room, fill_completion, budget, fill, reader, parker>>
  BY Zenon DEF EnterBypass, WQuiet
<1>2. /\ state' \in {"Filling", "Complete", "Bypass"} /\ writer' \in Writer
      /\ fill_stop' \in BOOLEAN /\ cancelled' \in BOOLEAN /\ fill_wake_requested' \in BOOLEAN
      /\ cancelled => cancelled'
      /\ \/ /\ writer.pc = "bypass" /\ writer'.pc = "bypass stop" /\ state' = "Bypass"
            /\ UNCHANGED fill_wake_requested
         \/ /\ writer.pc = "bypass stop" /\ writer'.pc = "bypass wake"
            /\ UNCHANGED <<state, fill_wake_requested>>
         \/ /\ writer.pc = "bypass wake" /\ writer'.pc = "signal" /\ fill_wake_requested'
            /\ UNCHANGED state
  <2>1. /\ fill_stop \in BOOLEAN /\ cancelled \in BOOLEAN /\ fill_wake_requested \in BOOLEAN
        /\ state \in {"Filling", "Complete", "Bypass"}
    BY WriterTypes, Zenon
  <2>2. /\ WGoto("bypass stop") => writer' \in Writer /\ writer'.pc = "bypass stop"
        /\ WGoto("bypass wake") => writer' \in Writer /\ writer'.pc = "bypass wake"
        /\ WGoto("signal") => writer' \in Writer /\ writer'.pc = "signal"
    BY WriterGoes, Zenon DEF WriterPcs
  <2>3. CASE writer.pc = "bypass"
    BY <2>1, <2>2, <2>3, Zenon DEF EnterBypass, WAt
  <2>4. CASE writer.pc = "bypass stop"
    BY <2>1, <2>2, <2>4, Zenon DEF EnterBypass, WAt
  <2>5. CASE writer.pc = "bypass wake"
    BY <2>1, <2>2, <2>5, Zenon DEF EnterBypass, WAt
  <2> QED
    BY <2>3, <2>4, <2>5, Zenon DEF EnterBypass, WAt
<1>3. CountInv' /\ DecisionInv'
  <2>1. CountInv'
    BY <1>1, <1>2, SameCount, Zenon
  <2> QED
    BY <1>1, <1>2, <2>1, Zenon DEF IInv, DecisionInv
<1>4. NoLostSignal'
  BY <1>1, <1>2, Zenon DEF IInv, NoLostSignal, FAt, Full, RoomDue, StopSeen, StopDue,
     CompletionDue
<1> QED
  BY <1>1, <1>2, <1>3, <1>4, WriterTypes, WriterMoves, Zenon

\* signal_fill_events_from_writer: each event when its turn comes.
LEMMA SignalAllStep ==
    ASSUME IInv, SignalAll
    PROVE  IInv'
<1>1. UNCHANGED <<state, records, present, generation, attempts, queue, queued_bytes,
                  fill_stop, fill_wake_requested, stopping, budget, fill, reader, parker>>
  BY Zenon DEF SignalAll, store, WQuiet
<1>2. /\ writer' \in Writer /\ cancelled' \in BOOLEAN /\ fill_queue_room' \in BOOLEAN
      /\ fill_completion' \in BOOLEAN
      /\ cancelled => cancelled'
      /\ \/ /\ writer.pc = "signal" /\ writer'.pc = "signal completion" /\ fill_queue_room'
            /\ UNCHANGED fill_completion
         \/ /\ writer.pc = "signal completion" /\ writer'.pc = "signal cancel"
            /\ fill_completion' /\ UNCHANGED fill_queue_room
         \/ /\ writer.pc = "signal cancel" /\ writer'.pc = "wait"
            /\ UNCHANGED <<fill_queue_room, fill_completion>>
  <2>1. /\ cancelled \in BOOLEAN /\ fill_queue_room \in BOOLEAN
        /\ fill_completion \in BOOLEAN /\ (cancelled \/ StopSeen) \in BOOLEAN
    BY WriterTypes, Zenon
  <2>2. /\ WGoto("signal completion") =>
              writer' \in Writer /\ writer'.pc = "signal completion"
        /\ WGoto("signal cancel") => writer' \in Writer /\ writer'.pc = "signal cancel"
        /\ WGoto("wait") => writer' \in Writer /\ writer'.pc = "wait"
    BY WriterGoes, Zenon DEF WriterPcs
  <2>3. CASE writer.pc = "signal"
    BY <2>1, <2>2, <2>3, Zenon DEF SignalAll, WAt
  <2>4. CASE writer.pc = "signal completion"
    BY <2>1, <2>2, <2>4, Zenon DEF SignalAll, WAt
  <2>5. CASE writer.pc = "signal cancel"
    BY <2>1, <2>2, <2>5, Zenon DEF SignalAll, WAt
  <2> QED
    BY <2>3, <2>4, <2>5, Zenon DEF SignalAll, WAt
<1>3. CountInv' /\ DecisionInv'
  <2>1. CountInv'
    BY <1>1, <1>2, SameCount, Zenon
  <2> QED
    BY <1>1, <1>2, <2>1, Zenon DEF IInv, DecisionInv
<1>4. NoLostSignal'
  <2>1. /\ FAt("await room")' => FAt("await room")
        /\ FAt("await completion")' => FAt("await completion")
        /\ Full => Full'
        /\ StopSeen' => StopSeen
    BY <1>1, Zenon DEF FAt, Full, StopSeen
  <2>2. CASE writer.pc = "signal" /\ writer'.pc = "signal completion"
             /\ fill_queue_room' /\ UNCHANGED fill_completion
    BY <1>1, <1>2, <2>1, <2>2, Zenon DEF IInv, NoLostSignal, CompletionDue
  <2>3. CASE writer.pc = "signal completion" /\ writer'.pc = "signal cancel"
             /\ fill_completion' /\ UNCHANGED fill_queue_room
    BY <1>1, <1>2, <2>1, <2>3, Zenon DEF IInv, NoLostSignal, RoomDue, StopDue
  <2>4. CASE writer.pc = "signal cancel" /\ writer'.pc = "wait"
             /\ UNCHANGED <<fill_queue_room, fill_completion>>
    <3>1. /\ FAt("await room") /\ ~ fill_queue_room =>
               Full /\ (StopSeen => StopDue)
          /\ FAt("await completion") /\ ~ fill_completion => CompletionDue \/ cancelled
      BY <2>4, Zenon DEF IInv, NoLostSignal, RoomDue
    <3>2. (StopDue => StopDue') /\ (CompletionDue => CompletionDue')
      BY <1>1, <2>4, Zenon DEF StopDue, CompletionDue
    <3>3. /\ fill_queue_room' = fill_queue_room /\ fill_completion' = fill_completion
          /\ cancelled => cancelled'
      BY <1>2, <2>4, Zenon
    <3>4. (FAt("await room") /\ ~ fill_queue_room)' => Full' /\ (StopSeen' => StopDue')
      BY <2>1, <3>1, <3>2, <3>3, Zenon
    <3>5. (FAt("await completion") /\ ~ fill_completion)' => CompletionDue' \/ cancelled'
      BY <2>1, <3>1, <3>2, <3>3, Zenon
    <3> QED
      BY <3>4, <3>5, Zenon DEF NoLostSignal
  <2> QED
    BY <1>2, <2>2, <2>3, <2>4, Zenon
<1> QED
  BY <1>1, <1>2, <1>3, <1>4, WriterTypes, WriterMoves, Zenon

-----------------------------------------------------------------------------
(* The readers and the owner of the store. *)

\* A reader's write only fills the queue.
LEMMA ReaderEnqueuesStep ==
    ASSUME IInv, ReaderEnqueues
    PROVE  IInv'
<1>1. UNCHANGED <<state, records, present, generation, attempts, fill_stop, cancelled,
                  fill_wake_requested, stopping, fill_queue_room, fill_completion, fill,
                  writer, reader, parker, budget>>
  BY Zenon DEF ReaderEnqueues, signals
<1>2. PICK e \in Extents : /\ queue' = Append(queue, [eid |-> e, clear |-> FALSE])
                           /\ queued_bytes' = queued_bytes + 1
  BY Zenon DEF ReaderEnqueues, EnqueueWrite, Missing
<1>3. queue' \in Seq(Job) /\ queued_bytes' \in Int
  <2>1. [eid |-> e, clear |-> FALSE] \in Job
    BY Zenon DEF Job
  <2> QED
    BY <1>2, <2>1, WriterTypes
<1>4. Full => Full'
  BY <1>2, StaysFull, Zenon
<1>5. CountInv' /\ DecisionInv'
  BY <1>1, Zenon DEF IInv, CountInv, DecisionInv, Owed
<1>6. NoLostSignal'
  BY <1>1, <1>4, Zenon DEF IInv, NoLostSignal, FAt, RoomDue, StopSeen, StopDue, CompletionDue
<1> QED
  BY <1>1, <1>3, <1>5, <1>6, WriterTypes, WriterMoves, Zenon

\* A reader meets a bad checksum; it owes nothing yet.
LEMMA ReaderMismatchStep ==
    ASSUME IInv, NEW r \in Readers, ReaderMismatch(r)
    PROVE  IInv'
<1>1. /\ UNCHANGED <<state, records, present, generation, attempts, queue, queued_bytes,
                     fill_stop, cancelled, fill_wake_requested, stopping, fill_queue_room,
                     fill_completion, fill, writer, parker>>
      /\ reader[r].pc = "away"
  BY Zenon DEF ReaderMismatch, store, signals
<1>2. PICK f : /\ f \in Frame /\ f.pc = "demote" /\ reader' = [reader EXCEPT ![r] = f]
  <2>1. PICK e \in records : reader' = [reader EXCEPT ![r] = [pc |-> "demote", eid |-> e]]
    BY Zenon DEF ReaderMismatch
  <2>2. [pc |-> "demote", eid |-> e] \in Frame
    BY WriterTypes, Zenon DEF Frame
  <2> QED
    BY <2>1, <2>2, Zenon
<1>3. reader' \in [Readers -> Frame] /\ Owed' = Owed
  BY <1>1, <1>2, WriterTypes, Zenon DEF Owed
<1>4. budget' \in Budget /\ budget'.straddled = budget.straddled
  <2>1. budget.trouble > 0 /\ budget' = [budget EXCEPT !.trouble = budget.trouble - 1]
    BY Zenon DEF ReaderMismatch
  <2> QED
    BY <2>1, WriterTypes, Spend, Zenon
<1>5. CountInv' /\ DecisionInv'
  BY <1>1, <1>3, <1>4, Zenon DEF IInv, CountInv, DecisionInv
<1>6. NoLostSignal'
  BY <1>1, Zenon DEF IInv, NoLostSignal, FAt, Full, RoomDue, StopSeen, StopDue, CompletionDue
<1> QED
  BY <1>1, <1>3, <1>4, <1>5, <1>6, WriterTypes, WriterMoves, Zenon

\* The exchange: what the records lose, the reader owes.
LEMMA ReaderDemotesStep ==
    ASSUME IInv, NEW r \in Readers, ReaderDemotes(r)
    PROVE  IInv'
<1>1. /\ UNCHANGED <<state, present, generation, attempts, queue, queued_bytes, fill_stop,
                     cancelled, fill_wake_requested, stopping, fill_queue_room,
                     fill_completion, fill, writer, parker, budget>>
      /\ reader[r].pc = "demote"
  BY Zenon DEF ReaderDemotes, signals
<1>2. PICK e \in Extents : e = reader[r].eid
  BY WriterTypes, Zenon DEF Frame
<1>3. PICK f : /\ f \in Frame /\ reader' = [reader EXCEPT ![r] = f]
               /\ f.pc = IF e \in records THEN "subtract" ELSE "clear"
  <2>1. reader[r] \in Frame
    BY WriterTypes, Zenon
  <2>2. PICK p \in {"subtract", "clear"} : p = IF e \in records THEN "subtract" ELSE "clear"
    BY Zenon
  <2>3. PICK f : f = [reader[r] EXCEPT !.pc = p]
    BY Zenon
  <2>4. f \in Frame /\ f.pc = p
    BY <2>1, <2>3, Zenon DEF Frame
  <2>5. reader' = [reader EXCEPT ![r].pc = p]
    BY <1>2, <2>2, Zenon DEF ReaderDemotes
  <2>6. reader' = [reader EXCEPT ![r] = f]
    BY <2>3, <2>5, Zenon
  <2> QED
    BY <2>2, <2>4, <2>6, Zenon
<1>4. reader' \in [Readers -> Frame]
  BY <1>3, WriterTypes, Zenon
<1>5. records' = records \ {e} /\ records' \in SUBSET Extents
  <2>1. records' = records \ {e}
    BY <1>2, Zenon DEF ReaderDemotes
  <2> QED
    BY <2>1, WriterTypes, Zenon
<1>6. Cardinality(records') + Cardinality(Owed') = Cardinality(records) + Cardinality(Owed)
  <2>1. /\ IsFiniteSet(records) /\ Cardinality(records) \in Nat
        /\ IsFiniteSet(Owed) /\ Cardinality(Owed) \in Nat
    BY Numbers, Zenon
  <2>2. CASE e \in records
    <3>1. Cardinality(records') = Cardinality(records) - 1
      BY <1>5, <2>1, <2>2, FS_RemoveElement, Zenon
    <3>2. Owed' = Owed \cup {r} /\ r \notin Owed
      BY <1>1, <1>3, <2>2, WriterTypes, Zenon DEF Owed
    <3>3. Cardinality(Owed') = Cardinality(Owed) + 1
      BY <2>1, <3>2, FS_AddElement, Zenon
    <3> QED
      BY <2>1, <3>1, <3>3
  <2>3. CASE e \notin records
    <3>1. records' = records
      BY <1>5, <2>3, Zenon
    <3>2. Owed' = Owed
      BY <1>1, <1>3, <2>3, WriterTypes, Zenon DEF Owed
    <3> QED
      BY <3>1, <3>2, Zenon
  <2> QED
    BY <2>2, <2>3, Zenon
<1>7. CountInv'
  BY <1>1, <1>6, Zenon DEF IInv, CountInv
<1>8. DecisionInv'
  <2>1. records = {} => records' = {}
    BY <1>5, Zenon
  <2> QED
    BY <1>1, <2>1, Zenon DEF IInv, DecisionInv
<1>9. NoLostSignal'
  BY <1>1, Zenon DEF IInv, NoLostSignal, FAt, Full, RoomDue, StopSeen, StopDue, CompletionDue
<1> QED
  BY <1>1, <1>4, <1>5, <1>7, <1>8, <1>9, WriterTypes, WriterMoves, Zenon

\* The subtraction: what the reader owed, the counter loses.
LEMMA ReaderSubtractsStep ==
    ASSUME IInv, NEW r \in Readers, ReaderSubtracts(r)
    PROVE  IInv'
<1>1. /\ UNCHANGED <<state, records, generation, attempts, queue, queued_bytes, fill_stop,
                     cancelled, fill_wake_requested, stopping, fill_queue_room,
                     fill_completion, fill, writer, parker, budget>>
      /\ reader[r].pc = "subtract" /\ present' = present - 1
      /\ reader' = [reader EXCEPT ![r].pc = "clear"]
  BY Zenon DEF ReaderSubtracts, signals
<1>2. PICK f : f \in Frame /\ f.pc = "clear" /\ reader' = [reader EXCEPT ![r] = f]
  <2>1. reader[r] \in Frame
    BY WriterTypes, Zenon
  <2>2. PICK f : f = [reader[r] EXCEPT !.pc = "clear"]
    BY Zenon
  <2>3. f \in Frame /\ f.pc = "clear"
    BY <2>1, <2>2, Zenon DEF Frame
  <2>4. reader' = [reader EXCEPT ![r] = f]
    BY <1>1, <2>2, Zenon
  <2> QED
    BY <2>3, <2>4, Zenon
<1>3. reader' \in [Readers -> Frame]
  BY <1>2, WriterTypes, Zenon
<1>4. Cardinality(Owed') = Cardinality(Owed) - 1
  <2>1. Owed' = Owed \ {r} /\ r \in Owed
    BY <1>1, <1>2, WriterTypes, Zenon DEF Owed
  <2> QED
    BY <2>1, OwedCounts, FS_RemoveElement, Zenon
<1>5. /\ present \in Int /\ present <= ExtentCount /\ ExtentCount \in Nat
      /\ Cardinality(records) \in Nat /\ Cardinality(Owed) \in Nat
  BY Numbers, Zenon
<1>6. CountInv'
  <2>1. /\ budget' = budget /\ writer' = writer /\ records' = records
        /\ present' = present - 1
    BY <1>1, Zenon
  <2>2. /\ ~ budget.straddled /\ writer.pc = "count" =>
               Cardinality(records) + Cardinality(Owed) = present + 1
        /\ ~ budget.straddled /\ writer.pc = "clear count" =>
               Cardinality(records) + Cardinality(Owed) = present - 1
        /\ ~ budget.straddled /\ writer.pc \notin {"count", "clear count", "restart count"} =>
               Cardinality(records) + Cardinality(Owed) = present
    BY Zenon DEF IInv, CountInv
  <2>3. /\ Cardinality(records) + Cardinality(Owed) = present + 1 =>
               Cardinality(records') + Cardinality(Owed') = present' + 1
        /\ Cardinality(records) + Cardinality(Owed) = present - 1 =>
               Cardinality(records') + Cardinality(Owed') = present' - 1
        /\ Cardinality(records) + Cardinality(Owed) = present =>
               Cardinality(records') + Cardinality(Owed') = present'
    BY <1>4, <1>5, <2>1
  <2> QED
    BY <2>1, <2>2, <2>3, Zenon DEF CountInv
<1>7. present' \in Int /\ present' <= ExtentCount /\ present' # ExtentCount
  BY <1>1, <1>5
<1>8. DecisionInv'
  BY <1>1, <1>7, Zenon DEF IInv, DecisionInv
<1>9. NoLostSignal'
  BY <1>1, Zenon DEF IInv, NoLostSignal, FAt, Full, RoomDue, StopSeen, StopDue, CompletionDue
<1> QED
  BY <1>1, <1>3, <1>6, <1>7, <1>8, <1>9, WriterTypes, WriterMoves, Zenon

\* enqueue_clear: a job without payload, which takes no room.
LEMMA ReaderClearsStep ==
    ASSUME IInv, NEW r \in Readers, ReaderClears(r)
    PROVE  IInv'
<1>1. /\ UNCHANGED <<state, records, present, generation, attempts, queued_bytes, fill_stop,
                     cancelled, fill_wake_requested, stopping, fill_queue_room,
                     fill_completion, fill, writer, parker, budget>>
      /\ reader[r].pc = "clear"
      /\ reader' = [reader EXCEPT ![r] = [pc |-> "away", eid |-> 1]]
  BY Zenon DEF ReaderClears, signals
<1>2. queue' \in Seq(Job)
  <2>1. [eid |-> reader[r].eid, clear |-> TRUE] \in Job
    BY WriterTypes, Zenon DEF Frame, Job
  <2>2. \/ queue' = queue
        \/ queue' = Append(queue, [eid |-> reader[r].eid, clear |-> TRUE])
    BY Zenon DEF ReaderClears
  <2> QED
    BY <2>1, <2>2, WriterTypes
<1>3. PICK f : f \in Frame /\ f.pc = "away" /\ reader' = [reader EXCEPT ![r] = f]
  <2>1. [pc |-> "away", eid |-> 1] \in Frame
    BY FillAssumption DEF Frame, Extents
  <2> QED
    BY <1>1, <2>1, Zenon
<1>4. reader' \in [Readers -> Frame] /\ Owed' = Owed
  BY <1>1, <1>3, WriterTypes, Zenon DEF Owed
<1>5. CountInv' /\ DecisionInv'
  BY <1>1, <1>4, Zenon DEF IInv, CountInv, DecisionInv
<1>6. NoLostSignal'
  BY <1>1, Zenon DEF IInv, NoLostSignal, FAt, Full, RoomDue, StopSeen, StopDue, CompletionDue
<1> QED
  BY <1>1, <1>2, <1>4, <1>5, <1>6, WriterTypes, WriterMoves, Zenon

\* park_fill: the stop mark, the cancel that may fail, the wake request, the
\* join; then the teardown.
LEMMA ParkStep ==
    ASSUME IInv, Park
    PROVE  IInv'
<1>1. UNCHANGED <<state, records, present, generation, attempts, queue, queued_bytes,
                  fill_queue_room, fill_completion, fill, writer, reader, budget>>
  BY Zenon DEF Park, store
<1>2. /\ parker' \in {"cancel", "wake", "join", "parked", "destroying"}
      /\ fill_stop' \in BOOLEAN /\ cancelled' \in BOOLEAN
      /\ fill_wake_requested' \in BOOLEAN /\ stopping' \in BOOLEAN
  BY Zenon DEF Park, IInv, TypeOK
<1>3. TypeOK'
  BY <1>1, <1>2, Zenon DEF IInv, TypeOK
<1>4. CountInv' /\ DecisionInv' /\ HandInv'
  BY <1>1, Zenon DEF IInv, CountInv, DecisionInv, HandInv, FAt, Owed
<1>5. \/ /\ parker \in {"away", "cancel", "wake"} /\ UNCHANGED stopping
         /\ cancelled => cancelled'
         /\ parker' \in {"cancel", "wake"} \/ (parker' = "join" /\ fill_wake_requested')
      \/ /\ parker = "join" /\ fill.pc = "done" /\ parker' = "parked" /\ UNCHANGED stopping
      \/ parker = "parked" /\ parker' = "destroying" /\ stopping'
  BY Zenon DEF Park, FAt, IInv, TypeOK
<1>6. /\ parker \in {"parked", "destroying"} => fill.pc = "done"
      /\ stopping => parker = "destroying"
  BY Zenon DEF IInv, TeardownInv, FAt
<1>7. TeardownInv'
  BY <1>1, <1>5, <1>6 DEF TeardownInv, FAt
<1>8. NoLostSignal'
  <2>1. CASE parker \in {"join", "parked"}
    <3>1. fill'.pc = "done"
      BY <1>1, <1>5, <1>6, <2>1, Zenon
    <3> QED
      BY <3>1, Zenon DEF NoLostSignal, FAt
  <2>2. CASE /\ cancelled => cancelled'
             /\ parker' \in {"cancel", "wake"} \/ (parker' = "join" /\ fill_wake_requested')
    BY <1>1, <2>2, Zenon DEF IInv, NoLostSignal, FAt, Full, RoomDue, StopSeen,
       StopDue, CompletionDue
  <2> QED
    BY <1>5, <2>1, <2>2, Zenon
<1> QED
  BY <1>3, <1>4, <1>7, <1>8, Zenon DEF IInv

-----------------------------------------------------------------------------

\* The inductive invariant of the fill, over every step of run_fill, the writer
\* thread, the readers and park_fill.
LEMMA Invariance == Spec => []IInv
<1>1. Init => IInv
  BY Initial, Zenon
<1>2. ASSUME IInv, [Next]_vars
      PROVE  IInv'
  <2>1. CASE FillStep
    BY <1>2, <2>1, QuietFillSteps, AwaitCompletionStep, wait_queue_roomStep, EnqueueFillStep, Zenon
       DEF FillStep
  <2>2. CASE WriterStep
    BY <1>2, <2>2, WriterLoopStep, SignalRoomStep, ProcessStep, CountStep,
       CompleteLayerStep, RestartFreshStep, EnterBypassStep, SignalAllStep, Zenon DEF WriterStep
  <2>3. CASE \E r \in Readers : ReaderMismatch(r) \/ DemoteStep(r)
    BY <1>2, <2>3, ReaderMismatchStep, ReaderDemotesStep, ReaderSubtractsStep,
       ReaderClearsStep, Zenon DEF DemoteStep
  <2>4. CASE ReaderEnqueues \/ Park
    BY <1>2, <2>4, ReaderEnqueuesStep, ParkStep, Zenon
  <2>5. CASE UNCHANGED vars
    <3>1. TypeOK'
      BY <1>2, <2>5, Zenon DEF vars, IInv, TypeOK
    <3>2. CountInv' /\ DecisionInv' /\ HandInv' /\ TeardownInv'
      BY <1>2, <2>5, Zenon DEF vars, IInv, CountInv, DecisionInv, HandInv,
         TeardownInv, FAt, Owed
    <3>3. NoLostSignal'
      BY <1>2, <2>5, Zenon DEF vars, IInv, NoLostSignal, FAt, Full, RoomDue, StopSeen,
       StopDue, CompletionDue
    <3> QED
      BY <3>1, <3>2, <3>3, Zenon DEF IInv
  <2> QED
    BY <1>2, <2>1, <2>2, <2>3, <2>4, <2>5, Zenon DEF Next
<1> QED
  BY <1>1, <1>2, PTL DEF Spec

\* present_ counts what it should unless a demotion straddles a restart: it is
\* the number of records plus the subtractions that pread still owes (the
\* exchange of a record and the fetch_sub are two steps, as are the record and
\* the count of process_job).
THEOREM CounterFollowsRecords == Spec => []CountInv
<1>1. IInv => CountInv
  BY Zenon DEF IInv
<1> QED
  BY <1>1, Invariance, PTL

\* Neither event of the fill (fill_queue_room_, fill_completion_) loses a wakeup:
\* whenever run_fill sleeps on one that is not set, whoever sets it is on the way.
THEOREM NoSignalLost == Spec => []NoLostSignal
<1>1. IInv => NoLostSignal
  BY Zenon DEF IInv
<1> QED
  BY <1>1, Invariance, PTL
=============================================================================
