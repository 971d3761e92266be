----------------------------- MODULE HybridPair -----------------------------
(***************************************************************************)
(* The Hybrid writable upper (hybrid::FilePair, hybrid::Writer): a data    *)
(* file, a mapping log beside it, and the stamps that say how much of the  *)
(* log counts.  The index carries the progress of completed appends in an  *)
(* extended attribute, the data file an anchor that names the log prefix   *)
(* of the last FLUSH.  Growth and seal go through an intent file.          *)
(*                                                                         *)
(* Two failures of the machine are modelled.  A process exit keeps every   *)
(* completed file operation.  A power loss keeps what was synchronised and *)
(* any part of the rest: sectors, log records, attributes, headers and     *)
(* names reach the disk independently of each other.                       *)
(*                                                                         *)
(* A mapping has a flag z for zeroed ranges, which keep payload of their   *)
(* own as backing; at = 0 is a zeroed range without backing.  A checksum   *)
(* is represented by the records it vouches for.                           *)
(***************************************************************************)
EXTENDS Segments

CONSTANTS
    Sizes,          \* capacities a device asks for, in sectors
    LiveLimit,      \* kMaxRoIndexSize
    CompactFloor,   \* modify compacts at 4096 records ...
    CompactSlack,   \* ... or at 2 per live mapping and 16 more
    Ranges,         \* bound: the ranges written and discarded
    MaxOps, MaxFaults, MaxExits, MaxLosses

ASSUME HybridAssumption ==
    /\ Sizes \subseteq {s + 1 : s \in Sectors} /\ Sizes # {}
    /\ {LiveLimit, CompactFloor} \subseteq Nat \ {0}
    /\ {CompactSlack, MaxOps, MaxFaults, MaxExits, MaxLosses} \subseteq Nat

VARIABLES
    now,        \* the files as the running system sees them
    safe,       \* what of them is synchronised; fresh is an index whose name is not
    mem,        \* the process that owns the pair
    op,         \* the operation it executes
    past,       \* what the guest may rely on
    budget

vars == <<now, safe, mem, op, past, budget>>

Lower == -1     \* contents: whatever the lower layers hold,
Junk == -2      \* bytes nobody wrote there,
Old == -3       \* and bytes of the imported pair
Torn == -1      \* a capacity whose bytes are partly rewritten

NoStamp == [gen |-> -1, log |-> <<>>]
NoAnchor == [kind |-> "none", first |-> NoStamp, second |-> NoStamp]
Stable(stamp) == [kind |-> "stable", first |-> stamp, second |-> NoStamp]

\* An index file: gen is its inode, and the generation of its stamps.
NewIndex(gen, log, size) ==
    [gen |-> gen, log |-> log, torn |-> FALSE, size |-> size, progress |-> [gen |-> gen, log |-> log]]

NoFiles == [exists |-> FALSE, payload |-> <<>>, ragged |-> FALSE, size |-> 0,
            anchor |-> NoAnchor, index |-> NewIndex(0, <<>>, 0), fresh |-> <<>>, txn |-> <<>>,
            sealed |-> <<>>]

\* A pair of the upstream writer: no attributes, and a zeroed range whose
\* offset is only the end of the data file.
Imported ==
    LET log == <<[lo |-> 0, n |-> 1, at |-> 1, z |-> FALSE], [lo |-> 1, n |-> 1, at |-> 2, z |-> TRUE]>>
        size == Max(Sizes)
    IN  [NoFiles EXCEPT !.exists = TRUE, !.payload = <<Old>>, !.size = size,
                        !.index = [NewIndex(0, log, size) EXCEPT !.progress = NoStamp]]

NoProcess == [role |-> "none", ready |-> FALSE, size |-> 0, vsize |-> 0, segs |-> {}, end |-> 0,
              stamp |-> <<>>, failed |-> FALSE, checkpointed |-> FALSE]

NoOp == [kind |-> "none", pc |-> "idle", goal |-> 0, from |-> 0, lo |-> 0, hi |-> 0, val |-> 0,
         frag |-> <<>>, i |-> 0, next |-> {}, after |-> "done"]

\* What a set of mappings says a sector holds.
Content(S, payload, s) ==
    IF \E m \in S : s \in Cover(m)
    THEN LET m == CHOOSE m \in S : s \in Cover(m) IN IF m.z THEN Zero ELSE payload[At(m, s)]
    ELSE Lower

----------------------------------------------------------------------------
(* Replay of a mapping log.                                                *)

\* The payload sectors behind a mapping that lie inside the data file.
Backing(m, payload) == IF m.at = 0 \/ m.at + m.n - 1 > payload THEN {} ELSE m.at .. m.at + m.n - 1

Overlaps(m, S, payload) ==
    \E o \in S \ {m} : Backing(o, payload) \intersect Backing(m, payload) # {}

\* Imported zero markers that do not own their range lose it.
Owned(S, payload) ==
    {IF m.z /\ (Backing(m, payload) = {} \/ Overlaps(m, S, payload)) THEN [m EXCEPT !.at = 0] ELSE m :
        m \in S}

Acceptable(log, size, payload) ==
    /\ \A i \in DOMAIN log :
          /\ log[i].n > 0 /\ End(log[i]) <= size
          /\ IF log[i].z THEN log[i].at <= payload + 1 ELSE log[i].at + log[i].n - 1 <= payload
    /\ LET D == {m \in Replayed(log) : ~m.z} IN \A m \in D : ~Overlaps(m, D, payload)

Value(s) ==
    IF now.sealed # <<>> THEN Content(now.sealed[1].segs, now.payload, s)
    ELSE Content(mem.segs, now.payload, s)

Init ==
    /\ now \in {NoFiles, Imported} /\ safe = now
    /\ mem = NoProcess /\ op = NoOp
    /\ past = LET held == [s \in Sectors |-> Content(Replayed(now.index.log), now.payload, s)]
              IN  [allowed |-> [s \in Sectors |-> {held[s]}], image |-> held, touched |-> {},
                   excused |-> FALSE, refused |-> "no"]
    /\ budget = [ops |-> 0, faults |-> 0, exits |-> 0, losses |-> 0]

----------------------------------------------------------------------------
(* Synchronisation, process exit and power loss.                           *)

SyncedPayload(d) == [d EXCEPT !.payload = now.payload, !.ragged = now.ragged,
                              !.size = now.size, !.sealed = now.sealed]
SyncedData(d) == [SyncedPayload(d) EXCEPT !.anchor = now.anchor]
SyncedIndex(d) == IF d.index.gen = now.index.gen THEN [d EXCEPT !.index = now.index]
                  ELSE [d EXCEPT !.fresh = <<now.index>>]
SyncedNames(d) == [d EXCEPT !.exists = now.exists, !.txn = now.txn, !.fresh = <<>>,
                            !.index = IF d.fresh = <<>> THEN @ ELSE d.fresh[1]]

Go(pc) == op' = [op EXCEPT !.pc = pc]
Fault == budget.faults < MaxFaults /\ budget' = [budget EXCEPT !.faults = @ + 1]
Gone == mem' = NoProcess /\ op' = NoOp
Refuse(why) == Gone /\ past' = [past EXCEPT !.refused = why]

Exit ==
    /\ mem.role # "none" /\ budget.exits < MaxExits
    /\ Gone /\ budget' = [budget EXCEPT !.exits = @ + 1]
    /\ UNCHANGED <<now, safe, past>>

\* What a power loss may leave of an index file with durable version a.
Halves(a, b) ==
    LET differ == {i \in DOMAIN b.log : i > Len(a.log)}
        garbage == [lo |-> 0, n |-> 0, at |-> 0, z |-> FALSE]
        logs == {[i \in 1 .. len |-> IF i \notin differ THEN a.log[i]
                                     ELSE IF i \in K THEN b.log[i] ELSE garbage] :
                     len \in Min({Len(a.log), Len(b.log)}) .. Max({Len(a.log), Len(b.log)}),
                     K \in SUBSET differ}
    IN  [gen : {b.gen}, log : logs, torn : {a.torn, b.torn}, size : {a.size, b.size},
         progress : {a.progress, b.progress}
                        \union {[gen |-> b.gen, log |-> SubSeq(b.log, 1, i)] : i \in differ}]

\* The files after it.
Survivors ==
    LET differ == {p \in DOMAIN now.payload : p > Len(safe.payload) \/ now.payload[p] # safe.payload[p]}
        payloads == {[p \in 1 .. len |-> IF p \notin differ \/ p \in K THEN now.payload[p]
                                         ELSE IF p <= Len(safe.payload) THEN safe.payload[p] ELSE Junk] :
                         len \in Len(safe.payload) .. Len(now.payload), K \in SUBSET differ}
        indexes == IF safe.index.gen = now.index.gen THEN Halves(safe.index, now.index)
                   ELSE {safe.index} \union Halves(safe.fresh[1], now.index)
    IN  IF ~safe.exists THEN {NoFiles, now}
        ELSE [exists : {TRUE}, payload : payloads, ragged : {safe.ragged, now.ragged},
              size : {safe.size, now.size}, anchor : {safe.anchor, now.anchor}, index : indexes,
              fresh : {<<>>}, txn : {safe.txn, now.txn}, sealed : {safe.sealed, now.sealed}]

AnyContent == {Lower, Junk, Old, Zero} \union 1 .. MaxOps

\* The pending intent has begun to change the headers.
Applied == now.txn # <<>> /\ {now.size, now.index.size} # {now.txn[1].old}

PowerLoss ==
    /\ safe # now /\ budget.losses < MaxLosses
    /\ now' \in Survivors /\ safe' = now'
    /\ Gone
    /\ past' = [past EXCEPT !.allowed = [s \in Sectors |-> AnyContent],
                            !.excused = \/ Len(now'.payload) < Len(now.payload)
                                        \/ Applied /\ safe.txn = <<>>]
    /\ budget' = [budget EXCEPT !.losses = @ + 1]

----------------------------------------------------------------------------
(* Creation and opening.                                                   *)

\* A device creates or reopens its upper, a recovering one only reopens
\* it, a commit reopens it to seal it at the size goal (0: as it is).
Start(role, goal) ==
    /\ mem.role = "none"
    /\ mem' = [NoProcess EXCEPT !.role = role]
    /\ op' = [NoOp EXCEPT !.kind = "open", !.pc = "find", !.goal = goal]
    /\ UNCHANGED <<now, safe, past, budget>>

Find ==
    /\ op.pc = "find"
    /\ UNCHANGED <<now, safe, budget>>
    /\ IF now.exists THEN Go("settle") /\ UNCHANGED <<mem, past>>
       ELSE IF mem.role = "device" THEN Go("create") /\ UNCHANGED <<mem, past>>
       ELSE Refuse("missing")

\* The staging directory is complete and synchronised, stamps included,
\* before one rename publishes it.
Create ==
    /\ op.pc = "create"
    /\ now' = [NoFiles EXCEPT !.exists = TRUE, !.size = op.goal,
                              !.anchor = Stable([gen |-> 0, log |-> <<>>]),
                              !.index = NewIndex(0, <<>>, op.goal)]
    /\ safe' = [now' EXCEPT !.exists = FALSE]
    /\ Go("createSync")
    /\ UNCHANGED <<mem, past, budget>>

CreateSync ==
    /\ op.pc = "createSync"
    /\ safe' = now
    /\ mem' = [mem EXCEPT !.size = op.goal, !.vsize = op.goal]
    /\ Go("opened")
    /\ UNCHANGED <<now, past, budget>>

\* A pending intent is checked against the files it was written for.
Admissible ==
    LET t == now.txn[1] IN
    /\ t.gen = now.index.gen /\ t.log = now.index.log /\ ~now.index.torn
    /\ IF t.op = "grow"
       THEN /\ Len(now.payload) = t.n /\ ~now.ragged
            /\ {now.size, now.index.size} \subseteq {t.old, t.new, Torn}
       ELSE {now.size, now.index.size} = {t.old}

\* open_descriptors: finish the intent, then settle the names.
Settle ==
    /\ op.pc = "settle"
    /\ UNCHANGED <<now, budget>>
    /\ IF now.txn = <<>> THEN Go("inspect") /\ safe' = SyncedNames(safe) /\ UNCHANGED <<mem, past>>
       ELSE IF Admissible
       THEN /\ op' = [op EXCEPT !.pc = IF now.txn[1].op = "grow" THEN "growData" ELSE "sealAppend",
                                !.after = "settle"]
            /\ UNCHANGED <<safe, mem, past>>
       ELSE Refuse("damaged") /\ safe' = safe

Matches(stamp) ==
    Len(stamp.log) <= Len(now.index.log) /\ SubSeq(now.index.log, 1, Len(stamp.log)) = stamp.log

\* Mutant of Selected: the anchored prefix, whatever was appended since.
SelectedAnchor ==
    IF now.anchor = NoAnchor THEN {[gen |-> now.index.gen, log |-> now.index.log]}
    ELSE {a \in {now.anchor.first, now.anchor.second} : a.gen = now.index.gen /\ Matches(a)}

\* inspect_log_state: the accepted prefix of the log, if any.  A pair without
\* attributes is taken as it is; progress counts where it continues the
\* anchored prefix and the records are there.
Selected ==
    LET progress == now.index.progress
        anchored == {now.anchor.first} \union
                        (IF now.anchor.kind = "replacing" THEN {now.anchor.second} ELSE {})
    IN  IF now.anchor = NoAnchor /\ progress = NoStamp
        THEN {[gen |-> now.index.gen, log |-> now.index.log]}
        ELSE IF progress = NoStamp
        THEN {a \in anchored : now.anchor.kind = "installing" /\ Matches(a)}
        ELSE {IF Len(progress.log) >= Len(a.log) /\ Matches(progress) THEN progress ELSE a :
                 a \in {a \in anchored : a.gen = progress.gen /\ Matches(a)}}

\* validate_pair, the stamps and the replay of the prefix they select.
Inspect ==
    /\ op.pc = "inspect"
    /\ UNCHANGED <<now, safe, budget>>
    /\ IF now.sealed # <<>> THEN Refuse("sealed")
       ELSE IF now.ragged \/ now.index.torn THEN Refuse("torn")
       ELSE IF /\ now.size = now.index.size /\ now.size # Torn
               /\ \E a \in Selected : Acceptable(a.log, now.size, Len(now.payload))
       THEN /\ \E a \in Selected :
                  mem' = [mem EXCEPT !.size = now.size, !.vsize = now.size, !.stamp = a.log,
                                     !.segs = Owned(Replayed(a.log), Len(now.payload)),
                                     !.end = Len(now.payload)]
            /\ Go("truncate") /\ past' = past
       ELSE Refuse("damaged")

\* activate_log_state: cut the tail, synchronise, anchor the prefix.
Truncate ==
    /\ op.pc = "truncate"
    /\ now' = [now EXCEPT !.index.log = mem.stamp]
    /\ Go("activate")
    /\ UNCHANGED <<safe, mem, past, budget>>

Activate ==
    /\ op.pc = "activate"
    /\ safe' = SyncedNames(SyncedIndex(SyncedData(safe)))
    /\ now' = [now EXCEPT !.anchor = IF @ # NoAnchor THEN @
                                     ELSE [Stable([gen |-> now.index.gen, log |-> mem.stamp])
                                              EXCEPT !.kind = "installing"]]
    /\ Go("progress")
    /\ UNCHANGED <<mem, past, budget>>

Progress ==
    /\ op.pc = "progress"
    /\ safe' = SyncedData(safe)
    /\ now' = [now EXCEPT !.index.progress = [gen |-> now.index.gen, log |-> mem.stamp]]
    /\ Go("progressSync")
    /\ UNCHANGED <<mem, past, budget>>

ProgressSync ==
    /\ op.pc = "progressSync"
    /\ safe' = SyncedIndex(safe) /\ Go("commit")
    /\ UNCHANGED <<now, mem, past, budget>>

Anchored == [s \in Sectors |-> Content(mem.segs, now.payload, s)]

\* An opened pair is as durable as a flushed one.  A device grows it to the
\* size it needs, a recovering one does not; a commit seals it.
Opened ==
    /\ op.pc = "opened"
    /\ past' = [allowed |-> [s \in Sectors |-> {Anchored[s]}], image |-> Anchored,
                touched |-> {}, excused |-> FALSE, refused |-> "no"]
    /\ UNCHANGED <<now, safe, budget>>
    /\ IF mem.role # "recover" /\ op.goal > mem.size
       THEN op' = [op EXCEPT !.kind = "grow", !.pc = "growIntent", !.after = "opened"] /\ mem' = mem
       ELSE IF mem.role = "commit" /\ op.goal \in {0, mem.size}
       THEN op' = [op EXCEPT !.kind = "seal", !.pc = "reserve", !.after = "sealed"] /\ mem' = mem
       ELSE IF mem.role = "commit" \/ op.goal > mem.size THEN Gone
       ELSE op' = NoOp /\ mem' = [mem EXCEPT !.ready = TRUE]

\* Any step of an opening may throw.
OpenFault ==
    /\ op.kind = "open" /\ op.pc # "opened" /\ Fault /\ Gone
    /\ UNCHANGED <<now, safe, past>>

\* A growth or seal within an opening ends with its process.
Done(m) == IF m.ready THEN mem' = m /\ op' = NoOp ELSE Gone
Failed == [mem EXCEPT !.failed = TRUE]

----------------------------------------------------------------------------
(* Publication of an anchor: the end of an opening, a flush, a compaction. *)

Commit ==
    /\ op.pc = "commit"
    /\ now' = [now EXCEPT !.anchor = Stable([gen |-> now.index.gen, log |-> mem.stamp])]
    /\ Go("commitSync")
    /\ UNCHANGED <<safe, mem, past, budget>>

CommitSync ==
    /\ op.pc = "commitSync"
    /\ safe' = SyncedData(safe)
    /\ UNCHANGED <<now, budget>>
    /\ IF op.kind \in {"flush", "checkpoint"}
       THEN /\ past' = [past EXCEPT !.touched = {}, !.image = Anchored]
            /\ Done([mem EXCEPT !.checkpointed = @ \/ op.kind = "checkpoint"])
       ELSE /\ Go(CASE op.kind = "open" -> "opened" [] op.kind = "seal" -> "sealIntent"
                    [] OTHER -> "fragment")
            /\ UNCHANGED <<mem, past>>

----------------------------------------------------------------------------
(* Writes and discards, fragment by fragment.                              *)

Serving == mem.ready /\ ~mem.failed /\ ~mem.checkpointed /\ op = NoOp /\ budget.ops < MaxOps

Begin(kind, lo, hi) ==
    /\ Serving /\ hi <= mem.vsize
    /\ LET val == IF kind = "discard" THEN Zero ELSE budget.ops + 1 IN
       /\ op' = [NoOp EXCEPT !.kind = kind, !.pc = "fragment", !.from = lo, !.lo = lo,
                               !.hi = hi, !.val = val]
       /\ past' = [past EXCEPT !.touched = @ \union (lo .. hi-1),
                               !.allowed = [s \in Sectors |-> IF s \in lo .. hi-1 THEN @[s] \union {val}
                                                              ELSE @[s]]]
    /\ budget' = [budget EXCEPT !.ops = @ + 1]
    /\ UNCHANGED <<now, safe, mem>>

CompactionDue ==
    Len(now.index.log) >= Max({CompactFloor, 2 * Cardinality(mem.segs) + CompactSlack})

Plan ==
    LET zero == op.kind = "discard"
        over == {m \in mem.segs : op.lo \in Cover(m)}
        boundary == Min({End(m) : m \in over} \union {m.lo : m \in {m \in mem.segs : m.lo > op.lo}}
                            \union {mem.vsize})
        n == Min({boundary, op.hi, op.lo + MaxLength}) - op.lo
        backed == \E m \in over : m.at # 0
        at == IF backed THEN At(CHOOSE m \in over : TRUE, op.lo) ELSE mem.end + 1
    IN  [m |-> [lo |-> op.lo, n |-> n, at |-> at, z |-> zero],
         backed |-> backed,
         transition |-> ~backed \/ \E m \in over : m.z # zero,
         idle |-> zero /\ backed /\ \E m \in over : m.z]

Replaced(m) == Trim(mem.segs, m.lo, End(m)) \union {m}

\* Compact when due, then plan the next fragment.  Discarding a zeroed
\* range changes nothing; otherwise the new mappings are prepared before
\* any payload is touched, and there may be too many of them.
Fragment ==
    /\ op.pc = "fragment"
    /\ past' = IF op.lo # op.hi THEN past
               ELSE [past EXCEPT !.allowed = [s \in Sectors |-> IF s \in op.from .. op.hi - 1 THEN {op.val}
                                                                ELSE @[s]]]
    /\ UNCHANGED <<now, safe, budget>>
    /\ IF op.lo = op.hi THEN Done(mem)
       ELSE IF CompactionDue THEN Go("reserve") /\ mem' = mem
       ELSE IF Plan.idle THEN op' = [op EXCEPT !.lo = @ + Plan.m.n] /\ mem' = mem
       ELSE IF Plan.transition /\ Cardinality(Replaced(Plan.m)) > LiveLimit THEN Done(mem)
       ELSE /\ op' = [op EXCEPT !.frag = <<Plan.m>>, !.i = 0,
                                !.next = IF Plan.transition THEN Replaced(Plan.m) ELSE {},
                                !.pc = IF op.kind = "write" \/ ~Plan.backed THEN "payload" ELSE "record"]
            /\ mem' = mem

Stored(place, val) ==
    [i \in 1 .. Max({Len(now.payload), place}) |-> IF i = place THEN val ELSE now.payload[i]]

WritePayload ==
    /\ op.pc = "payload"
    /\ LET m == op.frag[1] IN
       /\ now' = [now EXCEPT !.payload = Stored(m.at + op.i, op.val)]
       /\ op' = IF op.i + 1 < m.n THEN [op EXCEPT !.i = @ + 1]
                ELSE IF op.next # {} THEN [op EXCEPT !.pc = "record"]
                ELSE [op EXCEPT !.pc = "fragment", !.lo = End(m)]
    /\ UNCHANGED <<safe, mem, past, budget>>

AppendRecord ==
    /\ op.pc = "record"
    /\ now' = [now EXCEPT !.index.log = Append(@, op.frag[1])]
    /\ Go("stamp")
    /\ UNCHANGED <<safe, mem, past, budget>>

\* append_log_progress, after which the mappings become visible.
StampRecord ==
    /\ op.pc = "stamp"
    /\ LET m == op.frag[1]
           log == Append(mem.stamp, m)
       IN  /\ now' = [now EXCEPT !.index.progress = [gen |-> now.index.gen, log |-> log]]
           /\ mem' = [mem EXCEPT !.stamp = log, !.segs = op.next, !.end = Max({@, m.at + m.n - 1})]
           /\ op' = [op EXCEPT !.pc = "fragment", !.lo = End(m)]
    /\ UNCHANGED <<safe, past, budget>>

\* A failed write leaves any part of its bytes and ends the writer.
WriteFault ==
    /\ op.pc \in {"payload", "record", "stamp"} /\ Fault /\ Done(Failed)
    /\ \/ now' = now
       \/ op.pc = "payload" /\ op.frag[1].at + op.i > Len(now.payload) /\ now' = [now EXCEPT !.ragged = TRUE]
       \/ op.pc = "record" /\ now' = [now EXCEPT !.index.torn = TRUE]
    /\ UNCHANGED <<safe, past>>

----------------------------------------------------------------------------
(* Compaction: a new index of a new generation.                            *)

Unbacked == InOrder({m \in mem.segs : m.at = 0})
Reserved == FoldLeft(LAMBDA acc, m : [end |-> acc.end + m.n,
                                      segs |-> acc.segs \union {[m EXCEPT !.at = acc.end + 1]}],
                     [end |-> mem.end, segs |-> {m \in mem.segs : m.at # 0}], Unbacked)

Continues(a, b) == End(a) = b.lo /\ a.z = b.z /\ a.at + a.n = b.at /\ a.n + b.n <= MaxLength

Coalesced(S) ==
    FoldLeft(LAMBDA acc, m : IF acc # <<>> /\ Continues(Last(acc), m)
                             THEN [acc EXCEPT ![Len(acc)].n = @ + m.n] ELSE Append(acc, m),
             <<>>, InOrder(S))

\* Give every zeroed range backing of its own; the log does not know yet.
Reserve ==
    /\ op.pc = "reserve"
    /\ now' = [now EXCEPT !.payload = @ \o [i \in 1 .. Reserved.end - mem.end |-> Zero]]
    /\ mem' = [mem EXCEPT !.end = Reserved.end]
    /\ op' = [op EXCEPT !.pc = "replace", !.next = ToSet(Coalesced(Reserved.segs))]
    /\ UNCHANGED <<safe, past, budget>>

ReserveFault ==
    /\ op.pc = "reserve" /\ Unbacked # <<>> /\ Fault /\ Done(Failed)
    /\ now' \in {now, [now EXCEPT !.ragged = TRUE]}
    /\ UNCHANGED <<safe, past>>

NextIndex == NewIndex(now.index.gen + 1, InOrder(op.next), mem.size)

\* Mutant of Replace: the anchor names the new index only.
ReplaceAtOnce ==
    /\ op.pc = "replace"
    /\ safe' = SyncedNames(SyncedIndex(SyncedData(safe)))
    /\ now' = [now EXCEPT !.anchor = Stable(NextIndex.progress)]
    /\ Go("rename")
    /\ UNCHANGED <<mem, past, budget>>

\* Both candidates and the names are durable before the anchor names both.
Replace ==
    /\ op.pc = "replace"
    /\ safe' = SyncedNames(SyncedIndex(SyncedData(safe)))
    /\ now' = [now EXCEPT !.anchor = [kind |-> "replacing", second |-> NextIndex.progress,
                                      first |-> [gen |-> now.index.gen, log |-> mem.stamp]]]
    /\ Go("rename")
    /\ UNCHANGED <<mem, past, budget>>

Rename ==
    /\ op.pc = "rename"
    /\ safe' = [SyncedData(safe) EXCEPT !.fresh = <<NextIndex>>]
    /\ now' = [now EXCEPT !.index = NextIndex]
    /\ mem' = [mem EXCEPT !.stamp = NextIndex.log, !.segs = op.next]
    /\ Go("renamed")
    /\ UNCHANGED <<past, budget>>

Renamed ==
    /\ op.pc = "renamed"
    /\ safe' = SyncedNames(safe) /\ Go("commit")
    /\ UNCHANGED <<now, mem, past, budget>>

\* A failed replacement returns; the writer goes on with the index it has.
ReplaceFault ==
    /\ op.kind # "open" /\ op.pc \in {"replace", "rename", "renamed", "commit", "commitSync"}
    /\ Fault /\ Done(mem)
    /\ UNCHANGED <<now, safe, past>>

\* FLUSH, and the checkpoint that ends the writer: payload, index and names
\* are synchronised before the anchor moves.  A FLUSH with nothing to cover
\* changes nothing and is left out.
FlushBegins(kind) ==
    /\ mem.ready /\ ~mem.failed /\ op = NoOp
    /\ IF kind = "flush" THEN past.touched # {} ELSE ~mem.checkpointed
    /\ op' = [NoOp EXCEPT !.kind = kind, !.pc = "flush"]
    /\ UNCHANGED <<now, safe, mem, past, budget>>

\* Mutant of FlushSyncs: the index and its directory, not the data file.
FlushIndexOnly ==
    /\ op.pc = "flush"
    /\ safe' = SyncedNames(SyncedIndex(safe))
    /\ past' = [past EXCEPT !.touched = {}, !.image = Anchored]
    /\ Done(mem)
    /\ UNCHANGED <<now, budget>>

FlushSyncs ==
    /\ op.pc = "flush"
    /\ safe' = SyncedNames(SyncedIndex(SyncedPayload(safe)))
    /\ Go("commit")
    /\ UNCHANGED <<now, mem, past, budget>>

FlushFault ==
    /\ op.pc = "flush" /\ Fault /\ Done(mem)
    /\ UNCHANGED <<now, safe, past>>

----------------------------------------------------------------------------
(* Growth and seal: an intent, the change, the retirement of the intent.   *)

GrowRequest(goal) ==
    /\ Serving /\ goal > mem.vsize
    /\ op' = [NoOp EXCEPT !.kind = "grow", !.pc = "growIntent", !.goal = goal, !.after = "grown"]
    /\ budget' = [budget EXCEPT !.ops = @ + 1]
    /\ UNCHANGED <<now, safe, mem, past>>

PublishIntent(kind, new) ==
    /\ safe' = SyncedIndex(SyncedData(safe))
    /\ now' = [now EXCEPT !.txn = <<[op |-> kind, gen |-> now.index.gen, log |-> now.index.log,
                                     n |-> Len(now.payload), old |-> now.size, new |-> new]>>]
    /\ UNCHANGED <<mem, past, budget>>

GrowIntent == op.pc = "growIntent" /\ PublishIntent("grow", op.goal) /\ Go("intent")
SealIntent == op.pc = "sealIntent" /\ PublishIntent("seal", now.size) /\ Go("intent")

IntentSync ==
    /\ op.pc = "intent"
    /\ safe' = SyncedNames(safe)
    /\ Go(IF now.txn[1].op = "grow" THEN "growData" ELSE "sealAppend")
    /\ UNCHANGED <<now, mem, past, budget>>

\* A header is rewritten in place and may be caught half-way.
TearHeader ==
    /\ \/ op.pc = "growData" /\ now.size = now.txn[1].old /\ now' = [now EXCEPT !.size = Torn]
       \/ op.pc = "growIndex" /\ now.index.size = now.txn[1].old /\ now' = [now EXCEPT !.index.size = Torn]
    /\ UNCHANGED <<safe, mem, op, past, budget>>

GrowData ==
    /\ op.pc = "growData"
    /\ now' = [now EXCEPT !.size = now.txn[1].new] /\ Go("growIndex")
    /\ UNCHANGED <<safe, mem, past, budget>>

GrowIndex ==
    /\ op.pc = "growIndex"
    /\ safe' = SyncedData(safe)
    /\ now' = [now EXCEPT !.index.size = now.txn[1].new] /\ Go("retire")
    /\ UNCHANGED <<mem, past, budget>>

\* The compact index and the trailer go behind the payload.
SealAppend ==
    /\ op.pc = "sealAppend"
    /\ now' = [now EXCEPT !.sealed = <<[size |-> now.size, segs |-> ToSet(now.index.log)]>>]
    /\ Go("retire")
    /\ UNCHANGED <<safe, mem, past, budget>>

Retire ==
    /\ op.pc = "retire"
    /\ safe' = SyncedIndex(SyncedData(safe))
    /\ now' = [now EXCEPT !.txn = <<>>] /\ Go("retired")
    /\ UNCHANGED <<mem, past, budget>>

Retired ==
    /\ op.pc = "retired"
    /\ safe' = SyncedNames(safe)
    /\ UNCHANGED <<now, past, budget>>
    /\ CASE op.after = "settle" -> Go("settle") /\ mem' = mem
         [] op.after = "opened" -> Go("opened") /\ mem' = [mem EXCEPT !.size = now.size, !.vsize = now.size]
         [] op.after = "grown" -> Done([mem EXCEPT !.size = now.size, !.vsize = now.size])
         [] op.after = "sealed" -> Gone

TransactionFault ==
    /\ op.kind \in {"grow", "seal"}
    /\ op.pc \in {"growIntent", "sealIntent", "intent", "growData", "growIndex", "sealAppend",
                   "retire", "retired"}
    /\ Fault /\ Done(Failed)
    /\ UNCHANGED <<now, safe, past>>

StartAny ==
    \/ \E role \in {"device", "recover"}, goal \in Sizes : Start(role, goal)
    \/ \E goal \in Sizes \union {0} : Start("commit", goal)

Write == \E r \in Ranges : Begin("write", r[1], r[2])
Discard == \E r \in Ranges : Begin("discard", r[1], r[2])
Grow == \E goal \in Sizes : GrowRequest(goal)
Flush == FlushBegins("flush")
Checkpoint == FlushBegins("checkpoint")

OpenStep ==
    \/ StartAny \/ Find \/ Create \/ CreateSync \/ Settle \/ Inspect \/ Truncate \/ Activate
    \/ Progress \/ ProgressSync \/ Opened \/ OpenFault

WriteStep ==
    \/ Write \/ Discard \/ Fragment \/ WritePayload \/ AppendRecord \/ StampRecord \/ WriteFault
    \/ Reserve \/ ReserveFault \/ Replace \/ Rename \/ Renamed \/ ReplaceFault
    \/ Flush \/ Checkpoint \/ FlushSyncs \/ FlushFault \/ Commit \/ CommitSync

TransactionStep ==
    \/ Grow \/ GrowIntent \/ SealIntent \/ IntentSync \/ TearHeader \/ GrowData \/ GrowIndex
    \/ SealAppend \/ Retire \/ Retired \/ TransactionFault

Next == OpenStep \/ WriteStep \/ TransactionStep \/ Exit \/ PowerLoss

Spec == Init /\ [][Next]_vars

----------------------------------------------------------------------------
\* The mappings an opening has recovered, until it is complete.
Recovered == op.kind = "open" /\ op.pc \in {"truncate", "activate", "progress", "progressSync", "commit"}

\* Completed writes and discards survive an exit of the process without a
\* FLUSH, and one that was interrupted leaves each sector as it was or as it
\* was to be (modify, open_existing); a sealed layer holds the same contents.
ExitKeepsWrites ==
    Recovered \/ now.sealed # <<>> => \A s \in Sectors : Value(s) \in past.allowed[s]

\* What a successful FLUSH covered, and no later operation has touched,
\* survives a power loss in whatever order the rest reached the disk
\* (flush_locked, inspect_log_state, replace_index_sync).
FlushSurvives ==
    Recovered \/ now.sealed # <<>> =>
        \A s \in Sectors \ past.touched : Value(s) = past.image[s]

\* No exit and no power loss leaves a pair that its next opening refuses as
\* damaged (open_existing, inspect_log_state, finish), except where the loss
\* took payload appended since the last FLUSH, or the name of an intent that
\* a recovering process was already applying.
PairReopens == past.refused = "damaged" => past.excused

=============================================================================
