--------------------------- MODULE QueueOwnerProofs ---------------------------
(***************************************************************************)
(* Proofs about one ublk queue, for every number of tags, requests and     *)
(* faults: who may touch a tag's buffer, that every reply is owed, that    *)
(* the retirement ledger is true, and that no wakeup of the owner is lost. *)
(***************************************************************************)
EXTENDS QueueOwner, TLAPS

RawSlot == [pending : BOOLEAN, delivered : BOOLEAN, completing : BOOLEAN,
            reply_ready : BOOLEAN, ok : BOOLEAN]

Places == {"none", "prepared", "issued", "work", "cq"}

Results == {"none", "ok", "ENODEV", "EIO", "ECANCELED"}

EngineTag == [busy : BOOLEAN, started : BOOLEAN, ready : BOOLEAN, generation : Nat,
              active_generation : Nat, handler_failed : BOOLEAN]

MailSlot == [gen : Nat, st : {"empty", "armed", "writing", "ready"}]

Living == {"begin", "wait", "woken", "source", "return", "return error", "failing",
           "writing", "flag"}

Frame == [pc : Living \cup {"none", "gone"}, gen : Nat, threw : BOOLEAN]

PumpPcs == {"unstarted", "begin", "init", "gate", "gate read", "prepare", "submit",
            "loop", "collect", "scan", "flush", "enter", "drain", "hint", "pop",
            "admit", "retry signal", "check", "sleep", "park", "close", "join",
            "drained", "retire", "maintain", "exited", "never ran"}

Pump == [pc : PumpPcs,
         phase : {"serve", "retire"}, published : BOOLEAN, consumed : Nat, hints : Nat,
         more : BOOLEAN, todo : SUBSET Tags, next : {"flush", "admit", "drained"}]

QueueFlags == [publication_gate : {"closed", "open", "aborted"}, setup_ready : BOOLEAN,
               stop : BOOLEAN, releasing : BOOLEAN, kernel_stopped : BOOLEAN,
               exit_requested : BOOLEAN, owner_exited : BOOLEAN,
               owner_wakeup_on_elio : BOOLEAN,
               owner_admission : {"unclaimed", "begun", "sealed"},
               initial_fetches_issued : BOOLEAN, sources_drained : BOOLEAN,
               failed : BOOLEAN]

Device == [pc : {"spawn", "seal", "setup", "run", "release", "drain sources", "stop dev",
                 "stop settled", "request exit", "await exit", "closed"},
           released : BOOLEAN]

TypeOK ==
    /\ raw \in [Tags -> RawSlot] /\ cmd \in [Tags -> Places] /\ cqe \in [Tags -> Results]
    /\ owes \subseteq Tags /\ honest \subseteq Tags /\ stopped \in BOOLEAN
    /\ efd \in BOOLEAN /\ owner_pending \in Seq(Tags)
    /\ debt_known \in BOOLEAN /\ completion_pending \in BOOLEAN
    /\ batching_closed \in BOOLEAN /\ flag \in QueueFlags /\ complete \in BOOLEAN
    /\ tag \in [Tags -> EngineTag] /\ mailbox \in [Tags -> MailSlot]
    /\ foreign_pending \in BOOLEAN /\ closed \in BOOLEAN
    /\ handler \in [Tags -> Frame] /\ leaving \in [announce : Nat, notify : Nat]
    /\ owner \in Pump /\ device \in Device

-----------------------------------------------------------------------------
(* The ledger of commands: the slot r of a tag, the place c of its command,  *)
(* its result q, and whether the driver waits for a reply (o) that may       *)
(* report success (h).                                                       *)

LedgerOK(t, r, c, q, o, h) ==
    /\ r[t].pending <=> c[t] # "none"
    /\ c[t] # "none" => ~ r[t].delivered /\ ~ r[t].reply_ready
    /\ r[t].reply_ready => r[t].delivered /\ ~ r[t].ok
    /\ c[t] = "none" => (r[t].delivered <=> t \in o)
    /\ c[t] = "prepared" => (r[t].completing <=> t \in o)
                            /\ (r[t].completing /\ r[t].ok => t \in h)
    /\ c[t] = "issued" => t \notin o
    /\ c[t] \in {"work", "cq"} =>
          /\ q[t] # "none"
          /\ q[t] = "ok" => t \in o
          /\ q[t] = "ENODEV" => t \notin o
          /\ q[t] \in {"EIO", "ECANCELED"} => (r[t].completing <=> t \in o)

LedgerInv == \A t \in Tags : LedgerOK(t, raw, cmd, cqe, owes, honest)

\* A request awaits admission.
Waiting(t) == \E i \in DOMAIN owner_pending : owner_pending[i] = t

\* The request of tag t is delivered and has no reply yet.
Unanswered(t, r) == r[t].delivered /\ ~ r[t].pending /\ ~ r[t].reply_ready

PendingInv ==
    /\ \A t \in Tags : Waiting(t) => Unanswered(t, raw)
    /\ \A i, j \in DOMAIN owner_pending : owner_pending[i] = owner_pending[j] => i = j

AdmitInv ==
    owner.pc = "admit" \/ (owner.pc \in {"collect", "scan"} /\ owner.next = "admit")
        => owner_pending # <<>>

\* The engine: a busy tag has a request of its own and its mailbox, the frame
\* that serves it knows its generation, and a frame that failed is gone before
\* the tag is reset.
EngineOK(t) ==
    /\ owner.phase = "serve" /\ tag[t].busy => Unanswered(t, raw) /\ ~ Waiting(t)
    /\ tag[t].busy =>
          /\ tag[t].active_generation = tag[t].generation /\ tag[t].generation # 0
          /\ mailbox[t].gen = tag[t].generation /\ mailbox[t].st # "empty"
    /\ ~ tag[t].busy => tag[t].active_generation = 0
    /\ tag[t].handler_failed => Dead(t) /\ tag[t].started
    /\ handler[t].pc \in Living => tag[t].started
    /\ handler[t].pc \in {"source", "return", "return error"} =>
          tag[t].busy /\ handler[t].gen = tag[t].generation
    /\ handler[t].pc = "return" => t \in honest
    /\ handler[t].pc \in Living \ {"writing", "flag"} =>
          mailbox[t].st \in {"empty", "armed"}
    /\ handler[t].pc = "writing" <=> mailbox[t].st = "writing"
    /\ mailbox[t].st \in {"writing", "ready"} => tag[t].busy

EngineInv == \A t \in Tags : EngineOK(t)

\* The phases of the pump.
Joined ==
    \/ owner.phase = "retire" \/ owner.pc \in {"drained", "exited"}
    \/ owner.pc \in {"collect", "scan"} /\ owner.next = "drained"

Untouched ==
    /\ \A t \in Tags : ~ tag[t].busy /\ ~ tag[t].started /\ ~ tag[t].handler_failed
                       /\ handler[t].pc = "none"
    /\ NoneLeaving /\ owner_pending = <<>> /\ ~ completion_pending

NoDebt == \A t \in Tags : ~ raw[t].pending /\ ~ raw[t].delivered

PhaseInv ==
    /\ owner.phase = "retire" =>
          owner.pc \in {"retire", "enter", "drain", "hint", "maintain", "sleep", "park",
                        "exited"}
    /\ owner.phase = "serve" => owner.pc \notin {"retire", "maintain"}
    /\ owner.pc \notin {"unstarted", "begin", "init", "exited", "never ran"} =>
          flag.owner_wakeup_on_elio

\* After the join no frame is left, and replies are no longer batched.
JoinInv ==
    /\ Joined => NoneLeaving /\ \A t \in Tags : Dead(t)
    /\ Joined /\ owner.pc # "exited" => batching_closed
    /\ owner.pc = "join" => batching_closed
    /\ batching_closed => ~ completion_pending

\* Nothing has happened on a queue without commands.
FreshInv ==
    /\ ~ owner.published =>
          /\ owner.phase = "serve" /\ Untouched
          /\ owner.pc # "submit" => NoDebt
    /\ owner.pc \in {"unstarted", "begin", "init", "gate", "gate read", "prepare", "submit",
                     "never ran"} => ~ owner.published
    /\ owner.pc = "exited" => NoDebt

ExitInv ==
    /\ flag.owner_exited =>
          \/ owner.pc = "exited"
          \/ flag.owner_admission = "sealed" /\ owner.pc \in {"begin", "never ran"}
    /\ flag.owner_admission = "unclaimed" => owner.pc \in {"unstarted", "begin"}
    /\ device.pc = "spawn" <=> owner.pc = "unstarted"
    /\ device.pc = "spawn" => ~ flag.owner_exited
    /\ device.pc = "closed" => flag.owner_exited

-----------------------------------------------------------------------------
(* Wakeups. *)

\* From the end of a CQ turn to the suspension.
TurnOver ==
    \/ owner.pc \in {"pop", "admit", "retry signal", "check", "park", "maintain"}
    \/ owner.pc \in {"collect", "scan"} /\ owner.next = "admit"

NoWork == \A t \in Tags : cmd[t] # "work"

NoPosted == \A t \in Tags : cmd[t] # "cq"

WakeInv ==
    /\ owner.pc \in {"drain", "hint"} \/ TurnOver => efd \/ NoWork
    /\ owner.pc = "hint" => NoPosted
    /\ TurnOver /\ ~ owner.more => efd \/ (NoWork /\ NoPosted)
    /\ owner.pc \in {"enter", "drain", "hint"} => ~ completion_pending
    /\ TurnOver /\ completion_pending => efd
    /\ owner.pc = "park" => ~ owner.more
    /\ owner.pc = "park" /\ owner.phase = "serve" =>
          efd \/ (~ flag.failed /\ (flag.stop => device.pc = "release"))
    /\ owner.pc = "park" /\ owner.phase = "retire" =>
          efd \/ ~ (flag.exit_requested /\ kernel_retired(raw, debt_known))
    /\ owner.pc = "gate read" =>
          efd \/ (flag.publication_gate = "closed" /\ ~ flag.failed)

IInv == TypeOK /\ LedgerInv /\ PendingInv /\ AdmitInv /\ EngineInv
        /\ PhaseInv /\ JoinInv /\ FreshInv /\ ExitInv /\ WakeInv

\* What was flushed and not entered belongs to a failed submission, and what is
\* prepared awaits a flush that is due, unless a submission failed.
FlushInv ==
    /\ remaining # {} => flag.failed
    /\ (\E t \in Tags : cmd[t] = "prepared") =>
          completion_pending \/ flag.failed \/ owner.pc = "submit"

-----------------------------------------------------------------------------

(* What the invariant says of the properties. *)

LEMMA Consequences ==
    ASSUME IInv
    PROVE  /\ BufferLoans /\ RepliesAreOwed /\ RetirementIsReal
           /\ FlushInv => NoLostEvent
<1>1. BufferLoans
  <2> SUFFICES ASSUME NEW t \in Tags, HAt(t, "source")
               PROVE  t \in owes /\ cmd[t] = "none" /\ raw[t].delivered
    BY Zenon DEF BufferLoans
  <2>1. EngineOK(t) /\ LedgerOK(t, raw, cmd, cqe, owes, honest) /\ ~ Dead(t)
    BY Zenon DEF IInv, EngineInv, LedgerInv, HAt, Dead
  <2>2. owner.phase = "serve"
    BY <2>1, Zenon DEF IInv, TypeOK, Pump, JoinInv, Joined
  <2> QED
    BY <2>1, <2>2, Zenon DEF EngineOK, LedgerOK, Unanswered, HAt
<1>2. RepliesAreOwed
  BY Zenon DEF IInv, LedgerInv, LedgerOK, RepliesAreOwed
<1>3. RetirementIsReal
  <2> SUFFICES ASSUME flag.owner_exited
               PROVE  /\ owes = {} /\ NoneLeaving
                      /\ \A t \in Tags : cmd[t] = "none" /\ Dead(t)
    BY Zenon DEF RetirementIsReal, IInv, ExitInv
  <2>1. NoDebt /\ NoneLeaving /\ \A t \in Tags : Dead(t)
    <3>1. CASE owner.pc = "exited"
      BY <3>1, Zenon DEF IInv, JoinInv, Joined, FreshInv
    <3>2. CASE owner.pc \in {"begin", "never ran"}
      BY <3>2, Zenon DEF IInv, FreshInv, Untouched, Dead
    <3> QED
      BY <3>1, <3>2, Zenon DEF IInv, ExitInv
  <2>2. \A t \in Tags : cmd[t] = "none" /\ t \notin owes
    BY <2>1, Zenon DEF NoDebt, IInv, LedgerInv, LedgerOK
  <2> QED
    BY <2>1, <2>2, Zenon DEF IInv, TypeOK
<1>4. FlushInv => NoLostEvent
  BY Zenon DEF IInv, FlushInv, WakeInv, TurnOver, NoLostEvent, OAt, NoWork, NoPosted, TypeOK
<1> QED
  BY <1>1, <1>2, <1>3, <1>4, Zenon

LEMMA Initial == Init => IInv
<1> SUFFICES ASSUME Init
             PROVE  IInv
  BY Zenon
<1>1. TypeOK
  <2>1. /\ raw \in [Tags -> RawSlot] /\ cmd \in [Tags -> Places] /\ cqe \in [Tags -> Results]
        /\ owes \subseteq Tags /\ honest \subseteq Tags /\ stopped \in BOOLEAN
    BY Zenon DEF Init, Slot, RawSlot, Places, Results
  <2>6. owner_pending \in Seq(Tags)
    BY DEF Init
  <2>2. /\ efd \in BOOLEAN /\ debt_known \in BOOLEAN
        /\ completion_pending \in BOOLEAN /\ batching_closed \in BOOLEAN
        /\ complete \in BOOLEAN /\ foreign_pending \in BOOLEAN /\ closed \in BOOLEAN
    BY Zenon DEF Init
  <2>3. flag \in QueueFlags
    BY Zenon DEF Init, Flags, QueueFlags
  <2>4. /\ tag \in [Tags -> EngineTag] /\ mailbox \in [Tags -> MailSlot]
        /\ handler \in [Tags -> Frame] /\ leaving \in [announce : Nat, notify : Nat]
    BY Zenon DEF Init, TagState, EngineTag, MailSlot, Frame
  <2>5. owner \in Pump /\ device \in Device
    BY Zenon DEF Init, Pump, PumpPcs, Device
  <2> QED
    BY <2>1, <2>2, <2>3, <2>4, <2>5, <2>6, Zenon DEF TypeOK
<1>2. LedgerInv
  BY Zenon DEF Init, Slot, LedgerInv, LedgerOK
<1>3. PendingInv
  BY DEF Init, PendingInv, Waiting
<1>4. EngineInv
  BY Zenon DEF Init, EngineInv, EngineOK, TagState, Living
<1>5. AdmitInv /\ PhaseInv
  BY Zenon DEF Init, AdmitInv, PhaseInv
<1>6. JoinInv /\ FreshInv
  BY Zenon DEF Init, JoinInv, FreshInv, Joined, Untouched, NoDebt, NoneLeaving, Slot, TagState
<1>7. ExitInv /\ WakeInv
  BY Zenon DEF Init, ExitInv, WakeInv, TurnOver, Flags
<1> QED
  BY <1>1, <1>2, <1>3, <1>4, <1>5, <1>6, <1>7, Zenon DEF IInv

-----------------------------------------------------------------------------
(* Shared pieces of the code. *)

\* The atomics that only their own operations set.
SameFlags(f, g) ==
    /\ g.publication_gate = f.publication_gate /\ g.stop = f.stop
    /\ g.exit_requested = f.exit_requested /\ g.owner_exited = f.owner_exited
    /\ g.owner_wakeup_on_elio = f.owner_wakeup_on_elio
    /\ g.owner_admission = f.owner_admission

\* Queue::fail only latches the failure; it wakes an owner that has its eventfd.
LEMMA Failing ==
    ASSUME TypeOK, fail
    PROVE  /\ flag' \in QueueFlags /\ SameFlags(flag, flag') /\ flag'.failed
           /\ efd' \in BOOLEAN /\ (efd => efd') /\ (flag.owner_wakeup_on_elio => efd')
<1>1. flag \in QueueFlags /\ efd \in BOOLEAN
  BY Zenon DEF TypeOK
<1>2. flag' = [flag EXCEPT !.failed = TRUE]
  BY Zenon DEF fail
<1>3. flag' \in QueueFlags
  BY <1>1, <1>2, Zenon DEF QueueFlags
<1>4. SameFlags(flag, flag') /\ flag'.failed
  BY <1>1, <1>2, Zenon DEF QueueFlags, SameFlags
<1> QED
  BY <1>1, <1>3, <1>4, Zenon DEF fail, wakeup, QueueFlags

\* The pump goes on to another place of its frame.
Moved(pc) ==
    /\ owner' \in Pump /\ owner'.pc = pc /\ owner'.phase = owner.phase
    /\ owner'.published = owner.published /\ owner'.more = owner.more
    /\ owner'.next = owner.next

LEMMA Going ==
    ASSUME TypeOK, NEW pc \in PumpPcs, OGoto(pc)
    PROVE  Moved(pc)
BY Zenon DEF TypeOK, OGoto, Moved, Pump

\* Queue::submit_owner keeps the ledger, and signals the eventfd for work it
\* defers and for its own failure.
LEMMA Submitting ==
    ASSUME TypeOK, NEW r \in [Tags -> RawSlot], NEW c \in [Tags -> Places],
           \A t \in Tags : LedgerOK(t, r, c, cqe, owes, honest),
           \A t \in Tags : c[t] = "work" => cmd[t] = "work",
           submit_owner(r, c, FALSE)
    PROVE  /\ cmd' \in [Tags -> Places] /\ cqe' \in [Tags -> Results]
           /\ owes' \subseteq Tags /\ honest' = honest /\ stopped' = stopped
           /\ \A t \in Tags : LedgerOK(t, r, cmd', cqe', owes', honest)
           /\ \A t \in Tags : cmd'[t] = "cq" => c[t] = "cq"
           /\ flag' \in QueueFlags /\ SameFlags(flag, flag')
           /\ flag'.failed => flag.failed \/ efd'
           /\ efd' \in BOOLEAN /\ (efd => efd')
           /\ efd \/ NoWork => efd' \/ (\A t \in Tags : cmd'[t] # "work")
<1> DEFINE ready == {t \in Tags : c[t] = "prepared" /\ (remaining = {} \/ t \in remaining)}
<1>a. PICK taken \in SUBSET ready : \E bad \in SUBSET taken :
        LET ended == {t \in taken \ bad : r[t].completing}
            back == bad \cup {t \in ended : stopped}
        IN  /\ \/ taken = ready /\ bad = {} /\ UNCHANGED budget
               \/ taken = ready /\ bad # {} /\ Fault("reject")
               \/ taken # ready /\ bad = {} /\ Fault("submit")
            /\ remaining' = ready \ taken
            /\ cmd' = [t \in Tags |-> IF t \in back THEN "work"
                                      ELSE IF t \in taken THEN "issued" ELSE c[t]]
            /\ \E no \in {"EIO", "ECANCELED"} :
                 /\ bad = {} => no = "EIO"
                 /\ cqe' = [t \in Tags |-> IF t \in bad THEN no
                                           ELSE IF t \in back THEN "ENODEV" ELSE cqe[t]]
            /\ owes' = owes \ ended
            /\ flag' = [flag EXCEPT
                 !.failed = @ \/ FALSE \/ taken # ready,
                 !.initial_fetches_issued =
                    @ \/ /\ taken = ready /\ flag.publication_gate = "open"
                         /\ \E t \in Tags : r[t].pending]
            /\ efd' = (efd \/ FALSE \/ taken # ready
                       \/ (back # {} /\ \A t \in Tags : cmd[t] # "work"))
            /\ UNCHANGED <<honest, stopped>>
  BY Zenon DEF submit_owner
<1>b. PICK bad \in SUBSET taken :
        LET ended == {t \in taken \ bad : r[t].completing}
            back == bad \cup {t \in ended : stopped}
        IN  /\ cmd' = [t \in Tags |-> IF t \in back THEN "work"
                                      ELSE IF t \in taken THEN "issued" ELSE c[t]]
            /\ \E no \in {"EIO", "ECANCELED"} :
                 cqe' = [t \in Tags |-> IF t \in bad THEN no
                                        ELSE IF t \in back THEN "ENODEV" ELSE cqe[t]]
            /\ owes' = owes \ ended
            /\ flag' = [flag EXCEPT
                 !.failed = @ \/ FALSE \/ taken # ready,
                 !.initial_fetches_issued =
                    @ \/ /\ taken = ready /\ flag.publication_gate = "open"
                         /\ \E t \in Tags : r[t].pending]
            /\ efd' = (efd \/ FALSE \/ taken # ready
                       \/ (back # {} /\ \A t \in Tags : cmd[t] # "work"))
            /\ UNCHANGED <<honest, stopped>>
  BY <1>a, Zenon
<1> DEFINE ended == {t \in taken \ bad : r[t].completing}
           back == bad \cup {t \in ended : stopped}
<1>c. PICK no \in {"EIO", "ECANCELED"} :
        cqe' = [t \in Tags |-> IF t \in bad THEN no
                               ELSE IF t \in back THEN "ENODEV" ELSE cqe[t]]
  BY <1>b, Zenon
<1>1. /\ taken \subseteq ready /\ bad \subseteq taken
      /\ cmd' = [t \in Tags |-> IF t \in back THEN "work"
                                ELSE IF t \in taken THEN "issued" ELSE c[t]]
      /\ cqe' = [t \in Tags |-> IF t \in bad THEN no
                                ELSE IF t \in back THEN "ENODEV" ELSE cqe[t]]
      /\ owes' = owes \ ended
      /\ flag' = [flag EXCEPT
           !.failed = @ \/ FALSE \/ taken # ready,
           !.initial_fetches_issued =
              @ \/ /\ taken = ready /\ flag.publication_gate = "open"
                   /\ \E t \in Tags : r[t].pending]
      /\ efd' = (efd \/ FALSE \/ taken # ready
                 \/ (back # {} /\ \A t \in Tags : cmd[t] # "work"))
      /\ UNCHANGED <<honest, stopped>>
  BY <1>b, <1>c, Zenon
<1>2. PICK b \in BOOLEAN, f \in BOOLEAN :
        /\ f = (flag.failed \/ taken # ready)
        /\ flag' = [flag EXCEPT !.failed = f, !.initial_fetches_issued = b]
  BY <1>1, Zenon DEF TypeOK, QueueFlags
<1>3. flag' \in QueueFlags /\ SameFlags(flag, flag') /\ (flag'.failed => flag.failed \/ efd')
  <2>1. flag' \in QueueFlags /\ flag'.failed = f
    BY <1>2, TypeOK, Zenon DEF TypeOK, QueueFlags
  <2>2. SameFlags(flag, flag')
    BY <1>2, TypeOK, Zenon DEF TypeOK, QueueFlags, SameFlags
  <2> QED
    BY <1>1, <1>2, <2>1, <2>2, Zenon
<1>4. cmd' \in [Tags -> Places] /\ cqe' \in [Tags -> Results] /\ owes' \subseteq Tags
  BY <1>1, TypeOK, Zenon DEF TypeOK, Places, Results
<1>5. efd' \in BOOLEAN /\ (efd => efd')
  BY <1>1, Zenon DEF TypeOK
<1>6. \A t \in Tags : cmd'[t] = "cq" => c[t] = "cq"
  BY <1>1, Zenon
<1>7. efd \/ NoWork => efd' \/ (\A t \in Tags : cmd'[t] # "work")
  BY <1>1, Zenon DEF NoWork
<1>8. ASSUME NEW t \in Tags
      PROVE  LedgerOK(t, r, cmd', cqe', owes', honest)
  <2>0. LedgerOK(t, r, c, cqe, owes, honest)
    BY Zenon
  <2>1. CASE t \notin taken
    <3>1. /\ cmd'[t] = c[t] /\ cqe'[t] = cqe[t] /\ (t \in owes' <=> t \in owes)
      BY <1>1, <2>1, Zenon
    <3> QED
      BY <2>0, <3>1, Zenon DEF LedgerOK
  <2>2. CASE t \in bad
    <3>1. /\ cmd'[t] = "work" /\ cqe'[t] = no /\ (t \in owes' <=> t \in owes)
          /\ c[t] = "prepared"
      BY <1>1, <2>2, Zenon
    <3> QED
      BY <2>0, <3>1, Zenon DEF LedgerOK
  <2>3. CASE t \in taken \ bad /\ r[t].completing /\ stopped
    <3>1. cmd'[t] = "work" /\ cqe'[t] = "ENODEV" /\ t \notin owes' /\ c[t] = "prepared"
      BY <1>1, <2>3, Zenon
    <3> QED
      BY <2>0, <3>1, Zenon DEF LedgerOK
  <2>4. CASE t \in taken \ bad /\ ~ (r[t].completing /\ stopped)
    <3>1. cmd'[t] = "issued" /\ c[t] = "prepared"
      BY <1>1, <2>4, Zenon
    <3>2. t \notin owes'
      BY <1>1, <2>0, <2>4, <3>1, Zenon DEF LedgerOK
    <3> QED
      BY <2>0, <3>1, <3>2, Zenon DEF LedgerOK
  <2> QED
    BY <2>1, <2>2, <2>3, <2>4, Zenon
<1> QED
  BY <1>1, <1>3, <1>4, <1>5, <1>6, <1>7, <1>8, Zenon

\* Queue::complete_on_owner for a request without a reply: the reply is
\* prepared, and no other tag is touched.
LEMMA Completing ==
    ASSUME TypeOK, LedgerInv, NEW t \in Tags, NEW ok \in BOOLEAN, Unanswered(t, raw),
           ok => t \in honest, complete_on_owner(t, ok, FALSE)
    PROVE  /\ raw' \in [Tags -> RawSlot] /\ cmd' \in [Tags -> Places]
           /\ cqe' \in [Tags -> Results] /\ owes' \subseteq Tags /\ honest' = honest
           /\ stopped' = stopped /\ debt_known' = debt_known
           /\ completion_pending' \in BOOLEAN
           /\ LedgerInv' /\ raw'[t].pending
           /\ \A u \in Tags \ {t} : raw'[u] = raw[u]
           /\ NoPosted => NoPosted'
           /\ flag' \in QueueFlags /\ SameFlags(flag, flag')
           /\ flag'.failed => flag.failed \/ efd'
           /\ efd' \in BOOLEAN /\ (efd => efd') /\ (efd \/ NoWork => efd' \/ NoWork')
           /\ completion_pending' => (completion_pending \/ efd') /\ ~ batching_closed
<1>1. /\ raw \in [Tags -> RawSlot] /\ cmd \in [Tags -> Places] /\ cqe \in [Tags -> Results]
      /\ owes \subseteq Tags /\ flag \in QueueFlags /\ efd \in BOOLEAN
      /\ raw[t] \in RawSlot
  BY Zenon DEF TypeOK
<1>2. PICK s : s = Prepared([raw[t] EXCEPT !.ok = ok], TRUE)
  BY Zenon
<1>3. s \in RawSlot /\ s.pending /\ s.completing /\ ~ s.delivered /\ ~ s.reply_ready /\ s.ok = ok
  BY <1>1, <1>2, Zenon DEF Prepared, RawSlot
<1>4. PICK r : r = [raw EXCEPT ![t] = s]
  BY Zenon
<1>5. r \in [Tags -> RawSlot] /\ r[t] = s /\ \A u \in Tags \ {t} : r[u] = raw[u]
  BY <1>1, <1>3, <1>4, Zenon
<1>6. PICK c : c = [cmd EXCEPT ![t] = "prepared"]
  BY Zenon
<1>7. c \in [Tags -> Places] /\ c[t] = "prepared" /\ \A u \in Tags \ {t} : c[u] = cmd[u]
  BY <1>1, <1>6, Zenon DEF Places
<1>8. \A u \in Tags : LedgerOK(u, r, c, cqe, owes, honest)
  <2> SUFFICES ASSUME NEW u \in Tags
               PROVE  LedgerOK(u, r, c, cqe, owes, honest)
    BY Zenon
  <2>1. LedgerOK(u, raw, cmd, cqe, owes, honest)
    BY Zenon DEF LedgerInv
  <2>2. CASE u = t
    BY <1>3, <1>5, <1>7, <2>1, <2>2, Zenon DEF LedgerOK, Unanswered
  <2>3. CASE u # t
    <3>1. r[u] = raw[u] /\ c[u] = cmd[u]
      BY <1>5, <1>7, <2>3, Zenon
    <3> QED
      BY <2>1, <3>1, Zenon DEF LedgerOK
  <2> QED
    BY <2>2, <2>3, Zenon
<1>9. raw' = r /\ UNCHANGED debt_known
      /\ IF Delivered(r) = {} \/ batching_closed \/ flag.failed
         THEN completion_pending' = FALSE /\ submit_owner(r, c, FALSE)
         ELSE /\ completion_pending' = TRUE
              /\ cmd' = c /\ efd' = (efd \/ FALSE \/ ~ completion_pending)
              /\ flag' = IF FALSE THEN [flag EXCEPT !.failed = TRUE] ELSE flag
              /\ UNCHANGED <<cqe, kernel, remaining, budget>>
  <2>1. r = [raw EXCEPT ![t] = Prepared([raw[t] EXCEPT !.ok = ok], TRUE)]
    BY <1>2, <1>4, Zenon
  <2> QED
    BY <1>1, <1>6, <2>1, Zenon DEF complete_on_owner, Unanswered
<1>10. raw'[t].pending /\ \A u \in Tags \ {t} : raw'[u] = raw[u]
  BY <1>3, <1>5, <1>9, Zenon
<1>11. CASE completion_pending' = FALSE /\ submit_owner(r, c, FALSE)
  <2>1. \A u \in Tags : c[u] = "work" => cmd[u] = "work"
    BY <1>7, Zenon
  <2>2. /\ cmd' \in [Tags -> Places] /\ cqe' \in [Tags -> Results]
        /\ owes' \subseteq Tags /\ honest' = honest /\ stopped' = stopped
        /\ \A u \in Tags : LedgerOK(u, r, cmd', cqe', owes', honest)
        /\ \A u \in Tags : cmd'[u] = "cq" => c[u] = "cq"
        /\ flag' \in QueueFlags /\ SameFlags(flag, flag')
        /\ flag'.failed => flag.failed \/ efd'
        /\ efd' \in BOOLEAN /\ (efd => efd')
        /\ efd \/ NoWork => efd' \/ (\A u \in Tags : cmd'[u] # "work")
    BY <1>5, <1>7, <1>8, <1>11, <2>1, Submitting, Zenon
  <2>3. LedgerInv'
    BY <1>9, <2>2, Zenon DEF LedgerInv
  <2>4. NoPosted => NoPosted'
    BY <1>7, <2>2, Zenon DEF NoPosted
  <2>5. efd \/ NoWork => efd' \/ NoWork'
    BY <2>2, Zenon DEF NoWork
  <2> QED
    BY <1>5, <1>9, <1>10, <1>11, <2>2, <2>3, <2>4, <2>5, Zenon
<1>12. CASE /\ ~ batching_closed /\ completion_pending' = TRUE
            /\ cmd' = c /\ efd' = (efd \/ FALSE \/ ~ completion_pending)
            /\ flag' = IF FALSE THEN [flag EXCEPT !.failed = TRUE] ELSE flag
            /\ UNCHANGED <<cqe, kernel, remaining, budget>>
  <2>1. UNCHANGED <<cqe, owes, honest, stopped, flag>>
    BY <1>12, Zenon DEF kernel
  <2>2. LedgerInv'
    BY <1>8, <1>9, <1>12, <2>1, Zenon DEF LedgerInv
  <2>3. (NoPosted => NoPosted') /\ (efd \/ NoWork => efd' \/ NoWork')
    BY <1>7, <1>12, Zenon DEF NoPosted, NoWork
  <2>4. efd' \in BOOLEAN /\ (efd => efd') /\ (completion_pending \/ efd')
    BY <1>12, Zenon DEF TypeOK
  <2>5. SameFlags(flag, flag')
    BY <2>1, Zenon DEF SameFlags
  <2> QED
    BY <1>1, <1>5, <1>7, <1>9, <1>10, <1>12, <2>1, <2>2, <2>3, <2>4, <2>5, Zenon
<1> QED
  BY <1>9, <1>11, <1>12, Zenon

-----------------------------------------------------------------------------
(* What a step leaves alone. *)

LEMMA SameRequests ==
    ASSUME IInv, UNCHANGED <<raw, cmd, cqe, owes, honest, owner_pending>>
    PROVE  LedgerInv' /\ PendingInv'
<1>1. LedgerInv'
  BY Zenon DEF IInv, LedgerInv, LedgerOK
<1>2. PendingInv'
  BY Zenon DEF IInv, PendingInv, Waiting, Unanswered
<1> QED
  BY <1>1, <1>2, Zenon

LEMMA SameTag ==
    ASSUME IInv, NEW t \in Tags, raw'[t] = raw[t], tag'[t] = tag[t],
           handler'[t] = handler[t], mailbox'[t] = mailbox[t],
           handler[t].pc = "return" /\ t \in honest => t \in honest',
           owner'.phase = "serve" => owner.phase = "serve",
           Waiting(t)' => Waiting(t)
    PROVE  EngineOK(t)'
<1>1. EngineOK(t)
  BY Zenon DEF IInv, EngineInv
<1>2. Unanswered(t, raw)' = Unanswered(t, raw) /\ Dead(t)' = Dead(t)
  BY Zenon DEF Unanswered, Dead
<1> QED
  BY <1>1, <1>2, Zenon DEF EngineOK

\* The requests, commands and frames stay as they are; the pump may enter its
\* retirement.
LEMMA SameData ==
    ASSUME IInv, UNCHANGED <<raw, cmd, cqe, owes, honest, owner_pending, tag, handler,
                             mailbox>>,
           owner'.phase = "serve" => owner.phase = "serve"
    PROVE  LedgerInv' /\ PendingInv' /\ EngineInv'
<1>1. LedgerInv' /\ PendingInv'
  BY SameRequests, Zenon
<1>2. ASSUME NEW t \in Tags
      PROVE  EngineOK(t)'
  <2>1. Waiting(t)' => Waiting(t)
    BY Zenon DEF Waiting
  <2> QED
    BY <2>1, SameTag, Zenon
<1> QED
  BY <1>1, <1>2, Zenon DEF EngineInv

\* The pump stays where it is, and the device neither starts nor closes it.
LEMMA SameControl ==
    ASSUME IInv, UNCHANGED <<owner, owner_pending>>, SameFlags(flag, flag'),
           device'.pc = "spawn" <=> device.pc = "spawn",
           device'.pc = "closed" => device.pc = "closed"
    PROVE  AdmitInv' /\ PhaseInv' /\ ExitInv'
BY Zenon DEF IInv, AdmitInv, PhaseInv, ExitInv, SameFlags

LEMMA SameJoin ==
    ASSUME IInv, UNCHANGED <<owner, batching_closed, completion_pending, tag, handler,
                             leaving, owner_pending, raw>>
    PROVE  JoinInv' /\ FreshInv'
<1>1. /\ Joined' = Joined /\ NoneLeaving' = NoneLeaving /\ Untouched' = Untouched
      /\ NoDebt' = NoDebt /\ \A t \in Tags : Dead(t)' = Dead(t)
  BY Zenon DEF Joined, NoneLeaving, Untouched, NoDebt, Dead
<1>2. JoinInv'
  BY <1>1, Zenon DEF IInv, JoinInv
<1>3. FreshInv'
  BY <1>1, Zenon DEF IInv, FreshInv
<1> QED
  BY <1>2, <1>3, Zenon

\* Whoever signals the eventfd loses no wakeup.
LEMMA Signalled ==
    ASSUME IInv, UNCHANGED <<owner, cmd, completion_pending>>,
           efd' \/ owner.pc \in {"unstarted", "begin", "init", "exited", "never ran"}
    PROVE  WakeInv'
<1>1. WakeInv /\ TurnOver' = TurnOver /\ NoWork' = NoWork /\ NoPosted' = NoPosted
  BY Zenon DEF IInv, TurnOver, NoWork, NoPosted
<1> QED
  BY <1>1, Zenon DEF WakeInv, TurnOver

\* A step of another actor: it may add work, replies and failures only with a
\* signal.
LEMMA SameWakes ==
    ASSUME IInv, UNCHANGED owner, SameFlags(flag, flag'),
           device.pc = "release" => device'.pc = "release" \/ efd',
           flag'.failed => flag.failed \/ efd',
           efd => efd',
           efd \/ NoWork => efd' \/ NoWork',
           NoPosted => NoPosted',
           owner.pc \in {"enter", "drain", "hint"} =>
               completion_pending' = completion_pending,
           completion_pending' => completion_pending \/ efd',
           owner.pc = "park" /\ owner.phase = "retire" => UNCHANGED <<raw, debt_known>>
    PROVE  WakeInv'
<1>1. WakeInv /\ TypeOK
  BY Zenon DEF IInv
<1>2. TurnOver' = TurnOver
  BY Zenon DEF TurnOver
<1>3. owner.pc = "park" /\ owner.phase = "retire" =>
        kernel_retired(raw, debt_known)' = kernel_retired(raw, debt_known)
  BY DEF kernel_retired
<1>4. /\ owner.pc \in {"drain", "hint"} \/ TurnOver => efd' \/ NoWork'
      /\ owner.pc = "hint" => NoPosted'
  BY <1>1, Zenon DEF WakeInv
<1>10. /\ owner.pc \in {"enter", "drain", "hint"} => ~ completion_pending'
       /\ TurnOver /\ completion_pending' => efd'
  <2>1. /\ owner.pc \in {"enter", "drain", "hint"} => ~ completion_pending
        /\ TurnOver /\ completion_pending => efd
    BY <1>1, Zenon DEF WakeInv
  <2>2. ASSUME owner.pc \in {"enter", "drain", "hint"}
        PROVE  ~ completion_pending'
    BY <2>1, <2>2, Zenon
  <2>3. ASSUME TurnOver, completion_pending'
        PROVE  efd'
    BY <2>1, <2>3, Zenon
  <2> QED
    BY <2>2, <2>3, Zenon
<1>5. TurnOver /\ ~ owner.more => efd' \/ (NoWork' /\ NoPosted')
  BY <1>1, <1>4, Zenon DEF WakeInv
<1>6. owner.pc = "park" /\ owner.phase = "serve" =>
        efd' \/ (~ flag'.failed /\ (flag'.stop => device'.pc = "release"))
  BY <1>1, Zenon DEF WakeInv, SameFlags
<1>7. owner.pc = "park" /\ owner.phase = "retire" =>
        efd' \/ ~ (flag'.exit_requested /\ kernel_retired(raw, debt_known)')
  BY <1>1, <1>3, Zenon DEF WakeInv, SameFlags
<1>8. owner.pc = "gate read" =>
        efd' \/ (flag'.publication_gate = "closed" /\ ~ flag'.failed)
  BY <1>1, Zenon DEF WakeInv, SameFlags
<1>9. owner.pc = "park" => ~ owner.more
  BY <1>1, Zenon DEF WakeInv
<1> QED
  BY <1>2, <1>4, <1>5, <1>6, <1>7, <1>8, <1>9, <1>10, Zenon DEF WakeInv

\* A handler frame is there, or has not finished: the pump serves, after the
\* publication and before the join.
LEMMA FramesServe ==
    ASSUME IInv, ~ (NoneLeaving /\ \A t \in Tags : Dead(t))
    PROVE  /\ owner.published /\ owner.phase = "serve" /\ ~ Joined
           /\ owner.pc \notin {"unstarted", "begin", "init", "gate", "gate read", "prepare",
                              "submit", "never ran", "exited"}
<1>1. ~ Joined
  BY Zenon DEF IInv, JoinInv
<1>2. ~ Untouched
  BY Zenon DEF Untouched, Dead
<1>3. owner.published
  BY <1>2, Zenon DEF IInv, FreshInv
<1> QED
  BY <1>1, <1>3, Zenon DEF IInv, TypeOK, Pump, Joined, FreshInv

LEMMA FrameControl ==
    ASSUME IInv, ~ (NoneLeaving /\ \A t \in Tags : Dead(t)),
           UNCHANGED <<owner, device, owner_pending, batching_closed>>,
           SameFlags(flag, flag'), batching_closed => ~ completion_pending'
    PROVE  AdmitInv' /\ PhaseInv' /\ JoinInv' /\ FreshInv' /\ ExitInv'
<1>1. /\ owner.published /\ owner.phase = "serve" /\ ~ Joined
      /\ owner.pc \notin {"unstarted", "begin", "init", "gate", "gate read", "prepare",
                         "submit", "never ran", "exited"}
  BY FramesServe, Zenon
<1>2. AdmitInv' /\ PhaseInv' /\ ExitInv'
  BY SameControl, Zenon
<1>3. Joined' = Joined
  BY Zenon DEF Joined
<1>4. JoinInv'
  BY <1>1, <1>3, Zenon DEF IInv, JoinInv
<1>5. FreshInv'
  BY <1>1, Zenon DEF FreshInv
<1> QED
  BY <1>2, <1>4, <1>5, Zenon

\* A step of a frame of tag t that changes nothing but its tag's engine state.
LEMMA FrameStep ==
    ASSUME IInv, NEW t \in Tags, ~ (NoneLeaving /\ \A u \in Tags : Dead(u)),
           UNCHANGED <<raw, cmd, cqe, owes, stopped, local, complete, closed, owner, device>>,
           honest \subseteq honest', honest' \subseteq Tags,
           \A u \in Tags : LedgerOK(u, raw, cmd, cqe, owes, honest) =>
                           LedgerOK(u, raw, cmd, cqe, owes, honest'),
           flag' \in QueueFlags, SameFlags(flag, flag'), flag'.failed => flag.failed \/ efd',
           efd' \in BOOLEAN, efd => efd',
           foreign_pending' \in BOOLEAN, leaving' \in [announce : Nat, notify : Nat],
           tag' \in [Tags -> EngineTag], mailbox' \in [Tags -> MailSlot],
           handler' \in [Tags -> Frame],
           \A u \in Tags \ {t} : /\ tag'[u] = tag[u] /\ mailbox'[u] = mailbox[u]
                                 /\ handler'[u] = handler[u],
           EngineOK(t)'
    PROVE  IInv'
<1>1. UNCHANGED <<owner_pending, debt_known, completion_pending, batching_closed>>
  BY Zenon DEF local
<1>2. TypeOK'
  BY <1>1, Zenon DEF IInv, TypeOK
<1>3. LedgerInv'
  BY Zenon DEF IInv, LedgerInv, LedgerOK
<1>4. PendingInv'
  BY <1>1, Zenon DEF IInv, PendingInv, Waiting, Unanswered
<1>5. EngineInv'
  <2>1. ASSUME NEW u \in Tags \ {t}
        PROVE  EngineOK(u)'
    <3>1. Waiting(u)' => Waiting(u)
      BY <1>1, Zenon DEF Waiting
    <3> QED
      BY <3>1, SameTag, Zenon
  <2> QED
    BY <2>1, Zenon DEF EngineInv
<1>6. AdmitInv' /\ PhaseInv' /\ JoinInv' /\ FreshInv' /\ ExitInv'
  <2>1. batching_closed => ~ completion_pending'
    BY <1>1, Zenon DEF IInv, JoinInv
  <2> QED
    BY <1>1, <2>1, FrameControl, Zenon
<1>7. WakeInv'
  <2>1. NoWork' = NoWork /\ NoPosted' = NoPosted
    BY Zenon DEF NoWork, NoPosted
  <2> QED
    BY <1>1, <2>1, SameWakes, Zenon
<1> QED
  BY <1>2, <1>3, <1>4, <1>5, <1>6, <1>7, Zenon DEF IInv

LEMMA FrameTypes ==
    ASSUME IInv, NEW t \in Tags
    PROVE  /\ EngineOK(t) /\ LedgerOK(t, raw, cmd, cqe, owes, honest)
           /\ handler \in [Tags -> Frame] /\ handler[t] \in Frame
           /\ tag \in [Tags -> EngineTag] /\ tag[t] \in EngineTag
           /\ mailbox \in [Tags -> MailSlot] /\ mailbox[t] \in MailSlot
           /\ raw \in [Tags -> RawSlot] /\ raw[t] \in RawSlot
BY Zenon DEF IInv, EngineInv, LedgerInv, TypeOK

\* The frame of tag t moves on.
LEMMA HandlerGoes ==
    ASSUME IInv, NEW t \in Tags, NEW pc \in Living \cup {"none", "gone"}, HGoto(t, pc)
    PROVE  /\ handler' \in [Tags -> Frame] /\ handler'[t].pc = pc
           /\ handler'[t].gen = handler[t].gen
           /\ \A u \in Tags \ {t} : handler'[u] = handler[u]
<1>1. handler' = [handler EXCEPT ![t].pc = pc] /\ handler \in [Tags -> Frame]
  BY Zenon DEF HGoto, IInv, TypeOK
<1>2. handler'[t] = [handler[t] EXCEPT !.pc = pc]
      /\ \A u \in Tags \ {t} : handler'[u] = handler[u]
  BY <1>1, Zenon
<1>3. handler'[t] \in Frame /\ handler'[t].pc = pc /\ handler'[t].gen = handler[t].gen
  BY <1>1, <1>2 DEF Frame
<1>4. handler' \in [Tags -> Frame]
  BY <1>1, <1>2, <1>3, Zenon
<1> QED
  BY <1>2, <1>3, <1>4, Zenon

LEMMA QuietFlags ==
    ASSUME IInv, UNCHANGED <<flag, efd>>
    PROVE  /\ flag' \in QueueFlags /\ SameFlags(flag, flag')
           /\ flag'.failed => flag.failed \/ efd'
           /\ efd' \in BOOLEAN /\ (efd => efd')
BY Zenon DEF IInv, TypeOK, SameFlags

LEMMA HandlerBeginsStep ==
    ASSUME IInv, NEW t \in Tags, HandlerBegins(t)
    PROVE  IInv'
<1>1. PICK pc \in {"gone", "wait"} : HGoto(t, pc) /\ (pc = "gone" => closed)
  BY Zenon DEF HandlerBegins, LoopHead
<1>2. /\ handler' \in [Tags -> Frame] /\ handler'[t].pc = pc
      /\ \A u \in Tags \ {t} : handler'[u] = handler[u]
  BY <1>1, HandlerGoes, Zenon DEF Living
<1>3. EngineOK(t) /\ handler[t].pc = "begin"
  BY FrameTypes, Zenon DEF HandlerBegins, HAt
<1>4. UNCHANGED <<raw, cmd, cqe, kernel, efd, local, flag, complete, foreign_pending,
                  closed, leaving, owner, device, tag, mailbox>>
  BY Zenon DEF HandlerBegins, HandlerQuiet
<1>5. EngineOK(t)'
  BY <1>1, <1>2, <1>3, <1>4, Zenon DEF EngineOK, Living, Dead, Waiting, Unanswered, kernel, local
<1> QED
  BY <1>2, <1>3, <1>4, <1>5, FrameStep, FrameTypes, QuietFlags, Zenon DEF kernel, IInv, TypeOK, Dead

LEMMA HandlerWakesStep ==
    ASSUME IInv, NEW t \in Tags, HandlerWakes(t)
    PROVE  IInv'
<1>2. /\ handler' \in [Tags -> Frame] /\ handler'[t].pc = "woken"
      /\ \A u \in Tags \ {t} : handler'[u] = handler[u]
  BY HandlerGoes, Zenon DEF Living, HandlerWakes
<1>3. EngineOK(t) /\ handler[t].pc = "wait"
  BY FrameTypes, Zenon DEF HandlerWakes, HAt
<1>4. UNCHANGED <<raw, cmd, cqe, kernel, efd, local, flag, complete, foreign_pending,
                  closed, leaving, owner, device, tag, mailbox>>
  BY Zenon DEF HandlerWakes, HandlerQuiet
<1>5. EngineOK(t)'
  BY <1>2, <1>3, <1>4, Zenon DEF EngineOK, Living, Dead, Waiting, Unanswered, kernel, local
<1> QED
  BY <1>2, <1>3, <1>4, <1>5, FrameStep, FrameTypes, QuietFlags, Zenon DEF kernel, IInv, TypeOK, Dead

LEMMA HandlerTakesStep ==
    ASSUME IInv, NEW t \in Tags, HandlerTakes(t)
    PROVE  IInv'
<1>1. EngineOK(t) /\ handler[t].pc = "woken"
  BY FrameTypes, Zenon DEF HandlerTakes, HAt
<1>2. UNCHANGED <<raw, cmd, cqe, kernel, efd, local, flag, complete, foreign_pending,
                  closed, leaving, owner, device, mailbox>>
  BY Zenon DEF HandlerTakes, HandlerQuiet
<1>3. /\ tag' \in [Tags -> EngineTag]
      /\ tag'[t] = [tag[t] EXCEPT !.ready = FALSE]
      /\ \A u \in Tags \ {t} : tag'[u] = tag[u]
  <2>1. tag' = [tag EXCEPT ![t].ready = FALSE] /\ tag \in [Tags -> EngineTag]
    BY FrameTypes, Zenon DEF HandlerTakes
  <2>2. [tag[t] EXCEPT !.ready = FALSE] \in EngineTag
    BY <2>1, Zenon DEF EngineTag
  <2> QED
    BY <2>1, <2>2, Zenon
<1>4. /\ tag'[t].busy = tag[t].busy /\ tag'[t].started = tag[t].started
      /\ tag'[t].generation = tag[t].generation
      /\ tag'[t].active_generation = tag[t].active_generation
      /\ tag'[t].handler_failed = tag[t].handler_failed
  BY <1>3, FrameTypes, Zenon DEF EngineTag
<1>5. CASE tag[t].busy
  <2>1. handler'[t] = [handler[t] EXCEPT !.pc = "source", !.gen = tag[t].generation]
        /\ (\A u \in Tags \ {t} : handler'[u] = handler[u])
        /\ handler' = [handler EXCEPT ![t] = handler'[t]]
    BY <1>5, FrameTypes, Zenon DEF HandlerTakes
  <2>2. /\ handler'[t] \in Frame /\ handler'[t].pc = "source"
        /\ handler'[t].gen = tag[t].generation
    BY <2>1, FrameTypes, Zenon DEF Frame, EngineTag, Living
  <2>3. handler' \in [Tags -> Frame]
    BY <2>1, <2>2, FrameTypes, Zenon
  <2>4. EngineOK(t)'
    BY <1>1, <1>2, <1>4, <1>5, <2>2, Zenon
    DEF EngineOK, Living, Dead, Waiting, Unanswered, kernel, local
  <2> QED
    BY <1>1, <1>2, <1>3, <2>1, <2>3, <2>4, FrameStep, FrameTypes, QuietFlags, Zenon
    DEF kernel, IInv, TypeOK, Dead
<1>6. CASE ~ tag[t].busy
  <2>1. PICK pc \in {"gone", "wait"} : HGoto(t, pc)
    BY <1>6, Zenon DEF HandlerTakes, LoopHead
  <2>2. /\ handler' \in [Tags -> Frame] /\ handler'[t].pc = pc
        /\ \A u \in Tags \ {t} : handler'[u] = handler[u]
    BY <2>1, HandlerGoes, Zenon DEF Living
  <2>3. EngineOK(t)'
    BY <1>1, <1>2, <1>4, <1>6, <2>2, Zenon
    DEF EngineOK, Living, Dead, Waiting, Unanswered, kernel, local
  <2> QED
    BY <1>1, <1>2, <1>3, <2>2, <2>3, FrameStep, FrameTypes, QuietFlags, Zenon
    DEF kernel, IInv, TypeOK, Dead
<1> QED
  BY <1>5, <1>6, Zenon

LEMMA SourceReturnsStep ==
    ASSUME IInv, NEW t \in Tags, SourceReturns(t)
    PROVE  IInv'
<1>1. EngineOK(t) /\ handler[t].pc = "source" /\ honest \subseteq Tags
  BY FrameTypes, Zenon DEF SourceReturns, HAt, IInv, TypeOK
<1>2. UNCHANGED <<raw, cmd, cqe, owes, stopped, efd, local, flag, complete, foreign_pending,
                  closed, leaving, owner, device, tag, mailbox>>
  BY Zenon DEF SourceReturns
<1>3. PICK pc \in {"return", "return error"} :
        /\ HGoto(t, pc) /\ honest \subseteq honest' /\ honest' \subseteq Tags
        /\ pc = "return" => t \in honest'
  BY <1>1, Zenon DEF SourceReturns
<1>4. /\ handler' \in [Tags -> Frame] /\ handler'[t].pc = pc
      /\ handler'[t].gen = handler[t].gen
      /\ \A u \in Tags \ {t} : handler'[u] = handler[u]
  BY <1>3, HandlerGoes, Zenon DEF Living
<1>5. EngineOK(t)'
  BY <1>1, <1>2, <1>3, <1>4, Zenon DEF EngineOK, Living, Dead, Waiting, Unanswered, local
<1>6. \A u \in Tags : LedgerOK(u, raw, cmd, cqe, owes, honest) =>
                      LedgerOK(u, raw, cmd, cqe, owes, honest')
  BY <1>3, Zenon DEF LedgerOK
<1> QED
  BY <1>1, <1>2, <1>3, <1>4, <1>5, <1>6, FrameStep, FrameTypes, QuietFlags, Zenon
  DEF IInv, TypeOK, Dead

LEMMA HandlerThrowsStep ==
    ASSUME IInv, NEW t \in Tags, HandlerThrows(t)
    PROVE  IInv'
<1>2. /\ handler' \in [Tags -> Frame] /\ handler'[t].pc = "failing"
      /\ \A u \in Tags \ {t} : handler'[u] = handler[u]
  BY HandlerGoes, Zenon DEF Living, HandlerThrows
<1>3. EngineOK(t) /\ handler[t].pc \in {"woken", "return", "return error"}
  BY FrameTypes, Zenon DEF HandlerThrows
<1>4. UNCHANGED <<raw, cmd, cqe, kernel, efd, local, flag, complete, foreign_pending,
                  closed, leaving, owner, device, tag, mailbox>>
  BY Zenon DEF HandlerThrows, HandlerQuiet
<1>5. EngineOK(t)'
  BY <1>2, <1>3, <1>4, Zenon DEF EngineOK, Living, Dead, Waiting, Unanswered, kernel, local
<1> QED
  BY <1>2, <1>3, <1>4, <1>5, FrameStep, FrameTypes, QuietFlags, Zenon DEF kernel, IInv, TypeOK, Dead

LEMMA GuardClaimsStep ==
    ASSUME IInv, NEW t \in Tags, GuardClaims(t)
    PROVE  IInv'
<1>1. EngineOK(t) /\ handler[t].pc = "failing" /\ ~ Dead(t)
  BY FrameTypes, Zenon DEF GuardClaims, HAt, Dead
<1>2. UNCHANGED <<raw, cmd, cqe, owes, honest, stopped, local, complete, foreign_pending,
                  closed, leaving, owner, device, tag>>
  BY Zenon DEF GuardClaims, kernel
<1>3. CASE tag[t].active_generation = 0
  <2>1. HGoto(t, "flag") /\ UNCHANGED <<mailbox, flag, efd>>
    BY <1>3, Zenon DEF GuardClaims
  <2>2. /\ handler' \in [Tags -> Frame] /\ handler'[t].pc = "flag"
        /\ \A u \in Tags \ {t} : handler'[u] = handler[u]
    BY <2>1, HandlerGoes, Zenon DEF Living
  <2>3. EngineOK(t)'
    BY <1>1, <1>2, <2>1, <2>2, Zenon DEF EngineOK, Living, Dead, Waiting, Unanswered, local
  <2> QED
    BY <1>1, <1>2, <2>1, <2>2, <2>3, FrameStep, FrameTypes, QuietFlags, Zenon DEF IInv, TypeOK
<1>4. CASE tag[t].active_generation # 0
  <2>1. /\ tag[t].busy /\ mailbox[t].gen = tag[t].active_generation
        /\ mailbox[t].st = "armed"
    BY <1>1, <1>4, Zenon DEF EngineOK, Living
  <2>2. mailbox[t] = [gen |-> tag[t].active_generation, st |-> "armed"]
    BY <2>1, FrameTypes, Zenon DEF MailSlot
  <2>3. /\ mailbox' = [mailbox EXCEPT ![t].st = "writing"]
        /\ HGoto(t, "writing") /\ UNCHANGED <<flag, efd>>
    BY <1>4, <2>2, Zenon DEF GuardClaims
  <2>4. /\ mailbox' \in [Tags -> MailSlot] /\ mailbox'[t].st = "writing"
        /\ mailbox'[t].gen = mailbox[t].gen
        /\ \A u \in Tags \ {t} : mailbox'[u] = mailbox[u]
    BY <2>3, FrameTypes, Zenon DEF MailSlot
  <2>5. /\ handler' \in [Tags -> Frame] /\ handler'[t].pc = "writing"
        /\ \A u \in Tags \ {t} : handler'[u] = handler[u]
    BY <2>3, HandlerGoes, Zenon DEF Living
  <2>6. EngineOK(t)'
    BY <1>1, <1>2, <2>1, <2>4, <2>5, Zenon DEF EngineOK, Living, Dead, Waiting, Unanswered, local
  <2> QED
    BY <1>1, <1>2, <2>3, <2>4, <2>5, <2>6, FrameStep, FrameTypes, QuietFlags, Zenon
    DEF IInv, TypeOK
<1> QED
  BY <1>3, <1>4, Zenon

LEMMA GuardStoresStep ==
    ASSUME IInv, NEW t \in Tags, GuardStores(t)
    PROVE  IInv'
<1>1. EngineOK(t) /\ handler[t].pc = "writing" /\ ~ Dead(t)
  BY FrameTypes, Zenon DEF GuardStores, HAt, Dead
<1>2. /\ mailbox' \in [Tags -> MailSlot] /\ mailbox'[t].st = "ready"
      /\ mailbox'[t].gen = mailbox[t].gen
      /\ \A u \in Tags \ {t} : mailbox'[u] = mailbox[u]
  BY FrameTypes, Zenon DEF MailSlot, GuardStores
<1>3. /\ handler' \in [Tags -> Frame] /\ handler'[t].pc = "flag"
      /\ \A u \in Tags \ {t} : handler'[u] = handler[u]
  BY HandlerGoes, Zenon DEF Living, GuardStores
<1>4. UNCHANGED <<raw, cmd, cqe, kernel, efd, local, flag, complete, foreign_pending,
                  closed, leaving, owner, device, tag>>
  BY Zenon DEF GuardStores, HandlerQuiet
<1>5. EngineOK(t)'
  BY <1>1, <1>2, <1>3, <1>4, Zenon DEF EngineOK, Living, Dead, Waiting, Unanswered, kernel, local
<1> QED
  BY <1>1, <1>2, <1>3, <1>4, <1>5, FrameStep, FrameTypes, QuietFlags, Zenon DEF kernel, IInv, TypeOK

LEMMA GuardFlagsStep ==
    ASSUME IInv, NEW t \in Tags, GuardFlags(t)
    PROVE  IInv'
<1>1. EngineOK(t) /\ handler[t].pc = "flag" /\ ~ Dead(t)
  BY FrameTypes, Zenon DEF GuardFlags, HAt, Dead
<1>2. /\ tag' \in [Tags -> EngineTag]
      /\ tag'[t] = [tag[t] EXCEPT !.handler_failed = TRUE]
      /\ \A u \in Tags \ {t} : tag'[u] = tag[u]
  <2>1. tag' = [tag EXCEPT ![t].handler_failed = TRUE] /\ tag \in [Tags -> EngineTag]
    BY FrameTypes, Zenon DEF GuardFlags
  <2>2. [tag[t] EXCEPT !.handler_failed = TRUE] \in EngineTag
    BY <2>1, Zenon DEF EngineTag
  <2> QED
    BY <2>1, <2>2, Zenon
<1>3. /\ tag'[t].busy = tag[t].busy /\ tag'[t].generation = tag[t].generation
      /\ tag'[t].active_generation = tag[t].active_generation
      /\ tag'[t].started = tag[t].started
  BY <1>2, FrameTypes, Zenon DEF EngineTag
<1>4. /\ handler' \in [Tags -> Frame] /\ handler'[t].pc = "gone"
      /\ \A u \in Tags \ {t} : handler'[u] = handler[u]
  <2>1. [pc |-> "gone", gen |-> 0, threw |-> TRUE] \in Frame
    BY Zenon DEF Frame
  <2> QED
    BY <2>1, FrameTypes, Zenon DEF GuardFlags
<1>5. UNCHANGED <<raw, cmd, cqe, kernel, efd, local, flag, complete, mailbox,
                  foreign_pending, closed, owner, device>>
  BY Zenon DEF GuardFlags
<1>6. leaving' \in [announce : Nat, notify : Nat]
  BY DEF GuardFlags, IInv, TypeOK
<1>7. EngineOK(t)'
  BY <1>1, <1>3, <1>4, <1>5, Zenon DEF EngineOK, Living, Dead, Waiting, Unanswered, kernel, local
<1> QED
  BY <1>1, <1>2, <1>4, <1>5, <1>6, <1>7, FrameStep, FrameTypes, QuietFlags, Zenon
  DEF kernel, IInv, TypeOK

LEMMA GuardStepStep ==
    ASSUME IInv, GuardStep
    PROVE  IInv'
<1>1. leaving \in [announce : Nat, notify : Nat] /\ ~ NoneLeaving
      /\ flag \in QueueFlags /\ efd \in BOOLEAN
  BY DEF IInv, TypeOK, GuardStep, GuardAnnounces, GuardNotifies, NoneLeaving
<1>2. /\ UNCHANGED <<raw, cmd, cqe, kernel, local, flag, complete, tag, mailbox, closed,
                     handler, owner, device>>
      /\ leaving' \in [announce : Nat, notify : Nat]
      /\ foreign_pending' \in BOOLEAN
      /\ efd' \in BOOLEAN /\ (efd => efd')
  <2>1. CASE GuardAnnounces
    BY <1>1, <2>1 DEF GuardAnnounces
  <2>2. CASE GuardNotifies
    BY <1>1, <2>2 DEF GuardNotifies, wakeup, IInv, TypeOK, QueueFlags
  <2> QED
    BY <2>1, <2>2, Zenon DEF GuardStep
<1>3. PICK t \in Tags : TRUE
  BY QueueAssumption, Zenon
<1>4. EngineOK(t)'
  <2>1. Waiting(t)' => Waiting(t)
    BY <1>2, Zenon DEF Waiting, local
  <2> QED
    BY <1>2, <2>1, SameTag, Zenon DEF kernel
<1>5. SameFlags(flag, flag')
  BY <1>2, Zenon DEF SameFlags
<1> QED
  BY <1>1, <1>2, <1>4, <1>5, FrameStep, Zenon DEF kernel, IInv, TypeOK

LEMMA HandlerPublishesStep ==
    ASSUME IInv, NEW t \in Tags, HandlerPublishes(t)
    PROVE  IInv'
<1>1. EngineOK(t) /\ handler[t].pc \in {"return", "return error"} /\ ~ Dead(t)
  BY FrameTypes, Zenon DEF HandlerPublishes, Dead
<1>2. /\ owner.published /\ owner.phase = "serve" /\ ~ Joined
      /\ owner.pc \notin {"unstarted", "begin", "init", "gate", "gate read", "prepare",
                         "submit", "never ran", "exited"}
  BY <1>1, FramesServe, Zenon
<1>3. /\ tag[t].busy /\ Unanswered(t, raw) /\ ~ Waiting(t)
      /\ mailbox[t].gen = handler[t].gen /\ mailbox[t].st = "armed"
      /\ handler[t].pc = "return" => t \in honest
  BY <1>1, <1>2, Zenon DEF EngineOK, Living
<1>4. UNCHANGED <<owner_pending, batching_closed, complete, foreign_pending, closed,
                  leaving, owner, device>>
      /\ owner.pc \notin {"enter", "drain", "hint"}
  BY Zenon DEF HandlerPublishes, Suspended
<1>5. /\ raw' \in [Tags -> RawSlot] /\ cmd' \in [Tags -> Places]
      /\ cqe' \in [Tags -> Results] /\ owes' \subseteq Tags /\ honest' = honest
      /\ stopped' = stopped /\ debt_known' = debt_known
      /\ completion_pending' \in BOOLEAN
      /\ LedgerInv' /\ raw'[t].pending
      /\ \A u \in Tags \ {t} : raw'[u] = raw[u]
      /\ NoPosted => NoPosted'
      /\ flag' \in QueueFlags /\ SameFlags(flag, flag')
      /\ flag'.failed => flag.failed \/ efd'
      /\ efd' \in BOOLEAN /\ (efd => efd') /\ (efd \/ NoWork => efd' \/ NoWork')
      /\ completion_pending' => (completion_pending \/ efd') /\ ~ batching_closed
  <2>0. mailbox[t] = [gen |-> handler[t].gen, st |-> "armed"]
    BY <1>3, FrameTypes, Zenon DEF MailSlot
  <2>1. PICK ok \in BOOLEAN : ok = HAt(t, "return") /\ complete_on_owner(t, ok, FALSE)
    BY <2>0, Zenon DEF HandlerPublishes, HAt
  <2>2. ok => t \in honest
    BY <1>3, <2>1, Zenon DEF HAt
  <2> QED
    BY <1>3, <2>1, <2>2, Completing, Zenon DEF IInv
<1>6. /\ mailbox' \in [Tags -> MailSlot] /\ mailbox'[t] = [gen |-> 0, st |-> "empty"]
      /\ \A u \in Tags \ {t} : mailbox'[u] = mailbox[u]
  <2>1. mailbox[t] = [gen |-> handler[t].gen, st |-> "armed"]
    BY <1>3, FrameTypes, Zenon DEF MailSlot
  <2>2. mailbox' = [mailbox EXCEPT ![t] = [gen |-> 0, st |-> "empty"]]
    BY <2>1, FrameTypes, Zenon DEF HandlerPublishes
  <2>3. [gen |-> 0, st |-> "empty"] \in MailSlot
    BY Zenon DEF MailSlot
  <2> QED
    BY <2>2, <2>3, FrameTypes, Zenon
<1>7. /\ tag' \in [Tags -> EngineTag]
      /\ tag'[t] = [tag[t] EXCEPT !.active_generation = 0, !.busy = FALSE]
      /\ \A u \in Tags \ {t} : tag'[u] = tag[u]
  <2>1. tag' = [tag EXCEPT ![t] = [tag[t] EXCEPT !.active_generation = 0, !.busy = FALSE]]
    BY FrameTypes, Zenon DEF HandlerPublishes
  <2>2. [tag[t] EXCEPT !.active_generation = 0, !.busy = FALSE] \in EngineTag
    BY FrameTypes, Zenon DEF EngineTag
  <2> QED
    BY <2>1, <2>2, FrameTypes, Zenon
<1>8. /\ ~ tag'[t].busy /\ tag'[t].active_generation = 0
      /\ tag'[t].started = tag[t].started /\ tag'[t].handler_failed = tag[t].handler_failed
  BY <1>7, FrameTypes, Zenon DEF EngineTag
<1>9. PICK pc \in {"gone", "wait"} :
        handler' = [handler EXCEPT ![t] = [handler[t] EXCEPT !.pc = pc, !.gen = 0]]
  BY FrameTypes, Zenon DEF HandlerPublishes, LoopHead
<1>10. /\ handler' \in [Tags -> Frame] /\ handler'[t].pc = pc
       /\ \A u \in Tags \ {t} : handler'[u] = handler[u]
  <2>1. [handler[t] EXCEPT !.pc = pc, !.gen = 0] \in Frame
    BY FrameTypes, Zenon DEF Frame, Living
  <2> QED
    BY <1>9, <2>1, FrameTypes, Zenon DEF Frame
<1>11. TypeOK'
  BY <1>4, <1>5, <1>6, <1>7, <1>10, Zenon DEF IInv, TypeOK
<1>12. PendingInv'
  BY <1>3, <1>4, <1>5, Zenon DEF IInv, PendingInv, Waiting, Unanswered
<1>13. EngineInv'
  <2>1. ASSUME NEW u \in Tags \ {t}
        PROVE  EngineOK(u)'
    <3>1. Waiting(u)' => Waiting(u)
      BY <1>4, Zenon DEF Waiting
    <3> QED
      BY <1>4, <1>5, <1>6, <1>7, <1>10, <3>1, SameTag, Zenon
  <2>2. EngineOK(t)'
    <3>1. ~ tag[t].handler_failed /\ tag[t].started
      BY <1>1, Zenon DEF EngineOK, Living
    <3>2. mailbox'[t].st = "empty"
      BY <1>6
    <3> QED
      BY <1>8, <1>10, <3>1, <3>2, Zenon DEF EngineOK, Living, Dead
  <2> QED
    BY <2>1, <2>2, Zenon DEF EngineInv
<1>14. AdmitInv' /\ PhaseInv' /\ JoinInv' /\ FreshInv' /\ ExitInv'
  BY <1>1, <1>4, <1>5, FrameControl, Zenon
<1>15. WakeInv'
  <2>1. ~ (owner.phase = "retire")
    BY <1>2, Zenon
  <2> QED
    BY <1>4, <1>5, <2>1, SameWakes, Zenon
<1> QED
  BY <1>5, <1>11, <1>12, <1>13, <1>14, <1>15, Zenon DEF IInv

-----------------------------------------------------------------------------
(* The driver and the device. *)

\* The driver answers commands it has: by deferred work, which it announces.
LEMMA DriverStep ==
    ASSUME IInv, NEW S \in SUBSET Tags, NEW result \in {"ok", "ENODEV"},
           \A t \in S : cmd[t] = "issued", Defer(S, result),
           owes' = IF result = "ok" THEN owes \cup S ELSE owes,
           honest' = IF result = "ok" THEN honest \ S ELSE honest,
           stopped' \in BOOLEAN, device' \in Device,
           device'.pc \in {"spawn", "closed", "release"} \/
               device.pc \in {"spawn", "closed", "release"} => device'.pc = device.pc,
           UNCHANGED <<raw, local, flag, complete, engine, owner>>
    PROVE  IInv'
<1>1. UNCHANGED <<owner_pending, debt_known, completion_pending, batching_closed, tag,
                  mailbox, foreign_pending, closed, handler, leaving>>
  BY Zenon DEF local, engine
<1>2. cmd' \in [Tags -> Places] /\ cqe' \in [Tags -> Results] /\ efd' \in BOOLEAN
      /\ (efd => efd')
  BY Zenon DEF Defer, IInv, TypeOK, Places, Results
<1>3. \A t \in S : cmd'[t] = "work" /\ cqe'[t] = result
  BY Zenon DEF Defer
<1>4. \A t \in Tags \ S : cmd'[t] = cmd[t] /\ cqe'[t] = cqe[t]
                          /\ (t \in owes' <=> t \in owes) /\ (t \in honest' <=> t \in honest)
  BY Zenon DEF Defer
<1>5. TypeOK'
  BY <1>1, <1>2, Zenon DEF IInv, TypeOK
<1>6. ASSUME NEW t \in Tags
      PROVE  LedgerOK(t, raw, cmd', cqe', owes', honest') /\ EngineOK(t)'
  <2>1. LedgerOK(t, raw, cmd, cqe, owes, honest) /\ EngineOK(t)
    BY FrameTypes, Zenon
  <2>2. Waiting(t)' => Waiting(t)
    BY <1>1, Zenon DEF Waiting
  <2>3. CASE t \in S
    <3>1. LedgerOK(t, raw, cmd', cqe', owes', honest')
      BY <1>3, <2>1, <2>3, Zenon DEF LedgerOK
    <3>2. handler[t].pc # "return"
      <4> SUFFICES ASSUME handler[t].pc = "return"
                   PROVE  FALSE
        BY Zenon
      <4>1. owner.phase = "serve"
        BY FramesServe, Zenon DEF Dead
      <4> QED
        BY <2>1, <2>3, <4>1, Zenon DEF EngineOK, LedgerOK, Unanswered
    <3> QED
      BY <1>1, <2>2, <3>1, <3>2, SameTag, Zenon
  <2>4. CASE t \notin S
    <3>1. LedgerOK(t, raw, cmd', cqe', owes', honest')
      BY <1>4, <2>1, <2>4, Zenon DEF LedgerOK
    <3> QED
      BY <1>1, <1>4, <2>2, <2>4, <3>1, SameTag, Zenon
  <2> QED
    BY <2>3, <2>4, Zenon
<1>7. LedgerInv' /\ EngineInv'
  BY <1>6, Zenon DEF LedgerInv, EngineInv
<1>8. PendingInv'
  BY <1>1, Zenon DEF IInv, PendingInv, Waiting, Unanswered
<1>9. AdmitInv' /\ PhaseInv' /\ ExitInv' /\ JoinInv' /\ FreshInv'
  BY <1>1, SameControl, SameJoin, Zenon DEF SameFlags
<1>10. WakeInv'
  <2>1. efd \/ NoWork => efd' \/ NoWork'
    BY Zenon DEF Defer, NoWork
  <2>2. NoPosted => NoPosted'
    BY <1>3, <1>4, Zenon DEF NoPosted
  <2>3. SameFlags(flag, flag')
    BY Zenon DEF SameFlags
  <2> QED
    BY <1>1, <1>2, <2>1, <2>2, <2>3, SameWakes, Zenon
<1> QED
  BY <1>5, <1>7, <1>8, <1>9, <1>10, Zenon DEF IInv

LEMMA DeliverStep ==
    ASSUME IInv, NEW t \in Tags, Deliver(t)
    PROVE  IInv'
BY DriverStep DEF Deliver, IInv, TypeOK

LEMMA StopSettlesStep ==
    ASSUME IInv, StopSettles
    PROVE  IInv'
<1>1. PICK S \in SUBSET Tags : S = {t \in Tags : cmd[t] = "issued"}
  BY Zenon
<1>2. device' \in Device /\ device'.pc = "stop settled" /\ device.pc = "stop dev"
  BY Zenon DEF StopSettles, IInv, TypeOK, Device
<1> QED
  BY <1>1, <1>2, DriverStep, Zenon DEF StopSettles, IInv, TypeOK

\* A step of the device with its atomics: the requests, the engine and the pump
\* stay, and it signals an owner that has its eventfd.
LEMMA DeviceSteps ==
    ASSUME IInv, UNCHANGED <<raw, cmd, cqe, kernel, local, engine, owner>>,
           complete' \in BOOLEAN, device' \in Device, flag' \in QueueFlags, efd' \in BOOLEAN,
           flag'.owner_wakeup_on_elio = flag.owner_wakeup_on_elio,
           ExitInv',
           flag.owner_wakeup_on_elio => efd'
    PROVE  IInv'
<1>1. UNCHANGED <<owner_pending, debt_known, completion_pending, batching_closed, tag,
                  mailbox, foreign_pending, closed, handler, leaving, owes, honest, stopped>>
  BY Zenon DEF local, engine, kernel
<1>2. TypeOK'
  BY <1>1, Zenon DEF IInv, TypeOK
<1>3. LedgerInv' /\ PendingInv' /\ EngineInv'
  BY <1>1, SameData, Zenon
<1>4. AdmitInv' /\ PhaseInv'
  BY <1>1, Zenon DEF IInv, AdmitInv, PhaseInv
<1>5. JoinInv' /\ FreshInv'
  BY <1>1, SameJoin, Zenon
<1>6. WakeInv'
  BY <1>1, Signalled, Zenon DEF IInv, PhaseInv
<1> QED
  BY <1>2, <1>3, <1>4, <1>5, <1>6, Zenon DEF IInv

LEMMA SealOwnerStep ==
    ASSUME IInv, SealOwner
    PROVE  IInv'
<1>1. /\ device \in Device /\ flag \in QueueFlags /\ efd \in BOOLEAN /\ debt_known \in BOOLEAN
      /\ ExitInv /\ complete \in BOOLEAN
  BY Zenon DEF IInv, TypeOK
<1>2. device.pc = "seal" /\ device' \in Device /\ device'.pc = "setup"
  BY <1>1, Zenon DEF SealOwner, DGoto, Device
<1>3. UNCHANGED <<raw, cmd, cqe, kernel, local, engine, owner>>
  BY Zenon DEF SealOwner
<1>4. CASE flag.owner_admission = "unclaimed"
  <2>1. PICK f : f = [flag EXCEPT !.owner_admission = "sealed", !.failed = TRUE,
                        !.publication_gate = "aborted", !.sources_drained = TRUE,
                        !.owner_exited = TRUE]
    BY Zenon
  <2>2. f \in QueueFlags /\ f.owner_admission = "sealed"
        /\ f.owner_wakeup_on_elio = flag.owner_wakeup_on_elio
    BY <1>1, <2>1, Zenon DEF QueueFlags
  <2>3. flag' = f /\ complete' = kernel_retired(raw, debt_known) /\ wakeup
    BY <1>4, <2>1, Zenon DEF SealOwner
  <2>4. complete' \in BOOLEAN /\ efd' \in BOOLEAN
    BY <1>1, <2>3, Zenon DEF kernel_retired, wakeup, QueueFlags
  <2>5. owner.pc = "begin"
    BY <1>1, <1>2, <1>4, Zenon DEF ExitInv
  <2>6. ExitInv'
    BY <1>2, <1>3, <2>2, <2>3, <2>5, Zenon DEF ExitInv
  <2>7. flag.owner_wakeup_on_elio => efd'
    BY <2>3, Zenon DEF wakeup
  <2> QED
    BY <1>2, <1>3, <2>2, <2>3, <2>4, <2>6, <2>7, DeviceSteps, Zenon
<1>5. CASE flag.owner_admission # "unclaimed"
  <2>1. UNCHANGED <<flag, complete, efd>>
    BY <1>5, Zenon DEF SealOwner
  <2>2. UNCHANGED <<owner_pending, debt_known, completion_pending, batching_closed, tag,
                  mailbox, foreign_pending, closed, handler, leaving, owes, honest, stopped>>
    BY <1>3, Zenon DEF local, engine, kernel
  <2>3. TypeOK'
    BY <1>2, <1>3, <2>1, <2>2, Zenon DEF IInv, TypeOK
  <2>4. LedgerInv' /\ PendingInv' /\ EngineInv' /\ JoinInv' /\ FreshInv'
    BY <1>3, <2>2, SameData, SameJoin, Zenon
  <2>5. AdmitInv' /\ PhaseInv' /\ ExitInv'
    BY <1>2, <1>3, <2>1, <2>2, SameControl, Zenon DEF SameFlags
  <2>6. WakeInv'
    <3>1. NoWork' = NoWork /\ NoPosted' = NoPosted /\ SameFlags(flag, flag')
      BY <1>3, <2>1, Zenon DEF NoWork, NoPosted, SameFlags
    <3> QED
      BY <1>2, <1>3, <2>1, <2>2, <3>1, SameWakes, Zenon
  <2> QED
    BY <2>3, <2>4, <2>5, <2>6, Zenon DEF IInv
<1> QED
  BY <1>4, <1>5, Zenon

LEMMA SpawnOwnerStep ==
    ASSUME IInv, SpawnOwner
    PROVE  IInv'
<1>1. TypeOK /\ ExitInv /\ FreshInv /\ device \in Device
  BY Zenon DEF IInv, TypeOK
<1>2. /\ device.pc = "spawn" /\ device' \in Device /\ device'.pc \in {"setup", "seal"}
      /\ owner.pc = "unstarted" /\ ~ flag.owner_exited
  BY <1>1, Zenon DEF SpawnOwner, DGoto, Device, ExitInv
<1>3. Moved("begin")
  BY <1>1, Going, Zenon DEF SpawnOwner, PumpPcs
<1>4. UNCHANGED <<raw, cmd, cqe, efd, flag, complete, owner_pending, debt_known,
                  completion_pending, batching_closed, tag, mailbox, foreign_pending, closed,
                  handler, leaving, owes, honest, stopped>>
  BY Zenon DEF SpawnOwner, local, engine, kernel
<1>5. TypeOK'
  BY <1>1, <1>2, <1>3, <1>4, Zenon DEF TypeOK, Moved
<1>6. LedgerInv' /\ PendingInv' /\ EngineInv'
  BY <1>3, <1>4, SameData, Zenon DEF Moved
<1>7. AdmitInv' /\ PhaseInv' /\ ExitInv'
  BY <1>1, <1>2, <1>3, <1>4, Zenon DEF IInv, Moved, AdmitInv, PhaseInv, ExitInv
<1>8. JoinInv' /\ FreshInv'
  <2>1. Untouched' = Untouched /\ NoDebt' = NoDebt /\ owner.phase = "serve"
    BY <1>1, <1>2, <1>4, Zenon DEF Untouched, NoDebt, NoneLeaving, FreshInv
  <2>2. JoinInv'
    BY <1>3, <1>4, <2>1, Zenon DEF IInv, JoinInv, Joined, Moved
  <2> QED
    BY <1>1, <1>2, <1>3, <2>1, <2>2, Zenon DEF FreshInv, Moved
<1>9. WakeInv'
  BY <1>3, Zenon DEF WakeInv, TurnOver, Moved
<1> QED
  BY <1>5, <1>6, <1>7, <1>8, <1>9, Zenon DEF IInv

LEMMA RequestStopStep ==
    ASSUME IInv, RequestStop
    PROVE  IInv'
<1>1. TypeOK /\ ExitInv /\ WakeInv /\ device \in Device /\ flag \in QueueFlags
  BY Zenon DEF IInv, TypeOK
<1>2. /\ device.pc \in {"setup", "run"} /\ device' \in Device /\ device'.pc = "release"
  BY <1>1, Zenon DEF RequestStop, DGoto, Device
<1>3. flag' = [flag EXCEPT !.stop = TRUE]
  BY Zenon DEF RequestStop
<1>4. /\ flag' \in QueueFlags /\ flag'.publication_gate = flag.publication_gate
      /\ flag'.exit_requested = flag.exit_requested
      /\ flag'.owner_exited = flag.owner_exited /\ flag'.failed = flag.failed
      /\ flag'.owner_wakeup_on_elio = flag.owner_wakeup_on_elio
      /\ flag'.owner_admission = flag.owner_admission
  BY <1>1, <1>3, Zenon DEF QueueFlags
<1>5. UNCHANGED <<raw, cmd, cqe, efd, complete, owner_pending, debt_known,
                  completion_pending, batching_closed, tag, mailbox, foreign_pending, closed,
                  handler, leaving, owes, honest, stopped, owner>>
  BY Zenon DEF RequestStop, DeviceQuiet, local, engine, kernel
<1>6. TypeOK'
  BY <1>1, <1>2, <1>4, <1>5, Zenon DEF TypeOK
<1>7. LedgerInv' /\ PendingInv' /\ EngineInv' /\ JoinInv' /\ FreshInv'
  BY <1>5, SameData, SameJoin, Zenon
<1>8. AdmitInv' /\ PhaseInv' /\ ExitInv'
  BY <1>2, <1>4, <1>5, Zenon DEF IInv, AdmitInv, PhaseInv, ExitInv
<1>9. WakeInv'
  <2>1. /\ TurnOver' = TurnOver /\ NoWork' = NoWork /\ NoPosted' = NoPosted
        /\ kernel_retired(raw, debt_known)' = kernel_retired(raw, debt_known)
    BY <1>5, Zenon DEF TurnOver, NoWork, NoPosted, kernel_retired
  <2> QED
    BY <1>1, <1>2, <1>4, <1>5, <2>1, Zenon DEF WakeInv
<1> QED
  BY <1>6, <1>7, <1>8, <1>9, Zenon DEF IInv

\* The device moves on and nothing else happens.
LEMMA DeviceMoves ==
    ASSUME IInv, UNCHANGED <<raw, cmd, cqe, kernel, efd, local, flag, complete, engine, owner>>,
           device' \in Device, device.pc \notin {"spawn", "release"}, device'.pc # "spawn",
           device'.pc = "closed" => flag.owner_exited
    PROVE  IInv'
<1>1. UNCHANGED <<owner_pending, debt_known, completion_pending, batching_closed, tag,
                  mailbox, foreign_pending, closed, handler, leaving, owes, honest, stopped>>
  BY Zenon DEF local, engine, kernel
<1>2. TypeOK'
  BY <1>1, Zenon DEF IInv, TypeOK
<1>3. LedgerInv' /\ PendingInv' /\ EngineInv' /\ JoinInv' /\ FreshInv'
  BY <1>1, SameData, SameJoin, Zenon
<1>4. AdmitInv' /\ PhaseInv' /\ ExitInv'
  BY <1>1, Zenon DEF IInv, AdmitInv, PhaseInv, ExitInv
<1>5. WakeInv'
  <2>1. NoWork' = NoWork /\ NoPosted' = NoPosted /\ SameFlags(flag, flag')
    BY Zenon DEF NoWork, NoPosted, SameFlags
  <2> QED
    BY <1>1, <2>1, SameWakes, Zenon
<1> QED
  BY <1>2, <1>3, <1>4, <1>5, Zenon DEF IInv

LEMMA DeviceStepStep ==
    ASSUME IInv, DeviceStep
    PROVE  IInv'
<1>1. TypeOK /\ ExitInv /\ device \in Device /\ flag \in QueueFlags /\ efd \in BOOLEAN
      /\ complete \in BOOLEAN
  BY Zenon DEF IInv, TypeOK
<1>2. ASSUME UNCHANGED <<raw, cmd, cqe, kernel, local, complete, engine, owner>>,
             NEW g \in {"closed", "open", "aborted"}, NEW r \in BOOLEAN, NEW k \in BOOLEAN,
             NEW x \in BOOLEAN,
             flag' = [flag EXCEPT !.publication_gate = g, !.releasing = r,
                                  !.kernel_stopped = k, !.exit_requested = x],
             device' \in Device, device.pc # "spawn", device'.pc \notin {"spawn", "closed"},
             efd' \in BOOLEAN, flag.owner_wakeup_on_elio => efd'
      PROVE  IInv'
  <2>1. /\ flag' \in QueueFlags
        /\ flag'.owner_wakeup_on_elio = flag.owner_wakeup_on_elio
        /\ flag'.owner_exited = flag.owner_exited
        /\ flag'.owner_admission = flag.owner_admission
    BY <1>1, <1>2, ZenonT(30) DEF QueueFlags
  <2>2. ExitInv'
    BY <1>1, <1>2, <2>1, Zenon DEF ExitInv
  <2> QED
    BY <1>1, <1>2, <2>1, <2>2, DeviceSteps, Zenon
<1>3. CASE PublishInitialFetches
  <2>1. device' \in Device /\ device.pc = "setup" /\ device'.pc = "run"
    BY <1>3, Zenon DEF PublishInitialFetches, Device
  <2>2. efd' \in BOOLEAN /\ (flag.owner_wakeup_on_elio => efd')
    BY <1>1, <1>3, Zenon DEF PublishInitialFetches, wakeup, QueueFlags
  <2>3. flag' = [flag EXCEPT !.publication_gate = "open", !.releasing = flag.releasing,
                   !.kernel_stopped = flag.kernel_stopped,
                   !.exit_requested = flag.exit_requested]
    BY <1>1, <1>3, Zenon DEF PublishInitialFetches, QueueFlags
  <2>4. flag.releasing \in BOOLEAN /\ flag.kernel_stopped \in BOOLEAN
        /\ flag.exit_requested \in BOOLEAN
    BY <1>1, Zenon DEF QueueFlags
  <2> QED
    BY <1>2, <1>3, <2>1, <2>2, <2>3, <2>4, Zenon DEF PublishInitialFetches, DeviceQuiet
<1>4. CASE RequestRelease
  <2>1. device' \in Device /\ device.pc = "release" /\ device'.pc = "drain sources"
    BY <1>1, <1>4, Zenon DEF RequestRelease, DGoto, Device
  <2>2. efd'
    BY <1>4, Zenon DEF RequestRelease
  <2>3. PICK g \in {"closed", "open", "aborted"} :
          flag' = [flag EXCEPT !.releasing = TRUE, !.publication_gate = g]
    BY <1>1, <1>4, Zenon DEF RequestRelease, QueueFlags
  <2>4. flag' = [flag EXCEPT !.publication_gate = g, !.releasing = TRUE,
                   !.kernel_stopped = flag.kernel_stopped,
                   !.exit_requested = flag.exit_requested]
    BY <1>1, <2>3, Zenon DEF QueueFlags
  <2>5. flag.kernel_stopped \in BOOLEAN /\ flag.exit_requested \in BOOLEAN /\ efd' \in BOOLEAN
    BY <1>1, <1>4, Zenon DEF QueueFlags, RequestRelease
  <2> QED
    BY <1>2, <1>4, <2>1, <2>2, <2>4, <2>5, Zenon DEF RequestRelease, DeviceQuiet
<1>5. CASE KernelStopped
  <2>1. device' \in Device /\ device.pc = "stop settled" /\ device'.pc = "request exit"
    BY <1>1, <1>5, Zenon DEF KernelStopped, DGoto, Device
  <2>2. efd' \in BOOLEAN /\ (flag.owner_wakeup_on_elio => efd')
    BY <1>1, <1>5, Zenon DEF KernelStopped, wakeup, QueueFlags
  <2>3. flag' = [flag EXCEPT !.publication_gate = flag.publication_gate,
                   !.releasing = flag.releasing, !.kernel_stopped = TRUE,
                   !.exit_requested = flag.exit_requested]
    BY <1>1, <1>5, Zenon DEF KernelStopped, QueueFlags
  <2>4. flag.releasing \in BOOLEAN /\ flag.exit_requested \in BOOLEAN
        /\ flag.publication_gate \in {"closed", "open", "aborted"}
    BY <1>1, Zenon DEF QueueFlags
  <2> QED
    BY <1>2, <1>5, <2>1, <2>2, <2>3, <2>4, Zenon DEF KernelStopped, DeviceQuiet
<1>6. CASE RequestOwnerExit
  <2>1. device' \in Device /\ device.pc = "request exit" /\ device'.pc = "await exit"
    BY <1>1, <1>6, Zenon DEF RequestOwnerExit, DGoto, Device
  <2>2. efd' \in BOOLEAN /\ (flag.owner_wakeup_on_elio => efd')
    BY <1>1, <1>6, Zenon DEF RequestOwnerExit, wakeup, QueueFlags
  <2>3. flag' = [flag EXCEPT !.publication_gate = "aborted",
                   !.releasing = flag.releasing, !.kernel_stopped = flag.kernel_stopped,
                   !.exit_requested = TRUE]
    BY <1>1, <1>6, Zenon DEF RequestOwnerExit, QueueFlags
  <2>4. flag.releasing \in BOOLEAN /\ flag.kernel_stopped \in BOOLEAN
    BY <1>1, Zenon DEF QueueFlags
  <2> QED
    BY <1>2, <1>6, <2>1, <2>2, <2>3, <2>4, Zenon DEF RequestOwnerExit, DeviceQuiet
<1>7. CASE StopDev
  <2>1. /\ device' \in Device /\ device.pc = "drain sources"
        /\ device'.pc \in {"drain sources", "stop dev"}
    BY <1>1, <1>7, Zenon DEF StopDev, DGoto, Device
  <2> QED
    BY <1>7, <2>1, DeviceMoves, Zenon DEF StopDev
<1>8. CASE CloseRetired
  <2>1. device' \in Device /\ device.pc = "await exit" /\ device'.pc = "closed"
    BY <1>1, <1>8, Zenon DEF CloseRetired, DGoto, Device
  <2> QED
    BY <1>8, <2>1, DeviceMoves, Zenon DEF CloseRetired, DeviceQuiet
<1> QED
  BY <1>3, <1>4, <1>5, <1>6, <1>7, <1>8, SpawnOwnerStep, SealOwnerStep, Zenon DEF DeviceStep

-----------------------------------------------------------------------------
(* The owner: steps that only move the pump. *)

LEMMA PumpStep ==
    ASSUME IInv, UNCHANGED <<raw, cmd, cqe, kernel, local, tag, mailbox, closed, handler,
                             leaving, device>>,
           owner' \in Pump, flag' \in QueueFlags, complete' \in BOOLEAN, efd' \in BOOLEAN,
           foreign_pending' \in BOOLEAN,
           owner.pc # "submit", owner'.pc # "join", owner'.published = owner.published,
           owner'.phase = "serve" => owner.phase = "serve",
           ~ owner.published => owner'.phase = "serve",
           owner'.pc \in {"unstarted", "begin", "init", "gate", "gate read", "prepare",
                          "submit", "never ran"} => ~ owner.published,
           owner'.pc = "exited" => NoDebt,
           Joined' => /\ NoneLeaving /\ \A t \in Tags : Dead(t)
                      /\ owner'.pc # "exited" => batching_closed,
           AdmitInv', PhaseInv', ExitInv', WakeInv'
    PROVE  IInv'
<1>1. UNCHANGED <<owner_pending, debt_known, completion_pending, batching_closed, owes,
                  honest, stopped>>
  BY Zenon DEF local, kernel
<1>2. TypeOK'
  BY <1>1, Zenon DEF IInv, TypeOK
<1>3. LedgerInv' /\ PendingInv' /\ EngineInv'
  BY <1>1, SameData, Zenon
<1>4. /\ NoneLeaving' = NoneLeaving /\ Untouched' = Untouched /\ NoDebt' = NoDebt
      /\ \A t \in Tags : Dead(t)' = Dead(t)
  BY <1>1, Zenon DEF NoneLeaving, Untouched, NoDebt, Dead
<1>5. JoinInv'
  BY <1>1, <1>4, Zenon DEF IInv, JoinInv
<1>6. FreshInv'
  BY <1>4, Zenon DEF IInv, FreshInv
<1> QED
  BY <1>2, <1>3, <1>5, <1>6, Zenon DEF IInv

\* A CQ turn ends.
LEMMA TurnEnding ==
    ASSUME TypeOK, NEW more \in BOOLEAN, TurnEnds(more)
    PROVE  /\ owner' \in Pump /\ owner'.phase = owner.phase
           /\ owner'.published = owner.published /\ owner'.next = owner.next
           /\ owner'.more = more
           /\ \/ owner'.pc = "pop" /\ owner.phase = "serve"
              \/ owner'.pc = "maintain" /\ owner.phase = "retire"
<1>1. PICK pc \in {"pop", "maintain"} :
        /\ owner' = [owner EXCEPT !.more = more, !.pc = pc]
        /\ \/ pc = "pop" /\ owner.phase = "serve"
           \/ pc = "maintain" /\ owner.phase = "retire"
  BY Zenon DEF TurnEnds, TypeOK, Pump
<1> QED
  BY <1>1, Zenon DEF TypeOK, Pump, PumpPcs

\* What the pump's steps read.
LEMMA PumpTypes ==
    ASSUME IInv
    PROVE  /\ TypeOK /\ owner \in Pump /\ flag \in QueueFlags /\ complete \in BOOLEAN
           /\ efd \in BOOLEAN /\ foreign_pending \in BOOLEAN
           /\ AdmitInv /\ PhaseInv /\ JoinInv /\ FreshInv /\ ExitInv /\ WakeInv
BY Zenon DEF IInv, TypeOK

LEMMA GateCheckStep ==
    ASSUME IInv, GateCheck
    PROVE  IInv'
<1>1. UNCHANGED <<raw, cmd, cqe, kernel, local, tag, mailbox, closed, handler, leaving,
                  device>>
      /\ owner.pc = "gate"
  BY Zenon DEF GateCheck, OAt, engine
<1>t. /\ TypeOK /\ owner \in Pump /\ flag \in QueueFlags /\ complete \in BOOLEAN
      /\ efd \in BOOLEAN /\ foreign_pending \in BOOLEAN
      /\ AdmitInv /\ PhaseInv /\ JoinInv /\ FreshInv /\ ExitInv /\ WakeInv
  BY PumpTypes, Zenon
<1>a. PICK pc \in {"gate read", "prepare", "close"} :
        OGoto(pc) /\ (pc = "gate read" => flag.publication_gate = "closed" /\ ~ flag.failed)
  BY Zenon DEF GateCheck
<1>2. /\ owner' \in Pump /\ owner'.phase = owner.phase
      /\ owner'.published = owner.published /\ owner'.more = owner.more
      /\ owner'.next = owner.next /\ owner'.pc = pc
  BY <1>t, <1>a, Going, Zenon DEF Moved, PumpPcs
<1>3. UNCHANGED <<flag, efd, complete, foreign_pending>>
  BY Zenon DEF GateCheck, engine
<1>4. AdmitInv' /\ PhaseInv' /\ ExitInv'
  BY <1>1, <1>t, <1>a, <1>2, <1>3, Zenon DEF AdmitInv, PhaseInv, ExitInv, local
<1>5. Joined' => /\ NoneLeaving /\ \A t \in Tags : Dead(t)
                 /\ owner'.pc # "exited" => batching_closed
  BY <1>1, <1>t, <1>a, <1>2, Zenon DEF JoinInv, Joined, Pump
<1>6. WakeInv'
  <2>1. NoWork' = NoWork /\ NoPosted' = NoPosted
        /\ kernel_retired(raw, debt_known)' = kernel_retired(raw, debt_known)
        /\ completion_pending' = completion_pending
    BY <1>1, Zenon DEF NoWork, NoPosted, kernel_retired, local
  <2> QED
    BY <1>1, <1>t, <1>a, <1>2, <1>3, <2>1, Zenon DEF WakeInv, TurnOver
<1> QED
  BY <1>1, <1>t, <1>a, <1>2, <1>3, <1>4, <1>5, <1>6, PumpStep, Zenon DEF FreshInv

LEMMA LoopStep ==
    ASSUME IInv, Loop
    PROVE  IInv'
<1>1. UNCHANGED <<raw, cmd, cqe, kernel, local, tag, mailbox, closed, handler, leaving,
                  device>>
      /\ owner.pc = "loop"
  BY Zenon DEF Loop, OAt, engine
<1>t. /\ TypeOK /\ owner \in Pump /\ flag \in QueueFlags /\ complete \in BOOLEAN
      /\ efd \in BOOLEAN /\ foreign_pending \in BOOLEAN
      /\ AdmitInv /\ PhaseInv /\ JoinInv /\ FreshInv /\ ExitInv /\ WakeInv
  BY PumpTypes, Zenon
<1>2. /\ owner' \in Pump /\ owner'.phase = owner.phase
      /\ owner'.published = owner.published /\ owner'.more = owner.more
      /\ \/ owner'.pc = "collect" /\ owner'.next = "flush" /\ owner.published
         \/ owner'.pc = "close" /\ owner'.next = owner.next
  BY <1>1, <1>t, Zenon DEF Loop, Pump, PumpPcs
<1>3. UNCHANGED <<flag, efd, complete, foreign_pending>>
  BY Zenon DEF Loop, engine
<1>4. AdmitInv' /\ PhaseInv' /\ ExitInv'
  BY <1>1, <1>t, <1>2, <1>3, Zenon DEF AdmitInv, PhaseInv, ExitInv, local
<1>5. Joined' => /\ NoneLeaving /\ \A t \in Tags : Dead(t)
                 /\ owner'.pc # "exited" => batching_closed
  BY <1>1, <1>t, <1>2, Zenon DEF JoinInv, Joined, Pump
<1>6. WakeInv'
  <2>1. NoWork' = NoWork /\ NoPosted' = NoPosted
        /\ kernel_retired(raw, debt_known)' = kernel_retired(raw, debt_known)
        /\ completion_pending' = completion_pending
    BY <1>1, Zenon DEF NoWork, NoPosted, kernel_retired, local
  <2> QED
    BY <1>1, <1>t, <1>2, <1>3, <2>1, Zenon DEF WakeInv, TurnOver
<1> QED
  BY <1>1, <1>t, <1>2, <1>3, <1>4, <1>5, <1>6, PumpStep, Zenon DEF FreshInv

LEMMA CollectStep ==
    ASSUME IInv, Collect
    PROVE  IInv'
<1>1. UNCHANGED <<raw, cmd, cqe, kernel, local, tag, mailbox, closed, handler, leaving,
                  device>>
      /\ owner.pc = "collect"
  BY Zenon DEF Collect, OAt, engine
<1>t. /\ TypeOK /\ owner \in Pump /\ flag \in QueueFlags /\ complete \in BOOLEAN
      /\ efd \in BOOLEAN /\ foreign_pending \in BOOLEAN
      /\ AdmitInv /\ PhaseInv /\ JoinInv /\ FreshInv /\ ExitInv /\ WakeInv
  BY PumpTypes, Zenon
<1>2. /\ owner' \in Pump /\ owner'.phase = owner.phase
      /\ owner'.published = owner.published /\ owner'.more = owner.more
      /\ owner'.next = owner.next
      /\ owner'.pc = "scan" \/ owner'.pc = owner.next
      /\ owner.next \in {"flush", "admit", "drained"}
  BY <1>1, <1>t, Zenon DEF Collect, Pump, PumpPcs
<1>3. UNCHANGED <<flag, efd, complete>> /\ foreign_pending' \in BOOLEAN
  BY Zenon DEF Collect
<1>4. AdmitInv' /\ PhaseInv' /\ ExitInv'
  BY <1>1, <1>t, <1>2, <1>3, Zenon DEF AdmitInv, PhaseInv, ExitInv, local
<1>5. Joined' => /\ NoneLeaving /\ \A t \in Tags : Dead(t)
                 /\ owner'.pc # "exited" => batching_closed
  BY <1>1, <1>t, <1>2, Zenon DEF JoinInv, Joined, Pump
<1>6. WakeInv'
  <2>1. NoWork' = NoWork /\ NoPosted' = NoPosted
        /\ kernel_retired(raw, debt_known)' = kernel_retired(raw, debt_known)
        /\ completion_pending' = completion_pending
    BY <1>1, Zenon DEF NoWork, NoPosted, kernel_retired, local
  <2> QED
    BY <1>1, <1>t, <1>2, <1>3, <2>1, Zenon DEF WakeInv, TurnOver
<1> QED
  BY <1>1, <1>t, <1>2, <1>3, <1>4, <1>5, <1>6, PumpStep, Zenon DEF FreshInv

LEMMA DrainedStep ==
    ASSUME IInv, Drained
    PROVE  IInv'
<1>1. UNCHANGED <<raw, cmd, cqe, kernel, local, tag, mailbox, closed, handler, leaving,
                  device>>
      /\ owner.pc = "drain"
  BY Zenon DEF Drained, OAt, engine
<1>t. /\ TypeOK /\ owner \in Pump /\ flag \in QueueFlags /\ complete \in BOOLEAN
      /\ efd \in BOOLEAN /\ foreign_pending \in BOOLEAN
      /\ AdmitInv /\ PhaseInv /\ JoinInv /\ FreshInv /\ ExitInv /\ WakeInv
  BY PumpTypes, Zenon
<1>2. /\ owner' \in Pump /\ owner'.phase = owner.phase
      /\ owner'.published = owner.published /\ owner'.next = owner.next
      /\ \/ owner'.pc = "hint" /\ Posted = {}
         \/ /\ owner'.more
            /\ \/ owner'.pc = "pop" /\ owner.phase = "serve"
               \/ owner'.pc = "maintain" /\ owner.phase = "retire"
  <2>1. CASE TurnEnds(TRUE)
    BY <1>t, <2>1, TurnEnding, Zenon
  <2>2. CASE OGoto("hint") /\ Posted = {}
    BY <1>t, <2>2, Going, Zenon DEF Moved, PumpPcs
  <2> QED
    BY <2>1, <2>2, Zenon DEF Drained
<1>3. UNCHANGED <<flag, efd, complete, foreign_pending>>
  BY Zenon DEF Drained, engine
<1>4. AdmitInv' /\ PhaseInv' /\ ExitInv'
  BY <1>1, <1>t, <1>2, <1>3, Zenon DEF AdmitInv, PhaseInv, ExitInv, local
<1>5. Joined' => /\ NoneLeaving /\ \A t \in Tags : Dead(t)
                 /\ owner'.pc # "exited" => batching_closed
  BY <1>1, <1>t, <1>2, Zenon DEF JoinInv, Joined, Pump
<1>6. WakeInv'
  <2>1. NoWork' = NoWork /\ NoPosted' = NoPosted
        /\ kernel_retired(raw, debt_known)' = kernel_retired(raw, debt_known)
        /\ completion_pending' = completion_pending
    BY <1>1, Zenon DEF NoWork, NoPosted, kernel_retired, local
  <2> QED
    BY <1>1, <1>t, <1>2, <1>3, <2>1, Zenon DEF WakeInv, TurnOver, NoPosted, Posted
<1> QED
  BY <1>1, <1>t, <1>2, <1>3, <1>4, <1>5, <1>6, PumpStep, Zenon DEF FreshInv

LEMMA PopStep ==
    ASSUME IInv, Pop
    PROVE  IInv'
<1>1. UNCHANGED <<raw, cmd, cqe, kernel, local, tag, mailbox, closed, handler, leaving,
                  device>>
      /\ owner.pc = "pop"
  BY Zenon DEF Pop, OAt, engine
<1>t. /\ TypeOK /\ owner \in Pump /\ flag \in QueueFlags /\ complete \in BOOLEAN
      /\ efd \in BOOLEAN /\ foreign_pending \in BOOLEAN
      /\ AdmitInv /\ PhaseInv /\ JoinInv /\ FreshInv /\ ExitInv /\ WakeInv
  BY PumpTypes, Zenon
<1>2. /\ owner' \in Pump /\ owner'.phase = owner.phase
      /\ owner'.published = owner.published /\ owner'.more = owner.more
      /\ \/ owner'.pc = "check" /\ owner'.next = owner.next
         \/ owner'.pc = "collect" /\ owner'.next = "admit" /\ owner_pending # <<>>
  BY <1>1, <1>t, Zenon DEF Pop, Pump, PumpPcs
<1>3. UNCHANGED <<flag, efd, complete, foreign_pending>>
  BY Zenon DEF Pop, engine
<1>4. AdmitInv' /\ PhaseInv' /\ ExitInv'
  BY <1>1, <1>t, <1>2, <1>3, Zenon DEF AdmitInv, PhaseInv, ExitInv, local
<1>5. Joined' => /\ NoneLeaving /\ \A t \in Tags : Dead(t)
                 /\ owner'.pc # "exited" => batching_closed
  BY <1>1, <1>t, <1>2, Zenon DEF JoinInv, Joined, Pump
<1>6. WakeInv'
  <2>1. NoWork' = NoWork /\ NoPosted' = NoPosted
        /\ kernel_retired(raw, debt_known)' = kernel_retired(raw, debt_known)
        /\ completion_pending' = completion_pending
    BY <1>1, Zenon DEF NoWork, NoPosted, kernel_retired, local
  <2> QED
    BY <1>1, <1>t, <1>2, <1>3, <2>1, Zenon DEF WakeInv, TurnOver
<1> QED
  BY <1>1, <1>t, <1>2, <1>3, <1>4, <1>5, <1>6, PumpStep, Zenon DEF FreshInv

LEMMA CheckStep ==
    ASSUME IInv, Check
    PROVE  IInv'
<1>1. UNCHANGED <<raw, cmd, cqe, kernel, local, tag, mailbox, closed, handler, leaving,
                  device>>
      /\ owner.pc = "check"
  BY Zenon DEF Check, OAt, engine
<1>t. /\ TypeOK /\ owner \in Pump /\ flag \in QueueFlags /\ complete \in BOOLEAN
      /\ efd \in BOOLEAN /\ foreign_pending \in BOOLEAN
      /\ AdmitInv /\ PhaseInv /\ JoinInv /\ FreshInv /\ ExitInv /\ WakeInv
  BY PumpTypes, Zenon
<1>a. PICK pc \in {"close", "sleep", "park"} :
        /\ OGoto(pc)
        /\ pc = "park" => ~ flag.stop /\ ~ flag.failed /\ ~ owner.more
  BY Zenon DEF Check
<1>2. /\ owner' \in Pump /\ owner'.phase = owner.phase
      /\ owner'.published = owner.published /\ owner'.more = owner.more
      /\ owner'.next = owner.next /\ owner'.pc = pc
  BY <1>t, <1>a, Going, Zenon DEF Moved, PumpPcs
<1>3. UNCHANGED <<flag, efd, complete, foreign_pending>>
  BY Zenon DEF Check, engine
<1>4. AdmitInv' /\ PhaseInv' /\ ExitInv'
  BY <1>1, <1>t, <1>a, <1>2, <1>3, Zenon DEF AdmitInv, PhaseInv, ExitInv, local
<1>5. Joined' => /\ NoneLeaving /\ \A t \in Tags : Dead(t)
                 /\ owner'.pc # "exited" => batching_closed
  BY <1>1, <1>t, <1>a, <1>2, Zenon DEF JoinInv, Joined, Pump
<1>6. WakeInv'
  <2>1. NoWork' = NoWork /\ NoPosted' = NoPosted
        /\ kernel_retired(raw, debt_known)' = kernel_retired(raw, debt_known)
        /\ completion_pending' = completion_pending
    BY <1>1, Zenon DEF NoWork, NoPosted, kernel_retired, local
  <2>2. ASSUME owner'.pc = "park"
        PROVE  /\ ~ owner'.more /\ (efd' \/ (NoWork' /\ NoPosted'))
               /\ (completion_pending' => efd')
    BY <1>1, <1>t, <1>a, <1>2, <1>3, <2>1, <2>2, Zenon DEF WakeInv, TurnOver
  <2>3. CASE owner'.pc # "park"
    BY <1>1, <1>a, <1>2, <2>3, Zenon DEF WakeInv, TurnOver
  <2>4. CASE owner'.pc = "park"
    <3>1. owner.phase = "serve" /\ ~ flag'.stop /\ ~ flag'.failed
      BY <1>1, <1>t, <1>a, <1>2, <1>3, <2>4, Zenon DEF PhaseInv, Pump
    <3> QED
      BY <1>2, <2>2, <2>4, <3>1, Zenon DEF WakeInv, TurnOver
  <2> QED
    BY <2>3, <2>4, Zenon
<1> QED
  BY <1>1, <1>t, <1>a, <1>2, <1>3, <1>4, <1>5, <1>6, PumpStep, Zenon DEF FreshInv

LEMMA SleepStep ==
    ASSUME IInv, Sleep
    PROVE  IInv'
<1>1. UNCHANGED <<raw, cmd, cqe, kernel, local, tag, mailbox, closed, handler, leaving,
                  device>>
      /\ owner.pc = "sleep"
  BY Zenon DEF Sleep, OAt, engine
<1>t. /\ TypeOK /\ owner \in Pump /\ flag \in QueueFlags /\ complete \in BOOLEAN
      /\ efd \in BOOLEAN /\ foreign_pending \in BOOLEAN
      /\ AdmitInv /\ PhaseInv /\ JoinInv /\ FreshInv /\ ExitInv /\ WakeInv
  BY PumpTypes, Zenon
<1>a. PICK pc \in {"loop", "retire"} :
        OGoto(pc) /\ (pc = "loop" <=> owner.phase = "serve")
  BY Zenon DEF Sleep, Resume
<1>2. /\ owner' \in Pump /\ owner'.phase = owner.phase
      /\ owner'.published = owner.published /\ owner'.more = owner.more
      /\ owner'.next = owner.next /\ owner'.pc = pc
  BY <1>t, <1>a, Going, Zenon DEF Moved, PumpPcs
<1>3. UNCHANGED <<flag, efd, complete, foreign_pending>>
  BY Zenon DEF Sleep, engine
<1>4. AdmitInv' /\ PhaseInv' /\ ExitInv'
  BY <1>1, <1>t, <1>a, <1>2, <1>3, Zenon DEF AdmitInv, PhaseInv, ExitInv, local
<1>5. Joined' => /\ NoneLeaving /\ \A t \in Tags : Dead(t)
                 /\ owner'.pc # "exited" => batching_closed
  BY <1>1, <1>t, <1>a, <1>2, Zenon DEF JoinInv, Joined, Pump
<1>6. WakeInv'
  <2>1. NoWork' = NoWork /\ NoPosted' = NoPosted
        /\ kernel_retired(raw, debt_known)' = kernel_retired(raw, debt_known)
        /\ completion_pending' = completion_pending
    BY <1>1, Zenon DEF NoWork, NoPosted, kernel_retired, local
  <2> QED
    BY <1>1, <1>t, <1>a, <1>2, <1>3, <2>1, Zenon DEF WakeInv, TurnOver
<1> QED
  BY <1>1, <1>t, <1>a, <1>2, <1>3, <1>4, <1>5, <1>6, PumpStep, Zenon DEF FreshInv

LEMMA GateReadStep ==
    ASSUME IInv, GateRead
    PROVE  IInv'
<1>1. UNCHANGED <<raw, cmd, cqe, kernel, local, tag, mailbox, closed, handler, leaving,
                  device>>
      /\ owner.pc = "gate read"
  BY Zenon DEF GateRead, OAt, engine, EventfdRead
<1>t. /\ TypeOK /\ owner \in Pump /\ flag \in QueueFlags /\ complete \in BOOLEAN
      /\ efd \in BOOLEAN /\ foreign_pending \in BOOLEAN
      /\ AdmitInv /\ PhaseInv /\ JoinInv /\ FreshInv /\ ExitInv /\ WakeInv
  BY PumpTypes, Zenon
<1>2. /\ owner' \in Pump /\ owner'.phase = owner.phase
      /\ owner'.published = owner.published /\ owner'.more = owner.more
      /\ owner'.next = owner.next /\ owner'.pc = "gate"
  BY <1>t, Going, Zenon DEF Moved, PumpPcs, GateRead, EventfdRead
<1>3. /\ flag' \in QueueFlags /\ SameFlags(flag, flag') /\ efd' \in BOOLEAN
      /\ UNCHANGED <<complete, foreign_pending>>
  <2>1. CASE efd /\ efd' = FALSE /\ UNCHANGED <<flag, budget>>
    BY <1>t, <2>1, Zenon DEF GateRead, EventfdRead, engine, SameFlags
  <2>2. CASE Fault("read") /\ fail
    BY <1>t, <2>2, Failing, Zenon DEF GateRead, EventfdRead, engine
  <2> QED
    BY <2>1, <2>2, Zenon DEF GateRead, EventfdRead
<1>4. AdmitInv' /\ PhaseInv' /\ ExitInv'
  BY <1>1, <1>t, <1>2, <1>3, Zenon DEF AdmitInv, PhaseInv, ExitInv, local, SameFlags
<1>5. Joined' => /\ NoneLeaving /\ \A t \in Tags : Dead(t)
                 /\ owner'.pc # "exited" => batching_closed
  BY <1>1, <1>t, <1>2, Zenon DEF JoinInv, Joined, Pump
<1>6. WakeInv'
  <2>1. NoWork' = NoWork /\ NoPosted' = NoPosted
        /\ kernel_retired(raw, debt_known)' = kernel_retired(raw, debt_known)
        /\ completion_pending' = completion_pending
    BY <1>1, Zenon DEF NoWork, NoPosted, kernel_retired, local
  <2> QED
    BY <1>1, <1>t, <1>2, <1>3, <2>1, Zenon DEF WakeInv, TurnOver
<1> QED
  BY <1>1, <1>t, <1>2, <1>3, <1>4, <1>5, <1>6, PumpStep, Zenon DEF FreshInv

LEMMA ParkStep ==
    ASSUME IInv, Park
    PROVE  IInv'
<1>1. UNCHANGED <<raw, cmd, cqe, kernel, local, tag, mailbox, closed, handler, leaving,
                  device>>
      /\ owner.pc = "park"
  BY Zenon DEF Park, OAt, engine, EventfdRead
<1>t. /\ TypeOK /\ owner \in Pump /\ flag \in QueueFlags /\ complete \in BOOLEAN
      /\ efd \in BOOLEAN /\ foreign_pending \in BOOLEAN
      /\ AdmitInv /\ PhaseInv /\ JoinInv /\ FreshInv /\ ExitInv /\ WakeInv
  BY PumpTypes, Zenon
<1>a. PICK pc \in {"loop", "retire"} :
        OGoto(pc) /\ (pc = "loop" <=> owner.phase = "serve")
  BY Zenon DEF Park, EventfdRead, Resume
<1>2. /\ owner' \in Pump /\ owner'.phase = owner.phase
      /\ owner'.published = owner.published /\ owner'.more = owner.more
      /\ owner'.next = owner.next /\ owner'.pc = pc
  BY <1>t, <1>a, Going, Zenon DEF Moved, PumpPcs
<1>3. /\ flag' \in QueueFlags /\ SameFlags(flag, flag') /\ efd' \in BOOLEAN
      /\ UNCHANGED <<complete, foreign_pending>>
  <2>1. CASE efd /\ efd' = FALSE /\ UNCHANGED <<flag, budget>>
    BY <1>t, <2>1, Zenon DEF Park, EventfdRead, engine, SameFlags
  <2>2. CASE Fault("read") /\ fail
    BY <1>t, <2>2, Failing, Zenon DEF Park, EventfdRead, engine
  <2> QED
    BY <2>1, <2>2, Zenon DEF Park, EventfdRead
<1>4. AdmitInv' /\ PhaseInv' /\ ExitInv'
  BY <1>1, <1>t, <1>a, <1>2, <1>3, Zenon DEF AdmitInv, PhaseInv, ExitInv, local, SameFlags
<1>5. Joined' => /\ NoneLeaving /\ \A t \in Tags : Dead(t)
                 /\ owner'.pc # "exited" => batching_closed
  BY <1>1, <1>t, <1>a, <1>2, Zenon DEF JoinInv, Joined, Pump
<1>6. WakeInv'
  <2>1. NoWork' = NoWork /\ NoPosted' = NoPosted
        /\ kernel_retired(raw, debt_known)' = kernel_retired(raw, debt_known)
        /\ completion_pending' = completion_pending
    BY <1>1, Zenon DEF NoWork, NoPosted, kernel_retired, local
  <2> QED
    BY <1>1, <1>t, <1>a, <1>2, <1>3, <2>1, Zenon DEF WakeInv, TurnOver
<1> QED
  BY <1>1, <1>t, <1>a, <1>2, <1>3, <1>4, <1>5, <1>6, PumpStep, Zenon DEF FreshInv

LEMMA BeginOwnerStep ==
    ASSUME IInv, BeginOwner
    PROVE  IInv'
<1>1. UNCHANGED <<raw, cmd, cqe, kernel, local, tag, mailbox, closed, handler, leaving,
                  device>>
      /\ owner.pc = "begin" /\ UNCHANGED <<efd, complete, foreign_pending>>
  BY Zenon DEF BeginOwner, OAt, engine
<1>t. /\ TypeOK /\ owner \in Pump /\ flag \in QueueFlags /\ complete \in BOOLEAN
      /\ efd \in BOOLEAN /\ foreign_pending \in BOOLEAN
      /\ AdmitInv /\ PhaseInv /\ JoinInv /\ FreshInv /\ ExitInv /\ WakeInv
  BY PumpTypes, Zenon
<1>2. PICK pc \in {"init", "never ran"} :
        /\ OGoto(pc)
        /\ pc = "init" => /\ flag.owner_admission = "unclaimed"
                          /\ flag' = [flag EXCEPT !.owner_admission = "begun"]
        /\ pc = "never ran" => flag.owner_admission # "unclaimed" /\ flag' = flag
  BY Zenon DEF BeginOwner
<1>3. /\ owner' \in Pump /\ owner'.phase = owner.phase /\ owner'.pc = pc
      /\ owner'.published = owner.published /\ owner'.more = owner.more
  BY <1>t, <1>2, Going, Zenon DEF Moved, PumpPcs
<1>4. /\ flag' \in QueueFlags /\ flag'.owner_exited = flag.owner_exited
      /\ flag'.owner_wakeup_on_elio = flag.owner_wakeup_on_elio
      /\ flag'.owner_admission # "unclaimed"
      /\ pc = "never ran" => flag' = flag
      /\ pc = "init" => flag.owner_admission = "unclaimed"
  BY <1>t, <1>2, Zenon DEF QueueFlags
<1>5. AdmitInv' /\ PhaseInv' /\ ExitInv'
  BY <1>1, <1>t, <1>3, <1>4, Zenon DEF AdmitInv, PhaseInv, ExitInv, FreshInv
<1>6. ~ Joined' /\ owner.phase = "serve" /\ ~ owner.published
  BY <1>1, <1>t, <1>3, Zenon DEF Joined, FreshInv
<1>7. WakeInv'
  BY <1>3, Zenon DEF WakeInv, TurnOver
<1> QED
  BY <1>1, <1>t, <1>3, <1>4, <1>5, <1>6, <1>7, PumpStep, Zenon

LEMMA InitOwnerPumpStep ==
    ASSUME IInv, InitOwnerPump
    PROVE  IInv'
<1>1. UNCHANGED <<raw, cmd, cqe, kernel, local, tag, mailbox, closed, handler, leaving,
                  device>>
      /\ owner.pc = "init" /\ UNCHANGED <<efd, foreign_pending>>
  BY Zenon DEF InitOwnerPump, OAt, engine
<1>t. /\ TypeOK /\ owner \in Pump /\ flag \in QueueFlags /\ complete \in BOOLEAN
      /\ efd \in BOOLEAN /\ foreign_pending \in BOOLEAN
      /\ AdmitInv /\ PhaseInv /\ JoinInv /\ FreshInv /\ ExitInv /\ WakeInv
  BY PumpTypes, Zenon
<1>2. /\ owner.phase = "serve" /\ ~ owner.published /\ Untouched /\ NoDebt
      /\ device.pc # "spawn" /\ ~ flag.owner_exited /\ flag.owner_admission # "unclaimed"
  BY <1>1, <1>t, Zenon DEF FreshInv, ExitInv
<1>3. CASE /\ flag' = [flag EXCEPT !.owner_wakeup_on_elio = TRUE, !.setup_ready = TRUE]
           /\ OGoto("gate") /\ UNCHANGED <<complete, budget>>
  <2>1. /\ owner' \in Pump /\ owner'.phase = owner.phase /\ owner'.pc = "gate"
        /\ owner'.published = owner.published
    BY <1>t, <1>3, Going, Zenon DEF Moved, PumpPcs
  <2>2. /\ flag' \in QueueFlags /\ flag'.owner_exited = flag.owner_exited
        /\ flag'.owner_wakeup_on_elio
        /\ flag'.owner_admission = flag.owner_admission
    BY <1>t, <1>3, Zenon DEF QueueFlags
  <2>3. AdmitInv' /\ PhaseInv' /\ ExitInv' /\ WakeInv' /\ ~ Joined'
    BY <1>1, <1>t, <1>2, <2>1, <2>2, Zenon
    DEF AdmitInv, PhaseInv, ExitInv, WakeInv, TurnOver, Joined
  <2> QED
    BY <1>1, <1>t, <1>2, <1>3, <2>1, <2>2, <2>3, PumpStep, Zenon
<1>4. CASE /\ flag' = [flag EXCEPT !.failed = TRUE, !.sources_drained = TRUE,
                                   !.owner_exited = TRUE]
           /\ finish_owner
  <2>1. /\ owner' \in Pump /\ owner'.phase = owner.phase /\ owner'.pc = "exited"
        /\ owner'.published = owner.published
    BY <1>t, <1>4, Going, Zenon DEF Moved, PumpPcs, finish_owner
  <2>2. /\ flag' \in QueueFlags /\ flag'.owner_admission = flag.owner_admission
    BY <1>t, <1>4, Zenon DEF QueueFlags
  <2>3. complete' \in BOOLEAN
    BY <1>t, <1>4, Zenon DEF finish_owner, kernel_retired, TypeOK
  <2>4. AdmitInv' /\ PhaseInv' /\ ExitInv' /\ WakeInv'
    BY <1>1, <1>t, <1>2, <2>1, <2>2, Zenon
    DEF AdmitInv, PhaseInv, ExitInv, WakeInv, TurnOver
  <2>5. NoneLeaving /\ \A t \in Tags : Dead(t)
    BY <1>2, Zenon DEF Untouched, Dead
  <2> QED
    BY <1>1, <1>t, <1>2, <2>1, <2>2, <2>3, <2>4, <2>5, PumpStep, Zenon
<1> QED
  BY <1>3, <1>4, Zenon DEF InitOwnerPump

LEMMA ReadHintStep ==
    ASSUME IInv, ReadHint
    PROVE  IInv'
<1>1. UNCHANGED <<raw, cmd, cqe, kernel, local, tag, mailbox, closed, handler, leaving,
                  device>>
      /\ owner.pc = "hint" /\ UNCHANGED <<complete, foreign_pending>>
  BY Zenon DEF ReadHint, OAt, engine
<1>t. /\ TypeOK /\ owner \in Pump /\ flag \in QueueFlags /\ complete \in BOOLEAN
      /\ efd \in BOOLEAN /\ foreign_pending \in BOOLEAN
      /\ AdmitInv /\ PhaseInv /\ JoinInv /\ FreshInv /\ ExitInv /\ WakeInv
  BY PumpTypes, Zenon
<1>2. NoWork' = NoWork /\ NoPosted' = NoPosted /\ completion_pending' = completion_pending
      /\ owner_pending' = owner_pending
  BY <1>1, Zenon DEF NoWork, NoPosted, local
<1>3. /\ ~ completion_pending /\ NoPosted /\ (efd \/ NoWork) /\ flag.owner_wakeup_on_elio
  BY <1>1, <1>t, Zenon DEF WakeInv, PhaseInv
<1>4. CASE efd /\ efd' = FALSE /\ UNCHANGED <<flag, budget>>
           /\ owner' = [owner EXCEPT !.pc = "enter", !.hints = @ + 1]
  <2>1. /\ owner' \in Pump /\ owner'.phase = owner.phase /\ owner'.pc = "enter"
        /\ owner'.published = owner.published /\ owner'.next = owner.next
    <3>1. PICK n \in Nat : n = owner.hints + 1
      BY <1>t DEF Pump
    <3>2. owner' = [owner EXCEPT !.pc = "enter", !.hints = n]
      BY <1>4, <3>1, Zenon
    <3> QED
      BY <1>t, <3>2, Zenon DEF Pump, PumpPcs
  <2>2. AdmitInv' /\ PhaseInv' /\ ExitInv'
    BY <1>1, <1>t, <1>4, <2>1, Zenon DEF AdmitInv, PhaseInv, ExitInv
  <2>3. WakeInv'
    BY <1>2, <1>3, <2>1, Zenon DEF WakeInv, TurnOver
  <2>4. Joined' => /\ NoneLeaving /\ \A t \in Tags : Dead(t)
                   /\ owner'.pc # "exited" => batching_closed
    BY <1>1, <1>t, <2>1, Zenon DEF Joined, JoinInv
  <2> QED
    BY <1>1, <1>t, <1>4, <2>1, <2>2, <2>3, <2>4, PumpStep, Zenon DEF FreshInv
<1>5. CASE /\ TurnEnds(FALSE) /\ flag' \in QueueFlags /\ SameFlags(flag, flag')
           /\ efd' \in BOOLEAN /\ (efd' \/ NoWork)
  <2>1. /\ owner' \in Pump /\ owner'.phase = owner.phase
        /\ owner'.published = owner.published /\ owner'.next = owner.next
        /\ \/ owner'.pc = "pop" /\ owner.phase = "serve"
           \/ owner'.pc = "maintain" /\ owner.phase = "retire"
    BY <1>t, <1>5, TurnEnding, Zenon
  <2>2. AdmitInv' /\ PhaseInv' /\ ExitInv'
    BY <1>1, <1>t, <1>5, <2>1, Zenon DEF AdmitInv, PhaseInv, ExitInv, SameFlags
  <2>3. WakeInv'
    BY <1>2, <1>3, <1>5, <2>1, Zenon DEF WakeInv, TurnOver
  <2>4. Joined' => /\ NoneLeaving /\ \A t \in Tags : Dead(t)
                   /\ owner'.pc # "exited" => batching_closed
    BY <1>1, <1>t, <2>1, Zenon DEF Joined, JoinInv
  <2> QED
    BY <1>1, <1>t, <1>5, <2>1, <2>2, <2>3, <2>4, PumpStep, Zenon DEF FreshInv
<1>6. CASE efd' = FALSE /\ UNCHANGED <<flag, budget>>
           /\ IF efd THEN owner' = [owner EXCEPT !.pc = "enter", !.hints = @ + 1]
              ELSE TurnEnds(FALSE)
  BY <1>t, <1>3, <1>4, <1>5, <1>6, Zenon DEF SameFlags
<1>7. CASE Fault("read") /\ fail /\ TurnEnds(FALSE)
  BY <1>t, <1>3, <1>5, <1>7, Failing, Zenon
<1> QED
  BY <1>6, <1>7, Zenon DEF ReadHint

LEMMA JoinStep ==
    ASSUME IInv, Join
    PROVE  IInv'
<1>1. UNCHANGED <<raw, cmd, cqe, kernel, local, tag, mailbox, closed, handler, leaving,
                  device>>
      /\ owner.pc = "join" /\ UNCHANGED <<complete, foreign_pending>>
      /\ NoneLeaving /\ \A t \in Tags : Dead(t)
  BY Zenon DEF Join, OAt, engine
<1>t. /\ TypeOK /\ owner \in Pump /\ flag \in QueueFlags /\ complete \in BOOLEAN
      /\ efd \in BOOLEAN /\ foreign_pending \in BOOLEAN
      /\ AdmitInv /\ PhaseInv /\ JoinInv /\ FreshInv /\ ExitInv /\ WakeInv
  BY PumpTypes, Zenon
<1>2. /\ owner' \in Pump /\ owner'.phase = owner.phase /\ owner'.pc = "collect"
      /\ owner'.published = owner.published /\ owner'.next = "drained"
      /\ owner.phase = "serve"
  BY <1>1, <1>t, Zenon DEF Join, Pump, PumpPcs, PhaseInv
<1>3. flag' \in QueueFlags /\ SameFlags(flag, flag') /\ efd' \in BOOLEAN
  <2>1. CASE fail
    BY <1>t, <2>1, Failing, Zenon
  <2>2. CASE UNCHANGED <<flag, efd>>
    BY <1>t, <2>2, Zenon DEF SameFlags
  <2> QED
    BY <2>1, <2>2, Zenon DEF Join
<1>4. AdmitInv' /\ PhaseInv' /\ ExitInv' /\ WakeInv'
  BY <1>1, <1>t, <1>2, <1>3, Zenon
  DEF AdmitInv, PhaseInv, ExitInv, WakeInv, TurnOver, SameFlags
<1>5. batching_closed
  BY <1>1, <1>t, Zenon DEF JoinInv
<1> QED
  BY <1>1, <1>t, <1>2, <1>3, <1>4, <1>5, PumpStep, Zenon

LEMMA SourcesDrainedStep ==
    ASSUME IInv, SourcesDrained
    PROVE  IInv'
<1>1. UNCHANGED <<raw, cmd, cqe, kernel, local, tag, mailbox, closed, handler, leaving,
                  device>>
      /\ owner.pc = "drained" /\ UNCHANGED foreign_pending /\ wakeup
  BY Zenon DEF SourcesDrained, OAt, engine
<1>t. /\ TypeOK /\ owner \in Pump /\ flag \in QueueFlags /\ complete \in BOOLEAN
      /\ efd \in BOOLEAN /\ foreign_pending \in BOOLEAN
      /\ AdmitInv /\ PhaseInv /\ JoinInv /\ FreshInv /\ ExitInv /\ WakeInv
  BY PumpTypes, Zenon
<1>2. /\ NoneLeaving /\ (\A t \in Tags : Dead(t)) /\ batching_closed
      /\ flag.owner_wakeup_on_elio /\ owner.phase = "serve" /\ efd' \in BOOLEAN
  BY <1>1, <1>t, Zenon DEF Joined, JoinInv, PhaseInv, wakeup, Pump, QueueFlags
<1>3. CASE owner.published
  <2>1. /\ owner' \in Pump /\ owner'.pc = "retire" /\ owner'.phase = "retire"
        /\ owner'.published = owner.published
    <3>1. owner' = [owner EXCEPT !.pc = "retire", !.phase = "retire"]
      BY <1>3, Zenon DEF SourcesDrained
    <3> QED
      BY <1>t, <3>1, Zenon DEF Pump, PumpPcs
  <2>2. /\ flag' \in QueueFlags /\ SameFlags(flag, flag') /\ UNCHANGED complete
    BY <1>t, <1>3, Zenon DEF SourcesDrained, QueueFlags, SameFlags
  <2>3. AdmitInv' /\ PhaseInv' /\ ExitInv' /\ WakeInv'
    BY <1>1, <1>t, <1>2, <2>1, <2>2, Zenon
    DEF AdmitInv, PhaseInv, ExitInv, WakeInv, TurnOver, SameFlags
  <2> QED
    BY <1>1, <1>t, <1>2, <1>3, <2>1, <2>2, <2>3, PumpStep, Zenon
<1>4. CASE ~ owner.published
  <2>1. /\ owner' \in Pump /\ owner'.pc = "exited" /\ owner'.phase = owner.phase
        /\ owner'.published = owner.published
    BY <1>t, <1>4, Going, Zenon DEF SourcesDrained, finish_owner, Moved, PumpPcs
  <2>2. /\ flag' \in QueueFlags /\ flag'.owner_admission = flag.owner_admission
        /\ complete' \in BOOLEAN
    <3>1. flag' = [flag EXCEPT !.sources_drained = TRUE, !.owner_exited = TRUE]
      BY <1>4, Zenon DEF SourcesDrained
    <3>2. flag' \in QueueFlags /\ flag'.owner_admission = flag.owner_admission
      BY <1>t, <3>1, Zenon DEF QueueFlags
    <3> QED
      BY <1>t, <1>4, <3>2, Zenon DEF SourcesDrained, finish_owner, kernel_retired, TypeOK
  <2>3. AdmitInv' /\ PhaseInv' /\ ExitInv' /\ WakeInv' /\ NoDebt
    BY <1>1, <1>t, <1>2, <1>4, <2>1, <2>2, Zenon
    DEF AdmitInv, PhaseInv, ExitInv, WakeInv, TurnOver, FreshInv
  <2> QED
    BY <1>1, <1>t, <1>2, <1>4, <2>1, <2>2, <2>3, PumpStep, Zenon
<1> QED
  BY <1>3, <1>4, Zenon

LEMMA RetireStep ==
    ASSUME IInv, Retire
    PROVE  IInv'
<1>1. UNCHANGED <<raw, cmd, cqe, kernel, local, tag, mailbox, closed, handler, leaving,
                  device>>
      /\ owner.pc = "retire" /\ UNCHANGED <<foreign_pending, efd>>
  BY Zenon DEF Retire, OAt, engine
<1>t. /\ TypeOK /\ owner \in Pump /\ flag \in QueueFlags /\ complete \in BOOLEAN
      /\ efd \in BOOLEAN /\ foreign_pending \in BOOLEAN
      /\ AdmitInv /\ PhaseInv /\ JoinInv /\ FreshInv /\ ExitInv /\ WakeInv
  BY PumpTypes, Zenon
<1>2. /\ owner.phase = "retire" /\ owner.published
  BY <1>1, <1>t, Zenon DEF PhaseInv, Pump, FreshInv
<1>3. /\ NoneLeaving /\ (\A t \in Tags : Dead(t)) /\ batching_closed /\ ~ completion_pending
      /\ flag.owner_wakeup_on_elio
  BY <1>1, <1>2, <1>t, Zenon DEF Joined, JoinInv, PhaseInv
<1>4. CASE flag.exit_requested /\ kernel_retired(raw, debt_known)
  <2>1. /\ owner' \in Pump /\ owner'.pc = "exited" /\ owner'.phase = owner.phase
        /\ owner'.published = owner.published
    BY <1>t, <1>4, Going, Zenon DEF Retire, finish_owner, Moved, PumpPcs
  <2>2. /\ flag' \in QueueFlags /\ flag'.owner_admission = flag.owner_admission
    BY <1>t, <1>4, Zenon DEF Retire, QueueFlags
  <2>3. complete' \in BOOLEAN
    BY <1>t, <1>4, Zenon DEF Retire, finish_owner, kernel_retired, TypeOK
  <2>4. AdmitInv' /\ PhaseInv' /\ ExitInv' /\ WakeInv'
    BY <1>1, <1>t, <1>2, <1>4, <2>1, <2>2, Zenon
    DEF AdmitInv, PhaseInv, ExitInv, WakeInv, TurnOver
  <2>5. NoDebt
    BY <1>4, Zenon DEF NoDebt, kernel_retired
  <2> QED
    BY <1>1, <1>t, <1>2, <1>3, <2>1, <2>2, <2>3, <2>4, <2>5, PumpStep, Zenon
<1>5. CASE ~ (flag.exit_requested /\ kernel_retired(raw, debt_known))
  <2>1. /\ owner' \in Pump /\ owner'.pc = "enter" /\ owner'.phase = owner.phase
        /\ owner'.published = owner.published /\ UNCHANGED <<complete, flag>>
    <3>1. owner' = [owner EXCEPT !.pc = "enter", !.consumed = 0, !.hints = 0]
          /\ UNCHANGED <<complete, flag>>
      BY <1>5, Zenon DEF Retire
    <3> QED
      BY <1>t, <3>1, Zenon DEF Pump, PumpPcs
  <2>2. AdmitInv' /\ PhaseInv' /\ ExitInv'
    BY <1>1, <1>t, <1>2, <1>5, <2>1, Zenon DEF AdmitInv, PhaseInv, ExitInv
  <2>3. WakeInv'
    BY <1>1, <1>3, <2>1, Zenon DEF WakeInv, TurnOver, local
  <2> QED
    BY <1>1, <1>t, <1>2, <1>3, <2>1, <2>2, <2>3, PumpStep, Zenon
<1> QED
  BY <1>4, <1>5, Zenon

-----------------------------------------------------------------------------
(* The owner: steps that touch commands and requests. *)

\* The engine's frames, tags and mailboxes stay, the events aside.
LEMMA SameEngine ==
    ASSUME IInv, UNCHANGED <<raw, honest, owner_pending, handler, mailbox, leaving>>,
           completion_pending' => completion_pending,
           \A t \in Tags : /\ tag'[t].busy = tag[t].busy
                           /\ tag'[t].started = tag[t].started
                           /\ tag'[t].generation = tag[t].generation
                           /\ tag'[t].active_generation = tag[t].active_generation
                           /\ tag'[t].handler_failed = tag[t].handler_failed,
           owner'.phase = "serve" => owner.phase = "serve"
    PROVE  /\ PendingInv' /\ EngineInv'
           /\ Untouched => Untouched'
           /\ NoDebt' = NoDebt /\ NoneLeaving' = NoneLeaving
           /\ \A t \in Tags : Dead(t)' = Dead(t)
<1>1. \A t \in Tags : /\ Waiting(t)' = Waiting(t) /\ Dead(t)' = Dead(t)
                      /\ Unanswered(t, raw)' = Unanswered(t, raw)
  BY Zenon DEF Waiting, Dead, Unanswered
<1>2. PendingInv'
  BY Zenon DEF IInv, PendingInv, Waiting, Unanswered
<1>3. ASSUME NEW t \in Tags
      PROVE  EngineOK(t)'
  <2>1. EngineOK(t)
    BY FrameTypes, Zenon
  <2> QED
    BY <1>1, <2>1, Zenon DEF EngineOK
<1>4. (Untouched => Untouched') /\ NoDebt' = NoDebt /\ NoneLeaving' = NoneLeaving
  BY Zenon DEF Untouched, NoDebt, NoneLeaving
<1> QED
  BY <1>1, <1>2, <1>3, <1>4, Zenon DEF EngineInv

LEMMA retry_signalStep ==
    ASSUME IInv, retry_signal
    PROVE  IInv'
<1>1. UNCHANGED <<raw, cmd, cqe, kernel, efd, local, flag, complete, mailbox,
                  foreign_pending, closed, handler, leaving, device>>
      /\ owner.pc = "retry signal"
  BY Zenon DEF retry_signal, OAt
<1>t. /\ TypeOK /\ owner \in Pump /\ flag \in QueueFlags /\ complete \in BOOLEAN
      /\ efd \in BOOLEAN /\ foreign_pending \in BOOLEAN
      /\ AdmitInv /\ PhaseInv /\ JoinInv /\ FreshInv /\ ExitInv /\ WakeInv
  BY PumpTypes, Zenon
<1>2. UNCHANGED <<owner_pending, debt_known, completion_pending, batching_closed, owes,
                  honest, stopped>>
  BY <1>1, Zenon DEF local, kernel
<1>3. /\ owner' \in Pump /\ owner'.pc = "pop" /\ owner'.phase = owner.phase
      /\ owner'.published = owner.published /\ owner'.more = owner.more
  <2>1. owner' = [owner EXCEPT !.pc = "pop", !.todo = {}]
    BY Zenon DEF retry_signal
  <2> QED
    BY <1>t, <2>1, Zenon DEF Pump, PumpPcs
<1>4. ASSUME NEW t \in Tags
      PROVE  /\ tag'[t] \in EngineTag
             /\ tag'[t].busy = tag[t].busy /\ tag'[t].started = tag[t].started
             /\ tag'[t].generation = tag[t].generation
             /\ tag'[t].active_generation = tag[t].active_generation
             /\ tag'[t].handler_failed = tag[t].handler_failed
  <2>1. tag'[t] = tag[t] \/ tag'[t] = [tag[t] EXCEPT !.ready = TRUE]
    BY Zenon DEF retry_signal
  <2> QED
    BY <2>1, FrameTypes, Zenon DEF EngineTag
<1>5. tag' \in [Tags -> EngineTag]
  <2>1. tag' = [t \in Tags |-> tag'[t]]
    BY Zenon DEF retry_signal
  <2> QED
    BY <1>4, <2>1, Zenon
<1>6. TypeOK'
  BY <1>1, <1>t, <1>2, <1>3, <1>5, Zenon DEF TypeOK
<1>7. /\ LedgerInv' /\ PendingInv' /\ EngineInv'
      /\ Untouched => Untouched'
      /\ NoDebt' = NoDebt
  BY <1>1, <1>2, <1>3, <1>4, SameRequests, SameEngine, Zenon
<1>8. AdmitInv' /\ PhaseInv' /\ ExitInv'
  BY <1>1, <1>t, <1>3, Zenon DEF AdmitInv, PhaseInv, ExitInv
<1>9. owner.phase = "serve" /\ ~ Joined'
  BY <1>1, <1>t, <1>3, Zenon DEF PhaseInv, Pump, Joined
<1>10. JoinInv' /\ FreshInv'
  BY <1>1, <1>2, <1>3, <1>7, <1>9, <1>t, Zenon DEF JoinInv, FreshInv
<1>11. WakeInv'
  <2>1. NoWork' = NoWork /\ NoPosted' = NoPosted
    BY <1>1, Zenon DEF NoWork, NoPosted
  <2> QED
    BY <1>1, <1>t, <1>2, <1>3, <2>1, Zenon DEF WakeInv, TurnOver
<1> QED
  BY <1>6, <1>7, <1>8, <1>10, <1>11, Zenon DEF IInv

LEMMA prepare_owner_fetchesStep ==
    ASSUME IInv, prepare_owner_fetches
    PROVE  IInv'
<1>1. UNCHANGED <<cqe, kernel, efd, local, flag, engine, device>> /\ owner.pc = "prepare"
  BY Zenon DEF prepare_owner_fetches, OAt
<1>t. /\ TypeOK /\ owner \in Pump /\ flag \in QueueFlags /\ complete \in BOOLEAN
      /\ efd \in BOOLEAN /\ foreign_pending \in BOOLEAN
      /\ AdmitInv /\ PhaseInv /\ JoinInv /\ FreshInv /\ ExitInv /\ WakeInv
  BY PumpTypes, Zenon
<1>2. UNCHANGED <<owner_pending, debt_known, completion_pending, batching_closed, owes,
                  honest, stopped, tag, mailbox, foreign_pending, closed, handler, leaving>>
  BY <1>1, Zenon DEF local, kernel, engine
<1>3. /\ owner' \in Pump /\ owner'.pc = "submit" /\ owner'.phase = owner.phase
      /\ owner'.published = owner.published
  BY <1>t, Going, Zenon DEF prepare_owner_fetches, Moved, PumpPcs
<1>4. ~ owner.published /\ owner.phase = "serve" /\ Untouched /\ NoDebt
  BY <1>1, <1>t, Zenon DEF FreshInv
<1>5. complete' \in BOOLEAN
  BY <1>t, Zenon DEF prepare_owner_fetches
<1>6. \/ UNCHANGED <<raw, cmd>>
      \/ /\ raw' = [t \in Tags |-> Prepared(raw[t], FALSE)]
         /\ cmd' = [t \in Tags |-> "prepared"]
  BY Zenon DEF prepare_owner_fetches
<1>7. /\ raw' \in [Tags -> RawSlot] /\ cmd' \in [Tags -> Places]
      /\ \A t \in Tags : LedgerOK(t, raw', cmd', cqe, owes, honest)
  <2>1. CASE UNCHANGED <<raw, cmd>>
    BY <1>t, <2>1, Zenon DEF IInv, LedgerInv, TypeOK
  <2>2. CASE /\ raw' = [t \in Tags |-> Prepared(raw[t], FALSE)]
             /\ cmd' = [t \in Tags |-> "prepared"]
    <3>1. ASSUME NEW t \in Tags
          PROVE  /\ raw'[t] \in RawSlot /\ LedgerOK(t, raw', cmd', cqe, owes, honest)
      <4>1. raw[t] \in RawSlot /\ LedgerOK(t, raw, cmd, cqe, owes, honest)
        BY FrameTypes, Zenon
      <4>2. t \notin owes
        BY <1>4, <4>1, Zenon DEF NoDebt, LedgerOK
      <4>3. raw'[t] = Prepared(raw[t], FALSE) /\ cmd'[t] = "prepared"
        BY <2>2, Zenon
      <4>4. /\ raw'[t] \in RawSlot /\ raw'[t].pending /\ ~ raw'[t].completing
            /\ ~ raw'[t].delivered /\ ~ raw'[t].reply_ready
        BY <4>1, <4>3, Zenon DEF Prepared, RawSlot
      <4> QED
        BY <4>2, <4>3, <4>4, Zenon DEF LedgerOK
    <3>2. raw' = [t \in Tags |-> raw'[t]]
      BY <2>2, Zenon
    <3> QED
      BY <2>2, <3>1, <3>2, Zenon DEF Places
  <2> QED
    BY <1>6, <2>1, <2>2, Zenon
<1>8. TypeOK'
  BY <1>1, <1>t, <1>2, <1>3, <1>5, <1>7, Zenon DEF TypeOK
<1>9. LedgerInv'
  BY <1>1, <1>2, <1>7, Zenon DEF LedgerInv
<1>10. PendingInv' /\ AdmitInv' /\ PhaseInv' /\ ExitInv' /\ WakeInv'
  <2>1. owner_pending' = <<>>
    BY <1>2, <1>4, Zenon DEF Untouched
  <2>2. PendingInv'
    BY <2>1 DEF PendingInv, Waiting
  <2> QED
    BY <1>1, <1>t, <1>3, <1>4, <2>2, Zenon
    DEF AdmitInv, PhaseInv, ExitInv, WakeInv, TurnOver
<1>11. EngineInv'
  <2> SUFFICES ASSUME NEW t \in Tags
               PROVE  EngineOK(t)'
    BY Zenon DEF EngineInv
  <2>1. EngineOK(t) /\ ~ tag[t].busy
    BY <1>4, FrameTypes, Zenon DEF Untouched
  <2> QED
    BY <1>2, <2>1, Zenon DEF EngineOK, Dead
<1>12. Untouched' = Untouched
  BY <1>2, Zenon DEF Untouched, NoneLeaving
<1>13. JoinInv' /\ FreshInv'
  BY <1>2, <1>3, <1>4, <1>12, <1>t, Zenon DEF JoinInv, FreshInv, Joined
<1> QED
  BY <1>8, <1>9, <1>10, <1>11, <1>13, Zenon DEF IInv

LEMMA submit_owner_fetchesStep ==
    ASSUME IInv, submit_owner_fetches
    PROVE  IInv'
<1>1. UNCHANGED <<raw, device>> /\ owner.pc = "submit"
  BY Zenon DEF submit_owner_fetches, OAt
<1>t. /\ TypeOK /\ owner \in Pump /\ flag \in QueueFlags /\ complete \in BOOLEAN
      /\ efd \in BOOLEAN /\ foreign_pending \in BOOLEAN
      /\ AdmitInv /\ PhaseInv /\ JoinInv /\ FreshInv /\ ExitInv /\ WakeInv
  BY PumpTypes, Zenon
<1>2. UNCHANGED <<owner_pending, debt_known, completion_pending, batching_closed, tag,
                  mailbox, foreign_pending, closed, handler, leaving>>
  BY Zenon DEF submit_owner_fetches, engine
<1>3. ~ owner.published /\ owner.phase = "serve" /\ Untouched
  BY <1>1, <1>t, Zenon DEF FreshInv
<1>4. /\ cmd' \in [Tags -> Places] /\ cqe' \in [Tags -> Results]
      /\ owes' \subseteq Tags /\ honest' = honest /\ stopped' = stopped
      /\ \A t \in Tags : LedgerOK(t, raw, cmd', cqe', owes', honest)
      /\ flag' \in QueueFlags /\ SameFlags(flag, flag') /\ efd' \in BOOLEAN
  <2>1. submit_owner(raw, cmd, FALSE)
    BY Zenon DEF submit_owner_fetches
  <2> QED
    BY <2>1, <1>t, Submitting, Zenon DEF IInv, LedgerInv, TypeOK
<1>5. complete' \in BOOLEAN /\ (complete' => NoDebt)
  BY <1>t, Zenon DEF submit_owner_fetches, kernel_retired, TypeOK, NoDebt
<1>6. PICK p \in BOOLEAN : /\ owner' = [owner EXCEPT !.pc = "loop", !.published = p]
                           /\ ~ p => complete'
  BY Zenon DEF submit_owner_fetches
<1>7. /\ owner' \in Pump /\ owner'.pc = "loop" /\ owner'.phase = owner.phase
      /\ ~ owner'.published => complete'
  BY <1>t, <1>6, Zenon DEF Pump, PumpPcs
<1>8. TypeOK'
  BY <1>1, <1>t, <1>2, <1>4, <1>5, <1>7, Zenon DEF TypeOK
<1>9. LedgerInv'
  BY <1>1, <1>4, Zenon DEF LedgerInv
<1>10. PendingInv' /\ EngineInv' /\ (Untouched => Untouched') /\ NoDebt' = NoDebt
  BY <1>1, <1>2, <1>4, <1>7, SameEngine, Zenon
<1>11. AdmitInv' /\ PhaseInv' /\ ExitInv' /\ WakeInv'
  BY <1>1, <1>t, <1>3, <1>4, <1>7, Zenon
  DEF AdmitInv, PhaseInv, ExitInv, WakeInv, TurnOver, SameFlags
<1>12. JoinInv' /\ FreshInv'
  BY <1>2, <1>3, <1>5, <1>7, <1>10, <1>t, Zenon DEF JoinInv, FreshInv, Joined
<1> QED
  BY <1>8, <1>9, <1>10, <1>11, <1>12, Zenon DEF IInv

\* The batched replies are submitted, if there are any.
LEMMA Flushing ==
    ASSUME IInv,
           IF completion_pending THEN submit_owner(raw, cmd, FALSE)
           ELSE UNCHANGED <<cmd, cqe, kernel, efd, flag, budget>>
    PROVE  /\ cmd' \in [Tags -> Places] /\ cqe' \in [Tags -> Results]
           /\ owes' \subseteq Tags /\ honest' = honest /\ stopped' = stopped
           /\ \A t \in Tags : LedgerOK(t, raw, cmd', cqe', owes', honest)
           /\ flag' \in QueueFlags /\ SameFlags(flag, flag') /\ efd' \in BOOLEAN
<1>1. CASE submit_owner(raw, cmd, FALSE)
  BY <1>1, Submitting, Zenon DEF IInv, LedgerInv, TypeOK
<1>2. CASE UNCHANGED <<cmd, cqe, kernel, efd, flag, budget>>
  BY <1>2, Zenon DEF kernel, IInv, LedgerInv, TypeOK, SameFlags
<1> QED
  BY <1>1, <1>2, Zenon

LEMMA FlushStep ==
    ASSUME IInv, Flush
    PROVE  IInv'
<1>1. /\ UNCHANGED <<raw, owner_pending, debt_known, batching_closed, complete, tag, mailbox,
                     foreign_pending, closed, handler, leaving, device>>
      /\ owner.pc = "flush" /\ completion_pending' = FALSE
  BY Zenon DEF Flush, OAt, engine
<1>t. /\ TypeOK /\ owner \in Pump /\ flag \in QueueFlags /\ complete \in BOOLEAN
      /\ efd \in BOOLEAN /\ foreign_pending \in BOOLEAN
      /\ AdmitInv /\ PhaseInv /\ JoinInv /\ FreshInv /\ ExitInv /\ WakeInv
  BY PumpTypes, Zenon
<1>2. /\ cmd' \in [Tags -> Places] /\ cqe' \in [Tags -> Results]
      /\ owes' \subseteq Tags /\ honest' = honest /\ stopped' = stopped
      /\ \A t \in Tags : LedgerOK(t, raw, cmd', cqe', owes', honest)
      /\ flag' \in QueueFlags /\ SameFlags(flag, flag') /\ efd' \in BOOLEAN
  BY Flushing, Zenon DEF Flush
<1>3. /\ owner' \in Pump /\ owner'.pc = "enter" /\ owner'.phase = owner.phase
      /\ owner'.published = owner.published
  <2>1. owner' = [owner EXCEPT !.pc = "enter", !.consumed = 0, !.hints = 0]
    BY Zenon DEF Flush
  <2> QED
    BY <1>t, <2>1, Zenon DEF Pump, PumpPcs
<1>4. owner.phase = "serve" /\ flag.owner_wakeup_on_elio
  BY <1>1, <1>t, Zenon DEF PhaseInv, Pump
<1>5. TypeOK'
  BY <1>1, <1>t, <1>2, <1>3, Zenon DEF TypeOK
<1>6. LedgerInv'
  BY <1>1, <1>2, Zenon DEF LedgerInv
<1>7. PendingInv' /\ EngineInv' /\ (Untouched => Untouched') /\ NoDebt' = NoDebt
  BY <1>1, <1>2, <1>3, SameEngine, Zenon
<1>8. AdmitInv' /\ PhaseInv' /\ ExitInv' /\ WakeInv'
  BY <1>1, <1>t, <1>2, <1>3, <1>4, Zenon
  DEF AdmitInv, PhaseInv, ExitInv, WakeInv, TurnOver, SameFlags
<1>9. JoinInv' /\ FreshInv'
  BY <1>1, <1>3, <1>4, <1>7, <1>t, Zenon DEF JoinInv, FreshInv, Joined
<1> QED
  BY <1>5, <1>6, <1>7, <1>8, <1>9, Zenon DEF IInv

LEMMA CloseAdmissionStep ==
    ASSUME IInv, CloseAdmission
    PROVE  IInv'
<1>1. /\ UNCHANGED <<raw, owner_pending, debt_known, complete, mailbox, foreign_pending,
                     handler, leaving, device>>
      /\ owner.pc = "close" /\ completion_pending' = FALSE /\ batching_closed' = TRUE
      /\ closed' = TRUE
  BY Zenon DEF CloseAdmission, OAt
<1>t. /\ TypeOK /\ owner \in Pump /\ flag \in QueueFlags /\ complete \in BOOLEAN
      /\ efd \in BOOLEAN /\ foreign_pending \in BOOLEAN
      /\ AdmitInv /\ PhaseInv /\ JoinInv /\ FreshInv /\ ExitInv /\ WakeInv
  BY PumpTypes, Zenon
<1>2. /\ cmd' \in [Tags -> Places] /\ cqe' \in [Tags -> Results]
      /\ owes' \subseteq Tags /\ honest' = honest /\ stopped' = stopped
      /\ \A t \in Tags : LedgerOK(t, raw, cmd', cqe', owes', honest)
      /\ flag' \in QueueFlags /\ SameFlags(flag, flag') /\ efd' \in BOOLEAN
  BY Flushing, Zenon DEF CloseAdmission
<1>3. /\ owner' \in Pump /\ owner'.pc = "join" /\ owner'.phase = owner.phase
      /\ owner'.published = owner.published
  BY <1>t, Going, Zenon DEF CloseAdmission, Moved, PumpPcs
<1>4. owner.phase = "serve" /\ flag.owner_wakeup_on_elio
  BY <1>1, <1>t, Zenon DEF PhaseInv, Pump
<1>5. ASSUME NEW t \in Tags
      PROVE  /\ tag'[t] \in EngineTag
             /\ tag'[t].busy = tag[t].busy /\ tag'[t].started = tag[t].started
             /\ tag'[t].generation = tag[t].generation
             /\ tag'[t].active_generation = tag[t].active_generation
             /\ tag'[t].handler_failed = tag[t].handler_failed
  <2>1. PICK b \in BOOLEAN : tag'[t] = [tag[t] EXCEPT !.ready = b]
    BY FrameTypes, Zenon DEF CloseAdmission, EngineTag
  <2> QED
    BY <2>1, FrameTypes, Zenon DEF EngineTag
<1>6. tag' \in [Tags -> EngineTag]
  <2>1. tag' = [t \in Tags |-> tag'[t]]
    BY Zenon DEF CloseAdmission
  <2> QED
    BY <1>5, <2>1, Zenon
<1>7. TypeOK'
  BY <1>1, <1>t, <1>2, <1>3, <1>6, Zenon DEF TypeOK
<1>8. LedgerInv'
  BY <1>1, <1>2, Zenon DEF LedgerInv
<1>9. PendingInv' /\ EngineInv' /\ (Untouched => Untouched') /\ NoDebt' = NoDebt
  BY <1>1, <1>2, <1>3, <1>5, SameEngine, Zenon
<1>10. AdmitInv' /\ PhaseInv' /\ ExitInv' /\ WakeInv'
  BY <1>1, <1>t, <1>2, <1>3, <1>4, Zenon
  DEF AdmitInv, PhaseInv, ExitInv, WakeInv, TurnOver, SameFlags
<1>11. JoinInv' /\ FreshInv'
  BY <1>1, <1>3, <1>4, <1>9, <1>t, Zenon DEF JoinInv, FreshInv, Joined
<1> QED
  BY <1>7, <1>8, <1>9, <1>10, <1>11, Zenon DEF IInv

LEMMA EnterStep ==
    ASSUME IInv, Enter
    PROVE  IInv'
<1>1. UNCHANGED <<raw, cqe, kernel, local, complete, engine, device>> /\ owner.pc = "enter"
  BY Zenon DEF Enter, OAt
<1>t. /\ TypeOK /\ owner \in Pump /\ flag \in QueueFlags /\ complete \in BOOLEAN
      /\ efd \in BOOLEAN /\ foreign_pending \in BOOLEAN
      /\ AdmitInv /\ PhaseInv /\ JoinInv /\ FreshInv /\ ExitInv /\ WakeInv
  BY PumpTypes, Zenon
<1>2. UNCHANGED <<owner_pending, debt_known, completion_pending, batching_closed, owes,
                  honest, stopped, tag, mailbox, foreign_pending, closed, handler, leaving>>
  BY <1>1, Zenon DEF local, kernel, engine
<1>3. /\ owner' \in Pump /\ owner'.phase = owner.phase
      /\ owner'.published = owner.published /\ owner'.next = owner.next
      /\ cmd' \in [Tags -> Places] /\ efd' \in BOOLEAN
      /\ flag' \in QueueFlags /\ SameFlags(flag, flag')
      /\ \A t \in Tags : LedgerOK(t, raw, cmd', cqe, owes, honest)
      /\ \/ owner'.pc = "drain" /\ NoWork'
         \/ owner'.pc = "pop" /\ owner.phase = "serve" /\ efd'
         \/ owner'.pc = "maintain" /\ owner.phase = "retire" /\ efd'
  <2>1. CASE /\ cmd' = [t \in Tags |-> IF cmd[t] = "work" THEN "cq" ELSE cmd[t]]
             /\ efd' \in {efd} \cup (IF cmd' = cmd THEN {} ELSE {TRUE})
             /\ OGoto("drain")
             /\ UNCHANGED <<flag, budget>>
    <3>1. cmd' \in [Tags -> Places] /\ NoWork' /\ efd' \in BOOLEAN
      BY <1>t, <2>1, Zenon DEF TypeOK, Places, NoWork
    <3>2. ASSUME NEW t \in Tags
          PROVE  LedgerOK(t, raw, cmd', cqe, owes, honest)
      <4>1. /\ cmd'[t] = IF cmd[t] = "work" THEN "cq" ELSE cmd[t]
            /\ LedgerOK(t, raw, cmd, cqe, owes, honest)
        BY <2>1, FrameTypes, Zenon
      <4> QED
        BY <4>1, Zenon DEF LedgerOK
    <3> QED
      BY <1>t, <2>1, <3>1, <3>2, Going, Zenon DEF Moved, PumpPcs, SameFlags
  <2>2. CASE Fault("read") /\ fail /\ TurnEnds(FALSE) /\ UNCHANGED cmd
    <3>1. flag.owner_wakeup_on_elio
      BY <1>1, <1>t, Zenon DEF PhaseInv
    <3> QED
      BY <1>t, <2>2, <3>1, Failing, TurnEnding, Zenon DEF IInv, LedgerInv, TypeOK
  <2> QED
    BY <2>1, <2>2, Zenon DEF Enter
<1>4. TypeOK'
  BY <1>1, <1>t, <1>2, <1>3, Zenon DEF TypeOK
<1>5. LedgerInv'
  BY <1>1, <1>2, <1>3, Zenon DEF LedgerInv
<1>6. PendingInv' /\ EngineInv' /\ (Untouched => Untouched') /\ NoDebt' = NoDebt
      /\ NoneLeaving' = NoneLeaving /\ \A t \in Tags : Dead(t)' = Dead(t)
  BY <1>1, <1>2, <1>3, SameEngine, Zenon
<1>7. AdmitInv' /\ PhaseInv' /\ ExitInv'
  BY <1>1, <1>t, <1>2, <1>3, Zenon DEF AdmitInv, PhaseInv, ExitInv, SameFlags
<1>8. JoinInv' /\ FreshInv'
  <2>1. Joined' <=> Joined
    BY <1>1, <1>3, Zenon DEF Joined
  <2>2. JoinInv'
    BY <1>1, <1>t, <1>2, <1>3, <1>6, <2>1, Zenon DEF JoinInv
  <2> QED
    BY <1>1, <1>t, <1>3, <1>6, <2>2, Zenon DEF FreshInv
<1>9. WakeInv'
  BY <1>1, <1>t, <1>2, <1>3, Zenon DEF WakeInv, TurnOver
<1> QED
  BY <1>4, <1>5, <1>6, <1>7, <1>8, <1>9, Zenon DEF IInv

LEMMA dispatch_cqeStep ==
    ASSUME IInv, NEW t \in Tags, dispatch_cqe(t)
    PROVE  IInv'
<1>1. /\ UNCHANGED <<kernel, completion_pending, batching_closed, complete, engine, device>>
      /\ owner.pc = "drain" /\ cmd[t] = "cq"
      /\ cmd' = [cmd EXCEPT ![t] = "none"] /\ cqe' = [cqe EXCEPT ![t] = "none"]
  BY Zenon DEF dispatch_cqe, OAt, Posted
<1>t. /\ TypeOK /\ owner \in Pump /\ flag \in QueueFlags /\ complete \in BOOLEAN
      /\ efd \in BOOLEAN /\ foreign_pending \in BOOLEAN
      /\ AdmitInv /\ PhaseInv /\ JoinInv /\ FreshInv /\ ExitInv /\ WakeInv
  BY PumpTypes, Zenon
<1>2. UNCHANGED <<owes, honest, stopped, tag, mailbox, foreign_pending, closed, handler,
                  leaving>>
  BY <1>1, Zenon DEF kernel, engine
<1>3. /\ EngineOK(t) /\ LedgerOK(t, raw, cmd, cqe, owes, honest)
      /\ raw \in [Tags -> RawSlot] /\ raw[t] \in RawSlot
      /\ raw[t].pending /\ ~ raw[t].reply_ready /\ ~ Waiting(t)
  BY <1>1, FrameTypes, Zenon DEF LedgerOK, IInv, PendingInv, Unanswered
<1>4. /\ cmd' \in [Tags -> Places] /\ cqe' \in [Tags -> Results] /\ cmd'[t] = "none"
      /\ \A u \in Tags \ {t} : cmd'[u] = cmd[u] /\ cqe'[u] = cqe[u]
  BY <1>1, <1>t, Zenon DEF TypeOK, Places, Results
<1>5. /\ owner' \in Pump /\ owner'.pc = "drain" /\ owner'.phase = owner.phase
      /\ owner'.published = owner.published /\ owner'.next = owner.next
  <2>1. PICK n \in Nat : n = owner.consumed + 1
    BY <1>t DEF Pump
  <2>2. owner' = [owner EXCEPT !.consumed = n]
    BY <2>1, Zenon DEF dispatch_cqe
  <2> QED
    BY <1>1, <1>t, <2>2, Zenon DEF Pump
<1>6. PICK slot : slot = [raw[t] EXCEPT !.pending = FALSE, !.completing = FALSE]
  BY Zenon
<1>7. /\ slot \in RawSlot /\ ~ slot.pending /\ ~ slot.completing
      /\ slot.reply_ready = raw[t].reply_ready /\ slot.delivered = raw[t].delivered
  BY <1>3, <1>6, Zenon DEF RawSlot
<1>8. PICK lost \in BOOLEAN : lost = (raw[t].completing /\ cqe[t] # "ENODEV")
  BY Zenon
<1>9. \/ /\ cqe[t] # "ok"
         /\ raw' = [raw EXCEPT ![t] = [slot EXCEPT !.delivered = lost]]
         /\ debt_known' = (debt_known /\ ~ lost)
         /\ IF cqe[t] = "EIO" THEN fail ELSE UNCHANGED <<flag, efd>>
         /\ UNCHANGED owner_pending
      \/ /\ cqe[t] = "ok" /\ UNCHANGED <<debt_known, flag, efd>>
         /\ raw' = [raw EXCEPT ![t] = [slot EXCEPT !.delivered = TRUE,
                                         !.reply_ready = TRUE, !.ok = FALSE]]
         /\ UNCHANGED owner_pending
      \/ /\ cqe[t] = "ok" /\ UNCHANGED <<debt_known, flag, efd>>
         /\ raw' = [raw EXCEPT ![t] = [slot EXCEPT !.delivered = TRUE]]
         /\ owner_pending' = Append(owner_pending, t)
  BY <1>6, <1>8, Zenon DEF dispatch_cqe
<1>10. /\ flag' \in QueueFlags /\ SameFlags(flag, flag') /\ efd' \in BOOLEAN
       /\ debt_known' \in BOOLEAN /\ (efd => efd')
  <2>1. CASE fail /\ debt_known' = (debt_known /\ ~ lost)
    BY <1>t, <2>1, Failing, Zenon DEF TypeOK
  <2>2. CASE UNCHANGED <<flag, efd>>
    BY <1>9, <1>t, <2>2, Zenon DEF TypeOK, SameFlags
  <2> QED
    BY <1>9, <2>1, <2>2, Zenon
<1>11. PICK s : raw' = [raw EXCEPT ![t] = s]
  BY <1>9, Zenon
<1>12. raw'[t] = s /\ \A u \in Tags \ {t} : raw'[u] = raw[u]
  BY <1>3, <1>11, Zenon
<1>13. /\ s \in RawSlot /\ LedgerOK(t, raw', cmd', cqe', owes, honest)
       /\ owner_pending' = Append(owner_pending, t) => Unanswered(t, raw')
  <2>1. CASE cqe[t] # "ok" /\ raw' = [raw EXCEPT ![t] = [slot EXCEPT !.delivered = lost]]
             /\ UNCHANGED owner_pending
    <3>1. s = [slot EXCEPT !.delivered = lost]
      BY <1>3, <1>12, <2>1, Zenon
    <3>2. s \in RawSlot /\ ~ s.pending /\ ~ s.reply_ready /\ s.delivered = lost
      BY <1>3, <1>7, <3>1, Zenon DEF RawSlot
    <3>3. lost <=> t \in owes
      <4>1. cqe[t] \in Results
        BY <1>t, Zenon DEF TypeOK
      <4> QED
        BY <1>1, <1>3, <1>8, <2>1, <4>1, Zenon DEF LedgerOK, Results
    <3>4. LedgerOK(t, raw', cmd', cqe', owes, honest)
      BY <1>4, <1>12, <3>2, <3>3, Zenon DEF LedgerOK
    <3>5. owner_pending' # Append(owner_pending, t)
      <4>1. owner_pending \in Seq(Tags)
        BY <1>t, Zenon DEF TypeOK
      <4>2. Len(Append(owner_pending, t)) = Len(owner_pending) + 1
        BY <4>1
      <4> QED
        BY <2>1, <4>1, <4>2
    <3> QED
      BY <3>2, <3>4, <3>5, Zenon
  <2>2. CASE cqe[t] = "ok"
             /\ raw' = [raw EXCEPT ![t] = [slot EXCEPT !.delivered = TRUE,
                                             !.reply_ready = TRUE, !.ok = FALSE]]
             /\ UNCHANGED owner_pending
    <3>1. s = [slot EXCEPT !.delivered = TRUE, !.reply_ready = TRUE, !.ok = FALSE]
      BY <1>3, <1>12, <2>2, Zenon
    <3>2. s \in RawSlot /\ ~ s.pending /\ s.reply_ready /\ s.delivered /\ ~ s.ok
      BY <1>7, <3>1, Zenon DEF RawSlot
    <3>3. t \in owes
      BY <1>1, <1>3, <2>2, Zenon DEF LedgerOK
    <3>4. LedgerOK(t, raw', cmd', cqe', owes, honest)
      BY <1>4, <1>12, <3>2, <3>3, Zenon DEF LedgerOK
    <3>5. owner_pending' # Append(owner_pending, t)
      <4>1. owner_pending \in Seq(Tags)
        BY <1>t, Zenon DEF TypeOK
      <4>2. Len(Append(owner_pending, t)) = Len(owner_pending) + 1
        BY <4>1
      <4> QED
        BY <2>2, <4>1, <4>2
    <3> QED
      BY <3>2, <3>4, <3>5, Zenon
  <2>3. CASE cqe[t] = "ok" /\ raw' = [raw EXCEPT ![t] = [slot EXCEPT !.delivered = TRUE]]
             /\ owner_pending' = Append(owner_pending, t)
    <3>1. s = [slot EXCEPT !.delivered = TRUE]
      BY <1>3, <1>12, <2>3, Zenon
    <3>2. s \in RawSlot /\ ~ s.pending /\ ~ s.reply_ready /\ s.delivered
      BY <1>3, <1>7, <3>1, Zenon DEF RawSlot
    <3>3. t \in owes
      BY <1>1, <1>3, <2>3, Zenon DEF LedgerOK
    <3>4. LedgerOK(t, raw', cmd', cqe', owes, honest)
      BY <1>4, <1>12, <3>2, <3>3, Zenon DEF LedgerOK
    <3> QED
      BY <1>12, <3>2, <3>4, Zenon DEF Unanswered
  <2> QED
    BY <1>9, <2>1, <2>2, <2>3, Zenon
<1>14. raw' \in [Tags -> RawSlot]
  BY <1>3, <1>11, <1>13, Zenon
<1>15. /\ owner_pending' \in Seq(Tags)
       /\ \A u \in Tags \ {t} : Waiting(u)' => Waiting(u)
       /\ Waiting(t)' => Unanswered(t, raw')
       /\ \A i, j \in DOMAIN owner_pending' :
             owner_pending'[i] = owner_pending'[j] => i = j
  <2>0. owner_pending \in Seq(Tags)
        /\ \A i, j \in DOMAIN owner_pending : owner_pending[i] = owner_pending[j] => i = j
    BY <1>t, Zenon DEF TypeOK, IInv, PendingInv
  <2>1. CASE UNCHANGED owner_pending
    BY <1>3, <2>0, <2>1, Zenon DEF Waiting
  <2>2. CASE owner_pending' = Append(owner_pending, t)
    <3>1. /\ Append(owner_pending, t) \in Seq(Tags)
          /\ Len(Append(owner_pending, t)) = Len(owner_pending) + 1
          /\ \A i \in 1..Len(owner_pending) : Append(owner_pending, t)[i] = owner_pending[i]
          /\ Append(owner_pending, t)[Len(owner_pending) + 1] = t
      BY <2>0
    <3>2. /\ DOMAIN owner_pending = 1..Len(owner_pending) /\ Len(owner_pending) \in Nat
          /\ DOMAIN owner_pending' = 1..(Len(owner_pending) + 1)
      BY <2>0, <2>2, <3>1
    <3>3. \A i \in 1..Len(owner_pending) : owner_pending[i] # t
      BY <1>3, <3>2, Zenon DEF Waiting
    <3>4. \A i, j \in DOMAIN owner_pending' : owner_pending'[i] = owner_pending'[j] => i = j
      BY <2>0, <2>2, <3>1, <3>2, <3>3
    <3>5. \A u \in Tags \ {t} : Waiting(u)' => Waiting(u)
      BY <2>2, <3>1, <3>2 DEF Waiting
    <3> QED
      BY <1>13, <2>2, <3>1, <3>4, <3>5, Zenon
  <2> QED
    BY <1>9, <2>1, <2>2, Zenon
<1>16. TypeOK'
  BY <1>1, <1>t, <1>2, <1>4, <1>5, <1>10, <1>14, <1>15, Zenon DEF TypeOK
<1>17. LedgerInv'
  <2>1. ASSUME NEW u \in Tags \ {t}
        PROVE  LedgerOK(u, raw', cmd', cqe', owes, honest)
    <3>1. LedgerOK(u, raw, cmd, cqe, owes, honest)
      BY FrameTypes, Zenon
    <3>2. raw'[u] = raw[u] /\ cmd'[u] = cmd[u] /\ cqe'[u] = cqe[u]
      BY <1>4, <1>12, Zenon
    <3> QED
      BY <3>1, <3>2, Zenon DEF LedgerOK
  <2> QED
    BY <1>2, <1>13, <2>1, Zenon DEF LedgerInv
<1>18. PendingInv'
  <2>1. ASSUME NEW u \in Tags, Waiting(u)'
        PROVE  Unanswered(u, raw')
    <3>1. CASE u = t
      BY <1>15, <2>1, <3>1, Zenon
    <3>2. CASE u # t
      BY <1>12, <1>15, <2>1, <3>2, Zenon DEF IInv, PendingInv, Unanswered
    <3> QED
      BY <3>1, <3>2, Zenon
  <2> QED
    BY <1>15, <2>1, Zenon DEF PendingInv
<1>19. EngineInv'
  <2>1. ASSUME NEW u \in Tags \ {t}
        PROVE  EngineOK(u)'
    BY <1>2, <1>5, <1>12, <1>15, SameTag, Zenon
  <2>2. EngineOK(t)'
    <3>1. ~ (owner.phase = "serve" /\ tag[t].busy)
      BY <1>3, Zenon DEF EngineOK, Unanswered
    <3> QED
      BY <1>2, <1>3, <1>5, <3>1, Zenon DEF EngineOK, Dead
  <2> QED
    BY <2>1, <2>2, Zenon DEF EngineInv
<1>20. owner.published
  BY <1>1, <1>3, <1>t, Zenon DEF FreshInv, NoDebt
<1>21. AdmitInv' /\ PhaseInv' /\ ExitInv'
  BY <1>1, <1>t, <1>5, <1>10, Zenon DEF AdmitInv, PhaseInv, ExitInv, SameFlags
<1>22. JoinInv' /\ FreshInv'
  <2>1. Joined' = Joined /\ NoneLeaving' = NoneLeaving /\ \A u \in Tags : Dead(u)' = Dead(u)
    BY <1>1, <1>2, <1>5, Zenon DEF Joined, NoneLeaving, Dead
  <2> QED
    BY <1>1, <1>t, <1>5, <1>20, <2>1, Zenon DEF JoinInv, FreshInv
<1>23. WakeInv'
  <2>1. NoWork => NoWork'
    BY <1>4, Zenon DEF NoWork
  <2> QED
    BY <1>1, <1>t, <1>5, <1>10, <2>1, Zenon DEF WakeInv, TurnOver
<1> QED
  BY <1>16, <1>17, <1>18, <1>19, <1>21, <1>22, <1>23, Zenon DEF IInv

LEMMA admitStep ==
    ASSUME IInv, admit
    PROVE  IInv'
<1>1. /\ UNCHANGED <<raw, cmd, cqe, kernel, debt_known, completion_pending, batching_closed,
                     complete, foreign_pending, closed, leaving, device>>
      /\ owner.pc = "admit" /\ owner_pending' = Tail(owner_pending)
  BY Zenon DEF admit, OAt
<1>t. /\ TypeOK /\ owner \in Pump /\ flag \in QueueFlags /\ complete \in BOOLEAN
      /\ efd \in BOOLEAN /\ foreign_pending \in BOOLEAN
      /\ AdmitInv /\ PhaseInv /\ JoinInv /\ FreshInv /\ ExitInv /\ WakeInv
  BY PumpTypes, Zenon
<1>2. UNCHANGED <<owes, honest, stopped>>
  BY <1>1, Zenon DEF kernel
<1>3. owner_pending \in Seq(Tags) /\ owner_pending # <<>>
  BY <1>1, <1>t, Zenon DEF AdmitInv, TypeOK
<1>4. PICK t : t = Head(owner_pending)
  BY Zenon
<1>5. /\ t \in Tags /\ Waiting(t) /\ owner_pending' \in Seq(Tags)
      /\ \A u \in Tags : Waiting(u)' => Waiting(u) /\ u # t
      /\ \A i, j \in DOMAIN owner_pending' :
             owner_pending'[i] = owner_pending'[j] => i = j
  <2>1. \A i, j \in DOMAIN owner_pending : owner_pending[i] = owner_pending[j] => i = j
    BY Zenon DEF IInv, PendingInv
  <2>2. /\ DOMAIN owner_pending = 1..Len(owner_pending) /\ Len(owner_pending) \in Nat \ {0}
    BY <1>3
  <2>3. t = owner_pending[1] /\ t \in Tags
    BY <1>3, <1>4, <2>2
  <2>4. /\ Tail(owner_pending) \in Seq(Tags)
        /\ Len(Tail(owner_pending)) = Len(owner_pending) - 1
        /\ \A i \in 1..(Len(owner_pending) - 1) :
              Tail(owner_pending)[i] = owner_pending[i + 1]
    BY <1>3
  <2>5. DOMAIN owner_pending' = 1..(Len(owner_pending) - 1)
    BY <1>1, <2>4
  <2>6. Waiting(t)
    BY <2>2, <2>3 DEF Waiting
  <2>7. ASSUME NEW u \in Tags, NEW i \in DOMAIN owner_pending', owner_pending'[i] = u
        PROVE  Waiting(u) /\ u # t
    <3>1. i \in 1..(Len(owner_pending) - 1) /\ i + 1 \in DOMAIN owner_pending
          /\ i + 1 # 1 /\ 1 \in DOMAIN owner_pending
      BY <2>2, <2>5
    <3>2. owner_pending[i + 1] = u
      BY <1>1, <2>4, <2>7, <3>1, Zenon
    <3> QED
      BY <2>1, <2>3, <3>1, <3>2, Zenon DEF Waiting
  <2>8. ASSUME NEW i \in DOMAIN owner_pending', NEW j \in DOMAIN owner_pending',
               owner_pending'[i] = owner_pending'[j]
        PROVE  i = j
    <3>1. /\ i \in 1..(Len(owner_pending) - 1) /\ i + 1 \in DOMAIN owner_pending
          /\ j \in 1..(Len(owner_pending) - 1) /\ j + 1 \in DOMAIN owner_pending
      BY <2>2, <2>5
    <3>2. owner_pending[i + 1] = owner_pending[j + 1]
      BY <1>1, <2>4, <2>8, <3>1, Zenon
    <3>3. i + 1 = j + 1
      BY <2>1, <3>1, <3>2, Zenon
    <3> QED
      BY <3>1, <3>3
  <2> QED
    BY <1>1, <2>3, <2>4, <2>6, <2>7, <2>8, Zenon DEF Waiting
<1>6. /\ EngineOK(t) /\ Unanswered(t, raw) /\ owner.phase = "serve" /\ owner.published
      /\ handler \in [Tags -> Frame] /\ handler[t] \in Frame
      /\ tag \in [Tags -> EngineTag] /\ tag[t] \in EngineTag
      /\ mailbox \in [Tags -> MailSlot] /\ mailbox[t] \in MailSlot
      /\ flag.owner_wakeup_on_elio
  <2>1. EngineOK(t) /\ Unanswered(t, raw)
    BY <1>5, FrameTypes, Zenon DEF IInv, PendingInv
  <2>2. owner.phase = "serve" /\ flag.owner_wakeup_on_elio
    BY <1>1, <1>t, Zenon DEF PhaseInv, Pump
  <2>3. owner.published
    BY <1>3, <1>t, Zenon DEF FreshInv, Untouched
  <2> QED
    BY <1>5, <2>1, <2>2, <2>3, FrameTypes, Zenon
<1>7. PendingInv'
  BY <1>1, <1>5, Zenon DEF IInv, PendingInv, Unanswered
<1>8. LedgerInv'
  BY <1>1, <1>2, Zenon DEF IInv, LedgerInv, LedgerOK
<1>9. /\ owner' \in Pump /\ owner'.pc \in {"loop", "pop", "retry signal"}
      /\ owner'.phase = owner.phase /\ owner'.published = owner.published
      /\ owner'.more = owner.more
      /\ flag' \in QueueFlags /\ SameFlags(flag, flag') /\ efd' \in BOOLEAN /\ (efd => efd')
      /\ tag' \in [Tags -> EngineTag] /\ mailbox' \in [Tags -> MailSlot]
      /\ handler' \in [Tags -> Frame]
      /\ \A u \in Tags \ {t} : /\ tag'[u] = tag[u] /\ mailbox'[u] = mailbox[u]
                               /\ handler'[u] = handler[u]
      /\ EngineOK(t)'
  <2>1. CASE tag[t].busy \/ mailbox[t].st # "empty"
    <3>1. fail /\ OGoto("loop") /\ UNCHANGED <<tag, mailbox, handler>>
      BY <1>4, <2>1, Zenon DEF admit
    <3>2. Moved("loop")
      BY <1>t, <3>1, Going, Zenon DEF PumpPcs
    <3>3. EngineOK(t)'
      BY <1>1, <1>2, <1>5, <1>6, <3>1, <3>2, SameTag, Zenon DEF Moved
    <3> QED
      BY <1>t, <1>6, <3>1, <3>2, <3>3, Failing, Zenon DEF Moved
  <2>2. CASE ~ tag[t].busy /\ mailbox[t].st = "empty"
    <3>1. PICK g \in Nat : g = tag[t].generation + 1 /\ g # 0
      BY <1>6 DEF EngineTag
    <3>2. /\ mailbox' = [mailbox EXCEPT ![t] = [gen |-> g, st |-> "armed"]]
          /\ UNCHANGED <<flag, efd>>
          /\ \E signaled \in BOOLEAN, rejected \in BOOLEAN :
               /\ tag' = [tag EXCEPT ![t] = [@ EXCEPT !.busy = TRUE, !.started = TRUE,
                            !.generation = g, !.active_generation = g,
                            !.ready = tag[t].ready \/ signaled]]
               /\ handler' = IF tag[t].started THEN handler
                             ELSE [handler EXCEPT ![t].pc = IF rejected
                                    THEN "failing" ELSE "begin"]
               /\ owner' = [owner EXCEPT !.pc = IF signaled THEN "pop"
                                                ELSE "retry signal",
                                         !.todo = IF signaled THEN {} ELSE {t}]
      <4>1. ~ (tag[t].busy \/ mailbox[t].st # "empty")
        BY <2>2, Zenon
      <4> QED
        BY <1>4, <3>1, <4>1, Zenon DEF admit
    <3>3. PICK signaled \in BOOLEAN, rejected \in BOOLEAN :
            /\ tag' = [tag EXCEPT ![t] = [@ EXCEPT !.busy = TRUE, !.started = TRUE,
                         !.generation = g, !.active_generation = g,
                         !.ready = tag[t].ready \/ signaled]]
            /\ handler' = IF tag[t].started THEN handler
                          ELSE [handler EXCEPT ![t].pc = IF rejected
                                 THEN "failing" ELSE "begin"]
            /\ owner' = [owner EXCEPT !.pc = IF signaled THEN "pop"
                                             ELSE "retry signal",
                                      !.todo = IF signaled THEN {} ELSE {t}]
      BY <3>2, Zenon
    <3>4. PICK pc \in {"pop", "retry signal"}, todo \in SUBSET Tags :
            owner' = [owner EXCEPT !.pc = pc, !.todo = todo]
      BY <1>5, <3>3, Zenon
    <3>5. /\ owner' \in Pump /\ owner'.pc \in {"loop", "pop", "retry signal"}
          /\ owner'.phase = owner.phase /\ owner'.published = owner.published
          /\ owner'.more = owner.more
      BY <1>t, <3>4, Zenon DEF Pump, PumpPcs
    <3>6. PICK b \in BOOLEAN : b = (tag[t].ready \/ signaled)
      BY Zenon
    <3>7. PICK e : e = [tag[t] EXCEPT !.busy = TRUE, !.started = TRUE, !.generation = g,
                          !.active_generation = g, !.ready = b]
      BY Zenon
    <3>8. /\ e \in EngineTag /\ e.busy /\ e.started /\ e.generation = g
          /\ e.active_generation = g /\ e.handler_failed = tag[t].handler_failed
      BY <1>6, <3>1, <3>7, Zenon DEF EngineTag
    <3>9. /\ tag' \in [Tags -> EngineTag] /\ tag'[t] = e
          /\ \A u \in Tags \ {t} : tag'[u] = tag[u]
      <4>1. tag' = [tag EXCEPT ![t] = e]
        BY <3>3, <3>6, <3>7, Zenon
      <4> QED
        BY <1>5, <1>6, <3>8, <4>1, Zenon
    <3>10. /\ mailbox' \in [Tags -> MailSlot]
           /\ mailbox'[t].gen = g /\ mailbox'[t].st = "armed"
           /\ \A u \in Tags \ {t} : mailbox'[u] = mailbox[u]
      <4>1. [gen |-> g, st |-> "armed"] \in MailSlot
        BY Zenon DEF MailSlot
      <4> QED
        BY <1>5, <1>6, <3>2, <4>1, Zenon
    <3>11. /\ handler' \in [Tags -> Frame]
           /\ \A u \in Tags \ {t} : handler'[u] = handler[u]
           /\ \/ handler'[t] = handler[t]
              \/ handler'[t].pc \in {"failing", "begin"} /\ ~ tag[t].started
      <4>1. CASE tag[t].started
        BY <1>6, <3>3, <4>1, Zenon
      <4>2. CASE ~ tag[t].started
        <5>1. PICK hpc \in {"failing", "begin"} :
                handler' = [handler EXCEPT ![t] = [handler[t] EXCEPT !.pc = hpc]]
          BY <1>6, <3>3, <4>2, Zenon
        <5>2. [handler[t] EXCEPT !.pc = hpc] \in Frame
              /\ [handler[t] EXCEPT !.pc = hpc].pc = hpc
          BY <1>6, Zenon DEF Frame, Living
        <5> QED
          BY <1>5, <1>6, <4>2, <5>1, <5>2, Zenon
      <4> QED
        BY <4>1, <4>2, Zenon
    <3>12. EngineOK(t)'
      <4>1. ~ Waiting(t)' /\ Unanswered(t, raw)'
        BY <1>1, <1>5, <1>6, Zenon DEF Unanswered
      <4>2. g # 0
        BY <3>1, Zenon
      <4>3. ~ tag[t].started => Dead(t) /\ handler[t].pc \notin Living
        BY <1>6, Zenon DEF EngineOK, Frame, Dead
      <4>4. tag[t].handler_failed => Dead(t)
        BY <1>6, Zenon DEF EngineOK
      <4>5. handler[t].pc \notin {"source", "return", "return error", "writing"}
        BY <1>6, <2>2, Zenon DEF EngineOK
      <4>6. CASE handler'[t] = handler[t]
        BY <1>2, <1>6, <2>2, <3>8, <3>9, <3>10, <4>1, <4>2, <4>4, <4>5, <4>6, Zenon
        DEF EngineOK, Dead
      <4>7. CASE handler'[t].pc \in {"failing", "begin"} /\ ~ tag[t].started
        <5>1. ~ tag[t].handler_failed
          BY <1>6, <4>7, Zenon DEF EngineOK
        <5> QED
          BY <1>6, <3>8, <3>9, <3>10, <4>1, <4>2, <4>7, <5>1, Zenon DEF EngineOK, Dead, Living
      <4> QED
        BY <3>11, <4>6, <4>7, Zenon
    <3> QED
      BY <1>t, <3>2, <3>5, <3>9, <3>10, <3>11, <3>12, Zenon DEF SameFlags
  <2> QED
    BY <1>6, <2>1, <2>2, Zenon DEF MailSlot
<1>10. TypeOK'
  BY <1>1, <1>t, <1>2, <1>5, <1>9, Zenon DEF TypeOK
<1>11. EngineInv'
  <2>1. ASSUME NEW u \in Tags \ {t}
        PROVE  EngineOK(u)'
    BY <1>1, <1>2, <1>5, <1>9, SameTag, Zenon
  <2> QED
    BY <1>9, <2>1, Zenon DEF EngineInv
<1>12. AdmitInv' /\ PhaseInv' /\ ExitInv'
  BY <1>1, <1>t, <1>6, <1>9, Zenon DEF AdmitInv, PhaseInv, ExitInv, SameFlags
<1>13. JoinInv' /\ FreshInv'
  BY <1>1, <1>t, <1>6, <1>9, Zenon DEF JoinInv, FreshInv, Joined
<1>14. WakeInv'
  <2>1. NoWork' = NoWork /\ NoPosted' = NoPosted
    BY <1>1, Zenon DEF NoWork, NoPosted
  <2> QED
    BY <1>1, <1>t, <1>9, <2>1, Zenon DEF WakeInv, TurnOver
<1> QED
  BY <1>7, <1>8, <1>10, <1>11, <1>12, <1>13, <1>14, Zenon DEF IInv

LEMMA ScanStep ==
    ASSUME IInv, NEW t \in Tags, Scan(t)
    PROVE  IInv'
<1>1. /\ UNCHANGED <<complete, foreign_pending, closed, handler, leaving, device>>
      /\ owner.pc = "scan"
  BY Zenon DEF Scan, OAt
<1>t. /\ TypeOK /\ owner \in Pump /\ flag \in QueueFlags /\ complete \in BOOLEAN
      /\ efd \in BOOLEAN /\ foreign_pending \in BOOLEAN
      /\ AdmitInv /\ PhaseInv /\ JoinInv /\ FreshInv /\ ExitInv /\ WakeInv
  BY PumpTypes, Zenon
<1>2. /\ owner' \in Pump /\ owner'.phase = owner.phase
      /\ owner'.published = owner.published /\ owner'.more = owner.more
      /\ owner'.next = owner.next
      /\ owner'.pc \in {"scan", owner.next}
      /\ owner.next \in {"flush", "admit", "drained"} /\ owner.phase = "serve"
      /\ flag.owner_wakeup_on_elio
  <2>1. PICK pc \in {"scan", owner.next}, todo \in SUBSET Tags :
          owner' = [owner EXCEPT !.todo = todo, !.pc = pc]
    BY <1>t, Zenon DEF Scan, Pump
  <2>2. owner.next \in {"flush", "admit", "drained"} /\ owner.phase = "serve"
        /\ flag.owner_wakeup_on_elio
    BY <1>1, <1>t, Zenon DEF Pump, PhaseInv
  <2>3. pc \in PumpPcs
    BY <2>2, Zenon DEF PumpPcs
  <2> QED
    BY <1>t, <2>1, <2>2, <2>3, Zenon DEF Pump
<1>3. /\ EngineOK(t) /\ tag \in [Tags -> EngineTag] /\ tag[t] \in EngineTag
      /\ mailbox \in [Tags -> MailSlot] /\ mailbox[t] \in MailSlot
  BY FrameTypes, Zenon
<1>4. ASSUME /\ raw' \in [Tags -> RawSlot] /\ cmd' \in [Tags -> Places]
             /\ cqe' \in [Tags -> Results] /\ owes' \subseteq Tags /\ honest' = honest
             /\ stopped' = stopped /\ debt_known' = debt_known
             /\ completion_pending' \in BOOLEAN
             /\ LedgerInv' /\ PendingInv' /\ EngineInv'
             /\ NoPosted => NoPosted'
             /\ flag' \in QueueFlags /\ SameFlags(flag, flag')
             /\ efd' \in BOOLEAN /\ (efd => efd') /\ (efd \/ NoWork => efd' \/ NoWork')
             /\ completion_pending' => (completion_pending \/ efd') /\ ~ batching_closed
             /\ tag' \in [Tags -> EngineTag] /\ mailbox' \in [Tags -> MailSlot]
             /\ UNCHANGED <<owner_pending, batching_closed>>
             /\ Untouched => Untouched'
             /\ Untouched => raw' = raw
      PROVE  IInv'
  <2>1. TypeOK'
    BY <1>1, <1>t, <1>2, <1>4, Zenon DEF TypeOK
  <2>2. AdmitInv' /\ PhaseInv' /\ ExitInv'
    BY <1>1, <1>t, <1>2, <1>4, Zenon DEF AdmitInv, PhaseInv, ExitInv, SameFlags
  <2>3. JoinInv'
    <3>1. Joined' => Joined
      BY <1>1, <1>2, Zenon DEF Joined
    <3>2. NoneLeaving' = NoneLeaving /\ \A u \in Tags : Dead(u)' = Dead(u)
      BY <1>1, Zenon DEF NoneLeaving, Dead
    <3>3. batching_closed' => ~ completion_pending'
      BY <1>4, Zenon
    <3> QED
      BY <1>1, <1>t, <1>2, <1>4, <3>1, <3>2, <3>3, Zenon DEF JoinInv
  <2>4. FreshInv'
    <3>1. ~ owner.published => NoDebt'
      BY <1>1, <1>4, <1>t, Zenon DEF FreshInv, NoDebt, Untouched
    <3> QED
      BY <1>1, <1>t, <1>2, <1>4, <3>1, Zenon DEF FreshInv
  <2>5. WakeInv'
    <3>1. ASSUME owner.next = "admit"
          PROVE  /\ (efd' \/ NoWork') /\ (completion_pending' => efd')
                 /\ ~ owner.more => efd' \/ (NoWork' /\ NoPosted')
      BY <1>1, <1>t, <1>4, <3>1, Zenon DEF WakeInv, TurnOver
    <3> QED
      BY <1>2, <3>1, Zenon DEF WakeInv, TurnOver
  <2> QED
    BY <1>4, <2>1, <2>2, <2>3, <2>4, <2>5, Zenon DEF IInv
<1>5. CASE ~ tag[t].handler_failed
  <2>1. UNCHANGED <<raw, cmd, cqe, efd, owner_pending, debt_known, completion_pending,
                    batching_closed, flag, tag, mailbox, owes, honest, stopped>>
    BY <1>5, Zenon DEF Scan, kernel, local
  <2>2. LedgerInv' /\ PendingInv' /\ EngineInv'
    BY <1>1, <1>2, <2>1, SameData, Zenon
  <2>3. /\ NoPosted' = NoPosted /\ NoWork' = NoWork /\ SameFlags(flag, flag')
        /\ Untouched' = Untouched
    BY <1>1, <2>1, Zenon DEF NoPosted, NoWork, SameFlags, Untouched, NoneLeaving
  <2>4. completion_pending => ~ batching_closed
    BY <1>t, Zenon DEF JoinInv
  <2> QED
    BY <1>4, <1>t, <2>1, <2>2, <2>3, <2>4, Zenon DEF TypeOK
<1>6. CASE tag[t].handler_failed
  <2>1. ~ Untouched /\ Dead(t) /\ handler[t].pc \notin Living
    BY <1>3, <1>6, Zenon DEF Untouched, EngineOK, Dead, Living
  <2>2. /\ tag' = [tag EXCEPT ![t] = [@ EXCEPT !.handler_failed = FALSE,
                     !.active_generation = 0, !.started = FALSE, !.busy = FALSE,
                     !.ready = FALSE]]
        /\ UNCHANGED <<owner_pending, batching_closed>>
    BY <1>6, Zenon DEF Scan
  <2>3. PICK e : e = [tag[t] EXCEPT !.handler_failed = FALSE, !.active_generation = 0,
                        !.started = FALSE, !.busy = FALSE, !.ready = FALSE]
    BY Zenon
  <2>4. e \in EngineTag /\ ~ e.handler_failed /\ e.active_generation = 0 /\ ~ e.busy
    BY <1>3, <2>3, Zenon DEF EngineTag
  <2>5. /\ tag' \in [Tags -> EngineTag] /\ tag'[t] = e
        /\ \A u \in Tags \ {t} : tag'[u] = tag[u]
    BY <1>3, <2>2, <2>3, <2>4, Zenon
  <2>6. /\ mailbox' \in [Tags -> MailSlot] /\ mailbox'[t].st \notin {"writing", "ready"}
        /\ \A u \in Tags \ {t} : mailbox'[u] = mailbox[u]
    <3>1. CASE HasResult(t)
      <4>1. mailbox' = [mailbox EXCEPT ![t] = [gen |-> 0, st |-> "empty"]]
        BY <1>6, <3>1, Zenon DEF Scan
      <4>2. [gen |-> 0, st |-> "empty"] \in MailSlot
        BY Zenon DEF MailSlot
      <4> QED
        BY <1>3, <4>1, <4>2, Zenon
    <3>2. CASE ~ HasResult(t)
      <4>1. mailbox' = mailbox
        BY <1>6, <3>2, Zenon DEF Scan
      <4>2. mailbox[t].st # "ready"
        <5> SUFFICES ASSUME mailbox[t].st = "ready"
                     PROVE  FALSE
          BY Zenon
        <5>1. mailbox[t].gen = tag[t].generation /\ tag[t].generation # 0
          BY <1>3, Zenon DEF EngineOK
        <5>2. mailbox[t] = [gen |-> tag[t].generation, st |-> "ready"]
          BY <1>3, <5>1, Zenon DEF MailSlot
        <5> QED
          BY <3>2, <5>1, <5>2, Zenon DEF HasResult
      <4>3. mailbox[t].st # "writing"
        BY <1>3, <2>1, Zenon DEF EngineOK, Living
      <4> QED
        BY <1>3, <4>1, <4>2, <4>3, Zenon
    <3> QED
      BY <3>1, <3>2, Zenon
  <2>7. EngineOK(t)'
    <3>1. handler'[t] = handler[t] /\ Dead(t)'
      BY <1>1, <2>1, Zenon DEF Dead
    <3> QED
      BY <2>1, <2>4, <2>5, <2>6, <3>1, Zenon DEF EngineOK, Living
  <2>8. ASSUME \A u \in Tags \ {t} : raw'[u] = raw[u], honest' = honest
        PROVE  EngineInv'
    <3>1. ASSUME NEW u \in Tags \ {t}
          PROVE  EngineOK(u)'
      <4>1. Waiting(u)' => Waiting(u)
        BY <2>2, Zenon DEF Waiting
      <4> QED
        BY <1>1, <1>2, <2>5, <2>6, <2>8, <4>1, SameTag, Zenon
    <3> QED
      BY <2>7, <3>1, Zenon DEF EngineInv
  <2>9. CASE HasResult(t)
    <3>1. complete_on_owner(t, FALSE, FALSE)
      BY <1>6, <2>9, Zenon DEF Scan
    <3>2. Unanswered(t, raw) /\ ~ Waiting(t)
      <4>1. mailbox[t].st = "ready"
        BY <2>9 DEF HasResult
      <4>2. tag[t].busy
        BY <1>3, <4>1, Zenon DEF EngineOK
      <4> QED
        BY <1>2, <1>3, <4>2, Zenon DEF EngineOK
    <3>3. /\ raw' \in [Tags -> RawSlot] /\ cmd' \in [Tags -> Places]
          /\ cqe' \in [Tags -> Results] /\ owes' \subseteq Tags /\ honest' = honest
          /\ stopped' = stopped /\ debt_known' = debt_known
          /\ completion_pending' \in BOOLEAN
          /\ LedgerInv' /\ raw'[t].pending
          /\ \A u \in Tags \ {t} : raw'[u] = raw[u]
          /\ NoPosted => NoPosted'
          /\ flag' \in QueueFlags /\ SameFlags(flag, flag')
          /\ efd' \in BOOLEAN /\ (efd => efd') /\ (efd \/ NoWork => efd' \/ NoWork')
          /\ completion_pending' => (completion_pending \/ efd') /\ ~ batching_closed
      BY <1>t, <3>1, <3>2, Completing, Zenon DEF IInv
    <3>4. PendingInv'
      BY <2>2, <3>2, <3>3, Zenon DEF IInv, PendingInv, Waiting, Unanswered
    <3> QED
      BY <1>4, <2>1, <2>2, <2>5, <2>6, <2>8, <3>3, <3>4, Zenon
  <2>10. CASE ~ HasResult(t)
    <3>1. UNCHANGED <<raw, cmd, cqe, owes, honest, stopped, debt_known, completion_pending>>
      BY <1>6, <2>10, Zenon DEF Scan, kernel
    <3>2. flag' \in QueueFlags /\ SameFlags(flag, flag') /\ efd' \in BOOLEAN /\ (efd => efd')
      <4>1. CASE fail
        BY <1>t, <4>1, Failing, Zenon
      <4>2. CASE UNCHANGED <<flag, efd>>
        BY <1>t, <4>2, Zenon DEF SameFlags
      <4> QED
        BY <1>6, <2>10, <4>1, <4>2, Zenon DEF Scan
    <3>3. LedgerInv' /\ PendingInv'
      BY <2>2, <3>1, SameRequests, Zenon
    <3>4. NoPosted' = NoPosted /\ NoWork' = NoWork
      BY <3>1, Zenon DEF NoPosted, NoWork
    <3>5. completion_pending => ~ batching_closed
      BY <1>t, Zenon DEF JoinInv
    <3> QED
      BY <1>4, <1>t, <2>1, <2>2, <2>5, <2>6, <2>8, <3>1, <3>2, <3>3, <3>4, <3>5, Zenon DEF TypeOK
  <2> QED
    BY <2>9, <2>10, Zenon
<1> QED
  BY <1>5, <1>6, Zenon

LEMMA maintain_ownerStep ==
    ASSUME IInv, maintain_owner
    PROVE  IInv'
<1>1. /\ UNCHANGED <<debt_known, completion_pending, batching_closed, tag, mailbox,
                     foreign_pending, closed, handler, leaving, device>>
      /\ owner.pc = "maintain" /\ owner_pending' = <<>>
  BY Zenon DEF maintain_owner, OAt, engine
<1>t. /\ TypeOK /\ owner \in Pump /\ flag \in QueueFlags /\ complete \in BOOLEAN
      /\ efd \in BOOLEAN /\ foreign_pending \in BOOLEAN
      /\ AdmitInv /\ PhaseInv /\ JoinInv /\ FreshInv /\ ExitInv /\ WakeInv
  BY PumpTypes, Zenon
<1>2. /\ owner.phase = "retire" /\ owner.published /\ batching_closed /\ ~ completion_pending
      /\ NoneLeaving /\ (\A t \in Tags : Dead(t)) /\ flag.owner_wakeup_on_elio
  <2>1. owner.phase = "retire" /\ flag.owner_wakeup_on_elio
    BY <1>1, <1>t, Zenon DEF PhaseInv, Pump
  <2> QED
    BY <1>1, <1>t, <2>1, Zenon DEF FreshInv, JoinInv, Joined
<1>3. PICK a : a = Answered(raw)
  BY Zenon
<1>4. ASSUME NEW t \in Tags
      PROVE  /\ a[t] \in RawSlot
             /\ \/ a[t] = raw[t]
                \/ /\ Unanswered(t, raw) /\ ~ a[t].pending /\ a[t].delivered
                   /\ a[t].reply_ready /\ ~ a[t].ok
  <2>1. raw[t] \in RawSlot
    BY FrameTypes, Zenon
  <2>2. \/ a[t] = raw[t]
        \/ Unanswered(t, raw) /\ a[t] = [raw[t] EXCEPT !.reply_ready = TRUE, !.ok = FALSE]
    <3>1. Waiting(t) => Unanswered(t, raw)
      BY Zenon DEF IInv, PendingInv
    <3> QED
      BY <1>3, <3>1, Zenon DEF Answered, Waiting, Unanswered
  <2>3. CASE a[t] = raw[t]
    BY <2>1, <2>3, Zenon
  <2>4. CASE Unanswered(t, raw)
             /\ a[t] = [raw[t] EXCEPT !.reply_ready = TRUE, !.ok = FALSE]
    BY <2>1, <2>4, Zenon DEF RawSlot, Unanswered
  <2> QED
    BY <2>2, <2>3, <2>4, Zenon
<1>5. PICK replies : replies = {t \in Tags : a[t].reply_ready /\ ~ a[t].pending}
  BY Zenon
<1>6. PICK r : r = [t \in Tags |-> IF t \in replies THEN Prepared(a[t], TRUE) ELSE a[t]]
  BY Zenon
<1>7. PICK c : c = [t \in Tags |-> IF t \in replies THEN "prepared" ELSE cmd[t]]
  BY Zenon
<1>8. /\ raw' = r /\ submit_owner(r, c, FALSE)
      /\ complete' = kernel_retired(r, debt_known)
      /\ OGoto(IF flag.exit_requested /\ kernel_retired(r, debt_known) THEN "retire"
               ELSE IF owner.more THEN "sleep" ELSE "park")
  BY <1>3, <1>5, <1>6, <1>7, Zenon DEF maintain_owner
<1>9. ASSUME NEW t \in Tags
      PROVE  /\ r[t] \in RawSlot /\ c[t] \in Places
             /\ LedgerOK(t, r, c, cqe, owes, honest)
  <2>1. LedgerOK(t, raw, cmd, cqe, owes, honest) /\ cmd[t] \in Places
    BY <1>t, FrameTypes, Zenon DEF TypeOK
  <2>2. CASE t \in replies
    <3>1. r[t] = Prepared(a[t], TRUE) /\ c[t] = "prepared"
      BY <1>6, <1>7, <2>2, Zenon
    <3>2. a[t].reply_ready /\ ~ a[t].pending /\ a[t] \in RawSlot
      BY <1>4, <1>5, <2>2, Zenon
    <3>3. /\ r[t] \in RawSlot /\ r[t].pending /\ r[t].completing /\ ~ r[t].delivered
          /\ ~ r[t].reply_ready /\ r[t].ok = a[t].ok
      BY <3>1, <3>2, Zenon DEF Prepared, RawSlot
    <3>4. ~ a[t].ok /\ raw[t].delivered /\ ~ raw[t].pending
      BY <1>4, <2>1, <3>2, Zenon DEF LedgerOK, Unanswered
    <3>5. t \in owes
      BY <2>1, <3>4, Zenon DEF LedgerOK
    <3> QED
      BY <3>1, <3>3, <3>4, <3>5, Zenon DEF LedgerOK, Places
  <2>3. CASE t \notin replies
    <3>1. r[t] = a[t] /\ c[t] = cmd[t]
      BY <1>6, <1>7, <2>3, Zenon
    <3>2. a[t] = raw[t]
      BY <1>4, <1>5, <2>3, Zenon
    <3> QED
      BY <1>4, <2>1, <3>1, <3>2, Zenon DEF LedgerOK
  <2> QED
    BY <2>2, <2>3, Zenon
<1>10. r \in [Tags -> RawSlot] /\ c \in [Tags -> Places]
       /\ \A t \in Tags : LedgerOK(t, r, c, cqe, owes, honest)
  <2>1. r = [t \in Tags |-> r[t]] /\ c = [t \in Tags |-> c[t]]
    BY <1>6, <1>7, Zenon
  <2> QED
    BY <1>9, <2>1, Zenon
<1>11. /\ \A t \in Tags : c[t] = "work" => cmd[t] = "work"
       /\ \A t \in Tags : c[t] = "cq" => cmd[t] = "cq"
  BY <1>7, Zenon
<1>12. /\ cmd' \in [Tags -> Places] /\ cqe' \in [Tags -> Results]
       /\ owes' \subseteq Tags /\ honest' = honest /\ stopped' = stopped
       /\ \A t \in Tags : LedgerOK(t, r, cmd', cqe', owes', honest)
       /\ \A t \in Tags : cmd'[t] = "cq" => c[t] = "cq"
       /\ flag' \in QueueFlags /\ SameFlags(flag, flag')
       /\ efd' \in BOOLEAN /\ (efd => efd')
       /\ efd \/ NoWork => efd' \/ (\A t \in Tags : cmd'[t] # "work")
  BY <1>t, <1>8, <1>10, <1>11, Submitting, Zenon
<1>13. PICK pc \in {"retire", "sleep", "park"} :
         /\ OGoto(pc)
         /\ pc = "park" => /\ ~ (flag.exit_requested /\ kernel_retired(r, debt_known))
                           /\ ~ owner.more
  BY <1>8, Zenon
<1>14. Moved(pc)
  BY <1>t, <1>13, Going, Zenon DEF PumpPcs
<1>15. TypeOK'
  <2>1. complete' \in BOOLEAN
    BY <1>8, <1>t, Zenon DEF kernel_retired, TypeOK
  <2>2. owner_pending' \in Seq(Tags)
    BY <1>1
  <2> QED
    BY <1>1, <1>t, <1>8, <1>10, <1>12, <1>14, <2>1, <2>2, Zenon DEF TypeOK, Moved
<1>16. LedgerInv'
  BY <1>8, <1>12, Zenon DEF LedgerInv
<1>17. PendingInv'
  BY <1>1 DEF PendingInv, Waiting
<1>18. EngineInv'
  <2> SUFFICES ASSUME NEW t \in Tags
               PROVE  EngineOK(t)'
    BY Zenon DEF EngineInv
  <2>1. EngineOK(t) /\ owner'.phase # "serve" /\ Dead(t)' = Dead(t)
    BY <1>1, <1>2, <1>14, FrameTypes, Zenon DEF Moved, Dead
  <2> QED
    BY <1>1, <1>12, <2>1, Zenon DEF EngineOK
<1>19. AdmitInv' /\ PhaseInv' /\ ExitInv'
  BY <1>1, <1>t, <1>2, <1>12, <1>14, Zenon DEF AdmitInv, PhaseInv, ExitInv, SameFlags, Moved
<1>20. JoinInv' /\ FreshInv'
  <2>1. NoneLeaving' = NoneLeaving /\ \A t \in Tags : Dead(t)' = Dead(t)
    BY <1>1, Zenon DEF NoneLeaving, Dead
  <2> QED
    BY <1>1, <1>2, <1>14, <2>1, Zenon DEF JoinInv, FreshInv, Moved
<1>21. WakeInv'
  <2>1. CASE pc # "park"
    BY <1>13, <1>14, <2>1, Zenon DEF WakeInv, TurnOver, Moved
  <2>2. CASE pc = "park"
    <3>1. (efd \/ NoWork) /\ ~ owner.more /\ (efd \/ (NoWork /\ NoPosted))
      BY <1>1, <1>t, <1>13, <2>2, Zenon DEF WakeInv, TurnOver
    <3>2. efd' \/ (NoWork' /\ NoPosted')
      BY <1>11, <1>12, <3>1, Zenon DEF NoWork, NoPosted
    <3>3. /\ flag'.exit_requested = flag.exit_requested
          /\ kernel_retired(raw, debt_known)' = kernel_retired(r, debt_known)
      BY <1>1, <1>8, <1>12, Zenon DEF SameFlags, kernel_retired
    <3>4. ~ completion_pending' /\ ~ owner'.more /\ owner'.phase = "retire"
          /\ owner'.pc = "park"
      BY <1>1, <1>2, <1>14, <2>2, <3>1, Zenon DEF Moved
    <3> QED
      BY <1>13, <2>2, <3>2, <3>3, <3>4, Zenon DEF WakeInv, TurnOver
  <2> QED
    BY <2>1, <2>2, Zenon
<1> QED
  BY <1>15, <1>16, <1>17, <1>18, <1>19, <1>20, <1>21, Zenon DEF IInv

-----------------------------------------------------------------------------
(* The commands in the ring: flushed, entered, or the fault of a submission.   *)

\* Queue::submit_owner leaves a prepared command behind only when it fails, or
\* when it enters the rest of a call that did.
LEMMA FlushSubmits ==
    ASSUME IInv, FlushInv, NEW r, NEW c, NEW failing \in BOOLEAN,
           submit_owner(r, c, failing)
    PROVE  /\ flag.failed => flag'.failed
           /\ remaining' # {} => flag'.failed
           /\ (\E t \in Tags : cmd'[t] = "prepared") => flag'.failed
<1> DEFINE ready == {t \in Tags : c[t] = "prepared" /\ (remaining = {} \/ t \in remaining)}
<1>1. PICK taken \in SUBSET ready : \E bad \in SUBSET taken :
        LET ended == {t \in taken \ bad : r[t].completing}
            back == bad \cup {t \in ended : stopped}
        IN  /\ remaining' = ready \ taken
            /\ cmd' = [t \in Tags |-> IF t \in back THEN "work"
                                      ELSE IF t \in taken THEN "issued" ELSE c[t]]
            /\ flag' = [flag EXCEPT
                 !.failed = @ \/ failing \/ taken # ready,
                 !.initial_fetches_issued =
                    @ \/ /\ taken = ready /\ flag.publication_gate = "open"
                         /\ \E t \in Tags : r[t].pending]
  BY Zenon DEF submit_owner
<1>2. PICK back :
        /\ remaining' = ready \ taken
        /\ cmd' = [t \in Tags |-> IF t \in back THEN "work"
                                  ELSE IF t \in taken THEN "issued" ELSE c[t]]
        /\ flag' = [flag EXCEPT
             !.failed = @ \/ failing \/ taken # ready,
             !.initial_fetches_issued =
                @ \/ /\ taken = ready /\ flag.publication_gate = "open"
                     /\ \E t \in Tags : r[t].pending]
  BY <1>1, Zenon
<1>3. flag \in QueueFlags
  BY Zenon DEF IInv, TypeOK
<1>4. flag'.failed <=> flag.failed \/ failing \/ taken # ready
  BY <1>2, <1>3, Zenon DEF QueueFlags
<1>5. remaining' # {} => taken # ready
  BY <1>2, Zenon
<1>6. ASSUME NEW t \in Tags, cmd'[t] = "prepared", taken = ready
      PROVE  flag.failed
  <2>1. c[t] = "prepared" /\ t \notin taken
    BY <1>2, <1>6, Zenon
  <2>2. remaining # {}
    BY <1>6, <2>1, Zenon
  <2> QED
    BY <2>2, Zenon DEF FlushInv
<1> QED
  BY <1>4, <1>5, <1>6, Zenon

\* A step that prepares and submits nothing.
LEMMA FlushKept ==
    ASSUME FlushInv, remaining' = remaining, completion_pending' = completion_pending,
           flag.failed => flag'.failed,
           owner.pc = "submit" => owner'.pc = "submit",
           \A t \in Tags : cmd'[t] = "prepared" => cmd[t] = "prepared"
    PROVE  FlushInv'
BY Zenon DEF FlushInv

\* Queue::complete_on_owner: the batched reply is due, the others are flushed.
LEMMA FlushCompletes ==
    ASSUME IInv, FlushInv, NEW t \in Tags, NEW ok, NEW failing \in BOOLEAN,
           complete_on_owner(t, ok, failing)
    PROVE  FlushInv'
<1>1. TypeOK
  BY Zenon DEF IInv
<1>2. CASE fail /\ UNCHANGED <<cmd, remaining, completion_pending>>
  BY <1>1, <1>2, Failing, Zenon DEF FlushInv
<1>3. CASE \E r, c : submit_owner(r, c, failing)
  <2>1. PICK r, c : submit_owner(r, c, failing)
    BY <1>3, Zenon
  <2> QED
    BY <2>1, FlushSubmits, Zenon DEF FlushInv
<1>4. CASE /\ completion_pending' = TRUE /\ UNCHANGED remaining
           /\ flag' = IF failing THEN [flag EXCEPT !.failed = TRUE] ELSE flag
  <2>1. flag.failed => flag'.failed
    BY <1>1, <1>4, Zenon DEF TypeOK, QueueFlags
  <2> QED
    BY <1>4, <2>1, Zenon DEF FlushInv
<1> QED
  BY <1>2, <1>3, <1>4, Zenon DEF complete_on_owner

\* The pump: setup, waits and CQ turns.
LEMMA FlushPump ==
    ASSUME IInv, FlushInv,
           \/ BeginOwner \/ InitOwnerPump \/ GateCheck \/ GateRead \/ Loop \/ Collect
           \/ Drained \/ Pop \/ retry_signal \/ Check \/ Sleep \/ Park \/ Join
           \/ SourcesDrained \/ Retire \/ admit \/ ReadHint \/ Enter
           \/ \E t \in Tags : dispatch_cqe(t)
    PROVE  FlushInv'
<1>1. TypeOK /\ flag \in QueueFlags /\ cmd \in [Tags -> Places]
  BY Zenon DEF IInv, TypeOK
<1>2. fail => (flag.failed => flag'.failed)
  BY <1>1, Failing, Zenon
<1>3. CASE BeginOwner \/ InitOwnerPump \/ SourcesDrained \/ Retire
  BY <1>1, <1>3, FlushKept, Zenon
  DEF BeginOwner, InitOwnerPump, SourcesDrained, Retire, OAt, QueueFlags, local
<1>4. CASE GateCheck \/ Loop \/ Collect \/ Drained \/ Pop \/ retry_signal \/ Check \/ Sleep
  BY <1>4, FlushKept, Zenon
  DEF GateCheck, Loop, Collect, Drained, Pop, retry_signal, Check, Sleep, OAt, local
<1>5. CASE GateRead \/ Park \/ Join \/ admit \/ ReadHint
  <2>1. UNCHANGED <<remaining, completion_pending, cmd>> /\ owner.pc # "submit"
    BY <1>5, Zenon DEF GateRead, Park, EventfdRead, Join, admit, ReadHint, OAt, local
  <2>2. fail \/ flag' = flag
    BY <1>5, Zenon DEF GateRead, Park, EventfdRead, Join, admit, ReadHint
  <2> QED
    BY <1>2, <2>1, <2>2, FlushKept, Zenon
<1>6. CASE Enter
  <2>1. UNCHANGED <<remaining, completion_pending>> /\ owner.pc # "submit"
    BY <1>6, Zenon DEF Enter, OAt, local
  <2>2. fail \/ flag' = flag
    BY <1>6, Zenon DEF Enter
  <2>3. \A t \in Tags : cmd'[t] = "prepared" => cmd[t] = "prepared"
    BY <1>6, Zenon DEF Enter
  <2> QED
    BY <1>2, <2>1, <2>2, <2>3, FlushKept, Zenon
<1>7. CASE \E t \in Tags : dispatch_cqe(t)
  <2>1. PICK t \in Tags : dispatch_cqe(t)
    BY <1>7, Zenon
  <2>2. UNCHANGED <<remaining, completion_pending>> /\ owner.pc # "submit"
    BY <2>1, Zenon DEF dispatch_cqe, OAt
  <2>3. fail \/ flag' = flag
    BY <2>1, Zenon DEF dispatch_cqe
  <2>4. cmd' = [cmd EXCEPT ![t] = "none"]
    BY <2>1, Zenon DEF dispatch_cqe
  <2>5. \A u \in Tags : cmd'[u] = "prepared" => cmd[u] = "prepared"
    BY <1>1, <2>4, Zenon
  <2> QED
    BY <1>2, <2>2, <2>3, <2>5, FlushKept, Zenon
<1> QED
  BY <1>3, <1>4, <1>5, <1>6, <1>7, Zenon

\* The pump: the steps that prepare or submit.
LEMMA FlushRing ==
    ASSUME IInv, FlushInv,
           \/ prepare_owner_fetches \/ submit_owner_fetches \/ Flush \/ CloseAdmission
           \/ maintain_owner \/ \E t \in Tags : Scan(t)
    PROVE  FlushInv'
<1>1. TypeOK /\ flag \in QueueFlags /\ owner \in Pump
  BY Zenon DEF IInv, TypeOK
<1>2. CASE prepare_owner_fetches
  <2>1. UNCHANGED <<remaining, flag>> /\ OGoto("submit")
    BY <1>2, Zenon DEF prepare_owner_fetches, local
  <2>2. owner'.pc = "submit"
    BY <1>1, <2>1, Zenon DEF OGoto, Pump
  <2> QED
    BY <2>1, <2>2, Zenon DEF FlushInv
<1>3. CASE \E r, c : submit_owner(r, c, FALSE)
  <2>1. PICK r, c : submit_owner(r, c, FALSE)
    BY <1>3, Zenon
  <2> QED
    BY <2>1, FlushSubmits, Zenon DEF FlushInv
<1>4. CASE submit_owner_fetches \/ maintain_owner
  BY <1>3, <1>4, Zenon DEF submit_owner_fetches, maintain_owner
<1>5. CASE Flush \/ CloseAdmission
  <2>1. CASE completion_pending
    BY <1>3, <1>5, <2>1, Zenon DEF Flush, CloseAdmission
  <2>2. CASE ~ completion_pending
    <3>1. UNCHANGED <<cmd, flag, remaining>> /\ owner.pc # "submit"
      BY <1>5, <2>2, Zenon DEF Flush, CloseAdmission, OAt
    <3> QED
      BY <2>2, <3>1, Zenon DEF FlushInv
  <2> QED
    BY <2>1, <2>2, Zenon
<1>6. CASE \E t \in Tags : Scan(t)
  <2>1. PICK t \in Tags : Scan(t)
    BY <1>6, Zenon
  <2>2. CASE complete_on_owner(t, FALSE, FALSE)
    BY <2>2, FlushCompletes, Zenon
  <2>3. CASE UNCHANGED <<cmd, remaining, completion_pending>> /\ (fail \/ flag' = flag)
    <3>1. owner.pc # "submit"
      BY <2>1, Zenon DEF Scan, OAt
    <3> QED
      BY <1>1, <2>3, <3>1, Failing, FlushKept, Zenon
  <2> QED
    BY <2>1, <2>2, <2>3, Zenon DEF Scan, local
<1> QED
  BY <1>2, <1>4, <1>5, <1>6, Zenon

\* The handlers, the driver and the device.
LEMMA FlushOthers ==
    ASSUME IInv, FlushInv,
           \/ \E t \in Tags : HandlerStep(t) \/ HandlerThrows(t) \/ Deliver(t)
           \/ GuardStep \/ StopSettles \/ DeviceStep \/ RequestStop
    PROVE  FlushInv'
<1>1. TypeOK /\ flag \in QueueFlags /\ cmd \in [Tags -> Places]
  BY Zenon DEF IInv, TypeOK
<1>2. CASE \E t \in Tags : HandlerPublishes(t)
  BY <1>2, FlushCompletes, Zenon DEF HandlerPublishes
<1>3. CASE \E t \in Tags : HandlerThrows(t) \/ (HandlerStep(t) /\ ~ HandlerPublishes(t))
  <2>1. UNCHANGED <<remaining, completion_pending, cmd, owner>> /\ (fail \/ flag' = flag)
    BY <1>3, Zenon
    DEF HandlerThrows, HandlerStep, HandlerBegins, HandlerWakes, HandlerTakes, SourceReturns,
        GuardClaims, GuardStores, GuardFlags, HandlerQuiet, local
  <2> QED
    BY <1>1, <2>1, Failing, FlushKept, Zenon
<1>4. CASE StopSettles \/ \E t \in Tags : Deliver(t)
  <2>1. UNCHANGED <<remaining, completion_pending, flag, owner>>
    BY <1>4, Zenon DEF StopSettles, Deliver, local
  <2>2. \A t \in Tags : cmd'[t] = "prepared" => cmd[t] = "prepared"
    BY <1>4, Zenon DEF StopSettles, Deliver, Defer
  <2> QED
    BY <2>1, <2>2, FlushKept, Zenon
<1>5. CASE GuardStep
  BY <1>5, FlushKept, Zenon DEF GuardStep, GuardAnnounces, GuardNotifies, local
<1>6. CASE SpawnOwner \/ StopDev \/ CloseRetired
  <2>1. UNCHANGED <<remaining, completion_pending, cmd, flag>>
    BY <1>6, Zenon DEF SpawnOwner, StopDev, CloseRetired, DeviceQuiet, local
  <2>2. owner.pc = "submit" => owner'.pc = "submit"
    <3>1. CASE SpawnOwner
      BY <3>1, Zenon DEF SpawnOwner, IInv, ExitInv
    <3>2. CASE StopDev \/ CloseRetired
      BY <3>2, Zenon DEF StopDev, CloseRetired
    <3> QED
      BY <1>6, <3>1, <3>2, Zenon
  <2> QED
    BY <2>1, <2>2, FlushKept, Zenon
<1>7. CASE \/ SealOwner \/ PublishInitialFetches \/ RequestRelease \/ KernelStopped
           \/ RequestOwnerExit \/ RequestStop
  <2>1. UNCHANGED <<remaining, completion_pending, cmd, owner>>
    BY <1>7, Zenon
    DEF SealOwner, PublishInitialFetches, RequestRelease, KernelStopped, RequestOwnerExit,
        RequestStop, DeviceQuiet, local
  <2>2. flag.failed => flag'.failed
    BY <1>1, <1>7, Zenon
    DEF SealOwner, PublishInitialFetches, RequestRelease, KernelStopped, RequestOwnerExit,
        RequestStop, QueueFlags
  <2> QED
    BY <2>1, <2>2, FlushKept, Zenon
<1> QED
  BY <1>2, <1>3, <1>4, <1>5, <1>6, <1>7, Zenon DEF DeviceStep

-----------------------------------------------------------------------------
(* The invariant and the theorems. *)

LEMMA OwnerSteps ==
    ASSUME IInv, OwnerStep
    PROVE  IInv'
BY BeginOwnerStep, InitOwnerPumpStep, GateCheckStep, GateReadStep,
   prepare_owner_fetchesStep, submit_owner_fetchesStep, LoopStep, CollectStep, ScanStep,
   FlushStep, EnterStep, dispatch_cqeStep, DrainedStep, ReadHintStep, PopStep, admitStep,
   retry_signalStep, CheckStep, SleepStep, ParkStep, CloseAdmissionStep, JoinStep,
   SourcesDrainedStep, RetireStep, maintain_ownerStep, Zenon
DEF OwnerStep

LEMMA HandlerSteps ==
    ASSUME IInv, NEW t \in Tags, HandlerStep(t)
    PROVE  IInv'
BY HandlerBeginsStep, HandlerWakesStep, HandlerTakesStep, SourceReturnsStep,
   HandlerPublishesStep, GuardClaimsStep, GuardStoresStep, GuardFlagsStep, Zenon
DEF HandlerStep

LEMMA Unchanged ==
    ASSUME IInv, UNCHANGED vars
    PROVE  IInv'
<1>1. UNCHANGED <<raw, cmd, cqe, kernel, efd, local, flag, complete, engine, owner, device>>
  BY Zenon DEF vars, kernel, local, engine
<1>2. UNCHANGED <<owner_pending, debt_known, completion_pending, batching_closed, tag,
                  mailbox, foreign_pending, closed, handler, leaving, owes, honest, stopped>>
  BY Zenon DEF vars
<1>3. LedgerInv' /\ PendingInv' /\ EngineInv' /\ JoinInv' /\ FreshInv'
  BY <1>1, <1>2, SameData, SameJoin, Zenon
<1>4. AdmitInv' /\ PhaseInv' /\ ExitInv'
  BY <1>1, <1>2, Zenon DEF IInv, AdmitInv, PhaseInv, ExitInv
<1>5. WakeInv'
  <2>1. NoWork' = NoWork /\ NoPosted' = NoPosted /\ SameFlags(flag, flag')
    BY <1>1, Zenon DEF NoWork, NoPosted, SameFlags
  <2> QED
    BY <1>1, <1>2, <2>1, SameWakes, Zenon
<1>6. TypeOK'
  BY <1>1, <1>2, Zenon DEF IInv, TypeOK
<1> QED
  BY <1>3, <1>4, <1>5, <1>6, Zenon DEF IInv

LEMMA Invariance == Spec => []IInv
<1>1. IInv /\ [Next]_vars => IInv'
  <2> SUFFICES ASSUME IInv, [Next]_vars
               PROVE  IInv'
    BY Zenon
  <2>1. CASE OwnerStep
    BY <2>1, OwnerSteps, Zenon
  <2>2. CASE \E t \in Tags : HandlerStep(t) \/ HandlerThrows(t) \/ Deliver(t)
    BY <2>2, HandlerSteps, HandlerThrowsStep, DeliverStep, Zenon
  <2>3. CASE GuardStep
    BY <2>3, GuardStepStep, Zenon
  <2>4. CASE StopSettles
    BY <2>4, StopSettlesStep, Zenon
  <2>5. CASE DeviceStep
    BY <2>5, DeviceStepStep, Zenon
  <2>6. CASE RequestStop
    BY <2>6, RequestStopStep, Zenon
  <2>7. CASE UNCHANGED vars
    BY <2>7, Unchanged, Zenon
  <2> QED
    BY <2>1, <2>2, <2>3, <2>4, <2>5, <2>6, <2>7, Zenon DEF Next
<1> QED
  BY <1>1, Initial, PTL DEF Spec

LEMMA FlushInvariance == Spec => []FlushInv
<1>1. Init => FlushInv
  BY Zenon DEF Init, FlushInv
<1>2. IInv /\ FlushInv /\ [Next]_vars => FlushInv'
  <2> SUFFICES ASSUME IInv, FlushInv, [Next]_vars
               PROVE  FlushInv'
    BY Zenon
  <2>1. CASE OwnerStep
    BY <2>1, FlushPump, FlushRing, Zenon DEF OwnerStep
  <2>2. CASE \/ \E t \in Tags : HandlerStep(t) \/ HandlerThrows(t) \/ Deliver(t)
             \/ GuardStep \/ StopSettles \/ DeviceStep \/ RequestStop
    BY <2>2, FlushOthers, Zenon
  <2>3. CASE UNCHANGED vars
    BY <2>3, Zenon DEF vars, FlushInv
  <2> QED
    BY <2>1, <2>2, <2>3, Zenon DEF Next
<1> QED
  BY <1>1, <1>2, Invariance, PTL DEF Spec

\* While a source works in a tag's buffer (run_tag between its two returns to
\* the owner), no command of that tag is prepared, queued or issued, so that the
\* kernel cannot touch the buffer.
THEOREM OneBufferUser == Spec => []BufferLoans
BY Invariance, Consequences, PTL

\* Every command that complete_on_owner, prepare_owner_fetches or maintain_owner
\* prepares fits the driver: a COMMIT answers a request handed out and not yet
\* answered, and reports success only for the request the source served.
THEOREM NoStrayReply == Spec => []RepliesAreOwed
BY Invariance, Consequences, PTL

\* kernel_retired, finish_owner and close_retired: after the owner's exit the
\* driver holds no command and no request, and no handler frame is left.
THEOREM NothingLeftBehind == Spec => []RetirementIsReal
BY Invariance, Consequences, PTL

\* The order of checks and eventfd reads in run_owner_pump and drive_owner_cq:
\* an owner asleep on an unreadable eventfd has nothing to do, and a command
\* that submit_owner left in the ring is the fault of a submission.
THEOREM NoWakeupLost == Spec => []NoLostEvent
BY Invariance, FlushInvariance, Consequences, PTL

=============================================================================
