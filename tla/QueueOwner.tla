----------------------------- MODULE QueueOwner -----------------------------
(***************************************************************************)
(* One ublk queue: the raw ring and its owner coroutine (Queue,            *)
(* run_owner_pump), the reusable tag handlers (TagEngine) with their       *)
(* foreign-result mailbox, the driver, and the device that publishes the   *)
(* queue, stops and releases it (the parts of Device that touch a queue).  *)
(*                                                                         *)
(* The owner and the handlers share one worker: they alternate only where  *)
(* the owner is suspended.  A handler whose return to that worker fails    *)
(* unwinds on another one and takes the steps of HandlerGuard there.  The  *)
(* device runs on other threads.  A tag has at most one command, so a      *)
(* command is its place: prepared in the ring, issued to the driver, in    *)
(* the ring's deferred work, or in the completion queue.  Cookies are left *)
(* out: the driver answers a command once.                                 *)
(***************************************************************************)
EXTENDS Integers, Sequences, FiniteSets

CONSTANTS
    Tags,
    CqTurn,         \* budget of one CQ turn
    MaxRequests,    \* bound: requests the kernel delivers
    MaxFaults,      \* bound: failures of the kinds in Faults
    Faults

FaultKinds == {"init", "spawn", "signal", "handler", "submit", "reject", "read", "stop"}

ASSUME QueueAssumption ==
    /\ IsFiniteSet(Tags) /\ Tags # {}
    /\ CqTurn \in Nat \ {0} /\ MaxRequests \in Nat /\ MaxFaults \in Nat
    /\ Faults \subseteq FaultKinds

VARIABLES
    raw,            \* RawSlot of each tag
    cmd, cqe,       \* where a tag's command is, and its result
    owes,           \* tags whose request the driver has handed to this server
    honest,         \* tags whose current request the source has served
    stopped,        \* the driver has settled STOP
    efd,            \* elio_efd_ is readable
    owner_pending,  \* delivered requests not yet admitted
    remaining,      \* owner_submit_remaining_: flushed commands not yet entered
    debt_known, completion_pending, batching_closed,
    flag,           \* the atomics of Queue
    complete,       \* complete_snapshot_
    tag,            \* TagState of each tag
    mailbox,        \* ForeignResultMailbox slots
    foreign_pending, closed,
    handler,        \* [pc, gen, threw] of each tag's handler frames
    leaving,        \* dead handler frames that have yet to announce, to notify
    owner,          \* the frame of run_owner_pump
    device,         \* [pc, released]: publication_released_
    budget

kernel == <<owes, honest, stopped>>
local == <<owner_pending, remaining, debt_known, completion_pending, batching_closed>>
engine == <<tag, mailbox, foreign_pending, closed, handler, leaving>>

vars == <<raw, cmd, cqe, owes, honest, stopped, efd, owner_pending, remaining, debt_known,
          completion_pending, batching_closed, flag, complete, tag, mailbox,
          foreign_pending, closed, handler, leaving, owner, device, budget>>

Slot == [pending |-> FALSE, delivered |-> FALSE, completing |-> FALSE,
         reply_ready |-> FALSE, ok |-> FALSE]

TagState == [busy |-> FALSE, started |-> FALSE, ready |-> FALSE, generation |-> 0,
             active_generation |-> 0, handler_failed |-> FALSE]

Flags == [publication_gate |-> "closed", setup_ready |-> FALSE, stop |-> FALSE,
          releasing |-> FALSE, kernel_stopped |-> FALSE, exit_requested |-> FALSE,
          owner_exited |-> FALSE, owner_wakeup_on_elio |-> FALSE,
          owner_admission |-> "unclaimed", initial_fetches_issued |-> FALSE,
          sources_drained |-> FALSE, failed |-> FALSE]

Init ==
    /\ raw = [t \in Tags |-> Slot]
    /\ cmd = [t \in Tags |-> "none"] /\ cqe = [t \in Tags |-> "none"]
    /\ owes = {} /\ honest = {} /\ stopped = FALSE /\ efd = FALSE
    /\ owner_pending = <<>> /\ remaining = {}
    /\ debt_known = TRUE /\ completion_pending = FALSE /\ batching_closed = FALSE
    /\ flag = Flags /\ complete = TRUE
    /\ tag = [t \in Tags |-> TagState]
    /\ mailbox = [t \in Tags |-> [gen |-> 0, st |-> "empty"]]
    /\ foreign_pending = FALSE /\ closed = FALSE
    /\ handler = [t \in Tags |-> [pc |-> "none", gen |-> 0, threw |-> FALSE]]
    /\ leaving = [announce |-> 0, notify |-> 0]
    /\ owner = [pc |-> "unstarted", phase |-> "serve", published |-> FALSE,
                consumed |-> 0, hints |-> 0, more |-> FALSE, todo |-> {}, next |-> "flush"]
    /\ device = [pc |-> "spawn", released |-> FALSE]
    /\ budget = [requests |-> MaxRequests, faults |-> MaxFaults, rejected |-> FALSE]

(***************************************************************************)
(* Shared pieces.                                                          *)
(***************************************************************************)

OAt(pc) == owner.pc = pc

OGoto(pc) == owner' = [owner EXCEPT !.pc = pc]

\* The owner coroutine is suspended, so that handlers may run on its worker.
Suspended == owner.pc \in {"gate read", "retry signal", "sleep", "park", "join"}

Fault(kind) ==
    /\ kind \in Faults /\ budget.faults > 0
    /\ budget' = [budget EXCEPT !.faults = @ - 1, !.rejected = @ \/ kind = "reject"]

\* Queue::wakeup.
wakeup == efd' = (efd \/ flag.owner_wakeup_on_elio)

\* Queue::fail.
fail ==
    /\ flag' = [flag EXCEPT !.failed = TRUE]
    /\ wakeup

Delivered(r) == {t \in Tags : r[t].delivered}

\* Queue::prep_io_cmd: the pending command now covers the tag's obligation.
Prepared(slot, completing) ==
    [slot EXCEPT !.pending = TRUE, !.completing = completing,
                 !.delivered = FALSE, !.reply_ready = FALSE]

\* Mutant: delivered requests are not counted as debt.
RetiredIgnoresDelivered(r, known) ==
    known /\ \A t \in Tags : ~ r[t].pending /\ ~ r[t].reply_ready

\* Queue::kernel_retired.
kernel_retired(r, known) ==
    /\ known
    /\ \A t \in Tags : ~ r[t].pending /\ ~ r[t].delivered /\ ~ r[t].reply_ready

\* Queue::submit_owner and drain_submissions for ring contents c, slots r; the
\* caller may have a failure to report.  What an earlier call has flushed and
\* not entered goes alone: commands prepared since then stay behind, to be
\* flushed by the next call.  The driver takes the commands one after the
\* other.  A COMMIT ends the request and fetches the next one, which a stopped
\* driver answers with ENODEV; a rejected command leaves the request where it
\* was.  An error leaves a rest in the ring.
submit_owner(r, c, failing) ==
    LET ready == {t \in Tags : c[t] = "prepared" /\ (remaining = {} \/ t \in remaining)} IN
    \E taken \in SUBSET ready : \E bad \in SUBSET taken :
        LET ended == {t \in taken \ bad : r[t].completing}
            back == bad \cup {t \in ended : stopped}
        IN  /\ \/ taken = ready /\ bad = {} /\ UNCHANGED budget
               \/ taken = ready /\ bad # {} /\ Fault("reject")
               \/ taken # ready /\ bad = {} /\ Fault("submit")
            /\ remaining' = ready \ taken
            /\ cmd' = [t \in Tags |-> IF t \in back THEN "work"
                                      ELSE IF t \in taken THEN "issued" ELSE c[t]]
            /\ \E no \in {"EIO", "ECANCELED"} :
                 /\ bad = {} => no = "EIO"
                 /\ cqe' = [t \in Tags |-> IF t \in bad THEN no
                                           ELSE IF t \in back THEN "ENODEV" ELSE cqe[t]]
            /\ owes' = owes \ ended
            /\ flag' = [flag EXCEPT
                 !.failed = @ \/ failing \/ taken # ready,
                 !.initial_fetches_issued =
                    @ \/ /\ taken = ready /\ flag.publication_gate = "open"
                         /\ \E t \in Tags : r[t].pending]
            /\ efd' = (efd \/ failing \/ taken # ready
                       \/ (back # {} /\ \A t \in Tags : cmd[t] # "work"))
            /\ UNCHANGED <<honest, stopped>>

\* Queue::complete_on_owner.  The reply is prepared at once; it is submitted
\* at once too, unless other delivered requests may still share the batch.
complete_on_owner(t, ok, failing) ==
    IF ~ raw[t].delivered \/ raw[t].pending \/ raw[t].reply_ready
    THEN /\ debt_known' = FALSE /\ fail
         /\ UNCHANGED <<raw, cmd, cqe, kernel, remaining, completion_pending, budget>>
    ELSE LET r == [raw EXCEPT ![t] = Prepared([@ EXCEPT !.ok = ok], TRUE)]
             c == [cmd EXCEPT ![t] = "prepared"]
         IN  /\ raw' = r
             /\ UNCHANGED debt_known
             /\ IF Delivered(r) = {} \/ batching_closed \/ flag.failed
                THEN completion_pending' = FALSE /\ submit_owner(r, c, failing)
                ELSE /\ completion_pending' = TRUE
                     /\ cmd' = c /\ efd' = (efd \/ failing \/ ~ completion_pending)
                     /\ flag' = IF failing THEN [flag EXCEPT !.failed = TRUE] ELSE flag
                     /\ UNCHANGED <<cqe, kernel, remaining, budget>>

(***************************************************************************)
(* run_owner_pump: setup and publication.                                  *)
(***************************************************************************)

\* finish_owner, after mark_source_handlers_drained where the pump calls it.
finish_owner ==
    /\ complete' = kernel_retired(raw, debt_known)
    /\ OGoto("exited")

\* begin_owner: the first operation of the body.  A sealed queue is left alone.
BeginOwner ==
    /\ OAt("begin")
    /\ IF flag.owner_admission = "unclaimed"
       THEN flag' = [flag EXCEPT !.owner_admission = "begun"] /\ OGoto("init")
       ELSE UNCHANGED flag /\ OGoto("never ran")
    /\ UNCHANGED <<raw, cmd, cqe, kernel, efd, local, complete, engine, device, budget>>

\* init_owner_pump and the construction of the engine.
InitOwnerPump ==
    /\ OAt("init")
    /\ UNCHANGED <<raw, cmd, cqe, kernel, local, engine, device, efd>>
    /\ \/ /\ flag' = [flag EXCEPT !.owner_wakeup_on_elio = TRUE, !.setup_ready = TRUE]
          /\ OGoto("gate")
          /\ UNCHANGED <<complete, budget>>
       \/ /\ Fault("init")
          /\ flag' = [flag EXCEPT !.failed = TRUE, !.sources_drained = TRUE,
                                  !.owner_exited = TRUE]
          /\ finish_owner

\* The wait for the publication gate looks first and reads the eventfd then.
GateCheck ==
    /\ OAt("gate")
    /\ IF flag.publication_gate = "closed" /\ ~ flag.failed THEN OGoto("gate read")
       ELSE IF flag.publication_gate = "open" /\ ~ flag.failed THEN OGoto("prepare")
       ELSE OGoto("close")
    /\ UNCHANGED <<raw, cmd, cqe, kernel, efd, local, flag, complete, engine, device, budget>>

\* A suspended eventfd read ends: with a wake, or with an error.
EventfdRead(pc, next) ==
    /\ OAt(pc)
    /\ OGoto(next)
    /\ UNCHANGED <<raw, cmd, cqe, kernel, local, complete, engine, device>>
    /\ \/ efd /\ efd' = FALSE /\ UNCHANGED <<flag, budget>>
       \/ Fault("read") /\ fail

GateRead == EventfdRead("gate read", "gate")

\* prepare_owner_fetches: the completeness claim is withdrawn before the
\* first command exists.  A gate closed meanwhile prepares nothing.
prepare_owner_fetches ==
    /\ OAt("prepare")
    /\ IF flag.publication_gate = "open"
       THEN /\ complete' = FALSE
            /\ IF flag.kernel_stopped THEN UNCHANGED <<raw, cmd>>
               ELSE /\ raw' = [t \in Tags |-> Prepared(raw[t], FALSE)]
                    /\ cmd' = [t \in Tags |-> "prepared"]
       ELSE UNCHANGED <<complete, raw, cmd>>
    /\ OGoto("submit")
    /\ UNCHANGED <<cqe, kernel, efd, local, flag, engine, device, budget>>

\* submit_owner_fetches, and whether this owner now has kernel debt.
submit_owner_fetches ==
    /\ OAt("submit")
    /\ submit_owner(raw, cmd, FALSE)
    /\ complete' = kernel_retired(raw, debt_known)
    /\ owner' = [owner EXCEPT !.pc = "loop",
                   !.published = flag'.initial_fetches_issued \/ ~ complete']
    /\ UNCHANGED <<raw, owner_pending, debt_known, completion_pending, batching_closed,
                   engine, device>>

(***************************************************************************)
(* run_owner_pump: the steady state.                                       *)
(***************************************************************************)

Loop ==
    /\ OAt("loop")
    /\ owner' = IF owner.published /\ ~ flag.stop /\ ~ flag.failed
                THEN [owner EXCEPT !.pc = "collect", !.next = "flush"]
                ELSE [owner EXCEPT !.pc = "close"]
    /\ UNCHANGED <<raw, cmd, cqe, kernel, efd, local, flag, complete, engine, device, budget>>

\* collect_foreign_results: the exchange, and then the tags one by one.
Collect ==
    /\ OAt("collect")
    /\ foreign_pending' = FALSE
    /\ owner' = IF foreign_pending
                THEN [owner EXCEPT !.pc = "scan", !.todo = Tags]
                ELSE [owner EXCEPT !.pc = owner.next]
    /\ UNCHANGED <<raw, cmd, cqe, kernel, efd, local, flag, complete, tag, mailbox, closed,
                   handler, leaving, device, budget>>

\* ForeignResultMailbox::take.
HasResult(t) ==
    /\ tag[t].generation # 0
    /\ mailbox[t] = [gen |-> tag[t].generation, st |-> "ready"]

\* A result without a busy tag would fail the queue too.
Scan(t) ==
    /\ OAt("scan") /\ t \in owner.todo
    /\ owner' = [owner EXCEPT !.todo = @ \ {t},
                   !.pc = IF owner.todo = {t} THEN owner.next ELSE "scan"]
    /\ IF ~ tag[t].handler_failed
       THEN UNCHANGED <<raw, cmd, cqe, kernel, efd, local, flag, tag, mailbox, budget>>
       ELSE /\ tag' = [tag EXCEPT ![t] = [@ EXCEPT !.handler_failed = FALSE,
                         !.active_generation = 0, !.started = FALSE, !.busy = FALSE,
                         !.ready = FALSE]]
            /\ UNCHANGED <<owner_pending, batching_closed>>
            /\ IF HasResult(t)
               THEN /\ mailbox' = [mailbox EXCEPT ![t] = [gen |-> 0, st |-> "empty"]]
                    /\ complete_on_owner(t, FALSE, FALSE)
               ELSE /\ UNCHANGED <<raw, cmd, cqe, kernel, remaining, debt_known,
                                   completion_pending, mailbox, budget>>
                    /\ IF tag[t].busy THEN fail ELSE UNCHANGED <<flag, efd>>
    /\ UNCHANGED <<complete, foreign_pending, closed, handler, leaving, device>>

\* flush_owner_completions, and the start of a CQ turn.
Flush ==
    /\ OAt("flush")
    /\ completion_pending' = FALSE
    /\ IF completion_pending THEN submit_owner(raw, cmd, FALSE)
       ELSE UNCHANGED <<cmd, cqe, kernel, efd, flag, remaining, budget>>
    /\ owner' = [owner EXCEPT !.pc = "enter", !.consumed = 0, !.hints = 0]
    /\ UNCHANGED <<raw, owner_pending, debt_known, batching_closed, complete, engine, device>>

Posted == {t \in Tags : cmd[t] = "cq"}

TurnEnds(more) ==
    owner' = [owner EXCEPT !.more = more,
                !.pc = IF owner.phase = "serve" THEN "pop" ELSE "maintain"]

\* drive_owner_cq, drain_owner_cq_turn: GETEVENTS runs the deferred work, which
\* posts its CQEs and may signal the eventfd once more.
Enter ==
    /\ OAt("enter")
    /\ UNCHANGED <<raw, cqe, kernel, local, complete, engine, device>>
    /\ \/ /\ cmd' = [t \in Tags |-> IF cmd[t] = "work" THEN "cq" ELSE cmd[t]]
          /\ efd' \in {efd} \cup (IF cmd' = cmd THEN {} ELSE {TRUE})
          /\ OGoto("drain")
          /\ UNCHANGED <<flag, budget>>
       \/ Fault("read") /\ fail /\ TurnEnds(FALSE) /\ UNCHANGED cmd

\* dispatch_cqe.  A failed COMMIT does not prove that its request is gone.
dispatch_cqe(t) ==
    /\ OAt("drain") /\ t \in Posted /\ owner.consumed < CqTurn
    /\ cmd' = [cmd EXCEPT ![t] = "none"] /\ cqe' = [cqe EXCEPT ![t] = "none"]
    /\ owner' = [owner EXCEPT !.consumed = @ + 1]
    /\ LET slot == [raw[t] EXCEPT !.pending = FALSE, !.completing = FALSE]
           lost == raw[t].completing /\ cqe[t] # "ENODEV"
       IN  IF cqe[t] # "ok"
           THEN /\ raw' = [raw EXCEPT ![t] = [slot EXCEPT !.delivered = lost]]
                /\ debt_known' = (debt_known /\ ~ lost)
                /\ IF cqe[t] = "EIO" THEN fail ELSE UNCHANGED <<flag, efd>>
                /\ UNCHANGED owner_pending
           ELSE /\ UNCHANGED <<debt_known, flag, efd>>
                /\ IF flag.releasing \/ flag.failed
                   THEN /\ raw' = [raw EXCEPT ![t] = [slot EXCEPT !.delivered = TRUE,
                                     !.reply_ready = TRUE, !.ok = FALSE]]
                        /\ UNCHANGED owner_pending
                   ELSE /\ raw' = [raw EXCEPT ![t] = [slot EXCEPT !.delivered = TRUE]]
                        /\ owner_pending' = Append(owner_pending, t)
    /\ UNCHANGED <<kernel, remaining, completion_pending, batching_closed, complete, engine,
                   device, budget>>

Drained ==
    /\ OAt("drain") /\ (Posted = {} \/ owner.consumed = CqTurn)
    /\ IF Posted # {} \/ owner.consumed = CqTurn \/ owner.hints = CqTurn
       THEN TurnEnds(TRUE) ELSE OGoto("hint")
    /\ UNCHANGED <<raw, cmd, cqe, kernel, efd, local, flag, complete, engine, device, budget>>

\* Mutant: a consumed hint ends the turn.
HintWithoutEntry ==
    /\ OAt("hint")
    /\ efd' = FALSE /\ TurnEnds(FALSE)
    /\ UNCHANGED <<raw, cmd, cqe, kernel, local, flag, complete, engine, device, budget>>

\* Every consumed hint is followed by another entry.
ReadHint ==
    /\ OAt("hint")
    /\ UNCHANGED <<raw, cmd, cqe, kernel, local, complete, engine, device>>
    /\ \/ /\ efd' = FALSE /\ UNCHANGED <<flag, budget>>
          /\ IF efd THEN owner' = [owner EXCEPT !.pc = "enter", !.hints = @ + 1]
             ELSE TurnEnds(FALSE)
       \/ Fault("read") /\ fail /\ TurnEnds(FALSE)

\* try_pop_request; the pump collects foreign results before it admits.
Pop ==
    /\ OAt("pop")
    /\ owner' = IF flag.releasing \/ owner_pending = <<>>
                THEN [owner EXCEPT !.pc = "check"]
                ELSE [owner EXCEPT !.pc = "collect", !.next = "admit"]
    /\ UNCHANGED <<raw, cmd, cqe, kernel, efd, local, flag, complete, engine, device, budget>>

Dead(t) == handler[t].pc \in {"none", "gone"}

NoneLeaving == leaving.announce = 0 /\ leaving.notify = 0

\* TagEngine::admit.  A busy tag or an unretired mailbox fails the queue and
\* leaves the request to the retirement; a rejected spawn destroys the guard.
admit ==
    /\ OAt("admit")
    /\ owner_pending' = Tail(owner_pending)
    /\ UNCHANGED <<raw, cmd, cqe, kernel, remaining, debt_known, completion_pending,
                   batching_closed, complete, foreign_pending, closed, leaving, device>>
    /\ LET t == Head(owner_pending)
           g == tag[t].generation + 1
           spawns == ~ tag[t].started
       IN  IF tag[t].busy \/ mailbox[t].st # "empty"
           THEN fail /\ OGoto("loop") /\ UNCHANGED <<tag, mailbox, handler, budget>>
           ELSE /\ mailbox' = [mailbox EXCEPT ![t] = [gen |-> g, st |-> "armed"]]
                /\ UNCHANGED flag
                /\ \E signaled \in BOOLEAN, rejected \in BOOLEAN :
                     /\ \/ signaled /\ ~ rejected /\ UNCHANGED budget
                        \/ ~ signaled /\ ~ rejected /\ Fault("signal")
                        \/ signaled /\ rejected /\ spawns /\ Fault("spawn")
                     /\ tag' = [tag EXCEPT ![t] = [@ EXCEPT !.busy = TRUE, !.started = TRUE,
                                  !.generation = g, !.active_generation = g,
                                  !.ready = tag[t].ready \/ signaled]]
                     /\ handler' = IF ~ spawns THEN handler
                                   ELSE [handler EXCEPT ![t].pc = IF rejected
                                          THEN "failing" ELSE "begin"]
                     /\ owner' = [owner EXCEPT !.pc = IF signaled THEN "pop"
                                                      ELSE "retry signal",
                                               !.todo = IF signaled THEN {} ELSE {t}]
                /\ UNCHANGED efd

retry_signal ==
    /\ OAt("retry signal")
    /\ tag' = [t \in Tags |-> IF t \in owner.todo THEN [tag[t] EXCEPT !.ready = TRUE]
                              ELSE tag[t]]
    /\ owner' = [owner EXCEPT !.pc = "pop", !.todo = {}]
    /\ UNCHANGED <<raw, cmd, cqe, kernel, efd, local, flag, complete, mailbox,
                   foreign_pending, closed, handler, leaving, device, budget>>

\* The stop and failure flags are looked at once more before the suspension.
Check ==
    /\ OAt("check")
    /\ OGoto(IF flag.stop \/ flag.failed THEN "close"
             ELSE IF owner.more THEN "sleep" ELSE "park")
    /\ UNCHANGED <<raw, cmd, cqe, kernel, efd, local, flag, complete, engine, device, budget>>

Resume == IF owner.phase = "serve" THEN "loop" ELSE "retire"

Sleep ==
    /\ OAt("sleep")
    /\ OGoto(Resume)
    /\ UNCHANGED <<raw, cmd, cqe, kernel, efd, local, flag, complete, engine, device, budget>>

Park == EventfdRead("park", Resume)

(***************************************************************************)
(* run_owner_pump: closing and retirement.                                 *)
(***************************************************************************)

\* close_owner_completion_batching, begin_close and the close signals, which
\* are retried until they are delivered.
CloseAdmission ==
    /\ OAt("close")
    /\ batching_closed' = TRUE /\ completion_pending' = FALSE
    /\ IF completion_pending THEN submit_owner(raw, cmd, FALSE)
       ELSE UNCHANGED <<cmd, cqe, kernel, efd, flag, remaining, budget>>
    /\ closed' = TRUE
    /\ tag' = [t \in Tags |-> [tag[t] EXCEPT !.ready = @ \/ tag[t].started]]
    /\ OGoto("join")
    /\ UNCHANGED <<raw, owner_pending, debt_known, complete, mailbox, foreign_pending,
                   handler, leaving, device>>

\* Mutant: the handlers are not joined.
JoinsNobody ==
    /\ OAt("join")
    /\ owner' = [owner EXCEPT !.pc = "collect", !.next = "drained"]
    /\ IF \E t \in Tags : handler[t].threw THEN fail ELSE UNCHANGED <<flag, efd>>
    /\ UNCHANGED <<raw, cmd, cqe, kernel, local, complete, engine, device, budget>>

\* join_handlers: every handler frame is gone.  A failed child fails the queue.
Join ==
    /\ OAt("join")
    /\ \A t \in Tags : Dead(t)
    /\ NoneLeaving
    /\ owner' = [owner EXCEPT !.pc = "collect", !.next = "drained"]
    /\ IF \E t \in Tags : handler[t].threw THEN fail ELSE UNCHANGED <<flag, efd>>
    /\ UNCHANGED <<raw, cmd, cqe, kernel, local, complete, engine, device, budget>>

\* mark_source_handlers_drained; an owner without kernel debt is done.
SourcesDrained ==
    /\ OAt("drained")
    /\ IF owner.published
       THEN /\ flag' = [flag EXCEPT !.sources_drained = TRUE]
            /\ owner' = [owner EXCEPT !.pc = "retire", !.phase = "retire"]
            /\ UNCHANGED complete
       ELSE /\ flag' = [flag EXCEPT !.sources_drained = TRUE, !.owner_exited = TRUE]
            /\ finish_owner
    /\ wakeup
    /\ UNCHANGED <<raw, cmd, cqe, kernel, local, engine, device, budget>>

\* owner_may_exit ends the retirement loop: exit requested and debt retired.
Retire ==
    /\ OAt("retire")
    /\ IF flag.exit_requested /\ kernel_retired(raw, debt_known)
       THEN /\ flag' = [flag EXCEPT !.owner_exited = TRUE]
            /\ finish_owner
       ELSE /\ owner' = [owner EXCEPT !.pc = "enter", !.consumed = 0, !.hints = 0]
            /\ UNCHANGED <<complete, flag>>
    /\ UNCHANGED <<raw, cmd, cqe, kernel, efd, local, engine, device, budget>>

\* Mutant: the reply value is left over from the tag's last request.
AnsweredKeepsReply(r) ==
    [t \in Tags |->
        IF \/ \E i \in DOMAIN owner_pending : owner_pending[i] = t
           \/ flag.sources_drained /\ r[t].delivered /\ ~ r[t].pending /\ ~ r[t].reply_ready
        THEN [r[t] EXCEPT !.reply_ready = TRUE] ELSE r[t]]

\* reject_pending and recover_lost_replies: what was never admitted is
\* cancelled, and with the sources gone what got no reply fails.
Answered(r) ==
    [t \in Tags |->
        IF \/ \E i \in DOMAIN owner_pending : owner_pending[i] = t
           \/ flag.sources_drained /\ r[t].delivered /\ ~ r[t].pending /\ ~ r[t].reply_ready
        THEN [r[t] EXCEPT !.reply_ready = TRUE, !.ok = FALSE] ELSE r[t]]

\* maintain_owner, and the decision how to wait.
maintain_owner ==
    /\ OAt("maintain")
    /\ LET a == Answered(raw)
           replies == {t \in Tags : a[t].reply_ready /\ ~ a[t].pending}
           r == [t \in Tags |-> IF t \in replies THEN Prepared(a[t], TRUE) ELSE a[t]]
       IN  /\ raw' = r
           /\ submit_owner(r, [t \in Tags |-> IF t \in replies THEN "prepared"
                                              ELSE cmd[t]], FALSE)
           /\ complete' = kernel_retired(r, debt_known)
           /\ OGoto(IF flag.exit_requested /\ kernel_retired(r, debt_known) THEN "retire"
                    ELSE IF owner.more THEN "sleep" ELSE "park")
    /\ owner_pending' = <<>>
    /\ UNCHANGED <<debt_known, completion_pending, batching_closed, engine, device>>

OwnerStep ==
    \/ BeginOwner \/ InitOwnerPump \/ GateCheck \/ GateRead \/ prepare_owner_fetches
    \/ submit_owner_fetches \/ Loop \/ Collect \/ (\E t \in Tags : Scan(t)) \/ Flush
    \/ Enter \/ (\E t \in Tags : dispatch_cqe(t)) \/ Drained \/ ReadHint \/ Pop \/ admit
    \/ retry_signal \/ Check \/ Sleep \/ Park \/ CloseAdmission \/ Join \/ SourcesDrained
    \/ Retire \/ maintain_owner

(***************************************************************************)
(* TagEngine::Impl::run_tag, one frame per tag.                            *)
(***************************************************************************)

HAt(t, pc) == handler[t].pc = pc

HGoto(t, pc) == handler' = [handler EXCEPT ![t].pc = pc]

\* The head of the loop: a closing idle handler leaves, else it waits.
LoopHead(idle) == IF closed /\ idle THEN "gone" ELSE "wait"

HandlerQuiet == UNCHANGED <<raw, cmd, cqe, kernel, efd, local, flag, complete,
                            foreign_pending, closed, leaving, owner, device>>

\* The frame restores the owner worker.
HandlerBegins(t) ==
    /\ HAt(t, "begin") /\ Suspended
    /\ HGoto(t, LoopHead(~ tag[t].busy))
    /\ HandlerQuiet /\ UNCHANGED <<tag, mailbox, budget>>

\* The event is set: the handler resumes, maybe on another worker.
HandlerWakes(t) ==
    /\ HAt(t, "wait") /\ tag[t].ready
    /\ HGoto(t, "woken")
    /\ HandlerQuiet /\ UNCHANGED <<tag, mailbox, budget>>

\* Back on the owner: reset the event and take the request, if there is one.
HandlerTakes(t) ==
    /\ HAt(t, "woken") /\ Suspended
    /\ tag' = [tag EXCEPT ![t].ready = FALSE]
    /\ IF tag[t].busy
       THEN handler' = [handler EXCEPT ![t].pc = "source", ![t].gen = tag[t].generation]
       ELSE HGoto(t, LoopHead(TRUE))
    /\ HandlerQuiet /\ UNCHANGED <<mailbox, budget>>

\* The source operation, which borrows the tag's buffer, ends.
SourceReturns(t) ==
    /\ HAt(t, "source")
    /\ \/ HGoto(t, "return") /\ honest' = honest \cup {t}
       \/ HGoto(t, "return error") /\ UNCHANGED honest
    /\ UNCHANGED <<raw, cmd, cqe, owes, stopped, efd, local, flag, complete, tag, mailbox,
                   foreign_pending, closed, leaving, owner, device, budget>>

\* Back on the owner: publish the result, retire the mailbox generation; a
\* mailbox of another generation fails the queue.
HandlerPublishes(t) ==
    /\ handler[t].pc \in {"return", "return error"} /\ Suspended
    /\ LET retired == mailbox[t] = [gen |-> handler[t].gen, st |-> "armed"]
       IN  /\ complete_on_owner(t, HAt(t, "return"), ~ retired)
           /\ mailbox' = IF retired
                         THEN [mailbox EXCEPT ![t] = [gen |-> 0, st |-> "empty"]]
                         ELSE mailbox
    /\ tag' = [tag EXCEPT ![t].active_generation = 0, ![t].busy = FALSE]
    /\ handler' = [handler EXCEPT ![t].pc = LoopHead(TRUE), ![t].gen = 0]
    /\ UNCHANGED <<owner_pending, batching_closed, complete, foreign_pending, closed,
                   leaving, owner, device>>

\* The return to the owner worker throws: the guard unwinds where it is.
HandlerThrows(t) ==
    /\ handler[t].pc \in {"woken", "return", "return error"}
    /\ Fault("handler")
    /\ HGoto(t, "failing")
    /\ HandlerQuiet /\ UNCHANGED <<tag, mailbox>>

\* HandlerGuard::mark_failed: claim the slot of the active generation ...
GuardClaims(t) ==
    /\ HAt(t, "failing")
    /\ LET g == tag[t].active_generation IN
       IF g = 0 THEN HGoto(t, "flag") /\ UNCHANGED <<mailbox, flag, efd>>
       ELSE IF mailbox[t] = [gen |-> g, st |-> "armed"]
       THEN /\ mailbox' = [mailbox EXCEPT ![t].st = "writing"]
            /\ HGoto(t, "writing")
            /\ UNCHANGED <<flag, efd>>
       ELSE fail /\ HGoto(t, "flag") /\ UNCHANGED mailbox
    /\ UNCHANGED <<raw, cmd, cqe, kernel, local, complete, tag, foreign_pending, closed,
                   leaving, owner, device, budget>>

\* ... store the result and make it ready ...
GuardStores(t) ==
    /\ HAt(t, "writing")
    /\ mailbox' = [mailbox EXCEPT ![t].st = "ready"]
    /\ HGoto(t, "flag")
    /\ HandlerQuiet /\ UNCHANGED <<tag, budget>>

\* ... raise handler_failed, by which the owner may start the tag anew ...
GuardFlags(t) ==
    /\ HAt(t, "flag")
    /\ tag' = [tag EXCEPT ![t].handler_failed = TRUE]
    /\ handler' = [handler EXCEPT ![t] = [pc |-> "gone", gen |-> 0, threw |-> TRUE]]
    /\ leaving' = [leaving EXCEPT !.announce = @ + 1]
    /\ UNCHANGED <<raw, cmd, cqe, kernel, efd, local, flag, complete, mailbox,
                   foreign_pending, closed, owner, device, budget>>

\* ... announce it ...
GuardAnnounces ==
    /\ leaving.announce > 0
    /\ foreign_pending' = TRUE
    /\ leaving' = [announce |-> leaving.announce - 1, notify |-> leaving.notify + 1]
    /\ UNCHANGED <<raw, cmd, cqe, kernel, efd, local, flag, complete, tag, mailbox, closed,
                   handler, owner, device, budget>>

\* ... and wake the owner.
GuardNotifies ==
    /\ leaving.notify > 0
    /\ leaving' = [leaving EXCEPT !.notify = @ - 1]
    /\ wakeup
    /\ UNCHANGED <<raw, cmd, cqe, kernel, local, flag, complete, tag, mailbox,
                   foreign_pending, closed, handler, owner, device, budget>>

GuardStep == GuardAnnounces \/ GuardNotifies

HandlerStep(t) ==
    \/ HandlerBegins(t) \/ HandlerWakes(t) \/ HandlerTakes(t) \/ SourceReturns(t)
    \/ HandlerPublishes(t) \/ GuardClaims(t) \/ GuardStores(t) \/ GuardFlags(t)

(***************************************************************************)
(* The driver.                                                             *)
(***************************************************************************)

\* Deferred work signals the eventfd when its list was empty.
Defer(S, result) ==
    /\ cmd' = [t \in Tags |-> IF t \in S THEN "work" ELSE cmd[t]]
    /\ cqe' = [t \in Tags |-> IF t \in S THEN result ELSE cqe[t]]
    /\ efd' = (efd \/ (S # {} /\ \A t \in Tags : cmd[t] # "work"))

Deliver(t) ==
    /\ cmd[t] = "issued" /\ ~ stopped /\ budget.requests > 0
    /\ budget' = [budget EXCEPT !.requests = @ - 1]
    /\ owes' = owes \cup {t} /\ honest' = honest \ {t}
    /\ Defer({t}, "ok")
    /\ UNCHANGED <<raw, stopped, local, flag, complete, engine, owner, device>>

\* STOP settles: it cancels the commands the driver has seen by now, no others.
StopSettles ==
    /\ device.pc = "stop dev"
    /\ stopped' = TRUE
    /\ Defer({t \in Tags : cmd[t] = "issued"}, "ENODEV")
    /\ device' = [device EXCEPT !.pc = "stop settled"]
    /\ UNCHANGED <<raw, owes, honest, local, flag, complete, engine, owner, budget>>

(***************************************************************************)
(* The device: prepare_owners, request_stop, drain_sources, release_once.  *)
(***************************************************************************)

DGoto(pc) == device' = [device EXCEPT !.pc = pc]

DeviceQuiet == UNCHANGED <<raw, cmd, cqe, kernel, local, complete, engine, budget>>

\* go_joinable_to: the owner starts, or its admission is rejected, which the
\* scheduler may contradict by starting it late.
SpawnOwner ==
    /\ device.pc = "spawn"
    /\ OGoto("begin")
    /\ UNCHANGED <<raw, cmd, cqe, kernel, efd, local, flag, complete, engine>>
    /\ \/ DGoto("setup") /\ UNCHANGED budget
       \/ Fault("spawn") /\ DGoto("seal")

\* abort_unstarted_owner, if the body has not claimed the queue.
SealOwner ==
    /\ device.pc = "seal"
    /\ IF flag.owner_admission = "unclaimed"
       THEN /\ flag' = [flag EXCEPT !.owner_admission = "sealed", !.failed = TRUE,
                          !.publication_gate = "aborted", !.sources_drained = TRUE,
                          !.owner_exited = TRUE]
            /\ complete' = kernel_retired(raw, debt_known)
            /\ wakeup
       ELSE UNCHANGED <<flag, complete, efd>>
    /\ DGoto("setup")
    /\ UNCHANGED <<raw, cmd, cqe, kernel, local, engine, owner, budget>>

\* prepare_owners: publish the FETCHes of a queue that is set up; a failure, a
\* release request or the deadline ends the startup instead.
PublishInitialFetches ==
    /\ device.pc = "setup" /\ flag.setup_ready /\ ~ flag.failed
    /\ flag' = [flag EXCEPT !.publication_gate = "open"]
    /\ device' = [pc |-> "run", released |-> TRUE]
    /\ wakeup
    /\ DeviceQuiet /\ UNCHANGED owner

\* request_stop: the stop flag first ...
RequestStop ==
    /\ device.pc \in {"setup", "run"}
    /\ flag' = [flag EXCEPT !.stop = TRUE]
    /\ DGoto("release")
    /\ DeviceQuiet /\ UNCHANGED <<efd, owner>>

\* ... then release and, before publication, abort; and wake the owner.
RequestRelease ==
    /\ device.pc = "release"
    /\ flag' = [flag EXCEPT !.releasing = TRUE,
                  !.publication_gate = IF device.released THEN @ ELSE "aborted"]
    /\ efd' = TRUE
    /\ DGoto("drain sources")
    /\ DeviceQuiet /\ UNCHANGED owner

\* Mutant: the source drain is taken for the issuance fence.
FencedByDrainOnly == flag.sources_drained

\* drain_sources, and the fence of release_once: STOP waits until the initial
\* FETCHes have been issued.
Fenced ==
    /\ flag.sources_drained
    /\ device.released => flag.owner_exited \/ flag.initial_fetches_issued

StopDev ==
    /\ device.pc = "drain sources" /\ Fenced
    /\ UNCHANGED <<raw, cmd, cqe, kernel, efd, local, flag, complete, engine, owner>>
    /\ \/ DGoto("stop dev") /\ UNCHANGED budget
       \/ Fault("stop") /\ UNCHANGED device

KernelStopped ==
    /\ device.pc = "stop settled"
    /\ flag' = [flag EXCEPT !.kernel_stopped = TRUE]
    /\ wakeup
    /\ DGoto("request exit")
    /\ DeviceQuiet /\ UNCHANGED owner

RequestOwnerExit ==
    /\ device.pc = "request exit"
    /\ flag' = [flag EXCEPT !.exit_requested = TRUE, !.publication_gate = "aborted"]
    /\ wakeup
    /\ DGoto("await exit")
    /\ DeviceQuiet /\ UNCHANGED owner

\* close_retired and DEL_DEV: after the owner's exit, on its final ledger.
CloseRetired ==
    /\ device.pc = "await exit"
    /\ flag.owner_exited /\ complete
    /\ DGoto("closed")
    /\ DeviceQuiet /\ UNCHANGED <<efd, flag, owner>>

DeviceStep ==
    \/ SpawnOwner \/ SealOwner \/ PublishInitialFetches \/ RequestRelease \/ StopDev
    \/ KernelStopped \/ RequestOwnerExit \/ CloseRetired

Next ==
    \/ OwnerStep
    \/ \E t \in Tags : HandlerStep(t) \/ HandlerThrows(t) \/ Deliver(t)
    \/ GuardStep
    \/ StopSettles
    \/ DeviceStep
    \/ RequestStop

Spec == Init /\ [][Next]_vars

\* The owner, the handlers and the device run and STOP settles once the driver
\* has its requests back.  A source may keep its request for ever, nobody need
\* stop the device and no fault need happen.
LiveSpec ==
    /\ Spec
    /\ WF_vars(OwnerStep) /\ WF_vars(DeviceStep) /\ WF_vars(GuardStep)
    /\ WF_vars(StopSettles /\ owes = {})
    /\ \A t \in Tags : WF_vars(HandlerStep(t) /\ ~ SourceReturns(t))

(***************************************************************************)
(* Properties.                                                             *)
(***************************************************************************)

\* A tag's buffer has one user.  While a source reads into or writes from it,
\* the request is this server's and no command of the tag is prepared, queued
\* or issued: a COMMIT would hand the buffer to the kernel under the source's
\* hands.
BufferLoans ==
    \A t \in Tags : HAt(t, "source") => t \in owes /\ cmd[t] = "none" /\ raw[t].delivered

\* Every command fits the driver's state: a COMMIT answers a request the driver
\* handed out and that has no answer yet, a FETCH starts a tag that owes none;
\* and success is reported for the request the source served, not for an
\* earlier request of the tag.
RepliesAreOwed ==
    \A t \in Tags : cmd[t] = "prepared" =>
        /\ raw[t].pending
        /\ raw[t].completing <=> t \in owes
        /\ raw[t].completing /\ raw[t].ok => t \in honest

\* The retirement ledger is true: once the owner has exited, or the device has
\* closed ring, mapping and cdev on that ledger, the driver has no command and
\* no request of this queue, and no handler frame is left to touch it.
RetirementIsReal ==
    (flag.owner_exited \/ device.pc = "closed") =>
        /\ owes = {} /\ NoneLeaving
        /\ \A t \in Tags : cmd[t] = "none" /\ Dead(t)

\* No event is lost: an owner that sleeps on its unreadable eventfd has no
\* deferred work, CQE, batched reply, stop, failure or exit permission to act
\* on, except what its sender is about to announce; and it leaves no prepared
\* command in its ring, unless a submission has failed.  (The pump can consume
\* the wake of a foreign handler's result, which is not among these.)
NoLostEvent ==
    /\ OAt("park") /\ ~ efd =>
          /\ \A t \in Tags : cmd[t] \notin {"work", "cq"}
          /\ ~ completion_pending
          /\ (\E t \in Tags : cmd[t] = "prepared") => flag.failed
          /\ owner.phase = "serve" => ~ flag.failed /\ (flag.stop => device.pc = "release")
          /\ owner.phase = "retire" =>
                ~ (flag.exit_requested /\ kernel_retired(raw, debt_known))
    /\ OAt("gate read") /\ ~ efd => flag.publication_gate = "closed" /\ ~ flag.failed

\* Commands prepared behind the rest of a failed submission stay private to the
\* ring while the owner sleeps: the call that entered the rest did not flush
\* them and nothing is due that would wake the owner to call again.
LeftBehind ==
    /\ OAt("park") /\ ~ efd
    /\ remaining = {} /\ \E t \in Tags : cmd[t] = "prepared"

\* A requested stop ends: sources drain, STOP settles, the owner retires every
\* command and the device closes the queue.  It does not when a source never
\* gives its request back, when the driver rejects a reply and keeps the
\* request, or when a reply stays behind the rest of a failed submission.
ReleaseEnds ==
    \/ \E t \in Tags : <>[]HAt(t, "source")
    \/ <>[]LeftBehind
    \/ (device.pc = "release") ~> (device.pc = "closed" \/ budget.rejected)

=============================================================================
