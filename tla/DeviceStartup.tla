---------------------------- MODULE DeviceStartup ----------------------------
(***************************************************************************)
(* The startup of a device process and the release of what it acquired:    *)
(* the release mailbox (StartupControl), the control commands (Ctrl), the  *)
(* startup, failure and release coordinator (Device), the queue owners as  *)
(* far as the coordinator sees them, the grant wait and the cleanup stages *)
(* of device_main, the standalone startup socket and the parent's judgement*)
(* of the reports (Child::observe_startup).                                *)
(*                                                                         *)
(* The errno behind a failure is abstracted to "there is one"; the counts  *)
(* of raw commands to "some are unretired".  The kernel is modelled from   *)
(* how ctrl.cpp and device.cpp use it.                                     *)
(***************************************************************************)
EXTENDS Naturals, FiniteSets

CONSTANTS
    Queues,      \* the queues of the device
    Clients,     \* connections of the standalone startup socket, numbered
    Parent,      \* the supervisor at the other end of the control channel
    MaxSeq,      \* bound: release sequences are 1..MaxSeq
    Faults       \* bound: failures of system calls, queues and the channel

VARIABLES
    recovery,    \* attach to an existing device (TRUE) or create one
    socket,      \* standalone (TRUE) or started by a supervisor
    granted,     \* startup_begin received
    eof,         \* the supervisor closed its end of the channel
    requested, closed, acked, entered,     \* StartupControl: the mailbox
    fields, version,                       \* StartupControl: published facts
    pc,          \* where the owning coroutine is
    mode,        \* which loop a release attempt belongs to
    cur,         \* the value its last load of requested_ returned
    dev,         \* the Device's own fields
    explicit,    \* explicitly_released of device_main
    q,           \* queue -> its owner
    cmd,         \* the control command in flight
    kdev,        \* the device in the kernel
    req,         \* requester -> its request_release call
    psq,         \* the sequence the supervisor last used
    seen,        \* the last report the supervisor believed
    final,       \* the terminal report
    budget

mailbox == <<requested, closed, acked, entered>>
board == <<fields, version>>
vars == <<recovery, socket, granted, eof, mailbox, board, pc, mode, cur, dev,
          explicit, q, cmd, kdev, req, psq, seen, final, budget>>

Requesters == Clients \cup {Parent}
NoFacts == [phase |-> "preparing", reason |-> FALSE, pend |-> FALSE,
            debt |-> FALSE, rseq |-> 0, rel |-> "none"]
NoCmd == [op |-> "none", kern |-> "idle", seen |-> FALSE, cancel |-> "no",
          reason |-> FALSE]
NoReq == [pc |-> "idle", seq |-> 0, cur |-> 0, res |-> "none"]

NewDevice == [owns |-> FALSE, target |-> recovery, ctrl |-> FALSE, reduced |-> FALSE,
              published |-> FALSE, auth |-> FALSE, stopping |-> FALSE,
              exitReq |-> FALSE, stopDone |-> FALSE, absent |-> FALSE,
              del |-> "no", released |-> FALSE]

Init ==
    /\ recovery \in BOOLEAN /\ socket \in BOOLEAN
    /\ granted = socket
    /\ eof = FALSE
    /\ requested = 0 /\ closed = FALSE /\ acked = 0 /\ entered = FALSE
    /\ fields = NoFacts /\ version = 0
    /\ pc = "grant" /\ mode = "start" /\ cur = 0
    /\ dev = NewDevice
    /\ explicit = FALSE
    /\ q = [i \in Queues |-> [st |-> "none", failed |-> FALSE, drained |-> FALSE]]
    /\ cmd = NoCmd
    /\ kdev = IF recovery THEN "old" ELSE "none"
    /\ req = [r \in Requesters |-> NoReq]
    /\ psq = 0
    /\ seen = [v |-> 0, f |-> NoFacts]
    /\ final = [done |-> FALSE, f |-> NoFacts]
    /\ budget = Faults

Charge == budget > 0 /\ budget' = budget - 1

-----------------------------------------------------------------------------
(* The mailbox and its board. *)

\* release_request(): a request nobody has answered.
Outstanding == ~closed /\ requested # acked

\* snapshot(): the published facts, with an accepted request that the owner
\* has not persisted yet shown as pending at the odd revision that follows.
Persisted == fields.rseq = requested /\ fields.rel # "none"
Snapshot ==
    IF Outstanding /\ ~Persisted
    THEN [v |-> version + 1,
          f |-> [fields EXCEPT !.phase = "releasing", !.rseq = requested,
                               !.rel = "pending"]]
    ELSE [v |-> version, f |-> fields]

AnyFailed == \E i \in Queues : q[i].failed
Debt == \E i \in Queues : q[i].st \in {"held", "served", "cancelled"}

\* refresh_startup() and publish().  A publication of unchanged facts is no
\* step of the board: only changes take a new even revision.
Publish(f) ==
    LET g == [f EXCEPT !.debt = Debt, !.reason = @ \/ AnyFailed]
    IN  /\ fields' = g
        /\ version' = IF g = fields THEN version ELSE version + 2

-----------------------------------------------------------------------------
(* request_release(), called by a socket handler or by the control reader:  *)
(* the loads and the exchange are apart.                                    *)

others == <<recovery, socket, granted, eof, closed, acked, entered, board, pc,
            mode, cur, dev, explicit, q, cmd, kdev, final, budget>>

Answered(r, res) ==
    [req EXCEPT ![r] =
        IF r = Parent THEN [NoReq EXCEPT !.res = res]
        ELSE IF res = "accepted" THEN [NoReq EXCEPT !.pc = "wait", !.seq = req[r].seq]
        ELSE [NoReq EXCEPT !.pc = "out", !.res = res]]

ClientAsk(c) ==
    /\ socket /\ ~final.done
    /\ req[c] = NoReq
    /\ \A d \in Clients : d < c => req[d] # NoReq
    /\ \E s \in 1..MaxSeq :
          req' = [req EXCEPT ![c] = [@ EXCEPT !.pc = "load", !.seq = s]]
    /\ UNCHANGED <<others, requested, psq, seen>>

\* admit_startup_release(): a new sequence once the previous one is refused.
ParentAsk ==
    /\ ~socket /\ ~eof /\ req[Parent].pc = "idle"
    /\ pc \notin {"session", "terminal", "done"}
    /\ seen.f.phase \notin {"ready", "released"}
    /\ psq < MaxSeq
    /\ psq = 0 \/ (seen.f.rseq = psq /\ seen.f.rel = "refused")
    /\ psq' = psq + 1
    /\ req' = [req EXCEPT ![Parent] = [NoReq EXCEPT !.pc = "load", !.seq = psq + 1]]
    /\ UNCHANGED <<others, requested, seen>>

ReqLoad(r) ==
    /\ req[r].pc = "load"
    /\ req' = IF closed THEN Answered(r, "not_startup")
              ELSE IF req[r].seq <= requested THEN Answered(r, "stale")
              ELSE IF requested # acked THEN Answered(r, "busy")
              ELSE [req EXCEPT ![r].pc = "exchange", ![r].cur = requested]
    /\ UNCHANGED <<others, requested, psq, seen>>

Exchanges(r) == ~closed /\ requested = req[r].cur
ReqExchange(r) ==
    /\ req[r].pc = "exchange"
    /\ IF Exchanges(r)
       THEN requested' = req[r].seq /\ req' = Answered(r, "accepted")
       ELSE /\ req' = Answered(r, IF closed THEN "not_startup" ELSE "busy")
            /\ UNCHANGED requested
    /\ UNCHANGED <<others, psq, seen>>

\* The handler of an accepted request waits for one outcome.
Outcome(c) ==
    LET f == IF final.done THEN final.f ELSE Snapshot.f
    IN  IF f.rseq = req[c].seq /\ f.rel = "refused" THEN "refused"
        ELSE IF final.done /\ f.rseq = req[c].seq /\ f.rel = "released"
             THEN "released"
        ELSE IF final.done \/ f.rseq > req[c].seq THEN "superseded"
        ELSE "none"
HandlerOutcome(c) ==
    /\ req[c].pc = "wait"
    /\ Outcome(c) # "none"
    /\ req' = [req EXCEPT ![c].pc = "out", ![c].res = Outcome(c)]
    /\ UNCHANGED <<others, requested, psq, seen>>

RequestStep ==
    \E r \in Requesters : ReqLoad(r) \/ ReqExchange(r) \/ HandlerOutcome(r)

-----------------------------------------------------------------------------
(* The supervisor's side of the channel. *)

\* startup_begin, and the closing of the channel.
Grant ==
    /\ ~granted /\ ~eof /\ pc = "grant"
    /\ granted' = TRUE
    /\ UNCHANGED <<recovery, socket, eof, mailbox, board, pc, mode, cur, dev,
                   explicit, q, cmd, kdev, req, psq, seen, final, budget>>
Hangup ==
    /\ ~socket /\ ~eof /\ pc = "grant" /\ req[Parent].pc = "idle"
    /\ eof' = TRUE /\ Charge
    /\ UNCHANGED <<recovery, socket, granted, mailbox, board, pc, mode, cur,
                   dev, explicit, q, cmd, kdev, req, psq, seen, final>>

\* valid_startup_owner() and observe_startup().
Valid(f) ==
    /\ (f.rel = "none") <=> (f.rseq = 0)
    /\ f.rel = "refused" => f.phase = "retained"
    /\ f.rel = "released" => f.phase = "released"
    /\ f.phase = "released" => ~f.pend /\ ~f.debt /\ f.rel \in {"none", "released"}
    /\ f.phase = "ready" => ~f.pend /\ ~f.reason /\ f.rel = "none"
Believable(n) ==
    /\ Valid(n.f)
    /\ n.f.rseq <= psq
    /\ n.f.rel = "released" => n.f.rseq = psq
    /\ n.v >= seen.v
    /\ n.v = seen.v => n.f = seen.f
    /\ n.f.rseq >= seen.f.rseq
    /\ n.f.phase = "ready" => seen.f.rseq = 0 /\ granted
    /\ seen.f.phase = "released" => n.f.phase = "released"
    /\ seen.f.phase = "ready" => n.f.phase \in {"ready", "released"}
Observed(n) == IF ~socket /\ ~eof /\ Believable(n) THEN n ELSE seen

\* The observer reports the snapshot until the process is stopping.
Report ==
    /\ pc \notin {"session", "terminal", "done"}
    /\ ~(mode = "serve" /\ dev.stopping)
    /\ Observed(Snapshot) # seen
    /\ seen' = Observed(Snapshot)
    /\ UNCHANGED <<recovery, socket, granted, eof, mailbox, board, pc, mode,
                   cur, dev, explicit, q, cmd, kdev, req, psq, final, budget>>

-----------------------------------------------------------------------------
(* The queue owners: setup, the initial FETCH batch, and the exit.  A FETCH  *)
(* that reaches the driver parks there until a STOP that comes after it.    *)

queueRest == <<recovery, socket, granted, eof, mailbox, board, pc, mode, cur,
               dev, explicit, cmd, kdev, req, psq, seen, final>>
Exited(w, bad) == [w EXCEPT !.st = "exited", !.drained = TRUE, !.failed = @ \/ bad]

QueueSetup(i) ==
    /\ q[i].st = "setup"
    /\ \/ q' = [q EXCEPT ![i].st = "ready"] /\ UNCHANGED budget
       \/ q' = [q EXCEPT ![i] = Exited(@, TRUE)] /\ Charge
    /\ UNCHANGED queueRest

\* publication_gate_: 1 once released, 2 when the setup is aborted.
Aborted == dev.exitReq \/ (dev.stopping /\ ~dev.published)
QueueGate(i) ==
    /\ q[i].st = "ready"
    /\ \/ /\ dev.published /\ ~Aborted /\ ~q[i].failed
          /\ q' = [q EXCEPT ![i].st = "held"]
       \/ /\ Aborted \/ q[i].failed
          /\ q' = [q EXCEPT ![i] = Exited(@, FALSE)]
    /\ UNCHANGED <<queueRest, budget>>

\* The prepared batch is submitted at once; after a failed submission it is
\* submitted again, but only once the source handlers are gone.
QueueIssue(i) ==
    /\ q[i].st = "held" /\ (q[i].failed => q[i].drained)
    /\ \/ q' = [q EXCEPT ![i].st = "served"] /\ UNCHANGED budget
       \/ q' = [q EXCEPT ![i].failed = TRUE] /\ Charge
    /\ UNCHANGED queueRest

QueueFail(i) ==
    /\ q[i].st \in {"ready", "served"} /\ ~q[i].failed
    /\ q' = [q EXCEPT ![i].failed = TRUE]
    /\ Charge
    /\ UNCHANGED queueRest

\* The source handlers end after the stop or the failure; the owner leaves
\* when it is told to and its commands have come back.
QueueDrain(i) ==
    /\ q[i].st \in {"held", "served", "cancelled"} /\ ~q[i].drained
    /\ q[i].failed \/ (dev.stopping /\ q[i].st # "held")
    /\ q' = [q EXCEPT ![i].drained = TRUE]
    /\ UNCHANGED <<queueRest, budget>>
QueueExit(i) ==
    /\ q[i].st = "cancelled" /\ q[i].drained /\ dev.exitReq
    /\ q' = [q EXCEPT ![i].st = "exited"]
    /\ UNCHANGED <<queueRest, budget>>

QueueStep ==
    \E i \in Queues : QueueSetup(i) \/ QueueGate(i) \/ QueueIssue(i)
                      \/ QueueDrain(i) \/ QueueExit(i)

-----------------------------------------------------------------------------
(* The kernel's answers to control commands. *)

kernelRest == <<recovery, socket, granted, eof, mailbox, board, pc, mode, cur,
                dev, explicit, req, psq, seen, final>>
Starts == cmd.op = "start" /\ \A i \in Queues : q[i].st = "served"

\* What success does to the device; a STOP returns every FETCH it finds.
Returned ==
    [i \in Queues |-> IF q[i].st = "served" THEN [q[i] EXCEPT !.st = "cancelled"]
                      ELSE q[i]]
Succeeds ==
    /\ cmd.op = "start" => Starts
    /\ cmd' = [cmd EXCEPT !.kern = "ok"]
    /\ kdev' = CASE cmd.op = "add" -> "added"
                 [] cmd.op = "recover" -> "recovering"
                 [] cmd.op = "start" -> "live"
                 [] cmd.op = "stop" -> "stopped"
                 [] cmd.op = "del" -> "deleted"
                 [] OTHER -> kdev
    /\ q' = IF cmd.op = "stop" THEN Returned ELSE q
    /\ UNCHANGED budget
Refuses ==
    /\ Charge
    /\ cmd' = [cmd EXCEPT !.kern = "err"]
    /\ kdev' \in IF cmd.op = "del" THEN {kdev, "deleted"} ELSE {kdev}
    /\ UNCHANGED q
IsBusy ==
    /\ cmd.op \in {"start", "recover"} /\ Charge
    /\ cmd' = [cmd EXCEPT !.kern = "busy"]
    /\ UNCHANGED <<kdev, q>>
\* Somebody else removed the device before the STOP: ENODEV.
IsGone ==
    /\ cmd.op = "stop" /\ Charge
    /\ cmd' = [cmd EXCEPT !.kern = "gone"]
    /\ kdev' = "deleted" /\ q' = Returned
KernelAnswer == cmd.kern = "wait" /\ (Succeeds \/ Refuses \/ IsBusy \/ IsGone)

\* The cancellation of a START or END that is still waiting interrupts it.
KernelCancel ==
    /\ cmd.cancel = "sent"
    /\ cmd' = [cmd EXCEPT !.cancel = "done",
                          !.kern = IF @ = "wait" THEN "intr" ELSE @]
    /\ UNCHANGED <<kdev, q, budget>>
KernelStep == (KernelAnswer \/ KernelCancel) /\ UNCHANGED kernelRest

-----------------------------------------------------------------------------
(* The owning coroutine.  env is what it only reads. *)

env == <<recovery, socket, granted, eof, requested, kdev, req, psq>>
rest == <<env, seen, final, explicit>>

\* observe_control(): the facts while a command is prepared, waits or ended.
Controlled(f, pending, failed) ==
    LET bad == f.reason \/ failed
    IN  [f EXCEPT !.pend = pending, !.reason = bad,
                  !.phase = IF @ = "releasing" THEN @
                            ELSE IF bad THEN "retained"
                            ELSE IF pending THEN "control_pending" ELSE "preparing"]
PublishControl(pending, failed) ==
    IF mode = "serve" THEN UNCHANGED board
    ELSE Publish(Controlled(fields, pending, failed))
Submit(op) ==
    /\ cmd' = [NoCmd EXCEPT !.op = op, !.kern = "wait"]
    /\ PublishControl(TRUE, FALSE)
    /\ pc' = "cmd"

\* The head of fail_startup(): retain, publish, request_stop().
FailStartup(bad) ==
    /\ Publish([fields EXCEPT !.phase = "retained", !.reason = bad])
    /\ pc' = "drain"
    /\ dev' = [dev EXCEPT !.stopping = TRUE]
    /\ cmd' = NoCmd

\* The grant wait of device_main.
GrantWait ==
    /\ pc = "grant"
    /\ \/ granted /\ pc' = "setup" /\ UNCHANGED <<mode, cur>>
       \/ ~granted /\ Outstanding /\ pc' = "close" /\ mode' = "early" /\ cur' = requested
       \/ ~granted /\ ~Outstanding /\ eof /\ pc' = "cleanup" /\ UNCHANGED <<mode, cur>>
    /\ UNCHANGED <<rest, closed, acked, entered, board, dev, q, cmd, budget>>

\* Opening the image and checking its size, before any Device exists.
Setup ==
    /\ pc = "setup"
    /\ \/ pc' = "enter" /\ UNCHANGED budget
       \/ pc' = "cleanup" /\ Charge
    /\ UNCHANGED <<rest, closed, acked, entered, board, mode, cur, dev, q, cmd>>

\* start_impl(): the owner enters, then opens the control device.
Enter ==
    /\ pc = "enter"
    /\ entered' = TRUE
    /\ IF Outstanding THEN FailStartup(TRUE)
       ELSE pc' = "open" /\ UNCHANGED <<board, dev, cmd>>
    /\ UNCHANGED <<rest, closed, acked, mode, cur, q, budget>>
Open ==
    /\ pc = "open"
    /\ \/ /\ dev' = [dev EXCEPT !.ctrl = TRUE]
          /\ Submit(IF recovery THEN "info" ELSE "add")
          /\ UNCHANGED budget
       \/ FailStartup(TRUE) /\ Charge
    /\ UNCHANGED <<rest, closed, acked, entered, mode, cur, q>>

\* ctrl_cmd_raw(): collect completions, cancel a START or END that should not
\* go on, and return once the original and any cancellation are known.
\* complete_control() takes ownership at the original completion.  The kernel
\* completes each command once, so the loop is never poisoned.
\* A START is also given up at the startup deadline, which may pass at any time.
CancelReason(late) == Outstanding \/ AnyFailed \/ late
Completed ==
    CASE cmd.kern # "ok" -> dev
      [] cmd.op = "add" -> [dev EXCEPT !.owns = TRUE, !.target = TRUE]
      [] cmd.op = "start" -> [dev EXCEPT !.owns = TRUE]
      [] OTHER -> dev
CmdPoll ==
    /\ pc = "cmd" /\ ~cmd.seen
    /\ \/ /\ cmd.kern # "wait"
          /\ cmd' = [cmd EXCEPT !.seen = TRUE]
          /\ dev' = Completed
          /\ IF cmd.cancel = "sent" THEN UNCHANGED <<board, pc>>
             ELSE PublishControl(FALSE, cmd.reason) /\ pc' = "after"
       \/ /\ cmd.kern = "wait" /\ cmd.cancel = "no"
          /\ cmd.op = "start" /\ \E late \in BOOLEAN : CancelReason(late)
          /\ cmd' = [cmd EXCEPT !.cancel = "sent", !.reason = TRUE]
          /\ PublishControl(TRUE, TRUE)
          /\ UNCHANGED <<dev, pc>>
    /\ UNCHANGED <<rest, closed, acked, entered, mode, cur, q, budget>>
CmdFinish ==
    /\ pc = "cmd" /\ cmd.seen /\ cmd.cancel = "done"
    /\ PublishControl(FALSE, cmd.reason)
    /\ pc' = "after"
    /\ UNCHANGED <<rest, closed, acked, entered, mode, cur, dev, q, cmd, budget>>

\* What follows a startup command, by its result: an original success wins
\* over a cancellation, EBUSY is tried again, and an ADD that the driver finds
\* invalid is tried once more without the recovery flags.
AfterStartup ==
    /\ pc = "after" /\ cmd.op \notin {"stop", "del"}
    /\ CASE cmd.kern = "ok" /\ cmd.op \in {"add", "recover"} ->
                Submit("params") /\ UNCHANGED dev
         [] cmd.kern = "ok" /\ cmd.op \in {"info", "params", "start"} ->
                /\ pc' = CASE cmd.op = "info" -> "recover"
                           [] cmd.op = "params" -> "spawn"
                           [] cmd.op = "start" -> "ready"
                /\ cmd' = NoCmd /\ UNCHANGED <<board, dev>>
         [] cmd.kern = "busy" -> \E late \in BOOLEAN :
                IF late /\ cmd.op = "recover" THEN FailStartup(TRUE)
                ELSE /\ pc' = IF cmd.op = "start" THEN "precheck" ELSE "recover"
                     /\ cmd' = NoCmd /\ UNCHANGED <<board, dev>>
         [] cmd.kern = "err" /\ cmd.op = "add" /\ ~dev.reduced ->
                \/ Submit("add") /\ dev' = [dev EXCEPT !.reduced = TRUE]
                \/ FailStartup(TRUE)
         [] OTHER -> FailStartup(TRUE)
    /\ UNCHANGED <<rest, closed, acked, entered, mode, cur, q, budget>>

\* start_recovery_and_open_queues(): the head of its retry loop.
Recover ==
    /\ pc = "recover"
    /\ IF Outstanding THEN FailStartup(TRUE)
       ELSE Submit("recover") /\ UNCHANGED dev
    /\ UNCHANGED <<rest, closed, acked, entered, mode, cur, q, budget>>

\* prepare_owners(): open and spawn, then wait until all may publish.
Spawn ==
    /\ pc = "spawn"
    /\ \/ /\ q' = [i \in Queues |-> [q[i] EXCEPT !.st = "setup"]]
          /\ pc' = "wait"
          /\ UNCHANGED <<board, dev, cmd, budget>>
       \/ /\ \E unspawned \in SUBSET Queues :
                q' = IF unspawned = {} THEN q
                     ELSE [i \in Queues |-> IF i \in unspawned THEN Exited(q[i], TRUE)
                                            ELSE [q[i] EXCEPT !.st = "setup"]]
          /\ FailStartup(TRUE) /\ Charge
    /\ UNCHANGED <<rest, closed, acked, entered, mode, cur>>
AllReady == \A i \in Queues : q[i].st = "ready"
Wait ==
    /\ pc = "wait"
    /\ \E late \in BOOLEAN :
          IF Outstanding \/ AnyFailed \/ (late /\ ~AllReady) THEN FailStartup(TRUE)
          ELSE /\ AllReady
               /\ dev' = [dev EXCEPT !.published = TRUE]
               /\ pc' = "precheck"
               /\ UNCHANGED <<board, cmd>>
    /\ UNCHANGED <<rest, closed, acked, entered, mode, cur, q, budget>>
Precheck ==
    /\ pc = "precheck"
    /\ \E late \in BOOLEAN :
          IF CancelReason(late) THEN FailStartup(TRUE)
          ELSE Submit("start") /\ UNCHANGED dev
    /\ UNCHANGED <<rest, closed, acked, entered, mode, cur, q, budget>>

\* MUTANT of Closable: admission closes whatever arrived since the load.
ClosableBlind == ~closed

\* close_release_admission() as seen by its caller: load, then exchange.
Closable == ~closed /\ requested = cur

\* try_publish_ready(): failures first, then the admission is closed and the
\* ready facts are published without looking at the queues again.
Ready ==
    /\ pc = "ready"
    /\ IF AnyFailed THEN FailStartup(TRUE) /\ UNCHANGED cur
       ELSE IF requested # acked THEN FailStartup(FALSE) /\ UNCHANGED cur
       ELSE cur' = requested /\ pc' = "adopt" /\ UNCHANGED <<board, dev, cmd>>
    /\ UNCHANGED <<rest, closed, acked, entered, mode, q, budget>>
Adopt ==
    /\ pc = "adopt"
    /\ IF Closable
       THEN /\ closed' = TRUE
            /\ fields' = [fields EXCEPT !.phase = "ready", !.reason = FALSE, !.pend = FALSE]
            /\ version' = version + 2
            /\ mode' = "serve" /\ pc' = "serving"
            /\ UNCHANGED <<dev, cmd>>
       ELSE FailStartup(FALSE) /\ UNCHANGED <<closed, mode>>
    /\ UNCHANGED <<rest, acked, entered, cur, q, budget>>

\* The shutdown of a serving device begins with stop_async().
Shutdown ==
    /\ pc = "serving"
    /\ dev' = [dev EXCEPT !.stopping = TRUE]
    /\ pc' = "drain"
    /\ UNCHANGED <<rest, closed, acked, entered, board, mode, cur, q, cmd, budget>>

\* publish_pending_release(): an accepted request authorizes the release.
Pending ==
    [fields EXCEPT !.phase = "releasing", !.rseq = requested, !.rel = "pending"]

\* drain_sources(), then the caller's failure cleanup.
Drained == \A i \in Queues : q[i].st = "none" \/ q[i].drained
Drain ==
    /\ pc = "drain"
    /\ IF Outstanding /\ mode # "serve"
       THEN Publish(Pending) /\ dev' = [dev EXCEPT !.auth = TRUE]
       ELSE UNCHANGED <<board, dev>>
    /\ pc' = IF ~Drained THEN "drain" ELSE IF mode = "serve" THEN "attempt" ELSE "decide"
    /\ UNCHANGED <<rest, closed, acked, entered, mode, cur, q, cmd, budget>>

\* MUTANT of Preserve: every failed startup is released automatically.
PreserveNever == FALSE

\* fail_startup(): a recovered device whose FETCHes are out and that was never
\* adopted is kept for an explicit release; so is one somebody asked for.
Preserve == recovery /\ dev.published /\ ~dev.owns
Decide ==
    /\ pc = "decide"
    /\ IF Preserve \/ requested # acked
       THEN mode' = "kept" /\ pc' = "kept" /\ UNCHANGED cur
       ELSE cur' = requested /\ pc' = "shut" /\ UNCHANGED mode
    /\ UNCHANGED <<rest, closed, acked, entered, board, dev, q, cmd, budget>>
Shut ==
    /\ pc = "shut"
    /\ IF Closable
       THEN closed' = TRUE /\ mode' = "auto" /\ pc' = "attempt"
       ELSE mode' = "kept" /\ pc' = "kept" /\ UNCHANGED closed
    /\ UNCHANGED <<rest, acked, entered, board, cur, dev, q, cmd, budget>>

\* retained_startup(): wait for a request, attempt the release for it.
Kept ==
    /\ pc = "kept"
    /\ IF Outstanding
       THEN /\ cur' = requested /\ pc' = "attempt"
            /\ dev' = [dev EXCEPT !.auth = TRUE]
            /\ Publish(Pending)
       ELSE Publish(fields) /\ UNCHANGED <<cur, pc, dev>>
    /\ UNCHANGED <<rest, closed, acked, entered, mode, q, cmd, budget>>

\* How release_once() ends: try again later (EAGAIN), failed, or released.
Retried == IF mode = "auto" THEN Publish(fields) ELSE UNCHANGED board
Again ==
    /\ pc' = IF mode = "kept" THEN "kept" ELSE "attempt"
    /\ cmd' = NoCmd /\ Retried
Failed ==
    /\ IF mode = "kept"
       THEN /\ Publish([fields EXCEPT !.phase = "retained", !.rel = "refused"])
            /\ pc' = "refuse"
       ELSE pc' = "attempt" /\ Retried
    /\ cmd' = NoCmd
Refuse ==
    /\ pc = "refuse"
    /\ acked' = cur
    /\ pc' = "kept"
    /\ UNCHANGED <<rest, closed, entered, board, mode, cur, dev, q, cmd, budget>>
Released ==
    /\ IF mode = "kept" THEN pc' = "close" /\ UNCHANGED board
       ELSE /\ pc' = "cleanup"
            /\ IF mode = "auto" THEN Publish([fields EXCEPT !.phase = "released"])
               ELSE UNCHANGED board
    /\ dev' = [dev EXCEPT !.released = TRUE]
    /\ cmd' = NoCmd

\* release_once() up to the STOP: it needs authority, a control device, and
\* no queue between the preparation and the issue of its first FETCHes.
Authority == dev.owns \/ dev.auth

\* MUTANT of Fenced: STOP does not wait for the first FETCHes to be issued.
FencedNever == FALSE

Fenced == dev.published /\ \E i \in Queues : q[i].st \in {"setup", "ready", "held"}
Attempt ==
    /\ pc = "attempt"
    /\ LET open == ~dev.ctrl /\ dev.auth /\ dev.target IN
       \/ /\ IF dev.published /\ ~Authority THEN Failed /\ UNCHANGED dev
             ELSE /\ dev' = [dev EXCEPT !.ctrl = @ \/ open]
                  /\ IF Fenced THEN Again
                     ELSE IF dev'.ctrl /\ dev.target /\ Authority /\ ~dev.stopDone
                          THEN Submit("stop")
                     ELSE pc' = "exit" /\ UNCHANGED <<board, cmd>>
          /\ UNCHANGED budget
       \/ open /\ Charge /\ Failed /\ UNCHANGED dev
    /\ UNCHANGED <<rest, closed, acked, entered, mode, cur, q>>
AfterStop ==
    /\ pc = "after" /\ cmd.op = "stop"
    /\ \/ /\ cmd.kern \in {"ok", "gone"}
          /\ dev' = [dev EXCEPT !.stopDone = TRUE, !.absent = (cmd.kern = "gone")]
          /\ pc' = "exit" /\ cmd' = NoCmd /\ UNCHANGED board
       \/ cmd.kern = "err" /\ Failed /\ UNCHANGED dev
    /\ UNCHANGED <<rest, closed, acked, entered, mode, cur, q, budget>>

\* release_once() after the STOP: owners leave, queues close, one DEL ever.

\* MUTANT of AllExited: a failed owner is not waited for.
AllExitedOrFailed == \A i \in Queues : q[i].failed \/ q[i].st \in {"none", "exited"}

AllExited == \A i \in Queues : q[i].st \in {"none", "exited"}
Exit ==
    /\ pc = "exit"
    /\ IF ~AllExited
       THEN Again /\ dev' = [dev EXCEPT !.exitReq = TRUE]
       ELSE IF dev.ctrl /\ dev.target /\ Authority /\ ~dev.absent
       THEN IF dev.del = "err" THEN Failed /\ UNCHANGED dev
            ELSE Submit("del") /\ dev' = [dev EXCEPT !.exitReq = TRUE]
       ELSE Released
    /\ UNCHANGED <<rest, closed, acked, entered, mode, cur, q, budget>>

AfterDel ==
    /\ pc = "after" /\ cmd.op = "del"
    /\ \/ cmd.kern = "ok" /\ Released
       \/ cmd.kern = "err" /\ Failed /\ dev' = [dev EXCEPT !.del = "err"]
    /\ UNCHANGED <<rest, closed, acked, entered, mode, cur, q, budget>>

\* finish_release_admission() and the released facts: close, acknowledge,
\* publish.  The coroutine then ends with StartupReleased.
FinishClose ==
    /\ pc = "close"
    /\ closed' = TRUE /\ pc' = "ack"
    /\ UNCHANGED <<rest, acked, entered, board, mode, cur, dev, q, cmd, budget>>
Settle ==
    /\ pc = "ack"
    /\ acked' = cur
    /\ Publish([(IF mode = "early" THEN NoFacts ELSE fields) EXCEPT
                    !.phase = "released", !.rseq = cur, !.rel = "released"])
    /\ explicit' = TRUE /\ pc' = "cleanup"
    /\ UNCHANGED <<env, seen, final, closed, entered, mode, cur, dev, q,
                   cmd, budget>>

-----------------------------------------------------------------------------
(* The cleanup stages of device_main that touch the startup, and the end.   *)

\* The control reader has ended before the session goes.
Cleanup ==
    /\ pc = "cleanup" /\ req[Parent].pc = "idle"
    /\ pc' = "session"
    /\ UNCHANGED <<rest, closed, acked, entered, board, mode, cur, dev, q, cmd, budget>>

\* finish_before_start(): without a Device, admission is closed here.
Session ==
    /\ pc = "session"
    /\ IF entered \/ closed
       THEN pc' = "terminal" /\ UNCHANGED <<closed, cur>>
       ELSE closed' = TRUE /\ cur' = requested /\ pc' = "finish"
    /\ UNCHANGED <<rest, acked, entered, board, mode, dev, q, cmd, budget>>
Finish ==
    /\ pc = "finish"
    /\ acked' = cur
    /\ Publish([NoFacts EXCEPT !.phase = "released",
                               !.rseq = IF cur # acked THEN cur ELSE 0,
                               !.rel = IF cur # acked THEN "released" ELSE "none"])
    /\ explicit' = (cur # acked)
    /\ pc' = "terminal"
    /\ UNCHANGED <<env, seen, final, closed, entered, mode, cur, dev, q, cmd, budget>>

\* The facts of the terminal report, released_snapshot() included.
TerminalFacts ==
    LET base == IF mode = "serve"
                THEN [fields EXCEPT !.pend = FALSE, !.debt = Debt,
                          !.phase = IF dev.released THEN "released" ELSE "retained"]
                ELSE IF ~entered THEN [Snapshot.f EXCEPT !.phase = "released"]
                ELSE Snapshot.f
    IN  [v |-> Snapshot.v + 2,
         f |-> IF explicit THEN base ELSE [base EXCEPT !.rel = "none"]]
Terminal ==
    /\ pc = "terminal"
    /\ final' = [done |-> TRUE, f |-> TerminalFacts.f]
    /\ seen' = Observed(TerminalFacts)
    /\ pc' = "done"
    /\ UNCHANGED <<env, explicit, closed, acked, entered, board, mode, cur,
                   dev, q, cmd, budget>>

OwnerStep ==
    \/ GrantWait \/ Setup \/ Enter \/ Open \/ CmdPoll \/ CmdFinish
    \/ AfterStartup \/ Recover \/ Spawn \/ Wait \/ Precheck \/ Ready \/ Adopt
    \/ Drain \/ Decide \/ Shut \/ Kept \/ Refuse \/ Attempt \/ AfterStop
    \/ Exit \/ AfterDel \/ FinishClose \/ Settle
    \/ Cleanup \/ Session \/ Finish \/ Terminal

Next ==
    \/ OwnerStep \/ QueueStep \/ KernelStep \/ RequestStep
    \/ Shutdown \/ Grant \/ Hangup \/ Report \/ ParentAsk
    \/ \E c \in Clients : ClientAsk(c)
    \/ \E i \in Queues : QueueFail(i)

\* The coroutine, the queue owners, the handlers and the kernel keep running.
Fairness ==
    /\ WF_vars(OwnerStep) /\ WF_vars(QueueStep)
    /\ WF_vars(KernelStep) /\ WF_vars(RequestStep)

Spec == Init /\ [][Next]_vars /\ Fairness

-----------------------------------------------------------------------------
\* Every request that request_release() accepts gets a published outcome,
\* released or refused: closing the admission never leaves behind a request
\* that was admitted at the same moment.
ReleasesSettle ==
    \A s \in 1..MaxSeq :
        (requested = s) ~> (fields.rseq >= s /\ fields.rel \in {"refused", "released"})

\* STOP only cancels the FETCHes the driver has seen, so once the kernel has
\* stopped the device no queue holds one or has one parked (release_once).
NoFetchAfterStop ==
    kdev \in {"stopped", "deleted"} =>
        \A i \in Queues : q[i].st \notin {"held", "served"}

\* A device that was there before the process started is stopped or deleted
\* only if this process adopted it or somebody asked for its release, and the
\* admission stays open until one of the two holds (fail_startup).
OldDeviceIsKept ==
    recovery /\ ~dev.owns /\ requested = 0 =>
        /\ kdev \notin {"stopped", "deleted"}
        /\ dev.published => ~closed

\* A client is told "released" only when no command of the device is left in
\* the kernel and the device is gone or was never this process's to delete.
ReleasedIsTrue ==
    \A c \in Clients :
        req[c].res = "released" => ~Debt /\ (kdev \in {"none", "old", "deleted"})
=============================================================================
