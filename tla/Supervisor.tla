----------------------------- MODULE Supervisor -----------------------------
(***************************************************************************)
(* The supervisor daemon (src/supervisor/daemon.cpp, child.cpp) and the    *)
(* device processes it owns, for one device id.                            *)
(*                                                                         *)
(* The registry `children_` holds at most one entry per id.  An entry      *)
(* outlives its child process: crash recovery installs a new generation    *)
(* into the same entry.  Client handlers (create, destroy, commit, a       *)
(* forwarded command), the entry's monitor coroutine, the reaper and the   *)
(* shutdown path run concurrently.  Every section the code runs under the  *)
(* registry mutex mu_ is one step here; everything between two sections    *)
(* may interleave.  op_mu, held across awaits, is the field `op`.          *)
(*                                                                         *)
(* A device process is what obd_device_main.cpp shows its parent: it waits *)
(* for the grant before it opens anything, ignores SIGTERM until it        *)
(* serves, reports its startup phase on the channel, and its channel may   *)
(* reach EOF long before the process is gone.                              *)
(***************************************************************************)
EXTENDS Naturals, Sequences, FiniteSets

CONSTANTS
    MaxClient,      \* client connections, each running one command at a time
    MaxEntries,     \* bound: entries ever created for the id
    MaxProcs,       \* bound: device processes ever spawned
    MaxRecoveries,  \* cfg_.max_recovery_attempts
    MaxEvents       \* bound: commands, crashes and failed writes together

Entries == 1 .. MaxEntries
Procs == 1 .. MaxProcs
Clients == 1 .. MaxClient
Drain == 0                      \* the shutdown path as an agent
Agents == Clients \cup {Drain}
Mon == MaxClient + 1            \* op_mu is held by the entry's monitor
Free == MaxClient + 2           \* op_mu is not held

VARIABLES
    reg,     \* [current, reserved, shutdown, stopping, entries, procs]
    entry,   \* DeviceEntry, one per create
    proc,    \* Child and the process behind it, one per generation
    agent,   \* the handler frames and the shutdown path
    sig,     \* a SIGCHLD the reaper has not consumed
    budget   \* commands, crashes and failed writes left

vars == <<reg, entry, proc, agent, sig, budget>>

-----------------------------------------------------------------------------
(* State *)

\* The startup facts of a status line (StartupOwnerStatus).
NoFacts == [phase |-> "preparing", rel |-> 0, out |-> "none"]

\* Fields up to `kill` belong to the process, the others to Child.
NoProc ==
    [e |-> 0, alive |-> FALSE, phase |-> "none", rel |-> 0, out |-> "none",
     up |-> <<>>, down |-> <<>>, shut |-> FALSE, eof |-> FALSE,
     term |-> FALSE, kill |-> FALSE,
     reaped |-> FALSE, prot |-> FALSE, granted |-> FALSE, ready |-> FALSE,
     released |-> FALSE, relSeq |-> 0, seen |-> NoFacts, st |-> "starting",
     reached |-> FALSE]

NoEntry ==
    [child |-> 0, control |-> FALSE, destroying |-> FALSE, committing |-> FALSE,
     destroyBusy |-> FALSE, op |-> Free, grantSent |-> FALSE, stopSent |-> FALSE,
     cmd |-> 0, seq |-> 0, kind |-> "open", devId |-> FALSE, recoveries |-> 0,
     sealed |-> FALSE, mon |-> "none", line |-> "", next |-> 0]

Idle == [pc |-> "idle", e |-> 0, g |-> 0, n |-> 0, got |-> 0, set |-> FALSE,
         then |-> "idle", ok |-> FALSE]

Init ==
    /\ reg = [current |-> 0, reserved |-> FALSE, shutdown |-> FALSE,
              stopping |-> FALSE, entries |-> 0, procs |-> 0]
    /\ entry = [e \in Entries |-> NoEntry]
    /\ proc = [g \in Procs |-> NoProc]
    /\ agent = [a \in Agents |-> [Idle EXCEPT !.pc = IF a = Drain THEN "run" ELSE "idle"]]
    /\ sig = FALSE
    /\ budget = MaxEvents

Charge == budget' = budget - 1

-----------------------------------------------------------------------------
(* Child *)

\* try_reap: waitpid collects a process that has exited.
TryReap(p) ==
    IF p.alive THEN p ELSE [p EXCEPT !.reaped = TRUE, !.st = "exited", !.reached = TRUE]

\* terminate, kill: no signal to a reaped or a protected child; to a process
\* that has exited already it means nothing.
Terminate(p) == IF p.reaped \/ p.prot THEN p ELSE [p EXCEPT !.term = p.alive]
Kill(p) == IF p.reaped \/ p.prot THEN p ELSE [p EXCEPT !.kill = p.alive]

\* protect_startup
CanProtect(p) == ~p.reaped /\ ~p.ready /\ ~p.released
Protect(p) == [p EXCEPT !.prot = TRUE, !.granted = TRUE]

\* admit_startup_release: a refused request is followed by a new sequence,
\* any other is repeated under its old one.
ReleaseSequence(p) ==
    IF p.relSeq = 0 \/ (p.seen.rel = p.relSeq /\ p.seen.out = "refused")
    THEN p.relSeq + 1
    ELSE p.relSeq

\* observe_startup: which facts are believed, and what they change.
Believable(p, f) ==
    /\ f.rel <= p.relSeq
    /\ f.out = "released" => f.rel = p.relSeq
    /\ f.rel >= p.seen.rel
    /\ f.phase = "ready" => /\ p.seen.rel = 0
                            /\ p.granted
                            /\ f.rel = 0
    /\ p.released => f.phase = "released"
    /\ p.ready => f.phase \in {"ready", "released"}

Observe(p, f, readyReport) ==
    [p EXCEPT !.seen = f,
              !.released = @ \/ f.phase = "released",
              !.ready = @ \/ (f.phase = "ready" /\ readyReport),
              !.prot = @ /\ f.phase # "released" /\ ~(f.phase = "ready" /\ readyReport)]

\* update_status: a reaped child keeps its exit state; `reached` is ready_event.
UpdateStatus(p, st) ==
    [p EXCEPT !.st = IF p.reaped THEN @ ELSE st,
              !.reached = @ \/ st \in {"ready", "failed", "exited"}]

-----------------------------------------------------------------------------
(* The device process *)

Facts(p) == [phase |-> p.phase, rel |-> p.rel, out |-> p.out]

\* The state word of a status line.
Word(p) ==
    CASE p.phase \in {"preparing", "starting"} -> "starting"
      [] p.phase \in {"retained", "releasing"} -> "failed"
      [] p.phase = "ready" -> "ready"
      [] p.phase = "released" -> IF p.out = "released" THEN "stopped" ELSE "failed"

StatusLine(p) == [n |-> 0, facts |-> Facts(p), word |-> Word(p)]

Live(g) == proc[g].alive /\ ~proc[g].eof

Become(g, p) ==
    /\ proc' = [proc EXCEPT ![g] = p]
    /\ UNCHANGED <<reg, entry, agent>>

\* The observer coroutine reports every phase it finds.  Only the first report
\* of a phase tells the supervisor something; that of "starting" never does.
Enter(p, phase, out) ==
    LET q == [p EXCEPT !.phase = phase, !.out = out] IN
    [q EXCEPT !.up = Append(@, StatusLine(q))]

\* Child::spawn: a process with its own control channel, waiting for its grant.
Spawned(e) == Enter([NoProc EXCEPT !.e = e, !.alive = TRUE], "preparing", "none")

\* startup_begin grants; startup_release asks for the release of the startup.
\* Before the grant, release_before_start ends the owner at once.
DevStartup(g) ==
    LET p == proc[g]
        c == Head(p.down)
        q == [p EXCEPT !.down = Tail(@)]
    IN
    /\ Live(g)
    /\ p.down # <<>>
    /\ c.kind \in {"grant", "release"}
    /\ Become(g,
         CASE c.kind = "grant" /\ p.phase = "preparing" ->
                [q EXCEPT !.phase = "starting"]
           [] c.kind = "release" /\ p.phase = "preparing" ->
                Enter([q EXCEPT !.rel = c.n], "released", "released")
           [] c.kind = "release" /\ p.phase \in {"starting", "retained"} /\ c.n > p.rel ->
                Enter([q EXCEPT !.rel = c.n], "releasing", "pending")
           [] OTHER -> q)
    /\ UNCHANGED <<sig, budget>>

\* Startup ends: ready to serve, failed without a kernel obligation, or failed
\* with one, which is retained until it is released.
DevStarted(g) ==
    LET p == proc[g] IN
    /\ Live(g)
    /\ p.phase = "starting"
    /\ \E phase \in {"ready", "retained", "released"} : Become(g, Enter(p, phase, p.out))
    /\ UNCHANGED <<sig, budget>>

\* An accepted release retires the owner or is refused.
DevReleased(g) ==
    LET p == proc[g] IN
    /\ Live(g)
    /\ p.phase = "releasing"
    /\ \/ Become(g, Enter(p, "released", "released"))
       \/ Become(g, Enter(p, "retained", "refused"))
    /\ UNCHANGED <<sig, budget>>

\* A command is answered with its own sequence number.
DevCommand(g) ==
    LET p == proc[g] IN
    /\ Live(g)
    /\ p.phase = "ready"
    /\ p.down # <<>>
    /\ Head(p.down).kind = "command"
    /\ Become(g, [p EXCEPT !.down = Tail(@),
                           !.up = Append(@, [n |-> Head(p.down).n, facts |-> NoFacts,
                                             word |-> "reply"])])
    /\ UNCHANGED <<sig, budget>>

\* A device that waits for its grant leaves when its parent's channel ends.
DevAbandoned(g) ==
    LET p == proc[g] IN
    /\ Live(g)
    /\ p.phase = "preparing"
    /\ p.shut
    /\ p.down = <<>>
    /\ Become(g, Enter(p, "released", "none"))
    /\ UNCHANGED <<sig, budget>>

\* The signal observer: SIGTERM before serving is refused.  A serving device
\* stops, and its channel ends while the kernel device is still being removed.
DevTerm(g) ==
    LET p == proc[g] IN
    /\ Live(g)
    /\ p.term
    /\ Become(g, IF p.phase = "ready" THEN [p EXCEPT !.term = FALSE, !.eof = TRUE]
                 ELSE [p EXCEPT !.term = FALSE])
    /\ UNCHANGED <<sig, budget>>

\* What is left of a process that is gone: the lines it wrote.
Gone(p) == [p EXCEPT !.alive = FALSE, !.eof = TRUE, !.down = <<>>,
                     !.shut = FALSE, !.term = FALSE, !.kill = FALSE]

\* The process is gone: after its shutdown, after its terminal report, or killed.
DevExit(g) ==
    LET p == proc[g] IN
    /\ p.alive
    /\ p.eof \/ p.kill \/ p.phase = "released"
    /\ Become(g, Gone(p))
    /\ sig' = TRUE
    /\ UNCHANGED budget

DevCrash(g) ==
    /\ proc[g].alive
    /\ budget > 0
    /\ Become(g, Gone(proc[g]))
    /\ sig' = TRUE
    /\ Charge

Device(g) ==
    \/ DevStartup(g) \/ DevStarted(g) \/ DevReleased(g)
    \/ DevCommand(g) \/ DevAbandoned(g) \/ DevTerm(g) \/ DevExit(g)

-----------------------------------------------------------------------------
(* supervise_entry: the entry's monitor *)

SetMon(e, pc) == entry' = [entry EXCEPT ![e].mon = pc]

MonStart(e) ==
    /\ entry[e].mon = "start"
    /\ entry' = [entry EXCEPT ![e].mon = "read", ![e].control = TRUE]
    /\ UNCHANGED <<reg, proc, agent, sig, budget>>

\* The handlers whose command is the entry's active one.
Waiting(e, n) ==
    {a \in Clients : agent[a].e = e /\ agent[a].n = n /\ agent[a].pc \in {"wait", "collect"}}

\* Mutated RouteTo: a reply completes whatever command is active.
RouteToActive(e, n) == IF entry[e].cmd = 0 THEN {} ELSE Waiting(e, entry[e].cmd)

\* The reply completes the active command it names; past its deadline it only
\* retires it.
RouteTo(e, n) == IF entry[e].cmd = n THEN Waiting(e, n) ELSE {}

\* route_device_reply
MonReply(e) ==
    LET g == entry[e].child
        n == Head(proc[g].up).n
    IN
    /\ entry[e].mon = "read"
    /\ proc[g].up # <<>>
    /\ n > 0
    /\ proc' = [proc EXCEPT ![g].up = Tail(@)]
    /\ \E inTime \in BOOLEAN :
          agent' = [a \in Agents |->
                      IF inTime /\ a \in RouteTo(e, n)
                      THEN [agent[a] EXCEPT !.set = TRUE, !.got = n]
                      ELSE agent[a]]
    /\ entry' = [entry EXCEPT ![e].cmd = IF RouteTo(e, n) = {} THEN @ ELSE 0]
    /\ UNCHANGED <<reg, sig, budget>>

MonStatus(e) ==
    LET g == entry[e].child
        p == proc[g]
        l == Head(p.up)
        q == [p EXCEPT !.up = Tail(@)]
    IN
    /\ entry[e].mon = "read"
    /\ p.up # <<>>
    /\ l.n = 0
    /\ IF Believable(p, l.facts)
       THEN /\ proc' = [proc EXCEPT ![g] = Observe(q, l.facts, l.word = "ready")]
            /\ entry' = [entry EXCEPT ![e].line = l.word, ![e].mon =
                             IF l.facts.phase = "preparing" THEN "grant" ELSE "update"]
       ELSE /\ proc' = [proc EXCEPT ![g] = q]
            /\ UNCHANGED entry
    /\ UNCHANGED <<reg, agent, sig, budget>>

\* Mutated MayGrant: the pending shutdown is not looked at.
MayGrantLate(e) ==
    LET p == proc[entry[e].child] IN
    /\ p.seen.phase = "preparing"
    /\ p.seen.rel = 0
    /\ ~entry[e].destroying
    /\ ~entry[e].grantSent
    /\ CanProtect(p)

\* maybe_grant_startup, first half: protection is installed under mu_.
MayGrant(e) ==
    LET p == proc[entry[e].child] IN
    /\ p.seen.phase = "preparing"
    /\ p.seen.rel = 0
    /\ ~reg.shutdown
    /\ ~reg.stopping
    /\ ~entry[e].destroying
    /\ ~entry[e].grantSent
    /\ CanProtect(p)

Protected(e) == [proc EXCEPT ![entry[e].child] = Protect(@)]

MonGrant(e) ==
    /\ entry[e].mon = "grant"
    /\ IF MayGrant(e)
       THEN /\ proc' = Protected(e)
            /\ SetMon(e, "write")
       ELSE /\ SetMon(e, "update")
            /\ UNCHANGED proc
    /\ UNCHANGED <<reg, agent, sig, budget>>

\* write_device_line: the line arrives whole, or the write side is shut down.
\* Nothing arrives at a channel that has ended.
Sent(p, c) == IF p.shut \/ p.eof THEN p ELSE [p EXCEPT !.down = Append(@, c)]
Reaches(p) == ~p.shut /\ ~p.eof

\* maybe_grant_startup, second half.
MonGrantWrite(e) ==
    LET g == entry[e].child IN
    /\ entry[e].mon = "write"
    /\ \/ /\ proc' = [proc EXCEPT ![g] = Sent(@, [kind |-> "grant", n |-> 0])]
          /\ entry' = [entry EXCEPT ![e].mon = "update", ![e].grantSent = Reaches(proc[g])]
          /\ UNCHANGED budget
       \/ /\ budget > 0
          /\ proc' = [proc EXCEPT ![g].shut = TRUE]
          /\ SetMon(e, "update")
          /\ Charge
    /\ UNCHANGED <<reg, agent, sig>>

MonUpdate(e) ==
    LET g == entry[e].child
        word == entry[e].line
    IN
    /\ entry[e].mon = "update"
    /\ proc' = [proc EXCEPT ![g] = UpdateStatus(@, word)]
    /\ entry' = [entry EXCEPT ![e].mon = "read", ![e].line = "",
                              ![e].devId = @ \/ word = "ready"]
    /\ UNCHANGED <<reg, agent, sig, budget>>

\* monitor_cancel_ ends the reader too.
Cancelled == agent[Drain].pc \in {"monitors", "done"}

\* End of the channel: the active command fails, and EOF is not process exit.
MonEof(e) ==
    LET g == entry[e].child IN
    /\ entry[e].mon = "read"
    /\ (proc[g].up = <<>> /\ proc[g].eof) \/ Cancelled
    /\ agent' = [a \in Agents |->
                   IF entry[e].cmd # 0 /\ a \in Waiting(e, entry[e].cmd)
                   THEN [agent[a] EXCEPT !.set = TRUE] ELSE agent[a]]
    /\ entry' = [entry EXCEPT ![e].mon = "decide", ![e].control = FALSE, ![e].cmd = 0]
    /\ proc' = [proc EXCEPT ![g] =
                  UpdateStatus(@, IF @.prot THEN "failed" ELSE "exited")]
    /\ UNCHANGED <<reg, sig, budget>>

GivesUp(e) ==
    \/ reg.stopping \/ reg.shutdown
    \/ proc[entry[e].child].prot
    \/ entry[e].destroying

MonDecide(e) ==
    /\ entry[e].mon = "decide"
    /\ IF GivesUp(e) \/ ~entry[e].devId \/ entry[e].recoveries >= MaxRecoveries
       THEN SetMon(e, "gone") /\ UNCHANGED proc
       ELSE /\ SetMon(e, "await")
            /\ proc' = [proc EXCEPT ![entry[e].child] = TryReap(@)]
    /\ UNCHANGED <<reg, agent, sig, budget>>

MonAwait(e) ==
    /\ entry[e].mon = "await"
    /\ proc[entry[e].child].reaped \/ Cancelled
    /\ SetMon(e, IF Cancelled THEN "gone" ELSE "lock")
    /\ UNCHANGED <<reg, proc, agent, sig, budget>>

MonLock(e) ==
    /\ entry[e].mon = "lock"
    /\ entry[e].op = Free
    /\ entry' = [entry EXCEPT ![e].mon = "recheck", ![e].op = Mon]
    /\ UNCHANGED <<reg, proc, agent, sig, budget>>

\* Mutated Respawn: nothing is looked at again once op_mu is held.
RespawnBlind(e) ==
    /\ IF reg.procs < MaxProcs
       THEN /\ reg' = [reg EXCEPT !.procs = @ + 1]
            /\ proc' = [proc EXCEPT ![reg.procs + 1] = Spawned(e)]
            /\ entry' = [entry EXCEPT ![e].mon = "install", ![e].next = reg.procs + 1]
       ELSE /\ entry' = [entry EXCEPT ![e].mon = "gone", ![e].op = Free]
            /\ UNCHANGED <<reg, proc>>

\* Under op_mu: give up, also on a process that is not collected, or spawn the
\* replacement.
Respawn(e) ==
    IF ~GivesUp(e) /\ proc[entry[e].child].reaped /\ reg.procs < MaxProcs
    THEN /\ reg' = [reg EXCEPT !.procs = @ + 1]
         /\ proc' = [proc EXCEPT ![reg.procs + 1] = Spawned(e)]
         /\ entry' = [entry EXCEPT ![e].mon = "install", ![e].next = reg.procs + 1]
    ELSE /\ entry' = [entry EXCEPT ![e].mon = "gone", ![e].op = Free]
         /\ UNCHANGED <<reg, proc>>

MonRespawn(e) ==
    /\ entry[e].mon = "recheck"
    /\ Respawn(e)
    /\ UNCHANGED <<agent, sig, budget>>

MonInstall(e) ==
    /\ entry[e].mon = "install"
    /\ entry' = [entry EXCEPT ![e].mon = "start", ![e].op = Free,
                              ![e].child = entry[e].next, ![e].next = 0,
                              ![e].recoveries = @ + 1, ![e].grantSent = FALSE,
                              ![e].stopSent = FALSE]
    /\ UNCHANGED <<reg, proc, agent, sig, budget>>

Monitor(e) ==
    \/ MonStart(e) \/ MonReply(e) \/ MonStatus(e) \/ MonGrant(e)
    \/ MonGrantWrite(e) \/ MonUpdate(e) \/ MonEof(e) \/ MonDecide(e)
    \/ MonAwait(e) \/ MonLock(e) \/ MonRespawn(e) \/ MonInstall(e)

\* One sweep of the reaper over the registered child; a sweep that collected
\* one is repeated.
Reaper ==
    LET e == reg.current IN
    /\ sig
    /\ IF e # 0 /\ ~proc[entry[e].child].reaped /\ ~proc[entry[e].child].alive
       THEN /\ proc' = [proc EXCEPT ![entry[e].child] = TryReap(@)]
            /\ UNCHANGED sig
       ELSE /\ sig' = FALSE
            /\ UNCHANGED proc
    /\ UNCHANGED <<reg, entry, agent, budget>>

-----------------------------------------------------------------------------
(* stop_child_and_reap, shared by destroy, commit, a failed create and the   *)
(* shutdown path: `then` is where the caller resumes, `ok` what it is told.  *)

Step(a, from, to) == agent[a].pc = from /\ agent' = [agent EXCEPT ![a].pc = to]

Return(a, ok) == agent' = [agent EXCEPT ![a].pc = agent[a].then, ![a].ok = ok]

StopBegin(a) ==
    LET g == agent[a].g
        p == TryReap(proc[g])
    IN
    /\ agent[a].pc = "stop"
    /\ IF proc[g].prot THEN Return(a, FALSE) /\ UNCHANGED proc
       ELSE IF p.reaped THEN Return(a, TRUE) /\ proc' = [proc EXCEPT ![g] = p]
       ELSE Step(a, "stop", "stopWait") /\ proc' = [proc EXCEPT ![g] = Terminate(p)]
    /\ UNCHANGED <<reg, entry, sig, budget>>

\* Reaped in time, or the timeout escalates to SIGKILL.
StopWait(a) ==
    LET g == agent[a].g
        p == TryReap(proc[g])
    IN
    /\ agent[a].pc = "stopWait"
    /\ proc' = [proc EXCEPT ![g] = IF p.reaped THEN p ELSE Kill(p)]
    /\ IF p.reaped THEN Return(a, TRUE) ELSE Step(a, "stopWait", "killWait")
    /\ UNCHANGED <<reg, entry, sig, budget>>

KillWait(a) ==
    LET g == agent[a].g
        p == TryReap(proc[g])
    IN
    /\ agent[a].pc = "killWait"
    /\ proc' = [proc EXCEPT ![g] = p]
    /\ Return(a, p.reaped)
    /\ UNCHANGED <<reg, entry, sig, budget>>

StopChild(a) == StopBegin(a) \/ StopWait(a) \/ KillWait(a)

-----------------------------------------------------------------------------
(* Client commands *)

\* handle_client: no command is read once the daemon is stopping, and after
\* shutdown was requested only the reading ones and destroy are served.
\* Connections are interchangeable: the first idle one takes the command.
Admits(c) ==
    /\ agent[c].pc = "idle"
    /\ \A d \in 1 .. (c - 1) : agent[d].pc # "idle"
    /\ budget > 0
    /\ ~reg.stopping

Done(c) == agent' = [agent EXCEPT ![c] = Idle]

\* cmd_create: the id is reserved, the child spawned privately, then published.
CreateAdmit(c) ==
    /\ Admits(c)
    /\ ~reg.shutdown
    /\ reg.current = 0
    /\ ~reg.reserved
    /\ reg.entries < MaxEntries
    /\ reg.procs < MaxProcs
    /\ reg' = [reg EXCEPT !.reserved = TRUE]
    /\ Charge
    /\ agent' = [agent EXCEPT ![c].pc = "spawn"]
    /\ UNCHANGED <<entry, proc, sig>>

CreateSpawn(c) ==
    LET e == reg.entries + 1
        g == reg.procs + 1
    IN
    /\ agent[c].pc = "spawn"
    /\ \/ /\ reg.procs < MaxProcs
          /\ reg' = [reg EXCEPT !.entries = e, !.procs = g]
          /\ entry' = [entry EXCEPT ![e] = [NoEntry EXCEPT !.child = g]]
          /\ proc' = [proc EXCEPT ![g] = Spawned(e)]
          /\ agent' = [agent EXCEPT ![c].pc = "publish", ![c].e = e, ![c].g = g]
          /\ UNCHANGED budget
       \/ /\ budget > 0 \/ reg.procs = MaxProcs
          /\ budget' = IF budget = 0 THEN 0 ELSE budget - 1
          /\ reg' = [reg EXCEPT !.reserved = FALSE]
          /\ Done(c)
          /\ UNCHANGED <<entry, proc>>
    /\ UNCHANGED sig

CreatePublish(c) ==
    /\ Step(c, "publish", "ready")
    /\ reg' = [reg EXCEPT !.current = agent[c].e, !.reserved = FALSE]
    /\ entry' = [entry EXCEPT ![agent[c].e].mon = "start"]
    /\ UNCHANGED <<proc, sig, budget>>

\* The ready wait ends with the event or the timeout.  A device that is not
\* ready is told to stop; its entry stays.  Whether the create asked for mkfs is
\* chosen where it first matters: here, or by a commit that comes earlier.
CreateReady(c) ==
    LET g == agent[c].g
        e == agent[c].e
    IN
    /\ agent[c].pc = "ready"
    /\ \/ /\ proc[g].reached
          /\ proc[g].st = "ready"
          /\ \/ /\ entry[e].kind = "open"
                /\ Step(c, "ready", "mkfs")
                /\ entry' = [entry EXCEPT ![e].kind = "mkfs"]
             \/ /\ Done(c)
                /\ entry' = [entry EXCEPT ![e].kind = "plain"]
          /\ UNCHANGED proc
       \/ /\ Done(c)
          /\ entry' = [entry EXCEPT ![e].kind = "plain"]
          /\ proc' = [proc EXCEPT ![g] = Terminate(@)]
    /\ UNCHANGED <<reg, sig, budget>>

\* The host mkfs ends; its failure removes the device again.
CreateMkfs(c) ==
    /\ agent[c].pc = "mkfs"
    /\ Done(c) \/ Step(c, "mkfs", "erase")
    /\ UNCHANGED <<reg, entry, proc, sig, budget>>

\* stop_entry_and_erase: exactly this entry, wherever the id has gone since.
EraseAdmit(c) ==
    LET e == agent[c].e IN
    /\ agent[c].pc = "erase"
    /\ entry' = [entry EXCEPT ![e].destroying = TRUE]
    /\ IF reg.current = e THEN Step(c, "erase", "eraseLock") ELSE Done(c)
    /\ UNCHANGED <<reg, proc, sig, budget>>

EraseLock(c) ==
    LET e == agent[c].e IN
    /\ agent[c].pc = "eraseLock"
    /\ entry[e].op = Free
    /\ entry' = [entry EXCEPT ![e].op = c]
    /\ agent' = [agent EXCEPT ![c].pc = "stop", ![c].g = entry[e].child, ![c].then = "erased"]
    /\ UNCHANGED <<reg, proc, sig, budget>>

EraseUnlock(c) ==
    /\ agent[c].pc = "erased"
    /\ entry' = [entry EXCEPT ![agent[c].e].op = Free]
    /\ IF agent[c].ok THEN Step(c, "erased", "unlist") ELSE Done(c)
    /\ UNCHANGED <<reg, proc, sig, budget>>

\* Mutated Unlisted: erased by id instead of by identity.
UnlistedById(e) == [reg EXCEPT !.current = 0]

\* The registry without the entry e.
Unlisted(e) == [reg EXCEPT !.current = IF @ = e THEN 0 ELSE @]

EraseFinish(c) ==
    /\ agent[c].pc = "unlist"
    /\ reg' = Unlisted(agent[c].e)
    /\ Done(c)
    /\ UNCHANGED <<entry, proc, sig, budget>>

Create(c) ==
    \/ CreateSpawn(c) \/ CreatePublish(c) \/ CreateReady(c) \/ CreateMkfs(c)
    \/ EraseAdmit(c) \/ EraseLock(c) \/ EraseUnlock(c) \/ EraseFinish(c)

\* cmd_destroy
DestroyAdmit(c) ==
    LET e == reg.current IN
    /\ Admits(c)
    /\ e # 0
    /\ ~entry[e].committing
    /\ ~entry[e].destroyBusy
    /\ entry' = [entry EXCEPT ![e].destroying = TRUE, ![e].destroyBusy = TRUE]
    /\ agent' = [agent EXCEPT ![c].pc = "destroyLock", ![c].e = e]
    /\ Charge
    /\ UNCHANGED <<reg, proc, sig>>

\* op_mu pins the generation.
DestroyLock(c) ==
    LET e == agent[c].e
        g == entry[e].child
    IN
    /\ agent[c].pc = "destroyLock"
    /\ entry[e].op = Free
    /\ entry' = [entry EXCEPT ![e].op = c]
    /\ agent' = [agent EXCEPT ![c].pc = IF proc[g].prot THEN "release" ELSE "stop",
                              ![c].g = g, ![c].then = "destroyed"]
    /\ UNCHANGED <<reg, proc, sig, budget>>

\* release_child_and_reap: the operator's release of a protected startup.
ReleaseAdmit(c) ==
    LET g == agent[c].g
        p == proc[g]
        n == ReleaseSequence(p)
    IN
    /\ agent[c].pc = "release"
    /\ IF ~entry[agent[c].e].control \/ p.reaped \/ ~p.prot
       THEN Return(c, FALSE) /\ UNCHANGED proc
       ELSE /\ proc' = [proc EXCEPT ![g].relSeq = n]
            /\ agent' = [agent EXCEPT ![c].pc = "releaseWrite", ![c].n = n]
    /\ UNCHANGED <<reg, entry, sig, budget>>

ReleaseWrite(c) ==
    LET g == agent[c].g IN
    /\ agent[c].pc = "releaseWrite"
    /\ \/ /\ proc' = [proc EXCEPT ![g] = Sent(@, [kind |-> "release", n |-> agent[c].n])]
          /\ IF Reaches(proc[g]) THEN Step(c, "releaseWrite", "poll") ELSE Return(c, FALSE)
          /\ UNCHANGED budget
       \/ /\ budget > 0
          /\ proc' = [proc EXCEPT ![g].shut = TRUE]
          /\ Return(c, FALSE)
          /\ Charge
    /\ UNCHANGED <<reg, entry, sig>>

\* Protection ended: stop.  Refused, reaped under protection, or the deadline:
\* give up without a signal.
ReleasePoll(c) ==
    /\ agent[c].pc = "poll"
    /\ IF proc[agent[c].g].prot THEN Return(c, FALSE) ELSE Step(c, "poll", "stop")
    /\ UNCHANGED <<reg, entry, proc, sig, budget>>

DestroyUnlock(c) ==
    /\ Step(c, "destroyed", "finalize")
    /\ entry' = [entry EXCEPT ![agent[c].e].op = Free]
    /\ UNCHANGED <<reg, proc, sig, budget>>

DestroyFinish(c) ==
    LET e == agent[c].e IN
    /\ agent[c].pc = "finalize"
    /\ reg' = IF agent[c].ok THEN Unlisted(e) ELSE reg
    /\ entry' = [entry EXCEPT ![e].destroyBusy = FALSE]
    /\ Done(c)
    /\ UNCHANGED <<proc, sig, budget>>

Destroy(c) ==
    \/ DestroyLock(c) \/ ReleaseAdmit(c) \/ ReleaseWrite(c) \/ ReleasePoll(c)
    \/ DestroyUnlock(c) \/ DestroyFinish(c)

\* cmd_commit.  A device formatted by the host's mkfs is never sealed, so its
\* commit changes nothing.
CommitAdmit(c) ==
    LET e == reg.current IN
    /\ Admits(c)
    /\ ~reg.shutdown
    /\ e # 0
    /\ ~entry[e].committing
    /\ ~entry[e].destroyBusy
    /\ ~proc[entry[e].child].prot
    /\ entry[e].kind # "mkfs"
    /\ entry' = [entry EXCEPT ![e].committing = TRUE, ![e].kind = "plain"]
    /\ agent' = [agent EXCEPT ![c].pc = "commitLock", ![c].e = e]
    /\ Charge
    /\ UNCHANGED <<reg, proc, sig>>

CommitLock(c) ==
    LET e == agent[c].e IN
    /\ agent[c].pc = "commitLock"
    /\ entry[e].op = Free
    /\ entry' = [entry EXCEPT ![e].op = c]
    /\ agent' = [agent EXCEPT ![c].pc = "commitStop"]
    /\ UNCHANGED <<reg, proc, sig, budget>>

\* commit_stop_and_seal under op_mu: from here the device is stopped on purpose.
CommitStop(c) ==
    LET e == agent[c].e
        g == entry[e].child
    IN
    /\ agent[c].pc = "commitStop"
    /\ IF proc[g].prot
       THEN /\ agent' = [agent EXCEPT ![c].pc = "committed"]
            /\ UNCHANGED entry
       ELSE /\ entry' = [entry EXCEPT ![e].destroying = TRUE]
            /\ agent' = [agent EXCEPT ![c].pc = IF proc[g].reaped THEN "seal" ELSE "stop",
                                      ![c].g = g, ![c].then = "seal", ![c].ok = proc[g].reaped]
    /\ UNCHANGED <<reg, proc, sig, budget>>

\* seal_file, export_file, with op_mu held.  A device that did not stop is
\* never sealed underneath.
CommitSeal(c) ==
    /\ Step(c, "seal", "committed")
    /\ entry' = [entry EXCEPT ![agent[c].e].sealed = @ \/ agent[c].ok]
    /\ UNCHANGED <<reg, proc, sig, budget>>

\* op_mu goes first; the mark goes under mu_ once the handler has it.
CommitUnlock(c) ==
    /\ Step(c, "committed", "unlocked")
    /\ entry' = [entry EXCEPT ![agent[c].e].op = Free]
    /\ UNCHANGED <<reg, proc, sig, budget>>

CommitFinish(c) ==
    /\ agent[c].pc = "unlocked"
    /\ entry' = [entry EXCEPT ![agent[c].e].committing = FALSE]
    /\ Done(c)
    /\ UNCHANGED <<reg, proc, sig, budget>>

Commit(c) ==
    \/ CommitLock(c) \/ CommitStop(c) \/ CommitSeal(c) \/ CommitUnlock(c) \/ CommitFinish(c)

\* forward_device_command: one active command per entry.
ForwardAdmit(c) ==
    LET e == reg.current IN
    /\ Admits(c)
    /\ ~reg.shutdown
    /\ e # 0
    /\ entry[e].cmd = 0
    /\ entry[e].control
    /\ ~proc[entry[e].child].prot
    /\ proc[entry[e].child].st = "ready"
    /\ entry' = [entry EXCEPT ![e].seq = @ + 1, ![e].cmd = entry[e].seq + 1]
    /\ agent' = [agent EXCEPT ![c] = [Idle EXCEPT !.pc = "command", !.e = e,
                                                  !.g = entry[e].child, !.n = entry[e].seq + 1]]
    /\ Charge
    /\ UNCHANGED <<reg, proc, sig>>

\* The slot is given back only by its own command.
Cleared(e, n) == [entry EXCEPT ![e].cmd = IF @ = n THEN 0 ELSE @]

ForwardWrite(c) ==
    LET e == agent[c].e
        g == agent[c].g
    IN
    /\ agent[c].pc = "command"
    /\ \/ /\ proc' = [proc EXCEPT ![g] = Sent(@, [kind |-> "command", n |-> agent[c].n])]
          /\ IF Reaches(proc[g])
             THEN Step(c, "command", "wait") /\ UNCHANGED entry
             ELSE Done(c) /\ entry' = Cleared(e, agent[c].n)
          /\ UNCHANGED budget
       \/ /\ budget > 0
          /\ proc' = [proc EXCEPT ![g].shut = TRUE]
          /\ entry' = Cleared(e, agent[c].n)
          /\ Done(c)
          /\ Charge
    /\ UNCHANGED <<reg, sig>>

\* The waiter was set, or the timeout won.
ForwardWait(c) ==
    /\ agent[c].pc = "wait"
    /\ \E got \in BOOLEAN :
          /\ got => agent[c].set
          /\ agent' = [agent EXCEPT ![c].pc = "collect", ![c].ok = got]
    /\ UNCHANGED <<reg, entry, proc, sig, budget>>

\* Under mu_: a timeout gives the slot back; only a winner takes the reply.
ForwardCollect(c) ==
    LET e == agent[c].e IN
    /\ agent[c].pc = "collect"
    /\ entry' = Cleared(e, agent[c].n)
    /\ Done(c)
    /\ UNCHANGED <<reg, proc, sig, budget>>

Forward(c) == ForwardWrite(c) \/ ForwardWait(c) \/ ForwardCollect(c)

-----------------------------------------------------------------------------
(* run(): shutdown *)

\* One round of the maintenance loop, under mu_: admission closes, children are
\* told to stop once, and a protected owner or an unpublished create keeps the
\* daemon serving.
Retained == reg.reserved \/ (reg.current # 0 /\ proc[entry[reg.current].child].prot)

Maintenance ==
    LET e == reg.current
        tell == e # 0 /\ ~proc[entry[e].child].prot /\ ~entry[e].stopSent
    IN
    /\ reg' = [reg EXCEPT !.shutdown = TRUE, !.stopping = ~Retained]
    /\ agent' = [agent EXCEPT ![Drain].pc = IF Retained THEN "maintain" ELSE "clients"]
    /\ IF tell
       THEN /\ proc' = [proc EXCEPT ![entry[e].child] = Terminate(@)]
            /\ entry' = [entry EXCEPT ![e].stopSent = TRUE]
       ELSE UNCHANGED <<proc, entry>>
    /\ UNCHANGED <<sig, budget>>

ShutdownSignal == agent[Drain].pc = "run" /\ Maintenance

ShutdownMaintain == agent[Drain].pc = "maintain" /\ Maintenance

\* Drain::accepts, Drain::clients
DrainClients ==
    /\ Step(Drain, "clients", "children")
    /\ \A c \in Clients : agent[c].pc = "idle"
    /\ UNCHANGED <<reg, entry, proc, sig, budget>>

\* Drain::children
DrainChildren ==
    LET e == reg.current IN
    /\ agent[Drain].pc = "children"
    /\ IF e = 0
       THEN /\ Step(Drain, "children", "monitors")
            /\ UNCHANGED entry
       ELSE /\ entry' = [entry EXCEPT ![e].destroying = TRUE]
            /\ agent' = [agent EXCEPT ![Drain].pc = "childLock", ![Drain].e = e]
    /\ UNCHANGED <<reg, proc, sig, budget>>

DrainLock ==
    LET e == agent[Drain].e IN
    /\ agent[Drain].pc = "childLock"
    /\ entry[e].op = Free
    /\ entry' = [entry EXCEPT ![e].op = Drain]
    /\ agent' = [agent EXCEPT ![Drain].pc = "stop", ![Drain].g = entry[e].child,
                              ![Drain].then = "childDone"]
    /\ UNCHANGED <<reg, proc, sig, budget>>

DrainUnlock ==
    /\ agent[Drain].pc = "childDone"
    /\ entry' = [entry EXCEPT ![agent[Drain].e].op = Free]
    /\ agent' = [agent EXCEPT ![Drain].pc = IF agent[Drain].ok THEN "monitors" ELSE "children"]
    /\ UNCHANGED <<reg, proc, sig, budget>>

\* Drain::monitors, Drain::reaper
DrainMonitors ==
    /\ Step(Drain, "monitors", "done")
    /\ \A e \in Entries : entry[e].mon \in {"none", "gone"}
    /\ UNCHANGED <<reg, entry, proc, sig, budget>>

Shutdown ==
    \/ ShutdownMaintain \/ DrainClients \/ DrainChildren \/ DrainLock
    \/ DrainUnlock \/ DrainMonitors \/ StopChild(Drain)

-----------------------------------------------------------------------------
(* Specification *)

Handler(c) == Create(c) \/ Destroy(c) \/ Commit(c) \/ Forward(c) \/ StopChild(c)

\* The daemon's own coroutines, once a command or the shutdown has started them.
Daemon ==
    \/ \E c \in Clients : Handler(c)
    \/ \E e \in Entries : Monitor(e)
    \/ Reaper
    \/ Shutdown

Next ==
    \/ \E c \in Clients : \/ CreateAdmit(c) \/ DestroyAdmit(c)
                          \/ CommitAdmit(c) \/ ForwardAdmit(c)
    \/ ShutdownSignal
    \/ \E g \in Procs : Device(g) \/ DevCrash(g)
    \/ Daemon

\* The scheduler never stops running the daemon's coroutines (a wait may end by
\* its timeout), and a process that was killed or has finished exits.  Nobody is
\* obliged to send a command, to crash or to request the shutdown.
Fairness == WF_vars(Daemon) /\ WF_vars(\E g \in Procs : DevExit(g))

Spec == Init /\ [][Next]_vars /\ Fairness

-----------------------------------------------------------------------------
(* Properties *)

\* Two device processes never own the id's writable upper at once, neither
\* across a crash recovery nor across a destroy and a new create, and an upper
\* that commit has begun to seal has no process left, now or later: EOF is not
\* process exit, and op_mu keeps a recovery from booting behind the seal
\* (supervise_entry, commit_stop_and_seal).
UpperHasOneOwner ==
    /\ \A g, h \in Procs : proc[g].alive /\ proc[h].alive => g = h
    /\ \A g \in Procs : proc[g].alive => ~entry[proc[g].e].sealed

\* A process the daemon has not collected is always reachable: through the
\* registry, the recovery that installs it or the create that publishes it.  A
\* stale failure path never erases a newer device of the same id
\* (stop_entry_and_erase, cmd_destroy), and a finished shutdown leaves nobody.
NoStrayDevice ==
    /\ \A g \in Procs : proc[g].e # 0 /\ ~proc[g].reaped =>
          \/ reg.current = proc[g].e /\ g \in {entry[proc[g].e].child, entry[proc[g].e].next}
          \/ \E c \in Clients : agent[c].pc = "publish" /\ agent[c].g = g
    /\ agent[Drain].pc = "done" => \A g \in Procs : ~proc[g].alive

\* A command is answered by the reply to that command and no other, whatever
\* commands before it timed out and however late their replies arrive
\* (forward_device_command, route_device_reply).
RepliesAreOwn ==
    \A c \in Clients :
        agent[c].pc = "collect" /\ agent[c].ok => agent[c].got \in {0, agent[c].n}

\* Once the daemon begins to stop it gets through: handlers end, the child is
\* stopped and collected although a recovery may have been installing another,
\* and the monitors leave (run, the Drain stages).
ShutdownEnds == reg.stopping ~> agent[Drain].pc = "done"

=============================================================================
