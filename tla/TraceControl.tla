----------------------------- MODULE TraceControl -----------------------------
(***************************************************************************)
(* A device that serves: the trace recorder with its duration timer, the   *)
(* device's control loop (trace_start, trace_stop, resize), the resize gate*)
(* and the shutdown of device_main, and the trace status that the          *)
(* supervisor keeps from the lines it receives.                            *)
(*                                                                         *)
(* A recording is known by its number.  A read is one record or extends the*)
(* last one; what a trace blob holds is counted in reads.  Output paths,   *)
(* digests and error texts are left out.                                   *)
(***************************************************************************)
EXTENDS Naturals, Sequences, FiniteSets

CONSTANTS
    MaxRecs,     \* bound: recordings
    MaxCmds,     \* bound: commands sent to the device
    MaxReads,    \* bound: fully satisfied on-demand reads of the guest
    MaxPending,  \* the recorder's buffer, in records
    Sizes,       \* sizes a resize may ask for
    Faults       \* bound: I/O failures, timeouts and the death of the device

ASSUME TraceAssumption == MaxRecs \in Nat /\ Sizes \subseteq Nat

VARIABLES
    rec,         \* TraceRecorder's state under its mutex
    result,      \* recording -> its FinalizeCompletion
    timer,       \* recording -> its duration timer
    slot,        \* timer_drain_: the recording whose timer is kept, or 0
    call,        \* actor -> its stop() call
    heard,       \* recording -> reads offered while it was recording
    reads,       \* reads so far
    ctl,         \* the control loop
    tgate, rgate,\* who holds trace_start_gate and resize_gate
    main,        \* where device_main is
    hdr, dsize, trailer,   \* layer size, device size, size in the checkpoint
    chan, up,    \* lines to the device and from it
    active,      \* the supervisor's pending command
    seq, trace,  \* its last sequence number and its trace status
    eof, dead, budget

Recs == 1..MaxRecs
Ctl == 0
Main == MaxRecs + 1
Actors == Recs \cup {Ctl, Main}

recorder == <<rec, result, timer, slot, call, heard>>
sizes == <<hdr, dsize, trailer>>
super == <<active, seq, trace, eof>>
vars == <<recorder, reads, ctl, tgate, rgate, main, sizes, chan, up, super, dead, budget>>

NoResult == [rid |-> 0, kept |-> 0, dropped |-> 0, ok |-> FALSE]
NoCall == [pc |-> "idle", join |-> 0, own |-> 0, want |-> 0, drain |-> 0, res |-> NoResult]
NoCmd == [kind |-> "none", seq |-> 0, size |-> 0]

Init ==
    /\ rec = [st |-> "Idle", rid |-> 0, entries |-> 0, kept |-> 0, dropped |-> 0,
              last |-> NoResult]
    /\ result = [r \in Recs |-> NoResult]
    /\ timer = [r \in Recs |-> [pc |-> "none", cancelled |-> FALSE]]
    /\ slot = 0
    /\ call = [a \in Actors |-> NoCall]
    /\ heard = [r \in Recs |-> 0]
    /\ reads = 0
    /\ ctl = [pc |-> "read", cmd |-> NoCmd]
    /\ tgate = FALSE /\ rgate = FALSE
    /\ main = "serve"
    /\ hdr = 1 /\ dsize = 1 /\ trailer = 0
    /\ chan = <<>> /\ up = <<>>
    /\ active = NoCmd /\ seq = 0
    /\ trace = [state |-> "none", rid |-> 0]
    /\ eof = FALSE /\ dead = FALSE /\ budget = Faults

Charge == budget > 0 /\ budget' = budget - 1

\* What shutdown has raised by the time device_main is where it is.
Phase == [serve |-> 0, rgate |-> 1, tgate |-> 2, halt |-> 3, trace |-> 4,
          ckpt |-> 5, control |-> 6, trace2 |-> 7, done |-> 8]
\* MUTANT of Stopping: a resize does not look whether shutdown began.
StoppingIgnored == FALSE

Stopping == Phase[main] >= 1
StartsClosed == Phase[main] >= 2
ReaderShut == Phase[main] >= 6

-----------------------------------------------------------------------------
(* The record tap. *)

\* MUTANT of Taps: the tap falls only when the recorder is idle again.
TapsUntilIdle == rec.st # "Idle"

\* record(): a read counts only while the state is Recording; a full buffer
\* drops it, and the last record may absorb an adjacent one.
Taps == rec.st = "Recording"
Read ==
    /\ reads < MaxReads /\ Phase[main] <= 3
    /\ Taps
    /\ reads' = reads + 1
    /\ heard' = [heard EXCEPT ![rec.rid] = @ + 1]
    /\ \/ /\ rec.entries > 0
          /\ rec' = [rec EXCEPT !.kept = @ + 1]
       \/ rec' = IF rec.entries < MaxPending
                 THEN [rec EXCEPT !.entries = @ + 1, !.kept = @ + 1]
                 ELSE [rec EXCEPT !.dropped = @ + 1]
    /\ UNCHANGED <<result, timer, slot, call, ctl, tgate, rgate, main, sizes, chan,
                   up, super, dead, budget>>

-----------------------------------------------------------------------------
(* stop_impl(), called by the control loop, a timer and device_main.         *)

callRest == <<reads, ctl, tgate, rgate, main, sizes, chan, up, super, dead>>

\* MUTANT of DrainTarget: a stop that finds the recorder idle waits for nobody.
DrainUnlessIdle(a) == IF a \in Recs \/ rec.st = "Idle" THEN 0 ELSE slot
\* MUTANT of DrainTarget: the timer waits for the kept timer, itself, as well.
DrainAlways(a) == slot

\* Only callers that are not the timer itself wait for the kept timer.
DrainTarget(a) == IF a \in Recs THEN 0 ELSE slot

\* The three cases of the claim: join the finalization in flight, report the
\* cached result, or become the one that finalizes and cancel the timer.
Joins(a) == [call[a] EXCEPT !.pc = "wait", !.join = rec.rid, !.want = rec.rid,
                            !.drain = DrainTarget(a)]
StopClaim(a) ==
    /\ call[a].pc = "claim"
    /\ CASE rec.st = "Finalizing" ->
              call' = [call EXCEPT ![a] = Joins(a)] /\ UNCHANGED <<rec, timer>>
         [] rec.st = "Idle" ->
              /\ call' = [call EXCEPT ![a] = [@ EXCEPT !.pc = "drain", !.drain = DrainTarget(a),
                              !.res = rec.last, !.want = rec.last.rid]]
              /\ UNCHANGED <<rec, timer>>
         [] rec.st = "Recording" ->
              /\ call' = [call EXCEPT ![a] = [@ EXCEPT !.pc = "copy", !.drain = DrainTarget(a),
                              !.own = rec.rid, !.want = rec.rid]]
              /\ rec' = [rec EXCEPT !.st = "Finalizing"]
              /\ timer' = [timer EXCEPT ![rec.rid].cancelled = TRUE]
    /\ UNCHANGED <<callRest, result, slot, heard, budget>>

\* finalize_locked_state(): the queue is copied under the lock and written.
StopCopy(a) ==
    /\ call[a].pc = "copy"
    /\ call' = [call EXCEPT ![a].pc = "write",
                    ![a].res = [rid |-> call[a].own, kept |-> rec.kept,
                                dropped |-> rec.dropped, ok |-> FALSE]]
    /\ rec' = [rec EXCEPT !.entries = 0, !.kept = 0]
    /\ UNCHANGED <<callRest, result, timer, slot, heard, budget>>
Wrote(a, ok) == [call[a].res EXCEPT !.ok = ok]
StopPublish(a) ==
    /\ call[a].pc = "write"
    /\ \E ok \in BOOLEAN :
          LET res == Wrote(a, ok)
          IN  /\ IF ok THEN UNCHANGED budget ELSE Charge
              /\ result' = [result EXCEPT ![call[a].own] = res]
              /\ rec' = [rec EXCEPT !.st = "Idle", !.last = res]
              /\ call' = [call EXCEPT ![a].pc = "drain", ![a].res = res]
    /\ UNCHANGED <<callRest, timer, slot, heard>>
StopWait(a) ==
    /\ call[a].pc = "wait"
    /\ result[call[a].join].rid # 0
    /\ call' = [call EXCEPT ![a].pc = "drain", ![a].res = result[call[a].join]]
    /\ UNCHANGED <<callRest, rec, result, timer, slot, heard, budget>>

\* drain_timer_task(): until that timer's coroutine is destroyed.
Gone(r) == \A t \in {r} \cap Recs : timer[t].pc = "gone"
StopDrain(a) ==
    /\ call[a].pc = "drain" /\ Gone(call[a].drain)
    /\ slot' = IF slot = call[a].drain THEN 0 ELSE slot
    /\ call' = [call EXCEPT ![a].pc = "out"]
    /\ UNCHANGED <<callRest, rec, result, timer, heard, budget>>

StopStep == \E a \in Actors : StopClaim(a) \/ StopCopy(a) \/ StopPublish(a)
                              \/ StopWait(a) \/ StopDrain(a)
Called(a) == [call EXCEPT ![a] = [NoCall EXCEPT !.pc = "claim"]]

-----------------------------------------------------------------------------
(* run_timer(). *)

timerRest == <<rec, result, slot, heard, reads, ctl, tgate, rgate, main, sizes,
               chan, super, dead, budget>>
TimerWake(r) ==
    /\ timer[r].pc = "sleep"
    /\ timer' = [timer EXCEPT ![r].pc = IF timer[r].cancelled THEN "gone" ELSE "awake"]
    /\ UNCHANGED <<timerRest, call, up>>
TimerCheck(r) ==
    /\ timer[r].pc = "awake"
    /\ IF rec.st = "Recording" /\ rec.rid = r
       THEN timer' = [timer EXCEPT ![r].pc = "stop"] /\ call' = Called(r)
       ELSE timer' = [timer EXCEPT ![r].pc = "gone"] /\ UNCHANGED call
    /\ UNCHANGED <<timerRest, up>>
\* The expiry callback, by the timer that owned the finalization only.
TimerCallback(r) ==
    /\ timer[r].pc = "stop" /\ call[r].pc = "out"
    /\ up' = IF call[r].own = 0 THEN up
             ELSE Append(up, [kind |-> "event", seq |-> 0, ok |-> call[r].res.ok, rid |-> r])
    /\ timer' = [timer EXCEPT ![r].pc = "gone"]
    /\ UNCHANGED <<timerRest, call>>
TimerStep == \E r \in Recs : TimerWake(r) \/ TimerCheck(r) \/ TimerCallback(r)

-----------------------------------------------------------------------------
(* The control loop of the device. *)

ctlRest == <<reads, main, super, dead>>
Goto(p) == ctl' = [ctl EXCEPT !.pc = p]
Reply(ok, r) ==
    /\ up' = Append(up, [kind |-> ctl.cmd.kind, seq |-> ctl.cmd.seq, ok |-> ok, rid |-> r])
    /\ ctl' = [pc |-> "read", cmd |-> NoCmd]

\* The loop takes the next line, or ends with the channel.
Takes(kind) == ctl.pc = "read" /\ chan # <<>> /\ Head(chan).kind = kind
               /\ chan' = Tail(chan)
Refused ==
    /\ up' = Append(up, [kind |-> Head(chan).kind, seq |-> Head(chan).seq,
                         ok |-> FALSE, rid |-> 0])
    /\ UNCHANGED ctl
Runs(p) == ctl' = [pc |-> p, cmd |-> Head(chan)] /\ UNCHANGED up
CtlEnd ==
    /\ ctl.pc = "read" /\ chan = <<>> /\ ReaderShut
    /\ Goto("gone")
    /\ UNCHANGED <<ctlRest, recorder, tgate, rgate, sizes, chan, up, budget>>

\* trace_start: the gate, then the flag that shutdown raised before it.
StartGate ==
    /\ Takes("start")
    /\ IF StartsClosed THEN Refused /\ UNCHANGED tgate
       ELSE tgate' = TRUE /\ Runs("idle")
    /\ UNCHANGED <<ctlRest, recorder, rgate, sizes, budget>>

\* start_impl(): a timer that outlived its recording is drained first.
Stale == ~Gone(slot)
StartIdle ==
    /\ ctl.pc = "idle"
    /\ IF rec.st # "Idle"
       THEN Reply(FALSE, 0) /\ tgate' = FALSE /\ UNCHANGED slot
       ELSE ~Stale /\ slot' = 0 /\ Goto("commit") /\ UNCHANGED <<tgate, up>>
    /\ UNCHANGED <<ctlRest, rec, result, timer, call, heard, rgate, sizes, chan, budget>>
\* The open, the check made again, and the transition under the lock.
StartCommit ==
    /\ ctl.pc = "commit"
    /\ \/ /\ rec.st = "Idle" /\ rec.rid < MaxRecs
          /\ LET r == rec.rid + 1 IN
             /\ rec' = [st |-> "Recording", rid |-> r, entries |-> 0, kept |-> 0,
                        dropped |-> 0, last |-> NoResult]
             /\ timer' = [timer EXCEPT ![r].pc = "sleep"]
             /\ slot' = r
          /\ Goto("started")
          /\ UNCHANGED <<tgate, up, budget>>
       \/ /\ IF rec.rid = MaxRecs THEN UNCHANGED budget ELSE Charge
          /\ Reply(FALSE, 0) /\ tgate' = FALSE
          /\ UNCHANGED <<rec, timer, slot>>
    /\ UNCHANGED <<ctlRest, result, call, heard, rgate, sizes, chan>>
StartReply ==
    /\ ctl.pc = "started"
    /\ Reply(TRUE, slot) /\ tgate' = FALSE
    /\ UNCHANGED <<ctlRest, recorder, rgate, sizes, chan, budget>>

\* trace_stop: the call, and the reply once it has returned.
StopTake ==
    /\ Takes("stop") /\ Runs("stop")
    /\ call' = Called(Ctl)
    /\ UNCHANGED <<ctlRest, rec, result, timer, slot, heard, tgate, rgate, sizes, budget>>
StopReply ==
    /\ ctl.pc = "stop" /\ call[Ctl].pc = "out"
    /\ Reply(call[Ctl].res.ok, call[Ctl].res.rid)
    /\ call' = [call EXCEPT ![Ctl] = NoCall]
    /\ UNCHANGED <<ctlRest, rec, result, timer, slot, heard, tgate, rgate, sizes, chan, budget>>

\* resize: grow-only against the device; then, holding the gate, the shutdown
\* check, the layer and the device (make_resize_apply, resize_blocking).
ResizeGate ==
    /\ Takes("resize")
    /\ IF Head(chan).size <= dsize \/ Stopping
       THEN Refused /\ UNCHANGED rgate
       ELSE rgate' = TRUE /\ Runs("layer")
    /\ UNCHANGED <<ctlRest, recorder, tgate, sizes, budget>>
ResizeLayer ==
    /\ ctl.pc = "layer"
    /\ \/ /\ ctl.cmd.size >= hdr
          /\ hdr' = ctl.cmd.size /\ Goto("device")
          /\ UNCHANGED <<rgate, up, budget>>
       \/ /\ IF ctl.cmd.size >= hdr THEN Charge ELSE UNCHANGED budget
          /\ Reply(FALSE, 0) /\ rgate' = FALSE /\ UNCHANGED hdr
    /\ UNCHANGED <<ctlRest, recorder, tgate, dsize, trailer, chan>>
ResizeDevice ==
    /\ ctl.pc = "device"
    /\ \/ dsize' = ctl.cmd.size /\ Reply(TRUE, 0) /\ UNCHANGED budget
       \/ Charge /\ Reply(FALSE, 0) /\ UNCHANGED dsize
    /\ rgate' = FALSE
    /\ UNCHANGED <<ctlRest, recorder, tgate, hdr, trailer, chan>>

CtlStep == CtlEnd \/ StartGate \/ StartIdle \/ StartCommit \/ StartReply
           \/ StopTake \/ StopReply \/ ResizeGate \/ ResizeLayer \/ ResizeDevice

-----------------------------------------------------------------------------
(* The shutdown in device_main. *)

mainRest == <<rec, result, timer, slot, heard, reads, ctl, tgate, rgate, hdr, dsize,
              chan, up, super, dead>>

\* stopping is raised before the resize gate is drained, and the trace flag
\* before the trace gate; then the queues stop.
Shutdown ==
    /\ main = "serve" /\ main' = "rgate"
    /\ UNCHANGED <<mainRest, call, trailer, budget>>
DrainResize == main = "rgate" /\ ~rgate /\ main' = "tgate"
DrainStarts == main = "tgate" /\ ~tgate /\ main' = "halt"
Gates ==
    /\ DrainResize \/ DrainStarts
    /\ UNCHANGED <<mainRest, call, trailer, budget>>

\* stop_async(), finish_trace_recording(), the checkpoint, the end of the
\* reader, and the same finish again once the control loop is gone.
Finish ==
    /\ \/ main = "halt" /\ main' = "trace"
       \/ main = "control" /\ ctl.pc = "gone" /\ main' = "trace2"
    /\ call' = Called(Main)
    /\ UNCHANGED <<mainRest, trailer, budget>>
Finished ==
    /\ main \in {"trace", "trace2"} /\ call[Main].pc = "out"
    /\ main' = IF main = "trace" THEN "ckpt" ELSE "done"
    /\ call' = [call EXCEPT ![Main] = NoCall]
    /\ UNCHANGED <<mainRest, trailer, budget>>
Checkpoint ==
    /\ main = "ckpt" /\ main' = "control"
    /\ \/ trailer' = hdr /\ UNCHANGED budget
       \/ Charge /\ UNCHANGED trailer
    /\ UNCHANGED <<mainRest, call>>
MainStep == Gates \/ Finish \/ Finished \/ Checkpoint

\* The device process dies.
Die ==
    /\ main # "done" /\ Charge /\ dead' = TRUE
    /\ UNCHANGED <<recorder, reads, ctl, tgate, rgate, main, sizes, chan, up, super>>

-----------------------------------------------------------------------------
(* The supervisor: one command in flight, its timeout, and the lines.        *)

devRest == <<recorder, reads, ctl, tgate, rgate, main, sizes, dead>>
Send(kind, size) ==
    /\ active = NoCmd /\ ~eof /\ ~dead /\ ~ReaderShut
    /\ seq < MaxCmds
    /\ seq' = seq + 1
    /\ active' = [kind |-> kind, seq |-> seq + 1, size |-> size]
    /\ chan' = Append(chan, active')
    /\ UNCHANGED <<devRest, up, trace, eof, budget>>
CmdTraceStart == Send("start", 0)
CmdTraceStop == Send("stop", 0)
CmdResize == \E n \in Sizes : Send("resize", n)
Timeout ==
    /\ active # NoCmd /\ Charge
    /\ active' = NoCmd
    /\ UNCHANGED <<devRest, chan, up, seq, trace, eof>>

\* route_device_reply(): an event ends the status it finds recording; a reply
\* completes the pending command with its sequence, a late one is dropped.
AfterEvent(line) ==
    IF trace.state = "recording" THEN [state |-> "stopped", rid |-> line.rid] ELSE trace
AfterReply(line) ==
    CASE line.ok /\ line.kind = "start" -> [state |-> "recording", rid |-> line.rid]
      [] line.ok /\ line.kind = "stop" -> [state |-> "stopped", rid |-> line.rid]
      [] OTHER -> trace
Route ==
    /\ up # <<>>
    /\ LET line == Head(up) IN
       IF line.kind = "event"
       THEN trace' = AfterEvent(line) /\ UNCHANGED active
       ELSE IF active # NoCmd /\ line.seq = active.seq
       THEN trace' = AfterReply(line) /\ active' = NoCmd
       ELSE UNCHANGED <<trace, active>>
    /\ up' = Tail(up)
    /\ UNCHANGED <<devRest, chan, seq, eof, budget>>

\* The end of the channel: a recording that stands is lost.
Eof ==
    /\ ~eof /\ up = <<>> /\ (dead \/ main = "done")
    /\ eof' = TRUE /\ active' = NoCmd
    /\ trace' = IF trace.state = "recording" THEN [trace EXCEPT !.state = "lost"] ELSE trace
    /\ UNCHANGED <<devRest, chan, up, seq, budget>>

DeviceStep == ~dead /\ (StopStep \/ TimerStep \/ CtlStep \/ MainStep)
Next ==
    \/ DeviceStep
    \/ ~dead /\ (Read \/ Shutdown \/ Die)
    \/ CmdTraceStart \/ CmdTraceStop \/ CmdResize
    \/ Timeout \/ Route \/ Eof

\* The device's coroutines and blocking calls go on; timers expire.
Fairness ==
    /\ WF_vars(~dead /\ StopStep) /\ WF_vars(~dead /\ TimerStep)
    /\ WF_vars(~dead /\ CtlStep) /\ WF_vars(~dead /\ MainStep)
Spec == Init /\ [][Next]_vars /\ Fairness

-----------------------------------------------------------------------------
\* Every read that record() takes under its mutex is in the blob of its
\* recording or counted as dropped, and each stop() returns the result of the
\* recording it ended or found ended: nothing slips in between the copy of the
\* queue and the fall of the tap.
RecordsAreKept ==
    /\ \A r \in Recs : result[r].rid # 0 =>
          result[r].kept + result[r].dropped = heard[r]
    /\ \A a \in Actors : call[a].pc = "out" => call[a].res.rid = call[a].want

\* When device_main has finished the recording, before the checkpoint and
\* before the source chain goes away, no recording runs, none is being
\* written and no timer is left that could still touch the recorder.
QuietAfterFinish ==
    Phase[main] >= 5 /\ ~dead =>
        /\ rec.st = "Idle"
        /\ \A r \in Recs : timer[r].pc \in {"none", "gone"}

\* The size in the shutdown checkpoint is the size in the layer's header, and
\* the layer is never smaller than the device that is served from it, since a
\* grow that fails is rolled back.
TrailerMatchesHeader == (trailer # 0 => trailer = hdr) /\ dsize <= hdr

\* The shutdown of a device ends, whatever start, stop, expiry or resize is in
\* flight: nobody waits for somebody who waits for them.
ServingEnds == (main = "rgate") ~> (main = "done" \/ dead)
=============================================================================
