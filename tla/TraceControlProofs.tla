-------------------------- MODULE TraceControlProofs --------------------------
(***************************************************************************)
(* Proofs about a serving device for every number of recordings, commands, *)
(* reads and faults: a trace blob accounts for every read, nothing touches *)
(* the recorder once device_main has finished it, and no growth slips past *)
(* the shutdown checkpoint.                                                *)
(***************************************************************************)
EXTENDS TraceControl, TLAPS

Mains == {"serve", "rgate", "tgate", "halt", "trace", "ckpt", "control", "trace2", "done"}

Starting == {"idle", "commit", "started"}

Resizing == {"layer", "device"}

Result == [rid : 0 .. MaxRecs, kept : Nat, dropped : Nat, ok : BOOLEAN]

Recorder == [st : {"Idle", "Recording", "Finalizing"}, rid : 0 .. MaxRecs, entries : Nat,
             kept : Nat, dropped : Nat, last : Result]

Timer == [pc : {"none", "sleep", "awake", "stop", "gone"}, cancelled : BOOLEAN]

Call == [pc : {"idle", "claim", "wait", "copy", "write", "drain", "out"}, join : 0 .. MaxRecs,
         own : 0 .. MaxRecs, want : 0 .. MaxRecs, drain : 0 .. MaxRecs, res : Result]

Cmd == [kind : {"none", "start", "stop", "resize"}, seq : Nat, size : Nat]

Control == [pc : {"read", "gone", "stop"} \cup Starting \cup Resizing, cmd : Cmd]

Types ==
    /\ rec \in Recorder /\ result \in [Recs -> Result] /\ timer \in [Recs -> Timer]
    /\ slot \in 0 .. MaxRecs /\ call \in [Actors -> Call] /\ heard \in [Recs -> Nat]
    /\ ctl \in Control /\ main \in Mains /\ chan \in Seq(Cmd) /\ seq \in Nat
    /\ hdr \in Nat /\ dsize \in Nat /\ trailer \in Nat

\* A resize holds its gate, which shutdown drains before the checkpoint.
ResizeInv ==
    /\ ctl.pc \in Resizing => rgate /\ main \in {"serve", "rgate"}
    /\ ctl.pc = "device" => ctl.cmd.size = hdr
    /\ trailer # 0 => trailer = hdr /\ main \in {"control", "trace2", "done"}
    /\ dsize <= hdr

\* So does a start, and it drains the kept timer before it keeps another.
StartInv ==
    /\ ctl.pc \in Starting => tgate /\ main \in {"serve", "rgate", "tgate"}
    /\ ctl.pc = "commit" => slot = 0

\* A timer that may still run is the one that is kept.
TimerInv == \A r \in Recs : timer[r].pc \notin {"none", "gone"} => slot = r

\* The recording rc, the published results res and the reads h offered so far.
RecOK(rc, res, h) ==
    /\ rc.st # "Idle" => rc.rid \in Recs /\ res[rc.rid].rid = 0
    /\ rc.st = "Recording" => rc.kept + rc.dropped = h[rc.rid]
    /\ \A r \in Recs : rc.rid < r => h[r] = 0 /\ res[r].rid = 0
    /\ \A r \in Recs : res[r].rid # 0 => res[r].rid = r /\ res[r].kept + res[r].dropped = h[r]

\* A stop() call c: the one that finalizes, one that joins, one that has its result.
Finalizes(c) == c.pc \in {"copy", "write"}

CallOK(c, rc, h) ==
    /\ Finalizes(c) => rc.st = "Finalizing" /\ c.own = rc.rid /\ c.want = c.own
    /\ c.pc = "copy" => rc.kept + rc.dropped = h[rc.rid]
    /\ c.pc = "write" => c.res.rid = c.own /\ c.res.kept + c.res.dropped = h[c.own]
    /\ c.pc = "wait" => c.join \in Recs /\ c.want = c.join
    /\ c.pc \in {"drain", "out"} => c.res.rid = c.want

CallInv ==
    /\ \A a \in Actors : CallOK(call[a], rec, heard)
    /\ \A a, b \in Actors : Finalizes(call[a]) /\ Finalizes(call[b]) => a = b

\* device_main at m with its stop() call c, the kept timer and the recording.
QuietOK(m, c, kept, rc) ==
    /\ m = "trace" =>
          /\ c.pc \in {"wait", "copy", "write", "drain"} => kept \in {0, c.drain}
          /\ c.pc = "wait" => c.join = rc.rid /\ rc.st # "Recording"
          /\ c.pc \in {"drain", "out"} => rc.st = "Idle"
          /\ c.pc = "out" => kept = 0
    /\ m \in {"ckpt", "control", "trace2", "done"} => rc.st = "Idle" /\ kept = 0

QuietInv == QuietOK(main, call[Main], slot, rec)

IInv ==
    /\ Types /\ ResizeInv /\ StartInv /\ TimerInv
    /\ RecOK(rec, result, heard) /\ CallInv /\ QuietInv

-----------------------------------------------------------------------------

LEMMA Shapes ==
    /\ NoResult \in Result /\ NoCall \in Call /\ NoCmd \in Cmd
    /\ Main \in Actors /\ Ctl \in Actors /\ Recs \subseteq Actors /\ Main \notin Recs
    /\ 0 \notin Recs /\ Recs \subseteq 0 .. MaxRecs /\ Recs \subseteq Nat
<1>1. NoResult \in Result
  BY TraceAssumption DEF NoResult, Result
<1>2. NoCall \in Call
  BY <1>1, TraceAssumption DEF NoCall, Call
<1>3. NoCmd \in Cmd
  BY DEF NoCmd, Cmd
<1> QED
  BY <1>1, <1>2, <1>3, TraceAssumption DEF Main, Ctl, Actors, Recs

\* What shutdown has raised, by the place of device_main.
LEMMA Phases ==
    ASSUME main \in Mains
    PROVE  /\ Stopping <=> main # "serve"
           /\ StartsClosed <=> main \notin {"serve", "rgate"}
           /\ Phase[main] >= 5 <=> main \in {"ckpt", "control", "trace2", "done"}
<1>1. /\ Phase["serve"] = 0 /\ Phase["rgate"] = 1 /\ Phase["tgate"] = 2
      /\ Phase["halt"] = 3 /\ Phase["trace"] = 4 /\ Phase["ckpt"] = 5
      /\ Phase["control"] = 6 /\ Phase["trace2"] = 7 /\ Phase["done"] = 8
  BY DEF Phase
<1> QED
  BY <1>1 DEF Mains, Stopping, StartsClosed

\* Only the call of one actor changes, and at most one call finalizes.
LEMMA OneCall ==
    ASSUME Types, CallInv, NEW a \in Actors, NEW c,
           call' = [call EXCEPT ![a] = c],
           CallOK(c, rec', heard'),
           \A b \in Actors \ {a} : CallOK(call[b], rec', heard'),
           Finalizes(c) => \A b \in Actors \ {a} : ~Finalizes(call[b])
    PROVE  CallInv'
<1>1. /\ call'[a] = c
      /\ \A b \in Actors \ {a} : call'[b] = call[b]
  BY DEF Types
<1>2. \A b \in Actors : CallOK(call'[b], rec', heard')
  BY <1>1
<1>3. \A b, d \in Actors : Finalizes(call'[b]) /\ Finalizes(call'[d]) => b = d
  BY <1>1 DEF CallInv
<1> QED
  BY <1>2, <1>3 DEF CallInv

-----------------------------------------------------------------------------
(* The record tap and stop(). *)

LEMMA ReadStep == IInv /\ Read => IInv'
<1> SUFFICES ASSUME IInv, Read PROVE IInv'
  OBVIOUS
<1> USE DEF Taps
<1>1. /\ rec \in Recorder /\ rec.st = "Recording" /\ rec.rid \in Recs
      /\ heard \in [Recs -> Nat] /\ rec.kept + rec.dropped = heard[rec.rid]
      /\ result[rec.rid].rid = 0 /\ call \in [Actors -> Call]
  BY DEF IInv, Types, Read, RecOK
<1>2. /\ rec' \in Recorder /\ rec'.st = "Recording" /\ rec'.rid = rec.rid
      /\ rec'.kept + rec'.dropped = heard[rec.rid] + 1
  <2>0. rec.kept \in Nat /\ rec.dropped \in Nat /\ rec.entries \in Nat
    BY <1>1 DEF Recorder
  <2>1. CASE rec' = [rec EXCEPT !.kept = @ + 1]
    <3>1. /\ rec' \in Recorder /\ rec'.st = rec.st /\ rec'.rid = rec.rid
          /\ rec'.kept = rec.kept + 1 /\ rec'.dropped = rec.dropped
      BY <1>1, <2>0, <2>1 DEF Recorder
    <3> QED
      BY <1>1, <2>0, <3>1
  <2>2. CASE rec' = [rec EXCEPT !.entries = @ + 1, !.kept = @ + 1]
    <3>1. /\ rec' \in Recorder /\ rec'.st = rec.st /\ rec'.rid = rec.rid
          /\ rec'.kept = rec.kept + 1 /\ rec'.dropped = rec.dropped
      <4>1. PICK e \in Nat, k \in Nat : e = rec.entries + 1 /\ k = rec.kept + 1
        BY <2>0
      <4>2. rec' = [rec EXCEPT !.entries = e, !.kept = k]
        BY <2>2, <4>1
      <4>3. rec' \in Recorder /\ rec'.st = rec.st /\ rec'.rid = rec.rid
        BY <1>1, <4>2, Zenon DEF Recorder
      <4>4. rec'.kept = k /\ rec'.dropped = rec.dropped
        BY <1>1, <4>2 DEF Recorder
      <4> QED
        BY <4>1, <4>3, <4>4
    <3> QED
      BY <1>1, <2>0, <3>1
  <2>3. CASE rec' = [rec EXCEPT !.dropped = @ + 1]
    <3>1. /\ rec' \in Recorder /\ rec'.st = rec.st /\ rec'.rid = rec.rid
          /\ rec'.kept = rec.kept /\ rec'.dropped = rec.dropped + 1
      BY <1>1, <2>0, <2>3 DEF Recorder
    <3> QED
      BY <1>1, <2>0, <3>1
  <2> QED
    BY <2>1, <2>2, <2>3 DEF Read
<1>3. /\ heard' \in [Recs -> Nat] /\ heard'[rec.rid] = heard[rec.rid] + 1
      /\ \A r \in Recs : r # rec.rid => heard'[r] = heard[r]
  BY <1>1 DEF Read
<1>4. Types'
  BY <1>2, <1>3 DEF IInv, Types, Read, super, sizes
<1>5. ResizeInv' /\ StartInv' /\ TimerInv'
  BY DEF IInv, ResizeInv, StartInv, TimerInv, Read, super, sizes
<1>6. RecOK(rec', result', heard')
  BY <1>1, <1>2, <1>3, Shapes DEF IInv, RecOK, Read
<1>7. CallInv'
  <2>1. \A a \in Actors : ~Finalizes(call[a])
    BY <1>1 DEF IInv, CallInv, CallOK
  <2>2. \A a \in Actors : CallOK(call[a], rec', heard')
    BY <2>1 DEF IInv, CallInv, CallOK, Finalizes
  <2> QED
    BY <2>1, <2>2, Zenon DEF CallInv, Read
<1>8. QuietInv'
  BY <1>1, <1>2 DEF IInv, QuietInv, QuietOK, Read
<1> QED
  BY <1>4, <1>5, <1>6, <1>7, <1>8 DEF IInv

\* What no step of stop() touches.
LEMMA CallFrame ==
    ASSUME IInv, UNCHANGED callRest, UNCHANGED heard,
           slot' \in {0, slot},
           rec' \in Recorder, result' \in [Recs -> Result], timer' \in [Recs -> Timer],
           call' \in [Actors -> Call]
    PROVE  Types' /\ ResizeInv' /\ StartInv'
<1>1. Types'
  BY TraceAssumption DEF IInv, Types, callRest, super, sizes
<1>2. ResizeInv' /\ StartInv'
  BY DEF IInv, ResizeInv, StartInv, callRest, super, sizes
<1> QED
  BY <1>1, <1>2

LEMMA ClaimStep == ASSUME NEW a \in Actors PROVE IInv /\ StopClaim(a) => IInv'
<1> SUFFICES ASSUME IInv, StopClaim(a) PROVE IInv'
  OBVIOUS
<1>1. /\ rec \in Recorder /\ call[a] \in Call /\ call[a].pc = "claim"
      /\ call \in [Actors -> Call] /\ slot \in 0 .. MaxRecs /\ timer \in [Recs -> Timer]
      /\ result \in [Recs -> Result] /\ rec.rid \in 0 .. MaxRecs /\ rec.last \in Result
      /\ rec.last.rid \in 0 .. MaxRecs
  BY DEF IInv, Types, StopClaim, Recorder, Result
<1>2. PICK d \in 0 .. MaxRecs : d = DrainTarget(a) /\ (a = Main => d = slot)
  BY <1>1, Shapes, TraceAssumption DEF DrainTarget
<1>3. UNCHANGED <<callRest, result, slot, heard, budget>>
  BY DEF StopClaim
<1>4. \A b \in Actors : CallOK(call[b], rec, heard)
  BY DEF IInv, CallInv
<1>5. CASE rec.st = "Finalizing"
  <2>0. PICK c : c = Joins(a)
    OBVIOUS
  <2>1. /\ c = Joins(a) /\ c \in Call /\ c.pc = "wait" /\ c.join = rec.rid
        /\ c.want = rec.rid /\ c.drain = d
    BY <1>1, <1>2, <2>0, Zenon DEF Joins, Call
  <2>2. call' = [call EXCEPT ![a] = c] /\ UNCHANGED <<rec, timer>>
    BY <1>5, <2>1 DEF StopClaim
  <2>3. call' \in [Actors -> Call] /\ call'[a] = c
    BY <1>1, <2>1, <2>2
  <2>4. Types' /\ ResizeInv' /\ StartInv'
    BY <1>1, <1>3, <2>2, <2>3, CallFrame
  <2>5. TimerInv' /\ RecOK(rec', result', heard')
    BY <1>3, <2>2 DEF IInv, TimerInv
  <2>6. CallInv'
    <3>1. CallOK(c, rec', heard') /\ ~Finalizes(c)
      BY <1>5, <2>1 DEF IInv, RecOK, CallOK, Finalizes
    <3> QED
      BY <1>3, <1>4, <2>2, <3>1, OneCall, Zenon DEF IInv
  <2>7. QuietInv'
    <3>1. CASE a = Main
      BY <1>2, <1>3, <1>5, <2>1, <2>2, <2>3, <3>1 DEF IInv, QuietInv, QuietOK, callRest
    <3>2. CASE a # Main
      <4>1. call'[Main] = call[Main]
        BY <1>1, <2>2, <3>2, Shapes
      <4> QED
        BY <1>3, <2>2, <4>1 DEF IInv, QuietInv, callRest
    <3> QED
      BY <3>1, <3>2
  <2> QED
    BY <2>4, <2>5, <2>6, <2>7 DEF IInv
<1>6. CASE rec.st = "Idle"
  <2>0. PICK c : c = [call[a] EXCEPT !.pc = "drain", !.drain = DrainTarget(a),
                          !.res = rec.last, !.want = rec.last.rid]
    OBVIOUS
  <2>1. /\ c \in Call /\ c.pc = "drain" /\ c.drain = d
        /\ c.res = rec.last /\ c.want = rec.last.rid
    BY <1>1, <1>2, <2>0, Zenon DEF Call
  <2>2. call' = [call EXCEPT ![a] = c] /\ UNCHANGED <<rec, timer>>
    BY <1>1, <1>6, <2>0 DEF StopClaim
  <2>3. call' \in [Actors -> Call] /\ call'[a] = c
    BY <1>1, <2>1, <2>2
  <2>4. Types' /\ ResizeInv' /\ StartInv'
    BY <1>1, <1>3, <2>2, <2>3, CallFrame
  <2>5. TimerInv' /\ RecOK(rec', result', heard')
    BY <1>3, <2>2 DEF IInv, TimerInv
  <2>6. CallInv'
    <3>1. CallOK(c, rec', heard') /\ ~Finalizes(c)
      BY <2>1 DEF CallOK, Finalizes
    <3> QED
      BY <1>3, <1>4, <2>2, <3>1, OneCall, Zenon DEF IInv
  <2>7. QuietInv'
    <3>1. CASE a = Main
      BY <1>2, <1>3, <1>6, <2>1, <2>2, <2>3, <3>1 DEF IInv, QuietInv, QuietOK, callRest
    <3>2. CASE a # Main
      <4>1. call'[Main] = call[Main]
        BY <1>1, <2>2, <3>2, Shapes
      <4> QED
        BY <1>3, <2>2, <4>1 DEF IInv, QuietInv, callRest
    <3> QED
      BY <3>1, <3>2
  <2> QED
    BY <2>4, <2>5, <2>6, <2>7 DEF IInv
<1>7. CASE rec.st = "Recording"
  <2>0. PICK c : c = [call[a] EXCEPT !.pc = "copy", !.drain = DrainTarget(a),
                          !.own = rec.rid, !.want = rec.rid]
    OBVIOUS
  <2>1. c \in Call /\ c.pc = "copy" /\ c.drain = d /\ c.own = rec.rid /\ c.want = rec.rid
    BY <1>1, <1>2, <2>0, Zenon DEF Call
  <2>2. /\ call' = [call EXCEPT ![a] = c]
        /\ rec' = [rec EXCEPT !.st = "Finalizing"]
        /\ timer' = [timer EXCEPT ![rec.rid].cancelled = TRUE]
    BY <1>1, <1>7, <2>0 DEF StopClaim
  <2>3. call' \in [Actors -> Call] /\ call'[a] = c
    BY <1>1, <2>1, <2>2
  <2>4. /\ rec' \in Recorder /\ rec'.st = "Finalizing" /\ rec'.rid = rec.rid
        /\ rec'.kept = rec.kept /\ rec'.dropped = rec.dropped
    BY <1>1, <2>2 DEF Recorder
  <2>5. timer' \in [Recs -> Timer] /\ \A r \in Recs : timer'[r].pc = timer[r].pc
    BY <1>1, <2>2, Zenon DEF Timer
  <2>6. Types' /\ ResizeInv' /\ StartInv'
    BY <1>1, <1>3, <2>3, <2>4, <2>5, CallFrame
  <2>7. TimerInv'
    BY <1>3, <2>5 DEF IInv, TimerInv
  <2>8. RecOK(rec', result', heard')
    BY <1>3, <1>7, <2>4 DEF IInv, RecOK
  <2>9. CallInv'
    <3>1. \A b \in Actors : ~Finalizes(call[b])
      BY <1>4, <1>7 DEF CallOK
    <3>2. \A b \in Actors : CallOK(call[b], rec', heard')
      BY <1>3, <1>4, <3>1 DEF CallOK, Finalizes
    <3>3. CallOK(c, rec', heard')
      BY <1>3, <1>7, <2>1, <2>4 DEF IInv, RecOK, CallOK, Finalizes
    <3> QED
      BY <2>2, <3>1, <3>2, <3>3, OneCall, Zenon DEF IInv
  <2>10. QuietInv'
    <3>1. CASE a = Main
      BY <1>2, <1>3, <1>7, <2>1, <2>3, <2>4, <3>1 DEF IInv, QuietInv, QuietOK, callRest
    <3>2. CASE a # Main
      <4>1. call'[Main] = call[Main]
        BY <1>1, <2>2, <3>2, Shapes
      <4> QED
        BY <1>3, <1>7, <2>4, <4>1 DEF IInv, QuietInv, QuietOK, callRest
    <3> QED
      BY <3>1, <3>2
  <2> QED
    BY <2>6, <2>7, <2>8, <2>9, <2>10 DEF IInv
<1> QED
  BY <1>1, <1>5, <1>6, <1>7 DEF Recorder

LEMMA CopyStep == ASSUME NEW a \in Actors PROVE IInv /\ StopCopy(a) => IInv'
<1> SUFFICES ASSUME IInv, StopCopy(a) PROVE IInv'
  OBVIOUS
<1>1. /\ rec \in Recorder /\ call[a] \in Call /\ call[a].pc = "copy"
      /\ call \in [Actors -> Call] /\ call[a].own \in 0 .. MaxRecs
      /\ rec.kept \in Nat /\ rec.dropped \in Nat
  BY DEF IInv, Types, StopCopy, Recorder, Call
<1>2. \A b \in Actors : CallOK(call[b], rec, heard)
  BY DEF IInv, CallInv
<1>3. /\ rec.st = "Finalizing" /\ call[a].own = rec.rid /\ call[a].want = rec.rid
      /\ rec.kept + rec.dropped = heard[rec.rid]
  BY <1>1, <1>2 DEF CallOK, Finalizes
<1>4a. PICK v : v = [rid |-> call[a].own, kept |-> rec.kept,
                     dropped |-> rec.dropped, ok |-> FALSE]
  BY Zenon
<1>4. v \in Result /\ v.rid = rec.rid /\ v.kept + v.dropped = heard[rec.rid]
  BY <1>1, <1>3, <1>4a DEF Result
<1>5a. PICK c : c = [call[a] EXCEPT !.pc = "write", !.res = v]
  OBVIOUS
<1>5. /\ c \in Call /\ c.pc = "write" /\ c.res = v /\ c.own = call[a].own
      /\ c.want = call[a].want /\ c.drain = call[a].drain
  BY <1>1, <1>4, <1>5a, Zenon DEF Call
<1>6. call' = [call EXCEPT ![a] = c] /\ call' \in [Actors -> Call] /\ call'[a] = c
  <2>1. call' = [call EXCEPT ![a] = c]
    BY <1>1, <1>4a, <1>5a, Zenon DEF StopCopy
  <2> QED
    BY <1>1, <1>5, <2>1
<1>7. /\ rec' \in Recorder /\ rec'.st = rec.st /\ rec'.rid = rec.rid
  BY <1>1, Zenon DEF StopCopy, Recorder
<1>8. UNCHANGED <<callRest, result, timer, slot, heard, budget>>
  BY DEF StopCopy
<1>9. Types' /\ ResizeInv' /\ StartInv'
  <2>1. result' \in [Recs -> Result] /\ timer' \in [Recs -> Timer]
    BY <1>8 DEF IInv, Types
  <2> QED
    BY <1>6, <1>7, <1>8, <2>1, CallFrame
<1>10. TimerInv'
  BY <1>8 DEF IInv, TimerInv
<1>11. RecOK(rec', result', heard')
  BY <1>3, <1>7, <1>8 DEF IInv, RecOK
<1>12. CallInv'
  <2>1. \A b \in Actors \ {a} : ~Finalizes(call[b])
    BY <1>1 DEF IInv, CallInv, Finalizes
  <2>2. \A b \in Actors \ {a} : CallOK(call[b], rec', heard')
    BY <1>2, <1>8, <2>1 DEF CallOK, Finalizes
  <2>3. CallOK(c, rec', heard')
    BY <1>3, <1>4, <1>5, <1>7, <1>8 DEF CallOK, Finalizes
  <2> QED
    BY <1>6, <2>1, <2>2, <2>3, OneCall, Zenon DEF IInv
<1>13. QuietInv'
  <2>1. CASE a = Main
    BY <1>1, <1>3, <1>5, <1>6, <1>7, <1>8, <2>1 DEF IInv, QuietInv, QuietOK, callRest
  <2>2. CASE a # Main
    <3>1. call'[Main] = call[Main]
      BY <1>1, <1>6, <2>2, Shapes
    <3> QED
      BY <1>7, <1>8, <3>1 DEF IInv, QuietInv, QuietOK, callRest
  <2> QED
    BY <2>1, <2>2
<1> QED
  BY <1>9, <1>10, <1>11, <1>12, <1>13 DEF IInv

LEMMA PublishStep == ASSUME NEW a \in Actors PROVE IInv /\ StopPublish(a) => IInv'
<1> SUFFICES ASSUME IInv, StopPublish(a) PROVE IInv'
  OBVIOUS
<1>1. /\ rec \in Recorder /\ call[a] \in Call /\ call[a].pc = "write"
      /\ call \in [Actors -> Call] /\ call[a].res \in Result
      /\ result \in [Recs -> Result] /\ timer \in [Recs -> Timer]
  BY DEF IInv, Types, StopPublish, Call
<1>2. \A b \in Actors : CallOK(call[b], rec, heard)
  BY DEF IInv, CallInv
<1>3. /\ rec.st = "Finalizing" /\ call[a].own = rec.rid /\ call[a].want = rec.rid
      /\ call[a].res.rid = rec.rid /\ rec.rid \in Recs
      /\ call[a].res.kept + call[a].res.dropped = heard[rec.rid]
  BY <1>1, <1>2 DEF IInv, RecOK, CallOK, Finalizes
<1>4. PICK ok \in BOOLEAN :
         /\ result' = [result EXCEPT ![call[a].own] = Wrote(a, ok)]
         /\ rec' = [rec EXCEPT !.st = "Idle", !.last = Wrote(a, ok)]
         /\ call' = [call EXCEPT ![a].pc = "drain", ![a].res = Wrote(a, ok)]
  BY Zenon DEF StopPublish
<1>5. PICK v : v = Wrote(a, ok)
  OBVIOUS
<1>6. v \in Result /\ v.rid = rec.rid /\ v.kept + v.dropped = heard[rec.rid]
  <2>1. v \in Result /\ v.rid = call[a].res.rid /\ v.kept = call[a].res.kept
        /\ v.dropped = call[a].res.dropped
    BY <1>1, <1>4, <1>5 DEF Wrote, Result
  <2> QED
    BY <1>3, <2>1
<1>7. PICK c : c = [call[a] EXCEPT !.pc = "drain", !.res = v]
  OBVIOUS
<1>8. /\ c \in Call /\ c.pc = "drain" /\ c.res = v
      /\ c.want = call[a].want /\ c.drain = call[a].drain
  BY <1>1, <1>6, <1>7, Zenon DEF Call
<1>9. call' = [call EXCEPT ![a] = c] /\ call' \in [Actors -> Call] /\ call'[a] = c
  <2>1. call' = [call EXCEPT ![a] = c]
    BY <1>1, <1>4, <1>5, <1>7, Zenon
  <2> QED
    BY <1>1, <1>8, <2>1
<1>10. rec' \in Recorder /\ rec'.st = "Idle" /\ rec'.rid = rec.rid
  BY <1>1, <1>4, <1>5, <1>6, Zenon DEF Recorder
<1>11. /\ result' \in [Recs -> Result] /\ result'[rec.rid] = v
       /\ \A r \in Recs : r # rec.rid => result'[r] = result[r]
  BY <1>1, <1>3, <1>4, <1>5, <1>6
<1>12. UNCHANGED <<callRest, timer, slot, heard>>
  BY DEF StopPublish
<1>13. Types' /\ ResizeInv' /\ StartInv'
  BY <1>1, <1>9, <1>10, <1>11, <1>12, CallFrame
<1>14. TimerInv'
  BY <1>12 DEF IInv, TimerInv
<1>15. RecOK(rec', result', heard')
  BY <1>3, <1>6, <1>10, <1>11, <1>12, Shapes DEF IInv, RecOK
<1>16. CallInv'
  <2>1. \A b \in Actors \ {a} : ~Finalizes(call[b])
    BY <1>1 DEF IInv, CallInv, Finalizes
  <2>2. \A b \in Actors \ {a} : CallOK(call[b], rec', heard')
    BY <1>2, <1>12, <2>1 DEF CallOK, Finalizes
  <2>3. CallOK(c, rec', heard') /\ ~Finalizes(c)
    BY <1>3, <1>6, <1>8 DEF CallOK, Finalizes
  <2> QED
    BY <1>9, <2>2, <2>3, OneCall, Zenon DEF IInv
<1>17. QuietInv'
  <2>1. CASE a = Main
    BY <1>1, <1>3, <1>8, <1>9, <1>10, <1>12, <2>1 DEF IInv, QuietInv, QuietOK, callRest
  <2>2. CASE a # Main
    <3>1. call'[Main] = call[Main]
      BY <1>1, <1>9, <2>2, Shapes
    <3> QED
      BY <1>10, <1>12, <3>1 DEF IInv, QuietInv, QuietOK, callRest
  <2> QED
    BY <2>1, <2>2
<1> QED
  BY <1>13, <1>14, <1>15, <1>16, <1>17 DEF IInv

LEMMA WaitStep == ASSUME NEW a \in Actors PROVE IInv /\ StopWait(a) => IInv'
<1> SUFFICES ASSUME IInv, StopWait(a) PROVE IInv'
  OBVIOUS
<1>1. /\ rec \in Recorder /\ call[a] \in Call /\ call[a].pc = "wait"
      /\ call \in [Actors -> Call]
      /\ result \in [Recs -> Result] /\ timer \in [Recs -> Timer]
  BY DEF IInv, Types, StopWait
<1>2. \A b \in Actors : CallOK(call[b], rec, heard)
  BY DEF IInv, CallInv
<1>3. PICK v : v = result[call[a].join]
  OBVIOUS
<1>4. v \in Result /\ v.rid # 0 /\ v.rid = call[a].want
  BY <1>1, <1>2, <1>3 DEF IInv, RecOK, CallOK, StopWait
<1>5. PICK c : c = [call[a] EXCEPT !.pc = "drain", !.res = v]
  OBVIOUS
<1>6. /\ c \in Call /\ c.pc = "drain" /\ c.res = v
      /\ c.want = call[a].want /\ c.drain = call[a].drain
  BY <1>1, <1>4, <1>5, Zenon DEF Call
<1>7. call' = [call EXCEPT ![a] = c] /\ call' \in [Actors -> Call] /\ call'[a] = c
  <2>1. call' = [call EXCEPT ![a] = c]
    BY <1>1, <1>3, <1>5, Zenon DEF StopWait
  <2> QED
    BY <1>1, <1>6, <2>1
<1>8. UNCHANGED <<callRest, rec, result, timer, slot, heard>>
  BY DEF StopWait
<1>9. Types' /\ ResizeInv' /\ StartInv'
  BY <1>1, <1>7, <1>8, CallFrame
<1>10. TimerInv' /\ RecOK(rec', result', heard')
  BY <1>8 DEF IInv, TimerInv
<1>11. CallInv'
  <2>1. CallOK(c, rec', heard') /\ ~Finalizes(c)
    BY <1>4, <1>6 DEF CallOK, Finalizes
  <2> QED
    BY <1>2, <1>7, <1>8, <2>1, OneCall, Zenon DEF IInv
<1>12. QuietInv'
  <2>1. CASE a = Main
    <3>1. main = "trace" => rec.st = "Idle"
      BY <1>1, <1>3, <1>4, <2>1 DEF IInv, QuietInv, QuietOK, RecOK
    <3> QED
      BY <1>1, <1>6, <1>7, <1>8, <2>1, <3>1 DEF IInv, QuietInv, QuietOK, callRest
  <2>2. CASE a # Main
    <3>1. call'[Main] = call[Main]
      BY <1>1, <1>7, <2>2, Shapes
    <3> QED
      BY <1>8, <3>1 DEF IInv, QuietInv, callRest
  <2> QED
    BY <2>1, <2>2
<1> QED
  BY <1>9, <1>10, <1>11, <1>12 DEF IInv

LEMMA DrainStep == ASSUME NEW a \in Actors PROVE IInv /\ StopDrain(a) => IInv'
<1> SUFFICES ASSUME IInv, StopDrain(a) PROVE IInv'
  OBVIOUS
<1>1. /\ rec \in Recorder /\ call[a] \in Call /\ call[a].pc = "drain"
      /\ call \in [Actors -> Call] /\ slot \in 0 .. MaxRecs
      /\ result \in [Recs -> Result] /\ timer \in [Recs -> Timer]
  BY DEF IInv, Types, StopDrain
<1>2. \A b \in Actors : CallOK(call[b], rec, heard)
  BY DEF IInv, CallInv
<1>3. PICK c : c = [call[a] EXCEPT !.pc = "out"]
  BY Zenon
<1>4. /\ c \in Call /\ c.pc = "out" /\ c.res = call[a].res /\ c.want = call[a].want
  BY <1>1, <1>3 DEF Call
<1>5. call' = [call EXCEPT ![a] = c] /\ call' \in [Actors -> Call] /\ call'[a] = c
  <2>1. call' = [call EXCEPT ![a] = c]
    BY <1>1, <1>3 DEF StopDrain
  <2> QED
    BY <1>1, <1>4, <2>1
<1>6. UNCHANGED <<callRest, rec, result, timer, heard>>
  BY DEF StopDrain
<1>7. slot' \in {0, slot} /\ (slot = call[a].drain => slot' = 0)
  BY DEF StopDrain
<1>8. Types' /\ ResizeInv' /\ StartInv'
  BY <1>1, <1>5, <1>6, <1>7, CallFrame
<1>9. TimerInv'
  <2> SUFFICES ASSUME NEW r \in Recs, timer'[r].pc \notin {"none", "gone"} PROVE slot' = r
    BY DEF TimerInv
  <2>1. slot = r /\ timer[r].pc # "gone"
    BY <1>6 DEF IInv, TimerInv
  <2>2. call[a].drain # r
    BY <2>1 DEF StopDrain, Gone
  <2> QED
    BY <2>1, <2>2 DEF StopDrain
<1>10. RecOK(rec', result', heard')
  BY <1>6 DEF IInv
<1>11. CallInv'
  <2>1. CallOK(c, rec', heard') /\ ~Finalizes(c)
    BY <1>1, <1>2, <1>4 DEF CallOK, Finalizes
  <2> QED
    BY <1>2, <1>5, <1>6, <2>1, OneCall, Zenon DEF IInv
<1>12. QuietInv'
  <2>1. CASE a = Main
    BY <1>1, <1>4, <1>5, <1>6, <1>7, <2>1 DEF IInv, QuietInv, QuietOK, callRest
  <2>2. CASE a # Main
    <3>1. call'[Main] = call[Main]
      BY <1>1, <1>5, <2>2, Shapes
    <3> QED
      BY <1>6, <1>7, <3>1 DEF IInv, QuietInv, QuietOK, callRest
  <2> QED
    BY <2>1, <2>2
<1> QED
  BY <1>8, <1>9, <1>10, <1>11, <1>12 DEF IInv

-----------------------------------------------------------------------------
(* The duration timer. *)

\* A call that begins anew or is cleared finalizes nothing and has no result.
LEMMA FreshCall ==
    ASSUME NEW c, c \in {NoCall, [NoCall EXCEPT !.pc = "claim"]}
    PROVE  /\ c \in Call /\ c.pc \in {"idle", "claim"} /\ ~Finalizes(c)
           /\ \A rc, h : CallOK(c, rc, h)
<1>1. c \in Call /\ c.pc \in {"idle", "claim"}
  BY Shapes DEF NoCall, Call
<1> QED
  BY <1>1 DEF Finalizes, CallOK

\* Resetting the call of one actor keeps the facts about calls.
LEMMA ResetCall ==
    ASSUME IInv, NEW a \in Actors, UNCHANGED <<rec, heard>>,
           NEW c, c \in {NoCall, [NoCall EXCEPT !.pc = "claim"]},
           call' = [call EXCEPT ![a] = c]
    PROVE  /\ CallInv' /\ call' \in [Actors -> Call]
           /\ call'[a].pc \in {"idle", "claim"}
           /\ \A b \in Actors \ {a} : call'[b] = call[b]
<1>1. call \in [Actors -> Call]
  BY DEF IInv, Types
<1>2. c \in Call /\ c.pc \in {"idle", "claim"} /\ ~Finalizes(c) /\ CallOK(c, rec', heard')
  BY FreshCall
<1>3. CallInv'
  BY <1>2, OneCall DEF IInv, CallInv
<1> QED
  BY <1>1, <1>2, <1>3

\* Every move of a timer starts from the kept one.
LEMMA TimerMove ==
    ASSUME IInv, NEW r \in Recs, NEW p \in {"awake", "stop", "gone"},
           timer[r].pc \notin {"none", "gone"},
           timer' = [timer EXCEPT ![r].pc = p], UNCHANGED slot
    PROVE  timer' \in [Recs -> Timer] /\ TimerInv'
<1>1. timer \in [Recs -> Timer] /\ timer[r] \in Timer
  BY DEF IInv, Types
<1>2. PICK t : t = [timer[r] EXCEPT !.pc = p]
  BY Zenon
<1>3. t \in Timer
  BY <1>1, <1>2 DEF Timer
<1>4. timer' = [timer EXCEPT ![r] = t]
  BY <1>1, <1>2
<1>5. slot = r
  BY DEF IInv, TimerInv
<1> QED
  BY <1>1, <1>3, <1>4, <1>5 DEF IInv, TimerInv

LEMMA TimerSteps == IInv /\ TimerStep => IInv'
<1> SUFFICES ASSUME IInv, NEW r \in Recs, TimerWake(r) \/ TimerCheck(r) \/ TimerCallback(r)
             PROVE  IInv'
  BY DEF TimerStep
<1>1. UNCHANGED timerRest
  BY DEF TimerWake, TimerCheck, TimerCallback
<1>2. timer' \in [Recs -> Timer] /\ TimerInv'
  <2>1. PICK p \in {"awake", "stop", "gone"} : timer' = [timer EXCEPT ![r].pc = p]
    BY DEF TimerWake, TimerCheck, TimerCallback
  <2>2. timer[r].pc \notin {"none", "gone"}
    BY DEF TimerWake, TimerCheck, TimerCallback
  <2> QED
    BY <1>1, <2>1, <2>2, TimerMove, Zenon DEF timerRest
<1>3. CallInv' /\ call' \in [Actors -> Call] /\ call'[Main] = call[Main]
  <2>1. CASE UNCHANGED call
    BY <1>1, <2>1 DEF IInv, Types, CallInv, timerRest
  <2>2. CASE call' = Called(r)
    BY <1>1, <2>2, ResetCall, Shapes, Zenon DEF Called, timerRest
  <2> QED
    BY <2>1, <2>2 DEF TimerWake, TimerCheck, TimerCallback
<1>4. Types'
  BY <1>1, <1>2, <1>3 DEF IInv, Types, timerRest, super, sizes
<1>5. ResizeInv' /\ StartInv' /\ RecOK(rec', result', heard')
  BY <1>1 DEF IInv, ResizeInv, StartInv, timerRest, sizes
<1>6. QuietInv'
  BY <1>1, <1>3 DEF IInv, QuietInv, timerRest
<1> QED
  BY <1>2, <1>3, <1>4, <1>5, <1>6 DEF IInv

-----------------------------------------------------------------------------
(* The control loop. *)

\* Taking a line leaves commands in the channel and has one in hand.
LEMMA Taken ==
    ASSUME IInv, NEW k, Takes(k)
    PROVE  chan' \in Seq(Cmd) /\ Head(chan) \in Cmd /\ ctl.pc = "read"
BY DEF IInv, Types, Takes

LEMMA Moved ==
    ASSUME IInv
    PROVE  /\ ctl.cmd \in Cmd /\ ctl.cmd.size \in Nat
           /\ \A p \in {"read", "gone", "stop"} \cup Starting \cup Resizing :
                 Goto(p) => ctl' \in Control /\ ctl'.pc = p /\ ctl'.cmd = ctl.cmd
           /\ \A ok, r : Reply(ok, r) => ctl' \in Control /\ ctl'.pc = "read"
           /\ \A p \in {"read", "gone", "stop"} \cup Starting \cup Resizing :
                 Runs(p) /\ Head(chan) \in Cmd => ctl' \in Control /\ ctl'.pc = p
<1>1. ctl \in Control
  BY DEF IInv, Types
<1>2. ctl.cmd \in Cmd /\ ctl.cmd.size \in Nat
  BY <1>1 DEF Control, Cmd
<1>3. \A p \in {"read", "gone", "stop"} \cup Starting \cup Resizing :
         Goto(p) => ctl' \in Control /\ ctl'.pc = p /\ ctl'.cmd = ctl.cmd
  BY <1>1 DEF Goto, Control
<1>4. \A ok, r : Reply(ok, r) => ctl' \in Control /\ ctl'.pc = "read"
  BY Shapes DEF Reply, Control
<1>5. \A p \in {"read", "gone", "stop"} \cup Starting \cup Resizing :
         Runs(p) /\ Head(chan) \in Cmd => ctl' \in Control /\ ctl'.pc = p
  BY DEF Runs, Control
<1> QED
  BY <1>2, <1>3, <1>4, <1>5, Zenon

\* The recorder's part, when a step of the loop leaves the recorder alone.
LEMMA RecorderFrame ==
    ASSUME IInv, UNCHANGED recorder, UNCHANGED main
    PROVE  TimerInv' /\ RecOK(rec', result', heard') /\ CallInv' /\ QuietInv'
BY DEF IInv, TimerInv, CallInv, QuietInv, recorder

LEMMA StartGateStep == IInv /\ StartGate => IInv'
<1> SUFFICES ASSUME IInv, StartGate PROVE IInv'
  OBVIOUS
<1>1. UNCHANGED <<ctlRest, recorder, rgate, sizes, budget>> /\ Takes("start")
  BY DEF StartGate
<1>2. chan' \in Seq(Cmd) /\ Head(chan) \in Cmd /\ ctl.pc = "read"
  BY <1>1, Taken
<1>3. TimerInv' /\ RecOK(rec', result', heard') /\ CallInv' /\ QuietInv'
  BY <1>1, RecorderFrame DEF ctlRest
<1>4. CASE StartsClosed
  <2>1. UNCHANGED <<ctl, tgate>>
    BY <1>4 DEF StartGate, Refused
  <2>2. Types' /\ ResizeInv' /\ StartInv'
    BY <1>1, <1>2, <2>1 DEF IInv, Types, ResizeInv, StartInv, ctlRest, recorder, sizes, super
  <2> QED
    BY <1>3, <2>2 DEF IInv
<1>5. CASE ~StartsClosed
  <2>1. tgate' = TRUE /\ ctl' \in Control /\ ctl'.pc = "idle"
    BY <1>2, <1>5, Moved DEF StartGate, Starting
  <2>2. main \in {"serve", "rgate"}
    BY <1>5, Phases DEF IInv, Types
  <2>3. Types'
    BY <1>1, <1>2, <2>1 DEF IInv, Types, ctlRest, recorder, sizes, super
  <2>4. ResizeInv'
    BY <1>1, <2>1 DEF IInv, ResizeInv, Resizing, ctlRest, sizes, super
  <2>5. StartInv'
    BY <1>1, <2>1, <2>2 DEF IInv, StartInv, ctlRest
  <2> QED
    BY <1>3, <2>3, <2>4, <2>5 DEF IInv
<1> QED
  BY <1>4, <1>5

LEMMA StartIdleStep == IInv /\ StartIdle => IInv'
<1> SUFFICES ASSUME IInv, StartIdle PROVE IInv'
  OBVIOUS
<1>1. /\ UNCHANGED <<ctlRest, rec, result, timer, call, heard, rgate, sizes, chan, budget>>
      /\ ctl.pc = "idle"
  BY DEF StartIdle
<1>2. ctl.pc \in Starting
  BY <1>1 DEF Starting
<1>3. CASE rec.st # "Idle"
  <2>1. ctl' \in Control /\ ctl'.pc = "read" /\ UNCHANGED slot
    BY <1>3, Moved, Zenon DEF StartIdle
  <2>2. Types'
    BY <1>1, <2>1 DEF IInv, Types, ctlRest, sizes, super
  <2>3. ResizeInv' /\ StartInv'
    BY <1>1, <2>1 DEF IInv, ResizeInv, StartInv, Resizing, Starting, ctlRest, sizes, super
  <2>4. TimerInv' /\ RecOK(rec', result', heard') /\ CallInv' /\ QuietInv'
    BY <1>1, <2>1, RecorderFrame DEF ctlRest, recorder
  <2> QED
    BY <2>2, <2>3, <2>4 DEF IInv
<1>4. CASE rec.st = "Idle"
  <2>1. /\ ~Stale /\ slot' = 0 /\ UNCHANGED tgate
        /\ ctl' \in Control /\ ctl'.pc = "commit"
    BY <1>4, Moved DEF StartIdle, Starting
  <2>2. Types'
    BY <1>1, <2>1, TraceAssumption DEF IInv, Types, ctlRest, sizes, super
  <2>3. ResizeInv'
    BY <1>1, <2>1 DEF IInv, ResizeInv, Resizing, ctlRest, sizes, super
  <2>4. StartInv'
    BY <1>1, <1>2, <2>1 DEF IInv, StartInv, ctlRest
  <2>5. TimerInv'
    <3>1. \A r \in Recs : timer[r].pc \in {"none", "gone"}
      BY <2>1 DEF IInv, TimerInv, Stale, Gone
    <3> QED
      BY <1>1, <3>1 DEF TimerInv
  <2>6. RecOK(rec', result', heard') /\ CallInv'
    BY <1>1 DEF IInv, CallInv
  <2>7. QuietInv'
    BY <1>1, <1>2, <2>1 DEF IInv, StartInv, QuietInv, QuietOK, ctlRest
  <2> QED
    BY <2>2, <2>3, <2>4, <2>5, <2>6, <2>7 DEF IInv
<1> QED
  BY <1>3, <1>4

LEMMA StartCommitStep == IInv /\ StartCommit => IInv'
<1> SUFFICES ASSUME IInv, StartCommit PROVE IInv'
  OBVIOUS
<1>1. /\ UNCHANGED <<ctlRest, result, call, heard, rgate, sizes, chan>>
      /\ ctl.pc = "commit"
  BY DEF StartCommit
<1>2. /\ ctl.pc \in Starting /\ slot = 0 /\ main \in {"serve", "rgate", "tgate"}
      /\ tgate
  BY <1>1 DEF IInv, StartInv, Starting
<1>3. ASSUME Reply(FALSE, 0), UNCHANGED <<rec, timer, slot>>
      PROVE  IInv'
  <2>1. ctl' \in Control /\ ctl'.pc = "read"
    BY <1>3, Moved, Zenon
  <2>2. Types'
    BY <1>1, <1>3, <2>1 DEF IInv, Types, ctlRest, sizes, super
  <2>3. ResizeInv' /\ StartInv'
    BY <1>1, <2>1 DEF IInv, ResizeInv, StartInv, Resizing, Starting, ctlRest, sizes, super
  <2>4. TimerInv' /\ RecOK(rec', result', heard') /\ CallInv' /\ QuietInv'
    BY <1>1, <1>3, RecorderFrame DEF ctlRest, recorder
  <2> QED
    BY <2>2, <2>3, <2>4 DEF IInv
<1>4. ASSUME rec.st = "Idle", rec.rid < MaxRecs, Goto("started"), UNCHANGED tgate,
             rec' = [st |-> "Recording", rid |-> rec.rid + 1, entries |-> 0, kept |-> 0,
                     dropped |-> 0, last |-> NoResult],
             timer' = [timer EXCEPT ![rec.rid + 1].pc = "sleep"],
             slot' = rec.rid + 1
      PROVE  IInv'
  <2>1. rec.rid \in 0 .. MaxRecs /\ timer \in [Recs -> Timer] /\ heard \in [Recs -> Nat]
    BY DEF IInv, Types, Recorder
  <2>2. PICK r \in Recs : r = rec.rid + 1
    BY <1>4, <2>1, TraceAssumption DEF Recs
  <2>3. ctl' \in Control /\ ctl'.pc = "started"
    BY <1>4, Moved DEF Starting
  <2>4. /\ rec' \in Recorder /\ rec'.st = "Recording" /\ rec'.rid = r
        /\ rec'.kept = 0 /\ rec'.dropped = 0
    BY <1>4, <2>2, Shapes DEF Recorder
  <2>5. /\ timer' \in [Recs -> Timer]
        /\ \A q \in Recs : q # r => timer'[q] = timer[q]
    <3>1. PICK t : t = [timer[r] EXCEPT !.pc = "sleep"]
      BY Zenon
    <3>2. t \in Timer
      BY <2>1, <2>2, <3>1 DEF Timer
    <3>3. timer' = [timer EXCEPT ![r] = t]
      BY <1>4, <2>1, <2>2, <3>1
    <3> QED
      BY <2>1, <3>2, <3>3
  <2>6. slot' = r /\ slot' \in 0 .. MaxRecs
    BY <1>4, <2>2, Shapes
  <2>7. Types'
    BY <1>1, <2>3, <2>4, <2>5, <2>6 DEF IInv, Types, ctlRest, sizes, super
  <2>8. ResizeInv'
    BY <1>1, <2>3 DEF IInv, ResizeInv, Resizing, ctlRest, sizes, super
  <2>9. StartInv'
    BY <1>1, <1>2, <1>4, <2>3 DEF StartInv, ctlRest
  <2>10. TimerInv'
    BY <1>2, <2>5, <2>6, Shapes DEF IInv, TimerInv
  <2>11. RecOK(rec', result', heard')
    <3>1. heard[r] = 0 /\ result[r].rid = 0
      BY <2>1, <2>2 DEF IInv, RecOK
    <3>2. \A q \in Recs : r < q => heard[q] = 0 /\ result[q].rid = 0
      <4>1. \A q \in Recs : r < q => rec.rid < q
        BY <2>1, <2>2, Shapes
      <4> QED
        BY <4>1 DEF IInv, RecOK
    <3>3. rec'.kept + rec'.dropped = heard[r]
      BY <2>4, <3>1
    <3> QED
      BY <1>1, <2>2, <2>4, <3>1, <3>2, <3>3 DEF IInv, RecOK
  <2>12. CallInv'
    <3>1. \A a \in Actors : ~Finalizes(call[a])
      BY <1>4 DEF IInv, CallInv, CallOK
    <3>2. \A a \in Actors : CallOK(call[a], rec', heard')
      BY <3>1 DEF IInv, CallInv, CallOK, Finalizes
    <3> QED
      BY <1>1, <3>1, <3>2 DEF CallInv
  <2>13. QuietInv'
    BY <1>1, <1>2 DEF QuietInv, QuietOK, ctlRest
  <2> QED
    BY <2>7, <2>8, <2>9, <2>10, <2>11, <2>12, <2>13 DEF IInv
<1> QED
  BY <1>3, <1>4, Zenon DEF StartCommit

LEMMA StopTakeStep == IInv /\ (StopTake \/ StopReply) => IInv'
<1> SUFFICES ASSUME IInv, StopTake \/ StopReply PROVE IInv'
  OBVIOUS
<1>1. /\ UNCHANGED <<ctlRest, rec, result, timer, slot, heard, tgate, rgate, sizes, budget>>
      /\ chan' \in Seq(Cmd)
  BY Taken DEF StopTake, StopReply, IInv, Types
<1>2. ctl' \in Control /\ ctl'.pc \in {"stop", "read"}
  BY Taken, Moved DEF StopTake, StopReply
<1>3. PICK c : /\ c \in {NoCall, [NoCall EXCEPT !.pc = "claim"]}
               /\ call' = [call EXCEPT ![Ctl] = c]
  BY DEF StopTake, StopReply, Called
<1>4. CallInv' /\ call' \in [Actors -> Call] /\ call'[Main] = call[Main]
  <2>1. Main # Ctl
    BY TraceAssumption DEF Main, Ctl
  <2> QED
    BY <1>1, <1>3, <2>1, ResetCall, Shapes, Zenon
<1>5. Types'
  BY <1>1, <1>2, <1>4 DEF IInv, Types, ctlRest, sizes, super
<1>6. ResizeInv' /\ StartInv'
  BY <1>1, <1>2 DEF IInv, ResizeInv, StartInv, Resizing, Starting, ctlRest, sizes, super
<1>7. TimerInv' /\ RecOK(rec', result', heard')
  BY <1>1 DEF IInv, TimerInv
<1>8. QuietInv'
  BY <1>1, <1>4 DEF IInv, QuietInv, ctlRest
<1> QED
  BY <1>4, <1>5, <1>6, <1>7, <1>8 DEF IInv

LEMMA ResizeGateStep == IInv /\ ResizeGate => IInv'
<1> SUFFICES ASSUME IInv, ResizeGate PROVE IInv'
  OBVIOUS
<1>1. UNCHANGED <<ctlRest, recorder, tgate, sizes, budget>> /\ Takes("resize")
  BY DEF ResizeGate
<1>2. chan' \in Seq(Cmd) /\ Head(chan) \in Cmd /\ ctl.pc = "read"
  BY <1>1, Taken
<1>3. TimerInv' /\ RecOK(rec', result', heard') /\ CallInv' /\ QuietInv'
  BY <1>1, RecorderFrame DEF ctlRest
<1>4. CASE UNCHANGED <<ctl, rgate>>
  <2>1. Types' /\ ResizeInv' /\ StartInv'
    BY <1>1, <1>2, <1>4 DEF IInv, Types, ResizeInv, StartInv, ctlRest, recorder, sizes, super
  <2> QED
    BY <1>3, <2>1 DEF IInv
<1>5. CASE ~Stopping /\ rgate' = TRUE /\ Runs("layer")
  <2>1. rgate' = TRUE /\ ctl' \in Control /\ ctl'.pc = "layer"
    BY <1>2, <1>5, Moved DEF Resizing
  <2>2. main = "serve"
    BY <1>5, Phases DEF IInv, Types
  <2>3. Types'
    BY <1>1, <1>2, <2>1 DEF IInv, Types, ctlRest, recorder, sizes, super
  <2>4. ResizeInv'
    BY <1>1, <2>1, <2>2 DEF IInv, ResizeInv, ctlRest, sizes, super
  <2>5. StartInv'
    BY <1>1, <2>1 DEF IInv, StartInv, Starting, ctlRest, recorder
  <2> QED
    BY <1>3, <2>3, <2>4, <2>5 DEF IInv
<1> QED
  BY <1>4, <1>5, Zenon DEF ResizeGate, Refused

LEMMA ResizeLayerStep == IInv /\ ResizeLayer => IInv'
<1> SUFFICES ASSUME IInv, ResizeLayer PROVE IInv'
  OBVIOUS
<1>1. /\ UNCHANGED <<ctlRest, recorder, tgate, dsize, trailer, chan>>
      /\ ctl.pc = "layer"
  BY DEF ResizeLayer
<1>2. /\ rgate /\ main \in {"serve", "rgate"} /\ trailer = 0 /\ dsize <= hdr
      /\ hdr \in Nat /\ dsize \in Nat /\ ctl.cmd.size \in Nat
  BY <1>1, Moved DEF IInv, Types, ResizeInv, Resizing
<1>3. TimerInv' /\ RecOK(rec', result', heard') /\ CallInv' /\ QuietInv'
  BY <1>1, RecorderFrame DEF ctlRest
<1>4. ASSUME ctl.cmd.size >= hdr, hdr' = ctl.cmd.size, Goto("device"), UNCHANGED rgate
      PROVE  IInv'
  <2>1. ctl' \in Control /\ ctl'.pc = "device" /\ ctl'.cmd = ctl.cmd
    BY <1>4, Moved DEF Resizing
  <2>2. Types'
    BY <1>1, <1>2, <1>4, <2>1 DEF IInv, Types, ctlRest, recorder, super
  <2>3. dsize' <= hdr'
    BY <1>1, <1>2, <1>4
  <2>4. ResizeInv'
    BY <1>1, <1>2, <1>4, <2>1, <2>3 DEF ResizeInv, ctlRest
  <2>5. StartInv'
    BY <1>1, <2>1 DEF IInv, StartInv, Starting, ctlRest, recorder
  <2> QED
    BY <1>3, <2>2, <2>4, <2>5 DEF IInv
<1>5. ASSUME Reply(FALSE, 0), UNCHANGED hdr
      PROVE  IInv'
  <2>1. ctl' \in Control /\ ctl'.pc = "read"
    BY <1>5, Moved, Zenon
  <2>2. Types'
    BY <1>1, <1>5, <2>1 DEF IInv, Types, ctlRest, recorder, super
  <2>3. ResizeInv' /\ StartInv'
    BY <1>1, <1>2, <1>5, <2>1 DEF ResizeInv, StartInv, Resizing, Starting, ctlRest
  <2> QED
    BY <1>3, <2>2, <2>3 DEF IInv
<1> QED
  BY <1>4, <1>5, Zenon DEF ResizeLayer

LEMMA ResizeDeviceStep == IInv /\ ResizeDevice => IInv'
<1> SUFFICES ASSUME IInv, ResizeDevice PROVE IInv'
  OBVIOUS
<1>1. /\ UNCHANGED <<ctlRest, recorder, tgate, hdr, trailer, chan>>
      /\ ctl.pc = "device"
  BY DEF ResizeDevice
<1>2. /\ trailer = 0 /\ dsize <= hdr /\ hdr \in Nat /\ dsize \in Nat
      /\ ctl.cmd.size = hdr
  BY <1>1 DEF IInv, Types, ResizeInv, Resizing
<1>3. TimerInv' /\ RecOK(rec', result', heard') /\ CallInv' /\ QuietInv'
  BY <1>1, RecorderFrame DEF ctlRest
<1>4. dsize' \in {dsize, hdr} /\ ctl' \in Control /\ ctl'.pc = "read"
  BY <1>2, Moved, Zenon DEF ResizeDevice
<1>5. Types'
  BY <1>1, <1>2, <1>4 DEF IInv, Types, ctlRest, recorder, super
<1>6. dsize' <= hdr'
  BY <1>1, <1>2, <1>4
<1>7. ResizeInv' /\ StartInv'
  BY <1>1, <1>2, <1>4, <1>6 DEF ResizeInv, StartInv, Resizing, Starting, ctlRest
<1> QED
  BY <1>3, <1>5, <1>7 DEF IInv

LEMMA CtlSteps == IInv /\ CtlStep => IInv'
<1> SUFFICES ASSUME IInv, CtlStep PROVE IInv'
  OBVIOUS
<1>1. ASSUME CtlEnd \/ StartReply PROVE IInv'
  <2>1. /\ UNCHANGED <<ctlRest, recorder, rgate, sizes, chan>>
        /\ ctl' \in Control /\ ctl'.pc \in {"gone", "read"}
    BY <1>1, Moved, Zenon DEF CtlEnd, StartReply
  <2>2. Types'
    BY <2>1 DEF IInv, Types, ctlRest, recorder, sizes, super
  <2>3. ResizeInv' /\ StartInv'
    BY <2>1 DEF IInv, ResizeInv, StartInv, Resizing, Starting, ctlRest, recorder, sizes, super
  <2>4. TimerInv' /\ RecOK(rec', result', heard') /\ CallInv' /\ QuietInv'
    BY <2>1, RecorderFrame DEF ctlRest
  <2> QED
    BY <2>2, <2>3, <2>4 DEF IInv
<1> QED
  BY <1>1, StartGateStep, StartIdleStep, StartCommitStep, StopTakeStep, ResizeGateStep,
     ResizeLayerStep, ResizeDeviceStep DEF CtlStep

-----------------------------------------------------------------------------
(* The shutdown of device_main. *)

LEMMA GatesStep == IInv /\ (Shutdown \/ Gates) => IInv'
<1> SUFFICES ASSUME IInv, Shutdown \/ Gates PROVE IInv'
  OBVIOUS
<1>1. UNCHANGED <<mainRest, call, trailer, budget>>
  BY DEF Shutdown, Gates
<1>2. \/ main = "serve" /\ main' = "rgate"
      \/ main = "rgate" /\ ~rgate /\ main' = "tgate"
      \/ main = "tgate" /\ ~tgate /\ main' = "halt"
  BY DEF Shutdown, Gates, DrainResize, DrainStarts
<1>3. Types'
  BY <1>1, <1>2 DEF IInv, Types, Mains, mainRest, super
<1>4. ResizeInv'
  BY <1>1, <1>2 DEF IInv, ResizeInv, mainRest
<1>5. StartInv'
  BY <1>1, <1>2 DEF IInv, StartInv, mainRest
<1>6. TimerInv' /\ RecOK(rec', result', heard') /\ CallInv'
  BY <1>1 DEF IInv, TimerInv, CallInv, mainRest
<1>7. QuietInv'
  BY <1>2 DEF QuietInv, QuietOK
<1> QED
  BY <1>3, <1>4, <1>5, <1>6, <1>7 DEF IInv

LEMMA FinishStep == IInv /\ (Finish \/ Finished) => IInv'
<1> SUFFICES ASSUME IInv, Finish \/ Finished PROVE IInv'
  OBVIOUS
<1>1. UNCHANGED <<mainRest, trailer, budget>>
  BY DEF Finish, Finished
<1>2. \/ main = "halt" /\ main' = "trace"
      \/ main = "control" /\ main' = "trace2"
      \/ main = "trace" /\ call[Main].pc = "out" /\ main' = "ckpt"
      \/ main = "trace2" /\ main' = "done"
  BY DEF Finish, Finished
<1>3. PICK c : /\ c \in {NoCall, [NoCall EXCEPT !.pc = "claim"]}
               /\ call' = [call EXCEPT ![Main] = c]
  BY DEF Finish, Finished, Called
<1>4. CallInv' /\ call' \in [Actors -> Call] /\ call'[Main].pc \in {"idle", "claim"}
  BY <1>1, <1>3, ResetCall, Shapes, Zenon DEF mainRest
<1>5. Types'
  BY <1>1, <1>2, <1>4 DEF IInv, Types, Mains, mainRest, super
<1>6. ResizeInv'
  BY <1>1, <1>2 DEF IInv, ResizeInv, mainRest
<1>7. StartInv'
  BY <1>1, <1>2 DEF IInv, StartInv, mainRest
<1>8. TimerInv' /\ RecOK(rec', result', heard')
  BY <1>1 DEF IInv, TimerInv, mainRest
<1>9. QuietInv'
  BY <1>1, <1>2, <1>4 DEF IInv, QuietInv, QuietOK, mainRest
<1> QED
  BY <1>4, <1>5, <1>6, <1>7, <1>8, <1>9 DEF IInv

LEMMA CheckpointStep == IInv /\ Checkpoint => IInv'
<1> SUFFICES ASSUME IInv, Checkpoint PROVE IInv'
  OBVIOUS
<1>1. /\ UNCHANGED <<mainRest, call>> /\ main = "ckpt" /\ main' = "control"
      /\ trailer' \in {hdr, trailer}
  BY DEF Checkpoint
<1>2. Types'
  BY <1>1 DEF IInv, Types, Mains, mainRest, super
<1>3. ResizeInv'
  BY <1>1 DEF IInv, ResizeInv, mainRest
<1>4. StartInv'
  BY <1>1 DEF IInv, StartInv, mainRest
<1>5. TimerInv' /\ RecOK(rec', result', heard') /\ CallInv'
  BY <1>1 DEF IInv, TimerInv, CallInv, mainRest
<1>6. QuietInv'
  BY <1>1 DEF IInv, QuietInv, QuietOK, mainRest
<1> QED
  BY <1>2, <1>3, <1>4, <1>5, <1>6 DEF IInv

-----------------------------------------------------------------------------
(* The supervisor, and the theorems. *)

LEMMA SupervisorStep ==
    IInv /\ (Die \/ CmdTraceStart \/ CmdTraceStop \/ CmdResize \/ Timeout \/ Route \/ Eof)
        => IInv'
<1> SUFFICES ASSUME IInv,
                    Die \/ CmdTraceStart \/ CmdTraceStop \/ CmdResize \/ Timeout \/ Route \/ Eof
             PROVE  IInv'
  OBVIOUS
<1>1. UNCHANGED <<recorder, ctl, tgate, rgate, main, sizes>>
  BY DEF Die, CmdTraceStart, CmdTraceStop, CmdResize, Send, Timeout, Route, Eof, devRest
<1>2. chan' \in Seq(Cmd) /\ seq' \in Nat
  <2>1. chan \in Seq(Cmd) /\ seq \in Nat
    BY DEF IInv, Types
  <2>2. ASSUME NEW k \in {"start", "stop", "resize"}, NEW n \in Nat, Send(k, n)
        PROVE  chan' \in Seq(Cmd) /\ seq' \in Nat
    <3>1. [kind |-> k, seq |-> seq + 1, size |-> n] \in Cmd
      BY <2>1 DEF Cmd
    <3> QED
      BY <2>1, <2>2, <3>1 DEF Send
  <2>3. CASE CmdTraceStart \/ CmdTraceStop \/ CmdResize
    BY <2>2, <2>3, TraceAssumption DEF CmdTraceStart, CmdTraceStop, CmdResize
  <2>4. CASE Die \/ Timeout \/ Route \/ Eof
    BY <2>1, <2>4 DEF Die, Timeout, Route, Eof, super
  <2> QED
    BY <2>3, <2>4
<1>3. Types'
  BY <1>1, <1>2 DEF IInv, Types, recorder, sizes
<1>4. ResizeInv' /\ StartInv'
  BY <1>1 DEF IInv, ResizeInv, StartInv, recorder, sizes
<1>5. TimerInv' /\ RecOK(rec', result', heard') /\ CallInv' /\ QuietInv'
  BY <1>1, RecorderFrame
<1> QED
  BY <1>3, <1>4, <1>5 DEF IInv

LEMMA Initially == Init => IInv
<1> SUFFICES ASSUME Init PROVE IInv
  OBVIOUS
<1>1. rec \in Recorder /\ rec.st = "Idle" /\ rec.rid = 0
  BY Shapes, TraceAssumption DEF Init, Recorder
<1>2. /\ result \in [Recs -> Result] /\ \A r \in Recs : result[r].rid = 0 /\ heard[r] = 0
  BY Shapes DEF Init, NoResult
<1>3. timer \in [Recs -> Timer] /\ \A r \in Recs : timer[r].pc = "none"
  BY DEF Init, Timer
<1>4. call \in [Actors -> Call] /\ \A a \in Actors : call[a].pc = "idle"
  BY Shapes DEF Init, NoCall
<1>5. ctl \in Control /\ ctl.pc = "read"
  BY Shapes DEF Init, Control
<1>6. Types
  BY <1>1, <1>2, <1>3, <1>4, <1>5, TraceAssumption DEF Init, Types, Mains
<1>7. ResizeInv /\ StartInv
  BY <1>5 DEF Init, ResizeInv, StartInv, Resizing, Starting
<1>8. TimerInv /\ RecOK(rec, result, heard)
  BY <1>1, <1>2, <1>3 DEF TimerInv, RecOK
<1>9. CallInv
  BY <1>4 DEF CallInv, CallOK, Finalizes
<1>10. QuietInv
  BY DEF Init, QuietInv, QuietOK
<1> QED
  BY <1>6, <1>7, <1>8, <1>9, <1>10 DEF IInv

LEMMA Preserved == IInv /\ [Next]_vars => IInv'
<1>1. IInv /\ UNCHANGED vars => IInv'
  <2> SUFFICES ASSUME IInv, UNCHANGED vars PROVE IInv'
    OBVIOUS
  <2>1. Types' /\ ResizeInv' /\ StartInv'
    BY Zenon DEF IInv, Types, ResizeInv, StartInv, vars, recorder, sizes, super
  <2>2. TimerInv' /\ RecOK(rec', result', heard') /\ CallInv' /\ QuietInv'
    BY RecorderFrame DEF vars
  <2> QED
    BY <2>1, <2>2 DEF IInv
<1>2. IInv /\ StopStep => IInv'
  BY ClaimStep, CopyStep, PublishStep, WaitStep, DrainStep DEF StopStep
<1>3. IInv /\ MainStep => IInv'
  BY GatesStep, FinishStep, CheckpointStep DEF MainStep
<1> QED
  BY <1>1, <1>2, <1>3, TimerSteps, CtlSteps, ReadStep, GatesStep, SupervisorStep
     DEF Next, DeviceStep

LEMMA Invariance == Spec => []IInv
BY Initially, Preserved, PTL DEF Spec

\* Every read offered to a recording is in its blob or counted as dropped, and
\* every stop() returns the result of the recording it ended, joined or found
\* ended (TraceRecorder::record, stop_impl and finalize_locked_state), for any
\* number of recordings, reads and callers.
THEOREM EveryReadAccounted == Spec => []RecordsAreKept
<1>1. IInv => RecordsAreKept
  BY Zenon DEF IInv, RecOK, CallInv, CallOK, RecordsAreKept
<1> QED
  BY <1>1, Invariance, PTL

\* Once device_main has finished the recording no recording runs and no timer
\* is left that could touch the recorder (finish_trace_recording): the gate of
\* starts is drained first, and the stop() waits for the one timer kept.
THEOREM RecorderQuiet == Spec => []QuietAfterFinish
<1>1. IInv => QuietAfterFinish
  <2> SUFFICES ASSUME IInv, Phase[main] >= 5 PROVE QuietAfterFinish
    BY DEF QuietAfterFinish
  <2>1. rec.st = "Idle" /\ slot = 0
    BY Phases DEF IInv, Types, QuietInv, QuietOK
  <2>2. \A r \in Recs : timer[r].pc \in {"none", "gone"}
    BY <2>1, Shapes DEF IInv, TimerInv
  <2> QED
    BY <2>1, <2>2 DEF QuietAfterFinish
<1> QED
  BY <1>1, Invariance, PTL

\* The shutdown checkpoint records the size in the layer's header, and the
\* device is never larger than the layer it is served from: a resize holds the
\* gate that device_main drains before the checkpoint (make_resize_apply).
THEOREM CheckpointedSize == Spec => []TrailerMatchesHeader
<1>1. IInv => TrailerMatchesHeader
  BY DEF IInv, ResizeInv, TrailerMatchesHeader
<1> QED
  BY <1>1, Invariance, PTL

=============================================================================
