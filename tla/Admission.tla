----------------------------- MODULE Admission -----------------------------
(***************************************************************************)
(* The read admission funnel of one device (source/admission.{hpp,cpp}).   *)
(* Every remote range request of the device holds a permit while it runs.  *)
(* On-demand reads enter at once; the two scavenger classes (Prefetch,     *)
(* then Fill) enter only while no on-demand read is in flight and the AIMD *)
(* window has room, and otherwise queue as waiters.                        *)
(*                                                                         *)
(* A client is a coroutine that performs one request after the other.      *)
(* mu_ is explicit: `mu' names the client that runs the admit_locked loop  *)
(* inside its critical section, so the loop is one AdmitOne step per       *)
(* waiter.  Events are set after the unlock, in steps of their own.        *)
(* The admission/wait statistics counters are left out.                    *)
(***************************************************************************)
EXTENDS Integers, Sequences, FiniteSets

CONSTANTS
    Clients,        \* coroutines that issue requests
    Serves,         \* Serves[p]: the read classes client p issues
    WindowInit, WindowMin, WindowMax,   \* AdmissionFunnel::Config
    AiStep, MdPercent, RisePercent, BaselineFloor,
    Samples,        \* latencies an on-demand read may measure
    None            \* "mu_ is free"

Scavenger == {"Prefetch", "Fill"}

ReadClass == {"OnDemand"} \cup Scavenger

Larger(a, b) == IF a >= b THEN a ELSE b

Smaller(a, b) == IF a <= b THEN a ELSE b

ASSUME ClientsAssumption ==
    /\ IsFiniteSet(Clients)
    /\ None \notin Clients
    /\ Serves \in [Clients -> SUBSET ReadClass]

ASSUME ConfigAssumption ==
    /\ WindowInit \in Nat /\ WindowMin \in Nat /\ WindowMax \in Nat
    /\ AiStep \in Nat /\ MdPercent \in Nat /\ RisePercent \in Nat
    /\ MdPercent <= 100
    /\ BaselineFloor \in Nat
    /\ Samples \subseteq Nat

VARIABLES
    mu,                 \* the client inside admit_locked, or None
    prefetch_q, fill_q, \* the two waiter deques
    window,
    baseline, baseline_valid,
    inflight_total, inflight_on_demand,
    phase,              \* where each client's request stands
    cls,                \* its read class
    bounded,            \* acquire_scavenger_bounded rather than acquire
    reserved,           \* Waiter::reserved, until the slot is adopted
    event               \* Waiter::admitted: unset, pending (popped, set() due), set

config == <<window, baseline, baseline_valid>>

counts == <<inflight_total, inflight_on_demand>>

queues == <<prefetch_q, fill_q>>

waiters == <<reserved, event>>

vars == <<mu, prefetch_q, fill_q, window, baseline, baseline_valid,
          inflight_total, inflight_on_demand, phase, cls, bounded, reserved, event>>

Phases == {"idle",      \* no request
           "gap",       \* failed the fast path, lock released, not yet queued
           "pushed",    \* queued, not yet suspended on the event
           "waiting",   \* suspended on Waiter::admitted
           "expired",   \* with_timeout reported a timeout
           "threw",     \* with_timeout threw (inherited cancellation)
           "unwinding", \* found itself reserved, about to release(cls, 0)
           "held"}      \* owns a Permit

-----------------------------------------------------------------------------
(* The AIMD controller. *)

Lo == Larger(WindowMin, 1)

Hi == Larger(WindowMax, Lo)

Floored(sample) == Larger(sample, BaselineFloor)

Rises(s) == s > (baseline * RisePercent) \div 100

\* Mutant: the decrease is not clamped to the floor.
ControlledUnclamped(w, s) ==
    IF Rises(s) THEN (w * MdPercent) \div 100 ELSE Smaller(Hi, w + AiStep)

Controlled(w, s) ==
    IF Rises(s) THEN Larger(Lo, (w * MdPercent) \div 100)
                ELSE Smaller(Hi, w + AiStep)

apply_sample(sample) ==
    LET s == Floored(sample) IN
    IF baseline_valid
    THEN /\ window' = Controlled(window, s)
         /\ baseline' = (7 * baseline + s) \div 8
         /\ UNCHANGED baseline_valid
    ELSE /\ baseline' = s
         /\ baseline_valid' = TRUE
         /\ UNCHANGED window

-----------------------------------------------------------------------------

GateOpen == inflight_on_demand = 0 /\ inflight_total < window

\* Erases the element at index i.
Erase(q, i) == [j \in 1 .. Len(q) - 1 |-> IF j < i THEN q[j] ELSE q[j + 1]]

\* std::find and erase: removes p's waiter if it is still queued.
Dequeue(q, p) ==
    IF \E i \in DOMAIN q : q[i] = p
    THEN Erase(q, CHOOSE i \in DOMAIN q : q[i] = p)
    ELSE q

Init ==
    /\ mu = None
    /\ prefetch_q = <<>> /\ fill_q = <<>>
    /\ window = Smaller(Larger(WindowInit, Lo), Hi)
    /\ baseline = 0 /\ baseline_valid = FALSE
    /\ inflight_total = 0 /\ inflight_on_demand = 0
    /\ phase = [p \in Clients |-> "idle"]
    /\ cls = [p \in Clients |-> "OnDemand"]
    /\ bounded = [p \in Clients |-> FALSE]
    /\ reserved = [p \in Clients |-> FALSE]
    /\ event = [p \in Clients |-> "unset"]

(* acquire(OnDemand): unconditional, even past the window. *)
AcquireOnDemand(p) ==
    /\ phase[p] = "idle" /\ mu = None
    /\ "OnDemand" \in Serves[p]
    /\ inflight_on_demand' = inflight_on_demand + 1
    /\ inflight_total' = inflight_total + 1
    /\ phase' = [phase EXCEPT ![p] = "held"]
    /\ cls' = [cls EXCEPT ![p] = "OnDemand"]
    /\ bounded' = [bounded EXCEPT ![p] = FALSE]
    /\ UNCHANGED <<mu, queues, config, waiters>>

\* Mutant: the fast path checks only for on-demand reads, not for room.
AcquireScavengerUnwindowed(p, c, b) ==
    /\ phase[p] = "idle" /\ mu = None
    /\ c \in Serves[p] \cap Scavenger
    /\ cls' = [cls EXCEPT ![p] = c]
    /\ bounded' = [bounded EXCEPT ![p] = b]
    /\ IF inflight_on_demand = 0
       THEN /\ inflight_total' = inflight_total + 1
            /\ phase' = [phase EXCEPT ![p] = "held"]
       ELSE /\ phase' = [phase EXCEPT ![p] = "gap"]
            /\ UNCHANGED inflight_total
    /\ UNCHANGED <<mu, queues, config, inflight_on_demand, waiters>>

(* The first critical section of a scavenger's acquire: the fast path when
   the gate is open, else the lock is dropped before the waiter is queued. *)
AcquireScavenger(p, c, b) ==
    /\ phase[p] = "idle" /\ mu = None
    /\ c \in Serves[p] \cap Scavenger
    /\ cls' = [cls EXCEPT ![p] = c]
    /\ bounded' = [bounded EXCEPT ![p] = b]
    /\ IF GateOpen
       THEN /\ inflight_total' = inflight_total + 1
            /\ phase' = [phase EXCEPT ![p] = "held"]
       ELSE /\ phase' = [phase EXCEPT ![p] = "gap"]
            /\ UNCHANGED inflight_total
    /\ UNCHANGED <<mu, queues, config, inflight_on_demand, waiters>>

(* The second critical section: push, then admit_locked under the same lock. *)
Push(p) ==
    /\ phase[p] = "gap" /\ mu = None
    /\ IF cls[p] = "Prefetch"
       THEN prefetch_q' = Append(prefetch_q, p) /\ UNCHANGED fill_q
       ELSE fill_q' = Append(fill_q, p) /\ UNCHANGED prefetch_q
    /\ phase' = [phase EXCEPT ![p] = "pushed"]
    /\ mu' = p
    /\ UNCHANGED <<config, counts, cls, bounded, waiters>>

(* One turn of admit_locked's loop: reserve a slot for the next waiter. *)
AdmitOne ==
    /\ mu # None
    /\ GateOpen
    /\ \/ /\ prefetch_q # <<>>
          /\ prefetch_q' = Tail(prefetch_q)
          /\ reserved' = [reserved EXCEPT ![Head(prefetch_q)] = TRUE]
          /\ event' = [event EXCEPT ![Head(prefetch_q)] = "pending"]
          /\ UNCHANGED fill_q
       \/ /\ prefetch_q = <<>> /\ fill_q # <<>>
          /\ fill_q' = Tail(fill_q)
          /\ reserved' = [reserved EXCEPT ![Head(fill_q)] = TRUE]
          /\ event' = [event EXCEPT ![Head(fill_q)] = "pending"]
          /\ UNCHANGED prefetch_q
    /\ inflight_total' = inflight_total + 1
    /\ UNCHANGED <<mu, config, inflight_on_demand, phase, cls, bounded>>

(* The loop ends and mu_ is released. *)
AdmitEnd ==
    /\ mu # None
    /\ ~ (GateOpen /\ (prefetch_q # <<>> \/ fill_q # <<>>))
    /\ mu' = None
    /\ UNCHANGED <<queues, config, counts, phase, cls, bounded, waiters>>

(* admitted.set() by whoever popped p's waiter.  The code sets events after
   the unlock; as the rest of the loop reads no event, a set() that comes
   earlier here cannot be told from one that comes later. *)
Wake(p) ==
    /\ event[p] = "pending"
    /\ event' = [event EXCEPT ![p] = "set"]
    /\ UNCHANGED <<mu, queues, config, counts, phase, cls, bounded, reserved>>

\* p takes the reserved slot as its Permit; its waiter object is dropped, and
\* a set() still due on it reaches nobody.
Adopt(p) ==
    /\ phase' = [phase EXCEPT ![p] = "held"]
    /\ reserved' = [reserved EXCEPT ![p] = FALSE]
    /\ event' = [event EXCEPT ![p] = "unset"]

(* After its own critical section: the bounded variant returns at once when
   it has been reserved (a read outside mu_), otherwise p suspends. *)
AfterPush(p) ==
    /\ phase[p] = "pushed" /\ mu # p
    /\ IF bounded[p] /\ reserved[p]
       THEN Adopt(p)
       ELSE phase' = [phase EXCEPT ![p] = "waiting"] /\ UNCHANGED waiters
    /\ UNCHANGED <<mu, queues, config, counts, cls, bounded>>

(* The event wait completes. *)
Woken(p) ==
    /\ phase[p] = "waiting" /\ event[p] = "set"
    /\ Adopt(p)
    /\ UNCHANGED <<mu, queues, config, counts, cls, bounded>>

(* with_timeout ends the bounded wait: by its deadline, or by throwing. *)
WaitAborted(p, how) ==
    /\ phase[p] = "waiting" /\ bounded[p]
    /\ phase' = [phase EXCEPT ![p] = how]
    /\ UNCHANGED <<mu, queues, config, counts, cls, bounded, waiters>>

\* Mutant: the timed-out waiter stays in its deque.
WithdrawKeepsPlace(p) ==
    /\ phase' = [phase EXCEPT ![p] = "idle"]
    /\ UNCHANGED <<queues, waiters>>

\* p's request ends without a permit; it leaves the queue it waits in.
Withdraw(p) ==
    /\ IF cls[p] = "Prefetch"
       THEN prefetch_q' = Dequeue(prefetch_q, p) /\ UNCHANGED fill_q
       ELSE fill_q' = Dequeue(fill_q, p) /\ UNCHANGED prefetch_q
    /\ phase' = [phase EXCEPT ![p] = "idle"]
    /\ UNCHANGED waiters

\* Mutant: a waiter that is still queued goes back to waiting.
ReconcileWaitsAgain(p) ==
    /\ phase[p] = "expired" /\ mu = None
    /\ IF reserved[p]
       THEN Adopt(p)
       ELSE phase' = [phase EXCEPT ![p] = "waiting"] /\ UNCHANGED waiters
    /\ UNCHANGED <<mu, queues, config, counts, cls, bounded>>

(* Reconciliation after a timeout: adopt a reserved slot, else dequeue. *)
Reconcile(p) ==
    /\ phase[p] = "expired" /\ mu = None
    /\ IF reserved[p] THEN Adopt(p) /\ UNCHANGED queues
                      ELSE Withdraw(p)
    /\ UNCHANGED <<mu, config, counts, cls, bounded>>

(* Reconciliation after an exception: dequeue, or go on to give the slot back. *)
Unwind(p) ==
    /\ phase[p] = "threw" /\ mu = None
    /\ IF reserved[p]
       THEN phase' = [phase EXCEPT ![p] = "unwinding"] /\ UNCHANGED <<queues, waiters>>
       ELSE Withdraw(p)
    /\ UNCHANGED <<mu, config, counts, cls, bounded>>

(* release(cls, 0) of a reservation nobody adopted, then the rethrow. *)
UnwindRelease(p) ==
    /\ phase[p] = "unwinding" /\ mu = None
    /\ inflight_total' = inflight_total - 1
    /\ phase' = [phase EXCEPT ![p] = "idle"]
    /\ reserved' = [reserved EXCEPT ![p] = FALSE]
    /\ event' = [event EXCEPT ![p] = "unset"]
    /\ mu' = p
    /\ UNCHANGED <<queues, config, inflight_on_demand, cls, bounded>>

(* Permit::reset: give the slot back, and for an on-demand read feed the
   measured latency to the controller, then admit_locked. *)
Release(p, sample) ==
    /\ phase[p] = "held" /\ mu = None
    /\ inflight_total' = inflight_total - 1
    /\ IF cls[p] = "OnDemand"
       THEN /\ inflight_on_demand' = inflight_on_demand - 1
            /\ apply_sample(sample)
       ELSE UNCHANGED <<inflight_on_demand, config>>
    /\ phase' = [phase EXCEPT ![p] = "idle"]
    /\ mu' = p
    /\ UNCHANGED <<queues, cls, bounded, waiters>>

(* note_on_demand_latency: a sample without a permit. *)
NoteLatency(p, sample) ==
    /\ phase[p] = "idle" /\ mu = None
    /\ apply_sample(sample)
    /\ mu' = p
    /\ UNCHANGED <<queues, counts, phase, cls, bounded, waiters>>

Next ==
    \/ AdmitOne
    \/ AdmitEnd
    \/ \E p \in Clients :
          \/ AcquireOnDemand(p)
          \/ \E c \in Scavenger, b \in BOOLEAN : AcquireScavenger(p, c, b)
          \/ Push(p)
          \/ Wake(p)
          \/ AfterPush(p)
          \/ Woken(p)
          \/ \E how \in {"expired", "threw"} : WaitAborted(p, how)
          \/ Reconcile(p)
          \/ Unwind(p)
          \/ UnwindRelease(p)
          \/ \E s \in Samples : Release(p, s) \/ NoteLatency(p, s)

Spec == Init /\ [][Next]_vars

\* The next step of the request p has under way.
Continue(p) ==
    \/ Push(p) \/ AfterPush(p) \/ Woken(p)
    \/ WaitAborted(p, "expired")
    \/ Reconcile(p) \/ Unwind(p) \/ UnwindRelease(p)
    \/ \E s \in Samples : Release(p, s)

(* Every started coroutine keeps running and gets mu_ in the end (SF), every
   critical section ends, due events are set, the timer of a bounded wait
   fires, and every fetch under a permit finishes (the source clients bound
   their requests by timeouts). *)
Fairness ==
    /\ WF_vars(AdmitOne \/ AdmitEnd)
    /\ \A p \in Clients : WF_vars(Wake(p)) /\ SF_vars(Continue(p))

LiveSpec == Spec /\ Fairness

-----------------------------------------------------------------------------
(* Properties. *)

TypeOK ==
    /\ mu \in Clients \cup {None}
    /\ prefetch_q \in Seq(Clients) /\ fill_q \in Seq(Clients)
    /\ window \in Nat /\ baseline \in Nat /\ baseline_valid \in BOOLEAN
    /\ inflight_total \in Nat /\ inflight_on_demand \in Nat
    /\ phase \in [Clients -> Phases]
    /\ cls \in [Clients -> ReadClass]
    /\ bounded \in [Clients -> BOOLEAN]
    /\ reserved \in [Clients -> BOOLEAN]
    /\ event \in [Clients -> {"unset", "pending", "set"}]

\* The clients that own a slot: a Permit, or a reservation not yet adopted.
Owners == {p \in Clients : phase[p] \in {"held", "unwinding"} \/ reserved[p]}

OnDemandOwners == {p \in Owners : cls[p] = "OnDemand"}

ScavengerOwners == Owners \ OnDemandOwners

(* The two in-flight counters equal the number of slots somebody owns, so no
   timeout, exception or late wake of acquire_scavenger_bounded leaks a slot
   or returns one twice. *)
SlotAccounting ==
    /\ inflight_total = Cardinality(Owners)
    /\ inflight_on_demand = Cardinality(OnDemandOwners)

(* Whenever mu_ is free and the gate is open nobody is queued: a release that
   falls between a scavenger's fast-path check and its push is not lost, and
   the fast path never overtakes the queue. *)
NoLostWakeup ==
    mu = None /\ GateOpen => prefetch_q = <<>> /\ fill_q = <<>>

Pending(p) == phase[p] \notin {"idle", "held"}

Queued(p, q) == \E i \in DOMAIN q : q[i] = p

NoDuplicates(q) == \A i, j \in DOMAIN q : q[i] = q[j] => i = j

\* p's waiter has been pushed and no slot has been reserved for it.
Unserved(p) ==
    phase[p] \in {"pushed", "waiting", "expired", "threw"} /\ ~ reserved[p]

(* A waiter that has been pushed can be found by the next releaser: it is in
   the deque of its class, once, until a slot is reserved for it, and from then
   on its event is set or about to be; nobody else is in a deque, however its
   bounded wait ended. *)
WaitersTracked ==
    /\ NoDuplicates(prefetch_q) /\ NoDuplicates(fill_q)
    /\ \A p \in Clients :
          /\ Queued(p, prefetch_q) <=> Unserved(p) /\ cls[p] = "Prefetch"
          /\ Queued(p, fill_q) <=> Unserved(p) /\ cls[p] = "Fill"
          /\ reserved[p] <=> event[p] # "unset"

(* A reservation belongs to a request that is still waiting for it, and only
   scavengers ever wait. *)
ReservationsOwned ==
    \A p \in Clients :
        /\ phase[p] \in {"idle", "gap", "held"} => ~ reserved[p]
        /\ phase[p] = "unwinding" => reserved[p]
        /\ Pending(p) => cls[p] \in Scavenger

(* The window stays between the configured floor and ceiling and the latency
   baseline between the configured floor and the largest sample, whatever
   apply_sample is fed. *)
ControllerBounds ==
    /\ window \in Lo .. Hi
    /\ baseline_valid =>
          /\ baseline >= BaselineFloor
          /\ \E s \in Samples : baseline <= Floored(s)

(* No step gives a scavenger a slot while an on-demand read is in flight or
   beyond the window, whichever of the admission paths it takes. *)
ScavengersYield ==
    [][ScavengerOwners' \ ScavengerOwners # {} =>
          /\ inflight_on_demand' = 0
          /\ inflight_total' <= window']_vars

(* A scavenger that gets a slot while others wait is the first in line:
   Prefetch before Fill, and first come first served within a class. *)
ServedInOrder ==
    [][\A p \in ScavengerOwners' \ ScavengerOwners :
          prefetch_q \o fill_q # <<>> => p = Head(prefetch_q \o fill_q)]_vars

(* acquire_scavenger_bounded always comes back, with a permit or without one,
   however long on-demand reads keep the gate shut. *)
BoundedReturns ==
    \A p \in Clients : bounded[p] /\ Pending(p) ~> ~ Pending(p)

(* Once on-demand traffic has ceased, every queued prefetch gets its turn,
   and once no prefetch waits either, so does every queued fill. *)
ScavengersServed ==
    \A p \in Clients :
        /\ <>[](inflight_on_demand = 0) =>
              (Pending(p) /\ cls[p] = "Prefetch" ~> ~ Pending(p))
        /\ <>[](inflight_on_demand = 0 /\ prefetch_q = <<>>) =>
              (Pending(p) ~> ~ Pending(p))

\* The inductive invariant: the counters, the queues, the reservations that
\* release hands over and the controller agree between any two steps, whatever
\* timeouts and exceptions happen in between.
IInv ==
    /\ TypeOK /\ SlotAccounting /\ NoLostWakeup /\ WaitersTracked
    /\ ReservationsOwned /\ ControllerBounds

\* The slots somebody owns, as the abstract gate sees them.
Gate == INSTANCE SlotGate WITH holders <- Owners, urgent <- OnDemandOwners,
                               limit <- window, Low <- Lo, High <- Hi

(* The funnel implements the abstract slot gate: counters, queues, deferred
   wakes and timeouts never let a request in or out other than the gate does. *)
ImplementsGate == Gate!Spec

=============================================================================
