-------------------------- MODULE AdmissionProofs --------------------------
(***************************************************************************)
(* Proofs about the admission funnel for every set of clients and every    *)
(* configuration: the inductive invariant IInv, and from it type           *)
(* correctness, slot accounting, the absence of lost wake-ups, the         *)
(* controller's bounds, the order of admissions and the refinement of the  *)
(* abstract slot gate.                                                     *)
(***************************************************************************)
EXTENDS Admission, FiniteSetTheorems, TLAPS

-----------------------------------------------------------------------------
(* The deques. *)

(* push_back of a waiter that is not queued. *)
LEMMA PushBack ==
    ASSUME NEW S, NEW q \in Seq(S), NEW p \in S, ~ Queued(p, q), NoDuplicates(q)
    PROVE  /\ Append(q, p) \in Seq(S)
           /\ NoDuplicates(Append(q, p))
           /\ \A x : Queued(x, Append(q, p)) <=> Queued(x, q) \/ x = p
  BY DEF Queued, NoDuplicates

(* front and pop_front. *)
LEMMA PopFront ==
    ASSUME NEW S, NEW q \in Seq(S), q # <<>>, NoDuplicates(q)
    PROVE  /\ Head(q) \in S /\ Queued(Head(q), q)
           /\ Tail(q) \in Seq(S)
           /\ NoDuplicates(Tail(q))
           /\ \A x : Queued(x, Tail(q)) <=> Queued(x, q) /\ x # Head(q)
<1>1. Len(q) \in Nat /\ Len(q) > 0 /\ Head(q) = q[1] /\ Head(q) \in S
  OBVIOUS
<1>2. /\ Tail(q) \in Seq(S)
      /\ Len(Tail(q)) = Len(q) - 1
      /\ \A j \in 1 .. Len(q) - 1 : Tail(q)[j] = q[j + 1]
  OBVIOUS
<1>3. Queued(Head(q), q)
  BY <1>1 DEF Queued
<1>4. NoDuplicates(Tail(q))
  BY <1>1, <1>2 DEF NoDuplicates
<1>5. ASSUME NEW x PROVE Queued(x, Tail(q)) <=> Queued(x, q) /\ x # Head(q)
  <2>1. ASSUME Queued(x, Tail(q)) PROVE Queued(x, q) /\ x # Head(q)
    <3>1. PICK j \in 1 .. Len(q) - 1 : Tail(q)[j] = x
      BY <2>1, <1>2 DEF Queued
    <3>2. j + 1 \in DOMAIN q /\ q[j + 1] = x /\ j + 1 # 1 /\ 1 \in DOMAIN q
      BY <3>1, <1>1, <1>2
    <3>. QED BY <3>2, <1>1 DEF Queued, NoDuplicates
  <2>2. ASSUME Queued(x, q), x # Head(q) PROVE Queued(x, Tail(q))
    <3>1. PICK i \in 1 .. Len(q) : q[i] = x
      BY <2>2 DEF Queued
    <3>2. i - 1 \in DOMAIN Tail(q) /\ Tail(q)[i - 1] = q[i]
      BY <3>1, <2>2, <1>1, <1>2
    <3>. QED BY <3>1, <3>2 DEF Queued
  <2>. QED BY <2>1, <2>2
<1>. QED BY <1>1, <1>2, <1>3, <1>4, <1>5

(* find and erase. *)
LEMMA FindErase ==
    ASSUME NEW S, NEW q \in Seq(S), NEW p, NoDuplicates(q)
    PROVE  /\ Dequeue(q, p) \in Seq(S)
           /\ NoDuplicates(Dequeue(q, p))
           /\ \A x : Queued(x, Dequeue(q, p)) <=> Queued(x, q) /\ x # p
<1>1. CASE ~ \E i \in DOMAIN q : q[i] = p
  BY <1>1 DEF Dequeue, Queued
<1>2. CASE \E i \in DOMAIN q : q[i] = p
  <2> DEFINE i == CHOOSE k \in DOMAIN q : q[k] = p
             r == Erase(q, i)
  <2>1. i \in 1 .. Len(q) /\ q[i] = p
    BY <1>2
  <2>2. Dequeue(q, p) = r
    BY <1>2 DEF Dequeue
  <2> HIDE DEF i
  <2>3. /\ r \in Seq(S)
        /\ DOMAIN r = 1 .. Len(q) - 1
        /\ \A j \in 1 .. Len(q) - 1 : r[j] = IF j < i THEN q[j] ELSE q[j + 1]
    <3>1. Len(q) - 1 \in Nat
      BY <2>1
    <3>2. \A j \in 1 .. Len(q) - 1 : (IF j < i THEN q[j] ELSE q[j + 1]) \in S
      BY <2>1
    <3>. QED BY <3>1, <3>2 DEF Erase
  <2> HIDE DEF r
  <2>4. NoDuplicates(r)
    <3> SUFFICES ASSUME NEW j \in 1 .. Len(q) - 1, NEW k \in 1 .. Len(q) - 1, r[j] = r[k]
                 PROVE  j = k
      BY <2>3 DEF NoDuplicates
    <3> DEFINE src(m) == IF m < i THEN m ELSE m + 1
    <3>1. src(j) \in DOMAIN q /\ src(k) \in DOMAIN q /\ q[src(j)] = q[src(k)]
      BY <2>1, <2>3
    <3>2. src(j) = src(k)
      BY <3>1 DEF NoDuplicates
    <3>. QED BY <3>2, <2>1
  <2>5. ASSUME NEW x PROVE Queued(x, r) <=> Queued(x, q) /\ x # p
    <3>1. ASSUME Queued(x, r) PROVE Queued(x, q) /\ x # p
      <4>1. PICK j \in 1 .. Len(q) - 1 : r[j] = x
        BY <3>1, <2>3 DEF Queued
      <4>2. PICK k \in 1 .. Len(q) : q[k] = x /\ k # i
        <5>1. CASE j < i BY <5>1, <4>1, <2>1, <2>3
        <5>2. CASE ~ (j < i) BY <5>2, <4>1, <2>1, <2>3
        <5>. QED BY <5>1, <5>2
      <4>. QED BY <4>2, <2>1 DEF Queued, NoDuplicates
    <3>2. ASSUME Queued(x, q), x # p PROVE Queued(x, r)
      <4>1. PICK k \in 1 .. Len(q) : q[k] = x
        BY <3>2 DEF Queued
      <4>2. CASE k < i
        <5>1. k \in 1 .. Len(q) - 1 /\ r[k] = x
          BY <4>1, <4>2, <2>1, <2>3
        <5>. QED BY <5>1, <2>3 DEF Queued
      <4>3. CASE k > i
        <5>1. k - 1 \in 1 .. Len(q) - 1 /\ r[k - 1] = x
          BY <4>1, <4>3, <2>1, <2>3
        <5>. QED BY <5>1, <2>3 DEF Queued
      <4>. QED BY <4>1, <4>2, <4>3, <3>2, <2>1
    <3>. QED BY <3>1, <3>2
  <2>. QED BY <2>2, <2>3, <2>4, <2>5
<1>. QED BY <1>1, <1>2

-----------------------------------------------------------------------------
(* The controller. *)

(* The constructor's clamping yields a nonempty range that starts at 1 or above. *)
LEMMA ClampedRange == Lo \in Nat /\ Hi \in Nat /\ 1 <= Lo /\ Lo <= Hi
  BY ConfigAssumption DEF Lo, Hi, Larger

(* A multiplicative decrease by a percentage does not increase. *)
LEMMA Decrease ==
    ASSUME NEW w \in Nat
    PROVE  (w * MdPercent) \div 100 \in Nat /\ (w * MdPercent) \div 100 <= w
<1>1. MdPercent \in Nat /\ MdPercent <= 100
  BY ConfigAssumption
<1>2. w * MdPercent \in Nat /\ w * MdPercent <= w * 100
  BY <1>1
<1> DEFINE x == w * MdPercent
<1>3. x \in Nat /\ x <= w * 100
  BY <1>2
<1> HIDE DEF x
<1>4. x \div 100 \in Nat /\ x \div 100 <= w
  BY <1>3
<1>. QED BY <1>4 DEF x

(* apply_sample keeps the window and the baseline in their ranges. *)
LEMMA ControllerStep ==
    ASSUME TypeOK, ControllerBounds, NEW sample \in Samples, apply_sample(sample)
    PROVE  /\ window' \in Nat /\ baseline' \in Nat /\ baseline_valid' \in BOOLEAN
           /\ ControllerBounds'
<1> DEFINE s == Floored(sample)
<1>1. s \in Nat /\ s >= BaselineFloor
  BY ConfigAssumption DEF Floored, Larger
<1>2. window \in Nat /\ baseline \in Nat /\ window \in Lo .. Hi
  BY DEF TypeOK, ControllerBounds
<1>3. CASE ~ baseline_valid
  <2>1. window' = window /\ baseline' = s /\ baseline_valid' = TRUE
    BY <1>3 DEF apply_sample
  <2>. QED BY <2>1, <1>1, <1>2, ConfigAssumption DEF ControllerBounds, TypeOK
<1>4. CASE baseline_valid
  <2>1. /\ window' = Controlled(window, s)
        /\ baseline' = (7 * baseline + s) \div 8
        /\ baseline_valid' = TRUE
    BY <1>4 DEF apply_sample, TypeOK
  <2>2. window' \in Nat /\ window' \in Lo .. Hi
    <3>1. CASE Rises(s)
      BY <3>1, <2>1, <1>2, Decrease, ClampedRange DEF Controlled, Larger
    <3>2. CASE ~ Rises(s)
      BY <3>2, <2>1, <1>2, ClampedRange, ConfigAssumption DEF Controlled, Smaller
    <3>. QED BY <3>1, <3>2
  <2>3. PICK t \in Samples : baseline <= Floored(t)
    BY <1>4 DEF ControllerBounds
  <2>4. Floored(t) \in Nat /\ baseline >= BaselineFloor /\ BaselineFloor \in Nat
    BY <1>4, ConfigAssumption DEF ControllerBounds, Floored, Larger
  <2>5. /\ baseline' \in Nat /\ baseline' >= BaselineFloor
        /\ baseline' <= Floored(t) \/ baseline' <= s
    BY <2>1, <2>3, <2>4, <1>1, <1>2
  <2>. QED BY <2>1, <2>2, <2>5 DEF ControllerBounds
<1>. QED BY <1>3, <1>4

-----------------------------------------------------------------------------
(* Slots. *)

(* The owners form a finite set, whatever the state. *)
LEMMA OwnersFinite ==
    /\ IsFiniteSet(Owners) /\ IsFiniteSet(OnDemandOwners)
    /\ Cardinality(Owners) \in Nat /\ Cardinality(OnDemandOwners) \in Nat
  BY ClientsAssumption, FS_Subset, FS_CardinalityType DEF Owners, OnDemandOwners

(* A client that enters, adopts nothing it owned before and takes a slot. *)
LEMMA OwnerEnters ==
    ASSUME NEW p, p \notin Owners
    PROVE  /\ Cardinality(Owners \cup {p}) = Cardinality(Owners) + 1
           /\ Cardinality(OnDemandOwners \cup {p}) = Cardinality(OnDemandOwners) + 1
  BY OwnersFinite, FS_AddElement DEF OnDemandOwners

(* A client that leaves gives back exactly one slot. *)
LEMMA OwnerLeaves ==
    ASSUME NEW p, p \in Owners
    PROVE  /\ Cardinality(Owners \ {p}) = Cardinality(Owners) - 1
           /\ Cardinality(Owners) >= 1
           /\ p \in OnDemandOwners =>
                 /\ Cardinality(OnDemandOwners \ {p}) = Cardinality(OnDemandOwners) - 1
                 /\ Cardinality(OnDemandOwners) >= 1
<1>1. /\ Cardinality(Owners \ {p}) = Cardinality(Owners) - 1
      /\ p \in OnDemandOwners =>
            Cardinality(OnDemandOwners \ {p}) = Cardinality(OnDemandOwners) - 1
  BY OwnersFinite, FS_RemoveElement
<1>2. Cardinality(Owners) # 0 /\ (p \in OnDemandOwners => Cardinality(OnDemandOwners) # 0)
  BY OwnersFinite, FS_EmptySet
<1>. QED BY <1>1, <1>2, OwnersFinite

-----------------------------------------------------------------------------
(* The inductive invariant. *)

(* The constructed funnel satisfies the invariant. *)
LEMMA InitIInv == Init => IInv
<1> SUFFICES ASSUME Init PROVE IInv
  OBVIOUS
<1> USE DEF Init
<1>1. TypeOK
  <2>1. window \in Nat
    BY ConfigAssumption, ClampedRange DEF Larger, Smaller
  <2>2. prefetch_q \in Seq(Clients) /\ fill_q \in Seq(Clients)
    OBVIOUS
  <2>3. /\ phase \in [Clients -> Phases] /\ cls \in [Clients -> ReadClass]
        /\ event \in [Clients -> {"unset", "pending", "set"}]
    BY DEF Phases, ReadClass
  <2>4. bounded \in [Clients -> BOOLEAN] /\ reserved \in [Clients -> BOOLEAN]
    OBVIOUS
  <2>. QED BY <2>1, <2>2, <2>3, <2>4 DEF TypeOK
<1>2. Owners = {} /\ OnDemandOwners = {}
  BY DEF Owners, OnDemandOwners
<1>3. SlotAccounting
  BY <1>2, FS_EmptySet DEF SlotAccounting
<1>4. NoLostWakeup /\ WaitersTracked /\ ReservationsOwned
  BY DEF NoLostWakeup, WaitersTracked, ReservationsOwned, NoDuplicates, Queued, Unserved, Pending
<1>5. ControllerBounds
  BY ConfigAssumption, ClampedRange DEF ControllerBounds, Larger, Smaller
<1>. QED BY <1>1, <1>3, <1>4, <1>5 DEF IInv

(* acquire(OnDemand) adds one owner to both counts and shuts the gate. *)
LEMMA AcquireOnDemandIInv ==
    ASSUME IInv, NEW p \in Clients, AcquireOnDemand(p)
    PROVE  IInv'
<1> USE DEF AcquireOnDemand, queues, config, waiters
<1>1. TypeOK'
  BY DEF IInv, TypeOK, Phases, ReadClass
<1>2. p \notin Owners /\ Owners' = Owners \cup {p} /\ OnDemandOwners' = OnDemandOwners \cup {p}
  BY DEF IInv, TypeOK, ReservationsOwned, Owners, OnDemandOwners
<1>3. SlotAccounting'
  BY <1>2, OwnerEnters DEF IInv, SlotAccounting
<1>4. NoLostWakeup'
  BY <1>1 DEF IInv, TypeOK, NoLostWakeup, GateOpen
<1>5. WaitersTracked'
  BY DEF IInv, TypeOK, WaitersTracked, ReservationsOwned, Unserved
<1>6. ReservationsOwned'
  BY DEF IInv, TypeOK, ReservationsOwned, Pending
<1>7. ControllerBounds'
  BY DEF IInv, ControllerBounds
<1>. QED BY <1>1, <1>3, <1>4, <1>5, <1>6, <1>7 DEF IInv

(* The fast path takes a slot only when nobody waits; otherwise nothing but
   the phase changes. *)
LEMMA AcquireScavengerIInv ==
    ASSUME IInv, NEW p \in Clients, NEW c \in Scavenger, NEW b \in BOOLEAN,
           AcquireScavenger(p, c, b)
    PROVE  IInv'
<1> USE DEF AcquireScavenger, queues, config, waiters
<1>1. TypeOK'
  BY DEF IInv, TypeOK, Phases, ReadClass
<1>2. p \notin Owners /\ p \notin OnDemandOwners
  BY DEF IInv, ReservationsOwned, Owners, OnDemandOwners
<1>3. SlotAccounting'
  <2>1. CASE GateOpen
    <3>1. Owners' = Owners \cup {p} /\ OnDemandOwners' = OnDemandOwners
      BY <2>1, <1>2 DEF IInv, TypeOK, Owners, OnDemandOwners, Scavenger
    <3>. QED BY <2>1, <3>1, <1>2, OwnerEnters DEF IInv, SlotAccounting
  <2>2. CASE ~ GateOpen
    <3>1. Owners' = Owners /\ OnDemandOwners' = OnDemandOwners
      BY <2>2, <1>2 DEF IInv, TypeOK, Owners, OnDemandOwners
    <3>. QED BY <2>2, <3>1 DEF IInv, SlotAccounting
  <2>. QED BY <2>1, <2>2
<1>4. NoLostWakeup'
  BY DEF IInv, NoLostWakeup, GateOpen
<1>5. WaitersTracked'
  BY DEF IInv, TypeOK, WaitersTracked, ReservationsOwned, Unserved
<1>6. ReservationsOwned'
  BY DEF IInv, TypeOK, ReservationsOwned, Pending
<1>7. ControllerBounds'
  BY DEF IInv, ControllerBounds
<1>. QED BY <1>1, <1>3, <1>4, <1>5, <1>6, <1>7 DEF IInv

(* The push makes the waiter findable in the deque of its class. *)
LEMMA PushIInv ==
    ASSUME IInv, NEW p \in Clients, Push(p)
    PROVE  IInv'
<1> USE DEF Push, counts, config, waiters
<1>1. cls[p] \in Scavenger /\ ~ reserved[p] /\ ~ Queued(p, prefetch_q) /\ ~ Queued(p, fill_q)
  BY DEF IInv, ReservationsOwned, WaitersTracked, Unserved, Pending
<1>2. /\ prefetch_q \in Seq(Clients) /\ NoDuplicates(prefetch_q)
      /\ fill_q \in Seq(Clients) /\ NoDuplicates(fill_q)
  BY DEF IInv, TypeOK, WaitersTracked
<1> DEFINE After(q) == /\ Append(q, p) \in Seq(Clients)
                       /\ NoDuplicates(Append(q, p))
                       /\ \A x : Queued(x, Append(q, p)) <=> Queued(x, q) \/ x = p
<1>a. After(prefetch_q) /\ After(fill_q)
  BY <1>1, <1>2, PushBack
<1>3. TypeOK'
  BY <1>a DEF IInv, TypeOK, Phases
<1>4. Owners' = Owners /\ OnDemandOwners' = OnDemandOwners
  BY DEF IInv, TypeOK, Owners, OnDemandOwners
<1>5. SlotAccounting'
  BY <1>4 DEF IInv, SlotAccounting
<1>6. NoLostWakeup'
  BY ClientsAssumption DEF NoLostWakeup
<1>7. WaitersTracked'
  <2>1. /\ Unserved(p)'
        /\ \A x \in Clients \ {p} : Unserved(x)' <=> Unserved(x)
    BY <1>1 DEF IInv, TypeOK, Unserved
  <2>2. CASE cls[p] = "Prefetch"
    <3>1. /\ NoDuplicates(prefetch_q') /\ fill_q' = fill_q
          /\ \A x : Queued(x, prefetch_q') <=> Queued(x, prefetch_q) \/ x = p
      <4>1. prefetch_q' = Append(prefetch_q, p) /\ fill_q' = fill_q
        BY <2>2
      <4>. QED BY <4>1, <1>a
    <3>. QED BY <2>1, <2>2, <3>1, <1>1 DEF IInv, WaitersTracked
  <2>3. CASE cls[p] = "Fill"
    <3>1. /\ NoDuplicates(fill_q') /\ prefetch_q' = prefetch_q
          /\ \A x : Queued(x, fill_q') <=> Queued(x, fill_q) \/ x = p
      <4>1. fill_q' = Append(fill_q, p) /\ prefetch_q' = prefetch_q
        BY <2>3
      <4>. QED BY <4>1, <1>a
    <3>. QED BY <2>1, <2>3, <3>1, <1>1 DEF IInv, WaitersTracked
  <2>. QED BY <2>2, <2>3, <1>1 DEF Scavenger
<1>8. ReservationsOwned'
  BY <1>1 DEF IInv, TypeOK, ReservationsOwned, Pending
<1>9. ControllerBounds'
  BY DEF IInv, ControllerBounds
<1>. QED BY <1>3, <1>5, <1>6, <1>7, <1>8, <1>9 DEF IInv

(* Each turn of admit_locked hands one free slot to one queued waiter. *)
LEMMA AdmitOneIInv ==
    ASSUME IInv, AdmitOne
    PROVE  IInv'
<1> USE DEF config
<1>0. /\ mu # None /\ mu' = mu /\ window' = window /\ baseline' = baseline
      /\ baseline_valid' = baseline_valid /\ inflight_total' = inflight_total + 1
      /\ inflight_on_demand' = inflight_on_demand /\ phase' = phase
      /\ cls' = cls /\ bounded' = bounded
  BY DEF AdmitOne
<1> USE <1>0
<1>1. ASSUME prefetch_q # <<>>,
              prefetch_q' = Tail(prefetch_q), fill_q' = fill_q,
              reserved' = [reserved EXCEPT ![Head(prefetch_q)] = TRUE],
              event' = [event EXCEPT ![Head(prefetch_q)] = "pending"]
       PROVE  IInv'
  <2>h. PICK h : h = Head(prefetch_q)
    OBVIOUS
  <2>1. /\ h \in Clients /\ Queued(h, prefetch_q)
        /\ prefetch_q' \in Seq(Clients) /\ NoDuplicates(prefetch_q')
        /\ \A x : Queued(x, prefetch_q') <=> Queued(x, prefetch_q) /\ x # h
    <3>1. prefetch_q \in Seq(Clients) /\ NoDuplicates(prefetch_q)
      BY DEF IInv, TypeOK, WaitersTracked
    <3>. QED BY <3>1, <1>1, <2>h, PopFront
  <2>0. reserved' = [reserved EXCEPT ![h] = TRUE] /\ event' = [event EXCEPT ![h] = "pending"]
    BY <1>1, <2>h
  <2>2. Unserved(h) /\ cls[h] = "Prefetch" /\ ~ reserved[h]
    BY <2>1 DEF IInv, WaitersTracked, Unserved
  <2>3. TypeOK'
    BY <2>0, <2>1, <1>1 DEF IInv, TypeOK
  <2>4. h \notin Owners /\ Owners' = Owners \cup {h} /\ OnDemandOwners' = OnDemandOwners
    BY <2>0, <2>1, <2>2 DEF IInv, TypeOK, Owners, OnDemandOwners, Unserved
  <2>5. SlotAccounting'
    BY <2>4, OwnerEnters DEF IInv, SlotAccounting
  <2>6. NoLostWakeup'
    BY DEF NoLostWakeup
  <2>7. WaitersTracked'
    <3>1. ~ Unserved(h)' /\ \A x \in Clients \ {h} : Unserved(x)' <=> Unserved(x)
      BY <2>0, <2>1 DEF IInv, TypeOK, Unserved
    <3>2. /\ reserved'[h] /\ event'[h] # "unset"
          /\ \A x \in Clients \ {h} : reserved'[x] = reserved[x] /\ event'[x] = event[x]
      BY <2>0, <2>1 DEF IInv, TypeOK
    <3>. QED BY <2>1, <2>2, <3>1, <3>2, <1>1 DEF IInv, WaitersTracked
  <2>8. ReservationsOwned'
    BY <2>0, <2>1, <2>2 DEF IInv, TypeOK, ReservationsOwned, Unserved, Pending
  <2>9. ControllerBounds'
    BY DEF IInv, ControllerBounds
  <2>. QED BY <2>3, <2>5, <2>6, <2>7, <2>8, <2>9 DEF IInv
<1>2. ASSUME fill_q # <<>>,
              fill_q' = Tail(fill_q), prefetch_q' = prefetch_q,
              reserved' = [reserved EXCEPT ![Head(fill_q)] = TRUE],
              event' = [event EXCEPT ![Head(fill_q)] = "pending"]
       PROVE  IInv'
  <2>h. PICK h : h = Head(fill_q)
    OBVIOUS
  <2>1. /\ h \in Clients /\ Queued(h, fill_q)
        /\ fill_q' \in Seq(Clients) /\ NoDuplicates(fill_q')
        /\ \A x : Queued(x, fill_q') <=> Queued(x, fill_q) /\ x # h
    <3>1. fill_q \in Seq(Clients) /\ NoDuplicates(fill_q)
      BY DEF IInv, TypeOK, WaitersTracked
    <3>. QED BY <3>1, <1>2, <2>h, PopFront
  <2>0. reserved' = [reserved EXCEPT ![h] = TRUE] /\ event' = [event EXCEPT ![h] = "pending"]
    BY <1>2, <2>h
  <2>2. Unserved(h) /\ cls[h] = "Fill" /\ ~ reserved[h]
    BY <2>1 DEF IInv, WaitersTracked, Unserved
  <2>3. TypeOK'
    BY <2>0, <2>1, <1>2 DEF IInv, TypeOK
  <2>4. h \notin Owners /\ Owners' = Owners \cup {h} /\ OnDemandOwners' = OnDemandOwners
    BY <2>0, <2>1, <2>2 DEF IInv, TypeOK, Owners, OnDemandOwners, Unserved
  <2>5. SlotAccounting'
    BY <2>4, OwnerEnters DEF IInv, SlotAccounting
  <2>6. NoLostWakeup'
    BY DEF NoLostWakeup
  <2>7. WaitersTracked'
    <3>1. ~ Unserved(h)' /\ \A x \in Clients \ {h} : Unserved(x)' <=> Unserved(x)
      BY <2>0, <2>1 DEF IInv, TypeOK, Unserved
    <3>2. /\ reserved'[h] /\ event'[h] # "unset"
          /\ \A x \in Clients \ {h} : reserved'[x] = reserved[x] /\ event'[x] = event[x]
      BY <2>0, <2>1 DEF IInv, TypeOK
    <3>. QED BY <2>1, <2>2, <3>1, <3>2, <1>2 DEF IInv, WaitersTracked
  <2>8. ReservationsOwned'
    BY <2>0, <2>1, <2>2 DEF IInv, TypeOK, ReservationsOwned, Unserved, Pending
  <2>9. ControllerBounds'
    BY DEF IInv, ControllerBounds
  <2>. QED BY <2>3, <2>5, <2>6, <2>7, <2>8, <2>9 DEF IInv
<1>. QED BY <1>1, <1>2 DEF AdmitOne

(* When the loop ends the gate is shut or nobody waits. *)
LEMMA AdmitEndIInv ==
    ASSUME IInv, AdmitEnd
    PROVE  IInv'
<1> USE DEF AdmitEnd, queues, config, counts, waiters
<1>1. TypeOK' /\ ControllerBounds'
  BY DEF IInv, TypeOK, ControllerBounds
<1>2. SlotAccounting'
  BY DEF IInv, SlotAccounting, Owners, OnDemandOwners
<1>3. NoLostWakeup'
  BY DEF NoLostWakeup, GateOpen
<1>4. WaitersTracked' /\ ReservationsOwned'
  BY DEF IInv, WaitersTracked, ReservationsOwned, Unserved, Pending
<1>. QED BY <1>1, <1>2, <1>3, <1>4 DEF IInv

(* Setting an event changes nothing else. *)
LEMMA WakeIInv ==
    ASSUME IInv, NEW p \in Clients, Wake(p)
    PROVE  IInv'
<1> USE DEF Wake, queues, config, counts
<1>1. TypeOK' /\ ControllerBounds'
  BY DEF IInv, TypeOK, ControllerBounds
<1>2. SlotAccounting'
  BY DEF IInv, SlotAccounting, Owners, OnDemandOwners
<1>3. NoLostWakeup'
  BY DEF IInv, NoLostWakeup, GateOpen
<1>4. WaitersTracked' /\ ReservationsOwned'
  BY DEF IInv, TypeOK, WaitersTracked, ReservationsOwned, Unserved, Pending
<1>. QED BY <1>1, <1>2, <1>3, <1>4 DEF IInv

(* Adopting a reserved slot as a permit keeps the owner. *)
LEMMA AdoptIInv ==
    ASSUME IInv, NEW p \in Clients, reserved[p], Adopt(p),
           phase[p] \in {"pushed", "waiting", "expired"},
           UNCHANGED <<mu, queues, config, counts, cls, bounded>>
    PROVE  IInv'
<1> USE DEF Adopt, queues, config, counts
<1>1. TypeOK' /\ ControllerBounds'
  BY DEF IInv, TypeOK, ControllerBounds, Phases
<1>2. SlotAccounting'
  <2>1. Owners' = Owners /\ OnDemandOwners' = OnDemandOwners
    BY DEF IInv, TypeOK, Owners, OnDemandOwners
  <2>. QED BY <2>1 DEF IInv, SlotAccounting
<1>3. NoLostWakeup'
  BY DEF IInv, NoLostWakeup, GateOpen
<1>4. WaitersTracked'
  BY DEF IInv, TypeOK, WaitersTracked, Unserved
<1>5. ReservationsOwned'
  BY DEF IInv, TypeOK, ReservationsOwned, Pending
<1>. QED BY <1>1, <1>2, <1>3, <1>4, <1>5 DEF IInv

(* A phase change of a waiter that stays a waiter changes nothing else. *)
LEMMA WaitsOnIInv ==
    ASSUME IInv, NEW p \in Clients, NEW ph \in {"waiting", "expired", "threw"},
           phase[p] \in {"pushed", "waiting"},
           phase' = [phase EXCEPT ![p] = ph],
           UNCHANGED <<mu, queues, config, counts, cls, bounded, waiters>>
    PROVE  IInv'
<1> USE DEF queues, config, counts, waiters
<1>1. TypeOK' /\ ControllerBounds'
  BY DEF IInv, TypeOK, ControllerBounds, Phases
<1>2. SlotAccounting'
  <2>1. Owners' = Owners /\ OnDemandOwners' = OnDemandOwners
    BY DEF IInv, TypeOK, Owners, OnDemandOwners
  <2>. QED BY <2>1 DEF IInv, SlotAccounting
<1>3. NoLostWakeup'
  BY DEF IInv, NoLostWakeup, GateOpen
<1>4. WaitersTracked'
  BY DEF IInv, TypeOK, WaitersTracked, Unserved
<1>5. ReservationsOwned'
  BY DEF IInv, TypeOK, ReservationsOwned, Pending
<1>. QED BY <1>1, <1>2, <1>3, <1>4, <1>5 DEF IInv

(* A waiter without a reservation leaves its deque, and leaves no trace. *)
LEMMA WithdrawIInv ==
    ASSUME IInv, NEW p \in Clients, ~ reserved[p], Withdraw(p),
           phase[p] \in {"expired", "threw"},
           UNCHANGED <<mu, config, counts, cls, bounded>>
    PROVE  IInv'
<1> USE DEF config, counts, waiters
<1>0. /\ phase' = [phase EXCEPT ![p] = "idle"] /\ reserved' = reserved /\ event' = event
      /\ IF cls[p] = "Prefetch"
         THEN prefetch_q' = Dequeue(prefetch_q, p) /\ UNCHANGED fill_q
         ELSE fill_q' = Dequeue(fill_q, p) /\ UNCHANGED prefetch_q
  BY DEF Withdraw
<1> USE <1>0
<1>1. /\ ~ Unserved(p)' /\ Unserved(p) /\ cls[p] \in Scavenger
      /\ \A x \in Clients \ {p} : Unserved(x)' <=> Unserved(x)
  BY DEF IInv, TypeOK, Unserved, ReservationsOwned, Pending
<1>2. ControllerBounds' /\ ReservationsOwned'
  BY DEF IInv, TypeOK, ControllerBounds, ReservationsOwned, Pending
<1>3. SlotAccounting'
  <2>1. Owners' = Owners /\ OnDemandOwners' = OnDemandOwners
    BY DEF IInv, TypeOK, Owners, OnDemandOwners
  <2>. QED BY <2>1 DEF IInv, SlotAccounting
<1>4. NoLostWakeup'
  <2>1. Queued(p, prefetch_q) \/ Queued(p, fill_q)
    BY <1>1 DEF IInv, WaitersTracked, Scavenger
  <2>2. ~ (mu = None /\ GateOpen)
    BY <2>1 DEF IInv, NoLostWakeup, Queued
  <2>. QED BY <2>2 DEF NoLostWakeup, GateOpen
<1>q. TypeOK' /\ WaitersTracked'
  <2>5. CASE cls[p] = "Prefetch"
    <3>1. prefetch_q' = Dequeue(prefetch_q, p) /\ fill_q' = fill_q
      BY <2>5, <1>0
    <3>2. /\ prefetch_q' \in Seq(Clients) /\ NoDuplicates(prefetch_q')
          /\ \A x : Queued(x, prefetch_q') <=> Queued(x, prefetch_q) /\ x # p
      <4>1. prefetch_q \in Seq(Clients) /\ NoDuplicates(prefetch_q)
        BY DEF IInv, TypeOK, WaitersTracked
      <4>. QED BY <4>1, <3>1, FindErase
    <3>3. TypeOK'
      BY <3>1, <3>2 DEF IInv, TypeOK, Phases
    <3>4. WaitersTracked'
      BY <1>1, <2>5, <3>1, <3>2 DEF IInv, WaitersTracked
    <3>. QED BY <3>3, <3>4
  <2>6. CASE cls[p] = "Fill"
    <3>1. fill_q' = Dequeue(fill_q, p) /\ prefetch_q' = prefetch_q
      BY <2>6, <1>0
    <3>2. /\ fill_q' \in Seq(Clients) /\ NoDuplicates(fill_q')
          /\ \A x : Queued(x, fill_q') <=> Queued(x, fill_q) /\ x # p
      <4>1. fill_q \in Seq(Clients) /\ NoDuplicates(fill_q)
        BY DEF IInv, TypeOK, WaitersTracked
      <4>. QED BY <4>1, <3>1, FindErase
    <3>3. TypeOK'
      BY <3>1, <3>2 DEF IInv, TypeOK, Phases
    <3>4. WaitersTracked'
      BY <1>1, <2>6, <3>1, <3>2 DEF IInv, WaitersTracked
    <3>. QED BY <3>3, <3>4
  <2>. QED BY <1>1, <2>5, <2>6 DEF Scavenger
<1>. QED BY <1>2, <1>3, <1>4, <1>q DEF IInv

(* After its critical section a bounded waiter adopts or suspends. *)
LEMMA AfterPushIInv ==
    ASSUME IInv, NEW p \in Clients, AfterPush(p)
    PROVE  IInv'
<1>1. CASE bounded[p] /\ reserved[p]
  BY <1>1, AdoptIInv DEF AfterPush
<1>2. CASE ~ (bounded[p] /\ reserved[p])
  BY <1>2, WaitsOnIInv DEF AfterPush
<1>. QED BY <1>1, <1>2

(* The event was set because a slot had been reserved. *)
LEMMA WokenIInv ==
    ASSUME IInv, NEW p \in Clients, Woken(p)
    PROVE  IInv'
<1>1. reserved[p]
  BY DEF IInv, WaitersTracked, Woken
<1>. QED BY <1>1, AdoptIInv DEF Woken

(* A timed-out waiter adopts the slot it was given, or withdraws. *)
LEMMA ReconcileIInv ==
    ASSUME IInv, NEW p \in Clients, Reconcile(p)
    PROVE  IInv'
<1>1. CASE reserved[p]
  BY <1>1, AdoptIInv DEF Reconcile
<1>2. CASE ~ reserved[p]
  BY <1>2, WithdrawIInv DEF Reconcile
<1>. QED BY <1>1, <1>2

(* A waiter whose wait threw keeps its reservation until it releases it. *)
LEMMA UnwindIInv ==
    ASSUME IInv, NEW p \in Clients, Unwind(p)
    PROVE  IInv'
<1>1. CASE reserved[p]
  <2> USE <1>1 DEF Unwind, queues, config, counts, waiters
  <2>1. TypeOK' /\ ControllerBounds'
    BY DEF IInv, TypeOK, ControllerBounds, Phases
  <2>2. SlotAccounting'
    <3>1. Owners' = Owners /\ OnDemandOwners' = OnDemandOwners
      BY DEF IInv, TypeOK, Owners, OnDemandOwners
    <3>. QED BY <3>1 DEF IInv, SlotAccounting
  <2>3. NoLostWakeup'
    BY DEF IInv, NoLostWakeup, GateOpen
  <2>4. WaitersTracked'
    BY DEF IInv, TypeOK, WaitersTracked, Unserved
  <2>5. ReservationsOwned'
    BY DEF IInv, TypeOK, ReservationsOwned, Pending
  <2>. QED BY <2>1, <2>2, <2>3, <2>4, <2>5 DEF IInv
<1>2. CASE ~ reserved[p]
  BY <1>2, WithdrawIInv DEF Unwind
<1>. QED BY <1>1, <1>2

(* The unadopted reservation is given back once. *)
LEMMA UnwindReleaseIInv ==
    ASSUME IInv, NEW p \in Clients, UnwindRelease(p)
    PROVE  IInv'
<1> USE DEF UnwindRelease, queues, config
<1>1. p \in Owners /\ p \notin OnDemandOwners
  BY DEF IInv, TypeOK, ReservationsOwned, Owners, OnDemandOwners, Pending, Scavenger
<1>2. Owners' = Owners \ {p} /\ OnDemandOwners' = OnDemandOwners
  BY <1>1 DEF IInv, TypeOK, Owners, OnDemandOwners
<1>3. SlotAccounting'
  BY <1>1, <1>2, OwnerLeaves DEF IInv, SlotAccounting
<1>4. TypeOK'
  <2>0. Cardinality(Owners) >= 1
    BY <1>1, OwnerLeaves
  <2>1. inflight_total' \in Nat
    BY <2>0 DEF IInv, TypeOK, SlotAccounting
  <2>. QED BY <2>1 DEF IInv, TypeOK, Phases
<1>5. NoLostWakeup'
  BY ClientsAssumption DEF NoLostWakeup
<1>6. WaitersTracked'
  BY DEF IInv, TypeOK, WaitersTracked, ReservationsOwned, Unserved
<1>7. ReservationsOwned' /\ ControllerBounds'
  BY DEF IInv, TypeOK, ReservationsOwned, ControllerBounds, Pending
<1>. QED BY <1>3, <1>4, <1>5, <1>6, <1>7 DEF IInv

(* A permit gives back exactly the slot it stands for. *)
LEMMA ReleaseIInv ==
    ASSUME IInv, NEW p \in Clients, NEW sample \in Samples, Release(p, sample)
    PROVE  IInv'
<1> USE DEF Release, queues, waiters
<1>1. p \in Owners /\ ~ reserved[p]
  BY DEF IInv, ReservationsOwned, Owners
<1>2. Owners' = Owners \ {p}
  BY <1>1 DEF IInv, TypeOK, Owners
<1>3. inflight_total' \in Nat /\ inflight_total' = Cardinality(Owners')
  <2>1. Cardinality(Owners) >= 1 /\ Cardinality(Owners \ {p}) = Cardinality(Owners) - 1
    BY <1>1, OwnerLeaves
  <2>2. inflight_total = Cardinality(Owners) /\ inflight_total \in Nat
    BY DEF IInv, SlotAccounting, TypeOK
  <2>. QED BY <1>2, <2>1, <2>2
<1>4. inflight_on_demand' \in Nat /\ inflight_on_demand' = Cardinality(OnDemandOwners')
  <2>1. CASE cls[p] = "OnDemand"
    <3>1. p \in OnDemandOwners /\ OnDemandOwners' = OnDemandOwners \ {p}
      BY <2>1, <1>1, <1>2 DEF OnDemandOwners
    <3>2. /\ Cardinality(OnDemandOwners) >= 1
          /\ Cardinality(OnDemandOwners \ {p}) = Cardinality(OnDemandOwners) - 1
      BY <3>1, <1>1, OwnerLeaves
    <3>3. inflight_on_demand = Cardinality(OnDemandOwners) /\ inflight_on_demand \in Nat
      BY DEF IInv, SlotAccounting, TypeOK
    <3>. QED BY <2>1, <3>1, <3>2, <3>3
  <2>2. CASE cls[p] # "OnDemand"
    <3>1. OnDemandOwners' = OnDemandOwners
      BY <2>2, <1>1, <1>2 DEF OnDemandOwners
    <3>. QED BY <2>2, <3>1, OwnersFinite DEF IInv, SlotAccounting
  <2>. QED BY <2>1, <2>2
<1>5. /\ window' \in Nat /\ baseline' \in Nat /\ baseline_valid' \in BOOLEAN
      /\ ControllerBounds'
  <2>1. CASE cls[p] = "OnDemand"
    BY <2>1, ControllerStep DEF IInv
  <2>2. CASE cls[p] # "OnDemand"
    BY <2>2 DEF IInv, TypeOK, ControllerBounds, config
  <2>. QED BY <2>1, <2>2
<1>6. TypeOK'
  BY <1>3, <1>4, <1>5 DEF IInv, TypeOK, Phases
<1>7. SlotAccounting'
  BY <1>3, <1>4 DEF SlotAccounting
<1>8. NoLostWakeup'
  BY ClientsAssumption DEF NoLostWakeup
<1>9. WaitersTracked'
  BY DEF IInv, TypeOK, WaitersTracked, ReservationsOwned, Unserved
<1>10. ReservationsOwned'
  BY DEF IInv, TypeOK, ReservationsOwned, Pending
<1>. QED BY <1>5, <1>6, <1>7, <1>8, <1>9, <1>10 DEF IInv

(* A bare latency sample touches only the controller. *)
LEMMA NoteLatencyIInv ==
    ASSUME IInv, NEW p \in Clients, NEW sample \in Samples, NoteLatency(p, sample)
    PROVE  IInv'
<1> USE DEF NoteLatency, queues, counts, waiters
<1>1. /\ window' \in Nat /\ baseline' \in Nat /\ baseline_valid' \in BOOLEAN
      /\ ControllerBounds'
  BY ControllerStep DEF IInv
<1>2. TypeOK'
  BY <1>1 DEF IInv, TypeOK
<1>3. SlotAccounting'
  BY DEF IInv, SlotAccounting, Owners, OnDemandOwners
<1>4. NoLostWakeup'
  BY ClientsAssumption DEF NoLostWakeup
<1>5. WaitersTracked' /\ ReservationsOwned'
  BY DEF IInv, WaitersTracked, ReservationsOwned, Unserved, Pending
<1>. QED BY <1>1, <1>2, <1>3, <1>4, <1>5 DEF IInv

(* Every step of the funnel preserves the invariant. *)
LEMMA NextIInv == IInv /\ [Next]_vars => IInv'
<1> SUFFICES ASSUME IInv, [Next]_vars PROVE IInv'
  OBVIOUS
<1>1. CASE UNCHANGED vars
  BY <1>1 DEF IInv, vars, TypeOK, SlotAccounting, NoLostWakeup, WaitersTracked,
     ReservationsOwned, ControllerBounds, GateOpen, Owners, OnDemandOwners, Unserved, Pending
<1>2. CASE AdmitOne
  BY <1>2, AdmitOneIInv
<1>3. CASE AdmitEnd
  BY <1>3, AdmitEndIInv
<1>4. ASSUME NEW p \in Clients,
             \/ AcquireOnDemand(p)
             \/ \E c \in Scavenger, b \in BOOLEAN : AcquireScavenger(p, c, b)
             \/ Push(p) \/ Wake(p) \/ AfterPush(p) \/ Woken(p)
             \/ Reconcile(p) \/ Unwind(p) \/ UnwindRelease(p)
             \/ \E how \in {"expired", "threw"} : WaitAborted(p, how)
             \/ \E s \in Samples : Release(p, s) \/ NoteLatency(p, s)
      PROVE  IInv'
  <2>1. CASE AcquireOnDemand(p)
    BY <2>1, AcquireOnDemandIInv
  <2>2. CASE \E c \in Scavenger, b \in BOOLEAN : AcquireScavenger(p, c, b)
    BY <2>2, AcquireScavengerIInv
  <2>3. CASE Push(p)
    BY <2>3, PushIInv
  <2>4. CASE Wake(p)
    BY <2>4, WakeIInv
  <2>5. CASE AfterPush(p)
    BY <2>5, AfterPushIInv
  <2>6. CASE Woken(p)
    BY <2>6, WokenIInv
  <2>7. CASE Reconcile(p)
    BY <2>7, ReconcileIInv
  <2>8. CASE Unwind(p)
    BY <2>8, UnwindIInv
  <2>9. CASE UnwindRelease(p)
    BY <2>9, UnwindReleaseIInv
  <2>10. CASE \E how \in {"expired", "threw"} : WaitAborted(p, how)
    BY <2>10, WaitsOnIInv DEF WaitAborted
  <2>11. CASE \E s \in Samples : Release(p, s) \/ NoteLatency(p, s)
    BY <2>11, ReleaseIInv, NoteLatencyIInv
  <2>. QED BY <1>4, <2>1, <2>2, <2>3, <2>4, <2>5, <2>6, <2>7, <2>8, <2>9, <2>10, <2>11
<1>. QED BY <1>1, <1>2, <1>3, <1>4 DEF Next

(* The invariant holds throughout, for every number of clients, every window
   configuration and every latency. *)
THEOREM Invariance == Spec => []IInv
<1>1. Init => IInv
  BY InitIInv
<1>2. IInv /\ [Next]_vars => IInv'
  BY NextIInv
<1>. QED BY <1>1, <1>2, PTL DEF Spec

(* The counters of the funnel never underflow and every field keeps its type. *)
THEOREM TypeCorrect == Spec => []TypeOK
<1>1. IInv => TypeOK
  BY DEF IInv
<1>. QED BY <1>1, Invariance, PTL

(* No path through acquire, acquire_scavenger_bounded and release leaks or
   double-frees a slot. *)
THEOREM SlotsConserved == Spec => []SlotAccounting
<1>1. IInv => SlotAccounting
  BY DEF IInv
<1>. QED BY <1>1, Invariance, PTL

(* No scavenger is left queued in front of an open gate. *)
THEOREM NoWakeupLost == Spec => []NoLostWakeup
<1>1. IInv => NoLostWakeup
  BY DEF IInv
<1>. QED BY <1>1, Invariance, PTL

(* Every pushed waiter stays where the next releaser finds it. *)
THEOREM WaitersAreTracked == Spec => []WaitersTracked
<1>1. IInv => WaitersTracked
  BY DEF IInv
<1>. QED BY <1>1, Invariance, PTL

(* The window and the baseline stay in range under every sequence of samples. *)
THEOREM ControllerIsBounded == Spec => []ControllerBounds
<1>1. IInv => ControllerBounds
  BY DEF IInv
<1>. QED BY <1>1, Invariance, PTL

-----------------------------------------------------------------------------
(* How a step moves slots. *)

EntersOnDemand(p) ==
    /\ p \notin Owners
    /\ Owners' = Owners \cup {p}
    /\ OnDemandOwners' = OnDemandOwners \cup {p}
    /\ window' = window

EntersScavenger(p) ==
    /\ p \notin Owners
    /\ GateOpen
    /\ Owners' = Owners \cup {p}
    /\ OnDemandOwners' = OnDemandOwners
    /\ window' = window
    /\ inflight_total' = inflight_total + 1
    /\ inflight_on_demand' = inflight_on_demand
    /\ prefetch_q \o fill_q # <<>> => p = Head(prefetch_q \o fill_q)

Leaves(p) ==
    /\ p \in Owners
    /\ Owners' = Owners \ {p}
    /\ OnDemandOwners' = OnDemandOwners \ {p}

KeepsSlots == Owners' = Owners /\ OnDemandOwners' = OnDemandOwners

(* Every step lets one request in, lets one out, or moves no slot. *)
LEMMA SlotSteps ==
    ASSUME IInv, Next
    PROVE  \/ \E p \in Clients : EntersOnDemand(p) \/ EntersScavenger(p) \/ Leaves(p)
           \/ KeepsSlots
<1> USE DEF queues, config, counts, waiters
<1>1. CASE AdmitOne
  <2>1. ASSUME NEW q \in Seq(Clients), q # <<>>, NEW h, h = Head(q),
               reserved' = [reserved EXCEPT ![h] = TRUE],
               q = prefetch_q \/ (prefetch_q = <<>> /\ q = fill_q)
        PROVE  h \in Clients /\ EntersScavenger(h)
    <3>1. h \in Clients /\ Queued(h, q)
      BY <2>1 DEF Queued
    <3>2. Unserved(h) /\ cls[h] # "OnDemand"
      BY <2>1, <3>1 DEF IInv, WaitersTracked
    <3>3. h \notin Owners /\ Owners' = Owners \cup {h} /\ OnDemandOwners' = OnDemandOwners
      BY <1>1, <2>1, <3>1, <3>2
      DEF AdmitOne, IInv, TypeOK, Owners, OnDemandOwners, Unserved
    <3>4. prefetch_q \o fill_q # <<>> => h = Head(prefetch_q \o fill_q)
      BY <2>1 DEF IInv, TypeOK
    <3>. QED BY <1>1, <3>1, <3>3, <3>4 DEF AdmitOne, EntersScavenger
  <2>2. prefetch_q \in Seq(Clients) /\ fill_q \in Seq(Clients)
    BY DEF IInv, TypeOK
  <2>. QED BY <1>1, <2>1, <2>2 DEF AdmitOne
<1>2. CASE AdmitEnd
  BY <1>2 DEF AdmitEnd, KeepsSlots, Owners, OnDemandOwners
<1>3. ASSUME NEW p \in Clients, AcquireOnDemand(p) PROVE EntersOnDemand(p)
  BY <1>3 DEF AcquireOnDemand, EntersOnDemand, IInv, TypeOK, ReservationsOwned, Owners,
     OnDemandOwners
<1>4. ASSUME NEW p \in Clients, NEW c \in Scavenger, NEW b \in BOOLEAN,
             AcquireScavenger(p, c, b)
      PROVE  EntersScavenger(p) \/ KeepsSlots
  <2>1. p \notin Owners /\ mu = None
    BY <1>4 DEF AcquireScavenger, IInv, ReservationsOwned, Owners
  <2>2. CASE GateOpen
    <3>1. Owners' = Owners \cup {p} /\ OnDemandOwners' = OnDemandOwners
      BY <1>4, <2>1, <2>2 DEF AcquireScavenger, IInv, TypeOK, Owners, OnDemandOwners, Scavenger
    <3>2. prefetch_q \o fill_q = <<>>
      BY <2>1, <2>2 DEF IInv, NoLostWakeup
    <3>. QED BY <1>4, <2>1, <2>2, <3>1, <3>2 DEF AcquireScavenger, EntersScavenger
  <2>3. CASE ~ GateOpen
    BY <1>4, <2>1, <2>3 DEF AcquireScavenger, KeepsSlots, IInv, TypeOK, Owners, OnDemandOwners
  <2>. QED BY <2>2, <2>3
<1>5. ASSUME NEW p \in Clients, Push(p) \/ Wake(p) PROVE KeepsSlots
  BY <1>5 DEF Push, Wake, KeepsSlots, IInv, TypeOK, Owners, OnDemandOwners
<1>6. ASSUME NEW p \in Clients, AfterPush(p) \/ Woken(p) \/ Reconcile(p) \/ Unwind(p)
      PROVE  KeepsSlots
  BY <1>6 DEF AfterPush, Woken, Reconcile, Unwind, Adopt, Withdraw, KeepsSlots, IInv, TypeOK,
     WaitersTracked, Owners, OnDemandOwners
<1>7. ASSUME NEW p \in Clients, NEW how \in {"expired", "threw"}, WaitAborted(p, how)
      PROVE  KeepsSlots
  BY <1>7 DEF WaitAborted, KeepsSlots, IInv, TypeOK, Owners, OnDemandOwners
<1>8. ASSUME NEW p \in Clients, UnwindRelease(p) PROVE Leaves(p)
  BY <1>8 DEF UnwindRelease, Leaves, IInv, TypeOK, ReservationsOwned, Owners, OnDemandOwners
<1>9. ASSUME NEW p \in Clients, NEW s \in Samples, Release(p, s) PROVE Leaves(p)
  BY <1>9 DEF Release, Leaves, IInv, TypeOK, ReservationsOwned, Owners, OnDemandOwners
<1>10. ASSUME NEW p \in Clients, NEW s \in Samples, NoteLatency(p, s) PROVE KeepsSlots
  BY <1>10 DEF NoteLatency, KeepsSlots, Owners, OnDemandOwners
<1>. QED BY <1>1, <1>2, <1>3, <1>4, <1>5, <1>6, <1>7, <1>8, <1>9, <1>10 DEF Next

(* A stuttering step moves no slot. *)
LEMMA StutterKeepsSlots ==
    ASSUME UNCHANGED vars
    PROVE  KeepsSlots
  BY DEF vars, KeepsSlots, Owners, OnDemandOwners

(* No scavenger is let in past an on-demand read or past the window. *)
THEOREM ScavengersDoYield == Spec => ScavengersYield
<1> DEFINE A == ScavengerOwners' \ ScavengerOwners # {} =>
                   inflight_on_demand' = 0 /\ inflight_total' <= window'
<1>1. IInv /\ [Next]_vars => [A]_vars
  <2> SUFFICES ASSUME IInv, Next, ScavengerOwners' \ ScavengerOwners # {}
               PROVE  inflight_on_demand' = 0 /\ inflight_total' <= window'
    OBVIOUS
  <2>1. PICK p \in Clients : EntersScavenger(p)
    BY SlotSteps DEF ScavengerOwners, EntersOnDemand, Leaves, KeepsSlots
  <2>. QED BY <2>1 DEF EntersScavenger, GateOpen, IInv, TypeOK
<1>. QED BY <1>1, Invariance, PTL DEF Spec, ScavengersYield

(* Slots go to the first in line: prefetch before fill, each in order. *)
THEOREM SlotsServedInOrder == Spec => ServedInOrder
<1> DEFINE A == \A p \in ScavengerOwners' \ ScavengerOwners :
                   prefetch_q \o fill_q # <<>> => p = Head(prefetch_q \o fill_q)
<1>1. IInv /\ [Next]_vars => [A]_vars
  <2> SUFFICES ASSUME IInv, Next, NEW p \in ScavengerOwners' \ ScavengerOwners
               PROVE  prefetch_q \o fill_q # <<>> => p = Head(prefetch_q \o fill_q)
    OBVIOUS
  <2>1. EntersScavenger(p)
    BY SlotSteps DEF ScavengerOwners, EntersOnDemand, EntersScavenger, Leaves, KeepsSlots
  <2>. QED BY <2>1 DEF EntersScavenger
<1>. QED BY <1>1, Invariance, PTL DEF Spec, ServedInOrder

(* The funnel refines the abstract slot gate. *)
THEOREM FunnelImplementsGate == Spec => ImplementsGate
<1>1. Init => Gate!Init
  <2> SUFFICES ASSUME Init PROVE Gate!Init
    OBVIOUS
  <2>1. Owners = {} /\ OnDemandOwners = {}
    BY DEF Init, Owners, OnDemandOwners
  <2>2. window \in Lo .. Hi
    BY InitIInv DEF IInv, ControllerBounds
  <2>. QED BY <2>1, <2>2 DEF Gate!Init
<1>2. IInv /\ IInv' /\ [Next]_vars => [Gate!Next]_(Gate!vars)
  <2> SUFFICES ASSUME IInv, IInv', [Next]_vars PROVE Gate!Next \/ UNCHANGED Gate!vars
    OBVIOUS
  <2>0. window' \in Lo .. Hi
    BY DEF IInv, ControllerBounds
  <2>1. \/ \E p \in Clients : EntersOnDemand(p) \/ EntersScavenger(p) \/ Leaves(p)
        \/ KeepsSlots
    BY SlotSteps, StutterKeepsSlots
  <2>2. ASSUME NEW p \in Clients, EntersOnDemand(p) PROVE Gate!EnterOnDemand(p)
    BY <2>2 DEF EntersOnDemand, Gate!EnterOnDemand
  <2>3. ASSUME NEW p \in Clients, EntersScavenger(p) PROVE Gate!EnterScavenger(p)
    <3>1. OnDemandOwners = {} /\ Cardinality(Owners) < window
      BY <2>3, OwnersFinite, FS_EmptySet DEF EntersScavenger, GateOpen, IInv, SlotAccounting
    <3>2. Gate!Cardinality(Owners) = Cardinality(Owners)
      BY DEF Cardinality, Gate!Cardinality
    <3>. QED BY <2>3, <3>1, <3>2 DEF EntersScavenger, Gate!EnterScavenger
  <2>4. ASSUME NEW p \in Clients, Leaves(p) PROVE Gate!Leave(p)
    BY <2>0, <2>4 DEF Leaves, Gate!Leave
  <2>5. ASSUME KeepsSlots PROVE Gate!Adjust
    BY <2>0, <2>5 DEF KeepsSlots, Gate!Adjust
  <2>. QED BY <2>1, <2>2, <2>3, <2>4, <2>5 DEF Gate!Next
<1>. QED BY <1>1, <1>2, Invariance, PTL DEF Spec, ImplementsGate, Gate!Spec

=============================================================================
