-------------------------- MODULE LayerFetchProofs --------------------------
(***************************************************************************)
(* Proofs about join_or_fetch for every set of callers and extents: at     *)
(* most one fetch of an extent is under way, nobody joins a flight that    *)
(* will not be completed, and a permit of the funnel is held exactly from  *)
(* the admission to the end of the remote read.                            *)
(***************************************************************************)
EXTENDS LayerFetch, TLAPS

Holding == {"recheck", "publish", "give back", "remote", "release"}

\* A starter's flight is in the map and not done; what is in the map has a
\* starter; no two starters share a flight.
StartersPublished ==
    /\ \A c \in Callers : Starter(c) =>
          /\ caller[c].eid \in Extents /\ caller[c].flight \in Flights
          /\ inflight[caller[c].eid] = caller[c].flight
          /\ ~flights[caller[c].flight].done
    /\ \A c, d \in Callers : Starter(c) /\ Starter(d) /\ caller[c].flight = caller[d].flight => c = d

MapHasStarters ==
    \A e \in Extents : inflight[e] # None =>
        \E c \in Callers : Starter(c) /\ caller[c].eid = e /\ caller[c].flight = inflight[e]

\* Whoever waits for a flight finds it done or somebody at work on it: done is
\* set before the flight leaves the map, so a joiner is never forgotten.
JoinersAreServed ==
    \A c \in Callers : caller[c].pc \in {"join", "give back"} =>
        /\ caller[c].flight \in Flights
        /\ \/ flights[caller[c].flight].done
           \/ \E d \in Callers : Starter(d) /\ caller[d].flight = caller[c].flight

\* A permit is held exactly between the admission and the end of the remote
\* read: a joiner waits, and a call returns, without one.
PermitsAreReturned ==
    \A c \in Callers : c \in holders <=> caller[c].pc \in Holding

\* A call under way has an extent.
CallsHaveExtents ==
    \A c \in Callers : caller[c].pc # "idle" => caller[c].eid \in Extents

IInv ==
    /\ TypeOK /\ StartersPublished /\ MapHasStarters /\ OneFetchPerExtent
    /\ JoinersAreServed /\ PermitsAreReturned /\ CallsHaveExtents

-----------------------------------------------------------------------------

LEMMA InitHolds == Init => IInv
<1> SUFFICES ASSUME Init PROVE IInv
  OBVIOUS
<1>1. \A c \in Callers : caller[c] = Returned(None) /\ caller[c].pc = "idle"
  BY DEF Init, Returned
<1>2. TypeOK
  <2>1. Returned(None) \in [pc : Pcs, eid : Extents \cup {None},
                            flight : Flights \cup {None}, got : Results]
    BY DEF Returned, Pcs, Results
  <2>2. holders \subseteq Callers /\ urgent \subseteq holders /\ limit \in Low .. High
    BY DEF Init, Gate!Init
  <2>3. flights \in [Flights -> [done : BOOLEAN, result : Results]]
    BY DEF Init, Results
  <2>. QED BY <2>1, <2>2, <2>3 DEF Init, TypeOK
<1>3. StartersPublished /\ MapHasStarters /\ OneFetchPerExtent
  BY <1>1 DEF Init, StartersPublished, MapHasStarters, OneFetchPerExtent, Starter
<1>4. JoinersAreServed /\ PermitsAreReturned /\ CallsHaveExtents
  BY <1>1 DEF Init, Gate!Init, JoinersAreServed, PermitsAreReturned, CallsHaveExtents, Holding
<1>. QED BY <1>2, <1>3, <1>4 DEF IInv

(* A call takes a fresh object and becomes the starter of its extent. *)
LEMMA PublishKeeps ==
    ASSUME IInv, NEW c \in Callers, NEW e \in Extents, NEW pc \in {"admit", "remote"},
           ~Starter(c), caller[c].pc \notin {"join", "give back"},
           caller[c].pc \in Holding <=> pc \in Holding,
           inflight[e] = None, Publish(c, e, pc), UNCHANGED <<gate, wanted>>
    PROVE  IInv'
<1>1. PICK f \in Flights :
        /\ Unreferenced(f)
        /\ flights' = [flights EXCEPT ![f] = [done |-> FALSE, result |-> None]]
        /\ inflight' = [inflight EXCEPT ![e] = f]
        /\ caller' = [caller EXCEPT ![c] = [pc |-> pc, eid |-> e, flight |-> f, got |-> None]]
  BY DEF Publish
<1>2. /\ TypeOK /\ StartersPublished /\ MapHasStarters /\ OneFetchPerExtent
      /\ JoinersAreServed /\ PermitsAreReturned /\ CallsHaveExtents
  BY DEF IInv
<1>3. /\ \A d \in Callers \ {c} : caller'[d] = caller[d]
      /\ inflight'[e] = f /\ \A x \in Extents \ {e} : inflight'[x] = inflight[x]
      /\ ~flights'[f].done /\ \A g \in Flights \ {f} : flights'[g] = flights[g]
      /\ \A d \in Callers : caller[d].flight # f
  BY <1>1, <1>2 DEF TypeOK, Unreferenced
<1>4. /\ Starter(c)' /\ caller'[c].eid = e /\ caller'[c].flight = f /\ caller'[c].pc = pc
      /\ \A d \in Callers \ {c} : Starter(d)' <=> Starter(d)
  <2>1. caller'[c].pc = pc /\ caller'[c].eid = e /\ caller'[c].flight = f
    BY <1>1, <1>2 DEF TypeOK
  <2>2. Starter(c)'
    BY <2>1 DEF Starter
  <2>3. \A d \in Callers \ {c} : Starter(d)' <=> Starter(d)
    BY <1>3 DEF Starter
  <2>. QED BY <2>1, <2>2, <2>3
<1>5. \A d \in Callers : Starter(d) => caller[d].eid # e
  BY <1>2, FetchAssumption DEF StartersPublished
<1>6. TypeOK'
  BY <1>1, <1>2 DEF TypeOK, Pcs, Results, gate
<1>7. StartersPublished'
  <2>1. ASSUME NEW d \in Callers, Starter(d)'
        PROVE  /\ caller'[d].eid \in Extents /\ caller'[d].flight \in Flights
               /\ inflight'[caller'[d].eid] = caller'[d].flight
               /\ ~flights'[caller'[d].flight].done
    <3>1. CASE d = c
      BY <3>1, <1>3, <1>4
    <3>2. CASE d # c
      <4>1. Starter(d) /\ caller'[d] = caller[d] /\ caller[d].eid # e /\ caller[d].flight # f
        BY <2>1, <3>2, <1>3, <1>4, <1>5
      <4>2. /\ caller[d].eid \in Extents /\ caller[d].flight \in Flights
            /\ inflight[caller[d].eid] = caller[d].flight
            /\ ~flights[caller[d].flight].done
        BY <4>1, <1>2 DEF StartersPublished
      <4>. QED BY <4>1, <4>2, <1>3
    <3>. QED BY <3>1, <3>2
  <2>2. ASSUME NEW d \in Callers, NEW s \in Callers, Starter(d)', Starter(s)',
               caller'[d].flight = caller'[s].flight
        PROVE  d = s
    <3>1. CASE d = c \/ s = c
      BY <2>2, <3>1, <1>3, <1>4
    <3>2. CASE d # c /\ s # c
      <4>1. Starter(d) /\ Starter(s) /\ caller[d].flight = caller[s].flight
        BY <2>2, <3>2, <1>3, <1>4
      <4>. QED BY <4>1, <1>2 DEF StartersPublished
    <3>. QED BY <3>1, <3>2
  <2>. QED BY <2>1, <2>2 DEF StartersPublished
<1>8. MapHasStarters'
  <2> SUFFICES ASSUME NEW x \in Extents, inflight'[x] # None
               PROVE  \E d \in Callers : Starter(d)' /\ caller'[d].eid = x /\ caller'[d].flight = inflight'[x]
    BY DEF MapHasStarters
  <2>1. CASE x = e
    BY <2>1, <1>3, <1>4
  <2>2. CASE x # e
    <3>1. PICK d \in Callers : Starter(d) /\ caller[d].eid = x /\ caller[d].flight = inflight[x]
      BY <2>2, <1>2, <1>3 DEF MapHasStarters
    <3>2. d # c
      BY <3>1
    <3>. QED BY <3>1, <3>2, <2>2, <1>3, <1>4
  <2>. QED BY <2>1, <2>2
<1>9. OneFetchPerExtent'
  <2> SUFFICES ASSUME NEW d \in Callers, NEW s \in Callers, Starter(d)', Starter(s)',
                      caller'[d].eid = caller'[s].eid
               PROVE  d = s
    BY DEF OneFetchPerExtent
  <2>1. CASE d = c \/ s = c
    BY <2>1, <1>3, <1>4, <1>5
  <2>2. CASE d # c /\ s # c
    <3>1. Starter(d) /\ Starter(s) /\ caller[d].eid = caller[s].eid
      BY <2>2, <1>3, <1>4
    <3>. QED BY <3>1, <1>2 DEF OneFetchPerExtent
  <2>. QED BY <2>1, <2>2
<1>10. JoinersAreServed'
  <2> SUFFICES ASSUME NEW d \in Callers, caller'[d].pc \in {"join", "give back"}
               PROVE  /\ caller'[d].flight \in Flights
                      /\ \/ flights'[caller'[d].flight].done
                         \/ \E s \in Callers : Starter(s)' /\ caller'[s].flight = caller'[d].flight
    BY DEF JoinersAreServed
  <2>1. d # c /\ caller'[d] = caller[d] /\ caller[d].flight \in Flights /\ caller[d].flight # f
    BY <1>2, <1>3, <1>4 DEF JoinersAreServed
  <2>2. CASE flights[caller[d].flight].done
    BY <2>1, <2>2, <1>3
  <2>3. CASE \E s \in Callers : Starter(s) /\ caller[s].flight = caller[d].flight
    <3>1. PICK s \in Callers : Starter(s) /\ caller[s].flight = caller[d].flight
      BY <2>3
    <3>2. s # c
      BY <3>1
    <3>. QED BY <2>1, <3>1, <3>2, <1>3, <1>4
  <2>. QED BY <2>1, <2>2, <2>3, <1>2 DEF JoinersAreServed
<1>11. PermitsAreReturned' /\ CallsHaveExtents'
  BY <1>2, <1>3, <1>4 DEF PermitsAreReturned, CallsHaveExtents, gate
<1>. QED BY <1>6, <1>7, <1>8, <1>9, <1>10, <1>11 DEF IInv

(* A call moves on without touching the map: it stays a starter or is none. *)
LEMMA MoveKeeps ==
    ASSUME IInv, NEW c \in Callers,
           NEW r \in [pc : Pcs, eid : Extents \cup {None}, flight : Flights \cup {None}, got : Results],
           caller' = [caller EXCEPT ![c] = r],
           UNCHANGED <<inflight, wanted>>,
           flights' \in [Flights -> [done : BOOLEAN, result : Results]],
           \A f \in Flights : flights'[f].done = flights[f].done,
           holders' \subseteq Callers, urgent' \subseteq holders', limit' \in Low .. High,
           \A d \in Callers \ {c} : d \in holders' <=> d \in holders,
           c \in holders' <=> r.pc \in Holding,
           r.pc # "idle" => r.eid \in Extents,
           Starter(c) <=> r.pc \in {"admit", "remote", "release", "retire"},
           Starter(c) => r.eid = caller[c].eid /\ r.flight = caller[c].flight,
           r.pc \in {"join", "give back"} =>
              /\ r.flight \in Flights
              /\ \/ flights[r.flight].done
                 \/ \E d \in Callers : Starter(d) /\ caller[d].flight = r.flight
    PROVE  IInv'
<1>1. /\ TypeOK /\ StartersPublished /\ MapHasStarters /\ OneFetchPerExtent
      /\ JoinersAreServed /\ PermitsAreReturned /\ CallsHaveExtents
  BY DEF IInv
<1>2. caller'[c] = r /\ \A d \in Callers \ {c} : caller'[d] = caller[d]
  BY <1>1 DEF TypeOK
<1>3. \A d \in Callers : /\ Starter(d)' <=> Starter(d)
                         /\ Starter(d) => caller'[d].eid = caller[d].eid /\ caller'[d].flight = caller[d].flight
  BY <1>2 DEF Starter
<1>4. TypeOK'
  BY <1>1 DEF TypeOK
<1>5. StartersPublished' /\ OneFetchPerExtent'
  BY <1>1, <1>3 DEF StartersPublished, OneFetchPerExtent
<1>6. MapHasStarters'
  <2> SUFFICES ASSUME NEW x \in Extents, inflight'[x] # None
               PROVE  \E d \in Callers : Starter(d)' /\ caller'[d].eid = x /\ caller'[d].flight = inflight'[x]
    BY DEF MapHasStarters
  <2>1. inflight'[x] = inflight[x]
    OBVIOUS
  <2>2. PICK d \in Callers : Starter(d) /\ caller[d].eid = x /\ caller[d].flight = inflight[x]
    BY <1>1, <2>1 DEF MapHasStarters
  <2>. QED BY <2>1, <2>2, <1>3
<1>7. JoinersAreServed'
  <2> SUFFICES ASSUME NEW d \in Callers, caller'[d].pc \in {"join", "give back"}
               PROVE  /\ caller'[d].flight \in Flights
                      /\ \/ flights'[caller'[d].flight].done
                         \/ \E s \in Callers : Starter(s)' /\ caller'[s].flight = caller'[d].flight
    BY DEF JoinersAreServed
  <2>1. /\ caller'[d].flight \in Flights
        /\ \/ flights[caller'[d].flight].done
           \/ \E s \in Callers : Starter(s) /\ caller[s].flight = caller'[d].flight
    <3>1. CASE d = c
      BY <3>1, <1>2
    <3>2. CASE d # c
      <4>1. caller'[d] = caller[d] /\ caller[d].pc \in {"join", "give back"}
        BY <3>2, <1>2
      <4>2. /\ caller[d].flight \in Flights
            /\ \/ flights[caller[d].flight].done
               \/ \E s \in Callers : Starter(s) /\ caller[s].flight = caller[d].flight
        BY <4>1, <1>1 DEF JoinersAreServed
      <4>. QED BY <4>1, <4>2
    <3>. QED BY <3>1, <3>2
  <2>. QED BY <2>1, <1>3
<1>8. PermitsAreReturned' /\ CallsHaveExtents'
  BY <1>1, <1>2 DEF PermitsAreReturned, CallsHaveExtents
<1>. QED BY <1>4, <1>5, <1>6, <1>7, <1>8 DEF IInv

(* The starter sets done and takes its flight off the map. *)
LEMMA RetireKeeps ==
    ASSUME IInv, NEW c \in Callers, Retire(c)
    PROVE  IInv'
<1> DEFINE e == caller[c].eid
           f == caller[c].flight
<1>1. /\ TypeOK /\ StartersPublished /\ MapHasStarters /\ OneFetchPerExtent
      /\ JoinersAreServed /\ PermitsAreReturned /\ CallsHaveExtents
  BY DEF IInv
<1>2. caller[c].pc = "retire" /\ Starter(c)
  BY DEF Retire, At, Starter
<1>3. e \in Extents /\ f \in Flights /\ inflight[e] = f /\ f # None
  BY <1>1, <1>2, FetchAssumption DEF StartersPublished
<1>4. /\ flights' = [flights EXCEPT ![f].done = TRUE]
      /\ inflight' = [inflight EXCEPT ![e] = None]
      /\ caller' = [caller EXCEPT ![c] = Returned(caller[c].got)]
      /\ UNCHANGED <<gate, wanted>>
  BY DEF Retire, Return
<1>5. /\ caller'[c] = Returned(caller[c].got) /\ \A d \in Callers \ {c} : caller'[d] = caller[d]
      /\ inflight'[e] = None /\ \A x \in Extents \ {e} : inflight'[x] = inflight[x]
      /\ flights'[f].done /\ \A g \in Flights \ {f} : flights'[g] = flights[g]
  BY <1>1, <1>3, <1>4 DEF TypeOK
<1>6. /\ caller'[c].pc = "idle" /\ ~Starter(c)'
      /\ \A d \in Callers \ {c} : Starter(d)' <=> Starter(d)
  BY <1>5 DEF Starter, Returned
<1>7. \A d \in Callers \ {c} : Starter(d) => caller[d].eid # e /\ caller[d].flight # f
  BY <1>1, <1>2 DEF OneFetchPerExtent, StartersPublished
<1>8. TypeOK'
  <2>1. caller[c].got \in Results
    BY <1>1 DEF TypeOK
  <2>2. Returned(caller[c].got) \in [pc : Pcs, eid : Extents \cup {None},
                                     flight : Flights \cup {None}, got : Results]
    BY <2>1 DEF Returned, Pcs
  <2>3. caller' \in [Callers -> [pc : Pcs, eid : Extents \cup {None},
                                 flight : Flights \cup {None}, got : Results]]
    BY <1>1, <1>4, <2>2 DEF TypeOK
  <2>4. flights' \in [Flights -> [done : BOOLEAN, result : Results]]
    BY <1>1, <1>4 DEF TypeOK
  <2>. QED BY <1>1, <1>4, <2>3, <2>4 DEF TypeOK, gate
<1>9. StartersPublished' /\ OneFetchPerExtent'
  <2>1. ASSUME NEW d \in Callers, Starter(d)'
        PROVE  /\ d # c /\ Starter(d) /\ caller'[d] = caller[d]
               /\ caller'[d].eid \in Extents /\ caller'[d].flight \in Flights
               /\ inflight'[caller'[d].eid] = caller'[d].flight
               /\ ~flights'[caller'[d].flight].done
    <3>1. d # c /\ Starter(d) /\ caller'[d] = caller[d] /\ caller[d].eid # e /\ caller[d].flight # f
      BY <2>1, <1>5, <1>6, <1>7
    <3>2. /\ caller[d].eid \in Extents /\ caller[d].flight \in Flights
          /\ inflight[caller[d].eid] = caller[d].flight
          /\ ~flights[caller[d].flight].done
      BY <3>1, <1>1 DEF StartersPublished
    <3>. QED BY <3>1, <3>2, <1>5
  <2>2. ASSUME NEW d \in Callers, NEW s \in Callers, Starter(d)', Starter(s)'
        PROVE  /\ caller'[d].flight = caller'[s].flight => d = s
               /\ caller'[d].eid = caller'[s].eid => d = s
    BY <2>1, <2>2, <1>1 DEF StartersPublished, OneFetchPerExtent
  <2>. QED BY <2>1, <2>2 DEF StartersPublished, OneFetchPerExtent
<1>10. MapHasStarters'
  <2> SUFFICES ASSUME NEW x \in Extents, inflight'[x] # None
               PROVE  \E d \in Callers : Starter(d)' /\ caller'[d].eid = x /\ caller'[d].flight = inflight'[x]
    BY DEF MapHasStarters
  <2>1. x # e /\ inflight'[x] = inflight[x]
    BY <1>5
  <2>2. PICK d \in Callers : Starter(d) /\ caller[d].eid = x /\ caller[d].flight = inflight[x]
    BY <2>1, <1>1 DEF MapHasStarters
  <2>3. d # c
    BY <2>1, <2>2
  <2>. QED BY <2>1, <2>2, <2>3, <1>5, <1>6
<1>11. JoinersAreServed'
  <2> SUFFICES ASSUME NEW d \in Callers, caller'[d].pc \in {"join", "give back"}
               PROVE  /\ caller'[d].flight \in Flights
                      /\ \/ flights'[caller'[d].flight].done
                         \/ \E s \in Callers : Starter(s)' /\ caller'[s].flight = caller'[d].flight
    BY DEF JoinersAreServed
  <2>1. d # c /\ caller'[d] = caller[d] /\ caller[d].flight \in Flights
    BY <1>1, <1>5, <1>6 DEF JoinersAreServed
  <2>2. CASE caller[d].flight = f
    BY <2>1, <2>2, <1>5
  <2>3. CASE caller[d].flight # f /\ flights[caller[d].flight].done
    BY <2>1, <2>3, <1>5
  <2>4. CASE caller[d].flight # f /\ ~flights[caller[d].flight].done
    <3>1. caller[d].pc \in {"join", "give back"}
      BY <2>1
    <3>2. PICK s \in Callers : Starter(s) /\ caller[s].flight = caller[d].flight
      BY <2>4, <3>1, <1>1 DEF JoinersAreServed
    <3>3. s # c
      BY <2>4, <3>2
    <3>. QED BY <2>1, <3>2, <3>3, <1>5, <1>6
  <2>. QED BY <2>2, <2>3, <2>4
<1>12. PermitsAreReturned' /\ CallsHaveExtents'
  BY <1>1, <1>2, <1>4, <1>5, <1>6 DEF PermitsAreReturned, CallsHaveExtents, Holding, gate
<1>. QED BY <1>8, <1>9, <1>10, <1>11, <1>12 DEF IInv

(* Every step of a call. *)
LEMMA CallKeeps ==
    ASSUME IInv, NEW c \in Callers,
           \/ \E e \in Extents : Lookup(c, e)
           \/ AdmitScavenger(c) \/ SkipScavenger(c) \/ Advance(c)
    PROVE  IInv'
<1> DEFINE me == caller[c]
           Rec == [pc : Pcs, eid : Extents \cup {None}, flight : Flights \cup {None}, got : Results]
<1>1. /\ TypeOK /\ StartersPublished /\ MapHasStarters /\ OneFetchPerExtent
      /\ JoinersAreServed /\ PermitsAreReturned /\ CallsHaveExtents
      /\ me \in Rec /\ (me.pc # "idle" => me.eid \in Extents)
      /\ (c \in holders <=> me.pc \in Holding)
  BY DEF IInv, TypeOK, CallsHaveExtents, PermitsAreReturned
<1>2. \A res \in Results : Returned(res) \in Rec /\ Returned(res).pc = "idle"
  BY DEF Returned, Pcs
<1>3. \A e \in Extents : inflight[e] # None =>
        /\ inflight[e] \in Flights
        /\ \E d \in Callers : Starter(d) /\ caller[d].flight = inflight[e]
  BY <1>1 DEF TypeOK, MapHasStarters
<1>4. ASSUME NEW e \in Extents, Lookup(c, e) PROVE IInv'
  <2>1. me.pc = "idle" /\ ~Starter(c) /\ UNCHANGED <<gate, wanted>>
    BY <1>4 DEF Lookup, At, Starter
  <2>2. CASE inflight[e] = None /\ Publish(c, e, "admit")
    BY <2>1, <2>2, PublishKeeps DEF Holding
  <2>3. ASSUME NEW pc \in {"join", "gate"}, NEW f \in Flights \cup {None},
               caller' = [caller EXCEPT ![c] = [pc |-> pc, eid |-> e, flight |-> f, got |-> None]],
               UNCHANGED <<inflight, flights>>,
               pc = "join" => inflight[e] # None /\ f = inflight[e]
        PROVE  IInv'
    <3> DEFINE r == [pc |-> pc, eid |-> e, flight |-> f, got |-> None]
    <3>1. r \in Rec /\ r.pc = pc /\ r.eid = e /\ r.flight = f
      BY DEF Pcs, Results
    <3>2. caller' = [caller EXCEPT ![c] = r]
      BY <2>3
    <3>3. /\ r.pc \notin Holding /\ c \notin holders
          /\ r.pc \notin {"admit", "remote", "release", "retire", "give back", "idle"}
      BY <1>1, <2>1, <3>1 DEF Holding
    <3>4. r.pc = "join" => /\ r.flight \in Flights
                           /\ \E d \in Callers : Starter(d) /\ caller[d].flight = r.flight
      BY <1>3, <2>3, <3>1
    <3>5. /\ holders' = holders /\ holders' \subseteq Callers /\ urgent' \subseteq holders'
          /\ limit' \in Low .. High /\ UNCHANGED <<inflight, wanted, flights>>
          /\ flights' \in [Flights -> [done : BOOLEAN, result : Results]]
      BY <1>1, <2>1, <2>3 DEF TypeOK, gate
    <3>6. c \notin holders' /\ r.eid \in Extents
      BY <3>1, <3>3, <3>5
    <3> HIDE DEF r
    <3>. QED BY <2>1, <3>1, <3>2, <3>3, <3>4, <3>5, <3>6, MoveKeeps
  <2>4. inflight[e] \in Flights \cup {None}
    BY <1>1 DEF TypeOK
  <2>. QED BY <1>4, <2>2, <2>3, <2>4 DEF Lookup
<1>5. CASE AdmitOnDemand(c) \/ AdmitScavenger(c)
  <2> DEFINE r == [me EXCEPT !.pc = IF me.pc = "admit" THEN "remote" ELSE "recheck"]
  <2>1. /\ me.pc \in {"admit", "gate"} /\ c \notin holders
        /\ holders' = holders \cup {c} /\ (urgent' = urgent \/ urgent' = urgent \cup {c})
        /\ UNCHANGED <<limit, inflight, flights, wanted>>
        /\ caller' = [caller EXCEPT ![c] = r]
    BY <1>1, <1>5 DEF AdmitOnDemand, AdmitScavenger, At, Goto, Gate!EnterOnDemand, Gate!EnterScavenger, TypeOK
  <2>2. /\ r \in Rec /\ r.pc \in {"remote", "recheck"} /\ r.eid = me.eid /\ r.flight = me.flight
        /\ (r.pc = "remote" <=> me.pc = "admit")
    BY <1>1, <2>1 DEF Pcs
  <2>3. r.pc \in Holding /\ (Starter(c) <=> r.pc = "remote")
    BY <2>1, <2>2 DEF Holding, Starter
  <2> HIDE DEF r
  <2>. QED BY <1>1, <2>1, <2>2, <2>3, MoveKeeps DEF TypeOK
<1>6. CASE SkipScavenger(c)
  <2> DEFINE r == Returned("eagain")
  <2>1. /\ me.pc = "gate" /\ UNCHANGED <<gate, inflight, flights, wanted>>
        /\ caller' = [caller EXCEPT ![c] = r]
    BY <1>6 DEF SkipScavenger, At, Return
  <2>2. r \in Rec /\ r.pc = "idle"
    BY <1>2 DEF Results
  <2>3. c \notin holders /\ ~Starter(c) /\ r.pc \notin Holding
    BY <1>1, <2>1, <2>2 DEF Holding, Starter
  <2> HIDE DEF r
  <2>. QED BY <1>1, <2>1, <2>2, <2>3, MoveKeeps DEF TypeOK, gate
<1>7. CASE Recheck(c)
  <2>1. /\ me.pc = "recheck" /\ UNCHANGED <<inflight, flights, wanted>> /\ ~Starter(c) /\ c \in holders
    BY <1>1, <1>7 DEF Recheck, At, Starter, Holding
  <2>2. CASE Goto(c, "publish") /\ UNCHANGED gate
    <3> DEFINE r == [me EXCEPT !.pc = "publish"]
    <3>1. /\ r \in Rec /\ r.pc = "publish" /\ r.eid = me.eid /\ r.pc \in Holding
          /\ caller' = [caller EXCEPT ![c] = r]
      BY <1>1, <2>2 DEF Pcs, Holding, Goto, TypeOK
    <3> HIDE DEF r
    <3>. QED BY <1>1, <2>1, <2>2, <3>1, MoveKeeps DEF TypeOK, gate
  <2>3. CASE Return(c, "nothing") /\ Gate!Leave(c)
    <3> DEFINE r == Returned("nothing")
    <3>1. r \in Rec /\ r.pc = "idle" /\ caller' = [caller EXCEPT ![c] = r]
      BY <1>2, <2>3 DEF Results, Return
    <3>2. /\ holders' = holders \ {c} /\ urgent' = urgent \ {c} /\ limit' \in Low .. High
      BY <2>3 DEF Gate!Leave
    <3>3. r.pc \notin Holding
      BY <3>1 DEF Holding
    <3> HIDE DEF r
    <3>. QED BY <1>1, <2>1, <3>1, <3>2, <3>3, MoveKeeps DEF TypeOK
  <2>. QED BY <1>7, <2>2, <2>3 DEF Recheck
<1>8. CASE JoinOrPublish(c)
  <2>1. /\ me.pc = "publish" /\ UNCHANGED <<gate, wanted>> /\ ~Starter(c) /\ c \in holders
        /\ me.eid \in Extents
    BY <1>1, <1>8 DEF JoinOrPublish, At, Starter, Holding
  <2>2. CASE inflight[me.eid] = None /\ Publish(c, me.eid, "remote")
    BY <2>1, <2>2, PublishKeeps DEF Holding
  <2>3. CASE /\ inflight[me.eid] # None /\ UNCHANGED <<inflight, flights>>
             /\ caller' = [caller EXCEPT ![c].pc = "give back", ![c].flight = inflight[me.eid]]
    <3> DEFINE r == [me EXCEPT !.pc = "give back", !.flight = inflight[me.eid]]
    <3>1. inflight[me.eid] \in Flights
      BY <1>3, <2>1, <2>3
    <3>2. r \in Rec /\ r.pc = "give back" /\ r.eid = me.eid /\ r.flight = inflight[me.eid]
      BY <1>1, <3>1 DEF Pcs
    <3>3. caller' = [caller EXCEPT ![c] = r] /\ r.pc \in Holding
      BY <1>1, <2>3, <3>2 DEF TypeOK, Holding
    <3>4. \E d \in Callers : Starter(d) /\ caller[d].flight = r.flight
      BY <1>3, <2>1, <2>3, <3>2
    <3> HIDE DEF r
    <3>. QED BY <1>1, <2>1, <2>3, <3>1, <3>2, <3>3, <3>4, MoveKeeps DEF TypeOK, gate
  <2>. QED BY <1>8, <2>2, <2>3 DEF JoinOrPublish
<1>9. CASE GiveBack(c)
  <2> DEFINE r == [me EXCEPT !.pc = "join"]
  <2>1. /\ me.pc = "give back" /\ UNCHANGED <<inflight, flights, wanted>> /\ ~Starter(c)
        /\ holders' = holders \ {c} /\ urgent' = urgent \ {c} /\ limit' \in Low .. High
        /\ caller' = [caller EXCEPT ![c] = r]
    BY <1>1, <1>9 DEF GiveBack, At, Starter, Goto, Gate!Leave, TypeOK
  <2>2. r \in Rec /\ r.pc = "join" /\ r.eid = me.eid /\ r.flight = me.flight /\ r.pc \notin Holding
    BY <1>1 DEF Pcs, Holding
  <2>3. /\ r.flight \in Flights
        /\ \/ flights[r.flight].done
           \/ \E d \in Callers : Starter(d) /\ caller[d].flight = r.flight
    BY <1>1, <2>1, <2>2 DEF JoinersAreServed
  <2> HIDE DEF r
  <2>. QED BY <1>1, <2>1, <2>2, <2>3, MoveKeeps DEF TypeOK
<1>10. ASSUME NEW res \in {"bytes", "error"}, RemoteRead(c, res) PROVE IInv'
  <2> DEFINE r == [me EXCEPT !.pc = "release", !.got = res]
  <2>1. /\ me.pc = "remote" /\ UNCHANGED <<gate, inflight, flights, wanted>> /\ Starter(c)
        /\ caller' = [caller EXCEPT ![c] = r]
    BY <1>1, <1>10 DEF RemoteRead, At, Starter, TypeOK
  <2>2. r \in Rec /\ r.pc = "release" /\ r.eid = me.eid /\ r.flight = me.flight /\ r.pc \in Holding
    BY <1>1 DEF Pcs, Holding, Results
  <2>3. c \in holders
    BY <1>1, <2>1 DEF Holding
  <2> HIDE DEF r
  <2>. QED BY <1>1, <2>1, <2>2, <2>3, MoveKeeps DEF TypeOK, gate
<1>11. CASE ReleasePermit(c)
  <2> DEFINE r == [me EXCEPT !.pc = "retire"]
  <2>1. /\ me.pc = "release" /\ UNCHANGED <<inflight, wanted>> /\ Starter(c)
        /\ holders' = holders \ {c} /\ urgent' = urgent \ {c} /\ limit' \in Low .. High
        /\ flights' = [flights EXCEPT ![me.flight].result = me.got]
        /\ caller' = [caller EXCEPT ![c] = r]
    BY <1>1, <1>11 DEF ReleasePermit, At, Starter, Goto, Gate!Leave, TypeOK
  <2>2. r \in Rec /\ r.pc = "retire" /\ r.eid = me.eid /\ r.flight = me.flight /\ r.pc \notin Holding
    BY <1>1 DEF Pcs, Holding
  <2>3. /\ flights' \in [Flights -> [done : BOOLEAN, result : Results]]
        /\ \A f \in Flights : flights'[f].done = flights[f].done
    <3>1. flights \in [Flights -> [done : BOOLEAN, result : Results]] /\ me.got \in Results
      BY <1>1 DEF TypeOK
    <3>. QED BY <2>1, <3>1
  <2> HIDE DEF r
  <2>. QED BY <1>1, <2>1, <2>2, <2>3, MoveKeeps DEF TypeOK
<1>12. CASE Joined(c)
  <2> DEFINE r == Returned(flights[me.flight].result)
  <2>1. /\ me.pc = "join" /\ UNCHANGED <<gate, inflight, flights, wanted>> /\ ~Starter(c)
        /\ caller' = [caller EXCEPT ![c] = r]
    BY <1>1, <1>12 DEF Joined, At, Starter, Return
  <2>2. flights[me.flight].result \in Results
    BY <1>1, <2>1 DEF TypeOK, JoinersAreServed
  <2>3. r \in Rec /\ r.pc = "idle"
    BY <1>2, <2>2
  <2>4. r.pc \notin Holding /\ c \notin holders
    BY <1>1, <2>1, <2>3 DEF Holding
  <2> HIDE DEF r
  <2>. QED BY <1>1, <2>1, <2>3, <2>4, MoveKeeps DEF TypeOK, gate
<1>. QED BY <1>4, <1>5, <1>6, <1>7, <1>8, <1>9, <1>10, <1>11, <1>12, RetireKeeps DEF Advance

\* IInv holds throughout, for every set of callers, extents and classes.
THEOREM Invariance == Spec => []IInv
<1>1. IInv /\ [Next]_vars => IInv'
  <2> SUFFICES ASSUME IInv, [Next]_vars PROVE IInv'
    OBVIOUS
  <2>1. ASSUME UNCHANGED <<holders, urgent, inflight, flights, caller>>,
               limit' \in Low .. High, wanted' \in [Extents -> BOOLEAN]
        PROVE  IInv'
    <3>1. TypeOK' /\ StartersPublished' /\ OneFetchPerExtent'
      BY <2>1 DEF IInv, TypeOK, StartersPublished, OneFetchPerExtent, Starter
    <3>2. MapHasStarters' /\ JoinersAreServed'
      <4>1. /\ \A c \in Callers : Starter(c)' <=> Starter(c)
            /\ MapHasStarters /\ JoinersAreServed
        BY <2>1 DEF IInv, Starter
      <4>2. MapHasStarters'
        BY <2>1, <4>1 DEF MapHasStarters
      <4>3. JoinersAreServed'
        BY <2>1, <4>1 DEF JoinersAreServed
      <4>. QED BY <4>2, <4>3
    <3>3. PermitsAreReturned' /\ CallsHaveExtents'
      BY <2>1 DEF IInv, PermitsAreReturned, CallsHaveExtents
    <3>. QED BY <3>1, <3>2, <3>3 DEF IInv
  <2>2. CASE Persistence
    <3>1. wanted' \in [Extents -> BOOLEAN] /\ limit \in Low .. High
      BY <2>2 DEF Persistence, IInv, TypeOK
    <3>. QED BY <2>1, <2>2, <3>1 DEF Persistence, gate
  <2>3. CASE MoveWindow
    BY <2>1, <2>3 DEF MoveWindow, Gate!Adjust, IInv, TypeOK
  <2>4. CASE UNCHANGED vars
    BY <2>1, <2>4 DEF vars, IInv, TypeOK
  <2>. QED BY CallKeeps, <2>2, <2>3, <2>4 DEF Next
<1>. QED BY InitHolds, <1>1, PTL DEF Spec

\* However many callers miss an extent, of whichever class and in whichever
\* order, one of them at a time fetches it (join_or_fetch).
THEOREM FetchesAreSingle == Spec => []OneFetchPerExtent
<1>1. IInv => OneFetchPerExtent
  BY DEF IInv
<1>. QED BY Invariance, <1>1, PTL

\* A caller that waits on an InFlight object waits for a starter that has yet
\* to complete it, or finds it done: no object is retired under its joiners.
THEOREM JoinersNeverStranded == Spec => []JoinersAreServed
<1>1. IInv => JoinersAreServed
  BY DEF IInv
<1>. QED BY Invariance, <1>1, PTL

\* The funnel's permit covers the remote read and the scavenger's second look
\* alone: no call keeps one while it waits for a flight or after it returned.
THEOREM PermitsCoverReads == Spec => []PermitsAreReturned
<1>1. IInv => PermitsAreReturned
  BY DEF IInv
<1>. QED BY Invariance, <1>1, PTL

=============================================================================
