---------------------------- MODULE LayerFetch -----------------------------
(***************************************************************************)
(* LayerStore::join_or_fetch (source/layer_store.cpp): concurrent misses   *)
(* of one extent share one remote fetch, under the device's admission      *)
(* funnel.  The funnel is the abstract gate of SlotGate, which Admission   *)
(* implements; records and state are what LayerStore makes of them, and    *)
(* may change between any two steps.                                       *)
(*                                                                         *)
(* A flight is an InFlight object.  The steps that hold inflight_mu_ are   *)
(* single steps.                                                           *)
(***************************************************************************)
EXTENDS Integers, FiniteSets

CONSTANTS
    Callers,        \* coroutines inside join_or_fetch
    Extents,
    Flights,        \* InFlight objects: one for each caller is enough
    ClassOf,        \* ClassOf[c]: OnDemand (pread) or Prefetch (populate)
    Low, High,      \* range of the admission window
    None

ASSUME FetchAssumption ==
    /\ IsFiniteSet(Callers)
    /\ ClassOf \in [Callers -> {"OnDemand", "Prefetch"}]
    /\ Low \in Nat /\ High \in Nat
    /\ None \notin Flights /\ None \notin Extents

VARIABLES
    holders, urgent, limit, \* the admission funnel
    inflight,               \* inflight_: the published flight of an extent
    flights,                \* [done, result] of each InFlight object
    wanted,                 \* wanted[e]: state_ is Filling and e is not present
    caller                  \* [pc, eid, flight, got]: where each call stands

gate == <<holders, urgent, limit>>

vars == <<holders, urgent, limit, inflight, flights, wanted, caller>>

Gate == INSTANCE SlotGate WITH Clients <- Callers

Returned(r) == [pc |-> "idle", eid |-> None, flight |-> None, got |-> r]

Init ==
    /\ Gate!Init
    /\ inflight = [e \in Extents |-> None]
    /\ flights = [f \in Flights |-> [done |-> FALSE, result |-> None]]
    /\ wanted \in [Extents -> BOOLEAN]
    /\ caller = [c \in Callers |-> Returned(None)]

At(c, pc) == caller[c].pc = pc

Goto(c, pc) == caller' = [caller EXCEPT ![c].pc = pc]

Return(c, r) == caller' = [caller EXCEPT ![c] = Returned(r)]

Unreferenced(f) == \A c \in Callers : caller[c].flight # f

\* The map entry and its object, with c as the starter.
Publish(c, e, pc) ==
    \E f \in Flights :
        /\ Unreferenced(f)
        /\ flights' = [flights EXCEPT ![f] = [done |-> FALSE, result |-> None]]
        /\ inflight' = [inflight EXCEPT ![e] = f]
        /\ caller' = [caller EXCEPT ![c] = [pc |-> pc, eid |-> e, flight |-> f, got |-> None]]

\* Mutant: a scavenger publishes its flight before it is admitted.
LookupPublishesFirst(c, e) ==
    /\ At(c, "idle")
    /\ IF inflight[e] # None
       THEN /\ caller' = [caller EXCEPT ![c] = [pc |-> "join", eid |-> e,
                                                flight |-> inflight[e], got |-> None]]
            /\ UNCHANGED <<inflight, flights>>
       ELSE Publish(c, e, IF ClassOf[c] = "OnDemand" THEN "admit" ELSE "gate")
    /\ UNCHANGED <<gate, wanted>>

\* The first critical section.
Lookup(c, e) ==
    /\ At(c, "idle")
    /\ \/ /\ inflight[e] # None
          /\ caller' = [caller EXCEPT ![c] = [pc |-> "join", eid |-> e,
                                              flight |-> inflight[e], got |-> None]]
          /\ UNCHANGED <<inflight, flights>>
       \/ /\ inflight[e] = None /\ ClassOf[c] = "OnDemand"
          /\ Publish(c, e, "admit")
       \/ /\ inflight[e] = None /\ ClassOf[c] # "OnDemand"
          /\ caller' = [caller EXCEPT ![c] = [pc |-> "gate", eid |-> e,
                                              flight |-> None, got |-> None]]
          /\ UNCHANGED <<inflight, flights>>
    /\ UNCHANGED <<gate, wanted>>

AdmitOnDemand(c) ==
    /\ At(c, "admit")
    /\ Gate!EnterOnDemand(c)
    /\ Goto(c, "remote")
    /\ UNCHANGED <<inflight, flights, wanted>>

AdmitScavenger(c) ==
    /\ At(c, "gate")
    /\ Gate!EnterScavenger(c)
    /\ Goto(c, "recheck")
    /\ UNCHANGED <<inflight, flights, wanted>>

\* acquire_scavenger_bounded gives up.
SkipScavenger(c) ==
    /\ At(c, "gate")
    /\ Return(c, "eagain")
    /\ UNCHANGED <<gate, inflight, flights, wanted>>

\* The extent may have been persisted while the scavenger waited.
Recheck(c) ==
    /\ At(c, "recheck")
    /\ IF wanted[caller[c].eid]
       THEN Goto(c, "publish") /\ UNCHANGED gate
       ELSE Return(c, "nothing") /\ Gate!Leave(c)
    /\ UNCHANGED <<inflight, flights, wanted>>

\* Mutant: the map is not looked up again after the wait.
PublishBlindly(c) ==
    /\ At(c, "publish")
    /\ Publish(c, caller[c].eid, "remote")
    /\ UNCHANGED <<gate, wanted>>

\* The second critical section: join what was issued meanwhile, or publish.
JoinOrPublish(c) ==
    /\ At(c, "publish")
    /\ IF inflight[caller[c].eid] # None
       THEN /\ caller' = [caller EXCEPT ![c].pc = "give back",
                                        ![c].flight = inflight[caller[c].eid]]
            /\ UNCHANGED <<inflight, flights>>
       ELSE Publish(c, caller[c].eid, "remote")
    /\ UNCHANGED <<gate, wanted>>

\* Mutant: the joiner keeps its permit while it waits.
GiveBackNothing(c) ==
    /\ At(c, "give back")
    /\ Goto(c, "join")
    /\ UNCHANGED <<gate, inflight, flights, wanted>>

GiveBack(c) ==
    /\ At(c, "give back")
    /\ Gate!Leave(c)
    /\ Goto(c, "join")
    /\ UNCHANGED <<inflight, flights, wanted>>

\* pread_with_class: the remote answers, short reads count as errors.
RemoteRead(c, r) ==
    /\ At(c, "remote")
    /\ caller' = [caller EXCEPT ![c].pc = "release", ![c].got = r]
    /\ UNCHANGED <<gate, inflight, flights, wanted>>

\* The permit covers the remote read alone; then the result is stored.
ReleasePermit(c) ==
    /\ At(c, "release")
    /\ Gate!Leave(c)
    /\ flights' = [flights EXCEPT ![caller[c].flight].result = caller[c].got]
    /\ Goto(c, "retire")
    /\ UNCHANGED <<inflight, wanted>>

\* Mutant: a failed fetch is retired without waking its joiners.
RetireSilently(c) ==
    /\ At(c, "retire")
    /\ flights' = [flights EXCEPT ![caller[c].flight].done = (caller[c].got # "error")]
    /\ inflight' = [inflight EXCEPT ![caller[c].eid] = None]
    /\ Return(c, caller[c].got)
    /\ UNCHANGED <<gate, wanted>>

\* done.set(), then the erase, in one critical section.
Retire(c) ==
    /\ At(c, "retire")
    /\ flights' = [flights EXCEPT ![caller[c].flight].done = TRUE]
    /\ inflight' = [inflight EXCEPT ![caller[c].eid] = None]
    /\ Return(c, caller[c].got)
    /\ UNCHANGED <<gate, wanted>>

\* f->done.wait() ends.
Joined(c) ==
    /\ At(c, "join") /\ flights[caller[c].flight].done
    /\ Return(c, flights[caller[c].flight].result)
    /\ UNCHANGED <<gate, inflight, flights, wanted>>

(* The writer persists an extent, a reader demotes one, the store completes. *)
Persistence ==
    /\ \E e \in Extents : wanted' = [wanted EXCEPT ![e] = ~ @]
    /\ UNCHANGED <<gate, inflight, flights, caller>>

(* Other users of the funnel move its window. *)
MoveWindow ==
    /\ Gate!Adjust
    /\ UNCHANGED <<inflight, flights, wanted, caller>>

\* The steps of a call under way that wait for nobody but the remote.
Advance(c) ==
    \/ AdmitOnDemand(c) \/ Recheck(c) \/ JoinOrPublish(c) \/ GiveBack(c)
    \/ (\E r \in {"bytes", "error"} : RemoteRead(c, r))
    \/ ReleasePermit(c) \/ Retire(c) \/ Joined(c)

Next ==
    \/ \E c \in Callers : \/ \E e \in Extents : Lookup(c, e)
                          \/ AdmitScavenger(c) \/ SkipScavenger(c) \/ Advance(c)
    \/ Persistence \/ MoveWindow

Spec == Init /\ [][Next]_vars

\* Coroutines run, and the remote read ends (the source bounds it by timeouts).
\* Nothing is assumed of the scavengers' gate: it may stay shut for ever.
LiveSpec == Spec /\ \A c \in Callers : WF_vars(Advance(c))

-----------------------------------------------------------------------------

Pcs == {"idle", "admit", "gate", "recheck", "publish", "give back", "remote",
        "release", "retire", "join"}

Results == {None, "bytes", "error", "eagain", "nothing"}

\* The shape of the state.
TypeOK ==
    /\ holders \subseteq Callers /\ urgent \subseteq holders /\ limit \in Low .. High
    /\ inflight \in [Extents -> Flights \cup {None}]
    /\ flights \in [Flights -> [done : BOOLEAN, result : Results]]
    /\ wanted \in [Extents -> BOOLEAN]
    /\ caller \in [Callers -> [pc : Pcs, eid : Extents \cup {None},
                               flight : Flights \cup {None}, got : Results]]

\* c owns the flight it is about to complete.
Starter(c) == caller[c].pc \in {"admit", "remote", "release", "retire"}

\* pread and populate never fetch an extent twice at once: each starter has its
\* flight in the map, so two starters have different extents, whichever class
\* came first and however long a scavenger waited between its two lookups.
OneFetchPerExtent ==
    \A c, d \in Callers :
        Starter(c) /\ Starter(d) /\ caller[c].eid = caller[d].eid => c = d

\* A guest read returns although the scavengers' gate may never open again.
GuestsReturn ==
    \A c \in Callers : ClassOf[c] = "OnDemand" => (~At(c, "idle") ~> At(c, "idle"))
=============================================================================
