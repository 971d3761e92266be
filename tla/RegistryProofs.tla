--------------------------- MODULE RegistryProofs ---------------------------
(***************************************************************************)
(* Proofs about the registry client's tokens for every number of readers,  *)
(* URLs, revocations and faults: no request carries a token that a data    *)
(* request of its read, or the discovery of its attempt, has seen refused. *)
(*                                                                         *)
(* The argument needs the order in which tokens were published, which no   *)
(* variable records: p maps a generation to the serial number of its token *)
(* and is rising, since exchanges are single-flight.  A read that demands  *)
(* a generation above the refused one then cannot get the same token.      *)
(***************************************************************************)
EXTENDS Registry, TLAPS

Entry == [serial : Nat, generation : Nat, expiry : Nat]

Info == [auth : {"none", "basic", "bearer"}, serial : Nat, generation : Nat, expiry : Nat]

Pcs == {"idle", "attempt", "probe", "probe auth", "token", "await", "exchange", "publish",
        "fail", "set", "set error", "store", "data", "erase", "returned"}

Frame == [pc : Pcs, url : Urls \cup {None}, length : BOOLEAN, attempt : Nat, min : Nat,
          need : Nat, probes : Nat, entry : Entry, info : Info, leader : Readers \cup {None},
          cancelled : BOOLEAN, rejected : SUBSET Nat, refused : SUBSET Nat,
          result : {"none", "ok", "error", "EPERM", "ECANCELED"}]

\* The pcs inside get_token, and those of them that own the flight.
Acquiring == {"token", "await", "exchange", "publish", "fail", "set", "set error"}

Leading == {"exchange", "publish", "fail"}

Newest == tokens.generation

Matches(p, x) == x.generation \in 0 .. Newest /\ x.serial = p[x.generation]

\* What a cached or resolved URL of u says of its token.
InfoOK(p, u, i) ==
    /\ i.generation \in 0 .. Newest
    /\ i.auth = "bearer" => i.serial = p[i.generation] /\ mode[u] # "basic"
    /\ i.auth = "basic" => mode[u] = "basic"

\* Refused tokens are older than the generation demanded after them.
Below(p, serials, g) ==
    /\ \A s \in serials : s <= p[Newest]
    /\ \A h \in 0 .. Newest : p[h] \in serials => h < g

ActiveOK(p, f) ==
    /\ f.url \in Urls /\ f.min <= Newest + 1 /\ Below(p, f.rejected, f.min)
    /\ mode[f.url] = "basic" => f.rejected = {}

AcquiringOK(p, f) ==
    /\ f.info.auth = "bearer" /\ mode[f.url] # "basic"
    /\ f.min <= f.need /\ f.need <= Newest + 1 /\ Below(p, f.refused, f.need)

\* The frame of one read; n is the number of tokens the server has issued.
FrameOK(p, f, n) ==
    /\ f.pc = "idle" => f = Idle
    /\ f.pc \notin {"idle", "returned"} => ActiveOK(p, f)
    /\ f.pc \in {"attempt", "probe", "erase"} => f.refused = {}
    /\ f.pc \in Acquiring => AcquiringOK(p, f)
    /\ f.pc = "probe auth" =>
          \/ f.info.auth = "basic" /\ mode[f.url] = "basic"
          \/ AcquiringOK(p, f) /\ Matches(p, f.entry) /\ f.need <= f.entry.generation
    /\ f.pc = "set" => Matches(p, f.entry) /\ f.need <= f.entry.generation
    /\ f.pc = "publish" => p[Newest] < f.entry.serial /\ f.entry.serial <= n
    /\ f.pc \in {"store", "data"} =>
          /\ InfoOK(p, f.url, f.info)
          /\ f.info.auth = "bearer" =>
                f.min <= f.info.generation /\ f.info.serial \notin f.refused
    /\ f.leader # None => f.pc = "await"

Types ==
    /\ now \in Nat /\ serial \in Nat /\ tokens \in Entry /\ mode \in [Urls -> Modes]
    /\ url_infos \in [Urls -> Info] /\ flights \in Readers \cup {None}
    /\ reader \in [Readers -> Frame]

Inv(p) ==
    /\ Types
    /\ \A g, h \in 0 .. Newest : g < h => p[g] < p[h]
    /\ tokens.serial = p[Newest] /\ p[Newest] <= serial
    /\ \A u \in Urls : InfoOK(p, u, url_infos[u])
    /\ \A r \in Readers : FrameOK(p, reader[r], serial)
    /\ \A r \in Readers : reader[r].pc \in Leading => flights = r

IInv == \E p \in [Nat -> Nat] : Inv(p)

-----------------------------------------------------------------------------

LEMMA IdleTyped == Idle \in Frame /\ Idle.pc = "idle" /\ Idle.leader = None
  BY DEF Idle, Frame, Pcs, NoEntry, Entry, NoInfo, Info

LEMMA InitHolds == Init => IInv
<1> SUFFICES ASSUME Init PROVE IInv
  OBVIOUS
<1> DEFINE p == [g \in Nat |-> 0]
<1>1. tokens \in Entry /\ Newest = 0 /\ tokens.serial = 0
  BY DEF Init, NoEntry, Entry, Newest
<1>2. NoInfo \in Info /\ NoInfo.generation = 0 /\ NoInfo.auth = "none"
  BY DEF NoInfo, Info
<1>3. Types
  BY <1>1, <1>2, IdleTyped, RegistryAssumption DEF Init, Types
<1>4. \A u \in Urls : InfoOK(p, u, url_infos[u])
  BY <1>1, <1>2 DEF Init, InfoOK
<1>5. \A r \in Readers : reader[r] = Idle
  BY Zenon DEF Init
<1>6. \A r \in Readers : FrameOK(p, reader[r], serial)
  BY <1>5, IdleTyped, Zenon DEF FrameOK, Acquiring
<1>7. \A r \in Readers : reader[r].pc \in Leading => flights = r
  BY <1>5, IdleTyped DEF Leading
<1>8. Inv(p)
  BY <1>1, <1>3, <1>4, <1>6, <1>7 DEF Inv, Init
<1>. QED BY <1>8 DEF IInv

(* A step of one read that publishes no token. *)
LEMMA FrameKeeps ==
    ASSUME NEW p \in [Nat -> Nat], Inv(p), NEW r \in Readers, NEW f \in Frame,
           reader' = [reader EXCEPT ![r] = f], UNCHANGED <<now, mode, tokens>>,
           url_infos' \in [Urls -> Info], \A u \in Urls : InfoOK(p, u, url_infos'[u]),
           serial' \in Nat, serial <= serial', flights' \in Readers \cup {None},
           FrameOK(p, f, serial'),
           f.pc \in Leading => flights' = r,
           \A q \in Readers \ {r} : reader[q].pc \in Leading => flights' = q
    PROVE  Inv(p)'
<1>1. Types'
  BY DEF Inv, Types
<1>2. /\ Newest' = Newest /\ Newest \in Nat /\ p[Newest] \in Nat
      /\ reader'[r] = f /\ \A q \in Readers \ {r} : reader'[q] = reader[q]
  BY DEF Inv, Types, Newest, Entry
<1>3. \A u \in Urls : InfoOK(p, u, url_infos[u])'
  BY <1>2 DEF InfoOK
<1>4. ASSUME NEW q \in Readers PROVE FrameOK(p, reader[q], serial)'
  <2>1. CASE q = r
    BY <2>1, <1>2, Zenon DEF FrameOK, ActiveOK, AcquiringOK, Below, Matches, InfoOK
  <2>2. CASE q # r
    <3>1. FrameOK(p, reader[q], serial) /\ reader'[q] = reader[q] /\ reader[q].entry.serial \in Nat
      BY <2>2, <1>2 DEF Inv, Types, Frame, Entry
    <3>2. reader[q].pc = "publish" => reader[q].entry.serial <= serial'
      <4>1. serial \in Nat
        BY DEF Inv, Types
      <4>2. reader[q].pc = "publish" => reader[q].entry.serial <= serial
        BY <3>1, Zenon DEF FrameOK
      <4>. QED BY <3>1, <4>1, <4>2
    <3>3. FrameOK(p, reader[q], serial')
      BY <3>1, <3>2, Zenon DEF FrameOK
    <3>. QED BY <3>1, <3>3, <1>2, Zenon DEF FrameOK, ActiveOK, AcquiringOK, Below, Matches, InfoOK
  <2>. QED BY <2>1, <2>2
<1>5. \A q \in Readers : reader'[q].pc \in Leading => flights' = q
  BY <1>2
<1>6. /\ \A g, h \in 0 .. Newest' : g < h => p[g] < p[h]
      /\ tokens'.serial = p[Newest'] /\ p[Newest'] <= serial'
  BY <1>2 DEF Inv, Types
<1>. QED BY <1>1, <1>3, <1>4, <1>5, <1>6 DEF Inv

(* The same where the caches and the server are left alone. *)
LEMMA QuietKeeps ==
    ASSUME NEW p \in [Nat -> Nat], Inv(p), NEW r \in Readers, NEW f \in Frame,
           reader' = [reader EXCEPT ![r] = f], UNCHANGED <<now, Caches, Server>>,
           FrameOK(p, f, serial), f.pc \notin Leading
    PROVE  Inv(p)'
<1>1. /\ UNCHANGED <<now, mode, tokens>> /\ url_infos' = url_infos /\ serial' = serial /\ flights' = flights
  BY DEF Caches, Server
<1>2. /\ url_infos \in [Urls -> Info] /\ \A u \in Urls : InfoOK(p, u, url_infos[u])
      /\ serial \in Nat /\ serial <= serial /\ flights \in Readers \cup {None}
      /\ \A q \in Readers : reader[q].pc \in Leading => flights = q
  BY DEF Inv, Types
<1>. QED BY <1>1, <1>2, FrameKeeps, Zenon

(* A read that ends. *)
LEMMA ReturnedTyped ==
    ASSUME NEW f \in Frame, NEW res \in {"none", "ok", "error", "EPERM", "ECANCELED"}
    PROVE  /\ Returned(f, res) \in Frame /\ Returned(f, res).pc = "returned"
           /\ Returned(f, res).leader = None
  BY IdleTyped, Zenon DEF Returned, Idle, Frame, Pcs

LEMMA ReturnedOK ==
    ASSUME NEW p \in [Nat -> Nat], NEW f \in Frame,
           NEW res \in {"none", "ok", "error", "EPERM", "ECANCELED"}, NEW n
    PROVE  /\ Returned(f, res) \in Frame /\ FrameOK(p, Returned(f, res), n)
           /\ Returned(f, res).pc \notin Leading
  BY ReturnedTyped, Zenon DEF FrameOK, Acquiring, Leading

(* The frame after a resolution. *)
LEMMA SettledTyped ==
    ASSUME NEW f \in Frame
    PROVE  /\ Settled(f) \in Frame /\ Settled(f).pc = f.pc /\ Settled(f).url = f.url
           /\ Settled(f).min = f.min /\ Settled(f).rejected = f.rejected
           /\ Settled(f).refused = f.refused /\ Settled(f).leader = f.leader
           /\ Settled(f).attempt = f.attempt
  BY Zenon DEF Settled, Frame, NoEntry, Entry, NoInfo, Info

LEMMA RetryOK ==
    ASSUME NEW p \in [Nat -> Nat], Inv(p), NEW f \in Frame, NEW erase \in BOOLEAN,
           NEW min \in Nat, NEW error \in {"error", "EPERM"},
           f.leader = None, ActiveOK(p, [f EXCEPT !.min = min])
    PROVE  /\ Retry(f, erase, min, error) \in Frame
           /\ FrameOK(p, Retry(f, erase, min, error), serial)
           /\ Retry(f, erase, min, error).pc \notin Leading
<1>1. CASE Last(f) /\ ~ erase
  BY <1>1, ReturnedOK DEF Retry
<1>2. CASE ~ (Last(f) /\ ~ erase)
  <2> DEFINE t == IF erase THEN "erase" ELSE "attempt"
             res == IF Last(f) THEN error ELSE "none"
             s == [Settled(f) EXCEPT !.pc = t, !.attempt = @ + 1, !.min = min,
                       !.refused = {}, !.result = res]
  <2>1. Retry(f, erase, min, error) = s
    BY <1>2 DEF Retry
  <2>2. t \in Pcs /\ res \in {"none", "ok", "error", "EPERM", "ECANCELED"} /\ Settled(f).attempt + 1 \in Nat
    <3>1. Settled(f).attempt = f.attempt /\ f.attempt \in Nat
      BY SettledTyped DEF Frame
    <3>2. t \in Pcs
      BY DEF Pcs
    <3>. QED BY <3>1, <3>2
  <2>3. /\ s \in Frame /\ s.pc \in {"erase", "attempt"} /\ s.refused = {} /\ s.leader = None
        /\ s.url = f.url /\ s.min = min /\ s.rejected = f.rejected
    <3>1. {} \in SUBSET Nat
      OBVIOUS
    <3>. QED BY <3>1, SettledTyped, <2>2, Zenon DEF Frame
  <2>4. ActiveOK(p, s)
    <3>1. /\ [f EXCEPT !.min = min].url = f.url /\ [f EXCEPT !.min = min].min = min
          /\ [f EXCEPT !.min = min].rejected = f.rejected
      BY DEF Frame
    <3>. QED BY <2>3, <3>1 DEF ActiveOK
  <2> HIDE DEF s
  <2>5. FrameOK(p, s, serial) /\ s.pc \notin Leading
    BY <2>3, <2>4, Zenon DEF FrameOK, Acquiring, Leading
  <2>. QED BY <2>1, <2>3, <2>5
<1>. QED BY <1>1, <1>2

(* get_data and get_length. *)
LEMMA DataSteps ==
    ASSUME NEW p \in [Nat -> Nat], Inv(p), NEW r \in Readers,
           DataArrives(r) \/ DataRefused(r) \/ DataFails(r)
    PROVE  Inv(p)'
<1> DEFINE me == reader[r]
           info == me.info
<1>1. /\ me \in Frame /\ me.pc = "data" /\ FrameOK(p, me, serial)
      /\ UNCHANGED <<now, Caches, Server>>
  BY Zenon DEF Inv, Types, DataArrives, DataRefused, DataFails, At
<1>2. /\ ActiveOK(p, me) /\ InfoOK(p, me.url, info) /\ me.leader = None
      /\ (info.auth = "bearer" => me.min <= info.generation)
  BY <1>1 DEF FrameOK
<1>3. /\ \A g, h \in 0 .. Newest : g < h => p[g] < p[h]
      /\ Newest \in Nat /\ info.generation \in Nat /\ info.serial \in Nat /\ me.min \in Nat
      /\ info.generation \in 0 .. Newest /\ me.length \in BOOLEAN
  BY <1>1, <1>2 DEF Inv, Types, Newest, Entry, InfoOK, Frame, Info
<1>4. ASSUME NEW res \in {"none", "ok", "error", "EPERM", "ECANCELED"}, Return(r, res)
      PROVE  Inv(p)'
  <2>1. reader' = [reader EXCEPT ![r] = Returned(me, res)]
    BY <1>4 DEF Return
  <2>. QED BY <1>1, <2>1, ReturnedOK, QuietKeeps, Zenon
<1>5. ASSUME NEW f \in Frame, NEW erase \in BOOLEAN, NEW min \in Nat, NEW error \in {"error", "EPERM"},
             f.leader = None, ActiveOK(p, [f EXCEPT !.min = min]),
             reader' = [reader EXCEPT ![r] = Retry(f, erase, min, error)]
      PROVE  Inv(p)'
  <2> DEFINE s == Retry(f, erase, min, error)
  <2>1. s \in Frame /\ FrameOK(p, s, serial) /\ s.pc \notin Leading
    BY <1>5, RetryOK
  <2> HIDE DEF s
  <2>2. reader' = [reader EXCEPT ![r] = s]
    BY <1>5 DEF s
  <2>. QED BY <1>1, <2>1, <2>2, QuietKeeps, Zenon
<1>6. CASE DataArrives(r)
  BY <1>4, <1>6 DEF DataArrives
<1>7. CASE DataRefused(r)
  <2> DEFINE f == [me EXCEPT !.rejected = @ \cup {info.serial}]
             g == info.generation + 1
             t == [f EXCEPT !.min = g]
  <2>1. /\ info.auth = "bearer"
        /\ reader' = [reader EXCEPT ![r] = Retry(f, ~ f.length, g, "EPERM")]
    BY <1>7 DEF DataRefused
  <2>2. /\ f \in Frame /\ f.leader = None /\ g \in Nat /\ (~ f.length) \in BOOLEAN
        /\ t.url = me.url /\ t.min = g /\ t.rejected = me.rejected \cup {info.serial}
    <3>1. f \in Frame /\ f.leader = me.leader
      BY <1>1, <1>3 DEF Frame
    <3>2. g \in Nat /\ (~ f.length) \in BOOLEAN
      BY <1>3
    <3>3. t.url = me.url /\ t.min = g /\ t.rejected = me.rejected \cup {info.serial}
      BY <1>1 DEF Frame
    <3>. QED BY <1>2, <3>1, <3>2, <3>3
  <2>3. info.serial = p[info.generation] /\ mode[me.url] # "basic" /\ me.min <= info.generation
    BY <1>2, <2>1 DEF InfoOK
  <2>4. /\ \A s \in me.rejected : s <= p[Newest]
        /\ \A h \in 0 .. Newest : p[h] \in me.rejected => h < me.min
    BY <1>2 DEF ActiveOK, Below
  <2>5. p[info.generation] <= p[Newest]
    BY <1>3
  <2>6. \A h \in 0 .. Newest : p[h] = p[info.generation] => h = info.generation
    BY <1>3
  <2>7. Below(p, t.rejected, g)
    <3>1. \A s \in t.rejected : s <= p[Newest]
      BY <2>2, <2>3, <2>4, <2>5
    <3>2. \A h \in 0 .. Newest : p[h] \in t.rejected => h < g
      BY <2>2, <2>3, <2>4, <2>6, <1>3
    <3>. QED BY <3>1, <3>2 DEF Below
  <2>8. ActiveOK(p, t)
    BY <1>2, <1>3, <2>2, <2>3, <2>7 DEF ActiveOK
  <2> HIDE DEF f
  <2>. QED BY <1>5, <2>1, <2>2, <2>8, Zenon
<1>8. CASE DataFails(r)
  <2> DEFINE m == IF info.auth = "basic" THEN info.generation + 1 ELSE me.min
  <2>1. [me EXCEPT !.min = me.min] = me
    BY <1>1 DEF Frame
  <2>2. m \in Nat
    BY <1>3
  <2>3. ActiveOK(p, [me EXCEPT !.min = m])
    <3>1. CASE info.auth = "basic"
      <4>1. mode[me.url] = "basic" /\ me.rejected = {}
        BY <1>2, <3>1 DEF InfoOK, ActiveOK
      <4>2. /\ [me EXCEPT !.min = m].url = me.url /\ [me EXCEPT !.min = m].min = info.generation + 1
            /\ [me EXCEPT !.min = m].rejected = {}
        BY <1>1, <3>1, <4>1 DEF Frame
      <4>. QED BY <1>2, <1>3, <4>1, <4>2 DEF ActiveOK, Below
    <3>2. CASE info.auth # "basic"
      BY <1>2, <2>1, <3>2
    <3>. QED BY <3>1, <3>2
  <2>4. \/ reader' = [reader EXCEPT ![r] = Retry(me, TRUE, m, "EPERM")]
        \/ reader' = [reader EXCEPT ![r] = Retry(me, TRUE, me.min, "error")]
        \/ reader' = [reader EXCEPT ![r] = Retry(me, FALSE, me.min, "error")]
        \/ Return(r, "ECANCELED") \/ Return(r, "error")
    BY <1>8, Zenon DEF DataFails, Fails
  <2> HIDE DEF m
  <2>5. CASE reader' = [reader EXCEPT ![r] = Retry(me, TRUE, m, "EPERM")]
    BY <1>1, <1>2, <1>5, <2>2, <2>3, <2>5, Zenon
  <2>6. ASSUME NEW erase \in BOOLEAN, reader' = [reader EXCEPT ![r] = Retry(me, erase, me.min, "error")]
        PROVE  Inv(p)'
    <3>1. ActiveOK(p, [me EXCEPT !.min = me.min])
      BY <1>2, <2>1
    <3>. QED BY <1>1, <1>2, <1>3, <1>5, <2>6, <3>1, Zenon
  <2>7. CASE Return(r, "ECANCELED") \/ Return(r, "error")
    BY <1>4, <2>7
  <2>. QED BY <2>4, <2>5, <2>6, <2>7, Zenon
<1>. QED BY <1>6, <1>7, <1>8

(* resolve ends with an answer about the URL. *)
LEMMA ResolvedOK ==
    ASSUME NEW p \in [Nat -> Nat], Inv(p), NEW r \in Readers, NEW i \in Info,
           reader[r].pc \notin {"idle", "returned"}, reader[r].leader = None,
           ActiveOK(p, reader[r]), InfoOK(p, reader[r].url, i),
           i.auth = "bearer" =>
              reader[r].min <= i.generation /\ i.serial \notin reader[r].refused,
           Resolved(r, i)
    PROVE  \E f \in Frame : /\ reader' = [reader EXCEPT ![r] = f]
                            /\ FrameOK(p, f, serial) /\ f.pc \notin Leading
<1> DEFINE me == reader[r]
<1>1. me \in Frame
  BY DEF Inv, Types
<1>2. CASE me.cancelled
  <2>1. reader' = [reader EXCEPT ![r] = Returned(me, "ECANCELED")]
    BY <1>2 DEF Resolved, Return
  <2>. QED BY <1>1, <2>1, ReturnedOK, Zenon
<1>3. CASE ~ me.cancelled
  <2> DEFINE f == [Settled(me) EXCEPT !.pc = "data", !.info = i]
  <2>1. reader' = [reader EXCEPT ![r] = f]
    BY <1>3 DEF Resolved
  <2>2. /\ f \in Frame /\ f.pc = "data" /\ f.info = i /\ f.url = me.url /\ f.min = me.min
        /\ f.rejected = me.rejected /\ f.refused = me.refused /\ f.leader = None
    <3> DEFINE t == Settled(me)
    <3>1. /\ t \in Frame /\ t.url = me.url /\ t.min = me.min /\ t.rejected = me.rejected
          /\ t.refused = me.refused /\ t.leader = None
      BY <1>1, SettledTyped
    <3> HIDE DEF t
    <3>2. /\ [t EXCEPT !.pc = "data", !.info = i] \in Frame
          /\ \A v \in {[t EXCEPT !.pc = "data", !.info = i]} :
               /\ v.pc = "data" /\ v.info = i /\ v.url = t.url /\ v.min = t.min
               /\ v.rejected = t.rejected /\ v.refused = t.refused /\ v.leader = t.leader
      BY <3>1, Zenon DEF Frame, Pcs
    <3>. QED BY <3>1, <3>2 DEF t
  <2> HIDE DEF f
  <2>3. ActiveOK(p, f)
    BY <2>2 DEF ActiveOK
  <2>4. FrameOK(p, f, serial) /\ f.pc \notin Leading
    BY <2>2, <2>3 DEF FrameOK, Acquiring, Leading
  <2>. QED BY <2>1, <2>2, <2>4, Zenon
<1>. QED BY <1>1, <1>2, <1>3

LEMMA LookupSteps ==
    ASSUME NEW p \in [Nat -> Nat], Inv(p), NEW r \in Readers,
           \/ Begin(r) \/ Again(r) \/ Lookup(r) \/ Probe(r) \/ ProbeFails(r)
    PROVE  Inv(p)'
<1> DEFINE me == reader[r]
<1>1. /\ me \in Frame /\ FrameOK(p, me, serial) /\ UNCHANGED <<now, Caches, Server>>
      /\ Newest \in Nat /\ mode \in [Urls -> Modes]
  BY Zenon DEF Inv, Types, Newest, Entry, Begin, Again, Lookup, Probe, ProbeFails
<1>2. CASE Begin(r)
  <2>1. PICK read \in Reads : reader' = [reader EXCEPT ![r].pc = "attempt", ![r].url = read.url,
                                                       ![r].length = read.length]
    BY <1>2, Zenon DEF Begin
  <2> DEFINE f == [me EXCEPT !.pc = "attempt", !.url = read.url, !.length = read.length]
  <2>2. me = Idle /\ read.url \in Urls /\ read.length \in BOOLEAN
    BY <1>1, <1>2, RegistryAssumption, Zenon DEF Begin, At, FrameOK
  <2>3. /\ f \in Frame /\ f.pc = "attempt" /\ f.url = read.url /\ f.min = 0 /\ f.rejected = {}
        /\ f.refused = {} /\ f.leader = None
    <3>1. me.min = 0 /\ me.rejected = {} /\ me.refused = {} /\ me.leader = None
      BY <2>2 DEF Idle
    <3>. QED BY <1>1, <2>2, <3>1, Zenon DEF Frame, Pcs
  <2>4. reader' = [reader EXCEPT ![r] = f]
    BY <2>1, Zenon DEF Inv, Types
  <2> HIDE DEF f
  <2>5. FrameOK(p, f, serial) /\ f.pc \notin Leading
    <3>1. Below(p, f.rejected, f.min)
      BY <2>3 DEF Below
    <3>2. ActiveOK(p, f)
      BY <1>1, <2>2, <2>3, <3>1 DEF ActiveOK
    <3>. QED BY <2>3, <3>2 DEF FrameOK, Acquiring, Leading
  <2>. QED BY <1>1, <2>3, <2>4, <2>5, QuietKeeps, Zenon
<1>3. CASE Again(r)
  <2>1. reader' = [reader EXCEPT ![r] = Idle]
    BY <1>3 DEF Again
  <2>2. FrameOK(p, Idle, serial) /\ Idle.pc \notin Leading
    BY IdleTyped DEF FrameOK, Acquiring, Leading
  <2>. QED BY <1>1, <2>1, <2>2, IdleTyped, QuietKeeps, Zenon
<1>4. CASE Lookup(r)
  <2> DEFINE i == url_infos[me.url]
  <2>1. /\ me.pc = "attempt" /\ ActiveOK(p, me) /\ me.refused = {} /\ me.leader = None
        /\ me.url \in Urls
    BY <1>1, <1>4 DEF Lookup, At, FrameOK, ActiveOK
  <2>2. i \in Info /\ InfoOK(p, me.url, i)
    BY <2>1 DEF Inv, Types
  <2>3. CASE me.cancelled
    <3>1. reader' = [reader EXCEPT ![r] = Returned(me, "ECANCELED")]
      BY <1>4, <2>3 DEF Lookup, Return
    <3>. QED BY <1>1, <3>1, ReturnedOK, QuietKeeps, Zenon
  <2>4. CASE i.generation >= me.min /\ Resolved(r, i)
    <3>1. me.min <= i.generation
      BY <1>1, <2>2, <2>4 DEF Frame, Info
    <3>2. PICK f \in Frame : /\ reader' = [reader EXCEPT ![r] = f]
                             /\ FrameOK(p, f, serial) /\ f.pc \notin Leading
      BY <2>1, <2>2, <2>4, <3>1, ResolvedOK
    <3>. QED BY <1>1, <3>2, QuietKeeps, Zenon
  <2>5. CASE Goto(r, "probe")
    <3> DEFINE f == [me EXCEPT !.pc = "probe"]
    <3>1. /\ f \in Frame /\ f.pc = "probe" /\ f.url = me.url /\ f.min = me.min
          /\ f.rejected = me.rejected /\ f.refused = {} /\ f.leader = None
          /\ reader' = [reader EXCEPT ![r] = f]
      BY <1>1, <2>1, <2>5, Zenon DEF Frame, Pcs, Goto, Inv, Types
    <3> HIDE DEF f
    <3>2. FrameOK(p, f, serial) /\ f.pc \notin Leading
      BY <2>1, <3>1 DEF FrameOK, ActiveOK, Acquiring, Leading
    <3>. QED BY <1>1, <3>1, <3>2, QuietKeeps, Zenon
  <2>. QED BY <1>4, <2>3, <2>4, <2>5 DEF Lookup
<1>5. CASE Probe(r)
  <2> DEFINE m == mode[me.url]
  <2>1. /\ me.pc = "probe" /\ ActiveOK(p, me) /\ me.refused = {} /\ me.leader = None
        /\ me.url \in Urls
    BY <1>1, <1>5, Zenon DEF Probe, At, FrameOK, ActiveOK
  <2>2. NoInfo \in Info /\ NoInfo.auth = "none" /\ NoInfo.generation = 0 /\ now + UrlLife \in Nat
    BY RegistryAssumption DEF NoInfo, Info, Inv, Types
  <2>3. CASE m \in {"open", "open redirect"}
    <3> DEFINE i == [NoInfo EXCEPT !.expiry = now + UrlLife]
               f == [me EXCEPT !.pc = "store", !.info = i]
    <3>1. i \in Info /\ i.auth = "none" /\ i.generation = 0
      BY <2>2 DEF Info
    <3>2. reader' = [reader EXCEPT ![r] = f]
      BY <1>5, <2>3, Zenon DEF Probe
    <3> HIDE DEF i
    <3>3. /\ f \in Frame /\ f.pc = "store" /\ f.url = me.url /\ f.min = me.min /\ f.info = i
          /\ f.rejected = me.rejected /\ f.leader = None
      BY <1>1, <2>1, <3>1, Zenon DEF Frame, Pcs
    <3> HIDE DEF f
    <3>4. FrameOK(p, f, serial) /\ f.pc \notin Leading
      BY <1>1, <2>1, <3>1, <3>3 DEF FrameOK, ActiveOK, InfoOK, Acquiring, Leading
    <3>. QED BY <1>1, <3>2, <3>3, <3>4, QuietKeeps, Zenon
  <2>4. CASE m = "basic"
    <3> DEFINE i == [NoInfo EXCEPT !.auth = "basic"]
               f == [me EXCEPT !.pc = "probe auth", !.info = i]
    <3>1. i \in Info /\ i.auth = "basic"
      BY <2>2 DEF Info
    <3>2. reader' = [reader EXCEPT ![r] = f]
      BY <1>5, <2>4 DEF Probe
    <3> HIDE DEF i
    <3>3. /\ f \in Frame /\ f.pc = "probe auth" /\ f.url = me.url /\ f.min = me.min /\ f.info = i
          /\ f.rejected = me.rejected /\ f.leader = None
      BY <1>1, <2>1, <3>1, Zenon DEF Frame, Pcs
    <3> HIDE DEF f
    <3>4. FrameOK(p, f, serial) /\ f.pc \notin Leading
      BY <1>1, <2>1, <2>4, <3>1, <3>3, Zenon DEF FrameOK, ActiveOK, Acquiring, Leading
    <3>. QED BY <1>1, <3>2, <3>3, <3>4, QuietKeeps, Zenon
  <2>5. CASE m \notin {"open", "open redirect", "basic"}
    <3> DEFINE i == [NoInfo EXCEPT !.auth = "bearer"]
               f == [me EXCEPT !.pc = "token", !.need = me.min, !.probes = 0, !.info = i]
    <3>1. i \in Info /\ i.auth = "bearer"
      BY <2>2 DEF Info
    <3>2. reader' = [reader EXCEPT ![r] = f]
      BY <1>5, <2>5, Zenon DEF Probe
    <3> HIDE DEF i
    <3>3. /\ f \in Frame /\ f.pc = "token" /\ f.url = me.url /\ f.min = me.min /\ f.info = i
          /\ f.rejected = me.rejected /\ f.leader = None /\ f.need = me.min /\ f.refused = {}
          /\ me.min \in Nat
      BY <1>1, <2>1, <3>1, Zenon DEF Frame, Pcs
    <3> HIDE DEF f
    <3>4. AcquiringOK(p, f)
      <4>1. me.min <= me.min /\ me.min <= Newest + 1
        BY <2>1, <3>3 DEF ActiveOK
      <4>2. Below(p, f.refused, f.need)
        BY <3>3 DEF Below
      <4>3. mode[f.url] # "basic" /\ f.info.auth = "bearer"
        BY <2>5, <3>1, <3>3, Zenon
      <4>. QED BY <3>3, <4>1, <4>2, <4>3 DEF AcquiringOK
    <3>5. FrameOK(p, f, serial) /\ f.pc \notin Leading
      BY <2>1, <3>3, <3>4 DEF FrameOK, ActiveOK, Leading
    <3>. QED BY <1>1, <3>2, <3>3, <3>5, QuietKeeps, Zenon
  <2>. QED BY <2>3, <2>4, <2>5, Zenon
<1>6. CASE ProbeFails(r)
  <2>1. \/ reader' = [reader EXCEPT ![r] = Returned(me, "ECANCELED")]
        \/ reader' = [reader EXCEPT ![r] = Returned(me, "error")]
    BY <1>6, Zenon DEF ProbeFails, Fails, Return
  <2>. QED BY <1>1, <2>1, ReturnedOK, QuietKeeps, Zenon
<1>. QED BY <1>2, <1>3, <1>4, <1>5, <1>6

(* The shared cache of URLs is written. *)
LEMMA UrlSteps ==
    ASSUME NEW p \in [Nat -> Nat], Inv(p), NEW r \in Readers, Erase(r) \/ Store(r)
    PROVE  Inv(p)'
<1> DEFINE me == reader[r]
           i == IF me.pc = "erase" THEN NoInfo ELSE me.info
<1>1. /\ me \in Frame /\ FrameOK(p, me, serial) /\ UNCHANGED <<now, mode, tokens>>
      /\ serial' = serial /\ serial \in Nat /\ flights' = flights /\ flights \in Readers \cup {None}
      /\ Newest \in Nat /\ url_infos \in [Urls -> Info]
      /\ me.pc \in {"erase", "store"}
  BY DEF Inv, Types, Newest, Entry, Erase, Store, Server, At
<1>2. ActiveOK(p, me) /\ me.url \in Urls /\ me.leader = None
  BY <1>1, Zenon DEF FrameOK, ActiveOK
<1>3. NoInfo \in Info /\ InfoOK(p, me.url, NoInfo)
  <2>1. NoInfo \in Info /\ NoInfo.auth = "none" /\ NoInfo.generation = 0
    BY DEF NoInfo, Info
  <2>. QED BY <1>1, <2>1 DEF InfoOK
<1>4. i \in Info /\ InfoOK(p, me.url, i) /\ url_infos' = [url_infos EXCEPT ![me.url] = i]
  <2>1. CASE Erase(r)
    BY <1>3, <2>1 DEF Erase, At
  <2>2. CASE Store(r)
    <3>1. me.pc = "store" /\ i = me.info /\ url_infos' = [url_infos EXCEPT ![me.url] = i]
      BY <2>2 DEF Store, At
    <3>. QED BY <1>1, <3>1 DEF FrameOK, Frame
  <2>. QED BY <2>1, <2>2
<1> HIDE DEF i
<1>5. /\ url_infos' \in [Urls -> Info] /\ \A u \in Urls : InfoOK(p, u, url_infos'[u])
  BY <1>1, <1>2, <1>4 DEF Inv
<1>6. \E f \in Frame : /\ reader' = [reader EXCEPT ![r] = f]
                       /\ FrameOK(p, f, serial) /\ f.pc \notin Leading
  <2>1. CASE Erase(r) /\ me.result = "none"
    <3> DEFINE f == [me EXCEPT !.pc = "attempt"]
    <3>1. me.refused = {}
      BY <1>1, <2>1 DEF Erase, At, FrameOK
    <3>2. /\ f \in Frame /\ f.pc = "attempt" /\ f.url = me.url /\ f.min = me.min
          /\ f.rejected = me.rejected /\ f.refused = {} /\ f.leader = None
      BY <1>1, <1>2, <3>1, Zenon DEF Frame, Pcs
    <3>3. reader' = [reader EXCEPT ![r] = f]
      BY <2>1 DEF Erase, Goto, Inv, Types
    <3> HIDE DEF f
    <3>4. FrameOK(p, f, serial) /\ f.pc \notin Leading
      BY <1>2, <3>2 DEF FrameOK, ActiveOK, Acquiring, Leading
    <3>. QED BY <3>2, <3>3, <3>4, Zenon
  <2>2. CASE Erase(r) /\ me.result # "none"
    <3>1. reader' = [reader EXCEPT ![r] = Returned(me, me.result)]
      BY <2>2 DEF Erase, Return
    <3>2. me.result \in {"none", "ok", "error", "EPERM", "ECANCELED"}
      BY <1>1 DEF Frame
    <3>. QED BY <1>1, <3>1, <3>2, ReturnedOK, Zenon
  <2>3. CASE Store(r)
    <3>1. /\ me.pc = "store" /\ InfoOK(p, me.url, me.info) /\ Resolved(r, me.info)
          /\ me.info.auth = "bearer" =>
                me.min <= me.info.generation /\ me.info.serial \notin me.refused
          /\ me.info \in Info
      BY <1>1, <2>3 DEF Store, At, FrameOK, Frame
    <3>. QED BY <1>2, <3>1, ResolvedOK
  <2>. QED BY <2>1, <2>2, <2>3
<1>7. PICK f \in Frame : /\ reader' = [reader EXCEPT ![r] = f]
                         /\ FrameOK(p, f, serial) /\ f.pc \notin Leading
  BY <1>6, Zenon
<1>8. \A q \in Readers : reader[q].pc \in Leading => flights' = q
  BY <1>1 DEF Inv
<1>9. serial <= serial' /\ serial' \in Nat /\ flights' \in Readers \cup {None}
      /\ FrameOK(p, f, serial')
  BY <1>1, <1>7
<1>. QED BY <1>1, <1>5, <1>7, <1>8, <1>9, FrameKeeps, Zenon

(* The discovery with a token or a password. *)
LEMMA ProbeSteps ==
    ASSUME NEW p \in [Nat -> Nat], Inv(p), NEW r \in Readers, ProbeAccepted(r) \/ ProbeRefused(r)
    PROVE  Inv(p)'
<1> DEFINE me == reader[r]
           entry == me.entry
           bearer == me.info.auth = "bearer"
<1>1. /\ me \in Frame /\ FrameOK(p, me, serial) /\ UNCHANGED <<now, Caches, Server>>
      /\ me.pc = "probe auth"
  BY Zenon DEF Inv, Types, ProbeAccepted, ProbeRefused, At
<1>6. Newest \in Nat /\ p[Newest] \in Nat
  BY DEF Inv, Types, Newest, Entry
<1>7. now + UrlLife \in Nat
  <2>1. now \in Nat /\ UrlLife \in Nat
    BY RegistryAssumption DEF Inv, Types
  <2>. QED BY <2>1
<1>2. /\ ActiveOK(p, me) /\ me.leader = None /\ entry \in Entry /\ me.min \in Nat
      /\ me.need \in Nat /\ me.refused \in SUBSET Nat
  BY <1>1, Zenon DEF FrameOK, Frame
<1>3. /\ bearer => AcquiringOK(p, me) /\ Matches(p, entry) /\ me.need <= entry.generation
      /\ ~ bearer => me.info.auth = "basic" /\ mode[me.url] = "basic"
  BY <1>1, Zenon DEF FrameOK, AcquiringOK
<1>4. CASE ProbeAccepted(r)
  <2> DEFINE redirect == mode[me.url] = "bearer redirect"
             a == IF redirect THEN "none" ELSE me.info.auth
             s == IF bearer THEN entry.serial ELSE 0
             g == IF bearer THEN entry.generation ELSE 0
             e == IF bearer /\ ~ redirect /\ entry.expiry < now + UrlLife
                  THEN entry.expiry ELSE now + UrlLife
             i == [auth |-> a, serial |-> s, generation |-> g, expiry |-> e]
             f == [me EXCEPT !.pc = "store", !.info = i]
  <2>1. reader' = [reader EXCEPT ![r] = f]
    BY <1>4, Zenon DEF ProbeAccepted, Inv, Types
  <2>2. a \in {"none", "basic", "bearer"} /\ s \in Nat /\ g \in Nat /\ e \in Nat
    <3>1. me.info.auth \in {"none", "basic", "bearer"}
      BY <1>1, Zenon DEF Frame, Info
    <3>. QED BY <1>2, <1>7, <3>1, Zenon DEF Entry
  <2>3. /\ bearer => mode[me.url] # "basic" /\ g \in 0 .. Newest /\ s = p[g] /\ me.min <= g
        /\ bearer => s \notin me.refused
        /\ ~ bearer => g = 0 /\ a = "basic" /\ mode[me.url] = "basic"
        /\ a = "bearer" => bearer
    <3>1. CASE bearer
      <4>1. /\ mode[me.url] # "basic" /\ g = entry.generation /\ s = entry.serial
            /\ entry.generation \in 0 .. Newest /\ entry.serial = p[entry.generation]
            /\ me.min <= me.need /\ me.need <= entry.generation
        BY <1>3, <3>1 DEF AcquiringOK, Matches
      <4>2. me.min <= g
        BY <1>2, <4>1 DEF Entry
      <4>3. s \notin me.refused
        <5>1. Below(p, me.refused, me.need) /\ ~ entry.generation < me.need
          BY <1>2, <1>3, <3>1, <4>1 DEF AcquiringOK, Entry
        <5>. QED BY <4>1, <5>1 DEF Below
      <4>. QED BY <3>1, <4>1, <4>2, <4>3
    <3>2. CASE ~ bearer
      BY <1>3, <3>2, Zenon
    <3>. QED BY <3>1, <3>2, Zenon
  <2>4. a = "basic" => mode[me.url] = "basic"
    BY <1>3, <2>3, Zenon
  <2> HIDE DEF a, s, g, e
  <2>5. i \in Info /\ i.auth = a /\ i.serial = s /\ i.generation = g
    BY <2>2 DEF Info
  <2>6. InfoOK(p, me.url, i)
    <3>1. g \in 0 .. Newest
      BY <1>6, <2>3
    <3>. QED BY <2>3, <2>4, <2>5, <3>1 DEF InfoOK
  <2>7. i.auth = "bearer" => me.min <= i.generation /\ i.serial \notin me.refused
    BY <2>3, <2>5
  <2> HIDE DEF i
  <2>8. /\ f \in Frame /\ f.pc = "store" /\ f.url = me.url /\ f.min = me.min /\ f.info = i
        /\ f.rejected = me.rejected /\ f.refused = me.refused /\ f.leader = None
    BY <1>1, <1>2, <2>5, Zenon DEF Frame, Pcs
  <2> HIDE DEF f
  <2>9. FrameOK(p, f, serial) /\ f.pc \notin Leading
    BY <1>2, <2>6, <2>7, <2>8 DEF FrameOK, ActiveOK, Acquiring, Leading
  <2>. QED BY <1>1, <2>1, <2>8, <2>9, QuietKeeps, Zenon
<1>5. CASE ProbeRefused(r)
  <2> DEFINE n == [me EXCEPT !.refused = @ \cup {entry.serial}]
             f == [n EXCEPT !.pc = "token", !.probes = @ + 1, !.need = entry.generation + 1]
  <2>1. /\ bearer /\ AcquiringOK(p, me) /\ Matches(p, entry) /\ me.need <= entry.generation
        /\ entry.serial \in Nat /\ entry.generation \in Nat
    BY <1>2, <1>3, <1>5, Zenon DEF ProbeRefused, Entry
  <2>2. /\ n \in Frame /\ n.url = me.url /\ n.min = me.min /\ n.rejected = me.rejected
        /\ n.leader = None /\ n.info = me.info /\ n.refused = me.refused \cup {entry.serial}
        /\ n.probes \in Nat
    BY <1>1, <1>2, <2>1, Zenon DEF Frame
  <2>3. \/ reader' = [reader EXCEPT ![r] = f]
        \/ reader' = [reader EXCEPT ![r] = Returned(n, "ECANCELED")]
        \/ reader' = [reader EXCEPT ![r] = Returned(n, "EPERM")]
    BY <1>5, Zenon DEF ProbeRefused
  <2> HIDE DEF n
  <2>4. /\ f \in Frame /\ f.pc = "token" /\ f.url = me.url /\ f.min = me.min
        /\ f.rejected = me.rejected /\ f.leader = None /\ f.info = me.info
        /\ f.refused = me.refused \cup {entry.serial} /\ f.need = entry.generation + 1
    <3>1. n.probes + 1 \in Nat /\ entry.generation + 1 \in Nat
      BY <2>1, <2>2
    <3>. QED BY <2>2, <3>1, Zenon DEF Frame, Pcs
  <2>5. \A g, h \in 0 .. Newest : g < h => p[g] < p[h]
    BY DEF Inv
  <2>6. Below(p, f.refused, f.need)
    <3>1. /\ Below(p, me.refused, me.need) /\ entry.generation \in 0 .. Newest
          /\ entry.serial = p[entry.generation]
      BY <2>1 DEF AcquiringOK, Matches
    <3>2. entry.serial <= p[Newest]
      <4>1. entry.generation = Newest \/ entry.generation < Newest
        BY <1>6, <3>1
      <4>2. Newest \in 0 .. Newest /\ p[Newest] \in Nat
        BY <1>6
      <4>3. CASE entry.generation = Newest
        BY <3>1, <4>2, <4>3
      <4>4. CASE entry.generation < Newest
        <5>1. p[entry.generation] < p[Newest]
          BY <2>5, <3>1, <4>2, <4>4
        <5>. QED BY <2>1, <3>1, <4>2, <5>1
      <4>. QED BY <4>1, <4>3, <4>4
    <3>3. ASSUME NEW h \in 0 .. Newest, p[h] \in f.refused PROVE h < f.need
      <4>1. CASE p[h] = entry.serial
        <5>1. ~ entry.generation < h
          BY <2>5, <3>1, <4>1
        <5>. QED BY <2>1, <2>4, <5>1
      <4>2. CASE p[h] \in me.refused
        <5>1. h < me.need
          BY <3>1, <4>2 DEF Below
        <5>2. h \in Nat /\ me.need \in Nat /\ me.need <= entry.generation
          BY <1>6, <1>2, <2>1
        <5>. QED BY <2>1, <2>4, <5>1, <5>2
      <4>. QED BY <2>4, <3>3, <4>1, <4>2
    <3>. QED BY <2>4, <3>1, <3>2, <3>3 DEF Below
  <2>7. AcquiringOK(p, f)
    <3>1. f.min <= f.need /\ f.need <= Newest + 1
      <4>1. /\ me.min <= me.need /\ me.need <= entry.generation
            /\ entry.generation \in 0 .. Newest
        BY <2>1 DEF AcquiringOK, Matches
      <4>2. me.min <= entry.generation + 1 /\ entry.generation + 1 <= Newest + 1
        BY <1>6, <1>2, <2>1, <4>1
      <4>. QED BY <2>4, <4>2
    <3>. QED BY <2>1, <2>4, <2>6, <3>1 DEF AcquiringOK
  <2> HIDE DEF f
  <2>8. FrameOK(p, f, serial) /\ f.pc \notin Leading
    BY <1>2, <2>4, <2>7 DEF FrameOK, ActiveOK, Leading
  <2>. QED BY <1>1, <2>2, <2>3, <2>4, <2>8, ReturnedOK, QuietKeeps, Zenon
<1>. QED BY <1>4, <1>5

(* A step that may change every read, and neither the caches nor the tokens issued. *)
LEMMA FramesKeep ==
    ASSUME NEW p \in [Nat -> Nat], Inv(p), now' \in Nat, UNCHANGED <<Caches, mode, serial>>,
           reader' \in [Readers -> Frame],
           \A q \in Readers : FrameOK(p, reader'[q], serial),
           \A q \in Readers : reader'[q].pc \in Leading => flights = q
    PROVE  Inv(p)'
<1>1. /\ tokens' = tokens /\ flights' = flights /\ url_infos' = url_infos
      /\ mode' = mode /\ serial' = serial /\ Newest' = Newest
  BY DEF Caches, Newest
<1>2. Types'
  BY <1>1 DEF Inv, Types
<1>3. \A u \in Urls : InfoOK(p, u, url_infos[u])'
  BY <1>1 DEF Inv, InfoOK
<1>4. ASSUME NEW q \in Readers PROVE FrameOK(p, reader[q], serial)'
  <2>1. FrameOK(p, reader'[q], serial)
    OBVIOUS
  <2>. QED BY <1>1, <2>1, Zenon DEF FrameOK, ActiveOK, AcquiringOK, Below, Matches, InfoOK
<1>5. \A q \in Readers : reader'[q].pc \in Leading => flights' = q
  BY <1>1
<1>6. /\ \A g, h \in 0 .. Newest' : g < h => p[g] < p[h]
      /\ tokens'.serial = p[Newest'] /\ p[Newest'] <= serial'
  BY <1>1 DEF Inv
<1>. QED BY <1>2, <1>3, <1>4, <1>5, <1>6 DEF Inv

LEMMA WorldSteps ==
    ASSUME NEW p \in [Nat -> Nat], Inv(p),
           Tick \/ Revoke \/ \E r \in Readers : Cancel(r)
    PROVE  Inv(p)'
<1>1. now \in Nat /\ reader \in [Readers -> Frame] /\ \A q \in Readers : FrameOK(p, reader[q], serial)
  BY DEF Inv, Types
<1>2. CASE Tick
  <2>1. now' \in Nat /\ UNCHANGED <<Caches, mode, serial>> /\ reader' = reader
    BY <1>1, <1>2 DEF Tick, Server
  <2>2. \A q \in Readers : reader'[q].pc \in Leading => flights = q
    BY <2>1 DEF Inv
  <2>. QED BY <1>1, <2>1, <2>2, FramesKeep
<1>3. CASE Revoke
  <2>1. now' \in Nat /\ UNCHANGED <<Caches, mode, serial>> /\ reader' = reader
    BY <1>1, <1>3 DEF Revoke
  <2>2. \A q \in Readers : reader'[q].pc \in Leading => flights = q
    BY <2>1 DEF Inv
  <2>. QED BY <1>1, <2>1, <2>2, FramesKeep
<1>4. ASSUME NEW r \in Readers, Cancel(r) PROVE Inv(p)'
  <2> DEFINE me == reader[r]
             f == [me EXCEPT !.cancelled = TRUE]
  <2>1. /\ now' \in Nat /\ UNCHANGED <<Caches, mode, serial>> /\ reader' = [reader EXCEPT ![r] = f]
        /\ me.pc # "idle"
    BY <1>1, <1>4 DEF Cancel, Server
  <2>2. /\ f \in Frame /\ f.pc = me.pc /\ f.url = me.url /\ f.min = me.min /\ f.need = me.need
        /\ f.entry = me.entry /\ f.info = me.info /\ f.leader = me.leader
        /\ f.rejected = me.rejected /\ f.refused = me.refused
    BY <1>1, Zenon DEF Frame
  <2> HIDE DEF f
  <2>3. FrameOK(p, me, serial)
    BY <1>1
  <2>4. FrameOK(p, f, serial)
    BY <2>1, <2>2, <2>3, Zenon DEF FrameOK, ActiveOK, AcquiringOK
  <2>5. reader' \in [Readers -> Frame] /\ \A q \in Readers : FrameOK(p, reader'[q], serial)
    BY <1>1, <2>1, <2>2, <2>4
  <2>6. \A q \in Readers : reader'[q].pc \in Leading => flights = q
    BY <1>1, <2>1, <2>2 DEF Inv
  <2>. QED BY <2>1, <2>5, <2>6, FramesKeep
<1>. QED BY <1>2, <1>3, <1>4

(* get_token up to the publication. *)
LEMMA FlightSteps ==
    ASSUME NEW p \in [Nat -> Nat], Inv(p), NEW r \in Readers,
           GetToken(r) \/ Exchange(r) \/ Fail(r)
    PROVE  Inv(p)'
<1> DEFINE me == reader[r]
<1>1. /\ me \in Frame /\ FrameOK(p, me, serial) /\ UNCHANGED <<now, mode, tokens>>
      /\ url_infos' = url_infos /\ me.pc \in {"token", "exchange", "fail"}
  BY Zenon DEF Inv, Types, GetToken, Exchange, Fail, Server, Caches, At
<1>2. ActiveOK(p, me) /\ AcquiringOK(p, me) /\ me.leader = None
  BY <1>1, Zenon DEF FrameOK, Acquiring
<1>3. /\ url_infos' \in [Urls -> Info] /\ \A u \in Urls : InfoOK(p, u, url_infos'[u])
  BY <1>1 DEF Inv, Types
<1>4. serial \in Nat /\ Newest \in Nat /\ flights \in Readers \cup {None} /\ p[Newest] \in Nat
      /\ tokens \in Entry
  BY DEF Inv, Types, Newest, Entry
<1>5. \A q \in Readers : reader[q].pc \in Leading => flights = q
  BY DEF Inv
<1>6. ASSUME NEW c \in {"exchange", "fail", "set error"}, NEW f,
             f = [me EXCEPT !.pc = c]
      PROVE  f \in Frame /\ f.pc = c /\ FrameOK(p, f, serial)
  <2>1. /\ f \in Frame /\ f.pc = c /\ f.url = me.url /\ f.min = me.min /\ f.need = me.need
        /\ f.info = me.info /\ f.leader = None /\ f.rejected = me.rejected /\ f.refused = me.refused
    BY <1>1, <1>2, <1>6, Zenon DEF Frame, Pcs
  <2>2. ActiveOK(p, f) /\ AcquiringOK(p, f)
    BY <1>2, <2>1, Zenon DEF ActiveOK, AcquiringOK
  <2>. QED BY <2>1, <2>2, Zenon DEF FrameOK
<1>7. CASE GetToken(r)
  <2>0. serial' = serial /\ me.pc = "token"
    BY <1>7 DEF GetToken, Server, At
  <2>1. CASE tokens.generation >= me.need /\ Discovered(r, tokens) /\ flights' = flights
    <3> DEFINE f == [me EXCEPT !.pc = "probe auth", !.entry = tokens, !.leader = None]
    <3>1. /\ f \in Frame /\ f.pc = "probe auth" /\ f.url = me.url /\ f.min = me.min
          /\ f.need = me.need /\ f.info = me.info /\ f.leader = None /\ f.rejected = me.rejected
          /\ f.refused = me.refused /\ f.entry = tokens
      BY <1>1, <1>4, Zenon DEF Frame, Pcs
    <3>2. reader' = [reader EXCEPT ![r] = f]
      BY <2>1, Zenon DEF Discovered, Inv, Types
    <3>3. Matches(p, tokens) /\ me.need <= tokens.generation
      <4>1. tokens.serial = p[Newest] /\ me.need \in Nat
        BY <1>1 DEF Inv, Frame
      <4>2. Newest \in 0 .. Newest
        BY <1>4
      <4>3. tokens.generation = Newest
        BY DEF Newest
      <4>4. me.need <= tokens.generation
        BY <1>4, <2>1, <4>1, <4>3
      <4>. QED BY <4>1, <4>2, <4>3, <4>4 DEF Matches
    <3> HIDE DEF f
    <3>4. ActiveOK(p, f) /\ AcquiringOK(p, f)
      BY <1>2, <3>1, Zenon DEF ActiveOK, AcquiringOK
    <3>5. FrameOK(p, f, serial) /\ f.pc \notin Leading
      BY <3>1, <3>3, <3>4, Zenon DEF FrameOK, Acquiring, Leading
    <3>6. serial' \in Nat /\ serial <= serial' /\ flights' \in Readers \cup {None}
          /\ FrameOK(p, f, serial')
      BY <1>4, <2>0, <2>1, <3>5
    <3>. QED BY <1>1, <1>3, <1>5, <2>1, <3>1, <3>2, <3>5, <3>6, FrameKeeps, Zenon
  <2>2. CASE flights # None /\ flights' = flights
             /\ reader' = [reader EXCEPT ![r].pc = "await", ![r].leader = flights]
    <3> DEFINE f == [me EXCEPT !.pc = "await", !.leader = flights]
    <3>1. /\ f \in Frame /\ f.pc = "await" /\ f.url = me.url /\ f.min = me.min
          /\ f.need = me.need /\ f.info = me.info /\ f.rejected = me.rejected
          /\ f.refused = me.refused
      BY <1>1, <1>4, Zenon DEF Frame, Pcs
    <3>2. reader' = [reader EXCEPT ![r] = f]
      BY <2>2, Zenon DEF Inv, Types
    <3> HIDE DEF f
    <3>4. ActiveOK(p, f) /\ AcquiringOK(p, f)
      BY <1>2, <3>1 DEF ActiveOK, AcquiringOK
    <3>5. FrameOK(p, f, serial) /\ f.pc \notin Leading
      BY <3>1, <3>4 DEF FrameOK, Leading
    <3>6. serial' \in Nat /\ serial <= serial' /\ flights' \in Readers \cup {None}
          /\ FrameOK(p, f, serial')
      BY <1>4, <2>0, <2>2, <3>5
    <3>. QED BY <1>1, <1>3, <1>5, <2>2, <3>1, <3>2, <3>5, <3>6, FrameKeeps, Zenon
  <2>3. CASE flights = None /\ flights' = r /\ Goto(r, "exchange")
    <3> DEFINE f == [me EXCEPT !.pc = "exchange"]
    <3>1. f \in Frame /\ f.pc = "exchange" /\ FrameOK(p, f, serial)
      BY <1>6, Zenon
    <3>2. reader' = [reader EXCEPT ![r] = f]
      BY <2>3 DEF Goto, Inv, Types
    <3> HIDE DEF f
    <3>3. \A q \in Readers \ {r} : reader[q].pc \in Leading => flights' = q
      BY <1>5, <2>3, RegistryAssumption
    <3>4. serial' \in Nat /\ serial <= serial' /\ flights' \in Readers \cup {None}
          /\ FrameOK(p, f, serial')
      BY <1>4, <2>0, <2>3, <3>1
    <3>. QED BY <1>1, <1>3, <2>3, <3>1, <3>2, <3>3, <3>4, FrameKeeps, Zenon
  <2>. QED BY <1>7, <2>1, <2>2, <2>3 DEF GetToken
<1>8. CASE Exchange(r)
  <2>1. me.pc = "exchange" /\ flights' = flights /\ flights = r
    BY <1>5, <1>8 DEF Exchange, At, Caches, Leading
  <2>2. CASE Goto(r, "fail") /\ serial' = serial
    <3> DEFINE f == [me EXCEPT !.pc = "fail"]
    <3>1. f \in Frame /\ FrameOK(p, f, serial)
      BY <1>6, Zenon
    <3>2. reader' = [reader EXCEPT ![r] = f]
      BY <2>2 DEF Goto, Inv, Types
    <3> HIDE DEF f
    <3>3. serial' \in Nat /\ serial <= serial' /\ flights' \in Readers \cup {None}
          /\ FrameOK(p, f, serial')
      BY <1>4, <2>1, <2>2, <3>1
    <3>. QED BY <1>1, <1>3, <1>5, <2>1, <3>1, <3>2, <3>3, FrameKeeps, Zenon
  <2>3. CASE /\ serial' = serial + 1
             /\ \E life \in Lifetimes :
                  reader' = [reader EXCEPT ![r].pc = "publish", ![r].entry =
                    [serial |-> serial + 1, generation |-> 0, expiry |-> now + life]]
    <3>1. PICK life \in Lifetimes :
             reader' = [reader EXCEPT ![r].pc = "publish", ![r].entry =
                    [serial |-> serial + 1, generation |-> 0, expiry |-> now + life]]
      BY <2>3, Zenon
    <3> DEFINE n == serial + 1
               x == now + life
               e == [serial |-> n, generation |-> 0, expiry |-> x]
               f == [me EXCEPT !.pc = "publish", !.entry = e]
    <3>2. reader' = [reader EXCEPT ![r] = f]
      BY <3>1, Zenon DEF Inv, Types
    <3>3. n \in Nat /\ x \in Nat /\ serial <= n /\ n <= n /\ p[Newest] < n
      <4>1. now \in Nat /\ life \in Nat /\ p[Newest] <= serial
        BY RegistryAssumption DEF Inv, Types
      <4>. QED BY <1>4, <4>1
    <3>4. serial' = n
      BY <2>3
    <3> HIDE DEF n, x
    <3>5. e \in Entry /\ e.serial = n
      BY <3>3 DEF Entry
    <3> HIDE DEF e
    <3>6. /\ f \in Frame /\ f.pc = "publish" /\ f.url = me.url /\ f.min = me.min
          /\ f.need = me.need /\ f.info = me.info /\ f.leader = None /\ f.rejected = me.rejected
          /\ f.refused = me.refused /\ f.entry = e
      BY <1>1, <1>2, <3>5, Zenon DEF Frame, Pcs
    <3> HIDE DEF f
    <3>7. ActiveOK(p, f) /\ AcquiringOK(p, f)
      BY <1>2, <3>6, Zenon DEF ActiveOK, AcquiringOK
    <3>8. FrameOK(p, f, n)
      BY <3>3, <3>5, <3>6, <3>7 DEF FrameOK
    <3>9. serial' \in Nat /\ serial <= serial' /\ flights' \in Readers \cup {None}
          /\ FrameOK(p, f, serial')
      BY <1>4, <2>1, <3>3, <3>4, <3>8
    <3>. QED BY <1>1, <1>3, <1>5, <2>1, <3>2, <3>6, <3>9, FrameKeeps, Zenon
  <2>. QED BY <1>8, <2>2, <2>3 DEF Exchange
<1>9. CASE Fail(r)
  <2>1. /\ me.pc = "fail" /\ flights' = None /\ serial' = serial /\ flights = r
    BY <1>5, <1>9, Zenon DEF Fail, At, Server, Leading
  <2> DEFINE f == [me EXCEPT !.pc = "set error"]
  <2>2. f \in Frame /\ f.pc = "set error" /\ FrameOK(p, f, serial)
    BY <1>6, Zenon
  <2>3. reader' = [reader EXCEPT ![r] = f]
    BY <1>9, Zenon DEF Fail, Goto, Inv, Types
  <2> HIDE DEF f
  <2>4. \A q \in Readers \ {r} : reader[q].pc \notin Leading
    BY <1>5, <2>1
  <2>5. serial' \in Nat /\ serial <= serial' /\ flights' \in Readers \cup {None}
        /\ FrameOK(p, f, serial')
    <3>1. serial' \in Nat /\ serial <= serial'
      BY <1>4, <2>1
    <3>2. flights' \in Readers \cup {None}
      BY <2>1
    <3>3. FrameOK(p, f, serial')
      BY <2>1, <2>2, Zenon
    <3>. QED BY <3>1, <3>2, <3>3
  <2>6. f.pc \notin Leading
    BY <2>2, Zenon DEF Leading
  <2>. QED BY <1>1, <1>3, <2>2, <2>3, <2>4, <2>5, <2>6, FrameKeeps, Zenon
<1>. QED BY <1>7, <1>8, <1>9

(* Publication appends the leader's token to p. *)
LEMMA PublishStep ==
    ASSUME NEW p \in [Nat -> Nat], Inv(p), NEW r \in Readers, Publish(r)
    PROVE  \E q \in [Nat -> Nat] : Inv(q)'
<1>me. PICK me : me = reader[r]
  OBVIOUS
<1>m. PICK m : m = Newest
  OBVIOUS
<1>n. PICK n : n = m + 1
  OBVIOUS
<1>e. PICK e : e = [me.entry EXCEPT !.generation = n]
  BY Zenon
<1>f. PICK f : f = [me EXCEPT !.pc = "set", !.entry = e]
  OBVIOUS
<1>s. PICK s : s = me.entry.serial
  OBVIOUS
<1>q. PICK q : q = [p EXCEPT ![n] = s]
  BY Zenon
<1>1. /\ me \in Frame /\ FrameOK(p, me, serial) /\ me.pc = "publish" /\ flights = r
      /\ UNCHANGED <<now, mode, url_infos, serial>> /\ flights' = None /\ tokens' = e
  BY <1>me, <1>m, <1>n, <1>e DEF Inv, Types, Publish, Server, At, Leading, Newest
<1>2. reader' = [reader EXCEPT ![r] = f]
  BY <1>me, <1>m, <1>n, <1>e, <1>f, Zenon DEF Publish, Inv, Types, Newest
<1>3. m \in Nat /\ n \in Nat /\ s \in Nat /\ p[m] \in Nat /\ serial \in Nat /\ me.need \in Nat
  BY <1>1, <1>m, <1>n, <1>s DEF Inv, Types, Newest, Entry, Frame
<1>4. ActiveOK(p, me) /\ AcquiringOK(p, me) /\ p[m] < s /\ s <= serial /\ me.leader = None
  BY <1>1, <1>m, <1>s DEF FrameOK, Acquiring
<1>5. e \in Entry /\ e.generation = n /\ e.serial = s
  BY <1>1, <1>3, <1>e, <1>s DEF Frame, Entry
<1>6. /\ q \in [Nat -> Nat] /\ q[n] = s /\ (\A g \in 0 .. m : q[g] = p[g])
      /\ m \in 0 .. m /\ n \notin 0 .. m /\ 0 .. n = (0 .. m) \cup {n}
  BY <1>3, <1>n, <1>q
<1>7. Newest' = n
  BY <1>1, <1>5 DEF Newest
<1>8. \A g, h \in 0 .. m : g < h => p[g] < p[h]
  BY <1>m DEF Inv
<1>9. ASSUME NEW g \in 0 .. m PROVE p[g] <= p[m] /\ p[g] < s
  <2>1. g \in Nat /\ (g = m \/ g < m) /\ p[g] \in Nat
    BY <1>3
  <2>2. p[g] <= p[m]
    <3>1. CASE g = m
      BY <1>3, <3>1
    <3>2. CASE g < m
      <4>1. p[g] < p[m]
        BY <1>6, <1>8, <3>2
      <4>. QED BY <1>3, <2>1, <4>1
    <3>. QED BY <2>1, <3>1, <3>2
  <2>. QED BY <1>3, <1>4, <2>1, <2>2
<1>10. \A g, h \in 0 .. n : g < h => q[g] < q[h]
  <2> SUFFICES ASSUME NEW g \in 0 .. n, NEW h \in 0 .. n, g < h PROVE q[g] < q[h]
    OBVIOUS
  <2>1. n = m + 1 /\ g \in 0 .. m
    BY <1>3, <1>n
  <2>2. CASE h \in 0 .. m
    BY <1>6, <1>8, <2>1, <2>2
  <2>3. CASE h = n
    BY <1>6, <1>9, <2>1, <2>3
  <2>. QED BY <1>6, <2>2, <2>3
<1>11. ASSUME NEW S \in SUBSET Nat, NEW g \in Nat, Below(p, S, g)
       PROVE  Below(q, S, g)'
  <2>1. \A t \in S : t <= p[m]
    BY <1>11, <1>m DEF Below
  <2>2. \A t \in S : t <= q[n] /\ t # s
    BY <1>3, <1>4, <1>6, <2>1
  <2>3. ASSUME NEW h \in 0 .. n, q[h] \in S PROVE h < g
    <3>1. h # n
      BY <1>6, <2>2, <2>3
    <3>2. h \in 0 .. m /\ p[h] \in S
      BY <1>6, <2>3, <3>1
    <3>. QED BY <1>11, <3>2, <1>m DEF Below
  <2>. QED BY <1>7, <2>2, <2>3 DEF Below
<1>12. ASSUME NEW u \in Urls, NEW i, InfoOK(p, u, i) PROVE InfoOK(q, u, i)'
  <2>1. i.generation \in 0 .. m
    BY <1>12, <1>m DEF InfoOK
  <2>2. i.generation \in 0 .. n /\ q[i.generation] = p[i.generation]
    BY <1>6, <2>1
  <2>. QED BY <1>1, <1>7, <1>12, <2>2 DEF InfoOK
<1>13. ASSUME NEW x \in Frame, ActiveOK(p, x) PROVE ActiveOK(q, x)'
  <2>1. x.min \in Nat /\ x.rejected \in SUBSET Nat
    BY DEF Frame
  <2>2. x.min <= n + 1
    <3>1. x.min <= n
      BY <1>13, <1>m, <1>n DEF ActiveOK
    <3>. QED BY <1>3, <2>1, <3>1
  <2>. QED BY <1>1, <1>7, <1>11, <1>13, <2>1, <2>2 DEF ActiveOK
<1>14. ASSUME NEW x \in Frame, AcquiringOK(p, x) PROVE AcquiringOK(q, x)'
  <2>1. x.need \in Nat /\ x.refused \in SUBSET Nat
    BY DEF Frame
  <2>2. x.need <= n + 1
    <3>1. x.need <= n
      BY <1>14, <1>m, <1>n DEF AcquiringOK
    <3>. QED BY <1>3, <2>1, <3>1
  <2>. QED BY <1>1, <1>7, <1>11, <1>14, <2>1, <2>2 DEF AcquiringOK
<1>15. ASSUME NEW x, Matches(p, x) PROVE Matches(q, x)'
  <2>1. x.generation \in 0 .. m
    BY <1>15, <1>m DEF Matches
  <2>2. x.generation \in 0 .. n /\ q[x.generation] = p[x.generation]
    BY <1>6, <2>1
  <2>. QED BY <1>7, <1>15, <2>2 DEF Matches
<1>16. FrameOK(q, f, serial)' /\ f.pc \notin Leading /\ f \in Frame
  <2>1. /\ f \in Frame /\ f.pc = "set" /\ f.url = me.url /\ f.min = me.min
        /\ f.need = me.need /\ f.info = me.info /\ f.leader = None /\ f.rejected = me.rejected
        /\ f.refused = me.refused /\ f.entry = e
    BY <1>1, <1>4, <1>5, <1>f, Zenon DEF Frame, Pcs
  <2>2. ActiveOK(p, f) /\ AcquiringOK(p, f)
    BY <1>4, <2>1 DEF ActiveOK, AcquiringOK
  <2>3. ActiveOK(q, f)' /\ AcquiringOK(q, f)'
    <3>1. ActiveOK(q, f)'
      BY <1>13, <2>1, <2>2
    <3>2. AcquiringOK(q, f)'
      BY <1>14, <2>1, <2>2
    <3>. QED BY <3>1, <3>2
  <2>4. n \in 0 .. n /\ f.need <= n
    <3>1. f.need <= n
      BY <2>2, <1>m, <1>n DEF AcquiringOK
    <3>. QED BY <1>6, <3>1
  <2>5. Matches(q, f.entry)' /\ f.need <= f.entry.generation
    BY <1>5, <1>6, <1>7, <2>1, <2>4 DEF Matches
  <2>. QED BY <2>1, <2>3, <2>5 DEF FrameOK, Leading
<1>17. ASSUME NEW w \in Readers PROVE FrameOK(q, reader[w], serial)'
  <2>1. CASE w = r
    <3>1. reader'[w] = f
      BY <1>2, <2>1 DEF Inv, Types
    <3>. QED BY <1>16, <3>1, Zenon DEF FrameOK
  <2>2. CASE w # r
    <3>x. PICK x : x = reader[w]
      OBVIOUS
    <3>1. x \in Frame /\ FrameOK(p, x, serial) /\ reader'[w] = x /\ x.pc # "publish"
      BY <1>1, <1>2, <2>2, <3>x DEF Inv, Types, Leading
    <3>2. x.pc \notin {"idle", "returned"} => ActiveOK(q, x)'
      BY <1>13, <3>1, Zenon DEF FrameOK
    <3>3. x.pc \in Acquiring => AcquiringOK(q, x)'
      BY <1>14, <3>1, Zenon DEF FrameOK
    <3>4. x.pc = "probe auth" =>
             \/ x.info.auth = "basic" /\ mode'[x.url] = "basic"
             \/ AcquiringOK(q, x)' /\ Matches(q, x.entry)' /\ x.need <= x.entry.generation
      <4> SUFFICES ASSUME x.pc = "probe auth",
                          AcquiringOK(p, x) /\ Matches(p, x.entry) /\ x.need <= x.entry.generation
                   PROVE  AcquiringOK(q, x)' /\ Matches(q, x.entry)'
        BY <1>1, <3>1, Zenon DEF FrameOK
      <4>1. AcquiringOK(q, x)'
        BY <1>14, <3>1, Zenon
      <4>2. Matches(q, x.entry)'
        BY <1>15, Zenon
      <4>. QED BY <4>1, <4>2, Zenon
    <3>5. x.pc = "set" => Matches(q, x.entry)' /\ x.need <= x.entry.generation
      BY <1>15, <3>1 DEF FrameOK
    <3>6. x.pc \in {"store", "data"} =>
             /\ InfoOK(q, x.url, x.info)'
             /\ x.info.auth = "bearer" => x.min <= x.info.generation
      <4> SUFFICES ASSUME x.pc \in {"store", "data"} PROVE InfoOK(q, x.url, x.info)'
        BY <3>1, Zenon DEF FrameOK
      <4>1. ActiveOK(p, x) /\ InfoOK(p, x.url, x.info)
        BY <3>1, Zenon DEF FrameOK
      <4>2. x.url \in Urls
        BY <4>1 DEF ActiveOK
      <4>. QED BY <1>12, <4>1, <4>2
    <3>7. FrameOK(q, x, serial)'
      BY <3>1, <3>2, <3>3, <3>4, <3>5, <3>6, Zenon DEF FrameOK
    <3>. QED BY <3>1, <3>7, Zenon DEF FrameOK
  <2>. QED BY <2>1, <2>2
<1>18. Types'
  BY <1>1, <1>2, <1>5, <1>16 DEF Inv, Types
<1>19. \A u \in Urls : InfoOK(q, u, url_infos[u])'
  <2> SUFFICES ASSUME NEW u \in Urls PROVE InfoOK(q, u, url_infos[u])'
    OBVIOUS
  <2>1. InfoOK(p, u, url_infos[u]) /\ url_infos' = url_infos
    BY <1>1 DEF Inv
  <2>. QED BY <1>12, <2>1 DEF InfoOK
<1>20. \A w \in Readers : reader'[w].pc \notin Leading
  BY <1>1, <1>2, <1>16 DEF Inv, Types
<1>21. Inv(q)'
  BY <1>1, <1>4, <1>5, <1>6, <1>7, <1>10, <1>17, <1>18, <1>19, <1>20 DEF Inv
<1>. QED BY <1>6, <1>21

(* The leader's event: its own read and the waiters of the flight. *)
LEMMA EventSteps ==
    ASSUME NEW p \in [Nat -> Nat], Inv(p), NEW r \in Readers, Set(r) \/ SetError(r)
    PROVE  Inv(p)'
<1> DEFINE me == reader[r]
<1>1. /\ now' \in Nat /\ UNCHANGED <<Caches, mode, serial>> /\ reader \in [Readers -> Frame]
      /\ \A q \in Readers : FrameOK(p, reader[q], serial)
      /\ \A q \in Readers : reader[q].pc \in Leading => flights = q
  BY Zenon DEF Inv, Types, Set, SetError, Server
<1>2. SUFFICES \A q \in Readers : /\ reader'[q] \in Frame /\ FrameOK(p, reader'[q], serial)
                                  /\ (reader'[q].pc \in Leading => reader'[q] = reader[q])
  <2>1. \E g \in [Readers -> {reader'[q] : q \in Readers}] : reader' = g
    <3>1. reader' = [q \in Readers |-> reader'[q]]
      BY Zenon DEF Set, SetError
    <3>. QED BY <3>1
  <2>2. reader' \in [Readers -> Frame]
    BY <1>2, <2>1
  <2>. QED BY <1>1, <1>2, <2>2, FramesKeep
<1>3. SUFFICES ASSUME NEW q \in Readers
               PROVE  /\ reader'[q] \in Frame /\ FrameOK(p, reader'[q], serial)
                      /\ (reader'[q].pc \in Leading => reader'[q] = reader[q])
  OBVIOUS
<1>4. CASE reader'[q] = reader[q]
  BY <1>1, <1>4
<1> DEFINE x == reader[q]
<1>5. x \in Frame /\ FrameOK(p, x, serial)
  BY <1>1
<1>6. CASE SetError(r) /\ reader'[q] # reader[q]
  <2>1. \/ reader'[q] = Returned(x, "ECANCELED")
        \/ reader'[q] = Returned(x, "error")
    BY <1>6, Zenon DEF SetError
  <2>. QED BY <1>5, <2>1, ReturnedOK
<1>7. CASE Set(r) /\ reader'[q] # reader[q]
  <2> DEFINE entry == me.entry
             f == [x EXCEPT !.pc = "probe auth", !.entry = entry, !.leader = None]
             g == [x EXCEPT !.pc = "token", !.leader = None]
  <2>1. /\ me \in Frame /\ Matches(p, entry) /\ me.need <= entry.generation /\ entry \in Entry
        /\ me.leader = None /\ me.pc = "set"
    BY <1>1, <1>7, Zenon DEF Set, At, FrameOK, Frame
  <2>2. /\ q # r => x.leader = r /\ x.leader # None
        /\ \/ reader'[q] = f /\ x.need <= entry.generation
           \/ reader'[q] = g
    <3>1. CASE q = r
      <4>1. reader'[q] = [me EXCEPT !.pc = "probe auth"] /\ x = me
        BY <1>7, <3>1, Zenon DEF Set
      <4>2. [me EXCEPT !.pc = "probe auth"]
              = [me EXCEPT !.pc = "probe auth", !.entry = me.entry, !.leader = None]
        BY <2>1, Zenon DEF Frame
      <4>. QED BY <2>1, <3>1, <4>1, <4>2, Zenon
    <3>2. CASE q # r
      <4>1. x.leader = r /\ reader'[q] = Woken(q, entry)
        BY <1>7, <3>2, Zenon DEF Set
      <4>2. x.need \in Nat /\ entry.generation \in Nat
        BY <1>5, <2>1 DEF Frame, Entry
      <4>3. entry.generation >= x.need => x.need <= entry.generation
        BY <4>2
      <4>. QED BY <3>2, <4>1, <4>3, RegistryAssumption DEF Woken
    <3>. QED BY <3>1, <3>2
  <2>3. ActiveOK(p, x) /\ AcquiringOK(p, x)
    <3>1. x.pc \in {"set", "await"}
      BY <1>5, <2>1, <2>2, Zenon DEF FrameOK
    <3>. QED BY <1>5, <3>1, Zenon DEF FrameOK, Acquiring
  <2>4. CASE reader'[q] = f /\ x.need <= entry.generation
    <3>1. /\ f \in Frame /\ f.pc = "probe auth" /\ f.url = x.url /\ f.min = x.min
          /\ f.need = x.need /\ f.info = x.info /\ f.leader = None /\ f.rejected = x.rejected
          /\ f.refused = x.refused /\ f.entry = entry
      BY <1>5, <2>1, Zenon DEF Frame, Pcs
    <3> HIDE DEF f
    <3>2. ActiveOK(p, f) /\ AcquiringOK(p, f)
      BY <2>3, <3>1, Zenon DEF ActiveOK, AcquiringOK
    <3>3. FrameOK(p, f, serial) /\ f.pc \notin Leading
      BY <2>1, <2>4, <3>1, <3>2, Zenon DEF FrameOK, Acquiring, Leading
    <3>. QED BY <2>4, <3>1, <3>3, Zenon
  <2>5. CASE reader'[q] = g
    <3>1. /\ g \in Frame /\ g.pc = "token" /\ g.url = x.url /\ g.min = x.min
          /\ g.need = x.need /\ g.info = x.info /\ g.leader = None /\ g.rejected = x.rejected
          /\ g.refused = x.refused
      BY <1>5, Zenon DEF Frame, Pcs
    <3> HIDE DEF g
    <3>2. ActiveOK(p, g) /\ AcquiringOK(p, g)
      BY <2>3, <3>1 DEF ActiveOK, AcquiringOK
    <3>3. FrameOK(p, g, serial) /\ g.pc \notin Leading
      BY <3>1, <3>2 DEF FrameOK, Leading
    <3>. QED BY <2>5, <3>1, <3>3
  <2>. QED BY <2>2, <2>4, <2>5
<1>. QED BY <1>4, <1>6, <1>7

LEMMA NextKeeps == IInv /\ [Next]_vars => IInv'
<1> SUFFICES ASSUME IInv, [Next]_vars PROVE IInv'
  OBVIOUS
<1>1. PICK p \in [Nat -> Nat] : Inv(p)
  BY DEF IInv
<1>2. ASSUME NEW r \in Readers, Publish(r) PROVE IInv'
  <2>1. \E q \in [Nat -> Nat] : Inv(q)'
    BY <1>1, <1>2, PublishStep
  <2>. QED BY <2>1 DEF IInv
<1>3. SUFFICES ASSUME ~ \E r \in Readers : Publish(r) PROVE Inv(p)'
  BY <1>2 DEF IInv
<1>4. CASE UNCHANGED vars
  <2>1. now' = now /\ reader' = reader /\ UNCHANGED <<Caches, mode, serial>>
    BY <1>4 DEF vars, Caches
  <2>2. /\ now' \in Nat /\ reader' \in [Readers -> Frame]
        /\ \A q \in Readers : FrameOK(p, reader'[q], serial)
        /\ \A q \in Readers : reader'[q].pc \in Leading => flights = q
    BY <1>1, <2>1 DEF Inv, Types
  <2>. QED BY <1>1, <2>1, <2>2, FramesKeep
<1>5. CASE Tick \/ Revoke
  BY <1>1, <1>5, WorldSteps
<1>6. ASSUME NEW r \in Readers,
             Begin(r) \/ ReadStep(r) \/ ProbeFails(r) \/ DataFails(r) \/ Again(r) \/ Cancel(r)
      PROVE  Inv(p)'
  <2>1. CASE Begin(r) \/ Again(r) \/ Lookup(r) \/ Probe(r) \/ ProbeFails(r)
    BY <1>1, <2>1, LookupSteps
  <2>2. CASE ProbeAccepted(r) \/ ProbeRefused(r)
    BY <1>1, <2>2, ProbeSteps
  <2>3. CASE GetToken(r) \/ Exchange(r) \/ Fail(r)
    BY <1>1, <2>3, FlightSteps
  <2>4. CASE Set(r) \/ SetError(r)
    BY <1>1, <2>4, EventSteps
  <2>5. CASE Store(r) \/ Erase(r)
    BY <1>1, <2>5, UrlSteps
  <2>6. CASE DataArrives(r) \/ DataRefused(r) \/ DataFails(r)
    BY <1>1, <2>6, DataSteps
  <2>7. CASE Cancel(r)
    BY <1>1, <2>7, WorldSteps
  <2>. QED BY <1>3, <1>6, <2>1, <2>2, <2>3, <2>4, <2>5, <2>6, <2>7 DEF ReadStep
<1>. QED BY <1>4, <1>5, <1>6 DEF Next

(***************************************************************************)
(* The published tokens have an order, their generations follow it, and    *)
(* what every cache entry and read holds agrees with it.                   *)
(***************************************************************************)
THEOREM Invariance == Spec => []IInv
  BY InitHolds, NextKeeps, PTL DEF Spec

(***************************************************************************)
(* No request carries a token that a data request of this read, or the     *)
(* discovery of the same attempt, has seen refused, from whichever cache   *)
(* or flight (RegistryClient::get_data, resolve).                          *)
(***************************************************************************)
THEOREM RefusedTokensStayUnused == Spec => []NoRefusedTokenAgain
<1>1. IInv => NoRefusedTokenAgain
  <2> SUFFICES ASSUME NEW p \in [Nat -> Nat], Inv(p), NEW r \in Readers,
                      reader[r].info.auth = "bearer"
               PROVE  /\ At(r, "probe auth") => /\ reader[r].entry.serial \notin reader[r].rejected
                                                /\ reader[r].entry.serial \notin reader[r].refused
                      /\ At(r, "data") => /\ reader[r].info.serial \notin reader[r].rejected
                                          /\ reader[r].info.serial \notin reader[r].refused
    BY Zenon DEF IInv, NoRefusedTokenAgain
  <2> DEFINE f == reader[r]
  <2>1. f \in Frame /\ FrameOK(p, f, serial)
    BY DEF Inv, Types
  <2>2. f.min \in Nat /\ f.need \in Nat /\ f.entry.generation \in Nat /\ f.info.generation \in Nat
    BY <2>1 DEF Frame, Entry, Info
  <2>3. ASSUME NEW S, NEW g \in Nat, Below(p, S, g), NEW h \in Nat, h \in 0 .. Newest, g <= h
        PROVE  p[h] \notin S
    <3>1. ~ h < g
      BY <2>3
    <3>. QED BY <2>3, <3>1 DEF Below
  <2>4. ASSUME At(r, "probe auth")
        PROVE  f.entry.serial \notin f.rejected /\ f.entry.serial \notin f.refused
    <3>1. /\ ActiveOK(p, f) /\ AcquiringOK(p, f) /\ Matches(p, f.entry)
          /\ f.need <= f.entry.generation
      BY <2>1, <2>4, Zenon DEF At, FrameOK
    <3>2. /\ Below(p, f.rejected, f.min) /\ Below(p, f.refused, f.need) /\ f.min <= f.need
          /\ f.entry.generation \in 0 .. Newest /\ f.entry.serial = p[f.entry.generation]
      BY <3>1 DEF ActiveOK, AcquiringOK, Matches
    <3>3. f.min <= f.entry.generation
      BY <2>2, <3>1, <3>2
    <3>. QED BY <2>2, <2>3, <3>1, <3>2, <3>3
  <2>5. ASSUME At(r, "data")
        PROVE  f.info.serial \notin f.rejected /\ f.info.serial \notin f.refused
    <3>1. /\ ActiveOK(p, f) /\ InfoOK(p, f.url, f.info) /\ f.min <= f.info.generation
          /\ f.info.serial \notin f.refused
      BY <2>1, <2>5 DEF At, FrameOK
    <3>2. /\ Below(p, f.rejected, f.min)
          /\ f.info.generation \in 0 .. Newest /\ f.info.serial = p[f.info.generation]
      BY <3>1 DEF ActiveOK, InfoOK
    <3>. QED BY <2>2, <2>3, <3>1, <3>2
  <2>. QED BY <2>4, <2>5, Zenon
<1>. QED BY <1>1, Invariance, PTL

=============================================================================
