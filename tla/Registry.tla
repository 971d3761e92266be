------------------------------ MODULE Registry ------------------------------
(***************************************************************************)
(* RegistryClient: reads of registry blobs that share one token cache with *)
(* single-flight exchanges, and one cache of resolved URLs.                *)
(*                                                                         *)
(* The URLs of an image have one token key.  A token is its serial number  *)
(* at the server; its generation is the client's count of published        *)
(* exchanges.  Every mutex section is one step and every request is one    *)
(* step.  A flight is named by its leader, who cannot lead another one     *)
(* before it has set the event of the first.  The clock is coarse: what    *)
(* matters is which deadline passes first.                                 *)
(***************************************************************************)
EXTENDS Integers

CONSTANTS
    Readers, Urls,
    Serving,        \* ways the registry may serve the URLs
    Reads,          \* reads that are made, and length probes
    None,
    Attempts,       \* data requests of one read, and probes of one discovery
    UrlLife,        \* lifetime of a resolved URL
    Lifetimes,      \* token lifetimes the endpoint may declare
    MaxTime,        \* bound: ticks of the clock
    MaxRevoked,     \* bound: revocations by the server
    MaxFaults,      \* bound: failed or useless responses, and cancelled reads
    MaxReads        \* bound: reads

Modes == {"open", "open redirect", "bearer", "bearer redirect", "basic"}

ASSUME RegistryAssumption ==
    /\ None \notin Readers
    /\ Serving \subseteq [Urls -> Modes] /\ Reads \subseteq [url : Urls, length : BOOLEAN]
    /\ Attempts \in Nat \ {0} /\ UrlLife \in Nat /\ Lifetimes \subseteq Nat
    /\ {MaxTime, MaxRevoked, MaxFaults, MaxReads} \subseteq Nat

VARIABLES
    now,
    mode,           \* how the registry serves each URL
    tokens,         \* tokens_[key]; generation 0: no entry
    flights,        \* leader of flights_[key], or None
    url_infos,      \* url_infos_; expiry 0: no entry
    serial, revoked, \* tokens issued by the server, tokens it no longer takes
    reader,         \* the frame of each read
    budget

vars == <<now, mode, tokens, flights, url_infos, serial, revoked, reader, budget>>

NoEntry == [serial |-> 0, generation |-> 0, expiry |-> 0]

\* UrlInfo: the Authorization header is none, Basic or a Bearer token.
NoInfo == [auth |-> "none", serial |-> 0, generation |-> 0, expiry |-> 0]

Idle == [pc |-> "idle", url |-> None, length |-> FALSE, attempt |-> 0, min |-> 0,
         need |-> 0, probes |-> 0, entry |-> NoEntry, info |-> NoInfo, leader |-> None,
         cancelled |-> FALSE, rejected |-> {}, refused |-> {}, result |-> "none"]

Init ==
    /\ now = 1 /\ mode \in Serving /\ tokens = NoEntry /\ flights = None
    /\ url_infos = [u \in Urls |-> NoInfo]
    /\ serial = 0 /\ revoked = 0
    /\ reader = [r \in Readers |-> Idle]
    /\ budget = [faults |-> 0, cancels |-> 0, revocations |-> MaxRevoked, reads |-> MaxReads]

At(r, pc) == reader[r].pc = pc

Goto(r, pc) == reader' = [reader EXCEPT ![r].pc = pc]

\* What is left of the frame: the result, and what it is judged by.
Returned(f, result) ==
    [Idle EXCEPT !.pc = "returned", !.result = result, !.length = f.length,
       !.cancelled = f.cancelled, !.rejected = f.rejected, !.refused = f.refused]

Return(r, result) ==
    reader' = [reader EXCEPT ![r] = Returned(@, result)]

\* observation_error: a cancelled reader reports its cancellation.
Fails(r, error) == Return(r, IF reader[r].cancelled THEN "ECANCELED" ELSE error)

Disturbable == budget.faults + budget.cancels < MaxFaults

Fault ==
    /\ Disturbable
    /\ budget' = [budget EXCEPT !.faults = @ + 1]

Caches == <<tokens, flights, url_infos>>

Server == <<mode, serial, revoked>>

(***************************************************************************)
(* get_data and get_length.                                                *)
(***************************************************************************)

\* A read of a URL, or the length probe of RegistrySource::open.
Begin(r) ==
    /\ At(r, "idle") /\ budget.reads > 0
    /\ budget' = [budget EXCEPT !.reads = @ - 1]
    /\ \E read \in Reads :
         reader' = [reader EXCEPT ![r].pc = "attempt", ![r].url = read.url,
                                  ![r].length = read.length]
    /\ UNCHANGED <<now, Caches, Server>>

Last(f) == f.length \/ f.attempt = Attempts - 1

\* A resolution leaves nothing behind in the frame of the read (but what it
\* saw refused, which only the property looks at).
Settled(f) ==
    [f EXCEPT !.entry = NoEntry, !.info = NoInfo, !.need = 0, !.probes = 0]

\* The server refuses the tokens it has revoked or let expire.
Refused(entry) == entry.serial <= revoked

\* Resolution is shared with other reads and not cancelled with this one, which
\* leaves after it.
Resolved(r, info) ==
    IF reader[r].cancelled THEN Return(r, "ECANCELED")
    ELSE reader' = [reader EXCEPT ![r] = [Settled(@) EXCEPT !.pc = "data", !.info = info]]

\* request_data: the bytes, or the total of the length probe.
DataArrives(r) ==
    /\ At(r, "data")
    /\ LET info == reader[r].info IN info.auth = "bearer" => ~ Refused(info)
    /\ Return(r, "ok")
    /\ UNCHANGED <<now, Caches, Server, budget>>

\* A useless answer: the URL may be forgotten first, and the read ends or
\* goes on with the next attempt.
Retry(f, erase, min, error) ==
    IF Last(f) /\ ~ erase THEN Returned(f, error)
    ELSE [Settled(f) EXCEPT !.pc = IF erase THEN "erase" ELSE "attempt", !.attempt = @ + 1,
                       !.min = min, !.refused = {},
                       !.result = IF Last(f) THEN error ELSE "none"]

\* Mutant: the retry accepts the generation that was refused.
DataRefusedSameGeneration(r) ==
    /\ At(r, "data")
    /\ LET info == reader[r].info
           f == [reader[r] EXCEPT !.rejected = @ \cup {info.serial}]
       IN  /\ info.auth = "bearer" /\ Refused(info)
           /\ reader' = [reader EXCEPT ![r] = Retry(f, ~ f.length, info.generation, "EPERM")]
    /\ UNCHANGED <<now, Caches, Server, budget>>

\* The token is refused (401, 403): the URL is forgotten and a newer token
\* demanded.  The length probe only reports the status.
DataRefused(r) ==
    /\ At(r, "data")
    /\ LET info == reader[r].info
           f == [reader[r] EXCEPT !.rejected = @ \cup {info.serial}]
       IN  /\ info.auth = "bearer" /\ Refused(info)
           /\ reader' = [reader EXCEPT ![r] =
                Retry(f, ~ f.length, info.generation + 1, "EPERM")]
    /\ UNCHANGED <<now, Caches, Server, budget>>

\* Other failures: a 401 without a bearer token (a stale redirect, a wrong
\* password), a wrong range, a transport error or 429, and the statuses that
\* end the read at once.
DataFails(r) ==
    /\ At(r, "data") /\ Fault
    /\ LET f == reader[r]
           auth == f.info.auth
           min == IF auth = "basic" THEN f.info.generation + 1 ELSE f.min
       IN  \/ /\ auth # "bearer" /\ ~ f.length
              /\ reader' = [reader EXCEPT ![r] = Retry(f, TRUE, min, "EPERM")]
           \/ /\ ~ Last(f)
              /\ reader' = [reader EXCEPT ![r] = Retry(f, TRUE, f.min, "error")]
           \/ reader' = [reader EXCEPT ![r] = Retry(f, FALSE, f.min, "error")]
           \/ Fails(r, "error") \/ Return(r, "error")
    /\ UNCHANGED <<now, Caches, Server>>

\* The URL is erased under the mutex, whoever has stored it meanwhile.
Erase(r) ==
    /\ At(r, "erase")
    /\ url_infos' = [url_infos EXCEPT ![reader[r].url] = NoInfo]
    /\ IF reader[r].result = "none" THEN Goto(r, "attempt") ELSE Return(r, reader[r].result)
    /\ UNCHANGED <<now, tokens, flights, Server, budget>>

(***************************************************************************)
(* resolve.                                                                *)
(***************************************************************************)

\* An attempt begins unless the read is cancelled.  The cached URL serves while
\* it is fresh and its token is new enough.
Lookup(r) ==
    /\ At(r, "attempt")
    /\ LET info == url_infos[reader[r].url] IN
       IF reader[r].cancelled THEN Return(r, "ECANCELED")
       ELSE IF info.expiry > now /\ info.generation >= reader[r].min
       THEN Resolved(r, info)
       ELSE Goto(r, "probe")
    /\ UNCHANGED <<now, Caches, Server, budget>>

\* The anonymous probe: an open URL is resolved, a challenge needs credentials.
Probe(r) ==
    /\ At(r, "probe")
    /\ LET m == mode[reader[r].url] IN
       reader' = [reader EXCEPT ![r] =
         CASE m \in {"open", "open redirect"} ->
                [@ EXCEPT !.pc = "store", !.info = [NoInfo EXCEPT !.expiry = now + UrlLife]]
           [] m = "basic" ->
                [@ EXCEPT !.pc = "probe auth", !.info = [NoInfo EXCEPT !.auth = "basic"]]
           [] OTHER -> [@ EXCEPT !.pc = "token", !.need = reader[r].min, !.probes = 0,
                                 !.info = [NoInfo EXCEPT !.auth = "bearer"]]]
    /\ UNCHANGED <<now, Caches, Server, budget>>

\* A probe fails, is denied without a challenge, or there are no credentials.
ProbeFails(r) ==
    /\ reader[r].pc \in {"probe", "probe auth"} /\ Fault
    /\ Fails(r, "error")
    /\ UNCHANGED <<now, Caches, Server>>

\* The entry's token becomes the Authorization header of the discovery.
Discovered(r, entry) ==
    reader' = [reader EXCEPT ![r].pc = "probe auth", ![r].entry = entry, ![r].leader = None]

\* The authenticated probe: self mode keeps the header, and must not outlive
\* the token's refresh deadline; a redirect needs no header.
ProbeAccepted(r) ==
    /\ At(r, "probe auth")
    /\ LET entry == reader[r].entry
           bearer == reader[r].info.auth = "bearer"
           redirect == mode[reader[r].url] = "bearer redirect"
           life == now + UrlLife
       IN  /\ bearer => ~ Refused(entry)
           /\ reader' = [reader EXCEPT ![r].pc = "store", ![r].info =
                [auth |-> IF redirect THEN "none" ELSE @.auth,
                 serial |-> IF bearer THEN entry.serial ELSE 0,
                 generation |-> IF bearer THEN entry.generation ELSE 0,
                 expiry |-> IF bearer /\ ~ redirect /\ entry.expiry < life
                            THEN entry.expiry ELSE life]]
    /\ UNCHANGED <<now, Caches, Server, budget>>

\* A token that discovery finds refused is replaced by a newer one.
ProbeRefused(r) ==
    /\ At(r, "probe auth") /\ reader[r].info.auth = "bearer"
    /\ LET entry == reader[r].entry
           n == [reader[r] EXCEPT !.refused = @ \cup {entry.serial}]
       IN  /\ Refused(entry)
           /\ reader' = [reader EXCEPT ![r] =
                IF n.probes < Attempts - 1
                THEN [n EXCEPT !.pc = "token", !.probes = @ + 1, !.need = entry.generation + 1]
                ELSE Returned(n, IF n.cancelled THEN "ECANCELED" ELSE "EPERM")]
    /\ UNCHANGED <<now, Caches, Server, budget>>

Store(r) ==
    /\ At(r, "store")
    /\ url_infos' = [url_infos EXCEPT ![reader[r].url] = reader[r].info]
    /\ Resolved(r, reader[r].info)
    /\ UNCHANGED <<now, tokens, flights, Server, budget>>

(***************************************************************************)
(* get_token.                                                              *)
(***************************************************************************)

\* Under the mutex: a fresh and new enough entry, the flight, or a new flight.
GetToken(r) ==
    /\ At(r, "token")
    /\ IF tokens.expiry > now /\ tokens.generation >= reader[r].need
       THEN Discovered(r, tokens) /\ UNCHANGED flights
       ELSE IF flights # None
       THEN /\ reader' = [reader EXCEPT ![r].pc = "await", ![r].leader = flights]
            /\ UNCHANGED flights
       ELSE flights' = r /\ Goto(r, "exchange")
    /\ UNCHANGED <<now, tokens, url_infos, Server, budget>>

\* fetch_token, outside the mutex and not cancelled with its leader.
Exchange(r) ==
    /\ At(r, "exchange")
    /\ \/ /\ serial' = serial + 1
          /\ \E life \in Lifetimes :
               reader' = [reader EXCEPT ![r].pc = "publish", ![r].entry =
                 [serial |-> serial + 1, generation |-> 0, expiry |-> now + life]]
          /\ UNCHANGED budget
       \/ Fault /\ Goto(r, "fail") /\ UNCHANGED serial
    /\ UNCHANGED <<now, mode, Caches, revoked>>

\* Under the mutex: the next generation, and no flight any more.
Publish(r) ==
    /\ At(r, "publish")
    /\ LET entry == [reader[r].entry EXCEPT !.generation = tokens.generation + 1] IN
       /\ tokens' = entry
       /\ reader' = [reader EXCEPT ![r].pc = "set", ![r].entry = entry]
    /\ flights' = None
    /\ UNCHANGED <<now, url_infos, Server, budget>>

Fail(r) ==
    /\ At(r, "fail")
    /\ flights' = None
    /\ Goto(r, "set error")
    /\ UNCHANGED <<now, tokens, url_infos, Server, budget>>

\* The event wakes the waiters.  One that has seen this generation fail looks
\* again; the error of the exchange is everybody's.
Woken(w, entry) ==
    IF entry.generation >= reader[w].need
    THEN [reader[w] EXCEPT !.pc = "probe auth", !.entry = entry, !.leader = None]
    ELSE [reader[w] EXCEPT !.pc = "token", !.leader = None]

Set(r) ==
    /\ At(r, "set")
    /\ LET entry == reader[r].entry IN
       reader' = [w \in Readers |->
         IF w = r THEN [reader[r] EXCEPT !.pc = "probe auth"]
         ELSE IF reader[w].leader = r THEN Woken(w, entry) ELSE reader[w]]
    /\ UNCHANGED <<now, Caches, Server, budget>>

\* Mutant: a failed leader sets no event.
SetErrorAlone(r) ==
    /\ At(r, "set error")
    /\ Fails(r, "error")
    /\ UNCHANGED <<now, Caches, Server, budget>>

SetError(r) ==
    /\ At(r, "set error")
    /\ reader' = [w \in Readers |->
         IF w = r \/ reader[w].leader = r
         THEN Returned(reader[w], IF reader[w].cancelled THEN "ECANCELED" ELSE "error")
         ELSE reader[w]]
    /\ UNCHANGED <<now, Caches, Server, budget>>

(***************************************************************************)
(* The environment.                                                        *)
(***************************************************************************)

\* The caller of a read is done with it and may read again.
Again(r) ==
    /\ At(r, "returned")
    /\ reader' = [reader EXCEPT ![r] = Idle]
    /\ UNCHANGED <<now, Caches, Server, budget>>

Cancel(r) ==
    /\ reader[r].pc \notin {"idle", "returned"} /\ ~ reader[r].cancelled
    /\ Disturbable
    /\ budget' = [budget EXCEPT !.cancels = @ + 1]
    /\ reader' = [reader EXCEPT ![r].cancelled = TRUE]
    /\ UNCHANGED <<now, Caches, Server>>

Tick ==
    /\ now < MaxTime
    /\ now' = now + 1
    /\ UNCHANGED <<Caches, Server, reader, budget>>

\* The server stops taking the tokens it has issued: they are revoked, or reach
\* their declared lifetime, which is later than the client's refresh deadline.
Revoke ==
    /\ revoked < serial /\ budget.revocations > 0
    /\ budget' = [budget EXCEPT !.revocations = @ - 1]
    /\ revoked' = serial
    /\ UNCHANGED <<now, mode, Caches, serial, reader>>

ReadStep(r) ==
    \/ Lookup(r) \/ Probe(r) \/ ProbeAccepted(r) \/ ProbeRefused(r)
    \/ GetToken(r) \/ Exchange(r) \/ Publish(r) \/ Fail(r) \/ Set(r) \/ SetError(r)
    \/ Store(r) \/ DataArrives(r) \/ DataRefused(r) \/ Erase(r)

Next ==
    \/ \E r \in Readers : Begin(r) \/ ReadStep(r) \/ ProbeFails(r) \/ DataFails(r)
                          \/ Again(r) \/ Cancel(r)
    \/ Tick \/ Revoke

Spec == Init /\ [][Next]_vars

\* Coroutines run and every request is answered.
LiveSpec == Spec /\ \A r \in Readers : WF_vars(ReadStep(r))

-----------------------------------------------------------------------------

\* No request carries a token that a data request of this read was refused
\* with, or that the discovery of the same attempt has seen refused, whichever
\* of the URL cache, the token cache and another reader's flight it comes from.
\* (What only the discovery of an earlier attempt saw refused may come back
\* with a URL that a slower reader stores in between.)
NoRefusedTokenAgain ==
    \A r \in Readers : reader[r].info.auth = "bearer" =>
      LET used == reader[r].rejected \cup reader[r].refused IN
      /\ At(r, "probe auth") => reader[r].entry.serial \notin used
      /\ At(r, "data") => reader[r].info.serial \notin used

\* Every read returns: its attempts and probes are bounded, and no waiter is
\* left behind by a leader that fails or is cancelled.
ReadsReturn == \A r \in Readers : At(r, "attempt") ~> At(r, "returned")

=============================================================================
