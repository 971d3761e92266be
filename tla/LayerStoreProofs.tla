-------------------------- MODULE LayerStoreProofs --------------------------
(***************************************************************************)
(* Proofs about the layer store for every set of extents, readers and      *)
(* warm-ups and any number of faults and crashes: the commit file holds    *)
(* exactly the blob, reads return only bytes the remote served, nothing of *)
(* an old attempt is written to the new pair, and the verified cache never *)
(* outlives the pair it was filled from.                                   *)
(***************************************************************************)
EXTENDS LayerStore, SequenceTheorems, TLAPS

Records == Remote \cup {"hole"}

Fd == Pairs \cup {NoPair}

Job == [clear : BOOLEAN, eid : Extents \cup {0}, val : Records, gen : Nat]

ClientPcs == {"idle", "commit", "record", "generation", "fd", "find", "file", "retain",
              "demote", "subtract", "invalidate", "clear", "gate", "miss", "fetch",
              "check", "enqueue"}

WriterPcs == {"none", "wait", "clear", "clear record", "clear count", "clear cache",
              "data", "side", "publish", "count", "verify", "rename", "unlink sidecar",
              "commit fd", "complete", "bypass", "drop cache", "restart", "restart cache",
              "restart records", "restart count", "restart queue", "create staging",
              "create sidecar", "publish fd", "fence cache", "unlink old staging",
              "unlink old sidecar"}

WriterRec == [pc : WriterPcs, job : Job, new : Fd]

ClientRec == [pc : ClientPcs, part : BOOLEAN, eid : Extents \cup {0}, rec : Records, gen : Nat,
              fd : Fd, val : Bytes \cup {"none", "null", "error", "eagain", "ebadf"}]

Extended == [eid : Extents, rec : Remote, gen : Nat, fd : Fd, val : Remote]

Types ==
    /\ data \in [Pairs -> [Extents -> Bytes]]
    /\ side \in [Pairs -> [Extents -> Records]]
    /\ records \in [Extents -> Records]
    /\ generation \in Nat /\ commit_fd \in BOOLEAN /\ staging_fd \in Fd
    /\ queue \in Seq(Job)
    /\ cache \subseteq Extended
    /\ writer \in WriterRec
    /\ client \in [Clients -> ClientRec]

\* The commit file, once it has its name.
GoodCommit == commit \in [Extents -> Bytes] /\ (HasDigest => \A e \in Extents : commit[e] = "good")

\* The descriptor of the commit file is bound after the rename, and the state
\* says Complete after that; between the digest and the rename the staging
\* file is what was verified.
CommitInv ==
    /\ commit = NoCommit \/ GoodCommit
    /\ commit_fd => GoodCommit
    /\ writer.pc \in {"unlink sidecar", "commit fd", "complete"} => GoodCommit
    /\ writer.pc = "complete" \/ state = "Complete" => commit_fd
    /\ writer.pc # "none" => staging_fd \in Pairs
    /\ writer.pc \in {"create sidecar", "publish fd"} => writer.new \in Pairs
    /\ writer.pc = "rename" /\ HasDigest => \A e \in Extents : data[staging_fd][e] = "good"

\* A reader carries a record only while it is about to read what the record
\* vouches for, and fetched bytes only towards the queue.
ClientOK(r) ==
    /\ r.pc # "idle" => r.eid \in Extents
    /\ r.pc \in {"generation", "fd", "find", "file", "retain"} => r.rec \in Remote
    /\ r.pc = "retain" => r.val = r.rec
    /\ r.pc \in {"check", "enqueue"} => r.val \in Remote \cup {"null"}
    /\ r.pc = "commit" => commit_fd
    /\ HasDigest => r.val \notin {"rot", "hole", "ebadf"}

\* Outside the three places where the writer is about to clear it, the cache
\* is of the current pair and attempt.
CacheInv ==
    writer.pc \notin {"drop cache", "restart cache", "fence cache"} =>
        \A x \in cache : state = "Filling" /\ x.gen = generation /\ x.fd = staging_fd

IInv ==
    /\ Types
    /\ CommitInv
    /\ \A c \in Clients : ClientOK(client[c])
    /\ NoStaleGeneration
    /\ CacheInv

-----------------------------------------------------------------------------

LEMMA InitHolds == Init => IInv
<1> SUFFICES ASSUME Init PROVE IInv
  BY Zenon
<1>1. PICK p \in Pairs : staging_fd = p
  BY Zenon DEF Init
<1>2. Empty \in [Extents -> Bytes] /\ Empty \in [Extents -> Records]
  BY Zenon DEF Empty, Bytes, Records
<1>3. NoJob \in Job /\ NoPair \in Fd
  BY Zenon DEF NoJob, Job, Records, Fd
<1>4. Idle("none") \in ClientRec /\ Idle("none").pc = "idle" /\ Idle("none").val = "none"
  BY Zenon DEF Idle, ClientRec, ClientPcs, Records, Fd
<1>5. writer \in WriterRec /\ writer.pc \in {"verify", "wait"}
  BY <1>3, Zenon DEF Init, WriterAt, WriterRec, WriterPcs
<1>6. Types
  <2>1. data \in [Pairs -> [Extents -> Bytes]] /\ side \in [Pairs -> [Extents -> Records]]
    BY <1>2, Zenon DEF Init
  <2>2. records \in [Extents -> Records] /\ client \in [Clients -> ClientRec]
    BY <1>2, <1>4, Zenon DEF Init
  <2>3. generation \in Nat /\ commit_fd \in BOOLEAN /\ staging_fd \in Fd
    BY <1>1, Zenon DEF Init, Fd
  <2>4. queue \in Seq(Job) /\ cache \subseteq Extended
    BY DEF Init
  <2>. QED BY <1>5, <2>1, <2>2, <2>3, <2>4, Zenon DEF Types
<1>7. CommitInv
  BY <1>1, <1>5, Zenon DEF Init, CommitInv
<1>8. \A c \in Clients : ClientOK(client[c])
  BY <1>4, Zenon DEF Init, ClientOK
<1>9. NoStaleGeneration /\ CacheInv
  BY <1>5 DEF Init, NoStaleGeneration, CacheInv
<1>. QED BY <1>6, <1>7, <1>8, <1>9, Zenon DEF IInv

(* A step of a reader or a warm-up: it moves only its own frame, may demote a  *)
(* record, queue work of the current attempt, and cache what is current.       *)
LEMMA ClientStep ==
    ASSUME IInv, NEW c \in Clients, Client(c)
    PROVE  IInv'
<1> DEFINE me == client[c]
<1> USE DEF Remote, Bytes, Records
<1>1. Types /\ me \in ClientRec /\ ClientOK(me)
  BY Zenon DEF IInv, Types
<1>2. UNCHANGED <<files, data, side, commit, writer>> /\ UNCHANGED <<state, generation, staging_fd, commit_fd>>
  BY Zenon DEF Client, PreadStart, PopulateStart, ReadCommit, LoadRecord, LoadGeneration, LoadFd,
         find_verified, ReadFile, retain_verified, Demote, DemoteCount, invalidate_verified,
         enqueue_clear, PopulateAdmitted, Capture, Fetch, CheckRecord, enqueue_write, Quiet, disk, core
<1>3. ASSUME NEW v \in Bytes \cup {"none", "null", "error", "eagain", "ebadf"},
             HasDigest => v \notin {"rot", "hole", "ebadf"}
      PROVE  Idle(v) \in ClientRec /\ ClientOK(Idle(v))
  BY <1>3, Zenon DEF Idle, ClientRec, ClientPcs, ClientOK, Fd
<1>4. state = "Complete" => commit_fd
  BY Zenon DEF IInv, CommitInv
<1>5. \E f \in ClientRec : client' = [client EXCEPT ![c] = f] /\ ClientOK(f)
  <2>1. CASE \E e \in Extents, first \in BOOLEAN : PreadStart(c, e, first)
    <3>1. PICK e \in Extents, p \in {"commit", "record", "miss"} :
               /\ client' = [client EXCEPT ![c] = [Idle("none") EXCEPT !.eid = e, !.pc = p]]
               /\ p = "commit" => state = "Complete"
      BY <2>1, Zenon DEF PreadStart, Set
    <3> DEFINE f == [Idle("none") EXCEPT !.eid = e, !.pc = p]
    <3>2. f \in ClientRec /\ f.eid = e /\ f.val = "none" /\ f.pc = p
      BY Zenon DEF Idle, ClientRec, ClientPcs, Fd
    <3>5. ClientOK(f)
      BY <3>1, <3>2, <1>4, Zenon DEF ClientOK
    <3>. QED BY <3>1, <3>2, <3>5, Zenon
  <2>2. CASE \E e \in Extents : PopulateStart(c, e)
    <3>1. PICK e \in Extents : client' = [client EXCEPT ![c] = [Idle("none") EXCEPT !.eid = e, !.pc = "gate"]]
      BY <2>2, Zenon DEF PopulateStart, Set
    <3>2. [Idle("none") EXCEPT !.eid = e, !.pc = "gate"] \in ClientRec
      BY Zenon DEF Idle, ClientRec, ClientPcs, Fd
    <3>3. ClientOK([Idle("none") EXCEPT !.eid = e, !.pc = "gate"])
      BY Zenon DEF Idle, ClientOK
    <3>. QED BY <3>1, <3>2, <3>3, Zenon
  <2>3. CASE ReadCommit(c)
    <3>1. commit_fd /\ me.eid \in Extents /\ GoodCommit
      BY <2>3, <1>1, Zenon DEF ReadCommit, At, ClientOK, IInv, CommitInv
    <3>2. \/ client' = [client EXCEPT ![c] = Idle(commit[me.eid])]
          \/ client' = [client EXCEPT ![c] = Idle("error")]
      BY <2>3, <3>1, Zenon DEF ReadCommit, Finish, Set
    <3>3. commit[me.eid] \in Bytes /\ (HasDigest => commit[me.eid] = "good")
      BY <3>1, Zenon DEF GoodCommit
    <3>. QED BY <3>2, <3>3, <1>3, Zenon
  <2>4. CASE LoadRecord(c)
    <3>1. me.eid \in Extents /\ records[me.eid] \in Records /\ (HasDigest => me.val \notin {"rot", "hole", "ebadf"})
      BY <2>4, <1>1, Zenon DEF LoadRecord, At, ClientOK, Types
    <3>2. PICK p \in {"miss", "generation"} :
               /\ client' = [client EXCEPT ![c] = [me EXCEPT !.rec = records[me.eid], !.pc = p]]
               /\ p = "generation" => records[me.eid] # "hole"
      BY <2>4, Zenon DEF LoadRecord, Set
    <3> DEFINE f == [me EXCEPT !.rec = records[me.eid], !.pc = p]
    <3>3. /\ f \in ClientRec /\ f.pc = p /\ f.rec = records[me.eid]
          /\ f.eid = me.eid /\ f.val = me.val
      BY <1>1, <3>1, Zenon DEF ClientRec, ClientPcs
    <3>4. ClientOK(f)
      BY <3>1, <3>2, <3>3, Zenon DEF ClientOK
    <3>. QED BY <3>2, <3>3, <3>4, Zenon
  <2>5. CASE LoadGeneration(c)
    <3> DEFINE f == [me EXCEPT !.gen = generation, !.pc = "fd"]
    <3>1. client' = [client EXCEPT ![c] = f] /\ me.pc = "generation"
      BY <2>5, Zenon DEF LoadGeneration, Set, At
    <3>2. /\ f \in ClientRec /\ f.pc = "fd" /\ f.rec = me.rec /\ f.eid = me.eid /\ f.val = me.val
      BY <1>1, Zenon DEF ClientRec, ClientPcs, Types
    <3>3. ClientOK(f)
      BY <1>1, <3>1, <3>2, Zenon DEF ClientOK
    <3>. QED BY <3>1, <3>2, <3>3, Zenon
  <2>6. CASE LoadFd(c)
    <3>1. PICK p \in {"find", "file"}, part \in BOOLEAN :
               client' = [client EXCEPT ![c] = [me EXCEPT !.fd = staging_fd, !.part = part, !.pc = p]]
      BY <2>6, Zenon DEF LoadFd, Set
    <3> DEFINE f == [me EXCEPT !.fd = staging_fd, !.part = part, !.pc = p]
    <3>2. /\ f \in ClientRec /\ f.pc = p /\ f.rec = me.rec /\ f.eid = me.eid /\ f.val = me.val
      BY <1>1, Zenon DEF ClientRec, ClientPcs, Types
    <3>3. ClientOK(f)
      BY <2>6, <1>1, <3>2, Zenon DEF ClientOK, LoadFd, At
    <3>. QED BY <3>1, <3>2, <3>3, Zenon
  <2>7. CASE find_verified(c)
    <3>1. CASE \E x \in cache : client' = [client EXCEPT ![c] = Idle(x.val)]
      BY <3>1, <1>1, <1>3, Zenon DEF Types, Extended
    <3>2. CASE client' = [client EXCEPT ![c] = [me EXCEPT !.pc = "file"]]
      <4> DEFINE f == [me EXCEPT !.pc = "file"]
      <4>1. /\ f \in ClientRec /\ f.pc = "file" /\ f.rec = me.rec /\ f.eid = me.eid /\ f.val = me.val
        BY <1>1, Zenon DEF ClientRec, ClientPcs
      <4>2. ClientOK(f)
        BY <2>7, <1>1, <4>1, Zenon DEF ClientOK, find_verified, At
      <4>. QED BY <3>2, <4>1, <4>2, Zenon
    <3>. QED BY <2>7, <3>1, <3>2, Zenon DEF find_verified, Finish, Set
  <2>8. CASE ReadFile(c)
    <3> DEFINE bytes == data[me.fd][me.eid]
    <3>1. me.pc = "file" /\ me.rec \in Remote /\ me.eid \in Extents
      BY <2>8, <1>1, Zenon DEF ReadFile, At, ClientOK
    <3>2. CASE bytes = me.rec /\ client' = [client EXCEPT ![c] = Idle(bytes)]
      BY <3>1, <3>2, <1>3, Zenon
    <3>3. CASE bytes = me.rec /\ client' = [client EXCEPT ![c] = [me EXCEPT !.val = bytes, !.pc = "retain"]]
      <4> DEFINE f == [me EXCEPT !.val = me.rec, !.pc = "retain"]
      <4>1. /\ f \in ClientRec /\ f.pc = "retain" /\ f.rec = me.rec /\ f.eid = me.eid /\ f.val = me.rec
        BY <1>1, <3>1, Zenon DEF ClientRec, ClientPcs
      <4>2. ClientOK(f)
        BY <3>1, <4>1, Zenon DEF ClientOK
      <4>. QED BY <3>3, <4>1, <4>2, Zenon
    <3>4. CASE client' = [client EXCEPT ![c] = [Idle("none") EXCEPT !.eid = me.eid, !.pc = "demote"]]
      <4> DEFINE f == [Idle("none") EXCEPT !.eid = me.eid, !.pc = "demote"]
      <4>1. f \in ClientRec /\ ClientOK(f)
        BY <3>1, Zenon DEF Idle, ClientRec, ClientPcs, ClientOK, Fd
      <4>. QED BY <3>4, <4>1, Zenon
    <3>5. CASE client' = [client EXCEPT ![c] = Idle("error")]
      BY <3>5, <1>3, Zenon
    <3>. QED BY <2>8, <3>2, <3>3, <3>4, <3>5, Zenon DEF ReadFile, Finish, Set
  <2>9. CASE retain_verified(c)
    <3>1. client' = [client EXCEPT ![c] = Idle(me.val)] /\ me.val \in Remote
      BY <2>9, <1>1, Zenon DEF retain_verified, Finish, Set, At, ClientOK
    <3>. QED BY <3>1, <1>3, Zenon
  <2>10. CASE Demote(c) \/ DemoteCount(c) \/ invalidate_verified(c) \/ enqueue_clear(c)
    <3>1. PICK p \in {"subtract", "invalidate", "clear", "miss"} :
               client' = [client EXCEPT ![c] = [me EXCEPT !.pc = p]]
      BY <2>10, Zenon DEF Demote, DemoteCount, invalidate_verified, enqueue_clear, Set
    <3> DEFINE f == [me EXCEPT !.pc = p]
    <3>2. /\ f \in ClientRec /\ f.pc = p /\ f.rec = me.rec /\ f.eid = me.eid /\ f.val = me.val
      BY <1>1, Zenon DEF ClientRec, ClientPcs
    <3>3. ClientOK(f)
      BY <2>10, <1>1, <3>2, Zenon DEF ClientOK, Demote, DemoteCount, invalidate_verified, enqueue_clear, At
    <3>. QED BY <3>1, <3>2, <3>3, Zenon
  <2>11. CASE PopulateAdmitted(c)
    <3>1. CASE client' = [client EXCEPT ![c] = Idle("eagain")]
      BY <3>1, <1>3, Zenon
    <3>2. CASE client' = [client EXCEPT ![c] = [me EXCEPT !.pc = "miss"]]
      <4> DEFINE f == [me EXCEPT !.pc = "miss"]
      <4>1. /\ f \in ClientRec /\ f.pc = "miss" /\ f.eid = me.eid /\ f.val = me.val
        BY <1>1, Zenon DEF ClientRec, ClientPcs
      <4>2. ClientOK(f)
        BY <2>11, <1>1, <4>1, Zenon DEF ClientOK, PopulateAdmitted, At
      <4>. QED BY <3>2, <4>1, <4>2, Zenon
    <3>3. CASE client' = [client EXCEPT ![c] = [me EXCEPT !.pc = "check", !.val = "null", !.gen = generation]]
      <4> DEFINE f == [me EXCEPT !.pc = "check", !.val = "null", !.gen = generation]
      <4>1. /\ f \in ClientRec /\ f.pc = "check" /\ f.eid = me.eid /\ f.val = "null"
        BY <1>1, Zenon DEF ClientRec, ClientPcs, Types
      <4>2. ClientOK(f)
        BY <2>11, <1>1, <4>1, Zenon DEF ClientOK, PopulateAdmitted, At
      <4>. QED BY <3>3, <4>1, <4>2, Zenon
    <3>. QED BY <2>11, <3>1, <3>2, <3>3, Zenon DEF PopulateAdmitted, Finish, Set
  <2>12. CASE Capture(c)
    <3> DEFINE f == [me EXCEPT !.gen = generation, !.pc = "fetch"]
    <3>1. client' = [client EXCEPT ![c] = f] /\ me.pc = "miss"
      BY <2>12, Zenon DEF Capture, Set, At
    <3>2. /\ f \in ClientRec /\ f.pc = "fetch" /\ f.eid = me.eid /\ f.val = me.val
      BY <1>1, Zenon DEF ClientRec, ClientPcs, Types
    <3>3. ClientOK(f)
      BY <1>1, <3>1, <3>2, Zenon DEF ClientOK
    <3>. QED BY <3>1, <3>2, <3>3, Zenon
  <2>13. CASE Fetch(c)
    <3>1. CASE client' = [client EXCEPT ![c] = Idle("error")]
      BY <3>1, <1>3, Zenon
    <3>2. ASSUME NEW v \in Remote, client' = [client EXCEPT ![c] = [me EXCEPT !.val = v, !.pc = "check"]]
          PROVE  \E f \in ClientRec : client' = [client EXCEPT ![c] = f] /\ ClientOK(f)
      <4> DEFINE f == [me EXCEPT !.val = v, !.pc = "check"]
      <4>1. /\ f \in ClientRec /\ f.pc = "check" /\ f.eid = me.eid /\ f.val = v
        BY <1>1, Zenon DEF ClientRec, ClientPcs
      <4>2. ClientOK(f)
        BY <2>13, <1>1, <4>1, Zenon DEF ClientOK, Fetch, At
      <4>. QED BY <3>2, <4>1, <4>2, Zenon
    <3>. QED BY <2>13, <3>1, <3>2, Zenon DEF Fetch, Finish, Set
  <2>14. CASE CheckRecord(c) \/ enqueue_write(c)
    <3>1. me.pc \in {"check", "enqueue"} /\ me.val \in Remote \cup {"null"} /\ me.eid \in Extents
      BY <2>14, <1>1, Zenon DEF CheckRecord, enqueue_write, At, ClientOK
    <3>2. CASE client' = [client EXCEPT ![c] = Idle(me.val)]
      BY <3>1, <3>2, <1>3, Zenon
    <3>3. CASE client' = [client EXCEPT ![c] = [me EXCEPT !.pc = "enqueue"]]
      <4> DEFINE f == [me EXCEPT !.pc = "enqueue"]
      <4>1. /\ f \in ClientRec /\ f.pc = "enqueue" /\ f.eid = me.eid /\ f.val = me.val
        BY <1>1, Zenon DEF ClientRec, ClientPcs
      <4>2. ClientOK(f)
        BY <3>1, <4>1, Zenon DEF ClientOK
      <4>. QED BY <3>3, <4>1, <4>2, Zenon
    <3>. QED BY <2>14, <3>2, <3>3, Zenon DEF CheckRecord, enqueue_write, Finish, Set
  <2>. QED BY <2>1, <2>2, <2>3, <2>4, <2>5, <2>6, <2>7, <2>8, <2>9, <2>10, <2>11, <2>12, <2>13, <2>14, Zenon
           DEF Client
<1>6. client' \in [Clients -> ClientRec] /\ \A d \in Clients : ClientOK(client[d])'
  <2>1. PICK f \in ClientRec : client' = [client EXCEPT ![c] = f] /\ ClientOK(f)
    BY <1>5, Zenon
  <2>2. \A d \in Clients : ClientOK(client'[d])
    BY <2>1, <1>1, Zenon DEF Types, IInv
  <2>. QED BY <2>1, <2>2, <1>1, <1>2, Zenon DEF Types, ClientOK
<1>7. records' \in [Extents -> Records]
  <2>1. CASE Demote(c)
    BY <2>1, <1>1, Zenon DEF Demote, Types
  <2>2. CASE UNCHANGED records
    BY <2>2, <1>1, Zenon DEF Types
  <2>. QED BY <2>1, <2>2, Zenon DEF Client, PreadStart, PopulateStart, ReadCommit, LoadRecord, LoadGeneration,
         LoadFd, find_verified, ReadFile, retain_verified, DemoteCount, invalidate_verified,
         enqueue_clear, PopulateAdmitted, Capture, Fetch, CheckRecord, enqueue_write, Quiet
<1>8. UNCHANGED queue \/ \E j \in Job : queue' = Append(queue, j) /\ (j.clear \/ j.gen = generation)
  <2>1. CASE enqueue_clear(c)
    <3> DEFINE j == [NoJob EXCEPT !.clear = TRUE, !.eid = me.eid]
    <3>1. j \in Job /\ j.clear
      BY <1>1, Zenon DEF NoJob, Job, ClientRec
    <3>. QED BY <2>1, <3>1, Zenon DEF enqueue_clear
  <2>2. CASE enqueue_write(c)
    <3> DEFINE j == [clear |-> FALSE, eid |-> me.eid, val |-> me.val, gen |-> me.gen]
    <3>1. j \in Job /\ j.gen = me.gen
      BY <2>2, <1>1, Zenon DEF enqueue_write, At, ClientOK, ClientRec, Job
    <3>. QED BY <2>2, <3>1, Zenon DEF enqueue_write
  <2>3. CASE UNCHANGED queue
    BY <2>3, Zenon
  <2>. QED BY <2>1, <2>2, <2>3, Zenon DEF Client, PreadStart, PopulateStart, ReadCommit, LoadRecord,
         LoadGeneration, LoadFd, find_verified, ReadFile, retain_verified, Demote, DemoteCount,
         invalidate_verified, PopulateAdmitted, Capture, Fetch, CheckRecord, Quiet
<1>9. \A x \in cache' : \/ x \in cache
                        \/ /\ x \in Extended /\ state = "Filling"
                           /\ x.gen = generation /\ x.fd = staging_fd
  <2>1. CASE retain_verified(c)
    <3>1. /\ Entry(c) \in Extended
          /\ cache_identity_current(Entry(c)) => /\ state = "Filling" /\ Entry(c).gen = generation
                                                 /\ Entry(c).fd = staging_fd
      BY <2>1, <1>1, Zenon DEF retain_verified, At, ClientOK, ClientRec, Entry, Extended, cache_identity_current
    <3>2. \A x \in cache' : x \in cache \/ (x = Entry(c) /\ cache_identity_current(Entry(c)))
      BY <2>1, Zenon DEF retain_verified
    <3>. QED BY <3>1, <3>2, Zenon
  <2>2. CASE cache' \subseteq cache
    BY <2>2, Zenon
  <2>. QED BY <2>1, <2>2, Zenon DEF Client, PreadStart, PopulateStart, ReadCommit, LoadRecord, LoadGeneration,
         LoadFd, find_verified, ReadFile, Demote, DemoteCount, invalidate_verified,
         enqueue_clear, PopulateAdmitted, Capture, Fetch, CheckRecord, enqueue_write, Quiet
<1>10. queue' \in Seq(Job) /\ NoStaleGeneration'
  <2>1. CASE UNCHANGED queue
    BY <2>1, <1>1, <1>2, Zenon DEF Types, IInv, NoStaleGeneration
  <2>2. ASSUME NEW j \in Job, queue' = Append(queue, j), j.clear \/ j.gen = generation
        PROVE  queue' \in Seq(Job) /\ NoStaleGeneration'
    <3>1. /\ queue' \in Seq(Job) /\ DOMAIN queue' = 1 .. Len(queue) + 1
          /\ DOMAIN queue = 1 .. Len(queue) /\ Len(queue) \in Nat
          /\ queue'[Len(queue) + 1] = j /\ \A i \in 1 .. Len(queue) : queue'[i] = queue[i]
      BY <2>2, <1>1 DEF Types
    <3>. QED BY <2>2, <3>1, <1>2 DEF IInv, NoStaleGeneration
  <2>. QED BY <2>1, <2>2, <1>8, Zenon
<1>11. cache' \subseteq Extended /\ CacheInv'
  BY <1>1, <1>2, <1>9, Zenon DEF Types, IInv, CacheInv
<1>12. Types'
  BY <1>1, <1>2, <1>6, <1>7, <1>10, <1>11, Zenon DEF Types
<1>13. CommitInv'
  BY <1>2, Zenon DEF IInv, CommitInv, GoodCommit
<1>. QED BY <1>6, <1>10, <1>11, <1>12, <1>13, Zenon DEF IInv

\* Where the writer is about to clear the cache.
Clearing == {"drop cache", "restart cache", "fence cache"}

(* A writer step that leaves the commit file, the attempt, the descriptors   *)
(* and the queue alone.                                                      *)
LEMMA PlainStep ==
    ASSUME IInv, writer.pc # "none",
           UNCHANGED <<commit, state, generation, staging_fd, commit_fd, queue, client>>,
           cache' \subseteq cache,
           data' \in [Pairs -> [Extents -> Bytes]], side' \in [Pairs -> [Extents -> Records]],
           records' \in [Extents -> Records], writer' \in WriterRec,
           writer'.pc \notin {"none", "rename", "unlink sidecar", "commit fd", "complete"},
           writer'.pc \in {"create sidecar", "publish fd"} => writer'.new \in Pairs,
           writer'.pc \in {"data", "side", "publish", "count"} => writer'.job.gen = generation,
           writer.pc \in InRestart => writer'.pc \in InRestart,
           writer.pc \in Clearing => cache' = {}
    PROVE  IInv'
<1>1. Types'
  BY Zenon DEF IInv, Types
<1>2. CommitInv'
  BY Zenon DEF IInv, CommitInv, GoodCommit
<1>3. \A c \in Clients : ClientOK(client[c])'
  BY Zenon DEF IInv, ClientOK
<1>4. NoStaleGeneration'
  BY Zenon DEF IInv, NoStaleGeneration
<1>5. CacheInv'
  BY Zenon DEF IInv, CacheInv, Clearing
<1>. QED BY <1>1, <1>2, <1>3, <1>4, <1>5, Zenon DEF IInv

(* The writer goes on with its job, or drops it. *)
LEMMA WriterMoves ==
    ASSUME IInv, NEW pc \in WriterPcs
    PROVE  /\ WGoto(pc) => /\ writer' \in WriterRec /\ writer'.pc = pc
                           /\ writer'.job = writer.job /\ writer'.new = writer.new
           /\ WDone(pc) => /\ writer' \in WriterRec /\ writer'.pc = pc
                           /\ writer'.job = NoJob /\ writer'.new = NoPair
<1>1. writer \in WriterRec
  BY Zenon DEF IInv, Types
<1>2. WGoto(pc) => /\ writer' \in WriterRec /\ writer'.pc = pc
                   /\ writer'.job = writer.job /\ writer'.new = writer.new
  BY <1>1, Zenon DEF WGoto, WriterRec
<1>3. NoJob \in Job /\ NoPair \in Fd
  BY Zenon DEF NoJob, Job, Records, Fd
<1>4. WDone(pc) => /\ writer' \in WriterRec /\ writer'.pc = pc
                   /\ writer'.job = NoJob /\ writer'.new = NoPair
  BY <1>3 DEF WDone, WriterAt, WriterRec
<1>. QED BY <1>2, <1>4, Zenon

LEMMA ErrorMoves ==
    ASSUME IInv, WriteError
    PROVE  writer' \in WriterRec /\ writer'.pc \in {"wait", "bypass"}
<1>1. WDone("wait") \/ WDone("bypass")
  BY Zenon DEF WriteError
<1>. QED BY <1>1, WriterMoves, Zenon DEF WriterPcs

(* Serving a job: a demotion reaches the sidecar, fetched bytes reach the    *)
(* pair and then its records.                                                *)
LEMMA JobStep ==
    ASSUME IInv, \/ ClearSide \/ ClearRecord \/ ClearCount \/ ClearCache
                 \/ WriteData \/ WriteSide \/ PublishRecord \/ CountRecord
    PROVE  IInv'
<1>1. /\ writer.job \in Job /\ writer.job.val \in Records /\ writer.job.val \in Bytes
      /\ data \in [Pairs -> [Extents -> Bytes]] /\ side \in [Pairs -> [Extents -> Records]]
      /\ records \in [Extents -> Records] /\ NoStaleGeneration
  BY Zenon DEF IInv, Types, WriterRec, Job, Records, Bytes, Remote
<1>2. "hole" \in Records /\ "rot" \in Bytes
  BY Zenon DEF Records, Bytes
<1>3. UNCHANGED <<commit, state, generation, staging_fd, commit_fd, queue, client>>
  BY Zenon DEF ClearSide, ClearRecord, ClearCount, ClearCache, WriteData, WriteSide, PublishRecord,
         CountRecord, Memory, core, disk, WQuiet
<1>4. cache' \subseteq cache
  BY Zenon DEF ClearSide, ClearRecord, ClearCount, ClearCache, WriteData, WriteSide, PublishRecord,
         CountRecord, Memory
<1>5. side' \in [Pairs -> [Extents -> Records]]
  <2>1. ASSUME NEW v \in Records, side' = [side EXCEPT ![staging_fd][writer.job.eid] = v]
        PROVE  side' \in [Pairs -> [Extents -> Records]]
    BY <2>1, <1>1, Zenon
  <2>2. \/ UNCHANGED side
        \/ side' = [side EXCEPT ![staging_fd][writer.job.eid] = "hole"]
        \/ side' = [side EXCEPT ![staging_fd][writer.job.eid] = writer.job.val]
    BY Zenon DEF ClearSide, ClearRecord, ClearCount, ClearCache, WriteData, WriteSide, PublishRecord,
           CountRecord, disk
  <2>. QED BY <1>1, <1>2, <2>1, <2>2, Zenon
<1>6. records' \in [Extents -> Records]
  BY <1>1, <1>2, Zenon
     DEF ClearSide, ClearRecord, ClearCount, ClearCache, WriteData, WriteSide, PublishRecord,
         CountRecord, Memory
<1>7. data' \in [Pairs -> [Extents -> Bytes]]
  <2>1. ASSUME NEW v \in Bytes, data' = [data EXCEPT ![staging_fd][writer.job.eid] = v]
        PROVE  data' \in [Pairs -> [Extents -> Bytes]]
    BY <2>1, <1>1, Zenon
  <2>2. CASE WriteData
    <3>1. CASE data' = [data EXCEPT ![staging_fd][writer.job.eid] = writer.job.val]
      BY <3>1, <2>1, <1>1, Zenon
    <3>2. CASE \E v \in {data[staging_fd][writer.job.eid], "rot"} :
                 data' = [data EXCEPT ![staging_fd][writer.job.eid] = v]
      <4>1. CASE data' = [data EXCEPT ![staging_fd][writer.job.eid] = "rot"]
        BY <4>1, <2>1, <1>2, Zenon
      <4>2. CASE data' = [data EXCEPT ![staging_fd][writer.job.eid] = data[staging_fd][writer.job.eid]]
        BY <4>2, <1>1, Zenon
      <4>. QED BY <3>2, <4>1, <4>2, Zenon
    <3>. QED BY <2>2, <3>1, <3>2, Zenon DEF WriteData
  <2>. QED BY <1>1, <2>2, Zenon
       DEF ClearSide, ClearRecord, ClearCount, ClearCache, WriteSide, PublishRecord, CountRecord, disk
<1>8. /\ writer.pc \notin InRestart /\ writer.pc \notin Clearing /\ writer.pc # "none"
      /\ writer' \in WriterRec
      /\ \/ writer'.pc \in {"wait", "bypass", "clear record", "clear count", "clear cache", "verify"}
         \/ writer'.pc \in {"side", "publish", "count"} /\ writer'.job.gen = generation
  <2>0. writer.pc \in {"data", "side", "publish", "count"} => writer.job.gen = generation
    BY <1>1, Zenon DEF NoStaleGeneration
  <2>1. CASE ClearSide \/ WriteData \/ WriteSide
    BY <2>0, <2>1, ErrorMoves, WriterMoves, Zenon
       DEF ClearSide, WriteData, WriteSide, WAt, WriterPcs, InRestart, Clearing
  <2>2. CASE ClearRecord \/ ClearCount \/ ClearCache
    BY <2>2, WriterMoves, Zenon
       DEF ClearRecord, ClearCount, ClearCache, WAt, WriterPcs, InRestart, Clearing
  <2>3. CASE PublishRecord \/ CountRecord
    BY <2>0, <2>3, WriterMoves, Zenon
       DEF PublishRecord, CountRecord, WAt, WriterPcs, InRestart, Clearing
  <2>. QED BY <2>1, <2>2, <2>3, Zenon
<1>. QED BY <1>3, <1>4, <1>5, <1>6, <1>7, <1>8, PlainStep, Zenon

(* The end of a transition, and the parts of restart_fresh that replace      *)
(* neither the attempt nor the descriptor.                                   *)
LEMMA RestartStep ==
    ASSUME IInv, \/ clear_verified \/ ResetRecords \/ ResetCount
                 \/ CreateStaging \/ CreateSidecar \/ UnlinkOld
    PROVE  IInv'
<1>1. /\ data \in [Pairs -> [Extents -> Bytes]] /\ side \in [Pairs -> [Extents -> Records]]
      /\ records \in [Extents -> Records] /\ CommitInv /\ writer \in WriterRec
  BY Zenon DEF IInv, Types
<1>2. Empty \in [Extents -> Bytes] /\ Empty \in [Extents -> Records]
  BY Zenon DEF Empty, Bytes, Records
<1>3. UNCHANGED <<commit, state, generation, staging_fd, commit_fd, queue, client>>
  BY Zenon DEF clear_verified, ResetRecords, ResetCount, CreateStaging, CreateSidecar, UnlinkOld,
         Memory, core, disk, WQuiet
<1>4. cache' \subseteq cache /\ (writer.pc \in Clearing => cache' = {})
  BY Zenon DEF clear_verified, ResetRecords, ResetCount, CreateStaging, CreateSidecar, UnlinkOld,
         Memory, Clearing, WAt
<1>5. data' \in [Pairs -> [Extents -> Bytes]] /\ side' \in [Pairs -> [Extents -> Records]]
  BY <1>1, <1>2, Zenon
     DEF clear_verified, ResetRecords, ResetCount, CreateStaging, CreateSidecar, UnlinkOld, disk
<1>6. records' \in [Extents -> Records]
  BY <1>1, <1>2, Zenon
     DEF clear_verified, ResetRecords, ResetCount, CreateStaging, CreateSidecar, UnlinkOld, Memory
<1>7. /\ writer.pc # "none" /\ writer' \in WriterRec
      /\ writer.pc \in InRestart => writer'.pc \in InRestart
      /\ \/ writer'.pc \in {"wait", "bypass", "restart records", "restart count", "restart queue",
                            "unlink old staging", "unlink old sidecar"}
         \/ writer'.pc \in {"create sidecar", "publish fd"} /\ writer'.new \in Pairs
  <2>1. CASE clear_verified
    BY <2>1, WriterMoves, Zenon DEF clear_verified, WAt, WriterPcs, InRestart
  <2>2. CASE ResetRecords \/ ResetCount
    BY <2>2, WriterMoves, Zenon DEF ResetRecords, ResetCount, WAt, WriterPcs, InRestart
  <2>3. CASE CreateStaging
    <3>1. CASE WDone("bypass")
      BY <2>3, <3>1, WriterMoves, Zenon DEF CreateStaging, WAt, WriterPcs, InRestart
    <3>2. ASSUME NEW p \in Pairs, writer' = [writer EXCEPT !.pc = "create sidecar", !.new = p]
          PROVE  /\ writer' \in WriterRec
                 /\ writer'.pc = "create sidecar" /\ writer'.new \in Pairs
      BY <3>2, <1>1, Zenon DEF WriterRec, WriterPcs, Fd
    <3>. QED BY <2>3, <3>1, <3>2, Zenon DEF CreateStaging, WAt, InRestart
  <2>4. CASE CreateSidecar \/ UnlinkOld
    BY <2>4, <1>1, WriterMoves, Zenon DEF CreateSidecar, UnlinkOld, CommitInv, WAt, WriterPcs, InRestart
  <2>. QED BY <2>1, <2>2, <2>3, <2>4, Zenon
<1>. QED BY <1>3, <1>4, <1>5, <1>6, <1>7, PlainStep, Zenon

(* A step of the writer thread. *)
LEMMA WriterStep ==
    ASSUME IInv, Writer
    PROVE  IInv'
<1>1. /\ Types /\ CommitInv /\ NoStaleGeneration /\ CacheInv
      /\ writer \in WriterRec /\ writer.job \in Job
  BY Zenon DEF IInv, Types, WriterRec
<1>2. CASE PopJob
  <2>1. /\ Head(queue) \in Job /\ queue' \in Seq(Job) /\ DOMAIN queue = 1 .. Len(queue)
        /\ Len(queue) \in Nat \ {0} /\ Head(queue) = queue[1]
        /\ DOMAIN queue' = 1 .. Len(queue) - 1
        /\ \A i \in 1 .. Len(queue) - 1 : queue'[i] = queue[i + 1]
    BY <1>1, <1>2 DEF PopJob, Types
  <2>2. /\ writer.pc = "wait" /\ writer' \in WriterRec
        /\ \/ writer' = writer
           \/ /\ writer'.job = Head(queue)
              /\ writer'.pc = IF Head(queue).clear THEN "clear" ELSE "data"
    BY <1>1, <1>2, <2>1, Zenon DEF PopJob, WAt, WriterRec, WriterPcs
  <2>3. UNCHANGED <<data, side, commit, state, records, generation, staging_fd, commit_fd, cache, client>>
    BY <1>2, Zenon DEF PopJob, disk, core, WQuiet
  <2>4. Types'
    BY <1>1, <2>1, <2>2, <2>3, Zenon DEF Types
  <2>5. CommitInv' /\ CacheInv'
    BY <1>1, <2>2, <2>3, Zenon DEF CommitInv, GoodCommit, CacheInv
  <2>6. NoStaleGeneration'
    <3>1. \A i \in DOMAIN queue : queue[i].clear \/ queue[i].gen = generation
      BY <1>1, <2>2, Zenon DEF NoStaleGeneration, InRestart
    <3>2. \A i \in DOMAIN queue' : queue'[i].clear \/ queue'[i].gen = generation
      BY <2>1, <3>1
    <3>3. Head(queue).clear \/ Head(queue).gen = generation
      BY <2>1, <3>1
    <3>4. writer'.pc = "data" => writer'.job.gen = generation
      BY <2>2, <3>3, Zenon
    <3>5. writer'.pc \in {"wait", "clear", "data"}
      BY <2>2, Zenon
    <3>. QED BY <2>3, <3>2, <3>4, <3>5, Zenon DEF NoStaleGeneration
  <2>7. \A c \in Clients : ClientOK(client[c])'
    BY <2>3, Zenon DEF IInv, ClientOK
  <2>. QED BY <2>4, <2>5, <2>6, <2>7, Zenon DEF IInv
<1>3. CASE \/ Verify \/ Rename \/ UnlinkSidecar
  <2>1. UNCHANGED <<data, side, state, records, generation, staging_fd, commit_fd, queue, cache, client>>
    BY <1>3, Zenon DEF Verify, Rename, UnlinkSidecar, Memory, core, disk, WQuiet
  <2>2. writer.pc \in {"verify", "rename", "unlink sidecar"}
    BY <1>3, Zenon DEF Verify, Rename, UnlinkSidecar, WAt
  <2>3. /\ writer' \in WriterRec
        /\ \/ /\ UNCHANGED commit
              /\ writer'.pc \in {"bypass", "restart"}
           \/ /\ UNCHANGED commit
              /\ writer'.pc = "rename" /\ (HasDigest => \A e \in Extents : data[staging_fd][e] = "good")
           \/ /\ writer.pc = "rename" /\ commit' = data[staging_fd]
              /\ writer'.pc = "unlink sidecar"
           \/ /\ UNCHANGED commit
              /\ writer.pc = "unlink sidecar" /\ writer'.pc = "commit fd"
    <3>1. CASE Verify
      BY <3>1, WriterMoves, Zenon DEF Verify, WAt, WriterPcs, disk
    <3>2. CASE Rename
      BY <3>2, WriterMoves, Zenon DEF Rename, WAt, WriterPcs
    <3>3. CASE UnlinkSidecar
      BY <3>3, WriterMoves, Zenon DEF UnlinkSidecar, WAt, WriterPcs
    <3>. QED BY <1>3, <3>1, <3>2, <3>3, Zenon
  <2>4. Types'
    BY <1>1, <2>1, <2>3, Zenon DEF Types
  <2>5. CommitInv'
    <3>1. data[staging_fd] \in [Extents -> Bytes]
      BY <1>1, <2>2, Zenon DEF Types, CommitInv
    <3>2. writer.pc = "rename" /\ commit' = data[staging_fd] => GoodCommit'
      BY <1>1, <3>1, Zenon DEF CommitInv, GoodCommit
    <3>3. UNCHANGED commit => GoodCommit' = GoodCommit
      BY Zenon DEF GoodCommit
    <3>. QED BY <1>1, <2>1, <2>2, <2>3, <3>2, <3>3, Zenon DEF CommitInv
  <2>6. NoStaleGeneration' /\ CacheInv'
    BY <1>1, <2>1, <2>2, <2>3, Zenon DEF NoStaleGeneration, InRestart, CacheInv
  <2>7. \A c \in Clients : ClientOK(client[c])'
    BY <2>1, Zenon DEF IInv, ClientOK
  <2>. QED BY <2>4, <2>5, <2>6, <2>7, Zenon DEF IInv
<1>4. CASE BindCommit \/ EnterComplete \/ EnterBypass
  <2>1. UNCHANGED <<data, side, commit, records, generation, staging_fd, queue, cache, client>>
    BY <1>4, Zenon DEF BindCommit, EnterComplete, EnterBypass, disk, WQuiet
  <2>2. /\ writer' \in WriterRec
        /\ \/ /\ writer.pc = "commit fd" /\ writer'.pc = "complete"
              /\ commit_fd' = TRUE /\ UNCHANGED state
           \/ /\ writer.pc = "complete" /\ writer'.pc = "drop cache"
              /\ state' = "Complete" /\ UNCHANGED commit_fd
           \/ /\ writer.pc = "bypass" /\ writer'.pc = "drop cache"
              /\ state' = "Bypass" /\ UNCHANGED commit_fd
    BY <1>4, WriterMoves, Zenon DEF BindCommit, EnterComplete, EnterBypass, WAt, WriterPcs
  <2>3. Types'
    BY <1>1, <2>1, <2>2, Zenon DEF Types
  <2>4. CommitInv'
    <3>1. GoodCommit' = GoodCommit
      BY <2>1, Zenon DEF GoodCommit
    <3>2. CASE commit_fd' = TRUE /\ UNCHANGED state
      BY <1>1, <2>1, <2>2, <3>1, <3>2, Zenon DEF CommitInv
    <3>3. CASE UNCHANGED commit_fd
      BY <1>1, <2>1, <2>2, <3>1, <3>3, Zenon DEF CommitInv
    <3>. QED BY <2>2, <3>2, <3>3, Zenon
  <2>5. NoStaleGeneration' /\ CacheInv'
    BY <1>1, <2>1, <2>2, Zenon DEF NoStaleGeneration, InRestart, CacheInv
  <2>6. \A c \in Clients : ClientOK(client[c])'
    <3>1. commit_fd => commit_fd'
      BY <2>2, Zenon
    <3>. QED BY <2>1, <3>1, Zenon DEF IInv, ClientOK
  <2>. QED BY <2>3, <2>4, <2>5, <2>6, Zenon DEF IInv
<1>5. CASE NextGeneration \/ ResetQueue
  <2>1. UNCHANGED <<data, side, commit, state, records, staging_fd, commit_fd, cache, client>>
    BY <1>5, Zenon DEF NextGeneration, ResetQueue, disk, core, WQuiet
  <2>2. /\ writer' \in WriterRec
        /\ \/ /\ writer.pc = "restart" /\ writer'.pc = "restart cache"
              /\ generation' = generation + 1 /\ UNCHANGED queue
           \/ /\ writer.pc = "restart queue" /\ writer'.pc = "create staging"
              /\ UNCHANGED generation /\ queue' = << >>
    BY <1>5, WriterMoves, Zenon DEF NextGeneration, ResetQueue, core, WAt, WriterPcs
  <2>3. Types'
    <3>1. generation' \in Nat
      <4>1. generation \in Nat
        BY <1>1, Zenon DEF Types
      <4>2. CASE generation' = generation + 1
        BY <4>1, <4>2
      <4>3. CASE UNCHANGED generation
        BY <4>1, <4>3, Zenon
      <4>. QED BY <2>2, <4>2, <4>3, Zenon
    <3>2. queue' \in Seq(Job)
      <4>1. CASE queue' = << >>
        BY <4>1
      <4>2. CASE UNCHANGED queue
        BY <1>1, <4>2, Zenon DEF Types
      <4>. QED BY <2>2, <4>1, <4>2, Zenon
    <3>. QED BY <1>1, <2>1, <2>2, <3>1, <3>2, Zenon DEF Types
  <2>4. CommitInv'
    BY <1>1, <2>1, <2>2, Zenon DEF CommitInv, GoodCommit
  <2>5. NoStaleGeneration'
    <3>1. CASE writer'.pc = "restart cache"
      BY <3>1, Zenon DEF NoStaleGeneration, InRestart
    <3>2. CASE writer'.pc = "create staging"
      <4>1. queue' = << >>
        BY <2>2, <3>2, Zenon
      <4>2. \A i \in DOMAIN queue' : FALSE
        BY <4>1
      <4>. QED BY <3>2, <4>2, Zenon DEF NoStaleGeneration
    <3>. QED BY <2>2, <3>1, <3>2, Zenon
  <2>6. CacheInv'
    BY <1>1, <2>1, <2>2, Zenon DEF CacheInv
  <2>7. \A c \in Clients : ClientOK(client[c])'
    BY <2>1, Zenon DEF IInv, ClientOK
  <2>. QED BY <2>3, <2>4, <2>5, <2>6, <2>7, Zenon DEF IInv
<1>6. CASE PublishFd
  <2>1. UNCHANGED <<data, side, commit, state, records, generation, commit_fd, queue, cache, client>>
    BY <1>6, Zenon DEF PublishFd, disk, WQuiet
  <2>2. /\ writer.pc = "publish fd" /\ staging_fd' = writer.new /\ writer.new \in Pairs
        /\ writer' \in WriterRec /\ writer'.pc = "fence cache"
    BY <1>1, <1>6, Zenon DEF PublishFd, WAt, CommitInv, Types, WriterRec, WriterPcs
  <2>3. Types'
    BY <1>1, <2>1, <2>2, Zenon DEF Types, Fd
  <2>4. CommitInv'
    BY <1>1, <2>1, <2>2, Zenon DEF CommitInv, GoodCommit
  <2>5. NoStaleGeneration' /\ CacheInv'
    BY <1>1, <2>1, <2>2, Zenon DEF NoStaleGeneration, InRestart, CacheInv
  <2>6. \A c \in Clients : ClientOK(client[c])'
    BY <2>1, Zenon DEF IInv, ClientOK
  <2>. QED BY <2>3, <2>4, <2>5, <2>6, Zenon DEF IInv
<1>. QED BY <1>2, <1>3, <1>4, <1>5, <1>6, JobStep, RestartStep, Zenon DEF Writer

(* Damage on disk changes bytes that neither the commit file nor a verified  *)
(* staging file holds.                                                       *)
LEMMA RotStep ==
    ASSUME IInv, Rot
    PROVE  IInv'
<1>1. PICK p \in Pairs, e \in Extents : data' = [data EXCEPT ![p][e] = "rot"]
  BY Zenon DEF Rot
<1>2. data' \in [Pairs -> [Extents -> Bytes]]
  BY <1>1, Zenon DEF IInv, Types, Bytes
<1>3. /\ UNCHANGED <<side, commit, state, records, generation, staging_fd, commit_fd, queue, cache,
                     writer, client>>
      /\ writer.pc # "rename"
  BY Zenon DEF Rot, Memory, core
<1>4. Types'
  BY <1>2, <1>3, Zenon DEF IInv, Types
<1>5. CommitInv'
  BY <1>3, Zenon DEF IInv, CommitInv, GoodCommit
<1>6. NoStaleGeneration' /\ CacheInv'
  BY <1>3, Zenon DEF IInv, NoStaleGeneration, CacheInv
<1>7. \A c \in Clients : ClientOK(client[c])'
  BY <1>3, Zenon DEF IInv, ClientOK
<1>. QED BY <1>4, <1>5, <1>6, <1>7, Zenon DEF IInv

(* A restart binds the commit file if it has its name, and otherwise one     *)
(* pair; no reader and no queued write is left.                              *)
LEMMA ReopenStep ==
    ASSUME IInv, Reopen
    PROVE  IInv'
<1>1. /\ data \in [Pairs -> [Extents -> Bytes]] /\ side \in [Pairs -> [Extents -> Records]]
      /\ commit = NoCommit \/ GoodCommit
  BY Zenon DEF IInv, Types, CommitInv
<1>2. Empty \in [Extents -> Bytes] /\ Empty \in [Extents -> Records]
  BY Zenon DEF Empty, Bytes, Records
<1>3. \A pc \in WriterPcs : WriterAt(pc) \in WriterRec /\ WriterAt(pc).pc = pc
  <2>1. NoJob \in Job /\ NoPair \in Fd
    BY Zenon DEF NoJob, Job, Records, Fd
  <2>. QED BY <2>1, Zenon DEF WriterAt, WriterRec
<1>4. /\ data' \in [Pairs -> [Extents -> Bytes]] /\ side' \in [Pairs -> [Extents -> Records]]
      /\ records' \in [Extents -> Records] /\ staging_fd' \in Fd /\ commit_fd' \in BOOLEAN
      /\ writer' \in WriterRec
      /\ \/ /\ writer'.pc = "none" /\ state' = "Complete" /\ commit_fd' = TRUE
            /\ commit # NoCommit
         \/ /\ writer'.pc \in {"verify", "wait"} /\ state' = "Filling" /\ commit_fd' = FALSE
            /\ staging_fd' \in Pairs
  <2>1. CASE OpenCommit
    BY <1>2, <1>3, <2>1, Zenon DEF OpenCommit, Fd, WriterPcs
  <2>2. CASE OpenPair
    <3>1. PICK p \in Pairs : Keep(p)
      BY <2>2, Zenon DEF OpenPair
    <3>2. /\ data' \in [Pairs -> [Extents -> Bytes]] /\ side' \in [Pairs -> [Extents -> Records]]
      BY <1>1, <1>2, <3>1, Zenon DEF Keep
    <3>3. records' \in [Extents -> Records] /\ staging_fd' \in Pairs
      BY <3>1, <3>2, Zenon DEF Keep
    <3>4. writer' \in WriterRec /\ writer'.pc \in {"verify", "wait"}
      BY <1>3, <3>1, Zenon DEF Keep, WriterPcs
    <3>. QED BY <3>1, <3>2, <3>3, <3>4, Zenon DEF Keep, Fd
  <2>. QED BY <2>1, <2>2, Zenon DEF Reopen
<1>5. /\ generation' = 1 /\ queue' = << >> /\ cache' = {} /\ UNCHANGED commit
      /\ client' = [c \in Clients |-> Idle("none")]
  BY Zenon DEF Reopen
<1>6. Idle("none") \in ClientRec /\ Idle("none").pc = "idle" /\ Idle("none").val = "none"
  BY Zenon DEF Idle, ClientRec, ClientPcs, Records, Fd
<1>7. Types'
  BY <1>4, <1>5, <1>6 DEF Types
<1>8. CommitInv'
  BY <1>1, <1>4, <1>5, Zenon DEF CommitInv, GoodCommit
<1>9. \A c \in Clients : ClientOK(client[c])'
  BY <1>5, <1>6, Zenon DEF ClientOK
<1>10. NoStaleGeneration' /\ CacheInv'
  BY <1>4, <1>5 DEF NoStaleGeneration, CacheInv
<1>. QED BY <1>7, <1>8, <1>9, <1>10, Zenon DEF IInv

-----------------------------------------------------------------------------

\* IInv holds throughout, whatever the number of extents, readers, faults and
\* restarts: what pread, populate, the writer thread and open do keeps it.
THEOREM Invariance == Spec => []IInv
<1>1. IInv /\ [Next]_vars => IInv'
  <2> SUFFICES ASSUME IInv, [Next]_vars PROVE IInv'
    BY Zenon
  <2>1. ASSUME NEW c \in Clients, Client(c) PROVE IInv'
    BY <2>1, ClientStep, Zenon
  <2>2. CASE Writer
    BY <2>2, WriterStep, Zenon
  <2>3. CASE Rot
    BY <2>3, RotStep, Zenon
  <2>4. CASE Reopen
    BY <2>4, ReopenStep, Zenon
  <2>5. CASE UNCHANGED vars
    <3>1. Types' /\ CommitInv'
      BY <2>5, Zenon DEF vars, IInv, Types, CommitInv, GoodCommit
    <3>2. NoStaleGeneration' /\ CacheInv'
      BY <2>5, Zenon DEF vars, IInv, NoStaleGeneration, CacheInv
    <3>3. \A c \in Clients : ClientOK(client[c])'
      BY <2>5, Zenon DEF vars, IInv, ClientOK
    <3>. QED BY <3>1, <3>2, <3>3, Zenon DEF IInv
  <2>. QED BY <2>1, <2>2, <2>3, <2>4, <2>5, Zenon DEF Next
<1>. QED BY InitHolds, <1>1, PTL DEF Spec

\* With a digest configured, overlaybd.commit holds exactly the blob for every
\* schedule of fetches, writes, damage, retries and restarts (complete_layer).
THEOREM CommitsAreVerified == Spec => []CommitIsVerified
<1>1. IInv => CommitIsVerified
  BY Zenon DEF IInv, CommitInv, GoodCommit, CommitIsVerified
<1>. QED BY Invariance, <1>1, PTL

\* No pread returns damaged or unwritten bytes or uses a commit descriptor
\* that is not open, for any number of extents, readers and warm-ups.
THEOREM ReadsReturnRemoteBytes == Spec => []ReadsAreRemoteBytes
<1>1. IInv => ReadsAreRemoteBytes
  BY Zenon DEF IInv, ClientOK, ReadsAreRemoteBytes, Clients
<1>. QED BY Invariance, <1>1, PTL

\* No write queued or running in the writer thread belongs to an attempt that
\* restart_fresh has given up.
THEOREM WritesAreOfThisAttempt == Spec => []NoStaleGeneration
<1>1. IInv => NoStaleGeneration
  BY Zenon DEF IInv
<1>. QED BY Invariance, <1>1, PTL

\* The verified-extent cache never outlives the pair or the attempt that it
\* was filled from (retain_verified against clear_verified).
THEOREM CacheOutlivesNothing == Spec => []CacheIsCurrent
<1>1. IInv => CacheIsCurrent
  BY Zenon DEF IInv, CacheInv, CacheIsCurrent
<1>. QED BY Invariance, <1>1, PTL

=============================================================================
