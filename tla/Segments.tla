------------------------------ MODULE Segments ------------------------------
(***************************************************************************)
(* Segment mappings: the index entries of LSMT layers (bytes::             *)
(* segment_mapping) and what the writable layers do with them.  A mapping  *)
(* covers the sectors lo .. lo+n-1; at is the payload sector that holds    *)
(* the first of them, or Zero for a zeroed mapping, which owns no payload. *)
(* Payload sectors are numbered from 1 behind the header region.  A log is *)
(* a sequence of mappings in publication order; a live index is a set of   *)
(* disjoint ones.                                                          *)
(***************************************************************************)
EXTENDS Integers, Sequences, FiniteSets, SequencesExt

CONSTANTS
    Sectors,        \* bound: the sectors of the largest device, 0 .. n-1
    MaxLength       \* kMaxLength: the sectors a mapping can cover

ASSUME SectorsAssumption ==
    /\ IsFiniteSet(Sectors) /\ Sectors # {} /\ Sectors = 0 .. Cardinality(Sectors) - 1
    /\ MaxLength \in Nat \ {0}

Hole == -1
Zero == 0

End(m) == m.lo + m.n
Cover(m) == m.lo .. (End(m) - 1)

\* Where mapping m keeps sector s.
At(m, s) == IF m.at = Zero THEN Zero ELSE m.at + (s - m.lo)

Place(S, s) ==
    IF \E m \in S : s \in Cover(m) THEN At(CHOOSE m \in S : s \in Cover(m), s) ELSE Hole

InOrder(S) == SetToSortSeq(S, LAMBDA a, b : a.lo < b.lo)

\* Drop the coverage of [lo, hi): what sticks out on either side is kept.
Trim(S, lo, hi) ==
    {m \in S : End(m) <= lo \/ m.lo >= hi}
        \union {[m EXCEPT !.n = lo - m.lo] : m \in {m \in S : m.lo < lo /\ End(m) > lo}}
        \union {[m EXCEPT !.lo = hi, !.n = End(m) - hi, !.at = At(m, hi)] :
                    m \in {m \in S : m.lo < hi /\ End(m) > hi}}

Joins(a, b) ==
    /\ a.at # Zero /\ b.at # Zero
    /\ End(a) = b.lo /\ a.at + a.n = b.at
    /\ a.n + b.n <= MaxLength

\* Add a mapping to a disjoint index and coalesce it with its neighbours.
Insert(S, m) ==
    LET P == {p \in S : Joins(p, m)}
        grown == IF P = {} THEN m ELSE LET p == CHOOSE p \in P : TRUE IN [p EXCEPT !.n = @ + m.n]
        Q == {q \in S \ P : Joins(grown, q)}
        full == IF Q = {} THEN grown
                ELSE LET q == CHOOSE q \in Q : TRUE IN [grown EXCEPT !.n = @ + q.n]
    IN  (S \ (P \union Q)) \union {full}

InsertAll(S, ms) == FoldLeft(Insert, S, ms)

\* The record of a log that decides sector s, 0 when there is none.
Owner(log, s) == Max({i \in DOMAIN log : s \in Cover(log[i])} \union {0})

Starts(log) ==
    {s \in Sectors : Owner(log, s) # 0 /\ (s = 0 \/ Owner(log, s - 1) # Owner(log, s))}

\* The live mappings of a replayed log: what is left of each record.
Replayed(log) ==
    {LET m == log[Owner(log, s)]
         tail == {t \in Sectors : t >= s /\ \A u \in s .. t : Owner(log, u) = Owner(log, s)}
     IN  [m EXCEPT !.lo = s, !.n = Cardinality(tail), !.at = At(m, s)] : s \in Starts(log)}

Aliased(S) ==
    \E a, b \in S : /\ a # b /\ a.at # Zero /\ b.at # Zero
                    /\ a.at <= b.at /\ b.at < a.at + a.n

\* Replay accepts the log against a payload of the given length.
Replays(log, size, payload) ==
    /\ \A i \in DOMAIN log :
          /\ log[i].n > 0 /\ End(log[i]) <= size
          /\ log[i].at # Zero => log[i].at + log[i].n - 1 <= payload
    /\ ~Aliased(Replayed(log))
=============================================================================
