-------------------------- MODULE SparseUpperProofs --------------------------
(***************************************************************************)
(* Proofs about the sparse upper for every geometry, every set of sizes    *)
(* and ranges, and any number of mutations and failures: the extents of    *)
(* the file are enough to give the view back at every step, the view shows *)
(* what a reopen would, and an export that succeeded is exact.             *)
(***************************************************************************)
EXTENDS SparseUpper, FiniteSetTheorems, TLAPS

Kinds == {"hole", "zero", "data"}
Limit == Blocks * PerBlock

Types ==
    /\ disk \in [size : 0 .. Limit, kind : [BlockIds -> Kinds], val : [Sectors -> Nat]]
    /\ owner \in {"none", "device", "export"}
    /\ top \in [segs : [Sectors -> Kinds], valid : BOOLEAN, vsize : 0 .. Limit,
                life : {"closed", "open", "checkpointed"}]
    /\ vsize \in 0 .. Limit
    /\ index = NoIndex \/ index \in [Sectors -> Kinds]
    /\ op \in [pc : {"idle", "block", "refresh"}, kind : {"none", "write", "discard"},
               at : Nat, hi : Nat, lo : Nat, v : Nat, fast : BOOLEAN, snap : BOOLEAN,
               failed : BOOLEAN]
    /\ allowed \in [Sectors -> SUBSET Nat]
    /\ budget \in [ops : Nat, faults : Nat]

\* The segments in memory say of each sector what the extents say: who owns
\* it, and the byte it reads as.  (A zeroed block may have been written.)
Sound(segs, d) ==
    \A s \in Sectors : /\ segs[s] = "hole" <=> d.kind[Block(s)] = "hole"
                       /\ Resolve(segs[s], d, s) = Recovered(d, s)

\* An index that a read may use is the one of the top's segments.
IndexIsTops == index # NoIndex => top.valid /\ index = top.segs

\* A mutation in progress: its range; what it has done; the blocks it has yet
\* to reach are still described by the index it copies up through.
Running ==
    /\ owner = "device" /\ op.lo <= op.at /\ op.at <= op.hi /\ op.hi <= Limit
    /\ op.kind = "discard" => op.v = Zero /\ ~op.fast
    /\ \A s \in op.lo .. op.hi - 1 : op.v \in allowed[s]
    /\ ~op.failed => \A s \in op.lo .. op.at - 1 : Recovered(disk, s) = op.v
    /\ op.fast /\ op.snap /\ ~op.failed => top.valid /\ index = top.segs
    /\ op.pc = "refresh" /\ ~op.failed => op.at = op.hi
    /\ op.pc = "block" =>
          /\ op.at < op.hi /\ ~op.failed /\ top.valid /\ index # NoIndex
          /\ op.fast => \A s \in op.at .. op.hi - 1 : top.segs[s] = "data"
          /\ \A s \in Sectors : Block(s) >= Block(op.at) => View(s) = Recovered(disk, s)

\* The export and the device exclude each other, and the export works on the
\* file as it opened it.
Exporting ==
    /\ owner = "export" /\ DOMAIN export = {"pc", "size", "art"} /\ export.size \in 0 .. Limit
    /\ export.pc \in {"opened", "staged", "published", "done"}
    /\ export.pc = "opened" => export.art = Scan(disk)
    /\ export.pc = "staged" => export.art = Artifact(disk, Scan(disk), export.size)
    /\ export.pc \in {"published", "done"} => target = Artifact(disk, Scan(disk), export.size)

IInv ==
    /\ Types
    /\ \A s \in Sectors : Recovered(disk, s) \in allowed[s]
    /\ owner = "device" /\ top.valid => Sound(top.segs, disk)
    /\ owner = "device" /\ op.pc = "idle" => IndexIsTops
    /\ op.pc # "idle" => Running
    /\ export # NoExport => Exporting

-----------------------------------------------------------------------------
(* Sectors and blocks. *)

(* Every sector lies in its block, and the block within the file's limit. *)
LEMMA SectorInBlock ==
    ASSUME NEW s \in Sectors
    PROVE  s \in Nat /\ Block(s) \in BlockIds /\ s \in Of(Block(s)) /\ Of(Block(s)) \subseteq Sectors
<1>1. s \in Nat /\ s < Blocks * PerBlock
  BY Geometry DEF Sectors
<1>2. Block(s) \in Nat /\ Block(s) * PerBlock <= s /\ s < (Block(s) + 1) * PerBlock
  BY <1>1, Geometry DEF Block
<1>3. Block(s) < Blocks
  BY <1>1, <1>2, Geometry
<1>4. (Block(s) + 1) * PerBlock <= Blocks * PerBlock
  BY <1>2, <1>3, Geometry
<1>. QED BY <1>1, <1>2, <1>3, <1>4, Geometry DEF BlockIds, Of, Sectors

(* The sectors of a block are those whose block it is. *)
LEMMA SameBlock ==
    ASSUME NEW s \in Sectors, NEW t \in Sectors
    PROVE  t \in Of(Block(s)) <=> Block(t) = Block(s)
<1>1. s \in Nat /\ t \in Nat
  BY Geometry DEF Sectors
<1>2. /\ Block(s) \in Nat /\ Block(t) \in Nat
      /\ Block(t) * PerBlock <= t /\ t < (Block(t) + 1) * PerBlock
  BY <1>1, Geometry DEF Block
<1>3. ASSUME t \in Of(Block(s)) PROVE Block(t) = Block(s)
  <2>1. Block(s) * PerBlock <= t /\ t < (Block(s) + 1) * PerBlock
    BY <1>1, <1>2, <1>3, Geometry DEF Of
  <2>2. t \div PerBlock = Block(s)
    BY <1>1, <1>2, <2>1, Geometry
  <2>. QED BY <2>2 DEF Block
<1>4. ASSUME Block(t) = Block(s) PROVE t \in Of(Block(s))
  BY <1>1, <1>2, <1>4, Geometry DEF Of
<1>. QED BY <1>3, <1>4

(* The sector after a block is in the next block. *)
LEMMA NextBlock ==
    ASSUME NEW s \in Sectors
    PROVE  Block((Block(s) + 1) * PerBlock) = Block(s) + 1 /\ s < (Block(s) + 1) * PerBlock
<1>1. s \in Nat
  BY Geometry DEF Sectors
<1>2. Block(s) \in Nat /\ s < (Block(s) + 1) * PerBlock
  BY <1>1, Geometry DEF Block
<1>3. ((Block(s) + 1) * PerBlock) \div PerBlock = Block(s) + 1
  BY <1>2, Geometry
<1>. QED BY <1>2, <1>3 DEF Block

-----------------------------------------------------------------------------
(* One block of a mutation. *)

(* Whatever the kernel left of the block, the piece reads as the new bytes and *)
(* its neighbours as before, and no other block is touched (write_extents).    *)
LEMMA BlockStep ==
    ASSUME IInv, op.pc = "block", NEW d \in Mutated
    PROVE  /\ d \in [size : 0 .. Limit, kind : [BlockIds -> Kinds], val : [Sectors -> Nat]]
           /\ d.size = disk.size
           /\ Here \subseteq Sectors /\ Piece \subseteq Here /\ op.at \in Piece
           /\ \A s \in Sectors \ Here : /\ d.kind[Block(s)] = disk.kind[Block(s)]
                                        /\ FileByte(d, s) = FileByte(disk, s)
                                        /\ Recovered(d, s) = Recovered(disk, s)
           /\ \A s \in Here : d.kind[Block(s)] # "hole" /\ FileByte(d, s) = Recovered(d, s)
           /\ \A s \in Piece : Recovered(d, s) = op.v
           /\ \A s \in Here \ Piece : Recovered(d, s) = Recovered(disk, s)
<1> USE DEF Zero
<1>1. /\ Types /\ Running /\ Sound(top.segs, disk)
      /\ op.at \in Nat /\ op.hi \in Nat /\ op.v \in Nat /\ op.at < op.hi /\ op.hi <= Limit
      /\ index \in [Sectors -> Kinds]
  BY DEF IInv, Running, Types
<1>2. op.at \in Sectors
  BY <1>1, Geometry DEF Sectors, Limit
<1>3. /\ Here \subseteq Sectors /\ Piece \subseteq Here /\ op.at \in Piece
      /\ Block(op.at) \in BlockIds
      /\ \A s \in Sectors : s \in Here <=> Block(s) = Block(op.at)
  <2>1. op.at \in op.at .. op.hi - 1
    BY <1>1
  <2>. QED BY <1>2, <2>1, SectorInBlock, SameBlock DEF Here, Piece
<1>4. \A s \in Sectors : Block(s) \in BlockIds
  BY SectorInBlock
<1>5. Written \subseteq Here /\ Piece \subseteq Written
  BY <1>3 DEF Written
<1>6. ASSUME NEW s \in Here PROVE View(s) = Recovered(disk, s) /\ View(s) \in Nat
  <2>1. Block(s) >= Block(op.at)
    BY <1>3, <1>4, Geometry DEF BlockIds
  <2>2. View(s) = Recovered(disk, s)
    BY <1>1, <1>3, <2>1 DEF Running
  <2>3. index[s] \in Kinds /\ disk.val[s] \in Nat
    BY <1>1, <1>3 DEF Types
  <2>. QED BY <2>2, <2>3, Bounds DEF View, Resolve, Kinds, Lower, LowerByte, FileByte
<1>7. ASSUME NEW s \in Here \ Written PROVE FileByte(disk, s) = Recovered(disk, s)
  <2>1. top.segs[s] # "hole"
    BY <1>3, <1>5 DEF Written, CopiesUp, Whole, Owned
  <2>2. disk.kind[Block(s)] \in {"zero", "data"}
    BY <1>1, <1>3, <1>4, <2>1 DEF Sound, Types, Kinds
  <2>. QED BY <1>3, <2>2 DEF Recovered, Resolve, Scan, FileByte
<1>8. \A s \in Sectors : FileByte(disk, s) \in Nat /\ disk.val[s] \in Nat
  BY <1>1 DEF FileByte, Types
<1>9. PICK k \in {"data", "zero"} : d = BlockWritten(k) /\ (k = "zero" => ZeroWhole)
  BY DEF Mutated
<1>10. /\ d.size = disk.size
       /\ d.kind = [disk.kind EXCEPT ![Block(op.at)] = k]
       /\ d.val = [s \in Sectors |->
                            CASE s \in Piece -> op.v
                              [] s \in Written \ Piece -> View(s)
                              [] s \in Here \ Written -> FileByte(disk, s)
                              [] OTHER -> disk.val[s]]
       /\ d = [size |-> d.size, kind |-> d.kind, val |-> d.val]
  BY <1>1, <1>9 DEF BlockWritten, Types
<1>11. ASSUME NEW s \in Sectors
       PROVE  /\ d.val[s] \in Nat
              /\ s \in Piece => d.val[s] = op.v
              /\ s \in Here \ Piece => d.val[s] = Recovered(disk, s)
              /\ s \notin Here => d.val[s] = disk.val[s]
  <2>1. CASE s \in Piece
    BY <2>1, <1>1, <1>3, <1>5, <1>10
  <2>2. CASE s \in Written \ Piece
    BY <2>2, <1>5, <1>6, <1>10
  <2>3. CASE s \in Here \ Written
    BY <2>3, <1>5, <1>7, <1>8, <1>10
  <2>4. CASE s \notin Here
    BY <2>4, <1>3, <1>5, <1>8, <1>10
  <2>. QED BY <2>1, <2>2, <2>3, <2>4
<1>12. d \in [size : 0 .. Limit, kind : [BlockIds -> Kinds], val : [Sectors -> Nat]]
  <2>1. d.size \in 0 .. Limit
    BY <1>1, <1>10 DEF Types
  <2>2. d.kind \in [BlockIds -> Kinds]
    BY <1>1, <1>10 DEF Types, Kinds
  <2>3. d.val \in [Sectors -> Nat]
    BY <1>10, <1>11
  <2>. QED BY <1>10, <2>1, <2>2, <2>3
<1>13. ASSUME NEW s \in Sectors \ Here
       PROVE  /\ d.kind[Block(s)] = disk.kind[Block(s)]
              /\ FileByte(d, s) = FileByte(disk, s)
              /\ Recovered(d, s) = Recovered(disk, s)
  <2>1. d.kind[Block(s)] = disk.kind[Block(s)]
    BY <1>1, <1>3, <1>4, <1>10 DEF Types
  <2>2. FileByte(d, s) = FileByte(disk, s)
    BY <2>1, <1>11 DEF FileByte
  <2>. QED BY <2>1, <2>2 DEF Recovered, Resolve, Scan
<1>14. ASSUME NEW s \in Here
       PROVE  d.kind[Block(s)] = k /\ s \in Sectors /\ k # "hole"
  BY <1>1, <1>3, <1>10 DEF Types
<1>15. ASSUME k = "zero" PROVE Piece = Here /\ op.v = 0
  BY <1>9, <1>15, <1>1 DEF ZeroWhole, Whole, Running
<1>16. \A s \in Here : FileByte(d, s) = Recovered(d, s)
  BY <1>14 DEF Recovered, Resolve, Scan, FileByte
<1>17. \A s \in Piece : Recovered(d, s) = op.v
  BY <1>3, <1>11, <1>14, <1>15, <1>16 DEF FileByte
<1>18. \A s \in Here \ Piece : Recovered(d, s) = Recovered(disk, s)
  BY <1>3, <1>11, <1>14, <1>15, <1>16 DEF FileByte
<1>. QED BY <1>3, <1>10, <1>12, <1>13, <1>14, <1>16, <1>17, <1>18

(* A scan of the file describes it. *)
LEMMA ScanIsSound ==
    ASSUME NEW d, d.kind \in [BlockIds -> Kinds]
    PROVE  Sound(Scan(d), d) /\ Scan(d) \in [Sectors -> Kinds]
  BY SectorInBlock DEF Sound, Scan, Recovered

(* What reads alike, and is owned alike, resolves alike through the segments. *)
LEMMA OwnedResolves ==
    ASSUME NEW place \in {"zero", "data"}, NEW d, NEW e, NEW s,
           Resolve(place, d, s) = Recovered(d, s), Recovered(e, s) = Recovered(d, s),
           FileByte(e, s) = Recovered(e, s)
    PROVE  Resolve(place, e, s) = Recovered(e, s)
<1>1. CASE place = "zero"
  BY <1>1 DEF Resolve
<1>2. CASE place = "data"
  BY <1>2 DEF Resolve
<1>. QED BY <1>1, <1>2

(* The segments prepared for a block describe the file once it is written. *)
LEMMA ClaimedIsSound ==
    ASSUME IInv, op.pc = "block", NEW d \in Mutated
    PROVE  Sound(Claimed, d) /\ Claimed \in [Sectors -> Kinds]
<1>1. /\ Types /\ Sound(top.segs, disk) /\ top.segs \in [Sectors -> Kinds]
      /\ op.kind = "discard" => op.v = Zero
  BY DEF IInv, Running, Types
<1>2. /\ Here \subseteq Sectors /\ Piece \subseteq Here
      /\ \A s \in Sectors \ Here : /\ d.kind[Block(s)] = disk.kind[Block(s)]
                                   /\ FileByte(d, s) = FileByte(disk, s)
                                   /\ Recovered(d, s) = Recovered(disk, s)
      /\ \A s \in Here : d.kind[Block(s)] # "hole" /\ FileByte(d, s) = Recovered(d, s)
      /\ \A s \in Piece : Recovered(d, s) = op.v
      /\ \A s \in Here \ Piece : Recovered(d, s) = Recovered(disk, s)
  BY BlockStep
<1>3. Written \subseteq Here /\ Piece \subseteq Written /\ (ZeroWhole => Written = Piece)
  BY <1>2 DEF Written, CopiesUp, ZeroWhole
<1>4. Claimed \in [Sectors -> Kinds]
  BY <1>1 DEF Claimed, Kinds
<1>5. ASSUME NEW s \in Sectors
      PROVE  /\ Claimed[s] = "hole" <=> d.kind[Block(s)] = "hole"
             /\ Resolve(Claimed[s], d, s) = Recovered(d, s)
  <2>1. CASE s \notin Here
    <3>1. Claimed[s] = top.segs[s]
      BY <2>1, <1>3 DEF Claimed
    <3>2. Resolve(top.segs[s], d, s) = Resolve(top.segs[s], disk, s)
      BY <2>1, <1>2 DEF Resolve
    <3>. QED BY <2>1, <3>1, <3>2, <1>1, <1>2 DEF Sound
  <2>2. CASE s \in Written /\ ZeroWhole
    <3>1. Claimed[s] = "zero" /\ Recovered(d, s) = Zero
      BY <2>2, <1>1, <1>2, <1>3 DEF Claimed, ZeroWhole
    <3>. QED BY <2>2, <3>1, <1>2, <1>3 DEF Resolve
  <2>3. CASE s \in Written /\ ~ZeroWhole
    <3>1. Claimed[s] = "data"
      BY <2>3 DEF Claimed
    <3>. QED BY <2>3, <3>1, <1>2, <1>3 DEF Resolve
  <2>4. CASE s \in Here \ Written
    <3>1. Claimed[s] = top.segs[s] /\ top.segs[s] \in {"zero", "data"}
      BY <2>4, <1>1, <1>3 DEF Claimed, Written, CopiesUp, Whole, Owned, Kinds
    <3>2. Resolve(top.segs[s], disk, s) = Recovered(disk, s)
      BY <1>1 DEF Sound
    <3>3. Recovered(d, s) = Recovered(disk, s) /\ FileByte(d, s) = Recovered(d, s)
      BY <2>4, <1>2, <1>3
    <3>. QED BY <2>4, <3>1, <3>2, <3>3, <1>2, OwnedResolves
  <2>. QED BY <2>1, <2>2, <2>3, <2>4
<1>. QED BY <1>4, <1>5 DEF Sound

(* A write of known data leaves the segments true. *)
LEMMA KnownDataIsSound ==
    ASSUME IInv, op.pc = "block", op.fast, NEW d \in Mutated
    PROVE  Sound(top.segs, d)
<1>1. /\ Types /\ Running /\ Sound(top.segs, disk) /\ top.segs \in [Sectors -> Kinds]
      /\ op.at \in Nat /\ op.hi \in Nat /\ op.at < op.hi
      /\ \A s \in op.at .. op.hi - 1 : top.segs[s] = "data"
  BY DEF IInv, Running, Types
<1>2. /\ Here \subseteq Sectors /\ Piece \subseteq Here /\ op.at \in Piece
      /\ \A s \in Sectors \ Here : /\ d.kind[Block(s)] = disk.kind[Block(s)]
                                   /\ FileByte(d, s) = FileByte(disk, s)
                                   /\ Recovered(d, s) = Recovered(disk, s)
      /\ \A s \in Here : d.kind[Block(s)] # "hole" /\ FileByte(d, s) = Recovered(d, s)
      /\ \A s \in Piece : Recovered(d, s) = op.v
      /\ \A s \in Here \ Piece : Recovered(d, s) = Recovered(disk, s)
  BY BlockStep
<1>3. ASSUME NEW s \in Here PROVE top.segs[s] \in {"zero", "data"}
  <2>1. top.segs[op.at] = "data" /\ op.at \in Sectors
    BY <1>1, <1>2 DEF Piece
  <2>2. Block(s) = Block(op.at)
    BY <1>2, <2>1, SameBlock DEF Here
  <2>3. disk.kind[Block(s)] # "hole"
    BY <1>1, <2>1, <2>2 DEF Sound
  <2>. QED BY <1>1, <1>2, <2>3 DEF Sound, Kinds
<1>4. ASSUME NEW s \in Sectors
      PROVE  /\ top.segs[s] = "hole" <=> d.kind[Block(s)] = "hole"
             /\ Resolve(top.segs[s], d, s) = Recovered(d, s)
  <2>1. CASE s \notin Here
    <3>1. Resolve(top.segs[s], d, s) = Resolve(top.segs[s], disk, s)
      BY <2>1, <1>2 DEF Resolve
    <3>. QED BY <2>1, <3>1, <1>1, <1>2 DEF Sound
  <2>2. CASE s \in Piece
    <3>1. top.segs[s] = "data"
      BY <2>2, <1>1 DEF Piece
    <3>. QED BY <2>2, <3>1, <1>2 DEF Resolve
  <2>3. CASE s \in Here \ Piece
    <3>1. Resolve(top.segs[s], disk, s) = Recovered(disk, s)
      BY <1>1 DEF Sound
    <3>2. Recovered(d, s) = Recovered(disk, s) /\ FileByte(d, s) = Recovered(d, s)
      BY <2>3, <1>2
    <3>. QED BY <2>3, <3>1, <3>2, <1>2, <1>3, OwnedResolves
  <2>. QED BY <2>1, <2>2, <2>3
<1>. QED BY <1>4 DEF Sound

(* Nothing that was acknowledged is lost by a block that is written. *)
LEMMA BlockKeepsAllowed ==
    ASSUME IInv, op.pc = "block", NEW d \in Mutated
    PROVE  \A s \in Sectors : Recovered(d, s) \in allowed[s]
<1>1. /\ \A s \in Sectors : Recovered(disk, s) \in allowed[s]
      /\ \A s \in op.lo .. op.hi - 1 : op.v \in allowed[s]
      /\ op.at \in Nat /\ op.hi \in Nat /\ op.lo \in Nat /\ op.lo <= op.at
  BY DEF IInv, Running, Types
<1>2. Piece \subseteq op.lo .. op.hi - 1
  BY <1>1 DEF Piece
<1>. QED BY <1>1, <1>2, BlockStep

(* After a block the mutation is at the next one, or at its end. *)
LEMMA Advancing ==
    ASSUME IInv, op.pc = "block", NEW d \in Mutated
    PROVE  /\ NextPiece \in Nat /\ op.at < NextPiece /\ NextPiece <= op.hi
           /\ \A s \in op.lo .. NextPiece - 1 : Recovered(d, s) = op.v
           /\ NextPiece # op.hi => \A s \in Sectors : Block(s) >= Block(NextPiece) =>
                                      Resolve(index[s], d, s) = Recovered(d, s)
<1>1. /\ Types /\ Running
      /\ op.at \in Nat /\ op.hi \in Nat /\ op.lo \in Nat /\ op.at < op.hi /\ op.hi <= Limit
      /\ \A s \in op.lo .. op.at - 1 : Recovered(disk, s) = op.v
      /\ \A s \in Sectors : Block(s) >= Block(op.at) => Resolve(index[s], disk, s) = Recovered(disk, s)
  BY DEF IInv, Running, Types, View
<1>2. op.at \in Sectors
  BY <1>1, Geometry DEF Sectors, Limit
<1>3. Block(op.at) \in Nat /\ BlockEnd \in Nat /\ Block(BlockEnd) = Block(op.at) + 1 /\ op.at < BlockEnd
  BY <1>2, SectorInBlock, NextBlock, Geometry DEF BlockIds, BlockEnd
<1>4. NextPiece \in Nat /\ op.at < NextPiece /\ NextPiece <= op.hi /\ NextPiece <= BlockEnd
  BY <1>1, <1>3 DEF NextPiece
<1>5. ASSUME NEW s \in op.lo .. NextPiece - 1 PROVE Recovered(d, s) = op.v
  <2>1. s \in Nat /\ s \in Sectors /\ s < op.hi /\ s < BlockEnd
    BY <1>1, <1>3, <1>4, Geometry DEF Sectors, Limit
  <2>2. CASE s < op.at
    BY <2>1, <2>2, <1>1, BlockStep
  <2>3. CASE s >= op.at
    <3>1. s \in Here
      BY <2>1, <2>3, <1>1, <1>2, <1>3, SectorInBlock, Geometry DEF Here, Of, BlockEnd
    <3>2. s \in Piece
      BY <2>1, <2>3, <3>1, <1>1 DEF Piece
    <3>. QED BY <3>2, BlockStep
  <2>. QED BY <2>1, <2>2, <2>3, <1>1
<1>6. ASSUME NextPiece # op.hi, NEW s \in Sectors, Block(s) >= Block(NextPiece)
      PROVE  Resolve(index[s], d, s) = Recovered(d, s)
  <2>1. NextPiece = BlockEnd
    BY <1>6 DEF NextPiece
  <2>2. Block(s) \in Nat /\ Block(s) >= Block(op.at) /\ Block(s) # Block(op.at)
    BY <1>3, <1>6, <2>1, SectorInBlock, Geometry DEF BlockIds
  <2>3. s \notin Here
    BY <2>2, <1>2, SameBlock DEF Here
  <2>4. FileByte(d, s) = FileByte(disk, s) /\ Recovered(d, s) = Recovered(disk, s)
    BY <2>3, BlockStep
  <2>. QED BY <1>1, <2>2, <2>4 DEF Resolve
<1>. QED BY <1>4, <1>5, <1>6

-----------------------------------------------------------------------------
(* The inductive invariant. *)

(* The device and an export exclude each other. *)
LEMMA LockExcludes ==
    ASSUME IInv
    PROVE  /\ owner # "export" => export = NoExport
           /\ owner # "device" => op.pc = "idle"
  BY DEF IInv, Running, Exporting, Types

LEMMA InitHolds == Init => IInv
<1> SUFFICES ASSUME Init PROVE IInv
  OBVIOUS
<1>1. 0 \in 0 .. Limit
  BY Geometry DEF Limit
<1>2. Types
  BY <1>1, Bounds DEF Init, Types, Kinds, NoTop, NoOp, Zero, Lower, LowerByte
<1>3. \A s \in Sectors : Recovered(disk, s) \in allowed[s]
  BY SectorInBlock DEF Init, Recovered, Resolve, Scan
<1>. QED BY <1>2, <1>3 DEF Init, IInv, NoOp

(* open_sync *)
LEMMA OpenDeviceKeeps ==
    ASSUME IInv, NEW n \in Sizes, OpenDevice(n)
    PROVE  IInv'
<1> DEFINE size == Larger(n, disk.size)
<1>1. Types /\ owner = "none" /\ export = NoExport /\ op.pc = "idle"
  BY LockExcludes DEF IInv, OpenDevice
<1>2. size \in 0 .. Limit /\ size >= LowerSize /\ LowerSize \in Nat
  BY <1>1, SizesCoverLowers, Geometry DEF Types, Larger, Limit
<1>3. /\ disk' = [disk EXCEPT !.size = size]
      /\ disk'.kind = disk.kind /\ disk'.val = disk.val
      /\ disk' \in [size : 0 .. Limit, kind : [BlockIds -> Kinds], val : [Sectors -> Nat]]
  BY <1>1, <1>2 DEF OpenDevice, Types
<1>4. \A s \in Sectors : Recovered(disk', s) = Recovered(disk, s)
  BY <1>3 DEF Recovered, Resolve, Scan, FileByte
<1>5. Scan(disk) = Scan(disk') /\ Sound(Scan(disk), disk') /\ Scan(disk) \in [Sectors -> Kinds]
  <2>1. Scan(disk) = Scan(disk')
    BY <1>3 DEF Scan
  <2>. QED BY <2>1, <1>1, <1>3, ScanIsSound DEF Types
<1>6. UNCHANGED <<op, allowed, export, target>>
  BY DEF OpenDevice
<1>7. CASE UNCHANGED <<owner, top, vsize, index>> /\ Charge
  <2>1. budget' \in [ops : Nat, faults : Nat]
    BY <1>7, <1>1 DEF Charge, Types
  <2>2. Types'
    BY <1>1, <1>3, <1>6, <1>7, <2>1 DEF Types
  <2>. QED BY <2>2, <1>1, <1>4, <1>6, <1>7 DEF IInv
<1>8. CASE /\ owner' = "device"
           /\ top' = [segs |-> Scan(disk), valid |-> TRUE, vsize |-> size, life |-> "open"]
           /\ vsize' = Larger(size, LowerSize) /\ index' = Rebuilt(top')
           /\ UNCHANGED budget
  <2>1. vsize' \in 0 .. Limit
    BY <1>2, <1>8 DEF Larger
  <2>2. top'.segs = Scan(disk) /\ top'.valid /\ index' = top'.segs
    BY <1>8 DEF Rebuilt
  <2>3. Types'
    BY <1>1, <1>2, <1>3, <1>5, <1>6, <1>8, <2>1, <2>2 DEF Types
  <2>. QED BY <2>2, <2>3, <1>1, <1>4, <1>5, <1>6 DEF IInv, IndexIsTops
<1>. QED BY <1>7, <1>8 DEF OpenDevice

(* grow, checkpoint and a discard that is refused keep the extents and segments. *)
LEMMA QuietKeeps ==
    ASSUME IInv, (\E n \in Sizes : Grow(n)) \/ Checkpoint \/ DiscardRefused
    PROVE  IInv'
<1>1. Types /\ owner = "device" /\ export = NoExport /\ op.pc = "idle"
  BY LockExcludes DEF IInv, Grow, Checkpoint, DiscardRefused, Ready
<1>2. UNCHANGED <<owner, op, allowed, export, target>>
  BY DEF Grow, Checkpoint, DiscardRefused
<1>3. /\ disk'.kind = disk.kind /\ disk'.val = disk.val
      /\ disk' \in [size : 0 .. Limit, kind : [BlockIds -> Kinds], val : [Sectors -> Nat]]
      /\ vsize' \in 0 .. Limit
      /\ top'.segs = top.segs /\ top'.valid = top.valid
      /\ top' \in [segs : [Sectors -> Kinds], valid : BOOLEAN, vsize : 0 .. Limit,
                   life : {"closed", "open", "checkpointed"}]
      /\ index' \in {index, NoIndex}
  <2>1. CASE \E n \in Sizes : Grow(n)
    <3>1. PICK n \in Sizes : Grow(n)
      BY <2>1
    <3>2. n \in 0 .. Limit
      BY SizesCoverLowers, Geometry DEF Limit
    <3>. QED BY <3>1, <3>2, <1>1 DEF Grow, Types
  <2>2. CASE Checkpoint
    BY <2>2, <1>1 DEF Checkpoint, Types
  <2>3. CASE DiscardRefused
    BY <2>3, <1>1 DEF DiscardRefused, Types
  <2>. QED BY <2>1, <2>2, <2>3
<1>4. budget' \in [ops : Nat, faults : Nat]
  <2>1. CASE UNCHANGED budget
    BY <2>1, <1>1 DEF Types
  <2>2. CASE Charge
    BY <2>2, <1>1 DEF Types, Charge
  <2>. QED BY <2>1, <2>2 DEF Grow, Checkpoint, DiscardRefused
<1>5. Types'
  BY <1>1, <1>2, <1>3, <1>4 DEF Types
<1>6. \A s \in Sectors : /\ Recovered(disk', s) = Recovered(disk, s)
                         /\ FileByte(disk', s) = FileByte(disk, s)
  BY <1>3 DEF Recovered, Resolve, Scan, FileByte
<1>7. Sound(top.segs, disk) => Sound(top'.segs, disk')
  BY <1>3, <1>6 DEF Sound, Resolve
<1>. QED BY <1>1, <1>2, <1>3, <1>5, <1>6, <1>7 DEF IInv, IndexIsTops

(* The process exits. *)
LEMMA ExitKeeps ==
    ASSUME IInv, Exit
    PROVE  IInv'
<1>1. Types /\ owner = "device" /\ export = NoExport
  BY LockExcludes DEF IInv, Exit
<1>2. 0 \in 0 .. Limit
  BY Geometry DEF Limit
<1>3. Types'
  BY <1>1, <1>2 DEF Exit, Types, NoTop, NoOp, Kinds
<1>4. \A s \in Sectors : Recovered(disk', s) = Recovered(disk, s)
  BY DEF Exit
<1>. QED BY <1>1, <1>3, <1>4 DEF Exit, IInv, NoOp

(* A mutation is admitted; through the merged view it never finds its segments *)
(* invalid, because a missing index is rebuilt from them first.                *)
LEMMA StartKeeps ==
    ASSUME IInv, NEW r \in Ranges, Write(r) \/ Discard(r)
    PROVE  IInv'
<1>1. Types /\ owner = "device" /\ export = NoExport /\ op.pc = "idle" /\ IndexIsTops
  BY LockExcludes DEF IInv, Write, Discard, Start, Ready
<1>2. PICK kind \in {"write", "discard"}, v \in Nat :
           Start(kind, r[1], r[2], v) /\ (kind = "discard" => v = Zero)
  BY <1>1 DEF Write, Discard, Types, Zero
<1>3. r[1] \in Nat /\ r[2] \in Nat /\ r[1] < r[2]
  BY RangesAreProper
<1>4. index' # NoIndex /\ index' = top.segs /\ top.valid
  BY <1>1, <1>2 DEF Start, Rebuilt, IndexIsTops
<1>5. top' = top /\ UNCHANGED <<disk, owner, vsize, export, target>>
  BY <1>2, <1>4 DEF Start, Repaired
<1>6. r[2] <= Limit
  BY <1>1, <1>2, <1>3, Geometry DEF Start, Types, Limit
<1>7. /\ op'.pc = "block" /\ op'.kind = kind /\ op'.at = r[1] /\ op'.lo = r[1]
      /\ op'.hi = r[2] /\ op'.v = v /\ op'.failed = FALSE
      /\ op'.fast = (kind = "write" /\ KnownData(top.segs, r[1], r[2]))
      /\ op'.fast \in BOOLEAN /\ op'.snap \in BOOLEAN
      /\ op' = [pc |-> op'.pc, kind |-> op'.kind, at |-> op'.at, lo |-> op'.lo, hi |-> op'.hi,
                v |-> op'.v, fast |-> op'.fast, snap |-> op'.snap, failed |-> op'.failed]
  BY <1>2, <1>5 DEF Start, KnownData
<1>8. /\ allowed' \in [Sectors -> SUBSET Nat]
      /\ \A s \in Sectors : allowed[s] \subseteq allowed'[s]
      /\ \A s \in r[1] .. r[2] - 1 : v \in allowed'[s]
  <2>1. r[1] .. r[2] - 1 \subseteq Sectors
    BY <1>3, <1>6, Geometry DEF Sectors, Limit
  <2>. QED BY <1>1, <1>2, <2>1 DEF Start, Types
<1>9. budget' \in [ops : Nat, faults : Nat]
  BY <1>1, <1>2 DEF Start, Types
<1>10. op' \in [pc : {"idle", "block", "refresh"}, kind : {"none", "write", "discard"},
               at : Nat, hi : Nat, lo : Nat, v : Nat, fast : BOOLEAN, snap : BOOLEAN,
               failed : BOOLEAN]
  BY <1>3, <1>7
<1>11. Types'
  BY <1>1, <1>4, <1>5, <1>8, <1>9, <1>10 DEF Types
<1>12. Sound(top.segs, disk)
  BY <1>1, <1>4 DEF IInv
<1>13. \A s \in Sectors : View(s)' = Recovered(disk, s)
  BY <1>4, <1>5, <1>12 DEF View, Sound
<1>14. Running'
  <2>1. \A s \in op'.lo .. op'.at - 1 : Recovered(disk', s) = op'.v
    BY <1>3, <1>7
  <2>2. op'.fast => \A s \in op'.at .. op'.hi - 1 : top'.segs[s] = "data"
    BY <1>5, <1>7 DEF KnownData
  <2>3. op'.kind = "discard" => op'.v = Zero /\ ~op'.fast
    BY <1>2, <1>7
  <2>4. op'.lo <= op'.at /\ op'.at <= op'.hi /\ op'.hi <= Limit /\ op'.at < op'.hi
    BY <1>3, <1>6, <1>7
  <2>5. \A s \in op'.lo .. op'.hi - 1 : op'.v \in allowed'[s]
    BY <1>7, <1>8
  <2>. QED BY <2>1, <2>2, <2>3, <2>4, <2>5, <1>1, <1>4, <1>5, <1>7, <1>13 DEF Running
<1>15. \A s \in Sectors : Recovered(disk', s) \in allowed'[s]
  BY <1>5, <1>8 DEF IInv
<1>. QED BY <1>1, <1>5, <1>7, <1>11, <1>12, <1>14, <1>15 DEF IInv

(* One more block is written, over known data or not. *)
LEMMA BlockKeeps ==
    ASSUME IInv, Overwrite \/ BlockDone
    PROVE  IInv'
<1>1. Types /\ Running /\ op.pc = "block" /\ owner = "device" /\ export = NoExport /\ top.valid
  BY LockExcludes DEF IInv, Running, Overwrite, BlockDone
<1>2. disk' \in Mutated /\ Advance /\ UNCHANGED <<owner, vsize, index, allowed, export, target, budget>>
  BY DEF Overwrite, BlockDone
<1>3. /\ op'.at = NextPiece /\ op'.pc = (IF NextPiece = op.hi THEN "refresh" ELSE "block")
      /\ op'.kind = op.kind /\ op'.hi = op.hi /\ op'.lo = op.lo /\ op'.v = op.v
      /\ op'.fast = op.fast /\ op'.snap = op.snap /\ op'.failed = op.failed
      /\ op' \in [pc : {"idle", "block", "refresh"}, kind : {"none", "write", "discard"},
                  at : Nat, hi : Nat, lo : Nat, v : Nat, fast : BOOLEAN, snap : BOOLEAN,
                  failed : BOOLEAN]
  BY <1>1, <1>2, Advancing DEF Advance, Types
<1>4. disk' \in [size : 0 .. Limit, kind : [BlockIds -> Kinds], val : [Sectors -> Nat]]
  BY <1>1, <1>2, BlockStep
<1>5. /\ top' \in [segs : [Sectors -> Kinds], valid : BOOLEAN, vsize : 0 .. Limit,
                   life : {"closed", "open", "checkpointed"}]
      /\ top'.valid /\ Sound(top'.segs, disk')
      /\ op.fast => top' = top
  <2>1. CASE Overwrite
    BY <2>1, <1>1, <1>2, KnownDataIsSound DEF Overwrite, Types
  <2>2. CASE BlockDone
    <3>1. top' = [top EXCEPT !.segs = Claimed] /\ ~op.fast
      BY <2>2 DEF BlockDone
    <3>2. Sound(Claimed, disk') /\ Claimed \in [Sectors -> Kinds]
      BY <1>1, <1>2, ClaimedIsSound
    <3>. QED BY <3>1, <3>2, <1>1 DEF Types
  <2>. QED BY <2>1, <2>2
<1>6. Types'
  BY <1>1, <1>2, <1>3, <1>4, <1>5 DEF Types
<1>7. \A s \in Sectors : Recovered(disk', s) \in allowed'[s]
  BY <1>1, <1>2, BlockKeepsAllowed
<1>8. Running'
  <2>1. /\ op.at \in Nat /\ op.lo \in Nat /\ op.hi \in Nat /\ op.lo <= op.at /\ ~op.failed
        /\ op.hi <= Limit /\ NextPiece \in Nat /\ op.at < NextPiece /\ NextPiece <= op.hi
    BY <1>1, <1>2, Advancing DEF Types, Running
  <2>2. op'.lo <= op'.at /\ op'.at <= op'.hi /\ op'.hi <= Limit
    BY <2>1, <1>3
  <2>3. /\ op'.kind = "discard" => op'.v = Zero /\ ~op'.fast
        /\ \A s \in op'.lo .. op'.hi - 1 : op'.v \in allowed'[s]
    BY <1>1, <1>2, <1>3 DEF Running
  <2>4. \A s \in op'.lo .. op'.at - 1 : Recovered(disk', s) = op'.v
    BY <1>1, <1>2, <1>3, Advancing
  <2>5. op'.fast /\ op'.snap /\ ~op'.failed => top'.valid /\ index' = top'.segs
    BY <1>1, <1>2, <1>3, <1>5 DEF Running
  <2>6. op'.pc = "refresh" => op'.at = op'.hi
    BY <1>3
  <2>7. ASSUME op'.pc = "block"
        PROVE  /\ op'.at < op'.hi /\ ~op'.failed /\ top'.valid /\ index' # NoIndex
               /\ op'.fast => \A s \in op'.at .. op'.hi - 1 : top'.segs[s] = "data"
               /\ \A s \in Sectors : Block(s) >= Block(op'.at) => View(s)' = Recovered(disk', s)
    <3>1. NextPiece # op.hi
      BY <2>7, <1>3
    <3>2. op'.at < op'.hi /\ ~op'.failed /\ top'.valid /\ index' # NoIndex
      BY <3>1, <2>1, <1>1, <1>2, <1>3, <1>5 DEF Running
    <3>3. op'.fast => \A s \in op'.at .. op'.hi - 1 : top'.segs[s] = "data"
      BY <2>1, <1>1, <1>3, <1>5 DEF Running
    <3>4. \A s \in Sectors : Block(s) >= Block(op'.at) => View(s)' = Recovered(disk', s)
      BY <3>1, <1>1, <1>2, <1>3, Advancing DEF View
    <3>. QED BY <3>2, <3>3, <3>4
  <2>. QED BY <2>2, <2>3, <2>4, <2>5, <2>6, <2>7, <1>1, <1>2 DEF Running
<1>9. op'.pc # "idle"
  BY <1>3
<1>. QED BY <1>1, <1>2, <1>5, <1>6, <1>7, <1>8, <1>9 DEF IInv

(* A block fails before or after its write reached the file. *)
LEMMA FailureKeeps ==
    ASSUME IInv, BlockFails
    PROVE  IInv'
<1>1. Types /\ Running /\ op.pc = "block" /\ owner = "device" /\ export = NoExport /\ top.valid
  BY LockExcludes DEF IInv, Running, BlockFails
<1>2. disk' \in Mutated \union {disk} /\ UNCHANGED <<owner, vsize, index, allowed, export, target>>
  BY DEF BlockFails
<1>3. /\ op'.at = op.at /\ op'.pc = "refresh" /\ op'.failed
      /\ op'.kind = op.kind /\ op'.hi = op.hi /\ op'.lo = op.lo /\ op'.v = op.v
      /\ op'.fast = op.fast /\ op'.snap = op.snap
      /\ op' \in [pc : {"idle", "block", "refresh"}, kind : {"none", "write", "discard"},
                  at : Nat, hi : Nat, lo : Nat, v : Nat, fast : BOOLEAN, snap : BOOLEAN,
                  failed : BOOLEAN]
  BY <1>1 DEF BlockFails, Types
<1>4. /\ disk' \in [size : 0 .. Limit, kind : [BlockIds -> Kinds], val : [Sectors -> Nat]]
      /\ \A s \in Sectors : Recovered(disk', s) \in allowed'[s]
  <2>1. CASE disk' = disk
    BY <2>1, <1>1, <1>2 DEF Types, IInv
  <2>2. CASE disk' \in Mutated
    BY <2>2, <1>1, <1>2, BlockStep, BlockKeepsAllowed
  <2>. QED BY <2>1, <2>2, <1>2
<1>5. /\ top' \in [segs : [Sectors -> Kinds], valid : BOOLEAN, vsize : 0 .. Limit,
                   life : {"closed", "open", "checkpointed"}]
      /\ top'.valid => Sound(top'.segs, disk')
  <2>1. CASE disk' = disk /\ UNCHANGED top
    BY <2>1, <1>1 DEF Types, IInv
  <2>2. CASE disk' \in Mutated /\ op.fast /\ UNCHANGED top
    BY <2>2, <1>1, KnownDataIsSound DEF Types
  <2>3. CASE top' = [top EXCEPT !.segs = Scan(disk'), !.valid = TRUE]
    <3>1. Sound(Scan(disk'), disk') /\ Scan(disk') \in [Sectors -> Kinds]
      BY <1>4, ScanIsSound
    <3>. QED BY <2>3, <3>1, <1>1 DEF Types
  <2>4. CASE top' = [top EXCEPT !.valid = FALSE]
    BY <2>4, <1>1 DEF Types
  <2>. QED BY <2>1, <2>2, <2>3, <2>4, <1>2 DEF BlockFails
<1>6. budget' \in [ops : Nat, faults : Nat]
  BY <1>1 DEF BlockFails, Charge, Types
<1>7. Types'
  BY <1>1, <1>2, <1>3, <1>4, <1>5, <1>6 DEF Types
<1>8. Running'
  BY <1>1, <1>2, <1>3 DEF Running
<1>. QED BY <1>1, <1>2, <1>3, <1>4, <1>5, <1>7, <1>8 DEF IInv

(* The merged view is refreshed and the answer given. *)
LEMMA RefreshKeeps ==
    ASSUME IInv, Refresh
    PROVE  IInv'
<1>1. Types /\ Running /\ op.pc = "refresh" /\ owner = "device" /\ export = NoExport
  BY LockExcludes DEF IInv, Running, Refresh
<1>2. op' = NoOp /\ UNCHANGED <<disk, owner, top, vsize, export, target>>
  BY DEF Refresh
<1>3. IndexIsTops'
  <2>1. CASE index' = NoIndex
    BY <2>1 DEF IndexIsTops
  <2>2. CASE index' = NewIndex
    <3>1. CASE op.fast /\ op.snap /\ ~op.failed
      BY <2>2, <3>1, <1>1, <1>2 DEF NewIndex, Running, IndexIsTops
    <3>2. CASE ~(op.fast /\ op.snap /\ ~op.failed)
      BY <2>2, <3>2, <1>2 DEF NewIndex, Rebuilt, IndexIsTops
    <3>. QED BY <3>1, <3>2
  <2>. QED BY <2>1, <2>2 DEF Refresh
<1>4. index' = NoIndex \/ index' \in [Sectors -> Kinds]
  BY <1>1, <1>2, <1>3 DEF IndexIsTops, Types
<1>5. /\ allowed' \in [Sectors -> SUBSET Nat]
      /\ \A s \in Sectors : Recovered(disk, s) \in allowed'[s]
  <2>1. CASE op.failed \/ index' = NoIndex
    BY <2>1, <1>1 DEF Refresh, Acknowledged, Types, IInv
  <2>2. CASE ~op.failed /\ index' # NoIndex
    <3>1. allowed' = [s \in Sectors |-> IF s \in op.lo .. op.hi - 1 THEN {op.v} ELSE allowed[s]]
      BY <2>2 DEF Refresh, Acknowledged
    <3>2. \A s \in op.lo .. op.hi - 1 : Recovered(disk, s) = op.v
      BY <2>2, <1>1 DEF Running
    <3>3. op.v \in Nat /\ allowed \in [Sectors -> SUBSET Nat]
      BY <1>1 DEF Types
    <3>. QED BY <3>1, <3>2, <3>3 DEF IInv
  <2>. QED BY <2>1, <2>2
<1>6. budget' \in [ops : Nat, faults : Nat]
  BY <1>1 DEF Refresh, Charge, Types
<1>7. NoOp \in [pc : {"idle", "block", "refresh"}, kind : {"none", "write", "discard"},
                at : Nat, hi : Nat, lo : Nat, v : Nat, fast : BOOLEAN, snap : BOOLEAN,
                failed : BOOLEAN] /\ NoOp.pc = "idle"
  BY DEF NoOp
<1>8. Types'
  BY <1>1, <1>2, <1>4, <1>5, <1>6, <1>7 DEF Types
<1>. QED BY <1>1, <1>2, <1>3, <1>5, <1>7, <1>8 DEF IInv

(* The steps of an export change neither the file nor the device. *)
LEMMA ExportKeeps ==
    ASSUME IInv,
           \/ \E n \in Sizes \union {0} : ExportOpen(n)
           \/ ExportWrite \/ ExportPublish \/ ExportDone \/ ExportEnd
    PROVE  IInv'
<1>1. Types /\ UNCHANGED <<disk, device, allowed, budget>>
  BY DEF IInv, ExportOpen, ExportWrite, ExportPublish, ExportDone, ExportEnd, exportRest
<1>2. UNCHANGED <<top, vsize, index, op>>
  BY <1>1 DEF device
<1>3. owner # "device" /\ owner' # "device" /\ owner' \in {"none", "export"}
  <2>1. CASE \E n \in Sizes \union {0} : ExportOpen(n)
    BY <2>1 DEF ExportOpen, Unowned
  <2>2. CASE ExportWrite \/ ExportPublish \/ ExportDone \/ ExportEnd
    <3>1. export # NoExport
      BY <2>2 DEF ExportWrite, ExportPublish, ExportDone, ExportEnd, NoExport
    <3>2. owner = "export"
      BY <3>1 DEF IInv, Exporting
    <3>. QED BY <2>2, <3>2 DEF ExportWrite, ExportPublish, ExportDone, ExportEnd
  <2>. QED BY <2>1, <2>2
<1>4. op.pc = "idle"
  BY <1>3, LockExcludes
<1>5. Types'
  BY <1>1, <1>2, <1>3 DEF Types
<1>6. export' # NoExport => Exporting'
  <2>1. CASE \E n \in Sizes \union {0} : ExportOpen(n)
    <3>1. PICK n \in Sizes \union {0} : ExportOpen(n)
      BY <2>1
    <3>2. n \in 0 .. Limit /\ disk.size \in 0 .. Limit
      BY <1>1, SizesCoverLowers, Geometry DEF Limit, Types
    <3>3. /\ export'.pc = "opened" /\ export'.art = Scan(disk) /\ owner' = "export"
          /\ DOMAIN export' = {"pc", "size", "art"}
          /\ export'.size \in 0 .. Limit
      BY <3>1, <3>2 DEF ExportOpen, Unowned
    <3>. QED BY <3>3, <1>1 DEF Exporting
  <2>2. CASE ExportWrite
    <3>1. export # NoExport
      BY <2>2 DEF ExportWrite, NoExport
    <3>2. Exporting
      BY <3>1 DEF IInv
    <3>3. export'.pc = "staged" /\ export'.size = export.size
          /\ export'.art = Artifact(disk, Scan(disk), export.size)
      BY <2>2, <3>2, <1>1 DEF ExportWrite, Exporting
    <3>. QED BY <2>2, <3>2, <3>3, <1>1 DEF ExportWrite, Exporting
  <2>3. CASE ExportPublish
    <3>1. export # NoExport
      BY <2>3 DEF ExportPublish, NoExport
    <3>2. Exporting
      BY <3>1 DEF IInv
    <3>3. export'.pc = "published" /\ export'.size = export.size /\ target' = export.art
      <4>1. export' = [export EXCEPT !.pc = "published"] /\ target' = export.art
        BY <2>3 DEF ExportPublish, Accepted
      <4>2. "pc" \in DOMAIN export /\ "size" \in DOMAIN export
        BY <3>2 DEF Exporting
      <4>. QED BY <4>1, <4>2
    <3>. QED BY <2>3, <3>2, <3>3, <1>1 DEF ExportPublish, Exporting
  <2>4. CASE ExportDone
    <3>1. export # NoExport
      BY <2>4 DEF ExportDone, NoExport
    <3>2. Exporting
      BY <3>1 DEF IInv
    <3>3. export'.pc = "done" /\ export'.size = export.size
      BY <2>4 DEF ExportDone
    <3>. QED BY <2>4, <3>2, <3>3, <1>1 DEF ExportDone, Exporting
  <2>5. CASE ExportEnd
    BY <2>5 DEF ExportEnd
  <2>. QED BY <2>1, <2>2, <2>3, <2>4, <2>5
<1>7. \A s \in Sectors : Recovered(disk', s) \in allowed'[s]
  BY <1>1 DEF IInv
<1>. QED BY <1>2, <1>3, <1>4, <1>5, <1>6, <1>7 DEF IInv

(* IInv is inductive: it holds at the start and every step of the device, of   *)
(* an export, and every exit keeps it.                                         *)
THEOREM Invariance == Spec => []IInv
<1>1. Init => IInv
  BY InitHolds
<1>2. IInv /\ [Next]_vars => IInv'
  <2> SUFFICES ASSUME IInv, [Next]_vars PROVE IInv'
    OBVIOUS
  <2>1. CASE \E n \in Sizes : OpenDevice(n)
    BY <2>1, OpenDeviceKeeps
  <2>2. CASE (\E n \in Sizes : Grow(n)) \/ Checkpoint \/ DiscardRefused
    BY <2>2, QuietKeeps
  <2>3. CASE \/ \E n \in Sizes \union {0} : ExportOpen(n)
             \/ ExportWrite \/ ExportPublish \/ ExportDone \/ ExportEnd
    BY <2>3, ExportKeeps
  <2>4. CASE \E r \in Ranges : Write(r) \/ Discard(r)
    BY <2>4, StartKeeps
  <2>5. CASE Exit
    BY <2>5, ExitKeeps
  <2>6. CASE Overwrite \/ BlockDone
    BY <2>6, BlockKeeps
  <2>7. CASE BlockFails
    BY <2>7, FailureKeeps
  <2>8. CASE Refresh
    BY <2>8, RefreshKeeps
  <2>9. CASE UNCHANGED vars
    <3>1. UNCHANGED <<disk, owner, top, vsize, index, op, allowed, export, target, budget>>
      BY <2>9 DEF vars
    <3>2. Types' /\ (IndexIsTops => IndexIsTops')
      BY <3>1 DEF IInv, Types, IndexIsTops
    <3>3. Running => Running'
      BY <3>1 DEF Running, View
    <3>4. Exporting => Exporting'
      BY <3>1 DEF Exporting
    <3>. QED BY <3>1, <3>2, <3>3, <3>4 DEF IInv
  <2>. QED BY <2>1, <2>2, <2>3, <2>4, <2>5, <2>6, <2>7, <2>8, <2>9 DEF Next
<1>. QED BY <1>1, <1>2, PTL DEF Spec

-----------------------------------------------------------------------------
(* The exported layer. *)

(* The payload's places are the ranks of the data sectors, each taken once. *)
LEMMA RankIsPlace ==
    ASSUME NEW segs, NEW s \in DataSectors(segs)
    PROVE  /\ Rank(segs, s) \in 1 .. Cardinality(DataSectors(segs))
           /\ \A t \in DataSectors(segs) : Rank(segs, t) = Rank(segs, s) => t = s
<1> DEFINE D == DataSectors(segs)
           Upto(t) == {u \in D : u <= t}
<1>1. IsFiniteSet(D) /\ D \subseteq Nat
  <2>1. IsFiniteSet(Sectors)
    BY FS_Interval, Geometry DEF Sectors
  <2>2. D \subseteq Sectors /\ Sectors \subseteq Nat
    BY Geometry DEF DataSectors, Sectors
  <2>. QED BY <2>1, <2>2, FS_Subset
<1>2. \A t \in D : IsFiniteSet(Upto(t)) /\ Cardinality(Upto(t)) \in Nat /\ t \in Upto(t)
  BY <1>1, FS_Subset, FS_CardinalityType
<1>3. Cardinality(Upto(s)) <= Cardinality(D) /\ Cardinality(D) \in Nat
  BY <1>1, FS_Subset, FS_CardinalityType
<1>4. Cardinality(Upto(s)) # 0
  BY <1>2, FS_EmptySet
<1>5. ASSUME NEW a \in D, NEW b \in D, a < b PROVE Cardinality(Upto(a)) # Cardinality(Upto(b))
  <2>1. Upto(a) \subseteq Upto(b) /\ b \notin Upto(a) /\ b \in Upto(b)
    BY <1>1, <1>5
  <2>2. Upto(a) # Upto(b)
    BY <2>1, Zenon
  <2>. QED BY <2>1, <2>2, <1>2, FS_Subset
<1>6. ASSUME NEW t \in D, Cardinality(Upto(t)) = Cardinality(Upto(s)) PROVE t = s
  <2>1. t \in Nat /\ s \in Nat
    BY <1>1
  <2>. QED BY <2>1, <1>5, <1>6
<1>7. \A t \in D : Rank(segs, t) = Cardinality(Upto(t))
  BY DEF Rank
<1>8. Rank(segs, s) \in 1 .. Cardinality(D)
  BY <1>2, <1>3, <1>4, <1>7
<1>9. \A t \in D : Rank(segs, t) = Rank(segs, s) => t = s
  BY <1>6, <1>7
<1>. QED BY <1>8, <1>9

(* Over the same lowers, the layer packed from a scan reads as the file does. *)
LEMMA ArtifactIsExact ==
    ASSUME NEW d, d.kind \in [BlockIds -> Kinds], NEW n, NEW s \in Sectors
    PROVE  ArtifactByte(Artifact(d, Scan(d), n), s) = Recovered(d, s)
<1> DEFINE segs == Scan(d)
           a == Artifact(d, segs, n)
<1>1. segs[s] \in Kinds /\ a.map[s].kind = segs[s]
  BY ScanIsSound DEF Artifact, Plan
<1>2. CASE segs[s] = "data"
  <2>1. s \in DataSectors(segs)
    BY <1>2 DEF DataSectors
  <2>2. (CHOOSE t \in DataSectors(segs) : Rank(segs, t) = Rank(segs, s)) = s
    BY <2>1, RankIsPlace
  <2>3. a.map[s].at = Rank(segs, s)
    BY <1>2 DEF Artifact, Plan
  <2>4. a.payload[Rank(segs, s)] = Packed(d, segs, Rank(segs, s))
    BY <2>1, RankIsPlace DEF Artifact
  <2>5. Packed(d, segs, Rank(segs, s)) = FileByte(d, s)
    BY <2>2 DEF Packed
  <2>. QED BY <1>1, <1>2, <2>3, <2>4, <2>5 DEF ArtifactByte, Recovered, Resolve
<1>3. CASE segs[s] = "zero"
  BY <1>1, <1>3 DEF ArtifactByte, Recovered, Resolve
<1>4. CASE segs[s] = "hole"
  BY <1>1, <1>4 DEF ArtifactByte, Recovered, Resolve
<1>. QED BY <1>1, <1>2, <1>3, <1>4 DEF Kinds

-----------------------------------------------------------------------------
(* The properties of the sparse upper. *)

(* Whatever step the process exits at, the extents give back every             *)
(* acknowledged mutation (write_extents, scan_sparse_extents).                 *)
THEOREM ExtentsSuffice == Spec => []ExtentsAreEnough
<1>1. IInv => ExtentsAreEnough
  <2> SUFFICES ASSUME IInv, NEW s \in 0 .. disk.size - 1 PROVE Recovered(disk, s) \in allowed[s]
    BY DEF ExtentsAreEnough
  <2>1. s \in Sectors
    BY Geometry DEF IInv, Types, Sectors, Limit
  <2>. QED BY <2>1 DEF IInv
<1>. QED BY <1>1, Invariance, PTL

(* Between mutations a readable device shows what a reopen would show, also    *)
(* after mutations that failed (rebuild_index, refresh_extents).               *)
THEOREM ViewRecovers == Spec => []ViewIsRecoverable
<1>1. IInv => ViewIsRecoverable
  <2> SUFFICES ASSUME IInv, owner = "device", op.pc = "idle", index # NoIndex,
                      NEW s \in 0 .. vsize - 1
               PROVE  View(s) = Recovered(disk, s)
    BY DEF ViewIsRecoverable
  <2>1. s \in Sectors
    BY Geometry DEF IInv, Types, Sectors, Limit
  <2>2. index = top.segs /\ Sound(top.segs, disk)
    BY DEF IInv, IndexIsTops
  <2>. QED BY <2>1, <2>2 DEF Sound, View
<1>. QED BY <1>1, Invariance, PTL

(* An export that reported success reads as the upper does, whether it         *)
(* published its output or accepted an existing one (export_file, publish).    *)
THEOREM ExportsAreExact == Spec => []ExportIsExact
<1>1. IInv => ExportIsExact
  <2> SUFFICES ASSUME IInv, export.pc = "done" PROVE ExportIsExact
    BY DEF ExportIsExact
  <2>1. export # NoExport
    BY DEF NoExport
  <2>2. /\ target = Artifact(disk, Scan(disk), export.size) /\ export.size \in 0 .. Limit
        /\ disk.kind \in [BlockIds -> Kinds]
    BY <2>1 DEF IInv, Exporting, Types
  <2>3. target.size = export.size
    BY <2>2 DEF Artifact
  <2>4. 0 .. target.size - 1 \subseteq Sectors
    BY <2>2, <2>3, Geometry DEF Sectors, Limit
  <2>. QED BY <2>2, <2>3, <2>4, ArtifactIsExact DEF ExportIsExact
<1>. QED BY <1>1, Invariance, PTL

=============================================================================
