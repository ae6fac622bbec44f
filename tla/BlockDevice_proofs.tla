-------------------------- MODULE BlockDevice_proofs --------------------------
(***************************************************************************)
(* The block device is a block store, for every number and size of blocks  *)
(* and chunks, every buffer, and whichever functions of the driver fail.   *)
(***************************************************************************)
EXTENDS BlockDevice, TLAPS

-----------------------------------------------------------------------------
(* Arithmetic                                                              *)

(* Division by a positive number, ...                                      *)
LEMMA Remainder ==
  ASSUME NEW a \in Nat, NEW n \in Nat \ {0}
  PROVE  /\ a % n \in 0 .. n - 1
         /\ a \div n \in Nat
         /\ a = (n * (a \div n)) + (a % n)
OBVIOUS

(* ... which has one quotient only.                                        *)
LEMMA Quotient ==
  ASSUME NEW n \in Nat \ {0}, NEW q \in Nat, NEW a \in Nat
  PROVE  a \div n = q <=> a \in q * n .. (q + 1) * n - 1
OBVIOUS

(* Multiples keep their order.                                             *)
LEMMA Multiples ==
  ASSUME NEW a \in Nat, NEW b \in Nat, NEW n \in Nat, a <= b
  PROVE  a * n <= b * n
<1>1. (b - a) * n >= 0 OBVIOUS
<1> QED BY <1>1

(* The product of natural numbers is one.                                  *)
LEMMA Product ==
  ASSUME NEW a \in Nat, NEW b \in Nat
  PROVE  a * b \in Nat
OBVIOUS

-----------------------------------------------------------------------------
(* Blocks and chunks                                                       *)

LEMMA Sizes ==
  /\ NumBlocks \in Nat \ {0} /\ ChunksPerBlock \in Nat \ {0}
  /\ ChunkSize \in Nat \ {0} /\ BlockSize \in Nat \ {0}
<1>1. \A m, n \in Nat \ {0} : m * n \in Nat \ {0} OBVIOUS
<1> QED BY <1>1, SizesAssumption DEF BlockSize

BlockOf(c) == c \div BlockSize

(* A cell is in a range of blocks when its block is.                       *)
LEMMA InRange ==
  ASSUME NEW f \in Nat, NEW n \in Nat, NEW c \in Nat
  PROVE  c \in CellsOf(f, n) <=> BlockOf(c) \in f .. f + n - 1
<1> DEFINE q == BlockOf(c)
<1>1. BlockSize \in Nat \ {0} BY Sizes
<1>2. q \in Nat BY <1>1, Remainder DEF BlockOf
<1>3. c \in q * BlockSize .. (q + 1) * BlockSize - 1
  BY <1>1, <1>2, Quotient DEF BlockOf
<1>4. /\ f * BlockSize \in Nat /\ (f + n) * BlockSize \in Nat
      /\ q * BlockSize \in Nat /\ (q + 1) * BlockSize \in Nat
  BY <1>1, <1>2, Product
<1> HIDE DEF q
<1>5. CASE q < f
  <2>1. (q + 1) * BlockSize <= f * BlockSize BY <1>1, <1>2, <1>5, Multiples
  <2>2. c < f * BlockSize BY <2>1, <1>3, <1>4
  <2> QED BY <2>2, <1>2, <1>4, <1>5 DEF CellsOf, q
<1>6. CASE q >= f + n
  <2>1. (f + n) * BlockSize <= q * BlockSize BY <1>1, <1>2, <1>6, Multiples
  <2>2. c >= (f + n) * BlockSize BY <2>1, <1>3, <1>4
  <2> QED BY <2>2, <1>2, <1>4, <1>6 DEF CellsOf, q
<1>7. CASE q >= f /\ q < f + n
  <2>1. f * BlockSize <= q * BlockSize BY <1>1, <1>2, <1>7, Multiples
  <2>2. (q + 1) * BlockSize <= (f + n) * BlockSize BY <1>1, <1>2, <1>7, Multiples
  <2>3. c >= f * BlockSize /\ c < (f + n) * BlockSize BY <2>1, <2>2, <1>3, <1>4
  <2>4. c \in CellsOf(f, n) BY <2>3, <1>4 DEF CellsOf
  <2> QED BY <2>4, <1>2, <1>7 DEF q
<1> QED BY <1>2, <1>5, <1>6, <1>7

(* Cells are numbered from zero.                                           *)
LEMMA CellsAreNat ==
  ASSUME NEW f \in Nat, NEW n \in Nat
  PROVE  CellsOf(f, n) \subseteq Nat
<1>1. f * BlockSize \in Nat /\ (f + n) * BlockSize \in Nat BY Sizes, Product
<1> QED BY <1>1 DEF CellsOf

(* The cells of the device are those of all its blocks.                    *)
LEMMA AllCells == Cells = CellsOf(0, NumBlocks)
<1>1. 0 * BlockSize = 0 /\ 0 + NumBlocks = NumBlocks BY Sizes
<1> QED BY <1>1 DEF Cells, CellsOf

(* What a call may name is inside the device.                              *)
LEMMA RangeIsInside ==
  ASSUME NEW r \in Ranges
  PROVE  /\ r = << r[1], r[2] >>
         /\ r[1] \in Nat /\ r[2] \in Nat /\ r[2] > 0 /\ r[2] <= NumBlocks
         /\ r[1] .. r[1] + r[2] - 1 \subseteq Blocks
         /\ CellsOf(r[1], r[2]) \subseteq Cells
<1>1. /\ r = << r[1], r[2] >>
      /\ r[1] \in Nat /\ r[2] \in Nat /\ r[2] > 0 /\ r[2] <= NumBlocks
      /\ r[1] + r[2] <= NumBlocks
  BY Sizes DEF Ranges, Blocks
<1>2. r[1] .. r[1] + r[2] - 1 \subseteq Blocks BY <1>1, Sizes DEF Blocks
<1>3. CellsOf(r[1], r[2]) \subseteq Cells
  <2> SUFFICES ASSUME NEW c \in CellsOf(r[1], r[2]) PROVE c \in Cells OBVIOUS
  <2>1. c \in Nat BY <1>1, CellsAreNat
  <2>2. BlockOf(c) \in r[1] .. r[1] + r[2] - 1 BY <1>1, <2>1, InRange
  <2>3. BlockOf(c) \in 0 .. 0 + NumBlocks - 1 BY <2>2, <1>1, Sizes
  <2> QED BY <2>1, <2>3, Sizes, InRange, AllCells
<1> QED BY <1>1, <1>2, <1>3

(* One of the blocks of a range.                                           *)
LEMMA BlockIsInside ==
  ASSUME NEW r \in Ranges, NEW b \in r[1] .. r[1] + r[2] - 1
  PROVE  b \in Nat /\ CellsOf(b, 1) \subseteq CellsOf(r[1], r[2])
<1>1. r[1] \in Nat /\ r[2] \in Nat BY RangeIsInside
<1>2. b \in Nat BY <1>1
<1> SUFFICES ASSUME NEW c \in CellsOf(b, 1) PROVE c \in CellsOf(r[1], r[2]) BY <1>2
<1>3. c \in Nat BY <1>2, CellsAreNat
<1>4. BlockOf(c) \in b .. b + 1 - 1 BY <1>2, <1>3, InRange
<1>5. BlockOf(c) = b BY <1>4, <1>2
<1> QED BY <1>1, <1>3, <1>5, InRange

(* What is promised: the cells of the blocks that are not unsure.          *)
LEMMA Unpromised ==
  ASSUME NEW U \in SUBSET Blocks, NEW c \in Cells
  PROVE  (c \in UNION {CellsOf(b, 1) : b \in U}) <=> BlockOf(c) \in U
<1>1. c \in Nat BY Sizes, CellsAreNat, AllCells
<1>2. \A b \in U : c \in CellsOf(b, 1) <=> BlockOf(c) = b
  <2> SUFFICES ASSUME NEW b \in U PROVE c \in CellsOf(b, 1) <=> BlockOf(c) = b OBVIOUS
  <2>1. b \in Nat BY DEF Blocks
  <2>2. c \in CellsOf(b, 1) <=> BlockOf(c) \in b .. b + 1 - 1 BY <1>1, <2>1, InRange
  <2>3. BlockOf(c) \in Nat BY <1>1, Sizes, Remainder DEF BlockOf
  <2> QED BY <2>1, <2>2, <2>3
<1> QED BY <1>2

(* The loops over blocks and over chunks cover a range piece by piece.     *)
LEMMA NextBlock ==
  ASSUME NEW f \in Nat, NEW i \in Nat
  PROVE  /\ CellsOf(f, 0) = {}
         /\ CellsOf(f, i + 1) = CellsOf(f, i) \cup CellsOf(f + i, 1)
<1>1. BlockSize \in Nat \ {0} BY Sizes
<1>2. f * BlockSize \in Nat /\ (f + i) * BlockSize \in Nat /\ ((f + i) + 1) * BlockSize \in Nat
  BY <1>1, Product
<1>3. f * BlockSize <= (f + i) * BlockSize BY <1>1, Multiples
<1>4. (f + i) * BlockSize <= ((f + i) + 1) * BlockSize BY <1>1, Multiples
<1>5. f + (i + 1) = (f + i) + 1 /\ f + 0 = f OBVIOUS
<1>6. CellsOf(f, 0) = {} BY <1>2, <1>5 DEF CellsOf
<1>7. CellsOf(f, i + 1) = CellsOf(f, i) \cup CellsOf(f + i, 1)
  BY <1>2, <1>3, <1>4, <1>5 DEF CellsOf
<1> QED BY <1>6, <1>7

(* The first n chunks from block f on.                                     *)
ChunksTo(f, n) == f * BlockSize .. f * BlockSize + n * ChunkSize - 1

LEMMA ChunkStep ==
  ASSUME NEW f \in Nat, NEW k \in Nat
  PROVE  /\ ChunksTo(f, 0) = {}
         /\ ChunksTo(f, k + 1) = ChunksTo(f, k) \cup Chunk(f, k)
         /\ ChunksTo(f, k) \cap Chunk(f, k) = {}
<1>1. f * BlockSize \in Nat /\ k * ChunkSize \in Nat /\ (k + 1) * ChunkSize \in Nat
  BY Sizes, Product
<1>2. k * ChunkSize <= (k + 1) * ChunkSize BY Sizes, Multiples
<1>3. 0 * ChunkSize = 0 BY Sizes
<1>4. ChunksTo(f, 0) = {} BY <1>1, <1>3 DEF ChunksTo
<1>5. ChunksTo(f, k + 1) = ChunksTo(f, k) \cup Chunk(f, k)
  BY <1>1, <1>2 DEF ChunksTo, Chunk
<1>6. ChunksTo(f, k) \cap Chunk(f, k) = {} BY <1>1 DEF ChunksTo, Chunk
<1> QED BY <1>4, <1>5, <1>6

(* The chunks of a range are all of its cells.                             *)
LEMMA ChunksFill ==
  ASSUME NEW f \in Nat, NEW n \in Nat
  PROVE  ChunksTo(f, n * ChunksPerBlock) = CellsOf(f, n)
<1>1. \A a, b, m, p \in Nat : (a + b) * (m * p) = (a * (m * p)) + ((b * m) * p) OBVIOUS
<1>2. (f + n) * BlockSize = (f * BlockSize) + ((n * ChunksPerBlock) * ChunkSize)
  BY <1>1, Sizes DEF BlockSize
<1>3. n * ChunksPerBlock \in Nat BY Sizes, Product
<1>4. f * BlockSize \in Nat /\ (n * ChunksPerBlock) * ChunkSize \in Nat
  BY <1>3, Sizes, Product
<1>5. ChunksTo(f, n * ChunksPerBlock) = f * BlockSize .. (f + n) * BlockSize - 1
  BY <1>2, <1>4 DEF ChunksTo
<1> QED BY <1>5 DEF CellsOf

(* One of the chunks of a range.                                           *)
LEMMA ChunkIsInside ==
  ASSUME NEW r \in Ranges, NEW k \in 0 .. r[2] * ChunksPerBlock - 1
  PROVE  k \in Nat /\ Chunk(r[1], k) \subseteq CellsOf(r[1], r[2])
<1>1. r[1] \in Nat /\ r[2] \in Nat BY RangeIsInside
<1>2. r[2] * ChunksPerBlock \in Nat BY <1>1, Sizes, Product
<1>3. k \in Nat /\ k + 1 <= r[2] * ChunksPerBlock BY <1>2
<1>4. (k + 1) * ChunkSize <= (r[2] * ChunksPerBlock) * ChunkSize
  BY <1>2, <1>3, Sizes, Multiples
<1>5. /\ k * ChunkSize \in Nat /\ (k + 1) * ChunkSize \in Nat /\ r[1] * BlockSize \in Nat
      /\ (r[2] * ChunksPerBlock) * ChunkSize \in Nat
  BY <1>1, <1>2, <1>3, Sizes, Product
<1>6. Chunk(r[1], k) \subseteq ChunksTo(r[1], r[2] * ChunksPerBlock)
  BY <1>4, <1>5 DEF Chunk, ChunksTo
<1> QED BY <1>1, <1>3, <1>6, ChunksFill

-----------------------------------------------------------------------------
(* What a call leaves in the chip                                          *)

LEMMA OverlaidCells ==
  ASSUME NEW cells \in SUBSET Cells, NEW new, mem \in [Cells -> Bytes],
         \A c \in cells : new[c] \in Bytes
  PROVE  /\ Overlay(cells, new) \in [Cells -> Bytes]
         /\ \A c \in cells : Overlay(cells, new)[c] = new[c]
         /\ \A c \in Cells \ cells : Overlay(cells, new)[c] = mem[c]
BY DEF Overlay

(* A program, whole or cut short, stays in its chunk; a whole one leaves   *)
(* the data wherever the cells held it or were erased.                     *)
LEMMA ProgramLeaves ==
  ASSUME NEW k, Chunk(First, k) \subseteq Cells, mem \in [Cells -> Bytes],
         \A c \in Chunk(First, k) : data[c] \in Bytes,
         NEW m \in {Programmed(k)} \cup PartlyProgrammed(k)
  PROVE  /\ m \in [Cells -> Bytes]
         /\ \A c \in Cells \ Chunk(First, k) : m[c] = mem[c]
         /\ m = Programmed(k) =>
              \A c \in Chunk(First, k) : mem[c] \in {data[c], Erased} => m[c] = data[c]
<1> DEFINE cells == Chunk(First, k)
           whole == [c \in cells |-> mem[c] \cup data[c]]
<1>1. \A c \in cells : whole[c] = mem[c] \cup data[c] OBVIOUS
<1>2. \A c \in cells : mem[c] \cup data[c] \in Bytes
  <2> SUFFICES ASSUME NEW c \in cells PROVE mem[c] \cup data[c] \in Bytes OBVIOUS
  <2>1. mem[c] \in Bytes /\ data[c] \in Bytes OBVIOUS
  <2> QED BY <2>1, BytesAssumption
<1>3. cells \in SUBSET Cells OBVIOUS
<1>4. Programmed(k) = Overlay(cells, whole) BY DEF Programmed
<1> HIDE DEF whole
<1>5. \A c \in cells : whole[c] \in Bytes BY <1>1, <1>2
<1>6. CASE m = Programmed(k)
  <2>1. /\ m \in [Cells -> Bytes]
        /\ \A c \in cells : m[c] = whole[c]
        /\ \A c \in Cells \ cells : m[c] = mem[c]
    BY <1>3, <1>4, <1>5, <1>6, OverlaidCells
  <2>2. \A c \in cells : mem[c] \in {data[c], Erased} => m[c] = data[c]
    BY <2>1, <1>1 DEF Erased
  <2> QED BY <2>1, <2>2
<1>7. CASE m # Programmed(k)
  <2>1. PICK new \in [cells -> Bytes] : m = Overlay(cells, new)
    BY <1>7 DEF PartlyProgrammed
  <2>2. \A c \in cells : new[c] \in Bytes OBVIOUS
  <2>3. /\ m \in [Cells -> Bytes]
        /\ \A c \in Cells \ cells : m[c] = mem[c]
    BY <1>3, <2>1, <2>2, OverlaidCells
  <2> QED BY <1>7, <2>3
<1> QED BY <1>6, <1>7

(* An erase, whole or cut short, stays in its block.                       *)
LEMMA EraseLeaves ==
  ASSUME NEW b, CellsOf(b, 1) \subseteq Cells, mem \in [Cells -> Bytes],
         NEW m \in {BlockErased(b)} \cup PartlyErased(b)
  PROVE  /\ m \in [Cells -> Bytes]
         /\ \A c \in Cells \ CellsOf(b, 1) : m[c] = mem[c]
         /\ m = BlockErased(b) => \A c \in CellsOf(b, 1) : m[c] = Erased
<1> DEFINE none == [c \in Cells |-> Erased]
<1>1. \A c \in CellsOf(b, 1) : none[c] = Erased OBVIOUS
<1>2. CellsOf(b, 1) \in SUBSET Cells OBVIOUS
<1>3. BlockErased(b) = Overlay(CellsOf(b, 1), none) BY DEF BlockErased
<1> HIDE DEF none
<1>4. \A c \in CellsOf(b, 1) : none[c] \in Bytes BY <1>1, BytesAssumption DEF Erased
<1>5. CASE m = BlockErased(b)
  <2>1. /\ m \in [Cells -> Bytes]
        /\ \A c \in CellsOf(b, 1) : m[c] = none[c]
        /\ \A c \in Cells \ CellsOf(b, 1) : m[c] = mem[c]
    BY <1>2, <1>3, <1>4, <1>5, OverlaidCells
  <2> QED BY <2>1, <1>1
<1>6. CASE m # BlockErased(b)
  <2>1. PICK new \in Buffers(b, 1) : m = Overlay(CellsOf(b, 1), new)
    BY <1>6 DEF PartlyErased
  <2>2. \A c \in CellsOf(b, 1) : new[c] \in Bytes BY DEF Buffers
  <2>3. /\ m \in [Cells -> Bytes]
        /\ \A c \in Cells \ CellsOf(b, 1) : m[c] = mem[c]
    BY <1>2, <2>1, <2>2, OverlaidCells
  <2> QED BY <1>6, <2>3
<1> QED BY <1>5, <1>6

-----------------------------------------------------------------------------
(* The invariant                                                           *)

(* While the driver is trusted the loops know the cells of their range:    *)
(* the chunks behind a scan or a rewrite hold the data, what a rewrite has *)
(* not come to is erased, and so are the blocks behind an erase. A chunk   *)
(* is programmed only where it is erased or already right.                 *)
Holds(cells) == \A c \in cells : mem[c] = data[c]
Blank(cells) == \A c \in cells : mem[c] = Erased

InLoop(p, i) ==
  /\ p \in {"scan", "program", "rewrite"} => Holds(ChunksTo(First, i))
  /\ p = "program" => \A c \in Chunk(First, i) : mem[c] \in {data[c], Erased}
  /\ p = "rewrite" => Blank(CellsOf(First, Count) \ ChunksTo(First, i))
  /\ p \in {"blank", "erase"} => Blank(CellsOf(First, i))
  /\ p = "blank" => \A c \in CellsOf(First, Count) : data[c] = Erased

Progress == clean /\ phase # "idle" => InLoop(phase, at)

Inv == TypeOK /\ Progress

Loops == {"blank", "scan", "program", "erase", "rewrite"}
LoopEnd(p) == IF p \in {"blank", "erase"} THEN Count ELSE Chunks

(* What a step of a write does: it stays in its loops, or ends well, or    *)
(* ends with a failure that ends the trust too.                            *)
Stepped ==
  /\ mem' \in [Cells -> Bytes]
  /\ \A c \in Cells \ CellsOf(First, Count) : mem'[c] = mem[c]
  /\ opened' = opened /\ data' = data
  /\ clean' \in BOOLEAN /\ (clean' => clean)
  /\ \/ /\ phase' \in Loops /\ at' \in 0 .. LoopEnd(phase') - 1
        /\ UNCHANGED << range, reply, unsure >>
        /\ Progress'
     \/ /\ Return(Count)
        /\ clean' => \A c \in CellsOf(First, Count) : mem'[c] = data[c]
     \/ Return(-1) /\ ~clean'

(* What TypeOK says of a running write.                                    *)
LEMMA Writing ==
  ASSUME TypeOK, phase # "idle"
  PROVE  /\ range \in Ranges
         /\ First \in Nat /\ Count \in Nat /\ Count > 0 /\ Count <= NumBlocks
         /\ Chunks \in Nat /\ Chunks > 0
         /\ Named \subseteq unsure /\ Named \subseteq Blocks
         /\ CellsOf(First, Count) \subseteq Cells
         /\ \A c \in CellsOf(First, Count) : data[c] \in Bytes
         /\ data \in Buffers(First, Count)
         /\ opened
         /\ at \in 0 .. LoopEnd(phase) - 1 /\ at \in Nat
<1>1. range \in Ranges /\ opened /\ Named \subseteq unsure /\ data \in Buffers(First, Count)
  BY DEF TypeOK
<1>2. at \in 0 .. LoopEnd(phase) - 1 BY DEF TypeOK, LoopEnd
<1>3. /\ First \in Nat /\ Count \in Nat /\ Count > 0 /\ Count <= NumBlocks
      /\ Named \subseteq Blocks /\ CellsOf(First, Count) \subseteq Cells
  BY <1>1, RangeIsInside DEF First, Count, Named
<1>4. Chunks \in Nat /\ Chunks > 0
  <2>1. \A m, n \in Nat \ {0} : m * n \in Nat \ {0} OBVIOUS
  <2> QED BY <2>1, <1>3, Sizes DEF Chunks
<1>5. \A c \in CellsOf(First, Count) : data[c] \in Bytes BY <1>1 DEF Buffers
<1> QED BY <1>1, <1>2, <1>3, <1>4, <1>5

(* The contract of a data call, as the steps of a write use it.            *)
LEMMA CallEnds ==
  ASSUME clean \in BOOLEAN, NEW f \in {"read", "write", "erase"}, NEW o \in Calls(f)
  PROVE  /\ o.ok \in BOOLEAN /\ o.done \in BOOLEAN /\ o.trusted \in BOOLEAN
         /\ o.trusted => clean /\ o.ok /\ o.done
         /\ clean /\ o.ok => o.trusted
<1>1. o \in Outcomes(f, clean) BY DEF Calls
<1>2. o.ok \in BOOLEAN /\ o.done \in BOOLEAN /\ o.trusted \in BOOLEAN
  BY <1>1 DEF Outcomes
<1>3. f \in DataCalls /\ f # "initialize" BY DEF DataCalls
<1>4. /\ o.trusted => o.ok /\ (clean \/ f = "initialize")
      /\ f \in DataCalls /\ clean /\ o.ok => o.done /\ o.trusted
  BY <1>1 DEF Outcomes
<1> QED BY <1>2, <1>3, <1>4

(* A scan goes on, or hands over to program or erase with the facts        *)
(* these need.                                                             *)
LEMMA ScanStep ==
  ASSUME Inv, Scan
  PROVE  Stepped
<1>1. TypeOK /\ Progress /\ phase = "scan" BY DEF Inv, Scan
<1>2. mem \in [Cells -> Bytes] /\ clean \in BOOLEAN BY <1>1 DEF TypeOK
<1>3. /\ range \in Ranges /\ First \in Nat /\ Count \in Nat /\ Count > 0
      /\ Chunks \in Nat /\ at \in Nat /\ at \in 0 .. Chunks - 1
      /\ CellsOf(First, Count) \subseteq Cells
  BY <1>1, Writing DEF LoopEnd
<1>4. UNCHANGED << mem, opened, data >> BY DEF Scan
<1>5. PICK o \in Calls("read") :
        /\ clean' = o.trusted
        /\ IF ~o.ok THEN Return(-1)
           ELSE \E seen \in Seen(o, Chunk(First, at)) :
                  IF MustErase(seen) THEN Goto("erase", 0)
                  ELSE IF HasNew(seen) THEN Goto("program", at)
                  ELSE NextChunk("scan")
  BY DEF Scan
<1>6. /\ o.ok \in BOOLEAN /\ o.done \in BOOLEAN /\ o.trusted \in BOOLEAN
      /\ o.trusted => clean /\ o.ok /\ o.done
      /\ clean /\ o.ok => o.trusted
  BY <1>2, CallEnds
<1>7. /\ mem' \in [Cells -> Bytes]
      /\ \A c \in Cells \ CellsOf(First, Count) : mem'[c] = mem[c]
      /\ opened' = opened /\ data' = data
      /\ clean' \in BOOLEAN /\ (clean' => clean)
  BY <1>2, <1>4, <1>5, <1>6
<1>8. clean' => Holds(ChunksTo(First, at)) BY <1>1, <1>7 DEF Progress, InLoop
<1>9. Chunk(First, at) \subseteq CellsOf(First, Count)
  BY <1>3, ChunkIsInside DEF First, Count, Chunks
<1>10. CASE ~o.ok
  <2>1. Return(-1) /\ ~clean' BY <1>5, <1>6, <1>10
  <2> QED BY <2>1, <1>7 DEF Stepped
<1>11. CASE o.ok
  <2>1. PICK seen \in Seen(o, Chunk(First, at)) :
          IF MustErase(seen) THEN Goto("erase", 0)
          ELSE IF HasNew(seen) THEN Goto("program", at)
          ELSE NextChunk("scan")
    BY <1>5, <1>11
  <2>2. DOMAIN seen = Chunk(First, at) BY DEF Seen
  <2>3. clean' => \A c \in Chunk(First, at) : seen[c] = mem[c]
    BY <1>5, <1>6 DEF Seen
  <2>4. CASE MustErase(seen)
    <3>1. Goto("erase", 0) BY <2>1, <2>4
    <3>2. phase' = "erase" /\ at' = 0 /\ UNCHANGED << range, reply, unsure >>
      BY <3>1 DEF Goto
    <3>3. phase' \in Loops /\ at' \in 0 .. LoopEnd(phase') - 1
      BY <3>2, <1>3 DEF Loops, LoopEnd
    <3>4. CellsOf(First, 0) = {} BY <1>3, NextBlock
    <3>5. Progress' BY <3>2, <3>4 DEF Progress, InLoop, Blank, First
    <3> QED BY <3>2, <3>3, <3>5, <1>7 DEF Stepped
  <2>5. CASE ~MustErase(seen)
    <3>1. \A c \in Chunk(First, at) : data[c] = seen[c] \/ seen[c] = Erased
      BY <2>2, <2>5 DEF MustErase
    <3>2. CASE HasNew(seen)
      <4>1. Goto("program", at) BY <2>1, <2>5, <3>2
      <4>2. phase' = "program" /\ at' = at /\ UNCHANGED << range, reply, unsure >>
        BY <4>1 DEF Goto
      <4>3. phase' \in Loops /\ at' \in 0 .. LoopEnd(phase') - 1
        BY <4>2, <1>3 DEF Loops, LoopEnd
      <4>4. clean' => \A c \in Chunk(First, at) : mem[c] \in {data[c], Erased}
        BY <2>3, <3>1
      <4>5. Progress' BY <4>2, <4>4, <1>4, <1>8 DEF Progress, InLoop, Holds, First
      <4> QED BY <4>2, <4>3, <4>5, <1>7 DEF Stepped
    <3>3. CASE ~HasNew(seen)
      <4>1. NextChunk("scan") BY <2>1, <2>5, <3>3
      <4>2. \A c \in Chunk(First, at) : data[c] = seen[c]
        BY <2>2, <3>1, <3>3 DEF HasNew
      <4>3. clean' => Holds(ChunksTo(First, at + 1))
        <5>1. ChunksTo(First, at + 1) = ChunksTo(First, at) \cup Chunk(First, at)
          BY <1>3, ChunkStep
        <5> QED BY <5>1, <4>2, <2>3, <1>8 DEF Holds
      <4>4. CASE at + 1 < Chunks
        <5>1. /\ phase' = "scan" /\ at' = at + 1
              /\ UNCHANGED << range, reply, unsure >>
          BY <4>1, <4>4 DEF NextChunk, Goto
        <5>2. phase' \in Loops /\ at' \in 0 .. LoopEnd(phase') - 1
          BY <5>1, <4>4, <1>3 DEF Loops, LoopEnd
        <5>3. Progress' BY <5>1, <4>3, <1>4 DEF Progress, InLoop, Holds, First
        <5> QED BY <5>1, <5>2, <5>3, <1>7 DEF Stepped
      <4>5. CASE ~(at + 1 < Chunks)
        <5>1. Return(Count) BY <4>1, <4>5 DEF NextChunk
        <5>2. ChunksTo(First, at + 1) = CellsOf(First, Count)
          <6>1. at + 1 = Count * ChunksPerBlock BY <4>5, <1>3 DEF Chunks
          <6> QED BY <6>1, <1>3, ChunksFill
        <5>3. clean' => \A c \in CellsOf(First, Count) : mem'[c] = data[c]
          BY <5>2, <4>3, <1>4 DEF Holds
        <5> QED BY <5>1, <5>3, <1>7 DEF Stepped
      <4> QED BY <4>4, <4>5
    <3> QED BY <3>2, <3>3
  <2> QED BY <2>4, <2>5
<1> QED BY <1>6, <1>10, <1>11


(* A chunk that was erased or right holds the data once it is programmed.  *)
LEMMA ProgramStep ==
  ASSUME Inv, ProgramChunk
  PROVE  Stepped
<1>1. TypeOK /\ Progress /\ phase \in {"program", "rewrite"} BY DEF Inv, ProgramChunk
<1>2. mem \in [Cells -> Bytes] /\ clean \in BOOLEAN BY <1>1 DEF TypeOK
<1>3. /\ range \in Ranges /\ First \in Nat /\ Count \in Nat /\ Count > 0
      /\ Chunks \in Nat /\ at \in Nat /\ at \in 0 .. Chunks - 1
      /\ CellsOf(First, Count) \subseteq Cells
      /\ \A c \in CellsOf(First, Count) : data[c] \in Bytes
  BY <1>1, Writing DEF LoopEnd
<1>4. UNCHANGED << opened, data >> BY DEF ProgramChunk
<1> DEFINE next == IF phase = "program" THEN "scan" ELSE "rewrite"
<1>5. PICK o \in Calls("write") :
        /\ clean' = o.trusted
        /\ mem' \in ProgramEffect(o, at)
        /\ IF o.ok THEN NextChunk(next) ELSE Return(-1)
  BY DEF ProgramChunk
<1>6. /\ o.ok \in BOOLEAN /\ o.done \in BOOLEAN /\ o.trusted \in BOOLEAN
      /\ o.trusted => clean /\ o.ok /\ o.done
      /\ clean /\ o.ok => o.trusted
  BY <1>2, CallEnds
<1>7. Chunk(First, at) \subseteq CellsOf(First, Count)
  BY <1>3, ChunkIsInside DEF First, Count, Chunks
<1>8. /\ mem' \in [Cells -> Bytes]
      /\ \A c \in Cells \ Chunk(First, at) : mem'[c] = mem[c]
      /\ mem' = Programmed(at) =>
           \A c \in Chunk(First, at) : mem[c] \in {data[c], Erased} => mem'[c] = data[c]
  <2>1. mem' \in {Programmed(at)} \cup PartlyProgrammed(at) BY <1>5 DEF ProgramEffect
  <2>2. Chunk(First, at) \subseteq Cells /\ \A c \in Chunk(First, at) : data[c] \in Bytes
    BY <1>3, <1>7
  <2> QED BY <2>1, <2>2, <1>2, ProgramLeaves
<1>9. /\ mem' \in [Cells -> Bytes]
      /\ \A c \in Cells \ CellsOf(First, Count) : mem'[c] = mem[c]
      /\ opened' = opened /\ data' = data
      /\ clean' \in BOOLEAN /\ (clean' => clean)
  BY <1>4, <1>5, <1>6, <1>7, <1>8
<1>10. CASE ~o.ok
  <2>1. Return(-1) /\ ~clean' BY <1>5, <1>6, <1>10
  <2> QED BY <2>1, <1>9 DEF Stepped
<1>11. CASE o.ok
  <2>1. NextChunk(next) BY <1>5, <1>11
  <2>2. ASSUME clean'
        PROVE  /\ Holds(ChunksTo(First, at))
               /\ \A c \in Chunk(First, at) : mem[c] \in {data[c], Erased}
               /\ phase = "rewrite" => Blank(CellsOf(First, Count) \ ChunksTo(First, at))
               /\ mem' = Programmed(at)
    <3>1. InLoop(phase, at) BY <2>2, <1>1, <1>9 DEF Progress
    <3>2. Holds(ChunksTo(First, at)) BY <3>1, <1>1 DEF InLoop
    <3>3. phase = "rewrite" => Blank(CellsOf(First, Count) \ ChunksTo(First, at))
      BY <3>1 DEF InLoop
    <3>4. \A c \in Chunk(First, at) : mem[c] \in {data[c], Erased}
      <4>1. phase = "program" => \A c \in Chunk(First, at) : mem[c] \in {data[c], Erased}
        BY <3>1 DEF InLoop
      <4>2. ChunksTo(First, at) \cap Chunk(First, at) = {} BY <1>3, ChunkStep
      <4>3. phase = "rewrite" => \A c \in Chunk(First, at) : mem[c] = Erased
        BY <4>2, <3>3, <1>7 DEF Blank
      <4> QED BY <4>1, <4>3, <1>1
    <3>5. mem' = Programmed(at) BY <2>2, <1>5, <1>6 DEF ProgramEffect
    <3> QED BY <3>2, <3>3, <3>4, <3>5
  <2>3. ASSUME clean'
        PROVE  /\ \A c \in ChunksTo(First, at + 1) : mem'[c] = data[c]
               /\ phase = "rewrite" =>
                    \A c \in CellsOf(First, Count) \ ChunksTo(First, at + 1) : mem'[c] = Erased
    <3>1. /\ ChunksTo(First, at + 1) = ChunksTo(First, at) \cup Chunk(First, at)
          /\ ChunksTo(First, at) \cap Chunk(First, at) = {}
      BY <1>3, ChunkStep
    <3>2. ChunksTo(First, at + 1) \subseteq CellsOf(First, Count)
      <4>1. at + 1 <= Count * ChunksPerBlock BY <1>3 DEF Chunks
      <4>2. (at + 1) * ChunkSize <= (Count * ChunksPerBlock) * ChunkSize
        BY <4>1, <1>3, Sizes, Multiples DEF Chunks
      <4>3. /\ First * BlockSize \in Nat /\ (at + 1) * ChunkSize \in Nat
            /\ (Count * ChunksPerBlock) * ChunkSize \in Nat
        BY <1>3, Sizes, Product DEF Chunks
      <4>4. ChunksTo(First, at + 1) \subseteq ChunksTo(First, Count * ChunksPerBlock)
        BY <4>2, <4>3 DEF ChunksTo
      <4> QED BY <4>4, <1>3, ChunksFill
    <3>3. \A c \in Chunk(First, at) : mem'[c] = data[c] BY <2>2, <2>3, <1>8
    <3>4. \A c \in ChunksTo(First, at) : mem'[c] = data[c]
      BY <2>2, <2>3, <1>3, <1>8, <3>1, <3>2 DEF Holds
    <3>5. ASSUME phase = "rewrite", NEW c \in CellsOf(First, Count) \ ChunksTo(First, at + 1)
          PROVE  mem'[c] = Erased
      <4>1. c \in Cells \ Chunk(First, at) /\ c \notin ChunksTo(First, at) BY <1>3, <3>1
      <4>2. mem[c] = Erased BY <2>2, <2>3, <3>5, <4>1 DEF Blank
      <4> QED BY <4>1, <4>2, <1>8
    <3> QED BY <3>1, <3>3, <3>4, <3>5
  <2>4. CASE at + 1 < Chunks
    <3>1. phase' = next /\ at' = at + 1 /\ UNCHANGED << range, reply, unsure >>
      BY <2>1, <2>4 DEF NextChunk, Goto
    <3>2. phase' \in Loops /\ at' \in 0 .. LoopEnd(phase') - 1
      BY <3>1, <2>4, <1>3 DEF Loops, LoopEnd
    <3>3. phase' \in {"scan", "rewrite"} /\ (phase' = "rewrite" => phase = "rewrite")
      BY <3>1, <1>1
    <3>4. First' = First /\ Count' = Count BY <3>1 DEF First, Count
    <3>5. ChunksTo(First', at') = ChunksTo(First, at + 1)
          /\ CellsOf(First', Count') = CellsOf(First, Count)
      BY <3>1, <3>4
    <3>6. Progress'
      <4> SUFFICES ASSUME clean' PROVE InLoop(phase, at)' BY DEF Progress
      <4>1. Holds(ChunksTo(First, at))' BY <2>3, <3>5, <1>4 DEF Holds, ChunksTo
      <4>2. phase' = "rewrite" => Blank(CellsOf(First, Count) \ ChunksTo(First, at))'
        BY <2>3, <3>3, <3>5 DEF Blank, ChunksTo, CellsOf
      <4> QED BY <4>1, <4>2, <3>3 DEF InLoop
    <3> QED BY <3>1, <3>2, <3>6, <1>9 DEF Stepped
  <2>5. CASE ~(at + 1 < Chunks)
    <3>1. Return(Count) BY <2>1, <2>5 DEF NextChunk
    <3>2. ChunksTo(First, at + 1) = CellsOf(First, Count)
      <4>1. at + 1 = Count * ChunksPerBlock BY <2>5, <1>3 DEF Chunks
      <4> QED BY <4>1, <1>3, ChunksFill
    <3>3. clean' => \A c \in CellsOf(First, Count) : mem'[c] = data[c] BY <3>2, <2>3
    <3> QED BY <3>1, <3>3, <1>9 DEF Stepped
  <2> QED BY <2>4, <2>5
<1> QED BY <1>6, <1>10, <1>11

(* The last block erased leaves the whole range to the rewrite.            *)
LEMMA EraseStep ==
  ASSUME Inv, EraseBlock
  PROVE  Stepped
<1>1. TypeOK /\ Progress /\ phase \in {"blank", "erase"} BY DEF Inv, EraseBlock
<1>2. mem \in [Cells -> Bytes] /\ clean \in BOOLEAN BY <1>1 DEF TypeOK
<1>3. /\ range \in Ranges /\ First \in Nat /\ Count \in Nat /\ Count > 0
      /\ Chunks \in Nat /\ Chunks > 0 /\ at \in Nat /\ at \in 0 .. Count - 1
      /\ CellsOf(First, Count) \subseteq Cells
  BY <1>1, Writing DEF LoopEnd
<1>4. UNCHANGED << opened, data >> BY DEF EraseBlock
<1>5. PICK o \in Calls("erase") :
        /\ clean' = o.trusted
        /\ mem' \in EraseEffect(o, First + at)
        /\ IF at + 1 < Count THEN Goto(phase, at + 1)
           ELSE IF phase = "erase" THEN Goto("rewrite", 0)
           ELSE Return(Count)
  BY DEF EraseBlock
<1>6. /\ o.ok \in BOOLEAN /\ o.done \in BOOLEAN /\ o.trusted \in BOOLEAN
      /\ o.trusted => clean /\ o.ok /\ o.done
      /\ clean /\ o.ok => o.trusted
  BY <1>2, CallEnds
<1>7. CellsOf(First + at, 1) \subseteq CellsOf(First, Count)
  <2>1. First + at \in First .. First + Count - 1 BY <1>3
  <2> QED BY <2>1, <1>3, BlockIsInside DEF First, Count
<1>8. /\ mem' \in [Cells -> Bytes]
      /\ \A c \in Cells \ CellsOf(First + at, 1) : mem'[c] = mem[c]
      /\ mem' = BlockErased(First + at) =>
           \A c \in CellsOf(First + at, 1) : mem'[c] = Erased
  <2>1. mem' \in {BlockErased(First + at)} \cup PartlyErased(First + at)
    BY <1>5 DEF EraseEffect
  <2>2. CellsOf(First + at, 1) \subseteq Cells BY <1>3, <1>7
  <2> QED BY <2>1, <2>2, <1>2, EraseLeaves
<1>9. /\ mem' \in [Cells -> Bytes]
      /\ \A c \in Cells \ CellsOf(First, Count) : mem'[c] = mem[c]
      /\ opened' = opened /\ data' = data
      /\ clean' \in BOOLEAN /\ (clean' => clean)
  BY <1>4, <1>5, <1>6, <1>7, <1>8
<1>10. ASSUME clean'
       PROVE  /\ \A c \in CellsOf(First, at + 1) : mem'[c] = Erased
              /\ phase = "blank" => \A c \in CellsOf(First, Count) : data[c] = Erased
  <2>1. InLoop(phase, at) BY <1>10, <1>1, <1>9 DEF Progress
  <2>2. Blank(CellsOf(First, at)) BY <2>1, <1>1 DEF InLoop
  <2>3. phase = "blank" => \A c \in CellsOf(First, Count) : data[c] = Erased
    BY <2>1 DEF InLoop
  <2>4. mem' = BlockErased(First + at) BY <1>10, <1>5, <1>6 DEF EraseEffect
  <2>5. CellsOf(First, at + 1) = CellsOf(First, at) \cup CellsOf(First + at, 1)
    BY <1>3, NextBlock
  <2>6. CellsOf(First, at) \subseteq Cells
    <3>1. First * BlockSize \in Nat /\ (First + at) * BlockSize \in Nat
          /\ (First + Count) * BlockSize \in Nat
      BY <1>3, Sizes, Product
    <3>2. (First + at) * BlockSize <= (First + Count) * BlockSize
      BY <1>3, Sizes, Multiples
    <3>3. CellsOf(First, at) \subseteq CellsOf(First, Count)
      BY <3>1, <3>2 DEF CellsOf
    <3> QED BY <3>3, <1>3
  <2>7. \A c \in CellsOf(First + at, 1) : mem'[c] = Erased BY <2>4, <1>8
  <2>8. \A c \in CellsOf(First, at) : mem'[c] = Erased
    BY <2>2, <2>6, <2>7, <1>8 DEF Blank
  <2> QED BY <2>3, <2>5, <2>7, <2>8
<1>11. CASE at + 1 < Count
  <2>1. phase' = phase /\ at' = at + 1 /\ UNCHANGED << range, reply, unsure >>
    BY <1>5, <1>11 DEF Goto
  <2>2. phase' \in Loops /\ at' \in 0 .. LoopEnd(phase') - 1
    <3>1. LoopEnd(phase') = Count BY <2>1, <1>1 DEF LoopEnd
    <3> QED BY <2>1, <1>1, <1>3, <1>11 DEF Loops, LoopEnd
  <2>3. First' = First /\ Count' = Count BY <2>1 DEF First, Count
  <2>4. CellsOf(First', at') = CellsOf(First, at + 1)
        /\ CellsOf(First', Count') = CellsOf(First, Count)
    BY <2>1, <2>3
  <2>5. Progress'
    <3> SUFFICES ASSUME clean' PROVE InLoop(phase, at)' BY DEF Progress
    <3>1. Blank(CellsOf(First, at))' BY <1>10, <2>4 DEF Blank, CellsOf
    <3>2. (phase = "blank" => \A c \in CellsOf(First, Count) : data[c] = Erased)'
      BY <1>4, <1>10, <2>1, <2>4 DEF CellsOf
    <3> QED BY <3>1, <3>2, <2>1, <1>1 DEF InLoop
  <2> QED BY <2>1, <2>2, <2>5, <1>9 DEF Stepped
<1>12. CASE ~(at + 1 < Count)
  <2>1. at + 1 = Count BY <1>12, <1>3
  <2>2. clean' => \A c \in CellsOf(First, Count) : mem'[c] = Erased
    BY <1>10, <2>1
  <2>3. CASE phase = "erase"
    <3>1. Goto("rewrite", 0) BY <1>5, <1>12, <2>3
    <3>2. phase' = "rewrite" /\ at' = 0 /\ UNCHANGED << range, reply, unsure >>
      BY <3>1 DEF Goto
    <3>3. phase' \in Loops /\ at' \in 0 .. LoopEnd(phase') - 1
      BY <3>2, <1>3 DEF Loops, LoopEnd
    <3>4. ChunksTo(First, 0) = {} BY <1>3, ChunkStep
    <3>5. First' = First /\ Count' = Count BY <3>2 DEF First, Count
    <3>6. ChunksTo(First', at') = {} /\ CellsOf(First', Count') = CellsOf(First, Count)
      BY <3>2, <3>4, <3>5
    <3>7. Progress'
      <4> SUFFICES ASSUME clean' PROVE InLoop(phase, at)' BY DEF Progress
      <4>1. Holds(ChunksTo(First, at))' BY <3>6 DEF Holds, ChunksTo
      <4>2. Blank(CellsOf(First, Count) \ ChunksTo(First, at))'
        BY <2>2, <3>6 DEF Blank, CellsOf
      <4> QED BY <4>1, <4>2, <3>2 DEF InLoop
    <3> QED BY <3>2, <3>3, <3>7, <1>9 DEF Stepped
  <2>4. CASE phase = "blank"
    <3>1. Return(Count) BY <1>5, <1>12, <2>4
    <3>2. clean' => \A c \in CellsOf(First, Count) : mem'[c] = data[c]
      BY <2>2, <2>4, <1>10
    <3> QED BY <3>1, <3>2, <1>9 DEF Stepped
  <2> QED BY <2>3, <2>4, <1>1
<1> QED BY <1>11, <1>12

-----------------------------------------------------------------------------
(* The invariant holds                                                     *)

LEMMA WriteStepped ==
  ASSUME Inv, WriteStep
  PROVE  Stepped /\ phase # "idle"
<1>1. CASE Scan BY <1>1, ScanStep DEF Scan
<1>2. CASE ProgramChunk BY <1>2, ProgramStep DEF ProgramChunk
<1>3. CASE EraseBlock BY <1>3, EraseStep DEF EraseBlock
<1> QED BY <1>1, <1>2, <1>3 DEF WriteStep

LEMMA InvInit == Init => Inv
<1> SUFFICES ASSUME Init PROVE Inv OBVIOUS
<1>1. /\ mem \in [Cells -> Bytes] /\ opened = FALSE /\ clean = FALSE
      /\ phase = "idle" /\ range = << >> /\ at = 0 /\ reply = 0 /\ unsure = {}
  BY DEF Init
<1>2. 0 \in -1 .. NumBlocks BY Sizes
<1>3. reply \in -1 .. NumBlocks BY <1>1, <1>2
<1>4. TypeOK BY <1>1, <1>3 DEF TypeOK
<1>5. Progress BY <1>1 DEF Progress
<1> QED BY <1>4, <1>5 DEF Inv

(* ... and keeps the invariant.                                            *)
LEMMA SteppedInv ==
  ASSUME Inv, phase # "idle", Stepped
  PROVE  Inv'
<1>1. TypeOK BY DEF Inv
<1>2. /\ mem' \in [Cells -> Bytes] /\ clean' \in BOOLEAN
      /\ opened' = opened /\ data' = data
  BY DEF Stepped
<1>3. /\ range \in Ranges /\ Count \in Nat /\ Count > 0 /\ Count <= NumBlocks
      /\ opened /\ Named \subseteq unsure /\ data \in Buffers(First, Count)
  BY <1>1, Writing
<1>4. opened \in BOOLEAN /\ unsure \subseteq Blocks /\ reply \in -1 .. NumBlocks
  BY <1>1 DEF TypeOK
<1>5. CASE /\ phase' \in Loops /\ at' \in 0 .. LoopEnd(phase') - 1
           /\ UNCHANGED << range, reply, unsure >>
           /\ Progress'
  <2>1. First' = First /\ Count' = Count BY <1>5 DEF First, Count
  <2>2. Named' = Named /\ Buffers(First, Count)' = Buffers(First, Count) /\ Chunks' = Chunks
    BY <2>1 DEF Named, Buffers, CellsOf, Chunks
  <2>3. phase' # "idle" /\ phase' \in {"idle", "blank", "scan", "program", "erase", "rewrite"}
    BY <1>5 DEF Loops
  <2>4. at' \in 0 .. (IF phase' \in {"blank", "erase"} THEN Count' ELSE Chunks') - 1
    BY <1>5, <2>1, <2>2 DEF LoopEnd
  <2>5. data' \in Buffers(First, Count)' BY <1>2, <1>3, <2>2
  <2>6. Named' \subseteq unsure' BY <1>3, <1>5, <2>2
  <2>7. TypeOK'
    BY <1>2, <1>3, <1>4, <1>5, <2>3, <2>4, <2>5, <2>6 DEF TypeOK
  <2> QED BY <1>5, <2>7 DEF Inv
<1>6. ASSUME NEW r \in {-1, Count}, Return(r)
      PROVE  Inv'
  <2>1. phase' = "idle" /\ range' = << >> /\ at' = 0 /\ reply' = r BY <1>6 DEF Return
  <2>2. unsure' \subseteq Blocks BY <1>4, <1>6 DEF Return
  <2>3. r \in -1 .. NumBlocks BY <1>3, Sizes
  <2>4. TypeOK' BY <1>2, <1>4, <2>1, <2>2, <2>3 DEF TypeOK
  <2>5. Progress' BY <2>1 DEF Progress
  <2> QED BY <2>4, <2>5 DEF Inv
<1> QED BY <1>5, <1>6 DEF Stepped

(* Between the writes, and when one begins or is cut short by a reset.     *)
LEMMA IdleTyped ==
  ASSUME TypeOK, phase' = "idle", range' = << >>, at' = 0,
         mem' \in [Cells -> Bytes], opened' \in BOOLEAN, clean' \in BOOLEAN,
         reply' \in -1 .. NumBlocks, unsure' = unsure
  PROVE  Inv'
<1>1. unsure' \subseteq Blocks BY DEF TypeOK
<1>2. TypeOK' BY <1>1 DEF TypeOK
<1>3. Progress' BY DEF Progress
<1> QED BY <1>2, <1>3 DEF Inv

(* The fields of an outcome are Boolean.                                   *)
LEMMA Outcome ==
  ASSUME NEW f, NEW o \in Calls(f)
  PROVE  o.ok \in BOOLEAN /\ o.done \in BOOLEAN /\ o.trusted \in BOOLEAN
BY DEF Calls, Outcomes

(* A reset that cuts a program or an erase short stays in the range.       *)
LEMMA RebootKeeps ==
  ASSUME TypeOK, Reboot
  PROVE  /\ mem' \in [Cells -> Bytes]
         /\ \A c \in Cells : mem'[c] # mem[c] =>
              phase # "idle" /\ c \in CellsOf(First, Count)
<1>1. mem \in [Cells -> Bytes] BY DEF TypeOK
<1>2. phase \in {"idle"} \cup Loops BY DEF TypeOK, Loops
<1>3. CASE phase \in {"program", "rewrite"}
  <2>1. mem' \in PartlyProgrammed(at) BY <1>3 DEF Reboot
  <2>2. /\ range \in Ranges /\ at \in 0 .. Count * ChunksPerBlock - 1
        /\ CellsOf(First, Count) \subseteq Cells
        /\ \A c \in CellsOf(First, Count) : data[c] \in Bytes
    BY <1>3, Writing DEF LoopEnd, Chunks
  <2>3. Chunk(First, at) \subseteq CellsOf(First, Count)
    BY <2>2, ChunkIsInside DEF First, Count
  <2>4. mem' \in {Programmed(at)} \cup PartlyProgrammed(at) BY <2>1
  <2>5. /\ mem' \in [Cells -> Bytes]
        /\ \A c \in Cells \ Chunk(First, at) : mem'[c] = mem[c]
    BY <1>1, <2>2, <2>3, <2>4, ProgramLeaves
  <2> QED BY <1>3, <2>3, <2>5
<1>4. CASE phase \in {"blank", "erase"}
  <2>1. mem' \in PartlyErased(First + at) BY <1>4 DEF Reboot
  <2>2. /\ range \in Ranges /\ at \in 0 .. Count - 1 /\ First \in Nat /\ Count \in Nat
        /\ CellsOf(First, Count) \subseteq Cells
    BY <1>4, Writing DEF LoopEnd
  <2>3. First + at \in First .. First + Count - 1 BY <2>2
  <2>4. CellsOf(First + at, 1) \subseteq CellsOf(First, Count)
    BY <2>2, <2>3, BlockIsInside DEF First, Count
  <2>5. mem' \in {BlockErased(First + at)} \cup PartlyErased(First + at) BY <2>1
  <2>6. /\ mem' \in [Cells -> Bytes]
        /\ \A c \in Cells \ CellsOf(First + at, 1) : mem'[c] = mem[c]
    BY <1>1, <2>2, <2>4, <2>5, EraseLeaves
  <2> QED BY <1>4, <2>4, <2>6
<1>5. CASE phase \in {"idle", "scan"}
  <2>1. mem' = mem BY <1>5 DEF Reboot
  <2> QED BY <1>1, <2>1
<1> QED BY <1>2, <1>3, <1>4, <1>5 DEF Loops

(* A write begins with nothing done.                                       *)
LEMMA BeginInv ==
  ASSUME Inv, NEW r \in Ranges, NEW d \in Buffers(r[1], r[2]), WriteBlock(r[1], r[2], d)
  PROVE  Inv'
<1>1. TypeOK /\ phase = "idle" /\ opened BY DEF Inv, WriteBlock
<1>2. /\ r = << r[1], r[2] >> /\ r[1] \in Nat /\ r[2] \in Nat /\ r[2] > 0
      /\ r[1] .. r[1] + r[2] - 1 \subseteq Blocks
  BY RangeIsInside
<1>3. /\ mem' = mem /\ opened' = opened /\ clean' = clean
      /\ range' = r /\ data' = d /\ at' = 0 /\ reply' = 0
      /\ unsure' = unsure \cup (r[1] .. r[1] + r[2] - 1)
      /\ phase' = IF \A c \in DOMAIN d : d[c] = Erased THEN "blank" ELSE "scan"
  BY <1>2 DEF WriteBlock
<1>4. phase' \in {"blank", "scan"} BY <1>3
<1>5. First' = r[1] /\ Count' = r[2] BY <1>3 DEF First, Count
<1>6. Chunks' \in Nat /\ Chunks' > 0
  <2>1. \A m, n \in Nat \ {0} : m * n \in Nat \ {0} OBVIOUS
  <2> QED BY <2>1, <1>2, <1>5, Sizes DEF Chunks
<1>7. Named' \subseteq unsure' BY <1>3, <1>5 DEF Named
<1>8. data' \in Buffers(First, Count)' BY <1>3, <1>5 DEF Buffers, CellsOf
<1>9. at' \in 0 .. (IF phase' \in {"blank", "erase"} THEN Count' ELSE Chunks') - 1
  BY <1>2, <1>3, <1>5, <1>6
<1>10. unsure' \subseteq Blocks BY <1>1, <1>2, <1>3 DEF TypeOK
<1>11. 0 \in -1 .. NumBlocks BY Sizes
<1>12. TypeOK'
  <2>1. mem' \in [Cells -> Bytes] /\ opened' /\ opened' \in BOOLEAN /\ clean' \in BOOLEAN
    BY <1>1, <1>3 DEF TypeOK
  <2> QED BY <2>1, <1>3, <1>4, <1>7, <1>8, <1>9, <1>10, <1>11 DEF TypeOK
<1>13. Progress'
  <2>1. ChunksTo(r[1], 0) = {} /\ CellsOf(r[1], 0) = {} BY <1>2, ChunkStep, NextBlock
  <2>2. ChunksTo(First', at') = {} /\ CellsOf(First', at') = {} BY <2>1, <1>3, <1>5
  <2>3. Holds(ChunksTo(First, at))' BY <2>2 DEF Holds, ChunksTo
  <2>4. Blank(CellsOf(First, at))' BY <2>2 DEF Blank, CellsOf
  <2>5. phase' = "blank" => \A c \in CellsOf(First', Count') : data'[c] = Erased
    BY <1>3, <1>5 DEF Buffers
  <2>6. InLoop(phase, at)' BY <2>3, <2>4, <2>5, <1>4 DEF InLoop, CellsOf
  <2> QED BY <2>6 DEF Progress
<1> QED BY <1>12, <1>13 DEF Inv

LEMMA InvNext == Inv /\ [Next]_vars => Inv'
<1> SUFFICES ASSUME Inv, [Next]_vars PROVE Inv' OBVIOUS
<1>1. TypeOK BY DEF Inv
<1>2. /\ mem \in [Cells -> Bytes] /\ opened \in BOOLEAN /\ clean \in BOOLEAN
      /\ reply \in -1 .. NumBlocks
      /\ (phase = "idle" => at = 0 /\ range = << >>)
  BY <1>1 DEF TypeOK
<1>3. 0 \in -1 .. NumBlocks /\ -1 \in -1 .. NumBlocks BY Sizes
<1>4. CASE Open
  <2>1. UNCHANGED << mem, phase, range, data, at, unsure >> /\ phase = "idle"
    BY <1>4 DEF Open
  <2>2. opened' \in BOOLEAN /\ clean' \in BOOLEAN /\ reply' \in {0, -1}
    BY <1>2, <1>4, Outcome DEF Open
  <2>3. reply' \in -1 .. NumBlocks BY <2>2, <1>3
  <2> QED BY <1>1, <1>2, <2>1, <2>2, <2>3, IdleTyped
<1>5. CASE Close
  <2>1. UNCHANGED << mem, phase, range, data, at, unsure >> /\ phase = "idle"
    BY <1>5 DEF Close
  <2>2. opened' \in BOOLEAN /\ clean' \in BOOLEAN /\ reply' \in {0, -1}
    BY <1>2, <1>5, Outcome DEF Close
  <2>3. reply' \in -1 .. NumBlocks BY <2>2, <1>3
  <2> QED BY <1>1, <1>2, <2>1, <2>2, <2>3, IdleTyped
<1>6. ASSUME NEW r \in Ranges, ReadBlock(r[1], r[2])
      PROVE  Inv'
  <2>1. UNCHANGED << mem, opened, phase, range, at, unsure >> /\ phase = "idle"
    BY <1>6 DEF ReadBlock
  <2>2. clean' \in BOOLEAN /\ reply' \in {r[2], -1} BY <1>6, Outcome DEF ReadBlock
  <2>3. reply' \in -1 .. NumBlocks BY <2>2, <1>3, RangeIsInside, Sizes
  <2> QED BY <1>1, <1>2, <2>1, <2>2, <2>3, IdleTyped
<1>7. ASSUME NEW r \in Ranges, NEW d \in Buffers(r[1], r[2]), WriteBlock(r[1], r[2], d)
      PROVE  Inv'
  BY <1>7, BeginInv
<1>8. CASE WriteStep BY <1>8, WriteStepped, SteppedInv
<1>9. CASE Reboot
  <2>1. /\ opened' = FALSE /\ clean' = FALSE /\ phase' = "idle" /\ range' = << >>
        /\ at' = 0 /\ reply' = 0 /\ unsure' = unsure
    BY <1>9 DEF Reboot
  <2>2. mem' \in [Cells -> Bytes] BY <1>1, <1>9, RebootKeeps
  <2> QED BY <1>1, <1>3, <2>1, <2>2, IdleTyped
<1>10. CASE UNCHANGED vars
  <2>1. UNCHANGED << mem, opened, clean, phase, range, data, at, reply, unsure >>
    BY <1>10 DEF vars
  <2>2. TypeOK' BY <1>1, <2>1 DEF TypeOK, Named, First, Count, Chunks
  <2>3. Progress' BY <2>1 DEF Inv, Progress, InLoop, Holds, Blank, First, Count
  <2> QED BY <2>2, <2>3 DEF Inv
<1> QED BY <1>4, <1>5, <1>6, <1>7, <1>8, <1>9, <1>10 DEF Next

LEMMA InvAlways == Spec => []Inv
BY InvInit, InvNext, PTL DEF Spec

(* Every variable of the block device keeps its type; in a write the       *)
(* device is open, the blocks it names count as unsure and the loop is     *)
(* inside the range do_write_block was called for.                         *)
THEOREM BlockTypes == Spec => []TypeOK
<1>1. Inv => TypeOK BY DEF Inv
<1> QED BY <1>1, InvAlways, PTL

-----------------------------------------------------------------------------
(* The refinement                                                          *)

LEMMA SameRanges ==
  /\ Store!Ranges = Ranges
  /\ \A f, n : Store!CellsOf(f, n) = CellsOf(f, n)
  /\ \A f, n : Store!Buffers(f, n) = Buffers(f, n)
  /\ Store!Cells = Cells
<1>1. Store!Blocks = Blocks /\ Store!BlockSize = BlockSize
  BY DEF Store!Blocks, Blocks, Store!BlockSize, BlockSize
<1>2. Store!Ranges = Ranges BY <1>1 DEF Store!Ranges, Ranges
<1>3. Store!Cells = Cells BY <1>1 DEF Store!Cells, Cells
<1>4. \A f, n : Store!CellsOf(f, n) = CellsOf(f, n) BY <1>1 DEF Store!CellsOf, CellsOf
<1>5. \A f, n : Store!Buffers(f, n) = Buffers(f, n) BY <1>4 DEF Store!Buffers, Buffers
<1> QED BY <1>2, <1>3, <1>4, <1>5

Content == [c \in Promised |-> mem[c]]

(* Promised are the cells of the blocks that are not unsure.               *)
LEMMA PromisedCells ==
  ASSUME unsure \subseteq Blocks
  PROVE  Promised = {c \in Cells : BlockOf(c) \notin unsure}
<1>1. \A c \in Cells : c \in UNION {CellsOf(b, 1) : b \in unsure} <=> BlockOf(c) \in unsure
  BY Unpromised
<1> QED BY <1>1 DEF Promised

(* Nothing of the range of a running write is promised.                    *)
LEMMA NothingWritten ==
  ASSUME TypeOK, phase # "idle"
  PROVE  Promised \cap CellsOf(First, Count) = {}
<1>1. /\ First \in Nat /\ Count \in Nat /\ Named \subseteq unsure
      /\ CellsOf(First, Count) \subseteq Cells
  BY Writing
<1>2. unsure \subseteq Blocks BY DEF TypeOK
<1> SUFFICES ASSUME NEW c \in CellsOf(First, Count) PROVE c \notin Promised OBVIOUS
<1>3. c \in Nat BY <1>1, CellsAreNat
<1>4. BlockOf(c) \in Named BY <1>1, <1>3, InRange DEF Named
<1> QED BY <1>1, <1>2, <1>4, PromisedCells

(* Cells that are not promised may change unseen.                          *)
LEMMA ContentKept ==
  ASSUME unsure' = unsure, \A c \in Promised : mem'[c] = mem[c]
  PROVE  Content' = Content
<1>1. Promised' = Promised BY DEF Promised
<1>2. [c \in Promised |-> mem'[c]] = [c \in Promised |-> mem[c]] OBVIOUS
<1>3. Content' = [c \in Promised' |-> mem'[c]] BY DEF Content
<1> QED BY <1>1, <1>2, <1>3 DEF Content

LEMMA StoreInit == Init => Store!Init
<1> SUFFICES ASSUME Init PROVE Store!Init OBVIOUS
<1>1. unsure = {} /\ mem \in [Cells -> Bytes] BY DEF Init
<1>2. Promised = Cells BY <1>1 DEF Promised
<1>3. Content \in [Cells -> Bytes] BY <1>1, <1>2 DEF Content
<1>4. (opened /\ clean) = FALSE /\ range = << >> /\ data = << >> /\ reply = 0
  BY DEF Init
<1> QED BY <1>3, <1>4, SameRanges DEF Store!Init, Content


(* The store sees a write exactly while one runs.                          *)
LEMMA WritingIsNamed ==
  ASSUME TypeOK
  PROVE  phase = "idle" <=> range = << >>
<1>1. phase = "idle" => range = << >> BY DEF TypeOK
<1>2. ASSUME phase # "idle" PROVE range # << >>
  <2>1. range \in Ranges BY <1>2, Writing
  <2>2. range = << range[1], range[2] >> BY <2>1, RangeIsInside
  <2> QED BY <2>2
<1> QED BY <1>1, <1>2

(* Opening and closing.                                                    *)
LEMMA OpenOrCloseStep ==
  ASSUME TypeOK, phase = "idle", UNCHANGED << mem, phase, range, data, at, unsure >>,
         reply' \in {0, -1}
  PROVE  Store!OpenOrClose
<1>1. Content' = Content BY ContentKept
<1>2. range = << >> BY WritingIsNamed
<1>3. (opened /\ clean)' \in BOOLEAN OBVIOUS
<1> QED BY <1>1, <1>2, <1>3 DEF Store!OpenOrClose, Content

(* A read that is trusted afterwards was of a trusted driver, and is done. *)
LEMMA ReadRefines ==
  ASSUME TypeOK, NEW r \in Ranges, ReadBlock(r[1], r[2])
  PROVE  Store!Next
<1>1. phase = "idle" /\ opened /\ UNCHANGED << mem, opened, phase, range, at, unsure >>
  BY DEF ReadBlock
<1>2. range = << >> BY <1>1, WritingIsNamed
<1>3. Content' = Content BY <1>1, ContentKept
<1>4. PICK o \in Calls("read") :
        /\ clean' = o.trusted
        /\ IF o.ok THEN data' \in Seen(o, CellsOf(r[1], r[2])) /\ reply' = r[2]
                   ELSE data' = << >> /\ reply' = -1
  BY DEF ReadBlock
<1>5. /\ o.ok \in BOOLEAN /\ o.done \in BOOLEAN /\ o.trusted \in BOOLEAN
      /\ o.trusted => clean /\ o.ok /\ o.done
      /\ clean /\ o.ok => o.trusted
  BY CallEnds DEF TypeOK
<1>6. mem \in [Cells -> Bytes] /\ clean \in BOOLEAN /\ opened \in BOOLEAN BY DEF TypeOK
<1>7. CASE ~o.ok
  <2>1. data' = << >> /\ reply' = -1 /\ clean' = FALSE BY <1>4, <1>5, <1>7
  <2>2. (opened /\ clean)' = FALSE BY <2>1
  <2>3. Store!FailRead BY <2>1, <2>2, <1>1, <1>2, <1>3 DEF Store!FailRead, Content
  <2> QED BY <2>3 DEF Store!Next
<1>8. CASE o.ok
  <2>1. data' \in Seen(o, CellsOf(r[1], r[2])) /\ reply' = r[2] BY <1>4, <1>8
  <2>2. CellsOf(r[1], r[2]) \subseteq Cells BY RangeIsInside
  <2>3. data' \in [CellsOf(r[1], r[2]) -> Bytes]
    <3>1. [c \in CellsOf(r[1], r[2]) |-> mem[c]] \in [CellsOf(r[1], r[2]) -> Bytes]
      BY <2>2, <1>6
    <3> QED BY <3>1, <2>1 DEF Seen
  <2>4. (opened /\ clean)' = (opened /\ clean)
    <3>1. clean' = clean BY <1>4, <1>5, <1>6, <1>8
    <3> QED BY <3>1, <1>1
  <2>5. opened /\ clean => \A c \in DOMAIN data' \cap DOMAIN Content : data'[c] = Content[c]
    <3> SUFFICES ASSUME clean, NEW c \in DOMAIN data' \cap DOMAIN Content
                 PROVE data'[c] = Content[c]
      OBVIOUS
    <3>1. data' = [k \in CellsOf(r[1], r[2]) |-> mem[k]] BY <2>1, <1>5, <1>8 DEF Seen
    <3>2. c \in CellsOf(r[1], r[2]) /\ c \in Promised BY <3>1 DEF Content
    <3> QED BY <3>1, <3>2 DEF Content
  <2>6. Store!Read(r[1], r[2], data')
    BY <2>1, <2>4, <2>5, <1>1, <1>2, <1>3 DEF Store!Read, Content
  <2>7. r \in Store!Ranges /\ data' \in Store!Buffers(r[1], r[2])
    BY <2>3, SameRanges DEF Buffers
  <2> QED BY <2>6, <2>7 DEF Store!Next
<1> QED BY <1>5, <1>7, <1>8

(* The beginning of a write takes its range out of what is promised.       *)
LEMMA BeginRefines ==
  ASSUME TypeOK, NEW r \in Ranges, NEW d \in Buffers(r[1], r[2]), WriteBlock(r[1], r[2], d)
  PROVE  Store!Next
<1>1. /\ phase = "idle" /\ UNCHANGED << mem, opened, clean >>
      /\ range' = << r[1], r[2] >> /\ data' = d /\ reply' = 0
      /\ unsure' = unsure \cup (r[1] .. r[1] + r[2] - 1)
  BY DEF WriteBlock
<1>2. range = << >> BY <1>1, WritingIsNamed
<1>3. /\ r[1] \in Nat /\ r[2] \in Nat
      /\ r[1] .. r[1] + r[2] - 1 \subseteq Blocks
      /\ CellsOf(r[1], r[2]) \subseteq Cells
  BY RangeIsInside
<1>4. unsure \subseteq Blocks BY DEF TypeOK
<1>5. unsure' \subseteq Blocks BY <1>1, <1>3, <1>4
<1>6. Promised = {c \in Cells : BlockOf(c) \notin unsure} BY <1>4, PromisedCells
<1>7. Promised' = {c \in Cells : BlockOf(c) \notin unsure'}
  <2>1. \A c \in Cells : c \in UNION {CellsOf(b, 1) : b \in unsure'} <=> BlockOf(c) \in unsure'
    BY <1>5, Unpromised
  <2> QED BY <2>1 DEF Promised
<1>8. Promised' = Promised \ CellsOf(r[1], r[2])
  <2>1. \A c \in Cells : c \in CellsOf(r[1], r[2]) <=> BlockOf(c) \in r[1] .. r[1] + r[2] - 1
    BY <1>3, InRange, CellsAreNat, AllCells, Sizes
  <2> QED BY <2>1, <1>1, <1>6, <1>7
<1>9. Content' = Store!Without(CellsOf(r[1], r[2]))
  <2>1. Content' = [c \in Promised' |-> mem[c]] BY <1>1 DEF Content
  <2>2. DOMAIN Content = Promised /\ \A c \in Promised : Content[c] = mem[c] BY DEF Content
  <2>3. Store!Without(CellsOf(r[1], r[2])) =
          [c \in DOMAIN Content \ CellsOf(r[1], r[2]) |-> Content[c]]
    BY DEF Store!Without, Content
  <2> QED BY <2>1, <2>2, <2>3, <1>8
<1>10. (opened /\ clean)' = (opened /\ clean) BY <1>1
<1>11. Store!BeginWrite(r[1], r[2], d)
  BY <1>1, <1>2, <1>9, <1>10, SameRanges DEF Store!BeginWrite, Content
<1>12. r \in Store!Ranges /\ d \in Store!Buffers(r[1], r[2]) BY SameRanges
<1> QED BY <1>11, <1>12 DEF Store!Next


(* A write that ends well has stored its data if the driver is trusted.    *)
LEMMA EndRefines ==
  ASSUME TypeOK, phase # "idle", Stepped, Return(Count),
         clean' => \A c \in CellsOf(First, Count) : mem'[c] = data[c]
  PROVE  Store!EndWrite
<1>1. /\ range \in Ranges /\ First \in Nat /\ Count \in Nat /\ Count > 0
      /\ Named \subseteq unsure /\ opened /\ CellsOf(First, Count) \subseteq Cells
      /\ data \in Buffers(First, Count)
  BY Writing
<1>2. range # << >> BY WritingIsNamed
<1>3. range' = << >> /\ reply' = Count
      /\ unsure' = IF Count > 0 /\ clean' THEN unsure \ Named ELSE unsure
  BY DEF Return
<1>4. /\ \A c \in Cells \ CellsOf(First, Count) : mem'[c] = mem[c]
      /\ opened' = opened /\ data' = data /\ clean' \in BOOLEAN /\ (clean' => clean)
  BY DEF Stepped
<1>5. reply' = range[2] BY <1>3 DEF Count
<1>6. (opened /\ clean)' => (opened /\ clean) BY <1>1, <1>4
<1>7. (opened /\ clean)' <=> clean' BY <1>1, <1>4
<1>8. unsure \subseteq Blocks BY DEF TypeOK
<1>9. Promised = {c \in Cells : BlockOf(c) \notin unsure} BY <1>8, PromisedCells
<1>10. Promised \cap CellsOf(First, Count) = {} /\ Promised \subseteq Cells
  BY NothingWritten DEF Promised
<1>11. CASE clean'
  <2>1. unsure' = unsure \ Named BY <1>1, <1>3, <1>11
  <2>2. Promised' = {c \in Cells : BlockOf(c) \notin unsure'}
    <3>1. \A c \in Cells : c \in UNION {CellsOf(b, 1) : b \in unsure'} <=> BlockOf(c) \in unsure'
      BY <2>1, <1>8, Unpromised
    <3> QED BY <3>1 DEF Promised
  <2>3. Promised' = Promised \cup CellsOf(First, Count)
    <3>1. \A c \in Cells : c \in CellsOf(First, Count) <=> BlockOf(c) \in Named
      BY <1>1, InRange, CellsAreNat, AllCells, Sizes DEF Named
    <3> QED BY <3>1, <2>1, <2>2, <1>1, <1>9
  <2>4. DOMAIN data = CellsOf(First, Count) BY <1>1 DEF Buffers
  <2>5. DOMAIN Content = Promised /\ \A c \in Promised : Content[c] = mem[c] BY DEF Content
  <2>6. Store!With(data) = [c \in DOMAIN Content \cup DOMAIN data |->
                              IF c \in DOMAIN data THEN data[c] ELSE Content[c]]
    BY DEF Store!With, Content
  <2>7. Content' = [c \in Promised' |-> mem'[c]] BY DEF Content
  <2>8. \A c \in Promised' : mem'[c] = IF c \in DOMAIN data THEN data[c] ELSE Content[c]
    <3> SUFFICES ASSUME NEW c \in Promised'
                 PROVE mem'[c] = IF c \in DOMAIN data THEN data[c] ELSE Content[c]
      OBVIOUS
    <3>1. CASE c \in CellsOf(First, Count) BY <3>1, <2>4, <1>11
    <3>2. CASE c \notin CellsOf(First, Count)
      <4>1. c \in Promised /\ c \in Cells BY <3>2, <2>3, <1>10
      <4> QED BY <4>1, <3>2, <2>4, <2>5, <1>4
    <3> QED BY <3>1, <3>2
  <2>9. Content' = Store!With(data) BY <2>3, <2>4, <2>5, <2>6, <2>7, <2>8
  <2>10. (opened /\ clean)' BY <1>7, <1>11
  <2> QED BY <2>9, <2>10, <1>2, <1>3, <1>4, <1>5, <1>6
      DEF Store!EndWrite, Store!ServiceMayEnd, Content
<1>12. CASE ~clean'
  <2>1. unsure' = unsure BY <1>3, <1>12
  <2>2. \A c \in Promised : mem'[c] = mem[c] BY <1>4, <1>10
  <2>3. Content' = Content BY <2>1, <2>2, ContentKept
  <2>4. ~(opened /\ clean)' BY <1>7, <1>12
  <2> QED BY <2>3, <2>4, <1>2, <1>3, <1>4, <1>5, <1>6
      DEF Store!EndWrite, Store!ServiceMayEnd, Content
<1> QED BY <1>11, <1>12

(* Inside a write the store sees no more than the trust of the driver end. *)
LEMMA StepRefines ==
  ASSUME TypeOK, phase # "idle", Stepped
  PROVE  Store!Next \/ UNCHANGED Store!storeVars
<1>1. range # << >> BY WritingIsNamed
<1>2. /\ \A c \in Cells \ CellsOf(First, Count) : mem'[c] = mem[c]
      /\ opened' = opened /\ data' = data /\ clean' \in BOOLEAN /\ (clean' => clean)
  BY DEF Stepped
<1>3. \A c \in Promised : mem'[c] = mem[c]
  BY <1>2, NothingWritten DEF Promised
<1>4. opened /\ clean \in BOOLEAN BY Writing DEF TypeOK
<1>5. CASE /\ phase' \in Loops /\ at' \in 0 .. LoopEnd(phase') - 1
           /\ UNCHANGED << range, reply, unsure >>
           /\ Progress'
  <2>1. Content' = Content BY <1>3, <1>5, ContentKept
  <2>2. CASE clean' = clean
    <3>1. (opened /\ clean)' = (opened /\ clean) BY <2>2, <1>2
    <3> QED BY <2>1, <3>1, <1>2, <1>5 DEF Store!storeVars, Content
  <2>3. CASE clean' # clean
    <3>1. (opened /\ clean)' = FALSE BY <2>3, <1>2, <1>4
    <3>2. Store!Falter BY <2>1, <3>1, <1>1, <1>2, <1>5 DEF Store!Falter, Content
    <3> QED BY <3>2 DEF Store!Next
  <2> QED BY <2>2, <2>3
<1>6. CASE /\ Return(Count)
           /\ clean' => \A c \in CellsOf(First, Count) : mem'[c] = data[c]
  <2>1. Store!EndWrite BY <1>6, EndRefines
  <2> QED BY <2>1 DEF Store!Next
<1>7. CASE Return(-1) /\ ~clean'
  <2>1. range' = << >> /\ reply' = -1 /\ unsure' = unsure BY <1>7 DEF Return
  <2>2. Content' = Content BY <1>3, <2>1, ContentKept
  <2>3. (opened /\ clean)' = FALSE BY <1>7
  <2>4. Store!FailWrite BY <2>1, <2>2, <2>3, <1>1, <1>2 DEF Store!FailWrite, Content
  <2> QED BY <2>4 DEF Store!Next
<1> QED BY <1>5, <1>6, <1>7 DEF Stepped

(* A reset.                                                                *)
LEMMA ResetRefines ==
  ASSUME TypeOK, Reboot
  PROVE  Store!Next
<1>1. /\ opened' = FALSE /\ clean' = FALSE /\ range' = << >> /\ data' = << >>
      /\ reply' = 0 /\ unsure' = unsure
  BY DEF Reboot
<1>2. \A c \in Promised : mem'[c] = mem[c]
  BY RebootKeeps, NothingWritten DEF Promised
<1>3. Content' = Content BY <1>1, <1>2, ContentKept
<1>4. (opened /\ clean)' = FALSE BY <1>1
<1>5. Store!Reset BY <1>1, <1>3, <1>4 DEF Store!Reset, Content
<1> QED BY <1>5 DEF Store!Next

LEMMA StoreNext == Inv /\ [Next]_vars => [Store!Next]_Store!storeVars
<1> SUFFICES ASSUME Inv, [Next]_vars
             PROVE  Store!Next \/ UNCHANGED Store!storeVars
  OBVIOUS
<1>1. TypeOK BY DEF Inv
<1>2. CASE Open
  <2>1. UNCHANGED << mem, phase, range, data, at, unsure >> /\ phase = "idle"
        /\ reply' \in {0, -1}
    BY <1>2 DEF Open
  <2>2. Store!OpenOrClose BY <1>1, <2>1, OpenOrCloseStep
  <2> QED BY <2>2 DEF Store!Next
<1>3. CASE Close
  <2>1. UNCHANGED << mem, phase, range, data, at, unsure >> /\ phase = "idle"
        /\ reply' \in {0, -1}
    BY <1>3 DEF Close
  <2>2. Store!OpenOrClose BY <1>1, <2>1, OpenOrCloseStep
  <2> QED BY <2>2 DEF Store!Next
<1>4. ASSUME NEW r \in Ranges, ReadBlock(r[1], r[2])
      PROVE  Store!Next
  BY <1>1, <1>4, ReadRefines
<1>5. ASSUME NEW r \in Ranges, NEW d \in Buffers(r[1], r[2]), WriteBlock(r[1], r[2], d)
      PROVE  Store!Next
  BY <1>1, <1>5, BeginRefines
<1>6. CASE WriteStep BY <1>1, <1>6, WriteStepped, StepRefines
<1>7. CASE Reboot BY <1>1, <1>7, ResetRefines
<1>8. CASE UNCHANGED vars
  <2>1. UNCHANGED << mem, opened, clean, range, data, reply, unsure >> BY <1>8 DEF vars
  <2>2. Content' = Content BY <2>1, ContentKept
  <2>3. (opened /\ clean)' = (opened /\ clean) BY <2>1
  <2> QED BY <2>1, <2>2, <2>3 DEF Store!storeVars, Content
<1> QED BY <1>2, <1>3, <1>4, <1>5, <1>6, <1>7, <1>8 DEF Next

(* do_vopen, do_close, do_read_block and do_write_block, with the driver's *)
(* contract under them, implement the block store: whatever calls fail and *)
(* whenever the controller is reset, a block that was written to the end   *)
(* by a trusted driver reads back what was written.                        *)
THEOREM DeviceIsStore == Spec => IsBlockStore
<1>1. Spec => []Inv BY InvAlways
<1>2. Init => Store!Init BY StoreInit
<1>3. Inv /\ [Next]_vars => [Store!Next]_Store!storeVars BY StoreNext
<1> QED BY <1>1, <1>2, <1>3, PTL DEF Spec, IsBlockStore, Store!Spec


-----------------------------------------------------------------------------
(* The steps of a write                                                    *)

(* What is left, by phase and position.                                    *)
LeftAt(p, i) ==
  CASE p = "scan"    -> 2 * (Chunks - i) - 1 + Count + Chunks
    [] p = "program" -> 2 * (Chunks - i) - 2 + Count + Chunks
    [] p = "erase"   -> Count - i + Chunks
    [] p = "rewrite" -> Chunks - i
    [] p = "blank"   -> Count - i
    [] OTHER         -> 0

(* Each way on from phase and position has less left.                      *)
LEMMA LeftSteps ==
  ASSUME Count \in Nat, Count > 0, Chunks \in Nat, Chunks > 0, NEW i \in Nat
  PROVE  /\ i < Chunks =>
              /\ LeftAt("program", i) \in 0 .. LeftAt("scan", i) - 1
              /\ LeftAt("erase", 0) \in 0 .. LeftAt("scan", i) - 1
              /\ 0 \in 0 .. LeftAt("scan", i) - 1
              /\ 0 \in 0 .. LeftAt("program", i) - 1
              /\ 0 \in 0 .. LeftAt("rewrite", i) - 1
         /\ i + 1 < Chunks =>
              /\ LeftAt("scan", i + 1) \in 0 .. LeftAt("scan", i) - 1
              /\ LeftAt("scan", i + 1) \in 0 .. LeftAt("program", i) - 1
              /\ LeftAt("rewrite", i + 1) \in 0 .. LeftAt("rewrite", i) - 1
         /\ i < Count =>
              /\ LeftAt("rewrite", 0) \in 0 .. LeftAt("erase", i) - 1
              /\ 0 \in 0 .. LeftAt("erase", i) - 1
              /\ 0 \in 0 .. LeftAt("blank", i) - 1
         /\ i + 1 < Count =>
              /\ LeftAt("erase", i + 1) \in 0 .. LeftAt("erase", i) - 1
              /\ LeftAt("blank", i + 1) \in 0 .. LeftAt("blank", i) - 1
<1>1. \A k \in Nat :
        /\ LeftAt("scan", k) = (2 * (Chunks - k) - 1) + Count + Chunks
        /\ LeftAt("program", k) = (2 * (Chunks - k) - 2) + Count + Chunks
        /\ LeftAt("erase", k) = (Count - k) + Chunks
        /\ LeftAt("rewrite", k) = Chunks - k
        /\ LeftAt("blank", k) = Count - k
  BY DEF LeftAt
<1> QED BY <1>1

(* Each step of a write takes one of these ways, or ends it.               *)
LEMMA WriteStepAdvances ==
  ASSUME TypeOK, phase # "idle", WriteStep \/ Reboot
  PROVE  StepsLeft' \in 0 .. StepsLeft - 1
<1>1. /\ Count \in Nat /\ Count > 0 /\ Chunks \in Nat /\ Chunks > 0
      /\ at \in Nat /\ at \in 0 .. LoopEnd(phase) - 1
  BY Writing
<1>2. phase \in Loops BY DEF TypeOK, Loops
<1>3. StepsLeft = LeftAt(phase, at) BY DEF StepsLeft, LeftAt
<1>4. 0 \in 0 .. LeftAt(phase, at) - 1
  <2>1. CASE phase \in {"blank", "erase"}
    <3>1. at < Count BY <2>1, <1>1 DEF LoopEnd
    <3> QED BY <3>1, <2>1, <1>1, LeftSteps
  <2>2. CASE phase \in {"scan", "program", "rewrite"}
    <3>1. at < Chunks BY <2>2, <1>1 DEF LoopEnd
    <3> QED BY <3>1, <2>2, <1>1, LeftSteps
  <2> QED BY <2>1, <2>2, <1>2 DEF Loops
<1>5. phase' = "idle" => StepsLeft' = 0 BY DEF StepsLeft
<1>6. ASSUME NEW r, Return(r) PROVE StepsLeft' \in 0 .. StepsLeft - 1
  BY <1>3, <1>4, <1>5, <1>6 DEF Return
<1>7. ASSUME NEW p, NEW i \in Nat, Goto(p, i), LeftAt(p, i) \in 0 .. LeftAt(phase, at) - 1
      PROVE  StepsLeft' \in 0 .. StepsLeft - 1
  <2>1. phase' = p /\ at' = i /\ range' = range BY <1>7 DEF Goto
  <2>2. Count' = Count /\ Chunks' = Chunks BY <2>1 DEF Count, Chunks
  <2>3. StepsLeft' = LeftAt(p, i) BY <2>1, <2>2 DEF StepsLeft, LeftAt
  <2> QED BY <2>3, <1>3, <1>7
<1>8. at + 1 \in Nat /\ 0 \in Nat BY <1>1
<1>9. CASE Scan
  <2>1. phase = "scan" /\ at < Chunks BY <1>1, <1>9 DEF Scan, LoopEnd
  <2>2. \/ Return(-1) \/ Goto("erase", 0) \/ Goto("program", at) \/ NextChunk("scan")
    BY <1>9 DEF Scan
  <2>3. CASE Return(-1) BY <2>3, <1>6
  <2>4. CASE Goto("erase", 0)
    <3>1. LeftAt("erase", 0) \in 0 .. LeftAt(phase, at) - 1 BY <2>1, <1>1, LeftSteps
    <3> QED BY <3>1, <2>4, <1>7, <1>8
  <2>5. CASE Goto("program", at)
    <3>1. LeftAt("program", at) \in 0 .. LeftAt(phase, at) - 1 BY <2>1, <1>1, LeftSteps
    <3> QED BY <3>1, <2>5, <1>1, <1>7
  <2>6. CASE NextChunk("scan")
    <3>1. CASE at + 1 < Chunks
      <4>1. LeftAt("scan", at + 1) \in 0 .. LeftAt(phase, at) - 1
        BY <3>1, <2>1, <1>1, LeftSteps
      <4>2. Goto("scan", at + 1) BY <2>6, <3>1 DEF NextChunk
      <4> QED BY <4>1, <4>2, <1>7, <1>8
    <3>2. CASE ~(at + 1 < Chunks) BY <2>6, <3>2, <1>6 DEF NextChunk
    <3> QED BY <3>1, <3>2
  <2> QED BY <2>2, <2>3, <2>4, <2>5, <2>6
<1>10. CASE ProgramChunk
  <2>1. phase \in {"program", "rewrite"} BY <1>10 DEF ProgramChunk
  <2> DEFINE next == IF phase = "program" THEN "scan" ELSE "rewrite"
  <2>2. Return(-1) \/ NextChunk(next) BY <1>10 DEF ProgramChunk
  <2>3. CASE Return(-1) BY <2>3, <1>6
  <2>4. CASE NextChunk(next)
    <3>1. CASE at + 1 < Chunks
      <4>1. LeftAt(next, at + 1) \in 0 .. LeftAt(phase, at) - 1
        BY <3>1, <2>1, <1>1, LeftSteps
      <4>2. Goto(next, at + 1) BY <2>4, <3>1 DEF NextChunk
      <4> HIDE DEF next
      <4> QED BY <4>1, <4>2, <1>7, <1>8
    <3>2. CASE ~(at + 1 < Chunks) BY <2>4, <3>2, <1>6 DEF NextChunk
    <3> QED BY <3>1, <3>2
  <2> QED BY <2>2, <2>3, <2>4
<1>11. CASE EraseBlock
  <2>1. phase \in {"blank", "erase"} /\ at < Count
    BY <1>1, <1>11 DEF EraseBlock, LoopEnd
  <2>2. IF at + 1 < Count THEN Goto(phase, at + 1)
        ELSE IF phase = "erase" THEN Goto("rewrite", 0) ELSE Return(Count)
    BY <1>11 DEF EraseBlock
  <2>3. CASE at + 1 < Count
    <3>1. LeftAt(phase, at + 1) \in 0 .. LeftAt(phase, at) - 1
      BY <2>1, <2>3, <1>1, LeftSteps
    <3> QED BY <3>1, <2>2, <2>3, <1>7, <1>8
  <2>4. CASE ~(at + 1 < Count) /\ phase = "erase"
    <3>1. LeftAt("rewrite", 0) \in 0 .. LeftAt(phase, at) - 1
      BY <2>1, <2>4, <1>1, LeftSteps
    <3> QED BY <3>1, <2>2, <2>4, <1>7, <1>8
  <2>5. CASE ~(at + 1 < Count) /\ phase # "erase" BY <2>2, <2>5, <1>6
  <2> QED BY <2>3, <2>4, <2>5
<1>12. CASE Reboot BY <1>3, <1>4, <1>5, <1>12 DEF Reboot
<1> QED BY <1>9, <1>10, <1>11, <1>12 DEF WriteStep

(* A write turns back nowhere, whatever fails on the way: with Count       *)
(* blocks it takes at most Count + 3 * Chunks - 1 steps. That the next     *)
(* step is taken is the fairness of the model, not of this theorem.        *)
THEOREM WritesAdvance == Spec => WriteAdvances
<1>1. Inv /\ [Next]_vars => [phase # "idle" => StepsLeft' \in 0 .. StepsLeft - 1]_vars
  <2> SUFFICES ASSUME Inv, Next, phase # "idle"
               PROVE  StepsLeft' \in 0 .. StepsLeft - 1
    OBVIOUS
  <2>1. WriteStep \/ Reboot BY DEF Next, Open, Close, ReadBlock, WriteBlock
  <2> QED BY <2>1, WriteStepAdvances DEF Inv
<1> QED BY <1>1, InvAlways, PTL DEF Spec, WriteAdvances

===============================================================================
