------------------------------ MODULE BlockCells ------------------------------
(***************************************************************************)
(* Blocks of a NOR flash and the bytes in them.  A byte is the set of its  *)
(* programmed (zero) bits: {} is 0xFF, programming adds bits, only an      *)
(* erase of the whole block takes them away.                               *)
(***************************************************************************)
EXTENDS Integers, FiniteSets

CONSTANTS
  NumBlocks,       \* bound: blocks of the device
  ChunksPerBlock,  \* bound: pieces of sizeof(lbuff_) bytes in a block
  ChunkSize,       \* bound: sizeof(lbuff_), which is also a flash page
  Bytes            \* the values of a byte

ASSUME SizesAssumption ==
  /\ NumBlocks \in Nat \ {0} /\ ChunksPerBlock \in Nat \ {0} /\ ChunkSize \in Nat \ {0}

ASSUME BytesAssumption ==
  /\ {} \in Bytes
  /\ \A x, y \in Bytes : x \cup y \in Bytes

Erased == {}

BlockSize == ChunksPerBlock * ChunkSize
Blocks    == 0 .. NumBlocks - 1
Cells     == 0 .. NumBlocks * BlockSize - 1

(* The bytes of n blocks from block first on, and of chunk k of these.     *)
CellsOf(first, n) == first * BlockSize .. (first + n) * BlockSize - 1
Chunk(first, k)   == first * BlockSize + k * ChunkSize ..
                     first * BlockSize + (k + 1) * ChunkSize - 1

(* The block ranges a call may name, and the buffers it may pass.          *)
Ranges == {r \in Blocks \X (1 .. NumBlocks) : r[1] + r[2] <= NumBlocks}
Buffers(first, n) == [CellsOf(first, n) -> Bytes]

==============================================================================
