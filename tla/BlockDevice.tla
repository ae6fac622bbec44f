------------------------------ MODULE BlockDevice ------------------------------
(***************************************************************************)
(* The POSIX block device on top of the driver: do_vopen, do_close,        *)
(* do_read_block and do_write_block over the memory cells of the chip.     *)
(* The calls are serialised by the lock of block_device_lockable, and the  *)
(* block_device in front of them refuses calls on a closed device.         *)
(*                                                                         *)
(* A step is one call of the driver below: initialize, uninitialize,       *)
(* read, erase_sector, or one page of write.  Between two steps the        *)
(* controller may be reset.  What such a call does is DriverContract,      *)
(* which QspiCApi shows the driver to keep, and nothing else.              *)
(***************************************************************************)
EXTENDS BlockCells, DriverContract

CONSTANT Failing  \* the driver functions that may fail
ASSUME FailingAssumption ==
  Failing \subseteq ContractCalls

VARIABLES
  mem,      \* the cells of the chip
  opened,   \* is_opened_
  clean,    \* the driver is trusted
  phase,    \* where do_write_block is, "idle" between calls
  range,    \* << blknum, nblocks >> of the running write, or << >>
  data,     \* buf: what is being written, or was last written or read
  at,       \* the chunk or block the running loop is at
  reply,    \* what the last call returned, -1 on failure
  unsure    \* history: blocks whose last write did not (cleanly) succeed

vars == << mem, opened, clean, phase, range, data, at, reply, unsure >>

First  == range[1]
Count  == range[2]
Chunks == Count * ChunksPerBlock
Named  == First .. First + Count - 1  \* the blocks of the running write

TypeOK ==
  /\ mem \in [Cells -> Bytes]
  /\ opened \in BOOLEAN /\ clean \in BOOLEAN
  /\ phase \in {"idle", "blank", "scan", "program", "erase", "rewrite"}
  /\ range \in Ranges \cup {<< >>}
  /\ reply \in -1 .. NumBlocks
  /\ unsure \subseteq Blocks
  /\ phase = "idle" => at = 0 /\ range = << >>
  /\ phase # "idle" =>
       /\ opened /\ range \in Ranges /\ Named \subseteq unsure
       /\ data \in Buffers(First, Count)
       /\ at \in 0 .. (IF phase \in {"blank", "erase"} THEN Count ELSE Chunks) - 1

Init ==
  /\ mem \in [Cells -> Bytes]
  /\ opened = FALSE /\ clean = FALSE
  /\ phase = "idle" /\ range = << >> /\ data = << >> /\ at = 0
  /\ reply = 0
  /\ unsure = {}

-----------------------------------------------------------------------------
(* The chip under the driver                                               *)

Overlay(cells, new) == [c \in Cells |-> IF c \in cells THEN new[c] ELSE mem[c]]

(* Programming a chunk adds the bits of data, erasing clears a block.      *)
Programmed(k) == LET cells == Chunk(First, k) IN
  Overlay(cells, [c \in cells |-> mem[c] \cup data[c]])
BlockErased(b) == Overlay(CellsOf(b, 1), [c \in Cells |-> Erased])

(* What is left of a program that did not run to its end, or not at all:   *)
(* some of the bits; of an erase: anything.                                *)
PartlyProgrammed(k) ==
  LET cells == Chunk(First, k) IN
  {Overlay(cells, new) : new \in {f \in [cells -> Bytes] :
     \A c \in cells : mem[c] \subseteq f[c] /\ f[c] \subseteq mem[c] \cup data[c]}}
PartlyErased(b) ==
  {Overlay(CellsOf(b, 1), new) : new \in Buffers(b, 1)}

(* How a call of a driver function may end, and what the chip then holds,  *)
(* or a read that returned ok gives.                                       *)
Calls(f) == {o \in Outcomes(f, clean) :
  f \in Failing \/ (o.ok /\ (f = "initialize" => o.trusted))}
ProgramEffect(o, k) == IF o.done THEN {Programmed(k)} ELSE PartlyProgrammed(k)
EraseEffect(o, b)   == IF o.done THEN {BlockErased(b)} ELSE PartlyErased(b)
Seen(o, cells) == IF o.done THEN {[c \in cells |-> mem[c]]} ELSE [cells -> Bytes]

-----------------------------------------------------------------------------
(* Opening and closing                                                     *)

(* do_vopen                                                                *)
Open ==
  /\ phase = "idle"
  /\ \/ /\ opened
        /\ reply' = -1
        /\ UNCHANGED << opened, clean >>
     \/ /\ ~opened
        /\ \E o \in Calls("initialize") :
             /\ clean' = o.trusted
             /\ opened' = o.ok
             /\ reply' = IF o.ok THEN 0 ELSE -1
  /\ UNCHANGED << mem, phase, range, data, at, unsure >>

(* do_close; a failed uninitialize leaves the device open.                 *)
Close ==
  /\ phase = "idle" /\ opened
  /\ \E o \in Calls("uninitialize") :
       /\ clean' = o.trusted
       /\ opened' = ~o.ok
       /\ reply' = IF o.ok THEN 0 ELSE -1
  /\ UNCHANGED << mem, phase, range, data, at, unsure >>

-----------------------------------------------------------------------------
(* Reading and writing                                                     *)

ReadBlock(first, n) ==
  /\ phase = "idle" /\ opened
  /\ \E o \in Calls("read") :
       /\ clean' = o.trusted
       /\ IF o.ok THEN data' \in Seen(o, CellsOf(first, n)) /\ reply' = n
                  ELSE data' = << >> /\ reply' = -1
  /\ UNCHANGED << mem, opened, phase, range, at, unsure >>

(* do_write_block looks whether there is a programmed byte to write.       *)
WriteBlock(first, n, d) ==
  /\ phase = "idle" /\ opened
  /\ range' = << first, n >>
  /\ data' = d
  /\ at' = 0
  /\ phase' = IF \A c \in DOMAIN d : d[c] = Erased THEN "blank" ELSE "scan"
  /\ reply' = 0
  /\ unsure' = unsure \cup (first .. first + n - 1)
  /\ UNCHANGED << mem, opened, clean >>

Return(r) ==
  /\ phase' = "idle" /\ range' = << >> /\ at' = 0
  /\ reply' = r
  /\ unsure' = IF r > 0 /\ clean' THEN unsure \ Named ELSE unsure

Goto(p, i) ==
  /\ phase' = p /\ at' = i
  /\ UNCHANGED << range, reply, unsure >>

(* The chunk is done: the next one, or all are. (Faulty: stays, one more.) *)
NextChunkStays(p) == Goto(p, at)
NextChunkOneMore(p) == IF at + 1 <= Chunks THEN Goto(p, at + 1) ELSE Return(Count)
NextChunk(p) == IF at + 1 < Chunks THEN Goto(p, at + 1) ELSE Return(Count)

(* A byte that is neither erased nor what it shall be. (Faulty: bytes that *)
(* are to be erased are overlooked; only the first byte is looked at.)     *)
MustEraseFirst(seen) == \E c \in DOMAIN seen :
  (\A d \in DOMAIN seen : c <= d) /\ data[c] # seen[c] /\ seen[c] # Erased
MustEraseSome(seen) == \E c \in DOMAIN seen :
  data[c] # seen[c] /\ seen[c] # Erased /\ data[c] # Erased
MustErase(seen) == \E c \in DOMAIN seen : data[c] # seen[c] /\ seen[c] # Erased
HasNew(seen)    == \E c \in DOMAIN seen : data[c] # seen[c] /\ data[c] # Erased

(* First try without erasing: read a chunk into lbuff_ and compare.        *)
Scan ==
  /\ phase = "scan"
  /\ \E o \in Calls("read") :
       /\ clean' = o.trusted
       /\ IF ~o.ok THEN Return(-1)
          ELSE \E seen \in Seen(o, Chunk(First, at)) :
                 IF MustErase(seen) THEN Goto("erase", 0)
                 ELSE IF HasNew(seen) THEN Goto("program", at)
                 ELSE NextChunk("scan")
  /\ UNCHANGED << mem, opened, data >>

(* Program a chunk: in the scan's loop, or as a page of the rewrite.       *)
ProgramChunk ==
  /\ phase \in {"program", "rewrite"}
  /\ \E o \in Calls("write") :
       /\ clean' = o.trusted
       /\ mem' \in ProgramEffect(o, at)
       /\ IF o.ok THEN NextChunk(IF phase = "program" THEN "scan" ELSE "rewrite")
                  ELSE Return(-1)
  /\ UNCHANGED << opened, data >>

(* Erase the named blocks one by one; the result of erase_sector is not    *)
(* looked at. Blank data is then done, other data is written.              *)
EraseBlock ==
  /\ phase \in {"blank", "erase"}
  /\ \E o \in Calls("erase") :
       /\ clean' = o.trusted
       /\ mem' \in EraseEffect(o, First + at)
       /\ IF at + 1 < Count THEN Goto(phase, at + 1)
          ELSE IF phase = "erase" THEN Goto("rewrite", 0)
          ELSE Return(Count)
  /\ UNCHANGED << opened, data >>

(* The controller is reset; the step the chip was at may be cut short.     *)
Reboot ==
  /\ mem' \in CASE phase \in {"program", "rewrite"} -> PartlyProgrammed(at)
                [] phase \in {"blank", "erase"} -> PartlyErased(First + at)
                [] OTHER -> {mem}
  /\ opened' = FALSE /\ clean' = FALSE
  /\ phase' = "idle" /\ range' = << >> /\ data' = << >> /\ at' = 0
  /\ reply' = 0
  /\ UNCHANGED unsure

WriteStep == Scan \/ ProgramChunk \/ EraseBlock

Next ==
  \/ Open
  \/ Close
  \/ \E r \in Ranges : ReadBlock(r[1], r[2])
  \/ \E r \in Ranges : \E d \in Buffers(r[1], r[2]) : WriteBlock(r[1], r[2], d)
  \/ WriteStep
  \/ Reboot

(* Every call of the driver returns (QspiDriver, EveryCallReturns).        *)
Fairness == WF_vars(WriteStep)

Spec == Init /\ [][Next]_vars /\ Fairness

-----------------------------------------------------------------------------
(* Properties                                                              *)

(* The device is a block store: while no function of the driver fails, a   *)
(* write that returns the number of blocks has stored the data however the *)
(* chunks of its range were found, half written by an earlier failure or   *)
(* reset included, a read returns what was stored, and neither failures    *)
(* nor resets touch blocks that were not being written.                    *)
Promised == Cells \ UNION {CellsOf(b, 1) : b \in unsure}
Store == INSTANCE BlockStore WITH
  content <- [c \in Promised |-> mem[c]],
  serving <- opened /\ clean,
  writing <- range
IsBlockStore == Store!Spec

(* Whatever fails, no step of a write turns back: of the steps it may      *)
(* still take at worst (scan and program every chunk up to one that cannot *)
(* be had without an erase, erase, write again), each step uses one up.    *)
StepsLeft ==
  CASE phase = "scan"    -> 2 * (Chunks - at) - 1 + Count + Chunks
    [] phase = "program" -> 2 * (Chunks - at) - 2 + Count + Chunks
    [] phase = "erase"   -> Count - at + Chunks
    [] phase = "rewrite" -> Chunks - at
    [] phase = "blank"   -> Count - at
    [] OTHER             -> 0
WriteAdvances == [][phase # "idle" => StepsLeft' \in 0 .. StepsLeft - 1]_vars

(* Liveness: a write returns, whatever fails on the way.                   *)
WriteReturns == phase # "idle" ~> phase = "idle"

==============================================================================
