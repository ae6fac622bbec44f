------------------------------- MODULE DataPath -------------------------------
(***************************************************************************)
(* How the bytes of a buffer get to the flash and back: write splits them  *)
(* at the page boundaries, and since the transfers are done by the DMA     *)
(* controller, which does not see the D-cache, write and read maintain the *)
(* cache lines of the buffer first.  Other tasks, and the processor by     *)
(* itself, go on using the same cache.                                     *)
(*                                                                         *)
(* A behaviour is one call, made in any state of the cache, and what the   *)
(* cache does afterwards.  The command sequences around a transfer are in  *)
(* QspiDriver; here they succeed or fail.  A byte's value is told by where *)
(* it came from: << b, "new" >> is what the program last stored in byte b  *)
(* of memory, << b, "old" >> what was there before, << a, "flash" >> what  *)
(* flash cell a held when the call was made.                               *)
(***************************************************************************)
EXTENDS Integers, FiniteSets

CONSTANTS
  PageSize,   \* 0x100
  LineSize,   \* bytes of a cache line, 32
  RamSize,    \* bound: bytes of memory
  Sram1Base,  \* SRAM1_BASE; the bytes below are DTCM, which is not cached
  FlashSize,  \* bound: bytes of the flash
  Overhang    \* assumed of every transfer's ptr % LineSize + len % LineSize:
              \* LineSize, or 2 * LineSize to assume nothing

ASSUME SizesAssumption ==
  /\ {PageSize, LineSize, RamSize, FlashSize} \subseteq Nat \ {0}
  /\ Sram1Base \in 0 .. RamSize
  /\ Sram1Base % LineSize = 0 /\ RamSize % LineSize = 0
  /\ FlashSize % PageSize = 0
  /\ Overhang \in Nat

Ram    == 0 .. RamSize - 1
Flash  == 0 .. FlashSize - 1
Lines  == Sram1Base \div LineSize .. RamSize \div LineSize - 1
Values == (Ram \X {"new", "old"}) \cup (Flash \X {"flash"})

LineOf(b)  == b \div LineSize
BytesOf(l) == l * LineSize .. (l + 1) * LineSize - 1
Span(i, n) == i .. i + n - 1

VARIABLES
  mem,      \* memory, as the DMA controller reads and writes it
  cached,   \* the copy in the cache of a byte whose line ...
  line,     \* ... is "clean" or "dirty" (not yet written back), not "absent"
  cell,     \* the flash cells
  call,     \* the call: op, address, buff, count
  step,     \* "split", "maintain", "transfer", or "returned"
  address, buff, count,  \* what is left of the call,
  page,     \* and how much of that the next transfer takes
  result,
  refilled  \* history: lines brought in between maintenance and transfer

ram  == << mem, cached, line >>
args == << address, buff, count, page >>
vars == << ram, cell, call, step, args, result, refilled >>

InCache(b) == LineOf(b) \in Lines /\ line[LineOf(b)] # "absent"
Seen(b)    == IF InCache(b) THEN cached[b] ELSE mem[b]  \* by the processor

Buffer == Span(call.buff, call.count)

-----------------------------------------------------------------------------
(* The calls                                                               *)

(* The transfers of a call, as << offset, length >>: what the call has on  *)
(* each page, or all at once.                                              *)
OnPage(c, p) == Span(c.address, c.count) \cap Span(p * PageSize, PageSize)
FirstOf(S)   == CHOOSE x \in S : \A y \in S : x <= y
Transfers(c) ==
  IF c.op = "read" THEN {<< 0, c.count >>}
  ELSE {<< FirstOf(OnPage(c, p)) - c.address, Cardinality(OnPage(c, p)) >> :
          p \in {q \in 0 .. FlashSize \div PageSize - 1 : OnPage(c, q) # {}}}

Calls == {c \in [op : {"read", "write"}, address : Flash, buff : Ram,
                 count : 1 .. FlashSize] :
            /\ c.address + c.count <= FlashSize
            /\ c.buff + c.count <= RamSize
            /\ \A t \in Transfers(c) :
                 ((c.buff + t[1]) % LineSize) + (t[2] % LineSize) <= Overhang}

Init ==
  /\ call \in Calls
  /\ line \in [Lines -> {"absent", "clean", "dirty"}]
  /\ cached = [b \in Ram |-> << b, "new" >>]
  /\ mem = [b \in Ram |->
       << b, IF LineOf(b) \in Lines /\ line[LineOf(b)] = "dirty" THEN "old" ELSE "new" >>]
  /\ cell = [a \in Flash |-> << a, "flash" >>]
  /\ step = IF call.op = "write" THEN "split" ELSE "maintain"
  /\ address = call.address /\ buff = call.buff /\ count = call.count
  /\ page = IF call.op = "write" THEN 0 ELSE call.count
  /\ result = "error"
  /\ refilled = {}

(* write: as much of the rest as the page has room for. (Faulty: as much   *)
(* as a page has; all of the room.) The branch for no room is never taken. *)
InBlockRoom(a, n) == PageSize - (a % PageSize)
InBlockWhole(a, n) == IF PageSize > n THEN n ELSE PageSize
InBlock(a, n) == LET room == PageSize - (a % PageSize) IN IF room > n THEN n ELSE room

Split ==
  /\ step = "split"
  /\ page' = InBlock(address, count)
  /\ step' = "maintain"
  /\ UNCHANGED << ram, cell, call, address, buff, count, result, refilled >>

-----------------------------------------------------------------------------
(* Cache maintenance                                                       *)

WrittenBack(lines) == [b \in Ram |->
  IF LineOf(b) \in lines /\ line[LineOf(b)] = "dirty" THEN cached[b] ELSE mem[b]]
Dropped(lines) == [l \in Lines |-> IF l \in lines THEN "absent" ELSE line[l]]
Cleaned(lines) == [l \in Lines |-> IF l \in lines /\ line[l] = "dirty" THEN "clean"
                                   ELSE line[l]]

(* The lines of the range that is maintained: len rounded down, and one    *)
(* line more, from the line of ptr on. (Faulty: without the line more.)    *)
Aligned(i) == i - (i % LineSize)
RangeRoundedDown(ptr, len) ==
  {LineOf(b) : b \in Span(Aligned(ptr), Aligned(len))} \cap Lines
MaintainedLines(ptr, len) ==
  {LineOf(b) : b \in Span(Aligned(ptr), Aligned(len) + LineSize)} \cap Lines

(* clean_dcache and invalidate_dcache. (Faulty: does not clean before it   *)
(* invalidates.)                                                           *)
clean_dcache(lines) ==
  /\ mem' = WrittenBack(lines)
  /\ line' = Cleaned(lines)
invalidate_only(lines) ==
  /\ line' = Dropped(lines)
  /\ UNCHANGED mem
invalidate_dcache(lines) ==
  /\ mem' = WrittenBack(lines)
  /\ line' = Dropped(lines)

Maintain ==
  /\ step = "maintain"
  /\ IF buff + page >= Sram1Base
     THEN LET lines == MaintainedLines(buff, page) IN
            IF call.op = "write" THEN clean_dcache(lines) ELSE invalidate_dcache(lines)
     ELSE UNCHANGED << mem, line >>
  /\ step' = "transfer"
  /\ refilled' = {}
  /\ UNCHANGED << cached, cell, call, args, result >>

-----------------------------------------------------------------------------
(* The transfer, by DMA                                                    *)

(* The chip programs a page, and wraps around inside it.                   *)
Wrapped(a) == address - (address % PageSize) + (a % PageSize)
Programmed == [a \in Flash |->
  LET from == {i \in 0 .. page - 1 : Wrapped(address + i) = a}
  IN  IF from = {} THEN cell[a] ELSE mem[buff + FirstOf(from)]]
Received == [b \in Ram |->
  IF b \in Span(buff, page) THEN cell[address + b - buff] ELSE mem[b]]

TransferData ==
  IF call.op = "write" THEN cell' = Programmed /\ UNCHANGED mem
                       ELSE mem' = Received /\ UNCHANGED cell

(* page_write succeeded: the loop goes on; or read did.                    *)
Transfer ==
  /\ step = "transfer"
  /\ TransferData
  /\ address' = address + page /\ buff' = buff + page /\ count' = count - page
  /\ result' = "ok"
  /\ step' = IF count' > 0 THEN "split" ELSE "returned"
  /\ UNCHANGED << cached, line, call, page, refilled >>

(* It failed, after the data were transferred, before that, or before the  *)
(* cache was maintained even: the loop is left.                            *)
TransferFails ==
  /\ \/ step = "transfer" /\ TransferData
     \/ step \in {"maintain", "transfer"} /\ UNCHANGED << mem, cell >>
  /\ result' = "error"
  /\ step' = "returned"
  /\ UNCHANGED << cached, line, call, args, refilled >>

-----------------------------------------------------------------------------
(* The cache, at any time                                                  *)

Filled(l) == [b \in Ram |-> IF LineOf(b) = l THEN Seen(b) ELSE cached[b]]
Refill(l) == refilled' =
  IF line[l] = "absent" /\ step = "transfer" THEN refilled \cup {l} ELSE refilled

(* A task loads a byte, or the processor fetches a line ahead of that.     *)
Load(l) ==
  /\ line[l] = "absent"
  /\ cached' = Filled(l)
  /\ line' = [line EXCEPT ![l] = "clean"]
  /\ Refill(l)
  /\ UNCHANGED mem

(* A task stores next to the buffer; what memory has there is old now.     *)
Store(l) ==
  LET theirs == BytesOf(l) \ Buffer IN
  /\ theirs # {}
  /\ cached' = [b \in Ram |-> IF b \in theirs THEN << b, "new" >> ELSE Filled(l)[b]]
  /\ mem' = [b \in Ram |-> IF b \in theirs THEN << b, "old" >> ELSE mem[b]]
  /\ line' = [line EXCEPT ![l] = "dirty"]
  /\ Refill(l)

(* A line makes room for another.                                          *)
Evict(l) ==
  /\ line[l] # "absent"
  /\ mem' = WrittenBack({l})
  /\ line' = Dropped({l})
  /\ UNCHANGED << cached, refilled >>

CacheStep ==
  /\ \E l \in Lines : Load(l) \/ Store(l) \/ Evict(l)
  /\ UNCHANGED << cell, call, step, args, result >>

Next == Split \/ Maintain \/ Transfer \/ TransferFails \/ CacheStep

Spec == Init /\ [][Next]_vars

-----------------------------------------------------------------------------
(* Properties                                                              *)

TypeOK ==
  /\ mem \in [Ram -> Values] /\ cached \in [Ram -> Values]
  /\ line \in [Lines -> {"absent", "clean", "dirty"}]
  /\ cell \in [Flash -> Values]
  /\ call \in Calls
  /\ step \in {"split", "maintain", "transfer", "returned"}
  /\ address \in 0 .. FlashSize /\ buff \in 0 .. RamSize
  /\ count \in 0 .. FlashSize /\ page \in 0 .. FlashSize
  /\ result \in {"ok", "error"}
  /\ refilled \subseteq Lines

(* A write that returns ok has stored the bytes the program had put into   *)
(* the buffer, in order; and no write, whole or broken off, touches cells  *)
(* outside its range, wherever the range lies on the pages.                *)
WritesItsRange ==
  call.op = "write" =>
    \A a \in Flash :
      IF a \in Span(call.address, call.count)
      THEN step = "returned" /\ result = "ok" =>
             cell[a] = << call.buff + (a - call.address), "new" >>
      ELSE cell[a] = << a, "flash" >>

(* After a read that returned ok the program sees the contents of the      *)
(* flash in the buffer, and goes on seeing them, except on lines that were *)
(* brought back into the cache during the transfer.                        *)
ReadSeesChip ==
  call.op = "read" /\ step = "returned" /\ result = "ok" =>
    \A b \in Buffer : LineOf(b) \notin refilled =>
      Seen(b) = << call.address + (b - call.buff), "flash" >>

(* Nothing the program stored outside a buffer that is read into is lost   *)
(* or seen old: not what was in the cache when the call was made, not what *)
(* other tasks store meanwhile, on the buffer's lines or on others.        *)
StoresKept ==
  \A b \in Ram : b \notin Buffer \/ call.op = "write" => Seen(b) = << b, "new" >>

==============================================================================
