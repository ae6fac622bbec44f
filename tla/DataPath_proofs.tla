---------------------------- MODULE DataPath_proofs ----------------------------
(***************************************************************************)
(* The data path for every page and line size, memory, flash and call:     *)
(* what write stores and leaves alone, what the program sees of the buffer *)
(* of a read, and of everything next to it.                                *)
(***************************************************************************)
EXTENDS DataPath, FiniteSetTheorems, TLAPS

-----------------------------------------------------------------------------
(* Arithmetic                                                              *)

(* Division by a positive number, ...                                      *)
LEMMA Remainder ==
  ASSUME NEW a \in Nat, NEW n \in Nat \ {0}
  PROVE  /\ a % n \in 0 .. n - 1
         /\ a \div n \in Nat
         /\ a = (n * (a \div n)) + (a % n)
OBVIOUS

(* ... which has one quotient and one remainder only, ...                  *)
LEMMA Quotient ==
  ASSUME NEW n \in Nat \ {0}, NEW q \in Nat, NEW r \in 0 .. n - 1
  PROVE  /\ ((n * q) + r) \div n = q
         /\ ((n * q) + r) % n = r
OBVIOUS

(* ... and keeps what is below a multiple of the divisor below it.         *)
LEMMA BelowMultiple ==
  ASSUME NEW n \in Nat \ {0}, NEW a \in Nat, NEW b \in Nat, a < b, b % n = 0
  PROVE  a \div n < b \div n
OBVIOUS

(* On one page the offsets count up with the addresses, ...                *)
LEMMA SamePage ==
  ASSUME NEW n \in Nat \ {0}, NEW a \in Nat, NEW i \in Nat, (a % n) + i < n
  PROVE  (a + i) % n = (a % n) + i
<1>1. a + i = (n * (a \div n)) + ((a % n) + i) BY Remainder
<1>2. (a % n) + i \in 0 .. n - 1 BY Remainder
<1>3. a \div n \in Nat BY Remainder
<1>4. ((n * (a \div n)) + ((a % n) + i)) % n = (a % n) + i
  BY <1>2, <1>3, Quotient
<1> QED BY <1>1, <1>4

(* ... and what is left of a page ends where the next one begins.          *)
LEMMA NextPage ==
  ASSUME NEW n \in Nat \ {0}, NEW a \in Nat
  PROVE  (a + (n - (a % n))) % n = 0
<1>1. a + (n - (a % n)) = (n * ((a \div n) + 1)) + 0 BY Remainder
<1>2. ((n * ((a \div n) + 1)) + 0) % n = 0
  <2>1. (a \div n) + 1 \in Nat /\ 0 \in 0 .. n - 1 BY Remainder
  <2> QED BY <2>1, Quotient
<1> QED BY <1>1, <1>2

-----------------------------------------------------------------------------
(* Pages and lines                                                         *)

(* What write gives to one page_write: at least a byte, no more than is    *)
(* left, and never past the end of the page.                               *)
THEOREM PartStaysOnItsPage ==
  ASSUME NEW a \in Nat, NEW n \in Nat \ {0}
  PROVE  /\ InBlock(a, n) \in 1 .. n
         /\ (a % PageSize) + InBlock(a, n) <= PageSize
<1>1. PageSize \in Nat \ {0} BY SizesAssumption
<1>2. a % PageSize \in 0 .. PageSize - 1 BY <1>1, Remainder
<1> QED BY <1>1, <1>2 DEF InBlock

(* A transfer that, from its start's line on, reaches over by no more than *)
(* a line has all its cached lines in the range that is maintained.        *)
THEOREM TransferIsMaintained ==
  ASSUME NEW ptr \in Nat, NEW len \in Nat,
         (ptr % LineSize) + (len % LineSize) <= LineSize,
         NEW b \in Span(ptr, len), LineOf(b) \in Lines
  PROVE  LineOf(b) \in MaintainedLines(ptr, len)
<1>1. LineSize \in Nat \ {0} BY SizesAssumption
<1>2. /\ ptr % LineSize \in 0 .. LineSize - 1
      /\ len % LineSize \in 0 .. LineSize - 1
  BY <1>1, Remainder
<1>3. b \in Span(Aligned(ptr), Aligned(len) + LineSize)
  BY <1>1, <1>2 DEF Span, Aligned
<1> QED BY <1>3 DEF MaintainedLines

(* The bytes of a line are of that line.                                   *)
LEMMA LineOfBytes ==
  ASSUME NEW l \in Lines, NEW b \in BytesOf(l)
  PROVE  LineOf(b) = l
<1>1. LineSize \in Nat \ {0} /\ Sram1Base \in Nat /\ RamSize \in Nat
  BY SizesAssumption
<1>2. Sram1Base \div LineSize \in Nat /\ RamSize \div LineSize \in Nat
  BY <1>1, Remainder
<1>3. l \in Nat BY <1>2 DEF Lines
<1>4. b \in (LineSize * l) .. (LineSize * l) + LineSize - 1
  BY <1>1, <1>3 DEF BytesOf
<1>5. b - (LineSize * l) \in 0 .. LineSize - 1 BY <1>1, <1>3, <1>4
<1>6. ((LineSize * l) + (b - (LineSize * l))) \div LineSize = l
  BY <1>1, <1>3, <1>5, Quotient
<1>7. (LineSize * l) + (b - (LineSize * l)) = b BY <1>1, <1>3, <1>4
<1> QED BY <1>6, <1>7 DEF LineOf

(* The memory below Sram1Base is not cached.                               *)
LEMMA NotCached ==
  ASSUME NEW b \in Nat, b < Sram1Base
  PROVE  LineOf(b) \notin Lines
<1>1. /\ LineSize \in Nat \ {0} /\ Sram1Base \in Nat /\ RamSize \in Nat
      /\ Sram1Base % LineSize = 0
  BY SizesAssumption
<1>2. b \div LineSize < Sram1Base \div LineSize BY <1>1, BelowMultiple
<1>3. /\ b \div LineSize \in Nat /\ Sram1Base \div LineSize \in Nat
      /\ RamSize \div LineSize \in Nat
  BY <1>1, Remainder
<1> QED BY <1>2, <1>3 DEF LineOf, Lines

(* A span has a first element, and as many elements as it is long.         *)
LEMMA SpanOf ==
  ASSUME NEW a \in Nat, NEW n \in Nat \ {0}
  PROVE  FirstOf(Span(a, n)) = a /\ Cardinality(Span(a, n)) = n
<1>1. a \in Span(a, n) /\ \A x \in Span(a, n) : a <= x /\ x \in Int
  BY DEF Span
<1>2. FirstOf(Span(a, n)) = a BY <1>1 DEF FirstOf
<1>3. Cardinality(a .. a + n - 1) = n BY FS_Interval
<1> QED BY <1>2, <1>3 DEF Span

-----------------------------------------------------------------------------
(* The arguments                                                           *)

(* What the loop of write keeps: address, buff and count have moved on by  *)
(* the same number of bytes, between transfers to the begin of a page, and *)
(* something is left while the call runs; page is what the page has room   *)
(* for, or for read the whole count.                                       *)
ScalarsOK ==
  /\ call \in Calls
  /\ step \in {"split", "maintain", "transfer", "returned"}
  /\ result \in {"ok", "error"}
  /\ count \in 0 .. call.count /\ page \in 0 .. call.count
MovedOn ==
  /\ address = call.address + (call.count - count)
  /\ buff = call.buff + (call.count - count)
  /\ step # "returned" => count > 0
  /\ step = "returned" /\ result = "ok" => count = 0
WritePart ==
  call.op = "write" =>
    /\ step # "returned" => address = call.address \/ address % PageSize = 0
    /\ step \in {"maintain", "transfer"} => page = InBlock(address, count)
ReadPart ==
  call.op = "read" =>
    /\ step # "split"
    /\ step # "returned" => count = call.count
    /\ page = call.count
ArgsInv == ScalarsOK /\ MovedOn /\ WritePart /\ ReadPart

(* A call's range is inside the flash and the memory.                      *)
LEMMA CallInside ==
  ASSUME NEW c \in Calls
  PROVE  /\ c.op \in {"read", "write"}
         /\ c.address \in Nat /\ c.buff \in Nat /\ c.count \in Nat \ {0}
         /\ c.address + c.count <= FlashSize
         /\ c.buff + c.count <= RamSize
         /\ c.count <= FlashSize
BY SizesAssumption DEF Calls, Flash, Ram

LEMMA ArgsInit ==
  ASSUME Init
  PROVE  ArgsInv
BY CallInside DEF Init, ArgsInv, ScalarsOK, MovedOn, WritePart, ReadPart

(* While a transfer is prepared or made, it takes at least a byte, and no  *)
(* more than is left.                                                      *)
LEMMA PartOfRest ==
  ASSUME ArgsInv, step \in {"maintain", "transfer"}
  PROVE  /\ page \in 1 .. count
         /\ address \in Nat /\ buff \in Nat /\ count \in Nat \ {0}
<1>1. /\ call.op \in {"read", "write"}
      /\ call.address \in Nat /\ call.buff \in Nat /\ call.count \in Nat \ {0}
  BY CallInside DEF ArgsInv, ScalarsOK
<1>2. /\ address \in Nat /\ buff \in Nat /\ count \in Nat \ {0}
  BY <1>1 DEF ArgsInv, ScalarsOK, MovedOn
<1>3. CASE call.op = "write"
  <2>1. page = InBlock(address, count) BY <1>3 DEF ArgsInv, WritePart
  <2> QED BY <1>2, <2>1, PartStaysOnItsPage
<1>4. CASE call.op = "read"
  <2>1. page = call.count /\ count = call.count BY <1>4 DEF ArgsInv, ReadPart
  <2> QED BY <1>1, <1>2, <2>1
<1> QED BY <1>1, <1>3, <1>4

LEMMA ArgsNext ==
  ASSUME ArgsInv, [Next]_vars
  PROVE  ArgsInv'
<1> USE DEF ArgsInv, ScalarsOK, MovedOn, WritePart, ReadPart
<1>1. /\ call.op \in {"read", "write"}
      /\ call.address \in Nat /\ call.buff \in Nat /\ call.count \in Nat \ {0}
  BY CallInside
<1>2. CASE Split
  <2>1. address \in Nat /\ count \in Nat \ {0} BY <1>1, <1>2 DEF Split
  <2>2. InBlock(address, count) \in 1 .. count BY <2>1, PartStaysOnItsPage
  <2> QED BY <1>1, <1>2, <2>2 DEF Split
<1>3. CASE Maintain
  <2>1. UNCHANGED << call, args, result >> /\ step = "maintain" /\ step' = "transfer"
    BY <1>3 DEF Maintain
  <2> QED BY <2>1 DEF args
<1>4. CASE Transfer
  <2>1. /\ step = "transfer" /\ UNCHANGED << call, page >> /\ result' = "ok"
        /\ address' = address + page /\ buff' = buff + page /\ count' = count - page
        /\ step' = IF count' > 0 THEN "split" ELSE "returned"
    BY <1>4 DEF Transfer
  <2>2. page \in 1 .. count /\ address \in Nat /\ count \in Nat
    BY <2>1, PartOfRest
  <2>3. ScalarsOK' /\ MovedOn'
    BY <1>1, <2>1, <2>2
  <2>4. WritePart'
    <3>1. CASE call.op = "write" /\ count' > 0
      <4>1. page = PageSize - (address % PageSize)
        BY <2>1, <2>2, <3>1 DEF InBlock
      <4>2. (address + page) % PageSize = 0
        BY <2>2, <4>1, SizesAssumption, NextPage
      <4> QED BY <2>1, <3>1, <4>2
    <3>2. CASE ~(call.op = "write" /\ count' > 0)
      BY <2>1, <3>2
    <3> QED BY <3>1, <3>2
  <2>5. ReadPart'
    BY <1>1, <2>1, <2>2
  <2> QED BY <2>3, <2>4, <2>5
<1>5. CASE TransferFails
  <2>1. /\ step \in {"maintain", "transfer"} /\ step' = "returned" /\ result' = "error"
        /\ UNCHANGED << call, args >>
    BY <1>5 DEF TransferFails
  <2> QED BY <2>1 DEF args
<1>6. CASE CacheStep
  <2>1. UNCHANGED << call, step, args, result >> BY <1>6 DEF CacheStep
  <2> QED BY <2>1 DEF args
<1>7. CASE UNCHANGED vars
  BY <1>7 DEF vars, args
<1> QED BY <1>2, <1>3, <1>4, <1>5, <1>6, <1>7 DEF Next

(* What a transfer takes is part of the buffer, of the call's range of     *)
(* addresses, and thus of memory and flash.                                *)
LEMMA PartInside ==
  ASSUME ArgsInv, step \in {"maintain", "transfer"}
  PROVE  /\ Span(buff, page) \subseteq Buffer
         /\ Buffer \subseteq Ram
         /\ Span(address, page) \subseteq Span(call.address, call.count)
         /\ Span(call.address, call.count) \subseteq Flash
<1>1. page \in 1 .. count BY PartOfRest
<1>2. /\ call.address \in Nat /\ call.buff \in Nat /\ call.count \in Nat \ {0}
      /\ call.address + call.count <= FlashSize
      /\ call.buff + call.count <= RamSize
  BY CallInside DEF ArgsInv, ScalarsOK
<1>3. /\ count \in 0 .. call.count
      /\ address = call.address + (call.count - count)
      /\ buff = call.buff + (call.count - count)
  BY DEF ArgsInv, ScalarsOK, MovedOn
<1> QED BY <1>1, <1>2, <1>3, SizesAssumption DEF Span, Buffer, Ram, Flash

(* The transfers write makes are those its address and count tell: none    *)
(* starts or ends anywhere but at a page boundary or an end of the range.  *)
LEMMA PartIsTransfer ==
  ASSUME ArgsInv, step \in {"maintain", "transfer"}
  PROVE  << address - call.address, page >> \in Transfers(call)
<1>1. /\ call.op \in {"read", "write"}
      /\ call.address \in Nat /\ call.buff \in Nat /\ call.count \in Nat \ {0}
      /\ call.address + call.count <= FlashSize
  BY CallInside DEF ArgsInv, ScalarsOK
<1>2. /\ count \in 1 .. call.count /\ page \in 1 .. count
      /\ address = call.address + (call.count - count)
  BY PartOfRest DEF ArgsInv, ScalarsOK, MovedOn
<1>3. CASE call.op = "read"
  <2>1. count = call.count /\ page = call.count
    BY <1>3 DEF ArgsInv, ReadPart
  <2>2. address - call.address = 0 BY <1>1, <1>2, <2>1
  <2> QED BY <1>3, <2>1, <2>2 DEF Transfers
<1>4. CASE call.op = "write"
  <2> DEFINE p == address \div PageSize
             r == address % PageSize
  <2>1. PageSize \in Nat \ {0} /\ FlashSize \in Nat /\ FlashSize % PageSize = 0
    BY SizesAssumption
  <2>2. address \in Nat /\ address < FlashSize BY <1>1, <1>2, <2>1
  <2>3. p < FlashSize \div PageSize /\ FlashSize \div PageSize \in Nat
    BY <2>1, <2>2, BelowMultiple, Remainder
  <2>4. p \in Nat /\ r \in 0 .. PageSize - 1 /\ address = (PageSize * p) + r
    BY <2>1, <2>2, Remainder
  <2>5. p \in 0 .. FlashSize \div PageSize - 1
    BY <2>3, <2>4
  <2>6. page = IF PageSize - r > count THEN count ELSE PageSize - r
    BY <1>4 DEF ArgsInv, WritePart, InBlock
  <2>7. address = call.address \/ r = 0
    BY <1>4 DEF ArgsInv, WritePart
  <2>8. p * PageSize = PageSize * p /\ PageSize * p \in Nat
    BY <2>1, <2>4
  <2>9. OnPage(call, p) = Span(address, page)
    <3> HIDE DEF p, r
    <3>1. ASSUME NEW x \in Int
          PROVE  x \in OnPage(call, p) <=> x \in Span(address, page)
      BY <1>1, <1>2, <2>1, <2>4, <2>6, <2>7, <2>8 DEF OnPage, Span
    <3> QED BY <3>1, <1>1, <1>2 DEF OnPage, Span
  <2>10. /\ FirstOf(OnPage(call, p)) = address
         /\ Cardinality(OnPage(call, p)) = page
         /\ OnPage(call, p) # {}
    <3>1. address \in Span(address, page) BY <1>2, <2>2 DEF Span
    <3> QED BY <1>2, <2>2, <2>9, <3>1, SpanOf
  <2> HIDE DEF p
  <2> QED BY <1>4, <2>5, <2>10 DEF Transfers
<1> QED BY <1>1, <1>3, <1>4

(* So the assumption on the transfers of a call is one on each part.       *)
LEMMA PartOverhang ==
  ASSUME ArgsInv, step \in {"maintain", "transfer"}
  PROVE  (buff % LineSize) + (page % LineSize) <= Overhang
<1>1. << address - call.address, page >> \in Transfers(call) BY PartIsTransfer
<1>2. \A t \in Transfers(call) :
        ((call.buff + t[1]) % LineSize) + (t[2] % LineSize) <= Overhang
  BY DEF ArgsInv, ScalarsOK, Calls
<1>3. ((call.buff + (address - call.address)) % LineSize) + (page % LineSize) <= Overhang
  BY <1>1, <1>2
<1>4. call.buff + (address - call.address) = buff
  <2>1. call.address \in Nat /\ call.buff \in Nat /\ call.count \in Nat
    BY CallInside DEF ArgsInv, ScalarsOK
  <2> QED BY <2>1 DEF ArgsInv, ScalarsOK, MovedOn
<1> QED BY <1>3, <1>4

(* The chip's wrapping around inside a page never comes to bear: the bytes *)
(* of a part go to the cells that follow one another from address on.      *)
LEMMA ProgramsPart ==
  ASSUME ArgsInv, step \in {"maintain", "transfer"}, call.op = "write",
         NEW a \in Flash
  PROVE  Programmed[a] = IF a \in Span(address, page) THEN mem[buff + (a - address)]
                                                      ELSE cell[a]
<1>1. /\ PageSize \in Nat \ {0} /\ address \in Nat /\ page \in Nat \ {0} /\ buff \in Nat
  BY PartOfRest, SizesAssumption
<1>2. (address % PageSize) + page <= PageSize /\ address % PageSize \in Nat
  <2>1. page = InBlock(address, count) BY DEF ArgsInv, WritePart
  <2> QED BY <1>1, <2>1, PartOfRest, PartStaysOnItsPage, Remainder
<1>3. ASSUME NEW i \in 0 .. page - 1
      PROVE  Wrapped(address + i) = address + i
  <2>1. i \in Nat /\ (address % PageSize) + i < PageSize
    BY <1>1, <1>2
  <2>2. (address + i) % PageSize = (address % PageSize) + i
    BY <1>1, <2>1, SamePage
  <2> QED BY <1>1, <1>2, <2>1, <2>2 DEF Wrapped
<1> DEFINE from == {i \in 0 .. page - 1 : Wrapped(address + i) = a}
<1>4. a \in Int BY SizesAssumption DEF Flash
<1>5. CASE a \in Span(address, page)
  <2>1. from = {a - address} BY <1>1, <1>3, <1>4, <1>5 DEF Span
  <2>2. FirstOf(from) = a - address BY <1>1, <1>4, <2>1 DEF FirstOf
  <2> HIDE DEF from
  <2>3. Programmed[a] = mem[buff + FirstOf(from)] BY <2>1 DEF Programmed, from
  <2> QED BY <1>5, <2>2, <2>3
<1>6. CASE a \notin Span(address, page)
  <2>1. from = {} BY <1>1, <1>3, <1>4, <1>6 DEF Span
  <2> QED BY <1>6, <2>1 DEF Programmed
<1> QED BY <1>5, <1>6

-----------------------------------------------------------------------------
(* Types                                                                   *)

DataOK ==
  /\ mem \in [Ram -> Values] /\ cached \in [Ram -> Values]
  /\ line \in [Lines -> {"absent", "clean", "dirty"}]
  /\ cell \in [Flash -> Values]
  /\ refilled \subseteq Lines

LEMMA DataType ==
  ASSUME ArgsInv, DataOK
  PROVE  TypeOK
<1>1. /\ call.address \in Nat /\ call.buff \in Nat /\ call.count \in Nat \ {0}
      /\ call.address + call.count <= FlashSize
      /\ call.buff + call.count <= RamSize
      /\ call.count <= FlashSize
  BY CallInside DEF ArgsInv, ScalarsOK
<1>2. FlashSize \in Nat /\ RamSize \in Nat BY SizesAssumption
<1> QED BY <1>1, <1>2 DEF ArgsInv, ScalarsOK, MovedOn, DataOK, TypeOK

(* The values of Init.                                                     *)
LEMMA ValuesOf ==
  /\ \A b \in Ram : << b, "new" >> \in Values /\ << b, "old" >> \in Values
  /\ \A a \in Flash : << a, "flash" >> \in Values
BY DEF Values

LEMMA DataInit ==
  ASSUME Init
  PROVE  DataOK
BY ValuesOf DEF Init, DataOK

(* A transfer puts values of the one memory into the other.                *)
LEMMA TransferType ==
  ASSUME ArgsInv, DataOK, step = "transfer", TransferData
  PROVE  mem' \in [Ram -> Values] /\ cell' \in [Flash -> Values]
<1>1. /\ address \in Nat /\ buff \in Nat /\ page \in Nat
      /\ Span(buff, page) \subseteq Ram
      /\ Span(address, page) \subseteq Flash
  BY PartOfRest, PartInside
<1>2. CASE call.op = "write"
  <2>1. mem' = mem /\ cell' = Programmed BY <1>2 DEF TransferData
  <2>2. ASSUME NEW a \in Flash
        PROVE  Programmed[a] \in Values
    <3>1. CASE a \in Span(address, page)
      <4>1. buff + (a - address) \in Span(buff, page) BY <1>1, <3>1 DEF Span
      <4>2. Programmed[a] = mem[buff + (a - address)]
        BY <1>2, <3>1, ProgramsPart
      <4> QED BY <1>1, <4>1, <4>2 DEF DataOK
    <3>2. CASE a \notin Span(address, page)
      <4>1. Programmed[a] = cell[a] BY <1>2, <3>2, ProgramsPart
      <4> QED BY <4>1 DEF DataOK
    <3> QED BY <3>1, <3>2
  <2>3. Programmed = [a \in Flash |-> Programmed[a]] BY DEF Programmed
  <2> QED BY <2>1, <2>2, <2>3 DEF DataOK
<1>3. CASE call.op # "write"
  <2>1. mem' = Received /\ cell' = cell BY <1>3 DEF TransferData
  <2>2. ASSUME NEW b \in Span(buff, page)
        PROVE  address + b - buff \in Flash
    <3>1. address + b - buff \in Span(address, page) BY <1>1 DEF Span
    <3> QED BY <1>1, <3>1
  <2> QED BY <2>1, <2>2 DEF Received, DataOK
<1> QED BY <1>2, <1>3

LEMMA DataNext ==
  ASSUME ArgsInv, DataOK, [Next]_vars
  PROVE  DataOK'
<1>1. CASE Split
  BY <1>1 DEF Split, DataOK, ram
<1>2. CASE Maintain
  BY <1>2 DEF Maintain, clean_dcache, invalidate_dcache, WrittenBack, Cleaned, Dropped,
              DataOK
<1>3. ASSUME step = "transfer", TransferData, UNCHANGED << cached, line, refilled >>
      PROVE  DataOK'
  BY <1>3, TransferType DEF DataOK
<1>4. CASE Transfer
  BY <1>3, <1>4 DEF Transfer
<1>5. CASE TransferFails
  BY <1>3, <1>5 DEF TransferFails, DataOK
<1>6. CASE CacheStep
  <2>1. PICK l \in Lines : Load(l) \/ Store(l) \/ Evict(l)
    BY <1>6 DEF CacheStep
  <2>2. cell' = cell BY <1>6 DEF CacheStep
  <2>3. Filled(l) \in [Ram -> Values]
    BY DEF Filled, Seen, DataOK
  <2>4. CASE Load(l)
    BY <2>2, <2>3, <2>4 DEF Load, Refill, DataOK
  <2>5. CASE Store(l)
    BY <2>2, <2>3, <2>5, ValuesOf DEF Store, Refill, DataOK
  <2>6. CASE Evict(l)
    BY <2>2, <2>6 DEF Evict, WrittenBack, Dropped, DataOK
  <2> QED BY <2>1, <2>4, <2>5, <2>6
<1>7. CASE UNCHANGED vars
  BY <1>7 DEF vars, ram, DataOK
<1> QED BY <1>1, <1>2, <1>4, <1>5, <1>6, <1>7 DEF Next

(* Every variable keeps its type; for address and buff that is: the loop   *)
(* of write does not leave the flash or the memory.                        *)
THEOREM DataPathTypes == Spec => []TypeOK
<1>1. Init => ArgsInv /\ DataOK BY ArgsInit, DataInit
<1>2. ArgsInv /\ DataOK /\ [Next]_vars => (ArgsInv /\ DataOK)'
  BY ArgsNext, DataNext
<1>3. ArgsInv /\ DataOK => TypeOK BY DataType
<1> QED BY <1>1, <1>2, <1>3, PTL DEF Spec

-----------------------------------------------------------------------------
(* What the program stored                                                 *)

(* A byte the call must leave alone: what its line's copy has of it is     *)
(* what the program stored, and so has memory, unless the line is dirty.   *)
Protected(b) == b \notin Buffer \/ call.op = "write"
Dirty(b) == LineOf(b) \in Lines /\ line[LineOf(b)] = "dirty"
KeptInv ==
  \A b \in Ram : Protected(b) =>
    /\ InCache(b) => cached[b] = << b, "new" >>
    /\ ~Dirty(b) => mem[b] = << b, "new" >>

LEMMA KeptInit ==
  ASSUME Init
  PROVE  KeptInv
BY DEF Init, KeptInv, Dirty

(* Maintenance, by either operation, changes no byte's value: a dirty copy *)
(* is in memory before it is called clean or dropped.                      *)
LEMMA KeptMaintain ==
  ASSUME DataOK, KeptInv, Maintain
  PROVE  KeptInv'
<1>1. Buffer' = Buffer /\ call' = call /\ cached' = cached
  BY DEF Maintain, Buffer, Span
<1>2. CASE UNCHANGED << mem, line >>
  BY <1>1, <1>2 DEF KeptInv, Protected, Dirty, InCache
<1>3. ASSUME NEW lines \in SUBSET Lines, clean_dcache(lines) \/ invalidate_dcache(lines)
      PROVE  KeptInv'
  <2>1. SUFFICES ASSUME NEW b \in Ram, Protected(b)
                 PROVE  /\ InCache(b)' => cached[b] = << b, "new" >>
                        /\ ~Dirty(b)' => mem'[b] = << b, "new" >>
    BY <1>1 DEF KeptInv, Protected
  <2>2. /\ InCache(b) => cached[b] = << b, "new" >>
        /\ ~Dirty(b) => mem[b] = << b, "new" >>
    BY <2>1 DEF KeptInv
  <2>3. mem' = WrittenBack(lines) /\ (line' = Cleaned(lines) \/ line' = Dropped(lines))
    BY <1>3 DEF clean_dcache, invalidate_dcache
  <2>4. CASE LineOf(b) \in lines /\ line[LineOf(b)] = "dirty"
    <3>1. mem'[b] = cached[b] BY <2>3, <2>4 DEF WrittenBack
    <3>2. InCache(b) BY <2>4 DEF InCache
    <3> QED BY <2>2, <3>1, <3>2
  <2>5. CASE ~(LineOf(b) \in lines /\ line[LineOf(b)] = "dirty")
    <3>1. mem'[b] = mem[b] BY <2>3, <2>5 DEF WrittenBack
    <3>2. LineOf(b) \in Lines => line'[LineOf(b)] \in {"absent", line[LineOf(b)]}
      BY <2>3, <2>5 DEF Cleaned, Dropped
    <3>3. Dirty(b) => Dirty(b)'
      BY <2>3, <2>5 DEF Cleaned, Dropped, Dirty
    <3> QED BY <2>2, <3>1, <3>2, <3>3 DEF InCache
  <2> QED BY <2>4, <2>5
<1> QED BY <1>2, <1>3 DEF Maintain, MaintainedLines

(* Nor does a transfer: it writes memory only where a read's buffer is.    *)
LEMMA KeptTransfer ==
  ASSUME ArgsInv, KeptInv, step = "transfer", TransferData,
         UNCHANGED << call, cached, line >>
  PROVE  KeptInv'
<1>1. ASSUME NEW b \in Ram, Protected(b)
      PROVE  mem'[b] = mem[b]
  <2>1. CASE call.op = "write" BY <2>1 DEF TransferData
  <2>2. CASE call.op # "write"
    <3>1. b \notin Span(buff, page) BY <1>1, <2>2, PartInside DEF Protected
    <3> QED BY <2>2, <3>1 DEF TransferData, Received
  <2> QED BY <2>1, <2>2
<1> QED BY <1>1 DEF KeptInv, Protected, Buffer, InCache, Dirty

(* What the cache does, and other tasks through it: a line that is brought *)
(* in holds what memory does, and one that is stored to is dirty.          *)
LEMMA KeptCache ==
  ASSUME DataOK, KeptInv, CacheStep
  PROVE  KeptInv'
<1>1. PICK l \in Lines : Load(l) \/ Store(l) \/ Evict(l)
  BY DEF CacheStep
<1>2. SUFFICES ASSUME NEW b \in Ram, Protected(b)
               PROVE  /\ InCache(b)' => cached'[b] = << b, "new" >>
                      /\ ~Dirty(b)' => mem'[b] = << b, "new" >>
  BY DEF KeptInv, Protected, Buffer, CacheStep
<1>3. /\ InCache(b) => cached[b] = << b, "new" >>
      /\ ~Dirty(b) => mem[b] = << b, "new" >>
      /\ ~InCache(b) => ~Dirty(b)
  BY <1>2 DEF KeptInv, Dirty, InCache
<1>4. Seen(b) = << b, "new" >> BY <1>3 DEF Seen
<1>5. Filled(l)[b] = IF LineOf(b) = l THEN << b, "new" >> ELSE cached[b]
  BY <1>4 DEF Filled
<1>6. CASE Load(l)
  BY <1>3, <1>5, <1>6 DEF Load, InCache, Dirty, DataOK
<1>7. CASE Store(l)
  <2> DEFINE theirs == BytesOf(l) \ Buffer
  <2>1. /\ cached'[b] = IF b \in theirs THEN << b, "new" >> ELSE Filled(l)[b]
        /\ mem'[b] = IF b \in theirs THEN << b, "old" >> ELSE mem[b]
        /\ line' = [line EXCEPT ![l] = "dirty"]
    BY <1>7 DEF Store
  <2>2. b \in theirs => LineOf(b) = l BY LineOfBytes
  <2> HIDE DEF theirs
  <2>3. CASE LineOf(b) = l
    BY <1>3, <1>5, <2>1, <2>3 DEF InCache, Dirty, DataOK
  <2>4. CASE LineOf(b) # l
    BY <1>3, <1>5, <2>1, <2>2, <2>4 DEF InCache, Dirty, DataOK
  <2> QED BY <2>3, <2>4
<1>8. CASE Evict(l)
  <2>1. /\ mem'[b] = IF LineOf(b) = l /\ line[LineOf(b)] = "dirty" THEN cached[b] ELSE mem[b]
        /\ LineOf(b) \in Lines =>
             line'[LineOf(b)] = IF LineOf(b) = l THEN "absent" ELSE line[LineOf(b)]
        /\ cached' = cached
    BY <1>8 DEF Evict, WrittenBack, Dropped
  <2> QED BY <1>3, <2>1 DEF InCache, Dirty
<1> QED BY <1>1, <1>6, <1>7, <1>8

LEMMA KeptNext ==
  ASSUME ArgsInv, DataOK, KeptInv, [Next]_vars
  PROVE  KeptInv'
<1>1. CASE Split
  BY <1>1 DEF Split, ram, KeptInv, Protected, Buffer, InCache, Dirty
<1>2. CASE Transfer
  BY <1>2, KeptTransfer DEF Transfer
<1>3. CASE TransferFails
  <2>1. CASE UNCHANGED << mem, cell >>
    BY <1>3, <2>1 DEF TransferFails, KeptInv, Protected, Buffer, InCache, Dirty
  <2>2. CASE step = "transfer" /\ TransferData
    BY <1>3, <2>2, KeptTransfer DEF TransferFails
  <2> QED BY <1>3, <2>1, <2>2 DEF TransferFails
<1>4. CASE UNCHANGED vars
  BY <1>4 DEF vars, ram, KeptInv, Protected, Buffer, InCache, Dirty
<1> QED BY <1>1, <1>2, <1>3, <1>4, KeptMaintain, KeptCache DEF Next

(* Whatever the call and the state of the cache it was made in, and for    *)
(* every overhang: nothing the program stored outside a buffer that is     *)
(* read into is lost or seen old.                                          *)
THEOREM StoresAreKept == Spec => []StoresKept
<1>1. Init => ArgsInv /\ DataOK /\ KeptInv BY ArgsInit, DataInit, KeptInit
<1>2. ArgsInv /\ DataOK /\ KeptInv /\ [Next]_vars => (ArgsInv /\ DataOK /\ KeptInv)'
  BY ArgsNext, DataNext, KeptNext
<1>3. KeptInv => StoresKept
  BY DEF KeptInv, StoresKept, Protected, Seen, Dirty, InCache
<1> QED BY <1>1, <1>2, <1>3, PTL DEF Spec

-----------------------------------------------------------------------------
(* What a write stores                                                     *)

(* When no transfer reaches over by more than a line, maintenance gets     *)
(* every line of it that can be in the cache.                              *)
LEMMA PartIsMaintained ==
  ASSUME Overhang <= LineSize, ArgsInv, step = "maintain",
         NEW b \in Span(buff, page), LineOf(b) \in Lines
  PROVE  buff + page >= Sram1Base /\ LineOf(b) \in MaintainedLines(buff, page)
<1>1. buff \in Nat /\ page \in Nat /\ b \in Nat /\ b < buff + page
  BY PartOfRest DEF Span
<1>2. ~(b < Sram1Base) BY <1>1, NotCached
<1>3. (buff % LineSize) + (page % LineSize) <= LineSize
  <2>1. LineSize \in Nat \ {0} /\ Overhang \in Nat BY SizesAssumption
  <2>2. buff % LineSize \in Nat /\ page % LineSize \in Nat
    BY <1>1, <2>1, Remainder
  <2> QED BY <2>1, <2>2, PartOverhang
<1> QED BY <1>1, <1>2, <1>3, SizesAssumption, TransferIsMaintained

(* Between maintenance and transfer memory has what the program stored in  *)
(* the part; and the parts before this one are in the flash, in order, and *)
(* nothing outside the call's range is.                                    *)
PartInMemory ==
  call.op = "write" /\ step = "transfer" =>
    \A b \in Span(buff, page) : mem[b] = << b, "new" >>
WrittenInv ==
  call.op = "write" =>
    \A a \in Flash :
      /\ a \notin Span(call.address, call.count) => cell[a] = << a, "flash" >>
      /\ a \in Span(call.address, call.count - count) =>
           cell[a] = << call.buff + (a - call.address), "new" >>

LEMMA WrittenInit ==
  ASSUME Init
  PROVE  PartInMemory /\ WrittenInv
<1>1. step # "transfer" /\ \A a \in Flash : cell[a] = << a, "flash" >>
  BY DEF Init
<1>2. Span(call.address, call.count - count) = {}
  <2>1. call.count - count = 0 /\ call.address \in Nat BY CallInside DEF Init
  <2> QED BY <2>1 DEF Span
<1> QED BY <1>1, <1>2 DEF PartInMemory, WrittenInv

LEMMA PartInMemoryNext ==
  ASSUME Overhang <= LineSize, ArgsInv, DataOK, KeptInv, PartInMemory, [Next]_vars
  PROVE  PartInMemory'
<1>1. CASE Maintain
  <2>1. SUFFICES ASSUME call.op = "write", NEW b \in Span(buff, page)
                 PROVE  mem'[b] = << b, "new" >>
    BY <1>1 DEF Maintain, args, PartInMemory, Span
  <2>2. step = "maintain" /\ b \in Ram /\ Protected(b)
    BY <1>1, <2>1, PartInside DEF Maintain, Protected
  <2>3. /\ InCache(b) => cached[b] = << b, "new" >>
        /\ ~Dirty(b) => mem[b] = << b, "new" >>
    BY <2>2 DEF KeptInv
  <2>4. CASE Dirty(b)
    <3>1. /\ LineOf(b) \in MaintainedLines(buff, page)
          /\ buff + page >= Sram1Base
      BY <2>2, <2>4, PartIsMaintained DEF Dirty
    <3>2. mem'[b] = cached[b]
      BY <1>1, <2>1, <2>2, <2>4, <3>1 DEF Maintain, clean_dcache, WrittenBack, Dirty
    <3> QED BY <2>3, <2>4, <3>2 DEF Dirty, InCache
  <2>5. CASE ~Dirty(b)
    <3>1. mem'[b] = mem[b]
      BY <1>1, <2>1, <2>2, <2>5
      DEF Maintain, clean_dcache, WrittenBack, Dirty, MaintainedLines
    <3> QED BY <2>3, <2>5, <3>1
  <2> QED BY <2>4, <2>5
<1>2. CASE CacheStep
  <2>1. PICK l \in Lines : Load(l) \/ Store(l) \/ Evict(l)
    BY <1>2 DEF CacheStep
  <2>2. SUFFICES ASSUME call.op = "write", step = "transfer", NEW b \in Span(buff, page)
                 PROVE  mem'[b] = << b, "new" >>
    BY <1>2 DEF CacheStep, args, PartInMemory, Span
  <2>3. /\ b \in Ram /\ b \in Buffer /\ Protected(b) /\ mem[b] = << b, "new" >>
    BY <2>2, PartInside DEF Protected, PartInMemory
  <2>4. CASE Load(l) BY <2>3, <2>4 DEF Load
  <2>5. CASE Store(l) BY <2>3, <2>5 DEF Store
  <2>6. CASE Evict(l)
    <3>1. InCache(b) => cached[b] = << b, "new" >> BY <2>3 DEF KeptInv
    <3> QED BY <2>3, <2>6, <3>1 DEF Evict, WrittenBack, InCache
  <2> QED BY <2>1, <2>4, <2>5, <2>6
<1>3. CASE Split \/ Transfer \/ TransferFails
  BY <1>3 DEF Split, Transfer, TransferFails, PartInMemory
<1>4. CASE UNCHANGED vars
  BY <1>4 DEF vars, ram, args, PartInMemory, Span
<1> QED BY <1>1, <1>2, <1>3, <1>4 DEF Next

(* A transfer programs the part and nothing else, whether or not the       *)
(* command that it is the data of then succeeds.                           *)
LEMMA PartIsProgrammed ==
  ASSUME ArgsInv, PartInMemory, call.op = "write", step = "transfer", TransferData,
         NEW a \in Flash
  PROVE  cell'[a] = IF a \in Span(address, page)
                    THEN << call.buff + (a - call.address), "new" >> ELSE cell[a]
<1>1. cell'[a] = IF a \in Span(address, page) THEN mem[buff + (a - address)] ELSE cell[a]
  BY ProgramsPart DEF TransferData
<1>2. ASSUME a \in Span(address, page)
      PROVE  mem[buff + (a - address)] = << call.buff + (a - call.address), "new" >>
  <2>1. /\ address \in Nat /\ buff \in Nat /\ page \in Nat
        /\ call.address \in Nat /\ call.buff \in Nat /\ call.count \in Nat
    BY PartOfRest, CallInside DEF ArgsInv, ScalarsOK
  <2>2. buff + (a - address) \in Span(buff, page) BY <1>2, <2>1 DEF Span
  <2>3. buff + (a - address) = call.buff + (a - call.address)
    BY <1>2, <2>1 DEF Span, ArgsInv, ScalarsOK, MovedOn
  <2> QED BY <2>2, <2>3 DEF PartInMemory
<1> QED BY <1>1, <1>2

LEMMA WrittenNext ==
  ASSUME ArgsInv, PartInMemory, WrittenInv, [Next]_vars
  PROVE  WrittenInv'
<1>1. CASE Transfer \/ (TransferFails /\ step = "transfer" /\ TransferData)
  <2>1. SUFFICES ASSUME call.op = "write", NEW a \in Flash
                 PROVE  /\ a \notin Span(call.address, call.count) =>
                             cell'[a] = << a, "flash" >>
                        /\ a \in Span(call.address, call.count - count') =>
                             cell'[a] = << call.buff + (a - call.address), "new" >>
    BY <1>1 DEF WrittenInv, Transfer, TransferFails, args
  <2>2. /\ step = "transfer" /\ TransferData
        /\ count' \in {count, count - page}
    BY <1>1 DEF Transfer, TransferFails, args
  <2>3. /\ address \in Nat /\ page \in 1 .. count /\ count \in Nat
        /\ call.address \in Nat /\ call.count \in Nat
        /\ address = call.address + (call.count - count)
        /\ a \in Int
    BY <2>2, PartOfRest, CallInside, SizesAssumption
    DEF ArgsInv, ScalarsOK, MovedOn, Flash
  <2>4. cell'[a] = IF a \in Span(address, page)
                   THEN << call.buff + (a - call.address), "new" >> ELSE cell[a]
    BY <2>1, <2>2, PartIsProgrammed
  <2>5. a \in Span(address, page) => a \in Span(call.address, call.count)
    BY <2>2, PartInside
  <2>6. a \in Span(call.address, call.count - count') =>
          a \in Span(address, page) \/ a \in Span(call.address, call.count - count)
    BY <2>2, <2>3 DEF Span
  <2> QED BY <2>1, <2>4, <2>5, <2>6 DEF WrittenInv
<1>2. CASE Split \/ Maintain \/ (TransferFails /\ UNCHANGED << mem, cell >>)
  BY <1>2 DEF Split, Maintain, TransferFails, args, WrittenInv, Span
<1>3. CASE CacheStep
  BY <1>3 DEF CacheStep, args, WrittenInv, Span
<1>4. CASE UNCHANGED vars
  BY <1>4 DEF vars, args, WrittenInv, Span
<1> QED BY <1>1, <1>2, <1>3, <1>4 DEF Next, TransferFails

(* A write that returns ok has stored what the program had put into the    *)
(* buffer, whatever was in the cache then and whatever other tasks do to   *)
(* the cache meanwhile, provided no transfer reaches over by more than a   *)
(* line (without that, the run claim_cache_tail shows, it may not have);   *)
(* and no write touches a cell outside its range.                          *)
THEOREM WriteStoresBuffer ==
  ASSUME Overhang <= LineSize
  PROVE  Spec => []WritesItsRange
<1> DEFINE Inv == ArgsInv /\ DataOK /\ KeptInv /\ PartInMemory /\ WrittenInv
<1>1. Init => Inv BY ArgsInit, DataInit, KeptInit, WrittenInit
<1>2. Inv /\ [Next]_vars => Inv'
  BY ArgsNext, DataNext, KeptNext, PartInMemoryNext, WrittenNext
<1>3. Inv => WritesItsRange
  <2> SUFFICES ASSUME ArgsInv, WrittenInv, call.op = "write"
               PROVE  WritesItsRange
    BY DEF WritesItsRange
  <2>1. step = "returned" /\ result = "ok" => call.count - count = call.count
    BY CallInside DEF ArgsInv, ScalarsOK, MovedOn
  <2> QED BY <2>1 DEF WrittenInv, WritesItsRange
<1> HIDE DEF Inv
<1> QED BY <1>1, <1>2, <1>3, PTL DEF Spec

-----------------------------------------------------------------------------
(* What a read leaves in the buffer                                        *)

(* From maintenance to transfer no line of the buffer is in the cache that *)
(* was not brought in meanwhile; after the transfer the other lines have   *)
(* in memory, and where they were brought in since then also in the cache, *)
(* what the flash has; and reads do not change the flash.                  *)
FlashByte(b) == << call.address + (b - call.buff), "flash" >>
BufferAbsent ==
  step = "transfer" =>
    \A b \in Buffer : LineOf(b) \notin refilled => ~InCache(b)
BufferRead ==
  step = "returned" /\ result = "ok" =>
    \A b \in Buffer : LineOf(b) \notin refilled =>
      /\ mem[b] = FlashByte(b)
      /\ InCache(b) => cached[b] = FlashByte(b)
ReadInv ==
  call.op = "read" =>
    /\ \A a \in Flash : cell[a] = << a, "flash" >>
    /\ BufferAbsent
    /\ BufferRead

LEMMA ReadInit ==
  ASSUME Init
  PROVE  ReadInv
BY DEF Init, ReadInv, BufferAbsent, BufferRead

LEMMA ReadMaintain ==
  ASSUME Overhang <= LineSize, ArgsInv, DataOK, Maintain, call.op = "read"
  PROVE  BufferAbsent'
<1>1. SUFFICES ASSUME NEW b \in Buffer, LineOf(b) \in Lines
               PROVE  line'[LineOf(b)] = "absent"
  BY DEF Maintain, args, BufferAbsent, Buffer, Span, InCache
<1>2. b \in Span(buff, page) /\ step = "maintain"
  BY CallInside DEF Maintain, ArgsInv, ScalarsOK, MovedOn, ReadPart, Buffer, Span
<1>3. /\ buff + page >= Sram1Base
      /\ LineOf(b) \in MaintainedLines(buff, page)
  BY <1>1, <1>2, PartIsMaintained
<1> QED BY <1>1, <1>3 DEF Maintain, invalidate_dcache, Dropped

LEMMA ReadTransfer ==
  ASSUME ArgsInv, DataOK, ReadInv, Transfer, call.op = "read"
  PROVE  BufferRead'
<1>1. /\ step = "transfer" /\ mem' = Received
      /\ UNCHANGED << cached, line, call, refilled >>
  BY DEF Transfer, TransferData
<1>2. SUFFICES ASSUME NEW b \in Buffer, LineOf(b) \notin refilled
               PROVE  mem'[b] = FlashByte(b) /\ ~InCache(b)
  BY <1>1 DEF BufferRead, Buffer, Span, FlashByte, InCache
<1>3. /\ call.address \in Nat /\ call.buff \in Nat /\ call.count \in Nat
      /\ address = call.address /\ buff = call.buff /\ page = call.count
  BY <1>1, CallInside DEF ArgsInv, ScalarsOK, MovedOn, ReadPart
<1>4. b \in Ram /\ b \in Span(buff, page) /\ b \in Int
  BY <1>1, <1>3, PartInside DEF Buffer, Span
<1>5. mem'[b] = cell[address + b - buff]
  BY <1>1, <1>4 DEF Received
<1>6. address + b - buff \in Flash
  <2>1. address + b - buff \in Span(address, page) BY <1>3, <1>4 DEF Span
  <2> QED BY <1>1, <2>1, PartInside
<1>7. cell[address + b - buff] = << address + b - buff, "flash" >>
  BY <1>6 DEF ReadInv
<1>8. address + b - buff = call.address + (b - call.buff)
  BY <1>3, <1>4
<1>9. ~InCache(b) BY <1>1, <1>2 DEF ReadInv, BufferAbsent
<1> QED BY <1>5, <1>7, <1>8, <1>9 DEF FlashByte

LEMMA ReadCache ==
  ASSUME ArgsInv, DataOK, CacheStep, BufferAbsent, BufferRead
  PROVE  BufferAbsent' /\ BufferRead'
<1>1. PICK l \in Lines : Load(l) \/ Store(l) \/ Evict(l)
  BY DEF CacheStep
<1>2. UNCHANGED << call, step, result >> BY DEF CacheStep
<1>3. Buffer' = Buffer BY <1>2 DEF Buffer, Span
<1>4. Buffer \subseteq Ram
  BY CallInside, SizesAssumption DEF ArgsInv, ScalarsOK, Buffer, Span, Ram
<1>5. refilled \subseteq refilled'
  BY <1>1 DEF Load, Store, Evict, Refill
<1>6. ASSUME NEW b \in Buffer
      PROVE  /\ LineOf(b) = l /\ (Load(l) \/ Store(l)) => cached'[b] = Seen(b)
             /\ ~(LineOf(b) = l) => cached'[b] = cached[b]
             /\ mem'[b] = IF Evict(l) /\ LineOf(b) = l /\ line[l] = "dirty"
                          THEN cached[b] ELSE mem[b]
             /\ InCache(b)' <=> IF LineOf(b) = l THEN Load(l) \/ Store(l) ELSE InCache(b)
  <2>1. b \in Ram BY <1>4
  <2>2. CASE Load(l)
    <3>1. ~Evict(l) /\ line' = [line EXCEPT ![l] = "clean"]
      BY <2>2 DEF Load, Evict
    <3> QED BY <2>1, <2>2, <3>1 DEF Load, Filled, InCache, DataOK
  <2>3. CASE Store(l)
    <3>1. b \notin BytesOf(l) \ Buffer OBVIOUS
    <3>2. /\ line' = [line EXCEPT ![l] = "dirty"]
          /\ cached'[b] = Filled(l)[b]
          /\ mem'[b] = mem[b]
      BY <2>1, <2>3, <3>1 DEF Store
    <3>3. ~Evict(l)
      BY <2>3, <3>2 DEF Evict, Dropped, DataOK
    <3> QED BY <2>1, <2>3, <3>2, <3>3 DEF Filled, InCache, DataOK
  <2>4. CASE Evict(l)
    <3>1. line' = [k \in Lines |-> IF k \in {l} THEN "absent" ELSE line[k]]
      BY <2>4 DEF Evict, Dropped
    <3>2. ~Load(l) /\ ~Store(l)
      BY <2>4, <3>1 DEF Load, Store, Evict, DataOK
    <3> QED BY <2>1, <2>4, <3>1, <3>2 DEF Evict, WrittenBack, InCache
  <2> QED BY <1>1, <2>2, <2>3, <2>4
<1>7. BufferAbsent'
  <2>1. SUFFICES ASSUME step = "transfer", NEW b \in Buffer, LineOf(b) \notin refilled'
                 PROVE  ~InCache(b)'
    BY <1>2, <1>3 DEF BufferAbsent
  <2>2. ~InCache(b) BY <1>5, <2>1 DEF BufferAbsent
  <2>3. LineOf(b) = l => line[l] = "absent" BY <2>2 DEF InCache
  <2>4. LineOf(b) = l => ~Load(l) /\ ~Store(l)
    BY <2>1, <2>3 DEF Load, Store, Refill
  <2> QED BY <1>6, <2>2, <2>4
<1>8. BufferRead'
  <2>1. SUFFICES ASSUME step = "returned", result = "ok",
                        NEW b \in Buffer, LineOf(b) \notin refilled'
                 PROVE  /\ mem'[b] = FlashByte(b)
                        /\ InCache(b)' => cached'[b] = FlashByte(b)
    BY <1>2, <1>3 DEF BufferRead, FlashByte
  <2>2. /\ mem[b] = FlashByte(b)
        /\ InCache(b) => cached[b] = FlashByte(b)
    BY <1>5, <2>1 DEF BufferRead
  <2>3. Seen(b) = FlashByte(b) BY <2>2 DEF Seen
  <2>4. LineOf(b) = l /\ line[l] = "dirty" => InCache(b) BY DEF InCache
  <2> QED BY <1>6, <2>2, <2>3, <2>4
<1> QED BY <1>7, <1>8

LEMMA ReadNext ==
  ASSUME Overhang <= LineSize, ArgsInv, DataOK, ReadInv, [Next]_vars
  PROVE  ReadInv'
<1>1. SUFFICES ASSUME call.op = "read"
               PROVE  cell' = cell /\ BufferAbsent' /\ BufferRead'
  BY DEF ReadInv, Next, Split, Maintain, Transfer, TransferFails, CacheStep, vars
<1>2. ArgsInv' /\ step # "split"
  BY <1>1, ArgsNext DEF ArgsInv, ReadPart
<1>3. CASE Maintain
  BY <1>1, <1>3, ReadMaintain DEF Maintain, BufferRead
<1>4. CASE Transfer
  <2>1. step' # "transfer" /\ cell' = cell
    BY <1>1, <1>4 DEF Transfer, TransferData
  <2> QED BY <1>1, <1>4, <2>1, ReadTransfer DEF BufferAbsent
<1>5. CASE TransferFails
  BY <1>1, <1>5 DEF TransferFails, TransferData, BufferAbsent, BufferRead
<1>6. CASE CacheStep
  BY <1>1, <1>6, ReadCache DEF ReadInv, CacheStep
<1>7. CASE UNCHANGED vars
  BY <1>1, <1>7
  DEF vars, ram, ReadInv, BufferAbsent, BufferRead, Buffer, Span, FlashByte, InCache
<1> QED BY <1>2, <1>3, <1>4, <1>5, <1>6, <1>7 DEF Next, Split

(* After a read that returned ok, of a range that reaches over by no more  *)
(* than a line, the program sees the contents of the flash, and goes on    *)
(* seeing them, but for lines brought back in during the transfer.         *)
THEOREM ReadDeliversFlash ==
  ASSUME Overhang <= LineSize
  PROVE  Spec => []ReadSeesChip
<1> DEFINE Inv == ArgsInv /\ DataOK /\ ReadInv
<1>1. Init => Inv BY ArgsInit, DataInit, ReadInit
<1>2. Inv /\ [Next]_vars => Inv'
  BY ArgsNext, DataNext, ReadNext
<1>3. Inv => ReadSeesChip
  BY DEF ReadInv, BufferRead, ReadSeesChip, FlashByte, Seen
<1> HIDE DEF Inv
<1> QED BY <1>1, <1>2, <1>3, PTL DEF Spec

==============================================================================
