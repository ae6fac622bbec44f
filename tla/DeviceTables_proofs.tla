-------------------------- MODULE DeviceTables_proofs --------------------------
(***************************************************************************)
(* Machine-checked proofs about the device tables, for every number of     *)
(* dummy cycles the comments of the tables allow and whatever three bytes  *)
(* the bus shows: what the look-up finds, that chip and controller agree   *)
(* on the read latency, and that the sectors make up the device.           *)
(***************************************************************************)
EXTENDS DeviceTables, TLAPS

-----------------------------------------------------------------------------
(* The tables                                                              *)

IdsOf(m) == IF m = 1 THEN {\hBA18, \hBB18} ELSE {\h6016, \h6017, \h6018, \h7018}

MicronEntry(d)  == /\ d.device_ID \in IdsOf(1) /\ d.sector_size = 4096
                   /\ d.dummy_cycles \in 1 .. 14
                   /\ d.alt_bytes_cycles = 0 /\ d.alt_bytes = FALSE
WinbondEntry(d) == /\ d.device_ID \in IdsOf(2) /\ d.sector_size = 4096
                   /\ d.dummy_cycles \in {2, 4, 6, 8}
                   /\ d.alt_bytes_cycles = 2 /\ d.alt_bytes = TRUE

LEMMA TableFacts ==
  ASSUME NEW t \in Tables
  PROVE  /\ Len(t) = 2 /\ DOMAIN t = 1 .. 2
         /\ t[1].manufacturer_ID = 32 /\ t[1].name = "micron"
         /\ t[2].manufacturer_ID = 239 /\ t[2].name = "winbond"
         /\ Len(t[1].devices) = 2 /\ DOMAIN t[1].devices = 1 .. 2
         /\ Len(t[2].devices) = 4 /\ DOMAIN t[2].devices = 1 .. 4
         /\ \A d \in 1 .. 2 : MicronEntry(t[1].devices[d])
         /\ \A d \in 1 .. 4 : WinbondEntry(t[2].devices[d])
<1>1. PICK dm \in MicronDummies, dw \in WinbondDummies : t = Manufacturers(dm, dw)
  BY DEF Tables
<1>2. dm \in 1 .. 14 /\ dw \in {2, 4, 6, 8} BY DummiesAssumption
<1>3. t[1] = Manufacturer(\h20, "micron", MicronDevices(dm)) BY <1>1 DEF Manufacturers
<1>4. t[2] = Manufacturer(\hEF, "winbond", WinbondDevices(dw)) BY <1>1 DEF Manufacturers
<1>5. Len(t) = 2 /\ DOMAIN t = 1 .. 2 BY <1>1 DEF Manufacturers
<1>6. t[1].manufacturer_ID = 32 /\ t[1].name = "micron" /\ t[1].devices = MicronDevices(dm)
  BY <1>3 DEF Manufacturer
<1>7. t[2].manufacturer_ID = 239 /\ t[2].name = "winbond" /\ t[2].devices = WinbondDevices(dw)
  BY <1>4 DEF Manufacturer
<1>8. Len(MicronDevices(dm)) = 2 /\ DOMAIN MicronDevices(dm) = 1 .. 2 BY DEF MicronDevices
<1>9. Len(WinbondDevices(dw)) = 4 /\ DOMAIN WinbondDevices(dw) = 1 .. 4 BY DEF WinbondDevices
<1>10. ASSUME NEW d \in 1 .. 2 PROVE MicronEntry(MicronDevices(dm)[d])
  <2>1. ASSUME NEW id \in IdsOf(1) PROVE MicronEntry(Entry(id, dm, 0))
    BY <1>2 DEF MicronEntry, Entry
  <2>2. d = 1 \/ d = 2 OBVIOUS
  <2>3. MicronDevices(dm)[d] \in {Entry(\hBA18, dm, 0), Entry(\hBB18, dm, 0)}
    BY <2>2 DEF MicronDevices
  <2> QED BY <2>1, <2>3 DEF IdsOf
<1>11. ASSUME NEW d \in 1 .. 4 PROVE WinbondEntry(WinbondDevices(dw)[d])
  <2>1. ASSUME NEW id \in IdsOf(2) PROVE WinbondEntry(Entry(id, dw, 2))
    <3> DEFINE e == Entry(id, dw, 2)
    <3>1. /\ e.device_ID = id /\ e.sector_size = 4096 /\ e.dummy_cycles = dw
          /\ e.alt_bytes_cycles = 2
      BY DEF Entry
    <3>2. e.alt_bytes = (2 # 0) BY Zenon DEF Entry
    <3>3. 2 # 0 OBVIOUS
    <3>4. e.alt_bytes = TRUE BY <3>2, <3>3, Zenon
    <3> HIDE DEF e
    <3>5. WinbondEntry(e) BY <1>2, <3>1, <3>4 DEF WinbondEntry
    <3> QED BY <3>5 DEF e
  <2>2. d = 1 \/ d = 2 \/ d = 3 \/ d = 4 OBVIOUS
  <2>3. WinbondDevices(dw)[d] \in {Entry(\h6016, dw, 2), Entry(\h6017, dw, 2),
                                   Entry(\h6018, dw, 2), Entry(\h7018, dw, 2)}
    BY <2>2 DEF WinbondDevices
  <2> QED BY <2>1, <2>3 DEF IdsOf
<1> QED BY <1>5, <1>6, <1>7, <1>8, <1>9, <1>10, <1>11

LEMMA EntryFacts ==
  ASSUME NEW t \in Tables, NEW m \in DOMAIN t, NEW d \in DOMAIN t[m].devices
  PROVE  /\ m \in 1 .. 2 /\ d \in 1 .. 4 /\ d <= Len(t[m].devices)
         /\ t[m].devices[d].device_ID \in IdsOf(m)
         /\ t[m].devices[d].sector_size = 4096
         /\ t[m].devices[d].dummy_cycles \in 1 .. 14
         /\ t[m].name = IF m = 1 THEN "micron" ELSE "winbond"
<1>1. m = 1 \/ m = 2 BY TableFacts
<1>2. CASE m = 1
  <2>1. d \in 1 .. 2 BY <1>2, TableFacts
  <2>2. MicronEntry(t[1].devices[d]) BY <2>1, TableFacts
  <2>3. t[1].name = "micron" /\ Len(t[1].devices) = 2 BY TableFacts
  <2> QED BY <1>2, <2>1, <2>2, <2>3 DEF MicronEntry
<1>3. CASE m = 2
  <2>1. d \in 1 .. 4 BY <1>3, TableFacts
  <2>2. WinbondEntry(t[2].devices[d]) BY <2>1, TableFacts
  <2>3. t[2].name = "winbond" /\ Len(t[2].devices) = 4 BY TableFacts
  <2> QED BY <1>3, <2>1, <2>2, <2>3 DEF WinbondEntry
<1> QED BY <1>1, <1>2, <1>3

-----------------------------------------------------------------------------
(* Type correctness                                                        *)

(* The loops keep within the tables.                                       *)
CursorsInv ==
  /\ phase = "manufacturers" => pqm \in 1 .. 3
  /\ phase = "devices" => /\ pqm \in 1 .. 2
                          /\ pqd \in 1 .. Len(table[pqm].devices) + 1

TypeInv == TypeOK /\ CursorsInv

(* TypeOK in three parts, the first of which the loops change.             *)
LoopsTyped   == /\ pqm \in 0 .. 3 /\ pqd \in 0 .. 5
                /\ phase \in {"idle", "manufacturers", "devices", "quad"}
BytesTyped   == /\ bytes \in Bytes \cup {<< 0, 0, 0 >>}
                /\ manufacturer_ID \in 0 .. 255 /\ memory_type \in Nat /\ memory_type < 65536
MembersTyped == /\ pmanufacturer \in {"micron", "winbond", Null}
                /\ pimpl \in {"micron", "winbond", Null}
                /\ pdevice \in AllEntries \cup {NoDevice}
                /\ result \in {"ok", "error", "type_not_found"}

LEMMA TypeInit == Init => TypeInv
<1> SUFFICES ASSUME Init PROVE TypeInv
  OBVIOUS
<1>1. Len(table) = 2 BY TableFacts DEF Init
<1> QED BY <1>1 DEF Init, TypeInv, TypeOK, CursorsInv

LEMMA TwoBytes ==
  ASSUME NEW h \in 0 .. 255, NEW l \in 0 .. 255
  PROVE  h * 256 + l \in Nat /\ h * 256 + l < 65536
OBVIOUS

LEMMA BytesWide ==
  ASSUME NEW b \in Bytes \cup {<< 0, 0, 0 >>}
  PROVE  /\ b[1] \in 0 .. 255 /\ b[2] \in 0 .. 255 /\ b[3] \in 0 .. 255
         /\ b[2] * 256 + b[3] \in Nat /\ b[2] * 256 + b[3] < 65536
         /\ (b[2] * 256 + b[3]) % 65536 = b[2] * 256 + b[3]
<1>1. b[1] \in 0 .. 255 /\ b[2] \in 0 .. 255 /\ b[3] \in 0 .. 255
  <2>1. CASE b \in Bytes
    <3>1. b[1] \in FirstBytes /\ b[2] \in SecondBytes /\ b[3] \in ThirdBytes
      BY <2>1 DEF Bytes
    <3> QED BY <3>1, BytesAssumption
  <2>2. CASE b = << 0, 0, 0 >> BY <2>2
  <2> QED BY <2>1, <2>2
<1>3. \A n \in Nat : n < 65536 => n % 65536 = n
  OBVIOUS
<1>4. b[2] * 256 + b[3] \in Nat /\ b[2] * 256 + b[3] < 65536
  <2>1. PICK h \in 0 .. 255 : h = b[2] BY <1>1
  <2>2. PICK l \in 0 .. 255 : l = b[3] BY <1>1
  <2>3. h * 256 + l \in Nat /\ h * 256 + l < 65536 BY TwoBytes
  <2> QED BY <2>1, <2>2, <2>3
<1> QED BY <1>1, <1>3, <1>4

LEMMA TypeNext == TypeInv /\ [Next]_vars => TypeInv'
<1> SUFFICES ASSUME TypeInv, [Next]_vars PROVE TypeInv'
  OBVIOUS
<1>a. /\ table \in Tables /\ Len(table) = 2 /\ DOMAIN table = 1 .. 2
      /\ DOMAIN table[1].devices = 1 .. 2 /\ Len(table[1].devices) = 2
      /\ DOMAIN table[2].devices = 1 .. 4 /\ Len(table[2].devices) = 4
      /\ table[1].name = "micron" /\ table[2].name = "winbond"
  <2>1. table \in Tables BY DEF TypeInv, TypeOK
  <2> QED BY <2>1, TableFacts
<1>b. table' = table
  <2>1. ASSUME NEW b \in Bytes, Receive(b) PROVE table' = table BY <2>1 DEF Receive
  <2>2. Outer \/ Inner => table' = table BY DEF Outer, Inner
  <2>3. EnterQuadMode \/ Uninitialize => table' = table BY DEF EnterQuadMode, Uninitialize
  <2> QED BY <2>1, <2>2, <2>3 DEF Next, vars
<1>c. AllEntries' = AllEntries BY <1>b DEF AllEntries, DevicesOf
<1>d. LoopsTyped /\ BytesTyped /\ MembersTyped /\ datareg \in 0 .. 255
  BY <1>a DEF TypeInv, TypeOK, LoopsTyped, BytesTyped, MembersTyped
<1>e. ASSUME LoopsTyped', BytesTyped', MembersTyped', datareg' \in 0 .. 255, CursorsInv'
      PROVE  TypeInv'
  <2>1. table' \in Tables /\ Len(table') = 2 BY <1>a, <1>b
  <2>2. Len(table') + 1 = 3 BY <2>1
  <2>3. TypeOK' BY <1>e, <2>1, <2>2 DEF TypeOK, LoopsTyped, BytesTyped, MembersTyped
  <2> QED BY <1>e, <2>3 DEF TypeInv
<1>f. ASSUME UNCHANGED << bytes, manufacturer_ID, memory_type >> PROVE BytesTyped'
  BY <1>d, <1>f DEF BytesTyped
<1>g. ASSUME UNCHANGED << pmanufacturer, pimpl, pdevice, result >> PROVE MembersTyped'
  BY <1>c, <1>d, <1>g DEF MembersTyped
<1>h. ASSUME UNCHANGED << pqm, pqd, phase >> PROVE LoopsTyped' /\ CursorsInv'
  BY <1>b, <1>d, <1>h DEF LoopsTyped, CursorsInv, TypeInv
<1>1. ASSUME NEW b \in Bytes, Receive(b) PROVE TypeInv'
  <2>1. b[1] \in 0 .. 255 /\ (b[2] * 256 + b[3]) % 65536 = b[2] * 256 + b[3]
        /\ b[2] * 256 + b[3] \in Nat /\ b[2] * 256 + b[3] < 65536
    <3>1. b \in Bytes \cup {<< 0, 0, 0 >>} OBVIOUS
    <3> QED BY <3>1, BytesWide
  <2>2. BytesTyped' BY <1>1, <2>1 DEF Receive, BytesTyped
  <2>3. MembersTyped' BY <1>1, <1>c, <1>d DEF Receive, MembersTyped
  <2>4. LoopsTyped' /\ CursorsInv' /\ datareg' = datareg
    BY <1>1 DEF Receive, LoopsTyped, CursorsInv
  <2> QED BY <1>d, <1>e, <2>2, <2>3, <2>4
<1>2. CASE Outer
  <2>1. UNCHANGED << bytes, manufacturer_ID, memory_type, pmanufacturer, pdevice, pimpl,
                     result, datareg >>
    BY <1>2 DEF Outer, members
  <2>2. pqm \in 1 .. 3 /\ phase = "manufacturers" /\ pqd \in 0 .. 5
    BY <1>2, <1>d DEF Outer, TypeInv, CursorsInv, LoopsTyped
  <2>3. LoopsTyped' BY <1>2, <1>a, <2>2 DEF Outer, LoopsTyped
  <2>4. CursorsInv'
    BY <1>2, <1>a, <1>b, <2>2 DEF Outer, CursorsInv
  <2> QED BY <1>d, <1>e, <1>f, <1>g, <2>1, <2>3, <2>4
<1>3. CASE Inner
  <2>1. pqm \in 1 .. 2 /\ pqd \in 1 .. 5 /\ phase = "devices"
        /\ pqd <= Len(table[pqm].devices) + 1
    <3>1. phase = "devices" /\ pqm \in 1 .. 2 /\ pqd \in 1 .. Len(table[pqm].devices) + 1
      BY <1>3 DEF Inner, TypeInv, CursorsInv
    <3>2. CASE pqm = 1
      <4>1. Len(table[pqm].devices) = 2 BY <1>a, <3>2
      <4>2. pqd \in 1 .. 3 BY <3>1, <4>1
      <4> QED BY <3>1, <3>2, <4>1, <4>2
    <3>3. CASE pqm = 2
      <4>1. Len(table[pqm].devices) = 4 BY <1>a, <3>3
      <4>2. pqd \in 1 .. 5 BY <3>1, <4>1
      <4> QED BY <3>1, <3>3, <4>1, <4>2
    <3> QED BY <3>1, <3>2, <3>3
  <2>2. pqd <= Len(table[pqm].devices) => table[pqm].devices[pqd] \in AllEntries
    <3> SUFFICES ASSUME pqd <= Len(table[pqm].devices)
                 PROVE  table[pqm].devices[pqd] \in AllEntries
      OBVIOUS
    <3>1. pqd \in DOMAIN table[pqm].devices BY <1>a, <2>1
    <3> QED BY <1>a, <2>1, <3>1 DEF AllEntries, DevicesOf
  <2>3. table[pqm].name \in {"micron", "winbond"} BY <1>a, <2>1
  <2>4. MembersTyped' BY <1>3, <1>c, <1>d, <2>2, <2>3 DEF Inner, MembersTyped
  <2>5. \/ phase' = "manufacturers" /\ pqm' = pqm + 1 /\ pqd' = 0
        \/ phase' = "devices" /\ pqm' = pqm /\ pqd' = pqd + 1 /\ pqd <= Len(table[pqm].devices)
    BY <1>3, <2>1 DEF Inner
  <2>6. CursorsInv' /\ pqm' \in 0 .. 3 /\ pqd' \in 0 .. 5
    <3>1. CASE phase' = "manufacturers" BY <2>1, <2>5, <3>1 DEF CursorsInv
    <3>2. CASE phase' = "devices"
      <4>1. pqm' = pqm /\ pqd' = pqd + 1 /\ pqd <= Len(table[pqm].devices)
        BY <2>5, <3>2
      <4>2. Len(table[pqm].devices) \in Nat BY <1>a, <2>1
      <4>3. pqd + 1 \in 1 .. Len(table[pqm].devices) + 1 BY <2>1, <4>1, <4>2
      <4>4. pqd <= 4
        <5>1. CASE pqm = 1
          <6>1. Len(table[pqm].devices) = 2 BY <1>a, <5>1
          <6> QED BY <2>1, <4>1, <6>1
        <5>2. CASE pqm = 2
          <6>1. Len(table[pqm].devices) = 4 BY <1>a, <5>2
          <6> QED BY <2>1, <4>1, <6>1
        <5> QED BY <2>1, <5>1, <5>2
      <4> QED BY <1>b, <2>1, <3>2, <4>1, <4>3, <4>4 DEF CursorsInv
    <3> QED BY <2>5, <3>1, <3>2
  <2>7. UNCHANGED << bytes, manufacturer_ID, memory_type, datareg >>
    BY <1>3 DEF Inner
  <2>8. LoopsTyped' BY <2>5, <2>6 DEF LoopsTyped
  <2> QED BY <1>d, <1>e, <1>f, <2>4, <2>6, <2>7, <2>8
<1>4. CASE EnterQuadMode
  <2>1. datareg' \in 0 .. 255
    <3>1. CASE UNCHANGED datareg BY <1>d, <3>1
    <3>2. CASE ~UNCHANGED datareg
      <4>1. pdevice.dummy_cycles \in 0 .. 14
        <5>1. CASE pdevice = NoDevice BY <5>1 DEF NoDevice, Entry
        <5>2. CASE pdevice # NoDevice
          <6>1. pdevice \in AllEntries BY <1>d, <5>2 DEF MembersTyped
          <6>2. PICK m \in DOMAIN table : pdevice \in DevicesOf(m) BY <6>1 DEF AllEntries
          <6>3. PICK d \in DOMAIN table[m].devices : pdevice = table[m].devices[d]
            BY <6>2 DEF DevicesOf
          <6> QED BY <1>a, <6>3, EntryFacts
        <5> QED BY <5>1, <5>2
      <4>2. /\ WinbondByte(pdevice.dummy_cycles) \in 0 .. 255
            /\ MicronByte(pdevice.dummy_cycles) \in 0 .. 255
        BY <4>1 DEF WinbondByte, MicronByte
      <4> QED BY <1>4, <3>2, <4>2 DEF EnterQuadMode
    <3> QED BY <3>1, <3>2
  <2>2. UNCHANGED << bytes, manufacturer_ID, memory_type, pmanufacturer, pdevice, pimpl, pqm, pqd >>
    BY <1>4 DEF EnterQuadMode, members
  <2>3. phase' = "idle" /\ result' \in {"ok", "error", "type_not_found"}
    BY <1>4, <1>d DEF EnterQuadMode, MembersTyped
  <2>4. MembersTyped' BY <1>c, <1>d, <2>2, <2>3 DEF MembersTyped
  <2>5. LoopsTyped' /\ CursorsInv' BY <1>d, <2>2, <2>3 DEF LoopsTyped, CursorsInv
  <2> QED BY <1>e, <1>f, <2>1, <2>2, <2>4, <2>5
<1>5. CASE Uninitialize
  <2>1. /\ UNCHANGED << bytes, manufacturer_ID, memory_type, pmanufacturer, pdevice, result,
                        pqm, pqd, phase >>
        /\ pimpl' = Null /\ datareg' = 0
    BY <1>5 DEF Uninitialize
  <2>2. MembersTyped' BY <1>c, <1>d, <2>1 DEF MembersTyped
  <2> QED BY <1>e, <1>f, <1>h, <2>1, <2>2
<1>6. CASE UNCHANGED vars BY <1>6, <1>d, <1>e, <1>f, <1>g, <1>h DEF vars
<1> QED BY <1>1, <1>2, <1>3, <1>4, <1>5, <1>6 DEF Next

(* The variables have their types and widths, and the loops never read     *)
(* past the end of a table.                                                *)
THEOREM TablesTyped == Spec => []TypeOK
<1>1. TypeInv => TypeOK BY DEF TypeInv
<1> QED BY TypeInit, TypeNext, <1>1, PTL DEF Spec

-----------------------------------------------------------------------------
(* What the look-up finds                                                  *)

Decoded == manufacturer_ID = bytes[1] /\ memory_type = bytes[2] * 256 + bytes[3]

Matches(m, d) == /\ table[m].manufacturer_ID = bytes[1]
                 /\ table[m].devices[d].device_ID = bytes[2] * 256 + bytes[3]

(* The loops have passed entry d of manufacturer m.                        *)
Passed(m, d) == \/ phase \in {"idle", "quad"}
                \/ m < pqm
                \/ phase = "devices" /\ m = pqm /\ d < pqd

FoundAt(m) == /\ m \in Listed
              /\ pmanufacturer = table[m].name
              /\ pimpl = table[m].name \/ (phase = "idle" /\ pimpl = Null)
              /\ pdevice \in DevicesOf(m)
              /\ pdevice.device_ID = bytes[2] * 256 + bytes[3]

LookInv ==
  /\ Decoded
  /\ phase = "devices" => table[pqm].manufacturer_ID = manufacturer_ID
  /\ phase # "idle" => result \in {"ok", "type_not_found"}
  /\ phase = "quad" => result = "ok"
  /\ result = "ok" => \E m \in DOMAIN table : FoundAt(m)
  /\ result = "type_not_found" =>
       \A m \in DOMAIN table : \A d \in DOMAIN table[m].devices :
         Passed(m, d) => ~Matches(m, d)

LEMMA LookInit == Init => LookInv
<1> SUFFICES ASSUME Init PROVE LookInv
  OBVIOUS
<1>1. bytes[1] = 0 /\ bytes[2] = 0 /\ bytes[3] = 0 BY DEF Init
<1>2. Decoded BY <1>1 DEF Init, Decoded
<1> QED BY <1>2 DEF Init, LookInv

(* An entry the loop stands at is one of the table's.                      *)
LEMMA AtEntry ==
  ASSUME TypeInv, phase = "devices"
  PROVE  /\ pqm \in 1 .. 2 /\ pqm \in DOMAIN table /\ pqd \in Nat
         /\ DOMAIN table[pqm].devices = 1 .. Len(table[pqm].devices)
         /\ Len(table[pqm].devices) \in Nat
         /\ pqd <= Len(table[pqm].devices) => pqd \in DOMAIN table[pqm].devices
<1>1. table \in Tables /\ pqm \in 1 .. 2 /\ pqd \in 0 .. 5
      /\ pqd \in 1 .. Len(table[pqm].devices) + 1
  BY DEF TypeInv, TypeOK, CursorsInv
<1>2. /\ DOMAIN table[pqm].devices = 1 .. Len(table[pqm].devices)
      /\ Len(table[pqm].devices) \in Nat
  <2>1. CASE pqm = 1
    <3>1. DOMAIN table[1].devices = 1 .. 2 /\ Len(table[1].devices) = 2 BY <1>1, TableFacts
    <3> QED BY <2>1, <3>1
  <2>2. CASE pqm = 2
    <3>1. DOMAIN table[2].devices = 1 .. 4 /\ Len(table[2].devices) = 4 BY <1>1, TableFacts
    <3> QED BY <2>2, <3>1
  <2> QED BY <1>1, <2>1, <2>2
<1>3. pqm \in DOMAIN table BY <1>1, TableFacts
<1> QED BY <1>1, <1>2, <1>3

LEMMA LookNext == TypeInv /\ LookInv /\ [Next]_vars => LookInv'
<1> SUFFICES ASSUME TypeInv, LookInv, [Next]_vars PROVE LookInv'
  OBVIOUS
<1>a. /\ table \in Tables /\ Len(table) = 2 /\ DOMAIN table = 1 .. 2
      /\ pqm \in Nat /\ pqd \in Nat
  <2>1. table \in Tables BY DEF TypeInv, TypeOK
  <2>2. Len(table) = 2 BY <2>1, TableFacts
  <2> QED BY <2>1, <2>2, TableFacts DEF TypeInv, TypeOK
<1>b. ASSUME UNCHANGED << table, bytes, manufacturer_ID, memory_type >>
      PROVE  /\ Decoded'
             /\ \A m, d : Matches(m, d)' <=> Matches(m, d)
             /\ Listed' = Listed /\ \A m : DevicesOf(m)' = DevicesOf(m)
  <2>1. Decoded' BY <1>b DEF LookInv, Decoded
  <2>2. ASSUME NEW m, NEW d PROVE Matches(m, d)' <=> Matches(m, d) BY <1>b DEF Matches
  <2>3. Listed' = Listed BY <1>b DEF Listed
  <2>4. ASSUME NEW m PROVE DevicesOf(m)' = DevicesOf(m) BY <1>b DEF DevicesOf
  <2> QED BY <2>1, <2>2, <2>3, <2>4
<1>1. ASSUME NEW b \in Bytes, Receive(b) PROVE LookInv'
  <2>1. b \in Bytes \cup {<< 0, 0, 0 >>} OBVIOUS
  <2>2. (b[2] * 256 + b[3]) % 65536 = b[2] * 256 + b[3] BY <2>1, BytesWide
  <2>3. Decoded' BY <1>1, <2>2 DEF Receive, Decoded
  <2>4. /\ phase' = "manufacturers" /\ pqm' = 1 /\ result' = "type_not_found" /\ table' = table
    BY <1>1 DEF Receive
  <2>5. \A m \in DOMAIN table' : \A d : ~Passed(m, d)' BY <1>a, <2>4 DEF Passed
  <2> QED BY <2>3, <2>4, <2>5 DEF LookInv
<1>2. CASE Outer
  <2>1. /\ UNCHANGED << table, bytes, manufacturer_ID, memory_type, pmanufacturer, pdevice,
                        pimpl, result >>
        /\ phase = "manufacturers"
    BY <1>2 DEF Outer, members
  <2>2. phase' = "devices" =>
          pqm' = pqm /\ pqd' = 1 /\ table[pqm].manufacturer_ID = manufacturer_ID /\ pqm \in 1 .. 2
    BY <1>2, <1>a, <2>1 DEF Outer, TypeInv, CursorsInv
  <2>3. phase' = "manufacturers" =>
          pqm' = pqm + 1 /\ table[pqm].manufacturer_ID # manufacturer_ID /\ pqm \in 1 .. 2
    BY <1>2, <1>a, <2>1 DEF Outer, TypeInv, CursorsInv
  <2>4. phase' \in {"quad", "idle"} => pqm > 2 /\ (phase' = "quad" <=> result = "ok")
    BY <1>2, <1>a, <2>1 DEF Outer
  <2>5. phase' \in {"devices", "manufacturers", "quad", "idle"} BY <1>2 DEF Outer
  <2>6. ASSUME NEW m \in DOMAIN table, NEW d \in DOMAIN table[m].devices,
               Matches(m, d), Passed(m, d)'
        PROVE  Passed(m, d)
    <3>1. m \in 1 .. 2 /\ d \in Nat /\ d >= 1 BY <1>a, <2>6, EntryFacts
    <3>2. CASE phase' = "devices" BY <2>2, <2>6, <3>1, <3>2 DEF Passed
    <3>3. CASE phase' = "manufacturers"
      <4>1. m # pqm BY <2>3, <2>6, <3>3 DEF Matches, LookInv, Decoded
      <4> QED BY <1>a, <2>3, <2>6, <3>1, <3>3, <4>1 DEF Passed
    <3>4. CASE phase' \in {"quad", "idle"} BY <1>a, <2>4, <3>1, <3>4 DEF Passed
    <3> QED BY <2>5, <3>2, <3>3, <3>4
  <2>7. ASSUME result = "ok" PROVE \E m \in DOMAIN table : FoundAt(m)'
    <3>1. PICK m \in DOMAIN table : FoundAt(m) BY <2>7 DEF LookInv
    <3>2. FoundAt(m)' BY <1>b, <2>1, <3>1 DEF FoundAt
    <3> QED BY <3>2
  <2>8. result = "type_not_found" =>
          \A m \in DOMAIN table : \A d \in DOMAIN table[m].devices : Passed(m, d)' => ~Matches(m, d)
    BY <2>6 DEF LookInv
  <2>9. result \in {"ok", "type_not_found"} BY <2>1 DEF LookInv
  <2> QED BY <1>b, <2>1, <2>2, <2>4, <2>7, <2>8, <2>9 DEF LookInv
<1>3. CASE Inner
  <2>1. /\ UNCHANGED << table, bytes, manufacturer_ID, memory_type >> /\ phase = "devices"
        /\ result \in {"ok", "type_not_found"} /\ table[pqm].manufacturer_ID = manufacturer_ID
        /\ phase' \in {"devices", "manufacturers"}
    BY <1>3 DEF Inner, LookInv
  <2>2. /\ pqm \in 1 .. 2 /\ pqm \in DOMAIN table /\ pqd \in Nat
        /\ DOMAIN table[pqm].devices = 1 .. Len(table[pqm].devices)
        /\ Len(table[pqm].devices) \in Nat
        /\ pqd <= Len(table[pqm].devices) => pqd \in DOMAIN table[pqm].devices
    BY <2>1, AtEntry
  <2>3. CASE pqd <= Len(table[pqm].devices) /\ SameDevice(table[pqm].devices[pqd])
    <3>1. /\ pmanufacturer' = table[pqm].name /\ pdevice' = table[pqm].devices[pqd]
          /\ pimpl' = table[pqm].name /\ result' = "ok" /\ phase' = "manufacturers"
      BY <1>3, <2>2, <2>3 DEF Inner
    <3>2. Matches(pqm, pqd) BY <2>1, <2>3 DEF Matches, SameDevice, LookInv, Decoded
    <3>3. pqm \in Listed BY <2>2, <2>3, <3>2 DEF Listed, Matches
    <3>4. pdevice' \in DevicesOf(pqm) BY <2>2, <2>3, <3>1 DEF DevicesOf
    <3>5. table[pqm].devices[pqd].device_ID = bytes[2] * 256 + bytes[3] BY <3>2 DEF Matches
    <3>6. PICK m \in DOMAIN table : m = pqm BY <2>2
    <3>7. FoundAt(m)'
      <4>1. m \in Listed' BY <1>b, <2>1, <3>3, <3>6
      <4>2. pdevice' \in DevicesOf(m)' BY <1>b, <2>1, <3>4, <3>6
      <4> QED BY <2>1, <3>1, <3>5, <3>6, <4>1, <4>2 DEF FoundAt
    <3> QED BY <1>b, <2>1, <3>1, <3>6, <3>7 DEF LookInv
  <2>4. CASE ~(pqd <= Len(table[pqm].devices) /\ SameDevice(table[pqm].devices[pqd]))
    <3>1. /\ UNCHANGED << pmanufacturer, pdevice, pimpl, result >>
          /\ \/ phase' = "devices" /\ pqm' = pqm /\ pqd' = pqd + 1
             \/ phase' = "manufacturers" /\ pqm' = pqm + 1 /\ pqd > Len(table[pqm].devices)
      BY <1>3, <2>1, <2>4 DEF Inner
    <3>2. ASSUME NEW m \in DOMAIN table, NEW d \in DOMAIN table[m].devices, Matches(m, d),
                 Passed(m, d)'
          PROVE  Passed(m, d)
      <4>1. m \in 1 .. 2 /\ d \in Nat /\ d >= 1 /\ d <= Len(table[m].devices)
        BY <1>a, <3>2, EntryFacts
      <4>2. ~(m = pqm /\ d = pqd)
        BY <2>4, <3>2, <4>1 DEF Matches, SameDevice, LookInv, Decoded
      <4>3. CASE phase' = "devices"
        BY <2>1, <2>2, <3>1, <3>2, <4>1, <4>2, <4>3 DEF Passed
      <4>4. CASE phase' = "manufacturers"
        <5>1. m < pqm + 1 BY <3>1, <3>2, <4>4 DEF Passed
        <5>2. m < pqm \/ m = pqm BY <2>2, <4>1, <5>1
        <5>3. m = pqm => d < pqd BY <2>2, <3>1, <4>1, <4>4
        <5> QED BY <2>1, <5>2, <5>3 DEF Passed
      <4> QED BY <3>1, <4>3, <4>4
    <3>3. ASSUME result = "ok" PROVE \E m \in DOMAIN table : FoundAt(m)'
      <4>1. PICK m \in DOMAIN table : FoundAt(m) BY <3>3 DEF LookInv
      <4>2. FoundAt(m)' BY <1>b, <2>1, <3>1, <4>1 DEF FoundAt
      <4> QED BY <4>2
    <3>4. result = "type_not_found" =>
            \A m \in DOMAIN table : \A d \in DOMAIN table[m].devices :
              Passed(m, d)' => ~Matches(m, d)
      BY <3>2 DEF LookInv
    <3>5. phase' = "devices" => table'[pqm'].manufacturer_ID = manufacturer_ID' BY <2>1, <3>1
    <3> QED BY <1>b, <2>1, <3>1, <3>3, <3>4, <3>5 DEF LookInv
  <2> QED BY <2>3, <2>4
<1>4. CASE EnterQuadMode
  <2>1. /\ UNCHANGED << table, bytes, manufacturer_ID, memory_type, pmanufacturer, pdevice, pimpl >>
        /\ phase = "quad" /\ phase' = "idle" /\ result = "ok" /\ result' \in {"ok", "error"}
    BY <1>4 DEF EnterQuadMode, members, LookInv
  <2>2. PICK m \in DOMAIN table : FoundAt(m) BY <2>1 DEF LookInv
  <2>3. FoundAt(m)' BY <1>b, <2>1, <2>2 DEF FoundAt
  <2> QED BY <1>b, <2>1, <2>3 DEF LookInv
<1>5. CASE Uninitialize
  <2>1. /\ UNCHANGED << table, bytes, pqm, pqd, manufacturer_ID, memory_type, pmanufacturer,
                        pdevice, result >>
        /\ phase = "idle" /\ phase' = "idle" /\ pimpl' = Null
    BY <1>5 DEF Uninitialize
  <2>2. ASSUME result = "ok" PROVE \E m \in DOMAIN table : FoundAt(m)'
    <3>1. PICK m \in DOMAIN table : FoundAt(m) BY <2>2 DEF LookInv
    <3>2. FoundAt(m)' BY <1>b, <2>1, <3>1 DEF FoundAt
    <3> QED BY <3>2
  <2>3. \A m, d : Passed(m, d)' <=> Passed(m, d) BY <2>1 DEF Passed
  <2> QED BY <1>b, <2>1, <2>2, <2>3 DEF LookInv
<1>6. CASE UNCHANGED vars
  <2>1. ASSUME NEW m PROVE FoundAt(m)' <=> FoundAt(m) BY <1>6, <1>b DEF vars, FoundAt
  <2>2. \A m, d : Passed(m, d)' <=> Passed(m, d) BY <1>6 DEF vars, Passed
  <2> QED BY <1>6, <1>b, <2>1, <2>2 DEF vars, LookInv
<1> QED BY <1>1, <1>2, <1>3, <1>4, <1>5, <1>6 DEF Next

(* The look-up finds a device exactly when the tables list one with these  *)
(* bytes, and what it leaves in the members is all of that manufacturer.   *)
THEOREM LookupIsExact == Spec => []FoundIsListed
<1>1. TypeInv /\ LookInv => FoundIsListed
  <2> SUFFICES ASSUME TypeInv, LookInv,
                      phase = "quad" \/ (phase = "idle" /\ result # "error")
               PROVE  /\ result = "ok" <=> Listed # {}
                      /\ result = "ok" => \E m \in Listed :
                           /\ pmanufacturer = table[m].name
                           /\ pimpl \in {table[m].name, Null}
                           /\ pdevice \in DevicesOf(m)
                           /\ pdevice.device_ID = bytes[2] * 256 + bytes[3]
    BY DEF FoundIsListed
  <2>1. result \in {"ok", "type_not_found"} BY DEF TypeInv, TypeOK, LookInv
  <2>2. ASSUME result = "type_not_found" PROVE Listed = {}
    <3>1. \A m \in DOMAIN table : \A d \in DOMAIN table[m].devices : ~Matches(m, d)
      BY <2>2 DEF LookInv, Passed
    <3> QED BY <3>1 DEF Listed, Matches
  <2>3. ASSUME result = "ok" PROVE \E m \in Listed : FoundAt(m) BY <2>3 DEF LookInv, FoundAt
  <2> QED BY <2>1, <2>2, <2>3 DEF FoundAt
<1> QED BY TypeInit, TypeNext, LookInit, LookNext, <1>1, PTL DEF Spec

-----------------------------------------------------------------------------
(* What is computed from the entry found                                   *)

LEMMA LatencyInit == Init => LatenciesAgree
BY DEF Init, LatenciesAgree

LEMMA LatencyNext == TypeInv /\ LookInv /\ LatenciesAgree /\ [Next]_vars => LatenciesAgree'
<1> SUFFICES ASSUME TypeInv, LookInv, LatenciesAgree, [Next]_vars,
                    phase' = "idle", result' = "ok", pimpl' # Null
             PROVE  (ReadCycles = ChipCycles)'
  BY DEF LatenciesAgree
<1>a. /\ table \in Tables /\ DOMAIN table = 1 .. 2
      /\ table[1].name = "micron" /\ table[2].name = "winbond"
  <2>1. table \in Tables BY DEF TypeInv, TypeOK
  <2> QED BY <2>1, TableFacts
<1>b. ASSUME UNCHANGED << phase, pdevice, pimpl, datareg, result >> PROVE (ReadCycles = ChipCycles)'
  BY <1>b DEF LatenciesAgree, ReadCycles, ChipCycles, AltCycles
<1>1. ASSUME NEW b \in Bytes, Receive(b) PROVE FALSE BY <1>1 DEF Receive
<1>2. CASE Outer BY <1>2 DEF Outer
<1>3. CASE Inner
  <2>1. phase = "devices" /\ phase' \in {"devices", "manufacturers"} BY <1>3 DEF Inner
  <2> QED BY <2>1
<1>4. CASE EnterQuadMode
  <2>1. /\ result = "ok" /\ phase = "quad" /\ UNCHANGED << table, pdevice, pimpl >>
        /\ datareg' = IF pimpl = "winbond" THEN WinbondByte(pdevice.dummy_cycles)
                      ELSE MicronByte(pdevice.dummy_cycles)
    BY <1>4 DEF EnterQuadMode, members
  <2>2. PICK m \in DOMAIN table : FoundAt(m) BY <2>1 DEF LookInv
  <2>3. pimpl = table[m].name BY <2>1, <2>2 DEF FoundAt
  <2>4. PICK d \in DOMAIN table[m].devices : pdevice = table[m].devices[d]
    BY <2>2 DEF FoundAt, DevicesOf
  <2>5. CASE m = 1
    <3>1. pimpl = "micron" BY <1>a, <2>3, <2>5
    <3>2. MicronEntry(pdevice)
      <4>1. d \in 1 .. 2 BY <1>a, <2>4, <2>5, TableFacts
      <4> QED BY <1>a, <2>4, <2>5, <4>1, TableFacts
    <3>3. ASSUME NEW n \in 1 .. 14 PROVE MicronByte(n) \div 16 = n BY DEF MicronByte
    <3>4. ChipCycles' = pdevice.dummy_cycles
      BY <2>1, <3>1, <3>2, <3>3 DEF ChipCycles, MicronEntry
    <3>5. ReadCycles' = pdevice.dummy_cycles
      BY <2>1, <3>2 DEF ReadCycles, AltCycles, MicronEntry
    <3> QED BY <3>4, <3>5
  <2>6. CASE m = 2
    <3>1. pimpl = "winbond" BY <1>a, <2>3, <2>6
    <3>2. WinbondEntry(pdevice)
      <4>1. d \in 1 .. 4 BY <1>a, <2>4, <2>6, TableFacts
      <4> QED BY <1>a, <2>4, <2>6, <4>1, TableFacts
    <3>3. ASSUME NEW n \in {2, 4, 6, 8} PROVE (((WinbondByte(n) \div 16) % 4) + 1) * 2 = n
      BY DEF WinbondByte
    <3>4. ChipCycles' = pdevice.dummy_cycles
      BY <2>1, <3>1, <3>2, <3>3 DEF ChipCycles, WinbondEntry
    <3>5. ReadCycles' = pdevice.dummy_cycles
      BY <2>1, <3>2 DEF ReadCycles, AltCycles, WinbondEntry
    <3> QED BY <3>4, <3>5
  <2> QED BY <1>a, <2>5, <2>6
<1>5. CASE Uninitialize BY <1>5 DEF Uninitialize
<1>6. CASE UNCHANGED vars BY <1>6, <1>b DEF vars
<1> QED BY <1>1, <1>2, <1>3, <1>4, <1>5, <1>6 DEF Next

(* For every number of dummy cycles the tables may hold, the latency the   *)
(* chip is given is the one the controller reads with.                     *)
THEOREM LatencyIsAgreed == Spec => []LatenciesAgree
BY TypeInit, TypeNext, LookInit, LookNext, LatencyInit, LatencyNext, PTL DEF Spec

(* The density byte of every listed ID gives a number of whole sectors.    *)
LEMMA Densities ==
  ASSUME NEW m, NEW id \in IdsOf(m)
  PROVE  id % 256 \in {22, 23, 24}
BY DEF IdsOf

(* The sectors of every listed device make it up, exactly, and 24 address  *)
(* bits reach all of it.                                                   *)
THEOREM SectorsFit == Spec => []AddressableExactly
<1>1. TypeInv => AddressableExactly
  <2> SUFFICES ASSUME TypeInv, pdevice # NoDevice
               PROVE  /\ get_sector_count > 0
                      /\ \A s \in {0, 1, get_sector_count - 1} :
                           SectorErased(SectorAddress(s)) = Sector(s)
                      /\ SectorAddress(get_sector_count - 1) + get_sector_size = Capacity
                      /\ Capacity <= 2 ^ 24
    BY DEF AddressableExactly
  <2>1. table \in Tables /\ pdevice \in AllEntries BY DEF TypeInv, TypeOK
  <2>2. PICK m \in DOMAIN table : pdevice \in DevicesOf(m) BY <2>1 DEF AllEntries
  <2>3. PICK d \in DOMAIN table[m].devices : pdevice = table[m].devices[d] BY <2>2 DEF DevicesOf
  <2>4. pdevice.sector_size = 4096 /\ pdevice.device_ID \in IdsOf(m) BY <2>1, <2>3, EntryFacts
  <2>5. get_sector_size = 4096 BY <2>4 DEF get_sector_size
  <2>6. PICK n \in {1024, 2048, 4096} : get_sector_count = n /\ Capacity = n * 4096
    <3>1. pdevice.device_ID % 256 \in {22, 23, 24} BY <2>4, Densities
    <3>2. 2 ^ 22 = 1024 * 4096 /\ 2 ^ 23 = 2048 * 4096 /\ 2 ^ 24 = 4096 * 4096 OBVIOUS
    <3>3. get_sector_count = Capacity \div 4096 BY <2>4 DEF get_sector_count, SectorCount, Capacity
    <3>4. Capacity \in {2 ^ 22, 2 ^ 23, 2 ^ 24}
      <4>1. ASSUME NEW k, pdevice.device_ID % 256 = k PROVE Capacity = 2 ^ k
        BY <4>1, Zenon DEF Capacity
      <4> QED BY <3>1, <4>1
    <3> QED BY <3>2, <3>3, <3>4
  <2>7. ASSUME NEW s \in Nat PROVE SectorErased(SectorAddress(s)) = Sector(s)
    <3>1. SectorAddress(s) = s * 4096 BY <2>4 DEF SectorAddress
    <3>2. (s * 4096) % 4096 = 0 OBVIOUS
    <3>3. s * 4096 - 0 = s * 4096 /\ s * 4096 + 4095 = (s + 1) * 4096 - 1 OBVIOUS
    <3> QED BY <2>5, <3>1, <3>2, <3>3 DEF SectorErased, Sector
  <2>8. SectorAddress(n - 1) + 4096 = n * 4096 BY <2>4, <2>6 DEF SectorAddress
  <2>9. n \in Nat /\ n - 1 \in Nat /\ n * 4096 <= 16777216 /\ 2 ^ 24 = 16777216 BY <2>6
  <2> QED BY <2>5, <2>6, <2>7, <2>8, <2>9
<1> QED BY TypeInit, TypeNext, <1>1, PTL DEF Spec

================================================================================
