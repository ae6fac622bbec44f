----------------------------- MODULE DeviceTables -----------------------------
(***************************************************************************)
(* The tables of known devices, the loops of read_JEDEC_ID that look three *)
(* ID bytes up in them, and what the driver computes from the entry it     *)
(* found: the read latency it writes to the chip, the one it reads with,   *)
(* and the size of the device.                                             *)
(***************************************************************************)
EXTENDS Integers, Sequences

CONSTANTS
  MicronDummies,   \* dummy cycles a Micron entry may have ("between 1 and 14")
  WinbondDummies,  \* dummy cycles a Winbond entry may have ("2, 4, 6 or 8")
  FirstBytes,      \* bound: manufacturer IDs the bus may show
  SecondBytes,     \* bound: first and ...
  ThirdBytes       \* bound: ... second byte of the device ID it may show

ASSUME DummiesAssumption == /\ MicronDummies \subseteq 1 .. 14
                            /\ WinbondDummies \subseteq {2, 4, 6, 8}
ASSUME BytesAssumption == /\ FirstBytes \subseteq 0 .. 255
                          /\ SecondBytes \subseteq 0 .. 255
                          /\ ThirdBytes \subseteq 0 .. 255

(* An entry: alt is alt_bytes_cycles; alternate bytes, when there are any, *)
(* are 8 bits on four lines.                                               *)
Entry(id, dummy, alt) ==
  [device_ID |-> id, sector_size |-> 4096, dummy_cycles |-> dummy,
   alt_bytes_cycles |-> alt, alt_bytes |-> alt # 0]

MicronDevices(dummy)  == << Entry(\hBA18, dummy, 0), Entry(\hBB18, dummy, 0) >>
WinbondDevices(dummy) == << Entry(\h6016, dummy, 2), Entry(\h6017, dummy, 2),
                            Entry(\h6018, dummy, 2), Entry(\h7018, dummy, 2) >>

Manufacturer(id, name, devices) ==
  [manufacturer_ID |-> id, name |-> name, devices |-> devices]
Manufacturers(dm, dw) ==
  << Manufacturer(\h20, "micron", MicronDevices(dm)),
     Manufacturer(\hEF, "winbond", WinbondDevices(dw)) >>

Null == "null"
NoDevice == Entry(0, 0, 0)  \* pdevice_ is null

VARIABLES
  table,         \* qspi_manufacturers
  bytes,         \* the three ID bytes received
  pqm, pqd,      \* the loop's entry of the table, and of its devices
  phase,         \* "idle", "manufacturers", "devices" or "quad"
  manufacturer_ID, memory_type,
  pmanufacturer, \* members: what the last successful look-up found,
  pdevice,       \* or null
  pimpl,
  result,
  datareg        \* the latency byte enter_quad_mode wrote to the chip

vars == << table, bytes, pqm, pqd, phase, manufacturer_ID, memory_type,
           pmanufacturer, pdevice, pimpl, result, datareg >>
members == << manufacturer_ID, memory_type, pmanufacturer, pdevice, pimpl >>

Bytes == FirstBytes \X SecondBytes \X ThirdBytes
Tables == {Manufacturers(dm, dw) : dm \in MicronDummies, dw \in WinbondDummies}
DevicesOf(m) == {table[m].devices[d] : d \in DOMAIN table[m].devices}
AllEntries == UNION {DevicesOf(m) : m \in DOMAIN table}

Init ==
  /\ table \in Tables
  /\ bytes = << 0, 0, 0 >> /\ pqm = 0 /\ pqd = 0 /\ phase = "idle"
  /\ manufacturer_ID = 0 /\ memory_type = 0
  /\ pmanufacturer = Null /\ pdevice = NoDevice /\ pimpl = Null
  /\ result = "error" /\ datareg = 0

(* read_JEDEC_ID received the bytes b.                                     *)
Receive(b) ==
  /\ phase = "idle"
  /\ bytes' = b
  /\ manufacturer_ID' = b[1]
  /\ memory_type' = (b[2] * 256 + b[3]) % 65536
  /\ result' = "type_not_found"
  /\ phase' = "manufacturers" /\ pqm' = 1 /\ pqd' = 0
  /\ UNCHANGED << table, pmanufacturer, pdevice, pimpl, datareg >>

(* The loop over manufacturers; a manufacturer found, the loop over its    *)
(* devices. Finding a device ends the inner loop only.                     *)
Outer ==
  /\ phase = "manufacturers"
  /\ \/ /\ pqm <= Len(table)
        /\ IF table[pqm].manufacturer_ID = manufacturer_ID
           THEN phase' = "devices" /\ pqd' = 1 /\ UNCHANGED pqm
           ELSE pqm' = pqm + 1 /\ UNCHANGED << phase, pqd >>
     \/ /\ pqm > Len(table)
        /\ phase' = (IF result = "ok" THEN "quad" ELSE "idle")
        /\ pqm' = 0 /\ UNCHANGED pqd
  /\ UNCHANGED << table, bytes, members, result, datareg >>

(* (Faulty: only one byte of the device ID is compared.)                   *)
SameDeviceLow(d) == d.device_ID % 256 = memory_type % 256
SameDevice(d) == d.device_ID = memory_type

Inner ==
  /\ phase = "devices"
  /\ LET m == table[pqm] IN
     \/ /\ pqd <= Len(m.devices) /\ SameDevice(m.devices[pqd])
        /\ pmanufacturer' = m.name
        /\ pdevice' = m.devices[pqd]
        /\ pimpl' = m.name
        /\ result' = "ok"
        /\ phase' = "manufacturers" /\ pqm' = pqm + 1 /\ pqd' = 0
     \/ /\ pqd <= Len(m.devices) /\ ~SameDevice(m.devices[pqd])
        /\ pqd' = pqd + 1
        /\ UNCHANGED << pmanufacturer, pdevice, pimpl, result, phase, pqm >>
     \/ /\ pqd > Len(m.devices)
        /\ phase' = "manufacturers" /\ pqm' = pqm + 1 /\ pqd' = 0
        /\ UNCHANGED << pmanufacturer, pdevice, pimpl, result >>
  /\ UNCHANGED << table, bytes, manufacturer_ID, memory_type, datareg >>

(* enter_quad_mode computes the latency byte, 8 bits wide. (Faulty: one    *)
(* step of two cycles too many; shifted once more, into a wider type.)     *)
WinbondByteLate(d) == ((d \div 2) * 16) % 256
WinbondByte(d) == (((d \div 2) - 1) * 16) % 256
MicronByteWide(d) == d * 32 + \hB
MicronByte(d) == ((d * 16) % 256) + \hB

EnterQuadMode ==
  /\ phase = "quad"
  /\ phase' = "idle"
  /\ \/ /\ datareg' = IF pimpl = "winbond" THEN WinbondByte(pdevice.dummy_cycles)
                      ELSE MicronByte(pdevice.dummy_cycles)
        /\ UNCHANGED result
     \/ result' = "error" /\ UNCHANGED datareg
  /\ UNCHANGED << table, bytes, pqm, pqd, members >>

(* uninitialize drops the helper object and keeps the rest; reset_chip     *)
(* takes the latency back to the chip's default.                           *)
Uninitialize ==
  /\ phase = "idle"
  /\ pimpl' = Null
  /\ datareg' = 0
  /\ UNCHANGED << table, bytes, pqm, pqd, phase, manufacturer_ID, memory_type,
                  pmanufacturer, pdevice, result >>

Next ==
  \/ \E b \in Bytes : Receive(b)
  \/ Outer
  \/ Inner
  \/ EnterQuadMode
  \/ Uninitialize

Spec == Init /\ [][Next]_vars

-----------------------------------------------------------------------------
(* What is computed from the entry                                         *)

(* The clocks between address and data of FAST_READ_QUAD_IN_OUT: what read *)
(* and enter_mem_mapped tell the controller, ...                           *)
AltCycles == IF pdevice.alt_bytes THEN 8 \div 4 ELSE 0
ReadCycles == pdevice.dummy_cycles - pdevice.alt_bytes_cycles + AltCycles

(* ... and what the chip inserts after its latency byte was written.       *)
ChipCycles == IF pimpl = "winbond" THEN (((datareg \div 16) % 4) + 1) * 2
              ELSE datareg \div 16

(* get_sector_size and get_sector_count. (Faulty: twice as many.)          *)
get_sector_size == IF pdevice = NoDevice THEN 0 ELSE pdevice.sector_size
SectorCountDouble(d) == (2 * (2 ^ (d.device_ID % 256))) \div d.sector_size
SectorCount(d) == (2 ^ (d.device_ID % 256)) \div d.sector_size
get_sector_count == IF pdevice = NoDevice THEN 0 ELSE SectorCount(pdevice)

(* Where read_sector, write_sector and erase_sector go, and what the       *)
(* command of erase_sector erases.                                         *)
SectorAddress(sector) == sector * pdevice.sector_size
SectorErased(a) == a - (a % 4096) .. a - (a % 4096) + 4095

-----------------------------------------------------------------------------
TypeOK ==
  /\ table \in Tables
  /\ bytes \in Bytes \cup {<< 0, 0, 0 >>}
  /\ pqm \in 0 .. Len(table) + 1 /\ pqd \in 0 .. 5
  /\ phase \in {"idle", "manufacturers", "devices", "quad"}
  /\ manufacturer_ID \in 0 .. 255 /\ memory_type \in Nat /\ memory_type < 65536
  /\ pmanufacturer \in {"micron", "winbond", Null}
  /\ pimpl \in {"micron", "winbond", Null}
  /\ pdevice \in AllEntries \cup {NoDevice}
  /\ result \in {"ok", "error", "type_not_found"}
  /\ datareg \in 0 .. 255

(* The look-up finds a device exactly when the table lists it, and the     *)
(* name, the entry and the helper object are all of that manufacturer;     *)
(* what an earlier look-up left does not get mixed in.                     *)
Listed == {m \in DOMAIN table : \E d \in DOMAIN table[m].devices :
             /\ table[m].manufacturer_ID = bytes[1]
             /\ table[m].devices[d].device_ID = bytes[2] * 256 + bytes[3]}
FoundIsListed ==
  phase = "quad" \/ (phase = "idle" /\ result # "error") =>
    /\ result = "ok" <=> Listed # {}
    /\ result = "ok" => \E m \in Listed :
         /\ pmanufacturer = table[m].name
         /\ pimpl \in {table[m].name, Null}
         /\ pdevice \in DevicesOf(m)
         /\ pdevice.device_ID = bytes[2] * 256 + bytes[3]

(* After enter_quad_mode chip and controller agree on the clocks of a      *)
(* read, for every number of dummy cycles the table's comments allow.      *)
LatenciesAgree ==
  phase = "idle" /\ result = "ok" /\ pimpl # Null => ReadCycles = ChipCycles

(* Of a chip: its size, by the density its ID gives; and its sectors.      *)
Capacity  == 2 ^ (pdevice.device_ID % 256)
Sector(s) == s * get_sector_size .. (s + 1) * get_sector_size - 1

(* The sectors make up the device: the commands' 24-bit addresses reach    *)
(* all of it, erase_sector erases the sector it is given and no other, and *)
(* the last sector ends where the device does.                             *)
AddressableExactly ==
  pdevice # NoDevice =>
    /\ get_sector_count > 0
    /\ \A s \in {0, 1, get_sector_count - 1} :
         SectorErased(SectorAddress(s)) = Sector(s)
    /\ SectorAddress(get_sector_count - 1) + get_sector_size = Capacity
    /\ Capacity <= 2 ^ 24

==============================================================================
