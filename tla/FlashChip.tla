------------------------------ MODULE FlashChip ------------------------------
(***************************************************************************)
(* The serial NOR flash chip at the other end of the QSPI bus, as far as   *)
(* the driver's command sequences depend on it.  The chip is not part of   *)
(* the repository: its state is what the sequences of qspi-flash.cpp,      *)
(* qspi-winbond.cpp and qspi-micron.cpp set and rely on.                   *)
(*                                                                         *)
(*   mode    "spi": one-line commands; "qpi": four-line commands only      *)
(*   awake   FALSE in deep power-down                                      *)
(*   wel     write enable latch;  vsr  volatile status write enable latch  *)
(*   qe      quad enable bit;     rsten  software reset enabled            *)
(*   tuned   dummy cycles set to the number the driver reads with          *)
(*   job     the program or erase the chip is busy with: "idle" when none, *)
(*           "mine" when the driver function now running started it,       *)
(*           "stale" when an earlier one did                               *)
(***************************************************************************)

Families == {"winbond", "micron"}

Jobs == {"idle", "mine", "stale"}

Chips == [family : Families, mode : {"spi", "qpi"}, awake : BOOLEAN,
          wel : BOOLEAN, vsr : BOOLEAN, qe : BOOLEAN, rsten : BOOLEAN,
          tuned : BOOLEAN, job : Jobs]

(* The chip after power-on, and after a software reset.                    *)
PowerOn(family) ==
  [family |-> family, mode |-> "spi", awake |-> TRUE, wel |-> FALSE,
   vsr |-> FALSE, qe |-> FALSE, rsten |-> FALSE, tuned |-> FALSE,
   job |-> "idle"]

(* A command is understood on as many lines as the mode has; a sleeping    *)
(* chip hears only the release command, a busy one only the status read    *)
(* and the reset pair.                                                     *)
Accepts(c, instr, lines) ==
  /\ lines = (IF c.mode = "spi" THEN 1 ELSE 4)
  /\ c.awake \/ instr = "RELEASE_POWER_DOWN"
  /\ \/ c.job = "idle"
     \/ instr \in {"READ_STATUS_REGISTER", "RESET_ENABLE", "RESET_DEVICE"}

(* What an accepted command does. Any command but the second of the reset  *)
(* pair cancels an enabled reset.                                          *)
WritesRegister == {"WRITE_VOLATILE_STATUS_REGISTER", "WRITE_ENH_VOLATILE_STATUS_REGISTER"}
StartsJob      == {"PAGE_PROGRAM", "ERASE"}

Obey(c, instr) ==
  IF instr = "RESET_DEVICE" /\ c.rsten THEN PowerOn(c.family) ELSE
  [family |-> c.family,
   mode   |-> IF \/ instr = "ENTER_QUAD_MODE" /\ c.qe
                 \/ instr = "WRITE_ENH_VOLATILE_STATUS_REGISTER" /\ c.wel
              THEN "qpi" ELSE c.mode,
   awake  |-> instr # "POWER_DOWN" /\ (c.awake \/ instr = "RELEASE_POWER_DOWN"),
   wel    |-> \/ instr = "WRITE_ENABLE"
              \/ c.wel /\ instr \notin WritesRegister \cup StartsJob,
   vsr    |-> \/ instr = "VOLATILE_SR_WRITE_ENABLE"
              \/ c.vsr /\ instr # "WRITE_STATUS_REGISTER_2",
   qe     |-> c.qe \/ (instr = "WRITE_STATUS_REGISTER_2" /\ c.vsr),
   rsten  |-> instr = "RESET_ENABLE",
   tuned  |-> \/ c.tuned
              \/ instr = "SET_READ_PARAMETERS"
              \/ instr = "WRITE_VOLATILE_STATUS_REGISTER" /\ c.wel,
   job    |-> IF instr \in StartsJob /\ c.wel THEN "mine" ELSE c.job]

(* The chip after a command was clocked out on the bus.                    *)
After(c, instr, lines) == IF Accepts(c, instr, lines) THEN Obey(c, instr) ELSE c

(* The function that started the chip's job has returned.                  *)
Disown(c) == IF c.job = "mine" THEN [c EXCEPT !.job = "stale"] ELSE c

(* A chip that is busy or asleep is in quad mode: commands on four lines   *)
(* can reset it.                                                           *)
Recoverable(c) == c.job # "idle" \/ ~c.awake => c.mode = "qpi"

(* In quad mode, awake, read latency set, not busy: what read, program and *)
(* erase need.                                                             *)
Usable(c) == c.mode = "qpi" /\ c.awake /\ c.tuned /\ c.job = "idle"

==============================================================================
