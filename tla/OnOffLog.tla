------------------------------ MODULE OnOffLog ------------------------------
(***************************************************************************)
(* The log of relay states the firmware keeps in one flash sector          *)
(* (src/src/app_onoff.c: init_default_status_onoff, status_onoff_restore,  *)
(* status_onoff_save; the region is BEGIN_STATUS_ONOFF_DATA ..             *)
(* END_STATUS_ONOFF_DATA of app_cfg.h, exactly one sector).                *)
(*                                                                         *)
(* The sector is an array of fixed-size slots.  Programming flash can only *)
(* clear bits, erasing sets every bit of the sector.  A slot is therefore  *)
(* modelled by the set of bits cleared in it: {} is an erased slot, and    *)
(* programming takes the union with the image of the record, the bits that *)
(* are 0 in its three bytes.                                               *)
(*                                                                         *)
(* The restore loops test the id and an additive checksum, nothing more:   *)
(* they accept the record of every status byte, also of those that no save *)
(* writes.  A record that was cut while being programmed can be such a     *)
(* one: 65 00 65 (off) without bit 7 of its last two bytes is 65 80 E5.    *)
(*                                                                         *)
(* A power cut may fall between any two flash operations and inside each   *)
(* of them: a cut program operation leaves any subset of its bits cleared, *)
(* a cut erase any subset of the old bits still cleared.                   *)
(***************************************************************************)
EXTENDS Integers

CONSTANTS
  NSlots,   \* number of slots in the region
  Status,   \* the status bytes a record can be read to hold
  Bits      \* the bits of a record that may be programmed or not

ID_SETTING == 101          \* 0x65
ZCL_ONOFF_STATUS_OFF == 0
ZCL_ONOFF_STATUS_ON  == 1

ASSUME NSlotsAssumption == NSlots \in Nat \ {0}

ASSUME StatusAssumption ==
  /\ {ZCL_ONOFF_STATUS_OFF, ZCL_ONOFF_STATUS_ON} \subseteq Status
  /\ Status \subseteq 0 .. 255

(* status_onoff_t with its checksum, the sum of the bytes before it.       *)
Record(v) == <<ID_SETTING, v, (ID_SETTING + v) % 256>>

(* The bits the record of v clears, a bit being <<byte, place>>.           *)
Image ==
  [v \in Status |-> {b \in Bits : (Record(v)[b[1]] \div 2^b[2]) % 2 = 0}]

(* Every record clears something, no two clear the same, and none but that *)
(* of OFF clears all that OFF does.  This holds of the whole records, and  *)
(* asks of Bits to show it.                                                *)
ImagesDiffer ==
  /\ \A v \in Status : Image[v] # {}
  /\ \A v, w \in Status : Image[v] = Image[w] => v = w
  /\ \A v \in Status :
       Image[ZCL_ONOFF_STATUS_OFF] \subseteq Image[v] => v = ZCL_ONOFF_STATUS_OFF

ASSUME BitsAssumption == Bits \subseteq (1 .. 3) \X (0 .. 7) /\ ImagesDiffer

VARIABLES
  cells,   \* the sector: bits cleared in each slot
  addr,    \* flash_addr_start, as a slot number
  ram,     \* status_onoff.status_onoff[0]
  pc,      \* "off", "run", or the flash operation in progress
  stored,  \* history: the status last written completely or read back
  torn     \* history: an operation was cut since the sector was last erased

vars == <<cells, addr, ram, pc, stored, torn>>

Slot == 0 .. NSlots - 1

TypeOK ==
  /\ cells \in [Slot -> SUBSET Bits]
  /\ addr \in Slot
  /\ ram \in Status
  /\ pc \in {"off", "run", "erase", "program"}
  /\ stored \in Status
  /\ torn \in BOOLEAN

-----------------------------------------------------------------------------
(* Reading the log back: the two loops of status_onoff_restore.            *)

(* The id matches and the checksum is that of the status byte. *)
Valid(c) == \E v \in Status : c = Image[v]

Decode(c) == CHOOSE v \in Status : c = Image[v]

(* Mutant of IsTail: the second loop is missing, the first record counts.   *)
IsTailFirst(c, l) == Valid(c[l]) /\ \A s \in 0 .. l - 1 : ~Valid(c[s])

(* Slot l is where the second loop stops in sector c: the first loop       *)
(* breaks at the first valid slot f, the second one follows the valid      *)
(* slots from there.                                                       *)
IsTail(c, l) ==
  /\ \E f \in 0 .. l :
       /\ \A s \in f .. l : Valid(c[s])
       /\ \A s \in 0 .. f - 1 : ~Valid(c[s])
  /\ l + 1 \in Slot => ~Valid(c[l + 1])

Blank(c) == \A s \in Slot : ~Valid(c[s])

(* What a restart would restore from sector c. *)
Recovered(c) ==
  IF \E l \in Slot : IsTail(c, l)
  THEN Decode(c[CHOOSE l \in Slot : IsTail(c, l)])
  ELSE ZCL_ONOFF_STATUS_OFF

-----------------------------------------------------------------------------
(* A new device: the region is erased and the device is not powered. *)
Init ==
  /\ cells = [s \in Slot |-> {}]
  /\ addr = 0
  /\ ram = ZCL_ONOFF_STATUS_OFF
  /\ pc = "off"
  /\ stored = ZCL_ONOFF_STATUS_OFF
  /\ torn = FALSE

(* Mutant of BootFound: flash_addr_start is left on the free slot after it. *)
BootFoundPast ==
  /\ pc = "off"
  /\ \E l \in Slot :
       /\ IsTail(cells, l)
       /\ addr' = IF l + 1 \in Slot THEN l + 1 ELSE l
       /\ ram' = Decode(cells[l])
  /\ stored' = ram'
  /\ pc' = "run"
  /\ UNCHANGED <<cells, torn>>

(* A valid record is found: flash_addr_start is the last one of its run. *)
BootFound ==
  /\ pc = "off"
  /\ \E l \in Slot :
       /\ IsTail(cells, l)
       /\ addr' = l
       /\ ram' = Decode(cells[l])
  /\ stored' = ram'
  /\ pc' = "run"
  /\ UNCHANGED <<cells, torn>>

(* None is found: init_default_status_onoff erases the sector and writes   *)
(* the default record at its start.                                        *)
BootDefault ==
  /\ pc = "off"
  /\ Blank(cells)
  /\ addr' = 0
  /\ ram' = ZCL_ONOFF_STATUS_OFF
  /\ stored' = ZCL_ONOFF_STATUS_OFF
  /\ pc' = "erase"
  /\ UNCHANGED <<cells, torn>>

(* cmdOnOff_on, _off, _toggle change the state in RAM (and save it or not). *)
Change(v) ==
  /\ pc = "run"
  /\ ram' = v
  /\ UNCHANGED <<cells, addr, pc, stored, torn>>

(* Mutant of NextSlot: no return to the start of the region. *)
NextSlotNoWrap(a) == a + 1

(* The slot after a, back to the start at the end of the region. *)
NextSlot(a) == IF a + 1 = NSlots THEN 0 ELSE a + 1

(* Mutant of Save: the sector is not erased when the log wraps. *)
SaveNoErase ==
  /\ pc = "run"
  /\ addr' = NextSlot(addr)
  /\ pc' = "program"
  /\ UNCHANGED <<cells, ram, stored, torn>>

(* status_onoff_save: advance, erase when the slot starts the sector. *)
Save ==
  /\ pc = "run"
  /\ addr' = NextSlot(addr)
  /\ pc' = IF addr' = 0 THEN "erase" ELSE "program"
  /\ UNCHANGED <<cells, ram, stored, torn>>

(* flash_erase of the sector. *)
Erase ==
  /\ pc = "erase"
  /\ cells' = [s \in Slot |-> {}]
  /\ pc' = "program"
  /\ torn' = FALSE
  /\ UNCHANGED <<addr, ram, stored>>

(* Mutant of Program: the record is built before the state changes. *)
ProgramStale ==
  /\ pc = "program"
  /\ cells' = [cells EXCEPT ![addr] = @ \cup Image[stored]]
  /\ stored' = ram
  /\ pc' = "run"
  /\ UNCHANGED <<addr, ram, torn>>

(* flash_write of the record at flash_addr_start. *)
Program ==
  /\ pc = "program"
  /\ cells' = [cells EXCEPT ![addr] = @ \cup Image[ram]]
  /\ stored' = ram
  /\ pc' = "run"
  /\ UNCHANGED <<addr, ram, torn>>

(* The supply fails while no flash operation is in progress ... *)
Cut ==
  /\ pc = "run"
  /\ pc' = "off"
  /\ UNCHANGED <<cells, addr, ram, stored, torn>>

(* ... while the record is being programmed ... *)
CutProgram ==
  /\ pc = "program"
  /\ \E S \in SUBSET Image[ram] :
       /\ cells' = [cells EXCEPT ![addr] = @ \cup S]
       /\ torn' = (torn \/ S \notin {{}, Image[ram]})
       /\ stored' = IF S = Image[ram] THEN ram ELSE stored
  /\ pc' = "off"
  /\ UNCHANGED <<addr, ram>>

(* ... while the sector is being erased. *)
CutErase ==
  /\ pc = "erase"
  /\ \E left \in SUBSET {x \in Slot \X Bits : x[2] \in cells[x[1]]} :
       cells' = [s \in Slot |-> {b \in Bits : <<s, b>> \in left}]
  /\ torn' = TRUE
  /\ pc' = "off"
  /\ UNCHANGED <<addr, ram, stored>>

Next ==
  \/ BootFound
  \/ BootDefault
  \/ \E v \in {ZCL_ONOFF_STATUS_OFF, ZCL_ONOFF_STATUS_ON} : Change(v)
  \/ Save
  \/ Erase
  \/ Program
  \/ Cut
  \/ CutProgram
  \/ CutErase

Spec == Init /\ [][Next]_vars

(* A flash operation that has started runs to its end while power lasts:   *)
(* the flash driver waits for it with interrupts disabled.                 *)
FairSpec == Spec /\ WF_vars(Erase) /\ WF_vars(Program)

-----------------------------------------------------------------------------
(* Properties *)

(* The records of sector c fill it from slot 0 to slot k with no gap, and   *)
(* every later slot is erased.                                             *)
Filled(c, k) ==
  \A s \in Slot : IF s <= k THEN Valid(c[s]) ELSE c[s] = {}

(* While no flash operation has been cut since the last erase, a save never *)
(* programs a slot that is not erased, and never leaves a gap before it    *)
(* (status_onoff_save erases at the sector start, and nowhere else).       *)
LogSound ==
  /\ pc = "erase" => addr = 0
  /\ ~torn =>
       /\ pc = "run" => Filled(cells, addr)
       /\ pc = "program" => Filled(cells, addr - 1)
       /\ pc = "off" => \E k \in {addr - 1, addr} : Filled(cells, k)

(* Once a save is complete, a restart at any later moment restores exactly *)
(* the state saved (status_onoff_restore finds the record                  *)
(* status_onoff_save wrote), unless an operation was cut since the erase.  *)
SavedIsRestored ==
  pc = "run" /\ ~torn => Recovered(cells) = stored

(* A power cut while a record is programmed leaves the log at the state it *)
(* had (off, if the sector was just erased) or at the new one, or else at  *)
(* one that nobody saved: the checksum of status_onoff_restore accepts     *)
(* some half-programmed records.  That one always reads as on: a relay     *)
(* that was on, and is saved as on, is never restored as off.              *)
CutSaveErrsToOn ==
  [][CutProgram /\ ~torn =>
       LET old == IF addr = 0 THEN ZCL_ONOFF_STATUS_OFF ELSE stored
       IN  \/ Recovered(cells') \in {old, ram}
           \/ Recovered(cells') # ZCL_ONOFF_STATUS_OFF /\ torn']_vars

(* The states whose records can be what is left of that of v when its      *)
(* programming is cut.                                                     *)
Remains == [v \in Status |-> {w \in Status : Image[w] \subseteq Image[v]}]

(* The log implements the abstract durable state: what a restart would read *)
(* back from the sector is the durable state, and an operation that was cut *)
(* voids the promise until the sector is erased.                           *)
PhaseOf ==
  [off |-> "off", run |-> "idle", program |-> "saving", erase |-> "reclaiming"]

Durable == INSTANCE DurableStatus WITH
  Default <- ZCL_ONOFF_STATUS_OFF,
  Remains <- Remains,
  durable <- Recovered(cells),
  phase   <- PhaseOf[pc],
  damaged <- torn

ImplementsDurableStatus == Durable!Spec

(* Damage left by a cut operation is healed: if the device then stays      *)
(* powered and keeps saving, the log wraps and its sector is erased.  (A    *)
(* device that restarts before it wraps starts again at the damaged slot,  *)
(* so nothing is promised without the first premise.)                      *)
DamageHeals ==
  (<>[](pc # "off") /\ []<>(pc = "program")) => []<>(~torn)

=============================================================================
