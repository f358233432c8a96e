------------------------------- MODULE NvStore -------------------------------
(***************************************************************************)
(* One module of the NV driver                                             *)
(* (src/tl_zigbee_sdk/proj/drivers/drv_nv.c): two flash sectors, of which  *)
(* one is in use, each with a flag and an index of items that grows until  *)
(* it is full; the items are then copied to the other sector.  Power may   *)
(* fail between two flash operations and, while an index entry, the data   *)
(* of an item or a sector is written or erased, inside one.  The flag of a *)
(* sector and the state of an entry change as a whole, and so do the       *)
(* deletions of Dedup.                                                     *)
(*                                                                         *)
(* Single items of fitting length are written and read; an entry stands    *)
(* for the index entry, the header and the data, all of one size.          *)
(***************************************************************************)
EXTENDS Integers, FiniteSets

CONSTANTS
  Items,   \* item ids of the module
  Values,  \* what is stored
  None,    \* NV_ITEM_NOT_FOUND
  Size     \* MODULE_IDX_NUM, or the items a sector has room for if less

ASSUME NvAssumption ==
  /\ IsFiniteSet(Items) /\ None \notin Items \cup Values
  /\ Size \in Nat /\ Size > Cardinality(Items)

VARIABLES
  flag,  \* nv_sect_info_t.usedFlag of each sector
  slot,  \* the index of each sector
  op     \* the call under way, at the flash operation it does next

vars == <<flag, slot, op>>

Sectors == {0, 1}
Other(s) == 1 - s
Slots == 1 .. Size

(* An entry nothing can be read from; what it was for makes no difference.  *)
Dead(st) == [st |-> st, item |-> None, val |-> None]
Blank == [k \in Slots |-> Dead("idle")]
Rest == [pc |-> "idle", item |-> None, val |-> None, sect |-> 0,
         upd |-> FALSE, idx |-> 1, del |-> 0]

Init ==
  /\ flag = [s \in Sectors |-> "idle"]
  /\ slot = [s \in Sectors |-> Blank]
  /\ op = Rest

Biggest(S) == CHOOSE k \in S : \A j \in S : j <= k

-----------------------------------------------------------------------------
(* Reading *)

(* nv_sector_read: the first sector that is valid or ready.                 *)
Usable == {s \in Sectors : flag[s] \in {"ready", "valid"}}
Chosen == IF 0 \in Usable THEN 0 ELSE 1

(* nv_index_read of sector c, from the end: the newest valid entry of an    *)
(* item, and what it holds.                                                 *)
ValidOf(c, i) == {k \in Slots : c[k].st = "valid" /\ c[k].item = i}
Newest(c, i) == IF ValidOf(c, i) = {} THEN 0 ELSE Biggest(ValidOf(c, i))
Content(c, i) == IF Newest(c, i) = 0 THEN None ELSE c[Newest(c, i)].val

(* nv_index_read for the idle item: the last entry that was ever written.   *)
UsedSlots(c) == {k \in Slots : c[k].st # "idle"}
LastUsed(c) == IF UsedSlots(c) = {} THEN 0 ELSE Biggest(UsedSlots(c))

(* nv_flashReadNew *)
Readable ==
  [i \in Items |-> IF Usable = {} THEN None ELSE Content(slot[Chosen], i)]

-----------------------------------------------------------------------------
(* A call *)

At(pc) == op.pc = pc
Goto(pc) == op' = [op EXCEPT !.pc = pc]
SetFlag(s, f) == flag' = [flag EXCEPT ![s] = f]

Write(i, v) ==
  /\ At("idle")
  /\ op' = [Rest EXCEPT !.pc = "open", !.item = i, !.val = v]
  /\ UNCHANGED <<flag, slot>>

Read ==
  /\ At("idle") /\ op' = [Rest EXCEPT !.pc = "open"]
  /\ UNCHANGED <<flag, slot>>

(* nv_sector_read.  A reader of a module without a sector gives up.         *)
Open ==
  /\ At("open")
  /\ op' = IF Usable # {}
           THEN [op EXCEPT !.sect = Chosen,
                           !.pc = IF flag[Chosen] = "ready" THEN "recoverOther"
                                  ELSE "place"]
           ELSE IF op.item = None THEN Rest
           ELSE [op EXCEPT !.sect = 0, !.pc = "format"]
  /\ UNCHANGED <<flag, slot>>

(* Mutant of RecoverOther: the other sector is left as it is. *)
RecoverOtherNot ==
  /\ At("recoverOther") /\ Goto("recoverSelf")
  /\ UNCHANGED <<flag, slot>>

(* A sector found ready takes over from the other one.                      *)
RecoverOther ==
  /\ At("recoverOther") /\ Goto("recoverSelf")
  /\ SetFlag(Other(op.sect), "invalid")
  /\ UNCHANGED slot

RecoverSelf ==
  /\ At("recoverSelf") /\ Goto("place")
  /\ SetFlag(op.sect, "valid")
  /\ UNCHANGED slot

Erased(s) ==
  /\ SetFlag(s, "idle")
  /\ slot' = [slot EXCEPT ![s] = Blank]

Format ==
  /\ At("format") /\ Goto("place")
  /\ Erased(0)

(* Mutant of Full: it looks one entry too far. *)
FullPast(c) ==
  LastUsed(c) # 0 /\ c[LastUsed(c)].st \in {"torn", "bad"}

(* The sector is changed when its index is full, and when the last entry is *)
(* damaged: one that is not readable at once, one whose header fails its    *)
(* check after NV_ITEM_CHECK_ERROR of nv_write_item.                        *)
Full(c) ==
  /\ LastUsed(c) # 0
  /\ LastUsed(c) = Size \/ c[LastUsed(c)].st \in {"torn", "bad"}

Place ==
  /\ At("place")
  /\ op' = IF op.item = None THEN Rest
           ELSE IF Full(slot[op.sect]) THEN [op EXCEPT !.upd = TRUE, !.pc = "erase"]
           ELSE [op EXCEPT !.idx = LastUsed(slot[op.sect]) + 1,
                           !.del = Newest(slot[op.sect], op.item), !.pc = "index"]
  /\ UNCHANGED <<flag, slot>>

Erase ==
  /\ At("erase")
  /\ op' = [op EXCEPT !.pc = "dedup", !.sect = Other(@)]
  /\ Erased(Other(op.sect))

Old == Other(op.sect)

(* nv_exceptionDataHandler: older entries of the same item are deleted.     *)
Dedup ==
  /\ At("dedup") /\ Goto("copy")
  /\ slot' = [slot EXCEPT ![Old] =
       [k \in Slots |-> IF /\ @[k].st = "valid"
                           /\ k # Newest(@, @[k].item)
                        THEN Dead("invalid") ELSE @[k]]]
  /\ UNCHANGED flag

(* Each item but the one to be written is copied, in order.  How far an     *)
(* item got does not matter: without a flag the sector is erased again.     *)
ToCopy ==
  {k \in Slots : /\ slot[Old][k].st = "valid"
                 /\ slot[Old][k].item # op.item
                 /\ Newest(slot[op.sect], slot[Old][k].item) = 0}

Copy ==
  /\ At("copy")
  /\ IF ToCopy = {}
     THEN Goto("index") /\ UNCHANGED slot
     ELSE LET k == CHOOSE k \in ToCopy : \A j \in ToCopy : k <= j
          IN /\ slot' = [slot EXCEPT ![op.sect][op.idx] = slot[Old][k]]
             /\ op' = [op EXCEPT !.idx = @ + 1]
  /\ UNCHANGED flag

-----------------------------------------------------------------------------
(* nv_write_item and the end of nv_flashWriteNewHandler *)

SetSlot(k, e) == slot' = [slot EXCEPT ![op.sect][k] = e]

PutIndex ==
  /\ At("index") /\ Goto("data")
  /\ SetSlot(op.idx, Dead("op"))
  /\ UNCHANGED flag

(* The data and the header are written and checked, and nothing reads them  *)
(* before the state of the entry says that they are there.                  *)
PutData ==
  /\ At("data") /\ Goto("commit")
  /\ UNCHANGED <<flag, slot>>

(* What follows the writing of the item                                     *)
AfterItem ==
  IF op.upd THEN [op EXCEPT !.pc = "ready"]
  ELSE IF op.idx = 1 THEN [op EXCEPT !.pc = "first"]
  ELSE Rest

Commit ==
  /\ At("commit")
  /\ SetSlot(op.idx, [st |-> "valid", item |-> op.item, val |-> op.val])
  /\ op' = IF op.del # 0 THEN [op EXCEPT !.pc = "delete"] ELSE AfterItem
  /\ UNCHANGED flag

Delete ==
  /\ At("delete") /\ op' = AfterItem
  /\ SetSlot(op.del, Dead("invalid"))
  /\ UNCHANGED flag

First ==
  /\ At("first") /\ op' = Rest
  /\ SetFlag(op.sect, "valid")
  /\ UNCHANGED slot

(* Mutant of Ready: the old sector is given up before the new one is ready. *)
ReadyLate ==
  /\ At("ready") /\ Goto("retire")
  /\ SetFlag(Old, "invalid")
  /\ UNCHANGED slot

Ready ==
  /\ At("ready") /\ Goto("retire")
  /\ SetFlag(op.sect, "ready")
  /\ UNCHANGED slot

(* Mutant of Retire: the old sector stays in use. *)
RetireNot ==
  /\ At("retire") /\ Goto("validate")
  /\ UNCHANGED <<flag, slot>>

Retire ==
  /\ At("retire") /\ Goto("validate")
  /\ SetFlag(Old, "invalid")
  /\ UNCHANGED slot

Validate ==
  /\ At("validate") /\ op' = Rest
  /\ SetFlag(op.sect, "valid")
  /\ UNCHANGED slot

-----------------------------------------------------------------------------
(* Power fails.  An entry half written may be unreadable, data half written *)
(* may have a header that fails its check, and a sector half erased may     *)
(* keep its flag.                                                           *)
Off == op' = [Rest EXCEPT !.pc = "off"]

Cut == op.pc # "off" /\ Off /\ UNCHANGED <<flag, slot>>

CutWriting ==
  /\ \/ At("index") /\ SetSlot(op.idx, Dead("torn"))
     \/ At("data") /\ SetSlot(op.idx, Dead("bad"))
  /\ Off /\ UNCHANGED flag

Garbage == [k \in Slots |-> Dead("torn")]

CutErasing ==
  /\ At("erase") \/ At("format")
  /\ LET s == IF At("erase") THEN Other(op.sect) ELSE 0
     IN /\ slot' = [slot EXCEPT ![s] = Garbage]
        /\ \E f \in {"idle", flag[s]} : SetFlag(s, f)
  /\ Off

Restart == At("off") /\ op' = Rest /\ UNCHANGED <<flag, slot>>

-----------------------------------------------------------------------------
NvSectorRead == Open \/ RecoverOther \/ RecoverSelf
Handler ==
  \/ Format \/ Place \/ Erase \/ Dedup \/ Copy \/ PutIndex \/ PutData
  \/ Commit \/ Delete \/ First \/ Ready \/ Retire \/ Validate
PowerFails == Cut \/ CutWriting \/ CutErasing

Next ==
  \/ \E i \in Items, v \in Values : Write(i, v)
  \/ Read \/ NvSectorRead \/ Handler \/ PowerFails \/ Restart

Spec == Init /\ [][Next]_vars

-----------------------------------------------------------------------------
PCs == {"off", "idle", "open", "recoverOther", "recoverSelf", "format",
        "place", "erase", "dedup", "copy", "index", "data", "commit",
        "delete", "first", "ready", "retire", "validate"}

TypeOK ==
  /\ flag \in [Sectors -> {"idle", "ready", "valid", "invalid"}]
  /\ slot \in [Sectors -> [Slots ->
       [st : {"idle", "op", "torn", "bad", "valid", "invalid"},
        item : Items \cup {None}, val : Values \cup {None}]]]
  /\ op \in [pc : PCs, item : Items \cup {None}, val : Values \cup {None},
             sect : Sectors, upd : BOOLEAN, idx : Slots, del : {0} \cup Slots]

(* At most one sector is valid: nv_sector_read takes the first it finds and *)
(* would otherwise come back to an old one.                                 *)
OneSector == ~(flag[0] = "valid" /\ flag[1] = "valid")

(* A write that has returned can be read back, also after the next restart. *)
WrittenIsReadable ==
  [][op.item # None /\ op'.pc = "idle" => Readable'[op.item] = op.val]_vars

(* Whatever call power fails in, each item reads as its old or its new      *)
(* value and every other item as before: the two sectors implement a store  *)
(* that is written all at once (nv_flashWriteNewHandler, nv_sector_read).   *)
Store == INSTANCE ItemStore WITH store <- Readable
Atomic == Store!Spec

=============================================================================
