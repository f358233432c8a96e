--------------------------- MODULE NvStore_proofs ---------------------------
(***************************************************************************)
(* Theorems about NvStore, for any items and values and sectors of any     *)
(* size: at most one sector is valid, a write that has returned is         *)
(* readable, and the two sectors implement ItemStore.                      *)
(***************************************************************************)
EXTENDS NvStore, FiniteSetTheorems, WellFoundedInduction, TLAPS

-----------------------------------------------------------------------------
(* The newest entry of a sector *)

(* A set of slots that is not empty has a last one. *)
LEMMA BiggestIsLast ==
  ASSUME NEW S \in SUBSET Slots, S # {}
  PROVE  /\ Biggest(S) \in S
         /\ \A j \in S : j <= Biggest(S)
<1>0. Size \in Nat /\ \A k \in S : k \in Nat /\ k <= Size
  BY NvAssumption DEF Slots
<1> DEFINE T == {Size - k : k \in S}
<1>1. T \subseteq Nat /\ T # {}
  <2>1. ASSUME NEW k \in S PROVE Size - k \in Nat
    BY <1>0
  <2> QED
    BY <2>1
<1>2. PICK x \in T : \A y \in T : <<y, x>> \notin OpToRel(<, Nat)
  BY <1>1, NatLessThanWellFounded, WFMin
<1>3. ASSUME NEW y \in T PROVE x <= y
  <2>1. x \in Nat /\ y \in Nat
    BY <1>1
  <2>2. ~(y < x)
    <3>1. y < x => <<y, x>> \in OpToRel(<, Nat)
      BY <2>1 DEF OpToRel
    <3> QED
      BY <1>2, <3>1
  <2> QED
    BY <2>1, <2>2
<1>4. PICK k \in S : x = Size - k
  OBVIOUS
<1>5. \A j \in S : j <= k
  <2> SUFFICES ASSUME NEW j \in S PROVE j <= k
    OBVIOUS
  <2>1. Size - k <= Size - j
    BY <1>3, <1>4
  <2> QED
    BY <1>0, <2>1
<1> QED
  BY <1>5 DEF Biggest

(* The newest entry of an item is valid and the last such one. *)
LEMMA NewestIsValid ==
  ASSUME NEW c, NEW i
  PROVE  /\ Newest(c, i) \in {0} \cup Slots
         /\ Newest(c, i) = 0 <=> \A k \in Slots : ~(c[k].st = "valid" /\ c[k].item = i)
         /\ Newest(c, i) # 0 =>
              /\ c[Newest(c, i)].st = "valid"
              /\ c[Newest(c, i)].item = i
              /\ \A k \in Slots :
                   c[k].st = "valid" /\ c[k].item = i => k <= Newest(c, i)
<1>1. ValidOf(c, i) \in SUBSET Slots
  BY DEF ValidOf
<1>2. CASE ValidOf(c, i) = {}
  BY <1>2 DEF Newest, ValidOf
<1>3. CASE ValidOf(c, i) # {}
  <2>1. /\ Biggest(ValidOf(c, i)) \in ValidOf(c, i)
        /\ \A j \in ValidOf(c, i) : j <= Biggest(ValidOf(c, i))
    BY <1>1, <1>3, BiggestIsLast
  <2>2. Newest(c, i) = Biggest(ValidOf(c, i))
    BY <1>3 DEF Newest
  <2>3. 0 \notin Slots
    BY NvAssumption DEF Slots
  <2> QED
    BY <2>1, <2>2, <2>3 DEF ValidOf
<1> QED
  BY <1>2, <1>3

(* The last valid entry of an item is the newest. *)
LEMMA LastIsNewest ==
  ASSUME NEW c, NEW i, NEW k \in Slots, c[k].st = "valid", c[k].item = i,
         \A j \in Slots : c[j].st = "valid" /\ c[j].item = i => j <= k
  PROVE  /\ Newest(c, i) = k
         /\ Content(c, i) = c[k].val
<1>1. Newest(c, i) # 0 /\ Newest(c, i) \in Slots
  BY NewestIsValid
<1>2. k <= Newest(c, i) /\ Newest(c, i) <= k
  BY <1>1, NewestIsValid
<1>3. Newest(c, i) = k
  BY <1>1, <1>2, NvAssumption DEF Slots
<1>4. k # 0
  BY NvAssumption DEF Slots
<1> QED
  BY <1>3, <1>4 DEF Content

(* The same when only one entry is left of those that were valid, the newest *)
(* of each item among them.                                                 *)
LEMMA ThinnedReadsSame ==
  ASSUME NEW c, NEW d, NEW i,
         \A k \in Slots : d[k].st = "valid" => d[k] = c[k],
         Newest(c, i) # 0 => d[Newest(c, i)] = c[Newest(c, i)]
  PROVE  Content(d, i) = Content(c, i)
<1>1. CASE Newest(c, i) = 0
  <2>1. Newest(d, i) = 0
    BY <1>1, NewestIsValid
  <2> QED
    BY <1>1, <2>1 DEF Content
<1>2. CASE Newest(c, i) # 0
  <2> DEFINE n == Newest(c, i)
  <2>1. n \in Slots /\ d[n] = c[n] /\ c[n].st = "valid" /\ c[n].item = i
    BY <1>2, NewestIsValid
  <2>2. \A j \in Slots : d[j].st = "valid" /\ d[j].item = i => j <= n
    BY <1>2, NewestIsValid
  <2>3. Content(d, i) = d[n].val
    BY <2>1, <2>2, LastIsNewest
  <2> QED
    BY <1>2, <2>1, <2>3 DEF Content
<1> QED
  BY <1>1, <1>2

(* A valid entry put behind all others is what its item reads as, and makes *)
(* no difference to other items.                                            *)
LEMMA PutReads ==
  ASSUME NEW c, NEW d, NEW k \in Slots, d[k].st = "valid", c[k].st # "valid",
         \A j \in Slots : j # k => d[j] = c[j],
         \A j \in Slots : j > k => c[j].st # "valid"
  PROVE  /\ Content(d, d[k].item) = d[k].val
         /\ \A i : i # d[k].item => Content(d, i) = Content(c, i)
<1>1. Content(d, d[k].item) = d[k].val
  <2>1. \A j \in Slots : d[j].st = "valid" => j <= k
    BY NvAssumption DEF Slots
  <2> QED
    BY <2>1, LastIsNewest
<1>2. ASSUME NEW i, i # d[k].item
      PROVE  Content(d, i) = Content(c, i)
  <2>1. CASE Newest(c, i) = 0
    <3>1. Newest(d, i) = 0
      BY <1>2, <2>1, NewestIsValid
    <3> QED
      BY <2>1, <3>1 DEF Content
  <2>2. CASE Newest(c, i) # 0
    <3> DEFINE n == Newest(c, i)
    <3>1. n \in Slots /\ c[n].st = "valid" /\ c[n].item = i
      BY <2>2, NewestIsValid
    <3>2. d[n] = c[n]
      BY <3>1
    <3>3. \A j \in Slots : d[j].st = "valid" /\ d[j].item = i => j <= n
      BY <1>2, <2>2, NewestIsValid
    <3>4. Content(d, i) = d[n].val
      BY <3>1, <3>2, <3>3, LastIsNewest
    <3> QED
      BY <2>2, <3>2, <3>4 DEF Content
  <2> QED
    BY <2>1, <2>2
<1> QED
  BY <1>1, <1>2

(* Behind the last entry that was ever used all are idle. *)
LEMMA LastUsedIsLast ==
  ASSUME NEW c
  PROVE  /\ LastUsed(c) \in {0} \cup Slots
         /\ \A k \in Slots : k > LastUsed(c) => c[k].st = "idle"
<1>1. UsedSlots(c) \in SUBSET Slots
  BY DEF UsedSlots
<1>2. CASE UsedSlots(c) = {}
  BY <1>2 DEF LastUsed, UsedSlots
<1>3. CASE UsedSlots(c) # {}
  <2>1. /\ Biggest(UsedSlots(c)) \in UsedSlots(c)
        /\ \A j \in UsedSlots(c) : j <= Biggest(UsedSlots(c))
    BY <1>1, <1>3, BiggestIsLast
  <2>2. LastUsed(c) = Biggest(UsedSlots(c))
    BY <1>3 DEF LastUsed
  <2>3. ASSUME NEW k \in Slots, k > LastUsed(c) PROVE c[k].st = "idle"
    <3>1. k \notin UsedSlots(c)
      BY <1>1, <2>1, <2>2, <2>3, NvAssumption DEF Slots
    <3> QED
      BY <3>1 DEF UsedSlots
  <2> QED
    BY <1>1, <2>1, <2>2, <2>3
<1> QED
  BY <1>2, <1>3

(* The items that are copied leave room for the one to be written. *)
LEMMA RoomForCopies ==
  ASSUME NEW n \in Nat, NEW x \in Items, NEW f \in [1 .. n -> Items \ {x}],
         \A j, k \in 1 .. n : f[j] = f[k] => j = k
  PROVE  n < Cardinality(Items)
<1>1. /\ IsFiniteSet(Items \ {x})
      /\ Cardinality(Items \ {x}) = Cardinality(Items) - 1
  BY FS_RemoveElement, NvAssumption
<1>2. f \in Injection(1 .. n, Items \ {x})
  BY DEF Injection, IsInjective
<1>3. Cardinality(1 .. n) <= Cardinality(Items \ {x})
  BY <1>1, <1>2, FS_Injection
<1>4. Cardinality(1 .. n) = n
  BY FS_Interval
<1>5. Cardinality(Items) \in Nat
  BY FS_CardinalityType, NvAssumption
<1> QED
  BY <1>1, <1>3, <1>4, <1>5

-----------------------------------------------------------------------------
(* The inductive invariant: what a call under way knows, step by step *)

Writing == {"index", "data", "commit"}
After == {"delete", "first", "ready", "retire", "validate"}

(* Before the item is placed, nothing is known of where it goes. *)
OpSound ==
  /\ op.pc \in {"idle", "off"} => op.item = None
  /\ op.pc \notin {"idle", "off", "open", "recoverOther", "recoverSelf", "place"}
       => op.item # None
  /\ op.item # None => op.val # None
  /\ op.pc \in {"open", "recoverOther", "recoverSelf", "format", "place"} =>
       ~op.upd /\ op.del = 0
  /\ op.pc \in {"erase", "dedup", "copy", "ready", "retire", "validate"} => op.upd
  /\ op.upd => op.del = 0
  /\ op.pc \in {"open", "recoverOther", "recoverSelf", "format", "place", "erase",
               "dedup"} => op.idx = 1
  /\ op.pc = "delete" => op.del # 0
  /\ op.pc = "first" => ~op.upd /\ op.idx = 1
  /\ op.pc \in Writing \cup {"delete"} => op.del < op.idx

(* A valid entry holds an item. *)
SlotSound ==
  \A s \in Sectors, k \in Slots :
    slot[s][k].st = "valid" => slot[s][k].item # None /\ slot[s][k].val # None

Fresh == Usable = {} /\ op.sect = 0
InUse == flag[op.sect] = "valid" /\ op.sect = Chosen
Changing == flag[Old] = "valid" /\ flag[op.sect] = "idle"

(* The flags of the sector a call works on, and of the other one. *)
FlagSound ==
  /\ op.pc = "recoverOther" => flag[op.sect] = "ready" /\ op.sect = Chosen
  /\ op.pc = "recoverSelf" => flag[op.sect] = "ready" /\ flag[Old] = "invalid"
  /\ op.pc = "format" => Fresh
  /\ op.pc \in {"place", "first"} \cup Writing /\ ~op.upd => Fresh \/ InUse
  /\ op.pc \in {"delete", "erase"} => InUse
  /\ op.pc \in {"dedup", "copy", "ready"} \cup Writing /\ op.upd => Changing
  /\ op.pc = "retire" => flag[Old] = "valid" /\ flag[op.sect] = "ready"
  /\ op.pc = "validate" => flag[Old] = "invalid" /\ flag[op.sect] = "ready"

FreeFrom(n) == \A k \in Slots : k >= n => slot[op.sect][k].st = "idle"

(* The entries of the sector from the one that is written on. *)
IndexSound ==
  /\ op.pc = "place" /\ Fresh => FreeFrom(1)
  /\ op.pc \in Writing /\ ~op.upd /\ Fresh => op.idx = 1
  /\ op.pc = "dedup" => FreeFrom(1)
  /\ op.pc \in {"copy", "index"} => FreeFrom(op.idx)
  /\ op.pc \in {"data", "commit"} =>
       slot[op.sect][op.idx].st = "op" /\ FreeFrom(op.idx + 1)
  /\ op.pc \in After =>
       /\ slot[op.sect][op.idx] = [st |-> "valid", item |-> op.item, val |-> op.val]
       /\ FreeFrom(op.idx + 1)
  /\ op.pc \in Writing \cup {"delete"} /\ op.del # 0 =>
       slot[op.sect][op.del].st = "valid" /\ slot[op.sect][op.del].item = op.item

Carries(s, k) == slot[s][k].st = "valid"

(* While items are copied, each entry is a copy of the only valid entry of  *)
(* its item; when they are, every other item reads as before.               *)
CopySound ==
  op.pc = "copy" =>
    /\ \A j, k \in Slots :
         /\ Carries(Old, j) /\ Carries(Old, k)
         /\ slot[Old][j].item = slot[Old][k].item
         => j = k
    /\ \A k \in Slots : k < op.idx =>
         /\ Carries(op.sect, k) /\ slot[op.sect][k].item # op.item
         /\ \E j \in Slots : slot[Old][j] = slot[op.sect][k]
    /\ \A j, k \in Slots :
         j < op.idx /\ k < op.idx /\ slot[op.sect][j].item = slot[op.sect][k].item
         => j = k
    /\ op.idx <= Cardinality(Items)

Carried ==
  \A i \in Items \ {op.item} :
    Content(slot[op.sect], i) = Content(slot[Old], i)

CarrySound ==
  op.pc \in {"ready", "retire"} \cup Writing /\ op.upd => Carried

IInv ==
  /\ TypeOK /\ OneSector /\ OpSound /\ SlotSound /\ FlagSound
  /\ IndexSound /\ CopySound /\ CarrySound


-----------------------------------------------------------------------------
(* What the operations do *)

(* A set of slots that is not empty has a first one. *)
LEMMA FirstOfSlots ==
  ASSUME NEW S \in SUBSET Slots, S # {}
  PROVE  (CHOOSE k \in S : \A j \in S : k <= j) \in S
<1>1. S \subseteq Nat
  BY NvAssumption DEF Slots
<1>2. PICK x \in S : \A y \in S : <<y, x>> \notin OpToRel(<, Nat)
  BY <1>1, NatLessThanWellFounded, WFMin
<1>3. ASSUME NEW y \in S PROVE x <= y
  <2>1. y < x => <<y, x>> \in OpToRel(<, Nat)
    BY <1>1 DEF OpToRel
  <2>2. ~(y < x)
    BY <1>2, <2>1
  <2> QED
    BY <1>1, <2>2
<1> QED
  BY <1>3

Entry ==
  [st : {"idle", "op", "torn", "bad", "valid", "invalid"},
   item : Items \cup {None}, val : Values \cup {None}]

(* The fields of a call, one by one. *)
LEMMA CallFields ==
  ASSUME TypeOK
  PROVE  /\ op.pc \in PCs
         /\ op.item \in Items \cup {None} /\ op.val \in Values \cup {None}
         /\ op.sect \in Sectors /\ op.upd \in BOOLEAN
         /\ op.idx \in Slots /\ op.del \in {0} \cup Slots
         /\ Old \in Sectors /\ Old # op.sect
         /\ Sectors = {op.sect, Old}
BY DEF TypeOK, Old, Other, Sectors

(* An entry from which nothing can be read is an entry. *)
LEMMA DeadIsEntry ==
  ASSUME NEW st \in {"idle", "op", "torn", "bad", "valid", "invalid"}
  PROVE  Dead(st) \in Entry
BY DEF Dead, Entry

(* One entry of the sector is written and nothing else. *)
LEMMA SetSlotWrites ==
  ASSUME TypeOK, NEW k \in Slots, NEW e \in Entry, SetSlot(k, e)
  PROVE  /\ slot' \in [Sectors -> [Slots -> Entry]]
         /\ slot'[op.sect][k] = e
         /\ \A j \in Slots : j # k => slot'[op.sect][j] = slot[op.sect][j]
         /\ slot'[Old] = slot[Old]
<1>1. slot \in [Sectors -> [Slots -> Entry]] /\ op.sect \in Sectors
  BY DEF TypeOK, Entry
<1>2. slot' = [slot EXCEPT ![op.sect] = [slot[op.sect] EXCEPT ![k] = e]]
  BY DEF SetSlot
<1>3. Old \in Sectors /\ Old # op.sect
  BY CallFields
<1> QED
  BY <1>1, <1>2, <1>3

(* A copy is that of an entry still to be copied. *)
LEMMA CopyCopies ==
  ASSUME TypeOK, Copy
  PROVE  \/ ToCopy = {} /\ Goto("index") /\ slot' = slot
         \/ \E k \in ToCopy :
              /\ SetSlot(op.idx, slot[Old][k])
              /\ op' = [op EXCEPT !.idx = @ + 1]
<1>1. ToCopy \in SUBSET Slots
  BY DEF ToCopy
<1>2. CASE ToCopy = {}
  BY <1>2 DEF Copy
<1>3. CASE ToCopy # {}
  <2> DEFINE k == CHOOSE k \in ToCopy : \A j \in ToCopy : k <= j
  <2>1. k \in ToCopy
    BY <1>1, <1>3, FirstOfSlots
  <2>2. SetSlot(op.idx, slot[Old][k]) /\ op' = [op EXCEPT !.idx = @ + 1]
    BY <1>3 DEF Copy, SetSlot
  <2> QED
    BY <2>1, <2>2
<1> QED
  BY <1>2, <1>3

(* One flag is written. *)
LEMMA SetFlagWrites ==
  ASSUME TypeOK, NEW s \in Sectors,
         NEW f \in {"idle", "ready", "valid", "invalid"}, SetFlag(s, f)
  PROVE  /\ flag' \in [Sectors -> {"idle", "ready", "valid", "invalid"}]
         /\ flag'[s] = f
         /\ \A t \in Sectors : t # s => flag'[t] = flag[t]
BY DEF TypeOK, SetFlag

-----------------------------------------------------------------------------
(* Type correctness *)

(* There is room for an item in a sector. *)
LEMMA SizePositive ==
  /\ Size \in Nat /\ Size >= 1 /\ 1 \in Slots
  /\ Cardinality(Items) \in Nat /\ Size > Cardinality(Items)
BY NvAssumption, FS_CardinalityType DEF Slots

(* A call that is over, and one about to begin, has the type of op. *)
LEMMA RestIsCall ==
  ASSUME NEW pc \in PCs, NEW i \in Items \cup {None}, NEW v \in Values \cup {None}
  PROVE  [Rest EXCEPT !.pc = pc, !.item = i, !.val = v] \in
           [pc : PCs, item : Items \cup {None}, val : Values \cup {None},
            sect : Sectors, upd : BOOLEAN, idx : Slots, del : {0} \cup Slots]
BY SizePositive DEF Rest, Sectors

(* The initial states meet the invariant. *)
LEMMA InitIInv == Init => IInv
<1> SUFFICES ASSUME Init PROVE IInv
  OBVIOUS
<1> USE DEF Init
<1>1. TypeOK
  <2>1. Blank \in [Slots -> Entry]
    BY DeadIsEntry DEF Blank
  <2>2. op \in [pc : PCs, item : Items \cup {None}, val : Values \cup {None},
                sect : Sectors, upd : BOOLEAN, idx : Slots, del : {0} \cup Slots]
    BY SizePositive DEF Rest, Sectors, PCs
  <2> QED
    BY <2>1, <2>2 DEF TypeOK, Entry
<1>2. OneSector
  BY DEF OneSector, Sectors
<1>3. SlotSound
  BY DEF SlotSound, Blank, Dead
<1>4. OpSound /\ FlagSound /\ IndexSound /\ CopySound /\ CarrySound
  BY DEF Rest, OpSound, FlagSound, IndexSound, CopySound, CarrySound, Writing, After
<1> QED
  BY <1>1, <1>2, <1>3, <1>4 DEF IInv

(* A new entry fits, both behind the last one and while items are copied. *)
LEMMA IndexStays ==
  ASSUME TypeOK, CopySound
  PROVE  /\ Place /\ op.item # None /\ ~Full(slot[op.sect]) => op'.idx \in Slots
         /\ Copy => op'.idx \in Slots
<1>1. ASSUME Place, op.item # None, ~Full(slot[op.sect]) PROVE op'.idx \in Slots
  <2>1. op'.idx = LastUsed(slot[op.sect]) + 1
    BY <1>1 DEF Place, TypeOK
  <2>2. LastUsed(slot[op.sect]) # Size
    BY <1>1, SizePositive DEF Full
  <2>3. LastUsed(slot[op.sect]) \in {0} \cup Slots
    BY LastUsedIsLast
  <2> QED
    BY <2>1, <2>2, <2>3, SizePositive DEF Slots
<1>2. ASSUME Copy PROVE op'.idx \in Slots
  <2>1. op.idx \in Slots /\ op.idx <= Cardinality(Items)
    BY <1>2, CallFields DEF Copy, At, CopySound
  <2>2. op'.idx \in {op.idx, op.idx + 1}
    BY <1>2 DEF Copy, Goto, TypeOK
  <2> QED
    BY <2>1, <2>2, SizePositive DEF Slots
<1> QED
  BY <1>1, <1>2

(* Every step keeps the types. *)
LEMMA TypeStep ==
  ASSUME TypeOK, OpSound, CopySound, [Next]_vars
  PROVE  TypeOK'
<1> DEFINE Flags == {"idle", "ready", "valid", "invalid"}
<1> DEFINE Calls == [pc : PCs, item : Items \cup {None}, val : Values \cup {None},
                     sect : Sectors, upd : BOOLEAN, idx : Slots, del : {0} \cup Slots]
<1>1. flag \in [Sectors -> Flags] /\ slot \in [Sectors -> [Slots -> Entry]] /\ op \in Calls
  BY DEF TypeOK, Entry
<1>2. Rest \in Calls /\ [Rest EXCEPT !.pc = "open"] \in Calls
      /\ [Rest EXCEPT !.pc = "off"] \in Calls
  BY SizePositive DEF Rest, Sectors, PCs
<1>3. flag' \in [Sectors -> Flags] /\ slot' \in [Sectors -> [Slots -> Entry]] /\ op' \in Calls
  <2>1. CASE \E i \in Items, v \in Values : Write(i, v)
    <3>1. PICK i \in Items, v \in Values : Write(i, v)
      BY <2>1
    <3> QED
      BY <1>1, <3>1, SizePositive DEF Write, Rest, Sectors, PCs
  <2>2. CASE Read \/ Restart \/ Cut \/ UNCHANGED vars
    BY <1>1, <1>2, <2>2 DEF Read, Restart, Cut, Off, vars
  <2>3. CASE NvSectorRead
    <3>1. CASE Open
      <4>1. Chosen \in Sectors /\ 0 \in Sectors
        BY DEF Chosen, Sectors
      <4>2. flag' = flag /\ slot' = slot
        BY <3>1 DEF Open
      <4>3. CASE Usable # {}
        BY <1>1, <3>1, <4>1, <4>2, <4>3 DEF Open, PCs
      <4>4. CASE Usable = {}
        <5>1. op' = Rest \/ op' = [op EXCEPT !.sect = 0, !.pc = "format"]
          BY <3>1, <4>4 DEF Open
        <5> QED
          BY <1>1, <1>2, <4>1, <4>2, <5>1 DEF PCs
      <4> QED
        BY <4>3, <4>4
    <3>2. CASE RecoverOther
      BY <1>1, <3>2, CallFields DEF RecoverOther, SetFlag, Goto, PCs, Old
    <3>3. CASE RecoverSelf
      BY <1>1, <3>3 DEF RecoverSelf, SetFlag, Goto, PCs
    <3> QED
      BY <2>3, <3>1, <3>2, <3>3 DEF NvSectorRead
  <2>4. CASE Handler
    <3>1. Blank \in [Slots -> Entry]
      BY DeadIsEntry DEF Blank
    <3>2. CASE Format
      BY <1>1, <3>1, <3>2 DEF Format, Erased, SetFlag, Goto, PCs, Sectors
    <3>3. CASE Place
      <4>1. Newest(slot[op.sect], op.item) \in {0} \cup Slots
        BY NewestIsValid
      <4>2. flag' = flag /\ slot' = slot
        BY <3>3 DEF Place
      <4>3. op' \in Calls
        BY <1>1, <1>2, <3>3, <4>1, IndexStays DEF Place, PCs
      <4> QED
        BY <1>1, <4>2, <4>3
    <3>4. CASE Erase
      BY <1>1, <3>1, <3>4, CallFields DEF Erase, Erased, SetFlag, PCs, Old
    <3>5. CASE Dedup
      <4>1. slot' \in [Sectors -> [Slots -> Entry]]
        BY <1>1, <3>5, DeadIsEntry, CallFields DEF Dedup
      <4> QED
        BY <1>1, <3>5, <4>1 DEF Dedup, Goto, PCs
    <3>6. CASE Copy
      <4>1. slot' \in [Sectors -> [Slots -> Entry]]
        <5>1. CASE slot' = slot
          BY <1>1, <5>1
        <5>2. CASE \E k \in ToCopy : SetSlot(op.idx, slot[Old][k])
          <6>1. PICK k \in Slots : SetSlot(op.idx, slot[Old][k])
            BY <5>2 DEF ToCopy
          <6>2. slot[Old][k] \in Entry /\ op.idx \in Slots
            BY <1>1, CallFields
          <6> QED
            BY <6>1, <6>2, SetSlotWrites
        <5> QED
          BY <3>6, <5>1, <5>2, CopyCopies
      <4>2. op'.idx \in Slots
        BY <3>6, IndexStays
      <4>3. op' \in Calls
        BY <1>1, <3>6, <4>2, CopyCopies DEF Goto, PCs
      <4> QED
        BY <1>1, <3>6, <4>1, <4>3 DEF Copy
    <3>7. CASE PutIndex \/ PutData
      BY <1>1, <3>7, DeadIsEntry, SetSlotWrites DEF PutIndex, PutData, Goto, PCs
    <3>8. AfterItem \in Calls
      BY <1>1, <1>2 DEF AfterItem, PCs
    <3>9. CASE Commit
      <4>1. [st |-> "valid", item |-> op.item, val |-> op.val] \in Entry
        BY CallFields DEF Entry
      <4> QED
        BY <1>1, <3>8, <3>9, <4>1, SetSlotWrites DEF Commit, PCs
    <3>10. CASE Delete
      <4>1. op.del \in Slots
        BY <3>10, CallFields DEF Delete, At, OpSound
      <4> QED
        BY <1>1, <3>8, <3>10, <4>1, DeadIsEntry, SetSlotWrites DEF Delete
    <3>11. CASE First \/ Validate
      BY <1>1, <1>2, <3>11 DEF First, Validate, SetFlag
    <3>12. CASE Ready
      BY <1>1, <3>12 DEF Ready, SetFlag, Goto, PCs
    <3>13. CASE Retire
      BY <1>1, <3>13, CallFields DEF Retire, SetFlag, Goto, PCs
    <3> QED
      BY <2>4, <3>2, <3>3, <3>4, <3>5, <3>6, <3>7, <3>9, <3>10, <3>11, <3>12, <3>13
      DEF Handler
  <2>5. CASE CutWriting
    BY <1>1, <1>2, <2>5, DeadIsEntry, SetSlotWrites DEF CutWriting, Off
  <2>6. CASE CutErasing
    <3>1. Garbage \in [Slots -> Entry]
      BY DeadIsEntry DEF Garbage
    <3>2. PICK s \in Sectors, f \in Flags :
            slot' = [slot EXCEPT ![s] = Garbage] /\ SetFlag(s, f)
      BY <1>1, <2>6, CallFields DEF CutErasing, Sectors, Old
    <3>3. op' = [Rest EXCEPT !.pc = "off"]
      BY <2>6 DEF CutErasing, Off
    <3> QED
      BY <1>1, <1>2, <3>1, <3>2, <3>3 DEF SetFlag
  <2> QED
    BY <2>1, <2>2, <2>3, <2>4, <2>5, <2>6 DEF Next, PowerFails
<1> QED
  BY <1>3 DEF TypeOK, Entry

-----------------------------------------------------------------------------
(* Each part of the invariant is kept *)

(* A call that is over knows nothing. *)
LEMMA RestIsSound ==
  ASSUME op' = Rest \/ op' = [Rest EXCEPT !.pc = "open"] \/ op' = [Rest EXCEPT !.pc = "off"]
  PROVE  OpSound' /\ FlagSound' /\ IndexSound' /\ CopySound' /\ CarrySound'
BY DEF Rest, OpSound, FlagSound, IndexSound, CopySound, CarrySound, Writing, After

(* The new entry of an item lies behind the one that it replaces. *)
LEMMA PlacedBehind ==
  ASSUME NEW c, NEW i
  PROVE  Newest(c, i) < LastUsed(c) + 1
<1>1. Newest(c, i) \in {0} \cup Slots /\ LastUsed(c) \in {0} \cup Slots
  BY NewestIsValid, LastUsedIsLast
<1>2. CASE Newest(c, i) = 0
  BY <1>1, <1>2, SizePositive DEF Slots
<1>3. CASE Newest(c, i) # 0
  <2>1. ~(Newest(c, i) > LastUsed(c))
    BY <1>1, <1>3, NewestIsValid, LastUsedIsLast
  <2> QED
    BY <1>1, <2>1, SizePositive DEF Slots
<1> QED
  BY <1>2, <1>3

(* Every step keeps what is known of the call under way. *)
LEMMA OpStep ==
  ASSUME TypeOK, OpSound, CopySound, [Next]_vars
  PROVE  OpSound'
<1> USE CallFields
<1>1. CASE Read \/ Restart \/ Cut \/ CutWriting \/ CutErasing \/ First \/ Validate
  BY <1>1, RestIsSound
  DEF Read, Restart, Cut, CutWriting, CutErasing, First, Validate, Off
<1>2. CASE UNCHANGED vars
  BY <1>2 DEF OpSound, Writing, vars
<1>3. CASE \E i \in Items, v \in Values : Write(i, v)
  BY <1>3, NvAssumption DEF Write, Rest, OpSound, Writing
<1>4. CASE Open
  <2>1. CASE op' = Rest
    BY <2>1, RestIsSound
  <2>2. CASE Usable # {}
    BY <1>4, <2>2 DEF Open, At, OpSound, Writing, TypeOK
  <2>3. CASE Usable = {} /\ op.item # None
    BY <1>4, <2>3 DEF Open, At, OpSound, Writing, TypeOK
  <2> QED
    BY <1>4, <2>1, <2>2, <2>3 DEF Open
<1>5. CASE RecoverOther \/ RecoverSelf \/ Format
  BY <1>5 DEF RecoverOther, RecoverSelf, Format, At, Goto, OpSound, Writing, TypeOK
<1>6. CASE Place
  <2>1. CASE op.item = None
    BY <1>6, <2>1, RestIsSound DEF Place
  <2>2. CASE op.item # None /\ Full(slot[op.sect])
    BY <1>6, <2>2 DEF Place, At, OpSound, Writing, TypeOK
  <2>3. CASE op.item # None /\ ~Full(slot[op.sect])
    <3>1. Newest(slot[op.sect], op.item) < LastUsed(slot[op.sect]) + 1
      BY PlacedBehind
    <3> QED
      BY <1>6, <2>3, <3>1 DEF Place, At, OpSound, Writing, TypeOK
  <2> QED
    BY <2>1, <2>2, <2>3
<1>7. CASE Erase \/ Dedup
  BY <1>7 DEF Erase, Dedup, At, Goto, OpSound, Writing, TypeOK
<1>8. CASE Copy
  <2>1. op'.pc \in {"copy", "index"} /\ op' = [op EXCEPT !.pc = op'.pc, !.idx = op'.idx]
    BY <1>8, CopyCopies DEF Copy, At, Goto, TypeOK
  <2>2. op.pc = "copy" /\ op.upd /\ op.del = 0
    BY <1>8 DEF Copy, At, OpSound
  <2>3. op'.idx \in Slots /\ 0 < op'.idx
    BY <1>8, IndexStays, SizePositive DEF Slots
  <2> QED
    BY <2>1, <2>2, <2>3 DEF OpSound, Writing, TypeOK
<1>9. CASE PutIndex \/ PutData \/ Ready \/ Retire
  BY <1>9 DEF PutIndex, PutData, Ready, Retire, At, Goto, OpSound, Writing, TypeOK
<1>10. CASE Commit
  BY <1>10, RestIsSound DEF Commit, AfterItem, At, OpSound, Writing, TypeOK
<1>11. CASE Delete
  BY <1>11, RestIsSound DEF Delete, AfterItem, At, OpSound, Writing, TypeOK
<1> QED
  BY <1>1, <1>2, <1>3, <1>4, <1>5, <1>6, <1>7, <1>8, <1>9, <1>10, <1>11
  DEF Next, NvSectorRead, Handler, PowerFails

(* An entry that is valid holds an item. *)
LEMMA SlotStep ==
  ASSUME TypeOK, OpSound, SlotSound, [Next]_vars
  PROVE  SlotSound'
<1> DEFINE Holds(e) == e.st = "valid" => e.item # None /\ e.val # None
<1> SUFFICES ASSUME NEW s \in Sectors, NEW k \in Slots
             PROVE  Holds(slot'[s][k])
  BY DEF SlotSound
<1>1. \A t \in Sectors, j \in Slots : Holds(slot[t][j])
  BY DEF SlotSound
<1>2. \A st : st # "valid" => Holds(Dead(st))
  BY DEF Dead
<1>3. CASE slot' = slot
  BY <1>1, <1>3
<1>4. CASE Format \/ Erase \/ CutErasing
  <2>1. PICK t \in Sectors : \/ slot' = [slot EXCEPT ![t] = Blank]
                             \/ slot' = [slot EXCEPT ![t] = Garbage]
    BY <1>4, CallFields DEF Format, Erase, CutErasing, Erased, Sectors, Old
  <2>2. slot'[s][k] \in {slot[s][k], Dead("idle"), Dead("torn")}
    <3>1. slot'[s] \in {slot[s], Blank, Garbage}
      BY <2>1 DEF TypeOK
    <3>2. Blank[k] = Dead("idle") /\ Garbage[k] = Dead("torn")
      BY DEF Blank, Garbage
    <3> QED
      BY <3>1, <3>2, Zenon
  <2>3. Holds(slot[s][k])
    BY <1>1
  <2>4. Holds(Dead("idle")) /\ Holds(Dead("torn"))
    BY DEF Dead
  <2> HIDE DEF Holds
  <2> QED
    BY <2>2, <2>3, <2>4
<1>5. CASE Dedup
  BY <1>1, <1>2, <1>5, CallFields DEF Dedup, TypeOK
<1>6. ASSUME NEW j \in Slots, NEW e \in Entry, Holds(e), SetSlot(j, e)
      PROVE  Holds(slot'[s][k])
  BY <1>1, <1>6, SetSlotWrites, CallFields
<1>7. CASE Copy
  <2>1. CASE \E j \in ToCopy : SetSlot(op.idx, slot[Old][j])
    <3>1. PICK j \in Slots : SetSlot(op.idx, slot[Old][j])
      BY <2>1 DEF ToCopy
    <3>2. slot[Old][j] \in Entry /\ op.idx \in Slots /\ Holds(slot[Old][j])
      BY <1>1, CallFields DEF TypeOK, Entry
    <3> QED
      BY <1>6, <3>1, <3>2
  <2> QED
    BY <1>3, <1>7, <2>1, CopyCopies
<1>8. CASE PutIndex \/ CutWriting
  BY <1>2, <1>6, <1>8, DeadIsEntry, CallFields DEF PutIndex, CutWriting
<1>9. CASE Commit
  <2> DEFINE e == [st |-> "valid", item |-> op.item, val |-> op.val]
  <2>1. e \in Entry /\ Holds(e)
    BY <1>9, CallFields DEF Entry, Commit, At, OpSound
  <2> QED
    BY <1>6, <1>9, <2>1, CallFields DEF Commit
<1>10. CASE Delete
  <2>1. op.del \in Slots
    BY <1>10, CallFields DEF Delete, At, OpSound
  <2> QED
    BY <1>2, <1>6, <1>10, <2>1, DeadIsEntry DEF Delete
<1> QED
  BY <1>3, <1>4, <1>5, <1>7, <1>8, <1>9, <1>10
  DEF Next, NvSectorRead, Handler, PowerFails, Write, Read, Open, RecoverOther,
      RecoverSelf, Place, PutData, First, Ready, Retire, Validate, Cut, Restart, vars

(* A sector in which nothing was written is not full. *)
LEMMA FreshIsNotFull ==
  ASSUME NEW c, \A k \in Slots : c[k].st = "idle"
  PROVE  LastUsed(c) = 0 /\ ~Full(c) /\ \A i : Newest(c, i) = 0
<1>1. UsedSlots(c) = {}
  BY DEF UsedSlots
<1>2. \A i : Newest(c, i) = 0
  BY NewestIsValid
<1> QED
  BY <1>1, <1>2 DEF LastUsed, Full

(* What is known of the flags is kept, and with it that one sector is valid. *)
LEMMA FlagStep ==
  ASSUME TypeOK, OneSector, OpSound, FlagSound, IndexSound, [Next]_vars
  PROVE  OneSector' /\ FlagSound'
<1> DEFINE Flags == {"idle", "ready", "valid", "invalid"}
<1>1. flag \in [Sectors -> Flags] /\ op.sect \in Sectors
  BY DEF TypeOK
<1> USE DEF Sectors, Other, Old, Usable, Chosen, Fresh, InUse, Changing
<1>2. CASE \/ (\E i \in Items, v \in Values : Write(i, v)) \/ UNCHANGED vars
           \/ Read \/ Restart \/ Cut \/ CutWriting \/ Open \/ Place \/ Dedup \/ Copy
           \/ PutIndex \/ PutData \/ Commit \/ Delete
  <2>0. flag' = flag
    BY <1>2 DEF Write, Read, Restart, Cut, CutWriting, Open, Place, Dedup, Copy,
                PutIndex, PutData, Commit, Delete, vars
  <2>1. OneSector'
    BY <2>0 DEF OneSector
  <2>2. CASE Read \/ Restart \/ Cut \/ CutWriting
    BY <2>1, <2>2, RestIsSound DEF Read, Restart, Cut, CutWriting, Off
  <2>3. CASE UNCHANGED vars
    BY <2>1, <2>3 DEF FlagSound, vars
  <2>4. CASE \E i \in Items, v \in Values : Write(i, v)
    <3>1. op'.pc = "open"
      BY <2>4 DEF Write, Rest
    <3> QED
      BY <2>1, <3>1 DEF FlagSound, Writing
  <2>5. CASE Open
    <3>1. CASE op' = Rest
      BY <2>1, <3>1, RestIsSound
    <3>2. CASE Usable # {}
      <4>1. op' = [op EXCEPT !.sect = Chosen,
                             !.pc = IF flag[Chosen] = "ready" THEN "recoverOther"
                                    ELSE "place"]
        BY <2>5, <3>2 DEF Open
      <4> QED
        BY <1>1, <2>0, <2>1, <3>2, <4>1 DEF FlagSound, Writing, TypeOK
    <3>3. CASE Usable = {} /\ op.item # None
      BY <1>1, <2>0, <2>1, <2>5, <3>3 DEF Open, FlagSound, Writing, TypeOK
    <3> QED
      BY <2>5, <3>1, <3>2, <3>3 DEF Open
  <2>6. CASE Place
    <3>1. CASE op.item = None
      BY <2>1, <2>6, <3>1, RestIsSound DEF Place
    <3>2. op.pc = "place" /\ ~op.upd /\ (Fresh \/ InUse)
      BY <2>6 DEF Place, At, OpSound, FlagSound
    <3>3. CASE op.item # None /\ Full(slot[op.sect])
      <4>1. ~Fresh
        <5>1. Fresh => \A k \in Slots : slot[op.sect][k].st = "idle"
          BY <3>2, SizePositive DEF IndexSound, FreeFrom, Slots
        <5> HIDE DEF Fresh
        <5> QED
          BY <3>3, <5>1, FreshIsNotFull
      <4>2. op'.pc = "erase" /\ op'.sect = op.sect
        BY <2>6, <3>3 DEF Place, TypeOK
      <4> QED
        BY <1>1, <2>0, <2>1, <3>2, <4>1, <4>2 DEF FlagSound, Writing
    <3>4. CASE op.item # None /\ ~Full(slot[op.sect])
      <4>1. op'.pc = "index" /\ op'.sect = op.sect /\ op'.upd = op.upd
        BY <2>6, <3>4 DEF Place, TypeOK
      <4> QED
        BY <1>1, <2>0, <2>1, <3>2, <4>1 DEF FlagSound, Writing
    <3> QED
      BY <3>1, <3>3, <3>4
  <2>7. CASE Dedup \/ PutIndex \/ PutData
    <3>1. /\ op' = [op EXCEPT !.pc = op'.pc]
          /\ \/ op.pc = "dedup" /\ op'.pc = "copy"
             \/ op.pc \in Writing /\ op'.pc \in Writing
      <4>1. CASE Dedup
        BY <4>1 DEF Dedup, At, Goto, TypeOK
      <4>2. CASE PutIndex \/ PutData
        BY <4>2 DEF PutIndex, PutData, At, Goto, Writing, TypeOK
      <4> QED
        BY <2>7, <4>1, <4>2
    <3>2. op'.sect = op.sect /\ op'.upd = op.upd
      BY <3>1 DEF TypeOK
    <3> QED
      BY <1>1, <2>0, <2>1, <3>1, <3>2 DEF FlagSound, OpSound, Writing
  <2>8. CASE Copy
    <3>1. op.pc = "copy" /\ op'.pc \in {"copy", "index"} /\ op'.sect = op.sect
      BY <2>8, CopyCopies DEF Copy, At, Goto, TypeOK
    <3>2. op.upd /\ op'.upd = op.upd
      BY <2>8, <3>1, CopyCopies DEF Goto, OpSound, TypeOK
    <3>3. Changing
      BY <3>1, <3>2 DEF FlagSound
    <3> QED
      BY <1>1, <2>0, <2>1, <3>1, <3>2, <3>3 DEF FlagSound, Writing
  <2>9. CASE Commit \/ Delete
    <3>1. op.pc \in {"commit", "delete"}
      BY <2>9 DEF Commit, Delete, At
    <3>2. CASE op' = Rest
      BY <2>1, <3>2, RestIsSound
    <3>3. CASE op.upd /\ op' = [op EXCEPT !.pc = "ready"]
      <4>1. op.pc = "commit" /\ Changing
        BY <3>1, <3>3 DEF OpSound, FlagSound, Writing
      <4>2. op'.pc = "ready" /\ op'.sect = op.sect
        BY <3>3 DEF TypeOK
      <4> QED
        BY <1>1, <2>0, <2>1, <4>1, <4>2 DEF FlagSound, Writing
    <3>4. CASE ~op.upd /\ op' = [op EXCEPT !.pc = "first"]
      <4>1. Fresh \/ InUse
        BY <3>1, <3>4 DEF FlagSound, Writing
      <4>2. op'.pc = "first" /\ op'.sect = op.sect
        BY <3>4 DEF TypeOK
      <4> QED
        BY <1>1, <2>0, <2>1, <4>1, <4>2 DEF FlagSound, Writing
    <3>5. CASE Commit /\ op.del # 0 /\ op' = [op EXCEPT !.pc = "delete"]
      <4>1. ~op.upd /\ op.pc \in Writing /\ op.del < op.idx
        BY <3>5 DEF OpSound, Writing, Commit, At
      <4>2. ~Fresh
        <5>1. Fresh => op.idx = 1
          BY <4>1 DEF IndexSound
        <5> HIDE DEF Fresh
        <5> QED
          BY <3>5, <4>1, <5>1, CallFields DEF Slots
      <4>3. op'.pc = "delete" /\ op'.sect = op.sect
        BY <3>5 DEF TypeOK
      <4>4. InUse
        BY <4>1, <4>2 DEF FlagSound
      <4> QED
        BY <1>1, <2>0, <2>1, <4>3, <4>4 DEF FlagSound, Writing
    <3> QED
      BY <2>9, <3>2, <3>3, <3>4, <3>5 DEF AfterItem, Commit, Delete
  <2> QED
    BY <1>2, <2>1, <2>2, <2>3, <2>4, <2>5, <2>6, <2>7, <2>8, <2>9
<1>3. CASE RecoverOther
  BY <1>1, <1>3 DEF RecoverOther, SetFlag, At, Goto, OneSector, FlagSound, Writing, TypeOK
<1>4. CASE RecoverSelf
  <2>1. op' = [op EXCEPT !.pc = "place"] /\ flag[op.sect] = "ready"
        /\ flag[Old] = "invalid" /\ flag' = [flag EXCEPT ![op.sect] = "valid"]
    BY <1>4 DEF RecoverSelf, SetFlag, At, Goto, FlagSound
  <2> QED
    BY <1>1, <2>1 DEF OneSector, FlagSound, Writing, TypeOK
<1>5. CASE Format
  <2>1. op' = [op EXCEPT !.pc = "place"] /\ Usable = {} /\ op.sect = 0
        /\ flag' = [flag EXCEPT ![0] = "idle"]
    BY <1>5 DEF Format, Erased, SetFlag, At, Goto, FlagSound
  <2> QED
    BY <1>1, <2>1 DEF OneSector, FlagSound, Writing, TypeOK
<1>6. CASE Erase
  <2>1. op.upd /\ flag[op.sect] = "valid"
    BY <1>6 DEF Erase, At, OpSound, FlagSound
  <2>2. op'.pc = "dedup" /\ op'.sect = Other(op.sect)
        /\ flag' = [flag EXCEPT ![Other(op.sect)] = "idle"]
    BY <1>6 DEF Erase, Erased, SetFlag, TypeOK
  <2> QED
    BY <1>1, <2>1, <2>2 DEF OneSector, FlagSound, Writing
<1>7. CASE First
  <2>1. Fresh \/ InUse
    BY <1>7 DEF First, At, OpSound, FlagSound
  <2>2. OneSector'
    BY <1>1, <1>7, <2>1 DEF First, SetFlag, OneSector
  <2> QED
    BY <1>7, <2>2, RestIsSound DEF First
<1>8. CASE Ready
  <2>1. Changing
    BY <1>8 DEF Ready, At, OpSound, FlagSound
  <2>2. op'.pc = "retire" /\ op'.sect = op.sect
        /\ flag' = [flag EXCEPT ![op.sect] = "ready"]
    BY <1>8 DEF Ready, SetFlag, Goto, TypeOK
  <2> QED
    BY <1>1, <2>1, <2>2 DEF OneSector, FlagSound, Writing
<1>9. CASE Retire
  <2>1. op'.pc = "validate" /\ op'.sect = op.sect /\ flag[op.sect] = "ready"
        /\ flag' = [flag EXCEPT ![Old] = "invalid"]
    BY <1>9 DEF Retire, SetFlag, At, Goto, FlagSound, TypeOK
  <2> QED
    BY <1>1, <2>1 DEF OneSector, FlagSound, Writing
<1>10. CASE Validate
  <2>1. OneSector'
    BY <1>1, <1>10 DEF Validate, At, FlagSound, SetFlag, OneSector
  <2> QED
    BY <1>10, <2>1, RestIsSound DEF Validate
<1>11. CASE CutErasing
  <2>1. PICK s \in Sectors, f \in Flags : (f = "idle" \/ f = flag[s]) /\ SetFlag(s, f)
    BY <1>1, <1>11 DEF CutErasing
  <2>2. OneSector'
    BY <1>1, <2>1 DEF SetFlag, OneSector
  <2> QED
    BY <1>11, <2>2, RestIsSound DEF CutErasing, Off
<1> QED
  BY <1>2, <1>3, <1>4, <1>5, <1>6, <1>7, <1>8, <1>9, <1>10, <1>11
  DEF Next, NvSectorRead, Handler, PowerFails

(* The call goes on in the same sector, with the same item. *)
GoesOn(pc) ==
  /\ op'.pc = pc /\ op'.sect = op.sect /\ op'.item = op.item /\ op'.val = op.val
  /\ op'.upd = op.upd /\ op'.del = op.del

(* Going on to the next operation changes nothing else of the call. *)
LEMMA GotoGoesOn ==
  ASSUME TypeOK, NEW pc
  PROVE  op' = [op EXCEPT !.pc = pc] => GoesOn(pc) /\ op'.idx = op.idx
BY DEF TypeOK, GoesOn

(* After an item is committed or the old entry deleted. *)
LEMMA AfterItemGoesOn ==
  ASSUME TypeOK, op' = AfterItem
  PROVE  \/ op' = Rest
         \/ op.upd /\ GoesOn("ready") /\ op'.idx = op.idx
         \/ ~op.upd /\ GoesOn("first") /\ op'.idx = op.idx
<1>1. CASE op.upd
  BY <1>1, GotoGoesOn DEF AfterItem
<1>2. CASE ~op.upd
  BY <1>2, GotoGoesOn DEF AfterItem
<1> QED
  BY <1>1, <1>2

(* What is known of the sector that is written is kept. *)
LEMMA IndexStep ==
  ASSUME TypeOK, OpSound, FlagSound, IndexSound, [Next]_vars
  PROVE  IndexSound'
<1> USE CallFields DEF At
<1>1. CASE Read \/ Restart \/ Cut \/ CutWriting \/ CutErasing \/ First \/ Validate
  BY <1>1, RestIsSound
  DEF Read, Restart, Cut, CutWriting, CutErasing, First, Validate, Off
<1>2. CASE UNCHANGED vars
  BY <1>2 DEF IndexSound, FreeFrom, Fresh, Usable, vars
<1>3. CASE RecoverOther \/ \E i \in Items, v \in Values : Write(i, v)
  <2>1. op'.pc \in {"open", "recoverSelf"}
    BY <1>3 DEF Write, RecoverOther, Goto, Rest, TypeOK
  <2> QED
    BY <2>1 DEF IndexSound, Writing, After
<1>4. CASE Open
  <2>1. CASE op' = Rest
    BY <2>1, RestIsSound
  <2>2. CASE Usable # {}
    <3>1. op'.pc \in {"recoverOther", "place"} /\ Usable' # {}
      BY <1>4, <2>2 DEF Open, TypeOK, Usable
    <3> QED
      BY <3>1 DEF IndexSound, Fresh, Writing, After
  <2>3. CASE Usable = {} /\ op.item # None
    <3>1. op'.pc = "format"
      BY <1>4, <2>3 DEF Open, TypeOK
    <3> QED
      BY <3>1 DEF IndexSound, Writing, After
  <2> QED
    BY <1>4, <2>1, <2>2, <2>3 DEF Open
<1>5. CASE RecoverSelf
  <2>1. op'.pc = "place" /\ flag'[op.sect] = "valid" /\ op.sect \in Sectors
    BY <1>5 DEF RecoverSelf, SetFlag, Goto, TypeOK
  <2>2. Usable' # {}
    BY <2>1 DEF Usable
  <2> QED
    BY <2>1, <2>2 DEF IndexSound, Fresh, Writing, After
<1>6. CASE Format
  <2>1. op'.pc = "place" /\ op'.sect = 0 /\ slot'[0] = Blank
    BY <1>6 DEF Format, Erased, Goto, FlagSound, Fresh, TypeOK, Sectors
  <2> QED
    BY <2>1 DEF IndexSound, FreeFrom, Blank, Dead, Writing, After
<1>7. CASE Place
  <2>1. CASE op.item = None
    BY <1>7, <2>1, RestIsSound DEF Place
  <2>2. CASE op.item # None /\ Full(slot[op.sect])
    <3>1. op'.pc = "erase"
      BY <1>7, <2>2 DEF Place, TypeOK
    <3> QED
      BY <3>1 DEF IndexSound, Writing, After
  <2>3. CASE op.item # None /\ ~Full(slot[op.sect])
    <3> DEFINE c == slot[op.sect]
    <3>1. /\ op'.pc = "index" /\ op'.sect = op.sect /\ op'.item = op.item
          /\ op'.idx = LastUsed(c) + 1 /\ op'.del = Newest(c, op.item)
          /\ slot' = slot /\ flag' = flag
      BY <1>7, <2>3 DEF Place, TypeOK
    <3>2. FreeFrom(op.idx)'
      <4>1. LastUsed(c) \in {0} \cup Slots /\ \A k \in Slots : k > LastUsed(c) => c[k].st = "idle"
        BY LastUsedIsLast
      <4> QED
        BY <3>1, <4>1, SizePositive DEF FreeFrom, Slots
    <3>3. Fresh' => op'.idx = 1
      <4>1. Fresh' => Fresh
        BY <3>1 DEF Fresh, Usable
      <4>2. Fresh => \A k \in Slots : c[k].st = "idle"
        BY <1>7, SizePositive DEF Place, IndexSound, FreeFrom, Slots
      <4> QED
        BY <3>1, <4>1, <4>2, FreshIsNotFull
    <3>4. op'.del # 0 => slot'[op'.sect][op'.del].st = "valid"
                         /\ slot'[op'.sect][op'.del].item = op'.item
      BY <3>1, NewestIsValid
    <3> QED
      BY <3>1, <3>2, <3>3, <3>4 DEF IndexSound, Writing, After
  <2> QED
    BY <2>1, <2>2, <2>3
<1>8. CASE Erase
  <2>1. op'.pc = "dedup" /\ op'.sect = Old /\ slot'[Old] = Blank
    BY <1>8 DEF Erase, Erased, TypeOK, Old
  <2> QED
    BY <2>1 DEF IndexSound, FreeFrom, Blank, Dead, Writing, After
<1>9. CASE Dedup
  <2>1. op'.pc = "copy" /\ op'.sect = op.sect /\ op'.idx = 1 /\ slot'[op.sect] = slot[op.sect]
    BY <1>9 DEF Dedup, Goto, OpSound, TypeOK
  <2>2. FreeFrom(1)
    BY <1>9 DEF Dedup, IndexSound
  <2> QED
    BY <2>1, <2>2 DEF IndexSound, FreeFrom, Writing, After
<1>10. CASE Copy
  <2>1. op.pc = "copy" /\ op.upd /\ op.del = 0 /\ FreeFrom(op.idx)
    BY <1>10 DEF Copy, OpSound, IndexSound
  <2>2. CASE Goto("index") /\ slot' = slot
    <3>1. GoesOn("index") /\ op'.idx = op.idx
      BY <2>2, GotoGoesOn DEF Goto
    <3> QED
      BY <2>1, <2>2, <3>1 DEF IndexSound, FreeFrom, GoesOn, Writing, After
  <2>3. CASE \E k \in ToCopy : SetSlot(op.idx, slot[Old][k]) /\ op' = [op EXCEPT !.idx = @ + 1]
    <3>1. PICK k \in Slots : SetSlot(op.idx, slot[Old][k])
      BY <2>3 DEF ToCopy
    <3>2. slot[Old][k] \in Entry
      BY DEF TypeOK, Entry
    <3>3. \A j \in Slots : j # op.idx => slot'[op.sect][j] = slot[op.sect][j]
      BY <3>1, <3>2, SetSlotWrites
    <3>4. op'.pc = "copy" /\ op'.sect = op.sect /\ op'.idx = op.idx + 1
      BY <2>1, <2>3 DEF TypeOK
    <3>5. FreeFrom(op.idx)'
      BY <2>1, <3>3, <3>4, SizePositive DEF FreeFrom, Slots
    <3> QED
      BY <3>4, <3>5 DEF IndexSound, Writing, After
  <2> QED
    BY <1>10, <2>2, <2>3, CopyCopies
<1>11. CASE PutIndex
  <2>1. GoesOn("data") /\ op'.idx = op.idx /\ flag' = flag
    BY <1>11, GotoGoesOn DEF PutIndex, Goto
  <2>2. /\ slot'[op.sect][op.idx] = Dead("op")
        /\ \A j \in Slots : j # op.idx => slot'[op.sect][j] = slot[op.sect][j]
    BY <1>11, DeadIsEntry, SetSlotWrites DEF PutIndex
  <2>3. FreeFrom(op.idx) /\ op.del < op.idx
    BY <1>11 DEF PutIndex, IndexSound, OpSound, Writing
  <2>4. FreeFrom(op.idx + 1)'
    BY <2>1, <2>2, <2>3, SizePositive DEF FreeFrom, GoesOn, Slots
  <2>5. slot'[op'.sect][op'.idx].st = "op"
    BY <2>1, <2>2 DEF GoesOn, Dead
  <2>6. op'.del # 0 => slot'[op'.sect][op'.del].st = "valid"
                       /\ slot'[op'.sect][op'.del].item = op'.item
    <3>1. op.del # 0 => slot'[op.sect][op.del] = slot[op.sect][op.del]
      BY <2>2, <2>3, SizePositive DEF Slots
    <3> QED
      BY <1>11, <2>1, <3>1 DEF PutIndex, GoesOn, IndexSound, Writing
  <2>7. ~op'.upd /\ Fresh' => op'.idx = 1
    BY <1>11, <2>1 DEF PutIndex, GoesOn, IndexSound, Writing, Fresh, Usable
  <2> QED
    BY <2>1, <2>4, <2>5, <2>6, <2>7 DEF IndexSound, GoesOn, Writing, After
<1>12. CASE PutData
  <2>1. GoesOn("commit") /\ op'.idx = op.idx /\ flag' = flag /\ slot' = slot
    BY <1>12, GotoGoesOn DEF PutData, Goto
  <2>2. op.pc = "data"
    BY <1>12 DEF PutData
  <2>3. FreeFrom(op.idx + 1)'
    BY <2>1, <2>2 DEF IndexSound, FreeFrom, GoesOn
  <2> QED
    BY <2>1, <2>2, <2>3 DEF IndexSound, Fresh, Usable, GoesOn, Writing, After
<1>13. CASE Commit
  <2> DEFINE e == [st |-> "valid", item |-> op.item, val |-> op.val]
  <2>1. e \in Entry
    BY DEF Entry
  <2>2. /\ slot'[op.sect][op.idx] = e
        /\ \A j \in Slots : j # op.idx => slot'[op.sect][j] = slot[op.sect][j]
    BY <1>13, <2>1, SetSlotWrites DEF Commit
  <2>3. FreeFrom(op.idx + 1) /\ op.del < op.idx
    BY <1>13 DEF Commit, IndexSound, OpSound, Writing
  <2>4. CASE op' = Rest
    BY <2>4, RestIsSound
  <2>5. CASE \E pc \in {"delete", "ready", "first"} :
               GoesOn(pc) /\ op'.idx = op.idx /\ (pc = "delete" => op.del # 0)
    <3>1. slot'[op'.sect][op'.idx] = [st |-> "valid", item |-> op'.item, val |-> op'.val]
      BY <2>2, <2>5 DEF GoesOn
    <3>2. FreeFrom(op.idx + 1)'
      BY <2>2, <2>3, <2>5, SizePositive DEF FreeFrom, GoesOn, Slots
    <3>3. op'.pc = "delete" =>
            slot'[op'.sect][op'.del].st = "valid" /\ slot'[op'.sect][op'.del].item = op'.item
      <4>1. op.del # 0 => slot'[op.sect][op.del] = slot[op.sect][op.del]
        BY <2>2, <2>3, SizePositive DEF Slots
      <4> QED
        BY <1>13, <2>5, <4>1 DEF Commit, GoesOn, IndexSound, Writing
    <3> QED
      BY <2>5, <3>1, <3>2, <3>3 DEF IndexSound, GoesOn, Writing, After
  <2> QED
    BY <1>13, <2>4, <2>5, GotoGoesOn, AfterItemGoesOn DEF Commit
<1>14. CASE Delete
  <2>1. op.pc = "delete" /\ op.del \in Slots /\ op.del < op.idx /\ ~op.upd
    BY <1>14 DEF Delete, OpSound
  <2>2. \A j \in Slots : j # op.del => slot'[op.sect][j] = slot[op.sect][j]
    BY <1>14, <2>1, DeadIsEntry, SetSlotWrites DEF Delete
  <2>3. CASE op' = Rest
    BY <2>3, RestIsSound
  <2>4. CASE GoesOn("first") /\ op'.idx = op.idx
    <3>1. slot'[op.sect][op.idx] = slot[op.sect][op.idx]
      BY <2>1, <2>2, SizePositive DEF Slots
    <3>2. slot'[op'.sect][op'.idx] = [st |-> "valid", item |-> op'.item, val |-> op'.val]
      BY <2>1, <2>4, <3>1 DEF GoesOn, IndexSound, After
    <3>3. FreeFrom(op.idx + 1)
      BY <2>1 DEF IndexSound, After
    <3>4. FreeFrom(op.idx + 1)'
      BY <2>1, <2>2, <2>4, <3>3, SizePositive DEF FreeFrom, GoesOn, Slots
    <3> QED
      BY <2>4, <3>2, <3>4 DEF IndexSound, GoesOn, Writing, After
  <2> QED
    BY <1>14, <2>1, <2>3, <2>4, AfterItemGoesOn DEF Delete
<1>15. CASE Ready \/ Retire
  <2>1. op.pc \in After /\ slot' = slot /\ op'.idx = op.idx
        /\ (GoesOn("retire") \/ GoesOn("validate"))
    BY <1>15, GotoGoesOn DEF Ready, Retire, Goto, After
  <2>2. FreeFrom(op.idx + 1)'
    BY <2>1 DEF IndexSound, FreeFrom, GoesOn
  <2> QED
    BY <2>1, <2>2 DEF IndexSound, GoesOn, Writing, After
<1> QED
  BY <1>1, <1>2, <1>3, <1>4, <1>5, <1>6, <1>7, <1>8, <1>9, <1>10, <1>11, <1>12, <1>13,
     <1>14, <1>15
  DEF Next, NvSectorRead, Handler, PowerFails

(* Where a call goes when it begins and is placed. *)
LEMMA CallGoes ==
  ASSUME TypeOK
  PROVE  /\ \A i \in Items, v \in Values : Write(i, v) => op'.pc = "open"
         /\ Open => op'.pc \in {"idle", "recoverOther", "place", "format"}
         /\ Place => op'.pc \in {"idle", "erase"} \/ (op'.upd = op.upd /\ op'.pc = "index")
         /\ Erase => op'.pc = "dedup"
<1>1. \A i \in Items, v \in Values : Write(i, v) => op'.pc = "open"
  BY DEF Write, Rest
<1>2. ASSUME Open PROVE op'.pc \in {"idle", "recoverOther", "place", "format"}
  <2>1. CASE Usable # {}
    BY <1>2, <2>1 DEF Open, TypeOK
  <2>2. CASE Usable = {}
    BY <1>2, <2>2 DEF Open, Rest, TypeOK
  <2> QED
    BY <2>1, <2>2
<1>3. ASSUME Place
      PROVE  op'.pc \in {"idle", "erase"} \/ (op'.upd = op.upd /\ op'.pc = "index")
  <2>1. CASE op.item = None
    <3>1. op' = Rest
      BY <1>3, <2>1 DEF Place
    <3>2. op'.pc = "idle"
      BY <3>1 DEF Rest
    <3> QED
      BY <3>2
  <2>2. CASE op.item # None /\ Full(slot[op.sect])
    <3>1. op'.pc = "erase"
      BY <1>3, <2>2 DEF Place, TypeOK
    <3> QED
      BY <3>1
  <2>3. CASE op.item # None /\ ~Full(slot[op.sect])
    <3>1. op'.pc = "index" /\ op'.upd = op.upd
      BY <1>3, <2>3 DEF Place, TypeOK
    <3> QED
      BY <3>1
  <2> QED
    BY <2>1, <2>2, <2>3
<1>4. Erase => op'.pc = "dedup"
  BY DEF Erase, TypeOK
<1> QED
  BY <1>1, <1>2, <1>3, <1>4

(* An operation that neither copies nor prepares copying. *)
LEMMA CopyOther ==
  ASSUME TypeOK, op'.pc # "copy"
  PROVE  CopySound'
BY DEF CopySound

(* Each entry that was copied is the copy of the only one of its item, and  *)
(* one more leaves room for the item that is written.                       *)
LEMMA CopyStep ==
  ASSUME TypeOK, OpSound, SlotSound, IndexSound, CopySound, [Next]_vars
  PROVE  CopySound'
<1> USE CallFields DEF At
<1>1. CASE UNCHANGED vars
  BY <1>1 DEF vars, CopySound, Carries, Old
<1>2. CASE Dedup
  <2> DEFINE c == slot[Old]
             d == slot'[Old]
  <2>1. op'.sect = op.sect /\ op'.item = op.item /\ op'.idx = 1 /\ Old' = Old
    BY <1>2 DEF Dedup, Goto, OpSound, TypeOK, Old
  <2>2. \A k \in Slots : d[k].st = "valid" =>
          d[k] = c[k] /\ k = Newest(c, c[k].item)
    BY <1>2 DEF Dedup, TypeOK, Dead
  <2>3. \A j, k \in Slots :
          d[j].st = "valid" /\ d[k].st = "valid" /\ d[j].item = d[k].item => j = k
    <3> HIDE DEF c, d
    <3> QED
      BY <2>2
  <2>4. \A k \in Slots : ~(k < 1)
    BY SizePositive DEF Slots
  <2>5. op'.idx <= Cardinality(Items)
    <3>1. Items # {}
      BY <1>2 DEF Dedup, OpSound
    <3> QED
      BY <2>1, <3>1, NvAssumption, FS_EmptySet, SizePositive
  <2> QED
    BY <2>1, <2>3, <2>4, <2>5 DEF CopySound, Carries
<1>3. CASE Copy
  <2>1. CASE Goto("index")
    BY <2>1, GotoGoesOn, CopyOther DEF Goto, GoesOn
  <2>2. CASE \E k \in ToCopy : SetSlot(op.idx, slot[Old][k]) /\ op' = [op EXCEPT !.idx = @ + 1]
    <3>1. PICK n \in ToCopy : SetSlot(op.idx, slot[Old][n])
      BY <2>2
    <3> DEFINE c == slot[Old]
               d == slot[op.sect]
               e == slot'[op.sect]
    <3>2. /\ n \in Slots /\ c[n].st = "valid" /\ c[n].item # op.item
          /\ \A k \in Slots : ~(d[k].st = "valid" /\ d[k].item = c[n].item)
      BY NewestIsValid DEF ToCopy
    <3>3. /\ op'.pc = "copy" /\ op'.sect = op.sect /\ op'.item = op.item
          /\ op'.idx = op.idx + 1 /\ Old' = Old
      BY <1>3, <2>2 DEF Copy, TypeOK, Old
    <3>4. /\ e[op.idx] = c[n] /\ slot'[Old] = c
          /\ \A k \in Slots : k # op.idx => e[k] = d[k]
      <4>1. c[n] \in Entry
        BY <3>2 DEF TypeOK, Entry
      <4> QED
        BY <3>1, <4>1, SetSlotWrites
    <3>5. /\ \A j, k \in Slots :
               c[j].st = "valid" /\ c[k].st = "valid" /\ c[j].item = c[k].item => j = k
          /\ \A k \in Slots : k < op.idx =>
               /\ d[k].st = "valid" /\ d[k].item # op.item
               /\ \E j \in Slots : c[j] = d[k]
          /\ \A j, k \in Slots :
               j < op.idx /\ k < op.idx /\ d[j].item = d[k].item => j = k
      BY <1>3 DEF Copy, CopySound, Carries
    <3>6. \A k \in Slots : k < op.idx + 1 => k < op.idx \/ k = op.idx
      BY SizePositive DEF Slots
    <3> HIDE DEF c, d, e
    <3>7. \A k \in Slots : k < op.idx + 1 =>
            /\ e[k].st = "valid" /\ e[k].item # op.item
            /\ \E j \in Slots : c[j] = e[k]
      <4> SUFFICES ASSUME NEW k \in Slots, k < op.idx + 1
                   PROVE  /\ e[k].st = "valid" /\ e[k].item # op.item
                          /\ \E j \in Slots : c[j] = e[k]
        OBVIOUS
      <4>1. CASE k = op.idx
        BY <3>2, <3>4, <4>1
      <4>2. CASE k # op.idx
        BY <3>4, <3>5, <3>6, <4>2
      <4> QED
        BY <4>1, <4>2
    <3>8. \A j, k \in Slots :
            j < op.idx + 1 /\ k < op.idx + 1 /\ e[j].item = e[k].item => j = k
      <4> SUFFICES ASSUME NEW j \in Slots, NEW k \in Slots, j < op.idx + 1, k < op.idx + 1,
                          e[j].item = e[k].item
                   PROVE  j = k
        OBVIOUS
      <4>1. CASE j # op.idx /\ k # op.idx
        BY <3>4, <3>5, <3>6, <4>1
      <4>2. CASE j = op.idx /\ k # op.idx
        BY <3>2, <3>4, <3>5, <3>6, <4>2
      <4>3. CASE j # op.idx /\ k = op.idx
        BY <3>2, <3>4, <3>5, <3>6, <4>3
      <4> QED
        BY <4>1, <4>2, <4>3
    <3>9. op.idx + 1 <= Cardinality(Items)
      <4>1. op.idx \in Nat /\ 1 .. op.idx \subseteq Slots
        BY SizePositive DEF Slots
      <4>2. op.item \in Items
        BY <1>3 DEF Copy, OpSound
      <4> DEFINE f == [k \in 1 .. op.idx |-> e[k].item]
      <4>3. ASSUME NEW k \in 1 .. op.idx PROVE e[k].item \in Items \ {op.item}
        <5>1. k \in Slots /\ k < op.idx + 1
          BY <4>1
        <5>2. e[k] \in Entry /\ e[k].st = "valid" /\ e[k].item # op.item
          BY <3>7, <5>1 DEF c, TypeOK, Entry
        <5>3. e[k].item # None
          BY <3>7, <5>1 DEF c, SlotSound
        <5> QED
          BY <5>2, <5>3 DEF Entry
      <4>4. f \in [1 .. op.idx -> Items \ {op.item}]
        BY <4>3
      <4>5. \A j, k \in 1 .. op.idx : f[j] = f[k] => j = k
        <5> SUFFICES ASSUME NEW j \in 1 .. op.idx, NEW k \in 1 .. op.idx, f[j] = f[k]
                     PROVE  j = k
          OBVIOUS
        <5>1. j \in Slots /\ k \in Slots /\ j < op.idx + 1 /\ k < op.idx + 1
          BY <4>1
        <5> QED
          BY <3>8, <5>1
      <4>6. op.idx < Cardinality(Items)
        <5> HIDE DEF f
        <5> QED
          BY <4>1, <4>2, <4>4, <4>5, RoomForCopies
      <4> QED
        BY <4>1, <4>6, SizePositive
    <3> QED
      BY <3>3, <3>4, <3>5, <3>7, <3>8, <3>9 DEF CopySound, Carries, c, d, e
  <2> QED
    BY <1>3, <2>1, <2>2, CopyCopies
<1>4. CASE Next /\ ~Dedup /\ ~Copy
  <2>1. CASE Open \/ \E i \in Items, v \in Values : Write(i, v)
    BY <2>1, CallGoes, CopyOther
  <2>2. CASE Place \/ Erase
    BY <2>2, CallGoes, CopyOther
  <2>3. CASE RecoverOther \/ RecoverSelf \/ Format \/ PutIndex \/ PutData \/ Ready \/ Retire
    BY <2>3, GotoGoesOn, CopyOther
    DEF RecoverOther, RecoverSelf, Format, PutIndex, PutData, Ready, Retire, Goto, GoesOn
  <2>4. CASE Commit \/ Delete
    BY <2>4, GotoGoesOn, AfterItemGoesOn, RestIsSound, CopyOther DEF Commit, Delete, GoesOn
  <2>5. CASE Read \/ Restart \/ Cut \/ CutWriting \/ CutErasing \/ First \/ Validate
    BY <2>5, RestIsSound
    DEF Read, Restart, Cut, CutWriting, CutErasing, First, Validate, Off
  <2> QED
    BY <1>4, <2>1, <2>2, <2>3, <2>4, <2>5 DEF Next, NvSectorRead, Handler, PowerFails
<1> QED
  BY <1>1, <1>2, <1>3, <1>4

(* The other items read the same in the new sector as in the old. *)
LEMMA CarryStep ==
  ASSUME TypeOK, OpSound, IndexSound, CopySound, CarrySound, [Next]_vars
  PROVE  CarrySound'
<1> USE CallFields DEF At
<1> DEFINE c == slot[Old]
           d == slot[op.sect]
           e == slot'[op.sect]
           Rests == {"ready", "retire"} \cup Writing
<1>2. CASE op'.pc \notin Rests \/ ~op'.upd
  BY <1>2 DEF CarrySound
<1>3. ASSUME op'.sect = op.sect, op'.item = op.item, slot'[Old] = c,
             \A i \in Items \ {op.item} : Content(e, i) = Content(c, i)
      PROVE  CarrySound'
  BY <1>3 DEF CarrySound, Carried, Old
<1>1. CASE UNCHANGED vars
  <2>1. op' = op /\ slot' = slot
    BY <1>1 DEF vars
  <2>2. CASE op.pc \in Rests /\ op.upd
    BY <1>3, <2>1, <2>2 DEF CarrySound, Carried
  <2> QED
    BY <1>2, <2>1, <2>2
<1>4. CASE Copy
  <2>1. CASE \E k \in ToCopy : op' = [op EXCEPT !.idx = @ + 1]
    BY <1>2, <1>4, <2>1 DEF Copy, Writing, TypeOK
  <2>2. CASE ToCopy = {} /\ Goto("index") /\ slot' = slot
    <3>1. op'.sect = op.sect /\ op'.item = op.item
      BY <2>2, GotoGoesOn DEF Goto, GoesOn
    <3>2. /\ \A j, k \in Slots :
               c[j].st = "valid" /\ c[k].st = "valid" /\ c[j].item = c[k].item => j = k
          /\ \A k \in Slots : k < op.idx => \E j \in Slots : c[j] = d[k]
      BY <1>4 DEF Copy, CopySound, Carries
    <3>3. \A k \in Slots : d[k].st = "valid" => k < op.idx
      <4>1. \A k \in Slots : k >= op.idx => d[k].st = "idle"
        BY <1>4 DEF Copy, IndexSound, FreeFrom
      <4> QED
        BY <4>1, SizePositive DEF Slots
    <3>4. ASSUME NEW i \in Items \ {op.item}
          PROVE  Content(d, i) = Content(c, i)
      <4> HIDE DEF c, d
      <4>1. CASE Newest(c, i) = 0
        <5>1. Newest(d, i) = 0
          BY <3>2, <3>3, <4>1, NewestIsValid
        <5> QED
          BY <4>1, <5>1 DEF Content
      <4>2. CASE Newest(c, i) # 0
        <5> DEFINE n == Newest(c, i)
                   m == Newest(d, i)
        <5>1. n \in Slots /\ c[n].st = "valid" /\ c[n].item = i
          BY <4>2, NewestIsValid
        <5>2. m # 0
          BY <2>2, <3>4, <5>1 DEF ToCopy, c, d
        <5>3. m \in Slots /\ d[m].st = "valid" /\ d[m].item = i
          BY <5>2, NewestIsValid
        <5>4. PICK j \in Slots : c[j] = d[m]
          BY <3>2, <3>3, <5>3
        <5>5. j = n
          BY <3>2, <5>1, <5>3, <5>4
        <5> QED
          BY <4>2, <5>2, <5>4, <5>5 DEF Content
      <4> QED
        BY <4>1, <4>2
    <3> QED
      BY <1>3, <2>2, <3>1, <3>4
  <2> QED
    BY <1>4, <2>1, <2>2, CopyCopies
<1>5. CASE PutIndex
  <2>1. GoesOn("data")
    BY <1>5, GotoGoesOn DEF PutIndex, Goto
  <2>2. e[op.idx] = Dead("op") /\ slot'[Old] = c /\ \A k \in Slots : k # op.idx => e[k] = d[k]
    BY <1>5, DeadIsEntry, SetSlotWrites DEF PutIndex
  <2>3. d[op.idx].st = "idle"
    BY <1>5, SizePositive DEF PutIndex, IndexSound, FreeFrom, Slots
  <2>4. CASE op.upd
    <3>1. \A i \in Items \ {op.item} : Content(d, i) = Content(c, i)
      BY <1>5, <2>4 DEF PutIndex, CarrySound, Carried, Writing
    <3>2. ASSUME NEW i PROVE Content(e, i) = Content(d, i)
      <4>1. Newest(d, i) # 0 => Newest(d, i) \in Slots /\ Newest(d, i) # op.idx
        BY <2>3, NewestIsValid
      <4>2. \A k \in Slots : e[k].st = "valid" => e[k] = d[k]
        BY <2>2 DEF Dead
      <4> HIDE DEF d, e
      <4> QED
        BY <2>2, <4>1, <4>2, ThinnedReadsSame
    <3> QED
      BY <1>3, <2>1, <2>2, <3>1, <3>2 DEF GoesOn
  <2> QED
    BY <1>2, <2>1, <2>4 DEF GoesOn
<1>6. CASE PutData \/ Ready
  <2>1. \/ op.pc = "data" /\ GoesOn("commit")
        \/ op.pc = "ready" /\ GoesOn("retire")
    BY <1>6, GotoGoesOn DEF PutData, Ready, Goto
  <2>2. slot' = slot
    BY <1>6 DEF PutData, Ready
  <2>3. CASE op.upd
    BY <1>3, <2>1, <2>2, <2>3 DEF CarrySound, Carried, Writing, GoesOn
  <2> QED
    BY <1>2, <2>1, <2>3 DEF GoesOn
<1>7. CASE Commit
  <2>1. CASE ~op.upd
    BY <1>2, <1>7, <2>1, GotoGoesOn, AfterItemGoesOn, RestIsSound DEF Commit, GoesOn
  <2>2. CASE op.upd
    <3> DEFINE x == [st |-> "valid", item |-> op.item, val |-> op.val]
    <3>1. x \in Entry /\ op.del = 0
      BY <2>2 DEF Entry, OpSound
    <3>2. CASE op' = Rest
      BY <3>2, RestIsSound
    <3>3. CASE GoesOn("ready")
      <4>1. e[op.idx] = x /\ slot'[Old] = c /\ \A k \in Slots : k # op.idx => e[k] = d[k]
        BY <1>7, <3>1, SetSlotWrites DEF Commit
      <4>2. d[op.idx].st = "op" /\ \A k \in Slots : k > op.idx => d[k].st # "valid"
        BY <1>7, SizePositive DEF Commit, IndexSound, FreeFrom, Slots
      <4>3. \A i : i # op.item => Content(e, i) = Content(d, i)
        <5>1. e[op.idx].st = "valid" /\ e[op.idx].item = op.item
          BY <4>1
        <5>2. d[op.idx].st # "valid"
          BY <4>2
        <5> HIDE DEF d, e, x
        <5>3. \A i : i # e[op.idx].item => Content(e, i) = Content(d, i)
          <6>1. op.idx \in Slots
            OBVIOUS
          <6>2. \A k \in Slots : k # op.idx => e[k] = d[k]
            BY <4>1
          <6>3. \A k \in Slots : k > op.idx => d[k].st # "valid"
            BY <4>2
          <6> QED
            BY <5>1, <5>2, <6>1, <6>2, <6>3, PutReads
        <5> QED
          BY <5>1, <5>3
      <4>4. \A i \in Items \ {op.item} : Content(d, i) = Content(c, i)
        BY <1>7, <2>2 DEF Commit, CarrySound, Carried, Writing
      <4> QED
        BY <1>3, <3>3, <4>1, <4>3, <4>4 DEF GoesOn
    <3> QED
      BY <1>7, <2>2, <3>1, <3>2, <3>3, AfterItemGoesOn DEF Commit
  <2> QED
    BY <2>1, <2>2
<1>8. CASE Delete
  <2>1. ~op.upd
    BY <1>8 DEF Delete, OpSound
  <2> QED
    BY <1>2, <1>8, <2>1, AfterItemGoesOn, RestIsSound DEF Delete, GoesOn
<1>9. CASE Open \/ Erase \/ \E i \in Items, v \in Values : Write(i, v)
  <2>1. op'.pc \notin Rests
    BY <1>9, CallGoes DEF Writing
  <2> QED
    BY <1>2, <2>1
<1>10. CASE Place
  <2>1. CASE op.item = None
    BY <1>10, <2>1, RestIsSound DEF Place
  <2>2. CASE op.item # None
    <3>1. ~op.upd
      BY <1>10 DEF Place, OpSound
    <3> QED
      BY <1>2, <1>10, <3>1, CallGoes DEF Writing
  <2> QED
    BY <2>1, <2>2
<1>11. CASE RecoverOther \/ RecoverSelf \/ Format \/ Dedup \/ Retire
  <2>1. op'.pc \in {"recoverSelf", "place", "copy", "validate"}
    BY <1>11, GotoGoesOn DEF RecoverOther, RecoverSelf, Format, Dedup, Retire, Goto, GoesOn
  <2> QED
    BY <1>2, <2>1 DEF Writing
<1>12. CASE Read \/ Restart \/ Cut \/ CutWriting \/ CutErasing \/ First \/ Validate
  BY <1>12, RestIsSound
  DEF Read, Restart, Cut, CutWriting, CutErasing, First, Validate, Off
<1> QED
  BY <1>1, <1>4, <1>5, <1>6, <1>7, <1>8, <1>9, <1>10, <1>11, <1>12
  DEF Next, NvSectorRead, Handler, PowerFails

-----------------------------------------------------------------------------
(* The invariant holds *)

(* The invariant is inductive. *)
LEMMA StepIInv == IInv /\ [Next]_vars => IInv'
<1> SUFFICES ASSUME IInv, [Next]_vars PROVE IInv'
  OBVIOUS
<1> USE DEF IInv
<1>1. TypeOK'
  BY TypeStep
<1>2. OpSound' /\ SlotSound'
  BY OpStep, SlotStep
<1>3. OneSector' /\ FlagSound'
  BY FlagStep
<1>4. IndexSound' /\ CopySound' /\ CarrySound'
  BY IndexStep, CopyStep, CarryStep
<1> QED
  BY <1>1, <1>2, <1>3, <1>4

(* The inductive invariant holds in every state. *)
THEOREM Invariant == Spec => []IInv
BY InitIInv, StepIInv, PTL DEF Spec

(* Flags, entries and the call under way are always what nv_sector_read and *)
(* nv_index_read take them for: in particular the index of a sector never   *)
(* runs past its end, however many items are copied into it.                *)
THEOREM TypeCorrect == Spec => []TypeOK
<1>1. IInv => TypeOK
  BY DEF IInv
<1> QED
  BY <1>1, Invariant, PTL

(* At most one sector is valid, wherever a call was cut off: what           *)
(* nv_sector_read takes as the sector in use is never an old one.           *)
THEOREM OneSectorHolds == Spec => []OneSector
<1>1. IInv => OneSector
  BY DEF IInv
<1> QED
  BY <1>1, Invariant, PTL

-----------------------------------------------------------------------------
(* What was written is read *)

(* Once the item is committed its sector reads as it. *)
LEMMA CommittedReads ==
  ASSUME TypeOK, IndexSound, op.pc \in After
  PROVE  Content(slot[op.sect], op.item) = op.val
<1> DEFINE d == slot[op.sect]
<1>1. /\ op.idx \in Slots
      /\ d[op.idx] = [st |-> "valid", item |-> op.item, val |-> op.val]
      /\ \A k \in Slots : k >= op.idx + 1 => d[k].st = "idle"
  BY CallFields DEF IndexSound, FreeFrom
<1>2. \A k \in Slots : d[k].st = "valid" => k <= op.idx
  BY <1>1, SizePositive DEF Slots
<1>3. d[op.idx].st = "valid" /\ d[op.idx].item = op.item /\ d[op.idx].val = op.val
  BY <1>1
<1> HIDE DEF d
<1>4. Content(d, op.item) = d[op.idx].val
  BY <1>1, <1>2, <1>3, LastIsNewest
<1> QED
  BY <1>3, <1>4 DEF d

(* Committing an item makes the sector read as it, and as before for all    *)
(* other items; the old entry of the item is then no longer read.           *)
LEMMA CommitReads ==
  ASSUME TypeOK, IndexSound, Commit
  PROVE  /\ Content(slot'[op.sect], op.item) = op.val
         /\ \A i : i # op.item => Content(slot'[op.sect], i) = Content(slot[op.sect], i)
         /\ slot'[Old] = slot[Old]
<1> USE CallFields DEF At
<1> DEFINE d == slot[op.sect]
           e == slot'[op.sect]
           x == [st |-> "valid", item |-> op.item, val |-> op.val]
<1>1. x \in Entry
  BY DEF Entry
<1>2. e[op.idx] = x /\ slot'[Old] = slot[Old] /\ \A k \in Slots : k # op.idx => e[k] = d[k]
  BY <1>1, SetSlotWrites DEF Commit
<1>3. d[op.idx].st # "valid" /\ \A k \in Slots : k > op.idx => d[k].st # "valid"
  BY SizePositive DEF Commit, IndexSound, FreeFrom, Slots
<1>4. e[op.idx].st = "valid" /\ e[op.idx].item = op.item /\ e[op.idx].val = op.val
  BY <1>2
<1>5. op.idx \in Slots
  OBVIOUS
<1> HIDE DEF d, e, x
<1>6. /\ Content(e, e[op.idx].item) = e[op.idx].val
      /\ \A i : i # e[op.idx].item => Content(e, i) = Content(d, i)
  BY <1>2, <1>3, <1>4, <1>5, PutReads
<1> QED
  BY <1>2, <1>4, <1>6 DEF d, e

(* Dropping the older entry of an item changes nothing that is read. *)
LEMMA DeleteReads ==
  ASSUME TypeOK, OpSound, IndexSound, Delete
  PROVE  /\ \A i : Content(slot'[op.sect], i) = Content(slot[op.sect], i)
         /\ slot'[Old] = slot[Old]
<1> USE CallFields DEF At
<1> DEFINE d == slot[op.sect]
           e == slot'[op.sect]
<1>1. /\ op.pc = "delete" /\ op.idx \in Slots
      /\ op.del # 0 /\ op.del \in Slots /\ op.del < op.idx
  BY DEF Delete, OpSound
<1>2. e[op.del] = Dead("invalid") /\ slot'[Old] = slot[Old]
      /\ \A k \in Slots : k # op.del => e[k] = d[k]
  BY <1>1, DeadIsEntry, SetSlotWrites DEF Delete
<1>3. d[op.del].item = op.item
  BY <1>1 DEF IndexSound
<1>4. d[op.idx].st = "valid" /\ d[op.idx].item = op.item
  BY <1>1 DEF IndexSound, After
<1>5. \A k \in Slots : e[k].st = "valid" => e[k] = d[k]
  BY <1>2 DEF Dead
<1>6. ASSUME NEW i PROVE Content(e, i) = Content(d, i)
  <2> HIDE DEF d, e
  <2>1. Newest(d, i) # 0 => Newest(d, i) \in Slots /\ Newest(d, i) # op.del
    <3>1. CASE i = op.item
      <4>1. Newest(d, i) # 0 => op.idx <= Newest(d, i) /\ Newest(d, i) \in Slots
        BY <1>1, <1>4, <3>1, NewestIsValid
      <4> QED
        BY <1>1, <4>1, SizePositive DEF Slots
    <3>2. CASE i # op.item
      BY <1>3, <3>2, NewestIsValid
    <3> QED
      BY <3>1, <3>2
  <2> QED
    BY <1>2, <1>5, <2>1, ThinnedReadsSame
<1> QED
  BY <1>2, <1>6

(* Writing anything that is not valid over the entry that is being written  *)
(* changes nothing that is read.                                            *)
LEMMA BeginReads ==
  ASSUME TypeOK, IndexSound, op.pc \in {"index", "data"},
         NEW st \in {"op", "torn", "bad"}, SetSlot(op.idx, Dead(st))
  PROVE  /\ \A i : Content(slot'[op.sect], i) = Content(slot[op.sect], i)
         /\ slot'[Old] = slot[Old]
<1> USE CallFields
<1> DEFINE d == slot[op.sect]
           e == slot'[op.sect]
<1>1. e[op.idx] = Dead(st) /\ slot'[Old] = slot[Old]
      /\ \A k \in Slots : k # op.idx => e[k] = d[k]
  BY DeadIsEntry, SetSlotWrites
<1>2. d[op.idx].st # "valid"
  BY SizePositive DEF IndexSound, FreeFrom, Slots
<1>3. \A k \in Slots : e[k].st = "valid" => e[k] = d[k]
  BY <1>1 DEF Dead
<1>4. ASSUME NEW i PROVE Content(e, i) = Content(d, i)
  <2> HIDE DEF d, e
  <2>1. Newest(d, i) # 0 => Newest(d, i) \in Slots /\ Newest(d, i) # op.idx
    BY <1>2, NewestIsValid
  <2> QED
    BY <1>1, <1>3, <2>1, ThinnedReadsSame
<1> QED
  BY <1>1, <1>4

(* The flags tell which sector is read. *)
LEMMA InUseIsRead ==
  ASSUME TypeOK
  PROVE  /\ InUse => Usable # {} /\ Chosen = op.sect
         /\ Changing => Usable # {} /\ Chosen = Old
         /\ Usable # {} => Readable = [i \in Items |-> Content(slot[Chosen], i)]
         /\ Usable = {} => Readable = [i \in Items |-> None]
BY DEF TypeOK, InUse, Changing, Usable, Chosen, Old, Other, Sectors, Readable

(* A write that has returned can be read back. *)
LEMMA ReturnedIsReadable ==
  ASSUME IInv, [Next]_vars, op.item # None, op'.pc = "idle"
  PROVE  Readable'[op.item] = op.val
<1> USE CallFields DEF At, IInv
<1>1. op.item \in Items /\ op.pc \notin {"idle", "off"}
  BY DEF OpSound
<1>2. ASSUME op.sect \in Usable', Chosen' = op.sect, Content(slot'[op.sect], op.item) = op.val
      PROVE  Readable'[op.item] = op.val
  BY <1>1, <1>2 DEF Readable
<1>3. CASE Commit
  <2>1. op' = AfterItem
    <3>1. op' = [op EXCEPT !.pc = "delete"] => op'.pc = "delete"
      BY DEF TypeOK
    <3> QED
      BY <1>3, <3>1 DEF Commit
  <2>2. ~op.upd /\ op.idx # 1
    BY <2>1 DEF AfterItem, TypeOK
  <2>3. InUse
    BY <1>3, <2>2 DEF Commit, FlagSound, IndexSound, Writing
  <2>4. flag' = flag
    BY <1>3 DEF Commit
  <2> QED
    BY <1>2, <1>3, <2>3, <2>4, CommitReads DEF InUse, Chosen, Usable
<1>4. CASE Delete
  <2>1. InUse /\ op.pc \in After /\ flag' = flag
    BY <1>4 DEF Delete, FlagSound, After
  <2> QED
    BY <1>2, <1>4, <2>1, DeleteReads, CommittedReads DEF InUse, Chosen, Usable
<1>5. CASE First
  <2>1. op.pc \in After /\ slot' = slot /\ flag' = [flag EXCEPT ![op.sect] = "valid"]
        /\ (Fresh \/ InUse)
    BY <1>5 DEF First, SetFlag, FlagSound, OpSound, After
  <2>2. op.sect \in Usable' /\ Chosen' = op.sect
    BY <2>1 DEF TypeOK, Fresh, InUse, Chosen, Usable, Sectors
  <2> QED
    BY <1>2, <2>1, <2>2, CommittedReads
<1>6. CASE Validate
  <2>1. op.pc \in After /\ slot' = slot /\ flag' = [flag EXCEPT ![op.sect] = "valid"]
        /\ flag[Old] = "invalid"
    BY <1>6 DEF Validate, SetFlag, FlagSound, After
  <2>2. op.sect \in Usable' /\ Chosen' = op.sect
    BY <2>1 DEF TypeOK, Chosen, Usable, Sectors, Old, Other
  <2> QED
    BY <1>2, <2>1, <2>2, CommittedReads
<1>7. CASE Open \/ Place
  <2>1. op'.pc # "idle"
    <3>1. CASE Open /\ Usable # {}
      BY <3>1 DEF Open, TypeOK
    <3>2. CASE Open /\ Usable = {}
      BY <3>2 DEF Open, TypeOK
    <3>3. CASE Place /\ Full(slot[op.sect])
      BY <3>3 DEF Place, TypeOK
    <3>4. CASE Place /\ ~Full(slot[op.sect])
      BY <3>4 DEF Place, TypeOK
    <3> QED
      BY <1>7, <3>1, <3>2, <3>3, <3>4
  <2> QED
    BY <2>1
<1>8. CASE RecoverOther \/ RecoverSelf \/ Format \/ Dedup \/ PutIndex \/ PutData
           \/ Ready \/ Retire
  BY <1>8, GotoGoesOn
  DEF RecoverOther, RecoverSelf, Format, Dedup, PutIndex, PutData, Ready, Retire, Goto, GoesOn
<1>9. CASE Erase \/ Copy \/ Cut \/ CutWriting \/ CutErasing
  <2>1. CASE Copy
    BY <2>1, CopyCopies, GotoGoesOn DEF Copy, Goto, GoesOn, TypeOK
  <2>2. CASE Erase
    BY <2>2, CallGoes
  <2>3. CASE Cut \/ CutWriting \/ CutErasing
    BY <2>3 DEF Cut, CutWriting, CutErasing, Off, Rest
  <2> QED
    BY <1>9, <2>1, <2>2, <2>3
<1>10. CASE Read \/ Restart \/ UNCHANGED vars \/ \E i \in Items, v \in Values : Write(i, v)
  BY <1>1, <1>10 DEF Read, Restart, Write, vars
<1> QED
  BY <1>3, <1>4, <1>5, <1>6, <1>7, <1>8, <1>9, <1>10
  DEF Next, NvSectorRead, Handler, PowerFails

(* When nv_flashWriteNew returns, the item reads as what was written, in    *)
(* whichever sector it went and however often power failed before.          *)
THEOREM WrittenIsReadableHolds == Spec => WrittenIsReadable
<1>1. IInv /\ [Next]_vars =>
        [op.item # None /\ op'.pc = "idle" => Readable'[op.item] = op.val]_vars
  BY ReturnedIsReadable
<1> QED
  BY <1>1, Invariant, PTL DEF Spec, WrittenIsReadable

-----------------------------------------------------------------------------
(* The sectors implement ItemStore *)

(* Nothing is read differently when the sector that is read stays, or when  *)
(* there is none.                                                           *)
LEMMA ReadsSame ==
  ASSUME \/ Usable = {} /\ Usable' = {}
         \/ /\ Usable # {} /\ Usable' # {}
            /\ \A i \in Items : Content(slot'[Chosen'], i) = Content(slot[Chosen], i)
  PROVE  Readable' = Readable
BY DEF Readable

(* All that is read differently is the item that is written. *)
LEMMA ReadsWritten ==
  ASSUME TypeOK, OpSound, op.pc \in Writing \cup After, Usable' # {},
         Content(slot'[Chosen'], op.item) = op.val,
         \A i \in Items \ {op.item} : Content(slot'[Chosen'], i) = Readable[i]
  PROVE  Store!Next
<1>1. op.item \in Items /\ op.val \in Values
  BY CallFields DEF OpSound, Writing, After
<1>2. Readable' = [i \in Items |-> Content(slot'[Chosen'], i)]
  BY DEF Readable
<1>3. Readable' = [Readable EXCEPT ![op.item] = op.val]
  BY <1>1, <1>2 DEF Readable
<1> QED
  BY <1>1, <1>3 DEF Store!Next, Store!Write

(* Every step of the sectors is a step of ItemStore or none. *)
LEMMA StepRefines ==
  ASSUME IInv, [Next]_vars
  PROVE  Store!Next \/ Readable' = Readable
<1> USE CallFields DEF At, IInv
<1> DEFINE Flags == {"idle", "ready", "valid", "invalid"}
<1>1. flag \in [Sectors -> Flags] /\ 0 \in Sectors /\ 1 \in Sectors
  BY DEF TypeOK, Sectors
<1>2. ASSUME flag' = flag PROVE Usable' = Usable /\ Chosen' = Chosen
  BY <1>2 DEF Usable, Chosen
<1>3. CASE \/ Read \/ Open \/ Place \/ PutData \/ Cut \/ Restart \/ UNCHANGED vars
           \/ \E i \in Items, v \in Values : Write(i, v)
  <2>1. flag' = flag /\ slot' = slot
    BY <1>3 DEF Read, Open, Place, PutData, Cut, Restart, Write, vars
  <2> QED
    BY <1>2, <2>1, ReadsSame
<1>4. CASE RecoverOther
  <2>1. /\ flag[op.sect] = "ready" /\ op.sect = Chosen /\ slot' = slot
        /\ flag' = [flag EXCEPT ![Other(op.sect)] = "invalid"]
    BY <1>4 DEF RecoverOther, SetFlag, FlagSound
  <2>2. Usable # {} /\ Usable' # {} /\ Chosen' = Chosen
    BY <1>1, <2>1 DEF Usable, Chosen, Other, Sectors
  <2> QED
    BY <2>1, <2>2, ReadsSame
<1>5. CASE RecoverSelf \/ Validate
  <2>1. /\ flag[op.sect] = "ready" /\ flag[Old] = "invalid" /\ slot' = slot
        /\ flag' = [flag EXCEPT ![op.sect] = "valid"]
    BY <1>5 DEF RecoverSelf, Validate, SetFlag, FlagSound
  <2>2. Usable # {} /\ Usable' # {} /\ Chosen' = Chosen
    BY <1>1, <2>1 DEF Usable, Chosen, Old, Other, Sectors
  <2> QED
    BY <2>1, <2>2, ReadsSame
<1>6. CASE Format \/ (CutErasing /\ op.pc = "format")
  <2>1. Usable = {} /\ \E f \in {"idle", flag[0]} : flag' = [flag EXCEPT ![0] = f]
    BY <1>6 DEF Format, CutErasing, Erased, SetFlag, FlagSound, Fresh
  <2>2. Usable' = {}
    BY <1>1, <2>1 DEF Usable, Sectors
  <2> QED
    BY <2>1, <2>2, ReadsSame
<1>7. CASE Erase \/ (CutErasing /\ op.pc = "erase")
  <2>1. /\ flag[op.sect] = "valid" /\ op.sect = Chosen /\ slot'[op.sect] = slot[op.sect]
        /\ \E f \in {"idle", flag[Old]} : flag' = [flag EXCEPT ![Old] = f]
    BY <1>7 DEF Erase, CutErasing, Erased, SetFlag, FlagSound, InUse, Old, TypeOK
  <2>2. Usable # {} /\ Usable' # {} /\ Chosen' = Chosen
    BY <1>1, <2>1 DEF Usable, Chosen, Old, Other, Sectors
  <2> QED
    BY <2>1, <2>2, ReadsSame
<1>8. CASE Dedup
  <2>1. op.pc = "dedup" /\ op.upd
    BY <1>8 DEF Dedup, OpSound
  <2>2. Changing /\ flag' = flag
    BY <1>8, <2>1 DEF Dedup, FlagSound
  <2>3. Usable # {} /\ Chosen = Old
    BY <2>2, InUseIsRead
  <2> DEFINE c == slot[Old]
             d == slot'[Old]
  <2>4. \A k \in Slots : /\ d[k].st = "valid" => d[k] = c[k]
                         /\ k = Newest(c, c[k].item) => d[k] = c[k]
    BY <1>8 DEF Dedup, TypeOK, Dead
  <2>5. ASSUME NEW i PROVE Content(d, i) = Content(c, i)
    <3>1. Newest(c, i) # 0 => Newest(c, i) \in Slots /\ c[Newest(c, i)].item = i
      BY NewestIsValid
    <3> HIDE DEF c, d
    <3>2. Newest(c, i) # 0 => d[Newest(c, i)] = c[Newest(c, i)]
      BY <2>4, <3>1
    <3> QED
      BY <2>4, <3>2, ThinnedReadsSame
  <2> QED
    BY <1>2, <2>2, <2>3, <2>5, ReadsSame
<1>9. CASE Copy
  <2>1. op.pc = "copy" /\ op.upd
    BY <1>9 DEF Copy, OpSound
  <2>2. Changing /\ flag' = flag
    BY <1>9, <2>1 DEF Copy, FlagSound
  <2>3. slot'[Old] = slot[Old]
    BY <1>9, CopyCopies DEF SetSlot, TypeOK
  <2> QED
    BY <1>2, <2>2, <2>3, InUseIsRead, ReadsSame
<1>10. CASE PutIndex \/ CutWriting
  <2>1. /\ op.pc \in {"index", "data"} /\ flag' = flag
        /\ \E st \in {"op", "torn", "bad"} : SetSlot(op.idx, Dead(st))
    BY <1>10 DEF PutIndex, CutWriting
  <2>2. /\ \A i : Content(slot'[op.sect], i) = Content(slot[op.sect], i)
        /\ slot'[Old] = slot[Old]
    BY <2>1, BeginReads
  <2>3. Usable = {} \/ Chosen = op.sect \/ Chosen = Old
    BY DEF Chosen, Old, Other, Sectors
  <2> QED
    BY <1>2, <2>1, <2>2, <2>3, ReadsSame
<1>11. CASE Commit
  <2>1. op.pc = "commit" /\ flag' = flag
    BY <1>11 DEF Commit
  <2>2. CASE op.upd
    <3>1. Changing
      BY <2>1, <2>2 DEF FlagSound, Writing
    <3> QED
      BY <1>2, <1>11, <2>1, <3>1, CommitReads, InUseIsRead, ReadsSame
  <2>3. CASE ~op.upd /\ Fresh
    BY <1>2, <2>1, <2>3, ReadsSame DEF Fresh
  <2>4. CASE InUse
    <3>1. Usable # {} /\ Chosen = op.sect /\ \A i \in Items : Readable[i] = Content(slot[op.sect], i)
      BY <2>4, InUseIsRead
    <3> QED
      BY <1>2, <1>11, <2>1, <3>1, CommitReads, ReadsWritten DEF Writing
  <2> QED
    BY <2>1, <2>2, <2>3, <2>4 DEF FlagSound, Writing
<1>12. CASE Delete
  <2>1. InUse /\ flag' = flag
    BY <1>12 DEF Delete, FlagSound
  <2> QED
    BY <1>2, <1>12, <2>1, DeleteReads, InUseIsRead, ReadsSame
<1>13. CASE First
  <2>1. /\ op.pc = "first" /\ ~op.upd /\ op.idx = 1 /\ (Fresh \/ InUse) /\ slot' = slot
        /\ flag' = [flag EXCEPT ![op.sect] = "valid"]
    BY <1>13 DEF First, SetFlag, FlagSound, OpSound
  <2>2. CASE InUse
    <3>1. flag' = flag
      BY <1>1, <2>1, <2>2 DEF InUse
    <3> QED
      BY <1>2, <2>1, <2>2, <3>1, InUseIsRead, ReadsSame
  <2>3. CASE Fresh
    <3>1. Usable' # {} /\ Chosen' = op.sect /\ Readable = [i \in Items |-> None]
      BY <1>1, <2>1, <2>3 DEF Fresh, Usable, Chosen, Readable
    <3>2. Content(slot[op.sect], op.item) = op.val
      BY <2>1, CommittedReads DEF After
    <3>3. ASSUME NEW i \in Items \ {op.item} PROVE Content(slot[op.sect], i) = None
      <4> DEFINE d == slot[op.sect]
      <4>1. d[1].item = op.item /\ \A k \in Slots : k >= 2 => d[k].st = "idle"
        BY <2>1 DEF IndexSound, FreeFrom, After
      <4>2. \A k \in Slots : k = 1 \/ k >= 2
        BY SizePositive DEF Slots
      <4> HIDE DEF d
      <4>3. Newest(d, i) = 0
        BY <3>3, <4>1, <4>2, NewestIsValid
      <4> QED
        BY <4>3 DEF Content, d
    <3> QED
      BY <2>1, <3>1, <3>2, <3>3, ReadsWritten DEF After
  <2> QED
    BY <2>1, <2>2, <2>3
<1>14. CASE Ready
  <2>1. op.pc = "ready" /\ op.upd
    BY <1>14 DEF Ready, OpSound
  <2>2. Changing /\ slot' = slot /\ flag' = [flag EXCEPT ![op.sect] = "ready"]
    BY <1>14, <2>1 DEF Ready, SetFlag, FlagSound
  <2>3. Usable # {} /\ Chosen = Old /\ \A i \in Items : Readable[i] = Content(slot[Old], i)
    BY <2>2, InUseIsRead
  <2>4. Usable' # {} /\ (Chosen' = Old \/ Chosen' = op.sect)
    BY <1>1, <2>2 DEF Usable, Chosen, Old, Other, Sectors
  <2>5. CASE Chosen' = Old
    BY <2>2, <2>3, <2>4, <2>5, ReadsSame
  <2>6. CASE Chosen' = op.sect
    <3>1. /\ Content(slot[op.sect], op.item) = op.val
          /\ \A i \in Items \ {op.item} : Content(slot[op.sect], i) = Content(slot[Old], i)
      BY <2>1, CommittedReads DEF After, CarrySound, Carried
    <3> QED
      BY <2>1, <2>2, <2>3, <2>4, <2>6, <3>1, ReadsWritten DEF After
  <2> QED
    BY <2>4, <2>5, <2>6
<1>15. CASE Retire
  <2>1. op.pc = "retire" /\ op.upd /\ slot' = slot
        /\ flag[Old] = "valid" /\ flag[op.sect] = "ready"
        /\ flag' = [flag EXCEPT ![Old] = "invalid"]
    BY <1>15 DEF Retire, SetFlag, OpSound, FlagSound
  <2>2. Usable # {} /\ Usable' # {} /\ Chosen' = op.sect /\ (Chosen = Old \/ Chosen = op.sect)
    BY <1>1, <2>1 DEF Usable, Chosen, Old, Other, Sectors
  <2>3. CASE Chosen = op.sect
    BY <2>1, <2>2, <2>3, ReadsSame
  <2>4. CASE Chosen = Old
    <3>1. /\ Content(slot[op.sect], op.item) = op.val
          /\ \A i \in Items \ {op.item} : Content(slot[op.sect], i) = Content(slot[Old], i)
      BY <2>1, CommittedReads DEF After, CarrySound, Carried
    <3>2. \A i \in Items : Readable[i] = Content(slot[Old], i)
      BY <2>2, <2>4, InUseIsRead
    <3> QED
      BY <2>1, <2>2, <3>1, <3>2, ReadsWritten DEF After
  <2> QED
    BY <2>2, <2>3, <2>4
<1> QED
  BY <1>3, <1>4, <1>5, <1>6, <1>7, <1>8, <1>9, <1>10, <1>11, <1>12, <1>13, <1>14, <1>15
  DEF Next, NvSectorRead, Handler, PowerFails, CutErasing

(* Wherever power fails, each item reads as its old or its new value and    *)
(* every other item as before: the two sectors of drv_nv.c implement        *)
(* ItemStore, a store in which an item is written all at once.              *)
THEOREM Refinement == Spec => Atomic
<1>1. Init => Store!Init
  BY DEF Init, Store!Init, Readable, Usable, Sectors
<1>2. IInv /\ [Next]_vars => [Store!Next]_Readable
  BY StepRefines
<1> QED
  BY <1>1, <1>2, Invariant, PTL DEF Spec, Atomic, Store!Spec

=============================================================================
