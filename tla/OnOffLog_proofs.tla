-------------------------- MODULE OnOffLog_proofs --------------------------
(***************************************************************************)
(* Proofs about OnOffLog for every number of slots, and for all status     *)
(* bytes and bits of a record as well as for the parts of them that meet   *)
(* the assumptions: type correctness, the shape of the log, that a saved   *)
(* state is restored, what a cut save leaves, and that the log implements  *)
(* DurableStatus.                                                          *)
(***************************************************************************)
EXTENDS OnOffLog, TLAPS

-----------------------------------------------------------------------------
(* Records and the restore scan *)

(* The image of a record is made of its bits. *)
LEMMA ImageType ==
  ASSUME NEW v \in Status
  PROVE  Image[v] \in SUBSET Bits
BY DEF Image

(* A record decodes to the state it was made from. *)
LEMMA DecodeImage ==
  ASSUME NEW v \in Status
  PROVE  /\ Valid(Image[v])
         /\ Decode(Image[v]) = v
<1>1. \A w \in Status : Image[v] = Image[w] => w = v
  BY BitsAssumption DEF ImagesDiffer
<1>2. QED
  BY <1>1 DEF Valid, Decode

(* A valid slot decodes to a state, and to the state of its record. *)
LEMMA DecodeValid ==
  ASSUME NEW c, Valid(c)
  PROVE  /\ Decode(c) \in Status
         /\ Image[Decode(c)] = c
BY DEF Valid, Decode

(* An erased slot is not a record. *)
LEMMA ErasedInvalid == ~Valid({})
BY BitsAssumption DEF ImagesDiffer, Valid

(* What is left of a record is that of a state it may leave, if it is the   *)
(* record of any.                                                          *)
LEMMA PartRemains ==
  ASSUME NEW v \in Status, NEW S \in SUBSET Image[v], Valid(S)
  PROVE  Decode(S) \in Remains[v]
BY DecodeValid DEF Remains

(* What is left of the record of another state than OFF is not that of OFF. *)
LEMMA PartNotOff ==
  ASSUME NEW v \in Status, v # ZCL_ONOFF_STATUS_OFF,
         NEW S \in SUBSET Image[v], Valid(S)
  PROVE  Decode(S) # ZCL_ONOFF_STATUS_OFF
BY DecodeValid, StatusAssumption, BitsAssumption DEF ImagesDiffer

(* The scan has at most one place to stop. *)
LEMMA TailUnique ==
  ASSUME NEW c, NEW l \in Slot, NEW m \in Slot, IsTail(c, l), IsTail(c, m)
  PROVE  l = m
<1>1. PICK f \in 0 .. l : /\ \A s \in f .. l : Valid(c[s])
                          /\ \A s \in 0 .. f - 1 : ~Valid(c[s])
  BY DEF IsTail
<1>2. PICK g \in 0 .. m : /\ \A s \in g .. m : Valid(c[s])
                          /\ \A s \in 0 .. g - 1 : ~Valid(c[s])
  BY DEF IsTail
<1>3. f = g
  <2>1. ~(f < g)
    <3> SUFFICES ASSUME f < g PROVE FALSE
      OBVIOUS
    <3>1. f \in f .. l /\ f \in 0 .. g - 1
      BY NSlotsAssumption DEF Slot
    <3> QED
      BY <1>1, <1>2, <3>1
  <2>2. ~(g < f)
    <3> SUFFICES ASSUME g < f PROVE FALSE
      OBVIOUS
    <3>1. g \in g .. m /\ g \in 0 .. f - 1
      BY NSlotsAssumption DEF Slot
    <3> QED
      BY <1>1, <1>2, <3>1
  <2> QED
    BY <2>1, <2>2, NSlotsAssumption DEF Slot
<1>4. ~(l < m)
  <2> SUFFICES ASSUME l < m PROVE FALSE
    OBVIOUS
  <2>1. l + 1 \in Slot /\ l + 1 \in g .. m
    BY <1>3, NSlotsAssumption DEF Slot
  <2> QED
    BY <1>2, <2>1 DEF IsTail
<1>5. ~(m < l)
  <2> SUFFICES ASSUME m < l PROVE FALSE
    OBVIOUS
  <2>1. m + 1 \in Slot /\ m + 1 \in f .. l
    BY <1>3, NSlotsAssumption DEF Slot
  <2> QED
    BY <1>1, <2>1 DEF IsTail
<1> QED
  BY <1>4, <1>5, NSlotsAssumption DEF Slot

(* What is restored is what the slot the scan stops at decodes to. *)
LEMMA TailRecovered ==
  ASSUME NEW c, NEW l \in Slot, IsTail(c, l)
  PROVE  /\ Valid(c[l])
         /\ Recovered(c) = Decode(c[l])
<1>1. Valid(c[l])
  <2>1. PICK f \in 0 .. l : \A s \in f .. l : Valid(c[s])
    BY DEF IsTail
  <2>2. l \in f .. l
    BY NSlotsAssumption DEF Slot
  <2> QED
    BY <2>1, <2>2
<1>2. (CHOOSE m \in Slot : IsTail(c, m)) = l
  BY TailUnique
<1> QED
  BY <1>1, <1>2 DEF Recovered

(* Whatever the sector holds, a state is restored. *)
LEMMA RecoveredType ==
  ASSUME NEW c
  PROVE  Recovered(c) \in Status
<1>1. CASE \E l \in Slot : IsTail(c, l)
  <2>1. PICK l \in Slot : IsTail(c, l)
    BY <1>1
  <2> QED
    BY <2>1, TailRecovered, DecodeValid
<1>2. CASE ~\E l \in Slot : IsTail(c, l)
  BY <1>2, StatusAssumption DEF Recovered
<1> QED
  BY <1>1, <1>2

(* In a log filled up to slot k the scan stops at k. *)
LEMMA FilledTail ==
  ASSUME NEW c, NEW k \in Slot, Filled(c, k)
  PROVE  IsTail(c, k)
<1>1. \A s \in 0 .. k : Valid(c[s])
  BY NSlotsAssumption DEF Filled, Slot
<1>2. \A s \in 0 .. 0 - 1 : ~Valid(c[s])
  OBVIOUS
<1>3. k + 1 \in Slot => ~Valid(c[k + 1])
  BY ErasedInvalid, NSlotsAssumption DEF Filled, Slot
<1>4. 0 \in 0 .. k
  BY NSlotsAssumption DEF Slot
<1> QED
  BY <1>1, <1>2, <1>3, <1>4 DEF IsTail

(* A log filled up to slot k restores the record in slot k. *)
LEMMA FilledRecovered ==
  ASSUME NEW c, NEW k \in Slot, NEW v \in Status,
         Filled(c, k), c[k] = Image[v]
  PROVE  Recovered(c) = v
BY FilledTail, TailRecovered, DecodeImage

(* A sector without a record has no place to stop, and restores the default. *)
LEMMA BlankRecovered ==
  ASSUME NEW c, Blank(c)
  PROVE  /\ \A l \in Slot : ~IsTail(c, l)
         /\ Recovered(c) = ZCL_ONOFF_STATUS_OFF
<1>1. \A l \in Slot : ~IsTail(c, l)
  BY TailRecovered DEF Blank
<1> QED
  BY <1>1 DEF Recovered

(* Filled up to a negative slot number means erased. *)
LEMMA EmptyBlank ==
  ASSUME NEW c, Filled(c, -1)
  PROVE  Blank(c)
BY ErasedInvalid, NSlotsAssumption DEF Filled, Blank, Slot

-----------------------------------------------------------------------------
(* Invariants *)

(* The log starts with values of their types. *)
LEMMA InitType == Init => TypeOK
<1> SUFFICES ASSUME Init PROVE TypeOK
  OBVIOUS
<1>1. cells \in [Slot -> SUBSET Bits]
  BY DEF Init
<1>2. addr \in Slot
  BY NSlotsAssumption DEF Init, Slot
<1> QED
  BY <1>1, <1>2, StatusAssumption DEF Init, TypeOK

(* Every step keeps the types. *)
LEMMA NextType == TypeOK /\ [Next]_vars => TypeOK'
<1> SUFFICES ASSUME TypeOK, [Next]_vars PROVE TypeOK'
  OBVIOUS
<1> USE DEF TypeOK
<1>1. CASE BootFound
  <2>1. PICK l \in Slot : /\ IsTail(cells, l)
                          /\ addr' = l
                          /\ ram' = Decode(cells[l])
    BY <1>1 DEF BootFound
  <2>2. ram' \in Status
    BY <2>1, TailRecovered, DecodeValid
  <2> QED
    BY <1>1, <2>1, <2>2 DEF BootFound
<1>2. CASE BootDefault
  BY <1>2, NSlotsAssumption, StatusAssumption DEF BootDefault, Slot
<1>3. CASE \E v \in {ZCL_ONOFF_STATUS_OFF, ZCL_ONOFF_STATUS_ON} : Change(v)
  BY <1>3, StatusAssumption DEF Change
<1>4. CASE Save
  BY <1>4, NSlotsAssumption DEF Save, NextSlot, Slot
<1>5. CASE Erase
  BY <1>5 DEF Erase
<1>6. CASE Program
  BY <1>6, ImageType DEF Program
<1>7. CASE Cut
  BY <1>7 DEF Cut
<1>8. CASE CutProgram
  BY <1>8, ImageType DEF CutProgram
<1>9. CASE CutErase
  BY <1>9 DEF CutErase
<1>10. CASE UNCHANGED vars
  BY <1>10 DEF vars
<1> QED
  BY <1>1, <1>2, <1>3, <1>4, <1>5, <1>6, <1>7, <1>8, <1>9, <1>10 DEF Next

(* Every variable keeps its type, for any log size, states and images. *)
THEOREM TypeCorrect == Spec => []TypeOK
BY InitType, NextType, PTL DEF Spec

(* The record at flash_addr_start, or the one before it while the next one *)
(* is being written, is the last one completed.                            *)
RecordStored ==
  ~torn =>
    /\ pc = "run" => cells[addr] = Image[stored]
    /\ pc = "program" /\ addr > 0 => cells[addr - 1] = Image[stored]

IInv == TypeOK /\ LogSound /\ RecordStored

(* The initial states meet the invariant. *)
LEMMA InitInv == Init => IInv
<1> SUFFICES ASSUME Init PROVE LogSound /\ RecordStored
  BY InitType DEF IInv
<1>1. Filled(cells, addr - 1)
  BY NSlotsAssumption DEF Init, Filled, Slot
<1> QED
  BY <1>1 DEF Init, LogSound, RecordStored

(* The invariant is inductive. *)
LEMMA NextInv == IInv /\ [Next]_vars => IInv'
<1> SUFFICES ASSUME IInv, [Next]_vars PROVE LogSound' /\ RecordStored'
  BY NextType DEF IInv
<1>t. TypeOK /\ TypeOK'
  BY NextType DEF IInv
<1> USE NSlotsAssumption DEF TypeOK, Slot
<1>1. CASE BootFound
  <2>1. SUFFICES ASSUME ~torn
                 PROVE  Filled(cells, addr') /\ cells[addr'] = Image[ram']
    BY <1>1 DEF BootFound, LogSound, RecordStored
  <2>2. PICK l \in Slot : /\ IsTail(cells, l)
                          /\ addr' = l
                          /\ ram' = Decode(cells[l])
    BY <1>1 DEF BootFound
  <2>3. cells[addr'] = Image[ram']
    BY <2>2, TailRecovered, DecodeValid
  <2>4. PICK k \in {addr - 1, addr} : Filled(cells, k)
    BY <1>1, <2>1 DEF BootFound, IInv, LogSound
  <2>5. k # -1
    BY <2>2, <2>4, EmptyBlank, BlankRecovered
  <2>6. k \in Slot
    BY <1>t, <2>5
  <2>7. l = k
    BY <2>2, <2>4, <2>6, FilledTail, TailUnique
  <2> QED
    BY <2>2, <2>3, <2>4, <2>7
<1>2. CASE BootDefault
  BY <1>2 DEF BootDefault, LogSound, RecordStored
<1>3. CASE \E v \in {ZCL_ONOFF_STATUS_OFF, ZCL_ONOFF_STATUS_ON} : Change(v)
  BY <1>3 DEF Change, IInv, LogSound, RecordStored
<1>4. CASE Save
  <2>1. SUFFICES ASSUME ~torn, addr' # 0
                 PROVE  /\ Filled(cells, addr' - 1)
                        /\ cells[addr' - 1] = Image[stored]
    BY <1>4 DEF Save, LogSound, RecordStored
  <2>2. addr' - 1 = addr
    BY <1>4, <1>t, <2>1 DEF Save, NextSlot
  <2> QED
    BY <1>4, <2>1, <2>2 DEF Save, IInv, LogSound, RecordStored
<1>5. CASE Erase
  <2>1. SUFFICES ASSUME ~torn'
                 PROVE  /\ Filled(cells', addr' - 1)
                        /\ ~(addr' > 0)
    BY <1>5 DEF Erase, LogSound, RecordStored
  <2>2. addr = 0
    BY <1>5 DEF Erase, IInv, LogSound
  <2> QED
    BY <1>5, <2>2 DEF Erase, Filled
<1>6. CASE Program
  <2>1. SUFFICES ASSUME ~torn
                 PROVE  /\ Filled(cells', addr)
                        /\ cells'[addr] = Image[ram]
    BY <1>6 DEF Program, LogSound, RecordStored
  <2>2. Filled(cells, addr - 1)
    BY <1>6, <2>1 DEF Program, IInv, LogSound
  <2>3. cells[addr] = {}
    BY <1>t, <2>2 DEF Filled
  <2>4. cells'[addr] = Image[ram]
    BY <1>6, <1>t, <2>3 DEF Program
  <2>5. \A s \in Slot : s # addr => cells'[s] = cells[s]
    BY <1>6, <1>t DEF Program
  <2> QED
    BY <1>t, <2>2, <2>4, <2>5, DecodeImage DEF Filled
<1>7. CASE Cut
  BY <1>7 DEF Cut, IInv, LogSound, RecordStored
<1>8. CASE CutProgram
  <2>1. SUFFICES ASSUME ~torn'
                 PROVE  \E k \in {addr - 1, addr} : Filled(cells', k)
    BY <1>8 DEF CutProgram, LogSound, RecordStored
  <2>2. PICK S \in SUBSET Image[ram] :
          /\ cells' = [cells EXCEPT ![addr] = @ \cup S]
          /\ torn' = (torn \/ S \notin {{}, Image[ram]})
    BY <1>8 DEF CutProgram
  <2>3. ~torn /\ (S = {} \/ S = Image[ram])
    BY <2>1, <2>2
  <2>4. Filled(cells, addr - 1)
    BY <1>8, <2>3 DEF CutProgram, IInv, LogSound
  <2>5. cells[addr] = {}
    BY <1>t, <2>4 DEF Filled
  <2>6. /\ cells'[addr] = S
        /\ \A s \in Slot : s # addr => cells'[s] = cells[s]
    BY <1>t, <2>2, <2>5
  <2>7. CASE S = {}
    BY <1>t, <2>4, <2>5, <2>6, <2>7 DEF Filled
  <2>8. CASE S = Image[ram]
    BY <1>t, <2>4, <2>6, <2>8, DecodeImage DEF Filled
  <2> QED
    BY <2>3, <2>7, <2>8
<1>9. CASE CutErase
  BY <1>9 DEF CutErase, LogSound, RecordStored
<1>10. CASE UNCHANGED vars
  BY <1>10 DEF vars, IInv, LogSound, RecordStored
<1> QED
  BY <1>1, <1>2, <1>3, <1>4, <1>5, <1>6, <1>7, <1>8, <1>9, <1>10 DEF Next

(* The inductive invariant holds in every state. *)
LEMMA InvariantHolds == Spec => []IInv
BY InitInv, NextInv, PTL DEF Spec

(* A save never programs a slot that is not erased and never leaves a gap,  *)
(* as long as no flash operation has been cut since the last erase.        *)
THEOREM LogSoundHolds == Spec => []LogSound
<1>1. IInv => LogSound
  BY DEF IInv
<1> QED
  BY <1>1, InvariantHolds, PTL

(* A completed save is what a restart restores, under the same condition. *)
THEOREM SavedIsRestoredHolds == Spec => []SavedIsRestored
<1>1. IInv => SavedIsRestored
  BY FilledRecovered
     DEF IInv, TypeOK, LogSound, RecordStored, SavedIsRestored
<1> QED
  BY <1>1, InvariantHolds, PTL

-----------------------------------------------------------------------------
(* What a cut save leaves, and the refinement *)

(* A log filled up to the slot before addr restores the last complete save, *)
(* or the default when addr is the start of the sector.                    *)
LEMMA SavingRecovered ==
  ASSUME IInv, ~torn, pc = "program"
  PROVE  /\ Filled(cells, addr - 1)
         /\ cells[addr] = {}
         /\ Recovered(cells) = IF addr = 0 THEN ZCL_ONOFF_STATUS_OFF ELSE stored
<1> USE NSlotsAssumption DEF IInv, TypeOK, Slot
<1>1. Filled(cells, addr - 1)
  BY DEF LogSound
<1>2. cells[addr] = {}
  BY <1>1 DEF Filled
<1>3. CASE addr = 0
  <2>1. Filled(cells, -1)
    BY <1>1, <1>3 DEF Filled
  <2>2. Recovered(cells) = ZCL_ONOFF_STATUS_OFF
    BY <2>1, EmptyBlank, BlankRecovered
  <2> QED
    BY <1>1, <1>2, <1>3, <2>2
<1>4. CASE addr > 0
  <2> DEFINE k == addr - 1
  <2>1. k \in Slot /\ stored \in Status
    BY <1>4
  <2>2. cells[k] = Image[stored]
    BY <1>4 DEF RecordStored
  <2>3. Filled(cells, k)
    BY <1>1
  <2> HIDE DEF k
  <2>4. Recovered(cells) = stored
    BY <2>1, <2>2, <2>3, FilledRecovered
  <2> QED
    BY <1>1, <1>2, <1>4, <2>4
<1> QED
  BY <1>3, <1>4

(* Programming all or part of the record into the next erased slot: what   *)
(* was restored before still is, unless the slot holds a record now.       *)
LEMMA ProgramRecovered ==
  ASSUME IInv, ~torn, pc = "program", NEW S \in SUBSET Image[ram],
         cells' = [cells EXCEPT ![addr] = @ \cup S]
  PROVE  Recovered(cells') = IF Valid(S) THEN Decode(S) ELSE Recovered(cells)
<1> USE NSlotsAssumption DEF Slot
<1>t. TypeOK
  BY DEF IInv
<1>1. /\ Filled(cells, addr - 1)
      /\ cells[addr] = {}
  BY SavingRecovered
<1>2. /\ cells'[addr] = S
      /\ \A s \in Slot : s # addr => cells'[s] = cells[s]
  BY <1>t, <1>1 DEF TypeOK
<1>3. CASE Valid(S)
  <2>1. Filled(cells', addr)
    BY <1>t, <1>1, <1>2, <1>3 DEF Filled, TypeOK
  <2> QED
    BY <1>t, <1>2, <1>3, <2>1, FilledTail, TailRecovered DEF TypeOK
<1>4. CASE ~Valid(S)
  <2>2. CASE addr = 0
    <3>1. \A s \in Slot : s # addr => cells[s] = {}
      BY <1>1, <2>2 DEF Filled
    <3>2. Blank(cells')
      BY <1>2, <1>4, <3>1, ErasedInvalid DEF Blank
    <3> QED
      BY <1>4, <2>2, <3>2, BlankRecovered, SavingRecovered
  <2>3. CASE addr > 0
    <3> DEFINE k == addr - 1
    <3>1. k \in Slot /\ cells[k] = Image[stored] /\ stored \in Status
      BY <1>t, <2>3 DEF IInv, RecordStored, TypeOK
    <3>2. \A s \in 0 .. k : Valid(cells'[s])
      BY <1>t, <1>1, <1>2, <2>3 DEF Filled, TypeOK
    <3>3. k + 1 \in Slot => ~Valid(cells'[k + 1])
      <4>1. k + 1 = addr
        BY <1>t DEF TypeOK
      <4> QED
        BY <1>2, <1>4, <4>1
    <3>4. IsTail(cells', k)
      <4>1. 0 \in 0 .. k
        BY <3>1
      <4>2. \A s \in 0 .. 0 - 1 : ~Valid(cells'[s])
        OBVIOUS
      <4> QED
        BY <3>2, <3>3, <4>1, <4>2 DEF IsTail
    <3>5. cells'[k] = Image[stored]
      BY <1>2, <3>1
    <3>6. Recovered(cells') = stored
      <4> HIDE DEF k, Slot
      <4>1. Recovered(cells') = Decode(cells'[k])
        BY <3>1, <3>4, TailRecovered
      <4>2. Decode(Image[stored]) = stored
        BY <3>1, DecodeImage
      <4> QED
        BY <3>5, <4>1, <4>2
    <3> QED
      BY <1>4, <2>3, <3>6, SavingRecovered
  <2> QED
    BY <1>t, <2>2, <2>3 DEF TypeOK
<1> QED
  BY <1>3, <1>4

(* A cut while a record is programmed, with no damage before it: the state *)
(* before, the new one, or, with damage, one that remains of the new one.  *)
LEMMA CutProgramRecovered ==
  ASSUME IInv, ~torn, CutProgram
  PROVE  \/ Recovered(cells') \in {Recovered(cells), ram}
         \/ /\ Recovered(cells') \in Remains[ram]
            /\ ram # ZCL_ONOFF_STATUS_OFF =>
                 Recovered(cells') # ZCL_ONOFF_STATUS_OFF
            /\ torn'
<1>t. ram \in Status
  BY DEF IInv, TypeOK
<1>1. PICK S \in SUBSET Image[ram] :
        /\ cells' = [cells EXCEPT ![addr] = @ \cup S]
        /\ torn' = (torn \/ S \notin {{}, Image[ram]})
  BY DEF CutProgram
<1>2. Recovered(cells') = IF Valid(S) THEN Decode(S) ELSE Recovered(cells)
  BY <1>1, ProgramRecovered DEF CutProgram
<1>3. CASE Valid(S) /\ Decode(S) # ram
  <2>1. torn'
    BY <1>1, <1>3, <1>t, DecodeImage, ErasedInvalid
  <2> QED
    BY <1>2, <1>3, <1>t, <2>1, PartRemains, PartNotOff
<1> QED
  BY <1>2, <1>3

(* A power cut while a record is programmed leaves the old state (off right *)
(* after an erase), the new one, or, when the checksum accepts what is left *)
(* of the record, one that reads as on.                                    *)
THEOREM CutSaveErrsToOnHolds == Spec => CutSaveErrsToOn
<1> DEFINE Old == IF addr = 0 THEN ZCL_ONOFF_STATUS_OFF ELSE stored
<1>1. ASSUME IInv, CutProgram, ~torn
      PROVE  \/ Recovered(cells') \in {Old, ram}
             \/ Recovered(cells') # ZCL_ONOFF_STATUS_OFF /\ torn'
  <2>1. Recovered(cells) = Old
    BY <1>1, SavingRecovered DEF CutProgram
  <2> QED
    BY <1>1, <2>1, CutProgramRecovered
<1>2. IInv => [CutProgram /\ ~torn =>
                 \/ Recovered(cells') \in {Old, ram}
                 \/ Recovered(cells') # ZCL_ONOFF_STATUS_OFF /\ torn']_vars
  BY <1>1
<1> QED
  BY <1>2, InvariantHolds, PTL DEF CutSaveErrsToOn

(* Every step of the log is a step of the durable state it stands for. *)
LEMMA NextRefines ==
  ASSUME IInv, [Next]_vars
  PROVE  [Durable!Next]_Durable!vars
<1> USE DEF PhaseOf
<1>t. TypeOK
  BY DEF IInv
<1>r. Recovered(cells) \in Status /\ Recovered(cells') \in Status
  BY RecoveredType
<1>1. CASE BootFound
  <2>1. PICK l \in Slot : /\ IsTail(cells, l)
                          /\ ram' = Decode(cells[l])
    BY <1>1 DEF BootFound
  <2>2. ram' = Recovered(cells)
    BY <2>1, TailRecovered
  <2>3. Durable!Boot
    BY <1>1, <2>2 DEF BootFound, Durable!Boot
  <2> QED
    BY <2>3 DEF Durable!Next
<1>2. CASE BootDefault
  <2>1. Recovered(cells) = ZCL_ONOFF_STATUS_OFF
    BY <1>2, BlankRecovered DEF BootDefault
  <2>2. Durable!Boot
    BY <1>2, <2>1 DEF BootDefault, Durable!Boot
  <2> QED
    BY <2>2 DEF Durable!Next
<1>3. CASE \E v \in {ZCL_ONOFF_STATUS_OFF, ZCL_ONOFF_STATUS_ON} : Change(v)
  <2>1. Durable!Change
    BY <1>3, StatusAssumption DEF Change, Durable!Change
  <2> QED
    BY <2>1 DEF Durable!Next
<1>4. CASE Save
  <2>1. Durable!StartSave
    BY <1>4 DEF Save, Durable!StartSave
  <2> QED
    BY <2>1 DEF Durable!Next
<1>5. CASE Erase
  <2>1. Recovered(cells') = ZCL_ONOFF_STATUS_OFF
    BY <1>5, ErasedInvalid, BlankRecovered DEF Erase, Blank
  <2>2. Durable!Reclaim
    BY <1>5, <2>1 DEF Erase, Durable!Reclaim
  <2> QED
    BY <2>2 DEF Durable!Next
<1>6. CASE Program
  <2>1. ~torn => Recovered(cells') = ram
    <3>1. ram \in Status /\ Image[ram] \in SUBSET Image[ram]
      BY <1>t DEF TypeOK
    <3> QED
      BY <1>6, <3>1, ProgramRecovered, DecodeImage DEF Program
  <2>2. Durable!Commit
    BY <1>6, <1>r, <2>1 DEF Program, Durable!Commit
  <2> QED
    BY <2>2 DEF Durable!Next
<1>7. CASE Cut
  <2>1. Durable!PowerCut
    BY <1>7 DEF Cut, Durable!PowerCut
  <2> QED
    BY <2>1 DEF Durable!Next
<1>8. CASE CutProgram
  <2>1. torn' \in {torn, TRUE}
    BY <1>8, <1>t DEF CutProgram, TypeOK
  <2>2. \/ torn
        \/ Recovered(cells') \in {Recovered(cells), ram}
        \/ Recovered(cells') \in Remains[ram] /\ torn'
    BY <1>8, CutProgramRecovered
  <2>3. Durable!PowerCut
    BY <1>8, <1>r, <2>1, <2>2 DEF CutProgram, Durable!PowerCut
  <2> QED
    BY <2>3 DEF Durable!Next
<1>9. CASE CutErase
  <2>1. Durable!PowerCut
    BY <1>9, <1>r DEF CutErase, Durable!PowerCut
  <2> QED
    BY <2>1 DEF Durable!Next
<1>10. CASE UNCHANGED vars
  BY <1>10 DEF vars, Durable!vars
<1> QED
  BY <1>1, <1>2, <1>3, <1>4, <1>5, <1>6, <1>7, <1>8, <1>9, <1>10 DEF Next

(* The flash log implements the abstract durable state. *)
THEOREM Refinement == Spec => ImplementsDurableStatus
<1>1. Init => Durable!Init
  <2> SUFFICES ASSUME Init PROVE Durable!Init
    OBVIOUS
  <2>1. Recovered(cells) = ZCL_ONOFF_STATUS_OFF
    BY ErasedInvalid, BlankRecovered DEF Init, Blank
  <2> QED
    BY <2>1 DEF Init, Durable!Init, PhaseOf
<1>2. IInv /\ [Next]_vars => [Durable!Next]_Durable!vars
  BY NextRefines
<1> QED
  BY <1>1, <1>2, InvariantHolds, PTL
     DEF Spec, ImplementsDurableStatus, Durable!Spec

=============================================================================
