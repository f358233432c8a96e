---------------------------- MODULE Relay_proofs ----------------------------
(***************************************************************************)
(* Theorems about Relay, for every set of written values and any number of *)
(* records in a command.                                                   *)
(***************************************************************************)
EXTENDS Relay, SequenceTheorems, TLAPS

-----------------------------------------------------------------------------
(* Type correctness *)

(* The variables an on/off command changes. *)
RType ==
  /\ relay \in BOOLEAN
  /\ onOff \in BOOLEAN
  /\ status \in BOOLEAN
  /\ durable \in BOOLEAN

(* Relay, attribute and status keep their types when the relay is set, *)
LEMMA SetOnOffType ==
  ASSUME RType, NEW v \in BOOLEAN, SetOnOff(v)
  PROVE  RType'
<1>1. onOff' \in BOOLEAN /\ status' \in BOOLEAN
  BY DEF SetOnOff
<1>2. relay' \in BOOLEAN
  BY Zenon DEF SetOnOff, RType
<1>3. durable' \in BOOLEAN
  BY Zenon DEF SetOnOff, RType
<1> QED
  BY <1>1, <1>2, <1>3 DEF RType

(* by a command, *)
LEMMA CommandType ==
  ASSUME RType, cmdOnOff_on \/ cmdOnOff_off \/ cmdOnOff_toggle
  PROVE  RType'
BY SetOnOffType DEF cmdOnOff_on, cmdOnOff_off, cmdOnOff_toggle, RType

(* and at the first poll. *)
LEMMA FirstStartType ==
  ASSUME RType, switch_first_start
  PROVE  RType'
<1>1. \/ SetOnOff(status)
      \/ cmdOnOff_on \/ cmdOnOff_off \/ cmdOnOff_toggle
  BY Zenon DEF switch_first_start
<1> QED
  BY <1>1, SetOnOffType, CommandType DEF RType

(* Every command is a sequence of records. *)
LEMMA CommandsAreSequences ==
  ASSUME NEW recs \in Commands
  PROVE  /\ recs \in Seq(AllRecords)
         /\ recs # <<>>
         /\ \/ \A i \in 1 .. Len(recs) : recs[i] \in Records
            \/ \A i \in 1 .. Len(recs) : recs[i] \in CfgRecords
<1>1. PICK n \in 1 .. MaxRecs, R \in {Records, CfgRecords} :
        recs \in [1 .. n -> R]
  BY DEF Commands
<1>2. recs \in Seq(R) /\ Len(recs) = n
  <2>1. n \in Nat
    BY MaxRecsAssumption
  <2> QED
    BY <1>1, <2>1
<1>3. R \subseteq AllRecords
  BY DEF AllRecords
<1>4. \A i \in 1 .. Len(recs) : recs[i] \in R
  BY <1>1, <1>2
<1> QED
  BY <1>1, <1>2, <1>3, <1>4

(* What a record in progress looks like. *)
LEMMA NextRecord ==
  ASSUME TypeOK, request.todo # <<>>
  PROVE  /\ Head(request.todo) \in AllRecords
         /\ Tail(request.todo) \in Seq(AllRecords)
         /\ Head(request.todo).val \in Byte
         /\ Head(request.todo).id
              \in {"startUp", "type", "action", "decoupled"}
         /\ Head(request.todo).ok \in BOOLEAN
<1>1. request.todo \in Seq(AllRecords)
  BY DEF TypeOK, Requests
<1>2. /\ Head(request.todo) \in AllRecords
      /\ Tail(request.todo) \in Seq(AllRecords)
  BY <1>1
<1>3. \A r \in AllRecords :
        /\ r.val \in Byte
        /\ r.id \in {"startUp", "type", "action", "decoupled"}
        /\ r.ok \in BOOLEAN
  BY ValsAssumption DEF AllRecords, Records, CfgRecords
<1> QED
  BY <1>2, <1>3

(* The default settings are settings. *)
LEMMA DefaultType == DefaultSettings \in Settings
BY DEF DefaultSettings, Settings, ToOff, TypeMomentary, ActionOffOn,
       DecoupledOff, MaxNum, Byte

(* The attributes initialised from settings have their types. *)
LEMMA AttrsOfType ==
  ASSUME NEW s \in Settings
  PROVE  AttrsOf(s) \in Attrs
BY DEF Settings, AttrsOf, Attrs, Byte, MaxNum

(* No command under way is a state of the command. *)
LEMMA NoRequestType == NoRequest \in Requests
BY DEF NoRequest, Requests, Kinds

(* A device that is off has values of their types. *)
LEMMA InitType == Init => TypeOK
BY DefaultType, AttrsOfType, NoRequestType DEF Init, TypeOK

(* The write callback's cases. *)
LEMMA ContinueType ==
  ASSUME TypeOK, request.todo # <<>>, NEW b \in BOOLEAN, Continue(b)
  PROVE  request' \in Requests
<1>1. request \in Requests /\ Tail(request.todo) \in Seq(AllRecords)
  BY NextRecord DEF TypeOK
<1>2. (request.save \/ b) \in BOOLEAN
  OBVIOUS
<1> QED
  BY <1>1, <1>2 DEF Continue, Requests

(* What the cases of WriteSetting change. *)
CaseType ==
  /\ RType'
  /\ settings' \in Settings
  /\ attr' \in Attrs
  /\ request' \in Requests

(* No case: the value is the one in use. *)
LEMMA NothingWritten ==
  ASSUME TypeOK, request.todo # <<>>,
         UNCHANGED <<rvars, settings, attr>>, Continue(FALSE)
  PROVE  CaseType
BY ContinueType DEF CaseType, RType, rvars, TypeOK

(* A written start-up behaviour, *)
LEMMA WriteStartUpType ==
  ASSUME TypeOK, request.todo # <<>>, NEW v \in Byte, WriteStartUp(v)
  PROVE  CaseType
<1>1. CASE settings.startUp # v
  <2>1. settings' = [settings EXCEPT !.startUp = v]
    BY <1>1, Zenon DEF WriteStartUp
  <2>2. settings' \in Settings
    BY <2>1 DEF TypeOK, Settings
  <2>3. RType' /\ attr' \in Attrs
    BY <1>1, Zenon DEF WriteStartUp, RType, TypeOK
  <2>4. request' \in Requests
    BY <1>1, ContinueType DEF WriteStartUp
  <2> QED
    BY <2>2, <2>3, <2>4 DEF CaseType
<1>2. CASE settings.startUp = v
  BY <1>2, NothingWritten DEF WriteStartUp
<1> QED
  BY <1>1, <1>2

(* a written switch type, which may force the coupling, *)
LEMMA WriteTypeType ==
  ASSUME TypeOK, request.todo # <<>>, NEW v \in Byte, WriteType(v)
  PROVE  CaseType
<1> DEFINE forced(x) == IF v >= Multifunction THEN DecoupledOn ELSE x
<1>1. CASE v < MaxNum /\ settings.type # v
  <2>1. /\ settings' = [settings EXCEPT !.type = v, !.decoupled = forced(@)]
        /\ attr' = [attr EXCEPT !.type = v, !.decoupled = forced(@)]
        /\ IF v >= Multifunction THEN cmdOnOff_off ELSE UNCHANGED rvars
        /\ Continue(TRUE)
    BY <1>1, Zenon DEF WriteType
  <2>2. /\ forced(settings.decoupled) \in Byte
        /\ forced(attr.decoupled) \in Byte
    BY DEF TypeOK, Settings, Attrs, DecoupledOn, Byte
  <2> HIDE DEF forced
  <2>3. settings' \in Settings
    <3>1. v \in 0 .. MaxNum - 1
      BY <1>1 DEF Byte, MaxNum
    <3> QED
      BY <2>1, <2>2, <3>1 DEF TypeOK, Settings
  <2>4. attr' \in Attrs
    BY <2>1, <2>2 DEF TypeOK, Attrs
  <2>5. RType'
    <3>1. RType
      BY DEF TypeOK, RType
    <3>2. CASE v >= Multifunction
      BY <2>1, <3>1, <3>2, CommandType
    <3>3. CASE ~(v >= Multifunction)
      BY <2>1, <3>1, <3>3 DEF rvars, RType
    <3> QED
      BY <3>2, <3>3
  <2>6. request' \in Requests
    BY <2>1, ContinueType
  <2> QED
    BY <2>3, <2>4, <2>5, <2>6 DEF CaseType
<1>2. CASE ~(v < MaxNum /\ settings.type # v)
  <2>1. UNCHANGED <<rvars, settings, attr>> /\ Continue(FALSE)
    BY <1>2, Zenon DEF WriteType
  <2> QED
    BY <2>1, NothingWritten
<1> QED
  BY <1>1, <1>2

(* a written action, *)
LEMMA WriteActionType ==
  ASSUME TypeOK, request.todo # <<>>, NEW v \in Byte, WriteAction(v)
  PROVE  CaseType
<1>1. settings' \in Settings
  BY DEF WriteAction, TypeOK, Settings
<1>2. RType' /\ attr' \in Attrs
  BY DEF WriteAction, rvars, RType, TypeOK
<1>3. request' \in Requests
  BY ContinueType DEF WriteAction
<1> QED
  BY <1>1, <1>2, <1>3 DEF CaseType

(* a written coupling, *)
LEMMA WriteDecoupledType ==
  ASSUME TypeOK, request.todo # <<>>, NEW v \in Byte, WriteDecoupled(v)
  PROVE  CaseType
<1>1. CASE settings.decoupled # v
  <2>1. /\ cmdOnOff_off
        /\ \/ settings' = [settings EXCEPT !.decoupled = DecoupledOn]
           \/ settings' = [settings EXCEPT !.decoupled = v]
        /\ \/ attr' = [attr EXCEPT !.decoupled = DecoupledOn]
           \/ attr' = attr
        /\ Continue(TRUE)
    BY <1>1, Zenon DEF WriteDecoupled
  <2>a. DecoupledOn \in Byte
    BY DEF Byte, DecoupledOn
  <2>2. settings' \in Settings
    BY <2>1, <2>a DEF TypeOK, Settings
  <2>3. attr' \in Attrs
    BY <2>1, <2>a DEF TypeOK, Attrs
  <2>4. RType'
    BY <2>1, CommandType DEF TypeOK, RType
  <2>5. request' \in Requests
    BY <2>1, ContinueType
  <2> QED
    BY <2>2, <2>3, <2>4, <2>5 DEF CaseType
<1>2. CASE settings.decoupled = v
  <2>1. UNCHANGED <<rvars, settings, attr>> /\ Continue(FALSE)
    BY <1>2, Zenon DEF WriteDecoupled
  <2> QED
    BY <2>1, NothingWritten
<1> QED
  BY <1>1, <1>2

(* The four cases of WriteSetting. *)
LEMMA WriteSettingCases ==
  ASSUME TypeOK, WriteSetting
  PROVE  /\ request.todo # <<>>
         /\ \/ Head(request.todo).id = "startUp"
               /\ WriteStartUp(Head(request.todo).val)
            \/ Head(request.todo).id = "type"
               /\ WriteType(Head(request.todo).val)
            \/ Head(request.todo).id = "action"
               /\ WriteAction(Head(request.todo).val)
            \/ Head(request.todo).id = "decoupled"
               /\ WriteDecoupled(Head(request.todo).val)
<1> DEFINE r == Head(request.todo)
<1>1. request.todo # <<>>
  BY DEF WriteSetting
<1>2. r.id \in {"startUp", "type", "action", "decoupled"}
  BY <1>1, NextRecord
<1>3. r.id = "startUp" => WriteStartUp(r.val)
  BY Zenon DEF WriteSetting
<1>4. r.id = "type" => WriteType(r.val)
  BY Zenon DEF WriteSetting
<1>5. r.id = "action" => WriteAction(r.val)
  BY Zenon DEF WriteSetting
<1>6. r.id = "decoupled" => WriteDecoupled(r.val)
  BY Zenon DEF WriteSetting
<1> QED
  BY <1>1, <1>2, <1>3, <1>4, <1>5, <1>6

(* and hence every record the callback takes keeps the types. *)
LEMMA WriteSettingType ==
  ASSUME TypeOK, WriteSetting
  PROVE  CaseType
<1>1. request.todo # <<>> /\ Head(request.todo).val \in Byte
  BY WriteSettingCases, NextRecord
<1> QED
  BY <1>1, WriteSettingCases, WriteStartUpType, WriteTypeType,
     WriteActionType, WriteDecoupledType

(* Every step keeps the types. *)
LEMMA NextType == TypeOK /\ [Next]_vars => TypeOK'
<1> SUFFICES ASSUME TypeOK, [Next]_vars PROVE TypeOK'
  OBVIOUS
<1>r. RType
  BY DEF TypeOK, RType
<1>1. CASE Boot
  <2>1. settings' \in Settings
    BY <1>1, DefaultType DEF Boot, TypeOK
  <2>2. attr' \in Attrs
    BY <1>1, <2>1, AttrsOfType DEF Boot
  <2>3. onOff' \in BOOLEAN
    <3>1. \A su : StackStartUp(su, durable) \in BOOLEAN
      BY <1>r, Zenon DEF StackStartUp, RType
    <3> QED
      BY <1>1, <3>1 DEF Boot
  <2> QED
    <3>1. float' \in BOOLEAN
      BY <1>1 DEF Boot
    <3>2. /\ power' = "boot"
          /\ relay' = FALSE
          /\ status' = durable
          /\ request' = NoRequest
          /\ bypassed' = FALSE /\ repeated' = FALSE
          /\ UNCHANGED <<nv, durable, before>>
      BY <1>1 DEF Boot
    <3> QED
      BY <2>1, <2>2, <2>3, <3>1, <3>2, NoRequestType DEF TypeOK
<1>2. CASE PowerCut
  <2>1. before' \in SUBSET BOOLEAN
    BY <1>2 DEF PowerCut, TypeOK
  <2> QED
    BY <1>2, <2>1, NoRequestType DEF PowerCut, TypeOK
<1>3. CASE OnOffCommand
  BY <1>3, <1>r, CommandType DEF OnOffCommand, TypeOK, RType, cvars
<1>4. CASE ButtonSinglePressed
  BY <1>4, <1>r, CommandType DEF ButtonSinglePressed, TypeOK, RType, cvars
<1>5. CASE AppTask
  <2>1. RType' /\ float' \in BOOLEAN
    <3>1. CASE Floating
      <4>1. switch_first_start
        BY <1>5, <3>1 DEF AppTask
      <4> QED
        BY <1>r, <4>1, FirstStartType DEF switch_first_start
    <3>2. CASE ~Floating
      BY <1>5, <1>r, <3>2 DEF AppTask, RType, rvars, TypeOK
    <3> QED
      BY <3>1, <3>2
  <2> QED
    BY <1>5, <2>1 DEF AppTask, TypeOK, RType, cvars
<1>6. CASE SwitchClosed
  <2>1. cmdOnOff_on \/ cmdOnOff_off \/ cmdOnOff_toggle
    BY <1>6 DEF SwitchClosed
  <2> QED
    BY <1>6, <1>r, <2>1, CommandType DEF SwitchClosed, TypeOK, RType, cvars
<1>7. CASE SwitchOpened
  <2>1. cmdOnOff_on \/ cmdOnOff_off \/ cmdOnOff_toggle
    BY <1>7 DEF SwitchOpened
  <2> QED
    BY <1>7, <1>r, <2>1, CommandType DEF SwitchOpened, TypeOK, RType, cvars
<1>8. CASE WriteArrives
  <2>1. PICK kind \in Kinds, recs \in Commands :
          /\ request' = [stage |-> "attrs", kind |-> kind, recs |-> recs,
                         todo |-> recs, save |-> FALSE]
          /\ bypassed' = \/ bypassed
                         \/ kind # "write"
                         \/ \E i \in DOMAIN recs : ~recs[i].ok
    BY <1>8 DEF WriteArrives
  <2>2. request' \in Requests
    BY <2>1, CommandsAreSequences DEF Requests
  <2>3. bypassed' \in BOOLEAN
    BY <2>1
  <2> QED
    BY <1>8, <2>2, <2>3 DEF WriteArrives, TypeOK, rvars
<1>9. CASE WriteAttr
  <2>1. attr' \in Attrs
    <3> DEFINE r == Head(request.todo)
    <3>1. /\ r.val \in Byte
          /\ r.id \in {"startUp", "type", "action", "decoupled"}
      BY <1>9, NextRecord DEF WriteAttr
    <3>2. attr' = IF r.ok THEN [attr EXCEPT ![Field(r.id)] = r.val] ELSE attr
      BY <1>9 DEF WriteAttr
    <3>3. Field(r.id) \in {"startUp", "custom", "action", "decoupled"}
      BY <3>1 DEF Field
    <3>4. attr \in Attrs
      BY DEF TypeOK
    <3> QED
      BY <3>1, <3>2, <3>3, <3>4 DEF Attrs
  <2>2. request' \in Requests
    BY <1>9, NextRecord DEF WriteAttr, TypeOK, Requests
  <2> QED
    BY <1>9, <2>1, <2>2 DEF WriteAttr, TypeOK, rvars
<1>10. CASE WriteDispatch
  <2>1. request' \in Requests
    BY <1>10, NoRequestType DEF WriteDispatch, TypeOK, Requests
  <2> QED
    BY <1>10, <2>1 DEF WriteDispatch, TypeOK, rvars
<1>11. CASE WriteSetting
  BY <1>11, WriteSettingType DEF WriteSetting, CaseType, RType, TypeOK
<1>12. CASE WriteDone
  BY <1>12, NoRequestType DEF WriteDone, TypeOK, rvars
<1>13. CASE UNCHANGED vars
  BY <1>13 DEF vars, TypeOK
<1> QED
  BY <1>1, <1>2, <1>3, <1>4, <1>5, <1>6, <1>7, <1>8, <1>9, <1>10, <1>11,
     <1>12, <1>13 DEF Next

(* The type invariant, for every instance of the constants. *)
THEOREM TypeCorrect == Spec => []TypeOK
BY InitType, NextType, PTL DEF Spec

-----------------------------------------------------------------------------
(* Coupling and settings *)

Stored == IF nv = NoSettings THEN DefaultSettings ELSE nv

(* The settings and their copy change in three actions only. *)
LEMMA SettingsSteps ==
  ASSUME [Next]_vars
  PROVE  Boot \/ WriteSetting \/ WriteDone \/ UNCHANGED <<settings, nv>>
BY DEF Next, vars, cvars, PowerCut, OnOffCommand, ButtonSinglePressed, AppTask,
       SwitchClosed, SwitchOpened, WriteArrives, WriteAttr, WriteDispatch

(* Settings are told apart from no settings. *)
LEMMA SettingsStored ==
  ASSUME NEW s \in Settings
  PROVE  s # NoSettings
<1>1. "none" \notin DOMAIN s
  BY DEF Settings
<1>2. "none" \in DOMAIN NoSettings
  BY DEF NoSettings
<1> QED
  BY <1>1, <1>2

(* What a restart restores are settings. *)
LEMMA StoredType ==
  ASSUME TypeOK
  PROVE  Stored \in Settings
BY DefaultType DEF Stored, TypeOK

DecoupledIn(s) == s.type >= Multifunction => s.decoupled # DecoupledOff

(* The property speaks of the settings in memory and of those in NV. *)
LEMMA DecoupledParts ==
  MultifunctionDecoupled <=>
    DecoupledIn(settings) /\ (nv # NoSettings => DecoupledIn(nv))
BY DEF MultifunctionDecoupled, DecoupledIn

(* Every case of the write callback keeps the coupling off where it must be. *)
LEMMA WriteKeepsDecoupled ==
  ASSUME TypeOK, WriteSetting, DecoupledIn(settings)
  PROVE  DecoupledIn(settings)'
<1> DEFINE v == Head(request.todo).val
<1>1. settings \in Settings /\ v \in Byte /\ request.todo # <<>>
  BY WriteSettingCases, NextRecord DEF TypeOK
<1> HIDE DEF v
<1>2. CASE WriteStartUp(v)
  <2>1. settings' = [settings EXCEPT !.startUp = v] \/ settings' = settings
    BY <1>2, Zenon DEF WriteStartUp
  <2> QED
    BY <1>1, <2>1 DEF DecoupledIn, Settings
<1>3. CASE WriteType(v)
  <2>1. CASE v < MaxNum /\ settings.type # v
    <3>1. settings' = [settings EXCEPT !.type = v,
                        !.decoupled = IF v >= Multifunction
                                        THEN DecoupledOn ELSE @]
      BY <1>3, <2>1, Zenon DEF WriteType
    <3>2. /\ settings'.type = v
          /\ v >= Multifunction => settings'.decoupled = DecoupledOn
      BY <1>1, <3>1 DEF Settings
    <3> QED
      BY <3>2 DEF DecoupledIn, DecoupledOn, DecoupledOff
  <2>2. CASE ~(v < MaxNum /\ settings.type # v)
    <3>1. settings' = settings
      BY <1>3, <2>2, Zenon DEF WriteType
    <3> QED
      BY <3>1 DEF DecoupledIn
  <2> QED
    BY <2>1, <2>2
<1>4. CASE WriteAction(v)
  BY <1>1, <1>4 DEF WriteAction, DecoupledIn, Settings
<1>5. CASE WriteDecoupled(v)
  <2>1. CASE settings.decoupled # v
    <3>1. IF v = DecoupledOff /\ settings.type >= Multifunction
            THEN settings' = [settings EXCEPT !.decoupled = DecoupledOn]
            ELSE settings' = [settings EXCEPT !.decoupled = v]
      BY <1>5, <2>1, Zenon DEF WriteDecoupled
    <3> QED
      BY <1>1, <3>1 DEF DecoupledIn, Settings, DecoupledOn, DecoupledOff
  <2>2. CASE settings.decoupled = v
    <3>1. settings' = settings
      BY <1>5, <2>2, Zenon DEF WriteDecoupled
    <3> QED
      BY <3>1 DEF DecoupledIn
  <2> QED
    BY <2>1, <2>2
<1> QED
  BY <1>2, <1>3, <1>4, <1>5, WriteSettingCases DEF v

(* No step couples a multi-function switch. *)
LEMMA NextDecoupled ==
  ASSUME TypeOK, MultifunctionDecoupled, [Next]_vars
  PROVE  MultifunctionDecoupled'
<1>1. /\ DecoupledIn(settings)
      /\ nv # NoSettings => DecoupledIn(nv)
  BY DecoupledParts
<1>2. CASE Boot
  <2>1. DecoupledIn(DefaultSettings)
    BY DEF DecoupledIn, DefaultSettings, TypeMomentary, Multifunction
  <2>2. DecoupledIn(settings')
    BY <1>1, <1>2, <2>1 DEF Boot
  <2>3. nv' = nv
    BY <1>2 DEF Boot
  <2> QED
    BY <1>1, <2>2, <2>3 DEF MultifunctionDecoupled, DecoupledIn
<1>3. CASE WriteSetting
  <2>1. DecoupledIn(settings)' /\ nv' = nv
    BY <1>1, <1>3, WriteKeepsDecoupled DEF WriteSetting
  <2> QED
    BY <1>1, <2>1 DEF MultifunctionDecoupled, DecoupledIn
<1>4. CASE WriteDone
  BY <1>1, <1>4 DEF WriteDone, MultifunctionDecoupled, DecoupledIn
<1>5. CASE UNCHANGED <<settings, nv>>
  BY <1>5 DEF MultifunctionDecoupled
<1> QED
  BY <1>2, <1>3, <1>4, <1>5, SettingsSteps

(* A multi-function or light-control switch is never coupled to the relay, *)
(* whatever is written, in whatever order, and wherever power fails.       *)
THEOREM MultifunctionDecoupledHolds == Spec => []MultifunctionDecoupled
<1>1. Init => MultifunctionDecoupled
  BY DEF Init, MultifunctionDecoupled, DefaultSettings, TypeMomentary,
         Multifunction
<1>2. TypeOK /\ MultifunctionDecoupled /\ [Next]_vars
        => MultifunctionDecoupled'
  BY NextDecoupled
<1> QED
  BY <1>1, <1>2, TypeCorrect, PTL DEF Spec

-----------------------------------------------------------------------------
(* Settings and NV *)

(* SettingsSaved between commands, and within the write callback a pending *)
(* save wherever the settings differ from their copy.                      *)
SavedInv ==
  power # "off" =>
    \/ settings = Stored
    \/ request.stage = "callback" /\ request.save

(* Between commands the invariant is the property. *)
LEMMA SavedImplies == SavedInv => SettingsSaved
BY DEF SavedInv, SettingsSaved, Stored

(* Every case takes the record; one that changes the settings asks for a    *)
(* save.                                                                   *)
LEMMA CaseContinues ==
  ASSUME TypeOK, WriteSetting
  PROVE  \E b \in BOOLEAN : Continue(b) /\ (settings' # settings => b)
<1> DEFINE v == Head(request.todo).val
<1>1. settings \in Settings
  BY DEF TypeOK
<1> HIDE DEF v
<1>2. CASE WriteStartUp(v)
  <2>1. \/ Continue(TRUE)
        \/ Continue(FALSE) /\ settings' = settings
    BY <1>2, Zenon DEF WriteStartUp
  <2> QED
    BY <2>1
<1>3. CASE WriteType(v)
  <2>1. \/ Continue(TRUE)
        \/ Continue(FALSE) /\ settings' = settings
    BY <1>3, Zenon DEF WriteType
  <2> QED
    BY <2>1
<1>4. CASE WriteAction(v)
  <2>1. /\ Continue(settings.action # v)
        /\ settings' = [settings EXCEPT !.action = v]
    BY <1>4 DEF WriteAction
  <2>2. settings.action = v => settings' = settings
    BY <1>1, <2>1 DEF Settings
  <2> QED
    BY <2>1, <2>2
<1>5. CASE WriteDecoupled(v)
  <2>1. \/ Continue(TRUE)
        \/ Continue(FALSE) /\ settings' = settings
    BY <1>5, Zenon DEF WriteDecoupled
  <2> QED
    BY <2>1
<1> QED
  BY <1>2, <1>3, <1>4, <1>5, WriteSettingCases DEF v

(* Every case of the callback that changes a setting asks for a save. *)
LEMMA ChangeAsksForSave ==
  ASSUME TypeOK, WriteSetting
  PROVE  /\ request'.stage = request.stage
         /\ request'.todo = Tail(request.todo)
         /\ request.save => request'.save
         /\ settings' # settings => request'.save
<1>1. request \in Requests
  BY DEF TypeOK
<1> QED
  BY <1>1, CaseContinues DEF Continue, Requests

(* Every step keeps settings and NV together, or a save pending. *)
LEMMA NextSaved ==
  ASSUME TypeOK, SavedInv, [Next]_vars
  PROVE  SavedInv'
<1>1. CASE Boot
  BY <1>1 DEF Boot, SavedInv, Stored
<1>2. CASE WriteSetting
  <2>1. /\ power = "on" /\ power' = power /\ nv' = nv
        /\ request.stage = "callback"
    BY <1>2 DEF WriteSetting
  <2> QED
    BY <1>2, <2>1, ChangeAsksForSave DEF SavedInv, Stored
<1>3. CASE WriteDone
  <2>1. /\ power = "on" /\ settings' = settings
        /\ nv' = IF request.save THEN settings ELSE nv
    BY <1>3 DEF WriteDone
  <2>2. CASE request.save
    BY <2>1, <2>2, SettingsStored DEF SavedInv, Stored, TypeOK
  <2>3. CASE ~request.save
    BY <2>1, <2>3 DEF SavedInv, Stored
  <2> QED
    BY <2>2, <2>3
<1>4. CASE PowerCut
  BY <1>4 DEF PowerCut, SavedInv
<1>5. CASE WriteDispatch
  <2>1. /\ power = "on" /\ settings' = settings /\ nv' = nv
        /\ request.stage = "attrs"
    BY <1>5 DEF WriteDispatch, rvars
  <2> QED
    BY <2>1 DEF SavedInv, Stored
<1>6. CASE WriteArrives
  <2>1. /\ power = "on" /\ settings' = settings /\ nv' = nv
        /\ request.stage = "idle"
    BY <1>6 DEF WriteArrives, Ready
  <2> QED
    BY <2>1 DEF SavedInv, Stored
<1>7. CASE WriteAttr
  <2>1. /\ power = "on" /\ settings' = settings /\ nv' = nv
        /\ request.stage = "attrs"
    BY <1>7 DEF WriteAttr
  <2> QED
    BY <2>1 DEF SavedInv, Stored
<1>8. CASE OnOffCommand \/ ButtonSinglePressed \/ AppTask \/ SwitchClosed
           \/ SwitchOpened \/ UNCHANGED vars
  <2>1. UNCHANGED <<settings, nv, request>> /\ (power' # "off" => power # "off")
    BY <1>8 DEF OnOffCommand, ButtonSinglePressed, AppTask, SwitchClosed,
                SwitchOpened, vars, cvars
  <2> QED
    BY <2>1 DEF SavedInv, Stored
<1> QED
  BY <1>1, <1>2, <1>3, <1>4, <1>5, <1>6, <1>7, <1>8 DEF Next

(* Settings and NV agree, or a save is pending, in every state. *)
LEMMA SavedHolds == Spec => [](TypeOK /\ SavedInv)
<1>1. Init => SavedInv
  BY DEF Init, SavedInv
<1>2. TypeOK /\ SavedInv /\ [Next]_vars => SavedInv'
  BY NextSaved
<1> QED
  BY <1>1, <1>2, TypeCorrect, PTL DEF Spec

(* Between commands the settings in use are the ones a restart restores. *)
THEOREM SettingsSavedHolds == Spec => []SettingsSaved
BY SavedHolds, SavedImplies, PTL

-----------------------------------------------------------------------------
(* Relay, attribute and status *)

(* Before the first poll the switch floats: no type but a gesture type can  *)
(* skip the start-up behaviour.                                            *)
FollowInv == (power = "boot" => float) /\ RelayFollowsOnOff

(* Relay, attribute and status agree when the relay was set, *)
LEMMA SetOnOffFollows ==
  ASSUME NEW v, SetOnOff(v)
  PROVE  DeviceEn => relay' = onOff' /\ onOff' = status'
<1>1. onOff' = v /\ status' = v /\ (DeviceEn => relay' = v)
  BY Zenon DEF SetOnOff
<1> QED
  BY <1>1, Zenon

(* by a command, *)
LEMMA CommandFollows ==
  ASSUME cmdOnOff_on \/ cmdOnOff_off \/ cmdOnOff_toggle
  PROVE  DeviceEn => relay' = onOff' /\ onOff' = status'
BY SetOnOffFollows, Zenon DEF cmdOnOff_on, cmdOnOff_off, cmdOnOff_toggle

(* and at the first poll. *)
LEMMA FirstStartFollows ==
  ASSUME switch_first_start
  PROVE  DeviceEn => relay' = onOff' /\ onOff' = status'
<1>1. SetOnOff(status) \/ cmdOnOff_on \/ cmdOnOff_off \/ cmdOnOff_toggle
  BY Zenon DEF switch_first_start
<1> QED
  BY <1>1, SetOnOffFollows, CommandFollows, Zenon

(* A step of the write callback leaves the three alone or drives them off.  *)
LEMMA WriteFollows ==
  ASSUME TypeOK, WriteSetting
  PROVE  cmdOnOff_off \/ UNCHANGED <<relay, onOff, status>>
<1> DEFINE v == Head(request.todo).val
<1> HIDE DEF v
<1>1. CASE WriteStartUp(v)
  BY <1>1, Zenon DEF WriteStartUp, rvars
<1>2. CASE WriteType(v)
  <2>1. cmdOnOff_off \/ UNCHANGED rvars
    BY <1>2, Zenon DEF WriteType
  <2> QED
    BY <2>1 DEF rvars
<1>3. CASE WriteAction(v)
  BY <1>3 DEF WriteAction, rvars
<1>4. CASE WriteDecoupled(v)
  <2>1. cmdOnOff_off \/ UNCHANGED rvars
    BY <1>4, Zenon DEF WriteDecoupled
  <2> QED
    BY <2>1 DEF rvars
<1> QED
  BY <1>1, <1>2, <1>3, <1>4, WriteSettingCases DEF v

(* Every step keeps relay, attribute and status together. *)
LEMMA NextFollows ==
  ASSUME TypeOK, FollowInv, [Next]_vars
  PROVE  FollowInv'
<1>1. CASE Boot
  <2>1. ZeroedType < Multifunction
    BY DEF ZeroedType, TypeToggle, Multifunction
  <2>2. float' /\ power' = "boot"
    BY <1>1, <2>1, Zenon DEF Boot
  <2> QED
    BY <2>2 DEF FollowInv, RelayFollowsOnOff
<1>2. CASE PowerCut
  BY <1>2 DEF PowerCut, FollowInv, RelayFollowsOnOff
<1>3. CASE AppTask
  <2>1. power' = "on"
    BY <1>3 DEF AppTask
  <2>2. CASE Floating
    <3>1. switch_first_start
      BY <1>3, <2>2 DEF AppTask
    <3> QED
      BY <2>1, <3>1, FirstStartFollows DEF FollowInv, RelayFollowsOnOff
  <2>3. CASE ~Floating
    <3>1. power = "boot" /\ UNCHANGED <<rvars, float>>
      BY <1>3, <2>3 DEF AppTask
    <3> QED
      BY <2>1, <3>1 DEF FollowInv, RelayFollowsOnOff
  <2> QED
    BY <2>2, <2>3
<1>4. CASE OnOffCommand \/ ButtonSinglePressed \/ SwitchClosed \/ SwitchOpened
  <2>1. /\ power = "on" /\ power' = power /\ float' = float
        /\ cmdOnOff_on \/ cmdOnOff_off \/ cmdOnOff_toggle
    BY <1>4 DEF OnOffCommand, ButtonSinglePressed, SwitchClosed, SwitchOpened,
                Ready, LocalSwitch
  <2> QED
    BY <2>1, CommandFollows DEF FollowInv, RelayFollowsOnOff
<1>5. CASE WriteSetting
  <2>1. power = "on" /\ power' = power /\ float' = float
    BY <1>5 DEF WriteSetting
  <2>2. CASE cmdOnOff_off
    BY <2>1, <2>2, CommandFollows DEF FollowInv, RelayFollowsOnOff
  <2>3. CASE UNCHANGED <<relay, onOff, status>>
    BY <2>1, <2>3 DEF FollowInv, RelayFollowsOnOff
  <2> QED
    BY <1>5, <2>2, <2>3, WriteFollows
<1>6. CASE WriteArrives \/ WriteAttr \/ WriteDispatch \/ WriteDone
           \/ UNCHANGED vars
  <2>1. UNCHANGED <<power, float, relay, onOff, status>>
    BY <1>6 DEF WriteArrives, WriteAttr, WriteDispatch, WriteDone, rvars, vars
  <2> QED
    BY <2>1 DEF FollowInv, RelayFollowsOnOff
<1> QED
  BY <1>1, <1>2, <1>3, <1>4, <1>5, <1>6 DEF Next

(* Once the start-up behaviour has been applied, the relay, the attribute   *)
(* and the saved status agree.                                             *)
THEOREM RelayFollowsOnOffHolds == Spec => []RelayFollowsOnOff
<1>1. Init => FollowInv
  BY DEF Init, FollowInv, RelayFollowsOnOff
<1>2. TypeOK /\ FollowInv /\ [Next]_vars => FollowInv'
  BY NextFollows
<1>3. FollowInv => RelayFollowsOnOff
  BY DEF FollowInv
<1> QED
  BY <1>1, <1>2, <1>3, TypeCorrect, PTL DEF Spec

-----------------------------------------------------------------------------
(* The status and its durable copy *)

StartUpOnly(q) == \A i \in 1 .. Len(q) : q[i].id = "startUp"
NoStartUp(q) == \A i \in 1 .. Len(q) : q[i].id # "startUp"
AllOk(q) == \A i \in 1 .. Len(q) : q[i].ok
LastVal(q) == q[Len(q)].val

(* While the stack stores the attributes: either the command leaves         *)
(* StartUpOnOff alone, or the attribute is on its way to the last value.   *)
AttrsStage ==
  /\ request.kind = "write"
  /\ AllOk(request.todo)
  /\ \/ /\ NoStartUp(request.recs)
        /\ NoStartUp(request.todo)
        /\ attr.startUp = settings.startUp
     \/ /\ StartUpOnly(request.recs)
        /\ StartUpOnly(request.todo)
        /\ request.recs # <<>>
        /\ IF request.todo = <<>>
             THEN attr.startUp = LastVal(request.recs)
             ELSE LastVal(request.todo) = LastVal(request.recs)

(* In the callback: the same of the settings. *)
CallbackStage ==
  \/ /\ NoStartUp(request.todo)
     /\ attr.startUp = settings.startUp
     /\ settings.startUp = Stored.startUp
  \/ /\ StartUpOnly(request.todo)
     /\ attr.startUp = IF request.todo = <<>>
                         THEN settings.startUp ELSE LastVal(request.todo)

(* Wherever the settings or their copy call for the previous state, the     *)
(* log holds it.  It stays so because a command saves by the attribute,     *)
(* and the attribute, settings and copy agree whenever a command can run.  *)
DurableWhereNeeded ==
  settings.startUp > ToOn \/ Stored.startUp > ToOn => durable = status

DurInv ==
  power # "off" /\ ~bypassed =>
    /\ request.stage = "idle" => attr.startUp = settings.startUp
    /\ request.stage = "attrs" => AttrsStage
    /\ request.stage = "callback" => CallbackStage
    /\ DurableWhereNeeded

(* What is durable in memory and in NV is so in NV. *)
LEMMA DurImplies == DurInv => StatusDurable
BY DEF DurInv, StatusDurable, DurableWhereNeeded, Stored

(* Setting the relay saves the status where the attribute asks for it. *)
LEMMA SetOnOffDurable ==
  ASSUME NEW v, SetOnOff(v), attr.startUp > ToOn => durable = status
  PROVE  attr.startUp > ToOn => durable' = status'
<1> SUFFICES ASSUME attr.startUp > ToOn PROVE durable' = status'
  OBVIOUS
<1>1. CASE onOff # v \/ status # v
  BY <1>1, Zenon DEF SetOnOff
<1>2. CASE onOff = v /\ status = v
  <2>1. durable' = durable /\ status' = v
    BY <1>2, Zenon DEF SetOnOff
  <2> QED
    BY <1>2, <2>1, Zenon
<1> QED
  BY <1>1, <1>2

(* Commands and the first poll do nothing else than set the relay: *)
LEMMA CommandSets ==
  ASSUME cmdOnOff_on \/ cmdOnOff_off \/ cmdOnOff_toggle
  PROVE  \E v \in {TRUE, FALSE, ~status} : SetOnOff(v)
BY Zenon DEF cmdOnOff_on, cmdOnOff_off, cmdOnOff_toggle

(* what was proved of the one holds of the other. *)
LEMMA FirstStartSets ==
  ASSUME switch_first_start
  PROVE  \E v \in {TRUE, FALSE, status, ~status} : SetOnOff(v)
<1>1. SetOnOff(status) \/ cmdOnOff_on \/ cmdOnOff_off \/ cmdOnOff_toggle
  BY Zenon DEF switch_first_start
<1> QED
  BY <1>1, CommandSets, Zenon

(* The rest of a sequence that is not empty. *)
LEMMA Rest ==
  ASSUME NEW S, NEW q \in Seq(S), q # <<>>
  PROVE  /\ StartUpOnly(q) => Head(q).id = "startUp" /\ StartUpOnly(Tail(q))
         /\ NoStartUp(q) => Head(q).id # "startUp" /\ NoStartUp(Tail(q))
         /\ AllOk(q) => Head(q).ok /\ AllOk(Tail(q))
         /\ LastVal(q) = IF Tail(q) = <<>> THEN Head(q).val
                                          ELSE LastVal(Tail(q))
<1>1. /\ Len(q) \in Nat /\ Len(q) > 0
      /\ Head(q) = q[1]
      /\ Tail(q) \in Seq(S)
      /\ Len(Tail(q)) = Len(q) - 1
      /\ \A i \in 1 .. Len(Tail(q)) : Tail(q)[i] = q[i + 1]
  OBVIOUS
<1>2. \A i \in 1 .. Len(Tail(q)) : i + 1 \in 1 .. Len(q)
  BY <1>1
<1>3. 1 \in 1 .. Len(q)
  BY <1>1
<1>4. LastVal(q) = IF Tail(q) = <<>> THEN Head(q).val ELSE LastVal(Tail(q))
  <2>1. CASE Tail(q) = <<>>
    <3>1. Len(q) = 1
      BY <1>1, <2>1
    <3> QED
      BY <1>1, <2>1, <3>1 DEF LastVal
  <2>2. CASE Tail(q) # <<>>
    <3> DEFINE n == Len(Tail(q))
    <3>1. n \in 1 .. n /\ n + 1 = Len(q)
      BY <1>1, <2>2
    <3>2. Tail(q)[n] = q[Len(q)]
      BY <1>1, <3>1
    <3> QED
      BY <2>2, <3>2 DEF LastVal
  <2> QED
    BY <2>1, <2>2
<1> QED
  BY <1>1, <1>2, <1>3, <1>4 DEF StartUpOnly, NoStartUp, AllOk

(* The rest of the write callback's case keeps StartUpOnOff and drives the  *)
(* relay off at most.                                                      *)
LEMMA ConfigCase ==
  ASSUME TypeOK, WriteSetting, Head(request.todo).id # "startUp"
  PROVE  /\ settings'.startUp = settings.startUp
         /\ attr'.startUp = attr.startUp
         /\ cmdOnOff_off \/ UNCHANGED <<relay, onOff, status, durable>>
<1> DEFINE v == Head(request.todo).val
<1>1. settings \in Settings /\ attr \in Attrs
  BY DEF TypeOK
<1> HIDE DEF v
<1>2. CASE WriteType(v)
  <2>1. /\ \/ settings' = [settings EXCEPT !.type = v,
                             !.decoupled = IF v >= Multifunction
                                             THEN DecoupledOn ELSE @]
           \/ settings' = settings
        /\ \/ attr' = [attr EXCEPT !.type = v,
                         !.decoupled = IF v >= Multifunction
                                         THEN DecoupledOn ELSE @]
           \/ attr' = attr
        /\ cmdOnOff_off \/ UNCHANGED rvars
    BY <1>2, Zenon DEF WriteType
  <2> QED
    BY <1>1, <2>1 DEF Settings, Attrs, rvars
<1>3. CASE WriteAction(v)
  BY <1>1, <1>3 DEF WriteAction, Settings, rvars
<1>4. CASE WriteDecoupled(v)
  <2>1. /\ \/ settings' = [settings EXCEPT !.decoupled = DecoupledOn]
           \/ settings' = [settings EXCEPT !.decoupled = v]
           \/ settings' = settings
        /\ \/ attr' = [attr EXCEPT !.decoupled = DecoupledOn]
           \/ attr' = attr
        /\ cmdOnOff_off \/ UNCHANGED rvars
    BY <1>4, Zenon DEF WriteDecoupled
  <2> QED
    BY <1>1, <2>1 DEF Settings, Attrs, rvars
<1> QED
  BY <1>2, <1>3, <1>4, WriteSettingCases DEF v

(* What the callback does with a record of StartUpOnOff. *)
LEMMA StartUpCase ==
  ASSUME TypeOK, WriteSetting, Head(request.todo).id = "startUp"
  PROVE  /\ settings'.startUp = Head(request.todo).val
         /\ attr' = attr
         /\ status' = status
         /\ \/ settings' = settings /\ durable' = durable
            \/ durable' = IF settings'.startUp > ToOn THEN status ELSE durable
<1> DEFINE v == Head(request.todo).val
<1>1. settings \in Settings
  BY DEF TypeOK
<1> HIDE DEF v
<1>2. WriteStartUp(v)
  BY WriteSettingCases DEF v
<1>3. CASE settings.startUp # v
  <2>1. /\ settings' = [settings EXCEPT !.startUp = v]
        /\ durable' = IF v > ToOn THEN status ELSE durable
        /\ attr' = attr /\ status' = status
    BY <1>2, <1>3, Zenon DEF WriteStartUp
  <2>2. settings'.startUp = v
    BY <1>1, <2>1 DEF Settings
  <2> QED
    BY <2>1, <2>2, Zenon DEF v
<1>4. CASE settings.startUp = v
  <2>1. UNCHANGED <<rvars, settings, attr>>
    BY <1>2, <1>4, Zenon DEF WriteStartUp
  <2> QED
    BY <1>4, <2>1 DEF rvars, v
<1> QED
  BY <1>3, <1>4

(* A command between writes keeps the log up to date: attribute, settings   *)
(* and copy agree on StartUpOnOff.                                         *)
LEMMA CommandDur ==
  ASSUME SavedInv, DurInv, power # "off", request.stage = "idle",
         NEW v, SetOnOff(v), UNCHANGED <<cvars, bypassed>>
  PROVE  DurInv'
<1>1. UNCHANGED <<attr, settings, nv, request, bypassed>>
  BY DEF cvars
<1> SUFFICES ASSUME ~bypassed PROVE DurInv'
  BY <1>1 DEF DurInv
<1>2. attr.startUp = settings.startUp /\ settings = Stored
  BY DEF DurInv, SavedInv
<1>3. attr.startUp > ToOn => durable = status
  BY <1>2 DEF DurInv, DurableWhereNeeded
<1>4. attr.startUp > ToOn => durable' = status'
  BY <1>3, SetOnOffDurable
<1>5. DurableWhereNeeded'
  BY <1>1, <1>2, <1>4 DEF DurableWhereNeeded, Stored
<1> QED
  BY <1>1, <1>2, <1>5 DEF DurInv

(* A command arrives with all its records, *)
LEMMA ArriveDur ==
  ASSUME TypeOK, DurInv, WriteArrives
  PROVE  DurInv'
<1>1. PICK kind \in Kinds, recs \in Commands :
        /\ request' = [stage |-> "attrs", kind |-> kind, recs |-> recs,
                       todo |-> recs, save |-> FALSE]
        /\ bypassed' = \/ bypassed
                       \/ kind # "write"
                       \/ \E i \in DOMAIN recs : ~recs[i].ok
  BY DEF WriteArrives
<1>2. /\ power = "on" /\ request.stage = "idle"
      /\ UNCHANGED <<attr, settings, nv, durable, status>>
  BY DEF WriteArrives, Ready, rvars
<1> SUFFICES ASSUME ~bypassed' PROVE DurInv'
  BY DEF DurInv
<1>3. ~bypassed /\ kind = "write" /\ \A i \in DOMAIN recs : recs[i].ok
  BY <1>1
<1>4. attr.startUp = settings.startUp /\ DurableWhereNeeded
  BY <1>2, <1>3 DEF DurInv
<1>5. recs \in Seq(AllRecords) /\ recs # <<>> /\ DOMAIN recs = 1 .. Len(recs)
  BY CommandsAreSequences
<1>6. StartUpOnly(recs) \/ NoStartUp(recs)
  BY CommandsAreSequences DEF StartUpOnly, NoStartUp, Records, CfgRecords
<1>7. AllOk(recs)
  BY <1>3, <1>5 DEF AllOk
<1>8. /\ request'.stage = "attrs" /\ request'.kind = "write"
      /\ request'.recs = recs /\ request'.todo = recs
  BY <1>1, <1>3
<1>9. AttrsStage'
  BY <1>2, <1>4, <1>5, <1>6, <1>7, <1>8 DEF AttrsStage
<1>10. DurableWhereNeeded'
  BY <1>2, <1>4 DEF DurableWhereNeeded, Stored
<1> QED
  BY <1>8, <1>9, <1>10 DEF DurInv

(* the stack stores an attribute, *)
LEMMA AttrDur ==
  ASSUME TypeOK, DurInv, WriteAttr
  PROVE  DurInv'
<1> DEFINE r == Head(request.todo)
<1>1. /\ power = "on" /\ request.stage = "attrs" /\ request.todo # <<>>
      /\ attr' = IF r.ok THEN [attr EXCEPT ![Field(r.id)] = r.val] ELSE attr
      /\ request' = [request EXCEPT !.todo = Tail(@)]
      /\ UNCHANGED <<settings, nv, durable, status, bypassed>>
  BY DEF WriteAttr, rvars
<1> SUFFICES ASSUME ~bypassed PROVE DurInv'
  BY <1>1 DEF DurInv
<1>2. AttrsStage /\ DurableWhereNeeded
  BY <1>1 DEF DurInv
<1>3. request \in Requests /\ attr \in Attrs
  BY DEF TypeOK
<1>4. request.todo \in Seq(AllRecords)
  BY <1>3 DEF Requests
<1>5. /\ request'.stage = "attrs" /\ request'.kind = request.kind
      /\ request'.recs = request.recs /\ request'.todo = Tail(request.todo)
  BY <1>1, <1>3 DEF Requests
<1>6. r.ok /\ AllOk(Tail(request.todo))
  BY <1>1, <1>2, <1>4, Rest DEF AttrsStage
<1>7. attr' = [attr EXCEPT ![Field(r.id)] = r.val]
  BY <1>1, <1>6
<1>8. r.id \in {"startUp", "type", "action", "decoupled"}
  BY <1>1, NextRecord
<1> HIDE DEF r
<1>9. attr'.startUp = IF r.id = "startUp" THEN r.val ELSE attr.startUp
  BY <1>3, <1>7, <1>8 DEF Field, Attrs
<1>10. CASE NoStartUp(request.recs) /\ NoStartUp(request.todo)
            /\ attr.startUp = settings.startUp
  <2>1. r.id # "startUp" /\ NoStartUp(Tail(request.todo))
    BY <1>1, <1>4, <1>10, Rest DEF r
  <2> QED
    BY <1>1, <1>2, <1>5, <1>6, <1>9, <1>10, <2>1
    DEF DurInv, AttrsStage, DurableWhereNeeded, Stored
<1>11. CASE /\ StartUpOnly(request.recs) /\ StartUpOnly(request.todo)
            /\ request.recs # <<>>
            /\ LastVal(request.todo) = LastVal(request.recs)
  <2>1. r.id = "startUp" /\ StartUpOnly(Tail(request.todo))
    BY <1>1, <1>4, <1>11, Rest DEF r
  <2>2. LastVal(request.todo) = IF Tail(request.todo) = <<>> THEN r.val
                                  ELSE LastVal(Tail(request.todo))
    BY <1>1, <1>4, Rest DEF r
  <2> QED
    BY <1>1, <1>2, <1>5, <1>6, <1>9, <1>11, <2>1, <2>2
    DEF DurInv, AttrsStage, DurableWhereNeeded, Stored
<1> QED
  BY <1>1, <1>2, <1>10, <1>11 DEF AttrsStage

(* the application is called, or is not, *)
LEMMA DispatchDur ==
  ASSUME TypeOK, SavedInv, DurInv, WriteDispatch
  PROVE  DurInv'
<1>1. /\ power = "on" /\ request.stage = "attrs" /\ request.todo = <<>>
      /\ request' =
           IF request.kind = "write"
             THEN [NoRequest EXCEPT !.stage = "callback", !.todo = request.recs]
             ELSE NoRequest
      /\ UNCHANGED <<attr, settings, nv, durable, status, bypassed>>
  BY DEF WriteDispatch, rvars
<1> SUFFICES ASSUME ~bypassed PROVE DurInv'
  BY <1>1 DEF DurInv
<1>2. AttrsStage /\ DurableWhereNeeded
  BY <1>1 DEF DurInv
<1>3. settings = Stored
  BY <1>1 DEF SavedInv
<1>4. request'.stage = "callback" /\ request'.todo = request.recs
  BY <1>1, <1>2 DEF AttrsStage, NoRequest
<1>5. CallbackStage'
  BY <1>1, <1>2, <1>3, <1>4 DEF AttrsStage, CallbackStage, Stored
<1> QED
  BY <1>1, <1>2, <1>4, <1>5 DEF DurInv, DurableWhereNeeded, Stored

(* it takes a record, *)
LEMMA SettingDur ==
  ASSUME TypeOK, DurInv, WriteSetting
  PROVE  DurInv'
<1> DEFINE r == Head(request.todo)
<1>1. /\ power = "on" /\ request.stage = "callback" /\ request.todo # <<>>
      /\ UNCHANGED <<nv, bypassed>>
  BY DEF WriteSetting
<1> SUFFICES ASSUME ~bypassed PROVE DurInv'
  BY <1>1 DEF DurInv
<1>2. CallbackStage /\ DurableWhereNeeded
  BY <1>1 DEF DurInv
<1>3. request \in Requests /\ request.todo \in Seq(AllRecords)
  BY DEF TypeOK, Requests
<1>4. request'.stage = "callback" /\ request'.todo = Tail(request.todo)
  BY <1>1, ChangeAsksForSave
<1>5. Stored' = Stored
  BY <1>1 DEF Stored
<1> HIDE DEF r
<1>6. CASE r.id # "startUp"
  <2>1. /\ settings'.startUp = settings.startUp
        /\ attr'.startUp = attr.startUp
        /\ cmdOnOff_off \/ UNCHANGED <<relay, onOff, status, durable>>
    BY <1>6, ConfigCase DEF r
  <2>2. /\ NoStartUp(Tail(request.todo))
        /\ attr.startUp = settings.startUp
        /\ settings.startUp = Stored.startUp
    BY <1>1, <1>2, <1>3, <1>6, Rest DEF CallbackStage, r
  <2>3. attr.startUp > ToOn => durable' = status'
    BY <1>2, <2>1, <2>2, SetOnOffDurable DEF DurableWhereNeeded, cmdOnOff_off
  <2> QED
    BY <1>4, <1>5, <2>1, <2>2, <2>3
    DEF DurInv, CallbackStage, DurableWhereNeeded
<1>7. CASE r.id = "startUp"
  <2>1. /\ settings'.startUp = r.val
        /\ attr' = attr
        /\ status' = status
        /\ \/ settings' = settings /\ durable' = durable
           \/ durable' = IF settings'.startUp > ToOn THEN status ELSE durable
    BY <1>7, StartUpCase DEF r
  <2>2. /\ StartUpOnly(Tail(request.todo))
        /\ attr.startUp = IF Tail(request.todo) = <<>> THEN r.val
                            ELSE LastVal(Tail(request.todo))
    BY <1>1, <1>2, <1>3, <1>7, Rest DEF CallbackStage, r
  <2>3. DurableWhereNeeded'
    BY <1>2, <1>5, <2>1 DEF DurableWhereNeeded
  <2> QED
    BY <1>4, <2>1, <2>2, <2>3 DEF DurInv, CallbackStage
<1> QED
  BY <1>6, <1>7

(* and saves: none of them loses the status a restart needs. *)
LEMMA DoneDur ==
  ASSUME TypeOK, DurInv, WriteDone
  PROVE  DurInv'
<1>1. /\ power = "on" /\ request.stage = "callback" /\ request.todo = <<>>
      /\ nv' = IF request.save THEN settings ELSE nv
      /\ request' = NoRequest
      /\ UNCHANGED <<attr, settings, durable, status, bypassed>>
  BY DEF WriteDone, rvars
<1> SUFFICES ASSUME ~bypassed PROVE DurInv'
  BY <1>1 DEF DurInv
<1>2. CallbackStage /\ DurableWhereNeeded
  BY <1>1 DEF DurInv
<1>3. attr.startUp = settings.startUp
  BY <1>1, <1>2 DEF CallbackStage
<1>4. Stored' = settings \/ Stored' = Stored
  BY <1>1, SettingsStored DEF Stored, TypeOK
<1>5. DurableWhereNeeded'
  BY <1>1, <1>2, <1>4 DEF DurableWhereNeeded
<1>6. request'.stage = "idle"
  BY <1>1 DEF NoRequest
<1> QED
  BY <1>1, <1>3, <1>5, <1>6 DEF DurInv

(* Every step keeps the status durable where a restart needs it. *)
LEMMA NextDur ==
  ASSUME TypeOK, SavedInv, DurInv, [Next]_vars
  PROVE  DurInv'
<1>1. CASE Boot
  <2>1. /\ status' = durable /\ durable' = durable /\ nv' = nv
        /\ settings' = Stored /\ attr' = AttrsOf(settings')
        /\ request' = NoRequest
    BY <1>1 DEF Boot, Stored
  <2> QED
    BY <2>1 DEF DurInv, DurableWhereNeeded, AttrsOf, NoRequest, Stored
<1>2. CASE PowerCut
  BY <1>2 DEF PowerCut, DurInv
<1>3. CASE OnOffCommand \/ ButtonSinglePressed \/ SwitchClosed \/ SwitchOpened
  <2>1. /\ power # "off" /\ request.stage = "idle"
        /\ UNCHANGED <<cvars, bypassed>>
    BY <1>3 DEF OnOffCommand, ButtonSinglePressed, SwitchClosed, SwitchOpened,
                LocalSwitch, Ready
  <2>2. cmdOnOff_on \/ cmdOnOff_off \/ cmdOnOff_toggle
    BY <1>3, Zenon DEF OnOffCommand, ButtonSinglePressed, SwitchClosed,
                       SwitchOpened
  <2> QED
    BY <2>1, <2>2, CommandSets, CommandDur
<1>4. CASE AppTask
  <2>1. /\ power # "off" /\ request.stage = "idle"
        /\ UNCHANGED <<cvars, bypassed>>
    BY <1>4 DEF AppTask
  <2>2. CASE switch_first_start
    BY <2>1, <2>2, FirstStartSets, CommandDur
  <2>3. CASE UNCHANGED rvars
    <3>1. UNCHANGED <<attr, settings, nv, request, bypassed, status, durable>>
      BY <2>1, <2>3 DEF cvars, rvars
    <3> QED
      BY <2>1, <3>1 DEF DurInv, DurableWhereNeeded, Stored
  <2> QED
    BY <1>4, <2>2, <2>3, Zenon DEF AppTask
<1>5. CASE WriteArrives
  BY <1>5, ArriveDur
<1>6. CASE WriteAttr
  BY <1>6, AttrDur
<1>7. CASE WriteDispatch
  BY <1>7, DispatchDur
<1>8. CASE WriteSetting
  BY <1>8, SettingDur
<1>9. CASE WriteDone
  BY <1>9, DoneDur
<1>10. CASE UNCHANGED vars
  <2>1. UNCHANGED <<power, attr, settings, nv, request, bypassed, status,
                    durable>>
    BY <1>10 DEF vars
  <2> QED
    BY <2>1 DEF DurInv, DurableWhereNeeded, AttrsStage, CallbackStage, Stored
<1> QED
  BY <1>1, <1>2, <1>3, <1>4, <1>5, <1>6, <1>7, <1>8, <1>9, <1>10 DEF Next

(* The status is durable where a restart needs it, in every state. *)
LEMMA DurHolds == Spec => [](TypeOK /\ SavedInv /\ DurInv)
<1>1. Init => DurInv
  BY DEF Init, DurInv
<1>2. TypeOK /\ SavedInv /\ DurInv /\ [Next]_vars => DurInv'
  BY NextDur
<1> QED
  BY <1>1, <1>2, SavedHolds, PTL DEF Spec

(* Whenever the stored StartUpOnOff depends on the state before the power   *)
(* cut, the log holds the current state.                                   *)
THEOREM StatusDurableHolds == Spec => []StatusDurable
BY DurHolds, DurImplies, PTL

-----------------------------------------------------------------------------
(* The start-up behaviour *)

(* From a power cut to the first poll: the log still holds the status at    *)
(* the cut if the stored setting depends on it, and a boot has read both.  *)
HonourInv ==
  /\ power # "on" =>
       \A v \in before : Stored.startUp > ToOn => durable = v
  /\ power = "boot" =>
       /\ request.stage = "idle"
       /\ ~bypassed
       /\ status = durable
       /\ settings = Stored

(* The start-up behaviour stays what the cut left until the first poll. *)
LEMMA NextHonour ==
  ASSUME TypeOK, DurInv, HonourInv, [Next]_vars
  PROVE  HonourInv'
<1>1. CASE Boot
  <2>1. /\ power = "off"
        /\ status' = durable /\ settings' = Stored
        /\ request' = NoRequest /\ bypassed' = FALSE
        /\ UNCHANGED <<nv, durable, before>>
    BY <1>1 DEF Boot, Stored
  <2> QED
    BY <2>1 DEF HonourInv, NoRequest, Stored
<1>2. CASE PowerCut
  <2>1. /\ power # "off" /\ power' = "off"
        /\ before' = IF bypassed THEN {} ELSE {status}
        /\ UNCHANGED <<nv, durable>>
    BY <1>2 DEF PowerCut
  <2>2. ~bypassed /\ Stored.startUp > ToOn => durable = status
    BY <2>1 DEF DurInv, DurableWhereNeeded
  <2> QED
    BY <2>1, <2>2 DEF HonourInv, Stored
<1>3. CASE \/ OnOffCommand \/ ButtonSinglePressed \/ AppTask \/ SwitchClosed
           \/ SwitchOpened \/ WriteArrives \/ WriteAttr \/ WriteDispatch
           \/ WriteSetting \/ WriteDone
  <2>1. power' = "on"
    BY <1>3 DEF OnOffCommand, ButtonSinglePressed, AppTask, SwitchClosed,
                SwitchOpened, LocalSwitch, Ready, WriteArrives, WriteAttr,
                WriteDispatch, WriteSetting, WriteDone
  <2> QED
    BY <2>1 DEF HonourInv
<1>4. CASE UNCHANGED vars
  BY <1>4 DEF vars, HonourInv, Stored
<1> QED
  BY <1>1, <1>2, <1>3, <1>4 DEF Next

(* What the first poll does with the relay. *)
LEMMA FirstPoll ==
  ASSUME TypeOK, HonourInv, AppTask, power = "boot", Floating,
         NEW v \in before
  PROVE  relay' = CASE settings.startUp = ToOn       -> TRUE
                    [] settings.startUp = ToPrevious -> v
                    [] settings.startUp = ToToggle   -> ~v
                    [] OTHER                         -> FALSE
<1>1. DeviceEn /\ switch_first_start
  BY Zenon DEF AppTask, Floating
<1>2. settings.startUp > ToOn => status = v
  BY DEF HonourInv
<1>3. \A x : SetOnOff(x) => relay' = x
  BY <1>1, Zenon DEF SetOnOff
<1>4. CASE settings.startUp = ToOn
  <2>1. settings.startUp # ToPrevious /\ settings.startUp # ToToggle
    BY <1>4 DEF ToOn, ToPrevious, ToToggle
  <2>2. cmdOnOff_on
    BY <1>1, <1>4, <2>1, Zenon DEF switch_first_start
  <2>3. relay' = TRUE
    BY <1>2, <1>3, <1>4, <2>2 DEF cmdOnOff_on, ToOn, ToPrevious, ToToggle
  <2> QED
    BY <1>4, <2>1, <2>3, Zenon
<1>5. CASE settings.startUp = ToPrevious
  <2>1. settings.startUp # ToOn /\ settings.startUp # ToToggle
    BY <1>5 DEF ToOn, ToPrevious, ToToggle
  <2>2. SetOnOff(status)
    BY <1>1, <1>5, <2>1, Zenon DEF switch_first_start
  <2>3. relay' = v
    BY <1>2, <1>3, <1>5, <2>2 DEF ToOn, ToPrevious, ToToggle
  <2> QED
    BY <1>5, <2>1, <2>3, Zenon
<1>6. CASE settings.startUp = ToToggle
  <2>1. settings.startUp # ToOn /\ settings.startUp # ToPrevious
    BY <1>6 DEF ToOn, ToPrevious, ToToggle
  <2>2. cmdOnOff_toggle
    BY <1>1, <1>6, <2>1, Zenon DEF switch_first_start
  <2>3. relay' = ~v
    BY <1>2, <1>3, <1>6, <2>2 DEF cmdOnOff_toggle, ToOn, ToPrevious, ToToggle
  <2> QED
    BY <1>6, <2>1, <2>3, Zenon
<1>7. CASE settings.startUp \notin {ToOn, ToPrevious, ToToggle}
  <2>1. cmdOnOff_off
    BY <1>1, <1>7, Zenon DEF switch_first_start
  <2>2. relay' = FALSE
    BY <1>3, <2>1 DEF cmdOnOff_off
  <2> QED
    BY <1>7, <2>2, Zenon
<1> QED
  BY <1>4, <1>5, <1>6, <1>7

(* The first poll after a restart puts the relay where StartUpOnOff says.   *)
THEOREM StartUpHonouredHolds == Spec => StartUpHonoured
<1>1. Init => HonourInv
  BY DEF Init, HonourInv
<1>2. TypeOK /\ DurInv /\ HonourInv /\ [Next]_vars => HonourInv'
  BY NextHonour
<1> DEFINE Poll ==
  AppTask /\ power = "boot" /\ Floating =>
    \A v \in before :
      relay' = CASE settings.startUp = ToOn       -> TRUE
                 [] settings.startUp = ToPrevious -> v
                 [] settings.startUp = ToToggle   -> ~v
                 [] OTHER                         -> FALSE
<1>3. TypeOK /\ HonourInv /\ [Next]_vars => [Poll]_vars
  BY FirstPoll
<1>4. Spec => [][Poll]_vars
  <2> HIDE DEF Poll
  <2> QED
    BY <1>1, <1>2, <1>3, DurHolds, PTL DEF Spec
<1> QED
  BY <1>4 DEF StartUpHonoured

-----------------------------------------------------------------------------
(* Attributes and settings *)

Absent(q, id) == \A i \in 1 .. Len(q) : q[i].id # id
Once(q) == \A i, j \in 1 .. Len(q) : i # j => q[i].id # q[j].id
NoCoupling(q) ==
  \A i \in 1 .. Len(q) : q[i].id = "decoupled" => q[i].val # DecoupledOff

(* Storing the records of q turns the value d of id into v. *)
Lands(q, id, d, v) ==
  \/ Absent(q, id) /\ v = d
  \/ \E i \in 1 .. Len(q) :
       /\ q[i].id = id /\ q[i].val = v
       /\ \A j \in 1 .. Len(q) : j > i => q[j].id # id

(* While the stack stores the attributes, they are on their way to where    *)
(* the whole command takes the settings.                                   *)
StoringLands ==
  /\ request.kind = "write"
  /\ AllOk(request.todo)
  /\ \A v \in Byte : Lands(request.todo, "action", attr.action, v)
                       => Lands(request.recs, "action", settings.action, v)
  /\ Lands(request.todo, "decoupled", attr.decoupled, DecoupledOff)
       => Lands(request.recs, "decoupled", settings.decoupled, DecoupledOff)

StoringOnce ==
  /\ Once(request.recs) /\ Once(request.todo)
  /\ ~Absent(request.todo, "decoupled") =>
       /\ ~Absent(request.recs, "decoupled")
       /\ NoCoupling(request.todo) => NoCoupling(request.recs)
  /\ Absent(request.todo, "decoupled") /\ attr.decoupled # DecoupledOff =>
       IF Absent(request.recs, "decoupled")
         THEN settings.decoupled # DecoupledOff
         ELSE NoCoupling(request.recs)

(* In the callback the settings are on their way to the attributes.  An     *)
(* attribute that a gesture type has set to decoupled stays so: no other    *)
(* type may follow before the coupling that is still to come.              *)
CallbackLands ==
  /\ Lands(request.todo, "action", settings.action, attr.action)
  /\ attr.decoupled = DecoupledOff =>
       Lands(request.todo, "decoupled", settings.decoupled, DecoupledOff)

CallbackOnce ==
  /\ Once(request.todo)
  /\ attr.decoupled # DecoupledOff =>
       IF Absent(request.todo, "decoupled")
         THEN settings.decoupled # DecoupledOff
         ELSE \/ NoCoupling(request.todo)
              \/ settings.type >= Multifunction /\ Absent(request.todo, "type")

Agree ==
  /\ attr.action = settings.action
  /\ attr.decoupled = DecoupledOff => settings.decoupled = DecoupledOff

AgreeOnce == settings.decoupled = DecoupledOff => attr.decoupled = DecoupledOff

AttrInv ==
  power # "off" =>
    /\ attr.type = settings.type
    /\ ~bypassed =>
         /\ request.stage = "idle" => Agree /\ (~repeated => AgreeOnce)
         /\ request.stage = "attrs" =>
              StoringLands /\ (~repeated => StoringOnce)
         /\ request.stage = "callback" =>
              CallbackLands /\ (~repeated => CallbackOnce)

(* With DurInv, which has StartUpOnOff, this is what the runs check.        *)
LEMMA AttrImplies == DurInv /\ AttrInv => AttrsAreSettings
BY DEF DurInv, AttrInv, Agree, AgreeOnce, AttrsAreSettings

(* The first record of a sequence and the others. *)
LEMMA Parts ==
  ASSUME NEW S, NEW q \in Seq(S), q # <<>>
  PROVE  /\ \A id : Absent(q, id) <=> Head(q).id # id /\ Absent(Tail(q), id)
         /\ Once(q) => Once(Tail(q)) /\ Absent(Tail(q), Head(q).id)
         /\ NoCoupling(q) <=>
              /\ Head(q).id = "decoupled" => Head(q).val # DecoupledOff
              /\ NoCoupling(Tail(q))
<1>1. /\ Len(q) \in Nat /\ Len(q) > 0
      /\ Head(q) = q[1]
      /\ Len(Tail(q)) = Len(q) - 1
      /\ \A i \in 1 .. Len(Tail(q)) : Tail(q)[i] = q[i + 1]
  OBVIOUS
<1>2. \A i \in 1 .. Len(Tail(q)) : i + 1 \in 1 .. Len(q) /\ i + 1 # 1
  BY <1>1
<1>3. \A i \in 1 .. Len(q) : i = 1 \/ /\ i - 1 \in 1 .. Len(Tail(q))
                                      /\ q[i] = Tail(q)[i - 1]
  BY <1>1
<1>4. 1 \in 1 .. Len(q)
  BY <1>1
<1>5. \A id : Absent(q, id) <=> Head(q).id # id /\ Absent(Tail(q), id)
  <2> SUFFICES ASSUME NEW id
               PROVE Absent(q, id) <=> Head(q).id # id /\ Absent(Tail(q), id)
    OBVIOUS
  <2>1. Absent(q, id) => Head(q).id # id /\ Absent(Tail(q), id)
    BY <1>1, <1>2, <1>4 DEF Absent
  <2>2. Head(q).id # id /\ Absent(Tail(q), id) => Absent(q, id)
    BY <1>1, <1>3 DEF Absent
  <2> QED
    BY <2>1, <2>2
<1>6. Once(q) => Once(Tail(q)) /\ Absent(Tail(q), Head(q).id)
  BY <1>1, <1>2, <1>4 DEF Once, Absent
<1>7. NoCoupling(q) <=> /\ Head(q).id = "decoupled" =>
                             Head(q).val # DecoupledOff
                        /\ NoCoupling(Tail(q))
  <2>1. NoCoupling(q) => /\ Head(q).id = "decoupled" =>
                              Head(q).val # DecoupledOff
                         /\ NoCoupling(Tail(q))
    BY <1>1, <1>2, <1>4 DEF NoCoupling
  <2>2. /\ Head(q).id = "decoupled" => Head(q).val # DecoupledOff
        /\ NoCoupling(Tail(q))
        => NoCoupling(q)
    BY <1>1, <1>3 DEF NoCoupling
  <2> QED
    BY <2>1, <2>2
<1> QED
  BY <1>5, <1>6, <1>7

(* Storing the first record, then the others. *)
LEMMA LandsByParts ==
  ASSUME NEW S, NEW q \in Seq(S), q # <<>>, NEW id, NEW d, NEW v, NEW e,
         e = IF Head(q).id = id THEN Head(q).val ELSE d
  PROVE  Lands(q, id, d, v) <=> Lands(Tail(q), id, e, v)
<1>1. /\ Len(q) \in Nat /\ Len(q) > 0
      /\ Head(q) = q[1]
      /\ Len(Tail(q)) = Len(q) - 1
      /\ \A i \in 1 .. Len(Tail(q)) : Tail(q)[i] = q[i + 1]
  OBVIOUS
<1>2. Absent(q, id) <=> Head(q).id # id /\ Absent(Tail(q), id)
  BY Parts
<1> DEFINE Last(r, i) == /\ r[i].id = id /\ r[i].val = v
                         /\ \A j \in 1 .. Len(r) : j > i => r[j].id # id
<1>3. \A i \in 1 .. Len(Tail(q)) :
        i + 1 \in 1 .. Len(q) /\ (Last(Tail(q), i) <=> Last(q, i + 1))
  <2> SUFFICES ASSUME NEW i \in 1 .. Len(Tail(q))
               PROVE i + 1 \in 1 .. Len(q)
                     /\ (Last(Tail(q), i) <=> Last(q, i + 1))
    OBVIOUS
  <2>1. i + 1 \in 1 .. Len(q) /\ Tail(q)[i] = q[i + 1]
    BY <1>1
  <2>2. (\A j \in 1 .. Len(Tail(q)) : j > i => Tail(q)[j].id # id)
          <=> (\A j \in 1 .. Len(q) : j > i + 1 => q[j].id # id)
    <3>1. \A j \in 1 .. Len(Tail(q)) : j > i =>
            j + 1 \in 1 .. Len(q) /\ j + 1 > i + 1 /\ Tail(q)[j] = q[j + 1]
      BY <1>1
    <3>2. \A j \in 1 .. Len(q) : j > i + 1 =>
            j - 1 \in 1 .. Len(Tail(q)) /\ j - 1 > i /\ Tail(q)[j - 1] = q[j]
      BY <1>1
    <3> QED
      BY <3>1, <3>2
  <2> QED
    BY <2>1, <2>2
<1>4. Last(q, 1) <=> /\ Head(q).id = id /\ Head(q).val = v
                     /\ Absent(Tail(q), id)
  <2>1. (\A j \in 1 .. Len(q) : j > 1 => q[j].id # id)
          <=> Absent(Tail(q), id)
    <3>1. \A j \in 1 .. Len(Tail(q)) :
            j + 1 \in 1 .. Len(q) /\ j + 1 > 1 /\ Tail(q)[j] = q[j + 1]
      BY <1>1
    <3>2. \A j \in 1 .. Len(q) : j > 1 =>
            j - 1 \in 1 .. Len(Tail(q)) /\ Tail(q)[j - 1] = q[j]
      BY <1>1
    <3> QED
      BY <3>1, <3>2 DEF Absent
  <2> QED
    BY <1>1, <2>1
<1>5. \A i \in 1 .. Len(q) : i = 1 \/ /\ i - 1 \in 1 .. Len(Tail(q))
                                      /\ (i - 1) + 1 = i
  BY <1>1
<1>6. 1 \in 1 .. Len(q)
  BY <1>1
<1> HIDE DEF Last
<1>7. Lands(q, id, d, v) <=> \/ Absent(q, id) /\ v = d
                             \/ \E i \in 1 .. Len(q) : Last(q, i)
  BY DEF Lands, Last
<1>8. Lands(Tail(q), id, e, v) <=>
        \/ Absent(Tail(q), id) /\ v = e
        \/ \E i \in 1 .. Len(Tail(q)) : Last(Tail(q), i)
  BY DEF Lands, Last
<1>9. (\E i \in 1 .. Len(q) : Last(q, i)) <=>
        Last(q, 1) \/ \E i \in 1 .. Len(Tail(q)) : Last(Tail(q), i)
  BY <1>3, <1>5, <1>6
<1> QED
  BY <1>2, <1>4, <1>7, <1>8, <1>9

(* Nothing is left to store. *)
LEMMA NoParts ==
  /\ \A id, d, v : Lands(<<>>, id, d, v) <=> v = d
  /\ \A id : Absent(<<>>, id)
BY DEF Lands, Absent

(* What one case of the callback does with the switch's settings and        *)
(* attributes.                                                             *)
LEMMA CaseStartUp ==
  ASSUME TypeOK, NEW v, WriteStartUp(v)
  PROVE  /\ attr' = attr
         /\ settings'.type = settings.type
         /\ settings'.action = settings.action
         /\ settings'.decoupled = settings.decoupled
<1>1. /\ attr' = attr
      /\ settings' = settings \/ settings' = [settings EXCEPT !.startUp = v]
  BY Zenon DEF WriteStartUp
<1> QED
  BY <1>1 DEF TypeOK, Settings

(* WriteAction *)
LEMMA CaseAction ==
  ASSUME TypeOK, NEW v, WriteAction(v)
  PROVE  /\ attr' = attr
         /\ settings'.type = settings.type
         /\ settings'.action = v
         /\ settings'.decoupled = settings.decoupled
BY DEF WriteAction, TypeOK, Settings

(* WriteType: nothing, or the type, and with a gesture type the coupling.   *)
LEMMA CaseType2 ==
  ASSUME TypeOK, NEW v, WriteType(v)
  PROVE  \/ attr' = attr /\ settings' = settings
         \/ /\ settings'.type = v /\ attr'.type = v
            /\ settings'.action = settings.action
            /\ attr'.action = attr.action
            /\ IF v >= Multifunction
                 THEN /\ settings'.decoupled = DecoupledOn
                      /\ attr'.decoupled = DecoupledOn
                 ELSE /\ settings'.decoupled = settings.decoupled
                      /\ attr'.decoupled = attr.decoupled
<1>1. CASE v < MaxNum /\ settings.type # v
  <2>1. /\ settings' = [settings EXCEPT !.type = v,
                          !.decoupled = IF v >= Multifunction
                                          THEN DecoupledOn ELSE @]
        /\ attr' = [attr EXCEPT !.type = v,
                      !.decoupled = IF v >= Multifunction
                                      THEN DecoupledOn ELSE @]
    BY <1>1, Zenon DEF WriteType
  <2> QED
    BY <2>1 DEF TypeOK, Settings, Attrs
<1>2. CASE ~(v < MaxNum /\ settings.type # v)
  BY <1>2, Zenon DEF WriteType
<1> QED
  BY <1>1, <1>2

(* WriteDecoupled: nothing, the coupling forced off, or as written.         *)
LEMMA CaseDecoupled ==
  ASSUME TypeOK, NEW v, WriteDecoupled(v)
  PROVE  /\ settings'.type = settings.type /\ attr'.type = attr.type
         /\ settings'.action = settings.action
         /\ attr'.action = attr.action
         /\ \/ /\ settings'.decoupled = v /\ settings.decoupled = v
               /\ attr'.decoupled = attr.decoupled
            \/ /\ settings'.decoupled = DecoupledOn
               /\ attr'.decoupled = DecoupledOn
            \/ /\ ~(v = DecoupledOff /\ settings.type >= Multifunction)
               /\ settings'.decoupled = v
               /\ attr'.decoupled = attr.decoupled
<1>1. CASE settings.decoupled # v
  <2>1. \/ /\ settings' = [settings EXCEPT !.decoupled = DecoupledOn]
           /\ attr' = [attr EXCEPT !.decoupled = DecoupledOn]
        \/ /\ ~(v = DecoupledOff /\ settings.type >= Multifunction)
           /\ settings' = [settings EXCEPT !.decoupled = v]
           /\ attr' = attr
    BY <1>1, Zenon DEF WriteDecoupled
  <2> QED
    BY <2>1 DEF TypeOK, Settings, Attrs
<1>2. CASE settings.decoupled = v
  <2>1. settings' = settings /\ attr' = attr
    BY <1>2, Zenon DEF WriteDecoupled, rvars
  <2> QED
    BY <1>2, <2>1
<1> QED
  BY <1>1, <1>2

(* The type in the attributes is the one in the settings after every case.  *)
LEMMA CasesKeepType ==
  ASSUME TypeOK, WriteSetting, attr.type = settings.type
  PROVE  attr'.type = settings'.type
<1> DEFINE v == Head(request.todo).val
<1> HIDE DEF v
<1>1. WriteStartUp(v) \/ WriteType(v) \/ WriteAction(v) \/ WriteDecoupled(v)
  BY WriteSettingCases, Zenon DEF v
<1> QED
  BY <1>1, CaseStartUp, CaseAction, CaseType2, CaseDecoupled

(* The callback takes the next record: where the settings land is the same. *)
LEMMA CasesLand ==
  ASSUME TypeOK, WriteSetting, CallbackLands,
         request'.todo = Tail(request.todo)
  PROVE  CallbackLands'
<1> DEFINE q == request.todo
           v == Head(request.todo).val
           id == Head(request.todo).id
<1>1. q \in Seq(AllRecords) /\ q # <<>>
  BY WriteSettingCases DEF TypeOK, Requests
<1>2. \/ id = "startUp" /\ WriteStartUp(v)
      \/ id = "type" /\ WriteType(v)
      \/ id = "action" /\ WriteAction(v)
      \/ id = "decoupled" /\ WriteDecoupled(v)
  BY WriteSettingCases
<1>3. \A k, d, x :
        Lands(q, k, d, x) <=> Lands(Tail(q), k, IF id = k THEN v ELSE d, x)
  BY <1>1, LandsByParts
<1> HIDE DEF q, v, id
<1>4. request'.todo = Tail(q)
  BY DEF q
<1>5. /\ Lands(q, "action", settings.action, attr.action)
      /\ attr.decoupled = DecoupledOff =>
           Lands(q, "decoupled", settings.decoupled, DecoupledOff)
  BY DEF CallbackLands, q
<1>6. /\ Lands(Tail(q), "action", settings'.action, attr'.action)
      /\ attr'.decoupled = DecoupledOff =>
           Lands(Tail(q), "decoupled", settings'.decoupled, DecoupledOff)
  <2>1. CASE id = "startUp" /\ WriteStartUp(v)
    BY <1>3, <1>5, <2>1, CaseStartUp
  <2>2. CASE id = "action" /\ WriteAction(v)
    BY <1>3, <1>5, <2>2, CaseAction
  <2>3. CASE id = "type" /\ WriteType(v)
    BY <1>3, <1>5, <2>3, CaseType2 DEF DecoupledOn, DecoupledOff
  <2>4. CASE id = "decoupled" /\ WriteDecoupled(v)
    BY <1>3, <1>5, <2>4, CaseDecoupled DEF DecoupledOn, DecoupledOff
  <2> QED
    BY <1>2, <2>1, <2>2, <2>3, <2>4
<1> QED
  BY <1>4, <1>6 DEF CallbackLands

(* ... and a coupling that was forced off stays so.                         *)
LEMMA CasesOnce ==
  ASSUME TypeOK, MultifunctionDecoupled, WriteSetting, CallbackOnce,
         request'.todo = Tail(request.todo)
  PROVE  CallbackOnce'
<1> DEFINE q == request.todo
           v == Head(request.todo).val
           id == Head(request.todo).id
<1>1. q \in Seq(AllRecords) /\ q # <<>>
  BY WriteSettingCases DEF TypeOK, Requests
<1>2. \/ id = "startUp" /\ WriteStartUp(v)
      \/ id = "type" /\ WriteType(v)
      \/ id = "action" /\ WriteAction(v)
      \/ id = "decoupled" /\ WriteDecoupled(v)
  BY WriteSettingCases
<1>3. /\ \A k : Absent(q, k) <=> id # k /\ Absent(Tail(q), k)
      /\ Once(q) => Once(Tail(q)) /\ Absent(Tail(q), id)
      /\ NoCoupling(q) <=> /\ id = "decoupled" => v # DecoupledOff
                           /\ NoCoupling(Tail(q))
  BY <1>1, Parts
<1> HIDE DEF q, v, id
<1>4. request'.todo = Tail(q)
  BY DEF q
<1>5. /\ Once(q)
      /\ attr.decoupled # DecoupledOff =>
           IF Absent(q, "decoupled") THEN settings.decoupled # DecoupledOff
           ELSE NoCoupling(q) \/ (settings.type >= Multifunction
                                    /\ Absent(q, "type"))
  BY DEF CallbackOnce, q
<1>6. settings.type >= Multifunction => settings.decoupled # DecoupledOff
  BY DEF MultifunctionDecoupled
<1>7. attr'.decoupled # DecoupledOff =>
        IF Absent(Tail(q), "decoupled") THEN settings'.decoupled # DecoupledOff
        ELSE NoCoupling(Tail(q)) \/ (settings'.type >= Multifunction
                                       /\ Absent(Tail(q), "type"))
  <2>1. CASE id = "startUp" /\ WriteStartUp(v)
    BY <1>3, <1>5, <2>1, CaseStartUp
  <2>2. CASE id = "action" /\ WriteAction(v)
    BY <1>3, <1>5, <2>2, CaseAction
  <2>3. CASE id = "type" /\ WriteType(v)
    BY <1>3, <1>5, <2>3, CaseType2 DEF DecoupledOn, DecoupledOff
  <2>4. CASE id = "decoupled" /\ WriteDecoupled(v)
    <3>1. Absent(Tail(q), "decoupled")
      BY <1>3, <1>5, <2>4
    <3>2. attr.decoupled # DecoupledOff =>
            v # DecoupledOff \/ settings.type >= Multifunction
      BY <1>3, <1>5, <2>4
    <3>3. attr'.decoupled # DecoupledOff => settings'.decoupled # DecoupledOff
      BY <1>6, <2>4, <3>2, CaseDecoupled DEF DecoupledOn, DecoupledOff
    <3> QED
      BY <3>1, <3>3
  <2> QED
    BY <1>2, <2>1, <2>2, <2>3, <2>4
<1> QED
  BY <1>3, <1>4, <1>5, <1>7 DEF CallbackOnce

(* The callback as a whole. *)
LEMMA SettingAttr ==
  ASSUME TypeOK, MultifunctionDecoupled, AttrInv, WriteSetting
  PROVE  AttrInv'
<1>1. /\ power = "on" /\ request.stage = "callback"
      /\ UNCHANGED <<bypassed, repeated>>
  BY DEF WriteSetting
<1>2. request'.stage = "callback" /\ request'.todo = Tail(request.todo)
  BY <1>1, ChangeAsksForSave
<1>3. attr'.type = settings'.type
  BY <1>1, CasesKeepType DEF AttrInv
<1>4. ~bypassed => CallbackLands'
  BY <1>1, <1>2, CasesLand DEF AttrInv
<1>5. ~bypassed /\ ~repeated => CallbackOnce'
  BY <1>1, <1>2, CasesOnce DEF AttrInv
<1> QED
  BY <1>1, <1>2, <1>3, <1>4, <1>5 DEF AttrInv

(* A write arrives while attributes and settings agree. *)
LEMMA ArriveAttr ==
  ASSUME TypeOK, AttrInv, WriteArrives
  PROVE  AttrInv'
<1>1. PICK kind \in Kinds, recs \in Commands :
        /\ request' = [stage |-> "attrs", kind |-> kind, recs |-> recs,
                       todo |-> recs, save |-> FALSE]
        /\ bypassed' = \/ bypassed
                       \/ kind # "write"
                       \/ \E i \in DOMAIN recs : ~recs[i].ok
        /\ repeated' = /\ ~bypassed'
                       /\ \/ repeated
                          \/ \E i, j \in DOMAIN recs :
                               i # j /\ recs[i].id = recs[j].id
  BY DEF WriteArrives
<1>2. /\ power = "on" /\ power' = "on" /\ request.stage = "idle"
      /\ UNCHANGED <<attr, settings>>
  BY DEF WriteArrives, Ready
<1>3. request'.stage = "attrs" /\ request'.kind = kind
      /\ request'.recs = recs /\ request'.todo = recs
  BY <1>1
<1>4. attr'.type = settings'.type
  BY <1>2 DEF AttrInv
<1> SUFFICES ASSUME ~bypassed'
             PROVE  StoringLands' /\ (~repeated' => StoringOnce')
  BY <1>2, <1>3, <1>4 DEF AttrInv
<1>5. ~bypassed /\ kind = "write" /\ \A i \in DOMAIN recs : recs[i].ok
  BY <1>1
<1>6. DOMAIN recs = 1 .. Len(recs)
  BY CommandsAreSequences
<1>7. Agree /\ (~repeated => AgreeOnce)
  BY <1>2, <1>5 DEF AttrInv
<1>8. StoringLands'
  <2>1. AllOk(recs)
    BY <1>5, <1>6 DEF AllOk
  <2>2. Lands(recs, "decoupled", attr.decoupled, DecoupledOff)
          => Lands(recs, "decoupled", settings.decoupled, DecoupledOff)
    BY <1>7 DEF Agree, Lands
  <2>3. attr.action = settings.action
    BY <1>7 DEF Agree
  <2> QED
    BY <1>2, <1>3, <1>5, <2>1, <2>2, <2>3 DEF StoringLands
<1>9. ~repeated' => StoringOnce'
  <2> SUFFICES ASSUME ~repeated' PROVE StoringOnce'
    OBVIOUS
  <2>1. /\ ~repeated
        /\ \A i, j \in DOMAIN recs : i # j => recs[i].id # recs[j].id
    BY <1>1
  <2>2. Once(recs)
    BY <1>6, <2>1 DEF Once
  <2>3. attr.decoupled # DecoupledOff => settings.decoupled # DecoupledOff
    BY <1>7, <2>1 DEF AgreeOnce
  <2> QED
    BY <1>2, <1>3, <2>2, <2>3 DEF StoringOnce
<1> QED
  BY <1>8, <1>9

(* The stack stores the next record. *)
LEMMA StoreAttr ==
  ASSUME TypeOK, AttrInv, WriteAttr
  PROVE  AttrInv'
<1> DEFINE r == Head(request.todo)
           q == request.todo
<1>1. /\ power = "on" /\ request.stage = "attrs" /\ q # <<>>
      /\ attr' = IF r.ok THEN [attr EXCEPT ![Field(r.id)] = r.val] ELSE attr
      /\ request' = [request EXCEPT !.todo = Tail(@)]
      /\ UNCHANGED <<power, settings, bypassed, repeated>>
  BY DEF WriteAttr
<1>2. /\ request \in Requests /\ attr \in Attrs
      /\ r.id \in {"startUp", "type", "action", "decoupled"}
  BY <1>1, NextRecord DEF TypeOK
<1>3. q \in Seq(AllRecords)
  BY <1>2 DEF Requests
<1>4. /\ request'.stage = "attrs" /\ request'.kind = request.kind
      /\ request'.recs = request.recs /\ request'.todo = Tail(q)
  BY <1>1, <1>2 DEF Requests
<1>5. AllOk(q) => r.ok /\ AllOk(Tail(q))
  BY <1>1, <1>3, Rest
<1>6. /\ \A k : Absent(q, k) <=> r.id # k /\ Absent(Tail(q), k)
      /\ Once(q) => Once(Tail(q)) /\ Absent(Tail(q), r.id)
      /\ NoCoupling(q) <=> /\ r.id = "decoupled" => r.val # DecoupledOff
                           /\ NoCoupling(Tail(q))
  BY <1>1, <1>3, Parts
<1>7. \A k, d, x : Lands(q, k, d, x) <=>
                     Lands(Tail(q), k, IF r.id = k THEN r.val ELSE d, x)
  BY <1>1, <1>3, LandsByParts
<1> HIDE DEF r
<1>8. attr'.type = attr.type
  BY <1>1, <1>2 DEF Field, Attrs
<1>9. r.ok =>
        /\ attr'.action = IF r.id = "action" THEN r.val ELSE attr.action
        /\ attr'.decoupled =
             IF r.id = "decoupled" THEN r.val ELSE attr.decoupled
  BY <1>1, <1>2 DEF Field, Attrs
<1>10. attr'.type = settings'.type
  BY <1>1, <1>8 DEF AttrInv
<1> HIDE DEF q
<1> SUFFICES ASSUME ~bypassed
             PROVE  StoringLands' /\ (~repeated => StoringOnce')
  BY <1>1, <1>4, <1>10 DEF AttrInv
<1>11. StoringLands /\ (~repeated => StoringOnce)
  BY <1>1 DEF AttrInv
<1>12. r.ok /\ AllOk(Tail(q)) /\ request.kind = "write"
  BY <1>5, <1>11 DEF StoringLands, q
<1>13. StoringLands'
  <2>1. \A v \in Byte : Lands(Tail(q), "action", attr'.action, v)
          => Lands(request.recs, "action", settings.action, v)
    BY <1>7, <1>9, <1>11, <1>12 DEF StoringLands, q
  <2>2. Lands(Tail(q), "decoupled", attr'.decoupled, DecoupledOff)
          => Lands(request.recs, "decoupled", settings.decoupled, DecoupledOff)
    BY <1>7, <1>9, <1>11, <1>12 DEF StoringLands, q
  <2> QED
    BY <1>1, <1>4, <1>12, <2>1, <2>2 DEF StoringLands
<1>14. ~repeated => StoringOnce'
  <2> SUFFICES ASSUME ~repeated PROVE StoringOnce'
    OBVIOUS
  <2>1. /\ Once(request.recs) /\ Once(q)
        /\ ~Absent(q, "decoupled") =>
             /\ ~Absent(request.recs, "decoupled")
             /\ NoCoupling(q) => NoCoupling(request.recs)
        /\ Absent(q, "decoupled") /\ attr.decoupled # DecoupledOff =>
             IF Absent(request.recs, "decoupled")
               THEN settings.decoupled # DecoupledOff
               ELSE NoCoupling(request.recs)
    BY <1>11 DEF StoringOnce, q
  <2>2. Absent(Tail(q), "decoupled") => NoCoupling(Tail(q))
    BY DEF Absent, NoCoupling
  <2>3. /\ ~Absent(Tail(q), "decoupled") =>
             /\ ~Absent(request.recs, "decoupled")
             /\ NoCoupling(Tail(q)) => NoCoupling(request.recs)
        /\ Absent(Tail(q), "decoupled") /\ attr'.decoupled # DecoupledOff =>
             IF Absent(request.recs, "decoupled")
               THEN settings.decoupled # DecoupledOff
               ELSE NoCoupling(request.recs)
    BY <1>6, <1>9, <1>12, <2>1, <2>2
  <2>4. Once(Tail(q))
    BY <1>6, <2>1
  <2> QED
    BY <1>1, <1>4, <2>1, <2>3, <2>4 DEF StoringOnce
<1> QED
  BY <1>13, <1>14

(* All stored: the settings follow.                                         *)
LEMMA DispatchAttr ==
  ASSUME TypeOK, AttrInv, WriteDispatch
  PROVE  AttrInv'
<1>1. /\ power = "on" /\ request.stage = "attrs" /\ request.todo = <<>>
      /\ request' =
           IF request.kind = "write"
             THEN [NoRequest EXCEPT !.stage = "callback", !.todo = request.recs]
             ELSE NoRequest
      /\ UNCHANGED <<power, attr, settings, bypassed, repeated>>
  BY DEF WriteDispatch
<1>2. attr'.type = settings'.type
  BY <1>1 DEF AttrInv
<1>3. CASE bypassed
  BY <1>1, <1>2, <1>3 DEF AttrInv
<1>4. CASE ~bypassed
  <2>1. StoringLands /\ (~repeated => StoringOnce)
    BY <1>1, <1>4 DEF AttrInv
  <2>2. request'.stage = "callback" /\ request'.todo = request.recs
    BY <1>1, <2>1 DEF StoringLands, NoRequest
  <2>3. CallbackLands'
    <3>1. attr.action \in Byte
      BY DEF TypeOK, Attrs
    <3>2. Lands(request.recs, "action", settings.action, attr.action)
      BY <1>1, <2>1, <3>1, NoParts DEF StoringLands
    <3>3. attr.decoupled = DecoupledOff =>
            Lands(request.recs, "decoupled", settings.decoupled, DecoupledOff)
      BY <1>1, <2>1, NoParts DEF StoringLands
    <3> QED
      BY <1>1, <2>2, <3>2, <3>3 DEF CallbackLands
  <2>4. ~repeated => CallbackOnce'
    BY <1>1, <2>1, <2>2, NoParts DEF StoringOnce, CallbackOnce
  <2> QED
    BY <1>1, <1>2, <2>2, <2>3, <2>4 DEF AttrInv
<1> QED
  BY <1>3, <1>4

(* No record is left: attributes and settings agree again.                  *)
LEMMA DoneAttr ==
  ASSUME TypeOK, AttrInv, WriteDone
  PROVE  AttrInv'
<1>1. /\ power = "on" /\ request.stage = "callback" /\ request.todo = <<>>
      /\ request' = NoRequest
      /\ UNCHANGED <<power, attr, settings, bypassed, repeated>>
  BY DEF WriteDone
<1>2. request'.stage = "idle"
  BY <1>1 DEF NoRequest
<1>3. ~bypassed => Agree
  BY <1>1, NoParts DEF AttrInv, CallbackLands, Agree
<1>4. ~bypassed /\ ~repeated => AgreeOnce
  BY <1>1, NoParts DEF AttrInv, CallbackOnce, AgreeOnce
<1> QED
  BY <1>1, <1>2, <1>3, <1>4 DEF AttrInv, Agree, AgreeOnce

(* Every step keeps AttrInv. *)
LEMMA NextAttr ==
  ASSUME TypeOK, MultifunctionDecoupled, AttrInv, [Next]_vars
  PROVE  AttrInv'
<1>1. CASE Boot
  <2>1. attr' = AttrsOf(settings') /\ request' = NoRequest
    BY <1>1 DEF Boot
  <2> QED
    BY <2>1 DEF AttrInv, Agree, AgreeOnce, AttrsOf, NoRequest
<1>2. CASE PowerCut
  BY <1>2 DEF PowerCut, AttrInv
<1>3. CASE WriteArrives
  BY <1>3, ArriveAttr
<1>4. CASE WriteAttr
  BY <1>4, StoreAttr
<1>5. CASE WriteDispatch
  BY <1>5, DispatchAttr
<1>6. CASE WriteSetting
  BY <1>6, SettingAttr
<1>7. CASE WriteDone
  BY <1>7, DoneAttr
<1>8. CASE OnOffCommand \/ ButtonSinglePressed \/ AppTask \/ SwitchClosed
           \/ SwitchOpened \/ UNCHANGED vars
  <2>1. /\ UNCHANGED <<attr, settings, request, bypassed, repeated>>
        /\ power' # "off" => power # "off"
    BY <1>8 DEF OnOffCommand, ButtonSinglePressed, AppTask, SwitchClosed,
                SwitchOpened, Ready, LocalSwitch, cvars, vars
  <2> QED
    BY <2>1 DEF AttrInv, Agree, AgreeOnce, StoringLands, StoringOnce,
                CallbackLands, CallbackOnce
<1> QED
  BY <1>1, <1>2, <1>3, <1>4, <1>5, <1>6, <1>7, <1>8 DEF Next

(* Between commands the attributes a client reads are the settings in use,  *)
(* as long as every write was a plain one of the right type; an attribute    *)
(* that reads "coupled" always tells the truth, one that reads "decoupled"   *)
(* as long as no command named an attribute twice.                          *)
THEOREM AttrsAreSettingsHolds == Spec => []AttrsAreSettings
<1>1. Init => AttrInv
  BY DEF Init, AttrInv
<1>2. TypeOK /\ MultifunctionDecoupled /\ AttrInv /\ [Next]_vars => AttrInv'
  BY NextAttr
<1> QED
  BY <1>1, <1>2, AttrImplies, DurHolds, MultifunctionDecoupledHolds, PTL
  DEF Spec

=============================================================================
