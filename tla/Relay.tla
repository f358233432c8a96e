------------------------------- MODULE Relay -------------------------------
(***************************************************************************)
(* The relay, its On/Off attribute, the settings that govern it and what   *)
(* survives a restart: cmdOnOff_on/off/toggle (src/src/app_onoff.c), the    *)
(* settings record (src/src/app_relay.c), the attribute-write callback     *)
(* app_zclWriteReqCmd (src/src/zcl_appCb.c), the start-up behaviour and    *)
(* the wall-switch commands (src/src/app_switch.c), and the boot order of  *)
(* user_init (src/src/app_main.c).                                         *)
(*                                                                         *)
(* The firmware is one cooperative loop: each action is one handler run to *)
(* its end, except that a ZCL write is split at every point where it stores *)
(* something, so that a power cut can fall between two of them.  The        *)
(* on/off log is the durable state of module DurableStatus, which OnOffLog *)
(* implements; here no cut falls inside a log operation, so that the status *)
(* is on or off and never what a half-written record reads as.             *)
(***************************************************************************)
EXTENDS Integers, Sequences

CONSTANTS
  DeviceEn,       \* device->device_en: a device model has been chosen
  StartUpVals,    \* values written to StartUpOnOff ...
  TypeVals,       \* ... to the custom switch type ...
  ActionVals,     \* ... to the switch action ...
  DecoupledVals,  \* ... and to the decoupled attribute
  MaxRecs         \* bound: attribute records in one write command

Byte == 0 .. 255

ASSUME DeviceEnAssumption == DeviceEn \in BOOLEAN

ASSUME ValsAssumption ==
  /\ StartUpVals \subseteq Byte
  /\ TypeVals \subseteq Byte
  /\ ActionVals \subseteq Byte
  /\ DecoupledVals \subseteq Byte

ASSUME MaxRecsAssumption == MaxRecs \in Nat

\* StartUpOnOff
ToOff      == 0
ToOn       == 1
ToToggle   == 2
ToPrevious == 255

\* switch types; values from MaxNum on are not types
TypeToggle    == 0
TypeMomentary == 1
Multifunction == 2
LightControl  == 3
MaxNum        == 4

\* switch actions and coupling
ActionOnOff  == 0
ActionOffOn  == 1
DecoupledOff == 0
DecoupledOn  == 1

Settings ==
  [startUp : Byte, type : 0 .. MaxNum - 1, action : Byte, decoupled : Byte]

DefaultSettings ==
  [startUp |-> ToOff, type |-> TypeMomentary,
   action |-> ActionOffOn, decoupled |-> DecoupledOff]

NoSettings == [none |-> TRUE]   \* nothing stored in NV yet

(* One attribute record of a write command.  ok: its data type is the one  *)
(* of the attribute, so that the stack carries the write out.              *)
Records ==
  [id : {"startUp"}, val : StartUpVals, ok : BOOLEAN]

CfgRecords ==
  [id : {"type"}, val : TypeVals, ok : BOOLEAN]
    \cup [id : {"action"}, val : ActionVals, ok : BOOLEAN]
    \cup [id : {"decoupled"}, val : DecoupledVals, ok : BOOLEAN]

AllRecords == Records \cup CfgRecords

(* A write command carries records of one cluster. *)
Commands ==
  UNION {[1 .. n -> R] : n \in 1 .. MaxRecs, R \in {Records, CfgRecords}}

(* Write, and the two kinds whose attributes the stack writes without      *)
(* app_zclProcessIncomingMsg calling the application.                      *)
Kinds == {"write", "write_no_rsp", "write_undivided"}

VARIABLES
  power,     \* "off", "boot" (before the first app_task) or "on"
  relay,     \* the relay GPIO is driven on
  onOff,     \* the OnOff attribute
  status,    \* status_onoff.status_onoff[0]
  attr,      \* the attributes a ZCL client can write, and switchType
  settings,  \* relay_settings
  nv,        \* the copy of relay_settings in NV
  durable,   \* the state the on/off log would restore
  float,     \* app_switch[0].status is SWITCH_FLOAT
  request,   \* the write command in progress
  bypassed,  \* history: since boot a write changed an attribute behind the
             \* application's back, or the settings behind the attribute's
  repeated,  \* history: since boot a write named an attribute twice; not
             \* kept once bypassed
  before     \* history: {the status at the last power cut}, {} if bypassed

rvars == <<relay, onOff, status, durable>>
cvars == <<attr, settings, nv, request>>
vars == <<power, relay, onOff, status, attr, settings, nv, durable, float,
          request, bypassed, repeated, before>>

(* stage: "idle", "attrs" (zcl_writeHandler stores the attributes) or       *)
(* "callback" (app_zclWriteReqCmd loops over the records).                 *)
NoRequest ==
  [stage |-> "idle", kind |-> "write", recs |-> <<>>, todo |-> <<>>,
   save |-> FALSE]

Attrs ==
  [startUp : Byte, custom : Byte, type : Byte, action : Byte, decoupled : Byte]

Requests ==
  [stage : {"idle", "attrs", "callback"}, kind : Kinds,
   recs : Seq(AllRecords), todo : Seq(AllRecords), save : BOOLEAN]

TypeOK ==
  /\ power \in {"off", "boot", "on"}
  /\ relay \in BOOLEAN
  /\ onOff \in BOOLEAN
  /\ status \in BOOLEAN
  /\ attr \in Attrs
  /\ settings \in Settings
  /\ nv \in Settings \cup {NoSettings}
  /\ durable \in BOOLEAN
  /\ float \in BOOLEAN
  /\ request \in Requests
  /\ bypassed \in BOOLEAN
  /\ repeated \in BOOLEAN
  /\ before \in SUBSET BOOLEAN

-----------------------------------------------------------------------------
(* Boot and restart *)

AttrsOf(s) ==
  [startUp |-> s.startUp, custom |-> s.type, type |-> s.type,
   action |-> s.action, decoupled |-> s.decoupled]

Init ==
  /\ power = "off"
  /\ relay = FALSE
  /\ onOff = FALSE
  /\ status = FALSE
  /\ attr = AttrsOf(DefaultSettings)
  /\ settings = DefaultSettings
  /\ nv = NoSettings
  /\ durable = FALSE
  /\ float = TRUE
  /\ request = NoRequest
  /\ bypassed = FALSE
  /\ repeated = FALSE
  /\ before = {FALSE}

(* zcl_onOff_startUpOnOff, which zcl_register runs on the restored         *)
(* attribute: pre is its value before.                                     *)
StackStartUp(su, pre) ==
  CASE su = ToOn       -> TRUE
    [] su = ToToggle   -> ~pre
    [] su = ToPrevious -> pre
    [] OTHER           -> FALSE

(* relay_settings when device_init runs: memory is still zero. *)
ZeroedType == TypeToggle

(* user_init.  device_init comes first: dev_relay_init drives the relay    *)
(* off, and switch_init chooses SWITCH_FLOAT by the switch type in memory  *)
(* that relay_settings_restore fills only later, in user_app_init.  Then   *)
(* the log and the settings are restored, the attributes set from them,    *)
(* and the stack applies StartUpOnOff to the attribute alone.              *)
Boot ==
  /\ power = "off"
  /\ power' = "boot"
  /\ relay' = FALSE
  /\ float' = (ZeroedType < Multifunction)
  /\ status' = durable
  /\ settings' = IF nv = NoSettings THEN DefaultSettings ELSE nv
  /\ attr' = AttrsOf(settings')
  /\ onOff' = StackStartUp(settings'.startUp, durable)
  /\ request' = NoRequest
  /\ bypassed' = FALSE
  /\ repeated' = FALSE
  /\ UNCHANGED <<nv, durable, before>>

PowerCut ==
  /\ power # "off"
  /\ power' = "off"
  /\ relay' = FALSE
  /\ before' = IF bypassed THEN {} ELSE {status}
  /\ request' = NoRequest
  /\ bypassed' = FALSE
  /\ repeated' = FALSE
  /\ UNCHANGED <<onOff, status, attr, settings, nv, durable, float>>

-----------------------------------------------------------------------------
(* The three on/off commands.  All of them set the attribute, the status    *)
(* and the relay; a change is saved in the log if StartUpOnOff needs it.    *)

(* Mutant of SetOnOff: nothing is done when the state does not change. *)
SetOnOffIfChanged(v) ==
  /\ onOff' = v
  /\ status' = v
  /\ relay' = IF DeviceEn /\ (onOff # v \/ status # v) THEN v ELSE relay
  /\ durable' = IF attr.startUp > ToOn /\ (onOff # v \/ status # v)
                  THEN v ELSE durable

SetOnOff(v) ==
  /\ onOff' = v
  /\ status' = v
  /\ relay' = IF DeviceEn THEN v ELSE relay
  /\ durable' = IF attr.startUp > ToOn /\ (onOff # v \/ status # v)
                  THEN v ELSE durable

cmdOnOff_on     == SetOnOff(TRUE)
cmdOnOff_off    == SetOnOff(FALSE)
cmdOnOff_toggle == SetOnOff(~status)

Ready == power = "on" /\ request.stage = "idle"

(* app_onOffCb: a ZCL On, Off or Toggle command. *)
OnOffCommand ==
  /\ Ready
  /\ cmdOnOff_on \/ cmdOnOff_off \/ cmdOnOff_toggle
  /\ UNCHANGED <<power, cvars, float, bypassed, repeated, before>>

(* buttonSinglePressed: a short press of the device's button. *)
ButtonSinglePressed ==
  /\ Ready
  /\ DeviceEn
  /\ cmdOnOff_toggle
  /\ UNCHANGED <<power, cvars, float, bypassed, repeated, before>>

(* Mutant of switch_first_start: it toggles the attribute, which the stack  *)
(* has toggled already, instead of the status.                             *)
first_start_of_attr ==
  /\ CASE settings.startUp = ToPrevious -> SetOnOff(status)
       [] settings.startUp = ToToggle   -> SetOnOff(~onOff)
       [] settings.startUp = ToOn       -> cmdOnOff_on
       [] OTHER                         -> cmdOnOff_off
  /\ float' = FALSE

(* switch_first_start: the first poll of a floating wall switch applies    *)
(* StartUpOnOff to the relay.                                              *)
switch_first_start ==
  /\ CASE settings.startUp = ToPrevious -> SetOnOff(status)
       [] settings.startUp = ToToggle   -> cmdOnOff_toggle
       [] settings.startUp = ToOn       -> cmdOnOff_on
       [] OTHER                         -> cmdOnOff_off
  /\ float' = FALSE

(* app_task polls the switch: read_switch_toggle serves the two-position   *)
(* types, the other handlers do not look at SWITCH_FLOAT.                  *)
Floating == DeviceEn /\ float /\ settings.type < Multifunction

AppTask ==
  /\ power # "off"
  /\ request.stage = "idle"
  /\ IF Floating THEN switch_first_start
                 ELSE power = "boot" /\ UNCHANGED <<rvars, float>>
  /\ power' = "on"
  /\ UNCHANGED <<cvars, bypassed, repeated, before>>

LocalSwitch ==
  /\ Ready
  /\ DeviceEn /\ ~float
  /\ settings.type < Multifunction
  /\ settings.decoupled = DecoupledOff

(* read_switch_toggle: the contact has closed ... *)
SwitchClosed ==
  /\ LocalSwitch
  /\ IF settings.type = TypeMomentary
       THEN IF settings.action = ActionOffOn THEN cmdOnOff_on ELSE cmdOnOff_off
       ELSE cmdOnOff_toggle
  /\ UNCHANGED <<power, cvars, float, bypassed, repeated, before>>

(* ... or opened, which only a momentary switch of a joined device acts on. *)
SwitchOpened ==
  /\ LocalSwitch
  /\ settings.type = TypeMomentary
  /\ IF settings.action = ActionOffOn THEN cmdOnOff_off ELSE cmdOnOff_on
  /\ UNCHANGED <<power, cvars, float, bypassed, repeated, before>>

-----------------------------------------------------------------------------
(* Writing attributes *)

(* A write command arrives: zcl_writeHandler stores the records that have  *)
(* the attribute's type, zcl_writeUndividedHandler all of them or none.    *)
WriteArrives ==
  /\ Ready
  /\ \E kind \in Kinds, recs \in Commands :
       /\ kind = "write_undivided" => \A i \in DOMAIN recs : recs[i].ok
       /\ request' = [stage |-> "attrs", kind |-> kind, recs |-> recs,
                      todo |-> recs, save |-> FALSE]
       /\ bypassed' = \/ bypassed
                      \/ kind # "write"
                      \/ \E i \in DOMAIN recs : ~recs[i].ok
       /\ repeated' = /\ ~bypassed'
                      /\ \/ repeated
                         \/ \E i, j \in DOMAIN recs :
                              i # j /\ recs[i].id = recs[j].id
  /\ UNCHANGED <<power, rvars, attr, settings, nv, float, before>>

(* The attribute a record is stored in. *)
Field(id) == IF id = "type" THEN "custom" ELSE id

(* zcl_attrWrite of the next record. *)
WriteAttr ==
  /\ power = "on"
  /\ request.stage = "attrs"
  /\ request.todo # <<>>
  /\ LET r == Head(request.todo) IN
       attr' = IF r.ok THEN [attr EXCEPT ![Field(r.id)] = r.val] ELSE attr
  /\ request' = [request EXCEPT !.todo = Tail(@)]
  /\ UNCHANGED <<power, rvars, settings, nv, float, bypassed, repeated, before>>

(* All stored: app_zclProcessIncomingMsg calls the application for a plain  *)
(* write and drops the other kinds.                                        *)
WriteDispatch ==
  /\ power = "on"
  /\ request.stage = "attrs"
  /\ request.todo = <<>>
  /\ request' =
       IF request.kind = "write"
         THEN [NoRequest EXCEPT !.stage = "callback", !.todo = request.recs]
         ELSE NoRequest
  /\ UNCHANGED <<power, rvars, attr, settings, nv, float, bypassed, repeated,
                 before>>

(* One iteration of the loops of app_zclWriteReqCmd.  Each of the four      *)
(* cases below does nothing when the setting already has the value.        *)
Continue(save) ==
  request' = [request EXCEPT !.todo = Tail(@), !.save = @ \/ save]

(* Mutant of WriteStartUp: the current status is not saved. *)
WriteStartUpOnly(v) ==
  /\ settings' = [settings EXCEPT !.startUp = v]
  /\ UNCHANGED <<rvars, attr>>
  /\ Continue(settings.startUp # v)

WriteStartUp(v) ==
  IF settings.startUp # v
    THEN /\ settings' = [settings EXCEPT !.startUp = v]
         /\ durable' = IF v > ToOn THEN status ELSE durable
         /\ UNCHANGED <<relay, onOff, status, attr>>
         /\ Continue(TRUE)
    ELSE UNCHANGED <<rvars, settings, attr>> /\ Continue(FALSE)

(* Mutant of WriteType: no test for the end of the enumeration. *)
WriteTypeAny(v) ==
  /\ settings' = [settings EXCEPT !.type = v]
  /\ UNCHANGED <<rvars, attr>>
  /\ Continue(settings.type # v)

WriteType(v) ==
  IF v < MaxNum /\ settings.type # v
    THEN /\ settings' = [settings EXCEPT !.type = v,
                            !.decoupled = IF v >= Multifunction
                                            THEN DecoupledOn ELSE @]
         /\ attr' = [attr EXCEPT !.type = v,
                        !.decoupled = IF v >= Multifunction
                                        THEN DecoupledOn ELSE @]
         /\ IF v >= Multifunction THEN cmdOnOff_off ELSE UNCHANGED rvars
         /\ Continue(TRUE)
    ELSE UNCHANGED <<rvars, settings, attr>> /\ Continue(FALSE)

(* Mutant of WriteAction: the change is not saved. *)
WriteActionUnsaved(v) ==
  /\ settings' = [settings EXCEPT !.action = v]
  /\ UNCHANGED <<rvars, attr>>
  /\ Continue(FALSE)

WriteAction(v) ==
  /\ settings' = [settings EXCEPT !.action = v]
  /\ UNCHANGED <<rvars, attr>>
  /\ Continue(settings.action # v)

(* Mutants of WriteDecoupled: the coupling is taken as written, or forced   *)
(* in the settings only.                                                   *)
WriteDecoupledFree(v) ==
  /\ settings' = [settings EXCEPT !.decoupled = v]
  /\ IF settings.decoupled # v THEN cmdOnOff_off ELSE UNCHANGED rvars
  /\ UNCHANGED attr
  /\ Continue(settings.decoupled # v)

WriteDecoupledSilent(v) ==
  /\ settings' = [settings EXCEPT !.decoupled =
                     IF settings.type >= Multifunction THEN DecoupledOn ELSE v]
  /\ IF settings.decoupled # v THEN cmdOnOff_off ELSE UNCHANGED rvars
  /\ UNCHANGED attr
  /\ Continue(settings.decoupled # v)

WriteDecoupled(v) ==
  IF settings.decoupled # v
    THEN /\ cmdOnOff_off
         /\ IF v = DecoupledOff /\ settings.type >= Multifunction
              THEN /\ settings' = [settings EXCEPT !.decoupled = DecoupledOn]
                   /\ attr' = [attr EXCEPT !.decoupled = DecoupledOn]
              ELSE /\ settings' = [settings EXCEPT !.decoupled = v]
                   /\ UNCHANGED attr
         /\ Continue(TRUE)
    ELSE UNCHANGED <<rvars, settings, attr>> /\ Continue(FALSE)

WriteSetting ==
  /\ power = "on"
  /\ request.stage = "callback"
  /\ request.todo # <<>>
  /\ LET r == Head(request.todo) IN
       CASE r.id = "startUp"   -> WriteStartUp(r.val)
         [] r.id = "type"      -> WriteType(r.val)
         [] r.id = "action"    -> WriteAction(r.val)
         [] r.id = "decoupled" -> WriteDecoupled(r.val)
  /\ UNCHANGED <<power, nv, float, bypassed, repeated, before>>

(* relay_settings_save, if any record asked for it. *)
WriteDone ==
  /\ power = "on"
  /\ request.stage = "callback"
  /\ request.todo = <<>>
  /\ nv' = IF request.save THEN settings ELSE nv
  /\ request' = NoRequest
  /\ UNCHANGED <<power, rvars, attr, settings, float, bypassed, repeated,
                 before>>

Next ==
  \/ Boot
  \/ PowerCut
  \/ OnOffCommand
  \/ ButtonSinglePressed
  \/ AppTask
  \/ SwitchClosed
  \/ SwitchOpened
  \/ WriteArrives
  \/ WriteAttr
  \/ WriteDispatch
  \/ WriteSetting
  \/ WriteDone

Spec == Init /\ [][Next]_vars

-----------------------------------------------------------------------------
(* Properties *)

(* A multi-function or light-control switch is never coupled to the relay, *)
(* in memory or in NV, whatever order types and coupling are written in    *)
(* and wherever power fails (app_zclWriteReqCmd forces the coupling off).  *)
MultifunctionDecoupled ==
  /\ settings.type >= Multifunction => settings.decoupled # DecoupledOff
  /\ nv # NoSettings /\ nv.type >= Multifunction
       => nv.decoupled # DecoupledOff

(* Between commands the settings in use are the ones a restart would        *)
(* restore: every change is saved by the end of the command that made it.  *)
SettingsSaved ==
  power # "off" /\ request.stage = "idle" =>
    settings = IF nv = NoSettings THEN DefaultSettings ELSE nv

(* Between commands the attributes a client reads are the settings in use,  *)
(* as long as every write was a plain one of the right type.  (The custom  *)
(* type attribute is left out: it keeps a rejected value.  Of the coupling *)
(* only "coupled or not" is compared: a value that is neither 0 nor 1 and   *)
(* follows a type in one command reaches the setting but not the attribute. *)
(* A command that names an attribute twice may leave a coupled switch that  *)
(* reads as decoupled: a multi-function type, another type, a coupling.)   *)
AttrsAreSettings ==
  power # "off" /\ request.stage = "idle" /\ ~bypassed =>
    /\ attr.startUp = settings.startUp
    /\ attr.type = settings.type
    /\ attr.action = settings.action
    /\ attr.decoupled = DecoupledOff => settings.decoupled = DecoupledOff
    /\ settings.decoupled = DecoupledOff /\ ~repeated
         => attr.decoupled = DecoupledOff

(* Whenever the stored StartUpOnOff depends on the state before the power   *)
(* cut, the log holds the current state - at every instant, also between   *)
(* the two stores of one write command.                                    *)
StatusDurable ==
  /\ power # "off"
  /\ ~bypassed
  /\ nv # NoSettings
  /\ nv.startUp > ToOn
  => durable = status

(* Once the start-up behaviour has been applied, the relay, the OnOff       *)
(* attribute and the saved status agree.                                   *)
RelayFollowsOnOff ==
  power = "on" /\ DeviceEn /\ ~float =>
    relay = onOff /\ onOff = status

(* The first poll after a restart puts the relay where StartUpOnOff says:   *)
(* off, on, as it was when power failed, or the opposite of that.          *)
StartUpHonoured ==
  [][AppTask /\ power = "boot" /\ Floating =>
       \A v \in before :
         relay' = CASE settings.startUp = ToOn       -> TRUE
                    [] settings.startUp = ToPrevious -> v
                    [] settings.startUp = ToToggle   -> ~v
                    [] OTHER                         -> FALSE]_vars

=============================================================================
