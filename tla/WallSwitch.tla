----------------------------- MODULE WallSwitch -----------------------------
(***************************************************************************)
(* The wall switch (src/src/app_switch.c): every turn of the main loop     *)
(* switch_handler reads the contact, debounces it with an up/down counter, *)
(* and groups closings into gestures: closings less than 500 ms apart      *)
(* belong to one gesture, which ends 500 ms after its last closing, once   *)
(* the contact has opened.  The handler depends on the switch type.        *)
(*                                                                         *)
(* hold_time and pressed_time are always assigned together, so that one    *)
(* age, the time since the last closing, stands for both.  What a poll     *)
(* does to the rest of the firmware is collected in out.                   *)
(***************************************************************************)
EXTENDS Integers

CONSTANTS
  Debounce,    \* DEBOUNCE_SWITCH
  RejoinLag,   \* polls from the end of the debounce range to a rejoin (5)
  FrMax,       \* FR_COUNTER_MAX: closings in a gesture for a factory reset
  ClearCount,  \* ACTION_CLEAR: closings reported as "empty"
  CounterMod,  \* 2^8: the closing counter is a byte
  Window,      \* 500 ms in ticks of the model's clock
  ClockWrap,   \* ticks after which the system clock wraps
  Types,       \* the switch types that occur
  Rewritten    \* those a client rewrites into one another as the device runs

TypeToggle    == 0
TypeMomentary == 1
Multifunction == 2
LightControl  == 3

ASSUME RangeAssumption ==
  /\ Debounce \in Nat /\ Debounce > 3
  /\ RejoinLag \in 2 .. Debounce - 1
  /\ CounterMod \in Nat /\ CounterMod > 4
  /\ FrMax \in 4 .. CounterMod - 1
  /\ ClearCount \in FrMax + 1 .. CounterMod - 1

ASSUME ClockAssumption ==
  /\ Window \in Nat /\ Window > 0
  /\ ClockWrap \in Nat /\ ClockWrap > Window + 1

ASSUME TypesAssumption ==
  /\ Types \subseteq TypeToggle .. LightControl
  /\ Rewritten \subseteq Types

VARIABLES
  closed,   \* the contact is closed (the GPIO reads low)
  type,     \* relay_settings.switchType[0]
  network,  \* "new" (never joined), "joined", or "lost" (joined before)
  sw,       \* app_switch[0]
  out,      \* what the last poll asked the rest of the firmware to do
  polled,   \* the switch has been polled in this tick of the clock
  opened,   \* history: the contact counted as open since the last closing
  holding,  \* history: a hold was announced and not yet its end
  owed      \* history: the press that began a momentary gesture was acted
            \* on, and its release is due

vars == <<closed, type, network, sw, out, polled, opened, holding, owed>>

Outputs ==
  {"press", "release", "hold", "holdEnd", "click", "empty", "reset", "rejoin",
   "start"}

Switch ==
  [status : {"open", "closed", "float"}, pressed : BOOLEAN,
   released : BOOLEAN, hold : BOOLEAN, levelDir : BOOLEAN,
   counter : 0 .. CounterMod - 1, debounce : 1 .. Debounce,
   age : 0 .. ClockWrap - 1]

TypeOK ==
  /\ closed \in BOOLEAN
  /\ type \in Types
  /\ network \in {"new", "joined", "lost"}
  /\ sw \in Switch
  /\ out \in SUBSET Outputs
  /\ polled \in BOOLEAN
  /\ opened \in BOOLEAN
  /\ holding \in BOOLEAN
  /\ owed \in BOOLEAN

(* switch_init.  It runs before the settings are restored and so always     *)
(* finds a two-position type: the status starts as SWITCH_FLOAT.           *)
InitSwitch ==
  [status |-> "float", pressed |-> FALSE, released |-> FALSE, hold |-> FALSE,
   levelDir |-> FALSE, counter |-> 0, debounce |-> Debounce \div 2, age |-> 0]

Init ==
  /\ closed \in BOOLEAN
  /\ type \in Types
  /\ network = "new"
  /\ sw = InitSwitch
  /\ out = {}
  /\ polled = FALSE
  /\ opened = TRUE
  /\ holding = FALSE
  /\ owed = FALSE

-----------------------------------------------------------------------------
(* Reading the contact *)

TwoPosition == type < Multifunction

(* clock_time_exceed(pressed_time, 500 ms) *)
Late(s) == s.age > Window

(* Mutant of Inc: the counter is wider than its field. *)
IncWide(n) == n + 1

Inc(n) == (n + 1) % CounterMod

(* The debounce counter after this poll of a closed or open contact. *)
Step(s, shut) ==
  IF shut THEN IF s.debounce # Debounce THEN s.debounce + 1 ELSE Debounce
          ELSE IF s.debounce # 1 THEN s.debounce - 1 ELSE 1

(* The poll that brings the counter to its end accepts the new position. *)
Closes(s) == s.debounce = Debounce - 1
Opens(s)  == s.debounce = 2

(* A contact just out of its end position on a device that has lost its    *)
(* network asks for a rejoin.                                              *)
RejoinOut(s, shut) ==
  IF /\ s.status # "float" \/ ~TwoPosition
     /\ Step(s, shut) # s.debounce
     /\ Step(s, shut) = IF shut THEN RejoinLag ELSE Debounce - RejoinLag
     /\ network = "lost"
  THEN {"rejoin"} ELSE {}

(* Mutants of ToggleRead: a closing is taken whatever the last position     *)
(* was, or an opening ends the gesture only after a single closing.        *)
ToggleReadUnchecked(s, shut) ==
  LET moved == [s EXCEPT !.debounce = Step(s, shut)]
  IN  CASE s.status = "float" ->
             [s EXCEPT !.status = IF shut THEN "closed" ELSE "open"]
        [] s.status # "float" /\ shut /\ Closes(s) ->
             [moved EXCEPT !.status = "closed", !.pressed = TRUE,
                !.counter = IF @ = 0 \/ ~Late(s) THEN Inc(@) ELSE @,
                !.age = 0]
        [] s.status = "closed" /\ ~shut /\ Opens(s) /\ s.pressed ->
             [moved EXCEPT !.status = "open", !.released = TRUE]
        [] OTHER -> moved

ToggleReadSingle(s, shut) ==
  LET moved == [s EXCEPT !.debounce = Step(s, shut)]
  IN  CASE s.status = "float" ->
             [s EXCEPT !.status = IF shut THEN "closed" ELSE "open"]
        [] s.status # "float" /\ shut /\ Closes(s) /\ s.status # "closed" ->
             [moved EXCEPT !.status = "closed", !.pressed = TRUE,
                !.counter = IF @ = 0 \/ ~Late(s) THEN Inc(@) ELSE @,
                !.released = FALSE, !.age = 0]
        [] s.status = "closed" /\ ~shut /\ Opens(s) /\ s.pressed ->
             [moved EXCEPT !.status = "open", !.released = (s.counter = 1)]
        [] OTHER -> moved

(* read_switch_toggle: the first poll applies the start-up behaviour and    *)
(* takes the position as it is.                                            *)
ToggleRead(s, shut) ==
  LET moved == [s EXCEPT !.debounce = Step(s, shut)]
  IN  CASE s.status = "float" ->
             [s EXCEPT !.status = IF shut THEN "closed" ELSE "open"]
        [] s.status # "float" /\ shut /\ Closes(s) /\ s.status # "closed" ->
             [moved EXCEPT
                !.status = "closed",
                !.pressed = @ \/ s.counter = 0,
                !.counter = IF @ = 0 THEN 1
                            ELSE IF s.pressed /\ ~Late(s) THEN Inc(@) ELSE @,
                !.age = 0]
        [] s.status = "closed" /\ ~shut /\ Opens(s) /\ s.pressed ->
             [moved EXCEPT !.status = "open", !.released = TRUE]
        [] OTHER -> moved

(* Mutant of ToggleOut: the release belongs to the second closing. *)
ToggleOutSecond(s, shut) ==
  LET r == ToggleRead(s, shut)
  IN  (IF s.status = "float" THEN {"start"} ELSE {})
        \cup (IF /\ shut /\ Closes(s) /\ s.status = "open" /\ s.counter = 0
              THEN {"press"} ELSE {})
        \cup (IF /\ s.status = "closed" /\ r.status = "open"
                 /\ r.counter = 2 /\ network = "joined"
                 /\ type = TypeMomentary
              THEN {"release"} ELSE {})

(* A closing is acted on when no other has been counted, also when so many  *)
(* have been that the counter is back at 0.                                *)
ToggleOut(s, shut) ==
  LET r == ToggleRead(s, shut)
  IN  (IF s.status = "float" THEN {"start"} ELSE {})
        \cup (IF /\ shut /\ Closes(s) /\ s.status = "open" /\ s.counter = 0
              THEN {"press"} ELSE {})
        \cup (IF /\ s.status = "closed" /\ r.status = "open"
                 /\ r.counter = 1 /\ network = "joined"
                 /\ type = TypeMomentary
              THEN {"release"} ELSE {})

(* read_switch_multifunction and read_switch_light_control read the contact *)
(* alike.  A contact held closed is announced once per gesture; the light   *)
(* control reverses its direction each time.                               *)
(* Mutant of HoldsNow: every poll of a held contact announces it. *)
HoldsAgain(s, shut) == shut /\ s.pressed /\ Late(s)

HoldsNow(s, shut) == shut /\ s.pressed /\ Late(s) /\ ~s.hold

GestureRead(s, shut) ==
  LET held == IF HoldsNow(s, shut)
              THEN [s EXCEPT !.hold = TRUE,
                      !.levelDir = IF type = LightControl THEN ~@ ELSE @]
              ELSE s
      moved == [held EXCEPT !.debounce = Step(s, shut)]
  IN  CASE shut /\ Closes(s) ->
             [moved EXCEPT !.pressed = TRUE,
                !.counter = IF Late(s) THEN 1 ELSE Inc(@),
                !.age = 0]
        [] ~shut /\ Opens(s) /\ s.pressed -> [moved EXCEPT !.released = TRUE]
        [] OTHER -> moved

GestureOut(s, shut) == IF HoldsNow(s, shut) THEN {"hold"} ELSE {}

Read(s, shut) ==
  IF TwoPosition THEN ToggleRead(s, shut) ELSE GestureRead(s, shut)

ReadOut(s, shut) ==
  RejoinOut(s, shut)
    \cup IF TwoPosition THEN ToggleOut(s, shut) ELSE GestureOut(s, shut)

-----------------------------------------------------------------------------
(* The end of a gesture *)

Ended(s) == s.released /\ Late(s)

Finish(s) ==
  IF Ended(s)
  THEN [s EXCEPT !.counter = 0, !.pressed = FALSE, !.released = FALSE,
                 !.hold = FALSE]
  ELSE s

ResetOut(s) == IF s.counter >= FrMax THEN {"reset"} ELSE {}

FinishOut(s) ==
  CASE ~Ended(s)                      -> {}
    [] Ended(s) /\ TwoPosition        -> ResetOut(s)
    [] Ended(s) /\ ~TwoPosition /\ s.hold -> {"holdEnd"}
    [] Ended(s) /\ type = Multifunction /\ ~s.hold ->
         CASE s.counter \in 1 .. 3     -> {"click"}
           [] s.counter = ClearCount   -> {"empty"}
           [] OTHER                    -> ResetOut(s)
    [] Ended(s) /\ type = LightControl /\ ~s.hold ->
         IF s.counter = 1 THEN {"click"} ELSE ResetOut(s)

-----------------------------------------------------------------------------
(* switch_handler: one poll. *)
Poll ==
  LET read == Read(sw, closed)
  IN  /\ sw' = Finish(read)
      /\ out' = ReadOut(sw, closed) \cup FinishOut(read)
      /\ polled' = TRUE
      /\ opened' = CASE read.counter > sw.counter -> FALSE
                     [] read.counter <= sw.counter /\ read.debounce = 1 -> TRUE
                     [] OTHER -> opened
      /\ holding' = /\ holding \/ "hold" \in out'
                    /\ "holdEnd" \notin out'
      /\ owed' = CASE /\ "press" \in out' /\ ~sw.pressed
                      /\ type = TypeMomentary -> TRUE
                   [] "release" \in out' -> FALSE
                   [] read.status = "open" /\ network # "joined" -> FALSE
                   [] OTHER -> owed
      /\ UNCHANGED <<closed, type, network>>

(* Time passes.  The main loop comes round at least once per tick. *)
Elapse ==
  /\ polled
  /\ polled' = FALSE
  /\ sw' = [sw EXCEPT !.age = (@ + 1) % ClockWrap]
  /\ out' = {}
  /\ UNCHANGED <<closed, type, network, opened, holding, owed>>

(* The contact moves, bounces or picks up noise. *)
ContactMoves ==
  /\ closed' = ~closed
  /\ out' = {}
  /\ UNCHANGED <<type, network, sw, polled, opened, holding, owed>>

NetworkChanges ==
  /\ network' = IF network = "joined" THEN "lost" ELSE "joined"
  /\ out' = {}
  /\ UNCHANGED <<closed, type, sw, polled, opened, holding, owed>>

(* app_zclWriteReqCmd changes the type under a gesture in progress.  What   *)
(* the old type had begun is not owed by the new one.                      *)
WriteType ==
  /\ type \in Rewritten
  /\ type' \in Rewritten \ {type}
  /\ out' = {}
  /\ owed' = FALSE
  /\ holding' = FALSE
  /\ UNCHANGED <<closed, network, sw, polled, opened>>

(* A restart: the contact may be in either position. *)
Restart ==
  /\ sw' = InitSwitch
  /\ out' = {}
  /\ network' = IF network = "new" THEN "new" ELSE "lost"
  /\ polled' = FALSE
  /\ opened' = TRUE
  /\ holding' = FALSE
  /\ owed' = FALSE
  /\ UNCHANGED <<closed, type>>

Next ==
  \/ Poll
  \/ Elapse
  \/ ContactMoves
  \/ NetworkChanges
  \/ WriteType
  \/ Restart

Spec == Init /\ [][Next]_vars

(* The main loop goes on polling and the clock goes on running; the contact, *)
(* the network and the client do as they please.                           *)
FairSpec == Spec /\ WF_vars(Poll) /\ WF_vars(Elapse)

-----------------------------------------------------------------------------
(* Properties *)

(* A closing is counted only if the contact has counted as open since the   *)
(* closing before it: between two of them it has been through the whole     *)
(* debounce range (read_switch_toggle checks the status it last accepted). *)
PressDebounced == [][sw'.counter > sw.counter => opened]_vars

(* The same of the two-position types alone.                                *)
TwoPositionDebounced ==
  [][TwoPosition /\ sw'.counter > sw.counter => opened]_vars

(* When a gesture of a momentary switch is over, the press that began it    *)
(* has been followed by its release, unless the network was away when the   *)
(* contact opened or the type was rewritten meanwhile.  Only that press: a  *)
(* closing that finds the byte counter wrapped to 0 in the middle of its   *)
(* gesture is acted on too, but if the contact is then held closed, the     *)
(* earlier openings let the gesture end before it opens.                   *)
MomentaryReleases == owed => sw.pressed

(* The announcements of holding alternate: no second hold without the end   *)
(* of the first, and no end without a hold, so that a level movement is     *)
(* started and stopped once.                                               *)
HoldsAlternate ==
  [][/\ "hold" \in out' => ~holding
     /\ "holdEnd" \in out' => holding \/ "hold" \in out'
     /\ out' \cap {"click", "empty", "reset"} # {} => ~holding']_vars

(* Once the contact stays open, the gesture in progress ends and a level    *)
(* movement it started is stopped.                                         *)
GestureEnds == <>[](~closed) => <>[](~sw.pressed /\ ~holding)

(* A contact read open often enough to bring the debounce counter to its    *)
(* end counts as open (app_switch.c:4 gives the number of polls).  It does  *)
(* not when it was closed at power-on, or has been held closed after a     *)
(* quick close and open: read_switch_toggle takes an opening only while a   *)
(* gesture is in progress.                                                 *)
OpeningTaken == TwoPosition /\ sw.debounce = 1 => sw.status # "closed"

=============================================================================
