-------------------------- MODULE WallSwitch_proofs --------------------------
(***************************************************************************)
(* Theorems about WallSwitch, for every debounce range, width of the       *)
(* closing counter, length of the window and clock.                        *)
(***************************************************************************)
EXTENDS WallSwitch, TLAPS

-----------------------------------------------------------------------------
(* Reading the contact *)

(* What the assumptions say of the constants. *)
LEMMA ConstantsAreNumbers ==
  /\ Debounce \in Nat /\ Debounce > 3
  /\ CounterMod \in Nat /\ CounterMod > 4
  /\ ClockWrap \in Nat /\ ClockWrap > 1
  /\ Debounce \div 2 \in 1 .. Debounce
BY RangeAssumption, ClockAssumption

(* The ranges of the numbers of a switch, as sets. *)
Counts == 0 .. CounterMod - 1
Depths == 1 .. Debounce
Ages == 0 .. ClockWrap - 1

(* The fields of a switch, and members of their ranges. *)
LEMMA SwitchIs ==
  /\ Switch =
       [status : {"open", "closed", "float"}, pressed : BOOLEAN,
        released : BOOLEAN, hold : BOOLEAN, levelDir : BOOLEAN,
        counter : Counts, debounce : Depths, age : Ages]
  /\ 0 \in Counts /\ 1 \in Counts /\ 0 \in Ages
  /\ 1 \in Depths /\ Debounce \in Depths /\ Debounce \div 2 \in Depths
<1>1. 0 \in Counts /\ 1 \in Counts /\ 0 \in Ages /\ 1 \in Depths /\ Debounce \in Depths
      /\ Debounce \div 2 \in Depths
  BY ConstantsAreNumbers DEF Counts, Ages, Depths
<1> QED
  BY <1>1 DEF Switch, Counts, Ages, Depths

(* The closing counter wraps and the debounce counter stays in its range. *)
LEMMA CountersStay ==
  ASSUME NEW s \in Switch, NEW shut \in BOOLEAN
  PROVE  Inc(s.counter) \in Counts /\ Step(s, shut) \in Depths
<1>1. s.counter \in 0 .. CounterMod - 1 /\ s.debounce \in 1 .. Debounce
  BY DEF Switch
<1>2. Inc(s.counter) \in Counts
  BY <1>1, ConstantsAreNumbers DEF Inc, Counts
<1>3. Step(s, shut) \in Depths
  BY <1>1, ConstantsAreNumbers DEF Step, Depths
<1> QED
  BY <1>2, <1>3

(* Nothing but the debounce counter and an unknown position changes. *)
Idles(s, r) ==
  /\ r.counter = s.counter
  /\ r.pressed <=> s.pressed
  /\ r.released <=> s.released
  /\ r.status = s.status \/ s.status = "float"

(* read_switch_toggle takes a closing, an opening or nothing. *)
LEMMA ToggleReads ==
  ASSUME NEW s \in Switch, NEW shut \in BOOLEAN, NEW r, r = ToggleRead(s, shut)
  PROVE  /\ r \in Switch
         /\ r.hold <=> s.hold
         /\ \/ /\ s.status = "open" /\ r.status = "closed" /\ r.debounce = Debounce
               /\ r.pressed <=> s.pressed \/ s.counter = 0
               /\ r.released <=> s.released
               /\ s.counter = 0 => r.counter = 1
            \/ /\ s.status = "closed" /\ r.status = "open" /\ r.debounce = 1
               /\ s.pressed /\ r.pressed /\ r.released
               /\ r.counter = s.counter
            \/ Idles(s, r)
<1> DEFINE moved == [s EXCEPT !.debounce = Step(s, shut)]
<1> USE CountersStay, SwitchIs
<1>1. CASE s.status = "float"
  <2>1. r = [s EXCEPT !.status = IF shut THEN "closed" ELSE "open"]
    BY <1>1 DEF ToggleRead
  <2> QED
    BY <1>1, <2>1 DEF Idles
<1>2. CASE s.status # "float" /\ shut /\ Closes(s) /\ s.status # "closed"
  <2> DEFINE held == s.pressed \/ s.counter = 0
             count == IF s.counter = 0 THEN 1
                      ELSE IF s.pressed /\ ~Late(s) THEN Inc(s.counter) ELSE s.counter
  <2>1. r = [moved EXCEPT !.status = "closed", !.pressed = held, !.counter = count,
                          !.age = 0]
    BY <1>2 DEF ToggleRead
  <2>2. held \in BOOLEAN /\ count \in Counts
        /\ (held <=> s.pressed \/ s.counter = 0)
        /\ (s.counter = 0 => count = 1)
    OBVIOUS
  <2>3. Step(s, shut) = Debounce
    BY <1>2 DEF Step, Closes, Depths
  <2>4. s.status = "open"
    BY <1>2
  <2> HIDE DEF held, count
  <2>5. r \in Switch
    BY <2>1, <2>2, <2>3
  <2>6. r.status = "closed" /\ r.debounce = Debounce /\ r.pressed = held
        /\ r.counter = count /\ r.hold = s.hold /\ r.released = s.released
    BY <2>1, <2>3
  <2> QED
    BY <2>2, <2>4, <2>5, <2>6, Zenon
<1>3. CASE s.status = "closed" /\ ~shut /\ Opens(s) /\ s.pressed
  <2>1. r = [moved EXCEPT !.status = "open", !.released = TRUE]
    BY <1>3 DEF ToggleRead
  <2>2. Step(s, shut) = 1
    BY <1>3 DEF Step, Opens, Depths
  <2>3. r \in Switch
    BY <2>1, <2>2
  <2>4. r.status = "open" /\ r.debounce = 1 /\ r.pressed = s.pressed /\ r.released = TRUE
        /\ r.counter = s.counter /\ r.hold = s.hold
    BY <2>1, <2>2
  <2> QED
    BY <1>3, <2>3, <2>4, Zenon
<1>4. CASE /\ s.status # "float"
           /\ ~(s.status # "float" /\ shut /\ Closes(s) /\ s.status # "closed")
           /\ ~(s.status = "closed" /\ ~shut /\ Opens(s) /\ s.pressed)
  <2>1. r = moved
    BY <1>4 DEF ToggleRead
  <2> QED
    BY <2>1 DEF Idles
<1> QED
  BY <1>1, <1>2, <1>3, <1>4

(* The other handlers announce a hold once and leave the position alone.    *)
LEMMA GestureReads ==
  ASSUME NEW s \in Switch, NEW shut \in BOOLEAN, NEW r, r = GestureRead(s, shut)
  PROVE  /\ r \in Switch
         /\ r.hold <=> s.hold \/ HoldsNow(s, shut)
         /\ r.released => s.released \/ r.pressed
         /\ s.pressed => r.pressed
         /\ ~r.pressed => r.counter = s.counter
<1> DEFINE held == IF HoldsNow(s, shut)
                   THEN [s EXCEPT !.hold = TRUE,
                           !.levelDir = IF type = LightControl THEN ~@ ELSE @]
                   ELSE s
           moved == [held EXCEPT !.debounce = Step(s, shut)]
<1> USE CountersStay, SwitchIs
<1>1. /\ held \in Switch
      /\ held.hold <=> s.hold \/ HoldsNow(s, shut)
      /\ held.counter = s.counter
      /\ held.pressed = s.pressed /\ held.released = s.released
  <2>1. CASE HoldsNow(s, shut)
    BY <2>1
  <2>2. CASE ~HoldsNow(s, shut)
    BY <2>2
  <2> QED
    BY <2>1, <2>2
<1> HIDE DEF held
<1>2. /\ moved \in Switch
      /\ moved.hold = held.hold /\ moved.counter = s.counter
      /\ moved.pressed = s.pressed /\ moved.released = s.released
  BY <1>1
<1>3. CASE shut /\ Closes(s)
  <2>1. r = [moved EXCEPT !.pressed = TRUE,
                          !.counter = IF Late(s) THEN 1 ELSE Inc(@), !.age = 0]
    BY <1>3 DEF GestureRead, held
  <2>2. Inc(moved.counter) \in Counts
    BY <1>2
  <2> HIDE DEF moved
  <2>3. r \in Switch
    BY <1>2, <2>1, <2>2
  <2>4. r.pressed = TRUE /\ r.hold = moved.hold
    BY <1>2, <2>1
  <2> QED
    BY <1>1, <1>2, <2>3, <2>4, Zenon
<1>4. CASE ~shut /\ Opens(s) /\ s.pressed
  <2>1. r = [moved EXCEPT !.released = TRUE]
    BY <1>4 DEF GestureRead, held
  <2> HIDE DEF moved
  <2>2. r \in Switch
    BY <1>2, <2>1
  <2>3. r.pressed = s.pressed /\ r.hold = moved.hold
    BY <1>2, <2>1
  <2> QED
    BY <1>1, <1>2, <1>4, <2>2, <2>3, Zenon
<1>5. CASE ~(shut /\ Closes(s)) /\ ~(~shut /\ Opens(s) /\ s.pressed)
  <2>1. r = moved
    BY <1>5 DEF GestureRead, held
  <2> HIDE DEF moved
  <2> QED
    BY <1>1, <1>2, <2>1, Zenon
<1> QED
  BY <1>3, <1>4, <1>5

(* The end of a gesture clears what it left behind. *)
LEMMA Finishes ==
  ASSUME NEW s \in Switch, NEW f, f = Finish(s)
  PROVE  /\ f \in Switch
         /\ ~Ended(s) => f = s
         /\ Ended(s) => f.counter = 0 /\ ~f.pressed /\ ~f.released /\ ~f.hold
<1>1. CASE Ended(s)
  <2>1. f = [s EXCEPT !.counter = 0, !.pressed = FALSE, !.released = FALSE, !.hold = FALSE]
    BY <1>1 DEF Finish
  <2> QED
    BY <1>1, <2>1, SwitchIs
<1>2. CASE ~Ended(s)
  BY <1>2 DEF Finish
<1> QED
  BY <1>1, <1>2

-----------------------------------------------------------------------------
(* Type correctness, and what a gesture in progress is *)

(* A gesture is in progress while pressed is set: only then are closings    *)
(* counted and an opening is remembered.                                    *)
GestureSound ==
  /\ sw.released => sw.pressed
  /\ ~sw.pressed => sw.counter = 0

(* A switch type is one of four numbers. *)
LEMMA TypesAreNumbers ==
  ASSUME TypeOK
  PROVE  type \in 0 .. 3
BY TypesAssumption DEF TypeOK, TypeToggle, LightControl

(* What a poll makes of the switch. *)
LEMMA PollReads ==
  ASSUME TypeOK, GestureSound, Poll, NEW r, r = Read(sw, closed)
  PROVE  /\ r \in Switch /\ sw' \in Switch
         /\ r.released => r.pressed
         /\ ~r.pressed => r.counter = 0
         /\ ~Ended(r) => sw' = r
         /\ Ended(r) => sw'.counter = 0 /\ ~sw'.pressed /\ ~sw'.released /\ ~sw'.hold
<1>1. sw \in Switch /\ closed \in BOOLEAN
  BY DEF TypeOK
<1>2. r \in Switch /\ (r.released => r.pressed) /\ (~r.pressed => r.counter = 0)
  <2>1. CASE TwoPosition
    <3>1. r = ToggleRead(sw, closed)
      BY <2>1 DEF Read
    <3> QED
      BY <1>1, <3>1, ToggleReads DEF Idles, GestureSound
  <2>2. CASE ~TwoPosition
    <3>1. r = GestureRead(sw, closed)
      BY <2>2 DEF Read
    <3> QED
      BY <1>1, <3>1, GestureReads DEF GestureSound
  <2> QED
    BY <2>1, <2>2
<1>3. sw' = Finish(r)
  BY DEF Poll
<1> QED
  BY <1>2, <1>3, Finishes

(* What the end of a gesture asks for. *)
LEMMA FinishOutIs ==
  ASSUME TypeOK, NEW r
  PROVE  /\ ~Ended(r) => FinishOut(r) = {}
         /\ Ended(r) /\ TwoPosition => FinishOut(r) \in {{}, {"reset"}}
         /\ Ended(r) /\ ~TwoPosition /\ r.hold => FinishOut(r) = {"holdEnd"}
         /\ Ended(r) /\ ~TwoPosition /\ ~r.hold =>
              FinishOut(r) \in {{}, {"click"}, {"empty"}, {"reset"}}
<1>1. ResetOut(r) \in {{}, {"reset"}}
  BY DEF ResetOut
<1>2. type = Multifunction \/ type = LightControl \/ TwoPosition
  BY TypesAreNumbers DEF TwoPosition, Multifunction, LightControl
<1>3. /\ type = Multifunction => ~TwoPosition /\ type # LightControl
      /\ type = LightControl => ~TwoPosition
  BY DEF TwoPosition, Multifunction, LightControl
<1>4. CASE ~Ended(r)
  BY <1>4 DEF FinishOut
<1>5. CASE Ended(r) /\ TwoPosition
  BY <1>1, <1>3, <1>5 DEF FinishOut
<1>6. CASE Ended(r) /\ ~TwoPosition /\ r.hold
  BY <1>6 DEF FinishOut
<1>7. CASE Ended(r) /\ ~TwoPosition /\ ~r.hold
  <2>1. CASE type = Multifunction
    <3>1. FinishOut(r) = CASE r.counter \in 1 .. 3   -> {"click"}
                           [] r.counter = ClearCount -> {"empty"}
                           [] OTHER                  -> ResetOut(r)
      BY <1>3, <1>7, <2>1 DEF FinishOut
    <3>2. FinishOut(r) \in {{"click"}, {"empty"}, ResetOut(r)}
      <4> DEFINE a == r.counter \in 1 .. 3
                 b == r.counter = ClearCount
      <4>1. FinishOut(r) = CASE a -> {"click"} [] b -> {"empty"} [] OTHER -> ResetOut(r)
        BY <3>1
      <4> HIDE DEF a, b
      <4> QED
        BY <4>1
    <3> QED
      BY <1>1, <1>7, <3>2
  <2>2. CASE type = LightControl
    <3>1. FinishOut(r) = IF r.counter = 1 THEN {"click"} ELSE ResetOut(r)
      BY <1>3, <1>7, <2>2 DEF FinishOut
    <3> QED
      BY <1>1, <1>7, <3>1
  <2> QED
    BY <1>2, <1>7, <2>1, <2>2
<1> QED
  BY <1>4, <1>5, <1>6, <1>7

(* What a poll asks for are outputs. *)
LEMMA OutIsOutputs ==
  ASSUME TypeOK, NEW s, NEW shut, NEW r
  PROVE  ReadOut(s, shut) \cup FinishOut(r) \in SUBSET Outputs
<1>1. ReadOut(s, shut) \subseteq Outputs
  BY DEF ReadOut, RejoinOut, ToggleOut, GestureOut, Outputs
<1>2. FinishOut(r) \in {{}, {"click"}, {"empty"}, {"reset"}, {"holdEnd"}}
  BY FinishOutIs
<1> QED
  BY <1>1, <1>2 DEF Outputs

(* At power-on no gesture is in progress. *)
LEMMA InitSwitchIsSound ==
  /\ InitSwitch \in Switch
  /\ ~InitSwitch.pressed /\ ~InitSwitch.released /\ ~InitSwitch.hold
  /\ InitSwitch.counter = 0 /\ InitSwitch.status = "float"
BY SwitchIs DEF InitSwitch

(* The switch starts with values of their types and no gesture. *)
LEMMA TypeInit == Init => TypeOK /\ GestureSound
BY InitSwitchIsSound DEF Init, TypeOK, GestureSound

(* Every step keeps the types and what a gesture in progress is. *)
LEMMA TypeStep == TypeOK /\ GestureSound /\ [Next]_vars => TypeOK' /\ GestureSound'
<1> SUFFICES ASSUME TypeOK, GestureSound, [Next]_vars
             PROVE  TypeOK' /\ GestureSound'
  OBVIOUS
<1>1. CASE Poll
  <2> DEFINE r == Read(sw, closed)
  <2>1. sw' \in Switch /\ GestureSound'
    BY <1>1, PollReads DEF GestureSound
  <2>2. out' \in SUBSET Outputs
    <3>1. out' = ReadOut(sw, closed) \cup FinishOut(r)
      BY <1>1 DEF Poll
    <3> HIDE DEF r
    <3> QED
      BY <3>1, OutIsOutputs
  <2>3. opened' \in BOOLEAN
    <3>1. \/ r.counter > sw.counter
          \/ r.counter <= sw.counter /\ r.debounce = 1
          \/ ~(r.counter > sw.counter) /\ ~(r.counter <= sw.counter /\ r.debounce = 1)
      OBVIOUS
    <3>2. opened' = CASE r.counter > sw.counter -> FALSE
                     [] r.counter <= sw.counter /\ r.debounce = 1 -> TRUE
                     [] OTHER -> opened
      BY <1>1 DEF Poll
    <3> HIDE DEF r
    <3> QED
      BY <3>1, <3>2, Zenon DEF TypeOK
  <2>4. holding' \in BOOLEAN
    BY <1>1, Zenon DEF Poll
  <2>5. owed' \in BOOLEAN
    <3>1. owed' = CASE "press" \in out' /\ ~sw.pressed /\ type = TypeMomentary -> TRUE
                    [] "release" \in out' -> FALSE
                    [] r.status = "open" /\ network # "joined" -> FALSE
                    [] OTHER -> owed
      BY <1>1 DEF Poll
    <3> HIDE DEF r
    <3> QED
      BY <3>1, Zenon DEF TypeOK
  <2>6. UNCHANGED <<closed, type, network>> /\ polled' = TRUE
    BY <1>1 DEF Poll
  <2> QED
    BY <2>1, <2>2, <2>3, <2>4, <2>5, <2>6 DEF TypeOK
<1>2. CASE Elapse
  <2>1. (sw.age + 1) % ClockWrap \in Ages
    BY ConstantsAreNumbers DEF TypeOK, Switch, Ages
  <2>2. sw' = [sw EXCEPT !.age = (sw.age + 1) % ClockWrap]
    BY <1>2 DEF Elapse
  <2>3. sw \in Switch
    BY DEF TypeOK
  <2>4. sw' \in Switch
    BY <2>1, <2>2, <2>3, SwitchIs
  <2>5. GestureSound'
    <3>1. sw'.released = sw.released /\ sw'.pressed = sw.pressed /\ sw'.counter = sw.counter
      BY <2>2, <2>3, SwitchIs
    <3> QED
      BY <3>1, Zenon DEF GestureSound
  <2> QED
    BY <1>2, <2>4, <2>5 DEF Elapse, TypeOK
<1>3. CASE ContactMoves \/ NetworkChanges \/ UNCHANGED vars
  BY <1>3 DEF ContactMoves, NetworkChanges, vars, TypeOK, GestureSound
<1>4. CASE WriteType
  BY <1>4, TypesAssumption DEF WriteType, TypeOK, GestureSound
<1>5. CASE Restart
  BY <1>5, InitSwitchIsSound DEF Restart, TypeOK, GestureSound
<1> QED
  BY <1>1, <1>2, <1>3, <1>4, <1>5 DEF Next

(* The fields of the switch keep to their widths: the closing counter wraps *)
(* at 2^8 and the debounce counter turns back at both ends of its range.    *)
THEOREM TypeCorrect == Spec => []TypeOK
<1>1. Spec => [](TypeOK /\ GestureSound)
  BY TypeInit, TypeStep, PTL DEF Spec
<1> QED
  BY <1>1, PTL

-----------------------------------------------------------------------------
(* A momentary press is followed by its release *)

(* While a release is due, the contact that was accepted is the closed one, *)
(* the closing was the first of its gesture, and the gesture cannot end.    *)
OwedSound ==
  owed => /\ type = TypeMomentary /\ sw.status = "closed"
          /\ sw.counter = 1 /\ sw.pressed /\ ~sw.released

(* Every step keeps what is known while a release is due. *)
LEMMA OwedStep ==
  ASSUME TypeOK, GestureSound, OwedSound, [Next]_vars
  PROVE  OwedSound'
<1>1. CASE Poll
  <2> DEFINE r == Read(sw, closed)
  <2> SUFFICES ASSUME owed' PROVE OwedSound'
    BY DEF OwedSound
  <2>1. sw \in Switch /\ closed \in BOOLEAN /\ type' = type
    BY <1>1 DEF TypeOK, Poll
  <2>2. owed' = CASE "press" \in out' /\ ~sw.pressed /\ type = TypeMomentary -> TRUE
                  [] "release" \in out' -> FALSE
                  [] r.status = "open" /\ network # "joined" -> FALSE
                  [] OTHER -> owed
    BY <1>1 DEF Poll
  <2>3. \/ "press" \in out' /\ ~sw.pressed /\ type = TypeMomentary
        \/ owed /\ "release" \notin out' /\ ~(r.status = "open" /\ network # "joined")
    <3> HIDE DEF r
    <3> QED
      BY <2>2, Zenon
  <2>4. out' = ReadOut(sw, closed) \cup FinishOut(r)
    BY <1>1 DEF Poll
  <2>5. "press" \notin FinishOut(r) /\ "release" \notin FinishOut(r)
    <3>1. FinishOut(r) \in {{}, {"click"}, {"empty"}, {"reset"}, {"holdEnd"}}
      <4> HIDE DEF r
      <4> QED
        BY FinishOutIs
    <3> QED
      BY <3>1
  <2>6. TwoPosition /\ type = TypeMomentary
    <3>1. type = TypeMomentary
      BY <2>3 DEF OwedSound
    <3> QED
      BY <3>1 DEF TwoPosition, TypeMomentary, Multifunction
  <2>7. r = ToggleRead(sw, closed)
    BY <2>6 DEF Read
  <2>8. ReadOut(sw, closed) = RejoinOut(sw, closed) \cup ToggleOut(sw, closed)
    BY <2>6 DEF ReadOut
  <2>9. r.status = "closed" /\ r.counter = 1 /\ r.pressed /\ ~r.released
    <3>1. CASE "press" \in out' /\ ~sw.pressed
      <4>1. "press" \in ToggleOut(sw, closed)
        BY <2>4, <2>5, <2>8, <3>1 DEF RejoinOut
      <4>2. closed /\ Closes(sw) /\ sw.status = "open" /\ sw.counter = 0
        BY <4>1 DEF ToggleOut
      <4>3. ToggleRead(sw, closed).status = "closed"
        BY <2>1, <4>2, SwitchIs DEF ToggleRead
      <4> HIDE DEF r
      <4> QED
        BY <2>1, <2>7, <3>1, <4>2, <4>3, ToggleReads DEF Idles, GestureSound
    <3>2. CASE owed /\ "release" \notin out' /\ ~(r.status = "open" /\ network # "joined")
      <4>1. sw.status = "closed" /\ sw.counter = 1 /\ sw.pressed /\ ~sw.released
        BY <3>2 DEF OwedSound
      <4>2. ~(r.status = "open" /\ r.counter = 1)
        <5>1. "release" \notin ToggleOut(sw, closed)
          BY <2>4, <2>8, <3>2
        <5>2. sw.status = "closed" /\ r.status = "open" /\ r.counter = 1
              /\ network = "joined" /\ type = TypeMomentary
              => "release" \in ToggleOut(sw, closed)
          BY <2>7 DEF ToggleOut
        <5> HIDE DEF r
        <5> QED
          BY <2>6, <3>2, <4>1, <5>1, <5>2
      <4> HIDE DEF r
      <4> QED
        BY <2>1, <2>7, <4>1, <4>2, ToggleReads DEF Idles
    <3> QED
      BY <2>3, <3>1, <3>2
  <2>10. sw' = r
    <3>1. ~Ended(r)
      BY <2>9 DEF Ended
    <3> HIDE DEF r
    <3> QED
      BY <1>1, <3>1, PollReads DEF r
  <2> QED
    BY <2>1, <2>6, <2>9, <2>10 DEF OwedSound
<1>2. CASE Elapse
  <2>1. UNCHANGED <<type, owed>> /\ sw' = [sw EXCEPT !.age = (sw.age + 1) % ClockWrap]
    BY <1>2 DEF Elapse
  <2>2. /\ sw'.status = sw.status /\ sw'.counter = sw.counter
        /\ sw'.pressed = sw.pressed /\ sw'.released = sw.released
    BY <2>1, SwitchIs DEF TypeOK
  <2> QED
    BY <2>1, <2>2, Zenon DEF OwedSound
<1>3. CASE ContactMoves \/ NetworkChanges \/ UNCHANGED vars
  BY <1>3 DEF ContactMoves, NetworkChanges, vars, OwedSound
<1>4. CASE WriteType \/ Restart
  BY <1>4 DEF WriteType, Restart, OwedSound
<1> QED
  BY <1>1, <1>2, <1>3, <1>4 DEF Next

(* No gesture of a momentary switch ends with the release of the press that *)
(* began it still due, whatever the contact, the network and a client do    *)
(* meanwhile (read_switch_toggle sends it at the first opening).            *)
THEOREM MomentaryReleasesHolds == Spec => []MomentaryReleases
<1> DEFINE Inv == TypeOK /\ GestureSound /\ OwedSound
<1>1. Init => Inv
  BY TypeInit DEF Init, OwedSound
<1>2. Inv /\ [Next]_vars => Inv'
  BY TypeStep, OwedStep
<1>3. Inv => MomentaryReleases
  BY DEF OwedSound, MomentaryReleases
<1> QED
  BY <1>1, <1>2, <1>3, PTL DEF Spec

-----------------------------------------------------------------------------
(* Closings are debounced *)

(* Two-position types are not rewritten into gesture types, nor the other   *)
(* way: what the one has accepted of the contact means nothing to the other. *)
NotMixed ==
  \/ Rewritten \subseteq {TypeToggle, TypeMomentary}
  \/ Rewritten \subseteq {Multifunction, LightControl}

(* Since a closing was accepted, the contact has not been open for long     *)
(* enough to be accepted as open.                                          *)
OpenedSound == TwoPosition /\ ~opened => sw.status = "closed"

(* Without mixed rewriting a switch stays two-position, or never is. *)
LEMMA KindStays ==
  ASSUME NotMixed, [Next]_vars
  PROVE  TwoPosition' <=> TwoPosition
<1>1. CASE type' = type
  BY <1>1 DEF TwoPosition
<1>2. CASE WriteType
  BY <1>2 DEF WriteType, NotMixed, TwoPosition, TypeToggle, TypeMomentary, Multifunction,
              LightControl
<1> QED
  BY <1>1, <1>2 DEF Next, Poll, Elapse, ContactMoves, NetworkChanges, Restart, vars

(* A two-position switch counts only after it was open for long. *)
LEMMA OpenedStep ==
  ASSUME NotMixed, TypeOK, GestureSound, OpenedSound, [Next]_vars
  PROVE  /\ OpenedSound'
         /\ TwoPosition /\ sw'.counter > sw.counter => opened
<1> USE KindStays
<1>1. CASE Poll /\ TwoPosition
  <2> DEFINE r == Read(sw, closed)
             n == r.counter
  <2>1. r = ToggleRead(sw, closed) /\ sw \in Switch /\ closed \in BOOLEAN
    BY <1>1 DEF Read, TypeOK
  <2>2. opened' = CASE n > sw.counter -> FALSE
                    [] n <= sw.counter /\ r.debounce = 1 -> TRUE
                    [] OTHER -> opened
    BY <1>1 DEF Poll
  <2>3. r \in Switch /\ n \in Nat /\ sw.counter \in Nat
    BY <1>1, <2>1, ToggleReads DEF Switch
  <2>4. /\ ~opened' => n > sw.counter \/ (~opened /\ ~(r.debounce = 1))
    <3>1. ~opened' => n > sw.counter \/ (~opened /\ ~(n <= sw.counter /\ r.debounce = 1))
      <4> HIDE DEF r, n
      <4> QED
        BY <2>2, Zenon
    <3> HIDE DEF r, n
    <3> QED
      BY <2>3, <3>1
  <2>5. \/ sw.status = "open" /\ r.status = "closed"
        \/ sw.status = "closed" /\ r.debounce = 1 /\ n = sw.counter
        \/ n = sw.counter /\ (r.status = sw.status \/ sw.status = "float")
    <3> HIDE DEF r
    <3> QED
      BY <2>1, ToggleReads DEF Idles
  <2>6. n > sw.counter => sw.status = "open" /\ r.status = "closed"
    <3> HIDE DEF r, n
    <3> QED
      BY <2>3, <2>5
  <2>7. sw'.status = r.status /\ (sw'.counter = n \/ sw'.counter = 0)
    <3>1. sw' = Finish(r)
      BY <1>1 DEF Poll
    <3>2. sw'.status = r.status
      <4> HIDE DEF r
      <4> QED
        BY <2>3, <3>1, SwitchIs DEF Finish
    <3>3. sw'.counter = n \/ sw'.counter = 0
      <4> HIDE DEF r
      <4> QED
        BY <1>1, PollReads DEF r
    <3> QED
      BY <3>2, <3>3
  <2>8. TwoPosition /\ ~opened => sw.status = "closed"
    BY DEF OpenedSound
  <2>9. ~opened' => r.status = "closed"
    <3> HIDE DEF r, n
    <3> QED
      BY <1>1, <2>4, <2>5, <2>6, <2>8
  <2>10. sw'.counter > sw.counter => n > sw.counter
    <3> HIDE DEF r, n
    <3> QED
      BY <2>3, <2>7
  <2> QED
    BY <1>1, <2>6, <2>7, <2>8, <2>9, <2>10 DEF OpenedSound
<1>2. CASE ~TwoPosition
  BY <1>2 DEF OpenedSound
<1>3. CASE Elapse
  <2>1. /\ opened' = opened /\ sw'.status = sw.status /\ sw'.counter = sw.counter
        /\ sw.counter \in Nat
    BY <1>3, SwitchIs DEF Elapse, TypeOK, Counts
  <2>2. OpenedSound'
    BY <2>1, Zenon DEF OpenedSound
  <2> QED
    BY <2>1, <2>2
<1>4. CASE ContactMoves \/ NetworkChanges \/ WriteType \/ UNCHANGED vars
  <2>1. opened' = opened /\ sw' = sw /\ sw.counter \in Nat
    BY <1>4 DEF ContactMoves, NetworkChanges, WriteType, vars, TypeOK, Switch
  <2> QED
    BY <2>1 DEF OpenedSound
<1>5. CASE Restart
  <2>1. opened' /\ sw'.counter = 0 /\ sw.counter \in Nat
    BY <1>5, InitSwitchIsSound DEF Restart, TypeOK, Switch
  <2> QED
    BY <2>1 DEF OpenedSound
<1> QED
  BY <1>1, <1>2, <1>3, <1>4, <1>5 DEF Next

(* A two-position switch counts a closing only after its contact has been   *)
(* through the whole debounce range since the closing before it, whatever   *)
(* noise it picks up, as long as its type is not rewritten into a gesture   *)
(* type and back.                                                          *)
THEOREM TwoPositionDebouncedHolds == NotMixed /\ Spec => TwoPositionDebounced
<1> SUFFICES ASSUME NotMixed PROVE Spec => TwoPositionDebounced
  OBVIOUS
<1> DEFINE Inv == TypeOK /\ GestureSound /\ OpenedSound
<1>1. Init => Inv
  BY TypeInit DEF Init, OpenedSound
<1>2. Inv /\ [Next]_vars => Inv'
  BY TypeStep, OpenedStep
<1>3. Inv /\ [Next]_vars => [TwoPosition /\ sw'.counter > sw.counter => opened]_vars
  BY OpenedStep
<1> QED
  BY <1>1, <1>2, <1>3, PTL DEF Spec, TwoPositionDebounced

-----------------------------------------------------------------------------
(* Announcements of holding alternate *)

(* A hold was announced and not ended exactly while the switch says so, and *)
(* a two-position switch never says so.                                    *)
HoldSound ==
  /\ holding <=> sw.hold
  /\ TwoPosition => ~sw.hold

HoldStepOK ==
  /\ "hold" \in out' => ~holding
  /\ "holdEnd" \in out' => holding \/ "hold" \in out'
  /\ out' \cap {"click", "empty", "reset"} # {} => ~holding'

(* A hold is announced only when none is, and ended only when one is. *)
LEMMA HoldStep ==
  ASSUME Rewritten \subseteq {TypeToggle, TypeMomentary},
         TypeOK, GestureSound, HoldSound, [Next]_vars
  PROVE  HoldSound' /\ [HoldStepOK]_vars
<1>1. CASE Poll
  <2> DEFINE r == Read(sw, closed)
  <2>1. sw \in Switch /\ closed \in BOOLEAN /\ type' = type
        /\ out' = ReadOut(sw, closed) \cup FinishOut(r)
    BY <1>1 DEF TypeOK, Poll
  <2>2. holding' <=> (holding \/ "hold" \in out') /\ "holdEnd" \notin out'
    BY <1>1, Zenon DEF Poll
  <2>3. ReadOut(sw, closed) \cap {"holdEnd", "click", "empty", "reset"} = {}
    BY DEF ReadOut, RejoinOut, ToggleOut, GestureOut
  <2>4. /\ "hold" \in ReadOut(sw, closed) <=> ~TwoPosition /\ HoldsNow(sw, closed)
        /\ HoldsNow(sw, closed) => ~sw.hold
    BY DEF ReadOut, RejoinOut, ToggleOut, GestureOut, HoldsNow
  <2>5. r.hold <=> sw.hold \/ (~TwoPosition /\ HoldsNow(sw, closed))
    <3>1. CASE TwoPosition
      <4>1. r = ToggleRead(sw, closed)
        BY <3>1 DEF Read
      <4> HIDE DEF r
      <4> QED
        BY <2>1, <3>1, <4>1, ToggleReads
    <3>2. CASE ~TwoPosition
      <4>1. r = GestureRead(sw, closed)
        BY <3>2 DEF Read
      <4> HIDE DEF r
      <4> QED
        BY <2>1, <3>2, <4>1, GestureReads
    <3> QED
      BY <3>1, <3>2
  <2>6. (~Ended(r) => sw' = r) /\ (Ended(r) => ~sw'.hold)
    <3> HIDE DEF r
    <3> QED
      BY <1>1, PollReads DEF r
  <2>7. (TwoPosition' <=> TwoPosition) /\ (holding <=> sw.hold) /\ (TwoPosition => ~sw.hold)
    BY <2>1 DEF TwoPosition, HoldSound
  <2> HIDE DEF r
  <2>8. CASE ~Ended(r)
    <3>1. FinishOut(r) = {}
      BY <2>8, FinishOutIs
    <3>2. out' = ReadOut(sw, closed) /\ sw' = r
      BY <2>1, <2>6, <2>8, <3>1
    <3>3. "holdEnd" \notin out' /\ out' \cap {"click", "empty", "reset"} = {}
          /\ ("hold" \in out' <=> ~TwoPosition /\ HoldsNow(sw, closed))
      BY <2>3, <2>4, <3>2
    <3> QED
      BY <2>2, <2>4, <2>5, <2>7, <3>2, <3>3, Zenon DEF HoldSound, HoldStepOK
  <2>9. CASE Ended(r) /\ TwoPosition
    <3>1. FinishOut(r) \in {{}, {"reset"}}
      BY <2>9, FinishOutIs
    <3>2. "hold" \notin out' /\ "holdEnd" \notin out'
      BY <2>1, <2>3, <2>4, <2>9, <3>1
    <3> QED
      BY <2>2, <2>6, <2>7, <2>9, <3>2, Zenon DEF HoldSound, HoldStepOK
  <2>10. CASE Ended(r) /\ ~TwoPosition /\ r.hold
    <3>1. FinishOut(r) = {"holdEnd"}
      BY <2>10, FinishOutIs
    <3>2. "holdEnd" \in out' /\ ("hold" \in out' <=> HoldsNow(sw, closed))
      BY <2>1, <2>4, <2>10, <3>1
    <3> QED
      BY <2>2, <2>4, <2>5, <2>6, <2>7, <2>10, <3>2, Zenon DEF HoldSound, HoldStepOK
  <2>11. CASE Ended(r) /\ ~TwoPosition /\ ~r.hold
    <3>1. FinishOut(r) \in {{}, {"click"}, {"empty"}, {"reset"}}
      BY <2>11, FinishOutIs
    <3>2. "holdEnd" \notin out' /\ ("hold" \in out' <=> HoldsNow(sw, closed))
      BY <2>1, <2>3, <2>4, <2>11, <3>1
    <3> QED
      BY <2>2, <2>4, <2>5, <2>6, <2>7, <2>11, <3>2, Zenon DEF HoldSound, HoldStepOK
  <2> QED
    BY <2>8, <2>9, <2>10, <2>11
<1>2. CASE Elapse \/ ContactMoves \/ NetworkChanges
  <2>1. out' = {} /\ UNCHANGED <<type, holding>>
    BY <1>2 DEF Elapse, ContactMoves, NetworkChanges
  <2>2. sw'.hold = sw.hold
    BY <1>2, SwitchIs DEF Elapse, ContactMoves, NetworkChanges, TypeOK
  <2> QED
    BY <2>1, <2>2 DEF HoldSound, HoldStepOK, TwoPosition
<1>3. CASE WriteType
  <2>1. TwoPosition /\ TwoPosition' /\ out' = {} /\ ~holding' /\ sw' = sw
    BY <1>3 DEF WriteType, TwoPosition, TypeToggle, TypeMomentary, Multifunction
  <2> QED
    BY <2>1 DEF HoldSound, HoldStepOK
<1>4. CASE Restart
  BY <1>4, InitSwitchIsSound DEF Restart, HoldSound, HoldStepOK
<1>5. CASE UNCHANGED vars
  BY <1>5 DEF vars, HoldSound, TwoPosition
<1> QED
  BY <1>1, <1>2, <1>3, <1>4, <1>5 DEF Next

(* A level movement is started once, and stopped once, as long as gesture   *)
(* types are not rewritten under a gesture: no second hold before the end of *)
(* the first, no end without a hold, no click or reset in between.          *)
THEOREM HoldsAlternateHolds ==
  Rewritten \subseteq {TypeToggle, TypeMomentary} /\ Spec => HoldsAlternate
<1> SUFFICES ASSUME Rewritten \subseteq {TypeToggle, TypeMomentary}
             PROVE  Spec => HoldsAlternate
  OBVIOUS
<1> DEFINE Inv == TypeOK /\ GestureSound /\ HoldSound
<1>1. Init => Inv
  BY TypeInit, InitSwitchIsSound DEF Init, HoldSound
<1>2. Inv /\ [Next]_vars => Inv' /\ [HoldStepOK]_vars
  BY TypeStep, HoldStep
<1> QED
  BY <1>1, <1>2, PTL DEF Spec, HoldsAlternate, HoldStepOK

=============================================================================
