-------------------------- MODULE Reporting_proofs --------------------------
(***************************************************************************)
(* Proofs about Reporting: its type invariant, that no change is lost, and *)
(* that the minimum and the maximum interval are kept.                     *)
(*                                                                         *)
(* The counters of an entry say nothing by themselves: the code subtracts  *)
(* the length of a timer from them when it runs out, and a timer outlives  *)
(* the configuration it was started for.  The inductive invariants relate  *)
(* each counter to the timer that runs and to the common timer.            *)
(***************************************************************************)
EXTENDS Reporting, TLAPS

(* An interval pair some command may have left in an entry: Configure       *)
(* Reporting refuses a maximum below the minimum, and (0xFFFF, 0) reverts.  *)
Ordered(min, max) ==
  /\ max # 0 => min <= max
  /\ ~(max = 0 /\ min = None16)

(* A counter never exceeds its interval, except that a counter of the       *)
(* interval 0 is not in use.                                                *)
EntrySound(n) ==
  /\ n.min # 0 => n.minCnt <= n.min
  /\ n.max # 0 => n.maxCnt <= n.max
  /\ n.used => Ordered(n.min, n.max) /\ Ordered(n.minDft, n.maxDft)

EntriesSound ==
  /\ \A a \in Attributes : EntrySound(entry[a])
  /\ nv # NoTable => \A a \in Attributes : EntrySound(nv[a])

(* A minimum timer runs for the minimum that is configured, unless a        *)
(* command came since: then neither counter has run out, or changes are     *)
(* reported at once.                                                        *)
MinTimerFits(n, t, lost) ==
  t.kind = "min" =>
    \/ t.secs = n.min
    \/ AtOnce(n)
    \/ lost /\ n.minCnt > 0 /\ n.maxCnt > 0

MinTimerSound ==
  \A a \in Attributes : MinTimerFits(entry[a], timer[a], spoiled[a])

(* A change that was noticed and not reported yet waits for the minimum     *)
(* timer or is due at the end of the common timer.                          *)
OnItsWay(live, n, t, f, last, lost) ==
  ~lost /\ n.prev # last =>
    /\ live
    /\ \/ t.kind = "min" /\ ~AtOnce(n)
       \/ n.minCnt = 0 /\ f # Idle

WaitingSound ==
  \A a \in Attributes :
    OnItsWay(Live(a, entry[a]), entry[a], timer[a], flush, reported[a], spoiled[a])

Timers == [kind : {"none", "min", "max"}, secs : Word,
           left : 0 .. None16 * SecTicks]

(* The parts of the type invariant.                                         *)
CoreType ==
  /\ entry \in [Attributes -> Entries]
  /\ timer \in [Attributes -> Timers]
  /\ flush \in {Idle} \cup 0 .. FlushTicks

WorldType ==
  /\ value \in [Attributes -> Values]
  /\ bound \in SUBSET Attributes
  /\ joined \in BOOLEAN
  /\ busy \in BOOLEAN
  /\ polled \in BOOLEAN
  /\ nv = NoTable \/ nv \in [Attributes -> Entries]

HistoryType ==
  /\ reported \in [Attributes -> Values \cup {Erased, Zeroed}]
  /\ since \in [Attributes -> 0 .. Horizon]
  /\ steady \in [Attributes -> BOOLEAN]
  /\ spoiled \in [Attributes -> BOOLEAN]

ChangeInv ==
  /\ CoreType /\ WorldType /\ HistoryType
  /\ EntriesSound /\ MinTimerSound /\ WaitingSound

-----------------------------------------------------------------------------
(* Seconds in ticks, and the ticks a running timer has used up.             *)
Span(secs) == secs * SecTicks

Ran(t) == Span(t.secs) - t.left

(* A steady attribute has reports that leave, a minimum timer for its       *)
(* minimum, and if it has both intervals:                                   *)
(*  - what was taken off a counter since the last report, and what the      *)
(*    timer that runs will take off for its time so far, has passed since   *)
(*    then, less one run of the common timer;                               *)
(*  - while it is due, the timer for the time after it started when the     *)
(*    common timer did, or later.                                           *)
InPace(live, n, t, f, ticks) ==
  /\ live
  /\ t.kind = "min" => t.secs = n.min
  /\ n.min # 0 /\ n.max # 0 =>
       /\ ticks < Horizon =>
            /\ Span(n.min) + Ran(t) <= Span(n.minCnt) + ticks + FlushTicks
            /\ Span(n.max) + Ran(t) <= Span(n.maxCnt) + ticks + FlushTicks
       /\ n.minCnt = 0 \/ n.maxCnt = 0 =>
            f # Idle /\ Ran(t) + f <= FlushTicks

PaceSound ==
  \A a \in Attributes :
    /\ Ran(timer[a]) >= 0
    /\ steady[a] => InPace(Live(a, entry[a]), entry[a], timer[a], flush, since[a])

PaceInv == ChangeInv /\ PaceSound

-----------------------------------------------------------------------------
(* An attribute with reports is in one of the phases of its cycle: just      *)
(* disturbed or reported, waiting for the maximum or for the minimum timer,  *)
(* or due and about to leave.                                                *)
Begun(ticks, turned) == ticks <= IF turned THEN 0 ELSE 1

WaitsForMax(n, t, ticks) ==
  /\ t.kind = "max" /\ t.secs = n.max
  /\ ticks + t.left <= Span(n.max) + 1

WaitsForMin(n, t, ticks) ==
  /\ t.kind = "min" /\ t.secs = n.min
  /\ ticks + t.left <= Span(n.min) + Span(n.max) + 1

Leaves(n, f, ticks) ==
  /\ n.minCnt = 0 \/ n.maxCnt = 0
  /\ f # Idle
  /\ ticks + f <= Span(n.min) + Span(n.max) + FlushTicks + 1

InCycle(n, t, f, ticks, turned) ==
  \/ Begun(ticks, turned)
  \/ WaitsForMax(n, t, ticks) \/ WaitsForMin(n, t, ticks)
  \/ Leaves(n, f, ticks)

CycleSound ==
  \A a \in Attributes :
    /\ timer[a].kind = "min" => timer[a].secs # 0
    /\ Outdated(a) => since[a] = 0
    /\ Reports(a) => InCycle(entry[a], timer[a], flush, since[a], polled)

CycleInv == PaceInv /\ CycleSound

-----------------------------------------------------------------------------
(* Types *)

Records == [min : Word, max : Word, change : Word]

(* Spans grow with their seconds, add up, and do not exceed the longest.    *)
LEMMA SpanFacts ==
  /\ Span(0) = 0
  /\ \A s \in Nat : Span(s) \in Nat
  /\ \A s, t \in Nat : s <= t => Span(s) <= Span(t) /\ Span(t - s) = Span(t) - Span(s)
<1>1. SecTicks \in Nat
  BY TicksAssumption
<1>2. \A s \in Nat : s * SecTicks \in Nat
  BY <1>1, SMT
<1>3. \A s, t \in Nat : s <= t => s * SecTicks <= t * SecTicks
  <2> SUFFICES ASSUME NEW s \in Nat, NEW t \in Nat, s <= t
               PROVE  s * SecTicks <= t * SecTicks
    OBVIOUS
  <2>1. (t - s) * SecTicks \in Nat
    BY <1>2
  <2>2. t * SecTicks = s * SecTicks + (t - s) * SecTicks
    BY <1>1, SMT
  <2> QED BY <1>2, <2>1, <2>2
<1>4. \A s, t \in Nat : (t - s) * SecTicks = t * SecTicks - s * SecTicks
  BY <1>1, SMT
<1> QED BY <1>1, <1>2, <1>3, <1>4 DEF Span

(* Intervals one after the other.                                           *)
LEMMA SpanSum ==
  ASSUME NEW s \in Nat, NEW t \in Nat
  PROVE  (s + t) * SecTicks = Span(s) + Span(t)
<1>1. s + t \in Nat /\ s <= s + t /\ (s + t) - s = t
  OBVIOUS
<1>2. Span(t) = Span(s + t) - Span(s)
  BY <1>1, SpanFacts
<1>3. Span(s) \in Nat /\ Span(t) \in Nat /\ Span(s + t) \in Nat
  BY <1>1, SpanFacts
<1>4. Span(s + t) = Span(s) + Span(t)
  BY <1>2, <1>3
<1> QED BY <1>4 DEF Span

(* A timer fits its type: it starts with the ticks of its seconds.          *)
LEMMA TimerType ==
  ASSUME NEW kind \in {"none", "min", "max"}, NEW secs \in Word
  PROVE  Timer(kind, secs) \in Timers
<1>1. secs \in Nat /\ None16 \in Nat /\ secs <= None16
  BY TicksAssumption DEF Word
<1>2. secs * SecTicks \in 0 .. None16 * SecTicks
  BY <1>1, SpanFacts DEF Span
<1> QED BY <1>2 DEF Timer, Timers

(* No timer is a timer.                                                     *)
LEMMA NoTimerType == NoTimer \in Timers
<1>1. 0 \in Word
  BY TicksAssumption DEF Word
<1> QED BY <1>1, TimerType DEF NoTimer

(* Zero is an interval.                                                     *)
LEMMA ZeroWord == 0 \in Word
BY TicksAssumption DEF Word

(* The run of the common timer is a number of ticks.                        *)
LEMMA FlushNat == FlushTicks \in Nat
BY TicksAssumption

(* Intervals are numbers.                                                   *)
LEMMA WordNats == ASSUME NEW w \in Word PROVE w \in Nat
<1>1. None16 \in Nat
  BY TicksAssumption
<1> QED BY <1>1 DEF Word

(* The counters and intervals of an entry are numbers.                      *)
LEMMA EntryNats ==
  ASSUME NEW n \in Entries
  PROVE  /\ n.min \in Nat /\ n.max \in Nat /\ n.minDft \in Nat
         /\ n.maxDft \in Nat /\ n.minCnt \in Nat /\ n.maxCnt \in Nat
<1>1. Word \subseteq Nat
  BY WordNats
<1> QED BY <1>1 DEF Entries

(* The empty entry.                                                         *)
LEMMA NoEntryType == NoEntry \in Entries /\ EntrySound(NoEntry)
<1>1. 0 \in Word
  BY TicksAssumption DEF Word
<1> QED BY <1>1, SMT DEF NoEntry, Entries, EntrySound

(* A record a command may bring keeps an entry sound, whether it adds or    *)
(* updates it.                                                              *)
LEMMA UpdatedSound ==
  ASSUME NEW a \in Attributes, NEW n \in Entries, EntrySound(n),
         NEW c \in Records, Ordered(c.min, c.max)
  PROVE  Updated(a, n, c) \in Entries /\ EntrySound(Updated(a, n, c))
<1>1. Updated(a, n, c) \in Entries
  BY SMT DEF Updated, Entries, Records
<1>2. EntrySound(Updated(a, n, c))
  <2> DEFINE u == Updated(a, n, c)
  <2>1. /\ u.min = c.min /\ u.max = c.max
        /\ u.minCnt = c.min /\ u.maxCnt = c.max /\ u.used
        /\ u.minDft = (IF n.used THEN n.minDft ELSE c.min)
        /\ u.maxDft = (IF n.used THEN n.maxDft ELSE c.max)
    BY SMT DEF Updated, Entries, Records
  <2>2. c.min \in Nat /\ c.max \in Nat
    BY WordNats DEF Records
  <2> HIDE DEF u
  <2>3. EntrySound(u)
    BY <2>1, <2>2 DEF EntrySound
  <2> QED BY <2>3 DEF u
<1> QED BY <1>1, <1>2

(* Going back to the default intervals keeps an entry sound.                *)
LEMMA ResetSound ==
  ASSUME NEW n \in Entries, EntrySound(n), n.used
  PROVE  Reset(n) \in Entries /\ EntrySound(Reset(n))
<1>1. Reset(n) \in Entries
  <2>1. 0 \in Word
    BY TicksAssumption DEF Word
  <2> QED BY <2>1, SMT DEF Reset, Entries
<1>2. EntrySound(Reset(n))
  <2> DEFINE u == Reset(n)
  <2>1. /\ u.min = n.minDft /\ u.max = n.maxDft /\ u.minCnt = n.minDft
        /\ u.maxCnt = n.maxDft /\ u.used = n.used
        /\ u.minDft = n.minDft /\ u.maxDft = n.maxDft
    BY SMT DEF Reset, Entries
  <2>2. n.minDft \in Nat /\ n.maxDft \in Nat
    BY EntryNats
  <2> HIDE DEF u
  <2>3. EntrySound(u)
    BY <2>1, <2>2 DEF EntrySound
  <2> QED BY <2>3 DEF u
<1> QED BY <1>1, <1>2

(* The configuration user_init asks for.                                    *)
LEMMA DefaultType ==
  DefaultConfig \in Records /\ Ordered(DefaultConfig.min, DefaultConfig.max)
<1>1. DefaultMax \in 1 .. None16 - 1
  BY SetsAssumption
<1>2. None16 \in Nat
  BY TicksAssumption
<1>3. DefaultMax \in Word /\ 0 \in Word /\ 1 \in Word
  BY <1>1, <1>2 DEF Word
<1>4. DefaultConfig \in Records
  BY <1>3 DEF DefaultConfig, Records
<1>5. DefaultConfig.min = 0 /\ DefaultConfig.max = DefaultMax
  BY DEF DefaultConfig
<1>6. 0 <= DefaultMax /\ DefaultMax # 0
  BY <1>1, <1>2
<1> QED BY <1>4, <1>5, <1>6 DEF Ordered

(* What a start makes of a saved table.                                     *)
LEMMA RestoredSound ==
  ASSUME NEW t, t = NoTable \/ t \in [Attributes -> Entries],
         t # NoTable => \A a \in Attributes : EntrySound(t[a]),
         NEW a \in Attributes
  PROVE  Restored(t)[a] \in Entries /\ EntrySound(Restored(t)[a])
<1>1. CASE t # NoTable /\ t[a].used
  <2> DEFINE u == [t[a] EXCEPT !.prev = Erased]
  <2>1. Restored(t)[a] = u
    BY <1>1 DEF Restored
  <2>2. t[a] \in Entries /\ EntrySound(t[a])
    BY <1>1
  <2>3. u \in Entries
    BY <2>2, SMT DEF Entries
  <2>4. /\ u.min = t[a].min /\ u.max = t[a].max /\ u.minCnt = t[a].minCnt
        /\ u.maxCnt = t[a].maxCnt /\ u.used = t[a].used
        /\ u.minDft = t[a].minDft /\ u.maxDft = t[a].maxDft
    BY <2>2, SMT DEF Entries
  <2> HIDE DEF u
  <2>5. EntrySound(u)
    BY <2>2, <2>4 DEF EntrySound
  <2> QED BY <2>1, <2>3, <2>5
<1>2. CASE ~(t # NoTable /\ t[a].used) /\ a \in Defaults
  <2>1. Restored(t)[a] = Updated(a, NoEntry, DefaultConfig)
    BY <1>2 DEF Restored
  <2>2. DefaultConfig \in Records /\ Ordered(DefaultConfig.min, DefaultConfig.max)
    BY DefaultType
  <2> QED BY <2>1, <2>2, NoEntryType, UpdatedSound
<1>3. CASE ~(t # NoTable /\ t[a].used) /\ a \notin Defaults
  BY <1>3, NoEntryType DEF Restored
<1> QED BY <1>1, <1>2, <1>3

-----------------------------------------------------------------------------
(* One look at an entry *)

(* What noticing a change leaves of an entry.                               *)
LEMMA NoticedFacts ==
  ASSUME NEW a, NEW n \in Entries, value[a] \in Values,
         NEW r, r = Noticed(a, n)
  PROVE  /\ r \in Entries
         /\ r.used = n.used /\ r.min = n.min /\ r.max = n.max
         /\ r.minDft = n.minDft /\ r.maxDft = n.maxDft /\ r.maxCnt = n.maxCnt
         /\ r.change = n.change
         /\ r.prev = IF Live(a, n) /\ Changed(a, n) THEN value[a] ELSE n.prev
         /\ r.minCnt = IF Live(a, n) /\ Changed(a, n) /\ AtOnce(n)
                       THEN 0 ELSE n.minCnt
<1> DEFINE cnt == IF AtOnce(n) THEN 0 ELSE n.minCnt
<1>1. 0 \in Word
  BY TicksAssumption DEF Word
<1>2. CASE Live(a, n) /\ Changed(a, n)
  <2>1. r = [n EXCEPT !.prev = value[a], !.minCnt = cnt]
    BY <1>2 DEF Noticed
  <2>2. cnt \in Word
    BY <1>1 DEF Entries
  <2> HIDE DEF cnt
  <2>3. /\ r \in Entries
        /\ r.used = n.used /\ r.min = n.min /\ r.max = n.max
        /\ r.minDft = n.minDft /\ r.maxDft = n.maxDft /\ r.maxCnt = n.maxCnt
        /\ r.change = n.change /\ r.prev = value[a] /\ r.minCnt = cnt
    BY <2>1, <2>2 DEF Entries
  <2> QED BY <2>3, <1>2 DEF cnt
<1>3. CASE ~(Live(a, n) /\ Changed(a, n))
  <2>1. r = n
    BY <1>3 DEF Noticed
  <2> QED BY <2>1, <1>3
<1> QED BY <1>2, <1>3

(* Noticing a change keeps an entry sound.                                  *)
LEMMA NoticedSound ==
  ASSUME NEW a, NEW n \in Entries, value[a] \in Values, EntrySound(n),
         NEW r, r = Noticed(a, n)
  PROVE  EntrySound(r)
<1>1. n.min \in Nat
  BY EntryNats
<1>2. /\ r.used = n.used /\ r.min = n.min /\ r.max = n.max
      /\ r.minDft = n.minDft /\ r.maxDft = n.maxDft /\ r.maxCnt = n.maxCnt
      /\ r.minCnt = 0 \/ r.minCnt = n.minCnt
  BY NoticedFacts
<1> QED BY <1>1, <1>2 DEF EntrySound

(* The timer an entry has after a look at it, by cases.                     *)
LEMMA NextTimerFacts ==
  ASSUME NEW a, NEW n \in Entries, NEW t \in Timers,
         NEW r, r = NextTimer(a, n, t)
  PROVE  /\ r \in Timers
         /\ ~Live(a, n) => r = NoTimer
         /\ Live(a, n) /\ Changed(a, n) /\ AtOnce(n) => r = NoTimer
         /\ Live(a, n) /\ Changed(a, n) /\ ~AtOnce(n) =>
              r = IF t.kind = "min" THEN t ELSE Timer("min", n.min)
         /\ Live(a, n) /\ ~Changed(a, n) =>
              \/ r = t /\ (t.kind = "max" => n.max # 0 /\ t.secs = n.max)
                       /\ (n.max # 0 => t.kind # "none")
              \/ r = NoTimer /\ n.max = 0
              \/ r = Timer("max", n.max) /\ n.max # 0 /\ t.kind # "min"
                 /\ ~(t.kind = "max" /\ t.secs = n.max)
<1>1. n.min \in Word /\ n.max \in Word /\ t.kind \in {"none", "min", "max"}
  BY DEF Entries, Timers
<1>2. NoTimer \in Timers /\ Timer("min", n.min) \in Timers
      /\ Timer("max", n.max) \in Timers
  BY <1>1, NoTimerType, TimerType
<1>3. CASE ~Live(a, n)
  BY <1>2, <1>3 DEF NextTimer
<1>4. CASE Live(a, n) /\ Changed(a, n)
  BY <1>2, <1>4 DEF NextTimer
<1>5. CASE Live(a, n) /\ ~Changed(a, n)
  BY <1>1, <1>2, <1>5 DEF NextTimer
<1> QED BY <1>3, <1>4, <1>5

(* After a look a minimum timer fits its entry as it did before.            *)
LEMMA LookKeepsTimer ==
  ASSUME NEW a, NEW n \in Entries, NEW t \in Timers, NEW lost \in BOOLEAN,
         value[a] \in Values, MinTimerFits(n, t, lost)
  PROVE  MinTimerFits(Noticed(a, n), NextTimer(a, n, t), lost)
<1> DEFINE m == Noticed(a, n)
           u == NextTimer(a, n, t)
<1>1. /\ m.min = n.min /\ m.max = n.max /\ m.maxCnt = n.maxCnt
      /\ m.minCnt = IF Live(a, n) /\ Changed(a, n) /\ AtOnce(n)
                    THEN 0 ELSE n.minCnt
  BY NoticedFacts
<1>2. AtOnce(m) <=> AtOnce(n)
  BY <1>1 DEF AtOnce
<1>3. NoTimer.kind = "none" /\ Timer("max", n.max).kind = "max"
      /\ Timer("min", n.min).kind = "min" /\ Timer("min", n.min).secs = n.min
  BY DEF NoTimer, Timer
<1>4. CASE ~Live(a, n) \/ AtOnce(n)
  <2>1. CASE AtOnce(n)
    BY <2>1, <1>2 DEF MinTimerFits
  <2>2. CASE ~Live(a, n)
    <3>1. u.kind = "none"
      BY <2>2, <1>3, NextTimerFacts
    <3> QED BY <3>1 DEF MinTimerFits
  <2> QED BY <2>1, <2>2, <1>4
<1>5. CASE Live(a, n) /\ ~AtOnce(n)
  <2>1. m.minCnt = n.minCnt
    BY <1>1, <1>5
  <2>2. u = t \/ u.kind # "min" \/ u.secs = n.min
    BY <1>3, <1>5, NextTimerFacts
  <2> HIDE DEF m, u
  <2>3. MinTimerFits(m, u, lost)
    BY <1>1, <1>2, <2>1, <2>2 DEF MinTimerFits
  <2> QED BY <2>3 DEF m, u
<1> QED BY <1>4, <1>5

(* After a look every change that was noticed is on its way: the common      *)
(* timer was started if something is to be sent at once.                    *)
LEMMA LookKeepsWaiting ==
  ASSUME NEW a, NEW n \in Entries, NEW t \in Timers, NEW lost \in BOOLEAN,
         NEW last, NEW f, NEW g,
         value[a] \in Values, EntrySound(n),
         f # Idle => g = f,
         Live(a, n) /\ Changed(a, n) /\ AtOnce(n) => g # Idle,
         OnItsWay(Live(a, n), n, t, f, last, lost)
  PROVE  OnItsWay(Live(a, n), Noticed(a, n), NextTimer(a, n, t), g, last, lost)
<1> DEFINE m == Noticed(a, n)
           u == NextTimer(a, n, t)
<1>1. /\ m.min = n.min /\ m.max = n.max
      /\ m.prev = IF Live(a, n) /\ Changed(a, n) THEN value[a] ELSE n.prev
      /\ m.minCnt = IF Live(a, n) /\ Changed(a, n) /\ AtOnce(n)
                    THEN 0 ELSE n.minCnt
  BY NoticedFacts
<1>2. AtOnce(m) <=> AtOnce(n)
  BY <1>1 DEF AtOnce
<1>3. Timer("min", n.min).kind = "min"
  BY DEF Timer
<1>4. CASE ~Live(a, n)
  <2>1. m.prev = n.prev
    BY <1>1, <1>4
  <2> HIDE DEF m, u
  <2>2. OnItsWay(Live(a, n), m, u, g, last, lost)
    BY <2>1, <1>4 DEF OnItsWay
  <2> QED BY <2>2 DEF m, u
<1>5. CASE Live(a, n) /\ Changed(a, n) /\ AtOnce(n)
  <2>1. m.minCnt = 0 /\ g # Idle
    BY <1>1, <1>5
  <2> HIDE DEF m, u
  <2>2. OnItsWay(Live(a, n), m, u, g, last, lost)
    BY <2>1, <1>5 DEF OnItsWay
  <2> QED BY <2>2 DEF m, u
<1>6. CASE Live(a, n) /\ Changed(a, n) /\ ~AtOnce(n)
  <2>1. u.kind = "min"
    BY <1>3, <1>6, NextTimerFacts
  <2> HIDE DEF m, u
  <2>2. OnItsWay(Live(a, n), m, u, g, last, lost)
    BY <2>1, <1>2, <1>6 DEF OnItsWay
  <2> QED BY <2>2 DEF m, u
<1>7. CASE Live(a, n) /\ ~Changed(a, n)
  <2>1. m.prev = n.prev /\ m.minCnt = n.minCnt
    BY <1>1, <1>7
  <2>2. t.kind = "min" /\ ~AtOnce(n) => u = t
    <3> SUFFICES ASSUME t.kind = "min", ~AtOnce(n)
                 PROVE  u = t
      OBVIOUS
    <3>1. n.max # 0
      BY <1>7 DEF EntrySound, Ordered, AtOnce, Live
    <3> QED BY <3>1, <1>7, NextTimerFacts
  <2> HIDE DEF m, u
  <2>3. OnItsWay(Live(a, n), m, u, g, last, lost)
    BY <2>1, <2>2, <1>2, <1>7 DEF OnItsWay
  <2> QED BY <2>3 DEF m, u
<1> QED BY <1>4, <1>5, <1>6, <1>7

-----------------------------------------------------------------------------
(* Steps *)

(* reportAttrTimerStart, as the lemmas about one look see it.               *)
LEMMA LookFacts ==
  ASSUME NEW n \in [Attributes -> Entries], NEW t \in [Attributes -> Timers],
         value \in [Attributes -> Values],
         flush \in {Idle} \cup 0 .. FlushTicks,
         reportAttrTimerStart(n, t)
  PROVE  /\ entry' \in [Attributes -> Entries]
         /\ timer' \in [Attributes -> Timers]
         /\ flush' \in {Idle} \cup 0 .. FlushTicks
         /\ flush # Idle => flush' = flush
         /\ \A a \in Attributes :
              /\ entry'[a] = Noticed(a, n[a])
              /\ timer'[a] = NextTimer(a, n[a], t[a])
              /\ Live(a, n[a]) /\ Changed(a, n[a]) /\ AtOnce(n[a]) => flush' # Idle
<1>1. /\ entry' = [a \in Attributes |-> Noticed(a, n[a])]
      /\ timer' = [a \in Attributes |-> NextTimer(a, n[a], t[a])]
  BY DEF reportAttrTimerStart
<1>2. \A a \in Attributes : Noticed(a, n[a]) \in Entries
  BY NoticedFacts
<1>3. \A a \in Attributes : NextTimer(a, n[a], t[a]) \in Timers
  BY NextTimerFacts
<1>4. /\ flush' \in {Idle} \cup 0 .. FlushTicks
      /\ flush # Idle => flush' = flush
      /\ \A a \in Attributes :
           Live(a, n[a]) /\ Changed(a, n[a]) /\ AtOnce(n[a]) => flush' # Idle
  <2> DEFINE some == \E a \in Attributes :
                       Live(a, n[a]) /\ Changed(a, n[a]) /\ AtOnce(n[a])
  <2>1. flush' = IF some THEN reportingTimerStart ELSE flush
    BY DEF reportAttrTimerStart
  <2>2. FlushTicks \in Nat \ {0}
    BY TicksAssumption
  <2>3. \A a \in Attributes :
          Live(a, n[a]) /\ Changed(a, n[a]) /\ AtOnce(n[a]) => some
    OBVIOUS
  <2> HIDE DEF some
  <2>4. some => flush' # Idle
    BY <2>1, <2>2 DEF reportingTimerStart, Idle
  <2>5. flush' \in {Idle} \cup 0 .. FlushTicks
    BY <2>1, <2>2 DEF reportingTimerStart, Idle
  <2>6. flush # Idle => flush' = flush
    BY <2>1 DEF reportingTimerStart
  <2> QED BY <2>3, <2>4, <2>5, <2>6
<1>5. entry' \in [Attributes -> Entries] /\ timer' \in [Attributes -> Timers]
  BY <1>1, <1>2, <1>3
<1> QED BY <1>1, <1>4, <1>5

(* The type invariant and its parts say the same.                           *)
LEMMA TypeParts == TypeOK <=> CoreType /\ WorldType /\ HistoryType
BY DEF TypeOK, CoreType, WorldType, HistoryType, Timers

(* A disturbance spoils the attributes it meets while a change waits or a   *)
(* minimum timer runs, and leaves the others as they are.                   *)
LEMMA DisturbFacts ==
  ASSUME NEW S, HistoryType, Disturb(S)
  PROVE  /\ HistoryType'
         /\ reported' = reported
         /\ \A a \in Attributes :
              /\ spoiled[a] => spoiled'[a]
              /\ a \notin S =>
                   /\ spoiled'[a] = spoiled[a] /\ since'[a] = since[a]
                   /\ steady'[a] = steady[a]
              /\ a \in S =>
                   /\ entry[a].prev # reported[a] => spoiled'[a]
                   /\ timer[a].kind = "min" => spoiled'[a]
                   /\ since'[a] = 0 /\ ~steady'[a]
<1> DEFINE lost(a) ==
      spoiled[a] \/ (a \in S /\ (entry[a].prev # reported[a] \/ timer[a].kind = "min"))
<1>1. /\ reported' = reported
      /\ since' = [a \in Attributes |-> IF a \in S THEN 0 ELSE since[a]]
      /\ steady' = [a \in Attributes |-> steady[a] /\ a \notin S]
      /\ spoiled' = [a \in Attributes |-> lost(a)]
  BY DEF Disturb
<1>2. \A a \in Attributes : lost(a) \in BOOLEAN /\ (steady[a] /\ a \notin S) \in BOOLEAN
  OBVIOUS
<1>3. 0 \in 0 .. Horizon
  BY TicksAssumption
<1>4. HistoryType'
  <2>1. since' \in [Attributes -> 0 .. Horizon]
    BY <1>1, <1>3 DEF HistoryType
  <2>2. steady' \in [Attributes -> BOOLEAN] /\ spoiled' \in [Attributes -> BOOLEAN]
    BY <1>1, <1>2
  <2> QED BY <1>1, <2>1, <2>2 DEF HistoryType
<1>5. \A a \in Attributes :
        /\ steady[a] \in BOOLEAN /\ spoiled[a] \in BOOLEAN
        /\ spoiled'[a] = lost(a)
        /\ steady'[a] = (steady[a] /\ a \notin S)
        /\ since'[a] = IF a \in S THEN 0 ELSE since[a]
  BY <1>1 DEF HistoryType
<1>6. ASSUME NEW a \in Attributes, a \notin S
      PROVE  spoiled'[a] = spoiled[a] /\ since'[a] = since[a] /\ steady'[a] = steady[a]
  BY <1>5, <1>6, Zenon
<1>7. ASSUME NEW a \in Attributes, a \in S
      PROVE  /\ entry[a].prev # reported[a] => spoiled'[a]
             /\ timer[a].kind = "min" => spoiled'[a]
             /\ since'[a] = 0 /\ ~steady'[a]
  BY <1>5, <1>7, Zenon
<1>8. \A a \in Attributes : spoiled[a] => spoiled'[a]
  BY <1>5, Zenon
<1> QED BY <1>1, <1>4, <1>6, <1>7, <1>8

(* The initial states, and those after a restart.                           *)
LEMMA ChangeInit == Init => ChangeInv
<1> SUFFICES ASSUME Init PROVE ChangeInv
  OBVIOUS
<1>1. \A a \in Attributes : entry[a] \in Entries /\ EntrySound(entry[a])
  BY RestoredSound DEF Init
<1>2. CoreType
  <2>1. entry \in [Attributes -> Entries]
    BY <1>1 DEF Init, Restored
  <2>2. timer \in [Attributes -> Timers]
    BY NoTimerType DEF Init
  <2> QED BY <2>1, <2>2 DEF CoreType, Init
<1>3. WorldType
  BY DEF WorldType, Init
<1>4. HistoryType
  <2>1. reported \in [Attributes -> Values \cup {Erased, Zeroed}]
    BY <1>1 DEF Init, Entries
  <2>2. 0 \in 0 .. Horizon
    BY TicksAssumption
  <2> QED BY <2>1, <2>2 DEF HistoryType, Init
<1>5. EntriesSound
  BY <1>1 DEF EntriesSound, Init
<1>6. \A a \in Attributes : timer[a].kind = "none" /\ reported[a] = entry[a].prev
  BY DEF Init, NoTimer, Timer
<1>7. MinTimerSound
  BY <1>6 DEF MinTimerSound, MinTimerFits
<1>8. WaitingSound
  BY <1>6 DEF WaitingSound, OnItsWay
<1> QED BY <1>2, <1>3, <1>4, <1>5, <1>7, <1>8 DEF ChangeInv

(* Power returns: nothing of before is left but the table.                  *)
LEMMA ChangeRestart == ChangeInv /\ Restart => ChangeInv'
<1> SUFFICES ASSUME ChangeInv, Restart PROVE ChangeInv'
  OBVIOUS
<1>1. /\ nv = NoTable \/ nv \in [Attributes -> Entries]
      /\ nv # NoTable => \A a \in Attributes : EntrySound(nv[a])
      /\ nv' = nv /\ bound' = bound /\ bound \in SUBSET Attributes
  BY DEF ChangeInv, WorldType, EntriesSound, Restart
<1>2. \A a \in Attributes : entry'[a] \in Entries /\ EntrySound(entry'[a])
  BY <1>1, RestoredSound DEF Restart
<1>3. CoreType'
  <2>1. entry' \in [Attributes -> Entries]
    BY <1>2 DEF Restart, Restored
  <2>2. timer' \in [Attributes -> Timers]
    BY NoTimerType DEF Restart
  <2> QED BY <2>1, <2>2 DEF CoreType, Restart
<1>4. WorldType'
  BY <1>1 DEF WorldType, Restart
<1>5. HistoryType'
  <2>1. reported' \in [Attributes -> Values \cup {Erased, Zeroed}]
    BY <1>2 DEF Restart, Entries
  <2>2. 0 \in 0 .. Horizon
    BY TicksAssumption
  <2> QED BY <2>1, <2>2 DEF HistoryType, Restart
<1>6. EntriesSound'
  BY <1>1, <1>2 DEF EntriesSound
<1>7. \A a \in Attributes : timer'[a].kind = "none" /\ reported'[a] = entry'[a].prev
  BY DEF Restart, NoTimer, Timer
<1>8. MinTimerSound'
  BY <1>7 DEF MinTimerSound, MinTimerFits
<1>9. WaitingSound'
  BY <1>7 DEF WaitingSound, OnItsWay, Live
<1> QED BY <1>3, <1>4, <1>5, <1>6, <1>8, <1>9 DEF ChangeInv

(* A turn of the main loop looks at every entry, or at none.                *)
LEMMA ChangePoll == ChangeInv /\ Poll => ChangeInv'
<1> SUFFICES ASSUME ChangeInv, Poll PROVE ChangeInv'
  OBVIOUS
<1>1. CoreType /\ WorldType /\ HistoryType
  BY DEF ChangeInv
<1>2. /\ UNCHANGED <<value, bound, joined, busy, nv, history>>
      /\ polled' = TRUE
  BY DEF Poll
<1>3. WorldType' /\ HistoryType'
  BY <1>1, <1>2 DEF WorldType, HistoryType, history
<1>4. CASE UNCHANGED core
  <2>1. CoreType'
    BY <1>1, <1>4 DEF CoreType, core
  <2>2. EntriesSound'
    BY <1>2, <1>4 DEF ChangeInv, EntriesSound, core
  <2>3. MinTimerSound'
    BY <1>2, <1>4 DEF ChangeInv, MinTimerSound, core, history
  <2>4. WaitingSound'
    BY <1>2, <1>4 DEF ChangeInv, WaitingSound, OnItsWay, Live, core, history
  <2> QED BY <1>3, <2>1, <2>2, <2>3, <2>4 DEF ChangeInv
<1>5. CASE reportAttrTimerStart(entry, timer)
  <2>1. /\ CoreType'
        /\ flush # Idle => flush' = flush
        /\ \A a \in Attributes :
             /\ entry'[a] = Noticed(a, entry[a])
             /\ timer'[a] = NextTimer(a, entry[a], timer[a])
             /\ Live(a, entry[a]) /\ Changed(a, entry[a]) /\ AtOnce(entry[a])
                  => flush' # Idle
    BY <1>1, <1>5, LookFacts DEF CoreType, WorldType
  <2>2. \A a \in Attributes :
          /\ entry[a] \in Entries /\ timer[a] \in Timers
          /\ value[a] \in Values /\ spoiled[a] \in BOOLEAN
          /\ EntrySound(entry[a])
    BY <1>1 DEF CoreType, WorldType, HistoryType, ChangeInv, EntriesSound
  <2>3. EntriesSound'
    <3>1. \A a \in Attributes : EntrySound(entry'[a])
      BY <2>1, <2>2, NoticedSound
    <3> QED BY <3>1, <1>2 DEF EntriesSound, ChangeInv
  <2>4. MinTimerSound'
    <3>1. \A a \in Attributes : MinTimerFits(entry[a], timer[a], spoiled[a])
      BY DEF ChangeInv, MinTimerSound
    <3>2. \A a \in Attributes : MinTimerFits(entry'[a], timer'[a], spoiled[a])
      BY <3>1, <2>1, <2>2, LookKeepsTimer
    <3>3. spoiled' = spoiled
      BY <1>2 DEF history
    <3> QED BY <3>2, <3>3 DEF MinTimerSound
  <2>5. WaitingSound'
    <3>1. \A a \in Attributes :
            OnItsWay(Live(a, entry[a]), entry[a], timer[a], flush, reported[a],
                     spoiled[a])
      BY DEF ChangeInv, WaitingSound
    <3>2. ASSUME NEW a \in Attributes
          PROVE  OnItsWay(Live(a, entry[a]), entry'[a], timer'[a], flush',
                          reported[a], spoiled[a])
      BY <3>1, <2>1, <2>2, LookKeepsWaiting
    <3>3. spoiled' = spoiled /\ reported' = reported /\ bound' = bound
      BY <1>2 DEF history
    <3>4. ASSUME NEW a \in Attributes
          PROVE  Live(a, entry[a])' <=> Live(a, entry[a])
      <4>1. entry'[a].used = entry[a].used /\ entry'[a].max = entry[a].max
        BY <2>1, <2>2, NoticedFacts
      <4> QED BY <4>1, <3>3 DEF Live
    <3>5. ASSUME NEW a \in Attributes
          PROVE  OnItsWay(Live(a, entry[a])', entry'[a], timer'[a], flush',
                          reported'[a], spoiled'[a])
      BY <3>2, <3>3, <3>4 DEF OnItsWay
    <3> QED BY <3>5 DEF WaitingSound, OnItsWay, Live
  <2> QED BY <1>3, <2>1, <2>3, <2>4, <2>5 DEF ChangeInv
<1> QED BY <1>4, <1>5 DEF Poll

(* The records of a command have the types of the table.                    *)
LEMMA ConfigType == ASSUME NEW c \in Configs PROVE c \in Records
<1>1. Configs \subseteq Records
  BY SetsAssumption DEF Records
<1> QED BY <1>1

(* A command that is accepted leaves its intervals in order, and one that   *)
(* reverts finds an entry.                                                  *)
LEMMA AcceptedFacts ==
  ASSUME NEW a \in Attributes, NEW c \in Records, Accepted(a, c)
  PROVE  /\ Reverts(c) => entry[a].used
         /\ ~Reverts(c) => Ordered(c.min, c.max)
<1>1. c.min \in Nat /\ c.max \in Nat
  <2>1. Word \subseteq Nat
    BY TicksAssumption DEF Word
  <2> QED BY <2>1 DEF Records
<1>2. c.max # 0 => c.min <= c.max
  BY <1>1 DEF Accepted
<1>3. Reverts(c) => entry[a].used
  BY DEF Accepted
<1>4. ~Reverts(c) => ~(c.max = 0 /\ c.min = None16)
  BY DEF Reverts
<1> QED BY <1>2, <1>3, <1>4 DEF Ordered

(* A command that updates an entry: a change that waited, and a minimum     *)
(* timer that runs, are marked as spoiled.                                  *)
LEMMA ChangeUpdate ==
  ASSUME ChangeInv, NEW a \in Attributes, NEW c \in Records,
         Ordered(c.min, c.max),
         entry' = [entry EXCEPT ![a] = Updated(a, @, c)],
         UNCHANGED <<timer, flush>>, nv' = entry', Disturb({a}),
         UNCHANGED <<value, bound, joined, busy, polled>>
  PROVE  ChangeInv'
<1> DEFINE u == Updated(a, entry[a], c)
<1>1. CoreType /\ WorldType /\ HistoryType
  BY DEF ChangeInv
<1>2. \A b \in Attributes :
        entry[b] \in Entries /\ EntrySound(entry[b]) /\ timer[b] \in Timers
  BY <1>1 DEF CoreType, ChangeInv, EntriesSound
<1>3. u \in Entries /\ EntrySound(u)
  BY <1>2, UpdatedSound
<1>4. /\ u.min = c.min /\ u.max = c.max /\ u.minCnt = c.min
      /\ u.maxCnt = c.max /\ u.prev = entry[a].prev /\ u.used
  BY DEF Updated
<1>5. c.min \in Nat /\ c.max \in Nat
  BY <1>3, <1>4, EntryNats
<1> HIDE DEF u
<1>6. /\ entry' \in [Attributes -> Entries]
      /\ entry'[a] = u
      /\ \A b \in Attributes : b # a => entry'[b] = entry[b]
  BY <1>1, <1>3 DEF CoreType, u
<1>7. CoreType'
  BY <1>1, <1>6 DEF CoreType
<1>8. WorldType'
  BY <1>1, <1>6 DEF WorldType
<1>9. HistoryType' /\ reported' = reported
  BY <1>1, DisturbFacts
<1>10. \A b \in Attributes : EntrySound(entry'[b])
  BY <1>2, <1>3, <1>6
<1>11. EntriesSound'
  BY <1>10 DEF EntriesSound
<1>12. \A b \in Attributes \ {a} : spoiled'[b] = spoiled[b]
  BY <1>1, DisturbFacts
<1>13. /\ timer[a].kind = "min" => spoiled'[a]
       /\ entry[a].prev # reported[a] => spoiled'[a]
  BY <1>1, DisturbFacts
<1>14. MinTimerSound'
  <2> SUFFICES ASSUME NEW b \in Attributes
               PROVE  MinTimerFits(entry'[b], timer[b], spoiled'[b])
    BY DEF MinTimerSound
  <2>1. CASE b # a
    BY <1>6, <1>12, <2>1 DEF ChangeInv, MinTimerSound
  <2>2. CASE b = a /\ timer[a].kind # "min"
    BY <2>2 DEF MinTimerFits
  <2>3. CASE b = a /\ timer[a].kind = "min" /\ AtOnce(u)
    BY <1>6, <2>3 DEF MinTimerFits
  <2>4. CASE b = a /\ timer[a].kind = "min" /\ ~AtOnce(u)
    <3>1. u.min # 0 /\ u.max # 0
      BY <2>4, <1>4 DEF AtOnce, Ordered
    <3>2. u.minCnt > 0 /\ u.maxCnt > 0
      BY <3>1, <1>4, <1>5
    <3> QED BY <3>2, <1>6, <1>13, <2>4 DEF MinTimerFits
  <2> QED BY <2>1, <2>2, <2>3, <2>4
<1>15. WaitingSound'
  <2>1. ASSUME NEW b \in Attributes, b # a
        PROVE  OnItsWay(Live(b, entry'[b]), entry'[b], timer[b], flush,
                        reported[b], spoiled'[b])
    BY <1>6, <1>12, <2>1 DEF ChangeInv, WaitingSound
  <2>2. ~spoiled'[a] => entry'[a].prev = reported[a]
    BY <1>4, <1>6, <1>13
  <2>3. bound' = bound /\ timer' = timer /\ flush' = flush
    OBVIOUS
  <2> QED BY <2>1, <2>2, <2>3, <1>9 DEF WaitingSound, OnItsWay, Live
<1> QED BY <1>7, <1>8, <1>9, <1>11, <1>14, <1>15 DEF ChangeInv

(* A command that reverts an entry stops its timer and looks at every entry. *)
LEMMA ChangeRevert ==
  ASSUME ChangeInv, NEW a \in Attributes, entry[a].used,
         reportAttrTimerStart([entry EXCEPT ![a] = Reset(@)],
                              [timer EXCEPT ![a] = NoTimer]),
         nv' = entry', Disturb({a}),
         UNCHANGED <<value, bound, joined, busy, polled>>
  PROVE  ChangeInv'
<1> DEFINE n == [entry EXCEPT ![a] = Reset(@)]
           t == [timer EXCEPT ![a] = NoTimer]
<1>1. CoreType /\ WorldType /\ HistoryType
  BY DEF ChangeInv
<1>2. \A b \in Attributes :
        /\ entry[b] \in Entries /\ EntrySound(entry[b]) /\ timer[b] \in Timers
        /\ value[b] \in Values
  BY <1>1 DEF CoreType, WorldType, ChangeInv, EntriesSound
<1>3. Reset(entry[a]) \in Entries /\ EntrySound(Reset(entry[a]))
  BY <1>2, ResetSound
<1>4. /\ n \in [Attributes -> Entries] /\ n[a] = Reset(entry[a])
      /\ \A b \in Attributes : b # a => n[b] = entry[b]
  BY <1>1, <1>3 DEF CoreType
<1>5. /\ t \in [Attributes -> Timers] /\ t[a] = NoTimer
      /\ \A b \in Attributes : b # a => t[b] = timer[b]
  BY <1>1, NoTimerType DEF CoreType
<1>6. n[a].prev = entry[a].prev /\ t[a].kind = "none"
  BY <1>4, <1>5 DEF Reset, NoTimer, Timer
<1>7. reportAttrTimerStart(n, t)
  OBVIOUS
<1> HIDE DEF n, t
<1>8. /\ CoreType'
      /\ flush # Idle => flush' = flush
      /\ \A b \in Attributes :
           /\ entry'[b] = Noticed(b, n[b])
           /\ timer'[b] = NextTimer(b, n[b], t[b])
           /\ Live(b, n[b]) /\ Changed(b, n[b]) /\ AtOnce(n[b]) => flush' # Idle
  BY <1>1, <1>4, <1>5, <1>7, LookFacts DEF CoreType, WorldType
<1>9. \A b \in Attributes :
        n[b] \in Entries /\ EntrySound(n[b]) /\ t[b] \in Timers
  BY <1>2, <1>3, <1>4, <1>5
<1>10. WorldType'
  BY <1>1, <1>8 DEF WorldType, CoreType
<1>11. /\ HistoryType' /\ reported' = reported
       /\ \A b \in Attributes \ {a} : spoiled'[b] = spoiled[b]
       /\ entry[a].prev # reported[a] => spoiled'[a]
  BY <1>1, DisturbFacts
<1>12. EntriesSound'
  <2>1. \A b \in Attributes : EntrySound(entry'[b])
    BY <1>2, <1>8, <1>9, NoticedSound
  <2> QED BY <2>1 DEF EntriesSound
<1>13. \A b \in Attributes : spoiled'[b] \in BOOLEAN
  BY <1>11 DEF HistoryType
<1>14. MinTimerSound'
  <2>1. \A b \in Attributes : MinTimerFits(n[b], t[b], spoiled'[b])
    BY <1>4, <1>5, <1>6, <1>11 DEF ChangeInv, MinTimerSound, MinTimerFits
  <2>2. \A b \in Attributes : MinTimerFits(entry'[b], timer'[b], spoiled'[b])
    BY <2>1, <1>2, <1>8, <1>9, <1>13, LookKeepsTimer
  <2> QED BY <2>2 DEF MinTimerSound
<1>15. WaitingSound'
  <2>1. ASSUME NEW b \in Attributes
        PROVE  OnItsWay(Live(b, n[b]), n[b], t[b], flush, reported[b], spoiled'[b])
    <3>1. CASE b # a
      BY <3>1, <1>4, <1>5, <1>11 DEF ChangeInv, WaitingSound
    <3>2. CASE b = a
      BY <3>2, <1>6, <1>11 DEF OnItsWay
    <3> QED BY <3>1, <3>2
  <2>2. ASSUME NEW b \in Attributes
        PROVE  OnItsWay(Live(b, n[b]), entry'[b], timer'[b], flush', reported[b],
                        spoiled'[b])
    BY <2>1, <1>2, <1>8, <1>9, <1>13, LookKeepsWaiting
  <2>3. ASSUME NEW b \in Attributes
        PROVE  Live(b, entry[b])' <=> Live(b, n[b])
    <3>1. entry'[b].used = n[b].used /\ entry'[b].max = n[b].max
      BY <1>2, <1>8, <1>9, NoticedFacts
    <3>2. bound' = bound
      OBVIOUS
    <3> QED BY <3>1, <3>2 DEF Live
  <2>4. ASSUME NEW b \in Attributes
        PROVE  OnItsWay(Live(b, entry[b])', entry'[b], timer'[b], flush',
                        reported'[b], spoiled'[b])
    BY <2>2, <2>3, <1>11 DEF OnItsWay
  <2> QED BY <2>4 DEF WaitingSound, OnItsWay, Live
<1> QED BY <1>8, <1>10, <1>11, <1>12, <1>14, <1>15 DEF ChangeInv

(* A Configure Reporting record.                                            *)
LEMMA ChangeConfigure ==
  ASSUME ChangeInv, NEW a \in Attributes, NEW c \in Configs, Configure(a, c)
  PROVE  ChangeInv'
<1>1. c \in Records
  BY ConfigType
<1>2. CASE Reverts(c)
  <2>1. entry[a].used
    BY <1>1, <1>2, AcceptedFacts DEF Configure
  <2> QED BY <1>2, <2>1, ChangeRevert DEF Configure
<1>3. CASE ~Reverts(c)
  <2>1. Ordered(c.min, c.max)
    BY <1>1, <1>3, AcceptedFacts DEF Configure
  <2> QED BY <1>1, <1>3, <2>1, ChangeUpdate DEF Configure
<1> QED BY <1>2, <1>3

(* A handler changes an attribute: entries and timers do not know yet.      *)
LEMMA ChangeSetValue ==
  ASSUME ChangeInv, NEW a \in Attributes, NEW v \in Values, SetValue(a, v)
  PROVE  ChangeInv'
<1>1. CoreType' /\ WorldType' /\ HistoryType'
  BY DEF ChangeInv, SetValue, CoreType, WorldType, HistoryType, core, history
<1>2. EntriesSound' /\ MinTimerSound'
  BY DEF ChangeInv, SetValue, EntriesSound, MinTimerSound, core, history
<1>3. WaitingSound'
  BY DEF ChangeInv, SetValue, WaitingSound, OnItsWay, Live, core, history
<1> QED BY <1>1, <1>2, <1>3 DEF ChangeInv

(* Bindings, the network and other work disturb the attributes S; only a    *)
(* disturbed attribute may lose its binding.                                *)
LEMMA ChangeDisturb ==
  ASSUME ChangeInv, NEW S, Disturb(S), UNCHANGED <<core, value, nv>>,
         bound' \in SUBSET Attributes, joined' \in BOOLEAN, busy' \in BOOLEAN,
         polled' \in BOOLEAN,
         \A a \in Attributes \ S : a \in bound' <=> a \in bound
  PROVE  ChangeInv'
<1>1. CoreType /\ WorldType /\ HistoryType
  BY DEF ChangeInv
<1>2. /\ HistoryType' /\ reported' = reported
      /\ \A a \in Attributes :
           /\ spoiled[a] => spoiled'[a]
           /\ a \notin S => spoiled'[a] = spoiled[a]
           /\ a \in S =>
                /\ entry[a].prev # reported[a] => spoiled'[a]
                /\ timer[a].kind = "min" => spoiled'[a]
  BY <1>1, DisturbFacts
<1>3. entry' = entry /\ timer' = timer /\ flush' = flush /\ nv' = nv
  BY DEF core
<1>4. CoreType' /\ WorldType'
  BY <1>1, <1>3 DEF CoreType, WorldType
<1>5. EntriesSound'
  BY <1>3 DEF ChangeInv, EntriesSound
<1>6. MinTimerSound'
  BY <1>2, <1>3 DEF ChangeInv, MinTimerSound, MinTimerFits
<1>7. WaitingSound'
  <2> SUFFICES ASSUME NEW a \in Attributes
               PROVE  OnItsWay(Live(a, entry[a]), entry[a], timer[a], flush,
                               reported[a], spoiled[a])'
    BY DEF WaitingSound
  <2>1. OnItsWay(Live(a, entry[a]), entry[a], timer[a], flush, reported[a], spoiled[a])
    BY DEF ChangeInv, WaitingSound
  <2>2. CASE a \in S
    BY <2>2, <1>2, <1>3 DEF OnItsWay
  <2>3. CASE a \notin S
    BY <2>1, <2>3, <1>2, <1>3 DEF OnItsWay, Live
  <2> QED BY <2>2, <2>3
<1> QED BY <1>2, <1>4, <1>5, <1>6, <1>7 DEF ChangeInv

(* A tick: a common timer that runs does not run out in it.                 *)
LEMMA ChangeTick == ChangeInv /\ Tick => ChangeInv'
<1> SUFFICES ASSUME ChangeInv, Tick PROVE ChangeInv'
  OBVIOUS
<1>1. CoreType /\ WorldType /\ HistoryType
  BY DEF ChangeInv
<1>2. /\ entry' = entry /\ nv' = nv /\ bound' = bound
      /\ reported' = reported /\ spoiled' = spoiled /\ steady' = steady
      /\ value' = value /\ joined' = joined /\ busy' = busy /\ polled' = FALSE
  BY DEF Tick
<1>3. flush' \in {Idle} \cup 0 .. FlushTicks /\ (flush # Idle => flush' # Idle)
  <2>1. flush \in {Idle} \cup 0 .. FlushTicks
    BY <1>1 DEF CoreType
  <2>2. flush # 0 /\ flush' = IF flush = Idle THEN Idle ELSE flush - 1
    BY DEF Tick
  <2>3. FlushTicks \in Nat
    BY TicksAssumption
  <2> QED BY <2>1, <2>2, <2>3 DEF Idle
<1>4. ASSUME NEW a \in Attributes
      PROVE  /\ timer'[a] \in Timers
             /\ timer'[a].kind = timer[a].kind /\ timer'[a].secs = timer[a].secs
  <2>1. timer[a] \in Timers
    BY <1>1 DEF CoreType
  <2>2. CASE timer[a].kind = "none"
    BY <2>1, <2>2 DEF Tick
  <2>3. CASE timer[a].kind # "none"
    <3>1. timer'[a] = [timer[a] EXCEPT !.left = @ - 1] /\ timer[a].left > 0
      BY <2>3 DEF Tick
    <3>2. None16 * SecTicks \in Nat
      BY TicksAssumption, SpanFacts DEF Span
    <3> DEFINE top == None16 * SecTicks
    <3>3. timer[a].left \in 0 .. top
      BY <2>1 DEF Timers
    <3> HIDE DEF top
    <3>4. timer[a].left - 1 \in 0 .. top
      BY <3>1, <3>2, <3>3 DEF top
    <3>5. timer[a].left - 1 \in 0 .. None16 * SecTicks
      BY <3>4 DEF top
    <3> QED BY <2>1, <3>1, <3>5 DEF Timers
  <2> QED BY <2>2, <2>3
<1>5. timer' \in [Attributes -> Timers]
  BY <1>4 DEF Tick
<1>6. since' \in [Attributes -> 0 .. Horizon]
  <2>1. Horizon \in Nat /\ \A a \in Attributes : since[a] \in 0 .. Horizon
    <3>1. Horizon \in Nat
      BY TicksAssumption
    <3>2. since \in [Attributes -> 0 .. Horizon]
      BY <1>1 DEF HistoryType
    <3> QED BY <3>1, <3>2
  <2>2. ASSUME NEW a \in Attributes
        PROVE  since'[a] = 0 \/ (since'[a] = since[a] + 1 /\ since[a] < Horizon)
                \/ since'[a] = since[a]
    BY DEF Tick
  <2>3. \A a \in Attributes : since'[a] \in 0 .. Horizon
    BY <2>1, <2>2
  <2> QED BY <2>3 DEF Tick
<1>7. CoreType' /\ WorldType' /\ HistoryType'
  BY <1>1, <1>2, <1>3, <1>5, <1>6 DEF CoreType, WorldType, HistoryType
<1>8. EntriesSound'
  BY <1>2 DEF ChangeInv, EntriesSound
<1>9. MinTimerSound'
  BY <1>2, <1>4 DEF ChangeInv, MinTimerSound, MinTimerFits
<1>10. WaitingSound'
  BY <1>2, <1>3, <1>4 DEF ChangeInv, WaitingSound, OnItsWay, Live
<1> QED BY <1>7, <1>8, <1>9, <1>10 DEF ChangeInv

(* Taking seconds off a counter.                                            *)
LEMMA LessFacts ==
  ASSUME NEW cnt \in Word, NEW secs \in Word
  PROVE  /\ Less(cnt, secs) \in Word /\ Less(cnt, secs) <= cnt
         /\ cnt <= secs => Less(cnt, secs) = 0
<1>1. None16 \in Nat
  BY TicksAssumption
<1> QED BY <1>1 DEF Less, Word

(* What the end of a timer makes of its entry.                              *)
LEMMA TimerCbFacts ==
  ASSUME ChangeInv, NEW a \in Attributes, reportAttrTimerCb(a)
  PROVE  /\ timer[a].kind # "none" /\ timer[a].left = 0
         /\ entry'[a] \in Entries /\ EntrySound(entry'[a])
         /\ entry' \in [Attributes -> Entries]
         /\ \A b \in Attributes : b # a => entry'[b] = entry[b] /\ timer'[b] = timer[b]
         /\ timer'[a] = NoTimer /\ timer' \in [Attributes -> Timers]
         /\ entry'[a].used = entry[a].used /\ entry'[a].min = entry[a].min
         /\ entry'[a].max = entry[a].max /\ entry'[a].prev = entry[a].prev
         /\ entry'[a].change = entry[a].change
         /\ Live(a, entry[a]) =>
              /\ entry'[a].minCnt = Less(entry[a].minCnt, timer[a].secs)
              /\ entry'[a].maxCnt = Less(entry[a].maxCnt, timer[a].secs)
         /\ ~Live(a, entry[a]) => entry'[a] = entry[a]
         /\ flush' # Idle /\ (flush # Idle => flush' = flush)
         /\ flush' \in 0 .. FlushTicks
<1> DEFINE lo == Less(entry[a].minCnt, timer[a].secs)
           hi == Less(entry[a].maxCnt, timer[a].secs)
<1>1. /\ entry \in [Attributes -> Entries] /\ timer \in [Attributes -> Timers]
      /\ entry[a] \in Entries /\ timer[a] \in Timers /\ EntrySound(entry[a])
      /\ flush \in {Idle} \cup 0 .. FlushTicks
  BY DEF ChangeInv, CoreType, EntriesSound
<1>2. /\ lo \in Word /\ lo <= entry[a].minCnt
      /\ hi \in Word /\ hi <= entry[a].maxCnt
  <2>1. entry[a].minCnt \in Word /\ entry[a].maxCnt \in Word /\ timer[a].secs \in Word
    BY <1>1 DEF Entries, Timers
  <2> QED BY <2>1, LessFacts
<1>3. flush' # Idle /\ (flush # Idle => flush' = flush) /\ flush' \in 0 .. FlushTicks
  <2>1. flush' = IF flush = Idle THEN FlushTicks ELSE flush
    BY DEF reportAttrTimerCb, reportingTimerStart
  <2>2. FlushTicks \in Nat
    BY TicksAssumption
  <2> QED BY <1>1, <2>1, <2>2 DEF Idle
<1>4. /\ timer[a].kind # "none" /\ timer[a].left = 0
      /\ timer'[a] = NoTimer /\ timer' \in [Attributes -> Timers]
      /\ \A b \in Attributes : b # a => timer'[b] = timer[b]
  BY <1>1, NoTimerType DEF reportAttrTimerCb
<1>5. CASE ~Live(a, entry[a])
  BY <1>1, <1>3, <1>4, <1>5 DEF reportAttrTimerCb
<1>6. CASE Live(a, entry[a])
  <2> DEFINE u == [entry[a] EXCEPT !.minCnt = lo, !.maxCnt = hi]
  <2> HIDE DEF lo, hi
  <2>1. /\ u \in Entries /\ u.minCnt = lo /\ u.maxCnt = hi
        /\ u.used = entry[a].used /\ u.min = entry[a].min /\ u.max = entry[a].max
        /\ u.minDft = entry[a].minDft /\ u.maxDft = entry[a].maxDft
        /\ u.prev = entry[a].prev /\ u.change = entry[a].change
    BY <1>1, <1>2 DEF Entries
  <2>2. entry' = [entry EXCEPT ![a].minCnt = lo, ![a].maxCnt = hi]
    BY <1>6 DEF reportAttrTimerCb, lo, hi
  <2>3. entry'[a] = u /\ \A b \in Attributes : b # a => entry'[b] = entry[b]
    BY <1>1, <2>2
  <2> HIDE DEF u
  <2>4. entry' \in [Attributes -> Entries]
    <3>1. entry' = [b \in Attributes |-> entry'[b]]
      BY <1>1, <2>2
    <3>2. \A b \in Attributes : entry'[b] \in Entries
      BY <1>1, <2>1, <2>3
    <3> QED BY <3>1, <3>2
  <2>5. EntrySound(u)
    <3>1. /\ entry[a].min \in Nat /\ entry[a].max \in Nat
          /\ entry[a].minCnt \in Nat /\ entry[a].maxCnt \in Nat
          /\ u.minCnt \in Nat /\ u.maxCnt \in Nat
      BY <1>1, <2>1, EntryNats
    <3> QED BY <1>1, <1>2, <2>1, <3>1 DEF EntrySound
  <2> QED BY <1>1, <1>3, <1>4, <1>6, <2>1, <2>3, <2>4, <2>5 DEF lo, hi
<1> QED BY <1>5, <1>6

(* A timer runs out.                                                        *)
LEMMA ChangeTimerCb ==
  ASSUME ChangeInv, NEW a \in Attributes, reportAttrTimerCb(a)
  PROVE  ChangeInv'
<1>1. UNCHANGED <<value, bound, joined, busy, polled, nv, reported, since, steady,
                  spoiled>>
  BY DEF reportAttrTimerCb, world, history
<1>2. CoreType'
  BY TimerCbFacts DEF CoreType
<1>3. WorldType' /\ HistoryType'
  BY <1>1 DEF ChangeInv, WorldType, HistoryType
<1>4. EntriesSound'
  BY <1>1, TimerCbFacts DEF ChangeInv, EntriesSound
<1>5. MinTimerSound'
  <2>1. timer'[a].kind # "min"
    BY TimerCbFacts DEF NoTimer, Timer
  <2>2. MinTimerFits(entry'[a], timer'[a], spoiled[a])
    BY <2>1 DEF MinTimerFits
  <2>3. \A b \in Attributes : b # a => MinTimerFits(entry'[b], timer'[b], spoiled[b])
    BY TimerCbFacts DEF ChangeInv, MinTimerSound
  <2>4. spoiled' = spoiled
    BY <1>1
  <2> QED BY <2>2, <2>3, <2>4 DEF MinTimerSound
<1>6. WaitingSound'
  <2>1. \A b \in Attributes :
          OnItsWay(Live(b, entry[b]), entry[b], timer[b], flush, reported[b], spoiled[b])
    BY DEF ChangeInv, WaitingSound
  <2>2. ASSUME NEW b \in Attributes, b # a
        PROVE  OnItsWay(Live(b, entry[b]), entry'[b], timer'[b], flush',
                        reported[b], spoiled[b])
    BY <2>1, <2>2, TimerCbFacts DEF OnItsWay
  <2>3. OnItsWay(Live(a, entry[a]), entry'[a], timer'[a], flush', reported[a], spoiled[a])
    <3> SUFFICES ASSUME ~spoiled[a], entry[a].prev # reported[a]
                 PROVE  Live(a, entry[a]) /\ entry'[a].minCnt = 0
      BY TimerCbFacts DEF OnItsWay
    <3>1. /\ Live(a, entry[a])
          /\ \/ timer[a].kind = "min" /\ ~AtOnce(entry[a])
             \/ entry[a].minCnt = 0
      BY <2>1 DEF OnItsWay
    <3>2. /\ entry[a].minCnt \in Word /\ timer[a].secs \in Word
          /\ EntrySound(entry[a])
      BY DEF ChangeInv, CoreType, EntriesSound, Entries, Timers
    <3>5. entry[a].minCnt \in Nat /\ timer[a].secs \in Nat
      BY <3>2, WordNats
    <3>3. entry[a].minCnt <= timer[a].secs
      <4>1. CASE entry[a].minCnt = 0
        BY <4>1, <3>5
      <4>2. CASE timer[a].kind = "min" /\ ~AtOnce(entry[a])
        <5>1. timer[a].secs = entry[a].min
          BY <4>2 DEF ChangeInv, MinTimerSound, MinTimerFits
        <5>2. entry[a].min # 0
          BY <4>2 DEF AtOnce
        <5> QED BY <5>1, <5>2, <3>2 DEF EntrySound
      <4> QED BY <3>1, <4>1, <4>2
    <3>4. Less(entry[a].minCnt, timer[a].secs) = 0
      BY <3>2, <3>3, LessFacts
    <3> QED BY <3>1, <3>4, TimerCbFacts
  <2>4. ASSUME NEW b \in Attributes
        PROVE  Live(b, entry[b])' <=> Live(b, entry[b])
    <3>1. entry'[b].used = entry[b].used /\ entry'[b].max = entry[b].max
      BY TimerCbFacts
    <3> QED BY <3>1, <1>1 DEF Live
  <2>5. ASSUME NEW b \in Attributes
        PROVE  OnItsWay(Live(b, entry[b])', entry'[b], timer'[b], flush',
                        reported'[b], spoiled'[b])
    BY <2>2, <2>3, <2>4, <1>1 DEF OnItsWay
  <2> QED BY <2>5 DEF WaitingSound, OnItsWay, Live
<1> QED BY <1>2, <1>3, <1>4, <1>5, <1>6 DEF ChangeInv

(* What sending makes of an entry.                                          *)
LEMMA SentFacts ==
  ASSUME NEW a, NEW n \in Entries, value[a] \in Values, EntrySound(n),
         NEW r, r = Sent(a, n)
  PROVE  /\ r \in Entries /\ EntrySound(r)
         /\ r.used = n.used /\ r.min = n.min /\ r.max = n.max
         /\ r.prev = value[a]
         /\ r.minCnt = Full(n.min) /\ r.maxCnt = Full(n.max)
<1>1. None16 \in Word
  BY TicksAssumption DEF Word
<1>2. Full(n.min) \in Word /\ Full(n.max) \in Word
  BY <1>1 DEF Full, Entries
<1>3. /\ r \in Entries
      /\ r.used = n.used /\ r.min = n.min /\ r.max = n.max
      /\ r.minDft = n.minDft /\ r.maxDft = n.maxDft
      /\ r.prev = value[a]
      /\ r.minCnt = Full(n.min) /\ r.maxCnt = Full(n.max)
  BY <1>2 DEF Sent, Entries
<1>4. EntrySound(r)
  <2>1. n.min \in Nat /\ n.max \in Nat
    BY EntryNats
  <2> QED BY <1>3, <2>1 DEF EntrySound, Full
<1> QED BY <1>3, <1>4

(* The step of a send, attribute by attribute.                              *)
LEMMA SendFacts ==
  ASSUME ChangeInv, reportAttrs, NEW a \in Attributes
  PROVE  /\ entry'[a] \in Entries /\ EntrySound(entry'[a])
         /\ entry'[a].used = entry[a].used /\ entry'[a].min = entry[a].min
         /\ entry'[a].max = entry[a].max
         /\ timer'[a] = timer[a] /\ flush = 0 /\ flush' = Idle
         /\ Due(a) =>
              /\ entry'[a].prev = value[a] /\ since'[a] = 0
              /\ entry'[a].minCnt = Full(entry[a].min)
              /\ entry'[a].maxCnt = Full(entry[a].max)
              /\ ~spoiled'[a] => reported'[a] = value[a]
              /\ steady'[a] => steady[a] \/ Recent(timer[a])
         /\ ~Due(a) =>
              /\ entry'[a] = entry[a] /\ reported'[a] = reported[a]
              /\ spoiled'[a] = spoiled[a] /\ since'[a] = since[a]
              /\ steady'[a] => steady[a]
<1> DEFINE S == {b \in Attributes : Due(b)}
<1>1. Send(S)
  BY DEF reportAttrs
<1>2. a \in S <=> Due(a)
  OBVIOUS
<1> HIDE DEF S
<1>3. entry[a] \in Entries /\ EntrySound(entry[a]) /\ value[a] \in Values
      /\ joined \in BOOLEAN /\ spoiled[a] \in BOOLEAN /\ steady[a] \in BOOLEAN
  BY DEF ChangeInv, CoreType, WorldType, HistoryType, EntriesSound
<1>4. /\ timer'[a] = timer[a] /\ flush = 0 /\ flush' = Idle
      /\ entry'[a] = IF a \in S THEN Sent(a, entry[a]) ELSE entry[a]
      /\ reported'[a] = IF a \in S /\ joined THEN value[a] ELSE reported[a]
      /\ since'[a] = IF a \in S THEN 0 ELSE since[a]
      /\ spoiled'[a] = IF a \in S THEN ~joined ELSE spoiled[a]
  BY <1>1 DEF Send
<1>5. steady'[a] = (steady[a] \/ (a \in S /\ Recent(timer[a])))
  BY <1>1 DEF Send
<1>6. CASE a \in S
  <2>1. /\ entry'[a] = Sent(a, entry[a]) /\ since'[a] = 0
        /\ reported'[a] = IF joined THEN value[a] ELSE reported[a]
        /\ spoiled'[a] = ~joined
    BY <1>4, <1>6
  <2>2. steady'[a] => steady[a] \/ Recent(timer[a])
    BY <1>5, Zenon
  <2>3. ~spoiled'[a] => reported'[a] = value[a]
    BY <2>1, <1>3
  <2>4. /\ entry'[a] \in Entries /\ EntrySound(entry'[a])
        /\ entry'[a].used = entry[a].used /\ entry'[a].min = entry[a].min
        /\ entry'[a].max = entry[a].max /\ entry'[a].prev = value[a]
        /\ entry'[a].minCnt = Full(entry[a].min)
        /\ entry'[a].maxCnt = Full(entry[a].max)
    BY <1>3, <2>1, SentFacts
  <2> QED BY <1>2, <1>4, <1>6, <2>1, <2>2, <2>3, <2>4
<1>7. CASE a \notin S
  BY <1>2, <1>3, <1>4, <1>5, <1>7
<1> QED BY <1>6, <1>7

(* The common timer runs out: the entries that are due are sent.            *)
LEMMA ChangeSend == ChangeInv /\ reportAttrs => ChangeInv'
<1> SUFFICES ASSUME ChangeInv, reportAttrs PROVE ChangeInv'
  OBVIOUS
<1>1. CoreType /\ WorldType /\ HistoryType
  BY DEF ChangeInv
<1>2. /\ UNCHANGED <<value, bound, joined, busy, polled, nv, timer>>
      /\ flush' = Idle
  BY DEF reportAttrs, Send, world
<1>3. CoreType'
  <2>1. \A a \in Attributes : entry'[a] \in Entries
    BY SendFacts
  <2>2. entry' \in [Attributes -> Entries]
    BY <2>1 DEF reportAttrs, Send
  <2> QED BY <1>1, <1>2, <2>2 DEF CoreType
<1>4. WorldType'
  BY <1>1, <1>2 DEF WorldType
<1>5. HistoryType'
  <2> DEFINE S == {a \in Attributes : Due(a)}
  <2>1. Send(S)
    BY DEF reportAttrs
  <2> HIDE DEF S
  <2>2. reported' \in [Attributes -> Values \cup {Erased, Zeroed}]
    BY <1>1, <2>1 DEF Send, WorldType, HistoryType
  <2>3. 0 \in 0 .. Horizon
    BY TicksAssumption
  <2>4. since' \in [Attributes -> 0 .. Horizon]
    BY <1>1, <2>1, <2>3 DEF Send, HistoryType
  <2>5. \A a \in Attributes :
          (steady[a] \/ (a \in S /\ Recent(timer[a]))) \in BOOLEAN
    OBVIOUS
  <2>6. steady' \in [Attributes -> BOOLEAN]
    BY <2>1, <2>5 DEF Send
  <2>7. spoiled' \in [Attributes -> BOOLEAN]
    BY <1>1, <2>1 DEF Send, HistoryType
  <2> QED BY <2>2, <2>4, <2>6, <2>7 DEF HistoryType
<1>6. EntriesSound'
  BY <1>2, SendFacts DEF ChangeInv, EntriesSound
<1>7. ASSUME NEW a \in Attributes, Due(a)
      PROVE  Live(a, entry[a]) /\ (entry[a].minCnt = 0 \/ entry[a].maxCnt = 0)
  BY <1>7 DEF Due
<1>8. MinTimerSound'
  <2> SUFFICES ASSUME NEW a \in Attributes
               PROVE  MinTimerFits(entry'[a], timer'[a], spoiled'[a])
    BY DEF MinTimerSound
  <2>1. MinTimerFits(entry[a], timer[a], spoiled[a])
    BY DEF ChangeInv, MinTimerSound
  <2>2. AtOnce(entry'[a]) <=> AtOnce(entry[a])
    BY SendFacts DEF AtOnce
  <2>3. CASE ~Due(a)
    BY <2>1, <2>3, SendFacts DEF MinTimerFits
  <2>4. CASE Due(a)
    <3>1. ~(entry[a].minCnt > 0 /\ entry[a].maxCnt > 0)
      BY <1>7, <2>4
    <3>2. entry'[a].min = entry[a].min /\ timer'[a] = timer[a]
      BY SendFacts
    <3> QED BY <2>1, <2>2, <3>1, <3>2 DEF MinTimerFits
  <2> QED BY <2>3, <2>4
<1>9. WaitingSound'
  <2>1. ASSUME NEW a \in Attributes
        PROVE  OnItsWay(Live(a, entry[a]), entry'[a], timer'[a], flush',
                        reported'[a], spoiled'[a])
    <3>1. OnItsWay(Live(a, entry[a]), entry[a], timer[a], flush, reported[a], spoiled[a])
      BY DEF ChangeInv, WaitingSound
    <3>2. CASE Due(a)
      BY <3>2, SendFacts DEF OnItsWay
    <3>3. CASE ~Due(a)
      <4>1. Live(a, entry[a]) => entry[a].minCnt # 0
        BY <3>3 DEF Due
      <4> QED BY <3>1, <3>3, <4>1, SendFacts DEF OnItsWay
    <3> QED BY <3>2, <3>3
  <2>2. ASSUME NEW a \in Attributes
        PROVE  Live(a, entry[a])' <=> Live(a, entry[a])
    <3>1. entry'[a].used = entry[a].used /\ entry'[a].max = entry[a].max
      BY SendFacts
    <3> QED BY <3>1, <1>2 DEF Live
  <2>3. ASSUME NEW a \in Attributes
        PROVE  OnItsWay(Live(a, entry[a])', entry'[a], timer'[a], flush',
                        reported'[a], spoiled'[a])
    BY <2>1, <2>2 DEF OnItsWay
  <2> QED BY <2>3 DEF WaitingSound, OnItsWay, Live
<1> QED BY <1>3, <1>4, <1>5, <1>6, <1>8, <1>9 DEF ChangeInv

-----------------------------------------------------------------------------
(* Every step keeps the invariant.                                          *)
LEMMA ChangeNext == ChangeInv /\ [Next]_vars => ChangeInv'
<1> SUFFICES ASSUME ChangeInv, [Next]_vars PROVE ChangeInv'
  OBVIOUS
<1>1. CASE Restart
  BY <1>1, ChangeRestart
<1>2. ASSUME NEW a \in Attributes, NEW c \in Configs, Configure(a, c)
      PROVE  ChangeInv'
  BY <1>2, ChangeConfigure
<1>3. ASSUME NEW a \in Attributes, NEW v \in Values, SetValue(a, v)
      PROVE  ChangeInv'
  BY <1>3, ChangeSetValue
<1>4. ASSUME NEW a \in Attributes, Bind(a) PROVE ChangeInv'
  <2>1. bound \in SUBSET Attributes /\ busy \in BOOLEAN /\ polled \in BOOLEAN
    BY DEF ChangeInv, WorldType
  <2>2. /\ Disturb({a}) /\ UNCHANGED <<core, value, joined, busy, polled, nv>>
        /\ joined
        /\ bound' = IF a \in bound THEN bound \ {a} ELSE bound \cup {a}
    BY <1>4 DEF Bind
  <2>3. /\ bound' \in SUBSET Attributes
        /\ \A b \in Attributes \ {a} : b \in bound' <=> b \in bound
    BY <2>1, <2>2
  <2>4. joined' \in BOOLEAN
    BY <2>2 DEF ChangeInv, WorldType
  <2> QED BY <2>1, <2>2, <2>3, <2>4, ChangeDisturb
<1>5. ASSUME NEW a \in Attributes, reportAttrTimerCb(a) PROVE ChangeInv'
  BY <1>5, ChangeTimerCb
<1>6. CASE Join
  <2>1. /\ Disturb(Attributes) /\ UNCHANGED <<core, value, nv>>
        /\ UNCHANGED <<bound, busy, polled>> /\ joined' \in BOOLEAN
    BY <1>6 DEF Join
  <2>2. bound' \in SUBSET Attributes /\ busy' \in BOOLEAN /\ polled' \in BOOLEAN
    BY <2>1 DEF ChangeInv, WorldType
  <2> QED BY <2>1, <2>2, ChangeDisturb
<1>7. CASE Occupy
  <2>1. /\ Disturb(Attributes) /\ UNCHANGED <<core, value, nv>>
        /\ UNCHANGED <<bound, joined, polled>> /\ busy' \in BOOLEAN
    BY <1>7 DEF Occupy
  <2>2. bound' \in SUBSET Attributes /\ joined' \in BOOLEAN /\ polled' \in BOOLEAN
    BY <2>1 DEF ChangeInv, WorldType
  <2> QED BY <2>1, <2>2, ChangeDisturb
<1>8. CASE Tick
  BY <1>8, ChangeTick
<1>9. CASE Poll
  BY <1>9, ChangePoll
<1>10. CASE reportAttrs
  BY <1>10, ChangeSend
<1>11. CASE UNCHANGED vars
  <2>1. UNCHANGED <<entry, timer, flush, value, bound, joined, busy, polled, nv,
                    reported, since, steady, spoiled>>
    BY <1>11 DEF vars, core, world, history
  <2> QED BY <2>1
    DEF ChangeInv, CoreType, WorldType, HistoryType, EntriesSound, MinTimerSound,
        WaitingSound, Live
<1> QED BY <1>1, <1>2, <1>3, <1>4, <1>5, <1>6, <1>7, <1>8, <1>9, <1>10, <1>11 DEF Next

(* The inductive invariant behind the reports of changes.                   *)
THEOREM ChangeInvariant == Spec => []ChangeInv
<1>1. Init => ChangeInv
  BY ChangeInit
<1>2. ChangeInv /\ [Next]_vars => ChangeInv'
  BY ChangeNext
<1> QED BY <1>1, <1>2, PTL DEF Spec

(* The table, its timers and counters, the attributes and the history keep  *)
(* their types: a counter of an entry never passes zero.                    *)
THEOREM TypeCorrect == Spec => []TypeOK
<1>1. ChangeInv => TypeOK
  BY TypeParts DEF ChangeInv
<1> QED BY <1>1, ChangeInvariant, PTL

(* No change is lost: a value that differs reportably from the one reported *)
(* last is still to be noticed, waits for the minimum interval, or is due   *)
(* when the common timer runs out (report_handler, reportAttrTimerCb,       *)
(* reportAttrs).                                                            *)
THEOREM NoChangeLostHolds == Spec => []NoChangeLost
<1>1. ChangeInv => NoChangeLost
  <2> SUFFICES ASSUME ChangeInv, NEW a \in Attributes, Live(a, entry[a]),
                      ~spoiled[a],
                      Differs(a, reported[a], value[a], entry[a].change)
               PROVE  \/ Changed(a, entry[a])
                      \/ timer[a].kind = "min" /\ entry[a].minCnt <= timer[a].secs
                      \/ entry[a].minCnt = 0 /\ flush # Idle
    BY DEF NoChangeLost
  <2>1. CASE entry[a].prev = reported[a]
    BY <2>1 DEF Changed
  <2>2. CASE entry[a].prev # reported[a] /\ timer[a].kind = "min" /\ ~AtOnce(entry[a])
    <3>1. timer[a].secs = entry[a].min
      BY <2>2 DEF ChangeInv, MinTimerSound, MinTimerFits
    <3>2. entry[a].min # 0
      BY <2>2 DEF AtOnce
    <3>3. EntrySound(entry[a])
      BY DEF ChangeInv, EntriesSound
    <3> QED BY <2>2, <3>1, <3>2, <3>3 DEF EntrySound
  <2>3. CASE entry[a].prev # reported[a] /\ entry[a].minCnt = 0 /\ flush # Idle
    BY <2>3
  <2> QED BY <2>1, <2>2, <2>3 DEF ChangeInv, WaitingSound, OnItsWay
<1> QED BY <1>1, ChangeInvariant, PTL

-----------------------------------------------------------------------------
(* The minimum interval *)

(* The numbers of a timer.                                                  *)
LEMMA TimerNats ==
  ASSUME NEW t \in Timers
  PROVE  t.secs \in Nat /\ t.left \in Nat /\ Span(t.secs) \in Nat /\ Ran(t) \in Int
<1> DEFINE top == None16 * SecTicks
<1>1. top \in Nat
  BY TicksAssumption, SpanFacts DEF Span
<1>2. t.secs \in Word /\ t.left \in 0 .. top
  BY DEF Timers
<1> HIDE DEF top
<1>3. t.secs \in Nat /\ t.left \in Nat
  BY <1>1, <1>2, WordNats
<1>4. Span(t.secs) \in Nat
  BY <1>3, SpanFacts
<1> QED BY <1>3, <1>4 DEF Ran

(* A timer that starts has used up nothing, and so has none.                *)
LEMMA StartRan ==
  ASSUME NEW kind, NEW secs \in Word
  PROVE  Ran(Timer(kind, secs)) = 0 /\ Ran(NoTimer) = 0
<1>1. secs \in Nat /\ Span(secs) \in Nat /\ Span(0) = 0
  BY WordNats, SpanFacts
<1>2. /\ Timer(kind, secs).secs = secs /\ Timer(kind, secs).left = Span(secs)
      /\ NoTimer.secs = 0 /\ NoTimer.left = Span(0)
  BY DEF Timer, NoTimer, Span
<1> QED BY <1>1, <1>2 DEF Ran

(* The numbers of an entry.                                                 *)
LEMMA EntrySpans ==
  ASSUME NEW n \in Entries
  PROVE  /\ Span(n.min) \in Nat /\ Span(n.max) \in Nat
         /\ Span(n.minCnt) \in Nat /\ Span(n.maxCnt) \in Nat
BY EntryNats, SpanFacts

(* A look at an entry starts timers afresh or leaves them, and leaves the   *)
(* counters of an entry with both intervals alone.                          *)
LEMMA LookKeepsPace ==
  ASSUME NEW a, NEW n \in Entries, NEW t \in Timers, NEW f, NEW g,
         NEW ticks \in Nat,
         value[a] \in Values, f # Idle => g = f, Ran(t) >= 0,
         f \in {Idle} \cup 0 .. FlushTicks,
         NEW u, u = NextTimer(a, n, t)
  PROVE  /\ Ran(u) >= 0
         /\ InPace(Live(a, n), n, t, f, ticks) =>
              InPace(Live(a, n), Noticed(a, n), u, g, ticks)
<1> DEFINE m == Noticed(a, n)
<1>1. /\ m.min = n.min /\ m.max = n.max /\ m.maxCnt = n.maxCnt
      /\ m.minCnt = IF Live(a, n) /\ Changed(a, n) /\ AtOnce(n)
                    THEN 0 ELSE n.minCnt
  BY NoticedFacts
<1>2. n.min \in Word /\ n.max \in Word
  BY DEF Entries
<1>3. /\ Ran(NoTimer) = 0 /\ Ran(Timer("min", n.min)) = 0
      /\ Ran(Timer("max", n.max)) = 0
  BY <1>2, StartRan
<1>4. /\ NoTimer.kind = "none" /\ Timer("max", n.max).kind = "max"
      /\ Timer("min", n.min).secs = n.min
  BY DEF NoTimer, Timer
<1>5. u = t \/ (Ran(u) = 0 /\ (u.kind = "min" => u.secs = n.min))
  <2>1. u \in {t, NoTimer, Timer("min", n.min), Timer("max", n.max)}
    <3>1. CASE ~Live(a, n)
      BY <3>1, NextTimerFacts
    <3>2. CASE Live(a, n) /\ Changed(a, n)
      BY <3>2, NextTimerFacts
    <3>3. CASE Live(a, n) /\ ~Changed(a, n)
      BY <3>3, NextTimerFacts
    <3> QED BY <3>1, <3>2, <3>3
  <2> QED BY <2>1, <1>3, <1>4
<1>6. Ran(t) \in Int /\ Ran(u) \in Int
  BY NextTimerFacts, TimerNats
<1>7. Ran(u) >= 0 /\ Ran(u) <= Ran(t)
  BY <1>5, <1>6
<1> HIDE DEF m
<1>8. ASSUME InPace(Live(a, n), n, t, f, ticks)
      PROVE  InPace(Live(a, n), m, u, g, ticks)
  <2>1. Live(a, n) /\ (u.kind = "min" => u.secs = n.min)
    BY <1>5, <1>8 DEF InPace
  <2>2. ASSUME n.min # 0, n.max # 0
        PROVE  /\ ticks < Horizon =>
                    /\ Span(m.min) + Ran(u) <= Span(m.minCnt) + ticks + FlushTicks
                    /\ Span(m.max) + Ran(u) <= Span(m.maxCnt) + ticks + FlushTicks
               /\ m.minCnt = 0 \/ m.maxCnt = 0 =>
                    g # Idle /\ Ran(u) + g <= FlushTicks
    <3>1. ~AtOnce(n) /\ m.minCnt = n.minCnt
      BY <1>1, <2>2 DEF AtOnce
    <3>2. /\ Span(n.min) \in Nat /\ Span(n.max) \in Nat
          /\ Span(n.minCnt) \in Nat /\ Span(n.maxCnt) \in Nat
          /\ FlushTicks \in Nat
      BY EntrySpans, FlushNat
    <3>3. /\ ticks < Horizon =>
               /\ Span(n.min) + Ran(t) <= Span(n.minCnt) + ticks + FlushTicks
               /\ Span(n.max) + Ran(t) <= Span(n.maxCnt) + ticks + FlushTicks
          /\ n.minCnt = 0 \/ n.maxCnt = 0 =>
               f # Idle /\ Ran(t) + f <= FlushTicks
      BY <1>8, <2>2 DEF InPace
    <3>4. ASSUME ticks < Horizon
          PROVE  /\ Span(n.min) + Ran(u) <= Span(n.minCnt) + ticks + FlushTicks
                 /\ Span(n.max) + Ran(u) <= Span(n.maxCnt) + ticks + FlushTicks
      BY <1>6, <1>7, <3>2, <3>3, <3>4
    <3>5. ASSUME n.minCnt = 0 \/ n.maxCnt = 0
          PROVE  g # Idle /\ Ran(u) + g <= FlushTicks
      <4>1. f # Idle /\ g = f /\ Ran(t) + f <= FlushTicks
        BY <3>3, <3>5
      <4>2. f \in Nat
        BY <4>1, <3>2
      <4> QED BY <4>1, <4>2, <1>6, <1>7, <3>2
    <3> QED BY <1>1, <3>1, <3>4, <3>5
  <2> QED BY <1>1, <2>1, <2>2 DEF InPace
<1> QED BY <1>7, <1>8 DEF m

(* At first nothing is steady and no timer runs.                            *)
LEMMA PaceInit == Init => PaceInv
<1> SUFFICES ASSUME Init PROVE PaceInv
  OBVIOUS
<1>1. \A a \in Attributes : timer[a] = NoTimer /\ ~steady[a]
  BY DEF Init
<1>2. Ran(NoTimer) = 0
  BY StartRan, ZeroWord
<1> QED BY <1>1, <1>2, ChangeInit DEF PaceInv, PaceSound

(* After a restart as well.                                                 *)
LEMMA PaceRestart == PaceInv /\ Restart => PaceSound'
<1> SUFFICES ASSUME Restart PROVE PaceSound'
  OBVIOUS
<1>1. \A a \in Attributes : timer'[a] = NoTimer /\ ~steady'[a]
  BY DEF Restart
<1>2. Ran(NoTimer) = 0
  BY StartRan, ZeroWord
<1>3. \A a \in Attributes : Ran(timer'[a]) = 0
  BY <1>1, <1>2
<1> QED BY <1>1, <1>3 DEF PaceSound, Ran, Span

(* What a look at the table n, t makes of the pace of its attributes.       *)
LEMMA PaceLook ==
  ASSUME NEW n \in [Attributes -> Entries], NEW t \in [Attributes -> Timers],
         ChangeInv, reportAttrTimerStart(n, t), bound' = bound, NEW b \in Attributes,
         Ran(t[b]) >= 0, NEW ticks \in Nat
  PROVE  /\ Ran(timer'[b]) >= 0
         /\ InPace(Live(b, n[b]), n[b], t[b], flush, ticks) =>
              InPace(Live(b, entry[b])', entry'[b], timer'[b], flush', ticks)
<1>1. /\ value \in [Attributes -> Values] /\ flush \in {Idle} \cup 0 .. FlushTicks
      /\ value[b] \in Values
  BY DEF ChangeInv, CoreType, WorldType
<1>2. /\ entry'[b] = Noticed(b, n[b]) /\ timer'[b] = NextTimer(b, n[b], t[b])
      /\ flush # Idle => flush' = flush
  BY <1>1, LookFacts
<1>3. n[b] \in Entries /\ t[b] \in Timers
  OBVIOUS
<1>4. Live(b, entry[b])' <=> Live(b, n[b])
  <2>1. entry'[b].used = n[b].used /\ entry'[b].max = n[b].max
    BY <1>1, <1>2, <1>3, NoticedFacts
  <2> QED BY <2>1 DEF Live
<1>5. /\ Ran(timer'[b]) >= 0
      /\ InPace(Live(b, n[b]), n[b], t[b], flush, ticks) =>
           InPace(Live(b, n[b]), entry'[b], timer'[b], flush', ticks)
  BY <1>1, <1>2, <1>3, LookKeepsPace
<1> QED BY <1>4, <1>5 DEF InPace

(* The ticks counted are numbers.                                           *)
LEMMA SinceNat ==
  ASSUME HistoryType, NEW a \in Attributes PROVE since[a] \in Nat
<1>1. Horizon \in Nat
  BY TicksAssumption
<1>2. since[a] \in 0 .. Horizon
  BY DEF HistoryType
<1> QED BY <1>1, <1>2

(* A turn of the main loop.                                                 *)
LEMMA PacePoll == PaceInv /\ Poll => PaceSound'
<1> SUFFICES ASSUME PaceInv, Poll, NEW a \in Attributes
             PROVE  /\ Ran(timer'[a]) >= 0
                    /\ steady'[a] => InPace(Live(a, entry[a])', entry'[a], timer'[a],
                                            flush', since'[a])
  BY DEF PaceSound, InPace, Live, Ran, Span
<1>1. /\ Ran(timer[a]) >= 0
      /\ steady[a] => InPace(Live(a, entry[a]), entry[a], timer[a], flush, since[a])
  BY DEF PaceInv, PaceSound
<1>2. bound' = bound /\ steady' = steady /\ since' = since
  BY DEF Poll, history
<1>3. /\ entry \in [Attributes -> Entries] /\ timer \in [Attributes -> Timers]
      /\ since[a] \in Nat /\ ChangeInv
  BY SinceNat DEF PaceInv, ChangeInv, CoreType
<1>4. CASE UNCHANGED core
  BY <1>1, <1>2, <1>4 DEF core, Live
<1>5. CASE reportAttrTimerStart(entry, timer)
  BY <1>1, <1>2, <1>3, <1>5, PaceLook
<1> QED BY <1>4, <1>5 DEF Poll

(* A command ends the steadiness of its attribute, not of the others.       *)
LEMMA PaceConfigure ==
  ASSUME PaceInv, NEW a \in Attributes, NEW c \in Configs, Configure(a, c)
  PROVE  PaceSound'
<1>0. ChangeInv /\ CoreType /\ HistoryType
  BY DEF PaceInv, ChangeInv
<1>1. /\ bound' = bound /\ Disturb({a}) /\ Accepted(a, c)
      /\ ~steady'[a]
      /\ \A b \in Attributes : b # a => steady'[b] = steady[b] /\ since'[b] = since[b]
  BY <1>0, DisturbFacts DEF Configure
<1>2. \A b \in Attributes :
        /\ Ran(timer[b]) >= 0
        /\ steady[b] => InPace(Live(b, entry[b]), entry[b], timer[b], flush, since[b])
  BY DEF PaceInv, PaceSound
<1>3. \A b \in Attributes : since[b] \in Nat
  BY <1>0, SinceNat
<1>4. CASE Reverts(c)
  <2> DEFINE n == [entry EXCEPT ![a] = Reset(@)]
             t == [timer EXCEPT ![a] = NoTimer]
  <2>1. entry[a].used /\ EntrySound(entry[a]) /\ entry[a] \in Entries
    BY <1>0, <1>1, <1>4, ConfigType, AcceptedFacts
       DEF ChangeInv, CoreType, EntriesSound
  <2>2. Reset(entry[a]) \in Entries
    BY <2>1, ResetSound
  <2>3. /\ n \in [Attributes -> Entries]
        /\ \A b \in Attributes : b # a => n[b] = entry[b]
    BY <1>0, <2>2 DEF CoreType
  <2>4. /\ t \in [Attributes -> Timers] /\ t[a] = NoTimer
        /\ \A b \in Attributes : b # a => t[b] = timer[b]
    BY <1>0, NoTimerType DEF CoreType
  <2>5. reportAttrTimerStart(n, t)
    BY <1>4 DEF Configure
  <2> HIDE DEF n, t
  <2>6. \A b \in Attributes : Ran(t[b]) >= 0
    <3>1. Ran(NoTimer) = 0
      BY StartRan, ZeroWord
    <3> QED BY <1>2, <2>4, <3>1
  <2>7. ASSUME NEW b \in Attributes
        PROVE  /\ Ran(timer'[b]) >= 0
               /\ steady'[b] => InPace(Live(b, entry[b])', entry'[b], timer'[b],
                                       flush', since'[b])
    <3>1. CASE b = a
      BY <3>1, <1>0, <1>1, <1>3, <2>3, <2>4, <2>5, <2>6, PaceLook
    <3>2. CASE b # a
      <4>1. Live(b, n[b]) <=> Live(b, entry[b])
        BY <3>2, <2>3
      <4>2. /\ Ran(timer'[b]) >= 0
            /\ InPace(Live(b, n[b]), n[b], t[b], flush, since[b]) =>
                 InPace(Live(b, entry[b])', entry'[b], timer'[b], flush', since[b])
        BY <1>0, <1>1, <1>3, <2>3, <2>4, <2>5, <2>6, PaceLook
      <4>3. steady[b] => InPace(Live(b, n[b]), n[b], t[b], flush, since[b])
        BY <3>2, <1>2, <2>3, <2>4
      <4> QED BY <3>2, <4>2, <4>3, <1>1
    <3> QED BY <3>1, <3>2
  <2> QED BY <2>7 DEF PaceSound, InPace, Live, Ran, Span
<1>5. CASE ~Reverts(c)
  <2>1. /\ timer' = timer /\ flush' = flush
        /\ \A b \in Attributes : b # a => entry'[b] = entry[b]
    BY <1>0, <1>5 DEF Configure, CoreType
  <2>2. ASSUME NEW b \in Attributes
        PROVE  /\ Ran(timer'[b]) >= 0
               /\ steady'[b] => InPace(Live(b, entry[b])', entry'[b], timer'[b],
                                       flush', since'[b])
    <3>1. CASE b = a
      BY <3>1, <1>1, <1>2, <2>1
    <3>2. CASE b # a
      <4>1. Live(b, entry[b])' <=> Live(b, entry[b])
        BY <3>2, <1>1, <2>1 DEF Live
      <4>2. /\ entry'[b] = entry[b] /\ timer'[b] = timer[b]
            /\ steady'[b] = steady[b] /\ since'[b] = since[b]
        BY <3>2, <1>1, <2>1
      <4> QED BY <4>1, <4>2, <1>2, <2>1 DEF InPace
    <3> QED BY <3>1, <3>2
  <2> QED BY <2>2 DEF PaceSound, InPace, Live, Ran, Span
<1> QED BY <1>4, <1>5

(* Bindings, the network and other work end the steadiness of S.            *)
LEMMA PaceDisturb ==
  ASSUME PaceInv, NEW S, Disturb(S), UNCHANGED core,
         \A a \in Attributes \ S : a \in bound' <=> a \in bound
  PROVE  PaceSound'
<1> SUFFICES ASSUME NEW a \in Attributes
             PROVE  /\ Ran(timer'[a]) >= 0
                    /\ steady'[a] => InPace(Live(a, entry[a])', entry'[a], timer'[a],
                                            flush', since'[a])
  BY DEF PaceSound, InPace, Live, Ran, Span
<1>1. HistoryType /\ entry' = entry /\ timer' = timer /\ flush' = flush
  BY DEF PaceInv, ChangeInv, core
<1>2. /\ a \notin S => steady'[a] = steady[a] /\ since'[a] = since[a]
      /\ a \in S => ~steady'[a]
  BY <1>1, DisturbFacts
<1>3. /\ Ran(timer[a]) >= 0
      /\ steady[a] => InPace(Live(a, entry[a]), entry[a], timer[a], flush, since[a])
  BY DEF PaceInv, PaceSound
<1>4. CASE a \in S
  BY <1>1, <1>2, <1>3, <1>4
<1>5. CASE a \notin S
  <2>1. Live(a, entry[a])' <=> Live(a, entry[a])
    BY <1>1, <1>5 DEF Live
  <2> QED BY <1>1, <1>2, <1>3, <1>5, <2>1 DEF InPace
<1> QED BY <1>4, <1>5

(* A tick counts for the history, for the timer and for the common timer.   *)
LEMMA PaceTick == PaceInv /\ Tick => PaceSound'
<1> SUFFICES ASSUME PaceInv, Tick, NEW a \in Attributes
             PROVE  /\ Ran(timer'[a]) >= 0
                    /\ steady'[a] => InPace(Live(a, entry[a])', entry'[a], timer'[a],
                                            flush', since'[a])
  BY DEF PaceSound, InPace, Live, Ran, Span
<1>1. /\ Ran(timer[a]) >= 0
      /\ steady[a] => InPace(Live(a, entry[a]), entry[a], timer[a], flush, since[a])
  BY DEF PaceInv, PaceSound
<1>2. /\ entry' = entry /\ bound' = bound /\ steady' = steady
      /\ flush # 0 /\ flush' = IF flush = Idle THEN Idle ELSE flush - 1
      /\ timer[a].kind # "none" => timer[a].left > 0
      /\ timer'[a] = IF timer[a].kind = "none" THEN timer[a]
                     ELSE [timer[a] EXCEPT !.left = @ - 1]
  BY DEF Tick
<1>3. since'[a] = CASE Outdated(a) -> 0
                    [] ~Outdated(a) /\ since[a] < Horizon -> since[a] + 1
                    [] OTHER -> since[a]
  BY DEF Tick
<1>4. /\ entry[a] \in Entries /\ timer[a] \in Timers
      /\ flush \in {Idle} \cup 0 .. FlushTicks
  BY DEF PaceInv, ChangeInv, CoreType
<1>5. FlushTicks \in Nat /\ Horizon \in Nat
  BY TicksAssumption
<1>6. since[a] \in Nat
  BY <1>5 DEF PaceInv, ChangeInv, HistoryType
<1>7. /\ timer[a].left \in Nat /\ Span(timer[a].secs) \in Nat /\ Ran(timer[a]) \in Int
  BY <1>4, TimerNats
<1>8. /\ timer'[a].kind = timer[a].kind /\ timer'[a].secs = timer[a].secs
      /\ timer'[a].left = timer[a].left \/ timer'[a].left = timer[a].left - 1
  BY <1>2, <1>4 DEF Timers
<1>9. Ran(timer'[a]) \in {Ran(timer[a]), Ran(timer[a]) + 1}
  BY <1>7, <1>8 DEF Ran
<1>10. Ran(timer'[a]) >= 0
  BY <1>1, <1>7, <1>9
<1>11. ASSUME steady[a]
       PROVE  InPace(Live(a, entry[a]), entry[a], timer'[a], flush', since'[a])
  <2>1. ~Outdated(a)
    BY <1>1, <1>11 DEF InPace, Outdated
  <2>2. since'[a] < Horizon => since'[a] = since[a] + 1 /\ since[a] < Horizon
    BY <1>3, <1>5, <1>6, <2>1
  <2>3. /\ Span(entry[a].min) \in Nat /\ Span(entry[a].max) \in Nat
        /\ Span(entry[a].minCnt) \in Nat /\ Span(entry[a].maxCnt) \in Nat
    BY <1>4, EntrySpans
  <2>4. ASSUME entry[a].min # 0, entry[a].max # 0
        PROVE  /\ since'[a] < Horizon =>
                    /\ Span(entry[a].min) + Ran(timer'[a])
                         <= Span(entry[a].minCnt) + since'[a] + FlushTicks
                    /\ Span(entry[a].max) + Ran(timer'[a])
                         <= Span(entry[a].maxCnt) + since'[a] + FlushTicks
               /\ entry[a].minCnt = 0 \/ entry[a].maxCnt = 0 =>
                    flush' # Idle /\ Ran(timer'[a]) + flush' <= FlushTicks
    <3>1. /\ since[a] < Horizon =>
               /\ Span(entry[a].min) + Ran(timer[a])
                    <= Span(entry[a].minCnt) + since[a] + FlushTicks
               /\ Span(entry[a].max) + Ran(timer[a])
                    <= Span(entry[a].maxCnt) + since[a] + FlushTicks
          /\ entry[a].minCnt = 0 \/ entry[a].maxCnt = 0 =>
               flush # Idle /\ Ran(timer[a]) + flush <= FlushTicks
      BY <1>1, <1>11, <2>4 DEF InPace
    <3>2. ASSUME since'[a] < Horizon
          PROVE  /\ Span(entry[a].min) + Ran(timer'[a])
                      <= Span(entry[a].minCnt) + since'[a] + FlushTicks
                 /\ Span(entry[a].max) + Ran(timer'[a])
                      <= Span(entry[a].maxCnt) + since'[a] + FlushTicks
      BY <1>5, <1>6, <1>7, <1>9, <2>2, <2>3, <3>1, <3>2
    <3>3. ASSUME entry[a].minCnt = 0 \/ entry[a].maxCnt = 0
          PROVE  flush' # Idle /\ Ran(timer'[a]) + flush' <= FlushTicks
      <4>1. flush # Idle /\ Ran(timer[a]) + flush <= FlushTicks
        BY <3>1, <3>3
      <4>2. flush \in Nat /\ flush' = flush - 1
        BY <1>2, <1>4, <1>5, <4>1
      <4> QED BY <4>1, <4>2, <1>2, <1>5, <1>7, <1>9 DEF Idle
    <3> QED BY <3>2, <3>3
  <2> QED BY <1>1, <1>8, <1>11, <2>4 DEF InPace
<1>12. Live(a, entry[a])' <=> Live(a, entry[a])
  BY <1>2 DEF Live
<1> QED BY <1>2, <1>10, <1>11, <1>12 DEF InPace

(* A timer that runs out hands its time over to the counters.               *)
LEMMA PaceTimerCb ==
  ASSUME PaceInv, NEW a \in Attributes, reportAttrTimerCb(a)
  PROVE  PaceSound'
<1>0. ChangeInv
  BY DEF PaceInv
<1>1. /\ timer[a].left = 0 /\ timer'[a] = NoTimer
      /\ entry'[a].used = entry[a].used /\ entry'[a].min = entry[a].min
      /\ entry'[a].max = entry[a].max
      /\ Live(a, entry[a]) =>
           /\ entry'[a].minCnt = Less(entry[a].minCnt, timer[a].secs)
           /\ entry'[a].maxCnt = Less(entry[a].maxCnt, timer[a].secs)
      /\ \A b \in Attributes : b # a => entry'[b] = entry[b] /\ timer'[b] = timer[b]
      /\ flush' # Idle /\ (flush # Idle => flush' = flush)
      /\ flush' \in 0 .. FlushTicks
  BY <1>0, TimerCbFacts
<1>2. bound' = bound /\ steady' = steady /\ since' = since
  BY DEF reportAttrTimerCb, world, history
<1>3. \A b \in Attributes :
        /\ Ran(timer[b]) >= 0
        /\ steady[b] => InPace(Live(b, entry[b]), entry[b], timer[b], flush, since[b])
  BY DEF PaceInv, PaceSound
<1>4. /\ Ran(NoTimer) = 0 /\ NoTimer.kind = "none"
  BY StartRan, ZeroWord DEF NoTimer, Timer
<1>5. /\ entry[a] \in Entries /\ timer[a] \in Timers /\ since[a] \in Nat
  BY <1>0, SinceNat DEF ChangeInv, CoreType
<1>6. ASSUME steady[a]
      PROVE  InPace(Live(a, entry[a]), entry'[a], timer'[a], flush', since[a])
  <2>1. Live(a, entry[a])
    BY <1>3, <1>6 DEF InPace
  <2>2. /\ entry[a].minCnt \in Nat /\ entry[a].maxCnt \in Nat /\ timer[a].secs \in Nat
        /\ Span(entry[a].min) \in Nat /\ Span(entry[a].max) \in Nat
        /\ Span(entry[a].minCnt) \in Nat /\ Span(entry[a].maxCnt) \in Nat
        /\ Span(timer[a].secs) \in Nat /\ FlushTicks \in Nat
    BY <1>5, EntryNats, EntrySpans, TimerNats, FlushNat
  <2>3. Ran(timer[a]) = Span(timer[a].secs)
    BY <1>1, <2>2 DEF Ran
  <2>4. ASSUME NEW cnt \in Nat
        PROVE  Span(cnt) <= Span(Less(cnt, timer[a].secs)) + Span(timer[a].secs)
    <3>1. CASE cnt >= timer[a].secs
      <4>1. Span(cnt - timer[a].secs) = Span(cnt) - Span(timer[a].secs)
        BY <2>2, <3>1, SpanFacts
      <4>2. Span(cnt) \in Nat
        BY SpanFacts
      <4> QED BY <2>2, <3>1, <4>1, <4>2 DEF Less
    <3>2. CASE ~(cnt >= timer[a].secs)
      <4>1. Span(cnt) <= Span(timer[a].secs) /\ Span(0) = 0 /\ Span(cnt) \in Nat
        BY <2>2, <3>2, SpanFacts
      <4> QED BY <2>2, <3>2, <4>1 DEF Less
    <3> QED BY <3>1, <3>2
  <2>5. ASSUME entry[a].min # 0, entry[a].max # 0, since[a] < Horizon
        PROVE  /\ Span(entry[a].min) <= Span(entry'[a].minCnt) + since[a] + FlushTicks
               /\ Span(entry[a].max) <= Span(entry'[a].maxCnt) + since[a] + FlushTicks
    <3>1. /\ Span(entry[a].min) + Span(timer[a].secs)
               <= Span(entry[a].minCnt) + since[a] + FlushTicks
          /\ Span(entry[a].max) + Span(timer[a].secs)
               <= Span(entry[a].maxCnt) + since[a] + FlushTicks
      BY <1>3, <1>6, <2>3, <2>5 DEF InPace
    <3>2. /\ Span(entry[a].minCnt) <= Span(entry'[a].minCnt) + Span(timer[a].secs)
          /\ Span(entry[a].maxCnt) <= Span(entry'[a].maxCnt) + Span(timer[a].secs)
      BY <1>1, <2>1, <2>2, <2>4
    <3>3. Span(entry'[a].minCnt) \in Nat /\ Span(entry'[a].maxCnt) \in Nat
      <4>1. entry'[a] \in Entries
        BY <1>0, TimerCbFacts
      <4> QED BY <4>1, EntrySpans
    <3> QED BY <1>5, <2>2, <3>1, <3>2, <3>3
  <2>6. flush' \in Nat /\ flush' <= FlushTicks
    BY <1>1, <2>2
  <2>7. Ran(timer'[a]) = 0
    BY <1>1, <1>4
  <2>10. \A x \in Nat : x + Ran(timer'[a]) = x
    BY <2>7
  <2>8. Ran(timer'[a]) + flush' <= FlushTicks
    <3>1. ASSUME NEW x \in Nat, NEW f \in Nat, x = 0, f <= FlushTicks
          PROVE  x + f <= FlushTicks
      BY ONLY <3>1, FlushNat
    <3>2. Ran(timer'[a]) \in Nat
      BY <2>7
    <3> QED BY <2>6, <2>7, <3>1, <3>2, Zenon
  <2>9. timer'[a].kind # "min"
    BY <1>1, <1>4
  <2> QED BY <1>1, <2>1, <2>2, <2>5, <2>10, <2>8, <2>9 DEF InPace
<1>7. ASSUME NEW b \in Attributes, b # a, steady[b]
      PROVE  InPace(Live(b, entry[b]), entry'[b], timer'[b], flush', since[b])
  BY <1>1, <1>3, <1>7 DEF InPace
<1>8. ASSUME NEW b \in Attributes
      PROVE  /\ Ran(timer'[b]) >= 0
             /\ Live(b, entry[b])' <=> Live(b, entry[b])
  <2>1. entry'[b].used = entry[b].used /\ entry'[b].max = entry[b].max
    BY <1>1
  <2>2. Ran(timer'[b]) >= 0
    BY <1>1, <1>3, <1>4
  <2> QED BY <2>1, <2>2, <1>2 DEF Live
<1>9. ASSUME NEW b \in Attributes
      PROVE  /\ Ran(timer'[b]) >= 0
             /\ steady'[b] => InPace(Live(b, entry[b])', entry'[b], timer'[b],
                                     flush', since'[b])
  BY <1>2, <1>6, <1>7, <1>8 DEF InPace
<1> QED BY <1>9 DEF PaceSound, InPace, Live, Ran, Span

(* A send starts both counters anew; the timer that runs by then started    *)
(* when the common timer did, or later.                                     *)
LEMMA PaceSend == PaceInv /\ reportAttrs => PaceSound'
<1> SUFFICES ASSUME PaceInv, reportAttrs, NEW a \in Attributes
             PROVE  /\ Ran(timer'[a]) >= 0
                    /\ steady'[a] => InPace(Live(a, entry[a])', entry'[a], timer'[a],
                                            flush', since'[a])
  BY DEF PaceSound, InPace, Live, Ran, Span
<1>0. ChangeInv
  BY DEF PaceInv
<1>1. /\ Ran(timer[a]) >= 0
      /\ steady[a] => InPace(Live(a, entry[a]), entry[a], timer[a], flush, since[a])
  BY DEF PaceInv, PaceSound
<1>2. /\ entry'[a].used = entry[a].used /\ entry'[a].min = entry[a].min
      /\ entry'[a].max = entry[a].max
      /\ timer'[a] = timer[a] /\ flush = 0 /\ flush' = Idle
      /\ Due(a) =>
           /\ since'[a] = 0
           /\ entry'[a].minCnt = Full(entry[a].min)
           /\ entry'[a].maxCnt = Full(entry[a].max)
           /\ steady'[a] => steady[a] \/ Recent(timer[a])
      /\ ~Due(a) =>
           entry'[a] = entry[a] /\ since'[a] = since[a] /\ (steady'[a] => steady[a])
  BY <1>0, SendFacts
<1>3. bound' = bound
  BY DEF reportAttrs, Send, world
<1>4. Live(a, entry[a])' <=> Live(a, entry[a])
  BY <1>2, <1>3 DEF Live
<1>5. /\ entry[a] \in Entries /\ timer[a] \in Timers
  BY <1>0 DEF ChangeInv, CoreType
<1>6. /\ Span(entry[a].min) \in Nat /\ Span(entry[a].max) \in Nat
      /\ Ran(timer[a]) \in Int /\ FlushTicks \in Nat
  BY <1>5, EntrySpans, TimerNats, FlushNat
<1>7. ASSUME Due(a), steady'[a]
      PROVE  InPace(Live(a, entry[a]), entry'[a], timer'[a], flush', since'[a])
  <2>1. Live(a, entry[a]) /\ (entry[a].minCnt = 0 \/ entry[a].maxCnt = 0)
    BY <1>7 DEF Due
  <2>2. timer[a].kind = "min" => timer[a].secs = entry[a].min
    BY <1>1, <1>2, <1>7 DEF InPace, Recent
  <2>3. ASSUME entry[a].min # 0, entry[a].max # 0
        PROVE  /\ Ran(timer[a]) <= FlushTicks
               /\ entry'[a].minCnt = entry[a].min /\ entry'[a].maxCnt = entry[a].max
    <3>1. CASE Recent(timer[a])
      BY <1>2, <1>7, <2>3, <3>1 DEF Recent, Ran, Span, Full
    <3>2. CASE steady[a]
      <4>1. Ran(timer[a]) + flush <= FlushTicks
        BY <1>1, <2>1, <2>3, <3>2 DEF InPace
      <4> QED BY <1>2, <1>6, <1>7, <2>3, <4>1 DEF Full
    <3> QED BY <1>2, <1>7, <3>1, <3>2
  <2>4. ASSUME entry[a].min # 0, entry[a].max # 0
        PROVE  /\ Span(entry[a].min) + Ran(timer[a])
                    <= Span(entry[a].min) + since'[a] + FlushTicks
               /\ Span(entry[a].max) + Ran(timer[a])
                    <= Span(entry[a].max) + since'[a] + FlushTicks
    BY <1>2, <1>6, <1>7, <2>3, <2>4
  <2> QED BY <1>2, <2>1, <2>2, <2>3, <2>4 DEF InPace
<1>8. ASSUME ~Due(a), steady'[a]
      PROVE  InPace(Live(a, entry[a]), entry'[a], timer'[a], flush', since'[a])
  <2>1. InPace(Live(a, entry[a]), entry[a], timer[a], flush, since[a])
    BY <1>1, <1>2, <1>8
  <2>2. entry[a].max # 0 => ~(entry[a].minCnt = 0 \/ entry[a].maxCnt = 0)
    BY <1>8, <2>1 DEF Due, InPace
  <2> QED BY <1>2, <1>8, <2>1, <2>2 DEF InPace
<1>9. steady'[a] => InPace(Live(a, entry[a])', entry'[a], timer'[a], flush', since'[a])
  BY <1>4, <1>7, <1>8 DEF InPace
<1> QED BY <1>1, <1>2, <1>9

(* Every step keeps the pace.                                               *)
LEMMA PaceNext == PaceInv /\ [Next]_vars => PaceInv'
<1> SUFFICES ASSUME PaceInv, [Next]_vars PROVE PaceInv'
  OBVIOUS
<1>0. ChangeInv'
  BY ChangeNext DEF PaceInv
<1> SUFFICES PaceSound'
  BY <1>0 DEF PaceInv
<1>1. CASE Restart
  BY <1>1, PaceRestart
<1>2. ASSUME NEW a \in Attributes, NEW c \in Configs, Configure(a, c)
      PROVE  PaceSound'
  BY <1>2, PaceConfigure
<1>3. ASSUME NEW a \in Attributes, NEW v \in Values, SetValue(a, v)
      PROVE  PaceSound'
  BY <1>3 DEF PaceInv, SetValue, PaceSound, InPace, Live, Ran, Span, core, history
<1>4. ASSUME NEW a \in Attributes, Bind(a) PROVE PaceSound'
  <2>1. Disturb({a}) /\ UNCHANGED core
    BY <1>4 DEF Bind
  <2>2. \A b \in Attributes \ {a} : b \in bound' <=> b \in bound
    BY <1>4 DEF Bind
  <2> QED BY <2>1, <2>2, PaceDisturb
<1>5. ASSUME NEW a \in Attributes, reportAttrTimerCb(a) PROVE PaceSound'
  BY <1>5, PaceTimerCb
<1>6. CASE Join
  BY <1>6, PaceDisturb DEF Join
<1>7. CASE Occupy
  BY <1>7, PaceDisturb DEF Occupy
<1>8. CASE Tick
  BY <1>8, PaceTick
<1>9. CASE Poll
  BY <1>9, PacePoll
<1>10. CASE reportAttrs
  BY <1>10, PaceSend
<1>11. CASE UNCHANGED vars
  BY <1>11 DEF vars, core, world, history, PaceInv, PaceSound, InPace, Live, Ran, Span
<1> QED BY <1>1, <1>2, <1>3, <1>4, <1>5, <1>6, <1>7, <1>8, <1>9, <1>10, <1>11 DEF Next

(* The history counts far enough for every minimum interval.                *)
LongHistory == None16 * SecTicks <= Horizon

(* The minimum interval is kept: with a maximum interval, two reports of an  *)
(* attribute that nothing disturbs in between are at least the minimum       *)
(* interval apart, less the run of the common timer (reportAttrTimerCb,      *)
(* reportAttrs), whatever the other attributes do to the common timer.      *)
THEOREM MinimumKeptHolds == LongHistory /\ Spec => MinimumKept
<1>1. ASSUME LongHistory, PaceInv, reportAttrs, NEW a \in Attributes,
             Due(a), steady[a], entry[a].max # 0
      PROVE  ~TooSoon(a)
  <2>1. /\ ChangeInv
        /\ Ran(timer[a]) >= 0
        /\ InPace(Live(a, entry[a]), entry[a], timer[a], flush, since[a])
    BY <1>1 DEF PaceInv, PaceSound
  <2>2. /\ entry[a] \in Entries /\ timer[a] \in Timers /\ since[a] \in 0 .. Horizon
        /\ EntrySound(entry[a])
    BY <2>1 DEF ChangeInv, CoreType, HistoryType, EntriesSound
  <2>3. /\ entry[a].min \in Nat /\ entry[a].max \in Nat
        /\ Span(entry[a].min) \in Nat /\ Span(entry[a].max) \in Nat
        /\ Span(0) = 0 /\ Ran(timer[a]) \in Int
    BY <2>2, EntryNats, EntrySpans, SpanFacts, TimerNats
  <2>4. FlushTicks \in Nat /\ Horizon \in Nat /\ None16 \in Nat
    BY TicksAssumption
  <2>5. since[a] \in Nat /\ since[a] <= Horizon
    BY <2>2, <2>4
  <2>6. Span(entry[a].min) <= since[a] + FlushTicks
    <3>1. CASE entry[a].min = 0
      BY <2>3, <2>4, <2>5, <3>1
    <3>2. CASE entry[a].min # 0 /\ since[a] < Horizon
      <4>1. /\ Span(entry[a].min) + Ran(timer[a])
                 <= Span(entry[a].minCnt) + since[a] + FlushTicks
            /\ Span(entry[a].max) + Ran(timer[a])
                 <= Span(entry[a].maxCnt) + since[a] + FlushTicks
        BY <1>1, <2>1, <3>2 DEF InPace
      <4>2. entry[a].minCnt = 0 \/ entry[a].maxCnt = 0
        BY <1>1 DEF Due
      <4>3. Span(entry[a].min) <= Span(entry[a].max)
        <5>1. entry[a].min <= entry[a].max
          BY <1>1, <2>2 DEF Due, Live, EntrySound, Ordered
        <5> QED BY <2>3, <5>1, SpanFacts
      <4>4. CASE entry[a].minCnt = 0
        BY <2>1, <2>3, <2>4, <2>5, <4>1, <4>4
      <4>5. CASE entry[a].maxCnt = 0
        BY <2>1, <2>3, <2>4, <2>5, <4>1, <4>3, <4>5
      <4> QED BY <4>2, <4>4, <4>5
    <3>3. CASE ~(since[a] < Horizon)
      <4>1. entry[a].min \in Word
        BY <2>2 DEF Entries
      <4>2. entry[a].min <= None16
        BY <2>4, <4>1 DEF Word
      <4>3. Span(entry[a].min) <= Span(None16) /\ Span(None16) \in Nat
        BY <2>3, <2>4, <4>2, SpanFacts
      <4>4. Span(None16) <= Horizon
        BY <1>1 DEF LongHistory, Span
      <4> QED BY <2>3, <2>4, <2>5, <3>3, <4>3, <4>4
    <3> QED BY <3>1, <3>2, <3>3
  <2> QED BY <2>3, <2>4, <2>5, <2>6 DEF TooSoon, Span
<1>2. LongHistory /\ PaceInv /\ [Next]_vars =>
        [reportAttrs => \A a \in Attributes :
           Due(a) /\ steady[a] /\ entry[a].max # 0 => ~TooSoon(a)]_vars
  BY <1>1
<1>3. PaceInv /\ [Next]_vars => PaceInv'
  BY PaceNext
<1>4. LongHistory => LongHistory'
  BY DEF LongHistory
<1> QED BY <1>2, <1>3, <1>4, PaceInit, PTL DEF Spec, MinimumKept

-----------------------------------------------------------------------------
(* The maximum interval *)

(* A look at an entry with both a report and a maximum interval moves it     *)
(* along its cycle.                                                          *)
LEMMA LookKeepsCycle ==
  ASSUME NEW a \in Attributes, NEW n \in Entries, NEW t \in Timers,
         NEW f \in {Idle} \cup 0 .. FlushTicks,
         NEW g \in {Idle} \cup 0 .. FlushTicks,
         NEW ticks \in Nat, NEW turned \in BOOLEAN,
         value[a] \in Values, Ran(t) >= 0,
         f # Idle => g = f,
         Live(a, n) /\ Changed(a, n) /\ AtOnce(n) => g # Idle,
         t.kind = "min" => t.secs # 0,
         t.kind = "min" /\ t.secs # n.min => ticks = 0
  PROVE  /\ NextTimer(a, n, t).kind = "min" => NextTimer(a, n, t).secs # 0
         /\ NextTimer(a, n, t).kind = "min" /\ NextTimer(a, n, t).secs # n.min
              => ticks = 0
         /\ Live(a, n) /\ n.max # 0 /\ InCycle(n, t, f, ticks, turned) =>
              InCycle(Noticed(a, n), NextTimer(a, n, t), g, ticks, TRUE)
<1> DEFINE m == Noticed(a, n)
           u == NextTimer(a, n, t)
<1> SUFFICES /\ u.kind = "min" => u.secs # 0
             /\ u.kind = "min" /\ u.secs # n.min => ticks = 0
             /\ Live(a, n) /\ n.max # 0 /\ InCycle(n, t, f, ticks, turned) =>
                  InCycle(m, u, g, ticks, TRUE)
  OBVIOUS
<1>0. u = NextTimer(a, n, t)
  OBVIOUS
<1>1. /\ m.min = n.min /\ m.max = n.max /\ m.maxCnt = n.maxCnt
      /\ m.minCnt = IF Live(a, n) /\ Changed(a, n) /\ AtOnce(n)
                    THEN 0 ELSE n.minCnt
  BY NoticedFacts
<1>2. /\ Span(n.min) \in Nat /\ Span(n.max) \in Nat /\ FlushTicks \in Nat
      /\ t.left \in Nat /\ Span(t.secs) \in Nat
  BY EntrySpans, TimerNats, FlushNat
<1>3. t.left <= Span(t.secs)
  BY <1>2 DEF Ran
<1>4. /\ NoTimer.kind = "none" /\ Timer("max", n.max).kind = "max"
      /\ Timer("max", n.max).secs = n.max /\ Timer("max", n.max).left = Span(n.max)
      /\ Timer("min", n.min).kind = "min" /\ Timer("min", n.min).secs = n.min
      /\ Timer("min", n.min).left = Span(n.min)
  BY DEF NoTimer, Timer, Span
<1> HIDE DEF m, u
<1>5. CASE ~Live(a, n)
  BY <1>4, <1>5, <1>0, NextTimerFacts
<1>6. CASE Live(a, n) /\ Changed(a, n) /\ AtOnce(n)
  <2>1. u = NoTimer
    BY <1>6, <1>0, NextTimerFacts
  <2>2. ASSUME InCycle(n, t, f, ticks, turned)
        PROVE  InCycle(m, u, g, ticks, TRUE)
    <3>1. m.minCnt = 0 /\ g # Idle
      BY <1>1, <1>6
    <3>2. g \in Nat /\ g <= FlushTicks
      BY <1>2, <3>1
    <3>3. CASE Leaves(n, f, ticks)
      <4>1. g = f
        BY <3>3 DEF Leaves
      <4> QED BY <1>1, <3>1, <3>3, <4>1 DEF Leaves, InCycle
    <3>4. CASE Begun(ticks, turned) \/ WaitsForMax(n, t, ticks) \/ WaitsForMin(n, t, ticks)
      <4>1. ticks <= Span(n.min) + Span(n.max) + 1
        BY <1>2, <3>4 DEF Begun, WaitsForMax, WaitsForMin
      <4>2. ticks + g <= Span(n.min) + Span(n.max) + FlushTicks + 1
        BY <1>2, <3>2, <4>1
      <4> QED BY <1>1, <3>1, <4>2 DEF Leaves, InCycle
    <3> QED BY <2>2, <3>3, <3>4 DEF InCycle
  <2> QED BY <1>4, <2>1, <2>2
<1>7. CASE Live(a, n) /\ ~(Changed(a, n) /\ AtOnce(n))
  <2>1. CASE t.kind = "min" /\ u = t
    <3>1. ASSUME InCycle(n, t, f, ticks, turned)
          PROVE  InCycle(m, u, g, ticks, TRUE)
      <4>1. CASE Leaves(n, f, ticks)
        BY <1>1, <1>7, <4>1 DEF Leaves, InCycle
      <4>2. CASE t.secs # n.min
        BY <2>1, <4>2 DEF Begun, InCycle
      <4>3. CASE t.secs = n.min /\ ~Leaves(n, f, ticks)
        <5>1. Begun(ticks, turned) \/ WaitsForMin(n, t, ticks)
          BY <2>1, <3>1, <4>3 DEF InCycle, WaitsForMax
        <5>2. ticks + t.left <= Span(n.min) + Span(n.max) + 1
          BY <1>2, <1>3, <4>3, <5>1 DEF Begun, WaitsForMin
        <5> QED BY <1>1, <2>1, <4>3, <5>2 DEF WaitsForMin, InCycle
      <4> QED BY <4>1, <4>2, <4>3
    <3> QED BY <2>1, <3>1
  <2>2. CASE Changed(a, n) /\ t.kind # "min"
    <3>1. ~AtOnce(n) /\ u = Timer("min", n.min)
      BY <1>7, <2>2, <1>0, NextTimerFacts
    <3>2. n.min # 0
      BY <3>1 DEF AtOnce
    <3>3. ASSUME InCycle(n, t, f, ticks, turned)
          PROVE  InCycle(m, u, g, ticks, TRUE)
      <4>1. CASE Leaves(n, f, ticks)
        BY <1>1, <1>7, <4>1 DEF Leaves, InCycle
      <4>2. CASE ~Leaves(n, f, ticks)
        <5>1. Begun(ticks, turned) \/ WaitsForMax(n, t, ticks)
          BY <2>2, <3>3, <4>2 DEF InCycle, WaitsForMin
        <5>2. ticks <= Span(n.max) + 1
          BY <1>2, <5>1 DEF Begun, WaitsForMax
        <5>3. ticks + u.left <= Span(n.min) + Span(n.max) + 1
          BY <1>2, <1>4, <3>1, <5>2
        <5> QED BY <1>1, <1>4, <3>1, <5>3 DEF WaitsForMin, InCycle
      <4> QED BY <4>1, <4>2
    <3> QED BY <1>4, <3>1, <3>2, <3>3
  <2>3. CASE ~Changed(a, n) /\ t.kind # "min"
    <3>1. /\ u.kind # "min"
          /\ n.max # 0 => /\ u.kind = "max" /\ u.secs = n.max
                          /\ u = t \/ u.left = Span(n.max)
                          /\ u # t => ~(t.kind = "max" /\ t.secs = n.max)
      <4>1. t.kind \in {"none", "min", "max"}
        BY DEF Timers
      <4> QED BY <1>4, <1>7, <2>3, <4>1, <1>0, NextTimerFacts
    <3>2. ASSUME InCycle(n, t, f, ticks, turned), n.max # 0
          PROVE  InCycle(m, u, g, ticks, TRUE)
      <4>1. CASE Leaves(n, f, ticks)
        BY <1>1, <1>7, <4>1 DEF Leaves, InCycle
      <4>2. CASE ~Leaves(n, f, ticks)
        <5>1. Begun(ticks, turned) \/ WaitsForMax(n, t, ticks)
          BY <2>3, <3>2, <4>2 DEF InCycle, WaitsForMin
        <5>2. ticks + u.left <= Span(n.max) + 1
          <6>1. CASE WaitsForMax(n, t, ticks)
            BY <3>1, <3>2, <6>1 DEF WaitsForMax
          <6>2. CASE Begun(ticks, turned)
            <7>1. u.left <= Span(n.max) /\ u.left \in Nat
              BY <1>2, <1>3, <3>1, <3>2
            <7>2. ticks <= 1
              BY <6>2 DEF Begun
            <7> QED BY <1>2, <7>1, <7>2
          <6> QED BY <5>1, <6>1, <6>2
        <5> QED BY <1>1, <3>1, <3>2, <5>2 DEF WaitsForMax, InCycle
      <4> QED BY <4>1, <4>2
    <3> QED BY <3>1, <3>2
  <2>4. CASE t.kind = "min" /\ u # t
    <3>1. u.kind # "min" /\ (Changed(a, n) \/ n.max = 0)
      BY <1>4, <1>7, <2>4, <1>0, NextTimerFacts
    <3>2. ~Changed(a, n)
      BY <1>7, <2>4, <1>0, NextTimerFacts
    <3> QED BY <3>1, <3>2
  <2> QED BY <2>1, <2>2, <2>3, <2>4
<1> QED BY <1>5, <1>6, <1>7

(* One attribute's part of the invariant, in the next state.                *)
CycleOf(a) ==
  /\ timer[a].kind = "min" => timer[a].secs # 0
  /\ Outdated(a) => since[a] = 0
  /\ Reports(a) => InCycle(entry[a], timer[a], flush, since[a], polled)

(* An attribute just disturbed or reported is at the start of its cycle.    *)
LEMMA CycleBegins ==
  ASSUME NEW n, NEW t, NEW f, NEW ticks, NEW turned \in BOOLEAN, ticks = 0
  PROVE  InCycle(n, t, f, ticks, turned)
BY DEF InCycle, Begun

(* Whether an attribute has reports does not depend on what was noticed.    *)
LEMMA ReportsKept ==
  ASSUME NEW a, bound' = bound, joined' = joined, busy' = busy,
         entry'[a].used = entry[a].used, entry'[a].max = entry[a].max
  PROVE  Reports(a)' <=> Reports(a)
BY DEF Reports, Live

(* The facts about one attribute that the steps start from.                 *)
LEMMA CycleFacts ==
  ASSUME CycleInv, NEW a \in Attributes
  PROVE  /\ ChangeInv /\ CycleOf(a) /\ Ran(timer[a]) >= 0
         /\ entry[a] \in Entries /\ timer[a] \in Timers /\ EntrySound(entry[a])
         /\ entry \in [Attributes -> Entries] /\ timer \in [Attributes -> Timers]
         /\ value[a] \in Values /\ since[a] \in Nat /\ polled \in BOOLEAN
         /\ flush \in {Idle} \cup 0 .. FlushTicks
<1>1. ChangeInv /\ CycleOf(a) /\ Ran(timer[a]) >= 0
  BY DEF CycleInv, PaceInv, PaceSound, CycleSound, CycleOf
<1>2. since[a] \in Nat
  BY <1>1, SinceNat DEF ChangeInv
<1> QED BY <1>1, <1>2 DEF ChangeInv, CoreType, WorldType, EntriesSound

(* At the start every attribute is at the start of its cycle.               *)
LEMMA CycleInit == Init => CycleSound
<1> SUFFICES ASSUME Init, NEW a \in Attributes PROVE CycleOf(a)
  BY DEF CycleSound, CycleOf
<1>1. timer[a].kind = "none" /\ since[a] = 0 /\ polled = FALSE
  BY DEF Init, NoTimer, Timer
<1> QED BY <1>1, CycleBegins DEF CycleOf, Outdated

(* Likewise after a restart.                                                *)
LEMMA CycleRestart ==
  ASSUME Restart, NEW a \in Attributes PROVE CycleOf(a)'
<1>1. timer'[a].kind = "none" /\ since'[a] = 0 /\ polled' = FALSE
  BY DEF Restart, NoTimer, Timer
<1>2. InCycle(entry'[a], timer'[a], flush', since'[a], polled')
  BY <1>1, CycleBegins
<1> QED BY <1>1, <1>2
  DEF CycleOf, Outdated, InCycle, Begun, WaitsForMax, WaitsForMin, Leaves, Span

(* A look at the table n, t, which leaves the attribute b to itself.        *)
LEMMA CycleLook ==
  ASSUME CycleInv, NEW n \in [Attributes -> Entries], NEW t \in [Attributes -> Timers],
         reportAttrTimerStart(n, t), NEW b \in Attributes,
         n[b] = entry[b], t[b] = timer[b],
         UNCHANGED <<bound, joined, busy>>, since'[b] = since[b],
         polled' \in {polled, TRUE}
  PROVE  CycleOf(b)'
<1>1. /\ ChangeInv /\ CycleOf(b) /\ Ran(timer[b]) >= 0
      /\ entry[b] \in Entries /\ timer[b] \in Timers
      /\ value[b] \in Values /\ since[b] \in Nat /\ polled \in BOOLEAN
      /\ flush \in {Idle} \cup 0 .. FlushTicks
  BY CycleFacts
<1>2. value \in [Attributes -> Values]
  BY <1>1 DEF ChangeInv, WorldType
<1>3. /\ entry'[b] = Noticed(b, entry[b])
      /\ timer'[b] = NextTimer(b, entry[b], timer[b])
      /\ flush # Idle => flush' = flush
      /\ flush' \in {Idle} \cup 0 .. FlushTicks
      /\ Live(b, entry[b]) /\ Changed(b, entry[b]) /\ AtOnce(entry[b]) => flush' # Idle
  BY <1>1, <1>2, LookFacts
<1>4. entry'[b].used = entry[b].used /\ entry'[b].max = entry[b].max
      /\ entry'[b].min = entry[b].min
  BY <1>1, <1>3, NoticedFacts
<1>5. Reports(b)' <=> Reports(b)
  BY <1>4, ReportsKept
<1>6. /\ timer[b].kind = "min" => timer[b].secs # 0
      /\ timer[b].kind = "min" /\ timer[b].secs # entry[b].min => since[b] = 0
      /\ Reports(b) => InCycle(entry[b], timer[b], flush, since[b], polled)
  BY <1>1 DEF CycleOf, Outdated
<1>7. /\ timer'[b].kind = "min" => timer'[b].secs # 0
      /\ timer'[b].kind = "min" /\ timer'[b].secs # entry[b].min => since[b] = 0
      /\ Live(b, entry[b]) /\ entry[b].max # 0
           /\ InCycle(entry[b], timer[b], flush, since[b], polled) =>
           InCycle(entry'[b], timer'[b], flush', since[b], TRUE)
  <2> DEFINE u == NextTimer(b, entry[b], timer[b])
  <2>1. /\ u.kind = "min" => u.secs # 0
        /\ u.kind = "min" /\ u.secs # entry[b].min => since[b] = 0
        /\ Live(b, entry[b]) /\ entry[b].max # 0
             /\ InCycle(entry[b], timer[b], flush, since[b], polled) =>
             InCycle(Noticed(b, entry[b]), u, flush', since[b], TRUE)
    <3>1. /\ entry[b] \in Entries /\ timer[b] \in Timers /\ since[b] \in Nat
          /\ polled \in BOOLEAN /\ value[b] \in Values /\ Ran(timer[b]) >= 0
          /\ flush \in {Idle} \cup 0 .. FlushTicks
      BY <1>1
    <3>2. /\ flush' \in {Idle} \cup 0 .. FlushTicks
          /\ flush # Idle => flush' = flush
          /\ Live(b, entry[b]) /\ Changed(b, entry[b]) /\ AtOnce(entry[b])
               => flush' # Idle
      BY <1>3
    <3>3. /\ timer[b].kind = "min" => timer[b].secs # 0
          /\ timer[b].kind = "min" /\ timer[b].secs # entry[b].min => since[b] = 0
      BY <1>6
    <3>4. /\ u.kind = "min" => u.secs # 0
          /\ u.kind = "min" /\ u.secs # entry[b].min => since[b] = 0
      BY <3>1, <3>2, <3>3, LookKeepsCycle DEF Idle
    <3>5. ASSUME Live(b, entry[b]), entry[b].max # 0,
                 InCycle(entry[b], timer[b], flush, since[b], polled)
          PROVE  InCycle(Noticed(b, entry[b]), u, flush', since[b], TRUE)
      BY <3>1, <3>2, <3>3, <3>5, LookKeepsCycle, ZenonT(60)
    <3> QED BY <3>4, <3>5
  <2> QED BY <1>3, <2>1
<1>8. Reports(b) => InCycle(entry'[b], timer'[b], flush', since[b], TRUE)
  BY <1>6, <1>7 DEF Reports
<1>9. Reports(b) => InCycle(entry'[b], timer'[b], flush', since'[b], polled')
  <2>1. Begun(since[b], TRUE) => Begun(since[b], polled')
    BY <1>1 DEF Begun
  <2> QED BY <1>8, <2>1 DEF InCycle
<1> QED BY <1>4, <1>5, <1>7, <1>9
  DEF CycleOf, Outdated, InCycle, Begun, WaitsForMax, WaitsForMin, Leaves, Span

(* A turn of the main loop, which looks at the table unless it is kept busy.  *)
LEMMA CyclePoll ==
  ASSUME CycleInv, Poll, NEW a \in Attributes PROVE CycleOf(a)'
<1>1. /\ polled' = TRUE /\ since' = since
      /\ UNCHANGED <<bound, joined, busy>>
  BY DEF Poll, history
<1>2. CycleOf(a) /\ entry \in [Attributes -> Entries] /\ timer \in [Attributes -> Timers]
  BY CycleFacts
<1>3. CASE joined /\ ~busy
  <2>1. reportAttrTimerStart(entry, timer)
    BY <1>3 DEF Poll
  <2> QED BY <1>1, <1>2, <2>1, CycleLook
<1>4. CASE ~(joined /\ ~busy)
  <2>1. UNCHANGED core /\ ~Reports(a)
    BY <1>4 DEF Poll, Reports
  <2> QED BY <1>1, <1>2, <2>1 DEF CycleOf, Outdated, Reports, Live, core
<1> QED BY <1>3, <1>4

(* A disturbed attribute begins its cycle anew.                             *)
LEMMA CycleDisturbed ==
  ASSUME NEW a \in Attributes, since'[a] = 0, polled' \in BOOLEAN,
         timer'[a].kind = "min" => timer'[a].secs # 0
  PROVE  CycleOf(a)'
<1>1. InCycle(entry'[a], timer'[a], flush', since'[a], polled')
  BY CycleBegins
<1> QED BY <1>1
  DEF CycleOf, Outdated, InCycle, Begun, WaitsForMax, WaitsForMin, Leaves, Span

(* A Configure Reporting record disturbs its own attribute only.            *)
LEMMA CycleConfigure ==
  ASSUME CycleInv, NEW a \in Attributes, NEW c \in Configs, Configure(a, c),
         NEW b \in Attributes
  PROVE  CycleOf(b)'
<1>1. /\ ChangeInv /\ CycleOf(b) /\ Ran(timer[b]) >= 0
      /\ entry[b] \in Entries /\ timer[b] \in Timers
      /\ entry \in [Attributes -> Entries] /\ timer \in [Attributes -> Timers]
      /\ value[b] \in Values /\ since[b] \in Nat /\ polled \in BOOLEAN
      /\ flush \in {Idle} \cup 0 .. FlushTicks
  BY CycleFacts
<1>2. /\ Disturb({a}) /\ UNCHANGED <<value, bound, joined, busy, polled>>
      /\ Accepted(a, c)
  BY DEF Configure
<1>3. /\ b = a => since'[b] = 0
      /\ b # a => since'[b] = since[b]
  BY <1>1, <1>2, DisturbFacts DEF ChangeInv
<1>4. CASE Reverts(c)
  <2> DEFINE n == [entry EXCEPT ![a] = Reset(@)]
             t == [timer EXCEPT ![a] = NoTimer]
  <2>1. entry[a].used /\ EntrySound(entry[a]) /\ entry[a] \in Entries
    BY <1>1, <1>2, <1>4, ConfigType, AcceptedFacts
       DEF ChangeInv, CoreType, EntriesSound
  <2>2. Reset(entry[a]) \in Entries
    BY <2>1, ResetSound
  <2>3. /\ n \in [Attributes -> Entries]
        /\ b # a => n[b] = entry[b]
    BY <1>1, <2>2
  <2>4. /\ t \in [Attributes -> Timers] /\ t[a] = NoTimer
        /\ b # a => t[b] = timer[b]
    BY <1>1, NoTimerType
  <2>5. reportAttrTimerStart(n, t)
    BY <1>4 DEF Configure
  <2> HIDE DEF n, t
  <2>6. CASE b # a
    BY <1>2, <1>3, <2>3, <2>4, <2>5, <2>6, CycleLook
  <2>7. CASE b = a
    <3>1. timer'[a] = NextTimer(a, n[a], t[a])
      BY <1>1, <2>3, <2>4, <2>5, LookFacts DEF ChangeInv, WorldType
    <3>2. timer'[a].kind = "min" => timer'[a].secs # 0
      <4>1. n[a] \in Entries /\ t[a] \in Timers /\ t[a].kind = "none"
        BY <2>3, <2>4 DEF NoTimer, Timer
      <4>2. /\ NoTimer.kind = "none" /\ Timer("max", n[a].max).kind = "max"
            /\ Timer("min", n[a].min).secs = n[a].min
        BY DEF NoTimer, Timer
      <4>3. CASE ~Live(a, n[a]) \/ ~Changed(a, n[a])
        BY <3>1, <4>1, <4>2, <4>3, NextTimerFacts
      <4>4. CASE Live(a, n[a]) /\ Changed(a, n[a]) /\ AtOnce(n[a])
        BY <3>1, <4>1, <4>2, <4>4, NextTimerFacts
      <4>5. CASE Live(a, n[a]) /\ Changed(a, n[a]) /\ ~AtOnce(n[a])
        <5>1. n[a].min # 0
          BY <4>5 DEF AtOnce
        <5> QED BY <3>1, <4>1, <4>2, <4>5, <5>1, NextTimerFacts
      <4> QED BY <4>3, <4>4, <4>5
    <3> QED BY <1>1, <1>2, <1>3, <2>7, <3>2, CycleDisturbed
  <2> QED BY <2>6, <2>7
<1>5. CASE ~Reverts(c)
  <2>1. /\ timer' = timer /\ flush' = flush
        /\ b # a => entry'[b] = entry[b]
    BY <1>1, <1>5 DEF Configure
  <2>2. CASE b = a
    BY <1>1, <1>2, <1>3, <2>1, <2>2, CycleDisturbed DEF CycleOf
  <2>3. CASE b # a
    <3>1. Reports(b)' <=> Reports(b)
      BY <1>2, <2>1, <2>3 DEF Reports, Live
    <3> QED BY <1>1, <1>2, <1>3, <2>1, <2>3, <3>1
      DEF CycleOf, Outdated, InCycle, Begun, WaitsForMax, WaitsForMin, Leaves, Span
  <2> QED BY <2>2, <2>3
<1> QED BY <1>4, <1>5

(* Bindings, the network and other work.                                    *)
LEMMA CycleDisturb ==
  ASSUME CycleInv, NEW S, Disturb(S), UNCHANGED <<core, polled>>,
         \A a \in Attributes \ S :
           (a \in bound' <=> a \in bound) /\ joined' = joined /\ busy' = busy,
         NEW a \in Attributes
  PROVE  CycleOf(a)'
<1>1. CycleOf(a) /\ ChangeInv /\ polled \in BOOLEAN
  BY CycleFacts
<1>2. entry' = entry /\ timer' = timer /\ flush' = flush /\ polled' = polled
  BY DEF core
<1>3. /\ a \notin S => since'[a] = since[a]
      /\ a \in S => since'[a] = 0
  BY <1>1, DisturbFacts DEF ChangeInv
<1>4. CASE a \in S
  BY <1>1, <1>2, <1>3, <1>4, CycleDisturbed DEF CycleOf
<1>5. CASE a \notin S
  <2>1. Reports(a)' <=> Reports(a)
    BY <1>2, <1>5 DEF Reports, Live
  <2> QED BY <1>1, <1>2, <1>3, <1>5, <2>1
    DEF CycleOf, Outdated, InCycle, Begun, WaitsForMax, WaitsForMin, Leaves, Span
<1> QED BY <1>4, <1>5

(* A tick: whoever has just begun may wait one tick for the main loop, and   *)
(* whoever waits has a tick less to wait.                                    *)
LEMMA CycleTick ==
  ASSUME CycleInv, Tick, NEW a \in Attributes PROVE CycleOf(a)'
<1>1. /\ CycleOf(a) /\ entry[a] \in Entries /\ timer[a] \in Timers
      /\ since[a] \in Nat /\ flush \in {Idle} \cup 0 .. FlushTicks
  BY CycleFacts
<1>2. /\ entry' = entry /\ UNCHANGED <<bound, joined, busy>>
      /\ polled /\ polled' = FALSE
      /\ flush # 0 /\ flush' = IF flush = Idle THEN Idle ELSE flush - 1
      /\ timer[a].kind # "none" => timer[a].left > 0
      /\ timer'[a] = IF timer[a].kind = "none" THEN timer[a]
                     ELSE [timer[a] EXCEPT !.left = @ - 1]
  BY DEF Tick
<1>3. since'[a] = CASE Outdated(a) -> 0
                    [] ~Outdated(a) /\ since[a] < Horizon -> since[a] + 1
                    [] OTHER -> since[a]
  BY DEF Tick
<1>4. /\ Outdated(a) => since'[a] = 0
      /\ ~Outdated(a) => since'[a] \in {since[a], since[a] + 1}
  BY <1>3
<1>5. /\ timer[a].left \in Nat
      /\ Span(entry[a].min) \in Nat /\ Span(entry[a].max) \in Nat /\ FlushTicks \in Nat
  BY <1>1, EntrySpans, TimerNats, FlushNat
<1>6. /\ timer'[a].kind = timer[a].kind /\ timer'[a].secs = timer[a].secs
      /\ timer[a].kind # "none" => timer'[a].left = timer[a].left - 1
  BY <1>1, <1>2 DEF Timers
<1>7. ASSUME Reports(a)
      PROVE  InCycle(entry[a], timer'[a], flush', since'[a], polled')
  <2>1. CASE Outdated(a)
    BY <1>4, <2>1, <1>2, CycleBegins
  <2>2. CASE ~Outdated(a)
    <3>1. since'[a] \in Nat /\ since'[a] <= since[a] + 1
      BY <1>1, <1>4, <2>2
    <3>2. CASE Begun(since[a], polled)
      <4>1. since[a] = 0
        BY <1>1, <1>2, <3>2 DEF Begun
      <4> QED BY <1>2, <3>1, <4>1 DEF Begun, InCycle
    <3>3. CASE WaitsForMax(entry[a], timer[a], since[a])
      <4>1. /\ timer[a].kind = "max" /\ timer[a].secs = entry[a].max
            /\ since[a] + timer[a].left <= Span(entry[a].max) + 1
        BY <3>3 DEF WaitsForMax
      <4>2. since'[a] + timer'[a].left <= Span(entry[a].max) + 1
        BY <1>1, <1>5, <1>6, <3>1, <4>1
      <4> QED BY <1>6, <4>1, <4>2 DEF WaitsForMax, InCycle
    <3>4. CASE WaitsForMin(entry[a], timer[a], since[a])
      <4>1. /\ timer[a].kind = "min" /\ timer[a].secs = entry[a].min
            /\ since[a] + timer[a].left <= Span(entry[a].min) + Span(entry[a].max) + 1
        BY <3>4 DEF WaitsForMin
      <4>2. since'[a] + timer'[a].left <= Span(entry[a].min) + Span(entry[a].max) + 1
        BY <1>1, <1>5, <1>6, <3>1, <4>1
      <4> QED BY <1>6, <4>1, <4>2 DEF WaitsForMin, InCycle
    <3>5. CASE Leaves(entry[a], flush, since[a])
      <4>1. /\ entry[a].minCnt = 0 \/ entry[a].maxCnt = 0
            /\ flush # Idle
            /\ since[a] + flush
                 <= Span(entry[a].min) + Span(entry[a].max) + FlushTicks + 1
        BY <3>5 DEF Leaves
      <4>2. flush \in Nat /\ flush' = flush - 1 /\ flush' \in Nat
        BY <1>1, <1>2, <1>5, <4>1
      <4>3. since'[a] + flush'
              <= Span(entry[a].min) + Span(entry[a].max) + FlushTicks + 1
        BY <1>1, <1>5, <3>1, <4>1, <4>2
      <4>4. flush' # Idle
        BY <4>2 DEF Idle
      <4> QED BY <4>1, <4>3, <4>4 DEF Leaves, InCycle
    <3>6. InCycle(entry[a], timer[a], flush, since[a], polled)
      BY <1>1, <1>7 DEF CycleOf
    <3> QED BY <3>2, <3>3, <3>4, <3>5, <3>6 DEF InCycle
  <2> QED BY <2>1, <2>2
<1>8. Reports(a)' <=> Reports(a)
  BY <1>2, ReportsKept
<1>9. /\ timer'[a].kind = "min" => timer'[a].secs # 0
      /\ timer'[a].kind = "min" /\ timer'[a].secs # entry'[a].min => since'[a] = 0
  BY <1>1, <1>2, <1>4, <1>6 DEF CycleOf, Outdated
<1> QED BY <1>2, <1>7, <1>8, <1>9
  DEF CycleOf, Outdated, InCycle, Begun, WaitsForMax, WaitsForMin, Leaves, Span

(* A timer runs out: its own counter is used up, and the entry is due.       *)
LEMMA CycleTimerCb ==
  ASSUME CycleInv, NEW a \in Attributes, reportAttrTimerCb(a), NEW b \in Attributes
  PROVE  CycleOf(b)'
<1>1. /\ ChangeInv /\ CycleOf(b) /\ entry[b] \in Entries /\ timer[b] \in Timers
      /\ EntrySound(entry[b])
      /\ since[b] \in Nat /\ flush \in {Idle} \cup 0 .. FlushTicks
  BY CycleFacts
<1>2. UNCHANGED <<bound, joined, busy, polled, since>>
  BY DEF reportAttrTimerCb, world, history
<1>3. /\ timer[a].kind # "none" /\ timer[a].left = 0
      /\ \A c \in Attributes : c # a => entry'[c] = entry[c] /\ timer'[c] = timer[c]
      /\ timer'[a] = NoTimer
      /\ entry'[a].used = entry[a].used /\ entry'[a].min = entry[a].min
      /\ entry'[a].max = entry[a].max
      /\ Live(a, entry[a]) =>
           /\ entry'[a].minCnt = Less(entry[a].minCnt, timer[a].secs)
           /\ entry'[a].maxCnt = Less(entry[a].maxCnt, timer[a].secs)
      /\ flush' # Idle /\ (flush # Idle => flush' = flush)
      /\ flush' \in 0 .. FlushTicks
  BY <1>1, TimerCbFacts
<1>4. /\ entry'[b].used = entry[b].used /\ entry'[b].min = entry[b].min
      /\ entry'[b].max = entry[b].max
  BY <1>3
<1>5. Reports(b)' <=> Reports(b)
  BY <1>2, <1>4, ReportsKept
<1>6. NoTimer.kind = "none"
  BY DEF NoTimer, Timer
<1>7. /\ timer'[b].kind = "min" => timer'[b].secs # 0
      /\ timer'[b].kind = "min" /\ timer'[b].secs # entry'[b].min => since'[b] = 0
  BY <1>1, <1>2, <1>3, <1>4, <1>6 DEF CycleOf, Outdated
<1>8. ASSUME Reports(b), b # a
      PROVE  InCycle(entry'[b], timer'[b], flush', since'[b], polled')
  <2>1. InCycle(entry[b], timer[b], flush, since[b], polled)
    BY <1>1, <1>8 DEF CycleOf
  <2>2. entry'[b] = entry[b] /\ timer'[b] = timer[b]
    BY <1>3, <1>8
  <2>3. Leaves(entry[b], flush, since[b]) => Leaves(entry[b], flush', since[b])
    BY <1>3 DEF Leaves
  <2> QED BY <1>2, <2>1, <2>2, <2>3 DEF InCycle
<1>9. ASSUME Reports(b), b = a
      PROVE  InCycle(entry'[b], timer'[b], flush', since'[b], polled')
  <2> DEFINE top == Span(entry[a].min) + Span(entry[a].max) + 1
  <2>1. InCycle(entry[a], timer[a], flush, since[a], polled) /\ Live(a, entry[a])
        /\ entry[a].max # 0
    BY <1>1, <1>9 DEF CycleOf, Reports
  <2>2. /\ Span(entry[a].min) \in Nat /\ Span(entry[a].max) \in Nat
        /\ FlushTicks \in Nat /\ timer[a].secs \in Nat
        /\ entry[a].minCnt \in Nat /\ entry[a].maxCnt \in Nat
    BY <1>1, <1>9, EntrySpans, EntryNats, TimerNats, FlushNat
  <2>3. /\ entry[a].minCnt \in Word /\ entry[a].maxCnt \in Word
        /\ timer[a].secs \in Word /\ EntrySound(entry[a]) /\ since[a] \in Nat
    BY <1>1, <1>9 DEF Entries, Timers
  <2>4. flush' \in Nat /\ flush' <= FlushTicks
    BY <1>3, <2>2
  <2>5. ASSUME since[a] <= top, entry'[a].minCnt = 0 \/ entry'[a].maxCnt = 0
        PROVE  Leaves(entry'[a], flush', since[a])
    <3>1. since[a] + flush' <= Span(entry[a].min) + Span(entry[a].max) + FlushTicks + 1
      BY <2>2, <2>3, <2>4, <2>5
    <3> QED BY <1>3, <2>5, <3>1 DEF Leaves
  <2>6. CASE Begun(since[a], polled)
    BY <1>2, <1>9, <2>6 DEF InCycle
  <2>7. CASE WaitsForMax(entry[a], timer[a], since[a])
    <3>1. since[a] <= top /\ timer[a].secs = entry[a].max
      BY <1>3, <2>2, <2>3, <2>7 DEF WaitsForMax
    <3>2. entry[a].maxCnt <= timer[a].secs
      BY <2>1, <2>3, <3>1 DEF EntrySound
    <3>3. entry'[a].maxCnt = 0
      BY <1>3, <2>1, <2>3, <3>2, LessFacts
    <3> QED BY <1>2, <1>9, <2>5, <3>1, <3>3 DEF InCycle
  <2>8. CASE WaitsForMin(entry[a], timer[a], since[a])
    <3>1. since[a] <= top /\ timer[a].secs = entry[a].min /\ timer[a].secs # 0
      BY <1>1, <1>3, <1>9, <2>2, <2>3, <2>8 DEF WaitsForMin, CycleOf
    <3>2. entry[a].minCnt <= timer[a].secs
      BY <2>1, <2>3, <3>1 DEF EntrySound
    <3>3. entry'[a].minCnt = 0
      BY <1>3, <2>1, <2>3, <3>2, LessFacts
    <3> QED BY <1>2, <1>9, <2>5, <3>1, <3>3 DEF InCycle
  <2>9. CASE Leaves(entry[a], flush, since[a])
    <3>1. /\ entry[a].minCnt = 0 \/ entry[a].maxCnt = 0
          /\ flush' = flush
      BY <1>3, <2>9 DEF Leaves
    <3>2. entry'[a].minCnt = 0 \/ entry'[a].maxCnt = 0
      BY <1>3, <2>1, <2>2, <2>3, <3>1, LessFacts
    <3> QED BY <1>2, <1>3, <1>9, <2>9, <3>1, <3>2 DEF Leaves, InCycle
  <2> QED BY <2>1, <2>6, <2>7, <2>8, <2>9 DEF InCycle
<1> QED BY <1>5, <1>7, <1>8, <1>9
  DEF CycleOf, Outdated, InCycle, Begun, WaitsForMax, WaitsForMin, Leaves, Span

(* A send: whoever is due and has reports is sent and begins anew.           *)
LEMMA CycleSend ==
  ASSUME CycleInv, reportAttrs, NEW a \in Attributes PROVE CycleOf(a)'
<1>1. /\ ChangeInv /\ CycleOf(a)
  BY CycleFacts
<1>2. /\ entry'[a].used = entry[a].used /\ entry'[a].min = entry[a].min
      /\ entry'[a].max = entry[a].max /\ timer'[a] = timer[a]
      /\ Due(a) => since'[a] = 0
      /\ ~Due(a) => entry'[a] = entry[a] /\ since'[a] = since[a]
  BY <1>1, SendFacts
<1>3. UNCHANGED <<bound, joined, busy, polled>>
  BY DEF reportAttrs, Send, world
<1>4. Reports(a)' <=> Reports(a)
  BY <1>2, <1>3, ReportsKept
<1>5. /\ timer'[a].kind = "min" => timer'[a].secs # 0
      /\ timer'[a].kind = "min" /\ timer'[a].secs # entry'[a].min => since'[a] = 0
  BY <1>1, <1>2 DEF CycleOf, Outdated
<1>6. CASE Due(a)
  <2>1. polled' \in BOOLEAN
    BY <1>1, <1>3 DEF ChangeInv, WorldType
  <2> QED BY <1>2, <1>5, <1>6, <2>1, CycleDisturbed
<1>7. CASE ~Due(a)
  <2>1. ASSUME Reports(a)
        PROVE  InCycle(entry'[a], timer'[a], flush', since'[a], polled')
    <3>1. InCycle(entry[a], timer[a], flush, since[a], polled)
      BY <1>1, <2>1 DEF CycleOf
    <3>2. ~Leaves(entry[a], flush, since[a])
      BY <1>7, <2>1 DEF Reports, Due, Leaves
    <3> QED BY <1>2, <1>3, <1>7, <3>1, <3>2 DEF InCycle
  <2> QED BY <1>4, <1>5, <2>1
    DEF CycleOf, Outdated, InCycle, Begun, WaitsForMax, WaitsForMin, Leaves, Span
<1> QED BY <1>6, <1>7

(* Every step keeps every attribute in its cycle.                            *)
LEMMA CycleNext == CycleInv /\ [Next]_vars => CycleInv'
<1> SUFFICES ASSUME CycleInv, [Next]_vars PROVE CycleInv'
  OBVIOUS
<1>0. PaceInv'
  BY PaceNext DEF CycleInv
<1> SUFFICES ASSUME NEW b \in Attributes PROVE CycleOf(b)'
  BY <1>0 DEF CycleInv, CycleSound, CycleOf, Outdated, Reports, Live,
              InCycle, Begun, WaitsForMax, WaitsForMin, Leaves, Span
<1>a. CycleOf(b)
  BY CycleFacts
<1>1. CASE Restart
  BY <1>1, CycleRestart
<1>2. ASSUME NEW a \in Attributes, NEW c \in Configs, Configure(a, c)
      PROVE  CycleOf(b)'
  BY <1>2, CycleConfigure
<1>3. ASSUME NEW a \in Attributes, NEW v \in Values, SetValue(a, v)
      PROVE  CycleOf(b)'
  BY <1>a, <1>3 DEF SetValue, CycleOf, Outdated, Reports, Live, core, history,
                    InCycle, Begun, WaitsForMax, WaitsForMin, Leaves, Span
<1>4. ASSUME NEW a \in Attributes, Bind(a) PROVE CycleOf(b)'
  <2>1. Disturb({a}) /\ UNCHANGED <<core, polled>>
    BY <1>4 DEF Bind
  <2>2. \A c \in Attributes \ {a} :
          (c \in bound' <=> c \in bound) /\ joined' = joined /\ busy' = busy
    BY <1>4 DEF Bind
  <2> QED BY <2>1, <2>2, CycleDisturb
<1>5. ASSUME NEW a \in Attributes, reportAttrTimerCb(a) PROVE CycleOf(b)'
  BY <1>5, CycleTimerCb
<1>6. CASE Join
  BY <1>6, CycleDisturb DEF Join
<1>7. CASE Occupy
  BY <1>7, CycleDisturb DEF Occupy
<1>8. CASE Tick
  BY <1>8, CycleTick
<1>9. CASE Poll
  BY <1>9, CyclePoll
<1>10. CASE reportAttrs
  BY <1>10, CycleSend
<1>11. CASE UNCHANGED vars
  BY <1>a, <1>11 DEF vars, core, world, history, CycleOf, Outdated, Reports, Live,
                     InCycle, Begun, WaitsForMax, WaitsForMin, Leaves, Span
<1> QED BY <1>1, <1>2, <1>3, <1>4, <1>5, <1>6, <1>7, <1>8, <1>9, <1>10, <1>11 DEF Next

(* Every attribute with a maximum interval is reported in time: however       *)
(* looks, timers and sends interleave (report_handler, reportAttrTimerCb,     *)
(* reportAttrs), at most both intervals, a run of the common timer and one    *)
(* tick pass from one report to the next.                                    *)
THEOREM ReportedWithinBothHolds == Spec => []ReportedWithinBoth
<1>1. CycleInv => ReportedWithinBoth
  <2> SUFFICES ASSUME CycleInv, NEW a \in Attributes, Reports(a)
               PROVE  since[a] <= (entry[a].min + entry[a].max) * SecTicks
                                    + FlushTicks + 1
    BY DEF ReportedWithinBoth
  <2>1. /\ CycleOf(a) /\ entry[a] \in Entries /\ timer[a] \in Timers
        /\ since[a] \in Nat /\ flush \in {Idle} \cup 0 .. FlushTicks
    BY CycleFacts
  <2>2. /\ Span(entry[a].min) \in Nat /\ Span(entry[a].max) \in Nat
        /\ FlushTicks \in Nat /\ timer[a].left \in Nat
        /\ entry[a].min \in Nat /\ entry[a].max \in Nat
    BY <2>1, EntrySpans, EntryNats, TimerNats, FlushNat
  <2>3. InCycle(entry[a], timer[a], flush, since[a], polled)
    BY <2>1 DEF CycleOf
  <2>4. since[a] <= Span(entry[a].min) + Span(entry[a].max) + FlushTicks + 1
    <3>1. CASE Begun(since[a], polled)
      BY <2>1, <2>2, <3>1 DEF Begun
    <3>2. CASE WaitsForMax(entry[a], timer[a], since[a])
      BY <2>1, <2>2, <3>2 DEF WaitsForMax
    <3>3. CASE WaitsForMin(entry[a], timer[a], since[a])
      BY <2>1, <2>2, <3>3 DEF WaitsForMin
    <3>4. CASE Leaves(entry[a], flush, since[a])
      <4>1. flush \in Nat
        BY <2>1, <2>2, <3>4 DEF Leaves
      <4> QED BY <2>1, <2>2, <3>4, <4>1 DEF Leaves
    <3> QED BY <2>3, <3>1, <3>2, <3>3, <3>4 DEF InCycle
  <2>5. (entry[a].min + entry[a].max) * SecTicks
          = Span(entry[a].min) + Span(entry[a].max)
    BY <2>2, SpanSum
  <2> QED BY <2>4, <2>5
<1>2. Init => CycleInv
  BY CycleInit, PaceInit DEF CycleInv
<1> QED BY <1>1, <1>2, CycleNext, PTL DEF Spec

=============================================================================
