----------------------------- MODULE Reporting -----------------------------
(***************************************************************************)
(* Attribute reporting (src/src/zcl/zcl_reporting.c): the table of         *)
(* reporting configurations, the detection of changes by report_handler,   *)
(* one timer per entry for the minimum and maximum intervals, and the       *)
(* short common timer after which every entry that is due is sent.         *)
(*                                                                         *)
(* An attribute stands for its table entry.  Time passes in ticks; the main *)
(* loop turns at least once in each, and a timer that has run out fires     *)
(* before the next one.                                                    *)
(***************************************************************************)
EXTENDS Integers, FiniteSets

CONSTANTS
  Attributes,  \* reportable attributes
  Analog,      \* those of an analog type, which have a reportable change
  Defaults,    \* those user_init configures by default
  Values,      \* attribute values
  Configs,     \* records of Configure Reporting commands
  None16,      \* 0xFFFF as an interval: no reports, or a counter not in use
  DefaultMax,  \* maximum interval of the default configuration
  Capacity,    \* ZCL_REPORTING_TABLE_NUM
  SecTicks,    \* ticks in a second
  FlushTicks,  \* ticks of reportingTimer
  Horizon      \* bound: ticks are counted up to here

Word == 0 .. None16
Erased == 65535   \* prevData after zcl_reportingTab_restore
Zeroed == 0       \* prevData of a new entry
Idle == -1        \* reportingTimer is not scheduled

ASSUME SetsAssumption ==
  /\ Analog \subseteq Attributes
  /\ Defaults \subseteq Attributes
  /\ Values \subseteq 0 .. Erased - 1
  /\ Configs \subseteq [min : Word, max : Word, change : Word]
  /\ DefaultMax \in 1 .. None16 - 1

ASSUME TicksAssumption ==
  /\ None16 \in 1 .. 65535
  /\ SecTicks \in Nat \ {0}
  /\ FlushTicks \in Nat \ {0}
  /\ Horizon \in Nat
  /\ Capacity \in Nat

VARIABLES
  entry,    \* reportingTab.reportCfgInfo
  timer,    \* reportTimer
  flush,    \* ticks left of reportingTimer, or Idle
  value,    \* the attributes
  bound,    \* attributes whose cluster has a binding
  joined,   \* zb_isDeviceJoinedNwk
  busy,     \* BDB, button or wall switch keep app_task from report_handler
  polled,   \* the main loop has turned in this tick
  nv,       \* the saved table, or NoTable
  reported, \* history: value last reported; prevData before the first report
  since,    \* history: ticks since the last report or disturbance, or since
            \* a minimum timer of an earlier configuration ran out
  steady,   \* history: no disturbance since a report that left no timer of
            \* before its own run of the common timer behind
  spoiled   \* history: disturbed while a noticed change or a timer waited

core == <<entry, timer, flush>>
world == <<value, bound, joined, busy, polled, nv>>
history == <<reported, since, steady, spoiled>>
vars == <<core, world, history>>

Entries ==
  [used : BOOLEAN, min : Word, max : Word, minDft : Word, maxDft : Word,
   minCnt : Word, maxCnt : Word, change : Word, prev : Values \cup {Erased, Zeroed}]

NoEntry ==
  [used |-> FALSE, min |-> 0, max |-> 0, minDft |-> 0, maxDft |-> 0,
   minCnt |-> 0, maxCnt |-> 0, change |-> 0, prev |-> Zeroed]

Timer(kind, secs) == [kind |-> kind, secs |-> secs, left |-> secs * SecTicks]
NoTimer == Timer("none", 0)
NoTable == [a \in {} |-> NoEntry]

TypeOK ==
  /\ entry \in [Attributes -> Entries]
  /\ timer \in [Attributes -> [kind : {"none", "min", "max"}, secs : Word,
                               left : 0 .. None16 * SecTicks]]
  /\ flush \in {Idle} \cup 0 .. FlushTicks
  /\ value \in [Attributes -> Values]
  /\ bound \in SUBSET Attributes
  /\ joined \in BOOLEAN
  /\ busy \in BOOLEAN
  /\ polled \in BOOLEAN
  /\ nv = NoTable \/ nv \in [Attributes -> Entries]
  /\ reported \in [Attributes -> Values \cup {Erased, Zeroed}]
  /\ since \in [Attributes -> 0 .. Horizon]
  /\ steady \in [Attributes -> BOOLEAN]
  /\ spoiled \in [Attributes -> BOOLEAN]

-----------------------------------------------------------------------------
(* Changes and timers *)

Distance(a, b) == IF a > b THEN a - b ELSE b - a

(* reportableChangeValueChk for an analog type, memcmp for another one. *)
Differs(a, old, new, change) ==
  old # new /\ (a \in Analog => Distance(old, new) >= change)

Live(a, n) == n.used /\ n.max # None16 /\ a \in bound

Changed(a, n) == Differs(a, n.prev, value[a], n.change)

(* Mutant of AtOnce: every change is reported at once. *)
AtOnceAlways(n) == TRUE

(* A change is reported at once without a minimum interval, and also with   *)
(* one if there is no maximum interval.                                    *)
AtOnce(n) == n.min = 0 \/ (n.min # None16 /\ n.max = 0)

(* Mutant of NextTimer: a running maximum timer keeps its old interval. *)
NextTimerOld(a, n, t) ==
  CASE ~Live(a, n)                  -> NoTimer
    [] Live(a, n) /\ Changed(a, n)  ->
         IF AtOnce(n) THEN NoTimer
         ELSE IF t.kind = "min" THEN t ELSE Timer("min", n.min)
    [] Live(a, n) /\ ~Changed(a, n) ->
         IF n.max = 0 THEN IF t.kind = "max" THEN NoTimer ELSE t
         ELSE IF t.kind = "none" THEN Timer("max", n.max) ELSE t

(* The timer of an entry after reportAttrTimerStart. *)
NextTimer(a, n, t) ==
  CASE ~Live(a, n)                  -> NoTimer
    [] Live(a, n) /\ Changed(a, n)  ->
         IF AtOnce(n) THEN NoTimer
         ELSE IF t.kind = "min" THEN t ELSE Timer("min", n.min)
    [] Live(a, n) /\ ~Changed(a, n) ->
         IF n.max = 0 THEN IF t.kind = "max" THEN NoTimer ELSE t
         ELSE IF t.kind = "none" \/ (t.kind = "max" /\ t.secs # n.max)
           THEN Timer("max", n.max) ELSE t

(* Mutant of Noticed: the value is remembered without a reportable change. *)
NoticedAlways(a, n) ==
  IF Live(a, n)
    THEN [n EXCEPT !.prev = value[a],
                   !.minCnt = IF Changed(a, n) /\ AtOnce(n) THEN 0 ELSE @]
    ELSE n

(* The entry after it: a change is noticed, to be sent at once or later. *)
Noticed(a, n) ==
  IF Live(a, n) /\ Changed(a, n)
    THEN [n EXCEPT !.prev = value[a], !.minCnt = IF AtOnce(n) THEN 0 ELSE @]
    ELSE n

reportingTimerStart == IF flush = Idle THEN FlushTicks ELSE flush

(* reportAttrTimerStart on table n and timers t. *)
reportAttrTimerStart(n, t) ==
  /\ entry' = [a \in Attributes |-> Noticed(a, n[a])]
  /\ timer' = [a \in Attributes |-> NextTimer(a, n[a], t[a])]
  /\ flush' = IF \E a \in Attributes :
                   Live(a, n[a]) /\ Changed(a, n[a]) /\ AtOnce(n[a])
                THEN reportingTimerStart ELSE flush

-----------------------------------------------------------------------------
(* Configuration *)

(* zcl_reportCfgInfoEntryUpdate *)
Updated(a, n, c) ==
  [used |-> TRUE, min |-> c.min, max |-> c.max,
   minCnt |-> c.min, maxCnt |-> c.max,
   minDft |-> IF n.used THEN n.minDft ELSE c.min,
   maxDft |-> IF n.used THEN n.maxDft ELSE c.max,
   change |-> IF a \in Analog THEN c.change ELSE n.change,
   prev |-> n.prev]

(* zcl_reportCfgInfoEntryRst *)
Reset(n) ==
  [used |-> n.used, min |-> n.minDft, max |-> n.maxDft,
   minCnt |-> n.minDft, maxCnt |-> n.maxDft,
   minDft |-> n.minDft, maxDft |-> n.maxDft, change |-> 0, prev |-> n.prev]

DefaultConfig == [min |-> 0, max |-> DefaultMax, change |-> 1]

(* user_init: zcl_reportingTabInit restores the table, with prevData all    *)
(* ones, and bdb_defaultReportingCfg adds what is missing.                 *)
Restored(t) ==
  [a \in Attributes |->
     IF t # NoTable /\ t[a].used THEN [t[a] EXCEPT !.prev = Erased]
     ELSE IF a \in Defaults THEN Updated(a, NoEntry, DefaultConfig)
     ELSE NoEntry]

Init ==
  /\ entry = Restored(NoTable)
  /\ timer = [a \in Attributes |-> NoTimer]
  /\ flush = Idle
  /\ value \in [Attributes -> Values]
  /\ bound = {}
  /\ joined = FALSE
  /\ busy = FALSE
  /\ polled = FALSE
  /\ nv = NoTable
  /\ reported = [a \in Attributes |-> entry[a].prev]
  /\ since = [a \in Attributes |-> 0]
  /\ steady = [a \in Attributes |-> FALSE]
  /\ spoiled = [a \in Attributes |-> FALSE]

(* History of an event that disturbs the reports of the attributes S. *)
Disturb(S) ==
  /\ since' = [a \in Attributes |-> IF a \in S THEN 0 ELSE since[a]]
  /\ steady' = [a \in Attributes |-> steady[a] /\ a \notin S]
  /\ spoiled' = [a \in Attributes |->
       spoiled[a] \/ (a \in S /\ (entry[a].prev # reported[a] \/ timer[a].kind = "min"))]
  /\ UNCHANGED reported

(* Power fails and returns; attributes are restored or set to anything. *)
Restart ==
  /\ entry' = Restored(nv)
  /\ timer' = [a \in Attributes |-> NoTimer]
  /\ flush' = Idle
  /\ value' \in [Attributes -> Values]
  /\ joined' = FALSE
  /\ busy' = FALSE
  /\ polled' = FALSE
  /\ reported' = [a \in Attributes |-> entry'[a].prev]
  /\ since' = [a \in Attributes |-> 0]
  /\ steady' = [a \in Attributes |-> FALSE]
  /\ spoiled' = [a \in Attributes |-> FALSE]
  /\ UNCHANGED <<bound, nv>>

(* A Configure Reporting record zcl_configureReporting accepts ... *)
Reverts(c) == c.max = 0 /\ c.min = None16

Accepted(a, c) ==
  /\ c.max = None16 \/ Reverts(c) => entry[a].used
  /\ c.max # 0 => c.max >= c.min
  /\ ~entry[a].used => Cardinality({b \in Attributes : entry[b].used}) < Capacity

(* ... either reverts the entry to its default configuration and looks at   *)
(* the whole table again, or updates it; the table is saved.  A running    *)
(* timer of an updated entry keeps running.                                *)
Configure(a, c) ==
  /\ joined
  /\ Accepted(a, c)
  /\ IF Reverts(c)
       THEN reportAttrTimerStart([entry EXCEPT ![a] = Reset(@)],
                                 [timer EXCEPT ![a] = NoTimer])
       ELSE /\ entry' = [entry EXCEPT ![a] = Updated(a, @, c)]
            /\ UNCHANGED <<timer, flush>>
  /\ nv' = entry'
  /\ Disturb({a})
  /\ UNCHANGED <<value, bound, joined, busy, polled>>

-----------------------------------------------------------------------------
(* The environment *)

(* A handler changes an attribute. *)
SetValue(a, v) ==
  /\ value' = [value EXCEPT ![a] = v]
  /\ UNCHANGED <<core, bound, joined, busy, polled, nv, history>>

Bind(a) ==
  /\ joined
  /\ bound' = IF a \in bound THEN bound \ {a} ELSE bound \cup {a}
  /\ Disturb({a})
  /\ UNCHANGED <<core, value, joined, busy, polled, nv>>

(* The network is lost, or joined again. *)
Join ==
  /\ joined' = ~joined
  /\ Disturb(Attributes)
  /\ UNCHANGED <<core, value, bound, busy, polled, nv>>

(* A button or wall-switch gesture or a commissioning step begins or ends. *)
Occupy ==
  /\ busy' = ~busy
  /\ Disturb(Attributes)
  /\ UNCHANGED <<core, value, bound, joined, polled, nv>>

(* history: the timer waits for a minimum that is no longer configured.     *)
Outdated(a) == timer[a].kind = "min" /\ timer[a].secs # entry[a].min

(* A tick of the clock, once every timer that had run out has fired. *)
Tick ==
  /\ polled
  /\ flush # 0
  /\ \A a \in Attributes : timer[a].kind # "none" => timer[a].left > 0
  /\ polled' = FALSE
  /\ flush' = IF flush = Idle THEN Idle ELSE flush - 1
  /\ timer' = [a \in Attributes |->
       IF timer[a].kind = "none" THEN timer[a]
                                 ELSE [timer[a] EXCEPT !.left = @ - 1]]
  /\ since' = [a \in Attributes |->
       CASE Outdated(a) -> 0
         [] ~Outdated(a) /\ since[a] < Horizon -> since[a] + 1
         [] OTHER -> since[a]]
  /\ UNCHANGED <<entry, value, bound, joined, busy, nv,
                 reported, steady, spoiled>>

-----------------------------------------------------------------------------
(* The main loop and the timers *)

(* A turn of the main loop: app_task calls report_handler unless busy. *)
Poll ==
  /\ polled' = TRUE
  /\ IF joined /\ ~busy THEN reportAttrTimerStart(entry, timer)
                        ELSE UNCHANGED core
  /\ UNCHANGED <<value, bound, joined, busy, nv, history>>

(* Mutant of Less: the counter may pass zero. *)
LessWrap(cnt, secs) == cnt - secs

Less(cnt, secs) == IF cnt >= secs THEN cnt - secs ELSE 0

(* An entry's timer runs out: its seconds are taken off both counters. *)
reportAttrTimerCb(a) ==
  /\ timer[a].kind # "none" /\ timer[a].left = 0
  /\ entry' = IF Live(a, entry[a])
                THEN [entry EXCEPT ![a].minCnt = Less(@, timer[a].secs),
                                   ![a].maxCnt = Less(@, timer[a].secs)]
                ELSE entry
  /\ timer' = [timer EXCEPT ![a] = NoTimer]
  /\ flush' = reportingTimerStart
  /\ UNCHANGED <<world, history>>

Due(a) ==
  /\ Live(a, entry[a])
  /\ entry[a].minCnt = 0 \/ (entry[a].maxCnt = 0 /\ entry[a].max # 0)

Full(interval) == IF interval = 0 THEN None16 ELSE interval

Sent(a, n) ==
  [n EXCEPT !.prev = value[a], !.minCnt = Full(n.min), !.maxCnt = Full(n.max)]

(* history: no timer, or one that started while the common timer ran        *)
Recent(t) == t.kind # "min" /\ t.secs * SecTicks - t.left <= FlushTicks

(* The common timer runs out and the entries S are sent, in as many messages *)
(* as their clusters need; off the network none of them leaves the device.   *)
Send(S) ==
  /\ flush = 0
  /\ flush' = Idle
  /\ entry' = [a \in Attributes |-> IF a \in S THEN Sent(a, entry[a]) ELSE entry[a]]
  /\ reported' = [a \in Attributes |->
                    IF a \in S /\ joined THEN value[a] ELSE reported[a]]
  /\ since' = [a \in Attributes |-> IF a \in S THEN 0 ELSE since[a]]
  /\ steady' = [a \in Attributes |->
                  steady[a] \/ (a \in S /\ Recent(timer[a]))]
  /\ spoiled' = [a \in Attributes |-> IF a \in S THEN ~joined ELSE spoiled[a]]
  /\ UNCHANGED <<timer, world>>

(* Mutant of reportAttrs: only one message is sent. *)
reportAttrsOnce ==
  IF \E a \in Attributes : Due(a) THEN \E a \in Attributes : Due(a) /\ Send({a})
                                  ELSE Send({})

reportAttrs == Send({a \in Attributes : Due(a)})

Next ==
  \/ Restart
  \/ \E a \in Attributes :
       \/ \E c \in Configs : Configure(a, c)
       \/ \E v \in Values : SetValue(a, v)
       \/ Bind(a)
       \/ reportAttrTimerCb(a)
  \/ Join
  \/ Occupy
  \/ Tick
  \/ Poll
  \/ reportAttrs

Spec == Init /\ [][Next]_vars

-----------------------------------------------------------------------------
(* Properties *)

(* A value that differs reportably from the last one reported is always on  *)
(* its way: still to be noticed, waiting for the minimum interval, or due   *)
(* when the common timer runs out.  (Unless the entry was configured, its   *)
(* binding removed or the network lost in between: that can lose it.)      *)
NoChangeLost ==
  \A a \in Attributes :
    LET n == entry[a] IN
      /\ joined /\ Live(a, n) /\ ~spoiled[a]
      /\ Differs(a, reported[a], value[a], n.change)
      => \/ Changed(a, n)
         \/ timer[a].kind = "min" /\ n.minCnt <= timer[a].secs
         \/ n.minCnt = 0 /\ flush # Idle

TooSoon(a) == since[a] + FlushTicks < entry[a].min * SecTicks

(* With a maximum interval, two reports of an attribute are at least its    *)
(* minimum interval apart, less the run of the common timer, which entries *)
(* share. Without a maximum interval the code reports every change at once. *)
MinimumKept ==
  [][reportAttrs => \A a \in Attributes :
       Due(a) /\ steady[a] /\ entry[a].max # 0 => ~TooSoon(a)]_vars

Reports(a) ==
  joined /\ ~busy /\ Live(a, entry[a]) /\ entry[a].max # 0

(* An attribute with a maximum interval is reported within the sum of both  *)
(* intervals: a change that comes late in the maximum interval stops its    *)
(* timer and waits for the minimum interval.                               *)
ReportedWithinBoth ==
  \A a \in Attributes :
    Reports(a) =>
      since[a] <= (entry[a].min + entry[a].max) * SecTicks + FlushTicks + 1

=============================================================================
