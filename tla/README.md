# Verification of the one-gang Zigbee switch firmware

The firmware (`src/`) turns a Tuya one-gang switch module into a Zigbee router:
a relay, a wall-switch contact, a push button and an LED, on a Telink 8258 with
the vendored Telink Zigbee SDK. This directory models its own logic in TLA+,
checks the models with TLC and proves theorems about them with TLAPS.

## The system

The firmware is one cooperative loop (`common/main.c`): stack tasks, timers and
`app_task` run to completion one after another. There are no threads and the
application has no interrupt handlers of its own; what is concurrent is the
outside world: ZCL commands from clients, the contact and the button, time, the
network, and the power, which can fail between any two instructions, also inside
a flash operation.

| component | state | operations | interacts with |
|---|---|---|---|
| on/off log (`app_onoff.c` 177-258) | one flash sector of 4-byte records, `flash_addr_start`, `status_onoff` | restore, default initialisation, save | called by the on/off commands, the write callback and the boot |
| on/off commands (`app_onoff.c` 10-80) | `OnOff` attribute, `status_onoff`, relay GPIO | on, off, toggle | called by ZCL, button, wall switch, write callback; call the log |
| settings (`app_relay.c`, `zcl_appCb.c` 178-307) | `relay_settings`, its NV item, the attributes a client reads and writes | restore, save, one case per written attribute | stack writes the attributes first, then calls the application |
| wall switch (`app_switch.c`) | `app_switch`: debounce counter, last position, gesture flags, counter, time of the last closing | one poll per loop turn, by switch type | on/off commands, remote commands, reports, level movements, factory reset, rejoin |
| button and keyboard scan (`app_button.c`, `drv_sdk/drv_keyboard.c`) | press state, count, times, scan queue | scan, hold, release window | toggle, factory reset, LED |
| LED (`app_led.c`) | blink count, times, timer | start, stop, timer callback | button, commissioning, identify |
| commissioning and factory reset (`zb_appCb.c`, `common/factory_reset.c`) | power-on counter in NV, steering timer, `net_steer_start` | BDB callbacks, leave, timers | LED, base device behaviour |
| base device behaviour (SDK `bdb.c`) | state, status, attempts, posted tasks, delays | start, steer, open the network, exchange the link key, save | commissioning callbacks, network library, NV |
| software timers (SDK `ev_timer.c`) | pool of slots, list of running timers, last clock sample | schedule, cancel, one pass per loop turn | every callback that waits |
| NV storage (SDK `drv_nv.c`) | two flash sectors per module: flag, index, items | write, read, change of sector, recovery | settings, power-on counter, reporting table, stack |
| reporting (`zcl/zcl_reporting.c`, `app_reporting.c`) | table of entries with previous values and counters, a timer for each, a common timer | configure, detect a change, minimum/maximum interval | main loop, attributes |
| level control, remote commands (`app_level.c`, `app_onoff.c` 82-175) | none of their own | walk the binding table and send | wall switch |
| cluster callbacks, time, device model, main | small or none | dispatch, boot | everything |

What makes it hard: a power cut between any two stores; an order of
initialisation in which GPIO and switch are set up before the settings are
restored; attributes that the stack changes before (or without) telling the
application; bouncing contacts against time windows; settings that change under
a gesture in progress; callbacks that start and cancel timers while the list of
timers is walked; leaves, answers and retries that overtake one another.
`PROJECT.json` lists the
hazards at their lines.

What each component owes its users:

* log: a saved state is what every later restart restores; a cut save leaves the
  old or the new state, or errs to on; damage is eventually healed.
* commands and settings: relay, attribute and status agree; a restart puts the
  relay where `StartUpOnOff` says; attributes, RAM settings and NV settings
  agree; a multi-function switch is never coupled to the relay.
* wall switch: one closing of the contact is one closing; a press is followed by
  its release; gestures end; a level movement that is started is stopped.
* reporting: a change is never forgotten between being noticed and being sent;
  reports keep the minimum interval and come within a maximum time.
* timers: none is lost, called early or passed over; no handle outlives its timer.
* NV: a write is all or nothing, and a write that has returned stays written.
* commissioning: a device off the network always has a next attempt scheduled; a
  network it joined survives a restart; a factory reset asked for is carried out,
  and the power-on counter asks for one only after enough starts in a row.

## Modules

| module | models | extends / instantiates |
|---|---|---|
| `DurableStatus` | abstract specification: a single durable copy of the relay state | |
| `OnOffLog` | the flash log | `INSTANCE DurableStatus` for the refinement |
| `OnOffLog_proofs` | theorems about `OnOffLog` | `OnOffLog`, `TLAPS` |
| `Relay` | on/off commands, start-up, boot order, attribute writes, settings | |
| `Relay_proofs` | theorems about `Relay` | `Relay`, `TLAPS`, `SequenceTheorems` |
| `WallSwitch` | the wall switch's poll handlers | |
| `WallSwitch_proofs` | theorems about `WallSwitch` | `WallSwitch`, `TLAPS` |
| `Reporting` | attribute reporting: table, change detection, timers | |
| `Reporting_proofs` | theorems about `Reporting` | `Reporting`, `TLAPS` |
| `Timers` | the pool and list of software timers, the pass that calls them | |
| `Timers_proofs` | theorems about `Timers` | `Timers`, `TLAPS`, `FiniteSetTheorems`, `SequenceTheorems` |
| `Commissioning` | joining, leaving, resetting, with the base device behaviour | |
| `Commissioning_proofs` | theorems about `Commissioning` | `Commissioning`, `TLAPS`, `SequenceTheorems` |
| `ItemStore` | abstract specification: items written one at a time and all at once | |
| `NvStore` | one module of the NV driver: two sectors, recovery, power cuts | `INSTANCE ItemStore` for the refinement |
| `NvStore_proofs` | theorems about `NvStore` | `NvStore`, `TLAPS`, `FiniteSetTheorems`, `WellFoundedInduction` |
| `MCOnOffLog`, `MCRelay`, `MCWallSwitch`, `MCReporting`, `MCTimers`, `MCCommissioning`, `MCNvStore` | values of the constants for TLC | the modules above |

Definitions whose comment says "Mutant of" are not part of a model: each is a
defective variant of the definition after it, and shows that the property named
in `PROJECT.json` notices the defect.

### OnOffLog

A slot is the set of bits cleared in it: programming takes a union, erasing gives
the empty set. `Record(v)` is the three bytes of a record, id, status and the sum of
both modulo 256; `Image[v]` is the bits it clears. A slot is valid when its bits are
exactly those of the record of some status byte: `status_onoff_restore` tests the id
and the checksum and nothing else, so that `Status` is not the two values a save
writes but all the values a slot can read as. `pc` is `off`, `run`, or the flash
operation in progress, so that a cut can fall before, inside and after each.
`BootFound` and `BootDefault` are the two outcomes of `status_onoff_restore`,
`Save` the address arithmetic of `status_onoff_save`, `Erase` and `Program` its
flash operations. `stored` and `torn` are history variables.

The constants `Status` and `Bits` allow an instance to look at some status bytes and
some bits of the record. `ImagesDiffer` says what it must keep: every record clears
something, no two clear the same, and none but that of off clears all that off does.
`MCOnOffLog` has TLC check that of all 256 status bytes with all 24 bits
(`WholeImagesDiffer`), and that a cut record of off or on can be the record of
another status (`WholeRecordsRemain`).

`DurableStatus` is what the callers may rely on; `OnOffLog` implements it with
`durable <- Recovered(cells)`: the durable state is what a restart would read.
It names the three weaknesses of the code: at a wrap the sector is erased before
the new record is written; a save that is cut may leave a third state, one of those
whose records are part of the new one's (`Remains`); and a torn record hides all
later ones until the next wrap. A device that restarts before the wrap starts again
at the damaged slot, which is why `DamageHeals` needs the premise that it stays
powered. `CutSaveErrsToOn` bounds the second weakness: the third state counts as on.

### Relay

Each action is one handler run to its end; a write command is split at each of
its stores (`WriteAttr` per record in the stack, `WriteDispatch`, `WriteSetting`
per record in `app_zclWriteReqCmd`, `WriteDone` for the save), because a power cut
between two of them is visible after the restart. The stack's part is modelled as
the application relies on it: write and write-without-response store the records
that have the attribute's type, undivided writes all or none, and only a plain
write reaches the application, with every record, ill-typed ones included.
`Boot` follows `user_init`: `dev_relay_init` and `switch_init` see zeroed
settings; then log and settings are restored; then the stack applies
`StartUpOnOff` to the attribute alone; the relay follows at the first poll
(`switch_first_start`) if the type is a two-position one. The log is one atomic
durable copy here, which is what `OnOffLog` is shown to provide between its
operations; composing both is in the plan. The status is therefore off or on in
`Relay`: the odd values a half-written record can be restored as are in `OnOffLog`
only. The code takes them for on in `switch_first_start`, and the next command
replaces them. NV is one item written all at once,
which is what `NvStore` is shown to provide.
`before`, `bypassed` and `repeated` are history variables: the state a power cut
interrupted, that a write went past the application or had a wrong type, and that
a command named an attribute twice.

### WallSwitch

`Poll` is `switch_handler`: read the contact (`ToggleRead` for `read_switch_toggle`,
`GestureRead` for what `read_switch_multifunction` and `read_switch_light_control`
share), then end the gesture if it is over (`Finish`). What a poll asks of the rest
of the firmware (relay command, report, level movement, reset, rejoin) is in `out`.
Time is a clock of coarse ticks that wraps; `age` is the time since the last
closing modulo the wrap, because `hold_time` and `pressed_time` are always
assigned together. The contact moves freely: it may bounce at every poll. A client
may rewrite the switch type, to one of `Rewritten`, at any moment. A closing is acted
on ("press") whenever no other has been counted, also when the byte that counts them
has wrapped in the middle of a gesture. `owed` is about the press that begins a
gesture only.

### Reporting

An attribute stands for its entry of the table. `Poll` is a turn of the main loop,
which calls `report_handler` unless the device is off the network or `busy`
(commissioning, button or wall switch in use): `reportAttrTimerStart` compares
each attribute with the value last noticed and decides by `NextTimer` and
`Noticed` what the entry's timer is to do. `reportAttrTimerCb` takes the seconds
of the timer off the counters, `reportAttrs` sends what is due when the common
timer runs out (the loop over messages of one cluster and two attributes ends
only when all are sent, so that it is one step here). `Configure` is one record
of a Configure Reporting command with the save that follows it, `Restart` the
restored table completed by the defaults of `user_init`. Time passes in `Tick`s;
the main loop turns at least once between two of them and a timer that has run
out fires before the next: the loop takes milliseconds, a tick stands for the
100 ms of the common timer or more. `reported`, `since`, `steady` and `spoiled` are
history variables: the value reported last, the ticks since that report or since
the last disturbance, that nothing has disturbed the entry since a report that left
no older timer behind, and that a noticed change may be lost. `spoiled` and
`steady` name the disturbances after which the
code promises less: a noticed change is lost for good when its timer is stopped
because the binding or the entry changes, when it is sent off the network, or
when a minimum timer of an earlier configuration takes its seconds off the new
counters.

### Timers

`list`, `evt` and `usedNum` are the list of running timers, the pool and its
counter. `Call` is any code of the main loop that starts or cancels a timer as the
application does (`CANCEL` then `SCHEDULE`, keeping the handle or not); with `at` not
`None` it is a call made by the callback that runs. `Process` is
`ev_timer_process`: the clock is sampled, whole milliseconds are taken off every
timer and the rest is kept in `rem`. The pass of `ev_timer_executeCB` is split at the
callbacks: `at` is the timer whose callback runs, `seen` the head the pass started
from, and `Return` takes the timer off or sets it again, then goes on from the head
if that changed and else from the link of the timer it came from (`WalkOn`). `age` is
a history variable: the true time a timer has been waiting, in clock ticks.

### Commissioning

`tasks` is the queue of `TL_SCHEDULE_TASK`, `delays` the timers of `bdb_task_delay`,
`tc` the exchange of the link key with its own timers, `steer` says that
`steerTimerEvt` is scheduled. `RunTask` runs one task: `bdb_task` by event and state,
which `Start`, `Retrieve`, `PermitJoin`, `Confirm` and `Drop` stand for. `Confirm` is the
report to the application and includes the whole of `zb_bdbCommissioningCb`. The
network layer is a binary library and is external: `Answered` is its only answer to a
request of the base device behaviour, `LeaveDone` its erasing of NV followed by
`app_leaveCnfHandler`. A time is modelled by the order in which it may run out: any
timer may fire before any other, which only adds behaviours. `hist` keeps what the
properties need: restarts, starts in a row, whether a router failed to start, and
`overtaken`, that a leave was confirmed in the middle of steering or an answer came
after the key exchange was over.

### NvStore

`flag` and `slot` are the flash, `op` is the call under way at the flash operation it
does next, so that `Cut` falls between any two. `Open`, `RecoverOther` and
`RecoverSelf` are `nv_sector_read`; `Place` finds the next entry or decides on the
other sector (`Full`, which stands for the tests of `nv_flashWriteNewHandler` and the
return of `nv_write_item` after which `nv_flashWriteNew` tries again with the sector
changed); `Erase`, `Dedup` and `Copy` fill the other sector; `PutIndex`, `PutData` and
`Commit` are `nv_write_item`, whose state byte goes from idle over operation to valid;
`Delete` drops the older entry; `Ready`, `Retire` and `Validate` are the three flags of
a change. `CutWriting` and `CutErasing` are cuts inside the operations that take long.
`ItemStore` is what the callers rely on; `NvStore` implements it with
`store <- Readable`, what `nv_flashReadNew` would return at that instant.

## Runs

| run | question | result |
|---|---|---|
| `OnOffLog` | safety and refinement of the log; damage heals | holds |
| `RelayStartUp` | start-up behaviour and durability over restarts | holds |
| `RelayConfig` | consistency of attributes, settings and NV | holds |
| `WallSwitch` | debounced closings, press and release, holds alternate, gestures end | holds |
| `WallSwitchDead` | an opening is always noticed | violated: see below |
| `WallSwitchBounce` | gesture handlers debounce closings | violated: see below |
| `Reporting` | no change lost (small steps add up), minimum interval, longest silence | holds |
| `ReportingPair` | changes of two entries share one run of the common timer | holds |
| `Timers` | pool, list and handles agree; no timer early, late or passed over | holds |
| `Commissioning` | never stranded, joined survives, resets carried out, keeps trying | holds |
| `CommissioningStale` | success is reported only on a network | violated: see below |
| `NvStore` | writes are all or nothing and stay, whatever cuts power | holds |

Bounds. `OnOffLog`: 3 slots let the log wrap, leave a gap behind a torn slot, and
have an inner slot. Of the record it has the bit by which on differs from off and the
highest bits of status and checksum; the others are taken to be programmed. With
both of the highest bits left out the record of off is that of 128, with one of them
it is no record, and the statuses are off, on and 128: each outcome of a cut
happens. All bits and bytes are in the proofs. `Relay`: commands of up to
two records (two are enough for one record to undo or overtake another);
`RelayStartUp` has every value of `StartUpOnOff` the code tells apart and one it
does not know, and one two-position and one gesture type; `RelayConfig` has types
on both sides of each comparison, every coupling value and one that is neither,
and a device without a model, so that the relay itself does not multiply its
states. `WallSwitch`: all four types, of which the two-position ones are rewritten
under a gesture; the debounce range is 5 instead of 128 polls, the window 2
ticks of a clock that wraps at 5, the counter wraps at 8 and a reset takes 4
closings: every comparison of the code has values on both sides, and the wraps
happen. `Reporting`: one attribute with three values, every kind of configuration (no
minimum, which is the default one; equal intervals, no maximum, rejected, switched
off, reverted) and a reportable change of none or two; seconds of two ticks, and a
`Horizon` of 11, beyond the sum of the longest intervals; entries interact
only through the common timer, which `ReportingPair` has two of (there the
intervals are not asked about and `Horizon` is 0). The value `None16` stands for
0xFFFF and is as small as the intervals allow: an entry without a minimum or
maximum interval counts down from it, and reaching 0 is then a case that the
program meets only after 18 hours. `Timers`: three slots, so that the pool runs out
and the list has an inner timer; one client that keeps its handle and repeats, and
any number of timers of one that forgets it; a clock that wraps at 5 with 2 ticks a
millisecond leaves a remainder in every second sample, and is the shortest that
lets the loop fall behind by a millisecond and a half without wrapping twice. `Commissioning`: a counter
threshold and attempts of 3, so that both are passed and stopped short of; four
restarts are one more than the threshold; at most two posted tasks or delays at
once, which is one more than an undisturbed commissioning has. It leaves out what
follows a leave in the middle of steering (`NotOvertaken`): its properties exclude
those states, and `CommissioningStale` shows why. `NvStore`: two items in sectors of
three entries: a copied item, the written one and one free entry; a sector is full
after three writes, and duplicates, torn entries and both orders of the sectors
occur many times over, since nothing bounds the number of writes and cuts.

Fairness. `OnOffLog!FairSpec`: a flash operation that has begun ends while power
lasts (the driver busy-waits with interrupts off). `WallSwitch!FairSpec`: the main
loop keeps polling and the clock keeps running, and at least one poll falls in
each tick (a tick is a quarter of a second, a turn of the loop some
microseconds to milliseconds). `Commissioning!FairSpec`: the main loop runs posted
tasks and timers that have run out, and the network library answers what it was
asked and ends a leave (strongly: a rejoin in between may put the end off). Answers
and commands over the air, button, switch and restarts are not fair; that is why
`MarkedIsReset` and `KeepsTrying` speak of a device after its last restart. `Timers`
and `NvStore` ask nothing of fairness. The environment (contact, network, clients,
power) is never fair. Deadlock is checked in every passing run.

Findings. `WallSwitchDead`: the code accepts an opening only while a gesture is in
progress (`app_switch.c:190`), so that a two-position switch whose contact is
closed at power-on is never seen to open, and no later closing is acted on.
`WallSwitchBounce`: the gesture handlers lack the test of the last accepted
position that `read_switch_toggle` has, and count a closing after one bounced
poll (`app_switch.c:263`, `:369`). `CommissioningStale`: a leave that is completed
between joining and the opening of the network 200 ms later is followed by a report
of success, which cancels the timer the leave had just scheduled
(`zb_appCb.c:184`); the device then stays off the network.

What TLC also showed while the models were written: an attribute may go unreported
for longer than its maximum interval (a change late in it stops its timer and waits
for the whole minimum interval, `zcl_reporting.c:627`; `ReportedWithinBoth` states the
bound that holds); `AttrsAreSettings` does not
hold for the coupling values themselves (a value other than 0 and 1 that follows
a type record in one command reaches the setting only), and holds at all only
without writes that bypass the application; `RelayFollowsOnOff` does not hold
for gesture types after a restart (`~float` excludes it), because the relay is
driven before the settings are known; with a minimum but no maximum interval a
change is reported at once (`zcl_reporting.c:620`; `MinimumKept` has the premise of a
maximum); a router that fails to start after a restart is not tried again
(`zb_appCb.c:149`); an answer of the trust center after the key exchange is over
keeps the network from being saved (`bdb.c:901`); a reset marked while the device is
rejoining is refused and the mark is gone (`factory_reset.c:75`). The premises of the
properties name these cases. Two more came up when records and closings were modelled
byte for byte. A save of off that is cut may be restored as on although the relay was
off before: the record `65 00 65` without bit 7 of its last two bytes reads `65 80 E5`,
which passes the checksum (`app_onoff.c:205`, `:218`), and its status is not off; TLC
finds it when `CutSaveErrsToOn` lacks its last line. A momentary press may lose its
release: when the byte that counts closings has wrapped to 0 in one gesture, the next
closing acts again (`app_switch.c:148`), and if it is held the gesture ends before the
contact opens, because an earlier opening has marked it as released; TLC finds it when
`owed` is set by every press.

What the proof attempts showed, and the runs had been too small for:

* `AttrsAreSettings` was false for the coupling as an equivalence. A command of three
  records that names a multi-function type, then a two-position type, then the
  coupling, all applied to an attribute the stack has already set to its last value,
  leaves a coupled switch whose attribute reads as decoupled (`zcl_appCb.c:239-254`: the
  first type forces the attribute, the last coupling is the value the setting already
  has). The run stops at two records. `repeated` now names the case; the direction
  that matters to a client, an attribute that reads as coupled, holds without it.
* `MinimumKept` was false for an entry that is still due after a disturbance: another
  attribute's run of the common timer sends it, its maximum timer of before goes on,
  and takes its whole length off the new counters when it runs out, so that the next
  report is early. `steady` now begins with a report that leaves no older timer.
* `NeverLate` holds to one millisecond, not only to two, and only for a clock that does
  not wrap between two samples together with the remainder that is kept:
  `MaxBlock + MsTicks <= ClockMod`, which the 32-bit clock of 16 MHz gives 268 seconds.

## Proofs

`OnOffLog_proofs` proves, for any number of slots and for any status bytes and bits of
a record that meet `BitsAssumption`, all of them included:

* `TypeCorrect`: `Spec => []TypeOK`.
* `LogSoundHolds`, `SavedIsRestoredHolds`: from the inductive invariant
  `IInv == TypeOK /\ LogSound /\ RecordStored`. `LogSound` alone is not inductive
  with respect to `SavedIsRestored`: `RecordStored` adds that the last slot of the
  filled part holds the record of `stored`. `TailUnique` and `TailRecovered` show
  that the restore loops find exactly that slot.
* `CutSaveErrsToOnHolds`: what is left of a record when its programming is cut is
  either no record, and then the last complete one is found (`ProgramRecovered`), or
  the record of a state in `Remains` (`PartRemains`), and that is off only if off was
  being saved (`PartNotOff`).
* `Refinement`: every step of the log is a step of `DurableStatus` or a stutter; a cut
  save is one of the three outcomes that module allows (`CutProgramRecovered`).

`Relay_proofs` proves, for any sets of written values within a byte, commands of
any length and both values of `DeviceEn`:

* `TypeCorrect`: `Spec => []TypeOK`.
* `MultifunctionDecoupledHolds`: inductive with `TypeOK`.
* `SettingsSavedHolds`: from `SavedInv`, which says what holds within a command too:
  wherever the settings differ from their copy, the callback is running and a save
  is pending. Each case of the callback that changes a setting asks for a save
  (`ChangeAsksForSave`).
* `RelayFollowsOnOffHolds`: from `FollowInv`, which adds that the switch floats from
  boot to the first poll.
* `StatusDurableHolds`: from `DurInv`. The log is saved by the *attribute*
  (`attr.startUp > ToOn`), needed by the *stored setting*, and the callback decides
  by the *setting in memory*; while a write is carried out the three differ.
  `AttrsStage` and `CallbackStage` say how: either the command leaves
  `StartUpOnOff` alone and the three agree, or all its records are of
  `StartUpOnOff` and the attribute holds the last value of the command, on its way
  into the settings. `DurableWhereNeeded` is `StatusDurable` for the settings in
  memory as well as for their copy.
* `StartUpHonouredHolds`: `DurInv` carries `DurableWhereNeeded` over the power cut;
  `HonourInv` keeps it to the first poll, before which nothing else can run.

* `AttrsAreSettingsHolds`: from `AttrInv`. Stack and callback each go through the same
  records, one after the other, and the property is only about what is left when both
  are done. `Lands(q, id, d, v)` says that storing the records of `q` turns `d` into `v`;
  while the stack stores (`StoringLands`), the attributes are on their way to where the
  whole command takes the settings, while the callback runs (`CallbackLands`), the
  settings are on their way to the attributes. A type record that forces the coupling
  breaks that symmetry; `StoringOnce` and `CallbackOnce` keep it for commands that name
  no attribute twice, `Agree` and `AgreeOnce` are the two halves of the property.

`WallSwitch_proofs` proves, for any debounce range above 3, any width of the closing
counter, any window and any clock:

* `TypeCorrect`: `TypeOK` is inductive with `GestureSound`: only while a gesture is in
  progress are closings counted, an opening remembered and a hold announced. It bounds
  the counters that the two kinds of handlers share.
* `MomentaryReleasesHolds`: from `OwedSound`: while the release of the press that began
  the gesture is due, the position that
  was accepted is the closed one and the closing was the first of its gesture, so that
  neither another press nor the end of the gesture can come first.
* `TwoPositionDebouncedHolds`: from `OpenedSound`, for `NotMixed`: the type is not
  rewritten between the two-position and the gesture types. That is not an
  assumption on the code but on its clients, and it is needed: what a gesture handler
  has accepted of the contact is not debounced (see `WallSwitchBounce`), and a
  two-position handler goes on from it.
* `HoldsAlternateHolds`: from `HoldSound`, as long as the type is rewritten only to
  two-position ones: a hold that a rewriting cuts off is never ended.

`Reporting_proofs` proves, for any number of attributes, any configurations and any
intervals within `None16`:

* `TypeCorrect`, `NoChangeLostHolds`: from `ChangeInv`. A change that is noticed is
  recognised only by the entry's previous value differing from the value reported last
  (`OnItsWay`): then it waits for the minimum timer, or is due and the common timer runs.
  `MinTimerSound` says which minimum such a timer runs for, `EntrySound` what Configure
  Reporting lets into an entry, without which a counter would pass zero.
* `MinimumKeptHolds`: from `PaceInv`. The counters alone say nothing, because a timer
  takes its whole length off them when it runs out, and other attributes run the
  common timer. `InPace` compares what a counter has lost, and what the running timer
  will take off for its time so far, with the time that has passed since the last
  report. `LongHistory` asks the history variable `since` to count as far as the
  longest interval.
* `ReportedWithinBothHolds`: from `CycleInv`: an attribute with reports was just
  disturbed or reported, waits for its maximum timer, for its minimum timer, or is
  about to leave, and in each of these phases the time that has passed and the time
  the timer has left are bounded together.

`Timers_proofs` proves, for any number of slots and clients and any periods:

* `TypeCorrect`, `PoolSoundHolds`, `HandleOwnsHolds`, `PassCompleteHolds`: from
  `SlotInv`. Beside the agreement of pool, counter and list it has `WalkAgrees`: the
  timer whose callback runs is in the list, and nothing before it has run out. That
  is what makes a pass complete although it goes on from the head or from a link
  that the callback may have changed.
* `NeverEarlyHolds`, `NeverLateHolds`: from `TimeInv`, which says of each timer by how much
  the milliseconds taken off it may differ from the time that has truly passed: by the
  remainder that is kept and less than one millisecond. A timer that was set since the
  last sample is counted from its registration, and that difference is taken modulo
  the clock: hence the assumption `MaxBlock + MsTicks <= ClockMod`.

`NvStore_proofs` proves, for any items, values and sectors of any size that
`NvAssumption` allows:

* `TypeCorrect`, `OneSectorHolds`: from `IInv`, which says for each step of a call what it
  knows. `FlagSound`: which flags the sector in use and the other one have;
  `IndexSound`: what is free and what is written of the sector the call works on;
  `CopySound` and `CarrySound`: while items are copied each entry is the only copy of its
  item, and then every other item reads as before. A counting argument
  (`op.idx <= Cardinality(Items)`) shows that the copies fit.
* `WrittenIsReadableHolds`: `CommittedReads` finds the committed entry from the end of the
  index, and the steps after it change nothing a read returns.
* `Refinement`: every operation is a step of `ItemStore` or changes nothing readable; the
  value changes at `Commit`; in an empty module at `First`, which makes the sector valid;
  and in a change of sector at `Ready` when the new sector is sector 0, which is the one
  searched first, and otherwise at `Retire`.

`Commissioning_proofs` proves, for any threshold, any number of attempts and
restarts and any length of the queue, without `NotOvertaken`:

* `TypeCorrect`: `Spec => []TypeOK`.
* `NeverStrandedHolds`, `CommissionedIsDurableHolds`: from `OnCourse`. The properties speak
  of moments when nothing is under way, so that the invariant must say where
  everything else leads: until it is overtaken, a device is `Lost` (it knows a network
  and starts, rejoins, or is about to hear that it failed), `New` (it starts, waits for
  the steering timer, searches, or has failed), `Joining` (it waits, exchanges its key
  or opens the network) or `Settled`, with exactly the tasks and timers that lead on.
* `BusyEndsHolds`: from `BusyInv`, which holds for overtaken devices too.
* `ResetNeedsStartsHolds`: from `CountInv`: the counter in RAM and the one in NV are at most
  the number of starts in a row, wrapped or not.
* `SuccessMeansJoinedOnCourse`: the case that `CommissioningStale` shows is the only one in
  which success is reported off a network.

Only model-checked, because it is out of the prover's reach: liveness under fairness
(`DamageHeals`, `GestureEnds`, `MarkedIsReset`, `KeepsTrying`). Every safety invariant and
action property of a passing run is proved. `MinimumKeptHolds`,
`TwoPositionDebouncedHolds` and `HoldsAlternateHolds` have the hypotheses named above,
which the constants of their runs meet.

## Not modelled, and why

* Most of the vendored SDK (over 95 % of the source lines: other chips and roles,
  register headers, Green Power, OTA, cluster servers that are compiled
  out). What the application's behaviour rests on is modelled: timers, NV, base
  device behaviour, attribute writes, start-up of the On/Off cluster, reporting. The
  network layer itself is a binary library.
* Touchlink: the application enables it (`app_cfg.h:91`, `app_main.c:53`), and another
  device can start it. It is a way of joining of its own, and `Commissioning` has only
  that of steering.
* Leaves: the confirm of a leave is taken in with an empty task queue. Tasks that were
  posted behind it run before it in the model instead of after it; those of a steering
  that a leave overtakes are what `overtaken` excludes.
* NV: the frame counter's own format and the reset of modules; removal of items,
  which nothing calls; several items of one id; bit errors of sound flash. The
  two bytes of a sector's flag are taken as one operation: a cut inside the last
  flag write of a change would leave neither sector valid.
* Button and LED: one key and a blink. The button's short press is in `Relay`, its
  reset in `Commissioning`; debounce, the 250 ms window and the blink are not. The
  90 s timer of a factory reset, which is never cancelled, only chooses a blink.
* Level settings in `app_relay.c`: when no valid settings are stored they are read
  from an uninitialised local; nothing else depends on them but the parameters of a
  level movement.
* Forced reports (`app_reporting.c`), which go past the reporting table; level and
  remote commands, which build messages; formatting, logging and number conversion
  helpers; the ADC thresholds; hardware start-up; the calendar of `app_time.c`, which
  nothing calls; the firmware encryption check.

## Plan

1. `RelayOnLog`: `Relay` over `OnOffLog` and `NvStore` instead of atomic durable
   states, with `Relay` as the abstract specification of what it does between power
   cuts and `DurableStatus` of what a cut may do; level settings in `Relay`.
2. An abstract specification of `Reporting` (a change is reported within the sum of
   both intervals).
3. `SwitchAndRelay`: `WallSwitch` driving `Relay`.
