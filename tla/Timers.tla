------------------------------- MODULE Timers -------------------------------
(***************************************************************************)
(* The software timers of the main loop                                    *)
(* (src/tl_zigbee_sdk/proj/os/ev_timer.c) as the application uses them:    *)
(* a pool of slots, the list of running timers, the conversion of clock    *)
(* ticks to milliseconds, and the pass that calls the callbacks of the     *)
(* timers that have run out, while those callbacks start and cancel other  *)
(* timers.                                                                 *)
(*                                                                         *)
(* A client is a callback of the application.  One that Keeps its handle   *)
(* starts its timer by "if (h) CANCEL(&h); h = SCHEDULE(...)" and clears   *)
(* the handle before its callback returns -1 (steerTimerEvt,               *)
(* factoryRst_timerEvt, timerLedEvt, identifyTimerEvt); the others are     *)
(* scheduled and forgotten (net_steer_start_offCb).                        *)
(***************************************************************************)
EXTENDS Integers, FiniteSets, Sequences

CONSTANTS
  Slots,      \* slots of the pool, 1 .. TIMER_EVENT_NUM
  Clients,    \* callbacks
  Keeps,      \* clients that keep the handle of their timer
  Repeats,    \* clients whose callback may ask to be called again
  Periods,    \* times to wait, in milliseconds
  Again,      \* what a callback returns to be called again: a time, or 0 for
              \* the same time
  MsTicks,    \* clock ticks in a millisecond
  ClockMod,   \* clock_time() counts modulo this
  MaxBlock,   \* bound: ticks between two calls of ev_timer_process; the
              \* clock does not wrap in it
  None        \* NULL

ASSUME TimersAssumption ==
  /\ IsFiniteSet(Slots) /\ Slots = 1 .. Cardinality(Slots) /\ Slots # {}
  /\ Keeps \subseteq Clients /\ Repeats \subseteq Clients
  /\ Periods \subseteq Nat \ {0} /\ Again \subseteq Nat
  /\ MsTicks \in Nat \ {0} /\ ClockMod \in Nat \ {0}
  /\ MaxBlock \in Nat /\ MaxBlock + MsTicks <= ClockMod
  /\ None \notin Slots \cup Clients

VARIABLES
  list,     \* timer_head and its successors
  evt,      \* timerEventPool.evt
  usedNum,  \* timerEventPool.used_num
  clock,    \* clock_time()
  prev,     \* prevSysTick
  rem,      \* remSysTick
  at,       \* the timer whose callback runs (timerEvt of ev_timer_executeCB)
  seen,     \* prev_head of ev_timer_executeCB
  handle,   \* the handles the clients keep
  age       \* history: ticks since the timer of a slot was set; since the
            \* sample of the clock that called it, when it repeats

vars == <<list, evt, usedNum, clock, prev, rem, at, seen, handle, age>>

Free == [cb |-> None, timeout |-> 0, period |-> 0, tick |-> 0,
         busy |-> FALSE, running |-> FALSE, used |-> FALSE]

(* Mutant of Lag: the difference of two clock values is signed. *)
LagSigned == clock - prev

Lag == (clock - prev) % ClockMod
Running(c) == {s \in Slots : evt[s].used /\ evt[s].cb = c}
Caller == evt[at].cb

Listed(l) == {l[i] : i \in DOMAIN l}
Position(l, s) == CHOOSE i \in DOMAIN l : l[i] = s
Without(l, s) ==
  SubSeq(l, 1, Position(l, s) - 1) \o SubSeq(l, Position(l, s) + 1, Len(l))

Init ==
  /\ list = <<>> /\ usedNum = 0
  /\ evt = [s \in Slots |-> Free]
  /\ clock = 0 /\ prev = clock /\ rem = 0
  /\ at = None /\ seen = None
  /\ handle = [c \in Keeps |-> None]
  /\ age = [s \in Slots |-> 0]

-----------------------------------------------------------------------------
(* Starting and cancelling.  A pool is [list, evt, used, age]: what a call  *)
(* changes, so that a client can cancel and schedule in one step.           *)

Pool == [list |-> list, evt |-> evt, used |-> usedNum, age |-> age]

Store(pool) ==
  /\ list' = pool.list /\ evt' = pool.evt /\ usedNum' = pool.used
  /\ age' = pool.age

(* Mutant of Release: the slot is given back, its timer stays in the list. *)
ReleaseListed(pool, s) ==
  [list |-> pool.list, evt |-> [pool.evt EXCEPT ![s].used = FALSE],
   used |-> pool.used - 1, age |-> [pool.age EXCEPT ![s] = 0]]

(* ev_timer_poolDelUpdate and LIST_DELETE; ev_unon_timer leaves a timer     *)
(* that is not in the list alone.  What the code leaves in the slot besides *)
(* isBusy is written before it is read again.                               *)
Release(pool, s) ==
  IF s \notin Listed(pool.list) THEN pool
  ELSE [list |-> Without(pool.list, s),
        evt |-> [pool.evt EXCEPT ![s] = [Free EXCEPT !.busy = pool.evt[s].busy]],
        used |-> pool.used - 1,
        age |-> [pool.age EXCEPT ![s] = 0]]

(* ev_timer_taskCancel: a timer whose callback runs is not cancelled and    *)
(* its handle is kept.                                                      *)
Cancellable(pool, s) ==
  s # None /\ pool.evt[s].used /\ ~pool.evt[s].busy

CancelIn(pool, s) ==
  IF Cancellable(pool, s) THEN Release(pool, s) ELSE pool

(* Mutant of HandleAfterCancel: the handle keeps pointing to the slot. *)
HandleAfterCancelStale(pool, s) == s

HandleAfterCancel(pool, s) == IF Cancellable(pool, s) THEN None ELSE s

(* ev_timer_freeGet: the first slot that is not used, if used_num says that *)
(* there is one.                                                            *)
FreeSlots(pool) ==
  IF pool.used >= Cardinality(Slots) THEN {}
  ELSE {s \in Slots : ~pool.evt[s].used
                      /\ \A t \in Slots : t < s => pool.evt[t].used}

(* ev_timer_add and ev_on_timer: the timer becomes the head of the list.    *)
AddIn(pool, s, c, p) ==
  [list |-> <<s>> \o pool.list,
   evt |-> [pool.evt EXCEPT ![s] =
     [cb |-> c, timeout |-> p, period |-> p,
      tick |-> IF @.running THEN @.tick ELSE clock,
      busy |-> FALSE, running |-> @.running, used |-> TRUE]],
   used |-> pool.used + 1,
   age |-> [pool.age EXCEPT ![s] = 0]]

(* The code that calls: the main loop between passes, or a callback of       *)
(* another client.                                                          *)
MayCall(c) == at # None => Caller # c

(* if (h) CANCEL(&h); h = SCHEDULE(cb, NULL, p); *)
Start(c, p) ==
  /\ c \in Keeps /\ MayCall(c)
  /\ LET pool == CancelIn(Pool, handle[c])
     IN \E s \in FreeSlots(pool) :
          /\ Store(AddIn(pool, s, c, p))
          /\ handle' = [handle EXCEPT ![c] = s]
  /\ UNCHANGED <<clock, prev, rem, at, seen>>

(* SCHEDULE(cb, NULL, p), the handle dropped *)
StartAndForget(c, p) ==
  /\ c \in Clients \ Keeps /\ MayCall(c)
  /\ \E s \in FreeSlots(Pool) : Store(AddIn(Pool, s, c, p))
  /\ UNCHANGED <<clock, prev, rem, at, seen, handle>>

(* if (h) CANCEL(&h); *)
Cancel(c) ==
  /\ c \in Keeps /\ handle[c] # None /\ MayCall(c)
  /\ Store(CancelIn(Pool, handle[c]))
  /\ handle' = [handle EXCEPT ![c] = HandleAfterCancel(Pool, handle[c])]
  /\ UNCHANGED <<clock, prev, rem, at, seen>>

(* No slot is left: the exception handler of the application resets.        *)
Exhausted(c) ==
  /\ MayCall(c) /\ FreeSlots(Pool) = {}
  /\ c \in Keeps => ~Cancellable(Pool, handle[c])
  /\ list' = <<>> /\ usedNum' = 0
  /\ evt' = [s \in Slots |-> Free]
  /\ prev' = clock /\ rem' = 0
  /\ at' = None /\ seen' = None
  /\ handle' = [k \in Keeps |-> None]
  /\ age' = [s \in Slots |-> 0]
  /\ UNCHANGED clock

-----------------------------------------------------------------------------
(* ev_timer_process *)

(* The clock goes on, in the main loop and while a callback runs.           *)
Elapse ==
  /\ Lag < MaxBlock
  /\ clock' = (clock + 1) % ClockMod
  /\ age' = [s \in Slots |-> IF evt[s].used THEN age[s] + 1 ELSE 0]
  /\ UNCHANGED <<list, evt, usedNum, prev, rem, at, seen, handle>>

(* Mutant of Elapsed: a new timer counts the time before it was set. *)
ElapsedOfLoop(s, ms) == ms

(* ev_timer_update: a timer that has seen no update yet counts from its     *)
(* registration, the others count the whole milliseconds of the main loop.  *)
(* The tick of the registration is not read again.                          *)
Elapsed(s, ms) ==
  IF evt[s].running THEN ms
  ELSE ((clock - evt[s].tick) % ClockMod) \div MsTicks

Updated(ms) ==
  [s \in Slots |->
     IF ms = 0 \/ ~evt[s].used THEN evt[s]
     ELSE [evt[s] EXCEPT
            !.timeout = IF @ > Elapsed(s, ms) THEN @ - Elapsed(s, ms) ELSE 0,
            !.running = TRUE, !.tick = 0]]

(* ev_timer_executeCB walks from a timer of the list to the first that has  *)
(* run out and calls its callback, or ends at the end of the list.          *)
NoneDue(l, e, from, to) == \A k \in from .. to : e[l[k]].timeout > 0

WalkFrom(l, e, i) ==
  \/ /\ NoneDue(l, e, i, Len(l))
     /\ at' = None /\ seen' = None /\ evt' = e
  \/ \E j \in i .. Len(l) :
       /\ NoneDue(l, e, i, j - 1) /\ e[l[j]].timeout = 0
       /\ at' = l[j] /\ seen' = Head(l)
       /\ evt' = [e EXCEPT ![l[j]].busy = TRUE]

(* Mutant of Process: the ticks short of a millisecond are dropped. *)
ProcessNoRemainder ==
  /\ at = None /\ clock # prev
  /\ prev' = clock
  /\ rem' = 0
  /\ WalkFrom(list, Updated(Lag \div MsTicks), 1)
  /\ UNCHANGED <<list, usedNum, clock, handle, age>>

Process ==
  LET ms == Lag \div MsTicks + (rem + (Lag % MsTicks)) \div MsTicks
  IN /\ at = None /\ clock # prev
     /\ prev' = clock
     /\ rem' = (rem + (Lag % MsTicks)) % MsTicks
     /\ WalkFrom(list, Updated(ms), 1)
     /\ UNCHANGED <<list, usedNum, clock, handle, age>>

(* Mutant of WalkOn: the walk always goes on one place further. *)
WalkOnSkipping(l, e) == WalkFrom(l, e, Position(list, at) + 1)

(* After a callback the pass starts over when the head of the list is not    *)
(* the one it started from, else it goes on behind the timer called: e and  *)
(* l are the slots and the list the callback leaves.                        *)
WalkOn(l, e) ==
  LET i == Position(list, at)
  IN IF l = <<>> \/ Head(l) # seen THEN WalkFrom(l, e, 1)
     ELSE WalkFrom(l, e, IF l = list THEN i + 1 ELSE i)

(* The callback returns -1, having cleared the handle of its timer.         *)
ReturnDone ==
  /\ at # None
  /\ LET pool == Release(Pool, at)
     IN /\ list' = pool.list /\ usedNum' = pool.used /\ age' = pool.age
        /\ WalkOn(pool.list, [pool.evt EXCEPT ![at].busy = FALSE])
  /\ handle' = [c \in Keeps |-> IF c = Caller THEN None ELSE handle[c]]
  /\ UNCHANGED <<clock, prev, rem>>

(* The callback returns 0, for the same period again, or another period.    *)
ReturnAgain(t) ==
  /\ at # None /\ Caller \in Repeats
  /\ LET p == IF t = 0 THEN evt[at].period ELSE t
     IN WalkOn(list, [evt EXCEPT ![at].period = p, ![at].timeout = p,
                                 ![at].busy = FALSE])
  /\ age' = [age EXCEPT ![at] = Lag]
  /\ UNCHANGED <<list, usedNum, clock, prev, rem, handle>>

Call ==
  \E c \in Clients :
    \/ \E p \in Periods : Start(c, p) \/ StartAndForget(c, p)
    \/ Cancel(c)
    \/ Exhausted(c)

Return == ReturnDone \/ \E t \in Again : ReturnAgain(t)

Next == Call \/ Elapse \/ Process \/ Return

Spec == Init /\ [][Next]_vars

-----------------------------------------------------------------------------
Ticks == 0 .. ClockMod - 1

TypeOK ==
  /\ list \in Seq(Slots)
  /\ evt \in [Slots -> [cb : Clients \cup {None},
                        timeout : Nat, period : {0} \cup Periods \cup Again,
                        tick : Ticks, busy : BOOLEAN, running : BOOLEAN,
                        used : BOOLEAN]]
  /\ usedNum \in 0 .. Cardinality(Slots)
  /\ clock \in Ticks /\ prev \in Ticks /\ rem \in 0 .. MsTicks - 1
  /\ at \in Slots \cup {None} /\ seen \in Slots \cup {None}
  /\ handle \in [Keeps -> Slots \cup {None}]
  /\ age \in [Slots -> Nat]

(* The pool, its counter and the list agree: the list holds each used slot  *)
(* once and no other, so that no slot leaks and none is given out twice.    *)
PoolSound ==
  /\ usedNum = Cardinality({s \in Slots : evt[s].used})
  /\ Len(list) = usedNum
  /\ Listed(list) = {s \in Slots : evt[s].used}

(* A handle is NULL or points to the timer of its own client, never to a    *)
(* slot that was given to another in the meantime, and apart from a timer   *)
(* whose callback runs a client that keeps handles has no timer without one *)
(* (ev_timer_taskCancel and its callers in zb_appCb.c, app_led.c).          *)
HandleOwns ==
  \A c \in Keeps :
    /\ handle[c] # None => handle[c] \in Running(c)
    /\ \A s \in Running(c) : s = handle[c]

(* A timer is called no more than a millisecond before its time, measured   *)
(* at the sample of the clock the pass works with (ev_timer_update).        *)
NeverEarly ==
  [][\A s \in Slots :
       evt'[s].busy /\ ~evt[s].busy =>
         age'[s] - Lag' > (evt'[s].period - 1) * MsTicks]_vars

(* When a pass is over every timer that had run out was called, whatever    *)
(* the callbacks did to the list meanwhile (ev_timer_executeCB).            *)
PassComplete ==
  [][at # None /\ at' = None =>
       \A s \in Slots : evt'[s].used => evt'[s].timeout > 0]_vars

(* A pass calls a timer at the latest when its time was over a millisecond   *)
(* before the sample of the clock, however the loop's time is cut into       *)
(* samples (the remainder of ev_timer_process).                             *)
NeverLate ==
  at = None =>
    \A s \in Slots : evt[s].used =>
      age[s] - Lag < (evt[s].period + 1) * MsTicks

=============================================================================
