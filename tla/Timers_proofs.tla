---------------------------- MODULE Timers_proofs ----------------------------
(***************************************************************************)
(* Proofs about Timers: the type invariant, that the pool, its counter and *)
(* the list agree, that handles own their timers, that a pass is complete, *)
(* and that no timer is called a millisecond early or late.                *)
(***************************************************************************)
EXTENDS Timers, FiniteSetTheorems, SequenceTheorems, TLAPS

Events == [cb : Clients \cup {None},
           timeout : Nat, period : {0} \cup Periods \cup Again,
           tick : Ticks, busy : BOOLEAN, running : BOOLEAN, used : BOOLEAN]

Used(e) == {s \in Slots : e[s].used}

(* No timer is in the list twice.                                           *)
Once(l) == \A i, j \in 1 .. Len(l) : l[i] = l[j] => i = j

(* A used slot has a callback and a time; an unused one is not running, so   *)
(* that its next timer counts from its registration.                        *)
SlotSound(v) ==
  /\ v.used => v.cb \in Clients /\ v.period > 0
  /\ ~v.used => ~v.running

(* The pool, its counter and the list agree.                                *)
PoolAgrees(pool) ==
  /\ pool.list \in Seq(Slots) /\ Once(pool.list)
  /\ pool.evt \in [Slots -> Events]
  /\ \A s \in Slots : SlotSound(pool.evt[s])
  /\ Listed(pool.list) = Used(pool.evt)
  /\ pool.used = Cardinality(Used(pool.evt)) /\ Len(pool.list) = pool.used
  /\ pool.age \in [Slots -> Nat]

(* The timer whose callback runs is the only busy one, it is in the list,   *)
(* and no timer before it has run out; between passes none has.             *)
WalkAgrees(l, e, a, first) ==
  /\ a \in Slots \cup {None} /\ first \in Slots \cup {None}
  /\ \A s \in Slots : e[s].busy <=> s = a
  /\ a # None => a \in Listed(l) /\ NoneDue(l, e, 1, Position(l, a) - 1)
  /\ a = None => NoneDue(l, e, 1, Len(l))

ClockType == clock \in Ticks /\ prev \in Ticks /\ rem \in 0 .. MsTicks - 1

HandleType == handle \in [Keeps -> Slots \cup {None}]

SlotInv ==
  /\ PoolAgrees(Pool)
  /\ WalkAgrees(list, evt, at, seen)
  /\ ClockType /\ HandleType /\ HandleOwns

-----------------------------------------------------------------------------
(* Lists and slots *)

(* The slots in use are finitely many, no more than there are.              *)
LEMMA UsedFinite ==
  ASSUME NEW e
  PROVE  /\ IsFiniteSet(Used(e)) /\ Cardinality(Used(e)) \in Nat
         /\ Cardinality(Used(e)) <= Cardinality(Slots) /\ Cardinality(Slots) \in Nat
<1>1. Used(e) \subseteq Slots /\ IsFiniteSet(Slots)
  BY TimersAssumption DEF Used
<1> QED BY <1>1, FS_Subset, FS_CardinalityType

(* A timer's place in a list.                                               *)
LEMMA PositionFacts ==
  ASSUME NEW l \in Seq(Slots), NEW s \in Listed(l)
  PROVE  /\ Position(l, s) \in 1 .. Len(l) /\ l[Position(l, s)] = s
         /\ Len(l) \in Nat
         /\ Once(l) => \A i \in 1 .. Len(l) : l[i] = s => i = Position(l, s)
<1>1. DOMAIN l = 1 .. Len(l) /\ Len(l) \in Nat
  BY LenProperties
<1>2. \E i \in DOMAIN l : l[i] = s
  BY DEF Listed
<1>3. Position(l, s) \in DOMAIN l /\ l[Position(l, s)] = s
  BY <1>2 DEF Position
<1> QED BY <1>1, <1>3 DEF Once

(* The members of a list.                                                   *)
LEMMA ListedFacts ==
  ASSUME NEW l \in Seq(Slots)
  PROVE  /\ Len(l) \in Nat /\ DOMAIN l = 1 .. Len(l)
         /\ \A i \in 1 .. Len(l) : l[i] \in Slots /\ l[i] \in Listed(l)
         /\ \A s \in Listed(l) : s \in Slots /\ \E i \in 1 .. Len(l) : l[i] = s
<1>1. DOMAIN l = 1 .. Len(l) /\ Len(l) \in Nat
  BY LenProperties
<1>2. \A i \in 1 .. Len(l) : l[i] \in Slots
  BY <1>1, ElementOfSeq
<1> QED BY <1>1, <1>2 DEF Listed

(* A list with one timer taken out.                                         *)
LEMMA WithoutFacts ==
  ASSUME NEW l \in Seq(Slots), Once(l), NEW s \in Listed(l),
         NEW w, w = Without(l, s)
  PROVE  /\ w \in Seq(Slots) /\ Len(w) = Len(l) - 1
         /\ \A i \in 1 .. Len(w) : w[i] = IF i < Position(l, s) THEN l[i] ELSE l[i + 1]
         /\ Once(w) /\ Listed(w) = Listed(l) \ {s}
<1> DEFINE p == Position(l, s)
           u == SubSeq(l, 1, p - 1)
           v == SubSeq(l, p + 1, Len(l))
<1>1. /\ p \in 1 .. Len(l) /\ l[p] = s /\ Len(l) \in Nat
      /\ \A i \in 1 .. Len(l) : l[i] = s => i = p
  BY PositionFacts
<1>2. /\ \A i \in 1 .. Len(l) : l[i] \in Slots /\ l[i] \in Listed(l)
      /\ \A t \in Listed(l) : t \in Slots /\ \E i \in 1 .. Len(l) : l[i] = t
  BY ListedFacts
<1>3. w = u \o v
  BY DEF Without
<1> HIDE DEF p
<1>4. /\ u \in Seq(Slots) /\ Len(u) = p - 1
      /\ \A i \in 1 .. p - 1 : u[i] = l[i]
  BY <1>1, <1>2, SubSeqProperties
<1>5. /\ v \in Seq(Slots) /\ Len(v) = Len(l) - p
      /\ \A i \in 1 .. Len(l) - p : v[i] = l[p + i]
  BY <1>1, <1>2, SubSeqProperties
<1> HIDE DEF u, v
<1>6. /\ w \in Seq(Slots) /\ Len(w) = Len(l) - 1
      /\ \A i \in 1 .. Len(w) : w[i] = IF i < p THEN u[i] ELSE v[i - (p - 1)]
  <2>1. w \in Seq(Slots) /\ Len(w) = Len(u) + Len(v)
    BY <1>3, <1>4, <1>5, ConcatProperties
  <2>2. Len(w) = Len(l) - 1
    BY <1>1, <1>4, <1>5, <2>1
  <2>3. \A i \in 1 .. Len(u) + Len(v) :
          w[i] = IF i <= Len(u) THEN u[i] ELSE v[i - Len(u)]
    BY <1>3, <1>4, <1>5, ConcatProperties
  <2> QED BY <1>1, <1>4, <1>5, <2>1, <2>2, <2>3
<1>7. \A i \in 1 .. Len(w) : w[i] = IF i < p THEN l[i] ELSE l[i + 1]
  <2> TAKE i \in 1 .. Len(w)
  <2>1. CASE i < p
    BY <1>1, <1>4, <1>6, <2>1
  <2>2. CASE ~(i < p)
    <3>1. i - (p - 1) \in 1 .. Len(l) - p /\ p + (i - (p - 1)) = i + 1
      BY <1>1, <1>6, <2>2
    <3> QED BY <1>1, <1>5, <1>6, <2>2, <3>1
  <2> QED BY <2>1, <2>2
<1>8. Once(w)
  <2> SUFFICES ASSUME NEW i \in 1 .. Len(w), NEW j \in 1 .. Len(w), w[i] = w[j]
               PROVE  i = j
    BY DEF Once
  <2> DEFINE f(k) == IF k < p THEN k ELSE k + 1
  <2>1. f(i) \in 1 .. Len(l) /\ f(j) \in 1 .. Len(l)
    BY <1>1, <1>6
  <2>2. l[f(i)] = l[f(j)]
    BY <1>7
  <2>3. f(i) = f(j)
    BY <2>1, <2>2 DEF Once
  <2> QED BY <1>1, <2>3
<1>9. Listed(w) = Listed(l) \ {s}
  <2>1. DOMAIN w = 1 .. Len(w)
    BY <1>6, LenProperties
  <2>2. ASSUME NEW t \in Listed(w) PROVE t \in Listed(l) \ {s}
    <3>1. PICK i \in 1 .. Len(w) : w[i] = t
      BY <2>1 DEF Listed
    <3>2. CASE i < p
      <4>1. i \in 1 .. Len(l) /\ t = l[i] /\ i # p
        BY <1>1, <1>6, <1>7, <3>1, <3>2
      <4> QED BY <1>1, <1>2, <4>1
    <3>3. CASE ~(i < p)
      <4>1. i + 1 \in 1 .. Len(l) /\ t = l[i + 1] /\ i + 1 # p
        BY <1>1, <1>6, <1>7, <3>1, <3>3
      <4> QED BY <1>1, <1>2, <4>1
    <3> QED BY <3>2, <3>3
  <2>3. ASSUME NEW t \in Listed(l), t # s PROVE t \in Listed(w)
    <3>1. PICK i \in 1 .. Len(l) : l[i] = t
      BY <1>2
    <3>2. CASE i < p
      <4>1. i \in 1 .. Len(w) /\ w[i] = t
        BY <1>1, <1>6, <1>7, <3>1, <3>2
      <4> QED BY <2>1, <4>1 DEF Listed
    <3>3. CASE i > p
      <4>1. i - 1 \in 1 .. Len(w) /\ ~(i - 1 < p) /\ (i - 1) + 1 = i
        BY <1>1, <1>6, <3>3
      <4>2. w[i - 1] = t
        BY <1>7, <3>1, <4>1
      <4> QED BY <2>1, <4>1, <4>2 DEF Listed
    <3>4. i # p
      BY <1>1, <2>3, <3>1
    <3> QED BY <1>1, <3>2, <3>3, <3>4
  <2> QED BY <2>2, <2>3
<1> QED BY <1>6, <1>7, <1>8, <1>9 DEF p

(* A list with a timer put in front.                                        *)
LEMMA AddedFacts ==
  ASSUME NEW l \in Seq(Slots), Once(l), NEW s \in Slots, s \notin Listed(l),
         NEW w, w = <<s>> \o l
  PROVE  /\ w \in Seq(Slots) /\ Len(w) = Len(l) + 1
         /\ w[1] = s /\ \A i \in 1 .. Len(l) : w[i + 1] = l[i]
         /\ Once(w) /\ Listed(w) = Listed(l) \cup {s}
<1>1. /\ Len(l) \in Nat
      /\ \A i \in 1 .. Len(l) : l[i] \in Slots /\ l[i] \in Listed(l)
      /\ \A t \in Listed(l) : t \in Slots /\ \E i \in 1 .. Len(l) : l[i] = t
  BY ListedFacts
<1>2. <<s>> \in Seq(Slots) /\ Len(<<s>>) = 1 /\ <<s>>[1] = s
  OBVIOUS
<1>3. w \in Seq(Slots) /\ Len(w) = Len(l) + 1
  <2>1. w \in Seq(Slots) /\ Len(w) = Len(<<s>>) + Len(l)
    BY <1>2, ConcatProperties
  <2> QED BY <1>1, <1>2, <2>1
<1>4. \A i \in 1 .. Len(w) : w[i] = IF i <= 1 THEN s ELSE l[i - 1]
  <2>1. \A i \in 1 .. Len(<<s>>) + Len(l) :
          w[i] = IF i <= Len(<<s>>) THEN <<s>>[i] ELSE l[i - Len(<<s>>)]
    BY <1>2, ConcatProperties
  <2> QED BY <1>1, <1>2, <1>3, <2>1
<1>5. w[1] = s /\ \A i \in 1 .. Len(l) : w[i + 1] = l[i]
  <2>1. w[1] = s
    BY <1>1, <1>3, <1>4
  <2>2. ASSUME NEW i \in 1 .. Len(l) PROVE w[i + 1] = l[i]
    <3>1. i + 1 \in 1 .. Len(w) /\ ~(i + 1 <= 1) /\ (i + 1) - 1 = i
      BY <1>1, <1>3
    <3> QED BY <1>4, <3>1
  <2> QED BY <2>1, <2>2
<1>6. Once(w)
  <2> SUFFICES ASSUME NEW i \in 1 .. Len(w), NEW j \in 1 .. Len(w), w[i] = w[j]
               PROVE  i = j
    BY DEF Once
  <2>1. ASSUME NEW k \in 1 .. Len(w), k # 1
        PROVE  k - 1 \in 1 .. Len(l) /\ w[k] = l[k - 1] /\ w[k] # s
    <3>1. k - 1 \in 1 .. Len(l) /\ ~(k <= 1)
      BY <1>1, <1>3, <2>1
    <3>2. w[k] = l[k - 1]
      BY <1>4, <3>1
    <3> QED BY <1>1, <3>1, <3>2
  <2>2. CASE i = 1 \/ j = 1
    BY <1>5, <2>1, <2>2
  <2>3. CASE i # 1 /\ j # 1
    <3>1. i - 1 = j - 1
      BY <2>1, <2>3 DEF Once
    <3> QED BY <1>1, <1>3, <3>1
  <2> QED BY <2>2, <2>3
<1>7. Listed(w) = Listed(l) \cup {s}
  <2>1. DOMAIN w = 1 .. Len(w)
    BY <1>3, LenProperties
  <2>2. ASSUME NEW t \in Listed(w) PROVE t \in Listed(l) \cup {s}
    <3>1. PICK i \in 1 .. Len(w) : w[i] = t
      BY <2>1 DEF Listed
    <3>2. CASE i = 1
      BY <1>5, <3>1, <3>2
    <3>3. CASE i # 1
      <4>1. i - 1 \in 1 .. Len(l) /\ ~(i <= 1)
        BY <1>1, <1>3, <3>3
      <4> QED BY <1>1, <1>4, <3>1, <4>1
    <3> QED BY <3>2, <3>3
  <2>3. ASSUME NEW t \in Listed(l) \cup {s} PROVE t \in Listed(w)
    <3>1. CASE t = s
      <4>1. 1 \in 1 .. Len(w)
        BY <1>1, <1>3
      <4> QED BY <1>5, <2>1, <3>1, <4>1 DEF Listed
    <3>2. CASE t \in Listed(l)
      <4>1. PICK i \in 1 .. Len(l) : l[i] = t
        BY <1>1, <3>2
      <4>2. i + 1 \in 1 .. Len(w) /\ w[i + 1] = t
        BY <1>1, <1>3, <1>5, <4>1
      <4> QED BY <2>1, <4>2 DEF Listed
    <3> QED BY <2>3, <3>1, <3>2
  <2> QED BY <2>2, <2>3
<1> QED BY <1>3, <1>5, <1>6, <1>7

-----------------------------------------------------------------------------
(* What the operations make of the pool *)

(* A slot given back.                                                       *)
LEMMA ReleaseFacts ==
  ASSUME NEW pool, PoolAgrees(pool), NEW s \in Slots, pool.evt[s].used,
         NEW r, r = Release(pool, s)
  PROVE  /\ PoolAgrees(r)
         /\ r.list = Without(pool.list, s) /\ s \in Listed(pool.list)
         /\ ~r.evt[s].used /\ ~r.evt[s].running
         /\ r.evt[s].busy = pool.evt[s].busy
         /\ \A t \in Slots : t # s => r.evt[t] = pool.evt[t]
         /\ \A t \in Slots : t # s => r.age[t] = pool.age[t]
<1> DEFINE old == pool.evt
           new == [Free EXCEPT !.busy = old[s].busy]
<1>1. /\ pool.list \in Seq(Slots) /\ Once(pool.list) /\ old \in [Slots -> Events]
      /\ \A t \in Slots : SlotSound(old[t])
      /\ Listed(pool.list) = Used(old)
      /\ pool.used = Cardinality(Used(old)) /\ Len(pool.list) = pool.used
      /\ pool.age \in [Slots -> Nat]
  BY DEF PoolAgrees
<1>2. s \in Listed(pool.list)
  BY <1>1 DEF Used
<1>3. /\ r.list = Without(pool.list, s)
      /\ r.evt = [old EXCEPT ![s] = new]
      /\ r.used = pool.used - 1
      /\ r.age = [pool.age EXCEPT ![s] = 0]
  BY <1>2 DEF Release
<1>4. new \in Events /\ ~new.used /\ ~new.running /\ new.busy = old[s].busy
  <2>1. old[s].busy \in BOOLEAN
    BY <1>1 DEF Events
  <2>2. 0 \in Ticks
    BY TimersAssumption DEF Ticks
  <2> QED BY <2>1, <2>2 DEF Events, Free
<1> HIDE DEF new
<1>5. /\ r.evt \in [Slots -> Events] /\ r.evt[s] = new
      /\ \A t \in Slots : t # s => r.evt[t] = old[t]
  BY <1>1, <1>3, <1>4
<1>6. /\ r.list \in Seq(Slots) /\ Len(r.list) = Len(pool.list) - 1
      /\ Once(r.list) /\ Listed(r.list) = Listed(pool.list) \ {s}
  BY <1>1, <1>2, <1>3, WithoutFacts
<1>7. Used(r.evt) = Used(old) \ {s}
  BY <1>4, <1>5 DEF Used
<1>8. Cardinality(Used(r.evt)) = Cardinality(Used(old)) - 1
  <2>1. IsFiniteSet(Used(old)) /\ s \in Used(old)
    BY <1>1, <1>2, UsedFinite
  <2> QED BY <1>7, <2>1, FS_RemoveElement
<1>9. \A t \in Slots : SlotSound(r.evt[t])
  BY <1>1, <1>4, <1>5 DEF SlotSound
<1>10. /\ r.age \in [Slots -> Nat]
       /\ \A t \in Slots : t # s => r.age[t] = pool.age[t]
  BY <1>1, <1>3
<1>11. PoolAgrees(r)
  BY <1>1, <1>3, <1>5, <1>6, <1>7, <1>8, <1>9, <1>10 DEF PoolAgrees
<1> QED BY <1>2, <1>3, <1>4, <1>5, <1>10, <1>11

(* A slot as ev_timer_add leaves it.                                        *)
Fresh(c, p) ==
  [cb |-> c, timeout |-> p, period |-> p, tick |-> clock,
   busy |-> FALSE, running |-> FALSE, used |-> TRUE]

(* A slot taken.                                                            *)
LEMMA AddFacts ==
  ASSUME clock \in Ticks, NEW pool, PoolAgrees(pool), NEW s \in FreeSlots(pool),
         NEW c \in Clients, NEW p \in Periods,
         NEW r, r = AddIn(pool, s, c, p)
  PROVE  /\ PoolAgrees(r)
         /\ s \in Slots /\ ~pool.evt[s].used /\ s \notin Listed(pool.list)
         /\ r.evt[s] = Fresh(c, p)
         /\ r.age[s] = 0
         /\ \A t \in Slots : t # s => r.evt[t] = pool.evt[t]
         /\ \A t \in Slots : t # s => r.age[t] = pool.age[t]
<1> DEFINE old == pool.evt
           new == Fresh(c, p)
<1>1. /\ pool.list \in Seq(Slots) /\ Once(pool.list) /\ old \in [Slots -> Events]
      /\ \A t \in Slots : SlotSound(old[t])
      /\ Listed(pool.list) = Used(old)
      /\ pool.used = Cardinality(Used(old)) /\ Len(pool.list) = pool.used
      /\ pool.age \in [Slots -> Nat]
  BY DEF PoolAgrees
<1>2. s \in Slots /\ ~old[s].used
  BY DEF FreeSlots
<1>3. ~old[s].running
  BY <1>1, <1>2 DEF SlotSound
<1>4. /\ r.list = <<s>> \o pool.list
      /\ r.evt = [old EXCEPT ![s] = new]
      /\ r.used = pool.used + 1
      /\ r.age = [pool.age EXCEPT ![s] = 0]
  <2>1. old[s].running = FALSE
    BY <1>1, <1>2, <1>3 DEF Events
  <2> QED BY <1>1, <1>2, <2>1 DEF AddIn, Fresh
<1>5. p \in Nat /\ p > 0
  BY TimersAssumption
<1>6. new \in Events /\ new.used /\ SlotSound(new)
  BY <1>5 DEF Events, SlotSound, Fresh
<1> HIDE DEF new
<1>7. /\ r.evt \in [Slots -> Events] /\ r.evt[s] = new
      /\ \A t \in Slots : t # s => r.evt[t] = old[t]
  BY <1>1, <1>2, <1>4, <1>6
<1>8. s \notin Listed(pool.list)
  BY <1>1, <1>2 DEF Used
<1>9. /\ r.list \in Seq(Slots) /\ Len(r.list) = Len(pool.list) + 1
      /\ r.list[1] = s
      /\ \A i \in 1 .. Len(pool.list) : r.list[i + 1] = pool.list[i]
      /\ Once(r.list) /\ Listed(r.list) = Listed(pool.list) \cup {s}
  <2> DEFINE l == pool.list
             w == r.list
  <2>1. l \in Seq(Slots) /\ Once(l) /\ s \in Slots /\ s \notin Listed(l)
    BY <1>1, <1>2, <1>8
  <2>2. w = <<s>> \o l
    BY <1>4
  <2> HIDE DEF l, w
  <2>3. /\ w \in Seq(Slots) /\ Len(w) = Len(l) + 1
        /\ Once(w) /\ Listed(w) = Listed(l) \cup {s}
    BY <2>1, <2>2, AddedFacts
  <2>4. w[1] = s /\ \A i \in 1 .. Len(l) : w[i + 1] = l[i]
    BY <2>1, <2>2, AddedFacts
  <2> QED BY <2>3, <2>4 DEF l, w
<1>10. Used(r.evt) = Used(old) \cup {s}
  BY <1>2, <1>6, <1>7 DEF Used
<1>11. Cardinality(Used(r.evt)) = Cardinality(Used(old)) + 1
  <2>1. IsFiniteSet(Used(old)) /\ s \notin Used(old)
    BY <1>1, <1>8, UsedFinite
  <2> QED BY <1>10, <2>1, FS_AddElement
<1>12. \A t \in Slots : SlotSound(r.evt[t])
  BY <1>1, <1>6, <1>7
<1>13. /\ r.age \in [Slots -> Nat] /\ r.age[s] = 0
       /\ \A t \in Slots : t # s => r.age[t] = pool.age[t]
  BY <1>1, <1>2, <1>4
<1>14. PoolAgrees(r)
  BY <1>1, <1>4, <1>7, <1>9, <1>10, <1>11, <1>12, <1>13 DEF PoolAgrees
<1> QED BY <1>2, <1>7, <1>8, <1>9, <1>13, <1>14 DEF new

(* A change of the slots that leaves their use alone.                        *)
LEMMA SlotsChanged ==
  ASSUME NEW pool, PoolAgrees(pool), NEW e \in [Slots -> Events], NEW g \in [Slots -> Nat],
         \A s \in Slots : SlotSound(e[s]) /\ (e[s].used <=> pool.evt[s].used)
  PROVE  PoolAgrees([list |-> pool.list, evt |-> e, used |-> pool.used, age |-> g])
<1>1. Used(e) = Used(pool.evt)
  BY DEF Used
<1> QED BY <1>1 DEF PoolAgrees

(* The pool in the next state.                                              *)
LEMMA PoolNext ==
  ASSUME NEW pool, PoolAgrees(pool), list' = pool.list, evt' = pool.evt,
         usedNum' = pool.used, age' = pool.age
  PROVE  PoolAgrees(Pool)'
<1> DEFINE q == [list |-> list', evt |-> evt', used |-> usedNum', age |-> age']
<1>1. q.list = list' /\ q.evt = evt' /\ q.used = usedNum' /\ q.age = age'
  OBVIOUS
<1> HIDE DEF q
<1>2. PoolAgrees(q)
  BY <1>1 DEF PoolAgrees
<1> QED BY <1>1, <1>2
  DEF PoolAgrees, Pool, Once, Listed, Used, SlotSound, Events, Ticks, q

(* Where a walk through the list ends, when no timer before the place it     *)
(* starts from has run out.                                                 *)
LEMMA WalkFacts ==
  ASSUME NEW pool, PoolAgrees(pool), NEW i \in 1 .. Len(pool.list) + 1,
         NoneDue(pool.list, pool.evt, 1, i - 1),
         \A s \in Slots : ~pool.evt[s].busy,
         WalkFrom(pool.list, pool.evt, i),
         list' = pool.list, usedNum' = pool.used, age' = pool.age
  PROVE  /\ PoolAgrees(Pool)' /\ WalkAgrees(list, evt, at, seen)'
         /\ \A s \in Slots :
              /\ evt'[s].cb = pool.evt[s].cb /\ evt'[s].timeout = pool.evt[s].timeout
              /\ evt'[s].period = pool.evt[s].period /\ evt'[s].tick = pool.evt[s].tick
              /\ evt'[s].running = pool.evt[s].running /\ evt'[s].used = pool.evt[s].used
              /\ evt'[s].busy => pool.evt[s].used /\ pool.evt[s].timeout = 0
<1> DEFINE l == pool.list
           e == pool.evt
<1>1. /\ l \in Seq(Slots) /\ Once(l) /\ e \in [Slots -> Events]
      /\ \A s \in Slots : SlotSound(e[s])
      /\ Listed(l) = Used(e) /\ pool.age \in [Slots -> Nat]
  BY DEF PoolAgrees
<1>2. /\ Len(l) \in Nat
      /\ \A j \in 1 .. Len(l) : l[j] \in Slots /\ l[j] \in Listed(l)
  BY <1>1, ListedFacts
<1>3. None \notin Slots
  BY TimersAssumption
<1>4. CASE NoneDue(l, e, i, Len(l)) /\ at' = None /\ seen' = None /\ evt' = e
  <2>1. NoneDue(l, e, 1, Len(l))
    BY <1>2, <1>4 DEF NoneDue
  <2>2. WalkAgrees(list, evt, at, seen)'
    BY <1>3, <1>4, <2>1 DEF WalkAgrees, NoneDue
  <2>3. PoolAgrees(Pool)'
    BY <1>4, PoolNext
  <2> QED BY <1>4, <2>2, <2>3
<1>5. ASSUME NEW j \in i .. Len(l),
             NoneDue(l, e, i, j - 1), e[l[j]].timeout = 0,
             at' = l[j], seen' = Head(l), evt' = [e EXCEPT ![l[j]].busy = TRUE]
      PROVE  /\ PoolAgrees(Pool)' /\ WalkAgrees(list, evt, at, seen)'
             /\ \A s \in Slots :
                  /\ evt'[s].cb = e[s].cb /\ evt'[s].timeout = e[s].timeout
                  /\ evt'[s].period = e[s].period /\ evt'[s].tick = e[s].tick
                  /\ evt'[s].running = e[s].running /\ evt'[s].used = e[s].used
                  /\ evt'[s].busy => e[s].used /\ e[s].timeout = 0
  <2>1. j \in 1 .. Len(l)
    BY <1>2
  <2>2. l[j] \in Slots /\ l[j] \in Listed(l) /\ e[l[j]] \in Events
    BY <1>1, <1>2, <2>1
  <2>3. NoneDue(l, e, 1, j - 1)
    BY <1>2, <1>5 DEF NoneDue
  <2>4. Position(l, l[j]) = j
    BY <1>1, <2>1, <2>2, PositionFacts
  <2>5. Head(l) \in Slots
    BY <1>1, <1>2, <2>1
  <2>6. \A s \in Slots : s # l[j] => evt'[s] = e[s]
    BY <1>1, <1>5
  <2>7. evt'[l[j]] = [e[l[j]] EXCEPT !.busy = TRUE]
    BY <1>1, <1>5, <2>2
  <2>8. /\ evt'[l[j]].cb = e[l[j]].cb /\ evt'[l[j]].timeout = e[l[j]].timeout
        /\ evt'[l[j]].period = e[l[j]].period /\ evt'[l[j]].tick = e[l[j]].tick
        /\ evt'[l[j]].running = e[l[j]].running /\ evt'[l[j]].used = e[l[j]].used
        /\ evt'[l[j]].busy = TRUE /\ evt'[l[j]] \in Events
    BY <2>2, <2>7 DEF Events
  <2>9. \A s \in Slots :
          /\ evt'[s].cb = e[s].cb /\ evt'[s].timeout = e[s].timeout
          /\ evt'[s].period = e[s].period /\ evt'[s].tick = e[s].tick
          /\ evt'[s].running = e[s].running /\ evt'[s].used = e[s].used
          /\ evt'[s] \in Events
    BY <1>1, <2>6, <2>8
  <2>10. \A s \in Slots : evt'[s].busy <=> s = l[j]
    BY <2>6, <2>8
  <2>11. e[l[j]].used
    BY <1>1, <2>2 DEF Used
  <2>12. PoolAgrees(Pool)'
    <3>1. evt' \in [Slots -> Events]
      BY <1>1, <1>5, <2>9
    <3>2. \A s \in Slots : SlotSound(evt'[s]) /\ (evt'[s].used <=> e[s].used)
      BY <1>1, <2>9 DEF SlotSound
    <3> DEFINE q == [list |-> l, evt |-> evt', used |-> pool.used, age |-> pool.age]
    <3>3. PoolAgrees(q)
      BY <1>1, <3>1, <3>2, SlotsChanged
    <3>4. q.list = l /\ q.evt = evt' /\ q.used = pool.used /\ q.age = pool.age
      OBVIOUS
    <3> HIDE DEF q
    <3> QED BY <3>3, <3>4, PoolNext
  <2>13. NoneDue(l, evt', 1, j - 1)
    <3> SUFFICES ASSUME NEW k \in 1 .. j - 1 PROVE evt'[l[k]].timeout > 0
      BY DEF NoneDue
    <3>1. l[k] \in Slots
      BY <1>2, <2>1
    <3> QED BY <2>3, <2>9, <3>1 DEF NoneDue
  <2>14. WalkAgrees(l, evt', at', seen')
    BY <1>3, <1>5, <2>2, <2>4, <2>5, <2>10, <2>13 DEF WalkAgrees
  <2>15. WalkAgrees(list, evt, at, seen)'
    BY <2>14 DEF WalkAgrees, NoneDue, Listed, Position
  <2>16. \A s \in Slots : evt'[s].busy => e[s].used /\ e[s].timeout = 0
    BY <1>5, <2>10, <2>11
  <2> QED BY <2>9, <2>12, <2>15, <2>16
<1> QED BY <1>4, <1>5 DEF WalkFrom

(* The walk goes on as before when another timer is given back.              *)
LEMMA ReleaseWalk ==
  ASSUME NEW pool, PoolAgrees(pool), NEW s \in Slots, pool.evt[s].used,
         NEW r, r = Release(pool, s), NEW a, NEW first, a # s,
         WalkAgrees(pool.list, pool.evt, a, first)
  PROVE  WalkAgrees(r.list, r.evt, a, first)
<1> DEFINE l == pool.list
           w == r.list
           p == Position(l, s)
           up(k) == IF k < p THEN k ELSE k + 1
<1>1. /\ w = Without(l, s) /\ s \in Listed(l)
      /\ r.evt[s].busy = pool.evt[s].busy
      /\ \A t \in Slots : t # s => r.evt[t] = pool.evt[t]
  BY ReleaseFacts
<1>2. l \in Seq(Slots) /\ Once(l)
  BY DEF PoolAgrees
<1>3. /\ w \in Seq(Slots) /\ Len(w) = Len(l) - 1
      /\ \A k \in 1 .. Len(w) : w[k] = l[up(k)]
      /\ Once(w) /\ Listed(w) = Listed(l) \ {s}
  BY <1>1, <1>2, WithoutFacts
<1>4. /\ Len(l) \in Nat
      /\ \A k \in 1 .. Len(w) : w[k] \in Slots /\ w[k] # s
  BY <1>2, <1>3, ListedFacts
<1>5. p \in 1 .. Len(l) /\ l[p] = s
  BY <1>1, <1>2, PositionFacts
<1>6. \A t \in Slots : r.evt[t].busy <=> t = a
  BY <1>1 DEF WalkAgrees
<1>7. ASSUME NEW k \in 1 .. Len(w), pool.evt[l[up(k)]].timeout > 0
      PROVE  r.evt[w[k]].timeout > 0
  BY <1>1, <1>3, <1>4, <1>7
<1>8. CASE a = None
  <2>1. \A k \in 1 .. Len(w) : up(k) \in 1 .. Len(l)
    BY <1>3, <1>4, <1>5
  <2>2. NoneDue(w, r.evt, 1, Len(w))
    BY <1>7, <1>8, <2>1 DEF WalkAgrees, NoneDue
  <2> QED BY <1>6, <1>8, <2>2 DEF WalkAgrees
<1>9. CASE a # None
  <2> DEFINE q == Position(l, a)
             d == Position(w, a)
  <2>1. a \in Listed(l) /\ a \in Slots
    BY <1>9 DEF WalkAgrees
  <2>2. /\ q \in 1 .. Len(l) /\ l[q] = a
        /\ \A i \in 1 .. Len(l) : l[i] = a => i = q
    BY <1>2, <2>1, PositionFacts
  <2>3. a \in Listed(w)
    BY <1>3, <2>1
  <2>4. d \in 1 .. Len(w) /\ w[d] = a
    BY <1>3, <2>3, PositionFacts
  <2> HIDE DEF q, d
  <2>5. up(d) = q
    <3>1. up(d) \in 1 .. Len(l) /\ l[up(d)] = a
      BY <1>3, <1>4, <1>5, <2>4
    <3> QED BY <2>2, <3>1
  <2>6. ASSUME NEW k \in 1 .. d - 1
        PROVE  k \in 1 .. Len(w) /\ up(k) \in 1 .. q - 1
    BY <1>3, <1>4, <1>5, <2>2, <2>4, <2>5
  <2>7. NoneDue(l, pool.evt, 1, q - 1)
    BY <1>9 DEF WalkAgrees, q
  <2>8. NoneDue(w, r.evt, 1, d - 1)
    BY <1>7, <2>6, <2>7 DEF NoneDue
  <2> QED BY <1>6, <1>9, <2>3, <2>8 DEF WalkAgrees, d
<1> QED BY <1>8, <1>9

(* And when a timer is added, which takes time.                              *)
LEMMA AddWalk ==
  ASSUME clock \in Ticks, NEW pool, PoolAgrees(pool), NEW s \in FreeSlots(pool),
         NEW c \in Clients, NEW p \in Periods,
         NEW r, r = AddIn(pool, s, c, p), NEW a, NEW first,
         WalkAgrees(pool.list, pool.evt, a, first)
  PROVE  WalkAgrees(r.list, r.evt, a, first)
<1> DEFINE l == pool.list
           w == r.list
<1>a. r.evt[s].timeout = p /\ r.evt[s].busy = FALSE
  <2>1. r.evt[s] = Fresh(c, p)
    BY AddFacts
  <2> QED BY <2>1 DEF Fresh
<1>b. PoolAgrees(r) /\ s \in Slots /\ s \notin Listed(l)
  BY AddFacts
<1>c. \A t \in Slots : t # s => r.evt[t] = pool.evt[t]
  BY AddFacts
<1>d. w = <<s>> \o l
  BY DEF AddIn
<1>1. /\ PoolAgrees(r) /\ s \in Slots /\ s \notin Listed(l)
      /\ r.evt[s].timeout = p /\ r.evt[s].busy = FALSE
      /\ \A t \in Slots : t # s => r.evt[t] = pool.evt[t]
  BY <1>a, <1>b, <1>c
<1>2. l \in Seq(Slots) /\ Once(l)
  BY DEF PoolAgrees
<1>3. p \in Nat /\ p > 0 /\ None \notin Slots
  BY TimersAssumption
<1> HIDE DEF l, w
<1>4. /\ w \in Seq(Slots) /\ Len(w) = Len(l) + 1
      /\ w[1] = s /\ \A i \in 1 .. Len(l) : w[i + 1] = l[i]
      /\ Once(w) /\ Listed(w) = Listed(l) \cup {s}
  <2>1. s \in Slots /\ s \notin Listed(l)
    BY <1>b
  <2>2. /\ w \in Seq(Slots) /\ Len(w) = Len(l) + 1
        /\ Once(w) /\ Listed(w) = Listed(l) \cup {s}
    BY <1>2, <1>d, <2>1, AddedFacts
  <2>3. w[1] = s /\ \A i \in 1 .. Len(l) : w[i + 1] = l[i]
    BY <1>2, <1>d, <2>1, AddedFacts
  <2> QED BY <2>2, <2>3
<1>5. /\ Len(l) \in Nat
      /\ \A k \in 1 .. Len(l) : l[k] \in Slots /\ l[k] # s
  BY <1>1, <1>2, ListedFacts
<1>6. WalkAgrees(l, pool.evt, a, first)
  BY DEF l
<1>7. a # s
  BY <1>1, <1>3, <1>6 DEF WalkAgrees
<1>8. \A t \in Slots : r.evt[t].busy <=> t = a
  BY <1>1, <1>6, <1>7 DEF WalkAgrees
<1>9. ASSUME NEW n \in 0 .. Len(l), NoneDue(l, pool.evt, 1, n)
      PROVE  NoneDue(w, r.evt, 1, n + 1)
  <2> SUFFICES ASSUME NEW k \in 1 .. n + 1 PROVE r.evt[w[k]].timeout > 0
    BY DEF NoneDue
  <2>1. CASE k = 1
    BY <1>1, <1>3, <1>4, <2>1
  <2>2. CASE k # 1
    <3>1. k - 1 \in 1 .. n /\ k - 1 \in 1 .. Len(l) /\ (k - 1) + 1 = k
      BY <1>5, <2>2
    <3>2. w[k] = l[k - 1] /\ pool.evt[l[k - 1]].timeout > 0
      BY <1>4, <1>9, <3>1 DEF NoneDue
    <3> QED BY <1>1, <1>5, <3>1, <3>2
  <2> QED BY <2>1, <2>2
<1>10. CASE a = None
  <2>1. NoneDue(w, r.evt, 1, Len(w))
    BY <1>4, <1>5, <1>6, <1>9, <1>10 DEF WalkAgrees
  <2> QED BY <1>6, <1>8, <1>10, <2>1 DEF WalkAgrees, w
<1>11. CASE a # None
  <2>1. a \in Listed(l) /\ a \in Listed(w) /\ NoneDue(l, pool.evt, 1, Position(l, a) - 1)
    BY <1>4, <1>6, <1>11 DEF WalkAgrees
  <2>2. Position(l, a) \in 1 .. Len(l) /\ l[Position(l, a)] = a
    BY <1>2, <2>1, PositionFacts
  <2>3. Position(w, a) = Position(l, a) + 1
    <3>1. Position(l, a) + 1 \in 1 .. Len(w) /\ w[Position(l, a) + 1] = a
      BY <1>4, <1>5, <2>2
    <3> QED BY <1>4, <2>1, <3>1, PositionFacts
  <2>4. NoneDue(w, r.evt, 1, Position(l, a))
    <3>1. Position(l, a) - 1 \in 0 .. Len(l) /\ (Position(l, a) - 1) + 1 = Position(l, a)
      BY <1>5, <2>2
    <3> QED BY <1>9, <2>1, <3>1
  <2>5. NoneDue(w, r.evt, 1, Position(w, a) - 1)
    BY <1>5, <2>2, <2>3, <2>4
  <2> QED BY <1>6, <1>8, <1>11, <2>1, <2>5 DEF WalkAgrees, w
<1> QED BY <1>10, <1>11

-----------------------------------------------------------------------------
(* The invariant of the slots *)

(* Handles and the timers they own.                                         *)
Owns(e, h) ==
  \A c \in Keeps :
    /\ h[c] # None => h[c] \in Slots /\ e[h[c]].used /\ e[h[c]].cb = c
    /\ \A s \in Slots : e[s].used /\ e[s].cb = c => s = h[c]

(* The handles own their timers, in this state and the next.                 *)
LEMMA OwnsFacts ==
  /\ HandleOwns <=> Owns(evt, handle)
  /\ HandleOwns' <=> Owns(evt', handle')
BY DEF HandleOwns, Owns, Running

(* The facts the steps start from.                                          *)
LEMMA SlotFacts ==
  ASSUME SlotInv
  PROVE  /\ PoolAgrees(Pool) /\ WalkAgrees(list, evt, at, seen)
         /\ clock \in Ticks /\ prev \in Ticks /\ rem \in 0 .. MsTicks - 1
         /\ handle \in [Keeps -> Slots \cup {None}] /\ Owns(evt, handle)
         /\ Pool.list = list /\ Pool.evt = evt /\ Pool.used = usedNum /\ Pool.age = age
         /\ list \in Seq(Slots) /\ Once(list) /\ evt \in [Slots -> Events]
         /\ age \in [Slots -> Nat] /\ Listed(list) = Used(evt)
         /\ \A s \in Slots : SlotSound(evt[s])
         /\ None \notin Slots /\ Keeps \subseteq Clients
         /\ at # None => at \in Slots /\ evt[at].used /\ evt[at].busy
<1>1. /\ PoolAgrees(Pool) /\ WalkAgrees(list, evt, at, seen)
      /\ clock \in Ticks /\ prev \in Ticks /\ rem \in 0 .. MsTicks - 1
      /\ handle \in [Keeps -> Slots \cup {None}] /\ Owns(evt, handle)
  BY OwnsFacts DEF SlotInv, ClockType, HandleType
<1>2. Pool.list = list /\ Pool.evt = evt /\ Pool.used = usedNum /\ Pool.age = age
  BY DEF Pool
<1>3. /\ list \in Seq(Slots) /\ Once(list) /\ evt \in [Slots -> Events]
      /\ age \in [Slots -> Nat] /\ Listed(list) = Used(evt)
      /\ \A s \in Slots : SlotSound(evt[s])
  BY <1>1, <1>2 DEF PoolAgrees
<1>4. None \notin Slots /\ Keeps \subseteq Clients
  BY TimersAssumption
<1>5. at # None => at \in Slots /\ evt[at].used /\ evt[at].busy
  BY <1>1, <1>3 DEF WalkAgrees, Used
<1> QED BY <1>1, <1>2, <1>3, <1>4, <1>5

(* What if (h) CANCEL(&h) makes of the pool: the client has no timer left,   *)
(* the others keep theirs, and the walk goes on as before.                   *)
LEMMA CancelFacts ==
  ASSUME SlotInv, NEW c \in Keeps, MayCall(c), NEW r, r = CancelIn(Pool, handle[c])
  PROVE  /\ PoolAgrees(r) /\ WalkAgrees(r.list, r.evt, at, seen)
         /\ handle[c] # None => Cancellable(Pool, handle[c])
         /\ \A s \in Slots : r.evt[s].used <=> evt[s].used /\ evt[s].cb # c
         /\ \A s \in Slots : r.evt[s].used => r.evt[s] = evt[s] /\ r.age[s] = age[s]
<1> DEFINE h == handle[c]
<1>1. /\ PoolAgrees(Pool) /\ WalkAgrees(list, evt, at, seen) /\ Owns(evt, handle)
      /\ Pool.list = list /\ Pool.evt = evt /\ Pool.age = age
      /\ at # None => at \in Slots /\ evt[at].used
  BY SlotFacts
<1>2. /\ h # None => h \in Slots /\ evt[h].used /\ evt[h].cb = c
      /\ \A s \in Slots : evt[s].used /\ evt[s].cb = c => s = h
  BY <1>1 DEF Owns
<1>3. h # None => h # at
  BY <1>2 DEF MayCall, Caller
<1>4. h # None => Cancellable(Pool, h)
  BY <1>1, <1>2, <1>3 DEF Cancellable, WalkAgrees
<1>5. CASE h = None
  <2>1. r = Pool
    BY <1>5 DEF CancelIn, Cancellable
  <2>2. None \notin Slots
    BY SlotFacts
  <2>3. \A s \in Slots : evt[s].used => evt[s].cb # c
    BY <1>2, <1>5, <2>2
  <2> QED BY <1>1, <1>5, <2>1, <2>3
<1>6. CASE h # None
  <2>1. r = Release(Pool, h) /\ h \in Slots /\ Pool.evt[h].used
    BY <1>1, <1>2, <1>4, <1>6 DEF CancelIn
  <2>2. /\ PoolAgrees(r) /\ ~r.evt[h].used
        /\ \A t \in Slots : t # h => r.evt[t] = evt[t]
        /\ \A t \in Slots : t # h => r.age[t] = age[t]
    BY <1>1, <2>1, ReleaseFacts
  <2>3. WalkAgrees(r.list, r.evt, at, seen)
    <3>1. WalkAgrees(Pool.list, Pool.evt, at, seen) /\ at # h
      BY <1>1, <1>3, <1>6
    <3> QED BY <1>1, <2>1, <3>1, ReleaseWalk
  <2>4. \A s \in Slots : r.evt[s].used <=> evt[s].used /\ evt[s].cb # c
    <3> TAKE s \in Slots
    <3>1. CASE s = h
      BY <1>2, <1>6, <2>2, <3>1
    <3>2. CASE s # h
      BY <1>2, <2>2, <3>2
    <3> QED BY <3>1, <3>2
  <2>5. \A s \in Slots : r.evt[s].used => r.evt[s] = evt[s] /\ r.age[s] = age[s]
    BY <2>2
  <2> QED BY <1>4, <2>2, <2>3, <2>4, <2>5
<1> QED BY <1>5, <1>6

(* The state after a step that stores a pool the invariant holds of.         *)
LEMMA SlotStored ==
  ASSUME NEW pool, PoolAgrees(pool), WalkAgrees(pool.list, pool.evt, at, seen),
         Store(pool), UNCHANGED <<at, seen>>
  PROVE  PoolAgrees(Pool)' /\ WalkAgrees(list, evt, at, seen)'
<1>1. PoolAgrees(Pool)'
  BY PoolNext DEF Store
<1>2. WalkAgrees(list', evt', at', seen')
  BY DEF Store
<1> QED BY <1>1, <1>2 DEF WalkAgrees, NoneDue, Listed, Position

(* The empty pool.                                                          *)
Empty == [list |-> <<>>, evt |-> [s \in Slots |-> Free], used |-> 0,
          age |-> [s \in Slots |-> 0]]

(* It agrees with an empty walk and no handles.                             *)
LEMMA EmptyFacts ==
  /\ PoolAgrees(Empty)
  /\ WalkAgrees(Empty.list, Empty.evt, None, None)
  /\ Owns(Empty.evt, [c \in Keeps |-> None])
<1>1. /\ ClockMod \in Nat \ {0} /\ None \notin Slots /\ None \notin Clients
  BY TimersAssumption
<1>2. /\ Empty.list = <<>> /\ Empty.evt = [s \in Slots |-> Free] /\ Empty.used = 0
      /\ Empty.age = [s \in Slots |-> 0]
  BY DEF Empty
<1>3. Free \in Events /\ ~Free.used /\ ~Free.running /\ ~Free.busy
  BY <1>1 DEF Free, Events, Ticks
<1>4. Owns(Empty.evt, [c \in Keeps |-> None])
  BY <1>2, <1>3 DEF Owns
<1>5. WalkAgrees(Empty.list, Empty.evt, None, None)
  BY <1>1, <1>2, <1>3 DEF WalkAgrees, NoneDue
<1>6. PoolAgrees(Empty)
  <2>1. Used(Empty.evt) = {}
    BY <1>2, <1>3 DEF Used
  <2>2. Cardinality(Used(Empty.evt)) = Empty.used
    BY <1>2, <2>1, FS_EmptySet
  <2>3. Listed(Empty.list) = Used(Empty.evt)
    BY <1>2, <2>1 DEF Listed
  <2>4. Empty.list \in Seq(Slots) /\ Len(Empty.list) = Empty.used /\ Once(Empty.list)
    BY <1>2 DEF Once
  <2>5. /\ Empty.evt \in [Slots -> Events]
        /\ \A s \in Slots : SlotSound(Empty.evt[s])
    BY <1>2, <1>3 DEF SlotSound
  <2>6. Empty.age \in [Slots -> Nat]
    BY <1>2
  <2> QED BY <2>2, <2>3, <2>4, <2>5, <2>6 DEF PoolAgrees
<1> QED BY <1>4, <1>5, <1>6

(* The invariant of the slots holds at first.                               *)
LEMMA SlotInit == Init => SlotInv
<1> SUFFICES ASSUME Init PROVE SlotInv
  OBVIOUS
<1>1. /\ clock = 0 /\ prev = 0 /\ rem = 0 /\ at = None /\ seen = None
      /\ handle = [c \in Keeps |-> None] /\ Pool = Empty
  BY DEF Init, Pool, Empty
<1>2. Pool.list = list /\ Pool.evt = evt
  BY DEF Pool
<1>3. ClockType /\ HandleType
  BY <1>1, TimersAssumption DEF ClockType, HandleType, Ticks
<1> QED BY <1>1, <1>2, <1>3, EmptyFacts, OwnsFacts DEF SlotInv

(* No slot is left: the device starts anew (Exhausted).                      *)
LEMMA SlotExhausted ==
  ASSUME SlotInv, NEW c \in Clients, Exhausted(c) PROVE SlotInv'
<1>1. /\ clock' = clock /\ prev' = clock /\ rem' = 0 /\ at' = None /\ seen' = None
      /\ handle' = [k \in Keeps |-> None]
      /\ list' = Empty.list /\ evt' = Empty.evt /\ usedNum' = Empty.used
      /\ age' = Empty.age
  BY DEF Exhausted, Empty
<1>2. clock \in Ticks /\ MsTicks \in Nat \ {0}
  BY SlotFacts, TimersAssumption
<1>3. ClockType' /\ HandleType'
  BY <1>1, <1>2 DEF ClockType, HandleType, Ticks
<1>4. PoolAgrees(Pool)'
  BY <1>1, EmptyFacts, PoolNext
<1>5. WalkAgrees(list', evt', at', seen')
  BY <1>1, EmptyFacts
<1>6. WalkAgrees(list, evt, at, seen)'
  BY <1>5 DEF WalkAgrees, NoneDue, Listed, Position
<1> QED BY <1>1, <1>3, <1>4, <1>6, EmptyFacts, OwnsFacts DEF SlotInv

(* The slots of a client are emptied and filled anew (Start).                *)
LEMMA SlotStart ==
  ASSUME SlotInv, NEW c \in Clients, NEW p \in Periods, Start(c, p)
  PROVE  SlotInv'
<1> DEFINE q == CancelIn(Pool, handle[c])
<1>1. c \in Keeps /\ MayCall(c) /\ UNCHANGED <<clock, prev, rem, at, seen>>
  BY DEF Start
<1>2. PICK s \in FreeSlots(q) :
        Store(AddIn(q, s, c, p)) /\ handle' = [handle EXCEPT ![c] = s]
  BY DEF Start
<1>3. /\ PoolAgrees(q) /\ WalkAgrees(q.list, q.evt, at, seen)
      /\ \A t \in Slots : q.evt[t].used <=> evt[t].used /\ evt[t].cb # c
      /\ \A t \in Slots : q.evt[t].used => q.evt[t] = evt[t] /\ q.age[t] = age[t]
  BY <1>1, CancelFacts
<1> HIDE DEF q
<1>4. /\ clock \in Ticks /\ handle \in [Keeps -> Slots \cup {None}] /\ Owns(evt, handle)
      /\ ClockType
  BY SlotFacts DEF ClockType
<1> DEFINE r == AddIn(q, s, c, p)
<1>5. PoolAgrees(r) /\ s \in Slots /\ ~q.evt[s].used
  BY <1>3, <1>4, AddFacts
<1>6. r.evt[s] = Fresh(c, p) /\ (\A t \in Slots : t # s => r.evt[t] = q.evt[t])
  BY <1>3, <1>4, AddFacts
<1>7. WalkAgrees(r.list, r.evt, at, seen)
  BY <1>3, <1>4, AddWalk
<1> HIDE DEF r
<1>8. Store(r) /\ evt' = r.evt
  BY <1>2 DEF Store, r
<1>9. PoolAgrees(Pool)' /\ WalkAgrees(list, evt, at, seen)'
  BY <1>1, <1>5, <1>7, <1>8, SlotStored
<1>10. ClockType' /\ HandleType'
  BY <1>1, <1>2, <1>4, <1>5 DEF ClockType, HandleType, Ticks
<1>11. Owns(evt', handle')
  <2> SUFFICES ASSUME NEW d \in Keeps
               PROVE  /\ handle'[d] # None =>
                           /\ handle'[d] \in Slots /\ evt'[handle'[d]].used
                           /\ evt'[handle'[d]].cb = d
                      /\ \A t \in Slots : evt'[t].used /\ evt'[t].cb = d => t = handle'[d]
    BY DEF Owns
  <2>1. evt'[s].used /\ evt'[s].cb = c
    BY <1>6, <1>8 DEF Fresh
  <2>2. \A t \in Slots : t # s => evt'[t] = q.evt[t]
    BY <1>6, <1>8
  <2>3. CASE d = c
    <3>1. handle'[d] = s
      BY <1>1, <1>2, <1>4, <2>3
    <3>2. \A t \in Slots : evt'[t].used /\ evt'[t].cb = c => t = s
      BY <1>3, <2>2
    <3> QED BY <1>5, <2>1, <2>3, <3>1, <3>2
  <2>4. CASE d # c
    <3>1. handle'[d] = handle[d]
      BY <1>2, <1>4, <2>4
    <3>2. /\ handle[d] # None =>
               handle[d] \in Slots /\ evt[handle[d]].used /\ evt[handle[d]].cb = d
          /\ \A t \in Slots : evt[t].used /\ evt[t].cb = d => t = handle[d]
      BY <1>4 DEF Owns
    <3>3. ASSUME NEW t \in Slots, evt[t].used, evt[t].cb = d
          PROVE  evt'[t] = evt[t]
      BY <1>3, <1>5, <2>2, <2>4, <3>3
    <3>4. ASSUME NEW t \in Slots, evt'[t].used, evt'[t].cb = d
          PROVE  evt[t].used /\ evt[t].cb = d
      BY <1>3, <2>1, <2>2, <2>4, <3>4
    <3> QED BY <3>1, <3>2, <3>3, <3>4
  <2> QED BY <2>3, <2>4
<1> QED BY <1>9, <1>10, <1>11, OwnsFacts DEF SlotInv

(* A timer without a handle (StartAndForget).                               *)
LEMMA SlotStartAndForget ==
  ASSUME SlotInv, NEW c \in Clients, NEW p \in Periods, StartAndForget(c, p)
  PROVE  SlotInv'
<1>1. c \notin Keeps /\ UNCHANGED <<clock, prev, rem, at, seen, handle>>
  BY DEF StartAndForget
<1>2. PICK s \in FreeSlots(Pool) : Store(AddIn(Pool, s, c, p))
  BY DEF StartAndForget
<1>3. /\ PoolAgrees(Pool) /\ WalkAgrees(Pool.list, Pool.evt, at, seen)
      /\ Pool.evt = evt /\ clock \in Ticks /\ Owns(evt, handle) /\ ClockType /\ HandleType
  BY SlotFacts DEF ClockType, HandleType
<1> DEFINE r == AddIn(Pool, s, c, p)
<1>4. PoolAgrees(r) /\ s \in Slots /\ ~evt[s].used
  BY <1>3, AddFacts
<1>5. r.evt[s] = Fresh(c, p) /\ (\A t \in Slots : t # s => r.evt[t] = evt[t])
  <2>1. r.evt[s] = Fresh(c, p) /\ (\A t \in Slots : t # s => r.evt[t] = Pool.evt[t])
    BY <1>3, AddFacts
  <2> QED BY <1>3, <2>1
<1>6. WalkAgrees(r.list, r.evt, at, seen)
  BY <1>3, AddWalk
<1> HIDE DEF r
<1>7. Store(r) /\ evt' = r.evt
  BY <1>2 DEF Store, r
<1>8. PoolAgrees(Pool)' /\ WalkAgrees(list, evt, at, seen)'
  BY <1>1, <1>4, <1>6, <1>7, SlotStored
<1>9. ClockType' /\ HandleType'
  BY <1>1, <1>3 DEF ClockType, HandleType, Ticks
<1>10. Owns(evt', handle')
  <2>1. evt'[s].cb = c /\ \A t \in Slots : t # s => evt'[t] = evt[t]
    BY <1>5, <1>7 DEF Fresh
  <2> QED BY <1>1, <1>3, <1>4, <2>1 DEF Owns
<1> QED BY <1>8, <1>9, <1>10, OwnsFacts DEF SlotInv

(* A timer is cancelled by its handle (Cancel).                             *)
LEMMA SlotCancel ==
  ASSUME SlotInv, NEW c \in Clients, Cancel(c) PROVE SlotInv'
<1> DEFINE r == CancelIn(Pool, handle[c])
<1>1. /\ c \in Keeps /\ MayCall(c) /\ handle[c] # None
      /\ UNCHANGED <<clock, prev, rem, at, seen>>
      /\ Store(r)
      /\ handle' = [handle EXCEPT ![c] = HandleAfterCancel(Pool, handle[c])]
  BY DEF Cancel
<1>2. PoolAgrees(r) /\ WalkAgrees(r.list, r.evt, at, seen) /\ Cancellable(Pool, handle[c])
  BY <1>1, CancelFacts
<1>3. /\ \A t \in Slots : r.evt[t].used <=> evt[t].used /\ evt[t].cb # c
      /\ \A t \in Slots : r.evt[t].used => r.evt[t] = evt[t] /\ r.age[t] = age[t]
  BY <1>1, CancelFacts
<1> HIDE DEF r
<1>4. /\ handle \in [Keeps -> Slots \cup {None}] /\ Owns(evt, handle) /\ ClockType
  BY SlotFacts DEF ClockType
<1>5. PoolAgrees(Pool)' /\ WalkAgrees(list, evt, at, seen)'
  BY <1>1, <1>2, SlotStored
<1>6. handle' = [handle EXCEPT ![c] = None]
  BY <1>1, <1>2 DEF HandleAfterCancel
<1>7. ClockType' /\ HandleType'
  BY <1>1, <1>4, <1>6 DEF ClockType, HandleType, Ticks
<1>8. Owns(evt', handle')
  <2> SUFFICES ASSUME NEW d \in Keeps
               PROVE  /\ handle'[d] # None =>
                           /\ handle'[d] \in Slots /\ evt'[handle'[d]].used
                           /\ evt'[handle'[d]].cb = d
                      /\ \A t \in Slots : evt'[t].used /\ evt'[t].cb = d => t = handle'[d]
    BY DEF Owns
  <2>1. evt' = r.evt
    BY <1>1 DEF Store
  <2>2. CASE d = c
    <3>1. handle'[d] = None
      BY <1>1, <1>4, <1>6, <2>2
    <3> QED BY <1>3, <2>1, <2>2, <3>1
  <2>3. CASE d # c
    <3>1. handle'[d] = handle[d]
      BY <1>4, <1>6, <2>3
    <3>2. /\ handle[d] # None =>
               handle[d] \in Slots /\ evt[handle[d]].used /\ evt[handle[d]].cb = d
          /\ \A t \in Slots : evt[t].used /\ evt[t].cb = d => t = handle[d]
      BY <1>4 DEF Owns
    <3> QED BY <1>3, <2>1, <2>3, <3>1, <3>2
  <2> QED BY <2>2, <2>3
<1> QED BY <1>5, <1>7, <1>8, OwnsFacts DEF SlotInv

-----------------------------------------------------------------------------
(* The clock *)

(* Quotient and remainder.                                                  *)
LEMMA DivFacts ==
  ASSUME NEW m \in Nat \ {0}, NEW x \in Nat
  PROVE  /\ x \div m \in Nat /\ x % m \in 0 .. m - 1
         /\ x = (x \div m) * m + (x % m)
<1>1. m \in Nat /\ m > 0
  OBVIOUS
<1>2. x % m \in 0 .. m - 1 /\ x \div m \in Nat
  BY <1>1, SMT
<1>3. x = (x \div m) * m + (x % m)
  BY <1>1, Z3
<1> QED BY <1>2, <1>3

(* The distance of two values of the clock.                                 *)
LEMMA ClockFacts ==
  ASSUME NEW b \in Ticks, NEW a \in Ticks
  PROVE  /\ (b - a) % ClockMod = IF b >= a THEN b - a ELSE b - a + ClockMod
         /\ (b - a) % ClockMod \in Nat /\ (b - a) % ClockMod < ClockMod
<1>1. ClockMod \in Nat \ {0}
  BY TimersAssumption
<1>2. (b - a) % ClockMod = IF b >= a THEN b - a ELSE b - a + ClockMod
  BY <1>1, SMT DEF Ticks
<1> QED BY <1>1, <1>2 DEF Ticks

(* A tick of the clock.                                                     *)
LEMMA TickFacts ==
  ASSUME NEW a \in Ticks
  PROVE  /\ (a + 1) % ClockMod = IF a = ClockMod - 1 THEN 0 ELSE a + 1
         /\ (a + 1) % ClockMod \in Ticks
<1>1. ClockMod \in Nat \ {0}
  BY TimersAssumption
<1>2. (a + 1) % ClockMod = IF a = ClockMod - 1 THEN 0 ELSE a + 1
  BY <1>1, SMT DEF Ticks
<1> QED BY <1>1, <1>2 DEF Ticks

(* Time goes on (Elapse).                                                   *)
LEMMA SlotElapse == SlotInv /\ Elapse => SlotInv'
<1> SUFFICES ASSUME SlotInv, Elapse PROVE SlotInv'
  OBVIOUS
<1>1. /\ UNCHANGED <<list, evt, usedNum, prev, rem, at, seen, handle>>
      /\ clock' = (clock + 1) % ClockMod
      /\ age' = [s \in Slots |-> IF evt[s].used THEN age[s] + 1 ELSE 0]
  BY DEF Elapse
<1>2. /\ PoolAgrees(Pool) /\ WalkAgrees(list, evt, at, seen)
      /\ clock \in Ticks /\ Owns(evt, handle) /\ age \in [Slots -> Nat]
      /\ Pool.list = list /\ Pool.evt = evt /\ Pool.used = usedNum
      /\ evt \in [Slots -> Events] /\ \A s \in Slots : SlotSound(evt[s])
      /\ ClockType /\ HandleType
  BY SlotFacts DEF ClockType, HandleType
<1>3. PoolAgrees(Pool)'
  <2>1. age' \in [Slots -> Nat]
    BY <1>1, <1>2
  <2> DEFINE q == [list |-> list, evt |-> evt, used |-> usedNum, age |-> age']
  <2>2. PoolAgrees(q)
    BY <1>2, <2>1, SlotsChanged
  <2>3. q.list = list /\ q.evt = evt /\ q.used = usedNum /\ q.age = age'
    OBVIOUS
  <2> HIDE DEF q
  <2> QED BY <1>1, <2>2, <2>3, PoolNext
<1>4. WalkAgrees(list, evt, at, seen)'
  BY <1>1, <1>2 DEF WalkAgrees, NoneDue, Listed, Position
<1>5. ClockType' /\ HandleType'
  BY <1>1, <1>2, TickFacts DEF ClockType, HandleType, Ticks
<1> QED BY <1>1, <1>2, <1>3, <1>4, <1>5, OwnsFacts DEF SlotInv

(* What an update makes of the slots.                                       *)
LEMMA UpdatedFacts ==
  ASSUME SlotInv, NEW ms \in Nat, NEW e, e = Updated(ms)
  PROVE  /\ e \in [Slots -> Events]
         /\ \A s \in Slots :
              /\ e[s].cb = evt[s].cb /\ e[s].period = evt[s].period
              /\ e[s].busy = evt[s].busy /\ e[s].used = evt[s].used
              /\ ms = 0 \/ ~evt[s].used => e[s] = evt[s]
              /\ ms # 0 /\ evt[s].used =>
                   /\ e[s].running
                   /\ e[s].timeout = IF evt[s].timeout > Elapsed(s, ms)
                                     THEN evt[s].timeout - Elapsed(s, ms) ELSE 0
         /\ \A s \in Slots : SlotSound(e[s]) /\ Elapsed(s, ms) \in Nat
<1>1. /\ evt \in [Slots -> Events] /\ \A s \in Slots : SlotSound(evt[s])
      /\ clock \in Ticks
  BY SlotFacts
<1>2. MsTicks \in Nat \ {0} /\ ClockMod \in Nat \ {0}
  BY TimersAssumption
<1>3. ASSUME NEW s \in Slots PROVE Elapsed(s, ms) \in Nat
  <2>1. evt[s].tick \in Ticks
    BY <1>1 DEF Events
  <2>2. (clock - evt[s].tick) % ClockMod \in Nat
    BY <1>1, <2>1, ClockFacts
  <2>3. ((clock - evt[s].tick) % ClockMod) \div MsTicks \in Nat
    BY <1>2, <2>2, DivFacts
  <2> QED BY <2>3 DEF Elapsed
<1>4. ASSUME NEW s \in Slots, ms = 0 \/ ~evt[s].used
      PROVE  e[s] = evt[s]
  BY <1>4 DEF Updated
<1>5. ASSUME NEW s \in Slots, ms # 0, evt[s].used
      PROVE  /\ e[s] \in Events /\ e[s].used /\ e[s].running
             /\ e[s].cb = evt[s].cb /\ e[s].period = evt[s].period
             /\ e[s].busy = evt[s].busy
             /\ e[s].timeout = IF evt[s].timeout > Elapsed(s, ms)
                               THEN evt[s].timeout - Elapsed(s, ms) ELSE 0
  <2> DEFINE t == IF evt[s].timeout > Elapsed(s, ms)
                  THEN evt[s].timeout - Elapsed(s, ms) ELSE 0
  <2>1. evt[s] \in Events /\ evt[s].timeout \in Nat
    BY <1>1 DEF Events
  <2>2. t \in Nat
    BY <1>3, <2>1
  <2>3. e[s] = [evt[s] EXCEPT !.timeout = t, !.running = TRUE, !.tick = 0]
    BY <1>5 DEF Updated
  <2> HIDE DEF t
  <2>4. 0 \in Ticks
    BY <1>2 DEF Ticks
  <2>5. /\ e[s] \in Events /\ e[s].timeout = t /\ e[s].used = evt[s].used /\ e[s].running
        /\ e[s].cb = evt[s].cb /\ e[s].period = evt[s].period
        /\ e[s].busy = evt[s].busy
    BY <2>1, <2>2, <2>3, <2>4 DEF Events
  <2> QED BY <1>5, <2>5 DEF t
<1>6. ASSUME NEW s \in Slots
      PROVE  e[s] \in Events /\ e[s].used = evt[s].used /\ SlotSound(e[s])
  <2>1. CASE ms = 0 \/ ~evt[s].used
    BY <1>1, <1>4, <2>1
  <2>2. CASE ms # 0 /\ evt[s].used
    <3>1. evt[s].used = TRUE
      BY <1>1, <2>2 DEF Events
    <3> QED BY <1>1, <1>5, <2>2, <3>1 DEF SlotSound, Events
  <2> QED BY <2>1, <2>2
<1>7. e \in [Slots -> Events]
  <2>1. e = [s \in Slots |-> e[s]]
    BY DEF Updated
  <2> QED BY <1>6, <2>1
<1>8. ASSUME NEW s \in Slots
      PROVE  e[s].cb = evt[s].cb /\ e[s].period = evt[s].period /\ e[s].busy = evt[s].busy
  BY <1>4, <1>5
<1> QED BY <1>3, <1>4, <1>5, <1>6, <1>7, <1>8

(* The slots after a walk are those the pass worked on, one of them busy.    *)
SlotsAfterWalk(e) ==
  \A s \in Slots :
    /\ evt'[s].cb = e[s].cb /\ evt'[s].timeout = e[s].timeout
    /\ evt'[s].period = e[s].period /\ evt'[s].tick = e[s].tick
    /\ evt'[s].running = e[s].running /\ evt'[s].used = e[s].used
    /\ evt'[s].busy => e[s].used /\ e[s].timeout = 0

(* The milliseconds and the remainder of a pass.                            *)
LEMMA PassFacts ==
  ASSUME SlotInv,
         NEW ms, ms = Lag \div MsTicks + (rem + (Lag % MsTicks)) \div MsTicks,
         NEW r, r = (rem + (Lag % MsTicks)) % MsTicks
  PROVE  /\ ms \in Nat /\ r \in 0 .. MsTicks - 1
         /\ Lag \in Nat
         /\ Lag + rem = ms * MsTicks + r
<1>1. /\ MsTicks \in Nat \ {0} /\ rem \in Nat /\ Lag \in Nat
  <2>1. clock \in Ticks /\ prev \in Ticks /\ rem \in 0 .. MsTicks - 1
    BY SlotFacts
  <2>2. MsTicks \in Nat \ {0}
    BY TimersAssumption
  <2> QED BY <2>1, <2>2, ClockFacts DEF Lag
<1> DEFINE a == Lag \div MsTicks
           b == Lag % MsTicks
           c == (rem + b) \div MsTicks
<1>2. a \in Nat /\ b \in Nat /\ Lag = a * MsTicks + b
  <2>1. a \in Nat /\ b \in 0 .. MsTicks - 1 /\ Lag = a * MsTicks + b
    BY <1>1, DivFacts
  <2> QED BY <1>1, <2>1
<1>3. rem + b \in Nat
  BY <1>1, <1>2
<1>4. c \in Nat /\ r \in 0 .. MsTicks - 1 /\ rem + b = c * MsTicks + r
  BY <1>1, <1>3, DivFacts
<1>5. ms = a + c
  OBVIOUS
<1> HIDE DEF a, b, c
<1>6. ms * MsTicks = a * MsTicks + c * MsTicks
  BY <1>1, <1>2, <1>4, <1>5
<1>8. /\ Lag \in Int /\ b \in Int /\ rem \in Int /\ r \in Int
      /\ a * MsTicks \in Int /\ c * MsTicks \in Int
  BY <1>1, <1>2, <1>4
<1>9. Lag + rem = (a * MsTicks + c * MsTicks) + r
  <2>1. Lag = a * MsTicks + b /\ rem + b = c * MsTicks + r
    BY <1>2, <1>4
  <2> DEFINE A == a * MsTicks
             C == c * MsTicks
  <2>2. A \in Int /\ C \in Int /\ Lag = A + b /\ rem + b = C + r
    BY <1>8, <2>1
  <2> HIDE DEF A, C
  <2>3. Lag + rem = (A + C) + r
    BY <1>8, <2>2
  <2> QED BY <2>3 DEF A, C
<1>10. Lag + rem = ms * MsTicks + r
  BY <1>6, <1>9, Zenon
<1> QED BY <1>1, <1>2, <1>4, <1>5, <1>10

(* A pass begins (Process).                                                 *)
LEMMA SlotProcess ==
  ASSUME SlotInv, Process,
         NEW ms, ms = Lag \div MsTicks + (rem + (Lag % MsTicks)) \div MsTicks,
         NEW e, e = Updated(ms)
  PROVE  SlotInv' /\ SlotsAfterWalk(e)
<1>1. /\ at = None /\ prev' = clock /\ UNCHANGED <<list, usedNum, clock, handle, age>>
      /\ rem' = (rem + (Lag % MsTicks)) % MsTicks
      /\ WalkFrom(list, e, 1)
  BY DEF Process
<1>2. ms \in Nat /\ rem' \in 0 .. MsTicks - 1
  BY <1>1, PassFacts
<1>3. /\ e \in [Slots -> Events]
      /\ \A s \in Slots : SlotSound(e[s]) /\ e[s].used = evt[s].used
      /\ \A s \in Slots : e[s].cb = evt[s].cb /\ e[s].busy = evt[s].busy
  BY <1>2, UpdatedFacts
<1>4. /\ PoolAgrees(Pool) /\ WalkAgrees(list, evt, at, seen)
      /\ Pool.list = list /\ Pool.evt = evt /\ Pool.used = usedNum
      /\ age \in [Slots -> Nat] /\ Owns(evt, handle) /\ clock \in Ticks
      /\ None \notin Slots /\ HandleType /\ list \in Seq(Slots)
  BY SlotFacts DEF HandleType
<1> DEFINE q == [list |-> Pool.list, evt |-> e, used |-> Pool.used, age |-> age]
<1>5. PoolAgrees(q)
  BY <1>3, <1>4, SlotsChanged
<1>6. q.list = list /\ q.evt = e /\ q.used = usedNum /\ q.age = age
  BY <1>4
<1> HIDE DEF q
<1>7. /\ PoolAgrees(Pool)' /\ WalkAgrees(list, evt, at, seen)' /\ SlotsAfterWalk(e)
  <2>1. \A s \in Slots : ~e[s].busy
    BY <1>1, <1>3, <1>4 DEF WalkAgrees
  <2>2. 1 \in 1 .. Len(q.list) + 1 /\ NoneDue(q.list, q.evt, 1, 1 - 1)
    <3>1. Len(list) \in Nat
      BY <1>4, LenProperties
    <3> QED BY <1>6, <3>1 DEF NoneDue
  <2>3. WalkFrom(q.list, q.evt, 1)
    BY <1>1, <1>6
  <2> QED BY <1>1, <1>5, <1>6, <2>1, <2>2, <2>3, WalkFacts DEF SlotsAfterWalk
<1>8. ClockType' /\ HandleType'
  BY <1>1, <1>2, <1>4 DEF ClockType, HandleType, Ticks
<1>9. Owns(evt', handle')
  <2>1. \A s \in Slots : evt'[s].cb = evt[s].cb /\ evt'[s].used = evt[s].used
    BY <1>3, <1>7 DEF SlotsAfterWalk
  <2> QED BY <1>1, <1>4, <2>1 DEF Owns
<1> QED BY <1>7, <1>8, <1>9, OwnsFacts DEF SlotInv

(* The pass goes on after a callback (WalkOn), with a pool that is the old   *)
(* one but for the timer called, which may have left the list.               *)
LEMMA WalkOnFacts ==
  ASSUME SlotInv, at # None, NEW pool, PoolAgrees(pool),
         \/ pool.list = list
         \/ pool.list = Without(list, at) /\ pool.list # list,
         \A s \in Slots : s # at => pool.evt[s] = evt[s],
         ~pool.evt[at].busy, pool.list = list => pool.evt[at].timeout > 0,
         WalkOn(pool.list, pool.evt),
         list' = pool.list, usedNum' = pool.used, age' = pool.age
  PROVE  PoolAgrees(Pool)' /\ WalkAgrees(list, evt, at, seen)' /\ SlotsAfterWalk(pool.evt)
<1> DEFINE p == Position(list, at)
           l == pool.list
           e == pool.evt
<1>1. /\ WalkAgrees(list, evt, at, seen) /\ at \in Slots /\ evt[at].busy
      /\ list \in Seq(Slots) /\ Once(list)
  BY SlotFacts
<1>2. at \in Listed(list) /\ NoneDue(list, evt, 1, p - 1)
  BY <1>1 DEF WalkAgrees
<1>3. /\ p \in 1 .. Len(list) /\ list[p] = at /\ Len(list) \in Nat
      /\ \A i \in 1 .. Len(list) : list[i] = at => i = p
      /\ \A i \in 1 .. Len(list) : list[i] \in Slots
  BY <1>1, <1>2, PositionFacts, ListedFacts
<1>4. \A s \in Slots : ~e[s].busy
  BY <1>1 DEF WalkAgrees
<1>5. Len(l) \in Nat
  BY LenProperties DEF PoolAgrees
<1>6. \A i \in 1 .. p - 1 : e[list[i]].timeout > 0
  BY <1>2, <1>3 DEF NoneDue
<1>7. ASSUME NEW i \in 1 .. Len(l) + 1, NoneDue(l, e, 1, i - 1), WalkFrom(l, e, i)
      PROVE  /\ PoolAgrees(Pool)' /\ WalkAgrees(list, evt, at, seen)'
             /\ SlotsAfterWalk(e)
  BY <1>4, <1>7, WalkFacts DEF SlotsAfterWalk
<1>8. CASE WalkFrom(l, e, 1)
  <2>1. 1 \in 1 .. Len(l) + 1 /\ NoneDue(l, e, 1, 1 - 1)
    BY <1>5 DEF NoneDue
  <2> QED BY <1>7, <1>8, <2>1
<1>9. CASE l = list /\ WalkFrom(l, e, p + 1)
  <2>1. p + 1 \in 1 .. Len(l) + 1
    BY <1>3, <1>9
  <2>2. NoneDue(l, e, 1, (p + 1) - 1)
    <3> SUFFICES ASSUME NEW k \in 1 .. (p + 1) - 1 PROVE e[l[k]].timeout > 0
      BY DEF NoneDue
    <3>1. k = p \/ k \in 1 .. p - 1
      BY <1>3
    <3> QED BY <1>3, <1>6, <1>9, <3>1
  <2> QED BY <1>7, <1>9, <2>1, <2>2
<1>10. CASE l = Without(list, at) /\ l # list /\ WalkFrom(l, e, p)
  <2>1. /\ Len(l) = Len(list) - 1
        /\ \A i \in 1 .. Len(l) : l[i] = IF i < p THEN list[i] ELSE list[i + 1]
    BY <1>1, <1>2, <1>10, WithoutFacts
  <2>2. p \in 1 .. Len(l) + 1
    BY <1>3, <2>1
  <2>3. NoneDue(l, e, 1, p - 1)
    <3> SUFFICES ASSUME NEW k \in 1 .. p - 1 PROVE e[l[k]].timeout > 0
      BY DEF NoneDue
    <3>1. l[k] = list[k]
      BY <1>3, <2>1
    <3> QED BY <1>6, <3>1
  <2> QED BY <1>7, <1>10, <2>2, <2>3
<1> QED BY <1>8, <1>9, <1>10 DEF WalkOn

(* A callback is done with its timer (ReturnDone).                          *)
LEMMA SlotReturnDone ==
  ASSUME SlotInv, ReturnDone
  PROVE  /\ SlotInv'
         /\ \A s \in Slots : evt'[s].used =>
              /\ s # at /\ evt[s].used /\ age'[s] = age[s]
              /\ evt'[s].timeout = evt[s].timeout /\ evt'[s].period = evt[s].period
              /\ evt'[s].running = evt[s].running /\ evt'[s].tick = evt[s].tick
              /\ evt'[s].busy => evt[s].timeout = 0
<1> DEFINE r == Release(Pool, at)
           e == [r.evt EXCEPT ![at].busy = FALSE]
           g == r.age
<1>1. /\ at # None /\ UNCHANGED <<clock, prev, rem>>
      /\ list' = r.list /\ usedNum' = r.used /\ age' = g
      /\ WalkOn(r.list, e)
      /\ handle' = [c \in Keeps |-> IF c = Caller THEN None ELSE handle[c]]
  BY DEF ReturnDone
<1>2. /\ PoolAgrees(Pool) /\ Pool.list = list /\ Pool.evt = evt /\ Pool.age = age
      /\ at \in Slots /\ evt[at].used /\ list \in Seq(Slots) /\ Once(list)
      /\ Owns(evt, handle) /\ ClockType /\ handle \in [Keeps -> Slots \cup {None}]
  BY <1>1, SlotFacts DEF ClockType
<1>3. /\ PoolAgrees(r) /\ r.list = Without(list, at) /\ at \in Listed(list)
      /\ ~r.evt[at].used /\ ~r.evt[at].running
      /\ \A t \in Slots : t # at => r.evt[t] = evt[t]
      /\ \A t \in Slots : t # at => g[t] = age[t]
  BY <1>2, ReleaseFacts
<1> HIDE DEF r
<1>4. /\ r.evt \in [Slots -> Events] /\ g \in [Slots -> Nat]
      /\ \A s \in Slots : SlotSound(r.evt[s])
  BY <1>3 DEF PoolAgrees
<1>5. /\ e[at] = [r.evt[at] EXCEPT !.busy = FALSE]
      /\ \A t \in Slots : t # at => e[t] = r.evt[t]
      /\ e = [t \in Slots |-> e[t]]
  BY <1>2, <1>4
<1>6. r.evt[at] \in Events
  BY <1>2, <1>4
<1> HIDE DEF e
<1>7. e[at] \in Events /\ e[at].used = r.evt[at].used /\ ~e[at].busy
      /\ e[at].running = r.evt[at].running
  BY <1>5, <1>6 DEF Events
<1>8. /\ e \in [Slots -> Events]
      /\ \A s \in Slots : SlotSound(e[s]) /\ (e[s].used <=> r.evt[s].used)
  <2>1. ASSUME NEW s \in Slots
        PROVE  e[s] \in Events /\ SlotSound(e[s]) /\ (e[s].used <=> r.evt[s].used)
    <3>1. CASE s = at
      BY <1>3, <1>7, <3>1 DEF SlotSound
    <3>2. CASE s # at
      BY <1>4, <1>5, <3>2
    <3> QED BY <3>1, <3>2
  <2> QED BY <1>5, <2>1
<1> DEFINE q == [list |-> r.list, evt |-> e, used |-> r.used, age |-> g]
<1>9. PoolAgrees(q)
  BY <1>3, <1>4, <1>8, SlotsChanged
<1>10. q.list = r.list /\ q.evt = e /\ q.used = r.used /\ q.age = g
  OBVIOUS
<1> HIDE DEF q
<1>11. r.list # list
  <2>1. Len(list) \in Nat /\ Len(r.list) = Len(list) - 1
    BY <1>2, <1>3, WithoutFacts, LenProperties
  <2> QED BY <2>1
<1>12. PoolAgrees(Pool)' /\ WalkAgrees(list, evt, at, seen)' /\ SlotsAfterWalk(e)
  <2>1. \A s \in Slots : s # at => q.evt[s] = evt[s]
    BY <1>3, <1>5, <1>10
  <2>2. WalkOn(q.list, q.evt)
    BY <1>1, <1>10
  <2>3. ~q.evt[at].busy /\ q.list = Without(list, at) /\ q.list # list
    BY <1>3, <1>7, <1>10, <1>11
  <2>4. list' = q.list /\ usedNum' = q.used /\ age' = q.age
    BY <1>1, <1>10
  <2>5. PoolAgrees(Pool)' /\ WalkAgrees(list, evt, at, seen)' /\ SlotsAfterWalk(q.evt)
    BY <1>1, <1>9, <2>1, <2>2, <2>3, <2>4, WalkOnFacts
  <2> QED BY <1>10, <2>5
<1>13. ASSUME NEW s \in Slots, evt'[s].used
       PROVE  /\ s # at /\ evt[s].used /\ age'[s] = age[s] /\ e[s] = evt[s]
              /\ evt'[s].cb = evt[s].cb
  <2>1. e[s].used
    BY <1>12, <1>13 DEF SlotsAfterWalk
  <2>2. s # at
    BY <1>3, <1>7, <2>1
  <2>3. e[s] = evt[s]
    BY <1>3, <1>5, <2>2
  <2>4. age'[s] = age[s]
    BY <1>1, <1>3, <2>2
  <2>5. evt'[s].cb = evt[s].cb
    BY <1>12, <2>3 DEF SlotsAfterWalk
  <2> QED BY <2>1, <2>2, <2>3, <2>4, <2>5
<1>14. ClockType' /\ HandleType'
  BY <1>1, <1>2 DEF ClockType, HandleType, Ticks
<1>15. Owns(evt', handle')
  <2> SUFFICES ASSUME NEW d \in Keeps
               PROVE  /\ handle'[d] # None =>
                           /\ handle'[d] \in Slots /\ evt'[handle'[d]].used
                           /\ evt'[handle'[d]].cb = d
                      /\ \A t \in Slots : evt'[t].used /\ evt'[t].cb = d => t = handle'[d]
    BY DEF Owns
  <2>1. \A t \in Slots : t # at /\ evt[t].used => evt'[t].used /\ evt'[t].cb = evt[t].cb
    BY <1>3, <1>5, <1>12 DEF SlotsAfterWalk
  <2>2. /\ handle[d] # None =>
             handle[d] \in Slots /\ evt[handle[d]].used /\ evt[handle[d]].cb = d
        /\ \A t \in Slots : evt[t].used /\ evt[t].cb = d => t = handle[d]
    BY <1>2 DEF Owns
  <2>3. CASE d = Caller
    <3>1. at = handle[d] /\ handle'[d] = None
      BY <1>1, <1>2, <2>2, <2>3 DEF Caller
    <3>2. ASSUME NEW t \in Slots, evt'[t].used, evt'[t].cb = d PROVE FALSE
      BY <1>13, <2>2, <3>1, <3>2
    <3> QED BY <3>1, <3>2
  <2>4. CASE d # Caller
    <3>1. handle'[d] = handle[d]
      BY <1>1, <2>4
    <3>2. handle[d] # None => handle[d] # at
      BY <2>2, <2>4 DEF Caller
    <3>3. \A t \in Slots : evt'[t].used /\ evt'[t].cb = d => t = handle[d]
      BY <1>13, <2>2
    <3> QED BY <2>1, <2>2, <3>1, <3>2, <3>3
  <2> QED BY <2>3, <2>4
<1>16. SlotInv'
  BY <1>12, <1>14, <1>15, OwnsFacts DEF SlotInv
<1>17. ASSUME NEW s \in Slots, evt'[s].used
       PROVE  /\ s # at /\ evt[s].used /\ age'[s] = age[s]
              /\ evt'[s].timeout = evt[s].timeout /\ evt'[s].period = evt[s].period
              /\ evt'[s].running = evt[s].running /\ evt'[s].tick = evt[s].tick
              /\ evt'[s].busy => evt[s].timeout = 0
  BY <1>12, <1>13, <1>17 DEF SlotsAfterWalk
<1> QED BY <1>16, <1>17

(* A callback asks to be called again (ReturnAgain).                        *)
LEMMA SlotReturnAgain ==
  ASSUME SlotInv, NEW t \in Again, ReturnAgain(t)
  PROVE  /\ SlotInv'
         /\ evt'[at].timeout = evt'[at].period /\ evt'[at].running = evt[at].running
         /\ evt'[at].tick = evt[at].tick /\ ~evt'[at].busy /\ age'[at] = Lag
         /\ \A s \in Slots : s # at =>
              /\ evt'[s].used = evt[s].used /\ age'[s] = age[s]
              /\ evt'[s].timeout = evt[s].timeout /\ evt'[s].period = evt[s].period
              /\ evt'[s].running = evt[s].running /\ evt'[s].tick = evt[s].tick
              /\ evt'[s].busy => evt[s].used /\ evt[s].timeout = 0
<1> DEFINE p == IF t = 0 THEN evt[at].period ELSE t
           e == [evt EXCEPT ![at].period = p, ![at].timeout = p, ![at].busy = FALSE]
           g == [age EXCEPT ![at] = Lag]
<1>1. /\ at # None /\ UNCHANGED <<list, usedNum, clock, prev, rem, handle>>
      /\ WalkOn(list, e) /\ age' = g
  BY DEF ReturnAgain
<1>2. /\ PoolAgrees(Pool) /\ Pool.list = list /\ Pool.evt = evt /\ Pool.used = usedNum
      /\ at \in Slots /\ evt[at].used
      /\ evt \in [Slots -> Events] /\ \A s \in Slots : SlotSound(evt[s])
      /\ age \in [Slots -> Nat]
      /\ Owns(evt, handle) /\ ClockType /\ HandleType
      /\ clock \in Ticks /\ prev \in Ticks
  BY <1>1, SlotFacts DEF ClockType, HandleType
<1>3. Lag \in Nat
  BY <1>2, ClockFacts DEF Lag
<1>4. p \in Nat /\ p > 0 /\ p \in {0} \cup Periods \cup Again
  <2>1. /\ evt[at] \in Events /\ evt[at].period \in {0} \cup Periods \cup Again
        /\ evt[at].period > 0
    BY <1>2 DEF SlotSound, Events
  <2>2. Periods \subseteq Nat \ {0} /\ Again \subseteq Nat
    BY TimersAssumption
  <2>3. CASE t = 0
    BY <2>1, <2>2, <2>3
  <2>4. CASE t # 0
    BY <2>2, <2>4
  <2> QED BY <2>3, <2>4
<1> HIDE DEF p
<1>5. /\ e[at] = [evt[at] EXCEPT !.period = p, !.timeout = p, !.busy = FALSE]
      /\ \A s \in Slots : s # at => e[s] = evt[s]
      /\ e = [s \in Slots |-> e[s]]
  BY <1>2
<1>6. evt[at] \in Events
  BY <1>2
<1> HIDE DEF e
<1>7. /\ e[at] \in Events /\ e[at].used = evt[at].used /\ e[at].busy = FALSE
      /\ e[at].running = evt[at].running /\ e[at].tick = evt[at].tick
      /\ e[at].cb = evt[at].cb
      /\ e[at].timeout = p /\ e[at].period = p
  BY <1>4, <1>5, <1>6 DEF Events
<1>8. SlotSound(e[at])
  BY <1>2, <1>4, <1>7 DEF SlotSound
<1>9. /\ e \in [Slots -> Events]
      /\ \A s \in Slots : SlotSound(e[s]) /\ (e[s].used <=> evt[s].used)
  <2>1. ASSUME NEW s \in Slots
        PROVE  e[s] \in Events /\ SlotSound(e[s]) /\ (e[s].used <=> evt[s].used)
    <3>1. CASE s = at
      BY <1>7, <1>8, <3>1
    <3>2. CASE s # at
      BY <1>2, <1>5, <3>2
    <3> QED BY <3>1, <3>2
  <2> QED BY <1>5, <2>1
<1>10. g \in [Slots -> Nat] /\ g[at] = Lag /\ \A s \in Slots : s # at => g[s] = age[s]
  BY <1>2, <1>3
<1> HIDE DEF g
<1> DEFINE q == [list |-> Pool.list, evt |-> e, used |-> Pool.used, age |-> g]
<1>11. PoolAgrees(q)
  BY <1>2, <1>9, <1>10, SlotsChanged
<1>12. q.list = list /\ q.evt = e /\ q.used = usedNum /\ q.age = g
  BY <1>2
<1> HIDE DEF q
<1>13. PoolAgrees(Pool)' /\ WalkAgrees(list, evt, at, seen)' /\ SlotsAfterWalk(e)
  <2>1. \A s \in Slots : s # at => q.evt[s] = evt[s]
    BY <1>5, <1>12
  <2>2. WalkOn(q.list, q.evt)
    BY <1>1, <1>12
  <2>3. ~q.evt[at].busy /\ q.list = list /\ q.evt[at].timeout > 0
    BY <1>4, <1>7, <1>12
  <2>4. list' = q.list /\ usedNum' = q.used /\ age' = q.age
    BY <1>1, <1>12
  <2>5. PoolAgrees(Pool)' /\ WalkAgrees(list, evt, at, seen)' /\ SlotsAfterWalk(q.evt)
    BY <1>1, <1>11, <2>1, <2>2, <2>3, <2>4, WalkOnFacts
  <2> QED BY <1>12, <2>5
<1>14. ClockType' /\ HandleType'
  BY <1>1, <1>2 DEF ClockType, HandleType, Ticks
<1>15. Owns(evt', handle')
  <2>1. \A s \in Slots : evt'[s].cb = evt[s].cb /\ evt'[s].used = evt[s].used
    BY <1>5, <1>7, <1>13 DEF SlotsAfterWalk
  <2> QED BY <1>1, <1>2, <2>1 DEF Owns
<1>16. SlotInv'
  BY <1>13, <1>14, <1>15, OwnsFacts DEF SlotInv
<1>17. /\ evt'[at].timeout = evt'[at].period /\ evt'[at].running = evt[at].running
       /\ evt'[at].tick = evt[at].tick /\ ~evt'[at].busy /\ age'[at] = Lag
  BY <1>1, <1>2, <1>4, <1>7, <1>10, <1>13 DEF SlotsAfterWalk
<1>18. ASSUME NEW s \in Slots, s # at
       PROVE  /\ evt'[s].used = evt[s].used /\ age'[s] = age[s]
              /\ evt'[s].timeout = evt[s].timeout /\ evt'[s].period = evt[s].period
              /\ evt'[s].running = evt[s].running /\ evt'[s].tick = evt[s].tick
              /\ evt'[s].busy => evt[s].used /\ evt[s].timeout = 0
  BY <1>1, <1>5, <1>10, <1>13, <1>18 DEF SlotsAfterWalk
<1> QED BY <1>16, <1>17, <1>18

(* Each step keeps the invariant of the slots.                              *)
LEMMA SlotNext == SlotInv /\ [Next]_vars => SlotInv'
<1> SUFFICES ASSUME SlotInv, [Next]_vars PROVE SlotInv'
  OBVIOUS
<1>1. CASE Call
  BY <1>1, SlotStart, SlotStartAndForget, SlotCancel, SlotExhausted DEF Call
<1>2. CASE Elapse
  BY <1>2, SlotElapse
<1>3. CASE Process
  BY <1>3, SlotProcess
<1>4. CASE Return
  BY <1>4, SlotReturnDone, SlotReturnAgain DEF Return
<1>5. CASE UNCHANGED vars
  <2>1. /\ list' = list /\ evt' = evt /\ usedNum' = usedNum /\ clock' = clock
        /\ prev' = prev /\ rem' = rem /\ at' = at /\ seen' = seen
        /\ handle' = handle /\ age' = age
    BY <1>5 DEF vars
  <2>2. PoolAgrees(Pool)'
    BY <2>1, SlotFacts, PoolNext
  <2>3. WalkAgrees(list', evt', at', seen') /\ Owns(evt', handle')
    BY <2>1, SlotFacts
  <2>4. WalkAgrees(list, evt, at, seen)'
    BY <2>3 DEF WalkAgrees, NoneDue, Listed, Position
  <2>5. ClockType' /\ HandleType'
    BY <2>1 DEF SlotInv, ClockType, HandleType, Ticks
  <2> QED BY <2>2, <2>3, <2>4, <2>5, OwnsFacts DEF SlotInv
<1> QED BY <1>1, <1>2, <1>3, <1>4, <1>5 DEF Next

(* The invariant of the slots always holds.                                 *)
THEOREM SlotInvariant == Spec => []SlotInv
BY SlotInit, SlotNext, PTL DEF Spec

(* Every variable keeps its type, whatever the callbacks start and cancel.   *)
THEOREM TypeCorrect == Spec => []TypeOK
<1>1. SlotInv => TypeOK
  <2> SUFFICES ASSUME SlotInv PROVE TypeOK
    OBVIOUS
  <2>1. /\ PoolAgrees(Pool) /\ WalkAgrees(list, evt, at, seen)
        /\ clock \in Ticks /\ prev \in Ticks /\ rem \in 0 .. MsTicks - 1
        /\ handle \in [Keeps -> Slots \cup {None}]
        /\ list \in Seq(Slots) /\ evt \in [Slots -> Events] /\ age \in [Slots -> Nat]
        /\ Pool.used = usedNum /\ Pool.evt = evt
    BY SlotFacts
  <2>2. usedNum \in 0 .. Cardinality(Slots)
    <3>1. usedNum = Cardinality(Used(evt))
      BY <2>1 DEF PoolAgrees
    <3>2. /\ Cardinality(Used(evt)) \in Nat /\ Cardinality(Slots) \in Nat
          /\ Cardinality(Used(evt)) <= Cardinality(Slots)
      BY UsedFinite
    <3> QED BY <3>1, <3>2
  <2>3. at \in Slots \cup {None} /\ seen \in Slots \cup {None}
    BY <2>1 DEF WalkAgrees
  <2> QED BY <2>1, <2>2, <2>3 DEF TypeOK, Events
<1> QED BY <1>1, SlotInvariant, PTL

(* No slot leaks and none is given out twice: the pool, its counter and the  *)
(* list agree in every state, for every number of slots.                    *)
THEOREM PoolSoundHolds == Spec => []PoolSound
<1>1. SlotInv => PoolSound
  BY SlotFacts DEF PoolAgrees, PoolSound, Used
<1> QED BY <1>1, SlotInvariant, PTL

(* A handle is NULL or points to its client's own timer.                    *)
THEOREM HandleOwnsHolds == Spec => []HandleOwns
<1>1. SlotInv => HandleOwns
  BY DEF SlotInv
<1> QED BY <1>1, SlotInvariant, PTL

(* When a pass is over no timer that has run out was passed over.           *)
THEOREM PassCompleteHolds == Spec => PassComplete
<1> DEFINE Over == at # None /\ at' = None =>
                     \A s \in Slots : evt'[s].used => evt'[s].timeout > 0
<1>1. SlotInv' => Over
  <2> SUFFICES ASSUME SlotInv', at' = None, NEW s \in Slots, evt'[s].used
               PROVE  evt'[s].timeout > 0
    OBVIOUS
  <2> DEFINE q == [list |-> list', evt |-> evt', used |-> usedNum', age |-> age']
  <2>1. /\ WalkAgrees(list', evt', at', seen') /\ list' \in Seq(Slots)
        /\ Listed(list') = Used(evt')
    BY DEF SlotInv, PoolAgrees, Pool, WalkAgrees, NoneDue, Listed, Used, Position
  <2>2. s \in Listed(list')
    BY <2>1 DEF Used
  <2>3. PICK k \in 1 .. Len(list') : list'[k] = s
    BY <2>1, <2>2, ListedFacts
  <2> QED BY <2>1, <2>3 DEF WalkAgrees, NoneDue
<1>2. SlotInv' => [Over]_vars
  BY <1>1
<1> QED BY <1>2, SlotInvariant, PTL DEF PassComplete

-----------------------------------------------------------------------------
(* The time of the timers *)

(* Clock ticks in k milliseconds.                                           *)
Ms(k) == k * MsTicks

(* The time of a used slot v, set g ticks ago, when the loop lags by lag     *)
(* ticks and keeps the remainder r.  A timer that runs is within a           *)
(* millisecond of the time it has been counted; one that has run out is not  *)
(* called early; one that does not run yet was set after the last sample     *)
(* that counted.                                                            *)
TimeSound(v, g, lag, r, now) ==
  v.used =>
    /\ v.timeout <= v.period
    /\ v.busy => v.timeout = 0
    /\ v.running /\ v.timeout > 0 =>
         /\ g >= lag
         /\ g - lag < r + Ms(v.period - v.timeout) + MsTicks
         /\ r + Ms(v.period - v.timeout) < g - lag + MsTicks
    /\ v.running /\ v.timeout = 0 => g - lag > Ms(v.period - 1)
    /\ ~v.running =>
         /\ v.timeout = v.period /\ g <= lag + r
         /\ (now - v.tick) % ClockMod = g

TimeInv ==
  /\ SlotInv
  /\ Lag <= MaxBlock
  /\ \A s \in Slots : TimeSound(evt[s], age[s], Lag, rem, clock)

(* Milliseconds in ticks.                                                   *)
LEMMA MsFacts ==
  /\ MsTicks \in Nat /\ MsTicks > 0 /\ Ms(0) = 0
  /\ \A a \in Nat : Ms(a) \in Nat /\ (a > 0 => Ms(a) = Ms(a - 1) + MsTicks)
  /\ \A a, b \in Nat : Ms(a + b) = Ms(a) + Ms(b)
<1>1. MsTicks \in Nat /\ MsTicks > 0
  BY TimersAssumption
<1> DEFINE T == MsTicks
<1> HIDE DEF T
<1>2. T \in Nat
  BY <1>1 DEF T
<1>3. \A a \in Nat : a * T \in Nat /\ (a > 0 => a * T = (a - 1) * T + T)
  BY <1>2
<1>4. \A a, b \in Nat : (a + b) * T = a * T + b * T
  BY <1>2
<1>5. 0 * T = 0
  BY <1>2
<1> QED BY <1>1, <1>3, <1>4, <1>5 DEF T, Ms

(* A timer that runs, set g ticks ago, has t of p milliseconds left, and a    *)
(* pass of ms milliseconds leaves the remainder r2.                          *)
RunsBefore(g, lag, r, r2, ms, t, p) ==
  /\ g \in Nat /\ lag \in Nat /\ r \in Nat /\ r2 \in Nat /\ ms \in Nat
  /\ t \in Nat /\ p \in Nat /\ t > 0 /\ t <= p
  /\ lag + r = Ms(ms) + r2
  /\ g - lag < r + Ms(p - t) + MsTicks
  /\ r + Ms(p - t) < g - lag + MsTicks

(* The same timer after the pass.                                           *)
RunsAfter(g, r2, ms, t, p) ==
  /\ t > ms => /\ g < r2 + Ms(p - (t - ms)) + MsTicks
               /\ r2 + Ms(p - (t - ms)) < g + MsTicks
  /\ t <= ms => g > Ms(p - 1)

(* A pass of ms milliseconds counted against a timer that runs.              *)
LEMMA RunningPace ==
  ASSUME NEW g, NEW lag, NEW r, NEW r2, NEW ms, NEW t, NEW p,
         RunsBefore(g, lag, r, r2, ms, t, p)
  PROVE  RunsAfter(g, r2, ms, t, p)
<1> USE DEF RunsBefore
<1>1. MsTicks \in Nat /\ Ms(ms) \in Nat /\ p - t \in Nat /\ Ms(p - t) \in Nat
  BY MsFacts
<1>2. ASSUME t > ms
      PROVE  /\ g < r2 + Ms(p - (t - ms)) + MsTicks
             /\ r2 + Ms(p - (t - ms)) < g + MsTicks
  <2>1. p - (t - ms) = (p - t) + ms
    OBVIOUS
  <2>2. Ms(p - (t - ms)) = Ms(p - t) + Ms(ms)
    BY <1>1, <2>1, MsFacts
  <2> QED BY <1>1, <2>2
<1>3. ASSUME t <= ms PROVE g > Ms(p - 1)
  <2>1. ms - t \in Nat /\ p > 0 /\ ms = t + (ms - t) /\ p = (p - t) + t
    BY <1>3
  <2>2. /\ Ms(t + (ms - t)) = Ms(t) + Ms(ms - t) /\ Ms((p - t) + t) = Ms(p - t) + Ms(t)
        /\ Ms(t) \in Nat /\ Ms(ms - t) \in Nat
    BY <1>1, <2>1, MsFacts
  <2>3. Ms(ms) = Ms(t) + Ms(ms - t) /\ Ms(p) = Ms(p - t) + Ms(t)
    BY <2>1, <2>2
  <2>4. Ms(p) = Ms(p - 1) + MsTicks /\ Ms(p - 1) \in Nat
    <3>1. p - 1 \in Nat
      BY <2>1
    <3> QED BY <2>1, <3>1, MsFacts
  <2> QED BY <1>1, <2>2, <2>3, <2>4
<1> QED BY <1>2, <1>3 DEF RunsAfter

(* The first pass counted against a timer: it counts from its registration.  *)
LEMMA FirstPace ==
  ASSUME NEW g \in Nat, NEW r2 \in 0 .. MsTicks - 1, NEW p \in Nat, p > 0,
         NEW k, k = g \div MsTicks
  PROVE  /\ p > k => /\ g < r2 + Ms(p - (p - k)) + MsTicks
                     /\ r2 + Ms(p - (p - k)) < g + MsTicks
         /\ p <= k => g > Ms(p - 1)
<1>1. MsTicks \in Nat /\ MsTicks \in Nat \ {0}
  BY MsFacts
<1> DEFINE d == g % MsTicks
<1>2. k \in Nat /\ d \in 0 .. MsTicks - 1 /\ g = Ms(k) + d
  BY <1>1, DivFacts DEF Ms
<1> HIDE DEF d
<1>3. Ms(k) \in Nat /\ r2 \in Nat /\ r2 < MsTicks /\ d \in Nat /\ d < MsTicks
  BY <1>1, <1>2, MsFacts
<1>4. p - (p - k) = k
  BY <1>2
<1>5. ASSUME p <= k PROVE g > Ms(p - 1)
  <2>1. k - p \in Nat /\ k = p + (k - p) /\ p - 1 \in Nat
    BY <1>2, <1>5
  <2>2. /\ Ms(p + (k - p)) = Ms(p) + Ms(k - p) /\ Ms(k - p) \in Nat
        /\ Ms(p) = Ms(p - 1) + MsTicks /\ Ms(p - 1) \in Nat
    BY <2>1, MsFacts
  <2>3. Ms(k) = Ms(p) + Ms(k - p)
    BY <2>1, <2>2
  <2> QED BY <1>1, <1>2, <1>3, <2>2, <2>3, MsFacts
<1> QED BY <1>1, <1>2, <1>3, <1>4, <1>5

(* A tick, seen from an earlier value of the clock.                          *)
LEMMA TickOn ==
  ASSUME NEW a \in Ticks, NEW c \in Ticks, ((c - a) % ClockMod) + 1 < ClockMod,
         NEW d, d = (c + 1) % ClockMod
  PROVE  (d - a) % ClockMod = ((c - a) % ClockMod) + 1
<1>1. ClockMod \in Nat \ {0}
  BY TimersAssumption
<1>2. d \in Ticks /\ d = IF c = ClockMod - 1 THEN 0 ELSE c + 1
  BY TickFacts
<1>3. (c - a) % ClockMod = IF c >= a THEN c - a ELSE c - a + ClockMod
  BY ClockFacts
<1>4. (d - a) % ClockMod = IF d >= a THEN d - a ELSE d - a + ClockMod
  BY <1>2, ClockFacts
<1> QED BY <1>1, <1>2, <1>3, <1>4 DEF Ticks

(* The types the proofs about time need.                                    *)
LEMMA TimeFacts ==
  ASSUME TimeInv
  PROVE  /\ Lag \in Nat /\ Lag <= MaxBlock /\ MaxBlock \in Nat
         /\ MsTicks \in Nat /\ MsTicks > 0
         /\ rem \in Nat /\ rem < MsTicks /\ rem \in 0 .. MsTicks - 1
         /\ ClockMod \in Nat /\ MaxBlock + MsTicks <= ClockMod
         /\ clock \in Ticks /\ prev \in Ticks
         /\ \A s \in Slots :
              /\ evt[s].timeout \in Nat /\ evt[s].period \in Nat /\ evt[s].tick \in Ticks
              /\ evt[s].used => evt[s].period > 0
              /\ age[s] \in Nat
              /\ TimeSound(evt[s], age[s], Lag, rem, clock)
<1>1. /\ clock \in Ticks /\ prev \in Ticks /\ rem \in 0 .. MsTicks - 1
      /\ evt \in [Slots -> Events] /\ age \in [Slots -> Nat]
      /\ \A s \in Slots : SlotSound(evt[s])
  BY SlotFacts DEF TimeInv
<1>2. /\ Periods \subseteq Nat /\ Again \subseteq Nat
      /\ MsTicks \in Nat /\ MsTicks > 0 /\ ClockMod \in Nat /\ MaxBlock \in Nat
      /\ MaxBlock + MsTicks <= ClockMod
  BY TimersAssumption
<1>3. Lag \in Nat
  BY <1>1, ClockFacts DEF Lag
<1>4. ASSUME NEW s \in Slots
      PROVE  /\ evt[s].timeout \in Nat /\ evt[s].period \in Nat /\ evt[s].tick \in Ticks
             /\ evt[s].used => evt[s].period > 0
             /\ age[s] \in Nat
  <2>1. evt[s] \in Events
    BY <1>1
  <2>2. /\ evt[s].timeout \in Nat /\ evt[s].period \in {0} \cup Periods \cup Again
        /\ evt[s].tick \in Ticks
    BY <2>1 DEF Events
  <2>3. {0} \cup Periods \cup Again \subseteq Nat
    BY <1>2
  <2>4. evt[s].period \in Nat
    BY <2>2, <2>3
  <2> QED BY <1>1, <2>2, <2>4 DEF SlotSound
<1>5. rem \in Nat /\ rem < MsTicks
  BY <1>1, <1>2
<1> QED BY <1>1, <1>2, <1>3, <1>4, <1>5 DEF TimeInv

(* A call starts at most one timer, and leaves the others and the clock.     *)
LEMMA CallSlots ==
  ASSUME SlotInv, NEW c \in Clients, NEW p,
         \/ p \in Periods /\ Start(c, p)
         \/ p \in Periods /\ StartAndForget(c, p)
         \/ Cancel(c)
  PROVE  /\ UNCHANGED <<clock, prev, rem>>
         /\ \A s \in Slots : evt'[s].used =>
              \/ p \in Periods /\ evt'[s] = Fresh(c, p) /\ age'[s] = 0
              \/ evt[s].used /\ evt'[s] = evt[s] /\ age'[s] = age[s]
<1>1. /\ PoolAgrees(Pool) /\ Pool.evt = evt /\ Pool.age = age /\ clock \in Ticks
  BY SlotFacts
<1>2. ASSUME p \in Periods, Start(c, p)
      PROVE  /\ UNCHANGED <<clock, prev, rem>>
             /\ \A s \in Slots : evt'[s].used =>
                  \/ evt'[s] = Fresh(c, p) /\ age'[s] = 0
                  \/ evt[s].used /\ evt'[s] = evt[s] /\ age'[s] = age[s]
  <2> DEFINE q == CancelIn(Pool, handle[c])
  <2>1. c \in Keeps /\ MayCall(c) /\ UNCHANGED <<clock, prev, rem>>
    BY <1>2 DEF Start
  <2>2. PICK n \in FreeSlots(q) : Store(AddIn(q, n, c, p))
    BY <1>2 DEF Start
  <2>3. /\ PoolAgrees(q)
        /\ \A t \in Slots : q.evt[t].used <=> evt[t].used /\ evt[t].cb # c
        /\ \A t \in Slots : q.evt[t].used => q.evt[t] = evt[t] /\ q.age[t] = age[t]
    BY <2>1, CancelFacts
  <2> HIDE DEF q
  <2> DEFINE r == AddIn(q, n, c, p)
  <2>4. /\ r.evt[n] = Fresh(c, p) /\ r.age[n] = 0
        /\ \A t \in Slots : t # n => r.evt[t] = q.evt[t]
        /\ \A t \in Slots : t # n => r.age[t] = q.age[t]
    BY <1>1, <1>2, <2>3, AddFacts
  <2> HIDE DEF r
  <2>5. evt' = r.evt /\ age' = r.age
    BY <2>2 DEF Store, r
  <2> QED BY <1>2, <2>1, <2>3, <2>4, <2>5
<1>3. ASSUME p \in Periods, StartAndForget(c, p)
      PROVE  /\ UNCHANGED <<clock, prev, rem>>
             /\ \A s \in Slots : evt'[s].used =>
                  \/ evt'[s] = Fresh(c, p) /\ age'[s] = 0
                  \/ evt[s].used /\ evt'[s] = evt[s] /\ age'[s] = age[s]
  <2>1. UNCHANGED <<clock, prev, rem>>
    BY <1>3 DEF StartAndForget
  <2>2. PICK n \in FreeSlots(Pool) : Store(AddIn(Pool, n, c, p))
    BY <1>3 DEF StartAndForget
  <2> DEFINE r == AddIn(Pool, n, c, p)
  <2>3. /\ r.evt[n] = Fresh(c, p) /\ r.age[n] = 0
        /\ \A t \in Slots : t # n => r.evt[t] = Pool.evt[t]
        /\ \A t \in Slots : t # n => r.age[t] = Pool.age[t]
    BY <1>1, <1>3, AddFacts
  <2> HIDE DEF r
  <2>4. evt' = r.evt /\ age' = r.age
    BY <2>2 DEF Store, r
  <2> QED BY <1>1, <1>3, <2>1, <2>3, <2>4
<1>4. ASSUME Cancel(c)
      PROVE  /\ UNCHANGED <<clock, prev, rem>>
             /\ \A s \in Slots : evt'[s].used =>
                  evt[s].used /\ evt'[s] = evt[s] /\ age'[s] = age[s]
  <2> DEFINE r == CancelIn(Pool, handle[c])
  <2>1. c \in Keeps /\ MayCall(c) /\ UNCHANGED <<clock, prev, rem>> /\ Store(r)
    BY <1>4 DEF Cancel
  <2>2. /\ \A t \in Slots : r.evt[t].used <=> evt[t].used /\ evt[t].cb # c
        /\ \A t \in Slots : r.evt[t].used => r.evt[t] = evt[t] /\ r.age[t] = age[t]
    BY <2>1, CancelFacts
  <2> HIDE DEF r
  <2>3. evt' = r.evt /\ age' = r.age
    BY <2>1 DEF Store
  <2> QED BY <2>1, <2>2, <2>3
<1> QED BY <1>2, <1>3, <1>4

(* The time of the timers after a call.                                     *)
LEMMA TimeCall ==
  ASSUME TimeInv, NEW c \in Clients, NEW p, SlotInv',
         \/ p \in Periods /\ Start(c, p)
         \/ p \in Periods /\ StartAndForget(c, p)
         \/ Cancel(c)
  PROVE  TimeInv'
<1>1. /\ clock' = clock /\ prev' = prev /\ rem' = rem
      /\ \A s \in Slots : evt'[s].used =>
           \/ p \in Periods /\ evt'[s] = Fresh(c, p) /\ age'[s] = 0
           \/ evt[s].used /\ evt'[s] = evt[s] /\ age'[s] = age[s]
  BY CallSlots DEF TimeInv
<1>2. /\ Lag \in Nat /\ Lag <= MaxBlock /\ rem \in Nat /\ clock \in Ticks
      /\ \A s \in Slots : TimeSound(evt[s], age[s], Lag, rem, clock)
  BY TimeFacts
<1>3. Lag' = Lag
  BY <1>1 DEF Lag
<1>4. ASSUME p \in Periods PROVE TimeSound(Fresh(c, p), 0, Lag, rem, clock)
  <2>1. (clock - clock) % ClockMod = 0
    <3>1. clock \in Int
      BY <1>2, TimersAssumption DEF Ticks
    <3> QED BY <1>2, <3>1, ClockFacts
  <2>2. 0 <= Lag + rem /\ p \in Nat
    BY <1>2, <1>4, TimersAssumption
  <2> QED BY <2>1, <2>2 DEF TimeSound, Fresh
<1>5. ASSUME NEW s \in Slots
      PROVE  TimeSound(evt'[s], age'[s], Lag', rem', clock')
  <2>1. CASE ~evt'[s].used
    BY <2>1 DEF TimeSound
  <2>2. CASE p \in Periods /\ evt'[s] = Fresh(c, p) /\ age'[s] = 0
    BY <1>1, <1>3, <1>4, <2>2
  <2>3. CASE evt[s].used /\ evt'[s] = evt[s] /\ age'[s] = age[s]
    BY <1>1, <1>2, <1>3, <2>3
  <2> QED BY <1>1, <2>1, <2>2, <2>3
<1>6. (\A s \in Slots : TimeSound(evt[s], age[s], Lag, rem, clock))'
  BY <1>5 DEF TimeSound, Ms
<1> QED BY <1>2, <1>3, <1>6 DEF TimeInv

(* Time goes on.                                                            *)
LEMMA TimeElapse ==
  ASSUME TimeInv, Elapse, SlotInv' PROVE TimeInv'
<1>1. /\ Lag < MaxBlock /\ clock' = (clock + 1) % ClockMod
      /\ evt' = evt /\ prev' = prev /\ rem' = rem
      /\ \A s \in Slots : evt[s].used => age'[s] = age[s] + 1
  BY DEF Elapse
<1>2. /\ Lag \in Nat /\ MaxBlock \in Nat /\ MsTicks \in Nat /\ MsTicks > 0
      /\ rem \in Nat /\ rem < MsTicks /\ ClockMod \in Nat
      /\ MaxBlock + MsTicks <= ClockMod /\ clock \in Ticks /\ prev \in Ticks
  BY TimeFacts
<1>3. Lag' = Lag + 1
  <2>1. ((clock - prev) % ClockMod) + 1 < ClockMod
    BY <1>1, <1>2 DEF Lag
  <2>2. (clock' - prev) % ClockMod = ((clock - prev) % ClockMod) + 1
    BY <1>1, <1>2, <2>1, TickOn
  <2> QED BY <1>1, <2>2 DEF Lag
<1>4. ASSUME NEW s \in Slots
      PROVE  TimeSound(evt'[s], age'[s], Lag', rem', clock')
  <2> DEFINE v == evt[s]
             m == Ms(v.period - v.timeout)
             n == Ms(v.period - 1)
  <2>1. CASE ~v.used
    BY <1>1, <2>1 DEF TimeSound
  <2>2. CASE v.used
    <3>1. /\ v.timeout \in Nat /\ v.period \in Nat /\ v.period > 0 /\ v.tick \in Ticks
          /\ age[s] \in Nat /\ TimeSound(v, age[s], Lag, rem, clock)
      BY <2>2, TimeFacts
    <3>2. /\ v.timeout <= v.period
          /\ v.busy => v.timeout = 0
          /\ v.running /\ v.timeout > 0 =>
               age[s] >= Lag /\ age[s] - Lag < rem + m + MsTicks
               /\ rem + m < age[s] - Lag + MsTicks
          /\ v.running /\ v.timeout = 0 => age[s] - Lag > n
          /\ ~v.running => /\ v.timeout = v.period /\ age[s] <= Lag + rem
                           /\ (clock - v.tick) % ClockMod = age[s]
      BY <2>2, <3>1 DEF TimeSound
    <3>3. m \in Nat /\ n \in Nat
      <4>1. v.period - v.timeout \in Nat /\ v.period - 1 \in Nat
        BY <3>1, <3>2
      <4> QED BY <4>1, MsFacts
    <3> HIDE DEF m, n
    <3>4. age'[s] = age[s] + 1
      BY <1>1, <2>2
    <3>5. /\ v.running /\ v.timeout > 0 =>
               age'[s] >= Lag' /\ age'[s] - Lag' < rem + m + MsTicks
               /\ rem + m < age'[s] - Lag' + MsTicks
          /\ v.running /\ v.timeout = 0 => age'[s] - Lag' > n
          /\ ~v.running => age'[s] <= Lag' + rem
      BY <1>2, <1>3, <3>1, <3>2, <3>3, <3>4
    <3>6. ~v.running => (clock' - v.tick) % ClockMod = age'[s]
      <4> SUFFICES ASSUME ~v.running PROVE (clock' - v.tick) % ClockMod = age'[s]
        OBVIOUS
      <4>1. ((clock - v.tick) % ClockMod) + 1 < ClockMod
        BY <1>1, <1>2, <3>1, <3>2
      <4>2. (clock' - v.tick) % ClockMod = ((clock - v.tick) % ClockMod) + 1
        BY <1>1, <1>2, <3>1, <4>1, TickOn
      <4> QED BY <3>2, <3>4, <4>2
    <3>7. evt'[s] = v
      BY <1>1
    <3> HIDE DEF v
    <3> QED BY <1>1, <3>2, <3>5, <3>6, <3>7 DEF TimeSound, m, n
  <2> QED BY <2>1, <2>2
<1>5. (\A s \in Slots : TimeSound(evt[s], age[s], Lag, rem, clock))'
  BY <1>4 DEF TimeSound, Ms
<1>6. Lag' <= MaxBlock
  BY <1>1, <1>2, <1>3
<1> QED BY <1>5, <1>6 DEF TimeInv

(* A pass of ms milliseconds makes w of the timer v: k of the t milliseconds   *)
(* left are counted.                                                        *)
Counts(v, w, g, lag, r, r2, ms, now, k, t, p) ==
  /\ g \in Nat /\ lag \in Nat /\ r \in Nat /\ r2 \in 0 .. MsTicks - 1 /\ ms \in Nat
  /\ k \in Nat /\ t \in Nat /\ p \in Nat /\ t > 0
  /\ v.timeout = t /\ v.period = p /\ v.used /\ TimeSound(v, g, lag, r, now)
  /\ lag + r = Ms(ms) + r2
  /\ v.running => k = ms
  /\ ~v.running => k = g \div MsTicks
  /\ w.used /\ w.period = p /\ (w.busy => w.timeout = 0)
  /\ ms = 0 => w.timeout = t /\ w.tick = v.tick /\ (w.running <=> v.running)
  /\ ms # 0 => w.running /\ w.timeout = IF t > k THEN t - k ELSE 0

(* A timer after a pass has been counted against it.                        *)
LEMMA CountedTime ==
  ASSUME NEW v, NEW w, NEW g, NEW lag, NEW r, NEW r2, NEW ms, NEW now, NEW k,
         NEW t, NEW p, Counts(v, w, g, lag, r, r2, ms, now, k, t, p)
  PROVE  TimeSound(w, g, 0, r2, now)
<1> USE DEF Counts
<1>1. /\ t <= p
      /\ v.running => g >= lag
      /\ v.running => g - lag < r + Ms(p - t) + MsTicks
      /\ v.running => r + Ms(p - t) < g - lag + MsTicks
      /\ ~v.running => t = p /\ g <= lag + r /\ (now - v.tick) % ClockMod = g
  BY DEF TimeSound
<1>2. r2 \in Nat /\ r2 < MsTicks /\ MsTicks \in Nat /\ g - 0 = g /\ g >= 0 /\ 0 + r2 = r2
  <2>1. MsTicks \in Nat
    BY MsFacts
  <2>2. g \in Nat /\ r2 \in 0 .. MsTicks - 1
    OBVIOUS
  <2> QED BY <2>1, <2>2
<1>3. p > 0
  BY <1>1
<1>4. CASE ms = 0
  <2>1. lag + r = r2
    <3>1. Ms(ms) = 0
      BY <1>4, MsFacts
    <3> QED BY <1>2, <3>1
  <2>2. Ms(p - t) \in Nat
    <3>1. p - t \in Nat
      BY <1>1
    <3> QED BY <3>1, MsFacts
  <2>3. /\ v.running => g < r2 + Ms(p - t) + MsTicks
        /\ v.running => r2 + Ms(p - t) < g + MsTicks
        /\ ~v.running => g <= r2
    BY <1>1, <1>2, <2>1, <2>2
  <2>4. ~(t = 0)
    OBVIOUS
  <2>5. w.timeout = t /\ w.tick = v.tick /\ (w.running <=> v.running)
    BY <1>4
  <2> QED BY <1>1, <1>2, <2>3, <2>4, <2>5 DEF TimeSound
<1>5. ASSUME ms # 0,
             NEW u, u = IF t > k THEN t - k ELSE 0,
             t > k => g < r2 + Ms(p - (t - k)) + MsTicks,
             t > k => r2 + Ms(p - (t - k)) < g + MsTicks,
             t <= k => g > Ms(p - 1)
      PROVE  TimeSound(w, g, 0, r2, now)
  <2>1. /\ u > 0 => g < r2 + Ms(p - u) + MsTicks
        /\ u > 0 => r2 + Ms(p - u) < g + MsTicks
        /\ u = 0 => g > Ms(p - 1)
        /\ u <= p
    <3>1. CASE t > k
      BY <1>1, <1>5, <3>1
    <3>2. CASE t <= k
      BY <1>1, <1>5, <3>2
    <3> QED BY <3>1, <3>2
  <2>2. w.running /\ w.timeout = u
    BY <1>5
  <2> QED BY <1>2, <2>1, <2>2 DEF TimeSound
<1>6. CASE ms # 0 /\ v.running
  <2>1. k = ms
    BY <1>6
  <2>2. RunsBefore(g, lag, r, r2, ms, t, p)
    BY <1>1, <1>2, <1>6 DEF RunsBefore
  <2>3. RunsAfter(g, r2, ms, t, p)
    BY <2>2, RunningPace
  <2> QED BY <1>5, <1>6, <2>1, <2>3 DEF RunsAfter
<1>7. CASE ms # 0 /\ ~v.running
  <2>1. k = g \div MsTicks /\ t = p
    BY <1>1, <1>7
  <2>2. /\ p > k => /\ g < r2 + Ms(p - (p - k)) + MsTicks
                    /\ r2 + Ms(p - (p - k)) < g + MsTicks
        /\ p <= k => g > Ms(p - 1)
    BY <1>3, <2>1, FirstPace
  <2> QED BY <1>5, <1>7, <2>1, <2>2
<1> QED BY <1>4, <1>6, <1>7

(* A pass counts the time against every timer.                              *)
LEMMA TimeProcess ==
  ASSUME TimeInv, Process PROVE TimeInv'
<1> DEFINE ms == Lag \div MsTicks + (rem + (Lag % MsTicks)) \div MsTicks
           e == Updated(ms)
<1>1. SlotInv /\ WalkAgrees(list, evt, at, seen) /\ at = None /\ list \in Seq(Slots)
      /\ Listed(list) = Used(evt)
  BY SlotFacts DEF TimeInv, Process
<1>2. SlotInv' /\ SlotsAfterWalk(e)
  BY <1>1, SlotProcess
<1>3. /\ prev' = clock /\ clock' = clock /\ age' = age
      /\ rem' = (rem + (Lag % MsTicks)) % MsTicks
  BY DEF Process
<1>4. ms \in Nat /\ rem' \in 0 .. MsTicks - 1 /\ Lag + rem = Ms(ms) + rem'
  BY <1>1, <1>3, PassFacts DEF Ms
<1> HIDE DEF ms
<1>5. \A s \in Slots :
        /\ e[s].used = evt[s].used /\ e[s].period = evt[s].period
        /\ ms = 0 \/ ~evt[s].used => e[s] = evt[s]
        /\ ms # 0 /\ evt[s].used =>
             /\ e[s].running
             /\ e[s].timeout = IF evt[s].timeout > Elapsed(s, ms)
                               THEN evt[s].timeout - Elapsed(s, ms) ELSE 0
  BY <1>1, <1>4, UpdatedFacts
<1> HIDE DEF e
<1>6. /\ Lag \in Nat /\ MaxBlock \in Nat /\ MsTicks \in Nat /\ MsTicks > 0
      /\ rem \in Nat /\ clock \in Ticks /\ rem' \in Nat /\ rem' < MsTicks
  BY <1>4, TimeFacts
<1>7. Lag' = 0
  <2>1. clock \in Int /\ (clock - clock) % ClockMod = 0
    <3>1. clock \in Int
      BY <1>6, TimersAssumption DEF Ticks
    <3> QED BY <1>6, <3>1, ClockFacts
  <2> QED BY <1>3, <2>1 DEF Lag
<1>8. ASSUME NEW s \in Slots, evt[s].used PROVE evt[s].timeout > 0
  <2>1. s \in Listed(list)
    BY <1>1, <1>8 DEF Used
  <2>2. PICK k \in 1 .. Len(list) : list[k] = s
    BY <1>1, <2>1, ListedFacts
  <2> QED BY <1>1, <2>2 DEF WalkAgrees, NoneDue
<1>9. ASSUME NEW s \in Slots
      PROVE  TimeSound(evt'[s], age'[s], Lag', rem', clock')
  <2> DEFINE v == evt[s]
             w == evt'[s]
             g == age[s]
             t == v.timeout
             p == v.period
  <2>1. CASE ~v.used
    BY <1>2, <1>5, <2>1 DEF TimeSound, SlotsAfterWalk
  <2>2. CASE v.used
    <3>1. /\ t \in Nat /\ p \in Nat /\ p > 0 /\ t > 0
          /\ g \in Nat /\ TimeSound(v, g, Lag, rem, clock) /\ age'[s] = g
      BY <1>3, <1>8, <2>2, TimeFacts
    <3>2. w.used /\ w.period = p /\ (w.busy => w.timeout = 0)
      BY <1>2, <1>5, <2>2 DEF SlotsAfterWalk
    <3>3. /\ w.timeout = e[s].timeout /\ w.tick = e[s].tick /\ w.running = e[s].running
      BY <1>2 DEF SlotsAfterWalk
    <3>4. ms = 0 => w.timeout = t /\ w.tick = v.tick /\ (w.running <=> v.running)
      BY <1>5, <3>3
    <3> DEFINE k == Elapsed(s, ms)
    <3>5. k \in Nat
      BY <1>1, <1>4, UpdatedFacts
    <3>6. v.running => k = ms
      BY DEF Elapsed
    <3>7. ~v.running => k = g \div MsTicks
      BY <2>2, <3>1 DEF Elapsed, TimeSound
    <3>8. ms # 0 => w.running /\ w.timeout = IF t > k THEN t - k ELSE 0
      BY <1>5, <2>2, <3>3
    <3>9. v.timeout = t /\ v.period = p
      OBVIOUS
    <3> HIDE DEF w, v, t, p, g, k
    <3>10. Counts(v, w, g, Lag, rem, rem', ms, clock, k, t, p)
      BY <1>4, <1>6, <2>2, <3>1, <3>2, <3>4, <3>5, <3>6, <3>7, <3>8, <3>9 DEF Counts
    <3>11. TimeSound(w, g, 0, rem', clock)
      BY <3>10, CountedTime, Zenon
    <3> QED BY <1>3, <1>7, <3>1, <3>11 DEF w
  <2> QED BY <2>1, <2>2
<1>10. (\A s \in Slots : TimeSound(evt[s], age[s], Lag, rem, clock))'
  BY <1>9 DEF TimeSound, Ms
<1>11. Lag' <= MaxBlock
  BY <1>6, <1>7
<1> QED BY <1>2, <1>10, <1>11 DEF TimeInv

(* The timers after a callback.                                             *)
LEMMA TimeReturn ==
  ASSUME TimeInv, Return PROVE TimeInv'
<1>1. SlotInv /\ UNCHANGED <<clock, prev, rem>>
  BY DEF TimeInv, Return, ReturnDone, ReturnAgain
<1>2. /\ Lag \in Nat /\ Lag <= MaxBlock /\ rem \in Nat /\ MsTicks \in Nat /\ MsTicks > 0
      /\ \A s \in Slots : TimeSound(evt[s], age[s], Lag, rem, clock)
  BY TimeFacts
<1>3. Lag' = Lag /\ rem' = rem /\ clock' = clock
  BY <1>1 DEF Lag
<1>4. ASSUME NEW s \in Slots, evt[s].used, age'[s] = age[s],
             evt'[s].timeout = evt[s].timeout, evt'[s].period = evt[s].period,
             evt'[s].running = evt[s].running, evt'[s].tick = evt[s].tick,
             evt'[s].busy => evt[s].timeout = 0
      PROVE  TimeSound(evt'[s], age'[s], Lag', rem', clock')
  BY <1>2, <1>3, <1>4 DEF TimeSound
<1>5. ASSUME ReturnDone
      PROVE  /\ SlotInv'
             /\ \A s \in Slots : TimeSound(evt'[s], age'[s], Lag', rem', clock')
  <2>1. SlotInv'
    BY <1>1, <1>5, SlotReturnDone
  <2>2. ASSUME NEW s \in Slots
        PROVE  TimeSound(evt'[s], age'[s], Lag', rem', clock')
    <3>1. CASE ~evt'[s].used
      BY <3>1 DEF TimeSound
    <3>2. CASE evt'[s].used
      <4>1. /\ evt[s].used /\ age'[s] = age[s]
            /\ evt'[s].timeout = evt[s].timeout /\ evt'[s].period = evt[s].period
            /\ evt'[s].running = evt[s].running /\ evt'[s].tick = evt[s].tick
            /\ evt'[s].busy => evt[s].timeout = 0
        BY <1>1, <1>5, <3>2, SlotReturnDone
      <4> QED BY <1>4, <4>1
    <3> QED BY <3>1, <3>2
  <2> QED BY <2>1, <2>2
<1>6. ASSUME NEW t \in Again, ReturnAgain(t)
      PROVE  /\ SlotInv'
             /\ \A s \in Slots : TimeSound(evt'[s], age'[s], Lag', rem', clock')
  <2>1. SlotInv'
    BY <1>1, <1>6, SlotReturnAgain
  <2>2. /\ evt'[at].timeout = evt'[at].period /\ evt'[at].running = evt[at].running
        /\ evt'[at].tick = evt[at].tick /\ ~evt'[at].busy /\ age'[at] = Lag
    BY <1>1, <1>6, SlotReturnAgain
  <2>3. \A s \in Slots : s # at =>
          /\ evt'[s].used = evt[s].used /\ age'[s] = age[s]
          /\ evt'[s].timeout = evt[s].timeout /\ evt'[s].period = evt[s].period
          /\ evt'[s].running = evt[s].running /\ evt'[s].tick = evt[s].tick
          /\ evt'[s].busy => evt[s].used /\ evt[s].timeout = 0
    BY <1>1, <1>6, SlotReturnAgain
  <2>4. at \in Slots /\ evt[at].used /\ evt[at].busy
    BY <1>1, <1>6, SlotFacts DEF ReturnAgain
  <2>5. evt[at].running
    <3>1. evt[at].period > 0 /\ evt[at].period \in Nat /\ evt[at].timeout = 0
      BY <1>2, <2>4, TimeFacts DEF TimeSound
    <3> QED BY <1>2, <2>4, <3>1 DEF TimeSound
  <2>6. evt'[at].period \in Nat /\ evt'[at].period >= 0 /\ (evt'[at].used => evt'[at].period > 0)
    <3>1. PoolAgrees(Pool)'
      BY <2>1 DEF SlotInv
    <3>2. evt' \in [Slots -> Events] /\ \A s \in Slots : SlotSound(evt'[s])
      BY <3>1 DEF PoolAgrees, Pool, Events, SlotSound, Ticks
    <3>3. evt'[at] \in Events
      BY <2>4, <3>2
    <3>4. evt'[at].timeout \in Nat
      BY <3>3 DEF Events
    <3> QED BY <2>2, <2>4, <3>2, <3>4 DEF SlotSound
  <2>7. TimeSound(evt'[at], age'[at], Lag', rem', clock')
    <3> DEFINE p == evt'[at].period
    <3>1. p - p = 0 /\ Ms(0) = 0
      <4>1. p - p = 0
        BY <2>6
      <4> QED BY <4>1, MsFacts
    <3> HIDE DEF p
    <3>2. Lag >= Lag /\ Lag - Lag < rem + 0 + MsTicks /\ (rem < MsTicks => rem + 0 < Lag - Lag + MsTicks)
      BY <1>2
    <3>3. rem < MsTicks
      BY TimeFacts
    <3>4. p <= p /\ (evt'[at].used => p > 0)
      BY <2>6 DEF p
    <3>5. evt'[at].used => ~(p = 0)
      BY <2>6, <3>4 DEF p
    <3> QED BY <1>3, <2>2, <2>5, <3>1, <3>2, <3>3, <3>4, <3>5 DEF TimeSound, p
  <2>8. ASSUME NEW s \in Slots, s # at
        PROVE  TimeSound(evt'[s], age'[s], Lag', rem', clock')
    <3>1. CASE ~evt[s].used
      BY <2>3, <2>8, <3>1 DEF TimeSound
    <3>2. CASE evt[s].used
      BY <1>4, <2>3, <2>8, <3>2
    <3> QED BY <3>1, <3>2
  <2> QED BY <2>1, <2>7, <2>8
<1>7. SlotInv' /\ \A s \in Slots : TimeSound(evt'[s], age'[s], Lag', rem', clock')
  BY <1>5, <1>6 DEF Return
<1>8. (\A s \in Slots : TimeSound(evt[s], age[s], Lag, rem, clock))'
  BY <1>7 DEF TimeSound, Ms
<1> QED BY <1>2, <1>3, <1>7, <1>8 DEF TimeInv

(* No timer is left, and the loop has just sampled the clock.                *)
LEMMA TimeEmpty ==
  ASSUME NEW e, NEW g, NEW now \in Ticks, NEW lag, lag = (now - now) % ClockMod,
         e = [s \in Slots |-> Free]
  PROVE  lag <= MaxBlock /\ \A s \in Slots : TimeSound(e[s], g[s], lag, 0, now)
<1>1. now \in Int /\ MaxBlock \in Nat
  BY TimersAssumption DEF Ticks
<1>2. lag = 0
  BY <1>1, ClockFacts
<1> QED BY <1>1, <1>2 DEF TimeSound, Free

(* The invariant of the time of the timers.                                 *)
LEMMA TimeInit == Init => TimeInv
<1> SUFFICES ASSUME Init PROVE TimeInv
  OBVIOUS
<1>1. SlotInv /\ clock \in Ticks
  BY SlotInit, SlotFacts
<1>2. evt = [s \in Slots |-> Free] /\ prev = clock /\ rem = 0 /\ Lag = (clock - clock) % ClockMod
  BY DEF Init, Lag
<1> QED BY <1>1, <1>2, TimeEmpty DEF TimeInv

(* Each step keeps it.                                                      *)
LEMMA TimeNext == TimeInv /\ [Next]_vars => TimeInv'
<1> SUFFICES ASSUME TimeInv, [Next]_vars PROVE TimeInv'
  OBVIOUS
<1>1. SlotInv /\ SlotInv'
  BY SlotNext DEF TimeInv
<1>2. ASSUME NEW c \in Clients, Exhausted(c) PROVE TimeInv'
  <2>1. /\ clock' = clock /\ prev' = clock /\ rem' = 0 /\ evt' = [s \in Slots |-> Free]
    BY <1>2 DEF Exhausted
  <2>2. clock \in Ticks /\ Lag' = (clock - clock) % ClockMod
    BY <1>1, <2>1, SlotFacts DEF Lag
  <2>3. Lag' <= MaxBlock /\ \A s \in Slots : TimeSound(evt'[s], age'[s], Lag', rem', clock')
    BY <2>1, <2>2, TimeEmpty
  <2>4. (\A s \in Slots : TimeSound(evt[s], age[s], Lag, rem, clock))'
    BY <2>3 DEF TimeSound, Ms
  <2> QED BY <1>1, <2>3, <2>4 DEF TimeInv
<1>3. ASSUME NEW c \in Clients, Cancel(c) PROVE TimeInv'
  BY <1>1, <1>3, TimeCall
<1>4. CASE Call
  BY <1>1, <1>2, <1>3, <1>4, TimeCall DEF Call
<1>5. CASE Elapse
  BY <1>1, <1>5, TimeElapse
<1>6. CASE Process
  BY <1>6, TimeProcess
<1>7. CASE Return
  BY <1>7, TimeReturn
<1>8. CASE UNCHANGED vars
  <2>1. evt' = evt /\ age' = age /\ clock' = clock /\ prev' = prev /\ rem' = rem
    BY <1>8 DEF vars
  <2>2. Lag' = Lag
    BY <2>1 DEF Lag
  <2>3. (\A s \in Slots : TimeSound(evt[s], age[s], Lag, rem, clock))'
    BY <2>1, <2>2 DEF TimeInv, TimeSound, Ms
  <2> QED BY <1>1, <2>2, <2>3 DEF TimeInv
<1> QED BY <1>4, <1>5, <1>6, <1>7, <1>8 DEF Next

(* The invariant of the time of the timers always holds.                    *)
THEOREM TimeInvariant == Spec => []TimeInv
BY TimeInit, TimeNext, PTL DEF Spec

(* No timer is called a millisecond or more before its time.                 *)
THEOREM NeverEarlyHolds == Spec => NeverEarly
<1> DEFINE InTime ==
      \A s \in Slots :
        evt'[s].busy /\ ~evt[s].busy =>
          age'[s] - Lag' > (evt'[s].period - 1) * MsTicks
<1>1. TimeInv' => InTime
  <2> SUFFICES ASSUME TimeInv', NEW s \in Slots, evt'[s].busy
               PROVE  age'[s] - Lag' > Ms(evt'[s].period - 1)
    BY DEF Ms
  <2>1. PoolAgrees(Pool)' /\ WalkAgrees(list, evt, at, seen)'
    BY DEF TimeInv, SlotInv
  <2>2. /\ at' \in Slots \cup {None} /\ (evt'[s].busy <=> s = at')
        /\ at' # None => at' \in Listed(list)'
    BY <2>1 DEF WalkAgrees
  <2>3. Listed(list)' = Used(evt)' /\ SlotSound(evt[s])'
    BY <2>1 DEF PoolAgrees, Pool
  <2>4. evt'[s].used /\ evt'[s].period > 0 /\ (~evt'[s].used => ~evt'[s].running)
    BY <2>2, <2>3, TimersAssumption DEF Used, SlotSound
  <2>5. TimeSound(evt[s], age[s], Lag, rem, clock)'
    BY DEF TimeInv
  <2>6. /\ evt'[s].timeout = 0
        /\ ~evt'[s].running => evt'[s].timeout = evt'[s].period
        /\ evt'[s].running /\ evt'[s].timeout = 0 => age'[s] - Lag' > Ms(evt'[s].period - 1)
    BY <2>4, <2>5 DEF TimeSound, Ms
  <2> QED BY <2>4, <2>6
<1>2. TimeInv' => [InTime]_vars
  BY <1>1
<1> QED BY <1>2, TimeInvariant, PTL DEF NeverEarly

(* And none that is due waits for a later pass: between passes no timer is   *)
(* past its time by a millisecond at the last sample of the clock.           *)
THEOREM NeverLateHolds == Spec => []NeverLate
<1>1. TimeInv => NeverLate
  <2> SUFFICES ASSUME TimeInv, at = None, NEW s \in Slots, evt[s].used
               PROVE  age[s] - Lag < (evt[s].period + 1) * MsTicks
    BY DEF NeverLate
  <2> DEFINE t == evt[s].timeout
             p == evt[s].period
             m == Ms(p - t)
             n == Ms(p)
  <2>1. /\ t \in Nat /\ p \in Nat /\ p > 0 /\ age[s] \in Nat /\ Lag \in Nat
        /\ rem \in Nat /\ rem < MsTicks /\ MsTicks \in Nat
        /\ TimeSound(evt[s], age[s], Lag, rem, clock)
    BY TimeFacts
  <2>2. t > 0
    <3>1. /\ WalkAgrees(list, evt, at, seen) /\ list \in Seq(Slots)
          /\ Listed(list) = Used(evt)
      BY SlotFacts DEF TimeInv
    <3>2. PICK k \in 1 .. Len(list) : list[k] = s
      BY <3>1, ListedFacts DEF Used
    <3> QED BY <3>1, <3>2 DEF WalkAgrees, NoneDue
  <2>3. /\ t <= p
        /\ evt[s].running => age[s] - Lag < rem + m + MsTicks
        /\ ~evt[s].running => age[s] <= Lag + rem
    BY <2>1, <2>2 DEF TimeSound
  <2>4. (p + 1) * MsTicks = n + MsTicks
    <3>1. p + 1 \in Nat /\ p + 1 > 0 /\ (p + 1) - 1 = p
      BY <2>1
    <3>2. Ms(p + 1) = Ms(p) + MsTicks
      BY <3>1, MsFacts
    <3> QED BY <3>2 DEF Ms
  <2>5. m \in Nat /\ n \in Nat /\ m + MsTicks <= n
    <3>1. p - t \in Nat /\ t \in Nat /\ (p - t) + t = p /\ t - 1 \in Nat
      BY <2>1, <2>2, <2>3
    <3>2. Ms((p - t) + t) = Ms(p - t) + Ms(t) /\ Ms(p - t) \in Nat
      BY <3>1, MsFacts
    <3>3. Ms(t) = Ms(t - 1) + MsTicks /\ Ms(t - 1) \in Nat
      BY <2>2, <3>1, MsFacts
    <3>4. Ms(p) = Ms(p - t) + Ms(t)
      BY <3>1, <3>2
    <3> QED BY <2>1, <3>2, <3>3, <3>4
  <2> HIDE DEF m, n, t
  <2> QED BY <2>1, <2>3, <2>4, <2>5
<1> QED BY <1>1, TimeInvariant, PTL

=============================================================================
