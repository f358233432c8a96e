------------------------- MODULE Commissioning_proofs -------------------------
(***************************************************************************)
(* Theorems about Commissioning, for any threshold, any number of attempts, *)
(* restarts and queued tasks: types, the power-on counter, and that a       *)
(* device which is off its network is on its way to one, one that has joined *)
(* has saved it, and a commissioning that was begun ends.                   *)
(***************************************************************************)
EXTENDS Commissioning, SequenceTheorems, TLAPS

(* The tasks that are queued. *)
Posted(q) == {q[i] : i \in 1 .. Len(q)}

(* What the queue holds after a task was posted or taken. *)
LEMMA QueueFacts ==
  /\ Posted(<<>>) = {}
  /\ \A q \in Seq(Tasks) : \A e \in Tasks :
       /\ Append(q, e) \in Seq(Tasks) /\ Append(q, e) # <<>>
       /\ Posted(Append(q, e)) = Posted(q) \cup {e}
  /\ \A q \in Seq(Tasks) : q # <<>> =>
       /\ Head(q) \in Tasks /\ Tail(q) \in Seq(Tasks)
       /\ Posted(q) = {Head(q)} \cup Posted(Tail(q))
<1>1. Posted(<<>>) = {}
  BY DEF Posted
<1>2. ASSUME NEW q \in Seq(Tasks), NEW e \in Tasks
      PROVE  /\ Append(q, e) \in Seq(Tasks) /\ Append(q, e) # <<>>
             /\ Posted(Append(q, e)) = Posted(q) \cup {e}
  <2> DEFINE r == Append(q, e)
  <2>1. /\ r \in Seq(Tasks) /\ r # <<>>
        /\ Len(r) = Len(q) + 1 /\ Len(q) \in Nat
        /\ \A i \in 1 .. Len(q) : r[i] = q[i]
        /\ r[Len(q) + 1] = e
    OBVIOUS
  <2>2. \A x : x \in Posted(r) <=> x \in Posted(q) \/ x = e
    <3>1. \A i \in 1 .. Len(r) : i \in 1 .. Len(q) \/ i = Len(q) + 1
      BY <2>1
    <3>2. /\ \A i \in 1 .. Len(q) : i \in 1 .. Len(r)
          /\ Len(q) + 1 \in 1 .. Len(r)
      BY <2>1
    <3> HIDE DEF r
    <3> QED
      BY <2>1, <3>1, <3>2 DEF Posted
  <2> QED
    BY <2>1, <2>2
<1>3. ASSUME NEW q \in Seq(Tasks), q # <<>>
      PROVE  /\ Head(q) \in Tasks /\ Tail(q) \in Seq(Tasks)
             /\ Posted(q) = {Head(q)} \cup Posted(Tail(q))
  <2> DEFINE t == Tail(q)
  <2>0. Len(q) \in Nat /\ Len(q) > 0 /\ Head(q) = q[1]
    BY <1>3, EmptySeq
  <2>1. /\ Head(q) \in Tasks /\ t \in Seq(Tasks)
        /\ Len(q) \in Nat \ {0} /\ Len(t) = Len(q) - 1
        /\ Head(q) = q[1]
        /\ \A i \in 1 .. Len(t) : t[i] = q[i + 1]
    <3>1. Head(q) \in Tasks /\ t \in Seq(Tasks)
      BY <1>3, HeadTailProperties
    <3>2. Len(t) = Len(q) - 1 /\ \A i \in 1 .. Len(t) : t[i] = q[i + 1]
      BY <1>3, HeadTailProperties
    <3> QED
      BY <2>0, <3>1, <3>2
  <2>2. \A x : x \in Posted(q) <=> x = Head(q) \/ x \in Posted(t)
    <3>1. \A i \in 1 .. Len(q) :
            i = 1 \/ (i - 1 \in 1 .. Len(t) /\ q[i] = t[i - 1])
      BY <2>1
    <3>2. /\ \A i \in 1 .. Len(t) : i + 1 \in 1 .. Len(q)
          /\ 1 \in 1 .. Len(q)
      BY <2>1
    <3> HIDE DEF t
    <3> QED
      BY <2>1, <3>1, <3>2 DEF Posted
  <2> QED
    BY <2>1, <2>2
<1> QED
  BY <1>1, <1>2, <1>3

(* The task that runs, and what it does in which state. *)
LEMMA RunTaskCases ==
  ASSUME RunTask, NEW e, e = Head(tasks)
  PROVE  /\ tasks # <<>>
         /\ \/ e = "permitConfirm" /\ PermitConfirm
            \/ e = "infoSave" /\ InfoSave
            \/ bdb.state = "init" /\ e = "initDone" /\ InitDone
            \/ bdb.state = "idle" /\ e = "start" /\ Start
            \/ bdb.state \in {"idle", "steer"} /\ e = "finish" /\ Confirm
            \/ bdb.state = "steer" /\ e = "retrieve" /\ Retrieve
            \/ bdb.state = "steer" /\ e = "permitJoin" /\ PermitJoin
            \/ /\ e \notin {"permitConfirm", "infoSave"}
               /\ ~(bdb.state = "init" /\ e = "initDone")
               /\ ~(bdb.state = "idle" /\ e = "start")
               /\ ~(bdb.state \in {"idle", "steer"} /\ e = "finish")
               /\ ~(bdb.state = "steer" /\ e = "retrieve")
               /\ ~(bdb.state = "steer" /\ e = "permitJoin")
               /\ Drop
<1> HIDE DEF PermitConfirm, InfoSave, InitDone, Start, Confirm, Retrieve,
             PermitJoin, Drop
<1>1. tasks # <<>>
  BY DEF RunTask
<1>2. CASE e = "permitConfirm" \/ e = "infoSave"
  <2>1. /\ e = "permitConfirm" => PermitConfirm
        /\ e = "infoSave" => InfoSave
    BY <1>2 DEF RunTask
  <2> QED
    BY <1>1, <1>2, <2>1
<1>3. CASE e \notin {"permitConfirm", "infoSave"}
  <2>1. /\ bdb.state = "init" /\ e = "initDone" => InitDone
        /\ bdb.state = "idle" /\ e = "start" => Start
        /\ bdb.state \in {"idle", "steer"} /\ e = "finish" => Confirm
        /\ bdb.state = "steer" /\ e = "retrieve" => Retrieve
        /\ bdb.state = "steer" /\ e = "permitJoin" => PermitJoin
    BY <1>3 DEF RunTask
  <2>2. /\ ~(bdb.state = "init" /\ e = "initDone")
        /\ ~(bdb.state = "idle" /\ e = "start")
        /\ ~(bdb.state \in {"idle", "steer"} /\ e = "finish")
        /\ ~(bdb.state = "steer" /\ e = "retrieve")
        /\ ~(bdb.state = "steer" /\ e = "permitJoin")
        => Drop
    BY <1>3 DEF RunTask
  <2> QED
    BY <1>1, <1>3, <2>1, <2>2
<1> QED
  BY <1>2, <1>3

-----------------------------------------------------------------------------
(* Type correctness *)

(* The types of the parts of the state. *)
NetType ==
  net \in [factoryNew : BOOLEAN, joined : BOOLEAN, saved : BOOLEAN,
           mgr : {"idle", "discovery", "rejoin", "router"},
           leaving : {"none", "asked", "rejoin"}]
BdbType ==
  bdb \in [state : {"init", "idle", "steer"}, status : Statuses,
           initOk : BOOLEAN, com : Statuses \cup {"inProgress"},
           onNet : BOOLEAN]
TcType ==
  tc \in [starts : Nat, timer : BOOLEAN, attempts : 0 .. AttemptsMax + 1,
          leaveDoing : BOOLEAN, asked : BOOLEAN, key : BOOLEAN]
PowerType ==
  power \in [cnt : 0 .. 255, nv : 0 .. 255, timer : BOOLEAN, exist : BOOLEAN]
HistType ==
  hist \in [boots : 0 .. MaxBoots, quick : Nat, gaveUp : BOOLEAN,
            overtaken : BOOLEAN]
RestType ==
  /\ tasks \in Seq(Tasks)
  /\ delays \in [{"retrieve", "permitJoin"} -> 0 .. MaxPending]
  /\ steer \in BOOLEAN

(* The type invariant is that of its parts. *)
LEMMA TypeParts ==
  TypeOK <=> NetType /\ BdbType /\ TcType /\ PowerType /\ HistType /\ RestType
  BY DEF TypeOK, NetType, BdbType, TcType, PowerType, HistType, RestType

(* The same after a step. *)
LEMMA TypePartsNext ==
  TypeOK' <=> /\ NetType' /\ BdbType' /\ TcType'
              /\ PowerType' /\ HistType' /\ RestType'
  BY DEF TypeOK, NetType, BdbType, TcType, PowerType, HistType, RestType

(* What a step leaves alone keeps its type. *)
LEMMA TypeKept ==
  ASSUME TypeOK
  PROVE  /\ net' = net => NetType'
         /\ bdb' = bdb => BdbType'
         /\ tc' = tc => TcType'
         /\ power' = power => PowerType'
         /\ hist' = hist => HistType'
         /\ tasks' \in Seq(Tasks) /\ delays' = delays /\ steer' \in BOOLEAN
              => RestType'
         /\ tasks' = tasks => tasks' \in Seq(Tasks)
         /\ steer' = steer => steer' \in BOOLEAN
<1>1. net' = net => NetType'
  BY TypeParts DEF NetType
<1>2. bdb' = bdb => BdbType'
  BY TypeParts DEF BdbType
<1>3. tc' = tc => TcType'
  BY TypeParts DEF TcType
<1>4. power' = power => PowerType'
  BY TypeParts DEF PowerType
<1>5. hist' = hist => HistType'
  BY TypeParts DEF HistType
<1>6. /\ tasks' \in Seq(Tasks) /\ delays' = delays /\ steer' \in BOOLEAN
         => RestType'
      /\ tasks' = tasks => tasks' \in Seq(Tasks)
      /\ steer' = steer => steer' \in BOOLEAN
  BY TypeParts DEF RestType
<1> QED
  BY <1>1, <1>2, <1>3, <1>4, <1>5, <1>6

(* A device starts with values of their types. *)
LEMMA TypeInit == Init => TypeOK
<1> SUFFICES ASSUME Init
             PROVE  /\ NetType /\ BdbType /\ TcType
                    /\ PowerType /\ HistType /\ RestType
  BY TypeParts
<1>1. <<"initDone">> \in Seq(Tasks)
  BY DEF Tasks
<1>2. 1 \in 0 .. 255 /\ 0 \in 0 .. AttemptsMax + 1 /\ 0 \in 0 .. MaxBoots
      /\ 0 \in 0 .. MaxPending /\ 1 \in Nat /\ 0 \in Nat
  BY CommissioningAssumption
<1>3. NetType /\ BdbType
  BY DEF Init, NetType, BdbType, Statuses
<1>4. TcType
  BY <1>2 DEF Init, NoKeys, TcType
<1>5. PowerType /\ HistType
  BY <1>2 DEF Init, PowerType, HistType
<1>6. RestType
  BY <1>1, <1>2 DEF Init, RestType
<1> QED
  BY <1>3, <1>4, <1>5, <1>6

(* A leave asked for changes only what the library knows of leaves. *)
LEMMA LeavingType ==
  ASSUME TypeOK, NEW r \in BOOLEAN, net' = Leaving(r)
  PROVE  NetType'
  BY DEF Leaving, TypeOK, NetType

(* Every step keeps the types. *)
LEMMA TypeStep == TypeOK /\ [Next]_vars => TypeOK'
<1> SUFFICES ASSUME TypeOK, [Next]_vars
             PROVE  /\ NetType' /\ BdbType' /\ TcType'
                    /\ PowerType' /\ HistType' /\ RestType'
  BY TypePartsNext
<1>t. NetType /\ BdbType /\ TcType /\ PowerType /\ HistType /\ RestType
  BY TypeParts
<1>n. /\ 0 \in Nat /\ 0 \in 0 .. AttemptsMax + 1 /\ 0 \in 0 .. 255
      /\ 0 \in 0 .. MaxPending
  BY CommissioningAssumption
<1>q. \A e \in Tasks : Append(tasks, e) \in Seq(Tasks)
  BY <1>t, QueueFacts DEF RestType
<1>k. "initDone" \in Tasks /\ "start" \in Tasks /\ "finish" \in Tasks
      /\ "permitJoin" \in Tasks /\ "retrieve" \in Tasks
      /\ "permitConfirm" \in Tasks /\ "infoSave" \in Tasks
  BY DEF Tasks
<1>m. Unmarked \in [cnt : 0 .. 255, nv : 0 .. 255, timer : BOOLEAN, exist : BOOLEAN]
  BY <1>t DEF Unmarked, PowerType
<1>f. ASSUME NEW p \in [cnt : 0 .. 255, nv : 0 .. 255, timer : BOOLEAN, exist : BOOLEAN],
             FactoryReset(p)
      PROVE  NetType' /\ PowerType'
  <2>1. CASE net.factoryNew
    <3>1. NetType'
      <4>1. net' = [net EXCEPT !.saved = FALSE]
        BY <1>f, <2>1 DEF FactoryReset
      <4> QED
        BY <4>1, <1>t DEF NetType
    <3>2. PowerType'
      BY <1>f, <2>1, <1>n DEF FactoryReset, PowerType
    <3> QED
      BY <3>1, <3>2
  <2>2. CASE ~net.factoryNew
    <3>1. NetType'
      BY <1>f, <2>2, LeavingType DEF FactoryReset
    <3>2. PowerType'
      BY <1>f, <2>2 DEF FactoryReset, PowerType
    <3> QED
      BY <3>1, <3>2
  <2> QED
    BY <2>1, <2>2
<1>1. CASE UNCHANGED vars
  BY <1>1, <1>t, TypeKept DEF vars
<1>2. CASE Reboot
  <2>1. RestType'
    <3>1. <<"initDone">> \in Seq(Tasks) /\ <<>> \in Seq(Tasks)
      BY DEF Tasks
    <3> QED
      BY <1>2, <1>t, <3>1, <1>n DEF Reboot, Started, RestType
  <2>2. NetType'
    BY <1>2, <1>t DEF Reboot, Started, NetType
  <2>3. BdbType'
    BY <1>2, <1>t DEF Reboot, Started, NetType, BdbType, Statuses
  <2>4. TcType'
    BY <1>2, <1>n DEF Reboot, Started, NoKeys, TcType
  <2>5. PowerType'
    BY <1>2, <1>t DEF Reboot, PowerType
  <2>6. HistType'
    BY <1>2, <1>t, CommissioningAssumption DEF Reboot, HistType
  <2> QED
    BY <2>1, <2>2, <2>3, <2>4, <2>5, <2>6
<1>3. ASSUME NEW rejoin \in BOOLEAN, RemoteLeave(rejoin)
      PROVE  /\ NetType' /\ BdbType' /\ TcType'
             /\ PowerType' /\ HistType' /\ RestType'
  BY <1>3, <1>t, LeavingType, TypeKept DEF RemoteLeave
<1>4. CASE LeaveRejoins
  <2>1. NetType'
    BY <1>4, <1>t DEF LeaveRejoins, NetType
  <2>2. TcType'
    BY <1>4, <1>t DEF LeaveRejoins, Forgotten, TcType
  <2>3. HistType'
    BY <1>4, <1>t DEF LeaveRejoins, Overtaken, HistType, TcType
  <2> QED
    BY <1>4, <2>1, <2>2, <2>3, TypeKept DEF LeaveRejoins
<1>5. CASE LeaveDone
  <2>1. NetType'
    BY <1>5, <1>t DEF LeaveDone, NetType
  <2>2. TcType'
    BY <1>5, <1>t, <1>n DEF LeaveDone, Forgotten, TcType
  <2>3. HistType'
    BY <1>5, <1>t DEF LeaveDone, Overtaken, HistType, TcType
  <2>4. BdbType'
    BY <1>5, <1>t DEF LeaveDone, BdbType, Statuses
  <2>5. PowerType'
    BY <1>5, <1>t, <1>n DEF LeaveDone, PowerType
  <2> QED
    BY <1>5, <2>1, <2>2, <2>3, <2>4, <2>5, TypeKept DEF LeaveDone
<1>6. ASSUME NEW ok \in BOOLEAN, StartedInit(ok)
      PROVE  /\ NetType' /\ BdbType' /\ TcType'
             /\ PowerType' /\ HistType' /\ RestType'
  <2>1. NetType'
    BY <1>6, <1>t DEF StartedInit, Answered, NetType
  <2>2. BdbType'
    BY <1>6, <1>t DEF StartedInit, BdbType
  <2> QED
    BY <1>6, <1>q, <1>k, <2>1, <2>2, TypeKept DEF StartedInit, Post
<1>7. ASSUME NEW ok \in BOOLEAN, StartedIdle(ok)
      PROVE  /\ NetType' /\ BdbType' /\ TcType'
             /\ PowerType' /\ HistType' /\ RestType'
  <2>1. tasks' \in Seq(Tasks)
    <3>1. <<"infoSave", "finish">> \in Seq(Tasks)
      BY DEF Tasks
    <3>2. tasks \o <<"infoSave", "finish">> \in Seq(Tasks)
      BY <3>1, <1>t, ConcatProperties DEF RestType
    <3> QED
      BY <1>7, <1>q, <1>k, <3>2 DEF StartedIdle, Post
  <2>2. NetType'
    BY <1>7, <1>t DEF StartedIdle, Answered, NetType
  <2>3. BdbType'
    BY <1>7, <1>t DEF StartedIdle, BdbType, Statuses
  <2>4. HistType'
    BY <1>7, <1>t DEF StartedIdle, HistType
  <2> QED
    BY <1>7, <2>1, <2>2, <2>3, <2>4, TypeKept DEF StartedIdle
<1>8. CASE SteerJoined
  <2>1. delays' \in [{"retrieve", "permitJoin"} -> 0 .. MaxPending]
    BY <1>8, <1>t, CommissioningAssumption DEF SteerJoined, RestType
  <2>2. NetType'
    BY <1>8, <1>t DEF SteerJoined, Answered, NetType
  <2>3. BdbType'
    BY <1>8, <1>t DEF SteerJoined, BdbType, Statuses
  <2> QED
    BY <1>8, <1>t, <2>1, <2>2, <2>3, TypeKept DEF SteerJoined, RestType
<1>9. CASE SteerFailed
  <2>1. NetType'
    BY <1>9, <1>t DEF SteerFailed, Answered, NetType
  <2>2. BdbType'
    BY <1>9, <1>t DEF SteerFailed, BdbType, Statuses
  <2> QED
    BY <1>9, <1>q, <1>k, <2>1, <2>2, TypeKept DEF SteerFailed, Post
<1>10. CASE CounterTimer
  <2>1. PowerType'
    BY <1>10, <1>t, <1>n DEF CounterTimer, PowerType
  <2>2. HistType'
    BY <1>10, <1>t, <1>n DEF CounterTimer, HistType
  <2> QED
    BY <1>10, <2>1, <2>2, TypeKept DEF CounterTimer
<1>11. CASE AppTask
  BY <1>11, <1>f, <1>m, TypeKept DEF AppTask
<1>12. CASE ResetRequest
  BY <1>12, <1>f, <1>t, TypeKept DEF ResetRequest, PowerType
<1>13. CASE SwitchRejoins
  <2>1. NetType'
    BY <1>13, <1>t DEF SwitchRejoins, Rejoin, NetType
  <2> QED
    BY <1>13, <2>1, TypeKept DEF SwitchRejoins
<1>14. CASE SteerFires
  <2>1. BdbType'
    BY <1>14, <1>t DEF SteerFires, BdbType
  <2>2. tasks' \in Seq(Tasks)
    BY <1>14, <1>t, <1>q, <1>k DEF SteerFires, Post, RestType
  <2> QED
    BY <1>14, <2>1, <2>2, TypeKept DEF SteerFires
<1>15. CASE KeyStart
  <2>1. TcType'
    <3>1. net.joined \in BOOLEAN
      BY <1>t DEF NetType
    <3>2. tc.starts - 1 \in Nat
      BY <1>15, <1>t DEF KeyStart, TcType
    <3> QED
      BY <1>15, <1>t, <1>n, <3>1, <3>2 DEF KeyStart, TcType
  <2> QED
    BY <1>15, <2>1, TypeKept DEF KeyStart
<1>16. CASE NodeDesc
  <2>1. BdbType'
    BY <1>16, <1>t DEF NodeDesc, KeyDone, BdbType, Statuses
  <2>2. TcType'
    BY <1>16, <1>t DEF NodeDesc, TcType
  <2>3. HistType'
    BY <1>16, <1>t DEF NodeDesc, HistType, TcType
  <2>4. tasks' \in Seq(Tasks)
    BY <1>16, <1>t, <1>q, <1>k DEF NodeDesc, KeyDone, Post, RestType
  <2> QED
    BY <1>16, <2>1, <2>2, <2>3, <2>4, TypeKept DEF NodeDesc
<1>17. CASE KeyVerified
  <2>1. BdbType'
    BY <1>17, <1>t DEF KeyVerified, KeyDone, BdbType, Statuses
  <2>2. TcType'
    BY <1>17, <1>t DEF KeyVerified, TcType
  <2>3. tasks' \in Seq(Tasks)
    BY <1>17, <1>t, <1>q, <1>k DEF KeyVerified, KeyDone, Post, RestType
  <2> QED
    BY <1>17, <2>1, <2>2, <2>3, TypeKept DEF KeyVerified
<1>18. CASE KeyTimeout
  <2>1. Attempted \in 0 .. AttemptsMax + 1
    <3>1. tc.attempts \in 0 .. AttemptsMax + 1
      BY <1>t DEF TcType
    <3> QED
      BY <3>1, CommissioningAssumption DEF Attempted
  <2>2. NetType'
    BY <1>18, <1>t, LeavingType, TypeKept DEF KeyTimeout, AskAgain
  <2>3. BdbType'
    BY <1>18, <1>t DEF KeyTimeout, AskAgain, KeyDone, BdbType, Statuses
  <2>4. tasks' \in Seq(Tasks)
    BY <1>18, <1>t, <1>q, <1>k DEF KeyTimeout, AskAgain, KeyDone, Post, RestType
  <2>5. TcType'
    <3>1. net.joined \in BOOLEAN
      BY <1>t DEF NetType
    <3> HIDE DEF Attempted
    <3>2. CASE AskAgain
      BY <3>2, <3>1, <1>t, <2>1 DEF AskAgain, TcType
    <3>3. CASE tc' = [tc EXCEPT !.attempts = 0, !.timer = FALSE]
      BY <3>3, <1>t, <1>n DEF TcType
    <3>4. CASE tc' = [tc EXCEPT !.attempts = Attempted,
                  !.leaveDoing = @ \/ net'.leaving # net.leaving]
      BY <3>4, <1>t, <2>1 DEF TcType
    <3> QED
      BY <1>18, <3>2, <3>3, <3>4 DEF KeyTimeout
  <2> QED
    BY <1>18, <2>2, <2>3, <2>4, <2>5, TypeKept DEF KeyTimeout
<1>19. CASE RunTask
  <2> DEFINE tail == Tail(tasks)
  <2>0. tail \in Seq(Tasks)
    BY <1>19, <1>t, QueueFacts DEF RunTask, RestType
  <2>1. \A e \in Tasks : Append(tail, e) \in Seq(Tasks)
    BY <2>0, QueueFacts
  <2>2. CASE Confirm
    <3>1. NetType' /\ steer' \in BOOLEAN
      BY <2>2, <1>t DEF Confirm, CommissioningCb, Rejoin, NetType, RestType
    <3>2. BdbType'
      BY <2>2, <1>t DEF Confirm, BdbType
    <3> QED
      BY <2>0, <2>2, <3>1, <3>2, TypeKept DEF Confirm
  <2>3. CASE InitDone
    <3>1. BdbType' /\ HistType'
      BY <2>3, <1>t DEF InitDone, BdbType, HistType
    <3>2. steer' \in BOOLEAN
      BY <2>3, <1>t DEF InitDone, RestType
    <3>3. tasks' \in Seq(Tasks)
      BY <2>0, <2>1, <1>k, <2>3 DEF InitDone
    <3> QED
      BY <2>3, <3>1, <3>2, <3>3, TypeKept DEF InitDone
  <2>4. CASE Start
    <3>1. NetType' /\ BdbType'
      BY <2>4, <1>t DEF Start, NetType, BdbType
    <3>2. tasks' \in Seq(Tasks)
      BY <2>0, <2>1, <1>k, <2>4 DEF Start
    <3> QED
      BY <2>4, <3>1, <3>2, TypeKept DEF Start
  <2>5. CASE Retrieve
    <3>1. TcType'
      BY <2>5, <1>t DEF Retrieve, TcType
    <3> QED
      BY <2>5, <2>0, <3>1, TypeKept DEF Retrieve
  <2>6. CASE PermitJoin
    BY <2>1, <1>k, <2>6, TypeKept DEF PermitJoin
  <2>7. CASE Drop
    <3>1. BdbType'
      BY <2>7, <1>t DEF Drop, BdbType
    <3> QED
      BY <2>7, <2>0, <3>1, TypeKept DEF Drop
  <2>8. CASE PermitConfirm
    <3>1. BdbType'
      BY <2>8, <1>t DEF PermitConfirm, BdbType, Statuses
    <3>2. NetType'
      BY <2>8, <1>t DEF PermitConfirm, NetType, BdbType
    <3>3. tasks' \in Seq(Tasks)
      BY <2>0, <2>1, <1>k, <2>8 DEF PermitConfirm
    <3> QED
      BY <2>8, <3>1, <3>2, <3>3, TypeKept DEF PermitConfirm
  <2>9. CASE InfoSave
    <3>1. NetType'
      BY <2>9, <1>t DEF InfoSave, NetType
    <3> QED
      BY <2>9, <2>0, <3>1, TypeKept DEF InfoSave
  <2> QED
    BY <1>19, <2>2, <2>3, <2>4, <2>5, <2>6, <2>7, <2>8, <2>9, RunTaskCases
<1>20. ASSUME NEW e \in DOMAIN delays, DelayFires(e)
       PROVE  /\ NetType' /\ BdbType' /\ TcType'
              /\ PowerType' /\ HistType' /\ RestType'
  <2>1. e \in {"retrieve", "permitJoin"}
    BY <1>20, <1>t DEF RestType
  <2>2. delays' \in [{"retrieve", "permitJoin"} -> 0 .. MaxPending]
    BY <1>20, <1>t, <2>1, CommissioningAssumption DEF DelayFires, RestType
  <2>3. tasks' \in Seq(Tasks)
    BY <1>20, <1>q, <1>k, <2>1 DEF DelayFires, Post
  <2> QED
    BY <1>20, <1>t, <2>2, <2>3, TypeKept DEF DelayFires, RestType
<1>21. CASE Library
  BY <1>21, <1>3, <1>4, <1>5 DEF Library
<1>22. CASE StartCnf
  BY <1>22, <1>6, <1>7, <1>8, <1>9 DEF StartCnf
<1> QED
  BY <1>1, <1>2, <1>10, <1>11, <1>12, <1>13, <1>14, <1>15, <1>16, <1>17,
     <1>18, <1>19, <1>20, <1>21, <1>22
  DEF Next, Application, Keys

(* What the library, the stack and the application keep has its type. *)
THEOREM TypeCorrect == Spec => []TypeOK
<1> QED
  BY TypeInit, TypeStep, PTL DEF Spec

-----------------------------------------------------------------------------
(* The power-on counter *)

(* The counters of starts are never ahead of the starts. *)
CountInv == power.nv <= hist.quick /\ power.cnt <= hist.quick

(* Only a start counts, only the timer of the counter marks a reset; other
   steps at most clear. *)
LEMMA PowerStep ==
  ASSUME TypeOK, [Next]_vars, ~Reboot, ~CounterTimer
  PROVE  /\ hist'.quick = hist.quick /\ power'.cnt = power.cnt
         /\ power'.nv \in {0, power.nv} /\ (power'.exist => power.exist)
<1>t. PowerType /\ HistType
  BY TypeParts
<1>k. power' = power /\ hist' = hist =>
        /\ hist'.quick = hist.quick /\ power'.cnt = power.cnt
        /\ power'.nv \in {0, power.nv} /\ (power'.exist => power.exist)
  OBVIOUS
<1>h. \A b : [hist EXCEPT !.overtaken = b].quick = hist.quick
             /\ [hist EXCEPT !.gaveUp = b].quick = hist.quick
  BY <1>t DEF HistType
<1>p. /\ [power EXCEPT !.exist = FALSE].cnt = power.cnt
      /\ [power EXCEPT !.exist = FALSE].nv = power.nv
      /\ [power EXCEPT !.exist = FALSE].exist = FALSE
      /\ [power EXCEPT !.nv = 0].cnt = power.cnt
      /\ [power EXCEPT !.nv = 0].nv = 0
      /\ [power EXCEPT !.nv = 0].exist = power.exist
      /\ [Unmarked EXCEPT !.nv = 0].cnt = power.cnt
      /\ [Unmarked EXCEPT !.nv = 0].nv = 0
      /\ [Unmarked EXCEPT !.nv = 0].exist = FALSE
  BY <1>t DEF PowerType, Unmarked
<1>1. CASE AppTask \/ ResetRequest
  <2>1. CASE AppTask
    BY <2>1, <1>p DEF AppTask, FactoryReset, Unmarked
  <2>2. CASE ResetRequest
    BY <2>2, <1>p DEF ResetRequest, FactoryReset
  <2> QED
    BY <1>1, <2>1, <2>2
<1>2. CASE LeaveDone
  BY <1>2, <1>h, <1>p DEF LeaveDone
<1>3. CASE LeaveRejoins
  BY <1>3, <1>h DEF LeaveRejoins
<1>4. ASSUME NEW ok \in BOOLEAN, StartedIdle(ok)
      PROVE  hist'.quick = hist.quick /\ power' = power
  BY <1>4, <1>h DEF StartedIdle
<1>5. CASE NodeDesc
  BY <1>5, <1>h DEF NodeDesc
<1>6. CASE RunTask
  <2>1. CASE InitDone
    BY <2>1, <1>h DEF InitDone
  <2>2. CASE ~InitDone
    BY <2>2, <1>6, <1>k, RunTaskCases
    DEF Confirm, Start, Retrieve, PermitJoin, Drop, PermitConfirm, InfoSave
  <2> QED
    BY <2>1, <2>2
<1>7. CASE Library \/ StartCnf
  BY <1>7, <1>2, <1>3, <1>4, <1>k
  DEF Library, RemoteLeave, StartCnf, StartedInit, SteerJoined, SteerFailed
<1>8. CASE Application
  BY <1>8, <1>1, <1>k DEF Application, SwitchRejoins, SteerFires
<1>9. CASE Keys
  BY <1>9, <1>5, <1>k DEF Keys, KeyStart, KeyVerified, KeyTimeout
<1>10. ASSUME NEW e \in DOMAIN delays, DelayFires(e)
       PROVE  power' = power /\ hist' = hist
  BY <1>10 DEF DelayFires
<1>11. CASE UNCHANGED vars
  BY <1>11 DEF vars
<1> QED
  BY <1>6, <1>7, <1>8, <1>9, <1>10, <1>11 DEF Next

(* No step lets a counter run ahead of the starts. *)
LEMMA CountStep == TypeOK /\ CountInv /\ [Next]_vars => CountInv'
<1> SUFFICES ASSUME TypeOK, CountInv, [Next]_vars PROVE CountInv'
  OBVIOUS
<1>t. power.nv \in Nat /\ power.cnt \in Nat /\ hist.quick \in Nat
  <2>1. power.nv \in 0 .. 255 /\ power.cnt \in 0 .. 255 /\ hist.quick \in Nat
    BY TypeParts DEF PowerType, HistType
  <2> QED
    BY <2>1
<1>1. CASE Reboot
  <2> DEFINE cnt == (power.nv + 1) % 256
  <2>1. power'.nv = cnt /\ power'.cnt = cnt /\ hist'.quick = hist.quick + 1
    BY <1>1 DEF Reboot
  <2>2. cnt <= power.nv + 1
    BY <1>t
  <2> HIDE DEF cnt
  <2>3. cnt \in Int
    BY <1>t DEF cnt
  <2> QED
    BY <1>t, <2>1, <2>2, <2>3 DEF CountInv
<1>2. CASE CounterTimer
  <2>1. power'.nv = 0 /\ power'.cnt = 0
    BY <1>2 DEF CounterTimer
  <2>2. hist'.quick = 0
    BY <1>2, TypeParts DEF CounterTimer, HistType
  <2> QED
    BY <2>1, <2>2 DEF CountInv
<1>3. CASE ~Reboot /\ ~CounterTimer
  BY <1>3, <1>t, PowerStep DEF CountInv
<1> QED
  BY <1>1, <1>2, <1>3

(* The counters are never ahead of the starts. *)
LEMMA CountAlways == Spec => [](TypeOK /\ CountInv)
<1>1. Init => CountInv
  BY DEF Init, CountInv
<1> QED
  BY <1>1, TypeInit, TypeStep, CountStep, PTL DEF Spec

(* The mark of a factory reset is set only after Threshold starts in a row: *)
(* the counter in NV, which a start increments and its timer clears, is at  *)
(* most their number (factoryRst_init, factoryRst_timerCb).                 *)
THEOREM ResetNeedsStartsHolds == Spec => ResetNeedsStarts
<1> DEFINE A == power'.exist /\ ~power.exist => hist.quick >= Threshold
<1>1. TypeOK /\ CountInv /\ [Next]_vars => [A]_vars
  <2> SUFFICES ASSUME TypeOK, CountInv, [Next]_vars,
                      power'.exist, ~power.exist
               PROVE  hist.quick >= Threshold
    BY DEF A
  <2>1. CounterTimer
    <3>1. ~Reboot
      BY DEF Reboot
    <3> QED
      BY <3>1, PowerStep
  <2>2. power.cnt >= Threshold
    BY <2>1 DEF CounterTimer
  <2>3. power.cnt \in 0 .. 255 /\ hist.quick \in Nat
    BY TypeParts DEF PowerType, HistType
  <2> QED
    BY <2>2, <2>3, CommissioningAssumption DEF CountInv
<1>2. Spec => [][A]_vars
  BY CountAlways, <1>1, PTL DEF Spec
<1> QED
  BY <1>2 DEF ResetNeedsStarts

-----------------------------------------------------------------------------
(* On course *)

(* No step of the key exchange is under way, and no delay before one. *)
NoKeyWork ==
  /\ delays["retrieve"] = 0 /\ delays["permitJoin"] = 0
  /\ tc.starts = 0 /\ ~tc.timer

Unasked == ~tc.asked /\ ~tc.key

(* A device that knows a network and is off it: it is starting or           *)
(* rejoining, or the failure to rejoin is about to be reported, or the      *)
(* start of its router failed.                                             *)
Lost ==
  /\ ~net.joined /\ ~net.factoryNew /\ net.saved /\ bdb.onNet
  /\ net.leaving = "none" /\ ~steer /\ NoKeyWork /\ Unasked
  /\ bdb.com # "inProgress"
  /\ \/ /\ bdb.state = "init" /\ bdb.status = "success"
        /\ Posted(tasks) \subseteq {"initDone"}
        /\ \/ tasks = <<>> /\ ~Idle
           \/ tasks # <<>> /\ ~bdb.initOk
     \/ /\ bdb.state = "idle"
        /\ Posted(tasks) \subseteq {"initDone", "finish"}
        /\ hist.gaveUp \/ ~Idle \/ "finish" \in Posted(tasks)
        /\ "finish" \in Posted(tasks) => bdb.status = "rejoinFailure"

(* A factory new device: it starts, or waits for its steering timer, or     *)
(* looks for a network, or has failed to find one or to get its key.       *)
New ==
  /\ ~net.joined /\ net.factoryNew /\ ~net.saved /\ ~bdb.onNet
  /\ net.leaving = "none" /\ Unasked
  /\ delays["retrieve"] = 0 /\ delays["permitJoin"] = 0 /\ tc.starts = 0
  /\ \/ /\ bdb.state = "init" /\ bdb.initOk /\ bdb.com # "inProgress"
        /\ tasks = <<"initDone">> /\ Idle /\ ~tc.timer
     \/ /\ bdb.state = "idle" /\ Idle /\ ~tc.timer
        /\ \/ tasks = <<>> /\ steer /\ bdb.com # "inProgress"
           \/ tasks = <<"start">> /\ ~steer
     \/ /\ bdb.state = "steer"
        /\ \/ net.mgr = "discovery" /\ tasks = <<>> /\ ~tc.timer /\ ~steer
           \/ tc.timer /\ tasks = <<>> /\ Idle
           \/ /\ tasks = <<"finish">> /\ ~tc.timer /\ Idle
              /\ bdb.status \in {"noNetwork", "tclkFailure"}

(* A device on a network it has saved.                                      *)
Settled ==
  /\ net.joined /\ ~net.factoryNew /\ net.saved /\ bdb.onNet /\ Idle
  /\ ~steer /\ NoKeyWork /\ bdb.com # "inProgress" /\ bdb.status = "success"
  /\ \/ /\ bdb.state = "init" /\ bdb.initOk /\ Unasked
        /\ Posted(tasks) = {"initDone"}
     \/ /\ bdb.state = "idle"
        /\ Posted(tasks) \subseteq
             {"initDone", "finish", "infoSave", "permitJoin", "permitConfirm"}

(* A device that has joined a network: it waits to go on, exchanges its     *)
(* key, or opens the network, after which the network is saved.            *)
Joining ==
  /\ net.joined /\ ~net.factoryNew /\ Idle
  /\ bdb.state = "steer" /\ bdb.status = "success" /\ ~steer
  /\ \/ /\ bdb.onNet /\ Unasked /\ ~tc.timer
        /\ \/ /\ delays["retrieve"] + delays["permitJoin"] = 1
              /\ tasks = <<>> /\ tc.starts = 0
           \/ /\ delays["retrieve"] = 0 /\ delays["permitJoin"] = 0
              /\ \/ tasks = <<"retrieve">> /\ tc.starts = 0
                 \/ tasks = <<>> /\ tc.starts = 1
     \/ /\ delays["retrieve"] = 0 /\ delays["permitJoin"] = 0 /\ tc.starts = 0
        /\ \/ tc.timer /\ tasks = <<>>
           \/ /\ ~tc.timer /\ bdb.onNet /\ tasks # <<>>
              /\ Posted(tasks) \subseteq {"permitJoin", "permitConfirm", "finish"}
              /\ "finish" \in Posted(tasks) => net.saved

OnCourse == hist.overtaken \/ Lost \/ New \/ Settled \/ Joining

(* While a commissioning is under way something is left that ends it.       *)
BusyInv ==
  /\ bdb.state = "steer" =>
       \/ ~Idle
       \/ delays["retrieve"] > 0 \/ delays["permitJoin"] > 0
       \/ tc.starts > 0 \/ tc.timer
       \/ "permitConfirm" \in Posted(tasks) \/ "permitJoin" \in Posted(tasks)
       \/ "retrieve" \in Posted(tasks) \/ "finish" \in Posted(tasks)
  /\ bdb.com = "inProgress" =>
       bdb.state = "steer" \/ (bdb.state = "idle" /\ "start" \in Posted(tasks))

(* A new device is on course. *)
LEMMA CourseInit == Init => OnCourse /\ BusyInv
  BY DEF Init, OnCourse, New, BusyInv, Unasked, Idle, NoKeys

(* What the two invariants tell of the queue, after a task was posted. *)
LEMMA PostFacts ==
  ASSUME TypeOK, NEW e \in Tasks, Post(e)
  PROVE  /\ tasks' # <<>> /\ Posted(tasks') = Posted(tasks) \cup {e}
         /\ tasks = <<>> => tasks' = <<e>>
<1>1. tasks \in Seq(Tasks) /\ tasks' = Append(tasks, e)
  BY TypeParts DEF RestType, Post
<1>2. Append(<<>>, e) = <<e>>
  OBVIOUS
<1> QED
  BY <1>1, <1>2, QueueFacts

(* What is left when the first task is taken. *)
LEMMA TakeFacts ==
  ASSUME TypeOK, tasks # <<>>, NEW e, e = Head(tasks), NEW t, t = Tail(tasks)
  PROVE  /\ e \in Tasks /\ t \in Seq(Tasks)
         /\ Posted(tasks) = {e} \cup Posted(t)
         /\ \A f : tasks = <<f>> => e = f /\ t = <<>>
         /\ \A f \in Tasks :
              /\ Append(t, f) # <<>> /\ Posted(Append(t, f)) = Posted(t) \cup {f}
<1>1. tasks \in Seq(Tasks)
  BY TypeParts DEF RestType
<1>2. \A f : tasks = <<f>> => e = f /\ t = <<>>
  OBVIOUS
<1> QED
  BY <1>1, <1>2, QueueFacts

(* A restart makes a device that was saved start its router, another one new. *)
LEMMA RebootCourse == TypeOK /\ Reboot => OnCourse' /\ BusyInv'
<1> SUFFICES ASSUME TypeOK, Reboot PROVE OnCourse' /\ BusyInv'
  OBVIOUS
<1>1. /\ net'.factoryNew = ~net.saved /\ net'.joined = FALSE
      /\ net'.saved = net.saved /\ net'.leaving = "none"
      /\ net'.mgr = IF net.saved THEN "router" ELSE "idle"
  BY DEF Reboot, Started
<1>2. /\ bdb'.state = "init" /\ bdb'.status = "success"
      /\ bdb'.initOk = TRUE /\ bdb'.com = "success" /\ bdb'.onNet = net.saved
  BY DEF Reboot, Started
<1>3. /\ tc'.starts = 0 /\ tc'.timer = FALSE /\ tc'.asked = FALSE
      /\ tc'.key = FALSE /\ steer' = FALSE
      /\ delays'["retrieve"] = 0 /\ delays'["permitJoin"] = 0
      /\ tasks' = IF net.saved THEN <<>> ELSE <<"initDone">>
  BY DEF Reboot, Started, NoKeys
<1>4. net.saved \in BOOLEAN
  BY TypeParts DEF NetType
<1>5. CASE net.saved
  <2>1. Lost'
    BY <1>1, <1>2, <1>3, <1>5, QueueFacts
    DEF Lost, Unasked, NoKeyWork, Idle
  <2> QED
    BY <2>1, <1>2 DEF OnCourse, BusyInv
<1>6. CASE ~net.saved
  <2>1. New'
    BY <1>1, <1>2, <1>3, <1>4, <1>6 DEF New, Unasked, Idle
  <2> QED
    BY <2>1, <1>2 DEF OnCourse, BusyInv
<1> QED
  BY <1>5, <1>6

(* A step that only asks for a leave, or erases what is not saved, leaves   *)
(* the device on course.                                                   *)
LEMMA AskedCourse ==
  ASSUME TypeOK, OnCourse, BusyInv,
         net'.factoryNew = net.factoryNew, net'.joined = net.joined,
         net'.mgr = net.mgr, ~net.joined => net'.leaving = net.leaving,
         net'.saved = net.saved \/ (net.factoryNew /\ net'.saved = FALSE),
         UNCHANGED <<bdb, tasks, delays, steer>>,
         tc'.starts = tc.starts, tc'.timer = tc.timer,
         tc'.asked = tc.asked \/ (tc.timer /\ tc'.asked = net.joined),
         tc'.key = tc.key,
         hist'.overtaken = hist.overtaken, hist'.gaveUp = hist.gaveUp
  PROVE  OnCourse' /\ BusyInv'
<1>1. BusyInv'
  BY DEF BusyInv, Idle
<1>2. CASE hist.overtaken
  BY <1>1, <1>2 DEF OnCourse
<1>3. CASE Lost
  <2>1. Lost'
    BY <1>3 DEF Lost, Unasked, NoKeyWork, Idle
  <2> QED
    BY <1>1, <2>1 DEF OnCourse
<1>4. CASE New
  <2>1. New'
    BY <1>4 DEF New, Unasked, Idle
  <2> QED
    BY <1>1, <2>1 DEF OnCourse
<1>5. CASE Settled
  <2>1. Settled'
    BY <1>5 DEF Settled, Unasked, NoKeyWork, Idle
  <2> QED
    BY <1>1, <2>1 DEF OnCourse
<1>6. CASE Joining
  <2>1. Joining'
    BY <1>6 DEF Joining, Unasked, Idle
  <2> QED
    BY <1>1, <2>1 DEF OnCourse
<1> QED
  BY <1>2, <1>3, <1>4, <1>5, <1>6 DEF OnCourse

(* Asking for a leave keeps what a device knows of its network. *)
LEMMA LeavingFacts ==
  ASSUME TypeOK, NEW r \in BOOLEAN, net' = Leaving(r)
  PROVE  /\ net'.factoryNew = net.factoryNew /\ net'.joined = net.joined
         /\ net'.mgr = net.mgr /\ net'.saved = net.saved
         /\ ~net.joined => net'.leaving = net.leaving
  BY TypeParts DEF NetType, Leaving

(* A reset asked for changes nothing else than a leave does, or erases. *)
LEMMA FactoryResetFacts ==
  ASSUME TypeOK, NEW p, FactoryReset(p)
  PROVE  /\ net'.factoryNew = net.factoryNew /\ net'.joined = net.joined
         /\ net'.mgr = net.mgr
         /\ net'.saved = net.saved \/ (net.factoryNew /\ net'.saved = FALSE)
         /\ ~net.joined => net'.leaving = net.leaving
<1>1. CASE net.factoryNew
  BY <1>1, TypeParts DEF FactoryReset, NetType
<1>2. CASE ~net.factoryNew
  BY <1>2, LeavingFacts DEF FactoryReset
<1> QED
  BY <1>1, <1>2

(* Leaves and resets that are asked for, and the timer of the counter. *)
LEMMA RequestCourse ==
  ASSUME TypeOK, OnCourse, BusyInv,
         \/ \E rejoin \in BOOLEAN : RemoteLeave(rejoin)
         \/ AppTask \/ ResetRequest \/ CounterTimer
  PROVE  OnCourse' /\ BusyInv'
<1>1. ASSUME NEW rejoin \in BOOLEAN, RemoteLeave(rejoin)
      PROVE  OnCourse' /\ BusyInv'
  BY <1>1, LeavingFacts, AskedCourse DEF RemoteLeave
<1>2. CASE AppTask \/ ResetRequest
  BY <1>2, FactoryResetFacts, AskedCourse DEF AppTask, ResetRequest
<1>3. CASE CounterTimer
  <2>1. hist'.overtaken = hist.overtaken /\ hist'.gaveUp = hist.gaveUp
    BY <1>3, TypeParts DEF CounterTimer, HistType
  <2> QED
    BY <1>3, <2>1, AskedCourse DEF CounterTimer
<1> QED
  BY <1>1, <1>2, <1>3

(* A device that was told to leave is new and will steer, unless the leave  *)
(* ended a steering that was not waiting for its key.                      *)
LEMMA LeaveDoneCourse ==
  ASSUME TypeOK, OnCourse, BusyInv, LeaveDone
  PROVE  OnCourse' /\ BusyInv'
<1>t. NetType /\ BdbType /\ TcType /\ HistType
  BY TypeParts
<1>1. /\ net'.factoryNew = TRUE /\ net'.joined = FALSE /\ net'.saved = FALSE
      /\ net'.leaving = "none" /\ net'.mgr = net.mgr
  BY <1>t DEF LeaveDone, NetType
<1>2. /\ bdb'.com = "success" /\ bdb'.onNet = FALSE
      /\ bdb'.state = bdb.state /\ bdb'.status = bdb.status
  BY <1>t DEF LeaveDone, BdbType
<1>3. /\ tc'.asked = FALSE /\ tc'.key = FALSE
      /\ tc'.timer = tc.timer /\ tc'.starts = tc.starts
  BY <1>t DEF LeaveDone, Forgotten, TcType
<1>4. hist'.overtaken = Overtaken
  BY <1>t DEF LeaveDone, HistType
<1>5. /\ net.leaving = "asked" /\ tasks = <<>> /\ tasks' = tasks
      /\ delays' = delays /\ steer' = TRUE
  BY DEF LeaveDone
<1>6. BusyInv'
  BY <1>1, <1>2, <1>3, <1>5 DEF BusyInv, Idle
<1>7. CASE Overtaken
  BY <1>4, <1>6, <1>7 DEF OnCourse
<1>8. CASE ~Overtaken
  <2>1. ~hist.overtaken /\ (bdb.state = "steer" => tc.timer)
    BY <1>8 DEF Overtaken
  <2>2. Settled \/ Joining
    BY <1>5, <2>1 DEF OnCourse, Lost, New
  <2>3. CASE Settled
    <3>1. bdb.state = "idle"
      BY <1>5, <2>3, QueueFacts DEF Settled
    <3>2. New'
      BY <1>1, <1>2, <1>3, <1>5, <2>3, <3>1
      DEF Settled, New, NoKeyWork, Unasked, Idle
    <3> QED
      BY <1>6, <3>2 DEF OnCourse
  <2>4. CASE Joining
    <3>1. New'
      BY <1>1, <1>2, <1>3, <1>5, <2>1, <2>4
      DEF Joining, New, Unasked, Idle
    <3> QED
      BY <1>6, <3>1 DEF OnCourse
  <2> QED
    BY <2>2, <2>3, <2>4
<1> QED
  BY <1>7, <1>8

(* A device that was told to leave and rejoin knows its network. *)
LEMMA LeaveRejoinsCourse ==
  ASSUME TypeOK, OnCourse, BusyInv, LeaveRejoins
  PROVE  OnCourse' /\ BusyInv'
<1>t. NetType /\ TcType /\ HistType
  BY TypeParts
<1>1. /\ net'.factoryNew = net.factoryNew /\ net'.joined = FALSE
      /\ net'.saved = net.saved /\ net'.leaving = "none"
      /\ net'.mgr = "rejoin"
  BY <1>t DEF LeaveRejoins, NetType
<1>2. /\ tc'.asked = FALSE /\ tc'.key = FALSE
      /\ tc'.timer = tc.timer /\ tc'.starts = tc.starts
  BY <1>t DEF LeaveRejoins, Forgotten, TcType
<1>3. hist'.overtaken = Overtaken
  BY <1>t DEF LeaveRejoins, HistType
<1>4. /\ net.leaving = "rejoin" /\ tasks = <<>> /\ tasks' = tasks
      /\ bdb' = bdb /\ delays' = delays /\ steer' = steer
  BY DEF LeaveRejoins
<1>5. BusyInv'
  BY <1>1, <1>2, <1>4 DEF BusyInv, Idle
<1>6. CASE Overtaken
  BY <1>3, <1>5, <1>6 DEF OnCourse
<1>7. CASE ~Overtaken
  <2>1. ~hist.overtaken /\ bdb.state # "steer"
    BY <1>4, <1>7 DEF Overtaken
  <2>2. Settled
    BY <1>4, <2>1 DEF OnCourse, Lost, New, Joining
  <2>3. bdb.state = "idle" /\ Posted(tasks) = {}
    BY <1>4, <2>2, QueueFacts DEF Settled
  <2>4. Lost'
    BY <1>1, <1>2, <1>4, <2>2, <2>3
    DEF Settled, Lost, NoKeyWork, Unasked, Idle
  <2> QED
    BY <1>5, <2>4 DEF OnCourse
<1> QED
  BY <1>6, <1>7

(* A contact that moves makes a lost device rejoin. *)
LEMMA SwitchRejoinsCourse ==
  ASSUME TypeOK, OnCourse, BusyInv, SwitchRejoins
  PROVE  OnCourse' /\ BusyInv'
<1>1. /\ net'.factoryNew = net.factoryNew /\ net'.joined = net.joined
      /\ net'.saved = net.saved /\ net'.leaving = net.leaving
      /\ net'.mgr # "idle"
  BY TypeParts DEF SwitchRejoins, Rejoin, Idle, NetType
<1>2. /\ ~net.joined /\ ~net.factoryNew
      /\ UNCHANGED <<bdb, tc, tasks, delays, steer, hist>>
  BY DEF SwitchRejoins
<1>3. BusyInv'
  BY <1>1, <1>2 DEF BusyInv, Idle
<1>4. CASE hist.overtaken
  BY <1>2, <1>3, <1>4 DEF OnCourse
<1>5. CASE ~hist.overtaken
  <2>1. Lost
    BY <1>2, <1>5 DEF OnCourse, New, Settled, Joining
  <2>2. Lost'
    BY <1>1, <1>2, <2>1 DEF Lost, NoKeyWork, Unasked, Idle
  <2> QED
    BY <1>3, <2>2 DEF OnCourse
<1> QED
  BY <1>4, <1>5

(* The steering timer starts a commissioning, unless one is under way.      *)
LEMMA SteerFiresCourse ==
  ASSUME TypeOK, OnCourse, BusyInv, SteerFires
  PROVE  OnCourse' /\ BusyInv'
<1>1. steer /\ steer' = FALSE /\ UNCHANGED <<net, tc, delays, hist>>
  BY DEF SteerFires
<1>2. CASE bdb.state = "idle" /\ Idle /\ bdb.com # "inProgress"
  <2>1. Post("start") /\ bdb' = [bdb EXCEPT !.com = "inProgress"]
    BY <1>2 DEF SteerFires
  <2>2. "start" \in Tasks
    BY DEF Tasks
  <2>3. /\ Posted(tasks') = Posted(tasks) \cup {"start"}
        /\ tasks = <<>> => tasks' = <<"start">>
    BY <2>1, <2>2, PostFacts
  <2>4. /\ bdb'.state = bdb.state /\ bdb'.onNet = bdb.onNet
        /\ bdb'.com = "inProgress"
    BY <2>1, TypeParts DEF BdbType
  <2>5. BusyInv'
    BY <1>2, <2>3, <2>4 DEF BusyInv
  <2>6. CASE ~hist.overtaken
    <3>1. New /\ tasks = <<>>
      BY <1>1, <1>2, <2>6 DEF OnCourse, Lost, Settled, Joining, New
    <3>2. New'
      BY <1>1, <1>2, <2>3, <2>4, <3>1 DEF New, Unasked, Idle
    <3> QED
      BY <2>5, <3>2 DEF OnCourse
  <2> QED
    BY <1>1, <2>5, <2>6 DEF OnCourse
<1>3. CASE ~(bdb.state = "idle" /\ Idle /\ bdb.com # "inProgress")
  <2>1. tasks' = tasks /\ bdb' = bdb
    BY <1>3 DEF SteerFires
  <2>2. BusyInv'
    BY <1>1, <2>1 DEF BusyInv, Idle
  <2>3. CASE ~hist.overtaken
    <3>1. New
      BY <1>1, <2>3 DEF OnCourse, Lost, Settled, Joining
    <3>2. New'
      BY <1>1, <1>3, <2>1, <3>1 DEF New, Unasked, Idle
    <3> QED
      BY <2>2, <3>2 DEF OnCourse
  <2> QED
    BY <1>1, <2>2, <2>3 DEF OnCourse
<1> QED
  BY <1>2, <1>3

(* The delay after joining ends in the task it was for. *)
LEMMA DelayCourse ==
  ASSUME TypeOK, OnCourse, BusyInv, NEW e \in DOMAIN delays, DelayFires(e)
  PROVE  OnCourse' /\ BusyInv'
<1>t. /\ e \in {"retrieve", "permitJoin"}
      /\ delays \in [{"retrieve", "permitJoin"} -> 0 .. MaxPending]
  BY TypeParts DEF RestType
<1>1. /\ delays[e] > 0 /\ delays' = [delays EXCEPT ![e] = @ - 1] /\ Post(e)
      /\ UNCHANGED <<net, bdb, tc, steer, hist>>
  BY DEF DelayFires
<1>2. /\ Posted(tasks') = Posted(tasks) \cup {e} /\ tasks' # <<>>
      /\ tasks = <<>> => tasks' = <<e>>
  <2>1. e \in Tasks
    BY <1>t DEF Tasks
  <2> QED
    BY <1>1, <2>1, PostFacts
<1>3. BusyInv'
  <2>1. bdb'.state = "steer" =>
          "permitJoin" \in Posted(tasks') \/ "retrieve" \in Posted(tasks')
    BY <1>t, <1>2
  <2> QED
    BY <1>1, <1>2, <2>1 DEF BusyInv
<1>4. CASE ~hist.overtaken
  <2> DEFINE a == delays["retrieve"]
             b == delays["permitJoin"]
  <2>1. /\ a \in Nat /\ b \in Nat
        /\ \/ e = "retrieve" /\ a > 0
              /\ delays'["retrieve"] = a - 1 /\ delays'["permitJoin"] = b
           \/ e = "permitJoin" /\ b > 0
              /\ delays'["retrieve"] = a /\ delays'["permitJoin"] = b - 1
    BY <1>t, <1>1
  <2> HIDE DEF a, b
  <2>2. /\ Joining /\ bdb.onNet /\ Unasked /\ ~tc.timer
        /\ a + b = 1 /\ tasks = <<>> /\ tc.starts = 0
    BY <1>4, <2>1
    DEF OnCourse, Lost, New, Settled, Joining, NoKeyWork, a, b
  <2>3. delays'["retrieve"] = 0 /\ delays'["permitJoin"] = 0
    BY <2>1, <2>2
  <2>4. CASE e = "retrieve"
    <3>1. Joining'
      BY <1>1, <1>2, <2>2, <2>3, <2>4 DEF Joining, Unasked, Idle
    <3> QED
      BY <1>3, <3>1 DEF OnCourse
  <2>5. CASE e = "permitJoin"
    <3>1. Posted(tasks') = {"permitJoin"}
      BY <1>2, <2>2, <2>5, QueueFacts
    <3>2. Joining'
      BY <1>1, <1>2, <2>2, <2>3, <3>1 DEF Joining, Unasked, Idle
    <3> QED
      BY <1>3, <3>2 DEF OnCourse
  <2> QED
    BY <1>t, <2>4, <2>5
<1> QED
  BY <1>1, <1>3, <1>4 DEF OnCourse

(* What the manager answers while it is busy. *)
LEMMA AnsweredFacts ==
  ASSUME TypeOK, NEW ok \in BOOLEAN, Answered(ok)
  PROVE  /\ ~Idle /\ net'.mgr = "idle"
         /\ net'.saved = net.saved /\ net'.leaving = net.leaving
         /\ ok => net'.joined = TRUE /\ net'.factoryNew = FALSE
         /\ ~ok => net'.joined = net.joined /\ net'.factoryNew = net.factoryNew
  BY TypeParts DEF NetType, Answered

(* The router of a restarted device has started, or failed to. *)
LEMMA StartedInitCourse ==
  ASSUME TypeOK, OnCourse, BusyInv, NEW ok \in BOOLEAN, StartedInit(ok)
  PROVE  OnCourse' /\ BusyInv'
<1>1. /\ bdb.state = "init" /\ Answered(ok) /\ Post("initDone")
      /\ UNCHANGED <<tc, delays, steer, hist>>
  BY DEF StartedInit
<1>2. /\ ~Idle /\ net'.mgr = "idle"
      /\ net'.saved = net.saved /\ net'.leaving = net.leaving
      /\ ok => net'.joined = TRUE /\ net'.factoryNew = FALSE
      /\ ~ok => net'.joined = net.joined /\ net'.factoryNew = net.factoryNew
  BY <1>1, AnsweredFacts
<1>3. /\ bdb'.state = bdb.state /\ bdb'.status = bdb.status
      /\ bdb'.com = bdb.com /\ bdb'.onNet = bdb.onNet /\ bdb'.initOk = ok
  BY TypeParts DEF StartedInit, BdbType
<1>4. tasks' # <<>> /\ Posted(tasks') = Posted(tasks) \cup {"initDone"}
  BY <1>1, PostFacts DEF Tasks
<1>5. BusyInv'
  BY <1>1, <1>3 DEF BusyInv
<1>6. CASE ~hist.overtaken
  <2>1. Lost
    BY <1>1, <1>2, <1>6 DEF OnCourse, New, Settled, Joining
  <2>2. Posted(tasks') = {"initDone"}
    BY <1>1, <1>4, <2>1 DEF Lost
  <2>3. CASE ok
    <3>1. Settled'
      BY <1>1, <1>2, <1>3, <2>1, <2>2, <2>3
      DEF Lost, Settled, NoKeyWork, Unasked, Idle
    <3> QED
      BY <1>5, <3>1 DEF OnCourse
  <2>4. CASE ~ok
    <3>1. Lost'
      BY <1>1, <1>2, <1>3, <1>4, <2>1, <2>2, <2>4
      DEF Lost, NoKeyWork, Unasked, Idle
    <3> QED
      BY <1>5, <3>1 DEF OnCourse
  <2> QED
    BY <2>3, <2>4
<1> QED
  BY <1>1, <1>5, <1>6 DEF OnCourse

(* A rejoin has ended. *)
LEMMA StartedIdleCourse ==
  ASSUME TypeOK, OnCourse, BusyInv, NEW ok \in BOOLEAN, StartedIdle(ok)
  PROVE  OnCourse' /\ BusyInv'
<1>1. /\ bdb.state = "idle" /\ Answered(ok)
      /\ UNCHANGED <<tc, delays, steer>>
  BY DEF StartedIdle
<1>2. /\ ~Idle /\ net'.mgr = "idle"
      /\ net'.saved = net.saved /\ net'.leaving = net.leaving
      /\ ok => net'.joined = TRUE /\ net'.factoryNew = FALSE
      /\ ~ok => net'.joined = net.joined /\ net'.factoryNew = net.factoryNew
  BY <1>1, AnsweredFacts
<1>3. /\ bdb'.state = bdb.state /\ bdb'.com = bdb.com
      /\ bdb'.status = (IF ok THEN "success" ELSE "rejoinFailure")
      /\ bdb'.onNet = (ok \/ bdb.onNet)
  BY TypeParts DEF StartedIdle, BdbType
<1>4. /\ hist'.overtaken = hist.overtaken
      /\ ~ok => hist'.gaveUp = hist.gaveUp
  BY TypeParts DEF StartedIdle, HistType
<1>5. /\ Posted(tasks) \subseteq Posted(tasks') /\ "finish" \in Posted(tasks')
      /\ Posted(tasks') \subseteq Posted(tasks) \cup {"infoSave", "finish"}
      /\ ~ok => Posted(tasks') = Posted(tasks) \cup {"finish"}
  <2>1. "finish" \in Tasks /\ "infoSave" \in Tasks
    BY DEF Tasks
  <2>2. CASE Post("finish")
    BY <2>1, <2>2, PostFacts
  <2>3. CASE ok /\ tasks' = tasks \o <<"infoSave", "finish">>
    <3>1. tasks \in Seq(Tasks)
      BY TypeParts DEF RestType
    <3> DEFINE q == Append(tasks, "infoSave")
    <3>2. tasks' = Append(q, "finish")
      BY <2>1, <2>3, <3>1
    <3>3. q \in Seq(Tasks) /\ Posted(q) = Posted(tasks) \cup {"infoSave"}
      BY <2>1, <3>1, QueueFacts
    <3> HIDE DEF q
    <3>4. Posted(tasks') = Posted(q) \cup {"finish"}
      BY <2>1, <3>2, <3>3, QueueFacts
    <3> QED
      BY <2>3, <3>3, <3>4
  <2> QED
    BY <2>2, <2>3 DEF StartedIdle
<1>6. BusyInv'
  BY <1>1, <1>3, <1>5 DEF BusyInv
<1>7. CASE ~hist.overtaken
  <2>1. Lost
    BY <1>1, <1>2, <1>7 DEF OnCourse, New, Settled, Joining
  <2>2. Posted(tasks) \subseteq {"initDone", "finish"}
    BY <1>1, <2>1 DEF Lost
  <2>3. CASE ok
    <3>1. Posted(tasks') \subseteq
            {"initDone", "finish", "infoSave", "permitJoin", "permitConfirm"}
      BY <1>5, <2>2
    <3>2. Settled'
      BY <1>1, <1>2, <1>3, <2>1, <2>3, <3>1
      DEF Lost, Settled, NoKeyWork, Idle
    <3> QED
      BY <1>6, <3>2 DEF OnCourse
  <2>4. CASE ~ok
    <3>1. Posted(tasks') \subseteq {"initDone", "finish"}
      BY <1>5, <2>2, <2>4
    <3>2. Lost'
      BY <1>1, <1>2, <1>3, <1>5, <2>1, <2>4, <3>1
      DEF Lost, NoKeyWork, Unasked
    <3> QED
      BY <1>6, <3>2 DEF OnCourse
  <2> QED
    BY <2>3, <2>4
<1> QED
  BY <1>4, <1>6, <1>7 DEF OnCourse

(* The search of a steering has found a network, or none. *)
LEMMA SteerAnsweredCourse ==
  ASSUME TypeOK, OnCourse, BusyInv, SteerJoined \/ SteerFailed
  PROVE  OnCourse' /\ BusyInv'
<1>1. bdb.state = "steer" /\ UNCHANGED <<tc, steer, hist>>
  BY DEF SteerJoined, SteerFailed
<1>2. CASE SteerJoined
  <2>1. /\ net'.mgr = "idle" /\ net'.joined = TRUE /\ net'.factoryNew = FALSE
        /\ ~Idle
    BY <1>2, AnsweredFacts DEF SteerJoined
  <2>2. /\ bdb'.state = "steer" /\ bdb'.status = "success"
        /\ bdb'.com = bdb.com /\ bdb'.onNet = TRUE
    BY <1>1, <1>2, TypeParts DEF SteerJoined, BdbType
  <2> DEFINE a == delays["retrieve"]
             b == delays["permitJoin"]
  <2>3. /\ a \in Nat /\ b \in Nat
        /\ \/ delays'["retrieve"] = a + 1 /\ delays'["permitJoin"] = b
           \/ delays'["retrieve"] = a /\ delays'["permitJoin"] = b + 1
    <3>1. delays \in [{"retrieve", "permitJoin"} -> 0 .. MaxPending]
      BY TypeParts DEF RestType
    <3> QED
      BY <1>2, <3>1 DEF SteerJoined
  <2>4. tasks' = tasks
    BY <1>2 DEF SteerJoined
  <2> HIDE DEF a, b
  <2>5. BusyInv'
    <3>1. delays'["retrieve"] > 0 \/ delays'["permitJoin"] > 0
      BY <2>3
    <3> QED
      BY <2>2, <3>1 DEF BusyInv
  <2>6. CASE ~hist.overtaken
    <3>1. /\ New /\ tasks = <<>> /\ ~tc.timer /\ ~steer /\ Unasked
          /\ a = 0 /\ b = 0 /\ tc.starts = 0
      BY <1>1, <2>1, <2>6 DEF OnCourse, Lost, New, Settled, Joining, a, b
    <3>2. delays'["retrieve"] + delays'["permitJoin"] = 1
      BY <2>3, <3>1
    <3>3. Joining'
      BY <1>1, <2>1, <2>2, <2>4, <3>1, <3>2 DEF Joining, Unasked, Idle
    <3> QED
      BY <2>5, <3>3 DEF OnCourse
  <2> QED
    BY <1>1, <2>5, <2>6 DEF OnCourse
<1>3. CASE SteerFailed
  <2>1. /\ ~Idle /\ net'.mgr = "idle"
        /\ net'.saved = net.saved /\ net'.leaving = net.leaving
        /\ net'.joined = net.joined /\ net'.factoryNew = net.factoryNew
    BY <1>3, AnsweredFacts DEF SteerFailed
  <2>2. /\ bdb'.state = "steer" /\ bdb'.status = "noNetwork"
        /\ bdb'.com = bdb.com /\ bdb'.onNet = bdb.onNet
    BY <1>1, <1>3, TypeParts DEF SteerFailed, BdbType
  <2>3. /\ Posted(tasks') = Posted(tasks) \cup {"finish"}
        /\ tasks = <<>> => tasks' = <<"finish">>
    BY <1>3, PostFacts DEF SteerFailed, Tasks
  <2>4. delays' = delays
    BY <1>3 DEF SteerFailed
  <2>5. BusyInv'
    BY <2>2, <2>3 DEF BusyInv
  <2>6. CASE ~hist.overtaken
    <3>1. New /\ tasks = <<>> /\ ~tc.timer
      BY <1>1, <2>1, <2>6 DEF OnCourse, Lost, New, Settled, Joining
    <3>2. New'
      BY <1>1, <2>1, <2>2, <2>3, <2>4, <3>1 DEF New, Unasked, Idle
    <3> QED
      BY <2>5, <3>2 DEF OnCourse
  <2> QED
    BY <1>1, <2>5, <2>6 DEF OnCourse
<1> QED
  BY <1>2, <1>3

(* The key exchange begins and its timer runs from then on. *)
LEMMA KeyStartCourse ==
  ASSUME TypeOK, OnCourse, BusyInv, KeyStart
  PROVE  OnCourse' /\ BusyInv'
<1>1. tc.starts > 0 /\ UNCHANGED <<net, bdb, tasks, delays, steer, hist>>
  BY DEF KeyStart
<1>2. tc'.starts = tc.starts - 1 /\ tc'.timer = TRUE
  BY TypeParts DEF KeyStart, TcType
<1>3. BusyInv'
  BY <1>1, <1>2 DEF BusyInv
<1>4. CASE ~hist.overtaken
  <2>1. /\ Joining /\ tc.starts = 1 /\ tasks = <<>>
        /\ delays["retrieve"] = 0 /\ delays["permitJoin"] = 0
    BY <1>1, <1>4 DEF OnCourse, Lost, New, Settled, Joining, NoKeyWork
  <2>2. tc'.starts = 0
    BY <1>2, <2>1
  <2>3. Joining'
    BY <1>1, <1>2, <2>1, <2>2 DEF Joining, Idle
  <2> QED
    BY <1>3, <2>3 DEF OnCourse
<1> QED
  BY <1>1, <1>3, <1>4 DEF OnCourse

(* The key exchange has succeeded: the network is opened next. *)
LEMMA KeyDoneCourse ==
  ASSUME TypeOK, OnCourse, BusyInv, net.joined, tc.asked \/ tc.key,
         KeyDone(TRUE), tc'.timer = FALSE, tc'.starts = tc.starts,
         UNCHANGED <<net, delays, steer, hist>>
  PROVE  OnCourse' /\ BusyInv'
<1>1. /\ bdb'.state = bdb.state /\ bdb'.com = bdb.com
      /\ bdb'.status = "success" /\ bdb'.onNet = TRUE
  BY TypeParts DEF KeyDone, BdbType
<1>2. tasks' # <<>> /\ Posted(tasks') = Posted(tasks) \cup {"permitJoin"}
  BY PostFacts DEF KeyDone, Tasks
<1>3. BusyInv'
  BY <1>1, <1>2 DEF BusyInv
<1>4. CASE ~hist.overtaken
  <2>1. CASE Settled
    <3>1. Settled'
      BY <1>1, <1>2, <2>1 DEF Settled, NoKeyWork, Unasked, Idle
    <3> QED
      BY <1>3, <3>1 DEF OnCourse
  <2>2. CASE Joining
    <3>1. /\ delays["retrieve"] = 0 /\ delays["permitJoin"] = 0
          /\ tc.starts = 0
          /\ Posted(tasks') \subseteq {"permitJoin", "permitConfirm", "finish"}
          /\ "finish" \in Posted(tasks') => net.saved
      BY <1>2, <2>2, QueueFacts DEF Joining, Unasked
    <3>2. Joining'
      BY <1>1, <1>2, <2>2, <3>1 DEF Joining, Idle
    <3> QED
      BY <1>3, <3>2 DEF OnCourse
  <2> QED
    BY <1>4, <2>1, <2>2 DEF OnCourse, Lost, New
<1> QED
  BY <1>3, <1>4 DEF OnCourse

(* The trust center answers. *)
LEMMA KeyAnswerCourse ==
  ASSUME TypeOK, OnCourse, BusyInv, NodeDesc \/ KeyVerified
  PROVE  OnCourse' /\ BusyInv'
<1>1. CASE KeyVerified
  <2>1. tc'.timer = FALSE /\ tc'.starts = tc.starts
    BY <1>1, TypeParts DEF KeyVerified, TcType
  <2> QED
    BY <1>1, <2>1, KeyDoneCourse DEF KeyVerified
<1>2. CASE NodeDesc /\ KeyDone(TRUE)
             /\ tc' = [tc EXCEPT !.timer = FALSE, !.asked = FALSE]
             /\ UNCHANGED hist
  <2>1. tc'.timer = FALSE /\ tc'.starts = tc.starts
    BY <1>2, TypeParts DEF TcType
  <2> QED
    BY <1>2, <2>1, KeyDoneCourse DEF NodeDesc
<1>3. CASE /\ NodeDesc
           /\ bdb' = [bdb EXCEPT !.onNet = FALSE]
           /\ tc' = [tc EXCEPT !.key = TRUE, !.asked = FALSE]
           /\ hist' = [hist EXCEPT !.overtaken = @ \/ ~tc.timer]
           /\ UNCHANGED tasks
  <2>1. /\ bdb'.state = bdb.state /\ bdb'.com = bdb.com
        /\ bdb'.status = bdb.status
    BY <1>3, TypeParts DEF BdbType
  <2>2. tc'.timer = tc.timer /\ tc'.starts = tc.starts
    BY <1>3, TypeParts DEF TcType
  <2>3. hist'.overtaken = (hist.overtaken \/ ~tc.timer)
    BY <1>3, TypeParts DEF HistType
  <2>4. /\ net.joined /\ tc.asked /\ UNCHANGED <<net, delays, steer, tasks>>
    BY <1>3 DEF NodeDesc
  <2>5. BusyInv'
    BY <2>1, <2>2, <2>4 DEF BusyInv, Idle
  <2>6. CASE ~hist.overtaken /\ tc.timer
    <3>1. Joining
      BY <2>4, <2>6 DEF OnCourse, Lost, New, Settled, NoKeyWork
    <3>2. Joining'
      BY <2>1, <2>2, <2>4, <2>6, <3>1 DEF Joining, Idle
    <3> QED
      BY <2>5, <3>2 DEF OnCourse
  <2> QED
    BY <2>3, <2>5, <2>6 DEF OnCourse
<1> QED
  BY <1>1, <1>2, <1>3 DEF NodeDesc

(* The key exchange is tried again, or the network left, or given up. *)
LEMMA KeyTimeoutCourse ==
  ASSUME TypeOK, OnCourse, BusyInv, KeyTimeout
  PROVE  OnCourse' /\ BusyInv'
<1>1. tc.timer /\ UNCHANGED <<delays, steer, hist>>
  BY DEF KeyTimeout
<1>2. CASE AskAgain
  <2>1. /\ tc'.starts = tc.starts /\ tc'.timer = tc.timer
        /\ tc'.asked = net.joined /\ tc'.key = tc.key
    BY <1>2, TypeParts DEF AskAgain, TcType
  <2>2. UNCHANGED <<net, bdb, tasks>>
    BY <1>2 DEF AskAgain
  <2> QED
    BY <1>1, <2>1, <2>2, AskedCourse
<1>3. CASE /\ ~net.joined /\ KeyDone(FALSE)
           /\ tc' = [tc EXCEPT !.attempts = 0, !.timer = FALSE]
           /\ UNCHANGED net
  <2>1. /\ tc'.starts = tc.starts /\ tc'.timer = FALSE
        /\ tc'.asked = tc.asked /\ tc'.key = tc.key
    BY <1>3, TypeParts DEF TcType
  <2>2. /\ bdb'.state = bdb.state /\ bdb'.com = bdb.com
        /\ bdb'.status = "tclkFailure" /\ bdb'.onNet = FALSE
    BY <1>3, TypeParts DEF KeyDone, BdbType
  <2>3. /\ Posted(tasks') = Posted(tasks) \cup {"finish"}
        /\ tasks = <<>> => tasks' = <<"finish">>
    BY <1>3, PostFacts DEF KeyDone, Tasks
  <2>4. BusyInv'
    BY <2>2, <2>3 DEF BusyInv
  <2>5. CASE ~hist.overtaken
    <3>1. New /\ bdb.state = "steer" /\ tasks = <<>> /\ Idle
      BY <1>1, <1>3, <2>5
      DEF OnCourse, Lost, New, Settled, Joining, NoKeyWork
    <3>2. New'
      BY <1>1, <1>3, <2>1, <2>2, <2>3, <3>1 DEF New, Unasked, Idle
    <3> QED
      BY <2>4, <3>2 DEF OnCourse
  <2> QED
    BY <1>1, <2>4, <2>5 DEF OnCourse
<1>4. CASE /\ net.joined
           /\ IF tc.leaveDoing THEN UNCHANGED net ELSE net' = Leaving(FALSE)
           /\ tc' = [tc EXCEPT !.attempts = Attempted,
                       !.leaveDoing = @ \/ net'.leaving # net.leaving]
           /\ UNCHANGED <<bdb, tasks>>
  <2>1. /\ tc'.starts = tc.starts /\ tc'.timer = tc.timer
        /\ tc'.asked = tc.asked /\ tc'.key = tc.key
    BY <1>4, TypeParts DEF TcType
  <2>2. /\ net'.factoryNew = net.factoryNew /\ net'.joined = net.joined
        /\ net'.mgr = net.mgr /\ net'.saved = net.saved
    BY <1>4, LeavingFacts
  <2> QED
    BY <1>1, <1>4, <2>1, <2>2, AskedCourse
<1> QED
  BY <1>2, <1>3, <1>4 DEF KeyTimeout

(* The tasks that end what the device does: of a start, of a rejoin, of     *)
(* steering.                                                               *)
LEMMA ConfirmCourse ==
  ASSUME TypeOK, OnCourse, BusyInv, tasks # <<>>, Head(tasks) = "finish",
         bdb.state \in {"idle", "steer"}, Confirm
  PROVE  OnCourse' /\ BusyInv'
<1> DEFINE t == Tail(tasks)
<1>1. /\ Posted(tasks) = {"finish"} \cup Posted(t)
      /\ \A f : tasks = <<f>> => "finish" = f /\ t = <<>>
  BY TakeFacts
<1>2. tasks' = t /\ UNCHANGED <<tc, delays, hist>>
  BY DEF Confirm
<1> HIDE DEF t
<1>3. /\ bdb'.state = "idle" /\ bdb'.com = bdb.status
      /\ bdb'.status = bdb.status /\ bdb'.onNet = bdb.onNet
  BY TypeParts DEF Confirm, BdbType
<1>4. bdb.status # "inProgress"
  BY TypeParts DEF BdbType, Statuses
<1>5. BusyInv'
  BY <1>3, <1>4 DEF BusyInv
<1>6. CommissioningCb(bdb.status)
  BY DEF Confirm
<1>7. CASE ~hist.overtaken
  <2>1. CASE Lost
    <3>1. bdb.state = "idle" /\ bdb.status = "rejoinFailure"
      BY <1>1, <2>1 DEF Lost
    <3>2. /\ net'.factoryNew = net.factoryNew /\ net'.joined = net.joined
          /\ net'.saved = net.saved /\ net'.leaving = net.leaving
          /\ net'.mgr # "idle" /\ steer' = steer
      BY <1>6, <3>1, TypeParts DEF CommissioningCb, Rejoin, Idle, NetType
    <3>3. Lost'
      BY <1>1, <1>2, <1>3, <2>1, <3>1, <3>2
      DEF Lost, NoKeyWork, Unasked, Idle
    <3> QED
      BY <1>5, <3>3 DEF OnCourse
  <2>2. CASE New
    <3>1. /\ bdb.state = "steer" /\ tasks = <<"finish">> /\ ~tc.timer /\ Idle
          /\ bdb.status \in {"noNetwork", "tclkFailure"}
      BY <1>1, <2>2, QueueFacts DEF New
    <3>2. steer' = TRUE /\ net' = net /\ tasks' = <<>>
      BY <1>1, <1>2, <1>6, <3>1 DEF CommissioningCb
    <3>3. New'
      BY <1>2, <1>3, <2>2, <3>1, <3>2 DEF New, Unasked, Idle
    <3> QED
      BY <1>5, <3>3 DEF OnCourse
  <2>3. CASE Settled
    <3>1. steer' = FALSE /\ net' = net
      BY <1>6, <2>3 DEF CommissioningCb, Settled
    <3>2. bdb.state = "idle"
      BY <2>3 DEF Settled
    <3>3. Settled'
      BY <1>1, <1>2, <1>3, <2>3, <3>1, <3>2 DEF Settled, NoKeyWork, Idle
    <3> QED
      BY <1>5, <3>3 DEF OnCourse
  <2>4. CASE Joining
    <3>1. /\ net.saved /\ bdb.onNet /\ NoKeyWork
          /\ Posted(tasks) \subseteq {"permitJoin", "permitConfirm", "finish"}
      BY <1>1, <2>4, QueueFacts DEF Joining, NoKeyWork
    <3>2. steer' = FALSE /\ net' = net
      BY <1>6, <2>4 DEF CommissioningCb, Joining
    <3>3. Settled'
      BY <1>1, <1>2, <1>3, <2>4, <3>1, <3>2
      DEF Joining, Settled, NoKeyWork, Idle
    <3> QED
      BY <1>5, <3>3 DEF OnCourse
  <2> QED
    BY <1>7, <2>1, <2>2, <2>3, <2>4 DEF OnCourse
<1> QED
  BY <1>2, <1>5, <1>7 DEF OnCourse

(* The start is reported and a factory new device told to steer. *)
LEMMA InitDoneCourse ==
  ASSUME TypeOK, OnCourse, BusyInv, tasks # <<>>, Head(tasks) = "initDone",
         bdb.state = "init", InitDone
  PROVE  OnCourse' /\ BusyInv'
<1> DEFINE t == Tail(tasks)
<1>1. /\ Posted(tasks) = {"initDone"} \cup Posted(t)
      /\ \A f : tasks = <<f>> => "initDone" = f /\ t = <<>>
      /\ Posted(Append(t, "infoSave")) = Posted(t) \cup {"infoSave"}
  BY TakeFacts DEF Tasks
<1>2. /\ steer' = (steer \/ (bdb.initOk /\ ~bdb.onNet))
      /\ \/ tasks' = t
         \/ bdb.onNet /\ bdb.initOk /\ tasks' = Append(t, "infoSave")
      /\ UNCHANGED <<net, tc, delays>>
  BY DEF InitDone
<1> HIDE DEF t
<1>3. /\ bdb'.state = "idle" /\ bdb'.com = bdb.com
      /\ bdb'.status = bdb.status /\ bdb'.onNet = bdb.onNet
  BY TypeParts DEF InitDone, BdbType
<1>4. hist'.overtaken = hist.overtaken /\ hist'.gaveUp = ~bdb.initOk
  BY TypeParts DEF InitDone, HistType
<1>5. BusyInv'
  BY <1>3 DEF BusyInv
<1>6. CASE ~hist.overtaken
  <2>1. CASE Lost
    <3>1. ~bdb.initOk /\ tasks' = t
      BY <1>2, <2>1 DEF Lost
    <3>2. Posted(tasks') \subseteq {"initDone"}
      BY <1>1, <2>1, <3>1 DEF Lost
    <3>3. steer' = FALSE
      BY <1>2, <2>1 DEF Lost
    <3>4. Lost'
      BY <1>2, <1>3, <1>4, <2>1, <3>1, <3>2, <3>3
      DEF Lost, NoKeyWork, Unasked
    <3> QED
      BY <1>5, <3>4 DEF OnCourse
  <2>2. CASE New
    <3>1. steer' = TRUE /\ tasks' = <<>>
      BY <1>1, <1>2, <2>2 DEF New
    <3>2. New'
      BY <1>2, <1>3, <2>2, <3>1 DEF New, Unasked, Idle
    <3> QED
      BY <1>5, <3>2 DEF OnCourse
  <2>3. CASE Settled
    <3>1. Posted(tasks') \subseteq {"initDone", "infoSave"}
      BY <1>1, <1>2, <2>3 DEF Settled
    <3>2. steer' = FALSE
      BY <1>2, <2>3 DEF Settled
    <3>3. Settled'
      BY <1>2, <1>3, <2>3, <3>1, <3>2 DEF Settled, NoKeyWork, Idle
    <3> QED
      BY <1>5, <3>3 DEF OnCourse
  <2> QED
    BY <1>6, <2>1, <2>2, <2>3 DEF OnCourse, Joining
<1> QED
  BY <1>4, <1>5, <1>6 DEF OnCourse

(* A steering begins: only a new device is told to. *)
LEMMA StartCourse ==
  ASSUME TypeOK, OnCourse, BusyInv, tasks # <<>>, Head(tasks) = "start",
         bdb.state = "idle", Start
  PROVE  OnCourse' /\ BusyInv'
<1> DEFINE t == Tail(tasks)
<1>1. /\ Posted(tasks) = {"start"} \cup Posted(t)
      /\ \A f : tasks = <<f>> => "start" = f /\ t = <<>>
      /\ Posted(Append(t, "permitConfirm")) = Posted(t) \cup {"permitConfirm"}
  BY TakeFacts DEF Tasks
<1>2. /\ bdb.onNet => tasks' = Append(t, "permitConfirm") /\ net' = net
      /\ ~bdb.onNet => tasks' = t /\ net' = [net EXCEPT !.mgr = "discovery"]
      /\ UNCHANGED <<tc, delays, steer, hist>>
  BY DEF Start
<1> HIDE DEF t
<1>3. /\ bdb'.state = "steer" /\ bdb'.status = bdb.status
      /\ bdb'.onNet = bdb.onNet
  BY TypeParts DEF Start, BdbType
<1>4. ~bdb.onNet =>
        /\ net'.mgr = "discovery" /\ net'.factoryNew = net.factoryNew
        /\ net'.joined = net.joined /\ net'.saved = net.saved
        /\ net'.leaving = net.leaving
  BY <1>2, TypeParts DEF NetType
<1>5. BusyInv'
  BY <1>1, <1>2, <1>3, <1>4 DEF BusyInv, Idle
<1>6. CASE ~hist.overtaken
  <2>1. New /\ tasks = <<"start">> /\ ~steer /\ ~tc.timer /\ ~bdb.onNet
    BY <1>1, <1>6, QueueFacts DEF OnCourse, Lost, New, Settled, Joining
  <2>2. New'
    BY <1>1, <1>2, <1>3, <1>4, <2>1 DEF New, Unasked
  <2> QED
    BY <1>5, <2>2 DEF OnCourse
<1> QED
  BY <1>2, <1>5, <1>6 DEF OnCourse

(* The steps of steering that a task takes. *)
LEMMA SteeringCourse ==
  ASSUME TypeOK, OnCourse, BusyInv, tasks # <<>>, bdb.state = "steer",
         NEW e, e = Head(tasks),
         (e = "retrieve" /\ Retrieve) \/ (e = "permitJoin" /\ PermitJoin)
  PROVE  OnCourse' /\ BusyInv'
<1> DEFINE t == Tail(tasks)
<1>1. /\ Posted(tasks) = {e} \cup Posted(t)
      /\ \A f : tasks = <<f>> => e = f /\ t = <<>>
      /\ Posted(Append(t, "permitConfirm")) = Posted(t) \cup {"permitConfirm"}
      /\ Append(t, "permitConfirm") # <<>>
  BY TakeFacts DEF Tasks
<1> HIDE DEF t
<1>2. CASE e = "retrieve" /\ Retrieve
  <2>1. tasks' = t /\ UNCHANGED <<net, bdb, delays, steer, hist>>
    BY <1>2 DEF Retrieve, t
  <2>2. /\ tc.starts \in Nat
        /\ tc'.starts = tc.starts + 1 /\ tc'.timer = tc.timer
        /\ tc'.asked = tc.asked /\ tc'.key = tc.key
    BY <1>2, TypeParts DEF Retrieve, TcType
  <2>3. tc'.starts > 0
    BY <2>2
  <2>4. BusyInv'
    BY <2>1, <2>3 DEF BusyInv
  <2>5. CASE ~hist.overtaken
    <3>1. /\ Joining /\ bdb.onNet /\ Unasked /\ ~tc.timer
          /\ delays["retrieve"] = 0 /\ delays["permitJoin"] = 0
          /\ tasks = <<"retrieve">> /\ tc.starts = 0
      <4>1. "retrieve" \in Posted(tasks)
        BY <1>1, <1>2
      <4>2. ~Lost /\ ~Settled
        BY DEF Lost, Settled
      <4>3. ~New
        BY <1>1, <1>2 DEF New
      <4>4. Joining
        BY <2>5, <4>2, <4>3 DEF OnCourse
      <4> QED
        BY <4>1, <4>4 DEF Joining
    <3>2. tasks' = <<>> /\ tc'.starts = 1
      BY <1>1, <2>1, <2>2, <3>1
    <3>3. Joining'
      BY <2>1, <2>2, <3>1, <3>2 DEF Joining, Unasked, Idle
    <3> QED
      BY <2>4, <3>3 DEF OnCourse
  <2> QED
    BY <2>1, <2>4, <2>5 DEF OnCourse
<1>3. CASE e = "permitJoin" /\ PermitJoin
  <2>1. /\ tasks' = Append(t, "permitConfirm")
        /\ UNCHANGED <<net, bdb, tc, delays, steer, hist>>
    BY <1>3 DEF PermitJoin, t
  <2>2. /\ tasks' # <<>>
        /\ Posted(tasks') = Posted(t) \cup {"permitConfirm"}
    BY <1>1, <2>1
  <2>3. BusyInv'
    BY <2>1, <2>2 DEF BusyInv
  <2>4. CASE ~hist.overtaken
    <3>1. /\ Joining /\ bdb.onNet /\ ~tc.timer /\ tc.starts = 0
          /\ delays["retrieve"] = 0 /\ delays["permitJoin"] = 0
          /\ Posted(tasks) \subseteq {"permitJoin", "permitConfirm", "finish"}
          /\ "finish" \in Posted(tasks) => net.saved
      BY <1>1, <1>3, <2>4, QueueFacts
      DEF OnCourse, Lost, New, Settled, Joining
    <3>2. /\ Posted(tasks') \subseteq {"permitJoin", "permitConfirm", "finish"}
          /\ "finish" \in Posted(tasks') => net.saved
      BY <1>1, <2>2, <3>1
    <3>3. Joining'
      BY <2>1, <2>2, <3>1, <3>2 DEF Joining, Idle
    <3> QED
      BY <2>3, <3>3 DEF OnCourse
  <2> QED
    BY <2>1, <2>3, <2>4 DEF OnCourse
<1> QED
  BY <1>2, <1>3

(* The tasks of their own that save the network. *)
LEMMA SaveCourse ==
  ASSUME TypeOK, OnCourse, BusyInv, tasks # <<>>, NEW e, e = Head(tasks),
         (e = "permitConfirm" /\ PermitConfirm) \/ (e = "infoSave" /\ InfoSave)
  PROVE  OnCourse' /\ BusyInv'
<1> DEFINE t == Tail(tasks)
<1>1. /\ Posted(tasks) = {e} \cup Posted(t)
      /\ \A f : tasks = <<f>> => e = f /\ t = <<>>
      /\ Posted(Append(t, "finish")) = Posted(t) \cup {"finish"}
      /\ Append(t, "finish") # <<>>
  BY TakeFacts DEF Tasks
<1> HIDE DEF t
<1>2. CASE e = "permitConfirm" /\ PermitConfirm
  <2>1. /\ tasks' = (IF bdb.state = "steer" THEN Append(t, "finish") ELSE t)
        /\ UNCHANGED <<tc, delays, steer, hist>>
    BY <1>2 DEF PermitConfirm, t
  <2>2. /\ bdb'.state = bdb.state /\ bdb'.com = bdb.com
        /\ bdb'.onNet = bdb.onNet /\ bdb'.status = "success"
        /\ bdb'.initOk = bdb.initOk
    BY <1>2, TypeParts DEF PermitConfirm, BdbType
  <2>3. /\ net'.factoryNew = net.factoryNew /\ net'.joined = net.joined
        /\ net'.saved = (net.saved \/ bdb.onNet) /\ net'.mgr = net.mgr
        /\ net'.leaving = net.leaving
    BY <1>2, TypeParts DEF PermitConfirm, NetType, BdbType
  <2>4. BusyInv'
    BY <1>1, <1>2, <2>1, <2>2 DEF BusyInv
  <2>5. CASE ~hist.overtaken
    <3>1. Settled \/ Joining
      <4>1. "permitConfirm" \in Posted(tasks)
        BY <1>1, <1>2
      <4>2. ~Lost
        BY <4>1 DEF Lost
      <4>3. ~New
        BY <1>1, <1>2 DEF New
      <4> QED
        BY <2>5, <4>2, <4>3 DEF OnCourse
    <3>2. CASE Settled
      <4>1. bdb.state = "idle" /\ tasks' = t
        BY <1>1, <1>2, <2>1, <3>2 DEF Settled
      <4>2. Settled'
        BY <1>1, <2>1, <2>2, <2>3, <3>2, <4>1 DEF Settled, NoKeyWork, Idle
      <4> QED
        BY <2>4, <4>2 DEF OnCourse
    <3>3. CASE Joining
      <4>1. /\ bdb.onNet /\ ~tc.timer /\ tc.starts = 0 /\ bdb.state = "steer"
            /\ delays["retrieve"] = 0 /\ delays["permitJoin"] = 0
            /\ Posted(tasks) \subseteq {"permitJoin", "permitConfirm", "finish"}
        BY <1>1, <1>2, <3>3, QueueFacts DEF Joining
      <4>2. /\ Posted(tasks') \subseteq {"permitJoin", "permitConfirm", "finish"}
            /\ tasks' # <<>>
        BY <1>1, <2>1, <4>1
      <4>3. Joining'
        BY <2>1, <2>2, <2>3, <3>3, <4>1, <4>2 DEF Joining, Idle
      <4> QED
        BY <2>4, <4>3 DEF OnCourse
    <3> QED
      BY <3>1, <3>2, <3>3
  <2> QED
    BY <2>1, <2>4, <2>5 DEF OnCourse
<1>3. CASE e = "infoSave" /\ InfoSave
  <2>1. tasks' = t /\ UNCHANGED <<bdb, tc, delays, steer, hist>>
    BY <1>3 DEF InfoSave, t
  <2>2. /\ net'.factoryNew = net.factoryNew /\ net'.joined = net.joined
        /\ net'.saved = TRUE /\ net'.mgr = net.mgr
        /\ net'.leaving = net.leaving
    BY <1>3, TypeParts DEF InfoSave, NetType
  <2>3. BusyInv'
    BY <1>1, <1>3, <2>1, <2>2 DEF BusyInv, Idle
  <2>4. CASE ~hist.overtaken
    <3>1. Settled /\ bdb.state = "idle"
      <4>1. "infoSave" \in Posted(tasks)
        BY <1>1, <1>3
      <4>2. ~Lost
        BY <4>1 DEF Lost
      <4>3. ~New
        BY <1>1, <1>3 DEF New
      <4>4. ~Joining
        BY <1>1, <1>3, <4>1, QueueFacts DEF Joining
      <4> QED
        BY <2>4, <4>1, <4>2, <4>3, <4>4 DEF OnCourse, Settled
    <3>2. Settled'
      BY <1>1, <2>1, <2>2, <3>1 DEF Settled, NoKeyWork, Idle
    <3> QED
      BY <2>3, <3>2 DEF OnCourse
  <2> QED
    BY <2>1, <2>3, <2>4 DEF OnCourse
<1> QED
  BY <1>2, <1>3

(* A task that comes in a state that does not wait for it. *)
LEMMA DropCourse ==
  ASSUME TypeOK, OnCourse, BusyInv, tasks # <<>>, NEW e, e = Head(tasks),
         e \notin {"permitConfirm", "infoSave"},
         ~(bdb.state = "init" /\ e = "initDone"),
         ~(bdb.state = "idle" /\ e = "start"),
         ~(bdb.state \in {"idle", "steer"} /\ e = "finish"),
         ~(bdb.state = "steer" /\ e = "retrieve"),
         ~(bdb.state = "steer" /\ e = "permitJoin"), Drop
  PROVE  OnCourse' /\ BusyInv'
<1> DEFINE t == Tail(tasks)
<1>1. /\ Posted(tasks) = {e} \cup Posted(t)
      /\ \A f : tasks = <<f>> => e = f /\ t = <<>>
  BY TakeFacts
<1>2. tasks' = t /\ UNCHANGED <<net, tc, delays, steer, hist>>
  BY DEF Drop
<1> HIDE DEF t
<1>3. /\ bdb'.com = bdb.com /\ bdb'.status = bdb.status
      /\ bdb'.onNet = bdb.onNet
      /\ bdb'.state = (IF bdb.state = "init" THEN "idle" ELSE bdb.state)
  BY TypeParts DEF Drop, BdbType
<1>4. BusyInv'
  BY <1>1, <1>2, <1>3 DEF BusyInv, Idle
<1>5. CASE ~hist.overtaken
  <2>1. CASE Lost
    <3>1. bdb.state = "idle" /\ e = "initDone"
      BY <1>1, <2>1 DEF Lost
    <3>2. /\ Posted(tasks') \subseteq {"initDone", "finish"}
          /\ "finish" \in Posted(tasks) <=> "finish" \in Posted(tasks')
      BY <1>1, <1>2, <2>1, <3>1 DEF Lost
    <3>3. Lost'
      BY <1>2, <1>3, <2>1, <3>1, <3>2 DEF Lost, NoKeyWork, Unasked, Idle
    <3> QED
      BY <1>4, <3>3 DEF OnCourse
  <2>2. CASE New
    BY <1>1, <2>2, QueueFacts DEF New
  <2>3. CASE Settled
    <3>1. bdb.state = "idle"
      BY <1>1, <2>3 DEF Settled
    <3>2. Settled'
      BY <1>1, <1>2, <1>3, <2>3, <3>1 DEF Settled, NoKeyWork, Idle
    <3> QED
      BY <1>4, <3>2 DEF OnCourse
  <2>4. CASE Joining
    BY <1>1, <2>4, QueueFacts DEF Joining
  <2> QED
    BY <1>5, <2>1, <2>2, <2>3, <2>4 DEF OnCourse
<1> QED
  BY <1>2, <1>4, <1>5 DEF OnCourse

(* Every step keeps a device on course and a commissioning alive. *)
LEMMA CourseStep ==
  TypeOK /\ OnCourse /\ BusyInv /\ [Next]_vars => OnCourse' /\ BusyInv'
<1> SUFFICES ASSUME TypeOK, OnCourse, BusyInv, [Next]_vars
             PROVE  OnCourse' /\ BusyInv'
  OBVIOUS
<1>1. CASE UNCHANGED vars
  BY <1>1, AskedCourse DEF vars
<1>2. CASE RunTask
  <2> DEFINE e == Head(tasks)
  <2>1. CASE (e = "permitConfirm" /\ PermitConfirm) \/ (e = "infoSave" /\ InfoSave)
    BY <1>2, <2>1, SaveCourse DEF RunTask
  <2>2. CASE bdb.state = "init" /\ e = "initDone" /\ InitDone
    BY <1>2, <2>2, InitDoneCourse DEF RunTask
  <2>3. CASE bdb.state = "idle" /\ e = "start" /\ Start
    BY <1>2, <2>3, StartCourse DEF RunTask
  <2>4. CASE bdb.state \in {"idle", "steer"} /\ e = "finish" /\ Confirm
    BY <1>2, <2>4, ConfirmCourse DEF RunTask
  <2>5. CASE /\ bdb.state = "steer"
             /\ (e = "retrieve" /\ Retrieve) \/ (e = "permitJoin" /\ PermitJoin)
    BY <1>2, <2>5, SteeringCourse DEF RunTask
  <2>6. CASE /\ e \notin {"permitConfirm", "infoSave"}
             /\ ~(bdb.state = "init" /\ e = "initDone")
             /\ ~(bdb.state = "idle" /\ e = "start")
             /\ ~(bdb.state \in {"idle", "steer"} /\ e = "finish")
             /\ ~(bdb.state = "steer" /\ e = "retrieve")
             /\ ~(bdb.state = "steer" /\ e = "permitJoin")
             /\ Drop
    BY <1>2, <2>6, DropCourse DEF RunTask
  <2> QED
    BY <1>2, <2>1, <2>2, <2>3, <2>4, <2>5, <2>6, RunTaskCases
<1>3. CASE Reboot
  BY <1>3, RebootCourse
<1>4. CASE Library
  BY <1>4, RequestCourse, LeaveDoneCourse, LeaveRejoinsCourse DEF Library
<1>5. CASE StartCnf
  BY <1>5, StartedInitCourse, StartedIdleCourse, SteerAnsweredCourse
  DEF StartCnf
<1>6. CASE Application
  BY <1>6, RequestCourse, SwitchRejoinsCourse, SteerFiresCourse
  DEF Application
<1>7. CASE Keys
  BY <1>7, KeyStartCourse, KeyAnswerCourse, KeyTimeoutCourse DEF Keys
<1>8. ASSUME NEW e \in DOMAIN delays, DelayFires(e)
      PROVE  OnCourse' /\ BusyInv'
  BY <1>8, DelayCourse
<1> QED
  BY <1>1, <1>2, <1>3, <1>4, <1>5, <1>6, <1>7, <1>8 DEF Next

(* A device is always on course, a commissioning always alive. *)
LEMMA CourseAlways == Spec => [](TypeOK /\ OnCourse /\ BusyInv)
  BY TypeInit, TypeStep, CourseInit, CourseStep, PTL DEF Spec

(* What Quiet says of the timers and delays. *)
LEMMA QuietFacts ==
  ASSUME TypeOK, Quiet
  PROVE  /\ tasks = <<>> /\ Posted(tasks) = {} /\ Idle /\ NoKeyWork
         /\ net.leaving = "none"
<1>1. delays["retrieve"] = 0 /\ delays["permitJoin"] = 0
  BY TypeParts DEF Quiet, RestType
<1> QED
  BY <1>1, QueueFacts DEF Quiet, NoKeyWork

(* A device that is off the network while nothing is under way waits for    *)
(* its steering timer, unless its router failed to start or a leave         *)
(* overtook a steering that succeeded (zb_bdbInitCb,                        *)
(* zb_bdbCommissioningCb, app_leaveCnfHandler).                             *)
THEOREM NeverStrandedHolds == Spec => []NeverStranded
<1>1. TypeOK /\ OnCourse => NeverStranded
  <2> SUFFICES ASSUME TypeOK, OnCourse, Quiet, ~net.joined
               PROVE  steer \/ hist.gaveUp \/ hist.overtaken
    BY DEF NeverStranded
  <2>1. tasks = <<>> /\ Posted(tasks) = {} /\ Idle /\ NoKeyWork
    BY QuietFacts
  <2>2. Lost => hist.gaveUp
    BY <2>1 DEF Lost
  <2>3. New => steer
    BY <2>1 DEF New, NoKeyWork, Idle
  <2> QED
    BY <2>2, <2>3 DEF OnCourse, Settled, Joining
<1> QED
  BY <1>1, CourseAlways, PTL

(* A device that is on a network once joining is over has saved it, and so  *)
(* finds it again after a restart (bdb_mgmtPermitJoiningConfirm).           *)
THEOREM CommissionedIsDurableHolds == Spec => []CommissionedIsDurable
<1>1. TypeOK /\ OnCourse => CommissionedIsDurable
  BY DEF OnCourse, Lost, New, Settled, Joining, CommissionedIsDurable
<1> QED
  BY <1>1, CourseAlways, PTL

(* A commissioning that is under way has something left that ends it, so    *)
(* the status that makes bdb_topLevelCommissioning refuse every other one   *)
(* does not stay, a leave in its middle included.                           *)
THEOREM BusyEndsHolds == Spec => []BusyEnds
<1>1. TypeOK /\ BusyInv => BusyEnds
  <2> SUFFICES ASSUME TypeOK, BusyInv, Quiet
               PROVE  bdb.com # "inProgress" /\ bdb.state # "steer"
    BY DEF BusyEnds
  <2> QED
    BY QuietFacts DEF BusyInv, NoKeyWork
<1> QED
  BY <1>1, CourseAlways, PTL

(* Success is reported for a steering only on a network, unless a leave was *)
(* confirmed in its middle or an answer came after the key exchange was     *)
(* over: nothing else makes bdb_topLevelCommissiongConfirm report it        *)
(* wrongly (the code as it is does not keep SuccessMeansJoined itself).     *)
THEOREM SuccessMeansJoinedOnCourse ==
  Spec => [][bdb.state = "steer" /\ bdb'.state = "idle"
             /\ bdb'.com = "success" /\ ~hist.overtaken => net.joined]_vars
<1> DEFINE A == bdb.state = "steer" /\ bdb'.state = "idle"
                /\ bdb'.com = "success" /\ ~hist.overtaken => net.joined
<1>1. TypeOK /\ OnCourse /\ [Next]_vars => [A]_vars
  <2> SUFFICES ASSUME TypeOK, OnCourse, [Next]_vars,
                      bdb.state = "steer", bdb'.state = "idle",
                      bdb'.com = "success", ~hist.overtaken
               PROVE  net.joined
    BY DEF A
  <2>1. CASE RunTask
    <3>1. /\ bdb' = bdb => FALSE
          /\ bdb' = [bdb EXCEPT !.status = "success"] => FALSE
          /\ bdb' = [bdb EXCEPT !.state = "steer"] => FALSE
      BY TypeParts DEF BdbType
    <3>2. Head(tasks) = "finish" /\ Confirm
      BY <2>1, <3>1, RunTaskCases
      DEF PermitConfirm, InfoSave, Start, Retrieve, PermitJoin, Drop
    <3>3. bdb.status = "success"
      BY <3>2, TypeParts DEF Confirm, BdbType
    <3>4. "finish" \in Posted(tasks) /\ tasks # <<>>
      BY <2>1, <3>2, TakeFacts DEF RunTask
    <3> QED
      <4>1. ~Lost /\ ~Settled
        BY DEF Lost, Settled
      <4>2. ~New
        BY <3>3, <3>4, QueueFacts DEF New
      <4> QED
        BY <4>1, <4>2 DEF OnCourse, Joining
  <2>2. CASE ~RunTask
    <3>1. [bdb EXCEPT !.com = "inProgress"].state = bdb.state
      BY TypeParts DEF BdbType
    <3>2. Reboot => bdb'.state = "init"
      BY DEF Reboot, Started
    <3>3. Library \/ Application => bdb'.state = bdb.state
      <4>1. Library => bdb'.state = bdb.state
        <5>1. LeaveDone => bdb'.state = bdb.state
          BY TypeParts DEF BdbType, LeaveDone
        <5> QED
          BY <5>1 DEF Library, RemoteLeave, LeaveRejoins
      <4>2. SteerFires => bdb'.state = bdb.state
        BY <3>1 DEF SteerFires
      <4>3. CounterTimer \/ AppTask \/ ResetRequest \/ SwitchRejoins
              => bdb' = bdb
        BY DEF CounterTimer, AppTask, ResetRequest, SwitchRejoins
      <4> QED
        BY <4>1, <4>2, <4>3 DEF Application
    <3>4. StartCnf => bdb'.state = bdb.state
      BY TypeParts DEF BdbType, StartCnf, StartedInit, StartedIdle,
        SteerJoined, SteerFailed
    <3>5. Keys => bdb'.state = bdb.state
      BY TypeParts DEF BdbType, Keys, KeyStart, NodeDesc, KeyDone, KeyVerified,
        KeyTimeout, AskAgain
    <3>6. (\E e \in DOMAIN delays : DelayFires(e)) \/ UNCHANGED vars
             => bdb'.state = bdb.state
      BY DEF DelayFires, vars
    <3> QED
      BY <2>2, <3>2, <3>3, <3>4, <3>5, <3>6 DEF Next
  <2> QED
    BY <2>1, <2>2
<1>2. Spec => [][A]_vars
  BY <1>1, CourseAlways, PTL DEF Spec
<1> QED
  BY <1>2

=============================================================================
