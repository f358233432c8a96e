---------------------------- MODULE Commissioning ----------------------------
(***************************************************************************)
(* Joining, leaving and resetting: the callbacks of the application        *)
(* (src/src/zb_appCb.c, app_button.c, app_switch.c), the power-on counter  *)
(* that asks for a factory reset (src/src/common/factory_reset.c) and the  *)
(* base device behaviour they drive (src/tl_zigbee_sdk/zigbee/bdb/bdb.c)   *)
(* with its task queue and timers.                                         *)
(*                                                                         *)
(* The network layer below is a binary library.  It is external: a manager *)
(* that is asked to look for a network, to rejoin or to start the router   *)
(* and answers once (bdb_zdoStartDevCnf), and a leave that is confirmed,   *)
(* then erases NV and tells the application.  The device is a router that  *)
(* steers.  Touchlink, which another device may start, is left out.        *)
(***************************************************************************)
EXTENDS Integers, Sequences

CONSTANTS
  Threshold,    \* FACTORY_RESET_POWER_CNT_THRESHOLD
  AttemptsMax,  \* tcLinkKeyExchangeAttemptsMax
  MaxBoots,     \* bound: restarts
  MaxPending    \* bound: tasks queued and delays running at once

ASSUME CommissioningAssumption ==
  /\ Threshold \in Nat \ {0} /\ AttemptsMax \in Nat
  /\ MaxBoots \in Nat /\ MaxPending \in Nat \ {0}

VARIABLES
  net,    \* what the library keeps: g_zbNwkCtx, the manager, NV, a leave
  bdb,    \* g_bdbCtx.state, .status, .initResult and, of g_bdbAttrs,
          \* commissioningStatus (com) and nodeIsOnANetwork (onNet)
  tc,     \* the exchange of the trust center link key
  tasks,  \* the tasks posted by TL_SCHEDULE_TASK
  delays, \* running timers of bdb_task_delay, by event
  steer,  \* steerTimerEvt # NULL
  power,  \* the power-on counter in RAM and in NV, its timer, the mark
  hist    \* history: restarts, those since the counter was last cleared,
          \* whether a start of the router failed, whether a leave was
          \* confirmed in the middle of steering

vars == <<net, bdb, tc, tasks, delays, steer, power, hist>>

NoKeys == [starts |-> 0, timer |-> FALSE, attempts |-> 0,
           leaveDoing |-> FALSE, asked |-> FALSE, key |-> FALSE]

(* What a start makes of RAM.  A device that was saved on a network starts  *)
(* its router; a factory new one is done.                                   *)
Started(saved) ==
  /\ net' = [factoryNew |-> ~saved, joined |-> FALSE, saved |-> saved,
             mgr |-> IF saved THEN "router" ELSE "idle", leaving |-> "none"]
  /\ bdb' = [state |-> "init", status |-> "success", initOk |-> TRUE,
             com |-> "success", onNet |-> saved]
  /\ tc' = NoKeys
  /\ tasks' = IF saved THEN <<>> ELSE <<"initDone">>
  /\ delays' = [e \in {"retrieve", "permitJoin"} |-> 0]
  /\ steer' = FALSE

Init ==
  /\ net = [factoryNew |-> TRUE, joined |-> FALSE, saved |-> FALSE,
            mgr |-> "idle", leaving |-> "none"]
  /\ bdb = [state |-> "init", status |-> "success", initOk |-> TRUE,
            com |-> "success", onNet |-> FALSE]
  /\ tc = NoKeys
  /\ tasks = <<"initDone">>
  /\ delays = [e \in {"retrieve", "permitJoin"} |-> 0]
  /\ steer = FALSE
  /\ power = [cnt |-> 1, nv |-> 1, timer |-> TRUE, exist |-> FALSE]
  /\ hist = [boots |-> 0, quick |-> 1, gaveUp |-> FALSE, overtaken |-> FALSE]

Post(e) == tasks' = Append(tasks, e)
Room == Len(tasks) < MaxPending  \* bound: answers wait for the queue
Idle == net.mgr = "idle"

(* Power fails and comes back: factoryRst_init, stack_init, bdb_init.       *)
Reboot ==
  /\ hist.boots < MaxBoots
  /\ Started(net.saved)
  /\ LET cnt == (power.nv + 1) % 256
     IN power' = [cnt |-> cnt, nv |-> cnt, timer |-> TRUE, exist |-> FALSE]
  /\ hist' = [boots |-> hist.boots + 1, quick |-> hist.quick + 1,
              gaveUp |-> FALSE, overtaken |-> FALSE]

-----------------------------------------------------------------------------
(* The library                                                              *)

(* A leave of the device itself (zdo_nlmeLeaveReq): refused while it is not *)
(* on a network or a leave is under way.                                    *)
Leaving(rejoin) ==
  IF net.joined /\ Idle /\ net.leaving = "none"
  THEN [net EXCEPT !.leaving = IF rejoin THEN "rejoin" ELSE "asked"]
  ELSE net

(* zb_factoryReset: a factory new device only erases its NV, another one    *)
(* leaves and erases it then; p is the power-on counter its caller leaves.  *)
FactoryReset(p) ==
  IF net.factoryNew
  THEN /\ net' = [net EXCEPT !.saved = FALSE]
       /\ power' = [p EXCEPT !.nv = 0]
  ELSE /\ net' = Leaving(FALSE)
       /\ power' = p

RemoteLeave(rejoin) ==
  /\ net.joined /\ net' = Leaving(rejoin)
  /\ UNCHANGED <<bdb, tc, tasks, delays, steer, power, hist>>

(* history: a leave ends a steering that is not waiting for its key         *)
Overtaken ==
  hist.overtaken \/ (bdb.state = "steer" /\ (~tc.timer \/ net.leaving = "rejoin"))

(* Requests to a network that was left are not answered.                    *)
Forgotten == [tc EXCEPT !.asked = FALSE, !.key = FALSE]

(* Mutant of LeaveDone: the device that left is not told to steer. *)
LeaveDoneSilent ==
  /\ net.leaving = "asked" /\ tasks = <<>>
  /\ net' = [net EXCEPT !.leaving = "none", !.joined = FALSE,
                        !.saved = FALSE, !.factoryNew = TRUE]
  /\ bdb' = [bdb EXCEPT !.com = "success", !.onNet = FALSE]
  /\ tc' = [Forgotten EXCEPT !.attempts = 0]
  /\ power' = [power EXCEPT !.nv = 0]
  /\ hist' = [hist EXCEPT !.overtaken = Overtaken]
  /\ UNCHANGED <<tasks, delays, steer>>

(* The confirm of a leave comes through the task queue, behind the tasks    *)
(* posted; those posted behind it are taken to run before it as well.  The  *)
(* library erases NV and resets its layers (tl_bdbAttrInit),   *)
(* then app_leaveCnfHandler schedules a steering.                           *)
LeaveDone ==
  /\ net.leaving = "asked" /\ tasks = <<>>
  /\ net' = [net EXCEPT !.leaving = "none", !.joined = FALSE,
                        !.saved = FALSE, !.factoryNew = TRUE]
  /\ bdb' = [bdb EXCEPT !.com = "success", !.onNet = FALSE]
  /\ tc' = [Forgotten EXCEPT !.attempts = 0]
  /\ power' = [power EXCEPT !.nv = 0]
  /\ steer' = TRUE
  /\ hist' = [hist EXCEPT !.overtaken = Overtaken]
  /\ UNCHANGED <<tasks, delays>>

(* A leave with the request to rejoin keeps NV and starts the manager.      *)
LeaveRejoins ==
  /\ net.leaving = "rejoin" /\ tasks = <<>>
  /\ net' = [net EXCEPT !.leaving = "none", !.joined = FALSE, !.mgr = "rejoin"]
  /\ tc' = Forgotten
  /\ hist' = [hist EXCEPT !.overtaken = Overtaken]
  /\ UNCHANGED <<bdb, tasks, delays, steer, power>>

-----------------------------------------------------------------------------
(* The application                                                          *)

(* Mutant of CounterTimer: the counter in NV is not cleared. *)
CounterTimerKept ==
  /\ power.timer
  /\ power' = [cnt |-> 0, nv |-> power.nv, timer |-> FALSE,
               exist |-> power.exist \/ power.cnt >= Threshold]
  /\ hist' = [hist EXCEPT !.quick = 0]
  /\ UNCHANGED <<net, bdb, tc, tasks, delays, steer>>

(* factoryRst_timerCb, 4 s after a start                                    *)
CounterTimer ==
  /\ power.timer
  /\ power' = [cnt |-> 0, nv |-> 0, timer |-> FALSE,
               exist |-> power.exist \/ power.cnt >= Threshold]
  /\ hist' = [hist EXCEPT !.quick = 0]
  /\ UNCHANGED <<net, bdb, tc, tasks, delays, steer>>

Unmarked == [power EXCEPT !.exist = FALSE]

(* Mutant of AppTask: the mark is dropped while the device is joining. *)
AppTaskBusy ==
  /\ power.exist
  /\ IF bdb.state = "idle" THEN FactoryReset(Unmarked)
     ELSE UNCHANGED net /\ power' = Unmarked
  /\ UNCHANGED <<bdb, tc, tasks, delays, steer, hist>>

(* factoryRst_handler in app_task                                           *)
AppTask ==
  /\ power.exist
  /\ FactoryReset(Unmarked)
  /\ UNCHANGED <<bdb, tc, tasks, delays, steer, hist>>

(* The button held for 5 s, or the reset gesture of the wall switch; a mark *)
(* of the power-on counter stays.                                          *)
ResetRequest ==
  /\ FactoryReset(power)
  /\ UNCHANGED <<bdb, tc, tasks, delays, steer, hist>>

(* zb_rejoinReq: refused while the manager is busy                          *)
Rejoin ==
  IF Idle THEN [net EXCEPT !.mgr = "rejoin"] ELSE net

(* A contact moved on a device that lost its network.                       *)
SwitchRejoins ==
  /\ ~net.joined /\ ~net.factoryNew
  /\ net' = Rejoin
  /\ UNCHANGED <<bdb, tc, tasks, delays, steer, power, hist>>

(* Mutant of SteerFires: the wrong status says that it is busy. *)
SteerFiresStatus ==
  /\ steer /\ steer' = FALSE
  /\ IF bdb.state = "idle" /\ Idle /\ bdb.com # "inProgress"
     THEN Post("start") /\ bdb' = [bdb EXCEPT !.status = "inProgress"]
     ELSE UNCHANGED <<tasks, bdb>>
  /\ UNCHANGED <<net, tc, delays, power, hist>>

(* app_bdbNetworkSteerStart: bdb_topLevelCommissioning refuses while the    *)
(* state, the manager or the status say busy, and the timer is gone.        *)
SteerFires ==
  /\ steer /\ steer' = FALSE
  /\ IF bdb.state = "idle" /\ Idle /\ bdb.com # "inProgress"
     THEN Post("start") /\ bdb' = [bdb EXCEPT !.com = "inProgress"]
     ELSE UNCHANGED <<tasks, bdb>>
  /\ UNCHANGED <<net, tc, delays, power, hist>>

(* Mutant of CommissioningCb: a failed key exchange is not tried again. *)
CommissioningCbOnce(status) ==
  /\ steer' = CASE status = "success" -> FALSE
                [] status = "noNetwork" -> TRUE
                [] OTHER -> steer
  /\ net' = IF status = "rejoinFailure" THEN Rejoin ELSE net

(* zb_bdbCommissioningCb                                                    *)
CommissioningCb(status) ==
  /\ steer' = CASE status = "success" -> FALSE
                [] status \in {"noNetwork", "tclkFailure"} -> TRUE
                [] OTHER -> steer
  /\ net' = IF status = "rejoinFailure" THEN Rejoin ELSE net

-----------------------------------------------------------------------------
(* bdb_task.  The end of steering and the end of a rejoin have the same     *)
(* number (BDB_EVT_COMMISSIONING_NETWORK_STEER_FINISH and                   *)
(* BDB_STATE_REJOIN_DONE are 7): both are "finish".                         *)

(* bdb_topLevelCommissiongConfirm, and the state the task sets after it     *)
Confirm ==
  /\ bdb' = [bdb EXCEPT !.com = bdb.status, !.state = "idle"]
  /\ CommissioningCb(bdb.status)
  /\ tasks' = Tail(tasks)
  /\ UNCHANGED <<tc, delays, power, hist>>

(* zb_bdbInitCb and, on a network whose key or channel changed, a save      *)
InitDone ==
  /\ bdb' = [bdb EXCEPT !.state = "idle"]
  /\ steer' = (steer \/ (bdb.initOk /\ ~bdb.onNet))
  /\ \/ tasks' = Tail(tasks)
     \/ /\ bdb.onNet /\ bdb.initOk
        /\ tasks' = Append(Tail(tasks), "infoSave")
  /\ hist' = [hist EXCEPT !.gaveUp = ~bdb.initOk]
  /\ UNCHANGED <<net, tc, delays, power>>

(* bdb_commissioningNetworkSteer                                            *)
Start ==
  /\ bdb' = [bdb EXCEPT !.state = "steer"]
  /\ IF bdb.onNet
     THEN tasks' = Append(Tail(tasks), "permitConfirm") /\ UNCHANGED net
     ELSE tasks' = Tail(tasks) /\ net' = [net EXCEPT !.mgr = "discovery"]
  /\ UNCHANGED <<tc, delays, steer, power, hist>>

Retrieve ==
  /\ tc' = [tc EXCEPT !.starts = @ + 1]
  /\ tasks' = Tail(tasks)
  /\ UNCHANGED <<net, bdb, delays, steer, power, hist>>

PermitJoin ==
  /\ tasks' = Append(Tail(tasks), "permitConfirm")
  /\ UNCHANGED <<net, bdb, tc, delays, steer, power, hist>>

(* What a state does not wait for is dropped.                               *)
Drop ==
  /\ tasks' = Tail(tasks)
  /\ bdb' = IF bdb.state = "init" THEN [bdb EXCEPT !.state = "idle"] ELSE bdb
  /\ UNCHANGED <<net, tc, delays, steer, power, hist>>

(* Mutant of PermitConfirm: the network is not saved. *)
PermitConfirmUnsaved ==
  /\ bdb' = [bdb EXCEPT !.status = "success"]
  /\ tasks' = IF bdb.state = "steer" THEN Append(Tail(tasks), "finish")
              ELSE Tail(tasks)
  /\ UNCHANGED <<net, tc, delays, steer, power, hist>>

(* bdb_mgmtPermitJoiningConfirm, a task of its own                          *)
PermitConfirm ==
  /\ bdb' = [bdb EXCEPT !.status = "success"]
  /\ tasks' = IF bdb.state = "steer" THEN Append(Tail(tasks), "finish")
              ELSE Tail(tasks)
  /\ net' = [net EXCEPT !.saved = @ \/ bdb.onNet]
  /\ UNCHANGED <<tc, delays, steer, power, hist>>

(* bdb_commissioningInfoSave, a task of its own                             *)
InfoSave ==
  /\ tasks' = Tail(tasks)
  /\ net' = [net EXCEPT !.saved = TRUE]
  /\ UNCHANGED <<bdb, tc, delays, steer, power, hist>>

RunTask ==
  /\ tasks # <<>>
  /\ LET e == Head(tasks)
     IN CASE e = "permitConfirm" -> PermitConfirm
          [] e = "infoSave" -> InfoSave
          [] bdb.state = "init" /\ e = "initDone" -> InitDone
          [] bdb.state = "idle" /\ e = "start" -> Start
          [] bdb.state \in {"idle", "steer"} /\ e = "finish" -> Confirm
          [] bdb.state = "steer" /\ e = "retrieve" -> Retrieve
          [] bdb.state = "steer" /\ e = "permitJoin" -> PermitJoin
          [] OTHER -> Drop

(* bdb_task_delay, 200 ms after the network was joined                      *)
DelayFires(e) ==
  /\ delays[e] > 0 /\ Room /\ tc.starts < MaxPending
  /\ delays' = [delays EXCEPT ![e] = @ - 1]
  /\ Post(e)
  /\ UNCHANGED <<net, bdb, tc, steer, power, hist>>

-----------------------------------------------------------------------------
(* bdb_zdoStartDevCnf: the manager is idle again and has joined, or not.    *)
Answered(ok) ==
  /\ ~Idle /\ Room
  /\ net' = IF ok THEN [net EXCEPT !.mgr = "idle", !.joined = TRUE,
                                   !.factoryNew = FALSE]
            ELSE [net EXCEPT !.mgr = "idle"]

StartedInit(ok) ==
  /\ bdb.state = "init" /\ Answered(ok)
  /\ bdb' = [bdb EXCEPT !.initOk = ok]
  /\ Post("initDone")
  /\ UNCHANGED <<tc, delays, steer, power, hist>>

(* A save is queued when the key or the channel changed.                    *)
StartedIdle(ok) ==
  /\ bdb.state = "idle" /\ Answered(ok)
  /\ bdb' = [bdb EXCEPT !.status = IF ok THEN "success" ELSE "rejoinFailure",
                        !.onNet = ok \/ @]
  /\ \/ Post("finish")
     \/ ok /\ tasks' = tasks \o <<"infoSave", "finish">>
  /\ hist' = [hist EXCEPT !.gaveUp = @ /\ ~ok]
  /\ UNCHANGED <<tc, delays, steer, power>>

(* With a trust center its key is retrieved, without one the network is     *)
(* opened, 200 ms later.                                                    *)
SteerJoined ==
  /\ bdb.state = "steer" /\ Answered(TRUE)
  /\ bdb' = [bdb EXCEPT !.status = "success", !.onNet = TRUE]
  /\ \E e \in {"retrieve", "permitJoin"} :
       /\ delays[e] < MaxPending
       /\ delays' = [delays EXCEPT ![e] = @ + 1]
  /\ UNCHANGED <<tc, tasks, steer, power, hist>>

SteerFailed ==
  /\ bdb.state = "steer" /\ Answered(FALSE)
  /\ bdb' = [bdb EXCEPT !.status = "noNetwork"]
  /\ Post("finish")
  /\ UNCHANGED <<tc, delays, steer, power, hist>>

-----------------------------------------------------------------------------
(* The trust center link key                                                *)

(* bdb_retrieveTcLinkKeyStart, 1 s after its event                          *)
KeyStart ==
  /\ tc.starts > 0
  /\ tc' = [tc EXCEPT !.starts = @ - 1, !.asked = net.joined,
                      !.leaveDoing = FALSE, !.attempts = 0, !.timer = TRUE]
  /\ UNCHANGED <<net, bdb, tasks, delays, steer, power, hist>>

(* bdb_retrieveTcLinkKeyDone                                                *)
KeyDone(ok) ==
  /\ bdb' = [bdb EXCEPT !.status = IF ok THEN "success" ELSE "tclkFailure",
                        !.onNet = ok]
  /\ Post(IF ok THEN "permitJoin" ELSE "finish")

(* The trust center answers the request for its node descriptor: an old one *)
(* needs no key, from another the key is requested.                         *)
NodeDesc ==
  /\ net.joined /\ tc.asked
  /\ \/ /\ KeyDone(TRUE)
        /\ tc' = [tc EXCEPT !.timer = FALSE, !.asked = FALSE]
        /\ UNCHANGED hist
     \/ /\ bdb' = [bdb EXCEPT !.onNet = FALSE]
        /\ tc' = [tc EXCEPT !.key = TRUE, !.asked = FALSE]
        /\ hist' = [hist EXCEPT !.overtaken = @ \/ ~tc.timer]
        /\ UNCHANGED tasks
  /\ UNCHANGED <<net, delays, steer, power>>

(* The key has come and is verified.                                        *)
KeyVerified ==
  /\ net.joined /\ tc.key
  /\ KeyDone(TRUE) /\ tc' = [tc EXCEPT !.timer = FALSE, !.key = FALSE]
  /\ UNCHANGED <<net, delays, steer, power, hist>>

(* tcLinkKeyExchangeAttempts++, which is 8 bits wide; bound: it stops above  *)
(* the limit, the 12 minutes until it wraps are left out.                   *)
Attempted == IF tc.attempts > AttemptsMax THEN tc.attempts
             ELSE tc.attempts + 1

AskAgain ==
  /\ tc.attempts < AttemptsMax
  /\ tc' = [tc EXCEPT !.attempts = Attempted, !.asked = net.joined]
  /\ UNCHANGED <<net, bdb, tasks>>

(* Mutant of KeyTimeout: it ends when the leave was asked for, not done. *)
KeyTimeoutEager ==
  /\ tc.timer /\ Room
  /\ \/ AskAgain
     \/ /\ tc.attempts >= AttemptsMax
        /\ net' = Leaving(FALSE)
        /\ tc' = [tc EXCEPT !.attempts = 0, !.timer = FALSE]
        /\ UNCHANGED <<bdb, tasks>>
  /\ UNCHANGED <<delays, steer, power, hist>>

(* bdb_retrieveTcLinkKeyTimeout: asks again, then leaves the network, and   *)
(* ends once the device has left.                                           *)
KeyTimeout ==
  /\ tc.timer /\ Room
  /\ \/ AskAgain
     \/ /\ tc.attempts >= AttemptsMax /\ ~net.joined
        /\ KeyDone(FALSE)
        /\ tc' = [tc EXCEPT !.attempts = 0, !.timer = FALSE]
        /\ UNCHANGED net
     \/ /\ tc.attempts >= AttemptsMax /\ net.joined
        /\ IF tc.leaveDoing THEN UNCHANGED net
           ELSE net' = Leaving(FALSE)
        /\ tc' = [tc EXCEPT !.attempts = Attempted,
                            !.leaveDoing = @ \/ net'.leaving # net.leaving]
        /\ UNCHANGED <<bdb, tasks>>
  /\ UNCHANGED <<delays, steer, power, hist>>

-----------------------------------------------------------------------------
Library ==
  \/ \E rejoin \in BOOLEAN : RemoteLeave(rejoin)
  \/ LeaveRejoins \/ LeaveDone

StartCnf ==
  \/ \E ok \in BOOLEAN : StartedInit(ok) \/ StartedIdle(ok)
  \/ SteerJoined \/ SteerFailed

Application ==
  CounterTimer \/ AppTask \/ ResetRequest \/ SwitchRejoins \/ SteerFires

Keys == KeyStart \/ NodeDesc \/ KeyVerified \/ KeyTimeout

Next ==
  \/ Reboot \/ Library \/ StartCnf \/ Application \/ Keys \/ RunTask
  \/ \E e \in DOMAIN delays : DelayFires(e)

Spec == Init /\ [][Next]_vars

(* The main loop runs tasks and timers, the library answers and ends what   *)
(* it was asked for.  Restarts, requests and answers over the air come at   *)
(* will.                                                                    *)
Fairness ==
  /\ WF_vars(RunTask) /\ WF_vars(SteerFires) /\ WF_vars(AppTask)
  /\ WF_vars(StartCnf) /\ WF_vars(KeyStart) /\ WF_vars(KeyTimeout)
  /\ SF_vars(LeaveDone) /\ SF_vars(LeaveRejoins)
  /\ WF_vars(DelayFires("retrieve")) /\ WF_vars(DelayFires("permitJoin"))

FairSpec == Spec /\ Fairness

-----------------------------------------------------------------------------
Statuses == {"success", "noNetwork", "tclkFailure", "rejoinFailure"}
Tasks == {"initDone", "start", "finish", "permitJoin", "retrieve",
          "permitConfirm", "infoSave"}

TypeOK ==
  /\ net \in [factoryNew : BOOLEAN, joined : BOOLEAN, saved : BOOLEAN,
              mgr : {"idle", "discovery", "rejoin", "router"},
              leaving : {"none", "asked", "rejoin"}]
  /\ bdb \in [state : {"init", "idle", "steer"}, status : Statuses,
              initOk : BOOLEAN, com : Statuses \cup {"inProgress"},
              onNet : BOOLEAN]
  /\ tc \in [starts : Nat, timer : BOOLEAN, attempts : 0 .. AttemptsMax + 1,
             leaveDoing : BOOLEAN, asked : BOOLEAN, key : BOOLEAN]
  /\ tasks \in Seq(Tasks)
  /\ delays \in [{"retrieve", "permitJoin"} -> 0 .. MaxPending]
  /\ steer \in BOOLEAN
  /\ power \in [cnt : 0 .. 255, nv : 0 .. 255, timer : BOOLEAN,
                exist : BOOLEAN]
  /\ hist \in [boots : 0 .. MaxBoots, quick : Nat, gaveUp : BOOLEAN,
               overtaken : BOOLEAN]

(* Nothing is under way that could change the state of the network.         *)
Quiet ==
  /\ tasks = <<>> /\ Idle /\ net.leaving = "none"
  /\ \A e \in DOMAIN delays : delays[e] = 0
  /\ tc.starts = 0 /\ ~tc.timer

(* A device that is off the network is trying to get on one, or is about to *)
(* (zb_bdbInitCb, zb_bdbCommissioningCb, app_leaveCnfHandler), unless its   *)
(* router failed to start or a leave overtook a steering that succeeded:    *)
(* zb_bdbCommissioningCb then cancels the timer of the leave.               *)
NeverStranded ==
  Quiet /\ ~net.joined => steer \/ hist.gaveUp \/ hist.overtaken

(* Once joining is over the device finds its network again after a restart  *)
(* (bdb_mgmtPermitJoiningConfirm).                                          *)
CommissionedIsDurable ==
  Quiet /\ net.joined /\ bdb.state = "idle" =>
    net.saved \/ hist.overtaken

(* A commissioning that is under way ends: bdb_topLevelCommissioning        *)
(* refuses every other one meanwhile.                                       *)
BusyEnds ==
  Quiet => bdb.com # "inProgress" /\ bdb.state # "steer"

(* A successful end of steering finds the device on a network               *)
(* (BDB_COMMISSION_STA_SUCCESS, bdb.h:167).                                 *)
SuccessMeansJoined ==
  [][bdb.state = "steer" /\ bdb'.state = "idle" /\ bdb'.com = "success"
       => net.joined]_vars

(* The mark of a factory reset is never set after fewer than Threshold      *)
(* starts in a row (factoryRst_timerCb).                                    *)
ResetNeedsStarts ==
  [][power'.exist /\ ~power.exist => hist.quick >= Threshold]_vars

(* A marked factory reset of a device on a network makes it factory new,    *)
(* whatever else goes on (factoryRst_handler), once power no longer fails,  *)
(* unless it is off the network by then, or leaving it to rejoin.           *)
MarkedIsReset ==
  power.exist /\ net.joined /\ hist.boots = MaxBoots ~>
    net.factoryNew \/ ~net.joined \/ net.leaving = "rejoin" \/ hist.overtaken

(* A device that stays off the network looks for one again and again, once  *)
(* power no longer fails (zb_bdbInitCb, zb_bdbCommissioningCb,              *)
(* app_leaveCnfHandler).                                                    *)
KeepsTrying ==
  ~net.joined /\ hist.boots = MaxBoots ~>
    ~Idle \/ net.joined \/ hist.gaveUp \/ hist.overtaken

=============================================================================
