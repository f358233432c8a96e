--------------------------- MODULE DurableStatus ---------------------------
(***************************************************************************)
(* What the on/off log promises its callers, with no flash in it: a single *)
(* durable copy of the relay state beside the one in RAM.                  *)
(*                                                                         *)
(* A save makes the RAM state durable in one step; a boot reads the durable *)
(* state back.  Three weaknesses of the implementation are part of the     *)
(* contract because its callers can see them.  From time to time a save    *)
(* first has to reclaim the storage and is then exposed to losing the      *)
(* durable state.  A power cut within a save leaves the durable state or   *)
(* the one being saved, or a third one that remains of it.  After a cut in *)
(* the middle of a storage operation ("damaged") nothing is promised until *)
(* the next reclaim.                                                       *)
(***************************************************************************)
CONSTANTS
  Status,
  Default,
  Remains   \* Remains[v]: what a save of v may leave when it is cut

VARIABLES
  durable,   \* the state a restart would read back
  ram,       \* the state in RAM
  phase,     \* "off", "idle", "saving", "reclaiming"
  damaged    \* the promise is void until the storage is reclaimed

vars == <<durable, ram, phase, damaged>>

Init ==
  /\ durable = Default
  /\ ram = Default
  /\ phase = "off"
  /\ damaged = FALSE

(* A boot reads the durable state; storage that holds nothing reads as the *)
(* default and is reclaimed first.                                         *)
Boot ==
  /\ phase = "off"
  /\ ram' = durable
  /\ \/ phase' = "idle"
     \/ phase' = "reclaiming" /\ durable = Default
  /\ UNCHANGED <<durable, damaged>>

Change ==
  /\ phase = "idle"
  /\ ram' \in Status
  /\ UNCHANGED <<durable, phase, damaged>>

StartSave ==
  /\ phase = "idle"
  /\ phase' \in {"saving", "reclaiming"}
  /\ UNCHANGED <<durable, ram, damaged>>

Reclaim ==
  /\ phase = "reclaiming"
  /\ durable' = Default
  /\ damaged' = FALSE
  /\ phase' = "saving"
  /\ UNCHANGED ram

Commit ==
  /\ phase = "saving"
  /\ IF damaged THEN durable' \in Status ELSE durable' = ram
  /\ phase' = "idle"
  /\ UNCHANGED <<ram, damaged>>

PowerCut ==
  \/ /\ phase = "idle"
     /\ phase' = "off"
     /\ UNCHANGED <<durable, ram, damaged>>
  \/ /\ phase = "saving"
     /\ phase' = "off"
     /\ \/ damaged /\ durable' \in Status
        \/ durable' \in {durable, ram}
        \/ durable' \in Remains[ram] /\ damaged'
     /\ damaged' \in {damaged, TRUE}
     /\ UNCHANGED ram
  \/ /\ phase = "reclaiming"
     /\ phase' = "off"
     /\ durable' \in Status
     /\ damaged' = TRUE
     /\ UNCHANGED ram

Next == Boot \/ Change \/ StartSave \/ Reclaim \/ Commit \/ PowerCut

Spec == Init /\ [][Next]_vars

=============================================================================
