----------------------------- MODULE MCOnOffLog -----------------------------
(* Instance of OnOffLog for TLC.  The bits are the one by which ON differs  *)
(* from OFF and the highest ones of the status and of the checksum; the     *)
(* others are taken to be programmed.  With both of the highest ones left   *)
(* out, the record of OFF is that of 128.                                   *)
EXTENDS OnOffLog

MCStatus == {0, 1, 128}
MCBits == {<<2, 0>>, <<2, 7>>, <<3, 7>>}

(* What is assumed of the images holds of the whole records. *)
Whole == INSTANCE OnOffLog WITH
  Status <- 0 .. 255, Bits <- (1 .. 3) \X (0 .. 7)

ASSUME WholeImagesDiffer == Whole!ImagesDiffer

(* A record of OFF or ON that was cut can be taken for another status.     *)
ASSUME WholeRecordsRemain ==
  /\ 128 \in Whole!Remains[ZCL_ONOFF_STATUS_OFF]
  /\ 129 \in Whole!Remains[ZCL_ONOFF_STATUS_ON]

=============================================================================
