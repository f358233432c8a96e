--------------------------- MODULE MCCommissioning ---------------------------
(***************************************************************************)
(* Commissioning with the threshold and the retries of the code and one    *)
(* restart more than the threshold takes.  A leave that overtakes steering *)
(* is followed by nothing that is promised: its successors are not         *)
(* explored, and what goes wrong there is shown by CommissioningStale.     *)
(***************************************************************************)
EXTENDS Commissioning

NotOvertaken == ~hist.overtaken
=============================================================================
