------------------------------ MODULE Download ------------------------------
(***************************************************************************)
(* What tftp.c promises its caller: the calls of tftp_read return the      *)
(* blocks of the file that was asked for, each once and in order, and the  *)
(* connection reports TFTP_STATE_DONE exactly when the last one has been   *)
(* returned.  It may report TFTP_STATE_ERROR before the first block.       *)
(***************************************************************************)
EXTENDS Naturals, Sequences

CONSTANTS LastBlock, MaxDownloads

VARIABLES state, download, delivered

vars == <<state, download, delivered>>

Init == state = "IDLE" /\ download = 0 /\ delivered = <<>>

Start ==
  /\ download < MaxDownloads
  /\ download' = download + 1
  /\ state' = "REQUEST"
  /\ delivered' = <<>>

Fail ==
  /\ state = "REQUEST"
  /\ state' = "ERROR"
  /\ UNCHANGED <<download, delivered>>

Accept ==
  /\ state = "REQUEST"
  /\ state' = "READ"
  /\ UNCHANGED <<download, delivered>>

ReturnBlock ==
  /\ state = "READ"
  /\ delivered' = Append(delivered, [file |-> download, block |-> Len(delivered) + 1])
  /\ state' = IF Len(delivered) + 1 = LastBlock THEN "DONE" ELSE "READ"
  /\ UNCHANGED download

Next == Start \/ Fail \/ Accept \/ ReturnBlock

Spec == Init /\ [][Next]_vars
==============================================================================
