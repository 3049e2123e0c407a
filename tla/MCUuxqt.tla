------------------------------ MODULE MCUuxqt ------------------------------
(***************************************************************************)
(* Two uuxqt programs and three commands: a batch of two mails, a single   *)
(* mail, and one whose data does not come or that is not supported.        *)
(***************************************************************************)
EXTENDS Uuxqt, TLC

CONSTANTS p1, p2, batch, mail, odd

MC_Procs == {p1, p2}
MC_Jobs  == {batch, mail, odd}
MC_Mails == (batch :> 2) @@ (mail :> 1) @@ (odd :> 1)
=============================================================================
