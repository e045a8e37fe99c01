------------------------ MODULE MCGuestWorkerSession ------------------------
(* Small instance of GuestWorkerSession for TLC. *)
EXTENDS GuestWorkerSession
=============================================================================
