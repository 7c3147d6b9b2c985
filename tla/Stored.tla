------------------------------- MODULE Stored -------------------------------
(***************************************************************************)
(* A file that is downloaded, as the rest of the program relies on it: it  *)
(* comes to be there in part and then in full, by one call or by several,  *)
(* it is delivered only in full, and nothing takes a part of a full file   *)
(* away: it is removed, or the object it was a copy of is replaced, whole. *)
(***************************************************************************)
VARIABLES
  file,       \* what is on disk: "none", a "part" or the "full" object
  delivered   \* the call that fetched it has returned nil

vars == <<file, delivered>>

Init == file = "none" /\ delivered = FALSE

Grow ==
  /\ file = "none"
  /\ file' = "part"
  /\ UNCHANGED delivered

Fill ==
  /\ file' = "full"
  /\ UNCHANGED delivered

Deliver ==
  /\ file' = "full"
  /\ delivered' = TRUE

\* The process that was told is over, or asks again.
Forget ==
  /\ delivered' = FALSE
  /\ UNCHANGED file

Remove ==
  /\ file' = "none"
  /\ delivered' = FALSE

Next == Grow \/ Fill \/ Deliver \/ Forget \/ Remove

Spec == Init /\ [][Next]_vars

=============================================================================
