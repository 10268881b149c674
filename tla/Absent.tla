------------------------------- MODULE Absent -------------------------------
(***************************************************************************)
(* The value of a pointer that is nil, shared by the component modules.    *)
(***************************************************************************)
CONSTANT None

=============================================================================
