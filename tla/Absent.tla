------------------------------- MODULE Absent -------------------------------
(***************************************************************************)
(* The value that stands for nil, shared by the machines that are composed *)
(* in one instance.                                                        *)
(***************************************************************************)
CONSTANT None

=============================================================================
