------------------------------ MODULE Pointers ------------------------------
(***************************************************************************)
(* A pointer that may be NULL is a sequence with at most one element, what *)
(* it points at.                                                           *)
(***************************************************************************)

NULL == <<>>
=============================================================================
