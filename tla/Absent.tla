------------------------------- MODULE Absent -------------------------------
(* What stands for no entry, no reference and no object: a missing map     *)
(* entry, a nil pointer, an empty field.                                   *)
CONSTANT NONE

=============================================================================
