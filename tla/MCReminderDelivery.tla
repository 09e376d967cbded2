------------------------- MODULE MCReminderDelivery -------------------------
(* Small instances of ReminderDelivery for TLC. *)
EXTENDS ReminderDelivery, TLC

Interchangeable == Permutations(Tasks)
=============================================================================
