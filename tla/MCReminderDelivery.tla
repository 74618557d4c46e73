-------------------------- MODULE MCReminderDelivery --------------------------
(***************************************************************************)
(* Instances of ReminderDelivery for TLC.                                  *)
(***************************************************************************)
EXTENDS ReminderDelivery, TLC

Symmetry == Permutations(Cron)
===============================================================================
