------------------------- MODULE MCInvoiceScheduler -------------------------
(***************************************************************************)
(* Finite instances of InvoiceScheduler.                                   *)
(***************************************************************************)
EXTENDS InvoiceScheduler, TLC

CONSTANTS i1, i2

(* One invoice comes into its window of four days on the second day, the   *)
(* other is due on the second day.                                         *)
ReminderLead == (i1 :> 4) @@ (i2 :> 1)

(* Both are past due before the first scan or become so after it.          *)
OverdueLead == (i1 :> -1) @@ (i2 :> 0)

(* Replicas are interchangeable; invoices are not, as their leads differ.  *)
Symmetry == Permutations(ReminderCron) \cup Permutations(OverdueCron)
=============================================================================
