-------------------------- MODULE MCInvoiceService --------------------------
(***************************************************************************)
(* Finite instances of InvoiceService.                                     *)
(***************************************************************************)
EXTENDS InvoiceService, TLC

(* Rows, periods and request slots are interchangeable: no definition      *)
(* names one of them.  Used only by runs without liveness properties.      *)
Symmetry ==
    Permutations(Invoice) \cup Permutations(Period) \cup Permutations(Request)
=============================================================================
