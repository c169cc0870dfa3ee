---------------------------- MODULE InvoiceLedger ----------------------------
(***************************************************************************)
(* What the invoice component promises, with no requests, awaits or        *)
(* handlers: a ledger that issues invoices with the next number of their   *)
(* billing period and settles an open invoice, in one step each.           *)
(*                                                                         *)
(* Atomic says whether a settlement is final.  TRUE is the ledger that the *)
(* guards of InvoiceService.pay and cancel describe (a paid invoice cannot *)
(* be cancelled, nor the reverse, nor either twice).  FALSE is the weaker  *)
(* ledger in which a settled invoice may be settled again.                 *)
(***************************************************************************)
EXTENDS Naturals

CONSTANTS
    Invoice,    \* identities of invoice rows, used or not
    Period,     \* billing periods
    NoPeriod,   \* the period of a row that does not exist yet
    Atomic      \* is a settlement final?

VARIABLES
    status,     \* status of each invoice, "absent" before it is issued
    number,     \* the invoice number, a period and a sequence number
    last        \* last sequence number given out in each period

vars == <<status, number, last>>

Settled == {"PAID", "CANCELLED"}

Init ==
    /\ status = [i \in Invoice |-> "absent"]
    /\ number = [i \in Invoice |-> [period |-> NoPeriod, seq |-> 0]]
    /\ last = [p \in Period |-> 0]

(* A new invoice takes the number after the last one of its period. *)
Issue(i, p) ==
    /\ status[i] = "absent"
    /\ status' = [status EXCEPT ![i] = "PENDING"]
    /\ number' = [number EXCEPT ![i] = [period |-> p, seq |-> last[p] + 1]]
    /\ last' = [last EXCEPT ![p] = @ + 1]

(* An open invoice is paid or cancelled. *)
Settle(i, s) ==
    /\ status[i] = "PENDING"
    /\ status' = [status EXCEPT ![i] = s]
    /\ UNCHANGED <<number, last>>

(* Only the weak ledger settles an invoice that is settled already. *)
Resettle(i, s) ==
    /\ ~Atomic
    /\ status[i] \in Settled
    /\ status' = [status EXCEPT ![i] = s]
    /\ UNCHANGED <<number, last>>

Next ==
    \E i \in Invoice :
        \/ \E p \in Period : Issue(i, p)
        \/ \E s \in Settled : Settle(i, s) \/ Resettle(i, s)

Spec == Init /\ [][Next]_vars
=============================================================================
