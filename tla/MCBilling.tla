------------------------------ MODULE MCBilling ------------------------------
EXTENDS Billing, TLC

CONSTANTS e1, e2, e3, up, down, v1, v2, d1, d2, d3, c1, x1, id1

\* Half of v1 each: e1 and its second announcement e2 with the payment id id1,
\* e3 without one; v2 is paid by nobody.
MCInvoiceOf == [e \in PayEvents |-> v1]
MCPaymentOf == [e \in PayEvents |-> IF e = e3 THEN Null ELSE id1]
MCDue == [v \in Invoices |-> 2]

Symmetry == Permutations(Deliveries)
=============================================================================
