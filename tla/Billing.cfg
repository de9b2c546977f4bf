SPECIFICATION BillingSpec
CONSTANTS
    e1 = e1  e2 = e2  e3 = e3  up = up  down = down  v1 = v1  v2 = v2
    d1 = d1  d2 = d2  d3 = d3  c1 = c1  x1 = x1   id1 = id1
    PayEvents = {e1, e2, e3}
    SubEvents = {up, down}
    CancelEvents = {down}
    Deliveries = {d1, d2, d3}
    InvoiceOf <- MCInvoiceOf
    PaymentOf <- MCPaymentOf
    Invoices = {v1, v2}
    Due <- MCDue
    PlanChanges = {c1}
    Cancels = {x1}
    MaxTime = 2
    MaxRequests = 4
    MaxFaults = 1
    Null = Null
CHECK_DEADLOCK FALSE
SYMMETRY Symmetry
INVARIANTS BillingTypeOK PaidIsCovered RecordedIsApplied RowFollowsIntent
