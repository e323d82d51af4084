----------------------------- MODULE Purchasing -----------------------------
(* Purchase orders from the reorder suggestion to the last delivery, the     *)
(* charges added to a receipt, and the supplier's bill. Every operation      *)
(* reads the row it is about, decides on what it read, and then writes       *)
(* without looking again: a status, or a total it computed from the read.    *)
(* A transaction is one step; costs are 1 per unit, so a subtotal is the     *)
(* number of units ordered.                                                  *)
EXTENDS Integers, FiniteSets, Functions

CONSTANTS Orders, Products,
          Requests,
          Nobody,
          Qty,           \* units ordered or delivered per line, bound on a line
          Threshold,     \* getPoApproveThreshold: a larger subtotal needs a permission
          Target,        \* Product.maxStock, or restockQty
          Due,           \* SupplierBill.amountDue
          Amounts        \* of payments and of charges

ASSUME SetsAssumption == IsFiniteSet(Orders) /\ IsFiniteSet(Products)
ASSUME TargetAssumption == Target \in Nat
ASSUME QtyAssumption == Qty \subseteq Nat /\ 0 \in Qty
ASSUME DueAssumption == Due \in Nat \ {0} /\ Amounts \subseteq Nat \ {0}

VARIABLES order,         \* PurchaseOrder rows with their lines
          onHand,        \* of each product
          bill,          \* SupplierBill: status and amountPaid
          landed,        \* GoodsReceiptLine.landedUnitCost, above unitCost
          req,           \* each request: where it is, its call, the rows it read
          delivered,     \* GoodsReceiptLine rows: units received against each order
          payments,      \* sum of the SupplierPayment rows
          charges,       \* sum of the LandedCost rows
          byManager,     \* history: was the order approved by someone who may approve any
          raced          \* history: orders, bill or receipt written from an older read

purchasingVars == <<order, onHand, bill, landed, req, delivered, payments, charges, byManager, raced>>
rowVars == <<order, onHand, bill, landed>>
logVars == <<delivered, payments, charges, byManager, raced>>

NoUnits == [p \in Products |-> 0]
NoOrder == [status |-> "NONE", ordered |-> NoUnits, received |-> NoUnits, gen |-> 0]
Idle(p) == [pc |-> p, call |-> "none", what |-> Nobody, seen |-> NoOrder, base |-> 0,
            amount |-> 0, units |-> NoUnits, manager |-> FALSE]

PurchasingInit == /\ order = [o \in Orders |-> NoOrder]
                  /\ onHand = NoUnits
                  /\ bill = [status |-> "NONE", paid |-> 0]
                  /\ landed = 0
                  /\ req = [w \in Requests |-> Idle("new")]
                  /\ delivered = [o \in Orders |-> NoUnits]
                  /\ payments = 0
                  /\ charges = 0
                  /\ byManager = [o \in Orders |-> FALSE]
                  /\ raced = {}

-----------------------------------------------------------------------------
Lines == { f \in [Products -> Qty] : \E p \in Products : f[p] > 0 }

Subtotal(ord) == SumFunctionOnSet(ord.ordered, Products)

(* incomingForProduct, incomingMap: what open orders still owe. *)
OpenIncoming == {"APPROVED", "SENT", "PARTIALLY_RECEIVED"}

Owed(ord, p) == IF ord.ordered[p] > ord.received[p] THEN ord.ordered[p] - ord.received[p] ELSE 0

Incoming(p) ==
  SumFunctionOnSet([o \in Orders |-> Owed(order[o], p)],
                   { o \in Orders : order[o].status \in OpenIncoming })

(* openPurchaseOrders: the report of the open orders, drafts among them.     *)
OpenOrders == { o \in Orders : order[o].status \in OpenIncoming \cup {"DRAFT"} }
QuantityOrdered(o) == SumFunctionOnSet(order[o].ordered, Products)
QuantityReceived(o) == SumFunctionOnSet(order[o].received, Products)

(* agedPayables: what open bills still ask for, by how late they are.        *)
Payable == IF bill.status \in {"OPEN", "PARTIAL"} /\ bill.paid < Due THEN Due - bill.paid ELSE 0

Buckets == {"current", "days1to30", "days31to60", "days61to90", "over90"}
BucketOf(daysLate) == IF daysLate <= 0 THEN "current"
                      ELSE IF daysLate <= 30 THEN "days1to30"
                      ELSE IF daysLate <= 60 THEN "days31to60"
                      ELSE IF daysLate <= 90 THEN "days61to90" ELSE "over90"
AgedPayables(daysLate) == [b \in Buckets |-> IF b = BucketOf(daysLate) THEN Payable ELSE 0]

(* suggestions: up to the target, less what is there and what is coming. *)
Suggested(p) == LET cover == onHand[p] + Incoming(p)
                IN  IF Target > cover THEN Target - cover ELSE 0

-----------------------------------------------------------------------------
(* The rows are read; the call is refused on what they say. *)

Reads(w, r) == /\ req[w].pc = "new"
               /\ req' = [req EXCEPT ![w] = r]
               /\ UNCHANGED <<rowVars, logVars>>

MayCancelAny(c) ==            \* mutant: an order that is partly received can be cancelled
  CASE c \in {"update", "approve"} -> {"DRAFT"}
    [] c = "send"    -> {"APPROVED"}
    [] c = "cancel"  -> {"DRAFT", "APPROVED", "SENT", "PARTIALLY_RECEIVED"}
    [] c = "close"   -> {"RECEIVED", "PARTIALLY_RECEIVED"}
    [] c = "receive" -> OpenIncoming

(* The statuses in which an order takes a call. *)
Takes(c) ==
  CASE c \in {"update", "approve"} -> {"DRAFT"}
    [] c = "send"    -> {"APPROVED"}
    [] c = "cancel"  -> {"DRAFT", "APPROVED", "SENT"}
    [] c = "close"   -> {"RECEIVED", "PARTIALLY_RECEIVED"}
    [] c = "receive" -> OpenIncoming

OrderCalls == {"update", "approve", "send", "cancel", "close", "receive"}

MayApproveUnchecked(ord, manager) == TRUE   \* mutant: the subtotal is not compared

MayApprove(ord, manager) == Subtotal(ord) > Threshold => manager

ReadOrder(w, c) == \E o \in Orders, m \in BOOLEAN :
                     /\ order[o].status \in Takes(c)
                     /\ m => c = "approve"
                     /\ c = "approve" => MayApprove(order[o], m)
                     /\ Reads(w, [Idle("acting") EXCEPT !.call = c, !.what = o,
                                                        !.seen = order[o], !.manager = m])

Refuse(w) == /\ \E o \in Orders, c \in OrderCalls :
                  \/ order[o].status \notin Takes(c)
                  \/ c = "approve" /\ ~MayApprove(order[o], FALSE)
             /\ Reads(w, Idle("done"))

ReadBillUnchecked(w) ==       \* mutant: the amount is not compared with the balance
  \E a \in Amounts :
    /\ bill.status \in {"OPEN", "PARTIAL"}
    /\ Reads(w, [Idle("acting") EXCEPT !.call = "pay", !.base = bill.paid, !.amount = a])

ReadBill(w) == \E a \in Amounts :
                 /\ bill.status \in {"OPEN", "PARTIAL"}
                 /\ a <= Due - bill.paid
                 /\ Reads(w, [Idle("acting") EXCEPT !.call = "pay", !.base = bill.paid, !.amount = a])

ReadReceipt(w) == \E a \in Amounts :
                    /\ \E o \in Orders : delivered[o] # NoUnits
                    /\ Reads(w, [Idle("acting") EXCEPT !.call = "charge", !.base = landed, !.amount = a])

ReadSuggestions(w) == /\ \E p \in Products : Suggested(p) > 0
                      /\ Reads(w, [Idle("acting") EXCEPT !.call = "reorder",
                                                         !.units = [p \in Products |-> Suggested(p)]])

-----------------------------------------------------------------------------
(* The writes. *)

Acts(w, c) == /\ req[w].pc = "acting"
              /\ req[w].call = c
              /\ req' = [req EXCEPT ![w] = Idle("done")]

RacedIf(cond, x) == raced' = raced \cup IF cond THEN {x} ELSE {}

Draft(o, f) == /\ order[o].status = "NONE"
               /\ order' = [order EXCEPT ![o] = [NoOrder EXCEPT !.status = "DRAFT", !.ordered = f]]

Create == /\ \E o \in Orders, f \in Lines : Draft(o, f)
          /\ UNCHANGED <<onHand, bill, landed, req, logVars>>

CreateBill == /\ bill.status = "NONE"
              /\ bill' = [bill EXCEPT !.status = "OPEN"]
              /\ UNCHANGED <<order, onHand, landed, req, logVars>>

(* createDraftPos, with the quantities that were suggested. *)
CreateDraftPos(w) == /\ Acts(w, "reorder")
                     /\ \E o \in Orders : Draft(o, req[w].units)
                     /\ UNCHANGED <<onHand, bill, landed, logVars>>

(* The lines are deleted and created again. *)
UpdateDraft(w) ==
  LET o == req[w].what
  IN  /\ Acts(w, "update")
      /\ \E f \in Lines :
           order' = [order EXCEPT ![o] = [@ EXCEPT !.ordered = f, !.received = NoUnits,
                                                   !.gen = order[o].gen + 1]]
      /\ RacedIf(order[o] # req[w].seen, o)
      /\ UNCHANGED <<onHand, bill, landed, delivered, payments, charges, byManager>>

SetStatus(w, c, s) ==
  LET o == req[w].what
  IN  /\ Acts(w, c)
      /\ order' = [order EXCEPT ![o].status = s]
      /\ RacedIf(order[o] # req[w].seen, o)
      /\ byManager' = IF c = "approve" THEN [byManager EXCEPT ![o] = req[w].manager] ELSE byManager
      /\ UNCHANGED <<onHand, bill, landed, delivered, payments, charges>>

Approve(w) == SetStatus(w, "approve", "APPROVED")
Send(w)    == SetStatus(w, "send", "SENT")
Cancel(w)  == SetStatus(w, "cancel", "CANCELLED")
Close(w)   == SetStatus(w, "close", "CLOSED")

StatusAfter(ord, seenStatus) ==
  IF \A p \in Products : ord.received[p] >= ord.ordered[p] THEN "RECEIVED"
  ELSE IF \E p \in Products : ord.received[p] > 0 THEN "PARTIALLY_RECEIVED"
  ELSE seenStatus

(* A goods receipt: stock comes in, a line's quantityReceived is what was    *)
(* read plus what came, and the status is written if it is not the one read. *)
(* A line that was replaced meanwhile is not found, and the receipt fails.   *)
Receive(w) ==
  LET o == req[w].what
      s == req[w].seen
  IN  /\ Acts(w, "receive")
      /\ s.gen = order[o].gen
      /\ \E f \in Lines :
           LET ord == [order[o] EXCEPT !.received = [p \in Products |->
                         IF f[p] > 0 /\ s.ordered[p] > 0 THEN s.received[p] + f[p] ELSE @[p]]]
               next == StatusAfter(ord, s.status)
           IN  /\ order' = [order EXCEPT ![o] =
                              IF next = s.status THEN ord ELSE [ord EXCEPT !.status = next]]
               /\ onHand' = [p \in Products |-> onHand[p] + f[p]]
               /\ delivered' = [delivered EXCEPT ![o] = [p \in Products |-> @[p] + f[p]]]
      /\ RacedIf(order[o] # s, o)
      /\ UNCHANGED <<bill, landed, payments, charges, byManager>>

(* recordPayment: the payment is a row, the total what was read plus it. *)
Pay(w) ==
  LET paid == req[w].base + req[w].amount
  IN  /\ Acts(w, "pay")
      /\ bill' = [status |-> IF paid >= Due THEN "PAID" ELSE "PARTIAL", paid |-> paid]
      /\ payments' = payments + req[w].amount
      /\ RacedIf(bill.paid # req[w].base, "bill")
      /\ UNCHANGED <<order, onHand, landed, delivered, charges, byManager>>

(* addLandedCost: the charge is a row, the landed cost what was read plus it. *)
Charge(w) ==
  /\ Acts(w, "charge")
  /\ landed' = req[w].base + req[w].amount
  /\ charges' = charges + req[w].amount
  /\ RacedIf(landed # req[w].base, "receipt")
  /\ UNCHANGED <<order, onHand, bill, delivered, payments, byManager>>

Fail(w) == /\ req[w].pc = "acting"
           /\ req' = [req EXCEPT ![w] = Idle("done")]
           /\ UNCHANGED <<rowVars, logVars>>

PurchasingNext == \/ Create
                  \/ CreateBill
                  \/ \E w \in Requests :
                       \/ \E c \in OrderCalls : ReadOrder(w, c)
                       \/ Refuse(w) \/ ReadBill(w) \/ ReadReceipt(w) \/ ReadSuggestions(w)
                       \/ CreateDraftPos(w) \/ UpdateDraft(w) \/ Approve(w) \/ Send(w) \/ Cancel(w)
                       \/ Close(w) \/ Receive(w) \/ Pay(w) \/ Charge(w) \/ Fail(w)

PurchasingSpec == PurchasingInit /\ [][PurchasingNext]_purchasingVars

-----------------------------------------------------------------------------
(* What an order says was received is what the receipts brought, and its     *)
(* status says whether anything is owed, unless two calls on it overlapped:  *)
(* quantityReceived is an absolute value (goods-receipts.service.ts:217-225).*)
(* Then the open orders' report and the incoming stock agree on the order.   *)
ReceivedAsDelivered ==
  \A o \in Orders \ raced :
    /\ \A p \in Products : order[o].ordered[p] > 0 => order[o].received[p] = delivered[o][p]
    /\ order[o].status = "RECEIVED" => \A p \in Products : Owed(order[o], p) = 0
    /\ order[o].status \in {"APPROVED", "SENT", "CANCELLED"} => order[o].received = NoUnits
    /\ (o \in OpenOrders /\ \A p \in Products : delivered[o][p] <= order[o].ordered[p])
         => QuantityOrdered(o) - QuantityReceived(o)
              = SumFunctionOnSet([p \in Products |-> Owed(order[o], p)], Products)

(* "PO above threshold requires PURCHASE_APPROVE" (purchasing.e2e-spec.ts    *)
(* :214): an order that went ahead with a large subtotal was approved by     *)
(* someone who may, unless it was edited while it was being approved.        *)
LargeOrdersApproved ==
  \A o \in Orders \ raced :
    (order[o].status \in OpenIncoming \cup {"RECEIVED", "CLOSED"} /\ Subtotal(order[o]) > Threshold)
      => byManager[o]

(* What the payables report asks for is what is due less every payment made, *)
(* and no bill is overpaid; a receipt's landed cost is the sum of its        *)
(* charges: unless two payments or two charges overlapped, each writing a    *)
(* total it computed before (bills.service.ts:143-166).                      *)
TotalsAddUp ==
  /\ ("bill" \notin raced /\ bill.status # "NONE") =>
       \A daysLate \in {0, 1, 30, 31, 90, 91} :
         SumFunctionOnSet(AgedPayables(daysLate), Buckets) = Due - payments
  /\ "receipt" \notin raced => landed = charges
=============================================================================
