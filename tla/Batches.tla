------------------------------- MODULE Batches ------------------------------
(* The batches of one product behind its on-hand quantities. A request locks *)
(* the inventory row of its location, reads the batches, works out which of  *)
(* them to take from, and writes what is left of each as an absolute value.  *)
(* The row lock covers the batches of that location only: a batch without a  *)
(* location, one named from elsewhere, and one restocked from elsewhere are  *)
(* written under other locks.                                                *)
EXTENDS Integers, FiniteSetsExt, Functions

CONSTANTS StockRequests,
          NoRequest,
          Locations,
          Floor, Quarantine,   \* the location sales deduct from; where damaged goods go
          NoLoc,         \* the location of a batch older than locations
          BatchIds,      \* in the order of receivedAt
          Opening,       \* the batches there are at the start, by id
          Untracked,     \* units on hand at the start, per location, no batch covers
          Qty            \* quantities

ASSUME LocationsAssumption == Floor \in Locations /\ Quarantine \in Locations /\ NoLoc \notin Locations
ASSUME NoRequestAssumption == NoRequest \notin StockRequests
ASSUME QtyAssumption == Qty \subseteq Nat \ {0} /\ Untracked \in Nat

Expired == 0                \* expiryDate in the past, ahead, or null
Ahead == 1
NoExpiry == 2

BatchRows == [loc : Locations \cup {NoLoc}, exp : {Expired, Ahead, NoExpiry}, got : Nat, left : Nat]

ASSUME BatchAssumption ==
  /\ BatchIds \subseteq Nat /\ IsFiniteSet(BatchIds)
  /\ DOMAIN Opening \subseteq BatchIds
  /\ \A b \in DOMAIN Opening : /\ Opening[b] \in BatchRows
                               /\ Opening[b].got > 0 /\ Opening[b].left = Opening[b].got

VARIABLES batch,         \* StockBatch rows: location, expiry, qtyReceived, qtyRemaining
          onHand,        \* InventoryItem.quantityOnHand per location
          rowOf,         \* which request holds the location's row
          job,           \* each request: where it is, what it does, what it read and planned
          given,         \* SaleLineBatch: what each committed sale took from each batch
          returned,      \* units of each sale returned so far
          taken,         \* history: units committed out of each batch, less those put back
          reached,       \* history: batches written by a holder of another location's row
          strained       \* history: locations whose on-hand fell, or whose batches rose,
                         \* without the other

batchesVars == <<batch, onHand, rowOf, job, given, returned, taken, reached, strained>>

Absent == [loc |-> NoLoc, exp |-> NoExpiry, got |-> 0, left |-> 0]
NoUnits == [b \in BatchIds |-> 0]
Idle(p) == [pc |-> p, op |-> "none", loc |-> Floor, qty |-> 0, saw |-> NoUnits,
            plan |-> NoUnits, sale |-> NoRequest]

BatchesInit == /\ batch = [b \in BatchIds |-> IF b \in DOMAIN Opening THEN Opening[b] ELSE Absent]
               /\ onHand = [l \in Locations |->
                              Untracked + SumFunctionOnSet([b \in BatchIds |-> batch[b].left],
                                             { b \in BatchIds : \/ batch[b].loc = l
                                                                \/ batch[b].loc = NoLoc /\ l = Floor })]
               /\ rowOf = [l \in Locations |-> NoRequest]
               /\ job = [w \in StockRequests |-> Idle("new")]
               /\ given = [w \in StockRequests |-> NoUnits]
               /\ returned = [w \in StockRequests |-> 0]
               /\ taken = NoUnits
               /\ reached = {}
               /\ strained = {}

-----------------------------------------------------------------------------
(* allocateFromBatches. *)

(* Batches of the location, and those without one; the expired ones unless   *)
(* they are skipped.                                                         *)
Eligible(l, skip) == { b \in BatchIds : /\ batch[b].left > 0
                                        /\ batch[b].loc \in {l, NoLoc}
                                        /\ skip => batch[b].exp # Expired }

(* First expired first out, then in order of receipt; no expiry comes last. *)
Before(b, c) == batch[b].exp < batch[c].exp \/ (batch[b].exp = batch[c].exp /\ b < c)

Left == [b \in BatchIds |-> batch[b].left]

(* A batch gives what the ones before it leave over; what no batch covers is *)
(* taken from no batch.                                                      *)
Allocation(l, skip, q) ==
  LET E == Eligible(l, skip)
      over(b) == q - SumFunctionOnSet(Left, { c \in E : Before(c, b) })
  IN  [b \in BatchIds |-> IF b \notin E \/ over(b) <= 0 THEN 0 ELSE Min({over(b), Left[b]})]

-----------------------------------------------------------------------------
(* Each operation locks its row, checks the on-hand and reads the batches.   *)

Planned(op, l, q, plan, s) ==
  [pc |-> "read", op |-> op, loc |-> l, qty |-> q, plan |-> plan, sale |-> s,
   saw |-> [b \in BatchIds |-> IF plan[b] > 0 THEN Left[b] ELSE 0]]

BeginUnlocked(w, op, l, q, plan, s) ==   \* mutant: the row is not locked
  /\ job[w].pc = "new"
  /\ job' = [job EXCEPT ![w] = Planned(op, l, q, plan, s)]
  /\ UNCHANGED <<batch, onHand, rowOf, given, returned, taken, reached, strained>>

Begin(w, op, l, q, plan, s) ==
  /\ job[w].pc = "new"
  /\ rowOf[l] = NoRequest
  /\ rowOf' = [rowOf EXCEPT ![l] = w]
  /\ job' = [job EXCEPT ![w] = Planned(op, l, q, plan, s)]
  /\ UNCHANGED <<batch, onHand, given, returned, taken, reached, strained>>

(* A sale skips expired batches when the product tracks them, unless the     *)
(* cashier allows it.                                                        *)
Sell(w) == \E q \in Qty, skip \in BOOLEAN :
             /\ q <= onHand[Floor]
             /\ Begin(w, IF skip THEN "freshSale" ELSE "sale", Floor, q,
                      Allocation(Floor, skip, q), NoRequest)

(* adjustStock downwards, writeOff, sendTransfer, and a supplier return that *)
(* names no batch: expired batches are taken as well.                        *)
TakeOut(w) == \E l \in Locations, q \in Qty :
                /\ q <= onHand[l]
                /\ Begin(w, "takeOut", l, q, Allocation(l, FALSE, q), NoRequest)

(* A supplier return may name any batch of the product. *)
ReturnNamed(w) == \E l \in Locations, q \in Qty, b \in BatchIds :
                    /\ q <= onHand[l]
                    /\ q <= batch[b].left
                    /\ Begin(w, "takeOut", l, q, [NoUnits EXCEPT ![b] = q], NoRequest)

QuarantineKeepsBatches(w) ==  \* mutant: the units leave, the batches they came from keep them
  \E l \in Locations \ {Quarantine}, q \in Qty :
    /\ q <= onHand[l]
    /\ Begin(w, "quarantine", l, q, NoUnits, NoRequest)

MoveToQuarantine(w) == \E l \in Locations \ {Quarantine}, q \in Qty :
                         /\ q <= onHand[l]
                         /\ Begin(w, "quarantine", l, q, Allocation(l, FALSE, q), NoRequest)

(* receiveGoods, receiveTransfer, a goods receipt: a new batch. *)
Receive(w) == \E l \in Locations, q \in Qty : Begin(w, "receive", l, q, NoUnits, NoRequest)

(* adjustStock upwards, returnToStock: no batch. *)
PutBack(w) == \E l \in Locations, q \in Qty : Begin(w, "putBack", l, q, NoUnits, NoRequest)

PostCount(w) == \E l \in Locations, q \in Qty \cup {0} : Begin(w, "count", l, q, NoUnits, NoRequest)

(* voidSale and returnSale give a share of what the sale took back to the    *)
(* same batches, and the units to the floor or to quarantine.                *)
Restock(w) == \E s \in StockRequests, l \in {Floor, Quarantine} :
                /\ job[s].pc = "sold"
                /\ \E q \in 1..(job[s].qty - returned[s]) :
                     /\ \A b \in BatchIds : (given[s][b] * q) % job[s].qty = 0
                     /\ Begin(w, "restock", l, q,
                              [b \in BatchIds |-> (given[s][b] * q) \div job[s].qty], s)

-----------------------------------------------------------------------------
(* The writes, at commit. *)

LetGo(w) == rowOf' = [l \in Locations |-> IF rowOf[l] = w THEN NoRequest ELSE rowOf[l]]

(* Rows written under the lock of another location than the batch's own.     *)
OutOfReach(w) == { b \in BatchIds : job[w].plan[b] > 0 /\ batch[b].loc # job[w].loc }

Written(w) == { b \in BatchIds : job[w].plan[b] > 0 }

(* allocateFromBatches writes what it read less what it takes. *)
TakenFrom(w) == [b \in BatchIds |-> IF b \in Written(w)
                                    THEN [batch[b] EXCEPT !.left = job[w].saw[b] - job[w].plan[b]]
                                    ELSE batch[b]]

(* The new batch has the next id. *)
Stored(bs, new) == [bs EXCEPT ![Min({ b \in BatchIds : bs[b].got = 0 })] = new]
Fresh(l, e, q) == [loc |-> l, exp |-> e, got |-> q, left |-> q]
HasRoom == \E b \in BatchIds : batch[b].got = 0   \* bound: BatchIds

Finishes(w, p) == /\ job' = [job EXCEPT ![w] = IF p = "sold" THEN [@ EXCEPT !.pc = p] ELSE Idle(p)]
                  /\ LetGo(w)

PassedOver(w) == { b \in BatchIds : /\ job[w].op = "freshSale"
                                    /\ batch[b].loc = job[w].loc
                                    /\ batch[b].exp = Expired
                                    /\ batch[b].left > 0 }

Notes(w) == /\ taken' = [b \in BatchIds |-> taken[b] + job[w].plan[b]]
            /\ reached' = reached \cup OutOfReach(w)
            /\ strained' = strained \cup { batch[b].loc : b \in OutOfReach(w) }
                                    \cup IF OutOfReach(w) \cup PassedOver(w) = {} THEN {}
                                         ELSE {job[w].loc}

CommitTaken(w) ==
  /\ job[w].pc = "read"
  /\ job[w].op \in {"sale", "freshSale", "takeOut"}
  /\ batch' = TakenFrom(w)
  /\ onHand' = [onHand EXCEPT ![job[w].loc] = @ - job[w].qty]
  /\ IF job[w].op = "takeOut"
     THEN given' = given /\ Finishes(w, "done")
     ELSE given' = [given EXCEPT ![w] = job[w].plan] /\ Finishes(w, "sold")
  /\ Notes(w)
  /\ UNCHANGED returned

(* The second half locks the row of the quarantine location. The new batch   *)
(* has no expiry date.                                                       *)
CommitQuarantine(w) ==
  /\ job[w].pc = "read"
  /\ job[w].op = "quarantine"
  /\ rowOf[Quarantine] = NoRequest
  /\ HasRoom
  /\ batch' = Stored(TakenFrom(w), Fresh(Quarantine, NoExpiry, job[w].qty))
  /\ onHand' = [onHand EXCEPT ![job[w].loc] = @ - job[w].qty, ![Quarantine] = @ + job[w].qty]
  /\ Finishes(w, "done")
  /\ Notes(w)
  /\ UNCHANGED <<given, returned>>

CommitReceived(w) ==
  /\ job[w].pc = "read"
  /\ job[w].op = "receive"
  /\ HasRoom
  /\ \E e \in {Ahead, NoExpiry} : batch' = Stored(batch, Fresh(job[w].loc, e, job[w].qty))
  /\ onHand' = [onHand EXCEPT ![job[w].loc] = @ + job[w].qty]
  /\ Finishes(w, "done")
  /\ UNCHANGED <<given, returned, taken, reached, strained>>

CommitPutBack(w) ==
  /\ job[w].pc = "read"
  /\ job[w].op = "putBack"
  /\ onHand' = [onHand EXCEPT ![job[w].loc] = @ + job[w].qty]
  /\ Finishes(w, "done")
  /\ UNCHANGED <<batch, given, returned, taken, reached, strained>>

(* A count sets the on-hand and leaves the batches alone. *)
CommitCount(w) ==
  /\ job[w].pc = "read"
  /\ job[w].op = "count"
  /\ onHand' = [onHand EXCEPT ![job[w].loc] = job[w].qty]
  /\ strained' = strained \cup IF job[w].qty < onHand[job[w].loc] THEN {job[w].loc} ELSE {}
  /\ Finishes(w, "done")
  /\ UNCHANGED <<batch, given, returned, taken, reached>>

(* An increment, whatever was read; refused when another return came first.  *)
CommitRestock(w) ==
  /\ job[w].pc = "read"
  /\ job[w].op = "restock"
  /\ LET s == job[w].sale
     IN  /\ returned[s] + job[w].qty <= job[s].qty
         /\ returned' = [returned EXCEPT ![s] = @ + job[w].qty]
  /\ batch' = [b \in BatchIds |-> [batch[b] EXCEPT !.left = @ + job[w].plan[b]]]
  /\ taken' = [b \in BatchIds |-> taken[b] - job[w].plan[b]]
  /\ reached' = reached \cup OutOfReach(w)
  /\ strained' = strained \cup { batch[b].loc : b \in OutOfReach(w) }
  /\ onHand' = [onHand EXCEPT ![job[w].loc] = @ + job[w].qty]
  /\ Finishes(w, "done")
  /\ UNCHANGED given

RollBack(w) == /\ job[w].pc = "read"
               /\ Finishes(w, "done")
               /\ UNCHANGED <<batch, onHand, given, returned, taken, reached, strained>>

BatchesNext == \E w \in StockRequests :
          \/ Sell(w) \/ TakeOut(w) \/ ReturnNamed(w) \/ MoveToQuarantine(w) \/ Receive(w)
          \/ PutBack(w) \/ PostCount(w) \/ Restock(w)
          \/ CommitTaken(w) \/ CommitQuarantine(w) \/ CommitReceived(w) \/ CommitPutBack(w)
          \/ CommitCount(w) \/ CommitRestock(w) \/ RollBack(w)

BatchesSpec == BatchesInit /\ [][BatchesNext]_batchesVars

-----------------------------------------------------------------------------
(* No unit of a batch is given out twice: what a batch has left is what it   *)
(* received, less all that was taken from it and not put back, although      *)
(* every taker stores an absolute value (stock.util.ts:127-130). It holds    *)
(* for every batch that only requests at its own location have written.      *)
BatchesAddUp ==
  \A b \in BatchIds \ reached : batch[b].left = batch[b].got - taken[b]

BatchTotal(l) == SumFunctionOnSet(Left, { b \in BatchIds : batch[b].loc = l })

(* The batches of a location never claim more than its on-hand, unless a     *)
(* count lowered the on-hand, a sale passed expired batches over, or a batch *)
(* was taken from or given back to under another location's row. (The report *)
(* compares the batches of all locations: reconciliation.ts:87-90.)          *)
BatchesWithinStock == \A l \in Locations \ strained : BatchTotal(l) <= onHand[l]

=============================================================================
