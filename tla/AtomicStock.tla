---------------------------- MODULE AtomicStock ----------------------------
(* What the stock component promises its callers: on-hand changes only      *)
(* together with movements that explain it, all the rows of a request at    *)
(* once, and never below zero. It says nothing of locks or transactions.    *)
EXTENDS Integers

CONSTANT Rows            \* the InventoryItem rows, one per product and location

VARIABLES onHand,        \* InventoryItem.quantityOnHand
          ledger         \* sum of StockMovement.qtyDelta of the row

vars == <<onHand, ledger>>

Init == /\ onHand \in [Rows -> Nat]
        /\ ledger = onHand

(* A request takes effect: any rows change, each by what it posts. *)
Post == /\ onHand' \in [Rows -> Nat]
        /\ ledger' \in [Rows -> Int]
        /\ \A r \in Rows : onHand'[r] - onHand[r] = ledger'[r] - ledger[r]

Next == Post

Spec == Init /\ [][Next]_vars
=============================================================================
