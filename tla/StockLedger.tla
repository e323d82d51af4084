---------------------------- MODULE StockLedger ----------------------------
(* Every request that changes stock, as the database sees it: a READ        *)
(* COMMITTED transaction that locks inventory rows with SELECT ... FOR      *)
(* UPDATE, loads each row, writes an absolute on-hand and a movement, and   *)
(* commits or rolls back. Writes stay private to the transaction until it   *)
(* commits; locks are held until it ends.                                   *)
EXTENDS Integers, Sequences, FiniteSets, FiniteSetsExt, Functions

CONSTANTS Products,      \* product ids, ordered as strings are in the code
          Locations,
          DefaultLoc,    \* the location sales deduct from
          Quarantine,
          Requests,      \* request instances, each runs one transaction
          None,          \* no request
          Ops,           \* the operations a run enables
          Qty,           \* line quantities
          MaxLines,      \* bound on the lines of a document
          OpeningStock   \* the opening on-hand of a row, one of these

ASSUME ProductsAssumption == Products \subseteq Nat /\ IsFiniteSet(Products)
ASSUME LocationsAssumption == /\ IsFiniteSet(Locations)
                              /\ DefaultLoc \in Locations /\ Quarantine \in Locations
ASSUME NoneAssumption == None \notin Requests
ASSUME QtyAssumption == Qty \subseteq Nat \ {0}
ASSUME MaxLinesAssumption == MaxLines \in Nat
ASSUME OpeningAssumption == OpeningStock \subseteq Nat

Rows == Products \X Locations

VARIABLES onHand,        \* InventoryItem.quantityOnHand, committed
          ledger,        \* sum of the committed movements' qtyDelta
          lastAfter,     \* afterOnHand of the newest committed movement
          chained,       \* has every movement's beforeOnHand been the previous afterOnHand
          owner,         \* which request holds the row lock
          pc,            \* "new", "running" or "done"
          op,            \* the operation a running request performs
          want,          \* rows it must lock before its next line
          lines,         \* document lines still to be applied
          touched,       \* rows it has written
          draft          \* its uncommitted writes, meaningful on touched rows

stockVars == <<onHand, ledger, lastAfter, chained>>
vars == <<onHand, ledger, lastAfter, chained, owner, pc, op, want, lines, touched, draft>>

NoDraft == [r \in Rows |-> [before |-> 0, after |-> 0, delta |-> 0]]

OpNames == {"checkout", "restock", "receiveGoods", "adjustStock", "writeOff",
            "returnToStock", "quarantine", "sendTransfer", "receiveTransfer",
            "goodsReceipt", "supplierReturn", "postCount"}

(* Operations that lock the rows of all their lines before the first load;  *)
(* the others lock line by line.                                            *)
LockFirst == {"checkout", "restock", "sendTransfer", "postCount"}

Line == [row : Rows, how : {"add", "set"}, qty : Int]

TypeOK == /\ onHand \in [Rows -> Nat]
          /\ ledger \in [Rows -> Int]
          /\ lastAfter \in [Rows -> Nat]
          /\ chained \in [Rows -> BOOLEAN]
          /\ owner \in [Rows -> Requests \cup {None}]
          /\ pc \in [Requests -> {"new", "running", "done"}]
          /\ op \in [Requests -> OpNames \cup {"none"}]
          /\ want \in [Requests -> SUBSET Rows]
          /\ lines \in [Requests -> Seq(Line)]
          /\ touched \in [Requests -> SUBSET Rows]
          /\ draft \in [Requests -> [Rows -> [before : Nat, after : Nat, delta : Int]]]

Init == /\ onHand \in [Rows -> OpeningStock]
        /\ ledger = onHand
        /\ lastAfter = onHand
        /\ chained = [r \in Rows |-> TRUE]
        /\ owner = [r \in Rows |-> None]
        /\ pc = [w \in Requests |-> "new"]
        /\ op = [w \in Requests |-> "none"]
        /\ want = [w \in Requests |-> {}]
        /\ lines = [w \in Requests |-> << >>]
        /\ touched = [w \in Requests |-> {}]
        /\ draft = [w \in Requests |-> NoDraft]

-----------------------------------------------------------------------------
(* The start of each operation: which lines it will apply. *)

In(loc)  == { [row |-> <<p, loc>>, how |-> "add", qty |-> q]  : p \in Products, q \in Qty }
Out(loc) == { [row |-> <<p, loc>>, how |-> "add", qty |-> -q] : p \in Products, q \in Qty }
Counted(loc) == { [row |-> <<p, loc>>, how |-> "set", qty |-> q] : p \in Products, q \in Qty \cup {0} }

Documents(S) == UNION { [1..n -> S] : n \in 1..MaxLines }

(* Rows a transaction locks before it can go on with the lines ls. *)
LocksFor(o, ls) == IF o \in LockFirst THEN { ls[i].row : i \in DOMAIN ls }
                                      ELSE { ls[i].row : i \in DOMAIN ls \cap {1} }

Begin(w, o, ls) == /\ pc[w] = "new"
                   /\ o \in Ops
                   /\ pc' = [pc EXCEPT ![w] = "running"]
                   /\ op' = [op EXCEPT ![w] = o]
                   /\ lines' = [lines EXCEPT ![w] = ls]
                   /\ want' = [want EXCEPT ![w] = LocksFor(o, ls)]
                   /\ UNCHANGED <<stockVars, owner, touched, draft>>

Checkout(w) == \E ls \in Documents(Out(DefaultLoc)) : Begin(w, "checkout", ls)

(* voidSale and returnSale: back to the default location or to quarantine *)
Restock(w) == \E loc \in {DefaultLoc, Quarantine} :
                \E ls \in Documents(In(loc)) : Begin(w, "restock", ls)

ReceiveGoods(w) == \E loc \in Locations : \E l \in In(loc) : Begin(w, "receiveGoods", <<l>>)

AdjustStock(w) == \E loc \in Locations :
                    \E l \in In(loc) \cup Out(loc) : Begin(w, "adjustStock", <<l>>)

WriteOff(w) == \E loc \in Locations : \E l \in Out(loc) : Begin(w, "writeOff", <<l>>)

ReturnToStock(w) == \E l \in In(DefaultLoc) : Begin(w, "returnToStock", <<l>>)

MoveToQuarantine(w) ==
  \E loc \in Locations \ {Quarantine}, p \in Products, q \in Qty :
    Begin(w, "quarantine", <<[row |-> <<p, loc>>, how |-> "add", qty |-> -q],
                             [row |-> <<p, Quarantine>>, how |-> "add", qty |-> q]>>)

SendTransfer(w) == \E loc \in Locations :
                     \E ls \in Documents(Out(loc)) : Begin(w, "sendTransfer", ls)

ReceiveTransfer(w) == \E loc \in Locations :
                        \E ls \in Documents(In(loc)) : Begin(w, "receiveTransfer", ls)

GoodsReceipt(w) == \E ls \in Documents(UNION { In(loc) : loc \in Locations }) :
                     Begin(w, "goodsReceipt", ls)

SupplierReturn(w) == \E ls \in Documents(UNION { Out(loc) : loc \in Locations }) :
                       Begin(w, "supplierReturn", ls)

(* @@unique([countId, productId]): a count has one line per product *)
PostCount(w) == \E loc \in Locations :
                  \E ls \in Documents(Counted(loc)) :
                    /\ IsInjective([i \in DOMAIN ls |-> ls[i].row])
                    /\ Begin(w, "postCount", ls)

-----------------------------------------------------------------------------
(* Inside the transaction. *)

NextRowInCartOrder(w) ==      \* mutant: the ids are not sorted
  lines[w][Min({ i \in DOMAIN lines[w] : lines[w][i].row \in want[w] })].row

(* lockInventoryRows takes the rows in the order of their product ids. *)
NextRow(w) == CHOOSE r \in want[w] : \A s \in want[w] : r[1] <= s[1]

Free(r) == owner[r] = None

LockRowUnguarded(w) ==        \* mutant: SELECT without FOR UPDATE
  /\ pc[w] = "running"
  /\ want[w] # {}
  /\ want' = [want EXCEPT ![w] = @ \ {NextRow(w)}]
  /\ UNCHANGED <<stockVars, owner, pc, op, lines, touched, draft>>

LockRow(w) ==
  /\ pc[w] = "running"
  /\ want[w] # {}
  /\ LET r == NextRow(w)
     IN  /\ Free(r)
         /\ owner' = [owner EXCEPT ![r] = w]
         /\ want' = [want EXCEPT ![w] = @ \ {r}]
  /\ UNCHANGED <<stockVars, pc, op, lines, touched, draft>>

(* READ COMMITTED: a transaction reads its own writes, else committed data. *)
Seen(w, r) == IF r \in touched[w] THEN draft[w][r].after ELSE onHand[r]

Delta(w, l) == IF l.how = "add" THEN l.qty ELSE l.qty - Seen(w, l.row)

Ready(w) == pc[w] = "running" /\ want[w] = {}

(* A further write of the same transaction to the same row adds a movement  *)
(* that starts where its previous one ended.                                *)
Drafted(w, l) ==
  LET b == IF l.row \in touched[w] THEN draft[w][l.row].before ELSE onHand[l.row]
      d == IF l.row \in touched[w] THEN draft[w][l.row].delta ELSE 0
  IN  [before |-> b, after |-> Seen(w, l.row) + Delta(w, l), delta |-> d + Delta(w, l)]

Advance(w) == /\ lines' = [lines EXCEPT ![w] = Tail(@)]
              /\ want' = [want EXCEPT ![w] =
                            { r \in LocksFor(op[w], Tail(lines[w])) : owner[r] # w }]

ApplyLine(w) ==
  /\ Ready(w)
  /\ lines[w] # << >>
  /\ LET l == Head(lines[w])
     IN  /\ Seen(w, l.row) + Delta(w, l) >= 0
         /\ IF l.how = "set" /\ Delta(w, l) = 0       \* an exact count posts nothing
            THEN UNCHANGED <<touched, draft>>
            ELSE /\ touched' = [touched EXCEPT ![w] = @ \cup {l.row}]
                 /\ draft' = [draft EXCEPT ![w][l.row] = Drafted(w, l)]
  /\ Advance(w)
  /\ UNCHANGED <<stockVars, owner, pc, op>>

(* The transaction is over: its locks are released. *)
End(w) == /\ pc' = [pc EXCEPT ![w] = "done"]
          /\ op' = [op EXCEPT ![w] = "none"]
          /\ want' = [want EXCEPT ![w] = {}]
          /\ lines' = [lines EXCEPT ![w] = << >>]
          /\ touched' = [touched EXCEPT ![w] = {}]
          /\ draft' = [draft EXCEPT ![w] = NoDraft]
          /\ owner' = [r \in Rows |-> IF owner[r] = w THEN None ELSE owner[r]]

Commit(w) ==
  /\ Ready(w)
  /\ lines[w] = << >>
  /\ onHand' = [r \in Rows |-> IF r \in touched[w] THEN draft[w][r].after ELSE onHand[r]]
  /\ ledger' = [r \in Rows |-> IF r \in touched[w] THEN ledger[r] + draft[w][r].delta ELSE ledger[r]]
  /\ lastAfter' = [r \in Rows |-> IF r \in touched[w] THEN draft[w][r].after ELSE lastAfter[r]]
  /\ chained' = [r \in Rows |-> IF r \in touched[w]
                                THEN chained[r] /\ lastAfter[r] = draft[w][r].before
                                ELSE chained[r]]
  /\ End(w)

RefuseByWaiting(w) ==         \* mutant: wait for stock with the transaction open
  Ready(w) /\ lines[w] # << >> /\ UNCHANGED vars

(* "Not enough stock", "Adjustment would make quantity negative", ... *)
Refuse(w) == /\ Ready(w)
             /\ lines[w] # << >>
             /\ LET l == Head(lines[w]) IN Seen(w, l.row) + Delta(w, l) < 0
             /\ End(w)
             /\ UNCHANGED stockVars

(* Any other failure: a later check, the transaction timeout, a crash. *)
Rollback(w) == pc[w] = "running" /\ End(w) /\ UNCHANGED stockVars

-----------------------------------------------------------------------------
(* Waiting. *)

Blocked(w) == pc[w] = "running" /\ want[w] # {} /\ ~Free(NextRow(w))
WaitsFor(w) == owner[NextRow(w)]

(* Every member of S waits for a member of S. *)
Deadlocked(S) == S # {} /\ \A w \in S : Blocked(w) /\ WaitsFor(w) \in S

(* PostgreSQL aborts one transaction of a wait cycle. *)
DeadlockVictim(w) == /\ \E S \in SUBSET Requests : w \in S /\ Deadlocked(S)
                     /\ End(w)
                     /\ UNCHANGED stockVars

-----------------------------------------------------------------------------
Start(w) == \/ Checkout(w)
            \/ Restock(w)
            \/ ReceiveGoods(w)
            \/ AdjustStock(w)
            \/ WriteOff(w)
            \/ ReturnToStock(w)
            \/ MoveToQuarantine(w)
            \/ SendTransfer(w)
            \/ ReceiveTransfer(w)
            \/ GoodsReceipt(w)
            \/ SupplierReturn(w)
            \/ PostCount(w)

(* What the server and the database do without being asked again. *)
Proceed(w) == ApplyLine(w) \/ Commit(w) \/ Refuse(w) \/ DeadlockVictim(w)

Next == \E w \in Requests : Start(w) \/ LockRow(w) \/ Proceed(w) \/ Rollback(w)

Spec == Init /\ [][Next]_vars

(* The server keeps executing a transaction it has begun; a lock that is    *)
(* released again and again is granted in the end, since PostgreSQL queues  *)
(* the waiters of a row. Nothing obliges a client to start a request.       *)
Fairness == \A w \in Requests : WF_vars(Proceed(w)) /\ SF_vars(LockRow(w))

FairSpec == Spec /\ Fairness

-----------------------------------------------------------------------------
(* No stock appears or disappears without a movement: the drift reported by *)
(* reconcileStock (reconciliation.ts:130) is zero after every commit, even  *)
(* though each writer stores an absolute on-hand it computed earlier.       *)
NoDrift == \A r \in Rows : ledger[r] = onHand[r]

(* No lost update on a row: each movement's beforeOnHand is the afterOnHand *)
(* of the movement before it (chainBreaks, reconciliation.ts:76-85), and    *)
(* the newest afterOnHand is the stored quantity.                           *)
ChainIntact == \A r \in Rows : chained[r] /\ lastAfter[r] = onHand[r]

(* stock.util.ts:67-68: rows are locked "in a stable order so two carts     *)
(* containing the same products can never deadlock each other".             *)
CartsNeverDeadlock ==
  \A S \in SUBSET { w \in Requests : op[w] = "checkout" } : ~Deadlocked(S)

Total(f, p) == SumFunctionOnSet([loc \in Locations |-> f[<<p, loc>>]], Locations)

(* moveToQuarantine relocates units: neither half of it is ever visible     *)
(* without the other, whatever else is running.                             *)
QuarantineConserves ==
  [][\A w \in Requests : op[w] = "quarantine" /\ Commit(w)
       => \A p \in Products : Total(onHand', p) = Total(onHand, p)]_vars

(* A request that has begun ends: it commits, is refused, fails or is the   *)
(* victim of a deadlock, and never waits for a row for ever.                *)
EveryRequestEnds == \A w \in Requests : pc[w] = "running" ~> pc[w] = "done"

(* The locking protocol implements the atomic specification of stock. *)
Atomic == INSTANCE AtomicStock WITH Rows <- Rows, onHand <- onHand, ledger <- ledger
ImplementsAtomicStock == Atomic!Spec
=============================================================================
