----------------------------- MODULE SaleReturns ----------------------------
(* What happens to one sale after checkout: it is voided, or lines of it are *)
(* returned, against cash or the customer's store credit, which checkouts    *)
(* spend. Void and return decide on the sale as they read it before their    *)
(* transaction. Every line is a product of its own and a unit costs 1.       *)
EXTENDS Integers, FiniteSets, FiniteSetsExt, Functions

CONSTANTS Requests,      \* request instances, each runs once
          None,          \* no request
          Lines,         \* the lines of the sale
          Quantity,      \* SaleLine.quantity
          MaxTimes,      \* bound on how often one return names one line
          MaxDay,        \* bound on business days
          OpeningCredit  \* opening store credit

ASSUME RequestsAssumption == None \notin Requests /\ IsFiniteSet(Requests)
ASSUME LinesAssumption == IsFiniteSet(Lines) /\ Quantity \in [Lines -> Nat \ {0}]
ASSUME BoundsAssumption == MaxTimes \in Nat \ {0} /\ MaxDay \in Nat \ {0} /\ OpeningCredit \in Nat

VARIABLES status,        \* Sale.status
          notes,         \* credit notes, by the request that wrote them; NoNote for none
          credit,        \* Customer.storeCreditBalance
          redeemed,      \* sum of the STORE_CREDIT_REDEEM entries
          owner,         \* which request holds each lock
          day,           \* business date
          pc, req,       \* where a request is; what it was asked and has read
          changes,       \* history: how often the sale has been voided or returned
          stale          \* history: has a void or return been decided on an outdated sale

vars == <<status, notes, credit, redeemed, owner, day, pc, req, changes, stale>>

Days == 1..MaxDay

Destinations == {"main", "quarantine"}        \* getDefault(), getQuarantine()

Resources == ({"row"} \X Lines \X Destinations)        \* inventory rows
             \cup ({"counter"} \X Days)                \* DocumentCounter CREDIT
             \cup {<<"customer">>}                     \* the customer row

(* The lines a return names: each some number of times, with a quantity (a   *)
(* greater one than was sold is always refused).                            *)
Asks == { ask \in [Lines -> [times : 0..MaxTimes, qty : 0..Max(Range(Quantity))]] :
            \A l \in Lines : ask[l].qty <= Quantity[l] /\ (ask[l].qty = 0 <=> ask[l].times = 0) }

Everything == [l \in Lines |-> [times |-> 1, qty |-> Quantity[l]]]

Nothing == [l \in Lines |-> [times |-> 0, qty |-> 0]]

NoReq == [kind |-> "none", ask |-> Nothing, to |-> "main", store |-> FALSE, amount |-> 0, day |-> 1,
          already |-> [l \in Lines |-> 0], seen |-> 0, balance |-> 0, status |-> "COMPLETED"]

NoNote == [kind |-> "none", ask |-> Nothing, store |-> FALSE, day |-> 1]

Init == /\ status = "COMPLETED"
        /\ notes = [r \in Requests |-> NoNote]
        /\ credit = OpeningCredit
        /\ redeemed = 0
        /\ owner = [x \in Resources |-> None]
        /\ day = 1
        /\ pc = [r \in Requests |-> "new"]
        /\ req = [r \in Requests |-> NoReq]
        /\ changes = 0
        /\ stale = FALSE

-----------------------------------------------------------------------------
Units(ask, l) == ask[l].times * ask[l].qty

UnitsOf(ask) == SumFunctionOnSet([l \in Lines |-> Units(ask, l)], Lines)

(* Units of a line on the credit notes, void or return. *)
Credited(l) == SumFunctionOnSet([r \in Requests |-> Units(notes[r].ask, l)], Requests)

SaleVars == <<status, notes, changes, stale>>
CreditVars == <<credit, redeemed>>

-----------------------------------------------------------------------------
(* Read before the transaction. *)

Start(r, q) == /\ pc[r] = "new"
               /\ req' = [req EXCEPT ![r] = q]
               /\ pc' = [pc EXCEPT ![r] = "read"]
               /\ UNCHANGED <<SaleVars, CreditVars, owner, day>>

AsRead == [NoReq EXCEPT !.day = day, !.seen = changes, !.already = [l \in Lines |-> Credited(l)]]

VoidSale(r) ==
  /\ status = "COMPLETED"
  /\ Start(r, [AsRead EXCEPT !.kind = "void", !.ask = Everything])

ReturnSale(r) ==
  LET read == AsRead
  IN  /\ pc[r] = "new"
      /\ status \notin {"VOIDED", "REFUNDED"}
      /\ \E ask \in Asks \ {Nothing}, to \in Destinations, store \in BOOLEAN :
           Start(r, [read EXCEPT !.kind = "return", !.ask = ask, !.to = to, !.store = store])

(* A checkout that pays with store credit; it locks its product's row first. *)
RedeemAtPOS(r) ==
  \E l \in Lines, n \in 1..OpeningCredit :
    Start(r, [NoReq EXCEPT !.kind = "redeem", !.amount = n,
                           !.ask = [Nothing EXCEPT ![l] = [times |-> 1, qty |-> 1]]])

-----------------------------------------------------------------------------
(* The transaction. Locks are held to its end. *)

Is(r, kind) == req[r].kind = kind

Lock(r, S) == /\ \A x \in S : owner[x] = None
              /\ owner' = [x \in Resources |-> IF x \in S THEN r ELSE owner[x]]

GoTo(r, p) == pc' = [pc EXCEPT ![r] = p]

RowsOf(r) == { <<"row", l, req[r].to>> : l \in { m \in Lines : req[r].ask[m].times > 0 } }

LockRowsAfterCustomer(r) ==   \* mutant: a checkout locks its customer before the rows
  /\ pc[r] = "read"
  /\ IF Is(r, "redeem") /\ owner[<<"customer">>] # r
     THEN Lock(r, {<<"customer">>}) /\ UNCHANGED pc
     ELSE Lock(r, RowsOf(r)) /\ GoTo(r, "locked")
  /\ UNCHANGED <<SaleVars, CreditVars, day, req>>

(* lockInventoryRows, row by row in StockLedger. *)
LockRows(r) == /\ pc[r] = "read"
               /\ Lock(r, RowsOf(r))
               /\ GoTo(r, "locked")
               /\ UNCHANGED <<SaleVars, CreditVars, day, req>>

ReturnWithinLine(r) ==        \* mutant: earlier returns are not subtracted
  \A l \in Lines : req[r].ask[l].qty <= Quantity[l]

(* "Cannot return more than remaining quantity": each line of the request   *)
(* against the credit lines read with the sale.                             *)
ReturnAllowed(r) == \A l \in Lines : req[r].ask[l].qty <= Quantity[l] - req[r].already[l]

(* Restock, then the next number of the day the request was read on. *)
DrawNumberUnlocked(r) ==      \* mutant: the counter row is not held until the commit
  /\ pc[r] = "locked" /\ ~Is(r, "redeem")
  /\ Is(r, "return") => ReturnAllowed(r)
  /\ GoTo(r, "numbered")
  /\ UNCHANGED <<SaleVars, CreditVars, owner, day, req>>

DrawNumber(r) ==
  /\ pc[r] = "locked" /\ ~Is(r, "redeem")
  /\ Is(r, "return") => ReturnAllowed(r)
  /\ Lock(r, {<<"counter", req[r].day>>})
  /\ GoTo(r, "numbered")
  /\ UNCHANGED <<SaleVars, CreditVars, day, req>>

NeedsCustomer(r) == \/ pc[r] = "numbered" /\ req[r].store
                    \/ pc[r] = "locked" /\ Is(r, "redeem")

ReadCustomer(r) ==            \* mutant: SELECT without FOR UPDATE
  /\ NeedsCustomer(r)
  /\ req' = [req EXCEPT ![r].balance = credit]
  /\ GoTo(r, "credited")
  /\ UNCHANGED <<SaleVars, CreditVars, owner, day>>

LockCustomer(r) ==
  /\ NeedsCustomer(r)
  /\ Lock(r, {<<"customer">>})
  /\ req' = [req EXCEPT ![r].balance = credit]
  /\ GoTo(r, "credited")
  /\ UNCHANGED <<SaleVars, CreditVars, day>>

(* The status a return will write, from the committed credit lines and its  *)
(* own.                                                                     *)
StatusAfter(r) == IF \A l \in Lines : Credited(l) + Units(req[r].ask, l) >= Quantity[l]
                  THEN "REFUNDED" ELSE "PARTIALLY_REFUNDED"

Recompute(r) ==
  /\ Is(r, "return")
  /\ pc[r] = IF req[r].store THEN "credited" ELSE "numbered"
  /\ req' = [req EXCEPT ![r].status = StatusAfter(r)]
  /\ GoTo(r, "recomputed")
  /\ UNCHANGED <<SaleVars, CreditVars, owner, day>>

End(r) == /\ GoTo(r, "done")
          /\ req' = [req EXCEPT ![r] = NoReq]
          /\ owner' = [x \in Resources |-> IF owner[x] = r THEN None ELSE owner[x]]
          /\ UNCHANGED day

(* The credit note and the status, which is written unconditionally. *)
Settle(r, s) ==
  /\ status' = s
  /\ notes' = [notes EXCEPT ![r] = [kind |-> req[r].kind, ask |-> req[r].ask,
                                    store |-> req[r].store, day |-> req[r].day]]
  /\ changes' = changes + 1
  /\ stale' = (stale \/ req[r].seen # changes)

CommitVoid(r) == /\ Is(r, "void") /\ pc[r] = "numbered"
                 /\ Settle(r, "VOIDED")
                 /\ End(r)
                 /\ UNCHANGED CreditVars

CommitReturn(r) ==
  /\ Is(r, "return") /\ pc[r] = "recomputed"
  /\ Settle(r, req[r].status)
  /\ credit' = IF req[r].store THEN req[r].balance + UnitsOf(req[r].ask) ELSE credit
  /\ End(r)
  /\ UNCHANGED redeemed

CommitRedeem(r) ==
  /\ Is(r, "redeem") /\ pc[r] = "credited"
  /\ req[r].amount <= req[r].balance           \* "Insufficient store credit"
  /\ credit' = req[r].balance - req[r].amount
  /\ redeemed' = redeemed + req[r].amount
  /\ End(r)
  /\ UNCHANGED SaleVars

Refused(r) == \/ pc[r] = "locked" /\ Is(r, "return") /\ ~ReturnAllowed(r)
              \/ pc[r] = "credited" /\ Is(r, "redeem") /\ req[r].amount > req[r].balance

Refuse(r) == Refused(r) /\ End(r) /\ UNCHANGED <<SaleVars, CreditVars>>

(* Any other failure, the transaction timeout or a crash. *)
Rollback(r) == pc[r] \notin {"new", "done"} /\ End(r) /\ UNCHANGED <<SaleVars, CreditVars>>

Midnight == /\ day < MaxDay
            /\ day' = day + 1
            /\ UNCHANGED <<SaleVars, CreditVars, owner, pc, req>>

-----------------------------------------------------------------------------
Work(r) == Recompute(r) \/ CommitVoid(r) \/ CommitReturn(r) \/ CommitRedeem(r) \/ Refuse(r)

Next == \/ \E r \in Requests : \/ VoidSale(r) \/ ReturnSale(r) \/ RedeemAtPOS(r)
                               \/ LockRows(r) \/ DrawNumber(r) \/ LockCustomer(r)
                               \/ Work(r) \/ Rollback(r)
        \/ Midnight

Spec == Init /\ [][Next]_vars

-----------------------------------------------------------------------------
Repeated == \E r \in Requests, l \in Lines : notes[r].ask[l].times > 1

(* Nothing is given back twice: the credit notes of a sale never exceed its *)
(* lines, unless a void or return was decided on a sale that another one    *)
(* had changed meanwhile, or one return named a line twice.                 *)
CreditedOnceUnlessStale ==
  (~stale /\ ~Repeated) => \A l \in Lines : Credited(l) <= Quantity[l]

Noted == { r \in Requests : notes[r].kind # "none" }

(* The status tells what the credit notes say, although every return works  *)
(* it out before it commits: the CREDIT counter row, held to the commit,    *)
(* makes the returns of one day wait for each other. Two that straddle      *)
(* midnight use two counters and are excluded, and so are voided sales.     *)
StatusTellsReturns ==
  (\A r, t \in Noted : notes[r].kind = "return" /\ notes[r].day = notes[t].day)
    => status = CASE Noted = {} -> "COMPLETED"
                  [] Noted # {} /\ (\A l \in Lines : Credited(l) >= Quantity[l]) -> "REFUNDED"
                  [] OTHER -> "PARTIALLY_REFUNDED"

Issued == SumFunctionOnSet([r \in Requests |-> IF notes[r].store THEN UnitsOf(notes[r].ask) ELSE 0],
                           Requests)

(* No lost update on the store credit: the balance is what was issued less  *)
(* what was redeemed, whichever returns and checkouts overlap.              *)
StoreCreditExplained == credit = OpeningCredit + Issued - redeemed

(* What a request asks for next, and must wait for. *)
Wanted(r) == CASE pc[r] = "read" -> RowsOf(r)
               [] pc[r] = "locked" /\ ~Is(r, "redeem") -> {<<"counter", req[r].day>>}
               [] NeedsCustomer(r) -> {<<"customer">>}
               [] OTHER -> {}

WaitsFor(r, t) == \E x \in Wanted(r) : owner[x] = t

(* Inventory rows before the counter before the customer, in checkout, void *)
(* and return alike: no requests ever wait for each other in a circle.      *)
NoWaitCycle ==
  \A S \in (SUBSET Requests) \ {{}} : \E r \in S : \A t \in S : ~WaitsFor(r, t)
=============================================================================
