---------------------------- MODULE Reservations ---------------------------
(* Holds on the stock of one product at the selling location: made, edited, *)
(* cancelled, sold and expired by concurrent requests and the cron sweep.   *)
(* Some of these decide under the inventory row lock; cancelling and        *)
(* editing decide on values read before their transaction, without it.      *)
EXTENDS Integers, FiniteSets, Functions

CONSTANTS Ids,           \* reservation ids
          Requests,      \* request instances, each runs once
          Sweeper,       \* the cron job
          None,          \* nobody
          Kinds,         \* the requests a run enables
          Qty,           \* quantities a client may ask for
          MaxCartLines,  \* bound on the reservation lines of one cart
          Opening        \* opening on-hand

ASSUME ProcessesAssumption == None \notin Requests \cup {Sweeper} /\ Sweeper \notin Requests
ASSUME QuantitiesAssumption == Qty \subseteq Nat \ {0} /\ Opening \in Nat /\ MaxCartLines \in Nat
ASSUME IdsAssumption == IsFiniteSet(Ids)

Processes == Requests \cup {Sweeper}

VARIABLES onHand,        \* InventoryItem.quantityOnHand
          res,           \* the Reservation rows; due is "expiresAt has passed"
          owner,         \* holder of the inventory row lock
          pc,            \* "new", "read", "locked", "loaded" or "done"
          req,           \* what each request was asked and has read
          sweep,         \* the reservation the sweep is about to expire
          fulfilled,     \* history: the requests whose sale took each reservation
          cause          \* history: what may have left a hold unbacked: "edit", "overdue", "shelf", "twice"

vars == <<onHand, res, owner, pc, req, sweep, fulfilled, cause>>

AbsentRow == [status |-> "absent", qty |-> 0, timed |-> FALSE, due |-> FALSE]

NoReq == [kind |-> "none"]

(* A cart: the lines that name each reservation, the quantity on each such  *)
(* line (one for all of them), and the units asked for without any.         *)
Carts == [lines : { f \in [Ids -> 0..MaxCartLines] : SumFunction(f) \in 1..MaxCartLines },
          qty : Qty, free : Qty \cup {0}]
         \cup [lines : {[i \in Ids |-> 0]}, qty : {0}, free : Qty]

(* Holds made earlier, all of them backed by stock. *)
OpenRows == [status : {"RESERVED"}, qty : Qty, timed : BOOLEAN, due : {FALSE}]

HeldBy(rows) == SumFunctionOnSet([i \in Ids |-> rows[i].qty], Ids)

Init == /\ onHand = Opening
        /\ res \in { rows \in [Ids -> OpenRows \cup {AbsentRow}] : HeldBy(rows) <= Opening }
        /\ owner = None
        /\ pc = [p \in Processes |-> "new"]
        /\ req = [w \in Requests |-> NoReq]
        /\ sweep = None
        /\ fulfilled = [i \in Ids |-> {}]
        /\ cause = {}

-----------------------------------------------------------------------------
(* getReservedQty: active holds; one past its expiry stops counting at once. *)
Active(i) == res[i].status = "RESERVED" /\ ~res[i].due

Reserved == SumFunctionOnSet([i \in Ids |-> res[i].qty], { i \in Ids : Active(i) })

Available == onHand - Reserved

-----------------------------------------------------------------------------
(* The row lock. *)
Lock(p) == /\ owner = None
           /\ owner' = p
           /\ pc' = [pc EXCEPT ![p] = "locked"]

Release(p) == owner' = IF owner = p THEN None ELSE owner

Finish(w) == /\ pc' = [pc EXCEPT ![w] = "done"]
             /\ req' = [req EXCEPT ![w] = NoReq]
             /\ Release(w)

Is(w, kind) == req[w].kind = kind

-----------------------------------------------------------------------------
(* Requests that read nothing before they hold the row lock: from the lock  *)
(* on, they are in the transaction.                                         *)

Ask(w, d) == /\ pc[w] = "new"
             /\ d.kind \in Kinds
             /\ req' = [req EXCEPT ![w] = d]
             /\ UNCHANGED <<onHand, res, sweep, fulfilled, cause>>

AskAndLock(w, d) == Ask(w, d) /\ Lock(w)

AskCreate(w) == \E q \in Qty, timed \in BOOLEAN :
                  AskAndLock(w, [kind |-> "create", qty |-> q, timed |-> timed])

(* completeAsSale is a checkout of one reservation line *)
AskCheckout(w) == \E c \in Carts : AskAndLock(w, [kind |-> "checkout", cart |-> c])

(* adjustStock, writeOff, transfers, ...: they do not look at reservations *)
AskShelf(w) == \E q \in Qty : \E d \in {q, -q} : AskAndLock(w, [kind |-> "shelf", delta |-> d])

CartIds(c) == { i \in Ids : c.lines[i] > 0 }

Units(c) == c.free + c.qty * SumFunction(c.lines)

CreateAllowedByOnHand(w) == onHand >= req[w].qty     \* mutant: checks on-hand, not available

CreateAllowed(w) == Available >= req[w].qty

CheckoutAllowedAnyStatus(w) ==      \* mutant: a reservation's status is not checked
  LET c == req[w].cart
  IN  /\ \A i \in CartIds(c) : res[i].status # "absent" /\ res[i].qty = c.qty /\ onHand >= c.qty
      /\ c.free > 0 => Available >= c.free

(* Each demand is checked on its own, before anything is deducted. *)
CheckoutAllowed(w) ==
  LET c == req[w].cart
  IN  /\ \A i \in CartIds(c) : /\ res[i].status = "RESERVED"
                               /\ res[i].qty = c.qty
                               /\ onHand >= c.qty
      /\ c.free > 0 => Available >= c.free

ShelfAllowed(w) == onHand + req[w].delta >= 0

Allowed(w) == CASE Is(w, "create") -> CreateAllowed(w)
                [] Is(w, "checkout") -> CheckoutAllowed(w)
                [] Is(w, "shelf") -> ShelfAllowed(w)

Load(w) == /\ pc[w] = "locked"
           /\ Allowed(w)
           /\ pc' = [pc EXCEPT ![w] = "loaded"]
           /\ UNCHANGED <<onHand, res, owner, req, sweep, fulfilled, cause>>

Create(w) ==
  /\ pc[w] = "loaded" /\ Is(w, "create")
  /\ \E i \in Ids :
       /\ res[i].status = "absent"
       /\ res' = [res EXCEPT ![i] = [status |-> "RESERVED", qty |-> req[w].qty,
                                     timed |-> req[w].timed, due |-> FALSE]]
  /\ Finish(w)
  /\ UNCHANGED <<onHand, sweep, fulfilled, cause>>

(* The deduction is guarded again (quantityOnHand >= quantity); the status  *)
(* of a sold reservation is written without looking at it again.            *)
Sell(w) ==
  /\ pc[w] = "loaded" /\ Is(w, "checkout")
  /\ LET c == req[w].cart
         sold == CartIds(c)
     IN  /\ onHand >= Units(c)
         /\ onHand' = onHand - Units(c)
         /\ res' = [i \in Ids |-> IF i \in sold THEN [res[i] EXCEPT !.status = "COMPLETED"]
                                                ELSE res[i]]
         /\ fulfilled' = [i \in Ids |-> IF i \in sold THEN fulfilled[i] \cup {w}
                                                      ELSE fulfilled[i]]
         /\ cause' = cause \cup (IF \E i \in sold : res[i].due THEN {"overdue"} ELSE {})
                           \cup (IF \E i \in sold : c.lines[i] > 1 THEN {"twice"} ELSE {})
  /\ Finish(w)
  /\ UNCHANGED sweep

MoveShelf(w) ==
  /\ pc[w] = "loaded" /\ Is(w, "shelf")
  /\ onHand' = onHand + req[w].delta
  /\ cause' = cause \cup (IF req[w].delta < 0 THEN {"shelf"} ELSE {})
  /\ Finish(w)
  /\ UNCHANGED <<res, sweep, fulfilled>>

-----------------------------------------------------------------------------
(* Requests that read first and write later, without the lock. *)

GoOn(w) == pc' = [pc EXCEPT ![w] = "read"] /\ UNCHANGED owner

ReadForCancel(w) ==
  /\ \E i \in Ids : /\ res[i].status = "RESERVED"
                    /\ Ask(w, [kind |-> "cancel", id |-> i])
  /\ GoOn(w)

ReadForUpdate(w) ==
  /\ \E i \in Ids, q \in Qty :
       /\ res[i].status = "RESERVED"
       /\ q <= onHand                  \* on-hand, not what is available
       /\ q # res[i].qty
       /\ Ask(w, [kind |-> "update", id |-> i, qty |-> q])
  /\ GoOn(w)

Cancel(w) ==
  /\ pc[w] = "read" /\ Is(w, "cancel")
  /\ res' = [res EXCEPT ![req[w].id].status = "CANCELLED"]
  /\ Finish(w)
  /\ UNCHANGED <<onHand, sweep, fulfilled, cause>>

Update(w) ==
  /\ pc[w] = "read" /\ Is(w, "update")
  /\ res' = [res EXCEPT ![req[w].id].qty = req[w].qty]
  /\ cause' = cause \cup (IF req[w].qty > res[req[w].id].qty THEN {"edit"} ELSE {})
  /\ Finish(w)
  /\ UNCHANGED <<onHand, sweep, fulfilled>>

(* A check fails under the lock, the client's connection or the server does *)
Fail(w) == /\ pc[w] \in {"read", "locked", "loaded"}
           /\ Finish(w)
           /\ UNCHANGED <<onHand, res, sweep, fulfilled, cause>>

-----------------------------------------------------------------------------
(* Time, and the sweep: one transaction per due reservation, whose status   *)
(* is read before the row lock is asked for.                                *)

FallDue(i) == /\ res[i].timed /\ ~res[i].due
              /\ res' = [res EXCEPT ![i].due = TRUE]
              /\ UNCHANGED <<onHand, owner, pc, req, sweep, fulfilled, cause>>

SweepPick == /\ pc[Sweeper] = "new"
             /\ \E i \in Ids : /\ res[i].status = "RESERVED" /\ res[i].due
                               /\ sweep' = i
             /\ pc' = [pc EXCEPT ![Sweeper] = "read"]
             /\ UNCHANGED <<onHand, res, owner, req, fulfilled, cause>>

SweepLock == /\ pc[Sweeper] = "read"
             /\ Lock(Sweeper)
             /\ UNCHANGED <<onHand, res, req, sweep, fulfilled, cause>>

SweepEnd == /\ pc' = [pc EXCEPT ![Sweeper] = "new"]
            /\ sweep' = None
            /\ Release(Sweeper)
            /\ UNCHANGED <<onHand, req, fulfilled, cause>>

SweepWriteReleaseOnly ==       \* mutant: the movement is written, the status is not
  pc[Sweeper] = "locked" /\ SweepEnd /\ UNCHANGED res

SweepWrite == /\ pc[Sweeper] = "locked"
              /\ res' = [res EXCEPT ![sweep].status = "EXPIRED"]
              /\ SweepEnd

(* The transaction fails; the rest of this sweep is given up and the next   *)
(* run, 15 minutes later, starts over.                                      *)
SweepFail == pc[Sweeper] \in {"read", "locked"} /\ SweepEnd /\ UNCHANGED res

-----------------------------------------------------------------------------
Begin(w) == AskCreate(w) \/ AskCheckout(w) \/ AskShelf(w) \/ ReadForCancel(w) \/ ReadForUpdate(w)

Proceed(w) == Load(w) \/ Create(w) \/ Sell(w) \/ MoveShelf(w)
              \/ Cancel(w) \/ Update(w) \/ Fail(w)

Sweeping == SweepPick \/ SweepLock \/ SweepWrite \/ SweepFail

Next == \/ \E w \in Requests : Begin(w) \/ Proceed(w)
        \/ \E i \in Ids : FallDue(i)
        \/ Sweeping

Spec == Init /\ [][Next]_vars

(* Requests that began end. The cron job runs again and again, gets the     *)
(* lock in the end (PostgreSQL queues waiters), and does not fail for ever. *)
Fairness == /\ \A w \in Requests : WF_vars(Proceed(w))
            /\ WF_vars(SweepPick)
            /\ SF_vars(SweepLock)
            /\ SF_vars(SweepWrite)

FairSpec == Spec /\ Fairness

-----------------------------------------------------------------------------
(* Active reservations never hold more than is on hand, unless one of the   *)
(* known causes has happened: an edit raised a hold, an overdue reservation *)
(* was sold before the sweep, a correction took stock off the shelf, or a   *)
(* cart named a reservation twice. Everything else, in any interleaving of  *)
(* creates, sales, cancellations and sweeps, keeps the holds backed         *)
(* (overReserved, reconciliation.ts:34).                                    *)
HoldsBackedUnlessCaused == cause = {} => Reserved <= onHand

(* A reservation becomes a sale exactly once, whoever completes, cancels,   *)
(* edits or expires it at the same time.                                    *)
FulfilledOnce == \A i \in Ids : Cardinality(fulfilled[i]) <= 1

(* A hold whose time is up does not stay RESERVED for ever. *)
OverdueIsSwept ==
  \A i \in Ids : (res[i].status = "RESERVED" /\ res[i].due) ~> res[i].status # "RESERVED"
=============================================================================
