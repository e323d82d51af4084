------------------------------- MODULE Shifts -------------------------------
(* Shifts of the cash registers: opening, sales booked to them, cash put in  *)
(* and taken out, voids and returns, and closing, which adds up the cash     *)
(* that should be in the drawer before its transaction starts. Nothing here  *)
(* locks the shift. Approvals and denominations are left out.                *)
EXTENDS Integers, Sequences, FiniteSets, FiniteSetsExt, Functions

CONSTANTS Requests,      \* request instances, each runs once; a sale and a credit note are
                         \* named by the request that made them
          Shifts, Registers, Cashiers,
          None,          \* no register, no shift, no sale
          Amounts,       \* of sales and cash movements
          Float          \* Shift.openingFloat

ASSUME NoneAssumption == None \notin Registers \cup Requests \cup Shifts
ASSUME RequestsAssumption == IsFiniteSet(Requests)
ASSUME AmountsAssumption == Amounts \subseteq Nat \ {0} /\ Float \in Nat

VARIABLES shift,         \* Shift rows
          moved,         \* totals of the CashMovement rows of each shift
          sale,          \* Sale rows
          note,          \* CreditNote rows
          pc, req,       \* of each request: where it is, what it was asked and has read
          drawer,        \* history: the cash that is in the drawer of each shift
          cause          \* history: what may keep the expected cash of a shift from it:
                         \* "opens", "closes", "missed", "void"

vars == <<shift, moved, sale, note, pc, req, drawer, cause>>

Absent == [status |-> "absent", register |-> None, cashier |-> None, opened |-> 0,
           expected |-> 0, closes |-> 0]

NoSale == [shift |-> None, amount |-> 0, cash |-> FALSE, status |-> "absent"]

NoNote == [sale |-> None, amount |-> 0, cash |-> FALSE]

NoReq == [kind |-> "none"]

Parts == <<"sales", "in", "out", "refunds">>        \* aggregates, in the order they are read

(* One shift has been opened. *)
Init ==
  /\ \E s \in Shifts, r \in Registers, c \in Cashiers :
       shift = [t \in Shifts |-> IF t = s THEN [Absent EXCEPT !.status = "OPEN", !.register = r,
                                                              !.cashier = c, !.opened = 1]
                                          ELSE Absent]
  /\ drawer = [s \in Shifts |-> Float]
  /\ moved = [s \in Shifts |-> [in |-> 0, out |-> 0]]
  /\ sale = [w \in Requests |-> NoSale]
  /\ note = [w \in Requests |-> NoNote]
  /\ pc = [w \in Requests |-> "new"]
  /\ req = [w \in Requests |-> NoReq]
  /\ cause = [s \in Shifts |-> {}]

tills == <<shift, moved, drawer, cause>>
books == <<sale, note>>

-----------------------------------------------------------------------------
Is(w, kind) == req[w].kind = kind

(* A request reads, goes on, and ends with its commit or failure. *)
Ask(w, q) == /\ req' = [req EXCEPT ![w] = q]
             /\ pc' = [pc EXCEPT ![w] = IF q.kind = "close" THEN "adding" ELSE "read"]
             /\ UNCHANGED <<tills, books>>

End(w) == /\ pc' = [pc EXCEPT ![w] = "done"]
          /\ req' = [req EXCEPT ![w] = NoReq]

(* A close of shift s has already added up this part of its cash. *)
Missed(s, part) == \/ shift[s].status = "CLOSED"
                   \/ \E x \in Requests : /\ Is(x, "close") /\ req[x].shift = s
                                          /\ part \notin Range(req[x].left)

Blame(s, whys) == cause' = [cause EXCEPT ![s] = @ \cup whys]

If(b, why) == IF b THEN {why} ELSE {}

-----------------------------------------------------------------------------
(* openShift: the look for an open shift, then the insert.                   *)

Open(s) == shift[s].status = "OPEN"

OpenAt(r) == { s \in Shifts : Open(s) /\ shift[s].register = r }

ShiftsOf(r) == { s \in Shifts : shift[s].register = r }

Opened == { s \in Shifts : shift[s] # Absent }

ReadForOpenUnchecked(w) ==    \* mutant: an open shift of the register is not looked for
  \E r \in Registers, c \in Cashiers :
    Ask(w, [kind |-> "open", register |-> r, cashier |-> c, seen |-> ShiftsOf(r)])

ReadForOpen(w) ==
  \E r \in Registers, c \in Cashiers :
    /\ OpenAt(r) = {}
    /\ Ask(w, [kind |-> "open", register |-> r, cashier |-> c, seen |-> ShiftsOf(r)])

CreateShift(w) ==
  /\ pc[w] = "read" /\ Is(w, "open")
  /\ \E s \in Shifts \ Opened :
       /\ shift' = [shift EXCEPT ![s] = [Absent EXCEPT !.status = "OPEN",
                      !.register = req[w].register, !.cashier = req[w].cashier,
                      !.opened = Cardinality(Opened) + 1]]
       /\ Blame(s, If(ShiftsOf(req[w].register) # req[w].seen, "opens"))
  /\ End(w)
  /\ UNCHANGED <<moved, drawer, books>>

-----------------------------------------------------------------------------
(* Checkout: resolveShiftForCheckout before the transaction, the shift again *)
(* in it, the sale at its end. A shift is required.                          *)

(* The cashier's latest open shift, of one register if the client names one. *)
Mine(c, r) == { s \in Shifts : Open(s) /\ shift[s].cashier = c /\ r \in {None, shift[s].register} }

Resolve(w) ==
  \E c \in Cashiers, r \in Registers \cup {None}, a \in Amounts, cash \in BOOLEAN :
    \E s \in Mine(c, r) :
      /\ \A t \in Mine(c, r) : shift[t].opened <= shift[s].opened
      /\ Ask(w, [kind |-> "sell", shift |-> s, amount |-> a, cash |-> cash])

CheckShift(w) ==
  /\ pc[w] = "read" /\ Is(w, "sell")
  /\ Open(req[w].shift)
  /\ pc' = [pc EXCEPT ![w] = "checked"]
  /\ UNCHANGED <<tills, books, req>>

CommitSale(w) ==
  LET q == req[w]
  IN  /\ pc[w] = "checked" /\ Is(w, "sell")
      /\ sale' = [sale EXCEPT ![w] = [shift |-> q.shift, amount |-> q.amount, cash |-> q.cash,
                                      status |-> "COMPLETED"]]
      /\ drawer' = [drawer EXCEPT ![q.shift] = @ + IF q.cash THEN q.amount ELSE 0]
      /\ Blame(q.shift, If(q.cash /\ Missed(q.shift, "sales"), "missed"))
      /\ End(w)
      /\ UNCHANGED <<shift, moved, note>>

-----------------------------------------------------------------------------
(* cashIn and cashOut: the status, then the insert. *)

ReadForMove(w) ==
  \E s \in Shifts, dir \in {"in", "out"}, a \in Amounts :
    /\ Open(s)
    /\ Ask(w, [kind |-> "move", shift |-> s, dir |-> dir, amount |-> a])

Move(w) ==
  LET q == req[w]
  IN  /\ pc[w] = "read" /\ Is(w, "move")
      /\ moved' = [moved EXCEPT ![q.shift][q.dir] = @ + q.amount]
      /\ drawer' = [drawer EXCEPT ![q.shift] = IF q.dir = "in" THEN @ + q.amount ELSE @ - q.amount]
      /\ Blame(q.shift, If(Missed(q.shift, q.dir), "missed"))
      /\ End(w)
      /\ UNCHANGED <<shift, books>>

-----------------------------------------------------------------------------
(* voidSale and returnSale, which read the sale before their transaction     *)
(* (SaleReturns has their locks). The money comes out of the drawer of the   *)
(* shift that sold.                                                          *)

Refunded(v) == SumFunctionOnSet([w \in Requests |-> IF note[w].sale = v THEN note[w].amount ELSE 0],
                                Requests)

ReadForVoid(w) ==
  \E v \in Requests : /\ sale[v].status = "COMPLETED"
                      /\ Ask(w, [kind |-> "void", sale |-> v, amount |-> sale[v].amount,
                                 cash |-> sale[v].cash])

ReadForReturn(w) ==
  \E v \in Requests, cash \in BOOLEAN :
    /\ sale[v].status \in {"COMPLETED", "PARTIALLY_REFUNDED"}
    /\ \E a \in 1..sale[v].amount - Refunded(v) :
         Ask(w, [kind |-> "return", sale |-> v, amount |-> a, cash |-> cash])

StatusAfter(q) ==
  CASE q.kind = "void" -> "VOIDED"
    [] q.kind = "return" /\ Refunded(q.sale) + q.amount >= sale[q.sale].amount -> "REFUNDED"
    [] OTHER -> "PARTIALLY_REFUNDED"

Refund(w) ==
  LET q == req[w]
      s == sale[q.sale].shift
  IN  /\ pc[w] = "read" /\ q.kind \in {"void", "return"}
      /\ note' = [note EXCEPT ![w] = [sale |-> q.sale, amount |-> q.amount, cash |-> q.cash]]
      /\ sale' = [sale EXCEPT ![q.sale].status = StatusAfter(q)]
      /\ drawer' = [drawer EXCEPT ![s] = @ - IF q.cash THEN q.amount ELSE 0]
      /\ Blame(s, If(q.cash /\ Missed(s, "refunds"), "missed")
                  \cup If(sale[q.sale].cash /\ "VOIDED" \in {StatusAfter(q), sale[q.sale].status}, "void"))
      /\ End(w)
      /\ UNCHANGED <<shift, moved>>

-----------------------------------------------------------------------------
(* closeShift: the shift and four aggregates outside the transaction, the    *)
(* status again in it, the figures at its end.                               *)

ReadForClose(w) ==
  \E s \in Shifts : /\ Open(s)
                    /\ Ask(w, [kind |-> "close", shift |-> s, left |-> Parts, sum |-> Float, seen |-> 0])

SalesOf(s) == { v \in Requests : sale[v].shift = s }

CashSales(s) == { v \in SalesOf(s) : sale[v].cash /\ sale[v].status # "VOIDED" }

CashRefunds(s) == { w \in Requests : note[w].cash /\ note[w].sale \in SalesOf(s) }

Part(s, part) ==
  CASE part = "sales"   -> SumFunctionOnSet([v \in Requests |-> sale[v].amount], CashSales(s))
    [] part = "refunds" -> -SumFunctionOnSet([w \in Requests |-> note[w].amount], CashRefunds(s))
    [] part = "in"      -> moved[s].in
    [] part = "out"     -> -moved[s].out

AddAllMethods(w) ==           \* mutant: every refund is taken for a cash refund
  LET q == req[w]
      s == q.shift
  IN  /\ pc[w] = "adding" /\ q.left # <<>>
      /\ req' = [req EXCEPT ![w].left = Tail(@),
                            ![w].sum = @ + IF Head(q.left) = "refunds"
                              THEN -SumFunctionOnSet([x \in Requests |-> note[x].amount],
                                                     { x \in Requests : note[x].sale \in SalesOf(s) })
                              ELSE Part(s, Head(q.left))]
      /\ UNCHANGED <<tills, books, pc>>

Add(w) ==
  LET q == req[w]
  IN  /\ pc[w] = "adding" /\ q.left # <<>>
      /\ req' = [req EXCEPT ![w].left = Tail(@), ![w].sum = @ + Part(q.shift, Head(q.left))]
      /\ UNCHANGED <<tills, books, pc>>

CheckStillOpenByRead(w) ==    \* mutant: the status read at the start is trusted
  /\ pc[w] = "adding" /\ req[w].left = <<>>
  /\ pc' = [pc EXCEPT ![w] = "checked"]
  /\ req' = [req EXCEPT ![w].seen = shift[req[w].shift].closes]
  /\ UNCHANGED <<tills, books>>

CheckStillOpen(w) ==
  /\ pc[w] = "adding" /\ req[w].left = <<>>
  /\ Open(req[w].shift)
  /\ pc' = [pc EXCEPT ![w] = "checked"]
  /\ req' = [req EXCEPT ![w].seen = shift[req[w].shift].closes]
  /\ UNCHANGED <<tills, books>>

CommitClose(w) ==
  LET s == req[w].shift
  IN  /\ pc[w] = "checked" /\ Is(w, "close")
      /\ shift' = [shift EXCEPT ![s].status = "CLOSED", ![s].expected = req[w].sum, ![s].closes = @ + 1]
      /\ Blame(s, If(shift[s].closes # req[w].seen, "closes"))
      /\ End(w)
      /\ UNCHANGED <<moved, books, drawer>>

-----------------------------------------------------------------------------
(* A refusal, an error or a crash at any point. *)
Fail(w) == /\ pc[w] \in {"read", "adding", "checked"}
           /\ End(w)
           /\ UNCHANGED <<tills, books>>

Begin(w) ==
  /\ pc[w] = "new"
  /\ \/ ReadForOpen(w) \/ Resolve(w) \/ ReadForMove(w) \/ ReadForVoid(w) \/ ReadForReturn(w)
     \/ ReadForClose(w)

Next == \E w \in Requests :
          \/ Begin(w)
          \/ CreateShift(w) \/ CheckShift(w) \/ CommitSale(w) \/ Move(w) \/ Refund(w)
          \/ Add(w) \/ CheckStillOpen(w) \/ CommitClose(w) \/ Fail(w)

Spec == Init /\ [][Next]_vars

-----------------------------------------------------------------------------
(* A register has one open shift, unless openings overlapped: each found no  *)
(* open shift before the other had inserted its own (shifts.service.ts:243). *)
OneOpenUnlessOverlap ==
  \A r \in Registers : Cardinality(OpenAt(r)) > 1 => \E s \in OpenAt(r) : "opens" \in cause[s]

(* A closed shift stays closed and keeps its figures, unless closes of it    *)
(* overlapped: each found it open before the other had committed.            *)
ClosedFiguresStand ==
  [][\A s \in Shifts : shift[s].status = "CLOSED" =>
       /\ shift'[s].status = "CLOSED"
       /\ shift'[s].expected = shift[s].expected \/ "closes" \in cause'[s]]_vars

(* buildReportSnapshot: what an X or a Z report reads of a shift now.        *)
ReportSnapshot(s) ==
  LET standing == { v \in SalesOf(s) : sale[v].status # "VOIDED" }
      total(S) == SumFunctionOnSet([v \in Requests |-> sale[v].amount], S)
  IN  [count |-> Cardinality(standing), total |-> total(standing), cash |-> total(CashSales(s)),
       voids |-> total(SalesOf(s) \ standing), in |-> moved[s].in, out |-> moved[s].out,
       expected |-> Float + SumFunctionOnSet([i \in DOMAIN Parts |-> Part(s, Parts[i])], DOMAIN Parts)]

XReport(s) == ReportSnapshot(s)

(* A Z report shows the expected cash that was recorded. *)
ZReport(s) == [ReportSnapshot(s) EXCEPT !.expected = shift[s].expected]

(* The expected cash recorded at the close is what is in the drawer, unless  *)
(* something was booked that the close had already added up, closes          *)
(* overlapped, or a cash sale was voided: computeExpectedCash leaves the     *)
(* sale out (shifts.service.ts:643) and subtracts its refund (:659). The     *)
(* figures of the Z report, read later, add up to it; and the X report of an *)
(* open shift finds the cash that is in the drawer.                          *)
ExpectedIsDrawerUnlessCaused ==
  \A s \in Shifts :
    /\ Open(s) /\ "void" \notin cause[s] => XReport(s).expected = drawer[s]
    /\ (shift[s].status = "CLOSED" /\ cause[s] \subseteq {"opens"}) =>
         LET z == ZReport(s)
         IN  /\ z.expected = drawer[s]
             /\ z.expected = Float + z.cash + z.in - z.out
                   - SumFunctionOnSet([w \in Requests |-> note[w].amount], CashRefunds(s))
             /\ z.cash <= z.total
=============================================================================
