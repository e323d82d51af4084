---------------------------- MODULE ShiftsProofs ----------------------------
(* Proofs about Shifts, for any requests, shifts, registers, cashiers and    *)
(* amounts; and about Catalogue, for any requests, products, barcodes,       *)
(* prices and file.                                                          *)
EXTENDS Shifts, Catalogue, SumTheorems, FiniteSetTheorems, TLAPS

Status(s) == shift[s].status
Closes(s) == shift[s].closes

(* A shift is a row with these columns; one that is absent has no register.  *)
RowShape(row) ==
  /\ {"status", "register", "cashier", "opened", "expected", "closes"} \subseteq DOMAIN row
  /\ row.status \in {"absent", "OPEN", "CLOSED"}
  /\ row.status = "absent" => row.register = None
  /\ row.closes \in Nat

Rows ==
  /\ DOMAIN shift = Shifts /\ \A s \in Shifts : RowShape(shift[s])
  /\ DOMAIN cause = Shifts
  /\ DOMAIN pc = Requests /\ DOMAIN req = Requests

CloseShape(q) == {"kind", "shift", "left", "sum", "seen"} \subseteq DOMAIN q

(* What a request may rely on: the shifts it saw when it found none open are *)
(* closed for good; the shift it checked has been closed by nobody since, or *)
(* it was closed more often than the request saw.                            *)
Reliable(w) ==
  /\ pc[w] = "adding" => Is(w, "close")
  /\ Is(w, "close") =>
       CloseShape(req[w]) /\ req[w].shift \in Shifts /\ Status(req[w].shift) # "absent"
  /\ (pc[w] = "checked" /\ Is(w, "close")) =>
       /\ req[w].seen \in Nat /\ req[w].seen <= Closes(req[w].shift)
       /\ req[w].seen = Closes(req[w].shift) => Open(req[w].shift)
  /\ (pc[w] = "read" /\ Is(w, "open")) =>
       req[w].seen \in SUBSET Shifts /\ \A s \in req[w].seen : Status(s) = "CLOSED"

(* Of two open shifts of one register, one was opened past the other. *)
OverlapKnown ==
  \A s, t \in Shifts :
    (s # t /\ Open(s) /\ Open(t) /\ shift[s].register = shift[t].register)
      => "opens" \in cause[s] \cup cause[t]

ShiftInv == Rows /\ OverlapKnown /\ \A w \in Requests : Reliable(w)

-----------------------------------------------------------------------------
(* The row an opening inserts. *)
Inserted(r, c, n) ==
  [Absent EXCEPT !.status = "OPEN", !.register = r, !.cashier = c, !.opened = n]

(* It is a row of an open shift of that register. *)
LEMMA NewRow ==
  ASSUME NEW r, NEW c, NEW n
  PROVE  LET row == Inserted(r, c, n)
         IN  RowShape(row) /\ row.status = "OPEN" /\ row.register = r
<1> DEFINE row1 == [Absent EXCEPT !.status = "OPEN"]
           row2 == [row1 EXCEPT !.register = r]
           row3 == [row2 EXCEPT !.cashier = c]
           row4 == [row3 EXCEPT !.opened = n]
<1>1. DOMAIN Absent = {"status", "register", "cashier", "opened", "expected", "closes"}
  BY DEF Absent
<1>2. DOMAIN row1 = DOMAIN Absent /\ row1.status = "OPEN" /\ row1.closes = 0
  BY <1>1 DEF Absent
<1> HIDE DEF row1
<1>3. DOMAIN row2 = DOMAIN Absent /\ row2.status = "OPEN" /\ row2.closes = 0 /\ row2.register = r
  BY <1>1, <1>2
<1> HIDE DEF row2
<1>4. DOMAIN row3 = DOMAIN Absent /\ row3.status = "OPEN" /\ row3.closes = 0 /\ row3.register = r
  BY <1>1, <1>3
<1> HIDE DEF row3
<1>5. DOMAIN row4 = DOMAIN Absent /\ row4.status = "OPEN" /\ row4.closes = 0 /\ row4.register = r
  BY <1>1, <1>4
<1> HIDE DEF row4
<1>6. RowShape(row4) /\ row4.status = "OPEN" /\ row4.register = r
  BY <1>1, <1>5 DEF RowShape
<1> QED BY <1>6 DEF Inserted, row1, row2, row3, row4

(* No shift has been closed, and one is open. *)
LEMMA ShiftInvInit == Init => ShiftInv
<1> SUFFICES ASSUME Init PROVE ShiftInv
  OBVIOUS
<1>1. PICK s \in Shifts, r \in Registers, c \in Cashiers :
        shift = [t \in Shifts |-> IF t = s THEN [Absent EXCEPT !.status = "OPEN", !.register = r,
                                                               !.cashier = c, !.opened = 1]
                                           ELSE Absent]
  BY DEF Init
<1>2. RowShape(Absent)
  BY DEF RowShape, Absent
<1>3. RowShape([Absent EXCEPT !.status = "OPEN", !.register = r, !.cashier = c, !.opened = 1])
  BY NewRow DEF Inserted
<1>4. \A t \in Shifts : RowShape(shift[t]) /\ (Open(t) => t = s)
  BY <1>1, <1>2, <1>3 DEF Open, Absent
<1>5. Rows /\ OverlapKnown
  BY <1>1, <1>4 DEF Init, Rows, OverlapKnown
<1>6. \A w \in Requests : Reliable(w)
  BY DEF Init, Reliable, Is, NoReq
<1> QED BY <1>5, <1>6 DEF ShiftInv

(* A step of w that leaves the shifts alone. *)
LEMMA ShiftInvQuiet ==
  ASSUME ShiftInv, NEW w \in Requests, shift' = shift,
         DOMAIN cause' = Shifts, \A s \in Shifts : cause[s] \subseteq cause'[s],
         DOMAIN pc' = Requests, DOMAIN req' = Requests,
         \A v \in Requests : v # w => pc'[v] = pc[v] /\ req'[v] = req[v],
         Reliable(w)'
  PROVE  ShiftInv'
<1>1. Rows'
  BY DEF ShiftInv, Rows, RowShape
<1>2. OverlapKnown'
  BY DEF ShiftInv, OverlapKnown, Open
<1>3. ASSUME NEW v \in Requests
      PROVE  Reliable(v)'
  <2>1. CASE v = w
    BY <2>1
  <2>2. CASE v # w
    <3>1. pc'[v] = pc[v] /\ req'[v] = req[v] /\ Reliable(v)
      BY <2>2 DEF ShiftInv
    <3> QED BY <3>1 DEF Reliable, Is, Status, Closes, Open
  <2> QED BY <2>1, <2>2
<1> QED BY <1>1, <1>2, <1>3 DEF ShiftInv

(* Who is done relies on nothing. *)
LEMMA EndIsReliable ==
  ASSUME ShiftInv, NEW w \in Requests, End(w)
  PROVE  /\ DOMAIN pc' = Requests /\ DOMAIN req' = Requests
         /\ \A v \in Requests : v # w => pc'[v] = pc[v] /\ req'[v] = req[v]
         /\ Reliable(w)'
  BY DEF End, ShiftInv, Rows, Reliable, Is, NoReq

(* Blame only adds to the causes. *)
LEMMA BlameAdds ==
  ASSUME ShiftInv, NEW s, NEW whys, Blame(s, whys)
  PROVE  /\ DOMAIN cause' = Shifts
         /\ \A t \in Shifts : cause[t] \subseteq cause'[t]
         /\ s \in Shifts => whys \subseteq cause'[s]
  BY DEF Blame, ShiftInv, Rows

(* Requests read before they do anything. *)
LEMMA ShiftInvBegin ==
  ASSUME ShiftInv, NEW w \in Requests, Begin(w)
  PROVE  ShiftInv'
<1>1. ASSUME NEW q, Ask(w, q), q.kind \notin {"open", "close"}
      PROVE  ShiftInv'
  <2>1. Reliable(w)'
    BY <1>1 DEF Ask, Reliable, Is, ShiftInv, Rows
  <2> QED BY <1>1, <2>1, ShiftInvQuiet DEF Ask, tills, ShiftInv, Rows
<1>2. CASE ReadForOpen(w)
  <2>1. PICK r \in Registers, c \in Cashiers :
          /\ OpenAt(r) = {}
          /\ Ask(w, [kind |-> "open", register |-> r, cashier |-> c, seen |-> ShiftsOf(r)])
    BY <1>2 DEF ReadForOpen
  <2>2. ASSUME NEW s \in ShiftsOf(r)
        PROVE  s \in Shifts /\ Status(s) = "CLOSED"
    BY <2>1, NoneAssumption DEF ShiftsOf, OpenAt, Open, Status, ShiftInv, Rows, RowShape
  <2>3. Reliable(w)'
    BY <2>1, <2>2 DEF Ask, Reliable, Is, ShiftInv, Rows, tills, Status, ShiftsOf
  <2> QED BY <2>1, <2>3, ShiftInvQuiet DEF Ask, tills, ShiftInv, Rows
<1>3. CASE ReadForClose(w)
  <2>1. PICK s \in Shifts :
          /\ Open(s)
          /\ Ask(w, [kind |-> "close", shift |-> s, left |-> Parts, sum |-> Float, seen |-> 0])
    BY <1>3 DEF ReadForClose
  <2>2. Reliable(w)'
    BY <2>1 DEF Ask, Reliable, Is, ShiftInv, Rows, tills, Status, Open, CloseShape
  <2> QED BY <2>1, <2>2, ShiftInvQuiet DEF Ask, tills, ShiftInv, Rows
<1>4. CASE Resolve(w)
  <2>1. \E s, a, cash :
          Ask(w, [kind |-> "sell", shift |-> s, amount |-> a, cash |-> cash])
    BY <1>4 DEF Resolve
  <2> QED BY <2>1, <1>1
<1>5. CASE ReadForMove(w)
  <2>1. PICK s \in Shifts, dir \in {"in", "out"}, a \in Amounts :
          Ask(w, [kind |-> "move", shift |-> s, dir |-> dir, amount |-> a])
    BY <1>5 DEF ReadForMove
  <2> QED BY <2>1, <1>1
<1>6. CASE ReadForVoid(w)
  BY <1>6, <1>1 DEF ReadForVoid
<1>7. CASE ReadForReturn(w)
  <2>1. \E v, cash, a : Ask(w, [kind |-> "return", sale |-> v, amount |-> a, cash |-> cash])
    BY <1>7 DEF ReadForReturn
  <2> QED BY <2>1, <1>1
<1> QED BY <1>2, <1>3, <1>4, <1>5, <1>6, <1>7 DEF Begin

(* A shift is opened: no other of its register is open, or the opening is    *)
(* known to have overlapped another.                                         *)
LEMMA ShiftInvCreate ==
  ASSUME ShiftInv, NEW w \in Requests, CreateShift(w)
  PROVE  ShiftInv'
<1>1. PICK s \in Shifts \ Opened :
        /\ shift' = [shift EXCEPT ![s] = [Absent EXCEPT !.status = "OPEN",
                       !.register = req[w].register, !.cashier = req[w].cashier,
                       !.opened = Cardinality(Opened) + 1]]
        /\ Blame(s, If(ShiftsOf(req[w].register) # req[w].seen, "opens"))
  BY DEF CreateShift
<1>2. End(w) /\ pc[w] = "read" /\ Is(w, "open")
  BY DEF CreateShift
<1>3. Status(s) = "absent" /\ s \in Shifts
  BY <1>1 DEF Opened, Status, Absent
<1>4. /\ RowShape(shift'[s])
      /\ shift'[s].status = "OPEN" /\ shift'[s].register = req[w].register
      /\ \A t \in Shifts : t # s => shift'[t] = shift[t]
      /\ DOMAIN shift' = Shifts
  <2> DEFINE row == Inserted(req[w].register, req[w].cashier, Cardinality(Opened) + 1)
  <2>1. shift' = [shift EXCEPT ![s] = row]
    BY <1>1 DEF Inserted
  <2>2. RowShape(row) /\ row.status = "OPEN" /\ row.register = req[w].register
    BY NewRow
  <2> HIDE DEF row
  <2> QED BY <1>3, <2>1, <2>2 DEF ShiftInv, Rows
<1>5. Rows'
  BY <1>1, <1>2, <1>4, BlameAdds, EndIsReliable DEF ShiftInv, Rows, RowShape
<1>6. OverlapKnown'
  <2> SUFFICES ASSUME NEW t \in Shifts, t # s, Open(t), shift[t].register = req[w].register
               PROVE  "opens" \in cause'[s]
    BY <1>1, <1>4, BlameAdds DEF OverlapKnown, Open, ShiftInv
  <2>1. t \in ShiftsOf(req[w].register) /\ Status(t) # "CLOSED"
    BY DEF ShiftsOf, Open, Status
  <2>2. t \notin req[w].seen
    BY <1>2, <2>1 DEF ShiftInv, Reliable
  <2> QED BY <1>1, <2>1, <2>2, BlameAdds DEF If
<1>7. ASSUME NEW v \in Requests
      PROVE  Reliable(v)'
  <2>1. CASE v = w
    BY <1>2, <2>1, EndIsReliable
  <2>2. CASE v # w
    <3>1. pc'[v] = pc[v] /\ req'[v] = req[v] /\ Reliable(v)
      BY <1>2, <2>2, EndIsReliable DEF ShiftInv
    <3> QED BY <1>3, <1>4, <3>1 DEF Reliable, Is, Status, Closes, Open
  <2> QED BY <2>1, <2>2
<1> QED BY <1>5, <1>6, <1>7 DEF ShiftInv

(* A shift is closed: who checked it before sees that it was closed again. *)
LEMMA ShiftInvClose ==
  ASSUME ShiftInv, NEW w \in Requests, CommitClose(w)
  PROVE  ShiftInv'
<1> DEFINE s == req[w].shift
<1>1. /\ shift' = [shift EXCEPT ![s].status = "CLOSED", ![s].expected = req[w].sum, ![s].closes = @ + 1]
      /\ Blame(s, If(shift[s].closes # req[w].seen, "closes"))
      /\ End(w)
  BY DEF CommitClose
<1>2. s \in Shifts /\ Status(s) # "absent"
  BY DEF CommitClose, ShiftInv, Reliable
<1> HIDE DEF s
<1>3. /\ RowShape(shift'[s])
      /\ shift'[s].status = "CLOSED" /\ shift'[s].closes = Closes(s) + 1
      /\ \A t \in Shifts : t # s => shift'[t] = shift[t]
      /\ DOMAIN shift' = Shifts
  BY <1>1, <1>2 DEF ShiftInv, Rows, RowShape, Closes
<1>4. Rows'
  BY <1>1, <1>3, BlameAdds, EndIsReliable DEF ShiftInv, Rows, RowShape
<1>5. OverlapKnown'
  BY <1>1, <1>3, BlameAdds DEF OverlapKnown, Open, ShiftInv
<1>6. ASSUME NEW v \in Requests
      PROVE  Reliable(v)'
  <2>1. CASE v = w
    BY <1>1, <2>1, EndIsReliable
  <2>2. CASE v # w
    <3>1. pc'[v] = pc[v] /\ req'[v] = req[v] /\ Reliable(v)
      BY <1>1, <2>2, EndIsReliable DEF ShiftInv
    <3>2. Closes(s) \in Nat
      BY <1>2 DEF ShiftInv, Rows, RowShape, Closes
    <3> QED BY <1>3, <3>1, <3>2 DEF Reliable, Is, Status, Closes, Open
  <2> QED BY <2>1, <2>2
<1> QED BY <1>4, <1>5, <1>6 DEF ShiftInv

(* The steps of a close before its commit. *)
LEMMA ShiftInvAdd ==
  ASSUME ShiftInv, NEW w \in Requests, Add(w) \/ CheckStillOpen(w)
  PROVE  ShiftInv'
<1>1. /\ shift' = shift /\ cause' = cause
      /\ DOMAIN pc' = Requests /\ DOMAIN req' = Requests
      /\ \A v \in Requests : v # w => pc'[v] = pc[v] /\ req'[v] = req[v]
      /\ pc[w] = "adding"
  BY DEF Add, CheckStillOpen, tills, ShiftInv, Rows
<1>2. /\ CloseShape(req[w]) /\ req[w].shift \in Shifts /\ Status(req[w].shift) # "absent"
      /\ Is(w, "close")
  BY <1>1 DEF ShiftInv, Reliable
<1>3. ASSUME Add(w)
      PROVE  Reliable(w)'
  <2>1. pc'[w] = "adding" /\ req'[w].kind = "close" /\ req'[w].shift = req[w].shift /\ CloseShape(req'[w])
    <3> DEFINE mid == [req EXCEPT ![w].left = Tail(@)]
    <3>1. req' = [mid EXCEPT ![w].sum = @ + Part(req[w].shift, Head(req[w].left))] /\ pc' = pc
      BY <1>3 DEF Add
    <3>2. /\ DOMAIN mid = Requests /\ DOMAIN mid[w] = DOMAIN req[w]
          /\ mid[w].kind = req[w].kind /\ mid[w].shift = req[w].shift
      BY <1>2 DEF ShiftInv, Rows, CloseShape
    <3> HIDE DEF mid
    <3> QED BY <1>1, <1>2, <3>1, <3>2 DEF CloseShape, Is
  <2> QED BY <1>1, <1>2, <2>1 DEF Reliable, Is, Status, Closes, Open
<1>4. ASSUME CheckStillOpen(w)
      PROVE  Reliable(w)'
  <2>1. /\ req'[w].kind = "close" /\ req'[w].shift = req[w].shift /\ CloseShape(req'[w])
        /\ req'[w].seen = Closes(req[w].shift) /\ pc'[w] = "checked" /\ Open(req[w].shift)
    BY <1>2, <1>4 DEF CheckStillOpen, CloseShape, Is, ShiftInv, Rows, Closes
  <2>2. Closes(req[w].shift) \in Nat
    BY <1>2 DEF ShiftInv, Rows, RowShape, Closes
  <2> QED BY <1>1, <1>2, <2>1, <2>2 DEF Reliable, Is, Status, Closes, Open
<1>5. Reliable(w)'
  BY <1>3, <1>4
<1> QED BY <1>1, <1>5, ShiftInvQuiet DEF ShiftInv, Rows

(* No step of a request breaks what the others rely on. *)
LEMMA ShiftInvStep == ShiftInv /\ [Next]_vars => ShiftInv'
<1> SUFFICES ASSUME ShiftInv, [Next]_vars PROVE ShiftInv'
  OBVIOUS
<1>1. CASE UNCHANGED vars
  BY <1>1 DEF vars, ShiftInv, Rows, RowShape, OverlapKnown, Reliable, Is, Status, Closes, Open, CloseShape
<1>2. ASSUME NEW w \in Requests, CheckShift(w)
      PROVE  ShiftInv'
  <2>1. Reliable(w)'
    BY <1>2 DEF CheckShift, ShiftInv, Rows, Reliable, Is
  <2> QED BY <1>2, <2>1, ShiftInvQuiet DEF CheckShift, tills, ShiftInv, Rows
<1>3. ASSUME NEW w \in Requests, CommitSale(w) \/ Move(w) \/ Refund(w)
      PROVE  ShiftInv'
  <2>1. shift' = shift /\ End(w) /\ \E s, whys : Blame(s, whys)
    BY <1>3 DEF CommitSale, Move, Refund
  <2> QED BY <2>1, BlameAdds, EndIsReliable, ShiftInvQuiet
<1>4. ASSUME NEW w \in Requests, Fail(w)
      PROVE  ShiftInv'
  BY <1>4, EndIsReliable, ShiftInvQuiet DEF Fail, tills, ShiftInv, Rows
<1> QED BY <1>1, <1>2, <1>3, <1>4, ShiftInvBegin, ShiftInvCreate, ShiftInvClose, ShiftInvAdd DEF Next

(* The rows of the shifts keep their shape, and what a request relies on     *)
(* between its check and its write in shifts.service.ts stays true.          *)
THEOREM ShiftInvHolds == Spec => []ShiftInv
  BY ShiftInvInit, ShiftInvStep, PTL DEF Spec

-----------------------------------------------------------------------------
(* A set of one element at most has no cardinality above one. *)
LEMMA AtMostOne ==
  ASSUME NEW S, \A s, t \in S : s = t
  PROVE  ~(Cardinality(S) > 1)
<1>1. CASE S = {}
  BY <1>1, FS_EmptySet
<1>2. CASE S # {}
  <2>1. PICK s \in S : S = {s}
    BY <1>2
  <2>2. Cardinality({s}) = 1
    BY FS_Singleton, Zenon
  <2> QED BY <2>1, <2>2
<1> QED BY <1>1, <1>2

(* However many openings run at once, two shifts of a register are open only *)
(* if one was opened past the other's check (openShift, shifts.service.ts).  *)
THEOREM OneOpenShift == Spec => []OneOpenUnlessOverlap
<1>1. ShiftInv => OneOpenUnlessOverlap
  <2> SUFFICES ASSUME ShiftInv, NEW r \in Registers, Cardinality(OpenAt(r)) > 1
               PROVE  \E s \in OpenAt(r) : "opens" \in cause[s]
    BY DEF OneOpenUnlessOverlap
  <2>1. PICK s \in OpenAt(r), t \in OpenAt(r) : s # t
    BY AtMostOne
  <2> QED BY <2>1 DEF OpenAt, ShiftInv, OverlapKnown
<1> QED BY <1>1, ShiftInvHolds, PTL

(* A close that finds the shift closed by another since its check is the     *)
(* only thing that rewrites the figures of a closed shift (closeShift).      *)
THEOREM ClosedStaysClosed == Spec => ClosedFiguresStand
<1> DEFINE Stands == \A s \in Shifts : shift[s].status = "CLOSED" =>
                       /\ shift'[s].status = "CLOSED"
                       /\ shift'[s].expected = shift[s].expected \/ "closes" \in cause'[s]
<1>1. ShiftInv /\ [Next]_vars => Stands
  <2> SUFFICES ASSUME ShiftInv, [Next]_vars, NEW s \in Shifts, shift[s].status = "CLOSED"
               PROVE  /\ shift'[s].status = "CLOSED"
                      /\ shift'[s].expected = shift[s].expected \/ "closes" \in cause'[s]
    OBVIOUS
  <2>1. CASE shift' = shift
    BY <2>1
  <2>2. ASSUME NEW w \in Requests, CreateShift(w)
        PROVE  shift'[s] = shift[s]
    <3>1. s \in Opened
      BY DEF Opened, Absent
    <3> QED BY <2>2, <3>1 DEF CreateShift, ShiftInv, Rows
  <2>3. ASSUME NEW w \in Requests, CommitClose(w)
        PROVE  /\ shift'[s].status = "CLOSED"
               /\ shift'[s].expected = shift[s].expected \/ "closes" \in cause'[s]
    <3>1. CASE s # req[w].shift
      BY <2>3, <3>1 DEF CommitClose, ShiftInv, Rows
    <3>2. CASE s = req[w].shift
      <4>1. shift[s].closes # req[w].seen
        BY <2>3, <3>2 DEF CommitClose, ShiftInv, Reliable, Open, Closes
      <4>2. Blame(s, {"closes"})
        BY <2>3, <3>2, <4>1 DEF CommitClose, If
      <4>3. "closes" \in cause'[s]
        BY <4>2, BlameAdds
      <4>4. shift'[s].status = "CLOSED"
        BY <2>3, <3>2 DEF CommitClose, ShiftInv, Rows, RowShape
      <4> QED BY <4>3, <4>4
    <3> QED BY <3>1, <3>2
  <2>4. ASSUME NEW w \in Requests, Begin(w)
        PROVE  shift' = shift
    <3>1. ASSUME NEW q, Ask(w, q)
          PROVE  shift' = shift
      BY <3>1 DEF Ask, tills
    <3> QED BY <2>4, <3>1 DEF Begin, ReadForOpen, ReadForClose, Resolve, ReadForMove, ReadForVoid,
                              ReadForReturn
  <2>5. ASSUME NEW w \in Requests, \/ CheckShift(w) \/ CommitSale(w) \/ Move(w) \/ Refund(w)
                                   \/ Add(w) \/ CheckStillOpen(w) \/ Fail(w)
        PROVE  shift' = shift
    BY <2>5 DEF CheckShift, CommitSale, Move, Refund, Add, CheckStillOpen, Fail, tills
  <2>6. UNCHANGED vars => shift' = shift
    BY DEF vars
  <2> QED BY <2>1, <2>2, <2>3, <2>4, <2>6, <2>5 DEF Next
<1> QED BY <1>1, ShiftInvHolds, PTL DEF Spec, ClosedFiguresStand

-----------------------------------------------------------------------------
SaleType == [shift : Shifts \cup {None}, amount : Nat, cash : BOOLEAN,
             status : {"absent", "COMPLETED", "PARTIALLY_REFUNDED", "REFUNDED", "VOIDED"}]

NoteType == [sale : Requests \cup {None}, amount : Nat, cash : BOOLEAN]

(* The rows of the books; a note is of a sale that is there. *)
Books == /\ sale \in [Requests -> SaleType]
         /\ note \in [Requests -> NoteType]
         /\ moved \in [Shifts -> [in : Nat, out : Nat]]
         /\ drawer \in [Shifts -> Int]
         /\ \A v \in Requests : IF sale[v].status = "absent" THEN sale[v] = NoSale
                                                             ELSE sale[v].shift \in Shifts
         /\ \A w \in Requests : note[w].cash => /\ note[w].sale \in Requests
                                                /\ sale[note[w].sale].status # "absent"

(* What is left to add up for a close. *)
Lefts == { Parts, <<"in", "out", "refunds">>, <<"out", "refunds">>, <<"refunds">>, <<>> }

(* What a request was asked. It writes its sale or its note when it ends.    *)
Asked(w) ==
  LET q == req[w]
  IN  /\ pc[w] # "done" => sale[w] = NoSale /\ note[w] = NoNote
      /\ q.kind \in {"sell", "move"} => q.shift \in Shifts /\ q.amount \in Nat
      /\ q.kind = "sell" => q.cash \in BOOLEAN
      /\ q.kind = "move" => q.dir \in {"in", "out"}
      /\ q.kind \in {"void", "return"} =>
           /\ q.sale \in Requests /\ sale[q.sale].status # "absent"
           /\ q.amount \in Nat /\ q.cash \in BOOLEAN
      /\ q.kind = "close" => /\ q.left \in Lefts /\ q.sum \in Int
                             /\ pc[w] = "checked" => q.left = <<>>


BooksInv == Books /\ \A w \in Requests : Asked(w)

(* At the start nothing is booked. *)
LEMMA BooksInit == Init => BooksInv
<1> SUFFICES ASSUME Init PROVE BooksInv
  OBVIOUS
<1>1. NoSale \in SaleType /\ NoNote \in NoteType /\ NoSale.status = "absent" /\ ~NoNote.cash
  BY DEF NoSale, NoNote, SaleType, NoteType
<1>2. sale \in [Requests -> SaleType] /\ note \in [Requests -> NoteType]
  BY <1>1 DEF Init
<1>3. moved \in [Shifts -> [in : Nat, out : Nat]] /\ drawer \in [Shifts -> Int]
  BY AmountsAssumption DEF Init
<1>4. \A w \in Requests : sale[w] = NoSale /\ note[w] = NoNote /\ req[w].kind = "none"
  BY DEF Init, NoReq
<1>5. \A w \in Requests : Asked(w)
  BY <1>4 DEF Asked
<1> QED BY <1>1, <1>2, <1>3, <1>4, <1>5 DEF BooksInv, Books

(* A step of w, which writes at most its own sale and note and the status of *)
(* a sale that is there, leaves what the others were asked.                  *)
LEMMA AskedOthers ==
  ASSUME BooksInv, NEW w \in Requests,
         \A v \in Requests : v # w => /\ pc'[v] = pc[v] /\ req'[v] = req[v] /\ note'[v] = note[v]
                                      /\ sale[v] = NoSale => sale'[v] = sale[v]
                                      /\ sale[v].status # "absent" => sale'[v].status # "absent",
         sale[w].status # "absent" => sale'[w].status # "absent"
  PROVE  \A v \in Requests : v # w => Asked(v)'
<1> SUFFICES ASSUME NEW v \in Requests, v # w PROVE Asked(v)'
  OBVIOUS
<1>1. Asked(v)
  BY DEF BooksInv
<1> QED BY <1>1 DEF Asked

(* What a request reads before it does anything. *)
LEMMA AskedBegin ==
  ASSUME ShiftInv, BooksInv, NEW w \in Requests, Begin(w)
  PROVE  Asked(w)' /\ \E q : Ask(w, q)
<1>0. sale[w] = NoSale /\ note[w] = NoNote
  BY DEF Begin, BooksInv, Asked
<1>1. ASSUME NEW q, Ask(w, q)
      PROVE  /\ req'[w] = q /\ sale' = sale /\ note' = note
             /\ pc'[w] = "read" \/ pc'[w] = "adding"
  BY <1>1 DEF Ask, books, ShiftInv, Rows
<1>2. CASE ReadForOpen(w)
  <2>1. PICK r \in Registers, c \in Cashiers :
          Ask(w, [kind |-> "open", register |-> r, cashier |-> c, seen |-> ShiftsOf(r)])
    BY <1>2 DEF ReadForOpen
  <2> QED BY <1>0, <1>1, <2>1 DEF Asked
<1>3. CASE ReadForClose(w)
  <2>1. PICK s \in Shifts :
          Ask(w, [kind |-> "close", shift |-> s, left |-> Parts, sum |-> Float, seen |-> 0])
    BY <1>3 DEF ReadForClose
  <2> QED BY <1>0, <1>1, <2>1, AmountsAssumption DEF Asked, Lefts
<1>4. CASE Resolve(w)
  <2>1. PICK s \in Shifts, a \in Amounts, cash \in BOOLEAN :
          Ask(w, [kind |-> "sell", shift |-> s, amount |-> a, cash |-> cash])
    BY <1>4 DEF Resolve, Mine
  <2> QED BY <1>0, <1>1, <2>1, AmountsAssumption DEF Asked
<1>5. CASE ReadForMove(w)
  <2>1. PICK s \in Shifts, dir \in {"in", "out"}, a \in Amounts :
          Ask(w, [kind |-> "move", shift |-> s, dir |-> dir, amount |-> a])
    BY <1>5 DEF ReadForMove
  <2> QED BY <1>0, <1>1, <2>1, AmountsAssumption DEF Asked
<1>6. CASE ReadForVoid(w)
  <2>1. PICK v \in Requests :
          /\ sale[v].status = "COMPLETED"
          /\ Ask(w, [kind |-> "void", sale |-> v, amount |-> sale[v].amount, cash |-> sale[v].cash])
    BY <1>6 DEF ReadForVoid
  <2>2. sale[v].amount \in Nat /\ sale[v].cash \in BOOLEAN
    BY DEF BooksInv, Books, SaleType
  <2> QED BY <1>0, <1>1, <2>1, <2>2 DEF Asked
<1>7. CASE ReadForReturn(w)
  <2>1. PICK v \in Requests, cash \in BOOLEAN :
          /\ sale[v].status \in {"COMPLETED", "PARTIALLY_REFUNDED"}
          /\ \E a \in 1..sale[v].amount - Refunded(v) :
               Ask(w, [kind |-> "return", sale |-> v, amount |-> a, cash |-> cash])
    BY <1>7 DEF ReadForReturn
  <2>2. PICK a \in 1..sale[v].amount - Refunded(v) :
          Ask(w, [kind |-> "return", sale |-> v, amount |-> a, cash |-> cash])
    BY <2>1
  <2>3. a \in Nat
    OBVIOUS
  <2> QED BY <1>0, <1>1, <2>1, <2>2, <2>3 DEF Asked
<1> QED BY <1>2, <1>3, <1>4, <1>5, <1>6, <1>7 DEF Begin, ReadForOpen, ReadForClose, Resolve,
           ReadForMove, ReadForVoid, ReadForReturn

(* What is left to add up gets less one by one. *)
LEMMA LeftsStep ==
  ASSUME NEW left \in Lefts, left # <<>>
  PROVE  /\ Tail(left) \in Lefts
         /\ \/ left = Parts /\ Head(left) = "sales" /\ Tail(left) = <<"in", "out", "refunds">>
            \/ left = <<"in", "out", "refunds">> /\ Head(left) = "in" /\ Tail(left) = <<"out", "refunds">>
            \/ left = <<"out", "refunds">> /\ Head(left) = "out" /\ Tail(left) = <<"refunds">>
            \/ left = <<"refunds">> /\ Head(left) = "refunds" /\ Tail(left) = <<>>
<1> SUFFICES
         \/ left = Parts /\ Head(left) = "sales" /\ Tail(left) = <<"in", "out", "refunds">>
         \/ left = <<"in", "out", "refunds">> /\ Head(left) = "in" /\ Tail(left) = <<"out", "refunds">>
         \/ left = <<"out", "refunds">> /\ Head(left) = "out" /\ Tail(left) = <<"refunds">>
         \/ left = <<"refunds">> /\ Head(left) = "refunds" /\ Tail(left) = <<>>
  BY DEF Lefts
<1>1. CASE left = Parts
  BY <1>1 DEF Parts
<1>2. CASE left = <<"in", "out", "refunds">>
  BY <1>2
<1>3. CASE left = <<"out", "refunds">>
  BY <1>3
<1>4. CASE left = <<"refunds">>
  BY <1>4
<1> QED BY <1>1, <1>2, <1>3, <1>4 DEF Lefts

(* The parts still left. *)
LEMMA LeftsRange ==
  /\ Range(Parts) = {"sales", "in", "out", "refunds"}
  /\ Range(<<"in", "out", "refunds">>) = {"in", "out", "refunds"}
  /\ Range(<<"out", "refunds">>) = {"out", "refunds"}
  /\ Range(<<"refunds">>) = {"refunds"}
  /\ Range(<<>>) = {}
<1>1. Range(Parts) = {"sales", "in", "out", "refunds"}
  <2>1. DOMAIN Parts = 1..4 /\ Parts[1] = "sales" /\ Parts[2] = "in" /\ Parts[3] = "out"
        /\ Parts[4] = "refunds"
    BY DEF Parts
  <2>2. 1..4 = {1, 2, 3, 4}
    OBVIOUS
  <2> QED BY <2>1, <2>2 DEF Range
<1>2. Range(<<"in", "out", "refunds">>) = {"in", "out", "refunds"}
  <2> DEFINE p == <<"in", "out", "refunds">>
  <2>1. DOMAIN p = 1..3 /\ p[1] = "in" /\ p[2] = "out" /\ p[3] = "refunds"
    OBVIOUS
  <2>2. 1..3 = {1, 2, 3}
    OBVIOUS
  <2> HIDE DEF p
  <2>3. Range(p) = {"in", "out", "refunds"}
    BY <2>1, <2>2 DEF Range
  <2> QED BY <2>3 DEF p
<1>3. Range(<<"out", "refunds">>) = {"out", "refunds"}
  <2> DEFINE p == <<"out", "refunds">>
  <2>1. DOMAIN p = 1..2 /\ p[1] = "out" /\ p[2] = "refunds"
    OBVIOUS
  <2>2. 1..2 = {1, 2}
    OBVIOUS
  <2> HIDE DEF p
  <2>3. Range(p) = {"out", "refunds"}
    BY <2>1, <2>2 DEF Range
  <2> QED BY <2>3 DEF p
<1>4. Range(<<"refunds">>) = {"refunds"}
  <2> DEFINE p == <<"refunds">>
  <2>1. DOMAIN p = 1..1 /\ p[1] = "refunds"
    OBVIOUS
  <2>2. 1..1 = {1}
    OBVIOUS
  <2> HIDE DEF p
  <2>3. Range(p) = {"refunds"}
    BY <2>1, <2>2 DEF Range
  <2> QED BY <2>3 DEF p
<1>5. Range(<<>>) = {}
  BY DEF Range
<1> QED BY <1>1, <1>2, <1>3, <1>4, <1>5

-----------------------------------------------------------------------------
(* The cash sales of a shift, and the cash refunds, row by row.              *)
SaleCash(s, v) == IF v \in CashSales(s) THEN sale[v].amount ELSE 0
RefundCash(s, w) == IF w \in CashRefunds(s) THEN note[w].amount ELSE 0

(* The parts of the cash are sums over all requests. *)
LEMMA PartSums ==
  ASSUME Books, NEW s \in Shifts
  PROVE  /\ \A v \in Requests : SaleCash(s, v) \in Int /\ RefundCash(s, v) \in Int
         /\ Part(s, "sales") = SumFunctionOnSet([v \in Requests |-> SaleCash(s, v)], Requests)
         /\ Part(s, "refunds") = -SumFunctionOnSet([v \in Requests |-> RefundCash(s, v)], Requests)
         /\ Part(s, "in") = moved[s].in /\ Part(s, "out") = -moved[s].out
         /\ \A p \in {"sales", "in", "out", "refunds"} : Part(s, p) \in Int
<1> DEFINE f == [v \in Requests |-> sale[v].amount]
           g == [v \in Requests |-> SaleCash(s, v)]
           h == [v \in Requests |-> note[v].amount]
           k == [v \in Requests |-> RefundCash(s, v)]
<1>1. \A v \in Requests : sale[v].amount \in Int /\ note[v].amount \in Int
  BY DEF Books, SaleType, NoteType
<1>2. \A v \in Requests : SaleCash(s, v) \in Int /\ RefundCash(s, v) \in Int
  BY <1>1 DEF SaleCash, RefundCash
<1>3. /\ \A v \in Requests : f[v] \in Int /\ h[v] \in Int /\ g[v] \in Int /\ k[v] \in Int
      /\ \A v \in Requests : g[v] = IF v \in CashSales(s) THEN f[v] ELSE 0
      /\ \A v \in Requests : k[v] = IF v \in CashRefunds(s) THEN h[v] ELSE 0
  BY <1>1, <1>2 DEF SaleCash, RefundCash
<1>4. CashSales(s) \in SUBSET Requests /\ CashRefunds(s) \in SUBSET Requests
  BY DEF CashSales, SalesOf, CashRefunds
<1>5. Part(s, "sales") = SumFunctionOnSet(f, CashSales(s))
  BY DEF Part
<1>6. Part(s, "refunds") = -SumFunctionOnSet(h, CashRefunds(s))
  BY DEF Part
<1>7. Part(s, "in") = moved[s].in /\ Part(s, "out") = -moved[s].out
  BY DEF Part
<1> HIDE DEF f, g, h, k
<1>8. SumFunctionOnSet(f, CashSales(s)) = SumFunctionOnSet(g, Requests)
  BY <1>3, <1>4, SumPart, RequestsAssumption
<1>9. SumFunctionOnSet(h, CashRefunds(s)) = SumFunctionOnSet(k, Requests)
  BY <1>3, <1>4, SumPart, RequestsAssumption
<1>10. SumFunctionOnSet(g, Requests) \in Int /\ SumFunctionOnSet(k, Requests) \in Int
  BY <1>3, SumInt, RequestsAssumption
<1>11. moved[s].in \in Nat /\ moved[s].out \in Nat
  BY DEF Books
<1>12. \A p \in {"sales", "in", "out", "refunds"} : Part(s, p) \in Int
  BY <1>5, <1>6, <1>7, <1>8, <1>9, <1>10, <1>11
<1> QED BY <1>2, <1>5, <1>6, <1>7, <1>8, <1>9, <1>12 DEF g, k

(* What the parts of the cash are. *)
PartFacts ==
  \A s \in Shifts :
    /\ \A v \in Requests : SaleCash(s, v) \in Int /\ RefundCash(s, v) \in Int
    /\ Part(s, "sales") = SumFunctionOnSet([v \in Requests |-> SaleCash(s, v)], Requests)
    /\ Part(s, "refunds") = -SumFunctionOnSet([v \in Requests |-> RefundCash(s, v)], Requests)
    /\ Part(s, "in") = moved[s].in /\ Part(s, "out") = -moved[s].out
    /\ \A p \in {"sales", "in", "out", "refunds"} : Part(s, p) \in Int

(* They are so before and after a step. *)
LEMMA PartFactsHold == (Books => PartFacts) /\ (Books' => PartFacts')
<1>1. Books => PartFacts
  BY PartSums DEF PartFacts
<1> QED BY <1>1, PTL

-----------------------------------------------------------------------------
(* A sale is booked. *)
LEMMA BooksSale ==
  ASSUME ShiftInv, BooksInv, NEW w \in Requests, CommitSale(w)
  PROVE  BooksInv'
<1> DEFINE q == req[w]
           new == [shift |-> q.shift, amount |-> q.amount, cash |-> q.cash, status |-> "COMPLETED"]
<1>0. /\ Books /\ Asked(w) /\ pc[w] = "checked" /\ q.kind = "sell"
      /\ q.shift \in Shifts /\ q.amount \in Nat /\ q.cash \in BOOLEAN
      /\ sale[w] = NoSale /\ note[w] = NoNote
  BY DEF BooksInv, CommitSale, Is, Asked
<1>1. /\ sale' = [sale EXCEPT ![w] = new]
      /\ drawer' = [drawer EXCEPT ![q.shift] = @ + IF q.cash THEN q.amount ELSE 0]
      /\ note' = note /\ moved' = moved /\ End(w)
  BY DEF CommitSale
<1>2. new \in SaleType /\ new.status = "COMPLETED" /\ new.shift = q.shift
  BY <1>0 DEF SaleType
<1> HIDE DEF new
<1>3. sale' \in [Requests -> SaleType] /\ drawer' \in [Shifts -> Int]
  <2>1. drawer[q.shift] \in Int
    BY <1>0 DEF Books
  <2> HIDE DEF q
  <2> QED BY <1>0, <1>1, <1>2, <2>1 DEF Books
<1>4. /\ sale'[w].status = "COMPLETED" /\ sale'[w].shift \in Shifts
      /\ \A v \in Requests : v # w => sale'[v] = sale[v]
  BY <1>0, <1>1, <1>2 DEF Books
<1>5. sale[w].status = "absent"
  BY <1>0 DEF NoSale
<1>6. Books'
  BY <1>0, <1>1, <1>3, <1>4, <1>5 DEF Books
<1>7. /\ \A v \in Requests : v # w => pc'[v] = pc[v] /\ req'[v] = req[v]
      /\ pc'[w] = "done" /\ req'[w].kind = "none"
  BY <1>1 DEF End, ShiftInv, Rows, NoReq
<1>8. \A v \in Requests : v # w => Asked(v)'
  BY <1>1, <1>4, <1>7, AskedOthers
<1>9. Asked(w)'
  BY <1>7 DEF Asked
<1> QED BY <1>6, <1>8, <1>9 DEF BooksInv

(* Money is put into a drawer or taken out. *)
LEMMA BooksMove ==
  ASSUME ShiftInv, BooksInv, NEW w \in Requests, Move(w)
  PROVE  /\ BooksInv'
         /\ moved'[req[w].shift] = [moved[req[w].shift] EXCEPT ![req[w].dir] = @ + req[w].amount]
         /\ \A s \in Shifts : s # req[w].shift => moved'[s] = moved[s]
<1> DEFINE q == req[w]
           s == q.shift
           row == [moved[s] EXCEPT ![q.dir] = @ + q.amount]
<1>0. /\ Books /\ Asked(w) /\ q.kind = "move"
      /\ s \in Shifts /\ q.amount \in Nat /\ q.dir \in {"in", "out"}
  BY DEF BooksInv, Move, Is, Asked
<1>1. /\ moved' = [moved EXCEPT ![s][q.dir] = @ + q.amount]
      /\ drawer' = [drawer EXCEPT ![s] = IF q.dir = "in" THEN @ + q.amount ELSE @ - q.amount]
      /\ note' = note /\ sale' = sale /\ End(w)
  BY DEF Move, books
<1> HIDE DEF q, s
<1>2. moved' = [moved EXCEPT ![s] = row]
  BY <1>1
<1>3. row \in [in : Nat, out : Nat]
  <2>1. moved[s] \in [in : Nat, out : Nat]
    BY <1>0 DEF Books
  <2> QED BY <1>0, <2>1
<1> HIDE DEF row
<1>4. moved' \in [Shifts -> [in : Nat, out : Nat]] /\ drawer' \in [Shifts -> Int]
  BY <1>0, <1>1, <1>2, <1>3 DEF Books
<1>5. Books'
  BY <1>0, <1>1, <1>4 DEF Books
<1>6. /\ \A v \in Requests : v # w => pc'[v] = pc[v] /\ req'[v] = req[v]
      /\ pc'[w] = "done" /\ req'[w].kind = "none"
  BY <1>1 DEF End, ShiftInv, Rows, NoReq
<1>7. \A v \in Requests : v # w => Asked(v)'
  BY <1>1, <1>6, AskedOthers
<1>8. Asked(w)'
  BY <1>6 DEF Asked
<1>9. moved'[s] = row /\ \A t \in Shifts : t # s => moved'[t] = moved[t]
  BY <1>0, <1>2 DEF Books
<1> QED BY <1>5, <1>7, <1>8, <1>9 DEF BooksInv, row, q, s

(* A sale is voided or part of it comes back. *)
LEMMA BooksRefund ==
  ASSUME ShiftInv, BooksInv, NEW w \in Requests, Refund(w)
  PROVE  /\ BooksInv'
         /\ sale'[req[w].sale] = [sale[req[w].sale] EXCEPT !.status = StatusAfter(req[w])]
         /\ \A v \in Requests : v # req[w].sale => sale'[v] = sale[v]
         /\ note'[w] = [sale |-> req[w].sale, amount |-> req[w].amount, cash |-> req[w].cash]
         /\ \A v \in Requests : v # w => note'[v] = note[v]
<1> DEFINE q == req[w]
           v0 == q.sale
           row == [sale[v0] EXCEPT !.status = StatusAfter(q)]
           new == [sale |-> q.sale, amount |-> q.amount, cash |-> q.cash]
<1>0. /\ Books /\ Asked(w) /\ pc[w] # "done"
      /\ v0 \in Requests /\ sale[v0].status # "absent" /\ q.amount \in Nat /\ q.cash \in BOOLEAN
      /\ sale[w] = NoSale
  BY DEF BooksInv, Refund, Asked
<1>1. /\ note' = [note EXCEPT ![w] = new]
      /\ sale' = [sale EXCEPT ![v0].status = StatusAfter(q)]
      /\ drawer' = [drawer EXCEPT ![sale[v0].shift] = @ - IF q.cash THEN q.amount ELSE 0]
      /\ moved' = moved /\ End(w)
  BY DEF Refund
<1>2. StatusAfter(q) \in {"VOIDED", "REFUNDED", "PARTIALLY_REFUNDED"}
  BY DEF StatusAfter
<1>3. new \in NoteType /\ new.sale = v0
  BY <1>0 DEF NoteType
<1> HIDE DEF q, v0, new
<1>4. sale' = [sale EXCEPT ![v0] = row]
  BY <1>1
<1>5. /\ sale[v0] \in SaleType /\ row \in SaleType /\ row.status = StatusAfter(q)
      /\ row.shift = sale[v0].shift /\ row.shift \in Shifts
  BY <1>0, <1>2 DEF Books, SaleType
<1> HIDE DEF row
<1>6. /\ sale'[v0] = row /\ \A v \in Requests : v # v0 => sale'[v] = sale[v]
      /\ sale' \in [Requests -> SaleType]
  BY <1>0, <1>4, <1>5 DEF Books
<1>7. /\ note'[w] = new /\ \A v \in Requests : v # w => note'[v] = note[v]
      /\ note' \in [Requests -> NoteType]
  BY <1>1, <1>3, <1>0 DEF Books
<1>8. drawer' \in [Shifts -> Int]
  <2>1. drawer[sale[v0].shift] \in Int
    BY <1>0, <1>5 DEF Books
  <2> QED BY <1>0, <1>1, <2>1 DEF Books
<1>9. \A v \in Requests : sale[v].status # "absent" => sale'[v].status # "absent"
  BY <1>2, <1>5, <1>6
<1>10. \A v \in Requests : IF sale'[v].status = "absent" THEN sale'[v] = NoSale
                                                         ELSE sale'[v].shift \in Shifts
  BY <1>0, <1>2, <1>5, <1>6 DEF Books
<1>11. \A v \in Requests : note'[v].cash => /\ note'[v].sale \in Requests
                                            /\ sale'[note'[v].sale].status # "absent"
  BY <1>0, <1>3, <1>7, <1>9 DEF Books
<1>12. Books'
  BY <1>0, <1>1, <1>6, <1>7, <1>8, <1>10, <1>11 DEF Books
<1>13. /\ \A v \in Requests : v # w => pc'[v] = pc[v] /\ req'[v] = req[v]
       /\ pc'[w] = "done" /\ req'[w].kind = "none"
  BY <1>1 DEF End, ShiftInv, Rows, NoReq
<1>14. \A v \in Requests : sale[v] = NoSale => sale'[v] = sale[v]
  BY <1>0, <1>6 DEF NoSale
<1>15. \A v \in Requests : v # w => Asked(v)'
  BY <1>7, <1>9, <1>13, <1>14, AskedOthers
<1>16. Asked(w)'
  BY <1>13 DEF Asked
<1> QED BY <1>6, <1>7, <1>12, <1>15, <1>16 DEF BooksInv, q, v0, row, new

(* The sum of a close goes up by the part it reads. *)
LEMMA AddEffect ==
  ASSUME ShiftInv, BooksInv, NEW w \in Requests, Add(w)
  PROVE  /\ req'[w].kind = "close" /\ req'[w].shift = req[w].shift
         /\ req[w].left \in Lefts /\ req[w].left # <<>> /\ req'[w].left = Tail(req[w].left)
         /\ req'[w].sum = req[w].sum + Part(req[w].shift, Head(req[w].left))
         /\ req[w].shift \in Shifts /\ Is(w, "close")
         /\ \A v \in Requests : v # w => req'[v] = req[v]
<1> DEFINE q == req[w]
           mid == [q EXCEPT !.left = Tail(@)]
           p == Part(q.shift, Head(q.left))
<1>1. pc[w] = "adding" /\ q.left # <<>> /\ DOMAIN req = Requests
  BY DEF Add, ShiftInv, Rows
<1>2. /\ CloseShape(q) /\ q.shift \in Shifts /\ q.kind = "close"
  BY <1>1 DEF ShiftInv, Reliable, Is
<1>3. q.left \in Lefts
  BY <1>2 DEF BooksInv, Asked
<1>4. req' = [req EXCEPT ![w] = [mid EXCEPT !.sum = @ + p]]
  BY DEF Add
<1>5. /\ DOMAIN mid = DOMAIN q /\ mid.kind = q.kind /\ mid.shift = q.shift
      /\ mid.left = Tail(q.left) /\ mid.sum = q.sum
  BY <1>2 DEF CloseShape
<1> HIDE DEF mid, p
<1>6. req'[w] = [mid EXCEPT !.sum = @ + p] /\ \A v \in Requests : v # w => req'[v] = req[v]
  BY <1>1, <1>4
<1>7. /\ req'[w].kind = q.kind /\ req'[w].shift = q.shift /\ req'[w].left = Tail(q.left)
      /\ req'[w].sum = q.sum + p
  BY <1>2, <1>5, <1>6 DEF CloseShape
<1> QED BY <1>1, <1>2, <1>3, <1>6, <1>7 DEF p, Is

(* The types of the books hold in every step. *)
LEMMA BooksStep == ShiftInv /\ BooksInv /\ [Next]_vars => BooksInv'
<1> SUFFICES ASSUME ShiftInv, BooksInv, [Next]_vars PROVE BooksInv'
  OBVIOUS
<1>0. Books /\ \A w \in Requests : Asked(w)
  BY DEF BooksInv
<1>1. CASE UNCHANGED vars
  BY <1>0, <1>1 DEF vars, BooksInv, Books, Asked
<1>2. ASSUME NEW w \in Requests, UNCHANGED <<books, moved, drawer>>, Asked(w)',
             \A v \in Requests : v # w => pc'[v] = pc[v] /\ req'[v] = req[v]
      PROVE  BooksInv'
  <2>1. Books' /\ sale' = sale /\ note' = note
    BY <1>0, <1>2 DEF Books, books
  <2>2. \A v \in Requests : v # w => Asked(v)'
    BY <1>2, <2>1, AskedOthers
  <2> QED BY <1>2, <2>1, <2>2 DEF BooksInv
<1>3. ASSUME NEW w \in Requests, End(w)
      PROVE  /\ Asked(w)'
             /\ \A v \in Requests : v # w => pc'[v] = pc[v] /\ req'[v] = req[v]
  BY <1>3 DEF End, ShiftInv, Rows, NoReq, Asked
<1>4. ASSUME NEW w \in Requests, Begin(w)
      PROVE  BooksInv'
  <2>1. Asked(w)' /\ \E q : Ask(w, q)
    BY <1>4, AskedBegin
  <2> QED BY <1>2, <2>1 DEF Ask, tills, ShiftInv, Rows
<1>5. ASSUME NEW w \in Requests, CheckShift(w)
      PROVE  BooksInv'
  <2>1. Asked(w)'
    BY <1>0, <1>5 DEF CheckShift, Asked, books, Is, ShiftInv, Rows
  <2> QED BY <1>2, <1>5, <2>1 DEF CheckShift, tills, ShiftInv, Rows
<1>6. ASSUME NEW w \in Requests, CreateShift(w) \/ CommitClose(w) \/ Fail(w)
      PROVE  BooksInv'
  <2>1. End(w) /\ UNCHANGED <<books, moved, drawer>>
    BY <1>6 DEF CreateShift, CommitClose, Fail, tills
  <2> QED BY <1>2, <1>3, <2>1
<1>7. ASSUME NEW w \in Requests, Add(w)
      PROVE  BooksInv'
  <2>1. /\ req'[w].kind = "close" /\ req'[w].shift = req[w].shift
        /\ req[w].left \in Lefts /\ req[w].left # <<>> /\ req'[w].left = Tail(req[w].left)
        /\ req'[w].sum = req[w].sum + Part(req[w].shift, Head(req[w].left))
        /\ req[w].shift \in Shifts /\ Is(w, "close")
        /\ \A v \in Requests : v # w => req'[v] = req[v]
    BY <1>7, AddEffect
  <2>2. req[w].sum \in Int
    BY <1>0, <2>1 DEF Asked, Is
  <2>3. Tail(req[w].left) \in Lefts /\ Part(req[w].shift, Head(req[w].left)) \in Int
    BY <1>0, <2>1, LeftsStep, PartSums
  <2>4. pc' = pc /\ pc[w] = "adding" /\ UNCHANGED <<books, moved, drawer>>
    BY <1>7 DEF Add, tills
  <2>5. Asked(w)'
    BY <1>0, <2>1, <2>2, <2>3, <2>4 DEF Asked, books
  <2> QED BY <1>2, <2>1, <2>4, <2>5
<1>8. ASSUME NEW w \in Requests, CheckStillOpen(w)
      PROVE  BooksInv'
  <2>1. CloseShape(req[w]) /\ req[w].kind = "close" /\ req[w].left = <<>>
    BY <1>8 DEF CheckStillOpen, ShiftInv, Reliable, Is
  <2>2. /\ req'[w].kind = "close" /\ req'[w].shift = req[w].shift
        /\ req'[w].left = <<>> /\ req'[w].sum = req[w].sum /\ pc'[w] = "checked"
        /\ \A v \in Requests : v # w => pc'[v] = pc[v] /\ req'[v] = req[v]
        /\ UNCHANGED <<books, moved, drawer>>
    BY <1>8, <2>1 DEF CheckStillOpen, CloseShape, ShiftInv, Rows, tills
  <2>3. Asked(w)'
    BY <1>0, <2>1, <2>2, <1>8 DEF Asked, Lefts, books, CheckStillOpen
  <2> QED BY <1>2, <2>2, <2>3
<1> QED BY <1>1, <1>4, <1>5, <1>6, <1>7, <1>8, BooksSale, BooksMove, BooksRefund DEF Next

(* The rows of the books keep their types. *)
THEOREM BooksHold == Spec => [](ShiftInv /\ BooksInv)
  BY BooksInit, BooksStep, ShiftInvInit, ShiftInvStep, PTL DEF Spec

-----------------------------------------------------------------------------
PartNames == {"sales", "in", "out", "refunds"}

(* The sums of a shift whose rows are the same are the same. *)
LEMMA SalesSame ==
  ASSUME Books, Books', NEW s \in Shifts, \A v \in Requests : SaleCash(s, v)' = SaleCash(s, v)
  PROVE  Part(s, "sales")' = Part(s, "sales")
<1>1. /\ \A v \in Requests : SaleCash(s, v) \in Int
      /\ Part(s, "sales") = SumFunctionOnSet([v \in Requests |-> SaleCash(s, v)], Requests)
      /\ Part(s, "sales")' = SumFunctionOnSet([v \in Requests |-> SaleCash(s, v)'], Requests)
  BY PartFactsHold DEF PartFacts
<1> QED BY <1>1

(* Of refunds, too. *)
LEMMA RefundsSame ==
  ASSUME Books, Books', NEW s \in Shifts, \A v \in Requests : RefundCash(s, v)' = RefundCash(s, v)
  PROVE  Part(s, "refunds")' = Part(s, "refunds")
<1>1. /\ Part(s, "refunds") = -SumFunctionOnSet([v \in Requests |-> RefundCash(s, v)], Requests)
      /\ Part(s, "refunds")' = -SumFunctionOnSet([v \in Requests |-> RefundCash(s, v)'], Requests)
  BY PartFactsHold DEF PartFacts
<1> QED BY <1>1

(* One row more adds its amount to the sum of the sales. *)
LEMMA SalesChange ==
  ASSUME Books, Books', NEW s \in Shifts, NEW w \in Requests, SaleCash(s, w) = 0,
         \A v \in Requests : v # w => SaleCash(s, v)' = SaleCash(s, v)
  PROVE  Part(s, "sales")' = Part(s, "sales") + SaleCash(s, w)'
<1> DEFINE f == [v \in Requests |-> SaleCash(s, v)]
           g == [v \in Requests |-> SaleCash(s, v)']
<1>1. /\ \A v \in Requests : SaleCash(s, v) \in Int /\ SaleCash(s, v)' \in Int
      /\ Part(s, "sales") = SumFunctionOnSet(f, Requests)
      /\ Part(s, "sales")' = SumFunctionOnSet(g, Requests)
      /\ Part(s, "sales") \in Int
  BY PartFactsHold DEF PartFacts
<1>2. f[w] = 0 /\ g[w] = SaleCash(s, w)' /\ g[w] \in Int
  BY <1>1
<1>3. \A v \in Requests : f[v] \in Int /\ g[v] \in Int
  BY <1>1
<1>4. SumFunctionOnSet(g, Requests) = SumFunctionOnSet(f, Requests) + g[w] - f[w]
  <2>1. \A v \in Requests \ {w} : f[v] = g[v]
    OBVIOUS
  <2>2. IsFiniteSet(Requests) /\ w \in Requests
    BY RequestsAssumption
  <2> HIDE DEF f, g
  <2> QED BY <1>3, <2>1, <2>2, SumChange
<1> HIDE DEF f, g
<1> QED BY <1>1, <1>2, <1>4

(* And to the sum of the refunds. *)
LEMMA RefundsChange ==
  ASSUME Books, Books', NEW s \in Shifts, NEW w \in Requests, RefundCash(s, w) = 0,
         \A v \in Requests : v # w => RefundCash(s, v)' = RefundCash(s, v)
  PROVE  Part(s, "refunds")' = Part(s, "refunds") - RefundCash(s, w)'
<1> DEFINE f == [v \in Requests |-> RefundCash(s, v)]
           g == [v \in Requests |-> RefundCash(s, v)']
<1>1. /\ \A v \in Requests : RefundCash(s, v) \in Int /\ RefundCash(s, v)' \in Int
      /\ Part(s, "refunds") = -SumFunctionOnSet(f, Requests)
      /\ Part(s, "refunds")' = -SumFunctionOnSet(g, Requests)
  BY PartFactsHold DEF PartFacts
<1>2. f[w] = 0 /\ g[w] = RefundCash(s, w)' /\ g[w] \in Int
  BY <1>1
<1>3. \A v \in Requests : f[v] \in Int /\ g[v] \in Int
  BY <1>1
<1>4. SumFunctionOnSet(g, Requests) = SumFunctionOnSet(f, Requests) + g[w] - f[w]
  <2>1. \A v \in Requests \ {w} : f[v] = g[v]
    OBVIOUS
  <2>2. IsFiniteSet(Requests) /\ w \in Requests
    BY RequestsAssumption
  <2> HIDE DEF f, g
  <2> QED BY <1>3, <2>1, <2>2, SumChange
<1> HIDE DEF f, g
<1>5. SumFunctionOnSet(f, Requests) \in Int
  BY <1>3, SumInt, RequestsAssumption
<1> QED BY <1>1, <1>2, <1>4, <1>5

(* d has been booked to part p of the cash of shift s, and nothing else.     *)
Booked(s, p, d) ==
  \A t \in Shifts, q \in PartNames : Part(t, q)' = Part(t, q) + (IF t = s /\ q = p THEN d ELSE 0)

(* Without new rows the parts are what they were. *)
LEMMA PartsSame ==
  ASSUME UNCHANGED <<sale, note, moved>>
  PROVE  \A t \in Shifts, q \in PartNames : Part(t, q)' = Part(t, q)
  BY DEF Part, CashSales, CashRefunds, SalesOf

(* A sale adds its cash. *)
LEMMA SaleEffect ==
  ASSUME ShiftInv, BooksInv, BooksInv', NEW w \in Requests, CommitSale(w)
  PROVE  Booked(req[w].shift, "sales", IF req[w].cash THEN req[w].amount ELSE 0)
<1> DEFINE q == req[w]
           d == IF q.cash THEN q.amount ELSE 0
<1>0. /\ Books /\ Books' /\ q.shift \in Shifts /\ q.amount \in Nat /\ q.cash \in BOOLEAN
      /\ sale[w] = NoSale /\ moved' = moved /\ note' = note
  BY DEF BooksInv, CommitSale, Is, Asked
<1>1. /\ sale'[w].shift = q.shift /\ sale'[w].amount = q.amount /\ sale'[w].cash = q.cash
      /\ sale'[w].status = "COMPLETED"
      /\ \A v \in Requests : v # w => sale'[v] = sale[v]
  BY <1>0 DEF CommitSale, Books
<1> HIDE DEF q
<1> SUFFICES ASSUME NEW s \in Shifts
             PROVE  \A p \in PartNames :
                      Part(s, p)' = Part(s, p) + (IF s = q.shift /\ p = "sales" THEN d ELSE 0)
  BY DEF Booked, q
<1>2. \A v \in Requests : v # w => SaleCash(s, v)' = SaleCash(s, v)
  BY <1>1 DEF SaleCash, CashSales, SalesOf
<1>3. SaleCash(s, w) = 0 /\ SaleCash(s, w)' = IF s = q.shift THEN d ELSE 0
  BY <1>0, <1>1 DEF SaleCash, CashSales, SalesOf, NoSale
<1>4. Part(s, "sales")' = Part(s, "sales") + SaleCash(s, w)'
  BY <1>0, <1>2, <1>3, SalesChange
<1>5. \A v \in Requests : RefundCash(s, v)' = RefundCash(s, v)
  <2> SUFFICES ASSUME NEW v \in Requests, note[v].cash
               PROVE  note[v].sale \in SalesOf(s)' <=> note[v].sale \in SalesOf(s)
    BY <1>0 DEF RefundCash, CashRefunds
  <2>1. note[v].sale # w /\ note[v].sale \in Requests
    BY <1>0 DEF Books, NoSale
  <2> QED BY <1>1, <2>1 DEF SalesOf
<1>6. Part(s, "refunds")' = Part(s, "refunds")
  BY <1>0, <1>5, RefundsSame
<1>7. Part(s, "in")' = Part(s, "in") /\ Part(s, "out")' = Part(s, "out")
  BY <1>0 DEF Part
<1>8. \A p \in PartNames : Part(s, p) \in Int
  BY <1>0, PartSums DEF PartNames
<1>9. Part(s, "sales")' = Part(s, "sales") + (IF s = q.shift THEN d ELSE 0)
  BY <1>3, <1>4
<1> HIDE DEF d
<1> QED BY <1>6, <1>7, <1>8, <1>9 DEF PartNames

(* A movement adds what is put in or takes off what is taken out. *)
LEMMA MoveEffect ==
  ASSUME ShiftInv, BooksInv, BooksInv', NEW w \in Requests, Move(w)
  PROVE  Booked(req[w].shift, req[w].dir,
                IF req[w].dir = "in" THEN req[w].amount ELSE -req[w].amount)
<1> DEFINE q == req[w]
           d == IF q.dir = "in" THEN q.amount ELSE -q.amount
<1>0. /\ Books /\ Books' /\ q.shift \in Shifts /\ q.amount \in Nat /\ q.dir \in {"in", "out"}
      /\ sale' = sale /\ note' = note
  BY DEF BooksInv, Move, Is, Asked, books
<1>1. /\ moved'[q.shift] = [moved[q.shift] EXCEPT ![q.dir] = @ + q.amount]
      /\ \A s \in Shifts : s # q.shift => moved'[s] = moved[s]
  BY BooksMove
<1>2. \A s \in Shifts : moved[s] \in [in : Nat, out : Nat]
  BY <1>0 DEF Books
<1> HIDE DEF q
<1> SUFFICES ASSUME NEW s \in Shifts
             PROVE  \A p \in PartNames :
                      Part(s, p)' = Part(s, p) + (IF s = q.shift /\ p = q.dir THEN d ELSE 0)
  BY DEF Booked, q
<1>3. Part(s, "sales")' = Part(s, "sales") /\ Part(s, "refunds")' = Part(s, "refunds")
  BY <1>0 DEF Part, CashSales, CashRefunds, SalesOf
<1>4. /\ Part(s, "in") = moved[s].in /\ Part(s, "out") = -moved[s].out
      /\ Part(s, "in")' = moved'[s].in /\ Part(s, "out")' = -moved'[s].out
  BY DEF Part
<1>5. \A p \in PartNames : Part(s, p) \in Int
  BY <1>0, PartSums DEF PartNames
<1>6. moved[s].in \in Nat /\ moved[s].out \in Nat
  BY <1>2
<1>7. CASE s # q.shift
  <2>1. Part(s, "in")' = Part(s, "in") /\ Part(s, "out")' = Part(s, "out")
    BY <1>1, <1>4, <1>7
  <2> HIDE DEF d
  <2> QED BY <1>3, <1>5, <1>7, <2>1 DEF PartNames
<1>8. CASE s = q.shift /\ q.dir = "in"
  <2>1. moved'[s].in = moved[s].in + q.amount /\ moved'[s].out = moved[s].out
    BY <1>0, <1>1, <1>2, <1>8
  <2>2. d = q.amount
    BY <1>8
  <2> HIDE DEF d
  <2> QED BY <1>0, <1>3, <1>4, <1>5, <1>8, <2>1, <2>2 DEF PartNames
<1>9. CASE s = q.shift /\ q.dir = "out"
  <2>1. moved'[s].out = moved[s].out + q.amount /\ moved'[s].in = moved[s].in
    BY <1>0, <1>1, <1>2, <1>9
  <2>2. d = -q.amount
    BY <1>9
  <2>3. Part(s, "out")' = Part(s, "out") + d
    BY <1>0, <1>4, <1>6, <2>1, <2>2
  <2> HIDE DEF d
  <2> QED BY <1>0, <1>3, <1>4, <1>5, <1>9, <2>1, <2>3 DEF PartNames
<1> QED BY <1>0, <1>7, <1>8, <1>9

(* A void or return takes off the cash it gives back; if it voids a cash     *)
(* sale, or one that had been voided, that sale leaves the cash or comes     *)
(* back.                                                                     *)
LEMMA RefundEffect ==
  ASSUME ShiftInv, BooksInv, BooksInv', NEW w \in Requests, Refund(w)
  PROVE  LET q == req[w]
             s == sale[q.sale].shift
             d == IF q.cash THEN -q.amount ELSE 0
         IN  /\ \A t \in Shifts, p \in PartNames : t # s => Part(t, p)' = Part(t, p)
             /\ ~(sale[q.sale].cash /\ "VOIDED" \in {StatusAfter(q), sale[q.sale].status})
                  => Booked(s, "refunds", d)
<1>1. req[w].sale \in Requests
  BY DEF BooksInv, Refund, Asked
<1>2. PICK v0 \in Requests : v0 = req[w].sale
  BY <1>1
<1> DEFINE q == req[w]
           s0 == sale[v0].shift
           d == IF q.cash THEN -q.amount ELSE 0
           void == sale[v0].cash /\ "VOIDED" \in {StatusAfter(q), sale[v0].status}
<1>0. /\ Books /\ Books' /\ v0 \in Requests /\ sale[v0].status # "absent"
      /\ q.amount \in Nat /\ q.cash \in BOOLEAN /\ sale[v0] \in SaleType
      /\ note[w] = NoNote /\ moved' = moved
  <2>1. Asked(w) /\ Books /\ pc[w] # "done" /\ q.kind \in {"void", "return"} /\ moved' = moved
    BY DEF BooksInv, Refund
  <2>2. sale[v0] \in SaleType
    BY <2>1 DEF Books
  <2> QED BY <1>2, <2>1, <2>2 DEF Asked, BooksInv
<1>3. /\ sale'[v0] = [sale[v0] EXCEPT !.status = StatusAfter(q)]
      /\ \A v \in Requests : v # v0 => sale'[v] = sale[v]
      /\ note'[w] = [sale |-> v0, amount |-> q.amount, cash |-> q.cash]
      /\ \A v \in Requests : v # w => note'[v] = note[v]
  BY <1>2, BooksRefund
<1>4. StatusAfter(q) \in {"VOIDED", "REFUNDED", "PARTIALLY_REFUNDED"}
  BY DEF StatusAfter
<1> DEFINE st == StatusAfter(q)
<1>5. /\ sale'[v0].shift = sale[v0].shift /\ sale'[v0].amount = sale[v0].amount
      /\ sale'[v0].cash = sale[v0].cash /\ sale'[v0].status = st
  BY <1>0, <1>3 DEF SaleType
<1>6. void <=> sale[v0].cash /\ (st = "VOIDED" \/ sale[v0].status = "VOIDED")
  OBVIOUS
<1>7. s0 = sale[v0].shift /\ (d = IF q.cash THEN -q.amount ELSE 0) /\ d \in Int
  BY <1>0
<1> HIDE DEF q, st, void, s0, d
<1>8. \A t \in Shifts : SalesOf(t)' = SalesOf(t)
  BY <1>3, <1>5 DEF SalesOf
<1>9. ASSUME NEW t \in Shifts
      PROVE  \A p \in PartNames :
               /\ Part(t, p) \in Int
               /\ t # s0 => Part(t, p)' = Part(t, p)
               /\ ~void => Part(t, p)' = Part(t, p) + (IF t = s0 /\ p = "refunds" THEN d ELSE 0)
  <2>1. \A v \in Requests : v # v0 => SaleCash(t, v)' = SaleCash(t, v)
    BY <1>3, <1>8 DEF SaleCash, CashSales
  <2>2. t # s0 \/ ~void => SaleCash(t, v0)' = SaleCash(t, v0)
    <3>1. v0 \in CashSales(t) <=> t = s0 /\ sale[v0].cash /\ sale[v0].status # "VOIDED"
      BY <1>0, <1>7 DEF CashSales, SalesOf
    <3>2. v0 \in CashSales(t)' <=> t = s0 /\ sale[v0].cash /\ st # "VOIDED"
      BY <1>0, <1>5, <1>7 DEF CashSales, SalesOf
    <3>3. t # s0 \/ ~void => (v0 \in CashSales(t)' <=> v0 \in CashSales(t))
      BY <1>6, <3>1, <3>2
    <3> QED BY <1>5, <3>3 DEF SaleCash
  <2>3. t # s0 \/ ~void => Part(t, "sales")' = Part(t, "sales")
    <3> SUFFICES ASSUME t # s0 \/ ~void PROVE Part(t, "sales")' = Part(t, "sales")
      OBVIOUS
    <3>1. \A v \in Requests : SaleCash(t, v)' = SaleCash(t, v)
      BY <2>1, <2>2
    <3> QED BY <1>0, <3>1, SalesSame
  <2>4. \A v \in Requests : v # w => RefundCash(t, v)' = RefundCash(t, v)
    BY <1>3, <1>8 DEF RefundCash, CashRefunds
  <2>5. RefundCash(t, w) = 0
    BY <1>0 DEF RefundCash, CashRefunds, NoNote
  <2>6. RefundCash(t, w)' = IF q.cash /\ t = s0 THEN q.amount ELSE 0
    <3>1. w \in CashRefunds(t)' <=> q.cash /\ v0 \in SalesOf(t)
      BY <1>3, <1>8 DEF CashRefunds
    <3>2. v0 \in SalesOf(t) <=> t = s0
      BY <1>0, <1>7 DEF SalesOf
    <3> QED BY <1>3, <3>1, <3>2 DEF RefundCash
  <2>7. Part(t, "refunds")' = Part(t, "refunds") - RefundCash(t, w)'
    BY <1>0, <2>4, <2>5, RefundsChange
  <2>8. Part(t, "in")' = Part(t, "in") /\ Part(t, "out")' = Part(t, "out")
    BY <1>0 DEF Part
  <2>9. \A p \in PartNames : Part(t, p) \in Int
    BY <1>0, PartSums DEF PartNames
  <2>10. Part(t, "refunds")' = Part(t, "refunds") + (IF t = s0 THEN d ELSE 0)
    BY <1>0, <1>7, <2>6, <2>7, <2>9 DEF PartNames
  <2> QED BY <1>7, <2>3, <2>8, <2>9, <2>10 DEF PartNames
<1> QED BY <1>2, <1>9 DEF Booked, q, s0, d, void

-----------------------------------------------------------------------------
(* The cash there should be in the drawer by the rows there are. *)
Cash(s) == Float + Part(s, "sales") + Part(s, "in") + Part(s, "out") + Part(s, "refunds")

(* The same of the parts that are not left to add up. *)
Got(s, p, left) == IF p \in Range(left) THEN 0 ELSE Part(s, p)

CashBut(s, left) == Float + Got(s, "sales", left) + Got(s, "in", left) + Got(s, "out", left)
                          + Got(s, "refunds", left)

(* Nothing has been booked to the shift past a close, and no sale of it has  *)
(* been voided.                                                              *)
Steady(s) == cause[s] \cap {"void", "missed"} = {}

(* What a close has added up of a steady shift is what there is now.         *)
SumKnown(w) ==
  \A s \in Shifts, left \in Lefts :
    Is(w, "close") /\ req[w].shift = s /\ req[w].left = left /\ Steady(s)
      => req[w].sum = CashBut(s, left)

(* The drawer holds what the rows say; so does the figure of a closed shift. *)
DrawerKnown(s) == /\ "void" \notin cause[s] => drawer[s] = Cash(s)
                  /\ Steady(s) /\ Status(s) = "CLOSED" => shift[s].expected = Cash(s)

CashInv == (\A s \in Shifts : DrawerKnown(s)) /\ (\A w \in Requests : SumKnown(w))

(* All parts together, none, and one more than before. *)
LEMMA CashParts ==
  ASSUME Books, NEW s \in Shifts
  PROVE  /\ CashBut(s, <<>>) = Cash(s) /\ CashBut(s, Parts) = Float
         /\ \A left \in Lefts : left # <<>> =>
              CashBut(s, Tail(left)) = CashBut(s, left) + Part(s, Head(left))
<1>1. \A p \in PartNames : Part(s, p) \in Int
  BY PartSums DEF PartNames
<1>2. Float \in Nat
  BY AmountsAssumption
<1>3. CashBut(s, <<>>) = Cash(s)
  BY LeftsRange DEF CashBut, Cash, Got
<1>4. CashBut(s, Parts) = Float
  BY <1>2, LeftsRange DEF CashBut, Got
<1>5. ASSUME NEW left \in Lefts, left # <<>>
      PROVE  CashBut(s, Tail(left)) = CashBut(s, left) + Part(s, Head(left))
  <2>1. CASE left = Parts /\ Head(left) = "sales" /\ Tail(left) = <<"in", "out", "refunds">>
    <3>1. /\ CashBut(s, left) = Float /\ Got(s, "in", Tail(left)) = 0
          /\ Got(s, "out", Tail(left)) = 0 /\ Got(s, "refunds", Tail(left)) = 0
          /\ Got(s, "sales", Tail(left)) = Part(s, "sales")
      BY <1>4, <2>1, LeftsRange DEF Got
    <3> QED BY <1>1, <1>2, <2>1, <3>1 DEF CashBut, PartNames
  <2>2. CASE left = <<"in", "out", "refunds">> /\ Head(left) = "in" /\ Tail(left) = <<"out", "refunds">>
    <3>1. /\ Got(s, "in", left) = 0 /\ Got(s, "out", left) = 0 /\ Got(s, "refunds", left) = 0
          /\ Got(s, "sales", left) = Part(s, "sales")
          /\ Got(s, "out", Tail(left)) = 0 /\ Got(s, "refunds", Tail(left)) = 0
          /\ Got(s, "sales", Tail(left)) = Part(s, "sales")
          /\ Got(s, "in", Tail(left)) = Part(s, "in")
      BY <2>2, LeftsRange DEF Got
    <3> QED BY <1>1, <1>2, <2>2, <3>1 DEF CashBut, PartNames
  <2>3. CASE left = <<"out", "refunds">> /\ Head(left) = "out" /\ Tail(left) = <<"refunds">>
    <3>1. /\ Got(s, "out", left) = 0 /\ Got(s, "refunds", left) = 0
          /\ Got(s, "sales", left) = Part(s, "sales") /\ Got(s, "in", left) = Part(s, "in")
          /\ Got(s, "refunds", Tail(left)) = 0
          /\ Got(s, "sales", Tail(left)) = Part(s, "sales")
          /\ Got(s, "in", Tail(left)) = Part(s, "in")
          /\ Got(s, "out", Tail(left)) = Part(s, "out")
      BY <2>3, LeftsRange DEF Got
    <3> QED BY <1>1, <1>2, <2>3, <3>1 DEF CashBut, PartNames
  <2>4. CASE left = <<"refunds">> /\ Head(left) = "refunds" /\ Tail(left) = <<>>
    <3>1. /\ Got(s, "refunds", left) = 0
          /\ Got(s, "sales", left) = Part(s, "sales") /\ Got(s, "in", left) = Part(s, "in")
          /\ Got(s, "out", left) = Part(s, "out")
          /\ Got(s, "sales", Tail(left)) = Part(s, "sales")
          /\ Got(s, "in", Tail(left)) = Part(s, "in")
          /\ Got(s, "out", Tail(left)) = Part(s, "out")
          /\ Got(s, "refunds", Tail(left)) = Part(s, "refunds")
      BY <2>4, LeftsRange DEF Got
    <3> QED BY <1>1, <1>2, <2>4, <3>1 DEF CashBut, PartNames
  <2> QED BY <1>5, <2>1, <2>2, <2>3, <2>4, LeftsStep
<1> QED BY <1>3, <1>4, <1>5

(* Parts that are the same make the same cash. *)
LEMMA CashSame ==
  ASSUME NEW s \in Shifts, \A p \in PartNames : Part(s, p)' = Part(s, p)
  PROVE  Cash(s)' = Cash(s) /\ \A left \in Lefts : CashBut(s, left)' = CashBut(s, left)
  BY DEF Cash, CashBut, Got, PartNames

(* A booking adds to the cash, but not to what leaves its part out. *)
LEMMA CashBooked ==
  ASSUME Books, NEW s \in Shifts, NEW p \in PartNames, NEW d \in Int, Booked(s, p, d)
  PROVE  /\ Cash(s)' = Cash(s) + d
         /\ \A left \in Lefts : p \in Range(left) => CashBut(s, left)' = CashBut(s, left)
<1>1. \A q \in PartNames : Part(s, q) \in Int
  BY PartSums DEF PartNames
<1>2. Float \in Nat
  BY AmountsAssumption
<1>3. \A q \in PartNames : Part(s, q)' = IF q = p THEN Part(s, q) + d ELSE Part(s, q)
  BY <1>1 DEF Booked
<1>4. Cash(s)' = Cash(s) + d
  BY <1>1, <1>2, <1>3 DEF Cash, PartNames
<1>5. ASSUME NEW left \in Lefts, p \in Range(left)
      PROVE  CashBut(s, left)' = CashBut(s, left)
  <2>1. \A q \in PartNames : Got(s, q, left)' = Got(s, q, left)
    BY <1>3, <1>5 DEF Got
  <2> QED BY <2>1 DEF CashBut, PartNames
<1> QED BY <1>4, <1>5

(* At the start the drawers hold the opening float. *)
LEMMA CashInit == Init => CashInv
<1> SUFFICES ASSUME Init PROVE CashInv
  OBVIOUS
<1>1. Books
  BY BooksInit DEF BooksInv
<1>2. ASSUME NEW s \in Shifts
      PROVE  Cash(s) = Float
  <2> DEFINE f == [v \in Requests |-> SaleCash(s, v)]
             g == [v \in Requests |-> RefundCash(s, v)]
  <2>1. \A v \in Requests : f[v] = 0 /\ g[v] = 0
    BY DEF Init, SaleCash, RefundCash, CashSales, CashRefunds, NoSale, NoNote
  <2>2. /\ Part(s, "sales") = SumFunctionOnSet(f, Requests)
        /\ Part(s, "refunds") = -SumFunctionOnSet(g, Requests)
        /\ Part(s, "in") = moved[s].in /\ Part(s, "out") = -moved[s].out
    BY <1>1, PartSums
  <2> HIDE DEF f, g
  <2>3. SumFunctionOnSet(f, Requests) = 0 /\ SumFunctionOnSet(g, Requests) = 0
    BY <2>1, SumZero, RequestsAssumption
  <2>4. moved[s].in = 0 /\ moved[s].out = 0
    BY DEF Init
  <2> QED BY <2>2, <2>3, <2>4, AmountsAssumption DEF Cash
<1>3. ASSUME NEW s \in Shifts
      PROVE  DrawerKnown(s)
  <2>1. Status(s) # "CLOSED" /\ drawer[s] = Float
    BY DEF Init, Status, Absent
  <2> QED BY <1>2, <2>1 DEF DrawerKnown
<1>4. \A w \in Requests : SumKnown(w)
  BY DEF Init, SumKnown, Is, NoReq
<1> QED BY <1>3, <1>4 DEF CashInv

(* A step that books nothing. *)
LEMMA CashQuiet ==
  ASSUME CashInv, UNCHANGED <<sale, note, moved, drawer>>, NEW w \in Requests,
         \A s \in Shifts : cause[s] \subseteq cause'[s],
         \A v \in Requests : v # w => req'[v] = req[v],
         SumKnown(w)',
         \A s \in Shifts : \/ shift'[s].status # "CLOSED"
                           \/ shift'[s] = shift[s]
                           \/ Steady(s)' => shift'[s].expected = Cash(s)
  PROVE  CashInv'
<1>1. \A s \in Shifts : /\ Cash(s)' = Cash(s)
                        /\ \A left \in Lefts : CashBut(s, left)' = CashBut(s, left)
  BY PartsSame, CashSame
<1>2. \A s \in Shifts : /\ Steady(s)' => Steady(s)
                        /\ "void" \notin cause'[s] => "void" \notin cause[s]
  BY DEF Steady
<1>3. ASSUME NEW s \in Shifts
      PROVE  DrawerKnown(s)'
  <2>1. DrawerKnown(s)
    BY DEF CashInv
  <2> QED BY <1>1, <1>2, <2>1 DEF DrawerKnown, Status
<1>4. ASSUME NEW v \in Requests, v # w
      PROVE  SumKnown(v)'
  <2>1. SumKnown(v) /\ req'[v] = req[v]
    BY <1>4 DEF CashInv
  <2> QED BY <1>1, <1>2, <2>1 DEF SumKnown, Is
<1> QED BY <1>3, <1>4 DEF CashInv

(* A step that books d to part p of shift s, which tells if a close has      *)
(* missed it.                                                                *)
LEMMA CashBooking ==
  ASSUME Books, CashInv, NEW w \in Requests, NEW s \in Shifts, NEW p \in PartNames, NEW d \in Int,
         shift' = shift,
         drawer'[s] = drawer[s] + d, \A t \in Shifts : t # s => drawer'[t] = drawer[t],
         \A t \in Shifts : cause[t] \subseteq cause'[t],
         \A v \in Requests : v # w => req'[v] = req[v],
         req'[w].kind = "none", ~Is(w, "close"),
         \A t \in Shifts, q \in PartNames : t # s => Part(t, q)' = Part(t, q),
         "void" \notin cause'[s] => /\ Booked(s, p, d)
                                    /\ d # 0 /\ Missed(s, p) => "missed" \in cause'[s]
  PROVE  CashInv'
<1>1. \A t \in Shifts : t # s => /\ Cash(t)' = Cash(t)
                                 /\ \A left \in Lefts : CashBut(t, left)' = CashBut(t, left)
  BY CashSame
<1>2. \A t \in Shifts : /\ Steady(t)' => Steady(t)
                        /\ "void" \notin cause'[t] => "void" \notin cause[t]
  BY DEF Steady
<1>3. "void" \notin cause'[s] =>
        /\ Cash(s)' = Cash(s) + d
        /\ \A left \in Lefts : p \in Range(left) => CashBut(s, left)' = CashBut(s, left)
  BY CashBooked
<1>4. "void" \notin cause'[s] /\ d = 0 =>
        /\ Cash(s)' = Cash(s)
        /\ \A left \in Lefts : CashBut(s, left)' = CashBut(s, left)
  <2> SUFFICES ASSUME "void" \notin cause'[s], d = 0
               PROVE  \A q \in PartNames : Part(s, q)' = Part(s, q)
    BY CashSame
  <2>1. \A q \in PartNames : Part(s, q) \in Int
    BY PartSums DEF PartNames
  <2> QED BY <2>1 DEF Booked
<1>5. Steady(s)' => "void" \notin cause'[s] /\ (d = 0 \/ ~Missed(s, p))
  BY DEF Steady
<1>6. ASSUME NEW t \in Shifts
      PROVE  DrawerKnown(t)'
  <2>1. DrawerKnown(t)
    BY DEF CashInv
  <2>2. CASE t # s
    BY <1>1, <1>2, <2>1, <2>2 DEF DrawerKnown, Status
  <2>3. CASE t = s
    <3>1. "void" \notin cause'[s] => drawer'[s] = Cash(s)'
      BY <1>2, <1>3, <2>1, <2>3 DEF DrawerKnown
    <3>2. Steady(s)' /\ Status(s)' = "CLOSED" => shift'[s].expected = Cash(s)'
      <4> SUFFICES ASSUME Steady(s)', Status(s) = "CLOSED" PROVE shift'[s].expected = Cash(s)'
        BY DEF Status
      <4>1. Missed(s, p)
        BY DEF Missed, Status
      <4>2. d = 0 /\ "void" \notin cause'[s]
        BY <1>5, <4>1
      <4> QED BY <1>2, <1>4, <2>1, <2>3, <4>2 DEF DrawerKnown
    <3> QED BY <2>3, <3>1, <3>2 DEF DrawerKnown
  <2> QED BY <2>2, <2>3
<1>7. ASSUME NEW v \in Requests
      PROVE  SumKnown(v)'
  <2>1. CASE v = w
    BY <2>1 DEF SumKnown, Is
  <2>2. CASE v # w
    <3> SUFFICES ASSUME NEW t \in Shifts, NEW left \in Lefts,
                        Is(v, "close"), req[v].shift = t, req[v].left = left, Steady(t)'
                 PROVE  req[v].sum = CashBut(t, left)'
      BY <2>2 DEF SumKnown, Is
    <3>1. req[v].sum = CashBut(t, left)
      BY <1>2 DEF CashInv, SumKnown
    <3>2. CASE t # s
      BY <1>1, <3>1, <3>2
    <3>3. CASE t = s
      <4>1. p \notin Range(left) => Missed(s, p)
        BY <3>3 DEF Missed
      <4>2. CASE d = 0
        BY <1>4, <1>5, <3>1, <3>3, <4>2
      <4>3. CASE d # 0
        BY <1>3, <1>5, <3>1, <3>3, <4>1, <4>3
      <4> QED BY <4>2, <4>3
    <3> QED BY <3>2, <3>3
  <2> QED BY <2>1, <2>2
<1> QED BY <1>6, <1>7 DEF CashInv

(* No step parts the drawer from what the rows say. *)
LEMMA CashStep == ShiftInv /\ BooksInv /\ BooksInv' /\ CashInv /\ [Next]_vars => CashInv'
<1> SUFFICES ASSUME ShiftInv, BooksInv, BooksInv', CashInv, [Next]_vars PROVE CashInv'
  OBVIOUS
<1>0. Books /\ Books' /\ (\A w \in Requests : Asked(w)) /\ \A w \in Requests : SumKnown(w)
  BY DEF BooksInv, CashInv
<1>1. ASSUME UNCHANGED <<sale, note, moved>>, NEW s \in Shifts
      PROVE  /\ Cash(s)' = Cash(s)
             /\ \A left \in Lefts : CashBut(s, left)' = CashBut(s, left)
  BY <1>1, PartsSame, CashSame
<1>2. ASSUME NEW w \in Requests, End(w)
      PROVE  /\ req'[w].kind = "none" /\ SumKnown(w)'
             /\ \A v \in Requests : v # w => req'[v] = req[v]
  BY <1>2 DEF End, ShiftInv, Rows, NoReq, SumKnown, Is
<1>3. CASE UNCHANGED vars
  <2>1. UNCHANGED <<sale, note, moved>> /\ req' = req /\ cause' = cause /\ shift' = shift /\ drawer' = drawer
    BY <1>3 DEF vars
  <2>2. \A w \in Requests : SumKnown(w)'
    BY <1>0, <1>1, <2>1 DEF SumKnown, Is, Steady
  <2>3. \A s \in Shifts : DrawerKnown(s)'
    BY <1>1, <2>1 DEF CashInv, DrawerKnown, Steady, Status
  <2> QED BY <2>2, <2>3 DEF CashInv
<1>4. ASSUME NEW w \in Requests, Begin(w)
      PROVE  CashInv'
  <2>1. PICK q : Ask(w, q)
    BY <1>4, AskedBegin
  <2>2. /\ UNCHANGED <<sale, note, moved, drawer, cause, shift>>
        /\ \A v \in Requests : v # w => req'[v] = req[v]
        /\ req'[w] = q
    BY <2>1 DEF Ask, tills, books, ShiftInv, Rows
  <2>3. SumKnown(w)'
    <3> SUFFICES ASSUME NEW s \in Shifts, NEW left \in Lefts,
                        q.kind = "close", q.shift = s, q.left = left
                 PROVE  q.sum = CashBut(s, left)'
      BY <2>2 DEF SumKnown, Is
    <3>1. ReadForClose(w)
      BY <1>4, <2>2 DEF Begin, ReadForOpen, Resolve, ReadForMove, ReadForVoid, ReadForReturn,
                        Ask, ShiftInv, Rows
    <3>2. q.left = Parts /\ q.sum = Float
      BY <2>2, <3>1 DEF ReadForClose, Ask, ShiftInv, Rows
    <3>3. CashBut(s, Parts) = Float /\ Parts \in Lefts
      BY <1>0, CashParts DEF Lefts
    <3> QED BY <1>1, <2>2, <3>2, <3>3
  <2> QED BY <2>2, <2>3, CashQuiet
<1>5. ASSUME NEW w \in Requests, CheckShift(w) \/ CheckStillOpen(w)
      PROVE  CashInv'
  <2>1. /\ UNCHANGED <<sale, note, moved, drawer, cause, shift>>
        /\ \A v \in Requests : v # w => req'[v] = req[v]
    BY <1>5 DEF CheckShift, CheckStillOpen, tills, books, ShiftInv, Rows
  <2>2. /\ req'[w].kind = req[w].kind
        /\ Is(w, "close") => /\ req'[w].shift = req[w].shift /\ req'[w].left = req[w].left
                             /\ req'[w].sum = req[w].sum
    <3>1. CASE CheckShift(w)
      BY <3>1 DEF CheckShift
    <3>2. CASE CheckStillOpen(w)
      <4>1. CloseShape(req[w])
        BY <3>2 DEF CheckStillOpen, ShiftInv, Reliable
      <4> QED BY <3>2, <4>1 DEF CheckStillOpen, CloseShape, ShiftInv, Rows
    <3> QED BY <1>5, <3>1, <3>2
  <2>3. \A s \in Shifts, left \in Lefts : CashBut(s, left)' = CashBut(s, left)
    BY <1>1, <2>1
  <2>4. SumKnown(w)'
    <3> SUFFICES ASSUME NEW s \in Shifts, NEW left \in Lefts,
                        req'[w].kind = "close", req'[w].shift = s, req'[w].left = left, Steady(s)'
                 PROVE  req'[w].sum = CashBut(s, left)'
      BY DEF SumKnown, Is
    <3>1. Is(w, "close") /\ req[w].shift = s /\ req[w].left = left /\ req'[w].sum = req[w].sum
      BY <2>2 DEF Is
    <3>2. Steady(s)
      BY <2>1 DEF Steady
    <3>3. req[w].sum = CashBut(s, left)
      BY <1>0, <3>1, <3>2 DEF SumKnown
    <3> QED BY <2>3, <3>1, <3>3
  <2> QED BY <2>1, <2>4, CashQuiet
<1>6. ASSUME NEW w \in Requests, Fail(w)
      PROVE  CashInv'
  BY <1>2, <1>6, CashQuiet DEF Fail, tills, books
<1>7. ASSUME NEW w \in Requests, Add(w)
      PROVE  CashInv'
  <2>1. /\ req'[w].kind = "close" /\ req'[w].shift = req[w].shift
        /\ req[w].left \in Lefts /\ req[w].left # <<>> /\ req'[w].left = Tail(req[w].left)
        /\ req'[w].sum = req[w].sum + Part(req[w].shift, Head(req[w].left))
        /\ req[w].shift \in Shifts /\ Is(w, "close")
        /\ \A v \in Requests : v # w => req'[v] = req[v]
    BY <1>0, <1>7, AddEffect
  <2>2. UNCHANGED <<sale, note, moved, drawer, cause, shift>>
    BY <1>7 DEF Add, tills, books
  <2>3. PICK s \in Shifts, left \in Lefts : req[w].shift = s /\ req[w].left = left
    BY <2>1
  <2>4. SumKnown(w)'
    <3> SUFFICES ASSUME Steady(s)' PROVE req'[w].sum = CashBut(s, Tail(left))'
      BY <2>1, <2>3 DEF SumKnown, Is
    <3>1. req[w].sum = CashBut(s, left)
      BY <1>0, <2>1, <2>2, <2>3 DEF SumKnown, Steady
    <3>2. CashBut(s, Tail(left)) = CashBut(s, left) + Part(s, Head(left)) /\ Tail(left) \in Lefts
      BY <1>0, <2>1, <2>3, CashParts, LeftsStep
    <3> QED BY <1>1, <2>1, <2>2, <2>3, <3>1, <3>2
  <2> QED BY <2>1, <2>2, <2>4, CashQuiet
<1>8. ASSUME NEW w \in Requests, CreateShift(w)
      PROVE  CashInv'
  <2>1. PICK s \in Shifts \ Opened :
          /\ shift' = [shift EXCEPT ![s] = Inserted(req[w].register, req[w].cashier,
                                                    Cardinality(Opened) + 1)]
          /\ Blame(s, If(ShiftsOf(req[w].register) # req[w].seen, "opens"))
    BY <1>8 DEF CreateShift, Inserted
  <2>2. shift'[s].status = "OPEN" /\ \A t \in Shifts : t # s => shift'[t] = shift[t]
    BY <2>1, NewRow DEF ShiftInv, Rows
  <2>3. \A t \in Shifts : cause[t] \subseteq cause'[t]
    BY <2>1, BlameAdds
  <2> QED BY <1>2, <1>8, <2>2, <2>3, CashQuiet DEF CreateShift, books
<1>9. ASSUME NEW w \in Requests, CommitClose(w)
      PROVE  CashInv'
  <2>1. req[w].shift \in Shifts /\ req[w].left = <<>> /\ Is(w, "close") /\ <<>> \in Lefts
    BY <1>0, <1>9 DEF CommitClose, ShiftInv, Reliable, Asked, Is, Lefts
  <2>2. PICK s \in Shifts : s = req[w].shift
    BY <2>1
  <2>3. /\ shift' = [shift EXCEPT ![s].status = "CLOSED", ![s].expected = req[w].sum, ![s].closes = @ + 1]
        /\ Blame(s, If(shift[s].closes # req[w].seen, "closes"))
        /\ End(w) /\ UNCHANGED <<sale, note, moved, drawer>>
    BY <1>9, <2>2 DEF CommitClose, books
  <2>4. \A t \in Shifts : cause[t] \subseteq cause'[t]
    BY <2>3, BlameAdds
  <2>5. \A t \in Shifts : t # s => shift'[t] = shift[t]
    BY <2>3 DEF ShiftInv, Rows
  <2>6. shift'[s].expected = req[w].sum
    BY <2>3 DEF ShiftInv, Rows, RowShape
  <2>7. Steady(s)' => shift'[s].expected = Cash(s)
    <3> SUFFICES ASSUME Steady(s)' PROVE req[w].sum = Cash(s)
      BY <2>6
    <3>1. Steady(s)
      BY <2>4 DEF Steady
    <3>2. req[w].sum = CashBut(s, <<>>)
      BY <1>0, <2>1, <2>2, <3>1 DEF SumKnown
    <3> QED BY <1>0, <3>2, CashParts
  <2> QED BY <1>2, <2>3, <2>4, <2>5, <2>7, CashQuiet
<1>10. ASSUME NEW w \in Requests, CommitSale(w)
      PROVE  CashInv'
  <2>1. /\ req[w].shift \in Shifts /\ req[w].amount \in Nat /\ req[w].cash \in BOOLEAN
        /\ ~Is(w, "close")
    BY <1>0, <1>10 DEF CommitSale, Asked, Is
  <2>2. PICK s \in Shifts : s = req[w].shift
    BY <2>1
  <2>3. PICK d \in Int : d = IF req[w].cash THEN req[w].amount ELSE 0
    BY <2>1
  <2>4. /\ drawer' = [drawer EXCEPT ![s] = @ + d] /\ shift' = shift /\ End(w)
        /\ Blame(s, If(req[w].cash /\ Missed(s, "sales"), "missed"))
    BY <1>10, <2>2, <2>3 DEF CommitSale
  <2>5. Booked(s, "sales", d) /\ "sales" \in PartNames
    BY <1>10, <2>2, <2>3, SaleEffect DEF PartNames
  <2>6. d # 0 /\ Missed(s, "sales") => "missed" \in cause'[s]
    BY <2>3, <2>4, BlameAdds DEF If
  <2>7. \A t \in Shifts : cause[t] \subseteq cause'[t]
    BY <2>4, BlameAdds
  <2>8. drawer'[s] = drawer[s] + d /\ \A t \in Shifts : t # s => drawer'[t] = drawer[t]
    BY <1>0, <2>4 DEF Books
  <2>9. \A t \in Shifts, q \in PartNames : t # s => Part(t, q)' = Part(t, q)
    <3>1. \A t \in Shifts, q \in PartNames : Part(t, q) \in Int
      BY <1>0, PartSums DEF PartNames
    <3> QED BY <2>5, <3>1 DEF Booked
  <2> QED BY <1>0, <1>2, <2>1, <2>4, <2>5, <2>6, <2>7, <2>8, <2>9, CashBooking
<1>11. ASSUME NEW w \in Requests, Move(w)
      PROVE  CashInv'
  <2>1. /\ req[w].shift \in Shifts /\ req[w].amount \in Nat /\ req[w].dir \in {"in", "out"}
        /\ ~Is(w, "close")
    BY <1>0, <1>11 DEF Move, Asked, Is
  <2>2. PICK s \in Shifts : s = req[w].shift
    BY <2>1
  <2>3. PICK d \in Int : d = IF req[w].dir = "in" THEN req[w].amount ELSE -req[w].amount
    BY <2>1
  <2>4. PICK p \in PartNames : p = req[w].dir
    BY <2>1 DEF PartNames
  <2>5. /\ drawer' = [drawer EXCEPT ![s] = IF req[w].dir = "in" THEN @ + req[w].amount
                                                                ELSE @ - req[w].amount]
        /\ shift' = shift /\ End(w)
        /\ Blame(s, If(Missed(s, p), "missed"))
    BY <1>11, <2>2, <2>4 DEF Move
  <2>6. Booked(s, p, d)
    BY <1>11, <2>2, <2>3, <2>4, MoveEffect
  <2>7. Missed(s, p) => "missed" \in cause'[s]
    BY <2>5, BlameAdds DEF If
  <2>8. \A t \in Shifts : cause[t] \subseteq cause'[t]
    BY <2>5, BlameAdds
  <2>9. drawer'[s] = drawer[s] + d /\ \A t \in Shifts : t # s => drawer'[t] = drawer[t]
    <3>1. drawer[s] \in Int
      BY <1>0 DEF Books
    <3> QED BY <1>0, <2>1, <2>3, <2>5, <3>1 DEF Books
  <2>10. \A t \in Shifts, q \in PartNames : t # s => Part(t, q)' = Part(t, q)
    <3>1. \A t \in Shifts, q \in PartNames : Part(t, q) \in Int
      BY <1>0, PartSums DEF PartNames
    <3> QED BY <2>6, <3>1 DEF Booked
  <2> QED BY <1>0, <1>2, <2>1, <2>5, <2>6, <2>7, <2>8, <2>9, <2>10, CashBooking
<1>12. ASSUME NEW w \in Requests, Refund(w)
       PROVE  CashInv'
  <2>1. /\ req[w].amount \in Nat /\ req[w].cash \in BOOLEAN /\ ~Is(w, "close")
        /\ sale[req[w].sale].shift \in Shifts
    BY <1>0, <1>12 DEF Refund, Asked, Is, Books
  <2>2. PICK s \in Shifts : s = sale[req[w].sale].shift
    BY <2>1
  <2>3. PICK d \in Int : d = IF req[w].cash THEN -req[w].amount ELSE 0
    BY <2>1
  <2> DEFINE void == sale[req[w].sale].cash /\ "VOIDED" \in {StatusAfter(req[w]), sale[req[w].sale].status}
  <2>4. /\ drawer' = [drawer EXCEPT ![s] = @ - IF req[w].cash THEN req[w].amount ELSE 0]
        /\ shift' = shift /\ End(w)
        /\ Blame(s, If(req[w].cash /\ Missed(s, "refunds"), "missed") \cup If(void, "void"))
    BY <1>12, <2>2 DEF Refund
  <2>5. /\ \A t \in Shifts, p \in PartNames : t # s => Part(t, p)' = Part(t, p)
        /\ ~void => Booked(s, "refunds", d)
    BY <1>12, <2>2, <2>3, RefundEffect
  <2> HIDE DEF void
  <2>6. /\ d # 0 /\ Missed(s, "refunds") => "missed" \in cause'[s]
        /\ void => "void" \in cause'[s]
    BY <2>3, <2>4, BlameAdds DEF If
  <2>7. \A t \in Shifts : cause[t] \subseteq cause'[t]
    BY <2>4, BlameAdds
  <2>8. drawer'[s] = drawer[s] + d /\ \A t \in Shifts : t # s => drawer'[t] = drawer[t]
    <3>1. drawer[s] \in Int
      BY <1>0 DEF Books
    <3> QED BY <1>0, <2>1, <2>3, <2>4, <3>1 DEF Books
  <2>9. "refunds" \in PartNames
    BY DEF PartNames
  <2> QED BY <1>0, <1>2, <2>1, <2>4, <2>5, <2>6, <2>7, <2>8, <2>9, CashBooking
<1> QED BY <1>3, <1>4, <1>5, <1>6, <1>7, <1>8, <1>9, <1>10, <1>11, <1>12 DEF Next

-----------------------------------------------------------------------------
(* A set with one element more, and its sum. *)
LEMMA SumOneMore ==
  ASSUME NEW S, IsFiniteSet(S), NEW x, x \notin S, NEW T, T = S \cup {x},
         NEW f, f[x] \in Int, \A y \in S : f[y] \in Int
  PROVE  IsFiniteSet(T) /\ SumFunctionOnSet(f, T) = f[x] + SumFunctionOnSet(f, S)
<1>1. IsFiniteSet(S \cup {x})
  BY FS_AddElement
<1>2. SumFunctionOnSet(f, S \cup {x}) = f[x] + SumFunctionOnSet(f, S)
  BY SumAdd
<1> QED BY <1>1, <1>2

(* The report's expected cash is the cash by the rows. *)
LEMMA ReportedCash ==
  ASSUME Books, NEW s \in Shifts
  PROVE  ReportSnapshot(s).expected = Cash(s)
<1> DEFINE f == [i \in DOMAIN Parts |-> Part(s, Parts[i])]
<1>1. DOMAIN Parts = {1, 2, 3, 4} /\ Parts[1] = "sales" /\ Parts[2] = "in" /\ Parts[3] = "out"
      /\ Parts[4] = "refunds"
  BY DEF Parts
<1>2. \A p \in PartNames : Part(s, p) \in Int
  BY PartSums DEF PartNames
<1>3. /\ f[1] = Part(s, "sales") /\ f[2] = Part(s, "in") /\ f[3] = Part(s, "out")
      /\ f[4] = Part(s, "refunds")
  BY <1>1
<1>4. ReportSnapshot(s).expected = Float + SumFunctionOnSet(f, DOMAIN Parts)
  BY DEF ReportSnapshot
<1> HIDE DEF f
<1>5. \A i \in {1, 2, 3, 4} : f[i] \in Int
  BY <1>2, <1>3 DEF PartNames
<1>6. SumFunctionOnSet(f, {}) = 0 /\ IsFiniteSet({})
  BY SumEmpty, FS_EmptySet
<1>7. SumFunctionOnSet(f, {1}) = f[1] + 0 /\ IsFiniteSet({1})
  <2>1. PICK S : S = {}
    OBVIOUS
  <2>2. PICK T : T = {1}
    OBVIOUS
  <2>3. T = S \cup {1} /\ 1 \notin S
    BY <2>1, <2>2
  <2>4. f[1] \in Int /\ \A y \in S : f[y] \in Int
    BY <1>5, <2>1
  <2>5. IsFiniteSet(S)
    BY <1>6, <2>1
  <2>6. IsFiniteSet(T)
    BY <2>3, <2>4, <2>5, SumOneMore
  <2>7. SumFunctionOnSet(f, T) = f[1] + SumFunctionOnSet(f, S)
    BY <2>3, <2>4, <2>5, SumOneMore
  <2>8. SumFunctionOnSet(f, S) = 0
    BY <1>6, <2>1
  <2> QED BY <2>2, <2>6, <2>7, <2>8
<1>8. SumFunctionOnSet(f, {1, 2}) = f[2] + (f[1] + 0) /\ IsFiniteSet({1, 2})
  <2>1. PICK S : S = {1}
    OBVIOUS
  <2>2. PICK T : T = {1, 2}
    OBVIOUS
  <2>3. T = S \cup {2} /\ 2 \notin S
    BY <2>1, <2>2
  <2>4. f[2] \in Int /\ \A y \in S : f[y] \in Int
    BY <1>5, <2>1
  <2>5. IsFiniteSet(S)
    BY <1>7, <2>1
  <2>6. IsFiniteSet(T)
    BY <2>3, <2>4, <2>5, SumOneMore
  <2>7. SumFunctionOnSet(f, T) = f[2] + SumFunctionOnSet(f, S)
    BY <2>3, <2>4, <2>5, SumOneMore
  <2>8. SumFunctionOnSet(f, S) = f[1] + 0
    BY <1>7, <2>1
  <2> QED BY <2>2, <2>6, <2>7, <2>8
<1>9. SumFunctionOnSet(f, {1, 2, 3}) = f[3] + (f[2] + (f[1] + 0)) /\ IsFiniteSet({1, 2, 3})
  <2>1. PICK S : S = {1, 2}
    OBVIOUS
  <2>2. PICK T : T = {1, 2, 3}
    OBVIOUS
  <2>3. T = S \cup {3} /\ 3 \notin S
    BY <2>1, <2>2
  <2>4. f[3] \in Int /\ \A y \in S : f[y] \in Int
    BY <1>5, <2>1
  <2>5. IsFiniteSet(S)
    BY <1>8, <2>1
  <2>6. IsFiniteSet(T)
    BY <2>3, <2>4, <2>5, SumOneMore
  <2>7. SumFunctionOnSet(f, T) = f[3] + SumFunctionOnSet(f, S)
    BY <2>3, <2>4, <2>5, SumOneMore
  <2>8. SumFunctionOnSet(f, S) = f[2] + (f[1] + 0)
    BY <1>8, <2>1
  <2> QED BY <2>2, <2>6, <2>7, <2>8
<1>10. SumFunctionOnSet(f, {1, 2, 3, 4}) = f[4] + (f[3] + (f[2] + (f[1] + 0))) /\ IsFiniteSet({1, 2, 3, 4})
  <2>1. PICK S : S = {1, 2, 3}
    OBVIOUS
  <2>2. PICK T : T = {1, 2, 3, 4}
    OBVIOUS
  <2>3. T = S \cup {4} /\ 4 \notin S
    BY <2>1, <2>2
  <2>4. f[4] \in Int /\ \A y \in S : f[y] \in Int
    BY <1>5, <2>1
  <2>5. IsFiniteSet(S)
    BY <1>9, <2>1
  <2>6. IsFiniteSet(T)
    BY <2>3, <2>4, <2>5, SumOneMore
  <2>7. SumFunctionOnSet(f, T) = f[4] + SumFunctionOnSet(f, S)
    BY <2>3, <2>4, <2>5, SumOneMore
  <2>8. SumFunctionOnSet(f, S) = f[3] + (f[2] + (f[1] + 0))
    BY <1>9, <2>1
  <2> QED BY <2>2, <2>6, <2>7, <2>8
<1> QED BY <1>1, <1>2, <1>3, <1>4, <1>5, <1>10, AmountsAssumption DEF Cash, PartNames

(* The reports tell the cash that is in the drawer. *)
LEMMA ReportsTellDrawer == Books /\ CashInv => ExpectedIsDrawerUnlessCaused
<1> SUFFICES ASSUME Books, CashInv, NEW s \in Shifts
             PROVE  /\ Open(s) /\ "void" \notin cause[s] => XReport(s).expected = drawer[s]
                    /\ (shift[s].status = "CLOSED" /\ cause[s] \subseteq {"opens"}) =>
                         LET z == ZReport(s)
                         IN  /\ z.expected = drawer[s]
                             /\ z.expected = Float + z.cash + z.in - z.out
                                   - SumFunctionOnSet([w \in Requests |-> note[w].amount], CashRefunds(s))
                             /\ z.cash <= z.total
  BY DEF ExpectedIsDrawerUnlessCaused
<1>0. DrawerKnown(s) /\ ReportSnapshot(s).expected = Cash(s)
  BY ReportedCash DEF CashInv
<1>1. Open(s) /\ "void" \notin cause[s] => XReport(s).expected = drawer[s]
  BY <1>0 DEF DrawerKnown, XReport
<1>2. ASSUME shift[s].status = "CLOSED", cause[s] \subseteq {"opens"}
      PROVE  shift[s].expected = drawer[s] /\ drawer[s] = Cash(s)
  BY <1>0, <1>2 DEF DrawerKnown, Status, Steady
<1> DEFINE z == ZReport(s)
           f == [v \in Requests |-> sale[v].amount]
           refunds == SumFunctionOnSet([w \in Requests |-> note[w].amount], CashRefunds(s))
           standing == { v \in SalesOf(s) : sale[v].status # "VOIDED" }
<1>3. /\ z.expected = shift[s].expected /\ z.in = moved[s].in /\ z.out = moved[s].out
      /\ z.cash = SumFunctionOnSet(f, CashSales(s)) /\ z.total = SumFunctionOnSet(f, standing)
  BY DEF ZReport, ReportSnapshot
<1>4. /\ Part(s, "sales") = SumFunctionOnSet(f, CashSales(s)) /\ Part(s, "refunds") = -refunds
      /\ Part(s, "in") = moved[s].in /\ Part(s, "out") = -moved[s].out
  BY DEF Part
<1>5. moved[s].in \in Nat /\ moved[s].out \in Nat
  BY DEF Books
<1>6. \A p \in PartNames : Part(s, p) \in Int
  BY PartSums DEF PartNames
<1>7. refunds \in Int
  <2> DEFINE h == [w \in Requests |-> note[w].amount]
  <2>1. \A w \in Requests : h[w] \in Int
    BY DEF Books, NoteType
  <2>2. CashRefunds(s) \subseteq Requests /\ IsFiniteSet(CashRefunds(s))
    BY FS_Subset, RequestsAssumption DEF CashRefunds
  <2> HIDE DEF h
  <2>3. SumFunctionOnSet(h, CashRefunds(s)) \in Int
    BY <2>1, <2>2, SumInt
  <2> QED BY <2>3 DEF h
<1>8. SumFunctionOnSet(f, CashSales(s)) <= SumFunctionOnSet(f, standing)
  <2>1. \A v \in Requests : f[v] \in Nat
    BY DEF Books, SaleType
  <2>2. CashSales(s) \subseteq standing /\ standing \subseteq Requests
    BY DEF CashSales, SalesOf
  <2>3. IsFiniteSet(standing)
    BY <2>2, FS_Subset, RequestsAssumption
  <2> HIDE DEF f, standing
  <2> QED BY <2>1, <2>2, <2>3, SumOfMore
<1> HIDE DEF z, f, refunds, standing
<1>9. Cash(s) = Float + z.cash + z.in - z.out - refunds
  BY <1>3, <1>4, <1>5, <1>6, <1>7, AmountsAssumption DEF Cash, PartNames
<1> QED BY <1>1, <1>2, <1>3, <1>8, <1>9 DEF z, refunds

(* The expected cash of a shift is what is in its drawer, unless a close     *)
(* added it up before something was booked or a cash sale was voided; and    *)
(* the reports add up (computeExpectedCash and buildReportSnapshot in        *)
(* shifts.service.ts).                                                       *)
THEOREM ExpectedCashIsDrawer == Spec => []ExpectedIsDrawerUnlessCaused
<1>1. (ShiftInv /\ BooksInv) /\ (ShiftInv /\ BooksInv)' /\ CashInv /\ [Next]_vars => CashInv'
  BY CashStep
<1>2. ShiftInv /\ BooksInv /\ CashInv => ExpectedIsDrawerUnlessCaused
  BY ReportsTellDrawer DEF BooksInv
<1> QED BY <1>1, <1>2, BooksHold, CashInit, PTL DEF Spec

-----------------------------------------------------------------------------
(* Catalogue: products, barcodes, prices, labels and imports.                *)

AnyCode == Barcodes \cup {NoCode}
CodeRows == [product : Names, code : Barcodes, primary : {TRUE}]

(* What a request may be. *)
CreateReqs == [pc : {"create", "open"}, name : Names, code : AnyCode]
EditReqs == [pc : {"update", "find"}, name : Names, code : AnyCode, price : Prices \cup {KeepPrice}]
CodeReqs == [pc : {"barcode"}, name : Names, code : AnyCode, price : Prices \cup {KeepPrice},
             primary : SUBSET CodeRows]
PriceReqs == [pc : {"price"}, name : Names, price : Prices, seen : Prices]
CatReqs == {Idle} \cup CreateReqs \cup EditReqs \cup CodeReqs \cup PriceReqs

Imports == [pc : {"idle", "check", "create", "open"}, row : Nat, created : SUBSET DOMAIN File,
            skipped : SUBSET DOMAIN File, runs : Nat]

ChangeRows == [old : Prices, new : Prices]
LabelRows == [product : Names, status : {"PENDING", "PRINTED"}]

CatTypes ==
  /\ price \in [Products -> Prices] /\ Products \subseteq Names
  /\ barcode \subseteq CodeRows
  /\ stocked \in [Names -> Nat]
  /\ changes \in [Names -> Seq(ChangeRows)]
  /\ labels \in Seq(LabelRows)
  /\ locked \subseteq Names
  /\ call \in [Calls -> CatReqs]
  /\ import \in Imports /\ (import.pc # "idle" => import.row \in Valid)
  /\ shelf \in [Names -> Prices]

(* A request works on a product that exists; one that has still to receive   *)
(* the opening stock is the only one, and none is received; one that edits   *)
(* holds the row, and what it read of the barcodes is still so.              *)
Editing == {"find", "barcode"}
CatReqFits(r) ==
  /\ call[r].pc \in {"open", "update", "find", "barcode", "price"} => call[r].name \in Products
  /\ call[r].pc = "open" => /\ stocked[call[r].name] = 0
                            /\ ~(import.pc = "open" /\ Row.name = call[r].name)
  /\ call[r].pc \in Editing => call[r].name \in locked
  /\ call[r].pc = "barcode" => call[r].primary = PrimaryOf(call[r].name)

CatApart == \A r, s \in Calls : r # s =>
  /\ call[r].pc = "open" /\ call[s].pc = "open" => call[r].name # call[s].name
  /\ call[r].pc \in Editing /\ call[s].pc \in Editing => call[r].name # call[s].name

CatReqsFit == CatApart /\ \A r \in Calls : CatReqFits(r)

(* A code belongs to one product, a product has one code.                    *)
CodesFit == \A b \in barcode :
  /\ b.product \in Products
  /\ \A c \in barcode : b.product = c.product \/ b.code = c.code => b = c

StockFits ==
  /\ \A n \in Names : stocked[n] <= 1 /\ (n \notin Products => stocked[n] = 0)
  /\ import.pc = "open" => Row.name \in Products /\ stocked[Row.name] = 0
  /\ \A i \in import.created :
       File[i].name \in Products /\ (File[i].opening => stocked[File[i].name] = 1)

(* The price of a product, by the history of its changes. *)
Recorded(n) == IF changes[n] = <<>> THEN FirstPrice ELSE changes[n][Len(changes[n])].new
HistoryFits(n) ==
  /\ n \notin Products => changes[n] = <<>> /\ shelf[n] = FirstPrice
  /\ n \in Products \ edited => price[n] = Recorded(n)
  /\ n \notin raced => \A i \in 1..(Len(changes[n]) - 1) : changes[n][i + 1].old = changes[n][i].new

(* Whoever is at the printer lists every job of the products whose prices it *)
(* read; a price that changed since has a job of its own.                    *)
LabelFits(n) ==
  n \in Products \ edited =>
    (shelf[n] # price[n] => \E i \in Pending : labels[i].product = n)

Listing == printer.pc = "listed"
PrinterFits ==
  /\ printer.pc \in {"idle", "listed"}
  /\ Listing =>
       /\ DOMAIN printer.prices \subseteq Products
       /\ \A n \in DOMAIN printer.prices : printer.prices[n] \in Prices
       /\ printer.jobs \subseteq DOMAIN labels
       /\ \A i \in printer.jobs : labels[i].product \in DOMAIN printer.prices
ListedFits(n) ==
  Listing /\ n \in DOMAIN printer.prices \ edited =>
    (printer.prices[n] # price[n] => \E i \in Pending \ printer.jobs : labels[i].product = n)

PricesFit ==
  /\ edited \subseteq raced
  /\ \A i \in DOMAIN labels : labels[i].product \in Products
  /\ PrinterFits
  /\ \A n \in Names : HistoryFits(n) /\ LabelFits(n) /\ ListedFits(n)

CatInv == CatTypes /\ CatReqsFit /\ CodesFit /\ StockFits /\ PricesFit

(* A row of the file. *)
LEMMA FileRow ==
  ASSUME CatalogueAssumption, NEW i \in DOMAIN File
  PROVE  /\ File[i].name \in Names /\ File[i].barcode \in AnyCode
         /\ File[i].opening \in BOOLEAN /\ i \in Nat
<1> DEFINE R == [name : Names, barcode : Barcodes \cup {NoCode}, opening : BOOLEAN, errors : BOOLEAN]
<1>1. File \in Seq(R)
  BY Zenon DEF CatalogueAssumption
<1>2. File[i] \in R /\ i \in Nat
  <2> HIDE DEF R
  <2>1. DOMAIN File = 1..Len(File) /\ File \in [1..Len(File) -> R] /\ Len(File) \in Nat
    BY <1>1
  <2> QED BY <2>1
<1> QED BY <1>2 DEF AnyCode

(* The next row of an import is a valid row of the file. *)
LEMMA NextRowType ==
  ASSUME CatalogueAssumption, NEW i
  PROVE  /\ NextRow(i) \in Nat
         /\ NextRow(i) # 0 => NextRow(i) \in Valid
<1> DEFINE S == { j \in Valid : j > i }
<1>1. Valid \subseteq Nat
  BY FileRow DEF Valid
<1>2. S \in SUBSET Nat
  BY <1>1
<1>3. CASE S = {}
  BY <1>3 DEF NextRow
<1>4. CASE S # {}
  <2>1. PICK m \in S : \A n \in S : m <= n
    BY <1>2, <1>4, LeastNumber
  <2>2. \E j \in Valid : j > i /\ \A k \in Valid : k > i => j <= k
    BY <2>1
  <2>3. NextRow(i) = CHOOSE j \in Valid : j > i /\ \A k \in Valid : k > i => j <= k
    BY <1>4 DEF NextRow
  <2> QED BY <2>2, <2>3, <1>1
<1> QED BY <1>3, <1>4

(* What an import may be after it went past a row. *)
LEMMA GoesType ==
  ASSUME CatalogueAssumption, CatTypes, import.pc # "idle",
         NEW f \in {"created", "skipped"}, Goes(f)
  PROVE  /\ import' \in Imports
         /\ import'.pc \in {"idle", "check"}
         /\ import'.pc # "idle" => import'.row \in Valid
         /\ import'.created = IF f = "created" THEN import.created \cup {import.row} ELSE import.created
<1>1. import \in Imports /\ import.row \in Valid /\ import.row \in DOMAIN File
  BY DEF CatTypes, Valid
<1>2. NextRow(import.row) \in Nat /\ (NextRow(import.row) # 0 => NextRow(import.row) \in Valid)
  BY NextRowType
<1>3. CASE f = "created"
  <2>1. import' = [import EXCEPT !.created = @ \cup {import.row}, !.row = NextRow(@),
                             !.pc = IF NextRow(import.row) = 0 THEN "idle" ELSE "check"]
    BY <1>3 DEF Goes
  <2> QED BY <1>1, <1>2, <1>3, <2>1 DEF Imports
<1>4. CASE f = "skipped"
  <2>1. import' = [import EXCEPT !.skipped = @ \cup {import.row}, !.row = NextRow(@),
                             !.pc = IF NextRow(import.row) = 0 THEN "idle" ELSE "check"]
    BY <1>4 DEF Goes
  <2> QED BY <1>1, <1>2, <1>4, <2>1 DEF Imports
<1> QED BY <1>3, <1>4

(* One request changes, the others stay. *)
LEMMA CatReqStep ==
  ASSUME CatTypes, NEW r \in Calls, NEW q \in CatReqs, call' = [call EXCEPT ![r] = q]
  PROVE  /\ call' \in [Calls -> CatReqs]
         /\ call'[r] = q
         /\ \A s \in Calls \ {r} : call'[s] = call[s]
BY DEF CatTypes

(* What a request is, by where it is. *)
LEMMA CatReqShape ==
  ASSUME NEW q \in CatReqs
  PROVE  /\ q.pc \in {"idle", "create", "open", "update", "find", "barcode", "price"}
         /\ q.pc \in {"create", "open"} => q \in CreateReqs /\ q.name \in Names /\ q.code \in AnyCode
         /\ q.pc \in {"update", "find"} => q \in EditReqs /\ q.name \in Names
         /\ q.pc = "barcode" => q \in CodeReqs /\ q.name \in Names /\ q.code \in AnyCode
                                /\ q.price \in Prices \cup {KeepPrice}
         /\ q.pc = "price" => q \in PriceReqs /\ q.name \in Names /\ q.price \in Prices /\ q.seen \in Prices
BY DEF CatReqs, Idle, CreateReqs, EditReqs, CodeReqs, PriceReqs

(* Nobody asks for anything at first or when done. *)
LEMMA CatIdleType == Idle \in CatReqs /\ Idle.pc = "idle"
BY DEF CatReqs, Idle

(* A product that is created has a name, a first price and perhaps a code.   *)
LEMMA NewProductType ==
  ASSUME CatalogueAssumption, CatTypes, NEW n \in Names, NEW c \in AnyCode, NewProduct(n, c)
  PROVE  /\ Products' = Products \cup {n}
         /\ price' \in [Products' -> Prices] /\ Products' \subseteq Names
         /\ price'[n] = FirstPrice
         /\ \A p \in Products \ {n} : price'[p] = price[p]
         /\ barcode' \subseteq CodeRows
<1>1. FirstPrice \in Prices
  BY DEF CatalogueAssumption
<1>2. price' = [p \in Products \cup {n} |-> IF p = n THEN FirstPrice ELSE price[p]]
  BY DEF NewProduct
<1>3. barcode' = IF c = NoCode THEN barcode
                 ELSE barcode \cup {[product |-> n, code |-> c, primary |-> TRUE]}
  BY DEF NewProduct
<1>4. barcode' \subseteq CodeRows
  <2>1. c # NoCode => [product |-> n, code |-> c, primary |-> TRUE] \in CodeRows
    BY DEF CodeRows, AnyCode
  <2> QED BY <1>3, <2>1 DEF CatTypes
<1>5. Products' = Products \cup {n}
  BY <1>2 DEF Products
<1> QED BY <1>1, <1>2, <1>4, <1>5 DEF CatTypes

(* Creations keep the types. *)
LEMMA CatTypesCreate ==
  ASSUME CatalogueAssumption, CatTypes, NEW r \in Calls,
         \/ \E a \in Creates : BeginCreate(r, a[1], a[2])
         \/ CreateRow(r) \/ ReceiveOpening(r)
  PROVE  CatTypes'
<1>0. call[r] \in CatReqs
  BY DEF CatTypes
<1>1. CASE \E a \in Creates : BeginCreate(r, a[1], a[2])
  <2>1. PICK a \in Creates : BeginCreate(r, a[1], a[2])
    BY <1>1
  <2>2. a[1] \in Names /\ a[2] \in AnyCode
    BY DEF CatalogueAssumption, AnyCode
  <2> DEFINE q == [pc |-> "create", name |-> a[1], code |-> a[2]]
  <2>3. q \in CatReqs
    BY <2>2 DEF CatReqs, CreateReqs
  <2>4. call' = [call EXCEPT ![r] = q]
    BY <2>1 DEF BeginCreate
  <2> HIDE DEF q
  <2>5. call' \in [Calls -> CatReqs]
    BY <2>3, <2>4, CatReqStep
  <2> QED BY <2>1, <2>5 DEF BeginCreate, tables, CatTypes, Products
<1>2. CASE CreateRow(r)
  <2>1. call[r].pc = "create" /\ call[r] \in CreateReqs
    BY <1>0, <1>2, CatReqShape DEF CreateRow
  <2> DEFINE q == [call[r] EXCEPT !.pc = "open"]
  <2>2. q \in CatReqs
    BY <2>1 DEF CatReqs, CreateReqs
  <2>3. call' = [call EXCEPT ![r] = q] \/ call' = [call EXCEPT ![r] = Idle]
    BY <1>2 DEF CreateRow, Ends, CatTypes
  <2> HIDE DEF q
  <2>4. call' \in [Calls -> CatReqs]
    BY <2>2, <2>3, CatReqStep, CatIdleType
  <2>5. price' \in [Products' -> Prices] /\ Products' \subseteq Names /\ barcode' \subseteq CodeRows
    <3>1. CASE UNCHANGED <<price, barcode>>
      BY <3>1 DEF CatTypes, Products
    <3>2. CASE NewProduct(call[r].name, call[r].code)
      BY <2>1, <1>0, CatReqShape, <3>2, NewProductType
    <3> QED BY <1>2, <3>1, <3>2 DEF CreateRow
  <2> QED BY <1>2, <2>4, <2>5 DEF CreateRow, CatTypes
<1>3. CASE ReceiveOpening(r)
  <2>1. call[r].name \in Names
    BY <1>0, <1>3, CatReqShape DEF ReceiveOpening
  <2>2. call' \in [Calls -> CatReqs]
    BY <1>3, CatReqStep, CatIdleType DEF ReceiveOpening, Ends
  <2>3. stocked' \in [Names -> Nat]
    <3>1. stocked' = stocked \/ stocked' = [stocked EXCEPT ![call[r].name] = @ + 1]
      BY <1>3 DEF ReceiveOpening
    <3>2. stocked \in [Names -> Nat]
      BY DEF CatTypes
    <3> QED BY <3>1, <3>2, <2>1
  <2> QED BY <1>3, <2>2, <2>3 DEF ReceiveOpening, CatTypes, Products
<1> QED BY <1>1, <1>2, <1>3

(* Edits keep the types. *)
LEMMA CatTypesUpdate ==
  ASSUME CatalogueAssumption, CatTypes, NEW r \in Calls,
         \/ \E a \in Edits : BeginUpdate(r, a[1], a[2], a[3])
         \/ UpdateRow(r) \/ FindPrimary(r) \/ CommitUpdate(r)
  PROVE  CatTypes'
<1>0. call[r] \in CatReqs
  BY DEF CatTypes
<1>1. CASE \E a \in Edits : BeginUpdate(r, a[1], a[2], a[3])
  <2>1. PICK a \in Edits : BeginUpdate(r, a[1], a[2], a[3])
    BY <1>1
  <2>2. a[1] \in Names /\ a[2] \in AnyCode /\ a[3] \in Prices \cup {KeepPrice}
    BY DEF CatalogueAssumption, AnyCode
  <2> DEFINE q == [pc |-> "update", name |-> a[1], code |-> a[2], price |-> a[3]]
  <2>3. q \in CatReqs
    BY <2>2 DEF CatReqs, EditReqs
  <2>4. call' = [call EXCEPT ![r] = q]
    BY <2>1 DEF BeginUpdate
  <2> HIDE DEF q
  <2>5. call' \in [Calls -> CatReqs]
    BY <2>3, <2>4, CatReqStep
  <2> QED BY <2>1, <2>5 DEF BeginUpdate, tables, CatTypes, Products
<1>2. CASE UpdateRow(r)
  <2>1. call[r] \in EditReqs /\ call[r].name \in Names
    BY <1>0, <1>2, CatReqShape DEF UpdateRow
  <2> DEFINE q == [call[r] EXCEPT !.pc = "find"]
  <2>2. q \in CatReqs
    BY <2>1 DEF CatReqs, EditReqs
  <2>3. call' = [call EXCEPT ![r] = q]
    BY <1>2 DEF UpdateRow, CatTypes
  <2> HIDE DEF q
  <2>4. call' \in [Calls -> CatReqs]
    BY <2>2, <2>3, CatReqStep
  <2> QED BY <1>2, <2>1, <2>4 DEF UpdateRow, CatTypes, Products
<1>3. CASE FindPrimary(r)
  <2>1. call[r] \in EditReqs
    BY <1>0, <1>3, CatReqShape DEF FindPrimary
  <2> DEFINE q == [pc |-> "barcode", name |-> call[r].name, code |-> call[r].code,
                   price |-> call[r].price, primary |-> PrimaryOf(call[r].name)]
  <2>2. q \in CatReqs
    BY <2>1 DEF CatReqs, EditReqs, CodeReqs, PrimaryOf, CatTypes
  <2>3. call' = [call EXCEPT ![r] = q]
    BY <1>3 DEF FindPrimary
  <2> HIDE DEF q
  <2>4. call' \in [Calls -> CatReqs]
    BY <2>2, <2>3, CatReqStep
  <2> QED BY <1>3, <2>4 DEF FindPrimary, tables, CatTypes, Products
<1>4. CASE CommitUpdate(r)
  <2>1. /\ call[r].pc = "barcode" /\ call[r].name \in Names /\ call[r].code \in AnyCode
        /\ call[r].price \in Prices \cup {KeepPrice}
    BY <1>0, <1>4, CatReqShape DEF CommitUpdate
  <2>2. call' \in [Calls -> CatReqs]
    BY <1>4, CatReqStep, CatIdleType DEF CommitUpdate, Ends
  <2>3. barcode' \subseteq CodeRows
    <3>1. call[r].code # NoCode => [product |-> call[r].name, code |-> call[r].code, primary |-> TRUE] \in CodeRows
      BY <2>1 DEF CodeRows, AnyCode
    <3> QED BY <1>4, <3>1 DEF CommitUpdate, CatTypes
  <2>4. price' \in [Products' -> Prices] /\ Products' = Products
    <3>1. price' = price \/ (price' = [price EXCEPT ![call[r].name] = call[r].price] /\ call[r].price # KeepPrice)
      BY <1>4 DEF CommitUpdate
    <3> QED BY <3>1, <2>1 DEF CatTypes, Products
  <2>5. locked' \subseteq Names
    BY <1>4 DEF CommitUpdate, CatTypes
  <2> QED BY <1>4, <2>2, <2>3, <2>4, <2>5 DEF CommitUpdate, CatTypes
<1> QED BY <1>1, <1>2, <1>3, <1>4

(* Price changes and labels keep the types. *)
LEMMA CatTypesPrice ==
  ASSUME CatalogueAssumption, CatTypes, PricesFit,
         \/ \E r \in Calls : \/ \E a \in Reprices : BeginPrice(r, a[1], a[2])
                             \/ CommitPrice(r)
         \/ ListPending \/ MarkPrinted
  PROVE  CatTypes'
<1>1. ASSUME NEW r \in Calls, NEW a \in Reprices, BeginPrice(r, a[1], a[2]) PROVE CatTypes'
  <2>1. a[1] \in Names /\ a[2] \in Prices
    BY DEF CatalogueAssumption
  <2>2. price[a[1]] \in Prices
    BY <1>1 DEF BeginPrice, CatTypes
  <2> DEFINE q == [pc |-> "price", name |-> a[1], price |-> a[2], seen |-> price[a[1]]]
  <2>3. q \in CatReqs
    BY <2>1, <2>2 DEF CatReqs, PriceReqs
  <2>4. call' = [call EXCEPT ![r] = q]
    BY <1>1 DEF BeginPrice
  <2> HIDE DEF q
  <2>5. call' \in [Calls -> CatReqs]
    BY <2>3, <2>4, CatReqStep
  <2> QED BY <1>1, <2>5 DEF BeginPrice, tables, CatTypes, Products
<1>2. ASSUME NEW r \in Calls, CommitPrice(r) PROVE CatTypes'
  <2>0. call[r] \in CatReqs
    BY DEF CatTypes
  <2>1. call[r].name \in Names /\ call[r].price \in Prices /\ call[r].seen \in Prices
    BY <2>0, <1>2, CatReqShape DEF CommitPrice
  <2>2. call' \in [Calls -> CatReqs]
    BY <1>2, CatReqStep, CatIdleType DEF CommitPrice, Ends
  <2>3. price' \in [Products' -> Prices] /\ Products' = Products
    <3>1. price' = [price EXCEPT ![call[r].name] = call[r].price]
      BY <1>2 DEF CommitPrice
    <3> QED BY <3>1, <2>1 DEF CatTypes, Products
  <2>4. changes' \in [Names -> Seq(ChangeRows)]
    <3>1. changes' = [changes EXCEPT ![call[r].name] =
                        Append(@, [old |-> call[r].seen, new |-> call[r].price])]
      BY <1>2 DEF CommitPrice
    <3>2. [old |-> call[r].seen, new |-> call[r].price] \in ChangeRows
      BY <2>1 DEF ChangeRows
    <3>3. Append(changes[call[r].name], [old |-> call[r].seen, new |-> call[r].price]) \in Seq(ChangeRows)
      BY <3>2, <2>1 DEF CatTypes
    <3> QED BY <3>1, <3>3 DEF CatTypes
  <2>5. labels' \in Seq(LabelRows)
    <3>1. [product |-> call[r].name, status |-> "PENDING"] \in LabelRows
      BY <2>1 DEF LabelRows
    <3>2. labels' = Append(labels, [product |-> call[r].name, status |-> "PENDING"])
      BY <1>2 DEF CommitPrice
    <3> QED BY <3>1, <3>2 DEF CatTypes
  <2> QED BY <1>2, <2>2, <2>3, <2>4, <2>5 DEF CommitPrice, CatTypes
<1>3. CASE ListPending
  BY <1>3 DEF ListPending, tables, CatTypes, Products
<1>4. CASE MarkPrinted
  <2>1. shelf' \in [Names -> Prices]
    <3>1. \A n \in DOMAIN printer.prices : printer.prices[n] \in Prices
      BY <1>4 DEF MarkPrinted, PricesFit, PrinterFits, Listing
    <3>2. shelf' = [n \in Names |-> IF n \in DOMAIN printer.prices THEN printer.prices[n] ELSE shelf[n]]
      BY <1>4 DEF MarkPrinted
    <3> QED BY <3>1, <3>2 DEF CatTypes
  <2>2. labels' \in Seq(LabelRows)
    <3>1. labels' = [i \in DOMAIN labels |-> IF i \in printer.jobs
                       THEN [labels[i] EXCEPT !.status = "PRINTED"] ELSE labels[i]]
      BY <1>4 DEF MarkPrinted
    <3>2. DOMAIN labels = 1..Len(labels) /\ Len(labels) \in Nat /\ \A i \in 1..Len(labels) : labels[i] \in LabelRows
      BY DEF CatTypes
    <3>3. \A x \in LabelRows : [x EXCEPT !.status = "PRINTED"] \in LabelRows
      BY DEF LabelRows
    <3> QED BY <3>1, <3>2, <3>3
  <2> QED BY <1>4, <2>1, <2>2 DEF MarkPrinted, CatTypes, Products
<1> QED BY <1>1, <1>2, <1>3, <1>4

(* The import keeps the types. *)
LEMMA CatTypesImport ==
  ASSUME CatalogueAssumption, CatTypes,
         StartImport \/ CheckRow \/ ImportRow \/ ImportOpening
  PROVE  CatTypes'
<1>0. import \in Imports
  BY DEF CatTypes
<1>1. CASE StartImport
  <2>1. NextRow(0) \in Valid /\ NextRow(0) \in Nat
    <3>1. PICK i \in Valid : TRUE
      BY <1>1 DEF StartImport
    <3>2. i \in DOMAIN File
      BY DEF Valid
    <3>3. i \in Nat /\ i # 0
      <4>1. File \in Seq([name : Names, barcode : Barcodes \cup {NoCode}, opening : BOOLEAN, errors : BOOLEAN])
        BY Zenon DEF CatalogueAssumption
      <4> QED BY <3>2, <4>1
    <3>4. { j \in Valid : j > 0 } # {}
      BY <3>3
    <3>5. \A j \in Valid : j \in Nat
      BY FileRow DEF Valid
    <3>6. NextRow(0) # 0
      <4> DEFINE S == { j \in Valid : j > 0 }
      <4>1. S \in SUBSET Nat /\ S # {}
        BY <3>4, <3>5
      <4>2. PICK m \in S : \A n \in S : m <= n
        BY <4>1, LeastNumber
      <4>3. \E j \in Valid : j > 0 /\ \A k \in Valid : k > 0 => j <= k
        BY <4>2
      <4>4. NextRow(0) = CHOOSE j \in Valid : j > 0 /\ \A k \in Valid : k > 0 => j <= k
        BY <3>4 DEF NextRow
      <4> QED BY <4>3, <4>4, <3>5
    <3> QED BY <3>6, NextRowType
  <2>2. import.runs \in Nat /\ import' = [pc |-> "check", row |-> NextRow(0), created |-> {}, skipped |-> {},
                                          runs |-> import.runs + 1]
    BY <1>0, <1>1 DEF StartImport, Imports
  <2>3. import' \in Imports /\ import'.row \in Valid
    BY <2>1, <2>2 DEF Imports
  <2> QED BY <1>1, <2>3 DEF StartImport, tables, CatTypes, Products
<1>2. CASE CheckRow
  <2>1. import' \in Imports /\ (import'.pc # "idle" => import'.row \in Valid)
    <3>1. CASE Goes("skipped")
      <4>1. import.pc # "idle"
        BY <1>2 DEF CheckRow
      <4> QED BY <3>1, <4>1, GoesType
    <3>2. CASE import' = [import EXCEPT !.pc = "create"]
      BY <1>0, <1>2, <3>2 DEF CheckRow, Imports, CatTypes
    <3> QED BY <1>2, <3>1, <3>2 DEF CheckRow
  <2> QED BY <1>2, <2>1 DEF CheckRow, tables, CatTypes, Products
<1>3. CASE ImportRow
  <2>0. import.pc # "idle" /\ import.row \in Valid /\ import.row \in DOMAIN File
    BY <1>3 DEF ImportRow, CatTypes, Valid
  <2>1. import' \in Imports /\ (import'.pc # "idle" => import'.row \in Valid)
    <3>1. CASE Goes("skipped") \/ Goes("created")
      BY <3>1, <2>0, GoesType
    <3>2. CASE import' = [import EXCEPT !.pc = "open"]
      BY <1>0, <3>2, <2>0 DEF Imports
    <3> QED BY <1>3, <3>1, <3>2 DEF ImportRow
  <2>2. price' \in [Products' -> Prices] /\ Products' \subseteq Names /\ barcode' \subseteq CodeRows
    <3>1. CASE UNCHANGED <<price, barcode>>
      BY <3>1 DEF CatTypes, Products
    <3>2. CASE NewProduct(Row.name, Row.barcode)
      <4>1. Row.name \in Names /\ Row.barcode \in AnyCode
        BY <2>0, FileRow DEF Row
      <4> QED BY <3>2, <4>1, NewProductType
    <3> QED BY <1>3, <3>1, <3>2 DEF ImportRow
  <2> QED BY <1>3, <2>1, <2>2 DEF ImportRow, CatTypes
<1>4. CASE ImportOpening
  <2>0. import.pc # "idle" /\ import.row \in Valid /\ import.row \in DOMAIN File
    BY <1>4 DEF ImportOpening, CatTypes, Valid
  <2>1. import' \in Imports /\ (import'.pc # "idle" => import'.row \in Valid)
    BY <1>4, <2>0, GoesType DEF ImportOpening
  <2>2. stocked' \in [Names -> Nat]
    <3>1. stocked' = stocked \/ stocked' = [stocked EXCEPT ![Row.name] = @ + 1]
      BY <1>4 DEF ImportOpening
    <3>2. stocked \in [Names -> Nat] /\ Row.name \in Names
      BY <2>0, FileRow DEF Row, CatTypes
    <3> QED BY <3>1, <3>2
  <2> QED BY <1>4, <2>1, <2>2 DEF ImportOpening, CatTypes, Products
<1> QED BY <1>1, <1>2, <1>3, <1>4

(* The primary barcodes of p among bs. *)
CodesOf(bs, p) == { b \in bs : b.product = p /\ b.primary }

(* The primary barcodes of other products are none of a new product's.       *)
LEMMA NewProductCodes ==
  ASSUME CatalogueAssumption, CatInv, NEW n \in Names, NEW c \in AnyCode, NewProduct(n, c)
  PROVE  \A p : p # n => CodesOf(barcode', p) = CodesOf(barcode, p)
<1>1. barcode' = IF c = NoCode THEN barcode
                 ELSE barcode \cup {[product |-> n, code |-> c, primary |-> TRUE]}
  BY DEF NewProduct
<1> QED BY <1>1 DEF CodesOf

(* An edit changes the barcodes of its own product only, and the codes still *)
(* fit.                                                                      *)
LEMMA UpdateCodes ==
  ASSUME CatalogueAssumption, CatInv, NEW r \in Calls, CommitUpdate(r)
  PROVE  /\ \A p : p # call[r].name => CodesOf(barcode', p) = CodesOf(barcode, p)
         /\ CodesFit'
<1> DEFINE p == call[r].name
           c == call[r].code
           mine == PrimaryOf(p)
           rest == barcode \ mine
           new == [product |-> p, code |-> c, primary |-> TRUE]
<1>1. call[r].pc = "barcode" /\ call[r].primary = mine /\ p \in Products /\ p \in Names
      /\ c \in AnyCode
  <2>1. call[r] \in CatReqs
    BY DEF CatInv, CatTypes
  <2> QED BY <2>1, CatReqShape DEF CatInv, CatReqsFit, CatReqFits, CommitUpdate
<1>2. barcode \subseteq CodeRows /\ CodesFit
  BY DEF CatInv, CatTypes
<1>3. mine = { b \in barcode : b.product = p }
  BY <1>2 DEF PrimaryOf, CodeRows
<1>4. \A b, d \in mine : b = d
  BY <1>3, <1>2 DEF CodesFit
<1> DEFINE old == IF mine = {} THEN {} ELSE {CHOOSE b \in mine : TRUE}
<1>5. old = mine
  BY <1>4
<1>6. { b \in barcode : \E o \in old : o.code = b.code } = mine
  BY <1>5, <1>3, <1>2 DEF CodesFit
<1>7. barcode' = barcode \/ (barcode' = rest \cup {new} /\ \A b \in rest : b.code # c)
  <2> DEFINE m == call[r].primary
  <2>1. barcode' = LET first == IF m = {} THEN {} ELSE {CHOOSE b \in m : TRUE}
                       others == barcode \ { b \in barcode : \E o \in first : o.code = b.code }
                   IN  IF c = NoCode \/ \E b \in others : b.code = c THEN barcode
                       ELSE others \cup {new}
    BY Zenon DEF CommitUpdate
  <2>2. m = mine
    BY <1>1
  <2> HIDE DEF m, mine, p, c, new
  <2>3. barcode' = LET others == barcode \ { b \in barcode : \E o \in old : o.code = b.code }
                   IN  IF c = NoCode \/ \E b \in others : b.code = c THEN barcode
                       ELSE others \cup {new}
    BY <2>1, <2>2, Zenon
  <2> HIDE DEF old
  <2> QED BY <2>3, <1>6
<1>8. CASE barcode' = barcode
  <2>1. Products' = Products
    BY <1>1 DEF CommitUpdate, Products, CatInv, CatTypes
  <2> QED BY <1>8, <2>1, <1>2 DEF CodesFit, CodesOf
<1>9. CASE barcode' = rest \cup {new} /\ \A b \in rest : b.code # c
  <2>1. Products' = Products
    BY <1>1 DEF CommitUpdate, Products, CatInv, CatTypes
  <2>2. new.product = p /\ new.code = c /\ new.primary = TRUE
    OBVIOUS
  <2>3. rest = { b \in barcode : b.product # p }
    BY <1>3
  <2>4. \A x : x # p => CodesOf(barcode', x) = CodesOf(barcode, x)
    BY <1>9, <2>2, <2>3 DEF CodesOf
  <2> HIDE DEF new, rest, mine
  <2>5. CodesFit'
    BY <1>9, <2>1, <2>2, <2>3, <1>2, <1>1 DEF CodesFit
  <2> QED BY <2>4, <2>5
<1> QED BY <1>7, <1>8, <1>9

(* What the others rely on when r moves on to q, and what q itself does.     *)
OthersStay(r, q) == \A s \in Calls \ {r} :
  /\ call[s].pc = "open" => /\ stocked'[call[s].name] = 0
                            /\ ~(import'.pc = "open" /\ Row'.name = call[s].name)
                            /\ ~(q.pc = "open" /\ q.name = call[s].name)
  /\ call[s].pc \in Editing => /\ call[s].name \in locked'
                               /\ ~(q.pc \in Editing /\ q.name = call[s].name)
  /\ call[s].pc = "barcode" => CodesOf(barcode', call[s].name) = CodesOf(barcode, call[s].name)
MayBecome(q) ==
  /\ q.pc \in {"open", "update", "find", "barcode", "price"} => q.name \in Products'
  /\ q.pc = "open" => stocked'[q.name] = 0 /\ ~(import'.pc = "open" /\ Row'.name = q.name)
  /\ q.pc \in Editing => q.name \in locked'
  /\ q.pc = "barcode" => q.primary = CodesOf(barcode', q.name)

(* A request that moves on keeps the requests fit when what the others rely  *)
(* on stays.                                                                 *)
LEMMA CatReqMoves ==
  ASSUME CatInv, NEW r \in Calls, NEW q \in CatReqs, call' = [call EXCEPT ![r] = q],
         Products \subseteq Products', OthersStay(r, q), MayBecome(q)
  PROVE  CatReqsFit'
<1>1. call'[r] = q /\ \A s \in Calls \ {r} : call'[s] = call[s]
  BY CatReqStep DEF CatInv
<1>2. \A p : PrimaryOf(p) = CodesOf(barcode, p)
  BY DEF PrimaryOf, CodesOf
<1>3. ASSUME NEW s \in Calls PROVE CatReqFits(s)'
  <2>1. PICK n : n = call'[s].name
    OBVIOUS
  <2>2. PrimaryOf(call[s].name)' = CodesOf(barcode', n)
    BY <2>1 DEF PrimaryOf, CodesOf
  <2>3. CASE s = r
    <3>1. call'[s] = q
      BY <1>1, <2>3
    <3> QED BY <2>1, <3>1, <2>2 DEF CatReqFits, MayBecome
  <2>4. CASE s # r
    <3>1. call'[s] = call[s]
      BY <1>1, <2>4
    <3>2. call[s].pc = "barcode" => call[s].primary = CodesOf(barcode, n)
      BY <2>1, <3>1, <1>2 DEF CatReqFits, CatInv, CatReqsFit
    <3>3. CatReqFits(s)
      BY DEF CatInv, CatReqsFit
    <3> QED BY <2>4, <2>1, <3>1, <3>2, <3>3, <2>2 DEF CatReqFits, OthersStay
  <2> QED BY <2>3, <2>4
<1>4. CatApart'
  BY <1>1 DEF CatApart, CatInv, CatReqsFit, OthersStay
<1> QED BY <1>3, <1>4 DEF CatReqsFit

(* What the requests rely on, as it stands. *)
LEMMA CatReqFacts ==
  ASSUME CatInv, NEW s \in Calls
  PROVE  /\ call[s] \in CatReqs
         /\ call[s].pc \in {"open", "update", "find", "barcode", "price"}
              => call[s].name \in Products /\ call[s].name \in Names
         /\ call[s].pc = "open" => /\ stocked[call[s].name] = 0
                                   /\ ~(import.pc = "open" /\ Row.name = call[s].name)
         /\ call[s].pc \in Editing => call[s].name \in locked
         /\ \A r \in Calls \ {s} :
              /\ call[r].pc = "open" /\ call[s].pc = "open" => call[r].name # call[s].name
              /\ call[r].pc \in Editing /\ call[s].pc \in Editing => call[r].name # call[s].name
<1>1. call[s] \in CatReqs /\ Products \subseteq Names
  BY DEF CatInv, CatTypes
<1>2. CatReqFits(s) /\ CatApart
  BY DEF CatInv, CatReqsFit
<1> QED BY <1>1, <1>2 DEF CatReqFits, CatApart

(* Creations keep the requests fit. *)
LEMMA CatReqsCreate ==
  ASSUME CatalogueAssumption, CatInv, NEW r \in Calls,
         \/ \E a \in Creates : BeginCreate(r, a[1], a[2])
         \/ CreateRow(r) \/ ReceiveOpening(r)
  PROVE  CatReqsFit'
<1> USE CatReqFacts
<1>1. CASE \E a \in Creates : BeginCreate(r, a[1], a[2])
  <2>1. PICK a \in Creates : BeginCreate(r, a[1], a[2])
    BY <1>1
  <2>2. a[1] \in Names /\ a[2] \in AnyCode
    BY DEF CatalogueAssumption, AnyCode
  <2> DEFINE q == [pc |-> "create", name |-> a[1], code |-> a[2]]
  <2>3. q \in CatReqs /\ q.pc = "create"
    BY <2>2 DEF CatReqs, CreateReqs
  <2>4. call' = [call EXCEPT ![r] = q]
    BY <2>1 DEF BeginCreate
  <2> HIDE DEF q
  <2>5. Products' = Products /\ stocked' = stocked /\ import' = import /\ locked' = locked
        /\ barcode' = barcode /\ Row' = Row
    BY <2>1 DEF BeginCreate, tables, Products, Row
  <2>6. OthersStay(r, q)
    BY <2>3, <2>4, <2>5 DEF Editing, OthersStay
  <2>7. MayBecome(q)
    BY <2>3, <2>4, <2>5 DEF Editing, MayBecome
  <2> QED BY <2>3, <2>4, <2>5, <2>6, <2>7, CatReqMoves
<1>2. CASE CreateRow(r)
  <2>1. call[r].pc = "create" /\ call[r] \in CreateReqs /\ call[r].name \in Names /\ call[r].code \in AnyCode
    BY <1>2, CatReqShape DEF CreateRow
  <2>2. stocked' = stocked /\ import' = import /\ locked' = locked /\ Row' = Row
    BY <1>2 DEF CreateRow, Row
  <2>3. CASE Ends(r) /\ UNCHANGED <<price, barcode>>
    <3>1. Products' = Products
      BY <2>3 DEF Products
    <3>2. OthersStay(r, Idle)
      BY <2>2, <2>3, <3>1, CatIdleType DEF Ends, Editing, OthersStay
    <3>3. MayBecome(Idle)
      BY <2>2, <2>3, <3>1, CatIdleType DEF Ends, Editing, MayBecome
    <3> QED BY <2>2, <2>3, <3>1, CatIdleType, <3>2, <3>3, CatReqMoves DEF Ends
  <2>4. CASE /\ ~Clashes(call[r].name, call[r].code)
             /\ NewProduct(call[r].name, call[r].code)
             /\ call' = [call EXCEPT ![r].pc = "open"]
    <3> DEFINE n == call[r].name
               q == [call[r] EXCEPT !.pc = "open"]
    <3>1. q \in CatReqs /\ q.pc = "open" /\ q.name = n
      BY <2>1 DEF CatReqs, CreateReqs
    <3>2. call' = [call EXCEPT ![r] = q]
      BY <2>4 DEF CatInv, CatTypes
    <3>3. n \notin Products /\ n \in Names
      BY <2>1, <2>4 DEF Clashes
    <3>4. Products' = Products \cup {n}
      BY <2>1, <2>4, NewProductType DEF CatInv
    <3>5. \A p : p # n => CodesOf(barcode', p) = CodesOf(barcode, p)
      BY <2>1, <2>4, NewProductCodes
    <3>6. stocked[n] = 0 /\ ~(import.pc = "open" /\ Row.name = n)
      BY <3>3 DEF CatInv, StockFits
    <3> HIDE DEF q, n
    <3>7. OthersStay(r, q)
      BY <2>2, <3>1, <3>2, <3>3, <3>4, <3>5, <3>6 DEF Editing, OthersStay
    <3>8. MayBecome(q)
      BY <2>2, <3>1, <3>2, <3>3, <3>4, <3>5, <3>6 DEF Editing, MayBecome
    <3> QED BY <2>2, <3>1, <3>2, <3>3, <3>4, <3>5, <3>6, <3>7, <3>8, CatReqMoves
  <2> QED BY <1>2, <2>3, <2>4 DEF CreateRow
<1>3. CASE ReceiveOpening(r)
  <2>1. call' = [call EXCEPT ![r] = Idle] /\ call[r].pc = "open" /\ import' = import /\ locked' = locked
        /\ barcode' = barcode /\ Row' = Row /\ Products' = Products
    BY <1>3 DEF ReceiveOpening, Ends, Row, Products
  <2>2. stocked' = stocked \/ stocked' = [stocked EXCEPT ![call[r].name] = @ + 1]
    BY <1>3 DEF ReceiveOpening
  <2>3. \A s \in Calls \ {r} : call[s].pc = "open" => stocked'[call[s].name] = 0
    BY <2>1, <2>2 DEF CatInv, CatTypes
  <2>4. OthersStay(r, Idle)
    BY <2>1, <2>3, CatIdleType DEF Editing, OthersStay
  <2>5. MayBecome(Idle)
    BY <2>1, <2>3, CatIdleType DEF Editing, MayBecome
  <2> QED BY <2>1, <2>3, CatIdleType, <2>4, <2>5, CatReqMoves
<1> QED BY <1>1, <1>2, <1>3

(* Edits keep the requests fit. *)
LEMMA CatReqsUpdate ==
  ASSUME CatalogueAssumption, CatInv, NEW r \in Calls,
         \/ \E a \in Edits : BeginUpdate(r, a[1], a[2], a[3])
         \/ UpdateRow(r) \/ FindPrimary(r) \/ CommitUpdate(r)
  PROVE  CatReqsFit'
<1> USE CatReqFacts
<1>1. CASE \E a \in Edits : BeginUpdate(r, a[1], a[2], a[3])
  <2>1. PICK a \in Edits : BeginUpdate(r, a[1], a[2], a[3])
    BY <1>1
  <2>2. a[1] \in Names /\ a[2] \in AnyCode /\ a[3] \in Prices \cup {KeepPrice}
    BY DEF CatalogueAssumption, AnyCode
  <2> DEFINE q == [pc |-> "update", name |-> a[1], code |-> a[2], price |-> a[3]]
  <2>3. q \in CatReqs /\ q.pc = "update" /\ q.name \in Products
    BY <2>1, <2>2 DEF CatReqs, EditReqs, BeginUpdate
  <2>4. call' = [call EXCEPT ![r] = q]
    BY <2>1 DEF BeginUpdate
  <2> HIDE DEF q
  <2>5. Products' = Products /\ stocked' = stocked /\ import' = import /\ locked' = locked
        /\ barcode' = barcode /\ Row' = Row
    BY <2>1 DEF BeginUpdate, tables, Products, Row
  <2>6. OthersStay(r, q)
    BY <2>3, <2>4, <2>5 DEF Editing, OthersStay
  <2>7. MayBecome(q)
    BY <2>3, <2>4, <2>5 DEF Editing, MayBecome
  <2> QED BY <2>3, <2>4, <2>5, <2>6, <2>7, CatReqMoves
<1>2. CASE UpdateRow(r)
  <2>1. call[r].pc = "update" /\ call[r] \in EditReqs /\ call[r].name \notin locked
    BY <1>2, CatReqShape DEF UpdateRow
  <2> DEFINE q == [call[r] EXCEPT !.pc = "find"]
  <2>2. q \in CatReqs /\ q.pc = "find" /\ q.name = call[r].name
    BY <2>1 DEF CatReqs, EditReqs
  <2>3. call' = [call EXCEPT ![r] = q]
    BY <1>2 DEF UpdateRow, CatInv, CatTypes
  <2>4. Products' = Products /\ stocked' = stocked /\ import' = import
        /\ locked' = locked \cup {call[r].name} /\ barcode' = barcode /\ Row' = Row
    BY <1>2 DEF UpdateRow, Products, Row
  <2> HIDE DEF q
  <2>5. OthersStay(r, q)
    BY <2>1, <2>2, <2>3, <2>4 DEF Editing, OthersStay
  <2>6. MayBecome(q)
    BY <2>1, <2>2, <2>3, <2>4 DEF Editing, MayBecome
  <2> QED BY <2>1, <2>2, <2>3, <2>4, <2>5, <2>6, CatReqMoves
<1>3. CASE FindPrimary(r)
  <2>1. call[r].pc = "find" /\ call[r] \in EditReqs
    BY <1>3, CatReqShape DEF FindPrimary
  <2> DEFINE q == [pc |-> "barcode", name |-> call[r].name, code |-> call[r].code,
                   price |-> call[r].price, primary |-> PrimaryOf(call[r].name)]
  <2>2. q \in CatReqs
    BY <2>1 DEF CatReqs, EditReqs, CodeReqs, PrimaryOf, CatInv, CatTypes
  <2>3. q.pc = "barcode" /\ q.name = call[r].name /\ q.primary = CodesOf(barcode, q.name)
    BY DEF CodesOf, PrimaryOf
  <2>4. call' = [call EXCEPT ![r] = q]
    BY <1>3 DEF FindPrimary
  <2> HIDE DEF q
  <2>5. Products' = Products /\ stocked' = stocked /\ import' = import /\ locked' = locked
        /\ barcode' = barcode /\ Row' = Row
    BY <1>3 DEF FindPrimary, tables, Products, Row
  <2>6. OthersStay(r, q)
    BY <2>1, <2>2, <2>3, <2>4, <2>5 DEF Editing, OthersStay
  <2>7. MayBecome(q)
    BY <2>1, <2>2, <2>3, <2>4, <2>5 DEF Editing, MayBecome
  <2> QED BY <2>1, <2>2, <2>3, <2>4, <2>5, <2>6, <2>7, CatReqMoves
<1>4. CASE CommitUpdate(r)
  <2>1. call[r].pc = "barcode" /\ call' = [call EXCEPT ![r] = Idle] /\ stocked' = stocked /\ import' = import
        /\ locked' = locked \ {call[r].name} /\ Row' = Row
    BY <1>4 DEF CommitUpdate, Ends, Row
  <2>2. Products' = Products
    BY <1>4 DEF CommitUpdate, Products, CatInv, CatTypes
  <2>3. \A p : p # call[r].name => CodesOf(barcode', p) = CodesOf(barcode, p)
    BY <1>4, UpdateCodes
  <2>4. OthersStay(r, Idle)
    BY <2>1, <2>2, <2>3, CatIdleType DEF Editing, OthersStay
  <2>5. MayBecome(Idle)
    BY <2>1, <2>2, <2>3, CatIdleType DEF Editing, MayBecome
  <2> QED BY <2>1, <2>2, <2>3, CatIdleType, <2>4, <2>5, CatReqMoves
<1> QED BY <1>1, <1>2, <1>3, <1>4

(* Price changes keep the requests fit. *)
LEMMA CatReqsPrice ==
  ASSUME CatalogueAssumption, CatInv, NEW r \in Calls,
         \/ \E a \in Reprices : BeginPrice(r, a[1], a[2])
         \/ CommitPrice(r)
  PROVE  CatReqsFit'
<1> USE CatReqFacts
<1>1. CASE \E a \in Reprices : BeginPrice(r, a[1], a[2])
  <2>1. PICK a \in Reprices : BeginPrice(r, a[1], a[2])
    BY <1>1
  <2>2. a[1] \in Names /\ a[2] \in Prices /\ price[a[1]] \in Prices /\ a[1] \in Products
    BY <2>1 DEF CatalogueAssumption, BeginPrice, CatInv, CatTypes
  <2> DEFINE q == [pc |-> "price", name |-> a[1], price |-> a[2], seen |-> price[a[1]]]
  <2>3. q \in CatReqs /\ q.pc = "price" /\ q.name \in Products
    BY <2>2 DEF CatReqs, PriceReqs
  <2>4. call' = [call EXCEPT ![r] = q]
    BY <2>1 DEF BeginPrice
  <2> HIDE DEF q
  <2>5. Products' = Products /\ stocked' = stocked /\ import' = import /\ locked' = locked
        /\ barcode' = barcode /\ Row' = Row
    BY <2>1 DEF BeginPrice, tables, Products, Row
  <2>6. OthersStay(r, q)
    BY <2>3, <2>4, <2>5 DEF Editing, OthersStay
  <2>7. MayBecome(q)
    BY <2>3, <2>4, <2>5 DEF Editing, MayBecome
  <2> QED BY <2>3, <2>4, <2>5, <2>6, <2>7, CatReqMoves
<1>2. CASE CommitPrice(r)
  <2>1. call' = [call EXCEPT ![r] = Idle] /\ stocked' = stocked /\ import' = import
        /\ locked' = locked /\ barcode' = barcode /\ Row' = Row
    BY <1>2 DEF CommitPrice, Ends, Row
  <2>2. Products' = Products
    BY <1>2 DEF CommitPrice, Products, CatInv, CatTypes
  <2>3. OthersStay(r, Idle)
    BY <2>1, <2>2, CatIdleType DEF Editing, OthersStay
  <2>4. MayBecome(Idle)
    BY <2>1, <2>2, CatIdleType DEF Editing, MayBecome
  <2> QED BY <2>1, <2>2, CatIdleType, <2>3, <2>4, CatReqMoves
<1> QED BY <1>1, <1>2

(* The requests stay fit when only the import moves. *)
LEMMA CatReqsStay ==
  ASSUME CatInv, call' = call, locked' = locked, Products \subseteq Products',
         \A s \in Calls :
           /\ call[s].pc = "open" => stocked'[call[s].name] = 0
                                     /\ ~(import'.pc = "open" /\ Row'.name = call[s].name)
           /\ call[s].pc = "barcode" => CodesOf(barcode', call[s].name) = CodesOf(barcode, call[s].name)
  PROVE  CatReqsFit'
<1>1. \A p : PrimaryOf(p) = CodesOf(barcode, p)
  BY DEF PrimaryOf, CodesOf
<1>2. ASSUME NEW s \in Calls PROVE CatReqFits(s)'
  <2>1. PICK n : n = call[s].name
    OBVIOUS
  <2>2. PrimaryOf(call[s].name)' = CodesOf(barcode', n)
    BY <2>1 DEF PrimaryOf, CodesOf
  <2>3. CatReqFits(s)
    BY DEF CatInv, CatReqsFit
  <2>4. call[s].pc = "barcode" => call[s].primary = CodesOf(barcode, n)
    BY <2>1, <2>3, <1>1 DEF CatReqFits
  <2> QED BY <2>1, <2>2, <2>3, <2>4 DEF CatReqFits
<1>3. CatApart'
  BY DEF CatApart, CatInv, CatReqsFit
<1> QED BY <1>2, <1>3 DEF CatReqsFit

(* The import and the printer keep the requests fit. *)
LEMMA CatReqsImport ==
  ASSUME CatalogueAssumption, CatInv,
         \/ StartImport \/ CheckRow \/ ImportRow \/ ImportOpening
         \/ ListPending \/ MarkPrinted
  PROVE  CatReqsFit'
<1> USE CatReqFacts
<1>1. CASE StartImport
  <2>1. call' = call /\ locked' = locked /\ stocked' = stocked /\ barcode' = barcode /\ Products' = Products
        /\ import'.pc = "check"
    BY <1>1 DEF StartImport, tables, Products
  <2> QED BY <2>1, CatReqsStay
<1>2. CASE CheckRow
  <2>1. call' = call /\ locked' = locked /\ stocked' = stocked /\ barcode' = barcode /\ Products' = Products
    BY <1>2 DEF CheckRow, tables, Products
  <2>2. import'.pc # "open"
    <3>1. CASE Goes("skipped")
      BY <3>1, <1>2, GoesType DEF CheckRow, CatInv
    <3>2. CASE import' = [import EXCEPT !.pc = "create"]
      BY <3>2 DEF CatInv, CatTypes, Imports
    <3> QED BY <1>2, <3>1, <3>2 DEF CheckRow
  <2> QED BY <2>1, <2>2, CatReqsStay
<1>3. CASE ImportRow
  <2>1. call' = call /\ locked' = locked /\ stocked' = stocked /\ import.pc = "create"
    BY <1>3 DEF ImportRow
  <2>2. CASE Goes("skipped") /\ UNCHANGED <<price, barcode>>
    <3>1. import'.pc # "open"
      BY <2>1, <2>2, GoesType DEF CatInv
    <3> QED BY <2>1, <2>2, <3>1, CatReqsStay DEF Products
  <2>3. CASE /\ ~Clashes(Row.name, Row.barcode)
             /\ NewProduct(Row.name, Row.barcode)
             /\ (import' = [import EXCEPT !.pc = "open"] \/ Goes("created"))
    <3>1. PICK n, c : n = Row.name /\ c = Row.barcode
      OBVIOUS
    <3>2. n \in Names /\ c \in AnyCode /\ n \notin Products
      BY <2>1, <2>3, <3>1, FileRow DEF Row, Valid, Clashes, CatInv, CatTypes
    <3>3. Products' = Products \cup {n}
      BY <2>3, <3>1, <3>2, NewProductType DEF CatInv
    <3>4. \A p : p # n => CodesOf(barcode', p) = CodesOf(barcode, p)
      BY <2>3, <3>1, <3>2, NewProductCodes
    <3>5. import'.pc = "open" => Row'.name = n
      <4>1. CASE Goes("created")
        BY <4>1, <2>1, GoesType DEF CatInv
      <4>2. CASE import' = [import EXCEPT !.pc = "open"]
        BY <4>2, <3>1 DEF Row, CatInv, CatTypes, Imports
      <4> QED BY <2>3, <4>1, <4>2
    <3> QED BY <2>1, <3>2, <3>3, <3>4, <3>5, CatReqsStay
  <2> QED BY <1>3, <2>2, <2>3 DEF ImportRow
<1>4. CASE ImportOpening
  <2>1. call' = call /\ locked' = locked /\ barcode' = barcode /\ import.pc = "open" /\ Products' = Products
    BY <1>4 DEF ImportOpening, Products
  <2>2. import'.pc # "open"
    BY <1>4, <2>1, GoesType DEF ImportOpening, CatInv
  <2>3. stocked' = stocked \/ stocked' = [stocked EXCEPT ![Row.name] = @ + 1]
    BY <1>4 DEF ImportOpening
  <2>4. \A s \in Calls : call[s].pc = "open" => stocked'[call[s].name] = 0
    BY <2>1, <2>3 DEF CatInv, CatTypes
  <2> QED BY <2>1, <2>2, <2>4, CatReqsStay
<1>5. CASE ListPending \/ MarkPrinted
  <2>1. call' = call /\ locked' = locked /\ barcode' = barcode /\ stocked' = stocked /\ import' = import
        /\ Products' = Products /\ Row' = Row
    BY <1>5 DEF ListPending, MarkPrinted, tables, Products, Row
  <2> QED BY <2>1, CatReqsStay
<1> QED BY <1>1, <1>2, <1>3, <1>4, <1>5

(* A new product's code is new, and belongs to it alone. *)
LEMMA NewCodesFit ==
  ASSUME CatalogueAssumption, CatInv, NEW n \in Names, NEW c \in AnyCode,
         NewProduct(n, c), ~Clashes(n, c)
  PROVE  CodesFit'
<1> DEFINE new == [product |-> n, code |-> c, primary |-> TRUE]
<1>1. barcode' = barcode \/ barcode' = barcode \cup {new}
  BY DEF NewProduct
<1>2. n \notin Products /\ \A b \in barcode : b.code # c
  BY DEF Clashes, Codes
<1>3. Products' = Products \cup {n}
  BY NewProductType DEF CatInv
<1>4. new.product = n /\ new.code = c
  OBVIOUS
<1>5. CodesFit
  BY DEF CatInv
<1> HIDE DEF new
<1> QED BY <1>1, <1>2, <1>3, <1>4, <1>5 DEF CodesFit

(* A code belongs to one product, and a product has one, in every step.      *)
LEMMA CodesStep ==
  ASSUME CatalogueAssumption, CatInv, [CatalogueNext]_catalogueVars
  PROVE  CodesFit'
<1>1. CASE UNCHANGED <<price, barcode>>
  BY <1>1 DEF CatInv, CodesFit, Products
<1>2. ASSUME NEW r \in Calls, CreateRow(r) PROVE CodesFit'
  <2>1. call[r].name \in Names /\ call[r].code \in AnyCode
    BY <1>2, CatReqFacts, CatReqShape DEF CreateRow
  <2> QED BY <1>2, <1>1, <2>1, NewCodesFit DEF CreateRow
<1>3. ASSUME NEW r \in Calls, CommitUpdate(r) PROVE CodesFit'
  BY <1>3, UpdateCodes
<1>4. ASSUME NEW r \in Calls, CommitPrice(r) PROVE CodesFit'
  <2>1. Products' = Products /\ barcode' = barcode
    BY <1>4 DEF CommitPrice, Products, CatInv, CatTypes
  <2> QED BY <2>1 DEF CatInv, CodesFit
<1>5. CASE ImportRow
  <2>1. Row.name \in Names /\ Row.barcode \in AnyCode
    BY <1>5, FileRow DEF ImportRow, Row, Valid, CatInv, CatTypes
  <2> QED BY <1>5, <1>1, <2>1, NewCodesFit DEF ImportRow
<1>6. ASSUME NEW r \in Calls,
             \/ \E a \in Creates : BeginCreate(r, a[1], a[2])
             \/ \E a \in Edits : BeginUpdate(r, a[1], a[2], a[3])
             \/ \E a \in Reprices : BeginPrice(r, a[1], a[2])
             \/ ReceiveOpening(r) \/ UpdateRow(r) \/ FindPrimary(r)
      PROVE  UNCHANGED <<price, barcode>>
  BY <1>6 DEF BeginCreate, BeginUpdate, BeginPrice, ReceiveOpening, UpdateRow, FindPrimary,
              tables
<1>7. CASE ListPending \/ MarkPrinted \/ StartImport \/ CheckRow \/ ImportOpening
  BY <1>7, <1>1 DEF ListPending, MarkPrinted, StartImport, CheckRow, ImportOpening, tables
<1>8. CASE UNCHANGED catalogueVars
  BY <1>8, <1>1 DEF catalogueVars
<1> QED BY <1>1, <1>2, <1>3, <1>4, <1>5, <1>6, <1>7, <1>8 DEF CatalogueNext

(* Stock stays as it fits while nothing is received and no row is reported. *)
LEMMA StockStays ==
  ASSUME CatInv, stocked' = stocked, Products \subseteq Products',
         import'.created = import.created, import'.pc # "open"
  PROVE  StockFits'
BY DEF CatInv, StockFits

(* Opening stock is received once at most, in every step.                    *)
LEMMA StockStep ==
  ASSUME CatalogueAssumption, CatInv, [CatalogueNext]_catalogueVars
  PROVE  StockFits'
<1>0. StockFits /\ CatTypes
  BY DEF CatInv
<1>1. CASE UNCHANGED <<stocked, import>> /\ Products \subseteq Products'
  BY <1>0, <1>1 DEF StockFits, Row
<1>2. ASSUME NEW r \in Calls, CreateRow(r) PROVE StockFits'
  <2>1. call[r].name \in Names /\ call[r].code \in AnyCode
    BY <1>2, CatReqFacts, CatReqShape DEF CreateRow
  <2>2. Products \subseteq Products'
    BY <1>2, <2>1, NewProductType DEF CreateRow, CatInv, Products
  <2> QED BY <1>1, <1>2, <2>2 DEF CreateRow
<1>3. ASSUME NEW r \in Calls, ReceiveOpening(r) PROVE StockFits'
  <2>1. call[r].pc = "open" /\ import' = import /\ Products' = Products /\ Row' = Row
    BY <1>3 DEF ReceiveOpening, Products, Row
  <2>2. PICK n : n = call[r].name
    OBVIOUS
  <2>3. stocked[n] = 0 /\ ~(import.pc = "open" /\ Row.name = n) /\ n \in Products /\ n \in Names
    BY <2>1, <2>2, CatReqFacts
  <2>4. stocked' = stocked \/ stocked' = [stocked EXCEPT ![n] = @ + 1]
    BY <1>3, <2>2 DEF ReceiveOpening
  <2>5. stocked \in [Names -> Nat]
    BY <1>0 DEF CatTypes
  <2>6. \A m \in Names : stocked'[m] = IF m = n /\ stocked' # stocked THEN 1 ELSE stocked[m]
    BY <2>3, <2>4, <2>5
  <2>7. \A i \in import.created : File[i].name \in Products /\ (File[i].opening => stocked[File[i].name] = 1)
    BY <1>0 DEF StockFits
  <2>8. Products \subseteq Names
    BY <1>0 DEF CatTypes
  <2> HIDE DEF Products
  <2> QED BY <2>1, <2>3, <2>6, <2>7, <2>8, <1>0 DEF StockFits
<1>4. ASSUME NEW r \in Calls, CommitUpdate(r) \/ CommitPrice(r) PROVE StockFits'
  <2>1. Products' = Products /\ UNCHANGED <<stocked, import>>
    BY <1>4 DEF CommitUpdate, CommitPrice, Products, CatInv, CatTypes
  <2> QED BY <1>1, <2>1
<1>5. CASE ImportRow
  <2>0. /\ Row.name \in Names /\ Row.barcode \in AnyCode /\ Row = File[import.row]
        /\ import.pc = "create" /\ stocked' = stocked
    BY <1>5, FileRow DEF ImportRow, Row, Valid, CatInv, CatTypes
  <2>1. CASE Goes("skipped") /\ UNCHANGED <<price, barcode>>
    <3>1. Products' = Products
      BY <2>1 DEF Products
    <3>2. import'.created = import.created /\ import'.pc # "open"
      BY <2>0, <2>1, GoesType DEF CatInv
    <3> QED BY <2>0, <3>1, <3>2, StockStays
  <2>2. CASE /\ ~Clashes(Row.name, Row.barcode)
             /\ NewProduct(Row.name, Row.barcode)
             /\ IF Row.opening THEN import' = [import EXCEPT !.pc = "open"] ELSE Goes("created")
    <3>1. Products' = Products \cup {Row.name} /\ Row.name \notin Products
      BY <2>0, <2>2, NewProductType DEF CatInv, Clashes
    <3>2. stocked[Row.name] = 0
      BY <3>1, <2>0, <1>0 DEF StockFits
    <3>3. CASE Row.opening
      <4>1. import' = [import EXCEPT !.pc = "open"]
        BY <2>2, <3>3
      <4>2. import'.row = import.row /\ import'.created = import.created
        BY <4>1, <1>0 DEF CatTypes, Imports
      <4>3. Row' = Row
        BY <4>2 DEF Row
      <4> HIDE DEF Products
      <4> QED BY <2>0, <3>1, <3>2, <4>2, <4>3, <1>0 DEF StockFits
    <3>4. CASE ~Row.opening
      <4>1. import'.created = import.created \cup {import.row} /\ import'.pc # "open"
        BY <2>0, <2>2, <3>4, GoesType DEF CatInv
      <4> HIDE DEF Products
      <4> QED BY <2>0, <3>1, <3>4, <4>1, <1>0 DEF StockFits
    <3> QED BY <3>3, <3>4
  <2> QED BY <1>5, <2>1, <2>2 DEF ImportRow
<1>6. CASE ImportOpening
  <2>1. /\ import.pc = "open" /\ Products' = Products /\ Row = File[import.row]
    BY <1>6 DEF ImportOpening, Products, Row
  <2>2. PICK n : n = Row.name
    OBVIOUS
  <2>3. n \in Products /\ stocked[n] = 0 /\ n \in Names
    BY <2>1, <2>2, <1>0 DEF StockFits, CatTypes
  <2>4. CASE stocked' = [stocked EXCEPT ![n] = @ + 1] /\ Goes("created")
    <3>1. import'.created = import.created \cup {import.row} /\ import'.pc # "open"
      BY <2>1, <2>4, GoesType DEF CatInv
    <3>2. \A m \in Names : stocked'[m] = IF m = n THEN 1 ELSE stocked[m]
      BY <2>3, <2>4, <1>0 DEF CatTypes
    <3>3. \A i \in import.created : File[i].name \in Products /\ (File[i].opening => stocked[File[i].name] = 1)
      BY <1>0 DEF StockFits
    <3>4. Products \subseteq Names
      BY <1>0 DEF CatTypes
    <3>5. \A m \in Names : stocked[m] <= 1 /\ (m \notin Products => stocked[m] = 0)
      BY <1>0 DEF StockFits
    <3> HIDE DEF Products
    <3>6. \A m \in Names : stocked'[m] <= 1 /\ (m \notin Products' => stocked'[m] = 0)
      BY <2>1, <2>3, <3>2, <3>5
    <3>7. \A i \in import'.created : File[i].name \in Products' /\ (File[i].opening => stocked'[File[i].name] = 1)
      BY <2>1, <2>2, <2>3, <3>1, <3>2, <3>3, <3>4
    <3> QED BY <3>1, <3>6, <3>7 DEF StockFits
  <2>5. CASE UNCHANGED stocked /\ Goes("skipped")
    <3>1. import'.created = import.created /\ import'.pc # "open"
      BY <2>1, <2>5, GoesType DEF CatInv
    <3> QED BY <2>1, <2>5, <3>1, StockStays
  <2> QED BY <1>6, <2>2, <2>4, <2>5 DEF ImportOpening
<1>7. CASE StartImport
  <2>1. import'.created = {} /\ import'.pc # "open" /\ stocked' = stocked /\ Products' = Products
    BY <1>7 DEF StartImport, tables, Products
  <2> QED BY <2>1, <1>0 DEF StockFits
<1>8. CASE CheckRow
  <2>1. stocked' = stocked /\ Products' = Products /\ import.pc = "check"
    BY <1>8 DEF CheckRow, tables, Products
  <2>2. import'.created = import.created /\ import'.pc # "open"
    <3>1. CASE Goes("skipped")
      BY <3>1, <2>1, GoesType DEF CatInv
    <3>2. CASE import' = [import EXCEPT !.pc = "create"]
      BY <3>2, <1>0 DEF CatTypes, Imports
    <3> QED BY <1>8, <3>1, <3>2 DEF CheckRow
  <2> QED BY <2>1, <2>2, StockStays
<1>9. ASSUME NEW r \in Calls,
             \/ \E a \in Creates : BeginCreate(r, a[1], a[2])
             \/ \E a \in Edits : BeginUpdate(r, a[1], a[2], a[3])
             \/ \E a \in Reprices : BeginPrice(r, a[1], a[2])
             \/ UpdateRow(r) \/ FindPrimary(r)
      PROVE  UNCHANGED <<price, stocked, import>>
  BY <1>9 DEF BeginCreate, BeginUpdate, BeginPrice, UpdateRow, FindPrimary, tables
<1>10. CASE UNCHANGED <<price, stocked, import>>
  BY <1>1, <1>10 DEF Products
<1>11. CASE ListPending \/ MarkPrinted \/ UNCHANGED catalogueVars
  BY <1>11, <1>10 DEF ListPending, MarkPrinted, tables, catalogueVars
<1> QED BY <1>2, <1>3, <1>4, <1>5, <1>6, <1>7, <1>8, <1>9, <1>10, <1>11 DEF CatalogueNext

(* Prices, histories and labels that stay keep fitting, also when a product  *)
(* is new.                                                                   *)
LEMMA PricesStay ==
  ASSUME CatalogueAssumption, CatInv,
         UNCHANGED <<changes, labels, printer, shelf, edited, raced>>,
         Products \subseteq Products', Products' \subseteq Names,
         \A n \in Products : price'[n] = price[n],
         \A n \in Products' \ Products : price'[n] = FirstPrice
  PROVE  PricesFit'
<1>0. PricesFit
  BY DEF CatInv
<1>1. Pending' = Pending
  BY DEF Pending
<1> HIDE DEF Products
<1>2. \A i \in DOMAIN labels' : labels'[i].product \in Products'
  BY <1>0 DEF PricesFit
<1>3. PrinterFits' /\ (edited \subseteq raced)'
  BY <1>0 DEF PricesFit, PrinterFits, Listing
<1>4. ASSUME NEW n \in Names PROVE (HistoryFits(n) /\ LabelFits(n) /\ ListedFits(n))'
  <2>1. HistoryFits(n) /\ LabelFits(n) /\ ListedFits(n) /\ PrinterFits
    BY <1>0 DEF PricesFit
  <2>2. HistoryFits(n)'
    <3>1. Recorded(n)' = Recorded(n)
      BY DEF Recorded
    <3>2. n \notin Products => Recorded(n) = FirstPrice
      BY <2>1 DEF HistoryFits, Recorded
    <3> QED BY <2>1, <3>1, <3>2 DEF HistoryFits
  <2>3. LabelFits(n)'
    BY <1>1, <2>1 DEF LabelFits, HistoryFits
  <2>4. ListedFits(n)'
    BY <1>1, <2>1 DEF ListedFits, Listing, PrinterFits
  <2> QED BY <2>2, <2>3, <2>4
<1> QED BY <1>2, <1>3, <1>4 DEF PricesFit

(* An edit that changes the price takes the product out of what the history  *)
(* explains.                                                                 *)
LEMMA PricesUpdate ==
  ASSUME CatalogueAssumption, CatInv, NEW r \in Calls, CommitUpdate(r)
  PROVE  PricesFit'
<1>1. PICK p : p = call[r].name
  OBVIOUS
<1>2. Products' = Products /\ UNCHANGED <<changes, labels, printer, shelf>>
  BY DEF CommitUpdate, Products, CatInv, CatTypes
<1>3. \/ price' = price /\ edited' = edited /\ raced' = raced
      \/ /\ price' = [price EXCEPT ![p] = call[r].price]
         /\ edited' = edited \cup {p} /\ raced' = raced \cup {p}
  BY <1>1 DEF CommitUpdate
<1>4. price \in [Products -> Prices] /\ Products \subseteq Names /\ PricesFit
  BY DEF CatInv, CatTypes
<1> HIDE DEF Products
<1>5. /\ \A n \in Products' : n \in edited' \/ price'[n] = price[n]
      /\ edited \subseteq edited' /\ raced \subseteq raced' /\ edited' \subseteq raced'
  BY <1>2, <1>3, <1>4 DEF PricesFit
<1>6. Pending' = Pending
  BY <1>2 DEF Pending
<1>7. PrinterFits'
  BY <1>2, <1>4 DEF PricesFit, PrinterFits, Listing
<1>8. \A i \in DOMAIN labels' : labels'[i].product \in Products'
  BY <1>2, <1>4 DEF PricesFit
<1>9. ASSUME NEW n \in Names PROVE (HistoryFits(n) /\ LabelFits(n) /\ ListedFits(n))'
  <2>1. HistoryFits(n) /\ LabelFits(n) /\ ListedFits(n) /\ PrinterFits
    BY <1>4 DEF PricesFit
  <2>2. Recorded(n)' = Recorded(n)
    BY <1>2 DEF Recorded
  <2>3. HistoryFits(n)'
    BY <1>2, <1>5, <2>1, <2>2 DEF HistoryFits
  <2>4. LabelFits(n)'
    BY <1>2, <1>5, <1>6, <2>1 DEF LabelFits
  <2>5. ListedFits(n)'
    BY <1>2, <1>5, <1>6, <2>1 DEF ListedFits, Listing, PrinterFits
  <2> QED BY <2>3, <2>4, <2>5
<1> QED BY <1>5, <1>7, <1>8, <1>9 DEF PricesFit

(* A change of the price is recorded and has its label.                      *)
LEMMA PricesChange ==
  ASSUME CatalogueAssumption, CatInv, NEW r \in Calls, CommitPrice(r)
  PROVE  PricesFit'
<1>1. PICK p, v, s : p = call[r].name /\ v = call[r].price /\ s = call[r].seen
  OBVIOUS
<1>2. call[r].pc = "price"
  BY DEF CommitPrice
<1>3. p \in Products /\ p \in Names /\ v \in Prices /\ s \in Prices
  BY <1>1, <1>2, CatReqFacts, CatReqShape
<1>4. /\ price' = [price EXCEPT ![p] = v]
      /\ changes' = [changes EXCEPT ![p] = Append(@, [old |-> s, new |-> v])]
      /\ labels' = Append(labels, [product |-> p, status |-> "PENDING"])
      /\ raced' = IF price[p] = s THEN raced ELSE raced \cup {p}
      /\ edited' = edited \ {p}
      /\ UNCHANGED <<printer, shelf>>
  BY <1>1 DEF CommitPrice
<1>5. /\ price \in [Products -> Prices] /\ Products \subseteq Names /\ PricesFit
      /\ changes \in [Names -> Seq(ChangeRows)] /\ labels \in Seq(LabelRows)
  BY DEF CatInv, CatTypes
<1>6. Products' = Products
  BY <1>4, <1>5 DEF Products
<1> HIDE DEF Products
<1>7. \A n \in Names \ {p} : price'[n] = price[n] \/ n \notin Products
  BY <1>4, <1>5
<1>8. price'[p] = v
  BY <1>3, <1>4, <1>5
<1> DEFINE k == Len(labels) + 1
<1>9. /\ k \in DOMAIN labels' /\ labels'[k] = [product |-> p, status |-> "PENDING"]
      /\ k \notin DOMAIN labels
      /\ DOMAIN labels' = DOMAIN labels \cup {k}
      /\ \A i \in DOMAIN labels : labels'[i] = labels[i]
  BY <1>4, <1>5
<1> HIDE DEF k
<1>10. labels'[k].product = p /\ labels'[k].status = "PENDING"
  BY <1>9
<1>11. Pending' = Pending \cup {k}
  BY <1>9, <1>10 DEF Pending
<1>12. edited' \subseteq raced' /\ edited' \subseteq edited /\ raced \subseteq raced'
  BY <1>4, <1>5 DEF PricesFit
<1>13. \A i \in DOMAIN labels' : labels'[i].product \in Products'
  BY <1>3, <1>5, <1>6, <1>9, <1>10 DEF PricesFit
<1>14. PrinterFits'
  <2>1. printer' = printer
    BY <1>4
  <2>2. PrinterFits
    BY <1>5 DEF PricesFit
  <2> QED BY <1>6, <1>9, <2>1, <2>2 DEF PrinterFits, Listing
<1>15. \A i \in Pending : labels'[i] = labels[i] /\ i # k
  BY <1>9 DEF Pending
<1>16. printer.pc = "listed" => k \notin printer.jobs
  BY <1>5, <1>9 DEF PricesFit, PrinterFits, Listing
<1>17. ASSUME NEW n \in Names \ {p} PROVE (HistoryFits(n) /\ LabelFits(n) /\ ListedFits(n))'
  <2>1. HistoryFits(n) /\ LabelFits(n) /\ ListedFits(n) /\ PrinterFits
    BY <1>5 DEF PricesFit
  <2>2. changes'[n] = changes[n] /\ Recorded(n)' = Recorded(n) /\ shelf' = shelf /\ printer' = printer
    BY <1>4, <1>5 DEF Recorded
  <2>3. (n \in edited' <=> n \in edited) /\ (n \in raced' <=> n \in raced)
    BY <1>4
  <2>4. HistoryFits(n)'
    BY <1>6, <1>7, <2>1, <2>2, <2>3 DEF HistoryFits
  <2>5. LabelFits(n)'
    BY <1>6, <1>7, <1>11, <1>15, <2>1, <2>2, <2>3 DEF LabelFits
  <2>6. ListedFits(n)'
    BY <1>6, <1>7, <1>11, <1>15, <2>1, <2>2, <2>3 DEF ListedFits, Listing, PrinterFits
  <2> QED BY <2>4, <2>5, <2>6
<1>18. (HistoryFits(p) /\ LabelFits(p) /\ ListedFits(p))'
  <2>1. HistoryFits(p)
    BY <1>3, <1>5 DEF PricesFit
  <2>2. PICK cs \in Seq(ChangeRows) : cs = changes[p]
    BY <1>3, <1>5
  <2>3. PICK x : x = [old |-> s, new |-> v]
    OBVIOUS
  <2>4. x \in ChangeRows /\ x.old = s /\ x.new = v
    BY <1>3, <2>3 DEF ChangeRows
  <2>5. changes'[p] = Append(cs, x)
    BY <1>3, <1>4, <1>5, <2>2, <2>3
  <2>6. changes'[p] # <<>> /\ Len(changes'[p]) = Len(cs) + 1 /\ changes'[p][Len(cs) + 1] = x
        /\ \A i \in 1..Len(cs) : changes'[p][i] = cs[i]
    <3>1. Len(cs) \in Nat /\ Append(cs, x) \in Seq(ChangeRows)
      BY <2>2, <2>4
    <3>2. Len(Append(cs, x)) = Len(cs) + 1
      BY <2>2, <2>4
    <3>3. Append(cs, x)[Len(cs) + 1] = x
      BY <2>2, <2>4
    <3>4. \A i \in 1..Len(cs) : Append(cs, x)[i] = cs[i]
      BY <2>2, <2>4
    <3>5. Append(cs, x) # <<>>
      BY <3>1, <3>2
    <3> QED BY <2>5, <3>2, <3>3, <3>4, <3>5
  <2>7. Recorded(p)' = v
    BY <2>6, <2>4 DEF Recorded
  <2>8. ASSUME p \notin raced', NEW i \in 1..(Len(changes'[p]) - 1)
        PROVE  changes'[p][i + 1].old = changes'[p][i].new
    <3>1. p \notin raced /\ price[p] = s /\ p \notin edited
      BY <1>4, <1>5, <2>8 DEF PricesFit
    <3>2. Len(cs) \in Nat /\ i \in 1..Len(cs)
      BY <2>2, <2>6
    <3>3. CASE i = Len(cs)
      <4>1. cs # <<>> /\ Recorded(p) = cs[Len(cs)].new
        BY <2>2, <3>2, <3>3 DEF Recorded
      <4>2. price[p] = Recorded(p)
        BY <1>3, <3>1, <2>1 DEF HistoryFits
      <4> QED BY <2>4, <2>6, <3>1, <3>2, <3>3, <4>1, <4>2
    <3>4. CASE i # Len(cs)
      <4>1. i \in 1..(Len(cs) - 1) /\ i + 1 \in 1..Len(cs)
        BY <3>2, <3>4
      <4>2. cs[i + 1].old = cs[i].new
        BY <2>1, <2>2, <3>1, <4>1 DEF HistoryFits
      <4> QED BY <2>6, <3>2, <4>1, <4>2
    <3> QED BY <3>3, <3>4
  <2>9. HistoryFits(p)'
    BY <1>3, <1>6, <1>8, <2>7, <2>8 DEF HistoryFits
  <2>10. LabelFits(p)'
    BY <1>10, <1>11 DEF LabelFits
  <2>11. ListedFits(p)'
    BY <1>4, <1>10, <1>11, <1>16 DEF ListedFits, Listing
  <2> QED BY <2>9, <2>10, <2>11
<1> QED BY <1>12, <1>13, <1>14, <1>17, <1>18 DEF PricesFit

(* Listing the jobs and marking them printed. *)
LEMMA PricesPrint ==
  ASSUME CatalogueAssumption, CatInv, ListPending \/ MarkPrinted
  PROVE  PricesFit'
<1>0. /\ PricesFit /\ labels \in Seq(LabelRows) /\ Products \subseteq Names
      /\ price \in [Products -> Prices] /\ shelf \in [Names -> Prices]
  BY DEF CatInv, CatTypes
<1>1. Products' = Products /\ UNCHANGED <<price, changes, edited, raced>>
  BY DEF ListPending, MarkPrinted, tables, Products
<1> HIDE DEF Products
<1>2. ASSUME NEW n \in Names PROVE Recorded(n)' = Recorded(n)
  BY <1>1 DEF Recorded
<1>3. CASE ListPending
  <2> DEFINE named == { labels[i].product : i \in Pending }
  <2>1. UNCHANGED <<labels, shelf>> /\ printer'.pc = "listed" /\ printer'.jobs = Pending
        /\ printer'.prices = [p \in named |-> price[p]]
    BY <1>3 DEF ListPending, tables
  <2>2. Pending' = Pending /\ Pending \subseteq DOMAIN labels
    BY <2>1 DEF Pending
  <2>3. named \subseteq Products /\ \A i \in Pending : labels[i].product \in named
    BY <2>2, <1>0 DEF PricesFit
  <2>4. DOMAIN printer'.prices = named /\ \A p \in named : printer'.prices[p] = price[p]
    BY <2>1
  <2> HIDE DEF named
  <2>5. PrinterFits'
    BY <1>0, <1>1, <2>1, <2>2, <2>3, <2>4 DEF PrinterFits, Listing
  <2>6. \A n \in Names : (HistoryFits(n) /\ LabelFits(n) /\ ListedFits(n))'
    <3>1. ASSUME NEW n \in Names PROVE HistoryFits(n)'
      BY <1>0, <1>1, <1>2, <2>1 DEF PricesFit, HistoryFits
    <3>2. ASSUME NEW n \in Names PROVE LabelFits(n)'
      BY <1>0, <1>1, <2>1, <2>2 DEF PricesFit, LabelFits
    <3>3. ASSUME NEW n \in Names PROVE ListedFits(n)'
      BY <1>1, <2>4 DEF ListedFits
    <3> QED BY <3>1, <3>2, <3>3
  <2>7. (\A i \in DOMAIN labels : labels[i].product \in Products)'
    BY <1>0, <1>1, <2>1 DEF PricesFit
  <2>8. (edited \subseteq raced)'
    BY <1>0, <1>1 DEF PricesFit
  <2> QED BY <2>5, <2>6, <2>7, <2>8 DEF PricesFit
<1>4. CASE MarkPrinted
  <2>1. /\ printer.pc = "listed" /\ printer'.pc = "idle"
        /\ shelf' = [n \in Names |-> IF n \in DOMAIN printer.prices THEN printer.prices[n] ELSE shelf[n]]
        /\ labels' = [i \in DOMAIN labels |->
             IF i \in printer.jobs THEN [labels[i] EXCEPT !.status = "PRINTED"] ELSE labels[i]]
    BY <1>4 DEF MarkPrinted
  <2>2. \A i \in DOMAIN labels : labels[i] \in LabelRows
    BY <1>0
  <2>3. /\ DOMAIN labels' = DOMAIN labels
        /\ \A i \in DOMAIN labels : labels'[i].product = labels[i].product
        /\ \A i \in DOMAIN labels \ printer.jobs : labels'[i] = labels[i]
    BY <2>1, <2>2 DEF LabelRows
  <2>4. Pending \ printer.jobs \subseteq Pending'
    BY <2>3 DEF Pending
  <2>5. PrinterFits
    BY <1>0 DEF PricesFit
  <2>6. PrinterFits'
    BY <2>1 DEF PrinterFits, Listing
  <2>7. \A n \in Names : (HistoryFits(n) /\ LabelFits(n) /\ ListedFits(n))'
    <3>1. ASSUME NEW n \in Names PROVE HistoryFits(n)'
      <4>1. n \notin Products => shelf'[n] = shelf[n]
        BY <2>1, <2>5 DEF PrinterFits, Listing
      <4> QED BY <1>0, <1>1, <1>2, <4>1 DEF PricesFit, HistoryFits
    <3>2. ASSUME NEW n \in Names PROVE LabelFits(n)'
      <4>1. SUFFICES ASSUME n \in Products, n \notin edited, shelf'[n] # price[n]
                     PROVE  \E i \in Pending' : labels'[i].product = n
        BY <1>1 DEF LabelFits
      <4>2. LabelFits(n) /\ ListedFits(n)
        BY <1>0 DEF PricesFit
      <4>3. \E i \in Pending \ printer.jobs : labels[i].product = n
        <5>1. CASE n \in DOMAIN printer.prices
          BY <2>1, <4>1, <4>2, <5>1 DEF ListedFits, Listing
        <5>2. CASE n \notin DOMAIN printer.prices
          <6>1. shelf'[n] = shelf[n]
            BY <2>1, <5>2
          <6>2. PICK i \in Pending : labels[i].product = n
            BY <4>1, <4>2, <6>1 DEF LabelFits
          <6>3. i \notin printer.jobs
            BY <2>1, <2>5, <5>2, <6>2 DEF PrinterFits, Listing
          <6> QED BY <6>2, <6>3
        <5> QED BY <5>1, <5>2
      <4>4. Pending \subseteq DOMAIN labels
        BY DEF Pending
      <4> QED BY <2>3, <2>4, <4>3, <4>4
    <3>3. ASSUME NEW n \in Names PROVE ListedFits(n)'
      BY <2>1 DEF ListedFits, Listing
    <3> QED BY <3>1, <3>2, <3>3
  <2>8. (\A i \in DOMAIN labels : labels[i].product \in Products)'
    BY <1>0, <1>1, <2>3 DEF PricesFit
  <2>9. (edited \subseteq raced)'
    BY <1>0, <1>1 DEF PricesFit
  <2> QED BY <2>6, <2>7, <2>8, <2>9 DEF PricesFit
<1> QED BY <1>3, <1>4

(* There is nothing in the catalogue at first. *)
LEMMA CatInit ==
  ASSUME CatalogueAssumption
  PROVE  CatalogueInit => CatInv
<1> SUFFICES ASSUME CatalogueInit PROVE CatInv
  OBVIOUS
<1>1. Products = {}
  BY DEF CatalogueInit, Products
<1>2. FirstPrice \in Prices
  BY DEF CatalogueAssumption
<1>3. CatTypes
  <2>1. import \in Imports
    BY DEF CatalogueInit, Imports
  <2>2. call \in [Calls -> CatReqs] /\ changes \in [Names -> Seq(ChangeRows)] /\ labels \in Seq(LabelRows)
    BY CatIdleType DEF CatalogueInit
  <2> QED BY <1>1, <1>2, <2>1, <2>2 DEF CatalogueInit, CatTypes, Products
<1>4. CatReqsFit
  <2>1. \A r \in Calls : call[r].pc = "idle"
    BY CatIdleType DEF CatalogueInit
  <2> QED BY <2>1 DEF CatReqsFit, CatApart, CatReqFits, Editing
<1>5. CodesFit /\ StockFits
  BY DEF CatalogueInit, CodesFit, StockFits
<1>6. PricesFit
  <2>1. edited \subseteq raced /\ PrinterFits /\ \A i \in DOMAIN labels : labels[i].product \in Products
    BY DEF CatalogueInit, PrinterFits, Listing
  <2>2. \A n \in Names : HistoryFits(n) /\ LabelFits(n) /\ ListedFits(n)
    <3>1. ASSUME NEW n \in Names PROVE changes[n] = <<>> /\ shelf[n] = FirstPrice
      BY DEF CatalogueInit
    <3>2. \A i \in 1..(0 - 1) : FALSE
      OBVIOUS
    <3>3. ASSUME NEW n \in Names PROVE HistoryFits(n)
      BY <1>1, <3>1, <3>2 DEF HistoryFits
    <3>4. ASSUME NEW n \in Names PROVE LabelFits(n) /\ ListedFits(n)
      BY <1>1 DEF CatalogueInit, LabelFits, ListedFits, Listing
    <3> QED BY <3>3, <3>4
  <2> QED BY <2>1, <2>2 DEF PricesFit
<1> QED BY <1>3, <1>4, <1>5, <1>6 DEF CatInv

(* Every step keeps the invariant. *)
LEMMA CatStep ==
  ASSUME CatalogueAssumption, CatInv, [CatalogueNext]_catalogueVars
  PROVE  CatInv'
<1>0. CatTypes /\ PricesFit
  BY DEF CatInv
<1>1. CodesFit' /\ StockFits'
  BY CodesStep, StockStep
<1>2. CASE CatalogueNext
  <2>1. CatTypes'
    BY <1>0, <1>2, CatTypesCreate, CatTypesUpdate, CatTypesPrice, CatTypesImport DEF CatalogueNext
  <2>2. CatReqsFit'
    BY <1>2, CatReqsCreate, CatReqsUpdate, CatReqsPrice, CatReqsImport DEF CatalogueNext
  <2>3. CASE UNCHANGED <<price, changes, labels, printer, shelf, edited, raced>>
    <3>1. Products' = Products /\ Products \subseteq Names
      BY <1>0, <2>3 DEF Products, CatTypes
    <3> QED BY <2>1, <2>2, <1>1, <2>3, <3>1, PricesStay DEF CatInv
  <2>4. ASSUME NEW n \in Names, NEW c \in AnyCode, NewProduct(n, c), n \notin Products,
               UNCHANGED <<changes, labels, printer, shelf, edited, raced>>
        PROVE  PricesFit'
    <3>1. /\ Products' = Products \cup {n} /\ Products' \subseteq Names
          /\ price'[n] = FirstPrice
          /\ \A p \in Products \ {n} : price'[p] = price[p]
      BY <1>0, <2>4, NewProductType
    <3> HIDE DEF Products
    <3>2. /\ Products \subseteq Products'
          /\ \A p \in Products : price'[p] = price[p]
          /\ \A p \in Products' \ Products : price'[p] = FirstPrice
      BY <2>4, <3>1
    <3> QED BY <2>4, <3>1, <3>2, PricesStay
  <2>5. PricesFit'
    <3>1. CASE UNCHANGED price /\ UNCHANGED <<changes, labels, printer, shelf, edited, raced>>
      BY <2>3, <3>1 DEF CatInv
    <3>2. ASSUME NEW r \in Calls, CreateRow(r) PROVE PricesFit'
      <4>1. call[r].name \in Names /\ call[r].code \in AnyCode
        BY <3>2, CatReqFacts, CatReqShape DEF CreateRow
      <4> QED BY <2>4, <3>1, <3>2, <4>1 DEF CreateRow, Clashes
    <3>3. CASE ImportRow
      <4>1. Row.name \in Names /\ Row.barcode \in AnyCode
        BY <3>3, <1>0, FileRow DEF ImportRow, Row, Valid, CatTypes
      <4> QED BY <2>4, <3>1, <3>3, <4>1 DEF ImportRow, Clashes
    <3>4. ASSUME NEW r \in Calls, CommitUpdate(r) \/ CommitPrice(r) PROVE PricesFit'
      BY <3>4, PricesUpdate, PricesChange
    <3>5. CASE ListPending \/ MarkPrinted
      BY <3>5, PricesPrint
    <3>6. ASSUME NEW r \in Calls,
                 \/ \E a \in Creates : BeginCreate(r, a[1], a[2])
                 \/ \E a \in Edits : BeginUpdate(r, a[1], a[2], a[3])
                 \/ \E a \in Reprices : BeginPrice(r, a[1], a[2])
                 \/ ReceiveOpening(r) \/ UpdateRow(r) \/ FindPrimary(r)
          PROVE  UNCHANGED price /\ UNCHANGED <<changes, labels, printer, shelf, edited, raced>>
      BY <3>6 DEF BeginCreate, BeginUpdate, BeginPrice, ReceiveOpening, UpdateRow, FindPrimary,
                  tables
    <3>7. CASE StartImport \/ CheckRow \/ ImportOpening
      BY <3>7, <3>1 DEF StartImport, CheckRow, ImportOpening, tables
    <3> QED BY <1>2, <3>1, <3>2, <3>3, <3>4, <3>5, <3>6, <3>7 DEF CatalogueNext
  <2> QED BY <1>1, <2>1, <2>2, <2>5 DEF CatInv
<1>3. CASE UNCHANGED catalogueVars
  <2>1. UNCHANGED <<price, barcode, stocked, changes, labels, locked, call, import, printer, shelf, edited, raced>>
    BY <1>3 DEF catalogueVars
  <2>2. Products' = Products /\ Row' = Row /\ Products \subseteq Names
    BY <2>1, <1>0 DEF Products, Row, CatTypes
  <2>3. CatTypes'
    BY <1>0, <2>1 DEF CatTypes, Products
  <2>4. CatReqsFit'
    BY <2>1, <2>2, CatReqsStay, CatReqFacts
  <2>5. PricesFit'
    BY <2>1, <2>2, PricesStay
  <2> QED BY <1>1, <2>3, <2>4, <2>5 DEF CatInv
<1> QED BY <1>2, <1>3

(* The inductive invariant of the catalogue: what each request and the       *)
(* import rely on between their steps, the codes, the stock received, and    *)
(* the history of prices and labels.                                         *)
THEOREM CatalogueHolds == CatalogueSpec => []CatInv
<1>1. CatalogueInit => CatInv
  BY CatInit, CatalogueAssumption
<1>2. CatInv /\ [CatalogueNext]_catalogueVars => CatInv'
  BY CatStep, CatalogueAssumption
<1> QED BY <1>1, <1>2, PTL DEF CatalogueSpec

(* Opening stock is received once at most, what an import reports as created *)
(* is there, and no product gets two primary barcodes                        *)
(* (catalog.service.ts:306-403 and 493-515, bulk-import.service.ts:145-226). *)
THEOREM OpeningStockOnce == CatalogueSpec => []OpenedOnce
<1>1. CatInv => OpenedOnce
  <2> SUFFICES ASSUME CatInv PROVE OpenedOnce
    OBVIOUS
  <2>1. CatTypes /\ StockFits /\ CodesFit
    BY DEF CatInv
  <2>2. \A n \in Names : stocked[n] <= 1 /\ (stocked[n] = 1 => n \in Products)
    BY <2>1 DEF StockFits
  <2>3. \A i \in import.created : File[i].name \in Products /\ (File[i].opening => stocked[File[i].name] = 1)
    BY <2>1 DEF StockFits
  <2>4. ASSUME NEW p \in Products PROVE Cardinality(PrimaryOf(p)) <= 1
    <3> DEFINE B == PrimaryOf(p)
    <3>1. \A b, d \in B : b = d
      BY <2>1 DEF CodesFit, PrimaryOf
    <3> HIDE DEF B
    <3>2. CASE B = {}
      <4>1. Cardinality(B) = 0
        BY <3>2, FS_EmptySet
      <4> QED BY <4>1 DEF B
    <3>3. CASE B # {}
      <4>1. PICK b \in B : TRUE
        BY <3>3
      <4>2. B = {b}
        BY <3>1, <4>1
      <4>3. Cardinality({b}) = 1
        BY FS_Singleton
      <4> QED BY <4>2, <4>3 DEF B
    <3> QED BY <3>2, <3>3
  <2> QED BY <2>2, <2>3, <2>4 DEF OpenedOnce
<1> QED BY <1>1, CatalogueHolds, PTL

(* A price that was set through changePrice is the last one recorded, the    *)
(* record leads to it without a gap unless changes overlapped or an edit     *)
(* came between, and an outdated shelf label has a job                       *)
(* (prices.service.ts:22-71, labels.service.ts:12-43).                       *)
THEOREM RecordedPrices == CatalogueSpec => []PricesExplained
<1>1. CatInv => PricesExplained
  <2> SUFFICES ASSUME CatInv, NEW p \in Products \ edited
               PROVE  /\ price[p] = (IF changes[p] = <<>> THEN FirstPrice ELSE changes[p][Len(changes[p])].new)
                      /\ p \notin raced => \A i \in 1..(Len(changes[p]) - 1) : changes[p][i + 1].old = changes[p][i].new
                      /\ shelf[p] # price[p] => (\E i \in Pending : labels[i].product = p)
    BY DEF PricesExplained
  <2>1. HistoryFits(p) /\ LabelFits(p)
    BY DEF CatInv, CatTypes, PricesFit
  <2> QED BY <2>1 DEF HistoryFits, LabelFits, Recorded
<1> QED BY <1>1, CatalogueHolds, PTL

=============================================================================
