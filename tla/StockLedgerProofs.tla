------------------------- MODULE StockLedgerProofs -------------------------
(* Proofs about StockLedger, for any products, locations, requests, enabled  *)
(* operations, quantities and document lengths.                              *)
EXTENDS StockLedger, SumTheorems, TLAPS

Assumptions == /\ IsFiniteSet(Locations)
               /\ DefaultLoc \in Locations
               /\ Quarantine \in Locations
               /\ None \notin Requests
               /\ Qty \subseteq Nat \ {0}
               /\ MaxLines \in Nat
               /\ OpeningStock \subseteq Nat

(* The assumptions on the constants, in one name. *)
LEMMA AssumptionsHold == Assumptions
BY LocationsAssumption, NoneAssumption, QtyAssumption, MaxLinesAssumption, OpeningAssumption
   DEF Assumptions

(* Every document is a sequence of lines, so Begin stores one. *)
LEMMA DocumentsAreSequences ==
  ASSUME NEW S \in SUBSET Line
  PROVE  Documents(S) \subseteq Seq(Line)
<1> SUFFICES ASSUME NEW n \in 1..MaxLines, NEW ls \in [1..n -> S]
             PROVE  ls \in Seq(Line)
  BY DEF Documents
<1> QED BY MaxLinesAssumption

(* The lines a document can have are lines. *)
LEMMA LinesOfALocation ==
  ASSUME NEW loc \in Locations
  PROVE  /\ In(loc) \subseteq Line
         /\ Out(loc) \subseteq Line
         /\ Counted(loc) \subseteq Line
BY QtyAssumption DEF In, Out, Counted, Line, Rows

(* One line is a list of lines. *)
LEMMA OneLine ==
  ASSUME NEW l \in Line
  PROVE  <<l>> \in Seq(Line)
OBVIOUS

(* An operation locks rows. *)
LEMMA LockedRowsAreRows ==
  ASSUME NEW o, NEW ls \in Seq(Line)
  PROVE  LocksFor(o, ls) \subseteq Rows
<1>1. \A i \in DOMAIN ls : ls[i] \in Line
  OBVIOUS
<1>2. \A i \in DOMAIN ls : ls[i].row \in Rows
  BY <1>1 DEF Line
<1> QED BY <1>2 DEF LocksFor

(* The invariant. A row a transaction has written is locked by it; a row it *)
(* may apply a line to next is locked by it or still wanted; its drafts are *)
(* computed from the committed rows; committed rows are explained.          *)
WritesLocked == \A w \in Requests : \A r \in touched[w] : owner[r] = w

LinesLocked == \A w \in Requests : \A r \in LocksFor(op[w], lines[w]) :
                 pc[w] = "running" => r \in want[w] \/ owner[r] = w

(* What a transaction has computed from a row it loaded is still about the  *)
(* committed row when it commits: nobody wrote the row in between.          *)
DraftsFresh == \A w \in Requests : \A r \in touched[w] :
                 /\ draft[w][r].before = onHand[r]
                 /\ draft[w][r].after = onHand[r] + draft[w][r].delta

IInv == TypeOK /\ WritesLocked /\ LinesLocked /\ DraftsFresh /\ NoDrift /\ ChainIntact

-----------------------------------------------------------------------------
(* The first state satisfies the invariant. *)
LEMMA InitEstablishes == Init => IInv
<1> SUFFICES ASSUME Init PROVE IInv
  OBVIOUS
<1>1. TypeOK
  <2>1. onHand \in [Rows -> Nat]
    BY OpeningAssumption DEF Init
  <2>2. lines \in [Requests -> Seq(Line)]
    BY DEF Init
  <2>3. draft \in [Requests -> [Rows -> [before : Nat, after : Nat, delta : Int]]]
    BY DEF Init, NoDraft
  <2> QED BY <2>1, <2>2, <2>3 DEF Init, TypeOK
<1>2. WritesLocked /\ LinesLocked /\ DraftsFresh
  BY DEF Init, WritesLocked, LinesLocked, DraftsFresh
<1>3. NoDrift /\ ChainIntact
  BY DEF Init, NoDrift, ChainIntact
<1> QED BY <1>1, <1>2, <1>3 DEF IInv

(* An operation's start leaves stock, locks and drafts alone. *)
LEMMA BeginPreserves ==
  ASSUME IInv, NEW w \in Requests, NEW o \in OpNames, NEW ls \in Seq(Line), Begin(w, o, ls)
  PROVE  IInv'
<1> USE DEF IInv, Begin, stockVars
<1>1. LocksFor(o, ls) \in SUBSET Rows
  BY LockedRowsAreRows
<1>2. TypeOK'
  BY <1>1 DEF TypeOK
<1>3. WritesLocked' /\ DraftsFresh' /\ NoDrift' /\ ChainIntact'
  BY DEF WritesLocked, DraftsFresh, NoDrift, ChainIntact
<1>4. LinesLocked'
  <2> SUFFICES ASSUME NEW v \in Requests, NEW r \in LocksFor(op'[v], lines'[v]), pc'[v] = "running"
               PROVE  r \in want'[v] \/ owner'[r] = v
    BY DEF LinesLocked, LocksFor
  <2>1. CASE v = w
    BY <2>1 DEF TypeOK
  <2>2. CASE v # w
    BY <2>2 DEF TypeOK, LinesLocked
  <2> QED BY <2>1, <2>2
<1> QED BY <1>2, <1>3, <1>4

(* Each operation begins with lines of its own kind. *)
LEMMA StartPreserves ==
  ASSUME IInv, NEW w \in Requests, Start(w)
  PROVE  IInv'
<1> USE AssumptionsHold DEF Assumptions, OpNames
<1>1. CASE Checkout(w)
  BY <1>1, BeginPreserves, DocumentsAreSequences, LinesOfALocation DEF Checkout
<1>2. CASE Restock(w)
  BY <1>2, BeginPreserves, DocumentsAreSequences, LinesOfALocation DEF Restock
<1>3. CASE ReceiveGoods(w)
  BY <1>3, BeginPreserves, OneLine, LinesOfALocation DEF ReceiveGoods
<1>4. CASE AdjustStock(w)
  BY <1>4, BeginPreserves, OneLine, LinesOfALocation DEF AdjustStock
<1>5. CASE WriteOff(w)
  BY <1>5, BeginPreserves, OneLine, LinesOfALocation DEF WriteOff
<1>6. CASE ReturnToStock(w)
  BY <1>6, BeginPreserves, OneLine, LinesOfALocation DEF ReturnToStock
<1>7. CASE MoveToQuarantine(w)
  <2> PICK loc \in Locations, p \in Products, q \in Qty :
        Begin(w, "quarantine", <<[row |-> <<p, loc>>, how |-> "add", qty |-> -q],
                                 [row |-> <<p, Quarantine>>, how |-> "add", qty |-> q]>>)
    BY <1>7 DEF MoveToQuarantine
  <2>1. /\ [row |-> <<p, loc>>, how |-> "add", qty |-> -q] \in Line
        /\ [row |-> <<p, Quarantine>>, how |-> "add", qty |-> q] \in Line
    BY DEF Line, Rows
  <2>2. \A k, l \in Line : <<k, l>> \in Seq(Line)
    OBVIOUS
  <2> QED BY <2>1, <2>2, BeginPreserves
<1>8. CASE SendTransfer(w)
  BY <1>8, BeginPreserves, DocumentsAreSequences, LinesOfALocation DEF SendTransfer
<1>9. CASE ReceiveTransfer(w)
  BY <1>9, BeginPreserves, DocumentsAreSequences, LinesOfALocation DEF ReceiveTransfer
<1>10. CASE GoodsReceipt(w)
  <2>1. UNION { In(loc) : loc \in Locations } \subseteq Line
    BY LinesOfALocation
  <2> QED BY <1>10, <2>1, BeginPreserves, DocumentsAreSequences DEF GoodsReceipt
<1>11. CASE SupplierReturn(w)
  <2>1. UNION { Out(loc) : loc \in Locations } \subseteq Line
    BY LinesOfALocation
  <2> QED BY <1>11, <2>1, BeginPreserves, DocumentsAreSequences DEF SupplierReturn
<1>12. CASE PostCount(w)
  BY <1>12, BeginPreserves, DocumentsAreSequences, LinesOfALocation DEF PostCount
<1> QED BY <1>1, <1>2, <1>3, <1>4, <1>5, <1>6, <1>7, <1>8, <1>9, <1>10, <1>11, <1>12 DEF Start

-----------------------------------------------------------------------------
(* A lock is granted only when the row is free, so nobody else loses one. *)
LEMMA LockRowPreserves ==
  ASSUME IInv, NEW w \in Requests, LockRow(w)
  PROVE  IInv'
<1> USE DEF IInv, LockRow, stockVars
<1> DEFINE r0 == NextRow(w)
<1>1. TypeOK'
  BY DEF TypeOK
<1>2. DraftsFresh' /\ NoDrift' /\ ChainIntact'
  BY DEF DraftsFresh, NoDrift, ChainIntact
<1>3. WritesLocked'
  BY NoneAssumption DEF WritesLocked, TypeOK, Free
<1>4. LinesLocked'
  <2> SUFFICES ASSUME NEW v \in Requests, NEW r \in LocksFor(op[v], lines[v]), pc[v] = "running"
               PROVE  r \in want'[v] \/ owner'[r] = v
    BY DEF LinesLocked, LocksFor
  <2>1. r \in want[v] \/ owner[r] = v
    BY DEF LinesLocked
  <2>2. r \in Rows
    BY LockedRowsAreRows DEF TypeOK
  <2>3. CASE r = r0
    <3>1. owner[r] = None
      BY <2>3 DEF Free
    <3>2. owner'[r] = w
      BY <2>2, <2>3 DEF TypeOK
    <3>3. v # w => want'[v] = want[v]
      BY DEF TypeOK
    <3> QED BY <2>1, <3>1, <3>2, <3>3, NoneAssumption
  <2>4. CASE r # r0
    BY <2>1, <2>2, <2>4 DEF TypeOK
  <2> QED BY <2>3, <2>4
<1> QED BY <1>1, <1>2, <1>3, <1>4

(* The row of the line about to be applied is locked by its request. *)
LEMMA HeadRowLocked ==
  ASSUME TypeOK, LinesLocked, NEW w \in Requests, Ready(w), lines[w] # << >>
  PROVE  /\ Head(lines[w]) \in Line
         /\ Head(lines[w]).row \in Rows
         /\ owner[Head(lines[w]).row] = w
         /\ Tail(lines[w]) \in Seq(Line)
<1>1. lines[w] \in Seq(Line)
  BY DEF TypeOK
<1>2. 1 \in DOMAIN lines[w] /\ Head(lines[w]) = lines[w][1] /\ Head(lines[w]) \in Line
  BY <1>1 DEF Ready
<1>3. Head(lines[w]).row \in LocksFor(op[w], lines[w])
  BY <1>2 DEF LocksFor
<1>4. owner[Head(lines[w]).row] = w
  BY <1>3 DEF LinesLocked, Ready
<1> QED BY <1>1, <1>2, <1>4 DEF Line, Ready

(* What a line drafts: a movement chain from the committed on-hand to the   *)
(* drafted one.                                                             *)
LEMMA DraftedIsFresh ==
  ASSUME TypeOK, DraftsFresh, NEW w \in Requests, NEW l \in Line,
         Seen(w, l.row) + Delta(w, l) >= 0
  PROVE  /\ Drafted(w, l) \in [before : Nat, after : Nat, delta : Int]
         /\ Drafted(w, l).before = onHand[l.row]
         /\ Drafted(w, l).after = onHand[l.row] + Drafted(w, l).delta
<1>1. l.row \in Rows /\ l.qty \in Int
  BY DEF Line
<1>2. onHand[l.row] \in Nat
  BY <1>1 DEF TypeOK
<1>3. draft[w][l.row] \in [before : Nat, after : Nat, delta : Int]
  BY <1>1 DEF TypeOK
<1>4. Seen(w, l.row) \in Nat
  BY <1>2, <1>3 DEF Seen
<1>5. Delta(w, l) \in Int
  BY <1>1, <1>4 DEF Delta
<1>6. CASE l.row \in touched[w]
  <2>1. /\ draft[w][l.row].before = onHand[l.row]
        /\ draft[w][l.row].after = onHand[l.row] + draft[w][l.row].delta
    BY <1>6 DEF DraftsFresh
  <2> QED BY <1>2, <1>3, <1>4, <1>5, <1>6, <2>1 DEF Drafted, Seen
<1>7. CASE l.row \notin touched[w]
  BY <1>2, <1>4, <1>5, <1>7 DEF Drafted, Seen
<1> QED BY <1>6, <1>7

(* Drafting a line keeps the invariant: the draft starts from the row as it is. *)
LEMMA ApplyLinePreserves ==
  ASSUME IInv, NEW w \in Requests, ApplyLine(w)
  PROVE  IInv'
<1> DEFINE l == Head(lines[w])
<1> USE DEF IInv
<1>1. /\ l \in Line /\ l.row \in Rows /\ owner[l.row] = w
      /\ Tail(lines[w]) \in Seq(Line)
  BY HeadRowLocked DEF ApplyLine
<1>2. Seen(w, l.row) + Delta(w, l) >= 0
  BY DEF ApplyLine
<1>3. /\ Drafted(w, l) \in [before : Nat, after : Nat, delta : Int]
      /\ Drafted(w, l).before = onHand[l.row]
      /\ Drafted(w, l).after = onHand[l.row] + Drafted(w, l).delta
  BY <1>1, <1>2, DraftedIsFresh
<1>4. LocksFor(op[w], Tail(lines[w])) \subseteq Rows
  BY <1>1, LockedRowsAreRows
<1>5. UNCHANGED <<onHand, ledger, lastAfter, chained, owner, pc, op>>
  BY DEF ApplyLine, stockVars
<1>6. \/ UNCHANGED <<touched, draft>>
      \/ /\ touched' = [touched EXCEPT ![w] = @ \cup {l.row}]
         /\ draft' = [draft EXCEPT ![w][l.row] = Drafted(w, l)]
  BY DEF ApplyLine
<1>7. Advance(w)
  BY DEF ApplyLine
<1> DEFINE b == Drafted(w, l)
<1> HIDE DEF l, b
<1>8. TypeOK'
  <2>1. touched' \in [Requests -> SUBSET Rows]
    <3>1. touched[w] \cup {l.row} \in SUBSET Rows
      BY <1>1 DEF TypeOK
    <3>2. touched' = touched \/ touched' = [touched EXCEPT ![w] = touched[w] \cup {l.row}]
      BY <1>6
    <3> QED BY <3>1, <3>2 DEF TypeOK
  <2>3. draft' \in [Requests -> [Rows -> [before : Nat, after : Nat, delta : Int]]]
    <3>1. CASE draft' = draft
      BY <3>1 DEF TypeOK
    <3>2. CASE draft' = [draft EXCEPT ![w][l.row] = b]
      <4>1. b \in [before : Nat, after : Nat, delta : Int]
        BY <1>3 DEF b
      <4>2. [draft[w] EXCEPT ![l.row] = b] \in [Rows -> [before : Nat, after : Nat, delta : Int]]
        BY <4>1 DEF TypeOK
      <4>3. draft' = [draft EXCEPT ![w] = [draft[w] EXCEPT ![l.row] = b]]
        BY <3>2
      <4> QED BY <4>2, <4>3 DEF TypeOK
    <3> QED BY <1>6, <3>1, <3>2 DEF b
  <2>2. want' \in [Requests -> SUBSET Rows] /\ lines' \in [Requests -> Seq(Line)]
    BY <1>1, <1>4, <1>7 DEF TypeOK, Advance
  <2> QED BY <1>5, <2>1, <2>2, <2>3 DEF TypeOK
<1>9. WritesLocked'
  <2> SUFFICES ASSUME NEW v \in Requests, NEW r \in touched'[v]
               PROVE  owner[r] = v
    BY <1>5 DEF WritesLocked
  <2>1. r \in touched[v] \/ (v = w /\ r = l.row)
    BY <1>6 DEF TypeOK
  <2> QED BY <1>1, <2>1 DEF WritesLocked
<1>10. LinesLocked'
  <2> SUFFICES ASSUME NEW v \in Requests, NEW r \in LocksFor(op[v], lines'[v]), pc[v] = "running"
               PROVE  r \in want'[v] \/ owner[r] = v
    BY <1>5 DEF LinesLocked, LocksFor
  <2>1. CASE v = w
    <3>1. lines'[w] = Tail(lines[w])
      BY <1>7 DEF Advance, TypeOK
    <3>2. want'[w] = { x \in LocksFor(op[w], Tail(lines[w])) : owner[x] # w }
      BY <1>7 DEF Advance, TypeOK
    <3> QED BY <2>1, <3>1, <3>2
  <2>2. CASE v # w
    <3>1. lines'[v] = lines[v] /\ want'[v] = want[v]
      BY <1>7, <2>2 DEF Advance, TypeOK
    <3> QED BY <2>2, <3>1 DEF LinesLocked
  <2> QED BY <2>1, <2>2
<1>11. DraftsFresh'
  <2> SUFFICES ASSUME NEW v \in Requests, NEW r \in touched'[v]
               PROVE  /\ draft'[v][r].before = onHand[r]
                      /\ draft'[v][r].after = onHand[r] + draft'[v][r].delta
    BY <1>5 DEF DraftsFresh
  <2>1. CASE draft'[v][r] = draft[v][r] /\ r \in touched[v]
    BY <2>1 DEF DraftsFresh
  <2>2. CASE v = w /\ r = l.row /\ draft'[v][r] = b
    BY <1>3, <2>2 DEF b
  <2>3. CASE UNCHANGED <<touched, draft>>
    BY <2>1, <2>3
  <2>4. CASE /\ touched' = [touched EXCEPT ![w] = @ \cup {l.row}]
             /\ draft' = [draft EXCEPT ![w][l.row] = b]
    <3>1. \/ v = w /\ r = l.row
          \/ r \in touched[v] /\ ~(v = w /\ r = l.row)
      BY <2>4 DEF TypeOK
    <3>2. draft'[v][r] = IF v = w /\ r = l.row THEN b ELSE draft[v][r]
      <4>1. draft' = [draft EXCEPT ![w] = [draft[w] EXCEPT ![l.row] = b]]
        BY <2>4
      <4>2. draft[w] \in [Rows -> [before : Nat, after : Nat, delta : Int]]
        BY DEF TypeOK
      <4>3. draft'[w] = [draft[w] EXCEPT ![l.row] = b]
        BY <4>1 DEF TypeOK
      <4>4. v # w => draft'[v] = draft[v]
        BY <4>1 DEF TypeOK
      <4>5. CASE v = w
        <5>1. [draft[w] EXCEPT ![l.row] = b] = [x \in Rows |-> IF x = l.row THEN b ELSE draft[w][x]]
          BY <4>2
        <5>2. r \in Rows
          BY <1>1, <2>4 DEF TypeOK
        <5> QED BY <4>3, <4>5, <5>1, <5>2
      <4>6. CASE v # w
        BY <4>4, <4>6
      <4> QED BY <4>5, <4>6
    <3> QED BY <2>1, <2>2, <3>1, <3>2
  <2> QED BY <1>6, <2>3, <2>4 DEF b
<1>12. NoDrift' /\ ChainIntact'
  BY <1>5 DEF NoDrift, ChainIntact
<1> QED BY <1>8, <1>9, <1>10, <1>11, <1>12

(* Ending a transaction keeps every fact about the others. *)
LEMMA EndPreserves ==
  ASSUME IInv, NEW w \in Requests, End(w)
  PROVE  /\ WritesLocked' /\ LinesLocked'
         /\ owner' \in [Rows -> Requests \cup {None}]
         /\ pc' \in [Requests -> {"new", "running", "done"}]
         /\ op' \in [Requests -> OpNames \cup {"none"}]
         /\ want' \in [Requests -> SUBSET Rows]
         /\ lines' \in [Requests -> Seq(Line)]
         /\ touched' \in [Requests -> SUBSET Rows]
         /\ draft' \in [Requests -> [Rows -> [before : Nat, after : Nat, delta : Int]]]
<1> USE DEF IInv, End
<1>1. << >> \in Seq(Line) /\ NoDraft \in [Rows -> [before : Nat, after : Nat, delta : Int]]
  <2>1. [before |-> 0, after |-> 0, delta |-> 0] \in [before : Nat, after : Nat, delta : Int]
    OBVIOUS
  <2> QED BY <2>1 DEF NoDraft
<1>2. WritesLocked'
  <2> SUFFICES ASSUME NEW v \in Requests, NEW r \in touched'[v]
               PROVE  owner'[r] = v
    BY DEF WritesLocked
  <2>1. v # w /\ r \in touched[v] /\ r \in Rows
    BY DEF TypeOK
  <2> QED BY <2>1 DEF WritesLocked
<1>3. LinesLocked'
  <2> SUFFICES ASSUME NEW v \in Requests, NEW r \in LocksFor(op'[v], lines'[v]), pc'[v] = "running"
               PROVE  r \in want'[v] \/ owner'[r] = v
    BY DEF LinesLocked, LocksFor
  <2>1. v # w
    BY DEF TypeOK
  <2>2. /\ op'[v] = op[v] /\ lines'[v] = lines[v] /\ pc'[v] = pc[v] /\ want'[v] = want[v]
    BY <2>1 DEF TypeOK
  <2>3. r \in want[v] \/ owner[r] = v
    BY <2>2 DEF LinesLocked
  <2>4. r \in Rows
    BY <2>2, LockedRowsAreRows DEF TypeOK
  <2> QED BY <2>1, <2>2, <2>3, <2>4
<1> QED BY <1>1, <1>2, <1>3 DEF TypeOK

(* A commit turns fresh drafts into explained, chained committed rows; the  *)
(* drafts of the others are on rows it does not write.                      *)
LEMMA CommitPreserves ==
  ASSUME IInv, NEW w \in Requests, Commit(w)
  PROVE  IInv'
<1> USE DEF IInv
<1>1. End(w)
  BY DEF Commit
<1>2. /\ touched[w] \subseteq Rows
      /\ \A r \in touched[w] : /\ draft[w][r].before \in Nat
                               /\ draft[w][r].after \in Nat
                               /\ draft[w][r].delta \in Int
  BY DEF TypeOK
<1>3. \A r \in touched[w] : /\ draft[w][r].before = onHand[r]
                            /\ draft[w][r].after = onHand[r] + draft[w][r].delta
  BY DEF DraftsFresh
<1>4. TypeOK'
  <2>1. onHand' \in [Rows -> Nat] /\ lastAfter' \in [Rows -> Nat]
    BY <1>2 DEF TypeOK, Commit
  <2>2. ledger' \in [Rows -> Int]
    BY <1>2 DEF TypeOK, Commit
  <2>3. chained' \in [Rows -> BOOLEAN]
    BY DEF TypeOK, Commit
  <2> QED BY <1>1, <2>1, <2>2, <2>3, EndPreserves DEF TypeOK
<1>5. WritesLocked' /\ LinesLocked'
  BY <1>1, EndPreserves
<1>6. NoDrift'
  BY <1>3 DEF NoDrift, Commit
<1>7. ChainIntact'
  BY <1>3 DEF ChainIntact, Commit
<1>8. DraftsFresh'
  <2> SUFFICES ASSUME NEW v \in Requests, NEW r \in touched'[v]
               PROVE  /\ draft'[v][r].before = onHand'[r]
                      /\ draft'[v][r].after = onHand'[r] + draft'[v][r].delta
    BY DEF DraftsFresh
  <2>1. v # w /\ r \in touched[v] /\ draft'[v] = draft[v]
    BY <1>1 DEF End, TypeOK
  <2>2. r \in Rows /\ r \notin touched[w]
    BY <2>1 DEF WritesLocked, TypeOK
  <2>3. onHand'[r] = onHand[r]
    BY <2>2 DEF Commit
  <2> QED BY <2>1, <2>3 DEF DraftsFresh
<1> QED BY <1>4, <1>5, <1>6, <1>7, <1>8

(* A refused, failed or aborted request leaves committed stock as it was. *)
LEMMA FailurePreserves ==
  ASSUME IInv, NEW w \in Requests, End(w), UNCHANGED stockVars
  PROVE  IInv'
<1> USE DEF IInv, stockVars
<1>1. TypeOK'
  BY EndPreserves DEF TypeOK
<1>2. NoDrift' /\ ChainIntact'
  BY DEF NoDrift, ChainIntact
<1>3. DraftsFresh'
  BY DEF DraftsFresh, End, TypeOK
<1> QED BY <1>1, <1>2, <1>3, EndPreserves

(* Every step of every operation keeps the invariant. *)
LEMMA StepPreserves == IInv /\ [Next]_vars => IInv'
<1> SUFFICES ASSUME IInv, [Next]_vars PROVE IInv'
  OBVIOUS
<1>1. CASE UNCHANGED vars
  BY <1>1 DEF vars, stockVars, IInv, TypeOK, WritesLocked, LinesLocked, LocksFor,
              DraftsFresh, NoDrift, ChainIntact
<1>2. ASSUME NEW w \in Requests, Start(w) \/ LockRow(w) \/ Proceed(w) \/ Rollback(w)
      PROVE  IInv'
  <2>1. CASE Start(w)
    BY <2>1, StartPreserves
  <2>2. CASE LockRow(w)
    BY <2>2, LockRowPreserves
  <2>3. CASE ApplyLine(w)
    BY <2>3, ApplyLinePreserves
  <2>4. CASE Commit(w)
    BY <2>4, CommitPreserves
  <2>5. CASE Refuse(w)
    BY <2>5, FailurePreserves DEF Refuse
  <2>6. CASE DeadlockVictim(w)
    BY <2>6, FailurePreserves DEF DeadlockVictim
  <2>7. CASE Rollback(w)
    BY <2>7, FailurePreserves DEF Rollback
  <2> QED BY <1>2, <2>1, <2>2, <2>3, <2>4, <2>5, <2>6, <2>7 DEF Proceed
<1> QED BY <1>1, <1>2 DEF Next

(* The inductive invariant holds in every reachable state. *)
THEOREM InvariantHolds == Spec => []IInv
BY InitEstablishes, StepPreserves, PTL DEF Spec

(* Every stock-changing request, interleaved with any others and failing at *)
(* any point, keeps its variables well-typed: in particular committed       *)
(* on-hand is never negative, which the CHECK constraint                    *)
(* InventoryItem_quantityOnHand_nonnegative would otherwise have to refuse. *)
THEOREM TypeCorrect == Spec => []TypeOK
<1>1. IInv => TypeOK
  BY DEF IInv
<1> QED BY <1>1, InvariantHolds, PTL

(* On-hand always equals the sum of the movements' qtyDelta. *)
THEOREM LedgerExplainsStock == Spec => []NoDrift
<1>1. IInv => NoDrift
  BY DEF IInv
<1> QED BY <1>1, InvariantHolds, PTL

(* The movements of each row form one chain that ends in its on-hand. *)
THEOREM MovementsFormAChain == Spec => []ChainIntact
<1>1. IInv => ChainIntact
  BY DEF IInv
<1> QED BY <1>1, InvariantHolds, PTL

(* What a transaction drafted still fits the committed rows. *)
THEOREM NoStaleDraft == Spec => []DraftsFresh
<1>1. IInv => DraftsFresh
  BY DEF IInv
<1> QED BY <1>1, InvariantHolds, PTL

-----------------------------------------------------------------------------
(* Carts. A checkout asks for rows of one location in the order of their     *)
(* products, and holds smaller ones only; so along a chain of waiting carts  *)
(* the products grow, and a catalogue that is finite has no circle.          *)
CartOrder ==
  \A w \in Requests :
    /\ pc[w] = "new" => \A s \in Rows : owner[s] # w
    /\ op[w] = "checkout" =>
         \A r \in want[w] : /\ r \in Products \X {DefaultLoc}
                            /\ \A s \in Rows : owner[s] = w => s[1] < r[1]

(* lockInventoryRows (stock.util.ts) takes the least product it still wants. *)
LEMMA NextRowIsLeast ==
  ASSUME NEW w \in Requests, want[w] # {}, want[w] \in SUBSET Rows
  PROVE  NextRow(w) \in want[w] /\ \A s \in want[w] : NextRow(w)[1] <= s[1]
<1> DEFINE ids == { r[1] : r \in want[w] }
<1>1. ids \in SUBSET Nat /\ ids # {}
  BY ProductsAssumption DEF Rows
<1>2. PICK m \in ids : \A n \in ids : m <= n
  BY <1>1, LeastNumber
<1>3. \E r \in want[w] : \A s \in want[w] : r[1] <= s[1]
  BY <1>2
<1> QED BY <1>3 DEF NextRow

(* No cart holds or wants anything yet. *)
LEMMA CartOrderInit == Init => CartOrder
  BY NoneAssumption DEF Init, CartOrder

(* A transaction that starts holds nothing. *)
LEMMA CartOrderStart ==
  ASSUME IInv, CartOrder, NEW w \in Requests, Start(w)
  PROVE  CartOrder'
<1> USE DEF IInv, TypeOK
<1>1. ASSUME NEW o \in OpNames \ {"checkout"}, NEW ls, Begin(w, o, ls)
      PROVE  CartOrder'
  BY <1>1 DEF Begin, CartOrder
<1>2. CASE Checkout(w)
  <2>1. PICK ls \in Documents(Out(DefaultLoc)) : Begin(w, "checkout", ls)
    BY <1>2 DEF Checkout
  <2>2. LocksFor("checkout", ls) \subseteq Products \X {DefaultLoc}
    <3>1. \A i \in DOMAIN ls : ls[i] \in Out(DefaultLoc)
      <4>1. PICK n \in 1..MaxLines : ls \in [1..n -> Out(DefaultLoc)]
        BY DEF Documents
      <4> QED BY <4>1
    <3> QED BY <3>1 DEF LocksFor, LockFirst, Out
  <2>3. /\ owner' = owner /\ pc[w] = "new" /\ pc' = [pc EXCEPT ![w] = "running"]
        /\ op' = [op EXCEPT ![w] = "checkout"]
        /\ want' = [want EXCEPT ![w] = LocksFor("checkout", ls)]
    BY <2>1 DEF Begin
  <2>4. ASSUME NEW v \in Requests, v # w
        PROVE  pc'[v] = pc[v] /\ op'[v] = op[v] /\ want'[v] = want[v]
    BY <2>3, <2>4
  <2>5. pc'[w] = "running" /\ want'[w] = LocksFor("checkout", ls)
    BY <2>3
  <2> QED BY <2>2, <2>3, <2>4, <2>5 DEF CartOrder
<1>3. CASE ~Checkout(w)
  <2>1. \E o \in OpNames \ {"checkout"} : \E ls : Begin(w, o, ls)
    BY <1>3 DEF Start, Restock, ReceiveGoods, AdjustStock, WriteOff, ReturnToStock,
                MoveToQuarantine, SendTransfer, ReceiveTransfer, GoodsReceipt,
                SupplierReturn, PostCount, OpNames
  <2> QED BY <2>1, <1>1
<1> QED BY <1>2, <1>3

(* A cart takes the least of the rows it wants. *)
LEMMA CartOrderLockRow ==
  ASSUME IInv, CartOrder, NEW w \in Requests, LockRow(w)
  PROVE  CartOrder'
<1> USE DEF IInv, TypeOK
<1> DEFINE r == NextRow(w)
<1>1. /\ r \in want[w] /\ \A s \in want[w] : r[1] <= s[1]
      /\ r \in Rows /\ owner' = [owner EXCEPT ![r] = w]
      /\ want' = [want EXCEPT ![w] = @ \ {r}] /\ pc[w] = "running"
      /\ pc' = pc /\ op' = op
  BY NextRowIsLeast DEF LockRow
<1> HIDE DEF r
<1>2. ASSUME NEW v \in Requests, v # w
      PROVE  want'[v] = want[v] /\ \A s \in Rows : owner'[s] = v => owner[s] = v
  BY <1>1, <1>2
<1>3. ASSUME op[w] = "checkout", NEW t \in want'[w], NEW s \in Rows, owner'[s] = w
      PROVE  t \in Products \X {DefaultLoc} /\ s[1] < t[1]
  <2>1. t \in want[w] /\ t # r
    BY <1>1, <1>3
  <2>2. r \in Products \X {DefaultLoc} /\ t \in Products \X {DefaultLoc}
    BY <1>1, <1>3, <2>1 DEF CartOrder
  <2>3. r[1] # t[1] /\ r[1] \in Nat /\ t[1] \in Nat
    <3>1. \A x \in Products \X {DefaultLoc} : x = <<x[1], DefaultLoc>>
      OBVIOUS
    <3>2. \A x \in Products \X {DefaultLoc} : x[1] \in Nat
      BY ProductsAssumption
    <3> QED BY <2>1, <2>2, <3>1, <3>2
  <2>4. r[1] <= t[1]
    BY <1>1, <2>1
  <2>5. s = r \/ owner[s] = w
    BY <1>1, <1>3
  <2> QED BY <1>3, <2>1, <2>2, <2>3, <2>4, <2>5 DEF CartOrder
<1>4. op[w] = "checkout" => want'[w] \subseteq Products \X {DefaultLoc}
  BY <1>1 DEF CartOrder
<1> QED BY <1>1, <1>2, <1>3, <1>4 DEF CartOrder

(* A cart has all its rows before its first line, so it wants no more. *)
LEMMA CartOrderApplyLine ==
  ASSUME IInv, CartOrder, NEW w \in Requests, ApplyLine(w)
  PROVE  CartOrder'
<1> USE DEF IInv, TypeOK
<1>1. /\ pc' = pc /\ op' = op /\ owner' = owner /\ pc[w] = "running" /\ want[w] = {}
      /\ lines[w] \in Seq(Line) /\ lines[w] # << >>
      /\ want' = [want EXCEPT ![w] =
                    { r \in LocksFor(op[w], Tail(lines[w])) : owner[r] # w }]
  BY DEF ApplyLine, Advance, Ready
<1>2. op[w] = "checkout" => want'[w] = {}
  <2> SUFFICES ASSUME op[w] = "checkout", NEW r \in LocksFor("checkout", Tail(lines[w]))
               PROVE  owner[r] = w
    BY <1>1
  <2>1. PICK i \in DOMAIN Tail(lines[w]) : r = Tail(lines[w])[i].row
    BY DEF LocksFor, LockFirst
  <2>2. i + 1 \in DOMAIN lines[w] /\ r = lines[w][i + 1].row
    BY <1>1, <2>1
  <2>3. r \in LocksFor(op[w], lines[w])
    BY <2>2 DEF LocksFor, LockFirst
  <2> QED BY <1>1, <2>3 DEF LinesLocked
<1>3. \A v \in Requests : v # w => want'[v] = want[v]
  BY <1>1
<1> QED BY <1>1, <1>2, <1>3 DEF CartOrder

(* A transaction that ends holds nothing. *)
LEMMA CartOrderEnd ==
  ASSUME IInv, CartOrder, NEW w \in Requests, pc[w] = "running", End(w)
  PROVE  CartOrder'
<1>1. ASSUME NEW v \in Requests, v # w
      PROVE  /\ pc'[v] = pc[v] /\ op'[v] = op[v] /\ want'[v] = want[v]
             /\ \A s \in Rows : owner'[s] = v => owner[s] = v
  BY <1>1, NoneAssumption DEF End, IInv, TypeOK
<1>2. pc'[w] = "done" /\ want'[w] = {}
  BY DEF End, IInv, TypeOK
<1> QED BY <1>1, <1>2 DEF CartOrder

(* Every step keeps the order of the carts. *)
LEMMA CartOrderStep == IInv /\ CartOrder /\ [Next]_vars => CartOrder'
<1> SUFFICES ASSUME IInv, CartOrder, [Next]_vars PROVE CartOrder'
  OBVIOUS
<1>1. CASE UNCHANGED vars
  BY <1>1 DEF vars, CartOrder
<1>2. ASSUME NEW w \in Requests, Start(w) \/ LockRow(w) \/ Proceed(w) \/ Rollback(w)
      PROVE  CartOrder'
  <2>1. CASE ApplyLine(w)
    BY <2>1, CartOrderApplyLine
  <2>2. CASE Commit(w) \/ Refuse(w) \/ Rollback(w)
    BY <2>2, CartOrderEnd DEF Commit, Refuse, Rollback, Ready
  <2>3. CASE DeadlockVictim(w)
    BY <2>3, CartOrderEnd DEF DeadlockVictim, Deadlocked, Blocked
  <2> QED BY <1>2, <2>1, <2>2, <2>3, CartOrderStart, CartOrderLockRow DEF Proceed
<1> QED BY <1>1, <1>2 DEF Next

(* A strict subset of a finite set has fewer elements. *)
LEMMA StrictSubsetIsSmaller ==
  ASSUME NEW A, IsFiniteSet(A), NEW B \in SUBSET A, A # B
  PROVE  /\ Cardinality(A) \in Nat /\ Cardinality(B) \in Nat
         /\ Cardinality(B) < Cardinality(A)
<1>1. IsFiniteSet(B) /\ Cardinality(B) <= Cardinality(A) /\ Cardinality(A) # Cardinality(B)
  BY FS_Subset
<1>2. Cardinality(A) \in Nat /\ Cardinality(B) \in Nat
  BY <1>1, FS_CardinalityType
<1> QED BY <1>1, <1>2

(* The products above that of the row a cart asks for are fewer than those   *)
(* above the row of the cart before it in the chain.                         *)
Above(x) == { y \in Products : x < y }

(* Above a greater product there are fewer products. *)
LEMMA FewerAbove ==
  ASSUME NEW p \in Products, NEW q \in Products, p < q
  PROVE  /\ Cardinality(Above(p)) \in Nat /\ Cardinality(Above(q)) \in Nat
         /\ Cardinality(Above(q)) < Cardinality(Above(p))
<1>1. IsFiniteSet(Above(p))
  BY ProductsAssumption, FS_Subset DEF Above
<1>2. Above(q) \in SUBSET Above(p) /\ Above(p) # Above(q)
  <2>1. \A x \in Products : x \in Nat
    BY ProductsAssumption
  <2>2. q \in Above(p) /\ q \notin Above(q)
    BY <2>1 DEF Above
  <2>3. \A x \in Above(q) : x \in Above(p)
    BY <2>1 DEF Above
  <2> QED BY <2>2, <2>3
<1> QED BY <1>1, <1>2, StrictSubsetIsSmaller

(* The cart that asks for the greatest product waits for no cart. *)
LEMMA NoCartCircle == IInv /\ CartOrder => CartsNeverDeadlock
<1> SUFFICES ASSUME IInv, CartOrder,
                    NEW S \in SUBSET { w \in Requests : op[w] = "checkout" }, Deadlocked(S)
             PROVE  FALSE
  BY DEF CartsNeverDeadlock
<1> DEFINE ask(w) == NextRow(w)[1]
           ranks == { Cardinality(Above(ask(w))) : w \in S }
<1>1. ASSUME NEW w \in S
      PROVE  /\ NextRow(w) \in want[w] /\ NextRow(w) \in Rows /\ ask(w) \in Products
             /\ WaitsFor(w) \in S
  <2>1. w \in Requests /\ want[w] # {} /\ WaitsFor(w) \in S
    BY DEF Deadlocked, Blocked
  <2>2. want[w] \in SUBSET Rows
    BY <2>1 DEF IInv, TypeOK
  <2> QED BY <2>1, <2>2, NextRowIsLeast DEF Rows
<1>2. ASSUME NEW w \in S
      PROVE  ask(w) < ask(WaitsFor(w))
  <2>1. owner[NextRow(w)] = WaitsFor(w)
    BY DEF WaitsFor
  <2> DEFINE v == WaitsFor(w)
  <2>2. v \in S /\ v \in Requests /\ op[v] = "checkout"
    BY <1>1
  <2>3. NextRow(v) \in want[v] /\ NextRow(w) \in Rows
    BY <1>1, <2>2
  <2> HIDE DEF v
  <2> QED BY <2>1, <2>2, <2>3 DEF CartOrder, v
<1>3. ranks \in SUBSET Nat /\ ranks # {}
  <2>1. \A w \in S : Cardinality(Above(ask(w))) \in Nat
    <3> SUFFICES ASSUME NEW w \in S PROVE Cardinality(Above(ask(w))) \in Nat
      OBVIOUS
    <3>1. ask(w) \in Products /\ ask(WaitsFor(w)) \in Products /\ ask(w) < ask(WaitsFor(w))
      BY <1>1, <1>2
    <3> QED BY <3>1, FewerAbove
  <2>2. S # {}
    BY DEF Deadlocked
  <2> QED BY <2>1, <2>2
<1>4. PICK w \in S : \A v \in S : Cardinality(Above(ask(w))) <= Cardinality(Above(ask(v)))
  <2>1. PICK m \in ranks : \A n \in ranks : m <= n
    BY <1>3, LeastNumber
  <2> QED BY <2>1
<1>5. /\ ask(w) \in Products /\ ask(WaitsFor(w)) \in Products /\ ask(w) < ask(WaitsFor(w))
      /\ WaitsFor(w) \in S
  BY <1>1, <1>2
<1>6. Cardinality(Above(ask(w))) <= Cardinality(Above(ask(WaitsFor(w))))
  BY <1>4, <1>5
<1> QED BY <1>5, <1>6, FewerAbove

(* "in a stable order so two carts containing the same products can never    *)
(* deadlock each other" (stock.util.ts:67-68): no set of carts, however many *)
(* and whatever else is running, ever waits in a circle.                     *)
THEOREM CartsCannotDeadlock == Spec => []CartsNeverDeadlock
<1>1. Spec => []CartOrder
  BY CartOrderInit, CartOrderStep, InvariantHolds, PTL DEF Spec
<1> QED BY <1>1, NoCartCircle, InvariantHolds, PTL

-----------------------------------------------------------------------------
(* moveToQuarantine. Between its two lines the request has drafted one half  *)
(* of the move; when it can commit it has drafted both.                      *)
FirstHalf(p, loc, q) == [row |-> <<p, loc>>, how |-> "add", qty |-> -q]
OtherHalf(p, q)      == [row |-> <<p, Quarantine>>, how |-> "add", qty |-> q]

NothingMoved(w, p, loc, q) == /\ lines[w] = <<FirstHalf(p, loc, q), OtherHalf(p, q)>>
                              /\ touched[w] = {}

HalfMoved(w, p, loc, q) == /\ lines[w] = <<OtherHalf(p, q)>>
                           /\ touched[w] = {<<p, loc>>}
                           /\ draft[w][<<p, loc>>].delta = -q

AllMoved(w, p, loc, q) == /\ lines[w] = << >>
                          /\ touched[w] = {<<p, loc>>, <<p, Quarantine>>}
                          /\ draft[w][<<p, loc>>].delta = -q
                          /\ draft[w][<<p, Quarantine>>].delta = q

MovesOf(w) == \E p \in Products, loc \in Locations \ {Quarantine}, q \in Qty :
                NothingMoved(w, p, loc, q) \/ HalfMoved(w, p, loc, q) \/ AllMoved(w, p, loc, q)

MoveInv == \A w \in Requests : /\ pc[w] = "new" => touched[w] = {}
                               /\ op[w] = "quarantine" => MovesOf(w)

(* No request has begun. *)
LEMMA MoveInit == Init => MoveInv
BY DEF Init, MoveInv

(* What a request has moved depends on its own lines and drafts only. *)
LEMMA MovesKept ==
  ASSUME NEW w \in Requests, MovesOf(w), lines'[w] = lines[w], touched'[w] = touched[w],
         draft'[w] = draft[w]
  PROVE  MovesOf(w)'
<1>1. PICK p \in Products, loc \in Locations \ {Quarantine}, q \in Qty :
        NothingMoved(w, p, loc, q) \/ HalfMoved(w, p, loc, q) \/ AllMoved(w, p, loc, q)
  BY DEF MovesOf
<1>2. NothingMoved(w, p, loc, q)' \/ HalfMoved(w, p, loc, q)' \/ AllMoved(w, p, loc, q)'
  BY <1>1 DEF NothingMoved, HalfMoved, AllMoved
<1> QED BY <1>2 DEF MovesOf

(* moveToQuarantine starts with its two lines, every other operation is none. *)
LEMMA MoveStart ==
  ASSUME IInv, MoveInv, NEW w \in Requests, Start(w)
  PROVE  MoveInv'
<1> USE DEF IInv, TypeOK
<1>1. ASSUME NEW o \in OpNames, NEW ls, Begin(w, o, ls), NEW v \in Requests, v # w
      PROVE  /\ pc'[v] = "new" => touched'[v] = {}
             /\ op'[v] = "quarantine" => MovesOf(v)'
  <2>1. pc'[v] = pc[v] /\ op'[v] = op[v] /\ lines'[v] = lines[v] /\ touched' = touched /\ draft' = draft
    BY <1>1 DEF Begin
  <2>2. op[v] = "quarantine" => MovesOf(v)'
    BY <2>1, MovesKept DEF MoveInv
  <2> QED BY <2>1, <2>2 DEF MoveInv
<1>2. ASSUME NEW o \in OpNames \ {"quarantine"}, NEW ls, Begin(w, o, ls)
      PROVE  MoveInv'
  <2>1. pc'[w] = "running" /\ op'[w] # "quarantine"
    BY <1>2 DEF Begin
  <2> QED BY <1>1, <1>2, <2>1 DEF MoveInv
<1>3. CASE MoveToQuarantine(w)
  <2>1. PICK loc \in Locations \ {Quarantine}, p \in Products, q \in Qty :
          Begin(w, "quarantine", <<FirstHalf(p, loc, q), OtherHalf(p, q)>>)
    BY <1>3 DEF MoveToQuarantine, FirstHalf, OtherHalf
  <2>2. /\ pc'[w] = "running" /\ touched'[w] = {}
        /\ lines'[w] = <<FirstHalf(p, loc, q), OtherHalf(p, q)>>
    BY <2>1 DEF Begin, MoveInv
  <2>3. MovesOf(w)'
    BY <2>2 DEF MovesOf, NothingMoved
  <2>4. "quarantine" \in OpNames
    BY DEF OpNames
  <2> QED BY <1>1, <2>1, <2>2, <2>3, <2>4 DEF MoveInv
<1>4. CASE ~MoveToQuarantine(w)
  <2>1. \E o \in OpNames \ {"quarantine"} : \E ls : Begin(w, o, ls)
    BY <1>4 DEF Start, Checkout, Restock, ReceiveGoods, AdjustStock, WriteOff, ReturnToStock,
                SendTransfer, ReceiveTransfer, GoodsReceipt, SupplierReturn, PostCount, OpNames
  <2> QED BY <1>2, <2>1
<1> QED BY <1>3, <1>4

(* One line of a move drafts one half of it. *)
LEMMA MoveApplyLine ==
  ASSUME IInv, MoveInv, NEW w \in Requests, ApplyLine(w)
  PROVE  MoveInv'
<1> USE DEF IInv, TypeOK
<1>1. pc' = pc /\ op' = op /\ pc[w] = "running" /\ lines[w] # << >>
  BY DEF ApplyLine, Ready
<1>2. ASSUME NEW v \in Requests, v # w
      PROVE  lines'[v] = lines[v] /\ touched'[v] = touched[v] /\ draft'[v] = draft[v]
  BY <1>2 DEF ApplyLine, Advance
<1>3. ASSUME NEW v \in Requests, v # w, op[v] = "quarantine"
      PROVE  MovesOf(v)'
  BY <1>2, <1>3, MovesKept DEF MoveInv
<1>4. ASSUME op[w] = "quarantine"
      PROVE  MovesOf(w)'
  <2>1. PICK p \in Products, loc \in Locations \ {Quarantine}, q \in Qty :
          NothingMoved(w, p, loc, q) \/ HalfMoved(w, p, loc, q) \/ AllMoved(w, p, loc, q)
    BY <1>4 DEF MoveInv, MovesOf
  <2> DEFINE r == <<p, loc>>
             s == <<p, Quarantine>>
  <2>2. r \in Rows /\ s \in Rows /\ r # s /\ q \in Int
    BY LocationsAssumption, QtyAssumption DEF Rows
  <2>3. ASSUME NEW l, Head(lines[w]) = l, l.how = "add", l.row \in Rows
        PROVE  /\ lines'[w] = Tail(lines[w])
               /\ touched'[w] = touched[w] \cup {l.row}
               /\ draft'[w] = [draft[w] EXCEPT ![l.row] = Drafted(w, l)]
               /\ l.row \notin touched[w] => Drafted(w, l).delta = 0 + l.qty
    <3>1. /\ lines' = [lines EXCEPT ![w] = Tail(@)]
          /\ touched' = [touched EXCEPT ![w] = @ \cup {l.row}]
          /\ draft' = [draft EXCEPT ![w][l.row] = Drafted(w, l)]
      BY <2>3 DEF ApplyLine, Advance
    <3>2. l.row \notin touched[w] => Drafted(w, l).delta = 0 + l.qty
      BY <2>3 DEF Drafted, Delta
    <3> QED BY <3>1, <3>2
  <2>4. CASE NothingMoved(w, p, loc, q)
    <3>1. /\ Head(lines[w]) = FirstHalf(p, loc, q) /\ touched[w] = {}
          /\ Tail(lines[w]) = <<OtherHalf(p, q)>>
      BY <2>4 DEF NothingMoved
    <3>2. FirstHalf(p, loc, q).how = "add" /\ FirstHalf(p, loc, q).row = r /\ FirstHalf(p, loc, q).qty = -q
      BY DEF FirstHalf
    <3>3. /\ lines'[w] = <<OtherHalf(p, q)>>
          /\ touched'[w] = {r}
          /\ draft'[w] = [draft[w] EXCEPT ![r] = Drafted(w, FirstHalf(p, loc, q))]
          /\ Drafted(w, FirstHalf(p, loc, q)).delta = 0 + -q
      BY <2>2, <2>3, <3>1, <3>2
    <3>4. draft'[w][r].delta = -q
      <4>1. draft'[w][r] = Drafted(w, FirstHalf(p, loc, q))
        BY <2>2, <3>3
      <4> QED BY <2>2, <3>3, <4>1
    <3>5. HalfMoved(w, p, loc, q)'
      BY <3>3, <3>4 DEF HalfMoved
    <3> QED BY <3>5 DEF MovesOf
  <2>5. CASE HalfMoved(w, p, loc, q)
    <3>1. /\ Head(lines[w]) = OtherHalf(p, q) /\ touched[w] = {r} /\ draft[w][r].delta = -q
          /\ Tail(lines[w]) = << >>
      BY <2>5 DEF HalfMoved
    <3>2. OtherHalf(p, q).how = "add" /\ OtherHalf(p, q).row = s /\ OtherHalf(p, q).qty = q
      BY DEF OtherHalf
    <3>3. /\ lines'[w] = << >>
          /\ touched'[w] = {r, s}
          /\ draft'[w] = [draft[w] EXCEPT ![s] = Drafted(w, OtherHalf(p, q))]
          /\ Drafted(w, OtherHalf(p, q)).delta = 0 + q
      <4>1. s \notin touched[w] /\ {r} \cup {s} = {r, s}
        BY <2>2, <3>1
      <4>2. /\ lines'[w] = Tail(lines[w])
            /\ touched'[w] = touched[w] \cup {s}
            /\ draft'[w] = [draft[w] EXCEPT ![s] = Drafted(w, OtherHalf(p, q))]
            /\ s \notin touched[w] => Drafted(w, OtherHalf(p, q)).delta = 0 + q
        BY <2>2, <2>3, <3>1, <3>2
      <4> HIDE DEF r, s
      <4> QED BY <3>1, <4>1, <4>2
    <3>4. draft'[w][r].delta = -q /\ draft'[w][s].delta = q
      <4>1. draft'[w][r] = draft[w][r] /\ draft'[w][s] = Drafted(w, OtherHalf(p, q))
        BY <2>2, <3>3
      <4> QED BY <2>2, <3>1, <3>3, <4>1
    <3>5. AllMoved(w, p, loc, q)'
      BY <3>3, <3>4 DEF AllMoved
    <3> QED BY <3>5 DEF MovesOf
  <2>6. CASE AllMoved(w, p, loc, q)
    BY <1>1, <2>6 DEF AllMoved
  <2> QED BY <2>1, <2>4, <2>5, <2>6
<1> QED BY <1>1, <1>2, <1>3, <1>4 DEF MoveInv

(* A transaction that ends has no lines and no drafts. *)
LEMMA MoveEnd ==
  ASSUME IInv, MoveInv, NEW w \in Requests, End(w)
  PROVE  MoveInv'
<1> USE DEF IInv, TypeOK
<1>1. pc'[w] = "done" /\ op'[w] = "none"
  BY DEF End
<1>2. ASSUME NEW v \in Requests, v # w
      PROVE  /\ pc'[v] = pc[v] /\ op'[v] = op[v] /\ lines'[v] = lines[v]
             /\ touched'[v] = touched[v] /\ draft'[v] = draft[v]
  BY <1>2 DEF End
<1>3. ASSUME NEW v \in Requests, v # w, op[v] = "quarantine"
      PROVE  MovesOf(v)'
  BY <1>2, <1>3, MovesKept DEF MoveInv
<1> QED BY <1>1, <1>2, <1>3 DEF MoveInv

(* Every step keeps what a move has drafted. *)
LEMMA MoveStep == IInv /\ MoveInv /\ [Next]_vars => MoveInv'
<1> SUFFICES ASSUME IInv, MoveInv, [Next]_vars PROVE MoveInv'
  OBVIOUS
<1>1. ASSUME UNCHANGED <<pc, op, lines, touched, draft>>
      PROVE  MoveInv'
  BY <1>1, MovesKept DEF MoveInv
<1>2. ASSUME UNCHANGED vars \/ \E w \in Requests : LockRow(w)
      PROVE  MoveInv'
  BY <1>1, <1>2 DEF vars, LockRow
<1>3. ASSUME NEW w \in Requests, Commit(w) \/ Refuse(w) \/ DeadlockVictim(w) \/ Rollback(w)
      PROVE  MoveInv'
  BY <1>3, MoveEnd DEF Commit, Refuse, DeadlockVictim, Rollback
<1> QED BY <1>1, <1>2, <1>3, MoveStart, MoveApplyLine DEF Next, Proceed

(* Both drafts of a move are computed from the rows as they are when it     *)
(* commits, so the sum over the locations loses what it gains.              *)
LEMMA MoveConserves ==
  ASSUME IInv, MoveInv, NEW w \in Requests, op[w] = "quarantine", Commit(w), NEW p \in Products
  PROVE  Total(onHand', p) = Total(onHand, p)
<1>1. PICK m \in Products, from \in Locations \ {Quarantine}, q \in Qty : AllMoved(w, m, from, q)
  <2>1. MovesOf(w) /\ lines[w] = << >>
    BY DEF MoveInv, Commit
  <2> QED BY <2>1 DEF MovesOf, NothingMoved, HalfMoved
<1> DEFINE r == <<m, from>>
           s == <<m, Quarantine>>
           before == [loc \in Locations |-> onHand[<<p, loc>>]]
           after  == [loc \in Locations |-> onHand'[<<p, loc>>]]
           between == [before EXCEPT ![from] = before[from] - q]
<1>2. /\ IsFiniteSet(Locations) /\ from \in Locations /\ Quarantine \in Locations
      /\ from # Quarantine /\ q \in Int
  BY LocationsAssumption, QtyAssumption
<1>3. r \in Rows /\ s \in Rows /\ \A loc \in Locations : <<p, loc>> \in Rows
  BY <1>2 DEF Rows
<1>4. onHand \in [Rows -> Nat]
  BY DEF IInv, TypeOK
<1>5. onHand' = [x \in Rows |-> IF x \in touched[w] THEN draft[w][x].after ELSE onHand[x]]
  BY DEF Commit
<1>6. touched[w] = {r, s} /\ draft[w][r].delta = -q /\ draft[w][s].delta = q
  BY <1>1 DEF AllMoved
<1>7. /\ draft[w][r].after = onHand[r] + draft[w][r].delta
      /\ draft[w][s].after = onHand[s] + draft[w][s].delta
  BY <1>6 DEF IInv, DraftsFresh
<1>8. /\ onHand'[r] = onHand[r] - q /\ onHand'[s] = onHand[s] + q
      /\ \A x \in Rows : x # r /\ x # s => onHand'[x] = onHand[x]
  BY <1>2, <1>3, <1>4, <1>5, <1>6, <1>7
<1>9. CASE p # m
  <2>1. \A loc \in Locations : onHand'[<<p, loc>>] = onHand[<<p, loc>>]
    BY <1>3, <1>8, <1>9
  <2> QED BY <2>1 DEF Total
<1>10. CASE p = m
  <2>1. \A loc \in Locations : before[loc] \in Int /\ between[loc] \in Int /\ after[loc] \in Int
    <3>1. \A loc \in Locations : before[loc] \in Int
      BY <1>3, <1>4
    <3>2. \A loc \in Locations : between[loc] \in Int
      <4>1. before[from] - q \in Int
        BY <1>2, <3>1
      <4>2. \A loc \in Locations : between[loc] = IF loc = from THEN before[from] - q ELSE before[loc]
        OBVIOUS
      <4> HIDE DEF before, between
      <4> QED BY <3>1, <4>1, <4>2
    <3>3. ASSUME NEW loc \in Locations PROVE after[loc] \in Int
      <4>1. <<p, loc>> \in Rows /\ onHand[<<p, loc>>] \in Int
        BY <1>3, <1>4
      <4>2. CASE <<p, loc>> = r \/ <<p, loc>> = s
        BY <1>2, <1>3, <1>4, <1>8, <4>2
      <4>3. CASE <<p, loc>> # r /\ <<p, loc>> # s
        BY <1>8, <4>1, <4>3
      <4> QED BY <4>2, <4>3
    <3> QED BY <3>1, <3>2, <3>3
  <2>2. \A loc \in Locations \ {from} : before[loc] = between[loc]
    BY <1>2
  <2>10. between[from] = before[from] - q
    BY <1>2
  <2>11. after[Quarantine] = between[Quarantine] + q
    BY <1>2, <1>8, <1>10
  <2>3. \A loc \in Locations \ {Quarantine} : between[loc] = after[loc]
    <3>1. ASSUME NEW loc \in Locations \ {Quarantine} PROVE between[loc] = after[loc]
      <4>1. CASE loc = from
        BY <1>2, <1>8, <1>10, <4>1
      <4>2. CASE loc # from
        <5>1. <<p, loc>> # r /\ <<p, loc>> # s /\ <<p, loc>> \in Rows
          BY <1>3, <4>2
        <5> QED BY <1>2, <1>8, <4>2, <5>1
      <4> QED BY <4>1, <4>2
    <3> QED BY <3>1
  <2> HIDE DEF before, between, after
  <2>4. SumFunctionOnSet(before, Locations) \in Int
    BY <1>2, <2>1, SumInt
  <2>5. SumFunctionOnSet(between, Locations)
          = SumFunctionOnSet(before, Locations) + between[from] - before[from]
    BY <1>2, <2>1, <2>2, SumChange
  <2>6. SumFunctionOnSet(between, Locations) \in Int
    BY <1>2, <2>1, SumInt
  <2>7. SumFunctionOnSet(after, Locations)
          = SumFunctionOnSet(between, Locations) + after[Quarantine] - between[Quarantine]
    BY <1>2, <2>1, <2>3, SumChange
  <2>8. /\ before[from] \in Int /\ between[from] \in Int
        /\ between[Quarantine] \in Int /\ after[Quarantine] \in Int
    BY <1>2, <2>1
  <2>9. SumFunctionOnSet(after, Locations) = SumFunctionOnSet(before, Locations)
    BY <1>2, <2>4, <2>5, <2>6, <2>7, <2>8, <2>10, <2>11
  <2> QED BY <2>9 DEF Total, before, after
<1> QED BY <1>9, <1>10

(* moveToQuarantine (inventory.service.ts) relocates units: whatever other  *)
(* requests do to the same rows between its two lines, its commit leaves    *)
(* the product's total over all locations as it was.                        *)
THEOREM QuarantineKeepsTotals == Spec => QuarantineConserves
<1>1. Spec => []MoveInv
  BY MoveInit, MoveStep, InvariantHolds, PTL DEF Spec
<1>2. IInv /\ MoveInv => \A w \in Requests : op[w] = "quarantine" /\ Commit(w)
                           => \A p \in Products : Total(onHand', p) = Total(onHand, p)
  BY MoveConserves
<1> QED BY <1>1, <1>2, InvariantHolds, PTL DEF QuarantineConserves

-----------------------------------------------------------------------------
(* Refinement: a commit is the atomic posting of AtomicStock, every other   *)
(* step leaves its variables alone.                                         *)
LEMMA StepRefines == IInv /\ IInv' /\ [Next]_vars => [Atomic!Next]_(Atomic!vars)
<1> SUFFICES ASSUME IInv, IInv', [Next]_vars
             PROVE  Atomic!Post \/ UNCHANGED <<onHand, ledger>>
  BY DEF Atomic!Next, Atomic!vars
<1>1. CASE \E w \in Requests : Commit(w)
  <2>1. /\ onHand \in [Rows -> Nat] /\ onHand' \in [Rows -> Nat]
        /\ ledger \in [Rows -> Int] /\ ledger' \in [Rows -> Int]
    BY DEF IInv, TypeOK
  <2>2. \A r \in Rows : ledger[r] = onHand[r] /\ ledger'[r] = onHand'[r]
    BY DEF IInv, NoDrift
  <2> QED BY <2>1, <2>2 DEF Atomic!Post
<1>2. ASSUME NEW w \in Requests, Start(w)
      PROVE  UNCHANGED stockVars
  BY <1>2 DEF Start, Checkout, Restock, ReceiveGoods, AdjustStock, WriteOff, ReturnToStock,
              MoveToQuarantine, SendTransfer, ReceiveTransfer, GoodsReceipt, SupplierReturn,
              PostCount, Begin, stockVars
<1>3. ASSUME NEW w \in Requests, ~Commit(w), LockRow(w) \/ Proceed(w) \/ Rollback(w)
      PROVE  UNCHANGED stockVars
  BY <1>3 DEF Proceed, LockRow, ApplyLine, Refuse, DeadlockVictim, Rollback, stockVars
<1>4. CASE UNCHANGED vars
  BY <1>4 DEF vars, stockVars
<1> QED BY <1>1, <1>2, <1>3, <1>4 DEF Next, stockVars

(* Row-by-row locking, private writes and absolute updates together give    *)
(* what AtomicStock promises: whole requests, posted at once, on stock that *)
(* is explained by its ledger.                                              *)
THEOREM LockingImplementsAtomicStock == Spec => ImplementsAtomicStock
<1>1. Init => Atomic!Init
  BY OpeningAssumption DEF Init, Atomic!Init
<1> QED BY <1>1, StepRefines, InvariantHolds, PTL
        DEF Spec, ImplementsAtomicStock, Atomic!Spec

=============================================================================
