-------------------------- MODULE ApprovalsProofs --------------------------
(* Proofs about Approvals, for any calls, actions, purposes and any limit on *)
(* the tries; and about Purchasing, whose large orders need an approval of   *)
(* their own, for any orders, products, requests, quantities and amounts.    *)
EXTENDS Approvals, Purchasing, SumTheorems, TLAPS

-----------------------------------------------------------------------------
(* Tries, tokens and counters keep their types in every step of              *)
(* approvals.service.ts.                                                     *)
THEOREM TypeInductive ==
  ASSUME TypeOK, [Next]_vars
  PROVE  TypeOK'
<1> USE DEF TypeOK, Demand, pinVars, askVars, actVars, AskGoesTo, ActGoesTo, LetGo, ClearTries
<1>1. ASSUME NEW a \in Asks, ReadManager(a) PROVE TypeOK'
  BY <1>1 DEF ReadManager
<1>2. ASSUME NEW a \in Asks, Claim(a) PROVE TypeOK'
  BY <1>2 DEF Claim
<1>3. ASSUME NEW a \in Asks, RefuseLocked(a) \/ Wrong(a) \/ Right(a) \/ AskCrash(a) PROVE TypeOK'
  BY <1>3 DEF RefuseLocked, Wrong, Right, AskCrash
<1>4. ASSUME NEW a \in Asks, Reset(a) PROVE TypeOK'
  BY <1>4 DEF Reset
<1>5. ASSUME NEW a \in Asks, Grant(a) PROVE TypeOK'
  BY <1>5 DEF Grant
<1>6. ASSUME NEW a \in Asks, TokenExpires(a) PROVE TypeOK'
  BY <1>6 DEF TokenExpires
<1>7. CASE SetOwnPin \/ LockExpires
  <2>1. CASE SetOwnPin
    <3>1. hasPin' \in BOOLEAN /\ locked' \in BOOLEAN
      BY <2>1, Zenon DEF SetOwnPin
    <3>2. failed' \in Nat /\ counted' \subseteq Asks /\ wrong' \in Nat /\ relocks' \in Nat
      BY <2>1, SMT DEF SetOwnPin
    <3>3. UNCHANGED <<askPc, match, token, actPc, uses, holder>>
      BY <2>1 DEF SetOwnPin
    <3> QED BY <3>1, <3>2, <3>3
  <2>2. CASE LockExpires
    <3>1. locked' \in BOOLEAN
      BY <2>2, Zenon DEF LockExpires
    <3>2. relocks' \in Nat /\ UNCHANGED <<hasPin, failed, counted, wrong, askVars, token, actVars>>
      BY <2>2 DEF LockExpires
    <3> QED BY <3>1, <3>2
  <2> QED BY <1>7, <2>1, <2>2
<1>8. ASSUME NEW u \in Actions, Act(u) PROVE TypeOK'
  BY <1>8 DEF Act
<1>9. ASSUME NEW u \in Actions, Consume(u) PROVE TypeOK'
  BY <1>9 DEF Consume
<1>10. ASSUME NEW u \in Actions, Commit(u) PROVE TypeOK'
  BY <1>10 DEF Commit
<1>11. ASSUME NEW u \in Actions, RefuseToken(u) \/ Rollback(u) \/ OpenDrawer(u) PROVE TypeOK'
  BY <1>11 DEF RefuseToken, Rollback, OpenDrawer
<1>12. CASE UNCHANGED vars
  BY <1>12 DEF vars
<1> QED
  BY <1>1, <1>2, <1>3, <1>4, <1>5, <1>6, <1>7, <1>8, <1>9, <1>10, <1>11, <1>12 DEF Next

(* The shape of the rows and of what calls and actions remember. *)
THEOREM TypeCorrect == Spec => []TypeOK
<1>1. Init => TypeOK
  <2> SUFFICES ASSUME Init PROVE TypeOK
    OBVIOUS
  <2>1. token \in [Asks -> [state : {"none", "live", "expired", "used"}, for : Purposes]]
        /\ uses \in [Actions -> Demand]
    <3>1. PICK p \in Purposes : /\ token = [a \in Asks |-> [state |-> "none", for |-> p]]
                               /\ uses = [u \in Actions |-> [ask |-> None, for |-> p, noSale |-> FALSE]]
      BY DEF Init
    <3> QED BY <3>1 DEF Demand
  <2> QED BY <2>1 DEF Init, TypeOK
<1>2. TypeOK /\ [Next]_vars => TypeOK'
  BY TypeInductive
<1> QED
  BY <1>1, <1>2, PTL DEF Spec

-----------------------------------------------------------------------------
(* The PIN. *)

(* The calls that have claimed a try and not yet compared their PIN. *)
Pending == { a \in counted : askPc[a] = "claimed" }

(* Every wrong PIN, and every one about to be compared, has been counted; the *)
(* count may pass MaxTries only by the tries that a lock which ran out gave.  *)
PinInv == /\ IsFiniteSet(counted)
          /\ wrong + Cardinality(Pending) <= failed
          /\ failed <= MaxTries + relocks
          /\ ~locked => failed < MaxTries + relocks

(* The tries counted but not compared yet are finitely many. *)
LEMMA PendingFinite ==
  ASSUME IsFiniteSet(counted)
  PROVE  /\ IsFiniteSet(Pending)
         /\ Cardinality(Pending) \in Nat
<1>1. Pending \in SUBSET counted
  BY DEF Pending
<1> QED
  BY <1>1, FS_Subset, FS_CardinalityType

(* At the start no try has been counted. *)
LEMMA PinInvInit == Init => PinInv
<1> SUFFICES ASSUME Init PROVE PinInv
  OBVIOUS
<1>1. Pending = {}
  BY DEF Init, Pending
<1> QED
  BY <1>1, FS_EmptySet, TriesAssumption DEF Init, PinInv

(* Every step of approve and of the lock keeps the count of tries. *)
LEMMA PinInvInductive ==
  ASSUME TypeOK, PinInv, [Next]_vars
  PROVE  PinInv'
<1> USE DEF TypeOK, pinVars, askVars, actVars, AskGoesTo
<1> DEFINE Same == UNCHANGED <<failed, locked, counted, wrong, relocks>>
<1>0. Cardinality(Pending) \in Nat /\ IsFiniteSet(Pending)
  BY PendingFinite DEF PinInv
<1>1. ASSUME Same, Pending' = Pending PROVE PinInv'
  BY <1>1 DEF PinInv
<1>2. ASSUME NEW a \in Asks, ReadManager(a) \/ RefuseLocked(a) \/ Grant(a) PROVE PinInv'
  <2>1. Same /\ Pending' = Pending
    BY <1>2 DEF ReadManager, RefuseLocked, Grant, Pending
  <2> QED BY <2>1, <1>1
<1>3. ASSUME NEW a \in Asks, Claim(a) PROVE PinInv'
  <2>1. Pending' = Pending \cup {a} /\ a \notin Pending
    BY <1>3 DEF Claim, Pending
  <2>2. Cardinality(Pending') = Cardinality(Pending) + 1
    BY <2>1, <1>0, FS_AddElement
  <2>3. IsFiniteSet(counted')
    BY <1>3, FS_AddElement DEF Claim, PinInv
  <2>4. failed' = failed + 1 /\ wrong' = wrong /\ relocks' = relocks
        /\ ~locked /\ locked' = (failed + 1 >= MaxTries)
    BY <1>3 DEF Claim
  <2>5. wrong' + Cardinality(Pending') <= failed'
    BY <2>2, <2>4, <1>0 DEF PinInv
  <2>6. failed' <= MaxTries + relocks'
    BY <2>4, TriesAssumption DEF PinInv
  <2>7. ~locked' => failed' < MaxTries + relocks'
    <3>1. ~locked' => ~(failed + 1 >= MaxTries)
      BY <2>4, Zenon
    <3> QED BY <2>4, <3>1, TriesAssumption
  <2> QED BY <2>3, <2>5, <2>6, <2>7 DEF PinInv
<1>4. ASSUME NEW a \in Asks, Wrong(a) PROVE PinInv'
  <2>1. Pending' = Pending \ {a}
    BY <1>4 DEF Wrong, Pending
  <2>2. a \in Pending <=> a \in counted
    BY <1>4 DEF Wrong, Pending
  <2>3. Cardinality(Pending') = IF a \in Pending THEN Cardinality(Pending) - 1 ELSE Cardinality(Pending)
    <3>1. Cardinality(Pending \ {a})
            = IF a \in Pending THEN Cardinality(Pending) - 1 ELSE Cardinality(Pending)
      BY <1>0, FS_RemoveElement
    <3> QED BY <2>1, <3>1
  <2>4. wrong' = IF a \in Pending THEN wrong + 1 ELSE wrong
    BY <1>4, <2>2 DEF Wrong
  <2>5. wrong' + Cardinality(Pending') = wrong + Cardinality(Pending)
    BY <2>3, <2>4, <1>0
  <2> QED BY <1>4, <2>5 DEF Wrong, PinInv
<1>5. ASSUME NEW a \in Asks, Right(a) \/ AskCrash(a) PROVE PinInv'
  <2>1. Pending' = Pending \ {a}
    BY <1>5 DEF Right, AskCrash, Pending
  <2>2. Cardinality(Pending') <= Cardinality(Pending) /\ Cardinality(Pending') \in Nat
    <3>1. Pending \ {a} \in SUBSET Pending
      OBVIOUS
    <3> QED BY <2>1, <3>1, <1>0, FS_Subset, FS_CardinalityType
  <2>3. Same
    BY <1>5 DEF Right, AskCrash
  <2> QED BY <2>2, <2>3, <1>0 DEF PinInv
<1>6. ASSUME ClearTries PROVE PinInv'
  <2>1. Pending' = {}
    BY <1>6 DEF ClearTries, Pending
  <2> QED BY <1>6, <2>1, FS_EmptySet, TriesAssumption DEF ClearTries, PinInv
<1>7. CASE LockExpires
  <2>1. Pending' = Pending
    BY <1>7 DEF LockExpires, Pending
  <2> QED BY <1>7, <2>1, TriesAssumption DEF LockExpires, PinInv
<1>8. ASSUME NEW a \in Asks, TokenExpires(a) PROVE PinInv'
  <2>1. Same /\ Pending' = Pending
    BY <1>8 DEF TokenExpires, Pending
  <2> QED BY <2>1, <1>1
<1>9. ASSUME NEW u \in Actions,
             Act(u) \/ Consume(u) \/ RefuseToken(u) \/ Commit(u) \/ Rollback(u) \/ OpenDrawer(u)
      PROVE PinInv'
  <2>1. Same /\ Pending' = Pending
    BY <1>9 DEF Act, Consume, RefuseToken, Commit, Rollback, OpenDrawer, Pending
  <2> QED BY <2>1, <1>1
<1>10. CASE UNCHANGED vars
  <2>1. Same /\ Pending' = Pending
    BY <1>10 DEF vars, Pending
  <2> QED BY <2>1, <1>1
<1> QED
  BY <1>2, <1>3, <1>4, <1>5, <1>6, <1>7, <1>8, <1>9, <1>10 DEF Next, Reset, SetOwnPin

(* However the calls interleave, whichever fail between two statements and   *)
(* whenever the lock runs out: a locked PIN admits no extra guess            *)
(* (approvals.service.ts:101-104).                                           *)
THEOREM LockAdmitsNoExtraGuess == Spec => []NoExtraGuesses
<1>1. TypeOK /\ PinInv => NoExtraGuesses
  BY PendingFinite, TriesAssumption DEF TypeOK, PinInv, NoExtraGuesses
<1>2. PinInv /\ TypeOK /\ [Next]_vars => PinInv'
  BY PinInvInductive
<1> QED
  BY <1>1, <1>2, PinInvInit, TypeCorrect, PTL DEF Spec

-----------------------------------------------------------------------------
(* The token. *)

Paid(u) == actPc[u] \in {"paid", "acted"}

(* A call that has not ended has no token; an action names one that exists; *)
(* the one that is about to pay holds its row, so nobody has paid with it;  *)
(* and a token is used exactly if somebody has.                             *)
TokenInv ==
  /\ \A a \in Asks : askPc[a] # "done" => token[a].state = "none"
  /\ \A u \in Actions : actPc[u] # "new" => uses[u].ask \in Asks /\ token[uses[u].ask].state # "none"
  /\ \A u \in Actions : actPc[u] = "consumed" => /\ holder[uses[u].ask] = u
                                                 /\ token[uses[u].ask].state # "used"
  /\ \A u \in Actions : Paid(u) => token[uses[u].ask].state = "used"
  /\ TokenUsedOnce
  /\ FailedActionKeepsToken

(* At the start no token has been used. *)
LEMMA TokenInvInit == Init => TokenInv
BY DEF Init, TokenInv, Paid, TokenUsedOnce, FailedActionKeepsToken

(* Every step of an action keeps the bond between token and commit. *)
LEMMA TokenInvInductive ==
  ASSUME TypeOK, TokenInv, [Next]_vars
  PROVE  TokenInv'
<1> USE DEF TokenInv, Paid, TokenUsedOnce, FailedActionKeepsToken, TypeOK,
            pinVars, askVars, actVars, AskGoesTo, ActGoesTo
<1>1. ASSUME NEW a \in Asks,
             ReadManager(a) \/ Claim(a) \/ RefuseLocked(a) \/ Wrong(a) \/ Right(a) \/ Reset(a) \/ AskCrash(a)
      PROVE TokenInv'
  <2>1. UNCHANGED <<token, actPc, uses, holder>>
    BY <1>1 DEF ReadManager, Claim, RefuseLocked, Wrong, Right, Reset, AskCrash
  <2>2. \A b \in Asks : askPc'[b] # "done" => askPc[b] # "done"
    BY <1>1 DEF ReadManager, Claim, RefuseLocked, Wrong, Right, Reset, AskCrash
  <2> QED BY <2>1, <2>2
<1>2. ASSUME NEW a \in Asks, Grant(a) PROVE TokenInv'
  <2>1. token[a].state = "none" /\ token'[a].state = "live"
    BY <1>2 DEF Grant
  <2>2. \A b \in Asks : b # a => token'[b] = token[b] /\ askPc'[b] = askPc[b]
    BY <1>2 DEF Grant
  <2>3. UNCHANGED <<actPc, uses, holder>> /\ askPc'[a] = "done"
    BY <1>2 DEF Grant
  <2>4. \A b \in Asks : /\ token'[b].state = "used" <=> token[b].state = "used"
                        /\ token[b].state # "none" => token'[b].state # "none"
                        /\ askPc'[b] # "done" => askPc[b] # "done" /\ token'[b].state = token[b].state
    BY <2>1, <2>2, <2>3
  <2> QED BY <2>3, <2>4
<1>3. ASSUME NEW a \in Asks, TokenExpires(a) PROVE TokenInv'
  <2>1. token[a].state = "live" /\ token'[a].state = "expired"
    BY <1>3 DEF TokenExpires
  <2>2. \A b \in Asks : b # a => token'[b] = token[b]
    BY <1>3 DEF TokenExpires
  <2>3. UNCHANGED <<askPc, actPc, uses, holder>>
    BY <1>3 DEF TokenExpires
  <2>4. \A b \in Asks : /\ token'[b].state = "used" <=> token[b].state = "used"
                        /\ token[b].state # "none" => token'[b].state # "none"
                        /\ askPc'[b] # "done" => askPc[b] # "done" /\ token'[b].state = token[b].state
    BY <2>1, <2>2, <2>3
  <2> QED BY <2>3, <2>4
<1>4. ASSUME NEW u \in Actions, Act(u) PROVE TokenInv'
  <2>1. PICK a \in Asks, p \in Purposes, n \in BOOLEAN :
          /\ token[a].state # "none"
          /\ uses' = [uses EXCEPT ![u] = [ask |-> a, for |-> p, noSale |-> n]]
    BY <1>4 DEF Act
  <2>2. actPc[u] = "new" /\ actPc' = [actPc EXCEPT ![u] = "began"] /\ UNCHANGED <<askPc, token, holder>>
    BY <1>4 DEF Act
  <2>3. uses'[u].ask = a /\ \A v \in Actions : v # u => uses'[v] = uses[v] /\ actPc'[v] = actPc[v]
    BY <2>1, <2>2
  <2> QED BY <2>1, <2>2, <2>3
<1>5. ASSUME NEW u \in Actions, Consume(u) PROVE TokenInv'
  <2>1. actPc[u] = "began" /\ actPc' = [actPc EXCEPT ![u] = "consumed"] /\ UNCHANGED <<askPc, token, uses>>
    BY <1>5 DEF Consume
  <2>2. /\ holder[uses[u].ask] = None /\ holder' = [holder EXCEPT ![uses[u].ask] = u]
        /\ token[uses[u].ask].state = "live"
    BY <1>5 DEF Consume, Consumable
  <2>3. \A v \in Actions : actPc[v] = "consumed" => uses[v].ask # uses[u].ask
    BY <2>2, NoneAssumption
  <2> QED BY <2>1, <2>2, <2>3
<1>6. ASSUME NEW u \in Actions, Commit(u) PROVE TokenInv'
  <2> DEFINE k == uses[u].ask
  <2>1. k \in Asks /\ holder[k] = u /\ token[k].state \notin {"none", "used"} /\ actPc[u] = "consumed"
    BY <1>6 DEF Commit
  <2>2. token'[k].state = "used" /\ \A b \in Asks : b # k => token'[b] = token[b]
    BY <1>6, <2>1 DEF Commit
  <2>3. actPc'[u] \in {"paid", "acted"} /\ \A v \in Actions : v # u => actPc'[v] = actPc[v]
    BY <1>6 DEF Commit
  <2>4. UNCHANGED <<askPc, uses>> /\ \A b \in Asks : holder[b] # u => holder'[b] = holder[b]
    BY <1>6 DEF Commit, LetGo
  <2>5. \A v \in Actions : v # u /\ actPc[v] \in {"consumed", "paid", "acted"} => uses[v].ask # k
    BY <2>1
  <2>6. TokenUsedOnce'
    BY <2>3, <2>4, <2>5
  <2>7. FailedActionKeepsToken'
    <3> SUFFICES ASSUME NEW b \in Asks, token'[b].state = "used"
                 PROVE  \E v \in Actions : uses'[v].ask = b /\ actPc'[v] \in {"paid", "acted"}
      OBVIOUS
    <3>1. CASE b = k
      BY <3>1, <2>3, <2>4
    <3>2. CASE b # k
      <4>1. PICK v \in Actions : uses[v].ask = b /\ actPc[v] \in {"paid", "acted"}
        BY <3>2, <2>2
      <4> QED BY <4>1, <2>1, <2>3, <2>4
    <3> QED BY <3>1, <3>2
  <2>8. \A v \in Actions : actPc'[v] = "consumed" => /\ holder'[uses'[v].ask] = v
                                                     /\ token'[uses'[v].ask].state # "used"
    BY <2>1, <2>2, <2>3, <2>4, <2>5
  <2>9. \A v \in Actions : Paid(v)' => token'[uses'[v].ask].state = "used"
    BY <2>1, <2>2, <2>3, <2>4, <2>5
  <2>10. \A a \in Asks : askPc'[a] # "done" => token'[a].state = "none"
    BY <2>1, <2>2, <2>4
  <2>11. \A v \in Actions : actPc'[v] # "new" =>
           uses'[v].ask \in Asks /\ token'[uses'[v].ask].state # "none"
    BY <2>1, <2>2, <2>3, <2>4
  <2> QED BY <2>6, <2>7, <2>8, <2>9, <2>10, <2>11
<1>7. ASSUME NEW u \in Actions, RefuseToken(u) \/ Rollback(u) PROVE TokenInv'
  <2>1. /\ actPc[u] \in {"began", "consumed"} /\ actPc'[u] = "failed"
        /\ \A v \in Actions : v # u => actPc'[v] = actPc[v]
    BY <1>7 DEF RefuseToken, Rollback
  <2>2. UNCHANGED <<askPc, token, uses>> /\ \A b \in Asks : holder[b] # u => holder'[b] = holder[b]
    BY <1>7 DEF RefuseToken, Rollback, LetGo
  <2> QED BY <2>1, <2>2
<1>8. ASSUME NEW u \in Actions, OpenDrawer(u) PROVE TokenInv'
  <2>1. /\ actPc[u] = "paid" /\ actPc'[u] = "acted"
        /\ \A v \in Actions : v # u => actPc'[v] = actPc[v]
    BY <1>8 DEF OpenDrawer
  <2>2. UNCHANGED <<askPc, token, uses, holder>>
    BY <1>8 DEF OpenDrawer
  <2>3. \A v \in Actions : /\ Paid(v)' <=> Paid(v)
                           /\ actPc'[v] = "consumed" <=> actPc[v] = "consumed"
                           /\ actPc'[v] # "new" => actPc[v] # "new"
    BY <2>1
  <2> QED BY <2>2, <2>3
<1>9. CASE SetOwnPin \/ LockExpires \/ UNCHANGED vars
  BY <1>9 DEF SetOwnPin, LockExpires, vars
<1> QED
  BY <1>1, <1>2, <1>3, <1>4, <1>5, <1>6, <1>7, <1>8, <1>9 DEF Next

(* A used token names the one action that committed it (consume,             *)
(* approvals.service.ts).                                                    *)
THEOREM TokenInvHolds == Spec => []TokenInv
<1>1. TokenInv /\ TypeOK /\ [Next]_vars => TokenInv'
  BY TokenInvInductive
<1> QED
  BY <1>1, TokenInvInit, TypeCorrect, PTL DEF Spec

(* A token pays for one action, however many present it at the same time     *)
(* (approvals.service.ts:171-195).                                           *)
THEOREM OneActionPerToken == Spec => []TokenUsedOnce
<1>1. TokenInv => TokenUsedOnce
  BY DEF TokenInv
<1> QED
  BY <1>1, TokenInvHolds, PTL

(* An action that is refused, fails or dies before it commits leaves the     *)
(* token to be used again (approvals.service.ts:171-172).                    *)
THEOREM RollbackReturnsToken == Spec => []FailedActionKeepsToken
<1>1. TokenInv => FailedActionKeepsToken
  BY DEF TokenInv
<1> QED
  BY <1>1, TokenInvHolds, PTL

-----------------------------------------------------------------------------
(* Purchasing: purchase orders, receipts' charges and bills.                 *)

OrderStatuses == {"NONE", "DRAFT", "APPROVED", "SENT", "PARTIALLY_RECEIVED", "RECEIVED",
                  "CANCELLED", "CLOSED"}
OrderRows == [status : OrderStatuses, ordered : [Products -> Nat], received : [Products -> Nat],
              gen : Nat]
BillRows == [status : {"NONE", "OPEN", "PARTIAL", "PAID"}, paid : Nat]
Asked == [pc : {"new", "acting", "done"},
          call : OrderCalls \cup {"none", "pay", "charge", "reorder"},
          what : Orders \cup {Nobody}, seen : OrderRows, base : Nat, amount : Nat,
          units : [Products -> Nat], manager : BOOLEAN]

PurTypes == /\ order \in [Orders -> OrderRows]
            /\ onHand \in [Products -> Nat]
            /\ bill \in BillRows
            /\ landed \in Nat
            /\ req \in [Requests -> Asked]
            /\ delivered \in [Orders -> [Products -> Nat]]
            /\ payments \in Nat /\ charges \in Nat
            /\ byManager \in [Orders -> BOOLEAN]

(* An order no two calls have overlapped on: its lines say what receipts    *)
(* brought, as its status does, and a large one has its approval.           *)
LineFits(o, p) ==
  /\ order[o].ordered[p] > 0 => order[o].received[p] = delivered[o][p]
  /\ order[o].ordered[p] = 0 => order[o].received[p] = 0
  /\ order[o].status \in {"NONE", "DRAFT"} => delivered[o][p] = 0 /\ order[o].received[p] = 0
  /\ order[o].status \in {"APPROVED", "SENT", "CANCELLED"} => order[o].received[p] = 0
  /\ order[o].status = "RECEIVED" => order[o].received[p] >= order[o].ordered[p]

ApprovalFits(o) ==
  (order[o].status \in OpenIncoming \cup {"RECEIVED", "CLOSED"} /\ Subtotal(order[o]) > Threshold)
    => byManager[o]

OrderFits(o) == ApprovalFits(o) /\ \A p \in Products : LineFits(o, p)

OrdersFit == \A o \in Orders \ raced : OrderFits(o)

(* What a call was allowed on. *)
CallFits(r, b) ==
  r.pc = "acting" =>
    /\ r.call \in OrderCalls => r.what \in Orders /\ r.seen.status \in Takes(r.call)
    /\ r.call = "approve" => MayApprove(r.seen, r.manager)
    /\ r.call = "pay" => r.base + r.amount <= Due /\ b.status # "NONE"

CallsFit == \A w \in Requests : CallFits(req[w], bill)

BillFits == /\ bill.status = "NONE" => bill.paid = 0 /\ payments = 0
            /\ bill.paid <= Due
            /\ bill.status = "PAID" => bill.paid = Due
            /\ "bill" \notin raced => bill.paid = payments
            /\ "receipt" \notin raced => landed = charges

PurInv == PurTypes /\ OrdersFit /\ CallsFit /\ BillFits

PurAssumptions == SetsAssumption /\ TargetAssumption /\ QtyAssumption /\ DueAssumption

(* These are the assumptions of Purchasing. *)
LEMMA PurAssumed == PurAssumptions
BY SetsAssumption, TargetAssumption, QtyAssumption, DueAssumption DEF PurAssumptions

(* The sets of orders and of products are finite. *)
LEMMA PurFinite ==
  ASSUME PurAssumptions
  PROVE  IsFiniteSet(Orders) /\ IsFiniteSet(Products)
BY DEF PurAssumptions, SetsAssumption

(* Units ordered and received are numbers. *)
LEMMA NoUnitsType == NoUnits \in [Products -> Nat] /\ \A p \in Products : NoUnits[p] = 0
BY DEF NoUnits

(* An order that does not exist yet is an order row. *)
LEMMA NoOrderType == /\ NoOrder \in OrderRows
                     /\ NoOrder.status = "NONE"
                     /\ NoOrder.ordered = NoUnits /\ NoOrder.received = NoUnits
BY NoUnitsType DEF NoOrder, OrderRows, OrderStatuses

(* A request that is not acting asks for nothing. *)
LEMMA PurIdleType ==
  ASSUME NEW p \in {"new", "acting", "done"}
  PROVE  /\ Idle(p) \in Asked
         /\ Idle(p).pc = p
BY NoUnitsType, NoOrderType DEF Idle, Asked

(* There is nothing at first. *)
LEMMA PurInit ==
  ASSUME PurAssumptions
  PROVE  PurchasingInit => PurInv
<1> SUFFICES ASSUME PurchasingInit PROVE PurInv
  OBVIOUS
<1> USE NoUnitsType, NoOrderType, PurIdleType DEF PurchasingInit
<1>1. bill \in BillRows
  BY DEF BillRows
<1>2. PurTypes
  BY <1>1 DEF PurTypes
<1>3. OrdersFit
  BY DEF OrdersFit, OrderFits, LineFits, ApprovalFits, OpenIncoming
<1>4. CallsFit
  BY DEF CallsFit, CallFits
<1>5. BillFits
  BY DEF BillFits, PurAssumptions, DueAssumption
<1> QED BY <1>2, <1>3, <1>4, <1>5 DEF PurInv

(* A request that reads keeps the rows; what it was allowed on is noted. *)
LEMMA PurReads ==
  ASSUME PurInv, NEW w \in Requests, NEW r \in Asked, CallFits(r, bill), Reads(w, r)
  PROVE  PurInv'
<1>1. /\ order' = order /\ onHand' = onHand /\ bill' = bill /\ landed' = landed
      /\ delivered' = delivered /\ payments' = payments /\ charges' = charges
      /\ byManager' = byManager /\ raced' = raced
      /\ req' = [req EXCEPT ![w] = r]
  BY DEF Reads, rowVars, logVars
<1>2. PurTypes'
  BY <1>1 DEF PurInv, PurTypes
<1>3. CallsFit'
  BY <1>1 DEF PurInv, PurTypes, CallsFit
<1>4. OrdersFit' /\ BillFits'
  BY <1>1 DEF PurInv, OrdersFit, OrderFits, LineFits, ApprovalFits, BillFits
<1> QED BY <1>2, <1>3, <1>4 DEF PurInv

(* A suggestion is a number of units: what open orders owe is a sum. *)
LEMMA SuggestedType ==
  ASSUME PurAssumptions, PurInv, NEW p \in Products
  PROVE  Suggested(p) \in Nat
<1> DEFINE S == { o \in Orders : order[o].status \in OpenIncoming }
           f == [o \in Orders |-> Owed(order[o], p)]
<1>1. IsFiniteSet(S)
  <2>1. S \in SUBSET Orders
    OBVIOUS
  <2> HIDE DEF S
  <2> QED BY <2>1, PurFinite, FS_Subset
<1>2. \A o \in S : f[o] \in Int
  <2> SUFFICES ASSUME NEW o \in Orders PROVE Owed(order[o], p) \in Int
    OBVIOUS
  <2>1. order[o].ordered[p] \in Nat /\ order[o].received[p] \in Nat
    BY DEF PurInv, PurTypes, OrderRows
  <2> QED BY <2>1 DEF Owed
<1> HIDE DEF S, f
<1>3. SumFunctionOnSet(f, S) \in Int
  BY <1>1, <1>2, SumInt
<1>4. Incoming(p) = SumFunctionOnSet(f, S)
  BY DEF Incoming, f, S
<1>5. onHand[p] \in Nat /\ Target \in Nat
  BY DEF PurInv, PurTypes, PurAssumptions, TargetAssumption
<1>6. Incoming(p) \in Int
  BY <1>3, <1>4
<1> QED BY <1>5, <1>6 DEF Suggested

(* Reading an order, a bill, a receipt or the suggestions. *)
LEMMA PurCallsRead ==
  ASSUME PurAssumptions, PurInv, NEW w \in Requests,
         \/ \E c \in OrderCalls : ReadOrder(w, c)
         \/ Refuse(w) \/ ReadBill(w) \/ ReadReceipt(w) \/ ReadSuggestions(w)
  PROVE  PurInv'
<1> DEFINE idle == Idle("acting")
<1>1. /\ idle \in Asked /\ idle.pc = "acting" /\ idle.call = "none"
      /\ idle = [pc |-> "acting", call |-> "none", what |-> Nobody, seen |-> NoOrder,
                 base |-> 0, amount |-> 0, units |-> NoUnits, manager |-> FALSE]
  BY PurIdleType DEF Idle
<1> HIDE DEF idle
<1>2. ASSUME NEW c \in OrderCalls, ReadOrder(w, c)
      PROVE  PurInv'
  <2>1. PICK o \in Orders, m \in BOOLEAN :
          /\ order[o].status \in Takes(c)
          /\ c = "approve" => MayApprove(order[o], m)
          /\ Reads(w, [idle EXCEPT !.call = c, !.what = o, !.seen = order[o], !.manager = m])
    BY <1>2 DEF ReadOrder, idle
  <2> DEFINE r == [idle EXCEPT !.call = c, !.what = o, !.seen = order[o], !.manager = m]
  <2>2. order[o] \in OrderRows
    BY DEF PurInv, PurTypes
  <2>3. /\ r.pc = "acting" /\ r.call = c /\ r.what = o /\ r.seen = order[o] /\ r.manager = m
        /\ r \in Asked
    BY <1>1, <2>2 DEF Asked
  <2>4. c # "pay"
    BY DEF OrderCalls
  <2> HIDE DEF r
  <2>5. CallFits(r, bill)
    BY <2>1, <2>3, <2>4 DEF CallFits
  <2> QED BY <2>1, <2>3, <2>5, PurReads DEF r
<1>3. CASE Refuse(w)
  <2>1. CallFits(Idle("done"), bill)
    BY PurIdleType DEF CallFits
  <2> QED BY <1>3, <2>1, PurIdleType, PurReads DEF Refuse
<1>4. CASE ReadBill(w)
  <2>1. PICK a \in Amounts :
          /\ bill.status \in {"OPEN", "PARTIAL"}
          /\ a <= Due - bill.paid
          /\ Reads(w, [idle EXCEPT !.call = "pay", !.base = bill.paid, !.amount = a])
    BY <1>4 DEF ReadBill, idle
  <2> DEFINE r == [idle EXCEPT !.call = "pay", !.base = bill.paid, !.amount = a]
  <2>2. bill.paid \in Nat /\ a \in Nat /\ Due \in Nat
    BY DEF PurInv, PurTypes, BillRows, PurAssumptions, DueAssumption
  <2>3. /\ r.pc = "acting" /\ r.call = "pay" /\ r.base = bill.paid /\ r.amount = a
        /\ r \in Asked
    BY <1>1, <2>2 DEF Asked
  <2>4. "pay" \notin OrderCalls
    BY DEF OrderCalls
  <2>5. bill.paid + a <= Due
    BY <2>1, <2>2
  <2> HIDE DEF r
  <2>6. CallFits(r, bill)
    BY <2>1, <2>3, <2>4, <2>5 DEF CallFits
  <2> QED BY <2>1, <2>3, <2>6, PurReads DEF r
<1>5. CASE ReadReceipt(w)
  <2>1. PICK a \in Amounts :
          Reads(w, [idle EXCEPT !.call = "charge", !.base = landed, !.amount = a])
    BY <1>5 DEF ReadReceipt, idle
  <2> DEFINE r == [idle EXCEPT !.call = "charge", !.base = landed, !.amount = a]
  <2>2. landed \in Nat /\ a \in Nat
    BY DEF PurInv, PurTypes, PurAssumptions, DueAssumption
  <2>3. r.call = "charge" /\ r \in Asked
    BY <1>1, <2>2 DEF Asked
  <2>4. "charge" \notin OrderCalls
    BY DEF OrderCalls
  <2> HIDE DEF r
  <2>5. CallFits(r, bill)
    BY <2>3, <2>4 DEF CallFits
  <2> QED BY <2>1, <2>3, <2>5, PurReads DEF r
<1>6. CASE ReadSuggestions(w)
  <2> DEFINE u == [p \in Products |-> Suggested(p)]
             r == [idle EXCEPT !.call = "reorder", !.units = u]
  <2>1. Reads(w, r)
    BY <1>6 DEF ReadSuggestions, idle
  <2>2. u \in [Products -> Nat]
    BY SuggestedType
  <2>3. r.call = "reorder" /\ r \in Asked
    <3> HIDE DEF u
    <3> QED BY <1>1, <2>2 DEF Asked
  <2>4. "reorder" \notin OrderCalls
    BY DEF OrderCalls
  <2> HIDE DEF r
  <2>5. CallFits(r, bill)
    BY <2>3, <2>4 DEF CallFits
  <2> QED BY <2>1, <2>3, <2>5, PurReads
<1> QED BY <1>2, <1>3, <1>4, <1>5, <1>6

(* A call that is over allows nothing; what the others were allowed on is    *)
(* still so while a bill that is there stays there.                          *)
LEMMA CallEnds ==
  ASSUME PurInv, NEW w \in Requests, req' = [req EXCEPT ![w] = Idle("done")],
         bill.status # "NONE" => bill'.status # "NONE"
  PROVE  req' \in [Requests -> Asked] /\ CallsFit'
<1>1. req' \in [Requests -> Asked]
  BY PurIdleType DEF PurInv, PurTypes
<1>2. ASSUME NEW v \in Requests
      PROVE  CallFits(req'[v], bill')
  <2>1. req'[v] = req[v] \/ req'[v] = Idle("done")
    BY DEF PurInv, PurTypes
  <2>2. CASE req'[v] = req[v]
    BY <2>2 DEF PurInv, CallsFit, CallFits
  <2>3. CASE req'[v] = Idle("done")
    BY <2>3, PurIdleType DEF CallFits
  <2> QED BY <2>1, <2>2, <2>3
<1> QED BY <1>1, <1>2 DEF CallsFit

(* A step about one order leaves the others as they fit. *)
LEMMA OtherOrdersFit ==
  ASSUME PurInv, NEW o, NEW row \in OrderRows,
         order' = [order EXCEPT ![o] = row],
         \A x \in Orders \ {o} : delivered'[x] = delivered[x] /\ byManager'[x] = byManager[x],
         raced \subseteq raced',
         o \in Orders \ raced' => OrderFits(o)'
  PROVE  order' \in [Orders -> OrderRows] /\ OrdersFit'
<1>1. order' \in [Orders -> OrderRows]
  BY DEF PurInv, PurTypes
<1>2. ASSUME NEW x \in Orders \ raced', x # o
      PROVE  OrderFits(x)'
  <2>1. order'[x] = order[x] /\ delivered'[x] = delivered[x] /\ byManager'[x] = byManager[x]
    BY <1>2 DEF PurInv, PurTypes
  <2>2. OrderFits(x)
    BY <1>2 DEF PurInv, OrdersFit
  <2> QED BY <2>1, <2>2 DEF OrderFits, LineFits, ApprovalFits
<1> QED BY <1>1, <1>2 DEF OrdersFit

(* A bill that no step is about stays as it fits. *)
LEMMA SameBillFits ==
  ASSUME PurInv, UNCHANGED <<bill, landed, payments, charges>>, raced \subseteq raced'
  PROVE  BillFits'
BY DEF PurInv, BillFits

(* A draft has nothing delivered yet. *)
LEMMA PurDraft ==
  ASSUME PurInv, NEW o \in Orders, NEW f \in [Products -> Nat], Draft(o, f),
         UNCHANGED <<delivered, byManager, raced>>
  PROVE  order' \in [Orders -> OrderRows] /\ OrdersFit'
<1> DEFINE row == [NoOrder EXCEPT !.status = "DRAFT", !.ordered = f]
<1>1. /\ row \in OrderRows /\ row.status = "DRAFT" /\ row.received = NoUnits
      /\ row.ordered = f
  BY NoOrderType DEF OrderRows, OrderStatuses
<1>2. order[o].status = "NONE" /\ order' = [order EXCEPT ![o] = row]
  BY DEF Draft
<1> HIDE DEF row
<1>3. ASSUME o \in Orders \ raced'
      PROVE  OrderFits(o)'
  <2>1. order'[o] = row
    BY <1>2 DEF PurInv, PurTypes
  <2>2. \A p \in Products : delivered[o][p] = 0
    BY <1>2, <1>3 DEF PurInv, OrdersFit, OrderFits, LineFits
  <2> QED BY <1>1, <2>1, <2>2, NoUnitsType
          DEF OrderFits, LineFits, ApprovalFits, OpenIncoming
<1> QED BY <1>1, <1>2, <1>3, OtherOrdersFit

(* create, createBill and createDraftPos. *)
LEMMA PurCreates ==
  ASSUME PurAssumptions, PurInv,
         Create \/ CreateBill \/ \E w \in Requests : CreateDraftPos(w)
  PROVE  PurInv'
<1>1. CASE Create
  <2>1. PICK o \in Orders, f \in Lines : Draft(o, f)
    BY <1>1 DEF Create
  <2>2. /\ UNCHANGED <<onHand, bill, landed, req, delivered, payments, charges, byManager, raced>>
        /\ f \in [Products -> Nat]
    BY <1>1 DEF Create, logVars, Lines, PurAssumptions, QtyAssumption
  <2>3. order' \in [Orders -> OrderRows] /\ OrdersFit'
    BY <2>1, <2>2, PurDraft
  <2>4. BillFits'
    BY <2>2, SameBillFits
  <2>5. PurTypes' /\ CallsFit'
    BY <2>2, <2>3 DEF PurInv, PurTypes, CallsFit
  <2> QED BY <2>3, <2>4, <2>5 DEF PurInv
<1>2. CASE CreateBill
  <2>1. /\ UNCHANGED <<order, onHand, landed, req, delivered, payments, charges, byManager, raced>>
        /\ bill.status = "NONE" /\ bill' = [bill EXCEPT !.status = "OPEN"]
    BY <1>2 DEF CreateBill, logVars
  <2>2. bill' \in BillRows /\ bill'.status = "OPEN" /\ bill'.paid = bill.paid
    BY <2>1 DEF PurInv, PurTypes, BillRows
  <2>3. PurTypes'
    BY <2>1, <2>2 DEF PurInv, PurTypes
  <2>4. OrdersFit'
    BY <2>1 DEF PurInv, OrdersFit, OrderFits, LineFits, ApprovalFits
  <2>5. CallsFit'
    BY <2>1, <2>2 DEF PurInv, CallsFit, CallFits
  <2>6. BillFits'
    BY <2>1, <2>2 DEF PurInv, BillFits
  <2> QED BY <2>3, <2>4, <2>5, <2>6 DEF PurInv
<1>3. ASSUME NEW w \in Requests, CreateDraftPos(w)
      PROVE  PurInv'
  <2>1. PICK o \in Orders : Draft(o, req[w].units)
    BY <1>3 DEF CreateDraftPos
  <2>2. /\ UNCHANGED <<onHand, bill, landed, delivered, payments, charges, byManager, raced>>
        /\ req' = [req EXCEPT ![w] = Idle("done")]
    BY <1>3 DEF CreateDraftPos, Acts, logVars
  <2>3. req[w].units \in [Products -> Nat]
    BY DEF PurInv, PurTypes, Asked
  <2>4. order' \in [Orders -> OrderRows] /\ OrdersFit'
    BY <2>1, <2>2, <2>3, PurDraft
  <2>5. BillFits'
    BY <2>2, SameBillFits
  <2>6. req' \in [Requests -> Asked] /\ CallsFit'
    BY <2>2, CallEnds
  <2>7. PurTypes'
    BY <2>2, <2>4, <2>6 DEF PurInv, PurTypes
  <2> QED BY <2>4, <2>5, <2>6, <2>7 DEF PurInv
<1> QED BY <1>1, <1>2, <1>3

(* A call on an order that nobody else has written found it as it is. *)
LEMMA PurActs ==
  ASSUME PurInv, NEW w \in Requests, NEW c \in OrderCalls, Acts(w, c),
         RacedIf(order[req[w].what] # req[w].seen, req[w].what)
  PROVE  /\ req[w].what \in Orders
         /\ order[req[w].what] \in OrderRows
         /\ req[w].seen \in OrderRows
         /\ req[w].manager \in BOOLEAN
         /\ req[w].seen.status \in Takes(c)
         /\ c = "approve" => MayApprove(req[w].seen, req[w].manager)
         /\ req' = [req EXCEPT ![w] = Idle("done")]
         /\ raced \subseteq raced'
         /\ req[w].what \notin raced' => /\ req[w].what \notin raced
                                         /\ order[req[w].what] = req[w].seen
<1>1. req[w].pc = "acting" /\ req[w].call = c /\ req' = [req EXCEPT ![w] = Idle("done")]
  BY DEF Acts
<1>2. req[w] \in Asked /\ CallFits(req[w], bill)
  BY DEF PurInv, PurTypes, CallsFit
<1>3. req[w].what \in Orders /\ req[w].seen.status \in Takes(c)
  BY <1>1, <1>2 DEF CallFits
<1>4. c = "approve" => MayApprove(req[w].seen, req[w].manager)
  BY <1>1, <1>2 DEF CallFits
<1>5. req[w].seen \in OrderRows /\ req[w].manager \in BOOLEAN
  BY <1>2 DEF Asked
<1>6. order[req[w].what] \in OrderRows
  BY <1>3 DEF PurInv, PurTypes
<1>7. /\ raced \subseteq raced'
      /\ req[w].what \notin raced' => req[w].what \notin raced /\ order[req[w].what] = req[w].seen
  BY DEF RacedIf
<1> QED BY <1>1, <1>3, <1>4, <1>5, <1>6, <1>7

(* A draft with new lines. *)
LEMMA NewLinesType ==
  ASSUME NEW row \in OrderRows, NEW f \in [Products -> Nat]
  PROVE  LET new == [row EXCEPT !.ordered = f, !.received = NoUnits, !.gen = @ + 1]
         IN  /\ new \in OrderRows /\ new.status = row.status
             /\ new.received = NoUnits /\ new.ordered = f
<1> DEFINE new == [row EXCEPT !.ordered = f, !.received = NoUnits, !.gen = @ + 1]
<1>1. /\ row.status \in OrderStatuses /\ row.gen + 1 \in Nat
      /\ NoUnits \in [Products -> Nat]
  BY NoUnitsType DEF OrderRows
<1>2. /\ new.status = row.status /\ new.received = NoUnits /\ new.ordered = f
  BY DEF OrderRows
<1>3. new \in OrderRows
  BY <1>1 DEF OrderRows
<1> QED BY <1>2, <1>3

(* A draft's lines are replaced while nothing was delivered. *)
LEMMA PurUpdates ==
  ASSUME PurAssumptions, PurInv, NEW w \in Requests, UpdateDraft(w)
  PROVE  PurInv'
<1>0. PICK o : o = req[w].what
  OBVIOUS
<1>1. PICK f \in Lines :
        order' = [order EXCEPT ![o] = [order[o] EXCEPT !.ordered = f, !.received = NoUnits,
                                                       !.gen = order[o].gen + 1]]
  BY <1>0 DEF UpdateDraft
<1>2. /\ UNCHANGED <<onHand, bill, landed, delivered, payments, charges, byManager>>
      /\ Acts(w, "update") /\ RacedIf(order[o] # req[w].seen, o)
      /\ "update" \in OrderCalls
  BY <1>0 DEF UpdateDraft, OrderCalls
<1>3. /\ o \in Orders /\ order[o] \in OrderRows
      /\ req[w].seen.status \in Takes("update")
      /\ req' = [req EXCEPT ![w] = Idle("done")]
      /\ raced \subseteq raced'
      /\ o \notin raced' => o \notin raced /\ order[o] = req[w].seen
  BY <1>0, <1>2, PurActs
<1> DEFINE row == [order[o] EXCEPT !.ordered = f, !.received = NoUnits, !.gen = @ + 1]
<1>4. /\ row \in OrderRows /\ row.status = order[o].status /\ row.received = NoUnits
      /\ row.ordered = f
  <2>1. f \in [Products -> Nat]
    BY DEF Lines, PurAssumptions, QtyAssumption
  <2> QED BY <1>3, <2>1, NewLinesType
<1>5. order' = [order EXCEPT ![o] = row]
  BY <1>1
<1> HIDE DEF row
<1>6. ASSUME o \in Orders \ raced'
      PROVE  OrderFits(o)'
  <2>1. order'[o] = row
    BY <1>3, <1>5 DEF PurInv, PurTypes
  <2>2. order[o].status = "DRAFT"
    BY <1>3, <1>6 DEF Takes
  <2>3. \A p \in Products : delivered[o][p] = 0
    BY <1>3, <1>6, <2>2 DEF PurInv, OrdersFit, OrderFits, LineFits
  <2> QED BY <1>2, <1>4, <2>1, <2>2, <2>3, NoUnitsType
          DEF OrderFits, LineFits, ApprovalFits, OpenIncoming
<1>7. order' \in [Orders -> OrderRows] /\ OrdersFit'
  BY <1>2, <1>3, <1>4, <1>5, <1>6, OtherOrdersFit
<1>8. req' \in [Requests -> Asked] /\ CallsFit'
  BY <1>2, <1>3, CallEnds
<1>9. BillFits'
  BY <1>2, <1>3, SameBillFits
<1>10. PurTypes'
  BY <1>2, <1>7, <1>8 DEF PurInv, PurTypes
<1> QED BY <1>7, <1>8, <1>9, <1>10 DEF PurInv

(* approve, send, cancel and close, each from the statuses it takes. *)
LEMMA PurSetsStatus ==
  ASSUME PurAssumptions, PurInv, NEW w \in Requests,
         Approve(w) \/ Send(w) \/ Cancel(w) \/ Close(w)
  PROVE  PurInv'
<1>1. PICK c \in OrderCalls, s \in OrderStatuses :
        /\ SetStatus(w, c, s)
        /\ \/ c = "approve" /\ s = "APPROVED"
           \/ c = "send" /\ s = "SENT"
           \/ c = "cancel" /\ s = "CANCELLED"
           \/ c = "close" /\ s = "CLOSED"
  BY DEF Approve, Send, Cancel, Close, OrderCalls, OrderStatuses
<1>0. PICK o : o = req[w].what
  OBVIOUS
<1>2. /\ UNCHANGED <<onHand, bill, landed, delivered, payments, charges>>
      /\ Acts(w, c) /\ RacedIf(order[o] # req[w].seen, o)
      /\ order' = [order EXCEPT ![o].status = s]
      /\ byManager' = IF c = "approve" THEN [byManager EXCEPT ![o] = req[w].manager]
                      ELSE byManager
  BY <1>0, <1>1 DEF SetStatus
<1>3. /\ o \in Orders /\ order[o] \in OrderRows
      /\ req[w].manager \in BOOLEAN
      /\ req[w].seen.status \in Takes(c)
      /\ c = "approve" => MayApprove(req[w].seen, req[w].manager)
      /\ req' = [req EXCEPT ![w] = Idle("done")]
      /\ raced \subseteq raced'
      /\ o \notin raced' => o \notin raced /\ order[o] = req[w].seen
  BY <1>0, <1>2, PurActs
<1> DEFINE row == [order[o] EXCEPT !.status = s]
<1>4. /\ row \in OrderRows /\ row.status = s /\ row.received = order[o].received
      /\ row.ordered = order[o].ordered
  BY <1>3 DEF OrderRows
<1>5. order' = [order EXCEPT ![o] = row]
  BY <1>2
<1> HIDE DEF row
<1>12. PICK m : m = req[w].manager
  OBVIOUS
<1>6. /\ byManager' \in [Orders -> BOOLEAN]
      /\ byManager'[o] = IF c = "approve" THEN m ELSE byManager[o]
      /\ \A x \in Orders \ {o} : byManager'[x] = byManager[x]
  <2>1. byManager \in [Orders -> BOOLEAN] /\ m \in BOOLEAN
    BY <1>3, <1>12 DEF PurInv, PurTypes
  <2>2. byManager' = IF c = "approve" THEN [byManager EXCEPT ![o] = m] ELSE byManager
    BY <1>2, <1>12
  <2> QED BY <1>3, <2>1, <2>2, Zenon
<1>7. ASSUME o \in Orders \ raced'
      PROVE  OrderFits(o)'
  <2>1. order'[o] = row
    BY <1>3, <1>5 DEF PurInv, PurTypes
  <2>2. /\ order[o].status \in Takes(c)
        /\ c = "approve" => MayApprove(order[o], m)
    BY <1>3, <1>7, <1>12
  <2>3. OrderFits(o)
    BY <1>3, <1>7 DEF PurInv, OrdersFit
  <2>4. Subtotal(row) = Subtotal(order[o])
    BY <1>4 DEF Subtotal
  <2>5. ApprovalFits(o)'
    <3> SUFFICES ASSUME row.status \in OpenIncoming \cup {"RECEIVED", "CLOSED"},
                        Subtotal(order[o]) > Threshold
                 PROVE  byManager'[o]
      BY <2>1, <2>4 DEF ApprovalFits
    <3>1. CASE c = "approve"
      BY <1>6, <2>2, <3>1 DEF MayApprove
    <3>2. CASE c # "approve"
      <4>1. c # "cancel"
        BY <1>1, <1>4 DEF OpenIncoming
      <4>2. order[o].status \in OpenIncoming \cup {"RECEIVED", "CLOSED"}
        BY <1>1, <2>2, <3>2, <4>1 DEF Takes, OpenIncoming
      <4>3. byManager[o]
        BY <2>3, <4>2 DEF OrderFits, ApprovalFits
      <4> QED BY <1>6, <3>2, <4>3
    <3> QED BY <3>1, <3>2
  <2>6. ASSUME NEW p \in Products
        PROVE  LineFits(o, p)'
    <3>1. LineFits(o, p)
      BY <2>3 DEF OrderFits
    <3>2. s \in {"APPROVED", "SENT", "CANCELLED"} => order[o].received[p] = 0
      BY <1>1, <2>2, <3>1 DEF LineFits, Takes
    <3> QED BY <1>1, <1>2, <1>4, <2>1, <3>1, <3>2 DEF LineFits
  <2> QED BY <2>5, <2>6 DEF OrderFits
<1>8. order' \in [Orders -> OrderRows] /\ OrdersFit'
  BY <1>2, <1>3, <1>4, <1>5, <1>6, <1>7, OtherOrdersFit
<1>9. req' \in [Requests -> Asked] /\ CallsFit'
  BY <1>2, <1>3, CallEnds
<1>10. BillFits'
  BY <1>2, <1>3, SameBillFits
<1>11. PurTypes'
  BY <1>2, <1>6, <1>8, <1>9 DEF PurInv, PurTypes
<1> QED BY <1>8, <1>9, <1>10, <1>11 DEF PurInv

(* A goods receipt adds what came to what it read, and sets the status by it. *)
LEMMA PurReceives ==
  ASSUME PurAssumptions, PurInv, NEW w \in Requests, Receive(w)
  PROVE  PurInv'
<1>1. PICK f \in Lines :
        LET got == [p \in Products |-> IF f[p] > 0 /\ req[w].seen.ordered[p] > 0
                                       THEN req[w].seen.received[p] + f[p]
                                       ELSE order[req[w].what].received[p]]
            ord == [order[req[w].what] EXCEPT !.received = got]
            next == StatusAfter(ord, req[w].seen.status)
        IN  /\ order' = [order EXCEPT ![req[w].what] =
                           IF next = req[w].seen.status THEN ord ELSE [ord EXCEPT !.status = next]]
            /\ onHand' = [p \in Products |-> onHand[p] + f[p]]
            /\ delivered' = [delivered EXCEPT ![req[w].what] =
                               [p \in Products |-> delivered[req[w].what][p] + f[p]]]
  BY DEF Receive
<1>0. PICK o, s : o = req[w].what /\ s = req[w].seen
  OBVIOUS
<1>2. /\ UNCHANGED <<bill, landed, payments, charges, byManager>>
      /\ Acts(w, "receive") /\ RacedIf(order[o] # s, o)
      /\ "receive" \in OrderCalls
  BY <1>0 DEF Receive, OrderCalls
<1>3. /\ o \in Orders /\ order[o] \in OrderRows /\ s \in OrderRows
      /\ s.status \in OpenIncoming
      /\ req' = [req EXCEPT ![w] = Idle("done")]
      /\ raced \subseteq raced'
      /\ o \notin raced' => o \notin raced /\ order[o] = s
  BY <1>0, <1>2, PurActs DEF Takes
<1> DEFINE got == [p \in Products |-> IF f[p] > 0 /\ s.ordered[p] > 0
                                      THEN s.received[p] + f[p] ELSE order[o].received[p]]
           ord == [order[o] EXCEPT !.received = got]
           next == StatusAfter(ord, s.status)
           row == IF next = s.status THEN ord ELSE [ord EXCEPT !.status = next]
           sum == [p \in Products |-> delivered[o][p] + f[p]]
<1>4. f \in [Products -> Nat]
  BY DEF Lines, PurAssumptions, QtyAssumption
<1>5. got \in [Products -> Nat]
  <2> SUFFICES ASSUME NEW p \in Products
               PROVE  (IF f[p] > 0 /\ s.ordered[p] > 0
                       THEN s.received[p] + f[p] ELSE order[o].received[p]) \in Nat
    OBVIOUS
  <2>1. f[p] \in Nat /\ s.received[p] \in Nat /\ order[o].received[p] \in Nat
    BY <1>3, <1>4 DEF OrderRows
  <2> QED BY <2>1
<1>6. \A p \in Products :
        got[p] = IF f[p] > 0 /\ s.ordered[p] > 0 THEN s.received[p] + f[p] ELSE order[o].received[p]
  OBVIOUS
<1>7. order' = [order EXCEPT ![o] = row] /\ onHand' = [p \in Products |-> onHand[p] + f[p]]
      /\ delivered' = [delivered EXCEPT ![o] = sum]
  BY <1>0, <1>1
<1> HIDE DEF got
<1>8. /\ ord \in OrderRows /\ ord.received = got /\ ord.ordered = order[o].ordered
      /\ ord.status = order[o].status
  BY <1>3, <1>5 DEF OrderRows
<1> HIDE DEF ord
<1>9. /\ next \in {"RECEIVED", "PARTIALLY_RECEIVED", s.status} /\ next \in OrderStatuses
      /\ next = "RECEIVED" => s.status = "RECEIVED" \/ \A p \in Products : ord.received[p] >= ord.ordered[p]
      /\ next \in {"RECEIVED", "PARTIALLY_RECEIVED"} \/ \A p \in Products : ~(ord.received[p] > 0)
  BY <1>3 DEF StatusAfter, OrderRows, OrderStatuses
<1> HIDE DEF next
<1>10. /\ row \in OrderRows /\ row.received = got /\ row.ordered = order[o].ordered
       /\ row.status = IF next = s.status THEN order[o].status ELSE next
  BY <1>8, <1>9 DEF OrderRows
<1> HIDE DEF row
<1>11. sum \in [Products -> Nat] /\ delivered' \in [Orders -> [Products -> Nat]]
       /\ delivered'[o] = sum /\ \A p \in Products : sum[p] = delivered[o][p] + f[p]
  <2>1. \A p \in Products : delivered[o][p] + f[p] \in Nat
    BY <1>3, <1>4 DEF PurInv, PurTypes
  <2>2. sum \in [Products -> Nat] /\ \A p \in Products : sum[p] = delivered[o][p] + f[p]
    BY <2>1
  <2> HIDE DEF sum
  <2> QED BY <1>3, <1>7, <2>2 DEF PurInv, PurTypes
<1> HIDE DEF sum
<1>12. onHand' \in [Products -> Nat]
  <2>1. \A p \in Products : onHand[p] + f[p] \in Nat
    BY <1>4 DEF PurInv, PurTypes
  <2> QED BY <1>7, <2>1
<1>13. ASSUME o \in Orders \ raced'
       PROVE  OrderFits(o)'
  <2>1. order'[o] = row /\ byManager' = byManager
    BY <1>2, <1>3, <1>7 DEF PurInv, PurTypes
  <2>2. order[o] = s /\ OrderFits(o)
    BY <1>3, <1>13 DEF PurInv, OrdersFit
  <2>3. row.status = next /\ order[o].status \in OpenIncoming
    BY <1>3, <1>10, <2>2
  <2>4. Subtotal(row) = Subtotal(order[o])
    BY <1>10 DEF Subtotal
  <2>5. ApprovalFits(o)'
    <3>1. Subtotal(order[o]) > Threshold => byManager[o]
      BY <2>2, <2>3 DEF OrderFits, ApprovalFits
    <3> QED BY <2>1, <2>4, <3>1 DEF ApprovalFits
  <2>6. ASSUME NEW p \in Products
        PROVE  LineFits(o, p)'
    <3>1. LineFits(o, p)
      BY <2>2 DEF OrderFits
    <3>2. /\ f[p] \in Nat /\ order[o].ordered[p] \in Nat /\ order[o].received[p] \in Nat
          /\ delivered[o][p] \in Nat /\ delivered'[o][p] = delivered[o][p] + f[p]
          /\ got[p] \in Nat
      BY <1>3, <1>4, <1>5, <1>11 DEF OrderRows, PurInv, PurTypes
    <3>3. got[p] = IF f[p] > 0 /\ order[o].ordered[p] > 0 THEN order[o].received[p] + f[p]
                   ELSE order[o].received[p]
      BY <1>6, <2>2
    <3>4. order'[o].ordered[p] > 0 => order'[o].received[p] = delivered'[o][p]
      BY <1>10, <2>1, <3>1, <3>2, <3>3 DEF LineFits
    <3>5. order'[o].ordered[p] = 0 => order'[o].received[p] = 0
      BY <1>10, <2>1, <3>1, <3>2, <3>3 DEF LineFits
    <3>6. order'[o].status \notin {"NONE", "DRAFT", "CANCELLED"}
      BY <1>9, <2>1, <2>2, <2>3 DEF OpenIncoming
    <3>7. order'[o].status \in {"APPROVED", "SENT", "CANCELLED"} => order'[o].received[p] = 0
      BY <1>8, <1>9, <1>10, <2>1, <2>3, <3>2
    <3>8. order'[o].status = "RECEIVED" => order'[o].received[p] >= order'[o].ordered[p]
      BY <1>8, <1>9, <1>10, <2>1, <2>2, <2>3 DEF OpenIncoming
    <3> QED BY <3>4, <3>5, <3>6, <3>7, <3>8 DEF LineFits
  <2> QED BY <2>5, <2>6 DEF OrderFits
<1>14. order' \in [Orders -> OrderRows] /\ OrdersFit'
  <2>1. \A x \in Orders \ {o} : delivered'[x] = delivered[x] /\ byManager'[x] = byManager[x]
    BY <1>2, <1>7 DEF PurInv, PurTypes
  <2> QED BY <1>3, <1>7, <1>10, <1>13, <2>1, OtherOrdersFit
<1>15. req' \in [Requests -> Asked] /\ CallsFit'
  BY <1>2, <1>3, CallEnds
<1>16. BillFits'
  BY <1>2, <1>3, SameBillFits
<1>17. PurTypes'
  BY <1>2, <1>11, <1>12, <1>14, <1>15 DEF PurInv, PurTypes
<1> QED BY <1>14, <1>15, <1>16, <1>17 DEF PurInv

(* Steps about no order leave the orders as they fit. *)
LEMMA SameOrdersFit ==
  ASSUME PurInv, UNCHANGED <<order, delivered, byManager>>, raced \subseteq raced'
  PROVE  OrdersFit'
<1>1. ASSUME NEW o \in Orders \ raced'
      PROVE  OrderFits(o)'
  <2>1. OrderFits(o)
    BY DEF PurInv, OrdersFit
  <2> QED BY <2>1 DEF OrderFits, LineFits, ApprovalFits
<1> QED BY <1>1 DEF OrdersFit

(* recordPayment, addLandedCost, and a call that fails. *)
LEMMA PurPays ==
  ASSUME PurAssumptions, PurInv, NEW w \in Requests, Pay(w) \/ Charge(w) \/ Fail(w)
  PROVE  PurInv'
<1>0. /\ req[w].base \in Nat /\ req[w].amount \in Nat /\ Due \in Nat
      /\ CallFits(req[w], bill)
      /\ bill \in BillRows /\ bill.paid \in Nat /\ payments \in Nat /\ landed \in Nat /\ charges \in Nat
  BY DEF PurInv, PurTypes, CallsFit, Asked, BillRows, PurAssumptions, DueAssumption
<1>1. CASE Pay(w)
  <2>1. PICK paid : paid = req[w].base + req[w].amount
    OBVIOUS
  <2>2. /\ UNCHANGED <<order, onHand, landed, delivered, charges, byManager>>
        /\ Acts(w, "pay")
        /\ bill' = [status |-> IF paid >= Due THEN "PAID" ELSE "PARTIAL", paid |-> paid]
        /\ payments' = payments + req[w].amount
        /\ RacedIf(bill.paid # req[w].base, "bill")
    BY <1>1, <2>1 DEF Pay
  <2>3. /\ req[w].pc = "acting" /\ req[w].call = "pay"
        /\ req' = [req EXCEPT ![w] = Idle("done")]
    BY <2>2 DEF Acts
  <2>4. /\ raced \subseteq raced'
        /\ "bill" \notin raced' => "bill" \notin raced /\ bill.paid = req[w].base
        /\ "receipt" \notin raced' => "receipt" \notin raced
    BY <2>2 DEF RacedIf
  <2>5. paid \in Nat /\ paid <= Due /\ bill.status # "NONE"
    BY <1>0, <2>1, <2>3 DEF CallFits
  <2>6. /\ bill' \in BillRows /\ bill'.paid = paid /\ bill'.status \in {"PAID", "PARTIAL"}
        /\ bill'.status = "PAID" => paid >= Due
    BY <2>2, <2>5 DEF BillRows
  <2>7. BillFits'
    <3>1. "bill" \notin raced' => paid = payments'
      BY <1>0, <2>1, <2>2, <2>4 DEF PurInv, BillFits
    <3>2. "receipt" \notin raced' => landed' = charges'
      BY <2>2, <2>4 DEF PurInv, BillFits
    <3>3. bill'.status = "PAID" => paid = Due
      BY <1>0, <2>5, <2>6
    <3> QED BY <2>5, <2>6, <3>1, <3>2, <3>3 DEF BillFits
  <2>8. req' \in [Requests -> Asked] /\ CallsFit'
    BY <2>3, <2>6, CallEnds
  <2>9. OrdersFit'
    BY <2>2, <2>4, SameOrdersFit
  <2>10. PurTypes'
    BY <1>0, <2>2, <2>6, <2>8 DEF PurInv, PurTypes
  <2> QED BY <2>7, <2>8, <2>9, <2>10 DEF PurInv
<1>2. CASE Charge(w)
  <2>1. /\ UNCHANGED <<order, onHand, bill, delivered, payments, byManager>>
        /\ Acts(w, "charge")
        /\ landed' = req[w].base + req[w].amount
        /\ charges' = charges + req[w].amount
        /\ RacedIf(landed # req[w].base, "receipt")
    BY <1>2 DEF Charge
  <2>2. req' = [req EXCEPT ![w] = Idle("done")]
    BY <2>1 DEF Acts
  <2>3. /\ raced \subseteq raced'
        /\ "bill" \notin raced' => "bill" \notin raced
        /\ "receipt" \notin raced' => "receipt" \notin raced /\ landed = req[w].base
    BY <2>1 DEF RacedIf
  <2>4. BillFits'
    BY <1>0, <2>1, <2>3 DEF PurInv, BillFits
  <2>5. req' \in [Requests -> Asked] /\ CallsFit'
    BY <2>1, <2>2, CallEnds
  <2>6. OrdersFit'
    BY <2>1, <2>3, SameOrdersFit
  <2>7. PurTypes'
    BY <1>0, <2>1, <2>5 DEF PurInv, PurTypes
  <2> QED BY <2>4, <2>5, <2>6, <2>7 DEF PurInv
<1>3. CASE Fail(w)
  <2>1. /\ UNCHANGED <<order, onHand, bill, landed, delivered, payments, charges, byManager, raced>>
        /\ req' = [req EXCEPT ![w] = Idle("done")]
    BY <1>3 DEF Fail, rowVars, logVars
  <2>2. req' \in [Requests -> Asked] /\ CallsFit'
    BY <2>1, CallEnds
  <2>3. OrdersFit' /\ BillFits'
    BY <2>1, SameOrdersFit, SameBillFits
  <2>4. PurTypes'
    BY <2>1, <2>2 DEF PurInv, PurTypes
  <2> QED BY <2>2, <2>3, <2>4 DEF PurInv
<1> QED BY <1>1, <1>2, <1>3

(* Every step keeps the invariant. *)
LEMMA PurStep ==
  ASSUME PurAssumptions
  PROVE  PurInv /\ [PurchasingNext]_purchasingVars => PurInv'
<1> SUFFICES ASSUME PurInv, [PurchasingNext]_purchasingVars PROVE PurInv'
  OBVIOUS
<1>1. CASE UNCHANGED purchasingVars
  <2>1. UNCHANGED <<order, onHand, bill, landed, req, delivered, payments, charges, byManager, raced>>
    BY <1>1 DEF purchasingVars
  <2>2. OrdersFit' /\ BillFits'
    BY <2>1, SameOrdersFit, SameBillFits
  <2>3. PurTypes' /\ CallsFit'
    BY <2>1 DEF PurInv, PurTypes, CallsFit
  <2> QED BY <2>2, <2>3 DEF PurInv
<1>2. CASE Create \/ CreateBill
  BY <1>2, PurCreates
<1>3. ASSUME NEW w \in Requests,
             \/ \E c \in OrderCalls : ReadOrder(w, c)
             \/ Refuse(w) \/ ReadBill(w) \/ ReadReceipt(w) \/ ReadSuggestions(w)
             \/ CreateDraftPos(w) \/ UpdateDraft(w) \/ Approve(w) \/ Send(w) \/ Cancel(w)
             \/ Close(w) \/ Receive(w) \/ Pay(w) \/ Charge(w) \/ Fail(w)
      PROVE  PurInv'
  BY <1>3, PurCallsRead, PurCreates, PurUpdates, PurSetsStatus, PurReceives, PurPays
<1> QED BY <1>1, <1>2, <1>3 DEF PurchasingNext

(* While an order's figures are what was delivered, and nothing was          *)
(* delivered beyond them, what it owes is what it asked for less what came.  *)
LEMMA OwedIsTheRest ==
  ASSUME PurAssumptions, NEW ord \in OrderRows,
         \A p \in Products : ord.received[p] <= ord.ordered[p]
  PROVE  SumFunctionOnSet(ord.ordered, Products) - SumFunctionOnSet(ord.received, Products)
           = SumFunctionOnSet([p \in Products |-> Owed(ord, p)], Products)
<1> PICK f, g, h : /\ f = ord.received /\ h = ord.ordered
                   /\ g = [p \in Products |-> Owed(ord, p)]
  OBVIOUS
<1>1. \A p \in Products : h[p] \in Nat /\ f[p] \in Nat /\ f[p] <= h[p]
  BY DEF OrderRows
<1>2. \A p \in Products : g[p] = h[p] - f[p]
  <2> SUFFICES ASSUME NEW p \in Products PROVE Owed(ord, p) = h[p] - f[p]
    OBVIOUS
  <2> QED BY <1>1 DEF Owed
<1>3. \A p \in Products : f[p] \in Int /\ g[p] \in Int /\ h[p] = f[p] + g[p]
  BY <1>1, <1>2
<1>4. IsFiniteSet(Products)
  BY PurFinite
<1>5. SumFunctionOnSet(h, Products) = SumFunctionOnSet(f, Products) + SumFunctionOnSet(g, Products)
  BY <1>3, <1>4, SumPlus
<1>6. SumFunctionOnSet(f, Products) \in Int
  BY <1>3, <1>4, SumInt
<1>7. SumFunctionOnSet(g, Products) \in Int
  BY <1>3, <1>4, SumInt
<1> QED BY <1>5, <1>6, <1>7

(* What the invariant says of the orders no two calls overlapped on. *)
LEMMA OrdersAsDelivered ==
  ASSUME PurAssumptions, PurInv
  PROVE  ReceivedAsDelivered
<1> SUFFICES ASSUME NEW o \in Orders \ raced
    PROVE  /\ \A p \in Products : order[o].ordered[p] > 0 => order[o].received[p] = delivered[o][p]
           /\ order[o].status = "RECEIVED" => \A p \in Products : Owed(order[o], p) = 0
           /\ order[o].status \in {"APPROVED", "SENT", "CANCELLED"} => order[o].received = NoUnits
           /\ (o \in OpenOrders /\ \A p \in Products : delivered[o][p] <= order[o].ordered[p])
                => QuantityOrdered(o) - QuantityReceived(o)
                     = SumFunctionOnSet([p \in Products |-> Owed(order[o], p)], Products)
  BY DEF ReceivedAsDelivered
<1>1. /\ order[o] \in OrderRows
      /\ \A p \in Products : order[o].ordered[p] \in Nat /\ order[o].received[p] \in Nat
      /\ order[o].received \in [Products -> Nat]
  BY DEF PurInv, PurTypes, OrderRows
<1>2. \A p \in Products : LineFits(o, p)
  BY DEF PurInv, OrdersFit, OrderFits
<1>3. \A p \in Products : order[o].ordered[p] > 0 => order[o].received[p] = delivered[o][p]
  BY <1>2 DEF LineFits
<1>4. ASSUME order[o].status = "RECEIVED", NEW p \in Products
      PROVE  Owed(order[o], p) = 0
  BY <1>1, <1>2, <1>4 DEF LineFits, Owed
<1>5. ASSUME order[o].status \in {"APPROVED", "SENT", "CANCELLED"}
      PROVE  order[o].received = NoUnits
  <2>1. \A p \in Products : order[o].received[p] = 0
    BY <1>2, <1>5 DEF LineFits
  <2> QED BY <1>1, <2>1 DEF NoUnits
<1>6. ASSUME \A p \in Products : delivered[o][p] <= order[o].ordered[p]
      PROVE  QuantityOrdered(o) - QuantityReceived(o)
               = SumFunctionOnSet([p \in Products |-> Owed(order[o], p)], Products)
  <2>1. \A p \in Products : order[o].received[p] <= order[o].ordered[p]
    BY <1>1, <1>2, <1>6 DEF LineFits
  <2> QED BY <1>1, <2>1, OwedIsTheRest DEF QuantityOrdered, QuantityReceived
<1> QED BY <1>3, <1>4, <1>5, <1>6

(* A bill no two payments overlapped on asks for what is due less what was   *)
(* paid, in one bucket of the report.                                        *)
LEMMA BillsAddUp ==
  ASSUME PurAssumptions, PurInv
  PROVE  TotalsAddUp
<1>0. /\ bill \in BillRows /\ bill.paid \in Nat /\ payments \in Nat /\ Due \in Nat
  BY DEF PurInv, PurTypes, BillRows, PurAssumptions, DueAssumption
<1>1. "receipt" \notin raced => landed = charges
  BY DEF PurInv, BillFits
<1>2. ASSUME "bill" \notin raced, bill.status # "NONE", NEW days \in Int
      PROVE  SumFunctionOnSet(AgedPayables(days), Buckets) = Due - payments
  <2>1. Payable = Due - payments
    <3>1. bill.paid = payments /\ bill.paid <= Due /\ (bill.status = "PAID" => bill.paid = Due)
      BY <1>2 DEF PurInv, BillFits
    <3>2. bill.status \in {"OPEN", "PARTIAL", "PAID"}
      BY <1>0, <1>2 DEF BillRows
    <3> QED BY <1>0, <3>1, <3>2 DEF Payable
  <2>2. BucketOf(days) \in Buckets
    BY <1>2 DEF BucketOf, Buckets
  <2>3. IsFiniteSet(Buckets)
    <3>1. \A T, x : IsFiniteSet(T) => IsFiniteSet(T \cup {x})
      BY FS_AddElement
    <3>2. IsFiniteSet({} \cup {"current"} \cup {"days1to30"} \cup {"days31to60"}
                        \cup {"days61to90"} \cup {"over90"})
      BY <3>1, FS_EmptySet, Zenon
    <3>3. Buckets = {} \cup {"current"} \cup {"days1to30"} \cup {"days31to60"}
                        \cup {"days61to90"} \cup {"over90"}
      BY DEF Buckets
    <3> QED BY <3>2, <3>3
  <2> PICK f, g, b, S : /\ f = [x \in Buckets |-> 0] /\ g = AgedPayables(days)
                        /\ b = BucketOf(days) /\ S = Buckets
    OBVIOUS
  <2>4. /\ \A x \in S : f[x] = 0
        /\ \A x \in S : f[x] \in Int /\ g[x] \in Int
        /\ \A x \in S \ {b} : f[x] = g[x]
        /\ g[b] = Due - payments
    BY <1>0, <2>1, <2>2 DEF AgedPayables
  <2>5. SumFunctionOnSet(f, S) = 0
    BY <2>3, <2>4, SumZero
  <2>6. SumFunctionOnSet(g, S) = SumFunctionOnSet(f, S) + g[b] - f[b]
    BY <2>2, <2>3, <2>4, SumChange
  <2>7. SumFunctionOnSet(g, S) = Due - payments
    BY <1>0, <2>2, <2>4, <2>5, <2>6
  <2> QED BY <2>7
<1> QED BY <1>1, <1>2 DEF TotalsAddUp

(* The invariant holds in every reachable state. *)
THEOREM PurchasingHolds == PurchasingSpec => []PurInv
<1>1. PurchasingInit => PurInv
  BY PurInit, PurAssumed
<1>2. PurInv /\ [PurchasingNext]_purchasingVars => PurInv'
  BY PurStep, PurAssumed
<1> QED BY <1>1, <1>2, PTL DEF PurchasingSpec

(* What a purchase order says was received is what its receipts brought, its *)
(* status says whether anything is owed, and the open orders' report agrees  *)
(* with the incoming stock, for every order no two calls overlapped on       *)
(* (goods-receipts.service.ts, purchase-orders.service.ts).                  *)
THEOREM OrdersTellDeliveries == PurchasingSpec => []ReceivedAsDelivered
<1>1. PurInv => ReceivedAsDelivered
  BY OrdersAsDelivered, PurAssumed
<1> QED BY <1>1, PurchasingHolds, PTL

(* "PO above threshold requires PURCHASE_APPROVE": no order goes ahead with  *)
(* a large subtotal unless someone who may approve any approved it or it was *)
(* edited while being approved.                                              *)
THEOREM LargeOrdersAreApproved == PurchasingSpec => []LargeOrdersApproved
<1>1. PurInv => LargeOrdersApproved
  BY DEF PurInv, OrdersFit, OrderFits, ApprovalFits, LargeOrdersApproved
<1> QED BY <1>1, PurchasingHolds, PTL

(* What the payables report asks for is what is due less every payment, and  *)
(* a receipt's landed cost is the sum of its charges, unless two payments or *)
(* two charges overlapped (bills.service.ts, landed cost of a receipt).      *)
THEOREM BillsAndChargesAddUp == PurchasingSpec => []TotalsAddUp
<1>1. PurInv => TotalsAddUp
  BY BillsAddUp, PurAssumed
<1> QED BY <1>1, PurchasingHolds, PTL

=============================================================================
