------------------------- MODULE ReservationsProofs -------------------------
(* Proofs about Reservations, for any reservations, requests, quantities and *)
(* cart sizes; and about Reports, for any sales, baskets, products, days and *)
(* methods of payment.                                                       *)
EXTENDS Reservations, Reports, SumTheorems, TLAPS

Statuses == {"absent", "RESERVED", "COMPLETED", "CANCELLED", "EXPIRED"}

(* The state as far as the argument needs it: what the rows look like, and   *)
(* what a request that creates or edits brings with it.                      *)
Shapes ==
  /\ pc \in [Processes -> {"new", "read", "locked", "loaded", "done"}]
  /\ res \in [Ids -> [status : Statuses, qty : Nat, timed : BOOLEAN, due : BOOLEAN]]
  /\ fulfilled \in [Ids -> SUBSET Requests]
  /\ DOMAIN req = Requests
  /\ \A w \in Requests : Is(w, "create") => req[w].qty \in Nat /\ req[w].timed \in BOOLEAN
  /\ \A w \in Requests : Is(w, "update") => req[w].qty \in Nat

(* Whoever decides under the row lock still has it when it writes.           *)
LockHeld == \A p \in Processes : pc[p] \in {"locked", "loaded"} => owner = p

(* A reservation that has not been sold can be; one that is in the hands of  *)
(* a checkout that has loaded it has not been sold, and the lock keeps it so.*)
UnsoldUntilSold ==
  /\ \A i \in Ids : fulfilled[i] = {} \/ \E v \in Requests : fulfilled[i] = {v}
  /\ \A i \in Ids : res[i].status \in {"absent", "RESERVED"} => fulfilled[i] = {}
  /\ \A w \in Requests : (pc[w] = "loaded" /\ Is(w, "checkout")) =>
       \A i \in CartIds(req[w].cart) : fulfilled[i] = {}

SaleInv == Shapes /\ LockHeld /\ UnsoldUntilSold

-----------------------------------------------------------------------------
(* At the start nothing is sold. *)
LEMMA SaleInvInit == Init => SaleInv
<1> SUFFICES ASSUME Init PROVE SaleInv
  OBVIOUS
<1>1. \A row \in OpenRows \cup {AbsentRow} :
        row \in [status : Statuses, qty : Nat, timed : BOOLEAN, due : BOOLEAN]
  <2>1. \A row \in OpenRows : row \in [status : Statuses, qty : Nat, timed : BOOLEAN, due : BOOLEAN]
    BY QuantitiesAssumption DEF OpenRows, Statuses
  <2>2. AbsentRow \in [status : Statuses, qty : Nat, timed : BOOLEAN, due : BOOLEAN]
    BY DEF AbsentRow, Statuses
  <2> QED BY <2>1, <2>2
<1>2. res \in [Ids -> [status : Statuses, qty : Nat, timed : BOOLEAN, due : BOOLEAN]]
  BY <1>1 DEF Init
<1>3. \A w \in Requests : ~Is(w, "create") /\ ~Is(w, "update") /\ ~Is(w, "checkout")
  BY DEF Init, Is, NoReq
<1> QED BY <1>2, <1>3 DEF Init, SaleInv, Shapes, LockHeld, UnsoldUntilSold, Processes

(* A request that begins, with the lock or without it, sells nothing yet. *)
LEMMA SaleInvAsk ==
  ASSUME SaleInv, NEW w \in Requests, NEW d, Ask(w, d),
         Lock(w) \/ GoOn(w),
         d.kind = "create" => d.qty \in Nat /\ d.timed \in BOOLEAN,
         d.kind = "update" => d.qty \in Nat
  PROVE  SaleInv'
<1> USE DEF SaleInv, Shapes, Processes
<1>1. /\ res' = res /\ fulfilled' = fulfilled
      /\ req' = [req EXCEPT ![w] = d]
      /\ pc'[w] \in {"locked", "read"} /\ pc' \in [Processes -> {"new", "read", "locked", "loaded", "done"}]
      /\ \A p \in Processes : p # w => pc'[p] = pc[p]
  BY DEF Ask, Lock, GoOn
<1>2. Shapes'
  BY <1>1 DEF Is, Ask
<1>3. LockHeld'
  BY <1>1, ProcessesAssumption DEF LockHeld, Lock, GoOn
<1>4. UnsoldUntilSold'
  BY <1>1 DEF UnsoldUntilSold, Is, Ask
<1> QED BY <1>2, <1>3, <1>4

(* Beginning a request sells nothing. *)
LEMMA SaleInvBegin ==
  ASSUME SaleInv, NEW w \in Requests, Begin(w)
  PROVE  SaleInv'
<1>1. CASE AskCreate(w)
  <2>1. PICK q \in Qty, timed \in BOOLEAN :
          AskAndLock(w, [kind |-> "create", qty |-> q, timed |-> timed])
    BY <1>1 DEF AskCreate
  <2> QED BY <2>1, SaleInvAsk, QuantitiesAssumption DEF AskAndLock
<1>2. CASE AskCheckout(w)
  <2>1. PICK c \in Carts : AskAndLock(w, [kind |-> "checkout", cart |-> c])
    BY <1>2 DEF AskCheckout
  <2> QED BY <2>1, SaleInvAsk DEF AskAndLock
<1>3. CASE AskShelf(w)
  <2>1. PICK q \in Qty : \E d \in {q, -q} : AskAndLock(w, [kind |-> "shelf", delta |-> d])
    BY <1>3 DEF AskShelf
  <2> QED BY <2>1, SaleInvAsk DEF AskAndLock
<1>4. CASE ReadForCancel(w)
  <2>1. PICK i \in Ids : Ask(w, [kind |-> "cancel", id |-> i])
    BY <1>4 DEF ReadForCancel
  <2> QED BY <1>4, <2>1, SaleInvAsk DEF ReadForCancel
<1>5. CASE ReadForUpdate(w)
  <2>1. PICK i \in Ids, q \in Qty : Ask(w, [kind |-> "update", id |-> i, qty |-> q])
    BY <1>5 DEF ReadForUpdate
  <2> QED BY <1>5, <2>1, SaleInvAsk, QuantitiesAssumption DEF ReadForUpdate
<1> QED BY <1>1, <1>2, <1>3, <1>4, <1>5 DEF Begin

(* Loading finds the reservations of the cart RESERVED, so unsold. *)
LEMMA SaleInvLoad ==
  ASSUME SaleInv, NEW w \in Requests, Load(w)
  PROVE  SaleInv'
<1> USE DEF SaleInv, Shapes, Processes, Load
<1>1. Shapes' /\ LockHeld'
  BY DEF Is, LockHeld
<1>2. ASSUME Is(w, "checkout"), NEW i \in CartIds(req[w].cart)
      PROVE  fulfilled[i] = {}
  <2>1. CheckoutAllowed(w)
    BY <1>2 DEF Allowed, Is
  <2>2. i \in Ids /\ res[i].status = "RESERVED"
    BY <1>2, <2>1 DEF CheckoutAllowed, CartIds
  <2> QED BY <2>2 DEF UnsoldUntilSold
<1>3. UnsoldUntilSold'
  BY <1>2 DEF UnsoldUntilSold, Is
<1> QED BY <1>1, <1>3

(* The end of a request gives its lock back and forgets what it was asked. *)
LEMMA FinishLeaves ==
  ASSUME SaleInv, NEW w \in Requests, Finish(w)
  PROVE  /\ pc' \in [Processes -> {"new", "read", "locked", "loaded", "done"}]
         /\ LockHeld'
         /\ pc'[w] = "done"
         /\ DOMAIN req' = Requests /\ req'[w] = NoReq
         /\ \A v \in Requests : v # w => pc'[v] = pc[v] /\ req'[v] = req[v]
<1>1. /\ pc' = [pc EXCEPT ![w] = "done"] /\ req' = [req EXCEPT ![w] = NoReq]
      /\ owner' = IF owner = w THEN None ELSE owner
  BY DEF Finish, Release
<1> USE DEF SaleInv, Shapes, Processes
<1>2. LockHeld'
  BY <1>1 DEF LockHeld
<1> QED BY <1>1, <1>2

(* What a write to the rows must respect, when its request ends with it. *)
LEMMA SaleInvWrite ==
  ASSUME SaleInv, NEW w \in Requests, Finish(w), fulfilled' = fulfilled,
         res' \in [Ids -> [status : Statuses, qty : Nat, timed : BOOLEAN, due : BOOLEAN]],
         \A i \in Ids : res'[i].status \in {"absent", "RESERVED"} => res[i].status \in {"absent", "RESERVED"}
  PROVE  SaleInv'
<1>1. Shapes'
  BY FinishLeaves DEF SaleInv, Shapes, Is, NoReq
<1>2. UnsoldUntilSold'
  BY FinishLeaves DEF SaleInv, UnsoldUntilSold, Is, NoReq
<1> QED BY <1>1, <1>2, FinishLeaves DEF SaleInv

(* A reservation is created unsold. *)
LEMMA SaleInvCreate ==
  ASSUME SaleInv, NEW w \in Requests, Create(w)
  PROVE  SaleInv'
<1>1. PICK i \in Ids : /\ res[i].status = "absent"
                       /\ res' = [res EXCEPT ![i] = [status |-> "RESERVED", qty |-> req[w].qty,
                                                     timed |-> req[w].timed, due |-> FALSE]]
  BY DEF Create
<1>2. req[w].qty \in Nat /\ req[w].timed \in BOOLEAN
  BY DEF SaleInv, Shapes, Create
<1>3. res' \in [Ids -> [status : Statuses, qty : Nat, timed : BOOLEAN, due : BOOLEAN]]
  BY <1>1, <1>2 DEF SaleInv, Shapes, Statuses
<1>4. Finish(w) /\ fulfilled' = fulfilled
  BY DEF Create
<1> QED BY <1>1, <1>3, <1>4, SaleInvWrite DEF SaleInv, Shapes

(* A cancellation, even of a stale read, does not bring a sold one back. *)
LEMMA SaleInvCancel ==
  ASSUME SaleInv, NEW w \in Requests, Cancel(w)
  PROVE  SaleInv'
<1>1. /\ res' \in [Ids -> [status : Statuses, qty : Nat, timed : BOOLEAN, due : BOOLEAN]]
      /\ \A i \in Ids : res'[i].status \in {res[i].status, "CANCELLED"}
  BY DEF Cancel, SaleInv, Shapes, Statuses
<1> QED BY <1>1, SaleInvWrite DEF Cancel

(* An edit leaves the status alone. *)
LEMMA SaleInvUpdate ==
  ASSUME SaleInv, NEW w \in Requests, Update(w)
  PROVE  SaleInv'
<1>1. req[w].qty \in Nat
  BY DEF Update, SaleInv, Shapes
<1>2. /\ res' \in [Ids -> [status : Statuses, qty : Nat, timed : BOOLEAN, due : BOOLEAN]]
      /\ \A i \in Ids : res'[i].status = res[i].status
  BY <1>1 DEF Update, SaleInv, Shapes, Statuses
<1> QED BY <1>2, SaleInvWrite DEF Update

(* A sale names itself on reservations that had not been sold; nobody else   *)
(* has loaded any, because the seller has the lock.                          *)
LEMMA SaleInvSell ==
  ASSUME SaleInv, NEW w \in Requests, Sell(w)
  PROVE  SaleInv'
<1> DEFINE sold == CartIds(req[w].cart)
<1>1. /\ pc[w] = "loaded" /\ Is(w, "checkout") /\ Finish(w)
      /\ res' = [i \in Ids |-> IF i \in sold THEN [res[i] EXCEPT !.status = "COMPLETED"] ELSE res[i]]
      /\ fulfilled' = [i \in Ids |-> IF i \in sold THEN fulfilled[i] \cup {w} ELSE fulfilled[i]]
  BY DEF Sell
<1>2. \A i \in sold : fulfilled[i] = {}
  BY <1>1 DEF SaleInv, UnsoldUntilSold
<1>3. \A v \in Requests : pc'[v] # "loaded"
  BY <1>1, FinishLeaves DEF SaleInv, LockHeld, Processes
<1> HIDE DEF sold
<1>4. /\ res' \in [Ids -> [status : Statuses, qty : Nat, timed : BOOLEAN, due : BOOLEAN]]
      /\ \A i \in Ids : res'[i].status = IF i \in sold THEN "COMPLETED" ELSE res[i].status
  BY <1>1 DEF SaleInv, Shapes, Statuses
<1>5. Shapes'
  BY <1>1, <1>4, FinishLeaves DEF SaleInv, Shapes, Is, NoReq
<1>6. UnsoldUntilSold'
  BY <1>1, <1>2, <1>3, <1>4 DEF SaleInv, UnsoldUntilSold, Shapes
<1> QED BY <1>1, <1>5, <1>6, FinishLeaves DEF SaleInv

(* Time passes, and the sweep expires what is due. *)
LEMMA SaleInvSweep ==
  ASSUME SaleInv, Sweeping
  PROVE  SaleInv'
<1> USE DEF SaleInv, Shapes, Processes
<1>1. /\ req' = req /\ fulfilled' = fulfilled
      /\ res' \in [Ids -> [status : Statuses, qty : Nat, timed : BOOLEAN, due : BOOLEAN]]
      /\ \A i \in Ids : res'[i].status \in {res[i].status, "EXPIRED"}
      /\ pc' \in [Processes -> {"new", "read", "locked", "loaded", "done"}]
      /\ \A w \in Requests : pc'[w] = pc[w]
      /\ pc'[Sweeper] # "loaded"
  BY ProcessesAssumption DEF Sweeping, SweepPick, SweepLock, SweepWrite, SweepFail, SweepEnd, Lock, Statuses
<1>2. Shapes'
  BY <1>1 DEF Is
<1>3. LockHeld'
  BY <1>1, ProcessesAssumption DEF LockHeld, Sweeping, SweepPick, SweepLock, SweepWrite, SweepFail,
     SweepEnd, Lock, Release
<1>4. UnsoldUntilSold'
  BY <1>1 DEF UnsoldUntilSold, Is
<1> QED BY <1>2, <1>3, <1>4

(* No step of a request, of the sweep or of time breaks the invariant. *)
LEMMA SaleInvStep == SaleInv /\ [Next]_vars => SaleInv'
<1> SUFFICES ASSUME SaleInv, [Next]_vars PROVE SaleInv'
  OBVIOUS
<1>1. CASE UNCHANGED vars
  BY <1>1 DEF vars, SaleInv, Shapes, LockHeld, UnsoldUntilSold, Is
<1>2. ASSUME NEW i \in Ids, FallDue(i)
      PROVE  SaleInv'
  <2>1. /\ res' \in [Ids -> [status : Statuses, qty : Nat, timed : BOOLEAN, due : BOOLEAN]]
        /\ \A j \in Ids : res'[j].status = res[j].status
    BY <1>2 DEF FallDue, SaleInv, Shapes
  <2>2. owner' = owner /\ pc' = pc /\ req' = req /\ fulfilled' = fulfilled
    BY <1>2 DEF FallDue
  <2> QED BY <2>1, <2>2 DEF SaleInv, Shapes, LockHeld, UnsoldUntilSold, Is
<1>3. ASSUME NEW w \in Requests, Proceed(w)
      PROVE  SaleInv'
  <2>1. CASE MoveShelf(w) \/ Fail(w)
    <3>1. Finish(w) /\ res' = res /\ fulfilled' = fulfilled
      BY <2>1 DEF MoveShelf, Fail
    <3> QED BY <3>1, SaleInvWrite DEF SaleInv, Shapes
  <2> QED BY <1>3, <2>1, SaleInvLoad, SaleInvCreate, SaleInvSell, SaleInvCancel, SaleInvUpdate
          DEF Proceed
<1> QED BY <1>1, <1>2, <1>3, SaleInvBegin, SaleInvSweep DEF Next

(* A reservation becomes a sale once at most, whatever completes, cancels,   *)
(* edits or expires it at the same time, although a sold reservation's       *)
(* status is written without being looked at again (sales.service.ts:749).   *)
THEOREM SoldOnce == Spec => []FulfilledOnce
<1>1. SaleInv => FulfilledOnce
  <2> SUFFICES ASSUME SaleInv, NEW i \in Ids PROVE Cardinality(fulfilled[i]) <= 1
    BY DEF FulfilledOnce
  <2>1. CASE fulfilled[i] = {}
    BY <2>1, FS_EmptySet
  <2>2. CASE \E v \in Requests : fulfilled[i] = {v}
    <3>1. PICK v \in Requests : fulfilled[i] = {v}
      BY <2>2
    <3>2. Cardinality({v}) = 1
      BY FS_Singleton, Zenon
    <3> QED BY <3>1, <3>2
  <2> QED BY <2>1, <2>2 DEF SaleInv, UnsoldUntilSold
<1> QED BY <1>1, SaleInvInit, SaleInvStep, PTL DEF Spec

-----------------------------------------------------------------------------
(* What an active reservation holds, and what they hold together: over all   *)
(* of them, and without those a cart takes.                                  *)
Hold(i) == IF Active(i) THEN res[i].qty ELSE 0

Holds == [i \in Ids |-> Hold(i)]

Held == SumFunctionOnSet(Holds, Ids)

OtherHolds(c) == [i \in Ids |-> IF i \in CartIds(c) THEN 0 ELSE Hold(i)]

HeldOutside(c) == SumFunctionOnSet(OtherHolds(c), Ids)

(* A cart that neither sells an overdue reservation nor names one twice.     *)
Plain(c) == \A i \in CartIds(c) : ~res[i].due /\ c.lines[i] = 1

(* What a request was asked. *)
Asked == /\ onHand \in Int
         /\ \A w \in Requests : /\ Is(w, "checkout") => req[w].cart \in Carts
                                /\ Is(w, "shelf") => req[w].delta \in Int

(* What a request has made sure of under the lock, and still holds when it   *)
(* writes, whatever is cancelled, edited or falls due meanwhile: a creation  *)
(* finds enough stock nobody holds, a checkout enough beside the holds of    *)
(* the reservations it does not sell.                                        *)
Promised(w) ==
  /\ Is(w, "create") => Held <= onHand - req[w].qty
  /\ Is(w, "checkout") /\ Plain(req[w].cart) => HeldOutside(req[w].cart) <= onHand - Units(req[w].cart)

HoldInv == cause = {} => /\ Held <= onHand
                         /\ \A w \in Requests : pc[w] = "loaded" => Promised(w)

ResInv == SaleInv /\ Asked /\ HoldInv

-----------------------------------------------------------------------------
(* The parts of a cart. *)
LEMMA CartParts ==
  ASSUME NEW c \in Carts
  PROVE  c.lines \in [Ids -> Nat] /\ c.qty \in Nat /\ c.free \in Nat
<1>1. (\A n \in 0..MaxCartLines : n \in Nat) /\ \A q \in Qty : q \in Nat
  BY QuantitiesAssumption
<1>2. CASE c \in [lines : { f \in [Ids -> 0..MaxCartLines] : SumFunction(f) \in 1..MaxCartLines },
                  qty : Qty, free : Qty \cup {0}]
  <2>1. c.lines \in [Ids -> 0..MaxCartLines] /\ c.qty \in Qty /\ c.free \in Qty \cup {0}
    BY <1>2
  <2>2. c.lines \in [Ids -> Nat]
    BY <1>1, <2>1
  <2>3. c.qty \in Nat /\ c.free \in Nat
    BY <1>1, <2>1
  <2> QED BY <2>2, <2>3
<1>3. CASE c \in [lines : {[i \in Ids |-> 0]}, qty : {0}, free : Qty]
  <2>1. c.lines = [i \in Ids |-> 0] /\ c.qty = 0 /\ c.free \in Qty
    BY <1>3
  <2>2. c.lines \in [Ids -> Nat]
    BY <2>1
  <2>3. c.qty \in Nat /\ c.free \in Nat
    BY <1>1, <2>1
  <2> QED BY <2>2, <2>3
<1> QED BY <1>2, <1>3 DEF Carts

(* The sums are of numbers, and the holds are what is reserved. *)
HoldFacts == /\ \A i \in Ids : Hold(i) \in Nat
             /\ Held \in Int /\ Reserved = Held
             /\ \A c : HeldOutside(c) \in Int

(* Every hold is a number of units, and what is reserved is the sum of them. *)
LEMMA HoldSums == Shapes => HoldFacts
<1> SUFFICES ASSUME Shapes PROVE HoldFacts
  OBVIOUS
<1>1. \A i \in Ids : Hold(i) \in Nat
  BY DEF Shapes, Hold
<1>2. \A i \in Ids : Holds[i] \in Int
  BY <1>1 DEF Holds
<1>3. Held \in Int
  BY <1>2, SumInt, IdsAssumption DEF Held
<1>4. ASSUME NEW c
      PROVE  HeldOutside(c) \in Int
  <2>1. \A i \in Ids : OtherHolds(c)[i] \in Int
    BY <1>1 DEF OtherHolds
  <2> QED BY <2>1, SumInt, IdsAssumption DEF HeldOutside
<1> DEFINE f == [i \in Ids |-> res[i].qty]
           A == { i \in Ids : Active(i) }
<1>5. \A i \in Ids : f[i] \in Int
  BY DEF Shapes
<1>6. \A i \in Ids : Holds[i] = IF i \in A THEN f[i] ELSE 0
  BY DEF Holds, Hold
<1>7. A \in SUBSET Ids /\ Reserved = SumFunctionOnSet(f, A)
  BY DEF Reserved
<1> HIDE DEF f, A
<1>8. SumFunctionOnSet(f, A) = SumFunctionOnSet(Holds, Ids)
  BY <1>5, <1>6, <1>7, SumPart, IdsAssumption
<1> QED BY <1>1, <1>3, <1>4, <1>7, <1>8 DEF Held, HoldFacts

(* The same of the next state. *)
LEMMA HoldSumsNext == Shapes' => HoldFacts'
BY HoldSums, PTL

(* A write that makes no hold greater keeps what was promised. *)
LEMMA HoldsShrink ==
  ASSUME SaleInv, Shapes', Asked, HoldInv, cause = {}, onHand' = onHand,
         \A i \in Ids : Active(i)' => Active(i) /\ res'[i].qty <= res[i].qty,
         \A i \in Ids : res[i].due => res'[i].due,
         \A w \in Requests : pc'[w] = "loaded" => pc[w] = "loaded" /\ req'[w] = req[w]
  PROVE  HoldInv'
<1>1. \A i \in Ids : Hold(i) \in Nat /\ Hold(i)' \in Nat
  BY HoldSums, HoldSumsNext DEF SaleInv, HoldFacts
<1>2. \A i \in Ids : Hold(i)' <= Hold(i)
  <2> SUFFICES ASSUME NEW i \in Ids PROVE Hold(i)' <= Hold(i)
    OBVIOUS
  <2>1. CASE Active(i)'
    BY <2>1 DEF Hold
  <2>2. CASE ~Active(i)'
    BY <1>1, <2>2 DEF Hold
  <2> QED BY <2>1, <2>2
<1>3. Held' <= Held
  <2>1. PICK h : h = Holds'
    OBVIOUS
  <2>2. \A i \in Ids : h[i] \in Int /\ Holds[i] \in Int /\ h[i] <= Holds[i]
    BY <1>1, <1>2, <2>1 DEF Holds
  <2>3. SumFunctionOnSet(h, Ids) <= SumFunctionOnSet(Holds, Ids)
    BY <2>2, SumAtMost, IdsAssumption
  <2> QED BY <2>1, <2>3 DEF Held
<1>4. ASSUME NEW c
      PROVE  HeldOutside(c)' <= HeldOutside(c)
  <2>1. PICK h : h = OtherHolds(c)'
    OBVIOUS
  <2>2. \A i \in Ids : h[i] \in Int /\ OtherHolds(c)[i] \in Int /\ h[i] <= OtherHolds(c)[i]
    BY <1>1, <1>2, <2>1 DEF OtherHolds, CartIds
  <2>3. SumFunctionOnSet(h, Ids) <= SumFunctionOnSet(OtherHolds(c), Ids)
    BY <2>2, SumAtMost, IdsAssumption
  <2> QED BY <2>1, <2>3 DEF HeldOutside
<1>5. ASSUME NEW w \in Requests, pc'[w] = "loaded"
      PROVE  Promised(w)'
  <2>1. Promised(w) /\ req'[w] = req[w]
    BY <1>5 DEF HoldInv
  <2>2. Is(w, "create")' = Is(w, "create")
    BY <2>1 DEF Is
  <2>3. ASSUME Is(w, "create")
        PROVE  Held' <= onHand' - req'[w].qty
    <3>1. req[w].qty \in Nat /\ onHand \in Int /\ Held \in Int /\ Held' \in Int
      BY <2>3, HoldSums, HoldSumsNext DEF SaleInv, Shapes, HoldFacts, Asked
    <3>2. Held <= onHand - req[w].qty
      BY <2>1, <2>3 DEF Promised
    <3> QED BY <1>3, <2>1, <3>1, <3>2
  <2>4. ASSUME Is(w, "checkout"), Plain(req[w].cart)'
        PROVE  HeldOutside(req[w].cart)' <= onHand' - Units(req[w].cart)'
    <3>1. PICK c : c = req[w].cart
      OBVIOUS
    <3>2. Plain(c)
      BY <2>1, <2>4, <3>1 DEF Plain, CartIds
    <3>3. HeldOutside(c) <= onHand - Units(c)
      BY <2>1, <2>4, <3>1, <3>2 DEF Promised
    <3>4. HeldOutside(c)' <= HeldOutside(c)
      BY <1>4
    <3>5. HeldOutside(c)' \in Int /\ HeldOutside(c) \in Int
      BY HoldSums, HoldSumsNext DEF SaleInv, HoldFacts
    <3>6. Units(c) \in Int
      <4>1. c \in Carts
        BY <2>4, <3>1 DEF Asked
      <4>2. c.lines \in [Ids -> Nat] /\ c.qty \in Nat /\ c.free \in Nat
        BY <4>1, CartParts
      <4>3. SumFunction(c.lines) \in Int
        BY <4>2, SumInt, IdsAssumption DEF SumFunction
      <4> QED BY <4>2, <4>3 DEF Units
    <3>7. HeldOutside(c)' <= onHand' - Units(c)
      BY <3>3, <3>4, <3>5, <3>6 DEF Asked
    <3>8. req'[w].cart = c
      BY <2>1, <3>1
    <3> QED BY <3>7, <3>8 DEF Units, HeldOutside, OtherHolds, CartIds
  <2>5. Is(w, "create")' => Held' <= onHand' - req'[w].qty
    BY <2>2, <2>3
  <2>6. Is(w, "checkout")' /\ Plain(req[w].cart)' => HeldOutside(req[w].cart)' <= onHand' - Units(req[w].cart)'
    BY <2>1, <2>4 DEF Is
  <2> QED BY <2>5, <2>6 DEF Promised
<1>6. Held <= onHand /\ onHand \in Int /\ Held \in Int /\ Held' \in Int
  BY HoldSums, HoldSumsNext DEF HoldInv, SaleInv, HoldFacts, Asked
<1> QED BY <1>3, <1>5, <1>6 DEF HoldInv

-----------------------------------------------------------------------------
(* At the start the holds are backed. *)
LEMMA HoldInvInit == Init => Asked /\ HoldInv
<1> SUFFICES ASSUME Init PROVE Asked /\ HoldInv
  OBVIOUS
<1>1. Shapes
  BY SaleInvInit DEF SaleInv
<1>2. \A i \in Ids : Holds[i] = res[i].qty
  <2> SUFFICES ASSUME NEW i \in Ids PROVE Holds[i] = res[i].qty
    OBVIOUS
  <2>1. res[i] \in OpenRows \cup {AbsentRow}
    BY DEF Init
  <2>2. CASE res[i] \in OpenRows
    <3>1. res[i].status = "RESERVED" /\ ~res[i].due
      BY <2>2 DEF OpenRows
    <3> QED BY <3>1 DEF Holds, Hold, Active
  <2>3. CASE res[i] = AbsentRow
    <3>1. res[i].status = "absent" /\ res[i].qty = 0
      BY <2>3 DEF AbsentRow
    <3> QED BY <3>1 DEF Holds, Hold, Active
  <2> QED BY <2>1, <2>2, <2>3
<1>3. SumFunctionOnSet([i \in Ids |-> res[i].qty], Ids) <= Opening
  BY DEF Init, HeldBy
<1>4. Held = SumFunctionOnSet([i \in Ids |-> res[i].qty], Ids)
  <2> DEFINE f == [i \in Ids |-> res[i].qty]
  <2>1. \A i \in Ids : Holds[i] = f[i] /\ Holds[i] \in Int
    BY <1>1, <1>2 DEF Shapes
  <2> HIDE DEF f
  <2>2. SumFunctionOnSet(Holds, Ids) = SumFunctionOnSet(f, Ids)
    BY <2>1, SumSame, IdsAssumption
  <2> QED BY <2>2 DEF Held, f
<1>5. Held <= onHand
  BY <1>3, <1>4 DEF Init
<1>6. \A w \in Requests : pc[w] # "loaded" /\ ~Is(w, "checkout") /\ ~Is(w, "shelf")
  BY DEF Init, Processes, Is, NoReq
<1> QED BY <1>5, <1>6, QuantitiesAssumption DEF Init, Asked, HoldInv

(* What is asked is kept until the request ends. *)
LEMMA AskedStep ==
  ASSUME SaleInv, Asked, Next
  PROVE  Asked'
<1> USE DEF Asked, SaleInv, Shapes
<1>1. ASSUME NEW w \in Requests, NEW d, Ask(w, d),
             d.kind = "checkout" => d.cart \in Carts,
             d.kind = "shelf" => d.delta \in Int
      PROVE  Asked'
  BY <1>1 DEF Ask, Is
<1>2. ASSUME NEW w \in Requests, Begin(w)
      PROVE  Asked'
  <2>1. CASE AskCreate(w)
    BY <1>1, <2>1 DEF AskCreate, AskAndLock
  <2>2. CASE AskCheckout(w)
    BY <1>1, <2>2 DEF AskCheckout, AskAndLock
  <2>3. CASE AskShelf(w)
    <3>1. PICK q \in Qty : \E d \in {q, -q} : AskAndLock(w, [kind |-> "shelf", delta |-> d])
      BY <2>3 DEF AskShelf
    <3>2. q \in Int
      BY QuantitiesAssumption
    <3>3. PICK d \in {q, -q} : AskAndLock(w, [kind |-> "shelf", delta |-> d])
      BY <3>1
    <3>4. d \in Int
      BY <3>2
    <3> QED BY <1>1, <3>3, <3>4 DEF AskAndLock
  <2>4. CASE ReadForCancel(w)
    BY <1>1, <2>4 DEF ReadForCancel
  <2>5. CASE ReadForUpdate(w)
    BY <1>1, <2>5 DEF ReadForUpdate
  <2> QED BY <1>2, <2>1, <2>2, <2>3, <2>4, <2>5 DEF Begin
<1>3. ASSUME NEW w \in Requests, Finish(w), onHand' \in Int
      PROVE  Asked'
  BY <1>3, FinishLeaves DEF Is, NoReq
<1>4. ASSUME NEW w \in Requests, Proceed(w)
      PROVE  Asked'
  <2>1. CASE Load(w)
    BY <2>1 DEF Load, Is
  <2>2. CASE Sell(w)
    <3>1. PICK c \in Carts : c = req[w].cart
      BY <2>2 DEF Sell
    <3>2. c.lines \in [Ids -> Nat] /\ c.qty \in Nat /\ c.free \in Nat
      BY <3>1, CartParts
    <3>3. SumFunction(c.lines) \in Int
      BY <3>2, SumInt, IdsAssumption DEF SumFunction
    <3>4. Units(c) \in Int
      BY <3>2, <3>3 DEF Units
    <3>5. onHand' = onHand - Units(c) /\ Finish(w)
      BY <2>2, <3>1 DEF Sell
    <3> QED BY <1>3, <3>4, <3>5
  <2>3. CASE MoveShelf(w)
    BY <1>3, <2>3 DEF MoveShelf
  <2>4. CASE Create(w) \/ Cancel(w) \/ Update(w) \/ Fail(w)
    BY <1>3, <2>4 DEF Create, Cancel, Update, Fail
  <2> QED BY <1>4, <2>1, <2>2, <2>3, <2>4 DEF Proceed
<1>5. ASSUME req' = req, onHand' = onHand
      PROVE  Asked'
  BY <1>5 DEF Is
<1>6. ASSUME NEW i \in Ids, FallDue(i)
      PROVE  Asked'
  BY <1>5, <1>6 DEF FallDue
<1>7. CASE Sweeping
  BY <1>5, <1>7 DEF Sweeping, SweepPick, SweepLock, SweepWrite, SweepFail, SweepEnd
<1> QED BY <1>2, <1>4, <1>6, <1>7 DEF Next

(* The steps that make no hold greater: whoever begins, cancels, fails or    *)
(* sweeps, and time; an edit that does not raise its hold.                   *)
LEMMA HoldInvQuiet ==
  ASSUME ResInv, Shapes', cause = {}, cause' = {},
         \/ \E w \in Requests : Begin(w) \/ Cancel(w) \/ Update(w) \/ Fail(w)
         \/ \E i \in Ids : FallDue(i)
         \/ Sweeping
  PROVE  HoldInv'
<1> USE DEF ResInv
<1>1. ASSUME NEW w \in Requests, Begin(w)
      PROVE  HoldInv'
  <2>1. /\ onHand' = onHand /\ res' = res
        /\ pc' = [pc EXCEPT ![w] = "locked"] \/ pc' = [pc EXCEPT ![w] = "read"]
        /\ \A v \in Requests : v # w => req'[v] = req[v]
    BY <1>1 DEF Begin, AskCreate, AskCheckout, AskShelf, ReadForCancel, ReadForUpdate,
       AskAndLock, Ask, Lock, GoOn, SaleInv, Shapes
  <2>2. \A v \in Requests : pc'[v] = "loaded" => pc[v] = "loaded" /\ req'[v] = req[v]
    BY <2>1 DEF SaleInv, Shapes, Processes
  <2> QED BY <2>1, <2>2, HoldsShrink DEF Active, SaleInv, Shapes
<1>2. ASSUME NEW w \in Requests, Finish(w), onHand' = onHand,
             \A i \in Ids : Active(i)' => Active(i) /\ res'[i].qty <= res[i].qty,
             \A i \in Ids : res[i].due => res'[i].due
      PROVE  HoldInv'
  <2>1. \A v \in Requests : pc'[v] = "loaded" => pc[v] = "loaded" /\ req'[v] = req[v]
    BY <1>2, FinishLeaves
  <2> QED BY <1>2, <2>1, HoldsShrink
<1>3. ASSUME NEW w \in Requests, Cancel(w) \/ Fail(w)
      PROVE  HoldInv'
  <2>1. /\ Finish(w) /\ onHand' = onHand
        /\ \A i \in Ids : /\ res'[i].qty = res[i].qty /\ res'[i].due = res[i].due
                          /\ res'[i].status \in {res[i].status, "CANCELLED"}
    BY <1>3 DEF Cancel, Fail, SaleInv, Shapes
  <2>2. \A i \in Ids : res[i].qty \in Nat
    BY DEF SaleInv, Shapes
  <2> QED BY <1>2, <2>1, <2>2 DEF Active
<1>4. ASSUME NEW w \in Requests, Update(w)
      PROVE  HoldInv'
  <2>1. PICK j : j = req[w].id
    OBVIOUS
  <2>2. Finish(w) /\ onHand' = onHand /\ res' = [res EXCEPT ![j].qty = req[w].qty]
        /\ ~(req[w].qty > res[j].qty)
    BY <1>4, <2>1 DEF Update
  <2>3. req[w].qty \in Nat /\ \A i \in Ids : res[i].qty \in Nat
    BY <1>4 DEF Update, SaleInv, Shapes
  <2>4. \A i \in Ids : /\ res'[i].qty <= res[i].qty /\ res'[i].due = res[i].due
                       /\ res'[i].status = res[i].status
    BY <2>2, <2>3 DEF SaleInv, Shapes
  <2> QED BY <1>2, <2>2, <2>4 DEF Active
<1>5. ASSUME NEW i \in Ids, FallDue(i)
      PROVE  HoldInv'
  <2>1. /\ onHand' = onHand /\ pc' = pc /\ req' = req
        /\ \A j \in Ids : /\ res'[j].qty = res[j].qty /\ res'[j].status = res[j].status
                          /\ res[j].due => res'[j].due
    BY <1>5 DEF FallDue, SaleInv, Shapes
  <2>2. \A j \in Ids : res[j].qty \in Nat
    BY DEF SaleInv, Shapes
  <2> QED BY <2>1, <2>2, HoldsShrink DEF Active
<1>6. ASSUME Sweeping
      PROVE  HoldInv'
  <2>1. /\ onHand' = onHand /\ req' = req /\ \A v \in Requests : pc'[v] = pc[v]
        /\ \A j \in Ids : /\ res'[j].qty = res[j].qty /\ res'[j].due = res[j].due
                          /\ res'[j].status \in {res[j].status, "EXPIRED"}
    BY <1>6, ProcessesAssumption DEF Sweeping, SweepPick, SweepLock, SweepWrite, SweepFail, SweepEnd,
       Lock, SaleInv, Shapes, Processes
  <2>2. \A j \in Ids : res[j].qty \in Nat
    BY DEF SaleInv, Shapes
  <2> QED BY <2>1, <2>2, HoldsShrink DEF Active
<1> QED BY <1>1, <1>3, <1>4, <1>5, <1>6

(* Whoever loaded is alone: when it writes, nobody else has loaded. *)
LEMMA LoadedAlone ==
  ASSUME SaleInv, NEW w \in Requests, pc[w] = "loaded", Finish(w)
  PROVE  \A v \in Requests : pc'[v] # "loaded"
BY FinishLeaves DEF SaleInv, LockHeld, Processes

(* The holds of the reservations a plain cart takes are the units it sells. *)
LEMMA CartTakesItsHolds ==
  ASSUME Shapes, NEW c \in Carts, Plain(c),
         \A i \in CartIds(c) : res[i].status = "RESERVED" /\ res[i].qty = c.qty
  PROVE  Held = HeldOutside(c) + c.qty * SumFunction(c.lines)
<1> DEFINE g == [i \in Ids |-> c.qty * c.lines[i]]
<1>1. c.lines \in [Ids -> Nat] /\ c.qty \in Nat
  BY CartParts
<1>2. PICK q \in Nat, n \in [Ids -> Nat] : q = c.qty /\ n = c.lines
  BY <1>1
<1>3. \A i \in Ids : Hold(i) \in Nat
  BY HoldSums DEF HoldFacts
<1>4. \A i \in Ids : g[i] = q * n[i] /\ n[i] \in Int /\ g[i] \in Int
  <2>1. \A a, b \in Nat : a * b \in Int
    OBVIOUS
  <2>2. \A i \in Ids : n[i] \in Nat
    BY <1>2
  <2> QED BY <1>2, <2>1, <2>2
<1>5. \A i \in Ids : OtherHolds(c)[i] \in Int /\ g[i] \in Int /\ Holds[i] = OtherHolds(c)[i] + g[i]
  <2> SUFFICES ASSUME NEW i \in Ids
               PROVE  OtherHolds(c)[i] \in Int /\ Holds[i] = OtherHolds(c)[i] + g[i]
    BY <1>4
  <2>1. CASE i \in CartIds(c)
    <3>1. n[i] = 1 /\ Active(i) /\ res[i].qty = q
      BY <1>2, <2>1 DEF Plain, Active
    <3>2. g[i] = q
      BY <1>2, <1>4, <3>1
    <3> HIDE DEF g
    <3>3. Holds[i] = q /\ OtherHolds(c)[i] = 0
      BY <2>1, <3>1 DEF Holds, OtherHolds, Hold
    <3> QED BY <3>2, <3>3
  <2>2. CASE i \notin CartIds(c)
    <3>1. n[i] = 0
      BY <1>2, <2>2 DEF CartIds
    <3>2. g[i] = 0
      BY <1>2, <1>4, <3>1
    <3> HIDE DEF g
    <3>3. Holds[i] = Hold(i) /\ OtherHolds(c)[i] = Hold(i)
      BY <2>2 DEF Holds, OtherHolds
    <3> QED BY <1>3, <3>2, <3>3
  <2> QED BY <2>1, <2>2
<1> HIDE DEF g
<1>6. SumFunctionOnSet(Holds, Ids) = SumFunctionOnSet(OtherHolds(c), Ids) + SumFunctionOnSet(g, Ids)
  BY <1>5, SumPlus, IdsAssumption
<1>7. SumFunctionOnSet(g, Ids) = q * SumFunctionOnSet(n, Ids)
  BY <1>4, SumTimes, IdsAssumption
<1>8. DOMAIN n = Ids
  OBVIOUS
<1> QED BY <1>2, <1>6, <1>7, <1>8 DEF Held, HeldOutside, SumFunction

(* The units of a cart are a number. *)
LEMMA UnitsInt ==
  ASSUME NEW c \in Carts
  PROVE  /\ c.lines \in [Ids -> Nat] /\ c.qty \in Nat /\ c.free \in Nat
         /\ SumFunction(c.lines) \in Int /\ c.qty * SumFunction(c.lines) \in Int /\ Units(c) \in Int
<1>1. c.lines \in [Ids -> Nat] /\ c.qty \in Nat /\ c.free \in Nat
  BY CartParts
<1>2. SumFunction(c.lines) \in Int
  BY <1>1, SumInt, IdsAssumption DEF SumFunction
<1>3. c.qty * SumFunction(c.lines) \in Int
  BY <1>1, <1>2
<1> QED BY <1>1, <1>2, <1>3 DEF Units

(* What is promised is made sure of under the lock. *)
LEMMA HoldInvLoad ==
  ASSUME ResInv, NEW w \in Requests, Load(w), cause = {}
  PROVE  HoldInv'
<1> USE DEF ResInv
<1>1. /\ onHand' = onHand /\ res' = res /\ req' = req /\ cause' = cause
      /\ pc[w] = "locked" /\ Allowed(w) /\ pc' = [pc EXCEPT ![w] = "loaded"]
  BY DEF Load
<1>2. \A v \in Requests : pc'[v] = "loaded" => v = w
  BY <1>1 DEF SaleInv, Shapes, LockHeld, Processes
<1>3. /\ Held \in Int /\ Reserved = Held /\ onHand \in Int
      /\ \A c : HeldOutside(c) \in Int
  BY HoldSums DEF HoldFacts, SaleInv, Asked
<1>4. Held <= onHand
  BY DEF HoldInv
<1>5. ASSUME Is(w, "create")
      PROVE  Held <= onHand - req[w].qty
  <2>1. CreateAllowed(w)
    BY <1>1, <1>5 DEF Allowed, Is
  <2>2. req[w].qty \in Nat
    BY <1>5 DEF SaleInv, Shapes
  <2> QED BY <1>3, <2>1, <2>2 DEF CreateAllowed, Available
<1>6. ASSUME Is(w, "checkout"), Plain(req[w].cart)
      PROVE  HeldOutside(req[w].cart) <= onHand - Units(req[w].cart)
  <2>1. CheckoutAllowed(w)
    BY <1>1, <1>6 DEF Allowed, Is
  <2>2. PICK c \in Carts : c = req[w].cart
    BY <1>6 DEF Asked
  <2>3. c.free > 0 => Available >= c.free
    BY <2>1, <2>2 DEF CheckoutAllowed
  <2>4. \A i \in CartIds(c) : res[i].status = "RESERVED" /\ res[i].qty = c.qty
    BY <2>1, <2>2 DEF CheckoutAllowed
  <2>5. Held = HeldOutside(c) + c.qty * SumFunction(c.lines)
    BY <1>6, <2>2, <2>4, CartTakesItsHolds DEF SaleInv
  <2>6. PICK n \in Int : n = c.qty * SumFunction(c.lines)
    BY UnitsInt
  <2>7. Held <= onHand - c.free
    BY <1>3, <1>4, <2>3, UnitsInt DEF Available
  <2>8. Units(c) = c.free + n /\ c.free \in Nat
    BY <2>6, UnitsInt DEF Units
  <2>9. HeldOutside(c) \in Int /\ Held = HeldOutside(c) + n
    BY <1>3, <2>5, <2>6
  <2> QED BY <1>3, <2>2, <2>7, <2>8, <2>9
<1>7. Promised(w)'
  BY <1>1, <1>5, <1>6 DEF Promised, Is, Held, Holds, Hold, Active, HeldOutside, OtherHolds, CartIds, Plain, Units
<1>8. Held' = Held
  BY <1>1 DEF Held, Holds, Hold, Active
<1> QED BY <1>1, <1>2, <1>4, <1>7, <1>8 DEF HoldInv

(* A creation takes no more than nobody holds. *)
LEMMA HoldInvCreate ==
  ASSUME ResInv, Shapes', NEW w \in Requests, Create(w), cause = {}
  PROVE  HoldInv'
<1> USE DEF ResInv
<1>1. PICK i \in Ids : /\ res[i].status = "absent"
                       /\ res' = [res EXCEPT ![i] = [status |-> "RESERVED", qty |-> req[w].qty,
                                                     timed |-> req[w].timed, due |-> FALSE]]
  BY DEF Create
<1>2. /\ pc[w] = "loaded" /\ Is(w, "create") /\ Finish(w) /\ onHand' = onHand
      /\ req[w].qty \in Nat
  BY DEF Create, SaleInv, Shapes
<1>3. Held <= onHand - req[w].qty
  BY <1>2 DEF HoldInv, Promised
<1>4. PICK h : h = Holds'
  OBVIOUS
<1>5. Holds[i] = 0 /\ h[i] = req[w].qty
  BY <1>1, <1>4 DEF Holds, Hold, Active, SaleInv, Shapes
<1>6. \A j \in Ids \ {i} : Holds[j] = h[j]
  BY <1>1, <1>4 DEF Holds, Hold, Active, SaleInv, Shapes
<1>7. \A j \in Ids : Holds[j] \in Int /\ h[j] \in Int
  BY <1>4, HoldSums, HoldSumsNext DEF HoldFacts, Holds, SaleInv
<1>8. SumFunctionOnSet(h, Ids) = SumFunctionOnSet(Holds, Ids) + h[i] - Holds[i]
  BY <1>6, <1>7, SumChange, IdsAssumption
<1>9. Held' = Held + req[w].qty
  <2>1. Held' = Held + req[w].qty - 0 /\ Held \in Int
    BY <1>4, <1>5, <1>8, HoldSums DEF Held, HoldFacts, SaleInv
  <2> QED BY <1>2, <2>1
<1>10. Held \in Int /\ onHand \in Int
  BY HoldSums DEF HoldFacts, SaleInv, Asked
<1>11. Held' <= onHand'
  BY <1>2, <1>3, <1>9, <1>10
<1> QED BY <1>2, <1>11, LoadedAlone DEF HoldInv

(* A sale of plain lines takes its own holds off with its units. *)
LEMMA HoldInvSell ==
  ASSUME ResInv, NEW w \in Requests, Sell(w), cause = {}, cause' = {}
  PROVE  HoldInv'
<1> USE DEF ResInv
<1>1. PICK c \in Carts : c = req[w].cart
  BY DEF Sell, Asked
<1>2. /\ pc[w] = "loaded" /\ Is(w, "checkout") /\ Finish(w) /\ onHand' = onHand - Units(c)
      /\ \A i \in Ids : /\ i \in CartIds(c) => res'[i].status = "COMPLETED"
                        /\ i \notin CartIds(c) => res'[i] = res[i]
  BY <1>1 DEF Sell, SaleInv, Shapes
<1>3. /\ ~\E i \in CartIds(c) : res[i].due
      /\ ~\E i \in CartIds(c) : c.lines[i] > 1
  BY <1>1 DEF Sell
<1>4. Plain(c)
  <2>1. \A i \in CartIds(c) : c.lines[i] \in Nat /\ c.lines[i] > 0
    BY CartParts DEF CartIds
  <2> QED BY <1>3, <2>1 DEF Plain
<1>5. HeldOutside(c) <= onHand - Units(c)
  BY <1>1, <1>2, <1>4 DEF HoldInv, Promised
<1>6. Held' = HeldOutside(c)
  <2>1. \A i \in Ids : Hold(i)' = OtherHolds(c)[i]
    BY <1>2 DEF Hold, Active, OtherHolds
  <2>2. Holds' = OtherHolds(c)
    BY <2>1 DEF Holds, OtherHolds
  <2> QED BY <2>2 DEF Held, HeldOutside
<1> QED BY <1>2, <1>5, <1>6, LoadedAlone DEF HoldInv

(* Stock put back on the shelf leaves the holds backed. *)
LEMMA HoldInvMoveShelf ==
  ASSUME ResInv, NEW w \in Requests, MoveShelf(w), cause = {}, cause' = {}
  PROVE  HoldInv'
<1> USE DEF ResInv
<1>1. /\ pc[w] = "loaded" /\ Finish(w) /\ res' = res /\ onHand' = onHand + req[w].delta
      /\ ~(req[w].delta < 0) /\ req[w].delta \in Int
  BY DEF MoveShelf, Asked
<1>2. Held' = Held
  BY <1>1 DEF Held, Holds, Hold, Active
<1>3. Held \in Int /\ onHand \in Int /\ Held <= onHand
  BY HoldSums DEF HoldFacts, SaleInv, Asked, HoldInv
<1> QED BY <1>1, <1>2, <1>3, LoadedAlone DEF HoldInv

(* No step breaks the whole invariant. *)
LEMMA ResInvStep == ResInv /\ [Next]_vars => ResInv'
<1> SUFFICES ASSUME ResInv, [Next]_vars PROVE ResInv'
  OBVIOUS
<1>1. SaleInv'
  BY SaleInvStep DEF ResInv
<1>2. CASE UNCHANGED vars
  BY <1>1, <1>2 DEF vars, ResInv, Asked, HoldInv, Promised, Held, Holds, Hold, Active, HeldOutside,
     OtherHolds, CartIds, Plain, Units, Is
<1>3. CASE Next
  <2>1. Asked'
    BY <1>3, AskedStep DEF ResInv
  <2>2. HoldInv'
    <3> SUFFICES ASSUME cause' = {} PROVE HoldInv'
      BY DEF HoldInv
    <3>1. cause = {}
      BY <1>3 DEF Next, Begin, Proceed, Sweeping, AskCreate, AskCheckout, AskShelf, ReadForCancel,
         ReadForUpdate, AskAndLock, Ask, Load, Create, Sell, MoveShelf, Cancel, Update, Fail, FallDue,
         SweepPick, SweepLock, SweepWrite, SweepFail, SweepEnd
    <3>2. ASSUME NEW w \in Requests, Proceed(w)
          PROVE  HoldInv'
      BY <1>1, <3>1, <3>2, HoldInvLoad, HoldInvCreate, HoldInvSell, HoldInvMoveShelf, HoldInvQuiet
         DEF Proceed, SaleInv
    <3> QED BY <1>1, <1>3, <3>1, <3>2, HoldInvQuiet DEF Next, SaleInv
  <2> QED BY <1>1, <2>1, <2>2 DEF ResInv
<1> QED BY <1>2, <1>3

(* Reservations never hold more than is on hand, unless one of the four      *)
(* known causes has happened: in every interleaving of creates, sales,       *)
(* cancellations, edits that lower and sweeps the holds stay backed, although *)
(* cancelling and editing write without the lock (reconciliation.ts:34).     *)
THEOREM HoldsAreBacked == Spec => []HoldsBackedUnlessCaused
<1>1. ResInv => HoldsBackedUnlessCaused
  BY HoldSums DEF ResInv, SaleInv, HoldInv, HoldFacts, HoldsBackedUnlessCaused
<1>2. Init => ResInv
  BY SaleInvInit, HoldInvInit DEF ResInv
<1> QED BY <1>1, <1>2, ResInvStep, PTL DEF Spec

-----------------------------------------------------------------------------
(* Reports: the rows of a day and of its products come from one rebuild.     *)

(* The sales and their lines are finitely many. *)
LEMMA SalesFinite ==
  ASSUME ReportsAssumption
  PROVE  IsFiniteSet(Sales)
  BY FS_Interval DEF ReportsAssumption, Sales

(* What the code has checked of a sale (BasketAssumption). *)
LEMMA BasketTypes ==
  ASSUME BasketAssumption, NEW s \in Sales
  PROVE  /\ IsFiniteSet(Basket[s].lines)
         /\ Basket[s].cartDiscount \in Nat
         /\ Basket[s].hour \in Hours
         /\ Basket[s].pay \in [Methods -> Nat]
         /\ \A l \in Basket[s].lines :
              /\ l.product \in Products /\ l.quantity \in Nat \ {0}
              /\ l.total \in Nat /\ l.discount \in Nat /\ l.tax \in Nat /\ l.cost \in Nat
              /\ l.kind \in {"STANDARD", "ZERO", "EXEMPT"}
              /\ l.kind # "STANDARD" => l.tax = 0
<1>1. PICK b : b = Basket[s]
  OBVIOUS
<1>2. IsBasket(b)
  BY <1>1 DEF BasketAssumption
<1>3. ASSUME NEW l \in b.lines
      PROVE  l \in [product : Products, quantity : Nat \ {0}, total : Nat, discount : Nat,
                    tax : Nat, cost : Nat, kind : {"STANDARD", "ZERO", "EXEMPT"}]
  BY <1>2 DEF IsBasket
<1>4. ASSUME NEW l \in b.lines
      PROVE  /\ l.product \in Products /\ l.quantity \in Nat \ {0}
             /\ l.total \in Nat /\ l.discount \in Nat /\ l.tax \in Nat /\ l.cost \in Nat
             /\ l.kind \in {"STANDARD", "ZERO", "EXEMPT"}
  BY <1>3
<1> QED BY <1>1, <1>2, <1>4 DEF IsBasket

(* The sales have finitely many lines. *)
LEMMA LinesFinite ==
  ASSUME ReportsAssumption, BasketAssumption
  PROVE  IsFiniteSet(Lines)
<1> DEFINE m == [s \in Sales |-> { <<s, l>> : l \in Basket[s].lines }]
<1>2. ASSUME NEW s \in Sales
      PROVE  IsFiniteSet(m[s])
  <2> DEFINE L == Basket[s].lines
             n == [l \in L |-> <<s, l>>]
  <2>1. IsFiniteSet(L)
    BY BasketTypes
  <2>2. m[s] = ImageOf(n, L)
    BY DEF ImageOf
  <2> HIDE DEF L, n, m
  <2> QED BY <2>1, <2>2, FiniteImage
<1>3. IsFiniteSet(ImageOf(m, Sales))
  <2> HIDE DEF m
  <2> QED BY SalesFinite, FiniteImage
<1>4. Lines = UNION ImageOf(m, Sales)
  BY DEF Lines, ImageOf
<1>5. \A T \in ImageOf(m, Sales) : IsFiniteSet(T)
  BY <1>2 DEF ImageOf
<1> HIDE DEF m
<1>6. IsFiniteSet(UNION ImageOf(m, Sales))
  BY <1>3, <1>5, FS_UNION
<1> QED BY <1>4, <1>6

(* The amounts of lines. *)
LineAmounts == {"quantity", "total", "discount", "tax", "cost"}

(* A line belongs to a sale and shows a product. *)
LEMMA LineTypes ==
  ASSUME BasketAssumption, NEW x \in Lines
  PROVE  /\ x[1] \in Sales /\ x = <<x[1], x[2]>>
         /\ x[2].product \in Products /\ x[2].quantity # 0
         /\ x[2].kind \in {"STANDARD", "ZERO", "EXEMPT"}
         /\ x[2].kind # "STANDARD" => x[2].tax = 0
         /\ \A k \in LineAmounts : x[2][k] \in Nat
<1>1. PICK s \in Sales : \E l \in Basket[s].lines : x = <<s, l>>
  BY DEF Lines
<1>2. PICK l \in Basket[s].lines : x = <<s, l>>
  BY <1>1
<1>3. x[1] = s /\ x[2] = l
  BY <1>2
<1>4. /\ l.product \in Products /\ l.quantity # 0
      /\ l.kind \in {"STANDARD", "ZERO", "EXEMPT"}
      /\ l.kind # "STANDARD" => l.tax = 0
      /\ l.quantity \in Nat /\ l.total \in Nat /\ l.discount \in Nat /\ l.tax \in Nat /\ l.cost \in Nat
  BY BasketTypes
<1>5. \A k \in LineAmounts : l[k] \in Nat
  BY <1>4 DEF LineAmounts
<1> QED BY <1>2, <1>3, <1>4, <1>5

(* The same amount of every line, as one function. *)
AmountOf(k) == [x \in Lines |-> x[2][k]]

(* Sums over lines are sums of that function. *)
LEMMA LineSumIs ==
  ASSUME ReportsAssumption, BasketAssumption, NEW k \in LineAmounts, NEW T \in SUBSET Lines
  PROVE  /\ IsFiniteSet(T)
         /\ \A x \in T : AmountOf(k)[x] \in Nat
         /\ LineSum(k, T) = SumFunctionOnSet(AmountOf(k), T)
         /\ LineSum(k, T) \in Nat
<1> DEFINE f == [x \in T |-> x[2][k]]
<1>1. IsFiniteSet(T)
  BY LinesFinite, FS_Subset
<1>2. \A x \in T : AmountOf(k)[x] \in Nat /\ f[x] = AmountOf(k)[x]
  BY LineTypes DEF AmountOf
<1>3. LineSum(k, T) = SumFunctionOnSet(f, T)
  BY DEF LineSum, SumFunction
<1> HIDE DEF f
<1>4. SumFunctionOnSet(f, T) = SumFunctionOnSet(AmountOf(k), T)
  BY <1>1, <1>2, SumSame
<1>5. SumFunctionOnSet(AmountOf(k), T) \in Nat
  BY <1>1, <1>2, SumNat
<1> QED BY <1>1, <1>2, <1>3, <1>4, <1>5

(* Adding up sale by sale. *)
LEMMA TotalBySale ==
  ASSUME ReportsAssumption, BasketAssumption, NEW S \in SUBSET Sales, NEW k \in LineAmounts, NEW g,
         \A s \in S : g[s] = LineSum(k, LinesIn({s}))
  PROVE  SumFunctionOnSet(g, S) = LineSum(k, LinesIn(S))
<1> DEFINE T == LinesIn(S)
           key == [x \in T |-> x[1]]
<1>1. T \in SUBSET Lines
  BY DEF LinesIn
<1>2. key \in [T -> S]
  BY DEF LinesIn
<1>3. ASSUME NEW s \in S
      PROVE  g[s] = SumFunctionOnSet(AmountOf(k), GroupOf(T, key, s))
  <2>1. GroupOf(T, key, s) = LinesIn({s})
    BY DEF GroupOf, LinesIn
  <2>2. LinesIn({s}) \in SUBSET Lines
    BY DEF LinesIn
  <2>3. LineSum(k, LinesIn({s})) = SumFunctionOnSet(AmountOf(k), LinesIn({s}))
    BY <2>2, LineSumIs
  <2> QED BY <2>1, <2>3
<1>4. IsFiniteSet(S)
  BY SalesFinite, FS_Subset
<1> HIDE DEF T, key
<1>5. /\ IsFiniteSet(T) /\ LineSum(k, T) = SumFunctionOnSet(AmountOf(k), T)
      /\ \A x \in T : AmountOf(k)[x] \in Int
  BY <1>1, LineSumIs
<1>6. PICK f : f = AmountOf(k)
  OBVIOUS
<1>7. /\ \A x \in T : f[x] \in Int
      /\ \A s \in S : g[s] = SumFunctionOnSet(f, GroupOf(T, key, s))
  BY <1>3, <1>5, <1>6
<1>8. SumFunctionOnSet(g, S) = SumFunctionOnSet(f, T)
  BY <1>2, <1>4, <1>5, <1>7, SumByGroup
<1> QED BY <1>5, <1>6, <1>8 DEF T

(* What sales come to. *)
LEMMA SaleAmounts ==
  ASSUME ReportsAssumption, BasketAssumption, NEW s \in Sales
  PROVE  /\ SubtotalOf[s] = LineSum("total", LinesIn({s})) /\ SubtotalOf[s] \in Nat
         /\ CostOf[s] = LineSum("cost", LinesIn({s})) /\ CostOf[s] \in Nat
         /\ TaxOf[s] = LineSum("tax", LinesIn({s})) /\ TaxOf[s] \in Nat
         /\ DiscountOf[s] \in Nat
         /\ GrandOf[s] \in Int
<1>1. LinesIn({s}) \in SUBSET Lines
  BY DEF LinesIn
<1>2. \A k \in LineAmounts : LineSum(k, LinesIn({s})) \in Nat
  BY <1>1, LineSumIs
<1>3. Basket[s].cartDiscount \in Nat
  BY BasketTypes
<1>4. /\ LineSum("total", LinesIn({s})) \in Nat /\ LineSum("cost", LinesIn({s})) \in Nat
      /\ LineSum("tax", LinesIn({s})) \in Nat /\ LineSum("discount", LinesIn({s})) \in Nat
  BY <1>2 DEF LineAmounts
<1> QED BY <1>3, <1>4 DEF SubtotalOf, CostOf, TaxOf, DiscountOf, GrandOf

(* The products that some sales show. *)
ProductsSold(S) == { p \in Products : LinesOf(S, p) # {} }

(* Adding up product by product comes to the same as adding up all lines. *)
LEMMA TotalByProduct ==
  ASSUME ReportsAssumption, BasketAssumption, NEW S \in SUBSET Sales, NEW k \in LineAmounts, NEW g,
         \A p \in ProductsSold(S) : g[p] = LineSum(k, LinesOf(S, p))
  PROVE  SumFunctionOnSet(g, ProductsSold(S)) = LineSum(k, LinesIn(S))
<1> DEFINE T == LinesIn(S)
           P == ProductsSold(S)
           key == [x \in T |-> x[2].product]
<1>1. T \in SUBSET Lines
  BY DEF LinesIn
<1>2. key \in [T -> P]
  <2>1. ASSUME NEW x \in T
        PROVE  x[2].product \in P
    <3>1. x[2].product \in Products /\ x \in LinesOf(S, x[2].product)
      BY <1>1, LineTypes DEF LinesOf
    <3> QED BY <3>1 DEF ProductsSold
  <2> QED BY <2>1
<1>3. ASSUME NEW p \in P
      PROVE  g[p] = SumFunctionOnSet(AmountOf(k), GroupOf(T, key, p))
  <2>1. GroupOf(T, key, p) = LinesOf(S, p)
    BY DEF GroupOf, LinesOf
  <2>2. LinesOf(S, p) \in SUBSET Lines
    BY DEF LinesOf, LinesIn
  <2>3. LineSum(k, LinesOf(S, p)) = SumFunctionOnSet(AmountOf(k), LinesOf(S, p))
    BY <2>2, LineSumIs
  <2> QED BY <2>1, <2>3
<1>4. IsFiniteSet(P)
  BY FS_Subset DEF ReportsAssumption, ProductsSold
<1> HIDE DEF T, P, key
<1>5. /\ IsFiniteSet(T) /\ LineSum(k, T) = SumFunctionOnSet(AmountOf(k), T)
      /\ \A x \in T : AmountOf(k)[x] \in Int
  BY <1>1, LineSumIs
<1>6. PICK f : f = AmountOf(k)
  OBVIOUS
<1>7. /\ \A x \in T : f[x] \in Int
      /\ \A p \in P : g[p] = SumFunctionOnSet(f, GroupOf(T, key, p))
  BY <1>3, <1>5, <1>6
<1>8. SumFunctionOnSet(g, P) = SumFunctionOnSet(f, T)
  BY <1>2, <1>4, <1>5, <1>7, SumByGroup
<1> QED BY <1>5, <1>6, <1>8 DEF T, P

(* What a row says of subtotal and cost is what the products' rows add up to. *)
RowsFit(products) ==
  /\ IsFiniteSet(products)
  /\ \A x \in products : /\ x.revenue \in Nat /\ x.cost \in Nat /\ x.quantity \in Nat \ {0}
                         /\ x.product \in Products

RowsTell(row, products) ==
  /\ RowsFit(products)
  /\ row.byHour \in [Hours -> Int]
  /\ row.subtotal = SumFunctionOnSet([x \in products |-> x.revenue], products)
  /\ row.cost = SumFunctionOnSet([x \in products |-> x.cost], products)

(* The fields of the row a rebuild computes. *)
RowFields == {"saleCount", "voidCount", "returnCount", "subtotal", "discount", "tax", "grand",
              "cost", "payments", "byHour"}

StandingOf(d) == { s \in OfDay(d) : Standing(s) }

(* The row of a day shows the subtotal and the cost of its standing sales. *)
LEMMA RowSubtotal ==
  ASSUME NEW d
  PROVE  /\ DOMAIN RowOf(OfDay(d)) = RowFields
         /\ RowOf(OfDay(d)).subtotal = SumFunctionOnSet(SubtotalOf, StandingOf(d))
         /\ RowOf(OfDay(d)).cost = SumFunctionOnSet(CostOf, StandingOf(d))
         /\ RowOf(OfDay(d)).byHour = [h \in Hours |->
              SumFunctionOnSet(GrandOf, { s \in StandingOf(d) : Basket[s].hour = h })]
  BY DEF RowOf, RowFields, StandingOf

(* A rebuild writes a row of each product that its standing sales show. *)
LEMMA ProductRowsOfDay ==
  ASSUME NEW d
  PROVE  ProductRows(d) = { ProductRow(StandingOf(d), p) : p \in ProductsSold(StandingOf(d)) }
  BY DEF ProductRows, StandingOf, ProductsSold

(* The row of a product holds the amounts of its lines; what it sold is more *)
(* than nothing.                                                             *)
LEMMA ProductRowFields ==
  ASSUME ReportsAssumption, BasketAssumption, NEW S \in SUBSET Sales, NEW p \in ProductsSold(S)
  PROVE  /\ ProductRow(S, p).product = p
         /\ ProductRow(S, p).revenue = LineSum("total", LinesOf(S, p))
         /\ ProductRow(S, p).cost = LineSum("cost", LinesOf(S, p))
         /\ ProductRow(S, p).revenue \in Nat /\ ProductRow(S, p).cost \in Nat
         /\ ProductRow(S, p).quantity \in Nat \ {0}
<1>1. PICK L : L = LinesOf(S, p)
  OBVIOUS
<1>2. L \in SUBSET Lines
  BY <1>1 DEF LinesOf, LinesIn
<1>3. "total" \in LineAmounts /\ "cost" \in LineAmounts /\ "quantity" \in LineAmounts
  BY DEF LineAmounts
<1>4. LineSum("total", L) \in Nat /\ LineSum("cost", L) \in Nat /\ LineSum("quantity", L) \in Nat
  BY <1>2, <1>3, LineSumIs
<1>5. LineSum("quantity", L) # 0
  <2>1. PICK x : x \in L
    BY <1>1 DEF ProductsSold
  <2>2. PICK f : f = AmountOf("quantity")
    OBVIOUS
  <2>3. /\ IsFiniteSet(L) /\ \A y \in L : f[y] \in Nat
        /\ LineSum("quantity", L) = SumFunctionOnSet(f, L)
    BY <1>2, <1>3, <2>2, LineSumIs
  <2>4. f[x] # 0
    <3>1. x \in Lines
      BY <1>2, <2>1
    <3>2. f[x] = x[2].quantity /\ x[2].quantity # 0
      BY <2>2, <3>1, LineTypes DEF AmountOf
    <3> QED BY <3>2
  <2>5. SumFunctionOnSet(f, {x}) = f[x]
    <3>1. f[x] \in Int
      BY <2>1, <2>3
    <3> QED BY <3>1, SumOne
  <2>6. SumFunctionOnSet(f, {x}) <= SumFunctionOnSet(f, L)
    BY <2>1, <2>3, SumOfMore
  <2> QED BY <2>1, <2>3, <2>4, <2>5, <2>6
<1> QED BY <1>1, <1>4, <1>5 DEF ProductRow

(* The rows of the products sold add up to the totals of the same lines. *)
LEMMA ProductsTotal ==
  ASSUME ReportsAssumption, BasketAssumption, NEW S \in SUBSET Sales, NEW rows,
         rows = { ProductRow(S, p) : p \in ProductsSold(S) }
  PROVE  /\ IsFiniteSet(rows)
         /\ \A x \in rows : /\ x.revenue \in Nat /\ x.cost \in Nat /\ x.quantity \in Nat \ {0}
                            /\ x.product \in Products
         /\ SumFunctionOnSet([x \in rows |-> x.revenue], rows) = LineSum("total", LinesIn(S))
         /\ SumFunctionOnSet([x \in rows |-> x.cost], rows) = LineSum("cost", LinesIn(S))
<1> DEFINE P == ProductsSold(S)
           m == [p \in P |-> ProductRow(S, p)]
           g == [p \in P |-> ProductRow(S, p).revenue]
           h == [p \in P |-> ProductRow(S, p).cost]
           f == [x \in rows |-> x.revenue]
           e == [x \in rows |-> x.cost]
<1>1. IsFiniteSet(P)
  BY FS_Subset DEF ReportsAssumption, ProductsSold
<1>2. \A x, y \in P : m[x] = m[y] => x = y
  <2>1. ASSUME NEW x \in P, NEW y \in P, m[x] = m[y]
        PROVE  x = y
    <3>1. ProductRow(S, x) = ProductRow(S, y)
      BY <2>1
    <3>2. ProductRow(S, x).product = x /\ ProductRow(S, y).product = y
      BY ProductRowFields, Zenon
    <3> QED BY <3>1, <3>2, Zenon
  <2> QED BY <2>1
<1>3. rows = ImageOf(m, P)
  BY DEF ImageOf
<1>4. ASSUME NEW p \in P
      PROVE  /\ m[p] \in rows /\ f[m[p]] = g[p] /\ e[m[p]] = h[p]
             /\ g[p] \in Nat /\ h[p] \in Nat
             /\ m[p].revenue = g[p] /\ m[p].cost = h[p] /\ m[p].quantity \in Nat \ {0}
             /\ m[p].product \in Products
  <2>1. /\ ProductRow(S, p).revenue \in Nat /\ ProductRow(S, p).cost \in Nat
        /\ ProductRow(S, p).quantity \in Nat \ {0} /\ ProductRow(S, p).product \in Products
    BY ProductRowFields DEF ProductsSold
  <2>2. ProductRow(S, p) \in rows
    OBVIOUS
  <2> QED BY <2>1, <2>2
<1>5. /\ \A p \in P : g[p] = LineSum("total", LinesOf(S, p))
      /\ \A p \in P : h[p] = LineSum("cost", LinesOf(S, p))
  BY ProductRowFields
<1>6. "total" \in LineAmounts /\ "cost" \in LineAmounts
  BY DEF LineAmounts
<1> HIDE DEF m, g, h, f, e
<1>7. /\ SumFunctionOnSet(g, P) = LineSum("total", LinesIn(S))
      /\ SumFunctionOnSet(h, P) = LineSum("cost", LinesIn(S))
  BY <1>5, <1>6, TotalByProduct
<1> HIDE DEF P
<1>8. IsFiniteSet(rows)
  BY <1>1, <1>3, FiniteImage
<1>9. SumFunctionOnSet(f, ImageOf(m, P)) = SumFunctionOnSet(g, P)
  <2>1. \A p \in P : g[p] \in Int /\ f[m[p]] = g[p]
    BY <1>4
  <2> QED BY <1>1, <1>2, <2>1, SumRenamed
<1>10. SumFunctionOnSet(e, ImageOf(m, P)) = SumFunctionOnSet(h, P)
  <2>1. \A p \in P : h[p] \in Int /\ e[m[p]] = h[p]
    BY <1>4
  <2> QED BY <1>1, <1>2, <2>1, SumRenamed
<1>11. ASSUME NEW x \in rows
       PROVE  x.revenue \in Nat /\ x.cost \in Nat /\ x.quantity \in Nat \ {0} /\ x.product \in Products
  <2>1. PICK p \in P : x = m[p]
    BY <1>3 DEF ImageOf
  <2>2. /\ m[p].revenue \in Nat /\ m[p].cost \in Nat /\ m[p].quantity \in Nat \ {0}
        /\ m[p].product \in Products
    BY <1>4
  <2> QED BY <2>1, <2>2
<1> QED BY <1>3, <1>7, <1>8, <1>9, <1>10, <1>11, Zenon DEF f, e

(* So the rows a rebuild computes from one read of a day's sales agree. *)
LEMMA RebuildAgrees ==
  ASSUME ReportsAssumption, BasketAssumption, NEW d
  PROVE  /\ DOMAIN RowOf(OfDay(d)) = RowFields
         /\ RowsTell(RowOf(OfDay(d)), ProductRows(d))
<1>1. PICK S : S = StandingOf(d)
  OBVIOUS
<1>2. S \in SUBSET Sales
  BY <1>1 DEF StandingOf, OfDay, Rung
<1>3. PICK rows : rows = ProductRows(d)
  OBVIOUS
<1>4. rows = { ProductRow(S, p) : p \in ProductsSold(S) }
  BY <1>1, <1>3, ProductRowsOfDay, Zenon
<1>5. PICK row : row = RowOf(OfDay(d))
  OBVIOUS
<1>6. /\ DOMAIN row = RowFields
      /\ row.subtotal = SumFunctionOnSet(SubtotalOf, S) /\ row.cost = SumFunctionOnSet(CostOf, S)
  BY <1>1, <1>5, RowSubtotal, Zenon
<1>7. /\ IsFiniteSet(rows)
      /\ \A x \in rows : /\ x.revenue \in Nat /\ x.cost \in Nat /\ x.quantity \in Nat \ {0}
                         /\ x.product \in Products
      /\ SumFunctionOnSet([x \in rows |-> x.revenue], rows) = LineSum("total", LinesIn(S))
      /\ SumFunctionOnSet([x \in rows |-> x.cost], rows) = LineSum("cost", LinesIn(S))
  BY <1>2, <1>4, ProductsTotal, Zenon
<1>8. /\ SumFunctionOnSet(SubtotalOf, S) = LineSum("total", LinesIn(S))
      /\ SumFunctionOnSet(CostOf, S) = LineSum("cost", LinesIn(S))
  <2>1. "total" \in LineAmounts /\ "cost" \in LineAmounts
    BY DEF LineAmounts
  <2>2. \A s \in S : SubtotalOf[s] = LineSum("total", LinesIn({s})) /\ CostOf[s] = LineSum("cost", LinesIn({s}))
    BY <1>2, SaleAmounts
  <2>3. PICK f, e : f = SubtotalOf /\ e = CostOf
    OBVIOUS
  <2>4. /\ \A s \in S : f[s] = LineSum("total", LinesIn({s}))
        /\ \A s \in S : e[s] = LineSum("cost", LinesIn({s}))
    BY <2>2, <2>3
  <2>5. SumFunctionOnSet(f, S) = LineSum("total", LinesIn(S))
    BY <1>2, <2>1, <2>4, TotalBySale
  <2>6. SumFunctionOnSet(e, S) = LineSum("cost", LinesIn(S))
    BY <1>2, <2>1, <2>4, TotalBySale
  <2> QED BY <2>3, <2>5, <2>6
<1>9. row.byHour \in [Hours -> Int]
  <2>1. row.byHour = [h \in Hours |-> SumFunctionOnSet(GrandOf, { s \in S : Basket[s].hour = h })]
    BY <1>1, <1>5, RowSubtotal
  <2>2. ASSUME NEW h \in Hours
        PROVE  SumFunctionOnSet(GrandOf, { s \in S : Basket[s].hour = h }) \in Int
    <3>1. PICK T, f : T = { s \in S : Basket[s].hour = h } /\ f = GrandOf
      OBVIOUS
    <3>2. T \in SUBSET Sales
      BY <1>2, <3>1
    <3>3. IsFiniteSet(T) /\ \A s \in T : f[s] \in Int
      BY <3>1, <3>2, SalesFinite, SaleAmounts, FS_Subset
    <3> QED BY <3>1, <3>3, SumInt
  <2> QED BY <2>1, <2>2
<1>10. RowsTell(row, rows)
  BY <1>6, <1>7, <1>8, <1>9, Zenon DEF RowsTell, RowsFit
<1> QED BY <1>3, <1>5, <1>6, <1>10, Zenon

-----------------------------------------------------------------------------
(* What a rebuild has read of a day, and what the tables hold, agrees. *)
JobFields == {"pc", "days", "row", "products", "missed"}

Reading(b) == b.pc \in {"read", "ready", "writing"}

JobTells(b) ==
  /\ DOMAIN b = JobFields
  /\ Reading(b) => DOMAIN b.row = RowFields /\ RowsTell(b.row, b.products)

RebuildInv ==
  /\ DOMAIN job = Jobs /\ DOMAIN summary = Days /\ DOMAIN productSales = Days
  /\ \A j \in Jobs : JobTells(job[j])
  /\ \A d \in Days : RowsFit(productSales[d])
  /\ \A d \in Days : summary[d] # NoRow => RowsTell(summary[d], productSales[d])

(* A job that waits has read nothing yet. *)
LEMMA WaitingTells ==
  ASSUME NEW days
  PROVE  JobTells(Idle) /\ JobTells([Idle EXCEPT !.pc = "next", !.days = days])
  BY DEF JobTells, Idle, JobFields, Reading

(* Noting that a job missed a change does not change what it has read. *)
LEMMA MissedTells ==
  ASSUME NEW b, JobTells(b)
  PROVE  JobTells([b EXCEPT !.missed = TRUE])
  BY DEF JobTells, JobFields, Reading

(* At the start there are no rows. *)
LEMMA RebuildInit == ReportsInit => RebuildInv
<1> SUFFICES ASSUME ReportsInit PROVE RebuildInv
  OBVIOUS
<1>1. JobTells(Idle)
  BY WaitingTells
<1>2. RowsFit({})
  BY FS_EmptySet DEF RowsFit
<1> QED BY <1>1, <1>2 DEF ReportsInit, RebuildInv

(* The shop changes no row and nothing a rebuild has read. *)
LEMMA ShopTells ==
  ASSUME RebuildInv, NEW ds, Touch(ds), UNCHANGED <<summary, productSales>>
  PROVE  RebuildInv'
<1>1. ASSUME NEW j \in Jobs
      PROVE  JobTells(job'[j])
  <2>1. PICK b : b = job[j]
    OBVIOUS
  <2>2. JobTells(b) /\ JobTells([b EXCEPT !.missed = TRUE])
    BY <2>1, MissedTells DEF RebuildInv
  <2>3. job'[j] = b \/ job'[j] = [b EXCEPT !.missed = TRUE]
    BY <2>1 DEF Touch
  <2> QED BY <2>2, <2>3
<1>2. DOMAIN job' = Jobs
  BY DEF Touch
<1> QED BY <1>1, <1>2 DEF RebuildInv

(* So does every step of a rebuild: it writes the rows of one read together *)
(* (summary-rebuild.service.ts:113-161).                                    *)
LEMMA RebuildStep ==
  ASSUME ReportsAssumption, BasketAssumption, RebuildInv, [ReportsNext]_reportsVars
  PROVE  RebuildInv'
<1>1. ASSUME NEW s \in Sales, Ring(s)
      PROVE  RebuildInv'
  BY <1>1, ShopTells DEF Ring, tables
<1>2. ASSUME NEW s \in Sales, VoidSale(s)
      PROVE  RebuildInv'
  BY <1>2, ShopTells DEF VoidSale, tables
<1>3. ASSUME NEW s \in Sales, NEW k \in ReturnKinds, ReturnSale(s, k)
      PROVE  RebuildInv'
  BY <1>3, ShopTells DEF ReturnSale, tables
<1>4. CASE NextDay
  BY <1>4 DEF NextDay, tables, RebuildInv
<1>5. ASSUME NEW j \in Jobs, NEW days, StartJob(j, days), UNCHANGED <<summary, productSales>>
      PROVE  RebuildInv'
  <2>1. job' = [job EXCEPT ![j] = [Idle EXCEPT !.pc = "next", !.days = days]]
    BY <1>5 DEF StartJob
  <2>2. PICK b : b = [Idle EXCEPT !.pc = "next", !.days = days]
    OBVIOUS
  <2>3. JobTells(b)
    BY <2>2, WaitingTells
  <2>4. DOMAIN job' = Jobs /\ \A i \in Jobs : job'[i] = b \/ job'[i] = job[i]
    BY <2>1, <2>2 DEF RebuildInv
  <2> QED BY <1>5, <2>3, <2>4 DEF RebuildInv
<1>6. CASE Nightly
  <2>1. "cron" \in Jobs
    BY DEF Jobs
  <2> QED BY <1>5, <1>6, <2>1 DEF Nightly, tables
<1>7. ASSUME NEW r \in ByHand, RebuildRange(r[1], r[2])
      PROVE  RebuildInv'
  <2>1. "manual" \in Jobs
    BY DEF Jobs
  <2>2. PICK days : StartJob("manual", days)
    BY <1>7 DEF RebuildRange
  <2> QED BY <1>5, <1>7, <2>1, <2>2 DEF RebuildRange, tables
<1>8. ASSUME NEW j \in Jobs, ReadSales(j)
      PROVE  RebuildInv'
  <2>1. PICK row, rows : row = RowOf(OfDay(DayOf(j))) /\ rows = ProductRows(DayOf(j))
    OBVIOUS
  <2>2. DOMAIN row = RowFields /\ RowsTell(row, rows)
    BY <2>1, RebuildAgrees
  <2>3. /\ job' = [job EXCEPT ![j] = [@ EXCEPT !.pc = "read", !.missed = FALSE, !.row = row, !.products = rows]]
        /\ UNCHANGED <<summary, productSales>>
    BY <1>8, <2>1 DEF ReadSales, tables
  <2>4. PICK b : b = [job[j] EXCEPT !.pc = "read", !.missed = FALSE, !.row = row, !.products = rows]
    OBVIOUS
  <2>5. DOMAIN job[j] = JobFields
    BY DEF RebuildInv, JobTells
  <2>6. DOMAIN b = JobFields /\ b.row = row /\ b.products = rows
    BY <2>4, <2>5 DEF JobFields
  <2>7. JobTells(b)
    BY <2>2, <2>6 DEF JobTells
  <2>8. DOMAIN job' = Jobs /\ \A i \in Jobs : job'[i] = b \/ job'[i] = job[i]
    BY <2>3, <2>4 DEF RebuildInv
  <2> QED BY <2>3, <2>7, <2>8 DEF RebuildInv
<1>9. ASSUME NEW j \in Jobs, ReadNotes(j)
      PROVE  RebuildInv'
  <2>1. PICK count : /\ job' = [job EXCEPT ![j].pc = "ready", ![j].row.returnCount = count]
                     /\ UNCHANGED <<summary, productSales>>
    <3>1. job' = [job EXCEPT ![j].pc = "ready",
                             ![j].row.returnCount = IF Cardinality(NotesOfDay(DayOf(j))) > 0
                                 THEN Cardinality(NotesOfDay(DayOf(j))) ELSE job[j].row.returnCount]
      BY <1>9 DEF ReadNotes
    <3> QED BY <1>9, <3>1 DEF ReadNotes, tables
  <2>2. PICK a : a = job[j]
    OBVIOUS
  <2>3. JobTells(a) /\ a.pc = "read"
    BY <1>9, <2>2 DEF RebuildInv, ReadNotes
  <2>4. PICK b : b = [a EXCEPT !.pc = "ready", !.row.returnCount = count]
    OBVIOUS
  <2>5. /\ DOMAIN a = JobFields /\ DOMAIN a.row = RowFields /\ RowsTell(a.row, a.products)
    BY <2>3 DEF JobTells, Reading
  <2>6. /\ DOMAIN b = JobFields /\ b.products = a.products
        /\ b.row = [a.row EXCEPT !.returnCount = count]
    BY <2>4, <2>5 DEF JobFields
  <2>7. /\ DOMAIN b.row = RowFields /\ b.row.subtotal = a.row.subtotal /\ b.row.cost = a.row.cost
        /\ b.row.byHour = a.row.byHour
    BY <2>5, <2>6 DEF RowFields
  <2>8. JobTells(b)
    BY <2>5, <2>6, <2>7 DEF JobTells, RowsTell
  <2>9. DOMAIN job' = Jobs /\ \A i \in Jobs : job'[i] = b \/ job'[i] = job[i]
    BY <2>1, <2>2, <2>4 DEF RebuildInv
  <2> QED BY <2>1, <2>8, <2>9 DEF RebuildInv
<1>10. ASSUME NEW j \in Jobs, UpsertRow(j)
       PROVE  RebuildInv'
  <2>1. job' = [job EXCEPT ![j].pc = "writing"] /\ UNCHANGED <<summary, productSales>>
    BY <1>10 DEF UpsertRow
  <2>2. PICK a : a = job[j]
    OBVIOUS
  <2>3. JobTells(a) /\ a.pc = "ready"
    BY <1>10, <2>2 DEF RebuildInv, UpsertRow
  <2>4. PICK b : b = [a EXCEPT !.pc = "writing"]
    OBVIOUS
  <2>5. JobTells(b)
    BY <2>3, <2>4 DEF JobTells, Reading, JobFields
  <2>6. DOMAIN job' = Jobs /\ \A i \in Jobs : job'[i] = b \/ job'[i] = job[i]
    BY <2>1, <2>2, <2>4 DEF RebuildInv
  <2> QED BY <2>1, <2>5, <2>6 DEF RebuildInv
<1>11. ASSUME NEW j \in Jobs, CommitDay(j)
       PROVE  RebuildInv'
  <2>1. PICK d, row, rows : d = DayOf(j) /\ row = job[j].row /\ rows = job[j].products
    OBVIOUS
  <2>2. /\ summary' = [summary EXCEPT ![d] = row]
        /\ productSales' = [productSales EXCEPT ![d] = rows]
    BY <1>11, <2>1 DEF CommitDay
  <2>3. RowsTell(row, rows)
    BY <1>11, <2>1 DEF CommitDay, RebuildInv, JobTells, Reading
  <2>4. PICK b : job' = [job EXCEPT ![j] = b] /\ JobTells(b)
    <3>1. \/ job' = [job EXCEPT ![j] = Idle]
          \/ job' = [job EXCEPT ![j] = [Idle EXCEPT !.pc = "next", !.days = Tail(job[j].days)]]
      BY <1>11 DEF CommitDay
    <3> QED BY <3>1, WaitingTells
  <2>5. DOMAIN job' = Jobs /\ \A i \in Jobs : job'[i] = b \/ job'[i] = job[i]
    BY <2>4 DEF RebuildInv
  <2>6. /\ \A e \in Days : RowsFit(productSales'[e])
        /\ \A e \in Days : summary'[e] # NoRow => RowsTell(summary'[e], productSales'[e])
    BY <2>2, <2>3 DEF RebuildInv, RowsTell
  <2>7. DOMAIN summary' = Days /\ DOMAIN productSales' = Days
    BY <2>2 DEF RebuildInv
  <2> QED BY <2>4, <2>5, <2>6, <2>7 DEF RebuildInv
<1>12. ASSUME NEW j \in Jobs, FailJob(j)
       PROVE  RebuildInv'
  <2>1. job' = [job EXCEPT ![j] = Idle] /\ UNCHANGED <<summary, productSales>>
    BY <1>12 DEF FailJob
  <2>2. DOMAIN job' = Jobs /\ \A i \in Jobs : job'[i] = Idle \/ job'[i] = job[i]
    BY <2>1 DEF RebuildInv
  <2> QED BY <2>1, <2>2, WaitingTells DEF RebuildInv
<1>13. CASE UNCHANGED reportsVars
  BY <1>13 DEF reportsVars, RebuildInv
<1> QED BY <1>1, <1>2, <1>3, <1>4, <1>6, <1>7, <1>8, <1>9, <1>10, <1>11, <1>12, <1>13 DEF ReportsNext, JobStep

(* What the tables agree on, as TablesAgree states it. *)
LEMMA AgreedRows ==
  ASSUME RebuildInv
  PROVE  TablesAgree
<1> SUFFICES ASSUME NEW d \in Days, summary[d] # NoRow
             PROVE  LET r == [from |-> d, to |-> d] IN
                    /\ summary[d].subtotal = LineSum("revenue", RowsWithin(r))
                    /\ summary[d].cost = LineSum("cost", RowsWithin(r))
  BY DEF TablesAgree
<1> DEFINE rows == productSales[d]
           m == [x \in rows |-> <<d, x>>]
           g == [x \in rows |-> x.revenue]
           h == [x \in rows |-> x.cost]
           W == ImageOf(m, rows)
           f == [x \in W |-> x[2]["revenue"]]
           e == [x \in W |-> x[2]["cost"]]
<1>1. RowsTell(summary[d], rows)
  BY DEF RebuildInv
<1>2. RowsWithin([from |-> d, to |-> d]) = W
  <2>1. Within([from |-> d, to |-> d]) = {d}
    BY DEF Within, Days
  <2>2. RowsWithin([from |-> d, to |-> d]) = UNION { { <<c, x>> : x \in productSales[c] } : c \in {d} }
    BY <2>1, Zenon DEF RowsWithin
  <2>3. UNION { { <<c, x>> : x \in productSales[c] } : c \in {d} } = { <<d, x>> : x \in rows }
    OBVIOUS
  <2>4. { <<d, x>> : x \in rows } = W
    BY DEF ImageOf
  <2> QED BY <2>2, <2>3, <2>4, Zenon
<1>3. /\ \A x, y \in rows : m[x] = m[y] => x = y
      /\ \A x \in rows : f[m[x]] = g[x] /\ e[m[x]] = h[x]
  BY DEF ImageOf
<1>4. /\ IsFiniteSet(rows) /\ \A x \in rows : g[x] \in Int /\ h[x] \in Int
      /\ summary[d].subtotal = SumFunctionOnSet(g, rows)
      /\ summary[d].cost = SumFunctionOnSet(h, rows)
  BY <1>1 DEF RowsTell, RowsFit
<1> HIDE DEF m, g, h
<1>5. IsFiniteSet(W)
  BY <1>4, FiniteImage
<1>6. /\ LineSum("revenue", W) = SumFunctionOnSet(f, W)
      /\ LineSum("cost", W) = SumFunctionOnSet(e, W)
  <2> HIDE DEF W
  <2> QED BY DEF LineSum, SumFunction
<1> HIDE DEF f, e, rows
<1>7. SumFunctionOnSet(f, W) = SumFunctionOnSet(g, rows)
  <2>1. \A x \in rows : g[x] \in Int /\ f[m[x]] = g[x]
    BY <1>3, <1>4
  <2> QED BY <1>3, <1>4, <2>1, SumRenamed
<1>8. SumFunctionOnSet(e, W) = SumFunctionOnSet(h, rows)
  <2>1. \A x \in rows : h[x] \in Int /\ e[m[x]] = h[x]
    BY <1>3, <1>4
  <2> QED BY <1>3, <1>4, <2>1, SumRenamed
<1> HIDE DEF W
<1> QED BY <1>2, <1>4, <1>6, <1>7, <1>8, Zenon

(* RebuildInv is an invariant of Reports. *)
THEOREM RebuildsHold == ReportsSpec => []RebuildInv
<1>1. ReportsInit => RebuildInv
  BY RebuildInit
<1>2. RebuildInv /\ [ReportsNext]_reportsVars => RebuildInv'
  BY RebuildStep, ReportsAssumption, BasketAssumption
<1> QED BY <1>1, <1>2, PTL DEF ReportsSpec

(* A day's row and the rows of its products come from one rebuild, whatever *)
(* the nightly job and rebuilds by hand do at once (Reports.TablesAgree,    *)
(* summary-rebuild.service.ts:113-161).                                     *)
THEOREM TablesComeFromOneRebuild == ReportsSpec => []TablesAgree
<1>1. RebuildInv => TablesAgree
  BY AgreedRows
<1> QED BY <1>1, RebuildsHold, PTL

-----------------------------------------------------------------------------
(* A day's rows are up to date when nothing of the day has changed since a   *)
(* rebuild read it.                                                          *)

(* What the figures of a day are taken from. *)
ReturnsOf(d) == { n \in notes : n.sale \in StandingOf(d) /\ n.kind \in ReturnKinds }
DayData(d) == <<OfDay(d), StandingOf(d), ReturnsOf(d), NotesOfDay(d)>>

(* The row of a day that holds these sales, standing sales and returns. *)
RowFrom(ss, standing, returns) ==
  [saleCount |-> Cardinality(standing),
   voidCount |-> Cardinality(ss \ standing),
   returnCount |-> Cardinality(returns),
   subtotal |-> SumFunctionOnSet(SubtotalOf, standing),
   discount |-> SumFunctionOnSet(DiscountOf, standing),
   tax |-> SumFunctionOnSet(TaxOf, standing),
   grand |-> SumFunctionOnSet(GrandOf, standing),
   cost |-> SumFunctionOnSet(CostOf, standing),
   payments |-> [m \in Methods |-> SumFunctionOnSet(PaidBy(m), standing)],
   byHour |-> [h \in Hours |-> SumFunctionOnSet(GrandOf, { s \in standing : Basket[s].hour = h })]]

SalesRow(d) == RowOf(OfDay(d))

(* With the notes of the day counted in. *)
CurrentRow(d) ==
  LET count == Cardinality(NotesOfDay(d))
  IN  [SalesRow(d) EXCEPT !.returnCount = IF count > 0 THEN count ELSE @]

(* The row of a day is made from these sets. *)
LEMMA RowComesFrom ==
  ASSUME NEW d
  PROVE  SalesRow(d) = RowFrom(OfDay(d), StandingOf(d), ReturnsOf(d))
  BY DEF SalesRow, RowFrom, ReturnsOf, StandingOf, RowOf, PaymentsOf

(* So it is after a step. *)
LEMMA RowComesFromNext ==
  ASSUME NEW d
  PROVE  (SalesRow(d))' = RowFrom((OfDay(d))', (StandingOf(d))', (ReturnsOf(d))')
  BY DEF SalesRow, RowFrom, ReturnsOf, StandingOf, RowOf, PaymentsOf

(* And so are the products' rows. *)
LEMMA ProductRowsOfNextDay ==
  ASSUME NEW d
  PROVE  (ProductRows(d))' = { ProductRow((StandingOf(d))', p) : p \in ProductsSold((StandingOf(d))') }
  BY DEF ProductRows, ProductRow, StandingOf, ProductsSold

(* The same data give the same rows. *)
LEMMA SameDay ==
  ASSUME NEW d, DayData(d)' = DayData(d)
  PROVE  /\ (SalesRow(d))' = SalesRow(d)
         /\ (CurrentRow(d))' = CurrentRow(d)
         /\ (ProductRows(d))' = ProductRows(d)
<1>1. /\ (OfDay(d))' = OfDay(d) /\ (StandingOf(d))' = StandingOf(d)
      /\ (ReturnsOf(d))' = ReturnsOf(d) /\ (NotesOfDay(d))' = NotesOfDay(d)
  BY Zenon DEF DayData
<1>2. (SalesRow(d))' = SalesRow(d)
  BY <1>1, RowComesFrom, RowComesFromNext, Zenon
<1>3. (ProductRows(d))' = ProductRows(d)
  BY <1>1, ProductRowsOfDay, ProductRowsOfNextDay, Zenon
<1>4. (CurrentRow(d))' = CurrentRow(d)
  BY <1>1, <1>2, Zenon DEF CurrentRow
<1> QED BY <1>2, <1>3, <1>4

(* Sales are of a day, and status does not change their day. *)
SaleRows == [day : Days, status : {"COMPLETED", "VOIDED", "REFUNDED"}]

(* A job that missed no change has read what a rebuild would read now. *)
JobShows(b, sales, row, products) ==
  (Reading(b) /\ ~b.missed) => b.products = products /\ b.row = IF b.pc = "read" THEN sales ELSE row

CurrentInv ==
  /\ RebuildInv
  /\ today \in Days
  /\ sale \in [Sales -> SaleRows \cup {NoSale}]
  /\ \A j \in Jobs : \A d : d = Head(job[j].days)
       => JobShows(job[j], SalesRow(d), CurrentRow(d), ProductRows(d))
  /\ \A d \in Days : (summary[d] # NoRow /\ d \notin dirty)
       => summary[d] = CurrentRow(d) /\ productSales[d] = ProductRows(d)

(* A day without a sale is no day. *)
LEMMA NoSaleIsNoRow == NoSale \notin SaleRows
<1>1. DOMAIN NoSale = {"day"}
  BY DEF NoSale
<1>2. \A x \in SaleRows : DOMAIN x = {"day", "status"}
  BY DEF SaleRows
<1> QED BY <1>1, <1>2

(* What the shop has touched is noted in the tables and in the jobs. *)
LEMMA TouchedIsNoted ==
  ASSUME CurrentInv, NEW ds, Touch(ds), UNCHANGED <<summary, productSales, today>>,
         \A d : d \notin ds => DayData(d)' = DayData(d),
         sale' \in [Sales -> SaleRows \cup {NoSale}]
  PROVE  CurrentInv'
<1>0. \A d : d \notin ds => /\ (SalesRow(d))' = SalesRow(d)
                            /\ (CurrentRow(d))' = CurrentRow(d)
                            /\ (ProductRows(d))' = ProductRows(d)
  BY SameDay
<1>1. RebuildInv'
  BY ShopTells DEF CurrentInv
<1>2. ASSUME NEW j \in Jobs, NEW d, d = Head(job'[j].days)
      PROVE  JobShows(job'[j], (SalesRow(d))', (CurrentRow(d))', (ProductRows(d))')
  <2>1. PICK b : b = job[j]
    OBVIOUS
  <2>2. PICK c : c = job'[j]
    OBVIOUS
  <2>3. c = IF b.pc \in {"read", "ready", "writing"} /\ Head(b.days) \in ds
            THEN [b EXCEPT !.missed = TRUE] ELSE b
    BY <2>1, <2>2, Zenon DEF Touch
  <2>4. DOMAIN b = JobFields
    BY <2>1 DEF CurrentInv, RebuildInv, JobTells
  <2>5. CASE Reading(b) /\ Head(b.days) \in ds
    <3>1. c.missed = TRUE
      BY <2>3, <2>4, <2>5 DEF JobFields, Reading
    <3> QED BY <2>2, <3>1 DEF JobShows
  <2>6. CASE ~(Reading(b) /\ Head(b.days) \in ds)
    <3>1. c = b /\ d = Head(b.days)
      BY <1>2, <2>2, <2>3, <2>6 DEF Reading
    <3>2. JobShows(b, SalesRow(d), CurrentRow(d), ProductRows(d))
      BY <2>1, <3>1 DEF CurrentInv
    <3>3. Reading(b) => /\ (SalesRow(d))' = SalesRow(d)
                        /\ (CurrentRow(d))' = CurrentRow(d)
                        /\ (ProductRows(d))' = ProductRows(d)
      BY <1>0, <2>6, <3>1
    <3> QED BY <2>2, <3>1, <3>2, <3>3 DEF JobShows
  <2> QED BY <2>5, <2>6
<1>3. ASSUME NEW d \in Days, summary'[d] # NoRow, d \notin dirty'
      PROVE  summary'[d] = (CurrentRow(d))' /\ productSales'[d] = (ProductRows(d))'
  <2>1. d \notin ds /\ d \notin dirty
    BY <1>3 DEF Touch
  <2> QED BY <1>0, <1>3, <2>1 DEF CurrentInv
<1> QED BY <1>1, <1>2, <1>3 DEF CurrentInv

(* A sale, a void and a return touch their days only. *)
LEMMA RingTouches ==
  ASSUME CurrentInv, NEW s \in Sales, Ring(s), NEW d, d # today
  PROVE  DayData(d)' = DayData(d)
<1>1. /\ sale[s] = NoSale /\ notes' = notes
      /\ sale' = [sale EXCEPT ![s] = [day |-> today, status |-> "COMPLETED"]]
  BY DEF Ring
<1>2. sale'[s].day = today /\ \A t \in Sales : t # s => sale'[t] = sale[t]
  BY <1>1 DEF CurrentInv
<1>3. (OfDay(d))' = OfDay(d)
  BY <1>1, <1>2 DEF OfDay, Rung
<1>4. \A t \in OfDay(d) : sale'[t] = sale[t]
  BY <1>1, <1>2 DEF OfDay, Rung
<1>5. (StandingOf(d))' = StandingOf(d)
  BY <1>3, <1>4 DEF StandingOf, Standing
<1>6. (ReturnsOf(d))' = ReturnsOf(d) /\ (NotesOfDay(d))' = NotesOfDay(d)
  BY <1>1, <1>5 DEF ReturnsOf, NotesOfDay
<1> QED BY <1>3, <1>5, <1>6 DEF DayData

(* A sale that ends touches the day it was rung up on, and with a note of a *)
(* return the day of the note.                                              *)
LEMMA EndTouches ==
  ASSUME CurrentInv, NEW s \in Rung, NEW status \in {"VOIDED", "REFUNDED"}, NEW n, NEW d,
         sale' = [sale EXCEPT ![s].status = status], notes' = notes \cup {n},
         n.sale = s, n.kind \in ReturnKinds => n.day # d, d # sale[s].day
  PROVE  DayData(d)' = DayData(d)
<1>1. s \in Sales /\ sale[s] \in SaleRows
  BY DEF Rung, CurrentInv
<1>2. /\ sale'[s].day = sale[s].day /\ sale'[s] \in SaleRows
      /\ \A t \in Sales : t # s => sale'[t] = sale[t]
  BY <1>1 DEF CurrentInv, SaleRows
<1>3. (OfDay(d))' = OfDay(d) /\ s \notin OfDay(d)
  BY <1>1, <1>2, NoSaleIsNoRow DEF OfDay, Rung
<1>4. \A t \in OfDay(d) : sale'[t] = sale[t]
  BY <1>2, <1>3 DEF OfDay, Rung
<1>5. (StandingOf(d))' = StandingOf(d) /\ s \notin StandingOf(d)
  BY <1>3, <1>4 DEF StandingOf, Standing
<1>6. (ReturnsOf(d))' = ReturnsOf(d)
  BY <1>5 DEF ReturnsOf
<1>7. (NotesOfDay(d))' = NotesOfDay(d)
  BY DEF NotesOfDay
<1> QED BY <1>3, <1>5, <1>6, <1>7 DEF DayData

(* Rebuilding leaves the data alone. *)
LEMMA DataKept ==
  ASSUME NEW d, UNCHANGED <<sale, notes>>
  PROVE  /\ (SalesRow(d))' = SalesRow(d)
         /\ (CurrentRow(d))' = CurrentRow(d)
         /\ (ProductRows(d))' = ProductRows(d)
<1>1. /\ (OfDay(d))' = OfDay(d) /\ (StandingOf(d))' = StandingOf(d)
      /\ (ReturnsOf(d))' = ReturnsOf(d) /\ (NotesOfDay(d))' = NotesOfDay(d)
  BY DEF OfDay, Rung, StandingOf, Standing, ReturnsOf, NotesOfDay
<1>2. DayData(d)' = DayData(d)
  BY <1>1, Zenon DEF DayData
<1> QED BY <1>2, SameDay

(* A step of a rebuild that writes no row. *)
LEMMA JobStepKeeps ==
  ASSUME CurrentInv, RebuildInv', NEW j \in Jobs, NEW b,
         job' = [job EXCEPT ![j] = b],
         JobShows(b, SalesRow(Head(b.days)), CurrentRow(Head(b.days)), ProductRows(Head(b.days))),
         UNCHANGED <<today, sale, notes, summary, productSales, dirty>>
  PROVE  CurrentInv'
<1>1. \A d : /\ (SalesRow(d))' = SalesRow(d)
             /\ (CurrentRow(d))' = CurrentRow(d)
             /\ (ProductRows(d))' = ProductRows(d)
  BY DataKept
<1>2. ASSUME NEW i \in Jobs, NEW d, d = Head(job'[i].days)
      PROVE  JobShows(job'[i], (SalesRow(d))', (CurrentRow(d))', (ProductRows(d))')
  <2>1. JobShows(job'[i], SalesRow(d), CurrentRow(d), ProductRows(d))
    BY <1>2 DEF CurrentInv, RebuildInv
  <2> QED BY <1>1, <2>1
<1>3. ASSUME NEW d \in Days, summary'[d] # NoRow, d \notin dirty'
      PROVE  summary'[d] = (CurrentRow(d))' /\ productSales'[d] = (ProductRows(d))'
  BY <1>1, <1>3 DEF CurrentInv
<1> QED BY <1>2, <1>3 DEF CurrentInv

(* At the start nothing has been read. *)
LEMMA CurrentInit == ASSUME ReportsAssumption PROVE ReportsInit => CurrentInv
<1> SUFFICES ASSUME ReportsInit PROVE CurrentInv
  OBVIOUS
<1>1. ~Reading(Idle)
  BY DEF Reading, Idle
<1>2. \A j \in Jobs : ~Reading(job[j])
  BY <1>1 DEF ReportsInit
<1> QED BY <1>2, RebuildInit DEF ReportsInit, CurrentInv, JobShows, Days, ReportsAssumption

(* Every step keeps what is up to date up to date. *)
LEMMA CurrentStep ==
  ASSUME ReportsAssumption, BasketAssumption, CurrentInv, [ReportsNext]_reportsVars
  PROVE  CurrentInv'
<1>0. RebuildInv'
  BY RebuildStep DEF CurrentInv
<1>1. ASSUME NEW s \in Sales, Ring(s)
      PROVE  CurrentInv'
  <2>1. \A d : d \notin {today} => DayData(d)' = DayData(d)
    BY <1>1, RingTouches
  <2>2. sale' \in [Sales -> SaleRows \cup {NoSale}]
    BY <1>1 DEF CurrentInv, Ring, SaleRows
  <2>3. PICK ds : ds = {today}
    OBVIOUS
  <2>4. Touch(ds) /\ UNCHANGED <<summary, productSales, today>>
    BY <1>1, <2>3 DEF Ring, tables
  <2> QED BY <2>1, <2>2, <2>3, <2>4, TouchedIsNoted
<1>2. ASSUME NEW s \in Sales, VoidSale(s)
      PROVE  CurrentInv'
  <2>1. PICK ds, n : ds = {sale[s].day} /\ n = [sale |-> s, kind |-> "VOID", day |-> today]
    OBVIOUS
  <2>2. s \in Rung /\ sale' = [sale EXCEPT ![s].status = "VOIDED"] /\ notes' = notes \cup {n}
    BY <1>2, <2>1 DEF VoidSale
  <2>3. n.sale = s /\ n.kind \notin ReturnKinds
    BY <2>1 DEF ReportsAssumption
  <2>4. \A d : d \notin ds => DayData(d)' = DayData(d)
    BY <2>1, <2>2, <2>3, EndTouches
  <2>5. sale' \in [Sales -> SaleRows \cup {NoSale}]
    <3>1. sale[s] \in SaleRows
      BY <2>2 DEF Rung, CurrentInv
    <3> QED BY <2>2, <3>1 DEF CurrentInv, SaleRows
  <2>6. Touch(ds) /\ UNCHANGED <<summary, productSales, today>>
    BY <1>2, <2>1 DEF VoidSale, tables
  <2> QED BY <2>4, <2>5, <2>6, TouchedIsNoted
<1>3. ASSUME NEW s \in Sales, NEW k \in ReturnKinds, ReturnSale(s, k)
      PROVE  CurrentInv'
  <2>1. PICK ds, n : ds = {sale[s].day, today} /\ n = [sale |-> s, kind |-> k, day |-> today]
    OBVIOUS
  <2>2. s \in Rung /\ sale' = [sale EXCEPT ![s].status = "REFUNDED"] /\ notes' = notes \cup {n}
    BY <1>3, <2>1 DEF ReturnSale
  <2>3. n.sale = s /\ n.day = today
    BY <2>1
  <2>4. \A d : d \notin ds => DayData(d)' = DayData(d)
    BY <2>1, <2>2, <2>3, EndTouches
  <2>5. sale' \in [Sales -> SaleRows \cup {NoSale}]
    <3>1. sale[s] \in SaleRows
      BY <2>2 DEF Rung, CurrentInv
    <3> QED BY <2>2, <3>1 DEF CurrentInv, SaleRows
  <2>6. Touch(ds) /\ UNCHANGED <<summary, productSales, today>>
    BY <1>3, <2>1 DEF ReturnSale, tables
  <2> QED BY <2>4, <2>5, <2>6, TouchedIsNoted
<1>4. CASE NextDay
  <2>1. /\ UNCHANGED <<sale, notes, summary, productSales, job, dirty>>
        /\ today' = today + 1 /\ today < MaxDay
    BY <1>4 DEF NextDay, tables
  <2>2. today' \in Days
    BY <2>1 DEF CurrentInv, Days, ReportsAssumption
  <2>3. \A d : /\ (SalesRow(d))' = SalesRow(d)
               /\ (CurrentRow(d))' = CurrentRow(d)
               /\ (ProductRows(d))' = ProductRows(d)
    BY <2>1, DataKept
  <2> QED BY <1>0, <2>1, <2>2, <2>3 DEF CurrentInv
<1>5. ASSUME NEW j \in Jobs, NEW days, StartJob(j, days),
             UNCHANGED <<today, sale, notes, summary, productSales, dirty>>
      PROVE  CurrentInv'
  <2>1. PICK b : b = [Idle EXCEPT !.pc = "next", !.days = days]
    OBVIOUS
  <2>2. job' = [job EXCEPT ![j] = b]
    BY <1>5, <2>1 DEF StartJob
  <2>3. ~Reading(b)
    BY <2>1 DEF Reading, Idle
  <2> QED BY <1>0, <1>5, <2>2, <2>3, JobStepKeeps DEF JobShows
<1>6. CASE Nightly
  <2>1. "cron" \in Jobs
    BY DEF Jobs
  <2> QED BY <1>5, <1>6, <2>1 DEF Nightly, tables, shop, history
<1>7. ASSUME NEW r \in ByHand, RebuildRange(r[1], r[2])
      PROVE  CurrentInv'
  <2>1. "manual" \in Jobs
    BY DEF Jobs
  <2>2. PICK days : StartJob("manual", days)
    BY <1>7 DEF RebuildRange
  <2> QED BY <1>5, <1>7, <2>1, <2>2 DEF RebuildRange, tables, shop, history
<1>8. ASSUME NEW j \in Jobs, ReadSales(j)
      PROVE  CurrentInv'
  <2>1. PICK a, d : a = job[j] /\ d = Head(a.days)
    OBVIOUS
  <2>2. PICK row, rows : row = SalesRow(d) /\ rows = ProductRows(d)
    OBVIOUS
  <2>3. DOMAIN a = JobFields
    BY <2>1 DEF CurrentInv, RebuildInv, JobTells
  <2>4. PICK b : b = [a EXCEPT !.pc = "read", !.missed = FALSE, !.row = row, !.products = rows]
    OBVIOUS
  <2>5. job' = [job EXCEPT ![j] = b]
    BY <1>8, <2>1, <2>2, <2>4, Zenon DEF ReadSales, DayOf, SalesRow
  <2>6. b.pc = "read" /\ b.row = row /\ b.products = rows /\ b.days = a.days
    BY <2>3, <2>4 DEF JobFields
  <2>7. JobShows(b, SalesRow(Head(b.days)), CurrentRow(Head(b.days)), ProductRows(Head(b.days)))
    BY <2>1, <2>2, <2>6 DEF JobShows
  <2>8. UNCHANGED <<today, sale, notes, summary, productSales, dirty>>
    BY <1>8 DEF ReadSales, tables, shop, history
  <2> QED BY <1>0, <2>5, <2>7, <2>8, JobStepKeeps
<1>9. ASSUME NEW j \in Jobs, ReadNotes(j)
      PROVE  CurrentInv'
  <2>1. PICK a, d : a = job[j] /\ d = Head(a.days)
    OBVIOUS
  <2>2. PICK n : n = Cardinality(NotesOfDay(d))
    OBVIOUS
  <2>3. DOMAIN a = JobFields /\ a.pc = "read" /\ JobShows(a, SalesRow(d), CurrentRow(d), ProductRows(d))
    BY <1>9, <2>1 DEF CurrentInv, RebuildInv, JobTells, ReadNotes
  <2>4. PICK count : /\ job' = [job EXCEPT ![j].pc = "ready", ![j].row.returnCount = count]
                     /\ count = IF Cardinality(NotesOfDay(DayOf(j))) > 0
                               THEN Cardinality(NotesOfDay(DayOf(j))) ELSE job[j].row.returnCount
    <3>1. job' = [job EXCEPT ![j].pc = "ready",
                             ![j].row.returnCount = IF Cardinality(NotesOfDay(DayOf(j))) > 0
                                 THEN Cardinality(NotesOfDay(DayOf(j))) ELSE job[j].row.returnCount]
      BY <1>9 DEF ReadNotes
    <3> QED BY <3>1
  <2>5. PICK b : b = [a EXCEPT !.pc = "ready", !.row.returnCount = count]
    OBVIOUS
  <2>6. count = IF n > 0 THEN n ELSE a.row.returnCount
    <3>1. DayOf(j) = d
      BY <2>1 DEF DayOf
    <3> QED BY <2>1, <2>2, <2>4, <3>1, Zenon
  <2>7. job' = [job EXCEPT ![j] = b]
    <3>1. j \in DOMAIN job
      BY DEF CurrentInv, RebuildInv
    <3> QED BY <2>1, <2>4, <2>5, <3>1
  <2>8. /\ b.pc = "ready" /\ b.row = [a.row EXCEPT !.returnCount = count]
        /\ b.products = a.products /\ b.days = a.days /\ b.missed = a.missed
    BY <2>3, <2>5 DEF JobFields
  <2>9. a.row = SalesRow(d) => b.row = CurrentRow(d)
    BY <2>2, <2>6, <2>8, Zenon DEF CurrentRow
  <2>10. JobShows(b, SalesRow(Head(b.days)), CurrentRow(Head(b.days)), ProductRows(Head(b.days)))
    BY <2>1, <2>3, <2>8, <2>9 DEF JobShows, Reading
  <2>11. UNCHANGED <<today, sale, notes, summary, productSales, dirty>>
    BY <1>9 DEF ReadNotes, tables, shop, history
  <2> QED BY <1>0, <2>7, <2>10, <2>11, JobStepKeeps
<1>10. ASSUME NEW j \in Jobs, UpsertRow(j)
       PROVE  CurrentInv'
  <2>1. PICK a, d : a = job[j] /\ d = Head(a.days)
    OBVIOUS
  <2>2. DOMAIN a = JobFields /\ a.pc = "ready" /\ JobShows(a, SalesRow(d), CurrentRow(d), ProductRows(d))
    BY <1>10, <2>1 DEF CurrentInv, RebuildInv, JobTells, UpsertRow
  <2>3. PICK b : b = [a EXCEPT !.pc = "writing"]
    OBVIOUS
  <2>4. job' = [job EXCEPT ![j] = b]
    BY <1>10, <2>1, <2>3 DEF CurrentInv, RebuildInv, UpsertRow
  <2>5. b.pc = "writing" /\ b.row = a.row /\ b.products = a.products /\ b.days = a.days /\ b.missed = a.missed
    BY <2>2, <2>3 DEF JobFields
  <2>6. JobShows(b, SalesRow(Head(b.days)), CurrentRow(Head(b.days)), ProductRows(Head(b.days)))
    BY <2>1, <2>2, <2>5 DEF JobShows, Reading
  <2>7. UNCHANGED <<today, sale, notes, summary, productSales, dirty>>
    BY <1>10 DEF UpsertRow, tables, shop, history
  <2> QED BY <1>0, <2>4, <2>6, <2>7, JobStepKeeps
<1>11. ASSUME NEW j \in Jobs, CommitDay(j)
       PROVE  CurrentInv'
  <2>1. PICK a, d : a = job[j] /\ d = Head(a.days)
    OBVIOUS
  <2>2. /\ a.pc = "writing" /\ JobShows(a, SalesRow(d), CurrentRow(d), ProductRows(d))
        /\ summary' = [summary EXCEPT ![d] = a.row]
        /\ productSales' = [productSales EXCEPT ![d] = a.products]
        /\ dirty' = IF a.missed THEN dirty \cup {d} ELSE dirty \ {d}
    BY <1>11, <2>1, Zenon DEF CurrentInv, CommitDay, DayOf
  <2>3. UNCHANGED <<today, sale, notes>>
    BY <1>11 DEF CommitDay, shop
  <2>4. \A e : /\ (SalesRow(e))' = SalesRow(e)
               /\ (CurrentRow(e))' = CurrentRow(e)
               /\ (ProductRows(e))' = ProductRows(e)
    BY <2>3, DataKept
  <2>5. PICK b : job' = [job EXCEPT ![j] = b] /\ ~Reading(b)
    <3>1. \/ job' = [job EXCEPT ![j] = Idle]
          \/ job' = [job EXCEPT ![j] = [Idle EXCEPT !.pc = "next", !.days = Tail(job[j].days)]]
      BY <1>11 DEF CommitDay
    <3>2. ~Reading(Idle) /\ ~Reading([Idle EXCEPT !.pc = "next", !.days = Tail(job[j].days)])
      BY DEF Reading, Idle
    <3> QED BY <3>1, <3>2
  <2>6. ASSUME NEW i \in Jobs, NEW e, e = Head(job'[i].days)
        PROVE  JobShows(job'[i], (SalesRow(e))', (CurrentRow(e))', (ProductRows(e))')
    <3>1. CASE i = j
      <4>1. ~Reading(job'[i])
        BY <2>5, <3>1 DEF CurrentInv, RebuildInv
      <4> QED BY <4>1 DEF JobShows
    <3>2. CASE i # j
      <4>1. job'[i] = job[i]
        BY <2>5, <3>2 DEF CurrentInv, RebuildInv
      <4>2. JobShows(job[i], SalesRow(e), CurrentRow(e), ProductRows(e))
        BY <2>6, <4>1 DEF CurrentInv
      <4> QED BY <2>4, <4>1, <4>2
    <3> QED BY <3>1, <3>2
  <2>7. ASSUME NEW e \in Days, summary'[e] # NoRow, e \notin dirty'
        PROVE  summary'[e] = (CurrentRow(e))' /\ productSales'[e] = (ProductRows(e))'
    <3>1. CASE e = d
      <4>1. ~a.missed
        BY <2>2, <2>7, <3>1
      <4>2. a.products = ProductRows(d) /\ a.row = CurrentRow(d)
        BY <2>2, <4>1 DEF JobShows, Reading
      <4>3. summary'[e] = a.row /\ productSales'[e] = a.products
        BY <2>2, <3>1 DEF CurrentInv, RebuildInv
      <4> QED BY <2>4, <3>1, <4>2, <4>3
    <3>2. CASE e # d
      <4>1. summary'[e] = summary[e] /\ productSales'[e] = productSales[e] /\ e \notin dirty
        BY <2>2, <2>7, <3>2 DEF CurrentInv, RebuildInv
      <4> QED BY <2>4, <2>7, <4>1 DEF CurrentInv
    <3> QED BY <3>1, <3>2
  <2> QED BY <1>0, <2>3, <2>6, <2>7 DEF CurrentInv
<1>12. ASSUME NEW j \in Jobs, FailJob(j)
       PROVE  CurrentInv'
  <2>1. ~Reading(Idle)
    BY DEF Reading, Idle
  <2>2. /\ job' = [job EXCEPT ![j] = Idle]
        /\ UNCHANGED <<today, sale, notes, summary, productSales, dirty>>
    BY <1>12 DEF FailJob, shop
  <2> QED BY <1>0, <2>1, <2>2, JobStepKeeps DEF JobShows
<1>13. CASE UNCHANGED reportsVars
  <2>1. UNCHANGED <<today, sale, notes, summary, productSales, job, dirty>>
    BY <1>13 DEF reportsVars
  <2>2. \A d : /\ (SalesRow(d))' = SalesRow(d)
               /\ (CurrentRow(d))' = CurrentRow(d)
               /\ (ProductRows(d))' = ProductRows(d)
    BY <2>1, DataKept
  <2> QED BY <1>0, <2>1, <2>2 DEF CurrentInv
<1> QED BY <1>1, <1>2, <1>3, <1>4, <1>6, <1>7, <1>8, <1>9, <1>10, <1>11, <1>12, <1>13 DEF ReportsNext, JobStep

(* A day that has rows, and whose sales and notes have not changed since the *)
(* rebuild that wrote them read it, has the rows a rebuild would write now:  *)
(* what ReportsAgree rests on (summary-rebuild.service.ts:32-171).           *)
SettledIsCurrent ==
  \A d \in Days : (summary[d] # NoRow /\ d \notin dirty)
    => summary[d] = CurrentRow(d) /\ productSales[d] = ProductRows(d)

(* Tables that are settled are current, in every reachable state of Reports. *)
THEOREM SettledTablesAreCurrent == ReportsSpec => []SettledIsCurrent
<1>1. ReportsInit => CurrentInv
  BY CurrentInit, ReportsAssumption
<1>2. CurrentInv /\ [ReportsNext]_reportsVars => CurrentInv'
  BY CurrentStep, ReportsAssumption, BasketAssumption
<1>3. CurrentInv => SettledIsCurrent
  BY DEF CurrentInv, SettledIsCurrent
<1> QED BY <1>1, <1>2, <1>3, PTL DEF ReportsSpec

-----------------------------------------------------------------------------
(* Reports: what the settled tables say, day by day and over a range.        *)

(* What the tables and the live reports have in common: sales are of a day   *)
(* that has come, and the credit notes are finitely many.                    *)
ShopInv ==
  /\ \A s \in Rung : sale[s].day <= today
  /\ IsFiniteSet(notes)

AgreeInv == CurrentInv /\ ShopInv

(* At the start there are neither sales nor notes. *)
LEMMA ShopInit == ReportsInit => ShopInv
<1> SUFFICES ASSUME ReportsInit PROVE ShopInv
  OBVIOUS
<1>1. Rung = {}
  BY DEF ReportsInit, Rung
<1>2. IsFiniteSet(notes)
  BY FS_EmptySet DEF ReportsInit
<1> QED BY <1>1, <1>2 DEF ShopInv

(* A sale is rung up today and keeps its day; a step adds one note at most. *)
LEMMA ShopStep ==
  ASSUME ReportsAssumption, CurrentInv, ShopInv, [ReportsNext]_reportsVars
  PROVE  ShopInv'
<1>0. today \in Int
  BY DEF CurrentInv, Days
<1>1. ASSUME NEW s \in Sales, Ring(s)
      PROVE  ShopInv'
  <2>1. /\ sale' = [sale EXCEPT ![s] = [day |-> today, status |-> "COMPLETED"]]
        /\ today' = today /\ notes' = notes
    BY <1>1 DEF Ring
  <2>2. \A t \in Sales : t # s => sale'[t] = sale[t]
    BY <2>1 DEF CurrentInv
  <2>3. sale'[s].day = today
    BY <2>1 DEF CurrentInv
  <2> QED BY <1>0, <2>1, <2>2, <2>3 DEF ShopInv, Rung
<1>2. ASSUME NEW s \in Rung, NEW status \in {"VOIDED", "REFUNDED"}, NEW n,
             sale' = [sale EXCEPT ![s].status = status], notes' = notes \cup {n}, today' = today
      PROVE  ShopInv'
  <2>1. s \in Sales /\ sale[s] \in SaleRows
    BY DEF Rung, CurrentInv
  <2>2. /\ sale'[s].day = sale[s].day
        /\ \A t \in Sales : t # s => sale'[t] = sale[t]
    BY <1>2, <2>1 DEF CurrentInv, SaleRows
  <2>3. IsFiniteSet(notes')
    BY <1>2, FS_AddElement DEF ShopInv
  <2> QED BY <1>2, <2>1, <2>2, <2>3 DEF ShopInv, Rung
<1>3. ASSUME NEW s \in Sales, VoidSale(s)
      PROVE  ShopInv'
  <2>1. /\ s \in Rung /\ sale' = [sale EXCEPT ![s].status = "VOIDED"] /\ today' = today
        /\ notes' = notes \cup {[sale |-> s, kind |-> "VOID", day |-> today]}
    BY <1>3 DEF VoidSale
  <2> QED BY <1>2, <2>1
<1>4. ASSUME NEW s \in Sales, NEW k \in ReturnKinds, ReturnSale(s, k)
      PROVE  ShopInv'
  <2>1. /\ s \in Rung /\ sale' = [sale EXCEPT ![s].status = "REFUNDED"] /\ today' = today
        /\ notes' = notes \cup {[sale |-> s, kind |-> k, day |-> today]}
    BY <1>4 DEF ReturnSale
  <2> QED BY <1>2, <2>1
<1>5. ASSUME UNCHANGED <<sale, notes>>, today' = today \/ today' = today + 1
      PROVE  ShopInv'
  <2>1. Rung' = Rung
    BY <1>5 DEF Rung
  <2>2. \A s \in Rung : sale[s].day \in Int
    BY DEF CurrentInv, Rung, SaleRows, Days, NoSale
  <2> QED BY <1>0, <1>5, <2>1, <2>2 DEF ShopInv
<1>6. CASE NextDay
  BY <1>5, <1>6 DEF NextDay
<1>7. CASE UNCHANGED <<today, sale, notes>>
  BY <1>5, <1>7
<1>8. ASSUME NEW j \in Jobs, JobStep(j) \/ FailJob(j)
      PROVE  UNCHANGED <<today, sale, notes>>
  BY <1>8 DEF JobStep, ReadSales, ReadNotes, UpsertRow, CommitDay, FailJob, shop
<1>9. (Nightly \/ \E r \in ByHand : RebuildRange(r[1], r[2])) => UNCHANGED <<today, sale, notes>>
  BY DEF Nightly, RebuildRange, shop
<1>10. UNCHANGED reportsVars => UNCHANGED <<today, sale, notes>>
  BY DEF reportsVars
<1> QED BY <1>1, <1>3, <1>4, <1>6, <1>7, <1>8, <1>9, <1>10 DEF ReportsNext

-----------------------------------------------------------------------------
(* A range of days has a first and a last one. *)
IsRange(r) == r.from \in Int /\ r.to \in Int

(* The days of a range are finitely many. *)
LEMMA WithinFinite ==
  ASSUME ReportsAssumption, NEW r, IsRange(r)
  PROVE  /\ IsFiniteSet(Within(r))
         /\ Within(r) = { d \in Days : r.from <= d /\ d <= r.to }
         /\ Within(r) \in SUBSET Days
<1>1. IsFiniteSet(Days)
  BY FS_Interval DEF Days, ReportsAssumption
<1>2. Within(r) \in SUBSET Days
  BY DEF Within
<1> QED BY <1>1, <1>2, FS_Subset DEF Within

(* A sale that stands is one the live reports of its days count. *)
LEMMA LiveSalesOf ==
  ASSUME CurrentInv, NEW r, IsRange(r)
  PROVE  /\ LiveOf(r) = { s \in Rung : sale[s].day \in Within(r) /\ Standing(s) }
         /\ LiveOf(r) \in SUBSET Sales
         /\ \A d \in Within(r) : { s \in LiveOf(r) : sale[s].day = d } = StandingOf(d)
         /\ \A s \in LiveOf(r) : sale[s].day \in Within(r)
<1>1. \A s \in Rung : sale[s].day \in Days
  BY DEF CurrentInv, Rung, SaleRows
<1>2. \A s \in Rung : (r.from <= sale[s].day /\ sale[s].day < r.to + 1) <=> sale[s].day \in Within(r)
  BY <1>1 DEF IsRange, Within, Days
<1>3. LiveOf(r) = { s \in Rung : sale[s].day \in Within(r) /\ Standing(s) }
  BY <1>2 DEF LiveOf, LiveSales
<1> QED BY <1>3 DEF StandingOf, OfDay, Rung

(* The row of a settled day, field by field. *)
LEMMA CurrentRowFields ==
  ASSUME NEW d
  PROVE  /\ CurrentRow(d).saleCount = Cardinality(StandingOf(d))
         /\ CurrentRow(d).voidCount = Cardinality(OfDay(d) \ StandingOf(d))
         /\ CurrentRow(d).subtotal = SumFunctionOnSet(SubtotalOf, StandingOf(d))
         /\ CurrentRow(d).discount = SumFunctionOnSet(DiscountOf, StandingOf(d))
         /\ CurrentRow(d).tax = SumFunctionOnSet(TaxOf, StandingOf(d))
         /\ CurrentRow(d).grand = SumFunctionOnSet(GrandOf, StandingOf(d))
         /\ CurrentRow(d).cost = SumFunctionOnSet(CostOf, StandingOf(d))
         /\ CurrentRow(d).payments = [m \in Methods |-> SumFunctionOnSet(PaidBy(m), StandingOf(d))]
         /\ CurrentRow(d).byHour = [h \in Hours |->
              SumFunctionOnSet(GrandOf, { s \in StandingOf(d) : Basket[s].hour = h })]
         /\ CurrentRow(d).returnCount = IF Cardinality(NotesOfDay(d)) > 0
              THEN Cardinality(NotesOfDay(d)) ELSE Cardinality(ReturnsOf(d))
<1>1. PICK row : row = RowFrom(OfDay(d), StandingOf(d), ReturnsOf(d))
  OBVIOUS
<1>2. PICK count : count = Cardinality(NotesOfDay(d))
  OBVIOUS
<1>3. SalesRow(d) = row
  BY <1>1, RowComesFrom
<1>4. CurrentRow(d) = [row EXCEPT !.returnCount = IF count > 0 THEN count ELSE @]
  BY <1>2, <1>3, Zenon DEF CurrentRow
<1>5. DOMAIN row = RowFields
  BY <1>1 DEF RowFrom, RowFields
<1>6. /\ CurrentRow(d).saleCount = row.saleCount /\ CurrentRow(d).voidCount = row.voidCount
      /\ CurrentRow(d).subtotal = row.subtotal /\ CurrentRow(d).discount = row.discount
      /\ CurrentRow(d).tax = row.tax /\ CurrentRow(d).grand = row.grand
      /\ CurrentRow(d).cost = row.cost /\ CurrentRow(d).payments = row.payments
      /\ CurrentRow(d).byHour = row.byHour
      /\ CurrentRow(d).returnCount = IF count > 0 THEN count ELSE row.returnCount
  BY <1>4, <1>5 DEF RowFields
<1>7. /\ row.saleCount = Cardinality(StandingOf(d))
      /\ row.voidCount = Cardinality(OfDay(d) \ StandingOf(d))
      /\ row.returnCount = Cardinality(ReturnsOf(d))
  BY <1>1, Zenon DEF RowFrom
<1>8. /\ row.subtotal = SumFunctionOnSet(SubtotalOf, StandingOf(d))
      /\ row.discount = SumFunctionOnSet(DiscountOf, StandingOf(d))
      /\ row.tax = SumFunctionOnSet(TaxOf, StandingOf(d))
      /\ row.grand = SumFunctionOnSet(GrandOf, StandingOf(d))
      /\ row.cost = SumFunctionOnSet(CostOf, StandingOf(d))
  BY <1>1, Zenon DEF RowFrom
<1>9. /\ row.payments = [m \in Methods |-> SumFunctionOnSet(PaidBy(m), StandingOf(d))]
      /\ row.byHour = [h \in Hours |-> SumFunctionOnSet(GrandOf, { s \in StandingOf(d) : Basket[s].hour = h })]
  BY <1>1, Zenon DEF RowFrom
<1> QED BY <1>2, <1>6, <1>7, <1>8, <1>9, Zenon

(* When a range is settled its rows are what a rebuild would write now. *)
LEMMA SettledRows ==
  ASSUME CurrentInv, NEW r, Settled(r)
  PROVE  /\ Recorded(r) = Within(r)
         /\ \A d \in Within(r) : summary[d] = CurrentRow(d) /\ productSales[d] = ProductRows(d)
<1>1. Within(r) \subseteq Days
  BY DEF Within
<1> QED BY <1>1 DEF Settled, Recorded, CurrentInv

(* What a day's rows show of their standing sales adds up to what the live *)
(* report of these days shows.                                             *)
LEMMA DayTotal ==
  ASSUME ReportsAssumption, CurrentInv, NEW r, IsRange(r), NEW F, \A s \in Sales : F[s] \in Int,
         NEW g, \A d \in Within(r) : g[d] = SumFunctionOnSet(F, StandingOf(d))
  PROVE  SumFunctionOnSet(g, Within(r)) = SumFunctionOnSet(F, LiveOf(r))
<1>1. PICK S, K : S = LiveOf(r) /\ K = Within(r)
  OBVIOUS
<1> DEFINE key == [s \in S |-> sale[s].day]
<1>2. IsFiniteSet(S) /\ S \in SUBSET Sales
  BY <1>1, LiveSalesOf, SalesFinite, FS_Subset
<1>3. IsFiniteSet(K)
  BY <1>1, WithinFinite
<1>4. key \in [S -> K]
  BY <1>1, LiveSalesOf
<1>5. ASSUME NEW d \in K
      PROVE  g[d] = SumFunctionOnSet(F, GroupOf(S, key, d))
  <2>1. GroupOf(S, key, d) = { s \in S : sale[s].day = d }
    BY DEF GroupOf
  <2>2. GroupOf(S, key, d) = StandingOf(d)
    BY <1>1, <2>1, LiveSalesOf
  <2> QED BY <1>1, <2>2
<1> HIDE DEF key
<1>6. \A s \in S : F[s] \in Int
  BY <1>2
<1>7. SumFunctionOnSet(g, K) = SumFunctionOnSet(F, S)
  BY <1>2, <1>3, <1>4, <1>5, <1>6, SumByGroup
<1> QED BY <1>1, <1>7

-----------------------------------------------------------------------------
(* Reports: counts, money and returns of a range, and the same by cashier.   *)

(* The same, for a total of the tables. *)
LEMMA FieldTotal ==
  ASSUME ReportsAssumption, CurrentInv, NEW r, IsRange(r), Settled(r), NEW field,
         NEW F, \A s \in Sales : F[s] \in Int,
         \A d \in Within(r) : CurrentRow(d)[field] = SumFunctionOnSet(F, StandingOf(d))
  PROVE  SummaryTotal(r, field) = SumFunctionOnSet(F, LiveOf(r))
<1> DEFINE g == [d \in Within(r) |-> summary[d][field]]
<1>1. SummaryTotal(r, field) = SumFunctionOnSet(g, Within(r))
  <2>1. Recorded(r) = Within(r)
    BY SettledRows
  <2>2. SummaryTotal(r, field) = SumFunction(g)
    BY <2>1 DEF SummaryTotal
  <2>3. DOMAIN g = Within(r)
    OBVIOUS
  <2> HIDE DEF g
  <2> QED BY <2>2, <2>3 DEF SumFunction
<1>2. \A d \in Within(r) : g[d] = SumFunctionOnSet(F, StandingOf(d))
  BY SettledRows
<1> HIDE DEF g
<1>3. SumFunctionOnSet(g, Within(r)) = SumFunctionOnSet(F, LiveOf(r))
  BY <1>2, DayTotal
<1> QED BY <1>1, <1>3

(* The amounts of sales are numbers. *)
LEMMA AmountsAreNumbers ==
  ASSUME ReportsAssumption, BasketAssumption
  PROVE  \A s \in Sales : /\ SubtotalOf[s] \in Int /\ DiscountOf[s] \in Int /\ TaxOf[s] \in Int
                          /\ GrandOf[s] \in Int /\ CostOf[s] \in Int
                          /\ \A m \in Methods : PaidBy(m)[s] \in Int
<1> SUFFICES ASSUME NEW s \in Sales
             PROVE  /\ SubtotalOf[s] \in Int /\ DiscountOf[s] \in Int /\ TaxOf[s] \in Int
                    /\ GrandOf[s] \in Int /\ CostOf[s] \in Int
                    /\ \A m \in Methods : PaidBy(m)[s] \in Int
  OBVIOUS
<1>1. \A m \in Methods : PaidBy(m)[s] \in Int
  BY BasketTypes DEF PaidBy
<1>2. /\ SubtotalOf[s] \in Nat /\ CostOf[s] \in Nat /\ TaxOf[s] \in Nat
      /\ DiscountOf[s] \in Nat /\ GrandOf[s] \in Int
  BY SaleAmounts, Zenon
<1>3. /\ SubtotalOf[s] \in Int /\ CostOf[s] \in Int /\ TaxOf[s] \in Int
      /\ DiscountOf[s] \in Int
  BY <1>2
<1> QED BY <1>1, <1>2, <1>3, Zenon

(* The totals of a settled range are those of its live sales. *)
LEMMA SettledTotals ==
  ASSUME ReportsAssumption, BasketAssumption, CurrentInv, NEW r, IsRange(r), Settled(r)
  PROVE  /\ SummaryTotal(r, "subtotal") = SumFunctionOnSet(SubtotalOf, LiveOf(r))
         /\ SummaryTotal(r, "discount") = SumFunctionOnSet(DiscountOf, LiveOf(r))
         /\ SummaryTotal(r, "tax") = SumFunctionOnSet(TaxOf, LiveOf(r))
         /\ SummaryTotal(r, "grand") = SumFunctionOnSet(GrandOf, LiveOf(r))
         /\ SummaryTotal(r, "cost") = SumFunctionOnSet(CostOf, LiveOf(r))
<1>1. PICK sub, dis, tax, grand, cost :
        /\ sub = SubtotalOf /\ dis = DiscountOf /\ tax = TaxOf /\ grand = GrandOf /\ cost = CostOf
  OBVIOUS
<1>2. /\ \A s \in Sales : sub[s] \in Int
      /\ \A s \in Sales : dis[s] \in Int
      /\ \A s \in Sales : tax[s] \in Int
      /\ \A s \in Sales : grand[s] \in Int
      /\ \A s \in Sales : cost[s] \in Int
  BY <1>1, AmountsAreNumbers
<1>3. ASSUME NEW d \in Within(r)
      PROVE  /\ CurrentRow(d)["subtotal"] = SumFunctionOnSet(sub, StandingOf(d))
             /\ CurrentRow(d)["discount"] = SumFunctionOnSet(dis, StandingOf(d))
             /\ CurrentRow(d)["tax"] = SumFunctionOnSet(tax, StandingOf(d))
             /\ CurrentRow(d)["grand"] = SumFunctionOnSet(grand, StandingOf(d))
             /\ CurrentRow(d)["cost"] = SumFunctionOnSet(cost, StandingOf(d))
  BY <1>1, CurrentRowFields, Zenon
<1>4. SummaryTotal(r, "subtotal") = SumFunctionOnSet(sub, LiveOf(r))
  BY <1>2, <1>3, FieldTotal
<1>5. SummaryTotal(r, "discount") = SumFunctionOnSet(dis, LiveOf(r))
  BY <1>2, <1>3, FieldTotal
<1>6. SummaryTotal(r, "tax") = SumFunctionOnSet(tax, LiveOf(r))
  BY <1>2, <1>3, FieldTotal
<1>7. SummaryTotal(r, "grand") = SumFunctionOnSet(grand, LiveOf(r))
  BY <1>2, <1>3, FieldTotal
<1>8. SummaryTotal(r, "cost") = SumFunctionOnSet(cost, LiveOf(r))
  BY <1>2, <1>3, FieldTotal
<1> QED BY <1>1, <1>4, <1>5, <1>6, <1>7, <1>8, Zenon

(* A settled range counts its standing sales, and its voids. *)
LEMMA SettledCounts ==
  ASSUME ReportsAssumption, CurrentInv, NEW r, IsRange(r), Settled(r)
  PROVE  /\ SummaryTotal(r, "saleCount") = Cardinality(LiveOf(r))
         /\ SummaryTotal(r, "voidCount") = Cardinality(Voids(r))
<1>1. PICK K : K = Within(r)
  OBVIOUS
<1>2. IsFiniteSet(K)
  BY <1>1, WithinFinite
<1>3. Recorded(r) = K /\ \A d \in K : summary[d] = CurrentRow(d)
  BY <1>1, SettledRows
<1>4. SummaryTotal(r, "saleCount") = Cardinality(LiveOf(r))
  <2>1. PICK S : S = LiveOf(r)
    OBVIOUS
  <2> DEFINE key == [s \in S |-> sale[s].day]
             g == [d \in K |-> summary[d]["saleCount"]]
  <2>2. IsFiniteSet(S)
    BY <2>1, LiveSalesOf, SalesFinite, FS_Subset
  <2>3. key \in [S -> K]
    BY <1>1, <2>1, LiveSalesOf
  <2>4. ASSUME NEW d \in K
        PROVE  g[d] = Cardinality(GroupOf(S, key, d))
    <3>1. GroupOf(S, key, d) = { s \in S : sale[s].day = d }
      BY DEF GroupOf
    <3>2. GroupOf(S, key, d) = StandingOf(d)
      BY <1>1, <2>1, <3>1, LiveSalesOf
    <3>3. g[d] = CurrentRow(d).saleCount
      BY <1>3
    <3>4. CurrentRow(d).saleCount = Cardinality(StandingOf(d))
      BY CurrentRowFields, Zenon
    <3> QED BY <3>2, <3>3, <3>4
  <2>5. SummaryTotal(r, "saleCount") = SumFunction(g) /\ DOMAIN g = K
    BY <1>3 DEF SummaryTotal
  <2> HIDE DEF key, g
  <2>6. SumFunctionOnSet(g, K) = Cardinality(S)
    BY <1>2, <2>2, <2>3, <2>4, CountByGroup
  <2> QED BY <2>1, <2>5, <2>6 DEF SumFunction
<1>5. SummaryTotal(r, "voidCount") = Cardinality(Voids(r))
  <2>1. PICK S : S = Voids(r)
    OBVIOUS
  <2> DEFINE key == [s \in S |-> sale[s].day]
             g == [d \in K |-> summary[d]["voidCount"]]
  <2>2. IsFiniteSet(S)
    <3>1. S \in SUBSET Sales
      BY <2>1 DEF Voids, Rung
    <3> QED BY <3>1, SalesFinite, FS_Subset
  <2>3. key \in [S -> K]
    BY <1>1, <2>1 DEF Voids
  <2>4. ASSUME NEW d \in K
        PROVE  g[d] = Cardinality(GroupOf(S, key, d))
    <3>1. GroupOf(S, key, d) = { s \in S : sale[s].day = d }
      BY DEF GroupOf
    <3>2. GroupOf(S, key, d) = OfDay(d) \ StandingOf(d)
      BY <1>1, <2>1, <3>1 DEF Voids, StandingOf, OfDay
    <3>3. g[d] = CurrentRow(d).voidCount
      BY <1>3
    <3>4. CurrentRow(d).voidCount = Cardinality(OfDay(d) \ StandingOf(d))
      BY CurrentRowFields, Zenon
    <3> QED BY <3>2, <3>3, <3>4
  <2>5. SummaryTotal(r, "voidCount") = SumFunction(g) /\ DOMAIN g = K
    BY <1>3 DEF SummaryTotal
  <2> HIDE DEF key, g
  <2>6. SumFunctionOnSet(g, K) = Cardinality(S)
    BY <1>2, <2>2, <2>3, <2>4, CountByGroup
  <2> QED BY <2>1, <2>5, <2>6 DEF SumFunction
<1> QED BY <1>4, <1>5

(* A settled range counts at least the returns that its days noted. *)
LEMMA SettledReturns ==
  ASSUME ReportsAssumption, CurrentInv, ShopInv, NEW r, IsRange(r), Settled(r)
  PROVE  SummaryTotal(r, "returnCount") >= Cardinality({n \in Refunds(r) : n.kind \in ReturnKinds})
<1>1. PICK K, S : K = Within(r) /\ S = {n \in Refunds(r) : n.kind \in ReturnKinds}
  OBVIOUS
<1> DEFINE key == [n \in S |-> n.day]
           g == [d \in K |-> summary[d]["returnCount"]]
           c == [d \in K |-> Cardinality(NotesOfDay(d))]
<1>2. IsFiniteSet(K)
  BY <1>1, WithinFinite
<1>3. IsFiniteSet(S)
  BY <1>1, FS_Subset DEF ShopInv, Refunds
<1>4. key \in [S -> K]
  BY <1>1 DEF Refunds
<1>5. ASSUME NEW d \in K
      PROVE  c[d] = Cardinality(GroupOf(S, key, d))
  <2>1. GroupOf(S, key, d) = NotesOfDay(d)
    BY <1>1 DEF GroupOf, NotesOfDay, Refunds
  <2> QED BY <2>1
<1>6. ASSUME NEW d \in K
      PROVE  c[d] \in Nat /\ g[d] \in Nat /\ c[d] <= g[d]
  <2>1. PICK a, b : a = Cardinality(NotesOfDay(d)) /\ b = Cardinality(ReturnsOf(d))
    OBVIOUS
  <2>2. a \in Nat /\ b \in Nat
    <3>1. IsFiniteSet(NotesOfDay(d)) /\ IsFiniteSet(ReturnsOf(d))
      BY FS_Subset DEF ShopInv, NotesOfDay, ReturnsOf
    <3> QED BY <2>1, <3>1, FS_CardinalityType
  <2>3. CurrentRow(d).returnCount = IF a > 0 THEN a ELSE b
    BY <2>1, CurrentRowFields, Zenon
  <2>4. g[d] = CurrentRow(d).returnCount
    BY <1>1, SettledRows
  <2> QED BY <2>1, <2>2, <2>3, <2>4
<1>7. SummaryTotal(r, "returnCount") = SumFunction(g) /\ DOMAIN g = K
  BY <1>1, SettledRows DEF SummaryTotal
<1> HIDE DEF key, g, c
<1>8. SumFunctionOnSet(c, K) = Cardinality(S)
  BY <1>2, <1>3, <1>4, <1>5, CountByGroup
<1>9. SumFunctionOnSet(c, K) <= SumFunctionOnSet(g, K)
  <2>1. \A d \in K : c[d] \in Int /\ g[d] \in Int /\ c[d] <= g[d]
    BY <1>6
  <2> QED BY <1>2, <2>1, SumAtMost
<1>10. SumFunctionOnSet(c, K) \in Int /\ SumFunctionOnSet(g, K) \in Int
  <2>1. (\A d \in K : c[d] \in Int) /\ (\A d \in K : g[d] \in Int)
    BY <1>6
  <2> QED BY <1>2, <2>1, SumInt
<1> QED BY <1>1, <1>7, <1>8, <1>9, <1>10 DEF SumFunction

(* Cashiers and customers are those of the sales. *)
LEMMA PeopleFinite ==
  ASSUME ReportsAssumption
  PROVE  IsFiniteSet(Cashiers) /\ IsFiniteSet(Customers)
<1> DEFINE m == [s \in Sales |-> Basket[s].cashier]
           n == [s \in Sales |-> Basket[s].customer]
<1>1. Cashiers = ImageOf(m, Sales) /\ Customers = ImageOf(n, Sales)
  BY DEF Cashiers, Customers, ImageOf
<1> HIDE DEF m, n
<1> QED BY <1>1, SalesFinite, FiniteImage

(* Each live sale is one cashier's, and one customer's. *)
LEMMA LiveByPerson ==
  ASSUME ReportsAssumption, BasketAssumption, CurrentInv, NEW r, IsRange(r)
  PROVE  /\ SumFunction([u \in Cashiers |-> SalesByCashier(r, u).saleCount]) = Cardinality(LiveOf(r))
         /\ SumFunction([u \in Cashiers |-> SalesByCashier(r, u).grand]) = SumFunctionOnSet(GrandOf, LiveOf(r))
         /\ SumFunction([u \in Cashiers |-> SalesByCashier(r, u).cost]) = SumFunctionOnSet(CostOf, LiveOf(r))
         /\ SumFunction([c \in Customers |-> CustomersReport(r, c).total]) = SumFunctionOnSet(GrandOf, LiveOf(r))
<1>1. PICK S : S = LiveOf(r)
  OBVIOUS
<1>2. S \in SUBSET Sales /\ IsFiniteSet(S)
  BY <1>1, LiveSalesOf, SalesFinite, FS_Subset
<1>3. IsFiniteSet(Cashiers) /\ IsFiniteSet(Customers)
  BY PeopleFinite
<1> DEFINE key == [s \in S |-> Basket[s].cashier]
           own == [s \in S |-> Basket[s].customer]
           n == [u \in Cashiers |-> SalesByCashier(r, u).saleCount]
           g == [u \in Cashiers |-> SalesByCashier(r, u).grand]
           e == [u \in Cashiers |-> SalesByCashier(r, u).cost]
           t == [c \in Customers |-> CustomersReport(r, c).total]
<1>4. key \in [S -> Cashiers] /\ own \in [S -> Customers]
  BY <1>2 DEF Cashiers, Customers
<1>5. ASSUME NEW u \in Cashiers
      PROVE  /\ n[u] = Cardinality(GroupOf(S, key, u))
             /\ g[u] = SumFunctionOnSet(GrandOf, GroupOf(S, key, u))
             /\ e[u] = SumFunctionOnSet(CostOf, GroupOf(S, key, u))
  <2>1. GroupOf(S, key, u) = { s \in LiveOf(r) : Basket[s].cashier = u }
    BY <1>1 DEF GroupOf
  <2>2. PICK G : G = { s \in LiveOf(r) : Basket[s].cashier = u }
    OBVIOUS
  <2>3. SalesByCashier(r, u) = [saleCount |-> Cardinality(G), grand |-> SumFunctionOnSet(GrandOf, G),
                                cost |-> SumFunctionOnSet(CostOf, G)]
    BY <2>2, Zenon DEF SalesByCashier
  <2>4. /\ SalesByCashier(r, u).saleCount = Cardinality(G)
        /\ SalesByCashier(r, u).grand = SumFunctionOnSet(GrandOf, G)
        /\ SalesByCashier(r, u).cost = SumFunctionOnSet(CostOf, G)
    BY <2>3
  <2> QED BY <2>1, <2>2, <2>4, Zenon
<1>6. ASSUME NEW c \in Customers
      PROVE  t[c] = SumFunctionOnSet(GrandOf, GroupOf(S, own, c))
  <2>1. GroupOf(S, own, c) = { s \in LiveOf(r) : Basket[s].customer = c }
    BY <1>1 DEF GroupOf
  <2>2. PICK G : G = { s \in LiveOf(r) : Basket[s].customer = c }
    OBVIOUS
  <2>3. CustomersReport(r, c) = [visits |-> Cardinality(G), total |-> SumFunctionOnSet(GrandOf, G)]
    BY <2>2, Zenon DEF CustomersReport
  <2>4. CustomersReport(r, c).total = SumFunctionOnSet(GrandOf, G)
    BY <2>3
  <2> QED BY <2>1, <2>2, <2>4, Zenon
<1>7. /\ SumFunction(n) = SumFunctionOnSet(n, Cashiers)
      /\ SumFunction(g) = SumFunctionOnSet(g, Cashiers)
      /\ SumFunction(e) = SumFunctionOnSet(e, Cashiers)
      /\ SumFunction(t) = SumFunctionOnSet(t, Customers)
  BY DEF SumFunction
<1> HIDE DEF key, own, n, g, e, t
<1>8. PICK grand, cost : grand = GrandOf /\ cost = CostOf
  OBVIOUS
<1>9. (\A s \in S : grand[s] \in Int) /\ (\A s \in S : cost[s] \in Int)
  BY <1>2, <1>8, AmountsAreNumbers
<1>10. SumFunctionOnSet(n, Cashiers) = Cardinality(S)
  BY <1>2, <1>3, <1>4, <1>5, CountByGroup
<1>11. SumFunctionOnSet(g, Cashiers) = SumFunctionOnSet(grand, S)
  <2>1. \A u \in Cashiers : g[u] = SumFunctionOnSet(grand, GroupOf(S, key, u))
    BY <1>5, <1>8
  <2> QED BY <1>2, <1>3, <1>4, <1>9, <2>1, SumByGroup
<1>12. SumFunctionOnSet(e, Cashiers) = SumFunctionOnSet(cost, S)
  <2>1. \A u \in Cashiers : e[u] = SumFunctionOnSet(cost, GroupOf(S, key, u))
    BY <1>5, <1>8
  <2> QED BY <1>2, <1>3, <1>4, <1>9, <2>1, SumByGroup
<1>13. SumFunctionOnSet(t, Customers) = SumFunctionOnSet(grand, S)
  <2>1. \A c \in Customers : t[c] = SumFunctionOnSet(grand, GroupOf(S, own, c))
    BY <1>6, <1>8
  <2> QED BY <1>2, <1>3, <1>4, <1>9, <2>1, SumByGroup
<1> QED BY <1>1, <1>7, <1>8, <1>10, <1>11, <1>12, <1>13, Zenon DEF n, g, e, t

-----------------------------------------------------------------------------
(* Reports: the same by method of payment, by hour, by discount and VAT.     *)

(* What a settled range was paid by a method is what its live sales were. *)
LEMMA SettledPayments ==
  ASSUME ReportsAssumption, BasketAssumption, CurrentInv, NEW r, IsRange(r), Settled(r), NEW m \in Methods
  PROVE  SummaryPayments(r, m) = SumFunctionOnSet(PaidBy(m), LiveOf(r))
<1> DEFINE g == [d \in Within(r) |-> summary[d].payments[m]]
<1>1. SummaryPayments(r, m) = SumFunctionOnSet(g, Within(r))
  <2>1. Recorded(r) = Within(r)
    BY SettledRows
  <2>2. SummaryPayments(r, m) = SumFunction(g)
    BY <2>1 DEF SummaryPayments
  <2>3. DOMAIN g = Within(r)
    OBVIOUS
  <2> HIDE DEF g
  <2> QED BY <2>2, <2>3 DEF SumFunction
<1>2. PICK F : F = PaidBy(m)
  OBVIOUS
<1>3. \A s \in Sales : F[s] \in Int
  BY <1>2, AmountsAreNumbers
<1>4. ASSUME NEW d \in Within(r)
      PROVE  g[d] = SumFunctionOnSet(F, StandingOf(d))
  <2>1. g[d] = CurrentRow(d).payments[m]
    BY SettledRows
  <2>2. CurrentRow(d).payments = [n \in Methods |-> SumFunctionOnSet(PaidBy(n), StandingOf(d))]
    BY CurrentRowFields, Zenon
  <2>3. CurrentRow(d).payments[m] = SumFunctionOnSet(PaidBy(m), StandingOf(d))
    BY <2>2
  <2> QED BY <1>2, <2>1, <2>3
<1> HIDE DEF g
<1>5. SumFunctionOnSet(g, Within(r)) = SumFunctionOnSet(F, LiveOf(r))
  BY <1>3, <1>4, DayTotal
<1> QED BY <1>1, <1>2, <1>5

(* Sales are paid in full, so the methods share what the live sales came to. *)
LEMMA PaymentsTotal ==
  ASSUME ReportsAssumption, BasketAssumption, PaidAssumption, CurrentInv, NEW r, IsRange(r), Settled(r)
  PROVE  SumFunction([m \in Methods |-> SummaryPayments(r, m)]) = SumFunctionOnSet(GrandOf, LiveOf(r))
<1>1. PICK S, grand : S = LiveOf(r) /\ grand = GrandOf
  OBVIOUS
<1>2. S \in SUBSET Sales /\ IsFiniteSet(S)
  BY <1>1, LiveSalesOf, SalesFinite, FS_Subset
<1>3. IsFiniteSet(Methods)
  BY DEF ReportsAssumption
<1> DEFINE t == [s \in S |-> Basket[s].pay]
           c == [m \in Methods |-> [s \in S |-> t[s][m]]]
           b == [m \in Methods |-> SummaryPayments(r, m)]
<1>4. ASSUME NEW s \in S
      PROVE  /\ t[s] \in [Methods -> Nat]
             /\ grand[s] = SumFunctionOnSet(t[s], Methods)
  <2>1. PICK p : p = Basket[s].pay
    OBVIOUS
  <2>2. s \in Sales /\ t[s] = p
    BY <1>2, <2>1
  <2>3. p \in [Methods -> Nat]
    BY <2>1, <2>2, BasketTypes
  <2>4. SumFunction(p) = grand[s]
    BY <1>1, <2>1, <2>2 DEF PaidAssumption
  <2>5. SumFunction(p) = SumFunctionOnSet(p, Methods)
    BY <2>3 DEF SumFunction
  <2> QED BY <2>2, <2>3, <2>4, <2>5
<1>5. ASSUME NEW m \in Methods
      PROVE  b[m] = SumFunctionOnSet(c[m], S)
  <2>1. PICK f, g : f = PaidBy(m) /\ g = c[m]
    OBVIOUS
  <2>2. \A s \in S : f[s] = g[s] /\ f[s] \in Int
    BY <1>2, <2>1, <1>4 DEF PaidBy
  <2>3. SumFunctionOnSet(f, S) = SumFunctionOnSet(g, S)
    BY <1>2, <2>2, SumSame
  <2>4. b[m] = SumFunctionOnSet(f, S)
    BY <1>1, <2>1, SettledPayments
  <2> QED BY <2>1, <2>3, <2>4
<1>6. \A s \in S : \A m \in Methods : t[s][m] \in Int
  BY <1>4
<1>7. SumFunction(b) = SumFunctionOnSet(b, Methods)
  BY DEF SumFunction
<1>8. \A m \in Methods : \A s \in S : c[m][s] = t[s][m]
  OBVIOUS
<1> HIDE DEF t, c, b
<1>9. SumFunctionOnSet(grand, S) = SumFunctionOnSet(b, Methods)
  <2>1. \A x \in S : grand[x] = SumFunctionOnSet(t[x], Methods)
    BY <1>4
  <2>2. Transposed(t, c, S, Methods)
    BY <1>6, <1>8 DEF Transposed
  <2> QED BY <1>2, <1>3, <1>5, <2>1, <2>2, SumSwap
<1> QED BY <1>1, <1>7, <1>9 DEF b

(* What a sale came to, counted in its hour only. *)
GrandAt(h) == [s \in Sales |-> IF Basket[s].hour = h THEN GrandOf[s] ELSE 0]

(* The sales of an hour come to the sum of that. *)
LEMMA HourOfSales ==
  ASSUME ReportsAssumption, BasketAssumption, NEW S \in SUBSET Sales, NEW h
  PROVE  /\ \A s \in Sales : GrandAt(h)[s] \in Int
         /\ SumFunctionOnSet(GrandOf, { s \in S : Basket[s].hour = h }) = SumFunctionOnSet(GrandAt(h), S)
<1>1. PICK T, f, g : T = { s \in S : Basket[s].hour = h } /\ f = GrandOf /\ g = GrandAt(h)
  OBVIOUS
<1>2. \A s \in Sales : f[s] \in Int
  BY <1>1, AmountsAreNumbers
<1>3. /\ \A s \in Sales : g[s] \in Int
      /\ \A s \in S : g[s] = IF s \in T THEN f[s] ELSE 0
  BY <1>1, <1>2 DEF GrandAt
<1>4. IsFiniteSet(S) /\ T \in SUBSET S
  BY <1>1, SalesFinite, FS_Subset
<1>5. \A s \in S : f[s] \in Int
  BY <1>2
<1>6. SumFunctionOnSet(f, T) = SumFunctionOnSet(g, S)
  BY <1>3, <1>4, <1>5, SumPart
<1> QED BY <1>1, <1>3, <1>6

(* The hours of a settled range are those of its live sales. *)
LEMMA SettledHour ==
  ASSUME ReportsAssumption, BasketAssumption, CurrentInv, NEW r, IsRange(r), Settled(r), NEW h \in Hours
  PROVE  SummaryByHour(r, h) = SumFunctionOnSet(GrandOf, { s \in LiveOf(r) : Basket[s].hour = h })
<1> DEFINE g == [d \in Within(r) |-> summary[d].byHour[h]]
<1>1. SummaryByHour(r, h) = SumFunctionOnSet(g, Within(r))
  <2>1. Recorded(r) = Within(r)
    BY SettledRows
  <2>2. SummaryByHour(r, h) = SumFunction(g)
    BY <2>1 DEF SummaryByHour
  <2>3. DOMAIN g = Within(r)
    OBVIOUS
  <2> HIDE DEF g
  <2> QED BY <2>2, <2>3 DEF SumFunction
<1>2. PICK F : F = GrandAt(h)
  OBVIOUS
<1>3. \A s \in Sales : F[s] \in Int
  BY <1>2, HourOfSales
<1>4. ASSUME NEW d \in Within(r)
      PROVE  g[d] = SumFunctionOnSet(F, StandingOf(d))
  <2>1. g[d] = CurrentRow(d).byHour[h]
    BY SettledRows
  <2>2. CurrentRow(d).byHour = [k \in Hours |->
          SumFunctionOnSet(GrandOf, { s \in StandingOf(d) : Basket[s].hour = k })]
    BY CurrentRowFields, Zenon
  <2>3. CurrentRow(d).byHour[h] = SumFunctionOnSet(GrandOf, { s \in StandingOf(d) : Basket[s].hour = h })
    BY <2>2
  <2>4. StandingOf(d) \in SUBSET Sales
    BY DEF StandingOf, OfDay, Rung
  <2>5. SumFunctionOnSet(GrandOf, { s \in StandingOf(d) : Basket[s].hour = h }) = SumFunctionOnSet(F, StandingOf(d))
    BY <1>2, <2>4, HourOfSales
  <2> QED BY <2>1, <2>3, <2>5
<1> HIDE DEF g
<1>5. SumFunctionOnSet(g, Within(r)) = SumFunctionOnSet(F, LiveOf(r))
  BY <1>3, <1>4, DayTotal
<1>6. LiveOf(r) \in SUBSET Sales
  BY LiveSalesOf
<1>7. SumFunctionOnSet(GrandOf, { s \in LiveOf(r) : Basket[s].hour = h }) = SumFunctionOnSet(F, LiveOf(r))
  BY <1>2, <1>6, HourOfSales
<1> QED BY <1>1, <1>5, <1>7

(* The hours share what the live sales came to. *)
LEMMA HoursTotal ==
  ASSUME ReportsAssumption, BasketAssumption, CurrentInv, NEW r, IsRange(r), Settled(r)
  PROVE  SumFunction([h \in Hours |-> SummaryByHour(r, h)]) = SumFunctionOnSet(GrandOf, LiveOf(r))
<1>1. PICK S, grand : S = LiveOf(r) /\ grand = GrandOf
  OBVIOUS
<1>2. S \in SUBSET Sales /\ IsFiniteSet(S)
  BY <1>1, LiveSalesOf, SalesFinite, FS_Subset
<1>3. IsFiniteSet(Hours)
  BY DEF ReportsAssumption
<1> DEFINE key == [s \in S |-> Basket[s].hour]
           g == [h \in Hours |-> SummaryByHour(r, h)]
<1>4. key \in [S -> Hours]
  BY <1>2, BasketTypes
<1>5. ASSUME NEW h \in Hours
      PROVE  g[h] = SumFunctionOnSet(grand, GroupOf(S, key, h))
  <2>1. GroupOf(S, key, h) = { s \in LiveOf(r) : Basket[s].hour = h }
    BY <1>1 DEF GroupOf
  <2>2. g[h] = SumFunctionOnSet(GrandOf, { s \in LiveOf(r) : Basket[s].hour = h })
    BY SettledHour
  <2> QED BY <1>1, <2>1, <2>2
<1>6. SumFunction(g) = SumFunctionOnSet(g, Hours)
  BY DEF SumFunction
<1> HIDE DEF key, g
<1>7. \A s \in S : grand[s] \in Int
  BY <1>1, <1>2, AmountsAreNumbers
<1>8. SumFunctionOnSet(g, Hours) = SumFunctionOnSet(grand, S)
  BY <1>2, <1>3, <1>4, <1>5, <1>7, SumByGroup
<1> QED BY <1>1, <1>6, <1>8 DEF g

(* Sales without a discount add nothing to the discounts. *)
LEMMA DiscountsTotal ==
  ASSUME ReportsAssumption, BasketAssumption, CurrentInv, NEW r, IsRange(r)
  PROVE  SumFunctionOnSet(DiscountOf, Discounts(r)) = SumFunctionOnSet(DiscountOf, LiveOf(r))
<1>1. PICK S, T, f : S = LiveOf(r) /\ T = Discounts(r) /\ f = DiscountOf
  OBVIOUS
<1>2. S \in SUBSET Sales /\ IsFiniteSet(S)
  BY <1>1, LiveSalesOf, SalesFinite, FS_Subset
<1>3. \A s \in S : f[s] \in Nat
  BY <1>1, <1>2, SaleAmounts
<1>4. T \in SUBSET S /\ \A s \in S : f[s] = IF s \in T THEN f[s] ELSE 0
  BY <1>1, <1>3 DEF Discounts
<1>5. \A s \in S : f[s] \in Int
  BY <1>3
<1>6. SumFunctionOnSet(f, T) = SumFunctionOnSet(f, S)
  BY <1>2, <1>4, <1>5, SumPart
<1> QED BY <1>1, <1>6

(* The VAT summary shares the subtotal out between the rates: what the lines *)
(* of the standard rate cost without tax, the tax, and the lines without.    *)
LEMMA VatTotal ==
  ASSUME ReportsAssumption, BasketAssumption, CurrentInv, NEW r, IsRange(r)
  PROVE  SumFunctionOnSet(SubtotalOf, LiveOf(r))
           = VatSummary(r).net + VatSummary(r).tax + VatSummary(r).zero + VatSummary(r).exempt
<1>1. PICK S, T : S = LiveOf(r) /\ T = LinesIn(S)
  OBVIOUS
<1>2. PICK std, zero, exempt :
        /\ std = {x \in T : x[2].kind = "STANDARD"}
        /\ zero = {x \in T : x[2].kind = "ZERO"} /\ exempt = {x \in T : x[2].kind = "EXEMPT"}
  OBVIOUS
<1> DEFINE net == [x \in std |-> x[2].total - x[2].tax]
           total == [x \in T |-> x[2].total]
           n == [x \in T |-> IF x \in std THEN x[2].total - x[2].tax ELSE 0]
           t == [x \in T |-> x[2].tax]
           z == [x \in T |-> IF x \in zero THEN x[2].total ELSE 0]
           e == [x \in T |-> IF x \in exempt THEN x[2].total ELSE 0]
           nt == [x \in T |-> n[x] + t[x]]
           ntz == [x \in T |-> nt[x] + z[x]]
<1>3. S \in SUBSET Sales /\ T \in SUBSET Lines /\ IsFiniteSet(T)
  <2>1. S \in SUBSET Sales /\ T \in SUBSET Lines
    BY <1>1, LiveSalesOf DEF LinesIn
  <2> QED BY <2>1, LinesFinite, FS_Subset
<1>4. std \in SUBSET T /\ zero \in SUBSET T /\ exempt \in SUBSET T
  BY <1>2
<1>5. ASSUME NEW x \in T
      PROVE  /\ x[2].total \in Nat /\ x[2].tax \in Nat
             /\ x[2].kind \in {"STANDARD", "ZERO", "EXEMPT"}
             /\ x[2].kind # "STANDARD" => x[2].tax = 0
  <2>1. x \in Lines
    BY <1>3
  <2>2. /\ x[2].kind \in {"STANDARD", "ZERO", "EXEMPT"}
        /\ x[2].kind # "STANDARD" => x[2].tax = 0
        /\ \A k \in LineAmounts : x[2][k] \in Nat
    BY <2>1, LineTypes
  <2>3. x[2]["total"] \in Nat /\ x[2]["tax"] \in Nat
    BY <2>2 DEF LineAmounts
  <2> QED BY <2>2, <2>3
<1>6. ASSUME NEW x \in T
      PROVE  /\ n[x] \in Int /\ t[x] \in Int /\ z[x] \in Int /\ e[x] \in Int
             /\ nt[x] \in Int /\ ntz[x] \in Int
             /\ nt[x] = n[x] + t[x] /\ ntz[x] = nt[x] + z[x] /\ total[x] = ntz[x] + e[x]
  BY <1>2, <1>5
<1>7. SumFunctionOnSet(net, std) = SumFunctionOnSet(n, T)
  <2> DEFINE a == [x \in T |-> x[2].total - x[2].tax]
  <2>1. \A x \in T : a[x] \in Int
    BY <1>5
  <2>2. \A x \in T : n[x] = IF x \in std THEN a[x] ELSE 0
    OBVIOUS
  <2>3. \A x \in std : net[x] = a[x] /\ net[x] \in Int
    BY <1>4, <2>1
  <2> HIDE DEF a, n, net
  <2>4. SumFunctionOnSet(a, std) = SumFunctionOnSet(n, T)
    BY <1>3, <1>4, <2>1, <2>2, SumPart
  <2>5. IsFiniteSet(std)
    BY <1>3, <1>4, FS_Subset
  <2>6. SumFunctionOnSet(net, std) = SumFunctionOnSet(a, std)
    BY <2>3, <2>5, SumSame
  <2> QED BY <2>4, <2>6
<1>8. /\ \A x \in T : z[x] = IF x \in zero THEN total[x] ELSE 0
      /\ \A x \in T : e[x] = IF x \in exempt THEN total[x] ELSE 0
      /\ \A x \in T : total[x] \in Nat
  BY <1>5
<1>9. "total" \in LineAmounts /\ "tax" \in LineAmounts
  BY DEF LineAmounts
<1>10. ASSUME NEW U \in SUBSET T
       PROVE  LineSum("total", U) = SumFunctionOnSet(total, U) /\ LineSum("tax", U) = SumFunctionOnSet(t, U)
  <2>1. U \in SUBSET Lines
    BY <1>3
  <2>2. PICK f, g : f = AmountOf("total") /\ g = AmountOf("tax")
    OBVIOUS
  <2>3. /\ IsFiniteSet(U) /\ LineSum("total", U) = SumFunctionOnSet(f, U) /\ LineSum("tax", U) = SumFunctionOnSet(g, U)
    BY <1>9, <2>1, <2>2, LineSumIs
  <2>4. /\ \A x \in U : f[x] = total[x] /\ f[x] \in Int
        /\ \A x \in U : g[x] = t[x] /\ g[x] \in Int
    BY <1>3, <1>5, <2>2 DEF AmountOf
  <2> HIDE DEF total, t
  <2>5. SumFunctionOnSet(f, U) = SumFunctionOnSet(total, U)
    BY <2>3, <2>4, SumSame
  <2>6. SumFunctionOnSet(g, U) = SumFunctionOnSet(t, U)
    BY <2>3, <2>4, SumSame
  <2> QED BY <2>3, <2>5, <2>6
<1>11. /\ VatSummary(r).net = SumFunctionOnSet(net, std)
       /\ VatSummary(r).zero = LineSum("total", zero) /\ VatSummary(r).exempt = LineSum("total", exempt)
       /\ VatSummary(r).tax = SumFunctionOnSet(TaxOf, S)
  <2>1. /\ VatSummary(r).net = SumFunction(net)
        /\ VatSummary(r).zero = LineSum("total", zero) /\ VatSummary(r).exempt = LineSum("total", exempt)
        /\ VatSummary(r).tax = SumFunctionOnSet(TaxOf, S)
    BY <1>1, <1>2 DEF VatSummary
  <2>2. DOMAIN net = std
    OBVIOUS
  <2> HIDE DEF net
  <2> QED BY <2>1, <2>2 DEF SumFunction
<1> HIDE DEF net, total, n, t, z, e, nt, ntz
<1>12. SumFunctionOnSet(total, zero) = SumFunctionOnSet(z, T) /\ SumFunctionOnSet(total, exempt) = SumFunctionOnSet(e, T)
  <2>1. \A x \in T : total[x] \in Int
    BY <1>8
  <2>2. SumFunctionOnSet(total, zero) = SumFunctionOnSet(z, T)
    BY <1>3, <1>4, <1>8, <2>1, SumPart
  <2>3. SumFunctionOnSet(total, exempt) = SumFunctionOnSet(e, T)
    BY <1>3, <1>4, <1>8, <2>1, SumPart
  <2> QED BY <2>2, <2>3
<1>13. SumFunctionOnSet(nt, T) = SumFunctionOnSet(n, T) + SumFunctionOnSet(t, T)
  BY <1>3, <1>6, SumPlus
<1>14. SumFunctionOnSet(ntz, T) = SumFunctionOnSet(nt, T) + SumFunctionOnSet(z, T)
  BY <1>3, <1>6, SumPlus
<1>15. SumFunctionOnSet(total, T) = SumFunctionOnSet(ntz, T) + SumFunctionOnSet(e, T)
  BY <1>3, <1>6, SumPlus
<1>16. SumFunctionOnSet(SubtotalOf, S) = LineSum("total", T) /\ SumFunctionOnSet(TaxOf, S) = LineSum("tax", T)
  <2>1. PICK f, g : f = SubtotalOf /\ g = TaxOf
    OBVIOUS
  <2>2. /\ \A s \in S : f[s] = LineSum("total", LinesIn({s}))
        /\ \A s \in S : g[s] = LineSum("tax", LinesIn({s}))
    BY <1>3, <2>1, SaleAmounts
  <2>3. SumFunctionOnSet(f, S) = LineSum("total", LinesIn(S))
    BY <1>3, <1>9, <2>2, TotalBySale
  <2>4. SumFunctionOnSet(g, S) = LineSum("tax", LinesIn(S))
    BY <1>3, <1>9, <2>2, TotalBySale
  <2> QED BY <1>1, <2>1, <2>3, <2>4
<1>17. /\ LineSum("total", zero) = SumFunctionOnSet(total, zero)
       /\ LineSum("total", exempt) = SumFunctionOnSet(total, exempt)
       /\ LineSum("total", T) = SumFunctionOnSet(total, T) /\ LineSum("tax", T) = SumFunctionOnSet(t, T)
  BY <1>4, <1>10
<1>18. /\ SumFunctionOnSet(n, T) \in Int /\ SumFunctionOnSet(t, T) \in Int
       /\ SumFunctionOnSet(z, T) \in Int /\ SumFunctionOnSet(e, T) \in Int
  <2>1. /\ \A x \in T : n[x] \in Int
        /\ \A x \in T : t[x] \in Int
        /\ \A x \in T : z[x] \in Int
        /\ \A x \in T : e[x] \in Int
    BY <1>6
  <2> QED BY <1>3, <2>1, SumInt
<1> QED BY <1>1, <1>7, <1>11, <1>12, <1>13, <1>14, <1>15, <1>16, <1>17, <1>18

-----------------------------------------------------------------------------
(* Reports: the products' rows and the categories.                           *)

(* The products' rows of a range are finitely many, each of a day of it. *)
LEMMA RowsOfRange ==
  ASSUME ReportsAssumption, RebuildInv, NEW r, IsRange(r)
  PROVE  /\ IsFiniteSet(RowsWithin(r))
         /\ \A y \in RowsWithin(r) :
              /\ \E d \in Within(r) : \E row \in productSales[d] : y = <<d, row>>
              /\ y[2].revenue \in Nat /\ y[2].cost \in Nat /\ y[2].quantity \in Nat \ {0}
              /\ y[2].product \in Products
         /\ \A d \in Within(r) : \A row \in productSales[d] : <<d, row>> \in RowsWithin(r)
<1> DEFINE m == [d \in Within(r) |-> { <<d, row>> : row \in productSales[d] }]
<1>1. IsFiniteSet(Within(r)) /\ Within(r) \in SUBSET Days
  BY WithinFinite
<1>2. RowsWithin(r) = UNION ImageOf(m, Within(r))
  BY DEF RowsWithin, ImageOf
<1>3. ASSUME NEW d \in Within(r)
      PROVE  IsFiniteSet(m[d])
  <2> DEFINE R == productSales[d]
             n == [row \in R |-> <<d, row>>]
  <2>1. IsFiniteSet(R)
    BY <1>1 DEF RebuildInv, RowsFit
  <2>2. m[d] = ImageOf(n, R)
    BY DEF ImageOf
  <2> HIDE DEF R, n, m
  <2> QED BY <2>1, <2>2, FiniteImage
<1>4. ASSUME NEW y \in RowsWithin(r)
      PROVE  /\ \E d \in Within(r) : \E row \in productSales[d] : y = <<d, row>>
             /\ y[2].revenue \in Nat /\ y[2].cost \in Nat /\ y[2].quantity \in Nat \ {0}
             /\ y[2].product \in Products
  <2>1. PICK d \in Within(r) : y \in { <<d, row>> : row \in productSales[d] }
    BY DEF RowsWithin
  <2>2. PICK row \in productSales[d] : y = <<d, row>>
    BY <2>1
  <2>3. row.revenue \in Nat /\ row.cost \in Nat /\ row.quantity \in Nat \ {0} /\ row.product \in Products
    BY <1>1, <2>2 DEF RebuildInv, RowsFit
  <2> QED BY <2>2, <2>3
<1>5. ASSUME NEW d \in Within(r), NEW row \in productSales[d]
      PROVE  <<d, row>> \in RowsWithin(r)
  BY DEF RowsWithin
<1>6. \A T \in ImageOf(m, Within(r)) : IsFiniteSet(T)
  BY <1>3 DEF ImageOf
<1> HIDE DEF m
<1>7. IsFiniteSet(ImageOf(m, Within(r)))
  BY <1>1, FiniteImage
<1> QED BY <1>2, <1>4, <1>5, <1>6, <1>7, FS_UNION

(* The rows of a settled range: one of each day and each product that the   *)
(* standing sales of the day show.                                          *)
LEMMA SettledProductRows ==
  ASSUME ReportsAssumption, CurrentInv, NEW r, IsRange(r), Settled(r)
  PROVE  /\ \A d \in Within(r) : \A p \in ProductsSold(StandingOf(d)) :
              <<d, ProductRow(StandingOf(d), p)>> \in RowsWithin(r)
         /\ \A y \in RowsWithin(r) : \E d \in Within(r) : \E p \in ProductsSold(StandingOf(d)) :
              y = <<d, ProductRow(StandingOf(d), p)>>
<1>1. RebuildInv
  BY DEF CurrentInv
<1>2. \A d \in Within(r) : productSales[d] = { ProductRow(StandingOf(d), p) : p \in ProductsSold(StandingOf(d)) }
  BY SettledRows, ProductRowsOfDay
<1>3. ASSUME NEW d \in Within(r), NEW p \in ProductsSold(StandingOf(d))
      PROVE  <<d, ProductRow(StandingOf(d), p)>> \in RowsWithin(r)
  <2>1. ProductRow(StandingOf(d), p) \in productSales[d]
    BY <1>2
  <2> QED BY <1>1, <2>1, RowsOfRange
<1>4. ASSUME NEW y \in RowsWithin(r)
      PROVE  \E d \in Within(r) : \E p \in ProductsSold(StandingOf(d)) :
               y = <<d, ProductRow(StandingOf(d), p)>>
  <2>1. PICK d \in Within(r) : \E row \in productSales[d] : y = <<d, row>>
    BY <1>1, RowsOfRange
  <2>2. PICK row \in productSales[d] : y = <<d, row>>
    BY <2>1
  <2>3. PICK p \in ProductsSold(StandingOf(d)) : row = ProductRow(StandingOf(d), p)
    BY <1>2, <2>1, <2>2
  <2> QED BY <2>1, <2>2, <2>3
<1> QED BY <1>3, <1>4

(* A live sale is a standing sale of its day, and the other way around. *)
LEMMA LinesOfLive ==
  ASSUME BasketAssumption, CurrentInv, NEW r, IsRange(r)
  PROVE  /\ \A x \in LinesIn(LiveOf(r)) :
              /\ sale[x[1]].day \in Within(r) /\ x[2].product \in Products
              /\ x \in LinesOf(StandingOf(sale[x[1]].day), x[2].product)
         /\ \A d \in Within(r), p \in Products : \A x \in LinesOf(StandingOf(d), p) :
              x \in LinesIn(LiveOf(r)) /\ sale[x[1]].day = d /\ x[2].product = p
<1>1. /\ \A d \in Within(r) : { s \in LiveOf(r) : sale[s].day = d } = StandingOf(d)
      /\ \A s \in LiveOf(r) : sale[s].day \in Within(r)
  BY LiveSalesOf
<1>2. ASSUME NEW x \in LinesIn(LiveOf(r))
      PROVE  /\ sale[x[1]].day \in Within(r) /\ x[2].product \in Products
             /\ x \in LinesOf(StandingOf(sale[x[1]].day), x[2].product)
  <2>1. x \in Lines /\ x[1] \in LiveOf(r)
    BY DEF LinesIn
  <2>2. sale[x[1]].day \in Within(r) /\ x[1] \in StandingOf(sale[x[1]].day)
    BY <1>1, <2>1
  <2>3. x[2].product \in Products
    BY <2>1, LineTypes
  <2> QED BY <2>1, <2>2, <2>3 DEF LinesOf, LinesIn
<1>3. ASSUME NEW d \in Within(r), NEW p \in Products, NEW x \in LinesOf(StandingOf(d), p)
      PROVE  x \in LinesIn(LiveOf(r)) /\ sale[x[1]].day = d /\ x[2].product = p
  <2>1. x \in Lines /\ x[1] \in StandingOf(d) /\ x[2].product = p
    BY DEF LinesOf, LinesIn
  <2>2. x[1] \in LiveOf(r) /\ sale[x[1]].day = d
    BY <1>1, <2>1
  <2> QED BY <2>1, <2>2 DEF LinesIn
<1> QED BY <1>2, <1>3

(* What the products' rows of a settled range say some products sold for is *)
(* what the lines of its live sales do.                                     *)
LEMMA SettledRevenue ==
  ASSUME ReportsAssumption, BasketAssumption, CurrentInv, NEW r, IsRange(r), Settled(r), NEW Q \in SUBSET Products
  PROVE  LineSum("revenue", {y \in RowsWithin(r) : y[2].product \in Q})
           = LineSum("total", {x \in LinesIn(LiveOf(r)) : x[2].product \in Q})
<1>1. PICK T, D : /\ T = {x \in LinesIn(LiveOf(r)) : x[2].product \in Q}
                  /\ D = {y \in RowsWithin(r) : y[2].product \in Q}
  OBVIOUS
<1> DEFINE key == [x \in T |-> <<sale[x[1]].day, ProductRow(StandingOf(sale[x[1]].day), x[2].product)>>]
           g == [y \in D |-> y[2]["revenue"]]
<1>2. PICK f : f = AmountOf("total")
  OBVIOUS
<1>3. "total" \in LineAmounts /\ T \in SUBSET Lines
  BY <1>1 DEF LineAmounts, LinesIn
<1>4. IsFiniteSet(T) /\ LineSum("total", T) = SumFunctionOnSet(f, T) /\ \A x \in T : f[x] \in Int
  <2>1. /\ IsFiniteSet(T) /\ LineSum("total", T) = SumFunctionOnSet(f, T)
        /\ \A x \in T : f[x] \in Nat
    BY <1>2, <1>3, LineSumIs
  <2> QED BY <2>1
<1>5. IsFiniteSet(D)
  BY <1>1, RowsOfRange, FS_Subset DEF CurrentInv
<1>6. \A d : StandingOf(d) \in SUBSET Sales
  BY DEF StandingOf, OfDay, Rung
<1>7. ASSUME NEW x \in T
      PROVE  key[x] \in D
  <2>1. PICK d, p : d = sale[x[1]].day /\ p = x[2].product
    OBVIOUS
  <2>2. x \in LinesIn(LiveOf(r)) /\ p \in Q
    BY <1>1, <2>1
  <2>3. d \in Within(r) /\ p \in Products /\ x \in LinesOf(StandingOf(d), p)
    BY <2>1, <2>2, LinesOfLive
  <2>4. p \in ProductsSold(StandingOf(d))
    BY <2>3 DEF ProductsSold
  <2>5. ProductRow(StandingOf(d), p).product = p
    BY <1>6, <2>4, ProductRowFields
  <2>6. key[x] = <<d, ProductRow(StandingOf(d), p)>>
    BY <2>1
  <2>7. key[x] \in RowsWithin(r)
    BY <2>3, <2>4, <2>6, SettledProductRows
  <2> QED BY <1>1, <2>2, <2>5, <2>6, <2>7
<1>8. key \in [T -> D]
  BY <1>7
<1>9. ASSUME NEW y \in D
      PROVE  g[y] = SumFunctionOnSet(f, GroupOf(T, key, y))
  <2>1. y \in RowsWithin(r) /\ y[2].product \in Q
    BY <1>1
  <2>2. PICK d \in Within(r) : \E p \in ProductsSold(StandingOf(d)) : y = <<d, ProductRow(StandingOf(d), p)>>
    BY <2>1, SettledProductRows
  <2>3. PICK p \in ProductsSold(StandingOf(d)) : y = <<d, ProductRow(StandingOf(d), p)>>
    BY <2>2
  <2>4. PICK S : S = StandingOf(d)
    OBVIOUS
  <2>5. S \in SUBSET Sales /\ p \in ProductsSold(S) /\ p \in Products
    BY <1>6, <2>2, <2>3, <2>4 DEF ProductsSold
  <2>6. ProductRow(S, p).product = p /\ ProductRow(S, p).revenue = LineSum("total", LinesOf(S, p))
    BY <2>5, ProductRowFields
  <2>7. p \in Q /\ g[y] = LineSum("total", LinesOf(S, p))
    BY <2>1, <2>2, <2>3, <2>4, <2>6
  <2>8. ASSUME NEW x \in LinesOf(S, p)
        PROVE  x \in GroupOf(T, key, y)
    <3>1. x \in LinesIn(LiveOf(r)) /\ sale[x[1]].day = d /\ x[2].product = p
      BY <2>4, <2>5, LinesOfLive
    <3>2. x \in T /\ key[x] = y
      BY <1>1, <2>2, <2>3, <2>7, <3>1
    <3> QED BY <3>2 DEF GroupOf
  <2>9. ASSUME NEW x \in GroupOf(T, key, y)
        PROVE  x \in LinesOf(S, p)
    <3>1. x \in T /\ key[x] = y
      BY DEF GroupOf
    <3>2. PICK e, q : e = sale[x[1]].day /\ q = x[2].product
      OBVIOUS
    <3>3. x \in LinesOf(StandingOf(e), q) /\ q \in Products
      BY <1>1, <3>1, <3>2, LinesOfLive
    <3>4. e = d /\ ProductRow(StandingOf(e), q) = ProductRow(S, p)
      BY <2>2, <2>3, <2>4, <3>1, <3>2
    <3>5. q \in ProductsSold(StandingOf(e))
      BY <3>3 DEF ProductsSold
    <3>6. ProductRow(StandingOf(e), q).product = q
      BY <1>6, <3>5, ProductRowFields
    <3>7. q = p
      BY <2>6, <3>4, <3>6
    <3> QED BY <2>4, <3>3, <3>4, <3>7
  <2>10. GroupOf(T, key, y) = LinesOf(S, p)
    BY <2>8, <2>9
  <2>11. LinesOf(S, p) \in SUBSET Lines
    BY DEF LinesOf, LinesIn
  <2>12. LineSum("total", LinesOf(S, p)) = SumFunctionOnSet(f, LinesOf(S, p))
    BY <1>2, <1>3, <2>11, LineSumIs
  <2> QED BY <2>7, <2>10, <2>12
<1>10. LineSum("revenue", D) = SumFunctionOnSet(g, D)
  BY DEF LineSum, SumFunction
<1> HIDE DEF key, g
<1>11. SumFunctionOnSet(g, D) = SumFunctionOnSet(f, T)
  BY <1>4, <1>5, <1>8, <1>9, SumByGroup
<1> QED BY <1>1, <1>4, <1>10, <1>11

(* So the categories agree, *)
LEMMA CategoryRevenue ==
  ASSUME ReportsAssumption, BasketAssumption, CurrentInv, NEW r, IsRange(r), Settled(r), NEW c
  PROVE  SalesByCategory(r, c).revenue =
           LineSum("total", {x \in LinesIn(LiveOf(r)) : Category[x[2].product] = c})
<1>1. PICK Q : Q = { p \in Products : Category[p] = c }
  OBVIOUS
<1>2. Q \in SUBSET Products
  BY <1>1
<1>3. PICK D : D = {y \in RowsWithin(r) : Category[y[2].product] = c}
  OBVIOUS
<1>4. SalesByCategory(r, c).revenue = LineSum("revenue", D)
  BY <1>3 DEF SalesByCategory, Summed
<1>5. ASSUME NEW y \in RowsWithin(r)
      PROVE  y[2].product \in Products
  <2>1. PICK d \in Within(r) : \E p \in ProductsSold(StandingOf(d)) : y = <<d, ProductRow(StandingOf(d), p)>>
    BY SettledProductRows
  <2>2. PICK p \in ProductsSold(StandingOf(d)) : y = <<d, ProductRow(StandingOf(d), p)>>
    BY <2>1
  <2>3. p \in Products
    BY <2>1, <2>2 DEF ProductsSold
  <2>4. y[2].product = p
    BY <2>1, <2>2 DEF ProductRow
  <2> QED BY <2>3, <2>4
<1>6. D = {y \in RowsWithin(r) : y[2].product \in Q}
  BY <1>1, <1>3, <1>5
<1>7. {x \in LinesIn(LiveOf(r)) : Category[x[2].product] = c} = {x \in LinesIn(LiveOf(r)) : x[2].product \in Q}
  BY <1>1, LinesOfLive
<1>8. LineSum("revenue", {y \in RowsWithin(r) : y[2].product \in Q})
        = LineSum("total", {x \in LinesIn(LiveOf(r)) : x[2].product \in Q})
  BY <1>2, SettledRevenue
<1> QED BY <1>4, <1>6, <1>7, <1>8

(* and the products that were sold. *)
LEMMA SettledProducts ==
  ASSUME ReportsAssumption, BasketAssumption, CurrentInv, NEW r, IsRange(r), Settled(r)
  PROVE  SoldSince(r) = {p \in Products : LinesOf(LiveOf(r), p) # {}}
<1>1. ASSUME NEW q \in SoldSince(r)
      PROVE  q \in Products /\ LinesOf(LiveOf(r), q) # {}
  <2>1. PICK y \in RowsWithin(r) : q = y[2].product
    BY DEF SoldSince
  <2>2. PICK d \in Within(r) : \E p \in ProductsSold(StandingOf(d)) : y = <<d, ProductRow(StandingOf(d), p)>>
    BY SettledProductRows
  <2>3. PICK p \in ProductsSold(StandingOf(d)) : y = <<d, ProductRow(StandingOf(d), p)>>
    BY <2>2
  <2>4. q = p
    BY <2>1, <2>2, <2>3 DEF ProductRow
  <2>5. p \in Products /\ LinesOf(StandingOf(d), p) # {}
    BY <2>2, <2>3 DEF ProductsSold
  <2>6. PICK x : x \in LinesOf(StandingOf(d), p)
    BY <2>5
  <2>7. x \in LinesIn(LiveOf(r)) /\ x[2].product = p
    BY <2>2, <2>3, <2>5, <2>6, LinesOfLive
  <2>8. x \in LinesOf(LiveOf(r), p)
    BY <2>7 DEF LinesOf
  <2> QED BY <2>4, <2>5, <2>8
<1>2. ASSUME NEW p \in Products, NEW x, x \in LinesOf(LiveOf(r), p)
      PROVE  p \in SoldSince(r)
  <2>1. x \in LinesIn(LiveOf(r)) /\ x[2].product = p
    BY <1>2 DEF LinesOf
  <2>2. PICK d : d = sale[x[1]].day
    OBVIOUS
  <2>3. d \in Within(r) /\ x \in LinesOf(StandingOf(d), p)
    BY <2>1, <2>2, LinesOfLive
  <2>4. p \in ProductsSold(StandingOf(d))
    BY <2>3 DEF ProductsSold
  <2>5. <<d, ProductRow(StandingOf(d), p)>> \in RowsWithin(r)
    BY <2>3, <2>4, SettledProductRows
  <2>6. <<d, ProductRow(StandingOf(d), p)>>[2].product = p
    BY DEF ProductRow
  <2> QED BY <2>5, <2>6, Zenon DEF SoldSince
<1> QED BY <1>1, <1>2

-----------------------------------------------------------------------------
(* Reports: taxes; the tables of a whole range, week by week.                *)

(* The tax of SalesByDay is that of the tables. *)
LEMMA SettledTax ==
  ASSUME ReportsAssumption, BasketAssumption, CurrentInv, NEW r, IsRange(r), Settled(r)
  PROVE  SumFunction([d \in DOMAIN SalesByDay(r) |-> SalesByDay(r)[d].tax]) = VatSummary(r).tax
<1> DEFINE f == [d \in DOMAIN SalesByDay(r) |-> SalesByDay(r)[d].tax]
           g == [d \in Recorded(r) |-> summary[d]["tax"]]
<1>1. f = g
  BY DEF SalesByDay
<1>2. SummaryTotal(r, "tax") = SumFunction(g)
  BY DEF SummaryTotal
<1>3. VatSummary(r).tax = SumFunctionOnSet(TaxOf, LiveOf(r))
  BY DEF VatSummary
<1>4. SummaryTotal(r, "tax") = SumFunctionOnSet(TaxOf, LiveOf(r))
  BY SettledTotals
<1> HIDE DEF f, g
<1> QED BY <1>1, <1>2, <1>3, <1>4 DEF f

(* The reports read from settled tables say what those read from sales do. *)
LEMMA TablesFollow ==
  ASSUME ReportsAssumption, BasketAssumption, PaidAssumption, CurrentInv, ShopInv
  PROVE  TablesFollowSales
<1> SUFFICES ASSUME NEW r \in Ranges, Settled(r)
             PROVE  LET vat == VatSummary(r) IN
        /\ SummaryTotal(r, "saleCount") = SumFunction([u \in Cashiers |-> SalesByCashier(r, u).saleCount])
        /\ SummaryTotal(r, "voidCount") = Cardinality(Voids(r))
        /\ SummaryTotal(r, "grand") = SumFunction([u \in Cashiers |-> SalesByCashier(r, u).grand])
        /\ SummaryTotal(r, "grand") = SumFunction([m \in Methods |-> SummaryPayments(r, m)])
        /\ SummaryTotal(r, "grand") = SumFunction([h \in Hours |-> SummaryByHour(r, h)])
        /\ SummaryTotal(r, "grand") = SumFunction([c \in Customers |-> CustomersReport(r, c).total])
        /\ SummaryTotal(r, "grand") = vat.grand
        /\ SummaryTotal(r, "discount") = SumFunctionOnSet(DiscountOf, Discounts(r))
        /\ SumFunction([d \in DOMAIN SalesByDay(r) |-> SalesByDay(r)[d].tax]) = vat.tax
        /\ SummaryTotal(r, "cost") = SumFunction([u \in Cashiers |-> SalesByCashier(r, u).cost])
        /\ SummaryTotal(r, "subtotal") = vat.net + vat.tax + vat.zero + vat.exempt
        /\ SummaryTotal(r, "returnCount") >= Cardinality({n \in Refunds(r) : n.kind \in ReturnKinds})
        /\ \A c \in {Category[p] : p \in Products} :
            SalesByCategory(r, c).revenue =
                LineSum("total", {x \in LinesIn(LiveOf(r)) : Category[x[2].product] = c})
        /\ SoldSince(r) = {p \in Products : LinesOf(LiveOf(r), p) # {}}
  BY Zenon DEF TablesFollowSales
<1>1. IsRange(r)
  BY DEF Ranges, Days, IsRange
<1>2. /\ SummaryTotal(r, "saleCount") = Cardinality(LiveOf(r))
      /\ SummaryTotal(r, "voidCount") = Cardinality(Voids(r))
  BY <1>1, SettledCounts
<1>3. /\ SummaryTotal(r, "subtotal") = SumFunctionOnSet(SubtotalOf, LiveOf(r))
      /\ SummaryTotal(r, "discount") = SumFunctionOnSet(DiscountOf, LiveOf(r))
      /\ SummaryTotal(r, "grand") = SumFunctionOnSet(GrandOf, LiveOf(r))
      /\ SummaryTotal(r, "cost") = SumFunctionOnSet(CostOf, LiveOf(r))
  BY <1>1, SettledTotals
<1>4. /\ SumFunction([u \in Cashiers |-> SalesByCashier(r, u).saleCount]) = Cardinality(LiveOf(r))
      /\ SumFunction([u \in Cashiers |-> SalesByCashier(r, u).grand]) = SumFunctionOnSet(GrandOf, LiveOf(r))
      /\ SumFunction([u \in Cashiers |-> SalesByCashier(r, u).cost]) = SumFunctionOnSet(CostOf, LiveOf(r))
      /\ SumFunction([c \in Customers |-> CustomersReport(r, c).total]) = SumFunctionOnSet(GrandOf, LiveOf(r))
  BY <1>1, LiveByPerson
<1>5. /\ SumFunction([m \in Methods |-> SummaryPayments(r, m)]) = SumFunctionOnSet(GrandOf, LiveOf(r))
      /\ SumFunction([h \in Hours |-> SummaryByHour(r, h)]) = SumFunctionOnSet(GrandOf, LiveOf(r))
  BY <1>1, PaymentsTotal, HoursTotal
<1>6. VatSummary(r).grand = SumFunctionOnSet(GrandOf, LiveOf(r))
  BY DEF VatSummary
<1>7. SumFunctionOnSet(DiscountOf, Discounts(r)) = SumFunctionOnSet(DiscountOf, LiveOf(r))
  BY <1>1, DiscountsTotal
<1>8. SumFunction([d \in DOMAIN SalesByDay(r) |-> SalesByDay(r)[d].tax]) = VatSummary(r).tax
  BY <1>1, SettledTax
<1>9. SumFunctionOnSet(SubtotalOf, LiveOf(r))
        = VatSummary(r).net + VatSummary(r).tax + VatSummary(r).zero + VatSummary(r).exempt
  BY <1>1, VatTotal
<1>10. SummaryTotal(r, "returnCount") >= Cardinality({n \in Refunds(r) : n.kind \in ReturnKinds})
  BY <1>1, SettledReturns
<1>11. /\ \A c : SalesByCategory(r, c).revenue =
                LineSum("total", {x \in LinesIn(LiveOf(r)) : Category[x[2].product] = c})
       /\ SoldSince(r) = {p \in Products : LinesOf(LiveOf(r), p) # {}}
  BY <1>1, CategoryRevenue, SettledProducts
<1> QED BY <1>2, <1>3, <1>4, <1>5, <1>6, <1>7, <1>8, <1>9, <1>10, <1>11, Zenon

-----------------------------------------------------------------------------
(* A week contains its day. *)
LEMMA WeekOfDay ==
  ASSUME ReportsAssumption, NEW d \in Nat \ {0}
  PROVE  /\ WeekStart(d) \in Nat \ {0} /\ WeekStart(d) <= d /\ d < WeekStart(d) + WeekLength
<1>1. PICK w \in Nat \ {0} : w = WeekLength
  BY DEF ReportsAssumption
<1>2. PICK n \in Nat : n = d - 1
  OBVIOUS
<1>3. n % w \in 0..(w - 1) /\ n % w <= n
  OBVIOUS
<1> QED BY <1>1, <1>2, <1>3 DEF WeekStart

-----------------------------------------------------------------------------
(* Reports: months, the halves of the dashboard, the profile of a cashier.   *)

(* The month of a day starts before it, and the next one after it. *)
LEMMA MonthOfDay ==
  ASSUME ReportsAssumption, NEW d \in Days
  PROVE  /\ MonthStart(d) \in Int /\ MonthStart(d) <= d
         /\ Min({m \in MonthStarts : m > d} \cup {MaxDay + 1}) \in Int
         /\ Min({m \in MonthStarts : m > d} \cup {MaxDay + 1}) > d
<1>0. d \in Nat /\ MaxDay \in Nat /\ d <= MaxDay /\ MonthStarts \in SUBSET Nat
  BY DEF Days, ReportsAssumption
<1>1. PICK S : S = {m \in MonthStarts : m <= d} \cup {0}
  OBVIOUS
<1>2. \A m \in S : m \in Nat /\ m <= d
  BY <1>0, <1>1
<1>3. \E m \in S : \A n \in S : m >= n
  <2> DEFINE R == { k \in Nat : \E m \in S : k = d - m }
  <2>1. \A m \in S : d - m \in R
    BY <1>0, <1>2
  <2>2. R # {}
    <3>1. 0 \in S
      BY <1>1
    <3> QED BY <2>1, <3>1
  <2>3. PICK k \in R : \A n \in R : k <= n
    BY <2>2, LeastNumber
  <2>4. PICK m \in S : k = d - m
    OBVIOUS
  <2>5. ASSUME NEW n \in S
        PROVE  m >= n
    <3>1. d - m <= d - n
      BY <2>1, <2>3, <2>4
    <3>2. m \in Nat /\ n \in Nat
      BY <1>2
    <3> QED BY <1>0, <3>1, <3>2
  <2> QED BY <2>5
<1>4. Max(S) \in S
  BY <1>3 DEF Max
<1>5. PICK T : T = {m \in MonthStarts : m > d} \cup {MaxDay + 1}
  OBVIOUS
<1>6. T \in SUBSET Nat /\ T # {} /\ \A m \in T : m > d
  <2>1. ASSUME NEW m \in T
        PROVE  m \in Nat /\ m > d
    BY <1>0, <1>5
  <2>2. MaxDay + 1 \in T
    BY <1>5
  <2> QED BY <2>1, <2>2
<1>7. \E m \in T : \A n \in T : m <= n
  BY <1>6, LeastNumber
<1>8. Min(T) \in T
  BY <1>7 DEF Min
<1>9. MonthStart(d) = Max(S)
  BY <1>1 DEF MonthStart
<1> QED BY <1>0, <1>2, <1>4, <1>5, <1>6, <1>8, <1>9

(* Sales of days that have not come do not exist: where a period ends makes *)
(* no difference if it ends after today.                                    *)
LEMMA LiveSoFar ==
  ASSUME CurrentInv, ShopInv, NEW from \in Int, NEW before \in Int, before > today
  PROVE  LiveSales(from, before) = LiveOf([from |-> from, to |-> today])
<1>1. today \in Int /\ \A s \in Rung : sale[s].day \in Int /\ sale[s].day <= today
  BY DEF CurrentInv, ShopInv, Rung, SaleRows, Days
<1> QED BY <1>1 DEF LiveSales, LiveOf

(* So the tables of a period that ends today show the period's sales. *)
LEMMA PeriodAgrees ==
  ASSUME ReportsAssumption, BasketAssumption, CurrentInv, ShopInv,
         NEW from \in Int, NEW before \in Int, before > today,
         NEW r, r = [from |-> from, to |-> today], Settled(r)
  PROVE  SalesInRange(from, before) = [saleCount |-> Dashboard(r).transactions, grand |-> Dashboard(r).sales]
<1>1. IsRange(r)
  BY DEF IsRange, CurrentInv, Days
<1>2. LiveSales(from, before) = LiveOf(r)
  BY LiveSoFar
<1>3. /\ SummaryTotal(r, "saleCount") = Cardinality(LiveOf(r))
      /\ SummaryTotal(r, "grand") = SumFunctionOnSet(GrandOf, LiveOf(r))
  BY <1>1, SettledCounts, SettledTotals
<1>4. Dashboard(r).transactions = SummaryTotal(r, "saleCount") /\ Dashboard(r).sales = SummaryTotal(r, "grand")
  BY DEF Dashboard
<1> QED BY <1>2, <1>3, <1>4, Zenon DEF SalesInRange

(* The two halves of the dashboard show the same figures. *)
LEMMA DashboardHalves ==
  ASSUME ReportsAssumption, BasketAssumption, CurrentInv, ShopInv
  PROVE  DashboardAgrees
<1>0. today \in Days /\ today \in Nat \ {0}
  BY DEF CurrentInv, Days
<1>1. ASSUME NEW period \in DOMAIN LegacyPeriods, Settled(Preset[period])
      PROVE  LegacyPeriods[period] = [saleCount |-> Dashboard(Preset[period]).transactions,
                                      grand |-> Dashboard(Preset[period]).sales]
  <2>1. period \in {"today", "this_week", "this_month"}
    BY DEF LegacyPeriods
  <2>2. CASE period = "today"
    <3>1. /\ Preset[period] = [from |-> today, to |-> today]
          /\ LegacyPeriods[period] = SalesInRange(today, today + 1)
      BY <2>2 DEF Preset, LegacyPeriods
    <3>2. today \in Int /\ today + 1 \in Int /\ today + 1 > today
      BY <1>0
    <3> QED BY <1>1, <3>1, <3>2, PeriodAgrees
  <2>3. CASE period = "this_week"
    <3>1. PICK from, before : from = WeekStart(today) /\ before = WeekStart(today) + WeekLength
      OBVIOUS
    <3>2. /\ Preset[period] = [from |-> from, to |-> today]
          /\ LegacyPeriods[period] = SalesInRange(from, before)
      BY <2>3, <3>1 DEF Preset, LegacyPeriods
    <3>3. from \in Int /\ before \in Int /\ before > today
      BY <1>0, <3>1, WeekOfDay DEF ReportsAssumption
    <3> QED BY <1>1, <3>2, <3>3, PeriodAgrees
  <2>4. CASE period = "this_month"
    <3>1. PICK from, before :
            from = MonthStart(today) /\ before = Min({m \in MonthStarts : m > today} \cup {MaxDay + 1})
      OBVIOUS
    <3>2. /\ Preset[period] = [from |-> from, to |-> today]
          /\ LegacyPeriods[period] = SalesInRange(from, before)
      BY <2>4, <3>1 DEF Preset, LegacyPeriods
    <3>3. from \in Int /\ before \in Int /\ before > today
      BY <1>0, <3>1, MonthOfDay
    <3> QED BY <1>1, <3>2, <3>3, PeriodAgrees
  <2> QED BY <2>1, <2>2, <2>3, <2>4
<1>2. Dashboard(Preset.today).salesPrev = Dashboard(Preset.yesterday).sales
  <2>1. PICK a, b : a = [from |-> today, to |-> today] /\ b = [from |-> today - 1, to |-> today - 1]
    OBVIOUS
  <2>2. Preset.today = a /\ Preset.yesterday = b
    BY <2>1 DEF Preset
  <2>3. Before(a) = b
    BY <1>0, <2>1 DEF Before
  <2>4. Dashboard(a).salesPrev = SummaryTotal(Before(a), "grand") /\ Dashboard(b).sales = SummaryTotal(b, "grand")
    BY DEF Dashboard
  <2> QED BY <2>2, <2>3, <2>4
<1> QED BY <1>1, <1>2, Zenon DEF DashboardAgrees

(* A customer's profile counts the sales that the customers' report counts of *)
(* all days.                                                                  *)
LEMMA ProfileAgrees ==
  ASSUME ReportsAssumption, CurrentInv, NEW c
  PROVE  LET all == CustomersReport([from |-> 1, to |-> MaxDay], c) IN
         Profile(c).saleCount = all.visits /\ Profile(c).totalSpend = all.total
<1>1. PICK r : r = [from |-> 1, to |-> MaxDay]
  OBVIOUS
<1>2. LiveOf(r) = { s \in Rung : Standing(s) }
  <2>1. MaxDay \in Nat
    BY DEF ReportsAssumption
  <2>2. \A s \in Rung : sale[s].day \in 1..MaxDay
    BY DEF CurrentInv, Rung, SaleRows, Days
  <2> QED BY <1>1, <2>1, <2>2 DEF LiveOf, LiveSales
<1>3. PICK A, B : /\ A = { s \in Rung : Basket[s].customer = c /\ Standing(s) }
                  /\ B = { s \in LiveOf(r) : Basket[s].customer = c }
  OBVIOUS
<1>4. A = B
  BY <1>2, <1>3
<1>5. Profile(c).saleCount = Cardinality(A) /\ Profile(c).totalSpend = SumFunctionOnSet(GrandOf, A)
  BY <1>3 DEF Profile
<1>6. /\ CustomersReport(r, c).visits = Cardinality(B)
      /\ CustomersReport(r, c).total = SumFunctionOnSet(GrandOf, B)
  BY <1>3 DEF CustomersReport
<1> QED BY <1>1, <1>4, <1>5, <1>6

-----------------------------------------------------------------------------
(* Reports: stock that does not sell and stock that lasts too long.          *)

(* Rounding down: a quotient reaches k when the dividend does. *)
LEMMA QuotientReaches ==
  ASSUME NEW a \in Int, NEW b \in Nat \ {0}, NEW k \in Int
  PROVE  /\ a \div b \in Int
         /\ a >= k * b => a \div b >= k
         /\ a < (k + 1) * b => a \div b <= k
<1>1. PICK q \in Int, m \in Int : q = a \div b /\ m = a % b
  OBVIOUS
<1>2. a = b * q + m /\ 0 <= m /\ m < b
  BY <1>1
<1>3. ASSUME a >= k * b, q <= k - 1
      PROVE  FALSE
  <2>1. b * q <= b * (k - 1)
    BY <1>3
  <2>2. b * (k - 1) = k * b - b
    OBVIOUS
  <2> QED BY <1>2, <1>3, <2>1, <2>2
<1>4. ASSUME a < (k + 1) * b, q >= k + 1
      PROVE  FALSE
  <2>1. b * q >= b * (k + 1)
    BY <1>4
  <2>2. b * (k + 1) = (k + 1) * b
    OBVIOUS
  <2> QED BY <1>2, <1>4, <2>1, <2>2
<1> QED BY <1>1, <1>3, <1>4

(* A quotient grows with its dividend. *)
LEMMA QuotientGrows ==
  ASSUME NEW a \in Int, NEW c \in Int, NEW b \in Nat \ {0}, a <= c
  PROVE  a \div b <= c \div b
<1>1. PICK q \in Int, m \in Int : q = a \div b /\ m = a % b
  OBVIOUS
<1>2. a = b * q + m /\ 0 <= m /\ m < b
  BY <1>1
<1>3. b * q = q * b
  OBVIOUS
<1>4. c >= q * b
  BY <1>2, <1>3
<1> QED BY <1>1, <1>4, QuotientReaches

-----------------------------------------------------------------------------
(* The totals of products and the products sold. *)
LEMMA ProductTotalTypes ==
  ASSUME ReportsAssumption, RebuildInv, NEW r, IsRange(r)
  PROVE  /\ IsFiniteSet(SoldSince(r))
         /\ \A p : /\ ProductTotals(r, p).revenue \in Nat /\ ProductTotals(r, p).quantity \in Nat
                   /\ ProductTotals(r, p).quantity = 0 <=> p \notin SoldSince(r)
<1>1. /\ IsFiniteSet(RowsWithin(r))
      /\ \A y \in RowsWithin(r) : y[2].revenue \in Nat /\ y[2].quantity \in Nat \ {0}
  BY RowsOfRange
<1>2. IsFiniteSet(SoldSince(r))
  <2> DEFINE R == RowsWithin(r)
             m == [y \in R |-> y[2].product]
  <2>1. SoldSince(r) = ImageOf(m, R)
    BY DEF SoldSince, ImageOf
  <2> HIDE DEF R, m
  <2>2. IsFiniteSet(R)
    BY <1>1 DEF R
  <2> QED BY <2>1, <2>2, FiniteImage
<1>3. ASSUME NEW p
      PROVE  /\ ProductTotals(r, p).revenue \in Nat /\ ProductTotals(r, p).quantity \in Nat
             /\ ProductTotals(r, p).quantity = 0 <=> p \notin SoldSince(r)
  <2> DEFINE D == {y \in RowsWithin(r) : y[2].product = p}
             f == [y \in D |-> y[2]["revenue"]]
             g == [y \in D |-> y[2]["quantity"]]
  <2>1. ProductTotals(r, p).revenue = SumFunction(f) /\ ProductTotals(r, p).quantity = SumFunction(g)
    BY DEF ProductTotals, Summed, LineSum
  <2>2. DOMAIN f = D /\ DOMAIN g = D
    OBVIOUS
  <2>3. IsFiniteSet(D)
    BY <1>1, FS_Subset
  <2>4. /\ \A y \in D : f[y] \in Nat
        /\ \A y \in D : g[y] \in Nat
        /\ \A y \in D : g[y] # 0
    BY <1>1
  <2>5. D = {} <=> p \notin SoldSince(r)
    BY DEF SoldSince
  <2> HIDE DEF D, f, g
  <2>6. SumFunctionOnSet(f, D) \in Nat /\ SumFunctionOnSet(g, D) \in Nat
    BY <2>3, <2>4, SumNat
  <2>7. D = {} => SumFunctionOnSet(g, D) = 0
    BY SumEmpty
  <2>8. ASSUME D # {}
        PROVE  SumFunctionOnSet(g, D) # 0
    <3>1. PICK y : y \in D
      BY <2>8
    <3>2. g[y] \in Int /\ g[y] > 0 /\ {y} \in SUBSET D
      BY <2>4, <3>1
    <3>3. SumFunctionOnSet(g, {y}) = g[y]
      BY <3>2, SumOne
    <3>4. SumFunctionOnSet(g, {y}) <= SumFunctionOnSet(g, D)
      BY <2>3, <2>4, <3>2, SumOfMore
    <3> QED BY <2>6, <3>2, <3>3, <3>4
  <2> QED BY <2>1, <2>2, <2>5, <2>6, <2>7, <2>8 DEF SumFunction
<1> QED BY <1>2, <1>3

(* The last days up to today are a range. *)
LEMMA LastDaysRange ==
  ASSUME ReportsAssumption, CurrentInv, NEW n \in Nat \ {0}
  PROVE  IsRange(LastDays(n)) /\ LastDays(n).to - LastDays(n).from + 1 = n
<1>1. today \in Int
  BY DEF CurrentInv, Days
<1> QED BY <1>1 DEF LastDays, IsRange

(* Nothing in the dead stock was sold in its window, and nothing else with *)
(* stock is missing from it.                                               *)
LEMMA DeadStockAgrees ==
  ASSUME ReportsAssumption, BasketAssumption, CurrentInv, NEW n \in DeadDays, Settled(LastDays(n))
  PROVE  DeadStock(n) = {p \in Products : OnHand[p] > 0 /\ LinesOf(LiveOf(LastDays(n)), p) = {}}
<1>1. IsRange(LastDays(n))
  BY LastDaysRange DEF ReportsAssumption
<1>2. SoldSince(LastDays(n)) = {p \in Products : LinesOf(LiveOf(LastDays(n)), p) # {}}
  BY <1>1, SettledProducts
<1> QED BY <1>2 DEF DeadStock

(* Dead stock above its limit, or without one, is overstock. *)
LEMMA DeadIsOverstock ==
  ASSUME ReportsAssumption, CurrentInv, NEW p \in DeadStock(RateDays)
  PROVE  (OverLimit(p) \/ MaxStock[p] = 0) <=> p \in Overstock
<1>1. IsRange(LastDays(RateDays)) /\ RebuildInv
  BY LastDaysRange DEF ReportsAssumption, CurrentInv
<1>2. p \in Products /\ OnHand[p] > 0 /\ p \notin SoldSince(LastDays(RateDays))
  BY DEF DeadStock
<1>3. ProductTotals(LastDays(RateDays), p).quantity = 0
  BY <1>1, <1>2, ProductTotalTypes
<1> QED BY <1>2, <1>3 DEF Overstock

(* What sells, and is not above its limit, is overstock when its days of     *)
(* inventory exceed the cover.                                               *)
LEMMA OverstockByTurnover ==
  ASSUME ReportsAssumption, CurrentInv, NEW p \in SoldSince(LastDays(RateDays)),
         p \in Products, OnHand[p] > 0, ~OverLimit(p)
  PROVE  IF p \in Overstock THEN Turnover(LastDays(RateDays))[p] >= 10 * CoverDays
         ELSE Turnover(LastDays(RateDays))[p] <= 10 * CoverDays
<1>1. PICK r, sold, D, O, C : /\ r = LastDays(RateDays) /\ sold = ProductTotals(r, p).quantity
                              /\ D = RateDays /\ O = OnHand[p] /\ C = CoverDays
  OBVIOUS
<1>2. D \in Nat \ {0} /\ O \in Nat /\ C \in Nat
  BY <1>1 DEF ReportsAssumption
<1>3. IsRange(r) /\ r.to - r.from + 1 = D
  BY <1>1, <1>2, LastDaysRange
<1>4. sold \in Nat \ {0}
  BY <1>1, <1>3, ProductTotalTypes DEF CurrentInv
<1>5. p \in Overstock <=> O * D > C * sold
  BY <1>1, <1>4 DEF Overstock
<1>6. Turnover(r)[p] = (20 * O * D + sold) \div (2 * sold)
  <2>1. Turnover(r)[p] = (20 * OnHand[p] * (r.to - r.from + 1) + ProductTotals(r, p).quantity)
                            \div (2 * ProductTotals(r, p).quantity)
    BY <1>1, Zenon DEF Turnover
  <2> QED BY <1>1, <1>3, <2>1
<1>7. PICK x \in Int, b \in Nat \ {0}, k \in Int : /\ x = 20 * O * D + sold
                                                   /\ b = 2 * sold /\ k = 10 * C
  BY <1>2, <1>4
<1>8. PICK u \in Int, v \in Int : u = O * D /\ v = C * sold
  BY <1>2, <1>4
<1>9. x = 20 * u + sold /\ k * b = 20 * v /\ (k + 1) * b = 20 * v + 2 * sold
  <2>1. 20 * O * D = 20 * u
    BY <1>2, <1>8
  <2>2. (10 * C) * (2 * sold) = 20 * (C * sold)
    BY <1>2, <1>4
  <2>3. (10 * C + 1) * (2 * sold) = 20 * (C * sold) + 2 * sold
    BY <1>2, <1>4
  <2> QED BY <1>7, <1>8, <2>1, <2>2, <2>3
<1>10. CASE u > v
  <2>1. x >= k * b
    BY <1>4, <1>9, <1>10
  <2>2. x \div b >= k
    BY <2>1, QuotientReaches
  <2> QED BY <1>1, <1>5, <1>6, <1>7, <1>8, <1>10, <2>2
<1>11. CASE ~(u > v)
  <2>1. x < (k + 1) * b
    BY <1>4, <1>9, <1>11
  <2>2. x \div b <= k
    BY <2>1, QuotientReaches
  <2> QED BY <1>1, <1>5, <1>6, <1>7, <1>8, <1>11, <2>2
<1> QED BY <1>10, <1>11

-----------------------------------------------------------------------------
(* Reports: the heatmap, the classes of products, and all of it together.    *)

(* The weekdays of the heatmap share out the hours. *)
LEMMA HeatmapTotal ==
  ASSUME ReportsAssumption, RebuildInv, NEW r, IsRange(r), NEW h \in Hours
  PROVE  SummaryByHour(r, h) = SumFunction([w \in 0..(WeekLength - 1) |-> WeekdayHeatmap(r, w, h)])
<1>1. PICK S, K, W : S = Recorded(r) /\ K = 0..(WeekLength - 1) /\ W = WeekLength
  OBVIOUS
<1> DEFINE f == [d \in S |-> summary[d].byHour[h]]
           key == [d \in S |-> (d - 1) % W]
           g == [w \in K |-> WeekdayHeatmap(r, w, h)]
<1>2. W \in Nat \ {0} /\ IsFiniteSet(K)
  BY <1>1, FS_Interval DEF ReportsAssumption
<1>3. S \in SUBSET Days /\ IsFiniteSet(S) /\ \A d \in S : summary[d] # NoRow
  BY <1>1, WithinFinite, FS_Subset DEF Recorded
<1>4. key \in [S -> K]
  <2>1. ASSUME NEW d \in S
        PROVE  (d - 1) % W \in K
    <3>1. PICK n \in Int : n = d - 1
      BY <1>3 DEF Days
    <3>2. n % W \in 0..(W - 1)
      BY <1>2
    <3> QED BY <1>1, <3>1, <3>2
  <2> QED BY <2>1
<1>5. \A d \in S : f[d] \in Int
  BY <1>3 DEF RebuildInv, RowsTell
<1>6. ASSUME NEW w \in K
      PROVE  g[w] = SumFunctionOnSet(f, GroupOf(S, key, w))
  <2> DEFINE G == {e \in Recorded(r) : (e - 1) % WeekLength = w}
             u == [d \in G |-> summary[d].byHour[h]]
  <2>1. G = GroupOf(S, key, w)
    BY <1>1 DEF GroupOf
  <2>2. g[w] = SumFunction(u) /\ DOMAIN u = G
    BY DEF WeekdayHeatmap
  <2>3. G \in SUBSET S /\ \A d \in G : u[d] = f[d] /\ u[d] \in Int
    BY <1>1, <1>5
  <2> HIDE DEF G, u, f, key, g
  <2>4. IsFiniteSet(G)
    BY <1>3, <2>3, FS_Subset
  <2>5. SumFunctionOnSet(u, G) = SumFunctionOnSet(f, G)
    BY <2>3, <2>4, SumSame
  <2> QED BY <2>1, <2>2, <2>5 DEF SumFunction
<1>7. SummaryByHour(r, h) = SumFunction(f) /\ DOMAIN f = S /\ DOMAIN g = K
  BY <1>1 DEF SummaryByHour
<1> HIDE DEF f, key, g
<1>8. SumFunctionOnSet(g, K) = SumFunctionOnSet(f, S)
  BY <1>2, <1>3, <1>4, <1>5, <1>6, SumByGroup
<1>9. SumFunction(g) = SumFunction(f)
  BY <1>7, <1>8 DEF SumFunction
<1> QED BY <1>1, <1>7, <1>9 DEF g

(* The share that the first i of a list have of its total, in hundredths of  *)
(* a per cent.                                                               *)
ShareOf(running, total) == (20000 * running + total) \div (2 * total)

(* A share within 80% is of 80.01% at most, and a smaller sum has no larger *)
(* share.                                                                   *)
LEMMA ShareRounds ==
  ASSUME NEW a \in Nat, NEW c \in Nat, NEW t \in Nat \ {0}
  PROVE  /\ ShareOf(a, t) \in Int
         /\ a <= c => ShareOf(a, t) <= ShareOf(c, t)
         /\ ShareOf(a, t) <= 8000 => 10000 * a <= 8001 * t
<1>1. PICK b \in Nat \ {0}, x \in Int, y \in Int : b = 2 * t /\ x = 20000 * a + t /\ y = 20000 * c + t
  OBVIOUS
<1>2. ShareOf(a, t) = x \div b /\ ShareOf(c, t) = y \div b
  BY <1>1 DEF ShareOf
<1>3. a <= c => x <= y
  BY <1>1
<1>4. x <= y => x \div b <= y \div b
  BY QuotientGrows
<1>5. x \div b \in Int /\ (x >= 8001 * b => x \div b >= 8001)
  BY QuotientReaches
<1>6. x < 8001 * b => 10000 * a <= 8001 * t
  BY <1>1
<1> QED BY <1>1, <1>2, <1>3, <1>4, <1>5, <1>6

(* The products of class A come first: none of a lower class sold for more, *)
(* and they make 80% of the revenue at most, but for the rounding.          *)
LEMMA ClassAFirst ==
  ASSUME ReportsAssumption, RebuildInv, NEW r, IsRange(r), NEW q \in Rankings(r)
  PROVE  ClassALeads(r, q)
<1> DEFINE A == {i \in DOMAIN q : AbcClass(r, q, i) = "A"}
           revenue == [i \in DOMAIN q |-> ProductTotals(r, q[i]).revenue]
<1>1. PICK n \in Nat : n = Cardinality(SoldSince(r))
  BY ProductTotalTypes, FS_CardinalityType
<1>2. /\ DOMAIN q = 1..n
      /\ \A i, j \in 1..n : i < j => ProductTotals(r, q[i]).revenue >= ProductTotals(r, q[j]).revenue
  BY <1>1 DEF Rankings
<1>3. PICK f, t : f = revenue /\ t = SumFunction(revenue)
  OBVIOUS
<1>4. /\ DOMAIN f = 1..n
      /\ \A i \in 1..n : f[i] \in Nat
      /\ \A i, j \in 1..n : i < j => f[i] >= f[j]
  BY <1>2, <1>3, ProductTotalTypes
<1>5. t = SumFunctionOnSet(f, 1..n)
  BY <1>3, <1>4 DEF SumFunction
<1>6. ASSUME NEW k \in 0..n
      PROVE  /\ IsFiniteSet(1..k) /\ 1..k \in SUBSET (1..n)
             /\ SumFunctionOnSet(f, 1..k) \in Nat
  <2>1. IsFiniteSet(1..k) /\ 1..k \in SUBSET (1..n)
    BY FS_Interval
  <2>2. \A i \in 1..k : f[i] \in Nat
    BY <1>4, <2>1
  <2> QED BY <2>1, <2>2, SumNat
<1>7. t \in Nat
  BY <1>5, <1>6
<1>8. ASSUME NEW i \in 1..n
      PROVE  i \in A <=> t > 0 /\ ShareOf(SumFunctionOnSet(f, 1..i), t) <= 8000
  <2>1. PICK run, share : /\ run = SumFunctionOnSet(f, 1..i)
                          /\ share = IF t > 0 THEN ShareOf(run, t) ELSE 10000
    OBVIOUS
  <2>2. AbcClass(r, q, i) = IF share <= 8000 THEN "A" ELSE IF share <= 9500 THEN "B" ELSE "C"
    BY <1>3, <2>1 DEF AbcClass, ShareOf
  <2>3. AbcClass(r, q, i) = "A" <=> share <= 8000
    BY <2>2
  <2> QED BY <1>2, <2>1, <2>3
<1>9. A \in SUBSET (1..n)
  BY <1>2
<1> HIDE DEF A, revenue
<1>10. ASSUME NEW i \in A, NEW j \in 1..n, j <= i
       PROVE  j \in A
  <2>1. PICK a, c : a = SumFunctionOnSet(f, 1..j) /\ c = SumFunctionOnSet(f, 1..i)
    OBVIOUS
  <2>2. i \in 1..n /\ i \in 0..n /\ j \in 0..n /\ 1..j \in SUBSET (1..i)
    BY <1>9, <1>10
  <2>3. a \in Nat /\ c \in Nat /\ IsFiniteSet(1..i) /\ \A k \in 1..i : f[k] \in Nat
    BY <1>4, <1>6, <2>1, <2>2
  <2>4. a <= c
    BY <2>1, <2>2, <2>3, SumOfMore
  <2>5. t > 0 /\ ShareOf(c, t) <= 8000
    BY <1>8, <2>1, <2>2
  <2>6. t \in Nat \ {0}
    BY <1>7, <2>5
  <2>7. ShareOf(a, t) \in Int /\ ShareOf(c, t) \in Int /\ ShareOf(a, t) <= ShareOf(c, t)
    BY <2>3, <2>4, <2>6, ShareRounds
  <2> QED BY <1>8, <2>1, <2>5, <2>7
<1>11. \A i \in A, j \in (1..n) \ A : f[i] >= f[j]
  <2>1. ASSUME NEW i \in A, NEW j \in (1..n) \ A
        PROVE  f[i] >= f[j]
    <3>1. i \in 1..n /\ i < j
      BY <1>9, <1>10
    <3> QED BY <1>4, <3>1
  <2> QED BY <2>1
<1>12. 10000 * SumFunctionOnSet(f, A) <= 8001 * t
  <2>1. CASE A = {}
    <3>1. SumFunctionOnSet(f, A) = 0
      BY <2>1, SumEmpty
    <3> QED BY <1>7, <3>1
  <2>2. CASE A # {}
    <3> DEFINE R == { k \in Nat : \E m \in A : k = n - m }
    <3>1. R # {} /\ \A m \in A : n - m \in R
      <4>1. ASSUME NEW m \in A
            PROVE  n - m \in R
        <5>1. m \in 1..n
          BY <1>9
        <5>2. n - m \in Nat
          BY <5>1
        <5> QED BY <5>2
      <4> QED BY <2>2, <4>1
    <3>2. PICK k \in R : \A l \in R : k <= l
      BY <3>1, LeastNumber
    <3>3. PICK m \in A : k = n - m
      OBVIOUS
    <3>4. ASSUME NEW i \in A
          PROVE  i \in 1..m
      <4>1. n - m <= n - i
        BY <3>1, <3>2, <3>3
      <4>2. i \in 1..n /\ m \in 1..n
        BY <1>9
      <4> QED BY <4>1, <4>2
    <3> HIDE DEF R
    <3>5. m \in 1..n /\ m \in 0..n /\ A \in SUBSET (1..m)
      BY <1>9, <3>4
    <3>6. PICK a, c : a = SumFunctionOnSet(f, A) /\ c = SumFunctionOnSet(f, 1..m)
      OBVIOUS
    <3>7. IsFiniteSet(1..m) /\ IsFiniteSet(A) /\ c \in Nat /\ \A i \in 1..m : f[i] \in Nat
      BY <1>4, <1>6, <3>5, <3>6, FS_Subset
    <3>8. a <= c
      BY <3>5, <3>6, <3>7, SumOfMore
    <3>9. a \in Nat
      BY <3>5, <3>6, <3>7, SumNat
    <3>10. t > 0 /\ ShareOf(c, t) <= 8000
      BY <1>8, <3>5, <3>6
    <3>11. 10000 * c <= 8001 * t
      BY <1>7, <3>7, <3>10, ShareRounds
    <3>12. 10000 * a <= 8001 * t
      BY <1>7, <3>7, <3>8, <3>9, <3>11
    <3> QED BY <1>7, <3>6, <3>9, <3>12
  <2> QED BY <2>1, <2>2
<1>13. 10000 * SumFunctionOnSet(revenue, A) <= 8001 * SumFunction(revenue)
  BY <1>3, <1>12
<1>14. \A i \in A, j \in DOMAIN q \ A : revenue[i] >= revenue[j]
  BY <1>2, <1>3, <1>11
<1> QED BY <1>13, <1>14 DEF A, revenue, ClassALeads

(* So the stock reports follow the tables. *)
LEMMA StockReports ==
  ASSUME ReportsAssumption, BasketAssumption, CurrentInv
  PROVE  StockReportsAgree
<1>0. RebuildInv
  BY DEF CurrentInv
<1>1. \A n \in DeadDays : Settled(LastDays(n)) =>
        DeadStock(n) = {p \in Products : OnHand[p] > 0 /\ LinesOf(LiveOf(LastDays(n)), p) = {}}
  BY DeadStockAgrees
<1>2. \A p \in DeadStock(RateDays) : OverLimit(p) \/ MaxStock[p] = 0 <=> p \in Overstock
  BY DeadIsOverstock
<1>3. ASSUME NEW p \in {q \in SoldSince(LastDays(RateDays)) : OnHand[q] > 0 /\ ~OverLimit(q)}
      PROVE  IF p \in Overstock THEN Turnover(LastDays(RateDays))[p] >= 10 * CoverDays
             ELSE Turnover(LastDays(RateDays))[p] <= 10 * CoverDays
  <2>1. IsRange(LastDays(RateDays))
    BY LastDaysRange DEF ReportsAssumption
  <2>2. p \in Products
    <3>1. PICK y \in RowsWithin(LastDays(RateDays)) : p = y[2].product
      BY DEF SoldSince
    <3> QED BY <1>0, <2>1, <3>1, RowsOfRange
  <2> QED BY <2>2, OverstockByTurnover
<1>4. \A r \in Ranges : IsRange(r)
  BY DEF Ranges, Days, IsRange
<1>5. \A r \in Ranges : \A q \in Rankings(r) : ClassALeads(r, q)
  BY <1>0, <1>4, ClassAFirst
<1>6. \A r \in Ranges, h \in Hours :
        SummaryByHour(r, h) = SumFunction([w \in 0..(WeekLength - 1) |-> WeekdayHeatmap(r, w, h)])
  <2>1. ASSUME NEW r \in Ranges, NEW h \in Hours
        PROVE  SummaryByHour(r, h) = SumFunction([w \in 0..(WeekLength - 1) |-> WeekdayHeatmap(r, w, h)])
    <3>1. IsRange(r)
      BY <1>4
    <3> QED BY <1>0, <3>1, HeatmapTotal, Zenon
  <2> QED BY <2>1, Zenon
<1> QED BY <1>1, <1>2, <1>3, <1>5, <1>6, Zenon DEF StockReportsAgree

-----------------------------------------------------------------------------
(* Reports that show the same figure agree on it when the tables are         *)
(* settled: the dashboard, the categories, hours, payments and products of   *)
(* the tables with cashiers, VAT, customers, voids and returns read from the *)
(* sales, the stock reports with the tables, and a customer's profile with   *)
(* the customers' report, in every reachable state of Reports                *)
(* (Reports.ReportsAgree, reporting.service.ts:74-1546).                     *)
THEOREM ReportsSayTheSame == ReportsSpec => []ReportsAgree
<1> USE ReportsAssumption, BasketAssumption, PaidAssumption
<1>1. ReportsInit => AgreeInv
  BY CurrentInit, ShopInit DEF AgreeInv
<1>2. AgreeInv /\ [ReportsNext]_reportsVars => AgreeInv'
  BY CurrentStep, ShopStep DEF AgreeInv
<1>3. AgreeInv => ReportsAgree
  <2> SUFFICES ASSUME CurrentInv, ShopInv PROVE ReportsAgree
    BY DEF AgreeInv
  <2>1. TablesFollowSales /\ DashboardAgrees /\ StockReportsAgree
    BY TablesFollow, DashboardHalves, StockReports
  <2>2. \A c \in Customers :
          LET all == CustomersReport([from |-> 1, to |-> MaxDay], c) IN
          Profile(c).saleCount = all.visits /\ Profile(c).totalSpend = all.total
    BY ProfileAgrees, Zenon
  <2> QED BY <2>1, <2>2, Zenon DEF ReportsAgree
<1> QED BY <1>1, <1>2, <1>3, PTL DEF ReportsSpec

=============================================================================
