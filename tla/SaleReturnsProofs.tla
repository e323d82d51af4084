------------------------- MODULE SaleReturnsProofs --------------------------
(* Proofs about SaleReturns, for any requests, lines, quantities and days;   *)
(* and about Batches, which its returns put units back into, for any         *)
(* locations, requests, batches and quantities.                              *)
EXTENDS SaleReturns, Batches, SumTheorems, TLAPS

Steps == {"new", "read", "locked", "numbered", "credited", "recomputed", "done"}

(* Where a request may be while it holds a lock of each kind. A request that *)
(* holds a row is past LockRows, one that holds a counter is past            *)
(* DrawNumber, and one that holds the customer asks for nothing any more.    *)
Holding == [row |-> {"locked", "numbered", "credited", "recomputed"},
            counter |-> {"numbered", "credited", "recomputed"},
            customer |-> {"credited", "recomputed"}]

Rows == {"row"} \X Lines \X Destinations
CounterRows == {"counter"} \X Days
Customer == <<"customer">>

LockOrder ==
  /\ pc \in [Requests -> Steps]
  /\ owner \in [Resources -> Requests \cup {None}]
  /\ \A r \in Requests :
       /\ \A x \in Rows : owner[x] = r => pc[r] \in Holding.row
       /\ \A x \in CounterRows : owner[x] = r => pc[r] \in Holding.counter
       /\ owner[Customer] = r => pc[r] \in Holding.customer
       /\ req[r].day \in Days
       /\ req[r].to \in Destinations
       /\ pc[r] = "credited" => req[r].store \/ Is(r, "redeem")

(* A lock is of a row, of a counter or of the customer. *)
LEMMA ResourceKinds == Resources = Rows \cup CounterRows \cup {Customer}
  BY DEF Resources, Rows, CounterRows, Customer

(* The three kinds of locks have nothing in common. *)
LEMMA KindsDiffer ==
  /\ \A x \in Rows : x \in Resources /\ x \notin CounterRows /\ x # Customer
  /\ \A x \in CounterRows : x \in Resources /\ x \notin Rows /\ x # Customer
  /\ Customer \in Resources /\ Customer \notin Rows /\ Customer \notin CounterRows
<1>1. \A x \in Rows : x[1] = "row"
  BY DEF Rows
<1>2. \A x \in CounterRows : x[1] = "counter"
  BY DEF CounterRows
<1>3. Customer[1] = "customer"
  BY DEF Customer
<1> QED BY <1>1, <1>2, <1>3, ResourceKinds

(* What a request locks first are rows. *)
LEMMA RowsOfAreRows ==
  ASSUME NEW r \in Requests, req[r].to \in Destinations
  PROVE  RowsOf(r) \subseteq Rows
  BY DEF RowsOf, Rows

-----------------------------------------------------------------------------
(* At the start nobody holds anything. *)
LEMMA LockOrderInit == Init => LockOrder
<1> SUFFICES ASSUME Init PROVE LockOrder
  OBVIOUS
<1>1. NoReq.day \in Days /\ NoReq.to \in Destinations
  BY BoundsAssumption DEF NoReq, Days, Destinations
<1> QED BY <1>1, RequestsAssumption, KindsDiffer DEF Init, LockOrder, Steps

(* The read before the transaction takes no lock. *)
LEMMA LockOrderStart ==
  ASSUME LockOrder, NEW r \in Requests, NEW q, Start(r, q),
         q.day \in Days, q.to \in Destinations
  PROVE  LockOrder'
  BY DEF LockOrder, Start, Steps, Holding, Is

(* A lock is granted when nobody holds it. *)
LEMMA LockOrderLockRows ==
  ASSUME LockOrder, NEW r \in Requests, LockRows(r)
  PROVE  LockOrder'
<1>1. RowsOf(r) \subseteq Rows
  BY RowsOfAreRows DEF LockOrder
<1>2. /\ pc[r] = "read" /\ pc' = [pc EXCEPT ![r] = "locked"] /\ req' = req
      /\ \A x \in Rows : owner'[x] = r \/ owner'[x] = owner[x]
      /\ \A x \in CounterRows : owner'[x] = owner[x]
      /\ owner'[Customer] = owner[Customer]
      /\ owner' \in [Resources -> Requests \cup {None}]
  BY <1>1, KindsDiffer DEF LockRows, Lock, GoTo, LockOrder
<1> QED BY <1>2 DEF LockOrder, Steps, Holding, Is

(* Drawing a number takes the counter, after the rows. *)
LEMMA LockOrderDrawNumber ==
  ASSUME LockOrder, NEW r \in Requests, DrawNumber(r)
  PROVE  LockOrder'
<1>1. <<"counter", req[r].day>> \in CounterRows
  BY DEF LockOrder, CounterRows
<1>2. /\ pc[r] = "locked" /\ pc' = [pc EXCEPT ![r] = "numbered"] /\ req' = req
      /\ \A x \in Rows : owner'[x] = owner[x]
      /\ \A x \in CounterRows : owner'[x] = r \/ owner'[x] = owner[x]
      /\ owner'[Customer] = owner[Customer]
      /\ owner' \in [Resources -> Requests \cup {None}]
  BY <1>1, KindsDiffer DEF DrawNumber, Lock, GoTo, LockOrder
<1> QED BY <1>2 DEF LockOrder, Steps, Holding, Is

(* The customer is locked last. *)
LEMMA LockOrderLockCustomer ==
  ASSUME LockOrder, NEW r \in Requests, LockCustomer(r)
  PROVE  LockOrder'
<1>1. /\ pc[r] \in {"locked", "numbered"} /\ pc' = [pc EXCEPT ![r] = "credited"]
      /\ req' = [req EXCEPT ![r].balance = credit]
      /\ req[r].store \/ Is(r, "redeem")
      /\ \A x \in Rows : owner'[x] = owner[x]
      /\ \A x \in CounterRows : owner'[x] = owner[x]
      /\ owner'[Customer] = r
      /\ owner' \in [Resources -> Requests \cup {None}]
  BY KindsDiffer DEF LockCustomer, NeedsCustomer, Lock, GoTo, LockOrder, Customer
<1> QED BY <1>1 DEF LockOrder, Steps, Holding, Is

(* Recomputing the status takes no lock. *)
LEMMA LockOrderRecompute ==
  ASSUME LockOrder, NEW r \in Requests, Recompute(r)
  PROVE  LockOrder'
<1>1. /\ pc[r] \in {"numbered", "credited"} /\ pc' = [pc EXCEPT ![r] = "recomputed"]
      /\ req' = [req EXCEPT ![r].status = StatusAfter(r)] /\ owner' = owner
  BY DEF Recompute, GoTo
<1> QED BY <1>1 DEF LockOrder, Steps, Holding, Is

(* The locks of a request go with its transaction. *)
LEMMA LockOrderEnd ==
  ASSUME LockOrder, NEW r \in Requests, End(r)
  PROVE  LockOrder'
<1>1. NoReq.day \in Days /\ NoReq.to \in Destinations
  BY BoundsAssumption DEF NoReq, Days, Destinations
<1>2. /\ pc' = [pc EXCEPT ![r] = "done"] /\ req' = [req EXCEPT ![r] = NoReq]
      /\ \A x \in Resources : owner'[x] # r /\ owner'[x] \in {owner[x], None}
      /\ owner' \in [Resources -> Requests \cup {None}]
  BY RequestsAssumption DEF End, GoTo, LockOrder
<1> QED BY <1>1, <1>2, KindsDiffer, RequestsAssumption DEF LockOrder, Steps, Holding, Is

(* No step takes a lock out of order. *)
LEMMA LockOrderStep == LockOrder /\ day \in Days /\ [Next]_vars => LockOrder'
<1> SUFFICES ASSUME LockOrder, day \in Days, [Next]_vars PROVE LockOrder'
  OBVIOUS
<1>1. CASE UNCHANGED vars
  BY <1>1 DEF vars, LockOrder, Is
<1>2. CASE Midnight
  BY <1>2 DEF Midnight, LockOrder, Is
<1>3. ASSUME NEW r \in Requests, VoidSale(r) \/ ReturnSale(r) \/ RedeemAtPOS(r)
      PROVE  LockOrder'
  <2>1. CASE VoidSale(r)
    BY <2>1, LockOrderStart DEF VoidSale, AsRead, NoReq, Destinations
  <2>2. CASE ReturnSale(r)
    BY <2>2, LockOrderStart DEF ReturnSale, AsRead, NoReq
  <2>3. CASE RedeemAtPOS(r)
    <3>1. ASSUME NEW n, NEW ask
          PROVE  LET q == [NoReq EXCEPT !.kind = "redeem", !.amount = n, !.ask = ask]
                 IN  q.day \in Days /\ q.to \in Destinations
      BY BoundsAssumption DEF NoReq, Days, Destinations
    <3>2. PICK l \in Lines, n \in 1..OpeningCredit :
            Start(r, [NoReq EXCEPT !.kind = "redeem", !.amount = n,
                                   !.ask = [Nothing EXCEPT ![l] = [times |-> 1, qty |-> 1]]])
      BY <2>3 DEF RedeemAtPOS
    <3> QED BY <3>1, <3>2, LockOrderStart
  <2> QED BY <1>3, <2>1, <2>2, <2>3
<1>4. ASSUME NEW r \in Requests, Work(r) \/ Rollback(r)
      PROVE  LockOrder'
  BY <1>4, LockOrderRecompute, LockOrderEnd
     DEF Work, CommitVoid, CommitReturn, CommitRedeem, Refuse, Rollback
<1> QED BY <1>1, <1>2, <1>3, <1>4, LockOrderLockRows, LockOrderDrawNumber,
           LockOrderLockCustomer DEF Next

(* The first day is a day. *)
LEMMA DayInit == Init => day \in Days
  BY BoundsAssumption DEF Init, Days

(* The day stays within the bound. *)
LEMMA DayStep == day \in Days /\ [Next]_vars => (day \in Days)'
<1> SUFFICES ASSUME day \in Days, [Next]_vars PROVE day' \in Days
  OBVIOUS
<1>1. CASE Midnight
  BY <1>1, BoundsAssumption DEF Midnight, Days
<1>2. CASE UNCHANGED vars
  BY <1>2 DEF vars
<1>3. ASSUME NEW r \in Requests,
             \/ VoidSale(r) \/ ReturnSale(r) \/ RedeemAtPOS(r)
             \/ LockRows(r) \/ DrawNumber(r) \/ LockCustomer(r)
             \/ Work(r) \/ Rollback(r)
      PROVE  day' = day
  BY <1>3 DEF VoidSale, ReturnSale, RedeemAtPOS, Start, LockRows, DrawNumber, LockCustomer,
              Work, Recompute, CommitVoid, CommitReturn, CommitRedeem, Refuse, Rollback, End
<1> QED BY <1>1, <1>2, <1>3 DEF Next

(* The locks are taken in one order: rows, counter, customer. *)
THEOREM LocksAreOrdered == Spec => []LockOrder
<1>1. Spec => [](day \in Days)
  BY DayInit, DayStep, PTL DEF Spec
<1> QED BY <1>1, LockOrderInit, LockOrderStep, PTL DEF Spec

-----------------------------------------------------------------------------
(* Who waits for the holder of a lock waits for one further on in the order. *)
LEMMA WaitedForIsAhead ==
  ASSUME LockOrder, NEW r \in Requests, NEW t \in Requests, WaitsFor(r, t)
  PROVE  \/ pc[r] = "read" /\ pc[t] \in Holding.row
         \/ pc[r] = "locked" /\ ~Is(r, "redeem") /\ pc[t] \in Holding.counter
         \/ NeedsCustomer(r) /\ pc[t] \in Holding.customer
<1>1. PICK x \in Wanted(r) : owner[x] = t
  BY DEF WaitsFor
<1>2. CASE pc[r] = "read"
  <2>1. x \in Rows
    BY <1>1, <1>2, RowsOfAreRows DEF Wanted, LockOrder, NeedsCustomer
  <2> QED BY <1>1, <1>2, <2>1 DEF LockOrder
<1>3. CASE pc[r] = "locked" /\ ~Is(r, "redeem")
  <2>1. x \in CounterRows
    BY <1>1, <1>3 DEF Wanted, LockOrder, NeedsCustomer, CounterRows
  <2> QED BY <1>1, <1>3, <2>1 DEF LockOrder
<1>4. CASE NeedsCustomer(r)
  <2>1. x = Customer
    BY <1>1, <1>4 DEF Wanted, NeedsCustomer, Customer
  <2> QED BY <1>1, <1>4, <2>1 DEF LockOrder
<1>5. CASE ~(pc[r] = "read" \/ (pc[r] = "locked" /\ ~Is(r, "redeem")) \/ NeedsCustomer(r))
  BY <1>1, <1>5 DEF Wanted
<1> QED BY <1>2, <1>3, <1>4, <1>5

(* The one furthest on in any set of requests waits for none of them. *)
LEMMA NobodyWaitsInACircle == LockOrder => NoWaitCycle
<1> SUFFICES ASSUME LockOrder, NEW S \in (SUBSET Requests) \ {{}},
                    \A r \in S : \E t \in S : WaitsFor(r, t)
             PROVE  FALSE
  BY DEF NoWaitCycle
<1> USE DEF Holding
<1>1. ASSUME NEW r \in S
      PROVE  pc[r] \notin {"credited", "recomputed"}
  <2>1. PICK t \in S : WaitsFor(r, t)
    OBVIOUS
  <2> QED BY <2>1, WaitedForIsAhead DEF NeedsCustomer
<1>2. ASSUME NEW r \in S
      PROVE  ~NeedsCustomer(r)
  <2>1. PICK t \in S : WaitsFor(r, t)
    OBVIOUS
  <2> QED BY <1>1, <2>1, WaitedForIsAhead DEF NeedsCustomer
<1>3. ASSUME NEW r \in S
      PROVE  pc[r] # "numbered"
  <2>1. PICK t \in S : WaitsFor(r, t)
    OBVIOUS
  <2> QED BY <1>2, <2>1, WaitedForIsAhead
<1>4. ASSUME NEW r \in S
      PROVE  pc[r] # "locked"
  <2>1. PICK t \in S : WaitsFor(r, t)
    OBVIOUS
  <2> QED BY <1>1, <1>2, <1>3, <2>1, WaitedForIsAhead
<1>5. PICK r \in S : TRUE
  OBVIOUS
<1>6. PICK t \in S : WaitsFor(r, t)
  OBVIOUS
<1> QED BY <1>1, <1>2, <1>3, <1>4, <1>6, WaitedForIsAhead

(* Checkouts with store credit, voids and returns of a sale never wait for   *)
(* each other in a circle: all lock inventory rows, then the CREDIT counter, *)
(* then the customer (sales.service.ts, voidSale, returnSale, checkout).     *)
THEOREM NoCircularWait == Spec => []NoWaitCycle
  BY LocksAreOrdered, NobodyWaitsInACircle, PTL
-----------------------------------------------------------------------------
Statuses == {"COMPLETED", "VOIDED", "PARTIALLY_REFUNDED", "REFUNDED"}

Kinds == {"none", "void", "return", "redeem"}

AskType == [Lines -> [times : Nat, qty : Nat]]

ReqType == [kind : Kinds, ask : AskType, to : Destinations, store : BOOLEAN, amount : Nat,
            day : Days, already : [Lines -> Int], seen : Nat, balance : Int, status : Statuses]

NoteType == [kind : Kinds, ask : AskType, store : BOOLEAN, day : Days]

Typed == /\ status \in Statuses
         /\ notes \in [Requests -> NoteType]
         /\ credit \in Int /\ redeemed \in Nat
         /\ day \in Days
         /\ req \in [Requests -> ReqType]
         /\ changes \in Nat
         /\ stale \in BOOLEAN

InFlight(r) == pc[r] \notin {"new", "done"}

(* What is known of each request: it writes its note at its commit and not   *)
(* earlier; a void asks for everything and pays nothing to the balance.      *)
Course(r) == /\ pc[r] # "done" => notes[r] = NoNote
             /\ InFlight(r) => req[r].kind # "none"
             /\ Is(r, "void") => ~req[r].store /\ req[r].ask = Everything
             /\ pc[r] = "numbered" => ~Is(r, "redeem")
             /\ pc[r] = "recomputed" => Is(r, "return")
             /\ pc[r] = "credited" => req[r].store \/ Is(r, "redeem")

(* Who has read the balance holds the customer, so it is still what it read. *)
KnowsCredit(r) == pc[r] = "credited" \/ (pc[r] = "recomputed" /\ req[r].store)
                    => owner[Customer] = r /\ req[r].balance = credit

(* Who has drawn a number holds its counter; if all notes are returns of its *)
(* day, the status it has worked out still is the one to write.              *)
KnowsStatus(r) ==
  /\ pc[r] \in {"numbered", "credited", "recomputed"} /\ ~Is(r, "redeem")
       => owner[<<"counter", req[r].day>>] = r
  /\ pc[r] = "recomputed" /\ (\A t \in Noted : notes[t].kind = "return" /\ notes[t].day = req[r].day)
       => req[r].status = StatusAfter(r)
  /\ pc[r] = "recomputed" => req[r].status \in {"PARTIALLY_REFUNDED", "REFUNDED"}

(* A request that has seen every change has read the credit lines there are; *)
(* a void has seen none. Past the check, a return fits what it has read.     *)
KnowsLines(r) ==
  /\ req[r].seen <= changes
  /\ InFlight(r) /\ Is(r, "void") => req[r].seen = 0
  /\ InFlight(r) /\ Is(r, "return") /\ req[r].seen = changes
       => \A l \in Lines : req[r].already[l] = Credited(l)
  /\ pc[r] \in {"numbered", "credited", "recomputed"} /\ Is(r, "return") => ReturnAllowed(r)

(* The sale is as it was sold exactly when it has never been changed. *)
Unchanged == /\ status = "COMPLETED" <=> changes = 0
             /\ changes = 0 <=> Noted = {}
             /\ changes = 0 <=> \A r \in Requests : notes[r] = NoNote

-----------------------------------------------------------------------------
(* A step of one request. *)
Act(r) == \/ VoidSale(r) \/ ReturnSale(r) \/ RedeemAtPOS(r)
          \/ LockRows(r) \/ DrawNumber(r) \/ LockCustomer(r)
          \/ Work(r) \/ Rollback(r)

(* A product of naturals is a natural. *)
LEMMA ProductNat == ASSUME NEW a \in Nat, NEW b \in Nat PROVE a * b \in Nat
  OBVIOUS

(* The values requests and notes start from are what their types say. *)
LEMMA StartValues ==
  /\ Nothing \in AskType /\ Everything \in AskType
  /\ NoReq \in ReqType /\ NoNote \in NoteType
  /\ \A l \in Lines : Units(Nothing, l) = 0 /\ Units(Everything, l) = Quantity[l]
  /\ \A l \in Lines : Quantity[l] \in Nat
<1>1. \A l \in Lines : Quantity[l] \in Nat
  BY LinesAssumption
<1>2. Nothing \in AskType /\ Everything \in AskType
  BY <1>1 DEF Nothing, Everything, AskType
<1>3. 1 \in Days
  BY BoundsAssumption DEF Days
<1>4. NoReq \in ReqType
  BY <1>2, <1>3 DEF NoReq, ReqType, Kinds, Destinations, Statuses
<1>5. NoNote \in NoteType
  BY <1>2, <1>3 DEF NoNote, NoteType, Kinds
<1>6. \A l \in Lines : Units(Nothing, l) = 0 /\ Units(Everything, l) = Quantity[l]
  BY <1>1 DEF Units, Nothing, Everything
<1> QED BY <1>1, <1>2, <1>4, <1>5, <1>6

(* Units and sums of units are numbers. *)
LEMMA UnitsNat ==
  ASSUME NEW ask \in AskType
  PROVE  (\A l \in Lines : Units(ask, l) \in Nat) /\ UnitsOf(ask) \in Int
<1>1. ASSUME NEW l \in Lines
      PROVE  Units(ask, l) \in Nat
  <2>1. ask[l].times \in Nat /\ ask[l].qty \in Nat
    BY DEF AskType
  <2> QED BY <2>1, ProductNat DEF Units
<1> DEFINE f == [l \in Lines |-> Units(ask, l)]
<1>2. \A l \in Lines : f[l] \in Int
  BY <1>1
<1> HIDE DEF f
<1>3. SumFunctionOnSet(f, Lines) \in Int
  BY <1>2, SumInt, LinesAssumption
<1> QED BY <1>1, <1>3 DEF UnitsOf, f

(* What a return may ask for is a request. *)
LEMMA AsksTyped == Asks \subseteq AskType
  BY DEF Asks, AskType

(* The units on the notes are a number. *)
LEMMA CreditedInt ==
  ASSUME Typed, NEW l \in Lines
  PROVE  /\ \A r \in Requests : Units(notes[r].ask, l) \in Nat
         /\ Credited(l) \in Int
<1>1. \A r \in Requests : Units(notes[r].ask, l) \in Nat
  BY UnitsNat DEF Typed, NoteType
<1> DEFINE f == [r \in Requests |-> Units(notes[r].ask, l)]
<1>2. \A r \in Requests : f[r] \in Int
  BY <1>1
<1> HIDE DEF f
<1>3. SumFunctionOnSet(f, Requests) \in Int
  BY <1>2, SumInt, RequestsAssumption
<1> QED BY <1>1, <1>3 DEF Credited, f

-----------------------------------------------------------------------------
(* At the start every variable has its type. *)
LEMMA TypedInit == Init => Typed
<1> SUFFICES ASSUME Init PROVE Typed
  OBVIOUS
<1>1. notes \in [Requests -> NoteType] /\ req \in [Requests -> ReqType]
  BY StartValues DEF Init
<1>2. day \in Days
  BY BoundsAssumption DEF Init, Days
<1>3. stale \in BOOLEAN
  BY DEF Init
<1>4. status \in Statuses /\ credit \in Int /\ redeemed \in Nat /\ changes \in Nat
  BY BoundsAssumption DEF Init, Statuses
<1> QED BY <1>1, <1>2, <1>3, <1>4 DEF Typed

(* What a request reads before its transaction has its type. *)
LEMMA ReadTyped ==
  ASSUME Typed
  PROVE  /\ AsRead \in ReqType
         /\ AsRead = [NoReq EXCEPT !.day = day, !.seen = changes,
                                   !.already = [l \in Lines |-> Credited(l)]]
<1>1. [l \in Lines |-> Credited(l)] \in [Lines -> Int]
  BY CreditedInt
<1> DEFINE a == [l \in Lines |-> Credited(l)]
<1>2. AsRead = [NoReq EXCEPT !.day = day, !.seen = changes, !.already = a]
  BY DEF AsRead
<1>3. a \in [Lines -> Int]
  BY <1>1
<1> HIDE DEF a
<1>4. [NoReq EXCEPT !.day = day, !.seen = changes, !.already = a] \in ReqType
  BY <1>3, StartValues DEF Typed, ReqType
<1> QED BY <1>2, <1>4 DEF a

(* A record with one field changed within its type is of the type. *)
LEMMA FieldsTyped ==
  ASSUME NEW q \in ReqType
  PROVE  /\ \A b \in Int : [q EXCEPT !.balance = b] \in ReqType
         /\ \A s \in Statuses : [q EXCEPT !.status = s] \in ReqType
         /\ \A k \in Kinds, n \in Nat : [q EXCEPT !.kind = k, !.amount = n] \in ReqType
         /\ \A k \in Kinds, ask \in AskType : [q EXCEPT !.kind = k, !.ask = ask] \in ReqType
         /\ \A to \in Destinations, b \in BOOLEAN : [q EXCEPT !.to = to, !.store = b] \in ReqType
  BY DEF ReqType

(* What a step does: a request reads, takes a lock, reads the balance or     *)
(* works out the status; it ends without a trace; or it commits.             *)
Reads(r) == \E q \in ReqType :
  /\ Start(r, q)
  /\ q.kind \in {"void", "return", "redeem"}
  /\ q.kind = "void" => status = "COMPLETED" /\ ~q.store /\ q.ask = Everything /\ q.seen = changes
  /\ q.kind = "return" => q.seen = changes /\ q.already = [l \in Lines |-> Credited(l)]
  /\ q.seen \in {0, changes}

Ends(r) == InFlight(r) /\ End(r) /\ UNCHANGED <<SaleVars, CreditVars>>

Commits(r) == CommitVoid(r) \/ CommitReturn(r) \/ CommitRedeem(r)

(* What the three kinds of requests start with. *)
LEMMA Starts ==
  ASSUME Typed, NEW r \in Requests, VoidSale(r) \/ ReturnSale(r) \/ RedeemAtPOS(r)
  PROVE  Reads(r)
<1> DEFINE a == [l \in Lines |-> Credited(l)]
           q0 == [NoReq EXCEPT !.day = day, !.seen = changes, !.already = a]
<1>0. AsRead = q0 /\ q0 \in ReqType /\ a \in [Lines -> Int]
  BY ReadTyped, CreditedInt
<1> HIDE DEF a
<1>1. CASE VoidSale(r)
  <2> DEFINE q == [q0 EXCEPT !.kind = "void", !.ask = Everything]
  <2>1. Start(r, q) /\ status = "COMPLETED"
    BY <1>0, <1>1 DEF VoidSale
  <2>2. q \in ReqType
    BY <1>0, StartValues, FieldsTyped DEF Kinds
  <2>3. q.kind = "void" /\ q.status = "COMPLETED" /\ q.ask = Everything /\ q.seen = changes /\ ~q.store
    BY DEF NoReq
  <2> HIDE DEF q
  <2> QED BY <2>1, <2>2, <2>3 DEF Reads
<1>2. CASE ReturnSale(r)
  <2>1. PICK ask \in Asks, to \in Destinations, store \in BOOLEAN :
          Start(r, [q0 EXCEPT !.kind = "return", !.ask = ask, !.to = to, !.store = store])
    BY <1>0, <1>2 DEF ReturnSale
  <2> DEFINE q1 == [q0 EXCEPT !.kind = "return", !.ask = ask]
             q == [q0 EXCEPT !.kind = "return", !.ask = ask, !.to = to, !.store = store]
  <2>2. q = [q1 EXCEPT !.to = to, !.store = store]
    OBVIOUS
  <2>3. q1 \in ReqType
    BY <1>0, AsksTyped, FieldsTyped DEF Kinds
  <2>4. q \in ReqType
    <3> HIDE DEF q1
    <3> QED BY <2>2, <2>3, FieldsTyped
  <2>5. q.kind = "return" /\ q.status = "COMPLETED" /\ q.seen = changes /\ q.already = a
    BY DEF NoReq
  <2>6. Start(r, q)
    BY <2>1
  <2> HIDE DEF q
  <2> QED BY <2>4, <2>5, <2>6 DEF a, Reads
<1>3. CASE RedeemAtPOS(r)
  <2>1. PICK l \in Lines, n \in 1..OpeningCredit :
          Start(r, [NoReq EXCEPT !.kind = "redeem", !.amount = n,
                                 !.ask = [Nothing EXCEPT ![l] = [times |-> 1, qty |-> 1]]])
    BY <1>3 DEF RedeemAtPOS
  <2> DEFINE one == [Nothing EXCEPT ![l] = [times |-> 1, qty |-> 1]]
             q1 == [NoReq EXCEPT !.kind = "redeem", !.amount = n]
             q == [NoReq EXCEPT !.kind = "redeem", !.amount = n, !.ask = one]
  <2>2. one \in AskType
    BY StartValues DEF AskType
  <2> HIDE DEF one
  <2>3. q1 \in ReqType
    <3>1. n \in Nat
      OBVIOUS
    <3> QED BY <3>1, StartValues, FieldsTyped DEF Kinds
  <2>4. q = [q1 EXCEPT !.kind = "redeem", !.ask = one]
    BY DEF NoReq
  <2>5. q \in ReqType
    <3> HIDE DEF q1
    <3> QED BY <2>2, <2>3, <2>4, FieldsTyped DEF Kinds
  <2>6. q.kind = "redeem" /\ q.status = "COMPLETED" /\ q.seen = 0
    BY DEF NoReq
  <2>7. Start(r, q)
    BY <2>1 DEF one
  <2> HIDE DEF q
  <2> QED BY <2>5, <2>6, <2>7 DEF Reads
<1> QED BY <1>1, <1>2, <1>3

(* These are all the steps a request takes. *)
LEMMA ActKinds ==
  ASSUME Typed, NEW r \in Requests, Act(r)
  PROVE  \/ Reads(r) \/ LockRows(r) \/ DrawNumber(r) \/ LockCustomer(r) \/ Recompute(r)
         \/ Ends(r) \/ Commits(r)
<1>1. Refuse(r) \/ Rollback(r) => Ends(r)
  BY DEF Refuse, Refused, Rollback, Ends, InFlight
<1> QED BY <1>1, Starts DEF Act, Work, Commits

(* The status a return writes is one of a sale. *)
LEMMA StatusAfterTyped ==
  ASSUME NEW r \in Requests
  PROVE  StatusAfter(r) \in Statuses \ {"COMPLETED", "VOIDED"}
  BY DEF StatusAfter, Statuses

(* The types hold in every step. *)
LEMMA TypedStep == Typed /\ [Next]_vars => Typed'
<1> SUFFICES ASSUME Typed, [Next]_vars PROVE Typed'
  OBVIOUS
<1> USE DEF Typed
<1>1. CASE UNCHANGED vars
  BY <1>1 DEF vars
<1>2. CASE Midnight
  BY <1>2, DayStep DEF Midnight, SaleVars, CreditVars, Days
<1>3. ASSUME NEW r \in Requests, Act(r)
      PROVE  Typed'
  <2>1. CASE Reads(r)
    BY <2>1 DEF Reads, Start, SaleVars, CreditVars
  <2>2. CASE LockRows(r)
    BY <2>2 DEF LockRows, SaleVars, CreditVars
  <2>3. CASE DrawNumber(r)
    BY <2>3 DEF DrawNumber, SaleVars, CreditVars
  <2>4. CASE LockCustomer(r)
    <3>1. [req[r] EXCEPT !.balance = credit] \in ReqType
      BY FieldsTyped
    <3> DEFINE q == [req[r] EXCEPT !.balance = credit]
    <3>2. req' = [req EXCEPT ![r] = q]
      BY <2>4 DEF LockCustomer
    <3> HIDE DEF q
    <3> QED BY <2>4, <3>1, <3>2 DEF LockCustomer, SaleVars, CreditVars, q
  <2>5. CASE Recompute(r)
    <3> DEFINE q == [req[r] EXCEPT !.status = StatusAfter(r)]
    <3>1. q \in ReqType
      BY StatusAfterTyped, FieldsTyped
    <3>2. req' = [req EXCEPT ![r] = q]
      BY <2>5 DEF Recompute
    <3> HIDE DEF q
    <3> QED BY <2>5, <3>1, <3>2 DEF Recompute, SaleVars, CreditVars
  <2>6. CASE Ends(r)
    BY <2>6, StartValues DEF Ends, End, SaleVars, CreditVars
  <2>7. CASE Commits(r)
    <3>1. req[r] \in ReqType
      OBVIOUS
    <3>2. End(r) /\ req' \in [Requests -> ReqType]
      BY <2>7, StartValues DEF Commits, CommitVoid, CommitReturn, CommitRedeem, End
    <3>3. [kind |-> req[r].kind, ask |-> req[r].ask, store |-> req[r].store, day |-> req[r].day]
            \in NoteType
      BY <3>1 DEF NoteType, ReqType
    <3>4. ASSUME NEW s \in Statuses, Settle(r, s)
          PROVE  /\ status' \in Statuses /\ changes' \in Nat /\ stale' \in BOOLEAN
                 /\ notes' \in [Requests -> NoteType]
      BY <3>3, <3>4 DEF Settle
    <3>5. req[r].status \in Statuses /\ "VOIDED" \in Statuses
      BY <3>1 DEF ReqType, Statuses
    <3>6. /\ status' \in Statuses /\ changes' \in Nat /\ stale' \in BOOLEAN
          /\ notes' \in [Requests -> NoteType]
      BY <2>7, <3>4, <3>5 DEF Commits, CommitVoid, CommitReturn, CommitRedeem, SaleVars
    <3>7. UnitsOf(req[r].ask) \in Int /\ req[r].balance \in Int /\ req[r].amount \in Nat
      BY <3>1, UnitsNat DEF ReqType
    <3>8. credit' \in Int /\ redeemed' \in Nat
      BY <2>7, <3>7 DEF Commits, CommitVoid, CommitReturn, CommitRedeem, CreditVars
    <3> QED BY <3>2, <3>6, <3>8 DEF End
  <2> QED BY <1>3, <2>1, <2>2, <2>3, <2>4, <2>5, <2>6, <2>7, ActKinds
<1> QED BY <1>1, <1>2, <1>3 DEF Next, Act

(* Every variable keeps its type. *)
THEOREM TypesHold == Spec => []Typed
  BY TypedInit, TypedStep, PTL DEF Spec

-----------------------------------------------------------------------------
(* A step of one request leaves the others, their notes and their locks.     *)
LEMMA OthersKeep ==
  ASSUME LockOrder, Typed, NEW r \in Requests, Act(r), NEW t \in Requests, t # r
  PROVE  /\ pc'[t] = pc[t] /\ req'[t] = req[t] /\ notes'[t] = notes[t]
         /\ \A x \in Resources : owner[x] = t => owner'[x] = t
<1> USE DEF Typed, SaleVars, CreditVars, GoTo
<1>0. pc \in [Requests -> Steps] /\ owner \in [Resources -> Requests \cup {None}]
  BY DEF LockOrder
<1>1. ASSUME NEW S, Lock(r, S)
      PROVE  \A x \in Resources : owner[x] = t => owner'[x] = t
  BY <1>0, <1>1, RequestsAssumption DEF Lock
<1>2. CASE Reads(r)
  BY <1>0, <1>2 DEF Reads, Start
<1>3. CASE LockRows(r)
  BY <1>0, <1>1, <1>3 DEF LockRows
<1>4. CASE DrawNumber(r)
  BY <1>0, <1>1, <1>4 DEF DrawNumber
<1>5. CASE LockCustomer(r)
  BY <1>0, <1>1, <1>5 DEF LockCustomer
<1>6. CASE Recompute(r)
  BY <1>0, <1>6 DEF Recompute
<1>7. ASSUME End(r)
      PROVE  /\ pc'[t] = pc[t] /\ req'[t] = req[t]
             /\ \A x \in Resources : owner[x] = t => owner'[x] = t
  BY <1>0, <1>7 DEF End
<1>8. CASE Ends(r)
  BY <1>7, <1>8 DEF Ends
<1>9. CASE Commits(r)
  BY <1>7, <1>9 DEF Commits, CommitVoid, CommitReturn, CommitRedeem, Settle
<1> QED BY <1>2, <1>3, <1>4, <1>5, <1>6, <1>8, <1>9, ActKinds

(* At the start no request has done anything. *)
LEMMA CourseInit == Init => \A r \in Requests : Course(r)
  BY DEF Init, Course, Is, InFlight, NoReq

(* A request keeps to its course. *)
LEMMA CourseStep ==
  ASSUME LockOrder, Typed, \A r \in Requests : Course(r), [Next]_vars
  PROVE  \A r \in Requests : Course(r)'
<1> USE DEF Course, Is, InFlight
<1>0. pc \in [Requests -> Steps] /\ req \in [Requests -> ReqType]
  BY DEF LockOrder, Typed
<1>1. CASE UNCHANGED vars
  BY <1>1 DEF vars
<1>2. CASE Midnight
  BY <1>2 DEF Midnight, SaleVars
<1>3. ASSUME NEW r \in Requests, Act(r), NEW t \in Requests
      PROVE  Course(t)'
  <2>1. CASE t # r
    <3>1. pc'[t] = pc[t] /\ req'[t] = req[t] /\ notes'[t] = notes[t]
      BY <1>3, <2>1, OthersKeep
    <3> QED BY <3>1
  <2> SUFFICES ASSUME t = r PROVE Course(r)'
    BY <2>1
  <2> USE DEF SaleVars, GoTo
  <2>2. CASE Reads(r)
    BY <1>0, <2>2 DEF Reads, Start
  <2>3. CASE LockRows(r)
    BY <1>0, <2>3 DEF LockRows
  <2>4. CASE DrawNumber(r)
    BY <1>0, <2>4 DEF DrawNumber
  <2>5. CASE LockCustomer(r)
    BY <1>0, <2>5 DEF LockCustomer, NeedsCustomer, ReqType
  <2>6. CASE Recompute(r)
    BY <1>0, <2>6 DEF Recompute, ReqType
  <2>7. CASE Ends(r) \/ Commits(r)
    <3>1. pc'[r] = "done" /\ req'[r] = NoReq
      BY <1>0, <2>7 DEF Ends, End, Commits, CommitVoid, CommitReturn, CommitRedeem
    <3> QED BY <3>1 DEF NoReq
  <2> QED BY <1>3, <2>2, <2>3, <2>4, <2>5, <2>6, <2>7, ActKinds
<1> QED BY <1>1, <1>2, <1>3 DEF Next, Act

(* What the invariants below rest on. *)
Base == LockOrder /\ Typed /\ \A r \in Requests : Course(r)

(* Every request keeps to its course: its note is written by its commit. *)
THEOREM CoursesHold == Spec => []Base
<1>1. Init => Base
  BY LockOrderInit, TypedInit, CourseInit DEF Base
<1>2. Base /\ [Next]_vars => Base'
  <2> SUFFICES ASSUME Base, [Next]_vars PROVE Base'
    OBVIOUS
  <2>1. LockOrder /\ Typed /\ day \in Days /\ \A r \in Requests : Course(r)
    BY DEF Base, Typed
  <2>2. LockOrder' /\ Typed'
    BY <2>1, LockOrderStep, TypedStep
  <2>3. \A r \in Requests : Course(r)'
    BY <2>1, CourseStep
  <2> QED BY <2>2, <2>3 DEF Base
<1> QED BY <1>1, <1>2, PTL DEF Spec

-----------------------------------------------------------------------------
(* The store credit a request has issued. *)
IssuedBy(r) == IF notes[r].store THEN UnitsOf(notes[r].ask) ELSE 0

(* What is issued is a number. *)
LEMMA IssuedInt ==
  ASSUME Typed
  PROVE  Issued \in Int /\ \A r \in Requests : IssuedBy(r) \in Int
<1>1. \A r \in Requests : IssuedBy(r) \in Int
  BY UnitsNat DEF Typed, NoteType, IssuedBy
<1> DEFINE f == [r \in Requests |-> IF notes[r].store THEN UnitsOf(notes[r].ask) ELSE 0]
<1>2. \A r \in Requests : f[r] \in Int
  BY <1>1 DEF IssuedBy
<1> HIDE DEF f
<1>3. SumFunctionOnSet(f, Requests) \in Int
  BY <1>2, SumInt, RequestsAssumption
<1> QED BY <1>1, <1>3 DEF Issued, f

(* The note of a commit adds to the store credit issued. *)
LEMMA IssuedSettle ==
  ASSUME Base, Typed', NEW r \in Requests, pc[r] # "done", NEW s, Settle(r, s)
  PROVE  Issued' = Issued + (IF req[r].store THEN UnitsOf(req[r].ask) ELSE 0)
<1> DEFINE f == [t \in Requests |-> IF notes[t].store THEN UnitsOf(notes[t].ask) ELSE 0]
           g == [t \in Requests |-> IF notes'[t].store THEN UnitsOf(notes'[t].ask) ELSE 0]
<1>1. \A t \in Requests : f[t] \in Int
  BY IssuedInt DEF Base, IssuedBy
<1>2. \A t \in Requests : g[t] \in Int
  BY UnitsNat DEF Typed, NoteType
<1>3. /\ notes'[r].store = req[r].store /\ notes'[r].ask = req[r].ask
      /\ \A t \in Requests \ {r} : notes'[t] = notes[t]
      /\ ~notes[r].store
  BY DEF Settle, Base, Typed, Course, NoNote
<1>4. f[r] = 0 /\ g[r] = IF req[r].store THEN UnitsOf(req[r].ask) ELSE 0
  BY <1>3
<1>5. \A t \in Requests \ {r} : f[t] = g[t]
  BY <1>3
<1>6. Issued = SumFunctionOnSet(f, Requests) /\ Issued' = SumFunctionOnSet(g, Requests)
  BY DEF Issued
<1> HIDE DEF f, g
<1>7. SumFunctionOnSet(f, Requests) \in Int
  <2>1. IsFiniteSet(Requests)
    BY RequestsAssumption
  <2> QED BY <1>1, <2>1, SumInt
<1>8. SumFunctionOnSet(g, Requests) = SumFunctionOnSet(f, Requests) + g[r] - f[r]
  <2>1. \A t \in Requests : f[t] \in Int /\ g[t] \in Int
    BY <1>1, <1>2
  <2>2. IsFiniteSet(Requests) /\ r \in Requests
    BY RequestsAssumption
  <2> QED BY <1>5, <2>1, <2>2, SumChange
<1>9. g[r] \in Int
  BY <1>2
<1> QED BY <1>4, <1>6, <1>7, <1>9, <1>8

(* The store credit is explained, and who has read it knows it.              *)
CreditInv == /\ \A r \in Requests : KnowsCredit(r)
             /\ StoreCreditExplained

(* At the start nothing is issued or redeemed. *)
LEMMA CreditInit == Init => CreditInv
<1> SUFFICES ASSUME Init PROVE CreditInv
  OBVIOUS
<1>1. \A r \in Requests : KnowsCredit(r)
  BY DEF Init, KnowsCredit
<1> DEFINE f == [r \in Requests |-> IF notes[r].store THEN UnitsOf(notes[r].ask) ELSE 0]
<1>2. \A r \in Requests : f[r] = 0
  BY DEF Init, NoNote
<1>3. Issued = SumFunctionOnSet(f, Requests)
  BY DEF Issued
<1> HIDE DEF f
<1>4. Issued = 0
  BY <1>2, <1>3, SumZero, RequestsAssumption
<1> QED BY <1>1, <1>4, BoundsAssumption DEF CreditInv, StoreCreditExplained, Init

(* Without a commit the notes and the balance stay.                          *)
LEMMA CreditSame ==
  ASSUME UNCHANGED <<notes, credit, redeemed>>, StoreCreditExplained
  PROVE  StoreCreditExplained'
  BY DEF StoreCreditExplained, Issued

(* A commit that changes the balance goes by the balance there is.           *)
LEMMA CreditCommit ==
  ASSUME Base, Typed', CreditInv, NEW r \in Requests, Commits(r)
  PROVE  StoreCreditExplained'
<1>0. /\ Issued \in Int /\ credit \in Int /\ redeemed \in Nat
      /\ Course(r) /\ KnowsCredit(r) /\ credit = OpeningCredit + Issued - redeemed
  BY IssuedInt DEF Base, Typed, CreditInv, StoreCreditExplained
<1>1. UnitsOf(req[r].ask) \in Int /\ req[r].amount \in Nat
  BY UnitsNat DEF Base, Typed, ReqType
<1>2. OpeningCredit \in Nat
  BY BoundsAssumption
<1>3. CASE CommitVoid(r)
  <2>1. /\ Settle(r, "VOIDED") /\ ~req[r].store /\ pc[r] # "done"
        /\ credit' = credit /\ redeemed' = redeemed
    BY <1>0, <1>3 DEF CommitVoid, CreditVars, Course
  <2>2. Issued' = Issued
    BY <1>0, <2>1, IssuedSettle
  <2> QED BY <1>0, <2>1, <2>2 DEF StoreCreditExplained
<1>4. CASE CommitReturn(r)
  <2>1. /\ Settle(r, req[r].status) /\ pc[r] # "done" /\ redeemed' = redeemed
        /\ credit' = IF req[r].store THEN credit + UnitsOf(req[r].ask) ELSE credit
    BY <1>0, <1>4 DEF CommitReturn, KnowsCredit
  <2>2. Issued' = Issued + (IF req[r].store THEN UnitsOf(req[r].ask) ELSE 0)
    BY <2>1, IssuedSettle
  <2> QED BY <1>0, <1>1, <1>2, <2>1, <2>2 DEF StoreCreditExplained
<1>5. CASE CommitRedeem(r)
  <2>1. /\ notes' = notes /\ redeemed' = redeemed + req[r].amount
        /\ credit' = credit - req[r].amount
    BY <1>0, <1>5 DEF CommitRedeem, SaleVars, KnowsCredit
  <2>2. Issued' = Issued
    BY <2>1 DEF Issued
  <2> QED BY <1>0, <1>1, <1>2, <2>1, <2>2 DEF StoreCreditExplained
<1> QED BY <1>3, <1>4, <1>5 DEF Commits

(* Only who holds the customer changes the balance. *)
LEMMA CreditStep ==
  ASSUME Base, Base', CreditInv, [Next]_vars
  PROVE  CreditInv'
<1> USE DEF Is
<1>0. /\ LockOrder /\ Typed /\ pc \in [Requests -> Steps] /\ req \in [Requests -> ReqType]
      /\ owner \in [Resources -> Requests \cup {None}] /\ Customer \in Resources
      /\ \A r \in Requests : Course(r) /\ KnowsCredit(r)
      /\ StoreCreditExplained
  BY KindsDiffer DEF Base, LockOrder, Typed, CreditInv
<1>1. CASE UNCHANGED vars
  BY <1>0, <1>1, CreditSame DEF vars, CreditInv, KnowsCredit
<1>2. CASE Midnight
  BY <1>0, <1>2, CreditSame DEF Midnight, SaleVars, CreditVars, CreditInv, KnowsCredit
<1>3. ASSUME NEW r \in Requests, Act(r)
      PROVE  StoreCreditExplained'
  <2>1. CASE UNCHANGED <<SaleVars, CreditVars>>
    BY <1>0, <2>1, CreditSame DEF SaleVars, CreditVars
  <2>2. CASE Commits(r)
    BY <2>2, CreditCommit DEF Base
  <2> QED BY <1>0, <1>3, <2>1, <2>2, ActKinds
          DEF Reads, Start, LockRows, DrawNumber, LockCustomer, Recompute, Ends
<1>4. ASSUME NEW r \in Requests, Act(r), NEW t \in Requests
      PROVE  KnowsCredit(t)'
  <2>1. CASE t # r
    <3>1. /\ pc'[t] = pc[t] /\ req'[t] = req[t]
          /\ owner[Customer] = t => owner'[Customer] = t
      BY <1>0, <1>4, <2>1, OthersKeep
    <3>2. credit' = credit \/ owner[Customer] = r
      <4>1. CASE Commits(r)
        BY <1>0, <4>1 DEF Commits, CommitVoid, CommitReturn, CommitRedeem, CreditVars, KnowsCredit
      <4> QED BY <1>0, <1>4, <4>1, ActKinds
              DEF Reads, Start, LockRows, DrawNumber, LockCustomer, Recompute, Ends, CreditVars
    <3> QED BY <1>0, <2>1, <3>1, <3>2 DEF KnowsCredit
  <2> SUFFICES ASSUME t = r PROVE KnowsCredit(r)'
    BY <2>1
  <2> USE DEF CreditVars, GoTo
  <2>2. CASE Reads(r)
    BY <1>0, <2>2 DEF Reads, Start, KnowsCredit
  <2>3. CASE LockRows(r)
    BY <1>0, <2>3 DEF LockRows, KnowsCredit
  <2>4. CASE DrawNumber(r)
    BY <1>0, <2>4 DEF DrawNumber, KnowsCredit
  <2>5. CASE LockCustomer(r)
    <3>1. owner'[Customer] = r
      BY <1>0, <2>5 DEF LockCustomer, Lock, Customer
    <3>2. req'[r].balance = credit
      BY <1>0, <2>5 DEF LockCustomer, ReqType
    <3> QED BY <2>5, <3>1, <3>2 DEF LockCustomer, KnowsCredit
  <2>6. CASE Recompute(r)
    <3>1. /\ req'[r].balance = req[r].balance /\ req'[r].store = req[r].store
          /\ owner' = owner /\ credit' = credit /\ pc'[r] = "recomputed"
          /\ req[r].store => pc[r] = "credited"
      BY <1>0, <2>6 DEF Recompute, ReqType
    <3> QED BY <1>0, <3>1 DEF KnowsCredit
  <2>7. CASE Ends(r) \/ Commits(r)
    BY <1>0, <2>7 DEF Ends, End, Commits, CommitVoid, CommitReturn, CommitRedeem, KnowsCredit
  <2> QED BY <1>0, <1>4, <2>2, <2>3, <2>4, <2>5, <2>6, <2>7, ActKinds
<1> QED BY <1>1, <1>2, <1>3, <1>4 DEF Next, Act, CreditInv

(* No update of the store credit is lost: every balance is read under the    *)
(* customer's lock, which is kept to the commit that writes it (the FOR      *)
(* UPDATE of returnSale and of checkout in sales.service.ts).                *)
THEOREM StoreCreditIsExplained == Spec => []StoreCreditExplained
<1>1. Base /\ Base' /\ CreditInv /\ [Next]_vars => CreditInv'
  BY CreditStep
<1>2. CreditInv => StoreCreditExplained
  BY DEF CreditInv
<1> QED BY <1>1, <1>2, CoursesHold, CreditInit, PTL DEF Spec

-----------------------------------------------------------------------------
(* Without a commit the units on the notes stay.                             *)
LEMMA CreditedSame ==
  ASSUME notes' = notes, NEW l \in Lines
  PROVE  Credited(l)' = Credited(l)
  BY DEF Credited

(* The note of a commit adds its units. *)
LEMMA CreditedSettle ==
  ASSUME Base, Typed', NEW r \in Requests, pc[r] # "done", NEW s, Settle(r, s), NEW l \in Lines
  PROVE  Credited(l)' = Credited(l) + Units(req[r].ask, l)
<1> DEFINE f == [t \in Requests |-> Units(notes[t].ask, l)]
           g == [t \in Requests |-> Units(notes'[t].ask, l)]
<1>1. \A t \in Requests : f[t] \in Int
  BY CreditedInt DEF Base
<1>2. \A t \in Requests : g[t] \in Int
  BY UnitsNat DEF Typed, NoteType
<1>3. /\ notes'[r].ask = req[r].ask
      /\ \A t \in Requests \ {r} : notes'[t] = notes[t]
      /\ notes[r].ask = Nothing
  BY DEF Settle, Base, Typed, Course, NoNote
<1>4. f[r] = 0 /\ g[r] = Units(req[r].ask, l)
  BY <1>3, StartValues
<1>5. \A t \in Requests \ {r} : f[t] = g[t]
  BY <1>3
<1>6. Credited(l) = SumFunctionOnSet(f, Requests) /\ Credited(l)' = SumFunctionOnSet(g, Requests)
  BY DEF Credited, Units
<1> HIDE DEF f, g
<1>7. SumFunctionOnSet(f, Requests) \in Int
  <2>1. IsFiniteSet(Requests)
    BY RequestsAssumption
  <2> QED BY <1>1, <2>1, SumInt
<1>8. SumFunctionOnSet(g, Requests) = SumFunctionOnSet(f, Requests) + g[r] - f[r]
  <2>1. \A t \in Requests : f[t] \in Int /\ g[t] \in Int
    BY <1>1, <1>2
  <2>2. IsFiniteSet(Requests) /\ r \in Requests
    BY RequestsAssumption
  <2> QED BY <1>5, <2>1, <2>2, SumChange
<1>9. g[r] \in Int
  BY <1>2
<1> QED BY <1>4, <1>6, <1>7, <1>8, <1>9

(* Nothing noted, nothing credited. *)
LEMMA CreditedNothing ==
  ASSUME \A r \in Requests : notes[r] = NoNote, NEW l \in Lines
  PROVE  Credited(l) = 0
<1> DEFINE f == [r \in Requests |-> Units(notes[r].ask, l)]
<1>1. \A r \in Requests : f[r] = 0
  BY StartValues DEF NoNote
<1>2. Credited(l) = SumFunctionOnSet(f, Requests)
  BY DEF Credited
<1> HIDE DEF f
<1> QED BY <1>1, <1>2, SumZero, RequestsAssumption

-----------------------------------------------------------------------------
(* A request that has not committed has no note; who commits has one.        *)
LEMMA NotedSettle ==
  ASSUME Base, NEW r \in Requests, InFlight(r), NEW s, Settle(r, s)
  PROVE  /\ r \notin Noted /\ Noted' = Noted \cup {r}
         /\ notes'[r].kind = req[r].kind /\ notes'[r].day = req[r].day
         /\ notes'[r].ask = req[r].ask
         /\ \A t \in Noted : t # r /\ notes'[t] = notes[t]
  BY DEF Settle, Base, Typed, Course, NoNote, Noted, InFlight

(* What is known of the status. *)
StatusInv == /\ \A r \in Requests : KnowsStatus(r)
             /\ Unchanged
             /\ StatusTellsReturns

(* At the start the sale is as it was sold. *)
LEMMA StatusInit == Init => StatusInv
<1> SUFFICES ASSUME Init PROVE StatusInv
  OBVIOUS
<1>1. Noted = {} /\ \A r \in Requests : notes[r] = NoNote
  BY DEF Init, Noted, NoNote
<1>2. \A r \in Requests : KnowsStatus(r)
  BY DEF Init, KnowsStatus, Is
<1> QED BY <1>1, <1>2 DEF Init, StatusInv, StatusTellsReturns, Unchanged

(* The status written by a commit is the one the notes tell. *)
LEMMA StatusCommit ==
  ASSUME Base, Typed', StatusInv, NEW r \in Requests, CommitVoid(r) \/ CommitReturn(r)
  PROVE  StatusTellsReturns' /\ Unchanged'
<1>0. /\ Course(r) /\ KnowsStatus(r) /\ req[r] \in ReqType /\ changes \in Nat
      /\ StatusTellsReturns /\ Unchanged /\ InFlight(r) /\ pc[r] # "done"
      /\ req[r].status \in Statuses
  BY DEF Base, Typed, StatusInv, CommitVoid, CommitReturn, InFlight, ReqType
<1>1. PICK s \in Statuses \ {"COMPLETED"} : Settle(r, s)
  <2>1. CASE CommitVoid(r)
    BY <2>1 DEF CommitVoid, Statuses
  <2>2. CASE CommitReturn(r)
    <3>1. pc[r] = "recomputed" /\ Settle(r, req[r].status)
      BY <2>2 DEF CommitReturn
    <3>2. req[r].status # "COMPLETED"
      BY <3>1, <1>0 DEF KnowsStatus
    <3> QED BY <3>1, <3>2, <1>0
  <2> QED BY <2>1, <2>2
<1>2. status' = s /\ changes' = changes + 1
  BY <1>1 DEF Settle
<1>3. /\ r \notin Noted /\ Noted' = Noted \cup {r}
      /\ notes'[r].kind = req[r].kind /\ notes'[r].day = req[r].day
      /\ \A t \in Noted : t # r /\ notes'[t] = notes[t]
  BY <1>0, <1>1, NotedSettle
<1>4. Unchanged'
  <2>1. notes'[r] # NoNote
    BY <1>3 DEF Noted, NoNote
  <2> QED BY <1>0, <1>2, <1>3, <2>1 DEF Unchanged
<1>5. ASSUME \A t, u \in Noted' : notes'[t].kind = "return" /\ notes'[t].day = notes'[u].day
      PROVE  StatusTellsReturns'
  <2>1. Is(r, "return") /\ CommitReturn(r)
    BY <1>3, <1>5 DEF CommitVoid, Is
  <2>2. \A t \in Noted : notes[t].kind = "return" /\ notes[t].day = req[r].day
    BY <1>3, <1>5
  <2>3. req[r].status = StatusAfter(r) /\ status' = req[r].status /\ Settle(r, req[r].status)
    BY <1>0, <2>1, <2>2 DEF CommitReturn, KnowsStatus, Settle
  <2>4. \A l \in Lines : Credited(l)' = Credited(l) + Units(req[r].ask, l)
    BY <1>0, <2>3, CreditedSettle
  <2>5. status' = IF \A l \in Lines : Credited(l)' >= Quantity[l]
                  THEN "REFUNDED" ELSE "PARTIALLY_REFUNDED"
    BY <2>3, <2>4 DEF StatusAfter
  <2>6. Noted' # {}
    BY <1>3
  <2> QED BY <2>5, <2>6 DEF StatusTellsReturns
<1> QED BY <1>4, <1>5 DEF StatusTellsReturns

(* A step that is not a commit leaves what the notes and the status tell.    *)
LEMMA StatusSame ==
  ASSUME UNCHANGED SaleVars, StatusTellsReturns, Unchanged
  PROVE  StatusTellsReturns' /\ Unchanged'
<1>1. status' = status /\ notes' = notes /\ changes' = changes /\ Noted' = Noted
  BY DEF SaleVars, Noted
<1>2. \A l \in Lines : Credited(l)' = Credited(l)
  BY <1>1, CreditedSame
<1> QED BY <1>1, <1>2 DEF StatusTellsReturns, Unchanged

(* Nor does it disturb what a request, left as it was, knows of the status.  *)
LEMMA KnowsStatusSame ==
  ASSUME NEW t \in Requests, KnowsStatus(t), UNCHANGED notes,
         pc'[t] = pc[t], req'[t] = req[t],
         owner[<<"counter", req[t].day>>] = t => owner'[<<"counter", req[t].day>>] = t
  PROVE  KnowsStatus(t)'
<1>1. Noted' = Noted /\ \A l \in Lines : Credited(l)' = Credited(l)
  BY CreditedSame DEF Noted
<1>2. StatusAfter(t)' = StatusAfter(t)
  BY <1>1 DEF StatusAfter, Units
<1> QED BY <1>1, <1>2 DEF KnowsStatus, Is

(* The counter of its day keeps others' returns away from what a return has  *)
(* worked out.                                                               *)
LEMMA KnowsStatusOthers ==
  ASSUME Base, StatusInv, NEW r \in Requests, Act(r), NEW t \in Requests, t # r
  PROVE  KnowsStatus(t)'
<1>0. /\ LockOrder /\ Typed /\ KnowsStatus(t) /\ KnowsStatus(r)
      /\ <<"counter", req[t].day>> \in Resources
  BY KindsDiffer DEF Base, StatusInv, LockOrder, CounterRows
<1>1. /\ pc'[t] = pc[t] /\ req'[t] = req[t]
      /\ owner[<<"counter", req[t].day>>] = t => owner'[<<"counter", req[t].day>>] = t
  BY <1>0, OthersKeep
<1>2. CASE UNCHANGED notes
  BY <1>0, <1>1, <1>2, KnowsStatusSame
<1>3. CASE CommitVoid(r) \/ CommitReturn(r)
  <2>1. /\ InFlight(r) /\ \E s : Settle(r, s)
        /\ pc[r] \in {"numbered", "recomputed"} /\ ~Is(r, "redeem")
    BY <1>3 DEF CommitVoid, CommitReturn, InFlight, Is
  <2>2. /\ r \in Noted'
        /\ notes'[r].kind = req[r].kind /\ notes'[r].day = req[r].day
    BY <2>1, NotedSettle
  <2>3. owner[<<"counter", req[r].day>>] = r
    BY <1>0, <2>1 DEF KnowsStatus
  <2>4. pc[t] = "recomputed" => req[t].day # req[r].day
    <3>1. pc[t] = "recomputed" => Is(t, "return")
      BY DEF Base, Course
    <3>2. pc[t] = "recomputed" => owner[<<"counter", req[t].day>>] = t
      BY <1>0, <3>1 DEF KnowsStatus, Is
    <3> QED BY <2>3, <3>2
  <2>5. /\ pc'[t] \in {"numbered", "credited", "recomputed"} /\ ~Is(t, "redeem")'
             => owner'[<<"counter", req'[t].day>>] = t
        /\ pc'[t] = "recomputed" => req'[t].status \in {"PARTIALLY_REFUNDED", "REFUNDED"}
    BY <1>0, <1>1 DEF KnowsStatus, Is
  <2>6. pc'[t] = "recomputed"
          => ~(\A u \in Noted' : notes'[u].kind = "return" /\ notes'[u].day = req'[t].day)
    BY <1>1, <2>2, <2>4
  <2> QED BY <2>5, <2>6 DEF KnowsStatus
<1> QED BY <1>0, <1>2, <1>3, ActKinds
        DEF Reads, Start, LockRows, DrawNumber, LockCustomer, Recompute, Ends, Commits,
            CommitRedeem, SaleVars

(* What the request itself knows. *)
LEMMA KnowsStatusOwn ==
  ASSUME Base, StatusInv, NEW r \in Requests, Act(r)
  PROVE  KnowsStatus(r)'
<1> USE DEF Is, GoTo, SaleVars
<1>0. /\ Typed /\ pc \in [Requests -> Steps] /\ req \in [Requests -> ReqType]
      /\ owner \in [Resources -> Requests \cup {None}]
      /\ KnowsStatus(r) /\ Course(r) /\ <<"counter", req[r].day>> \in Resources
      /\ \A x \in CounterRows : x \in Resources /\ x # Customer
      /\ <<"counter", req[r].day>> \in CounterRows
  BY KindsDiffer DEF Base, StatusInv, LockOrder, Typed, CounterRows
<1>1. CASE Reads(r)
  BY <1>0, <1>1 DEF Reads, Start, KnowsStatus
<1>2. CASE LockRows(r)
  BY <1>0, <1>2 DEF LockRows, KnowsStatus
<1>3. CASE DrawNumber(r)
  BY <1>0, <1>3 DEF DrawNumber, Lock, KnowsStatus
<1>4. CASE LockCustomer(r)
  <2>1. /\ pc'[r] = "credited" /\ req'[r].day = req[r].day /\ req'[r].kind = req[r].kind
    BY <1>0, <1>4 DEF LockCustomer, ReqType
  <2>2. \A x \in CounterRows : owner'[x] = owner[x]
    BY <1>0, <1>4 DEF LockCustomer, Lock, Customer
  <2>3. ~Is(r, "redeem") => owner[<<"counter", req[r].day>>] = r
    BY <1>0, <1>4 DEF LockCustomer, NeedsCustomer, KnowsStatus
  <2> QED BY <1>0, <2>1, <2>2, <2>3 DEF KnowsStatus
<1>5. CASE Recompute(r)
  <2>1. /\ pc'[r] = "recomputed" /\ req'[r].day = req[r].day /\ req'[r].kind = req[r].kind
        /\ req'[r].status = StatusAfter(r) /\ req'[r].ask = req[r].ask
        /\ owner' = owner /\ notes' = notes
    BY <1>0, <1>5 DEF Recompute, ReqType
  <2>2. owner[<<"counter", req[r].day>>] = r
    BY <1>0, <1>5 DEF Recompute, KnowsStatus
  <2>3. \A l \in Lines : Credited(l)' = Credited(l)
    BY <2>1, CreditedSame
  <2>4. StatusAfter(r)' = StatusAfter(r)
    BY <2>1, <2>3 DEF StatusAfter, Units
  <2>5. StatusAfter(r) \in {"PARTIALLY_REFUNDED", "REFUNDED"}
    BY DEF StatusAfter
  <2> QED BY <2>1, <2>2, <2>4, <2>5 DEF KnowsStatus
<1>6. CASE Ends(r) \/ Commits(r)
  BY <1>0, <1>6 DEF Ends, End, Commits, CommitVoid, CommitReturn, CommitRedeem, KnowsStatus
<1> QED BY <1>0, <1>1, <1>2, <1>3, <1>4, <1>5, <1>6, ActKinds

(* The status is told by the notes after every step. *)
LEMMA StatusStep ==
  ASSUME Base, Base', StatusInv, [Next]_vars
  PROVE  StatusInv'
<1>0. StatusTellsReturns /\ Unchanged /\ \A r \in Requests : KnowsStatus(r)
  BY DEF StatusInv
<1>1. CASE UNCHANGED vars \/ Midnight
  <2>1. UNCHANGED SaleVars /\ UNCHANGED <<owner, pc, req>>
    BY <1>1 DEF vars, Midnight, SaleVars
  <2>2. \A r \in Requests : KnowsStatus(r)'
    BY <1>0, <2>1, KnowsStatusSame DEF SaleVars
  <2> QED BY <1>0, <2>1, <2>2, StatusSame DEF StatusInv
<1>2. ASSUME NEW r \in Requests, Act(r)
      PROVE  StatusInv'
  <2>1. \A t \in Requests : KnowsStatus(t)'
    BY <1>2, KnowsStatusOthers, KnowsStatusOwn
  <2>2. CASE UNCHANGED SaleVars
    BY <1>0, <2>1, <2>2, StatusSame DEF StatusInv
  <2>3. CASE CommitVoid(r) \/ CommitReturn(r)
    BY <2>1, <2>3, StatusCommit DEF StatusInv, Base
  <2> QED BY <1>2, <2>2, <2>3, ActKinds
          DEF Base, Reads, Start, LockRows, DrawNumber, LockCustomer, Recompute, Ends, Commits,
              CommitRedeem
<1> QED BY <1>1, <1>2 DEF Next, Act

(* As long as all that happened to a sale is returns of one day, its status  *)
(* tells how much of it came back, although each return works it out before  *)
(* its commit: the day's CREDIT counter row, locked by nextNumber and kept   *)
(* to the commit, makes them wait for each other (returnSale).               *)
THEOREM StatusIsTold == Spec => []StatusTellsReturns
<1>1. Base /\ Base' /\ StatusInv /\ [Next]_vars => StatusInv'
  BY StatusStep
<1>2. StatusInv => StatusTellsReturns
  BY DEF StatusInv
<1> QED BY <1>1, <1>2, CoursesHold, StatusInit, PTL DEF Spec

-----------------------------------------------------------------------------
(* What is known of the lines of the sale. *)
LinesInv == /\ \A r \in Requests : KnowsLines(r)
            /\ CreditedOnceUnlessStale

(* At the start nothing has come back. *)
LEMMA LinesInit == Init => LinesInv
<1> SUFFICES ASSUME Init PROVE LinesInv
  OBVIOUS
<1>1. \A l \in Lines : Credited(l) = 0 /\ Quantity[l] \in Nat
  BY CreditedNothing, StartValues DEF Init
<1>2. \A r \in Requests : KnowsLines(r)
  BY DEF Init, KnowsLines, InFlight, NoReq
<1> QED BY <1>1, <1>2 DEF LinesInv, CreditedOnceUnlessStale

(* A step that changes no note leaves what has come back. *)
LEMMA LinesSame ==
  ASSUME UNCHANGED SaleVars, CreditedOnceUnlessStale
  PROVE  CreditedOnceUnlessStale'
<1>1. notes' = notes /\ stale' = stale /\ \A l \in Lines : Credited(l)' = Credited(l)
  BY CreditedSame DEF SaleVars
<1> QED BY <1>1 DEF CreditedOnceUnlessStale, Repeated

(* A void or return decided on the sale as it is gives back what is left.    *)
LEMMA LinesCommit ==
  ASSUME Base, Typed', StatusInv, LinesInv, NEW r \in Requests, CommitVoid(r) \/ CommitReturn(r)
  PROVE  CreditedOnceUnlessStale'
<1> SUFFICES ASSUME ~stale', ~Repeated', NEW l \in Lines
             PROVE  Credited(l)' <= Quantity[l]
  BY DEF CreditedOnceUnlessStale
<1>0. /\ Course(r) /\ KnowsLines(r) /\ Unchanged /\ req[r] \in ReqType /\ changes \in Nat
      /\ InFlight(r) /\ pc[r] # "done" /\ Typed
      /\ CreditedOnceUnlessStale
  BY DEF Base, Typed, StatusInv, LinesInv, CommitVoid, CommitReturn, InFlight
<1>1. PICK s : Settle(r, s)
  BY DEF CommitVoid, CommitReturn
<1>2. Credited(l)' = Credited(l) + Units(req[r].ask, l)
  BY <1>0, <1>1, CreditedSettle
<1>3. ~stale /\ req[r].seen = changes
  BY <1>1 DEF Settle
<1>4. notes'[r].ask = req[r].ask
  BY <1>0, <1>1, NotedSettle
<1>5. Credited(l) \in Int /\ Quantity[l] \in Nat /\ Units(req[r].ask, l) \in Nat
  BY <1>0, CreditedInt, StartValues, UnitsNat DEF ReqType
<1>6. CASE CommitVoid(r)
  <2>1. req[r].ask = Everything /\ req[r].seen = 0
    BY <1>0, <1>6 DEF CommitVoid, Course, KnowsLines
  <2>2. \A t \in Requests : notes[t] = NoNote
    BY <1>0, <1>3, <2>1 DEF Unchanged
  <2>3. Credited(l) = 0 /\ Units(req[r].ask, l) = Quantity[l]
    BY <2>1, <2>2, CreditedNothing, StartValues
  <2> QED BY <1>2, <1>5, <2>3
<1>7. CASE CommitReturn(r)
  <2>1. ReturnAllowed(r) /\ req[r].already[l] = Credited(l)
    BY <1>0, <1>3, <1>7 DEF CommitReturn, KnowsLines
  <2>2. req[r].ask[l].qty <= Quantity[l] - Credited(l)
    BY <2>1 DEF ReturnAllowed
  <2> DEFINE times == req[r].ask[l].times
             qty == req[r].ask[l].qty
  <2>3. times \in Nat /\ qty \in Nat /\ ~(times > 1)
    BY <1>0, <1>4 DEF ReqType, AskType, Repeated
  <2>4. Units(req[r].ask, l) = times * qty
    BY DEF Units
  <2> HIDE DEF times, qty
  <2>5. times = 0 \/ times = 1
    BY <2>3
  <2>6. times * qty <= qty
    BY <2>3, <2>5
  <2> QED BY <1>2, <1>5, <2>2, <2>3, <2>4, <2>6 DEF qty
<1> QED BY <1>6, <1>7

(* What a request left as it was knows of the lines.                         *)
LEMMA KnowsLinesSame ==
  ASSUME NEW t \in Requests, KnowsLines(t), changes \in Nat, req[t].seen \in Nat,
         pc'[t] = pc[t], req'[t] = req[t],
         \/ UNCHANGED <<notes, changes>>
         \/ changes' = changes + 1
  PROVE  KnowsLines(t)'
<1>1. CASE UNCHANGED <<notes, changes>>
  <2>1. \A l \in Lines : Credited(l)' = Credited(l)
    BY <1>1, CreditedSame
  <2> QED BY <1>1, <2>1 DEF KnowsLines, Is, InFlight, ReturnAllowed
<1>2. CASE changes' = changes + 1
  <2>1. req[t].seen <= changes' /\ req[t].seen # changes'
    BY <1>2 DEF KnowsLines
  <2> QED BY <2>1 DEF KnowsLines, Is, InFlight, ReturnAllowed
<1> QED BY <1>1, <1>2

(* What the request itself knows of the lines.                               *)
LEMMA KnowsLinesOwn ==
  ASSUME Base, Typed', StatusInv, LinesInv, NEW r \in Requests, Act(r)
  PROVE  KnowsLines(r)'
<1> USE DEF Is, GoTo, InFlight
<1>0. /\ Typed /\ pc \in [Requests -> Steps] /\ req \in [Requests -> ReqType] /\ changes \in Nat
      /\ KnowsLines(r) /\ Course(r) /\ Unchanged /\ changes' \in Nat
  BY DEF Base, StatusInv, LinesInv, LockOrder, Typed
<1>1. CASE Reads(r)
  <2>1. PICK q \in ReqType :
          /\ Start(r, q)
          /\ q.kind \in {"void", "return", "redeem"}
          /\ q.kind = "void" => status = "COMPLETED" /\ q.seen = changes
          /\ q.kind = "return" => q.seen = changes /\ q.already = [l \in Lines |-> Credited(l)]
          /\ q.seen \in {0, changes}
    BY <1>1 DEF Reads
  <2>2. /\ pc'[r] = "read" /\ req'[r] = q /\ notes' = notes /\ changes' = changes
    BY <1>0, <2>1 DEF Start, SaleVars
  <2>3. \A l \in Lines : Credited(l)' = Credited(l)
    BY <2>2, CreditedSame
  <2>4. q.kind = "void" => q.seen = 0
    BY <1>0, <2>1 DEF Unchanged
  <2>5. q.kind = "return" => \A l \in Lines : q.already[l] = Credited(l)'
    BY <2>1, <2>3
  <2>6. q.seen <= changes'
    BY <1>0, <2>1, <2>2
  <2> QED BY <2>2, <2>4, <2>5, <2>6 DEF KnowsLines
<1>2. ASSUME LockRows(r) \/ DrawNumber(r) \/ LockCustomer(r) \/ Recompute(r)
      PROVE  KnowsLines(r)'
  <2>1. /\ notes' = notes /\ changes' = changes
        /\ req'[r].kind = req[r].kind /\ req'[r].seen = req[r].seen
        /\ req'[r].already = req[r].already /\ req'[r].ask = req[r].ask
    BY <1>0, <1>2 DEF LockRows, DrawNumber, LockCustomer, Recompute, SaleVars, ReqType
  <2>2. \A l \in Lines : Credited(l)' = Credited(l)
    BY <2>1, CreditedSame
  <2>3. /\ pc[r] \notin {"new", "done"} /\ pc'[r] \notin {"new", "done"}
    BY <1>0, <1>2 DEF LockRows, DrawNumber, LockCustomer, Recompute, NeedsCustomer
  <2>4. pc'[r] \in {"numbered", "credited", "recomputed"} /\ Is(r, "return") => ReturnAllowed(r)
    <3>1. CASE LockRows(r)
      BY <1>0, <3>1 DEF LockRows
    <3>2. CASE DrawNumber(r)
      BY <3>2 DEF DrawNumber
    <3>3. CASE LockCustomer(r) \/ Recompute(r)
      <4>1. Is(r, "return") => pc[r] \in {"numbered", "credited", "recomputed"}
        BY <3>3 DEF LockCustomer, Recompute, NeedsCustomer
      <4> QED BY <1>0, <4>1 DEF KnowsLines
    <3> QED BY <1>2, <3>1, <3>2, <3>3
  <2>5. ReturnAllowed(r)' <=> ReturnAllowed(r)
    BY <2>1 DEF ReturnAllowed
  <2> QED BY <1>0, <2>1, <2>2, <2>3, <2>4, <2>5 DEF KnowsLines
<1>3. CASE Ends(r) \/ Commits(r)
  <2>1. pc'[r] = "done" /\ req'[r] = NoReq
    BY <1>0, <1>3 DEF Ends, End, Commits, CommitVoid, CommitReturn, CommitRedeem
  <2> QED BY <1>0, <2>1 DEF KnowsLines, NoReq
<1> QED BY <1>0, <1>1, <1>2, <1>3, ActKinds

(* No step breaks what is known of the lines. *)
LEMMA LinesStep ==
  ASSUME Base, Base', StatusInv, LinesInv, [Next]_vars
  PROVE  LinesInv'
<1>0. /\ LockOrder /\ Typed /\ Typed' /\ changes \in Nat /\ \A t \in Requests : req[t].seen \in Nat
      /\ CreditedOnceUnlessStale /\ \A t \in Requests : KnowsLines(t)
  BY DEF Base, Typed, ReqType, LinesInv
<1>1. CASE UNCHANGED vars \/ Midnight
  <2>1. UNCHANGED SaleVars /\ UNCHANGED <<pc, req>>
    BY <1>1 DEF vars, Midnight, SaleVars
  <2>2. \A t \in Requests : KnowsLines(t)'
    BY <1>0, <2>1, KnowsLinesSame DEF SaleVars
  <2> QED BY <1>0, <2>1, <2>2, LinesSame DEF LinesInv
<1>2. ASSUME NEW r \in Requests, Act(r)
      PROVE  LinesInv'
  <2>1. \/ UNCHANGED SaleVars
        \/ (CommitVoid(r) \/ CommitReturn(r)) /\ changes' = changes + 1
    BY <1>0, <1>2, ActKinds
       DEF Reads, Start, LockRows, DrawNumber, LockCustomer, Recompute, Ends, Commits,
           CommitRedeem, CommitVoid, CommitReturn, Settle
  <2>2. ASSUME NEW t \in Requests, t # r
        PROVE  KnowsLines(t)'
    <3>1. pc'[t] = pc[t] /\ req'[t] = req[t]
      BY <1>0, <1>2, <2>2, OthersKeep
    <3>2. UNCHANGED <<notes, changes>> \/ changes' = changes + 1
      BY <2>1 DEF SaleVars
    <3> QED BY <1>0, <3>1, <3>2, KnowsLinesSame
  <2>3. KnowsLines(r)'
    BY <1>0, <1>2, KnowsLinesOwn
  <2>4. CreditedOnceUnlessStale'
    BY <1>0, <2>1, LinesSame, LinesCommit
  <2> QED BY <2>2, <2>3, <2>4 DEF LinesInv
<1> QED BY <1>1, <1>2 DEF Next, Act

(* Nothing is given back twice unless a void or return was decided on a sale *)
(* that had changed since it was read (voidSale and returnSale read it       *)
(* before their transaction), or a return named one line twice.              *)
THEOREM NothingCreditedTwice == Spec => []CreditedOnceUnlessStale
<1>1. Base /\ Base' /\ StatusInv /\ [Next]_vars => StatusInv'
  BY StatusStep
<1>2. Base /\ Base' /\ StatusInv /\ LinesInv /\ [Next]_vars => LinesInv'
  BY LinesStep
<1>3. LinesInv => CreditedOnceUnlessStale
  BY DEF LinesInv
<1> QED BY <1>1, <1>2, <1>3, CoursesHold, StatusInit, LinesInit, PTL DEF Spec

-----------------------------------------------------------------------------
(* Batches: the batches behind the on-hand.                                  *)

BatchAssumptions == LocationsAssumption /\ NoRequestAssumption /\ QtyAssumption /\ BatchAssumption

(* These are the assumptions of Batches. *)
LEMMA BatchAssumed == BatchAssumptions
BY LocationsAssumption, NoRequestAssumption, QtyAssumption, BatchAssumption DEF BatchAssumptions

Takers == {"sale", "freshSale", "takeOut", "quarantine"}
Plain == {"receive", "putBack", "count"}
PerBatch == [BatchIds -> Nat]
Jobs == [pc : {"new", "read", "sold", "done"}, op : Takers \cup Plain \cup {"restock", "none"},
         loc : Locations, qty : Nat, saw : PerBatch, plan : PerBatch, sale : StockRequests \cup {NoRequest}]

BatchTypes ==
  /\ batch \in [BatchIds -> BatchRows]
  /\ onHand \in [Locations -> Int]
  /\ rowOf \in [Locations -> StockRequests \cup {NoRequest}]
  /\ job \in [StockRequests -> Jobs]
  /\ given \in [StockRequests -> PerBatch]
  /\ returned \in [StockRequests -> Nat]
  /\ taken \in [BatchIds -> Int]
  /\ reached \subseteq BatchIds
  /\ strained \subseteq Locations \cup {NoLoc}

PlanTotal(f) == SumFunctionOnSet(f, BatchIds)

(* What a request that has the row of its location relies on: what it read   *)
(* of a batch of that location is what the batch has left, unless the batch  *)
(* was written under another row; and its plan covers the quantity, or takes *)
(* all the location has, unless the location is strained.                    *)
Covers(r) == \/ PlanTotal(r.plan) >= r.qty
             \/ \A b \in BatchIds :
                  batch[b].loc = r.loc /\ (r.op = "freshSale" => batch[b].exp # Expired)
                    => r.plan[b] = batch[b].left

TakerFits(r) ==
  /\ r.qty <= onHand[r.loc]
  /\ \A b \in BatchIds :
       /\ r.plan[b] <= r.saw[b]
       /\ r.plan[b] > 0 /\ b \notin reached /\ batch[b].loc = r.loc => r.saw[b] = batch[b].left
  /\ r.loc \notin strained => Covers(r)
  /\ r.op = "quarantine" => r.loc # Quarantine

JobFits(w) == job[w].pc = "read" =>
  /\ rowOf[job[w].loc] = w
  /\ job[w].op # "none"
  /\ \A b \in BatchIds : job[w].plan[b] > 0 => batch[b].got > 0
  /\ PlanTotal(job[w].plan) <= job[w].qty
  /\ job[w].op \in Plain => job[w].plan = NoUnits
  /\ job[w].op # "count" => job[w].qty > 0
  /\ job[w].op \in Takers => TakerFits(job[w])

(* A sale took no more from the batches than it sold. *)
SaleFits(w) ==
  /\ job[w].pc = "sold" => job[w].qty > 0 /\ PlanTotal(given[w]) <= job[w].qty
  /\ \A b \in BatchIds : given[w][b] > 0 => batch[b].got > 0

BatchFits(b) ==
  /\ batch[b].got = 0 => /\ batch[b].left = 0 /\ taken[b] = 0 /\ batch[b].loc = NoLoc
                         /\ b \notin reached
  /\ b \in reached => batch[b].loc \in strained

(* What a batch adds to the total of a location. *)
At(bs, k) == [b \in BatchIds |-> IF bs[b].loc = k THEN bs[b].left ELSE 0]
TotalOf(bs, k) == SumFunctionOnSet(At(bs, k), BatchIds)
WithinStock == \A k \in Locations \ strained : TotalOf(batch, k) <= onHand[k]

BatchInv == /\ BatchTypes
            /\ \A b \in BatchIds : BatchFits(b)
            /\ \A w \in StockRequests : JobFits(w) /\ SaleFits(w)
            /\ BatchesAddUp
            /\ WithinStock

(* There are finitely many batches, numbered. *)
LEMMA BatchIdsFinite ==
  ASSUME BatchAssumptions
  PROVE  IsFiniteSet(BatchIds) /\ BatchIds \subseteq Nat
BY DEF BatchAssumptions, BatchAssumption

(* R puts the elements of S in a line. *)
InLine(S, R) == /\ \A a \in S : <<a, a>> \notin R
                /\ \A a, b \in S : a = b \/ <<a, b>> \in R \/ <<b, a>> \in R
                /\ \A a, b, c \in S : <<a, b>> \in R /\ <<b, c>> \in R => <<a, c>> \in R

(* A part of a line is a line. *)
LEMMA PartInLine ==
  ASSUME NEW S, NEW R, InLine(S, R), NEW T \in SUBSET S
  PROVE  InLine(T, R)
BY DEF InLine

(* In a line of finitely many one comes last. *)
LEMMA LastOf ==
  ASSUME NEW S, IsFiniteSet(S), S # {}, NEW R, InLine(S, R)
  PROVE  \E m \in S : \A n \in S : n = m \/ <<n, m>> \in R
<1> DEFINE Fine(T) == T # {} => \E m \in T : \A n \in T : n = m \/ <<n, m>> \in R
           P == { T \in SUBSET S : Fine(T) }
<1>1. {} \in P
  OBVIOUS
<1>2. ASSUME NEW T \in SUBSET S, NEW x \in S, T \in P
      PROVE  T \cup {x} \in P
  <2>1. CASE T = {}
    <3>1. \A n \in T \cup {x} : n = x
      BY <2>1
    <3> QED BY <3>1
  <2>2. CASE T # {}
    <3>1. PICK m \in T : \A n \in T : n = m \/ <<n, m>> \in R
      BY <1>2, <2>2
    <3>2. CASE x = m \/ <<x, m>> \in R
      <4>1. \A n \in T \cup {x} : n = m \/ <<n, m>> \in R
        BY <3>1, <3>2
      <4> QED BY <4>1, <3>1
    <3>3. CASE <<m, x>> \in R
      <4>1. \A n \in T \cup {x} : n = x \/ <<n, x>> \in R
        BY <3>1, <3>3 DEF InLine
      <4> QED BY <4>1
    <3> QED BY <3>2, <3>3 DEF InLine
  <2> QED BY <2>1, <2>2
<1> HIDE DEF P
<1>3. S \in P
  BY <1>1, <1>2, FiniteInduction
<1> QED BY <1>3 DEF P

(* What those before m have. *)
UpTo(left, E, R, m) == SumFunctionOnSet(left, { c \in E : <<c, m>> \in R })

(* What those before m have, and what m gives. *)
LEMMA SumUpTo ==
  ASSUME NEW E, IsFiniteSet(E), NEW R, InLine(E, R), NEW m \in E, NEW left, NEW x \in Int,
         \A b \in E : left[b] \in Int
  PROVE  /\ UpTo(left, E, R, m) \in Int
         /\ \E h : /\ SumFunctionOnSet(h, E) = UpTo(left, E, R, m) + x
                   /\ \A b \in E : <<b, m>> \in R => h[b] = left[b]
                   /\ h[m] = x
                   /\ \A b \in E : <<b, m>> \notin R /\ b # m => h[b] = 0
<1>1. PICK T : T = { c \in E : <<c, m>> \in R }
  OBVIOUS
<1>2. T \in SUBSET E /\ m \notin T /\ \A b \in E : b \in T <=> <<b, m>> \in R
  BY <1>1 DEF InLine
<1>3. PICK g : g = [b \in E |-> IF b \in T THEN left[b] ELSE 0]
  OBVIOUS
<1>4. \A b \in E : g[b] = IF b \in T THEN left[b] ELSE 0
  BY <1>3
<1>5. PICK h : h = [g EXCEPT ![m] = x]
  OBVIOUS
<1>6. h[m] = x /\ \A b \in E \ {m} : h[b] = g[b]
  BY <1>3, <1>5
<1>7. UpTo(left, E, R, m) = SumFunctionOnSet(left, T)
  BY <1>1 DEF UpTo
<1>8. SumFunctionOnSet(left, T) = SumFunctionOnSet(g, E)
  BY <1>2, <1>4, SumPart
<1>9. \A b \in E : g[b] \in Int /\ h[b] \in Int
  BY <1>4, <1>6
<1>10. \A b \in E \ {m} : g[b] = h[b]
  BY <1>6
<1>11. SumFunctionOnSet(g, E) \in Int
  BY <1>9, SumInt
<1>12. SumFunctionOnSet(h, E) = SumFunctionOnSet(g, E) + h[m] - g[m]
  BY <1>9, <1>10, SumChange
<1>13. g[m] = 0
  BY <1>2, <1>4
<1>14. SumFunctionOnSet(h, E) = UpTo(left, E, R, m) + x
  BY <1>6, <1>7, <1>8, <1>11, <1>12, <1>13
<1>15. \A b \in E : <<b, m>> \in R => h[b] = left[b]
  BY <1>2, <1>4, <1>6
<1>16. \A b \in E : <<b, m>> \notin R /\ b # m => h[b] = 0
  BY <1>2, <1>4, <1>6
<1> QED BY <1>6, <1>7, <1>8, <1>11, <1>14, <1>15, <1>16

(* Whoever comes first gives first, all there is or what is still wanted. *)
Greedy(E, R, left, plan, q) ==
  \A b \in E : LET over == q - UpTo(left, E, R, b)
               IN  plan[b] = IF over <= 0 THEN 0 ELSE IF over > left[b] THEN left[b] ELSE over

(* So no more is given than is wanted, and less only when all is given. *)
LEMMA GreedyTakes ==
  ASSUME NEW E, IsFiniteSet(E), NEW R, InLine(E, R), NEW left, NEW plan, NEW q \in Nat,
         \A b \in E : left[b] \in Nat,
         Greedy(E, R, left, plan, q)
  PROVE  /\ SumFunctionOnSet(plan, E) <= q
         /\ SumFunctionOnSet(plan, E) >= q \/ \A b \in E : plan[b] = left[b]
<1>1. \A b \in E : left[b] \in Int
  OBVIOUS
<1>2. PICK before : before = [m \in E |-> UpTo(left, E, R, m)]
  OBVIOUS
<1>3. \A m \in E : before[m] = UpTo(left, E, R, m) /\ before[m] \in Int
  BY <1>1, <1>2, SumUpTo, 0 \in Int
<1>4. \A b \in E : /\ plan[b] \in Nat /\ plan[b] <= left[b]
                   /\ plan[b] > 0 => plan[b] <= q - before[b]
                   /\ plan[b] < left[b] => plan[b] >= q - before[b]
  BY <1>3 DEF Greedy
<1>5. SumFunctionOnSet(plan, E) \in Int
  <2>1. \A b \in E : plan[b] \in Int
    BY <1>4
  <2> QED BY <2>1, SumInt
<1>6. ASSUME NEW m \in E
      PROVE  \E h : /\ SumFunctionOnSet(h, E) = before[m] + plan[m]
                    /\ \A b \in E : <<b, m>> \in R => h[b] = left[b]
                    /\ h[m] = plan[m]
                    /\ \A b \in E : <<b, m>> \notin R /\ b # m => h[b] = 0
  <2>1. PICK x \in Int : x = plan[m]
    BY <1>4
  <2>2. PICK h : /\ SumFunctionOnSet(h, E) = UpTo(left, E, R, m) + x
                 /\ \A b \in E : <<b, m>> \in R => h[b] = left[b]
                 /\ h[m] = x
                 /\ \A b \in E : <<b, m>> \notin R /\ b # m => h[b] = 0
    BY <1>1, SumUpTo
  <2>3. SumFunctionOnSet(h, E) = before[m] + plan[m]
    BY <1>3, <2>1, <2>2
  <2> QED BY <2>1, <2>2, <2>3
<1>7. SumFunctionOnSet(plan, E) <= q
  <2>1. PICK G : G = { b \in E : plan[b] > 0 }
    OBVIOUS
  <2>2. CASE G = {}
    <3>1. \A b \in E : plan[b] = 0
      BY <1>4, <2>1, <2>2
    <3>2. SumFunctionOnSet(plan, E) = 0
      BY <3>1, SumZero
    <3> QED BY <3>2
  <2>3. CASE G # {}
    <3>1. G \in SUBSET E /\ \A b \in E : b \in G <=> plan[b] > 0
      BY <2>1
    <3>2. IsFiniteSet(G) /\ InLine(G, R)
      BY <3>1, FS_Subset, PartInLine
    <3>3. PICK m \in G : \A n \in G : n = m \/ <<n, m>> \in R
      BY <2>3, <3>2, LastOf
    <3>4. m \in E /\ plan[m] <= q - before[m] /\ before[m] \in Int /\ plan[m] \in Int
      BY <1>3, <1>4, <3>1
    <3>5. PICK h : /\ SumFunctionOnSet(h, E) = before[m] + plan[m]
                   /\ \A b \in E : <<b, m>> \in R => h[b] = left[b]
                   /\ h[m] = plan[m]
                   /\ \A b \in E : <<b, m>> \notin R /\ b # m => h[b] = 0
      BY <1>6, <3>4
    <3>6. ASSUME NEW b \in E PROVE plan[b] \in Int /\ h[b] \in Int /\ plan[b] <= h[b]
      <4>1. plan[b] \in Int /\ plan[b] <= left[b] /\ left[b] \in Int /\ plan[b] >= 0
        BY <1>1, <1>4
      <4>2. CASE b = m
        BY <3>4, <3>5, <4>2
      <4>3. CASE b # m /\ <<b, m>> \in R
        BY <3>5, <4>1, <4>3
      <4>4. CASE b # m /\ <<b, m>> \notin R
        <5>1. b \notin G /\ h[b] = 0
          BY <3>3, <3>5, <4>4
        <5>2. plan[b] = 0
          BY <3>1, <4>1, <5>1
        <5> QED BY <5>1, <5>2
      <4> QED BY <4>2, <4>3, <4>4
    <3>7. SumFunctionOnSet(plan, E) <= SumFunctionOnSet(h, E)
      BY <3>6, SumAtMost
    <3> QED BY <1>5, <3>4, <3>5, <3>7
  <2> QED BY <2>2, <2>3
<1>8. SumFunctionOnSet(plan, E) >= q \/ \A b \in E : plan[b] = left[b]
  <2>1. PICK G : G = { b \in E : plan[b] < left[b] }
    OBVIOUS
  <2>2. CASE G = {}
    <3>1. \A b \in E : plan[b] = left[b]
      BY <1>1, <1>4, <2>1, <2>2
    <3> QED BY <3>1
  <2>3. CASE G # {}
    <3>1. G \in SUBSET E /\ \A b \in E : b \in G <=> plan[b] < left[b]
      BY <2>1
    <3>2. PICK Q : Q = { ab \in E \X E : <<ab[2], ab[1]>> \in R }
      OBVIOUS
    <3>3. \A a, b \in E : <<a, b>> \in Q <=> <<b, a>> \in R
      BY <3>2
    <3>4. InLine(G, Q) /\ IsFiniteSet(G)
      <4>1. InLine(E, Q)
        BY <3>3 DEF InLine
      <4> QED BY <3>1, <4>1, FS_Subset, PartInLine
    <3>5. PICK m \in G : \A n \in G : n = m \/ <<n, m>> \in Q
      BY <2>3, <3>4, LastOf
    <3>6. m \in E /\ plan[m] >= q - before[m] /\ before[m] \in Int /\ plan[m] \in Int
      BY <1>3, <1>4, <3>1
    <3>7. PICK h : /\ SumFunctionOnSet(h, E) = before[m] + plan[m]
                   /\ \A b \in E : <<b, m>> \in R => h[b] = left[b]
                   /\ h[m] = plan[m]
                   /\ \A b \in E : <<b, m>> \notin R /\ b # m => h[b] = 0
      BY <1>6, <3>6
    <3>8. ASSUME NEW b \in E, <<b, m>> \in R, b \in G PROVE FALSE
      <4>1. b = m \/ <<m, b>> \in R
        BY <3>1, <3>3, <3>5, <3>8
      <4> QED BY <3>6, <3>8, <4>1 DEF InLine
    <3>9. ASSUME NEW b \in E PROVE plan[b] \in Int /\ h[b] \in Int /\ h[b] <= plan[b]
      <4>1. <<b, m>> \in R => plan[b] = left[b]
        BY <1>1, <1>4, <3>1, <3>8
      <4> QED BY <1>1, <1>4, <3>7, <4>1
    <3>10. SumFunctionOnSet(h, E) <= SumFunctionOnSet(plan, E)
      BY <3>9, SumAtMost
    <3> QED BY <1>5, <3>6, <3>7, <3>10
  <2> QED BY <2>2, <2>3
<1> QED BY <1>7, <1>8

(* allocateFromBatches plans no more than is wanted and than there is, and   *)
(* less than is wanted only when it takes all that is eligible.              *)
LEMMA AllocationFits ==
  ASSUME BatchAssumptions, BatchTypes, NEW l, NEW skip, NEW q \in Nat,
         NEW plan, plan = Allocation(l, skip, q)
  PROVE  /\ plan \in PerBatch
         /\ \A b \in BatchIds : plan[b] <= batch[b].left
         /\ PlanTotal(plan) <= q
         /\ PlanTotal(plan) >= q \/ \A b \in Eligible(l, skip) : plan[b] = batch[b].left
<1>1. \A b \in BatchIds : batch[b].left \in Nat /\ batch[b].exp \in Nat /\ b \in Nat
  BY BatchIdsFinite DEF BatchTypes, BatchRows, Expired, Ahead, NoExpiry
<1> DEFINE E == Eligible(l, skip)
           left == Left
<1>2. E \in SUBSET BatchIds /\ \A b \in BatchIds : b \in E => batch[b].left > 0
  BY DEF Eligible
<1> HIDE DEF E
<1>3. IsFiniteSet(E) /\ IsFiniteSet(BatchIds)
  BY <1>2, BatchIdsFinite, FS_Subset
<1>4. PICK R : R = { cb \in E \X E : Before(cb[1], cb[2]) }
  OBVIOUS
<1>5. \A c, b \in E : <<c, b>> \in R <=> Before(c, b)
  BY <1>4
<1>6. InLine(E, R)
  BY <1>1, <1>2, <1>5 DEF InLine, Before
<1>7. \A b \in BatchIds : left[b] = batch[b].left /\ left[b] \in Nat
  BY <1>1 DEF Left
<1> HIDE DEF left
<1>8. ASSUME NEW b \in E
       PROVE  SumFunctionOnSet(left, { c \in E : Before(c, b) }) = UpTo(left, E, R, b)
  <2>1. { c \in E : Before(c, b) } = { c \in E : <<c, b>> \in R }
    BY <1>5
  <2>2. SumFunctionOnSet(left, { c \in E : <<c, b>> \in R }) = UpTo(left, E, R, b)
    BY Zenon DEF UpTo
  <2> QED BY <2>1, <2>2, Zenon
<1>9. plan = [b \in BatchIds |->
                LET over == q - SumFunctionOnSet(left, { c \in E : Before(c, b) })
                IN  IF b \notin E \/ over <= 0 THEN 0 ELSE Min({over, left[b]})]
  BY Zenon DEF Allocation, E, left
<1>10. \A b \in BatchIds \ E : plan[b] = 0
  BY <1>9
<1>11. ASSUME NEW b \in E PROVE UpTo(left, E, R, b) \in Int
  <2>1. \A c \in E : left[c] \in Int
    BY <1>2, <1>7
  <2> QED BY <1>3, <1>6, <2>1, SumUpTo, 0 \in Int
<1>12. ASSUME NEW b \in E
       PROVE  LET over == q - UpTo(left, E, R, b)
              IN  plan[b] = IF over <= 0 THEN 0 ELSE IF over > left[b] THEN left[b] ELSE over
  <2>1. PICK u \in Int : u = UpTo(left, E, R, b)
    BY <1>11
  <2>2. u = SumFunctionOnSet(left, { c \in E : Before(c, b) }) /\ b \in BatchIds
    BY <1>2, <1>8, <2>1
  <2>3. plan[b] = IF q - u <= 0 THEN 0 ELSE Min({q - u, left[b]})
    BY <1>9, <2>2
  <2>4. left[b] \in Nat
    BY <1>7, <2>2
  <2>5. \A x, y \in Int : Min({x, y}) = IF x > y THEN y ELSE x
    BY DEF Min
  <2> QED BY <2>1, <2>3, <2>4, <2>5
<1>13. Greedy(E, R, left, plan, q)
  BY <1>12 DEF Greedy
<1>14. \A b \in E : left[b] \in Nat
  BY <1>2, <1>7
<1>15. /\ SumFunctionOnSet(plan, E) <= q
       /\ SumFunctionOnSet(plan, E) >= q \/ \A b \in E : plan[b] = left[b]
  BY <1>3, <1>6, <1>13, <1>14, GreedyTakes
<1>16. \A b \in E : plan[b] \in Nat /\ plan[b] <= left[b]
  BY <1>11, <1>12, <1>14
<1>17. \A b \in BatchIds : plan[b] \in Nat /\ plan[b] <= batch[b].left
  BY <1>7, <1>10, <1>16
<1>18. plan \in PerBatch
  <2>1. DOMAIN plan = BatchIds /\ plan = [b \in BatchIds |-> plan[b]]
    BY <1>9
  <2> QED BY <1>17, <2>1 DEF PerBatch
<1>19. \A b \in BatchIds : plan[b] \in Int /\ plan[b] = IF b \in E THEN plan[b] ELSE 0
  BY <1>10, <1>17
<1>20. SumFunctionOnSet(plan, E) = SumFunctionOnSet(plan, BatchIds)
  BY <1>2, <1>3, <1>19, SumPart
<1> QED BY <1>7, <1>2, <1>15, <1>17, <1>18, <1>20 DEF PlanTotal, E

(* A plan without units. *)
LEMMA NothingPlanned ==
  ASSUME BatchAssumptions
  PROVE  /\ NoUnits \in PerBatch /\ \A b \in BatchIds : NoUnits[b] = 0
         /\ PlanTotal(NoUnits) = 0
<1>1. NoUnits \in PerBatch /\ \A b \in BatchIds : NoUnits[b] = 0
  BY DEF NoUnits, PerBatch
<1>2. SumFunctionOnSet(NoUnits, BatchIds) = 0
  BY <1>1, BatchIdsFinite, SumZero
<1> QED BY <1>1, <1>2 DEF PlanTotal

(* A request that starts reads the batches under its row's lock.             *)
LEMMA BatchBegin ==
  ASSUME BatchAssumptions, BatchInv, NEW w \in StockRequests,
         NEW o \in Takers \cup Plain \cup {"restock"}, NEW l \in Locations, NEW q \in Nat,
         NEW plan \in PerBatch, NEW s \in StockRequests \cup {NoRequest},
         Begin(w, o, l, q, plan, s),
         \A b \in BatchIds : plan[b] > 0 => batch[b].got > 0,
         PlanTotal(plan) <= q,
         o \in Plain => plan = NoUnits,
         o # "count" => q > 0,
         o \in Takers =>
           /\ q <= onHand[l]
           /\ \A b \in BatchIds : plan[b] <= batch[b].left
           /\ o = "quarantine" => l # Quarantine
           /\ \/ PlanTotal(plan) >= q
              \/ \A b \in BatchIds : batch[b].loc = l /\ (o = "freshSale" => batch[b].exp # Expired)
                                       => plan[b] = batch[b].left
  PROVE  BatchInv'
<1> PICK r : r = Planned(o, l, q, plan, s)
  OBVIOUS
<1>1. /\ job' = [job EXCEPT ![w] = r] /\ job[w].pc = "new"
      /\ rowOf[l] = NoRequest /\ rowOf' = [rowOf EXCEPT ![l] = w]
      /\ UNCHANGED <<batch, onHand, given, returned, taken, reached, strained>>
  BY DEF Begin
<1>2. /\ r.pc = "read" /\ r.op = o /\ r.loc = l /\ r.qty = q /\ r.plan = plan /\ r.sale = s
      /\ r.saw = [b \in BatchIds |-> IF plan[b] > 0 THEN Left[b] ELSE 0]
      /\ r = [pc |-> "read", op |-> o, loc |-> l, qty |-> q, plan |-> plan, sale |-> s, saw |-> r.saw]
  BY DEF Planned
<1>3. \A b \in BatchIds : batch[b].left \in Nat /\ plan[b] \in Nat
  BY DEF BatchInv, BatchTypes, BatchRows, PerBatch
<1>4. \A b \in BatchIds : r.saw[b] = IF plan[b] > 0 THEN batch[b].left ELSE 0
  BY <1>2 DEF Left
<1>5. r.saw \in PerBatch
  BY <1>2, <1>3, <1>4 DEF PerBatch
<1>6. r \in Jobs
  BY <1>2, <1>5 DEF Jobs
<1>7. job'[w] = r /\ \A v \in StockRequests \ {w} : job'[v] = job[v]
  BY <1>1 DEF BatchInv, BatchTypes
<1>8. rowOf'[l] = w /\ \A k \in Locations \ {l} : rowOf'[k] = rowOf[k]
  BY <1>1 DEF BatchInv, BatchTypes
<1>9. BatchTypes'
  BY <1>1, <1>6 DEF BatchInv, BatchTypes
<1>10. \A b \in BatchIds : BatchFits(b)'
  BY <1>1 DEF BatchInv, BatchFits
<1>11. BatchesAddUp' /\ WithinStock'
  BY <1>1 DEF BatchInv, BatchesAddUp, WithinStock
<1>12. ASSUME NEW v \in StockRequests PROVE JobFits(v)'
  <2>1. CASE v = w
    <3>1. \A b \in BatchIds : plan[b] > 0 => r.saw[b] = batch[b].left
      BY <1>4
    <3>2. o \in Takers => \A b \in BatchIds : plan[b] <= r.saw[b]
      BY <1>3, <1>4
    <3>3. o \in Takers => TakerFits(r)'
      <4>1. SUFFICES ASSUME o \in Takers PROVE TakerFits(r)'
        OBVIOUS
      <4>2. Covers(r)'
        BY <1>1, <1>2, <4>1 DEF Covers
      <4> QED BY <1>1, <1>2, <3>1, <3>2, <4>1, <4>2 DEF TakerFits
    <3>4. o # "none"
      BY DEF Takers, Plain
    <3>5. TakerFits(job[w])' <=> TakerFits(r)'
      BY <1>7 DEF TakerFits, Covers
    <3> QED BY <2>1, <1>1, <1>2, <1>7, <1>8, <3>3, <3>4, <3>5 DEF JobFits
  <2>2. CASE v # w
    <3>1. JobFits(v) /\ job'[v] = job[v]
      BY <1>7, <2>2 DEF BatchInv
    <3>2. job[v].pc = "read" => job[v].loc \in Locations /\ job[v].loc # l
      BY <1>1, <3>1 DEF JobFits, BatchInv, BatchTypes, Jobs, BatchAssumptions, NoRequestAssumption
    <3>3. TakerFits(job[v]) => TakerFits(job[v])'
      BY <1>1, <3>1 DEF TakerFits, Covers
    <3> QED BY <1>1, <1>8, <3>1, <3>2, <3>3 DEF JobFits
  <2> QED BY <2>1, <2>2
<1>13. ASSUME NEW v \in StockRequests PROVE SaleFits(v)'
  <2>1. SaleFits(v)
    BY DEF BatchInv
  <2>2. job'[v].pc = "sold" => job'[v] = job[v]
    BY <1>2, <1>7
  <2> QED BY <1>1, <2>1, <2>2 DEF SaleFits
<1> QED BY <1>9, <1>10, <1>11, <1>12, <1>13 DEF BatchInv

(* The total of a location adds up over all batches. *)
LEMMA TotalIsTotalOf ==
  ASSUME BatchAssumptions, NEW k, NEW bs \in [BatchIds -> BatchRows],
         NEW left, left = [b \in BatchIds |-> bs[b].left],
         NEW S, S = { b \in BatchIds : bs[b].loc = k }
  PROVE  SumFunctionOnSet(left, S) = TotalOf(bs, k)
<1>1. S \in SUBSET BatchIds /\ \A b \in BatchIds : b \in S <=> bs[b].loc = k
  OBVIOUS
<1>2. \A b \in BatchIds : left[b] \in Int /\ left[b] = bs[b].left
  BY DEF BatchRows
<1>3. PICK g : g = At(bs, k)
  OBVIOUS
<1>4. \A b \in BatchIds : g[b] = IF b \in S THEN left[b] ELSE 0
  BY <1>1, <1>2, <1>3 DEF At
<1>5. SumFunctionOnSet(left, S) = SumFunctionOnSet(g, BatchIds)
  BY <1>1, <1>2, <1>4, BatchIdsFinite, SumPart
<1> QED BY <1>3, <1>5 DEF TotalOf

(* BatchesWithinStock in terms of those totals. *)
LEMMA WithinStockIsTotalOf ==
  ASSUME BatchAssumptions, BatchTypes
  PROVE  BatchesWithinStock <=> WithinStock
<1>1. batch \in [BatchIds -> BatchRows]
  BY DEF BatchTypes
<1>2. ASSUME NEW k \in Locations PROVE BatchTotal(k) = TotalOf(batch, k)
  <2>1. PICK bs : bs = batch
    OBVIOUS
  <2>2. PICK left : left = Left
    OBVIOUS
  <2>3. left = [b \in BatchIds |-> bs[b].left]
    BY <2>1, <2>2 DEF Left
  <2>4. PICK S : S = { b \in BatchIds : bs[b].loc = k }
    OBVIOUS
  <2>5. BatchTotal(k) = SumFunctionOnSet(left, S)
    BY <2>1, <2>2, <2>4, Zenon DEF BatchTotal
  <2> QED BY <1>1, <2>1, <2>3, <2>4, <2>5, TotalIsTotalOf
<1> QED BY <1>2 DEF BatchesWithinStock, WithinStock

(* A request that writes under the rows of the locations K and ends. *)
WritesUnder(w, K) ==
  /\ job' = [job EXCEPT ![w] = job'[w]]
  /\ job'[w].pc # "read"
  /\ given' = [given EXCEPT ![w] = given'[w]]
  /\ \A k \in Locations : /\ rowOf[k] # w => rowOf'[k] = rowOf[k]
                          /\ k \notin K =>
                               /\ onHand'[k] = onHand[k]
                               /\ \A b \in BatchIds :
                                    /\ batch[b].loc = k \/ batch'[b].loc = k
                                    /\ b \notin reached' \/ k \notin strained'
                                    => batch'[b] = batch[b]
  /\ reached \subseteq reached' /\ strained \subseteq strained'
  /\ \A b \in BatchIds : batch[b].got > 0 => /\ batch'[b].got > 0
                                             /\ batch'[b].loc = batch[b].loc
                                             /\ batch'[b].exp = batch[b].exp

(* What the others rely on stays. *)
LEMMA OthersFit ==
  ASSUME BatchAssumptions, BatchInv, NEW w \in StockRequests, NEW K,
         \A k \in K : rowOf[k] \in {w, NoRequest}, WritesUnder(w, K)
  PROVE  /\ \A v \in StockRequests \ {w} : JobFits(v)' /\ SaleFits(v)'
         /\ JobFits(w)'
         /\ job'[w].pc # "sold" /\ given'[w] = given[w] => SaleFits(w)'
         /\ \A k \in Locations \ (K \cup strained') : TotalOf(batch', k) <= onHand'[k]
<1>1. /\ \A v \in StockRequests \ {w} : job'[v] = job[v] /\ given'[v] = given[v]
      /\ job'[w].pc # "read"
      /\ \A b \in BatchIds : batch[b].got > 0 => batch'[b].got > 0
  BY DEF WritesUnder, BatchInv, BatchTypes
<1>2. ASSUME NEW v \in StockRequests \ {w} PROVE JobFits(v)'
  <2>1. SUFFICES ASSUME job[v].pc = "read" PROVE JobFits(v)'
    BY <1>1 DEF JobFits
  <2>2. PICK r : r = job[v]
    OBVIOUS
  <2>3. r \in Jobs /\ r = job'[v]
    BY <1>1, <2>2 DEF BatchInv, BatchTypes
  <2>4. PICK k \in Locations : k = r.loc
    BY <2>3 DEF Jobs
  <2>5. rowOf[k] = v /\ v # w /\ v # NoRequest
    BY <2>1, <2>2, <2>4 DEF BatchInv, JobFits, BatchAssumptions, NoRequestAssumption
  <2>6. k \notin K
    BY <2>5
  <2>7. rowOf'[k] = v /\ onHand'[k] = onHand[k]
    BY <2>5, <2>6 DEF WritesUnder
  <2>8. ASSUME NEW b \in BatchIds, batch'[b].loc = k, b \notin reached' \/ k \notin strained'
        PROVE  batch'[b] = batch[b]
    BY <2>6, <2>8 DEF WritesUnder
  <2>9. reached \subseteq reached' /\ strained \subseteq strained'
    BY DEF WritesUnder
  <2>10. r.op \in Takers => TakerFits(r)
    BY <2>1, <2>2 DEF BatchInv, JobFits
  <2>11. TakerFits(r) /\ k \notin strained' => Covers(r)'
    BY <2>4, <2>8, <2>9 DEF TakerFits, Covers
  <2>12. TakerFits(r) => TakerFits(r)'
    <3>1. SUFFICES ASSUME TakerFits(r) PROVE TakerFits(r)'
      OBVIOUS
    <3>2. r.qty <= onHand'[k] /\ (r.op = "quarantine" => k # Quarantine)
      BY <2>4, <2>7, <3>1 DEF TakerFits
    <3>3. ASSUME NEW b \in BatchIds
          PROVE  /\ r.plan[b] <= r.saw[b]
                 /\ r.plan[b] > 0 /\ b \notin reached' /\ batch'[b].loc = k => r.saw[b] = batch'[b].left
      BY <2>4, <2>8, <2>9, <3>1 DEF TakerFits
    <3> QED BY <2>4, <2>11, <3>1, <3>2, <3>3 DEF TakerFits
  <2> QED BY <1>1, <2>1, <2>2, <2>3, <2>4, <2>7, <2>10, <2>12 DEF BatchInv, JobFits
<1>3. ASSUME NEW v \in StockRequests \ {w} PROVE SaleFits(v)'
  BY <1>1 DEF BatchInv, SaleFits, BatchTypes, PerBatch
<1>4. JobFits(w)'
  BY <1>1 DEF JobFits
<1>5. job'[w].pc # "sold" /\ given'[w] = given[w] => SaleFits(w)'
  BY <1>1 DEF BatchInv, SaleFits
<1>6. ASSUME NEW k \in Locations, k \notin K, k \notin strained'
      PROVE  TotalOf(batch', k) <= onHand'[k]
  <2>1. onHand'[k] = onHand[k] /\ k \notin strained
    BY <1>6 DEF WritesUnder
  <2>2. \A b \in BatchIds : batch[b].loc = k \/ batch'[b].loc = k => batch'[b] = batch[b]
    BY <1>6 DEF WritesUnder
  <2>3. At(batch', k) = At(batch, k)
    BY <2>2 DEF At
  <2> QED BY <2>1, <2>3 DEF BatchInv, WithinStock, TotalOf
<1> QED BY <1>2, <1>3, <1>4, <1>5, <1>6

(* How a request ends: done or, for a sale, sold. *)
LEMMA Ending ==
  ASSUME BatchAssumptions, BatchInv, NEW w \in StockRequests, NEW p \in {"done", "sold"}, Finishes(w, p)
  PROVE  /\ job' = [job EXCEPT ![w] = job'[w]] /\ job'[w] \in Jobs /\ job'[w].pc = p
         /\ p = "sold" => job'[w].qty = job[w].qty
         /\ rowOf' \in [Locations -> StockRequests \cup {NoRequest}]
         /\ \A k \in Locations : rowOf[k] # w => rowOf'[k] = rowOf[k]
<1>1. job \in [StockRequests -> Jobs] /\ rowOf \in [Locations -> StockRequests \cup {NoRequest}]
  BY DEF BatchInv, BatchTypes
<1>2. Idle("done") \in Jobs /\ Idle("done").pc = "done"
  BY NothingPlanned DEF Idle, Jobs, BatchAssumptions, LocationsAssumption
<1>3. ASSUME p = "sold"
      PROVE  job' = [job EXCEPT ![w] = [job[w] EXCEPT !.pc = "sold"]]
  BY <1>3 DEF Finishes
<1>4. ASSUME p = "done"
      PROVE  job' = [job EXCEPT ![w] = Idle("done")]
  BY <1>4 DEF Finishes
<1>5. /\ job' = [job EXCEPT ![w] = job'[w]] /\ job'[w] \in Jobs /\ job'[w].pc = p
      /\ p = "sold" => job'[w].qty = job[w].qty
  <2>1. CASE p = "sold"
    <3>1. job[w] \in Jobs
      BY <1>1
    <3>2. [job[w] EXCEPT !.pc = "sold"] \in Jobs
      BY <3>1 DEF Jobs
    <3> QED BY <1>1, <1>3, <2>1, <3>1, <3>2 DEF Jobs
  <2>2. CASE p = "done"
    BY <1>1, <1>2, <1>4, <2>2
  <2> QED BY <2>1, <2>2
<1> QED BY <1>1, <1>5 DEF Finishes, LetGo

(* The batches less what a taker planned: every batch stays what it was but  *)
(* for what is left of it, and its location holds the units it will have.    *)
LEMMA Taking ==
  ASSUME BatchAssumptions, BatchInv, NEW w \in StockRequests, job[w].pc = "read", job[w].op \in Takers,
         NEW bs, bs = TakenFrom(w), NEW l \in Locations, l = job[w].loc
  PROVE  /\ bs \in [BatchIds -> BatchRows]
         /\ \A b \in BatchIds : /\ bs[b].got = batch[b].got /\ bs[b].loc = batch[b].loc
                                /\ bs[b].exp = batch[b].exp
                                /\ job[w].plan[b] = 0 => bs[b] = batch[b]
                                /\ b \notin reached \cup OutOfReach(w) =>
                                     bs[b].left = batch[b].got - (taken[b] + job[w].plan[b])
         /\ l \notin strained /\ OutOfReach(w) = {} /\ PassedOver(w) = {} =>
              TotalOf(bs, l) <= onHand[l] - job[w].qty
<1>1. PICK r \in Jobs : r = job[w]
  BY DEF BatchInv, BatchTypes
<1>2. /\ TakerFits(r) /\ PlanTotal(r.plan) <= r.qty /\ r.loc = l
      /\ \A b \in BatchIds : r.plan[b] > 0 => batch[b].got > 0
  BY <1>1 DEF BatchInv, JobFits
<1>3. \A b \in BatchIds : /\ r.plan[b] \in Nat /\ r.saw[b] \in Nat /\ r.plan[b] <= r.saw[b]
                          /\ taken[b] \in Int /\ batch[b] \in BatchRows
  BY <1>1, <1>2 DEF BatchInv, BatchTypes, Jobs, PerBatch, TakerFits
<1>4. ASSUME NEW b \in BatchIds
      PROVE  bs[b] = IF r.plan[b] > 0 THEN [batch[b] EXCEPT !.left = r.saw[b] - r.plan[b]]
                                      ELSE batch[b]
  BY <1>1 DEF TakenFrom, Written
<1>5. ASSUME NEW b \in BatchIds
      PROVE  /\ bs[b] \in BatchRows
             /\ bs[b].got = batch[b].got /\ bs[b].loc = batch[b].loc
             /\ bs[b].exp = batch[b].exp
             /\ bs[b].left = IF r.plan[b] > 0 THEN r.saw[b] - r.plan[b] ELSE batch[b].left
             /\ r.plan[b] = 0 => bs[b] = batch[b]
  <2>1. PICK x \in BatchRows : x = batch[b]
    BY <1>3
  <2>2. CASE r.plan[b] > 0
    <3>1. bs[b] = [x EXCEPT !.left = r.saw[b] - r.plan[b]]
      BY <1>4, <2>1, <2>2
    <3>2. r.saw[b] - r.plan[b] \in Nat
      BY <1>3
    <3> QED BY <1>3, <2>1, <2>2, <3>1, <3>2 DEF BatchRows
  <2>3. CASE ~(r.plan[b] > 0)
    BY <1>3, <1>4, <2>1, <2>3
  <2> QED BY <2>2, <2>3
<1>6. bs \in [BatchIds -> BatchRows]
  <2>1. bs = [b \in BatchIds |-> bs[b]]
    BY DEF TakenFrom
  <2> QED BY <1>5, <2>1
<1>7. \A b \in BatchIds : b \in OutOfReach(w) <=> r.plan[b] > 0 /\ batch[b].loc # l
  BY <1>1, <1>2 DEF OutOfReach
<1>8. ASSUME NEW b \in BatchIds, b \notin reached \cup OutOfReach(w)
      PROVE  bs[b].left = batch[b].got - (taken[b] + r.plan[b])
  <2>1. batch[b].left = batch[b].got - taken[b]
    BY <1>8 DEF BatchInv, BatchesAddUp
  <2>2. r.plan[b] > 0 => r.saw[b] = batch[b].left
    BY <1>2, <1>7, <1>8 DEF TakerFits
  <2>3. batch[b].got \in Int /\ batch[b].left \in Int
    BY <1>3 DEF BatchRows
  <2> QED BY <1>3, <1>5, <2>1, <2>2, <2>3
<1>9. ASSUME l \notin strained, OutOfReach(w) = {}, PassedOver(w) = {}
      PROVE  TotalOf(bs, l) <= onHand[l] - r.qty
  <2>1. Covers(r) /\ r.qty <= onHand[l] /\ r.qty \in Nat /\ onHand[l] \in Int
    BY <1>1, <1>2, <1>9 DEF TakerFits, BatchInv, BatchTypes, Jobs
  <2>2. \A b \in BatchIds : r.plan[b] > 0 => batch[b].loc = l /\ b \notin reached
    BY <1>7, <1>9 DEF BatchInv, BatchFits
  <2>3. \A b \in BatchIds : r.plan[b] > 0 => r.saw[b] = batch[b].left
    BY <1>2, <2>2 DEF TakerFits
  <2>4. PICK f : f = At(batch, l)
    OBVIOUS
  <2>5. PICK g : g = At(bs, l)
    OBVIOUS
  <2>6. ASSUME NEW b \in BatchIds
        PROVE  f[b] \in Nat /\ g[b] \in Nat /\ f[b] = g[b] + r.plan[b]
    BY <1>3, <1>5, <2>2, <2>3, <2>4, <2>5 DEF At, BatchRows
  <2>7. CASE PlanTotal(r.plan) >= r.qty
    <3>1. SumFunctionOnSet(f, BatchIds) = SumFunctionOnSet(g, BatchIds) + SumFunctionOnSet(r.plan, BatchIds)
      <4>1. PICK p : p = r.plan
        OBVIOUS
      <4>2. \A b \in BatchIds : g[b] \in Int /\ p[b] \in Int /\ f[b] = g[b] + p[b]
        BY <1>3, <2>6, <4>1
      <4> QED BY <4>1, <4>2, BatchIdsFinite, SumPlus
    <3>2. SumFunctionOnSet(f, BatchIds) <= onHand[l]
      BY <1>9, <2>4 DEF BatchInv, WithinStock, TotalOf
    <3>3. SumFunctionOnSet(g, BatchIds) \in Int /\ SumFunctionOnSet(f, BatchIds) \in Int
          /\ SumFunctionOnSet(r.plan, BatchIds) \in Int
      BY <1>3, <2>6, BatchIdsFinite, SumInt
    <3>4. SumFunctionOnSet(r.plan, BatchIds) >= r.qty
      BY <2>7 DEF PlanTotal
    <3>5. SumFunctionOnSet(g, BatchIds) <= onHand[l] - r.qty
      BY <2>1, <3>1, <3>2, <3>3, <3>4
    <3> QED BY <2>5, <3>5 DEF TotalOf
  <2>8. CASE \A b \in BatchIds :
               batch[b].loc = l /\ (r.op = "freshSale" => batch[b].exp # Expired)
                 => r.plan[b] = batch[b].left
    <3>1. ASSUME NEW b \in BatchIds PROVE g[b] = 0
      <4>1. CASE batch[b].loc # l
        BY <1>5, <2>5, <4>1 DEF At
      <4>2. CASE batch[b].loc = l /\ (r.op = "freshSale" => batch[b].exp # Expired)
        <5>1. f[b] = batch[b].left /\ r.plan[b] = batch[b].left
          BY <2>4, <2>8, <4>2 DEF At
        <5> QED BY <1>3, <2>6, <5>1
      <4>3. CASE batch[b].loc = l /\ r.op = "freshSale" /\ batch[b].exp = Expired
        <5>1. ~ (batch[b].left > 0)
          BY <1>1, <1>2, <1>9, <4>3 DEF PassedOver
        <5>2. f[b] = batch[b].left /\ batch[b].left \in Nat
          BY <1>3, <2>4, <4>3 DEF At, BatchRows
        <5> QED BY <1>3, <2>6, <5>1, <5>2
      <4> QED BY <4>1, <4>2, <4>3
    <3>2. SumFunctionOnSet(g, BatchIds) = 0
      BY <3>1, BatchIdsFinite, SumZero
    <3> QED BY <2>1, <2>5, <3>2 DEF TotalOf
  <2> QED BY <1>2, <2>1, <2>7, <2>8 DEF Covers
<1> QED BY <1>1, <1>5, <1>6, <1>8, <1>9

(* What a taker notes. *)
LEMMA TakingNotes ==
  ASSUME BatchAssumptions, BatchInv, NEW w \in StockRequests, job[w].pc = "read", Notes(w),
         NEW l \in Locations, l = job[w].loc
  PROVE  /\ taken' \in [BatchIds -> Int]
         /\ \A b \in BatchIds : taken'[b] = taken[b] + job[w].plan[b]
         /\ reached' = reached \cup OutOfReach(w) /\ OutOfReach(w) \subseteq BatchIds
         /\ strained \subseteq strained' /\ strained' \subseteq Locations \cup {NoLoc}
         /\ \A b \in BatchIds : /\ b \in OutOfReach(w) <=> job[w].plan[b] > 0 /\ batch[b].loc # l
                                /\ b \in OutOfReach(w) => batch[b].loc \in strained'
                                /\ job[w].plan[b] \in Nat
         /\ l \notin strained' => OutOfReach(w) = {} /\ PassedOver(w) = {}
<1>1. PICK r \in Jobs : r = job[w]
  BY DEF BatchInv, BatchTypes
<1>2. /\ \A b \in BatchIds : r.plan[b] \in Nat /\ taken[b] \in Int /\ batch[b].loc \in Locations \cup {NoLoc}
      /\ reached \subseteq BatchIds /\ strained \subseteq Locations \cup {NoLoc}
  BY <1>1 DEF BatchInv, BatchTypes, Jobs, PerBatch, BatchRows
<1>3. taken' \in [BatchIds -> Int] /\ \A b \in BatchIds : taken'[b] = taken[b] + r.plan[b]
  BY <1>1, <1>2 DEF Notes
<1>4. \A b \in BatchIds : b \in OutOfReach(w) <=> r.plan[b] > 0 /\ batch[b].loc # l
  BY <1>1 DEF OutOfReach
<1>5. OutOfReach(w) \subseteq BatchIds
  BY DEF OutOfReach
<1>6. PICK o : o = OutOfReach(w)
  OBVIOUS
<1>7. strained' = strained \cup { batch[b].loc : b \in o }
                           \cup IF o \cup PassedOver(w) = {} THEN {} ELSE {l}
  BY <1>6 DEF Notes
<1>8. /\ strained \subseteq strained' /\ strained' \subseteq Locations \cup {NoLoc}
      /\ \A b \in o : batch[b].loc \in strained'
      /\ l \notin strained' => o = {} /\ PassedOver(w) = {}
  BY <1>2, <1>5, <1>6, <1>7
<1>9. reached' = reached \cup o
  BY <1>6 DEF Notes
<1> QED BY <1>1, <1>2, <1>3, <1>4, <1>5, <1>6, <1>8, <1>9

(* Every batch keeps to its numbers when a taker commits. *)
LEMMA CommitTakenKeeps ==
  ASSUME BatchAssumptions, BatchInv, NEW w \in StockRequests, CommitTaken(w)
  PROVE  BatchInv'
<1>1. PICK r \in Jobs : r = job[w]
  BY DEF BatchInv, BatchTypes
<1>2. PICK l \in Locations : l = r.loc
  BY DEF Jobs
<1>3. PICK bs : bs = TakenFrom(w)
  OBVIOUS
<1>4. r.pc = "read" /\ r.op \in Takers /\ Notes(w) /\ batch' = bs /\ returned' = returned
      /\ onHand' = [onHand EXCEPT ![l] = onHand[l] - r.qty]
  BY <1>1, <1>2, <1>3 DEF CommitTaken, Takers
<1>5. PICK p \in {"done", "sold"} :
        /\ Finishes(w, p)
        /\ p = "done" => given' = given
        /\ p = "sold" => given' = [given EXCEPT ![w] = r.plan]
  BY <1>1 DEF CommitTaken
<1>6. /\ job' = [job EXCEPT ![w] = job'[w]] /\ job'[w] \in Jobs /\ job'[w].pc = p
      /\ p = "sold" => job'[w].qty = r.qty
      /\ rowOf' \in [Locations -> StockRequests \cup {NoRequest}]
      /\ \A k \in Locations : rowOf[k] # w => rowOf'[k] = rowOf[k]
  BY <1>1, <1>5, Ending
<1>7. PICK o : o = OutOfReach(w)
  OBVIOUS
<1>8. /\ bs \in [BatchIds -> BatchRows]
      /\ \A b \in BatchIds : /\ bs[b].got = batch[b].got /\ bs[b].loc = batch[b].loc
                             /\ bs[b].exp = batch[b].exp
                             /\ r.plan[b] = 0 => bs[b] = batch[b]
                             /\ b \notin reached \cup o =>
                                  bs[b].left = batch[b].got - (taken[b] + r.plan[b])
      /\ l \notin strained /\ o = {} /\ PassedOver(w) = {} => TotalOf(bs, l) <= onHand[l] - r.qty
  BY <1>1, <1>2, <1>3, <1>4, <1>7, Taking
<1>9. /\ taken' \in [BatchIds -> Int]
      /\ \A b \in BatchIds : taken'[b] = taken[b] + r.plan[b]
      /\ reached' = reached \cup o /\ o \subseteq BatchIds
      /\ strained \subseteq strained' /\ strained' \subseteq Locations \cup {NoLoc}
      /\ \A b \in BatchIds : /\ b \in o <=> r.plan[b] > 0 /\ batch[b].loc # l
                             /\ b \in o => batch[b].loc \in strained'
                             /\ r.plan[b] \in Nat
      /\ l \notin strained' => o = {} /\ PassedOver(w) = {}
  BY <1>1, <1>2, <1>4, <1>7, TakingNotes
<1>10. /\ \A b \in BatchIds : r.plan[b] > 0 => batch[b].got > 0
       /\ r.qty > 0 /\ PlanTotal(r.plan) <= r.qty /\ rowOf[l] = w /\ r.qty \in Nat /\ r.plan \in PerBatch
  BY <1>1, <1>2, <1>4 DEF BatchInv, JobFits, Jobs, Takers
<1>11. /\ onHand' \in [Locations -> Int] /\ onHand'[l] = onHand[l] - r.qty
       /\ \A k \in Locations \ {l} : onHand'[k] = onHand[k]
  BY <1>4, <1>10 DEF BatchInv, BatchTypes
<1>12. given' \in [StockRequests -> PerBatch] /\ given' = [given EXCEPT ![w] = given'[w]]
       /\ (p = "done" => given'[w] = given[w]) /\ (p = "sold" => given'[w] = r.plan)
  BY <1>5, <1>10 DEF BatchInv, BatchTypes
<1>13. WritesUnder(w, {l})
  <2>1. ASSUME NEW k \in Locations, k # l, NEW b \in BatchIds, batch[b].loc = k \/ bs[b].loc = k,
               b \notin reached' \/ k \notin strained'
        PROVE  bs[b] = batch[b]
    BY <1>8, <1>9, <2>1
  <2>2. reached \subseteq reached' /\ strained \subseteq strained' /\ job'[w].pc # "read"
    BY <1>6, <1>9
  <2> QED BY <1>4, <1>6, <1>8, <1>11, <1>12, <2>1, <2>2 DEF WritesUnder
<1>14. /\ \A v \in StockRequests \ {w} : JobFits(v)' /\ SaleFits(v)'
       /\ JobFits(w)'
       /\ p = "done" => SaleFits(w)'
       /\ \A k \in Locations \ ({l} \cup strained') : TotalOf(batch', k) <= onHand'[k]
  <2>1. \A k \in {l} : rowOf[k] \in {w, NoRequest}
    BY <1>10
  <2> QED BY <1>6, <1>12, <1>13, <2>1, OthersFit
<1>15. BatchTypes'
  BY <1>4, <1>6, <1>8, <1>9, <1>11, <1>12 DEF BatchInv, BatchTypes
<1>16. ASSUME NEW b \in BatchIds PROVE BatchFits(b)'
  <2>1. BatchFits(b) /\ batch[b].got \in Nat /\ taken[b] \in Int
    BY DEF BatchInv, BatchTypes, BatchRows
  <2>2. bs[b].got = 0 => r.plan[b] = 0 /\ bs[b] = batch[b] /\ b \notin o /\ taken'[b] = taken[b]
    BY <1>8, <1>9, <1>10, <2>1
  <2>3. bs[b].got = 0 => bs[b].left = 0 /\ taken'[b] = 0 /\ bs[b].loc = NoLoc /\ b \notin reached'
    BY <1>8, <1>9, <2>1, <2>2 DEF BatchFits
  <2>4. b \in reached' => bs[b].loc \in strained'
    BY <1>8, <1>9, <2>1 DEF BatchFits
  <2> QED BY <1>4, <2>3, <2>4 DEF BatchFits
<1>17. BatchesAddUp'
  BY <1>4, <1>8, <1>9 DEF BatchesAddUp
<1>18. WithinStock'
  <2>1. l \notin strained' => TotalOf(batch', l) <= onHand'[l]
    BY <1>4, <1>8, <1>9, <1>11
  <2> QED BY <1>14, <2>1 DEF WithinStock
<1>19. SaleFits(w)'
  <2>1. CASE p = "sold"
    BY <1>4, <1>6, <1>8, <1>10, <1>12, <2>1 DEF SaleFits
  <2> QED BY <1>14, <2>1
<1> QED BY <1>14, <1>15, <1>16, <1>17, <1>18, <1>19 DEF BatchInv

(* A new batch takes an id that no batch has. *)
LEMMA StoredAtFree ==
  ASSUME BatchAssumptions, NEW bs \in [BatchIds -> BatchRows], \E b \in BatchIds : bs[b].got = 0,
         NEW new
  PROVE  \E n \in BatchIds : bs[n].got = 0 /\ Stored(bs, new) = [bs EXCEPT ![n] = new]
<1>1. PICK S : S = { b \in BatchIds : bs[b].got = 0 }
  OBVIOUS
<1>2. S \in SUBSET Nat /\ S # {}
  BY <1>1, BatchIdsFinite
<1>3. \E m \in S : \A n \in S : m <= n
  BY <1>2, LeastNumber
<1>4. Min(S) \in S
  BY <1>3 DEF Min
<1>5. Stored(bs, new) = [bs EXCEPT ![Min(S)] = new]
  BY <1>1, Zenon DEF Stored
<1> QED BY <1>1, <1>4, <1>5

(* A batch stored adds to the total of its own location. *)
LEMMA StoredTotal ==
  ASSUME BatchAssumptions, NEW bs \in [BatchIds -> BatchRows], NEW cs \in [BatchIds -> BatchRows],
         NEW n \in BatchIds, bs[n].loc = NoLoc, \A b \in BatchIds \ {n} : cs[b] = bs[b],
         NEW k \in Locations
  PROVE  /\ TotalOf(bs, k) \in Int
         /\ TotalOf(cs, k) = TotalOf(bs, k) + IF cs[n].loc = k THEN cs[n].left ELSE 0
<1>1. PICK f : f = At(bs, k)
  OBVIOUS
<1>2. PICK g : g = At(cs, k)
  OBVIOUS
<1>3. NoLoc # k
  BY DEF BatchAssumptions, LocationsAssumption
<1>4. \A b \in BatchIds : f[b] \in Int /\ g[b] \in Int
  BY <1>1, <1>2 DEF At, BatchRows
<1>5. \A b \in BatchIds \ {n} : f[b] = g[b]
  BY <1>1, <1>2 DEF At
<1>6. f[n] = 0 /\ g[n] = IF cs[n].loc = k THEN cs[n].left ELSE 0
  BY <1>1, <1>2, <1>3 DEF At
<1>7. /\ SumFunctionOnSet(f, BatchIds) \in Int
      /\ SumFunctionOnSet(g, BatchIds) = SumFunctionOnSet(f, BatchIds) + g[n] - f[n]
  <2>1. IsFiniteSet(BatchIds)
    BY BatchIdsFinite
  <2> QED BY <1>4, <1>5, <2>1, SumChange
<1>8. g[n] \in Int
  BY <1>4
<1>9. SumFunctionOnSet(g, BatchIds) = SumFunctionOnSet(f, BatchIds) + g[n]
  BY <1>6, <1>7, <1>8
<1> QED BY <1>1, <1>2, <1>6, <1>7, <1>9 DEF TotalOf

(* Nobody but the request and whoever holds quarantine is disturbed. *)
LEMMA CommitQuarantineKeeps ==
  ASSUME BatchAssumptions, BatchInv, NEW w \in StockRequests, CommitQuarantine(w)
  PROVE  BatchInv'
<1>1. PICK r \in Jobs : r = job[w]
  BY DEF BatchInv, BatchTypes
<1>2. PICK l \in Locations : l = r.loc
  BY DEF Jobs
<1>3. PICK bs : bs = TakenFrom(w)
  OBVIOUS
<1>4. r.pc = "read" /\ r.op = "quarantine" /\ r.op \in Takers /\ Notes(w) /\ returned' = returned
      /\ given' = given /\ rowOf[Quarantine] = NoRequest /\ Finishes(w, "done")
      /\ batch' = Stored(bs, Fresh(Quarantine, NoExpiry, r.qty))
      /\ onHand' = [onHand EXCEPT ![l] = @ - r.qty, ![Quarantine] = @ + r.qty]
      /\ \E b \in BatchIds : batch[b].got = 0
  BY <1>1, <1>2, <1>3 DEF CommitQuarantine, HasRoom, Takers
<1>5. Quarantine \in Locations /\ NoLoc \notin Locations
  BY DEF BatchAssumptions, LocationsAssumption
<1>6. /\ job' = [job EXCEPT ![w] = job'[w]] /\ job'[w] \in Jobs /\ job'[w].pc = "done"
      /\ rowOf' \in [Locations -> StockRequests \cup {NoRequest}]
      /\ \A k \in Locations : rowOf[k] # w => rowOf'[k] = rowOf[k]
  BY <1>4, Ending
<1>7. PICK o : o = OutOfReach(w)
  OBVIOUS
<1>8. /\ bs \in [BatchIds -> BatchRows]
      /\ \A b \in BatchIds : /\ bs[b].got = batch[b].got /\ bs[b].loc = batch[b].loc
                             /\ bs[b].exp = batch[b].exp
                             /\ r.plan[b] = 0 => bs[b] = batch[b]
                             /\ b \notin reached \cup o =>
                                  bs[b].left = batch[b].got - (taken[b] + r.plan[b])
      /\ l \notin strained /\ o = {} /\ PassedOver(w) = {} => TotalOf(bs, l) <= onHand[l] - r.qty
  BY <1>1, <1>2, <1>3, <1>4, <1>7, Taking
<1>9. /\ taken' \in [BatchIds -> Int]
      /\ \A b \in BatchIds : taken'[b] = taken[b] + r.plan[b]
      /\ reached' = reached \cup o /\ o \subseteq BatchIds
      /\ strained \subseteq strained' /\ strained' \subseteq Locations \cup {NoLoc}
      /\ \A b \in BatchIds : /\ b \in o <=> r.plan[b] > 0 /\ batch[b].loc # l
                             /\ b \in o => batch[b].loc \in strained'
                             /\ r.plan[b] \in Nat
      /\ l \notin strained' => o = {} /\ PassedOver(w) = {}
  BY <1>1, <1>2, <1>4, <1>7, TakingNotes
<1>10. /\ \A b \in BatchIds : r.plan[b] > 0 => batch[b].got > 0
       /\ r.qty > 0 /\ rowOf[l] = w /\ r.qty \in Nat /\ r.plan \in PerBatch /\ l # Quarantine
  BY <1>1, <1>2, <1>4 DEF BatchInv, JobFits, Jobs, TakerFits
<1>11. /\ onHand' \in [Locations -> Int] /\ onHand'[l] = onHand[l] - r.qty
       /\ onHand'[Quarantine] = onHand[Quarantine] + r.qty
       /\ \A k \in Locations \ {l, Quarantine} : onHand'[k] = onHand[k]
  BY <1>4, <1>5, <1>10 DEF BatchInv, BatchTypes
<1> PICK new : new = Fresh(Quarantine, NoExpiry, r.qty)
  OBVIOUS
<1>12. PICK n \in BatchIds : bs[n].got = 0 /\ batch' = [bs EXCEPT ![n] = new]
  <2>1. \E b \in BatchIds : bs[b].got = 0
    BY <1>4, <1>8
  <2>2. batch' = Stored(bs, new)
    BY <1>4, Zenon
  <2> QED BY <1>8, <2>1, <2>2, StoredAtFree
<1>13. /\ batch'[n] = [loc |-> Quarantine, exp |-> NoExpiry, got |-> r.qty, left |-> r.qty]
       /\ \A b \in BatchIds \ {n} : batch'[b] = bs[b]
       /\ batch' \in [BatchIds -> BatchRows]
  <2>1. new \in BatchRows
    BY <1>5, <1>10 DEF Fresh, BatchRows
  <2> QED BY <1>8, <1>12, <2>1 DEF Fresh
<1>14. /\ batch[n].got = 0 /\ bs[n] = batch[n] /\ r.plan[n] = 0 /\ n \notin o /\ n \notin reached
       /\ batch[n].loc = NoLoc /\ taken[n] = 0
  BY <1>8, <1>9, <1>10, <1>12 DEF BatchInv, BatchFits
<1>15. WritesUnder(w, {l, Quarantine})
  <2>1. ASSUME NEW k \in Locations, k # l, k # Quarantine, NEW b \in BatchIds,
               batch[b].loc = k \/ batch'[b].loc = k, b \notin reached' \/ k \notin strained'
        PROVE  batch'[b] = batch[b]
    BY <1>5, <1>8, <1>9, <1>13, <1>14, <2>1
  <2>2. reached \subseteq reached' /\ strained \subseteq strained' /\ job'[w].pc # "read"
    BY <1>6, <1>9
  <2>3. ASSUME NEW b \in BatchIds, batch[b].got > 0
        PROVE  batch'[b].got > 0 /\ batch'[b].loc = batch[b].loc /\ batch'[b].exp = batch[b].exp
    BY <1>8, <1>13, <1>14, <2>3
  <2>4. given' = [given EXCEPT ![w] = given'[w]]
    BY <1>4 DEF BatchInv, BatchTypes
  <2> QED BY <1>6, <1>11, <2>1, <2>2, <2>3, <2>4 DEF WritesUnder
<1>16. /\ \A v \in StockRequests \ {w} : JobFits(v)' /\ SaleFits(v)'
       /\ JobFits(w)' /\ SaleFits(w)'
       /\ \A k \in Locations \ ({l, Quarantine} \cup strained') : TotalOf(batch', k) <= onHand'[k]
  <2>1. \A k \in {l, Quarantine} : rowOf[k] \in {w, NoRequest}
    BY <1>4, <1>10
  <2>2. job'[w].pc # "sold" /\ given'[w] = given[w]
    BY <1>4, <1>6
  <2> QED BY <1>15, <2>1, <2>2, OthersFit
<1>17. BatchTypes'
  BY <1>4, <1>6, <1>9, <1>11, <1>13 DEF BatchInv, BatchTypes
<1>18. ASSUME NEW b \in BatchIds PROVE BatchFits(b)'
  <2>1. BatchFits(b) /\ batch[b].got \in Nat /\ taken[b] \in Int
    BY DEF BatchInv, BatchTypes, BatchRows
  <2>2. CASE b = n
    BY <1>9, <1>10, <1>13, <1>14, <2>2 DEF BatchFits
  <2>3. CASE b # n
    <3>1. bs[b].got = 0 => r.plan[b] = 0 /\ bs[b] = batch[b] /\ b \notin o /\ taken'[b] = taken[b]
      BY <1>8, <1>9, <1>10, <2>1
    <3>2. bs[b].got = 0 => bs[b].left = 0 /\ taken'[b] = 0 /\ bs[b].loc = NoLoc /\ b \notin reached'
      BY <1>8, <1>9, <2>1, <3>1 DEF BatchFits
    <3>3. b \in reached' => bs[b].loc \in strained'
      BY <1>8, <1>9, <2>1 DEF BatchFits
    <3> QED BY <1>13, <2>3, <3>2, <3>3 DEF BatchFits
  <2> QED BY <2>2, <2>3
<1>19. BatchesAddUp'
  <2>1. batch'[n].left = batch'[n].got - taken'[n]
    BY <1>9, <1>10, <1>13, <1>14
  <2>2. \A b \in BatchIds \ reached' : b # n => batch'[b].left = batch'[b].got - taken'[b]
    BY <1>8, <1>9, <1>13
  <2> QED BY <2>1, <2>2 DEF BatchesAddUp
<1>20. WithinStock'
  <2>1. \A k \in Locations : /\ TotalOf(bs, k) \in Int
                             /\ TotalOf(batch', k) = TotalOf(bs, k) + IF k = Quarantine THEN r.qty ELSE 0
    <3>1. PICK cs : cs = batch'
      OBVIOUS
    <3>2. /\ bs \in [BatchIds -> BatchRows] /\ cs \in [BatchIds -> BatchRows]
          /\ bs[n].loc = NoLoc /\ (\A b \in BatchIds \ {n} : cs[b] = bs[b])
          /\ cs[n].loc = Quarantine /\ cs[n].left = r.qty
      BY <1>8, <1>13, <1>14, <3>1
    <3> QED BY <3>1, <3>2, StoredTotal
  <2>2. l \notin strained' => TotalOf(batch', l) <= onHand'[l]
    BY <1>8, <1>9, <1>10, <1>11, <2>1
  <2>3. ASSUME Quarantine \notin strained' PROVE TotalOf(batch', Quarantine) <= onHand'[Quarantine]
    <3>1. \A b \in BatchIds : batch[b].loc = Quarantine => bs[b] = batch[b]
      BY <1>8, <1>9, <1>10, <2>3
    <3>2. At(bs, Quarantine) = At(batch, Quarantine)
      BY <1>8, <3>1 DEF At
    <3>3. TotalOf(bs, Quarantine) <= onHand[Quarantine]
      BY <1>5, <1>9, <2>3, <3>2 DEF BatchInv, WithinStock, TotalOf
    <3>4. onHand[Quarantine] \in Int
      BY <1>5 DEF BatchInv, BatchTypes
    <3> QED BY <1>5, <1>10, <1>11, <2>1, <3>3, <3>4
  <2> QED BY <1>16, <2>2, <2>3 DEF WithinStock
<1> QED BY <1>16, <1>17, <1>18, <1>19, <1>20 DEF BatchInv

(* A batch received is behind units received. *)
LEMMA CommitReceivedKeeps ==
  ASSUME BatchAssumptions, BatchInv, NEW w \in StockRequests, CommitReceived(w)
  PROVE  BatchInv'
<1>1. PICK r \in Jobs : r = job[w]
  BY DEF BatchInv, BatchTypes
<1>2. PICK l \in Locations : l = r.loc
  BY DEF Jobs
<1>3. PICK e \in {Ahead, NoExpiry} : batch' = Stored(batch, Fresh(l, e, r.qty))
  BY <1>1, <1>2 DEF CommitReceived
<1>4. r.pc = "read" /\ r.op = "receive" /\ Finishes(w, "done")
      /\ onHand' = [onHand EXCEPT ![l] = @ + r.qty]
      /\ UNCHANGED <<given, returned, taken, reached, strained>>
      /\ \E b \in BatchIds : batch[b].got = 0
  BY <1>1, <1>2 DEF CommitReceived, HasRoom
<1>5. /\ job' = [job EXCEPT ![w] = job'[w]] /\ job'[w] \in Jobs /\ job'[w].pc = "done"
      /\ rowOf' \in [Locations -> StockRequests \cup {NoRequest}]
      /\ \A k \in Locations : rowOf[k] # w => rowOf'[k] = rowOf[k]
  BY <1>4, Ending
<1>6. rowOf[l] = w /\ r.qty > 0 /\ r.qty \in Nat /\ NoLoc # l
  BY <1>1, <1>2, <1>4 DEF BatchInv, JobFits, Jobs, BatchAssumptions, LocationsAssumption
<1>7. batch \in [BatchIds -> BatchRows] /\ onHand \in [Locations -> Int]
  BY DEF BatchInv, BatchTypes
<1>8. /\ onHand' \in [Locations -> Int] /\ onHand'[l] = onHand[l] + r.qty
      /\ \A k \in Locations \ {l} : onHand'[k] = onHand[k]
  BY <1>4, <1>6, <1>7
<1>9. PICK new : new = Fresh(l, e, r.qty)
  OBVIOUS
<1>10. PICK n \in BatchIds : batch[n].got = 0 /\ batch' = [batch EXCEPT ![n] = new]
  <2>1. batch' = Stored(batch, new)
    BY <1>3, <1>9, Zenon
  <2>2. PICK bs \in [BatchIds -> BatchRows] : bs = batch
    BY <1>7
  <2>3. \E b \in BatchIds : bs[b].got = 0
    BY <1>4, <2>2
  <2>4. \E n \in BatchIds : bs[n].got = 0 /\ Stored(bs, new) = [bs EXCEPT ![n] = new]
    BY <2>3, StoredAtFree
  <2> QED BY <2>1, <2>2, <2>4
<1>11. /\ batch'[n] = [loc |-> l, exp |-> e, got |-> r.qty, left |-> r.qty]
       /\ \A b \in BatchIds \ {n} : batch'[b] = batch[b]
       /\ batch' \in [BatchIds -> BatchRows]
  <2>1. new = [loc |-> l, exp |-> e, got |-> r.qty, left |-> r.qty]
    BY <1>9 DEF Fresh
  <2>2. new \in BatchRows
    BY <1>6, <2>1 DEF BatchRows, Expired, Ahead, NoExpiry
  <2> QED BY <1>7, <1>10, <2>1, <2>2
<1>12. n \notin reached /\ batch[n].loc = NoLoc /\ taken[n] = 0
  BY <1>10 DEF BatchInv, BatchFits
<1>13. WritesUnder(w, {l})
  <2>1. ASSUME NEW k \in Locations, k # l, NEW b \in BatchIds, batch[b].loc = k \/ batch'[b].loc = k
        PROVE  batch'[b] = batch[b]
    <3>1. CASE b = n
      BY <1>11, <1>12, <2>1, <3>1 DEF BatchAssumptions, LocationsAssumption
    <3>2. CASE b # n
      BY <1>11, <3>2
    <3> QED BY <3>1, <3>2
  <2>2. ASSUME NEW b \in BatchIds, batch[b].got > 0
        PROVE  batch'[b].got > 0 /\ batch'[b].loc = batch[b].loc /\ batch'[b].exp = batch[b].exp
    BY <1>10, <1>11, <2>2
  <2>3. given' = [given EXCEPT ![w] = given'[w]]
    BY <1>4 DEF BatchInv, BatchTypes
  <2> QED BY <1>4, <1>5, <1>8, <2>1, <2>2, <2>3 DEF WritesUnder
<1>14. /\ \A v \in StockRequests \ {w} : JobFits(v)' /\ SaleFits(v)'
       /\ JobFits(w)' /\ SaleFits(w)'
       /\ \A k \in Locations \ ({l} \cup strained') : TotalOf(batch', k) <= onHand'[k]
  <2>1. \A k \in {l} : rowOf[k] \in {w, NoRequest}
    BY <1>6
  <2>2. job'[w].pc # "sold" /\ given'[w] = given[w]
    BY <1>4, <1>5
  <2> QED BY <1>13, <2>1, <2>2, OthersFit
<1>15. BatchTypes'
  BY <1>4, <1>5, <1>8, <1>11 DEF BatchInv, BatchTypes
<1>16. ASSUME NEW b \in BatchIds PROVE BatchFits(b)'
  BY <1>4, <1>6, <1>11, <1>12 DEF BatchInv, BatchFits
<1>17. BatchesAddUp'
  BY <1>4, <1>6, <1>11, <1>12 DEF BatchInv, BatchesAddUp
<1>18. WithinStock'
  <2>1. ASSUME l \notin strained' PROVE TotalOf(batch', l) <= onHand'[l]
    <3>1. PICK bs \in [BatchIds -> BatchRows] : bs = batch
      BY <1>7
    <3>2. PICK cs \in [BatchIds -> BatchRows] : cs = batch'
      BY <1>11
    <3>3. bs[n].loc = NoLoc /\ (\A b \in BatchIds \ {n} : cs[b] = bs[b])
          /\ cs[n].loc = l /\ cs[n].left = r.qty
      BY <1>11, <1>12, <3>1, <3>2
    <3>4. TotalOf(bs, l) \in Int /\ TotalOf(cs, l) = TotalOf(bs, l) + r.qty
      BY <3>3, StoredTotal
    <3>5. TotalOf(bs, l) <= onHand[l]
      BY <1>4, <2>1, <3>1 DEF BatchInv, WithinStock
    <3> QED BY <1>6, <1>7, <1>8, <3>2, <3>4, <3>5
  <2> QED BY <1>14, <2>1 DEF WithinStock
<1> QED BY <1>14, <1>15, <1>16, <1>17, <1>18 DEF BatchInv

(* Requests that leave the batches alone, and add units to their location,   *)
(* take some off and note it, or do nothing.                                 *)
LEMMA BatchesUntouched ==
  ASSUME BatchAssumptions, BatchInv, NEW w \in StockRequests, job[w].pc = "read",
         Finishes(w, "done"), UNCHANGED <<batch, given, returned, taken, reached>>,
         NEW l \in Locations, l = job[w].loc, NEW u \in Int,
         onHand' = [onHand EXCEPT ![l] = u],
         strained \subseteq strained', strained' \subseteq strained \cup {l},
         u < onHand[l] => l \in strained'
  PROVE  BatchInv'
<1>1. /\ job' = [job EXCEPT ![w] = job'[w]] /\ job'[w] \in Jobs /\ job'[w].pc = "done"
      /\ rowOf' \in [Locations -> StockRequests \cup {NoRequest}]
      /\ \A k \in Locations : rowOf[k] # w => rowOf'[k] = rowOf[k]
  BY Ending
<1>2. rowOf[l] = w
  BY DEF BatchInv, JobFits
<1>3. /\ onHand' \in [Locations -> Int] /\ onHand'[l] = u
      /\ \A k \in Locations \ {l} : onHand'[k] = onHand[k]
  BY DEF BatchInv, BatchTypes
<1>4. WritesUnder(w, {l})
  <2>1. given' = [given EXCEPT ![w] = given'[w]]
    BY DEF BatchInv, BatchTypes
  <2> QED BY <1>1, <1>3, <2>1 DEF WritesUnder
<1>5. /\ \A v \in StockRequests \ {w} : JobFits(v)' /\ SaleFits(v)'
      /\ JobFits(w)' /\ SaleFits(w)'
      /\ \A k \in Locations \ ({l} \cup strained') : TotalOf(batch', k) <= onHand'[k]
  <2>1. \A k \in {l} : rowOf[k] \in {w, NoRequest}
    BY <1>2
  <2>2. job'[w].pc # "sold" /\ given'[w] = given[w]
    BY <1>1
  <2> QED BY <1>4, <2>1, <2>2, OthersFit
<1>6. BatchTypes'
  BY <1>1, <1>3 DEF BatchInv, BatchTypes
<1>7. \A b \in BatchIds : BatchFits(b)'
  BY DEF BatchInv, BatchFits
<1>8. BatchesAddUp'
  BY DEF BatchInv, BatchesAddUp
<1>9. WithinStock'
  <2>1. ASSUME l \notin strained' PROVE TotalOf(batch', l) <= onHand'[l]
    <3>1. PICK t : t = TotalOf(batch, l)
      OBVIOUS
    <3>2. t <= onHand[l] /\ TotalOf(batch', l) = t
      BY <2>1, <3>1 DEF BatchInv, WithinStock
    <3>3. t \in Int
      <4>1. PICK f : f = At(batch, l)
        OBVIOUS
      <4>2. \A b \in BatchIds : f[b] \in Int
        BY <4>1 DEF At, BatchInv, BatchTypes, BatchRows
      <4> QED BY <3>1, <4>1, <4>2, BatchIdsFinite, SumInt DEF TotalOf
    <3>4. onHand[l] \in Int /\ onHand[l] <= u
      BY <2>1 DEF BatchInv, BatchTypes
    <3> QED BY <1>3, <3>2, <3>3, <3>4
  <2> QED BY <1>5, <2>1 DEF WithinStock
<1> QED BY <1>5, <1>6, <1>7, <1>8, <1>9 DEF BatchInv

(* adjustStock upwards and returnToStock add units without a batch. *)
LEMMA CommitPutBackKeeps ==
  ASSUME BatchAssumptions, BatchInv, NEW w \in StockRequests, CommitPutBack(w)
  PROVE  BatchInv'
<1>1. job[w].loc \in Locations /\ job[w].qty \in Nat /\ onHand[job[w].loc] \in Int
  BY DEF BatchInv, BatchTypes, Jobs
<1>2. PICK u \in Int : u = onHand[job[w].loc] + job[w].qty
  BY <1>1
<1>3. /\ job[w].pc = "read" /\ Finishes(w, "done")
      /\ UNCHANGED <<batch, given, returned, taken, reached>>
      /\ onHand' = [onHand EXCEPT ![job[w].loc] = u]
      /\ strained' = strained /\ ~(u < onHand[job[w].loc])
  BY <1>1, <1>2 DEF CommitPutBack
<1> QED BY <1>1, <1>3, BatchesUntouched

(* A count that lowers the on-hand strains its location. *)
LEMMA CommitCountKeeps ==
  ASSUME BatchAssumptions, BatchInv, NEW w \in StockRequests, CommitCount(w)
  PROVE  BatchInv'
<1>1. job[w].loc \in Locations /\ job[w].qty \in Int /\ onHand[job[w].loc] \in Int
  BY DEF BatchInv, BatchTypes, Jobs
<1> QED BY <1>1, BatchesUntouched DEF CommitCount

(* A transaction that fails only lets its row go. *)
LEMMA RollbackKeeps ==
  ASSUME BatchAssumptions, BatchInv, NEW w \in StockRequests, RollBack(w)
  PROVE  BatchInv'
<1>1. job[w].loc \in Locations /\ onHand[job[w].loc] \in Int /\ onHand \in [Locations -> Int]
  BY DEF BatchInv, BatchTypes, Jobs
<1>2. PICK u \in Int : u = onHand[job[w].loc]
  BY <1>1
<1>3. /\ job[w].pc = "read" /\ Finishes(w, "done")
      /\ UNCHANGED <<batch, given, returned, taken, reached>>
      /\ onHand' = [onHand EXCEPT ![job[w].loc] = u]
      /\ strained' = strained /\ ~(u < onHand[job[w].loc])
  BY <1>1, <1>2 DEF RollBack
<1> QED BY <1>1, <1>3, BatchesUntouched

(* A restock gives back to every batch what the sale's share of it is.       *)
LEMMA CommitRestockKeeps ==
  ASSUME BatchAssumptions, BatchInv, NEW w \in StockRequests, CommitRestock(w)
  PROVE  BatchInv'
<1>1. PICK r \in Jobs : r = job[w]
  BY DEF BatchInv, BatchTypes
<1>2. PICK l \in Locations : l = r.loc
  BY DEF Jobs
<1>3. PICK o : o = OutOfReach(w)
  OBVIOUS
<1>4. /\ r.pc = "read" /\ r.op = "restock" /\ Finishes(w, "done") /\ given' = given
      /\ returned' = [returned EXCEPT ![r.sale] = @ + r.qty]
      /\ batch' = [b \in BatchIds |-> [batch[b] EXCEPT !.left = @ + r.plan[b]]]
      /\ taken' = [b \in BatchIds |-> taken[b] - r.plan[b]]
      /\ reached' = reached \cup o
      /\ strained' = strained \cup { batch[b].loc : b \in o }
      /\ onHand' = [onHand EXCEPT ![l] = @ + r.qty]
  BY <1>1, <1>2, <1>3 DEF CommitRestock
<1>5. /\ job' = [job EXCEPT ![w] = job'[w]] /\ job'[w] \in Jobs /\ job'[w].pc = "done"
      /\ rowOf' \in [Locations -> StockRequests \cup {NoRequest}]
      /\ \A k \in Locations : rowOf[k] # w => rowOf'[k] = rowOf[k]
  BY <1>4, Ending
<1>6. /\ rowOf[l] = w /\ r.qty \in Nat /\ PlanTotal(r.plan) <= r.qty
      /\ \A b \in BatchIds : r.plan[b] \in Nat /\ (r.plan[b] > 0 => batch[b].got > 0)
  BY <1>1, <1>2, <1>4 DEF BatchInv, JobFits, Jobs, PerBatch
<1>7. /\ batch \in [BatchIds -> BatchRows] /\ onHand \in [Locations -> Int]
      /\ taken \in [BatchIds -> Int] /\ returned \in [StockRequests -> Nat]
      /\ reached \subseteq BatchIds /\ strained \subseteq Locations \cup {NoLoc}
  BY DEF BatchInv, BatchTypes
<1>8. /\ onHand' \in [Locations -> Int] /\ onHand'[l] = onHand[l] + r.qty
      /\ \A k \in Locations \ {l} : onHand'[k] = onHand[k]
  BY <1>4, <1>6, <1>7
<1>9. returned' \in [StockRequests -> Nat]
  <2>1. PICK q \in Nat : q = r.qty
    BY <1>6
  <2>2. CASE r.sale \in StockRequests
    <3>1. PICK m \in Nat : m = returned[r.sale] + q
      BY <1>7, <2>1, <2>2
    <3>2. returned' = [returned EXCEPT ![r.sale] = m]
      BY <1>4, <2>1, <3>1
    <3> QED BY <1>7, <3>2
  <2>3. CASE r.sale \notin StockRequests
    <3>1. returned' = returned
      BY <1>4, <1>7, <2>3
    <3> QED BY <1>7, <3>1
  <2> QED BY <2>2, <2>3
<1>10. ASSUME NEW b \in BatchIds
       PROVE  /\ batch'[b] \in BatchRows /\ batch'[b].got = batch[b].got
              /\ batch'[b].loc = batch[b].loc /\ batch'[b].exp = batch[b].exp
              /\ batch'[b].left = batch[b].left + r.plan[b]
              /\ r.plan[b] = 0 => batch'[b] = batch[b]
  <2>1. PICK x \in BatchRows : x = batch[b]
    BY <1>7
  <2>2. PICK y : y = x.left + r.plan[b]
    OBVIOUS
  <2>3. batch'[b] = [x EXCEPT !.left = y]
    BY <1>4, <2>1, <2>2
  <2>4. y \in Nat /\ (r.plan[b] = 0 => y = x.left)
    BY <1>6, <2>2 DEF BatchRows
  <2> QED BY <2>1, <2>2, <2>3, <2>4 DEF BatchRows
<1>11. batch' \in [BatchIds -> BatchRows]
  BY <1>4, <1>10
<1>12. taken' \in [BatchIds -> Int] /\ \A b \in BatchIds : taken'[b] = taken[b] - r.plan[b]
  BY <1>4, <1>6, <1>7
<1>13. /\ \A b \in BatchIds : b \in o <=> r.plan[b] > 0 /\ batch[b].loc # l
       /\ o \subseteq BatchIds
  BY <1>1, <1>2, <1>3 DEF OutOfReach
<1>14. /\ strained \subseteq strained' /\ strained' \subseteq Locations \cup {NoLoc}
       /\ \A b \in o : batch[b].loc \in strained'
  BY <1>4, <1>7, <1>13 DEF BatchRows
<1>15. WritesUnder(w, {l})
  <2>1. ASSUME NEW k \in Locations, k # l, NEW b \in BatchIds, batch[b].loc = k \/ batch'[b].loc = k,
               b \notin reached' \/ k \notin strained'
        PROVE  batch'[b] = batch[b]
    BY <1>4, <1>6, <1>10, <1>13, <1>14, <2>1
  <2>2. given' = [given EXCEPT ![w] = given'[w]]
    BY <1>4 DEF BatchInv, BatchTypes
  <2> QED BY <1>4, <1>5, <1>8, <1>10, <1>14, <2>1, <2>2 DEF WritesUnder
<1>16. /\ \A v \in StockRequests \ {w} : JobFits(v)' /\ SaleFits(v)'
       /\ JobFits(w)' /\ SaleFits(w)'
       /\ \A k \in Locations \ ({l} \cup strained') : TotalOf(batch', k) <= onHand'[k]
  <2>1. \A k \in {l} : rowOf[k] \in {w, NoRequest}
    BY <1>6
  <2>2. job'[w].pc # "sold" /\ given'[w] = given[w]
    BY <1>4, <1>5
  <2> QED BY <1>15, <2>1, <2>2, OthersFit
<1>17. BatchTypes'
  <2>1. reached' \subseteq BatchIds /\ given' \in [StockRequests -> PerBatch]
    BY <1>4, <1>7, <1>13 DEF BatchInv, BatchTypes
  <2>2. job' \in [StockRequests -> Jobs]
    BY <1>5 DEF BatchInv, BatchTypes
  <2> QED BY <1>5, <1>8, <1>9, <1>11, <1>12, <1>14, <2>1, <2>2 DEF BatchTypes
<1>18. ASSUME NEW b \in BatchIds PROVE BatchFits(b)'
  <2>1. BatchFits(b) /\ batch[b].got \in Nat /\ taken[b] \in Int /\ batch[b].left \in Nat
    BY <1>7 DEF BatchInv, BatchRows
  <2>2. batch[b].got = 0 => r.plan[b] = 0 /\ batch'[b] = batch[b] /\ b \notin o /\ taken'[b] = taken[b]
    BY <1>6, <1>10, <1>12, <1>13, <2>1
  <2>3. b \in reached' => batch'[b].loc \in strained'
    BY <1>4, <1>10, <1>14, <2>1 DEF BatchFits
  <2> QED BY <1>4, <1>10, <2>1, <2>2, <2>3 DEF BatchFits
<1>19. BatchesAddUp'
  <2>1. ASSUME NEW b \in BatchIds, b \notin reached'
        PROVE  batch'[b].left = batch'[b].got - taken'[b]
    <3>1. batch[b].left = batch[b].got - taken[b]
      BY <1>4, <2>1 DEF BatchInv, BatchesAddUp
    <3>2. batch[b].got \in Int /\ taken[b] \in Int
      BY <1>7 DEF BatchRows
    <3> QED BY <1>6, <1>10, <1>12, <3>1, <3>2
  <2> QED BY <2>1 DEF BatchesAddUp
<1>20. WithinStock'
  <2>1. ASSUME l \notin strained' PROVE TotalOf(batch', l) <= onHand'[l]
    <3>1. PICK f : f = At(batch, l)
      OBVIOUS
    <3>2. PICK g : g = At(batch', l)
      OBVIOUS
    <3>3. PICK p : p = r.plan
      OBVIOUS
    <3>4. PICK h : h = [b \in BatchIds |-> f[b] + p[b]]
      OBVIOUS
    <3>5. \A b \in BatchIds : f[b] \in Int /\ p[b] \in Int /\ h[b] = f[b] + p[b]
      BY <1>6, <1>7, <3>1, <3>3, <3>4 DEF At, BatchRows
    <3>6. \A b \in BatchIds : g[b] \in Int /\ h[b] \in Int /\ g[b] <= h[b]
      <4>1. ASSUME NEW b \in BatchIds PROVE g[b] \in Int /\ g[b] <= f[b] + p[b]
        <5>1. batch[b].left \in Nat /\ p[b] \in Nat
          BY <1>6, <1>7, <3>3 DEF BatchRows
        <5>2. f[b] = IF batch[b].loc = l THEN batch[b].left ELSE 0
          BY <3>1 DEF At
        <5>3. g[b] = IF batch[b].loc = l THEN batch[b].left + p[b] ELSE 0
          BY <1>10, <3>2, <3>3 DEF At
        <5> QED BY <5>1, <5>2, <5>3
      <4> QED BY <3>5, <4>1
    <3>7. IsFiniteSet(BatchIds)
      BY BatchIdsFinite
    <3>8. SumFunctionOnSet(h, BatchIds) = SumFunctionOnSet(f, BatchIds) + SumFunctionOnSet(p, BatchIds)
      BY <3>5, <3>7, SumPlus
    <3>9. SumFunctionOnSet(g, BatchIds) <= SumFunctionOnSet(h, BatchIds)
      BY <3>6, <3>7, SumAtMost
    <3>10. /\ SumFunctionOnSet(f, BatchIds) \in Int /\ SumFunctionOnSet(p, BatchIds) \in Int
           /\ SumFunctionOnSet(g, BatchIds) \in Int
      BY <3>5, <3>6, <3>7, SumInt
    <3>11. SumFunctionOnSet(p, BatchIds) <= r.qty
      BY <1>6, <3>3 DEF PlanTotal
    <3>12. SumFunctionOnSet(f, BatchIds) <= onHand[l] /\ onHand[l] \in Int
      BY <1>7, <1>14, <2>1, <3>1 DEF BatchInv, WithinStock, TotalOf
    <3>13. SumFunctionOnSet(g, BatchIds) <= onHand[l] + r.qty
      BY <1>6, <3>8, <3>9, <3>10, <3>11, <3>12
    <3> QED BY <1>8, <3>2, <3>13 DEF TotalOf
  <2> QED BY <1>16, <2>1 DEF WithinStock
<1> QED BY <1>16, <1>17, <1>18, <1>19, <1>20 DEF BatchInv

(* An exact share. *)
LEMMA ExactShare ==
  ASSUME NEW a \in Nat, NEW n \in Nat, n > 0, a % n = 0
  PROVE  a \div n \in Nat /\ n * (a \div n) = a
OBVIOUS

(* Products with the same positive number compare as the other factors do. *)
LEMMA TimesAtMost ==
  ASSUME NEW n \in Nat, n > 0, NEW x \in Int, NEW y \in Int, n * x <= n * y
  PROVE  x <= y
OBVIOUS

(* A share of what a sale took is no more than the units it is a share of. *)
LEMMA ShareFits ==
  ASSUME BatchAssumptions, NEW g \in PerBatch, NEW n \in Nat, n > 0, PlanTotal(g) <= n,
         NEW q \in Nat, \A b \in BatchIds : (g[b] * q) % n = 0,
         NEW plan, plan = [b \in BatchIds |-> (g[b] * q) \div n]
  PROVE  /\ plan \in PerBatch /\ PlanTotal(plan) <= q
         /\ \A b \in BatchIds : plan[b] > 0 => g[b] > 0
<1>1. ASSUME NEW b \in BatchIds
      PROVE  plan[b] \in Nat /\ n * plan[b] = q * g[b] /\ (plan[b] > 0 => g[b] > 0)
  <2>1. PICK x \in Nat : x = g[b]
    BY DEF PerBatch
  <2>2. PICK a \in Nat : a = x * q
    OBVIOUS
  <2>3. a % n = 0 /\ plan[b] = a \div n
    BY <2>1, <2>2
  <2>4. plan[b] \in Nat /\ n * plan[b] = a
    BY <2>3, ExactShare
  <2>5. a = q * x /\ (x = 0 => a = 0)
    BY <2>2
  <2>6. plan[b] > 0 => x > 0
    <3>1. SUFFICES ASSUME x = 0 PROVE ~(plan[b] > 0)
      BY <2>4
    <3>2. n * plan[b] <= n * 0
      BY <2>4, <2>5, <3>1
    <3> QED BY <2>4, <3>2, TimesAtMost
  <2> QED BY <2>1, <2>4, <2>5, <2>6
<1>2. plan \in PerBatch
  BY <1>1 DEF PerBatch
<1>3. PlanTotal(plan) <= q
  <2>1. PICK h : h = [b \in BatchIds |-> q * g[b]]
    OBVIOUS
  <2>2. \A b \in BatchIds : g[b] \in Int /\ plan[b] \in Int /\ h[b] = q * g[b] /\ h[b] = n * plan[b]
    BY <1>1, <2>1 DEF PerBatch
  <2>3. IsFiniteSet(BatchIds) /\ q \in Int /\ n \in Int
    BY BatchIdsFinite
  <2>4. SumFunctionOnSet(h, BatchIds) = q * SumFunctionOnSet(g, BatchIds)
    BY <2>2, <2>3, SumTimes
  <2>5. SumFunctionOnSet(h, BatchIds) = n * SumFunctionOnSet(plan, BatchIds)
    BY <2>2, <2>3, SumTimes
  <2>6. PICK s \in Int : s = SumFunctionOnSet(g, BatchIds)
    BY <2>2, <2>3, SumInt
  <2>7. PICK t \in Int : t = SumFunctionOnSet(plan, BatchIds)
    BY <2>2, <2>3, SumInt
  <2>8. s <= n
    BY <2>6 DEF PlanTotal
  <2>9. n * t = q * s
    BY <2>4, <2>5, <2>6, <2>7
  <2>10. q * s <= q * n
    BY <2>8
  <2>11. n * t <= n * q
    BY <2>9, <2>10
  <2>12. t <= q
    BY <2>11, TimesAtMost
  <2> QED BY <2>7, <2>12 DEF PlanTotal
<1> QED BY <1>1, <1>2, <1>3

-----------------------------------------------------------------------------
(* Starts. *)
LEMMA TakersStart ==
  ASSUME BatchAssumptions, BatchInv, NEW w \in StockRequests, NEW o \in Takers, NEW l \in Locations,
         NEW q \in Qty, q <= onHand[l], NEW skip \in BOOLEAN, skip => o = "freshSale",
         o = "quarantine" => l # Quarantine,
         Begin(w, o, l, q, Allocation(l, skip, q), NoRequest)
  PROVE  BatchInv'
<1>1. q \in Nat /\ q > 0
  <2>1. Qty \subseteq Nat \ {0}
    BY Zenon DEF BatchAssumptions, QtyAssumption
  <2> QED BY <2>1
<1>2. PICK plan : plan = Allocation(l, skip, q)
  OBVIOUS
<1>3. BatchTypes /\ \A b \in BatchIds : batch[b] \in BatchRows
  BY DEF BatchInv, BatchTypes
<1>4. /\ plan \in PerBatch
      /\ \A b \in BatchIds : plan[b] <= batch[b].left
      /\ PlanTotal(plan) <= q
      /\ PlanTotal(plan) >= q \/ \A b \in Eligible(l, skip) : plan[b] = batch[b].left
  BY <1>1, <1>2, <1>3, AllocationFits
<1>5. ASSUME NEW b \in BatchIds, plan[b] > 0 PROVE batch[b].got > 0
  <2>1. batch[b].left > 0 /\ batch[b].got \in Nat /\ batch[b].left \in Nat
    BY <1>3, <1>4, <1>5 DEF PerBatch, BatchRows
  <2> QED BY <2>1 DEF BatchInv, BatchFits
<1>6. ASSUME \A b \in Eligible(l, skip) : plan[b] = batch[b].left,
             NEW b \in BatchIds, batch[b].loc = l, o = "freshSale" => batch[b].exp # Expired
      PROVE  plan[b] = batch[b].left
  <2>1. CASE b \in Eligible(l, skip)
    BY <1>6, <2>1
  <2>2. CASE b \notin Eligible(l, skip)
    <3>1. ~(batch[b].left > 0)
      BY <1>6, <2>2 DEF Eligible
    <3> QED BY <1>3, <1>4, <3>1 DEF PerBatch, BatchRows
  <2> QED BY <2>1, <2>2
<1>7. Begin(w, o, l, q, plan, NoRequest)
  BY <1>2
<1>8. o \notin Plain /\ o # "count"
  BY DEF Takers, Plain
<1> QED BY <1>1, <1>4, <1>5, <1>6, <1>7, <1>8, BatchBegin

(* A sale takes first expired first out, from DefaultLoc. *)
LEMMA SellKeeps ==
  ASSUME BatchAssumptions, BatchInv, NEW w \in StockRequests, Sell(w)
  PROVE  BatchInv'
<1>1. PICK q \in Qty, skip \in BOOLEAN :
        /\ q <= onHand[Floor]
        /\ Begin(w, IF skip THEN "freshSale" ELSE "sale", Floor, q,
                 Allocation(Floor, skip, q), NoRequest)
  BY DEF Sell
<1>2. Floor \in Locations
  BY DEF BatchAssumptions, LocationsAssumption
<1>3. PICK o : o = IF skip THEN "freshSale" ELSE "sale"
  OBVIOUS
<1>4. o \in Takers /\ o # "quarantine" /\ (skip => o = "freshSale")
  BY <1>3 DEF Takers
<1>5. Begin(w, o, Floor, q, Allocation(Floor, skip, q), NoRequest)
  BY <1>1, <1>3
<1> QED BY <1>1, <1>2, <1>4, <1>5, TakersStart

(* Adjustments, write-offs, transfers sent and unnamed supplier returns.     *)
LEMMA TakeOutKeeps ==
  ASSUME BatchAssumptions, BatchInv, NEW w \in StockRequests, TakeOut(w)
  PROVE  BatchInv'
<1>1. "takeOut" \in Takers /\ FALSE \in BOOLEAN
  BY DEF Takers
<1> QED BY <1>1, TakersStart DEF TakeOut

(* The first half of a move to quarantine. *)
LEMMA MoveToQuarantineKeeps ==
  ASSUME BatchAssumptions, BatchInv, NEW w \in StockRequests, MoveToQuarantine(w)
  PROVE  BatchInv'
<1>1. "quarantine" \in Takers /\ FALSE \in BOOLEAN
  BY DEF Takers
<1> QED BY <1>1, TakersStart DEF MoveToQuarantine

(* A supplier return takes all of its units from the batch it names. *)
LEMMA ReturnNamedKeeps ==
  ASSUME BatchAssumptions, BatchInv, NEW w \in StockRequests, ReturnNamed(w)
  PROVE  BatchInv'
<1>1. PICK l \in Locations, q \in Qty, b \in BatchIds :
        /\ q <= onHand[l] /\ q <= batch[b].left
        /\ Begin(w, "takeOut", l, q, [NoUnits EXCEPT ![b] = q], NoRequest)
  BY DEF ReturnNamed
<1>2. q \in Nat /\ q > 0
  BY DEF BatchAssumptions, QtyAssumption
<1>3. PICK plan : plan = [NoUnits EXCEPT ![b] = q]
  OBVIOUS
<1>4. PICK f \in PerBatch : f = NoUnits
  BY NothingPlanned
<1>5. plan = [f EXCEPT ![b] = q] /\ (\A c \in BatchIds : f[c] = 0) /\ PlanTotal(f) = 0
  BY <1>3, <1>4, NothingPlanned
<1>6. plan \in PerBatch /\ plan[b] = q /\ \A c \in BatchIds \ {b} : plan[c] = 0
  BY <1>2, <1>5 DEF PerBatch
<1>7. PlanTotal(plan) = q
  <2>1. IsFiniteSet(BatchIds)
    BY BatchIdsFinite
  <2>2. \A c \in BatchIds : f[c] \in Int /\ plan[c] \in Int
    BY <1>5, <1>6 DEF PerBatch
  <2>3. \A c \in BatchIds \ {b} : f[c] = plan[c]
    BY <1>5, <1>6
  <2>4. SumFunctionOnSet(plan, BatchIds) = SumFunctionOnSet(f, BatchIds) + plan[b] - f[b]
    BY <2>1, <2>2, <2>3, SumChange
  <2> QED BY <1>2, <1>5, <1>6, <2>4 DEF PlanTotal
<1>8. \A c \in BatchIds : batch[c].left \in Nat /\ batch[c].got \in Nat
  BY DEF BatchInv, BatchTypes, BatchRows
<1>9. \A c \in BatchIds : plan[c] <= batch[c].left
  BY <1>1, <1>6, <1>8
<1>10. \A c \in BatchIds : plan[c] > 0 => batch[c].got > 0
  BY <1>1, <1>2, <1>6, <1>8 DEF BatchInv, BatchFits
<1>11. Begin(w, "takeOut", l, q, plan, NoRequest) /\ "takeOut" \in Takers /\ "takeOut" \notin Plain
  BY <1>1, <1>3 DEF Takers, Plain
<1>12. PlanTotal(plan) <= q /\ PlanTotal(plan) >= q
  BY <1>2, <1>7
<1> QED BY <1>1, <1>2, <1>6, <1>9, <1>10, <1>11, <1>12, BatchBegin

(* A request that adds units or counts them plans nothing. *)
LEMMA PlainStart ==
  ASSUME BatchAssumptions, BatchInv, NEW w \in StockRequests, NEW o \in Plain, NEW l \in Locations,
         NEW q \in Nat, o # "count" => q > 0, Begin(w, o, l, q, NoUnits, NoRequest)
  PROVE  BatchInv'
<1>1. PICK plan \in PerBatch : plan = NoUnits
  BY NothingPlanned
<1>2. PlanTotal(plan) <= q /\ \A b \in BatchIds : ~(plan[b] > 0)
  BY <1>1, NothingPlanned
<1>3. o \notin Takers /\ Begin(w, o, l, q, plan, NoRequest)
  BY <1>1 DEF Takers, Plain
<1> QED BY <1>1, <1>2, <1>3, BatchBegin

(* Receipts, returns to stock and counts read no batch. *)
LEMMA PlainKeep ==
  ASSUME BatchAssumptions, BatchInv, NEW w \in StockRequests, Receive(w) \/ PutBack(w) \/ PostCount(w)
  PROVE  BatchInv'
<1>1. \A q \in Qty : q \in Nat /\ q > 0
  BY DEF BatchAssumptions, QtyAssumption
<1>2. "receive" \in Plain /\ "putBack" \in Plain /\ "count" \in Plain
  BY DEF Plain
<1>3. CASE Receive(w)
  BY <1>1, <1>2, <1>3, PlainStart DEF Receive
<1>4. CASE PutBack(w)
  BY <1>1, <1>2, <1>4, PlainStart DEF PutBack
<1>5. CASE PostCount(w)
  BY <1>1, <1>2, <1>5, PlainStart DEF PostCount
<1> QED BY <1>3, <1>4, <1>5

(* A void or return plans its share of what the sale took. *)
LEMMA RestockKeeps ==
  ASSUME BatchAssumptions, BatchInv, NEW w \in StockRequests, Restock(w)
  PROVE  BatchInv'
<1>1. PICK s \in StockRequests, l \in {Floor, Quarantine} :
        /\ job[s].pc = "sold"
        /\ \E q \in 1..(job[s].qty - returned[s]) :
             /\ \A b \in BatchIds : (given[s][b] * q) % job[s].qty = 0
             /\ Begin(w, "restock", l, q,
                      [b \in BatchIds |-> (given[s][b] * q) \div job[s].qty], s)
  BY DEF Restock
<1>2. PICK n \in Nat : n = job[s].qty
  BY DEF BatchInv, BatchTypes, Jobs
<1>3. PICK g \in PerBatch : g = given[s]
  BY DEF BatchInv, BatchTypes
<1>4. n > 0 /\ PlanTotal(g) <= n /\ \A b \in BatchIds : g[b] > 0 => batch[b].got > 0
  BY <1>1, <1>2, <1>3 DEF BatchInv, SaleFits
<1>5. returned[s] \in Nat
  BY DEF BatchInv, BatchTypes
<1>6. PICK q \in 1..(n - returned[s]) :
        /\ \A b \in BatchIds : (g[b] * q) % n = 0
        /\ Begin(w, "restock", l, q, [b \in BatchIds |-> (g[b] * q) \div n], s)
  BY <1>1, <1>2, <1>3
<1>7. q \in Nat /\ q > 0
  BY <1>2, <1>5, <1>6
<1>8. PICK plan : plan = [b \in BatchIds |-> (g[b] * q) \div n]
  OBVIOUS
<1>9. /\ plan \in PerBatch /\ PlanTotal(plan) <= q
      /\ \A b \in BatchIds : plan[b] > 0 => g[b] > 0
  BY <1>4, <1>6, <1>7, <1>8, ShareFits
<1>10. l \in Locations
  BY DEF BatchAssumptions, LocationsAssumption
<1>11. "restock" \notin Takers /\ "restock" \notin Plain
  BY DEF Takers, Plain
<1>12. \A b \in BatchIds : plan[b] > 0 => batch[b].got > 0
  BY <1>4, <1>9
<1>13. Begin(w, "restock", l, q, plan, s)
  BY <1>6, <1>8
<1> QED BY <1>7, <1>9, <1>10, <1>11, <1>12, <1>13, BatchBegin

-----------------------------------------------------------------------------
(* At the start each location has the units of its batches at least. *)
LEMMA BatchesStart ==
  ASSUME BatchAssumptions, BatchesInit
  PROVE  BatchInv
<1>1. /\ Floor \in Locations /\ NoLoc \notin Locations
      /\ Untracked \in Nat /\ NoRequest \notin StockRequests
      /\ \A b \in DOMAIN Opening : /\ Opening[b] \in BatchRows
                                   /\ Opening[b].got > 0 /\ Opening[b].left = Opening[b].got
  BY DEF BatchAssumptions, LocationsAssumption, QtyAssumption, NoRequestAssumption, BatchAssumption
<1>2. Absent \in BatchRows /\ Absent.got = 0 /\ Absent.left = 0 /\ Absent.loc = NoLoc
  BY DEF Absent, BatchRows, NoExpiry
<1>3. /\ batch = [b \in BatchIds |-> IF b \in DOMAIN Opening THEN Opening[b] ELSE Absent]
      /\ rowOf = [k \in Locations |-> NoRequest]
      /\ job = [w \in StockRequests |-> Idle("new")]
      /\ given = [w \in StockRequests |-> NoUnits]
      /\ returned = [w \in StockRequests |-> 0]
      /\ taken = NoUnits /\ reached = {} /\ strained = {}
  BY DEF BatchesInit
<1>4. \A b \in BatchIds : /\ batch[b] \in BatchRows
                          /\ batch[b].left = batch[b].got
                          /\ batch[b].got = 0 => batch[b].loc = NoLoc
  BY <1>1, <1>2, <1>3
<1>5. batch \in [BatchIds -> BatchRows]
  BY <1>3, <1>4
<1>6. NoUnits \in PerBatch /\ \A b \in BatchIds : NoUnits[b] = 0
  BY NothingPlanned
<1>7. Idle("new") \in Jobs /\ Idle("new").pc = "new"
  BY <1>1, <1>6 DEF Idle, Jobs
<1>8. PICK left : left = [b \in BatchIds |-> batch[b].left]
  OBVIOUS
<1>9. \A b \in BatchIds : left[b] \in Nat /\ left[b] = batch[b].left
  BY <1>4, <1>8 DEF BatchRows
<1>10. onHand = [k \in Locations |->
                   Untracked + SumFunctionOnSet(left, { b \in BatchIds :
                                                          \/ batch[b].loc = k
                                                          \/ batch[b].loc = NoLoc /\ k = Floor })]
  BY <1>8, Zenon DEF BatchesInit
<1>11. ASSUME NEW k \in Locations
       PROVE  onHand[k] \in Int /\ TotalOf(batch, k) <= onHand[k]
  <2>1. PICK S : S = { b \in BatchIds :
                         \/ batch[b].loc = k
                         \/ batch[b].loc = NoLoc /\ k = Floor }
    OBVIOUS
  <2>2. PICK T : T = { b \in BatchIds : batch[b].loc = k }
    OBVIOUS
  <2>3. S \in SUBSET BatchIds /\ T \in SUBSET S
    BY <2>1, <2>2
  <2>4. onHand[k] = Untracked + SumFunctionOnSet(left, S)
    BY <1>10, <2>1
  <2>5. IsFiniteSet(S)
    BY <2>3, BatchIdsFinite, FS_Subset
  <2>6. \A b \in S : left[b] \in Nat /\ left[b] \in Int
    BY <1>9, <2>3
  <2>7. SumFunctionOnSet(left, T) <= SumFunctionOnSet(left, S)
    BY <2>3, <2>5, <2>6, SumOfMore
  <2>8. SumFunctionOnSet(left, S) \in Int
    BY <2>5, <2>6, SumInt
  <2>9. SumFunctionOnSet(left, T) \in Int
    <3>1. IsFiniteSet(T) /\ \A b \in T : left[b] \in Int
      BY <2>3, <2>5, <2>6, FS_Subset
    <3> QED BY <3>1, SumInt
  <2>10. TotalOf(batch, k) = SumFunctionOnSet(left, T)
    <3>1. PICK bs \in [BatchIds -> BatchRows] : bs = batch
      BY <1>5
    <3>2. left = [b \in BatchIds |-> bs[b].left] /\ T = { b \in BatchIds : bs[b].loc = k }
      BY <1>8, <2>2, <3>1
    <3>3. SumFunctionOnSet(left, T) = TotalOf(bs, k)
      BY <3>2, TotalIsTotalOf
    <3> QED BY <3>1, <3>3
  <2> QED BY <1>1, <2>4, <2>7, <2>8, <2>9, <2>10
<1>12. onHand \in [Locations -> Int]
  BY <1>10, <1>11
<1>13. BatchTypes
  <2>1. taken \in [BatchIds -> Int]
    BY <1>3, <1>6 DEF PerBatch
  <2> QED BY <1>3, <1>5, <1>6, <1>7, <1>12, <2>1 DEF BatchTypes
<1>14. \A b \in BatchIds : BatchFits(b)
  BY <1>3, <1>4, <1>6 DEF BatchFits
<1>15. \A w \in StockRequests : JobFits(w) /\ SaleFits(w)
  BY <1>3, <1>6, <1>7 DEF JobFits, SaleFits
<1>16. BatchesAddUp
  <2>1. ASSUME NEW b \in BatchIds PROVE batch[b].left = batch[b].got - taken[b]
    BY <1>3, <1>4, <1>6 DEF BatchRows
  <2> QED BY <2>1 DEF BatchesAddUp
<1>17. WithinStock
  BY <1>11 DEF WithinStock
<1> QED BY <1>13, <1>14, <1>15, <1>16, <1>17 DEF BatchInv

(* Every step of every request keeps the invariant. *)
LEMMA BatchesStep ==
  ASSUME BatchAssumptions, BatchInv, [BatchesNext]_batchesVars
  PROVE  BatchInv'
<1>1. CASE UNCHANGED batchesVars
  <2>1. UNCHANGED <<batch, onHand, rowOf, job, given, returned, taken, reached, strained>>
    BY <1>1 DEF batchesVars
  <2>2. BatchTypes'
    BY <2>1 DEF BatchInv, BatchTypes
  <2>3. \A b \in BatchIds : BatchFits(b)'
    BY <2>1 DEF BatchInv, BatchFits
  <2>4. \A w \in StockRequests : JobFits(w)' /\ SaleFits(w)'
    BY <2>1 DEF BatchInv, JobFits, SaleFits, TakerFits, Covers
  <2>5. BatchesAddUp' /\ WithinStock'
    BY <2>1 DEF BatchInv, BatchesAddUp, WithinStock
  <2> QED BY <2>2, <2>3, <2>4, <2>5 DEF BatchInv
<1>2. ASSUME NEW w \in StockRequests,
             \/ Sell(w) \/ TakeOut(w) \/ ReturnNamed(w) \/ MoveToQuarantine(w) \/ Receive(w)
             \/ PutBack(w) \/ PostCount(w) \/ Restock(w)
             \/ CommitTaken(w) \/ CommitQuarantine(w) \/ CommitReceived(w) \/ CommitPutBack(w)
             \/ CommitCount(w) \/ CommitRestock(w) \/ RollBack(w)
      PROVE  BatchInv'
  BY <1>2, SellKeeps, TakeOutKeeps, ReturnNamedKeeps, MoveToQuarantineKeeps, PlainKeep, RestockKeeps,
     CommitTakenKeeps, CommitQuarantineKeeps, CommitReceivedKeeps, CommitPutBackKeeps,
     CommitCountKeeps, CommitRestockKeeps, RollbackKeeps
<1> QED BY <1>1, <1>2 DEF BatchesNext

(* What every request with a row relies on holds throughout, whatever the    *)
(* locations, batches, quantities and requests.                              *)
THEOREM BatchesHold == BatchesSpec => []BatchInv
<1>1. BatchesInit => BatchInv
  BY BatchesStart, BatchAssumed
<1>2. BatchInv /\ [BatchesNext]_batchesVars => BatchInv'
  BY BatchesStep, BatchAssumed
<1> QED BY <1>1, <1>2, PTL DEF BatchesSpec

(* No unit of a batch is given out twice (stock.util.ts:127-130): a batch    *)
(* that only holders of its own location's row wrote has left what it        *)
(* received less what was taken from it and not put back.                    *)
THEOREM EachUnitOnce == BatchesSpec => []BatchesAddUp
<1>1. BatchInv => BatchesAddUp
  BY DEF BatchInv
<1> QED BY <1>1, BatchesHold, PTL

(* The batches of a location never claim more than its on-hand, unless a     *)
(* count, a sale that passed expired batches over, or a writer under another *)
(* location's row came between (reconciliation.ts:87-90 compares the two).   *)
THEOREM BatchesAreBacked == BatchesSpec => []BatchesWithinStock
<1>1. BatchInv => BatchesWithinStock
  BY WithinStockIsTotalOf, BatchAssumed DEF BatchInv
<1> QED BY <1>1, BatchesHold, PTL

=============================================================================
