--------------------------- MODULE CheckoutProofs ---------------------------
(* Proofs about Checkout, for any calls, keys, carts, numbering scopes, days *)
(* and any number of attempts; and, in the second half, about what checkouts *)
(* do to customers and promotions (Accounts and Promotions).                 *)
EXTENDS Checkout, Accounts, SumTheorems, TLAPS

-----------------------------------------------------------------------------
(* The inductive invariant, in two layers: numbers, then answers. *)

(* The highest number of a series so far. *)
Highest(s) == IF counter[s] = NoRow THEN Old(s) ELSE counter[s]

(* Only a call that committed has a sale. *)
OnlyAnsweredSold == \A c \in Calls : Sold(c) => pc[c] = "done"

(* Once a call is past EnsureSaleCounter the first day has its counter, so a *)
(* counter that has to be created later has no older numbers behind it.      *)
FirstDayEnsured ==
  \A c \in Calls : (pc[c] \notin {"new", "sent", "done"} /\ day = 1) => counter[<<Online, 1>>] # NoRow

(* A call that has drawn a number holds its series, and the number is next. *)
DrawnIsNext ==
  \A c \in Calls : pc[c] = "numbered" =>
    LET s == drawn[c].counter
    IN  /\ s \in Counters
        /\ counterOwner[s] = c
        /\ drawn[c].n = NextNumber(s)
        /\ counter[s] = NoRow => Old(s) = 0

(* A call that was sent has a key and a cart. *)
CallsSent == \A c \in Calls : pc[c] # "new" => key[c] \in Keys /\ cart[c] \in Carts

NumberInv ==
  /\ TypeOK
  /\ CallsSent
  /\ OnlyAnsweredSold
  /\ FirstDayEnsured
  /\ DrawnIsNext
  /\ \A s \in Counters : Issued(s) = 1..Highest(s)
  /\ \A c, d \in Calls : Sold(c) /\ number[c] = number[d] => c = d

(* What a counter starts from is a number. *)
LEMMA OldIsNat == ASSUME NEW s \in Counters PROVE Old(s) \in Nat
  BY NumbersAssumption DEF Old

(* The greatest of the numbers up to n is n. *)
LEMMA MaxOfRange == ASSUME NEW n \in Nat PROVE Max((1..n) \cup {0}) = n
<1> DEFINE S == (1..n) \cup {0}
<1>1. n \in S /\ \A y \in S : n >= y
  OBVIOUS
<1>2. \A x \in S : (\A y \in S : x >= y) => x = n
  OBVIOUS
<1> QED
  BY <1>1, <1>2 DEF Max

(* Init and every step of a call (createSale, sales.service.ts) keep the     *)
(* types, and a call that was sent has a key and a cart.                     *)
THEOREM TypeInductive ==
  ASSUME NumberInv, [Next]_vars
  PROVE  TypeOK' /\ CallsSent'
<1> USE NoneAssumption, NumbersAssumption, OnlineAssumption, NoRowAssumption
<1>0. TypeOK /\ CallsSent
  BY DEF NumberInv
<1>1. ASSUME NEW c \in Calls, Send(c) PROVE TypeOK' /\ CallsSent'
  BY <1>0, <1>1 DEF TypeOK, CallsSent, Send
<1>2. ASSUME NEW c \in Calls, EnsureSaleCounter(c) PROVE TypeOK' /\ CallsSent'
  <2> DEFINE s == <<Online, day>>
  <2>1. s \in Counters
    BY <1>0 DEF TypeOK, Counters
  <2>2. counter[s] = NoRow => Max(Issued(s) \cup {0}) \in Nat
    <3> SUFFICES ASSUME counter[s] = NoRow PROVE Max(Issued(s) \cup {0}) \in Nat
      OBVIOUS
    <3>1. Issued(s) = 1..Old(s)
      BY <2>1 DEF NumberInv, Highest
    <3> QED BY <3>1, <2>1, OldIsNat, MaxOfRange
  <2>3. counter' \in [Counters -> Nat \cup {NoRow}]
    BY <1>0, <1>2, <2>1, <2>2 DEF TypeOK, EnsureSaleCounter
  <2>4. pc' \in [Calls -> {"new", "sent", "ready", "done"} \cup InTransaction]
        /\ attempt' \in [Calls -> 0..MaxAttempts]
    BY <1>0, <1>2 DEF TypeOK, EnsureSaleCounter
  <2> QED BY <1>0, <1>2, <2>3, <2>4 DEF TypeOK, CallsSent, EnsureSaleCounter
<1>3. ASSUME NEW c \in Calls, LockRows(c) PROVE TypeOK' /\ CallsSent'
  BY <1>0, <1>3 DEF TypeOK, CallsSent, LockRows, InTransaction
<1>4. ASSUME NEW c \in Calls, Number(c) PROVE TypeOK' /\ CallsSent'
  <2> DEFINE s == <<cart[c].scope, day>>
  <2>1. s \in Counters
    BY <1>0, <1>4, CartsAssumption DEF TypeOK, CallsSent, Number, Counters
  <2>2. [counter |-> s, n |-> NextNumber(s)] \in SaleNumbers
    BY <1>0, <2>1 DEF TypeOK, SaleNumbers, NextNumber
  <2> QED BY <1>0, <1>4, <2>1, <2>2 DEF TypeOK, CallsSent, Number, InTransaction
<1>5. ASSUME NEW c \in Calls, NEW kind \in {"sold", "replayed", "keyConflict", "clientConflict",
                                             "clash", "busy", "refused"},
             NEW sale \in Calls \cup {None}, Reply(c, kind, sale),
             pc[c] # "new"
      PROVE  /\ <<day, key, cart, attempt>>' = <<day, key, cart, attempt>>
             /\ pc' \in [Calls -> {"new", "sent", "ready", "done"} \cup InTransaction]
             /\ rowOwner' \in [Products -> Calls \cup {None}]
             /\ counterOwner' \in [Counters -> Calls \cup {None}]
             /\ drawn' \in [Calls -> SaleNumbers \cup {NoNumber}]
             /\ answer' \in [Calls -> [kind : {"none", "sold", "replayed", "keyConflict",
                   "clientConflict", "clash", "busy", "refused"}, sale : Calls \cup {None}]]
             /\ CallsSent'
  BY <1>0, <1>5 DEF TypeOK, CallsSent, Reply, ReleaseLocks
<1>6. ASSUME NEW c \in Calls, StartOver(c), attempt[c] < MaxAttempts, pc[c] # "new",
             UNCHANGED <<counter, number, boundTo>>
      PROVE  TypeOK' /\ CallsSent'
  BY <1>0, <1>6 DEF TypeOK, CallsSent, StartOver, ReleaseLocks
<1>7. ASSUME NEW c \in Calls, CheckKey(c) PROVE TypeOK' /\ CallsSent'
  <2>1. boundTo[key[c]] \in Calls \cup {None}
    BY <1>0, <1>7 DEF TypeOK, CallsSent, CheckKey
  <2>2. CASE GoOn(c, "keyed")
    BY <1>0, <1>7, <2>2 DEF TypeOK, CallsSent, CheckKey, GoOn, InTransaction
  <2>3. CASE \E kind \in {"keyConflict", "replayed"}, sale \in Calls \cup {None} : Reply(c, kind, sale)
    <3>1. UNCHANGED <<counter, number, boundTo>> /\ pc[c] # "new"
      BY <1>7 DEF CheckKey
    <3> QED BY <1>0, <1>5, <2>3, <3>1 DEF TypeOK
  <2> QED BY <1>7, <2>1, <2>2, <2>3 DEF CheckKey
<1>8. ASSUME NEW c \in Calls, CheckClientSaleId(c) PROVE TypeOK' /\ CallsSent'
  <2>1. CASE GoOn(c, "checked")
    BY <1>0, <1>8, <2>1 DEF TypeOK, CallsSent, CheckClientSaleId, GoOn, InTransaction
  <2>2. CASE \E kind \in {"clientConflict", "replayed"}, sale \in Calls \cup {None} : Reply(c, kind, sale)
    <3>1. UNCHANGED <<counter, number, boundTo>> /\ pc[c] # "new"
      BY <1>8 DEF CheckClientSaleId
    <3> QED BY <1>0, <1>5, <2>2, <3>1 DEF TypeOK
  <2> QED BY <1>8, <2>1, <2>2 DEF CheckClientSaleId, SalesOf
<1>9. ASSUME NEW c \in Calls, CommitSale(c) PROVE TypeOK' /\ CallsSent'
  <2>1. Reply(c, "sold", c) /\ pc[c] = "numbered"
    BY <1>9 DEF CommitSale
  <2>2. drawn[c] \in SaleNumbers
    <3>1. drawn[c] \in SaleNumbers \cup {NoNumber}
      BY <1>0 DEF TypeOK
    <3>2. PICK s \in Counters : drawn[c].n = NextNumber(s)
      BY <2>1 DEF NumberInv, DrawnIsNext
    <3>3. NextNumber(s) # 0
      BY <1>0 DEF TypeOK, NextNumber
    <3> QED BY <3>1, <3>2, <3>3 DEF NoNumber
  <2>3. number' \in [Calls -> SaleNumbers \cup {NoNumber}] /\ boundTo' \in [Keys -> Calls \cup {None}]
        /\ counter' \in [Counters -> Nat \cup {NoRow}]
    BY <1>0, <1>9, <2>2 DEF TypeOK, CallsSent, CommitSale, SaleNumbers
  <2> QED BY <1>0, <1>5, <2>1, <2>3 DEF TypeOK
<1>10. ASSUME NEW c \in Calls, Clash(c) \/ Refuse(c) PROVE TypeOK' /\ CallsSent'
  <2>1. /\ UNCHANGED <<counter, number, boundTo>>
        /\ pc[c] # "new"
        /\ Reply(c, "clash", None) \/ Reply(c, "refused", None)
    BY <1>10 DEF Clash, Refuse, InTransaction
  <2> QED BY <1>0, <1>5, <2>1 DEF TypeOK
<1>11. ASSUME NEW c \in Calls, KeyClash(c) \/ DatabaseConflict(c) PROVE TypeOK' /\ CallsSent'
  <2>1. /\ UNCHANGED <<counter, number, boundTo>>
        /\ pc[c] # "new"
        /\ (attempt[c] < MaxAttempts /\ StartOver(c)) \/ Reply(c, "busy", None)
    BY <1>11 DEF KeyClash, DatabaseConflict, Retry, InTransaction
  <2> QED BY <1>0, <1>5, <1>6, <2>1 DEF TypeOK
<1>12. CASE Midnight
  BY <1>0, <1>12 DEF TypeOK, CallsSent, Midnight, calling, Days
<1>13. CASE UNCHANGED vars
  BY <1>0, <1>13 DEF TypeOK, CallsSent, vars
<1> QED
  BY <1>1, <1>2, <1>3, <1>4, <1>7, <1>8, <1>9, <1>10, <1>11, <1>12, <1>13 DEF Next, Wait, Work

-----------------------------------------------------------------------------
(* Numbers. *)

(* What most steps of a call do: they leave the sales and their counters     *)
(* alone and take no lock on a counter.                                      *)
Plain(c) ==
  /\ UNCHANGED <<day, counter, number>>
  /\ pc[c] # "done"
  /\ \E x \in {"sent", "ready", "locked", "keyed", "checked", "done"} :
        pc' = [pc EXCEPT ![c] = x] /\ (x \notin {"sent", "done"} => pc[c] \notin {"new", "sent"})
  /\ \A d \in Calls \ {c} : drawn'[d] = drawn[d]
  /\ \A s \in Counters : counterOwner[s] # c => counterOwner'[s] = counterOwner[s]

(* Steps that leave sales, numbers and bindings alone. *)
LEMMA PlainSteps ==
  ASSUME TypeOK, NEW c \in Calls,
         \/ Send(c) \/ LockRows(c) \/ CheckKey(c) \/ CheckClientSaleId(c) \/ Clash(c)
         \/ KeyClash(c) \/ DatabaseConflict(c) \/ Refuse(c)
  PROVE  Plain(c)
<1>1. ASSUME NEW kind, NEW sale, Reply(c, kind, sale), pc[c] # "done",
             UNCHANGED <<counter, number>>
      PROVE  Plain(c)
  BY <1>1 DEF TypeOK, Plain, Reply, ReleaseLocks
<1>2. ASSUME StartOver(c), pc[c] \in InTransaction, UNCHANGED <<counter, number>>
      PROVE  Plain(c)
  BY <1>2 DEF TypeOK, Plain, StartOver, ReleaseLocks, InTransaction
<1>3. CASE Send(c)
  BY <1>3 DEF Plain, Send
<1>4. CASE LockRows(c)
  BY <1>4 DEF Plain, LockRows
<1>5. CASE CheckKey(c)
  <2>1. pc[c] = "locked" /\ UNCHANGED <<counter, number>>
    BY <1>5 DEF CheckKey
  <2>2. CASE GoOn(c, "keyed")
    BY <2>1, <2>2 DEF Plain, GoOn
  <2> QED BY <1>5, <2>1, <2>2, <1>1 DEF CheckKey
<1>6. CASE CheckClientSaleId(c)
  <2>1. pc[c] = "keyed" /\ UNCHANGED <<counter, number>>
    BY <1>6 DEF CheckClientSaleId
  <2>2. CASE GoOn(c, "checked")
    BY <2>1, <2>2 DEF Plain, GoOn
  <2> QED BY <1>6, <2>1, <2>2, <1>1 DEF CheckClientSaleId
<1>7. CASE Clash(c) \/ Refuse(c)
  BY <1>7, <1>1 DEF Clash, Refuse, InTransaction
<1>8. CASE KeyClash(c) \/ DatabaseConflict(c)
  BY <1>8, <1>1, <1>2 DEF KeyClash, DatabaseConflict, Retry, InTransaction
<1> QED
  BY <1>3, <1>4, <1>5, <1>6, <1>7, <1>8

(* The numbers issued follow from the numbers of the sales. *)
LEMMA IssuedSame == ASSUME number' = number, NEW s PROVE Issued(s)' = Issued(s)
  BY DEF Issued, Old

(* Each conjunct of NumberInv after a plain step. *)
LEMMA NumberAfterPlain ==
  ASSUME NumberInv, NEW c \in Calls, Plain(c), TypeOK', CallsSent'
  PROVE  NumberInv'
<1> USE DEF NumberInv, TypeOK
<1>1. OnlyAnsweredSold'
  BY DEF Plain, OnlyAnsweredSold, Sold
<1>2. FirstDayEnsured'
  BY DEF Plain, FirstDayEnsured
<1>3. DrawnIsNext'
  <2> SUFFICES ASSUME NEW d \in Calls, pc'[d] = "numbered"
               PROVE  ( /\ drawn[d].counter \in Counters
                        /\ counterOwner[drawn[d].counter] = d
                        /\ drawn[d].n = NextNumber(drawn[d].counter)
                        /\ counter[drawn[d].counter] = NoRow => Old(drawn[d].counter) = 0 )'
    BY DEF DrawnIsNext
  <2>1. d # c /\ pc[d] = "numbered"
    BY DEF Plain
  <2>2. drawn'[d] = drawn[d] /\ counter' = counter
    BY <2>1 DEF Plain
  <2>3. /\ drawn[d].counter \in Counters
        /\ counterOwner[drawn[d].counter] = d
        /\ drawn[d].n = NextNumber(drawn[d].counter)
        /\ counter[drawn[d].counter] = NoRow => Old(drawn[d].counter) = 0
    BY <2>1 DEF DrawnIsNext
  <2>4. counterOwner'[drawn[d].counter] = d
    BY <2>1, <2>3 DEF Plain
  <2> QED BY <2>2, <2>3, <2>4 DEF NextNumber, Old
<1>4. \A s \in Counters : Issued(s)' = (1..Highest(s))'
  BY IssuedSame DEF Plain, Highest, Old
<1>5. \A a, d \in Calls : (Sold(a) /\ number[a] = number[d] => a = d)'
  BY DEF Plain, Sold
<1> QED
  BY <1>1, <1>2, <1>3, <1>4, <1>5

(* The counter a call creates starts where the numbers before it ended. *)
LEMMA NumberAfterEnsure ==
  ASSUME NumberInv, NEW c \in Calls, EnsureSaleCounter(c), TypeOK', CallsSent'
  PROVE  NumberInv'
<1> DEFINE s == <<Online, day>>
<1> USE DEF NumberInv
<1>0. s \in Counters /\ number' = number /\ day' = day /\ drawn' = drawn
      /\ counterOwner' = counterOwner /\ pc[c] = "sent" /\ pc' = [pc EXCEPT ![c] = "ready"]
  BY OnlineAssumption DEF EnsureSaleCounter, TypeOK, Counters
<1>1. /\ counter'[s] # NoRow
      /\ \A t \in Counters : (t = s /\ counter[t] = NoRow) \/ counter'[t] = counter[t]
      /\ counter[s] = NoRow => counter'[s] = Old(s) /\ counterOwner[s] = None
  <2>1. counter[s] = NoRow => Max(Issued(s) \cup {0}) = Old(s)
    BY <1>0, OldIsNat, MaxOfRange DEF Highest
  <2>2. counter' = [counter EXCEPT ![s] = IF @ = NoRow THEN Max(Issued(s) \cup {0}) ELSE @]
    BY DEF EnsureSaleCounter
  <2>3. Old(s) # NoRow
    BY <1>0, OldIsNat, NoRowAssumption
  <2>4. counter[s] = NoRow => counterOwner[s] = None
    BY DEF EnsureSaleCounter
  <2> QED BY <1>0, <2>1, <2>2, <2>3, <2>4 DEF TypeOK
<1>2. OnlyAnsweredSold'
  BY <1>0 DEF OnlyAnsweredSold, Sold, TypeOK
<1>3. FirstDayEnsured'
  BY <1>0, <1>1 DEF FirstDayEnsured, TypeOK
<1>4. DrawnIsNext'
  <2> SUFFICES ASSUME NEW d \in Calls, pc'[d] = "numbered"
               PROVE  ( /\ drawn[d].counter \in Counters
                        /\ counterOwner[drawn[d].counter] = d
                        /\ drawn[d].n = NextNumber(drawn[d].counter)
                        /\ counter[drawn[d].counter] = NoRow => Old(drawn[d].counter) = 0 )'
    BY DEF DrawnIsNext
  <2>1. pc[d] = "numbered"
    BY <1>0 DEF TypeOK
  <2>2. /\ drawn[d].counter \in Counters
        /\ counterOwner[drawn[d].counter] = d
        /\ drawn[d].n = NextNumber(drawn[d].counter)
        /\ counter[drawn[d].counter] = NoRow => Old(drawn[d].counter) = 0
    BY <2>1 DEF DrawnIsNext
  <2>3. counter'[drawn[d].counter] = counter[drawn[d].counter]
    BY <1>1, <2>2, NoneAssumption
  <2> QED BY <1>0, <2>2, <2>3 DEF NextNumber, Old
<1>5. \A t \in Counters : Issued(t)' = (1..Highest(t))'
  <2> SUFFICES ASSUME NEW t \in Counters PROVE Issued(t)' = (1..Highest(t))'
    OBVIOUS
  <2>1. Highest(t)' = Highest(t)
    BY <1>0, <1>1 DEF Highest, Old
  <2> QED BY <1>0, <2>1, IssuedSame
<1>6. \A a, d \in Calls : (Sold(a) /\ number[a] = number[d] => a = d)'
  BY <1>0 DEF Sold
<1> QED
  BY <1>2, <1>3, <1>4, <1>5, <1>6

(* A number is drawn from a counter nobody else holds. *)
LEMMA NumberAfterDraw ==
  ASSUME NumberInv, NEW c \in Calls, Number(c), TypeOK', CallsSent'
  PROVE  NumberInv'
<1> DEFINE s == <<cart[c].scope, day>>
<1> USE DEF NumberInv
<1>0. /\ s \in Counters
      /\ UNCHANGED <<day, counter, number>>
      /\ pc[c] = "checked"
      /\ pc' = [pc EXCEPT ![c] = "numbered"]
      /\ counterOwner[s] = None
      /\ counterOwner' = [counterOwner EXCEPT ![s] = c]
      /\ drawn' = [drawn EXCEPT ![c] = [counter |-> s, n |-> NextNumber(s)]]
  BY CartsAssumption DEF Number, TypeOK, CallsSent, Counters
<1>1. OnlyAnsweredSold'
  BY <1>0 DEF OnlyAnsweredSold, Sold, TypeOK
<1>2. FirstDayEnsured'
  BY <1>0 DEF FirstDayEnsured, TypeOK
<1>3. DrawnIsNext'
  <2> SUFFICES ASSUME NEW d \in Calls, pc'[d] = "numbered"
               PROVE  ( /\ drawn[d].counter \in Counters
                        /\ counterOwner[drawn[d].counter] = d
                        /\ drawn[d].n = NextNumber(drawn[d].counter)
                        /\ counter[drawn[d].counter] = NoRow => Old(drawn[d].counter) = 0 )'
    BY DEF DrawnIsNext
  <2>1. CASE d = c
    <3>1. counter[s] = NoRow => Old(s) = 0
      <4>1. Old(s) # 0 => s = <<Online, 1>>
        BY DEF Old
      <4>2. day = 1 => counter[<<Online, 1>>] # NoRow
        BY <1>0 DEF FirstDayEnsured
      <4> QED BY <4>1, <4>2
    <3>2. drawn'[d] = [counter |-> s, n |-> NextNumber(s)] /\ counterOwner'[s] = d
      BY <1>0, <2>1 DEF TypeOK
    <3> QED BY <1>0, <3>1, <3>2 DEF NextNumber, Old
  <2>2. CASE d # c
    <3>1. /\ drawn[d].counter \in Counters
          /\ counterOwner[drawn[d].counter] = d
          /\ drawn[d].n = NextNumber(drawn[d].counter)
          /\ counter[drawn[d].counter] = NoRow => Old(drawn[d].counter) = 0
      BY <1>0, <2>2 DEF DrawnIsNext, TypeOK
    <3>2. drawn'[d] = drawn[d]
      BY <1>0, <2>2 DEF TypeOK
    <3>3. drawn[d].counter # s
      BY <1>0, <3>1, NoneAssumption
    <3>4. counterOwner'[drawn[d].counter] = d
      BY <1>0, <3>1, <3>3 DEF TypeOK
    <3> QED BY <1>0, <3>1, <3>2, <3>4 DEF NextNumber, Old
  <2> QED BY <2>1, <2>2
<1>4. \A t \in Counters : Issued(t)' = (1..Highest(t))'
  BY <1>0, IssuedSame DEF Highest, Old
<1>5. \A a, d \in Calls : (Sold(a) /\ number[a] = number[d] => a = d)'
  BY <1>0 DEF Sold
<1> QED
  BY <1>1, <1>2, <1>3, <1>4, <1>5

(* A committed number extends its series by one. *)
LEMMA NumberAfterCommit ==
  ASSUME NumberInv, NEW c \in Calls, CommitSale(c), TypeOK', CallsSent'
  PROVE  NumberInv'
<1> DEFINE s == drawn[c].counter
           n == drawn[c].n
<1> USE DEF NumberInv
<1>0. /\ s \in Counters
      /\ counterOwner[s] = c
      /\ n = NextNumber(s)
      /\ counter[s] = NoRow => Old(s) = 0
      /\ drawn[c] \in SaleNumbers \cup {NoNumber}
      /\ n \notin Issued(s)
  BY DEF CommitSale, DrawnIsNext, TypeOK, UniqueClash
<1>1. /\ pc[c] = "numbered"
      /\ number' = [number EXCEPT ![c] = drawn[c]]
      /\ counter' = [counter EXCEPT ![s] = n]
      /\ pc' = [pc EXCEPT ![c] = "done"]
      /\ day' = day
      /\ drawn' = [drawn EXCEPT ![c] = NoNumber]
      /\ counterOwner' = [t \in Counters |-> IF counterOwner[t] = c THEN None ELSE counterOwner[t]]
  BY DEF CommitSale, Reply, ReleaseLocks
<1>2. /\ n = Highest(s) + 1
      /\ Highest(s) \in Nat
      /\ counter'[s] = n
      /\ n # NoRow
  BY <1>0, <1>1, NoRowAssumption DEF NextNumber, Highest, TypeOK
<1>3. ~Sold(c) /\ number'[c] = drawn[c] /\ drawn[c] # NoNumber
  BY <1>0, <1>1, <1>2 DEF OnlyAnsweredSold, TypeOK, NoNumber
<1>4. OnlyAnsweredSold'
  BY <1>1 DEF OnlyAnsweredSold, Sold, TypeOK
<1>5. FirstDayEnsured'
  <2>1. \A t \in Counters : counter[t] # NoRow => counter'[t] # NoRow
    BY <1>0, <1>1, <1>2 DEF TypeOK
  <2>2. day = 1 => <<Online, 1>> \in Counters
    BY OnlineAssumption DEF Counters, TypeOK
  <2> QED BY <1>1, <2>1, <2>2 DEF FirstDayEnsured, TypeOK
<1>6. DrawnIsNext'
  <2> SUFFICES ASSUME NEW d \in Calls, pc'[d] = "numbered"
               PROVE  ( /\ drawn[d].counter \in Counters
                        /\ counterOwner[drawn[d].counter] = d
                        /\ drawn[d].n = NextNumber(drawn[d].counter)
                        /\ counter[drawn[d].counter] = NoRow => Old(drawn[d].counter) = 0 )'
    BY DEF DrawnIsNext
  <2>1. d # c /\ pc[d] = "numbered"
    BY <1>1 DEF TypeOK
  <2>2. /\ drawn[d].counter \in Counters
        /\ counterOwner[drawn[d].counter] = d
        /\ drawn[d].n = NextNumber(drawn[d].counter)
        /\ counter[drawn[d].counter] = NoRow => Old(drawn[d].counter) = 0
    BY <2>1 DEF DrawnIsNext
  <2>3. /\ drawn'[d] = drawn[d]
        /\ counterOwner'[drawn[d].counter] = d
        /\ counter'[drawn[d].counter] = counter[drawn[d].counter]
    BY <1>0, <1>1, <2>1, <2>2 DEF TypeOK
  <2> QED BY <2>2, <2>3 DEF NextNumber, Old
<1>7. \A t \in Counters : Issued(t)' = (1..Highest(t))'
  <2> SUFFICES ASSUME NEW t \in Counters PROVE Issued(t)' = (1..Highest(t))'
    OBVIOUS
  <2>0. Issued(t) = 1..Highest(t) /\ number[c] = NoNumber /\ NoNumber.counter # t
    BY <1>3, NoneAssumption DEF Sold, NoNumber
  <2>1. CASE t = s
    <3>1. Issued(t)' = Issued(t) \cup {n}
      BY <1>1, <1>3, <2>0, <2>1 DEF Issued, Old, TypeOK
    <3>2. Highest(t)' = n
      BY <1>2, <2>1 DEF Highest
    <3> QED BY <1>2, <2>0, <2>1, <3>1, <3>2
  <2>2. CASE t # s
    <3>1. Issued(t)' = Issued(t)
      BY <1>1, <1>3, <2>0, <2>2 DEF Issued, Old, TypeOK
    <3>2. Highest(t)' = Highest(t)
      BY <1>0, <1>1, <2>2 DEF Highest, Old, TypeOK
    <3> QED BY <2>0, <3>1, <3>2
  <2> QED BY <2>1, <2>2
<1>8. \A a, d \in Calls : (Sold(a) /\ number[a] = number[d] => a = d)'
  <2>1. \A d \in Calls : d # c => number[d] # drawn[c]
    BY <1>0 DEF Issued
  <2> QED BY <1>1, <1>3, <2>1 DEF Sold, TypeOK
<1> QED
  BY <1>4, <1>5, <1>6, <1>7, <1>8

(* Whoever has drawn a sale number holds its counter's row, and the number   *)
(* is the next one (nextSaleNumber, sales.service.ts).                       *)
THEOREM NumberInvHolds == Spec => []NumberInv
<1>1. Init => NumberInv
  <2> SUFFICES ASSUME Init PROVE NumberInv
    OBVIOUS
  <2>1. TypeOK /\ CallsSent /\ OnlyAnsweredSold /\ FirstDayEnsured /\ DrawnIsNext
    BY NumbersAssumption DEF Init, TypeOK, CallsSent, OnlyAnsweredSold, FirstDayEnsured,
       DrawnIsNext, Sold, Days, NoNumber
  <2>2. \A s \in Counters : Issued(s) = 1..Highest(s)
    BY NoneAssumption DEF Init, Issued, Highest, NoNumber
  <2>3. \A c \in Calls : ~Sold(c)
    BY DEF Init, Sold
  <2> QED BY <2>1, <2>2, <2>3 DEF NumberInv
<1>2. NumberInv /\ [Next]_vars => NumberInv'
  <2> SUFFICES ASSUME NumberInv, [Next]_vars PROVE NumberInv'
    OBVIOUS
  <2>0. TypeOK /\ TypeOK' /\ CallsSent'
    BY TypeInductive DEF NumberInv
  <2>1. CASE \E c \in Calls : EnsureSaleCounter(c)
    BY <2>0, <2>1, NumberAfterEnsure
  <2>2. CASE \E c \in Calls : Number(c)
    BY <2>0, <2>2, NumberAfterDraw
  <2>3. CASE \E c \in Calls : CommitSale(c)
    BY <2>0, <2>3, NumberAfterCommit
  <2>4. CASE \E c \in Calls : \/ Send(c) \/ LockRows(c) \/ CheckKey(c) \/ CheckClientSaleId(c)
                              \/ Clash(c) \/ KeyClash(c) \/ DatabaseConflict(c) \/ Refuse(c)
    BY <2>0, <2>4, PlainSteps, NumberAfterPlain
  <2>5. CASE Midnight \/ UNCHANGED vars
    <3>1. UNCHANGED <<counter, number, counterOwner, calling>>
          /\ (day' = day \/ day' = day + 1)
      BY <2>5 DEF Midnight, vars, calling
    <3>2. FirstDayEnsured'
      <4>1. day' = 1 => day = 1
        BY <2>0, <3>1, NumbersAssumption DEF TypeOK, Days
      <4>2. pc' = pc /\ counter' = counter
        BY <3>1 DEF calling
      <4> QED BY <4>1, <4>2 DEF NumberInv, FirstDayEnsured
    <3>3. OnlyAnsweredSold' /\ DrawnIsNext'
      BY <3>1 DEF NumberInv, OnlyAnsweredSold, Sold, DrawnIsNext, NextNumber, Old, calling
    <3>4. \A s \in Counters : Issued(s)' = (1..Highest(s))'
      BY <3>1, IssuedSame DEF NumberInv, Highest, Old
    <3>5. \A c, d \in Calls : (Sold(c) /\ number[c] = number[d] => c = d)'
      BY <3>1 DEF NumberInv, Sold
    <3> QED BY <2>0, <3>2, <3>3, <3>4, <3>5 DEF NumberInv
  <2> QED BY <2>1, <2>2, <2>3, <2>4, <2>5 DEF Next, Wait, Work
<1> QED
  BY <1>1, <1>2, PTL DEF Spec

(* Calls, keys, carts, counters and locks keep their types. *)
THEOREM TypeCorrect == Spec => []TypeOK
<1>1. NumberInv => TypeOK
  BY DEF NumberInv
<1> QED
  BY <1>1, NumberInvHolds, PTL

(* Sale numbers have no gap and no duplicate (nextSaleNumber,                *)
(* sales.service.ts), because whoever has drawn one holds its counter.       *)
THEOREM NumbersAreGapless == Spec => []NumbersGapless
<1>1. NumberInv => NumbersGapless
  BY DEF NumberInv, NumbersGapless, Highest
<1> QED
  BY <1>1, NumberInvHolds, PTL

-----------------------------------------------------------------------------
(* Answers. *)

(* What holds of each call: it keeps its rows locked during a transaction;   *)
(* past CheckClientSaleId no sale of the same cart exists under its          *)
(* clientSaleId; what it was answered is so, and stays so.                   *)
CallInv(c) ==
  /\ pc[c] \in InTransaction => \A p \in cart[c].items : rowOwner[p] = c
  /\ (pc[c] \in {"checked", "numbered"} /\ cart[c].client # None)
       => \A d \in SalesOf(cart[c].client) : cart[d] # cart[c]
  /\ answer[c].kind # "none" => pc[c] = "done"
  /\ Replied(c) => /\ answer[c].sale \in Calls
                   /\ Sold(answer[c].sale)
                   /\ cart[answer[c].sale] = cart[c]
                   /\ cart[c].client # None \/ answer[c].sale = boundTo[key[c]]
  /\ answer[c].kind = "clash" => \E d \in SalesOf(cart[c].client) : cart[d] # cart[c]

SalesBound == \A c \in Calls : Sold(c) => boundTo[key[c]] = c

KeysBound == \A k \in Keys : boundTo[k] # None => Sold(boundTo[k]) /\ key[boundTo[k]] = k

OnePerClientSaleId ==
  \A c, d \in Calls : (Sold(c) /\ Sold(d) /\ cart[c].client = cart[d].client /\ cart[c].client # None)
                        => c = d

AnswerInv == /\ NumberInv
             /\ \A c \in Calls : CallInv(c)
             /\ SalesBound
             /\ KeysBound
             /\ OnePerClientSaleId

(* What a step of c leaves alone of the other calls. *)
OthersKept(c) ==
  /\ pc[c] # "done"
  /\ \A d \in Calls \ {c} : /\ pc'[d] = pc[d] /\ key'[d] = key[d]
                            /\ cart'[d] = cart[d] /\ answer'[d] = answer[d]
                            /\ \A p \in Products : rowOwner[p] = d => rowOwner'[p] = d

(* A reply concerns its own call only. *)
LEMMA ReplyKeepsOthers ==
  ASSUME TypeOK, NEW c \in Calls, NEW kind, NEW sale, Reply(c, kind, sale), pc[c] # "done"
  PROVE  /\ OthersKept(c)
         /\ pc'[c] = "done" /\ answer'[c] = [kind |-> kind, sale |-> sale]
         /\ key' = key /\ cart' = cart
  BY DEF TypeOK, OthersKept, Reply, ReleaseLocks

(* So does a retry. *)
LEMMA StartOverKeepsOthers ==
  ASSUME TypeOK, NEW c \in Calls, StartOver(c), pc[c] # "done"
  PROVE  /\ OthersKept(c)
         /\ pc'[c] = "ready" /\ answer' = answer /\ key' = key /\ cart' = cart
  BY DEF TypeOK, OthersKept, StartOver, ReleaseLocks

(* A step that commits no sale keeps the invariant if it keeps it for the    *)
(* call that takes it.                                                       *)
LEMMA AnswerKept ==
  ASSUME AnswerInv, NumberInv', NEW c \in Calls, OthersKept(c), UNCHANGED <<number, boundTo>>,
         CallInv(c)'
  PROVE  AnswerInv'
<1> USE DEF AnswerInv
<1>0. \A d \in Calls : Sold(d) => d # c
  BY DEF NumberInv, OnlyAnsweredSold, OthersKept
<1>1. \A d \in Calls : Sold(d)' = Sold(d) /\ (Sold(d) => cart'[d] = cart[d] /\ key'[d] = key[d])
  BY <1>0 DEF Sold, OthersKept
<1>2. \A x : SalesOf(x)' = SalesOf(x)
  BY <1>1 DEF SalesOf
<1>3. ASSUME NEW d \in Calls \ {c} PROVE CallInv(d)'
  <2>1. /\ pc'[d] = pc[d] /\ key'[d] = key[d] /\ cart'[d] = cart[d] /\ answer'[d] = answer[d]
        /\ \A p \in Products : rowOwner[p] = d => rowOwner'[p] = d
        /\ CallInv(d)
    BY <1>3 DEF OthersKept
  <2>2. pc'[d] \in InTransaction => \A p \in cart'[d].items : rowOwner'[p] = d
    <3> SUFFICES ASSUME pc[d] \in InTransaction PROVE \A p \in cart[d].items : rowOwner'[p] = d
      BY <2>1
    <3>1. cart[d].items \subseteq Products
      BY <1>3, CartsAssumption DEF NumberInv, CallsSent, InTransaction
    <3> QED BY <2>1, <3>1 DEF CallInv
  <2>3. (pc'[d] \in {"checked", "numbered"} /\ cart'[d].client # None)
          => \A e \in SalesOf(cart[d].client) : cart'[e] # cart'[d]
    BY <1>1, <2>1 DEF CallInv, SalesOf
  <2>4. /\ answer'[d].kind # "none" => pc'[d] = "done"
        /\ Replied(d)' => /\ answer'[d].sale \in Calls
                          /\ Sold(answer[d].sale)'
                          /\ cart'[answer'[d].sale] = cart'[d]
                          /\ cart'[d].client # None \/ answer'[d].sale = boundTo'[key'[d]]
    BY <1>1, <2>1 DEF CallInv, Replied, Sold
  <2>5. answer'[d].kind = "clash" => \E e \in SalesOf(cart[d].client) : cart'[e] # cart'[d]
    BY <1>1, <2>1 DEF CallInv, SalesOf
  <2>6. SalesOf(cart[d].client)' = SalesOf(cart[d].client)
    BY <1>1, <1>3, <2>1 DEF SalesOf
  <2> QED BY <2>1, <2>2, <2>3, <2>4, <2>5, <2>6 DEF CallInv
<1>4. SalesBound'
  BY <1>1 DEF SalesBound
<1>5. KeysBound'
  BY <1>1, NoneAssumption DEF KeysBound, NumberInv, TypeOK
<1>6. OnePerClientSaleId'
  BY <1>1 DEF OnePerClientSaleId
<1> QED
  BY <1>3, <1>4, <1>5, <1>6

(* A call that ends without a sale of its own, with a true answer. *)
LEMMA AnswerAfterReply ==
  ASSUME AnswerInv, NumberInv', NEW c \in Calls, NEW kind, NEW sale, Reply(c, kind, sale),
         pc[c] # "done", UNCHANGED <<number, boundTo>>,
         kind \in {"keyConflict", "clientConflict", "busy", "refused", "clash", "replayed"},
         kind = "clash" => \E d \in SalesOf(cart[c].client) : cart[d] # cart[c],
         kind = "replayed" => /\ sale \in Calls /\ Sold(sale) /\ cart[sale] = cart[c]
                              /\ cart[c].client # None \/ sale = boundTo[key[c]]
  PROVE  AnswerInv'
<1>1. /\ OthersKept(c)
      /\ pc'[c] = "done" /\ answer'[c] = [kind |-> kind, sale |-> sale]
      /\ key' = key /\ cart' = cart
  BY ReplyKeepsOthers DEF AnswerInv, NumberInv
<1>2. \A d \in Calls : Sold(d)' = Sold(d)
  BY DEF Sold
<1>3. SalesOf(cart[c].client)' = SalesOf(cart[c].client)
  BY <1>1, <1>2 DEF SalesOf
<1>4. CallInv(c)'
  BY <1>1, <1>2, <1>3 DEF CallInv, InTransaction, Replied, Sold
<1> QED
  BY <1>1, <1>4, AnswerKept

(* A retried attempt leaves no answer behind. *)
LEMMA AnswerAfterRetry ==
  ASSUME AnswerInv, NumberInv', NEW c \in Calls, Retry(c), pc[c] \in InTransaction
  PROVE  AnswerInv'
<1>1. pc[c] # "done" /\ UNCHANGED <<number, boundTo>>
  BY DEF Retry, InTransaction
<1>2. CASE Reply(c, "busy", None)
  BY <1>1, <1>2, AnswerAfterReply
<1>3. CASE StartOver(c)
  <2>1. OthersKept(c) /\ pc'[c] = "ready" /\ answer' = answer /\ key' = key /\ cart' = cart
    BY <1>1, <1>3, StartOverKeepsOthers DEF AnswerInv, NumberInv
  <2>2. answer[c].kind = "none"
    BY <1>1 DEF AnswerInv, CallInv
  <2>3. CallInv(c)'
    BY <2>1, <2>2 DEF CallInv, InTransaction, Replied
  <2> QED BY <1>1, <2>1, <2>3, AnswerKept
<1> QED
  BY <1>2, <1>3 DEF Retry

(* A step of c that only moves it on, before its transaction or within it. *)
LEMMA AnswerAfterMove ==
  ASSUME AnswerInv, NumberInv', NEW c \in Calls, NEW to, pc[c] # "done", to # "done",
         pc' = [pc EXCEPT ![c] = to], answer' = answer, UNCHANGED <<number, boundTo>>,
         \A d \in Calls \ {c} : key'[d] = key[d] /\ cart'[d] = cart[d],
         \A d \in Calls, p \in Products : rowOwner[p] = d => rowOwner'[p] = d,
         to \in InTransaction => \A p \in cart'[c].items : rowOwner'[p] = c,
         to \in {"checked", "numbered"} =>
           /\ cart'[c] = cart[c]
           /\ cart[c].client # None => \A d \in SalesOf(cart[c].client) : cart[d] # cart[c]
  PROVE  AnswerInv'
<1>1. OthersKept(c) /\ pc'[c] = to
  BY DEF OthersKept, AnswerInv, NumberInv, TypeOK
<1>2. answer[c].kind = "none"
  BY DEF AnswerInv, CallInv
<1>3. \A d \in Calls : Sold(d)' = Sold(d) /\ (Sold(d) => cart'[d] = cart[d])
  BY DEF Sold, AnswerInv, NumberInv, OnlyAnsweredSold
<1>4. to \in {"checked", "numbered"} => SalesOf(cart[c].client)' = SalesOf(cart[c].client)
  BY <1>3 DEF SalesOf
<1>5. CallInv(c)'
  BY <1>1, <1>2, <1>3, <1>4 DEF CallInv, Replied, SalesOf
<1> QED
  BY <1>1, <1>5, AnswerKept

(* The sale a call commits is the only one under its key and under its       *)
(* clientSaleId; whoever has the same cart in hand holds the same rows.      *)
LEMMA AnswerAfterCommit ==
  ASSUME AnswerInv, NumberInv', NEW c \in Calls, CommitSale(c)
  PROVE  AnswerInv'
<1> USE DEF AnswerInv
<1>0. /\ TypeOK /\ pc[c] = "numbered" /\ boundTo[key[c]] = None
      /\ key[c] \in Keys /\ cart[c] \in Carts
      /\ number' = [number EXCEPT ![c] = drawn[c]]
      /\ boundTo' = [boundTo EXCEPT ![key[c]] = c]
      /\ cart[c].client # None => SalesOf(cart[c].client) = {}
  BY DEF CommitSale, NumberInv, CallsSent, UniqueClash
<1>1. /\ OthersKept(c)
      /\ pc'[c] = "done" /\ answer'[c] = [kind |-> "sold", sale |-> c]
      /\ key' = key /\ cart' = cart
  BY <1>0, ReplyKeepsOthers DEF CommitSale
<1>2. drawn[c] # NoNumber
  <2>1. drawn[c].n = NextNumber(drawn[c].counter) /\ drawn[c].counter \in Counters
    BY <1>0 DEF NumberInv, DrawnIsNext
  <2>2. NextNumber(drawn[c].counter) # 0
    BY <1>0, <2>1 DEF TypeOK, NextNumber
  <2> QED BY <2>1, <2>2 DEF NoNumber
<1>3. /\ ~Sold(c) /\ Sold(c)'
      /\ \A d \in Calls \ {c} : Sold(d)' = Sold(d)
  BY <1>0, <1>2 DEF Sold, NumberInv, OnlyAnsweredSold, TypeOK
<1>4. \A k \in Keys : boundTo'[k] = IF k = key[c] THEN c ELSE boundTo[k]
  BY <1>0 DEF TypeOK
<1>5. CallInv(c)'
  BY <1>0, <1>1, <1>3, <1>4 DEF CallInv, InTransaction, Replied, Sold
<1>6. ASSUME NEW d \in Calls \ {c} PROVE CallInv(d)'
  <2>1. /\ pc'[d] = pc[d] /\ answer'[d] = answer[d] /\ CallInv(d)
        /\ \A p \in Products : rowOwner[p] = d => rowOwner'[p] = d
    BY <1>1, <1>6 DEF OthersKept
  <2>2. (pc[d] \in InTransaction => \A p \in cart[d].items : rowOwner[p] = d)'
    <3> SUFFICES ASSUME pc[d] \in InTransaction PROVE \A p \in cart[d].items : rowOwner'[p] = d
      BY <1>1, <2>1
    <3>1. cart[d].items \subseteq Products
      BY CartsAssumption DEF NumberInv, CallsSent, InTransaction
    <3> QED BY <2>1, <3>1 DEF CallInv
  <2>3. pc[d] \in {"checked", "numbered"} => cart[c] # cart[d]
    <3> SUFFICES ASSUME pc[d] \in {"checked", "numbered"}, cart[c] = cart[d] PROVE FALSE
      OBVIOUS
    <3>1. PICK p : p \in cart[c].items
      <4>1. cart[c].items # {}
        BY <1>0, CartsAssumption
      <4> QED BY <4>1
    <3>2. rowOwner[p] = c /\ rowOwner[p] = d
      BY <1>0, <2>1, <3>1 DEF CallInv, InTransaction
    <3> QED BY <3>2, <1>6
  <2>4. \A e \in SalesOf(cart[d].client)' : e \in SalesOf(cart[d].client) \/ e = c
    BY <1>1, <1>3 DEF SalesOf
  <2>5. ((pc[d] \in {"checked", "numbered"} /\ cart[d].client # None)
          => \A e \in SalesOf(cart[d].client) : cart[e] # cart[d])'
    BY <1>1, <2>1, <2>3, <2>4 DEF CallInv
  <2>6. (Replied(d) => /\ answer[d].sale \in Calls
                       /\ Sold(answer[d].sale)
                       /\ cart[answer[d].sale] = cart[d]
                       /\ cart[d].client # None \/ answer[d].sale = boundTo[key[d]])'
    <3> SUFFICES ASSUME Replied(d)
                 PROVE  /\ answer[d].sale \in Calls
                        /\ Sold(answer[d].sale)'
                        /\ cart[answer[d].sale] = cart[d]
                        /\ cart[d].client # None \/ answer[d].sale = boundTo'[key[d]]
      BY <1>1, <2>1 DEF Replied, Sold
    <3>1. /\ answer[d].sale \in Calls /\ Sold(answer[d].sale) /\ cart[answer[d].sale] = cart[d]
          /\ cart[d].client # None \/ answer[d].sale = boundTo[key[d]]
      BY <2>1 DEF CallInv
    <3>2. key[d] \in Keys
      <4>1. pc[d] = "done"
        BY <2>1 DEF CallInv, Replied
      <4> QED BY <4>1 DEF NumberInv, CallsSent
    <3>3. Sold(answer[d].sale)'
      BY <1>1, <1>3, <2>1, <3>1 DEF Sold
    <3> QED BY <1>0, <1>4, <3>1, <3>2, <3>3, NoneAssumption
  <2>7. (answer[d].kind = "clash" => \E e \in SalesOf(cart[d].client) : cart[e] # cart[d])'
    <3> SUFFICES ASSUME answer[d].kind = "clash"
                 PROVE  \E e \in SalesOf(cart[d].client)' : cart[e] # cart[d]
      BY <1>1, <2>1
    <3>1. PICK e \in SalesOf(cart[d].client) : cart[e] # cart[d]
      BY <2>1 DEF CallInv
    <3> QED BY <1>1, <1>3, <3>1 DEF SalesOf
  <2>8. (answer[d].kind # "none" => pc[d] = "done")'
    BY <2>1 DEF CallInv
  <2> QED BY <2>2, <2>5, <2>6, <2>7, <2>8 DEF CallInv
<1>7. SalesBound'
  BY <1>0, <1>1, <1>3, <1>4, NoneAssumption DEF SalesBound, NumberInv, CallsSent, OnlyAnsweredSold
<1>8. KeysBound'
  <2> SUFFICES ASSUME NEW k \in Keys, boundTo'[k] # None
               PROVE  Sold(boundTo[k])' /\ key'[boundTo'[k]] = k
    BY DEF KeysBound
  <2>1. CASE k = key[c]
    BY <1>1, <1>3, <1>4, <2>1 DEF Sold
  <2>2. CASE k # key[c]
    <3>1. boundTo'[k] = boundTo[k] /\ Sold(boundTo[k]) /\ key[boundTo[k]] = k /\ boundTo[k] \in Calls
      BY <1>0, <1>4, <2>2 DEF KeysBound, TypeOK
    <3> QED BY <1>1, <1>3, <3>1 DEF Sold
  <2> QED BY <2>1, <2>2
<1>9. OnePerClientSaleId'
  BY <1>0, <1>1, <1>3 DEF OnePerClientSaleId, SalesOf
<1> QED
  BY <1>5, <1>6, <1>7, <1>8, <1>9

(* Every step of checkout keeps the answers right. *)
LEMMA AnswerStep == AnswerInv /\ NumberInv' /\ [Next]_vars => AnswerInv'
<1> SUFFICES ASSUME AnswerInv, NumberInv', [Next]_vars PROVE AnswerInv'
  OBVIOUS
<1>0. NumberInv /\ TypeOK /\ CallsSent
  BY DEF AnswerInv, NumberInv
<1>1. ASSUME NEW c \in Calls, Send(c) PROVE AnswerInv'
  <2>1. pc[c] = "new" /\ pc' = [pc EXCEPT ![c] = "sent"] /\ answer' = answer
        /\ UNCHANGED <<number, boundTo, rowOwner>>
    BY <1>1 DEF Send
  <2>2. \A d \in Calls \ {c} : key'[d] = key[d] /\ cart'[d] = cart[d]
    BY <1>0, <1>1 DEF Send, TypeOK
  <2> QED BY <2>1, <2>2, AnswerAfterMove DEF InTransaction
<1>2. ASSUME NEW c \in Calls, EnsureSaleCounter(c) PROVE AnswerInv'
  BY <1>2, AnswerAfterMove DEF EnsureSaleCounter, InTransaction
<1>3. ASSUME NEW c \in Calls, LockRows(c) PROVE AnswerInv'
  <2>1. /\ pc[c] = "ready" /\ pc' = [pc EXCEPT ![c] = "locked"]
        /\ UNCHANGED <<number, boundTo, key, cart, answer>>
    BY <1>3 DEF LockRows
  <2>2. \A d \in Calls, p \in Products : rowOwner[p] = d => rowOwner'[p] = d
    BY <1>3, NoneAssumption DEF LockRows
  <2>3. cart[c].items \subseteq Products
    BY <1>0, <2>1, CartsAssumption DEF CallsSent
  <2>4. \A p \in cart[c].items : rowOwner'[p] = c
    BY <1>3, <2>3 DEF LockRows
  <2> QED BY <2>1, <2>2, <2>4, AnswerAfterMove
<1>4. ASSUME NEW c \in Calls, CheckKey(c) PROVE AnswerInv'
  <2>1. pc[c] = "locked" /\ UNCHANGED <<number, boundTo>> /\ key[c] \in Keys
    BY <1>0, <1>4 DEF CheckKey, CallsSent
  <2>2. CASE GoOn(c, "keyed")
    BY <2>1, <2>2, AnswerAfterMove DEF GoOn, AnswerInv, CallInv, InTransaction
  <2>3. CASE Reply(c, "keyConflict", None)
    BY <2>1, <2>3, AnswerAfterReply
  <2>4. CASE /\ boundTo[key[c]] # None
             /\ cart[boundTo[key[c]]] = cart[c]
             /\ Reply(c, "replayed", boundTo[key[c]])
    <3>1. boundTo[key[c]] \in Calls /\ Sold(boundTo[key[c]])
      BY <1>0, <2>1, <2>4 DEF AnswerInv, KeysBound, TypeOK
    <3> QED BY <2>1, <2>4, <3>1, AnswerAfterReply
  <2> QED BY <1>4, <2>2, <2>3, <2>4 DEF CheckKey
<1>5. ASSUME NEW c \in Calls, CheckClientSaleId(c) PROVE AnswerInv'
  <2>1. pc[c] = "keyed" /\ UNCHANGED <<number, boundTo>>
    BY <1>5 DEF CheckClientSaleId
  <2>2. CASE GoOn(c, "checked") /\ (cart[c].client # None => SalesOf(cart[c].client) = {})
    BY <2>1, <2>2, AnswerAfterMove DEF GoOn, AnswerInv, CallInv, InTransaction
  <2>3. CASE Reply(c, "clientConflict", None)
    BY <2>1, <2>3, AnswerAfterReply
  <2>4. ASSUME NEW d \in Calls, Sold(d), cart[c].client # None, cart[d] = cart[c],
               Reply(c, "replayed", d)
        PROVE  AnswerInv'
    BY <2>1, <2>4, AnswerAfterReply
  <2> QED BY <1>5, <2>2, <2>3, <2>4 DEF CheckClientSaleId, SalesOf
<1>6. ASSUME NEW c \in Calls, Number(c) PROVE AnswerInv'
  <2>1. /\ pc[c] = "checked" /\ pc' = [pc EXCEPT ![c] = "numbered"]
        /\ UNCHANGED <<number, boundTo, rowOwner, key, cart, answer>>
    BY <1>6 DEF Number
  <2> QED BY <2>1, AnswerAfterMove DEF AnswerInv, CallInv, InTransaction
<1>7. ASSUME NEW c \in Calls, CommitSale(c) PROVE AnswerInv'
  BY <1>7, AnswerAfterCommit
<1>8. ASSUME NEW c \in Calls, Clash(c) PROVE AnswerInv'
  <2>1. pc[c] = "numbered" /\ UNCHANGED <<number, boundTo>> /\ Reply(c, "clash", None)
    BY <1>8 DEF Clash
  <2>2. drawn[c].n \notin Issued(drawn[c].counter)
    <3> DEFINE s == drawn[c].counter
    <3>1. s \in Counters /\ drawn[c].n = NextNumber(s) /\ (counter[s] = NoRow => Old(s) = 0)
      BY <1>0, <2>1 DEF NumberInv, DrawnIsNext
    <3>2. drawn[c].n = Highest(s) + 1 /\ Highest(s) \in Nat
      BY <1>0, <3>1 DEF NextNumber, Highest, TypeOK
    <3>3. Issued(s) = 1..Highest(s)
      BY <1>0, <3>1 DEF NumberInv
    <3> QED BY <3>2, <3>3
  <2>3. cart[c].client # None /\ SalesOf(cart[c].client) # {}
    BY <1>8, <2>2 DEF Clash, UniqueClash
  <2>4. \A d \in SalesOf(cart[c].client) : cart[d] # cart[c]
    BY <2>1, <2>3 DEF AnswerInv, CallInv
  <2>5. \E d \in SalesOf(cart[c].client) : cart[d] # cart[c]
    BY <2>3, <2>4
  <2> QED BY <2>1, <2>5, AnswerAfterReply
<1>9. ASSUME NEW c \in Calls, KeyClash(c) \/ DatabaseConflict(c) PROVE AnswerInv'
  BY <1>9, AnswerAfterRetry DEF KeyClash, DatabaseConflict, InTransaction
<1>10. ASSUME NEW c \in Calls, Refuse(c) PROVE AnswerInv'
  BY <1>10, AnswerAfterReply DEF Refuse, InTransaction
<1>11. CASE Midnight \/ UNCHANGED vars
  <2>1. UNCHANGED <<number, boundTo, rowOwner, pc, key, cart, answer>>
    BY <1>11 DEF Midnight, vars, calling
  <2> QED BY <2>1 DEF AnswerInv, CallInv, SalesBound, KeysBound, OnePerClientSaleId, Sold,
             SalesOf, Replied
<1> QED
  BY <1>1, <1>2, <1>3, <1>4, <1>5, <1>6, <1>7, <1>8, <1>9, <1>10, <1>11 DEF Next, Wait, Work

(* A key stands for one sale, a clientSaleId for one sale, and calls with a  *)
(* cart in common hold its rows one after the other (createSale).            *)
THEOREM AnswerInvHolds == Spec => []AnswerInv
<1>1. Init /\ NumberInv => AnswerInv
  BY DEF Init, AnswerInv, CallInv, SalesBound, KeysBound, OnePerClientSaleId, Sold, Replied,
     InTransaction
<1> QED
  BY <1>1, AnswerStep, NumberInvHolds, PTL DEF Spec

(* Whoever is told about a sale is told about a sale of its own cart.        *)
THEOREM AnswersAreOwn == Spec => []AnswersOwnCart
<1>1. AnswerInv => AnswersOwnCart
  BY DEF AnswerInv, CallInv, AnswersOwnCart
<1> QED
  BY <1>1, AnswerInvHolds, PTL

(* The same key with the same request is answered with one sale, and a cart  *)
(* that is sent again never meets a unique constraint (sales.service.ts:438).*)
THEOREM OneSalePerRequest == Spec => []SameRequestSameSale
<1>1. AnswerInv => SameRequestSameSale
  <2> SUFFICES ASSUME AnswerInv PROVE SameRequestSameSale
    OBVIOUS
  <2>1. ASSUME NEW c \in Calls, NEW d \in Calls, Replied(c), Replied(d),
               key[c] = key[d], cart[c] = cart[d]
        PROVE  answer[c].sale = answer[d].sale
    <3>1. CASE cart[c].client = None
      BY <2>1, <3>1 DEF AnswerInv, CallInv
    <3>2. CASE cart[c].client # None
      BY <2>1, <3>2 DEF AnswerInv, CallInv, OnePerClientSaleId
    <3> QED BY <3>1, <3>2
  <2>2. \A c \in Calls : answer[c].kind = "clash"
                         => \E d \in SalesOf(cart[c].client) : cart[d] # cart[c]
    BY DEF AnswerInv, CallInv
  <2> QED BY <2>1, <2>2 DEF SameRequestSameSale
<1> QED
  BY <1>1, AnswerInvHolds, PTL

-----------------------------------------------------------------------------
(* Accounts: what a checkout does to a customer and to promotions. Its       *)
(* constants and variables are declared here under their names there, except *)
(* counter, which Checkout has.                                              *)

(* A strict order of a set that compares any two of its elements. *)
StrictOrder(R, S) ==
  /\ \A x \in S : <<x, x>> \notin R
  /\ \A x, y \in S : x # y => <<x, y>> \in R \/ <<y, x>> \in R
  /\ \A x, y, z \in S : <<x, y>> \in R /\ <<y, z>> \in R => <<x, z>> \in R

(* A finite set that is so ordered has a last element. *)
LEMMA LastInOrder ==
  ASSUME NEW S, IsFiniteSet(S), S # {}, NEW R, StrictOrder(R, S)
  PROVE  \E m \in S : \A x \in S \ {m} : <<x, m>> \in R
<1> DEFINE P == { T \in SUBSET S : T # {} => \E m \in T : \A x \in T \ {m} : <<x, m>> \in R }
<1>1. {} \in P
  OBVIOUS
<1>2. ASSUME NEW T \in SUBSET S, NEW y \in S, T \in P
      PROVE  T \cup {y} \in P
  <2>1. CASE T = {} \/ y \in T
    BY <1>2, <2>1
  <2>2. CASE T # {} /\ y \notin T
    <3>1. PICK m \in T : \A x \in T \ {m} : <<x, m>> \in R
      BY <1>2, <2>2
    <3>2. m # y /\ m \in S
      BY <2>2, <3>1
    <3>3. CASE <<y, m>> \in R
      <4>1. \A x \in (T \cup {y}) \ {m} : <<x, m>> \in R
        BY <3>1, <3>3
      <4> QED BY <4>1
    <3>4. CASE <<m, y>> \in R
      <4>1. \A x \in (T \cup {y}) \ {y} : <<x, y>> \in R
        BY <3>1, <3>2, <3>4 DEF StrictOrder
      <4> QED BY <4>1
    <3> QED BY <3>2, <3>3, <3>4 DEF StrictOrder
  <2> QED BY <2>1, <2>2
<1>3. S \in P
  <2> HIDE DEF P
  <2> QED BY <1>1, <1>2, FiniteInduction
<1> QED BY <1>3

(* It can be put in order. *)
InOrder(q, R) == \A i, j \in DOMAIN q : i < j => <<q[i], q[j]>> \in R

Lists(q, n, T, R) ==
  /\ q \in [1..n -> T]
  /\ \A i, j \in 1..n : q[i] = q[j] => i = j
  /\ \A t \in T : \E i \in 1..n : q[i] = t
  /\ InOrder(q, R)

(* A finite set can be written in its order. *)
LEMMA CanBeOrdered ==
  ASSUME NEW S, IsFiniteSet(S), NEW R, StrictOrder(R, S)
  PROVE  \E q \in Bijection(1..Cardinality(S), S) : InOrder(q, R)
<1> DEFINE Q(T, n) == \E q : Lists(q, n, T, R)
           N == { n \in Nat : \A T \in SUBSET S : Cardinality(T) = n => Q(T, n) }
<1>0. \A T \in SUBSET S : IsFiniteSet(T) /\ Cardinality(T) \in Nat
  BY FS_Subset, FS_CardinalityType
<1>1. 0 \in N
  <2> SUFFICES ASSUME NEW T \in SUBSET S, Cardinality(T) = 0 PROVE Q(T, 0)
    OBVIOUS
  <2>1. T = {}
    BY <1>0, FS_EmptySet
  <2>2. PICK q : q = [i \in 1..0 |-> 0]
    OBVIOUS
  <2>3. 1..0 = {}
    OBVIOUS
  <2>4. q \in [{} -> T] /\ DOMAIN q = {}
    BY <2>2, <2>3
  <2> QED BY <2>1, <2>3, <2>4 DEF Lists, InOrder
<1>2. ASSUME NEW n \in N
      PROVE  n + 1 \in N
  <2> SUFFICES ASSUME NEW T \in SUBSET S, Cardinality(T) = n + 1 PROVE Q(T, n + 1)
    OBVIOUS
  <2>0. n \in Nat
    OBVIOUS
  <2>1. T # {} /\ \A x \in T : Cardinality(T \ {x}) = n
    BY <1>0, <2>0, OneLess
  <2>2. StrictOrder(R, T)
    BY DEF StrictOrder
  <2>3. PICK m \in T : \A x \in T \ {m} : <<x, m>> \in R
    BY <1>0, <2>1, <2>2, LastInOrder
  <2>4. T \ {m} \in SUBSET S /\ Cardinality(T \ {m}) = n
    BY <2>1
  <2>5. Q(T \ {m}, n)
    BY <2>4
  <2>6. PICK q : Lists(q, n, T \ {m}, R)
    BY <2>5
  <2> DEFINE r == [i \in 1..(n + 1) |-> IF i = n + 1 THEN m ELSE q[i]]
  <2>7. /\ \A i \in 1..n : i \in 1..(n + 1) /\ i # n + 1 /\ r[i] = q[i] /\ r[i] \in T \ {m}
        /\ n + 1 \in 1..(n + 1) /\ r[n + 1] = m
        /\ \A i \in 1..(n + 1) : i = n + 1 \/ i \in 1..n
    BY <2>0, <2>6 DEF Lists
  <2>8. r \in [1..(n + 1) -> T]
    BY <2>3, <2>7
  <2> HIDE DEF r
  <2>9. \A i, j \in 1..(n + 1) : r[i] = r[j] => i = j
    BY <2>6, <2>7 DEF Lists
  <2>10. \A t \in T : \E i \in 1..(n + 1) : r[i] = t
    BY <2>6, <2>7 DEF Lists
  <2>11. InOrder(r, R)
    <3> SUFFICES ASSUME NEW i \in 1..(n + 1), NEW j \in 1..(n + 1), i < j
                 PROVE  <<r[i], r[j]>> \in R
      BY <2>8 DEF InOrder
    <3>1. i \in 1..n
      BY <2>0, <2>7
    <3>2. CASE j = n + 1
      BY <2>3, <2>7, <3>1, <3>2
    <3>3. CASE j \in 1..n
      <4>1. <<q[i], q[j]>> \in R
        BY <2>6, <3>1, <3>3 DEF Lists, InOrder
      <4> QED BY <2>7, <3>1, <3>3, <4>1
    <3> QED BY <2>7, <3>2, <3>3
  <2> QED BY <2>8, <2>9, <2>10, <2>11 DEF Lists
<1>3. N = Nat
  <2> HIDE DEF N
  <2>1. N \in SUBSET Nat
    BY DEF N
  <2> QED BY <1>1, <1>2, <2>1, NumberInduction
<1>4. PICK n : n = Cardinality(S)
  OBVIOUS
<1>5. n \in Nat /\ Q(S, n)
  BY <1>0, <1>3, <1>4
<1>6. PICK q : Lists(q, n, S, R)
  BY <1>5
<1>7. q \in Bijection(1..n, S)
  BY <1>6 DEF Lists, Bijection, Injection, Surjection, IsInjective
<1> QED BY <1>4, <1>6, <1>7 DEF Lists

-----------------------------------------------------------------------------
(* The order promotions are taken in. *)

(* Rows of promotions, and a cart they are offered to. *)
Rows(o) == DOMAIN o = Promos /\ \A p \in Promos : IsOffer(o[p])

Basket(b) == b.lines \in [Goods -> Nat] /\ b.spend \in Nat

(* What some lines come to. *)
LEMMA TotalOfLines ==
  ASSUME GoodsAssumption, NEW lines \in [Goods -> Nat], NEW items \in SUBSET Goods
  PROVE  Total(lines, items) \in Int
<1>1. IsFiniteSet(items)
  <2>1. IsFiniteSet(Goods)
    BY DEF GoodsAssumption
  <2> QED BY <2>1, FS_Subset
<1>2. Total(lines, items) = SumFunctionOnSet(lines, items)
  BY DEF Total, SumFunctionOnSet
<1>3. SumFunctionOnSet(lines, items) \in Int
  BY <1>1, SumInt
<1> QED BY <1>2, <1>3

(* What a promotion takes off is an amount. *)
LEMMA DiscountIsInt ==
  ASSUME GoodsAssumption, NEW r, IsOffer(r), NEW b, Basket(b)
  PROVE  Discount(r, b.lines, b.spend) \in Int
<1>1. PICK base : base = Total(b.lines, r.items)
  OBVIOUS
<1>2. base \in Int
  BY <1>1, TotalOfLines DEF IsOffer, Basket
<1>3. PercentOf(base, r.value) \in Int /\ r.value \in Int
  BY <1>2 DEF PercentOf, IsOffer
<1> QED BY <1>1, <1>2, <1>3 DEF Discount, Lesser

(* The keys promotions are compared by. *)
KeysOf(o, b, x) ==
  <<IF b.coupon # NoCode /\ o[x].code = b.coupon THEN 1 ELSE 0,
    o[x].priority, Discount(o[x], b.lines, b.spend), -x>>

(* They are numbers, the last one different for different promotions. *)
LEMMA KeysAreNumbers ==
  ASSUME GoodsAssumption, PromosAssumption, NEW o, Rows(o), NEW b, Basket(b), NEW x \in Promos
  PROVE  /\ KeysOf(o, b, x)[1] \in {0, 1} /\ KeysOf(o, b, x)[2] \in Int
         /\ KeysOf(o, b, x)[3] \in Int /\ KeysOf(o, b, x)[4] = -x /\ x \in Nat
<1>1. IsOffer(o[x])
  BY DEF Rows
<1>2. Discount(o[x], b.lines, b.spend) \in Int
  BY <1>1, DiscountIsInt
<1>3. o[x].priority \in Int /\ x \in Nat
  BY <1>1 DEF IsOffer, PromosAssumption
<1> QED BY <1>2, <1>3 DEF KeysOf

(* One goes before another when the first key they differ in is greater. *)
Greater(k, l, i) == k[i] > l[i] /\ \A j \in 1..4 : j < i => k[j] = l[j]

(* Precedes compares by that. *)
LEMMA PrecedesMeans ==
  ASSUME GoodsAssumption, PromosAssumption, NEW o, Rows(o), NEW b, Basket(b),
         NEW p \in Promos, NEW q \in Promos
  PROVE  Precedes(o, b, p, q) <=> \E i \in 1..4 : Greater(KeysOf(o, b, p), KeysOf(o, b, q), i)
<1> DEFINE k == KeysOf(o, b, p)
           l == KeysOf(o, b, q)
           first == { i \in 1..4 : k[i] # l[i] }
<1>1. Precedes(o, b, p, q) <=> (first # {} /\ k[Min(first)] > l[Min(first)])
  BY DEF Precedes, KeysOf
<1>0. \A i \in 1..4 : k[i] \in Int /\ l[i] \in Int
  <2>1. /\ k[1] \in Int /\ k[2] \in Int /\ k[3] \in Int /\ k[4] \in Int
        /\ l[1] \in Int /\ l[2] \in Int /\ l[3] \in Int /\ l[4] \in Int
    BY KeysAreNumbers
  <2> HIDE DEF k, l
  <2> QED BY <2>1
<1> HIDE DEF k, l
<1>2. ASSUME first # {}
      PROVE  \E m \in first : (\A n \in first : m <= n) /\ Min(first) = m
  <2>1. first \in SUBSET Nat
    OBVIOUS
  <2>2. PICK m \in first : \A n \in first : m <= n
    BY <1>2, <2>1, LeastNumber
  <2>3. Min(first) = m
    <3>1. \A x \in first : (\A n \in first : x <= n) => x = m
      BY <2>1, <2>2
    <3> HIDE DEF first
    <3>2. Min(first) = CHOOSE x \in first : \A n \in first : x <= n
      BY DEF Min
    <3> QED BY <2>2, <3>1, <3>2
  <2> QED BY <2>2, <2>3
<1>3. ASSUME first # {}, k[Min(first)] > l[Min(first)]
      PROVE  \E i \in 1..4 : Greater(k, l, i)
  <2>1. PICK m \in first : (\A n \in first : m <= n) /\ Min(first) = m
    BY <1>2, <1>3
  <2>2. \A j \in 1..4 : j < m => k[j] = l[j]
    BY <2>1
  <2> QED BY <1>3, <2>1, <2>2 DEF Greater
<1>4. ASSUME NEW i \in 1..4, Greater(k, l, i)
      PROVE  first # {} /\ k[Min(first)] > l[Min(first)]
  <2>1. i \in first
    <3>1. k[i] # l[i]
      BY <1>0, <1>4 DEF Greater
    <3> QED BY <3>1
  <2>2. PICK m \in first : (\A n \in first : m <= n) /\ Min(first) = m
    BY <1>2, <2>1
  <2>3. m = i
    BY <1>4, <2>1, <2>2 DEF Greater
  <2> QED BY <1>4, <2>1, <2>2, <2>3 DEF Greater
<1> QED BY <1>1, <1>3, <1>4 DEF k, l

(* So it is an order. *)
LEMMA PrecedesOrders ==
  ASSUME GoodsAssumption, PromosAssumption, NEW o, Rows(o), NEW b, Basket(b),
         NEW p \in Promos, NEW q \in Promos, NEW r \in Promos
  PROVE  /\ ~Precedes(o, b, p, p)
         /\ p # q => Precedes(o, b, p, q) \/ Precedes(o, b, q, p)
         /\ Precedes(o, b, p, q) /\ Precedes(o, b, q, r) => Precedes(o, b, p, r)
<1> DEFINE k(x) == KeysOf(o, b, x)
<1>1. \A x \in Promos : /\ k(x)[1] \in Int /\ k(x)[2] \in Int /\ k(x)[3] \in Int
                        /\ k(x)[4] = -x /\ x \in Int
  BY KeysAreNumbers
<1>2. \A x, y \in Promos : Precedes(o, b, x, y) <=> \E i \in 1..4 : Greater(k(x), k(y), i)
  BY PrecedesMeans
<1> HIDE DEF k
<1>3. \A x, y \in Promos : Precedes(o, b, x, y) <=>
        \/ k(x)[1] > k(y)[1]
        \/ k(x)[1] = k(y)[1] /\ k(x)[2] > k(y)[2]
        \/ k(x)[1] = k(y)[1] /\ k(x)[2] = k(y)[2] /\ k(x)[3] > k(y)[3]
        \/ k(x)[1] = k(y)[1] /\ k(x)[2] = k(y)[2] /\ k(x)[3] = k(y)[3] /\ k(x)[4] > k(y)[4]
  <2>1. \A x, y \in Promos : (\E i \in 1..4 : Greater(k(x), k(y), i)) <=>
          \/ Greater(k(x), k(y), 1) \/ Greater(k(x), k(y), 2)
          \/ Greater(k(x), k(y), 3) \/ Greater(k(x), k(y), 4)
    <3>1. \A i \in 1..4 : i = 1 \/ i = 2 \/ i = 3 \/ i = 4
      OBVIOUS
    <3>2. 1 \in 1..4 /\ 2 \in 1..4 /\ 3 \in 1..4 /\ 4 \in 1..4
      OBVIOUS
    <3> QED BY <3>1, <3>2
  <2>2. \A x, y \in Promos :
          /\ Greater(k(x), k(y), 1) <=> k(x)[1] > k(y)[1]
          /\ Greater(k(x), k(y), 2) <=> k(x)[1] = k(y)[1] /\ k(x)[2] > k(y)[2]
          /\ Greater(k(x), k(y), 3)
               <=> k(x)[1] = k(y)[1] /\ k(x)[2] = k(y)[2] /\ k(x)[3] > k(y)[3]
          /\ Greater(k(x), k(y), 4)
               <=> k(x)[1] = k(y)[1] /\ k(x)[2] = k(y)[2] /\ k(x)[3] = k(y)[3] /\ k(x)[4] > k(y)[4]
    BY DEF Greater
  <2> QED BY <1>2, <2>1, <2>2
<1>4. /\ ~Precedes(o, b, p, p)
      /\ p # q => Precedes(o, b, p, q) \/ Precedes(o, b, q, p)
  BY <1>1, <1>3
<1>5. Precedes(o, b, p, q) /\ Precedes(o, b, q, r) => Precedes(o, b, p, r)
  BY <1>1, <1>3
<1> QED BY <1>4, <1>5

(* Promotions can be put in order, which is what the sort does. *)
LEMMA OrderedIsInOrder ==
  ASSUME GoodsAssumption, PromosAssumption, NEW o, Rows(o), NEW b, Basket(b), NEW S \in SUBSET Promos
  PROVE  \E n \in Nat : \E best : /\ best = Ordered(o, b, S)
                                  /\ best \in [1..n -> S]
                                  /\ \A p \in S : \E i \in 1..n : best[i] = p
                                  /\ \A i, j \in 1..n : i < j => Precedes(o, b, best[i], best[j])
<1> DEFINE R == { x \in Promos \X Promos : Precedes(o, b, x[1], x[2]) }
<1>1. \A p, q \in Promos : <<p, q>> \in R <=> Precedes(o, b, p, q)
  OBVIOUS
<1> HIDE DEF R
<1>2. StrictOrder(R, S)
  <2>1. \A x \in S : <<x, x>> \notin R
    BY <1>1, PrecedesOrders
  <2>2. \A x, y \in S : x # y => <<x, y>> \in R \/ <<y, x>> \in R
    BY <1>1, PrecedesOrders
  <2>3. \A x, y, z \in S : <<x, y>> \in R /\ <<y, z>> \in R => <<x, z>> \in R
    BY <1>1, PrecedesOrders
  <2> QED BY <2>1, <2>2, <2>3 DEF StrictOrder
<1>3. IsFiniteSet(S)
  <2>1. IsFiniteSet(Promos)
    BY DEF PromosAssumption
  <2> QED BY <2>1, FS_Subset
<1>4. PICK n : n = Cardinality(S)
  OBVIOUS
<1>5. n \in Nat
  BY <1>3, <1>4, FS_CardinalityType
<1> DEFINE Good(q) == \A i, j \in DOMAIN q : i < j => Precedes(o, b, q[i], q[j])
           best == CHOOSE q \in Bijection(1..n, S) : Good(q)
<1>6. Ordered(o, b, S) = best
  BY <1>4, Zenon DEF Ordered
<1>7. PICK q \in Bijection(1..n, S) : InOrder(q, R)
  BY <1>2, <1>3, <1>4, CanBeOrdered
<1>8. \A f \in Bijection(1..n, S) : f \in [1..n -> S] /\ \A p \in S : \E i \in 1..n : f[i] = p
  BY DEF Bijection, Injection, Surjection
<1>9. Good(q)
  <2> SUFFICES ASSUME NEW i \in DOMAIN q, NEW j \in DOMAIN q, i < j
               PROVE  Precedes(o, b, q[i], q[j])
    OBVIOUS
  <2>1. q[i] \in Promos /\ q[j] \in Promos /\ <<q[i], q[j]>> \in R
    BY <1>7, <1>8 DEF InOrder
  <2> QED BY <1>1, <2>1
<1>10. best \in Bijection(1..n, S) /\ Good(best)
  <2> HIDE DEF Good
  <2> QED BY <1>7, <1>9
<1> HIDE DEF best
<1>11. \A i, j \in 1..n : i < j => Precedes(o, b, best[i], best[j])
  BY <1>8, <1>10
<1> QED BY <1>5, <1>6, <1>8, <1>10, <1>11

-----------------------------------------------------------------------------
(* FoldLeft: what a sequence is folded into, element by element. *)
Greatest(s) == CHOOSE x \in s : \A y \in s : x >= y

(* Some of the first numbers have a greatest one. *)
LEMMA GreatestIn ==
  ASSUME NEW n \in Nat, NEW s \in SUBSET (1..n), s # {}
  PROVE  Greatest(s) \in s
<1> DEFINE T == { m \in Nat : n - m \in s }
<1>1. PICK x \in s : TRUE
  OBVIOUS
<1>2. n - x \in T
  OBVIOUS
<1>3. PICK m \in T : \A k \in T : m <= k
  BY <1>2, LeastNumber
<1>4. ASSUME NEW y \in s
      PROVE  n - m >= y
  <2>1. n - y \in T
    OBVIOUS
  <2>2. m <= n - y
    BY <1>3, <2>1
  <2> QED BY <2>2
<1>5. n - m \in s
  OBVIOUS
<1> QED BY <1>4, <1>5 DEF Greatest

(* Of the first k numbers it is k. *)
LEMMA GreatestFirst ==
  ASSUME NEW k \in Nat \ {0}
  PROVE  Greatest(1..k) = k /\ (1..k) \ {k} = 1..(k - 1)
<1>1. k \in 1..k /\ \A y \in 1..k : k >= y
  OBVIOUS
<1>2. \A x \in 1..k : (\A y \in 1..k : x >= y) => x = k
  BY <1>1
<1>3. Greatest(1..k) = k
  BY <1>1, <1>2 DEF Greatest
<1> QED BY <1>3

Folds(g, F, base, D) ==
  g = [s \in D |-> IF s = {} THEN base ELSE F[<<Greatest(s), g[s \ {Greatest(s)}]>>]]

(* The function that folds the first n numbers exists. *)
LEMMA FoldsExist ==
  ASSUME NEW n \in Nat, NEW X, NEW base \in X, NEW F \in [(1..n) \X X -> X]
  PROVE  \E g \in [SUBSET (1..n) -> X] : Folds(g, F, base, SUBSET (1..n))
<1> DEFINE S == 1..n
           D(m) == { s \in SUBSET S : Cardinality(s) <= m }
           N == { m \in Nat : \E g \in [D(m) -> X] : Folds(g, F, base, D(m)) }
<1>0. IsFiniteSet(S) /\ Cardinality(S) \in Nat
  BY FS_Interval, FS_CardinalityType
<1>1. \A s \in SUBSET S : IsFiniteSet(s) /\ Cardinality(s) \in Nat
  BY <1>0, FS_Subset, FS_CardinalityType
<1>2. 0 \in N
  <2>1. D(0) = {{}}
    BY <1>1, FS_EmptySet
  <2>2. Folds([s \in {{}} |-> base], F, base, {{}})
    BY DEF Folds
  <2>3. [s \in {{}} |-> base] \in [{{}} -> X]
    OBVIOUS
  <2> QED BY <2>1, <2>2, <2>3
<1>3. ASSUME NEW m \in N
      PROVE  m + 1 \in N
  <2>1. PICK h \in [D(m) -> X] : Folds(h, F, base, D(m))
    OBVIOUS
  <2> DEFINE g == [s \in D(m + 1) |-> IF s = {} THEN base ELSE F[<<Greatest(s), h[s \ {Greatest(s)}]>>]]
  <2>2. ASSUME NEW s \in D(m + 1), s # {}
        PROVE  Greatest(s) \in S /\ s \ {Greatest(s)} \in D(m)
    <3>1. Greatest(s) \in s
      BY <2>2, GreatestIn
    <3>2. Cardinality(s \ {Greatest(s)}) = Cardinality(s) - 1
      BY <3>1, <1>1, FS_RemoveElement
    <3>3. Cardinality(s) \in Nat /\ Cardinality(s) <= m + 1 /\ s \in SUBSET S /\ m \in Nat
      BY <1>1
    <3>4. Cardinality(s \ {Greatest(s)}) <= m
      BY <3>2, <3>3
    <3> QED BY <3>1, <3>3, <3>4
  <2>3. ASSUME NEW s \in D(m)
        PROVE  s \in D(m + 1) /\ g[s] = h[s]
    <3>1. s \in D(m + 1)
      BY <1>1
    <3> QED BY <2>1, <3>1 DEF Folds
  <2>4. g \in [D(m + 1) -> X]
    <3>1. \A s \in D(m + 1) : s # {} => F[<<Greatest(s), h[s \ {Greatest(s)}]>>] \in X
      <4> SUFFICES ASSUME NEW s \in D(m + 1), s # {}
                   PROVE  F[<<Greatest(s), h[s \ {Greatest(s)}]>>] \in X
        OBVIOUS
      <4>1. Greatest(s) \in S /\ h[s \ {Greatest(s)}] \in X
        BY <2>2
      <4> QED BY <4>1
    <3> HIDE DEF D, S
    <3> QED BY <3>1
  <2>5. g = [s \in D(m + 1) |-> IF s = {} THEN base ELSE F[<<Greatest(s), g[s \ {Greatest(s)}]>>]]
    <3> HIDE DEF g
    <3>1. g = [s \in D(m + 1) |-> IF s = {} THEN base ELSE F[<<Greatest(s), h[s \ {Greatest(s)}]>>]]
      BY DEF g
    <3>2. ASSUME NEW s \in D(m + 1), s # {}
          PROVE  h[s \ {Greatest(s)}] = g[s \ {Greatest(s)}]
      BY <2>2, <2>3, <3>2
    <3> HIDE DEF D
    <3>3. \A s \in D(m + 1) : (IF s = {} THEN base ELSE F[<<Greatest(s), h[s \ {Greatest(s)}]>>])
                              = (IF s = {} THEN base ELSE F[<<Greatest(s), g[s \ {Greatest(s)}]>>])
      BY <3>2
    <3> QED BY <3>1, <3>3
  <2>6. Folds(g, F, base, D(m + 1))
    BY <2>5 DEF Folds
  <2> HIDE DEF D, g
  <2> QED BY <2>4, <2>6
<1>4. N = Nat
  <2> HIDE DEF N
  <2>1. N \in SUBSET Nat
    BY DEF N
  <2> QED BY <1>2, <1>3, <2>1, NumberInduction
<1>5. D(Cardinality(S)) = SUBSET S
  BY <1>0, FS_Subset
<1>6. Cardinality(S) \in N
  BY <1>0, <1>4
<1> QED BY <1>5, <1>6

(* Induction up to n. *)
LEMMA InductionTo ==
  ASSUME NEW n \in Nat, NEW P, 0 \in P, \A k \in 1..n : k - 1 \in P => k \in P
  PROVE  \A k \in 0..n : k \in P
<1> DEFINE N == { k \in Nat : k <= n => k \in P }
<1>1. 0 \in N
  OBVIOUS
<1>2. \A k \in N : k + 1 \in N
  <2> SUFFICES ASSUME NEW k \in N, k + 1 <= n PROVE k + 1 \in P
    OBVIOUS
  <2>1. k \in P /\ k + 1 \in 1..n /\ (k + 1) - 1 = k
    OBVIOUS
  <2> QED BY <2>1
<1>3. N = Nat
  <2> HIDE DEF N
  <2>1. N \in SUBSET Nat
    BY DEF N
  <2> QED BY <1>1, <1>2, <2>1, NumberInduction
<1> QED BY <1>3

-----------------------------------------------------------------------------
(* How promotions are taken, one after the other. *)
Parts == [promo : Promos, amount : Int]
Accs == [taken : Seq(Parts), left : Int]

AtMostLeft(o, b, p, acc) == Lesser(Discount(o[p], b.lines, b.spend), acc.left)

Stacks(o, p, acc) == o[p].stackable /\ \A i \in DOMAIN acc.taken : o[acc.taken[i].promo].stackable

Consider(o, b, p, acc) ==
  IF AtMostLeft(o, b, p, acc) > 0 /\ (acc.taken = <<>> \/ Stacks(o, p, acc))
  THEN [taken |-> Append(acc.taken, [promo |-> p, amount |-> AtMostLeft(o, b, p, acc)]),
        left |-> acc.left - AtMostLeft(o, b, p, acc)]
  ELSE acc

Start(b) == [taken |-> <<>>, left |-> b.spend]

Considers(c, o, b, best) ==
  c = [s \in SUBSET (DOMAIN best) |->
         IF s = {} THEN Start(b) ELSE Consider(o, b, best[Greatest(s)], c[s \ {Greatest(s)}])]

(* The definition, unfolded. *)
LEMMA ChosenUnfolds ==
  ASSUME NEW o, NEW b, NEW S
  PROVE  Chosen(o, S, b)
           = (CHOOSE c : Considers(c, o, b, Ordered(o, b, S)))[DOMAIN Ordered(o, b, S)].taken
  BY Zenon DEF Chosen, FoldLeft, MapThenFoldSet, Max, Greatest, Considers, Consider, Start,
     Stacks, AtMostLeft

(* What has been taken and what is left, after any promotion considered. *)
LEMMA ConsiderType ==
  ASSUME GoodsAssumption, NEW o, Rows(o), NEW b, Basket(b), NEW p \in Promos, NEW acc \in Accs
  PROVE  AtMostLeft(o, b, p, acc) \in Int /\ Consider(o, b, p, acc) \in Accs
<1>1. Discount(o[p], b.lines, b.spend) \in Int
  BY DiscountIsInt DEF Rows
<1>2. acc.left \in Int /\ acc.taken \in Seq(Parts)
  BY DEF Accs
<1>3. AtMostLeft(o, b, p, acc) \in Int
  BY <1>1, <1>2 DEF AtMostLeft, Lesser
<1>4. PICK take : take = AtMostLeft(o, b, p, acc)
  OBVIOUS
<1>5. [promo |-> p, amount |-> take] \in Parts
  BY <1>3, <1>4 DEF Parts
<1>6. Append(acc.taken, [promo |-> p, amount |-> take]) \in Seq(Parts)
  BY <1>2, <1>5
<1>7. [taken |-> Append(acc.taken, [promo |-> p, amount |-> take]), left |-> acc.left - take] \in Accs
  BY <1>2, <1>3, <1>4, <1>6 DEF Accs
<1> QED BY <1>3, <1>4, <1>7 DEF Consider

(* The promotions chosen are what is taken when all have been considered. *)
Steps(h, n, o, b, best) ==
  /\ h \in [0..n -> Accs]
  /\ h[0] = Start(b)
  /\ \A k \in 1..n : h[k] = Consider(o, b, best[k], h[k - 1])

(* The selection is what its last step leaves. *)
LEMMA ChosenInSteps ==
  ASSUME GoodsAssumption, NEW o, Rows(o), NEW b, Basket(b), NEW S \in SUBSET Promos,
         NEW n \in Nat, NEW best \in [1..n -> S], best = Ordered(o, b, S)
  PROVE  \E h : Steps(h, n, o, b, best) /\ Chosen(o, S, b) = h[n].taken
<1> DEFINE F == [x \in (1..n) \X Accs |-> Consider(o, b, best[x[1]], x[2])]
           D == SUBSET (1..n)
<1>1. F \in [(1..n) \X Accs -> Accs]
  <2>1. \A x \in (1..n) \X Accs : Consider(o, b, best[x[1]], x[2]) \in Accs
    BY ConsiderType
  <2> QED BY <2>1
<1>2. Start(b) \in Accs
  BY DEF Start, Accs, Basket
<1>3. PICK g \in [D -> Accs] : Folds(g, F, Start(b), D)
  BY <1>1, <1>2, FoldsExist
<1>4. Considers(g, o, b, best)
  <2>1. DOMAIN best = 1..n
    OBVIOUS
  <2>2. \A s \in D : s # {} => F[<<Greatest(s), g[s \ {Greatest(s)}]>>]
                               = Consider(o, b, best[Greatest(s)], g[s \ {Greatest(s)}])
    <3> SUFFICES ASSUME NEW s \in D, s # {}
                 PROVE  F[<<Greatest(s), g[s \ {Greatest(s)}]>>]
                          = Consider(o, b, best[Greatest(s)], g[s \ {Greatest(s)}])
      OBVIOUS
    <3>1. Greatest(s) \in 1..n
      BY GreatestIn
    <3>2. g[s \ {Greatest(s)}] \in Accs
      BY <1>3
    <3> QED BY <3>1, <3>2
  <2> HIDE DEF F
  <2>3. g = [s \in D |-> IF s = {} THEN Start(b)
                         ELSE Consider(o, b, best[Greatest(s)], g[s \ {Greatest(s)}])]
    BY <1>3, <2>2 DEF Folds
  <2> QED BY <2>1, <2>3 DEF Considers
<1> DEFINE c == CHOOSE f : Considers(f, o, b, best)
<1>5. Considers(c, o, b, best)
  BY <1>4
<1>6. Chosen(o, S, b) = c[1..n].taken
  <2>1. DOMAIN best = 1..n
    OBVIOUS
  <2>2. Chosen(o, S, b) = c[DOMAIN best].taken
    BY ChosenUnfolds
  <2> QED BY <2>1, <2>2
<1> HIDE DEF c
<1> DEFINE h == [k \in 0..n |-> c[1..k]]
<1>7. /\ c[{}] = Start(b)
      /\ \A k \in 1..n : c[1..k] = Consider(o, b, best[k], c[1..(k - 1)])
  <2>1. c = [s \in D |-> IF s = {} THEN Start(b)
                         ELSE Consider(o, b, best[Greatest(s)], c[s \ {Greatest(s)}])]
    <3>1. DOMAIN best = 1..n
      OBVIOUS
    <3> QED BY <1>5, <3>1 DEF Considers
  <2>2. ASSUME NEW k \in 1..n
        PROVE  c[1..k] = Consider(o, b, best[k], c[1..(k - 1)])
    <3>0. k \in Nat \ {0} /\ k <= n
      OBVIOUS
    <3>1. 1..k \in D /\ 1..k # {}
      BY <3>0
    <3>2. Greatest(1..k) = k /\ (1..k) \ {k} = 1..(k - 1)
      BY <3>0, GreatestFirst
    <3>3. c[1..k] = Consider(o, b, best[Greatest(1..k)], c[(1..k) \ {Greatest(1..k)}])
      BY <2>1, <3>1
    <3> QED BY <3>2, <3>3
  <2> QED BY <2>1, <2>2
<1>8. h[0] = Start(b) /\ \A k \in 1..n : h[k] = Consider(o, b, best[k], h[k - 1])
  <2>1. 1..0 = {} /\ \A k \in 1..n : k \in 0..n /\ k - 1 \in 0..n
    OBVIOUS
  <2> QED BY <1>7, <2>1
<1>9. h[n].taken = c[1..n].taken
  OBVIOUS
<1> HIDE DEF h
<1>10. \A k \in 0..n : h[k] \in Accs
  <2> DEFINE P == { k \in Nat : h[k] \in Accs }
  <2>1. 0 \in P
    BY <1>2, <1>8
  <2>2. \A k \in 1..n : k - 1 \in P => k \in P
    BY <1>8, ConsiderType
  <2>3. \A k \in 0..n : k \in P
    <3> HIDE DEF P
    <3> QED BY <2>1, <2>2, InductionTo
  <2> QED BY <2>3
<1>11. h \in [0..n -> Accs]
  BY <1>10 DEF h
<1> QED BY <1>6, <1>8, <1>9, <1>11 DEF Steps

-----------------------------------------------------------------------------
(* What promotions take off together. *)
Adds(t, s) == t = [u \in SUBSET (DOMAIN s) |->
                     IF u = {} THEN 0 ELSE t[u \ {Greatest(u)}] + s[Greatest(u)].amount]

(* The definition, unfolded. *)
LEMMA TakenUnfolds ==
  ASSUME NEW s
  PROVE  Taken(s) = (CHOOSE t : Adds(t, s))[DOMAIN s]
  BY Zenon DEF Taken, FoldLeft, MapThenFoldSet, Max, Greatest, Adds

(* It is added up one after the other. *)
AddsUp(t, s) ==
  /\ t \in [0..Len(s) -> Int]
  /\ t[0] = 0
  /\ \A k \in 1..Len(s) : t[k] = t[k - 1] + s[k].amount

OnTop(s, x) == x[2] + s[x[1]].amount

(* What is taken is added up promotion by promotion. *)
LEMMA TakenInSteps ==
  ASSUME NEW s \in Seq(Parts)
  PROVE  \E t : AddsUp(t, s) /\ Taken(s) = t[Len(s)]
<1> DEFINE n == Len(s)
           F == [x \in (1..n) \X Int |-> OnTop(s, x)]
           D == SUBSET (1..n)
<1>0. n \in Nat /\ DOMAIN s = 1..n /\ \A k \in 1..n : s[k].amount \in Int
  <2>1. n \in Nat /\ DOMAIN s = 1..n /\ \A k \in 1..n : s[k] \in Parts
    OBVIOUS
  <2>2. \A x \in Parts : x.amount \in Int
    BY DEF Parts
  <2> QED BY <2>1, <2>2
<1> HIDE DEF n
<1>1. F \in [(1..n) \X Int -> Int]
  <2>1. \A x \in (1..n) \X Int : x[1] \in 1..n /\ x[2] \in Int
    OBVIOUS
  <2>2. \A x \in (1..n) \X Int : OnTop(s, x) \in Int
    BY <1>0, <2>1 DEF OnTop
  <2> QED BY <2>2
<1>2. PICK g \in [D -> Int] : Folds(g, F, 0, D)
  <2> HIDE DEF F
  <2>1. 0 \in Int
    OBVIOUS
  <2> QED BY <1>0, <1>1, <2>1, FoldsExist
<1>3. Adds(g, s)
  <2>1. \A u \in D : u # {} => F[<<Greatest(u), g[u \ {Greatest(u)}]>>]
                               = g[u \ {Greatest(u)}] + s[Greatest(u)].amount
    <3> SUFFICES ASSUME NEW u \in D, u # {}
                 PROVE  F[<<Greatest(u), g[u \ {Greatest(u)}]>>] = g[u \ {Greatest(u)}] + s[Greatest(u)].amount
      OBVIOUS
    <3>1. Greatest(u) \in 1..n
      BY <1>0, GreatestIn
    <3>2. g[u \ {Greatest(u)}] \in Int
      BY <1>2
    <3> QED BY <3>1, <3>2 DEF OnTop
  <2> HIDE DEF F
  <2>2. g = [u \in D |-> IF u = {} THEN 0 ELSE g[u \ {Greatest(u)}] + s[Greatest(u)].amount]
    BY <1>2, <2>1 DEF Folds
  <2> QED BY <1>0, <2>2 DEF Adds
<1> DEFINE c == CHOOSE f : Adds(f, s)
<1>4. Adds(c, s)
  BY <1>3
<1>5. Taken(s) = c[1..n]
  <2>1. Taken(s) = c[DOMAIN s]
    BY TakenUnfolds
  <2> QED BY <1>0, <2>1
<1> HIDE DEF c
<1>6. /\ c[{}] = 0
      /\ \A k \in 1..n : c[1..k] = c[1..(k - 1)] + s[k].amount
  <2>1. c = [u \in D |-> IF u = {} THEN 0 ELSE c[u \ {Greatest(u)}] + s[Greatest(u)].amount]
    BY <1>0, <1>4 DEF Adds
  <2>2. ASSUME NEW k \in 1..n
        PROVE  c[1..k] = c[1..(k - 1)] + s[k].amount
    <3>0. k \in Nat \ {0} /\ k <= n
      BY <1>0
    <3>1. 1..k \in D /\ 1..k # {}
      BY <1>0, <3>0
    <3>2. Greatest(1..k) = k /\ (1..k) \ {k} = 1..(k - 1)
      BY <3>0, GreatestFirst
    <3>3. c[1..k] = c[(1..k) \ {Greatest(1..k)}] + s[Greatest(1..k)].amount
      BY <2>1, <3>1
    <3> QED BY <3>2, <3>3
  <2> QED BY <2>1, <2>2
<1> DEFINE h == [k \in 0..n |-> c[1..k]]
<1>7. h[0] = 0 /\ \A k \in 1..n : h[k] = h[k - 1] + s[k].amount
  <2>1. 1..0 = {} /\ 0 \in 0..n /\ \A k \in 1..n : k \in 0..n /\ k - 1 \in 0..n
    BY <1>0
  <2> QED BY <1>6, <2>1
<1>8. h[n] = c[1..n]
  BY <1>0
<1> HIDE DEF h
<1>9. \A k \in 0..n : h[k] \in Int
  <2> DEFINE P == { k \in Nat : h[k] \in Int }
  <2>1. 0 \in P
    BY <1>7
  <2>2. \A k \in 1..n : k - 1 \in P => k \in P
    BY <1>0, <1>7
  <2>3. \A k \in 0..n : k \in P
    <3> HIDE DEF P
    <3> QED BY <1>0, <2>1, <2>2, InductionTo
  <2> QED BY <2>3
<1>10. h \in [0..n -> Int]
  BY <1>9 DEF h
<1> QED BY <1>5, <1>7, <1>8, <1>10 DEF AddsUp, n

(* One more takes off its amount more. *)
LEMMA TakenOneMore ==
  ASSUME NEW s \in Seq(Parts), NEW x \in Parts
  PROVE  Taken(s) \in Int /\ Taken(Append(s, x)) = Taken(s) + x.amount
<1>1. PICK t : AddsUp(t, s) /\ Taken(s) = t[Len(s)]
  BY TakenInSteps
<1>2. PICK r : r = Append(s, x)
  OBVIOUS
<1>3. r \in Seq(Parts) /\ Len(r) = Len(s) + 1 /\ r[Len(s) + 1] = x /\ \A k \in 1..Len(s) : r[k] = s[k]
  BY <1>2
<1>4. PICK u : AddsUp(u, r) /\ Taken(r) = u[Len(r)]
  BY <1>3, TakenInSteps
<1>5. PICK n \in Nat : n = Len(s)
  OBVIOUS
<1>6. \A k \in 0..n : u[k] = t[k]
  <2> DEFINE P == { k \in Nat : u[k] = t[k] }
  <2>1. 0 \in P
    BY <1>1, <1>4 DEF AddsUp
  <2>2. ASSUME NEW k \in 1..n, k - 1 \in P
        PROVE  k \in P
    <3>1. k \in 1..(n + 1)
      OBVIOUS
    <3>2. u[k] = u[k - 1] + r[k].amount /\ t[k] = t[k - 1] + s[k].amount
      BY <1>1, <1>3, <1>4, <1>5, <3>1 DEF AddsUp
    <3> QED BY <1>3, <1>5, <2>2, <3>2
  <2>3. \A k \in 0..n : k \in P
    <3> HIDE DEF P
    <3> QED BY <2>1, <2>2, InductionTo
  <2> QED BY <2>3
<1>7. u[n + 1] = u[n] + x.amount
  <2>1. n + 1 \in 1..(n + 1) /\ (n + 1) - 1 = n
    OBVIOUS
  <2> QED BY <1>3, <1>4, <1>5, <2>1 DEF AddsUp
<1>8. t[n] \in Int
  BY <1>1, <1>5 DEF AddsUp
<1> QED BY <1>1, <1>2, <1>3, <1>4, <1>5, <1>6, <1>7, <1>8

(* Nothing takes off nothing. *)
LEMMA NothingTaken == Taken(<<>>) = 0
<1>1. <<>> \in Seq(Parts) /\ Len(<<>>) = 0
  OBVIOUS
<1>2. PICK t : AddsUp(t, <<>>) /\ Taken(<<>>) = t[Len(<<>>)]
  BY <1>1, TakenInSteps
<1> QED BY <1>1, <1>2 DEF AddsUp

(* What promotions have been taken. *)
LEMMA PromosOneMore ==
  ASSUME NEW s \in Seq(Parts), NEW x \in Parts
  PROVE  PromosOf(Append(s, x)) = PromosOf(s) \cup {x.promo}
<1>1. PICK r : r = Append(s, x)
  OBVIOUS
<1>2. /\ DOMAIN r = 1..(Len(s) + 1) /\ DOMAIN s = 1..Len(s) /\ Len(s) \in Nat
      /\ r[Len(s) + 1] = x /\ \A k \in 1..Len(s) : r[k] = s[k]
  BY <1>1
<1>3. \A k \in 1..(Len(s) + 1) : k \in 1..Len(s) \/ k = Len(s) + 1
  BY <1>2
<1>4. \A k \in 1..Len(s) : k \in 1..(Len(s) + 1)
  BY <1>2
<1>5. Len(s) + 1 \in 1..(Len(s) + 1)
  BY <1>2
<1>6. PromosOf(r) = PromosOf(s) \cup {x.promo}
  BY <1>2, <1>3, <1>4, <1>5 DEF PromosOf
<1> QED BY <1>1, <1>6

-----------------------------------------------------------------------------
(* The selection: what holds after each promotion considered. *)
Combine(o, p, q) == o[p].stackable /\ o[q].stackable

Selected(o, b, best, k, acc) ==
  /\ \A p \in PromosOf(acc.taken) : \E j \in 1..k : p = best[j]
  /\ acc.left \in Nat /\ Taken(acc.taken) = b.spend - acc.left
  /\ \A p, q \in PromosOf(acc.taken) : p = q \/ Combine(o, p, q)
  /\ \A j \in 1..k : \/ best[j] \in PromosOf(acc.taken)
                     \/ acc.left = 0
                     \/ \E q \in PromosOf(acc.taken) :
                          Precedes(o, b, q, best[j]) /\ ~Combine(o, q, best[j])
  /\ k > 0 /\ b.spend > 0 => best[1] \in PromosOf(acc.taken)

(* Before the first promotion is considered, it holds. *)
LEMMA NothingSelected ==
  ASSUME NEW o, NEW b, Basket(b), NEW best
  PROVE  Selected(o, b, best, 0, Start(b))
<1>1. PromosOf(<<>>) = {}
  BY DEF PromosOf
<1>2. Start(b).taken = <<>> /\ Start(b).left = b.spend /\ b.spend \in Nat
  BY DEF Start, Basket
<1>3. b.spend - b.spend = 0
  BY <1>2
<1> QED BY <1>1, <1>2, <1>3, NothingTaken DEF Selected

(* A promotion more that is considered keeps it. *)
LEMMA OneMoreSelected ==
  ASSUME GoodsAssumption, NEW o, Rows(o), NEW b, Basket(b), NEW n \in Nat, NEW best \in [1..n -> Promos],
         \A i, j \in 1..n : i < j => Precedes(o, b, best[i], best[j]),
         NEW k \in 1..n, Discount(o[best[k]], b.lines, b.spend) > 0,
         NEW acc \in Accs, k = 1 => acc = Start(b), Selected(o, b, best, k - 1, acc)
  PROVE  Selected(o, b, best, k, Consider(o, b, best[k], acc))
<1> DEFINE p == best[k]
           take == AtMostLeft(o, b, p, acc)
           new == Consider(o, b, p, acc)
           got == PromosOf(acc.taken)
<1>1. p \in Promos /\ k \in Nat /\ k > 0 /\ b.spend \in Nat
  BY DEF Basket
<1>2. acc.taken \in Seq(Parts) /\ acc.left \in Nat /\ Taken(acc.taken) \in Int
  <2>1. acc.taken \in Seq(Parts)
    BY DEF Accs
  <2> QED BY <2>1, TakenInSteps DEF Selected, Accs, AddsUp
<1>3. take \in Int /\ take <= acc.left /\ (acc.left > 0 => take > 0)
  <2>1. Discount(o[p], b.lines, b.spend) \in Int /\ Discount(o[p], b.lines, b.spend) > 0
    BY DiscountIsInt DEF Rows
  <2> QED BY <1>2, <2>1 DEF AtMostLeft, Lesser
<1>4. \A q \in got : \E j \in 1..(k - 1) : q = best[j]
  BY DEF Selected
<1>5. \A q \in got : Precedes(o, b, q, p)
  <2> SUFFICES ASSUME NEW q \in got PROVE Precedes(o, b, q, p)
    OBVIOUS
  <2>1. PICK j \in 1..(k - 1) : q = best[j]
    BY <1>4
  <2>2. j \in 1..n /\ j < k
    OBVIOUS
  <2> QED BY <2>1, <2>2
<1>6. /\ acc.taken = <<>> => got = {}
      /\ acc.taken # <<>> => \E q \in got : TRUE
      /\ Stacks(o, p, acc) <=> o[p].stackable /\ \A q \in got : o[q].stackable
  <2>1. acc.taken # <<>> => 1 \in DOMAIN acc.taken
    BY <1>2
  <2>2. acc.taken = <<>> => DOMAIN acc.taken = {}
    BY <1>2
  <2> QED BY <2>1, <2>2 DEF PromosOf, Stacks
<1>7. CASE take > 0 /\ (acc.taken = <<>> \/ Stacks(o, p, acc))
  <2>1. PICK x : x = [promo |-> p, amount |-> take]
    OBVIOUS
  <2>2. x \in Parts /\ x.promo = p /\ x.amount = take
    BY <1>1, <1>3, <2>1 DEF Parts
  <2>3. new.taken = Append(acc.taken, x) /\ new.left = acc.left - take
    BY <1>7, <2>1 DEF Consider
  <2>4. PromosOf(new.taken) = got \cup {p}
    BY <1>2, <2>2, <2>3, PromosOneMore
  <2>5. Taken(new.taken) = Taken(acc.taken) + take
    BY <1>2, <2>2, <2>3, TakenOneMore
  <2>6. new.left \in Nat /\ Taken(new.taken) = b.spend - new.left
    <3>1. Taken(acc.taken) = b.spend - acc.left
      BY DEF Selected
    <3> QED BY <1>1, <1>2, <1>3, <2>3, <2>5, <3>1
  <2>7. \A q \in got \cup {p} : \E j \in 1..k : q = best[j]
    <3>1. \A j \in 1..(k - 1) : j \in 1..k
      OBVIOUS
    <3>2. k \in 1..k
      OBVIOUS
    <3> QED BY <1>4, <3>1, <3>2
  <2>8. \A q, r \in got \cup {p} : q = r \/ Combine(o, q, r)
    <3>1. \A q, r \in got : q = r \/ Combine(o, q, r)
      BY DEF Selected
    <3>2. \A q \in got : Combine(o, p, q) /\ Combine(o, q, p)
      BY <1>6, <1>7 DEF Combine
    <3> QED BY <3>1, <3>2
  <2>9. ASSUME NEW j \in 1..k
        PROVE  \/ best[j] \in got \cup {p}
               \/ new.left = 0
               \/ \E q \in got \cup {p} : Precedes(o, b, q, best[j]) /\ ~Combine(o, q, best[j])
    <3>1. CASE j = k
      BY <3>1
    <3>2. CASE j # k
      <4>1. j \in 1..(k - 1)
        BY <3>2
      <4>2. acc.left # 0
        BY <1>2, <1>3, <1>7
      <4> QED BY <4>1, <4>2 DEF Selected
    <3> QED BY <3>1, <3>2
  <2>10. b.spend > 0 => best[1] \in got \cup {p}
    <3>1. CASE k = 1
      BY <3>1
    <3>2. CASE k # 1
      <4>1. k - 1 > 0
        BY <1>1, <3>2
      <4> QED BY <4>1 DEF Selected
    <3> QED BY <3>1, <3>2
  <2> HIDE DEF new, got
  <2> QED BY <2>4, <2>6, <2>7, <2>8, <2>9, <2>10 DEF Selected, new, p
<1>8. CASE ~(take > 0 /\ (acc.taken = <<>> \/ Stacks(o, p, acc)))
  <2>1. new = acc
    BY <1>8 DEF Consider
  <2>2. \/ acc.left = 0
        \/ \E q \in got : Precedes(o, b, q, p) /\ ~Combine(o, q, p)
    <3>1. CASE acc.left > 0
      <4>1. acc.taken # <<>> /\ ~Stacks(o, p, acc)
        BY <1>3, <1>8, <3>1
      <4>2. PICK q \in got : ~Combine(o, q, p)
        BY <1>6, <4>1 DEF Combine
      <4> QED BY <1>5, <4>2
    <3> QED BY <1>2, <3>1
  <2>3. ASSUME NEW j \in 1..k
        PROVE  \/ best[j] \in got
               \/ acc.left = 0
               \/ \E q \in got : Precedes(o, b, q, best[j]) /\ ~Combine(o, q, best[j])
    <3>1. CASE j = k
      BY <2>2, <3>1
    <3>2. CASE j # k
      <4>1. j \in 1..(k - 1)
        BY <3>2
      <4> QED BY <4>1 DEF Selected
    <3> QED BY <3>1, <3>2
  <2>4. b.spend > 0 => best[1] \in got
    <3>1. CASE k = 1
      <4>1. acc.taken = <<>> /\ acc.left = b.spend
        BY <3>1 DEF Start
      <4> QED BY <1>1, <1>3, <1>8, <4>1
    <3>2. CASE k # 1
      <4>1. k - 1 > 0
        BY <1>1, <3>2
      <4> QED BY <4>1 DEF Selected
    <3> QED BY <3>1, <3>2
  <2>5. \A q \in got : \E j \in 1..k : q = best[j]
    <3>1. \A j \in 1..(k - 1) : j \in 1..k
      OBVIOUS
    <3> QED BY <1>4, <3>1
  <2>6. /\ acc.left \in Nat /\ Taken(acc.taken) = b.spend - acc.left
        /\ \A q, r \in got : q = r \/ Combine(o, q, r)
    BY DEF Selected
  <2>7. Selected(o, b, best, k, acc)
    <3> HIDE DEF new
    <3> QED BY <2>3, <2>4, <2>5, <2>6 DEF Selected
  <2> QED BY <2>1, <2>7
<1> QED BY <1>7, <1>8

(* What is chosen of the promotions that apply to a cart. *)
SelectionTells(o, S, b, chosen) ==
  /\ chosen \in Seq(Parts) /\ PromosOf(chosen) \subseteq S
  /\ Taken(chosen) \in Int /\ Taken(chosen) <= b.spend
  /\ \A p, q \in PromosOf(chosen) : p = q \/ Combine(o, p, q)
  /\ \A p \in S \ PromosOf(chosen) :
       \/ Taken(chosen) = b.spend
       \/ \E q \in PromosOf(chosen) : Precedes(o, b, q, p) /\ ~Combine(o, q, p)
  /\ (b.coupon # NoCode /\ b.spend > 0 /\ \E p \in S : o[p].code = b.coupon)
       => \E p \in PromosOf(chosen) : o[p].code = b.coupon

(* So it holds of the selection. *)
LEMMA SelectionOfCart ==
  ASSUME GoodsAssumption, PromosAssumption, NEW o, Rows(o), NEW b, Basket(b), NEW S \in SUBSET Promos,
         \A p \in S : Discount(o[p], b.lines, b.spend) > 0
  PROVE  SelectionTells(o, S, b, Chosen(o, S, b))
<1>1. PICK n, best :
        /\ n \in Nat
        /\ best = Ordered(o, b, S)
        /\ best \in [1..n -> S]
        /\ \A p \in S : \E i \in 1..n : best[i] = p
        /\ \A i, j \in 1..n : i < j => Precedes(o, b, best[i], best[j])
  BY OrderedIsInOrder
<1>2. PICK h : Steps(h, n, o, b, best) /\ Chosen(o, S, b) = h[n].taken
  BY <1>1, ChosenInSteps
<1>3. \A k \in 0..n : Selected(o, b, best, k, h[k])
  <2> DEFINE P == { k \in 0..n : Selected(o, b, best, k, h[k]) }
  <2>1. 0 \in P
    BY <1>1, <1>2, NothingSelected DEF Steps
  <2>2. ASSUME NEW k \in 1..n, k - 1 \in P
        PROVE  k \in P
    <3>1. k \in 0..n /\ k - 1 \in 0..n /\ h[k - 1] \in Accs
      BY <1>1, <1>2 DEF Steps
    <3>2. k = 1 => h[k - 1] = Start(b)
      BY <1>2 DEF Steps
    <3>3. Selected(o, b, best, k - 1, h[k - 1])
      BY <2>2
    <3>4. best \in [1..n -> Promos] /\ Discount(o[best[k]], b.lines, b.spend) > 0
      BY <1>1
    <3>5. PICK acc : acc = h[k - 1]
      OBVIOUS
    <3>6. Selected(o, b, best, k, Consider(o, b, best[k], acc))
      BY <1>1, <3>1, <3>2, <3>3, <3>4, <3>5, OneMoreSelected
    <3>7. h[k] = Consider(o, b, best[k], acc)
      BY <1>2, <3>5 DEF Steps
    <3> QED BY <3>1, <3>6, <3>7
  <2>3. \A k \in 0..n : k \in P
    <3> HIDE DEF P
    <3> QED BY <1>1, <2>1, <2>2, InductionTo
  <2> QED BY <2>3
<1>4. PICK chosen, left : chosen = Chosen(o, S, b) /\ left = h[n].left
  OBVIOUS
<1>5. chosen = h[n].taken /\ h[n] \in Accs /\ Selected(o, b, best, n, h[n])
  BY <1>1, <1>2, <1>3, <1>4 DEF Steps
<1>6. chosen \in Seq(Parts) /\ left \in Nat /\ Taken(chosen) = b.spend - left /\ b.spend \in Nat
  BY <1>4, <1>5 DEF Accs, Selected, Basket
<1>7. PromosOf(chosen) \subseteq S
  BY <1>1, <1>5 DEF Selected
<1>8. \A p, q \in PromosOf(chosen) : p = q \/ Combine(o, p, q)
  BY <1>5 DEF Selected
<1>9. ASSUME NEW p \in S \ PromosOf(chosen)
      PROVE  \/ Taken(chosen) = b.spend
             \/ \E q \in PromosOf(chosen) : Precedes(o, b, q, p) /\ ~Combine(o, q, p)
  <2>1. PICK j \in 1..n : best[j] = p
    BY <1>1
  <2>2. left = 0 \/ \E q \in PromosOf(chosen) : Precedes(o, b, q, p) /\ ~Combine(o, q, p)
    BY <1>4, <1>5, <1>9, <2>1 DEF Selected
  <2>3. left = 0 => Taken(chosen) = b.spend
    BY <1>6
  <2> QED BY <2>2, <2>3
<1>10. ASSUME b.coupon # NoCode, b.spend > 0, NEW p \in S, o[p].code = b.coupon
       PROVE  \E q \in PromosOf(chosen) : o[q].code = b.coupon
  <2>1. PICK j \in 1..n : best[j] = p
    BY <1>1
  <2>2. n > 0 /\ 1 \in 1..n
    BY <1>1, <2>1
  <2>3. best[1] \in PromosOf(chosen) /\ best[1] \in Promos
    BY <1>1, <1>5, <1>10, <2>2 DEF Selected
  <2>4. o[best[1]].code = b.coupon
    <3>1. CASE j = 1
      BY <1>10, <2>1, <3>1
    <3>2. CASE j # 1
      <4>1. Precedes(o, b, best[1], p)
        <5>1. 1 < j
          BY <3>2
        <5> QED BY <1>1, <2>1, <2>2, <5>1
      <4>2. PICK i \in 1..4 : Greater(KeysOf(o, b, best[1]), KeysOf(o, b, p), i)
        BY <2>3, <4>1, PrecedesMeans
      <4>3. PICK k, l : k = KeysOf(o, b, best[1])[1] /\ l = KeysOf(o, b, p)[1]
        OBVIOUS
      <4>4. k \in {0, 1} /\ l \in {0, 1}
        BY <2>3, <4>3, KeysAreNumbers
      <4>5. l = 1
        BY <1>10, <4>3 DEF KeysOf
      <4>6. k >= l
        <5>1. CASE i = 1
          BY <4>2, <4>3, <4>4, <5>1 DEF Greater
        <5>2. CASE i # 1
          <6>1. 1 \in 1..4 /\ 1 < i
            BY <5>2
          <6> QED BY <4>2, <4>3, <4>4, <6>1 DEF Greater
        <5> QED BY <5>1, <5>2
      <4>7. k = 1
        BY <4>4, <4>5, <4>6
      <4> QED BY <4>3, <4>7 DEF KeysOf
    <3> QED BY <3>1, <3>2
  <2> QED BY <2>3, <2>4
<1>11. Taken(chosen) \in Int /\ Taken(chosen) <= b.spend
  BY <1>6
<1> QED BY <1>4, <1>6, <1>7, <1>8, <1>9, <1>10, <1>11 DEF SelectionTells

-----------------------------------------------------------------------------
(* The balances of customers and the uses of promotions. *)
AccountsAssumptions ==
  /\ GoodsAssumption /\ PromosAssumption /\ CustomersAssumption /\ OffersAssumption
  /\ PointsAssumption /\ AmountsAssumption /\ SalesAssumption

(* These are the assumptions of Accounts and of Promotions. *)
LEMMA AccountsAssumed == AccountsAssumptions
BY GoodsAssumption, PromosAssumption, CustomersAssumption, OffersAssumption, PointsAssumption,
   AmountsAssumption, SalesAssumption
   DEF AccountsAssumptions

Buyers == Customers \cup {Walkin}

(* A sale's cart, as promotions see it. *)
LEMMA CartOfSale ==
  ASSUME AccountsAssumptions, NEW s \in Sales
  PROVE  /\ Basket(Cart(s)) /\ Cart(s).spend \in Nat
         /\ s.customer \in Buyers /\ s.owed \in Nat /\ s.credit \in Nat /\ s.points \in Nat
<1>1. IsSale(s)
  BY DEF AccountsAssumptions, SalesAssumption
<1>2. Total(s.lines, Goods) \in Int
  <2>1. Goods \in SUBSET Goods
    OBVIOUS
  <2> QED BY <1>1, <2>1, TotalOfLines DEF IsSale, AccountsAssumptions
<1>3. s.cut \in 0..Total(s.lines, Goods)
  BY <1>1 DEF IsSale
<1>4. Total(s.lines, Goods) - s.cut \in Nat
  BY <1>2, <1>3
<1>5. Cart(s).lines = s.lines /\ Cart(s).spend = Total(s.lines, Goods) - s.cut
  BY DEF Cart
<1>6. /\ s.lines \in [Goods -> Nat] /\ s.customer \in Buyers
      /\ s.owed \in Nat /\ s.credit \in Nat /\ s.points \in Nat
  BY <1>1 DEF IsSale, Buyers
<1> QED BY <1>4, <1>5, <1>6 DEF Basket

(* What applies, and what is chosen of it. *)
LEMMA ChosenOfSale ==
  ASSUME AccountsAssumptions, Rows(offer), NEW s \in Sales
  PROVE  /\ AppliesTo(s) \in SUBSET Promos
         /\ \A p \in AppliesTo(s) :
              /\ offer[p].maxUses # Unlimited => usageCount[p] < offer[p].maxUses
              /\ offer[p].perCustomer # Unlimited /\ s.customer # Walkin
                   => usages[p][s.customer] < offer[p].perCustomer
         /\ SelectionTells(offer, AppliesTo(s), Cart(s), Chosen(offer, AppliesTo(s), Cart(s)))
<1>1. PICK u : u = [p \in Promos |-> usages[p][s.customer]]
  OBVIOUS
<1>2. AppliesTo(s) = Applicable(offer, usageCount, u, s.customer # Walkin, Cart(s))
  BY <1>1, Zenon DEF AppliesTo
<1>3. PICK b, S : b = Cart(s) /\ S = AppliesTo(s)
  OBVIOUS
<1>4. /\ S \in SUBSET Promos
      /\ \A p \in S :
           /\ offer[p].maxUses # Unlimited => usageCount[p] < offer[p].maxUses
           /\ offer[p].perCustomer # Unlimited /\ s.customer # Walkin => u[p] < offer[p].perCustomer
           /\ Discount(offer[p], b.lines, b.spend) > 0
  BY <1>2, <1>3 DEF Applicable, Listed
<1>5. SelectionTells(offer, S, b, Chosen(offer, S, b))
  BY <1>3, <1>4, CartOfSale, SelectionOfCart DEF AccountsAssumptions
<1>6. \A p \in S : u[p] = usages[p][s.customer]
  BY <1>1, <1>4
<1> QED BY <1>3, <1>4, <1>5, <1>6

(* A number of whole units that covers an amount. *)
LEMMA WholeUnits ==
  ASSUME NEW d \in Nat \ {0}, NEW k \in Nat, NEW a \in Int, a <= k * d
  PROVE  (a + d - 1) \div d <= k /\ (a + d - 1) \div d \in Int
<1>1. PICK q : q = (a + d - 1) \div d
  OBVIOUS
<1>2. q \in Int /\ d * q <= a + d - 1
  BY <1>1
<1>3. SUFFICES ASSUME q >= k + 1 PROVE FALSE
  BY <1>1, <1>2
<1>4. d * q >= d * (k + 1)
  BY <1>2, <1>3
<1>5. d * (k + 1) = k * d + d
  OBVIOUS
<1>6. d * q \in Int /\ k * d \in Int
  BY <1>2
<1> QED BY <1>2, <1>4, <1>5, <1>6

(* The whole parts of an amount. *)
LEMMA WholeParts ==
  ASSUME NEW d \in Nat \ {0}, NEW a \in Nat
  PROVE  a \div d \in Nat
<1>1. PICK q : q = a \div d
  OBVIOUS
<1>2. q \in Int /\ a < d * q + d
  BY <1>1
<1>3. SUFFICES ASSUME q < 0 PROVE FALSE
  BY <1>1, <1>2
<1>4. d * q + d <= 0
  <2>1. d * (q + 1) <= 0
    BY <1>2, <1>3
  <2>2. d * (q + 1) = d * q + d
    BY <1>2
  <2> QED BY <2>1, <2>2
<1> QED BY <1>2, <1>4

(* Points pay no more than they are worth, and no more than is left. *)
LEMMA RedeemedWithin ==
  ASSUME AccountsAssumptions, NEW points \in Nat, NEW left \in Nat
  PROVE  /\ Redeemed(points, left).points \in Int /\ Redeemed(points, left).points <= points
         /\ Redeemed(points, left).off \in Int /\ Redeemed(points, left).off <= left
<1>1. PICK most : most = Lesser(points * PointValue, left)
  OBVIOUS
<1>2. PointValue \in Nat \ {0} /\ points * PointValue \in Int
  BY DEF AccountsAssumptions, PointsAssumption
<1>3. most \in Int /\ most <= points * PointValue /\ most <= left
  BY <1>1, <1>2 DEF Lesser
<1>4. /\ (most + PointValue - 1) \div PointValue <= points
      /\ (most + PointValue - 1) \div PointValue \in Int
  BY <1>2, <1>3, WholeUnits
<1>5. /\ Redeemed(points, left).points = (most + PointValue - 1) \div PointValue
      /\ Redeemed(points, left).off = most
  BY <1>1 DEF Redeemed
<1> QED BY <1>3, <1>4, <1>5

(* What a checkout may rely on: it holds its customer's row as it read it,   *)
(* and what it worked out fits that row and the promotions it saw.           *)
RequestFields == {"pc", "sale", "attempt", "row", "chosen", "saw", "points"}

Reads(r) == r.pc \in {"locked", "priced", "counting"}
Priced(r) == r.pc \in {"priced", "counting"}

Fits(r) ==
  /\ r.chosen \in Seq(Parts) /\ r.points \in Int /\ r.saw \in [Promos -> Nat]
  /\ r.sale.customer # Walkin =>
       /\ r.sale.credit <= r.row.credit /\ r.row.points + r.points >= 0
       /\ r.sale.owed > 0 => r.row.owed + r.sale.owed <= r.row.limit

WithinLimits(r, o, us) ==
  \A p \in PromosOf(r.chosen) :
    /\ o[p].maxUses # Unlimited => r.saw[p] < o[p].maxUses
    /\ o[p].perCustomer # Unlimited /\ r.sale.customer # Walkin
         => us[p][r.sale.customer] < o[p].perCustomer

RequestTells(w, r, cs, lock, o, us) ==
  /\ DOMAIN r = RequestFields /\ r.sale \in Sales \cup {Nobody}
  /\ Reads(r) => r.sale \in Sales
  /\ (Reads(r) /\ r.sale.customer # Walkin)
       => lock[r.sale.customer] = w /\ r.row = cs[r.sale.customer]
  /\ Priced(r) => Fits(r) /\ WithinLimits(r, o, us)

Balances == [limit : Int, owed : Int, credit : Nat, points : Nat]

BalancesHold(cs, ls) ==
  /\ cs \in [Customers -> Balances]
  /\ ls \in [Customers -> [owed : Int, credit : Int, points : Int]]
  /\ \A c \in Customers : cs[c].owed = ls[c].owed /\ cs[c].credit = ls[c].credit /\ cs[c].points = ls[c].points

LimitsHold(o, count, us, raced_) ==
  /\ Rows(o) /\ count \in [Promos -> Nat] /\ us \in [Promos -> [Buyers -> Nat]] /\ raced_ \in [Promos -> Nat]
  /\ \A p \in Promos :
       /\ count[p] = SumFunctionOnSet(us[p], Buyers)
       /\ o[p].perCustomer # Unlimited => \A c \in Customers : us[p][c] <= o[p].perCustomer
       /\ o[p].maxUses # Unlimited => count[p] <= o[p].maxUses + raced_[p]

AccountsInv ==
  /\ BalancesHold(cust, ledger)
  /\ LimitsHold(offer, usageCount, usages, raced)
  /\ DOMAIN custLock = Customers /\ DOMAIN req = Requests
  /\ \A w \in Requests : RequestTells(w, req[w], cust, custLock, offer, usages)

(* The shop starts with balances of nothing and unused promotions. *)
LEMMA AccountsStart ==
  ASSUME AccountsAssumptions
  PROVE  AccountsInit => AccountsInv
<1> SUFFICES ASSUME AccountsInit PROVE AccountsInv
  OBVIOUS
<1>1. BalancesHold(cust, ledger)
  BY DEF AccountsInit, BalancesHold, Balances
<1>2. IsFiniteSet(Buyers)
  <2>1. IsFiniteSet(Customers)
    BY DEF AccountsAssumptions, CustomersAssumption
  <2> QED BY <2>1, FS_AddElement DEF Buyers
<1>3. Rows(offer)
  BY DEF AccountsInit, Rows, AccountsAssumptions, OffersAssumption
<1>4. \A p \in Promos : /\ offer[p].maxUses # Unlimited => offer[p].maxUses \in Nat
                        /\ offer[p].perCustomer # Unlimited => offer[p].perCustomer \in Nat
  BY <1>3 DEF Rows, IsOffer, OptionalIn
<1>5. LimitsHold(offer, usageCount, usages, raced)
  <2>1. /\ usageCount = [p \in Promos |-> 0] /\ raced = [p \in Promos |-> 0]
        /\ usages = [p \in Promos |-> [c \in Buyers |-> 0]]
    BY DEF AccountsInit, Buyers
  <2>2. PICK z : z = [c \in Buyers |-> 0]
    OBVIOUS
  <2>3. SumFunctionOnSet(z, Buyers) = 0
    BY <1>2, <2>2, SumZero
  <2>4. \A p \in Promos : usages[p] = z /\ usageCount[p] = 0 /\ raced[p] = 0
    BY <2>1, <2>2
  <2>5. \A c \in Customers : z[c] = 0
    BY <2>2 DEF Buyers
  <2>6. usageCount \in [Promos -> Nat] /\ raced \in [Promos -> Nat] /\ usages \in [Promos -> [Buyers -> Nat]]
    BY <2>1
  <2>7. \A p \in Promos :
          /\ usageCount[p] = SumFunctionOnSet(usages[p], Buyers)
          /\ offer[p].perCustomer # Unlimited => \A c \in Customers : usages[p][c] <= offer[p].perCustomer
          /\ offer[p].maxUses # Unlimited => usageCount[p] <= offer[p].maxUses + raced[p]
    BY <1>4, <2>3, <2>4, <2>5
  <2> QED BY <1>3, <2>6, <2>7 DEF LimitsHold
<1>6. ASSUME NEW w \in Requests
      PROVE  RequestTells(w, req[w], cust, custLock, offer, usages)
  BY DEF AccountsInit, Idle, RequestTells, RequestFields, Reads, Priced
<1>7. DOMAIN custLock = Customers /\ DOMAIN req = Requests
  BY DEF AccountsInit
<1> QED BY <1>1, <1>5, <1>6, <1>7 DEF AccountsInv

(* The promotions of a selection are promotions. *)
LEMMA PromosOfParts ==
  ASSUME NEW chosen \in Seq(Parts)
  PROVE  PromosOf(chosen) \subseteq Promos
<1>1. \A i \in DOMAIN chosen : chosen[i] \in Parts
  OBVIOUS
<1>2. \A x \in Parts : x.promo \in Promos
  BY DEF Parts
<1> QED BY <1>1, <1>2 DEF PromosOf

(* What a request may rely on stays when the rows it holds, its promotions'  *)
(* limits and its customer's uses of them stay.                              *)
LEMMA RequestKept ==
  ASSUME NEW w, NEW r, NEW cs, NEW lock, NEW o, NEW us, RequestTells(w, r, cs, lock, o, us),
         NEW ct, NEW kept, NEW ot, NEW ut,
         \A c \in Customers : lock[c] = w => kept[c] = w /\ ct[c] = cs[c],
         \A p \in Promos : ot[p].maxUses = o[p].maxUses /\ ot[p].perCustomer = o[p].perCustomer,
         \A p \in Promos, c \in Customers : lock[c] = w => ut[p][c] = us[p][c],
         \A s \in Sales : s.customer \in Buyers
  PROVE  RequestTells(w, r, ct, kept, ot, ut)
<1>1. ASSUME Reads(r), r.sale.customer # Walkin
      PROVE  r.sale.customer \in Customers /\ lock[r.sale.customer] = w
  BY <1>1 DEF RequestTells, Buyers
<1>2. ASSUME Priced(r)
      PROVE  WithinLimits(r, ot, ut)
  <2>1. r.chosen \in Seq(Parts) /\ Reads(r)
    BY <1>2 DEF RequestTells, Fits, Priced, Reads
  <2>2. PromosOf(r.chosen) \subseteq Promos
    BY <2>1, PromosOfParts
  <2>3. WithinLimits(r, o, us)
    BY <1>2 DEF RequestTells
  <2> QED BY <1>1, <2>1, <2>2, <2>3 DEF WithinLimits
<1> QED BY <1>1, <1>2 DEF RequestTells

(* A request an action leaves alone keeps what it relies on, when the action *)
(* leaves alone what it has locked, and the limits.                          *)
LEMMA OtherRequestKept ==
  ASSUME AccountsAssumptions, AccountsInv, NEW v \in Requests, req'[v] = req[v],
         \A c \in Customers : custLock[c] = v => custLock'[c] = v /\ cust'[c] = cust[c],
         \A p \in Promos : offer'[p].maxUses = offer[p].maxUses /\ offer'[p].perCustomer = offer[p].perCustomer,
         \A p \in Promos, c \in Customers : custLock[c] = v => usages'[p][c] = usages[p][c]
  PROVE  RequestTells(v, req'[v], cust', custLock', offer', usages')
<1>1. PICK ct, kept, ot, ut : ct = cust' /\ kept = custLock' /\ ot = offer' /\ ut = usages'
  OBVIOUS
<1>2. RequestTells(v, req[v], cust, custLock, offer, usages)
  BY DEF AccountsInv
<1>3. \A s \in Sales : s.customer \in Buyers
  BY CartOfSale
<1>4. RequestTells(v, req[v], ct, kept, ot, ut)
  BY <1>1, <1>2, <1>3, RequestKept
<1> QED BY <1>1, <1>4

(* A request that is not under way relies on nothing. *)
LEMMA EndsTell ==
  ASSUME NEW w, NEW r, DOMAIN r = RequestFields, r.sale \in Sales \cup {Nobody}, r.pc \in {"new", "done"},
         NEW cs, NEW lock, NEW o, NEW us
  PROVE  RequestTells(w, r, cs, lock, o, us)
BY DEF RequestTells, Reads, Priced

(* The locks of other requests stay when one lets go of its own. *)
LEMMA LockStays ==
  ASSUME NEW w \in Requests, NEW ends, LetGo(w, ends), AccountsInv
  PROVE  /\ DOMAIN custLock' = Customers /\ DOMAIN req' = Requests /\ req'[w] = ends
         /\ \A v \in Requests \ {w} : /\ req'[v] = req[v]
                                      /\ \A c \in Customers : custLock[c] = v => custLock'[c] = v
<1>1. DOMAIN custLock = Customers /\ DOMAIN req = Requests
  BY DEF AccountsInv
<1>2. custLock' = [k \in Customers |-> IF custLock[k] = w THEN Nobody ELSE custLock[k]]
  BY <1>1 DEF LetGo, Freed
<1>3. req' = [req EXCEPT ![w] = ends]
  BY DEF LetGo
<1> QED BY <1>1, <1>2, <1>3

(* A checkout locks its customer's row, and reads it. *)
LEMMA BeginKeeps ==
  ASSUME AccountsAssumptions, AccountsInv, NEW w \in Requests, Begin(w)
  PROVE  AccountsInv'
<1>0. /\ cust' = cust /\ ledger' = ledger /\ offer' = offer /\ usageCount' = usageCount
      /\ usages' = usages /\ raced' = raced
  BY DEF Begin, custVars, promoVars
<1>1. RequestTells(w, req[w], cust, custLock, offer, usages) /\ DOMAIN custLock = Customers /\ DOMAIN req = Requests
  BY DEF AccountsInv
<1>2. PICK s \in IF req[w].sale = Nobody THEN Sales ELSE {req[w].sale} :
        /\ s.customer # Walkin => custLock[s.customer] = Nobody
        /\ custLock' = [c \in Customers |-> IF c = s.customer THEN w ELSE custLock[c]]
        /\ req' = [req EXCEPT ![w] =
             [@ EXCEPT !.pc = "locked", !.sale = s,
                       !.row = IF s.customer = Walkin THEN Nobody ELSE cust[s.customer]]]
  BY DEF Begin
<1>3. s \in Sales /\ s.customer \in Buyers
  <2>1. s \in Sales
    BY <1>1, <1>2 DEF RequestTells
  <2> QED BY <2>1, CartOfSale
<1>4. PICK row : row = IF s.customer = Walkin THEN Nobody ELSE cust[s.customer]
  OBVIOUS
<1>5. PICK r : r = [req[w] EXCEPT !.pc = "locked", !.sale = s, !.row = row]
  OBVIOUS
<1>6. req' = [req EXCEPT ![w] = r]
  BY <1>2, <1>4, <1>5
<1>7. DOMAIN r = RequestFields /\ r.pc = "locked" /\ r.sale = s /\ r.row = row
  BY <1>1, <1>5 DEF RequestTells, RequestFields
<1>8. RequestTells(w, req'[w], cust', custLock', offer', usages')
  <2>1. req'[w] = r
    BY <1>1, <1>6
  <2>2. s.customer # Walkin => custLock'[s.customer] = w /\ row = cust'[s.customer]
    BY <1>0, <1>2, <1>3, <1>4 DEF Buyers
  <2> QED BY <1>3, <1>7, <2>1, <2>2 DEF RequestTells, Reads, Priced
<1>9. ASSUME NEW v \in Requests \ {w}
      PROVE  RequestTells(v, req'[v], cust', custLock', offer', usages')
  <2>1. req'[v] = req[v]
    BY <1>1, <1>6
  <2>2. ASSUME NEW c \in Customers, custLock[c] = v
        PROVE  custLock'[c] = v
    <3>1. v # Nobody /\ c # Walkin
      BY DEF AccountsAssumptions, CustomersAssumption
    <3>2. c # s.customer
      BY <1>2, <2>2, <3>1
    <3> QED BY <1>2, <2>2, <3>2
  <2> QED BY <1>0, <2>1, <2>2, OtherRequestKept
<1>10. DOMAIN custLock' = Customers /\ DOMAIN req' = Requests
  BY <1>1, <1>2, <1>6
<1>11. BalancesHold(cust, ledger)' /\ LimitsHold(offer, usageCount, usages, raced)'
  BY <1>0 DEF AccountsInv
<1> QED BY <1>8, <1>9, <1>10, <1>11 DEF AccountsInv

(* A checkout that is rolled back lets its locks go. *)
LEMMA RollbackKeeps ==
  ASSUME AccountsAssumptions, AccountsInv, NEW w \in Requests, NEW ends, LetGo(w, ends),
         DOMAIN ends = RequestFields, ends.sale \in Sales \cup {Nobody}, ends.pc \in {"new", "done"},
         UNCHANGED <<cust, ledger, offer, usageCount, usages, raced>>
  PROVE  AccountsInv'
<1>1. RequestTells(w, req'[w], cust', custLock', offer', usages')
  <2>1. req'[w] = ends
    BY LockStays
  <2> QED BY <2>1, EndsTell
<1>2. ASSUME NEW v \in Requests \ {w}
      PROVE  RequestTells(v, req'[v], cust', custLock', offer', usages')
  <2>1. req'[v] = req[v] /\ \A c \in Customers : custLock[c] = v => custLock'[c] = v
    BY LockStays
  <2> QED BY <2>1, OtherRequestKept
<1>3. BalancesHold(cust, ledger)' /\ LimitsHold(offer, usageCount, usages, raced)'
  BY DEF AccountsInv
<1>4. DOMAIN custLock' = Customers /\ DOMAIN req' = Requests
  BY LockStays
<1> QED BY <1>1, <1>2, <1>3, <1>4 DEF AccountsInv

(* A deadlock, or a failure, is such a rollback. *)
LEMMA DeadlockKeeps ==
  ASSUME AccountsAssumptions, AccountsInv, NEW w \in Requests, Deadlock(w) \/ Fail(w)
  PROVE  AccountsInv'
<1>1. UNCHANGED <<cust, ledger, offer, usageCount, usages, raced>>
  BY DEF Deadlock, Fail, custVars, promoVars
<1>2. req[w].sale \in Sales \cup {Nobody}
  BY DEF AccountsInv, RequestTells
<1>3. PICK again : again = [Idle("new") EXCEPT !.sale = req[w].sale, !.attempt = req[w].attempt + 1]
  OBVIOUS
<1>4. /\ DOMAIN again = RequestFields /\ again.sale = req[w].sale /\ again.pc = "new"
      /\ DOMAIN Idle("done") = RequestFields /\ Idle("done").sale = Nobody /\ Idle("done").pc = "done"
  BY <1>3 DEF Idle, RequestFields
<1>5. PICK ends : LetGo(w, ends) /\ ends \in {again, Idle("done")}
  BY <1>3 DEF Deadlock, Fail
<1>6. DOMAIN ends = RequestFields /\ ends.sale \in Sales \cup {Nobody} /\ ends.pc \in {"new", "done"}
  BY <1>2, <1>4, <1>5
<1> QED BY <1>1, <1>5, <1>6, RollbackKeeps

(* A cart is priced against the row its checkout has locked. *)
LEMMA PriceKeeps ==
  ASSUME AccountsAssumptions, AccountsInv, NEW w \in Requests, Price(w)
  PROVE  AccountsInv'
<1>0. /\ cust' = cust /\ ledger' = ledger /\ offer' = offer /\ usageCount' = usageCount
      /\ usages' = usages /\ raced' = raced /\ custLock' = custLock
  BY DEF Price, custVars, promoVars, locks
<1>1. /\ RequestTells(w, req[w], cust, custLock, offer, usages)
      /\ DOMAIN custLock = Customers /\ DOMAIN req = Requests
      /\ cust \in [Customers -> Balances] /\ Rows(offer) /\ usageCount \in [Promos -> Nat]
  BY DEF AccountsInv, BalancesHold, LimitsHold
<1>2. PICK s, row : s = req[w].sale /\ row = req[w].row
  OBVIOUS
<1>3. PICK chosen, left : chosen = Chosen(offer, AppliesTo(s), Cart(s)) /\ left = Cart(s).spend - Taken(chosen)
  OBVIOUS
<1>4. PICK redeemed : redeemed = Redeemed(s.points, left)
  OBVIOUS
<1>5. PICK total : total = left - redeemed.off
  OBVIOUS
<1>6. PICK earned : earned = IF s.customer = Walkin THEN 0 ELSE total \div SpendPerPoint
  OBVIOUS
<1>7. PICK r : r = [req[w] EXCEPT !.pc = "priced", !.chosen = chosen, !.saw = usageCount,
                                  !.points = earned - redeemed.points]
  OBVIOUS
<1>8. req[w].pc = "locked" /\ Payable(s, row, total) /\ req' = [req EXCEPT ![w] = r]
  BY <1>2, <1>3, <1>4, <1>5, <1>6, <1>7 DEF Price
<1>9. /\ s \in Sales
      /\ s.customer # Walkin => custLock[s.customer] = w /\ row = cust[s.customer]
  BY <1>1, <1>2, <1>8 DEF RequestTells, Reads
<1>10. /\ Cart(s).spend \in Nat /\ s.customer \in Buyers
       /\ s.owed \in Nat /\ s.credit \in Nat /\ s.points \in Nat
  BY <1>9, CartOfSale
<1>11. /\ AppliesTo(s) \in SUBSET Promos
       /\ \A p \in AppliesTo(s) :
            /\ offer[p].maxUses # Unlimited => usageCount[p] < offer[p].maxUses
            /\ offer[p].perCustomer # Unlimited /\ s.customer # Walkin
                 => usages[p][s.customer] < offer[p].perCustomer
       /\ chosen \in Seq(Parts) /\ PromosOf(chosen) \subseteq AppliesTo(s)
       /\ Taken(chosen) \in Int /\ Taken(chosen) <= Cart(s).spend
  BY <1>1, <1>3, <1>9, ChosenOfSale DEF SelectionTells
<1>12. left \in Nat
  BY <1>3, <1>10, <1>11
<1>13. redeemed.points \in Int /\ redeemed.points <= s.points /\ redeemed.off \in Int /\ redeemed.off <= left
  BY <1>4, <1>10, <1>12, RedeemedWithin
<1>14. earned \in Nat
  <2>1. total \in Nat
    BY <1>5, <1>12, <1>13
  <2>2. SpendPerPoint \in Nat \ {0}
    BY DEF AccountsAssumptions, PointsAssumption
  <2> QED BY <1>6, <2>1, <2>2, WholeParts
<1>15. /\ DOMAIN r = RequestFields /\ r.pc = "priced" /\ r.sale = s /\ r.row = row
       /\ r.chosen = chosen /\ r.saw = usageCount /\ r.points = earned - redeemed.points
  BY <1>1, <1>2, <1>7 DEF RequestTells, RequestFields
<1>16. Fits(r)
  <2>1. ASSUME s.customer # Walkin
        PROVE  /\ s.credit <= row.credit /\ row.points + r.points >= 0
               /\ s.owed > 0 => row.owed + s.owed <= row.limit
    <3>1. row \in Balances
      BY <1>1, <1>9, <1>10, <2>1 DEF Buyers
    <3>2. row.points \in Nat /\ row.credit \in Nat
      BY <3>1 DEF Balances
    <3>3. s.points <= row.points /\ s.credit <= row.credit /\ (s.owed > 0 => row.owed + s.owed <= row.limit)
      BY <1>8, <2>1 DEF Payable
    <3> QED BY <1>10, <1>13, <1>14, <1>15, <3>2, <3>3
  <2> QED BY <1>1, <1>11, <1>13, <1>14, <1>15, <2>1 DEF Fits
<1>17. WithinLimits(r, offer, usages)
  BY <1>11, <1>15 DEF WithinLimits
<1>18. RequestTells(w, r, cust, custLock, offer, usages)
  BY <1>9, <1>15, <1>16, <1>17 DEF RequestTells
<1>19. ASSUME NEW v \in Requests
       PROVE  RequestTells(v, req'[v], cust', custLock', offer', usages')
  <2>1. req'[w] = r /\ (v # w => req'[v] = req[v])
    BY <1>1, <1>8
  <2>2. CASE v = w
    BY <1>0, <1>18, <2>1, <2>2
  <2>3. CASE v # w
    BY <1>0, <2>1, <2>3, OtherRequestKept
  <2> QED BY <2>2, <2>3
<1>20. DOMAIN req' = Requests
  BY <1>1, <1>8
<1>21. BalancesHold(cust, ledger)' /\ LimitsHold(offer, usageCount, usages, raced)'
  BY <1>0 DEF AccountsInv
<1> QED BY <1>0, <1>1, <1>19, <1>20, <1>21 DEF AccountsInv

(* The locks a checkout takes on a counter and on promotions. *)
LEMMA CountingKeeps ==
  ASSUME AccountsAssumptions, AccountsInv, NEW w \in Requests, TakeNumber(w) \/ CountUp(w)
  PROVE  AccountsInv'
<1>0. /\ cust' = cust /\ ledger' = ledger /\ offer' = offer /\ usageCount' = usageCount
      /\ usages' = usages /\ raced' = raced /\ custLock' = custLock
  BY DEF TakeNumber, CountUp, custVars, promoVars
<1>1. /\ RequestTells(w, req[w], cust, custLock, offer, usages)
      /\ DOMAIN custLock = Customers /\ DOMAIN req = Requests
  BY DEF AccountsInv
<1>2. BalancesHold(cust, ledger)' /\ LimitsHold(offer, usageCount, usages, raced)'
  BY <1>0 DEF AccountsInv
<1>3. CASE TakeNumber(w)
  <2>1. PICK r : r = [req[w] EXCEPT !.pc = "counting"]
    OBVIOUS
  <2>2. req[w].pc = "priced" /\ req' = [req EXCEPT ![w] = r]
    BY <1>3, <2>1 DEF TakeNumber
  <2>3. /\ DOMAIN r = RequestFields /\ r.pc = "counting" /\ r.sale = req[w].sale /\ r.row = req[w].row
        /\ r.chosen = req[w].chosen /\ r.saw = req[w].saw /\ r.points = req[w].points
    BY <1>1, <2>1 DEF RequestTells, RequestFields
  <2>4. RequestTells(w, r, cust, custLock, offer, usages)
    BY <1>1, <2>2, <2>3 DEF RequestTells, Reads, Priced, Fits, WithinLimits
  <2>5. ASSUME NEW v \in Requests
        PROVE  RequestTells(v, req'[v], cust', custLock', offer', usages')
    <3>1. req'[w] = r /\ (v # w => req'[v] = req[v])
      BY <1>1, <2>2
    <3>2. CASE v = w
      BY <1>0, <2>4, <3>1, <3>2
    <3>3. CASE v # w
      BY <1>0, <3>1, <3>3, OtherRequestKept
    <3> QED BY <3>2, <3>3
  <2>6. DOMAIN req' = Requests
    BY <1>1, <2>2
  <2> QED BY <1>0, <1>1, <1>2, <2>5, <2>6 DEF AccountsInv
<1>4. CASE CountUp(w)
  <2>1. req' = req
    BY <1>4 DEF CountUp
  <2> QED BY <1>0, <1>1, <1>2, <2>1 DEF AccountsInv
<1> QED BY <1>3, <1>4

(* A sale that commits: the customer's row and its ledger. *)
LEMMA CommitBalances ==
  ASSUME AccountsAssumptions, AccountsInv, NEW w \in Requests, Commit(w)
  PROVE  /\ BalancesHold(cust', ledger')
         /\ \A d \in Customers : d # req[w].sale.customer => cust'[d] = cust[d]
<1>1. PICK r, c : r = req[w] /\ c = r.sale.customer
  OBVIOUS
<1>2. /\ RequestTells(w, r, cust, custLock, offer, usages)
      /\ cust \in [Customers -> Balances]
      /\ ledger \in [Customers -> [owed : Int, credit : Int, points : Int]]
      /\ \A d \in Customers : cust[d].owed = ledger[d].owed /\ cust[d].credit = ledger[d].credit
                              /\ cust[d].points = ledger[d].points
  BY <1>1 DEF AccountsInv, BalancesHold
<1>3. r.pc = "counting"
  BY <1>1 DEF Commit, CommitAccount
<1>4. CASE c = Walkin
  <2>1. cust' = cust /\ ledger' = ledger
    BY <1>1, <1>4 DEF Commit, CommitAccount, custVars
  <2> QED BY <1>2, <2>1 DEF BalancesHold
<1>5. CASE c # Walkin
  <2>1. /\ r.sale \in Sales /\ c \in Customers /\ r.row = cust[c] /\ Fits(r)
        /\ r.sale.owed \in Nat /\ r.sale.credit \in Nat
    <3>1. r.sale \in Sales /\ r.row = cust[c] /\ Fits(r)
      BY <1>1, <1>2, <1>3, <1>5 DEF RequestTells, Reads, Priced
    <3> QED BY <1>1, <1>5, <3>1, CartOfSale DEF Buyers
  <2>2. r.sale.credit <= cust[c].credit /\ cust[c].points + r.points >= 0 /\ r.points \in Int
    BY <1>1, <1>5, <2>1 DEF Fits
  <2>3. PICK row : row = [Settled(r) EXCEPT !.limit = cust[c].limit]
    OBVIOUS
  <2>4. PICK entry : entry = [owed |-> ledger[c].owed + r.sale.owed, credit |-> ledger[c].credit - r.sale.credit,
                              points |-> ledger[c].points + r.points]
    OBVIOUS
  <2>5. cust' = [cust EXCEPT ![c] = row] /\ ledger' = [ledger EXCEPT ![c] = entry]
    BY <1>1, <1>5, <2>3, <2>4 DEF Commit, CommitAccount
  <2>6. cust[c] \in Balances /\ ledger[c] \in [owed : Int, credit : Int, points : Int]
    BY <1>2, <2>1
  <2>7. row = [limit |-> cust[c].limit, owed |-> cust[c].owed + r.sale.owed,
               credit |-> cust[c].credit - r.sale.credit, points |-> cust[c].points + r.points]
    BY <2>1, <2>3, <2>6 DEF Settled, Balances
  <2>8. row \in Balances /\ entry \in [owed : Int, credit : Int, points : Int]
    BY <2>1, <2>2, <2>4, <2>6, <2>7 DEF Balances
  <2>9. row.owed = entry.owed /\ row.credit = entry.credit /\ row.points = entry.points
    BY <1>2, <2>1, <2>4, <2>7
  <2>10. /\ cust' \in [Customers -> Balances]
         /\ ledger' \in [Customers -> [owed : Int, credit : Int, points : Int]]
    BY <1>2, <2>5, <2>8
  <2>11. ASSUME NEW d \in Customers
         PROVE  /\ cust'[d].owed = ledger'[d].owed /\ cust'[d].credit = ledger'[d].credit
                /\ cust'[d].points = ledger'[d].points
                /\ d # c => cust'[d] = cust[d]
    <3>1. CASE d = c
      <4>1. cust'[d] = row /\ ledger'[d] = entry
        BY <1>2, <2>1, <2>5, <3>1
      <4> QED BY <2>9, <3>1, <4>1
    <3>2. CASE d # c
      BY <1>2, <2>5, <3>2
    <3> QED BY <3>1, <3>2
  <2> QED BY <1>1, <2>10, <2>11 DEF BalancesHold
<1> QED BY <1>4, <1>5

(* ... and the promotions it took. *)
LEMMA CommitLimits ==
  ASSUME AccountsAssumptions, AccountsInv, NEW w \in Requests, Commit(w)
  PROVE  /\ LimitsHold(offer', usageCount', usages', raced') /\ offer' = offer
         /\ \A p \in Promos, d \in Customers : d # req[w].sale.customer => usages'[p][d] = usages[p][d]
<1>1. PICK r, c, taken : r = req[w] /\ c = r.sale.customer /\ taken = PromosOf(r.chosen)
  OBVIOUS
<1>2. /\ RequestTells(w, r, cust, custLock, offer, usages)
      /\ Rows(offer) /\ usageCount \in [Promos -> Nat]
      /\ usages \in [Promos -> [Buyers -> Nat]] /\ raced \in [Promos -> Nat]
      /\ \A p \in Promos :
           /\ usageCount[p] = SumFunctionOnSet(usages[p], Buyers)
           /\ offer[p].perCustomer # Unlimited => \A d \in Customers : usages[p][d] <= offer[p].perCustomer
           /\ offer[p].maxUses # Unlimited => usageCount[p] <= offer[p].maxUses + raced[p]
  BY <1>1 DEF AccountsInv, LimitsHold
<1>3. /\ r.pc = "counting" /\ offer' = offer
      /\ usages' = [p \in Promos |-> IF p \in taken THEN [usages[p] EXCEPT ![c] = @ + 1] ELSE usages[p]]
      /\ raced' = [p \in Promos |-> IF p \in taken /\ usageCount[p] # r.saw[p] THEN raced[p] + 1 ELSE raced[p]]
      /\ usageCount' = [p \in Promos |-> IF p \in taken THEN usageCount[p] + 1 ELSE usageCount[p]]
  BY <1>1 DEF Commit, CommitAccount
<1>4. r.sale \in Sales /\ Fits(r) /\ WithinLimits(r, offer, usages)
  BY <1>2, <1>3 DEF RequestTells, Reads, Priced
<1>5. c \in Buyers /\ r.saw \in [Promos -> Nat]
  BY <1>1, <1>4, CartOfSale DEF Fits
<1>6. IsFiniteSet(Buyers)
  <2>1. IsFiniteSet(Customers)
    BY DEF AccountsAssumptions, CustomersAssumption
  <2> QED BY <2>1, FS_AddElement DEF Buyers
<1>7. /\ usageCount' \in [Promos -> Nat] /\ raced' \in [Promos -> Nat]
      /\ usages' \in [Promos -> [Buyers -> Nat]]
  BY <1>2, <1>3, <1>5
<1>8. ASSUME NEW p \in Promos
      PROVE  /\ usageCount'[p] = SumFunctionOnSet(usages'[p], Buyers)
             /\ offer[p].perCustomer # Unlimited => \A d \in Customers : usages'[p][d] <= offer[p].perCustomer
             /\ offer[p].maxUses # Unlimited => usageCount'[p] <= offer[p].maxUses + raced'[p]
             /\ \A d \in Customers : d # c => usages'[p][d] = usages[p][d]
  <2>1. CASE p \notin taken
    BY <1>2, <1>3, <2>1
  <2>2. CASE p \in taken
    <3>1. PICK old, new : old = usages[p] /\ new = usages'[p]
      OBVIOUS
    <3>2. old \in [Buyers -> Nat] /\ new = [old EXCEPT ![c] = @ + 1]
      BY <1>2, <1>3, <2>2, <3>1
    <3>3. \A d \in Buyers : old[d] \in Int /\ new[d] \in Int
      BY <1>5, <3>2
    <3>4. new[c] = old[c] + 1 /\ \A d \in Buyers \ {c} : old[d] = new[d]
      BY <1>5, <3>2
    <3>5. SumFunctionOnSet(old, Buyers) \in Int /\ SumFunctionOnSet(new, Buyers) = SumFunctionOnSet(old, Buyers) + new[c] - old[c]
      <4>1. c \in Buyers
        BY <1>5
      <4>2. \A d \in Buyers \ {c} : old[d] = new[d]
        BY <3>4
      <4> QED BY <1>6, <3>3, <4>1, <4>2, SumChange
    <3>6. usageCount'[p] = usageCount[p] + 1 /\ usageCount[p] = SumFunctionOnSet(old, Buyers) /\ old[c] \in Nat
      BY <1>2, <1>3, <1>5, <2>2, <3>1, <3>2
    <3>7. usageCount'[p] = SumFunctionOnSet(new, Buyers)
      BY <3>4, <3>5, <3>6
    <3>8. ASSUME offer[p].perCustomer # Unlimited, NEW d \in Customers
          PROVE  new[d] <= offer[p].perCustomer
      <4>1. offer[p].perCustomer \in Nat /\ old[d] <= offer[p].perCustomer /\ old[d] \in Nat
        BY <1>2, <3>1, <3>2, <3>8 DEF Rows, IsOffer, OptionalIn, Buyers
      <4>2. CASE d = c
        <5>1. c # Walkin
          BY <4>2 DEF AccountsAssumptions, CustomersAssumption
        <5>2. old[c] < offer[p].perCustomer
          BY <1>1, <1>4, <2>2, <3>1, <3>8, <5>1 DEF WithinLimits
        <5> QED BY <3>4, <4>1, <4>2, <5>2
      <4>3. CASE d # c
        <5>1. d \in Buyers \ {c}
          BY <4>3 DEF Buyers
        <5> QED BY <3>4, <4>1, <5>1
      <4> QED BY <4>2, <4>3
    <3>9. ASSUME offer[p].maxUses # Unlimited
          PROVE  usageCount'[p] <= offer[p].maxUses + raced'[p]
      <4>1. /\ offer[p].maxUses \in Nat /\ usageCount[p] <= offer[p].maxUses + raced[p]
            /\ usageCount[p] \in Nat /\ raced[p] \in Nat
        BY <1>2, <3>9 DEF Rows, IsOffer, OptionalIn
      <4>2. r.saw[p] < offer[p].maxUses
        BY <1>1, <1>4, <2>2, <3>9 DEF WithinLimits
      <4>3. CASE usageCount[p] = r.saw[p]
        BY <1>3, <2>2, <3>6, <4>1, <4>2, <4>3
      <4>4. CASE usageCount[p] # r.saw[p]
        <5>1. raced'[p] = raced[p] + 1
          BY <1>3, <2>2, <4>4
        <5> QED BY <3>6, <4>1, <5>1
      <4> QED BY <4>3, <4>4
    <3>10. ASSUME NEW d \in Customers, d # c
           PROVE  new[d] = old[d]
      BY <3>4, <3>10 DEF Buyers
    <3> QED BY <3>1, <3>7, <3>8, <3>9, <3>10
  <2> QED BY <2>1, <2>2
<1> QED BY <1>1, <1>2, <1>3, <1>7, <1>8 DEF LimitsHold

(* A sale that commits lets go of its locks, and what others rely on stays. *)
LEMMA CommitKeeps ==
  ASSUME AccountsAssumptions, AccountsInv, NEW w \in Requests, Commit(w)
  PROVE  AccountsInv'
<1>1. PICK ends : LetGo(w, ends) /\ ends = Idle("done")
  BY DEF Commit, CommitAccount
<1>2. RequestTells(w, req'[w], cust', custLock', offer', usages')
  <2>1. DOMAIN ends = RequestFields /\ ends.sale = Nobody /\ ends.pc = "done"
    BY <1>1 DEF Idle, RequestFields
  <2>2. req'[w] = ends
    BY <1>1, LockStays
  <2> QED BY <2>1, <2>2, EndsTell
<1>3. PICK c : c = req[w].sale.customer
  OBVIOUS
<1>4. /\ BalancesHold(cust', ledger') /\ \A d \in Customers : d # c => cust'[d] = cust[d]
      /\ LimitsHold(offer', usageCount', usages', raced') /\ offer' = offer
      /\ \A p \in Promos, d \in Customers : d # c => usages'[p][d] = usages[p][d]
  BY <1>3, CommitBalances, CommitLimits
<1>5. c \in Customers => custLock[c] = w
  <2>1. RequestTells(w, req[w], cust, custLock, offer, usages) /\ Reads(req[w])
    BY DEF AccountsInv, Commit, CommitAccount, Reads
  <2>2. c \in Customers => c # Walkin
    BY DEF AccountsAssumptions, CustomersAssumption
  <2> QED BY <1>3, <2>1, <2>2 DEF RequestTells
<1>6. ASSUME NEW v \in Requests \ {w}
      PROVE  RequestTells(v, req'[v], cust', custLock', offer', usages')
  <2>1. req'[v] = req[v] /\ \A d \in Customers : custLock[d] = v => custLock'[d] = v /\ d # c
    BY <1>1, <1>5, LockStays
  <2> QED BY <1>4, <2>1, OtherRequestKept
<1>7. DOMAIN custLock' = Customers /\ DOMAIN req' = Requests
  BY <1>1, LockStays
<1> QED BY <1>2, <1>4, <1>6, <1>7 DEF AccountsInv

(* The back office: a customer whose row no checkout has locked. *)
LEMMA RowChangeKeeps ==
  ASSUME AccountsAssumptions, AccountsInv, NEW c \in Customers, custLock[c] = Nobody,
         NEW row \in Balances, NEW entry \in [owed : Int, credit : Int, points : Int],
         row.owed = entry.owed, row.credit = entry.credit, row.points = entry.points,
         cust' = [cust EXCEPT ![c] = row], ledger' = [ledger EXCEPT ![c] = entry],
         UNCHANGED <<offer, usageCount, usages, raced, custLock, req>>
  PROVE  AccountsInv'
<1>1. /\ cust \in [Customers -> Balances] /\ ledger \in [Customers -> [owed : Int, credit : Int, points : Int]]
      /\ \A d \in Customers : cust[d].owed = ledger[d].owed /\ cust[d].credit = ledger[d].credit
                              /\ cust[d].points = ledger[d].points
  BY DEF AccountsInv, BalancesHold
<1>2. BalancesHold(cust', ledger')
  <2>1. cust' \in [Customers -> Balances] /\ ledger' \in [Customers -> [owed : Int, credit : Int, points : Int]]
    BY <1>1
  <2>2. ASSUME NEW d \in Customers
        PROVE  /\ cust'[d].owed = ledger'[d].owed /\ cust'[d].credit = ledger'[d].credit
               /\ cust'[d].points = ledger'[d].points
    <3>1. CASE d = c
      <4>1. cust'[d] = row /\ ledger'[d] = entry
        BY <1>1, <3>1
      <4> QED BY <4>1
    <3>2. CASE d # c
      BY <1>1, <3>2
    <3> QED BY <3>1, <3>2
  <2> QED BY <2>1, <2>2 DEF BalancesHold
<1>3. ASSUME NEW v \in Requests
      PROVE  RequestTells(v, req'[v], cust', custLock', offer', usages')
  <2>1. v # Nobody
    BY DEF AccountsAssumptions, CustomersAssumption
  <2>2. \A d \in Customers : custLock[d] = v => custLock'[d] = v /\ cust'[d] = cust[d]
    BY <1>1, <2>1
  <2> QED BY <2>2, OtherRequestKept
<1>4. LimitsHold(offer, usageCount, usages, raced)' /\ DOMAIN custLock' = Customers /\ DOMAIN req' = Requests
  BY DEF AccountsInv
<1> QED BY <1>2, <1>3, <1>4 DEF AccountsInv

(* A repayment, and an adjustment of store credit, change the row with its ledger. *)
LEMMA RepayKeeps ==
  ASSUME AccountsAssumptions, AccountsInv, NEW c \in Customers, NEW a \in Int,
         Repay(c, a) \/ AdjustStoreCredit(c, a)
  PROVE  AccountsInv'
<1>1. /\ cust \in [Customers -> Balances] /\ ledger \in [Customers -> [owed : Int, credit : Int, points : Int]]
      /\ cust[c].owed = ledger[c].owed /\ cust[c].credit = ledger[c].credit /\ cust[c].points = ledger[c].points
  BY DEF AccountsInv, BalancesHold
<1>2. cust[c] \in Balances /\ ledger[c] \in [owed : Int, credit : Int, points : Int]
  BY <1>1
<1>3. custLock[c] = Nobody /\ UNCHANGED <<offer, usageCount, usages, raced, custLock, req>>
  BY DEF Repay, AdjustStoreCredit, Unlocked, promoVars, locks
<1>4. CASE Repay(c, a)
  <2>1. PICK row, entry : /\ row = [cust[c] EXCEPT !.owed = cust[c].owed - a]
                          /\ entry = [ledger[c] EXCEPT !.owed = ledger[c].owed - a]
    OBVIOUS
  <2>2. cust' = [cust EXCEPT ![c] = row] /\ ledger' = [ledger EXCEPT ![c] = entry]
    BY <1>1, <1>4, <2>1 DEF Repay
  <2>3. row \in Balances /\ entry \in [owed : Int, credit : Int, points : Int]
    BY <1>2, <2>1 DEF Balances
  <2>4. row.owed = entry.owed /\ row.credit = entry.credit /\ row.points = entry.points
    BY <1>1, <1>2, <2>1 DEF Balances
  <2> QED BY <1>3, <2>2, <2>3, <2>4, RowChangeKeeps
<1>5. CASE AdjustStoreCredit(c, a)
  <2>1. PICK row, entry : /\ row = [cust[c] EXCEPT !.credit = cust[c].credit + a]
                          /\ entry = [ledger[c] EXCEPT !.credit = ledger[c].credit + a]
    OBVIOUS
  <2>2. cust' = [cust EXCEPT ![c] = row] /\ ledger' = [ledger EXCEPT ![c] = entry] /\ cust[c].credit + a >= 0
    BY <1>1, <1>5, <2>1 DEF AdjustStoreCredit
  <2>3. row \in Balances /\ entry \in [owed : Int, credit : Int, points : Int]
    BY <1>2, <2>1, <2>2 DEF Balances
  <2>4. row.owed = entry.owed /\ row.credit = entry.credit /\ row.points = entry.points
    BY <1>1, <1>2, <2>1 DEF Balances
  <2> QED BY <1>3, <2>2, <2>3, <2>4, RowChangeKeeps
<1> QED BY <1>4, <1>5

(* A new credit limit changes the row alone. *)
LEMMA LimitKeeps ==
  ASSUME AccountsAssumptions, AccountsInv, NEW c \in Customers, NEW l \in CreditLimits, SetCreditLimit(c, l)
  PROVE  AccountsInv'
<1>1. /\ cust \in [Customers -> Balances] /\ ledger \in [Customers -> [owed : Int, credit : Int, points : Int]]
      /\ cust[c].owed = ledger[c].owed /\ cust[c].credit = ledger[c].credit /\ cust[c].points = ledger[c].points
  BY DEF AccountsInv, BalancesHold
<1>2. cust[c] \in Balances /\ ledger[c] \in [owed : Int, credit : Int, points : Int] /\ l \in Int
  BY <1>1 DEF AccountsAssumptions, AmountsAssumption
<1>3. custLock[c] = Nobody /\ UNCHANGED <<offer, usageCount, usages, raced, custLock, req>>
  BY DEF SetCreditLimit, Unlocked, promoVars, locks
<1>4. PICK row, entry : row = [cust[c] EXCEPT !.limit = l] /\ entry = ledger[c]
  OBVIOUS
<1>5. cust' = [cust EXCEPT ![c] = row] /\ ledger' = [ledger EXCEPT ![c] = entry]
  BY <1>1, <1>4 DEF SetCreditLimit
<1>6. row \in Balances /\ entry \in [owed : Int, credit : Int, points : Int]
  BY <1>2, <1>4 DEF Balances
<1>7. row.owed = entry.owed /\ row.credit = entry.credit /\ row.points = entry.points
  BY <1>1, <1>2, <1>4 DEF Balances
<1> QED BY <1>3, <1>5, <1>6, <1>7, RowChangeKeeps

(* A promotion that is switched keeps its limits. *)
LEMMA SwitchKeeps ==
  ASSUME AccountsAssumptions, AccountsInv, NEW p \in Promos, UpdatePromotion(p)
  PROVE  AccountsInv'
<1>1. UNCHANGED <<cust, ledger, usageCount, usages, raced, custLock, req>>
  BY DEF UpdatePromotion, custVars, locks
<1>2. PICK row : row = [offer[p] EXCEPT !.isActive = ~offer[p].isActive]
  OBVIOUS
<1>3. offer' = [offer EXCEPT ![p] = row]
  BY <1>2 DEF UpdatePromotion
<1>4. Rows(offer) /\ IsOffer(offer[p])
  BY DEF AccountsInv, LimitsHold, Rows
<1>5. DOMAIN row = DOMAIN offer[p]
  BY <1>2
<1>6. IsOffer(row) /\ row.maxUses = offer[p].maxUses /\ row.perCustomer = offer[p].perCustomer
  <2>1. /\ row.type = offer[p].type /\ row.items = offer[p].items /\ row.value = offer[p].value
        /\ row.minSpend = offer[p].minSpend /\ row.priority = offer[p].priority
        /\ row.stackable = offer[p].stackable /\ row.maxUses = offer[p].maxUses
        /\ row.perCustomer = offer[p].perCustomer
    BY <1>2
  <2>2. row.isActive \in BOOLEAN
    BY <1>2, <1>4 DEF IsOffer
  <2> QED BY <1>4, <1>5, <2>1, <2>2 DEF IsOffer
<1>7. /\ Rows(offer')
      /\ \A q \in Promos : offer'[q].maxUses = offer[q].maxUses /\ offer'[q].perCustomer = offer[q].perCustomer
  BY <1>3, <1>4, <1>6 DEF Rows
<1>8. LimitsHold(offer', usageCount', usages', raced')
  BY <1>1, <1>7 DEF AccountsInv, LimitsHold
<1>9. ASSUME NEW v \in Requests
      PROVE  RequestTells(v, req'[v], cust', custLock', offer', usages')
  BY <1>1, <1>7, OtherRequestKept
<1>10. BalancesHold(cust, ledger)' /\ DOMAIN custLock' = Customers /\ DOMAIN req' = Requests
  BY <1>1 DEF AccountsInv
<1> QED BY <1>8, <1>9, <1>10 DEF AccountsInv

(* Every step keeps the invariant. *)
LEMMA AccountsStep ==
  ASSUME AccountsAssumptions
  PROVE  AccountsInv /\ [AccountsNext]_accountsVars => AccountsInv'
<1> SUFFICES ASSUME AccountsInv, [AccountsNext]_accountsVars PROVE AccountsInv'
  OBVIOUS
<1>1. CASE Checkouts
  <2>1. PICK w \in Requests : \/ Begin(w) \/ Price(w) \/ TakeNumber(w) \/ CountUp(w)
                              \/ Commit(w) \/ Deadlock(w) \/ Fail(w)
    BY <1>1 DEF Checkouts
  <2> QED BY <2>1, BeginKeeps, PriceKeeps, CountingKeeps, CommitKeeps, DeadlockKeeps
<1>2. ASSUME NEW c \in Customers, NEW a \in Amounts,
             Repay(c, a) \/ AdjustStoreCredit(c, a) \/ AdjustStoreCredit(c, -a)
      PROVE  AccountsInv'
  <2>1. a \in Int /\ -a \in Int
    BY DEF AccountsAssumptions, AmountsAssumption
  <2> QED BY <1>2, <2>1, RepayKeeps
<1>3. ASSUME NEW c \in Customers, NEW l \in CreditLimits, SetCreditLimit(c, l)
      PROVE  AccountsInv'
  BY <1>3, LimitKeeps
<1>4. ASSUME UNCHANGED <<cust, ledger, offer, usageCount, usages, raced, custLock, req>>
      PROVE  AccountsInv'
  BY <1>4 DEF AccountsInv
<1>5. ASSUME NEW c \in Customers, NEW a \in Charges, VoidSale(c, a)
      PROVE  AccountsInv'
  <2>1. UNCHANGED <<cust, ledger, offer, usageCount, usages, raced, custLock, req>>
    BY <1>5 DEF VoidSale, promoVars, locks
  <2> QED BY <1>4, <2>1
<1>6. ASSUME NEW p \in Promos, UpdatePromotion(p)
      PROVE  AccountsInv'
  BY <1>6, SwitchKeeps
<1>7. CASE UNCHANGED accountsVars
  BY <1>4, <1>7 DEF accountsVars
<1>8. CASE Office
  BY <1>2, <1>3, <1>5, <1>6, <1>8 DEF Office
<1> QED BY <1>1, <1>7, <1>8 DEF AccountsNext

(* Every reachable state satisfies it. *)
LEMMA AccountsHold == AccountsSpec => []AccountsInv
<1>1. AccountsInit => AccountsInv
  BY AccountsStart, AccountsAssumed
<1>2. AccountsInv /\ [AccountsNext]_accountsVars => AccountsInv'
  BY AccountsStep, AccountsAssumed
<1> QED BY <1>1, <1>2, PTL DEF AccountsSpec

(* BalancesExplained of Accounts: what a customer owes, and has in store     *)
(* credit and points, is what the ledger adds up to, and neither credit nor  *)
(* points are overdrawn.                                                     *)
THEOREM BalancesAreExplained == AccountsSpec => []BalancesExplained
<1>1. AccountsInv => BalancesExplained
  <2> SUFFICES ASSUME AccountsInv, NEW c \in Customers
               PROVE  /\ \A b \in {"owed", "credit", "points"} : cust[c][b] = ledger[c][b]
                      /\ cust[c].credit >= 0 /\ cust[c].points >= 0
    BY DEF BalancesExplained
  <2>1. cust[c] \in Balances
    BY DEF AccountsInv, BalancesHold
  <2>2. cust[c].credit \in Nat /\ cust[c].points \in Nat
    BY <2>1 DEF Balances
  <2>3. cust[c].owed = ledger[c].owed /\ cust[c].credit = ledger[c].credit /\ cust[c].points = ledger[c].points
    BY DEF AccountsInv, BalancesHold
  <2> QED BY <2>2, <2>3
<1> QED BY <1>1, AccountsHold, PTL

(* PromotionLimits of Accounts: usageCount counts the usage rows, no         *)
(* customer uses a promotion more often than allowed, and maxUses is         *)
(* exceeded by no more than the sales that counted on a stale usageCount.    *)
THEOREM PromotionsWithinLimits == AccountsSpec => []PromotionLimits
<1>1. AccountsInv => PromotionLimits
  <2> SUFFICES ASSUME AccountsInv, NEW p \in Promos
               PROVE  /\ usageCount[p] = FoldFunction(+, 0, usages[p])
                      /\ offer[p].perCustomer # Unlimited
                           => \A c \in Customers : usages[p][c] <= offer[p].perCustomer
                      /\ offer[p].maxUses # Unlimited => usageCount[p] <= offer[p].maxUses + raced[p]
    BY DEF PromotionLimits
  <2>1. /\ usages \in [Promos -> [Buyers -> Nat]] /\ usageCount[p] = SumFunctionOnSet(usages[p], Buyers)
        /\ offer[p].perCustomer # Unlimited => \A c \in Customers : usages[p][c] <= offer[p].perCustomer
        /\ offer[p].maxUses # Unlimited => usageCount[p] <= offer[p].maxUses + raced[p]
    BY DEF AccountsInv, LimitsHold
  <2>2. DOMAIN usages[p] = Buyers
    BY <2>1
  <2>3. PICK u : u = usages[p]
    OBVIOUS
  <2>4. FoldFunction(+, 0, u) = SumFunctionOnSet(u, DOMAIN u)
    BY DEF FoldFunction, SumFunctionOnSet
  <2> QED BY <2>1, <2>2, <2>3, <2>4
<1> QED BY <1>1, AccountsHold, PTL

(* What a customer owes grows only by a sale, up to the limit. *)
LEMMA ChargedWithinLimit ==
  ASSUME AccountsAssumptions, AccountsInv, [AccountsNext]_accountsVars, NEW c \in Customers, cust'[c].owed > cust[c].owed
  PROVE  cust'[c].owed <= cust[c].limit
<1>1. cust \in [Customers -> Balances] /\ cust[c] \in Balances /\ cust[c].owed \in Int
  BY DEF AccountsInv, BalancesHold, Balances
<1>2. cust' # cust
  BY <1>1
<1>3. ASSUME NEW d \in Customers, NEW a \in Amounts, Repay(d, a)
      PROVE  FALSE
  <2>1. cust' = [cust EXCEPT ![d].owed = cust[d].owed - a] /\ a \in Nat /\ a > 0
    BY <1>1, <1>3 DEF Repay, AccountsAssumptions, AmountsAssumption
  <2>2. cust'[c].owed = IF c = d THEN cust[c].owed - a ELSE cust[c].owed
    BY <1>1, <2>1 DEF Balances
  <2> QED BY <1>1, <2>1, <2>2
<1>4. ASSUME NEW d \in Customers, NEW a, AdjustStoreCredit(d, a)
      PROVE  FALSE
  <2>1. cust' = [cust EXCEPT ![d].credit = cust[d].credit + a]
    BY <1>1, <1>4 DEF AdjustStoreCredit
  <2>2. cust'[c].owed = cust[c].owed
    BY <1>1, <2>1 DEF Balances
  <2> QED BY <1>1, <2>2
<1>5. ASSUME NEW d \in Customers, NEW l, SetCreditLimit(d, l)
      PROVE  FALSE
  <2>1. cust' = [cust EXCEPT ![d].limit = l]
    BY <1>1, <1>5 DEF SetCreditLimit
  <2>2. cust'[c].owed = cust[c].owed
    BY <1>1, <2>1 DEF Balances
  <2> QED BY <1>1, <2>2
<1>6. ~Office
  BY <1>2, <1>3, <1>4, <1>5 DEF Office, VoidSale, UpdatePromotion, custVars
<1>7. Checkouts
  BY <1>2, <1>6 DEF AccountsNext, accountsVars
<1>8. PICK w \in Requests : Commit(w)
  BY <1>2, <1>7 DEF Checkouts, Begin, Price, TakeNumber, CountUp, Deadlock, Fail, custVars
<1>9. PICK r : r = req[w]
  OBVIOUS
<1>10. c = r.sale.customer /\ c # Walkin
  <2>1. c # Walkin
    BY DEF AccountsAssumptions, CustomersAssumption
  <2>2. cust'[c] # cust[c]
    BY <1>1
  <2> QED BY <1>8, <1>9, <2>1, <2>2, CommitBalances
<1>11. RequestTells(w, r, cust, custLock, offer, usages) /\ r.pc = "counting"
  BY <1>8, <1>9 DEF AccountsInv, Commit, CommitAccount
<1>12. r.sale \in Sales /\ r.row = cust[c] /\ Fits(r)
  BY <1>10, <1>11 DEF RequestTells, Reads, Priced
<1>13. r.sale.owed \in Nat /\ (r.sale.owed > 0 => cust[c].owed + r.sale.owed <= cust[c].limit)
  BY <1>10, <1>12, CartOfSale DEF Fits
<1>14. cust'[c].owed = cust[c].owed + r.sale.owed
  <2>1. PICK row : row = [Settled(r) EXCEPT !.limit = cust[c].limit]
    OBVIOUS
  <2>2. cust' = [cust EXCEPT ![c] = row]
    BY <1>8, <1>9, <1>10, <2>1 DEF Commit, CommitAccount
  <2>3. row.owed = cust[c].owed + r.sale.owed
    BY <1>1, <1>12, <2>1 DEF Settled, Balances
  <2> QED BY <1>1, <2>2, <2>3
<1>15. r.sale.owed > 0
  BY <1>1, <1>13, <1>14
<1> QED BY <1>13, <1>14, <1>15

(* CreditWithinLimit of Accounts: a sale that raises what a customer owes    *)
(* leaves it within the limit at that moment.                                *)
THEOREM CreditStaysWithinLimit == AccountsSpec => CreditWithinLimit
<1>1. AccountsInv /\ [AccountsNext]_accountsVars
        => [\A c \in Customers : cust'[c].owed > cust[c].owed => cust'[c].owed <= cust[c].limit]_accountsVars
  BY ChargedWithinLimit, AccountsAssumed
<1> QED BY <1>1, AccountsHold, PTL DEF AccountsSpec, CreditWithinLimit

(* A cart is priced by a selection that is sound. *)
LEMMA PricedSoundly ==
  ASSUME AccountsAssumptions, AccountsInv, [AccountsNext]_accountsVars, NEW w \in Requests,
         req[w].pc = "locked", req'[w].pc = "priced"
  PROVE  LET b == Cart(req[w].sale)
             applies == AppliesTo(req[w].sale)
             chosen == req'[w].chosen
             taken == PromosOf(chosen)
         IN  /\ taken \subseteq applies
             /\ Taken(chosen) <= b.spend
             /\ \A p \in taken : offer[p].stackable \/ taken = {p}
             /\ b.coupon # NoCode /\ b.spend > 0
                  => \E p \in taken : offer[p].code = b.coupon
             /\ \A p \in applies \ taken :
                  \/ Taken(chosen) = b.spend
                  \/ \E q \in taken : /\ Precedes(offer, b, q, p)
                                      /\ ~(offer[q].stackable /\ offer[p].stackable)
<1>1. req' # req /\ DOMAIN req = Requests
  BY DEF AccountsInv
<1>2. Price(w)
  <2>1. ~Office
    BY <1>1 DEF Office, Repay, AdjustStoreCredit, SetCreditLimit, VoidSale, UpdatePromotion
  <2>2. PICK v \in Requests : \/ Begin(v) \/ Price(v) \/ TakeNumber(v) \/ CountUp(v)
                              \/ Commit(v) \/ Deadlock(v) \/ Fail(v)
    BY <1>1, <2>1 DEF AccountsNext, accountsVars, Checkouts
  <2>3. PICK ends : req' = [req EXCEPT ![v] = ends] /\ (Price(v) \/ ends.pc # "priced")
    <3>1. CASE Begin(v)
      <4>1. PICK s : req' = [req EXCEPT ![v] =
                        [@ EXCEPT !.pc = "locked", !.sale = s,
                                  !.row = IF s.customer = Walkin THEN Nobody ELSE cust[s.customer]]]
        BY <3>1 DEF Begin
      <4>2. DOMAIN req[v] = RequestFields
        BY DEF AccountsInv, RequestTells
      <4>3. PICK row : row = IF s.customer = Walkin THEN Nobody ELSE cust[s.customer]
        OBVIOUS
      <4>4. PICK r : r = [req[v] EXCEPT !.pc = "locked", !.sale = s, !.row = row]
        OBVIOUS
      <4>5. req' = [req EXCEPT ![v] = r] /\ r.pc = "locked"
        BY <4>1, <4>2, <4>3, <4>4 DEF RequestFields
      <4> QED BY <4>5
    <3>2. CASE Price(v)
      <4>1. PICK ends : req' = [req EXCEPT ![v] = ends]
        BY <3>2 DEF Price
      <4> QED BY <3>2, <4>1
    <3>3. CASE TakeNumber(v)
      <4>1. DOMAIN req[v] = RequestFields
        BY DEF AccountsInv, RequestTells
      <4>2. PICK r : r = [req[v] EXCEPT !.pc = "counting"]
        OBVIOUS
      <4>3. req' = [req EXCEPT ![v] = r] /\ r.pc = "counting"
        BY <3>3, <4>1, <4>2 DEF TakeNumber, RequestFields
      <4> QED BY <4>3
    <3>4. CASE CountUp(v)
      BY <1>1, <3>4 DEF CountUp
    <3>5. CASE Commit(v) \/ Deadlock(v) \/ Fail(v)
      <4>1. PICK again : again = [Idle("new") EXCEPT !.sale = req[v].sale, !.attempt = req[v].attempt + 1]
        OBVIOUS
      <4>2. again.pc = "new" /\ Idle("done").pc = "done"
        BY <4>1 DEF Idle
      <4>3. PICK ends : LetGo(v, ends) /\ ends \in {again, Idle("done")}
        BY <3>5, <4>1 DEF Deadlock, Fail, Commit, CommitAccount
      <4> QED BY <4>2, <4>3 DEF LetGo
    <3> QED BY <2>2, <3>1, <3>2, <3>3, <3>4, <3>5
  <2>4. v = w /\ req'[w] = ends
    BY <1>1, <2>3
  <2> QED BY <2>3, <2>4
<1>3. PICK s, b, S, chosen : /\ s = req[w].sale /\ b = Cart(s) /\ S = AppliesTo(s)
                             /\ chosen = Chosen(offer, S, b)
  OBVIOUS
<1>4. DOMAIN req[w] = RequestFields /\ s \in Sales /\ Rows(offer)
  BY <1>3 DEF AccountsInv, RequestTells, Reads, LimitsHold
<1>5. req'[w].chosen = chosen /\ CouponAccepted(offer, S, b)
  <2>1. PICK points : req' = [req EXCEPT ![w] = [@ EXCEPT !.pc = "priced", !.chosen = chosen,
                                                          !.saw = usageCount, !.points = points]]
    BY <1>2, <1>3 DEF Price
  <2>2. CouponAccepted(offer, S, b)
    BY <1>2, <1>3 DEF Price
  <2> QED BY <1>1, <1>4, <2>1, <2>2 DEF RequestFields
<1>6. S \in SUBSET Promos /\ SelectionTells(offer, S, b, chosen)
  BY <1>3, <1>4, ChosenOfSale
<1>7. PICK taken : taken = PromosOf(chosen)
  OBVIOUS
<1>8. ASSUME NEW p \in taken
      PROVE  offer[p].stackable \/ taken = {p}
  BY <1>6, <1>7 DEF SelectionTells, Combine
<1>9. ASSUME b.coupon # NoCode, b.spend > 0
      PROVE  \E p \in taken : offer[p].code = b.coupon
  <2>1. \E p \in S : offer[p].code = b.coupon
    BY <1>5, <1>9 DEF CouponAccepted
  <2> QED BY <1>6, <1>7, <1>9, <2>1 DEF SelectionTells
<1>10. ASSUME NEW p \in S \ taken
       PROVE  \/ Taken(chosen) = b.spend
              \/ \E q \in taken : /\ Precedes(offer, b, q, p)
                                  /\ ~(offer[q].stackable /\ offer[p].stackable)
  BY <1>6, <1>7, <1>10 DEF SelectionTells, Combine
<1>11. taken \subseteq S /\ Taken(chosen) <= b.spend
  BY <1>6, <1>7 DEF SelectionTells
<1> QED BY <1>3, <1>5, <1>7, <1>8, <1>9, <1>10, <1>11

(* SelectionSound of Accounts: what a checkout takes of the promotions that  *)
(* apply is what the comment of the selection says.                          *)
THEOREM SelectionIsSound == AccountsSpec => SelectionSound
<1>1. AccountsInv /\ [AccountsNext]_accountsVars =>
        [ \A w \in Requests : (req[w].pc = "locked" /\ req'[w].pc = "priced") =>
            LET b == Cart(req[w].sale)
                applies == AppliesTo(req[w].sale)
                chosen == req'[w].chosen
                taken == PromosOf(chosen)
            IN  /\ taken \subseteq applies
                /\ Taken(chosen) <= b.spend
                /\ \A p \in taken : offer[p].stackable \/ taken = {p}
                /\ b.coupon # NoCode /\ b.spend > 0
                     => \E p \in taken : offer[p].code = b.coupon
                /\ \A p \in applies \ taken :
                     \/ Taken(chosen) = b.spend
                     \/ \E q \in taken : /\ Precedes(offer, b, q, p)
                                         /\ ~(offer[q].stackable /\ offer[p].stackable) ]_accountsVars
  BY PricedSoundly, AccountsAssumed
<1> QED BY <1>1, AccountsHold, PTL DEF AccountsSpec, SelectionSound
=============================================================================
