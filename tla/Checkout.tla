------------------------------ MODULE Checkout ------------------------------
(* Checkout as clients see it: calls that may repeat an earlier one, with    *)
(* the same Idempotency-Key or after an offline client lost the answer.      *)
(* A call runs up to MaxAttempts transactions; each locks the inventory rows *)
(* of the cart, looks for the key and the clientSaleId, takes the next sale  *)
(* number and commits the sale with its key. Prices, stock and payments are  *)
(* abstracted to "refused at any step".                                      *)
EXTENDS Integers, FiniteSets, FiniteSetsExt

CONSTANTS Calls,         \* HTTP calls, each made once; a sale is named by the call that made it
          Keys,          \* Idempotency-Keys
          Carts,         \* request payloads, equal exactly when hashRequest is
          None,          \* no call, no clientSaleId
          NoRow,         \* a DocumentCounter row that does not exist
          Products,
          ClientIds,     \* clientSaleIds
          Scopes,        \* numbering scopes: Online and one per register
          Online,
          MaxAttempts,   \* MAX_CHECKOUT_ATTEMPTS
          MaxDay,        \* bound on business days
          OldNumbers     \* numbers issued on the first day before there were counters

(* registerCode and clientSaleId are part of the hash; an empty cart is     *)
(* refused before anything else happens (sales.service.ts:441).             *)
ASSUME CartsAssumption ==
  \A k \in Carts : /\ k.items \in (SUBSET Products) \ {{}}
                   /\ k.client \in ClientIds \cup {None}
                   /\ k.scope \in Scopes
ASSUME NoRowAssumption == NoRow \notin Nat
ASSUME OnlineAssumption == Online \in Scopes
ASSUME NumbersAssumption == MaxAttempts \in Nat \ {0} /\ MaxDay \in Nat \ {0} /\ OldNumbers \in Nat

Days == 1..MaxDay

Counters == Scopes \X Days         \* DocumentCounter(scope, date)

ASSUME NoneAssumption == None \notin Calls \cup Keys \cup Carts \cup ClientIds \cup Counters

VARIABLES day,           \* the business date
          counter,       \* DocumentCounter.value, committed
          number,        \* number of the sale a call has made; NoNumber while it has made none
          boundTo,       \* IdempotencyKey row: the call whose hash and sale it holds
          rowOwner,      \* holder of each inventory row lock
          counterOwner,  \* holder of each counter row lock
          pc, key, cart, attempt, drawn, answer   \* of each call

calling == <<pc, key, cart, attempt, drawn, answer>>
vars == <<day, counter, number, boundTo, rowOwner, counterOwner, pc, key, cart, attempt, drawn, answer>>

InTransaction == {"locked", "keyed", "checked", "numbered"}

(* SALE-<day>-<n> or SALE-<day>-<register>-<n>. *)
SaleNumbers == [counter : Counters, n : Nat \ {0}]

NoNumber == [counter |-> None, n |-> 0]

Sold(c) == number[c] # NoNumber

Replied(c) == answer[c].kind \in {"sold", "replayed"}

TypeOK ==
  /\ day \in Days
  /\ counter \in [Counters -> Nat \cup {NoRow}]
  /\ number \in [Calls -> SaleNumbers \cup {NoNumber}]
  /\ boundTo \in [Keys -> Calls \cup {None}]
  /\ rowOwner \in [Products -> Calls \cup {None}]
  /\ counterOwner \in [Counters -> Calls \cup {None}]
  /\ pc \in [Calls -> {"new", "sent", "ready", "done"} \cup InTransaction]
  /\ key \in [Calls -> Keys \cup {None}]
  /\ cart \in [Calls -> Carts \cup {None}]
  /\ attempt \in [Calls -> 0..MaxAttempts]
  /\ drawn \in [Calls -> SaleNumbers \cup {NoNumber}]
  /\ answer \in [Calls -> [kind : {"none", "sold", "replayed", "keyConflict", "clientConflict",
                                   "clash", "busy", "refused"}, sale : Calls \cup {None}]]

Init == /\ day = 1
        /\ counter = [s \in Counters |-> NoRow]
        /\ number = [c \in Calls |-> NoNumber]
        /\ boundTo = [k \in Keys |-> None]
        /\ rowOwner = [p \in Products |-> None]
        /\ counterOwner = [s \in Counters |-> None]
        /\ pc = [c \in Calls |-> "new"]
        /\ key = [c \in Calls |-> None]
        /\ cart = [c \in Calls |-> None]
        /\ attempt = [c \in Calls |-> 0]
        /\ drawn = [c \in Calls |-> NoNumber]
        /\ answer = [c \in Calls |-> [kind |-> "none", sale |-> None]]


-----------------------------------------------------------------------------
(* Before the first transaction. *)

Send(c) == /\ pc[c] = "new"
           /\ \E k \in Keys, b \in Carts : /\ key' = [key EXCEPT ![c] = k]
                                           /\ cart' = [cart EXCEPT ![c] = b]
           /\ pc' = [pc EXCEPT ![c] = "sent"]
           /\ UNCHANGED <<day, counter, number, boundTo, rowOwner, counterOwner,
                          attempt, drawn, answer>>

(* Numbers the first day's sales got from the scheme before the counters. *)
Old(s) == IF s = <<Online, 1>> THEN OldNumbers ELSE 0

Issued(s) == (1..Old(s)) \cup { number[c].n : c \in { d \in Calls : number[d].counter = s } }

EnsureFromZero(c) ==          \* mutant: the new counter ignores the numbers already issued
  LET s == <<Online, day>>
  IN  /\ pc[c] = "sent"
      /\ counterOwner[s] = None
      /\ counter' = [counter EXCEPT ![s] = IF @ = NoRow THEN 0 ELSE @]
      /\ pc' = [pc EXCEPT ![c] = "ready"]
      /\ attempt' = [attempt EXCEPT ![c] = 1]
      /\ UNCHANGED <<day, number, boundTo, rowOwner, counterOwner, key, cart, drawn, answer>>

(* INSERT ... ON CONFLICT DO NOTHING, in its own transaction. It waits for  *)
(* an uncommitted insert of the same row, not for an update of it.          *)
EnsureSaleCounter(c) ==
  LET s == <<Online, day>>
  IN  /\ pc[c] = "sent"
      /\ counter[s] = NoRow => counterOwner[s] = None
      /\ counter' = [counter EXCEPT ![s] = IF @ = NoRow THEN Max(Issued(s) \cup {0}) ELSE @]
      /\ pc' = [pc EXCEPT ![c] = "ready"]
      /\ attempt' = [attempt EXCEPT ![c] = 1]
      /\ UNCHANGED <<day, number, boundTo, rowOwner, counterOwner, key, cart, drawn, answer>>

-----------------------------------------------------------------------------
(* checkoutInTransaction. *)

(* lockInventoryRows: StockLedger has the row by row acquisition. *)
LockRows(c) ==
  /\ pc[c] = "ready"
  /\ \A p \in cart[c].items : rowOwner[p] = None
  /\ rowOwner' = [p \in Products |-> IF p \in cart[c].items THEN c ELSE rowOwner[p]]
  /\ pc' = [pc EXCEPT ![c] = "locked"]
  /\ UNCHANGED <<day, counter, number, boundTo, counterOwner, key, cart, attempt, drawn, answer>>

ReleaseLocks(c) ==
  /\ rowOwner' = [p \in Products |-> IF rowOwner[p] = c THEN None ELSE rowOwner[p]]
  /\ counterOwner' = [s \in Counters |-> IF counterOwner[s] = c THEN None ELSE counterOwner[s]]
  /\ drawn' = [drawn EXCEPT ![c] = NoNumber]

(* The call ends with an answer; unless it commits, nothing it wrote stays. *)
Reply(c, kind, sale) == /\ answer' = [answer EXCEPT ![c] = [kind |-> kind, sale |-> sale]]
                        /\ pc' = [pc EXCEPT ![c] = "done"]
                        /\ ReleaseLocks(c)
                        /\ UNCHANGED <<day, key, cart, attempt>>

GoOn(c, to) == /\ pc' = [pc EXCEPT ![c] = to]
               /\ UNCHANGED <<day, rowOwner, counterOwner, key, cart, attempt, drawn, answer>>

CheckKeyOnly(c) ==            \* mutant: the request hash is not compared
  /\ pc[c] = "locked"
  /\ LET prior == boundTo[key[c]]
     IN  \/ prior = None /\ GoOn(c, "keyed")
         \/ prior # None /\ Reply(c, "replayed", prior)
  /\ UNCHANGED <<counter, number, boundTo>>

CheckKey(c) ==
  /\ pc[c] = "locked"
  /\ LET prior == boundTo[key[c]]
     IN  \/ prior = None /\ GoOn(c, "keyed")
         \/ prior # None /\ cart[prior] # cart[c] /\ Reply(c, "keyConflict", None)
         \/ prior # None /\ cart[prior] = cart[c] /\ Reply(c, "replayed", prior)
  /\ UNCHANGED <<counter, number, boundTo>>

(* The sale made under a clientSaleId; its key holds the hash of its call. *)
SalesOf(client) == { d \in Calls : Sold(d) /\ cart[d].client = client }

CheckClientSaleId(c) ==
  /\ pc[c] = "keyed"
  /\ LET prior == IF cart[c].client = None THEN {} ELSE SalesOf(cart[c].client)
     IN  \/ prior = {} /\ GoOn(c, "checked")
         \/ \E d \in prior : cart[d] # cart[c] /\ Reply(c, "clientConflict", None)
         \/ \E d \in prior : cart[d] = cart[c] /\ Reply(c, "replayed", d)
  /\ UNCHANGED <<counter, number, boundTo>>

(* nextSaleNumber, nextOfflineSaleNumber: an UPDATE of the day's row, or    *)
(* after midnight an INSERT; private until the commit, the row stays locked. *)
NextNumber(s) == IF counter[s] = NoRow THEN 1 ELSE counter[s] + 1

Number(c) ==
  LET s == <<cart[c].scope, day>>
  IN  /\ pc[c] = "checked"
      /\ counterOwner[s] = None
      /\ counterOwner' = [counterOwner EXCEPT ![s] = c]
      /\ drawn' = [drawn EXCEPT ![c] = [counter |-> s, n |-> NextNumber(s)]]
      /\ pc' = [pc EXCEPT ![c] = "numbered"]
      /\ UNCHANGED <<day, counter, number, boundTo, rowOwner, key, cart, attempt, answer>>

(* Sale.saleNumber and Sale.clientSaleId are unique. *)
UniqueClash(c) == \/ drawn[c].n \in Issued(drawn[c].counter)
                  \/ cart[c].client # None /\ SalesOf(cart[c].client) # {}

CommitWithoutKey(c) ==        \* mutant: the key is not recorded with the sale
  /\ pc[c] = "numbered"
  /\ ~UniqueClash(c)
  /\ boundTo[key[c]] = None
  /\ number' = [number EXCEPT ![c] = drawn[c]]
  /\ counter' = [counter EXCEPT ![drawn[c].counter] = drawn[c].n]
  /\ Reply(c, "sold", c)
  /\ UNCHANGED boundTo

CommitSale(c) ==
  /\ pc[c] = "numbered"
  /\ ~UniqueClash(c)
  /\ boundTo[key[c]] = None
  /\ number' = [number EXCEPT ![c] = drawn[c]]
  /\ counter' = [counter EXCEPT ![drawn[c].counter] = drawn[c].n]
  /\ boundTo' = [boundTo EXCEPT ![key[c]] = c]
  /\ Reply(c, "sold", c)

(* isRetryable does not cover these unique constraints: the error gets out. *)
Clash(c) == /\ pc[c] = "numbered"
            /\ UniqueClash(c)
            /\ Reply(c, "clash", None)
            /\ UNCHANGED <<counter, number, boundTo>>

StartOver(c) == /\ pc' = [pc EXCEPT ![c] = "ready"]
                /\ attempt' = [attempt EXCEPT ![c] = @ + 1]
                /\ ReleaseLocks(c)
                /\ UNCHANGED <<day, key, cart, answer>>

RetryForever(c) ==            \* mutant: attempts are not counted
  /\ pc' = [pc EXCEPT ![c] = "ready"]
  /\ ReleaseLocks(c)
  /\ UNCHANGED <<day, counter, number, boundTo, key, cart, attempt, answer>>

(* At most MAX_CHECKOUT_ATTEMPTS, then "The shop is busy right now". *)
Retry(c) == /\ \/ attempt[c] < MaxAttempts /\ StartOver(c)
               \/ attempt[c] = MaxAttempts /\ Reply(c, "busy", None)
            /\ UNCHANGED <<counter, number, boundTo>>

(* The IdempotencyKey row was inserted by another call since CheckKey. *)
KeyClash(c) == /\ pc[c] = "numbered"
               /\ ~UniqueClash(c)
               /\ boundTo[key[c]] # None
               /\ Retry(c)

(* Serialization failure or deadlock. *)
DatabaseConflict(c) == pc[c] \in InTransaction /\ Retry(c)

(* A business rule, a validation, a timeout or a crash ends the call; what  *)
(* the transaction wrote is rolled back, the counter included.              *)
Refuse(c) == /\ pc[c] \in {"sent", "ready"} \cup InTransaction
             /\ Reply(c, "refused", None)
             /\ UNCHANGED <<counter, number, boundTo>>

Midnight == /\ day < MaxDay
            /\ day' = day + 1
            /\ UNCHANGED <<counter, number, boundTo, rowOwner, counterOwner, calling>>

-----------------------------------------------------------------------------
Work(c) == CheckKey(c) \/ CheckClientSaleId(c) \/ CommitSale(c) \/ Clash(c) \/ KeyClash(c)

Wait(c) == EnsureSaleCounter(c) \/ LockRows(c) \/ Number(c)

Next == \/ \E c \in Calls : Send(c) \/ Wait(c) \/ Work(c) \/ DatabaseConflict(c) \/ Refuse(c)
        \/ Midnight

Spec == Init /\ [][Next]_vars

(* The server goes on with a call it has received, and row locks are        *)
(* granted in turn. No client has to call, and no midnight has to come.     *)
Fairness == \A c \in Calls : /\ WF_vars(Work(c))
                             /\ SF_vars(EnsureSaleCounter(c))
                             /\ SF_vars(LockRows(c))
                             /\ SF_vars(Number(c))

FairSpec == Spec /\ Fairness

-----------------------------------------------------------------------------
(* A client that is told about a sale is told about a sale of its own cart, *)
(* never of the cart another call sent under the same key or clientSaleId.  *)
AnswersOwnCart == \A c \in Calls : Replied(c) => /\ Sold(answer[c].sale)
                                                 /\ cart[answer[c].sale] = cart[c]

(* "The same key with the same request returns the original sale instead of *)
(* selling twice" (sales.service.ts:438-439), however the calls interleave  *)
(* and whichever attempts fail. And a cart that is sent again never meets a *)
(* unique constraint of Sale, which the retry loop would not catch: only a  *)
(* different cart under the same clientSaleId can. The locks on the cart's  *)
(* rows are what prevents it.                                               *)
SameRequestSameSale ==
  /\ \A c, d \in Calls : (Replied(c) /\ Replied(d) /\ key[c] = key[d] /\ cart[c] = cart[d])
                           => answer[c].sale = answer[d].sale
  /\ \A c \in Calls : answer[c].kind = "clash"
                        => \E d \in SalesOf(cart[c].client) : cart[d] # cart[c]

(* Sale numbers of a series have no gap and no duplicate, across rollbacks, *)
(* midnight, and the numbers issued before the counters existed.            *)
NumbersGapless ==
  /\ \A s \in Counters : Issued(s) = 1..(IF counter[s] = NoRow THEN Old(s) ELSE counter[s])
  /\ \A c, d \in Calls : Sold(c) /\ number[c] = number[d] => c = d

(* Every call is answered: waiting for locks and retrying comes to an end.  *)
EveryCallAnswered == \A c \in Calls : pc[c] = "sent" ~> pc[c] = "done"
=============================================================================
