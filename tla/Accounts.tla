------------------------------ MODULE Accounts ------------------------------
(* A customer's balances, and the promotions, in a checkout: what is owed    *)
(* (pay later), store credit, loyalty points, the limits on promotions.      *)
(* checkoutInTransaction locks the customer's row, prices the cart           *)
(* (Promotions), takes a number from the day's counter, counts the           *)
(* promotions up row by row, and commits. Repayments, store credit and the   *)
(* credit limit change the same row. Its stock is StockLedger's concern, its *)
(* number and its replays Checkout's.                                        *)
EXTENDS Promotions

CONSTANTS Requests,     \* checkouts
          Customers, Walkin,  \* Walkin: a cart without customerId
          Nobody,       \* a lock that is free
          Sales,        \* the carts checkouts come with
          Series,       \* the sale number counters: online's and each register's
          Offers,       \* the promotions a run starts with: rows per promotion
          Amounts,      \* of repayments and adjustments
          CreditLimits, \* values of creditLimit
          PointValue,   \* cents a point redeems: loyalty.birrPerRedeemPoint
          SpendPerPoint,\* cents that earn a point: loyalty.pointsPerBirr
          CheckoutAttempts, \* MAX_CHECKOUT_ATTEMPTS
          MaxChanges    \* bound on the back office's changes

ASSUME CustomersAssumption == IsFiniteSet(Customers) /\ Walkin \notin Customers /\ Nobody \notin Requests
ASSUME OffersAssumption == \A o \in Offers : DOMAIN o = Promos /\ \A p \in Promos : IsOffer(o[p])
ASSUME AmountsAssumption == Amounts \subseteq Nat /\ CreditLimits \subseteq Nat
ASSUME PointsAssumption == PointValue \in Nat \ {0} /\ SpendPerPoint \in Nat \ {0}

(* A cart's lines, after their own discounts; a discount on the cart is no   *)
(* more than they come to.                                                   *)
IsSale(s) == /\ s.customer \in Customers \cup {Walkin} /\ s.series \in Series
             /\ s.lines \in [Goods -> Nat] /\ s.cut \in 0..Total(s.lines, Goods)
             /\ s.owed \in Nat /\ s.credit \in Nat /\ s.points \in Nat

ASSUME SalesAssumption == \A s \in Sales : IsSale(s)

VARIABLES cust,      \* Customer: limit, owed (creditBalance), credit, points
          ledger,    \* per customer, the sums of its CustomerLedgerEntry rows on owed and
                     \* on credit, and of its LoyaltyTransaction rows
          standing,  \* per customer, how many sales that are not void put which charge
                     \* on the account
          offer,     \* Promotion rows
          usageCount,\* Promotion.usageCount
          usages,    \* PromotionUsage rows per promotion and customer
          custLock, promoLock, \* holders of the row locks of customers and promotions
          holder,    \* holder of each sale number counter's row
          req,       \* of each checkout: its step, cart, attempt, and what it worked out
          changes,   \* changes by the back office so far
          raced      \* history: per promotion, the sales whose usageCount had changed
                     \* between being read and being counted up

custVars == <<cust, ledger, standing>>
promoVars == <<offer, usageCount, usages>>
locks == <<custLock, promoLock, holder>>
accountsVars == <<cust, ledger, standing, offer, usageCount, usages, custLock, promoLock, holder,
                  raced, req, changes>>

Cart(s) == [lines |-> s.lines, spend |-> Total(s.lines, Goods) - s.cut,
            coupon |-> s.coupon, ids |-> s.ids, now |-> s.now]
Charges == { s.owed : s \in Sales } \ {0}
Idle(pc) == [pc |-> pc, sale |-> Nobody, attempt |-> 1, row |-> Nobody, chosen |-> <<>>,
             saw |-> Nobody, points |-> 0]

AccountsInit == /\ cust = [c \in Customers |-> [limit |-> 0, owed |-> 0, credit |-> 0, points |-> 0]]
                /\ ledger = [c \in Customers |-> [owed |-> 0, credit |-> 0, points |-> 0]]
                /\ standing = [c \in Customers |-> [a \in Charges |-> 0]]
                /\ offer \in Offers
                /\ usageCount = [p \in Promos |-> 0]
                /\ usages = [p \in Promos |-> [c \in Customers \cup {Walkin} |-> 0]]
                /\ custLock = [c \in Customers |-> Nobody]
                /\ promoLock = [p \in Promos |-> Nobody]
                /\ holder = [s \in Series |-> Nobody]
                /\ req = [w \in Requests |-> Idle("new")]
                /\ changes = 0
                /\ raced = [p \in Promos |-> 0]

-----------------------------------------------------------------------------
(* A checkout *)

(* The customer's row is locked, then read; a cart that is tried again comes *)
(* with what it came with before.                                            *)
Begin(w) ==
  /\ req[w].pc = "new"
  /\ \E s \in IF req[w].sale = Nobody THEN Sales ELSE {req[w].sale} :
       /\ s.customer # Walkin => custLock[s.customer] = Nobody
       /\ custLock' = [c \in Customers |-> IF c = s.customer THEN w ELSE custLock[c]]
       /\ req' = [req EXCEPT ![w] =
            [@ EXCEPT !.pc = "locked", !.sale = s,
                      !.row = IF s.customer = Walkin THEN Nobody ELSE cust[s.customer]]]
  /\ UNCHANGED <<custVars, promoVars, promoLock, holder, raced, changes>>

(* What points pay: no more than is left, in whole points. *)
Redeemed(points, left) ==
  LET most == Lesser(points * PointValue, left)
      used == (most + PointValue - 1) \div PointValue
  IN  [points |-> used, off |-> most]

AppliesTo(s) == LET usedBy == [p \in Promos |-> usages[p][s.customer]]
                IN  Applicable(offer, usageCount, usedBy, s.customer # Walkin, Cart(s))

(* Account, store credit and points need a customer, and what they need of   *)
(* the customer's row; the other payments make up the total.                 *)
Payable(s, row, total) ==
  /\ s.owed + s.credit <= total
  /\ s.owed + s.credit + s.points > 0 => s.customer # Walkin
  /\ s.customer # Walkin => /\ s.points <= row.points
                            /\ s.credit <= row.credit
                            /\ s.owed > 0 => row.owed + s.owed <= row.limit

(* The cart is priced: promotions, points, payments, points earned. *)
Price(w) ==
  /\ req[w].pc = "locked"
  /\ LET s == req[w].sale
         row == req[w].row
         applies == AppliesTo(s)
         chosen == Chosen(offer, applies, Cart(s))
         left == Cart(s).spend - Taken(chosen)
         redeemed == Redeemed(s.points, left)
         total == left - redeemed.off
         earned == IF s.customer = Walkin THEN 0 ELSE total \div SpendPerPoint
     IN  /\ CouponAccepted(offer, applies, Cart(s))
         /\ Payable(s, row, total)
         /\ req' = [req EXCEPT ![w] = [@ EXCEPT !.pc = "priced", !.chosen = chosen,
                                                !.saw = usageCount,
                                                !.points = earned - redeemed.points]]
  /\ UNCHANGED <<custVars, promoVars, locks, raced, changes>>

(* The counter's row stays locked to the end of the transaction. *)
TakeNumber(w) == /\ req[w].pc = "priced"
                 /\ holder[req[w].sale.series] = Nobody
                 /\ holder' = [holder EXCEPT ![req[w].sale.series] = w]
                 /\ req' = [req EXCEPT ![w].pc = "counting"]
                 /\ UNCHANGED <<custVars, promoVars, custLock, promoLock, raced, changes>>

(* The promotions taken are counted up in the order they were taken; the     *)
(* next one waits while another checkout has it.                             *)
Uncounted(w) == SelectSeq(req[w].chosen, LAMBDA c : promoLock[c.promo] # w)

CountUp(w) == /\ req[w].pc = "counting"
              /\ Uncounted(w) # <<>>
              /\ LET p == Uncounted(w)[1].promo
                 IN  /\ promoLock[p] = Nobody
                     /\ promoLock' = [promoLock EXCEPT ![p] = w]
              /\ UNCHANGED <<custVars, promoVars, custLock, holder, req, raced, changes>>

Freed(lock, w) == [k \in DOMAIN lock |-> IF lock[k] = w THEN Nobody ELSE lock[k]]
LetGo(w, ends) == /\ custLock' = Freed(custLock, w)
                  /\ promoLock' = Freed(promoLock, w)
                  /\ holder' = Freed(holder, w)
                  /\ req' = [req EXCEPT ![w] = ends]

(* The balances the customer gets, from the row that was read. *)
Settled(r) == [r.row EXCEPT !.owed = @ + r.sale.owed, !.credit = @ - r.sale.credit,
                            !.points = @ + r.points]

CommitAccount(w) ==
  LET r == req[w]
      c == r.sale.customer
  IN  /\ r.pc = "counting"
      /\ Uncounted(w) = <<>>
      /\ LetGo(w, Idle("done"))
      /\ IF c = Walkin
         THEN UNCHANGED custVars
         ELSE /\ cust' = [cust EXCEPT ![c] = [Settled(r) EXCEPT !.limit = cust[c].limit]]
              /\ ledger' = [ledger EXCEPT ![c] =
                   [owed |-> @.owed + r.sale.owed, credit |-> @.credit - r.sale.credit,
                    points |-> @.points + r.points]]
              /\ standing' = IF r.sale.owed = 0 THEN standing
                             ELSE [standing EXCEPT ![c][r.sale.owed] = @ + 1]
      /\ usages' = [p \in Promos |-> IF p \in PromosOf(r.chosen)
                                     THEN [usages[p] EXCEPT ![c] = @ + 1] ELSE usages[p]]
      /\ raced' = [p \in Promos |-> IF p \in PromosOf(r.chosen) /\ usageCount[p] # r.saw[p]
                                    THEN raced[p] + 1 ELSE raced[p]]
      /\ UNCHANGED <<offer, changes>>

CommitRead(w) ==              \* mutant: usageCount is written as the count read plus one
  /\ CommitAccount(w)
  /\ usageCount' = [p \in Promos |-> IF p \in PromosOf(req[w].chosen)
                                     THEN req[w].saw[p] + 1 ELSE usageCount[p]]

Commit(w) == /\ CommitAccount(w)
             /\ usageCount' = [p \in Promos |-> IF p \in PromosOf(req[w].chosen)
                                                THEN usageCount[p] + 1 ELSE usageCount[p]]

(* Two checkouts that take promotions in different orders can wait for each  *)
(* other: the database ends one, which is tried again from the top.          *)
WaitsFor(w) ==
  CASE req[w].pc = "priced" -> holder[req[w].sale.series]
    [] req[w].pc = "counting" /\ Uncounted(w) # <<>> -> promoLock[Uncounted(w)[1].promo]
    [] OTHER -> Nobody

InCycle(w) == \E S \in SUBSET Requests : w \in S /\ { WaitsFor(r) : r \in S } = S

Deadlock(w) ==
  /\ InCycle(w)
  /\ LetGo(w, IF req[w].attempt = CheckoutAttempts THEN Idle("done")
              ELSE [Idle("new") EXCEPT !.sale = req[w].sale, !.attempt = req[w].attempt + 1])
  /\ UNCHANGED <<custVars, promoVars, raced, changes>>

(* Refused, or failed: rolled back. *)
Fail(w) == /\ req[w].pc \notin {"new", "done"}
           /\ LetGo(w, Idle("done"))
           /\ UNCHANGED <<custVars, promoVars, raced, changes>>

-----------------------------------------------------------------------------
(* The back office *)

Changes == changes < MaxChanges /\ changes' = changes + 1
Unlocked(c) == custLock[c] = Nobody

RepayUnlocked(c, a) ==        \* mutant: without FOR UPDATE
  /\ a > 0 /\ a <= cust[c].owed
  /\ cust' = [cust EXCEPT ![c].owed = @ - a]
  /\ ledger' = [ledger EXCEPT ![c].owed = @ - a]
  /\ Changes
  /\ UNCHANGED <<standing, promoVars, locks, req, raced>>

Repay(c, a) == /\ Unlocked(c)
               /\ a > 0 /\ a <= cust[c].owed
               /\ cust' = [cust EXCEPT ![c].owed = @ - a]
               /\ ledger' = [ledger EXCEPT ![c].owed = @ - a]
               /\ Changes
               /\ UNCHANGED <<standing, promoVars, locks, req, raced>>

AdjustStoreCredit(c, d) == /\ Unlocked(c)
                           /\ cust[c].credit + d >= 0
                           /\ cust' = [cust EXCEPT ![c].credit = @ + d]
                           /\ ledger' = [ledger EXCEPT ![c].credit = @ + d]
                           /\ Changes
                           /\ UNCHANGED <<standing, promoVars, locks, req, raced>>

SetLimitUnlocked(c, l) ==     \* mutant: the limit is set while a checkout has the customer
  /\ cust' = [cust EXCEPT ![c].limit = l]
  /\ Changes
  /\ UNCHANGED <<ledger, standing, promoVars, locks, req, raced>>

(* One UPDATE, which waits for the row. *)
SetCreditLimit(c, l) == /\ Unlocked(c)
                        /\ cust' = [cust EXCEPT ![c].limit = l]
                        /\ Changes
                        /\ UNCHANGED <<ledger, standing, promoVars, locks, req, raced>>

(* A promotion is switched on or off. *)
UpdatePromotion(p) == /\ promoLock[p] = Nobody
                      /\ offer' = [offer EXCEPT ![p].isActive = ~@]
                      /\ Changes
                      /\ UNCHANGED <<custVars, usageCount, usages, locks, req, raced>>

(* A sale is voided: its stock comes back and a credit note is written; the  *)
(* customer's row is not looked at.                                          *)
VoidSale(c, a) == /\ standing[c][a] > 0
                  /\ standing' = [standing EXCEPT ![c][a] = @ - 1]
                  /\ Changes
                  /\ UNCHANGED <<cust, ledger, promoVars, locks, req, raced>>

Checkouts == \E w \in Requests : \/ Begin(w) \/ Price(w) \/ TakeNumber(w) \/ CountUp(w)
                                 \/ Commit(w) \/ Deadlock(w) \/ Fail(w)

Office == \/ \E c \in Customers : \/ \E a \in Amounts : \/ Repay(c, a)
                                                        \/ AdjustStoreCredit(c, a)
                                                        \/ AdjustStoreCredit(c, -a)
                                  \/ \E l \in CreditLimits : SetCreditLimit(c, l)
                                  \/ \E a \in Charges : VoidSale(c, a)
          \/ \E p \in Promos : UpdatePromotion(p)

AccountsNext == Checkouts \/ Office

AccountsSpec == AccountsInit /\ [][AccountsNext]_accountsVars

-----------------------------------------------------------------------------
(* The balances on the customer's row are the sums of its ledger, whatever   *)
(* checkouts and repayments overlap: the row is locked before it is read     *)
(* (sales.service.ts:926, 1172-1240, customers.service.ts:353, 429). Store   *)
(* credit and points are never overdrawn.                                    *)
BalancesExplained ==
  \A c \in Customers : /\ \A b \in {"owed", "credit", "points"} : cust[c][b] = ledger[c][b]
                       /\ cust[c].credit >= 0 /\ cust[c].points >= 0

(* A checkout that raises what a customer owes leaves it within the limit    *)
(* the customer has at that moment, although the limit was read and compared *)
(* some steps earlier (sales.service.ts:1118-1124, customers.service.ts:409).*)
CreditWithinLimit ==
  [][ \A c \in Customers :
        cust'[c].owed > cust[c].owed => cust'[c].owed <= cust[c].limit ]_accountsVars

(* A promotion's usageCount is the number of its usage rows; a customer uses *)
(* it no more than maxUsesPerCustomer times; and all uses exceed maxUses by  *)
(* no more than the sales that took it on a count others were changing       *)
(* (promotions.service.ts:480-486, sales.service.ts:1155-1168).              *)
PromotionLimits ==
  \A p \in Promos :
    /\ usageCount[p] = FoldFunction(+, 0, usages[p])
    /\ offer[p].perCustomer # Unlimited
         => \A c \in Customers : usages[p][c] <= offer[p].perCustomer
    /\ offer[p].maxUses # Unlimited => usageCount[p] <= offer[p].maxUses + raced[p]

(* The selection, against what its comment says of it                        *)
(* (promotions.service.ts:438-441): the promotions taken apply and cost the  *)
(* cart no more than it comes to, one that does not stack is alone, the      *)
(* coupon presented is among them unless there is nothing to pay, and one    *)
(* that applies is left out only when nothing is left to pay or when one     *)
(* that goes before it does not combine with it.                             *)
SelectionSound ==
  [][ \A w \in Requests : (req[w].pc = "locked" /\ req'[w].pc = "priced") =>
        LET cart == Cart(req[w].sale)
            applies == AppliesTo(req[w].sale)
            chosen == req'[w].chosen
            taken == PromosOf(chosen)
        IN  /\ taken \subseteq applies
            /\ Taken(chosen) <= cart.spend
            /\ \A p \in taken : offer[p].stackable \/ taken = {p}
            /\ cart.coupon # NoCode /\ cart.spend > 0
                 => \E p \in taken : offer[p].code = cart.coupon
            /\ \A p \in applies \ taken :
                 \/ Taken(chosen) = cart.spend
                 \/ \E q \in taken : /\ Precedes(offer, cart, q, p)
                                     /\ ~(offer[q].stackable /\ offer[p].stackable) ]_accountsVars
=============================================================================
