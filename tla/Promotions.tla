----------------------------- MODULE Promotions -----------------------------
(* How promotions.service.ts prices a cart: which promotions apply, and the  *)
(* selection of the ones that are taken. Pure operators; Accounts runs them  *)
(* inside a checkout. Money is counted in cents.                             *)
EXTENDS Integers, Sequences, SequencesExt, FiniteSetsExt

CONSTANTS Goods,
          Promos,      \* ids of promotions, numbered in the order they were created
          NoCode,      \* a promotion without a coupon code, a cart without a coupon
          Unlimited    \* a null maxUses, maxUsesPerCustomer, minSpend or bound of a window

ASSUME PromosAssumption == Promos \subseteq Nat /\ IsFiniteSet(Promos)
ASSUME GoodsAssumption == IsFiniteSet(Goods)

(* A row of the table Promotion, its target as the products it covers. Its   *)
(* window is a time from startsAt to endsAt, on some days of the week, from  *)
(* startHour up to endHour.                                                  *)
OptionalIn(S) == S \cup {Unlimited}

IsOffer(o) ==
  /\ DOMAIN o = {"type", "items", "value", "minSpend", "priority", "stackable", "isActive", "code",
                 "maxUses", "perCustomer", "startsAt", "endsAt", "daysOfWeek", "startHour", "endHour"}
  /\ o.type \in {"PERCENT_OFF", "FIXED_OFF", "MIN_SPEND_PERCENT", "MIN_SPEND_FIXED"}
  /\ o.items \subseteq Goods
  /\ o.value \in Nat /\ o.minSpend \in OptionalIn(Nat) /\ o.priority \in Int
  /\ o.stackable \in BOOLEAN /\ o.isActive \in BOOLEAN
  /\ o.maxUses \in OptionalIn(Nat \ {0}) /\ o.perCustomer \in OptionalIn(Nat \ {0})

Lesser(a, b) == IF a < b THEN a ELSE b
Total(lines, items) == FoldFunctionOnSet(+, 0, lines, items)

(* money(): two decimals, half away from zero. *)
PercentOf(amount, percent) == (amount * percent + 50) \div 100

(* What o takes off a cart, by itself: eligibleBase and computeDiscount.     *)
Discount(o, lines, spend) ==
  LET base == Total(lines, o.items)
      full == IF o.type \in {"PERCENT_OFF", "MIN_SPEND_PERCENT"}
              THEN PercentOf(base, o.value) ELSE o.value
      short == IF o.minSpend = Unlimited
               THEN o.type \in {"MIN_SPEND_PERCENT", "MIN_SPEND_FIXED"}
               ELSE spend < o.minSpend
  IN  IF short THEN 0 ELSE Lesser(full, base)

InWindow(o, now) ==
  /\ o.startsAt # Unlimited => now.time >= o.startsAt
  /\ o.endsAt # Unlimited => now.time <= o.endsAt
  /\ o.daysOfWeek # {} => now.dayOfWeek \in o.daysOfWeek
  /\ o.startHour # Unlimited => now.hour >= o.startHour
  /\ o.endHour # Unlimited => now.hour < o.endHour

(* The promotions a cart is offered: active, in their window, below their    *)
(* limits, of the right coupon unless named, with something to take off.     *)
(* usedBy[p] is what this customer has used; a customer who is not known is  *)
(* not counted.                                                              *)
Listed(offer, ids) == { p \in Promos : offer[p].isActive /\ (ids = {} \/ p \in ids) }

Applicable(offer, count, usedBy, known, cart) ==
  { p \in Listed(offer, cart.ids) :
      /\ InWindow(offer[p], cart.now)
      /\ offer[p].maxUses # Unlimited => count[p] < offer[p].maxUses
      /\ offer[p].perCustomer # Unlimited /\ known => usedBy[p] < offer[p].perCustomer
      /\ offer[p].code \in {NoCode, cart.coupon} \/ p \in cart.ids
      /\ Discount(offer[p], cart.lines, cart.spend) > 0 }

(* A coupon the cart presents must belong to a promotion that applies. *)
CouponAccepted(offer, applicable, cart) ==
  cart.coupon # NoCode =>
    \E p \in Listed(offer, cart.ids) \cap applicable : offer[p].code = cart.coupon

(* The coupon first, then the highest priority, the largest discount, the    *)
(* oldest.                                                                   *)
Precedes(offer, cart, p, q) ==
  LET coupon(x) == IF cart.coupon # NoCode /\ offer[x].code = cart.coupon THEN 1 ELSE 0
      key(x) == <<coupon(x), offer[x].priority, Discount(offer[x], cart.lines, cart.spend), -x>>
      first == { i \in 1..4 : key(p)[i] # key(q)[i] }
  IN  first # {} /\ key(p)[Min(first)] > key(q)[Min(first)]

(* The promotions S in that order. *)
Ordered(offer, cart, S) ==
  CHOOSE best \in Bijection(1..Cardinality(S), S) :
    \A i, j \in DOMAIN best : i < j => Precedes(offer, cart, best[i], best[j])

ChosenGreedy(offer, applicable, cart) == \* mutant: an exclusive promotion does not stop the loop
  LET best == Ordered(offer, cart, applicable)
      consider(acc, p) ==
        LET take == Lesser(Discount(offer[p], cart.lines, cart.spend), acc.left)
        IN  IF take = 0 THEN acc
            ELSE [taken |-> Append(acc.taken, [promo |-> p, amount |-> take]),
                  left |-> acc.left - take]
  IN  FoldLeft(consider, [taken |-> <<>>, left |-> cart.spend], best).taken

(* The promotions taken, in order, each for what is left to pay at most. A   *)
(* promotion that does not stack is taken alone or not at all.               *)
Chosen(offer, applicable, cart) ==
  LET best == Ordered(offer, cart, applicable)
      consider(acc, p) ==
        LET take == Lesser(Discount(offer[p], cart.lines, cart.spend), acc.left)
            alone == acc.taken = <<>>
            stacks == offer[p].stackable /\ \A i \in DOMAIN acc.taken : offer[acc.taken[i].promo].stackable
        IN  IF take > 0 /\ (alone \/ stacks)
            THEN [taken |-> Append(acc.taken, [promo |-> p, amount |-> take]),
                  left |-> acc.left - take]
            ELSE acc
  IN  FoldLeft(consider, [taken |-> <<>>, left |-> cart.spend], best).taken

Taken(chosen) == FoldLeft(LAMBDA sum, c : sum + c.amount, 0, chosen)
PromosOf(chosen) == { chosen[i].promo : i \in DOMAIN chosen }
=============================================================================
