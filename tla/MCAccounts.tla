----------------------------- MODULE MCAccounts -----------------------------
(* Instances of Accounts for TLC. *)
EXTENDS Accounts, TLC

CONSTANTS ann, x, online, register

Row(type, value, items, priority, stackable, code, maxUses, perCustomer) ==
  [type |-> type, value |-> value, items |-> items, priority |-> priority,
   stackable |-> stackable, code |-> code, maxUses |-> maxUses, perCustomer |-> perCustomer,
   minSpend |-> IF type \in {"MIN_SPEND_PERCENT", "MIN_SPEND_FIXED"} THEN 6 ELSE Unlimited,
   isActive |-> TRUE,
   startsAt |-> Unlimited, endsAt |-> Unlimited, daysOfWeek |-> {}, startHour |-> Unlimited,
   endHour |-> Unlimited]

(* Two that stack, one of them with a coupon and the other used once by a    *)
(* customer; an exclusive one of higher or lower priority, or one of use to  *)
(* large carts only that can be used once.                                   *)
First == Row("PERCENT_OFF", 50, Goods, 1, TRUE, NoCode, Unlimited, 1)
Second == Row("FIXED_OFF", 3, {1}, 0, TRUE, x, Unlimited, Unlimited)
Exclusive(priority) ==
  [Row("FIXED_OFF", 2, Goods, priority, FALSE, NoCode, Unlimited, Unlimited)
     EXCEPT !.startsAt = 1, !.endsAt = 2, !.daysOfWeek = {1, 2}, !.startHour = 9, !.endHour = 12]
Large == Row("MIN_SPEND_FIXED", 1, {2}, 2, TRUE, NoCode, 1, Unlimited)
MCOffers == { <<First, Second, third>> : third \in {Exclusive(2), Exclusive(0), Large} }

Now(time, day, hour) == [time |-> time, dayOfWeek |-> day, hour |-> hour]
Monday9 == Now(1, 1, 9)
Sunday11 == Now(2, 0, 11)

Sale(now, customer, series, lines, cut, coupon, ids, pays) ==
  [now |-> now, customer |-> customer, series |-> series, lines |-> lines, cut |-> cut, coupon |-> coupon,
   ids |-> ids, owed |-> pays[1], credit |-> pays[2], points |-> pays[3]]

(* On account, naming promotions; with a coupon, from a register, paid partly *)
(* with store credit and a point; the same without a customer; one that the   *)
(* cart discount makes free.                                                  *)
MCSales == { Sale(Monday9, ann, online, <<4, 4>>, 0, NoCode, Promos, <<2, 0, 0>>),
             Sale(Monday9, ann, register, <<4, 4>>, 0, x, {}, <<0, 1, 1>>),
             Sale(Sunday11, Walkin, register, <<4, 4>>, 0, x, {}, <<0, 0, 0>>),
             Sale(Monday9, Walkin, online, <<4, 0>>, 4, x, {}, <<0, 0, 0>>) }

Symmetry == Permutations(Requests)
=============================================================================
