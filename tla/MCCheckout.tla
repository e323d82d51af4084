----------------------------- MODULE MCCheckout -----------------------------
(* Checkout for TLC, without symmetry because of EveryCallAnswered. *)
EXTENDS Checkout

CONSTANTS x, register

Cart(items, client, scope) == [items |-> items, client |-> client, scope |-> scope]

(* An ordinary cart; one an offline client sends again, from its register;   *)
(* and another cart under that client's clientSaleId, on other rows.         *)
MCCarts == {Cart({1}, None, Online), Cart({1, 2}, x, register), Cart({3}, x, Online)}

=============================================================================
