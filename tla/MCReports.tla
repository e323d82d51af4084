----------------------------- MODULE MCReports -----------------------------
(* Two sales over two days, one nightly job, one by hand. *)
EXTENDS Reports, TLC

CONSTANTS tea, soap, cash, card

MCCategory == (tea :> "food") @@ (soap :> "home")
MCOnHand == (tea :> 3) @@ (soap :> 2)
MCMaxStock == (tea :> 2) @@ (soap :> 0)
MCByHand == {<<1, 1>>}
MCBasket ==
    <<[hour |-> 9, cashier |-> "Abel", customer |-> "none", cartDiscount |-> 0,
      lines |-> {[product |-> tea, quantity |-> 2, total |-> 4, discount |-> 0, tax |-> 0, cost |-> 3, kind |-> "ZERO"]},
      pay |-> (cash :> 4) @@ (card :> 0)],
     [hour |-> 17, cashier |-> "Sara", customer |-> "Hana", cartDiscount |-> 1,
      lines |-> {[product |-> tea, quantity |-> 1, total |-> 2, discount |-> 1, tax |-> 0, cost |-> 1, kind |-> "EXEMPT"],
                 [product |-> soap, quantity |-> 1, total |-> 6, discount |-> 0, tax |-> 1, cost |-> 5, kind |-> "STANDARD"]},
      pay |-> (cash :> 2) @@ (card :> 5)]>>
=============================================================================
