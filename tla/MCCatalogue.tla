---------------------------- MODULE MCCatalogue ----------------------------
(* Two requests, one import of two rows run twice, one product name in two
   spellings. *)
EXTENDS Catalogue, TLC

MCFold == ("Tea" :> "tea") @@ ("TEA" :> "tea")
MCFile == <<[name |-> "Tea", barcode |-> "b1", opening |-> TRUE, errors |-> FALSE],
            [name |-> "TEA", barcode |-> "none", opening |-> FALSE, errors |-> FALSE]>>
MCCreates == {<<"Tea", "none">>, <<"TEA", "b1">>}
MCEdits == {<<"Tea", "b1", 0>>, <<"Tea", "b2", 6>>}
MCReprices == {<<"Tea", 5>>, <<"Tea", 6>>}
MCSymmetry == Permutations(Calls)
=============================================================================
