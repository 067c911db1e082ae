------------------------- MODULE MCBasketExecution -------------------------
(* TLC instance of BasketExecution: a pair of unequal legs.                *)
EXTENDS BasketExecution

Pair == <<2, 1>>
=============================================================================
