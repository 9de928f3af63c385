-------------------------------- MODULE Words --------------------------------
(* Unsigned numbers of fixed width, as the driver and the service use them. *)
EXTENDS Naturals

CONSTANTS
  Wide,   \* how many values a 64-bit field has
  Half    \* how many values a 16-bit field has

ASSUME WidthAssumption == Wide \in Nat \ {0} /\ Half \in Nat \ {0} /\ Half <= Wide

Smaller(a, b) == IF a < b THEN a ELSE b
=============================================================================
