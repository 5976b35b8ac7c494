----------------------------- MODULE MCCheckout -----------------------------
(* Small shops for TLC: one or two shoppers, two variants, one coupon.     *)
EXTENDS Checkout, TLC

CONSTANTS r1, r2, r3, alice, bob, save10

AllVariants == {1, 2}
NoCouponYet == [c \in {} |-> 0]
OneEach     == [v \in AllVariants |-> 1]
Lost        == {-1}
TwoEach     == [v \in AllVariants |-> 2]
OnceOnly    == [c \in {save10} |-> 1]
TwiceOnly   == [c \in {save10} |-> 2]
NoMinimum   == [c \in {save10} |-> 0]
TwoOrMore   == [c \in {save10} |-> 2]

\* Requests differ by their state only; users do too when none of them shops.
RequestSymmetry == Permutations(Requests)
Symmetry        == Permutations(Requests) \union Permutations(Users)
=============================================================================
