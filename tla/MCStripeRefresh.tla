-------------------------- MODULE MCStripeRefresh --------------------------
(* Instances of StripeRefresh for TLC. *)
EXTENDS StripeRefresh, TLC

CONSTANTS s1, s2, s3, c1, c2

SameCustomer == [s \in Subscriptions |-> c1]
TwoCustomers == [s \in Subscriptions |-> IF s = s3 THEN c2 ELSE c1]

\* Checkout names the account in the metadata of every subscription.
ByCheckout == [s \in Subscriptions |-> "account"]

\* s3 was made for another account.
WithStranger == [s \in Subscriptions |-> IF s = s3 THEN "other" ELSE "account"]

\* s1 and s2 are created one after the other.
Successive == [s \in Subscriptions |-> IF s = s1 THEN 1 ELSE 2]

HandlerSymmetry == Permutations(Handlers)

=============================================================================
