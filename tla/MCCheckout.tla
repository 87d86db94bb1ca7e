----------------------------- MODULE MCCheckout -----------------------------
EXTENDS Checkout, TLC

CONSTANTS v1, v2, s1, s2, b1, a1, a2, k1

\* Two lines of two sellers, sent twice under one key.
Units   == v1 :> 2 @@ v2 :> 1
Owners  == v1 :> s1 @@ v2 :> s2
Carts   == b1 :> <<v1, v2>>
Buying  == a1 :> b1 @@ a2 :> b1
Sending == a1 :> k1 @@ a2 :> k1

\* The inserts that may throw: one request's first and the other's second, or
\* only the second.
AtEither    == {<<a2, s1>>, <<a1, s2>>}
AtTheSecond == {<<a1, s2>>}
=============================================================================
