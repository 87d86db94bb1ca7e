SPECIFICATION Spec
CONSTANTS
  v1 = v1
  v2 = v2
  s1 = s1
  s2 = s2
  b1 = b1
  a1 = a1
  a2 = a2
  k1 = k1
  Variants = {v1, v2}
  Sellers = {s1, s2}
  Buyers = {b1}
  Checkouts = {a1, a2}
  Clerks = {c1}
  Sweepers = {w1}
  Keys = {k1}
  NoKey = NoKey
  Stock <- Units
  SellerOf <- Owners
  FirstCart <- Carts
  BuyerOf <- Buying
  KeyOf <- Sending
  Throwing <- AtTheSecond
  Moves = {"paid", "refunded"}
  MaxFaults = 0
INVARIANT NoStockInvented
CHECK_DEADLOCK FALSE
