--------------------------- MODULE CheckoutProofs ---------------------------
(***************************************************************************)
(* What holds of Checkout for every set of variants, sellers, buyers and   *)
(* requests, proved with TLAPS.                                            *)
(***************************************************************************)
EXTENDS Checkout, FiniteSetTheorems, WellFoundedInduction, TLAPS

-----------------------------------------------------------------------------
(* What a request and a transition are in the middle of *)

CartOf(a)  == FirstCart[BuyerOf[a]]
LinesOf(r) == {r.lines[i] : i \in DOMAIN r.lines}

\* The first lines of the cart are reserved, one after the other; then all are,
\* and the sellers' orders follow.
Fits(a, r) ==
  /\ r.at \in {"idle", "load", "done", "failed"} => r.held = {} /\ r.made = {}
  /\ r.at \in {"reserve", "create", "rollback", "store", "clear"} =>
       r.lines = CartOf(a) /\ r.lines # <<>>
  /\ r.at = "reserve" =>
       /\ r.made = {} /\ IsFiniteSet(r.held)
       /\ \E k \in 0 .. Len(r.lines) - 1 :
            r.held = {r.lines[i] : i \in 1 .. k} /\ Cardinality(r.held) = k
  /\ r.at \in {"create", "store", "clear"} => r.held = LinesOf(r)
  /\ r.at = "create" => \E i \in DOMAIN r.lines : SellerOf[r.lines[i]] \notin r.made
  /\ r.at \in {"store", "clear"} => \A v \in r.held : SellerOf[v] \in r.made

\* A transition is one the table allows, on an order that is there.
Moving(x) ==
  /\ x.at # "idle" => /\ x.order \in Orders /\ Exists(x.order)
                      /\ x.from \in OrderStatus /\ x.to \in Transitions[x.from]
  /\ x.at = "effects" => x.to \in {"paid", "cancelled", "refunded"}
  /\ x.at # "effects" => x.todo = {}

Tables ==
  /\ TypeOK
  /\ \A v \in Variants : available[v] >= 0
  /\ \A b \in Buyers : cart[b] \in {FirstCart[b], <<>>}

TypeInv ==
  /\ Tables
  /\ \A a \in Checkouts : Fits(a, request[a])
  /\ \A c \in Actors : Moving(actor[c])

-----------------------------------------------------------------------------
(* Which orders are there *)

\* A request knows its orders as long as it runs.
OrderInv ==
  /\ \A a \in Checkouts, s \in Sellers :
       request[a].at \notin {"done", "failed", "dead"} =>
         (Exists(<<a, s>>) <=> s \in request[a].made)
  /\ OneOrderPerKey

-----------------------------------------------------------------------------
(* Where every unit is *)

Holds(r, v)         == v \in r.held /\ SellerOf[v] \notin r.made
Sells(x, v)         == x.status \in Standing /\ v \in x.lines
Owes(x, v)          == x.status = "pending_payment" /\ v \in x.lines
Restocks(x, v)      == x.at = "effects" /\ v \in x.todo /\ x.to # "paid"
Settles(x, v)       == x.at = "effects" /\ v \in x.todo /\ x.from = "pending_payment"

Holders(v)       == {a \in Checkouts : Holds(request[a], v)}
Sold(v)          == {o \in Orders : Sells(order[o], v)}
Unpaid(v)        == {o \in Orders : Owes(order[o], v)}
Restockers(v)    == {c \in Actors : Restocks(actor[c], v)}
Settlers(v)      == {c \in Actors : Settles(actor[c], v)}

\* The counters without what was released twice.
Left(v)  == available[v] - twice[v]
Taken(v) == committed[v] + twice[v]

\* Units for sale, held by checkouts, in standing orders, and on their way back.
Balance(v) == Left(v) + Cardinality(Holders(v))
                + Cardinality(Sold(v))
                + Cardinality(Restockers(v))

\* Units that the counter of commitments should show.
Due(v) == Cardinality(Holders(v))
            + Cardinality(Unpaid(v))
            + Cardinality(Settlers(v))

StockInv ==
  /\ \A v \in Variants : Balance(v) <= Stock[v]
  /\ faults = 0 => \A v \in Variants : Balance(v) = Stock[v] /\ Taken(v) = Due(v)

Inv == TypeInv /\ OrderInv /\ StockInv

-----------------------------------------------------------------------------
(* Counting *)

One(b) == IF b THEN 1 ELSE 0

HeldBy(r, v)         == IF Holds(r, v) THEN 1 ELSE 0
SoldBy(x, v)         == IF Sells(x, v) THEN 1 ELSE 0
UnpaidBy(x, v)       == IF Owes(x, v) THEN 1 ELSE 0
BackBy(x, v)         == IF Restocks(x, v) THEN 1 ELSE 0
SettledBy(x, v)      == IF Settles(x, v) THEN 1 ELSE 0

\* A set of natural numbers has a least one.
LEMMA Least ==
  ASSUME NEW S \in SUBSET Nat, S # {}
  PROVE  \E m \in S : \A n \in S : m <= n
<1>1. PICK m \in S : \A k \in S : <<k, m>> \notin OpToRel(<, Nat)
  BY WFMin, NatLessThanWellFounded, Zenon
<1>2. \A k \in S : ~ (k < m)
  BY <1>1, Zenon DEF OpToRel
<1> QED BY <1>2

\* Sets that differ in one element.
LEMMA Swapped ==
  ASSUME NEW S, NEW T, NEW x, IsFiniteSet(S), S \ {x} = T \ {x}
  PROVE  /\ Cardinality(S) \in Nat /\ Cardinality(T) \in Nat
         /\ Cardinality(T) + One(x \in S) = Cardinality(S) + One(x \in T)
<1> DEFINE U == S \ {x}
<1>1. IsFiniteSet(U) /\ Cardinality(U) \in Nat
  BY FS_RemoveElement, FS_CardinalityType
<1>2. /\ IsFiniteSet(U \cup {x}) /\ Cardinality(U \cup {x}) = Cardinality(U) + 1
  BY <1>1, FS_AddElement
<1>3. Cardinality(S) = Cardinality(U) + One(x \in S)
  <2>1. CASE x \in S
    <3>1. S = U \cup {x}
      BY <2>1
    <3> HIDE DEF U
    <3>2. Cardinality(S) = Cardinality(U \cup {x})
      BY <3>1, Zenon
    <3> QED BY <1>2, <2>1, <3>2 DEF One
  <2>2. CASE x \notin S
    <3>1. S = U
      BY <2>2
    <3> HIDE DEF U
    <3>2. Cardinality(S) = Cardinality(U)
      BY <3>1, Zenon
    <3> QED BY <1>1, <2>2, <3>2 DEF One
  <2> QED BY <2>1, <2>2
<1>4. Cardinality(T) = Cardinality(U) + One(x \in T)
  <2>1. CASE x \in T
    <3>1. T = U \cup {x}
      BY <2>1
    <3> HIDE DEF U
    <3>2. Cardinality(T) = Cardinality(U \cup {x})
      BY <3>1, Zenon
    <3> QED BY <1>2, <2>1, <3>2 DEF One
  <2>2. CASE x \notin T
    <3>1. T = U
      BY <2>2
    <3> HIDE DEF U
    <3>2. Cardinality(T) = Cardinality(U)
      BY <3>1, Zenon
    <3> QED BY <1>1, <2>2, <3>2 DEF One
  <2> QED BY <2>1, <2>2
<1> HIDE DEF U
<1> QED BY <1>1, <1>3, <1>4 DEF One

LEMMA FiniteTables ==
  /\ IsFiniteSet(Orders) /\ IsFiniteSet(Checkouts) /\ IsFiniteSet(Actors)
<1>1. IsFiniteSet(Checkouts) /\ IsFiniteSet(Sellers) /\ IsFiniteSet(Actors)
  BY ShopIsFinite
<1> QED BY <1>1, FS_Product DEF Orders

\* What one row's change does to the counts.
LEMMA HoldersCount ==
  ASSUME request \in [Checkouts -> Request], NEW a \in Checkouts, NEW r, NEW v,
         request' = [request EXCEPT ![a] = r]
  PROVE  Cardinality(Holders(v))' + HeldBy(request[a], v)
           = Cardinality(Holders(v)) + HeldBy(r, v)
<1> DEFINE U == Holders(v)  T == (Holders(v))'
<1>1. IsFiniteSet(U)
  BY FiniteTables, FS_Subset DEF Holders
<1>2. /\ U \ {a} = T \ {a} /\ (a \in U <=> Holds(request[a], v))
      /\ a \in T <=> Holds(r, v)
  BY DEF Holders
<1> HIDE DEF U, T
<1>3. /\ Cardinality(U) \in Nat /\ Cardinality(T) \in Nat
      /\ Cardinality(T) + One(a \in U) = Cardinality(U) + One(a \in T)
  BY <1>1, <1>2, Swapped
<1>4. /\ One(a \in U) = HeldBy(request[a], v)
      /\ One(a \in T) = HeldBy(r, v)
  BY <1>2 DEF One, HeldBy
<1> QED BY <1>3, <1>4 DEF U, T

LEMMA SoldCount ==
  ASSUME order \in [Orders -> Order], NEW o \in Orders, NEW y, NEW v,
         order' = [order EXCEPT ![o] = y]
  PROVE  Cardinality(Sold(v))' + SoldBy(order[o], v)
           = Cardinality(Sold(v)) + SoldBy(y, v)
<1> DEFINE U == Sold(v)  T == (Sold(v))'
<1>1. IsFiniteSet(U)
  BY FiniteTables, FS_Subset DEF Sold
<1>2. /\ U \ {o} = T \ {o} /\ (o \in U <=> Sells(order[o], v))
      /\ o \in T <=> Sells(y, v)
  BY DEF Sold
<1> HIDE DEF U, T
<1>3. /\ Cardinality(U) \in Nat /\ Cardinality(T) \in Nat
      /\ Cardinality(T) + One(o \in U) = Cardinality(U) + One(o \in T)
  BY <1>1, <1>2, Swapped
<1>4. /\ One(o \in U) = SoldBy(order[o], v)
      /\ One(o \in T) = SoldBy(y, v)
  BY <1>2 DEF One, SoldBy
<1> QED BY <1>3, <1>4 DEF U, T

LEMMA UnpaidCount ==
  ASSUME order \in [Orders -> Order], NEW o \in Orders, NEW y, NEW v,
         order' = [order EXCEPT ![o] = y]
  PROVE  Cardinality(Unpaid(v))' + UnpaidBy(order[o], v)
           = Cardinality(Unpaid(v)) + UnpaidBy(y, v)
<1> DEFINE U == Unpaid(v)  T == (Unpaid(v))'
<1>1. IsFiniteSet(U)
  BY FiniteTables, FS_Subset DEF Unpaid
<1>2. /\ U \ {o} = T \ {o} /\ (o \in U <=> Owes(order[o], v))
      /\ o \in T <=> Owes(y, v)
  BY DEF Unpaid
<1> HIDE DEF U, T
<1>3. /\ Cardinality(U) \in Nat /\ Cardinality(T) \in Nat
      /\ Cardinality(T) + One(o \in U) = Cardinality(U) + One(o \in T)
  BY <1>1, <1>2, Swapped
<1>4. /\ One(o \in U) = UnpaidBy(order[o], v)
      /\ One(o \in T) = UnpaidBy(y, v)
  BY <1>2 DEF One, UnpaidBy
<1> QED BY <1>3, <1>4 DEF U, T

LEMMA RestockersCount ==
  ASSUME actor \in [Actors -> Actor], NEW c \in Actors, NEW x, NEW v,
         actor' = [actor EXCEPT ![c] = x]
  PROVE  Cardinality(Restockers(v))' + BackBy(actor[c], v)
           = Cardinality(Restockers(v)) + BackBy(x, v)
<1> DEFINE U == Restockers(v)  T == (Restockers(v))'
<1>1. IsFiniteSet(U)
  BY FiniteTables, FS_Subset DEF Restockers
<1>2. /\ U \ {c} = T \ {c} /\ (c \in U <=> Restocks(actor[c], v))
      /\ c \in T <=> Restocks(x, v)
  BY DEF Restockers
<1> HIDE DEF U, T
<1>3. /\ Cardinality(U) \in Nat /\ Cardinality(T) \in Nat
      /\ Cardinality(T) + One(c \in U) = Cardinality(U) + One(c \in T)
  BY <1>1, <1>2, Swapped
<1>4. /\ One(c \in U) = BackBy(actor[c], v)
      /\ One(c \in T) = BackBy(x, v)
  BY <1>2 DEF One, BackBy
<1> QED BY <1>3, <1>4 DEF U, T

LEMMA SettlersCount ==
  ASSUME actor \in [Actors -> Actor], NEW c \in Actors, NEW x, NEW v,
         actor' = [actor EXCEPT ![c] = x]
  PROVE  Cardinality(Settlers(v))' + SettledBy(actor[c], v)
           = Cardinality(Settlers(v)) + SettledBy(x, v)
<1> DEFINE U == Settlers(v)  T == (Settlers(v))'
<1>1. IsFiniteSet(U)
  BY FiniteTables, FS_Subset DEF Settlers
<1>2. /\ U \ {c} = T \ {c} /\ (c \in U <=> Settles(actor[c], v))
      /\ c \in T <=> Settles(x, v)
  BY DEF Settlers
<1> HIDE DEF U, T
<1>3. /\ Cardinality(U) \in Nat /\ Cardinality(T) \in Nat
      /\ Cardinality(T) + One(c \in U) = Cardinality(U) + One(c \in T)
  BY <1>1, <1>2, Swapped
<1>4. /\ One(c \in U) = SettledBy(actor[c], v)
      /\ One(c \in T) = SettledBy(x, v)
  BY <1>2 DEF One, SettledBy
<1> QED BY <1>3, <1>4 DEF U, T

LEMMA CountsType ==
  ASSUME NEW v
  PROVE  /\ Cardinality(Holders(v)) \in Nat /\ Cardinality(Holders(v))' \in Nat
         /\ Cardinality(Sold(v)) \in Nat
         /\ Cardinality(Sold(v))' \in Nat
         /\ Cardinality(Unpaid(v)) \in Nat
         /\ Cardinality(Unpaid(v))' \in Nat
         /\ Cardinality(Restockers(v)) \in Nat /\ Cardinality(Restockers(v))' \in Nat
         /\ Cardinality(Settlers(v)) \in Nat /\ Cardinality(Settlers(v))' \in Nat
<1> USE FiniteTables, FS_Subset, FS_CardinalityType
<1>1. Cardinality(Holders(v)) \in Nat /\ Cardinality(Holders(v))' \in Nat
  BY DEF Holders
<1>2. /\ Cardinality(Sold(v)) \in Nat /\ Cardinality(Sold(v))' \in Nat
      /\ Cardinality(Unpaid(v)) \in Nat /\ Cardinality(Unpaid(v))' \in Nat
  BY DEF Sold, Unpaid
<1>3. Cardinality(Restockers(v)) \in Nat /\ Cardinality(Restockers(v))' \in Nat
  BY DEF Restockers
<1>4. Cardinality(Settlers(v)) \in Nat /\ Cardinality(Settlers(v))' \in Nat
  BY DEF Settlers
<1> QED BY <1>1, <1>2, <1>3, <1>4

\* The balance of a variant, when one request changes.
LEMMA RequestBalance ==
  ASSUME TypeInv, NEW a \in Checkouts, NEW r, request' = [request EXCEPT ![a] = r],
         order' = order, actor' = actor, NEW v \in Variants,
         available' \in [Variants -> Int], twice' \in [Variants -> Nat]
  PROVE  /\ Balance(v) \in Int /\ Balance(v)' \in Int /\ Due(v) \in Int /\ Due(v)' \in Int
         /\ Balance(v)' - Left(v)' + HeldBy(request[a], v)
              = Balance(v) - Left(v) + HeldBy(r, v)
         /\ Due(v)' + HeldBy(request[a], v) = Due(v) + HeldBy(r, v)
<1>1. /\ request \in [Checkouts -> Request] /\ Left(v) \in Int /\ Left(v)' \in Int
      /\ HeldBy(request[a], v) \in Int /\ HeldBy(r, v) \in Int
  BY DEF TypeInv, Tables, TypeOK, HeldBy, Left
<1>2. Cardinality(Holders(v))' + HeldBy(request[a], v) = Cardinality(Holders(v)) + HeldBy(r, v)
  BY <1>1, HoldersCount
<1>3. /\ Sold(v)' = Sold(v)
      /\ Unpaid(v)' = Unpaid(v)
  BY DEF Sold, Unpaid
<1>4. Restockers(v)' = Restockers(v) /\ Settlers(v)' = Settlers(v)
  BY DEF Restockers, Settlers
<1> QED BY <1>1, <1>2, <1>3, <1>4, CountsType DEF Balance, Due

-----------------------------------------------------------------------------
(* Steps of a checkout *)

\* What a request at "r" knows of its orders.
Knows(a, r) ==
  r.at \notin {"done", "failed", "dead"} =>
    /\ request[a].at \notin {"done", "failed", "dead"}
    /\ r.made = request[a].made

\* What it stops holding it gives back, or a fault has lost it.
GivesBack(a, r) ==
  \A v \in Variants :
    /\ Left(v)' + HeldBy(r, v) <= Left(v) + HeldBy(request[a], v)
    /\ faults' = 0 =>
         /\ Left(v)' + HeldBy(r, v) = Left(v) + HeldBy(request[a], v)
         /\ Taken(v)' + HeldBy(request[a], v) = Taken(v) + HeldBy(r, v)

\* A step of one checkout that leaves the orders alone.
LEMMA RequestStep ==
  ASSUME Inv, NEW a \in Checkouts, NEW r \in Request, Fits(a, r),
         request' = [request EXCEPT ![a] = r], order' = order, actor' = actor,
         Tables', faults' = 0 => faults = 0, Knows(a, r), GivesBack(a, r)
  PROVE  Inv'
<1>0. /\ request \in [Checkouts -> Request] /\ order \in [Orders -> Order]
      /\ available \in [Variants -> Int] /\ committed \in [Variants -> Int]
      /\ available' \in [Variants -> Int] /\ committed' \in [Variants -> Int]
      /\ twice \in [Variants -> Nat] /\ twice' \in [Variants -> Nat]
  BY DEF Inv, TypeInv, Tables, TypeOK
<1>1. TypeInv'
  <2>1. \A b \in Checkouts : Fits(b, request'[b])
    BY <1>0 DEF Inv, TypeInv
  <2>2. \A c \in Actors : Moving(actor[c])'
    BY DEF Inv, TypeInv, Moving, Exists
  <2> QED BY <2>1, <2>2 DEF TypeInv
<1>2. OrderInv'
  <2>1. \A b \in Checkouts, s \in Sellers : Exists(<<b, s>>)' <=> Exists(<<b, s>>)
    BY DEF Exists
  <2>2. OneOrderPerKey'
    BY <2>1 DEF Inv, OrderInv, OneOrderPerKey
  <2>3. ASSUME NEW b \in Checkouts, NEW s \in Sellers,
               request'[b].at \notin {"done", "failed", "dead"}
        PROVE  Exists(<<b, s>>)' <=> s \in request'[b].made
    <3>1. CASE b = a
      BY <1>0, <2>1, <2>3, <3>1 DEF Inv, OrderInv, Knows
    <3>2. CASE b # a
      BY <1>0, <2>1, <2>3, <3>2 DEF Inv, OrderInv
    <3> QED BY <3>1, <3>2
  <2> QED BY <2>2, <2>3 DEF OrderInv
<1>3. StockInv'
  <2>2. ASSUME NEW v \in Variants
        PROVE  /\ Balance(v)' \in Int /\ Balance(v) \in Int /\ Balance(v)' <= Balance(v)
               /\ faults' = 0 => /\ Balance(v)' = Balance(v)
                                 /\ Taken(v) = Due(v) => Taken(v)' = Due(v)'
    <3>1. /\ Balance(v) \in Int /\ Balance(v)' \in Int /\ Due(v) \in Int /\ Due(v)' \in Int
          /\ Balance(v)' - Left(v)' + HeldBy(request[a], v)
               = Balance(v) - Left(v) + HeldBy(r, v)
          /\ Due(v)' + HeldBy(request[a], v) = Due(v) + HeldBy(r, v)
      BY <1>0, RequestBalance DEF Inv
    <3>2. /\ Left(v) \in Int /\ Left(v)' \in Int
          /\ Taken(v) \in Int /\ Taken(v)' \in Int
          /\ HeldBy(request[a], v) \in Int /\ HeldBy(r, v) \in Int
      BY <1>0 DEF HeldBy, Left, Taken
    <3>3. /\ Left(v)' + HeldBy(r, v) <= Left(v) + HeldBy(request[a], v)
          /\ faults' = 0 =>
               /\ Left(v)' + HeldBy(r, v) = Left(v) + HeldBy(request[a], v)
               /\ Taken(v)' + HeldBy(request[a], v) = Taken(v) + HeldBy(r, v)
      BY DEF GivesBack
    <3>4. Balance(v)' <= Balance(v)
      BY <3>1, <3>2, <3>3
    <3>5. ASSUME faults' = 0
          PROVE  Balance(v)' = Balance(v)
      <4>1. Left(v)' + HeldBy(r, v) = Left(v) + HeldBy(request[a], v)
        BY <3>3, <3>5
      <4>2. Balance(v)' >= Balance(v)
        BY <3>1, <3>2, <4>1
      <4> QED BY <3>1, <3>4, <4>2
    <3>6. ASSUME faults' = 0, Taken(v) = Due(v)
          PROVE  Taken(v)' = Due(v)'
      <4>1. Taken(v)' + HeldBy(request[a], v) = Due(v) + HeldBy(r, v)
        BY <3>3, <3>6
      <4>2. Taken(v)' <= Due(v)' /\ Taken(v)' >= Due(v)'
        BY <3>1, <3>2, <4>1
      <4>3. Taken(v)' \in Int /\ Due(v)' \in Int
        BY <3>1, <3>2
      <4> QED BY <4>2, <4>3
    <3> QED BY <3>1, <3>4, <3>5, <3>6
  <2>3. ASSUME NEW v \in Variants
        PROVE  /\ Balance(v)' <= Stock[v]
               /\ faults' = 0 => Balance(v)' = Stock[v] /\ Taken(v)' = Due(v)'
    BY <2>2, ShopIsWellFormed DEF Inv, StockInv
  <2> QED BY <2>3 DEF StockInv
<1> QED BY <1>1, <1>2, <1>3 DEF Inv

\* One that leaves the stock alone, too.
LEMMA QuietStep ==
  ASSUME Inv, NEW a \in Checkouts, NEW r \in Request, Fits(a, r),
         request' = [request EXCEPT ![a] = r], UNCHANGED <<stock, order, actor, twice>>,
         Tables', faults' = 0 => faults = 0, Knows(a, r),
         \A v \in Variants : Holds(r, v) <=> Holds(request[a], v)
  PROVE  Inv'
<1>1. /\ available \in [Variants -> Int] /\ committed \in [Variants -> Int]
      /\ twice \in [Variants -> Nat] /\ twice' = twice
      /\ available' = available /\ committed' = committed /\ order' = order /\ actor' = actor
  BY DEF Inv, TypeInv, Tables, TypeOK, stock
<1>2. GivesBack(a, r)
  BY <1>1 DEF HeldBy, GivesBack, Left, Taken
<1> QED BY <1>1, <1>2, RequestStep

LEMMA RequestTables ==
  ASSUME Inv, NEW a \in Checkouts, NEW r \in Request, request' = [request EXCEPT ![a] = r],
         UNCHANGED <<stock, order, actor, twice>>, faults' \in 0 .. MaxFaults,
         cart' = cart \/ \E b \in Buyers : cart' = [cart EXCEPT ![b] = <<>>],
         \/ redis' = redis
         \/ \E e \in Buyers \X Keys, x \in RedisEntry : redis' = [redis EXCEPT ![e] = x]
  PROVE  Tables'
<1>1. /\ cart \in [Buyers -> Seq(Variants)] /\ redis \in [Buyers \X Keys -> RedisEntry]
      /\ \A b \in Buyers : cart[b] \in {FirstCart[b], <<>>}
  BY DEF Inv, TypeInv, Tables, TypeOK
<1>2. /\ cart' \in [Buyers -> Seq(Variants)]
      /\ \A b \in Buyers : cart'[b] \in {FirstCart[b], <<>>}
  <2>1. <<>> \in Seq(Variants)
    OBVIOUS
  <2> QED BY <1>1, <2>1
<1>3. redis' \in [Buyers \X Keys -> RedisEntry]
  BY <1>1
<1>4. request' \in [Checkouts -> Request]
  BY DEF Inv, TypeInv, Tables, TypeOK
<1>5. /\ available' = available /\ committed' = committed /\ order' = order /\ actor' = actor
      /\ twice' = twice
  BY DEF stock
<1> QED BY <1>2, <1>3, <1>4, <1>5 DEF Inv, TypeInv, Tables, TypeOK

\* A request that holds nothing any more ends.
LEMMA EndStep ==
  ASSUME Inv, NEW a \in Checkouts, NEW label \in {"done", "failed"}, End(a, label),
         UNCHANGED <<stock, order, actor, faults, twice>>,
         cart' = cart \/ \E b \in Buyers : cart' = [cart EXCEPT ![b] = <<>>],
         redis' = redis,
         \A v \in Variants : ~ Holds(request[a], v)
  PROVE  Inv'
<1> DEFINE r == [Unstarted EXCEPT !.at = label]
<1>1. r \in Request /\ r.at = label /\ r.held = {} /\ r.made = {}
  <2>1. <<>> \in Seq(Variants)
    OBVIOUS
  <2> QED BY <2>1 DEF Unstarted, Request, CheckoutLabels
<1>2. request' = [request EXCEPT ![a] = r]
  BY DEF End
<1> HIDE DEF r
<1>3. Fits(a, r) /\ Knows(a, r) /\ \A v \in Variants : ~ Holds(r, v)
  BY <1>1 DEF Fits, Knows, Holds
<1>4. faults' \in 0 .. MaxFaults
  BY DEF Inv, TypeInv, Tables, TypeOK
<1>5. Tables'
  BY <1>1, <1>2, <1>4, RequestTables
<1> QED BY <1>1, <1>2, <1>3, <1>5, QuietStep

\* One that goes on, with what it has.
LEMMA GotoStep ==
  ASSUME Inv, NEW a \in Checkouts, NEW label \in CheckoutLabels, Goto(a, label),
         UNCHANGED <<stock, order, actor, cart, twice>>,
         faults' \in 0 .. MaxFaults, faults' = 0 => faults = 0,
         \/ redis' = redis
         \/ \E e \in Buyers \X Keys, x \in RedisEntry : redis' = [redis EXCEPT ![e] = x],
         Fits(a, [request[a] EXCEPT !.at = label]),
         label = "dead" \/ request[a].at \notin {"done", "failed", "dead"}
  PROVE  Inv'
<1> DEFINE r == [request[a] EXCEPT !.at = label]
<1>1. request \in [Checkouts -> Request]
  BY DEF Inv, TypeInv, Tables, TypeOK
<1>2. r \in Request /\ r.at = label /\ r.held = request[a].held /\ r.made = request[a].made
  BY <1>1, ZenonT(40) DEF Request
<1>3. request' = [request EXCEPT ![a] = r] /\ Fits(a, r)
  BY <1>1 DEF Goto
<1> HIDE DEF r
<1>4. Knows(a, r) /\ \A v \in Variants : Holds(r, v) <=> Holds(request[a], v)
  BY <1>2 DEF Knows, Holds
<1>5. Tables'
  BY <1>2, <1>3, RequestTables
<1>6. UNCHANGED <<stock, order, actor, twice>>
  OBVIOUS
<1> QED BY <1>2, <1>3, <1>4, <1>5, <1>6, QuietStep

LEMMA EntryTyped ==
  ASSUME NEW a \in Checkouts
  PROVE  /\ BuyerOf[a] \in Buyers /\ CartOf(a) \in Seq(Variants)
         /\ KeyOf[a] # NoKey => Entry(a) \in Buyers \X Keys
         /\ \A i, j \in DOMAIN CartOf(a) : CartOf(a)[i] = CartOf(a)[j] => i = j
  BY ShopIsWellFormed, CartLinesDiffer DEF Entry, CartOf

LEMMA ClaimKeyStep ==
  ASSUME Inv, NEW a \in Checkouts, ClaimKey(a)
  PROVE  Inv'
<1>0. /\ request \in [Checkouts -> Request] /\ request[a].at = "idle"
      /\ request[a].held = {} /\ request[a].made = {}
      /\ UNCHANGED <<stock, order, cart, actor, faults, twice>>
      /\ faults \in 0 .. MaxFaults /\ faults' = faults /\ twice' = twice
  BY DEF Inv, TypeInv, Tables, TypeOK, ClaimKey, At, Fits
<1>a. \A v \in Variants : ~ Holds(request[a], v)
  BY <1>0 DEF Holds
<1>1. CASE /\ KeyOf[a] # NoKey /\ redis' = [redis EXCEPT ![Entry(a)] = "pending"]
           /\ request' = [request EXCEPT ![a].at = "load", ![a].claims = TRUE]
  <2> DEFINE r == [request[a] EXCEPT !.at = "load", !.claims = TRUE]
  <2>1. r \in Request /\ r.at = "load" /\ r.held = {} /\ r.made = {}
    BY <1>0 DEF Request, CheckoutLabels
  <2>2. request' = [request EXCEPT ![a] = r]
    BY <1>0, <1>1
  <2> HIDE DEF r
  <2>3. Fits(a, r) /\ Knows(a, r) /\ \A v \in Variants : ~ Holds(r, v)
    BY <1>0, <2>1 DEF Fits, Knows, Holds
  <2>4. \E e \in Buyers \X Keys, x \in RedisEntry : redis' = [redis EXCEPT ![e] = x]
    <3>1. Entry(a) \in Buyers \X Keys /\ "pending" \in RedisEntry
      BY <1>1, EntryTyped DEF RedisEntry
    <3> QED BY <1>1, <3>1
  <2>5. Tables'
    BY <1>0, <2>1, <2>2, <2>4, RequestTables
  <2> QED BY <1>0, <1>a, <2>1, <2>2, <2>3, <2>5, QuietStep
<1>2. CASE (End(a, "failed") \/ End(a, "done")) /\ UNCHANGED redis
  BY <1>0, <1>a, <1>2, EndStep
<1>3. CASE Goto(a, "load") /\ UNCHANGED redis
  <2>1. Fits(a, [request[a] EXCEPT !.at = "load"])
    BY <1>0 DEF Fits, Request
  <2>2. "load" \in CheckoutLabels
    BY DEF CheckoutLabels
  <2> QED BY <1>0, <1>3, <2>1, <2>2, GotoStep
<1> QED BY <1>1, <1>2, <1>3 DEF ClaimKey

LEMMA LoadCartStep ==
  ASSUME Inv, NEW a \in Checkouts, LoadCart(a)
  PROVE  Inv'
<1> DEFINE lines == cart[BuyerOf[a]]
<1>0. /\ request \in [Checkouts -> Request] /\ request[a].at = "load"
      /\ request[a].held = {} /\ request[a].made = {}
      /\ UNCHANGED <<stock, order, cart, redis, actor, faults, twice>>
      /\ faults \in 0 .. MaxFaults /\ faults' = faults /\ twice' = twice
      /\ lines \in {CartOf(a), <<>>}
  BY EntryTyped DEF Inv, TypeInv, Tables, TypeOK, LoadCart, At, Fits, CartOf
<1>a. \A v \in Variants : ~ Holds(request[a], v)
  BY <1>0 DEF Holds
<1>1. CASE End(a, "failed")
  BY <1>0, <1>a, <1>1, EndStep
<1>2. CASE /\ lines # <<>>
           /\ request' = [request EXCEPT ![a].at = "reserve", ![a].lines = lines]
  <2> DEFINE r == [request[a] EXCEPT !.at = "reserve", !.lines = CartOf(a)]
  <2>1. /\ r \in Request /\ r.at = "reserve" /\ r.held = {} /\ r.made = {}
        /\ r.lines = CartOf(a)
    BY <1>0, EntryTyped, ZenonT(40) DEF Request, CheckoutLabels
  <2>2. request' = [request EXCEPT ![a] = r] /\ CartOf(a) # <<>>
    BY <1>0, <1>2
  <2> HIDE DEF r
  <2>3. \E k \in 0 .. Len(r.lines) - 1 :
          r.held = {r.lines[i] : i \in 1 .. k} /\ Cardinality(r.held) = k
    <3>1. Len(CartOf(a)) \in Nat /\ Len(CartOf(a)) # 0
      BY <2>2, EntryTyped
    <3>2. 0 \in 0 .. Len(r.lines) - 1 /\ {r.lines[i] : i \in 1 .. 0} = {}
      BY <2>1, <3>1
    <3> QED BY <2>1, <3>2, FS_EmptySet
  <2>4. Fits(a, r) /\ Knows(a, r) /\ \A v \in Variants : ~ Holds(r, v)
    BY <1>0, <2>1, <2>2, <2>3, FS_EmptySet DEF Fits, Knows, Holds
  <2>5. Tables'
    BY <1>0, <2>1, <2>2, RequestTables
  <2> QED BY <1>0, <1>a, <2>1, <2>2, <2>4, <2>5, QuietStep
<1> QED BY <1>1, <1>2 DEF LoadCart

LEMMA NextLineIs ==
  ASSUME Inv, NEW a \in Checkouts, request[a].at = "reserve"
  PROVE  \E k \in 0 .. Len(CartOf(a)) - 1 :
           /\ request[a].held = {CartOf(a)[i] : i \in 1 .. k}
           /\ Cardinality(request[a].held) = k
           /\ k + 1 \in 1 .. Len(CartOf(a)) /\ NextLine(a) = CartOf(a)[k + 1]
           /\ NextLine(a) \in Variants \ request[a].held
<1>1. /\ request[a].lines = CartOf(a)
      /\ \E k \in 0 .. Len(request[a].lines) - 1 :
           /\ request[a].held = {request[a].lines[i] : i \in 1 .. k}
           /\ Cardinality(request[a].held) = k
  BY DEF Inv, TypeInv, Fits
<1>2. PICK k \in 0 .. Len(CartOf(a)) - 1 :
        /\ request[a].held = {CartOf(a)[i] : i \in 1 .. k}
        /\ Cardinality(request[a].held) = k
  BY <1>1
<1>3. /\ CartOf(a) \in Seq(Variants) /\ Len(CartOf(a)) \in Nat
      /\ DOMAIN CartOf(a) = 1 .. Len(CartOf(a))
      /\ \A i, j \in 1 .. Len(CartOf(a)) : CartOf(a)[i] = CartOf(a)[j] => i = j
  BY EntryTyped
<1>4. k + 1 \in 1 .. Len(CartOf(a)) /\ 1 .. k \subseteq 1 .. Len(CartOf(a)) /\ k + 1 \notin 1 .. k
  BY <1>3
<1>5. NextLine(a) = CartOf(a)[k + 1]
  BY <1>1, <1>2 DEF NextLine
<1>6. CartOf(a)[k + 1] \in Variants /\ CartOf(a)[k + 1] \notin {CartOf(a)[i] : i \in 1 .. k}
  BY <1>3, <1>4
<1> QED BY <1>2, <1>4, <1>5, <1>6

LEMMA ReserveLineStep ==
  ASSUME Inv, NEW a \in Checkouts, ReserveLine(a)
  PROVE  Inv'
<1> DEFINE x    == NextLine(a)
           held == request[a].held \cup {x}
           at   == IF held = Lines(a) THEN "create" ELSE "reserve"
           r    == [request[a] EXCEPT !.held = held, !.at = at]
<1>0. /\ request \in [Checkouts -> Request] /\ request[a].at = "reserve"
      /\ request[a].lines = CartOf(a) /\ CartOf(a) # <<>> /\ request[a].made = {}
      /\ IsFiniteSet(request[a].held)
      /\ Reserve(x) /\ UNCHANGED <<order, cart, redis, actor, faults, twice>>
      /\ available \in [Variants -> Int] /\ committed \in [Variants -> Int]
      /\ \A v \in Variants : available[v] >= 0
      /\ twice \in [Variants -> Nat] /\ twice' = twice
  BY DEF Inv, TypeInv, Tables, TypeOK, ReserveLine, At, Fits
<1>1. PICK k \in 0 .. Len(CartOf(a)) - 1 :
        /\ request[a].held = {CartOf(a)[i] : i \in 1 .. k}
        /\ Cardinality(request[a].held) = k
        /\ k + 1 \in 1 .. Len(CartOf(a)) /\ NextLine(a) = CartOf(a)[k + 1]
        /\ NextLine(a) \in Variants \ request[a].held
  BY <1>0, NextLineIs
<1>2. request' = [request EXCEPT ![a] = r]
  BY <1>0 DEF ReserveLine
<1>3. /\ x \in Variants /\ x \notin request[a].held /\ request[a].held \subseteq Variants
  BY <1>0, <1>1 DEF Request
<1>4. held = {CartOf(a)[i] : i \in 1 .. k + 1}
  <2>1. 1 .. k + 1 = (1 .. k) \cup {k + 1}
    BY <1>1
  <2> QED BY <1>1, <2>1
<1>5. IsFiniteSet(held) /\ Cardinality(held) = k + 1
  BY <1>0, <1>1, FS_AddElement
<1>6. Lines(a) = {CartOf(a)[i] : i \in DOMAIN CartOf(a)}
  BY <1>0 DEF Lines
<1>7. /\ CartOf(a) \in Seq(Variants) /\ Len(CartOf(a)) \in Nat
      /\ DOMAIN CartOf(a) = 1 .. Len(CartOf(a))
  BY EntryTyped
<1>8. held # Lines(a) => k + 1 \in 0 .. Len(CartOf(a)) - 1
  <2>1. k + 1 = Len(CartOf(a)) => held = Lines(a)
    BY <1>4, <1>6, <1>7
  <2> HIDE DEF x, held
  <2>2. /\ k \in Int /\ 0 <= k /\ k + 1 <= Len(CartOf(a)) /\ Len(CartOf(a)) \in Int
    BY <1>1, <1>7
  <2> QED BY <2>1, <2>2
<1> HIDE DEF x, held
<1>9. /\ r \in Request /\ r.held = held /\ r.lines = CartOf(a) /\ r.made = {}
      /\ r.at = IF held = Lines(a) THEN "create" ELSE "reserve"
  <2>1. held \subseteq Variants
    BY <1>3 DEF held
  <2> QED BY <1>0, <2>1 DEF Request, CheckoutLabels
<1> HIDE DEF r
<1>10. Fits(a, r)
  <2>1. CASE held = Lines(a)
    <3>1. 1 \in DOMAIN CartOf(a)
      BY <1>0, <1>7
    <3> QED BY <1>0, <1>6, <1>9, <2>1, <3>1 DEF Fits, LinesOf
  <2>2. CASE held # Lines(a)
    <3>1. \E n \in 0 .. Len(r.lines) - 1 :
            r.held = {r.lines[i] : i \in 1 .. n} /\ Cardinality(r.held) = n
      BY <1>4, <1>5, <1>8, <1>9, <2>2
    <3> QED BY <1>0, <1>5, <1>9, <2>2, <3>1 DEF Fits
  <2> QED BY <2>1, <2>2
<1>11. Knows(a, r)
  BY <1>0, <1>9 DEF Knows
<1>12. /\ available[x] >= 1
       /\ available' = [available EXCEPT ![x] = @ - 1]
       /\ committed' = [committed EXCEPT ![x] = @ + 1]
  BY <1>0 DEF Reserve
<1>13. \A v \in Variants :
         /\ HeldBy(r, v) = IF v = x THEN 1 ELSE HeldBy(request[a], v)
         /\ HeldBy(request[a], x) = 0
  BY <1>0, <1>3, <1>9 DEF HeldBy, Holds, held
<1>14. GivesBack(a, r)
  <2>1. ASSUME NEW v \in Variants
        PROVE  /\ Left(v)' + HeldBy(r, v) = Left(v) + HeldBy(request[a], v)
               /\ Taken(v)' + HeldBy(request[a], v) = Taken(v) + HeldBy(r, v)
               /\ Left(v)' + HeldBy(r, v) \in Int
    <3>1. CASE v = x
      <4>1. /\ available[v] \in Int /\ committed[v] \in Int /\ twice[v] \in Int
            /\ available'[v] = available[v] - 1 /\ committed'[v] = committed[v] + 1
            /\ twice'[v] = twice[v]
        BY <1>0, <1>3, <1>12, <3>1
      <4>2. HeldBy(r, v) = 1 /\ HeldBy(request[a], v) = 0
        BY <1>13, <3>1
      <4> QED BY <4>1, <4>2 DEF Left, Taken
    <3>2. CASE v # x
      <4>1. HeldBy(request[a], v) \in Int /\ HeldBy(r, v) = HeldBy(request[a], v)
        BY <1>13, <3>2 DEF HeldBy
      <4> QED BY <1>0, <1>12, <3>2, <4>1 DEF Left, Taken
    <3> QED BY <3>1, <3>2
  <2> QED BY <2>1 DEF GivesBack
<1>15. Tables'
  <2>1. /\ available' \in [Variants -> Int] /\ committed' \in [Variants -> Int]
        /\ \A v \in Variants : available'[v] >= 0
    BY <1>0, <1>3, <1>12
  <2>2. request' \in [Checkouts -> Request]
    BY <1>0, <1>2, <1>9
  <2> QED BY <1>0, <2>1, <2>2 DEF Inv, TypeInv, Tables, TypeOK
<1> QED BY <1>0, <1>2, <1>9, <1>10, <1>11, <1>14, <1>15, RequestStep

LEMMA OutOfStockStep ==
  ASSUME Inv, NEW a \in Checkouts, OutOfStock(a)
  PROVE  Inv'
<1>1. /\ request \in [Checkouts -> Request] /\ request[a].at = "reserve"
      /\ request[a].lines = CartOf(a) /\ CartOf(a) # <<>> /\ request[a].made = {}
      /\ Goto(a, "rollback") /\ UNCHANGED <<stock, order, cart, redis, actor, faults, twice>>
      /\ faults \in 0 .. MaxFaults
  BY DEF Inv, TypeInv, Tables, TypeOK, OutOfStock, At, Fits
<1>2. Fits(a, [request[a] EXCEPT !.at = "rollback"])
  BY <1>1 DEF Fits, Request
<1>3. "rollback" \in CheckoutLabels
  BY DEF CheckoutLabels
<1> QED BY <1>1, <1>2, <1>3, GotoStep

\* A unit that is lost with the line is neither for sale nor held.
LEMMA ReserveThrowsStep ==
  ASSUME Inv, NEW a \in Checkouts, ReserveThrows(a)
  PROVE  Inv'
<1> DEFINE r == [request[a] EXCEPT !.at = "rollback"]
<1>1. /\ request \in [Checkouts -> Request] /\ request[a].at = "reserve"
      /\ request[a].lines = CartOf(a) /\ CartOf(a) # <<>> /\ request[a].made = {}
      /\ Goto(a, "rollback") /\ UNCHANGED <<order, cart, redis, actor, twice>>
      /\ faults \in 0 .. MaxFaults /\ twice \in [Variants -> Nat] /\ twice' = twice
      /\ available \in [Variants -> Int] /\ committed \in [Variants -> Int]
      /\ \A v \in Variants : available[v] >= 0
  BY DEF Inv, TypeInv, Tables, TypeOK, ReserveThrows, At, Fits
<1>2. r \in Request /\ Fits(a, r)
  BY <1>1 DEF Fits, Request, CheckoutLabels
<1>3. "rollback" \in CheckoutLabels
  BY DEF CheckoutLabels
<1>4. CASE UNCHANGED <<stock, faults>>
  BY <1>1, <1>2, <1>3, <1>4, GotoStep
<1>5. CASE Fault /\ Reserve(NextLine(a))
  <2>1. PICK x \in Variants : x = NextLine(a)
    BY <1>1, NextLineIs
  <2>2. /\ available[x] >= 1
        /\ available' = [available EXCEPT ![x] = @ - 1]
        /\ committed' = [committed EXCEPT ![x] = @ + 1]
        /\ faults' \in 0 .. MaxFaults /\ faults' # 0
    BY <1>1, <1>5, <2>1, ThrowingCheckouts DEF Reserve, Fault
  <2>3. /\ available' \in [Variants -> Int] /\ committed' \in [Variants -> Int]
        /\ \A v \in Variants : available'[v] >= 0 /\ available'[v] <= available[v]
    BY <1>1, <2>2
  <2>4. request' = [request EXCEPT ![a] = r] /\ request' \in [Checkouts -> Request]
    BY <1>1, <1>2 DEF Goto
  <2>5. Tables'
    BY <1>1, <2>2, <2>3, <2>4 DEF Inv, TypeInv, Tables, TypeOK
  <2>6. r.held = request[a].held /\ r.made = request[a].made /\ r.at = "rollback"
    BY <1>1 DEF Request
  <2> HIDE DEF r
  <2>7. Knows(a, r)
    BY <1>1, <2>6 DEF Knows
  <2>8. GivesBack(a, r)
    <3>1. \A v \in Variants : HeldBy(r, v) = HeldBy(request[a], v) /\ HeldBy(r, v) \in Int
      BY <2>6 DEF HeldBy, Holds
    <3>2. \A v \in Variants : Left(v)' <= Left(v) /\ Left(v)' \in Int /\ Left(v) \in Int
      BY <1>1, <2>3 DEF Left
    <3> QED BY <2>2, <3>1, <3>2 DEF GivesBack
  <2> QED BY <1>1, <1>2, <2>2, <2>4, <2>5, <2>7, <2>8, RequestStep
<1> QED BY <1>4, <1>5 DEF ReserveThrows

\* The next seller has no order yet.
LEMMA NextSellerIs ==
  ASSUME Inv, NEW a \in Checkouts, request[a].at = "create"
  PROVE  /\ NextSeller(a) \in Sellers \ request[a].made
         /\ <<a, NextSeller(a)>> \in Orders /\ ~ Exists(<<a, NextSeller(a)>>)
<1> DEFINE lines   == CartOf(a)
           made    == request[a].made
           next(i) == /\ SellerOf[lines[i]] \notin made
                      /\ \A j \in 1 .. i - 1 : SellerOf[lines[j]] \in made
           S       == {i \in DOMAIN lines : SellerOf[lines[i]] \notin made}
<1>1. /\ request[a].lines = lines /\ lines # <<>>
      /\ \E i \in DOMAIN lines : SellerOf[lines[i]] \notin made
  BY DEF Inv, TypeInv, Fits
<1>2. /\ lines \in Seq(Variants) /\ Len(lines) \in Nat /\ DOMAIN lines = 1 .. Len(lines)
      /\ \A i \in DOMAIN lines : SellerOf[lines[i]] \in Sellers
  BY EntryTyped, ShopIsWellFormed
<1>3. S \in SUBSET Nat /\ S # {}
  BY <1>1, <1>2
<1>4. PICK m \in S : \A n \in S : m <= n
  BY <1>3, Least
<1>5. m \in DOMAIN lines /\ next(m)
  <2>1. \A j \in 1 .. m - 1 : j \in DOMAIN lines /\ j \notin S
    BY <1>2, <1>4
  <2> QED BY <1>4, <2>1
<1>6. PICK i \in DOMAIN lines : /\ i = CHOOSE n \in DOMAIN lines : next(n)
                                /\ next(i)
  BY <1>5
<1>7. NextSeller(a) = SellerOf[lines[i]]
  BY <1>1, <1>6 DEF NextSeller
<1>8. NextSeller(a) \in Sellers \ made
  BY <1>2, <1>6, <1>7
<1>9. <<a, NextSeller(a)>> \in Orders /\ ~ Exists(<<a, NextSeller(a)>>)
  BY <1>8 DEF Inv, OrderInv, Orders
<1> QED BY <1>8, <1>9

LEMMA KeyConflictStep ==
  ASSUME Inv, NEW a \in Checkouts, KeyConflict(a)
  PROVE  Inv'
<1> DEFINE r == [request[a] EXCEPT !.at = "rollback", !.then = "converge"]
           s == NextSeller(a)
<1>0. /\ request \in [Checkouts -> Request] /\ request[a].at = "create"
      /\ request[a].lines = CartOf(a) /\ CartOf(a) # <<>>
      /\ request' = [request EXCEPT ![a].at = "rollback", ![a].then = "converge"]
      /\ KeyTaken(a, s) /\ UNCHANGED <<stock, order, cart, redis, actor, faults, twice>>
      /\ faults \in 0 .. MaxFaults
  BY DEF Inv, TypeInv, Tables, TypeOK, KeyConflict, At, Fits
<1>1. /\ r \in Request /\ r.at = "rollback" /\ r.held = request[a].held
      /\ r.made = request[a].made /\ r.lines = CartOf(a)
  BY <1>0 DEF Request, CheckoutLabels
<1>2. request' = [request EXCEPT ![a] = r]
  BY <1>0
<1> HIDE DEF r, s
<1>4. Fits(a, r) /\ Knows(a, r) /\ \A v \in Variants : Holds(r, v) <=> Holds(request[a], v)
  BY <1>0, <1>1 DEF Fits, Knows, Holds
<1>5. Tables'
  BY <1>0, <1>1, <1>2, RequestTables
<1> QED BY <1>0, <1>1, <1>2, <1>4, <1>5, QuietStep

LEMMA InsertThrowsStep ==
  ASSUME Inv, NEW a \in Checkouts, InsertThrows(a)
  PROVE  Inv'
<1>1. /\ request \in [Checkouts -> Request] /\ request[a].at = "create"
      /\ request[a].lines = CartOf(a) /\ CartOf(a) # <<>>
      /\ Goto(a, "rollback") /\ UNCHANGED <<stock, order, cart, redis, actor, faults, twice>>
      /\ faults \in 0 .. MaxFaults
  BY DEF Inv, TypeInv, Tables, TypeOK, InsertThrows, At, Fits
<1>2. Fits(a, [request[a] EXCEPT !.at = "rollback"])
  BY <1>1 DEF Fits, Request
<1>3. "rollback" \in CheckoutLabels
  BY DEF CheckoutLabels
<1> QED BY <1>1, <1>2, <1>3, GotoStep

LEMMA RollbackLineStep ==
  ASSUME Inv, NEW a \in Checkouts, NEW x \in Variants, RollbackLine(a, x)
  PROVE  Inv'
<1> DEFINE r == [request[a] EXCEPT !.held = @ \ {x}]
<1>0. /\ request \in [Checkouts -> Request] /\ request[a].at = "rollback"
      /\ request[a].lines = CartOf(a) /\ CartOf(a) # <<>> /\ x \in request[a].held
      /\ twice \in [Variants -> Nat]
      /\ available \in [Variants -> Int] /\ committed \in [Variants -> Int]
      /\ \A v \in Variants : available[v] >= 0
      /\ faults \in Nat /\ faults \in 0 .. MaxFaults
      /\ order' = order /\ cart' = cart /\ redis' = redis /\ actor' = actor
  BY DEF Inv, TypeInv, Tables, TypeOK, StockInv, RollbackLine, At, Fits
<1>1. /\ r \in Request /\ r.at = "rollback" /\ r.held = request[a].held \ {x}
      /\ r.made = request[a].made /\ r.lines = CartOf(a)
  BY <1>0 DEF Request
<1>2. request' = [request EXCEPT ![a] = r]
  BY <1>0 DEF RollbackLine
<1> HIDE DEF r
<1>3. Fits(a, r) /\ Knows(a, r)
  BY <1>0, <1>1 DEF Fits, Knows
<1> DEFINE late == SellerOf[x] \in request[a].made
<1>4. \/ /\ available' = [available EXCEPT ![x] = @ + 1]
         /\ committed' = [committed EXCEPT ![x] = @ - 1] /\ faults' = faults
         /\ twice' = [twice EXCEPT ![x] = IF late THEN @ + 1 ELSE @]
      \/ /\ available' = available /\ committed' = committed /\ twice' = twice
         /\ faults < MaxFaults /\ faults' = faults + 1
  BY DEF RollbackLine, Release, Fault, stock
<1>5. Tables' /\ (faults' = 0 => faults = 0)
  <2>1. /\ available' \in [Variants -> Int] /\ committed' \in [Variants -> Int]
        /\ twice' \in [Variants -> Nat]
        /\ \A v \in Variants : available'[v] >= 0
    <3>1. CASE /\ available' = [available EXCEPT ![x] = @ + 1]
               /\ committed' = [committed EXCEPT ![x] = @ - 1]
               /\ twice' = [twice EXCEPT ![x] = IF late THEN @ + 1 ELSE @]
      BY <1>0, <3>1
    <3>2. CASE available' = available /\ committed' = committed /\ twice' = twice
      BY <1>0, <3>2
    <3> QED BY <1>4, <3>1, <3>2
  <2>2. request' \in [Checkouts -> Request]
    BY <1>0, <1>1, <1>2
  <2>3. faults' \in 0 .. MaxFaults /\ (faults' = 0 => faults = 0)
    BY <1>0, <1>4, ThrowingCheckouts
  <2> QED BY <1>0, <2>1, <2>2, <2>3 DEF Inv, TypeInv, Tables, TypeOK
<1>6. GivesBack(a, r)
  <2>1. /\ HeldBy(request[a], x) = (IF late THEN 0 ELSE 1) /\ HeldBy(r, x) = 0
        /\ \A v \in Variants \ {x} : HeldBy(r, v) = HeldBy(request[a], v)
        /\ \A v \in Variants : HeldBy(request[a], v) \in Int
    BY <1>0, <1>1 DEF HeldBy, Holds
  <2> HIDE DEF late
  <2>2. ASSUME NEW v \in Variants
        PROVE  /\ Left(v)' + HeldBy(r, v) <= Left(v) + HeldBy(request[a], v)
               /\ faults' = 0 =>
                    /\ Left(v)' + HeldBy(r, v) = Left(v) + HeldBy(request[a], v)
                    /\ Taken(v)' + HeldBy(request[a], v) = Taken(v) + HeldBy(r, v)
    <3>1. CASE v = x
      BY <1>0, <1>4, <2>1, <3>1 DEF Left, Taken
    <3>2. CASE v # x
      BY <1>0, <1>4, <2>1, <3>2 DEF Left, Taken
    <3> QED BY <3>1, <3>2
  <2> QED BY <2>2 DEF GivesBack
<1> QED BY <1>0, <1>1, <1>2, <1>3, <1>5, <1>6, RequestStep

LEMMA RolledBackStep ==
  ASSUME Inv, NEW a \in Checkouts, RolledBack(a)
  PROVE  Inv'
<1>1. PICK label \in {"done", "failed"} : End(a, label)
  BY DEF RolledBack
<1>2. /\ UNCHANGED <<stock, order, cart, redis, actor, faults, twice>>
      /\ \A v \in Variants : ~ Holds(request[a], v)
  BY DEF RolledBack, Holds
<1> QED BY <1>1, <1>2, EndStep

LEMMA StoreGroupStep ==
  ASSUME Inv, NEW a \in Checkouts, StoreGroup(a)
  PROVE  Inv'
<1>1. /\ request \in [Checkouts -> Request] /\ request[a].at = "store"
      /\ Goto(a, "clear") /\ UNCHANGED <<stock, order, cart, actor, faults, twice>>
      /\ faults \in 0 .. MaxFaults /\ Fits(a, request[a])
      /\ redis \in [Buyers \X Keys -> RedisEntry]
  BY DEF Inv, TypeInv, Tables, TypeOK, StoreGroup, At
<1>2. Fits(a, [request[a] EXCEPT !.at = "clear"])
  BY <1>1 DEF Fits, Request, LinesOf
<1>3. "clear" \in CheckoutLabels
  BY DEF CheckoutLabels
<1>4. \/ redis' = redis
      \/ \E e \in Buyers \X Keys, x \in RedisEntry : redis' = [redis EXCEPT ![e] = x]
  <2>1. CASE redis' = [redis EXCEPT ![Entry(a)] = a]
    <3>1. CASE Entry(a) \in Buyers \X Keys
      BY <2>1, <3>1 DEF RedisEntry
    <3>2. CASE Entry(a) \notin Buyers \X Keys
      BY <1>1, <2>1, <3>2
    <3> QED BY <3>1, <3>2
  <2> QED BY <2>1 DEF StoreGroup
<1> QED BY <1>1, <1>2, <1>3, <1>4, GotoStep

LEMMA ClearCartStep ==
  ASSUME Inv, NEW a \in Checkouts, ClearCart(a)
  PROVE  Inv'
<1>1. /\ request[a].at = "clear" /\ Fits(a, request[a]) /\ End(a, "done")
      /\ UNCHANGED <<stock, order, redis, actor, faults, twice>>
      /\ cart' = [cart EXCEPT ![BuyerOf[a]] = <<>>]
  BY DEF Inv, TypeInv, ClearCart, At
<1>2. \A v \in Variants : ~ Holds(request[a], v)
  BY <1>1 DEF Fits, Holds
<1>3. \E b \in Buyers : cart' = [cart EXCEPT ![b] = <<>>]
  BY <1>1, EntryTyped
<1> QED BY <1>1, <1>2, <1>3, EndStep

\* The lines of an order are held no more by the request, but by the order.
LEMMA InsertOrderStep ==
  ASSUME Inv, NEW a \in Checkouts, InsertOrder(a)
  PROVE  Inv'
<1> DEFINE s     == NextSeller(a)
           o     == <<a, s>>
           lines == {v \in Lines(a) : SellerOf[v] = s}
           made  == request[a].made \cup {s}
           at    == IF \A v \in Lines(a) : SellerOf[v] \in made THEN "store" ELSE "create"
           r     == [request[a] EXCEPT !.made = made, !.at = at]
           y     == [status |-> "pending_payment", lines |-> lines]
<1>0. /\ request \in [Checkouts -> Request] /\ order \in [Orders -> Order]
      /\ request[a].at = "create"
      /\ request[a].lines = CartOf(a) /\ CartOf(a) # <<>>
      /\ request[a].held = LinesOf(request[a]) /\ Lines(a) = LinesOf(request[a])
      /\ request[a].held \subseteq Variants
      /\ request[a].made \subseteq Sellers
      /\ UNCHANGED <<stock, cart, redis, actor, faults, twice>>
      /\ available' = available /\ committed' = committed
      /\ faults' = faults /\ actor' = actor
      /\ available \in [Variants -> Int] /\ committed \in [Variants -> Int]
      /\ twice \in [Variants -> Nat] /\ twice' = twice
  BY DEF Inv, TypeInv, Tables, TypeOK, InsertOrder, At, Fits, Lines, LinesOf, Request, stock
<1>1. /\ s \in Sellers \ request[a].made /\ o \in Orders /\ ~ Exists(o)
  BY <1>0, NextSellerIs
<1>2. request' = [request EXCEPT ![a] = r] /\ order' = [order EXCEPT ![o] = y]
  BY <1>0 DEF InsertOrder
<1>3. ~ KeyTaken(a, s)
  BY DEF InsertOrder
<1>4. /\ y \in Order /\ y.status = "pending_payment" /\ y.lines = lines
  BY <1>0 DEF Order, OrderStatus
<1>5. /\ r \in Request /\ r.made = made /\ r.held = Lines(a) /\ r.lines = CartOf(a)
      /\ r.at = IF \A v \in Lines(a) : SellerOf[v] \in made THEN "store" ELSE "create"
  BY <1>0, <1>1 DEF Request, CheckoutLabels
<1>6. /\ lines \subseteq Variants
      /\ \A v \in Variants : v \in lines <=> v \in Lines(a) /\ SellerOf[v] = s
  BY <1>0
<1>7. \A n \in Sellers : n \in made <=> n \in request[a].made \/ n = s
  BY <1>1
<1> HIDE DEF s, o, lines, made, at, r, y
<1>8. /\ o = <<a, s>>
      /\ order'[o].status = "pending_payment"
      /\ \A p \in Orders : p # o => order'[p] = order[p]
      /\ \A p \in Orders : Exists(p) => Exists(p)'
  BY <1>0, <1>1, <1>2, <1>4 DEF Exists, o
<1>9. TypeInv'
  <2>1. Fits(a, r)
    <3>1. r.at = "create" => \E i \in DOMAIN r.lines : SellerOf[r.lines[i]] \notin r.made
      <4>1. Lines(a) = {CartOf(a)[i] : i \in DOMAIN CartOf(a)}
        BY <1>0 DEF Lines
      <4> QED BY <1>5, <4>1
    <3>2. r.at = "store" => \A v \in r.held : SellerOf[v] \in r.made
      BY <1>5
    <3>3. r.held = LinesOf(r)
      BY <1>0, <1>5 DEF LinesOf
    <3> QED BY <1>0, <1>1, <1>5, <3>1, <3>2, <3>3 DEF Fits
  <2>2. \A b \in Checkouts : Fits(b, request'[b])
    BY <1>0, <1>2, <2>1 DEF Inv, TypeInv
  <2>3. Tables'
    BY <1>0, <1>1, <1>2, <1>4, <1>5 DEF Inv, TypeInv, Tables, TypeOK
  <2>4. ASSUME NEW c \in Actors
        PROVE  Moving(actor[c])'
    <3>1. Moving(actor[c])
      BY DEF Inv, TypeInv
    <3> QED BY <1>0, <1>8, <3>1 DEF Moving
  <2> QED BY <2>2, <2>3, <2>4 DEF TypeInv
<1>10. OrderInv'
  <2>1. /\ \A n \in Sellers : Exists(<<a, n>>)' <=> Exists(<<a, n>>) \/ n = s
        /\ \A b \in Checkouts \ {a}, n \in Sellers : Exists(<<b, n>>)' <=> Exists(<<b, n>>)
    BY <1>1, <1>8 DEF Exists, Orders
  <2>2. ASSUME NEW b \in Checkouts, NEW n \in Sellers,
               request'[b].at \notin {"done", "failed", "dead"}
        PROVE  Exists(<<b, n>>)' <=> n \in request'[b].made
    <3>1. CASE b = a
      BY <1>0, <1>2, <1>5, <1>7, <2>1, <3>1 DEF Inv, OrderInv
    <3>2. CASE b # a
      BY <1>0, <1>2, <2>1, <2>2, <3>2 DEF Inv, OrderInv
    <3> QED BY <3>1, <3>2
  <2>4. OneOrderPerKey'
    <3> SUFFICES ASSUME NEW b \in Checkouts, NEW d \in Checkouts, NEW n \in Sellers,
                        b # d, KeyOf[b] = KeyOf[d], KeyOf[b] # NoKey,
                        Exists(<<b, n>>)', Exists(<<d, n>>)'
                 PROVE  FALSE
      BY DEF OneOrderPerKey
    <3>1. ~ (Exists(<<b, n>>) /\ Exists(<<d, n>>))
      BY DEF Inv, OrderInv, OneOrderPerKey
    <3>2. \A e \in Checkouts : KeyOf[e] = KeyOf[a] /\ KeyOf[a] # NoKey => ~ Exists(<<e, s>>)
      BY <1>3 DEF KeyTaken
    <3> QED BY <2>1, <3>1, <3>2
  <2> QED BY <2>2, <2>4 DEF OrderInv
<1>11. StockInv'
  <2>a. order \in [Orders -> Order] /\ o \in Orders /\ order' = [order EXCEPT ![o] = y]
    BY <1>0, <1>1, <1>2
  <2>2. ASSUME NEW v \in Variants
        PROVE  /\ Balance(v)' = Balance(v) /\ Due(v)' = Due(v)
    <3>1. /\ HeldBy(request[a], v) = HeldBy(r, v) + (IF v \in lines THEN 1 ELSE 0)
          /\ HeldBy(r, v) \in Int
      <4>1. SellerOf[v] \in Sellers
        BY ShopIsWellFormed
      <4> QED BY <1>0, <1>1, <1>5, <1>6, <1>7, <4>1 DEF HeldBy, Holds
    <3>2. /\ SoldBy(order[o], v) = 0 /\ UnpaidBy(order[o], v) = 0
          /\ SoldBy(y, v) = IF v \in lines THEN 1 ELSE 0
          /\ UnpaidBy(y, v) = IF v \in lines THEN 1 ELSE 0
      BY <1>1, <1>4, ZenonT(40) DEF SoldBy, UnpaidBy, Sells, Owes, Exists, Standing, OrderStatus
    <3>3. Cardinality(Holders(v))' + HeldBy(request[a], v)
            = Cardinality(Holders(v)) + HeldBy(r, v)
      BY <1>0, <1>2, HoldersCount
    <3>4. /\ Cardinality(Sold(v))' + SoldBy(order[o], v) = Cardinality(Sold(v)) + SoldBy(y, v)
          /\ Cardinality(Unpaid(v))' + UnpaidBy(order[o], v)
               = Cardinality(Unpaid(v)) + UnpaidBy(y, v)
      BY <2>a, SoldCount, UnpaidCount
    <3>6. Restockers(v)' = Restockers(v) /\ Settlers(v)' = Settlers(v)
      BY <1>0 DEF Restockers, Settlers
    <3> DEFINE H1 == Cardinality(Holders(v))  H2 == Cardinality(Holders(v))'
               S1 == Cardinality(Sold(v))
               S2 == Cardinality(Sold(v))'
               P1 == Cardinality(Unpaid(v))
               P2 == Cardinality(Unpaid(v))'
    <3>7. H1 \in Nat /\ H2 \in Nat /\ S1 \in Nat /\ S2 \in Nat /\ P1 \in Nat /\ P2 \in Nat
      BY CountsType
    <3>8. H2 + S2 = H1 + S1 /\ H2 + P2 = H1 + P1
      BY <3>1, <3>2, <3>3, <3>4, <3>7
    <3>9. /\ Balance(v) = Left(v) + H1 + S1 + Cardinality(Restockers(v))
          /\ Balance(v)' = Left(v) + H2 + S2 + Cardinality(Restockers(v))
          /\ Due(v) = H1 + P1 + Cardinality(Settlers(v))
          /\ Due(v)' = H2 + P2 + Cardinality(Settlers(v))
      BY <1>0, <3>6 DEF Balance, Due, Left
    <3>10. /\ Left(v) \in Int
           /\ Cardinality(Restockers(v)) \in Nat /\ Cardinality(Settlers(v)) \in Nat
      BY <1>0, CountsType DEF Left
    <3> HIDE DEF H1, H2, S1, S2, P1, P2
    <3> QED BY <3>7, <3>8, <3>9, <3>10
  <2> QED BY <1>0, <2>2 DEF Inv, StockInv, Taken
<1> QED BY <1>9, <1>10, <1>11 DEF Inv

-----------------------------------------------------------------------------
(* Steps of a transition *)

\* Only an unpaid order is paid or awaits its payment, and one that is over
\* stays so.
LEMMA TransitionTable ==
  ASSUME NEW f \in OrderStatus, NEW t \in Transitions[f]
  PROVE  /\ t \in OrderStatus \ {"pending_payment"} /\ f \in Standing
         /\ t = "paid" => f = "pending_payment"
         /\ f = "pending_payment" => t \in {"paid", "cancelled"}
  BY DEF OrderStatus, Transitions, Standing

\* The balance of a variant, when one transition changes.
LEMMA TransitionBalance ==
  ASSUME TypeInv, NEW c \in Actors, NEW x, actor' = [actor EXCEPT ![c] = x],
         order' = order, request' = request, NEW v \in Variants,
         available' \in [Variants -> Int], twice' \in [Variants -> Nat]
  PROVE  /\ Balance(v) \in Int /\ Balance(v)' \in Int /\ Due(v) \in Int /\ Due(v)' \in Int
         /\ Balance(v)' - Left(v)' + BackBy(actor[c], v)
              = Balance(v) - Left(v) + BackBy(x, v)
         /\ Due(v)' + SettledBy(actor[c], v) = Due(v) + SettledBy(x, v)
<1>1. /\ actor \in [Actors -> Actor] /\ Left(v) \in Int /\ Left(v)' \in Int
      /\ BackBy(actor[c], v) \in Int /\ BackBy(x, v) \in Int
      /\ SettledBy(actor[c], v) \in Int /\ SettledBy(x, v) \in Int
  BY DEF TypeInv, Tables, TypeOK, BackBy, SettledBy, Left
<1>2. /\ Cardinality(Restockers(v))' + BackBy(actor[c], v)
           = Cardinality(Restockers(v)) + BackBy(x, v)
      /\ Cardinality(Settlers(v))' + SettledBy(actor[c], v)
           = Cardinality(Settlers(v)) + SettledBy(x, v)
  BY <1>1, RestockersCount, SettlersCount
<1>3. Sold(v)' = Sold(v) /\ Unpaid(v)' = Unpaid(v)
  BY DEF Sold, Unpaid
<1>4. Holders(v)' = Holders(v)
  BY DEF Holders
<1> QED BY <1>1, <1>2, <1>3, <1>4, CountsType DEF Balance, Due

\* What is on its way back comes back, or a fault has lost it.
Settled(c, x) ==
  \A v \in Variants :
    /\ Left(v)' + BackBy(x, v) <= Left(v) + BackBy(actor[c], v)
    /\ faults' = 0 =>
         /\ Left(v)' + BackBy(x, v) = Left(v) + BackBy(actor[c], v)
         /\ Taken(v)' + SettledBy(actor[c], v) = Taken(v) + SettledBy(x, v)

\* A step of one transition that leaves the orders alone.
LEMMA TransitionStep ==
  ASSUME Inv, NEW c \in Actors, NEW x \in Actor, Moving(x),
         actor' = [actor EXCEPT ![c] = x], order' = order, request' = request,
         Tables', faults' = 0 => faults = 0, Settled(c, x)
  PROVE  Inv'
<1>0. /\ actor \in [Actors -> Actor]
      /\ available \in [Variants -> Int] /\ committed \in [Variants -> Int]
      /\ available' \in [Variants -> Int] /\ committed' \in [Variants -> Int]
      /\ twice \in [Variants -> Nat] /\ twice' \in [Variants -> Nat]
  BY DEF Inv, TypeInv, Tables, TypeOK
<1>1. TypeInv'
  <2>1. \A a \in Checkouts : Fits(a, request'[a])
    BY DEF Inv, TypeInv
  <2>2. ASSUME NEW d \in Actors
        PROVE  Moving(actor[d])'
    <3>1. Moving(actor'[d])
      BY <1>0 DEF Inv, TypeInv
    <3> QED BY <3>1 DEF Moving, Exists
  <2> QED BY <2>1, <2>2 DEF TypeInv
<1>2. OrderInv'
  BY DEF Inv, OrderInv, OneOrderPerKey, Exists
<1>3. StockInv'
  <2>2. ASSUME NEW v \in Variants
        PROVE  /\ Balance(v)' \in Int /\ Balance(v) \in Int /\ Balance(v)' <= Balance(v)
               /\ faults' = 0 => /\ Balance(v)' = Balance(v)
                                 /\ Taken(v) = Due(v) => Taken(v)' = Due(v)'
    <3>1. /\ Balance(v) \in Int /\ Balance(v)' \in Int /\ Due(v) \in Int /\ Due(v)' \in Int
          /\ Balance(v)' - Left(v)' + BackBy(actor[c], v)
               = Balance(v) - Left(v) + BackBy(x, v)
          /\ Due(v)' + SettledBy(actor[c], v) = Due(v) + SettledBy(x, v)
      BY <1>0, TransitionBalance DEF Inv
    <3>2. /\ Left(v) \in Int /\ Left(v)' \in Int
          /\ Taken(v) \in Int /\ Taken(v)' \in Int
          /\ BackBy(actor[c], v) \in Int /\ BackBy(x, v) \in Int
          /\ SettledBy(actor[c], v) \in Int /\ SettledBy(x, v) \in Int
      BY <1>0 DEF BackBy, SettledBy, Left, Taken
    <3>3. /\ Left(v)' + BackBy(x, v) <= Left(v) + BackBy(actor[c], v)
          /\ faults' = 0 =>
               /\ Left(v)' + BackBy(x, v) = Left(v) + BackBy(actor[c], v)
               /\ Taken(v)' + SettledBy(actor[c], v) = Taken(v) + SettledBy(x, v)
      BY DEF Settled
    <3>4. Balance(v)' <= Balance(v)
      BY <3>1, <3>2, <3>3
    <3>5. ASSUME faults' = 0
          PROVE  Balance(v)' = Balance(v)
      <4>1. Left(v)' + BackBy(x, v) = Left(v) + BackBy(actor[c], v)
        BY <3>3, <3>5
      <4>2. Balance(v)' >= Balance(v)
        BY <3>1, <3>2, <4>1
      <4> QED BY <3>1, <3>4, <4>2
    <3>6. ASSUME faults' = 0, Taken(v) = Due(v)
          PROVE  Taken(v)' = Due(v)'
      <4>1. Taken(v)' + SettledBy(actor[c], v) = Due(v) + SettledBy(x, v)
        BY <3>3, <3>6
      <4>2. Taken(v)' <= Due(v)' /\ Taken(v)' >= Due(v)'
        BY <3>1, <3>2, <4>1
      <4>3. Taken(v)' \in Int /\ Due(v)' \in Int
        BY <3>1, <3>2
      <4> QED BY <4>2, <4>3
    <3> QED BY <3>1, <3>4, <3>5, <3>6
  <2>3. ASSUME NEW v \in Variants
        PROVE  /\ Balance(v)' <= Stock[v]
               /\ faults' = 0 => Balance(v)' = Stock[v] /\ Taken(v)' = Due(v)'
    BY <2>2, ShopIsWellFormed DEF Inv, StockInv
  <2> QED BY <2>3 DEF StockInv
<1> QED BY <1>1, <1>2, <1>3 DEF Inv


\* One that leaves the stock alone, too.
LEMMA QuietTransition ==
  ASSUME Inv, NEW c \in Actors, NEW x \in Actor, Moving(x), x.at # "effects",
         actor[c].at # "effects" \/ faults' # 0,
         actor' = [actor EXCEPT ![c] = x],
         UNCHANGED <<stock, order, cart, redis, request, twice>>,
         faults' \in 0 .. MaxFaults, faults' = 0 => faults = 0
  PROVE  Inv'
<1>1. /\ actor \in [Actors -> Actor] /\ actor' \in [Actors -> Actor]
      /\ available \in [Variants -> Int] /\ committed \in [Variants -> Int]
      /\ available' = available /\ committed' = committed /\ order' = order
      /\ cart' = cart /\ redis' = redis /\ request' = request
      /\ twice \in [Variants -> Nat] /\ twice' = twice
  BY DEF Inv, TypeInv, Tables, TypeOK, stock
<1>2. Tables'
  BY <1>1 DEF Inv, TypeInv, Tables, TypeOK
<1>3. Settled(c, x)
  BY <1>1 DEF Settled, BackBy, SettledBy, Restocks, Settles, Left, Taken
<1> QED BY <1>1, <1>2, <1>3, TransitionStep

LEMMA FreeIsIdle == Free \in Actor /\ Moving(Free) /\ Free.at = "idle"
  BY DEF Free, Actor, Moving

LEMMA ReadOrderStep ==
  ASSUME Inv, NEW c \in Actors, NEW o \in Orders, NEW to \in OrderStatus, ReadOrder(c, o, to)
  PROVE  Inv'
<1> DEFINE x == [at |-> "swap", order |-> o, todo |-> {}, from |-> order[o].status, to |-> to]
<1>1. /\ order \in [Orders -> Order] /\ faults \in 0 .. MaxFaults
      /\ actor[c].at = "idle" /\ Exists(o) /\ to \in Transitions[order[o].status]
      /\ actor' = [actor EXCEPT ![c] = x]
      /\ UNCHANGED <<stock, order, cart, redis, request, faults, twice>>
  BY DEF Inv, TypeInv, Tables, TypeOK, ReadOrder
<1>2. order[o].status \in OrderStatus
  BY <1>1 DEF Order, Exists
<1>3. x \in Actor /\ Moving(x) /\ x.at = "swap"
  BY <1>1, <1>2 DEF Actor, Moving
<1> HIDE DEF x
<1> QED BY <1>1, <1>3, QuietTransition

LEMMA SwapLostStep ==
  ASSUME Inv, NEW c \in Actors, SwapLost(c)
  PROVE  Inv'
<1>1. /\ actor[c].at = "swap" /\ actor' = [actor EXCEPT ![c] = Free]
      /\ UNCHANGED <<stock, order, cart, redis, request, faults, twice>>
      /\ faults \in 0 .. MaxFaults
  BY DEF Inv, TypeInv, Tables, TypeOK, SwapLost
<1> QED BY <1>1, FreeIsIdle, QuietTransition

LEMMA ApplyEffectStep ==
  ASSUME Inv, NEW c \in Actors, NEW v \in Variants, ApplyEffect(c, v)
  PROVE  Inv'
<1> DEFINE z == actor[c]
           x == IF z.todo = {v} THEN Free ELSE [z EXCEPT !.todo = z.todo \ {v}]
<1>1. /\ actor \in [Actors -> Actor] /\ z \in Actor
      /\ available \in [Variants -> Int] /\ committed \in [Variants -> Int]
      /\ twice \in [Variants -> Nat]
      /\ \A w \in Variants : available[w] >= 0
      /\ z.at = "effects" /\ v \in z.todo
      /\ UNCHANGED <<order, cart, redis, request, faults, twice>>
      /\ order' = order /\ request' = request /\ faults' = faults /\ twice' = twice
  BY DEF Inv, TypeInv, Tables, TypeOK, ApplyEffect
<1>a. actor' = [actor EXCEPT ![c] = x]
  BY DEF ApplyEffect
<1>2. Moving(z)
  BY DEF Inv, TypeInv
<1>3. x \in Actor /\ Moving(x) /\ x.at \in {"idle", "effects"}
  <2>1. CASE z.todo = {v}
    BY <2>1, FreeIsIdle
  <2>2. CASE z.todo # {v}
    <3>1. x \in Actor /\ x.at = "effects"
      BY <1>1, <2>2 DEF Actor
    <3>2. Moving(x)
      BY <1>1, <1>2, <2>2 DEF Moving, Actor
    <3> QED BY <3>1, <3>2
  <2> QED BY <2>1, <2>2
<1>4. /\ z.from \in OrderStatus /\ z.to \in Transitions[z.from]
      /\ z.to = "paid" => z.from = "pending_payment"
  BY <1>1, <1>2, TransitionTable DEF Moving
<1>5. /\ \A w \in Variants \ {v} : /\ BackBy(x, w) = BackBy(z, w)
                                   /\ SettledBy(x, w) = SettledBy(z, w)
      /\ BackBy(x, v) = 0 /\ SettledBy(x, v) = 0
  <2>1. CASE z.todo = {v}
    BY <1>1, <2>1 DEF BackBy, SettledBy, Restocks, Settles, Free
  <2>2. CASE z.todo # {v}
    BY <1>1, <2>2 DEF BackBy, SettledBy, Restocks, Settles, Actor
  <2> QED BY <2>1, <2>2
<1>6. /\ BackBy(z, v) = IF z.to = "paid" THEN 0 ELSE 1
      /\ SettledBy(z, v) = IF z.from = "pending_payment" THEN 1 ELSE 0
  BY <1>1 DEF BackBy, SettledBy, Restocks, Settles
<1>7. IF z.to = "paid" THEN Commit(v)
      ELSE IF z.from = "pending_payment" THEN Release(v) ELSE Restock(v)
  BY DEF ApplyEffect
<1> HIDE DEF z, x
<1>8. /\ available' \in [Variants -> Int] /\ committed' \in [Variants -> Int]
      /\ \A w \in Variants \ {v} : available'[w] = available[w] /\ committed'[w] = committed[w]
      /\ available'[v] = available[v] + BackBy(z, v)
      /\ committed'[v] = committed[v] - SettledBy(z, v)
  BY <1>1, <1>4, <1>6, <1>7 DEF Commit, Release, Restock
<1>9. Tables'
  <2>1. \A w \in Variants : available'[w] >= 0
    BY <1>1, <1>6, <1>8
  <2>2. actor' \in [Actors -> Actor]
    BY <1>1, <1>a, <1>3
  <2> QED BY <1>1, <1>8, <2>1, <2>2 DEF Inv, TypeInv, Tables, TypeOK
<1>10. Settled(c, x)
  <2>1. z = actor[c]
    BY DEF z
  <2>2. ASSUME NEW w \in Variants
        PROVE  /\ Left(w)' + BackBy(x, w) = Left(w) + BackBy(z, w)
               /\ Taken(w)' + SettledBy(z, w) = Taken(w) + SettledBy(x, w)
               /\ Left(w)' + BackBy(x, w) \in Int
    <3>1. /\ available[w] \in Int /\ committed[w] \in Int
          /\ twice[w] \in Int /\ twice'[w] = twice[w]
          /\ BackBy(z, w) \in Int /\ SettledBy(z, w) \in Int
      BY <1>1 DEF BackBy, SettledBy
    <3> QED BY <1>5, <1>8, <3>1 DEF Left, Taken
  <2> QED BY <2>1, <2>2 DEF Settled
<1> QED BY <1>1, <1>a, <1>3, <1>9, <1>10, TransitionStep


\* The lines of an order that is over are on their way back, no longer sold;
\* those of a pending order are to be settled, no longer unpaid.
LEMMA SwapStatusStep ==
  ASSUME Inv, NEW c \in Actors, SwapStatus(c)
  PROVE  Inv'
<1> DEFINE z == actor[c]
           o == z.order
           y == [order[o] EXCEPT !.status = z.to]
           x == IF z.to \in {"paid", "cancelled", "refunded"}
                THEN [z EXCEPT !.at = "effects", !.todo = order[o].lines] ELSE Free
<1>1. /\ actor \in [Actors -> Actor] /\ z \in Actor /\ order \in [Orders -> Order]
      /\ available \in [Variants -> Int] /\ committed \in [Variants -> Int]
      /\ twice \in [Variants -> Nat]
      /\ z.at = "swap" /\ order[o].status = z.from
      /\ UNCHANGED <<stock, cart, redis, request, faults, twice>>
      /\ available' = available /\ committed' = committed
      /\ request' = request /\ faults' = faults /\ twice' = twice
  BY DEF Inv, TypeInv, Tables, TypeOK, SwapStatus, stock
<1>2. /\ o \in Orders /\ Exists(o) /\ z.from \in OrderStatus /\ z.to \in Transitions[z.from]
      /\ z.todo = {}
  BY <1>1 DEF Inv, TypeInv, Moving
<1>3. /\ z.to \in OrderStatus \ {"pending_payment"} /\ z.from \in Standing
      /\ z.from = "pending_payment" => z.to \in {"paid", "cancelled"}
      /\ z.to = "paid" => z.from = "pending_payment"
  BY <1>2, TransitionTable
<1>4. order' = [order EXCEPT ![o] = y] /\ actor' = [actor EXCEPT ![c] = x]
  BY <1>1, <1>2 DEF SwapStatus
<1>5. /\ y \in Order /\ y.status = z.to /\ y.lines = order[o].lines
      /\ order[o].lines \subseteq Variants
  BY <1>1, <1>2, <1>3 DEF Order
<1>6. /\ x \in Actor
      /\ z.to \in {"paid", "cancelled", "refunded"} =>
           /\ x.at = "effects" /\ x.todo = order[o].lines
           /\ x.order = o /\ x.from = z.from /\ x.to = z.to
      /\ z.to \notin {"paid", "cancelled", "refunded"} => x = Free
  BY <1>1, <1>5, FreeIsIdle DEF Actor
<1> HIDE DEF z, o, y, x
<1>7. /\ order' \in [Orders -> Order]
      /\ order'[o] = y /\ \A p \in Orders : p # o => order'[p] = order[p]
  BY <1>1, <1>2, <1>4, <1>5
<1>8. \A p \in Orders : Exists(p)' <=> Exists(p)
  <2>1. y.status # "none"
    BY <1>3, <1>5 DEF OrderStatus
  <2> QED BY <1>2, <1>7, <2>1 DEF Exists
<1>9. TypeInv'
  <2>1. \A a \in Checkouts : Fits(a, request'[a])
    BY <1>1 DEF Inv, TypeInv
  <2>2. Tables'
    <3>1. actor' \in [Actors -> Actor]
      BY <1>1, <1>4, <1>6
    <3> QED BY <1>1, <1>7, <3>1 DEF Inv, TypeInv, Tables, TypeOK
  <2>3. ASSUME NEW d \in Actors
        PROVE  Moving(actor[d])'
    <3>1. CASE d = c
      <4>1. actor'[d] = x
        BY <1>1, <1>4, <3>1
      <4>2. CASE z.to \in {"paid", "cancelled", "refunded"}
        BY <1>2, <1>6, <1>8, <4>1, <4>2 DEF Moving
      <4>3. CASE z.to \notin {"paid", "cancelled", "refunded"}
        BY <1>6, <4>1, <4>3 DEF Moving, Free
      <4> QED BY <4>2, <4>3
    <3>2. CASE d # c
      <4>1. actor'[d] = actor[d] /\ Moving(actor[d])
        BY <1>1, <1>4, <3>2 DEF Inv, TypeInv
      <4> QED BY <1>8, <4>1 DEF Moving
    <3> QED BY <3>1, <3>2
  <2> QED BY <2>1, <2>2, <2>3 DEF TypeInv
<1>10. OrderInv'
  <2>1. \A a \in Checkouts, s \in Sellers : Exists(<<a, s>>)' <=> Exists(<<a, s>>)
    BY <1>8 DEF Orders
  <2> QED BY <1>1, <2>1 DEF Inv, OrderInv, OneOrderPerKey
<1>11. StockInv'
  <2>2. ASSUME NEW v \in Variants
        PROVE  /\ Balance(v)' = Balance(v) /\ Due(v)' = Due(v)
    <3>1. /\ Cardinality(Sold(v))' + SoldBy(order[o], v) = Cardinality(Sold(v)) + SoldBy(y, v)
          /\ Cardinality(Unpaid(v))' + UnpaidBy(order[o], v)
               = Cardinality(Unpaid(v)) + UnpaidBy(y, v)
      BY <1>1, <1>2, <1>4, SoldCount, UnpaidCount
    <3>2. /\ Cardinality(Restockers(v))' + BackBy(z, v)
               = Cardinality(Restockers(v)) + BackBy(x, v)
          /\ Cardinality(Settlers(v))' + SettledBy(z, v)
               = Cardinality(Settlers(v)) + SettledBy(x, v)
      BY <1>1, <1>4, RestockersCount, SettlersCount, ZenonT(40) DEF z
    <3>3. Holders(v)' = Holders(v)
      BY <1>1 DEF Holders
    <3>4. SoldBy(y, v) + BackBy(x, v) = SoldBy(order[o], v) + BackBy(z, v)
      BY <1>1, <1>3, <1>5, <1>6
         DEF SoldBy, BackBy, Sells, Restocks, Standing, Free, OrderStatus
    <3>5. UnpaidBy(y, v) + SettledBy(x, v) = UnpaidBy(order[o], v) + SettledBy(z, v)
      BY <1>1, <1>3, <1>5, <1>6 DEF UnpaidBy, SettledBy, Owes, Settles, Free
    <3>6. /\ SoldBy(y, v) \in Int /\ SoldBy(order[o], v) \in Int
          /\ BackBy(x, v) \in Int /\ BackBy(z, v) \in Int
          /\ UnpaidBy(y, v) \in Int /\ UnpaidBy(order[o], v) \in Int
          /\ SettledBy(x, v) \in Int /\ SettledBy(z, v) \in Int
      BY DEF SoldBy, BackBy, UnpaidBy, SettledBy
    <3> DEFINE S1 == Cardinality(Sold(v))        S2 == Cardinality(Sold(v))'
               U1 == Cardinality(Unpaid(v))      U2 == Cardinality(Unpaid(v))'
               R1 == Cardinality(Restockers(v))  R2 == Cardinality(Restockers(v))'
               T1 == Cardinality(Settlers(v))    T2 == Cardinality(Settlers(v))'
               H1 == Cardinality(Holders(v))
    <3>7. /\ S1 \in Nat /\ S2 \in Nat /\ U1 \in Nat /\ U2 \in Nat /\ R1 \in Nat /\ R2 \in Nat
          /\ T1 \in Nat /\ T2 \in Nat /\ H1 \in Nat /\ Left(v) \in Int
      BY <1>1, CountsType DEF Left
    <3>8. S2 + R2 = S1 + R1 /\ U2 + T2 = U1 + T1
      BY <3>1, <3>2, <3>4, <3>5, <3>6, <3>7
    <3>9. /\ Balance(v) = Left(v) + H1 + S1 + R1
          /\ Balance(v)' = Left(v) + H1 + S2 + R2
          /\ Due(v) = H1 + U1 + T1 /\ Due(v)' = H1 + U2 + T2
      BY <1>1, <3>3 DEF Balance, Due, Left
    <3> HIDE DEF S1, S2, U1, U2, R1, R2, T1, T2, H1
    <3> QED BY <3>7, <3>8, <3>9
  <2> QED BY <1>1, <2>2 DEF Inv, StockInv, Taken
<1> QED BY <1>9, <1>10, <1>11 DEF Inv

-----------------------------------------------------------------------------
(* Every step *)

LEMMA DieStep ==
  ASSUME Inv, Die
  PROVE  Inv'
<1>1. /\ UNCHANGED <<stock, order, cart, redis, twice>>
      /\ faults' \in 0 .. MaxFaults /\ faults' # 0
  BY ThrowingCheckouts DEF Inv, TypeInv, Tables, TypeOK, Die, Fault
<1>2. CASE \E a \in Checkouts : /\ request' = [request EXCEPT ![a].at = "dead"]
                                /\ UNCHANGED actor
  <2>1. PICK a \in Checkouts : Goto(a, "dead") /\ UNCHANGED actor
    BY <1>2 DEF Goto
  <2>2. "dead" \in CheckoutLabels
    BY DEF CheckoutLabels
  <2>3. Fits(a, [request[a] EXCEPT !.at = "dead"])
    <3>1. request[a] \in Request
      BY DEF Inv, TypeInv, Tables, TypeOK
    <3> QED BY <3>1 DEF Fits, Request
  <2> QED BY <1>1, <2>1, <2>2, <2>3, GotoStep
<1>3. CASE \E c \in Actors : actor' = [actor EXCEPT ![c] = Free] /\ UNCHANGED request
  <2>1. PICK c \in Actors : actor' = [actor EXCEPT ![c] = Free] /\ UNCHANGED request
    BY <1>3
  <2>2. faults' = 0 => faults = 0
    BY <1>1
  <2> QED BY <1>1, <2>1, <2>2, FreeIsIdle, QuietTransition
<1> QED BY <1>2, <1>3 DEF Die

LEMMA InvInit ==
  ASSUME Init
  PROVE  Inv
<1>1. Tables
  <2>1. Unstarted \in Request
    <3>1. <<>> \in Seq(Variants)
      OBVIOUS
    <3> QED BY <3>1 DEF Unstarted, Request, CheckoutLabels
  <2>2. [status |-> "none", lines |-> {}] \in Order
    BY DEF Order
  <2> QED BY <2>1, <2>2, FreeIsIdle, ShopIsWellFormed, ThrowingCheckouts
          DEF Init, Tables, TypeOK, RedisEntry
<1>2. TypeInv
  BY <1>1, FreeIsIdle DEF Init, TypeInv, Fits, Unstarted
<1>3. OrderInv
  <2>1. \A o \in Orders : ~ Exists(o)
    BY DEF Init, Exists
  <2>2. \A a \in Checkouts, s \in Sellers : ~ Exists(<<a, s>>)
    BY <2>1 DEF Orders
  <2> QED BY <2>2 DEF Init, OrderInv, OneOrderPerKey, Unstarted
<1>4. StockInv
  <2>1. ASSUME NEW v \in Variants
        PROVE  Balance(v) = Stock[v] /\ Due(v) = 0
    <3>1. Holders(v) = {} /\ Restockers(v) = {} /\ Settlers(v) = {}
      BY DEF Init, Holders, Holds, Restockers, Restocks, Settlers, Settles, Unstarted, Free
    <3>2. Sold(v) = {} /\ Unpaid(v) = {}
      BY DEF Init, Sold, Sells, Unpaid, Owes
    <3>3. Left(v) = Stock[v] /\ Stock[v] \in Int
      BY ShopIsWellFormed DEF Init, Left
    <3> QED BY <3>1, <3>2, <3>3, FS_EmptySet DEF Balance, Due
  <2>2. \A v \in Variants : Stock[v] \in Nat /\ Taken(v) = 0
    BY ShopIsWellFormed DEF Init, Taken
  <2> QED BY <2>1, <2>2 DEF StockInv, Init, Unstarted
<1> QED BY <1>2, <1>3, <1>4 DEF Inv

LEMMA InvNext ==
  ASSUME Inv, [Next]_vars
  PROVE  Inv'
<1>1. ASSUME NEW a \in Checkouts, CheckoutStep(a)
      PROVE  Inv'
  BY <1>1, ClaimKeyStep, LoadCartStep, ReserveLineStep, OutOfStockStep, ReserveThrowsStep,
     InsertOrderStep, KeyConflictStep, InsertThrowsStep, RollbackLineStep, RolledBackStep,
     StoreGroupStep, ClearCartStep DEF CheckoutStep
<1>2. ASSUME NEW c \in Actors, ActorStep(c)
      PROVE  Inv'
  BY <1>2, ReadOrderStep, SwapStatusStep, SwapLostStep, ApplyEffectStep DEF ActorStep
<1>3. CASE UNCHANGED vars
  <2>1. /\ available' = available /\ committed' = committed /\ order' = order
        /\ cart' = cart /\ redis' = redis /\ request' = request /\ actor' = actor
        /\ faults' = faults /\ twice' = twice
    BY <1>3 DEF vars
  <2>2. TypeInv'
    <3>1. Tables' /\ \A a \in Checkouts : Fits(a, request'[a])
      BY <2>1 DEF Inv, TypeInv, Tables, TypeOK
    <3>2. \A c \in Actors : Moving(actor[c])'
      BY <2>1 DEF Inv, TypeInv, Moving, Exists
    <3> QED BY <3>1, <3>2 DEF TypeInv
  <2>3. OrderInv'
    BY <2>1 DEF Inv, OrderInv, OneOrderPerKey, Exists
  <2>4. ASSUME NEW v
        PROVE  /\ Holders(v)' = Holders(v) /\ Sold(v)' = Sold(v) /\ Unpaid(v)' = Unpaid(v)
               /\ Restockers(v)' = Restockers(v) /\ Settlers(v)' = Settlers(v)
    BY <2>1 DEF Holders, Sold, Unpaid, Restockers, Settlers
  <2>5. \A v : Balance(v)' = Balance(v) /\ Due(v)' = Due(v)
    BY <2>1, <2>4 DEF Balance, Due, Left
  <2> QED BY <2>1, <2>2, <2>3, <2>5 DEF Inv, StockInv, Taken
<1> QED BY <1>1, <1>2, <1>3, DieStep DEF Next

\* Requests and transitions fit their orders, and every unit is accounted for.
LEMMA InvAlways == Spec => []Inv
  BY InvInit, InvNext, PTL DEF Spec

-----------------------------------------------------------------------------
(* What holds of every checkout *)

\* Every row, key and counter has its type.
THEOREM TypeCorrect == Spec => []TypeOK
<1>1. Inv => TypeOK
  BY DEF Inv, TypeInv, Tables
<1> QED BY <1>1, InvAlways, PTL

\* A key is ordered under once, whatever Redis remembers: two checkouts with one
\* key never both have an order with the same seller (insertOrder's unique key).
THEOREM OneOrder == Spec => []OneOrderPerKey
<1>1. Inv => OneOrderPerKey
  BY DEF Inv, OrderInv
<1> QED BY <1>1, InvAlways, PTL

\* Races, conflicts, requests that throw and requests that die never invent a
\* unit for sale; only a rollback does that releases a line whose order stands.
THEOREM NoUnitInvented == Spec => []OnlyRollbacksInvent
<1>1. Inv => OnlyRollbacksInvent
  <2> SUFFICES ASSUME Inv, NEW v \in Variants
               PROVE  /\ available[v] >= 0
                      /\ available[v] + Reserved(v) + Ordered(v, Standing)
                           <= Stock[v] + twice[v]
    BY DEF OnlyRollbacksInvent
  <2>1. /\ available[v] \in Int /\ twice[v] \in Int
        /\ available[v] >= 0 /\ Balance(v) <= Stock[v]
    BY DEF Inv, TypeInv, Tables, TypeOK, StockInv
  <2>2. Reserved(v) = Cardinality(Holders(v)) /\ Ordered(v, Standing) = Cardinality(Sold(v))
    BY DEF Reserved, Holders, Holds, Ordered, Sold, Sells
  <2>3. Stock[v] \in Int
    BY ShopIsWellFormed
  <2> QED BY <2>1, <2>2, <2>3, CountsType DEF Balance, Left
<1> QED BY <1>1, InvAlways, PTL

\* Once nothing is in progress and nothing has failed the counters say exactly
\* what the orders say, but for the units that rollbacks released twice.
THEOREM StockAdds == Spec => []StockAddsUp
<1>1. Inv => StockAddsUp
  <2> SUFFICES ASSUME Inv, Quiet, faults = 0, NEW v \in Variants
               PROVE  /\ committed[v] = Ordered(v, {"pending_payment"}) - twice[v]
                      /\ available[v] = Stock[v] - Ordered(v, Standing) + twice[v]
    BY DEF StockAddsUp
  <2>1. /\ available[v] \in Int /\ committed[v] \in Int /\ twice[v] \in Int
        /\ Balance(v) = Stock[v] /\ Taken(v) = Due(v)
    BY DEF Inv, TypeInv, Tables, TypeOK, StockInv
  <2>2. Holders(v) = {}
    BY DEF Inv, TypeInv, Fits, Quiet, Holders, Holds
  <2>3. Restockers(v) = {} /\ Settlers(v) = {}
    BY DEF Quiet, Restockers, Restocks, Settlers, Settles
  <2>4. /\ Ordered(v, Standing) = Cardinality(Sold(v))
        /\ Ordered(v, {"pending_payment"}) = Cardinality(Unpaid(v))
    BY DEF Ordered, Sold, Sells, Unpaid, Owes
  <2>5. Stock[v] \in Int
    BY ShopIsWellFormed
  <2> QED BY <2>1, <2>2, <2>3, <2>4, <2>5, CountsType, FS_EmptySet DEF Balance, Due, Left, Taken
<1> QED BY <1>1, InvAlways, PTL

=============================================================================
