------------------------------ MODULE Checkout ------------------------------
(***************************************************************************)
(* From cart to orders: the reservation of every line's stock, one order   *)
(* per seller, the two layers of idempotency, and the transitions of an    *)
(* order, whose effects on the stock follow the status change one by one.  *)
(*                                                                         *)
(* Every line is one unit of a tracked variant (an untracked one holds no  *)
(* stock), and an order is known by the checkout that made it and the      *)
(* seller it goes to.                                                      *)
(***************************************************************************)
EXTENDS Integers, Sequences, FiniteSets

CONSTANTS
  Variants,   \* product variants on sale
  Sellers,    \* stores and users that sell
  Buyers,     \* Oxy users that buy
  Checkouts,  \* checkout requests
  Clerks,     \* requests that move an order to another status
  Sweepers,   \* workers of the expire-reservations sweep
  Keys,       \* idempotency keys that buyers send
  NoKey,      \* a checkout that sends none
  Stock,      \* the units of each variant
  SellerOf,   \* the seller of each variant
  FirstCart,  \* each buyer's cart, its lines grouped by seller
  BuyerOf,    \* the buyer of each checkout
  KeyOf,      \* the key of each checkout
  Throwing,   \* the orders whose insert may throw
  Moves,      \* bound: the statuses that clerks move orders to
  MaxFaults   \* bound: requests that die, releases and reservations that throw

Orders == Checkouts \X Sellers
Actors == Clerks \cup Sweepers

ASSUME ShopIsWellFormed ==
  /\ Stock \in [Variants -> Nat] /\ SellerOf \in [Variants -> Sellers]
  /\ FirstCart \in [Buyers -> Seq(Variants)]
  /\ BuyerOf \in [Checkouts -> Buyers] /\ KeyOf \in [Checkouts -> Keys \cup {NoKey}]
ASSUME NamesAreDistinct  == NoKey \notin Keys /\ Clerks \cap Sweepers = {}
ASSUME ThrowingCheckouts == Throwing \subseteq Orders /\ MaxFaults \in Nat
ASSUME ShopIsFinite      == /\ IsFiniteSet(Checkouts) /\ IsFiniteSet(Sellers)
                            /\ IsFiniteSet(Actors)

\* The unique index of cart_items: a variant is one line of a cart.
ASSUME CartLinesDiffer ==
  \A b \in Buyers : \A i, j \in DOMAIN FirstCart[b] :
    FirstCart[b][i] = FirstCart[b][j] => i = j

VARIABLES
  available, committed,  \* the stock counters of each variant
  order,     \* the orders rows and their lines
  cart,      \* the carts rows
  redis,     \* the idempotency keys in Redis
  request,   \* what each checkout is in the middle of
  actor,     \* what each transition is in the middle of
  faults,    \* requests that died, releases and reservations that threw so far
  twice      \* history: the units a rollback released from an order that stands

vars == <<available, committed, order, cart, redis, request, actor, faults, twice>>
stock == <<available, committed>>

-----------------------------------------------------------------------------
(* Types *)

OrderStatus == {"pending_payment", "paid", "processing", "shipped", "delivered",
                "cancelled", "refunded"}

Transitions ==
  [pending_payment |-> {"paid", "cancelled"},
   paid            |-> {"processing", "cancelled", "refunded"},
   processing      |-> {"shipped", "cancelled"},
   shipped         |-> {"delivered"},
   delivered       |-> {"refunded"},
   cancelled       |-> {},
   refunded        |-> {}]

Order == [status : OrderStatus \cup {"none"}, lines : SUBSET Variants]

\* A key in Redis: not there, claimed, or mapped to the checkout that made the
\* orders (the checkout group).
RedisEntry == {"none", "pending"} \cup Checkouts

CheckoutLabels == {"idle", "load", "reserve", "create", "rollback", "store",
                   "clear", "done", "failed", "dead"}

\* "held" are the lines reserved and not rolled back, "made" the sellers whose
\* order exists, "then" what follows a rollback, "claims" whether the request
\* holds the claim in Redis.
Request == [at : CheckoutLabels, lines : Seq(Variants), held : SUBSET Variants,
            made : SUBSET Sellers, then : {"failed", "converge"}, claims : BOOLEAN]

\* "todo" are the lines whose stock effect is still to come.
Actor == [at : {"idle", "swap", "effects"}, order : Orders \cup {<<>>},
          from : OrderStatus \cup {"none"}, to : OrderStatus \cup {"none"},
          todo : SUBSET Variants]

Unstarted == [at |-> "idle", lines |-> <<>>, held |-> {}, made |-> {},
              then |-> "failed", claims |-> FALSE]
Free == [at |-> "idle", order |-> <<>>, from |-> "none", to |-> "none", todo |-> {}]

TypeOK ==
  /\ available \in [Variants -> Int] /\ committed \in [Variants -> Int]
  /\ order   \in [Orders -> Order]
  /\ cart    \in [Buyers -> Seq(Variants)]
  /\ redis   \in [Buyers \X Keys -> RedisEntry]
  /\ request \in [Checkouts -> Request]
  /\ actor   \in [Actors -> Actor]
  /\ faults  \in 0 .. MaxFaults
  /\ twice   \in [Variants -> Nat]

Init ==
  /\ available = Stock
  /\ committed = [v \in Variants |-> 0]
  /\ order     = [o \in Orders |-> [status |-> "none", lines |-> {}]]
  /\ cart      = FirstCart
  /\ redis     = [bk \in Buyers \X Keys |-> "none"]
  /\ request   = [a \in Checkouts |-> Unstarted]
  /\ actor     = [c \in Actors |-> Free]
  /\ faults    = 0
  /\ twice     = [v \in Variants |-> 0]

At(a, label)   == request[a].at = label
Goto(a, label) == request' = [request EXCEPT ![a].at = label]
End(a, label)  == request' = [request EXCEPT ![a] = [Unstarted EXCEPT !.at = label]]
Entry(a)       == <<BuyerOf[a], KeyOf[a]>>
Lines(a)       == {request[a].lines[i] : i \in DOMAIN request[a].lines}
Exists(o)      == order[o].status # "none"

-----------------------------------------------------------------------------
(* Inventory *)

Reserve(v) ==
  /\ available[v] >= 1
  /\ available' = [available EXCEPT ![v] = @ - 1]
  /\ committed' = [committed EXCEPT ![v] = @ + 1]

Release(v) ==
  /\ available' = [available EXCEPT ![v] = @ + 1]
  /\ committed' = [committed EXCEPT ![v] = @ - 1]

Commit(v) ==
  /\ committed' = [committed EXCEPT ![v] = @ - 1]
  /\ UNCHANGED available

Restock(v) ==
  /\ available' = [available EXCEPT ![v] = @ + 1]
  /\ UNCHANGED committed

-----------------------------------------------------------------------------
(* Checkout *)

\* The claim in Redis: taken, answered from the orders of an earlier checkout,
\* or refused as still in progress.  Skipped without a key, when Redis does not
\* answer, and (alike) when its entry has outlived its TTL.
ClaimKey(a) ==
  /\ At(a, "idle")
  /\ \/ /\ KeyOf[a] # NoKey /\ redis[Entry(a)] = "none"
        /\ redis' = [redis EXCEPT ![Entry(a)] = "pending"]
        /\ request' = [request EXCEPT ![a].at = "load", ![a].claims = TRUE]
     \/ /\ KeyOf[a] # NoKey /\ redis[Entry(a)] = "pending"
        /\ End(a, "failed") /\ UNCHANGED redis
     \/ /\ KeyOf[a] # NoKey /\ redis[Entry(a)] \in Checkouts
        /\ End(a, "done") /\ UNCHANGED redis
     \/ Goto(a, "load") /\ UNCHANGED redis
  /\ UNCHANGED <<stock, order, cart, actor, faults, twice>>

\* An empty cart is refused, and so is one with a line that is out of stock.
LoadCart(a) ==
  LET lines == cart[BuyerOf[a]] IN
  /\ At(a, "load")
  /\ IF lines = <<>> \/ \E i \in DOMAIN lines : available[lines[i]] < 1
     THEN End(a, "failed")
     ELSE request' = [request EXCEPT ![a].at = "reserve", ![a].lines = lines]
  /\ UNCHANGED <<stock, order, cart, redis, actor, faults, twice>>

NextLine(a) == request[a].lines[Cardinality(request[a].held) + 1]

ReserveLine(a) ==
  LET held == request[a].held \cup {NextLine(a)} IN
  /\ At(a, "reserve")
  /\ Reserve(NextLine(a))
  /\ request' = [request EXCEPT ![a].held = held,
                                ![a].at = IF held = Lines(a) THEN "create" ELSE @]
  /\ UNCHANGED <<order, cart, redis, actor, faults, twice>>

\* Mutant: the lines reserved before the missing one are kept.
OutOfStockKeeps(a) ==
  /\ At(a, "reserve")
  /\ available[NextLine(a)] < 1
  /\ End(a, "failed")
  /\ UNCHANGED <<stock, order, cart, redis, actor, faults, twice>>

OutOfStock(a) ==
  /\ At(a, "reserve")
  /\ available[NextLine(a)] < 1
  /\ Goto(a, "rollback")
  /\ UNCHANGED <<stock, order, cart, redis, actor, faults, twice>>

Fault == faults < MaxFaults /\ faults' = faults + 1

\* Reserving a line throws before the stock is touched, or (the listing's facets)
\* after: the rollback does not know of that unit, which nobody gives back.
ReserveThrows(a) ==
  /\ At(a, "reserve")
  /\ \/ UNCHANGED <<stock, faults>>
     \/ Fault /\ Reserve(NextLine(a))
  /\ Goto(a, "rollback")
  /\ UNCHANGED <<order, cart, redis, actor, twice>>

\* The groups are taken in the order of their first lines.
NextSeller(a) ==
  LET seller(i) == SellerOf[request[a].lines[i]]
      next(i)   == /\ seller(i) \notin request[a].made
                   /\ \A j \in 1 .. i - 1 : seller(j) \in request[a].made
  IN  seller(CHOOSE i \in DOMAIN request[a].lines : next(i))

\* Mutant: the key is only looked up in Redis.
KeyTakenInRedis(a, s) == KeyOf[a] # NoKey /\ redis[Entry(a)] \in Checkouts \ {a}

\* The unique index on the orders' key and seller, whoever the buyer is.
KeyTaken(a, s) ==
  KeyOf[a] # NoKey /\ \E b \in Checkouts : KeyOf[b] = KeyOf[a] /\ Exists(<<b, s>>)

\* One seller's order and its lines, in a transaction of its own.
InsertOrder(a) ==
  LET s     == NextSeller(a)
      lines == {v \in Lines(a) : SellerOf[v] = s}
      made  == request[a].made \cup {s} IN
  /\ At(a, "create")
  /\ ~ KeyTaken(a, s)
  /\ order' = [order EXCEPT ![<<a, s>>] = [status |-> "pending_payment", lines |-> lines]]
  /\ request' = [request EXCEPT
       ![a].made = made,
       ![a].at = IF \A v \in Lines(a) : SellerOf[v] \in made THEN "store" ELSE @]
  /\ UNCHANGED <<stock, cart, redis, actor, faults, twice>>

KeyConflict(a) ==
  /\ At(a, "create")
  /\ KeyTaken(a, NextSeller(a))
  /\ request' = [request EXCEPT ![a].at = "rollback", ![a].then = "converge"]
  /\ UNCHANGED <<stock, order, cart, redis, actor, faults, twice>>

InsertThrows(a) ==
  /\ At(a, "create")
  /\ <<a, NextSeller(a)>> \in Throwing
  /\ Goto(a, "rollback")
  /\ UNCHANGED <<stock, order, cart, redis, actor, faults, twice>>

\* rollbackReservations: a release that throws is logged, and the next one tried.
\* The lines of orders already made are released like the rest.
RollbackLine(a, v) ==
  /\ At(a, "rollback") /\ v \in request[a].held
  /\ \/ /\ Release(v) /\ UNCHANGED faults
        /\ twice' = [twice EXCEPT
             ![v] = IF SellerOf[v] \in request[a].made THEN @ + 1 ELSE @]
     \/ Fault /\ UNCHANGED <<stock, twice>>
  /\ request' = [request EXCEPT ![a].held = @ \ {v}]
  /\ UNCHANGED <<order, cart, redis, actor>>

\* After a conflict the buyer is shown the orders that hold the key, if they are
\* the buyer's own; the claim in Redis is left as it is.
Converges(a) ==
  LET s == SellerOf[request[a].lines[1]] IN
  \E b \in Checkouts : /\ KeyOf[b] = KeyOf[a] /\ BuyerOf[b] = BuyerOf[a]
                       /\ Exists(<<b, s>>)

\* Mutant: the conflict is thrown where the catch of the inserts rolls back again.
RolledBackTwice(a) ==
  /\ At(a, "rollback") /\ request[a].held = {}
  /\ IF request[a].then = "converge"
     THEN request' = [request EXCEPT ![a].held = Lines(a), ![a].then = "failed"]
     ELSE End(a, "failed")
  /\ UNCHANGED <<stock, order, cart, redis, actor, faults, twice>>

RolledBack(a) ==
  /\ At(a, "rollback") /\ request[a].held = {}
  /\ End(a, IF request[a].then = "converge" /\ Converges(a) THEN "done" ELSE "failed")
  /\ UNCHANGED <<stock, order, cart, redis, actor, faults, twice>>

\* Mutant: the key itself is stored where the checkout group belongs.
StoreGroupKey(a) ==
  /\ At(a, "store")
  /\ \/ request[a].claims /\ redis' = [redis EXCEPT ![Entry(a)] = KeyOf[a]]
     \/ UNCHANGED redis
  /\ Goto(a, "clear")
  /\ UNCHANGED <<stock, order, cart, actor, faults, twice>>

\* Best effort: Redis may not take it.
StoreGroup(a) ==
  /\ At(a, "store")
  /\ \/ request[a].claims /\ redis' = [redis EXCEPT ![Entry(a)] = a]
     \/ UNCHANGED redis
  /\ Goto(a, "clear")
  /\ UNCHANGED <<stock, order, cart, actor, faults, twice>>

ClearCart(a) ==
  /\ At(a, "clear")
  /\ cart' = [cart EXCEPT ![BuyerOf[a]] = <<>>]
  /\ End(a, "done")
  /\ UNCHANGED <<stock, order, redis, actor, faults, twice>>

CheckoutStep(a) ==
  \/ ClaimKey(a) \/ LoadCart(a) \/ ReserveLine(a) \/ OutOfStock(a)
  \/ ReserveThrows(a) \/ InsertOrder(a) \/ KeyConflict(a) \/ InsertThrows(a)
  \/ (\E v \in Variants : RollbackLine(a, v)) \/ RolledBack(a)
  \/ StoreGroup(a) \/ ClearCart(a)

-----------------------------------------------------------------------------
(* The transitions of an order *)

\* A buyer, a seller or the sweep reads the order; the sweep only takes orders
\* that are unpaid, and cancels them.
ReadOrder(c, o, to) ==
  /\ actor[c].at = "idle"
  /\ Exists(o) /\ to \in Transitions[order[o].status]
  /\ IF c \in Sweepers THEN order[o].status = "pending_payment" /\ to = "cancelled"
                       ELSE to \in Moves
  /\ actor' = [actor EXCEPT ![c] = [at |-> "swap", order |-> o, todo |-> {},
                                    from |-> order[o].status, to |-> to]]
  /\ UNCHANGED <<stock, order, cart, redis, request, faults, twice>>

\* Mutant: a cancellation has no effect on the stock.
SwapStatusForgets(c) ==
  LET o == actor[c].order IN
  /\ actor[c].at = "swap"
  /\ order[o].status = actor[c].from
  /\ order' = [order EXCEPT ![o].status = actor[c].to]
  /\ actor' = [actor EXCEPT
       ![c] = IF @.to \in {"paid", "refunded"}
              THEN [@ EXCEPT !.at = "effects", !.todo = order[o].lines] ELSE Free]
  /\ UNCHANGED <<stock, cart, redis, request, faults, twice>>

\* The compare-and-swap of the status; who loses it is done.
SwapStatus(c) ==
  LET o == actor[c].order IN
  /\ actor[c].at = "swap"
  /\ order[o].status = actor[c].from
  /\ order' = [order EXCEPT ![o].status = actor[c].to]
  /\ actor' = [actor EXCEPT
       ![c] = IF @.to \in {"paid", "cancelled", "refunded"}
              THEN [@ EXCEPT !.at = "effects", !.todo = order[o].lines] ELSE Free]
  /\ UNCHANGED <<stock, cart, redis, request, faults, twice>>

SwapLost(c) ==
  /\ actor[c].at = "swap"
  /\ order[actor[c].order].status # actor[c].from
  /\ actor' = [actor EXCEPT ![c] = Free]
  /\ UNCHANGED <<stock, order, cart, redis, request, faults, twice>>

\* Outside the transaction, line by line: a payment commits the line; a
\* cancellation or refund restocks what was paid and releases what was not.
ApplyEffect(c, v) ==
  /\ actor[c].at = "effects" /\ v \in actor[c].todo
  /\ IF actor[c].to = "paid" THEN Commit(v)
     ELSE IF actor[c].from = "pending_payment" THEN Release(v) ELSE Restock(v)
  /\ actor' = [actor EXCEPT ![c] = IF @.todo = {v} THEN Free
                                   ELSE [@ EXCEPT !.todo = actor[c].todo \ {v}]]
  /\ UNCHANGED <<order, cart, redis, request, faults, twice>>

ActorStep(c) ==
  \/ \E o \in Orders, to \in OrderStatus : ReadOrder(c, o, to)
  \/ SwapStatus(c) \/ SwapLost(c)
  \/ \E v \in Variants : ApplyEffect(c, v)

-----------------------------------------------------------------------------

\* A request dies where it stands, or one of its effects throws: the rest of
\* what it had to do is not done.
Die ==
  /\ Fault
  /\ \/ \E a \in Checkouts :
          /\ request[a].at \notin {"idle", "done", "failed", "dead"}
          /\ request' = [request EXCEPT ![a].at = "dead"]
          /\ UNCHANGED actor
     \/ \E c \in Actors :
          /\ actor[c].at # "idle"
          /\ actor' = [actor EXCEPT ![c] = Free]
          /\ UNCHANGED request
  /\ UNCHANGED <<stock, order, cart, redis, twice>>

Next ==
  \/ \E a \in Checkouts : CheckoutStep(a)
  \/ \E c \in Actors : ActorStep(c)
  \/ Die

\* A request runs to its end once it has begun, and the sweep comes round on a
\* schedule; buyers and sellers need not do anything.
Fairness ==
  /\ \A a \in Checkouts : WF_vars(request[a].at # "idle" /\ CheckoutStep(a))
  /\ \A c \in Clerks : WF_vars(actor[c].at # "idle" /\ ActorStep(c))
  /\ \A c \in Sweepers : WF_vars(ActorStep(c))

Spec     == Init /\ [][Next]_vars
LiveSpec == Spec /\ Fairness

-----------------------------------------------------------------------------
(* Properties *)

Standing == OrderStatus \ {"cancelled", "refunded"}

Ordered(v, statuses) ==
  Cardinality({o \in Orders : order[o].status \in statuses /\ v \in order[o].lines})

\* The units a checkout has taken that no order of its own accounts for yet.
Reserved(v) ==
  Cardinality({a \in Checkouts : /\ v \in request[a].held
                                 /\ SellerOf[v] \notin request[a].made})

\* No unit is promised twice: what can still be reserved, what checkouts hold
\* and what standing orders have add up to no more than there is.
\* checkout.service.ts:319-323 says so of a rollback.
NoStockInvented ==
  \A v \in Variants :
    /\ available[v] >= 0
    /\ available[v] + Reserved(v) + Ordered(v, Standing) <= Stock[v]

\* A unit is invented in one place only, the rollback that releases a line whose
\* order stands: whatever else races, conflicts or dies may lose units for sale.
\* Guards reserve, rollbackReservations and the effects of transition.
OnlyRollbacksInvent ==
  \A v \in Variants :
    /\ available[v] >= 0
    /\ available[v] + Reserved(v) + Ordered(v, Standing) <= Stock[v] + twice[v]

Quiet == /\ \A a \in Checkouts : request[a].at \in {"idle", "done", "failed"}
         /\ \A c \in Actors : actor[c].at = "idle"

\* When nothing is in progress and nothing has failed, the counters say exactly
\* what the orders say, but for the units that rollbacks released twice: no
\* reservation is left behind and no other counted twice, whichever requests lost
\* their race, conflicted, threw or were out of stock.
StockAddsUp ==
  Quiet /\ faults = 0 =>
    \A v \in Variants :
      /\ committed[v] = Ordered(v, {"pending_payment"}) - twice[v]
      /\ available[v] = Stock[v] - Ordered(v, Standing) + twice[v]

\* A key is ordered under once: two checkouts with one key never both have an
\* order with the same seller, with Redis up, down or forgetful.
\* Guards the unique key of insertOrder behind the claim in Redis.
OneOrderPerKey ==
  \A a, b \in Checkouts, s \in Sellers :
    a # b /\ KeyOf[a] = KeyOf[b] /\ KeyOf[a] # NoKey =>
      ~ (Exists(<<a, s>>) /\ Exists(<<b, s>>))

\* No unit stays reserved forever: what is not paid is expired by the sweep, and
\* what failed is rolled back, unless a fault took the release with it.  (What was
\* released twice has left the counter below what is reserved, by so much.)
NoUnitStaysReserved ==
  (\E v \in Variants : committed[v] + twice[v] # 0)
    ~> (faults > 0 \/ \A v \in Variants : committed[v] + twice[v] = 0)

=============================================================================
