----------------------------- MODULE FeedProofs -----------------------------
(***************************************************************************)
(* Proofs about Feed, for any prices, intervals, depths and clocks.        *)
(***************************************************************************)
EXTENDS Feed, Induction, SequenceTheorems

\* A sequence over S is one over any larger set.
LEMMA Larger ==
    ASSUME NEW S, NEW x, NEW seq \in Seq(S)
    PROVE seq \in Seq(S \cup {x})
  <1>1. seq \in [1..Len(seq) -> S] /\ Len(seq) \in Nat
    OBVIOUS
  <1>2. seq \in [1..Len(seq) -> S \cup {x}]
    BY <1>1
  <1> QED BY <1>1, <1>2

----------------------------------------------------------------------------
(* The levels of the enhanced book.                                         *)

\* A bounded set of naturals that is not empty has a last element.
LEMMA LastOf ==
    ASSUME NEW n \in Nat, NEW T \in SUBSET (1..n), T # {}
    PROVE \E i \in T : \A j \in T : j <= i
  <1> DEFINE D == {n - i : i \in T}
  <1>1. D \in SUBSET Nat /\ D # {}
    <2>1. \A i \in T : n - i \in Nat
      OBVIOUS
    <2>2. D \in SUBSET Nat
      BY <2>1
    <2>3. PICK i \in T : TRUE
      OBVIOUS
    <2>4. n - i \in D
      OBVIOUS
    <2> QED BY <2>2, <2>4
  <1>2. PICK d \in D : \A e \in D : d <= e
    <2> HIDE DEF D
    <2> QED BY <1>1, LeastNat
  <1>3. PICK i \in T : d = n - i
    OBVIOUS
  <1>4. \A j \in T : n - i <= n - j
    BY <1>2, <1>3
  <1> QED BY <1>4

TradeTick == [side |-> "Trade", price |-> Min(Price), quantity |-> Min(Quantity)]

BookType ==
    /\ exchange \in Exchange
    /\ market \in [Side -> [Price -> Quantity \cup {0}]]
    /\ queue \in Seq(Change \cup {TradeTick})
    /\ levels \in [Side -> SUBSET [price : Nat, quantity : Quantity]]

\* A level is at a price of the exchange, and the only one there.
LevelsFit ==
    \A s \in Side : \A l \in levels[s] :
        /\ \E p \in Price : l.price = Fixed[p]
        /\ \A m \in levels[s] : l.price = m.price => l = m

At(t, s, p) == t.side = s /\ t.price = p

\* The last tick of a level that waits in the channel says what the market has.
Pending(s, p) ==
    \E i \in 1..Len(queue) :
        /\ At(queue[i], s, p) /\ queue[i].quantity = market[s][p]
        /\ \A j \in 1..Len(queue) : i < j => ~At(queue[j], s, p)

Current(s, p) ==
    \/ Pending(s, p)
    \/ Shows(s, p) /\ \A i \in 1..Len(queue) : ~At(queue[i], s, p)

Followed == \A s \in Side, p \in Price : <<s, p>> \in heard => Current(s, p)

\* After a message of Binance, its best levels have been heard of.
ListedHeard ==
    (exchange = "Binance" /\ heard # {}) =>
        \A s \in Side, p \in Price : p \in Listed(market, s) => <<s, p>> \in heard

BookInv == BookType /\ LevelsFit /\ Followed /\ ListedHeard

\* Prices keep their order in fixed point, and so differ.
LEMMA FixedInj ==
    /\ \A p \in Price : p \in Nat /\ p > 0 /\ Fixed[p] \in Nat
    /\ \A q \in Quantity : q \in Nat /\ q > 0
    /\ \A p, q \in Price : (p < q <=> Fixed[p] < Fixed[q]) /\ (Fixed[p] = Fixed[q] => p = q)
  <1>1. /\ \A p \in Price : p \in Nat /\ p > 0 /\ Fixed[p] \in Nat
        /\ \A q \in Quantity : q \in Nat /\ q > 0
        /\ \A p, q \in Price : p < q => Fixed[p] < Fixed[q]
    BY ConstantsAssumption
  <1>2. ASSUME NEW p \in Price, NEW q \in Price
        PROVE (p < q <=> Fixed[p] < Fixed[q]) /\ (Fixed[p] = Fixed[q] => p = q)
    <2>1. /\ p \in Nat /\ q \in Nat /\ Fixed[p] \in Nat /\ Fixed[q] \in Nat
          /\ p < q => Fixed[p] < Fixed[q]
          /\ q < p => Fixed[q] < Fixed[p]
      BY <1>1
    <2>2. CASE p < q
      BY <2>1, <2>2
    <2>3. CASE q < p
      BY <2>1, <2>3
    <2>4. CASE p = q
      BY <2>1, <2>4
    <2> QED BY <2>1, <2>2, <2>3, <2>4
  <1> QED BY <1>1, <1>2

\* There are finitely many changes.
LEMMA ChangeFinite == IsFiniteSet(Change)
  <1> DEFINE Q == Quantity \cup {0}
             P == Side \X (Price \X Q)
             f == [x \in P |-> [side |-> x[1], price |-> x[2][1], quantity |-> x[2][2]]]
  <1>1. IsFiniteSet(Q) /\ IsFiniteSet(Price)
    BY ConstantsAssumption, FS_AddElement
  <1>2. IsFiniteSet(Side)
    <2>1. Side = ({} \cup {"Bid"}) \cup {"Ask"}
      BY DEF Side
    <2> QED BY <2>1, FS_EmptySet, FS_AddElement
  <1> HIDE DEF Q
  <1>3. IsFiniteSet(P)
    BY <1>1, <1>2, FS_Product
  <1>4. f \in [P -> Change]
    BY DEF Change, Q
  <1>5. \A c \in Change : \E x \in P : f[x] = c
    <2> SUFFICES ASSUME NEW c \in Change PROVE \E x \in P : f[x] = c
      OBVIOUS
    <2>1. <<c.side, <<c.price, c.quantity>>>> \in P
      BY DEF Change, Q
    <2>2. f[<<c.side, <<c.price, c.quantity>>>>] = c
      BY <2>1 DEF Change
    <2> QED BY <2>1, <2>2
  <1> HIDE DEF f, P
  <1>6. f \in Surjection(P, Change)
    BY <1>4, <1>5, Fun_IsSurj
  <1> QED BY <1>3, <1>6, FS_Surjection

\* What a message makes of the market `m` tells: every tick is a change that says
\* what the market has, and on Binance there is one for each of the best levels.
Told(m, ticks) ==
    /\ ticks \in Seq(Change)
    /\ \A i \in 1..Len(ticks) : ticks[i].quantity = m[ticks[i].side][ticks[i].price]
    /\ exchange = "Binance" =>
         /\ \A i \in 1..Len(ticks) : ticks[i].quantity > 0
         /\ \A s \in Side, p \in Price :
              p \in Listed(m, s) => \E i \in 1..Len(ticks) : At(ticks[i], s, p)

\* A message of Binance, sorted.
LEMMA BinanceTold ==
    ASSUME NEW m \in [Side -> [Price -> Quantity \cup {0}]], NEW changes \in SUBSET Change,
           exchange = "Binance"
    PROVE Told(m, ParseBinance(Listing(m, changes)))
  <1> DEFINE S == {c \in Listing(m, changes) : c.quantity > 0}
             R == {x \in S \X S : Before(x[1], x[2])}
             f == ParseBinance(Listing(m, changes))
             n == Cardinality(S)
             lev(s, p) == [side |-> s, price |-> p, quantity |-> m[s][p]]
  <1>0. /\ \A c \in S : \E s \in Side, p \in Price : c = lev(s, p) /\ c \in Change /\ c.quantity > 0
        /\ \A s \in Side, p \in Price : p \in Listed(m, s) => lev(s, p) \in S
    <2>1. \A s \in Side, p \in Price : lev(s, p) \in Change
      BY DEF Change
    <2>2. \A s \in Side, p \in Price : p \in Listed(m, s) => lev(s, p).quantity > 0
      BY DEF Listed, Quoted
    <2>3. \A s \in Side : Listed(m, s) \subseteq Price
      BY DEF Listed, Quoted
    <2>4. \A c : c \in Listing(m, changes) <=>
             \/ c \in changes /\ c.quantity = 0
             \/ \E s \in Side : \E p \in Listed(m, s) : c = lev(s, p)
      BY DEF Listing
    <2>5. \A c \in S : c \in Listing(m, changes) /\ c.quantity > 0 /\ ~(c.quantity = 0)
      OBVIOUS
    <2>6. \A c : c \in Listing(m, changes) /\ c.quantity > 0 => c \in S
      OBVIOUS
    <2> HIDE DEF lev, S
    <2> QED BY <2>1, <2>2, <2>3, <2>4, <2>5, <2>6
  <1>00. \A s \in Side, p \in Price :
            lev(s, p).side = s /\ lev(s, p).price = p /\ lev(s, p).quantity = m[s][p]
    OBVIOUS
  <1> HIDE DEF lev
  <1>01. S \in SUBSET Change
    <2> HIDE DEF S
    <2> QED BY <1>0
  <1>1. IsFiniteSet(S) /\ n \in Nat
    BY <1>01, ChangeFinite, FS_Subset, FS_CardinalityType
  <1>2. \A c, d \in S : <<c, d>> \in R <=> Before(c, d)
    OBVIOUS
  <1>3. \A c \in S : c.side \in {"Bid", "Ask"} /\ c.price \in Nat
    BY <1>01, FixedInj DEF Change, Side
  <1>3a. \A c, d \in S : c.side = d.side /\ c.price = d.price => c = d
    <2> HIDE DEF S
    <2> QED BY <1>0, <1>00
  <1>4. StrictOrder(S, R)
    <2>1. \A c \in S : ~Before(c, c)
      BY <1>3 DEF Before
    <2>2. \A c, d \in S : c = d \/ Before(c, d) \/ Before(d, c)
      <3> HIDE DEF S
      <3> QED BY <1>3, <1>3a DEF Before
    <2>3. \A c, d, e \in S : Before(c, d) /\ Before(d, e) => Before(c, e)
      BY <1>3 DEF Before
    <2> HIDE DEF R, S
    <2> QED BY <1>2, <2>1, <2>2, <2>3 DEF StrictOrder
  <1>5. f = CHOOSE g \in [1..n -> S] : \A i, j \in DOMAIN g : i < j => <<g[i], g[j]>> \in R
    <2>1. f = CHOOSE g \in [1..n -> S] : \A i, j \in DOMAIN g : i < j => Before(g[i], g[j])
      BY DEF ParseBinance, SortedBy
    <2>2. ASSUME NEW g \in [1..n -> S]
          PROVE (\A i, j \in DOMAIN g : i < j => Before(g[i], g[j]))
                <=> (\A i, j \in DOMAIN g : i < j => <<g[i], g[j]>> \in R)
      <3>1. \A i \in DOMAIN g : g[i] \in S
        OBVIOUS
      <3> HIDE DEF R, S
      <3> QED BY <1>2, <3>1
    <2> HIDE DEF R, S, f, n
    <2> QED BY <2>1, <2>2
  <1> HIDE DEF R, f
  <1>6. Sorts(f, S, R)
    <2> HIDE DEF S
    <2> QED BY <1>1, <1>4, <1>5, SortedByIs
  <1>8. f \in [1..n -> S]
    BY <1>6 DEF Sorts
  <1>9. ASSUME NEW c \in S PROVE \E i \in 1..n : f[i] = c
    <2> HIDE DEF S
    <2> QED BY <1>1, <1>4, <1>6, SortsOnto
  <1>10. f \in Seq(S) /\ Len(f) = n
    <2> HIDE DEF S, n
    <2> QED BY <1>1, <1>8
  <1> QED
    <2>1. \A i \in 1..n : f[i] \in S
      BY <1>8
    <2> HIDE DEF n, S
    <2>2. f \in Seq(Change)
      <3>1. f \in [1..n -> Change]
        BY <1>01, <1>8
      <3> QED BY <1>1, <3>1
    <2>3. \A i \in 1..n : f[i].quantity = m[f[i].side][f[i].price] /\ f[i].quantity > 0
      BY <1>0, <1>00, <2>1
    <2>4. \A s \in Side, p \in Price : p \in Listed(m, s) => \E i \in 1..n : At(f[i], s, p)
      BY <1>0, <1>00, <1>9 DEF At
    <2> QED BY <1>10, <2>2, <2>3, <2>4 DEF Told, f

\* What each exchange's message tells.
LEMMA ParsedTold ==
    ASSUME NEW m \in [Side -> [Price -> Quantity \cup {0}]], NEW changes \in SUBSET Change,
           \A c \in changes : m[c.side][c.price] = c.quantity,
           exchange \in Exchange, NEW ticks \in Parsed(m, changes)
    PROVE Told(m, ticks)
  <1>1. CASE exchange = "Binance"
    <2>1. ticks = ParseBinance(Listing(m, changes))
      BY <1>1 DEF Parsed
    <2> QED BY <1>1, <2>1, BinanceTold
  <1>2. CASE exchange = "CoinbasePro"
    <2>1. PICK c \in changes : ticks = <<c>>
      BY <1>2 DEF Parsed, ParseCoinbase
    <2>2. ticks \in Seq(Change) /\ Len(ticks) = 1 /\ ticks[1] = c
      BY <2>1
    <2> QED BY <1>2, <2>2 DEF Told
  <1> QED BY <1>1, <1>2 DEF Exchange

\* Ticks of other levels change nothing for a level.
LEMMA QueueGrows ==
    ASSUME NEW T, queue \in Seq(T), NEW ticks \in Seq(T), queue' = queue \o ticks,
           NEW s \in Side, NEW p \in Price, \A i \in 1..Len(ticks) : ~At(ticks[i], s, p),
           market'[s][p] = market[s][p], levels' = levels, Current(s, p)
    PROVE Current(s, p)'
  <1>1. /\ Len(queue) \in Nat /\ Len(ticks) \in Nat /\ Len(queue') = Len(queue) + Len(ticks)
        /\ \A i \in 1..Len(queue) : queue'[i] = queue[i]
        /\ \A i \in 1..Len(queue') : i > Len(queue) => i - Len(queue) \in 1..Len(ticks)
                                                       /\ queue'[i] = ticks[i - Len(queue)]
    OBVIOUS
  <1>2. \A i \in 1..Len(queue') : At(queue'[i], s, p) => i \in 1..Len(queue) /\ At(queue[i], s, p)
    <2> SUFFICES ASSUME NEW i \in 1..Len(queue'), At(queue'[i], s, p)
                 PROVE i \in 1..Len(queue) /\ At(queue[i], s, p)
      OBVIOUS
    <2>1. ~(i > Len(queue))
      BY <1>1
    <2>2. i \in 1..Len(queue)
      BY <1>1, <2>1
    <2> QED BY <1>1, <2>2
  <1>3. CASE Pending(s, p)
    <2>1. PICK i \in 1..Len(queue) :
            /\ At(queue[i], s, p) /\ queue[i].quantity = market[s][p]
            /\ \A j \in 1..Len(queue) : i < j => ~At(queue[j], s, p)
      BY <1>3 DEF Pending
    <2>2. i \in 1..Len(queue') /\ queue'[i] = queue[i]
      BY <1>1
    <2>3. \A j \in 1..Len(queue') : i < j => ~At(queue'[j], s, p)
      BY <1>2, <2>1
    <2> QED BY <2>1, <2>2, <2>3 DEF Current, Pending
  <1>4. CASE Shows(s, p) /\ \A i \in 1..Len(queue) : ~At(queue[i], s, p)
    <2>1. Shows(s, p)'
      BY <1>4 DEF Shows
    <2> QED BY <1>2, <1>4, <2>1 DEF Current
  <1> QED BY <1>3, <1>4 DEF Current

\* The exchange's book after a message.
LEMMA AppliedIs ==
    ASSUME NEW changes \in SUBSET Change, Consistent(changes), BookType
    PROVE /\ Applied(market, changes) \in [Side -> [Price -> Quantity \cup {0}]]
          /\ \A c \in changes : Applied(market, changes)[c.side][c.price] = c.quantity
          /\ \A s \in Side, p \in Price :
                (\A c \in changes : ~At(c, s, p)) => Applied(market, changes)[s][p] = market[s][p]
  <1> DEFINE new == Applied(market, changes)
  <1>1. ASSUME NEW s \in Side, NEW p \in Price
        PROVE new[s][p] = IF \E c \in changes : c.side = s /\ c.price = p
                          THEN (CHOOSE c \in changes : c.side = s /\ c.price = p).quantity
                          ELSE market[s][p]
    BY Zenon DEF Applied
  <1>2. \A c \in changes : c.side \in Side /\ c.price \in Price /\ c.quantity \in Quantity \cup {0}
    BY DEF Change
  <1>2a. new = [s \in Side |-> [p \in Price |-> new[s][p]]]
    BY DEF Applied
  <1> HIDE DEF new
  <1>3. ASSUME NEW c \in changes PROVE new[c.side][c.price] = c.quantity
    <2> DEFINE d == CHOOSE e \in changes : e.side = c.side /\ e.price = c.price
    <2>1. new[c.side][c.price] = d.quantity
      <3> DEFINE there(e) == e.side = c.side /\ e.price = c.price
      <3>1. \E e \in changes : there(e)
        OBVIOUS
      <3>2. new[c.side][c.price] = IF \E e \in changes : there(e)
                                  THEN (CHOOSE e \in changes : there(e)).quantity
                                  ELSE market[c.side][c.price]
        BY <1>1, <1>2, Zenon
      <3> QED BY <3>1, <3>2
    <2>2. d \in changes /\ d.side = c.side /\ d.price = c.price
      OBVIOUS
    <2> QED BY <2>1, <2>2 DEF Consistent
  <1>4. \A s \in Side, p \in Price : (\A c \in changes : ~At(c, s, p)) => new[s][p] = market[s][p]
    BY <1>1, Zenon DEF At
  <1>5. ASSUME NEW s \in Side, NEW p \in Price PROVE new[s][p] \in Quantity \cup {0}
    <2>1. market[s][p] \in Quantity \cup {0}
      BY DEF BookType
    <2>2. CASE \E c \in changes : At(c, s, p)
      BY <1>2, <1>3, <2>2 DEF At
    <2>3. CASE \A c \in changes : ~At(c, s, p)
      BY <1>4, <2>1, <2>3
    <2> QED BY <2>2, <2>3
  <1>6. new \in [Side -> [Price -> Quantity \cup {0}]]
    BY <1>2a, <1>5
  <1> QED BY <1>3, <1>4, <1>6 DEF new

\* A message: the last tick of a level says what the market has now.
LEMMA DepthFollowed == BookInv /\ DepthMessage => BookInv'
  <1> SUFFICES ASSUME BookInv, DepthMessage PROVE BookInv'
    OBVIOUS
  <1>1. PICK changes \in UNION {kSubset(k, Change) : k \in 0..MaxChanges} :
         /\ Consistent(changes)
         /\ market' = Applied(market, changes)
         /\ \E ticks \in Parsed(market', changes) :
              queue' = queue \o ticks /\ heard' = Hears(changes, ticks)
    BY DEF DepthMessage
  <1>2. PICK ticks \in Parsed(market', changes) :
            queue' = queue \o ticks /\ heard' = Hears(changes, ticks)
    BY <1>1
  <1>3. changes \in SUBSET Change
    BY <1>1 DEF kSubset
  <1>4. exchange' = exchange /\ levels' = levels
    BY DEF DepthMessage, bookVars
  <1>6. /\ market' \in [Side -> [Price -> Quantity \cup {0}]]
        /\ \A c \in changes : market'[c.side][c.price] = c.quantity
        /\ \A s \in Side, p \in Price : (\A c \in changes : ~At(c, s, p)) => market'[s][p] = market[s][p]
    BY <1>1, <1>3, AppliedIs DEF BookInv
  <1>5. Told(market', ticks)
    <2>1. exchange \in Exchange
      BY DEF BookInv, BookType
    <2> DEFINE m == market'
    <2>2. /\ m \in [Side -> [Price -> Quantity \cup {0}]] /\ ticks \in Parsed(m, changes)
          /\ \A c \in changes : m[c.side][c.price] = c.quantity
      BY <1>6
    <2> HIDE DEF m
    <2>3. Told(m, ticks)
      BY <1>3, <2>1, <2>2, ParsedTold
    <2> QED BY <2>3 DEF m
  <1> DEFINE T == Change \cup {TradeTick}
  <1>7. queue \in Seq(T) /\ ticks \in Seq(T)
    <2>1. ticks \in Seq(Change)
      BY <1>5 DEF Told
    <2>2. ticks \in Seq(T)
      BY <2>1, Larger
    <2> QED BY <2>2 DEF BookInv, BookType
  <1>8. /\ queue' \in Seq(T) /\ Len(queue) \in Nat /\ Len(ticks) \in Nat
        /\ Len(queue') = Len(queue) + Len(ticks) /\ DOMAIN ticks = 1..Len(ticks)
        /\ \A i \in 1..Len(ticks) : Len(queue) + i \in 1..Len(queue') /\ queue'[Len(queue) + i] = ticks[i]
        /\ \A i \in 1..Len(queue') : i > Len(queue) => i - Len(queue) \in 1..Len(ticks)
                                                       /\ queue'[i] = ticks[i - Len(queue)]
    <2> HIDE DEF T
    <2> QED BY <1>2, <1>7
  <1>9. BookType' /\ LevelsFit'
    BY <1>4, <1>6, <1>8 DEF BookInv, BookType, LevelsFit
  <1> HIDE DEF T
  <1>9a. \A s \in Side, p \in Price :
            <<s, p>> \in heard' <=> \/ \E i \in 1..Len(ticks) : At(ticks[i], s, p)
                                    \/ <<s, p>> \in heard /\ \A c \in changes : ~At(c, s, p)
    <2>1. \A t, s, p : <<s, p>> = Spot(t) <=> At(t, s, p)
      BY DEF Spot, At
    <2> QED BY <1>2, <1>8, <2>1 DEF Hears
  <1>10. ASSUME NEW s \in Side, NEW p \in Price, <<s, p>> \in heard'
         PROVE Current(s, p)'
    <2>1. CASE \E i \in 1..Len(ticks) : At(ticks[i], s, p)
      <3> DEFINE D == {i \in 1..Len(ticks) : At(ticks[i], s, p)}
      <3>1. PICK i \in D : \A j \in D : j <= i
        <4>1. D \in SUBSET (1..Len(ticks)) /\ D # {}
          BY <2>1
        <4> HIDE DEF D
        <4> QED BY <4>1, <1>8, LastOf
      <3>2. /\ i \in 1..Len(ticks) /\ At(ticks[i], s, p)
            /\ \A j \in 1..Len(ticks) : At(ticks[j], s, p) => j <= i
        BY <3>1
      <3>4. ticks[i].quantity = market'[s][p]
        BY <1>5, <3>2 DEF At, Told
      <3>5. \A j \in 1..Len(queue') : Len(queue) + i < j => ~At(queue'[j], s, p)
        <4> SUFFICES ASSUME NEW j \in 1..Len(queue'), Len(queue) + i < j PROVE ~At(queue'[j], s, p)
          OBVIOUS
        <4>1. j > Len(queue)
          BY <1>8, <3>2
        <4>2. j - Len(queue) \in 1..Len(ticks) /\ queue'[j] = ticks[j - Len(queue)]
          BY <1>8, <4>1
        <4>3. ~(j - Len(queue) <= i)
          BY <1>8, <3>2
        <4> QED BY <3>2, <4>2, <4>3
      <3>6. Pending(s, p)'
        <4>1. Len(queue) + i \in 1..Len(queue') /\ queue'[Len(queue) + i] = ticks[i]
          BY <1>8, <3>2
        <4> QED BY <3>2, <3>4, <3>5, <4>1 DEF Pending
      <3> QED BY <3>6 DEF Current
    <2>2. CASE \A i \in 1..Len(ticks) : ~At(ticks[i], s, p)
      <3>1. <<s, p>> \in heard /\ market'[s][p] = market[s][p]
        BY <1>6, <1>9a, <1>10, <2>2
      <3>2. Current(s, p)
        BY <3>1 DEF BookInv, Followed
      <3> QED BY <1>2, <1>4, <1>7, <2>2, <3>1, <3>2, QueueGrows
    <2> QED BY <2>1, <2>2
  <1>11. Followed'
    BY <1>4, <1>10 DEF Followed
  <1>12. ListedHeard'
    <2> SUFFICES ASSUME exchange = "Binance", NEW s \in Side, NEW p \in Price, p \in Listed(market', s)
                 PROVE <<s, p>> \in heard'
      BY <1>4 DEF ListedHeard, Listed, Quoted
    <2>1. \E i \in 1..Len(ticks) : At(ticks[i], s, p)
      BY <1>5 DEF Told
    <2> QED BY <1>9a, <2>1
  <1> QED BY <1>9, <1>11, <1>12 DEF BookInv

\* A trade is a tick of no level.
LEMMA TradeFollowed == BookInv /\ TradeMessage => BookInv'
  <1> SUFFICES ASSUME BookInv, TradeMessage PROVE BookInv'
    OBVIOUS
  <1> DEFINE T == Change \cup {TradeTick}
             ticks == <<TradeTick>>
  <1>1. queue \in Seq(T) /\ TradeTick \in T
    BY DEF BookInv, BookType
  <1>2. UNCHANGED <<exchange, market, heard, levels>> /\ queue' = Append(queue, TradeTick)
    BY DEF TradeMessage, TradeTick, streamVars, bookVars
  <1>3. \A s \in Side : TradeTick.side # s
    BY DEF TradeTick, Side
  <1> HIDE DEF T
  <1>4. queue' \in Seq(T) /\ ticks \in Seq(T) /\ queue' = queue \o ticks
        /\ Len(ticks) = 1 /\ ticks[1] = TradeTick
    BY <1>1, <1>2
  <1>5. BookType' /\ LevelsFit'
    BY <1>2, <1>4 DEF BookInv, BookType, LevelsFit, T
  <1> HIDE DEF ticks
  <1>6. ASSUME NEW s \in Side, NEW p \in Price, <<s, p>> \in heard'
        PROVE Current(s, p)'
    <2>1. Current(s, p) /\ market'[s][p] = market[s][p]
      BY <1>2, <1>6 DEF BookInv, Followed
    <2>2. \A i \in 1..Len(ticks) : ~At(ticks[i], s, p)
      BY <1>3, <1>4 DEF At
    <2> QED BY <1>1, <1>2, <1>4, <2>1, <2>2, QueueGrows
  <1>7. ListedHeard'
    BY <1>2 DEF BookInv, ListedHeard, Listed, Quoted
  <1> QED BY <1>5, <1>6, <1>7 DEF BookInv, Followed

\* What a tick leaves of a side of the enhanced book.
LEMMA SideFits ==
    ASSUME BookInv, NEW t \in Change, levels' = [levels EXCEPT ![t.side] = BookSide(@, t)]
    PROVE /\ levels' \in [Side -> SUBSET [price : Nat, quantity : Quantity]] /\ LevelsFit'
          /\ \A s \in Side : s # t.side => levels'[s] = levels[s]
          /\ \A l : l \in levels'[t.side] <=>
                \/ l \in levels[t.side] /\ l.price # Fixed[t.price]
                \/ t.quantity > 0 /\ l = [price |-> Fixed[t.price], quantity |-> t.quantity]
  <1> DEFINE s == t.side
             new == [price |-> Fixed[t.price], quantity |-> t.quantity]
  <1>1. t.side \in Side /\ t.price \in Price /\ t.quantity \in Quantity \cup {0}
    BY DEF Change
  <1>2. Fixed[t.price] \in Nat
    BY <1>1, FixedInj
  <1>3. t.quantity > 0 => new \in [price : Nat, quantity : Quantity]
    BY <1>1, <1>2
  <1>4. /\ levels'[s] = BookSide(levels[s], t) /\ levels[s] \in SUBSET [price : Nat, quantity : Quantity]
        /\ \A r \in Side : r # s => levels'[r] = levels[r]
        /\ levels' = [r \in Side |-> levels'[r]]
    BY <1>1 DEF BookInv, BookType
  <1>5. \A l : l \in levels'[s] <=>
                \/ l \in levels[s] /\ l.price # Fixed[t.price]
                \/ t.quantity > 0 /\ l = new
    BY <1>4 DEF BookSide, Others
  <1> HIDE DEF new
  <1>6. levels' \in [Side -> SUBSET [price : Nat, quantity : Quantity]]
    <2>1. levels'[s] \in SUBSET [price : Nat, quantity : Quantity]
      BY <1>3, <1>4, <1>5
    <2>2. \A r \in Side : levels'[r] \in SUBSET [price : Nat, quantity : Quantity]
      BY <1>4, <2>1 DEF BookInv, BookType
    <2> QED BY <1>4, <2>2
  <1>7. new.price = Fixed[t.price]
    BY DEF new
  <1>8. LevelsFit'
    <2> SUFFICES ASSUME NEW r \in Side, NEW l \in levels'[r]
                 PROVE /\ \E p \in Price : l.price = Fixed[p]
                       /\ \A m \in levels'[r] : l.price = m.price => l = m
      BY DEF LevelsFit
    <2>1. CASE r # s
      BY <1>4, <2>1 DEF BookInv, LevelsFit
    <2>2. CASE r = s
      <3>1. \A m \in levels[s] : m \in levels[s] /\ (\E p \in Price : m.price = Fixed[p])
                                 /\ \A o \in levels[s] : m.price = o.price => m = o
        BY <1>1 DEF BookInv, LevelsFit
      <3> QED BY <1>1, <1>5, <1>7, <2>2, <3>1
    <2> QED BY <2>1, <2>2
  <1> QED BY <1>4, <1>5, <1>6, <1>8 DEF new

\* A tick brings the level it is about up to date, and leaves the others.
LEMMA TickFollowed == BookInv /\ ProcessTick => BookInv'
  <1> SUFFICES ASSUME BookInv, ProcessTick PROVE BookInv'
    OBVIOUS
  <1> DEFINE t == Head(queue)
             T == Change \cup {TradeTick}
             n == Len(queue)
  <1>1. UNCHANGED <<exchange, market, heard>> /\ queue # <<>> /\ queue' = Tail(queue) /\ UpdateBooks(t)
    BY DEF ProcessTick, streamVars
  <1>2. queue \in Seq(T) /\ \A s \in Side : TradeTick.side = "Trade" /\ s # "Trade"
    BY DEF BookInv, BookType, TradeTick, Side
  <1> HIDE DEF T
  <1>3. /\ n \in Nat /\ n > 0 /\ t = queue[1] /\ t \in T /\ queue' \in Seq(T)
        /\ Len(queue') = n - 1
        /\ \A i \in 1..(n - 1) : i + 1 \in 1..n /\ queue'[i] = queue[i + 1]
    BY <1>1, <1>2
  <1> HIDE DEF t, n
  <1>4. /\ levels' \in [Side -> SUBSET [price : Nat, quantity : Quantity]] /\ LevelsFit'
        /\ \A s \in Side, p \in Price : ~At(t, s, p) /\ Shows(s, p) => Shows(s, p)'
        /\ \A s \in Side, p \in Price : At(t, s, p) /\ t.quantity = market[s][p] => Shows(s, p)'
    <2>1. CASE t.side = "Trade"
      <3>1. levels' = levels /\ \A s \in Side, p \in Price : ~At(t, s, p)
        BY <1>1, <1>2, <2>1 DEF UpdateBooks, At
      <3> QED BY <1>1, <3>1 DEF BookInv, BookType, LevelsFit, Shows
    <2>2. CASE t.side # "Trade"
      <3>1. t \in Change
        BY <1>2, <1>3, <2>2 DEF T, TradeTick
      <3>2. levels' = [levels EXCEPT ![t.side] = BookSide(@, t)]
        BY <1>1, <2>2 DEF UpdateBooks
      <3>3. /\ levels' \in [Side -> SUBSET [price : Nat, quantity : Quantity]] /\ LevelsFit'
            /\ \A s \in Side : s # t.side => levels'[s] = levels[s]
            /\ \A l : l \in levels'[t.side] <=>
                  \/ l \in levels[t.side] /\ l.price # Fixed[t.price]
                  \/ t.quantity > 0 /\ l = [price |-> Fixed[t.price], quantity |-> t.quantity]
        BY <3>1, <3>2, SideFits
      <3>4. t.side \in Side /\ t.price \in Price /\ t.quantity \in Quantity \cup {0}
        BY <3>1 DEF Change
      <3>5. ASSUME NEW s \in Side, NEW p \in Price, ~At(t, s, p), Shows(s, p) PROVE Shows(s, p)'
        <4>1. CASE s # t.side
          BY <1>1, <3>3, <3>5, <4>1 DEF Shows
        <4>2. CASE s = t.side
          <5>1. Fixed[p] # Fixed[t.price]
            BY <3>4, <3>5, <4>2, FixedInj DEF At
          <5> DEFINE l == [price |-> Fixed[p], quantity |-> market[s][p]]
                     new == [price |-> Fixed[t.price], quantity |-> t.quantity]
          <5>2. l.price = Fixed[p] /\ new.price = Fixed[t.price]
            OBVIOUS
          <5>3. IF market[s][p] > 0 THEN l \in levels[s] ELSE \A m \in levels[s] : m.price # Fixed[p]
            BY <3>5 DEF Shows
          <5>4. \A m : m \in levels'[s] <=> \/ m \in levels[s] /\ m.price # Fixed[t.price]
                                            \/ t.quantity > 0 /\ m = new
            BY <3>3, <4>2
          <5>5. IF market[s][p] > 0 THEN l \in levels'[s] ELSE \A m \in levels'[s] : m.price # Fixed[p]
            <6> HIDE DEF l, new
            <6> QED BY <5>1, <5>2, <5>3, <5>4
          <5> QED BY <1>1, <5>5 DEF Shows
        <4> QED BY <4>1, <4>2
      <3>6. ASSUME NEW s \in Side, NEW p \in Price, At(t, s, p), t.quantity = market[s][p]
            PROVE Shows(s, p)'
        BY <1>1, <3>3, <3>6 DEF Shows, At
      <3> QED BY <3>3, <3>5, <3>6
    <2> QED BY <2>1, <2>2
  <1>5. BookType' /\ LevelsFit'
    BY <1>1, <1>3, <1>4 DEF BookInv, BookType, T
  <1>6. ASSUME NEW s \in Side, NEW p \in Price, <<s, p>> \in heard'
        PROVE Current(s, p)'
    <2>1. Current(s, p)
      BY <1>1, <1>6 DEF BookInv, Followed
    <2>2. CASE Pending(s, p)
      <3>1. PICK i \in 1..n :
              /\ At(queue[i], s, p) /\ queue[i].quantity = market[s][p]
              /\ \A j \in 1..n : i < j => ~At(queue[j], s, p)
        BY <2>2 DEF Pending, n
      <3>2. CASE i = 1
        <4>1. Shows(s, p)'
          BY <1>3, <1>4, <3>1, <3>2
        <4>2. ASSUME NEW j \in 1..(n - 1) PROVE ~At(queue'[j], s, p)
          <5>1. j + 1 \in 1..n /\ 1 < j + 1 /\ queue'[j] = queue[j + 1]
            BY <1>3
          <5> QED BY <3>1, <3>2, <5>1
        <4> QED BY <1>3, <4>1, <4>2 DEF Current
      <3>3. CASE i # 1
        <4>1. i - 1 \in 1..(n - 1)
          BY <1>3, <3>3
        <4>2. queue'[i - 1] = queue[(i - 1) + 1] /\ (i - 1) + 1 = i
          BY <1>3, <4>1
        <4>3. ASSUME NEW j \in 1..(n - 1), i - 1 < j PROVE ~At(queue'[j], s, p)
          <5>1. j + 1 \in 1..n /\ i < j + 1 /\ queue'[j] = queue[j + 1]
            BY <1>3, <4>3
          <5> QED BY <3>1, <5>1
        <4>4. Pending(s, p)'
          BY <1>1, <1>3, <3>1, <4>1, <4>2, <4>3 DEF Pending
        <4> QED BY <4>4 DEF Current
      <3> QED BY <3>2, <3>3
    <2>3. CASE Shows(s, p) /\ \A i \in 1..n : ~At(queue[i], s, p)
      <3>1. 1 \in 1..n
        BY <1>3
      <3>2. Shows(s, p)'
        BY <1>3, <1>4, <2>3, <3>1
      <3>3. \A i \in 1..(n - 1) : ~At(queue'[i], s, p)
        BY <1>3, <2>3
      <3> QED BY <1>3, <3>2, <3>3 DEF Current
    <2> QED BY <2>1, <2>2, <2>3 DEF Current, n
  <1>7. ListedHeard'
    BY <1>1 DEF BookInv, ListedHeard, Listed, Quoted
  <1> QED BY <1>5, <1>6, <1>7 DEF BookInv, Followed

\* Every step of either service keeps the invariant.
LEMMA NextFollowed == BookInv /\ [FeedNext]_feedVars => BookInv'
  <1> SUFFICES ASSUME BookInv, [FeedNext]_feedVars PROVE BookInv'
    OBVIOUS
  <1>1. CASE UNCHANGED <<exchange, market, heard, queue, levels>>
    BY <1>1 DEF BookInv, BookType, LevelsFit, Followed, Current, Pending, Shows, ListedHeard, Listed, Quoted
  <1>2. CASE EndStream \/ EndOfLoop \/ ClockChange \/ Publish
    BY <1>1, <1>2 DEF EndStream, EndOfLoop, Publish, ClockChange, streamVars, bookVars
  <1>3. CASE UNCHANGED <<streamVars, queue, main, bookVars, clock, messages, steps>>
    BY <1>1, <1>3 DEF streamVars, bookVars
  <1>4. CASE UNCHANGED feedVars
    BY <1>1, <1>4 DEF feedVars, vars, streamVars, bookVars
  <1> QED BY <1>2, <1>3, <1>4, DepthFollowed, TradeFollowed, TickFollowed DEF FeedNext, Next, Loop

\* Before the first message nothing has been heard of.
LEMMA InitFollowed == FeedInit => BookInv
  <1> SUFFICES ASSUME Init PROVE BookInv
    BY DEF FeedInit
  <1>1. /\ exchange \in Exchange /\ queue = <<>> /\ levels = [s \in Side |-> {}] /\ heard = {}
        /\ market \in [Side -> [Price -> Quantity \cup {0}]]
    BY DEF Init, NoLevels
  <1>2. \A s \in Side : levels[s] = {}
    BY <1>1
  <1>3. BookType
    BY <1>1 DEF BookType
  <1> QED BY <1>1, <1>2, <1>3 DEF BookInv, LevelsFit, Followed, ListedHeard

\* Once the channel is drained, the book shows what the exchange has wherever the
\* service heard of it, and on Binance all of the exchange's best levels: for any
\* book it had at the start and any sequence of messages.
THEOREM LevelsStayKept == FeedSpec => []LevelsKept
  <1>1. BookInv => LevelsKept
    <2> SUFFICES ASSUME BookInv, queue = <<>>, NEW s \in Side, NEW p \in Price,
                        <<s, p>> \in heard \/ (exchange = "Binance" /\ heard # {} /\ p \in Listed(market, s))
                 PROVE Shows(s, p)
      BY DEF LevelsKept
    <2>1. <<s, p>> \in heard
      BY DEF BookInv, ListedHeard
    <2>2. Current(s, p)
      BY <2>1 DEF BookInv, Followed
    <2>3. Len(queue) = 0
      OBVIOUS
    <2>4. ~Pending(s, p)
      BY <2>3 DEF Pending
    <2> QED BY <2>2, <2>4 DEF Current
  <1> QED BY <1>1, InitFollowed, NextFollowed, PTL DEF FeedSpec

----------------------------------------------------------------------------
(* The simple book, and how it stands to the enhanced one.                  *)

Level(P) == [price : P, quantity : Quantity]
Distinct(S) == \A l, m \in S : l.price = m.price => l = m
Ahead(s, S) == {x \in S \X S : Better(s, x[1], x[2])}
Ordered(s, f) == \A i, j \in 1..Len(f) : i < j => Better(s, f[i], f[j])

\* There are finitely many levels at finitely many prices.
LEMMA LevelFinite ==
    ASSUME NEW P, IsFiniteSet(P)
    PROVE IsFiniteSet(Level(P))
  <1> DEFINE f == [x \in P \X Quantity |-> [price |-> x[1], quantity |-> x[2]]]
  <1>1. IsFiniteSet(P \X Quantity)
    BY ConstantsAssumption, FS_Product
  <1>2. f \in [P \X Quantity -> Level(P)]
    BY DEF Level
  <1>3. \A c \in Level(P) : \E x \in P \X Quantity : f[x] = c
    <2> SUFFICES ASSUME NEW c \in Level(P) PROVE \E x \in P \X Quantity : f[x] = c
      OBVIOUS
    <2>1. <<c.price, c.quantity>> \in P \X Quantity
      BY DEF Level
    <2>2. f[<<c.price, c.quantity>>] = c
      BY <2>1 DEF Level
    <2> QED BY <2>1, <2>2
  <1> HIDE DEF f
  <1>4. f \in Surjection(P \X Quantity, Level(P))
    BY <1>2, <1>3, Fun_IsSurj
  <1> QED BY <1>1, <1>4, FS_Surjection

\* A level is better than another on a side, or worse, or at the same price.
LEMMA BetterOrders ==
    ASSUME NEW s \in Side, NEW l, NEW m, NEW o,
           l.price \in Nat, m.price \in Nat, o.price \in Nat
    PROVE /\ ~Better(s, l, l)
          /\ Better(s, l, m) \/ Better(s, m, l) \/ l.price = m.price
          /\ Better(s, l, m) => ~Better(s, m, l) /\ l.price # m.price
          /\ Better(s, l, m) /\ Better(s, m, o) => Better(s, l, o)
          /\ m.price = o.price => (Better(s, l, m) <=> Better(s, l, o))
  BY DEF Better

\* The levels of a side sorted: all of them, and in order.
LEMMA BestFirstSorts ==
    ASSUME NEW s \in Side, NEW S \in SUBSET Level(Nat), Distinct(S), IsFiniteSet(S)
    PROVE LET f == BestFirst(s, S)
          IN /\ StrictOrder(S, Ahead(s, S)) /\ Sorts(f, S, Ahead(s, S))
             /\ Cardinality(S) \in Nat /\ Len(f) = Cardinality(S)
             /\ f \in [1..Len(f) -> S] /\ f \in Seq(S) /\ Ordered(s, f)
             /\ \A x \in S : \E i \in 1..Len(f) : f[i] = x
  <1> DEFINE R == Ahead(s, S)
             f == BestFirst(s, S)
             n == Cardinality(S)
  <1>1. n \in Nat
    BY FS_CardinalityType
  <1>2. \A l, m \in S : <<l, m>> \in R <=> Better(s, l, m)
    BY DEF Ahead
  <1>3. \A l \in S : l.price \in Nat
    BY DEF Level
  <1> HIDE DEF R
  <1>4. StrictOrder(S, R)
    <2>1. \A l \in S : ~Better(s, l, l)
      BY <1>3, BetterOrders
    <2>2. \A l, m \in S : l = m \/ Better(s, l, m) \/ Better(s, m, l)
      BY <1>3, BetterOrders DEF Distinct
    <2>3. \A l, m, o \in S : Better(s, l, m) /\ Better(s, m, o) => Better(s, l, o)
      BY <1>3, BetterOrders
    <2> QED BY <1>2, <2>1, <2>2, <2>3 DEF StrictOrder
  <1>5. f = CHOOSE g \in [1..n -> S] : \A i, j \in DOMAIN g : i < j => <<g[i], g[j]>> \in R
    <2>1. f = CHOOSE g \in [1..n -> S] : \A i, j \in DOMAIN g : i < j => Better(s, g[i], g[j])
      BY DEF BestFirst, SortedBy
    <2>2. ASSUME NEW g \in [1..n -> S]
          PROVE (\A i, j \in DOMAIN g : i < j => Better(s, g[i], g[j]))
                <=> (\A i, j \in DOMAIN g : i < j => <<g[i], g[j]>> \in R)
      <3>1. \A i \in DOMAIN g : g[i] \in S
        OBVIOUS
      <3> QED BY <1>2, <3>1
    <2> HIDE DEF f, n
    <2> QED BY <2>1, <2>2
  <1> HIDE DEF f
  <1>6. Sorts(f, S, R)
    BY <1>4, <1>5, SortedByIs
  <1>7. \A x \in S : \E i \in 1..n : f[i] = x
    BY <1>4, <1>6, SortsOnto
  <1>8. /\ f \in [1..n -> S]
        /\ \A i, j \in 1..n : i < j => <<f[i], f[j]>> \in R
    BY <1>6 DEF Sorts
  <1> HIDE DEF n
  <1>9. f \in Seq(S) /\ Len(f) = n
    BY <1>1, <1>8
  <1>10. Ordered(s, f)
    <2>1. \A i \in 1..n : f[i] \in S
      BY <1>8
    <2> QED BY <1>2, <1>8, <1>9, <2>1 DEF Ordered
  <1> QED BY <1>1, <1>4, <1>6, <1>7, <1>8, <1>9, <1>10 DEF R, f, n

\* A sequence of levels in order is the sort of its elements.
LEMMA OrderedBest ==
    ASSUME NEW s \in Side, NEW f \in Seq(Level(Nat)), Ordered(s, f)
    PROVE /\ ToSet(f) \in SUBSET Level(Nat) /\ Distinct(ToSet(f))
          /\ \A x : x \in ToSet(f) <=> \E i \in 1..Len(f) : f[i] = x
          /\ IsFiniteSet(ToSet(f)) /\ Cardinality(ToSet(f)) = Len(f)
          /\ f = BestFirst(s, ToSet(f))
  <1> DEFINE n == Len(f)
             S == {f[i] : i \in 1..n}
             R == Ahead(s, S)
             g == BestFirst(s, S)
  <1>1. n \in Nat /\ f \in [1..n -> Level(Nat)] /\ ToSet(f) = S
    BY DEF ToSet
  <1>2. \A x : x \in S <=> \E i \in 1..n : f[i] = x
    OBVIOUS
  <1>3. \A i \in 1..n : f[i] \in S /\ f[i] \in Level(Nat)
    BY <1>1
  <1> HIDE DEF S
  <1>4. \A l \in Level(Nat) : l.price \in Nat
    BY DEF Level
  <1>5. S \in SUBSET Level(Nat)
    BY <1>2, <1>3
  <1>6. Distinct(S)
    <2> SUFFICES ASSUME NEW i \in 1..n, NEW j \in 1..n, f[i].price = f[j].price PROVE f[i] = f[j]
      BY <1>2 DEF Distinct
    <2>1. ~Better(s, f[i], f[j]) /\ ~Better(s, f[j], f[i])
      BY <1>3, <1>4, BetterOrders
    <2>2. ~(i < j) /\ ~(j < i)
      BY <2>1 DEF Ordered
    <2> QED BY <2>2
  <1>7. \A x \in S : <<x, x>> \notin R
    BY <1>4, <1>5, BetterOrders DEF Ahead
  <1>8. f \in [1..n -> S] /\ \A i, j \in 1..n : i < j => <<f[i], f[j]>> \in R
    BY <1>1, <1>3 DEF Ahead, Ordered
  <1> HIDE DEF R
  <1>9. IsFiniteSet(S) /\ Cardinality(S) = n /\ Sorts(f, S, R)
    <2> HIDE DEF n
    <2> QED BY <1>1, <1>2, <1>7, <1>8, OrderedSorts
  <1>10. StrictOrder(S, R) /\ Sorts(g, S, R) /\ Len(g) = n /\ g \in [1..n -> S]
    BY <1>5, <1>6, <1>9, BestFirstSorts DEF R
  <1> HIDE DEF g
  <1>11. FirstOf(f, n, S, R)
    BY <1>9, <1>10, SortsAll
  <1>12. \A i \in 1..n : f[i] = g[i]
    BY <1>1, <1>9, <1>10, <1>11, SortStarts
  <1>13. f = g
    BY <1>8, <1>10, <1>12
  <1> QED BY <1>1, <1>2, <1>5, <1>6, <1>9, <1>13 DEF g

\* The first elements of a sequence.
LEMMA UpToIs ==
    ASSUME NEW S, NEW f \in Seq(S), NEW n \in Nat
    PROVE LET m == IF n <= Len(f) THEN n ELSE Len(f)
          IN /\ UpTo(n, f) \in Seq(S) /\ Len(UpTo(n, f)) = m /\ m \in Nat /\ m <= n /\ m <= Len(f)
             /\ \A i \in 1..m : UpTo(n, f)[i] = f[i] /\ i \in 1..Len(f)
  <1> DEFINE m == IF n <= Len(f) THEN n ELSE Len(f)
  <1>1. Len(f) \in Nat /\ m \in Nat /\ m <= n /\ m <= Len(f)
    OBVIOUS
  <1>2. Min({n, Len(f)}) = m
    <2>1. m \in {n, Len(f)} /\ \A y \in {n, Len(f)} : m <= y
      BY <1>1
    <2>2. \A x \in {n, Len(f)} : (\A y \in {n, Len(f)} : x <= y) => x = m
      BY <1>1, <2>1
    <2> HIDE DEF m
    <2> QED BY <2>1, <2>2 DEF Min
  <1>3. UpTo(n, f) = SubSeq(f, 1, m)
    BY <1>2 DEF UpTo
  <1> HIDE DEF m
  <1>4. SubSeq(f, 1, m) \in Seq(S) /\ Len(SubSeq(f, 1, m)) = m
        /\ \A i \in 1..m : SubSeq(f, 1, m)[i] = f[i]
    BY <1>1
  <1> QED BY <1>1, <1>3, <1>4 DEF m

\* The levels that are retained keep their order.
LEMMA RetainedIs ==
    ASSUME NEW S, NEW f \in Seq(S), NEW p
    PROVE LET g == Retained(f, p)
          IN /\ g \in Seq(S) /\ Len(g) \in Nat /\ Len(g) <= Len(f)
             /\ \E k \in [1..Len(g) -> 1..Len(f)] :
                   /\ \A i \in 1..Len(g) : g[i] = f[k[i]] /\ f[k[i]].price # p
                   /\ \A i, j \in 1..Len(g) : i < j => k[i] < k[j]
  <1> DEFINE D == {i \in DOMAIN f : f[i].price # p}
             R == {x \in D \X D : x[1] < x[2]}
             n == Cardinality(D)
             k == SortedBy(D, LAMBDA i, j : i < j)
             g == Retained(f, p)
  <1>1. /\ Len(f) \in Nat /\ DOMAIN f = 1..Len(f) /\ D \subseteq 1..Len(f)
        /\ \A i \in 1..Len(f) : f[i] \in S
        /\ \A i \in D : i \in 1..Len(f) /\ f[i].price # p
    OBVIOUS
  <1>2. \A i, j \in D : <<i, j>> \in R <=> i < j
    OBVIOUS
  <1> HIDE DEF D, R
  <1>3. IsFiniteSet(D) /\ n \in Nat /\ n <= Len(f)
    <2> DEFINE I == 1..Len(f)
    <2>1. I \subseteq 1..Len(f) /\ 1 \in Int /\ Len(f) \in Int
      BY <1>1
    <2>2. IsFiniteSet(I) /\ Cardinality(I) = IF 1 > Len(f) THEN 0 ELSE Len(f) - 1 + 1
      BY <2>1, FS_Interval
    <2>3. D \in SUBSET I
      BY <1>1
    <2> HIDE DEF I
    <2>4. IsFiniteSet(D) /\ Cardinality(D) <= Cardinality(I) /\ n \in Nat
      BY <2>2, <2>3, FS_Subset, FS_CardinalityType
    <2> QED BY <1>1, <2>2, <2>4
  <1>4. StrictOrder(D, R)
    BY <1>1, <1>2 DEF StrictOrder
  <1>5. k = CHOOSE h \in [1..n -> D] : \A i, j \in DOMAIN h : i < j => <<h[i], h[j]>> \in R
    <2>1. k = CHOOSE h \in [1..n -> D] : \A i, j \in DOMAIN h : i < j => h[i] < h[j]
      BY DEF SortedBy
    <2>2. ASSUME NEW h \in [1..n -> D]
          PROVE (\A i, j \in DOMAIN h : i < j => h[i] < h[j])
                <=> (\A i, j \in DOMAIN h : i < j => <<h[i], h[j]>> \in R)
      <3>1. \A i \in DOMAIN h : h[i] \in D
        OBVIOUS
      <3> QED BY <1>2, <3>1
    <2> HIDE DEF k, n
    <2> QED BY <2>1, <2>2
  <1>6. g = [i \in DOMAIN k |-> f[k[i]]]
    BY DEF Retained, D
  <1> HIDE DEF k, g
  <1>7. k \in [1..n -> D] /\ \A i, j \in 1..n : i < j => <<k[i], k[j]>> \in R
    <2>1. Sorts(k, D, R)
      BY <1>3, <1>4, <1>5, SortedByIs
    <2> QED BY <2>1 DEF Sorts
  <1> HIDE DEF n
  <1>8. \A i \in 1..n : k[i] \in D
    BY <1>7
  <1>9. g \in [1..n -> S] /\ \A i \in 1..n : g[i] = f[k[i]] /\ f[k[i]].price # p
    BY <1>1, <1>6, <1>7, <1>8
  <1>10. g \in Seq(S) /\ Len(g) = n
    BY <1>3, <1>9
  <1>11. k \in [1..Len(g) -> 1..Len(f)] /\ \A i, j \in 1..n : i < j => k[i] < k[j]
    BY <1>1, <1>2, <1>7, <1>8, <1>10
  <1> QED BY <1>1, <1>3, <1>9, <1>10, <1>11 DEF g

InBook(l) == [price |-> Fixed[l.price], quantity |-> l.quantity]

\* The builder's side is in order, is not too long and holds levels of the
\* book; if it holds all it can, what it lacks comes after all it holds.
SideInv(s, b, L, all) ==
    /\ b \in Seq(Level(Price)) /\ Len(b) <= Top /\ Ordered(s, b)
    /\ \A i \in 1..Len(b) : InBook(b[i]) \in L
    /\ all => \A l \in L : \/ \E i \in 1..Len(b) : InBook(b[i]) = l
                           \/ Len(b) = Top /\ \A i \in 1..Len(b) : Better(s, InBook(b[i]), l)

\* A level in fixed point keeps its place.
LEMMA InBookIs ==
    ASSUME NEW s \in Side, NEW l, NEW m, l.price \in Price, m.price \in Price
    PROVE /\ InBook(l).price = Fixed[l.price] /\ InBook(l).price \in Nat
          /\ InBook(m).price = Fixed[m.price] /\ InBook(m).price \in Nat
          /\ l.price \in Nat /\ m.price \in Nat
          /\ InBook(l).price = InBook(m).price <=> l.price = m.price
          /\ Better(s, InBook(l), InBook(m)) <=> Better(s, l, m)
  <1>1. InBook(l).price = Fixed[l.price] /\ InBook(m).price = Fixed[m.price]
    BY DEF InBook
  <1>2. /\ l.price \in Nat /\ m.price \in Nat /\ Fixed[l.price] \in Nat /\ Fixed[m.price] \in Nat
        /\ l.price < m.price <=> Fixed[l.price] < Fixed[m.price]
        /\ m.price < l.price <=> Fixed[m.price] < Fixed[l.price]
        /\ Fixed[l.price] = Fixed[m.price] => l.price = m.price
    BY FixedInj
  <1>3. Better(s, InBook(l), InBook(m)) <=> Better(s, l, m)
    BY <1>1, <1>2 DEF Better
  <1> QED BY <1>1, <1>2, <1>3

\* A full side, and a level after all of it: once a new level is sorted in, the
\* first Top are still before that level.
LEMMA FullSide ==
    ASSUME NEW s \in Side, NEW b \in Seq(Level(Price)), Ordered(s, b), Len(b) = Top,
           NEW l, l.price \in Nat, \A i \in 1..Len(b) : Better(s, InBook(b[i]), l),
           NEW new \in Level(Price), NEW S, S = Others(ToSet(b), new.price) \cup {new},
           NEW f, f \in [1..Len(f) -> S], Len(f) = Cardinality(S), Ordered(s, f)
    PROVE Top <= Len(f) /\ \A i \in 1..Top : Better(s, InBook(f[i]), l)
  <1> DEFINE B == ToSet(b)
  <1>1. /\ B \in SUBSET Level(Nat) /\ Distinct(B) /\ IsFiniteSet(B) /\ Cardinality(B) = Top
        /\ \A x : x \in B <=> \E i \in 1..Len(b) : b[i] = x
    <2>1. b \in Seq(Level(Nat))
      <3>1. Level(Price) \subseteq Level(Nat)
        BY FixedInj DEF Level
      <3>2. Len(b) \in Nat /\ b \in [1..Len(b) -> Level(Price)]
        OBVIOUS
      <3>3. b \in [1..Len(b) -> Level(Nat)]
        BY <3>1, <3>2
      <3> QED BY <3>2, <3>3
    <2> QED BY <2>1, OrderedBest
  <1> HIDE DEF B
  <1>2. ASSUME NEW x \in B
        PROVE x \in Level(Price) /\ x.price \in Price /\ Better(s, InBook(x), l)
    <2>1. PICK i \in 1..Len(b) : b[i] = x
      BY <1>1
    <2>2. x \in Level(Price)
      BY <2>1
    <2> QED BY <2>1, <2>2 DEF Level
  <1>3. new.price \in Price /\ Top \in Nat /\ InBook(new).price \in Nat
    BY InBookIs, ConstantsAssumption DEF Level
  <1>4. S = Others(B, new.price) \cup {new} /\ \A x \in S : x \in B \/ x = new
    BY DEF B, Others
  <1>5. CASE \E x \in B : x.price = new.price
    <2>1. PICK x \in B : x.price = new.price
      BY <1>5
    <2>2. Others(B, new.price) = B \ {x}
      BY <1>1, <2>1 DEF Others, Distinct
    <2>3. IsFiniteSet(B \ {x}) /\ Cardinality(B \ {x}) = Top - 1
      BY <1>1, FS_RemoveElement
    <2>4. new \notin B \ {x}
      BY <1>1, <2>1 DEF Distinct
    <2>5. Cardinality(S) = Top
      <3>1. Cardinality((B \ {x}) \cup {new}) = Cardinality(B \ {x}) + 1
        BY <2>3, <2>4, FS_AddElement
      <3>2. S = (B \ {x}) \cup {new}
        BY <1>4, <2>2
      <3>3. Cardinality(S) = Cardinality(B \ {x}) + 1
        BY <3>1, <3>2, Zenon
      <3> QED BY ONLY <1>3, <2>3, <3>3
    <2>6. Better(s, InBook(new), l)
      <3>1. InBook(x).price = InBook(new).price /\ InBook(x).price \in Nat
        BY <1>2, <1>3, <2>1, InBookIs
      <3>2. Better(s, InBook(x), l)
        BY <1>2
      <3> QED BY <3>1, <3>2 DEF Better
    <2>7. ASSUME NEW i \in 1..Top PROVE Better(s, InBook(f[i]), l)
      <3>1. f[i] \in S
        BY <2>5
      <3> QED BY <1>2, <1>4, <2>6, <3>1
    <2>8. Top <= Len(f)
      BY <1>3, <2>5
    <2> QED BY <2>7, <2>8
  <1>6. CASE \A x \in B : x.price # new.price
    <2>1. Others(B, new.price) = B /\ new \notin B
      BY <1>6 DEF Others
    <2>2. Cardinality(S) = Top + 1
      <3>1. S = B \cup {new}
        BY <1>4, <2>1
      <3>2. Cardinality(B \cup {new}) = Cardinality(B) + 1
        BY <1>1, <2>1, FS_AddElement
      <3>3. Cardinality(S) = Cardinality(B) + 1
        BY <3>1, <3>2, Zenon
      <3> QED BY ONLY <1>1, <1>3, <3>3
    <2>3. Len(f) = Top + 1 /\ \A i \in 1..(Top + 1) : f[i] \in S
      BY <2>2
    <2>4. ASSUME NEW i \in 1..Top, f[i] = new PROVE Better(s, InBook(new), l)
      <3> DEFINE x == f[Top + 1]
      <3>1. i \in 1..(Top + 1) /\ Top + 1 \in 1..(Top + 1) /\ i < Top + 1
        BY <1>3
      <3>2. Better(s, new, x) /\ x \in S
        BY <2>3, <2>4, <3>1 DEF Ordered
      <3> HIDE DEF x
      <3>3. x \in B
        <4>1. new.price \in Nat
          BY <1>3, FixedInj
        <4>2. x # new
          BY <3>2, <4>1, BetterOrders
        <4> QED BY <1>4, <3>2, <4>2
      <3>4. x.price \in Price /\ Better(s, InBook(x), l)
        BY <1>2, <3>3
      <3>5. Better(s, InBook(new), InBook(x)) /\ InBook(x).price \in Nat
        BY <1>3, <3>2, <3>4, InBookIs
      <3> QED BY <1>3, <3>4, <3>5, BetterOrders
    <2>5. ASSUME NEW i \in 1..Top PROVE Better(s, InBook(f[i]), l)
      <3>1. f[i] \in S
        <4>1. i \in 1..(Top + 1)
          BY <1>3
        <4> QED BY <2>3, <4>1
      <3>2. CASE f[i] = new
        BY <2>4, <3>2
      <3>3. CASE f[i] \in B
        BY <1>2, <3>3
      <3> QED BY <1>4, <3>1, <3>2, <3>3
    <2>6. Top <= Len(f)
      BY <1>3, <2>3
    <2> QED BY <2>5, <2>6
  <1> QED BY <1>5, <1>6

\* A tick keeps a side of the builder as it should be.
LEMMA BuilderStep ==
    ASSUME NEW s \in Side, NEW t \in Change, t.side = s, NEW b, NEW L \in SUBSET Level(Nat), NEW L2,
           NEW all \in BOOLEAN, SideInv(s, b, L, all), all => t.quantity > 0,
           \A l : l \in L2 <=> \/ l \in L /\ l.price # Fixed[t.price]
                               \/ t.quantity > 0 /\ l = [price |-> Fixed[t.price], quantity |-> t.quantity]
    PROVE SideInv(s, BuilderSide(s, b, t), L2, all)
  <1>1. t.price \in Price /\ t.quantity \in Quantity \cup {0} /\ Top \in Nat /\ Fixed[t.price] \in Nat
    BY FixedInj, ConstantsAssumption DEF Change
  <1>2. /\ b \in Seq(Level(Price)) /\ Len(b) \in Nat /\ Len(b) <= Top /\ Ordered(s, b)
        /\ \A i \in 1..Len(b) : b[i] \in Level(Price) /\ InBook(b[i]) \in L
    BY DEF SideInv
  <1>3. \A x \in Level(Price) : x.price \in Price /\ x.price \in Nat
    BY FixedInj DEF Level
  <1>4. ASSUME NEW x \in Level(Price), InBook(x) \in L, x.price # t.price
        PROVE InBook(x) \in L2
    <2>1. InBook(x).price # Fixed[t.price]
      BY <1>1, <1>3, <1>4, FixedInj DEF InBook
    <2> QED BY <1>4, <2>1
  <1>5. CASE ~(t.quantity > 0)
    <2> DEFINE g == Retained(b, t.price)
    <2>1. BuilderSide(s, b, t) = g /\ ~all
      BY <1>5 DEF BuilderSide
    <2>2. g \in Seq(Level(Price)) /\ Len(g) \in Nat /\ Len(g) <= Len(b)
      BY <1>2, RetainedIs
    <2>3. PICK k \in [1..Len(g) -> 1..Len(b)] :
            /\ \A i \in 1..Len(g) : g[i] = b[k[i]] /\ b[k[i]].price # t.price
            /\ \A i, j \in 1..Len(g) : i < j => k[i] < k[j]
      BY <1>2, RetainedIs
    <2> HIDE DEF g
    <2>4. \A i \in 1..Len(g) : k[i] \in 1..Len(b)
      OBVIOUS
    <2>5. Ordered(s, g)
      BY <1>2, <2>3, <2>4 DEF Ordered
    <2>6. \A i \in 1..Len(g) : InBook(g[i]) \in L2
      BY <1>2, <1>4, <2>3, <2>4
    <2>7. Len(g) <= Top
      BY <1>1, <1>2, <2>2
    <2> QED BY <2>1, <2>2, <2>5, <2>6, <2>7 DEF SideInv
  <1>6. CASE t.quantity > 0
    <2> DEFINE new == [price |-> t.price, quantity |-> t.quantity]
               B == ToSet(b)
               S == Others(B, t.price) \cup {new}
               f == BestFirst(s, S)
               g == UpTo(Top, f)
    <2>1. BuilderSide(s, b, t) = g
      BY <1>6 DEF BuilderSide
    <2>2. new \in Level(Price) /\ new.price = t.price /\ InBook(new) \in L2
      BY <1>1, <1>6 DEF Level, InBook
    <2>3. /\ B \in SUBSET Level(Price) /\ IsFiniteSet(B) /\ Distinct(B)
          /\ \A x : x \in B <=> \E i \in 1..Len(b) : b[i] = x
      <3>1. b \in Seq(Level(Nat))
        <4>1. b \in [1..Len(b) -> Level(Nat)]
          BY <1>2, <1>3 DEF Level
        <4> QED BY <1>2, <4>1
      <3>2. \A x : x \in B <=> \E i \in 1..Len(b) : b[i] = x
        BY <1>2, <3>1, OrderedBest
      <3>3. IsFiniteSet(B) /\ Distinct(B)
        BY <1>2, <3>1, OrderedBest
      <3> QED BY <1>2, <3>2, <3>3
    <2> HIDE DEF new, B
    <2>4. /\ S \in SUBSET Level(Price) /\ S \in SUBSET Level(Nat) /\ IsFiniteSet(S) /\ Distinct(S)
          /\ \A x \in S : x = new \/ (x \in B /\ x.price # t.price)
      <3>1. Others(B, t.price) \in SUBSET B
        BY DEF Others
      <3>2. IsFiniteSet(Others(B, t.price))
        BY <2>3, <3>1, FS_Subset
      <3>3. IsFiniteSet(S)
        BY <3>2, FS_AddElement
      <3>4. Level(Price) \subseteq Level(Nat)
        BY <1>3 DEF Level
      <3>5. \A x \in S : x = new \/ (x \in B /\ x.price # t.price)
        BY DEF Others
      <3>6. S \in SUBSET Level(Price)
        BY <2>2, <2>3, <3>5
      <3> HIDE DEF S
      <3>7. Distinct(S)
        BY <2>2, <2>3, <3>5 DEF Distinct
      <3> QED BY <3>3, <3>4, <3>5, <3>6, <3>7
    <2>5. new \in S /\ \A x \in B : x.price # t.price => x \in S
      BY DEF Others
    <2>6. S = Others(ToSet(b), new.price) \cup {new}
      BY <2>2 DEF B
    <2> HIDE DEF S
    <2>7. /\ Len(f) = Cardinality(S) /\ f \in [1..Len(f) -> S] /\ f \in Seq(S) /\ Ordered(s, f)
          /\ Len(f) \in Nat
          /\ \A x \in S : \E i \in 1..Len(f) : f[i] = x
      BY <2>4, BestFirstSorts
    <2> HIDE DEF f
    <2> DEFINE m == IF Top <= Len(f) THEN Top ELSE Len(f)
    <2>8. /\ g \in Seq(S) /\ Len(g) = m /\ m \in Nat /\ m <= Top /\ m <= Len(f)
          /\ \A i \in 1..m : g[i] = f[i] /\ i \in 1..Len(f)
      BY <1>1, <2>7, UpToIs
    <2>9. m < Len(f) => m = Top
      BY <1>1, <2>7
    <2> HIDE DEF g, m
    <2>10. \A i \in 1..m : g[i] \in S
      BY <2>7, <2>8
    <2>11. g \in Seq(Level(Price))
      <3>1. g \in [1..m -> Level(Price)]
        BY <2>4, <2>8, <2>10
      <3> QED BY <2>8, <3>1
    <2>12. Ordered(s, g)
      BY <2>7, <2>8 DEF Ordered
    <2>13. ASSUME NEW i \in 1..m PROVE InBook(g[i]) \in L2
      <3>1. CASE g[i] = new
        BY <2>2, <3>1
      <3>2. CASE g[i] \in B /\ g[i].price # t.price
        <4>1. g[i] \in Level(Price) /\ InBook(g[i]) \in L
          BY <1>2, <2>3, <3>2
        <4> QED BY <1>4, <3>2, <4>1
      <3> QED BY <2>4, <2>10, <3>1, <3>2
    <2>14. ASSUME NEW x \in S
           PROVE \/ \E i \in 1..m : InBook(g[i]) = InBook(x)
                 \/ m = Top /\ \A i \in 1..m : Better(s, InBook(g[i]), InBook(x))
      <3>1. PICK k \in 1..Len(f) : f[k] = x
        BY <2>7
      <3>2. CASE k <= m
        <4>1. k \in 1..m
          BY <2>8, <3>2
        <4> QED BY <2>8, <3>1, <4>1
      <3>3. CASE k > m
        <4>1. m = Top
          BY <2>7, <2>8, <2>9, <3>3
        <4>2. ASSUME NEW i \in 1..m PROVE Better(s, InBook(g[i]), InBook(x))
          <5>1. i \in 1..Len(f) /\ i < k /\ g[i] = f[i]
            BY <2>7, <2>8, <3>3
          <5>2. Better(s, g[i], x)
            BY <2>7, <3>1, <5>1 DEF Ordered
          <5>3. g[i].price \in Price /\ x.price \in Price
            BY <1>3, <2>4, <2>10
          <5> QED BY <5>2, <5>3, InBookIs
        <4> QED BY <4>1, <4>2
      <3> QED BY <2>7, <2>8, <3>2, <3>3
    <2>15. ASSUME all, NEW l \in L2
           PROVE \/ \E i \in 1..m : InBook(g[i]) = l
                 \/ m = Top /\ \A i \in 1..m : Better(s, InBook(g[i]), l)
      <3>1. CASE l = InBook(new)
        BY <2>5, <2>14, <3>1
      <3>2. CASE l \in L /\ l.price # Fixed[t.price]
        <4>1. CASE \E i \in 1..Len(b) : InBook(b[i]) = l
          <5>1. PICK i \in 1..Len(b) : InBook(b[i]) = l
            BY <4>1
          <5>2. b[i].price # t.price
            BY <3>2, <5>1 DEF InBook
          <5>3. b[i] \in S
            BY <2>3, <2>5, <5>2
          <5> QED BY <2>14, <5>1, <5>3
        <4>2. CASE Len(b) = Top /\ \A i \in 1..Len(b) : Better(s, InBook(b[i]), l)
          <5>1. l.price \in Nat
            BY <3>2 DEF Level
          <5>2. Top <= Len(f) /\ \A i \in 1..Top : Better(s, InBook(f[i]), l)
            <6>1. b \in Seq(Level(Price)) /\ Ordered(s, b) /\ Len(b) = Top
              BY <1>2, <4>2
            <6>2. Len(f) = Cardinality(S) /\ f \in [1..Len(f) -> S] /\ Ordered(s, f)
              BY <2>7
            <6> QED BY <2>2, <2>6, <4>2, <5>1, <6>1, <6>2, FullSide
          <5>3. m = Top
            BY <5>2 DEF m
          <5> QED BY <2>8, <5>2, <5>3
        <4> QED BY <2>15, <3>2, <4>1, <4>2 DEF SideInv
      <3>3. l = InBook(new) \/ (l \in L /\ l.price # Fixed[t.price])
        BY <2>15 DEF InBook, new
      <3> QED BY <3>1, <3>2, <3>3
    <2> QED BY <2>1, <2>8, <2>11, <2>12, <2>13, <2>15 DEF SideInv
  <1> QED BY <1>5, <1>6

\* There are finitely many levels at prices in fixed point.
LEMMA FixedLevels ==
    LET P == {Fixed[p] : p \in Price}
    IN Level(P) \subseteq Level(Nat) /\ IsFiniteSet(Level(P))
  <1> DEFINE P == {Fixed[p] : p \in Price}
             h == [p \in Price |-> Fixed[p]]
  <1>1. P \subseteq Nat
    BY FixedInj
  <1>2. h \in [Price -> P] /\ \A x \in P : \E p \in Price : h[p] = x
    OBVIOUS
  <1> HIDE DEF h, P
  <1>3. h \in Surjection(Price, P)
    BY <1>2, Fun_IsSurj
  <1>4. IsFiniteSet(P)
    BY <1>3, ConstantsAssumption, FS_Surjection
  <1>5. Level(P) \subseteq Level(Nat) /\ IsFiniteSet(Level(P))
    BY <1>1, <1>4, LevelFinite DEF Level
  <1> QED BY <1>5 DEF P

\* Such a side agrees with the side of the book.
LEMMA SidesAgree ==
    ASSUME NEW s \in Side, NEW b, NEW L \in SUBSET Level({Fixed[p] : p \in Price}), Distinct(L),
           NEW all \in BOOLEAN, SideInv(s, b, L, all)
    PROVE LET simple == InFixed(b)
          IN /\ simple = BestFirst(s, ToSet(simple)) /\ Len(simple) <= Top
             /\ ToSet(simple) \subseteq L
             /\ all => simple = UpTo(Top, BestFirst(s, L))
  <1> DEFINE g == InFixed(b)
             n == Len(b)
             f == BestFirst(s, L)
             P == {Fixed[p] : p \in Price}
             R == Ahead(s, L)
  <1>1. /\ b \in Seq(Level(Price)) /\ n \in Nat /\ n <= Top /\ Ordered(s, b)
        /\ \A i \in 1..n : b[i] \in Level(Price) /\ b[i].price \in Price /\ InBook(b[i]) \in L
    <2>1. b \in Seq(Level(Price)) /\ n \in Nat /\ \A i \in 1..n : b[i] \in Level(Price)
      BY DEF SideInv
    <2> QED BY <2>1 DEF SideInv, Level
  <1>2. Top \in Nat /\ Level(P) \subseteq Level(Nat) /\ IsFiniteSet(Level(P))
    BY FixedLevels, ConstantsAssumption
  <1> HIDE DEF P
  <1>3. L \in SUBSET Level(Nat) /\ IsFiniteSet(L)
    <2>1. L \in SUBSET Level(P)
      BY DEF P
    <2> QED BY <1>2, <2>1, FS_Subset
  <1>4. g \in [1..n -> L] /\ \A i \in 1..n : g[i] = InBook(b[i])
    <2>1. \A i \in 1..n : [b[i] EXCEPT !.price = Fixed[@]] = InBook(b[i])
      BY <1>1 DEF Level, InBook
    <2>2. g = [i \in 1..n |-> [b[i] EXCEPT !.price = Fixed[@]]]
      BY <1>1 DEF InFixed
    <2> QED BY <1>1, <2>1, <2>2
  <1> HIDE DEF g
  <1>5. g \in Seq(Level(Nat)) /\ Len(g) = n
    <2>1. g \in [1..n -> Level(Nat)]
      BY <1>3, <1>4
    <2> QED BY <1>1, <2>1
  <1>6. Ordered(s, g)
    <2> SUFFICES ASSUME NEW i \in 1..n, NEW j \in 1..n, i < j PROVE Better(s, g[i], g[j])
      BY <1>5 DEF Ordered
    <2>1. Better(s, b[i], b[j])
      BY <1>1 DEF Ordered
    <2> QED BY <1>1, <1>4, <2>1, InBookIs
  <1>7. /\ g = BestFirst(s, ToSet(g)) /\ Cardinality(ToSet(g)) = n
        /\ \A x : x \in ToSet(g) <=> \E i \in 1..n : g[i] = x
    BY <1>5, <1>6, OrderedBest
  <1>8. ToSet(g) \subseteq L
    BY <1>4, <1>7
  <1>9. ASSUME all PROVE g = UpTo(Top, f)
    <2>1. /\ StrictOrder(L, R) /\ Sorts(f, L, R) /\ Cardinality(L) \in Nat
          /\ Len(f) = Cardinality(L) /\ f \in Seq(L)
      BY <1>3, BestFirstSorts
    <2>2. \A l, m \in L : <<l, m>> \in R <=> Better(s, l, m)
      BY DEF Ahead
    <2> HIDE DEF f, R
    <2>3. ASSUME NEW l \in L
          PROVE \/ \E i \in 1..n : g[i] = l
                \/ n = Top /\ \A i \in 1..n : <<g[i], l>> \in R
      <3>1. \/ \E i \in 1..n : InBook(b[i]) = l
            \/ n = Top /\ \A i \in 1..n : Better(s, InBook(b[i]), l)
        BY <1>9 DEF SideInv
      <3> QED BY <1>1, <1>4, <2>2, <3>1
    <2>4. FirstOf(g, n, L, R)
      <3>1. \A i, j \in 1..n : i < j => <<g[i], g[j]>> \in R
        <4>1. \A i \in 1..n : g[i] \in L
          BY <1>4
        <4> QED BY <1>5, <1>6, <2>2, <4>1 DEF Ordered
      <3> QED BY <1>4, <2>3, <3>1 DEF FirstOf
    <2>5. n <= Cardinality(L) /\ \A i \in 1..n : g[i] = f[i]
      BY <1>1, <1>3, <2>1, <2>4, SortStarts
    <2>6. n < Top => n = Cardinality(L)
      <3> SUFFICES ASSUME n < Top PROVE n = Cardinality(L)
        OBVIOUS
      <3>1. L \subseteq ToSet(g)
        BY <1>1, <1>2, <1>7, <2>3
      <3>2. ToSet(g) = L
        BY <1>8, <3>1
      <3> QED BY <1>7, <3>2, Zenon
    <2> DEFINE u == UpTo(Top, f)
               m == IF Top <= Len(f) THEN Top ELSE Len(f)
    <2>7. u \in Seq(L) /\ Len(u) = m /\ \A i \in 1..m : u[i] = f[i]
      BY <1>2, <2>1, UpToIs
    <2>8. m = n
      BY <1>1, <1>2, <2>1, <2>5, <2>6
    <2> HIDE DEF u, m
    <2>9. u \in [1..n -> L] /\ \A i \in 1..n : u[i] = g[i]
      BY <2>5, <2>7, <2>8
    <2>10. u = g
      BY <1>4, <2>9
    <2> QED BY <2>10 DEF u
  <1> QED BY <1>1, <1>5, <1>7, <1>8, <1>9 DEF g

BuilderInv ==
    /\ BookInv
    /\ exchange = "Binance" => \A i \in 1..Len(queue) : queue[i].side = "Trade" \/ queue[i].quantity > 0
    /\ builder = [s \in Side |-> builder[s]]
    /\ \A s \in Side : SideInv(s, builder[s], levels[s], exchange = "Binance")

\* One tick, and both books.
LEMMA TickAgreed == BuilderInv /\ ProcessTick => BuilderInv'
  <1> SUFFICES ASSUME BuilderInv, ProcessTick PROVE BuilderInv'
    OBVIOUS
  <1> DEFINE t == Head(queue)
             T == Change \cup {TradeTick}
             n == Len(queue)
  <1>1. UNCHANGED exchange /\ queue # <<>> /\ queue' = Tail(queue) /\ UpdateBooks(t) /\ BookInv
    BY DEF ProcessTick, streamVars, BuilderInv
  <1>2. BookInv'
    BY <1>1, TickFollowed
  <1>3. queue \in Seq(T)
    BY <1>1 DEF BookInv, BookType
  <1> HIDE DEF T
  <1>4. /\ n \in Nat /\ n > 0 /\ t = queue[1] /\ t \in T
        /\ Len(queue') = n - 1
        /\ \A i \in 1..(n - 1) : i + 1 \in 1..n /\ queue'[i] = queue[i + 1]
    BY <1>1, <1>3
  <1> HIDE DEF t, n
  <1>5. exchange = "Binance" => /\ t.side = "Trade" \/ t.quantity > 0
                                /\ \A i \in 1..(n - 1) : queue'[i].side = "Trade" \/ queue'[i].quantity > 0
    <2> SUFFICES ASSUME exchange = "Binance"
                 PROVE /\ t.side = "Trade" \/ t.quantity > 0
                       /\ \A i \in 1..(n - 1) : queue'[i].side = "Trade" \/ queue'[i].quantity > 0
      OBVIOUS
    <2>1. \A i \in 1..n : queue[i].side = "Trade" \/ queue[i].quantity > 0
      BY DEF BuilderInv, n
    <2>2. 1 \in 1..n
      BY <1>4
    <2> QED BY <1>4, <2>1, <2>2
  <1>6. CASE t.side = "Trade"
    <2>1. levels' = levels /\ builder' = builder
      BY <1>1, <1>6 DEF UpdateBooks
    <2> QED BY <1>1, <1>2, <1>4, <1>5, <2>1 DEF BuilderInv
  <1>7. CASE t.side # "Trade"
    <2>1. t \in Change
      BY <1>4, <1>7 DEF T, TradeTick
    <2>2. /\ levels' = [levels EXCEPT ![t.side] = BookSide(@, t)]
          /\ builder' = [builder EXCEPT ![t.side] = BuilderSide(t.side, @, t)]
      BY <1>1, <1>7 DEF UpdateBooks
    <2>3. /\ \A s \in Side : s # t.side => levels'[s] = levels[s]
          /\ \A l : l \in levels'[t.side] <=>
                \/ l \in levels[t.side] /\ l.price # Fixed[t.price]
                \/ t.quantity > 0 /\ l = [price |-> Fixed[t.price], quantity |-> t.quantity]
      BY <1>1, <2>1, <2>2, SideFits
    <2>4. t.side \in Side
      BY <2>1 DEF Change
    <2>5. /\ builder' = [s \in Side |-> builder'[s]]
          /\ builder'[t.side] = BuilderSide(t.side, builder[t.side], t)
          /\ \A s \in Side : s # t.side => builder'[s] = builder[s]
      BY <2>2, <2>4 DEF BuilderInv
    <2> DEFINE all == exchange = "Binance"
    <2>6. SideInv(t.side, builder'[t.side], levels'[t.side], all)
      <3>1. levels[t.side] \in SUBSET Level(Nat) /\ all \in BOOLEAN /\ (all => t.quantity > 0)
        BY <1>1, <1>5, <1>7, <2>4 DEF BookInv, BookType, Level
      <3>2. SideInv(t.side, builder[t.side], levels[t.side], all)
        BY <2>4 DEF BuilderInv
      <3> HIDE DEF all
      <3>3. SideInv(t.side, BuilderSide(t.side, builder[t.side], t), levels'[t.side], all)
        BY <2>1, <2>3, <2>4, <3>1, <3>2, BuilderStep
      <3> QED BY <2>5, <3>3
    <2>7. \A s \in Side : SideInv(s, builder'[s], levels'[s], all)
      BY <2>3, <2>5, <2>6 DEF BuilderInv
    <2> QED BY <1>1, <1>2, <1>4, <1>5, <2>5, <2>7 DEF BuilderInv, SideInv
  <1> QED BY <1>6, <1>7

\* A message adds ticks; those of Binance have a quantity.
LEMMA MessageAgreed == BuilderInv /\ (DepthMessage \/ TradeMessage) => BuilderInv'
  <1> SUFFICES ASSUME BuilderInv, DepthMessage \/ TradeMessage PROVE BuilderInv'
    OBVIOUS
  <1>1. BookInv /\ BookInv' /\ queue \in Seq(Change \cup {TradeTick})
    BY DepthFollowed, TradeFollowed DEF BuilderInv, BookInv, BookType
  <1>2. UNCHANGED <<exchange, builder, levels>>
    BY DEF DepthMessage, TradeMessage, streamVars, bookVars
  <1>3. \E ticks \in Seq(Change \cup {TradeTick}) :
            /\ queue' = queue \o ticks
            /\ exchange = "Binance" => \A i \in 1..Len(ticks) : ticks[i].side = "Trade" \/ ticks[i].quantity > 0
    <2>1. CASE DepthMessage
      <3>1. PICK changes \in UNION {kSubset(k, Change) : k \in 0..MaxChanges} :
               /\ Consistent(changes) /\ market' = Applied(market, changes)
               /\ \E ticks \in Parsed(market', changes) : queue' = queue \o ticks
        BY <2>1 DEF DepthMessage
      <3>2. PICK ticks \in Parsed(market', changes) : queue' = queue \o ticks
        BY <3>1
      <3>3. changes \in SUBSET Change
        BY <3>1 DEF kSubset
      <3> DEFINE m == market'
      <3>3a. /\ m \in [Side -> [Price -> Quantity \cup {0}]] /\ exchange \in Exchange
             /\ \A c \in changes : m[c.side][c.price] = c.quantity
             /\ ticks \in Parsed(m, changes)
        BY <1>1, <3>1, <3>3, AppliedIs DEF BookInv, BookType
      <3> HIDE DEF m
      <3>4. Told(m, ticks)
        BY <3>3, <3>3a, ParsedTold
      <3>5. ticks \in Seq(Change)
        BY <3>4 DEF Told
      <3>6. ticks \in Seq(Change \cup {TradeTick})
        BY <3>5, Larger
      <3> QED BY <3>2, <3>4, <3>6 DEF Told
    <2>2. CASE TradeMessage
      <3> DEFINE ticks == <<TradeTick>>
      <3>1. queue' = Append(queue, TradeTick)
        BY <2>2 DEF TradeMessage, TradeTick
      <3>2. TradeTick.side = "Trade"
        BY DEF TradeTick
      <3>3. ticks \in Seq(Change \cup {TradeTick}) /\ Len(ticks) = 1 /\ ticks[1] = TradeTick
        OBVIOUS
      <3>4. queue' = queue \o ticks
        BY <1>1, <3>1
      <3> HIDE DEF ticks
      <3>5. \A i \in 1..Len(ticks) : ticks[i].side = "Trade"
        BY <3>2, <3>3
      <3> QED BY <3>3, <3>4, <3>5
    <2> QED BY <2>1, <2>2
  <1>4. PICK ticks \in Seq(Change \cup {TradeTick}) :
            /\ queue' = queue \o ticks
            /\ exchange = "Binance" => \A i \in 1..Len(ticks) : ticks[i].side = "Trade" \/ ticks[i].quantity > 0
    BY <1>3
  <1>5. ASSUME exchange = "Binance", NEW i \in 1..Len(queue')
        PROVE queue'[i].side = "Trade" \/ queue'[i].quantity > 0
    <2>1. \/ i \in 1..Len(queue) /\ queue'[i] = queue[i]
          \/ i - Len(queue) \in 1..Len(ticks) /\ queue'[i] = ticks[i - Len(queue)]
      BY <1>1, <1>4
    <2> QED BY <1>4, <1>5, <2>1 DEF BuilderInv
  <1> QED BY <1>1, <1>2, <1>5 DEF BuilderInv, SideInv

\* The two books of one stream agree, for any number of levels the simple one
\* keeps, any prices and any sequence of messages.
THEOREM BooksStayAgreed == FeedSpec => []BooksAgree
  <1>1. FeedInit => BuilderInv
    <2> SUFFICES ASSUME FeedInit PROVE BuilderInv
      OBVIOUS
    <2>1. BookInv /\ queue = <<>> /\ builder = [s \in Side |-> <<>>] /\ levels = [s \in Side |-> {}]
      BY InitFollowed DEF FeedInit, Init, NoLevels
    <2>2. Top \in Nat /\ \A s \in Side : builder[s] = <<>> /\ levels[s] = {}
      BY <2>1, ConstantsAssumption
    <2>3. \A s \in Side : SideInv(s, builder[s], levels[s], exchange = "Binance")
      <3> SUFFICES ASSUME NEW s \in Side
                   PROVE SideInv(s, builder[s], levels[s], exchange = "Binance")
        OBVIOUS
      <3> DEFINE b == builder[s]
      <3>1. b = <<>> /\ levels[s] = {}
        BY <2>2
      <3>2. <<>> \in Seq(Level(Price)) /\ Len(<<>>) = 0
        OBVIOUS
      <3>3. b \in Seq(Level(Price)) /\ Len(b) = 0
        BY <3>1, <3>2, Zenon
      <3> HIDE DEF b
      <3> QED BY <2>2, <3>1, <3>3 DEF SideInv, Ordered, b
    <2> QED BY <2>1, <2>2, <2>3 DEF BuilderInv
  <1>2. BuilderInv /\ [FeedNext]_feedVars => BuilderInv'
    <2> SUFFICES ASSUME BuilderInv, [FeedNext]_feedVars PROVE BuilderInv'
      OBVIOUS
    <2>1. BookInv'
      BY NextFollowed DEF BuilderInv
    <2>2. CASE UNCHANGED <<exchange, queue, builder, levels>>
      BY <2>1, <2>2 DEF BuilderInv, SideInv
    <2>3. CASE EndStream \/ EndOfLoop \/ ClockChange \/ Publish
      BY <2>2, <2>3 DEF EndStream, EndOfLoop, Publish, ClockChange, streamVars, bookVars
    <2>4. CASE UNCHANGED <<streamVars, queue, main, bookVars, clock, messages, steps>>
      BY <2>2, <2>4 DEF streamVars, bookVars
    <2>5. CASE UNCHANGED feedVars
      BY <2>2, <2>5 DEF feedVars, vars, streamVars, bookVars
    <2> QED BY <2>3, <2>4, <2>5, MessageAgreed, TickAgreed DEF FeedNext, Next, Loop
  <1>3. BuilderInv => BooksAgree
    <2> SUFFICES ASSUME BuilderInv, NEW s \in Side
                 PROVE LET simple == InFixed(builder[s])
                           best == BestFirst(s, levels[s])
                       IN /\ simple = BestFirst(s, ToSet(simple)) /\ Len(simple) <= Top
                          /\ ToSet(simple) \subseteq levels[s]
                          /\ exchange = "Binance" => simple = UpTo(Top, best)
      BY DEF BooksAgree
    <2> DEFINE all == exchange = "Binance"
    <2>1. /\ levels[s] \in SUBSET Level({Fixed[p] : p \in Price}) /\ Distinct(levels[s])
          /\ SideInv(s, builder[s], levels[s], all) /\ all \in BOOLEAN
      <3>1. \A l \in levels[s] : l \in Level(Nat) /\ (\E p \in Price : l.price = Fixed[p])
        BY DEF BuilderInv, BookInv, BookType, LevelsFit, Level
      <3>2. Distinct(levels[s])
        BY DEF BuilderInv, BookInv, LevelsFit, Distinct
      <3> QED BY <3>1, <3>2 DEF Level, BuilderInv
    <2> HIDE DEF all
    <2>2. LET simple == InFixed(builder[s])
          IN /\ simple = BestFirst(s, ToSet(simple)) /\ Len(simple) <= Top
             /\ ToSet(simple) \subseteq levels[s]
             /\ all => simple = UpTo(Top, BestFirst(s, levels[s]))
      BY <2>1, SidesAgree
    <2> QED BY <2>2 DEF all
  <1> QED BY <1>1, <1>2, <1>3, PTL DEF FeedSpec

----------------------------------------------------------------------------
(* The quotes of the strategy service.                                      *)

\* A half spread around a price of the exchange is at least half a cent: what
\* the code needs for its rounding to whole cents, and does not check.
SpreadsSpanCents ==
    \A p \in Price, spread \in PlainSpread \cup TrendSpread : 2 * Fixed[p] * spread >= Bps * Cent

\* A published book has levels on both sides, and its middle between the best.
Fair(book) ==
    /\ book.bids \in Seq(Level(Nat)) /\ book.bids # <<>>
    /\ book.asks \in Seq(Level(Nat)) /\ book.asks # <<>>
    /\ \E p, q \in Price : book.mid2 = Fixed[p] + Fixed[q]

FairWire == \E S : wire \in Seq(S) /\ \A i \in 1..Len(wire) : Fair(wire[i])

QuoteInv == BookInv /\ FairWire /\ QuotesAroundMiddle

\* The volume of a side that has a level is positive.
LEMMA VolumeIs ==
    ASSUME NEW side \in Seq(Level(Nat)), side # <<>>
    PROVE Maker!Volume(side) \in Nat /\ Maker!Volume(side) > 0
  <1> DEFINE S == DOMAIN side \cap (1..DepthLevels)
             f == [i \in S |-> side[i].quantity]
             step(g) == [X \in SUBSET S |-> IF X = {} THEN 0
                                            ELSE side[CHOOSE i \in X : TRUE].quantity
                                                   + g[X \ {CHOOSE i \in X : TRUE}]]
             h == CHOOSE g : g = step(g)
  <1>1. Maker!Volume(side) = h[S]
    BY DEF Maker!Volume, Maker!MapThenFoldSet
  <1>2. DepthLevels \in Nat /\ DepthLevels > 0 /\ Len(side) \in Nat /\ Len(side) > 0
        /\ DOMAIN side = 1..Len(side) /\ \A i \in 1..Len(side) : side[i] \in Level(Nat)
    BY MarketMakerAssumption
  <1>3. /\ 1 \in S /\ S \subseteq 1..Len(side)
        /\ \A i \in S : f[i] = side[i].quantity /\ f[i] \in Nat /\ f[i] > 0
    <2>1. \A l \in Level(Nat) : l.quantity \in Nat /\ l.quantity > 0
      BY FixedInj DEF Level
    <2>2. 1 \in S /\ S \subseteq 1..Len(side)
      BY <1>2
    <2> HIDE DEF S
    <2> QED BY <1>2, <2>1, <2>2
  <1> HIDE DEF f, S
  <1>4. IsFiniteSet(S)
    <2>1. 1 \in Int /\ Len(side) \in Int
      BY <1>2
    <2>2. IsFiniteSet(1..Len(side))
      BY <2>1, FS_Interval
    <2> QED BY <1>3, <2>2, FS_Subset
  <1>5. \A g : g = step(g) <=> Sums(g, f, S)
    <2>1. \A X \in SUBSET S : X # {} => side[CHOOSE i \in X : TRUE].quantity = f[CHOOSE i \in X : TRUE]
      BY <1>3
    <2> QED BY SMTT(30), <2>1 DEF Sums, Picked
  <1>6. PICK g \in [SUBSET S -> Int] : Sums(g, f, S) /\ Sum(f, S) = g[S] /\ \A k : Sums(k, f, S) => k = g
    <2>1. IntOn(f, S)
      BY <1>3 DEF IntOn
    <2> HIDE DEF h, step
    <2> QED BY <1>4, <2>1, SumIs
  <1>7. h = g
    <2>1. h = step(h)
      <3>1. g = step(g)
        BY <1>5, <1>6
      <3> HIDE DEF step
      <3> QED BY <3>1
    <2> HIDE DEF h, step
    <2> QED BY <1>5, <1>6, <2>1
  <1> HIDE DEF h
  <1>8. Sum(f, S) \in Nat /\ f[1] <= Sum(f, S)
    BY <1>3, <1>4, SumNat
  <1> QED BY <1>1, <1>3, <1>6, <1>7, <1>8

\* Rounding to a multiple goes up by at most half of it, and down by less.
LEMMA RoundedIs ==
    ASSUME NEW n \in Int, NEW d \in Nat, d > 0
    PROVE LET r == Maker!Rounded(n, d)
          IN /\ r \in Int /\ d * Cent \in Nat
             /\ r * (2 * (d * Cent)) <= 2 * n + d * Cent
             /\ 2 * n + d * Cent < (r + 1) * (2 * (d * Cent))
  <1> DEFINE c == d * Cent
             r == (2 * n + c) \div (2 * c)
  <1>1. Cent \in Nat /\ Cent > 0
    BY MarketMakerAssumption
  <1>2. c \in Nat /\ c > 0
    BY <1>1
  <1>3. 2 * d * Cent = 2 * c
    BY <1>1
  <1>4. Maker!Rounded(n, d) = r
    BY <1>3 DEF Maker!Rounded
  <1> HIDE DEF c
  <1>5. r \in Int /\ r * (2 * c) <= 2 * n + c /\ 2 * n + c < (r + 1) * (2 * c)
    <2> DEFINE a == 2 * n + c
               e == 2 * c
    <2>1. a \in Int /\ e \in Nat /\ e > 0
      BY <1>2
    <2> HIDE DEF a, e
    <2>2. a \div e \in Int /\ a = e * (a \div e) + (a % e) /\ a % e \in 0..(e - 1)
      BY <2>1
    <2> DEFINE x == a \div e
    <2>3. x \in Int /\ x * e = e * x /\ (x + 1) * e = e * x + e
      BY <2>1, <2>2
    <2>4. x * e <= a /\ a < (x + 1) * e
      BY <2>1, <2>2, <2>3
    <2> QED BY <2>3, <2>4 DEF a, e
  <1> QED BY <1>2, <1>4, <1>5 DEF c

\* Products with a positive factor keep the order.
LEMMA Scales ==
    ASSUME NEW a \in Int, NEW b \in Int, NEW d \in Nat, d > 0, d * a <= d * b
    PROVE a <= b
  <1> SUFFICES ASSUME b + 1 <= a PROVE FALSE
    OBVIOUS
  <1>1. PICK e \in Nat : a = b + 1 + e
    <2>1. a - (b + 1) \in Nat /\ a = b + 1 + (a - (b + 1))
      OBVIOUS
    <2> QED BY <2>1
  <1>2. d * a = d * b + d + d * e /\ d * e \in Nat /\ d * b \in Int
    BY <1>1
  <1> QED BY <1>2

\* The arithmetic of a bid and of an ask, by the middle m, the spread s, the
\* parts of a whole b, the cent c, the volume v and the skew k.
LEMMA BidBelow ==
    ASSUME NEW m \in Nat, NEW s \in Nat, NEW b \in Nat, NEW c \in Nat, NEW v \in Nat, NEW k \in Nat,
           b > 0, v > 0, m * s >= b * c, NEW r \in Int,
           r * (2 * ((2 * b * v) * c)) <= 2 * (m * ((b - s) * v - k)) + (2 * b * v) * c
    PROVE 2 * r * c <= m
  <1> DEFINE d == 2 * b * v
             x == m * b * v
             y == (m * s) * v
             z == (b * c) * v
             w == m * k
  <1>1. x \in Nat /\ y \in Nat /\ z \in Nat /\ w \in Nat /\ d \in Nat /\ d > 0
    OBVIOUS
  <1>2. z <= y
    <2> DEFINE f == m * s
               g == b * c
    <2>1. f \in Nat /\ g \in Nat /\ g <= f
      OBVIOUS
    <2> HIDE DEF f, g
    <2>2. (f - g) * v \in Nat /\ f * v = g * v + (f - g) * v /\ g * v \in Nat
      <3>1. f - g \in Nat
        BY <2>1
      <3> QED BY <2>1, <3>1
    <2>3. g * v <= f * v
      BY <2>2
    <2> QED BY <2>3 DEF f, g
  <1>3. m * ((b - s) * v - k) = x - y - w
    OBVIOUS
  <1>4. d * c = 2 * z /\ d * m = 2 * x
    OBVIOUS
  <1>5. r * (2 * (d * c)) = d * (2 * r * c)
    OBVIOUS
  <1>6. r * (2 * (d * c)) <= 2 * (x - y - w) + d * c
    BY <1>3
  <1>7. 2 * r * c \in Int
    OBVIOUS
  <1> HIDE DEF d, x, y, z, w
  <1>8. d * (2 * r * c) <= d * m
    BY <1>1, <1>2, <1>4, <1>5, <1>6
  <1> QED BY <1>1, <1>7, <1>8, Scales

LEMMA AskAbove ==
    ASSUME NEW m \in Nat, NEW s \in Nat, NEW b \in Nat, NEW c \in Nat, NEW v \in Nat, NEW k \in Nat,
           b > 0, v > 0, m * s >= b * c, NEW r \in Int,
           2 * (m * ((b + s) * v + k)) + (2 * b * v) * c < (r + 1) * (2 * ((2 * b * v) * c))
    PROVE 2 * r * c >= m
  <1> DEFINE d == 2 * b * v
             x == m * b * v
             y == (m * s) * v
             z == (b * c) * v
             w == m * k
  <1>1. x \in Nat /\ y \in Nat /\ z \in Nat /\ w \in Nat /\ d \in Nat /\ d > 0
    OBVIOUS
  <1>2. z <= y
    <2> DEFINE f == m * s
               g == b * c
    <2>1. f \in Nat /\ g \in Nat /\ g <= f
      OBVIOUS
    <2> HIDE DEF f, g
    <2>2. (f - g) * v \in Nat /\ f * v = g * v + (f - g) * v /\ g * v \in Nat
      <3>1. f - g \in Nat
        BY <2>1
      <3> QED BY <2>1, <3>1
    <2>3. g * v <= f * v
      BY <2>2
    <2> QED BY <2>3 DEF f, g
  <1>3. m * ((b + s) * v + k) = x + y + w
    OBVIOUS
  <1>4. d * c = 2 * z /\ d * m = 2 * x
    OBVIOUS
  <1>5. (r + 1) * (2 * (d * c)) = d * (2 * r * c) + 2 * (d * c)
    OBVIOUS
  <1>6. 2 * (x + y + w) + d * c < (r + 1) * (2 * (d * c))
    BY <1>3
  <1>7. 2 * r * c \in Int /\ d * (2 * r * c) \in Int
    OBVIOUS
  <1> HIDE DEF d, x, y, z, w
  <1>8. d * m <= d * (2 * r * c)
    BY <1>1, <1>2, <1>4, <1>5, <1>6, <1>7
  <1> QED BY <1>1, <1>7, <1>8, Scales

\* Both quotes for a published book, with any spread the code may choose.
LEMMA QuotesAround ==
    ASSUME SpreadsSpanCents, NEW book, Fair(book), NEW spread \in PlainSpread \cup TrendSpread
    PROVE LET q == Maker!Quotes(book, spread)
          IN 2 * q.bid * Cent <= book.mid2 /\ 2 * q.ask * Cent >= book.mid2
  <1> DEFINE bids == Maker!Volume(book.bids)
             asks == Maker!Volume(book.asks)
             v == bids + asks
             skew(x, y) == IF 10 * (x - y) > 3 * v THEN x - y ELSE 0
             j == skew(asks, bids)
             k == skew(bids, asks)
             d == 2 * Bps * v
             m == book.mid2
             bid == Maker!Rounded(m * ((Bps - spread) * v - j), d)
             ask == Maker!Rounded(m * ((Bps + spread) * v + k), d)
  <1>1. Maker!Quotes(book, spread).bid = bid /\ Maker!Quotes(book, spread).ask = ask
    BY DEF Maker!Quotes
  <1>2. bids \in Nat /\ bids > 0 /\ asks \in Nat /\ asks > 0
    BY VolumeIs DEF Fair
  <1> HIDE DEF bids, asks
  <1>3. v \in Nat /\ v > 0
    BY <1>2
  <1> HIDE DEF v
  <1>4. j \in Nat /\ k \in Nat
    BY <1>2, <1>3
  <1>5. spread \in Nat /\ Bps \in Nat /\ Bps > 0 /\ Cent \in Nat
    BY MarketMakerAssumption
  <1>6. m \in Nat /\ m * spread >= Bps * Cent
    <2>1. PICK p, q \in Price : m = Fixed[p] + Fixed[q]
      BY DEF Fair
    <2>2. /\ 2 * Fixed[p] * spread >= Bps * Cent
          /\ 2 * Fixed[q] * spread >= Bps * Cent
      BY DEF SpreadsSpanCents
    <2>3. Fixed[p] \in Nat /\ Fixed[q] \in Nat
      BY FixedInj
    <2> DEFINE x == Fixed[p]
               y == Fixed[q]
               z == Bps * Cent
    <2> HIDE DEF x, y, z
    <2>4. 2 * x * spread >= z /\ 2 * y * spread >= z /\ x \in Nat /\ y \in Nat /\ z \in Nat /\ m = x + y
      BY <1>5, <2>1, <2>2, <2>3 DEF x, y, z
    <2>5. m * spread = x * spread + y * spread /\ 2 * x * spread = 2 * (x * spread)
          /\ 2 * y * spread = 2 * (y * spread) /\ x * spread \in Nat /\ y * spread \in Nat
      BY <1>5, <2>4
    <2>6. m * spread >= z
      BY <2>4, <2>5
    <2> QED BY <2>4, <2>6 DEF z
  <1> HIDE DEF j, k, m
  <1>7. d \in Nat /\ d > 0
    BY <1>3, <1>5
  <1>8. m * ((Bps - spread) * v - j) \in Int /\ m * ((Bps + spread) * v + k) \in Int
    BY <1>3, <1>4, <1>5, <1>6
  <1>9. 2 * bid * Cent <= m
    <2> DEFINE n == m * ((Bps - spread) * v - j)
    <2>1. n \in Int
      BY <1>8
    <2> HIDE DEF n, d
    <2>2. bid \in Int /\ bid * (2 * (d * Cent)) <= 2 * n + d * Cent
      BY <1>7, <2>1, RoundedIs DEF n
    <2> HIDE DEF bid
    <2> QED BY <1>3, <1>4, <1>5, <1>6, <2>2, BidBelow DEF n, d
  <1>10. 2 * ask * Cent >= m
    <2> DEFINE n == m * ((Bps + spread) * v + k)
    <2>1. n \in Int
      BY <1>8
    <2> HIDE DEF n, d
    <2>2. ask \in Int /\ 2 * n + d * Cent < (ask + 1) * (2 * (d * Cent))
      BY <1>7, <2>1, RoundedIs DEF n
    <2> HIDE DEF ask
    <2> QED BY <1>3, <1>4, <1>5, <1>6, <2>2, AskAbove DEF n, d
  <1> QED BY <1>1, <1>9, <1>10 DEF m

\* A snapshot that is ready to be published has its middle between two levels.
LEMMA SnapshotFair ==
    ASSUME NEW b, \A s \in Side : b[s] \in SUBSET Level({Fixed[p] : p \in Price}) /\ Distinct(b[s]),
           Ready(Snapshot(b))
    PROVE Fair(Snapshot(b))
  <1> DEFINE bids == UpTo(Depth, BestFirst("Bid", b["Bid"]))
             asks == UpTo(Depth, BestFirst("Ask", b["Ask"]))
             P == {Fixed[p] : p \in Price}
  <1>1. "Bid" \in Side /\ "Ask" \in Side /\ Depth \in Nat
    BY ConstantsAssumption DEF Side
  <1>2. ASSUME NEW s \in Side
        PROVE LET f == UpTo(Depth, BestFirst(s, b[s]))
              IN f \in Seq(b[s]) /\ f \in Seq(Level(Nat)) /\ (f # <<>> => \E p \in Price : f[1].price = Fixed[p])
    <2> DEFINE S == b[s]
               f == UpTo(Depth, BestFirst(s, S))
    <2>1. S \in SUBSET Level(P) /\ Distinct(S)
      OBVIOUS
    <2>2. Level(P) \subseteq Level(Nat) /\ IsFiniteSet(Level(P)) /\ \A l \in Level(P) : l.price \in P
      BY FixedLevels DEF Level
    <2> HIDE DEF S, P
    <2>3. S \in SUBSET Level(Nat) /\ IsFiniteSet(S)
      BY <2>1, <2>2, FS_Subset
    <2>4. BestFirst(s, S) \in Seq(S)
      BY <2>1, <2>3, BestFirstSorts
    <2>5. f \in Seq(S)
      BY <1>1, <2>4, UpToIs
    <2> HIDE DEF f
    <2>6. f \in Seq(Level(Nat))
      <3>1. f \in [1..Len(f) -> S] /\ Len(f) \in Nat
        BY <2>5
      <3>2. f \in [1..Len(f) -> Level(Nat)]
        BY <2>3, <3>1
      <3> QED BY <3>1, <3>2
    <2>7. f # <<>> => f[1] \in S
      BY <2>5
    <2> QED BY <2>1, <2>2, <2>5, <2>6, <2>7 DEF S, f, P
  <1>3. /\ bids \in Seq(Level(Nat)) /\ (bids # <<>> => \E p \in Price : bids[1].price = Fixed[p])
        /\ asks \in Seq(Level(Nat)) /\ (asks # <<>> => \E p \in Price : asks[1].price = Fixed[p])
    BY <1>1, <1>2
  <1>4. /\ Snapshot(b).bids = bids /\ Snapshot(b).asks = asks
        /\ bids # <<>> /\ asks # <<>> => Snapshot(b).mid2 = bids[1].price + asks[1].price
    BY DEF Snapshot
  <1> HIDE DEF bids, asks
  <1>5. bids # <<>> /\ asks # <<>>
    BY <1>4 DEF Ready
  <1> QED BY <1>3, <1>4, <1>5 DEF Fair

\* The end of an iteration of the market data loop.
LEMMA TickFair == FairWire /\ BookInv /\ Publish => FairWire'
  <1> SUFFICES ASSUME FairWire, BookInv, Publish PROVE FairWire'
    OBVIOUS
  <1> DEFINE book == Shown(tick[1])
  <1>1. wire' = wire \/ (wire' = Append(wire, book) /\ Ready(book))
    BY DEF Publish, PublishBook
  <1>2. CASE wire' = wire
    BY <1>2 DEF FairWire
  <1>3. CASE wire' = Append(wire, book) /\ Ready(book)
    <2>1. Fair(book)
      <3>1. CASE book = Snapshot(NoLevels)
        <4>1. \A s \in Side : /\ NoLevels[s] \in SUBSET Level({Fixed[p] : p \in Price})
                              /\ Distinct(NoLevels[s])
          BY DEF NoLevels, Distinct
        <4> HIDE DEF book
        <4> QED BY <1>3, <3>1, <4>1, SnapshotFair
      <3>2. CASE book = Snapshot(levels)
        <4> DEFINE b == levels
        <4>1. ASSUME NEW s \in Side
              PROVE b[s] \in SUBSET Level({Fixed[p] : p \in Price}) /\ Distinct(b[s])
          <5>1. \A l \in b[s] : l \in Level(Nat) /\ (\E p \in Price : l.price = Fixed[p])
            BY DEF BookInv, BookType, LevelsFit, Level
          <5>2. Distinct(b[s])
            BY DEF BookInv, LevelsFit, Distinct
          <5> QED BY <5>1, <5>2 DEF Level
        <4>2. book = Snapshot(b)
          BY <3>2
        <4> HIDE DEF book, b
        <4> QED BY <1>3, <4>1, <4>2, SnapshotFair
      <3> QED BY <3>1, <3>2 DEF Shown
    <2> HIDE DEF book
    <2>2. PICK S : wire \in Seq(S) /\ \A i \in 1..Len(wire) : Fair(wire[i])
      BY DEF FairWire
    <2> DEFINE T == S \cup {book}
    <2>3. wire \in Seq(T) /\ book \in T
      BY <2>2, Larger
    <2> HIDE DEF T
    <2>4. /\ wire' \in Seq(T) /\ Len(wire') = Len(wire) + 1 /\ Len(wire) \in Nat
          /\ wire'[Len(wire) + 1] = book /\ \A i \in 1..Len(wire) : wire'[i] = wire[i]
      BY <1>3, <2>3
    <2>5. ASSUME NEW i \in 1..(Len(wire) + 1) PROVE Fair(wire'[i])
      <3>1. CASE i = Len(wire) + 1
        BY <2>1, <2>4, <3>1
      <3>2. CASE i \in 1..Len(wire)
        BY <2>2, <2>4, <3>2
      <3> QED BY <2>4, <3>1, <3>2
    <2>6. \A i \in 1..Len(wire') : Fair(wire'[i])
      BY <2>4, <2>5
    <2> QED BY <2>4, <2>6 DEF FairWire, Fair
  <1> QED BY <1>1, <1>2, <1>3

\* A step of the strategy service: it takes a book, and may quote it.
LEMMA TradeAround ==
    SpreadsSpanCents /\ FairWire /\ QuotesAroundMiddle /\ Maker!Trade => FairWire' /\ QuotesAroundMiddle'
  <1> SUFFICES ASSUME SpreadsSpanCents, FairWire, QuotesAroundMiddle, Maker!Trade
               PROVE FairWire' /\ QuotesAroundMiddle'
    OBVIOUS
  <1>1. PICK S : wire \in Seq(S) /\ \A i \in 1..Len(wire) : Fair(wire[i])
    BY DEF FairWire
  <1>2. (wire # <<>> /\ wire' = Tail(wire)) \/ wire' = <<>>
    BY DEF Maker!Trade, Maker!HandleBook, Maker!Stop, Maker!Restart
  <1>3. FairWire'
    <2>1. CASE wire # <<>> /\ wire' = Tail(wire)
      <3>1. /\ wire' \in Seq(S) /\ Len(wire') = Len(wire) - 1 /\ Len(wire) \in Nat
            /\ \A i \in 1..(Len(wire) - 1) : i + 1 \in 1..Len(wire) /\ wire'[i] = wire[i + 1]
        BY <1>1, <2>1
      <3>2. \A i \in 1..Len(wire') : Fair(wire'[i])
        BY <1>1, <3>1
      <3> QED BY <3>1, <3>2 DEF FairWire, Fair
    <2>2. CASE wire' = <<>>
      <3>1. wire' \in Seq({}) /\ Len(wire') = 0
        BY <2>2
      <3> QED BY <3>1 DEF FairWire
    <2> QED BY <1>2, <2>1, <2>2
  <1>4. CASE quote' = quote
    BY <1>3, <1>4 DEF QuotesAroundMiddle
  <1>5. CASE quote' = <<>>
    BY <1>3, <1>5 DEF QuotesAroundMiddle
  <1>6. CASE quote' # quote /\ quote' # <<>>
    <2> DEFINE book == Head(wire)
    <2>1. wire # <<>> /\ \E ok \in 0..2 : Maker!Quote(book, ok)
      BY <1>6 DEF Maker!Trade, Maker!HandleBook, Maker!Stop, Maker!Restart
    <2>2. Fair(book)
      <3>1. book = wire[1] /\ 1 \in 1..Len(wire)
        BY <1>1, <2>1
      <3> QED BY <1>1, <3>1
    <2> HIDE DEF book
    <2>3. PICK ok \in 0..2, spread \in PlainSpread \cup TrendSpread :
            LET q == Maker!Quotes(book, spread)
            IN quote' = SubSeq(<<[type |-> "Buy", price |-> q.bid, mid2 |-> book.mid2],
                                 [type |-> "Sell", price |-> q.ask, mid2 |-> book.mid2]>>, 1, ok)
      BY <1>6, <2>1 DEF Maker!Quote
    <2> DEFINE q == Maker!Quotes(book, spread)
               buy == [type |-> "Buy", price |-> q.bid, mid2 |-> book.mid2]
               sell == [type |-> "Sell", price |-> q.ask, mid2 |-> book.mid2]
               both == <<buy, sell>>
    <2>4. 2 * q.bid * Cent <= book.mid2 /\ 2 * q.ask * Cent >= book.mid2
      BY <2>2, QuotesAround
    <2>5. quote' = SubSeq(both, 1, ok)
      BY <2>3
    <2>6. buy.type = "Buy" /\ sell.type = "Sell" /\ buy.price = q.bid /\ sell.price = q.ask
          /\ buy.mid2 = book.mid2 /\ sell.mid2 = book.mid2
      OBVIOUS
    <2> HIDE DEF q, buy, sell
    <2>7. both \in Seq({buy, sell}) /\ Len(both) = 2 /\ both[1] = buy /\ both[2] = sell
      OBVIOUS
    <2> HIDE DEF both
    <2>8. DOMAIN quote' \subseteq 1..2 /\ \A i \in DOMAIN quote' : quote'[i] = both[i]
      BY <2>5, <2>7
    <2>9. \A i \in DOMAIN quote' : quote'[i] = buy \/ quote'[i] = sell
      BY <2>7, <2>8
    <2>10. ASSUME NEW i \in DOMAIN quote'
           PROVE IF quote'[i].type = "Buy" THEN 2 * quote'[i].price * Cent <= quote'[i].mid2
                                           ELSE 2 * quote'[i].price * Cent >= quote'[i].mid2
      BY <2>4, <2>6, <2>9
    <2> QED BY <1>3, <2>10 DEF QuotesAroundMiddle
  <1> QED BY <1>3, <1>4, <1>5, <1>6

\* The quotes of every book stand on both sides of its middle, for any prices
\* high enough that a half spread is at least half a cent.
THEOREM QuotesStayAround ==
    ASSUME SpreadsSpanCents
    PROVE FeedSpec => []QuotesAroundMiddle
  <1>1. FeedInit => QuoteInv
    <2> SUFFICES ASSUME FeedInit PROVE QuoteInv
      OBVIOUS
    <2>1. wire = <<>> /\ quote = <<>>
      BY DEF FeedInit, Init, Maker!Start
    <2>2. <<>> \in Seq({}) /\ Len(<<>>) = 0 /\ DOMAIN <<>> = {}
      OBVIOUS
    <2> QED BY <2>1, <2>2, InitFollowed DEF QuoteInv, FairWire, QuotesAroundMiddle
  <1>2. QuoteInv /\ [FeedNext]_feedVars => QuoteInv'
    <2> SUFFICES ASSUME QuoteInv, [FeedNext]_feedVars PROVE QuoteInv'
      OBVIOUS
    <2>1. BookInv'
      BY NextFollowed DEF QuoteInv
    <2>2. CASE wire' = wire /\ quote' = quote
      BY <2>1, <2>2 DEF QuoteInv, FairWire, QuotesAroundMiddle
    <2>3. CASE (\/ DepthMessage \/ TradeMessage \/ EndStream
                \/ ProcessTick \/ EndOfLoop \/ ClockChange) /\ UNCHANGED makerVars
      BY <2>2, <2>3 DEF DepthMessage, TradeMessage, EndStream, ProcessTick, EndOfLoop, ClockChange, makerVars
    <2>4. CASE Publish /\ UNCHANGED makerVars
      <3>1. FairWire'
        BY <2>1, <2>4, TickFair DEF QuoteInv
      <3> QED BY <2>1, <2>4, <3>1 DEF QuoteInv, QuotesAroundMiddle, makerVars
    <2>5. CASE Maker!Trade
      BY <2>1, <2>5, TradeAround DEF QuoteInv
    <2>6. CASE UNCHANGED feedVars
      BY <2>2, <2>6 DEF feedVars, vars, makerVars
    <2> QED BY <2>3, <2>4, <2>5, <2>6 DEF FeedNext, Next, Loop
  <1> QED BY <1>1, <1>2, PTL DEF FeedSpec, QuoteInv

----------------------------------------------------------------------------
(* When the books are published.                                            *)

\* A ticker message of Binance, whose symbol's book has no level.
Ticker(t) == t.side = "Trade" /\ exchange = "Binance"

\* While the clock was never stepped back, the last publication is in its past,
\* and the book of a tick whose iteration has not ended was updated since then.
Timely ==
    steps = 0 => /\ lastBook <= clock
                 /\ (tick # <<>> /\ ~Ticker(tick[1])) => lastBook <= lastUpdate

\* What the subscriber has yet to read is not newer than the last publication.
Published ==
    /\ clock \in Nat /\ lastBook \in Nat /\ lastUpdate \in Nat /\ steps \in Nat
    /\ \E S : wire \in Seq(S)
    /\ \A i \in DOMAIN wire : wire[i].at \in Nat /\ wire[i].at <= lastBook

Inv == Published /\ Timely /\ BooksSpaced

\* A book published an interval after the last publication, and updated since.
LEMMA AppendInv ==
    ASSUME Inv, NEW b, b.at = clock, clock - lastBook >= BookInterval,
           b.time \in Nat, steps = 0 => lastBook <= b.time,
           wire' = Append(wire, b), lastBook' = clock, tick' = <<>>,
           UNCHANGED <<clock, lastUpdate, steps>>
    PROVE Inv'
  <1>1. PICK S : wire \in Seq(S)
    BY DEF Inv, Published
  <1> DEFINE T == S \cup {b}
  <1>2. wire \in Seq(T) /\ b \in T
    BY <1>1, Larger
  <1> HIDE DEF T
  <1>3. /\ wire' \in Seq(T) /\ Len(wire) \in Nat
        /\ DOMAIN wire = 1..Len(wire) /\ DOMAIN wire' = 1..(Len(wire) + 1)
        /\ \A i \in 1..Len(wire) : wire'[i] = wire[i]
        /\ wire'[Len(wire) + 1] = b
    BY <1>2
  <1>4. /\ clock \in Nat /\ lastBook \in Nat /\ BookInterval \in Nat
        /\ \A i \in 1..Len(wire) : wire[i].at \in Nat /\ wire[i].at <= lastBook
    BY <1>3, ConstantsAssumption DEF Inv, Published
  <1>5. Published'
    <2>1. \A i \in DOMAIN wire' : wire'[i].at \in Nat /\ wire'[i].at <= clock
      <3> SUFFICES ASSUME NEW i \in 1..(Len(wire) + 1)
                   PROVE wire'[i].at \in Nat /\ wire'[i].at <= clock
        BY <1>3
      <3>1. CASE i = Len(wire) + 1
        BY <1>3, <1>4, <3>1
      <3>2. CASE i \in 1..Len(wire)
        <4>1. wire'[i] = wire[i]
          BY <1>3, <3>2
        <4>2. wire[i].at \in Nat /\ wire[i].at <= lastBook
          BY <1>4, <3>2
        <4> QED BY <1>4, <4>1, <4>2
      <3> QED BY <1>3, <3>1, <3>2
    <2> QED BY <1>3, <1>4, <2>1 DEF Inv, Published
  <1>6. ASSUME NEW i \in 1..(Len(wire) + 1), NEW j \in 1..(Len(wire) + 1), i < j
        PROVE /\ wire'[j].at - wire'[i].at >= BookInterval
              /\ steps = 0 => wire'[i].at <= wire'[j].time
    <2>1. i \in 1..Len(wire) /\ wire'[i] = wire[i]
      BY <1>3, <1>6
    <2>2. CASE j = Len(wire) + 1
      <3>1. wire[i].at \in Nat /\ wire[i].at <= lastBook
        BY <1>4, <2>1
      <3>2. wire'[j] = b
        BY <1>3, <2>2
      <3>3. wire'[j].at - wire'[i].at >= BookInterval
        BY <1>4, <2>1, <3>1, <3>2
      <3>4. ASSUME steps = 0 PROVE wire[i].at <= b.time
        <4>1. lastBook <= b.time
          BY <3>4
        <4> QED BY ONLY <1>4, <3>1, <4>1, b.time \in Nat
      <3> QED BY <2>1, <3>2, <3>3, <3>4
    <2>3. CASE j \in 1..Len(wire)
      <3>1. wire'[j] = wire[j]
        BY <1>3, <2>3
      <3> QED BY <1>3, <1>6, <2>1, <2>3, <3>1 DEF Inv, BooksSpaced
    <2> QED BY <1>3, <2>2, <2>3
  <1>7. BooksSpaced'
    BY <1>3, <1>6 DEF BooksSpaced
  <1>8. Timely'
    BY <1>4 DEF Timely
  <1> QED BY <1>5, <1>7, <1>8 DEF Inv

\* The subscriber takes a book.
LEMMA TailInv ==
    ASSUME Inv, wire # <<>>, wire' = Tail(wire),
           UNCHANGED <<exchange, tick, clock, lastBook, lastUpdate, steps>>
    PROVE Inv'
  <1>1. PICK S : wire \in Seq(S)
    BY DEF Inv, Published
  <1>2. /\ wire' \in Seq(S) /\ Len(wire) \in Nat /\ Len(wire) > 0
        /\ DOMAIN wire = 1..Len(wire) /\ DOMAIN wire' = 1..(Len(wire) - 1)
        /\ \A i \in 1..(Len(wire) - 1) : wire'[i] = wire[i + 1]
    BY <1>1
  <1>3. \A i \in 1..(Len(wire) - 1) : i + 1 \in 1..Len(wire)
    BY <1>2
  <1>4. Published' /\ Timely'
    BY <1>2, <1>3 DEF Inv, Published, Timely, Ticker
  <1>5. BooksSpaced'
    <2> SUFFICES ASSUME NEW i \in 1..(Len(wire) - 1), NEW j \in 1..(Len(wire) - 1), i < j
                 PROVE /\ wire'[j].at - wire'[i].at >= BookInterval
                       /\ steps = 0 => wire'[i].at <= wire'[j].time
      BY <1>2 DEF BooksSpaced
    <2>1. i + 1 \in DOMAIN wire /\ j + 1 \in DOMAIN wire /\ i + 1 < j + 1
      BY <1>2, <1>3
    <2> QED BY <1>2, <2>1 DEF Inv, BooksSpaced
  <1> QED BY <1>4, <1>5 DEF Inv

\* A step that leaves the books in place, or has none left.
LEMMA QuietInv ==
    ASSUME Inv, wire' = wire \/ wire' = <<>>, lastBook' \in Nat, lastBook' >= lastBook,
           clock' \in Nat, lastUpdate' \in Nat, steps' \in Nat, steps' = 0 => steps = 0, Timely'
    PROVE Inv'
  <1>1. CASE wire' = wire
    <2>1. \A i \in DOMAIN wire : wire[i].at \in Nat /\ wire[i].at <= lastBook'
      BY DEF Inv, Published
    <2>2. Published'
      BY <1>1, <2>1 DEF Inv, Published
    <2> QED BY <1>1, <2>2 DEF Inv, BooksSpaced
  <1>2. CASE wire' = <<>>
    <2>1. wire' \in Seq({}) /\ DOMAIN wire' = {}
      BY <1>2
    <2> QED BY <2>1 DEF Inv, Published, BooksSpaced
  <1> QED BY <1>1, <1>2

\* The book of a ticker message is never ready.
LEMMA EmptyNotReady == ~Ready(Snapshot(NoLevels))
  <1> DEFINE S == NoLevels["Bid"]
             f == BestFirst("Bid", S)
             g == UpTo(Depth, f)
  <1>1. "Bid" \in Side /\ S = {} /\ Depth \in Nat
    BY ConstantsAssumption DEF Side, NoLevels
  <1>2. Snapshot(NoLevels).bids = g
    BY DEF Snapshot
  <1> HIDE DEF S
  <1>3. S \in SUBSET Level(Nat) /\ Distinct(S) /\ IsFiniteSet(S) /\ Cardinality(S) = 0
    BY <1>1, FS_EmptySet DEF Distinct
  <1>4. f \in Seq(S) /\ Len(f) = 0
    BY <1>1, <1>3, BestFirstSorts
  <1> HIDE DEF f
  <1>5. Len(g) = 0 /\ g \in Seq(S)
    <2>1. g \in Seq(S) /\ Len(g) = (IF Depth <= Len(f) THEN Depth ELSE Len(f)) /\ Len(g) <= Len(f)
      BY <1>1, <1>4, UpToIs
    <2>2. Len(g) \in Nat
      BY <2>1
    <2> HIDE DEF g
    <2> QED BY <1>4, <2>1, <2>2
  <1> HIDE DEF g
  <1>6. g = <<>>
    BY <1>5
  <1> QED BY <1>2, <1>6 DEF Ready

\* A tick is taken: if its book is updated, it is with the clock of this moment.
LEMMA ProcessInv == Inv /\ ProcessTick => Inv'
  <1> SUFFICES ASSUME Inv, ProcessTick PROVE Inv'
    OBVIOUS
  <1>1. /\ UNCHANGED <<exchange, wire, lastBook, clock, steps>> /\ tick' = <<Head(queue)>>
        /\ lastUpdate' = IF Ticker(Head(queue)) THEN lastUpdate ELSE clock
    BY DEF ProcessTick, streamVars, Ticker
  <1>2. clock \in Nat /\ lastBook \in Nat /\ lastUpdate \in Nat /\ steps \in Nat
    BY DEF Inv, Published
  <1>3. tick'[1] = Head(queue) /\ (Ticker(tick[1])' <=> Ticker(Head(queue)))
    BY <1>1 DEF Ticker
  <1>4. Timely'
    BY <1>1, <1>3 DEF Inv, Timely
  <1> QED BY <1>1, <1>2, <1>4, QuietInv

\* The rest of its iteration: it publishes only when an interval is over, and a
\* clock that went back ends it first.
LEMMA PublishInv == Inv /\ Publish => Inv'
  <1> SUFFICES ASSUME Inv, Publish PROVE Inv'
    OBVIOUS
  <1>1. /\ UNCHANGED <<exchange, clock, lastUpdate, steps>> /\ tick # <<>> /\ tick' = <<>>
        /\ clock \in Nat /\ lastBook \in Nat /\ lastUpdate \in Nat /\ steps \in Nat
        /\ BookInterval \in Nat
    BY ConstantsAssumption DEF Publish, streamVars, Inv, Published
  <1>2. CASE clock < lastBook
    <2>1. UNCHANGED <<wire, lastBook>>
      BY <1>2 DEF Publish
    <2>2. Timely'
      BY <1>1, <2>1 DEF Inv, Timely
    <2> QED BY <1>1, <2>1, <2>2, QuietInv
  <1>3. CASE ~(clock < lastBook)
    <2>1. PublishBook(tick[1]) /\ clock >= lastBook
      BY <1>1, <1>3 DEF Publish
    <2>2. lastBook' = lastBook \/ (lastBook' = clock /\ BookDue)
      BY <2>1 DEF PublishBook
    <2>3. Timely'
      BY <1>1, <2>1, <2>2 DEF Timely
    <2>4. CASE wire' = wire
      BY <1>1, <2>1, <2>2, <2>3, <2>4, QuietInv
    <2>5. CASE wire' # wire
      <3> DEFINE b == Shown(tick[1])
      <3>1. wire' = Append(wire, b) /\ BookDue /\ lastBook' = clock /\ Ready(b)
        BY <2>1, <2>5 DEF PublishBook
      <3>2. b.at = clock /\ b.time = lastUpdate
        BY DEF Shown, Snapshot
      <3>3. clock - lastBook >= BookInterval
        BY <3>1 DEF BookDue
      <3>4. ~Ticker(tick[1])
        BY <3>1, EmptyNotReady DEF Ticker, Shown
      <3>5. steps = 0 => lastBook <= b.time
        BY <1>1, <3>2, <3>4 DEF Inv, Timely
      <3> HIDE DEF b
      <3>6. b.time \in Nat
        BY <1>1, <3>2
      <3> QED BY <1>1, <3>1, <3>2, <3>3, <3>5, <3>6, AppendInv
    <2> QED BY <2>4, <2>5
  <1> QED BY <1>2, <1>3

\* The steps of the strategy service.
LEMMA TradeInv ==
    Inv /\ Maker!Trade /\ UNCHANGED <<exchange, tick, clock, lastBook, lastUpdate, steps>> => Inv'
  <1> SUFFICES ASSUME Inv, Maker!Trade, UNCHANGED <<exchange, tick, clock, lastBook, lastUpdate, steps>>
               PROVE Inv'
    OBVIOUS
  <1>1. (wire # <<>> /\ wire' = Tail(wire)) \/ wire' = <<>>
    BY DEF Maker!Trade, Maker!HandleBook, Maker!Stop, Maker!Restart
  <1>2. lastBook \in Nat /\ clock \in Nat /\ lastUpdate \in Nat /\ steps \in Nat /\ Timely'
    BY DEF Inv, Published, Timely, Ticker
  <1>3. CASE wire # <<>> /\ wire' = Tail(wire)
    BY <1>3, TailInv
  <1>4. CASE wire' = <<>>
    BY <1>2, <1>4, QuietInv
  <1> QED BY <1>1, <1>3, <1>4

\* Every step of either service keeps the invariant.
LEMMA NextInv == Inv /\ [FeedNext]_feedVars => Inv'
  <1> SUFFICES ASSUME Inv, [FeedNext]_feedVars PROVE Inv'
    OBVIOUS
  <1>1. lastBook \in Nat /\ clock \in Nat /\ lastUpdate \in Nat /\ steps \in Nat
    BY DEF Inv, Published
  <1>2. CASE UNCHANGED <<exchange, tick, wire, lastBook, lastUpdate, clock, steps>>
    <2>1. Timely'
      BY <1>2 DEF Inv, Timely, Ticker
    <2> QED BY <1>1, <1>2, <2>1, QuietInv
  <1>3. CASE DepthMessage \/ TradeMessage \/ EndStream \/ EndOfLoop
    BY <1>2, <1>3 DEF DepthMessage, TradeMessage, EndStream, EndOfLoop, streamVars, bookVars
  <1>4. CASE ClockChange
    <2>1. UNCHANGED <<exchange, tick, wire, lastBook, lastUpdate>> /\ clock' \in Nat
      BY <1>1, <1>4 DEF ClockChange, streamVars, bookVars
    <2>2. \/ clock' = clock + 1 /\ steps' = steps
          \/ steps' = steps + 1
      BY <1>4 DEF ClockChange
    <2>3. steps' \in Nat /\ (steps' = 0 => steps = 0 /\ clock' >= clock)
      BY <1>1, <2>2
    <2>4. Timely'
      BY <1>1, <2>1, <2>3 DEF Inv, Timely, Ticker
    <2> QED BY <1>1, <2>1, <2>3, <2>4, QuietInv
  <1>5. CASE Maker!Trade /\ UNCHANGED <<streamVars, queue, main, bookVars, clock, messages, steps>>
    BY <1>5, TradeInv DEF streamVars, bookVars
  <1>6. CASE UNCHANGED feedVars
    BY <1>2, <1>6 DEF feedVars, vars, streamVars, bookVars
  <1> QED BY <1>3, <1>4, <1>5, <1>6, ProcessInv, PublishInv DEF FeedNext, Next, Loop

\* Books are published an interval apart, and none shows a time before the
\* publication of an earlier one unless the clock was stepped back: whatever ticks
\* arrive, however long their sends take and whenever the subscriber reads.
THEOREM BooksStaySpaced == FeedSpec => []BooksSpaced
  <1>1. FeedInit => Inv
    <2> SUFFICES ASSUME Init PROVE Inv
      BY DEF FeedInit
    <2>1. /\ wire \in Seq({}) /\ DOMAIN wire = {} /\ steps = 0 /\ tick = <<>>
          /\ clock = Epoch /\ lastBook = Epoch /\ lastUpdate = Epoch /\ Epoch \in Nat
      BY ConstantsAssumption DEF Init
    <2> QED BY <2>1 DEF Inv, Published, Timely, BooksSpaced
  <1>2. Inv => BooksSpaced
    BY DEF Inv
  <1> QED BY <1>1, <1>2, NextInv, PTL DEF FeedSpec
=============================================================================
