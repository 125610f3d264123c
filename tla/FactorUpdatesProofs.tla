------------------------- MODULE FactorUpdatesProofs -------------------------
(***************************************************************************)
(* The arithmetic of the conversion for every scale, price and band, and     *)
(* what it makes of any sequence of updates.                                 *)
(***************************************************************************)
EXTENDS FactorUpdates, TLAPS

\* MAX_PRICE_MOVE_RATIO is above 1, its default is 10.
BandIsOn == MaxMoveRatio.num > MaxMoveRatio.den

\* Each tier's scale is a multiple of the scale above, a thousandfold in the code.
ScalesDivide ==
    \E j, k \in Nat \ {0} :
        convertedMid = j * convertedHigh /\ convertedLow = k * convertedMid

------------------------------------------------------------------------------
(* Integers *)

LEMMA Cancel ==
    ASSUME NEW x \in Int, NEW y \in Int, NEW v \in Nat \ {0}, x * v <= y * v
    PROVE  x <= y
<1> SUFFICES ASSUME y - x < 0
             PROVE  FALSE
  OBVIOUS
<1>1. (y - x) * v = y * v - x * v
  OBVIOUS
<1>2. \A z \in Int : z < 0 => z * v < 0
  OBVIOUS
<1>3. y - x \in Int
  OBVIOUS
<1>4. (y - x) * v < 0
  BY <1>2, <1>3
<1> QED
  BY <1>1, <1>4

LEMMA Scale ==
    ASSUME NEW x \in Int, NEW y \in Int, NEW v \in Nat, x <= y
    PROVE  x * v <= y * v
<1>1. (y - x) * v = y * v - x * v
  OBVIOUS
<1>2. \A z \in Nat : z * v >= 0
  OBVIOUS
<1>3. y - x \in Nat
  OBVIOUS
<1>4. (y - x) * v >= 0
  BY <1>2, <1>3
<1>5. x * v \in Int /\ y * v \in Int
  OBVIOUS
<1> QED
  BY <1>1, <1>4, <1>5

LEMMA Division ==
    ASSUME NEW n \in Int, NEW d \in Nat \ {0}
    PROVE  /\ n \div d \in Int
           /\ (n \div d) * d <= n
           /\ n < (n \div d) * d + d
OBVIOUS

\* Half a step up or down at the most.
LEMMA Nearest ==
    ASSUME NEW n \in Int, NEW d \in Nat \ {0}
    PROVE  LET r == roundHalfUp([num |-> n, den |-> d])
           IN  /\ r \in Int
               /\ 2 * (r * d) <= 2 * n + d
               /\ 2 * n < 2 * (r * d) + d
<1> DEFINE r == roundHalfUp([num |-> n, den |-> d])
<1>1. r = (2 * n + d) \div (2 * d)
  BY DEF roundHalfUp
<1>2. 2 * n + d \in Int /\ 2 * d \in Nat \ {0}
  OBVIOUS
<1> HIDE DEF r
<1>3. r \in Int /\ r * (2 * d) <= 2 * n + d /\ 2 * n + d < r * (2 * d) + 2 * d
  BY <1>1, <1>2, Division
<1>4. r * (2 * d) = 2 * (r * d) /\ r * d \in Int
  BY <1>3
<1> QED
  BY <1>3, <1>4 DEF r

------------------------------------------------------------------------------
(* The conversion *)

\* Amounts of a factor that was computed.
LEMMA ScaleType ==
    ASSUME NEW p
    PROVE  selectTier(p) \in Nat \ {0}
BY ScalesAssumption DEF selectTier

LEMMA Products ==
    /\ \A x, y \in Nat \ {0} : x * y \in Nat \ {0}
    /\ \A x, y \in Nat : x * y \in Nat
    /\ \A x, y \in Int : x * y \in Int
OBVIOUS

\* definition * Million * den is selectTier * num to half of Million * den.
LEMMA DefinitionIsNearest ==
    ASSUME NEW p \in Rationals
    PROVE  LET a == selectTier(p) * p.num
               b == Million * p.den
               d == DefinitionOf(p)
           IN  /\ a \in Int /\ b \in Nat \ {0} /\ d \in Int
               /\ 2 * (d * b) <= 2 * a + b
               /\ 2 * a < 2 * (d * b) + b
<1> DEFINE a == selectTier(p) * p.num
           b == Million * p.den
<1>1. p.num \in Int /\ p.den \in Nat \ {0} /\ Million \in Nat \ {0} /\ selectTier(p) \in Int
  BY ScaleType, ScalesAssumption DEF Rationals
<1>2. a \in Int /\ b \in Nat \ {0}
  BY <1>1, Products
<1>3. DefinitionOf(p) = roundHalfUp([num |-> a, den |-> b])
  BY DEF DefinitionOf
<1> HIDE DEF a, b
<1> QED
  BY <1>2, <1>3, Nearest DEF a, b

\* A threshold reached, with its scale, gives MinDefinition or more.
LEMMA ReachesThreshold ==
    ASSUME NEW p \in Rationals, NEW t \in Rationals, AtLeast(p, t),
           NEW c \in Nat \ {0}, c * t.num = MinDefinition * Million * t.den
    PROVE  MinDefinition * (Million * p.den) <= c * p.num
<1>1. /\ p.num \in Int /\ p.den \in Nat \ {0} /\ t.num \in Int /\ t.den \in Nat \ {0}
      /\ Million \in Nat \ {0} /\ MinDefinition \in Nat \ {0}
  BY ScalesAssumption DEF Rationals
<1>2. t.num * p.den <= p.num * t.den
  BY DEF AtLeast
<1> DEFINE x == MinDefinition * (Million * p.den)
           y == c * p.num
<1>3. x \in Int /\ y \in Int
  BY <1>1, Products
<1>4. (t.num * p.den) * c <= (p.num * t.den) * c
  BY <1>1, <1>2, Scale, Products
<1>5. (p.num * t.den) * c = y * t.den
  BY <1>1
<1>6. (t.num * p.den) * c = (c * t.num) * p.den
  BY <1>1
<1>7. (MinDefinition * Million * t.den) * p.den = x * t.den
  BY <1>1
<1>8. x * t.den <= y * t.den
  BY <1>4, <1>5, <1>6, <1>7
<1> HIDE DEF x, y
<1> QED
  BY <1>1, <1>3, <1>8, Cancel DEF x, y

LEMMA TierIsFine ==
    ASSUME NEW p \in Rationals, AtLeast(p, thresholdMid)
    PROVE  MinDefinition * (Million * p.den) <= selectTier(p) * p.num
BY ReachesThreshold, ScalesAssumption DEF selectTier

\* The price that is implied is the price, up to one part in 2 * MinDefinition.
LEMMA ImpliesItsPrice ==
    ASSUME NEW p \in Rationals, AtLeast(p, thresholdMid)
    PROVE  LET implied == ImpliedPrice(Compute(p))
               slack(n) == [num |-> 2 * MinDefinition + n, den |-> 2 * MinDefinition]
           IN  /\ AtLeast(Times(p, slack(1)), implied)
               /\ AtLeast(implied, Times(p, slack(-1)))
<1> DEFINE c == selectTier(p)
           d == DefinitionOf(p)
           a == c * p.num
           b == Million * p.den
           m == MinDefinition
<1>1. /\ a \in Int /\ b \in Nat \ {0} /\ d \in Int
      /\ 2 * (d * b) <= 2 * a + b
      /\ 2 * a < 2 * (d * b) + b
  BY DefinitionIsNearest
<1>2. m * b <= a
  BY TierIsFine
<1>3. /\ m \in Nat \ {0} /\ Million \in Nat \ {0} /\ c \in Nat \ {0}
      /\ p.num \in Int /\ p.den \in Nat \ {0}
  BY ScaleType, ScalesAssumption DEF Rationals
<1>4. ImpliedPrice(Compute(p)) = [num |-> d * Million, den |-> c]
  BY DEF ImpliedPrice, Compute
<1> HIDE DEF a, b, c, d, m
<1>5. d * b \in Int /\ m * b \in Int
  BY <1>1, <1>3, Products
<1>6. (2 * (d * b)) * m <= (2 * a + b) * m
  BY <1>1, <1>3, <1>5, Scale
<1>7. (2 * a) * m <= (2 * (d * b) + b) * m
  BY <1>1, <1>3, <1>5, Scale
<1>8. /\ (2 * (d * b)) * m <= a * (2 * m + 1)
      /\ a * (2 * m - 1) <= (2 * (d * b)) * m
  <2>1. (2 * a + b) * m = 2 * (a * m) + m * b /\ a * (2 * m + 1) = 2 * (a * m) + a
    BY <1>1, <1>3
  <2>2. /\ (2 * (d * b) + b) * m = (2 * (d * b)) * m + m * b
        /\ (2 * a) * m = 2 * (a * m) /\ a * (2 * m - 1) = 2 * (a * m) - a
    BY <1>1, <1>3, <1>5
  <2>3. a * m \in Int /\ (2 * (d * b)) * m \in Int
    BY <1>1, <1>3, <1>5, Products
  <2> QED
    BY <1>1, <1>2, <1>5, <1>6, <1>7, <2>1, <2>2, <2>3
<1>9. /\ (2 * (d * b)) * m = (d * Million) * (p.den * (2 * m))
      /\ a * (2 * m + 1) = (p.num * (2 * m + 1)) * c
      /\ a * (2 * m - 1) = (p.num * (2 * m - 1)) * c
  BY <1>1, <1>3 DEF a, b
<1>10. AtLeast(Times(p, [num |-> 2 * m + 1, den |-> 2 * m]), [num |-> d * Million, den |-> c])
  BY <1>8, <1>9 DEF AtLeast, Times
<1>11. AtLeast([num |-> d * Million, den |-> c], Times(p, [num |-> 2 * m + -1, den |-> 2 * m]))
  <2>1. 2 * m - 1 = 2 * m + -1
    BY <1>3
  <2> QED
    BY <1>8, <1>9, <2>1 DEF AtLeast, Times
<1> QED
  BY <1>4, <1>10, <1>11 DEF m

------------------------------------------------------------------------------
(* Rationals *)

LEMMA TimesType ==
    ASSUME NEW p \in Rationals, NEW q \in Rationals
    PROVE  /\ Times(p, q) \in Rationals
           /\ q.num > 0 => Over(p, q) \in Rationals
<1>1. /\ p.num \in Int /\ p.den \in Nat \ {0} /\ q.num \in Int /\ q.den \in Nat \ {0}
  BY DEF Rationals
<1>2. /\ p.num * q.num \in Int /\ p.den * q.den \in Nat \ {0} /\ p.num * q.den \in Int
      /\ q.num > 0 => p.den * q.num \in Nat \ {0}
  BY <1>1, Products
<1> QED
  BY <1>2 DEF Times, Over, Rationals

LEMMA Transitive ==
    ASSUME NEW p \in Rationals, NEW q \in Rationals, NEW r \in Rationals,
           AtLeast(p, q), AtLeast(q, r)
    PROVE  AtLeast(p, r)
<1>1. /\ p.num \in Int /\ p.den \in Nat \ {0} /\ q.num \in Int /\ q.den \in Nat \ {0}
      /\ r.num \in Int /\ r.den \in Nat \ {0}
  BY DEF Rationals
<1>2. /\ p.num * q.den \in Int /\ q.num * p.den \in Int
      /\ q.num * r.den \in Int /\ r.num * q.den \in Int
      /\ p.num * r.den \in Int /\ r.num * p.den \in Int
  BY <1>1, Products
<1>3. (q.num * p.den) * r.den <= (p.num * q.den) * r.den
  BY <1>1, <1>2, Scale DEF AtLeast
<1>4. (r.num * q.den) * p.den <= (q.num * r.den) * p.den
  BY <1>1, <1>2, Scale DEF AtLeast
<1>5. /\ (p.num * q.den) * r.den = (p.num * r.den) * q.den
      /\ (q.num * p.den) * r.den = (q.num * r.den) * p.den
      /\ (r.num * q.den) * p.den = (r.num * p.den) * q.den
  BY <1>1
<1>6. (r.num * p.den) * q.den <= (p.num * r.den) * q.den
  <2>1. /\ (p.num * r.den) * q.den \in Int /\ (q.num * r.den) * p.den \in Int
        /\ (r.num * p.den) * q.den \in Int
    BY <1>1, <1>2, Products
  <2> QED
    BY <1>3, <1>4, <1>5, <2>1
<1> QED
  BY <1>1, <1>2, <1>6, Cancel DEF AtLeast

LEMMA TimesMonotone ==
    ASSUME NEW p \in Rationals, NEW q \in Rationals, NEW r \in Rationals,
           r.num > 0, AtLeast(p, q)
    PROVE  AtLeast(Times(p, r), Times(q, r))
<1>1. /\ p.num \in Int /\ p.den \in Nat \ {0} /\ q.num \in Int /\ q.den \in Nat \ {0}
      /\ r.num \in Nat /\ r.den \in Nat \ {0}
  BY DEF Rationals
<1>2. q.num * p.den \in Int /\ p.num * q.den \in Int /\ r.num * r.den \in Nat
  BY <1>1, Products
<1>3. (q.num * p.den) * (r.num * r.den) <= (p.num * q.den) * (r.num * r.den)
  BY <1>2, Scale DEF AtLeast
<1>4. /\ (q.num * p.den) * (r.num * r.den) = (q.num * r.num) * (p.den * r.den)
      /\ (p.num * q.den) * (r.num * r.den) = (p.num * r.num) * (q.den * r.den)
  BY <1>1
<1> QED
  BY <1>3, <1>4 DEF AtLeast, Times

LEMMA TimesCommutes ==
    ASSUME NEW p \in Rationals, NEW q \in Rationals
    PROVE  Times(p, q) = Times(q, p)
BY DEF Times, Rationals

LEMMA TimesAssociates ==
    ASSUME NEW p \in Rationals, NEW q \in Rationals, NEW r \in Rationals
    PROVE  Times(Times(p, q), r) = Times(p, Times(q, r))
<1>1. /\ p.num \in Int /\ p.den \in Int /\ q.num \in Int /\ q.den \in Int
      /\ r.num \in Int /\ r.den \in Int
  BY DEF Rationals
<1>2. \A x, y, z \in Int : (x * y) * z = x * (y * z)
  OBVIOUS
<1> QED
  BY <1>1, <1>2 DEF Times

\* A quotient as a product.
LEMMA OverIsTimes ==
    ASSUME NEW p \in Rationals, NEW q \in Rationals, NEW r \in Rationals
    PROVE  AtLeast(p, Over(q, r)) <=> AtLeast(Times(p, r), q)
<1>1. /\ p.num \in Int /\ p.den \in Int /\ q.num \in Int /\ q.den \in Int
      /\ r.num \in Int /\ r.den \in Int
  BY DEF Rationals
<1>2. \A x, y, z \in Int : (x * y) * z = x * (z * y)
  OBVIOUS
<1>3. /\ (q.num * r.den) * p.den = q.num * (p.den * r.den)
      /\ p.num * (q.den * r.num) = (p.num * r.num) * q.den
  BY <1>1, <1>2
<1> QED
  BY <1>3 DEF AtLeast, Times, Over

LEMMA AboveThreshold ==
    ASSUME NEW p \in Rationals, AtLeast(p, thresholdMid)
    PROVE  p.num > 0
<1>1. /\ p.num \in Int /\ p.den \in Nat \ {0}
      /\ thresholdMid.num \in Nat \ {0} /\ thresholdMid.den \in Nat \ {0}
  BY ScalesAssumption DEF Rationals
<1>2. thresholdMid.num * p.den <= p.num * thresholdMid.den
  BY DEF AtLeast
<1>3. thresholdMid.num * p.den > 0
  BY <1>1, Products
<1>4. \A z \in Int : z <= 0 => z * thresholdMid.den <= 0
  BY <1>1
<1> QED
  BY <1>1, <1>2, <1>3, <1>4

------------------------------------------------------------------------------
(* Sequences of updates *)

\* The factor is the conversion of the price of its last update.
ConversionInv ==
    IsFactorSet(factor) => last.price \in Prices /\ factor = Compute(last.price)

LEMMA UpdateConverts ==
    ASSUME NEW p \in Prices, NEW forced, Update(p, forced)
    PROVE  /\ ConversionInv'
           /\ factor' = Compute(p) /\ last'.price = p /\ last'.forced = forced
           /\ forced \/ WithinBand(p, factor)
BY DEF Update, Updates, ConversionInv

LEMMA ConversionStays == ConversionInv /\ [Next]_factorVars => ConversionInv'
<1> SUFFICES ASSUME ConversionInv, [Next]_factorVars
             PROVE  ConversionInv'
  OBVIOUS
<1>1. CASE UNCHANGED factorVars
  BY <1>1 DEF factorVars, ConversionInv
<1>2. ASSUME NEW p \in Prices, NEW forced \in BOOLEAN, Update(p, forced)
      PROVE  ConversionInv'
  BY <1>2, UpdateConverts
<1> QED
  BY <1>1, <1>2 DEF Next

\* The factor is a conversion in every state.
THEOREM FactorIsConversion == Spec => []ConversionInv
<1>1. Init => ConversionInv
  BY DEF Init, ConversionInv, Unset, IsFactorSet
<1> QED
  BY <1>1, ConversionStays, PTL DEF Spec

\* Every factor above the lowest tier implies the price of its update up to one
\* part in 2 * MinDefinition, whatever the prices, the scales and the updates.
THEOREM FactorTracks == Spec => []TracksThePrice
<1>1. ConversionInv => TracksThePrice
  BY ImpliesItsPrice, PricesAssumption DEF ConversionInv, TracksThePrice
<1> QED
  BY <1>1, FactorIsConversion, PTL

\* One musd less or more than computed is on the other side of the price.
LEMMA OneMusdAround ==
    ASSUME NEW p \in Rationals
    PROVE  LET f == Compute(p)
           IN  /\ AtLeast(p, ImpliedPrice([definition |-> f.definition - 1,
                                           converted |-> f.converted]))
               /\ AtLeast(ImpliedPrice([definition |-> f.definition + 1,
                                        converted |-> f.converted]), p)
<1> DEFINE c == selectTier(p)
           d == DefinitionOf(p)
           a == c * p.num
           b == Million * p.den
<1>1. /\ a \in Int /\ b \in Nat \ {0} /\ d \in Int
      /\ 2 * (d * b) <= 2 * a + b
      /\ 2 * a < 2 * (d * b) + b
  BY DefinitionIsNearest
<1>2. c \in Int /\ p.num \in Int /\ p.den \in Int /\ Million \in Int
  BY ScaleType, ScalesAssumption DEF Rationals
<1>3. (d - 1) * b = d * b - b /\ (d + 1) * b = d * b + b /\ d * b \in Int
  BY <1>1, Products
<1>4. (d - 1) * b <= a /\ a <= (d + 1) * b
  BY <1>1, <1>3
<1> HIDE DEF c, d
<1>5. /\ (d - 1) * b = ((d - 1) * Million) * p.den
      /\ (d + 1) * b = ((d + 1) * Million) * p.den
      /\ a = p.num * c
  <2>1. \A x, y, z \in Int : x * (y * z) = (x * y) * z /\ x * y = y * x
    OBVIOUS
  <2>2. d - 1 \in Int /\ d + 1 \in Int
    BY <1>1
  <2> QED
    BY <1>2, <2>1, <2>2
<1>6. /\ AtLeast(p, [num |-> (d - 1) * Million, den |-> c])
      /\ AtLeast([num |-> (d + 1) * Million, den |-> c], p)
  BY <1>4, <1>5 DEF AtLeast
<1> QED
  BY <1>6 DEF Compute, ImpliedPrice, c, d

LEMMA ImpliedType ==
    ASSUME NEW n \in Int, NEW p
    PROVE  ImpliedPrice([definition |-> n, converted |-> selectTier(p)]) \in Rationals
BY ScaleType, ScalesAssumption, Products DEF ImpliedPrice, Rationals

LEMMA ComputedType ==
    ASSUME NEW p \in Rationals
    PROVE  Compute(p).definition \in Int /\ Compute(p).converted = selectTier(p)
           /\ ImpliedPrice(Compute(p)) \in Rationals
<1>1. DefinitionOf(p) \in Int
  BY DefinitionIsNearest
<1> QED
  BY <1>1, ImpliedType DEF Compute

\* One unforced update with the check on: the price is in the band, and the
\* factor within one musd of the price.
LEMMA MoveIsBounded ==
    ASSUME BandIsOn, ConversionInv, IsFactorSet(factor), ~last'.forced, Next
    PROVE  LET old == ImpliedPrice(factor)
               up == [definition |-> factor'.definition - 1, converted |-> factor'.converted]
               down == [definition |-> factor'.definition + 1, converted |-> factor'.converted]
           IN  /\ AtLeast(Times(old, MaxMoveRatio), ImpliedPrice(up))
               /\ AtLeast(ImpliedPrice(down), Over(old, MaxMoveRatio))
<1> DEFINE old == ImpliedPrice(factor)
           up == [definition |-> factor'.definition - 1, converted |-> factor'.converted]
           down == [definition |-> factor'.definition + 1, converted |-> factor'.converted]
<1>0. PICK p \in Prices, forced \in BOOLEAN : Update(p, forced)
  BY DEF Next
<1>1. factor' = Compute(p) /\ WithinBand(p, factor)
  BY <1>0, UpdateConverts
<1>2. p \in Rationals /\ old \in Rationals /\ MaxMoveRatio \in Rationals
      /\ MaxMoveRatio.num > 0
  BY ComputedType, PricesAssumption, ScalesAssumption DEF ConversionInv, BandIsOn, Rationals
<1>3. AtLeast(Times(old, MaxMoveRatio), p) /\ AtLeast(p, Over(old, MaxMoveRatio))
  BY <1>1, <1>2 DEF WithinBand, BandIsOn, Rationals
<1>4. AtLeast(p, ImpliedPrice(up)) /\ AtLeast(ImpliedPrice(down), p)
  BY <1>1, <1>2, OneMusdAround
<1>5. ImpliedPrice(up) \in Rationals /\ ImpliedPrice(down) \in Rationals
  BY <1>1, <1>2, ComputedType, ImpliedType
<1>6. Times(old, MaxMoveRatio) \in Rationals /\ Over(old, MaxMoveRatio) \in Rationals
  BY <1>2, TimesType
<1> QED
  BY <1>2, <1>3, <1>4, <1>5, <1>6, Transitive

\* With the check on, an unforced update moves the implied price no further
\* than the band and one musd, for every price, scale and ratio.
THEOREM MovesStayInBand == BandIsOn /\ Spec => MovesAreBounded
<1> SUFFICES ASSUME BandIsOn
             PROVE  Spec => MovesAreBounded
  OBVIOUS
<1>1. ConversionInv /\ [Next]_factorVars =>
         [(IsFactorSet(factor) /\ ~last'.forced) =>
            LET old == ImpliedPrice(factor)
                up == [definition |-> factor'.definition - 1, converted |-> factor'.converted]
                down == [definition |-> factor'.definition + 1, converted |-> factor'.converted]
            IN  /\ AtLeast(Times(old, MaxMoveRatio), ImpliedPrice(up))
                /\ AtLeast(ImpliedPrice(down), Over(old, MaxMoveRatio))]_factorVars
  BY MoveIsBounded
<1> QED
  BY <1>1, FactorIsConversion, PTL DEF Spec, MovesAreBounded

------------------------------------------------------------------------------
(* Across the tiers *)

\* The tier of a higher price has the same scale, or one that divides the
\* other's and that the two prices have a threshold between them for.
LEMMA TiersDescend ==
    ASSUME ScalesDivide, NEW p \in Rationals, NEW q \in Rationals, AtLeast(q, p)
    PROVE  \/ selectTier(p) = selectTier(q)
           \/ \E k \in Nat \ {0}, t \in Rationals :
                /\ selectTier(p) = k * selectTier(q)
                /\ AtLeast(q, t) /\ ~AtLeast(p, t)
                /\ selectTier(q) * t.num = MinDefinition * Million * t.den
<1> USE ScalesAssumption
<1>1. PICK j, k \in Nat \ {0} :
         convertedMid = j * convertedHigh /\ convertedLow = k * convertedMid
  BY DEF ScalesDivide
<1>2. CASE AtLeast(q, thresholdHigh)
  <2>1. CASE AtLeast(p, thresholdHigh)
    BY <1>2, <2>1 DEF selectTier
  <2>2. CASE ~AtLeast(p, thresholdHigh) /\ AtLeast(p, thresholdMid)
    BY <1>1, <1>2, <2>2 DEF selectTier
  <2>3. CASE ~AtLeast(p, thresholdHigh) /\ ~AtLeast(p, thresholdMid)
    <3>1. k * j \in Nat \ {0} /\ convertedLow = (k * j) * convertedHigh
      BY <1>1, Products
    <3> QED
      BY <1>2, <2>3, <3>1 DEF selectTier
  <2> QED
    BY <2>1, <2>2, <2>3
<1>3. CASE ~AtLeast(q, thresholdHigh) /\ AtLeast(q, thresholdMid)
  <2>1. ~AtLeast(p, thresholdHigh)
    BY <1>3, Transitive
  <2> QED
    BY <1>1, <1>3, <2>1 DEF selectTier
<1>4. CASE ~AtLeast(q, thresholdHigh) /\ ~AtLeast(q, thresholdMid)
  <2>1. ~AtLeast(p, thresholdHigh) /\ ~AtLeast(p, thresholdMid)
    BY <1>4, Transitive
  <2> QED
    BY <1>4, <2>1 DEF selectTier
<1> QED
  BY <1>2, <1>3, <1>4

\* In one tier a higher price gives no smaller amount.
LEMMA RoundingIsMonotone ==
    ASSUME NEW p \in Rationals, NEW q \in Rationals, AtLeast(q, p),
           selectTier(p) = selectTier(q)
    PROVE  DefinitionOf(p) <= DefinitionOf(q)
<1> DEFINE c == selectTier(p)
           d == DefinitionOf(p)
           e == DefinitionOf(q)
           a == c * p.num
           b == Million * p.den
           g == c * q.num
           h == Million * q.den
<1>1. /\ a \in Int /\ b \in Nat \ {0} /\ d \in Int
      /\ 2 * (d * b) <= 2 * a + b
  BY DefinitionIsNearest
<1>2. /\ g \in Int /\ h \in Nat \ {0} /\ e \in Int
      /\ 2 * g < 2 * (e * h) + h
  BY DefinitionIsNearest
<1>3. /\ c \in Nat \ {0} /\ p.num \in Int /\ p.den \in Nat \ {0}
      /\ q.num \in Int /\ q.den \in Nat \ {0} /\ Million \in Nat \ {0}
  BY ScaleType, ScalesAssumption DEF Rationals
<1>4. a * h <= g * b
  <2>1. p.num * q.den <= q.num * p.den
    BY DEF AtLeast
  <2>2. c * Million \in Nat /\ p.num * q.den \in Int /\ q.num * p.den \in Int
    BY <1>3, Products
  <2>3. (p.num * q.den) * (c * Million) <= (q.num * p.den) * (c * Million)
    BY <2>1, <2>2, Scale
  <2> HIDE DEF c
  <2>4. /\ a * h = (p.num * q.den) * (c * Million)
        /\ g * b = (q.num * p.den) * (c * Million)
    BY <1>3
  <2> QED
    BY <2>3, <2>4
<1> HIDE DEF a, b, c, d, e, g, h
<1>5. SUFFICES ASSUME d >= e + 1
               PROVE  FALSE
  BY <1>1, <1>2 DEF d, e
<1>6. 2 * (e * b) + b <= 2 * a
  <2>1. (e + 1) * b <= d * b
    BY <1>1, <1>2, <1>5, Scale
  <2>2. (e + 1) * b = e * b + b /\ e * b \in Int /\ d * b \in Int
    BY <1>1, <1>2, Products
  <2> QED
    BY <1>1, <2>1, <2>2
<1>7. (2 * (e * b) + b) * h <= (2 * a) * h
  BY <1>1, <1>2, <1>6, Scale, Products
<1>8. (2 * g) * b < (2 * (e * h) + h) * b
  <2>1. 2 * g + 1 <= 2 * (e * h) + h
    BY <1>2, Products
  <2>2. (2 * g + 1) * b <= (2 * (e * h) + h) * b
    BY <1>1, <1>2, <2>1, Scale, Products
  <2>3. (2 * g + 1) * b = (2 * g) * b + b /\ (2 * g) * b \in Int
    BY <1>1, <1>2, Products
  <2>4. (2 * (e * h) + h) * b \in Int
    BY <1>1, <1>2, Products
  <2> QED
    BY <1>1, <2>2, <2>3, <2>4
<1>9. /\ (2 * (e * b) + b) * h = (2 * (e * h) + h) * b
      /\ (2 * a) * h = 2 * (a * h) /\ (2 * g) * b = 2 * (g * b)
      /\ a * h \in Int /\ g * b \in Int /\ (2 * (e * h) + h) * b \in Int
  BY <1>1, <1>2, Products
<1> QED
  BY <1>4, <1>7, <1>8, <1>9

\* At a threshold the scale of the tier it opens gives MinDefinition: from there
\* on no less, and below it, with k times the scale, no more than k times that.
LEMMA AmountsMeetAtThreshold ==
    ASSUME NEW p \in Rationals, NEW q \in Rationals, NEW t \in Rationals,
           NEW k \in Nat \ {0}, selectTier(p) = k * selectTier(q),
           AtLeast(q, t), ~AtLeast(p, t),
           selectTier(q) * t.num = MinDefinition * Million * t.den
    PROVE  DefinitionOf(p) <= k * MinDefinition /\ MinDefinition <= DefinitionOf(q)
<1> DEFINE c == selectTier(q)
           m == MinDefinition
<1>0. /\ c \in Nat \ {0} /\ m \in Nat \ {0} /\ Million \in Nat \ {0}
      /\ p.num \in Int /\ p.den \in Nat \ {0} /\ q.den \in Nat \ {0} /\ q.num \in Int
      /\ t.num \in Int /\ t.den \in Nat \ {0}
  BY ScaleType, ScalesAssumption DEF Rationals
<1>1. m <= DefinitionOf(q)
  <2> DEFINE e == DefinitionOf(q)
             g == c * q.num
             h == Million * q.den
  <2>1. g \in Int /\ h \in Nat \ {0} /\ e \in Int /\ 2 * g < 2 * (e * h) + h
    BY DefinitionIsNearest
  <2>2. m * h <= g
    BY <1>0, ReachesThreshold
  <2> HIDE DEF c, e, g, h, m
  <2>3. SUFFICES ASSUME e + 1 <= m
                 PROVE  FALSE
    BY <1>0, <2>1 DEF e, m
  <2>4. (e + 1) * h <= m * h
    BY <1>0, <2>1, <2>3, Scale
  <2>5. (e + 1) * h = e * h + h /\ e * h \in Int /\ m * h \in Int
    BY <1>0, <2>1, Products
  <2> QED
    BY <2>1, <2>2, <2>4, <2>5
<1>2. DefinitionOf(p) <= k * m
  <2> DEFINE d == DefinitionOf(p)
             a == selectTier(p) * p.num
             b == Million * p.den
  <2>1. a \in Int /\ b \in Nat \ {0} /\ d \in Int /\ 2 * (d * b) <= 2 * a + b
    BY DefinitionIsNearest
  <2>2. a <= (k * m) * b
    <3>1. p.num * t.den <= t.num * p.den
      BY <1>0, Products DEF AtLeast
    <3>2. k * c \in Nat /\ p.num * t.den \in Int /\ t.num * p.den \in Int
      BY <1>0, Products
    <3>3. (p.num * t.den) * (k * c) <= (t.num * p.den) * (k * c)
      BY <3>1, <3>2, Scale
    <3> HIDE DEF c, m
    <3>4. (p.num * t.den) * (k * c) = ((k * c) * p.num) * t.den
      BY <1>0
    <3>5. (t.num * p.den) * (k * c) = (c * t.num) * (k * p.den)
      BY <1>0
    <3>6. (m * Million * t.den) * (k * p.den) = ((k * m) * b) * t.den
      BY <1>0
    <3>7. c * t.num = m * Million * t.den /\ a = (k * c) * p.num
      BY DEF c, m
    <3>8. a * t.den <= ((k * m) * b) * t.den
      BY <3>3, <3>4, <3>5, <3>6, <3>7
    <3>9. (k * m) * b \in Int
      BY <1>0, <2>1, Products
    <3> HIDE DEF a, b
    <3> QED
      BY <1>0, <2>1, <3>8, <3>9, Cancel
  <2> HIDE DEF a, b, c, d, m
  <2>3. k * m \in Int
    BY <1>0, Products
  <2>4. SUFFICES ASSUME k * m + 1 <= d
                 PROVE  FALSE
    BY <2>1, <2>3 DEF d, m
  <2>5. (k * m + 1) * b <= d * b
    BY <2>1, <2>3, <2>4, Scale
  <2>6. (k * m + 1) * b = (k * m) * b + b /\ (k * m) * b \in Int /\ d * b \in Int
    BY <2>1, <2>3, Products
  <2> QED
    BY <2>1, <2>2, <2>5, <2>6
<1> QED
  BY <1>1, <1>2

\* A higher price implies no cheaper HASH.
LEMMA ImpliedIsMonotone ==
    ASSUME ScalesDivide, NEW p \in Rationals, NEW q \in Rationals, AtLeast(q, p)
    PROVE  AtLeast(ImpliedPrice(Compute(q)), ImpliedPrice(Compute(p)))
<1> DEFINE d == DefinitionOf(p)
           e == DefinitionOf(q)
           c == selectTier(q)
<1>1. d \in Int /\ e \in Int /\ c \in Nat \ {0} /\ Million \in Nat \ {0}
  BY DefinitionIsNearest, ScaleType, ScalesAssumption
<1>2. \E k \in Nat \ {0} : selectTier(p) = k * c /\ d <= k * e
  <2>1. CASE selectTier(p) = selectTier(q)
    <3>1. d <= 1 * e /\ selectTier(p) = 1 * c
      BY <1>1, <2>1, RoundingIsMonotone
    <3> QED
      BY <3>1
  <2>2. ASSUME NEW k \in Nat \ {0}, NEW t \in Rationals,
               selectTier(p) = k * selectTier(q),
               AtLeast(q, t), ~AtLeast(p, t),
               selectTier(q) * t.num = MinDefinition * Million * t.den
        PROVE  d <= k * e
    <3>1. d <= k * MinDefinition /\ MinDefinition <= e /\ MinDefinition \in Nat
      BY <2>2, AmountsMeetAtThreshold, ScalesAssumption
    <3> HIDE DEF d, e
    <3>2. MinDefinition * k <= e * k
      BY <1>1, <3>1, Scale
    <3>3. /\ MinDefinition * k = k * MinDefinition /\ e * k = k * e
          /\ k * MinDefinition \in Int /\ k * e \in Int
      BY <1>1, <3>1
    <3> QED
      BY <1>1, <3>1, <3>2, <3>3
  <2> QED
    BY <2>1, <2>2, TiersDescend
<1>3. PICK k \in Nat \ {0} : selectTier(p) = k * c /\ d <= k * e
  BY <1>2
<1> HIDE DEF c, d, e
<1>4. c * Million \in Nat /\ k * e \in Int
  BY <1>1, Products
<1>5. d * (c * Million) <= (k * e) * (c * Million)
  BY <1>1, <1>3, <1>4, Scale
<1>6. d * (c * Million) = (d * Million) * c /\ (k * e) * (c * Million) = (e * Million) * (k * c)
  BY <1>1
<1>7. AtLeast([num |-> e * Million, den |-> c], [num |-> d * Million, den |-> k * c])
  BY <1>5, <1>6 DEF AtLeast
<1> QED
  BY <1>3, <1>7 DEF Compute, ImpliedPrice, c, d, e

\* A higher price never implies a cheaper HASH, at a threshold neither, when the
\* scales divide each other.
THEOREM FactorFollows == ScalesDivide /\ Spec => FollowsThePrice
<1> SUFFICES ASSUME ScalesDivide
             PROVE  Spec => FollowsThePrice
  OBVIOUS
<1> DEFINE Follow ==
       (IsFactorSet(factor) /\ AtLeast(last'.price, last.price)) =>
            AtLeast(ImpliedPrice(factor'), ImpliedPrice(factor))
<1>1. ConversionInv /\ Next => Follow
  <2> SUFFICES ASSUME ConversionInv, IsFactorSet(factor), AtLeast(last'.price, last.price),
                      NEW p \in Prices, NEW forced \in BOOLEAN, Update(p, forced)
               PROVE  AtLeast(ImpliedPrice(factor'), ImpliedPrice(factor))
    BY DEF Next
  <2>1. factor' = Compute(p) /\ last'.price = p
    BY UpdateConverts
  <2>2. p \in Rationals /\ last.price \in Rationals /\ factor = Compute(last.price)
    BY PricesAssumption DEF ConversionInv
  <2> QED
    BY <2>1, <2>2, ImpliedIsMonotone
<1>2. ConversionInv /\ [Next]_factorVars => [Follow]_factorVars
  BY <1>1
<1> QED
  BY <1>2, FactorIsConversion, PTL DEF Spec, FollowsThePrice

=============================================================================
