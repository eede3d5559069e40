----------------------------- MODULE PlanProofs -----------------------------
(***************************************************************************)
(* planRenditions does what its documentation says for every source size:  *)
(* first what toEven returns, then one rung, then the plan, which is a     *)
(* suffix of the ladder because the rungs differ in height.                *)
(***************************************************************************)
EXTENDS RenditionPlan, TLAPS

(* The quotient n \div d is the largest integer whose product with d fits  *)
(* in n.                                                                   *)
LEMMA Division ==
    ASSUME NEW n \in Int, NEW d \in Nat \ {0}
    PROVE  /\ n \div d \in Int
           /\ d * (n \div d) <= n
           /\ n < d * (n \div d) + d
  BY SMTT(30)

(* Dropping the last bit gives an even number, at most one below.          *)
LEMMA EvenPart ==
    ASSUME NEW r \in Int
    PROVE  /\ r - (r % 2) \in Int
           /\ (r - (r % 2)) % 2 = 0
           /\ r - (r % 2) <= r
           /\ r - (r % 2) >= r - 1
  BY SMT

(* Products with one positive factor compare as the other factors do, ...  *)
LEMMA ProductOrder ==
    ASSUME NEW a \in Int, NEW b \in Int, NEW d \in Nat \ {0}, d * a < d * b
    PROVE  a < b
  BY SMTT(30)

(* ... and conversely, weakly.                                             *)
LEMMA ProductMonotone ==
    ASSUME NEW a \in Int, NEW b \in Int, NEW d \in Nat, a <= b
    PROVE  d * a <= d * b
  BY SMTT(30)

(* What toEven gives: a size for yuv420p, at most half a unit above the    *)
(* quotient unless it is the least one, and less than 3/2 below it.        *)
LEMMA ToEvenFacts ==
    ASSUME NEW n \in Nat, NEW d \in Nat \ {0}
    PROVE  /\ ToEven(n, d) \in Nat
           /\ YuvSize(ToEven(n, d))
           /\ ToEven(n, d) > 2 => 2 * (d * ToEven(n, d)) <= 2 * n + d
           /\ 2 * (d * ToEven(n, d)) > 2 * n - 3 * d
<1> DEFINE q == Rounded(n, d)
           even == q - (q % 2)
           e == ToEven(n, d)
<1>1. /\ q \in Int
      /\ (2 * d) * q <= 2 * n + d
      /\ 2 * n + d < (2 * d) * q + 2 * d
  <2>1. 2 * n + d \in Int /\ 2 * d \in Nat \ {0}
    BY SMT
  <2> QED
    BY <2>1, Division DEF Rounded
<1>2. (2 * d) * q = 2 * (d * q)
  BY <1>1, SMTT(30)
<1>3. /\ even \in Int /\ even % 2 = 0 /\ even <= q /\ even >= q - 1
  BY <1>1, EvenPart
<1>4. e = IF even < 2 THEN 2 ELSE even
  BY DEF ToEven
<1>5. e \in Nat /\ e >= 2 /\ e % 2 = 0 /\ e >= q - 1 /\ (e > 2 => e <= q)
  <2> HIDE DEF even, e
  <2> QED BY <1>1, <1>3, <1>4, SMT
<1> HIDE DEF q, even, e
<1>6. e > 2 => 2 * (d * e) <= 2 * n + d
  <2>1. SUFFICES ASSUME e > 2 PROVE 2 * (d * e) <= 2 * n + d
    OBVIOUS
  <2>2. d * e <= d * q
    BY <1>1, <1>5, <2>1, ProductMonotone
  <2>3. d * e \in Int /\ d * q \in Int
    BY <1>1, <1>5, SMT
  <2> QED BY <1>1, <1>2, <2>2, <2>3, SMT
<1>7. 2 * (d * e) > 2 * n - 3 * d
  <2>1. d * (q - 1) <= d * e
    BY <1>1, <1>5, ProductMonotone
  <2>2. d * (q - 1) = d * q - d /\ d * q \in Int /\ d * e \in Int
    BY <1>1, <1>5, SMTT(30)
  <2> QED BY <1>1, <1>2, <2>1, <2>2, SMT
<1> QED BY <1>5, <1>6, <1>7 DEF e, YuvSize

(* toEven of a quotient that is at most m is at most m.                    *)
LEMMA ToEvenBound ==
    ASSUME NEW n \in Nat, NEW d \in Nat \ {0}, NEW m \in Nat, m >= 2,
           n <= d * m
    PROVE  ToEven(n, d) <= m
<1> DEFINE e == ToEven(n, d)
<1>1. e \in Nat /\ (e > 2 => 2 * (d * e) <= 2 * n + d)
  BY ToEvenFacts
<1> HIDE DEF e
<1>2. CASE e <= 2
  BY <1>1, <1>2, SMT DEF e
<1>3. CASE e > 2
  <2>1. d * e \in Int /\ d * m \in Int /\ d * (m + 1) = d * m + d
    BY <1>1, SMTT(30)
  <2>2. d * e < d * (m + 1)
    BY <1>1, <1>3, <2>1, SMT
  <2>3. e < m + 1
    BY <1>1, <2>2, ProductOrder
  <2> QED BY <1>1, <2>3, SMT DEF e
<1> QED BY <1>1, <1>2, <1>3, SMT

(* An even size stays as it is.                                            *)
LEMMA ToEvenOfEven ==
    ASSUME NEW n \in Nat, YuvSize(n)
    PROVE  ToEven(n, 1) = n
<1>1. (2 * n + 1) \div (2 * 1) = n
  BY SMT
<1> QED BY <1>1, SMT DEF ToEven, Rounded, YuvSize

-----------------------------------------------------------------------------
Targets == {1440, 1080, 720, 480}

(* A rung at or below the source's height is what the plan asks of it.     *)
LEMMA RungFacts ==
    ASSUME NEW width \in Nat \ {0}, NEW height \in Nat \ {0},
           NEW t \in Targets, t <= height
    PROVE  LET p == Rung(width, height, t)
           IN  /\ p.label = t /\ p.height = t
               /\ p.width \in Nat /\ YuvSize(p.width) /\ YuvSize(p.height)
               /\ width >= 2 => p.width <= width
               /\ p.width > 2 => SameAspect(p, width, height)
<1> DEFINE p == Rung(width, height, t)
<1>1. t \in Nat /\ YuvSize(t)
  BY SMT DEF Targets, YuvSize
<1>2. /\ p = [label |-> t, width |-> ToEven(t * width, height), height |-> t]
      /\ t * width \in Nat
  <2>1. ToEven(t, 1) = t
    BY <1>1, ToEvenOfEven
  <2> QED BY <1>1, <2>1, SMT DEF Rung
<1> DEFINE e == ToEven(t * width, height)
<1>3. /\ e \in Nat /\ YuvSize(e)
      /\ e > 2 => 2 * (height * e) <= 2 * (t * width) + height
      /\ 2 * (height * e) > 2 * (t * width) - 3 * height
  BY <1>2, ToEvenFacts
<1>4. width >= 2 => e <= width
  <2>1. t * width <= height * width
    <3>1. width * t <= width * height
      BY <1>1, ProductMonotone
    <3> QED BY <1>1, <3>1, SMTT(30)
  <2> QED BY <1>2, <2>1, ToEvenBound
<1>5. 2 * (height * e) = 2 * height * e /\ 2 * (t * width) = 2 * t * width
  BY <1>1, <1>3, SMTT(30)
<1> HIDE DEF e
<1>6. p.label = t /\ p.width = e /\ p.height = t
  BY <1>2 DEF e
<1>7. p.width > 2 => SameAspect(p, width, height)
  BY <1>3, <1>5, <1>6 DEF SameAspect
<1> QED BY <1>1, <1>3, <1>4, <1>6, <1>7

(* The loop leaves a suffix of the ladder: no rung is ever "seen" already. *)
RungOf(width, height, i) == Rung(width, height, RenditionLadder[i])

(* A rung taller than the source is skipped; ...                           *)
LEMMA SkipRung ==
    ASSUME NEW width, NEW height \in Nat, NEW planned, NEW i \in 1..4,
           RenditionLadder[i] > height
    PROVE  AddRung(width, height, planned, i) = planned
  BY DEF AddRung

(* ... any other is planned, as its height differs from all before it.     *)
LEMMA KeepRung ==
    ASSUME NEW width, NEW height \in Nat, NEW planned, NEW i \in 1..4,
           RenditionLadder[i] <= height, RenditionLadder[i] \in Nat,
           \A j \in DOMAIN planned :
               planned[j].height # RungOf(width, height, i).height
    PROVE  AddRung(width, height, planned, i)
             = Append(planned, RungOf(width, height, i))
<1>1. ~ (RenditionLadder[i] > height)
  BY SMT
<1> QED BY <1>1, Zenon DEF AddRung, RungOf

(* So what the loop gives depends only on where the height lies on the     *)
(* ladder.                                                                 *)
LEMMA LadderShape ==
    ASSUME NEW width \in Nat \ {0}, NEW height \in Nat \ {0}
    PROVE  LadderPlan(width, height) =
             IF height >= 1440 THEN <<RungOf(width, height, 1),
                                      RungOf(width, height, 2),
                                      RungOf(width, height, 3),
                                      RungOf(width, height, 4)>>
             ELSE IF height >= 1080 THEN <<RungOf(width, height, 2),
                                           RungOf(width, height, 3),
                                           RungOf(width, height, 4)>>
             ELSE IF height >= 720 THEN <<RungOf(width, height, 3),
                                          RungOf(width, height, 4)>>
             ELSE IF height >= 480 THEN <<RungOf(width, height, 4)>>
             ELSE <<>>
<1> DEFINE rung(i) == RungOf(width, height, i)
<1>1. /\ rung(1).height = 1440 /\ rung(2).height = 1080
      /\ rung(3).height = 720 /\ rung(4).height = 480
  <2>1. /\ ToEven(1440, 1) = 1440 /\ ToEven(1080, 1) = 1080
        /\ ToEven(720, 1) = 720 /\ ToEven(480, 1) = 480
    <3>1. YuvSize(1440) /\ YuvSize(1080) /\ YuvSize(720) /\ YuvSize(480)
      BY SMT DEF YuvSize
    <3> QED BY <3>1, ToEvenOfEven
  <2> QED BY <2>1 DEF RungOf, Rung, RenditionLadder
<1> HIDE DEF rung
<1>2. /\ RenditionLadder[1] = 1440 /\ RenditionLadder[2] = 1080
      /\ RenditionLadder[3] = 720 /\ RenditionLadder[4] = 480
  BY DEF RenditionLadder
<1> DEFINE first == AddRung(width, height, <<>>, 1)
           second == AddRung(width, height, first, 2)
           third == AddRung(width, height, second, 3)
           plan == AddRung(width, height, third, 4)
<1>3. LadderPlan(width, height) = plan
  BY DEF LadderPlan
<1>4. CASE height >= 1440
  <2>1. first = Append(<<>>, rung(1))
    <3>1. \A j \in DOMAIN <<>> : <<>>[j].height # rung(1).height
      BY <1>1
    <3>2. /\ 1 \in 1..4 /\ height \in Nat
          /\ RenditionLadder[1] <= height /\ RenditionLadder[1] \in Nat
      BY <1>2, <1>4, SMT
    <3> QED BY <3>1, <3>2, KeepRung, Zenon DEF rung
  <2>2. first = <<rung(1)>>
    BY <2>1
  <2> HIDE DEF first
  <2>3. second = Append(<<rung(1)>>, rung(2))
    <3>1. \A j \in DOMAIN <<rung(1)>> : <<rung(1)>>[j].height # rung(2).height
      BY <1>1
    <3>2. /\ 2 \in 1..4 /\ height \in Nat
          /\ RenditionLadder[2] <= height /\ RenditionLadder[2] \in Nat
      BY <1>2, <1>4, SMT
    <3> QED BY <3>1, <3>2, <2>2, KeepRung, Zenon DEF rung
  <2>4. second = <<rung(1), rung(2)>>
    BY <2>3
  <2> HIDE DEF second
  <2>5. third = Append(<<rung(1), rung(2)>>, rung(3))
    <3>1. \A j \in DOMAIN <<rung(1), rung(2)>> : <<rung(1), rung(2)>>[j].height # rung(3).height
      BY <1>1
    <3>2. /\ 3 \in 1..4 /\ height \in Nat
          /\ RenditionLadder[3] <= height /\ RenditionLadder[3] \in Nat
      BY <1>2, <1>4, SMT
    <3> QED BY <3>1, <3>2, <2>4, KeepRung, Zenon DEF rung
  <2>6. third = <<rung(1), rung(2), rung(3)>>
    BY <2>5
  <2> HIDE DEF third
  <2>7. plan = Append(<<rung(1), rung(2), rung(3)>>, rung(4))
    <3>1. \A j \in DOMAIN <<rung(1), rung(2), rung(3)>> : <<rung(1), rung(2), rung(3)>>[j].height # rung(4).height
      BY <1>1
    <3>2. /\ 4 \in 1..4 /\ height \in Nat
          /\ RenditionLadder[4] <= height /\ RenditionLadder[4] \in Nat
      BY <1>2, <1>4, SMT
    <3> QED BY <3>1, <3>2, <2>6, KeepRung, Zenon DEF rung
  <2>8. plan = <<rung(1), rung(2), rung(3), rung(4)>>
    BY <2>7
  <2> QED BY <1>3, <1>4, <2>8, SMT DEF rung
<1>5. CASE height < 1440 /\ height >= 1080
  <2>1. first = <<>>
    BY <1>2, <1>5, SkipRung
  <2> HIDE DEF first
  <2>2. second = Append(<<>>, rung(2))
    <3>1. \A j \in DOMAIN <<>> : <<>>[j].height # rung(2).height
      BY <1>1
    <3>2. /\ 2 \in 1..4 /\ height \in Nat
          /\ RenditionLadder[2] <= height /\ RenditionLadder[2] \in Nat
      BY <1>2, <1>5, SMT
    <3> QED BY <3>1, <3>2, <2>1, KeepRung, Zenon DEF rung
  <2>3. second = <<rung(2)>>
    BY <2>2
  <2> HIDE DEF second
  <2>4. third = Append(<<rung(2)>>, rung(3))
    <3>1. \A j \in DOMAIN <<rung(2)>> : <<rung(2)>>[j].height # rung(3).height
      BY <1>1
    <3>2. /\ 3 \in 1..4 /\ height \in Nat
          /\ RenditionLadder[3] <= height /\ RenditionLadder[3] \in Nat
      BY <1>2, <1>5, SMT
    <3> QED BY <3>1, <3>2, <2>3, KeepRung, Zenon DEF rung
  <2>5. third = <<rung(2), rung(3)>>
    BY <2>4
  <2> HIDE DEF third
  <2>6. plan = Append(<<rung(2), rung(3)>>, rung(4))
    <3>1. \A j \in DOMAIN <<rung(2), rung(3)>> : <<rung(2), rung(3)>>[j].height # rung(4).height
      BY <1>1
    <3>2. /\ 4 \in 1..4 /\ height \in Nat
          /\ RenditionLadder[4] <= height /\ RenditionLadder[4] \in Nat
      BY <1>2, <1>5, SMT
    <3> QED BY <3>1, <3>2, <2>5, KeepRung, Zenon DEF rung
  <2>7. plan = <<rung(2), rung(3), rung(4)>>
    BY <2>6
  <2> QED BY <1>3, <1>5, <2>7, SMT DEF rung
<1>6. CASE height < 1080 /\ height >= 720
  <2>1. first = <<>>
    BY <1>2, <1>6, SkipRung
  <2> HIDE DEF first
  <2>2. second = <<>>
    BY <1>2, <1>6, <2>1, SkipRung
  <2> HIDE DEF second
  <2>3. third = Append(<<>>, rung(3))
    <3>1. \A j \in DOMAIN <<>> : <<>>[j].height # rung(3).height
      BY <1>1
    <3>2. /\ 3 \in 1..4 /\ height \in Nat
          /\ RenditionLadder[3] <= height /\ RenditionLadder[3] \in Nat
      BY <1>2, <1>6, SMT
    <3> QED BY <3>1, <3>2, <2>2, KeepRung, Zenon DEF rung
  <2>4. third = <<rung(3)>>
    BY <2>3
  <2> HIDE DEF third
  <2>5. plan = Append(<<rung(3)>>, rung(4))
    <3>1. \A j \in DOMAIN <<rung(3)>> : <<rung(3)>>[j].height # rung(4).height
      BY <1>1
    <3>2. /\ 4 \in 1..4 /\ height \in Nat
          /\ RenditionLadder[4] <= height /\ RenditionLadder[4] \in Nat
      BY <1>2, <1>6, SMT
    <3> QED BY <3>1, <3>2, <2>4, KeepRung, Zenon DEF rung
  <2>6. plan = <<rung(3), rung(4)>>
    BY <2>5
  <2> QED BY <1>3, <1>6, <2>6, SMT DEF rung
<1>7. CASE height < 720 /\ height >= 480
  <2>1. first = <<>>
    BY <1>2, <1>7, SkipRung
  <2> HIDE DEF first
  <2>2. second = <<>>
    BY <1>2, <1>7, <2>1, SkipRung
  <2> HIDE DEF second
  <2>3. third = <<>>
    BY <1>2, <1>7, <2>2, SkipRung
  <2> HIDE DEF third
  <2>4. plan = Append(<<>>, rung(4))
    <3>1. \A j \in DOMAIN <<>> : <<>>[j].height # rung(4).height
      BY <1>1
    <3>2. /\ 4 \in 1..4 /\ height \in Nat
          /\ RenditionLadder[4] <= height /\ RenditionLadder[4] \in Nat
      BY <1>2, <1>7, SMT
    <3> QED BY <3>1, <3>2, <2>3, KeepRung, Zenon DEF rung
  <2>5. plan = <<rung(4)>>
    BY <2>4
  <2> QED BY <1>3, <1>7, <2>5, SMT DEF rung
<1>8. CASE height < 480
  <2>1. first = <<>>
    BY <1>2, <1>8, SkipRung
  <2> HIDE DEF first
  <2>2. second = <<>>
    BY <1>2, <1>8, <2>1, SkipRung
  <2> HIDE DEF second
  <2>3. third = <<>>
    BY <1>2, <1>8, <2>2, SkipRung
  <2> HIDE DEF third
  <2>4. plan = <<>>
    BY <1>2, <1>8, <2>3, SkipRung
  <2> QED BY <1>3, <1>8, <2>4, SMT DEF rung
<1> QED BY <1>4, <1>5, <1>6, <1>7, <1>8, SMT

-----------------------------------------------------------------------------
(* A sequence of rungs k + 1 .. 4, where rung k is the last one that is    *)
(* taller than the source, is the plan.                                    *)
SuffixPlan(width, height, k) ==
    [i \in 1..(4 - k) |-> RungOf(width, height, k + i)]

(* A source of at least 480 lines gets the rungs from its own downwards.   *)
LEMMA PlanIsSuffix ==
    ASSUME NEW width \in Nat \ {0}, NEW height \in Nat \ {0}, height >= 480
    PROVE  \E k \in 0..3 :
               /\ PlanRenditions(width, height) = SuffixPlan(width, height, k)
               /\ \A i \in 1..4 : RenditionLadder[i] <= height <=> i > k
<1> DEFINE ladder == LadderPlan(width, height)
<1>1. ladder # <<>> => PlanRenditions(width, height) = ladder
  BY DEF PlanRenditions
<1>2. CASE height >= 1440
  <2>1. ladder = 
           <<RungOf(width, height, 1),
             RungOf(width, height, 2),
             RungOf(width, height, 3),
             RungOf(width, height, 4)>>
    BY <1>2, LadderShape, SMT
  <2>2. <<RungOf(width, height, 1),
          RungOf(width, height, 2),
          RungOf(width, height, 3),
          RungOf(width, height, 4)>>
          = SuffixPlan(width, height, 0)
    BY SMT DEF SuffixPlan
  <2>3. ladder # <<>>
    BY <2>1
  <2>4. \A i \in 1..4 : RenditionLadder[i] <= height <=> i > 0
    BY <1>2, SMT DEF RenditionLadder
  <2> QED BY <1>1, <2>1, <2>2, <2>3, <2>4
<1>3. CASE height < 1440 /\ height >= 1080
  <2>1. ladder = 
           <<RungOf(width, height, 2),
             RungOf(width, height, 3),
             RungOf(width, height, 4)>>
    BY <1>3, LadderShape, SMT
  <2>2. <<RungOf(width, height, 2),
          RungOf(width, height, 3),
          RungOf(width, height, 4)>>
          = SuffixPlan(width, height, 1)
    BY SMT DEF SuffixPlan
  <2>3. ladder # <<>>
    BY <2>1
  <2>4. \A i \in 1..4 : RenditionLadder[i] <= height <=> i > 1
    BY <1>3, SMT DEF RenditionLadder
  <2> QED BY <1>1, <2>1, <2>2, <2>3, <2>4
<1>4. CASE height < 1080 /\ height >= 720
  <2>1. ladder = <<RungOf(width, height, 3), RungOf(width, height, 4)>>
    BY <1>4, LadderShape, SMT
  <2>2. <<RungOf(width, height, 3), RungOf(width, height, 4)>>
          = SuffixPlan(width, height, 2)
    BY SMT DEF SuffixPlan
  <2>3. ladder # <<>>
    BY <2>1
  <2>4. \A i \in 1..4 : RenditionLadder[i] <= height <=> i > 2
    BY <1>4, SMT DEF RenditionLadder
  <2> QED BY <1>1, <2>1, <2>2, <2>3, <2>4
<1>5. CASE height < 720
  <2>1. ladder = <<RungOf(width, height, 4)>>
    BY <1>5, LadderShape, SMT
  <2>2. <<RungOf(width, height, 4)>>
          = SuffixPlan(width, height, 3)
    BY SMT DEF SuffixPlan
  <2>3. ladder # <<>>
    BY <2>1
  <2>4. \A i \in 1..4 : RenditionLadder[i] <= height <=> i > 3
    BY <1>5, SMT DEF RenditionLadder
  <2> QED BY <1>1, <2>1, <2>2, <2>3, <2>4
<1> QED BY <1>2, <1>3, <1>4, <1>5, SMT

(* Those rungs are what the plan is documented to be.                      *)
LEMMA SuffixIsPlan ==
    ASSUME NEW width \in Nat \ {0}, NEW height \in Nat \ {0}, height >= 480,
           NEW k \in 0..3,
           \A i \in 1..4 : RenditionLadder[i] <= height <=> i > k
    PROVE  IsPlan(SuffixPlan(width, height, k), width, height)
<1> DEFINE p == SuffixPlan(width, height, k)
           fitting == {t \in Rungs : t <= height}
           labels == {p[i].label : i \in DOMAIN p}
<1>1. /\ DOMAIN p = 1..(4 - k)
      /\ \A i \in 1..(4 - k) : p[i] = Rung(width, height, RenditionLadder[k + i])
  BY DEF SuffixPlan, RungOf
<1>2. /\ \A i \in 1..4 : RenditionLadder[i] \in Targets
      /\ \A i, j \in 1..4 : i < j => RenditionLadder[i] > RenditionLadder[j]
      /\ DOMAIN RenditionLadder = 1..4
  BY SMT DEF RenditionLadder, Targets
<1>3. ASSUME NEW i \in 1..(4 - k)
      PROVE  /\ k + i \in 1..4
             /\ RenditionLadder[k + i] <= height
             /\ RenditionLadder[k + i] \in Targets
  BY <1>2, SMT
<1> HIDE DEF p
<1>4. ASSUME NEW i \in 1..(4 - k)
      PROVE  /\ p[i].label = RenditionLadder[k + i]
             /\ p[i].height = RenditionLadder[k + i]
             /\ p[i].width \in Nat
             /\ YuvSize(p[i].width) /\ YuvSize(p[i].height)
             /\ width >= 2 => p[i].width <= width
             /\ p[i].width > 2 => SameAspect(p[i], width, height)
  BY <1>1, <1>3, RungFacts
<1>5. labels = fitting
  <2>1. ASSUME NEW t \in labels PROVE t \in fitting
    <3>1. PICK i \in 1..(4 - k) : t = p[i].label
      BY <1>1, <2>1
    <3> QED BY <1>2, <1>3, <1>4, <3>1 DEF Rungs
  <2>2. ASSUME NEW t \in fitting PROVE t \in labels
    <3>1. PICK j \in 1..4 : t = RenditionLadder[j] /\ RenditionLadder[j] <= height
      BY <1>2, <2>2 DEF Rungs
    <3>2. j > k
      BY <3>1
    <3>3. j - k \in 1..(4 - k) /\ k + (j - k) = j
      BY <3>2, SMT
    <3> QED BY <1>1, <1>4, <3>1, <3>3
  <2> QED BY <2>1, <2>2
<1>6. fitting # {}
  <2>1. 1 \in DOMAIN p
    BY <1>1, SMT
  <2> QED BY <1>5, <2>1
<1>7. \A i, j \in DOMAIN p : i < j => p[i].height > p[j].height
  <2>1. SUFFICES ASSUME NEW i \in 1..(4 - k), NEW j \in 1..(4 - k), i < j
                 PROVE  p[i].height > p[j].height
    BY <1>1
  <2>2. k + i \in 1..4 /\ k + j \in 1..4 /\ k + i < k + j
    BY <2>1, SMT
  <2> QED BY <1>2, <1>4, <2>2
<1>8. \A i \in DOMAIN p : height >= 2 => p[i].height <= height
  BY <1>1, <1>3, <1>4
<1>9. \A i \in DOMAIN p : p[i].height = p[i].label
  BY <1>1, <1>4
<1>10. \A i \in DOMAIN p :
         /\ YuvSize(p[i].width) /\ YuvSize(p[i].height)
         /\ width >= 2 => p[i].width <= width
         /\ p[i].width > 2 => SameAspect(p[i], width, height)
  BY <1>1, <1>4
<1> HIDE DEF fitting, labels
<1>11. /\ labels = IF fitting = {} THEN {480} ELSE fitting
       /\ \A i, j \in DOMAIN p : i < j => p[i].height > p[j].height
       /\ \A i \in DOMAIN p :
               /\ YuvSize(p[i].width) /\ YuvSize(p[i].height)
               /\ width >= 2 => p[i].width <= width
               /\ height >= 2 => p[i].height <= height
               /\ fitting # {} => p[i].height = p[i].label
               /\ fitting # {} /\ p[i].width > 2
                      => SameAspect(p[i], width, height)
  BY <1>5, <1>6, <1>7, <1>8, <1>9, <1>10
<1> QED BY <1>11 DEF IsPlan, p, fitting, labels

(* Below the ladder the source keeps its own size.                         *)
LEMMA SmallIsPlan ==
    ASSUME NEW width \in Nat \ {0}, NEW height \in Nat \ {0}, height < 480
    PROVE  /\ IsPlan(PlanRenditions(width, height), width, height)
           /\ Len(PlanRenditions(width, height)) = 1
<1> DEFINE e == [label |-> 480, width |-> ToEven(width, 1),
                 height |-> ToEven(height, 1)]
           p == PlanRenditions(width, height)
<1>1. LadderPlan(width, height) = <<>>
  BY LadderShape, SMT
<1>2. p = <<e>>
  BY <1>1 DEF PlanRenditions, RenditionLadder
<1>3. {t \in Rungs : t <= height} = {}
  BY SMT DEF Rungs, RenditionLadder
<1>4. /\ ToEven(width, 1) \in Nat /\ ToEven(height, 1) \in Nat
      /\ YuvSize(ToEven(width, 1)) /\ YuvSize(ToEven(height, 1))
  <2>1. 1 \in Nat \ {0} /\ width \in Nat /\ height \in Nat
    BY SMT
  <2>2. \A n \in Nat : ToEven(n, 1) \in Nat /\ YuvSize(ToEven(n, 1))
    BY <2>1, ToEvenFacts
  <2> QED BY <2>1, <2>2
<1>5. /\ width >= 2 => ToEven(width, 1) <= width
      /\ height >= 2 => ToEven(height, 1) <= height
  <2>1. width <= 1 * width /\ height <= 1 * height
    BY SMT
  <2> QED BY <2>1, ToEvenBound
<1>6. /\ DOMAIN p = {1} /\ p[1] = e /\ Len(p) = 1
  BY <1>2
<1> HIDE DEF p
<1>7. /\ e.label = 480 /\ e.width = ToEven(width, 1)
      /\ e.height = ToEven(height, 1)
  OBVIOUS
<1> HIDE DEF e
<1>8. {p[i].label : i \in DOMAIN p} = {480}
  BY <1>6, <1>7
<1>9. \A i, j \in DOMAIN p : ~(i < j)
  BY <1>6, SMT
<1> QED BY <1>3, <1>4, <1>5, <1>6, <1>7, <1>8, <1>9 DEF IsPlan, p

(* For every source size planRenditions plans exactly the rungs that are   *)
(* not taller than the source, largest first, in sizes ffmpeg can encode,  *)
(* none larger than the source and all of its aspect.                      *)
THEOREM PlanIsDocumented ==
    \A width, height \in Nat \ {0} :
        IsPlan(PlanRenditions(width, height), width, height)
<1>1. SUFFICES ASSUME NEW width \in Nat \ {0}, NEW height \in Nat \ {0}
               PROVE  IsPlan(PlanRenditions(width, height), width, height)
  OBVIOUS
<1>2. CASE height >= 480
  BY <1>2, PlanIsSuffix, SuffixIsPlan
<1>3. CASE height < 480
  BY <1>3, SmallIsPlan
<1> QED BY <1>2, <1>3, SMT

(* There is always something to play, and never more than the ladder has:  *)
(* what PlanAssumption says of the constant Plan.                          *)
THEOREM PlanNeverEmpty ==
    \A width, height \in Nat \ {0} :
        Len(PlanRenditions(width, height)) \in 1..Len(RenditionLadder)
<1>1. SUFFICES ASSUME NEW width \in Nat \ {0}, NEW height \in Nat \ {0}
               PROVE  Len(PlanRenditions(width, height)) \in 1..4
  BY DEF RenditionLadder
<1>2. CASE height >= 480
  <2>1. PICK k \in 0..3 :
            PlanRenditions(width, height) = SuffixPlan(width, height, k)
    BY <1>2, PlanIsSuffix
  <2>2. Len(SuffixPlan(width, height, k)) = 4 - k
    BY SMT DEF SuffixPlan
  <2> QED BY <2>1, <2>2, SMT
<1>3. CASE height < 480
  BY <1>3, SmallIsPlan
<1> QED BY <1>2, <1>3, SMT
=============================================================================
