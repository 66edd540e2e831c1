----------------------------- MODULE Egun_proofs -----------------------------
(***************************************************************************)
(* The energy that the gun is sent, the deflections and the focus that are *)
(* sent after it, and the types of it all, for every table.                *)
(***************************************************************************)
EXTENDS Egun, WellFoundedInduction, TLAPS

-----------------------------------------------------------------------------
(* Arithmetic.                                                             *)

LEMMA FloorBounds ==
  ASSUME NEW n \in Int, NEW d \in Nat \ {0}
  PROVE  /\ n \div d \in Int /\ n % d \in Int
         /\ n = d * (n \div d) + (n % d) /\ 0 <= n % d /\ n % d < d
OBVIOUS

LEMMA Monotone ==
  ASSUME NEW a \in Int, NEW b \in Int, NEW d \in Nat, a <= b
  PROVE  d * a <= d * b
OBVIOUS

\* Between y1 and y2 on the way from x1 to x2, taken off and cut off.
LEMMA CutOff ==
  ASSUME NEW w \in Int, NEW n \in Int, NEW d \in Nat \ {0}, NEW s \in Nat,
         -(d * s) <= n, n <= 0
  PROVE  LET v == Trunc([whole |-> w, num |-> n, den |-> d])
         IN v \in Int /\ w - s <= v /\ v <= w
<1> DEFINE q == n \div d
           r == n % d
<1>1. q \in Int /\ r \in Int /\ n = d * q + r /\ 0 <= r /\ r < d
  BY FloorBounds
<1>2. Trunc([whole |-> w, num |-> n, den |-> d])
        = IF w + q < 0 /\ r # 0 THEN w + q + 1 ELSE w + q
  BY DEF Trunc
<1>3. -s <= q
  <2> SUFFICES ASSUME q <= -s - 1 PROVE FALSE
    BY <1>1
  <2>1. d * q <= d * (-s - 1)
    BY <1>1, Monotone
  <2>2. d * (-s - 1) = -(d * s) - d
    OBVIOUS
  <2>3. d * q \in Int /\ d * s \in Int
    BY <1>1
  <2> QED BY <1>1, <2>1, <2>2, <2>3
<1>4. q <= 0 /\ (r # 0 => q <= -1)
  <2>1. ASSUME 1 <= q PROVE FALSE
    <3>1. d * 1 <= d * q
      BY <1>1, <2>1, Monotone
    <3> QED BY <1>1, <3>1
  <2>2. ASSUME q = 0, r # 0 PROVE FALSE
    BY <1>1, <2>2
  <2> QED BY <1>1, <2>1, <2>2
<1> HIDE DEF q, r
<1> QED BY <1>1, <1>2, <1>3, <1>4

-----------------------------------------------------------------------------
(* The search in the table.                                                *)

LEMMA Lowest ==
  ASSUME NEW S \in SUBSET Nat, S # {}
  PROVE  LowestOf(S) \in S /\ \A j \in S : LowestOf(S) <= j
<1>1. PICK x \in S : \A y \in S : ~(<<y, x>> \in OpToRel(<, Nat))
  BY WFMin, NatLessThanWellFounded
<1>2. \A y \in S : <<y, x>> \in OpToRel(<, Nat) <=> y < x
  BY DEF OpToRel
<1>3. \A y \in S : x <= y
  <2>1. \A y \in S : ~(y < x) /\ y \in Nat /\ x \in Nat
    BY <1>1, <1>2
  <2> QED BY <2>1
<1> QED BY <1>3 DEF LowestOf

LEMMA RowTypes ==
  ASSUME NEW i \in 1 .. Len(Table)
  PROVE  Table[i].energy \in Int /\ Table[i].shift \in Int
<1>1. Table[i] \in Row
  BY TableAssumption
<1> QED BY <1>1 DEF Row

\* An energy that is not outside of the table lies between two rows of it.
LEMMA Interval ==
  ASSUME NEW e \in Int, ~EnergyOutside(e)
  PROVE  LET i == LowestOf(Above(e))
         IN /\ i \in 2 .. Len(Table)
            /\ Table[i - 1].energy <= e /\ e <= Table[i].energy
<1> DEFINE i == LowestOf(Above(e))
<1>1. Len(Table) \in Nat
  BY TableAssumption
<1>2. Above(e) \in SUBSET Nat /\ Above(e) # {} /\ i # 1
  <2>1. Above(e) # {} /\ i # 1
    BY DEF EnergyOutside
  <2> QED BY <1>1, <2>1 DEF Above
<1>3. i \in Above(e) /\ \A j \in Above(e) : i <= j
  BY <1>2, Lowest
<1>4. /\ i \in 1 .. Len(Table)
      /\ e < Table[i].energy \/ e = Table[i].energy
  BY <1>3 DEF Above
<1>5. i \in 2 .. Len(Table) /\ i - 1 \in 1 .. Len(Table)
  BY <1>1, <1>2, <1>4
<1>6. i - 1 \notin Above(e)
  BY <1>3, <1>5
<1>7. ~(e < Table[i - 1].energy)
  BY <1>5, <1>6 DEF Above
<1> HIDE DEF i
<1>8. Table[i].energy \in Int /\ Table[i - 1].energy \in Int
  BY <1>5, RowTypes
<1> QED BY <1>4, <1>5, <1>7, <1>8 DEF i

\* The systematic error grows with the energy.
ErrorGrows == \A i \in 1 .. Len(Table) - 1 : Table[i].shift <= Table[i + 1].shift

\* A corrected energy e, cut off as SendEnergy does.
Within(v, e) ==
  \E i \in 1 .. Len(Table) - 1 :
    /\ Table[i].energy <= e /\ e <= Table[i + 1].energy
    /\ e - Table[i + 1].shift - 1 <= v /\ v <= e - Table[i].shift

LEMMA Correction ==
  ASSUME ErrorGrows, NEW e \in Int, ~EnergyOutside(e)
  PROVE  Within(Trunc(CorrectedEnergy(e)), e)
<1> DEFINE i == LowestOf(Above(e))
           x1 == Table[i - 1].energy
           x2 == Table[i].energy
           y1 == Table[i - 1].shift
           y2 == Table[i].shift
           n == -((y2 - y1) * (e - x1))
           d == x2 - x1
<1>1. i \in 2 .. Len(Table) /\ x1 <= e /\ e <= x2
  BY Interval
<1>2. i \in Int /\ i - 1 \in 1 .. Len(Table) - 1 /\ (i - 1) + 1 = i
  BY <1>1, TableAssumption
<1>3. x1 \in Int /\ x2 \in Int /\ y1 \in Int /\ y2 \in Int
  BY <1>1, <1>2, RowTypes, TableAssumption
<1>4. x1 < x2 /\ y1 <= y2
  BY <1>2, TableAssumption DEF ErrorGrows
<1>5. CorrectedEnergy(e) =
        [whole |-> e - y1, num |-> -((y2 - y1) * ((e - x1) * 1 + 0)), den |-> (x2 - x1) * 1]
  BY DEF CorrectedEnergy, Interpolated, linearfit, Whole
<1> HIDE DEF i, x1, x2, y1, y2
<1>6. CorrectedEnergy(e) = [whole |-> e - y1, num |-> n, den |-> d]
  BY <1>3, <1>5
<1>7. d \in Nat \ {0} /\ y2 - y1 \in Nat /\ e - y1 \in Int /\ e - x1 \in Nat /\ e - x1 <= d
  BY <1>1, <1>3, <1>4
<1>8. n \in Int /\ -(d * (y2 - y1)) <= n /\ n <= 0
  <2>1. (y2 - y1) * (e - x1) <= (y2 - y1) * d /\ (y2 - y1) * 0 <= (y2 - y1) * (e - x1)
    BY <1>7, Monotone
  <2>2. (y2 - y1) * d = d * (y2 - y1) /\ (y2 - y1) * 0 = 0
    BY <1>7
  <2> QED BY <1>7, <2>1, <2>2
<1>9. LET v == Trunc(CorrectedEnergy(e))
      IN v \in Int /\ (e - y1) - (y2 - y1) <= v /\ v <= e - y1
  <2> HIDE DEF n, d
  <2> QED BY <1>6, <1>7, <1>8, CutOff
<1>10. LET v == Trunc(CorrectedEnergy(e)) IN e - y2 - 1 <= v /\ v <= e - y1
  BY <1>3, <1>9
<1>11. x1 = Table[i - 1].energy /\ x2 = Table[i].energy /\ y1 = Table[i - 1].shift /\ y2 = Table[i].shift
  BY DEF x1, x2, y1, y2
<1> QED BY <1>1, <1>2, <1>10, <1>11 DEF Within

-----------------------------------------------------------------------------
(* The console.                                                            *)

EnergyInv ==
  /\ queue \in Seq(Commands) /\ DOMAIN dev = Controls
  /\ mode = "cmd" /\ pc \notin {"prompt", "end"} => queue # <<>>
  /\ pc = "send" /\ cmd.kind = "energy" =>
       /\ cmd.value \in Int /\ ~EnergyOutside(cmd.value)
       /\ eval = CorrectedEnergy(cmd.value)
  /\ ErrorGrows /\ loaded # 0 => Within(dev[Energy], loaded)

LEMMA EnergyInit == Init => EnergyInv
<1> SUFFICES ASSUME Init PROVE EnergyInv
  OBVIOUS
<1>1. PICK n \in 1 .. MaxCommands : queue \in [1 .. n -> Commands]
  BY DEF Init, Lists
<1>2. queue \in Seq(Commands)
  BY <1>1, CommandAssumption
<1> QED BY <1>2 DEF Init, EnergyInv

LEMMA EnergyNext == EnergyInv /\ [Next]_vars => EnergyInv'
<1> SUFFICES ASSUME EnergyInv, [Next]_vars PROVE EnergyInv'
  OBVIOUS
<1> USE DEF EnergyInv
<1>1. queue # <<>> => Head(queue) \in Commands /\ Tail(queue) \in Seq(Commands)
  OBVIOUS
<1>2. CASE BatchDone \/ Quit \/ Kill
  BY <1>2 DEF BatchDone, Quit, Kill, End, NoExchange
<1>3. CASE Empty
  <2>1. queue' \in Seq(Commands) /\ pc = "prompt"
    BY <1>1, <1>3 DEF Empty, Fetched
  <2> QED BY <1>3, <2>1 DEF Empty, NoExchange
<1>4. CASE Unreadable
  <2>1. queue' \in Seq(Commands)
    BY <1>1, <1>4 DEF Unreadable, Fetched
  <2> QED BY <1>4, <2>1 DEF Unreadable, End, NoExchange
<1>5. CASE FetchEnergy
  <2>1. /\ queue' \in Seq(Commands) /\ cmd' \in Commands /\ cmd'.kind = "energy"
        /\ UNCHANGED <<dev, loaded>>
    BY <1>1, <1>5 DEF FetchEnergy, Fetched, NoExchange
  <2>2. cmd'.value \in Int
    BY <2>1, CommandAssumption
  <2>3. pc' = "send" => ~EnergyOutside(cmd'.value) /\ eval' = CorrectedEnergy(cmd'.value)
    BY <1>5 DEF FetchEnergy, End
  <2>4. mode' = "cmd" => queue' # <<>>
    BY <1>5 DEF FetchEnergy, Fetched, NoExchange
  <2> QED BY <2>1, <2>2, <2>3, <2>4
<1>6. CASE FetchOther
  <2>1. queue' \in Seq(Commands) /\ cmd'.kind # "energy" /\ UNCHANGED <<dev, loaded>>
    BY <1>1, <1>6 DEF FetchOther, Fetched, NoExchange
  <2>2. mode' = "cmd" => queue' # <<>>
    BY <1>6 DEF FetchOther, Fetched, NoExchange
  <2> QED BY <2>1, <2>2
<1>7. CASE SendEnergy
  <2>1. pc' # "send" /\ UNCHANGED <<mode, queue>> /\ pc = "send"
    BY <1>7 DEF SendEnergy, AfterEnergy, End
  <2>2. CASE Accepted(Energy, Trunc(eval)) /\ loaded' = cmd.value
    <3>1. ErrorGrows => Within(Trunc(eval), loaded')
      BY <1>7, <2>2, Correction DEF SendEnergy
    <3>2. dev'[Energy] = Trunc(eval) /\ DOMAIN dev' = Controls
      BY <2>2 DEF Accepted, Energy, Controls
    <3> QED BY <2>1, <3>1, <3>2
  <2>3. CASE UNCHANGED dev /\ loaded' = 0
    BY <2>1, <2>3
  <2> QED BY <1>7, <2>2, <2>3 DEF SendEnergy, Denied
<1>8. CASE SendSet
  <2>1. pc = "send" /\ pc' = "parse" /\ UNCHANGED <<mode, queue>>
    BY <1>8 DEF SendSet
  <2>2. DOMAIN dev' = Controls /\ (loaded' = 0 \/ UNCHANGED <<dev, loaded>>)
    BY <1>8 DEF SendSet, Accepted, Denied
  <2> QED BY <2>1, <2>2
<1>9. CASE SendGet
  BY <1>9 DEF SendGet
\* A setting from the table is not the energy.
<1>10. ASSUME NEW c \in {Xdefl, Ydefl, Focus}, NEW step, NEW next, NEW f, Load(step, next, c, f),
              step \notin {"prompt", "end"}, next # "send"
       PROVE  EnergyInv'
  <2>1. pc \notin {"prompt", "end"} /\ pc' # "send" /\ UNCHANGED <<mode, queue>>
    BY <1>10 DEF Load
  <2>2. DOMAIN dev' = Controls /\ (loaded' = 0 \/ loaded' = loaded)
    BY <1>10 DEF Load, Accepted, Denied
  <2>3. dev'[Energy] = dev[Energy]
    BY <1>10 DEF Load, Accepted, Denied, Xdefl, Ydefl, Focus, Energy, Controls
  <2> QED BY <2>1, <2>2, <2>3
<1>11. CASE LoadXdefl \/ LoadYdefl \/ LoadFocus
  BY <1>10, <1>11 DEF LoadXdefl, LoadYdefl, LoadFocus
<1>12. CASE Parse
  <2>1. pc' # "send" /\ UNCHANGED <<dev, loaded>>
    BY <1>12 DEF Parse, End, NoExchange
  <2>2. queue' \in Seq(Commands)
    <3>1. queue' = queue \/ (queue # <<>> /\ queue' = Tail(queue))
      BY <1>12 DEF Parse, Remaining
    <3> QED BY <1>1, <3>1
  <2>3. mode' = "cmd" => pc' \in {"prompt", "end"}
    <3>1. CASE mode = "cmd" /\ Remaining = <<>>
      BY <1>12, <3>1 DEF Parse, End
    <3>2. CASE ~(mode = "cmd" /\ Remaining = <<>>)
      BY <1>12, <3>2 DEF Parse, End
    <3> QED BY <3>1, <3>2
  <2> QED BY <2>1, <2>2, <2>3
<1>13. CASE UNCHANGED vars
  BY <1>13 DEF vars
<1> QED BY <1>2, <1>3, <1>4, <1>5, <1>6, <1>7, <1>8, <1>9, <1>11, <1>12, <1>13 DEF Next, Main

\* For every table whose systematic error grows with the energy, and whatever
\* the gun refuses, the energy in force is the one asked for less an error
\* between those of the two rows around it (egun_cli.cpp:337-345).
THEOREM EnergyCorrectedInvariant ==
  ASSUME ErrorGrows
  PROVE  Spec => []EnergyCorrected
<1>1. EnergyInv => EnergyCorrected
  BY DEF EnergyInv, Within, EnergyCorrected
<1> QED BY <1>1, EnergyInit, EnergyNext, PTL DEF Spec

-----------------------------------------------------------------------------
(* The deflections and the focus.                                          *)

\* Energies and errors are positive, as those of defaultparams are.
PositiveTable ==
  \A i \in 1 .. Len(Table) : Table[i].energy \in Nat /\ Table[i].shift > 0

\* A number above 0, and one below n.
Number(x) == x = [whole |-> x.whole, num |-> x.num, den |-> x.den]
             /\ x.whole \in Int /\ x.num \in Int /\ x.den \in Nat \ {0}
Below(x, n) == (x.whole - n) * x.den + x.num < 0

LEMMA ColumnTypes ==
  ASSUME NEW i \in 1 .. Len(Table), NEW f \in {"xdefl", "ydefl", "focus"}
  PROVE  Table[i][f] \in Int
<1>1. Table[i] \in Row
  BY TableAssumption
<1> QED BY <1>1 DEF Row

LEMMA Rising ==
  ASSUME NEW i \in 1 .. Len(Table) - 1
  PROVE  /\ i \in 1 .. Len(Table) /\ i + 1 \in 1 .. Len(Table)
         /\ Table[i].energy \in Int /\ Table[i + 1].energy \in Int
         /\ Table[i].energy < Table[i + 1].energy
<1>1. i \in 1 .. Len(Table) /\ i + 1 \in 1 .. Len(Table)
  BY TableAssumption
<1> QED BY <1>1, RowTypes, TableAssumption

LEMMA Divided ==
  ASSUME NEW a \in Int, NEW b \in Int, NEW d \in Nat \ {0}, d * a <= d * b
  PROVE  a <= b
<1> SUFFICES ASSUME b + 1 <= a PROVE FALSE
  OBVIOUS
<1>1. d * (b + 1) <= d * a
  BY Monotone
<1>2. d * (b + 1) = d * b + d /\ d * b \in Int /\ d * a \in Int
  OBVIOUS
<1> QED BY <1>1, <1>2

\* What is cut off is less than one.
LEMMA Truncated ==
  ASSUME NEW w \in Int, NEW n \in Int, NEW d \in Nat \ {0}
  PROVE  LET v == Trunc([whole |-> w, num |-> n, den |-> d])
         IN v \in Int /\ -d <= d * (v - w) - n /\ d * (v - w) - n <= d
<1> DEFINE q == n \div d
           r == n % d
           v == Trunc([whole |-> w, num |-> n, den |-> d])
<1>1. q \in Int /\ r \in Int /\ n = d * q + r /\ 0 <= r /\ r < d
  BY FloorBounds
<1>2. v = IF w + q < 0 /\ r # 0 THEN w + q + 1 ELSE w + q
  BY DEF Trunc
<1> HIDE DEF q, r, v
<1>3. CASE v = w + q
  <2>1. v - w = q /\ v \in Int
    BY <1>1, <1>3
  <2>2. d * (v - w) = d * q /\ d * q \in Int
    BY <1>1, <2>1
  <2> QED BY <1>1, <2>1, <2>2 DEF v
<1>4. CASE v = w + q + 1
  <2>1. v - w = q + 1 /\ v \in Int
    BY <1>1, <1>4
  <2>2. d * (q + 1) = d * q + d /\ d * q \in Int
    BY <1>1
  <2> QED BY <1>1, <2>1, <2>2 DEF v
<1> QED BY <1>2, <1>3, <1>4

\* A positive number keeps its place among the rows when it is cut off.
LEMMA CutInRow ==
  ASSUME NEW x, Number(x), NEW lo \in Nat, NEW hi \in Int, ~Below(x, lo), Below(x, hi)
  PROVE  LET m == x.num \div x.den
         IN /\ Trunc(x) = x.whole + m /\ Trunc(x) \in Int
            /\ lo <= Trunc(x) /\ Trunc(x) < hi
<1> DEFINE w == x.whole
           n == x.num
           d == x.den
           m == n \div d
           r == n % d
<1>1. w \in Int /\ n \in Int /\ d \in Nat \ {0}
  BY DEF Number
<1>2. m \in Int /\ r \in Int /\ n = d * m + r /\ 0 <= r /\ r < d
  BY <1>1, FloorBounds
<1>3. Trunc(x) = IF w + m < 0 /\ r # 0 THEN w + m + 1 ELSE w + m
  BY DEF Trunc
<1>4. 0 <= (w - lo) * d + n /\ (w - hi) * d + n < 0
  <2>1. (w - lo) * d + n \in Int
    BY <1>1
  <2> QED BY <1>1, <2>1 DEF Below
<1> HIDE DEF w, n, d, m, r
<1>5. \A k \in Int : (w - k) * d = d * (w - k) /\ d * (w - k) + d * m = d * (w - k + m)
  BY <1>1, <1>2
<1>6. lo <= w + m
  <2> SUFFICES ASSUME w - lo + m <= -1 PROVE FALSE
    BY <1>1, <1>2
  <2>1. d * (w - lo + m) <= d * (-1)
    BY <1>1, <1>2, Monotone
  <2>2. d * (w - lo + m) \in Int /\ d * (w - lo) \in Int /\ d * m \in Int /\ d * (-1) = -d
    BY <1>1, <1>2
  <2>3. (w - lo) * d = d * (w - lo) /\ d * (w - lo) + d * m = d * (w - lo + m)
    BY <1>5
  <2> QED BY <1>1, <1>2, <1>4, <2>1, <2>2, <2>3
<1>7. w + m < hi
  <2> SUFFICES ASSUME 0 <= w - hi + m PROVE FALSE
    BY <1>1, <1>2
  <2>1. d * 0 <= d * (w - hi + m)
    BY <1>1, <1>2, Monotone
  <2>2. d * (w - hi + m) \in Int /\ d * (w - hi) \in Int /\ d * m \in Int /\ d * 0 = 0
    BY <1>1, <1>2
  <2>3. (w - hi) * d = d * (w - hi) /\ d * (w - hi) + d * m = d * (w - hi + m)
    BY <1>5
  <2> QED BY <1>1, <1>2, <1>4, <2>1, <2>2, <2>3
<1>8. Trunc(x) = w + m
  BY <1>1, <1>2, <1>3, <1>6
<1> QED BY <1>1, <1>2, <1>6, <1>7, <1>8 DEF w, n, d, m

\* OnLine for the energy e.
Near(i, f, v, e) ==
  LET x1 == Table[i].energy
      dx == Table[i + 1].energy - x1
      dy == Table[i + 1][f] - Table[i][f]
      error == (v - Table[i][f]) * dx - dy * (e - x1)
      slack == dx + (IF dy < 0 THEN -dy ELSE dy)
  IN -slack <= error /\ error <= slack

LEMMA ProductBound ==
  ASSUME NEW a \in Int, NEW k \in Nat, NEW d \in Nat, k <= d
  PROVE  LET abs == IF a < 0 THEN -a ELSE a
         IN a * k \in Int /\ d * abs \in Int /\ -(d * abs) <= a * k /\ a * k <= d * abs
<1>1. CASE a < 0
  <2>1. (-a) * k <= (-a) * d /\ (-a) * 0 <= (-a) * k
    BY <1>1, Monotone
  <2>2. /\ (-a) * k = -(a * k) /\ (-a) * d = d * (-a) /\ (-a) * 0 = 0
        /\ a * k \in Int /\ d * (-a) \in Int
    OBVIOUS
  <2> QED BY <1>1, <2>1, <2>2
<1>2. CASE 0 <= a
  <2>1. a * k <= a * d /\ a * 0 <= a * k
    BY <1>2, Monotone
  <2>2. a * d = d * a /\ a * 0 = 0 /\ a * k \in Int /\ d * a \in Int
    OBVIOUS
  <2> QED BY <1>2, <2>1, <2>2
<1> QED BY <1>1, <1>2

\* The algebra of an interpolation: p / d is how far the energy is from x1,
\* and e is p / d without its fraction k / d.
LEMMA Interpolation ==
  ASSUME NEW d \in Nat \ {0}, NEW dx \in Nat \ {0}, NEW dy \in Int, NEW u \in Int,
         NEW e \in Int, NEW k \in Nat, k < d,
         NEW N \in Int, N = dy * (d * e + k),
         -(dx * d) <= (dx * d) * u - N, (dx * d) * u - N <= dx * d
  PROVE  LET error == u * dx - dy * e
             slack == dx + (IF dy < 0 THEN -dy ELSE dy)
         IN -slack <= error /\ error <= slack
<1> DEFINE error == u * dx - dy * e
           abs == IF dy < 0 THEN -dy ELSE dy
           slack == dx + abs
<1>1. dy * k \in Int /\ d * abs \in Int /\ -(d * abs) <= dy * k /\ dy * k <= d * abs
  BY ProductBound
<1>2. error \in Int /\ abs \in Int /\ slack \in Int
  <2>1. u * dx \in Int /\ dy * e \in Int
    OBVIOUS
  <2> QED BY <2>1
<1>3. N = d * (dy * e) + dy * k /\ (dx * d) * u = d * (u * dx)
  OBVIOUS
<1>4. d * error = d * (u * dx) - d * (dy * e)
  OBVIOUS
<1>5. d * slack = dx * d + d * abs /\ d * (-slack) = -(d * slack)
  BY <1>2
<1> HIDE DEF error, abs, slack
<1>6. /\ d * error \in Int /\ d * (u * dx) \in Int /\ d * (dy * e) \in Int /\ dx * d \in Int
      /\ d * slack \in Int
  <2>1. u * dx \in Int /\ dy * e \in Int
    OBVIOUS
  <2> QED BY <1>2, <2>1
<1>7. d * (-slack) <= d * error /\ d * error <= d * slack
  BY <1>1, <1>3, <1>4, <1>5, <1>6
<1>8. -slack <= error /\ error <= slack
  <2>1. -slack \in Int
    BY <1>2
  <2> QED BY <1>2, <1>7, <2>1, Divided
<1> QED BY <1>8 DEF error, abs, slack

\* Between the rows before i and i.
InRow(x, i) ==
  /\ Number(x) /\ i \in 2 .. Len(Table)
  /\ ~Below(x, Table[i - 1].energy) /\ Below(x, Table[i].energy)

LEMMA Fits ==
  ASSUME PositiveTable, NEW x, NEW i, InRow(x, i), NEW f \in {"xdefl", "ydefl", "focus"}
  PROVE  Near(i - 1, f, Trunc(Interpolated(i, f, x)), Trunc(x))
<1> DEFINE x1 == Table[i - 1].energy
           dx == Table[i].energy - x1
           y1 == Table[i - 1][f]
           dy == Table[i][f] - y1
           w == x.whole
           n == x.num
           d == x.den
           m == n \div d
           k == n % d
           p == (w - x1) * d + n
           v == Trunc(Interpolated(i, f, x))
<1>1. i \in 2 .. Len(Table) /\ i - 1 \in 1 .. Len(Table) - 1 /\ (i - 1) + 1 = i
  BY TableAssumption DEF InRow
<1>2. x1 \in Nat /\ dx \in Nat \ {0} /\ y1 \in Int /\ dy \in Int
  <2>1. i - 1 \in 1 .. Len(Table) /\ i \in 1 .. Len(Table)
    BY <1>1, TableAssumption
  <2>2. y1 \in Int /\ Table[i][f] \in Int
    BY <2>1, ColumnTypes
  <2>3. x1 \in Nat /\ Table[i].energy \in Nat
    BY <2>1 DEF PositiveTable
  <2>4. x1 < Table[i].energy
    BY <1>1, TableAssumption
  <2> QED BY <2>2, <2>3, <2>4
<1>3. w \in Int /\ n \in Int /\ d \in Nat \ {0}
  BY DEF InRow, Number
<1>4. m \in Int /\ k \in Int /\ n = d * m + k /\ 0 <= k /\ k < d
  BY <1>3, FloorBounds
<1>5. Trunc(x) = w + m
  <2>1. i \in 1 .. Len(Table)
    BY <1>1, TableAssumption
  <2>2. Table[i].energy \in Int
    BY <2>1, RowTypes
  <2> QED BY <1>2, <2>2, CutInRow DEF InRow
<1>6. Interpolated(i, f, x) = [whole |-> y1, num |-> dy * p, den |-> dx * d]
  BY DEF Interpolated, linearfit
<1> HIDE DEF x1, dx, y1, dy, w, n, d, m, k
<1>7. p = d * ((w + m) - x1) + k /\ p \in Int
  BY <1>2, <1>3, <1>4
<1>8. dy * p \in Int /\ dx * d \in Nat \ {0}
  <2>1. dy * p \in Int
    BY <1>2, <1>7
  <2>2. dx * 1 <= dx * d
    BY <1>2, <1>3, Monotone
  <2>3. dx * d \in Int /\ dx * 1 = dx
    BY <1>2, <1>3
  <2> QED BY <1>2, <2>1, <2>2, <2>3
<1>9. v \in Int /\ -(dx * d) <= (dx * d) * (v - y1) - dy * p /\ (dx * d) * (v - y1) - dy * p <= dx * d
  <2> HIDE DEF p
  <2> QED BY <1>2, <1>6, <1>8, Truncated
<1> HIDE DEF p, v
<1>10. LET error == (v - y1) * dx - dy * ((w + m) - x1)
           slack == dx + (IF dy < 0 THEN -dy ELSE dy)
       IN -slack <= error /\ error <= slack
  BY <1>2, <1>3, <1>4, <1>7, <1>8, <1>9, Interpolation
<1>11. /\ Table[i - 1].energy = x1 /\ Table[(i - 1) + 1].energy - x1 = dx
       /\ Table[i - 1][f] = y1 /\ Table[(i - 1) + 1][f] - y1 = dy
  BY <1>1 DEF x1, dx, y1, dy
<1>12. Near(i - 1, f, v, w + m)
  BY <1>10, <1>11 DEF Near
<1> QED BY <1>5, <1>12 DEF v

-----------------------------------------------------------------------------
(* The energy that is looked up.                                           *)

\* A corrected energy is below the end of the table.
LEMMA CorrectedIsBelow ==
  ASSUME PositiveTable, NEW e \in Int, ~EnergyOutside(e)
  PROVE  Number(CorrectedEnergy(e)) /\ AboveCorrected(CorrectedEnergy(e)) # {}
<1> DEFINE i == LowestOf(Above(e))
           x1 == Table[i - 1].energy
           x2 == Table[i].energy
           y1 == Table[i - 1].shift
           y2 == Table[i].shift
           t == e - x1
           d == x2 - x1
           n == -((y2 - y1) * t)
           x == CorrectedEnergy(e)
<1>1. i \in 2 .. Len(Table) /\ x1 <= e /\ e <= x2
  BY Interval
<1>2. i - 1 \in 1 .. Len(Table) - 1 /\ (i - 1) + 1 = i /\ i - 1 \in 1 .. Len(Table)
      /\ i \in 1 .. Len(Table)
  BY <1>1, TableAssumption
<1>3. x1 \in Int /\ x2 \in Int /\ y1 \in Int /\ y2 \in Int /\ 0 < y1 /\ 0 < y2 /\ x1 < x2
  BY <1>2, RowTypes, TableAssumption DEF PositiveTable
<1>4. x = [whole |-> e - y1, num |-> -((y2 - y1) * ((e - x1) * 1 + 0)), den |-> (x2 - x1) * 1]
  BY DEF CorrectedEnergy, Interpolated, linearfit, Whole
<1> HIDE DEF i, x1, x2, y1, y2, x
<1>5. x = [whole |-> e - y1, num |-> n, den |-> d]
  BY <1>3, <1>4
<1>6. t \in Nat /\ d \in Nat \ {0} /\ t <= d /\ n \in Int /\ e - x2 <= 0
  <2>1. t \in Nat /\ d \in Nat \ {0} /\ t <= d /\ e - x2 <= 0
    BY <1>1, <1>3
  <2>2. n \in Int
    BY <1>3, <2>1
  <2> QED BY <2>1, <2>2
<1>7. Number(x)
  BY <1>3, <1>5, <1>6 DEF Number
<1>8. (e - y1 - x2) * d + n < 0
  <2>1. (e - y1 - x2) * d = d * (e - x2) - d * y1
    BY <1>3, <1>6
  <2>2. n = t * y1 - t * y2
    BY <1>3, <1>6
  <2> HIDE DEF t, d, n
  <2>3. d * (e - x2) <= d * 0
    BY <1>3, <1>6, Monotone
  <2>4. (d - t) * 1 <= (d - t) * y1 /\ t * 1 <= t * y2
    BY <1>3, <1>6, Monotone
  <2>5. (d - t) * y1 = d * y1 - t * y1 /\ d * y1 \in Int /\ t * y1 \in Int /\ t * y2 \in Int
    BY <1>3, <1>6
  <2>6. d * (e - x2) \in Int /\ d * 0 = 0 /\ (d - t) * 1 = d - t /\ t * 1 = t
    BY <1>3, <1>6
  <2> QED BY <1>6, <2>1, <2>2, <2>3, <2>4, <2>5, <2>6
<1>9. Below(x, Table[i].energy)
  BY <1>5, <1>8 DEF Below, x2
<1>10. i \in AboveCorrected(x)
  BY <1>2, <1>9 DEF AboveCorrected, Below
<1> QED BY <1>7, <1>10 DEF x

\* The row that the second search finds.
LEMMA SearchRow ==
  ASSUME NEW x, Number(x), AboveCorrected(x) # {}, LowestOf(AboveCorrected(x)) # 1
  PROVE  InRow(x, LowestOf(AboveCorrected(x)))
<1> DEFINE S == AboveCorrected(x)
           i == LowestOf(S)
<1>1. S \in SUBSET Nat
  BY TableAssumption DEF AboveCorrected
<1>2. i \in S /\ \A j \in S : i <= j
  BY <1>1, Lowest
<1>3. i \in 1 .. Len(Table) /\ Below(x, Table[i].energy)
  BY <1>2 DEF AboveCorrected, Below
<1>4. i \in 2 .. Len(Table) /\ i - 1 \in 1 .. Len(Table)
  BY <1>3, TableAssumption
<1>5. i - 1 \notin S
  BY <1>2, <1>4
<1>6. ~Below(x, Table[i - 1].energy)
  BY <1>4, <1>5 DEF AboveCorrected, Below
<1> QED BY <1>3, <1>4, <1>6 DEF InRow

-----------------------------------------------------------------------------
(* The settings that follow an energy.                                     *)

\* c has the value that column f has for the energy.
FromTable(c, f) == dev[c] = Trunc(Interpolated(row, f, eval))

FitInv ==
  /\ pc # "end" => status = "running"
  /\ pc = "send" /\ cmd.kind = "energy" => Number(eval) /\ AboveCorrected(eval) # {}
  /\ pc \in {"xdefl", "ydefl", "focus"} => InRow(eval, row)
  /\ pc \in {"xdefl", "ydefl", "focus"} /\ loaded # 0 =>
       /\ dev[Energy] = Trunc(eval)
       /\ pc # "xdefl" => FromTable(Xdefl, "xdefl")
       /\ pc = "focus" => FromTable(Ydefl, "ydefl")
  /\ (pc \in {"prompt", "send", "parse"} \/ status = "done") /\ loaded # 0 => SettingsFit

LEMMA FitOf ==
  ASSUME PositiveTable, InRow(eval, row), dev[Energy] = Trunc(eval),
         FromTable(Xdefl, "xdefl"), FromTable(Ydefl, "ydefl"), FromTable(Focus, "focus")
  PROVE  SettingsFit
<1> DEFINE i == row - 1
<1>1. i \in 1 .. Len(Table) - 1 /\ i + 1 = row /\ i \in 1 .. Len(Table) /\ row \in 1 .. Len(Table)
  BY TableAssumption DEF InRow
<1>2. Table[i].energy \in Nat /\ Table[row].energy \in Int
  BY <1>1, RowTypes DEF PositiveTable
<1>3. Table[i].energy <= dev[Energy] /\ dev[Energy] < Table[i + 1].energy
  BY <1>1, <1>2, CutInRow DEF InRow
<1>4. ASSUME NEW c, NEW f \in {"xdefl", "ydefl", "focus"}, FromTable(c, f)
      PROVE  OnLine(i, f, dev[c])
  <2>1. Near(i, f, dev[c], dev[Energy])
    BY <1>4, Fits DEF FromTable
  <2> QED BY <2>1 DEF Near, OnLine
<1>5. OnLine(i, "xdefl", dev[Xdefl]) /\ OnLine(i, "ydefl", dev[Ydefl]) /\ OnLine(i, "focus", dev[Focus])
  BY <1>4
<1> QED BY <1>1, <1>3, <1>5 DEF SettingsFit

LEMMA FitKept ==
  ASSUME UNCHANGED dev
  PROVE  SettingsFit => SettingsFit'
BY DEF SettingsFit, OnLine

LEMMA FitInit == Init => FitInv
BY DEF Init, FitInv

\* A step that leaves the settings alone and is not the start of others.
LEMMA FitFrame ==
  ASSUME FitInv, UNCHANGED <<dev, loaded>>, pc \in {"prompt", "send", "parse"},
         pc' \in {"prompt", "send", "parse", "end"},
         pc' # "end" => status' = "running",
         pc' = "send" /\ cmd'.kind = "energy" => Number(eval') /\ AboveCorrected(eval') # {}
  PROVE  FitInv'
BY FitKept DEF FitInv

LEMMA FitNext == ASSUME PositiveTable PROVE EnergyInv /\ FitInv /\ [Next]_vars => FitInv'
<1> SUFFICES ASSUME PositiveTable, EnergyInv, FitInv, [Next]_vars PROVE FitInv'
  OBVIOUS
<1>1. CASE BatchDone \/ Quit \/ Unreadable
  BY <1>1, FitFrame DEF BatchDone, Quit, Unreadable, End, NoExchange
<1>2. CASE Empty
  BY <1>2, FitFrame DEF Empty, NoExchange, FitInv
<1>3. CASE FetchEnergy
  <2>1. /\ pc = "prompt" /\ status = "running" /\ cmd' \in Commands /\ cmd'.kind = "energy"
        /\ UNCHANGED <<dev, loaded>>
    BY <1>3 DEF FetchEnergy, NoExchange, FitInv, EnergyInv
  <2>2. cmd'.value \in Int
    BY <2>1, CommandAssumption
  <2>3. CASE EnergyOutside(cmd'.value)
    BY <1>3, <2>1, <2>3, FitFrame DEF FetchEnergy, End
  <2>4. CASE ~EnergyOutside(cmd'.value)
    <3>1. pc' = "send" /\ status' = status /\ eval' = CorrectedEnergy(cmd'.value)
      BY <1>3, <2>4 DEF FetchEnergy
    <3>2. Number(eval') /\ AboveCorrected(eval') # {}
      BY <2>2, <2>4, <3>1, CorrectedIsBelow
    <3> QED BY <2>1, <3>1, <3>2, FitFrame
  <2> QED BY <2>3, <2>4
<1>4. CASE FetchOther
  <2>1. cmd'.kind # "energy"
    BY <1>4 DEF FetchOther
  <2> QED BY <1>4, <2>1, FitFrame DEF FetchOther, NoExchange, FitInv
<1>5. CASE SendEnergy
  <2>1. Number(eval) /\ AboveCorrected(eval) # {} /\ eval' = eval /\ status = "running"
    BY <1>5 DEF SendEnergy, FitInv
  <2>2. CASE LowestOf(AboveCorrected(eval)) = 1
    <3>1. pc' = "end" /\ status' = "failed"
      BY <1>5, <2>1, <2>2 DEF SendEnergy, AfterEnergy, End
    <3> QED BY <3>1 DEF FitInv
  <2>3. CASE LowestOf(AboveCorrected(eval)) # 1
    <3>1. pc' = "xdefl" /\ row' = LowestOf(AboveCorrected(eval)) /\ status' = "running"
      BY <1>5, <2>1, <2>3 DEF SendEnergy, AfterEnergy
    <3>2. InRow(eval', row')
      BY <2>1, <2>3, <3>1, SearchRow
    <3>3. loaded' # 0 => dev'[Energy] = Trunc(eval)
      BY <1>5 DEF SendEnergy, Accepted, Denied, EnergyInv, Energy, Controls
    <3> QED BY <2>1, <3>1, <3>2, <3>3 DEF FitInv
  <2> QED BY <2>2, <2>3
<1>6. CASE SendSet
  <2>1. pc = "send" /\ pc' = "parse" /\ UNCHANGED <<cmd, row, eval, status>>
        /\ (loaded' = 0 \/ UNCHANGED <<dev, loaded>>)
    BY <1>6 DEF SendSet, Denied
  <2>2. CASE loaded' = 0
    BY <2>1, <2>2 DEF FitInv
  <2>3. CASE UNCHANGED <<dev, loaded>>
    BY <2>1, <2>3, FitFrame DEF FitInv
  <2> QED BY <2>1, <2>2, <2>3
<1>7. CASE SendGet
  BY <1>7, FitFrame DEF SendGet, FitInv
\* What a setting of column f to control c leaves.
<1>8. ASSUME NEW c \in {Xdefl, Ydefl, Focus}, NEW step, NEW next, NEW f, Load(step, next, c, f)
      PROVE  /\ pc = step /\ pc' = next /\ UNCHANGED <<row, eval, status>>
             /\ loaded' # 0 => /\ loaded # 0 /\ FromTable(c, f)'
                               /\ \A b \in Controls \ {c} : dev'[b] = dev[b]
  BY <1>8 DEF Load, Accepted, Denied, FromTable, EnergyInv, Xdefl, Ydefl, Focus, Controls
<1>9. CASE LoadXdefl
  <2>1. /\ pc = "xdefl" /\ pc' = "ydefl" /\ UNCHANGED <<row, eval, status>>
        /\ loaded' # 0 => /\ loaded # 0 /\ FromTable(Xdefl, "xdefl")'
                          /\ dev'[Energy] = dev[Energy]
    BY <1>8, <1>9 DEF LoadXdefl, Xdefl, Energy, Controls
  <2> QED BY <2>1 DEF FitInv
<1>10. CASE LoadYdefl
  <2>1. /\ pc = "ydefl" /\ pc' = "focus" /\ UNCHANGED <<row, eval, status>>
        /\ loaded' # 0 => /\ loaded # 0 /\ FromTable(Ydefl, "ydefl")'
                          /\ dev'[Energy] = dev[Energy] /\ dev'[Xdefl] = dev[Xdefl]
    BY <1>8, <1>10 DEF LoadYdefl, Xdefl, Ydefl, Energy, Controls
  <2>2. loaded' # 0 => FromTable(Xdefl, "xdefl")'
    BY <2>1 DEF FitInv, FromTable
  <2> QED BY <2>1, <2>2 DEF FitInv
<1>11. CASE LoadFocus
  <2>1. /\ pc = "focus" /\ pc' = "parse" /\ UNCHANGED <<row, eval, status>>
        /\ loaded' # 0 => /\ loaded # 0 /\ FromTable(Focus, "focus")'
                          /\ dev'[Energy] = dev[Energy] /\ dev'[Xdefl] = dev[Xdefl]
                          /\ dev'[Ydefl] = dev[Ydefl]
    BY <1>8, <1>11 DEF LoadFocus, Xdefl, Ydefl, Focus, Energy, Controls
  <2>2. loaded' # 0 =>
          /\ InRow(eval', row') /\ dev'[Energy] = Trunc(eval')
          /\ FromTable(Xdefl, "xdefl")' /\ FromTable(Ydefl, "ydefl")' /\ FromTable(Focus, "focus")'
    BY <2>1 DEF FitInv, FromTable
  <2>3. (PositiveTable /\ InRow(eval, row) /\ dev[Energy] = Trunc(eval)
         /\ FromTable(Xdefl, "xdefl") /\ FromTable(Ydefl, "ydefl") /\ FromTable(Focus, "focus") => SettingsFit)'
    BY FitOf, PTL
  <2>4. loaded' # 0 => SettingsFit'
    BY <2>2, <2>3
  <2> QED BY <2>1, <2>4 DEF FitInv
<1>12. CASE Parse
  <2>1. /\ pc = "parse" /\ UNCHANGED <<cmd, row, eval, dev, loaded>>
        /\ \/ pc' = "end"
           \/ pc' = "prompt" /\ status' = status
    BY <1>12 DEF Parse, End, NoExchange
  <2> QED BY <2>1, FitFrame DEF FitInv
<1>13. CASE Kill
  BY <1>13 DEF Kill, End, FitInv
<1>14. CASE UNCHANGED vars
  <2>1. UNCHANGED <<pc, cmd, row, eval, dev, status, loaded>>
    BY <1>14 DEF vars
  <2>2. SettingsFit => SettingsFit'
    BY <2>1, FitKept
  <2> QED BY <2>1, <2>2 DEF FitInv, FromTable
<1> QED BY <1>1, <1>2, <1>3, <1>4, <1>5, <1>6, <1>7, <1>9, <1>10, <1>11, <1>12, <1>13, <1>14
     DEF Next, Main

\* For every table of positive energies and errors, whatever the gun refuses
\* and whatever else is set, the deflections and the focus after an energy are
\* those of the table for the energy that the gun was sent, to within what is
\* cut off (egun_cli.cpp:370-418).
THEOREM DefaultsLoadedInvariant ==
  ASSUME PositiveTable
  PROVE  Spec => []DefaultsLoaded
<1>1. FitInv => DefaultsLoaded
  BY DEF FitInv, DefaultsLoaded
<1> QED BY <1>1, EnergyInit, EnergyNext, FitInit, FitNext, PTL DEF Spec

-----------------------------------------------------------------------------
(* Types.                                                                  *)

LEMMA CorrectedIsNumber ==
  ASSUME NEW e \in Int, ~EnergyOutside(e)
  PROVE  Number(CorrectedEnergy(e))
<1> DEFINE i == LowestOf(Above(e))
           x1 == Table[i - 1].energy
           x2 == Table[i].energy
           y1 == Table[i - 1].shift
           y2 == Table[i].shift
           x == CorrectedEnergy(e)
<1>1. i \in 2 .. Len(Table)
  BY Interval
<1>2. i - 1 \in 1 .. Len(Table) - 1 /\ (i - 1) + 1 = i /\ i - 1 \in 1 .. Len(Table)
      /\ i \in 1 .. Len(Table)
  BY <1>1, TableAssumption
<1>3. x1 \in Int /\ x2 \in Int /\ y1 \in Int /\ y2 \in Int /\ x1 < x2
  BY <1>2, RowTypes, TableAssumption
<1>4. x = [whole |-> e - y1, num |-> -((y2 - y1) * ((e - x1) * 1 + 0)), den |-> (x2 - x1) * 1]
  BY DEF CorrectedEnergy, Interpolated, linearfit, Whole
<1> HIDE DEF i, x1, x2, y1, y2, x
<1>5. -((y2 - y1) * ((e - x1) * 1 + 0)) \in Int /\ (x2 - x1) * 1 \in Nat \ {0} /\ e - y1 \in Int
  BY <1>3
<1>6. Number(x)
  BY <1>4, <1>5 DEF Number
<1> QED BY <1>6 DEF x

LEMMA TruncIsInt ==
  ASSUME NEW x, Number(x)
  PROVE  Trunc(x) \in Int
BY Truncated DEF Number

LEMMA InterpolatedIsNumber ==
  ASSUME NEW x, NEW i, InRow(x, i), NEW f \in {"xdefl", "ydefl", "focus"}
  PROVE  Number(Interpolated(i, f, x))
<1> DEFINE x1 == Table[i - 1].energy
           x2 == Table[i].energy
           y1 == Table[i - 1][f]
           y2 == Table[i][f]
           v == Interpolated(i, f, x)
<1>1. i - 1 \in 1 .. Len(Table) - 1 /\ (i - 1) + 1 = i /\ i - 1 \in 1 .. Len(Table)
      /\ i \in 1 .. Len(Table)
  BY TableAssumption DEF InRow
<1>2. x1 \in Int /\ x2 \in Int /\ y1 \in Int /\ y2 \in Int /\ x1 < x2
  BY <1>1, RowTypes, ColumnTypes, TableAssumption
<1>3. v = [whole |-> y1, num |-> (y2 - y1) * ((x.whole - x1) * x.den + x.num),
           den |-> (x2 - x1) * x.den]
  BY DEF Interpolated, linearfit
<1> HIDE DEF x1, x2, y1, y2, v
<1>4. x.whole \in Int /\ x.num \in Int /\ x.den \in Nat \ {0}
  BY DEF InRow, Number
<1>5. (x.whole - x1) * x.den + x.num \in Int
  BY <1>2, <1>4
<1>6. (x2 - x1) * x.den \in Nat \ {0}
  <2>1. x2 - x1 \in Nat \ {0}
    BY <1>2
  <2>2. \A a, b \in Nat \ {0} : a * b \in Nat \ {0}
    OBVIOUS
  <2> QED BY <1>4, <2>1, <2>2
<1>7. (y2 - y1) * ((x.whole - x1) * x.den + x.num) \in Int
  BY <1>2, <1>5
<1>8. Number(v)
  BY <1>2, <1>3, <1>6, <1>7 DEF Number
<1> QED BY <1>8 DEF v

LEMMA ToWireIsInt ==
  ASSUME NEW c \in Controls, NEW v \in Int
  PROVE  ToWire(c, v) \in Int
<1> DEFINE f == ConvFac[c + 1]
<1>1. f \in Int
  BY DEF ConvFac, Controls
<1> HIDE DEF f
<1>2. v * f \in Int /\ 1000 \in Nat \ {0} /\ 0 \in Int
  BY <1>1
<1>3. Trunc([whole |-> 0, num |-> v * f, den |-> 1000]) \in Int
  BY <1>2, Truncated
<1> QED BY <1>3 DEF ToWire, f

\* The rows and numbers that are worked with.
TypeInv ==
  /\ TypeOK /\ queue \in Seq(Commands)
  /\ pc = "send" => cmd \in Commands
  /\ pc = "send" /\ cmd.kind = "energy" => Number(eval)
  /\ pc \in {"xdefl", "ydefl", "focus"} => InRow(eval, row)

LEMMA TypeInit == Init => TypeInv
<1> SUFFICES ASSUME Init PROVE TypeInv
  OBVIOUS
<1>1. PICK n \in 1 .. MaxCommands : queue \in [1 .. n -> Commands]
  BY DEF Init, Lists
<1>2. queue \in Seq(Commands) /\ Len(queue) <= MaxCommands
  BY <1>1, CommandAssumption
<1>3. dev \in [Controls -> Int]
  BY DEF Init
<1> QED BY <1>2, <1>3 DEF Init, TypeInv, TypeOK

LEMMA TypeNext == EnergyInv /\ TypeInv /\ [Next]_vars => TypeInv'
<1> SUFFICES ASSUME EnergyInv, TypeInv, [Next]_vars PROVE TypeInv'
  OBVIOUS
<1> USE DEF TypeInv, TypeOK
<1>1. queue # <<>> => /\ Head(queue) \in Commands /\ Tail(queue) \in Seq(Commands)
                      /\ Len(Tail(queue)) <= MaxCommands
  <2>1. queue # <<>> => Len(Tail(queue)) = Len(queue) - 1 /\ Len(queue) \in Nat
    OBVIOUS
  <2> QED BY <2>1, CommandAssumption
<1>2. CASE BatchDone \/ Quit \/ Kill
  BY <1>2 DEF BatchDone, Quit, Kill, End, NoExchange
<1>3. CASE Empty
  <2>1. queue' \in Seq(Commands) /\ Len(queue') <= MaxCommands /\ pc = "prompt"
    BY <1>1, <1>3 DEF Empty, Fetched
  <2> QED BY <1>3, <2>1 DEF Empty, NoExchange
<1>4. CASE Unreadable
  <2>1. queue' \in Seq(Commands) /\ Len(queue') <= MaxCommands
    BY <1>1, <1>4 DEF Unreadable, Fetched
  <2> QED BY <1>4, <2>1 DEF Unreadable, End, NoExchange
<1>5. CASE FetchEnergy
  <2>1. /\ queue' \in Seq(Commands) /\ Len(queue') <= MaxCommands
        /\ cmd' \in Commands /\ cmd'.kind = "energy" /\ pc = "prompt"
        /\ UNCHANGED <<mode, rpl, dev>>
    BY <1>1, <1>5 DEF FetchEnergy, Fetched, NoExchange
  <2>2. cmd'.value \in Int
    BY <2>1, CommandAssumption
  <2>3. \/ pc' = "end" /\ status' = "failed"
        \/ pc' = "send" /\ status' = status /\ Number(eval')
    BY <1>5, <2>2, CorrectedIsNumber DEF FetchEnergy, End
  <2> QED BY <2>1, <2>3
<1>6. CASE FetchOther
  <2>1. /\ queue' \in Seq(Commands) /\ Len(queue') <= MaxCommands
        /\ cmd' \in Commands /\ cmd'.kind # "energy" /\ pc = "prompt" /\ pc' = "send"
        /\ UNCHANGED <<mode, rpl, dev, status>>
    BY <1>1, <1>6 DEF FetchOther, Fetched, NoExchange
  <2> QED BY <2>1
<1>7. CASE SendEnergy
  <2>1. /\ pc = "send" /\ Number(eval) /\ Trunc(eval) \in Int
        /\ UNCHANGED <<mode, queue, eval>> /\ rpl' \in {"value", "error", "garbled"}
    BY <1>7, TruncIsInt DEF SendEnergy
  <2>2. dev' \in [Controls -> Int]
    BY <1>7, <2>1 DEF SendEnergy, Accepted, Denied
  <2>3. \/ pc' = "parse" /\ status' = status
        \/ pc' = "end" /\ status' = "failed"
        \/ pc' = "xdefl" /\ status' = status /\ InRow(eval', row')
    BY <1>7, <2>1, SearchRow DEF SendEnergy, AfterEnergy, End
  <2> QED BY <2>1, <2>2, <2>3 DEF InRow
<1>8. CASE SendSet
  <2>1. /\ pc = "send" /\ pc' = "parse" /\ UNCHANGED <<mode, queue, status>>
        /\ rpl' \in {"value", "error", "garbled"}
    BY <1>8 DEF SendSet
  <2>2. cmd.control \in Controls /\ cmd.value \in Int
    BY <1>8, CommandAssumption DEF SendSet
  <2> DEFINE v == IF cmd.kind = "raw" THEN cmd.value ELSE ToWire(cmd.control, cmd.value)
  <2>4. v \in Int
    BY <2>2, ToWireIsInt
  <2>5. dev' = [dev EXCEPT ![cmd.control] = v] \/ dev' = dev
    BY <1>8 DEF SendSet, Accepted, Denied
  <2> HIDE DEF v
  <2>3. dev' \in [Controls -> Int]
    BY <2>2, <2>4, <2>5
  <2> QED BY <2>1, <2>3
<1>9. CASE SendGet
  BY <1>9 DEF SendGet
<1>10. ASSUME NEW c \in Controls, NEW step, NEW f \in {"xdefl", "ydefl", "focus"},
              step \in {"xdefl", "ydefl", "focus"},
              NEW next \in {"ydefl", "focus", "parse"}, Load(step, next, c, f)
       PROVE  TypeInv'
  <2>1. /\ InRow(eval, row) /\ pc \in {"xdefl", "ydefl", "focus"} /\ pc' = next
        /\ UNCHANGED <<mode, queue, row, eval, rpl, status>>
    BY <1>10 DEF Load
  <2>2. Trunc(Interpolated(row, f, eval)) \in Int
    BY <2>1, InterpolatedIsNumber, TruncIsInt
  <2>3. dev' \in [Controls -> Int]
    BY <1>10, <2>2 DEF Load, Accepted, Denied
  <2>4. row' \in 2 .. Len(Table) /\ InRow(eval', row')
    BY <2>1 DEF InRow
  <2> QED BY <2>1, <2>3, <2>4
<1>11. CASE LoadXdefl \/ LoadYdefl \/ LoadFocus
  <2>1. {Xdefl, Ydefl, Focus} \subseteq Controls
    BY DEF Xdefl, Ydefl, Focus, Controls
  <2> QED BY <1>10, <1>11, <2>1 DEF LoadXdefl, LoadYdefl, LoadFocus
<1>12. CASE Parse
  <2>1. /\ pc = "parse" /\ UNCHANGED <<mode, rpl, dev>>
        /\ \/ pc' = "prompt" /\ status' = status
           \/ pc' = "end" /\ status' \in {"done", "exception"}
    BY <1>12 DEF Parse, End, NoExchange
  <2>2. queue' = queue \/ (queue # <<>> /\ queue' = Tail(queue))
    BY <1>12 DEF Parse, Remaining, EnergyInv
  <2>3. queue' \in Seq(Commands) /\ Len(queue') <= MaxCommands
    BY <1>1, <2>2
  <2> QED BY <2>1, <2>3
<1>13. CASE UNCHANGED vars
  BY <1>13 DEF vars, InRow
<1> QED BY <1>2, <1>3, <1>4, <1>5, <1>6, <1>7, <1>8, <1>9, <1>11, <1>12, <1>13 DEF Next, Main

\* Types; the settings of the gun stay integers and the second search stays
\* above the first row of the table, for every table with rising energies.
THEOREM TypeInvariant == Spec => []TypeOK
<1>1. TypeInv => TypeOK
  BY DEF TypeInv
<1> QED BY <1>1, TypeInit, TypeNext, EnergyInit, EnergyNext, PTL DEF Spec
=============================================================================
