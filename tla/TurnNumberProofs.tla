-------------------------- MODULE TurnNumberProofs --------------------------
(* The pass that stamps a timeline (TurnNumbers), of any length and with any   *)
(* numbers: it gives every row the turn its comment promises.  After i rows    *)
(* the pass has what StampsAt says of the marks up to i.                       *)
EXTENDS TurnNumbers, FiniteSetTheorems, SequenceTheorems, WellFoundedInduction, TLAPS

AnyNumber == Nat \union {Unnumbered}

LEMMA LeastNatural ==
    ASSUME NEW S, S \subseteq Nat, S # {}
    PROVE  \E i \in S : \A j \in S : i <= j
<1>1. PICK i \in S : \A j \in S : ~(<<j, i>> \in OpToRel(<, Nat))
  BY NatLessThanWellFounded, WFMin
<1>2. ASSUME NEW j \in S, j < i PROVE FALSE
  <2>1. <<j, i>> \in OpToRel(<, Nat)
    BY <1>2, Zenon DEF OpToRel
  <2> QED BY <1>1, <2>1
<1> QED BY <1>2

LEMMA LeastPlace ==
    ASSUME NEW S, S \subseteq Nat, S # {}
    PROVE  Min(S) \in S /\ \A j \in S : Min(S) <= j
<1>1. \E i \in S : \A j \in S : i =< j
  BY LeastNatural
<1> QED BY <1>1 DEF Min

LEMMA GreatestPlace ==
    ASSUME NEW n \in Nat, NEW S \in SUBSET (1 .. n), S # {}
    PROVE  Max(S) \in S /\ \A k \in S : k <= Max(S)
<1> DEFINE left == {n - i : i \in S}
<1>1. left \subseteq Nat /\ left # {}
  <2>1. \A i \in S : n - i \in Nat
    OBVIOUS
  <2> QED BY <2>1
<1>2. PICK d \in left : \A k \in left : d <= k
  BY <1>1, LeastNatural
<1>3. PICK i \in S : d = n - i
  BY <1>2
<1>4. \A k \in S : k <= i
  <2> TAKE k \in S
  <2>1. n - k \in left
    OBVIOUS
  <2>2. d <= n - k
    BY <1>2, <2>1
  <2> QED BY <1>3, <2>2
<1>5. \E x \in S : \A y \in S : x >= y
  BY <1>4
<1>6. Max(S) \in S /\ \A y \in S : Max(S) >= y
  BY <1>5 DEF Max
<1> QED BY <1>6

-----------------------------------------------------------------------------
\* What the pass has after i rows: the last mark's number, and of row j the
\* number of the last mark up to j, or of the first one.
Upto(owns, i) == {m \in 1 .. i : owns[m] # Unnumbered}
StampAt(owns, i, j) ==
    IF Upto(owns, i) = {} THEN Unnumbered
    ELSE IF Upto(owns, j) # {} THEN owns[Max(Upto(owns, j))] ELSE owns[Min(Upto(owns, i))]
CurrentAt(owns, i) == IF Upto(owns, i) = {} THEN Unnumbered ELSE owns[Max(Upto(owns, i))]
StampsAt(owns, i) ==
    [current |-> CurrentAt(owns, i), stamps |-> [j \in 1 .. i |-> StampAt(owns, i, j)]]

LEMMA UptoSteps ==
    ASSUME NEW owns, NEW i \in Nat, i # 0
    PROVE  /\ Upto(owns, i) \in SUBSET (1 .. i) /\ Upto(owns, i - 1) \in SUBSET (1 .. i - 1)
           /\ owns[i] = Unnumbered => Upto(owns, i) = Upto(owns, i - 1)
           /\ owns[i] # Unnumbered => Upto(owns, i) = Upto(owns, i - 1) \union {i}
<1>1. 1 .. i = (1 .. i - 1) \union {i}
  OBVIOUS
<1> QED BY <1>1 DEF Upto

LEMMA LastMark ==
    ASSUME NEW owns, NEW i \in Nat, i # 0, owns[i] # Unnumbered
    PROVE  Upto(owns, i) # {} /\ Max(Upto(owns, i)) = i
<1>1. Upto(owns, i) \in SUBSET (1 .. i) /\ i \in Upto(owns, i)
  BY DEF Upto
<1>2. Max(Upto(owns, i)) \in Upto(owns, i) /\ i <= Max(Upto(owns, i))
  BY <1>1, GreatestPlace
<1>3. \A m \in Upto(owns, i) : m <= i /\ m \in Int
  BY <1>1
<1> QED BY <1>1, <1>2, <1>3

\* The first mark stays the first.
LEMMA FirstMark ==
    ASSUME NEW owns, NEW i \in Nat, NEW k \in Nat, i <= k, Upto(owns, i) # {}
    PROVE  Min(Upto(owns, k)) = Min(Upto(owns, i))
<1>1. /\ Upto(owns, i) \subseteq Nat /\ Upto(owns, k) \subseteq Nat
      /\ Upto(owns, i) \subseteq Upto(owns, k)
      /\ \A m \in Upto(owns, k) : m <= i => m \in Upto(owns, i)
  BY DEF Upto
<1> DEFINE a == Min(Upto(owns, i))
           b == Min(Upto(owns, k))
<1>2. a \in Upto(owns, i) /\ \A m \in Upto(owns, i) : a <= m
  BY <1>1, LeastPlace
<1>3. b \in Upto(owns, k) /\ \A m \in Upto(owns, k) : b <= m
  BY <1>1, LeastPlace
<1>4. a \in Nat /\ b \in Nat /\ a <= i /\ a \in Upto(owns, k)
  BY <1>1, <1>2, <1>3 DEF Upto
<1>5. b <= a
  BY <1>3, <1>4
<1>6. b \in Upto(owns, i)
  BY <1>1, <1>3, <1>4, <1>5
<1>7. a <= b
  BY <1>2, <1>6
<1> HIDE DEF a, b
<1>8. a = b
  BY <1>4, <1>5, <1>7
<1> QED BY <1>8 DEF a, b

LEMMA OnlyMark ==
    ASSUME NEW owns, NEW i \in Nat, i # 0, owns[i] # Unnumbered, Upto(owns, i - 1) = {}
    PROVE  Upto(owns, i) = {i} /\ Min(Upto(owns, i)) = i
<1>1. Upto(owns, i) = {i}
  BY UptoSteps
<1>2. Min({i}) \in {i}
  BY LeastPlace
<1> QED BY <1>1, <1>2

\* A row is stamped at a step of the pass or waits.
LEMMA StampSteps ==
    ASSUME NEW owns, NEW i \in Nat, i # 0, NEW j \in 1 .. i - 1,
           \A m \in 1 .. i : owns[m] \in AnyNumber
    PROVE  StampAt(owns, i, j) =
              IF StampAt(owns, i - 1, j) = Unnumbered THEN CurrentAt(owns, i)
              ELSE StampAt(owns, i - 1, j)
<1>1. /\ i - 1 \in Nat /\ j \in Nat /\ Upto(owns, j) \subseteq Upto(owns, i - 1)
      /\ Upto(owns, i - 1) \in SUBSET (1 .. i - 1) /\ Upto(owns, i) \in SUBSET (1 .. i)
      /\ Upto(owns, j) \in SUBSET (1 .. j)
  BY DEF Upto
<1>2. CASE Upto(owns, i - 1) # {}
  <2>1. Min(Upto(owns, i)) = Min(Upto(owns, i - 1)) /\ Upto(owns, i) # {}
    BY <1>1, <1>2, FirstMark DEF Upto
  <2>2. StampAt(owns, i, j) = StampAt(owns, i - 1, j)
    BY <1>2, <2>1 DEF StampAt
  <2>3. Min(Upto(owns, i - 1)) \in Upto(owns, i - 1)
    BY <1>1, <1>2, LeastPlace
  <2>4. Upto(owns, j) # {} => Max(Upto(owns, j)) \in Upto(owns, j)
    BY <1>1, GreatestPlace
  <2>5. StampAt(owns, i - 1, j) # Unnumbered
    BY <1>2, <2>3, <2>4 DEF StampAt, Upto
  <2> QED BY <2>2, <2>5
<1>3. CASE Upto(owns, i - 1) = {} /\ owns[i] = Unnumbered
  BY <1>3, UptoSteps DEF StampAt, CurrentAt
<1>4. CASE Upto(owns, i - 1) = {} /\ owns[i] # Unnumbered
  <2>1. Upto(owns, i) = {i} /\ Min(Upto(owns, i)) = i /\ Max(Upto(owns, i)) = i
    BY <1>4, OnlyMark, LastMark
  <2>2. Upto(owns, j) = {}
    BY <1>1, <1>4
  <2> QED BY <1>4, <2>1, <2>2 DEF StampAt, CurrentAt
<1> QED BY <1>2, <1>3, <1>4

LEMMA CurrentSteps ==
    ASSUME NEW owns, NEW i \in Nat, i # 0
    PROVE  /\ CurrentAt(owns, i) = IF owns[i] = Unnumbered THEN CurrentAt(owns, i - 1) ELSE owns[i]
           /\ StampAt(owns, i, i) = CurrentAt(owns, i)
<1>1. CASE owns[i] = Unnumbered
  BY <1>1, UptoSteps DEF CurrentAt, StampAt
<1>2. CASE owns[i] # Unnumbered
  BY <1>2, LastMark DEF CurrentAt, StampAt
<1> QED BY <1>1, <1>2

LEMMA CarrySteps ==
    ASSUME NEW owns, NEW i \in Nat, i # 0, \A m \in 1 .. i : owns[m] \in AnyNumber
    PROVE  Carry(StampsAt(owns, i - 1), owns[i]) = StampsAt(owns, i)
<1> DEFINE acc == StampsAt(owns, i - 1)
           c == CurrentAt(owns, i)
           st == [j \in DOMAIN acc.stamps |->
                     IF acc.stamps[j] = Unnumbered THEN c ELSE acc.stamps[j]]
<1>1. (IF owns[i] = Unnumbered THEN acc.current ELSE owns[i]) = c
  BY CurrentSteps DEF StampsAt
<1>2. st = [j \in 1 .. i - 1 |-> StampAt(owns, i, j)]
  BY StampSteps DEF StampsAt
<1>3. Carry(acc, owns[i]) = [current |-> c, stamps |-> Append(st, c)]
  BY <1>1 DEF Carry
<1>4. Append(st, c) = [j \in 1 .. i |-> StampAt(owns, i, j)]
  <2>1. Len(st) = i - 1
    BY <1>2
  <2>2. \A j \in 1 .. i : IF j <= i - 1 THEN j \in 1 .. i - 1 ELSE j = i
    OBVIOUS
  <2>3. Append(st, c) = [j \in 1 .. i |-> IF j <= i - 1 THEN st[j] ELSE c]
    BY <1>2, <2>1 
  <2>4. \A j \in 1 .. i : (IF j <= i - 1 THEN st[j] ELSE c) = StampAt(owns, i, j)
    BY <1>2, <2>2, CurrentSteps
  <2> HIDE DEF st, c
  <2> QED BY <2>3, <2>4
<1> QED BY <1>3, <1>4 DEF StampsAt

LEMMA CarryingIs ==
    ASSUME NEW owns \in Seq(AnyNumber)
    PROVE  Carrying(owns) = [i \in 0 .. Len(owns) |-> StampsAt(owns, i)]
<1> DEFINE n == Len(owns)
           Of(f) == f = [i \in 0 .. n |-> IF i = 0 THEN NothingCarried ELSE Carry(f[i - 1], owns[i])]
           g == [i \in 0 .. n |-> StampsAt(owns, i)]
<1>1. n \in Nat /\ \A m \in 1 .. n : owns[m] \in AnyNumber
  OBVIOUS
<1>2. StampsAt(owns, 0) = NothingCarried
  <2>1. Upto(owns, 0) = {}
    BY DEF Upto
  <2>2. [j \in 1 .. 0 |-> StampAt(owns, 0, j)] = <<>>
    OBVIOUS
  <2> QED BY <2>1, <2>2 DEF StampsAt, CurrentAt, NothingCarried
<1>3. \A i \in 1 .. n : StampsAt(owns, i) = Carry(StampsAt(owns, i - 1), owns[i])
  <2> TAKE i \in 1 .. n
  <2>1. i \in Nat /\ i # 0 /\ \A m \in 1 .. i : owns[m] \in AnyNumber
    BY <1>1
  <2> QED BY <2>1, CarrySteps
<1>4. Of(g)
  <2>1. \A i \in 0 .. n : g[i] = IF i = 0 THEN NothingCarried ELSE Carry(g[i - 1], owns[i])
    <3> TAKE i \in 0 .. n
    <3>1. CASE i = 0
      BY <1>1, <1>2, <3>1
    <3>2. CASE i # 0
      <4>1. i \in 1 .. n /\ i - 1 \in 0 .. n
        BY <1>1, <3>2
      <4> QED BY <1>3, <3>2, <4>1
    <3> QED BY <3>1, <3>2
  <2>2. g = [i \in 0 .. n |-> g[i]]
    OBVIOUS
  <2> HIDE DEF g, n
  <2> QED BY <2>1, <2>2
<1> HIDE DEF g, n
<1>5. ASSUME NEW f, Of(f) PROVE f = g
  <2> DEFINE bad == {i \in 0 .. n : f[i] # g[i]}
  <2>1. /\ DOMAIN f = 0 .. n /\ DOMAIN g = 0 .. n /\ f[0] = NothingCarried /\ g[0] = NothingCarried
        /\ \A i \in 1 .. n : f[i] = Carry(f[i - 1], owns[i]) /\ g[i] = Carry(g[i - 1], owns[i])
    <3> DEFINE ff == [i \in 0 .. n |-> IF i = 0 THEN NothingCarried ELSE Carry(f[i - 1], owns[i])]
               gg == [i \in 0 .. n |-> IF i = 0 THEN NothingCarried ELSE Carry(g[i - 1], owns[i])]
    <3>1. f = ff /\ g = gg
      BY <1>4, <1>5
    <3>2. /\ DOMAIN ff = 0 .. n /\ DOMAIN gg = 0 .. n /\ ff[0] = NothingCarried
          /\ gg[0] = NothingCarried
          /\ \A i \in 1 .. n : ff[i] = Carry(f[i - 1], owns[i]) /\ gg[i] = Carry(g[i - 1], owns[i])
      BY <1>1
    <3> HIDE DEF ff, gg
    <3> QED BY <3>1, <3>2
  <2>2. bad = {}
    <3> SUFFICES ASSUME bad # {} PROVE FALSE
      OBVIOUS
    <3>1. PICK m \in bad : \A k \in bad : m <= k
      <4>1. \A k \in bad : k \in Nat
        BY <1>1
      <4> HIDE DEF bad
      <4> QED BY <4>1, LeastNatural
    <3>2. m # 0 /\ m \in 1 .. n /\ m - 1 \in 0 .. n /\ m - 1 \notin bad
      BY <1>1, <2>1, <3>1
    <3>3. f[m - 1] = g[m - 1]
      BY <3>2
    <3> QED BY <2>1, <3>1, <3>2, <3>3
  <2>3. \A i \in 0 .. n : f[i] = g[i]
    BY <2>2
  <2>4. f = [i \in 0 .. n |-> f[i]] /\ g = [i \in 0 .. n |-> g[i]]
    BY <1>4, <1>5
  <2> QED BY <2>3, <2>4
<1>6. Carrying(owns) = CHOOSE f : Of(f)
  BY DEF Carrying, n
<1>7. Of(CHOOSE f : Of(f))
  BY <1>4
<1>8. Carrying(owns) = g
  BY <1>5, <1>6, <1>7
<1> QED BY <1>8 DEF g, n

\* Every row of a parsed timeline has the number of the last numbered start up
\* to it, the rows before the first that of the first, and 0 if none has one
\* (carry_turn_numbers).
THEOREM RowsHaveTheirTurn ==
    ASSUME NEW owns \in Seq(AnyNumber)
    PROVE  Carried(owns) = [i \in 1 .. Len(owns) |-> NumberAt(owns, i)]
<1> DEFINE n == Len(owns)
           stamps == [j \in 1 .. n |-> StampAt(owns, n, j)]
<1>1. n \in Nat /\ DOMAIN owns = 1 .. n /\ \A m \in 1 .. n : owns[m] \in AnyNumber
  OBVIOUS
<1>2. Carrying(owns)[n].stamps = stamps
  BY <1>1, CarryingIs DEF StampsAt
<1>3. Carried(owns) = [i \in 1 .. n |-> IF stamps[i] = Unnumbered THEN 0 ELSE stamps[i]]
  BY <1>2 DEF Carried
<1>4. Marks(owns) = Upto(owns, n) /\ Upto(owns, n) \in SUBSET (1 .. n)
  BY <1>1 DEF Marks, Upto
<1>5. ASSUME NEW i \in 1 .. n
      PROVE  (IF stamps[i] = Unnumbered THEN 0 ELSE stamps[i]) = NumberAt(owns, i)
  <2>1. {m \in Marks(owns) : m <= i} = Upto(owns, i) /\ Upto(owns, i) \subseteq Upto(owns, n)
    BY <1>1, <1>4 DEF Upto
  <2>2. Upto(owns, n) # {} => Min(Upto(owns, n)) \in Upto(owns, n)
    BY <1>4, LeastPlace
  <2>3. Upto(owns, i) # {} => Max(Upto(owns, i)) \in Upto(owns, i)
    <3>1. i \in Nat /\ Upto(owns, i) \in SUBSET (1 .. i)
      BY <1>1 DEF Upto
    <3> QED BY <3>1, GreatestPlace
  <2>4. \A m \in Upto(owns, n) : owns[m] # Unnumbered
    BY DEF Upto
  <2>5. stamps[i] = StampAt(owns, n, i)
    OBVIOUS
  <2> HIDE DEF stamps
  <2> QED BY <1>4, <2>1, <2>2, <2>3, <2>4, <2>5 DEF NumberAt, StampAt
<1> HIDE DEF stamps
<1> QED BY <1>3, <1>5

LEMMA CarriedIs ==
    ASSUME NEW owns \in Seq(AnyNumber)
    PROVE  /\ Carried(owns) \in Seq(Nat) /\ Len(Carried(owns)) = Len(owns)
           /\ \A i \in 1 .. Len(owns) : Carried(owns)[i] = NumberAt(owns, i) /\ NumberAt(owns, i) \in Nat
<1> DEFINE n == Len(owns)
<1>1. n \in Nat /\ DOMAIN owns = 1 .. n /\ \A m \in 1 .. n : owns[m] \in AnyNumber
  OBVIOUS
<1>2. ASSUME NEW i \in 1 .. n PROVE NumberAt(owns, i) \in Nat
  <2> DEFINE marks == Marks(owns)
             before == {m \in marks : m <= i}
  <2>1. marks \in SUBSET (1 .. n) /\ before \subseteq marks /\ \A m \in marks : owns[m] \in Nat
    BY <1>1 DEF Marks, AnyNumber
  <2>2. before # {} => Max(before) \in before
    BY <1>1, <2>1, GreatestPlace
  <2>3. marks # {} => Min(marks) \in marks
    BY <2>1, LeastPlace
  <2> QED BY <2>1, <2>2, <2>3 DEF NumberAt
<1>3. Carried(owns) = [i \in 1 .. n |-> NumberAt(owns, i)]
  BY RowsHaveTheirTurn
<1> QED BY <1>1, <1>2, <1>3
=============================================================================
