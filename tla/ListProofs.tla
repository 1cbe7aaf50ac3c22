------------------------------ MODULE ListProofs ------------------------------
(***************************************************************************)
(* The lists that are put together from what was read at different times:  *)
(* the home list (HomeList), for any sessions, any page size and any       *)
(* number of load threads, the lists of the Summary pane (SessionWork),    *)
(* for any jobs, monitors, children and bookends, and the points of the    *)
(* Diff (WorkspaceDiff), for any timeline and paths.  All keep their rows  *)
(* in order (Ranks).                                                       *)
(*                                                                         *)
(* Home list.  A load takes a generation of its own when it begins, so     *)
(* that no two loads that run share one; the last to begin has set busy,   *)
(* and a load clears it at its end only if its generation is the latest.   *)
(*                                                                         *)
(* The rows cover the revision that is kept: of what was last touched by   *)
(* then they lack nothing.  A page read at one revision is the beginning   *)
(* of the list, the next one read at the same revision goes on where it    *)
(* ends, the last makes it whole; a delta makes rows that covered its      *)
(* `since` cover its own revision; and what the owner does later touches   *)
(* nothing that was covered.                                               *)
(*                                                                         *)
(* Summary pane.  What the agent wrote of a job, a schedule, a run or a    *)
(* child it never takes back, so two readings of a file are in order.  The *)
(* cached rows are of a timeline e and of files as read at some time f,    *)
(* after their key was taken at a time o; a later overview that finds the  *)
(* same key has a longer timeline and later files.  A stamp that is the    *)
(* same at o and now was the same at f, between the two, and two stages of *)
(* one timeline with the same bookend_key have the same bookends at the    *)
(* same places; hence the rows are those of now.  What ended by an earlier *)
(* reading ended by a later one, whichever file says so.                   *)
(*                                                                         *)
(* Diff.  The pass over the timeline keeps one bucket for each turn it     *)
(* met, with the places of that turn so far (FilingFits); the files of a   *)
(* point are those of its paths in their order, and what FlattenSeq joins  *)
(* it neither drops nor repeats (FlattenFits).                             *)
(***************************************************************************)
EXTENDS HomeList, SessionWork, WorkspaceDiff, TurnNumberProofs, FunctionTheorems

-----------------------------------------------------------------------------
(* The model's operators on rows.                                          *)

\* A strict total order on a set.
Orders(before, S) ==
    /\ \A x \in S : <<x, x>> \notin before
    /\ \A x, y \in S : x = y \/ <<x, y>> \in before \/ <<y, x>> \in before
    /\ \A x, y, z \in S : <<x, y>> \in before /\ <<y, z>> \in before => <<x, z>> \in before

Before(S, before, x) == {y \in S : <<y, x>> \in before}

\* In a strict total order each member of a finite set has a rank of its own,
\* and the ranks are 0 .. n - 1.
LEMMA RanksDiffer ==
    ASSUME NEW S, IsFiniteSet(S), NEW before, Orders(before, S), NEW x \in S, NEW y \in S,
           <<x, y>> \in before
    PROVE  Cardinality(Before(S, before, x)) < Cardinality(Before(S, before, y))
<1> DEFINE X == Before(S, before, x)
           Y == Before(S, before, y)
<1>1. X \subseteq Y /\ x \in Y /\ x \notin X
    BY DEF Before, Orders
<1>2. IsFiniteSet(Y) /\ Y \subseteq S
    BY FS_Subset DEF Before
<1>3. IsFiniteSet(X) /\ Cardinality(X) <= Cardinality(Y) /\ (Cardinality(X) = Cardinality(Y) => X = Y)
    BY <1>1, <1>2, FS_Subset
<1>4. Cardinality(X) \in Nat /\ Cardinality(Y) \in Nat
    BY <1>2, <1>3, FS_CardinalityType
<1> QED BY <1>1, <1>3, <1>4

\* Ranks are 0 .. n - 1.
LEMMA RankBounds ==
    ASSUME NEW S, IsFiniteSet(S), NEW before, Orders(before, S), NEW x \in S
    PROVE  Cardinality(Before(S, before, x)) \in 0 .. Cardinality(S) - 1
<1> DEFINE X == Before(S, before, x)
<1>1. X \subseteq S \ {x}
    BY DEF Before, Orders
<1>2. IsFiniteSet(S \ {x}) /\ Cardinality(S \ {x}) = Cardinality(S) - 1
    BY FS_RemoveElement
<1>3. IsFiniteSet(X) /\ Cardinality(X) <= Cardinality(S \ {x})
    BY <1>1, <1>2, FS_Subset
<1>4. Cardinality(X) \in Nat /\ Cardinality(S) \in Nat
    BY <1>3, FS_CardinalityType
<1> QED BY <1>2, <1>3, <1>4

\* Ranked puts each member of the set in one place.
LEMMA RankedIsOrder ==
    ASSUME NEW S, IsFiniteSet(S), NEW before, Orders(before, S)
    PROVE  /\ Cardinality(S) \in Nat
           /\ Ranked(S, before) \in [1 .. Cardinality(S) -> S]
           /\ \A x \in S : \E n \in 1 .. Cardinality(S) : Ranked(S, before)[n] = x
           /\ \A m, n \in 1 .. Cardinality(S) : Ranked(S, before)[m] = Ranked(S, before)[n] => m = n
<1> DEFINE c == Cardinality(S)
           rank(x) == Cardinality(Before(S, before, x))
           f == [x \in S |-> rank(x)]
<1>1. c \in Nat
    BY FS_CardinalityType
<1>2. f \in Injection(S, 0 .. c - 1)
  <2>1. f \in [S -> 0 .. c - 1]
    BY RankBounds
  <2>2. ASSUME NEW x \in S, NEW y \in S, f[x] = f[y] PROVE x = y
    <3>1. \A z \in S : rank(z) \in Int
      BY <1>1, RankBounds
    <3>2. <<x, y>> \in before => rank(x) < rank(y)
      BY RanksDiffer
    <3>3. <<y, x>> \in before => rank(y) < rank(x)
      BY RanksDiffer
    <3>4. rank(x) = rank(y)
      BY <2>2
    <3> HIDE DEF rank
    <3> QED BY <3>1, <3>2, <3>3, <3>4 DEF Orders
  <2> QED BY <2>1, <2>2, Fun_IsInj
<1>3. IsFiniteSet(0 .. c - 1) /\ Cardinality(0 .. c - 1) = c
    BY <1>1, FS_Interval
<1>4. f \in Surjection(S, 0 .. c - 1)
    BY <1>2, <1>3, FS_Injection
<1>5. \A n \in 1 .. c : \E x \in S : rank(x) = n - 1
  <2> SUFFICES ASSUME NEW n \in 1 .. c PROVE \E x \in S : f[x] = n - 1
    OBVIOUS
  <2>1. n - 1 \in 0 .. c - 1
    BY <1>1
  <2> QED BY <1>4, <2>1 DEF Surjection
<1>6. \A x, y \in S : rank(x) = rank(y) => x = y
  <2>1. \A x, y \in S : f[x] = f[y] => x = y
    BY <1>2 DEF Injection, IsInjective
  <2> QED BY <2>1
<1> DEFINE pick(n) == CHOOSE x \in S : rank(x) = n - 1
<1>7. Ranked(S, before) = [n \in 1 .. c |-> pick(n)]
    BY DEF Ranked, Before
<1>8. \A n \in 1 .. c : pick(n) \in S /\ rank(pick(n)) = n - 1
    BY <1>5
<1> HIDE DEF pick, rank
<1>9. /\ Ranked(S, before) \in [1 .. c -> S]
      /\ \A n \in 1 .. c : Ranked(S, before)[n] \in S /\ rank(Ranked(S, before)[n]) = n - 1
    BY <1>7, <1>8
<1>10. ASSUME NEW x \in S PROVE \E n \in 1 .. c : Ranked(S, before)[n] = x
  <2> DEFINE n == rank(x) + 1
  <2>1. n \in 1 .. c /\ n - 1 = rank(x)
    <3>1. rank(x) \in 0 .. c - 1
      BY RankBounds DEF rank
    <3> QED BY <1>1, <3>1
  <2>2. Ranked(S, before)[n] = x
    BY <1>6, <1>9, <2>1
  <2> QED BY <2>1, <2>2
<1>11. ASSUME NEW m \in 1 .. c, NEW n \in 1 .. c, Ranked(S, before)[m] = Ranked(S, before)[n]
       PROVE  m = n
  <2>1. m - 1 = n - 1
    BY <1>9, <1>11
  <2> QED BY <1>1, <2>1
<1> QED BY <1>1, <1>9, <1>10, <1>11
HomeRow == [id : Sessions, ver : Nat]
RowSet(rs) == {rs[i] : i \in DOMAIN rs}
Distinct(rs) == \A i, j \in DOMAIN rs : rs[i].id = rs[j].id => i = j
RowNow(s) == [id |-> s, ver |-> touched[s]]

\* The positions picked are kept in their order, each once.
LEMMA PickedRows ==
    ASSUME NEW rs \in Seq(HomeRow), NEW places \in SUBSET DOMAIN rs
    PROVE  /\ Picked(rs, places) \in Seq(HomeRow)
           /\ RowSet(Picked(rs, places)) = {rs[i] : i \in places}
           /\ Distinct(rs) => Distinct(Picked(rs, places))
<1> DEFINE less == {p \in places \X places : p[1] < p[2]}
           c == Cardinality(places)
           o == Ranked(places, less)
<1>1. DOMAIN rs = 1 .. Len(rs) /\ Len(rs) \in Nat /\ \A i \in DOMAIN rs : rs[i] \in HomeRow
    OBVIOUS
<1>2. IsFiniteSet(places)
  <2>1. IsFiniteSet(1 .. Len(rs))
    BY <1>1, FS_Interval
  <2> QED BY <1>1, <2>1, FS_Subset
<1>3. Orders(less, places)
  <2>1. \A i \in places : i \in Int
    BY <1>1
  <2> QED BY <2>1 DEF Orders
<1>4. /\ c \in Nat /\ o \in [1 .. c -> places]
      /\ \A i \in places : \E n \in 1 .. c : o[n] = i
      /\ \A m, n \in 1 .. c : o[m] = o[n] => m = n
  <2> HIDE DEF less
  <2> QED BY <1>2, <1>3, RankedIsOrder
<1>5. Picked(rs, places) = [n \in 1 .. c |-> rs[o[n]]]
    BY DEF Picked
<1> HIDE DEF o, c
<1>6. Picked(rs, places) \in Seq(HomeRow)
    BY <1>1, <1>4, <1>5
<1>7. DOMAIN Picked(rs, places) = 1 .. c
    BY <1>5
<1>8. RowSet(Picked(rs, places)) = {rs[i] : i \in places}
  <2>1. \A n \in 1 .. c : Picked(rs, places)[n] = rs[o[n]] /\ o[n] \in places
    BY <1>4, <1>5
  <2>2. ASSUME NEW i \in places PROVE \E n \in 1 .. c : Picked(rs, places)[n] = rs[i]
    BY <1>4, <2>1
  <2>3. RowSet(Picked(rs, places)) = {Picked(rs, places)[n] : n \in 1 .. c}
    BY <1>7 DEF RowSet
  <2> QED BY <2>1, <2>2, <2>3
<1>9. Distinct(rs) => Distinct(Picked(rs, places))
    BY <1>4, <1>5, <1>7 DEF Distinct
<1> QED BY <1>6, <1>8, <1>9

\* Newest first, each once, as last touched.
LEMMA NewestRows ==
    ASSUME NEW ids \in SUBSET Sessions, touched \in [Sessions -> Nat]
    PROVE  /\ Newest(ids) \in Seq(HomeRow) /\ Len(Newest(ids)) = Cardinality(ids)
           /\ RowSet(Newest(ids)) = {RowNow(s) : s \in ids}
           /\ Distinct(Newest(ids))
<1> DEFINE newer == {p \in ids \X ids : \/ touched[p[1]] > touched[p[2]]
                                      \/ (touched[p[1]] = touched[p[2]] /\ p[1] < p[2])}
           c == Cardinality(ids)
           o == Ranked(ids, newer)
<1>1. IsFiniteSet(ids)
    BY SessionsAssumption, FS_Subset
<1>2. Orders(newer, ids)
  <2>1. \A s \in ids : s \in Int /\ touched[s] \in Int
    BY HitsAssumption
  <2> QED BY <2>1 DEF Orders
<1>3. /\ c \in Nat /\ o \in [1 .. c -> ids]
      /\ \A i \in ids : \E n \in 1 .. c : o[n] = i
      /\ \A m, n \in 1 .. c : o[m] = o[n] => m = n
  <2> HIDE DEF newer
  <2> QED BY <1>1, <1>2, RankedIsOrder
<1>4. Newest(ids) = [i \in 1 .. c |-> RowNow(o[i])]
    BY DEF Newest, RowNow
<1>5. \A s \in ids : RowNow(s) \in HomeRow /\ RowNow(s).id = s
    BY DEF RowNow, HomeRow
<1> HIDE DEF o, c
<1>6. Newest(ids) \in Seq(HomeRow) /\ Len(Newest(ids)) = c /\ DOMAIN Newest(ids) = 1 .. c
    BY <1>3, <1>4, <1>5
<1>7. RowSet(Newest(ids)) = {RowNow(s) : s \in ids}
    BY <1>3, <1>4, <1>6 DEF RowSet
<1>8. Distinct(Newest(ids))
    BY <1>3, <1>4, <1>5, <1>6 DEF Distinct
<1> QED BY <1>6, <1>7, <1>8 DEF c

\* The ids of some rows depend on which rows they are, not on their order.
LEMMA RowIdsOf ==
    ASSUME NEW rs
    PROVE  RowIds(rs) = {r.id : r \in RowSet(rs)}
BY DEF RowIds, RowSet

\* What is left when the rows of some sessions are taken out.
LEMMA WithoutRows ==
    ASSUME NEW rs \in Seq(HomeRow), NEW ids
    PROVE  /\ Without(rs, ids) \in Seq(HomeRow)
           /\ RowSet(Without(rs, ids)) = {r \in RowSet(rs) : r.id \notin ids}
           /\ Distinct(rs) => Distinct(Without(rs, ids))
<1> DEFINE places == {i \in DOMAIN rs : rs[i].id \notin ids}
<1>1. Without(rs, ids) = Picked(rs, places) /\ places \in SUBSET DOMAIN rs
    BY DEF Without
<1>2. {rs[i] : i \in places} = {r \in RowSet(rs) : r.id \notin ids}
    BY DEF RowSet
<1> HIDE DEF places
<1> QED BY <1>1, <1>2, PickedRows

\* Joining: what both have.
LEMMA JoinedRows ==
    ASSUME NEW a \in Seq(HomeRow), NEW b \in Seq(HomeRow)
    PROVE  /\ a \o b \in Seq(HomeRow)
           /\ RowSet(a \o b) = RowSet(a) \union RowSet(b)
           /\ Distinct(a) /\ Distinct(b) /\ (\A s \in RowIds(a) : s \notin RowIds(b)) => Distinct(a \o b)
<1> DEFINE c == a \o b
<1>1. /\ c \in Seq(HomeRow) /\ Len(c) = Len(a) + Len(b)
      /\ \A i \in 1 .. Len(c) : c[i] = IF i <= Len(a) THEN a[i] ELSE b[i - Len(a)]
      /\ Len(a) \in Nat /\ Len(b) \in Nat
      /\ DOMAIN a = 1 .. Len(a) /\ DOMAIN b = 1 .. Len(b) /\ DOMAIN c = 1 .. Len(c)
    OBVIOUS
<1> HIDE DEF c
<1>2. ASSUME NEW i \in DOMAIN a PROVE i \in DOMAIN c /\ c[i] = a[i]
    BY <1>1
<1>3. ASSUME NEW i \in DOMAIN b PROVE i + Len(a) \in DOMAIN c /\ c[i + Len(a)] = b[i]
    BY <1>1
<1>4. ASSUME NEW i \in DOMAIN c
      PROVE  \/ i \in DOMAIN a /\ c[i] = a[i]
             \/ i - Len(a) \in DOMAIN b /\ c[i] = b[i - Len(a)]
    BY <1>1
<1>5. RowSet(c) = RowSet(a) \union RowSet(b)
    BY <1>2, <1>3, <1>4 DEF RowSet
<1>6. ASSUME Distinct(a), Distinct(b), \A s \in RowIds(a) : s \notin RowIds(b)
      PROVE  Distinct(c)
  <2> SUFFICES ASSUME NEW i \in DOMAIN c, NEW j \in DOMAIN c, c[i].id = c[j].id PROVE i = j
    BY DEF Distinct
  <2>1. CASE i \in DOMAIN a /\ c[i] = a[i] /\ j \in DOMAIN a /\ c[j] = a[j]
    BY <1>6, <2>1 DEF Distinct
  <2>2. CASE i - Len(a) \in DOMAIN b /\ c[i] = b[i - Len(a)] /\ j - Len(a) \in DOMAIN b /\ c[j] = b[j - Len(a)]
    <3>1. i - Len(a) = j - Len(a)
      BY <1>6, <2>2 DEF Distinct
    <3> QED BY <1>1, <3>1
  <2>3. CASE i \in DOMAIN a /\ c[i] = a[i] /\ j - Len(a) \in DOMAIN b /\ c[j] = b[j - Len(a)]
    BY <1>6, <2>3 DEF RowIds
  <2>4. CASE i - Len(a) \in DOMAIN b /\ c[i] = b[i - Len(a)] /\ j \in DOMAIN a /\ c[j] = a[j]
    BY <1>6, <2>4 DEF RowIds
  <2> QED BY <1>4, <2>1, <2>2, <2>3, <2>4
<1> QED BY <1>1, <1>5, <1>6 DEF c
\* The row a sequence has of a session.
LEMMA RowOfOne ==
    ASSUME NEW rs \in Seq(HomeRow), NEW s \in RowIds(rs)
    PROVE  RowOf(rs, s) \in RowSet(rs) /\ RowOf(rs, s).id = s
<1>1. \E i \in DOMAIN rs : rs[i].id = s
    BY DEF RowIds
<1> QED BY <1>1 DEF RowOf, RowSet

\* A merge keeps what is neither removed nor brought, and takes what is brought.
LEMMA MergedRows ==
    ASSUME NEW held \in Seq(HomeRow), NEW incoming \in Seq(HomeRow), NEW removed
    PROVE  /\ Merged(held, incoming, removed) \in Seq(HomeRow)
           /\ Distinct(held) /\ Distinct(incoming) =>
                /\ Distinct(Merged(held, incoming, removed))
                /\ RowSet(Merged(held, incoming, removed)) =
                      {r \in RowSet(held) : r.id \notin removed /\ r.id \notin RowIds(incoming)}
                        \union RowSet(incoming)
<1> DEFINE kept == Without(held, removed)
           In(i) == kept[i].id \in RowIds(incoming)
           mine == [i \in DOMAIN kept |-> IF In(i) /\ LastOf(kept, i) THEN RowOf(incoming, kept[i].id) ELSE kept[i]]
           new == Without(incoming, RowIds(kept))
<1>1. /\ kept \in Seq(HomeRow) /\ RowSet(kept) = {r \in RowSet(held) : r.id \notin removed}
      /\ Distinct(held) => Distinct(kept)
    BY WithoutRows
<1>2. /\ new \in Seq(HomeRow) /\ RowSet(new) = {r \in RowSet(incoming) : r.id \notin RowIds(kept)}
      /\ Distinct(incoming) => Distinct(new)
    BY WithoutRows
<1>3. Merged(held, incoming, removed) = mine \o new
    BY DEF Merged
<1> HIDE DEF kept, new
<1>4. DOMAIN kept = 1 .. Len(kept) /\ Len(kept) \in Nat /\ \A i \in DOMAIN kept : kept[i] \in HomeRow
    BY <1>1
<1>5. \A i \in DOMAIN kept : In(i) => RowOf(incoming, kept[i].id) \in RowSet(incoming)
                                     /\ RowOf(incoming, kept[i].id).id = kept[i].id
    BY RowOfOne
<1>6. \A r \in RowSet(incoming) : r \in HomeRow
  <2>1. \A i \in DOMAIN incoming : incoming[i] \in HomeRow
    OBVIOUS
  <2> QED BY <2>1 DEF RowSet
<1>7. /\ DOMAIN mine = DOMAIN kept
      /\ \A i \in DOMAIN kept : mine[i] = IF In(i) /\ LastOf(kept, i) THEN RowOf(incoming, kept[i].id)
                                          ELSE kept[i]
    OBVIOUS
<1>8. mine \in Seq(HomeRow)
  <2>1. \A i \in 1 .. Len(kept) : mine[i] \in HomeRow
    BY <1>4, <1>5, <1>6, <1>7
  <2>2. mine = [i \in 1 .. Len(kept) |-> mine[i]]
    BY <1>4
  <2> HIDE DEF mine
  <2> QED BY <1>4, <2>1, <2>2
<1>9. \A i \in DOMAIN kept : mine[i].id = kept[i].id
    BY <1>5, <1>7
<1> HIDE DEF mine
<1>10. Merged(held, incoming, removed) \in Seq(HomeRow)
    BY <1>2, <1>3, <1>8, JoinedRows
<1>11. ASSUME Distinct(held), Distinct(incoming)
       PROVE  /\ Distinct(Merged(held, incoming, removed))
              /\ RowSet(Merged(held, incoming, removed)) =
                      {r \in RowSet(held) : r.id \notin removed /\ r.id \notin RowIds(incoming)}
                        \union RowSet(incoming)
  <2>1. Distinct(kept) /\ Distinct(new)
    BY <1>1, <1>2, <1>11
  <2>2. Distinct(mine)
    BY <1>7, <1>9, <2>1 DEF Distinct
  <2>3. RowIds(mine) = RowIds(kept)
    BY <1>7, <1>9 DEF RowIds
  <2>4. \A s \in RowIds(mine) : s \notin RowIds(new)
    BY <1>2, <2>3, RowIdsOf
  <2>5. Distinct(mine \o new) /\ RowSet(mine \o new) = RowSet(mine) \union RowSet(new)
    BY <1>2, <1>8, <2>1, <2>2, <2>4, JoinedRows
  <2>6. \A i \in DOMAIN kept : LastOf(kept, i)
    <3>1. \A i \in DOMAIN kept : i \in Int
      BY <1>4
    <3> QED BY <2>1, <3>1 DEF LastOf, Distinct
  <2>7. \A r, q \in RowSet(incoming) : r.id = q.id => r = q
    BY <1>11 DEF Distinct, RowSet
  <2>8. \A r \in RowSet(mine) : \/ r \in RowSet(incoming)
                                \/ r \in RowSet(kept) /\ r.id \notin RowIds(incoming)
    BY <1>5, <1>7, <2>6 DEF RowSet
  <2>9. \A r \in RowSet(kept) : r.id \notin RowIds(incoming) => r \in RowSet(mine)
    BY <1>7 DEF RowSet
  <2>10. ASSUME NEW r \in RowSet(incoming) PROVE r \in RowSet(mine) \union RowSet(new)
    <3>1. CASE r.id \notin RowIds(kept)
      BY <1>2, <3>1
    <3>2. CASE r.id \in RowIds(kept)
      <4>1. PICK i \in DOMAIN kept : kept[i].id = r.id
        BY <3>2 DEF RowIds
      <4>2. In(i)
        BY <4>1, RowIdsOf
      <4>3. mine[i] \in RowSet(incoming) /\ mine[i].id = r.id
        BY <1>5, <1>7, <2>6, <4>1, <4>2
      <4>4. mine[i] = r
        BY <2>7, <4>3
      <4> QED BY <1>7, <4>1, <4>4 DEF RowSet
    <3> QED BY <3>1, <3>2
  <2> HIDE DEF In
  <2>11. RowSet(mine) \union RowSet(new) =
            {r \in RowSet(kept) : r.id \notin RowIds(incoming)} \union RowSet(incoming)
    BY <1>2, <2>8, <2>9, <2>10
  <2>12. {r \in RowSet(kept) : r.id \notin RowIds(incoming)}
            = {r \in RowSet(held) : r.id \notin removed /\ r.id \notin RowIds(incoming)}
    BY <1>1
  <2> QED BY <1>3, <2>5, <2>11, <2>12
<1> QED BY <1>10, <1>11

\* A page of a list.
LEMMA PageRows ==
    ASSUME touched \in [Sessions -> Nat], listed \subseteq Sessions, NEW q, NEW off \in Nat
    PROVE  /\ Listing(q) \in Seq(HomeRow) /\ Distinct(Listing(q))
           /\ RowSet(Listing(q)) = {RowNow(s) : s \in {t \in listed : Matches(t, q)}}
           /\ PageAt(q, off) \in Seq(HomeRow)
           /\ off <= Len(Listing(q)) =>
                 /\ Len(PageAt(q, off)) = IF off + PageSize < Len(Listing(q)) THEN PageSize
                                          ELSE Len(Listing(q)) - off
                 /\ \A i \in DOMAIN PageAt(q, off) :
                       off + i \in DOMAIN Listing(q) /\ PageAt(q, off)[i] = Listing(q)[off + i]
<1> DEFINE all == Listing(q)
           ids == {s \in listed : Matches(s, q)}
           b == IF off + PageSize < Len(all) THEN off + PageSize ELSE Len(all)
<1>1. all = Newest(ids) /\ ids \in SUBSET Sessions
    BY DEF Listing
<1>2. all \in Seq(HomeRow) /\ Distinct(all) /\ RowSet(all) = {RowNow(s) : s \in ids}
    BY <1>1, NewestRows
<1>3. PageAt(q, off) = SubSeq(all, off + 1, b)
    BY DEF PageAt
<1> HIDE DEF all
<1>4. Len(all) \in Nat /\ DOMAIN all = 1 .. Len(all) /\ \A i \in 1 .. Len(all) : all[i] \in HomeRow
    BY <1>2
<1>5. b \in Int /\ b <= Len(all) /\ \A i \in off + 1 .. b : all[i] \in HomeRow
    BY <1>4, PageAssumption
<1>6. /\ PageAt(q, off) \in Seq(HomeRow)
      /\ Len(PageAt(q, off)) = IF off + 1 <= b THEN b - (off + 1) + 1 ELSE 0
      /\ \A i \in 1 .. b - (off + 1) + 1 : PageAt(q, off)[i] = all[off + 1 + i - 1]
    BY <1>3, <1>5, SubSeqProperties
<1>7. ASSUME off <= Len(all)
      PROVE  /\ Len(PageAt(q, off)) = IF off + PageSize < Len(all) THEN PageSize ELSE Len(all) - off
             /\ \A i \in DOMAIN PageAt(q, off) : off + i \in DOMAIN all /\ PageAt(q, off)[i] = all[off + i]
  <2>1. off <= b /\ b - (off + 1) + 1 = b - off
    BY <1>4, <1>7, PageAssumption
  <2>2. Len(PageAt(q, off)) = b - off
    BY <1>5, <1>6, <2>1
  <2>3. DOMAIN PageAt(q, off) = 1 .. b - off
    BY <1>6, <2>2
  <2>4. \A i \in 1 .. b - off : off + i \in 1 .. Len(all) /\ off + 1 + i - 1 = off + i
    BY <1>4, <1>5
  <2>5. b - off = IF off + PageSize < Len(all) THEN PageSize ELSE Len(all) - off
    BY <1>4, PageAssumption
  <2> HIDE DEF b
  <2> QED BY <1>4, <1>6, <2>1, <2>2, <2>3, <2>4, <2>5
<1> QED BY <1>2, <1>6, <1>7 DEF all

-----------------------------------------------------------------------------
(* The loads of the home list. *)

\* A load between _begin_sessions_load and _finish_sessions_load.
Runs(l) == load[l].pc \notin {"none", "begin"}
LoadFields == {"pc", "gen", "quiet", "since", "delta", "query", "off", "got", "gone", "base", "rev",
               "shift"}

LoadsShape ==
    /\ gen \in Nat /\ busy \in BOOLEAN
    /\ DOMAIN load = Loaders
    /\ \A l \in Loaders : DOMAIN load[l] = LoadFields /\ load[l].gen \in 0 .. gen

\* Each load that runs has a generation of its own.
OwnGenerations == \A l, k \in Loaders : Runs(l) /\ Runs(k) /\ load[l].gen = load[k].gen => l = k

BusyInv == LoadsShape /\ OwnGenerations /\ BusyIsNewest

-----------------------------------------------------------------------------
\* A step that neither begins nor ends a load leaves busy right.
LEMMA LoadsGoOn ==
    ASSUME BusyInv, UNCHANGED <<gen, busy>>, DOMAIN load' = Loaders,
           \A l \in Loaders :
               /\ DOMAIN load'[l] = LoadFields /\ load'[l].gen \in 0 .. gen
               /\ load'[l].pc \notin {"none", "begin"} <=> Runs(l)
               /\ Runs(l) => load'[l].gen = load[l].gen
    PROVE  BusyInv'
<1>1. LoadsShape'
    BY DEF BusyInv, LoadsShape
<1>2. OwnGenerations'
    BY DEF BusyInv, OwnGenerations, Runs
<1>3. BusyIsNewest'
    BY DEF BusyInv, BusyIsNewest, Runs, Current
<1> QED BY <1>1, <1>2, <1>3 DEF BusyInv

\* So does one that moves a single load on.
LEMMA LoadMovesOn ==
    ASSUME BusyInv, UNCHANGED <<gen, busy>>, NEW l \in Loaders, NEW r,
           load' = [load EXCEPT ![l] = r], Runs(l),
           DOMAIN r = LoadFields, r.gen = load[l].gen, r.pc \notin {"none", "begin"}
    PROVE  BusyInv'
<1>1. DOMAIN load = Loaders /\ \A k \in Loaders : DOMAIN load[k] = LoadFields /\ load[k].gen \in 0 .. gen
    BY DEF BusyInv, LoadsShape
<1>2. \A k \in Loaders : load'[k] = IF k = l THEN r ELSE load[k]
    BY <1>1
<1>3. DOMAIN load' = Loaders
    BY <1>1
<1>4. ASSUME NEW k \in Loaders
      PROVE  /\ DOMAIN load'[k] = LoadFields /\ load'[k].gen \in 0 .. gen
             /\ load'[k].pc \notin {"none", "begin"} <=> Runs(k)
             /\ Runs(k) => load'[k].gen = load[k].gen
    BY <1>1, <1>2 DEF Runs
<1> QED BY <1>3, <1>4, LoadsGoOn

\* What the steps of a load put in its place.
LEMMA LoadRecords ==
    ASSUME LoadsShape, NEW l \in Loaders
    PROVE  /\ DOMAIN NoLoad = LoadFields /\ NoLoad.gen = 0 /\ NoLoad.pc = "none"
           /\ DOMAIN Over(l) = LoadFields /\ Over(l).gen = load[l].gen /\ Over(l).pc = "finish"
           /\ \A pc : DOMAIN At(l, pc) = LoadFields /\ At(l, pc).gen = load[l].gen /\ At(l, pc).pc = pc
<1>1. DOMAIN load[l] = LoadFields
    BY DEF LoadsShape
<1>2. DOMAIN NoLoad = LoadFields /\ NoLoad.gen = 0 /\ NoLoad.pc = "none"
    BY DEF NoLoad, LoadFields
<1>3. DOMAIN Over(l) = LoadFields /\ Over(l).gen = load[l].gen /\ Over(l).pc = "finish"
    BY <1>2 DEF Over, LoadFields
<1>4. \A pc : DOMAIN At(l, pc) = LoadFields /\ At(l, pc).gen = load[l].gen /\ At(l, pc).pc = pc
    BY <1>1 DEF At, LoadFields
<1> QED BY <1>2, <1>3, <1>4

\* The beginning of a thread, of a load in it, and its end.
LEMMA ThreadStarts ==
    ASSUME BusyInv, NEW quiet, StartsLoad(quiet), UNCHANGED <<gen, busy>>
    PROVE  BusyInv'
<1>1. PICK l \in Loaders : /\ LoaderFree(l)
                           /\ load' = [load EXCEPT ![l] = [NoLoad EXCEPT !.pc = "begin", !.quiet = quiet]]
    BY DEF StartsLoad
<1> DEFINE r == [NoLoad EXCEPT !.pc = "begin", !.quiet = quiet]
<1>2. LoadsShape /\ DOMAIN load = Loaders /\ gen \in Nat
    BY DEF BusyInv, LoadsShape
<1>3. DOMAIN r = LoadFields /\ r.gen = 0 /\ r.pc = "begin"
    BY DEF NoLoad, LoadFields
<1>4. load' = [load EXCEPT ![l] = r]
    BY <1>1
<1> HIDE DEF r
<1>5. \A k \in Loaders : load'[k] = IF k = l THEN r ELSE load[k]
    BY <1>2, <1>4
<1>6. DOMAIN load' = Loaders
    BY <1>2, <1>4
<1>7. ASSUME NEW k \in Loaders
      PROVE  /\ DOMAIN load'[k] = LoadFields /\ load'[k].gen \in 0 .. gen
             /\ load'[k].pc \notin {"none", "begin"} <=> Runs(k)
             /\ Runs(k) => load'[k].gen = load[k].gen
  <2>1. CASE k = l
    <3>1. load'[k] = r /\ ~Runs(k)
      BY <1>1, <1>5, <2>1 DEF Runs, LoaderFree
    <3>2. 0 \in 0 .. gen
      BY <1>2
    <3> QED BY <1>3, <3>1, <3>2
  <2>2. CASE k # l
    <3>1. load'[k] = load[k]
      BY <1>5, <2>2
    <3> QED BY <1>2, <3>1 DEF Runs, LoadsShape
  <2> QED BY <2>1, <2>2
<1> QED BY <1>6, <1>7, LoadsGoOn

\* A load that begins takes a generation no other has, and sets busy.
LEMMA NextLoadBegins ==
    ASSUME BusyInv, NEW l \in Loaders, ListLoadBegins(l)
    PROVE  BusyInv'
<1> DEFINE r == [At(l, IF applied # "" THEN "refresh" ELSE "ask") EXCEPT !.gen = gen + 1]
<1>1. LoadsShape /\ DOMAIN load = Loaders /\ gen \in Nat
    BY DEF BusyInv, LoadsShape
<1>2. load' = [load EXCEPT ![l] = r] /\ gen' = gen + 1 /\ busy' = TRUE
    BY DEF ListLoadBegins, Goes
<1>3. DOMAIN r = LoadFields /\ r.gen = gen + 1 /\ r.pc \notin {"none", "begin"}
  <2> DEFINE pc == IF applied # "" THEN "refresh" ELSE "ask"
             q == At(l, pc)
  <2>1. DOMAIN q = LoadFields /\ q.pc = pc
    BY <1>1, LoadRecords
  <2>2. pc \notin {"none", "begin"}
    OBVIOUS
  <2>3. r = [q EXCEPT !.gen = gen + 1]
    OBVIOUS
  <2> HIDE DEF q, pc, r
  <2> QED BY <2>1, <2>2, <2>3 DEF LoadFields
<1> HIDE DEF r
<1>4. \A k \in Loaders : load'[k] = IF k = l THEN r ELSE load[k]
    BY <1>1, <1>2
<1>5. LoadsShape'
    BY <1>1, <1>2, <1>3, <1>4 DEF LoadsShape
<1>6. OwnGenerations'
    BY <1>1, <1>2, <1>3, <1>4 DEF OwnGenerations, BusyInv, LoadsShape, Runs
<1>7. BusyIsNewest'
    BY <1>2, <1>3, <1>4 DEF BusyIsNewest, Current
<1> QED BY <1>5, <1>6, <1>7 DEF BusyInv

\* A load that ends clears busy only if it is the newest.
LEMMA LoadEndsRight ==
    ASSUME BusyInv, NEW l \in Loaders, LoadEnds(l)
    PROVE  BusyInv'
<1>1. LoadsShape /\ DOMAIN load = Loaders /\ gen \in Nat
    BY DEF BusyInv, LoadsShape
<1>2. load' = [load EXCEPT ![l] = NoLoad] /\ load[l].pc = "finish" /\ gen' = gen
      /\ busy' = (busy /\ ~Current(l))
    BY DEF LoadEnds, Goes, Finished
<1>3. \A k \in Loaders : load'[k] = IF k = l THEN NoLoad ELSE load[k]
    BY <1>1, <1>2
<1>4. LoadsShape'
    BY <1>1, <1>2, <1>3, LoadRecords DEF LoadsShape
<1>5. OwnGenerations'
    BY <1>1, <1>3, LoadRecords DEF OwnGenerations, BusyInv, Runs
<1>6. BusyIsNewest'
  <2>1. Runs(l)
    BY <1>2 DEF Runs
  <2>2. \A k \in Loaders : (Runs(k))' <=> Runs(k) /\ k # l
    BY <1>1, <1>3, LoadRecords DEF Runs
  <2>3. \A k \in Loaders : k # l => ((Current(k))' <=> Current(k))
    BY <1>2, <1>3 DEF Current
  <2>4. Current(l) => \A k \in Loaders : Runs(k) /\ Current(k) => k = l
    BY <2>1 DEF BusyInv, OwnGenerations, Current
  <2>5. busy <=> \E k \in Loaders : Runs(k) /\ Current(k)
    BY DEF BusyInv, BusyIsNewest, Runs
  <2>6. busy' <=> \E k \in Loaders : (Runs(k))' /\ (Current(k))'
    BY <1>2, <2>2, <2>3, <2>4, <2>5
  <2> QED BY <2>6 DEF BusyIsNewest, Runs
<1> QED BY <1>4, <1>5, <1>6 DEF BusyInv

-----------------------------------------------------------------------------
\* The steps in the middle of a load.
Middle(l) ==
    \/ LoadRefreshes(l) \/ LoadAsksList(l) \/ LoadReplies(l) \/ LoadDrains(l) \/ LoadStores(l)
    \/ LoadShows(l) \/ LoadFills(l) \/ LoadFillMerges(l) \/ LoadFillApplies(l)
    \/ LoadFillPaints(l) \/ LoadFails(l)

\* The fields a step of a load sets leave its generation alone.
LEMMA MiddleRecord ==
    ASSUME LoadsShape, NEW l \in Loaders, Middle(l)
    PROVE  \E r : /\ Goes(l, load[l].pc, r) /\ Runs(l)
                  /\ DOMAIN r = LoadFields /\ r.gen = load[l].gen /\ r.pc \notin {"none", "begin"}
<1> DEFINE Fit(r) == DOMAIN r = LoadFields /\ r.gen = load[l].gen /\ r.pc \notin {"none", "begin"}
<1>0. DOMAIN load[l] = LoadFields
    BY DEF LoadsShape
<1>1. Fit(Over(l)) /\ \A pc : pc \notin {"none", "begin"} => Fit(At(l, pc))
    BY LoadRecords
<1>2. CASE LoadRefreshes(l)
    BY <1>1, <1>2 DEF LoadRefreshes, Goes, Runs
<1>3. CASE LoadAsksList(l)
  <2> DEFINE a == [load[l] EXCEPT !.query = applied, !.since = revision, !.delta = UseDelta(l, applied),
                                  !.pc = IF applied # "" THEN "drain" ELSE "reply"]
  <2>1. Goes(l, "ask", a)
    BY <1>3 DEF LoadAsksList
  <2>2. Fit(a)
    BY <1>0 DEF LoadFields
  <2> HIDE DEF a
  <2> QED BY <2>1, <2>2 DEF Goes, Runs
<1>4. CASE LoadReplies(l)
  <2> DEFINE d == load[l]
             a == [At(l, "store") EXCEPT !.got = Upserted(d.since), !.gone = Removed(d.since), !.rev = rev]
             b == [At(l, "drain") EXCEPT !.delta = FALSE]
             c == [At(l, "store") EXCEPT !.got = PageAt("", 0), !.rev = rev,
                                         !.off = NextOffset(0, Len(PageAt("", 0)), Len(Listing("")))]
  <2>1. PICK r : Goes(l, "reply", r) /\ r \in {Over(l), a, b, c}
    BY <1>4 DEF LoadReplies
  <2>2. Fit(a) /\ Fit(b) /\ Fit(c)
    BY <1>1 DEF LoadFields
  <2> HIDE DEF a, b, c
  <2> QED BY <1>1, <2>1, <2>2 DEF Goes, Runs
<1>5. CASE LoadDrains(l)
  <2>1. Goes(l, "drain", Drained(load[l], "store"))
    BY <1>5 DEF LoadDrains
  <2>2. load[l].pc = "drain" => Fit(Drained(load[l], "store"))
    BY <1>0 DEF Drained, LoadFields
  <2> QED BY <2>1, <2>2 DEF Goes, Runs
<1>6. CASE LoadStores(l)
  <2> DEFINE a == [At(l, "apply") EXCEPT !.base = rows, !.got = Merged(rows, load[l].got, load[l].gone), !.gone = {}]
  <2>1. PICK r : Goes(l, "store", r) /\ r \in {Over(l), a, At(l, "apply")}
    BY <1>6 DEF LoadStores
  <2>2. Fit(a)
    BY <1>1 DEF LoadFields
  <2> HIDE DEF a
  <2> QED BY <1>1, <2>1, <2>2 DEF Goes, Runs
<1>7. CASE LoadShows(l)
    BY <1>1, <1>7 DEF LoadShows, Goes, Runs
<1>8. CASE LoadFills(l)
  <2> DEFINE page == PageAt("", load[l].off)
             a == [At(l, "fillmerge") EXCEPT !.base = rows, !.got = page,
                       !.off = NextOffset(load[l].off, Len(page), Len(Listing(""))),
                       !.shift = @ \/ load[l].rev # rev \/ rows # load[l].got, !.rev = rev]
  <2>1. PICK r : Goes(l, "fill", r) /\ r \in {Over(l), a}
    BY <1>8 DEF LoadFills
  <2>2. Fit(a)
    BY <1>1 DEF LoadFields
  <2> HIDE DEF a
  <2> QED BY <1>1, <2>1, <2>2 DEF Goes, Runs
<1>9. CASE LoadFillApplies(l)
  <2> DEFINE a == [At(l, "fillpaint") EXCEPT !.base = <<>>, !.shift = @ \/ rows # load[l].base]
  <2>1. PICK r : Goes(l, "fillapply", r) /\ r \in {Over(l), a}
    BY <1>9 DEF LoadFillApplies
  <2>2. Fit(a)
    BY <1>1 DEF LoadFields
  <2> HIDE DEF a
  <2> QED BY <1>1, <2>1, <2>2 DEF Goes, Runs
<1>10. CASE LoadFillPaints(l)
  <2>1. PICK r, kept : Goes(l, "fillpaint", r) /\ r \in {Over(l), [At(l, "fill") EXCEPT !.shift = ~kept]}
    BY <1>10 DEF LoadFillPaints
  <2>2. Fit([At(l, "fill") EXCEPT !.shift = ~kept])
    BY <1>1 DEF LoadFields
  <2> QED BY <1>1, <2>1, <2>2 DEF Goes, Runs
<1>11. CASE LoadFails(l)
    BY <1>1, <1>11 DEF LoadFails, Goes, Runs
<1>12. CASE LoadFillMerges(l)
  <2> DEFINE a == [At(l, "fillapply") EXCEPT !.base = rows, !.got = Merged(rows, load[l].got, {}),
                                            !.shift = @ \/ rows # load[l].base]
  <2>1. Goes(l, "fillmerge", a)
    BY <1>12 DEF LoadFillMerges
  <2>2. Fit(a)
    BY <1>1 DEF LoadFields
  <2> HIDE DEF a
  <2> QED BY <2>1, <2>2 DEF Goes, Runs
<1> QED BY <1>2, <1>3, <1>4, <1>5, <1>6, <1>7, <1>8, <1>9, <1>10, <1>11, <1>12 DEF Middle

\* The middle of a load moves neither its generation nor busy.
LEMMA MiddleKeeps ==
    ASSUME BusyInv, NEW l \in Loaders, Middle(l)
    PROVE  BusyInv'
<1>1. PICK r : /\ Goes(l, load[l].pc, r) /\ Runs(l)
               /\ DOMAIN r = LoadFields /\ r.gen = load[l].gen /\ r.pc \notin {"none", "begin"}
    BY MiddleRecord DEF BusyInv
<1>2. UNCHANGED <<gen, busy>>
    BY DEF Middle, LoadRefreshes, LoadAsksList, LoadReplies, LoadDrains, LoadStores,
           LoadShows, LoadFills, LoadFillMerges, LoadFillApplies, LoadFillPaints, LoadFails
<1> QED BY <1>1, <1>2, LoadMovesOn DEF Goes

\* What others installed is replaced: only shift moves.
LEMMA OvertakenKeeps ==
    ASSUME NEW ld, NEW others, NEW k \in Loaders, DOMAIN ld[k] = LoadFields
    PROVE  /\ DOMAIN Overtaken(ld, others) = Loaders
           /\ DOMAIN Overtaken(ld, others)[k] = LoadFields
           /\ Overtaken(ld, others)[k].gen = ld[k].gen /\ Overtaken(ld, others)[k].pc = ld[k].pc
BY DEF Overtaken, LoadFields

\* Nor does installing rows, which marks the other loads overtaken.
LEMMA AppliesKeeps ==
    ASSUME BusyInv, NEW l \in Loaders, LoadApplies(l)
    PROVE  BusyInv'
<1>1. LoadsShape /\ DOMAIN load = Loaders /\ DOMAIN load[l] = LoadFields /\ UNCHANGED <<gen, busy>> /\ Runs(l)
    BY DEF BusyInv, LoadsShape, LoadApplies, Is, Runs
<1>2. CASE ~Current(l)
  <2>1. load' = [load EXCEPT ![l] = Over(l)]
    BY <1>2 DEF LoadApplies
  <2> QED BY <1>1, <2>1, LoadMovesOn, LoadRecords
<1>3. CASE Current(l)
  <2> DEFINE r == [load[l] EXCEPT !.pc = "paint", !.base = <<>>]
             mid == [load EXCEPT ![l] = r]
  <2>1. load' = Overtaken(mid, Loaders \ {l})
    BY <1>3 DEF LoadApplies
  <2>2. DOMAIN r = LoadFields /\ r.gen = load[l].gen /\ r.pc = "paint"
    BY <1>1 DEF LoadFields
  <2> HIDE DEF r
  <2>3. \A k \in Loaders : mid[k] = IF k = l THEN r ELSE load[k]
    BY <1>1
  <2> HIDE DEF mid
  <2>4. ASSUME NEW k \in Loaders
        PROVE  /\ DOMAIN load'[k] = LoadFields /\ load'[k].gen \in 0 .. gen
               /\ load'[k].pc \notin {"none", "begin"} <=> Runs(k)
               /\ Runs(k) => load'[k].gen = load[k].gen
    <3>1. DOMAIN mid[k] = LoadFields /\ mid[k].gen = load[k].gen
          /\ (mid[k].pc \notin {"none", "begin"} <=> Runs(k))
      BY <1>1, <2>2, <2>3 DEF LoadsShape, Runs
    <3>2. DOMAIN load'[k] = LoadFields /\ load'[k].gen = mid[k].gen /\ load'[k].pc = mid[k].pc
      BY <2>1, <3>1, OvertakenKeeps
    <3> QED BY <1>1, <3>1, <3>2 DEF LoadsShape
  <2>5. DOMAIN load' = Loaders
    BY <2>1 DEF Overtaken
  <2> QED BY <1>1, <2>4, <2>5, LoadsGoOn
<1> QED BY <1>2, <1>3

\* Nor does the search pass when it installs its hits.
LEMMA PassAppliesKeeps ==
    ASSUME BusyInv, PassApplies
    PROVE  BusyInv'
<1>1. LoadsShape /\ DOMAIN load = Loaders /\ UNCHANGED <<gen, busy>>
    BY DEF BusyInv, LoadsShape, PassApplies
<1>2. CASE load' = load
    BY <1>1, <1>2, LoadsGoOn DEF LoadsShape, Runs
<1>3. CASE load' = Overtaken(load, Loaders)
  <2>1. ASSUME NEW k \in Loaders
        PROVE  DOMAIN load'[k] = LoadFields /\ load'[k].gen = load[k].gen /\ load'[k].pc = load[k].pc
    BY <1>1, <1>3, OvertakenKeeps DEF LoadsShape
  <2>2. DOMAIN load' = Loaders
    BY <1>3 DEF Overtaken
  <2> QED BY <1>1, <2>1, <2>2, LoadsGoOn DEF LoadsShape, Runs
<1> QED BY <1>2, <1>3 DEF PassApplies

\* A step that leaves the loads alone.
LEMMA LoadsLeftAlone ==
    ASSUME BusyInv, UNCHANGED <<gen, busy, load>>
    PROVE  BusyInv'
BY DEF BusyInv, LoadsShape, OwnGenerations, BusyIsNewest, Runs, Current

-----------------------------------------------------------------------------
\* Every step keeps busy with the newest load.
LEMMA BusyStep == BusyInv /\ [HomeNext]_homeVars => BusyInv'
<1> SUFFICES ASSUME BusyInv, [HomeNext]_homeVars PROVE BusyInv'
    OBVIOUS
<1>1. CASE UNCHANGED homeVars
    BY <1>1, LoadsLeftAlone DEF homeVars
<1>2. CASE \E s \in Sessions : OwnerTouches(s) \/ OwnerDrops(s) \/ OwnerGaps(s) \/ DeleteAsks(s)
                                 \/ DeleteDrops(s)
    BY <1>2, LoadsLeftAlone DEF OwnerTouches, OwnerDrops, OwnerGaps, DeleteAsks, DeleteDrops, Changed
<1>3. CASE RefreshSessionsList \/ SearchChanges \/ PassFails \/ Hear
    BY <1>3, LoadsLeftAlone DEF RefreshSessionsList, SearchChanges, PassFails, Hear
<1>4. CASE PassReads \/ PassDrains \/ PassEnds
    BY <1>4, LoadsLeftAlone DEF PassReads, PassDrains, PassEnds
<1>5. CASE PassApplies
    BY <1>5, PassAppliesKeeps
<1>6. CASE FireReload
    BY <1>6, ThreadStarts DEF FireReload
<1>7. CASE ApplySearch
  <2>1. UNCHANGED <<gen, busy>> /\ (UNCHANGED load \/ StartsLoad(TRUE))
    BY <1>7 DEF ApplySearch
  <2> QED BY <2>1, ThreadStarts, LoadsLeftAlone
<1>8. ASSUME NEW l \in Loaders, LoadStep(l) \/ LoadFails(l) PROVE BusyInv'
  <2>1. ListLoadBegins(l) \/ Middle(l) \/ LoadApplies(l) \/ LoadEnds(l)
    BY <1>8 DEF LoadStep, Middle
  <2> QED BY <2>1, NextLoadBegins, MiddleKeeps, AppliesKeeps, LoadEndsRight
<1> QED BY <1>1, <1>2, <1>3, <1>4, <1>5, <1>6, <1>7, <1>8 DEF HomeNext, HomeStep, PassStep

\* At the start no load runs.
LEMMA BusyStarts == HomeInit => BusyInv
<1> SUFFICES ASSUME HomeInit PROVE BusyInv
    OBVIOUS
<1>1. gen = 0 /\ busy = FALSE /\ load = [l \in Loaders |-> NoLoad]
    BY DEF HomeInit
<1>2. NoLoad.pc = "none" /\ NoLoad.gen = 0 /\ DOMAIN NoLoad = LoadFields
    BY DEF NoLoad, LoadFields
<1>3. LoadsShape
  <2>1. DOMAIN load = Loaders /\ \A l \in Loaders : load[l] = NoLoad
    BY <1>1
  <2>2. 0 \in 0 .. gen
    BY <1>1
  <2> QED BY <1>1, <1>2, <2>1, <2>2 DEF LoadsShape
<1>4. \A l \in Loaders : ~Runs(l)
    BY <1>1, <1>2 DEF Runs
<1> QED BY <1>1, <1>3, <1>4 DEF BusyInv, OwnGenerations, BusyIsNewest, Runs

\* The spinner and the live scan go by busy: it is set exactly while the newest
\* load runs, whichever loads end, fail or are overtaken before or after it
\* (_begin_sessions_load and _finish_sessions_load of app.py, with any number of
\* load threads).
THEOREM BusyAlwaysNewest == HomeSpec => []BusyIsNewest
<1>1. BusyInv => BusyIsNewest
    BY DEF BusyInv
<1> QED BY <1>1, BusyStarts, BusyStep, PTL DEF HomeSpec

-----------------------------------------------------------------------------
(* What reading the list brings.                                           *)

\* The list without a query, and its pages.
Whole == Listing("")
WholePage(off) == PageAt("", off)

\* It has each listed session once, and its pages follow each other.
LEMMA WholeRows ==
    ASSUME touched \in [Sessions -> Nat], listed \subseteq Sessions
    PROVE  /\ Whole \in Seq(HomeRow) /\ Distinct(Whole)
           /\ RowSet(Whole) = {RowNow(s) : s \in listed}
           /\ \A off \in Nat :
                 /\ WholePage(off) \in Seq(HomeRow)
                 /\ off <= Len(Whole) =>
                       /\ Len(WholePage(off)) = IF off + PageSize < Len(Whole) THEN PageSize
                                                ELSE Len(Whole) - off
                       /\ \A i \in DOMAIN WholePage(off) :
                             off + i \in DOMAIN Whole /\ WholePage(off)[i] = Whole[off + i]
<1>1. {t \in listed : Matches(t, "")} = listed
    BY DEF Matches
<1>2. RowSet(Whole) = {RowNow(s) : s \in {t \in listed : Matches(t, "")}}
    BY PageRows, 0 \in Nat DEF Whole
<1>3. Whole \in Seq(HomeRow) /\ Distinct(Whole)
    BY PageRows, 0 \in Nat DEF Whole
<1>4. ASSUME NEW off \in Nat
      PROVE  /\ WholePage(off) \in Seq(HomeRow)
             /\ off <= Len(Whole) =>
                       /\ Len(WholePage(off)) = IF off + PageSize < Len(Whole) THEN PageSize
                                                ELSE Len(Whole) - off
                       /\ \A i \in DOMAIN WholePage(off) :
                             off + i \in DOMAIN Whole /\ WholePage(off)[i] = Whole[off + i]
    BY PageRows DEF Whole, WholePage
<1> QED BY <1>1, <1>2, <1>3, <1>4

-----------------------------------------------------------------------------
(* The inductive invariant of what the home list has taken in.  t and ls    *)
(* are the owner's last touches and who is listed, v its revision, all what *)
(* it lists.                                                                *)

\* Rows that are right about every session last touched by revision r.
Covers(rs, r, t, ls) ==
    /\ Distinct(rs)
    /\ \A s \in Sessions : t[s] <= r =>
          IF s \in ls THEN [id |-> s, ver |-> t[s]] \in RowSet(rs) ELSE s \notin RowIds(rs)

\* Rows that are the first so many of the list, which has more.
Begins(rs, off, all) ==
    /\ Distinct(rs) /\ off < Len(all)
    /\ RowSet(rs) = {all[i] : i \in 1 .. off}

\* What a delta says of the sessions touched after one revision, up to another.
Tells(got, gone, since, r, t, ls) ==
    /\ Distinct(got)
    /\ \A s \in RowIds(got) \union gone : t[s] > since
    /\ \A s \in RowIds(got) : s \notin gone
    /\ \A s \in Sessions : since < t[s] /\ t[s] <= r =>
          IF s \in ls THEN [id |-> s, ver |-> t[s]] \in RowSet(got) ELSE s \in gone

PassShape(p, v) ==
    /\ DOMAIN p = {"pc", "gen", "query", "off", "got", "rev", "shift"}
    /\ p.got \in Seq(HomeRow) /\ p.rev \in 0 .. v /\ p.off \in Nat /\ p.shift \in BOOLEAN
HomeShape ==
    /\ rev \in Nat /\ revision \in 0 .. rev
    /\ listed \subseteq Sessions /\ touched \in [Sessions -> 0 .. rev]
    /\ slice \in BOOLEAN /\ torn \in BOOLEAN
    /\ rows \in Seq(HomeRow)
    /\ PassShape(pass, rev)

\* A load begins with nothing; once it has stored its answer only a first page
\* without a query has pages left.
LoadShape(d, v) ==
    /\ DOMAIN d = LoadFields
    /\ d.since \in 0 .. v /\ d.rev \in 0 .. v /\ d.off \in Nat
    /\ d.got \in Seq(HomeRow) /\ d.gone \subseteq Sessions
    /\ d.delta \in BOOLEAN /\ d.shift \in BOOLEAN
    /\ d.pc \in {"begin", "ask", "reply"} => d.off = 0 /\ d.got = <<>>
    /\ d.pc = "reply" => d.query = ""
    /\ d.pc = "drain" => ~d.delta
    /\ d.pc \in {"store", "apply", "paint"} /\ (d.delta \/ d.query # "") => d.off = 0
    /\ d.pc \in {"fill", "fillmerge", "fillapply", "fillpaint"} => ~d.delta /\ d.query = ""
    /\ d.pc = "fill" => d.off # 0
    /\ d.pc = "fillmerge" => d.base \in Seq(HomeRow)

\* What a load without a query has read of the list, if nothing disturbed it.
WholeIsRead(d, v, t, ls, all) ==
    ~d.delta /\ d.query = "" /\ ~d.shift =>
        /\ d.pc = "drain" /\ d.off = 0 => d.got = <<>>
        /\ d.pc \in {"store", "apply", "paint", "fillapply", "fillpaint"} /\ d.off = 0
              => Covers(d.got, d.rev, t, ls)
        /\ d.pc \in {"drain", "store", "apply", "paint", "fill", "fillapply", "fillpaint"}
              /\ d.off # 0 /\ d.rev = v => Begins(d.got, d.off, all)
        /\ d.pc = "fillmerge" /\ d.off = 0
              => Covers(Merged(d.base, d.got, {}), d.rev, t, ls)
        /\ d.pc = "fillmerge" /\ d.off # 0 /\ d.rev = v
              => Begins(Merged(d.base, d.got, {}), d.off, all)
DeltaIsRead(d, t, ls) ==
    d.delta /\ d.pc = "store" => Tells(d.got, d.gone, d.since, d.rev, t, ls)
Fits(d, v, t, ls, all) == LoadShape(d, v) /\ WholeIsRead(d, v, t, ls, all) /\ DeltaIsRead(d, t, ls)
LoadsFit == \A l \in Loaders : Fits(load[l], rev, touched, listed, Whole)

\* A load about to install a whole list, or to say that its rows are hits.
Installing(d) ==
    \/ d.pc = "apply"
    \/ d.pc = "paint" /\ ~d.delta /\ d.query # ""
Excused(ls) == torn \/ slice \/ \E l \in ls : Installing(load[l])

KeptIsCovered == Excused(Loaders) \/ Covers(rows, revision, touched, listed)

\* The load that counts, at each of its places.
DeltaIsBased(l) ==
    LET d == load[l]
    IN /\ d.delta /\ d.pc \in {"reply", "store"}
            => Excused(Loaders) \/ Covers(rows, d.since, touched, listed)
       /\ d.delta /\ d.pc = "apply"
            => Excused(Loaders \ {l}) \/ Covers(d.got, d.rev, touched, listed)
PaintIsKept(d) ==
    /\ ~d.delta /\ d.query = "" /\ d.pc = "paint"
         => d.shift \/ torn \/ (d.off = 0 /\ revision = d.rev)
    /\ d.pc \in {"fill", "fillmerge", "fillapply", "fillpaint"} => torn \/ slice
NewestIsSound(l) == Current(l) => DeltaIsBased(l) /\ PaintIsKept(load[l])

KeptInv == HomeShape /\ LoadsFit /\ KeptIsCovered /\ \A l \in Loaders : NewestIsSound(l)
CoverInv == BusyInv /\ KeptInv

-----------------------------------------------------------------------------
(* What reading does. *)

\* The ids of rows that are what the owner has now.
LEMMA IdsOfNow ==
    ASSUME NEW rs, NEW ids, RowSet(rs) = {RowNow(s) : s \in ids}
    PROVE  RowIds(rs) = ids
<1>1. \A s : RowNow(s).id = s
    BY DEF RowNow
<1>2. \A x : x \in RowIds(rs) <=> \E r \in RowSet(rs) : x = r.id
    BY RowIdsOf
<1>3. \A x : x \in RowIds(rs) <=> x \in ids
  <2>1. ASSUME NEW x \in RowIds(rs) PROVE x \in ids
    <3>1. PICK r \in RowSet(rs) : x = r.id
      BY <1>2
    <3> QED BY <1>1, <3>1
  <2>2. ASSUME NEW x \in ids PROVE x \in RowIds(rs)
    <3>1. RowNow(x) \in RowSet(rs)
      OBVIOUS
    <3> QED BY <1>1, <1>2, <3>1
  <2> QED BY <2>1, <2>2
<1> QED BY <1>3

\* Rows that are the whole list cover any revision.
LEMMA ListIds ==
    ASSUME touched \in [Sessions -> Nat], listed \subseteq Sessions, NEW rs, Distinct(rs),
           RowSet(rs) = RowSet(Whole), NEW r
    PROVE  Covers(rs, r, touched, listed)
<1>1. RowSet(rs) = {RowNow(s) : s \in listed}
    BY WholeRows
<1>2. RowIds(rs) = listed
    BY <1>1, IdsOfNow
<1> QED BY <1>1, <1>2 DEF Covers, RowNow

\* A delta brings rows that are right up to a revision right up to its own.
LEMMA MergeCovers ==
    ASSUME touched \in [Sessions -> Nat], NEW since \in Nat, NEW r \in Nat,
           NEW held \in Seq(HomeRow), NEW got \in Seq(HomeRow), NEW gone,
           Covers(held, since, touched, listed), Tells(got, gone, since, r, touched, listed)
    PROVE  Covers(Merged(held, got, gone), r, touched, listed)
<1> DEFINE m == Merged(held, got, gone)
<1>1. /\ Distinct(m)
      /\ RowSet(m) = {q \in RowSet(held) : q.id \notin gone /\ q.id \notin RowIds(got)} \union RowSet(got)
    BY MergedRows DEF Covers, Tells
<1> HIDE DEF m
<1>2. ASSUME NEW s \in Sessions, touched[s] <= r
      PROVE  IF s \in listed THEN RowNow(s) \in RowSet(m) ELSE s \notin RowIds(m)
  <2>0. touched[s] \in Nat /\ RowNow(s).id = s
    BY DEF RowNow
  <2>1. RowIds(m) = {q.id : q \in RowSet(m)} /\ RowIds(held) = {q.id : q \in RowSet(held)}
        /\ RowIds(got) = {q.id : q \in RowSet(got)}
    BY RowIdsOf
  <2>2. CASE touched[s] <= since
    <3>1. s \notin RowIds(got) /\ s \notin gone
      BY <2>0, <2>2 DEF Tells
    <3>2. IF s \in listed THEN RowNow(s) \in RowSet(held) ELSE s \notin RowIds(held)
      BY <2>2 DEF Covers, RowNow
    <3> QED BY <1>1, <2>0, <2>1, <3>1, <3>2
  <2>3. CASE since < touched[s]
    <3>1. IF s \in listed THEN RowNow(s) \in RowSet(got) ELSE s \in gone
      BY <1>2, <2>3 DEF Tells, RowNow
    <3>2. s \in gone => s \notin RowIds(got)
      BY DEF Tells
    <3> QED BY <1>1, <2>0, <2>1, <3>1, <3>2
  <2> QED BY <2>0, <2>2, <2>3
<1> QED BY <1>1, <1>2 DEF Covers, RowNow, m

\* A delta as the owner answers it.
LEMMA DeltaTells ==
    ASSUME touched \in [Sessions -> 0 .. rev], rev \in Nat, listed \subseteq Sessions,
           NEW since \in Nat
    PROVE  /\ Upserted(since) \in Seq(HomeRow) /\ Removed(since) \subseteq Sessions
           /\ Tells(Upserted(since), Removed(since), since, rev, touched, listed)
<1> DEFINE ids == {s \in listed : touched[s] > since}
<1>1. touched \in [Sessions -> Nat] /\ ids \in SUBSET Sessions
    OBVIOUS
<1>2. /\ Upserted(since) \in Seq(HomeRow) /\ Distinct(Upserted(since))
      /\ RowSet(Upserted(since)) = {RowNow(s) : s \in ids}
    BY <1>1, NewestRows DEF Upserted
<1>3. RowIds(Upserted(since)) = ids
  <2> HIDE DEF ids
  <2> QED BY <1>2, IdsOfNow
<1> QED BY <1>2, <1>3 DEF Tells, Removed, RowNow

\* The next page goes on where the rows end, and leaves more or is the last.
LEMMA PageGoesOn ==
    ASSUME touched \in [Sessions -> Nat], listed \subseteq Sessions,
           NEW rs \in Seq(HomeRow), NEW off \in Nat,
           NEW all, all = Whole, Begins(rs, off, all),
           NEW page, page = WholePage(off),
           NEW next, next = NextOffset(off, Len(page), Len(all))
    PROVE  /\ page \in Seq(HomeRow) /\ page # <<>> /\ Distinct(page) /\ next \in Nat
           /\ off # 0 => page[1].id # rs[1].id
           /\ \A s \in RowIds(rs) : s \notin RowIds(page)
           /\ \A got, r : Distinct(got) /\ RowSet(got) = RowSet(rs) \union RowSet(page) =>
                 /\ next = 0 => Covers(got, r, touched, listed)
                 /\ next # 0 => Begins(got, next, all)
<1> DEFINE n == Len(page)
<1>1. off < Len(all) /\ Distinct(rs) /\ RowSet(rs) = {all[i] : i \in 1 .. off}
    BY DEF Begins
<1>2. all \in Seq(HomeRow) /\ Distinct(all) /\ page \in Seq(HomeRow)
    BY WholeRows
<1>3. Len(all) \in Nat /\ DOMAIN all = 1 .. Len(all) /\ n \in Nat /\ DOMAIN page = 1 .. n
    BY <1>2
<1>4. /\ n = IF off + PageSize < Len(all) THEN PageSize ELSE Len(all) - off
      /\ \A i \in 1 .. n : off + i \in 1 .. Len(all) /\ page[i] = all[off + i]
  <2>1. off <= Len(all)
    BY <1>1, <1>3
  <2>2. /\ n = IF off + PageSize < Len(all) THEN PageSize ELSE Len(all) - off
        /\ \A i \in DOMAIN page : off + i \in DOMAIN all /\ page[i] = all[off + i]
    <3> HIDE DEF n
    <3> QED BY <2>1, WholeRows DEF n
  <2> HIDE DEF n
  <2> QED BY <1>3, <2>2
<1>5. n \in Nat \ {0} /\ n <= PageSize /\ off + n <= Len(all)
  <2> DEFINE len == Len(all)
  <2>1. n = IF off + PageSize < len THEN PageSize ELSE len - off
    BY <1>4
  <2>2. off < len /\ len \in Nat
    BY <1>1, <1>3
  <2> HIDE DEF n, len
  <2>3. n \in Nat \ {0} /\ n <= PageSize /\ off + n <= len
    BY <2>1, <2>2, PageAssumption
  <2> QED BY <2>3 DEF len
<1>6. next \in Nat /\ (next = 0 => off + n = Len(all)) /\ (next # 0 => next = off + n /\ next < Len(all))
  <2>1. next = IF n < PageSize \/ off + n >= Len(all) THEN 0 ELSE off + n
    BY DEF NextOffset
  <2> DEFINE len == Len(all)
  <2>2. n = IF off + PageSize < len THEN PageSize ELSE len - off
    BY <1>4
  <2>3. off < len /\ len \in Nat
    BY <1>1, <1>3
  <2>4. next = IF n < PageSize \/ off + n >= len THEN 0 ELSE off + n
    BY <2>1
  <2> HIDE DEF n, len
  <2>5. next \in Nat /\ (next = 0 => off + n = len) /\ (next # 0 => next = off + n /\ next < len)
    BY <1>5, <2>2, <2>3, <2>4, PageAssumption
  <2> QED BY <2>5 DEF len
<1> HIDE DEF n
<1>7. page # <<>>
    BY <1>3, <1>5 DEF n
<1>8. \A i, j \in 1 .. Len(all) : all[i].id = all[j].id => i = j
    BY <1>2, <1>3 DEF Distinct
<1>9. Distinct(page)
  <2> SUFFICES ASSUME NEW i \in 1 .. n, NEW j \in 1 .. n, page[i].id = page[j].id PROVE i = j
    BY <1>3 DEF Distinct
  <2>1. off + i = off + j
    BY <1>4, <1>8
  <2> QED BY <2>1
<1>10. \A k \in RowIds(rs) : k \notin RowIds(page)
  <2> SUFFICES ASSUME NEW i \in 1 .. off, NEW j \in 1 .. n, all[i].id = page[j].id PROVE FALSE
    <3>1. \A k \in RowIds(rs) : \E i \in 1 .. off : k = all[i].id
      BY <1>1, RowIdsOf
    <3>2. \A k \in RowIds(page) : \E j \in 1 .. n : k = page[j].id
      BY <1>3 DEF RowIds
    <3> QED BY <3>1, <3>2
  <2>1. i \in 1 .. Len(all)
    BY <1>1, <1>3
  <2>2. i = off + j
    BY <1>4, <1>8, <2>1
  <2> QED BY <2>2
<1>11. off # 0 => page[1].id # rs[1].id
  <2> SUFFICES ASSUME off # 0 PROVE page[1].id # rs[1].id
    OBVIOUS
  <2>1. all[1] \in RowSet(rs)
    BY <1>1
  <2>2. rs # <<>>
    BY <2>1 DEF RowSet
  <2>3. 1 \in DOMAIN rs
    BY <2>2
  <2>4. rs[1].id \in RowIds(rs)
    BY <2>3 DEF RowIds
  <2>5. page[1].id \in RowIds(page)
    BY <1>3, <1>5 DEF RowIds
  <2> QED BY <1>10, <2>4, <2>5
<1>12. RowSet(page) = {all[i] : i \in off + 1 .. off + n}
  <2>1. ASSUME NEW i \in off + 1 .. off + n PROVE i - off \in 1 .. n /\ all[i] = page[i - off]
    <3>1. i - off \in 1 .. n /\ off + (i - off) = i
      BY <1>3, <1>5
    <3> QED BY <1>4, <3>1
  <2>2. \A i \in 1 .. n : off + i \in off + 1 .. off + n
    BY <1>3, <1>5
  <2>3. \A i \in off + 1 .. off + n : all[i] \in RowSet(page)
    BY <1>3, <2>1 DEF RowSet
  <2>4. ASSUME NEW r \in RowSet(page) PROVE \E i \in off + 1 .. off + n : r = all[i]
    <3>1. PICK j \in 1 .. n : r = page[j]
      BY <1>3 DEF RowSet
    <3>2. page[j] = all[off + j] /\ off + j \in off + 1 .. off + n
      BY <1>4, <2>2
    <3> QED BY <3>1, <3>2
  <2> QED BY <2>3, <2>4
<1>13. RowSet(rs) \union RowSet(page) = {all[i] : i \in 1 .. off + n}
  <2>1. 1 .. off + n = (1 .. off) \union (off + 1 .. off + n)
    BY <1>3
  <2> QED BY <1>1, <1>12, <2>1
<1>14. ASSUME NEW got, NEW r, Distinct(got), RowSet(got) = RowSet(rs) \union RowSet(page)
       PROVE  /\ next = 0 => Covers(got, r, touched, listed)
              /\ next # 0 => Begins(got, next, all)
  <2>1. CASE next = 0
    <3>1. RowSet(all) = {all[i] : i \in 1 .. off + n}
      BY <1>3, <1>6, <2>1 DEF RowSet
    <3>2. RowSet(got) = RowSet(all)
      BY <1>13, <1>14, <3>1
    <3> QED BY <1>14, <2>1, <3>2, ListIds
  <2>2. CASE next # 0
    BY <1>6, <1>13, <1>14, <2>2 DEF Begins
  <2> QED BY <2>1, <2>2
<1> QED BY <1>2, <1>6, <1>7, <1>9, <1>10, <1>11, <1>14 DEF n

-----------------------------------------------------------------------------
(* The owner's own steps take nothing from what was read.                  *)

TouchedOnce(s, v, t, ls, t2, ls2) ==
    /\ t \in [Sessions -> 0 .. v] /\ t2 = [t EXCEPT ![s] = v + 1]
    /\ \A k \in Sessions \ {s} : k \in ls2 <=> k \in ls
OwnerMoves(s) ==
    /\ rev' = rev + 1 /\ touched' = [touched EXCEPT ![s] = rev + 1]
    /\ listed' \subseteq Sessions /\ \A k \in Sessions \ {s} : k \in listed' <=> k \in listed
OwnerGoesOn == UNCHANGED <<rev, touched, listed>> \/ \E s \in Sessions : OwnerMoves(s)

\* A touch is after every revision read: rows that covered one still do.
LEMMA CoversStays ==
    ASSUME NEW v \in Nat, NEW t, NEW ls, NEW t2, NEW ls2, NEW s \in Sessions,
           TouchedOnce(s, v, t, ls, t2, ls2),
           NEW rs, NEW r \in 0 .. v, Covers(rs, r, t, ls)
    PROVE  Covers(rs, r, t2, ls2)
<1>1. ASSUME NEW k \in Sessions, t2[k] <= r
      PROVE  k # s /\ t2[k] = t[k] /\ (k \in ls2 <=> k \in ls)
    BY <1>1 DEF TouchedOnce
<1> QED BY <1>1 DEF Covers

\* So with what a delta tells.
LEMMA TellsStays ==
    ASSUME NEW v \in Nat, NEW t, NEW ls, NEW t2, NEW ls2, NEW s \in Sessions,
           TouchedOnce(s, v, t, ls, t2, ls2),
           NEW got \in Seq(HomeRow), NEW gone \in SUBSET Sessions,
           NEW since \in 0 .. v, NEW r \in 0 .. v, Tells(got, gone, since, r, t, ls)
    PROVE  Tells(got, gone, since, r, t2, ls2)
<1>1. RowIds(got) \subseteq Sessions
  <2>1. \A i \in DOMAIN got : got[i] \in HomeRow
    OBVIOUS
  <2>2. \A q \in HomeRow : q.id \in Sessions
    BY DEF HomeRow
  <2> QED BY <2>1, <2>2 DEF RowIds
<1>2. \A k \in Sessions : t2[k] = IF k = s THEN v + 1 ELSE t[k]
    BY DEF TouchedOnce
<1>3. \A k \in RowIds(got) \union gone : t2[k] > since
    BY <1>1, <1>2 DEF Tells
<1>4. ASSUME NEW k \in Sessions, since < t2[k], t2[k] <= r
      PROVE  IF k \in ls2 THEN [id |-> k, ver |-> t2[k]] \in RowSet(got) ELSE k \in gone
  <2>1. k # s /\ t2[k] = t[k] /\ (k \in ls2 <=> k \in ls)
    BY <1>2, <1>4 DEF TouchedOnce
  <2>2. IF k \in ls THEN [id |-> k, ver |-> t[k]] \in RowSet(got) ELSE k \in gone
    BY <1>4, <2>1 DEF Tells
  <2> QED BY <2>1, <2>2
<1> QED BY <1>3, <1>4 DEF Tells

\* And with what a load has read.
LEMMA FitsStays ==
    ASSUME NEW v \in Nat, NEW t, NEW ls, NEW t2, NEW ls2, NEW s \in Sessions,
           TouchedOnce(s, v, t, ls, t2, ls2),
           NEW d, NEW all, NEW all2, Fits(d, v, t, ls, all)
    PROVE  Fits(d, v + 1, t2, ls2, all2)
<1>1. d.rev \in 0 .. v /\ d.since \in 0 .. v /\ d.got \in Seq(HomeRow) /\ d.gone \in SUBSET Sessions
    BY DEF Fits, LoadShape
<1>2. LoadShape(d, v + 1)
  <2>1. \A n \in 0 .. v : n \in 0 .. v + 1
    OBVIOUS
  <2> QED BY <2>1 DEF Fits, LoadShape
<1>3. WholeIsRead(d, v + 1, t2, ls2, all2)
  <2>1. d.rev # v + 1
    BY <1>1
  <2>2. ASSUME NEW r \in 0 .. v, NEW rs, Covers(rs, r, t, ls) PROVE Covers(rs, r, t2, ls2)
    BY <2>2, CoversStays
  <2> QED BY <1>1, <2>1, <2>2 DEF Fits, WholeIsRead
<1>4. DeltaIsRead(d, t2, ls2)
  <2>1. ASSUME NEW got \in Seq(HomeRow), NEW gone \in SUBSET Sessions,
               NEW since \in 0 .. v, NEW r \in 0 .. v, Tells(got, gone, since, r, t, ls)
        PROVE  Tells(got, gone, since, r, t2, ls2)
    BY <2>1, TellsStays
  <2> QED BY <1>1, <2>1 DEF Fits, DeltaIsRead
<1> QED BY <1>2, <1>3, <1>4 DEF Fits

\* Nothing but the owner's own variables is in the list.
LEMMA WholeStays ==
    ASSUME UNCHANGED <<touched, listed>> PROVE Whole' = Whole
BY DEF Whole, Listing, Newest, Matches

OwnerShape == rev \in Nat /\ listed \subseteq Sessions /\ touched \in [Sessions -> 0 .. rev]

\* Whatever the owner does, what was read stays right.
LEMMA OwnerKeeps ==
    ASSUME OwnerShape, OwnerGoesOn
    PROVE  /\ OwnerShape' /\ rev' >= rev
           /\ \A rs, r : r \in 0 .. rev /\ Covers(rs, r, touched, listed)
                            => Covers(rs, r, touched', listed')
           /\ \A d : Fits(d, rev, touched, listed, Whole)
                            => Fits(d, rev', touched', listed', Whole')
<1>1. CASE UNCHANGED <<rev, touched, listed>>
    BY <1>1, WholeStays DEF OwnerShape
<1>2. ASSUME NEW s \in Sessions, OwnerMoves(s)
      PROVE  /\ OwnerShape' /\ rev' >= rev
             /\ \A rs, r : r \in 0 .. rev /\ Covers(rs, r, touched, listed)
                            => Covers(rs, r, touched', listed')
             /\ \A d : Fits(d, rev, touched, listed, Whole)
                            => Fits(d, rev', touched', listed', Whole')
  <2>1. /\ rev \in Nat /\ touched \in [Sessions -> 0 .. rev]
        /\ rev' = rev + 1 /\ touched' = [touched EXCEPT ![s] = rev + 1]
        /\ listed' \subseteq Sessions /\ \A k \in Sessions \ {s} : k \in listed' <=> k \in listed
        /\ TouchedOnce(s, rev, touched, listed, touched', listed')
    BY <1>2 DEF OwnerShape, OwnerMoves, TouchedOnce
  <2>2. OwnerShape' /\ rev' >= rev
    BY <2>1 DEF OwnerShape
  <2>3. ASSUME NEW rs, NEW r \in 0 .. rev, Covers(rs, r, touched, listed)
        PROVE  Covers(rs, r, touched', listed')
    BY <2>1, <2>3, CoversStays
  <2>4. \A d : Fits(d, rev, touched, listed, Whole) => Fits(d, rev + 1, touched', listed', Whole')
    BY <2>1, FitsStays
  <2> QED BY <2>1, <2>2, <2>3, <2>4
<1> QED BY <1>1, <1>2 DEF OwnerGoesOn

-----------------------------------------------------------------------------
(* Steps that leave what is kept alone.                                    *)

\* Loads that stay as they are still fit.
LEMMA OthersFit ==
    ASSUME OwnerShape, LoadsFit, OwnerGoesOn,
           \A k \in Loaders : load'[k] = load[k] \/ Fits(load'[k], rev', touched', listed', Whole')
    PROVE  LoadsFit'
<1> SUFFICES ASSUME NEW k \in Loaders
             PROVE  Fits(load'[k], rev', touched', listed', Whole')
    BY DEF LoadsFit
<1>1. CASE Fits(load'[k], rev', touched', listed', Whole')
    BY <1>1
<1>2. CASE load'[k] = load[k]
  <2>1. Fits(load[k], rev, touched, listed, Whole)
    BY DEF LoadsFit
  <2> QED BY <1>2, <2>1, OwnerKeeps
<1> QED BY <1>1, <1>2

\* A step that keeps the rows, the revision and the marks keeps them covered;
\* rows may lose what the owner does not list.
LEMMA Calm ==
    ASSUME CoverInv, OwnerGoesOn,
           UNCHANGED <<revision, slice, gen>>, torn => torn',
           \A r \in 0 .. rev : Covers(rows, r, touched, listed) => Covers(rows', r, touched', listed'),
           \A k \in Loaders : \/ load'[k] = load[k]
                              \/ /\ Installing(load[k]) => Installing(load'[k])
                                 /\ (NewestIsSound(k))'
    PROVE  KeptIsCovered' /\ \A l \in Loaders : (NewestIsSound(l))'
<1>0. HomeShape /\ LoadsFit /\ KeptIsCovered /\ \A l \in Loaders : NewestIsSound(l)
    BY DEF CoverInv, KeptInv
<1>1. \A k \in Loaders : Installing(load[k]) => Installing(load'[k])
    OBVIOUS
<1>2. \A ks : ks \subseteq Loaders /\ Excused(ks) => (torn' \/ slice' \/ \E l \in ks : Installing(load'[l]))
    BY <1>1 DEF Excused
<1>3. OwnerShape /\ revision \in 0 .. rev
    BY <1>0 DEF OwnerShape, HomeShape
<1>4. KeptIsCovered'
    BY <1>0, <1>2, <1>3 DEF KeptIsCovered, Excused
<1>5. ASSUME NEW l \in Loaders, load'[l] = load[l] PROVE (NewestIsSound(l))'
  <2>1. SUFFICES ASSUME Current(l) PROVE (DeltaIsBased(l))' /\ PaintIsKept(load[l])'
    BY DEF NewestIsSound, Current
  <2>2. DeltaIsBased(l) /\ PaintIsKept(load[l]) /\ load'[l] = load[l]
    BY <1>0, <1>5, <2>1 DEF NewestIsSound
  <2>3. load[l].since \in 0 .. rev /\ load[l].rev \in 0 .. rev
    BY <1>0 DEF LoadsFit, Fits, LoadShape
  <2>4. PaintIsKept(load[l])'
    BY <2>2 DEF PaintIsKept
  <2>5. Covers(load[l].got, load[l].rev, touched, listed)
          => Covers(load[l].got, load[l].rev, touched', listed')
    BY <1>3, <2>3, OwnerKeeps
  <2>6. (DeltaIsBased(l))'
    <3>1. load[l].delta /\ load[l].pc \in {"reply", "store"}
            => (Excused(Loaders))' \/ Covers(rows', load[l].since, touched', listed')
      BY <1>2, <2>2, <2>3 DEF DeltaIsBased, Excused
    <3>2. load[l].delta /\ load[l].pc = "apply"
            => (Excused(Loaders \ {l}))' \/ Covers(load[l].got, load[l].rev, touched', listed')
      BY <1>2, <2>2, <2>5 DEF DeltaIsBased, Excused
    <3> QED BY <2>2, <3>1, <3>2 DEF DeltaIsBased
  <2> QED BY <2>4, <2>6
<1> QED BY <1>4, <1>5

-----------------------------------------------------------------------------
(* What the records of a load fit.                                         *)

\* A load that has read nothing.
LEMMA NothingRead ==
    ASSUME NEW v \in Nat, NEW t, NEW ls, NEW all, NEW d,
           DOMAIN d = LoadFields, d.since \in 0 .. v, d.rev \in 0 .. v, d.got = <<>>, d.gone = {},
           d.off = 0, d.delta = FALSE, d.shift = FALSE, d.pc \in {"none", "begin", "refresh", "ask", "finish"}
    PROVE  Fits(d, v, t, ls, all)
<1>1. <<>> \in Seq(HomeRow)
    OBVIOUS
<1>2. LoadShape(d, v)
  <2>1. d.got \in Seq(HomeRow) /\ d.gone \subseteq Sessions /\ d.off \in Nat
    BY <1>1
  <2> QED BY <2>1 DEF LoadShape
<1>3. WholeIsRead(d, v, t, ls, all) /\ DeltaIsRead(d, t, ls)
    BY DEF WholeIsRead, DeltaIsRead
<1> QED BY <1>2, <1>3 DEF Fits

\* The records of a thread that starts and of a load that is over.
LEMMA FreshFits ==
    ASSUME NEW v \in Nat, NEW t, NEW ls, NEW all, LoadsShape, NEW l \in Loaders
    PROVE  /\ Fits(NoLoad, v, t, ls, all) /\ Fits(Over(l), v, t, ls, all)
           /\ \A quiet : Fits([NoLoad EXCEPT !.pc = "begin", !.quiet = quiet], v, t, ls, all)
<1>1. /\ DOMAIN NoLoad = LoadFields /\ NoLoad.since = 0 /\ NoLoad.rev = 0 /\ NoLoad.got = <<>>
      /\ NoLoad.gone = {} /\ NoLoad.off = 0 /\ NoLoad.delta = FALSE /\ NoLoad.shift = FALSE
      /\ NoLoad.pc = "none"
    BY DEF NoLoad, LoadFields
<1>2. 0 \in 0 .. v
    OBVIOUS
<1>3. Fits(NoLoad, v, t, ls, all)
    BY <1>1, <1>2, NothingRead
<1>4. Fits(Over(l), v, t, ls, all)
  <2> DEFINE d == Over(l)
  <2>1. /\ DOMAIN d = LoadFields /\ d.since = 0 /\ d.rev = 0 /\ d.got = <<>> /\ d.gone = {}
        /\ d.off = 0 /\ d.delta = FALSE /\ d.shift = FALSE /\ d.pc = "finish"
    BY <1>1 DEF Over, LoadFields
  <2> HIDE DEF d
  <2>2. Fits(d, v, t, ls, all)
    BY <1>2, <2>1, NothingRead
  <2> QED BY <2>2 DEF d
<1>5. ASSUME NEW quiet
      PROVE  Fits([NoLoad EXCEPT !.pc = "begin", !.quiet = quiet], v, t, ls, all)
  <2> DEFINE d == [NoLoad EXCEPT !.pc = "begin", !.quiet = quiet]
  <2>1. /\ DOMAIN d = LoadFields /\ d.since = 0 /\ d.rev = 0 /\ d.got = <<>> /\ d.gone = {}
        /\ d.off = 0 /\ d.delta = FALSE /\ d.shift = FALSE /\ d.pc = "begin"
    BY <1>1 DEF LoadFields
  <2> HIDE DEF d
  <2>2. Fits(d, v, t, ls, all)
    BY <1>2, <2>1, NothingRead
  <2> QED BY <2>2 DEF d
<1> QED BY <1>3, <1>4, <1>5

\* What a load has read stays right when it is overtaken.
LEMMA ShiftFits ==
    ASSUME NEW v, NEW t, NEW ls, NEW all, NEW d, NEW b \in BOOLEAN, Fits(d, v, t, ls, all),
           NEW d2, d2 = [d EXCEPT !.shift = @ \/ b]
    PROVE  Fits(d2, v, t, ls, all)
<1>1. DOMAIN d = LoadFields
    BY DEF Fits, LoadShape
<1>2. /\ DOMAIN d2 = LoadFields /\ d2.since = d.since /\ d2.rev = d.rev /\ d2.got = d.got
      /\ d2.gone = d.gone /\ d2.off = d.off /\ d2.delta = d.delta /\ d2.pc = d.pc /\ d2.base = d.base
      /\ d2.query = d.query /\ d2.shift = (d.shift \/ b)
    BY <1>1 DEF LoadFields
<1>3. LoadShape(d2, v)
    BY <1>2 DEF Fits, LoadShape
<1>4. WholeIsRead(d2, v, t, ls, all)
    BY <1>2 DEF Fits, WholeIsRead
<1>5. DeltaIsRead(d2, t, ls)
    BY <1>2 DEF Fits, DeltaIsRead
<1> QED BY <1>3, <1>4, <1>5 DEF Fits

-----------------------------------------------------------------------------
(* Kinds of steps.                                                         *)

\* The shape of what the home list keeps.
LEMMA ShapeStays ==
    ASSUME HomeShape, OwnerGoesOn, revision' \in 0 .. rev, rows' \in Seq(HomeRow),
           slice' \in BOOLEAN, torn' \in BOOLEAN, PassShape(pass', rev)
    PROVE  HomeShape'
<1>1. OwnerShape /\ rev \in Nat
    BY DEF HomeShape, OwnerShape
<1>2. OwnerShape' /\ rev' >= rev
    BY <1>1, OwnerKeeps
<1>3. rev' \in Nat
    BY <1>2 DEF OwnerShape
<1>4. \A n \in 0 .. rev : n \in 0 .. rev'
    BY <1>1, <1>2, <1>3
<1>5. PassShape(pass', rev')
    BY <1>4 DEF PassShape
<1>6. PassShape(pass, rev)'
    BY <1>5
<1> QED BY <1>2, <1>4, <1>6 DEF HomeShape, OwnerShape

\* Once torn nothing is promised.
LEMMA TornStep ==
    ASSUME HomeShape', LoadsFit', torn'
    PROVE  KeptInv'
<1>1. \A ls : (Excused(ls))'
    BY DEF Excused
<1>2. KeptIsCovered'
    BY <1>1 DEF KeptIsCovered
<1>3. ASSUME NEW l \in Loaders PROVE (NewestIsSound(l))'
    BY <1>1 DEF NewestIsSound, DeltaIsBased, PaintIsKept
<1> QED BY <1>2, <1>3 DEF KeptInv

\* A load in one of these places has nothing to be right about.
LEMMA Resting ==
    ASSUME NEW l, load'[l].pc \in {"none", "begin", "refresh", "ask", "drain", "finish"}
    PROVE  (NewestIsSound(l))'
BY DEF NewestIsSound, DeltaIsBased, PaintIsKept

\* While the newest load runs, no other is current.
LEMMA NewestAlone ==
    ASSUME BusyInv, NEW l \in Loaders, Current(l), Runs(l), gen' = gen,
           \A k \in Loaders \ {l} : load'[k].pc = load[k].pc /\ load'[k].gen = load[k].gen
    PROVE  \A k \in Loaders \ {l} : (NewestIsSound(k))'
<1> SUFFICES ASSUME NEW k \in Loaders \ {l} PROVE (NewestIsSound(k))'
    OBVIOUS
<1>1. CASE load[k].gen = gen
  <2>1. ~Runs(k)
    BY <1>1 DEF BusyInv, OwnGenerations, Current
  <2>2. load'[k].pc \in {"none", "begin"}
    BY <2>1 DEF Runs
  <2> QED BY <2>2, Resting
<1>2. CASE load[k].gen # gen
    BY <1>2 DEF NewestIsSound, Current
<1> QED BY <1>1, <1>2

\* The others fit when one load moves.
LEMMA LoadsFitStay ==
    ASSUME HomeShape, LoadsFit, UNCHANGED ownerVars, DOMAIN load = Loaders, NEW l \in Loaders, NEW d2,
           load' = [load EXCEPT ![l] = d2], Fits(d2, rev, touched, listed, Whole)
    PROVE  LoadsFit'
<1>1. OwnerShape /\ OwnerGoesOn /\ UNCHANGED <<rev, touched, listed>> /\ Whole' = Whole
    BY WholeStays DEF HomeShape, OwnerShape, OwnerGoesOn, ownerVars
<1>2. \A k \in Loaders : load'[k] = IF k = l THEN d2 ELSE load[k]
    OBVIOUS
<1>3. \A k \in Loaders : load'[k] = load[k] \/ Fits(load'[k], rev', touched', listed', Whole')
    BY <1>1, <1>2
<1> QED BY <1>1, <1>3, OthersFit

\* A load goes on, and leaves the rows alone.
LEMMA OneLoad ==
    ASSUME CoverInv, UNCHANGED <<ownerVars, revision, slice, gen, rows>>, torn' \in BOOLEAN,
           torn => torn', PassShape(pass', rev), NEW l \in Loaders, NEW d2,
           load' = [load EXCEPT ![l] = d2], Fits(d2, rev, touched, listed, Whole),
           Installing(load[l]) => Installing(d2), (NewestIsSound(l))'
    PROVE  KeptInv'
<1>0. HomeShape /\ LoadsFit /\ DOMAIN load = Loaders
    BY DEF CoverInv, KeptInv, BusyInv, LoadsShape
<1>1. OwnerGoesOn /\ UNCHANGED <<rev, touched, listed>>
    BY DEF OwnerGoesOn, ownerVars
<1>2. \A k \in Loaders : load'[k] = IF k = l THEN d2 ELSE load[k]
    BY <1>0
<1>3. LoadsFit'
    BY <1>0, LoadsFitStay
<1>4. HomeShape'
    BY <1>0, <1>1, ShapeStays DEF HomeShape
<1>5. \A k \in Loaders : \/ load'[k] = load[k]
                         \/ (Installing(load[k]) => Installing(load'[k])) /\ (NewestIsSound(k))'
    BY <1>2
<1>6. \A r \in 0 .. rev : Covers(rows, r, touched, listed) => Covers(rows', r, touched', listed')
    BY <1>1
<1>7. KeptIsCovered' /\ \A k \in Loaders : (NewestIsSound(k))'
    BY <1>1, <1>5, <1>6, Calm
<1> QED BY <1>3, <1>4, <1>7 DEF KeptInv

\* Nothing happens to the loads.
LEMMA NoLoadMoves ==
    ASSUME CoverInv, OwnerGoesOn, UNCHANGED <<revision, slice, gen, load>>, torn' \in BOOLEAN,
           torn => torn', PassShape(pass', rev), rows' \in Seq(HomeRow),
           \A r \in 0 .. rev : Covers(rows, r, touched, listed) => Covers(rows', r, touched', listed')
    PROVE  KeptInv'
<1>0. HomeShape /\ LoadsFit /\ OwnerShape
    BY DEF CoverInv, KeptInv, HomeShape, OwnerShape
<1>1. LoadsFit'
  <2>1. \A k \in Loaders : load'[k] = load[k]
    OBVIOUS
  <2> QED BY <1>0, <2>1, OthersFit
<1>2. HomeShape'
    BY <1>0, ShapeStays DEF HomeShape
<1>3. KeptIsCovered' /\ \A k \in Loaders : (NewestIsSound(k))'
  <2>1. \A k \in Loaders : load'[k] = load[k]
    OBVIOUS
  <2> QED BY <2>1, Calm
<1> QED BY <1>1, <1>2, <1>3 DEF KeptInv

-----------------------------------------------------------------------------
(* The steps of a load.                                                    *)

\* What every step of a load may rely on.
LEMMA LoadFacts ==
    ASSUME CoverInv, NEW l \in Loaders
    PROVE  /\ BusyInv /\ LoadsShape /\ HomeShape /\ LoadsFit /\ OwnerShape
           /\ DOMAIN load = Loaders /\ DOMAIN load[l] = LoadFields
           /\ rev \in Nat /\ touched \in [Sessions -> Nat] /\ touched \in [Sessions -> 0 .. rev]
           /\ listed \subseteq Sessions /\ revision \in 0 .. rev /\ rows \in Seq(HomeRow)
           /\ slice \in BOOLEAN /\ torn \in BOOLEAN /\ PassShape(pass, rev)
           /\ Fits(load[l], rev, touched, listed, Whole) /\ LoadShape(load[l], rev)
           /\ NewestIsSound(l) /\ KeptIsCovered
           /\ \A r : r \in 0 .. rev => r \in Nat
<1>1. BusyInv /\ LoadsShape /\ HomeShape /\ LoadsFit /\ NewestIsSound(l) /\ KeptIsCovered
    BY DEF CoverInv, KeptInv, BusyInv
<1>2. Fits(load[l], rev, touched, listed, Whole) /\ LoadShape(load[l], rev)
    BY <1>1 DEF LoadsFit, Fits
<1>3. touched \in [Sessions -> 0 .. rev] /\ rev \in Nat
    BY <1>1 DEF HomeShape
<1>4. touched \in [Sessions -> Nat]
    BY <1>3
<1> QED BY <1>1, <1>2, <1>3, <1>4 DEF LoadsShape, HomeShape, OwnerShape

\* A load that is over, or another step that torn excuses.
LEMMA LoadGivesUp ==
    ASSUME CoverInv, NEW l \in Loaders, load' = [load EXCEPT ![l] = Over(l)],
           UNCHANGED <<ownerVars, revision, slice, gen, rows>>, torn' \in BOOLEAN,
           torn => torn', PassShape(pass', rev), ~Installing(load[l])
    PROVE  KeptInv'
<1>1. Fits(Over(l), rev, touched, listed, Whole)
    BY LoadFacts, FreshFits
<1>2. load'[l] = Over(l) /\ Over(l).pc = "finish"
    BY LoadFacts, LoadRecords
<1>3. (NewestIsSound(l))'
    BY <1>2, Resting
<1> QED BY <1>1, <1>3, OneLoad

\* The records of a search pass that starts or ends.
LEMMA NoPassShape ==
    ASSUME NEW v \in Nat
    PROVE  PassShape(NoPass, v) /\ \A pc : PassShape([NoPass EXCEPT !.pc = pc], v)
<1>1. 0 \in 0 .. v /\ <<>> \in Seq(HomeRow)
    OBVIOUS
<1>2. PassShape(NoPass, v)
    BY <1>1 DEF PassShape, NoPass
<1>3. ASSUME NEW pc PROVE PassShape([NoPass EXCEPT !.pc = pc], v)
    BY <1>2 DEF PassShape
<1> QED BY <1>2, <1>3

\* A load that only runs the search again.
LEMMA RefreshesKeeps ==
    ASSUME CoverInv, NEW l \in Loaders, LoadRefreshes(l)
    PROVE  KeptInv'
<1>1. /\ load[l].pc = "refresh" /\ load' = [load EXCEPT ![l] = Over(l)]
      /\ UNCHANGED <<ownerVars, revision, slice, gen, rows>>
      /\ torn' = (torn \/ pass.pc = "done")
    BY DEF LoadRefreshes, Goes
<1>2. pass' = pass \/ pass' = [NoPass EXCEPT !.pc = "start"]
    BY DEF LoadRefreshes, PassStarts
<1>3. PassShape(pass', rev)
  <2>1. PassShape(pass, rev) /\ rev \in Nat
    BY LoadFacts
  <2>2. PassShape([NoPass EXCEPT !.pc = "start"], rev)
    BY <2>1, NoPassShape
  <2> QED BY <1>2, <2>1, <2>2
<1>4. ~Installing(load[l])
    BY <1>1 DEF Installing
<1> QED BY <1>1, <1>3, <1>4, LoadFacts, LoadGivesUp

\* A load whose answer does not come.
LEMMA FailsKeeps ==
    ASSUME CoverInv, NEW l \in Loaders, LoadFails(l)
    PROVE  KeptInv'
<1>1. /\ load[l].pc \in {"reply", "drain", "fill"} /\ load' = [load EXCEPT ![l] = Over(l)]
      /\ UNCHANGED <<ownerVars, revision, slice, gen, rows, pass>> /\ torn' = TRUE
    BY DEF LoadFails, Goes, searchVars
<1>2. ~Installing(load[l])
    BY <1>1 DEF Installing
<1> QED BY <1>1, <1>2, LoadFacts, LoadGivesUp

\* A load that ends.
LEMMA EndsKeeps ==
    ASSUME CoverInv, NEW l \in Loaders, LoadEnds(l)
    PROVE  KeptInv'
<1>1. /\ load[l].pc = "finish" /\ load' = [load EXCEPT ![l] = NoLoad]
      /\ UNCHANGED <<ownerVars, revision, slice, gen, rows, torn, pass>>
    BY DEF LoadEnds, Goes, searchVars
<1>2. ~Installing(load[l])
    BY <1>1 DEF Installing
<1>3. Fits(NoLoad, rev, touched, listed, Whole)
    BY LoadFacts, FreshFits
<1>4. load'[l] = NoLoad /\ NoLoad.pc = "none"
    BY <1>1, LoadFacts, LoadRecords
<1>5. (NewestIsSound(l))'
    BY <1>4, Resting
<1> QED BY <1>1, <1>2, <1>3, <1>5, LoadFacts, OneLoad

\* A load asks for a delta only of rows that cover the revision it names.
LEMMA AsksKeeps ==
    ASSUME CoverInv, NEW l \in Loaders, LoadAsksList(l)
    PROVE  KeptInv'
<1> DEFINE d == load[l]
           a == [load[l] EXCEPT !.query = applied, !.since = revision, !.delta = UseDelta(l, applied),
                                !.pc = IF applied # "" THEN "drain" ELSE "reply"]
<1>1. /\ d.pc = "ask" /\ load' = [load EXCEPT ![l] = a]
      /\ UNCHANGED <<ownerVars, revision, slice, gen, rows, torn, pass>>
    BY DEF LoadAsksList, Goes, searchVars
<1>2. /\ DOMAIN a = LoadFields /\ a.query = applied /\ a.since = revision /\ a.delta = UseDelta(l, applied)
      /\ a.pc = (IF applied # "" THEN "drain" ELSE "reply") /\ a.rev = d.rev /\ a.off = d.off
      /\ a.got = d.got /\ a.gone = d.gone /\ a.shift = d.shift /\ a.gen = d.gen
    BY LoadFacts DEF LoadFields
<1>3. UseDelta(l, applied) \in BOOLEAN /\ (UseDelta(l, applied) => applied = "" /\ ~slice)
    BY LoadFacts DEF UseDelta
<1>4. load'[l] = a
    BY <1>1, LoadFacts
<1> HIDE DEF a
<1>5. Fits(a, rev, touched, listed, Whole)
  <2>1. d.off = 0 /\ d.got = <<>> /\ LoadShape(d, rev)
    BY <1>1, LoadFacts DEF LoadShape
  <2>2. LoadShape(a, rev)
    BY <1>2, <1>3, <2>1, LoadFacts DEF LoadShape
  <2>3. WholeIsRead(a, rev, touched, listed, Whole)
    BY <1>2, <2>1 DEF WholeIsRead
  <2>4. DeltaIsRead(a, touched, listed)
    BY <1>2 DEF DeltaIsRead
  <2> QED BY <2>2, <2>3, <2>4 DEF Fits
<1>6. (NewestIsSound(l))'
  <2>1. ~(a.pc \in {"apply", "paint", "fill", "fillmerge", "fillapply", "fillpaint"})
    BY <1>2
  <2>2. a.delta => (Excused(Loaders))' \/ Covers(rows', a.since, touched', listed')
    <3> SUFFICES ASSUME a.delta, ~(Excused(Loaders))'
                 PROVE  Covers(rows', a.since, touched', listed')
      OBVIOUS
    <3>1. \A k \in Loaders : Installing(load[k]) => Installing(load'[k])
      BY <1>1, LoadFacts DEF Installing
    <3>2. ~Excused(Loaders)
      BY <1>1, <3>1 DEF Excused
    <3>3. Covers(rows, revision, touched, listed)
      BY <3>2, LoadFacts DEF KeptIsCovered
    <3> QED BY <1>1, <1>2, <3>3 DEF ownerVars
  <2>3. (DeltaIsBased(l))'
    BY <1>4, <2>1, <2>2 DEF DeltaIsBased
  <2>4. (PaintIsKept(load[l]))'
    BY <1>4, <2>1 DEF PaintIsKept
  <2> QED BY <2>3, <2>4 DEF NewestIsSound
<1>7. ~Installing(load[l])
    BY <1>1 DEF Installing
<1> QED BY <1>1, <1>5, <1>6, <1>7, LoadFacts, OneLoad

\* The first page of the list is all of it, or its beginning.
LEMMA FirstPage ==
    ASSUME touched \in [Sessions -> Nat], listed \subseteq Sessions,
           NEW all, all = Whole, NEW page, page = WholePage(0),
           NEW next, next = NextOffset(0, Len(page), Len(all)), NEW r
    PROVE  /\ page \in Seq(HomeRow) /\ next \in Nat
           /\ next = 0 => Covers(page, r, touched, listed)
           /\ next # 0 => Begins(page, next, all)
<1>1. all \in Seq(HomeRow) /\ Distinct(all) /\ page \in Seq(HomeRow)
    BY WholeRows
<1>2. CASE 0 < Len(all)
  <2> DEFINE none == <<>>
  <2>1. none \in Seq(HomeRow) /\ RowSet(none) = {} /\ Distinct(none) /\ RowSet(none) = {all[i] : i \in 1 .. 0}
    BY DEF RowSet, Distinct
  <2> DEFINE zero == 0
  <2>2. zero \in Nat /\ page = WholePage(zero) /\ next = NextOffset(zero, Len(page), Len(all))
    OBVIOUS
  <2>3. Begins(none, zero, all)
    <3> HIDE DEF none
    <3> QED BY <1>2, <2>1 DEF Begins
  <2> HIDE DEF none, zero
  <2>4. /\ Distinct(page) /\ next \in Nat
        /\ \A got, q : Distinct(got) /\ RowSet(got) = RowSet(none) \union RowSet(page) =>
                 /\ next = 0 => Covers(got, q, touched, listed)
                 /\ next # 0 => Begins(got, next, all)
    BY <2>1, <2>3, <2>2, PageGoesOn
  <2>5. RowSet(page) = RowSet(none) \union RowSet(page)
    BY <2>1
  <2> QED BY <1>1, <2>4, <2>5
<1>3. CASE ~(0 < Len(all))
  <2>1. Len(all) = 0
    BY <1>1, <1>3
  <2>2. Len(page) = 0
    BY <2>1, WholeRows, PageAssumption, 0 \in Nat
  <2>3. all = <<>> /\ page = <<>>
    BY <1>1, <2>1, <2>2
  <2>4. next = 0
    BY <2>2, PageAssumption DEF NextOffset
  <2>5. Covers(page, r, touched, listed)
    BY <1>1, <2>3, ListIds
  <2> QED BY <1>1, <2>4, <2>5
<1> QED BY <1>2, <1>3

\* The four answers: unchanged, a delta, no delta, a first page.
LEMMA RepliesKeeps ==
    ASSUME CoverInv, NEW l \in Loaders, LoadReplies(l)
    PROVE  KeptInv'
<1> DEFINE d == load[l]
           a == [At(l, "store") EXCEPT !.got = Upserted(d.since), !.gone = Removed(d.since), !.rev = rev]
           b == [At(l, "drain") EXCEPT !.delta = FALSE]
           c == [At(l, "store") EXCEPT !.got = WholePage(0), !.rev = rev,
                                       !.off = NextOffset(0, Len(WholePage(0)), Len(Whole))]
<1>0. /\ d.pc = "reply" /\ UNCHANGED <<ownerVars, revision, slice, gen, rows, pass>>
      /\ ~Installing(load[l]) /\ torn' \in BOOLEAN /\ (torn => torn')
    BY LoadFacts DEF LoadReplies, Goes, searchVars, Installing
<1>1. \/ load' = [load EXCEPT ![l] = Over(l)]
      \/ d.delta /\ load' = [load EXCEPT ![l] = a]
      \/ d.delta /\ load' = [load EXCEPT ![l] = b]
      \/ ~d.delta /\ load' = [load EXCEPT ![l] = c]
    BY DEF LoadReplies, Goes, WholePage, Whole
<1>2. /\ d.query = "" /\ d.off = 0 /\ d.got = <<>> /\ d.since \in Nat /\ LoadShape(d, rev)
      /\ d.since \in 0 .. rev /\ rev \in 0 .. rev
  <2>1. LoadShape(d, rev) /\ rev \in Nat
    BY LoadFacts
  <2>2. rev \in 0 .. rev
    BY <2>1
  <2>3. d.query = "" /\ d.off = 0 /\ d.got = <<>>
    BY <1>0, <2>1 DEF LoadShape
  <2>4. d.since \in 0 .. rev
    BY <2>1 DEF LoadShape
  <2>5. d.since \in Nat
    BY <2>1, <2>4
  <2> HIDE DEF d
  <2> QED BY <2>1, <2>2, <2>3, <2>4, <2>5
<1>3. CASE load' = [load EXCEPT ![l] = Over(l)]
    BY <1>0, <1>3, LoadFacts, LoadGivesUp
<1>4. CASE d.delta /\ load' = [load EXCEPT ![l] = a]
  <2>1. /\ DOMAIN a = LoadFields /\ a.pc = "store" /\ a.got = Upserted(d.since) /\ a.gone = Removed(d.since)
        /\ a.rev = rev /\ a.since = d.since /\ a.off = 0 /\ a.delta /\ a.delta \in BOOLEAN /\ a.query = d.query
        /\ a.shift = d.shift /\ a.gen = d.gen
    BY <1>2, <1>4, LoadFacts DEF At, LoadFields, LoadShape
  <2>2. load'[l] = a
    BY <1>4, LoadFacts
  <2> HIDE DEF a
  <2>3. /\ Upserted(d.since) \in Seq(HomeRow) /\ Removed(d.since) \subseteq Sessions
        /\ Tells(Upserted(d.since), Removed(d.since), d.since, rev, touched, listed)
    BY <1>2, LoadFacts, DeltaTells
  <2>4. LoadShape(a, rev)
    BY <1>2, <2>1, <2>3 DEF LoadShape
  <2>5. Fits(a, rev, touched, listed, Whole)
    BY <2>1, <2>3, <2>4 DEF Fits, WholeIsRead, DeltaIsRead
  <2>6. (NewestIsSound(l))'
    <3> SUFFICES ASSUME (Current(l))' PROVE (DeltaIsBased(l))' /\ (PaintIsKept(load[l]))'
      BY DEF NewestIsSound
    <3>1. Current(l)
      BY <1>0, <2>1, <2>2 DEF Current
    <3>2. Excused(Loaders) \/ Covers(rows, d.since, touched, listed)
      BY <1>0, <1>4, <3>1, LoadFacts DEF NewestIsSound, DeltaIsBased
    <3>3. \A k \in Loaders : Installing(load[k]) => Installing(load'[k])
      BY <1>0, <1>4, LoadFacts
    <3>4. (Excused(Loaders))' \/ Covers(rows', a.since, touched', listed')
      BY <1>0, <2>1, <3>2, <3>3 DEF Excused, ownerVars
    <3>5. (DeltaIsBased(l))'
      BY <2>1, <2>2, <3>4 DEF DeltaIsBased
    <3> QED BY <2>1, <2>2, <3>5 DEF PaintIsKept
  <2> QED BY <1>0, <1>4, <2>5, <2>6, LoadFacts, OneLoad
<1>5. CASE d.delta /\ load' = [load EXCEPT ![l] = b]
  <2>1. /\ DOMAIN b = LoadFields /\ b.pc = "drain" /\ b.got = d.got /\ b.gone = d.gone
        /\ b.rev = d.rev /\ b.since = d.since /\ b.off = 0 /\ b.delta = FALSE /\ b.query = d.query
        /\ b.shift = d.shift
    BY <1>2, LoadFacts DEF At, LoadFields
  <2>2. load'[l] = b
    BY <1>5, LoadFacts
  <2> HIDE DEF b
  <2>3. LoadShape(b, rev)
    BY <1>2, <2>1 DEF LoadShape
  <2>4. Fits(b, rev, touched, listed, Whole)
    BY <1>2, <2>1, <2>3 DEF Fits, WholeIsRead, DeltaIsRead
  <2>5. (NewestIsSound(l))'
    BY <2>1, <2>2, Resting
  <2> QED BY <1>0, <1>5, <2>4, <2>5, LoadFacts, OneLoad
<1>6. CASE ~d.delta /\ load' = [load EXCEPT ![l] = c]
  <2> DEFINE page == WholePage(0)
             all == Whole
             next == NextOffset(0, Len(page), Len(all))
  <2>1. /\ DOMAIN c = LoadFields /\ c.pc = "store" /\ c.got = page /\ c.gone = d.gone
        /\ c.rev = rev /\ c.since = d.since /\ c.off = next /\ c.delta = d.delta /\ c.query = d.query
        /\ c.shift = d.shift
    BY <1>2, LoadFacts DEF At, LoadFields
  <2>2. load'[l] = c
    BY <1>6, LoadFacts
  <2>3. /\ page \in Seq(HomeRow) /\ next \in Nat
        /\ next = 0 => Covers(page, rev, touched, listed)
        /\ next # 0 => Begins(page, next, all)
    BY LoadFacts, FirstPage
  <2> HIDE DEF c, page, next, all
  <2>4. LoadShape(c, rev)
    BY <1>2, <1>6, <2>1, <2>3 DEF LoadShape
  <2>5. Fits(c, rev, touched, listed, all)
    BY <1>6, <2>1, <2>3, <2>4 DEF Fits, WholeIsRead, DeltaIsRead
  <2>6. (NewestIsSound(l))'
    BY <1>6, <2>1, <2>2 DEF NewestIsSound, DeltaIsBased, PaintIsKept
  <2> QED BY <1>0, <1>6, <2>5, <2>6, LoadFacts, OneLoad DEF all
<1> QED BY <1>1, <1>3, <1>4, <1>5, <1>6

\* What a drain does to the load or the pass that goes through it.
LEMMA DrainedShape ==
    ASSUME CoverInv, NEW d, NEW F, DOMAIN d = F, {"pc", "off", "rev", "got", "shift"} \subseteq F,
           d.off \in Nat, d.got \in Seq(HomeRow), d.shift \in BOOLEAN, NEW next, NEW e, e = Drained(d, next)
    PROVE  /\ DOMAIN e = F /\ e.off \in Nat /\ e.got \in Seq(HomeRow) /\ e.rev = rev
           /\ e.shift = (d.shift \/ (d.off # 0 /\ d.rev # rev)) /\ e.shift \in BOOLEAN
           /\ e.pc = (IF e.off = 0 THEN next ELSE d.pc)
           /\ \A f \in F \ {"pc", "off", "rev", "got", "shift"} : e[f] = d[f]
<1> DEFINE page == PageAt(d.query, d.off)
           stop == page = <<>> \/ Stalls(d, page)
           nxt == IF stop THEN 0 ELSE NextOffset(d.off, Len(page), Len(Listing(d.query)))
           got == IF stop THEN d.got ELSE d.got \o page
           shift == d.shift \/ (d.off # 0 /\ d.rev # rev)
<1>1. e = [d EXCEPT !.pc = IF nxt = 0 THEN next ELSE @, !.off = nxt, !.rev = rev, !.got = got,
                    !.shift = shift]
    BY DEF Drained
<1>2. touched \in [Sessions -> Nat] /\ listed \subseteq Sessions
    BY DEF CoverInv, KeptInv, HomeShape
<1>3. page \in Seq(HomeRow)
    BY <1>2, PageRows
<1> HIDE DEF page
<1>4. nxt \in Nat
  <2>1. Len(page) \in Nat
    BY <1>3
  <2> QED BY <2>1 DEF NextOffset
<1>5. got \in Seq(HomeRow)
    BY <1>3
<1> HIDE DEF stop, nxt, got, shift
<1>6. /\ DOMAIN e = F /\ e.off = nxt /\ e.got = got /\ e.rev = rev /\ e.shift = shift
      /\ e.pc = (IF nxt = 0 THEN next ELSE d.pc)
      /\ \A f \in F \ {"pc", "off", "rev", "got", "shift"} : e[f] = d[f]
    BY <1>1
<1>7. shift \in BOOLEAN
    BY DEF shift
<1> QED BY <1>4, <1>5, <1>6, <1>7 DEF shift

\* Rows that are the beginning of the list and the page that follows.
LEMMA JoinedPage ==
    ASSUME touched \in [Sessions -> Nat], listed \subseteq Sessions,
           NEW rs \in Seq(HomeRow), NEW off \in Nat,
           NEW all, all = Whole, Begins(rs, off, all),
           NEW page, page = WholePage(off),
           NEW next, next = NextOffset(off, Len(page), Len(all)),
           NEW got, Distinct(got), RowSet(got) = RowSet(rs) \union RowSet(page), NEW r
    PROVE  (next = 0 => Covers(got, r, touched, listed)) /\ (next # 0 => Begins(got, next, all))
<1>1. \A g, q : Distinct(g) /\ RowSet(g) = RowSet(rs) \union RowSet(page) =>
              /\ next = 0 => Covers(g, q, touched, listed)
              /\ next # 0 => Begins(g, next, all)
    BY PageGoesOn
<1> QED BY <1>1

\* A page of a list that did not move since the page before is the next one.
LEMMA NextPage ==
    ASSUME touched \in [Sessions -> Nat], listed \subseteq Sessions,
           NEW off \in Nat, NEW rs \in Seq(HomeRow), NEW all, all = Whole,
           off = 0 => rs = <<>>, off # 0 => Begins(rs, off, all),
           NEW page, page = WholePage(off),
           NEW stop, stop <=> page = <<>> \/ (off # 0 /\ page # <<>> /\ page[1].id = rs[1].id),
           NEW nxt, nxt = (IF stop THEN 0 ELSE NextOffset(off, Len(page), Len(all))),
           NEW got, got = (IF stop THEN rs ELSE rs \o page), NEW r
    PROVE  /\ nxt = 0 => Covers(got, r, touched, listed)
           /\ nxt # 0 => Begins(got, nxt, all)
<1>1. page \in Seq(HomeRow)
    BY WholeRows
<1>2. CASE off = 0
  <2>1. got = page
    BY <1>1, <1>2
  <2>2. nxt = NextOffset(0, Len(page), Len(all))
    <3>1. CASE page = <<>>
      <4>1. nxt = 0 /\ Len(page) = 0
        BY <3>1
      <4> QED BY <4>1, PageAssumption DEF NextOffset
    <3>2. CASE page # <<>>
      BY <1>2, <3>2
    <3> QED BY <3>1, <3>2
  <2> QED BY <1>2, <2>1, <2>2, FirstPage
<1>3. CASE off # 0
  <2> DEFINE next == NextOffset(off, Len(page), Len(all))
  <2>1. Begins(rs, off, all) /\ next = NextOffset(off, Len(page), Len(all)) /\ Distinct(rs)
    BY <1>3 DEF Begins
  <2> HIDE DEF next
  <2>2. /\ page # <<>> /\ Distinct(page)
        /\ off # 0 => page[1].id # rs[1].id
        /\ \A s \in RowIds(rs) : s \notin RowIds(page)
    BY <2>1, PageGoesOn
  <2>3. nxt = next /\ got = rs \o page
    BY <1>3, <2>2 DEF next
  <2>4. Distinct(got) /\ RowSet(got) = RowSet(rs) \union RowSet(page)
    BY <1>1, <2>1, <2>2, <2>3, JoinedRows
  <2>5. (next = 0 => Covers(got, r, touched, listed)) /\ (next # 0 => Begins(got, next, all))
    BY <2>1, <2>4, JoinedPage
  <2> QED BY <2>3, <2>5
<1> QED BY <1>2, <1>3

\* So a drain without a query has read the list up to its offset.
LEMMA DrainedWhole ==
    ASSUME CoverInv, NEW l \in Loaders, load[l].pc = "drain", load[l].query = "",
           NEW e, e = Drained(load[l], "store"), ~e.shift
    PROVE  /\ e.off = 0 => Covers(e.got, e.rev, touched, listed)
           /\ e.off # 0 => Begins(e.got, e.off, Whole)
<1> DEFINE d == load[l]
           off == d.off
           rs == d.got
           page == WholePage(off)
           all == Whole
           stop == page = <<>> \/ Stalls(d, page)
           nxt == IF stop THEN 0 ELSE NextOffset(off, Len(page), Len(all))
           got == IF stop THEN rs ELSE rs \o page
           r == e.rev
<1>1. DOMAIN d = LoadFields /\ off \in Nat /\ rs \in Seq(HomeRow) /\ ~d.delta
      /\ touched \in [Sessions -> Nat] /\ listed \subseteq Sessions
      /\ WholeIsRead(d, rev, touched, listed, all)
    BY LoadFacts DEF LoadShape, Fits
<1>2. e.off = nxt /\ e.got = got /\ (e.shift <=> d.shift \/ (off # 0 /\ d.rev # rev))
    BY <1>1 DEF Drained, WholePage, Whole, LoadFields
<1>3. (off = 0 => rs = <<>>) /\ (off # 0 => Begins(rs, off, all))
    BY <1>1, <1>2 DEF WholeIsRead
<1>4. stop <=> page = <<>> \/ (off # 0 /\ page # <<>> /\ page[1].id = rs[1].id)
    BY DEF Stalls
<1>5. /\ nxt = (IF stop THEN 0 ELSE NextOffset(off, Len(page), Len(all)))
      /\ got = (IF stop THEN rs ELSE rs \o page) /\ all = Whole /\ page = WholePage(off)
    OBVIOUS
<1> HIDE DEF d, off, rs, page, all, stop, nxt, got, r
<1>6. /\ nxt = 0 => Covers(got, r, touched, listed)
      /\ nxt # 0 => Begins(got, nxt, all)
    BY <1>1, <1>3, <1>4, <1>5, NextPage
<1> QED BY <1>2, <1>5, <1>6 DEF r

\* A page of a drain.
LEMMA DrainsKeeps ==
    ASSUME CoverInv, NEW l \in Loaders, LoadDrains(l)
    PROVE  KeptInv'
<1> DEFINE d == load[l]
           e == Drained(load[l], "store")
<1>1. /\ d.pc = "drain" /\ load' = [load EXCEPT ![l] = e] /\ ~Installing(load[l])
      /\ UNCHANGED <<ownerVars, revision, slice, gen, rows, torn, pass>>
    BY DEF LoadDrains, Goes, searchVars, Installing
<1>2. DOMAIN d = LoadFields /\ LoadShape(d, rev) /\ rev \in Nat
    BY LoadFacts
<1>3. d.off \in Nat /\ d.got \in Seq(HomeRow) /\ d.shift \in BOOLEAN /\ ~d.delta
    BY <1>1, <1>2 DEF LoadShape
<1>4. {"pc", "off", "rev", "got", "shift"} \subseteq LoadFields
    BY DEF LoadFields
<1>5. /\ DOMAIN e = LoadFields /\ e.off \in Nat /\ e.got \in Seq(HomeRow) /\ e.rev = rev
      /\ e.shift \in BOOLEAN /\ e.pc = (IF e.off = 0 THEN "store" ELSE "drain")
      /\ \A f \in LoadFields \ {"pc", "off", "rev", "got", "shift"} : e[f] = d[f]
    BY <1>1, <1>2, <1>3, <1>4, DrainedShape
<1>6. e.since = d.since /\ e.gone = d.gone /\ e.delta = d.delta /\ e.query = d.query
    BY <1>5 DEF LoadFields
<1>7. load'[l] = e
    BY <1>1, LoadFacts
<1>8. e.query = "" /\ ~e.shift =>
         (e.off = 0 => Covers(e.got, e.rev, touched, listed)) /\ (e.off # 0 => Begins(e.got, e.off, Whole))
  <2> SUFFICES ASSUME e.query = "", ~e.shift
               PROVE  /\ e.off = 0 => Covers(e.got, e.rev, touched, listed)
                      /\ e.off # 0 => Begins(e.got, e.off, Whole)
    OBVIOUS
  <2>1. load[l].query = "" /\ load[l].pc = "drain"
    BY <1>1, <1>6
  <2>2. e = Drained(load[l], "store")
    OBVIOUS
  <2> HIDE DEF e
  <2> QED BY <2>1, <2>2, DrainedWhole
<1> HIDE DEF e
<1>9. LoadShape(e, rev)
  <2>1. rev \in 0 .. rev
    BY <1>2
  <2> QED BY <1>2, <1>3, <1>5, <1>6, <2>1 DEF LoadShape
<1>10. WholeIsRead(e, rev, touched, listed, Whole)
    BY <1>5, <1>8 DEF WholeIsRead
<1>11. Fits(e, rev, touched, listed, Whole)
    BY <1>3, <1>6, <1>9, <1>10 DEF Fits, DeltaIsRead
<1>12. (NewestIsSound(l))'
    BY <1>3, <1>5, <1>6, <1>7 DEF NewestIsSound, DeltaIsBased, PaintIsKept
<1> QED BY <1>1, <1>11, <1>12, LoadFacts, OneLoad

\* The load that counts moves: the others have nothing to be right about.
LEMMA NewestMoves ==
    ASSUME CoverInv, NEW l \in Loaders, Current(l), Runs(l), UNCHANGED <<ownerVars, gen, pass>>,
           NEW d2, load' = [load EXCEPT ![l] = d2], Fits(d2, rev, touched, listed, Whole),
           revision' \in 0 .. rev, rows' \in Seq(HomeRow), slice' \in BOOLEAN, torn' \in BOOLEAN,
           torn' \/ (KeptIsCovered' /\ (NewestIsSound(l))')
    PROVE  KeptInv'
<1>1. LoadsFit'
    BY LoadFacts, LoadsFitStay
<1>2. HomeShape'
    BY LoadFacts, ShapeStays DEF OwnerGoesOn, ownerVars
<1>3. CASE torn'
    BY <1>1, <1>2, <1>3, TornStep
<1>4. CASE KeptIsCovered' /\ (NewestIsSound(l))'
  <2>1. \A k \in Loaders \ {l} : load'[k] = load[k]
    BY LoadFacts
  <2>2. \A k \in Loaders \ {l} : load'[k].pc = load[k].pc /\ load'[k].gen = load[k].gen
    BY <2>1
  <2>3. \A k \in Loaders \ {l} : (NewestIsSound(k))'
    BY <2>2, LoadFacts, NewestAlone
  <2> QED BY <1>1, <1>2, <1>4, <2>3 DEF KeptInv
<1> QED BY <1>3, <1>4

\* The revision is kept while the rows are on their way.
LEMMA StoresKeeps ==
    ASSUME CoverInv, NEW l \in Loaders, LoadStores(l)
    PROVE  KeptInv'
<1> DEFINE d == load[l]
           m == Merged(rows, d.got, d.gone)
           a == [At(l, "apply") EXCEPT !.base = rows, !.got = m, !.gone = {}]
           b == At(l, "apply")
<1>1. /\ d.pc = "store" /\ UNCHANGED <<ownerVars, slice, gen, rows, torn, pass>>
      /\ ~Installing(load[l]) /\ Runs(l)
    BY DEF LoadStores, Goes, searchVars, Installing, Runs
<1>2. /\ DOMAIN d = LoadFields /\ LoadShape(d, rev) /\ rev \in Nat /\ Fits(d, rev, touched, listed, Whole)
      /\ rows \in Seq(HomeRow) /\ slice \in BOOLEAN /\ torn \in BOOLEAN
    BY LoadFacts
<1>3. d.got \in Seq(HomeRow) /\ d.rev \in 0 .. rev /\ d.since \in 0 .. rev
    BY <1>2 DEF LoadShape
<1>4. CASE ~Current(l)
  <2>1. load' = [load EXCEPT ![l] = Over(l)] /\ revision' = revision
    BY <1>4 DEF LoadStores, Goes
  <2> QED BY <1>1, <2>1, LoadFacts, LoadGivesUp
<1>5. CASE Current(l) /\ d.delta
  <2>1. load' = [load EXCEPT ![l] = a] /\ revision' = d.rev
    BY <1>5 DEF LoadStores, Goes
  <2>2. m \in Seq(HomeRow)
    BY <1>2, <1>3, MergedRows
  <2> HIDE DEF m
  <2>3. /\ DOMAIN a = LoadFields /\ a.pc = "apply" /\ a.got = m /\ a.gone = {} /\ a.rev = d.rev
        /\ a.since = d.since /\ a.off = d.off /\ a.delta = d.delta /\ a.query = d.query /\ a.shift = d.shift
    BY <1>2 DEF At, LoadFields
  <2> HIDE DEF a
  <2>4. LoadShape(a, rev)
    BY <1>1, <1>2, <1>5, <2>2, <2>3 DEF LoadShape
  <2>5. Fits(a, rev, touched, listed, Whole)
    BY <1>5, <2>3, <2>4 DEF Fits, WholeIsRead, DeltaIsRead
  <2>6. load'[l] = a /\ \A k \in Loaders \ {l} : load'[k] = load[k]
    BY <2>1, LoadFacts
  <2>7. KeptIsCovered'
    BY <2>3, <2>6 DEF KeptIsCovered, Excused, Installing
  <2>8. (NewestIsSound(l))'
    <3>1. Excused(Loaders) \/ Covers(rows, d.since, touched, listed)
      BY <1>1, <1>5, LoadFacts DEF NewestIsSound, DeltaIsBased
    <3>2. Excused(Loaders) => (Excused(Loaders \ {l}))'
      BY <1>1, <2>6 DEF Excused
    <3>3. Covers(rows, d.since, touched, listed) => Covers(m, d.rev, touched, listed)
      <4>1. Tells(d.got, d.gone, d.since, d.rev, touched, listed)
        BY <1>1, <1>2, <1>5 DEF Fits, DeltaIsRead
      <4>2. d.since \in Nat /\ d.rev \in Nat
        BY <1>3, LoadFacts
      <4> HIDE DEF d
      <4> QED BY <1>2, <1>3, <4>1, <4>2, LoadFacts, MergeCovers DEF m
    <3>4. (DeltaIsBased(l))'
      BY <1>1, <2>3, <2>6, <3>1, <3>2, <3>3 DEF DeltaIsBased, ownerVars
    <3>5. (PaintIsKept(load[l]))'
      BY <2>3, <2>6 DEF PaintIsKept
    <3> QED BY <3>4, <3>5 DEF NewestIsSound
  <2> QED BY <1>1, <1>2, <1>3, <1>5, <2>1, <2>5, <2>7, <2>8, NewestMoves
<1>6. CASE Current(l) /\ ~d.delta
  <2>1. load' = [load EXCEPT ![l] = b] /\ revision' = d.rev
    BY <1>6 DEF LoadStores, Goes
  <2>2. /\ DOMAIN b = LoadFields /\ b.pc = "apply" /\ b.got = d.got /\ b.gone = d.gone /\ b.rev = d.rev
        /\ b.since = d.since /\ b.off = d.off /\ b.delta = d.delta /\ b.query = d.query /\ b.shift = d.shift
    BY <1>2 DEF At, LoadFields
  <2> HIDE DEF b
  <2>3. LoadShape(b, rev)
    BY <1>1, <1>2, <2>2 DEF LoadShape
  <2>4. Fits(b, rev, touched, listed, Whole)
    BY <1>1, <1>2, <1>6, <2>2, <2>3 DEF Fits, WholeIsRead, DeltaIsRead
  <2>5. load'[l] = b
    BY <2>1, LoadFacts
  <2>6. KeptIsCovered'
    BY <2>2, <2>5 DEF KeptIsCovered, Excused, Installing
  <2>7. (NewestIsSound(l))'
    BY <1>6, <2>2, <2>5 DEF NewestIsSound, DeltaIsBased, PaintIsKept
  <2> QED BY <1>1, <1>2, <1>3, <1>6, <2>1, <2>4, <2>6, <2>7, NewestMoves
<1> QED BY <1>4, <1>5, <1>6

\* The paint, which says whether the rows are hits of a query.
LEMMA ShowsKeeps ==
    ASSUME CoverInv, NEW l \in Loaders, LoadShows(l)
    PROVE  KeptInv'
<1> DEFINE d == load[l]
           b == At(l, "fill")
           c == IF d.off # 0 THEN b ELSE Over(l)
<1>1. /\ d.pc = "paint" /\ UNCHANGED <<ownerVars, revision, gen, rows, pass>>
      /\ load' = [load EXCEPT ![l] = c] /\ slice' = (IF d.delta THEN slice ELSE d.query # "")
      /\ torn' = (torn \/ (~d.delta /\ (d.shift \/ ~Current(l) \/ rows # d.got))) /\ Runs(l)
    BY DEF LoadShows, Goes, searchVars, Runs
<1>2. /\ DOMAIN d = LoadFields /\ LoadShape(d, rev) /\ rev \in Nat /\ Fits(d, rev, touched, listed, Whole)
      /\ rows \in Seq(HomeRow) /\ slice \in BOOLEAN /\ torn \in BOOLEAN /\ revision \in 0 .. rev
      /\ LoadsShape
    BY LoadFacts
<1>3. d.delta \in BOOLEAN /\ d.shift \in BOOLEAN /\ (d.off # 0 => ~d.delta /\ d.query = "")
    BY <1>1, <1>2 DEF LoadShape
<1>4. slice' \in BOOLEAN /\ torn' \in BOOLEAN
    BY <1>1, <1>2, <1>3
<1>5. Fits(c, rev, touched, listed, Whole)
  <2>1. CASE d.off = 0
    BY <1>2, <2>1, FreshFits
  <2>2. CASE d.off # 0
    <3>1. /\ DOMAIN b = LoadFields /\ b.pc = "fill" /\ b.got = d.got /\ b.gone = d.gone /\ b.rev = d.rev
          /\ b.since = d.since /\ b.off = d.off /\ b.delta = d.delta /\ b.query = d.query /\ b.shift = d.shift
      BY <1>2 DEF At, LoadFields
    <3> HIDE DEF b
    <3>2. LoadShape(b, rev)
      BY <1>2, <1>3, <2>2, <3>1 DEF LoadShape
    <3>3. Fits(b, rev, touched, listed, Whole)
      BY <1>1, <1>2, <1>3, <2>2, <3>1, <3>2 DEF Fits, WholeIsRead, DeltaIsRead
    <3> QED BY <2>2, <3>3
  <2> QED BY <2>1, <2>2
<1>6. load'[l] = c /\ c.pc \in {"fill", "finish"} /\ (d.off = 0 => c.pc = "finish")
    BY <1>1, <1>2, LoadFacts, LoadRecords
<1> HIDE DEF c
<1>7. CASE torn'
  <2>1. LoadsFit' /\ HomeShape'
    BY <1>1, <1>2, <1>4, <1>5, LoadFacts, LoadsFitStay, ShapeStays DEF OwnerGoesOn, ownerVars
  <2> QED BY <1>7, <2>1, TornStep
<1>8. CASE d.delta
  <2>1. ~Installing(load[l]) /\ d.off = 0 /\ slice' = slice /\ torn' = torn
    BY <1>1, <1>2, <1>3, <1>8 DEF Installing
  <2>2. (NewestIsSound(l))'
    BY <1>6, <2>1, Resting
  <2> QED BY <1>1, <1>2, <1>4, <1>5, <2>1, <2>2, LoadFacts, OneLoad
<1>9. CASE ~torn' /\ ~d.delta
  <2>1. Current(l) /\ ~d.shift /\ ~torn /\ rows = d.got
    BY <1>1, <1>3, <1>9
  <2>2. CASE d.query # ""
    <3>1. slice'
      BY <1>1, <1>9, <2>2
    <3>2. KeptIsCovered'
      BY <3>1 DEF KeptIsCovered, Excused
    <3>3. (NewestIsSound(l))'
      <4>1. d.off = 0
        BY <1>2, <1>3, <2>2 DEF LoadShape
      <4>2. load'[l].pc = "finish"
        BY <1>6, <4>1
      <4> QED BY <4>2, Resting
    <3> QED BY <1>1, <1>2, <1>4, <1>5, <2>1, <3>2, <3>3, NewestMoves
  <2>3. CASE d.query = ""
    <3>1. d.off = 0 /\ revision = d.rev
      BY <1>1, <1>9, <2>1, <2>3, LoadFacts DEF NewestIsSound, PaintIsKept
    <3>2. Covers(d.got, d.rev, touched, listed)
      BY <1>1, <1>2, <1>9, <2>1, <2>3, <3>1 DEF Fits, WholeIsRead
    <3>3. KeptIsCovered'
      BY <1>1, <2>1, <3>1, <3>2 DEF KeptIsCovered, ownerVars
    <3>4. (NewestIsSound(l))'
      BY <1>6, <3>1, Resting
    <3> QED BY <1>1, <1>2, <1>4, <1>5, <2>1, <3>3, <3>4, NewestMoves
  <2> QED BY <2>2, <2>3
<1> QED BY <1>3, <1>4, <1>7, <1>8, <1>9

\* A page filled in behind the rows it follows.
LEMMA FilledPage ==
    ASSUME touched \in [Sessions -> Nat], listed \subseteq Sessions,
           NEW rs \in Seq(HomeRow), NEW off \in Nat,
           NEW all, all = Whole, Begins(rs, off, all),
           NEW page, page = WholePage(off),
           NEW next, next = NextOffset(off, Len(page), Len(all)),
           NEW none, none = {}, NEW got, got = Merged(rs, page, none), NEW r
    PROVE  (next = 0 => Covers(got, r, touched, listed)) /\ (next # 0 => Begins(got, next, all))
<1>1. page \in Seq(HomeRow) /\ Distinct(page)
    BY PageGoesOn
<1>2. \A s \in RowIds(rs) : s \notin RowIds(page)
    BY PageGoesOn
<1>3. \A g, q : Distinct(g) /\ RowSet(g) = RowSet(rs) \union RowSet(page) =>
             /\ next = 0 => Covers(g, q, touched, listed)
             /\ next # 0 => Begins(g, next, all)
    BY PageGoesOn
<1>4. Distinct(rs)
    BY DEF Begins
<1>5. /\ Distinct(got)
      /\ RowSet(got) = {q \in RowSet(rs) : q.id \notin none /\ q.id \notin RowIds(page)} \union RowSet(page)
    BY <1>1, <1>4, MergedRows
<1>6. \A q \in RowSet(rs) : q.id \in RowIds(rs)
    BY RowIdsOf
<1>7. RowSet(got) = RowSet(rs) \union RowSet(page)
    BY <1>5, <1>2, <1>6
<1> QED BY <1>5, <1>3, <1>7

\* A later page of a fill.
LEMMA FillsKeeps ==
    ASSUME CoverInv, NEW l \in Loaders, LoadFills(l)
    PROVE  KeptInv'
<1> DEFINE d == load[l]
           off == d.off
           all == Whole
           page == WholePage(off)
           next == NextOffset(off, Len(page), Len(all))
           m == Merged(rows, page, {})
           shift == d.shift \/ d.rev # rev \/ rows # d.got
           a == [At(l, "fillmerge") EXCEPT !.base = rows, !.got = page, !.off = next, !.shift = shift,
                                           !.rev = rev]
<1>1. /\ d.pc = "fill" /\ UNCHANGED <<ownerVars, revision, slice, gen, rows, torn, pass>>
      /\ ~Installing(load[l])
    BY DEF LoadFills, Goes, searchVars, Installing
<1>2. \/ load' = [load EXCEPT ![l] = Over(l)]
      \/ Current(l) /\ load' = [load EXCEPT ![l] = a]
    BY LoadFacts DEF LoadFills, Goes, WholePage, Whole, At, LoadFields
<1>3. /\ DOMAIN d = LoadFields /\ LoadShape(d, rev) /\ rev \in Nat /\ Fits(d, rev, touched, listed, Whole)
      /\ rows \in Seq(HomeRow) /\ slice \in BOOLEAN /\ torn \in BOOLEAN
      /\ touched \in [Sessions -> Nat] /\ listed \subseteq Sessions
    BY LoadFacts
<1>4. off \in Nat \ {0} /\ d.got \in Seq(HomeRow) /\ d.shift \in BOOLEAN /\ ~d.delta /\ d.query = ""
    BY <1>1, <1>3 DEF LoadShape
<1>5. CASE load' = [load EXCEPT ![l] = Over(l)]
    BY <1>1, <1>5, LoadFacts, LoadGivesUp
<1>6. CASE Current(l) /\ load' = [load EXCEPT ![l] = a]
  <2>1. page \in Seq(HomeRow)
    BY <1>3, <1>4, WholeRows
  <2>2. next \in Nat
    <3>1. Len(page) \in Nat
      BY <2>1
    <3> HIDE DEF page
    <3>2. off \in Nat
      BY <1>4
    <3> HIDE DEF off
    <3> QED BY <3>1, <3>2 DEF NextOffset
  <2>3. ~shift => Begins(rows, off, all)
    BY <1>1, <1>3, <1>4 DEF Fits, WholeIsRead
  <2>5. ~shift => (next = 0 => Covers(m, rev, touched, listed)) /\ (next # 0 => Begins(m, next, all))
    <3> SUFFICES ASSUME ~shift
                 PROVE  (next = 0 => Covers(m, rev, touched, listed)) /\ (next # 0 => Begins(m, next, all))
      OBVIOUS
    <3>1. /\ Begins(rows, off, all) /\ off \in Nat /\ rows \in Seq(HomeRow)
          /\ touched \in [Sessions -> Nat] /\ listed \subseteq Sessions
      BY <1>3, <1>4, <2>3
    <3>2. all = Whole /\ page = WholePage(off) /\ next = NextOffset(off, Len(page), Len(all))
          /\ m = Merged(rows, page, {})
      OBVIOUS
    <3> HIDE DEF d, off, all, page, next, m, shift
    <3> QED BY <3>1, <3>2, FilledPage
  <2>4. m = Merged(rows, page, {})
    OBVIOUS
  <2> HIDE DEF m, next, shift, page
  <2>6. /\ DOMAIN a = LoadFields /\ a.pc = "fillmerge" /\ a.base = rows /\ a.got = page
        /\ a.gone = d.gone /\ a.rev = rev
        /\ a.since = d.since /\ a.off = next /\ a.delta = d.delta /\ a.query = d.query /\ a.shift = shift
    BY <1>3 DEF At, LoadFields
  <2>7. shift \in BOOLEAN
    BY <1>4 DEF shift
  <2>8. load'[l] = a
    BY <1>6, LoadFacts
  <2> HIDE DEF a
  <2>9. LoadShape(a, rev)
    <3>1. rev \in 0 .. rev
      BY <1>3
    <3> QED BY <1>1, <1>3, <1>4, <2>1, <2>2, <2>6, <2>7, <3>1 DEF LoadShape
  <2>10. Fits(a, rev, touched, listed, all)
    BY <1>4, <2>4, <2>5, <2>6, <2>9 DEF Fits, WholeIsRead, DeltaIsRead
  <2>11. (NewestIsSound(l))'
    <3>1. torn \/ slice
      BY <1>1, <1>6, LoadFacts DEF NewestIsSound, PaintIsKept
    <3> QED BY <1>1, <1>4, <2>6, <2>8, <3>1 DEF NewestIsSound, DeltaIsBased, PaintIsKept
  <2> QED BY <1>1, <1>6, <2>10, <2>11, LoadFacts, OneLoad
<1> QED BY <1>2, <1>5, <1>6

\* The page is merged into the rows, which may not be those it was asked behind.
LEMMA FillMergesKeeps ==
    ASSUME CoverInv, NEW l \in Loaders, LoadFillMerges(l)
    PROVE  KeptInv'
<1> DEFINE d == load[l]
           m == Merged(rows, d.got, {})
           shift == d.shift \/ rows # d.base
           a == [At(l, "fillapply") EXCEPT !.base = rows, !.got = m, !.shift = shift]
<1>1. /\ d.pc = "fillmerge" /\ UNCHANGED <<ownerVars, revision, slice, gen, rows, torn, pass>>
      /\ ~Installing(load[l])
    BY DEF LoadFillMerges, Goes, searchVars, Installing
<1>2. /\ DOMAIN d = LoadFields /\ LoadShape(d, rev) /\ rev \in Nat /\ Fits(d, rev, touched, listed, Whole)
      /\ rows \in Seq(HomeRow) /\ slice \in BOOLEAN /\ torn \in BOOLEAN
    BY LoadFacts
<1>3. load' = [load EXCEPT ![l] = a]
    BY <1>2 DEF LoadFillMerges, Goes, At, LoadFields
<1>4. d.got \in Seq(HomeRow) /\ d.base \in Seq(HomeRow) /\ d.shift \in BOOLEAN /\ ~d.delta /\ d.query = ""
    BY <1>1, <1>2 DEF LoadShape
<1>5. m \in Seq(HomeRow)
    BY <1>2, <1>4, MergedRows
<1>6. shift \in BOOLEAN /\ (~shift => ~d.shift /\ m = Merged(d.base, d.got, {}))
    BY <1>4
<1> HIDE DEF m, shift
<1>7. /\ DOMAIN a = LoadFields /\ a.pc = "fillapply" /\ a.got = m /\ a.gone = d.gone /\ a.rev = d.rev
      /\ a.since = d.since /\ a.off = d.off /\ a.delta = d.delta /\ a.query = d.query /\ a.shift = shift
    BY <1>2 DEF At, LoadFields
<1>8. load'[l] = a
    BY <1>3, LoadFacts
<1> HIDE DEF a
<1>9. LoadShape(a, rev)
    BY <1>1, <1>2, <1>4, <1>5, <1>6, <1>7 DEF LoadShape
<1>10. Fits(a, rev, touched, listed, Whole)
    BY <1>1, <1>2, <1>4, <1>6, <1>7, <1>9 DEF Fits, WholeIsRead, DeltaIsRead
<1>11. (NewestIsSound(l))'
  <2>1. Current(l) => torn \/ slice
    BY <1>1, LoadFacts DEF NewestIsSound, PaintIsKept
  <2>2. Current(l)' => Current(l)
    BY <1>1, <1>3, LoadFacts, <1>8, LoadRecords DEF Current, LoadFillMerges, Goes, At
  <2> QED BY <1>1, <1>4, <1>7, <1>8, <2>1, <2>2 DEF NewestIsSound, DeltaIsBased, PaintIsKept
<1> QED BY <1>1, <1>2, <1>3, <1>10, <1>11, LoadFacts, OneLoad

\* The rows of a fill.
LEMMA FillAppliesKeeps ==
    ASSUME CoverInv, NEW l \in Loaders, LoadFillApplies(l)
    PROVE  KeptInv'
<1> DEFINE d == load[l]
           shift == d.shift \/ rows # d.base
           a == [At(l, "fillpaint") EXCEPT !.base = <<>>, !.shift = shift]
<1>1. /\ d.pc = "fillapply" /\ UNCHANGED <<ownerVars, revision, slice, gen, torn, pass>>
      /\ ~Installing(load[l]) /\ Runs(l)
    BY DEF LoadFillApplies, Goes, searchVars, Installing, Runs
<1>2. /\ DOMAIN d = LoadFields /\ LoadShape(d, rev) /\ rev \in Nat /\ Fits(d, rev, touched, listed, Whole)
      /\ rows \in Seq(HomeRow) /\ slice \in BOOLEAN /\ torn \in BOOLEAN /\ revision \in 0 .. rev
    BY LoadFacts
<1>3. d.got \in Seq(HomeRow) /\ d.shift \in BOOLEAN /\ ~d.delta /\ d.query = ""
    BY <1>1, <1>2 DEF LoadShape
<1>4. CASE ~Current(l)
  <2>1. load' = [load EXCEPT ![l] = Over(l)] /\ rows' = rows
    BY <1>4 DEF LoadFillApplies, Goes
  <2> QED BY <1>1, <2>1, LoadFacts, LoadGivesUp
<1>5. CASE Current(l)
  <2>1. load' = [load EXCEPT ![l] = a] /\ rows' = d.got
    BY <1>2, <1>5 DEF LoadFillApplies, Goes, At, LoadFields
  <2>2. shift \in BOOLEAN /\ (d.shift => shift)
    BY <1>3
  <2> HIDE DEF shift
  <2>3. /\ DOMAIN a = LoadFields /\ a.pc = "fillpaint" /\ a.got = d.got /\ a.gone = d.gone /\ a.rev = d.rev
        /\ a.since = d.since /\ a.off = d.off /\ a.delta = d.delta /\ a.query = d.query /\ a.shift = shift
    BY <1>2 DEF At, LoadFields
  <2>4. load'[l] = a
    BY <2>1, LoadFacts
  <2> HIDE DEF a
  <2>5. LoadShape(a, rev)
    BY <1>1, <1>2, <1>3, <2>2, <2>3 DEF LoadShape
  <2>6. Fits(a, rev, touched, listed, Whole)
    BY <1>1, <1>2, <1>3, <2>2, <2>3, <2>5 DEF Fits, WholeIsRead, DeltaIsRead
  <2>7. torn \/ slice
    BY <1>1, <1>5, LoadFacts DEF NewestIsSound, PaintIsKept
  <2>8. KeptIsCovered'
    BY <1>1, <2>7 DEF KeptIsCovered, Excused
  <2>9. (NewestIsSound(l))'
    BY <1>1, <1>3, <2>3, <2>4, <2>7 DEF NewestIsSound, DeltaIsBased, PaintIsKept
  <2> QED BY <1>1, <1>2, <1>3, <1>5, <2>1, <2>6, <2>8, <2>9, NewestMoves
<1> QED BY <1>4, <1>5

\* The last page of a fill nobody disturbed makes the rows whole again.
LEMMA FillPaintsKeeps ==
    ASSUME CoverInv, NEW l \in Loaders, LoadFillPaints(l)
    PROVE  KeptInv'
<1> DEFINE d == load[l]
           kept == ~d.shift /\ rows = d.got /\ revision <= d.rev /\ Current(l)
           a == [At(l, "fill") EXCEPT !.shift = ~kept]
           c == IF d.off = 0 THEN Over(l) ELSE a
<1>1. /\ d.pc = "fillpaint" /\ UNCHANGED <<ownerVars, slice, gen, rows, pass>> /\ Runs(l)
      /\ revision' = d.rev /\ torn' = (~kept \/ (torn /\ d.off # 0)) /\ load' = [load EXCEPT ![l] = c]
    BY DEF LoadFillPaints, Goes, searchVars, Runs
<1>2. /\ DOMAIN d = LoadFields /\ LoadShape(d, rev) /\ rev \in Nat /\ Fits(d, rev, touched, listed, Whole)
      /\ rows \in Seq(HomeRow) /\ slice \in BOOLEAN /\ torn \in BOOLEAN /\ LoadsShape
    BY LoadFacts
<1>3. d.shift \in BOOLEAN /\ ~d.delta /\ d.query = "" /\ d.rev \in 0 .. rev /\ d.off \in Nat
    BY <1>1, <1>2 DEF LoadShape
<1>4. kept \in BOOLEAN /\ torn' \in BOOLEAN /\ (kept => ~d.shift /\ rows = d.got /\ Current(l))
    BY <1>1, <1>2
<1> HIDE DEF kept
<1>5. /\ DOMAIN a = LoadFields /\ a.pc = "fill" /\ a.got = d.got /\ a.gone = d.gone /\ a.rev = d.rev
      /\ a.since = d.since /\ a.off = d.off /\ a.delta = d.delta /\ a.query = d.query /\ a.shift = ~kept
    BY <1>2 DEF At, LoadFields
<1> HIDE DEF a
<1>6. Fits(c, rev, touched, listed, Whole)
  <2>1. CASE d.off = 0
    BY <1>2, <2>1, FreshFits
  <2>2. CASE d.off # 0
    <3>1. LoadShape(a, rev)
      BY <1>2, <1>3, <1>4, <1>5, <2>2 DEF LoadShape
    <3>2. Fits(a, rev, touched, listed, Whole)
      BY <1>1, <1>2, <1>3, <1>4, <1>5, <2>2, <3>1 DEF Fits, WholeIsRead, DeltaIsRead
    <3> QED BY <2>2, <3>2
  <2> QED BY <2>1, <2>2
<1>7. load'[l] = c /\ (d.off = 0 => c.pc = "finish") /\ (d.off # 0 => c = a)
    BY <1>1, LoadFacts, LoadRecords
<1> HIDE DEF c
<1>8. LoadsFit' /\ HomeShape'
    BY <1>1, <1>2, <1>3, <1>4, <1>6, LoadFacts, LoadsFitStay, ShapeStays DEF OwnerGoesOn, ownerVars
<1>9. CASE torn'
    BY <1>8, <1>9, TornStep
<1>10. CASE ~torn'
  <2>1. kept /\ Current(l) /\ ~d.shift /\ rows = d.got
    BY <1>1, <1>4, <1>10
  <2>2. torn \/ slice
    BY <1>1, <2>1, LoadFacts DEF NewestIsSound, PaintIsKept
  <2>3. CASE d.off # 0
    <3>1. slice'
      BY <1>1, <1>10, <2>1, <2>2, <2>3
    <3>2. KeptIsCovered'
      BY <3>1 DEF KeptIsCovered, Excused
    <3>3. (NewestIsSound(l))'
      BY <1>3, <1>5, <1>7, <2>3, <3>1 DEF NewestIsSound, DeltaIsBased, PaintIsKept
    <3> QED BY <1>1, <1>2, <1>3, <1>4, <1>6, <2>1, <3>2, <3>3, NewestMoves
  <2>4. CASE d.off = 0
    <3>1. Covers(d.got, d.rev, touched, listed)
      BY <1>1, <1>2, <1>3, <2>1, <2>4 DEF Fits, WholeIsRead
    <3>2. KeptIsCovered'
      BY <1>1, <2>1, <3>1 DEF KeptIsCovered, ownerVars
    <3>3. load'[l].pc = "finish"
      BY <1>7, <2>4
    <3>4. (NewestIsSound(l))'
      BY <3>3, Resting
    <3> QED BY <1>1, <1>2, <1>3, <1>4, <1>6, <2>1, <3>2, <3>4, NewestMoves
  <2> QED BY <2>3, <2>4
<1> QED BY <1>4, <1>9, <1>10

\* A load that begins is the newest, and has nothing to be right about yet.
LEMMA BeginsKeeps ==
    ASSUME CoverInv, NEW l \in Loaders, ListLoadBegins(l)
    PROVE  KeptInv'
<1> DEFINE d == load[l]
           pc == IF applied # "" THEN "refresh" ELSE "ask"
           a == [At(l, pc) EXCEPT !.gen = gen + 1]
<1>1. /\ d.pc = "begin" /\ UNCHANGED <<ownerVars, revision, slice, rows, torn, pass>>
      /\ load' = [load EXCEPT ![l] = a] /\ gen' = gen + 1
    BY DEF ListLoadBegins, Goes, searchVars
<1>2. /\ DOMAIN d = LoadFields /\ LoadShape(d, rev) /\ rev \in Nat /\ Fits(d, rev, touched, listed, Whole)
      /\ rows \in Seq(HomeRow) /\ slice \in BOOLEAN /\ torn \in BOOLEAN /\ LoadsShape
      /\ DOMAIN load = Loaders
    BY LoadFacts
<1>3. pc \in {"refresh", "ask"}
    OBVIOUS
<1> HIDE DEF pc
<1>4. /\ DOMAIN a = LoadFields /\ a.pc = pc /\ a.got = d.got /\ a.gone = d.gone /\ a.rev = d.rev
      /\ a.since = d.since /\ a.off = d.off /\ a.delta = d.delta /\ a.query = d.query /\ a.shift = d.shift
    BY <1>2 DEF At, LoadFields
<1> HIDE DEF a
<1>5. LoadShape(a, rev)
    BY <1>1, <1>2, <1>3, <1>4 DEF LoadShape
<1>6. Fits(a, rev, touched, listed, Whole)
    BY <1>3, <1>4, <1>5 DEF Fits, WholeIsRead, DeltaIsRead
<1>7. LoadsFit' /\ HomeShape'
    BY <1>1, <1>2, <1>6, LoadFacts, LoadsFitStay, ShapeStays DEF OwnerGoesOn, ownerVars
<1>8. \A k \in Loaders : load'[k] = IF k = l THEN a ELSE load[k]
    BY <1>1, <1>2
<1>9. ASSUME NEW k \in Loaders PROVE (NewestIsSound(k))'
  <2>1. CASE k = l
    BY <1>3, <1>4, <1>8, <2>1, Resting
  <2>2. CASE k # l
    <3>1. load'[k] = load[k] /\ load[k].gen \in 0 .. gen /\ gen \in Nat
      BY <1>2, <1>8, <2>2 DEF LoadsShape
    <3> QED BY <1>1, <3>1 DEF NewestIsSound, Current
  <2> QED BY <2>1, <2>2
<1>10. KeptIsCovered'
  <2>1. \A k \in Loaders : Installing(load[k]) => Installing(load'[k])
    BY <1>1, <1>8 DEF Installing
  <2> QED BY <1>1, <2>1, LoadFacts DEF KeptIsCovered, Excused, ownerVars
<1> QED BY <1>7, <1>9, <1>10 DEF KeptInv

\* Loads overtaken by what others install.
LEMMA OvertakenOne ==
    ASSUME NEW ld, NEW others, NEW k \in Loaders, DOMAIN ld[k] = LoadFields
    PROVE  /\ \E b \in BOOLEAN : Overtaken(ld, others)[k] = [ld[k] EXCEPT !.shift = @ \/ b]
           /\ Overtaken(ld, others)[k].pc = ld[k].pc /\ Overtaken(ld, others)[k].gen = ld[k].gen
           /\ Overtaken(ld, others)[k].delta = ld[k].delta /\ Overtaken(ld, others)[k].query = ld[k].query
           /\ k \in others /\ ld[k].pc = "paint" => Overtaken(ld, others)[k].shift
           /\ Overtaken(ld, others)[k].off = ld[k].off /\ Overtaken(ld, others)[k].rev = ld[k].rev
<1> DEFINE b == k \in others /\ ld[k].pc \in {"paint", "fill", "fillapply", "fillpaint"}
           o == Overtaken(ld, others)[k]
<1>1. o = [ld[k] EXCEPT !.shift = @ \/ b]
    BY DEF Overtaken
<1>2. b \in BOOLEAN
    OBVIOUS
<1>3. o.pc = ld[k].pc /\ o.gen = ld[k].gen /\ o.delta = ld[k].delta /\ o.query = ld[k].query
      /\ o.off = ld[k].off /\ o.rev = ld[k].rev /\ o.shift = (ld[k].shift \/ b)
    BY <1>1 DEF LoadFields
<1>4. k \in others /\ ld[k].pc = "paint" => o.shift
    BY <1>3
<1> HIDE DEF o, b
<1> QED BY <1>1, <1>2, <1>3, <1>4 DEF o

\* Loads that are overtaken still fit.
LEMMA OvertakenFit ==
    ASSUME HomeShape, UNCHANGED ownerVars, NEW ld, NEW others, load' = Overtaken(ld, others),
           \A k \in Loaders : Fits(ld[k], rev, touched, listed, Whole)
    PROVE  LoadsFit'
<1>1. UNCHANGED <<rev, touched, listed>> /\ Whole' = Whole
    BY WholeStays DEF ownerVars
<1>2. ASSUME NEW k \in Loaders PROVE Fits(load'[k], rev, touched, listed, Whole)
  <2>1. Fits(ld[k], rev, touched, listed, Whole) /\ DOMAIN ld[k] = LoadFields
    BY DEF Fits, LoadShape
  <2>2. PICK b \in BOOLEAN : load'[k] = [ld[k] EXCEPT !.shift = @ \/ b]
    BY <2>1, OvertakenOne
  <2> QED BY <2>1, <2>2, ShiftFits
<1> QED BY <1>1, <1>2 DEF LoadsFit

\* The rows a load installs cover the revision it kept, or torn says so.
LEMMA AppliesCovers ==
    ASSUME CoverInv, NEW l \in Loaders, LoadApplies(l)
    PROVE  KeptInv'
<1> DEFINE d == load[l]
           a == [d EXCEPT !.pc = "paint", !.base = <<>>]
           mid == [load EXCEPT ![l] = a]
<1>1. d.pc = "apply" /\ Runs(l) /\ UNCHANGED <<ownerVars, revision, slice, gen, pass>>
    BY DEF LoadApplies, Is, Runs, searchVars
<1>2. /\ DOMAIN d = LoadFields /\ LoadShape(d, rev) /\ rev \in Nat /\ Fits(d, rev, touched, listed, Whole)
      /\ rows \in Seq(HomeRow) /\ slice \in BOOLEAN /\ torn \in BOOLEAN /\ LoadsShape /\ HomeShape
      /\ revision \in 0 .. rev /\ PassShape(pass, rev) /\ DOMAIN load = Loaders /\ LoadsFit /\ BusyInv
    BY LoadFacts
<1>3. d.got \in Seq(HomeRow) /\ d.delta \in BOOLEAN /\ d.shift \in BOOLEAN
    BY <1>2 DEF LoadShape
<1>4. CASE ~Current(l)
  <2>1. load' = [load EXCEPT ![l] = Over(l)] /\ rows' = rows /\ torn' = TRUE
    BY <1>4 DEF LoadApplies
  <2>2. LoadsFit'
    BY <1>1, <1>2, <2>1, FreshFits, LoadsFitStay
  <2>3. HomeShape'
    BY <1>1, <1>2, <2>1, ShapeStays DEF OwnerGoesOn, ownerVars
  <2> QED BY <2>1, <2>2, <2>3, TornStep
<1>5. CASE Current(l)
  <2>1. /\ rows' = d.got /\ load' = Overtaken(mid, Loaders \ {l})
        /\ torn' = IF d.delta THEN torn \/ rows # d.base \/ revision # d.rev
                   ELSE d.shift \/ d.off # 0 \/ revision # d.rev
    BY <1>5 DEF LoadApplies
  <2>2. /\ DOMAIN a = LoadFields /\ a.pc = "paint" /\ a.got = d.got /\ a.gone = d.gone /\ a.rev = d.rev
        /\ a.since = d.since /\ a.off = d.off /\ a.delta = d.delta /\ a.query = d.query /\ a.shift = d.shift
    BY <1>2 DEF LoadFields
  <2> HIDE DEF a
  <2>3. LoadShape(a, rev)
    BY <1>1, <1>2, <2>2 DEF LoadShape
  <2>4. Fits(a, rev, touched, listed, Whole)
    BY <1>1, <1>2, <2>2, <2>3 DEF Fits, WholeIsRead, DeltaIsRead
  <2>5. \A k \in Loaders : mid[k] = IF k = l THEN a ELSE load[k]
    BY <1>2
  <2> HIDE DEF mid
  <2>6. \A k \in Loaders : Fits(mid[k], rev, touched, listed, Whole)
    BY <1>2, <2>4, <2>5 DEF LoadsFit
  <2>7. LoadsFit'
    BY <1>1, <1>2, <2>1, <2>6, OvertakenFit
  <2>8. torn' \in BOOLEAN
    BY <1>2, <1>3, <2>1
  <2>9. HomeShape'
    BY <1>1, <1>2, <1>3, <2>1, <2>8, ShapeStays DEF OwnerGoesOn, ownerVars
  <2>10. ASSUME NEW k \in Loaders
         PROVE  /\ load'[k].pc = mid[k].pc /\ load'[k].gen = mid[k].gen
                /\ load'[k].delta = mid[k].delta /\ load'[k].query = mid[k].query
                /\ load'[k].off = mid[k].off /\ load'[k].rev = mid[k].rev
    <3>1. DOMAIN mid[k] = LoadFields
      BY <2>6 DEF Fits, LoadShape
    <3> QED BY <2>1, <3>1, OvertakenOne
  <2>11. /\ load'[l].pc = "paint" /\ load'[l].delta = d.delta /\ load'[l].query = d.query
         /\ load'[l].off = d.off /\ load'[l].rev = d.rev
    BY <2>2, <2>5, <2>10
  <2>12. CASE torn'
    BY <2>7, <2>9, <2>12, TornStep
  <2>13. CASE ~torn'
    <3>1. \A k \in Loaders \ {l} : load'[k].pc = load[k].pc /\ load'[k].gen = load[k].gen
      BY <2>5, <2>10
    <3>2. \A k \in Loaders \ {l} : (NewestIsSound(k))'
      BY <1>1, <1>2, <1>5, <3>1, NewestAlone
    <3>3. revision = d.rev
      BY <1>3, <2>1, <2>13
    <3>4. CASE d.delta
      <4>1. Excused(Loaders \ {l}) \/ Covers(d.got, d.rev, touched, listed)
        BY <1>1, <1>5, <3>4, LoadFacts DEF NewestIsSound, DeltaIsBased
      <4>2. ~torn
        BY <1>3, <2>1, <2>13, <3>4
      <4>3. \A k \in Loaders \ {l} : Installing(load[k]) => Installing(load'[k])
        BY <2>5, <2>10 DEF Installing
      <4>4. Excused(Loaders \ {l}) => (Excused(Loaders))'
        BY <1>1, <4>2, <4>3 DEF Excused
      <4>5. KeptIsCovered'
        BY <1>1, <2>1, <3>3, <4>1, <4>4 DEF KeptIsCovered, ownerVars
      <4>6. (NewestIsSound(l))'
        BY <2>2, <2>11, <3>4 DEF NewestIsSound, DeltaIsBased, PaintIsKept
      <4> QED BY <2>7, <2>9, <3>2, <4>5, <4>6 DEF KeptInv
    <3>5. CASE ~d.delta
      <4>1. ~d.shift /\ d.off = 0
        BY <1>3, <2>1, <2>13, <3>5
      <4>2. KeptIsCovered'
        <5>1. CASE d.query = ""
          <6>1. Covers(d.got, d.rev, touched, listed)
            BY <1>1, <1>2, <3>5, <4>1, <5>1 DEF Fits, WholeIsRead
          <6> QED BY <1>1, <2>1, <3>3, <6>1 DEF KeptIsCovered, ownerVars
        <5>2. CASE d.query # ""
          BY <2>2, <2>11, <3>5, <5>2 DEF KeptIsCovered, Excused, Installing
        <5> QED BY <5>1, <5>2
      <4>3. (NewestIsSound(l))'
        BY <1>1, <2>2, <2>11, <3>3, <3>5, <4>1 DEF NewestIsSound, DeltaIsBased, PaintIsKept
      <4> QED BY <2>7, <2>9, <3>2, <4>2, <4>3 DEF KeptInv
    <3> QED BY <1>3, <3>4, <3>5
  <2> QED BY <2>8, <2>12, <2>13
<1> QED BY <1>4, <1>5

-----------------------------------------------------------------------------
(* Threads that start, the pass, the owner, a delete.                      *)

\* What every step may rely on.
LEMMA ShapeFacts ==
    ASSUME CoverInv
    PROVE  /\ BusyInv /\ LoadsShape /\ HomeShape /\ LoadsFit /\ OwnerShape /\ DOMAIN load = Loaders
           /\ rev \in Nat /\ touched \in [Sessions -> 0 .. rev] /\ listed \subseteq Sessions
           /\ revision \in 0 .. rev /\ rows \in Seq(HomeRow)
           /\ slice \in BOOLEAN /\ torn \in BOOLEAN /\ PassShape(pass, rev)
BY DEF CoverInv, KeptInv, BusyInv, LoadsShape, HomeShape, OwnerShape

\* A thread that starts.
LEMMA StartsKeeps ==
    ASSUME CoverInv, NEW quiet, StartsLoad(quiet),
           UNCHANGED <<ownerVars, revision, slice, gen, rows, torn, pass>>
    PROVE  KeptInv'
<1>1. PICK l \in Loaders : /\ LoaderFree(l)
                           /\ load' = [load EXCEPT ![l] = [NoLoad EXCEPT !.pc = "begin", !.quiet = quiet]]
    BY DEF StartsLoad
<1> DEFINE r == [NoLoad EXCEPT !.pc = "begin", !.quiet = quiet]
<1>2. Fits(r, rev, touched, listed, Whole)
    BY ShapeFacts, FreshFits
<1>3. r.pc = "begin"
    BY DEF NoLoad
<1>4. load' = [load EXCEPT ![l] = r]
    BY <1>1
<1> HIDE DEF r
<1>5. load'[l] = r
    BY <1>4, ShapeFacts
<1>6. (NewestIsSound(l))'
    BY <1>3, <1>5, Resting
<1>7. ~Installing(load[l])
    BY <1>1 DEF Installing, LoaderFree
<1> QED BY <1>2, <1>4, <1>6, <1>7, ShapeFacts, OneLoad

\* Steps that neither the rows, the loads nor the owner take part in.
LEMMA AsideKeeps ==
    ASSUME CoverInv, UNCHANGED <<ownerVars, revision, slice, gen, rows, torn, load>>, PassShape(pass', rev)
    PROVE  KeptInv'
<1>1. OwnerGoesOn /\ UNCHANGED <<touched, listed>>
    BY DEF OwnerGoesOn, ownerVars
<1> QED BY <1>1, ShapeFacts, NoLoadMoves

\* The steps of the search pass.
LEMMA PassShapes ==
    ASSUME CoverInv, PassReads \/ PassDrains \/ PassEnds \/ PassFails \/ ApplySearch
    PROVE  PassShape(pass', rev)
<1>1. PassShape(NoPass, rev) /\ \A pc : PassShape([NoPass EXCEPT !.pc = pc], rev)
    BY ShapeFacts, NoPassShape
<1>2. CASE PassReads
  <2> DEFINE pc == IF applied = "" THEN "done" ELSE "drain"
             p == [NoPass EXCEPT !.pc = pc, !.gen = flight.gen, !.query = applied]
  <2>1. pass' = p
    BY <1>2 DEF PassReads, PassGoes
  <2>2. PassShape(p, rev)
    BY <1>1 DEF PassShape
  <2> QED BY <2>1, <2>2
<1>3. CASE PassDrains
  <2> DEFINE F == {"pc", "gen", "query", "off", "got", "rev", "shift"}
             e == Drained(pass, "apply")
  <2>1. pass' = e
    BY <1>3 DEF PassDrains, PassGoes
  <2>2. DOMAIN pass = F /\ pass.off \in Nat /\ pass.got \in Seq(HomeRow) /\ pass.shift \in BOOLEAN
    BY ShapeFacts DEF PassShape
  <2>3. {"pc", "off", "rev", "got", "shift"} \subseteq F
    OBVIOUS
  <2>4. e = Drained(pass, "apply")
    OBVIOUS
  <2> HIDE DEF e, F
  <2>5. /\ DOMAIN e = F /\ e.off \in Nat /\ e.got \in Seq(HomeRow) /\ e.rev = rev /\ e.shift \in BOOLEAN
    BY <2>2, <2>3, <2>4, DrainedShape
  <2>6. rev \in 0 .. rev
    BY ShapeFacts
  <2> QED BY <2>1, <2>5, <2>6 DEF PassShape, F
<1>4. CASE PassEnds \/ PassFails
  <2>1. pass' = NoPass \/ \E pc : pass' = [NoPass EXCEPT !.pc = pc]
    BY <1>4 DEF PassEnds, PassFails, PassGoes
  <2> QED BY <1>1, <2>1
<1>5. CASE ApplySearch
  <2>1. pass' = pass \/ \E pc : pass' = [NoPass EXCEPT !.pc = pc]
    BY <1>5 DEF ApplySearch, PassStarts
  <2> QED BY <1>1, <2>1, ShapeFacts
<1> QED BY <1>2, <1>3, <1>4, <1>5

\* Hits are no list to poll deltas for, and slice says so.
LEMMA PassAppliesCovers ==
    ASSUME CoverInv, PassApplies
    PROVE  KeptInv'
<1>1. PassShape(NoPass, rev) /\ \A pc : PassShape([NoPass EXCEPT !.pc = pc], rev)
    BY ShapeFacts, NoPassShape
<1>2. \E pc : pass' = [NoPass EXCEPT !.pc = pc]
    BY DEF PassApplies, PassGoes
<1>3. PassShape(pass', rev) /\ UNCHANGED <<ownerVars, gen>>
    BY <1>1, <1>2 DEF PassApplies
<1>4. CASE UNCHANGED <<rows, slice, revision, torn, load>>
    BY <1>3, <1>4, AsideKeeps
<1>5. CASE /\ rows' = pass.got /\ slice' = TRUE /\ revision' = pass.rev /\ torn' = pass.shift
           /\ load' = Overtaken(load, Loaders)
  <2>1. rows' \in Seq(HomeRow) /\ revision' \in 0 .. rev /\ torn' \in BOOLEAN /\ slice' \in BOOLEAN
    BY <1>5, ShapeFacts DEF PassShape
  <2>2. HomeShape'
    BY <1>3, <2>1, ShapeFacts, ShapeStays DEF OwnerGoesOn, ownerVars
  <2>3. LoadsFit'
    BY <1>3, <1>5, ShapeFacts, OvertakenFit DEF LoadsFit
  <2>4. \A ls : (Excused(ls))'
    BY <1>5 DEF Excused
  <2>5. ASSUME NEW k \in Loaders PROVE (NewestIsSound(k))'
    <3>1. DOMAIN load[k] = LoadFields
      BY ShapeFacts DEF LoadsShape
    <3>2. load'[k].pc = load[k].pc /\ (load[k].pc = "paint" => load'[k].shift)
      BY <1>5, <3>1, OvertakenOne
    <3> QED BY <1>5, <2>4, <3>2 DEF NewestIsSound, DeltaIsBased, PaintIsKept
  <2> QED BY <2>2, <2>3, <2>4, <2>5 DEF KeptInv, KeptIsCovered
<1> QED BY <1>4, <1>5 DEF PassApplies

\* A change of the owner.
LEMMA OwnerMoved ==
    ASSUME NEW s \in Sessions, NEW there, Changed(s, there), CoverInv
    PROVE  OwnerGoesOn /\ OwnerMoves(s)
BY ShapeFacts DEF OwnerGoesOn, OwnerMoves, Changed

\* A session is touched, dropped, or changed past the log of deltas.
LEMMA OwnerChanges ==
    ASSUME CoverInv, NEW s \in Sessions, OwnerTouches(s) \/ OwnerDrops(s) \/ OwnerGaps(s)
    PROVE  KeptInv'
<1>1. PICK there \in BOOLEAN : Changed(s, there)
    BY DEF OwnerTouches, OwnerDrops, OwnerGaps
<1>2. UNCHANGED <<revision, slice, gen, load, torn, rows, pass>>
    BY <1>1 DEF Changed, searchVars
<1>3. OwnerGoesOn
    BY <1>1, OwnerMoved
<1>4. \A r \in 0 .. rev : Covers(rows, r, touched, listed) => Covers(rows', r, touched', listed')
    BY <1>2, <1>3, ShapeFacts, OwnerKeeps
<1> QED BY <1>2, <1>3, <1>4, ShapeFacts, NoLoadMoves

\* Rows lose what the owner does not list.
LEMMA WithoutCovers ==
    ASSUME NEW rs \in Seq(HomeRow), NEW r, NEW t, NEW ls, NEW s, s \notin ls, Covers(rs, r, t, ls)
    PROVE  Covers(Without(rs, {s}), r, t, ls)
<1> DEFINE w == Without(rs, {s})
<1>1. /\ Distinct(w) /\ RowSet(w) = {q \in RowSet(rs) : q.id \notin {s}}
    BY WithoutRows DEF Covers
<1> HIDE DEF w
<1>2. RowIds(w) = {q.id : q \in RowSet(w)} /\ RowIds(rs) = {q.id : q \in RowSet(rs)}
    BY RowIdsOf
<1>3. ASSUME NEW k \in Sessions, t[k] <= r
      PROVE  IF k \in ls THEN [id |-> k, ver |-> t[k]] \in RowSet(w) ELSE k \notin RowIds(w)
  <2>1. IF k \in ls THEN [id |-> k, ver |-> t[k]] \in RowSet(rs) ELSE k \notin RowIds(rs)
    BY <1>3 DEF Covers
  <2>2. [id |-> k, ver |-> t[k]].id = k
    OBVIOUS
  <2> QED BY <1>1, <1>2, <2>1, <2>2
<1> QED BY <1>1, <1>3 DEF Covers, w

\* A delete the owner does or refuses: the rows wait.
LEMMA DeleteAsksKeeps ==
    ASSUME CoverInv, NEW s \in Sessions, DeleteAsks(s)
    PROVE  KeptInv'
<1>1. UNCHANGED <<revision, slice, gen, load, torn, rows, pass>>
    BY DEF DeleteAsks, searchVars
<1>2. CASE rev' = rev + 1 /\ listed' = listed \ {s} /\ touched' = [touched EXCEPT ![s] = rev + 1]
  <2>1. OwnerGoesOn
    BY <1>2, ShapeFacts DEF OwnerMoves, OwnerGoesOn
  <2>2. \A r \in 0 .. rev : Covers(rows, r, touched, listed) => Covers(rows', r, touched', listed')
    BY <1>1, <2>1, ShapeFacts, OwnerKeeps
  <2> QED BY <1>1, <2>1, <2>2, ShapeFacts, NoLoadMoves
<1>3. CASE UNCHANGED ownerVars
    BY <1>1, <1>3, AsideKeeps, ShapeFacts
<1> QED BY <1>2, <1>3 DEF DeleteAsks

\* The row goes, and torn says so if the owner still lists it.
LEMMA DeleteDropsKeeps ==
    ASSUME CoverInv, NEW s \in Sessions, DeleteDrops(s)
    PROVE  KeptInv'
<1>1. /\ rows' = Without(rows, {s}) /\ UNCHANGED <<ownerVars, revision, slice, gen, load, pass>>
      /\ torn' = (torn \/ s \in listed)
    BY DEF DeleteDrops, searchVars
<1>2. rows' \in Seq(HomeRow)
    BY <1>1, ShapeFacts, WithoutRows
<1>3. OwnerGoesOn /\ UNCHANGED <<touched, listed, rev>>
    BY <1>1 DEF OwnerGoesOn, ownerVars
<1>4. CASE s \in listed
  <2>1. torn' = TRUE
    BY <1>1, <1>4, ShapeFacts
  <2>2. HomeShape'
    BY <1>1, <1>2, <1>3, <2>1, ShapeFacts, ShapeStays
  <2>3. LoadsFit'
    BY <1>1, <1>3, ShapeFacts, OthersFit
  <2> QED BY <2>1, <2>2, <2>3, TornStep
<1>5. CASE s \notin listed
  <2>1. torn' = torn
    BY <1>1, <1>5, ShapeFacts
  <2>2. ASSUME NEW r \in 0 .. rev, Covers(rows, r, touched, listed) PROVE Covers(rows', r, touched', listed')
    BY <1>1, <1>3, <1>5, <2>2, ShapeFacts, WithoutCovers
  <2> QED BY <1>1, <1>2, <1>3, <2>1, <2>2, ShapeFacts, NoLoadMoves
<1> QED BY <1>4, <1>5

\* A search pass whose answer does not come.
LEMMA PassFailsKeeps ==
    ASSUME CoverInv, PassFails
    PROVE  KeptInv'
<1>1. UNCHANGED <<ownerVars, revision, slice, gen, rows, load>> /\ torn' = TRUE
    BY DEF PassFails
<1>2. PassShape(pass', rev)
    BY PassShapes
<1>3. OwnerGoesOn
    BY <1>1 DEF OwnerGoesOn, ownerVars
<1>4. HomeShape'
    BY <1>1, <1>2, <1>3, ShapeFacts, ShapeStays
<1>5. LoadsFit'
    BY <1>1, <1>3, ShapeFacts, OthersFit
<1> QED BY <1>1, <1>4, <1>5, TornStep

-----------------------------------------------------------------------------
\* Every step keeps the rows right up to the revision.
LEMMA CoverStep == CoverInv /\ [HomeNext]_homeVars => CoverInv'
<1> SUFFICES ASSUME CoverInv, [HomeNext]_homeVars PROVE KeptInv'
    BY BusyStep DEF CoverInv
<1>1. CASE UNCHANGED homeVars
    BY <1>1, AsideKeeps, ShapeFacts DEF homeVars, searchVars
<1>2. ASSUME NEW s \in Sessions,
             \/ OwnerTouches(s) \/ OwnerDrops(s) \/ OwnerGaps(s)
             \/ DeleteAsks(s) \/ DeleteDrops(s)
      PROVE  KeptInv'
    BY <1>2, OwnerChanges, DeleteAsksKeeps, DeleteDropsKeeps
<1>3. CASE RefreshSessionsList \/ SearchChanges \/ Hear
  <2>1. UNCHANGED <<ownerVars, revision, slice, gen, rows, torn, load, pass>>
    BY <1>3 DEF RefreshSessionsList, SearchChanges, Hear, searchVars
  <2> QED BY <2>1, AsideKeeps, ShapeFacts
<1>4. CASE PassReads \/ PassDrains \/ PassEnds
  <2>1. UNCHANGED <<ownerVars, revision, slice, gen, rows, torn, load>>
    BY <1>4 DEF PassReads, PassDrains, PassEnds
  <2> QED BY <1>4, <2>1, AsideKeeps, PassShapes
<1>5. CASE PassApplies
    BY <1>5, PassAppliesCovers
<1>6. CASE FireReload
  <2>1. UNCHANGED <<ownerVars, revision, slice, gen, rows, torn, pass>> /\ \E quiet : StartsLoad(quiet)
    BY <1>6 DEF FireReload, searchVars
  <2> QED BY <2>1, StartsKeeps
<1>7. CASE ApplySearch
  <2>1. /\ UNCHANGED <<ownerVars, revision, slice, gen, rows, torn>>
        /\ UNCHANGED load \/ (StartsLoad(TRUE) /\ UNCHANGED pass)
    BY <1>7 DEF ApplySearch
  <2> QED BY <1>7, <2>1, StartsKeeps, AsideKeeps, PassShapes
<1>8. CASE PassFails
    BY <1>8, PassFailsKeeps
<1>9. ASSUME NEW l \in Loaders, LoadStep(l) \/ LoadFails(l) PROVE KeptInv'
    BY <1>9, BeginsKeeps, RefreshesKeeps, AsksKeeps, RepliesKeeps, DrainsKeeps, StoresKeeps,
       AppliesCovers, ShowsKeeps, FillsKeeps, FillMergesKeeps, FillAppliesKeeps, FillPaintsKeeps, EndsKeeps, FailsKeeps
       DEF LoadStep
<1> QED BY <1>1, <1>2, <1>3, <1>4, <1>5, <1>6, <1>7, <1>8, <1>9 DEF HomeNext, HomeStep, PassStep

\* Rows that cover a revision show it.
LEMMA CoversShows ==
    ASSUME NEW rs \in Seq(HomeRow), NEW r, Covers(rs, r, touched, listed),
           NEW s \in Sessions, touched[s] <= r
    PROVE  Shown(rs, "")[s] = IF s \in listed THEN touched[s] ELSE 0
<1>1. Shown(rs, "")[s] = IF s \in RowIds(rs) THEN rs[FirstOf(rs, s)].ver ELSE 0
    BY DEF Shown, Matches
<1>2. CASE s \notin listed
    BY <1>1, <1>2 DEF Covers
<1>3. CASE s \in listed
  <2>1. [id |-> s, ver |-> touched[s]] \in RowSet(rs) /\ Distinct(rs)
    BY <1>3 DEF Covers
  <2>2. PICK i \in DOMAIN rs : rs[i] = [id |-> s, ver |-> touched[s]]
    BY <2>1 DEF RowSet
  <2>3. rs[i].id = s /\ rs[i].ver = touched[s]
    BY <2>2
  <2>4. s \in RowIds(rs)
    BY <2>3 DEF RowIds
  <2>5. i \in Nat /\ \A j \in DOMAIN rs : rs[j].id = s => j = i
    BY <2>1, <2>3 DEF Distinct
  <2>6. FirstOf(rs, s) = i
    <3>1. rs[i].id = s /\ \A j \in DOMAIN rs : rs[j].id = s => i <= j
      BY <2>3, <2>5
    <3>2. FirstOf(rs, s) \in DOMAIN rs /\ rs[FirstOf(rs, s)].id = s
      BY <3>1 DEF FirstOf
    <3> QED BY <2>5, <3>2
  <2> QED BY <1>1, <1>3, <2>3, <2>4, <2>6
<1> QED BY <1>2, <1>3

\* Rows that are right show it.
LEMMA CoverShows == CoverInv => RevisionIsCovered
<1> SUFFICES ASSUME CoverInv, ~(torn \/ slice \/ \E l \in Loaders : load[l].pc \in {"apply", "paint"}),
                    NEW s \in Sessions, touched[s] <= revision
             PROVE  Shown(rows, "")[s] = IF s \in listed THEN touched[s] ELSE 0
    BY DEF RevisionIsCovered
<1>1. ~Excused(Loaders)
    BY DEF Excused, Installing
<1>2. Covers(rows, revision, touched, listed) /\ rows \in Seq(HomeRow)
    BY <1>1, ShapeFacts DEF CoverInv, KeptInv, KeptIsCovered
<1> QED BY <1>2, CoversShows

\* At the start nothing is listed, and nothing is older than the revision kept.
LEMMA CoverStarts == HomeInit => CoverInv
<1> SUFFICES ASSUME HomeInit PROVE CoverInv
    OBVIOUS
<1>1. BusyInv /\ LoadsShape
    BY BusyStarts DEF BusyInv
<1>2. /\ rev = 1 /\ touched = [s \in Sessions |-> IF s \in Extra THEN 0 ELSE 1]
      /\ listed = Sessions \ Extra /\ pass = NoPass /\ rows = <<>> /\ revision = 0
      /\ slice = FALSE /\ torn = FALSE /\ load = [l \in Loaders |-> NoLoad]
    BY DEF HomeInit
<1>3. HomeShape
  <2>1. rev \in Nat /\ revision \in 0 .. rev /\ rows \in Seq(HomeRow) /\ touched \in [Sessions -> 0 .. rev]
    BY <1>2
  <2>2. PassShape(pass, rev)
    BY <1>2, <2>1, NoPassShape
  <2> QED BY <1>2, <2>1, <2>2 DEF HomeShape
<1>4. LoadsFit
  <2> SUFFICES ASSUME NEW l \in Loaders PROVE Fits(load[l], rev, touched, listed, Whole)
    BY DEF LoadsFit
  <2>1. load[l] = NoLoad /\ rev \in Nat
    BY <1>2
  <2> QED BY <1>1, <2>1, FreshFits
<1>5. Covers(rows, revision, touched, listed)
  <2>1. Distinct(rows) /\ RowIds(rows) = {}
    BY <1>2 DEF Distinct, RowIds
  <2>2. \A s \in Sessions : touched[s] <= revision => s \notin listed
    BY <1>2
  <2> QED BY <2>1, <2>2 DEF Covers
<1>6. \A l \in Loaders : NewestIsSound(l)
  <2>1. \A l \in Loaders : load[l].pc = "none"
    BY <1>2 DEF NoLoad
  <2> QED BY <2>1 DEF NewestIsSound, DeltaIsBased, PaintIsKept
<1> QED BY <1>1, <1>3, <1>4, <1>5, <1>6 DEF CoverInv, KeptInv, KeptIsCovered

\* A quiet reload asks only for what came after the revision kept.  So the rows
\* must be right about every session last touched by it, however loads, fills,
\* the search pass and deletes overlap, unless they are the hits of a query, a
\* load is about to install others, or torn says that a load was overtaken
\* (_load_sessions_via_control, _fill_remaining_catalog_pages and
\* _merge_control_catalog_rows of app.py; for any sessions, page size and number
\* of load threads).
THEOREM RevisionAlwaysCovered == HomeSpec => []RevisionIsCovered
BY CoverStarts, CoverStep, CoverShows, PTL DEF HomeSpec

-----------------------------------------------------------------------------
(* Places in a timeline. *)

LEMMA LastIsThere ==
    ASSUME NEW n \in Nat, NEW places \in SUBSET (1 .. n)
    PROVE  /\ LastAt(places) = 0 <=> places = {}
           /\ places # {} => LastAt(places) \in places /\ \A k \in places : k <= LastAt(places)
<1>1. CASE places = {}
  BY <1>1 DEF LastAt
<1>2. CASE places # {}
  <2> DEFINE left == {n - i : i \in places}
  <2>1. left \subseteq Nat /\ left # {}
    <3>1. \A i \in places : n - i \in Nat
      OBVIOUS
    <3> QED BY <1>2, <3>1
  <2>2. PICK d \in left : \A k \in left : d <= k
    BY <2>1, LeastNatural
  <2>3. PICK i \in places : d = n - i
    BY <2>2
  <2>4. \A k \in places : k <= i
    <3> TAKE k \in places
    <3>1. n - k \in left
      OBVIOUS
    <3> QED BY <2>2, <2>3, <3>1
  <2>5. LastAt(places) \in places /\ \A k \in places : k <= LastAt(places)
    BY <1>2, <2>4 DEF LastAt
  <2> QED BY <1>2, <2>5
<1> QED BY <1>1, <1>2

\* What the agent may write in a timeline.
BookendTypes == JobTypes \union ScheduleTypes \union {"workflow", "subagent_spawned"} \union ChildEnds
BookendIds == JobIds \union ChildIds \union {"", "task", "run"}
Bookends == [type : BookendTypes, id : BookendIds, name : {"", "flow"}]
Timelines == Seq(Bookends)
Prefix(a, b) == Len(a) <= Len(b) /\ \A i \in 1 .. Len(a) : a[i] = b[i]

LEMMA PlacesOf ==
    ASSUME NEW evs \in Timelines, NEW types, NEW id
    PROVE  /\ Len(evs) \in Nat
           /\ \A i \in 1 .. Len(evs) : evs[i] \in Bookends
           /\ OfType(evs, types) \in SUBSET (1 .. Len(evs))
           /\ IsFiniteSet(OfType(evs, types))
           /\ Of(evs, types, id) \in SUBSET (1 .. Len(evs))
<1>1. Len(evs) \in Nat /\ \A i \in 1 .. Len(evs) : evs[i] \in Bookends
  BY DEF Timelines
<1>2. OfType(evs, types) \in SUBSET (1 .. Len(evs))
  BY DEF OfType
<1>3. IsFiniteSet(1 .. Len(evs))
  BY <1>1, FS_Interval
<1>4. IsFiniteSet(OfType(evs, types))
  BY <1>2, <1>3, FS_Subset
<1> QED BY <1>1, <1>2, <1>4 DEF Of

LEMMA PrefixPlaces ==
    ASSUME NEW a \in Timelines, NEW b \in Timelines, Prefix(a, b), NEW types
    PROVE  /\ OfType(a, types) \subseteq OfType(b, types)
           /\ \A id : Of(a, types, id) \subseteq Of(b, types, id)
<1>1. Len(a) \in Nat /\ Len(b) \in Nat
  BY PlacesOf
<1> QED BY <1>1 DEF Prefix, OfType, Of

LEMMA PrefixChain ==
    ASSUME NEW a \in Timelines, NEW b \in Timelines, NEW c \in Timelines,
           Prefix(a, b), Prefix(b, c)
    PROVE  Prefix(a, c)
<1>1. Len(a) \in Nat /\ Len(b) \in Nat /\ Len(c) \in Nat
  BY PlacesOf
<1> QED BY <1>1 DEF Prefix

LEMMA PrefixItself == ASSUME NEW a \in Timelines PROVE Prefix(a, a)
BY PlacesOf DEF Prefix

LEMMA PrefixGrows ==
    ASSUME NEW a \in Timelines, NEW b \in Timelines, NEW e \in Bookends, Prefix(a, b)
    PROVE  Append(b, e) \in Timelines /\ Prefix(a, Append(b, e))
<1>1. Len(a) \in Nat /\ Len(b) \in Nat
  BY PlacesOf
<1>2. Append(b, e) \in Timelines /\ Len(Append(b, e)) = Len(b) + 1
      /\ \A i \in 1 .. Len(b) : Append(b, e)[i] = b[i]
  BY DEF Timelines
<1> QED BY <1>1, <1>2 DEF Prefix

-----------------------------------------------------------------------------
(* The key of cached rows: two stages of one timeline that have the same key  *)
(* have the same bookends of jobs and schedules, in the same places.          *)

KeyTypes == JobTypes \union ScheduleTypes

LEMMA SameCount ==
    ASSUME NEW m \in Nat, NEW n \in Nat, 1 .. m = 1 .. n
    PROVE  m = n
<1>1. m > n => m \in 1 .. m /\ m \notin 1 .. n
  OBVIOUS
<1>2. n > m => n \in 1 .. n /\ n \notin 1 .. m
  OBVIOUS
<1> QED BY <1>1, <1>2

LEMMA KeyCounts ==
    ASSUME NEW evs \in Timelines
    PROVE  /\ Cardinality(OfType(evs, KeyTypes)) \in Nat
           /\ DOMAIN BookendKey(evs) = 1 .. Cardinality(OfType(evs, KeyTypes))
<1>1. Cardinality(OfType(evs, KeyTypes)) \in Nat
  BY PlacesOf, FS_CardinalityType
<1> QED BY <1>1 DEF BookendKey, Picked, KeyTypes

LEMMA SameKeySamePlaces ==
    ASSUME NEW a \in Timelines, NEW b \in Timelines, Prefix(a, b),
           BookendKey(a) = BookendKey(b)
    PROVE  /\ OfType(a, KeyTypes) = OfType(b, KeyTypes)
           /\ \A i \in OfType(a, KeyTypes) : a[i] = b[i]
<1>1. Cardinality(OfType(a, KeyTypes)) = Cardinality(OfType(b, KeyTypes))
  BY KeyCounts, SameCount
<1>2. OfType(a, KeyTypes) = OfType(b, KeyTypes)
  BY <1>1, PrefixPlaces, PlacesOf, FS_Subset
<1>3. \A i \in OfType(a, KeyTypes) : a[i] = b[i]
  BY DEF OfType, Prefix
<1> QED BY <1>2, <1>3

LEMMA SameKeySameBookends ==
    ASSUME NEW a \in Timelines, NEW b \in Timelines, NEW c \in Timelines,
           Prefix(a, c), Prefix(b, c), BookendKey(a) = BookendKey(b)
    PROVE  /\ OfType(a, KeyTypes) = OfType(b, KeyTypes)
           /\ \A i \in OfType(a, KeyTypes) : a[i] = b[i]
<1>1. Len(a) \in Nat /\ Len(b) \in Nat /\ Len(c) \in Nat
  BY PlacesOf
<1>2. CASE Len(a) <= Len(b)
  <2>1. Prefix(a, b)
    BY <1>1, <1>2 DEF Prefix
  <2> QED BY <2>1, SameKeySamePlaces
<1>3. CASE Len(b) <= Len(a)
  <2>1. Prefix(b, a)
    BY <1>1, <1>3 DEF Prefix
  <2> QED BY <2>1, SameKeySamePlaces
<1> QED BY <1>1, <1>2, <1>3

LEMMA SameKeyOf ==
    ASSUME NEW a \in Timelines, NEW b \in Timelines, NEW c \in Timelines,
           Prefix(a, c), Prefix(b, c), BookendKey(a) = BookendKey(b),
           NEW types \in SUBSET KeyTypes
    PROVE  /\ OfType(a, types) = OfType(b, types)
           /\ \A id : Of(a, types, id) = Of(b, types, id)
           /\ \A i \in OfType(a, types) : a[i] = b[i]
<1>1. /\ OfType(a, KeyTypes) = OfType(b, KeyTypes)
      /\ \A i \in OfType(a, KeyTypes) : a[i] = b[i]
  BY SameKeySameBookends
<1>2. /\ OfType(a, types) = {i \in OfType(a, KeyTypes) : a[i].type \in types}
      /\ OfType(b, types) = {i \in OfType(b, KeyTypes) : b[i].type \in types}
  BY DEF OfType
<1>3. OfType(a, types) = OfType(b, types) /\ \A i \in OfType(a, types) : a[i] = b[i]
  BY <1>1, <1>2
<1> QED BY <1>3 DEF Of

-----------------------------------------------------------------------------
(* What is said of a job. *)

Manifests == [JobIds -> {"absent", "running"} \union JobEnds]
LogEnds == [JobIds -> {"open"} \union JobEnds]
Statuses == {"running"} \union JobEnds
SaidOf(evs, manifest, j) == {r[2] : r \in JobRecords(evs, manifest, j)}
Worst(said) == IF "failed" \in said THEN "failed" ELSE IF "done" \in said THEN "done" ELSE "running"

LEMMA RecordShape ==
    ASSUME NEW evs \in Timelines, NEW manifest \in Manifests, NEW j \in JobIds
    PROVE  /\ \A r \in JobRecords(evs, manifest, j) :
                 r = <<r[1], r[2]>> /\ r[1] \in Nat /\ r[2] \in Statuses
           /\ \A r, s \in JobRecords(evs, manifest, j) : r[1] = s[1] => r[2] = s[2]
<1> DEFINE told == {<<i, Said(evs[i].type)>> : i \in Of(evs, JobTypes, j)}
           kept == IF manifest[j] = "absent" THEN {} ELSE {<<Len(evs) + 1, manifest[j]>>}
<1>1. JobRecords(evs, manifest, j) = told \union kept
  BY DEF JobRecords
<1>2. Len(evs) \in Nat /\ Of(evs, JobTypes, j) \in SUBSET (1 .. Len(evs))
  BY PlacesOf
<1>3. \A i \in Of(evs, JobTypes, j) : Said(evs[i].type) \in Statuses
  BY DEF Of, OfType, JobTypes, TaskEnds, Said, Statuses, JobEnds
<1>4. manifest[j] # "absent" => manifest[j] \in Statuses
  BY DEF Manifests, Statuses
<1>5. \A r \in told : \E i \in Of(evs, JobTypes, j) : r = <<i, Said(evs[i].type)>>
  OBVIOUS
<1>6. \A r \in kept : r = <<Len(evs) + 1, manifest[j]>> /\ manifest[j] # "absent"
  OBVIOUS
<1> HIDE DEF told, kept
<1>7. \A r \in told : r = <<r[1], r[2]>> /\ r[1] \in 1 .. Len(evs) /\ r[2] = Said(evs[r[1]].type)
                      /\ r[2] \in Statuses
  BY <1>2, <1>3, <1>5
<1>8. \A r \in kept : r = <<r[1], r[2]>> /\ r[1] = Len(evs) + 1 /\ r[2] = manifest[j]
                      /\ r[2] \in Statuses
  BY <1>4, <1>6
<1> QED BY <1>1, <1>2, <1>7, <1>8

\* Whatever the order, the worst that is said prevails.
LEMMA WorstPrevails ==
    ASSUME NEW evs \in Timelines, NEW manifest \in Manifests, NEW j \in JobIds,
           NEW logs, logs[j] = "open", JobRecords(evs, manifest, j) # {}
    PROVE  JobStatus(evs, manifest, logs, j) = Worst(SaidOf(evs, manifest, j))
<1> DEFINE records == JobRecords(evs, manifest, j)
           w == Worst(SaidOf(evs, manifest, j))
<1>1. /\ \A r \in records : r = <<r[1], r[2]>> /\ r[1] \in Nat /\ r[2] \in Statuses
      /\ \A r, s \in records : r[1] = s[1] => r[2] = s[2]
  BY RecordShape
<1>2. \E s \in records : s[2] = w
  BY <1>1 DEF Worst, SaidOf, Statuses, JobEnds
<1>3. PICK top \in records : top[2] = w
  BY <1>2
<1>4. \A s \in records : MergedStatus(s[2], w) = w
  BY <1>1 DEF Worst, SaidOf, Statuses, JobEnds, MergedStatus, Rank
<1>5. \A s \in records : MergedStatus(w, s[2]) = w
  BY <1>1 DEF Worst, SaidOf, Statuses, JobEnds, MergedStatus, Rank
<1>6. Prevails(records, top)
  BY <1>3, <1>4, <1>5 DEF Prevails
<1>7. ASSUME NEW r \in records, Prevails(records, r) PROVE r[2] = w
  <2>1. CASE top[1] < r[1]
    BY <1>3, <1>4, <1>5, <1>7, <2>1 DEF Prevails
  <2>2. CASE top[1] > r[1]
    BY <1>3, <1>4, <1>5, <1>7, <2>2 DEF Prevails
  <2>3. CASE top[1] = r[1]
    BY <1>1, <1>3, <2>3
  <2> QED BY <1>1, <2>1, <2>2, <2>3
<1> HIDE DEF records, w
<1>8. (CHOOSE r \in records : Prevails(records, r))[2] = w
  BY <1>6, <1>7
<1> QED BY <1>8 DEF JobStatus, records, w

LEMMA StatusShape ==
    ASSUME NEW evs \in Timelines, NEW manifest \in Manifests, NEW logs \in LogEnds,
           NEW j \in KnownJobs(evs, manifest)
    PROVE  /\ JobStatus(evs, manifest, logs, j) \in Statuses
           /\ JobStatus(evs, manifest, logs, j) # "running"
              <=> logs[j] # "open" \/ SaidOf(evs, manifest, j) \intersect JobEnds # {}
<1>1. j \in JobIds /\ JobRecords(evs, manifest, j) # {}
  BY DEF KnownJobs
<1>2. CASE logs[j] # "open"
  BY <1>1, <1>2 DEF JobStatus, LogEnds, Statuses, JobEnds
<1>3. CASE logs[j] = "open"
  <2>1. JobStatus(evs, manifest, logs, j) = Worst(SaidOf(evs, manifest, j))
    BY <1>1, <1>3, WorstPrevails
  <2> QED BY <1>3, <2>1 DEF Worst, Statuses, JobEnds
<1> QED BY <1>2, <1>3

\* That a job ended, by what was read.
JobEnded(evs, manifest, logs, j) ==
    /\ j \in KnownJobs(evs, manifest)
    /\ logs[j] # "open" \/ manifest[j] \in JobEnds \/ Of(evs, TaskEnds, j) # {}

LEMMA SaidParts ==
    ASSUME NEW evs, NEW manifest, NEW j
    PROVE  \A x : x \in SaidOf(evs, manifest, j) <=>
                     \/ x \in {Said(evs[i].type) : i \in Of(evs, JobTypes, j)}
                     \/ manifest[j] # "absent" /\ x = manifest[j]
<1> DEFINE told == {<<i, Said(evs[i].type)>> : i \in Of(evs, JobTypes, j)}
           kept == IF manifest[j] = "absent" THEN {} ELSE {<<Len(evs) + 1, manifest[j]>>}
<1>1. SaidOf(evs, manifest, j) = {r[2] : r \in told} \union {r[2] : r \in kept}
  BY DEF SaidOf, JobRecords
<1>2. \A x : x \in {r[2] : r \in kept} <=> manifest[j] # "absent" /\ x = manifest[j]
  <2>1. CASE manifest[j] = "absent"
    BY <2>1
  <2>2. CASE manifest[j] # "absent"
    BY <2>2
  <2> QED BY <2>1, <2>2
<1>3. \A x : x \in {r[2] : r \in told} <=> \E i \in Of(evs, JobTypes, j) : x = Said(evs[i].type)
  <2>1. \A x : x \in {r[2] : r \in told} <=> \E r \in told : x = r[2]
    OBVIOUS
  <2>2. \A r : r \in told <=> \E i \in Of(evs, JobTypes, j) : r = <<i, Said(evs[i].type)>>
    OBVIOUS
  <2> HIDE DEF told
  <2>3. ASSUME NEW r \in told PROVE \E i \in Of(evs, JobTypes, j) : r[2] = Said(evs[i].type)
    BY <2>2
  <2>4. ASSUME NEW i \in Of(evs, JobTypes, j) PROVE \E r \in told : r[2] = Said(evs[i].type)
    <3>1. <<i, Said(evs[i].type)>> \in told /\ <<i, Said(evs[i].type)>>[2] = Said(evs[i].type)
      BY <2>2
    <3> QED BY <3>1
  <2> QED BY <2>1, <2>3, <2>4
<1> HIDE DEF told, kept
<1> QED BY <1>1, <1>2, <1>3

LEMMA SaidEnds ==
    ASSUME NEW evs \in Timelines, NEW manifest \in Manifests, NEW j \in JobIds
    PROVE  SaidOf(evs, manifest, j) \intersect JobEnds # {}
           <=> manifest[j] \in JobEnds \/ Of(evs, TaskEnds, j) # {}
<1>1. \A i \in Of(evs, JobTypes, j) : Said(evs[i].type) \in JobEnds <=> evs[i].type \in TaskEnds
  BY DEF Of, OfType, JobTypes, TaskEnds, Said, JobEnds
<1>2. Of(evs, TaskEnds, j) = {i \in Of(evs, JobTypes, j) : evs[i].type \in TaskEnds}
  BY DEF Of, OfType, JobTypes
<1>3. "absent" \notin JobEnds
  BY DEF JobEnds
<1> QED BY <1>1, <1>2, <1>3, SaidParts

LEMMA EndedIsShown ==
    ASSUME NEW evs \in Timelines, NEW manifest \in Manifests, NEW logs \in LogEnds, NEW j
    PROVE  j \in KnownJobs(evs, manifest) /\ JobStatus(evs, manifest, logs, j) # "running"
           <=> JobEnded(evs, manifest, logs, j)
<1>1. CASE j \in KnownJobs(evs, manifest)
  <2>1. j \in JobIds
    BY <1>1 DEF KnownJobs
  <2> QED BY <1>1, <2>1, StatusShape, SaidEnds DEF JobEnded
<1> QED BY <1>1 DEF JobEnded

-----------------------------------------------------------------------------
(* The files, read at different times. *)

ManifestAfter(a, b) == b = a \/ a = "absent" \/ (a = "running" /\ b \in JobEnds)
FlowAfter(a, b) == b = a \/ a = "absent" \/ (a = "running" /\ b = "complete")
MetaAfter(a, b) == b = a \/ a = "absent" \/ (a = "running" /\ b = "completed")
LogAfter(a, b) == b = a \/ a = "open"
\* What was read of the files at f is not newer than g.
Older(f, g) ==
    /\ \A j \in JobIds : ManifestAfter(f.manifest[j], g.manifest[j])
    /\ \A j \in JobIds : LogAfter(f.logs[j], g.logs[j])
    /\ f.scheduler => g.scheduler
    /\ FlowAfter(f.flow, g.flow)
OlderMetas(m, n) == \A c \in ChildIds : MetaAfter(m[c], n[c])

LEMMA FilesHave ==
    ASSUME NEW f \in WorkFiles
    PROVE  /\ f.manifest \in Manifests /\ f.logs \in LogEnds
           /\ f.scheduler \in BOOLEAN /\ f.flow \in {"absent", "running", "complete"}
           /\ f.meta \in [ChildIds -> {"absent", "running", "completed"}]
           /\ \A j \in JobIds : /\ f.manifest[j] \in {"absent", "running", "done", "failed"}
                                /\ f.logs[j] \in {"open", "done", "failed"}
BY DEF WorkFiles, Manifests, LogEnds, JobEnds

LEMMA OlderItself == ASSUME NEW f \in WorkFiles PROVE Older(f, f) /\ OlderMetas(f.meta, f.meta)
BY DEF Older, OlderMetas, ManifestAfter, LogAfter, FlowAfter, MetaAfter

LEMMA OlderChain ==
    ASSUME NEW f \in WorkFiles, NEW g \in WorkFiles, NEW h \in WorkFiles, Older(f, g), Older(g, h)
    PROVE  Older(f, h)
<1>1. \A j \in JobIds : ManifestAfter(f.manifest[j], h.manifest[j])
  BY FilesHave DEF Older, ManifestAfter, JobEnds
<1>2. \A j \in JobIds : LogAfter(f.logs[j], h.logs[j])
  BY FilesHave DEF Older, LogAfter
<1>3. FlowAfter(f.flow, h.flow)
  BY FilesHave DEF Older, FlowAfter
<1> QED BY <1>1, <1>2, <1>3 DEF Older

\* Files that give the same stamp gave it all the time between.
LEMMA SameStampBetween ==
    ASSUME NEW o \in WorkFiles, NEW f \in WorkFiles, NEW g \in WorkFiles,
           Older(o, f), Older(f, g), JobInputStamp(o) = JobInputStamp(g)
    PROVE  /\ f.manifest = g.manifest /\ f.scheduler = g.scheduler /\ f.flow = g.flow
           /\ \A j \in JobIds : j \in Monitors \ LongEnds \/ g.logs[j] = "open" => f.logs[j] = g.logs[j]
<1>1. /\ o.manifest = g.manifest /\ o.scheduler = g.scheduler /\ o.flow = g.flow
      /\ [j \in Monitors |-> LastLineClass(o, j)] = [j \in Monitors |-> LastLineClass(g, j)]
  BY DEF JobInputStamp
<1>2. \A j \in Monitors : LastLineClass(o, j) = LastLineClass(g, j)
  BY <1>1
<1>2a. \A j \in Monitors \ LongEnds : o.logs[j] = g.logs[j]
  BY <1>2 DEF LastLineClass
<1>3. \A j \in JobIds : f.manifest[j] = g.manifest[j]
  BY <1>1, FilesHave DEF Older, ManifestAfter, JobEnds
<1>4. f.manifest = g.manifest
  BY <1>3, FilesHave DEF Manifests
<1>5. f.scheduler = g.scheduler
  BY <1>1, FilesHave DEF Older
<1>6. f.flow = g.flow
  BY <1>1, FilesHave DEF Older, FlowAfter
<1>7. \A j \in JobIds : j \in Monitors \ LongEnds \/ g.logs[j] = "open" => f.logs[j] = g.logs[j]
  BY <1>2a, FilesHave DEF Older, LogAfter
<1> QED BY <1>4, <1>5, <1>6, <1>7

\* A job that ended stays so, by files read no earlier and a timeline no shorter.
LEMMA EndedStays ==
    ASSUME NEW a \in Timelines, NEW b \in Timelines, Prefix(a, b),
           NEW f \in WorkFiles, NEW g \in WorkFiles, Older(f, g), NEW j,
           JobEnded(a, f.manifest, f.logs, j)
    PROVE  JobEnded(b, g.manifest, g.logs, j)
<1>1. j \in JobIds /\ JobRecords(a, f.manifest, j) # {}
  BY DEF JobEnded, KnownJobs
<1>2. f.manifest[j] # "absent" \/ Of(a, JobTypes, j) # {}
  BY <1>1 DEF JobRecords
<1>3. g.manifest[j] # "absent" \/ Of(b, JobTypes, j) # {}
  BY <1>1, <1>2, PrefixPlaces DEF Older, ManifestAfter, JobEnds
<1>4. JobRecords(b, g.manifest, j) # {}
  BY <1>3 DEF JobRecords
<1>5. f.logs[j] # "open" => g.logs[j] # "open"
  BY <1>1 DEF Older, LogAfter
<1>6. f.manifest[j] \in JobEnds => g.manifest[j] \in JobEnds
  BY <1>1 DEF Older, ManifestAfter, JobEnds
<1>7. Of(a, TaskEnds, j) # {} => Of(b, TaskEnds, j) # {}
  BY PrefixPlaces
<1> QED BY <1>1, <1>4, <1>5, <1>6, <1>7 DEF JobEnded, KnownJobs

-----------------------------------------------------------------------------
(* The rows, in their order. *)

LEMMA IdPlaces ==
    ASSUME NEW ids, DistinctIds(ids)
    PROVE  /\ DOMAIN ids = 1 .. Len(ids) /\ Len(ids) \in Nat
           /\ \A i, k \in DOMAIN ids : ids[i] = ids[k] => i = k
<1>1. PICK T : ids \in Seq(T)
  BY DEF DistinctIds
<1>2. DOMAIN ids = 1 .. Len(ids) /\ Len(ids) \in Nat
  BY <1>1
<1> QED BY <1>2 DEF DistinctIds

LEMMA IdsAreFinite ==
    ASSUME NEW ids, DistinctIds(ids)
    PROVE  IsFiniteSet({ids[i] : i \in DOMAIN ids})
<1> DEFINE S == {ids[i] : i \in DOMAIN ids}
           f == [i \in 1 .. Len(ids) |-> ids[i]]
<1>1. DOMAIN ids = 1 .. Len(ids) /\ Len(ids) \in Nat
  BY IdPlaces
<1>2. f \in Surjection(1 .. Len(ids), S)
  BY <1>1, Fun_IsSurj
<1>3. IsFiniteSet(1 .. Len(ids))
  BY <1>1, FS_Interval
<1> HIDE DEF f, S
<1>4. IsFiniteSet(S)
  BY <1>2, <1>3, FS_Surjection
<1> QED BY <1>4 DEF S

LEMMA SortsIsOrder ==
    ASSUME NEW ids, DistinctIds(ids)
    PROVE  LET S == {ids[i] : i \in DOMAIN ids}
           IN /\ \A a \in S : ~Sorts(ids, a, a)
              /\ \A a, b \in S : a = b \/ Sorts(ids, a, b) \/ Sorts(ids, b, a)
              /\ \A a, b, c \in S : Sorts(ids, a, b) /\ Sorts(ids, b, c) => Sorts(ids, a, c)
<1> DEFINE S == {ids[i] : i \in DOMAIN ids}
<1>1. DOMAIN ids = 1 .. Len(ids) /\ Len(ids) \in Nat
      /\ \A i, k \in DOMAIN ids : ids[i] = ids[k] => i = k
  BY IdPlaces
<1>2. \A a \in S : ~Sorts(ids, a, a)
  BY <1>1 DEF Sorts
<1>3. ASSUME NEW a \in S, NEW b \in S PROVE a = b \/ Sorts(ids, a, b) \/ Sorts(ids, b, a)
  <2>1. PICK i \in DOMAIN ids, k \in DOMAIN ids : a = ids[i] /\ b = ids[k]
    OBVIOUS
  <2>2. i = k \/ i < k \/ k < i
    BY <1>1
  <2> QED BY <2>1, <2>2 DEF Sorts
<1>4. ASSUME NEW a \in S, NEW b \in S, NEW c \in S, Sorts(ids, a, b), Sorts(ids, b, c)
      PROVE  Sorts(ids, a, c)
  <2>1. PICK i \in DOMAIN ids, k \in DOMAIN ids : i < k /\ ids[i] = a /\ ids[k] = b
    BY <1>4 DEF Sorts
  <2>2. PICK m \in DOMAIN ids, n \in DOMAIN ids : m < n /\ ids[m] = b /\ ids[n] = c
    BY <1>4 DEF Sorts
  <2>3. k = m
    BY <1>1, <2>1, <2>2
  <2>4. i < n
    BY <1>1, <2>1, <2>2, <2>3
  <2> QED BY <2>1, <2>2, <2>4 DEF Sorts
<1> QED BY <1>2, <1>3, <1>4

LEMMA JobsAreOrdered ==
    ASSUME NEW evs, NEW manifest
    PROVE  /\ IsFiniteSet(KnownJobs(evs, manifest))
           /\ Orders(JobsOrder(evs, manifest), KnownJobs(evs, manifest))
<1> DEFINE S == KnownJobs(evs, manifest)
           before == JobsOrder(evs, manifest)
<1>1. S \subseteq JobIds
  BY DEF KnownJobs
<1>2. IsFiniteSet(S)
  <2>1. IsFiniteSet(JobIds)
    BY IdsAssumption, IdsAreFinite DEF JobIds
  <2> QED BY <1>1, <2>1, FS_Subset
<1>3. /\ \A a \in JobIds : ~Sorts(Jobs, a, a)
      /\ \A a, b \in JobIds : a = b \/ Sorts(Jobs, a, b) \/ Sorts(Jobs, b, a)
      /\ \A a, b, c \in JobIds : Sorts(Jobs, a, b) /\ Sorts(Jobs, b, c) => Sorts(Jobs, a, c)
  BY IdsAssumption, SortsIsOrder DEF JobIds
<1>4. \A a, b \in JobIds : <<a, b>> \in before
        <=> \/ ~Started(evs, manifest, a) /\ Started(evs, manifest, b)
            \/ /\ Started(evs, manifest, a) <=> Started(evs, manifest, b)
               /\ Sorts(Jobs, a, b)
  BY DEF JobsOrder
<1> HIDE DEF S, before
<1>5. Orders(before, S)
  BY <1>1, <1>3, <1>4, Zenon DEF Orders
<1> QED BY <1>2, <1>5 DEF S, before

LEMMA JobRowsList ==
    ASSUME NEW evs, NEW manifest, NEW logs
    PROVE  /\ \A i \in DOMAIN JobRows(evs, manifest, logs) :
                 LET row == JobRows(evs, manifest, logs)[i]
                 IN /\ row.id \in KnownJobs(evs, manifest)
                    /\ row.status = JobStatus(evs, manifest, logs, row.id)
           /\ \A j \in KnownJobs(evs, manifest) : \E i \in DOMAIN JobRows(evs, manifest, logs) :
                 JobRows(evs, manifest, logs)[i].id = j
<1> DEFINE known == KnownJobs(evs, manifest)
           ids == Ranked(known, JobsOrder(evs, manifest))
           c == Cardinality(known)
<1>1. /\ c \in Nat /\ ids \in [1 .. c -> known]
      /\ \A j \in known : \E n \in 1 .. c : ids[n] = j
  BY JobsAreOrdered, RankedIsOrder
<1>2. JobRows(evs, manifest, logs)
        = [i \in DOMAIN ids |->
              [id |-> ids[i], status |-> JobStatus(evs, manifest, logs, ids[i]), at |-> 0]]
  BY DEF JobRows
<1> HIDE DEF ids, c, known
<1>3. DOMAIN ids = 1 .. c
  BY <1>1
<1>4. /\ DOMAIN JobRows(evs, manifest, logs) = 1 .. c
      /\ \A i \in 1 .. c :
            /\ JobRows(evs, manifest, logs)[i].id = ids[i]
            /\ JobRows(evs, manifest, logs)[i].status = JobStatus(evs, manifest, logs, ids[i])
  BY <1>2, <1>3
<1>5. \A i \in 1 .. c : ids[i] \in known
  BY <1>1
<1> QED BY <1>1, <1>4, <1>5 DEF known

LEMMA ShownJobs ==
    ASSUME NEW evs \in Timelines, NEW manifest \in Manifests, NEW logs \in LogEnds, NEW j
    PROVE  ShownFinished(JobRows(evs, manifest, logs), j) <=> JobEnded(evs, manifest, logs, j)
<1>1. ShownFinished(JobRows(evs, manifest, logs), j)
      <=> j \in KnownJobs(evs, manifest) /\ JobStatus(evs, manifest, logs, j) # "running"
  BY JobRowsList DEF ShownFinished
<1> QED BY <1>1, EndedIsShown

\* What the rows of two stages differ in when key and stamp are the same:
\* the status of a shell.
LEMMA SameKeySameRows ==
    ASSUME NEW a \in Timelines, NEW b \in Timelines, NEW c \in Timelines,
           Prefix(a, c), Prefix(b, c), BookendKey(a) = BookendKey(b),
           NEW manifest \in Manifests, NEW logs \in LogEnds, NEW now \in LogEnds
    PROVE  LET old == JobRows(a, manifest, logs)
               new == JobRows(b, manifest, now)
           IN /\ DOMAIN old = DOMAIN new
              /\ \A i \in DOMAIN new : /\ new[i].id \in JobIds
                                       /\ old[i].id = new[i].id
                                       /\ logs[new[i].id] = now[new[i].id] => old[i] = new[i]
<1>1. \A j : /\ Of(a, JobTypes, j) = Of(b, JobTypes, j)
             /\ Of(a, {"task_backgrounded"}, j) = Of(b, {"task_backgrounded"}, j)
  BY SameKeyOf DEF KeyTypes, JobTypes
<1>2. \A j : \A i \in Of(a, JobTypes, j) : a[i] = b[i]
  BY SameKeyOf DEF KeyTypes, Of
<1>3. \A j : JobRecords(a, manifest, j) = {} <=> JobRecords(b, manifest, j) = {}
  BY <1>1 DEF JobRecords
<1>4. \A j : Started(a, manifest, j) <=> Started(b, manifest, j)
  BY <1>1 DEF Started
<1>5. KnownJobs(a, manifest) = KnownJobs(b, manifest)
  BY <1>3 DEF KnownJobs
<1>6. JobsOrder(a, manifest) = JobsOrder(b, manifest)
  BY <1>4 DEF JobsOrder
<1>7. ASSUME NEW j \in KnownJobs(b, manifest), logs[j] = now[j]
      PROVE  JobStatus(a, manifest, logs, j) = JobStatus(b, manifest, now, j)
  <2>1. j \in JobIds /\ JobRecords(a, manifest, j) # {} /\ JobRecords(b, manifest, j) # {}
    BY <1>5 DEF KnownJobs
  <2>2. CASE logs[j] # "open"
    BY <1>7, <2>2 DEF JobStatus
  <2>3. CASE logs[j] = "open"
    <3>1. {Said(a[i].type) : i \in Of(a, JobTypes, j)} = {Said(b[i].type) : i \in Of(b, JobTypes, j)}
      BY <1>1, <1>2
    <3>2. \A evs \in {a, b} : \A x : x \in SaidOf(evs, manifest, j) <=>
             \/ x \in {Said(evs[i].type) : i \in Of(evs, JobTypes, j)}
             \/ manifest[j] # "absent" /\ x = manifest[j]
      BY SaidParts
    <3>3. SaidOf(a, manifest, j) = SaidOf(b, manifest, j)
      BY <3>1, <3>2
    <3>4. JobStatus(a, manifest, logs, j) = Worst(SaidOf(a, manifest, j))
      BY <2>1, <2>3, WorstPrevails
    <3>5. JobStatus(b, manifest, now, j) = Worst(SaidOf(b, manifest, j))
      BY <1>7, <2>1, <2>3, WorstPrevails
    <3> QED BY <3>3, <3>4, <3>5
  <2> QED BY <2>2, <2>3
<1> DEFINE ids == Ranked(KnownJobs(b, manifest), JobsOrder(b, manifest))
           n == Cardinality(KnownJobs(b, manifest))
<1>8. n \in Nat /\ ids \in [1 .. n -> KnownJobs(b, manifest)]
  BY JobsAreOrdered, RankedIsOrder
<1>9. /\ JobRows(a, manifest, logs)
           = [i \in DOMAIN ids |->
                 [id |-> ids[i], status |-> JobStatus(a, manifest, logs, ids[i]), at |-> 0]]
      /\ JobRows(b, manifest, now)
           = [i \in DOMAIN ids |->
                 [id |-> ids[i], status |-> JobStatus(b, manifest, now, ids[i]), at |-> 0]]
  BY <1>5, <1>6 DEF JobRows
<1> HIDE DEF ids, n
<1>10. \A i \in DOMAIN ids : ids[i] \in KnownJobs(b, manifest) /\ ids[i] \in JobIds
  BY <1>8 DEF KnownJobs
<1> QED BY <1>7, <1>9, <1>10

LEMMA RunsAreOrdered ==
    ASSUME NEW evs \in Timelines, NEW meta
    PROVE  /\ IsFiniteSet(KnownRuns(evs, meta))
           /\ Orders(RunsOrder(evs), KnownRuns(evs, meta))
<1> DEFINE S == KnownRuns(evs, meta)
           before == RunsOrder(evs)
           at(c) == Spawned(evs, c)
<1>1. S \subseteq ChildIds
  BY DEF KnownRuns
<1>2. IsFiniteSet(S)
  <2>1. IsFiniteSet(ChildIds)
    BY IdsAssumption, IdsAreFinite DEF ChildIds
  <2> QED BY <1>1, <2>1, FS_Subset
<1>3. /\ \A a \in ChildIds : ~Sorts(Children, a, a)
      /\ \A a, b \in ChildIds : a = b \/ Sorts(Children, a, b) \/ Sorts(Children, b, a)
      /\ \A a, b, c \in ChildIds : Sorts(Children, a, b) /\ Sorts(Children, b, c)
                                   => Sorts(Children, a, c)
  BY IdsAssumption, SortsIsOrder DEF ChildIds
<1>4. \A c : at(c) \in Nat /\ (at(c) # 0 => at(c) \in Of(evs, {"subagent_spawned"}, c))
  <2> TAKE c
  <2>1. Len(evs) \in Nat /\ Of(evs, {"subagent_spawned"}, c) \in SUBSET (1 .. Len(evs))
    BY PlacesOf
  <2>2. LET places == Of(evs, {"subagent_spawned"}, c)
        IN (LastAt(places) = 0 <=> places = {}) /\ (places # {} => LastAt(places) \in places)
    BY <2>1, LastIsThere
  <2> QED BY <2>1, <2>2 DEF Spawned
<1>5. \A a, b : at(a) = at(b) /\ at(a) # 0 => a = b
  BY <1>4 DEF Of
<1>6. \A a, b \in ChildIds : <<a, b>> \in before
        <=> \/ at(a) # 0 /\ (at(b) = 0 \/ at(a) < at(b))
            \/ at(a) = 0 /\ at(b) = 0 /\ Sorts(Children, a, b)
  BY DEF RunsOrder
<1> HIDE DEF S, before, at
<1>7. \A x \in S : <<x, x>> \notin before
  BY <1>1, <1>3, <1>4, <1>6
<1>8. ASSUME NEW x \in S, NEW y \in S, x # y PROVE <<x, y>> \in before \/ <<y, x>> \in before
  <2>1. x \in ChildIds /\ y \in ChildIds
    BY <1>1
  <2>2. CASE at(x) = 0 /\ at(y) = 0
    BY <1>3, <1>6, <1>8, <2>1, <2>2
  <2>3. CASE ~(at(x) = 0 /\ at(y) = 0)
    <3>1. at(x) # at(y)
      BY <1>5, <1>8, <2>3
    <3>2. at(x) \in Nat /\ at(y) \in Nat
      BY <1>4
    <3> QED BY <1>6, <2>1, <2>3, <3>1, <3>2
  <2> QED BY <2>2, <2>3
<1>9. \A x, y, z \in S : <<x, y>> \in before /\ <<y, z>> \in before => <<x, z>> \in before
  BY <1>1, <1>3, <1>4, <1>6
<1>10. Orders(before, S)
  BY <1>7, <1>8, <1>9 DEF Orders
<1> QED BY <1>2, <1>10 DEF S, before

\* That a child ended, by what was read.
RunEnded(evs, meta, c) ==
    /\ c \in ChildIds
    /\ Of(evs, ChildEnds, c) # {} \/ meta[c] = "completed"

LEMMA ShownRuns ==
    ASSUME NEW evs \in Timelines, NEW meta \in [ChildIds -> {"absent", "running", "completed"}],
           NEW c
    PROVE  ShownFinished(RunRows(evs, meta), c) <=> RunEnded(evs, meta, c)
<1> DEFINE list == RunRows(evs, meta)
           known == KnownRuns(evs, meta)
           ids == Ranked(known, RunsOrder(evs))
           n == Cardinality(known)
<1>1. /\ n \in Nat /\ ids \in [1 .. n -> known]
      /\ \A j \in known : \E i \in 1 .. n : ids[i] = j
  BY RunsAreOrdered, RankedIsOrder
<1>2. list = [i \in DOMAIN ids |->
                 [id |-> ids[i], status |-> RunStatus(evs, meta, ids[i]), at |-> Spawned(evs, ids[i])]]
  BY DEF RunRows
<1>3. FinishedAt(evs, c) # 0 <=> Of(evs, ChildEnds, c) # {}
  BY PlacesOf, LastIsThere DEF FinishedAt
<1>4. c \in ChildIds => meta[c] \in {"absent", "running", "completed"}
  OBVIOUS
<1>5. c \in known <=> c \in ChildIds /\ (\/ Spawned(evs, c) # 0 \/ FinishedAt(evs, c) # 0
                                         \/ meta[c] # "absent")
  BY DEF KnownRuns
<1>6. c \in known /\ RunStatus(evs, meta, c) # "running" <=> RunEnded(evs, meta, c)
  BY <1>3, <1>4, <1>5 DEF RunStatus, RunEnded
<1> HIDE DEF known, ids, n, list
<1>7. /\ DOMAIN list = 1 .. n
      /\ \A i \in 1 .. n : list[i].id = ids[i] /\ list[i].status = RunStatus(evs, meta, ids[i])
  BY <1>1, <1>2
<1>8. ShownFinished(list, c) <=> \E i \in 1 .. n : ids[i] = c /\ RunStatus(evs, meta, c) # "running"
  BY <1>7 DEF ShownFinished
<1>9. (\E i \in 1 .. n : ids[i] = c) <=> c \in known
  BY <1>1
<1> QED BY <1>6, <1>8, <1>9 DEF list

LEMMA RunStaysEnded ==
    ASSUME NEW a \in Timelines, NEW b \in Timelines, Prefix(a, b), NEW m, NEW n,
           OlderMetas(m, n), NEW c, RunEnded(a, m, c)
    PROVE  RunEnded(b, n, c)
<1>1. Of(a, ChildEnds, c) # {} => Of(b, ChildEnds, c) # {}
  BY PrefixPlaces
<1> QED BY <1>1 DEF RunEnded, OlderMetas, MetaAfter

-----------------------------------------------------------------------------
(* The one walk of set_bookend_indexes finds what each row's own search would. *)

IsFirst(x, S) == IF S = {} THEN x = 0 ELSE x \in S /\ \A k \in S : x <= k
IsLast(x, S) == x \in S /\ \A k \in S : k <= x

LEMMA FirstIs ==
    ASSUME NEW S, S \subseteq Nat, NEW x, IsFirst(x, S)
    PROVE  FirstAt(S) = x
<1>1. CASE S = {}
  BY <1>1 DEF FirstAt, IsFirst
<1>2. CASE S # {}
  <2>1. x \in S /\ \A k \in S : x <= k
    BY <1>2 DEF IsFirst
  <2>2. \A i \in S : (\A k \in S : i <= k) => i = x
    BY <2>1
  <2> QED BY <1>2, <2>1, <2>2 DEF FirstAt
<1> QED BY <1>1, <1>2

LEMMA LastIs ==
    ASSUME NEW S, S \subseteq Nat, NEW x, IsLast(x, S)
    PROVE  LastAt(S) = x
<1>1. x \in S /\ \A k \in S : k <= x
  BY DEF IsLast
<1>2. \A i \in S : (\A k \in S : k <= i) => i = x
  BY <1>1
<1> QED BY <1>1, <1>2 DEF LastAt

\* What a walk knows after the first n bookends.
FlowsIn(evs, n) == {k \in 1 .. n : evs[k].type = "workflow" /\ evs[k].name = "flow"}
MadeIn(evs, n) == {k \in 1 .. n : evs[k].type = "scheduled_task_created"}
FiredIn(evs, n) == {k \in 1 .. n : evs[k].type = "scheduled_task_fired"}
IdsTo(evs, n, ids) ==
    /\ \A p \in ids : /\ p[1] # "" /\ p[2] \in 1 .. n /\ evs[p[2]].id = p[1]
                      /\ \A k \in 1 .. n : evs[k].id = p[1] => p[2] <= k
    /\ \A k \in 1 .. n : evs[k].id # "" => \E p \in ids : p[1] = evs[k].id
FiredTo(evs, n, fired) ==
    IF MadeIn(evs, n) # {} THEN IsLast(fired, MadeIn(evs, n)) ELSE IsFirst(fired, FiredIn(evs, n))
WalkIs(evs, n, walk) ==
    /\ IdsTo(evs, n, walk.ids)
    /\ IsFirst(walk.named, FlowsIn(evs, n))
    /\ FiredTo(evs, n, walk.fired)

LEMMA NothingWalked == ASSUME NEW evs PROVE WalkIs(evs, 0, Walk0)
<1>1. FlowsIn(evs, 0) = {} /\ MadeIn(evs, 0) = {} /\ FiredIn(evs, 0) = {}
  BY DEF FlowsIn, MadeIn, FiredIn
<1>2. IdsTo(evs, 0, {})
  BY DEF IdsTo
<1> QED BY <1>1, <1>2 DEF WalkIs, Walk0, IsFirst, FiredTo

LEMMA IdsStep ==
    ASSUME NEW evs, NEW n \in Nat, NEW walk, IdsTo(evs, n, walk.ids)
    PROVE  IdsTo(evs, n + 1, Noted(walk, evs[n + 1].id, n + 1))
<1> DEFINE id == evs[n + 1].id
           ids == walk.ids
           new == <<id, n + 1>>
<1>1. \A k : k \in 1 .. n + 1 <=> k \in 1 .. n \/ k = n + 1
  OBVIOUS
<1>2. \A k \in 1 .. n : k <= n + 1 /\ k # n + 1
  OBVIOUS
<1>3. \A p \in ids : p[1] # "" /\ p[2] \in 1 .. n /\ evs[p[2]].id = p[1]
  BY DEF IdsTo
<1>4. \A p \in ids : \A k \in 1 .. n : evs[k].id = p[1] => p[2] <= k
  BY DEF IdsTo
<1>5. \A k \in 1 .. n : evs[k].id # "" => \E p \in ids : p[1] = evs[k].id
  BY DEF IdsTo
<1>6. Noted(walk, id, n + 1) = IF id = "" \/ \E p \in ids : p[1] = id THEN ids ELSE ids \union {new}
  BY DEF Noted, Known
<1>7. new[1] = id /\ new[2] = n + 1
  OBVIOUS
<1> HIDE DEF id, ids, new
<1>8. \A p \in ids : \A k \in 1 .. n + 1 : evs[k].id = p[1] => p[2] <= k
  <2> TAKE p \in ids
  <2> TAKE k \in 1 .. n + 1
  <2>1. p[2] \in 1 .. n
    BY <1>3
  <2>2. CASE k \in 1 .. n
    BY <1>4, <2>2
  <2>3. CASE k = n + 1
    BY <1>2, <2>1, <2>3
  <2> QED BY <1>1, <2>2, <2>3
<1>9. CASE id = "" \/ \E p \in ids : p[1] = id
  <2>1. \A k \in 1 .. n + 1 : evs[k].id # "" => \E p \in ids : p[1] = evs[k].id
    BY <1>1, <1>5, <1>9 DEF id
  <2>2. IdsTo(evs, n + 1, ids)
    BY <1>1, <1>3, <1>8, <2>1 DEF IdsTo
  <2> QED BY <1>6, <1>9, <2>2 DEF id
<1>10. CASE id # "" /\ ~\E p \in ids : p[1] = id
  <2>1. \A k \in 1 .. n : evs[k].id # id
    BY <1>5, <1>10
  <2>2. \A k \in 1 .. n + 1 : evs[k].id # "" => \E p \in ids \union {new} : p[1] = evs[k].id
    BY <1>1, <1>5, <1>7 DEF id
  <2>3. \A k \in 1 .. n + 1 : evs[k].id = id => n + 1 <= k
    BY <1>1, <2>1
  <2>4. \A p \in ids \union {new} :
           /\ p[1] # "" /\ p[2] \in 1 .. n + 1 /\ evs[p[2]].id = p[1]
           /\ \A k \in 1 .. n + 1 : evs[k].id = p[1] => p[2] <= k
    <3> TAKE p \in ids \union {new}
    <3>1. CASE p \in ids
      BY <1>1, <1>3, <1>8, <3>1
    <3>2. CASE p = new
      BY <1>1, <1>7, <1>10, <2>3, <3>2 DEF id
    <3> QED BY <3>1, <3>2
  <2>5. IdsTo(evs, n + 1, ids \union {new})
    BY <2>2, <2>4 DEF IdsTo
  <2> QED BY <1>6, <1>10, <2>5 DEF id
<1> QED BY <1>9, <1>10

LEMMA WalkGoesOn ==
    ASSUME NEW evs, NEW n \in Nat, NEW walk, WalkIs(evs, n, walk)
    PROVE  WalkIs(evs, n + 1, WalkStep(evs, walk, n + 1))
<1> DEFINE new == WalkStep(evs, walk, n + 1)
           e == evs[n + 1]
<1>1. /\ new.ids = Noted(walk, e.id, n + 1)
      /\ new.named = IF e.type = "workflow" /\ e.name = "flow" /\ walk.named = 0
                     THEN n + 1 ELSE walk.named
      /\ new.fired = IF \/ e.type = "scheduled_task_created"
                        \/ e.type = "scheduled_task_fired" /\ walk.fired = 0
                     THEN n + 1 ELSE walk.fired
  BY DEF WalkStep
<1> HIDE DEF new
<1>2. IdsTo(evs, n + 1, new.ids)
  BY <1>1, IdsStep DEF WalkIs
<1>3. \A k : k \in 1 .. n + 1 <=> k \in 1 .. n \/ k = n + 1
  OBVIOUS
<1>4. IsFirst(new.named, FlowsIn(evs, n + 1))
  <2>1. IsFirst(walk.named, FlowsIn(evs, n))
    BY DEF WalkIs
  <2>2. FlowsIn(evs, n) \subseteq 1 .. n
    BY DEF FlowsIn
  <2>3. FlowsIn(evs, n + 1) = IF e.type = "workflow" /\ e.name = "flow"
                              THEN FlowsIn(evs, n) \union {n + 1} ELSE FlowsIn(evs, n)
    BY <1>3 DEF FlowsIn
  <2> QED BY <1>1, <2>1, <2>2, <2>3 DEF IsFirst
<1>5. FiredTo(evs, n + 1, new.fired)
  <2>1. FiredTo(evs, n, walk.fired)
    BY DEF WalkIs
  <2>2. MadeIn(evs, n) \subseteq 1 .. n /\ FiredIn(evs, n) \subseteq 1 .. n
    BY DEF MadeIn, FiredIn
  <2>3. MadeIn(evs, n + 1) = IF e.type = "scheduled_task_created"
                             THEN MadeIn(evs, n) \union {n + 1} ELSE MadeIn(evs, n)
    BY <1>3 DEF MadeIn
  <2>4. FiredIn(evs, n + 1) = IF e.type = "scheduled_task_fired"
                              THEN FiredIn(evs, n) \union {n + 1} ELSE FiredIn(evs, n)
    BY <1>3 DEF FiredIn
  <2>5. CASE e.type = "scheduled_task_created"
    BY <1>1, <2>2, <2>3, <2>5 DEF FiredTo, IsLast
  <2>6. CASE e.type # "scheduled_task_created" /\ MadeIn(evs, n) # {}
    BY <1>1, <2>1, <2>2, <2>3, <2>6 DEF FiredTo, IsLast
  <2>7. CASE e.type # "scheduled_task_created" /\ MadeIn(evs, n) = {}
    BY <1>1, <2>1, <2>2, <2>3, <2>4, <2>7 DEF FiredTo, IsFirst
  <2> QED BY <2>5, <2>6, <2>7
<1> QED BY <1>2, <1>4, <1>5 DEF WalkIs, new

\* The walk of the first n bookends, as a function of how far it is.
WalkOf(evs, n, f) == f = [i \in 0 .. n |-> IF i = 0 THEN Walk0 ELSE WalkStep(evs, f[i - 1], i)]

LEMMA WalkOne ==
    ASSUME NEW evs, NEW n \in Nat, NEW f, WalkOf(evs, n, f)
    PROVE  /\ DOMAIN f = 0 .. n /\ f[0] = Walk0
           /\ \A i \in 1 .. n : f[i] = WalkStep(evs, f[i - 1], i)
<1> DEFINE g == [i \in 0 .. n |-> IF i = 0 THEN Walk0 ELSE WalkStep(evs, f[i - 1], i)]
<1>1. f = g
  BY DEF WalkOf
<1>2. DOMAIN g = 0 .. n /\ g[0] = Walk0 /\ \A i \in 1 .. n : g[i] = WalkStep(evs, f[i - 1], i)
  OBVIOUS
<1> HIDE DEF g
<1> QED BY <1>1, <1>2

LEMMA WalkExists == ASSUME NEW evs, NEW n \in Nat PROVE \E f : WalkOf(evs, n, f)
<1> DEFINE bad == {m \in Nat : ~\E f : WalkOf(evs, m, f)}
<1>1. ASSUME bad # {} PROVE FALSE
  <2>1. PICK m \in bad : \A k \in bad : m <= k
    BY <1>1, LeastNatural
  <2>2. CASE m = 0
    <3> DEFINE f == [i \in 0 .. 0 |-> Walk0]
    <3>1. f = [i \in 0 .. 0 |-> IF i = 0 THEN Walk0 ELSE WalkStep(evs, f[i - 1], i)]
      OBVIOUS
    <3>2. WalkOf(evs, 0, f)
      BY <3>1 DEF WalkOf
    <3> QED BY <2>1, <2>2, <3>2
  <2>3. CASE m # 0
    <3>1. m - 1 \in Nat /\ m - 1 \notin bad
      BY <2>1, <2>3
    <3>2. PICK g : WalkOf(evs, m - 1, g)
      BY <3>1
    <3> DEFINE f == [i \in 0 .. m |-> IF i = m THEN WalkStep(evs, g[m - 1], m) ELSE g[i]]
    <3>3. g[0] = Walk0 /\ \A i \in 1 .. m - 1 : g[i] = WalkStep(evs, g[i - 1], i)
      BY <3>1, <3>2, WalkOne
    <3>4. \A i \in 0 .. m - 1 : f[i] = g[i]
      BY <2>1
    <3>5. f[m] = WalkStep(evs, g[m - 1], m)
      BY <2>1
    <3>6. \A i \in 0 .. m : f[i] = IF i = 0 THEN Walk0 ELSE WalkStep(evs, f[i - 1], i)
      <4> TAKE i \in 0 .. m
      <4> HIDE DEF f
      <4>1. CASE i = 0
        BY <2>1, <2>3, <3>3, <3>4, <4>1
      <4>2. CASE i = m
        BY <2>1, <2>3, <3>4, <3>5, <4>2
      <4>3. CASE i \in 1 .. m - 1
        <5>1. i \in 0 .. m - 1 /\ i - 1 \in 0 .. m - 1 /\ i # 0
          BY <2>1, <4>3
        <5> QED BY <3>3, <3>4, <4>3, <5>1
      <4> QED BY <2>1, <4>1, <4>2, <4>3
    <3>7. f = [i \in 0 .. m |-> f[i]]
      OBVIOUS
    <3> HIDE DEF f
    <3>8. WalkOf(evs, m, f)
      BY <3>6, <3>7 DEF WalkOf
    <3> QED BY <2>1, <3>8
  <2> QED BY <2>2, <2>3
<1> QED BY <1>1

LEMMA WalkedIs == ASSUME NEW evs \in Timelines PROVE WalkIs(evs, Len(evs), Walked(evs))
<1> DEFINE n == Len(evs)
           f == CHOOSE g : WalkOf(evs, n, g)
<1>1. n \in Nat
  BY PlacesOf
<1>2. WalkOf(evs, n, f)
  BY <1>1, WalkExists
<1>3. Walked(evs) = f[n]
  BY DEF Walked, WalkOf
<1> HIDE DEF f, n
<1>4. f[0] = Walk0 /\ \A i \in 1 .. n : f[i] = WalkStep(evs, f[i - 1], i)
  BY <1>1, <1>2, WalkOne
<1> DEFINE bad == {m \in 0 .. n : ~WalkIs(evs, m, f[m])}
<1>5. ASSUME bad # {} PROVE FALSE
  <2>1. bad \subseteq Nat
    BY <1>1
  <2>2. PICK m \in bad : \A k \in bad : m <= k
    BY <1>5, <2>1, LeastNatural
  <2>3. CASE m = 0
    BY <1>4, <2>2, <2>3, NothingWalked
  <2>4. CASE m # 0
    <3>1. m - 1 \in Nat /\ m - 1 \in 0 .. n /\ m \in 1 .. n /\ (m - 1) + 1 = m
      BY <1>1, <2>2, <2>4
    <3>2. m - 1 \notin bad
      BY <2>2, <3>1
    <3>3. WalkIs(evs, m - 1, f[m - 1])
      BY <3>1, <3>2
    <3>4. WalkIs(evs, (m - 1) + 1, WalkStep(evs, f[m - 1], (m - 1) + 1))
      BY <3>1, <3>3, WalkGoesOn
    <3> QED BY <1>4, <2>2, <3>1, <3>4
  <2> QED BY <2>3, <2>4
<1>6. WalkIs(evs, n, f[n])
  BY <1>1, <1>5
<1> QED BY <1>3, <1>6 DEF n

LEMMA WalkFindsId ==
    ASSUME NEW evs \in Timelines, NEW id, id # ""
    PROVE  IsFirst(ById(Walked(evs), id), {k \in 1 .. Len(evs) : evs[k].id = id})
<1> DEFINE w == Walked(evs)
           S == {k \in 1 .. Len(evs) : evs[k].id = id}
<1>1. IdsTo(evs, Len(evs), w.ids)
  BY WalkedIs DEF WalkIs
<1> HIDE DEF w
<1>2. CASE Known(w, id)
  <2> DEFINE p == CHOOSE q \in w.ids : q[1] = id
  <2>1. p \in w.ids /\ p[1] = id
    BY <1>2 DEF Known
  <2>2. ById(w, id) = p[2]
    BY <1>2 DEF ById
  <2> HIDE DEF p
  <2>3. p[2] \in S /\ \A k \in S : p[2] <= k
    BY <1>1, <2>1 DEF IdsTo
  <2> QED BY <2>2, <2>3 DEF IsFirst, w
<1>3. CASE ~Known(w, id)
  <2>1. ASSUME NEW k \in S PROVE FALSE
    <3>1. PICK q \in w.ids : q[1] = id
      BY <1>1, <2>1 DEF IdsTo
    <3> QED BY <1>3, <3>1 DEF Known
  <2>2. ById(w, id) = 0
    BY <1>3 DEF ById
  <2> QED BY <2>1, <2>2 DEF IsFirst, w
<1> QED BY <1>2, <1>3

-----------------------------------------------------------------------------
(* The agent: it never takes back what it wrote. *)

\* A story's bookends and files.
EventsFit(evs) ==
    \A i \in 1 .. Len(evs) :
        \/ story = "jobs" /\ evs[i].type \in JobTypes
        \/ /\ story = "flows"
           /\ \/ evs[i].type \in ScheduleTypes /\ evs[i].id = "task"
              \/ evs[i].type = "workflow"
        \/ story = "children" /\ evs[i].type \notin JobTypes
FilesFit ==
    /\ story # "jobs" => \A j \in JobIds : files.manifest[j] = "absent"
    /\ story # "flows" => files.flow = "absent"
AgentInv ==
    /\ events \in Timelines /\ EventsFit(events)
    /\ files \in WorkFiles /\ FilesFit

\* What a step may do to the files the owner reads.
AgentGrows ==
    /\ events \in Timelines /\ events' \in Timelines /\ Prefix(events, events')
    /\ files \in WorkFiles /\ files' \in WorkFiles /\ Older(files, files')
    /\ OlderMetas(files.meta, files'.meta)

LEMMA OneMorePlace == ASSUME NEW n \in Nat, NEW i \in 1 .. n + 1 PROVE i \in 1 .. n \/ i = n + 1
OBVIOUS

LEMMA Appended ==
    ASSUME NEW T, NEW s \in Seq(T), NEW e \in T
    PROVE  /\ Len(Append(s, e)) = Len(s) + 1 /\ Append(s, e)[Len(s) + 1] = e
           /\ \A i \in 1 .. Len(s) : Append(s, e)[i] = s[i]
OBVIOUS

LEMMA BookendFits ==
    ASSUME AgentInv, NEW type \in BookendTypes, NEW id \in BookendIds, NEW name \in {"", "flow"},
           Logs(type, id, name),
           \/ story = "jobs" /\ type \in JobTypes
           \/ /\ story = "flows"
              /\ \/ type \in ScheduleTypes /\ id = "task"
                 \/ type = "workflow"
           \/ story = "children" /\ type \notin JobTypes
    PROVE  AgentInv' /\ AgentGrows
<1> DEFINE e == Event(type, id, name)
<1>1. e \in Bookends /\ e.type = type /\ e.id = id
  BY DEF Event, Bookends
<1>2. events' = Append(events, e) /\ UNCHANGED <<story, files>>
  BY DEF Logs
<1>3. events \in Timelines /\ files \in WorkFiles /\ FilesFit
  BY DEF AgentInv
<1> HIDE DEF e
<1>4. events' \in Timelines /\ Prefix(events, events')
  BY <1>1, <1>2, <1>3, PrefixItself, PrefixGrows
<1>5. Older(files, files') /\ OlderMetas(files.meta, files'.meta)
  BY <1>2, <1>3, OlderItself
<1>6. FilesFit'
  BY <1>2, <1>3 DEF FilesFit
<1>7. EventsFit(events)'
  <2> DEFINE n == Len(events)
  <2>0. n \in Nat
    BY <1>3, PlacesOf
  <2>1. Len(events') = n + 1 /\ events'[n + 1] = e /\ \A i \in 1 .. n : events'[i] = events[i]
    <3>1. events \in Seq(Bookends)
      BY <1>3 DEF Timelines
    <3> QED BY <1>1, <1>2, <3>1, Appended
  <2> HIDE DEF n
  <2> SUFFICES ASSUME NEW i \in 1 .. Len(events')
               PROVE  \/ story = "jobs" /\ events'[i].type \in JobTypes
                      \/ /\ story = "flows"
                         /\ \/ events'[i].type \in ScheduleTypes /\ events'[i].id = "task"
                            \/ events'[i].type = "workflow"
                      \/ story = "children" /\ events'[i].type \notin JobTypes
    BY <1>2 DEF EventsFit
  <2>2. CASE i \in 1 .. n
    BY <2>1, <2>2 DEF AgentInv, EventsFit, n
  <2>3. CASE i = n + 1
    BY <1>1, <2>1, <2>3
  <2>4. i \in 1 .. n \/ i = n + 1
    <3>1. i \in 1 .. n + 1
      BY <2>1
    <3> QED BY <2>0, <3>1, OneMorePlace
  <2> QED BY <2>2, <2>3, <2>4
<1> QED BY <1>2, <1>3, <1>4, <1>5, <1>6, <1>7 DEF AgentInv, AgentGrows

LEMMA SaveFits ==
    ASSUME AgentInv, NEW new \in WorkFiles, Saves(new), Older(files, new),
           OlderMetas(files.meta, new.meta),
           story # "jobs" => new.manifest = files.manifest,
           story # "flows" => new.flow = files.flow
    PROVE  AgentInv' /\ AgentGrows
<1>1. files' = new /\ UNCHANGED <<story, events>>
  BY DEF Saves
<1>2. events \in Timelines /\ files \in WorkFiles /\ EventsFit(events) /\ FilesFit
  BY DEF AgentInv
<1>3. EventsFit(events)'
  BY <1>1, <1>2 DEF EventsFit
<1>4. FilesFit'
  BY <1>1, <1>2 DEF FilesFit
<1>5. events' = events /\ Prefix(events, events')
  BY <1>1, <1>2, PrefixItself
<1> QED BY <1>1, <1>2, <1>3, <1>4, <1>5 DEF AgentInv, AgentGrows

LEMMA ElementsOf ==
    ASSUME NEW T, NEW s \in Seq(T), NEW i \in 1 .. Len(s)
    PROVE  s[i] \in T
OBVIOUS

LEMMA JobsHaveIds == \A j \in JobIds : j # ""
<1> SUFFICES ASSUME NEW i \in DOMAIN Jobs PROVE Jobs[i] # ""
    BY DEF JobIds
<1>1. DOMAIN Jobs = 1 .. Len(Jobs) /\ Jobs \in Seq(STRING \ {""})
  BY IdsAssumption, IdPlaces DEF DistinctIds
<1>2. Jobs[i] \in STRING \ {""}
  BY <1>1, ElementsOf
<1> QED BY <1>2

LEMMA JobsSpeak ==
    ASSUME AgentInv, NEW j \in JobIds,
           JobStarts(j) \/ JobEndsInTimeline(j) \/ ManifestMoves(j) \/ LogCloses(j)
    PROVE  AgentInv' /\ AgentGrows
<1>1. files \in WorkFiles
  BY DEF AgentInv
<1>2. /\ files.manifest \in Manifests /\ files.logs \in LogEnds
      /\ files = [manifest |-> files.manifest, logs |-> files.logs,
                  scheduler |-> files.scheduler, flow |-> files.flow, meta |-> files.meta]
      /\ Older(files, files) /\ OlderMetas(files.meta, files.meta)
  BY <1>1, FilesHave, OlderItself DEF WorkFiles
<1>3. CASE JobStarts(j)
  <2>1. story = "jobs" /\ Logs("task_backgrounded", j, "")
    BY <1>3 DEF JobStarts
  <2>2. "task_backgrounded" \in BookendTypes /\ "task_backgrounded" \in JobTypes /\ j \in BookendIds
    BY DEF BookendTypes, JobTypes, BookendIds
  <2> QED BY <2>1, <2>2, BookendFits
<1>4. CASE JobEndsInTimeline(j)
  <2>1. PICK type \in TaskEnds : story = "jobs" /\ Logs(type, j, "")
    BY <1>4 DEF JobEndsInTimeline
  <2>2. type \in BookendTypes /\ type \in JobTypes /\ j \in BookendIds
    BY DEF BookendTypes, JobTypes, BookendIds
  <2> QED BY <2>1, <2>2, BookendFits
<1>5. CASE ManifestMoves(j)
  <2>1. PICK s \in {"running"} \union JobEnds :
           /\ ManifestAfter(files.manifest[j], s)
           /\ Saves([files EXCEPT !.manifest[j] = s])
    BY <1>5 DEF ManifestMoves, ManifestAfter
  <2> DEFINE new == [files EXCEPT !.manifest[j] = s]
  <2>2. /\ new.manifest = [files.manifest EXCEPT ![j] = s] /\ new.logs = files.logs
        /\ new.scheduler = files.scheduler /\ new.flow = files.flow /\ new.meta = files.meta
    BY <1>2
  <2>3. new \in WorkFiles
    BY <1>1 DEF WorkFiles
  <2> HIDE DEF new
  <2>4. \A k \in JobIds : new.manifest[k] = IF k = j THEN s ELSE files.manifest[k]
    BY <1>2, <2>2 DEF Manifests
  <2>5. Older(files, new) /\ OlderMetas(files.meta, new.meta)
    BY <1>2, <2>1, <2>2, <2>4 DEF Older
  <2>6. story = "jobs"
    BY <1>5 DEF ManifestMoves
  <2>7. Saves(new)
    BY <2>1 DEF new
  <2> QED BY <2>2, <2>3, <2>5, <2>6, <2>7, SaveFits
<1>6. CASE LogCloses(j)
  <2>1. PICK s \in JobEnds : files.logs[j] = "open" /\ Saves([files EXCEPT !.logs[j] = s])
    BY <1>6 DEF LogCloses
  <2> DEFINE new == [files EXCEPT !.logs[j] = s]
  <2>2. /\ new.logs = [files.logs EXCEPT ![j] = s] /\ new.manifest = files.manifest
        /\ new.scheduler = files.scheduler /\ new.flow = files.flow /\ new.meta = files.meta
    BY <1>2
  <2>3. new \in WorkFiles
    BY <1>1 DEF WorkFiles
  <2> HIDE DEF new
  <2>4. \A k \in JobIds : new.logs[k] = IF k = j THEN s ELSE files.logs[k]
    BY <1>2, <2>2 DEF LogEnds
  <2>5. Older(files, new) /\ OlderMetas(files.meta, new.meta)
    BY <1>2, <2>1, <2>2, <2>4 DEF Older, LogAfter
  <2>7. Saves(new)
    BY <2>1 DEF new
  <2> QED BY <2>2, <2>3, <2>5, <2>7, SaveFits
<1> QED BY <1>3, <1>4, <1>5, <1>6

LEMMA FlowsSpeak ==
    ASSUME AgentInv, ScheduleSpeaks \/ FlowMoves
    PROVE  AgentInv' /\ AgentGrows
<1>1. files \in WorkFiles
  BY DEF AgentInv
<1>2. /\ files.scheduler \in BOOLEAN /\ files.flow \in {"absent", "running", "complete"}
      /\ files = [manifest |-> files.manifest, logs |-> files.logs,
                  scheduler |-> files.scheduler, flow |-> files.flow, meta |-> files.meta]
      /\ Older(files, files) /\ OlderMetas(files.meta, files.meta)
  BY <1>1, FilesHave, OlderItself DEF WorkFiles
<1>3. story = "flows"
  BY DEF ScheduleSpeaks, FlowMoves
<1>4. CASE \E type \in ScheduleTypes : Logs(type, "task", "")
  <2>1. PICK type \in ScheduleTypes : Logs(type, "task", "")
    BY <1>4
  <2>2. type \in BookendTypes /\ "task" \in BookendIds
    BY DEF BookendTypes, BookendIds
  <2> QED BY <1>3, <2>1, <2>2, BookendFits
<1>5. CASE Logs("workflow", "", "flow") \/ Logs("workflow", "run", "")
  <2>1. "workflow" \in BookendTypes /\ "" \in BookendIds /\ "run" \in BookendIds
    BY DEF BookendTypes, BookendIds
  <2>2. CASE Logs("workflow", "", "flow")
    BY <1>3, <2>1, <2>2, BookendFits
  <2>3. CASE Logs("workflow", "run", "")
    BY <1>3, <2>1, <2>3, BookendFits
  <2> QED BY <1>5, <2>2, <2>3
<1>6. CASE ~files.scheduler /\ Saves([files EXCEPT !.scheduler = TRUE])
  <2> DEFINE new == [files EXCEPT !.scheduler = TRUE]
  <2>1. /\ new.logs = files.logs /\ new.manifest = files.manifest
        /\ new.scheduler = TRUE /\ new.flow = files.flow /\ new.meta = files.meta
    BY <1>2
  <2>2. new \in WorkFiles
    BY <1>1 DEF WorkFiles
  <2> HIDE DEF new
  <2>3. Older(files, new) /\ OlderMetas(files.meta, new.meta)
    BY <1>2, <2>1 DEF Older
  <2>4. Saves(new)
    BY <1>6 DEF new
  <2> QED BY <1>3, <2>1, <2>2, <2>3, <2>4, SaveFits
<1>7. ASSUME NEW s \in {"running", "complete"}, FlowAfter(files.flow, s),
             Saves([files EXCEPT !.flow = s])
      PROVE  AgentInv' /\ AgentGrows
  <2> DEFINE new == [files EXCEPT !.flow = s]
  <2>1. /\ new.logs = files.logs /\ new.manifest = files.manifest
        /\ new.scheduler = files.scheduler /\ new.flow = s /\ new.meta = files.meta
    BY <1>2
  <2>2. new \in WorkFiles
    BY <1>1 DEF WorkFiles
  <2> HIDE DEF new
  <2>3. Older(files, new) /\ OlderMetas(files.meta, new.meta)
    BY <1>2, <1>7, <2>1 DEF Older
  <2>4. Saves(new)
    BY <1>7 DEF new
  <2> QED BY <1>3, <2>1, <2>2, <2>3, <2>4, SaveFits
<1>8. CASE ScheduleSpeaks
  BY <1>4, <1>6, <1>8 DEF ScheduleSpeaks
<1>9. CASE FlowMoves
  BY <1>5, <1>7, <1>9 DEF FlowMoves, FlowAfter
<1> QED BY <1>8, <1>9

LEMMA ChildrenSpeak ==
    ASSUME AgentInv, NEW c \in ChildIds, ChildSpawns(c) \/ ChildFinishes(c) \/ MetaMoves(c)
    PROVE  AgentInv' /\ AgentGrows
<1>1. files \in WorkFiles
  BY DEF AgentInv
<1>2. /\ files.meta \in [ChildIds -> {"absent", "running", "completed"}]
      /\ files = [manifest |-> files.manifest, logs |-> files.logs,
                  scheduler |-> files.scheduler, flow |-> files.flow, meta |-> files.meta]
      /\ Older(files, files) /\ OlderMetas(files.meta, files.meta)
  BY <1>1, FilesHave, OlderItself DEF WorkFiles
<1>3. CASE ChildSpawns(c)
  <2>1. story = "children" /\ Logs("subagent_spawned", c, "")
    BY <1>3 DEF ChildSpawns
  <2>2. "subagent_spawned" \in BookendTypes \ JobTypes /\ c \in BookendIds
    BY DEF BookendTypes, BookendIds, JobTypes, TaskEnds
  <2> QED BY <2>1, <2>2, BookendFits
<1>4. CASE ChildFinishes(c)
  <2>1. PICK type \in ChildEnds : story = "children" /\ Logs(type, c, "")
    BY <1>4 DEF ChildFinishes
  <2>2. type \in BookendTypes \ JobTypes /\ c \in BookendIds
    BY DEF BookendTypes, BookendIds, JobTypes, TaskEnds, ChildEnds
  <2> QED BY <2>1, <2>2, BookendFits
<1>5. CASE MetaMoves(c)
  <2>1. PICK s \in {"running", "completed"} :
           /\ MetaAfter(files.meta[c], s)
           /\ Saves([files EXCEPT !.meta[c] = s])
    BY <1>5 DEF MetaMoves, MetaAfter
  <2> DEFINE new == [files EXCEPT !.meta[c] = s]
  <2>2. /\ new.meta = [files.meta EXCEPT ![c] = s] /\ new.logs = files.logs
        /\ new.scheduler = files.scheduler /\ new.flow = files.flow
        /\ new.manifest = files.manifest
    BY <1>2
  <2>3. new \in WorkFiles
    BY <1>1 DEF WorkFiles
  <2> HIDE DEF new
  <2>4. \A k \in ChildIds : new.meta[k] = IF k = c THEN s ELSE files.meta[k]
    BY <1>2, <2>2
  <2>5. Older(files, new)
    BY <1>2, <2>2 DEF Older
  <2>6. OlderMetas(files.meta, new.meta)
    BY <1>2, <2>1, <2>4 DEF OlderMetas
  <2>7. Saves(new)
    BY <2>1 DEF new
  <2> QED BY <2>2, <2>3, <2>5, <2>6, <2>7, SaveFits
<1> QED BY <1>3, <1>4, <1>5

LEMMA AgentStays == AgentInv /\ UNCHANGED <<story, events, files>> => AgentInv' /\ AgentGrows
<1> SUFFICES ASSUME AgentInv, UNCHANGED <<story, events, files>> PROVE AgentInv' /\ AgentGrows
    OBVIOUS
<1>1. AgentInv'
  BY DEF AgentInv, EventsFit, FilesFit
<1> QED BY <1>1, PrefixItself, OlderItself DEF AgentInv, AgentGrows

LEMMA AgentStep == AgentInv /\ [WorkNext]_workVars => AgentInv' /\ AgentGrows
<1> SUFFICES ASSUME AgentInv, [WorkNext]_workVars PROVE AgentInv' /\ AgentGrows
    OBVIOUS
<1>1. CASE AgentWorks
  BY <1>1, JobsSpeak, FlowsSpeak, ChildrenSpeak DEF AgentWorks
<1>2. CASE Owner
  <2>1. UNCHANGED <<story, events, files>>
    BY <1>2 DEF Owner, WalksBookends, ReadsMetas, LooksUpRows, ReadsManifest, ReadsLogs, ReadsFlows
  <2> QED BY <2>1, AgentStays
<1>3. CASE ScreenFetches \/ ScreenGrows \/ ScreenPopulates
  <2>1. UNCHANGED <<story, events, files>>
    BY <1>3 DEF ScreenFetches, ScreenGrows, ScreenPopulates
  <2> QED BY <2>1, AgentStays
<1>4. CASE Operator
  <2>1. UNCHANGED <<story, events, files>>
    BY <1>4 DEF Operator, TabSwitches, SelectsText, Enters, EntersRow, Presses
  <2> QED BY <2>1, AgentStays
<1>5. CASE UNCHANGED workVars
  BY <1>5, AgentStays DEF workVars
<1> QED BY <1>1, <1>2, <1>3, <1>4, <1>5 DEF WorkNext

-----------------------------------------------------------------------------
(* A row leads where its own search would. *)

LEMMA JobLeads ==
    ASSUME NEW evs \in Timelines, \A i \in 1 .. Len(evs) : evs[i].type \in JobTypes,
           NEW j \in JobIds
    PROVE  WalkedTo(Walked(evs), "jobs", j) = LeadsTo(evs, "jobs", j)
<1> DEFINE S == {k \in 1 .. Len(evs) : evs[k].id = j}
<1>1. Of(evs, JobTypes, j) = S
  BY DEF Of, OfType
<1>2. S \subseteq Nat
  OBVIOUS
<1>3. IsFirst(ById(Walked(evs), j), S)
  BY JobsHaveIds, WalkFindsId
<1>4. FirstAt(S) = ById(Walked(evs), j)
  BY <1>2, <1>3, FirstIs
<1> QED BY <1>1, <1>4 DEF WalkedTo, LeadsTo

LEMMA ScheduleLeads ==
    ASSUME NEW evs \in Timelines, NEW id
    PROVE  WalkedTo(Walked(evs), "schedules", id) = LeadsTo(evs, "schedules", id)
<1> DEFINE n == Len(evs)
           x == Walked(evs).fired
<1>1. FiredTo(evs, n, x)
  BY WalkedIs DEF WalkIs
<1>2. MadeIn(evs, n) = OfType(evs, {"scheduled_task_created"})
  BY DEF MadeIn, OfType
<1>3. MadeIn(evs, n) = {} => FiredIn(evs, n) = OfType(evs, ScheduleTypes)
  BY DEF MadeIn, FiredIn, OfType, ScheduleTypes
<1>4. MadeIn(evs, n) \subseteq Nat /\ FiredIn(evs, n) \subseteq Nat
  BY DEF MadeIn, FiredIn
<1>5. ScheduleAt(evs) = x
  <2>1. CASE MadeIn(evs, n) # {}
    <3>1. LastAt(MadeIn(evs, n)) = x
      BY <1>1, <1>4, <2>1, LastIs DEF FiredTo
    <3> QED BY <1>2, <2>1, <3>1 DEF ScheduleAt
  <2>2. CASE MadeIn(evs, n) = {}
    <3>1. FirstAt(FiredIn(evs, n)) = x
      BY <1>1, <1>4, <2>2, FirstIs DEF FiredTo
    <3> QED BY <1>2, <1>3, <2>2, <3>1 DEF ScheduleAt
  <2> QED BY <2>1, <2>2
<1> QED BY <1>5 DEF WalkedTo, LeadsTo

LEMMA FlowLeads ==
    ASSUME NEW evs \in Timelines,
           \A i \in 1 .. Len(evs) : \/ evs[i].type \in ScheduleTypes /\ evs[i].id = "task"
                                    \/ evs[i].type = "workflow"
    PROVE  WalkedTo(Walked(evs), "flows", "run") = LeadsTo(evs, "flows", "run")
<1> DEFINE n == Len(evs)
           w == Walked(evs)
           runs == OfType(evs, {"workflow"})
           S == {k \in 1 .. n : evs[k].id = "run"}
           T == {k \in runs : evs[k].name = "flow"}
<1>1. {k \in runs : evs[k].id = "run"} = S
  BY DEF OfType
<1>2. T = FlowsIn(evs, n)
  BY DEF FlowsIn, OfType
<1>3. S \subseteq Nat /\ T \subseteq Nat
  BY DEF OfType
<1>4. IsFirst(ById(w, "run"), S)
  BY WalkFindsId
<1>5. IsFirst(w.named, T)
  BY <1>2, WalkedIs DEF WalkIs
<1>6. FirstAt(S) = ById(w, "run") /\ FirstAt(T) = w.named
  BY <1>3, <1>4, <1>5, FirstIs
<1>7. LeadsTo(evs, "flows", "run") = IF FirstAt(S) # 0 THEN FirstAt(S) ELSE FirstAt(T)
  BY <1>1 DEF LeadsTo
<1>8. WalkedTo(w, "flows", "run") = IF ById(w, "run") # 0 THEN ById(w, "run") ELSE w.named
  BY DEF WalkedTo
<1> QED BY <1>6, <1>7, <1>8

-----------------------------------------------------------------------------
(* The owner. *)

RowKinds == {"jobs", "schedules", "flows"}
RowList(list) ==
    \A i \in DOMAIN list :
        list[i] = [id |-> list[i].id, status |-> list[i].status, at |-> list[i].at]

LEMMA FreshLists ==
    ASSUME NEW evs, NEW manifest, NEW logs, NEW held, NEW flow
    PROVE  /\ RowList(JobRows(evs, manifest, logs))
           /\ RowList(ScheduleRows(evs, held))
           /\ RowList(FlowRows(flow))
<1>1. RowList(JobRows(evs, manifest, logs))
  BY DEF RowList, JobRows
<1>2. RowList(ScheduleRows(evs, held))
  BY DEF RowList, ScheduleRows
<1>3. RowList(FlowRows(flow))
  BY DEF RowList, FlowRows
<1> QED BY <1>1, <1>2, <1>3

LEMMA PointedRows ==
    ASSUME NEW evs, NEW kind, NEW list, RowList(list)
    PROVE  /\ DOMAIN Pointed(evs, kind, list) = DOMAIN list
           /\ \A i \in DOMAIN list :
                 /\ Pointed(evs, kind, list)[i].id = list[i].id
                 /\ Pointed(evs, kind, list)[i].status = list[i].status
                 /\ Pointed(evs, kind, list)[i].at = WalkedTo(Walked(evs), kind, list[i].id)
<1> DEFINE new == Pointed(evs, kind, list)
<1>1. new = [i \in DOMAIN list |->
                [list[i] EXCEPT !.at = WalkedTo(Walked(evs), kind, list[i].id)]]
  BY DEF Pointed
<1> HIDE DEF new
<1>2. ASSUME NEW i \in DOMAIN list
      PROVE  /\ new[i].id = list[i].id /\ new[i].status = list[i].status
             /\ new[i].at = WalkedTo(Walked(evs), kind, list[i].id)
  <2>1. list[i] = [id |-> list[i].id, status |-> list[i].status, at |-> list[i].at]
    BY DEF RowList
  <2>2. new[i] = [list[i] EXCEPT !.at = WalkedTo(Walked(evs), kind, list[i].id)]
    BY <1>1
  <2> QED BY <2>1, <2>2
<1> QED BY <1>1, <1>2 DEF new

\* The rows of an overview are those cached, each pointed to its bookend.
AnswerRows ==
    \A kind \in RowKinds :
        /\ DOMAIN answer.rows[kind] = DOMAIN rowCache.rows[kind]
        /\ \A i \in DOMAIN rowCache.rows[kind] :
              /\ answer.rows[kind][i].id = rowCache.rows[kind][i].id
              /\ answer.rows[kind][i].status = rowCache.rows[kind][i].status
              /\ answer.rows[kind][i].at
                   = WalkedTo(Walked(answer.events), kind, rowCache.rows[kind][i].id)
CachedLists == \A kind \in RowKinds : RowList(rowCache.rows[kind])

\* What was read before what: the cached rows are of the timeline e and the
\* files as read at f, after their key was taken at o; the overview being built
\* took its key at n and has read of the files what it knows of g.
CacheFrom(e, f, o) ==
    /\ Prefix(e, events) /\ Older(o, f) /\ Older(f, files)
    /\ \/ rowCache = NothingCached
       \/ /\ rowCache.key = RowsKey(o, e)
          /\ rowCache.rows.jobs = JobRows(e, f.manifest, f.logs)
          /\ rowCache.rows.schedules = ScheduleRows(e, f.scheduler)
          /\ rowCache.rows.flows = FlowRows(f.flow)
Loading == {"manifest", "logs", "flows"}
BuildFrom(e, f, n, g) ==
    /\ build.at # "idle" => Prefix(e, build.events)
    /\ build.at \in Loading =>
          /\ Older(f, n) /\ Older(n, g) /\ Older(g, files)
          /\ build.key = RowsKey(n, build.events)
    /\ build.at \in {"logs", "flows"} =>
          build.manifest = g.manifest /\ build.held = g.scheduler
    /\ build.at = "flows" =>
          /\ build.rows.jobs = JobRows(build.events, g.manifest, g.logs)
          /\ build.rows.schedules = ScheduleRows(build.events, g.scheduler)
ReadInOrder ==
    \E e \in Timelines : \E f, o, n, g \in WorkFiles : CacheFrom(e, f, o) /\ BuildFrom(e, f, n, g)

BuildShape ==
    /\ build.at \in {"idle", "runs", "stamp"} \union Loading
    /\ build = [at |-> build.at, events |-> build.events, runs |-> build.runs,
                key |-> build.key, manifest |-> build.manifest, held |-> build.held,
                rows |-> build.rows]
    /\ build.rows = [jobs |-> build.rows.jobs, schedules |-> build.rows.schedules,
                     flows |-> build.rows.flows]
    /\ build.at # "idle" => build.events \in Timelines /\ Prefix(build.events, events)
    /\ answer.events \in Timelines /\ Prefix(answer.events, events)
OwnerInv == BuildShape /\ ReadInOrder /\ AnswerRows /\ CachedLists

LEMMA WorkInitially == WorkInit => AgentInv /\ OwnerInv
<1> SUFFICES ASSUME WorkInit PROVE AgentInv /\ OwnerInv
    OBVIOUS
<1>1. events = <<>> /\ build = NoBuild /\ rowCache = NothingCached /\ answer = NoAnswer
  BY DEF WorkInit
<1>2. events \in Timelines /\ Len(events) = 0
  BY <1>1 DEF Timelines
<1>3. files \in WorkFiles
  BY DEF WorkInit, WorkFiles
<1>4. AgentInv
  BY <1>2, <1>3 DEF AgentInv, EventsFit, FilesFit, WorkInit
<1>5. Prefix(events, events)
  BY <1>2, PrefixItself
<1>6. BuildShape
  BY <1>1, <1>2, <1>5 DEF BuildShape, NoBuild, NoAnswer, NoRowsYet
<1>7. ReadInOrder
  <2>1. CacheFrom(events, files, files)
    BY <1>1, <1>3, <1>5, OlderItself DEF CacheFrom
  <2>2. BuildFrom(events, files, files, files)
    BY <1>1 DEF BuildFrom, NoBuild, Loading
  <2> QED BY <1>2, <1>3, <2>1, <2>2 DEF ReadInOrder
<1>8. \A kind \in RowKinds : answer.rows[kind] = <<>> /\ rowCache.rows[kind] = <<>>
  BY <1>1 DEF RowKinds, NoAnswer, NothingCached, NoRowsYet
<1>9. AnswerRows /\ CachedLists
  BY <1>8 DEF AnswerRows, CachedLists, RowList
<1> QED BY <1>4, <1>6, <1>7, <1>9 DEF OwnerInv

\* What the owner has is no less true when the agent goes on.
LEMMA OwnerWaits ==
    ASSUME OwnerInv, AgentGrows, UNCHANGED <<build, rowCache, answer>>
    PROVE  OwnerInv'
<1>1. /\ events \in Timelines /\ events' \in Timelines /\ Prefix(events, events')
      /\ files \in WorkFiles /\ files' \in WorkFiles /\ Older(files, files')
  BY DEF AgentGrows
<1>2. BuildShape'
  BY <1>1, PrefixChain DEF OwnerInv, BuildShape
<1>3. ReadInOrder'
  <2>1. PICK e \in Timelines, f \in WorkFiles, o \in WorkFiles, n \in WorkFiles, g \in WorkFiles :
           CacheFrom(e, f, o) /\ BuildFrom(e, f, n, g)
    BY DEF OwnerInv, ReadInOrder
  <2>2. CacheFrom(e, f, o)'
    BY <1>1, <2>1, PrefixChain, OlderChain DEF CacheFrom
  <2>3. BuildFrom(e, f, n, g)'
    BY <1>1, <2>1, OlderChain DEF BuildFrom
  <2> QED BY <2>2, <2>3 DEF ReadInOrder
<1>4. AnswerRows' /\ CachedLists'
  BY DEF OwnerInv, AnswerRows, CachedLists
<1> QED BY <1>2, <1>3, <1>4 DEF OwnerInv

LEMMA StepWalksBookends ==
    ASSUME AgentInv, OwnerInv, WalksBookends
    PROVE  OwnerInv'
<1>1. /\ build' = [NoBuild EXCEPT !.at = "runs", !.events = events]
      /\ UNCHANGED <<events, files, rowCache, answer>>
  BY DEF WalksBookends
<1>2. build'.at = "runs" /\ build'.events = events /\ events \in Timelines /\ Prefix(events, events)
  BY <1>1, PrefixItself DEF NoBuild, AgentInv
<1>3. BuildShape'
  BY <1>1, <1>2 DEF OwnerInv, BuildShape, NoBuild, NoRowsYet
<1>4. ReadInOrder'
  <2>1. PICK e \in Timelines, f \in WorkFiles, o \in WorkFiles, n \in WorkFiles, g \in WorkFiles :
           CacheFrom(e, f, o) /\ BuildFrom(e, f, n, g)
    BY DEF OwnerInv, ReadInOrder
  <2>2. CacheFrom(e, f, o)'
    BY <1>1, <2>1 DEF CacheFrom
  <2>3. BuildFrom(e, f, n, g)'
    BY <1>2, <2>1 DEF BuildFrom, CacheFrom, Loading
  <2> QED BY <2>2, <2>3 DEF ReadInOrder
<1>5. AnswerRows' /\ CachedLists'
  BY <1>1 DEF OwnerInv, AnswerRows, CachedLists
<1> QED BY <1>3, <1>4, <1>5 DEF OwnerInv

LEMMA StepReadsMetas ==
    ASSUME AgentInv, OwnerInv, ReadsMetas
    PROVE  OwnerInv'
<1>1. /\ build.at = "runs"
      /\ build' = [build EXCEPT !.at = "stamp", !.runs = RunRows(build.events, files.meta)]
      /\ UNCHANGED <<events, files, rowCache, answer>>
  BY DEF ReadsMetas
<1>2. /\ build'.at = "stamp" /\ build'.events = build.events
      /\ build'.rows = build.rows
      /\ build' = [at |-> build'.at, events |-> build'.events, runs |-> build'.runs,
                   key |-> build'.key, manifest |-> build'.manifest, held |-> build'.held,
                   rows |-> build'.rows]
  BY <1>1 DEF OwnerInv, BuildShape
<1>3. BuildShape'
  BY <1>1, <1>2 DEF OwnerInv, BuildShape
<1>4. ReadInOrder'
  <2>1. PICK e \in Timelines, f \in WorkFiles, o \in WorkFiles, n \in WorkFiles, g \in WorkFiles :
           CacheFrom(e, f, o) /\ BuildFrom(e, f, n, g)
    BY DEF OwnerInv, ReadInOrder
  <2>2. CacheFrom(e, f, o)'
    BY <1>1, <2>1 DEF CacheFrom
  <2>3. BuildFrom(e, f, n, g)'
    BY <1>1, <1>2, <2>1 DEF BuildFrom, Loading
  <2> QED BY <2>2, <2>3 DEF ReadInOrder
<1>5. AnswerRows' /\ CachedLists'
  BY <1>1 DEF OwnerInv, AnswerRows, CachedLists
<1> QED BY <1>3, <1>4, <1>5 DEF OwnerInv

\* An answer has the rows it is made of, pointed.
LEMMA AnswersPoint ==
    ASSUME NEW b, NEW list, Answers(b, list), \A kind \in RowKinds : RowList(list[kind]),
           rowCache'.rows = list
    PROVE  AnswerRows' /\ answer'.events = b.events /\ answer'.runs = b.runs /\ build' = NoBuild
<1>1. /\ answer' = [events |-> b.events, runs |-> b.runs, rows |-> Repointed(b, list)]
      /\ build' = NoBuild
  BY DEF Answers
<1>2. answer'.events = b.events /\ answer'.runs = b.runs /\ answer'.rows = Repointed(b, list)
  BY <1>1
<1>3. \A kind \in RowKinds : Repointed(b, list)[kind] = Pointed(b.events, kind, list[kind])
  BY DEF Repointed, RowKinds
<1>4. ASSUME NEW kind \in RowKinds
      PROVE  /\ DOMAIN answer'.rows[kind] = DOMAIN rowCache'.rows[kind]
             /\ \A i \in DOMAIN rowCache'.rows[kind] :
                   /\ answer'.rows[kind][i].id = rowCache'.rows[kind][i].id
                   /\ answer'.rows[kind][i].status = rowCache'.rows[kind][i].status
                   /\ answer'.rows[kind][i].at
                        = WalkedTo(Walked(answer'.events), kind, rowCache'.rows[kind][i].id)
  <2>1. RowList(list[kind]) /\ answer'.rows[kind] = Pointed(b.events, kind, list[kind])
    BY <1>2, <1>3
  <2> QED BY <1>2, <2>1, PointedRows
<1> QED BY <1>1, <1>2, <1>4 DEF AnswerRows

LEMMA AnsweredIsIdle ==
    ASSUME OwnerInv, build.at # "idle", build' = NoBuild, answer'.events = build.events,
           UNCHANGED <<events, files>>
    PROVE  BuildShape' /\ build'.at = "idle"
BY DEF OwnerInv, BuildShape, NoBuild, NoRowsYet

LEMMA StepFindsRows ==
    ASSUME AgentInv, OwnerInv, build.at = "stamp", Answers(build, rowCache.rows),
           UNCHANGED <<events, files, rowCache>>
    PROVE  OwnerInv'
<1>1. AnswerRows' /\ answer'.events = build.events /\ build' = NoBuild
  BY AnswersPoint DEF OwnerInv, CachedLists
<1>2. BuildShape' /\ build'.at = "idle"
  BY <1>1, AnsweredIsIdle
<1>3. ReadInOrder'
  <2>1. PICK e \in Timelines, f \in WorkFiles, o \in WorkFiles, n \in WorkFiles, g \in WorkFiles :
           CacheFrom(e, f, o) /\ BuildFrom(e, f, n, g)
    BY DEF OwnerInv, ReadInOrder
  <2>2. CacheFrom(e, f, o)'
    BY <2>1 DEF CacheFrom
  <2>3. BuildFrom(e, f, n, g)'
    BY <1>2 DEF BuildFrom, Loading
  <2> QED BY <2>2, <2>3 DEF ReadInOrder
<1>4. CachedLists'
  BY DEF OwnerInv, CachedLists
<1> QED BY <1>1, <1>2, <1>3, <1>4 DEF OwnerInv

LEMMA StepMissesRows ==
    ASSUME AgentInv, OwnerInv, build.at = "stamp",
           build' = [build EXCEPT !.at = "manifest", !.key = RowsKey(files, build.events)],
           UNCHANGED <<events, files, rowCache, answer>>
    PROVE  OwnerInv'
<1>1. /\ build'.at = "manifest" /\ build'.events = build.events
      /\ build'.key = RowsKey(files, build.events) /\ build'.rows = build.rows
      /\ build' = [at |-> build'.at, events |-> build'.events, runs |-> build'.runs,
                   key |-> build'.key, manifest |-> build'.manifest, held |-> build'.held,
                   rows |-> build'.rows]
  BY DEF OwnerInv, BuildShape
<1>2. BuildShape'
  BY <1>1 DEF OwnerInv, BuildShape, Loading
<1>3. ReadInOrder'
  <2>1. PICK e \in Timelines, f \in WorkFiles, o \in WorkFiles, n \in WorkFiles, g \in WorkFiles :
           CacheFrom(e, f, o) /\ BuildFrom(e, f, n, g)
    BY DEF OwnerInv, ReadInOrder
  <2>2. CacheFrom(e, f, o)'
    BY <2>1 DEF CacheFrom
  <2>3. files \in WorkFiles /\ Older(files, files)
    BY OlderItself DEF AgentInv
  <2>4. BuildFrom(e, f, files, files)'
    BY <1>1, <2>1, <2>3 DEF BuildFrom, CacheFrom
  <2> QED BY <2>2, <2>3, <2>4 DEF ReadInOrder
<1>4. AnswerRows' /\ CachedLists'
  BY DEF OwnerInv, AnswerRows, CachedLists
<1> QED BY <1>2, <1>3, <1>4 DEF OwnerInv

LEMMA StepLooksUpRows ==
    ASSUME AgentInv, OwnerInv, LooksUpRows
    PROVE  OwnerInv'
<1>1. build.at = "stamp" /\ UNCHANGED <<events, files, rowCache>>
  BY DEF LooksUpRows
<1>2. \/ Answers(build, rowCache.rows)
      \/ /\ build' = [build EXCEPT !.at = "manifest", !.key = RowsKey(files, build.events)]
         /\ UNCHANGED answer
  BY DEF LooksUpRows
<1> QED BY <1>1, <1>2, StepFindsRows, StepMissesRows

LEMMA StepReadsManifest ==
    ASSUME AgentInv, OwnerInv, ReadsManifest
    PROVE  OwnerInv'
<1>1. /\ build.at = "manifest"
      /\ build' = [build EXCEPT !.at = "logs", !.manifest = files.manifest,
                                !.held = files.scheduler]
      /\ UNCHANGED <<events, files, rowCache, answer>>
  BY DEF ReadsManifest
<1>2. /\ build'.at = "logs" /\ build'.events = build.events /\ build'.key = build.key
      /\ build'.manifest = files.manifest /\ build'.held = files.scheduler
      /\ build'.rows = build.rows
      /\ build' = [at |-> build'.at, events |-> build'.events, runs |-> build'.runs,
                   key |-> build'.key, manifest |-> build'.manifest, held |-> build'.held,
                   rows |-> build'.rows]
  BY <1>1 DEF OwnerInv, BuildShape
<1>3. BuildShape'
  BY <1>1, <1>2 DEF OwnerInv, BuildShape, Loading
<1>4. ReadInOrder'
  <2>1. PICK e \in Timelines, f \in WorkFiles, o \in WorkFiles, n \in WorkFiles, g \in WorkFiles :
           CacheFrom(e, f, o) /\ BuildFrom(e, f, n, g)
    BY DEF OwnerInv, ReadInOrder
  <2>2. CacheFrom(e, f, o)'
    BY <1>1, <2>1 DEF CacheFrom
  <2>3. files \in WorkFiles /\ Older(files, files)
    BY OlderItself DEF AgentInv
  <2>4. Older(f, n) /\ Older(n, files) /\ build.key = RowsKey(n, build.events)
    BY <1>1, <2>1, <2>3, OlderChain DEF BuildFrom, Loading
  <2>5. PICK h \in WorkFiles : h = files
    BY <2>3
  <2>6. BuildFrom(e, f, n, h)'
    BY <1>1, <1>2, <2>1, <2>3, <2>4, <2>5 DEF BuildFrom
  <2> QED BY <2>2, <2>6 DEF ReadInOrder
<1>5. AnswerRows' /\ CachedLists'
  BY <1>1 DEF OwnerInv, AnswerRows, CachedLists
<1> QED BY <1>3, <1>4, <1>5 DEF OwnerInv

LEMMA StepReadsLogs ==
    ASSUME AgentInv, OwnerInv, ReadsLogs
    PROVE  OwnerInv'
<1> DEFINE jobs == JobRows(build.events, build.manifest, files.logs)
           schedules == ScheduleRows(build.events, build.held)
<1>1. /\ build.at = "logs"
      /\ build' = [build EXCEPT !.at = "flows", !.rows.jobs = jobs, !.rows.schedules = schedules]
      /\ UNCHANGED <<events, files, rowCache, answer>>
  BY DEF ReadsLogs
<1> HIDE DEF jobs, schedules
<1>2. /\ build'.at = "flows" /\ build'.events = build.events /\ build'.key = build.key
      /\ build'.manifest = build.manifest /\ build'.held = build.held
      /\ build'.rows = [jobs |-> jobs, schedules |-> schedules, flows |-> build.rows.flows]
      /\ build' = [at |-> build'.at, events |-> build'.events, runs |-> build'.runs,
                   key |-> build'.key, manifest |-> build'.manifest, held |-> build'.held,
                   rows |-> build'.rows]
  BY <1>1 DEF OwnerInv, BuildShape
<1>3. BuildShape'
  BY <1>1, <1>2 DEF OwnerInv, BuildShape, Loading
<1>4. ReadInOrder'
  <2>1. PICK e \in Timelines, f \in WorkFiles, o \in WorkFiles, n \in WorkFiles, g \in WorkFiles :
           CacheFrom(e, f, o) /\ BuildFrom(e, f, n, g)
    BY DEF OwnerInv, ReadInOrder
  <2>2. CacheFrom(e, f, o)'
    BY <1>1, <2>1 DEF CacheFrom
  <2>3. /\ Prefix(e, build.events)
        /\ Older(f, n) /\ Older(n, g) /\ Older(g, files) /\ build.key = RowsKey(n, build.events)
        /\ build.manifest = g.manifest /\ build.held = g.scheduler
    BY <1>1, <2>1 DEF BuildFrom, Loading
  <2>4. PICK h \in WorkFiles : /\ h.manifest = g.manifest /\ h.logs = files.logs
                              /\ h.scheduler = g.scheduler /\ h.flow = g.flow
    <3>1. [g EXCEPT !.logs = files.logs] \in WorkFiles
      BY DEF WorkFiles, AgentInv
    <3>2. LET h == [g EXCEPT !.logs = files.logs]
          IN /\ h.manifest = g.manifest /\ h.logs = files.logs
             /\ h.scheduler = g.scheduler /\ h.flow = g.flow
      BY DEF WorkFiles
    <3> QED BY <3>1, <3>2
  <2>5. files \in WorkFiles
    BY DEF AgentInv
  <2>6. \A j \in JobIds : LogAfter(n.logs[j], files.logs[j])
    BY <2>3, <2>5, OlderChain DEF Older
  <2>7. Older(n, h) /\ Older(h, files)
    BY <2>3, <2>4, <2>6 DEF Older, LogAfter
  <2>8. jobs = JobRows(build.events, h.manifest, h.logs)
        /\ schedules = ScheduleRows(build.events, h.scheduler)
    BY <2>3, <2>4 DEF jobs, schedules
  <2>9. BuildFrom(e, f, n, h)'
    <3>1. /\ build'.rows.jobs = JobRows(build'.events, h.manifest, h.logs)
          /\ build'.rows.schedules = ScheduleRows(build'.events, h.scheduler)
      BY <1>2, <2>8
    <3>2. files' = files /\ build'.events = build.events /\ build'.key = RowsKey(n, build.events)
          /\ build'.manifest = h.manifest /\ build'.held = h.scheduler
      BY <1>1, <1>2, <2>3, <2>4
    <3> QED BY <2>3, <2>7, <3>1, <3>2 DEF BuildFrom
  <2> QED BY <2>2, <2>9 DEF ReadInOrder
<1>5. AnswerRows' /\ CachedLists'
  BY <1>1 DEF OwnerInv, AnswerRows, CachedLists
<1> QED BY <1>3, <1>4, <1>5 DEF OwnerInv

\* The new rows, and that no job the old ones showed ended runs in them.
LEMMA StepReadsFlows ==
    ASSUME AgentInv, OwnerInv, ReadsFlows
    PROVE  /\ OwnerInv'
           /\ \A j : ShownFinished(rowCache.rows.jobs, j) => ShownFinished(rowCache'.rows.jobs, j)
<1> DEFINE list == [build.rows EXCEPT !.flows = FlowRows(files.flow)]
<1>1. /\ build.at = "flows" /\ rowCache' = [key |-> build.key, rows |-> list]
      /\ Answers(build, list) /\ UNCHANGED <<events, files>>
  BY DEF ReadsFlows
<1>2. /\ list.jobs = build.rows.jobs /\ list.schedules = build.rows.schedules
      /\ list.flows = FlowRows(files.flow)
  BY DEF OwnerInv, BuildShape
<1> HIDE DEF list
<1>3. PICK e \in Timelines, f \in WorkFiles, o \in WorkFiles, n \in WorkFiles, g \in WorkFiles :
         CacheFrom(e, f, o) /\ BuildFrom(e, f, n, g)
  BY DEF OwnerInv, ReadInOrder
<1>4. /\ build.events \in Timelines /\ Prefix(e, build.events) /\ Prefix(build.events, events)
      /\ Older(f, n) /\ Older(n, g) /\ Older(g, files) /\ build.key = RowsKey(n, build.events)
      /\ build.rows.jobs = JobRows(build.events, g.manifest, g.logs)
      /\ build.rows.schedules = ScheduleRows(build.events, g.scheduler)
  BY <1>1, <1>3 DEF BuildFrom, Loading, OwnerInv, BuildShape
<1>5. files \in WorkFiles
  BY DEF AgentInv
<1>6. PICK h \in WorkFiles : /\ h.manifest = g.manifest /\ h.logs = g.logs
                            /\ h.scheduler = g.scheduler /\ h.flow = files.flow
  <2>1. [g EXCEPT !.flow = files.flow] \in WorkFiles
    BY <1>5 DEF WorkFiles
  <2>2. LET h == [g EXCEPT !.flow = files.flow]
        IN /\ h.manifest = g.manifest /\ h.logs = g.logs
           /\ h.scheduler = g.scheduler /\ h.flow = files.flow
    BY DEF WorkFiles
  <2> QED BY <2>1, <2>2
<1>7. FlowAfter(n.flow, files.flow)
  BY <1>4, <1>5, OlderChain DEF Older
<1>8. Older(n, h) /\ Older(h, files)
  BY <1>4, <1>6, <1>7 DEF Older, FlowAfter
<1>9. /\ list.jobs = JobRows(build.events, h.manifest, h.logs)
      /\ list.schedules = ScheduleRows(build.events, h.scheduler)
      /\ list.flows = FlowRows(h.flow)
  BY <1>2, <1>4, <1>6
<1>10. \A kind \in RowKinds : RowList(list[kind])
  BY <1>9, FreshLists DEF RowKinds
<1>11. rowCache'.key = build.key /\ rowCache'.rows = list
  BY <1>1
<1>12. AnswerRows' /\ answer'.events = build.events /\ build' = NoBuild
  BY <1>1, <1>10, <1>11, AnswersPoint
<1>13. BuildShape' /\ build'.at = "idle"
  BY <1>1, <1>12, AnsweredIsIdle
<1>14. ReadInOrder'
  <2>0. PICK b \in Timelines : b = build.events
    BY <1>4
  <2>1. CacheFrom(b, h, n)'
    BY <1>1, <1>4, <1>8, <1>9, <1>11, <2>0 DEF CacheFrom
  <2>2. BuildFrom(b, h, n, g)'
    BY <1>13 DEF BuildFrom, Loading
  <2> QED BY <2>1, <2>2 DEF ReadInOrder
<1>15. CachedLists'
  BY <1>10, <1>11 DEF CachedLists
<1>16. ASSUME NEW j, ShownFinished(rowCache.rows.jobs, j)
       PROVE  ShownFinished(rowCache'.rows.jobs, j)
  <2>1. rowCache # NothingCached
    BY <1>16 DEF ShownFinished, NothingCached, NoRowsYet
  <2>2. ShownFinished(JobRows(e, f.manifest, f.logs), j)
    BY <1>3, <1>16, <2>1 DEF CacheFrom
  <2>3. JobEnded(e, f.manifest, f.logs, j)
    BY <2>2, ShownJobs, FilesHave
  <2>4. Older(f, h)
    BY <1>4, <1>6, <1>8, OlderChain
  <2>5. JobEnded(build.events, h.manifest, h.logs, j)
    BY <1>4, <1>6, <2>3, <2>4, EndedStays
  <2>6. ShownFinished(JobRows(build.events, h.manifest, h.logs), j)
    BY <1>4, <1>6, <2>5, ShownJobs, FilesHave
  <2> QED BY <1>9, <1>11, <2>6
<1> QED BY <1>12, <1>13, <1>14, <1>15, <1>16 DEF OwnerInv

LEMMA OwnerStep ==
    ASSUME AgentInv, OwnerInv, [WorkNext]_workVars
    PROVE  /\ OwnerInv'
           /\ \A j : ShownFinished(rowCache.rows.jobs, j) => ShownFinished(rowCache'.rows.jobs, j)
<1>1. AgentInv' /\ AgentGrows
  BY AgentStep
<1>2. CASE UNCHANGED <<build, rowCache, answer>>
  BY <1>1, <1>2, OwnerWaits
<1>3. CASE AgentWorks
  <2>1. UNCHANGED <<build, rowCache, answer>>
    BY <1>3 DEF AgentWorks, JobStarts, JobEndsInTimeline, ManifestMoves, LogCloses, ScheduleSpeaks,
       FlowMoves, ChildSpawns, ChildFinishes, MetaMoves, Logs, Saves
  <2> QED BY <1>2, <2>1
<1>4. CASE ScreenFetches \/ ScreenGrows \/ ScreenPopulates \/ Operator
  <2>1. UNCHANGED <<build, rowCache, answer>>
    BY <1>4 DEF ScreenFetches, ScreenGrows, ScreenPopulates, Operator, TabSwitches, SelectsText,
       Enters, EntersRow, Presses
  <2> QED BY <1>2, <2>1
<1>5. CASE WalksBookends
  <2>1. UNCHANGED rowCache
    BY <1>5 DEF WalksBookends
  <2> QED BY <1>5, <2>1, StepWalksBookends
<1>6. CASE ReadsMetas
  <2>1. UNCHANGED rowCache
    BY <1>6 DEF ReadsMetas
  <2> QED BY <1>6, <2>1, StepReadsMetas
<1>7. CASE LooksUpRows
  <2>1. UNCHANGED rowCache
    BY <1>7 DEF LooksUpRows
  <2> QED BY <1>7, <2>1, StepLooksUpRows
<1>8. CASE ReadsManifest
  <2>1. UNCHANGED rowCache
    BY <1>8 DEF ReadsManifest
  <2> QED BY <1>8, <2>1, StepReadsManifest
<1>9. CASE ReadsLogs
  <2>1. UNCHANGED rowCache
    BY <1>9 DEF ReadsLogs
  <2> QED BY <1>9, <2>1, StepReadsLogs
<1>10. CASE ReadsFlows
  BY <1>10, StepReadsFlows
<1>11. CASE UNCHANGED workVars
  <2>1. UNCHANGED <<build, rowCache, answer>>
    BY <1>11 DEF workVars
  <2> QED BY <1>2, <2>1
<1> QED BY <1>3, <1>4, <1>5, <1>6, <1>7, <1>8, <1>9, <1>10, <1>11 DEF WorkNext, Owner

LEMMA OwnerAlways == WorkSpec => [](AgentInv /\ OwnerInv)
<1>1. WorkInit => AgentInv /\ OwnerInv
  BY WorkInitially
<1>2. AgentInv /\ OwnerInv /\ [WorkNext]_workVars => (AgentInv /\ OwnerInv)'
  <2> SUFFICES ASSUME AgentInv, OwnerInv, [WorkNext]_workVars PROVE AgentInv' /\ OwnerInv'
    OBVIOUS
  <2> QED BY AgentStep, OwnerStep
<1> QED BY <1>1, <1>2, PTL DEF WorkSpec

-----------------------------------------------------------------------------
(* Cached rows are taken only when they are those the files would give. *)

LEMMA FreshOnce == AgentInv /\ OwnerInv => RowsAreFresh
<1> SUFFICES ASSUME AgentInv, OwnerInv, build.at = "stamp",
                    rowCache.key = RowsKey(files, build.events)
             PROVE  LET cached == rowCache.rows.jobs
                        now == JobRows(build.events, files.manifest, files.logs)
                        Covered(j) == j \in Monitors \ LongEnds \/ files.logs[j] = "open"
                    IN /\ DOMAIN cached = DOMAIN now
                       /\ \A i \in DOMAIN now : /\ cached[i].id = now[i].id
                                                /\ Covered(now[i].id) => cached[i] = now[i]
                       /\ rowCache.rows.flows = FlowRows(files.flow)
                       /\ rowCache.rows.schedules = ScheduleRows(build.events, files.scheduler)
    BY DEF RowsAreFresh
<1>1. PICK e \in Timelines, f \in WorkFiles, o \in WorkFiles, n \in WorkFiles, g \in WorkFiles :
         CacheFrom(e, f, o) /\ BuildFrom(e, f, n, g)
  BY DEF OwnerInv, ReadInOrder
<1>2. rowCache # NothingCached
  <2>1. rowCache.key = <<JobInputStamp(files), BookendKey(build.events)>>
    BY DEF RowsKey
  <2>2. rowCache.key # <<>>
    BY <2>1
  <2>3. NothingCached.key = <<>>
    BY DEF NothingCached
  <2> QED BY <2>2, <2>3
<1>3. /\ Prefix(e, events) /\ Older(o, f) /\ Older(f, files)
      /\ rowCache.key = RowsKey(o, e)
      /\ rowCache.rows.jobs = JobRows(e, f.manifest, f.logs)
      /\ rowCache.rows.schedules = ScheduleRows(e, f.scheduler)
      /\ rowCache.rows.flows = FlowRows(f.flow)
  BY <1>1, <1>2 DEF CacheFrom
<1>4. JobInputStamp(o) = JobInputStamp(files) /\ BookendKey(e) = BookendKey(build.events)
  BY <1>3 DEF RowsKey
<1>5. /\ events \in Timelines /\ files \in WorkFiles
      /\ build.events \in Timelines /\ Prefix(build.events, events)
  BY DEF AgentInv, OwnerInv, BuildShape
<1>6. /\ f.manifest = files.manifest /\ f.scheduler = files.scheduler /\ f.flow = files.flow
      /\ \A j \in JobIds : j \in Monitors \ LongEnds \/ files.logs[j] = "open" => f.logs[j] = files.logs[j]
  BY <1>3, <1>4, <1>5, SameStampBetween
<1>7. /\ DOMAIN JobRows(e, f.manifest, f.logs) = DOMAIN JobRows(build.events, f.manifest, files.logs)
      /\ \A i \in DOMAIN JobRows(build.events, f.manifest, files.logs) :
            LET new == JobRows(build.events, f.manifest, files.logs)[i]
                old == JobRows(e, f.manifest, f.logs)[i]
            IN /\ new.id \in JobIds
               /\ old.id = new.id
               /\ f.logs[new.id] = files.logs[new.id] => old = new
  <2>1. f.manifest \in Manifests /\ f.logs \in LogEnds /\ files.logs \in LogEnds
    BY <1>5, FilesHave
  <2> QED BY <1>3, <1>4, <1>5, <2>1, SameKeySameRows
<1>8. ScheduleRows(e, f.scheduler) = ScheduleRows(build.events, files.scheduler)
  <2>1. /\ OfType(e, {"scheduled_task_created"}) = OfType(build.events, {"scheduled_task_created"})
        /\ OfType(e, ScheduleTypes) = OfType(build.events, ScheduleTypes)
    <3>1. {"scheduled_task_created"} \in SUBSET KeyTypes /\ ScheduleTypes \in SUBSET KeyTypes
      BY DEF KeyTypes, ScheduleTypes
    <3> QED BY <1>3, <1>4, <1>5, <3>1, SameKeyOf
  <2>2. ScheduleAt(e) = ScheduleAt(build.events)
    BY <2>1 DEF ScheduleAt
  <2> QED BY <1>6, <2>2 DEF ScheduleRows
<1> QED BY <1>3, <1>6, <1>7, <1>8

\* Rows about to be taken from the cache are those the files would give, but
\* for a log that closed unseen, for any jobs, bookends and readings: a stamp
\* that is the same at two times was the same all the time between, and two
\* stages of one timeline with the same key have the same bookends.
THEOREM RowsAlwaysFresh == WorkSpec => []RowsAreFresh
BY OwnerAlways, FreshOnce, PTL

-----------------------------------------------------------------------------
(* Every row leads to its bookend. *)

LEMMA LeadsOnce == AgentInv /\ OwnerInv => RowsLeadRight
<1> SUFFICES ASSUME AgentInv, OwnerInv, NEW kind \in RowKinds, NEW i \in DOMAIN answer.rows[kind]
             PROVE  answer.rows[kind][i].at
                      = LeadsTo(answer.events, kind, answer.rows[kind][i].id)
    BY DEF RowsLeadRight, RowKinds
<1>0. PICK evs, id : evs = answer.events /\ id = rowCache.rows[kind][i].id
  OBVIOUS
<1>1. /\ i \in DOMAIN rowCache.rows[kind]
      /\ answer.rows[kind][i].id = id
      /\ answer.rows[kind][i].at = WalkedTo(Walked(evs), kind, id)
  BY <1>0 DEF OwnerInv, AnswerRows
<1>2. evs \in Timelines /\ Prefix(evs, events) /\ events \in Timelines
  BY <1>0 DEF OwnerInv, BuildShape, AgentInv
<1>3. PICK e \in Timelines, f \in WorkFiles, o \in WorkFiles, n \in WorkFiles, g \in WorkFiles :
         CacheFrom(e, f, o) /\ BuildFrom(e, f, n, g)
  BY DEF OwnerInv, ReadInOrder
<1>4. rowCache # NothingCached
  BY <1>1 DEF NothingCached, NoRowsYet, RowKinds
<1>5. /\ Prefix(e, events) /\ Older(f, files)
      /\ rowCache.rows.jobs = JobRows(e, f.manifest, f.logs)
      /\ rowCache.rows.flows = FlowRows(f.flow)
  BY <1>3, <1>4 DEF CacheFrom
<1>6. Len(e) \in Nat /\ Len(evs) \in Nat /\ Len(events) \in Nat
  BY <1>2, PlacesOf
<1>7. EventsFit(e) /\ EventsFit(evs)
  BY <1>2, <1>5, <1>6 DEF AgentInv, EventsFit, Prefix
<1> SUFFICES WalkedTo(Walked(evs), kind, id) = LeadsTo(evs, kind, id)
  BY <1>0, <1>1
<1>8. CASE kind = "jobs"
  <2>1. id \in KnownJobs(e, f.manifest)
    BY <1>0, <1>1, <1>5, <1>8, JobRowsList
  <2>2. id \in JobIds
        /\ (f.manifest[id] # "absent" \/ Of(e, JobTypes, id) # {})
    BY <2>1 DEF KnownJobs, JobRecords
  <2>3. story = "jobs"
    <3>1. CASE f.manifest[id] # "absent"
      <4>1. files.manifest[id] # "absent"
        BY <1>5, <2>2, <3>1 DEF Older, ManifestAfter, JobEnds
      <4> QED BY <2>2, <4>1 DEF AgentInv, FilesFit
    <3>2. CASE Of(e, JobTypes, id) # {}
      <4>1. PICK k \in 1 .. Len(e) : e[k].type \in JobTypes
        BY <3>2 DEF Of, OfType
      <4> QED BY <1>7, <4>1 DEF EventsFit, JobTypes, TaskEnds, ScheduleTypes
    <3> QED BY <2>2, <3>1, <3>2
  <2>4. \A k \in 1 .. Len(evs) : evs[k].type \in JobTypes
    BY <1>7, <2>3 DEF EventsFit
  <2> QED BY <1>2, <1>8, <2>2, <2>4, JobLeads
<1>9. CASE kind = "schedules"
  BY <1>2, <1>9, ScheduleLeads
<1>10. CASE kind = "flows"
  <2>1. f.flow # "absent" /\ id = "run"
    BY <1>0, <1>1, <1>5, <1>10 DEF FlowRows
  <2>2. files.flow # "absent"
    BY <1>5, <2>1 DEF Older, FlowAfter
  <2>3. story = "flows"
    BY <2>2 DEF AgentInv, FilesFit
  <2>4. \A k \in 1 .. Len(evs) : \/ evs[k].type \in ScheduleTypes /\ evs[k].id = "task"
                                 \/ evs[k].type = "workflow"
    BY <1>7, <2>3 DEF EventsFit
  <2> QED BY <1>2, <1>10, <2>1, <2>4, FlowLeads
<1> QED BY <1>8, <1>9, <1>10 DEF RowKinds

\* Every row of an overview leads where its own search of the bookends the
\* overview was built on would, for any jobs and any timeline, whether the rows
\* were made for it or taken from the cache.
THEOREM RowsAlwaysLeadRight == WorkSpec => []RowsLeadRight
BY OwnerAlways, LeadsOnce, PTL

-----------------------------------------------------------------------------
(* What is shown finished stays finished. *)

Keeps(ids, old, new) == \A id \in ids : ShownFinished(old, id) => ShownFinished(new, id)

\* A child given as finished ended by what the next overview reads.
RunsInOrder ==
    \A c \in ChildIds :
        /\ ShownFinished(answer.runs, c) => RunEnded(events, files.meta, c)
        /\ build.at = "runs" /\ ShownFinished(answer.runs, c)
              => RunEnded(build.events, files.meta, c)
        /\ build.at \in {"stamp"} \union Loading =>
              /\ ShownFinished(answer.runs, c) => ShownFinished(build.runs, c)
              /\ ShownFinished(build.runs, c) => RunEnded(events, files.meta, c)

ScreenShape ==
    screen = [at |-> screen.at, tab |-> screen.tab, selecting |-> screen.selecting,
              keys |-> screen.keys, held |-> screen.held, drawn |-> screen.drawn,
              paint |-> screen.paint, fp |-> screen.fp, opened |-> screen.opened]
\* The screen draws what it held, and holds what the owner answered.
DrawnInOrder ==
    /\ Keeps(JobIds, screen.drawn.rows.jobs, screen.held.rows.jobs)
    /\ Keeps(JobIds, screen.held.rows.jobs, answer.rows.jobs)
    /\ Keeps(ChildIds, screen.drawn.runs, screen.held.runs)
    /\ Keeps(ChildIds, screen.held.runs, answer.runs)
ShownInv == RunsInOrder /\ ScreenShape /\ DrawnInOrder

LEMMA ShownInitially == WorkInit => ShownInv
<1> SUFFICES ASSUME WorkInit PROVE ShownInv
    OBVIOUS
<1>1. /\ screen = [at |-> "idle", tab |-> "timeline", selecting |-> FALSE, keys |-> 0,
                   held |-> NothingHeld, drawn |-> NothingHeld, paint |-> FALSE,
                   fp |-> <<>>, opened |-> <<>>]
      /\ answer = NoAnswer /\ build.at = "idle"
  BY DEF WorkInit, NoBuild
<1>2. ScreenShape /\ screen.drawn = NothingHeld /\ screen.held = NothingHeld
  BY <1>1 DEF ScreenShape
<1>3. \A id : ~ShownFinished(<<>>, id)
  BY DEF ShownFinished
<1>4. /\ NothingHeld.rows.jobs = <<>> /\ NothingHeld.runs = <<>>
      /\ answer.rows.jobs = <<>> /\ answer.runs = <<>>
  BY <1>1 DEF NothingHeld, NoAnswer, NoRowsYet
<1>5. DrawnInOrder
  BY <1>2, <1>3, <1>4 DEF DrawnInOrder, Keeps
<1>6. RunsInOrder
  BY <1>1, <1>3, <1>4 DEF RunsInOrder, Loading
<1> QED BY <1>2, <1>5, <1>6 DEF ShownInv

\* Children read as ended stay so when the agent goes on.
LEMMA RunsWait ==
    ASSUME OwnerInv, RunsInOrder, AgentGrows, UNCHANGED <<build, answer>>
    PROVE  RunsInOrder'
<1> SUFFICES ASSUME NEW c \in ChildIds
             PROVE  /\ ShownFinished(answer.runs, c) => RunEnded(events', files'.meta, c)
                    /\ build.at = "runs" /\ ShownFinished(answer.runs, c)
                          => RunEnded(build.events, files'.meta, c)
                    /\ build.at \in {"stamp"} \union Loading =>
                          /\ ShownFinished(answer.runs, c) => ShownFinished(build.runs, c)
                          /\ ShownFinished(build.runs, c) => RunEnded(events', files'.meta, c)
    BY DEF RunsInOrder
<1>1. /\ events \in Timelines /\ events' \in Timelines /\ Prefix(events, events')
      /\ OlderMetas(files.meta, files'.meta)
  BY DEF AgentGrows
<1>2. RunEnded(events, files.meta, c) => RunEnded(events', files'.meta, c)
  BY <1>1, RunStaysEnded
<1>3. build.at = "runs" /\ RunEnded(build.events, files.meta, c)
         => RunEnded(build.events, files'.meta, c)
  <2>1. build.at = "runs" => build.events \in Timelines /\ Prefix(build.events, build.events)
    BY PrefixItself DEF OwnerInv, BuildShape
  <2> QED BY <1>1, <2>1, RunStaysEnded
<1> QED BY <1>2, <1>3 DEF RunsInOrder

\* The runs of an answer, and those of the overview being built, as the owner
\* goes on.
LEMMA RunsStep ==
    ASSUME AgentInv, OwnerInv, RunsInOrder, Owner
    PROVE  RunsInOrder' /\ Keeps(ChildIds, answer.runs, answer'.runs)
<1>1. UNCHANGED <<events, files>>
  BY DEF Owner, WalksBookends, ReadsMetas, LooksUpRows, ReadsManifest, ReadsLogs, ReadsFlows
<1>2. CASE WalksBookends
  <2>1. build'.at = "runs" /\ build'.events = events /\ answer' = answer
    BY <1>2 DEF WalksBookends, NoBuild
  <2> QED BY <1>1, <2>1 DEF RunsInOrder, Loading, Keeps
<1>3. CASE ReadsMetas
  <2>1. /\ build.at = "runs" /\ answer' = answer
        /\ build' = [build EXCEPT !.at = "stamp", !.runs = RunRows(build.events, files.meta)]
    BY <1>3 DEF ReadsMetas
  <2>2. build'.at = "stamp" /\ build'.runs = RunRows(build.events, files.meta)
    BY <2>1 DEF OwnerInv, BuildShape
  <2>3. /\ build.events \in Timelines /\ events \in Timelines /\ Prefix(build.events, events)
        /\ files \in WorkFiles
    BY <2>1 DEF OwnerInv, BuildShape, AgentInv
  <2>4. \A c : ShownFinished(RunRows(build.events, files.meta), c)
               <=> RunEnded(build.events, files.meta, c)
    BY <2>3, ShownRuns, FilesHave
  <2>5. OlderMetas(files.meta, files.meta)
    BY <2>3, OlderItself
  <2>6. \A c : RunEnded(build.events, files.meta, c) => RunEnded(events, files.meta, c)
    BY <2>3, <2>5, RunStaysEnded
  <2> QED BY <1>1, <2>1, <2>2, <2>4, <2>6 DEF RunsInOrder, Keeps
<1>4. ASSUME build.at \in {"stamp"} \union Loading, answer'.runs = build.runs, build' = NoBuild
      PROVE  RunsInOrder' /\ Keeps(ChildIds, answer.runs, answer'.runs)
  <2>1. build'.at = "idle"
    BY <1>4 DEF NoBuild
  <2> QED BY <1>1, <1>4, <2>1 DEF RunsInOrder, Loading, Keeps
<1>5. ASSUME build.at \in {"stamp"} \union Loading, build'.at \in {"stamp"} \union Loading,
             build'.runs = build.runs, answer' = answer
      PROVE  RunsInOrder' /\ Keeps(ChildIds, answer.runs, answer'.runs)
  BY <1>1, <1>5 DEF RunsInOrder, Loading, Keeps
<1>6. CASE LooksUpRows
  <2>1. CASE Answers(build, rowCache.rows)
    <3>1. build.at = "stamp" /\ answer'.runs = build.runs /\ build' = NoBuild
      BY <1>6, <2>1 DEF LooksUpRows, Answers
    <3> QED BY <1>4, <3>1
  <2>2. CASE /\ build' = [build EXCEPT !.at = "manifest", !.key = RowsKey(files, build.events)]
             /\ UNCHANGED answer
    <3>1. /\ build.at = "stamp" /\ build'.at = "manifest" /\ build'.runs = build.runs
          /\ answer' = answer
      BY <1>6, <2>2 DEF LooksUpRows, OwnerInv, BuildShape
    <3> QED BY <1>5, <3>1 DEF Loading
  <2> QED BY <1>6, <2>1, <2>2 DEF LooksUpRows
<1>7. CASE ReadsManifest
  <2>1. /\ build.at = "manifest" /\ build'.at = "logs" /\ build'.runs = build.runs
        /\ answer' = answer
    BY <1>7 DEF ReadsManifest, OwnerInv, BuildShape
  <2> QED BY <1>5, <2>1 DEF Loading
<1>8. CASE ReadsLogs
  <2>1. /\ build.at = "logs" /\ build'.at = "flows" /\ build'.runs = build.runs
        /\ answer' = answer
    BY <1>8 DEF ReadsLogs, OwnerInv, BuildShape
  <2> QED BY <1>5, <2>1 DEF Loading
<1>9. CASE ReadsFlows
  <2>1. build.at = "flows" /\ answer'.runs = build.runs /\ build' = NoBuild
    BY <1>9 DEF ReadsFlows, Answers
  <2> QED BY <1>4, <2>1 DEF Loading
<1> QED BY <1>2, <1>3, <1>6, <1>7, <1>8, <1>9 DEF Owner

\* An answer shows finished the jobs the cached rows do.
LEMMA AnswerShows ==
    ASSUME AnswerRows
    PROVE  \A j : ShownFinished(answer.rows.jobs, j) <=> ShownFinished(rowCache.rows.jobs, j)
<1>1. "jobs" \in RowKinds
  BY DEF RowKinds
<1> QED BY <1>1 DEF AnswerRows, ShownFinished

\* As the screen moves, what is drawn stays or becomes what is held.
LEMMA ScreenMoves ==
    ASSUME ShownInv, ScreenFetches \/ ScreenGrows \/ ScreenPopulates \/ Operator
    PROVE  /\ ScreenShape' /\ DrawnInOrder' /\ answer' = answer
           /\ screen'.drawn \in {screen.drawn, screen.held}
<1>1. ScreenShape /\ DrawnInOrder
  BY DEF ShownInv
<1>2. CASE ScreenFetches
  <2>1. PICK held, paint : /\ held = [total |-> Len(answer.events), rows |-> answer.rows,
                                      runs |-> answer.runs]
                           /\ screen' = [screen EXCEPT !.at = "grow", !.held = held, !.paint = paint]
                           /\ answer' = answer
    BY <1>2 DEF ScreenFetches
  <2>2. screen'.held = held /\ screen'.drawn = screen.drawn /\ ScreenShape'
    BY <1>1, <2>1 DEF ScreenShape
  <2>3. held.rows = answer.rows /\ held.runs = answer.runs
    BY <2>1
  <2> QED BY <1>1, <2>1, <2>2, <2>3 DEF DrawnInOrder, Keeps
<1>3. ASSUME answer' = answer, ScreenShape', screen'.held = screen.held,
             screen'.drawn \in {screen.drawn, screen.held}
      PROVE  DrawnInOrder'
  BY <1>1, <1>3 DEF DrawnInOrder, Keeps
<1>4. CASE ScreenGrows
  <2>1. /\ answer' = answer /\ ScreenShape' /\ screen'.held = screen.held
        /\ screen'.drawn = screen.drawn
    BY <1>1, <1>4 DEF ScreenGrows, ScreenShape
  <2> QED BY <1>3, <2>1
<1>5. CASE ScreenPopulates
  <2>1. PICK fp, drawn : /\ screen' = [screen EXCEPT !.at = "idle", !.paint = FALSE, !.fp = fp,
                                                     !.drawn = drawn]
                         /\ drawn \in {screen.drawn, screen.held} /\ answer' = answer
    BY <1>5 DEF ScreenPopulates
  <2>2. ScreenShape' /\ screen'.held = screen.held /\ screen'.drawn = drawn
    BY <1>1, <2>1 DEF ScreenShape
  <2> QED BY <1>3, <2>1, <2>2
<1>6. CASE Operator
  <2>1. /\ answer' = answer /\ ScreenShape' /\ screen'.held = screen.held
        /\ screen'.drawn \in {screen.drawn, screen.held}
    <3>1. CASE TabSwitches
      <4>1. CASE screen.tab = "summary"
        BY <1>1, <3>1, <4>1 DEF TabSwitches, Presses, ScreenShape
      <4>2. CASE screen.tab # "summary"
        BY <1>1, <3>1, <4>2 DEF TabSwitches, Presses, ScreenShape
      <4> QED BY <4>1, <4>2
    <3>2. CASE SelectsText
      BY <1>1, <3>2 DEF SelectsText, Presses, ScreenShape
    <3>3. CASE Enters
      <4>1. PICK opened : /\ screen' = [[screen EXCEPT !.opened = opened] EXCEPT !.keys = @ + 1]
                          /\ answer' = answer
        BY <3>3 DEF Enters, EntersRow, Presses
      <4> QED BY <1>1, <4>1 DEF ScreenShape
    <3> QED BY <1>6, <3>1, <3>2, <3>3 DEF Operator
  <2> QED BY <1>3, <2>1
<1> QED BY <1>2, <1>3, <1>4, <1>5, <1>6

LEMMA ShownStep ==
    ASSUME AgentInv, OwnerInv, ShownInv, [WorkNext]_workVars
    PROVE  /\ ShownInv'
           /\ Keeps(JobIds, screen.drawn.rows.jobs, screen'.drawn.rows.jobs)
           /\ Keeps(ChildIds, screen.drawn.runs, screen'.drawn.runs)
<1>1. AgentGrows
  BY AgentStep
<1>2. RunsInOrder /\ ScreenShape /\ DrawnInOrder
  BY DEF ShownInv
<1>3. CASE Owner
  <2>1. RunsInOrder' /\ Keeps(ChildIds, answer.runs, answer'.runs)
    BY <1>2, <1>3, RunsStep
  <2>2. \A j : ShownFinished(rowCache.rows.jobs, j) => ShownFinished(rowCache'.rows.jobs, j)
    BY OwnerStep
  <2>3. AnswerRows /\ AnswerRows'
    BY OwnerStep DEF OwnerInv
  <2>4. \A j : ShownFinished(answer.rows.jobs, j) => ShownFinished(answer'.rows.jobs, j)
    <3>1. \A j : ShownFinished(answer.rows.jobs, j) => ShownFinished(rowCache.rows.jobs, j)
      BY <2>3, AnswerShows
    <3>2. \A j : ShownFinished(rowCache'.rows.jobs, j) => ShownFinished(answer'.rows.jobs, j)
      <4>1. "jobs" \in RowKinds
        BY DEF RowKinds
      <4> QED BY <2>3, <4>1 DEF AnswerRows, ShownFinished
    <3> QED BY <2>2, <3>1, <3>2
  <2>5. screen' = screen
    BY <1>3 DEF Owner, WalksBookends, ReadsMetas, LooksUpRows, ReadsManifest, ReadsLogs, ReadsFlows
  <2>6. ScreenShape' /\ DrawnInOrder'
    BY <1>2, <2>1, <2>4, <2>5 DEF ScreenShape, DrawnInOrder, Keeps
  <2> QED BY <2>1, <2>5, <2>6 DEF ShownInv, Keeps
<1>4. CASE AgentWorks \/ UNCHANGED workVars
  <2>1. UNCHANGED <<build, answer, screen>>
    BY <1>4 DEF workVars, AgentWorks, JobStarts, JobEndsInTimeline, ManifestMoves, LogCloses,
       ScheduleSpeaks, FlowMoves, ChildSpawns, ChildFinishes, MetaMoves, Logs, Saves
  <2>2. RunsInOrder'
    BY <1>1, <1>2, <2>1, RunsWait
  <2>3. ScreenShape' /\ DrawnInOrder'
    BY <1>2, <2>1 DEF ScreenShape, DrawnInOrder
  <2> QED BY <2>1, <2>2, <2>3 DEF ShownInv, Keeps
<1>5. CASE ScreenFetches \/ ScreenGrows \/ ScreenPopulates \/ Operator
  <2>1. /\ ScreenShape' /\ DrawnInOrder' /\ answer' = answer
        /\ screen'.drawn \in {screen.drawn, screen.held}
    BY <1>5, ScreenMoves
  <2>2. UNCHANGED <<build, answer>>
    BY <1>5 DEF ScreenFetches, ScreenGrows, ScreenPopulates, Operator, TabSwitches, SelectsText,
       Enters, EntersRow, Presses
  <2>3. RunsInOrder'
    BY <1>1, <1>2, <2>2, RunsWait
  <2> QED BY <1>2, <2>1, <2>3 DEF ShownInv, DrawnInOrder, Keeps
<1> QED BY <1>3, <1>4, <1>5 DEF WorkNext

\* What the pane shows finished is never shown running again, for any jobs,
\* children and bookends, in whatever order the agent said it ended and
\* whichever of its files were read first.
THEOREM FinishAlwaysKept == WorkSpec => FinishIsKept
<1>1. WorkInit => AgentInv /\ OwnerInv /\ ShownInv
  BY WorkInitially, ShownInitially
<1>2. AgentInv /\ OwnerInv /\ ShownInv /\ [WorkNext]_workVars => (AgentInv /\ OwnerInv /\ ShownInv)'
  <2> SUFFICES ASSUME AgentInv, OwnerInv, ShownInv, [WorkNext]_workVars
               PROVE  AgentInv' /\ OwnerInv' /\ ShownInv'
    OBVIOUS
  <2> QED BY AgentStep, OwnerStep, ShownStep
<1>3. AgentInv /\ OwnerInv /\ ShownInv /\ [WorkNext]_workVars
      => [/\ \A j \in JobIds : ShownFinished(screen.drawn.rows.jobs, j)
                               => ShownFinished(screen'.drawn.rows.jobs, j)
          /\ \A c \in ChildIds : ShownFinished(screen.drawn.runs, c)
                                 => ShownFinished(screen'.drawn.runs, c)]_workVars
  BY ShownStep DEF Keeps
<1> QED BY <1>1, <1>2, <1>3, PTL DEF WorkSpec, FinishIsKept

-----------------------------------------------------------------------------
(* Sequences joined to one (FlattenSeq).                                   *)

\* One sequence and then another.
Then(a, b) == a \o b

FlatOf(seqs, n, f) ==
    f = [i \in 1 .. n |-> IF i = 1 THEN seqs[i] ELSE Then(f[i - 1], seqs[i])]

LEMMA FlatOne ==
    ASSUME NEW seqs, NEW n \in Nat, n # 0, NEW f, FlatOf(seqs, n, f)
    PROVE  /\ DOMAIN f = 1 .. n /\ f[1] = seqs[1]
           /\ \A i \in 2 .. n : f[i] = Then(f[i - 1], seqs[i])
<1> DEFINE g == [i \in 1 .. n |-> IF i = 1 THEN seqs[i] ELSE Then(f[i - 1], seqs[i])]
<1>1. f = g
  BY DEF FlatOf
<1>2. /\ DOMAIN g = 1 .. n /\ g[1] = seqs[1]
      /\ \A i \in 2 .. n : g[i] = Then(f[i - 1], seqs[i])
  <2>1. 1 \in 1 .. n /\ \A i \in 2 .. n : i \in 1 .. n /\ i # 1
    OBVIOUS
  <2> QED BY <2>1, Zenon
<1> HIDE DEF g
<1> QED BY <1>1, <1>2

LEMMA FlatExists == ASSUME NEW seqs, NEW n \in Nat, n # 0 PROVE \E f : FlatOf(seqs, n, f)
<1> DEFINE bad == {m \in Nat : m # 0 /\ ~\E f : FlatOf(seqs, m, f)}
<1>1. ASSUME bad # {} PROVE FALSE
  <2>1. PICK m \in bad : \A k \in bad : m <= k
    BY <1>1, LeastNatural
  <2>2. CASE m = 1
    <3> DEFINE f == [i \in 1 .. 1 |-> seqs[i]]
    <3>1. f = [i \in 1 .. 1 |-> IF i = 1 THEN seqs[i] ELSE Then(f[i - 1], seqs[i])]
      OBVIOUS
    <3>2. FlatOf(seqs, 1, f)
      BY <3>1 DEF FlatOf
    <3> QED BY <2>1, <2>2, <3>2
  <2>3. CASE m # 1
    <3>1. m \in Nat /\ m >= 2 /\ m - 1 \in Nat /\ m - 1 # 0 /\ m - 1 \notin bad
      BY <2>1, <2>3
    <3>2. PICK g : FlatOf(seqs, m - 1, g)
      BY <3>1
    <3> DEFINE f == [i \in 1 .. m |-> IF i = m THEN Then(g[m - 1], seqs[m]) ELSE g[i]]
    <3>3. g[1] = seqs[1] /\ \A i \in 2 .. m - 1 : g[i] = Then(g[i - 1], seqs[i])
      BY <3>1, <3>2, FlatOne
    <3>4. \A i \in 1 .. m - 1 : f[i] = g[i]
      BY <3>1
    <3>5. f[m] = Then(g[m - 1], seqs[m])
      BY <3>1
    <3>6. \A i \in 1 .. m : f[i] = IF i = 1 THEN seqs[i] ELSE Then(f[i - 1], seqs[i])
      <4> TAKE i \in 1 .. m
      <4> HIDE DEF f
      <4>1. CASE i = 1
        BY <3>1, <3>3, <3>4, <4>1
      <4>2. CASE i = m
        BY <3>1, <3>4, <3>5, <4>2
      <4>3. CASE i \in 2 .. m - 1
        <5>1. i \in 1 .. m - 1 /\ i - 1 \in 1 .. m - 1 /\ i # 1
          BY <3>1, <4>3
        <5> QED BY <3>3, <3>4, <4>3, <5>1
      <4> QED BY <3>1, <4>1, <4>2, <4>3
    <3>7. f = [i \in 1 .. m |-> f[i]]
      OBVIOUS
    <3> HIDE DEF f
    <3>8. FlatOf(seqs, m, f)
      BY <3>6, <3>7 DEF FlatOf
    <3> QED BY <2>1, <3>8
  <2> QED BY <2>2, <2>3
<1> QED BY <1>1

\* No member twice.
Once(s) == \A m, n \in DOMAIN s : s[m] = s[n] => m = n
\* No member in two of the first m, or twice in one.
Apart(seqs, m) ==
    /\ \A k \in 1 .. m : Once(seqs[k])
    /\ \A k, l \in 1 .. m : k # l => ToSet(seqs[k]) \cap ToSet(seqs[l]) = {}

LEMMA JoinedTwo ==
    ASSUME NEW S, NEW a \in Seq(S), NEW b \in Seq(S)
    PROVE  /\ Then(a, b) \in Seq(S)
           /\ ToSet(Then(a, b)) = ToSet(a) \union ToSet(b)
           /\ Once(a) /\ Once(b) /\ ToSet(a) \cap ToSet(b) = {} => Once(Then(a, b))
<1> DEFINE c == a \o b
<1>1. /\ Len(a) \in Nat /\ Len(b) \in Nat
      /\ DOMAIN a = 1 .. Len(a) /\ DOMAIN b = 1 .. Len(b)
  OBVIOUS
<1>2. /\ c \in Seq(S) /\ Len(c) = Len(a) + Len(b) /\ DOMAIN c = 1 .. Len(a) + Len(b)
      /\ \A i \in 1 .. Len(a) : c[i] = a[i]
      /\ \A i \in Len(a) + 1 .. Len(a) + Len(b) : c[i] = b[i - Len(a)]
  BY <1>1
<1> HIDE DEF c
<1>3. ToSet(c) = ToSet(a) \union ToSet(b)
  <2>1. ASSUME NEW x \in ToSet(c) PROVE x \in ToSet(a) \union ToSet(b)
    <3>1. PICK i \in DOMAIN c : x = c[i]
      BY <2>1 DEF ToSet
    <3>2. CASE i \in 1 .. Len(a)
      BY <1>1, <1>2, <3>1, <3>2 DEF ToSet
    <3>3. CASE i \in Len(a) + 1 .. Len(a) + Len(b)
      <4>1. i - Len(a) \in 1 .. Len(b)
        BY <1>1, <3>3
      <4> QED BY <1>1, <1>2, <3>1, <3>3, <4>1 DEF ToSet
    <3> QED BY <1>1, <1>2, <3>2, <3>3
  <2>2. ASSUME NEW x \in ToSet(a) PROVE x \in ToSet(c)
    <3>1. PICK i \in 1 .. Len(a) : x = a[i]
      BY <1>1, <2>2 DEF ToSet
    <3>2. i \in DOMAIN c /\ c[i] = x
      BY <1>1, <1>2, <3>1
    <3> QED BY <3>2 DEF ToSet
  <2>3. ASSUME NEW x \in ToSet(b) PROVE x \in ToSet(c)
    <3>1. PICK i \in 1 .. Len(b) : x = b[i]
      BY <1>1, <2>3 DEF ToSet
    <3>2. /\ Len(a) + i \in Len(a) + 1 .. Len(a) + Len(b) /\ (Len(a) + i) - Len(a) = i
          /\ Len(a) + i \in 1 .. Len(a) + Len(b)
      BY <1>1
    <3>3. Len(a) + i \in DOMAIN c /\ c[Len(a) + i] = x
      BY <1>1, <1>2, <3>1, <3>2
    <3> QED BY <3>3 DEF ToSet
  <2> QED BY <2>1, <2>2, <2>3
<1>4. ASSUME Once(a), Once(b), ToSet(a) \cap ToSet(b) = {} PROVE Once(c)
  <2> SUFFICES ASSUME NEW m \in DOMAIN c, NEW n \in DOMAIN c, c[m] = c[n] PROVE m = n
    BY DEF Once
  <2>1. \A i \in 1 .. Len(a) : c[i] \in ToSet(a)
    BY <1>1, <1>2 DEF ToSet
  <2>2. \A i \in Len(a) + 1 .. Len(a) + Len(b) : i - Len(a) \in DOMAIN b /\ c[i] \in ToSet(b)
    <3> TAKE i \in Len(a) + 1 .. Len(a) + Len(b)
    <3>1. i - Len(a) \in DOMAIN b
      BY <1>1
    <3> QED BY <1>2, <3>1 DEF ToSet
  <2>3. CASE m <= Len(a) /\ n <= Len(a)
    BY <1>1, <1>2, <1>4, <2>3 DEF Once
  <2>4. CASE m > Len(a) /\ n > Len(a)
    <3>1. m \in Len(a) + 1 .. Len(a) + Len(b) /\ n \in Len(a) + 1 .. Len(a) + Len(b)
      BY <1>1, <1>2, <2>4
    <3>2. b[m - Len(a)] = b[n - Len(a)]
      BY <1>2, <3>1
    <3>3. m - Len(a) = n - Len(a)
      BY <1>4, <2>2, <3>1, <3>2 DEF Once
    <3> QED BY <1>1, <1>2, <3>3
  <2>5. CASE (m <= Len(a) /\ n > Len(a)) \/ (m > Len(a) /\ n <= Len(a))
    BY <1>1, <1>2, <1>4, <2>1, <2>2, <2>5
  <2> QED BY <1>1, <1>2, <2>3, <2>4, <2>5
<1> QED BY <1>2, <1>3, <1>4 DEF c, Then

\* Joined are the members of all, each in as many places as before.
FlatFits(S, seqs, s, m) ==
    /\ s \in Seq(S)
    /\ ToSet(s) = UNION {ToSet(seqs[k]) : k \in 1 .. m}
    /\ Apart(seqs, m) => Once(s)

LEMMA FlattenFits ==
    ASSUME NEW S, NEW seqs \in Seq(Seq(S))
    PROVE  FlatFits(S, seqs, FlattenSeq(seqs), Len(seqs))
<1> DEFINE n == Len(seqs)
           f == CHOOSE g : FlatOf(seqs, n, g)
<1>1. n \in Nat /\ \A k \in 1 .. n : seqs[k] \in Seq(S)
  OBVIOUS
<1>2. CASE n = 0
  <2>1. FlattenSeq(seqs) = seqs /\ seqs = <<>>
    BY <1>2 DEF FlattenSeq
  <2>2. ToSet(<<>>) = {} /\ Once(<<>>) /\ <<>> \in Seq(S)
    BY DEF ToSet, Once
  <2>3. UNION {ToSet(seqs[k]) : k \in 1 .. 0} = {}
    OBVIOUS
  <2> QED BY <1>2, <2>1, <2>2, <2>3 DEF FlatFits
<1>3. CASE n # 0
  <2>1. FlatOf(seqs, n, f)
    BY <1>1, <1>3, FlatExists
  <2>2. FlattenSeq(seqs) = f[n]
    BY <1>3 DEF FlattenSeq, FlatOf, Then
  <2> HIDE DEF f, n
  <2>3. f[1] = seqs[1] /\ \A i \in 2 .. n : f[i] = Then(f[i - 1], seqs[i])
    BY <1>1, <1>3, <2>1, FlatOne
  <2> DEFINE bad == {m \in 1 .. n : ~FlatFits(S, seqs, f[m], m)}
  <2>4. ASSUME bad # {} PROVE FALSE
    <3>1. bad \subseteq Nat
      BY <1>1
    <3>2. PICK m \in bad : \A k \in bad : m <= k
      BY <2>4, <3>1, LeastNatural
    <3>3. CASE m = 1
      <4>1. UNION {ToSet(seqs[k]) : k \in 1 .. 1} = ToSet(seqs[1])
        OBVIOUS
      <4>2. 1 \in 1 .. n /\ 1 \in 1 .. 1
        BY <1>1, <1>3
      <4>3. FlatFits(S, seqs, seqs[1], 1)
        BY <1>1, <4>1, <4>2 DEF FlatFits, Apart
      <4> QED BY <2>3, <3>2, <3>3, <4>3
    <3>4. CASE m # 1
      <4>1. m - 1 \in 1 .. n /\ m \in 2 .. n /\ m - 1 \in Nat /\ m \in 1 .. n
        BY <1>1, <3>2, <3>4
      <4>2. FlatFits(S, seqs, f[m - 1], m - 1)
        BY <3>2, <4>1
      <4>3. f[m] = Then(f[m - 1], seqs[m]) /\ f[m - 1] \in Seq(S) /\ seqs[m] \in Seq(S)
        BY <1>1, <2>3, <4>1, <4>2 DEF FlatFits
      <4>4. 1 .. m = (1 .. m - 1) \union {m}
        BY <4>1
      <4>5. UNION {ToSet(seqs[k]) : k \in 1 .. m}
              = (UNION {ToSet(seqs[k]) : k \in 1 .. m - 1}) \union ToSet(seqs[m])
        BY <4>4
      <4>6. ToSet(f[m - 1]) = UNION {ToSet(seqs[k]) : k \in 1 .. m - 1}
        BY <4>2 DEF FlatFits
      <4>7. ToSet(f[m]) = UNION {ToSet(seqs[k]) : k \in 1 .. m}
        <5>1. ToSet(f[m]) = ToSet(f[m - 1]) \union ToSet(seqs[m])
          BY <4>3, JoinedTwo
        <5> QED BY <4>5, <4>6, <5>1, Zenon
      <4>8. ASSUME Apart(seqs, m) PROVE Once(f[m])
        <5>1. Apart(seqs, m - 1)
          BY <4>4, <4>8 DEF Apart
        <5>2. Once(f[m - 1]) /\ Once(seqs[m])
          BY <4>1, <4>2, <4>4, <4>8, <5>1 DEF FlatFits, Apart
        <5>3. ToSet(f[m - 1]) \cap ToSet(seqs[m]) = {}
          <6>1. \A k \in 1 .. m - 1 : k \in 1 .. m /\ k # m /\ m \in 1 .. m
            BY <4>1
          <6>2. \A k \in 1 .. m - 1 : ToSet(seqs[k]) \cap ToSet(seqs[m]) = {}
            BY <4>8, <6>1 DEF Apart
          <6> QED BY <4>6, <6>2
        <5> QED BY <4>3, <5>2, <5>3, JoinedTwo
      <4>9. f[m] \in Seq(S)
        BY <4>3, JoinedTwo
      <4>10. FlatFits(S, seqs, f[m], m)
        BY <4>7, <4>8, <4>9 DEF FlatFits
      <4> QED BY <3>2, <4>10
    <3> QED BY <3>3, <3>4
  <2>5. FlatFits(S, seqs, f[n], n)
    BY <1>1, <1>3, <2>4
  <2> QED BY <2>2, <2>5 DEF n
<1> QED BY <1>2, <1>3

\* The rows in some places are theirs, each once, in an order.
PickedBy(rs, places, c, o) ==
    /\ c \in Nat /\ o \in [1 .. c -> places]
    /\ \A i \in places : \E m \in 1 .. c : o[m] = i
    /\ \A l, m \in 1 .. c : o[l] = o[m] => l = m
    /\ Picked(rs, places) = [m \in 1 .. c |-> rs[o[m]]]

LEMMA PickedPlaces ==
    ASSUME NEW rs, NEW n \in Nat, NEW places \in SUBSET (1 .. n)
    PROVE  \E c, o : PickedBy(rs, places, c, o)
<1> DEFINE less == {p \in places \X places : p[1] < p[2]}
           c == Cardinality(places)
           o == Ranked(places, less)
<1>1. IsFiniteSet(places)
  <2>1. IsFiniteSet(1 .. n)
    BY FS_Interval
  <2> QED BY <2>1, FS_Subset
<1>2. Orders(less, places)
  <2>1. \A i \in places : i \in Int
    OBVIOUS
  <2> QED BY <2>1 DEF Orders
<1>3. /\ c \in Nat /\ o \in [1 .. c -> places]
      /\ \A i \in places : \E m \in 1 .. c : o[m] = i
      /\ \A l, m \in 1 .. c : o[l] = o[m] => l = m
  <2> HIDE DEF less
  <2> QED BY <1>1, <1>2, RankedIsOrder
<1>4. Picked(rs, places) = [m \in 1 .. c |-> rs[o[m]]]
  BY DEF Picked
<1> HIDE DEF c, o
<1>5. PickedBy(rs, places, c, o)
  BY <1>3, <1>4 DEF PickedBy
<1> QED BY <1>5

\* A rows' list is empty when no place was picked.
LEMMA PickedRowsAre ==
    ASSUME NEW S, NEW rs, NEW n \in Nat, NEW places \in SUBSET (1 .. n),
           \A i \in places : rs[i] \in S
    PROVE  /\ Picked(rs, places) \in Seq(S)
           /\ ToSet(Picked(rs, places)) = {rs[i] : i \in places}
           /\ Picked(rs, places) = <<>> <=> places = {}
<1>1. PICK c, o : PickedBy(rs, places, c, o)
  BY PickedPlaces
<1>2. /\ c \in Nat /\ o \in [1 .. c -> places]
      /\ \A i \in places : \E m \in 1 .. c : o[m] = i
      /\ Picked(rs, places) = [m \in 1 .. c |-> rs[o[m]]]
  BY <1>1 DEF PickedBy
<1> DEFINE p == Picked(rs, places)
<1> HIDE DEF p
<1>3. DOMAIN p = 1 .. c /\ \A m \in 1 .. c : p[m] = rs[o[m]] /\ o[m] \in places
  BY <1>2 DEF p
<1>4. p \in Seq(S)
  <2>1. p = [m \in 1 .. c |-> rs[o[m]]]
    BY <1>2 DEF p
  <2>2. \A m \in 1 .. c : rs[o[m]] \in S
    BY <1>3
  <2>3. [m \in 1 .. c |-> rs[o[m]]] \in [1 .. c -> S]
    BY <2>2
  <2> QED BY <1>2, <2>1, <2>3
<1>5. ToSet(p) = {rs[i] : i \in places}
  <2>1. ASSUME NEW i \in places PROVE rs[i] \in ToSet(p)
    <3>1. PICK m \in 1 .. c : o[m] = i
      BY <1>2
    <3> QED BY <1>3, <3>1 DEF ToSet
  <2>2. ASSUME NEW x \in ToSet(p) PROVE x \in {rs[i] : i \in places}
    <3>1. PICK m \in 1 .. c : x = p[m]
      BY <1>3, <2>2 DEF ToSet
    <3> QED BY <1>3, <3>1
  <2> QED BY <2>1, <2>2
<1>6. Len(p) = c
  BY <1>2, <1>3, <1>4
<1>7. p = <<>> => c = 0
  BY <1>6
<1>8. c = 0 => p = <<>>
  BY <1>4, <1>6
<1>9. c = 0 <=> places = {}
  <2>1. c = 0 => places = {}
    <3>1. c = 0 => ~\E m \in 1 .. c : TRUE
      OBVIOUS
    <3> QED BY <1>2, <3>1
  <2>2. places = {} => c = 0
    <3>1. c # 0 => 1 \in 1 .. c
      BY <1>2
    <3> QED BY <1>3, <3>1
  <2> QED BY <2>1, <2>2
<1> QED BY <1>4, <1>5, <1>7, <1>8, <1>9 DEF p

-----------------------------------------------------------------------------
(* The Diff: the turn an event is in.                                      *)

\* The traces the agent can leave, and what their parse hands out: the same
\* events, each with the number of its turn.
Traced == trace \in Seq(TraceEvents)
Read == Parsed(trace)
ReadEvents ==
    {e \in [type : {"start", "prompt", "edit", "patch"}, n : Nat, path : Paths \union {NoText},
            word : Words \union {NoText}] : Written(e) => e.path \in Paths}

LEMMA ReadIs ==
    ASSUME Traced
    PROVE  /\ Read \in Seq(ReadEvents) /\ Len(Read) = Len(trace) /\ Len(trace) \in Nat
           /\ \A i \in 1 .. Len(trace) :
                /\ Read[i].type = trace[i].type /\ Read[i].path = trace[i].path
                /\ Read[i].word = trace[i].word /\ Read[i].n = TurnAt(i)
<1> DEFINE n == Len(trace)
           owns == [i \in DOMAIN trace |-> trace[i].n]
           stamps == Carried(owns)
           event(i) == [trace[i] EXCEPT !.n = stamps[i]]
<1>1. /\ n \in Nat /\ DOMAIN trace = 1 .. n
      /\ \A i \in 1 .. n :
           /\ trace[i] = TraceEvent(trace[i].type, trace[i].n, trace[i].path, trace[i].word)
           /\ trace[i].type \in {"start", "prompt", "edit", "patch"}
           /\ trace[i].n \in AnyNumber /\ trace[i].path \in Paths \union {NoText}
           /\ trace[i].word \in Words \union {NoText}
           /\ Written(trace[i]) => trace[i].path \in Paths
  BY DEF Traced, TraceEvents, TraceEvent, AnyNumber, Written
<1>2. owns \in Seq(AnyNumber) /\ Len(owns) = n
  BY <1>1
<1>3. \A i \in 1 .. n : stamps[i] = TurnAt(i) /\ stamps[i] \in Nat
  BY <1>2, CarriedIs DEF TurnAt
<1>4. Read = [i \in 1 .. n |-> event(i)]
  BY <1>1 DEF Read, Parsed
<1> HIDE DEF stamps
<1>5. \A i \in 1 .. n : /\ event(i) \in ReadEvents /\ event(i).n = stamps[i]
                        /\ event(i).type = trace[i].type /\ event(i).path = trace[i].path
                        /\ event(i).word = trace[i].word
  <2> TAKE i \in 1 .. n
  <2> DEFINE e == trace[i]
  <2>1. /\ e = [type |-> e.type, n |-> e.n, path |-> e.path, word |-> e.word]
        /\ e.type \in {"start", "prompt", "edit", "patch"} /\ e.path \in Paths \union {NoText}
        /\ e.word \in Words \union {NoText} /\ (Written(e) => e.path \in Paths)
    BY <1>1 DEF TraceEvent
  <2> HIDE DEF e
  <2>2. [e EXCEPT !.n = stamps[i]] = [type |-> e.type, n |-> stamps[i], path |-> e.path, word |-> e.word]
    BY <2>1
  <2>3. event(i) = [type |-> e.type, n |-> stamps[i], path |-> e.path, word |-> e.word]
    BY <2>2 DEF e
  <2> QED BY <1>3, <2>1, <2>3 DEF ReadEvents, e, Written
<1> HIDE DEF event
<1>6. \A i \in 1 .. n : Read[i] = event(i)
  BY <1>4
<1>7. Read \in Seq(ReadEvents) /\ Len(Read) = n
  BY <1>1, <1>4, <1>5
<1> QED BY <1>1, <1>3, <1>5, <1>6, <1>7

LEMMA ReadPlaces ==
    ASSUME Traced
    PROVE  /\ Len(Read) \in Nat /\ DOMAIN Read = 1 .. Len(Read)
           /\ \A i \in 1 .. Len(Read) : Read[i] \in ReadEvents
BY ReadIs

LEMMA ReadTypes ==
    ASSUME NEW e \in ReadEvents
    PROVE  /\ e.type \in {"start", "prompt", "edit", "patch"} /\ e.n \in Nat
           /\ Written(e) => e.path \in Paths
BY DEF ReadEvents

(* The buckets of turns.                                                   *)

FilingOf(evs, n, f) ==
    f = [i \in 0 .. n |-> IF i = 0 THEN NothingFiled ELSE Filed(f[i - 1], evs[i], i)]

LEMMA FilingOne ==
    ASSUME NEW evs, NEW n \in Nat, NEW f, FilingOf(evs, n, f)
    PROVE  /\ DOMAIN f = 0 .. n /\ f[0] = NothingFiled
           /\ \A i \in 1 .. n : f[i] = Filed(f[i - 1], evs[i], i)
<1> DEFINE g == [i \in 0 .. n |-> IF i = 0 THEN NothingFiled ELSE Filed(f[i - 1], evs[i], i)]
<1>1. f = g
  BY DEF FilingOf
<1>2. /\ DOMAIN g = 0 .. n /\ g[0] = NothingFiled
      /\ \A i \in 1 .. n : g[i] = Filed(f[i - 1], evs[i], i)
  OBVIOUS
<1> HIDE DEF g
<1> QED BY <1>1, <1>2

LEMMA FilingExists == ASSUME NEW evs, NEW n \in Nat PROVE \E f : FilingOf(evs, n, f)
<1> DEFINE bad == {m \in Nat : ~\E f : FilingOf(evs, m, f)}
<1>1. ASSUME bad # {} PROVE FALSE
  <2>1. PICK m \in bad : \A k \in bad : m <= k
    BY <1>1, LeastNatural
  <2>2. CASE m = 0
    <3> DEFINE f == [i \in 0 .. 0 |-> NothingFiled]
    <3>1. f = [i \in 0 .. 0 |-> IF i = 0 THEN NothingFiled ELSE Filed(f[i - 1], evs[i], i)]
      OBVIOUS
    <3>2. FilingOf(evs, 0, f)
      BY <3>1 DEF FilingOf
    <3> QED BY <2>1, <2>2, <3>2
  <2>3. CASE m # 0
    <3>1. m - 1 \in Nat /\ m - 1 \notin bad
      BY <2>1, <2>3
    <3>2. PICK g : FilingOf(evs, m - 1, g)
      BY <3>1
    <3> DEFINE f == [i \in 0 .. m |-> IF i = m THEN Filed(g[m - 1], evs[m], m) ELSE g[i]]
    <3>3. g[0] = NothingFiled /\ \A i \in 1 .. m - 1 : g[i] = Filed(g[i - 1], evs[i], i)
      BY <3>1, <3>2, FilingOne
    <3>4. \A i \in 0 .. m - 1 : f[i] = g[i]
      BY <2>1
    <3>5. f[m] = Filed(g[m - 1], evs[m], m)
      BY <2>1
    <3>6. \A i \in 0 .. m : f[i] = IF i = 0 THEN NothingFiled ELSE Filed(f[i - 1], evs[i], i)
      <4> TAKE i \in 0 .. m
      <4> HIDE DEF f
      <4>1. CASE i = 0
        BY <2>1, <2>3, <3>3, <3>4, <4>1
      <4>2. CASE i = m
        BY <2>1, <2>3, <3>4, <3>5, <4>2
      <4>3. CASE i \in 1 .. m - 1
        <5>1. i \in 0 .. m - 1 /\ i - 1 \in 0 .. m - 1 /\ i # 0
          BY <2>1, <4>3
        <5> QED BY <3>3, <3>4, <4>3, <5>1
      <4> QED BY <2>1, <4>1, <4>2, <4>3
    <3>7. f = [i \in 0 .. m |-> f[i]]
      OBVIOUS
    <3> HIDE DEF f
    <3>8. FilingOf(evs, m, f)
      BY <3>6, <3>7 DEF FilingOf
    <3> QED BY <2>1, <3>8
  <2> QED BY <2>2, <2>3
<1> QED BY <1>1

InTurn(i, turn) == {j \in 1 .. i : TurnAt(j) = turn}
Buckets == [turn : Nat, at : SUBSET Nat]

\* Each turn has one bucket, with the events of the turn among the first i.
FilingFits(acc, i) ==
    /\ acc.buckets \in Seq(Buckets)
    /\ \A k, l \in DOMAIN acc.buckets : acc.buckets[k].turn = acc.buckets[l].turn => k = l
    /\ \A k \in DOMAIN acc.buckets : acc.buckets[k].at = InTurn(i, acc.buckets[k].turn)
    /\ \A j \in 1 .. i : \E k \in DOMAIN acc.buckets : acc.buckets[k].turn = TurnAt(j)

LEMMA InBucketFits ==
    ASSUME NEW bs \in Seq(Buckets), NEW i \in Nat, NEW turn \in Nat, turn = TurnAt(i + 1),
           \A k, l \in DOMAIN bs : bs[k].turn = bs[l].turn => k = l,
           \A k \in DOMAIN bs : bs[k].at = InTurn(i, bs[k].turn),
           \A j \in 1 .. i : \E k \in DOMAIN bs : bs[k].turn = TurnAt(j)
    PROVE  FilingFits([current |-> turn, buckets |-> InBucket(bs, turn, i + 1)], i + 1)
<1> DEFINE cs == InBucket(bs, turn, i + 1)
           n == Len(bs)
<1>1. n \in Nat /\ DOMAIN bs = 1 .. n /\ \A k \in 1 .. n : bs[k] \in Buckets
  OBVIOUS
<1>2. 1 .. i + 1 = (1 .. i) \union {i + 1}
  OBVIOUS
<1>3. /\ InTurn(i + 1, turn) = InTurn(i, turn) \union {i + 1}
      /\ \A t : t # turn => InTurn(i + 1, t) = InTurn(i, t)
  BY <1>2 DEF InTurn
<1>4. \A j \in 1 .. i + 1 : j = i + 1 \/ j \in 1 .. i
  OBVIOUS
<1>5. CASE \E k \in 1 .. n : bs[k].turn = turn
  <2>1. PICK k0 \in 1 .. n : bs[k0].turn = turn
    BY <1>5
  <2> DEFINE b == [turn |-> turn, at |-> InTurn(i + 1, turn)]
  <2>2. cs = [k \in 1 .. n |-> IF bs[k].turn = turn
                               THEN [turn |-> turn, at |-> bs[k].at \union {i + 1}] ELSE bs[k]]
    <3>1. DOMAIN bs = 1 .. n /\ \E k \in DOMAIN bs : bs[k].turn = turn
      BY <1>1, <1>5
    <3> QED BY <3>1, Zenon DEF InBucket
  <2>3. DOMAIN cs = 1 .. n
    BY <2>2
  <2>4. ASSUME NEW k \in 1 .. n, bs[k].turn = turn PROVE cs[k] = b
    <3>1. cs[k] = [turn |-> turn, at |-> bs[k].at \union {i + 1}]
      BY <2>2, <2>4
    <3>2. bs[k].at = InTurn(i, turn)
      BY <1>1, <2>4
    <3> QED BY <1>3, <3>1, <3>2
  <2>5. \A k \in 1 .. n : bs[k].turn # turn => cs[k] = bs[k]
    BY <2>2
  <2>6. b \in Buckets /\ b.turn = turn /\ b.at = InTurn(i + 1, turn)
    BY DEF Buckets, InTurn
  <2> HIDE DEF cs, n, b
  <2>7. \A k \in 1 .. n : /\ cs[k] \in Buckets /\ cs[k].turn = bs[k].turn
                          /\ cs[k].at = InTurn(i + 1, cs[k].turn)
    BY <1>1, <1>3, <2>4, <2>5, <2>6
  <2>8. cs \in Seq(Buckets)
    <3>1. cs = [k \in 1 .. n |-> cs[k]]
      BY <2>2
    <3> QED BY <1>1, <2>7, <3>1
  <2>9. \A j \in 1 .. i + 1 : \E k \in DOMAIN cs : cs[k].turn = TurnAt(j)
    <3> TAKE j \in 1 .. i + 1
    <3>1. CASE j = i + 1
      BY <2>1, <2>3, <2>7, <3>1
    <3>2. CASE j \in 1 .. i
      BY <1>1, <2>3, <2>7, <3>2
    <3> QED BY <1>4, <3>1, <3>2
  <2>10. \A k, l \in DOMAIN cs : cs[k].turn = cs[l].turn => k = l
    BY <1>1, <2>3, <2>7
  <2> QED BY <2>3, <2>7, <2>8, <2>9, <2>10 DEF FilingFits, cs
<1>6. CASE ~\E k \in 1 .. n : bs[k].turn = turn
  <2> DEFINE b == [turn |-> turn, at |-> {i + 1}]
  <2>1. cs = Append(bs, b)
    BY <1>1, <1>6 DEF InBucket
  <2>2. b \in Buckets /\ b.turn = turn /\ b.at = {i + 1}
    BY DEF Buckets
  <2> HIDE DEF b, cs
  <2>3. /\ cs \in Seq(Buckets) /\ DOMAIN cs = 1 .. n + 1 /\ cs[n + 1] = b
        /\ \A k \in 1 .. n : cs[k] = bs[k]
    BY <1>1, <2>1, <2>2
  <2> HIDE DEF n
  <2>4. \A k \in 1 .. n + 1 : k = n + 1 \/ k \in 1 .. n
    BY <1>1
  <2>5. InTurn(i, turn) = {}
    BY <1>1, <1>6 DEF InTurn
  <2>6. \A k \in 1 .. n + 1 : cs[k].at = InTurn(i + 1, cs[k].turn)
    <3> TAKE k \in 1 .. n + 1
    <3>1. CASE k = n + 1
      BY <1>3, <2>2, <2>3, <2>5, <3>1
    <3>2. CASE k \in 1 .. n
      BY <1>1, <1>3, <1>6, <2>3, <3>2
    <3> QED BY <2>4, <3>1, <3>2
  <2>7. n + 1 \in 1 .. n + 1 /\ \A k \in 1 .. n : k \in 1 .. n + 1
    BY <1>1
  <2>8. \A j \in 1 .. i + 1 : \E k \in 1 .. n + 1 : cs[k].turn = TurnAt(j)
    <3> TAKE j \in 1 .. i + 1
    <3>1. CASE j = i + 1
      BY <2>2, <2>3, <2>7, <3>1
    <3>2. CASE j \in 1 .. i
      <4>1. PICK k \in 1 .. n : bs[k].turn = TurnAt(j)
        BY <1>1, <3>2
      <4> QED BY <2>3, <2>7, <4>1
    <3> QED BY <1>4, <3>1, <3>2
  <2>9. \A k, l \in 1 .. n + 1 : cs[k].turn = cs[l].turn => k = l
    <3> TAKE k, l \in 1 .. n + 1
    <3>1. CASE k \in 1 .. n /\ l \in 1 .. n
      BY <1>1, <2>3, <3>1
    <3>2. CASE k = n + 1 \/ l = n + 1
      BY <1>6, <2>2, <2>3, <2>4, <3>2
    <3> QED BY <2>4, <3>1, <3>2
  <2> QED BY <2>3, <2>6, <2>8, <2>9 DEF FilingFits, cs
<1> QED BY <1>5, <1>6

LEMMA FiledFits ==
    ASSUME Traced, NEW i \in Nat, i + 1 \in 1 .. Len(Read), NEW acc, FilingFits(acc, i)
    PROVE  FilingFits(Filed(acc, Read[i + 1], i + 1), i + 1)
<1> DEFINE turn == Read[i + 1].n
<1>2. turn = TurnAt(i + 1) /\ turn \in Nat
  BY ReadIs, ReadPlaces, ReadTypes
<1>1. Filed(acc, Read[i + 1], i + 1) = [current |-> turn, buckets |-> InBucket(acc.buckets, turn, i + 1)]
  BY <1>2, UnnumberedAssumption DEF Filed
<1> HIDE DEF turn
<1>4. /\ acc.buckets \in Seq(Buckets)
      /\ \A k, l \in DOMAIN acc.buckets : acc.buckets[k].turn = acc.buckets[l].turn => k = l
      /\ \A k \in DOMAIN acc.buckets : acc.buckets[k].at = InTurn(i, acc.buckets[k].turn)
      /\ \A j \in 1 .. i : \E k \in DOMAIN acc.buckets : acc.buckets[k].turn = TurnAt(j)
  BY DEF FilingFits
<1> DEFINE bs == acc.buckets
<1> HIDE DEF bs
<1>5. FilingFits([current |-> turn, buckets |-> InBucket(bs, turn, i + 1)], i + 1)
  BY <1>2, <1>4, InBucketFits DEF bs
<1> QED BY <1>1, <1>5 DEF bs

LEMMA FilingIs ==
    ASSUME Traced
    PROVE  FilingFits(Filing(Read)[Len(Read)], Len(Read))
<1> DEFINE n == Len(Read)
           f == CHOOSE g : FilingOf(Read, n, g)
<1>1. n \in Nat
  BY ReadPlaces
<1>2. FilingOf(Read, n, f)
  BY <1>1, FilingExists
<1>3. Filing(Read) = f
  BY DEF Filing, FilingOf
<1> HIDE DEF f, n
<1>4. f[0] = NothingFiled /\ \A i \in 1 .. n : f[i] = Filed(f[i - 1], Read[i], i)
  BY <1>1, <1>2, FilingOne
<1>5. FilingFits(NothingFiled, 0)
  <2>1. NothingFiled.buckets = <<>>
    BY DEF NothingFiled
  <2> QED BY <2>1 DEF FilingFits
<1> DEFINE bad == {m \in 0 .. n : ~FilingFits(f[m], m)}
<1>6. ASSUME bad # {} PROVE FALSE
  <2>1. bad \subseteq Nat
    BY <1>1
  <2>2. PICK m \in bad : \A k \in bad : m <= k
    BY <1>6, <2>1, LeastNatural
  <2>3. CASE m = 0
    BY <1>4, <1>5, <2>2, <2>3
  <2>4. CASE m # 0
    <3>1. m - 1 \in Nat /\ m - 1 \in 0 .. n /\ m \in 1 .. n /\ (m - 1) + 1 = m
      BY <1>1, <2>2, <2>4
    <3>2. m - 1 \notin bad
      BY <2>2, <3>1
    <3>3. FilingFits(f[m - 1], m - 1)
      BY <3>1, <3>2
    <3>4. FilingFits(Filed(f[m - 1], Read[(m - 1) + 1], (m - 1) + 1), (m - 1) + 1)
      BY <3>1, <3>3, FiledFits DEF n
    <3> QED BY <1>4, <2>2, <3>1, <3>4
  <2> QED BY <2>3, <2>4
<1> QED BY <1>1, <1>3, <1>6 DEF n

(* The files of a point.                                                   *)

WrittenIn(at) == {j \in at : Written(Read[j])}
EditWords(at, p) ==
    {Read[j].word : j \in {i \in at : Read[i].type = "edit" /\ Read[i].path = p}}
PathFiles(at, p) == Grouped(Read, at, p) \o Extras(Read, at, p)

LEMMA PickedEvents ==
    ASSUME Traced, NEW places \in SUBSET (1 .. Len(Read))
    PROVE  /\ Picked(Read, places) \in Seq(ReadEvents)
           /\ ToSet(Picked(Read, places)) = {Read[j] : j \in places}
           /\ Picked(Read, places) = <<>> <=> places = {}
<1> DEFINE n == Len(Read)
           S == ReadEvents
<1>1. n \in Nat /\ places \in SUBSET (1 .. n) /\ \A j \in places : Read[j] \in S
  BY ReadPlaces
<1> HIDE DEF n, S
<1>2. /\ Picked(Read, places) \in Seq(S)
      /\ ToSet(Picked(Read, places)) = {Read[j] : j \in places}
      /\ Picked(Read, places) = <<>> <=> places = {}
  BY <1>1, PickedRowsAre
<1> QED BY <1>2 DEF S

LEMMA PathFilesAre ==
    ASSUME Traced, NEW at \in SUBSET (1 .. Len(Read)), NEW p
    PROVE  \/ /\ PathFiles(at, p) = <<>>
              /\ ~\E j \in WrittenIn(at) : Read[j].path = p
           \/ /\ \E h : /\ PathFiles(at, p) = <<h>> /\ h.path = p
                        /\ EditWords(at, p) \subseteq UNION ToSet(h.lines)
              /\ \E j \in WrittenIn(at) : Read[j].path = p
<1> DEFINE E == ToPath(Read, at, "edit", p)
           C == ToPath(Read, at, "patch", p)
           edits == Picked(Read, E)
           G == Grouped(Read, at, p)
           X == Extras(Read, at, p)
<1>1. Len(Read) \in Nat /\ \A j \in 1 .. Len(Read) : Read[j] \in ReadEvents
  BY ReadPlaces
<1>2. E \in SUBSET (1 .. Len(Read)) /\ C \in SUBSET (1 .. Len(Read))
  BY DEF ToPath
<1>3. \A j \in E : Read[j] \in ReadEvents
  BY <1>1, <1>2
<1>4. /\ edits \in Seq(ReadEvents) /\ ToSet(edits) = {Read[j] : j \in E}
      /\ edits = <<>> <=> E = {}
  BY <1>2, PickedEvents
<1>5. /\ \A j \in E : j \in WrittenIn(at) /\ Read[j].path = p
      /\ \A j \in C : j \in WrittenIn(at) /\ Read[j].path = p
      /\ \A j \in WrittenIn(at) : Read[j].path = p => j \in E \/ j \in C
  BY DEF ToPath, WrittenIn, Written
<1>6. EditWords(at, p) = {Read[j].word : j \in E}
  BY DEF EditWords, ToPath
<1>7. CASE E # {}
  <2> DEFINE flat == [n \in DOMAIN edits |-> Patch(edits[n])]
             h == Hunk(p, FlattenSeq(flat))
             S == UNION {{{e.path}, {e.word}} : e \in ReadEvents}
  <2>1. G = <<h>>
    BY <1>4, <1>7 DEF Grouped
  <2>2. X = <<>>
    BY <2>1 DEF Extras
  <2>3. PathFiles(at, p) = <<h>>
    <3> HIDE DEF h
    <3> QED BY <2>1, <2>2 DEF PathFiles
  <2>4. flat \in Seq(Seq(S))
    <3>1. \A e \in ReadEvents : Patch(e) \in Seq(S)
      <4> TAKE e \in ReadEvents
      <4>1. {e.path} \in S /\ {e.word} \in S
        OBVIOUS
      <4> HIDE DEF S
      <4> QED BY <4>1 DEF Patch
    <3> HIDE DEF edits, E, S
    <3>2. Len(edits) \in Nat /\ DOMAIN edits = 1 .. Len(edits) /\ \A n \in DOMAIN edits : edits[n] \in ReadEvents
      BY <1>4
    <3> QED BY <3>1, <3>2
  <2>5. ToSet(FlattenSeq(flat)) = UNION {ToSet(flat[k]) : k \in 1 .. Len(flat)}
    <3> HIDE DEF flat, S
    <3> QED BY <2>4, FlattenFits DEF FlatFits
  <2>6. \A j \in E : Read[j].word \in UNION ToSet(FlattenSeq(flat))
    <3> TAKE j \in E
    <3>1. PICK n \in DOMAIN edits : edits[n] = Read[j]
      <4> HIDE DEF edits, E
      <4> QED BY <1>4 DEF ToSet
    <3>2. n \in DOMAIN flat /\ flat[n] = Patch(Read[j])
      BY <3>1
    <3>3. {Read[j].word} \in ToSet(Patch(Read[j]))
      <4>1. Patch(Read[j])[2] = {Read[j].word} /\ 2 \in DOMAIN Patch(Read[j])
        BY DEF Patch
      <4> QED BY <4>1 DEF ToSet
    <3> HIDE DEF flat, edits, E, S
    <3>4. DOMAIN flat = 1 .. Len(flat)
      BY <2>4
    <3> QED BY <2>5, <3>2, <3>3, <3>4
  <2>7. h.path = p /\ h.lines = FlattenSeq(flat)
    BY DEF Hunk
  <2> HIDE DEF flat, h, edits, E, S
  <2>8. EditWords(at, p) \subseteq UNION ToSet(h.lines)
    BY <1>6, <2>6, <2>7
  <2>9. \E j \in WrittenIn(at) : Read[j].path = p
    BY <1>5, <1>7
  <2> QED BY <2>3, <2>7, <2>8, <2>9
<1>8. CASE E = {} /\ C # {}
  <2> DEFINE h == Hunk(p, Patch(Read[Min(C)]))
  <2>1. G = <<>>
    BY <1>4, <1>8 DEF Grouped
  <2>2. X = <<h>>
    BY <1>8, <2>1 DEF Extras
  <2>3. PathFiles(at, p) = <<h>>
    <3> HIDE DEF h
    <3> QED BY <2>1, <2>2 DEF PathFiles
  <2>4. h.path = p
    BY DEF Hunk
  <2> HIDE DEF h
  <2>5. EditWords(at, p) = {}
    BY <1>6, <1>8
  <2> HIDE DEF E, C
  <2>6. \E j \in WrittenIn(at) : Read[j].path = p
    BY <1>5, <1>8
  <2> QED BY <2>3, <2>4, <2>5, <2>6
<1>9. CASE E = {} /\ C = {}
  <2>1. G = <<>>
    BY <1>4, <1>9 DEF Grouped
  <2>2. X = <<>>
    BY <1>9, <2>1 DEF Extras
  <2>3. PathFiles(at, p) = <<>>
    BY <2>1, <2>2 DEF PathFiles
  <2> HIDE DEF E, C
  <2> QED BY <1>5, <1>9, <2>3
<1> QED BY <1>7, <1>8, <1>9

\* The files of a point: of each path written there one, with its edits.
FilesHold(fs, at) ==
    /\ Len(fs) \in Nat /\ DOMAIN fs = 1 .. Len(fs)
    /\ \A f \in DOMAIN fs : \E j \in WrittenIn(at) : Read[j].path = fs[f].path
    /\ \A j \in WrittenIn(at) : \E f \in DOMAIN fs : fs[f].path = Read[j].path
    /\ \A f, g \in DOMAIN fs : fs[f].path = fs[g].path => f = g
    /\ \A f \in DOMAIN fs : EditWords(at, fs[f].path) \subseteq UNION ToSet(fs[f].lines)

LEMMA FilesAre ==
    ASSUME Traced, NEW at \in SUBSET (1 .. Len(Read))
    PROVE  FilesHold(Files(Read, at), at)
<1> DEFINE m == Len(PathOrder)
           seqs == [k \in DOMAIN PathOrder |-> PathFiles(at, PathOrder[k])]
           S == UNION {ToSet(PathFiles(at, p)) : p \in Paths}
           fs == Files(Read, at)
<1>1. /\ m \in Nat /\ DOMAIN PathOrder = 1 .. m
      /\ \A k \in 1 .. m : PathOrder[k] \in Paths
      /\ \A k, l \in 1 .. m : PathOrder[k] = PathOrder[l] => k = l
  BY PathOrderAssumption DEF Paths
<1>2. \A p \in Paths : \E k \in 1 .. m : PathOrder[k] = p
  BY <1>1 DEF Paths, ToSet
<1>3. fs = FlattenSeq(seqs)
  BY DEF Files, PathFiles
<1>4. \A p : \/ PathFiles(at, p) = <<>> /\ ~\E j \in WrittenIn(at) : Read[j].path = p
             \/ /\ \E h : /\ PathFiles(at, p) = <<h>> /\ h.path = p
                          /\ EditWords(at, p) \subseteq UNION ToSet(h.lines)
                /\ \E j \in WrittenIn(at) : Read[j].path = p
  BY PathFilesAre
<1>5. \A p : /\ Once(PathFiles(at, p))
             /\ \A h \in ToSet(PathFiles(at, p)) :
                   /\ h.path = p /\ EditWords(at, p) \subseteq UNION ToSet(h.lines)
                   /\ \E j \in WrittenIn(at) : Read[j].path = p
             /\ \A g, h \in ToSet(PathFiles(at, p)) : g = h
             /\ (\E j \in WrittenIn(at) : Read[j].path = p) => ToSet(PathFiles(at, p)) # {}
             /\ PathFiles(at, p) \in Seq(ToSet(PathFiles(at, p)))
  <2> TAKE p
  <2>1. CASE PathFiles(at, p) = <<>>
    <3>1. Once(<<>>) /\ ToSet(<<>>) = {}
      BY DEF Once, ToSet
    <3> QED BY <1>4, <2>1, <3>1
  <2>2. CASE PathFiles(at, p) # <<>>
    <3>1. PICK h : /\ PathFiles(at, p) = <<h>> /\ h.path = p
                   /\ EditWords(at, p) \subseteq UNION ToSet(h.lines)
      BY <1>4, <2>2
    <3>2. \E j \in WrittenIn(at) : Read[j].path = p
      BY <1>4, <2>2
    <3>3. Once(<<h>>) /\ ToSet(<<h>>) = {h} /\ <<h>> \in Seq({h})
      BY DEF Once, ToSet
    <3> QED BY <3>1, <3>2, <3>3
  <2> QED BY <2>1, <2>2
<1> HIDE DEF fs
<1>6. DOMAIN seqs = 1 .. m /\ \A k \in 1 .. m : seqs[k] = PathFiles(at, PathOrder[k])
  BY <1>1
<1>7. seqs \in Seq(Seq(S))
  <2>1. \A k \in 1 .. m : PathFiles(at, PathOrder[k]) \in Seq(S)
    <3> TAKE k \in 1 .. m
    <3> DEFINE pf == PathFiles(at, PathOrder[k])
    <3>1. ToSet(pf) \subseteq S
      BY <1>1
    <3>2. pf \in Seq(ToSet(pf))
      BY <1>5
    <3> HIDE DEF pf, S
    <3>3. pf \in Seq(S)
      BY <3>1, <3>2
    <3> QED BY <3>3 DEF pf
  <2> HIDE DEF S
  <2> QED BY <1>1, <2>1
<1> HIDE DEF S, seqs
<1>8. Len(seqs) = m
  BY <1>1, <1>6, <1>7
<1>9. Apart(seqs, m)
  <2>1. \A k \in 1 .. m : Once(seqs[k])
    BY <1>5, <1>6
  <2>2. ASSUME NEW k \in 1 .. m, NEW l \in 1 .. m, k # l
        PROVE  ToSet(seqs[k]) \cap ToSet(seqs[l]) = {}
    <3>1. PathOrder[k] # PathOrder[l]
      BY <1>1, <2>2
    <3>2. /\ \A h \in ToSet(seqs[k]) : h.path = PathOrder[k]
          /\ \A h \in ToSet(seqs[l]) : h.path = PathOrder[l]
      BY <1>5, <1>6
    <3> QED BY <3>1, <3>2
  <2> QED BY <2>1, <2>2 DEF Apart
<1>10. /\ fs \in Seq(S) /\ Once(fs)
       /\ ToSet(fs) = UNION {ToSet(seqs[k]) : k \in 1 .. m}
  BY <1>3, <1>7, <1>8, <1>9, FlattenFits DEF FlatFits
<1>11. Len(fs) \in Nat /\ DOMAIN fs = 1 .. Len(fs)
  BY <1>10
<1>12. \A f \in DOMAIN fs : \E k \in 1 .. m : fs[f] \in ToSet(PathFiles(at, PathOrder[k]))
  <2> TAKE f \in DOMAIN fs
  <2>1. fs[f] \in ToSet(fs)
    BY DEF ToSet
  <2> QED BY <1>6, <1>10, <2>1
<1>13. \A f \in DOMAIN fs : /\ \E j \in WrittenIn(at) : Read[j].path = fs[f].path
                            /\ EditWords(at, fs[f].path) \subseteq UNION ToSet(fs[f].lines)
  BY <1>5, <1>12
<1>14. ASSUME NEW f \in DOMAIN fs, NEW g \in DOMAIN fs, fs[f].path = fs[g].path PROVE f = g
  <2>1. PICK k \in 1 .. m : fs[f] \in ToSet(PathFiles(at, PathOrder[k]))
    BY <1>12
  <2>2. PICK l \in 1 .. m : fs[g] \in ToSet(PathFiles(at, PathOrder[l]))
    BY <1>12
  <2>3. PathOrder[k] = PathOrder[l]
    BY <1>5, <1>14, <2>1, <2>2
  <2>4. fs[f] = fs[g]
    BY <1>5, <2>1, <2>2, <2>3
  <2> QED BY <1>10, <2>4 DEF Once
<1>15. ASSUME NEW j \in WrittenIn(at) PROVE \E f \in DOMAIN fs : fs[f].path = Read[j].path
  <2>1. Read[j].path \in Paths
    BY ReadPlaces, ReadTypes DEF WrittenIn
  <2>2. PICK k \in 1 .. m : PathOrder[k] = Read[j].path
    BY <1>2, <2>1
  <2>3. PICK h \in ToSet(seqs[k]) : h.path = Read[j].path
    BY <1>5, <1>6, <2>2
  <2>4. h \in ToSet(fs)
    BY <1>10, <2>3
  <2> QED BY <2>3, <2>4 DEF ToSet
<1> QED BY <1>11, <1>13, <1>14, <1>15 DEF FilesHold, fs

PairsWritten == {<<TurnAt(i), Read[i].path>> : i \in WrittenIn(DOMAIN Read)}

\* The points rebuilt from the tool calls are the buckets that have files.
PointsFit(ps) ==
    /\ \A k, l \in DOMAIN ps : ps[k].key = ps[l].key => k = l
    /\ \A k \in DOMAIN ps : /\ FilesHold(ps[k].files, InTurn(Len(Read), ps[k].key))
                            /\ ps[k].prompt = EditsContext(Read, InTurn(Len(Read), ps[k].key))
    /\ \A j \in WrittenIn(DOMAIN Read) : \E k \in DOMAIN ps : ps[k].key = TurnAt(j)

LEMMA PointsAre == ASSUME Traced PROVE PointsFit(TurnPoints(Read))
<1> DEFINE n == Len(Read)
           bs == Filing(Read)[n].buckets
           all == [k \in DOMAIN bs |->
                      Point("turn", bs[k].turn, Files(Read, bs[k].at),
                            EditsContext(Read, bs[k].at))]
           kept == {k \in DOMAIN all : all[k].files # <<>>}
           ps == TurnPoints(Read)
<1>1. n \in Nat /\ DOMAIN Read = 1 .. n
  BY ReadPlaces
<1>2. /\ bs \in Seq(Buckets)
      /\ \A k, l \in DOMAIN bs : bs[k].turn = bs[l].turn => k = l
      /\ \A k \in DOMAIN bs : bs[k].at = InTurn(n, bs[k].turn)
      /\ \A j \in 1 .. n : \E k \in DOMAIN bs : bs[k].turn = TurnAt(j)
  BY FilingIs DEF FilingFits
<1>3. ps = Picked(all, kept)
  BY DEF TurnPoints
<1> HIDE DEF bs, ps
<1>4. /\ DOMAIN all = DOMAIN bs
      /\ \A k \in DOMAIN bs :
           /\ all[k].key = bs[k].turn /\ all[k].files = Files(Read, bs[k].at)
           /\ all[k].prompt = EditsContext(Read, bs[k].at)
  BY DEF Point
<1>5. Len(bs) \in Nat /\ DOMAIN bs = 1 .. Len(bs)
  BY <1>2
<1> HIDE DEF all
<1>6. kept \in SUBSET (1 .. Len(bs))
  BY <1>4, <1>5
<1>7. PICK c, o : PickedBy(all, kept, c, o)
  <2> HIDE DEF kept
  <2> QED BY <1>5, <1>6, PickedPlaces
<1>8. /\ c \in Nat /\ o \in [1 .. c -> kept]
      /\ \A i \in kept : \E m \in 1 .. c : o[m] = i
      /\ \A l, m \in 1 .. c : o[l] = o[m] => l = m
      /\ ps = [m \in 1 .. c |-> all[o[m]]]
  BY <1>3, <1>7 DEF PickedBy
<1>9. /\ DOMAIN ps = 1 .. c
      /\ \A m \in 1 .. c : ps[m] = all[o[m]] /\ o[m] \in DOMAIN bs /\ o[m] \in kept
  BY <1>4, <1>8
<1>10. \A k \in DOMAIN bs : FilesHold(Files(Read, bs[k].at), bs[k].at)
  <2> TAKE k \in DOMAIN bs
  <2>1. bs[k].at \in SUBSET (1 .. Len(Read))
    BY <1>2 DEF InTurn
  <2> QED BY <2>1, FilesAre
<1>11. ASSUME NEW k \in DOMAIN ps, NEW l \in DOMAIN ps, ps[k].key = ps[l].key PROVE k = l
  <2>1. bs[o[k]].turn = bs[o[l]].turn
    BY <1>4, <1>9, <1>11
  <2>2. o[k] = o[l]
    BY <1>2, <1>9, <2>1
  <2> QED BY <1>8, <1>9, <2>2
<1>12. ASSUME NEW k \in DOMAIN ps
       PROVE  /\ FilesHold(ps[k].files, InTurn(Len(Read), ps[k].key))
              /\ ps[k].prompt = EditsContext(Read, InTurn(Len(Read), ps[k].key))
  <2> DEFINE b == bs[o[k]]
  <2>1. o[k] \in DOMAIN bs /\ ps[k] = all[o[k]]
    BY <1>9
  <2>2. ps[k].key = b.turn /\ ps[k].files = Files(Read, b.at) /\ ps[k].prompt = EditsContext(Read, b.at)
    BY <1>4, <2>1
  <2>3. b.at = InTurn(Len(Read), b.turn)
    BY <1>2, <2>1
  <2>4. FilesHold(Files(Read, b.at), b.at)
    BY <1>10, <2>1
  <2> HIDE DEF b
  <2> QED BY <2>2, <2>3, <2>4
<1>13. ASSUME NEW j \in WrittenIn(DOMAIN Read) PROVE \E k \in DOMAIN ps : ps[k].key = TurnAt(j)
  <2>1. j \in 1 .. n
    BY <1>1 DEF WrittenIn
  <2>2. PICK i \in DOMAIN bs : bs[i].turn = TurnAt(j)
    BY <1>2, <2>1
  <2>3. j \in WrittenIn(bs[i].at)
    BY <1>2, <2>1, <2>2 DEF WrittenIn, InTurn
  <2>4. \E f \in DOMAIN Files(Read, bs[i].at) : TRUE
    BY <1>10, <2>3 DEF FilesHold
  <2>5. all[i].files # <<>>
    BY <1>4, <2>4
  <2>6. PICK m \in 1 .. c : o[m] = i
    BY <1>4, <1>8, <2>5
  <2> QED BY <1>4, <1>9, <2>2, <2>6
<1> QED BY <1>11, <1>12, <1>13 DEF PointsFit, ps

\* WritesAreListed, of the events as they are read.
ReadListed ==
    LET points == TurnPoints(Read)
        pairs == {<<TurnAt(i), Read[i].path>> : i \in WrittenIn(DOMAIN Read)}
    IN /\ \A w \in pairs :
             /\ Cardinality(ListedIn(points, w[1], w[2])) = 1
             /\ \A at \in ListedIn(points, w[1], w[2]) :
                   EditWords(InTurn(Len(Read), w[1]), w[2])
                     \subseteq UNION ToSet(points[at[1]].files[at[2]].lines)
       /\ \A k \in DOMAIN points :
             LET said == {i \in DOMAIN Read :
                            Read[i].type = "prompt" /\ TurnAt(i) = points[k].key}
             IN /\ \A f \in DOMAIN points[k].files :
                      <<points[k].key, points[k].files[f].path>> \in pairs
                /\ points[k].prompt = IF said = {} THEN NoText ELSE Read[Max(said)].word

LEMMA WritesRead == ASSUME Traced PROVE ReadListed
<1> DEFINE n == Len(Read)
           ps == TurnPoints(Read)
           pairs == {<<TurnAt(i), Read[i].path>> : i \in WrittenIn(DOMAIN Read)}
<1>1. n \in Nat /\ DOMAIN Read = 1 .. n
  BY ReadPlaces
<1>2. PointsFit(ps)
  BY PointsAre
<1> HIDE DEF ps
<1>3. \A k \in DOMAIN ps : FilesHold(ps[k].files, InTurn(n, ps[k].key))
  BY <1>2 DEF PointsFit
<1>4. ASSUME NEW w \in pairs
      PROVE  /\ Cardinality(ListedIn(ps, w[1], w[2])) = 1
             /\ \A at \in ListedIn(ps, w[1], w[2]) :
                   EditWords(InTurn(n, w[1]), w[2]) \subseteq UNION ToSet(ps[at[1]].files[at[2]].lines)
  <2>1. PICK i \in WrittenIn(DOMAIN Read) : w = <<TurnAt(i), Read[i].path>>
    BY <1>4 DEF WrittenIn
  <2>2. w[1] = TurnAt(i) /\ w[2] = Read[i].path
    BY <2>1
  <2> DEFINE t == TurnAt(i)
             p == Read[i].path
             listed0 == ListedIn(ps, t, p)
  <2>3. PICK k \in DOMAIN ps : ps[k].key = t
    BY <1>2 DEF PointsFit
  <2>4. FilesHold(ps[k].files, InTurn(n, t))
    BY <1>3, <2>3
  <2>5. i \in WrittenIn(InTurn(n, t))
    BY <1>1 DEF WrittenIn, InTurn
  <2>6. PICK f \in DOMAIN ps[k].files : ps[k].files[f].path = p
    BY <2>4, <2>5 DEF FilesHold
  <2>7. <<k, f>> \in listed0
    BY <2>3, <2>6 DEF ListedIn
  <2>8. ASSUME NEW at \in listed0 PROVE at = <<k, f>>
    <3>1. PICK l \in DOMAIN ps : at \in {l} \X DOMAIN ps[l].files
      BY DEF ListedIn
    <3>2. PICK g \in DOMAIN ps[l].files : at = <<l, g>>
      BY <3>1
    <3>3. ps[l].key = t /\ ps[l].files[g].path = p
      BY <3>2 DEF ListedIn
    <3>4. l = k
      BY <1>2, <2>3, <3>3 DEF PointsFit
    <3>5. g = f
      BY <2>4, <2>6, <3>2, <3>3, <3>4 DEF FilesHold
    <3> QED BY <3>2, <3>4, <3>5
  <2> HIDE DEF listed0
  <2>9. listed0 = {<<k, f>>}
    BY <2>7, <2>8
  <2>10. Cardinality(listed0) = 1
    BY <2>9, FS_Singleton
  <2>11. EditWords(InTurn(n, t), p) \subseteq UNION ToSet(ps[k].files[f].lines)
    BY <2>4, <2>6 DEF FilesHold
  <2> QED BY <2>2, <2>9, <2>10, <2>11 DEF listed0
<1>5. ASSUME NEW k \in DOMAIN ps
      PROVE  LET said == {i \in DOMAIN Read :
                            Read[i].type = "prompt" /\ TurnAt(i) = ps[k].key}
             IN /\ \A f \in DOMAIN ps[k].files : <<ps[k].key, ps[k].files[f].path>> \in pairs
                /\ ps[k].prompt = IF said = {} THEN NoText ELSE Read[Max(said)].word
  <2> DEFINE said == {i \in DOMAIN Read : Read[i].type = "prompt" /\ TurnAt(i) = ps[k].key}
             there == InTurn(n, ps[k].key)
  <2>1. ASSUME NEW f \in DOMAIN ps[k].files PROVE <<ps[k].key, ps[k].files[f].path>> \in pairs
    <3>1. PICK j \in WrittenIn(there) : Read[j].path = ps[k].files[f].path
      BY <1>3 DEF FilesHold
    <3>2. j \in DOMAIN Read /\ Written(Read[j]) /\ TurnAt(j) = ps[k].key
      BY <1>1 DEF WrittenIn, InTurn
    <3> QED BY <3>1, <3>2 DEF WrittenIn
  <2>2. ps[k].prompt = EditsContext(Read, there)
    BY <1>2 DEF PointsFit
  <2>3. said = {i \in there : Read[i].type = "prompt"}
    BY <1>1 DEF InTurn
  <2> HIDE DEF said, there
  <2>4. ps[k].prompt = IF said = {} THEN NoText ELSE Read[Max(said)].word
    BY <2>2, <2>3 DEF EditsContext
  <2> QED BY <2>1, <2>4 DEF said
<1> QED BY <1>4, <1>5 DEF ReadListed, ps

LEMMA WritesListed == ASSUME Traced PROVE WritesAreListed
<1> DEFINE n == Len(trace)
           points == TurnPoints(Read)
<1>1. /\ n \in Nat /\ DOMAIN trace = 1 .. n /\ DOMAIN Read = 1 .. n /\ Len(Read) = n
      /\ \A i \in 1 .. n : /\ Read[i].type = trace[i].type /\ Read[i].path = trace[i].path
                          /\ Read[i].word = trace[i].word /\ Written(Read[i]) = Written(trace[i])
  BY ReadIs DEF Traced, Written
<1>2. ReadListed
  BY WritesRead
<1> HIDE DEF n
<1>3. WrittenIn(DOMAIN Read) = {j \in DOMAIN trace : Written(trace[j])}
  BY <1>1 DEF WrittenIn
<1>4. {<<TurnAt(i), Read[i].path>> : i \in WrittenIn(DOMAIN Read)}
       = {<<TurnAt(i), trace[i].path>> : i \in {j \in DOMAIN trace : Written(trace[j])}}
  BY <1>1, <1>3
<1>5. \A turn, path : EditWords(InTurn(Len(Read), turn), path) = EditsOf(turn, path)
  BY <1>1 DEF EditWords, InTurn, EditsOf
<1>6. \A key : {i \in DOMAIN Read : Read[i].type = "prompt" /\ TurnAt(i) = key}
                 = {i \in DOMAIN trace : trace[i].type = "prompt" /\ TurnAt(i) = key}
  BY <1>1
<1>7. \A said \in SUBSET (1 .. n) : said # {} => Read[Max(said)].word = trace[Max(said)].word
  BY <1>1, GreatestPlace
<1>8. points = TurnPoints(Parsed(trace))
  BY DEF Read
<1> HIDE DEF points
<1>9. ASSUME NEW k \in DOMAIN points
      PROVE  LET said == {i \in DOMAIN trace :
                            trace[i].type = "prompt" /\ TurnAt(i) = points[k].key}
             IN points[k].prompt = IF said = {} THEN NoText ELSE trace[Max(said)].word
  <2> DEFINE said == {i \in DOMAIN trace : trace[i].type = "prompt" /\ TurnAt(i) = points[k].key}
  <2>1. points[k].prompt = IF said = {} THEN NoText ELSE Read[Max(said)].word
    BY <1>2, <1>6 DEF ReadListed, points
  <2>2. said \in SUBSET (1 .. n)
    BY <1>1
  <2> HIDE DEF said
  <2>3. points[k].prompt = IF said = {} THEN NoText ELSE trace[Max(said)].word
    BY <1>7, <2>1, <2>2
  <2> QED BY <2>3 DEF said
<1> DEFINE pairs == {<<TurnAt(i), trace[i].path>> : i \in {j \in DOMAIN trace : Written(trace[j])}}
<1>10. \A w \in pairs :
          /\ Cardinality(ListedIn(points, w[1], w[2])) = 1
          /\ \A at \in ListedIn(points, w[1], w[2]) :
                EditsOf(w[1], w[2]) \subseteq UNION ToSet(points[at[1]].files[at[2]].lines)
  <2>1. \A w \in pairs :
           /\ Cardinality(ListedIn(points, w[1], w[2])) = 1
           /\ \A at \in ListedIn(points, w[1], w[2]) :
                 EditWords(InTurn(Len(Read), w[1]), w[2])
                    \subseteq UNION ToSet(points[at[1]].files[at[2]].lines)
    BY <1>2, <1>4, Zenon DEF ReadListed, points
  <2> HIDE DEF pairs
  <2> QED BY <1>5, <2>1
<1>11. \A k \in DOMAIN points : \A f \in DOMAIN points[k].files :
          <<points[k].key, points[k].files[f].path>> \in pairs
  BY <1>2, <1>4, Zenon DEF ReadListed, points
<1> QED BY <1>8, <1>9, <1>10, <1>11, Zenon DEF WritesAreListed

\* The Diff rebuilt from the tool calls has every write: each path of a turn
\* once, under the turn's number, with every edit of it in its text, and the
\* turn's last prompt above, for a timeline of any length and any paths.
THEOREM WritesAlwaysListed == DiffSpec => []WritesAreListed
<1>1. DiffInit => Traced
  BY DEF DiffInit, Traced
<1>2. Traced /\ [DiffNext]_diffVars => Traced'
  <2> SUFFICES ASSUME Traced, [DiffNext]_diffVars PROVE Traced'
    OBVIOUS
  <2>1. ASSUME NEW e \in TraceEvents, AgentActs(e) PROVE Traced'
    BY <2>1 DEF AgentActs, Traced
  <2>2. ASSUME trace' = trace PROVE Traced'
    BY <2>2 DEF Traced
  <2>3. CASE DiffNext /\ ~\E e \in TraceEvents : AgentActs(e)
    <3>1. trace' = trace
      BY <2>3 DEF DiffNext, AgentRewinds, StoreSums, LoadsDiff, PicksPoint, TypesFind, StepsHit, OpensFile
    <3> QED BY <2>2, <3>1
  <2>4. CASE UNCHANGED diffVars
    BY <2>2, <2>4 DEF diffVars
  <2> QED BY <2>1, <2>3, <2>4
<1> QED BY <1>1, <1>2, WritesListed, PTL DEF DiffSpec

=============================================================================
