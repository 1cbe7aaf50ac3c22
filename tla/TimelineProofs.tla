--------------------------- MODULE TimelineProofs ---------------------------
(***************************************************************************)
(* The Timeline a page at a time, for any session, any filters and any     *)
(* number of threads that fill: the rows are the list of one filter from   *)
(* its start, as long as no reply is joined to rows it was not asked for.  *)
(* What a filter lists only gets longer as the session grows, so a page    *)
(* asked for earlier still follows the rows it was asked for.              *)
(*                                                                         *)
(* And its turns, for any session of any length.  The two passes that cut  *)
(* a timeline and join what was never started are functions of its length: *)
(* after each event the segments spread over the events so far, so each    *)
(* lies in one place.  A tail without a boundary goes to the end of the    *)
(* last segment through the cut, the numbering and the join alike, and     *)
(* takes the number of the event before it.  The numbers the parse gives   *)
(* the rows go on over such a tail too, so whatever page a row was read    *)
(* in, as long as its turn went on it shows the same number: what the      *)
(* table extends its map with is what the rows are stamped with.           *)
(***************************************************************************)
EXTENDS TimelinePages, TimelineTable, TurnNumberProofs

-----------------------------------------------------------------------------
(* What the owner lists for a filter. *)

LEMMA MatchingIsFinite ==
    ASSUME NEW f, NEW n \in Nat
    PROVE  /\ Matching(f, n) \subseteq 1 .. n
           /\ IsFiniteSet(Matching(f, n))
           /\ PlaceOf(f, n) \in 0 .. n
<1>1. Matching(f, n) \in SUBSET (1 .. n)
  BY DEF Matching
<1>2. IsFiniteSet(1 .. n) /\ Cardinality(1 .. n) = n
  BY FS_Interval
<1>3. IsFiniteSet(Matching(f, n)) /\ Cardinality(Matching(f, n)) <= n
  BY <1>1, <1>2, FS_Subset
<1>4. Cardinality(Matching(f, n)) \in Nat
  BY <1>3, FS_CardinalityType
<1> QED  BY <1>1, <1>3, <1>4 DEF PlaceOf

\* One more event takes the next place if it matches, and none otherwise.
LEMMA PlaceStep ==
    ASSUME NEW f, NEW n \in Nat
    PROVE  PlaceOf(f, n + 1) = IF n + 1 \in Matching(f, n + 1)
                               THEN PlaceOf(f, n) + 1 ELSE PlaceOf(f, n)
<1>1. IsFiniteSet(Matching(f, n)) /\ n + 1 \notin Matching(f, n)
  <2>1. Matching(f, n) \subseteq 1 .. n /\ n + 1 \notin 1 .. n
    BY MatchingIsFinite
  <2> QED  BY <2>1, MatchingIsFinite
<1>2. Matching(f, n + 1) = IF n + 1 \in Matching(f, n + 1)
                           THEN Matching(f, n) \union {n + 1} ELSE Matching(f, n)
  BY DEF Matching
<1>3. Cardinality(Matching(f, n) \union {n + 1}) = Cardinality(Matching(f, n)) + 1
  BY <1>1, FS_AddElement
<1> QED  BY <1>2, <1>3 DEF PlaceOf

\* Of two events the later has no lower place, and a higher one if it matches.
LEMMA PlacesGrow ==
    ASSUME NEW f, NEW n \in Nat, NEW m \in Nat, n <= m
    PROVE  /\ Matching(f, n) \subseteq Matching(f, m)
           /\ PlaceOf(f, n) <= PlaceOf(f, m)
           /\ n < m /\ m \in Matching(f, m) => PlaceOf(f, n) < PlaceOf(f, m)
<1>1. Matching(f, n) \subseteq Matching(f, m)
  BY DEF Matching
<1>2. IsFiniteSet(Matching(f, m)) /\ IsFiniteSet(Matching(f, n))
  BY MatchingIsFinite
<1>3. PlaceOf(f, n) <= PlaceOf(f, m)
  BY <1>1, <1>2, FS_Subset DEF PlaceOf
<1>4. ASSUME n < m, m \in Matching(f, m)
      PROVE  PlaceOf(f, n) < PlaceOf(f, m)
  <2>1. m \notin Matching(f, n)
    BY <1>4 DEF Matching
  <2>2. PlaceOf(f, n) # PlaceOf(f, m)
    BY <1>1, <1>2, <1>4, <2>1, FS_Subset DEF PlaceOf
  <2> QED  BY <1>3, <2>2, MatchingIsFinite
<1> QED  BY <1>1, <1>3, <1>4

\* An event that matches does so however long the session is.
LEMMA MatchingIsLocal ==
    ASSUME NEW f, NEW n \in Nat, NEW i \in Matching(f, n)
    PROVE  i \in Nat /\ i \in Matching(f, i)
BY DEF Matching

LEMMA PlacesDiffer ==
    ASSUME NEW f, NEW n \in Nat, NEW i \in Matching(f, n), NEW j \in Matching(f, n),
           PlaceOf(f, i) = PlaceOf(f, j)
    PROVE  i = j
<1>1. i \in Nat /\ i \in Matching(f, i) /\ j \in Nat /\ j \in Matching(f, j)
  BY MatchingIsLocal
<1>2. ~(i < j)
  BY <1>1, PlacesGrow, MatchingIsFinite
<1>3. ~(j < i)
  BY <1>1, PlacesGrow, MatchingIsFinite
<1> QED  BY <1>1, <1>2, <1>3

\* Every place of the list is taken: by the first event up to which so many match.
LEMMA PlacesAreTaken ==
    ASSUME NEW f, NEW n \in Nat, NEW k \in 1 .. PlaceOf(f, n)
    PROVE  \E i \in Matching(f, n) : PlaceOf(f, i) = k
<1> DEFINE Enough == {i \in Nat : PlaceOf(f, i) >= k}
<1>1. PICK i \in Enough : \A j \in Enough : i <= j
  <2>1. n \in Enough
    BY MatchingIsFinite
  <2> QED  BY <2>1, LeastNatural
<1>3. i # 0
  BY MatchingIsFinite
<1>4. i - 1 \in Nat /\ PlaceOf(f, i - 1) < k
  <2>1. i - 1 \in Nat
    BY <1>3
  <2>2. i - 1 \notin Enough
    BY <1>1, <2>1
  <2> QED  BY <2>1, <2>2, MatchingIsFinite
<1>5. PlaceOf(f, i) = IF i \in Matching(f, i) THEN PlaceOf(f, i - 1) + 1 ELSE PlaceOf(f, i - 1)
  BY <1>4, PlaceStep
<1>6. i \in Matching(f, i) /\ PlaceOf(f, i) = k
  BY <1>4, <1>5, MatchingIsFinite
<1>7. i <= n
  BY <1>1, MatchingIsFinite
<1> QED  BY <1>6, <1>7, PlacesGrow

LEMMA ListedIsOrdered ==
    ASSUME NEW f, NEW n \in Nat
    PROVE  /\ Len(Listed(f, n)) = PlaceOf(f, n)
           /\ Listed(f, n) \in Seq(1 .. n)
           /\ \A k \in 1 .. PlaceOf(f, n) :
                 /\ Listed(f, n)[k] \in Matching(f, n)
                 /\ PlaceOf(f, Listed(f, n)[k]) = k
<1>1. PlaceOf(f, n) \in Nat /\ Matching(f, n) \subseteq 1 .. n
  BY MatchingIsFinite
<1>2. ASSUME NEW k \in 1 .. PlaceOf(f, n)
      PROVE  Listed(f, n)[k] \in Matching(f, n) /\ PlaceOf(f, Listed(f, n)[k]) = k
  BY PlacesAreTaken DEF Listed
<1>3. Listed(f, n) \in [1 .. PlaceOf(f, n) -> 1 .. n]
  BY <1>1, <1>2 DEF Listed
<1>4. Listed(f, n) \in Seq(1 .. n) /\ Len(Listed(f, n)) = PlaceOf(f, n)
  BY <1>1, <1>3
<1> QED  BY <1>2, <1>4

\* As the session grows a list only gets longer.
LEMMA ListedGrows ==
    ASSUME NEW f, NEW n \in Nat, NEW m \in Nat, n <= m, NEW k \in 1 .. PlaceOf(f, n)
    PROVE  k <= PlaceOf(f, m) /\ Listed(f, m)[k] = Listed(f, n)[k]
<1>1. k \in 1 .. PlaceOf(f, m)
  BY PlacesGrow, MatchingIsFinite
<1>2. Listed(f, n)[k] \in Matching(f, m) /\ PlaceOf(f, Listed(f, n)[k]) = k
  BY ListedIsOrdered, PlacesGrow
<1>3. Listed(f, m)[k] \in Matching(f, m) /\ PlaceOf(f, Listed(f, m)[k]) = k
  BY <1>1, ListedIsOrdered
<1> QED  BY <1>1, <1>2, <1>3, PlacesDiffer

\* Without a filter of events the list is the session.
LEMMA PlainIsTheSession ==
    ASSUME NEW f, NEW n \in Nat, PromptOf(f) = 0, ~f.query
    PROVE  /\ PlaceOf(f, n) = n
           /\ \A k \in 1 .. n : Listed(f, n)[k] = k
<1>1. \A i \in Nat : Matching(f, i) = 1 .. i /\ PlaceOf(f, i) = i
  <2> TAKE i \in Nat
  <2>1. Matching(f, i) = 1 .. i
    BY DEF Matching
  <2> QED  BY <2>1, FS_Interval DEF PlaceOf
<1>2. ASSUME NEW k \in 1 .. n  PROVE Listed(f, n)[k] = k
  <2>1. k \in 1 .. PlaceOf(f, n) /\ Matching(f, n) = 1 .. n
    BY <1>1
  <2>2. Listed(f, n)[k] \in Matching(f, n) /\ PlaceOf(f, Listed(f, n)[k]) = k
    BY <2>1, ListedIsOrdered
  <2> QED  BY <1>1, <2>1, <2>2
<1> QED  BY <1>1, <1>2

-----------------------------------------------------------------------------
(* Where a filter's list begins, and the pages of it. *)

AnyFilter == [turn : Turns \union {0}, query : BOOLEAN]

LEMMA BaseIsNatural ==
    ASSUME NEW f \in AnyFilter
    PROVE  BaseOf(f) \in Nat
<1>1. CASE f.turn \in {0} \union Prompted
  BY <1>1 DEF BaseOf
<1>2. CASE f.turn \notin {0} \union Prompted
  <2> DEFINE Own == {i \in DOMAIN TurnOf : TurnOf[i] = f.turn}
  <2>1. DOMAIN TurnOf = 1 .. Len(TurnOf) /\ Len(TurnOf) \in Nat
    BY TurnsAssumption
  <2>2. Own # {} /\ Own \subseteq Nat
    BY <1>2, <2>1 DEF AnyFilter, Turns, Range
  <2>3. PICK i \in Own : \A j \in Own : i <= j
    BY <2>1, <2>2, LeastNatural
  <2>4. /\ i \in DOMAIN TurnOf /\ TurnOf[i] = f.turn
        /\ \A j \in 1 .. i - 1 : TurnOf[j] # f.turn
    BY <2>1, <2>3
  <2> DEFINE first == Begins(f.turn)
  <2>5. first \in DOMAIN TurnOf
    BY <2>4 DEF Begins
  <2>6. BaseOf(f) = first - 1
    BY <1>2 DEF BaseOf
  <2> QED  BY <2>1, <2>5, <2>6
<1> QED  BY <1>1, <1>2

LEMMA EverythingIsPlain ==
    /\ Everything \in AnyFilter /\ ~Everything.query
    /\ PromptOf(Everything) = 0 /\ BaseOf(Everything) = 0
<1>1. Everything \in AnyFilter /\ ~Everything.query /\ Everything.turn = 0
  BY DEF Everything, AnyFilter
<1> QED  BY <1>1 DEF PromptOf, BaseOf

\* s is what the list of f has after its first held entries, n events long.
Follows(s, f, held, n) ==
    \A k \in 1 .. Len(s) : /\ BaseOf(f) + held + k <= PlaceOf(f, n)
                           /\ s[k] = Listed(f, n)[BaseOf(f) + held + k]

\* What followed still does when the session has grown.
LEMMA FollowsLater ==
    ASSUME NEW f \in AnyFilter, NEW held \in Nat, NEW n \in Nat, NEW m \in Nat, n <= m,
           NEW s, Follows(s, f, held, n)
    PROVE  Follows(s, f, held, m)
<1> SUFFICES ASSUME NEW k \in 1 .. Len(s)
             PROVE  /\ BaseOf(f) + held + k <= PlaceOf(f, m)
                    /\ s[k] = Listed(f, m)[BaseOf(f) + held + k]
  BY DEF Follows
<1>1. BaseOf(f) + held + k \in 1 .. PlaceOf(f, n)
  BY BaseIsNatural, MatchingIsFinite DEF Follows
<1> QED  BY <1>1, ListedGrows DEF Follows

\* A page is the part of the list it was asked for, as far as there is one.
LEMMA PageIsOfTheList ==
    ASSUME NEW f, NEW off \in Nat, NEW n \in Nat
    PROVE  /\ PageFrom(f, off, n) \in Seq(1 .. n)
           /\ \A k \in 1 .. Len(PageFrom(f, off, n)) :
                 /\ off + k <= PlaceOf(f, n)
                 /\ PageFrom(f, off, n)[k] = Listed(f, n)[off + k]
<1> DEFINE all == Listed(f, n)
           last == IF off + PageSize < Len(all) THEN off + PageSize ELSE Len(all)
<1>1. Len(all) = PlaceOf(f, n) /\ PlaceOf(f, n) \in Nat /\ all \in Seq(1 .. n)
  BY ListedIsOrdered, MatchingIsFinite
<1>2. last \in Nat /\ last <= Len(all)
  BY <1>1, PagesAssumption
<1>3. \A i \in off + 1 .. last : all[i] \in 1 .. n
  BY <1>1, <1>2
<1> HIDE DEF all, last
<1>4. /\ SubSeq(all, off + 1, last) \in Seq(1 .. n)
      /\ Len(SubSeq(all, off + 1, last)) = IF off + 1 <= last THEN last - (off + 1) + 1 ELSE 0
      /\ \A i \in 1 .. last - (off + 1) + 1 :
            SubSeq(all, off + 1, last)[i] = all[off + 1 + i - 1]
  BY <1>2, <1>3, SubSeqProperties
<1>5. PageFrom(f, off, n) = SubSeq(all, off + 1, last)
  BY DEF PageFrom, PageAt, all, last
<1>6. ASSUME NEW k \in 1 .. Len(SubSeq(all, off + 1, last))
      PROVE  /\ off + k <= PlaceOf(f, n)
             /\ SubSeq(all, off + 1, last)[k] = all[off + k]
  <2>1. off + 1 <= last /\ k \in 1 .. last - (off + 1) + 1
    BY <1>2, <1>4
  <2> QED  BY <1>1, <1>2, <1>4, <2>1
<1> QED  BY <1>4, <1>5, <1>6 DEF all

\* A fill asks for what comes next, except where a first page is misplaced.
LEMMA FillAsksForTheNext ==
    ASSUME NEW f \in AnyFilter, NEW held \in Nat
    PROVE  /\ FillOffset(f, held) \in Nat
           /\ ~Misplaced(f) => FillOffset(f, held) = BaseOf(f) + held
<1>1. BaseOf(f) \in Nat
  BY BaseIsNatural
<1>2. PromptOf(f) # 0 => BaseOf(f) = 0
  BY DEF PromptOf, BaseOf
<1> QED  BY <1>1, <1>2 DEF FillOffset, Misplaced

-----------------------------------------------------------------------------
(* The inductive invariant. *)

EventIndexes == DOMAIN TurnOf
Fills == [pc : {"none", "start", "reply", "append"}, ask : AnyFilter, held : Nat, page : Seq(EventIndexes)]

Shape ==
    /\ total \in 1 .. Len(TurnOf)
    /\ filter \in AnyFilter /\ scope \in AnyFilter
    /\ flight \in [gen : Nat, inflight : BOOLEAN, again : BOOLEAN]
    /\ pass \in [pc : {"none", "start", "gen", "ask", "reply", "check", "done"},
                 gen : Nat, ask : AnyFilter]
    /\ rows \in Seq(EventIndexes) /\ known \in 0 .. Len(TurnOf)
    /\ fill \in [Fillers -> Fills]
    /\ growth \in [pc : {"none", "fetch"}, held : Seq(EventIndexes)]
    /\ mixed \in BOOLEAN
    /\ flight.inflight <=> pass.pc # "none"
    /\ flight.again => flight.inflight

RowsFollow == mixed \/ Misplaced(scope) \/ Follows(rows, scope, 0, total)

\* What a fill has fetched is what comes next for the rows it started from.
PagesFollow ==
    \A t \in Fillers :
        fill[t].pc = "append" => \/ Misplaced(fill[t].ask)
                                 \/ Follows(fill[t].page, fill[t].ask, fill[t].held, total)

Inv == Shape /\ RowsFollow /\ PagesFollow

LEMMA EventsAreNumbers == Len(TurnOf) \in Nat /\ EventIndexes = 1 .. Len(TurnOf)
BY TurnsAssumption DEF EventIndexes

LEMMA PageIsOfEvents ==
    ASSUME Shape, NEW f, NEW off \in Nat
    PROVE  /\ PageFrom(f, off, total) \in Seq(EventIndexes)
           /\ Len(Listed(f, total)) \in 0 .. Len(TurnOf)
<1>1. total \in Nat /\ total <= Len(TurnOf) /\ 1 .. total \subseteq EventIndexes
  BY EventsAreNumbers DEF Shape
<1>2. PageFrom(f, off, total) \in Seq(EventIndexes)
  BY <1>1, PageIsOfTheList, SeqMonotonic
<1> QED  BY <1>1, <1>2, EventsAreNumbers, ListedIsOrdered, MatchingIsFinite

-----------------------------------------------------------------------------
(* The shape. *)

LEMMA InitShape == TimelineInit => Shape
<1> SUFFICES ASSUME TimelineInit  PROVE Shape
  OBVIOUS
<1>1. FirstTotal \in 1 .. Len(TurnOf) /\ FirstTotal \in Nat /\ total = FirstTotal
  BY PagesAssumption DEF TimelineInit
<1>2. Everything \in AnyFilter
  BY EverythingIsPlain
<1>3. rows \in Seq(EventIndexes)
  <2>1. 1 .. FirstTotal \subseteq EventIndexes
    BY <1>1, EventsAreNumbers
  <2>2. PageFrom(Everything, 0, FirstTotal) \in Seq(1 .. FirstTotal)
    BY <1>1, PageIsOfTheList
  <2> QED  BY <2>1, <2>2, SeqMonotonic DEF TimelineInit
<1>4. NoFill \in Fills
  BY <1>2 DEF NoFill, Fills
<1>5. fill \in [Fillers -> Fills] /\ growth \in [pc : {"none", "fetch"}, held : Seq(EventIndexes)]
  BY <1>4 DEF TimelineInit
<1>6. pass \in [pc : {"none", "start", "gen", "ask", "reply", "check", "done"},
               gen : Nat, ask : AnyFilter]
  BY <1>2 DEF TimelineInit
<1>7. total \in 1 .. Len(TurnOf) /\ known \in 0 .. Len(TurnOf)
  BY <1>1, EventsAreNumbers DEF TimelineInit
<1> QED  BY <1>2, <1>3, <1>5, <1>6, <1>7 DEF TimelineInit, Shape

\* A change asked for leaves one pass that runs, or one that is about to.
LEMMA EnsureKeepsShape ==
    ASSUME Shape, Ensure(flight)
    PROVE  /\ flight' \in [gen : Nat, inflight : BOOLEAN, again : BOOLEAN]
           /\ pass' \in [pc : {"none", "start", "gen", "ask", "reply", "check", "done"},
                        gen : Nat, ask : AnyFilter]
           /\ flight'.inflight /\ pass'.pc # "none"
<1> DEFINE bumped == [flight EXCEPT !.gen = @ + 1]
<1>1. /\ bumped \in [gen : Nat, inflight : BOOLEAN, again : BOOLEAN]
      /\ bumped.inflight = flight.inflight
  BY DEF Shape
<1>2. flight' = Request(bumped) /\ pass' = IF flight.inflight THEN pass ELSE [pass EXCEPT !.pc = "start"]
  BY DEF Ensure
<1> HIDE DEF bumped
<1>3. flight' \in [gen : Nat, inflight : BOOLEAN, again : BOOLEAN] /\ flight'.inflight
  BY <1>1, <1>2 DEF Request
<1> QED  BY <1>2, <1>3 DEF Shape

\* The Select and the keys both set a turn of the session, or all of them.
LEMMA TurnIsSet ==
    ASSUME PickTurn \/ StepTurn
    PROVE  \E t \in Turns \union {0} : SetsTurn(t)
BY DEF PickTurn, StepTurn, TurnIds

LEMMA ShapeIsKept ==
    ASSUME Shape, [TimelineNext]_timelineVars
    PROVE  Shape'
<1> USE DEF Shape
<1>1. CASE Edit
  BY <1>1 DEF Edit, AnyFilter, rowVars
<1>2. CASE PickTurn \/ StepTurn
  <2>1. PICK t \in Turns \union {0} : SetsTurn(t)
    BY <1>2, TurnIsSet
  <2>2. filter' \in AnyFilter
    BY <2>1 DEF SetsTurn, AnyFilter
  <2>3. Ensure(flight) /\ UNCHANGED <<total, rowVars, fill, growth>>
    BY <2>1 DEF SetsTurn
  <2> QED  BY <2>2, <2>3, EnsureKeepsShape DEF rowVars
<1>3. CASE PassStep
  <2>1. CASE PassBegins
    BY <2>1 DEF PassBegins, PassSteps, rowVars
  <2>2. CASE PassReplies
    <3>1. rows' = PageFrom(pass.ask, BaseOf(pass.ask), total)
          /\ known' = Len(Listed(pass.ask, total))
      BY <2>2 DEF PassReplies
    <3>2. rows' \in Seq(EventIndexes) /\ known' \in 0 .. Len(TurnOf)
      BY <3>1, BaseIsNatural, PageIsOfEvents
    <3> QED  BY <2>2, <3>2 DEF PassReplies, PassSteps, uiVars
  <2>3. CASE PassChecks
    BY <2>3 DEF PassChecks, PassSteps, uiVars, rowVars
  <2>4. CASE PassEnds
    BY <2>4 DEF PassEnds, PassSteps, rowVars
  <2>5. CASE DebounceFires
    <3>1. Ensure(flight) /\ UNCHANGED <<total, filter, rowVars, fill, growth>>
      BY <2>5 DEF DebounceFires
    <3> QED  BY <3>1, EnsureKeepsShape DEF rowVars
  <2> QED  BY <1>3, <2>1, <2>2, <2>3, <2>4, <2>5 DEF PassStep
<1>4. CASE PassFails
  BY <1>4 DEF PassFails, PassSteps, uiVars, rowVars
<1>5. ASSUME NEW t \in Fillers,
             NeedMore(t) \/ FillStarts(t) \/ FillReplies(t) \/ FillAppends(t) \/ FillFails(t)
      PROVE  Shape'
  <2>1. fill[t] \in Fills /\ NoFill \in Fills /\ Len(rows) \in Nat
    BY DEF Fills, NoFill, Everything, AnyFilter
  <2>2. CASE NeedMore(t)
    <3>1. [NoFill EXCEPT !.pc = "start"] \in Fills
      BY <2>1 DEF Fills
    <3> QED  BY <2>1, <2>2, <3>1 DEF NeedMore, FillSteps, uiVars, rowVars
  <2>3. CASE FillStarts(t)
    <3>1. [NoFill EXCEPT !.pc = "reply", !.ask = filter, !.held = Len(rows)] \in Fills
      BY <2>1 DEF Fills
    <3> QED  BY <2>1, <2>3, <3>1 DEF FillStarts, FillSteps, uiVars
  <2>4. CASE FillReplies(t)
    <3> DEFINE page == PageFrom(fill[t].ask, FillOffset(fill[t].ask, fill[t].held), total)
    <3>1. FillOffset(fill[t].ask, fill[t].held) \in Nat
      BY <2>1, FillAsksForTheNext DEF Fills
    <3>2. page \in Seq(EventIndexes) /\ Len(Listed(fill[t].ask, total)) \in 0 .. Len(TurnOf)
      BY <3>1, PageIsOfEvents
    <3> HIDE DEF page
    <3>3. [fill[t] EXCEPT !.pc = "append", !.page = page] \in Fills
      BY <2>1, <3>2 DEF Fills
    <3>4. /\ FillSteps(t, "reply", IF page = <<>> THEN NoFill
                                   ELSE [fill[t] EXCEPT !.pc = "append", !.page = page])
          /\ known' = Len(Listed(fill[t].ask, total))
          /\ mixed' = (mixed \/ Strays(t))
          /\ UNCHANGED <<total, uiVars, pass, rows, scope, growth>>
      BY <2>4 DEF FillReplies, page
    <3>5. fill' \in [Fillers -> Fills]
      BY <2>1, <3>3, <3>4 DEF FillSteps
    <3>6. mixed' \in BOOLEAN
      BY <3>4 DEF Strays
    <3> QED  BY <3>2, <3>4, <3>5, <3>6 DEF uiVars
  <2>5. CASE FillAppends(t)
    <3>1. rows' \in Seq(EventIndexes)
      BY <2>1, <2>5 DEF FillAppends, Fills
    <3>2. mixed' \in BOOLEAN
      BY <2>5 DEF FillAppends, Strays
    <3> QED  BY <2>1, <2>5, <3>1, <3>2 DEF FillAppends, FillSteps, uiVars
  <2>6. CASE FillFails(t)
    BY <2>1, <2>6 DEF FillFails, FillSteps, uiVars, rowVars
  <2> QED  BY <1>5, <2>2, <2>3, <2>4, <2>5, <2>6
<1>6. CASE AgentAdds
  BY <1>6, EventsAreNumbers DEF AgentAdds, uiVars, rowVars
<1>7. CASE GrowthStarts
  BY <1>7 DEF GrowthStarts, uiVars
<1>8. CASE GrowthLands
  <2> DEFINE held == IF Len(growth.held) < total THEN growth.held ELSE <<>>
             rest == SubSeq(Listed(Everything, total), Len(held) + 1, total)
  <2>1. held \in Seq(EventIndexes)
    OBVIOUS
  <2>2. rest \in Seq(EventIndexes)
    <3>1. total \in Nat /\ 1 .. total \subseteq EventIndexes
      BY EventsAreNumbers
    <3>2. PlaceOf(Everything, total) = total /\ Listed(Everything, total) \in Seq(1 .. total)
      BY <3>1, EverythingIsPlain, PlainIsTheSession, ListedIsOrdered
    <3>3. Len(Listed(Everything, total)) = total /\ Len(held) \in Nat
      BY <2>1, <3>1, <3>2, ListedIsOrdered
    <3>4. \A i \in Len(held) + 1 .. total : Listed(Everything, total)[i] \in EventIndexes
      BY <3>1, <3>2, <3>3
    <3> HIDE DEF held
    <3> QED  BY <3>1, <3>3, <3>4, SubSeqProperties
  <2>3. rows' = held \o rest
    BY <1>8 DEF GrowthLands
  <2> HIDE DEF held, rest
  <2>4. rows' \in Seq(EventIndexes)
    BY <2>1, <2>2, <2>3
  <2>5. mixed' \in BOOLEAN
    BY <1>8 DEF GrowthLands
  <2> QED  BY <1>8, <2>4, <2>5, EmptySeq DEF GrowthLands, uiVars
<1>9. CASE UNCHANGED timelineVars
  BY <1>9 DEF timelineVars, uiVars, rowVars
<1> QED
  BY <1>1, <1>2, <1>3, <1>4, <1>5, <1>6, <1>7, <1>8, <1>9 DEF TimelineNext

-----------------------------------------------------------------------------
(* The rows and the pages follow their lists. *)

LEMMA InitFollows == TimelineInit => RowsFollow /\ PagesFollow
<1> SUFFICES ASSUME TimelineInit  PROVE RowsFollow /\ PagesFollow
  OBVIOUS
<1>1. FirstTotal \in Nat /\ total = FirstTotal /\ scope = Everything
      /\ rows = PageFrom(Everything, 0, FirstTotal)
  BY PagesAssumption DEF TimelineInit
<1>2. Follows(rows, scope, 0, total)
  BY <1>1, EverythingIsPlain, PageIsOfTheList DEF Follows
<1>3. PagesFollow
  BY DEF TimelineInit, NoFill, PagesFollow
<1> QED  BY <1>2, <1>3 DEF RowsFollow

\* Rows and a thread that a step leaves alone still follow their lists, the
\* session being no shorter.
LEMMA RowsLeftAlone ==
    ASSUME Inv, Shape', total' >= total, UNCHANGED <<rows, scope>>, mixed => mixed'
    PROVE  RowsFollow'
<1>1. total \in Nat /\ total' \in Nat /\ scope \in AnyFilter
  BY EventsAreNumbers DEF Inv, Shape
<1>2. Follows(rows, scope, 0, total) => Follows(rows, scope, 0, total')
  BY <1>1, FollowsLater
<1>3. mixed' \/ Misplaced(scope') \/ Follows(rows', scope', 0, total')
  BY <1>2 DEF Inv, RowsFollow
<1> QED  BY <1>3 DEF RowsFollow

PageFollows(f, n) == f.pc = "append" => Misplaced(f.ask) \/ Follows(f.page, f.ask, f.held, n)

LEMMA PageLeftAlone ==
    ASSUME Inv, Shape', total' >= total, NEW t \in Fillers, fill'[t] = fill[t]
    PROVE  PageFollows(fill'[t], total')
<1>1. total \in Nat /\ total' \in Nat
  BY EventsAreNumbers DEF Inv, Shape
<1>2. fill[t].ask \in AnyFilter /\ fill[t].held \in Nat
  BY DEF Inv, Shape, Fills
<1>3. PageFollows(fill[t], total)
  BY DEF Inv, PagesFollow, PageFollows
<1>4. PageFollows(fill[t], total')
  BY <1>1, <1>2, <1>3, FollowsLater DEF PageFollows
<1> QED  BY <1>4

\* A step that touches neither the rows nor a thread.
LEMMA NothingIsAsked ==
    ASSUME Inv, Shape', total' >= total, UNCHANGED <<rows, scope, mixed, fill>>
    PROVE  RowsFollow' /\ PagesFollow'
<1>1. RowsFollow'
  BY RowsLeftAlone
<1>2. \A t \in Fillers : PageFollows(fill'[t], total')
  BY PageLeftAlone
<1> QED  BY <1>1, <1>2 DEF PagesFollow, PageFollows

\* A step of one thread that fills: what the others hold still follows.
LEMMA OneFills ==
    ASSUME Inv, Shape', UNCHANGED total, NEW t \in Fillers,
           NEW r, fill' = [fill EXCEPT ![t] = r], PageFollows(r, total)
    PROVE  PagesFollow'
<1>1. total \in Nat
  BY EventsAreNumbers DEF Inv, Shape
<1>2. ASSUME NEW u \in Fillers  PROVE PageFollows(fill'[u], total')
  <2>1. CASE u = t
    BY <2>1 DEF Inv, Shape
  <2>2. CASE u # t
    <3>1. fill'[u] = fill[u]
      BY <2>2 DEF Inv, Shape
    <3> QED  BY <1>1, <3>1, PageLeftAlone
  <2> QED  BY <2>1, <2>2
<1> QED  BY <1>2 DEF PagesFollow, PageFollows

LEMMA PassReplyFollows ==
    ASSUME Inv, Shape', PassReplies
    PROVE  RowsFollow' /\ PagesFollow'
<1>1. /\ rows' = PageFrom(pass.ask, BaseOf(pass.ask), total)
      /\ scope' = pass.ask /\ UNCHANGED <<total, fill>>
  BY DEF PassReplies
<1>2. total \in Nat /\ pass.ask \in AnyFilter
  BY EventsAreNumbers DEF Inv, Shape
<1>3. BaseOf(pass.ask) \in Nat
  BY <1>2, BaseIsNatural
<1>4. Follows(PageFrom(pass.ask, BaseOf(pass.ask), total), pass.ask, 0, total)
  BY <1>2, <1>3, PageIsOfTheList DEF Follows
<1>5. Follows(rows', scope', 0, total')
  BY <1>1, <1>4
<1>6. \A t \in Fillers : PageFollows(fill'[t], total')
  BY <1>1, <1>2, PageLeftAlone
<1> QED  BY <1>5, <1>6 DEF RowsFollow, PagesFollow, PageFollows

LEMMA FillReplyFollows ==
    ASSUME Inv, Shape', NEW t \in Fillers, FillReplies(t)
    PROVE  RowsFollow' /\ PagesFollow'
<1> DEFINE f == fill[t]
           page == PageFrom(f.ask, FillOffset(f.ask, f.held), total)
           r == IF page = <<>> THEN NoFill ELSE [f EXCEPT !.pc = "append", !.page = page]
<1>1. f \in Fills /\ f.ask \in AnyFilter /\ f.held \in Nat /\ total \in Nat
  BY EventsAreNumbers DEF Inv, Shape, Fills
<1>2. fill' = [fill EXCEPT ![t] = r] /\ UNCHANGED <<total, rows, scope>> /\ (mixed => mixed')
  BY DEF FillReplies, FillSteps
<1>3. FillOffset(f.ask, f.held) \in Nat
      /\ (~Misplaced(f.ask) => FillOffset(f.ask, f.held) = BaseOf(f.ask) + f.held)
  BY <1>1, FillAsksForTheNext
<1>4. ~Misplaced(f.ask) => Follows(page, f.ask, f.held, total)
  BY <1>1, <1>3, PageIsOfTheList DEF Follows
<1>5. PageFollows(r, total)
  <2>1. CASE page = <<>>
    BY <2>1 DEF PageFollows, NoFill
  <2>2. CASE page # <<>>
    <3>1. r.page = page /\ r.ask = f.ask /\ r.held = f.held
      BY <1>1, <2>2 DEF Fills
    <3> QED  BY <1>4, <3>1 DEF PageFollows
  <2> QED  BY <2>1, <2>2
<1> HIDE DEF r
<1>6. RowsFollow'
  BY <1>1, <1>2, RowsLeftAlone
<1>7. PagesFollow'
  BY <1>2, <1>5, OneFills
<1> QED  BY <1>6, <1>7

LEMMA FillAppendFollows ==
    ASSUME Inv, Shape', NEW t \in Fillers, FillAppends(t)
    PROVE  RowsFollow' /\ PagesFollow'
<1> DEFINE page == fill[t].page
<1>1. /\ fill' = [fill EXCEPT ![t] = NoFill] /\ fill[t].pc = "append"
      /\ rows' = rows \o page /\ UNCHANGED <<total, scope>>
      /\ mixed' = (mixed \/ Strays(t))
  BY DEF FillAppends, FillSteps
<1>2. /\ rows \in Seq(EventIndexes) /\ page \in Seq(EventIndexes) /\ scope \in AnyFilter
      /\ BaseOf(scope) \in Nat
  BY BaseIsNatural DEF Inv, Shape, Fills
<1>3. PagesFollow'
  <2>1. PageFollows(NoFill, total)
    BY DEF PageFollows, NoFill
  <2> QED  BY <1>1, <2>1, OneFills
<1>4. ASSUME ~mixed', ~Misplaced(scope)
      PROVE  Follows(rows \o page, scope, 0, total)
  <2>1. fill[t].ask = scope /\ fill[t].held = Len(rows) /\ ~mixed
    BY <1>1, <1>4 DEF Strays
  <2>2. Follows(rows, scope, 0, total) /\ Follows(page, scope, Len(rows), total)
    BY <1>1, <1>4, <2>1 DEF Inv, RowsFollow, PagesFollow
  <2> HIDE DEF page
  <2> SUFFICES ASSUME NEW k \in 1 .. Len(rows \o page)
               PROVE  /\ BaseOf(scope) + 0 + k <= PlaceOf(scope, total)
                      /\ (rows \o page)[k] = Listed(scope, total)[BaseOf(scope) + 0 + k]
    BY DEF Follows
  <2>3. CASE k <= Len(rows)
    <3>1. k \in 1 .. Len(rows) /\ (rows \o page)[k] = rows[k]
      BY <1>2, <2>3
    <3> QED  BY <2>2, <3>1 DEF Follows
  <2>4. CASE k > Len(rows)
    <3> DEFINE j == k - Len(rows)
    <3>1. j \in 1 .. Len(page) /\ (rows \o page)[k] = page[j]
      BY <1>2, <2>4
    <3>2. /\ BaseOf(scope) + Len(rows) + j <= PlaceOf(scope, total)
          /\ page[j] = Listed(scope, total)[BaseOf(scope) + Len(rows) + j]
      BY <2>2, <3>1 DEF Follows
    <3>3. BaseOf(scope) + Len(rows) + j = BaseOf(scope) + 0 + k
      BY <1>2
    <3> QED  BY <3>1, <3>2, <3>3
  <2> QED  BY <1>2, <2>3, <2>4
<1>5. mixed' \/ Misplaced(scope') \/ Follows(rows', scope', 0, total')
  BY <1>1, <1>4
<1> QED  BY <1>3, <1>5 DEF RowsFollow

LEMMA GrowthFollows ==
    ASSUME Inv, Shape', GrowthLands
    PROVE  RowsFollow' /\ PagesFollow'
<1> DEFINE held == IF Len(growth.held) < total THEN growth.held ELSE <<>>
           all == Listed(Everything, total)
           rest == SubSeq(all, Len(held) + 1, total)
<1>1. /\ rows' = held \o rest /\ UNCHANGED <<total, scope, fill>>
      /\ mixed' = (mixed \/ scope # Everything \/ growth.held # rows)
  BY DEF GrowthLands
<1>2. total \in Nat /\ 1 .. total \subseteq EventIndexes
  BY EventsAreNumbers DEF Inv, Shape
<1>3. PlaceOf(Everything, total) = total /\ \A k \in 1 .. total : all[k] = k
  BY <1>2, EverythingIsPlain, PlainIsTheSession
<1>4. ASSUME ~mixed'
      PROVE  Follows(rows', scope', 0, total')
  <2>1. scope = Everything /\ growth.held = rows /\ ~mixed
    BY <1>1, <1>4
  <2>2. Follows(rows, Everything, 0, total)
    BY <2>1, EverythingIsPlain DEF Inv, RowsFollow, Misplaced
  <2>3. \A k \in 1 .. Len(rows) : k <= total /\ rows[k] = k
    BY <1>3, <2>2, EverythingIsPlain DEF Follows, Inv, Shape
  <2>4. /\ held \in Seq(EventIndexes) /\ Len(held) \in 0 .. total
        /\ \A k \in 1 .. Len(held) : held[k] = k
    BY <1>2, <2>1, <2>3 DEF Inv, Shape
  <2> HIDE DEF held, all
  <2>5. /\ rest \in Seq(EventIndexes) /\ Len(rest) = total - Len(held)
        /\ \A i \in 1 .. Len(rest) : rest[i] = Len(held) + i
    <3>1. \A i \in Len(held) + 1 .. total : all[i] \in EventIndexes
      BY <1>2, <1>3, <2>4
    <3>2. /\ rest \in Seq(EventIndexes)
          /\ Len(rest) = IF Len(held) + 1 <= total THEN total - (Len(held) + 1) + 1 ELSE 0
          /\ \A i \in 1 .. total - (Len(held) + 1) + 1 : rest[i] = all[Len(held) + 1 + i - 1]
      BY <1>2, <2>4, <3>1, SubSeqProperties
    <3> QED  BY <1>2, <1>3, <2>4, <3>2
  <2> HIDE DEF rest
  <2>6. Len(rows') = total /\ \A k \in 1 .. total : rows'[k] = k
    BY <1>1, <1>2, <2>4, <2>5
  <2>7. Follows(rows', Everything, 0, total)
    BY <1>2, <1>3, <2>6, EverythingIsPlain DEF Follows, all
  <2> QED  BY <1>1, <2>1, <2>7
<1>5. \A t \in Fillers : PageFollows(fill'[t], total')
  BY <1>1, <1>2, PageLeftAlone
<1> QED  BY <1>4, <1>5 DEF RowsFollow, PagesFollow, PageFollows

LEMMA RowsAreKept ==
    ASSUME Inv, Shape', [TimelineNext]_timelineVars
    PROVE  RowsFollow' /\ PagesFollow'
<1>0. total \in Nat
  BY EventsAreNumbers DEF Inv, Shape
<1>1. CASE Edit \/ PickTurn \/ StepTurn \/ PassFails
  <2>1. UNCHANGED <<total, rowVars, fill, growth>>
    BY <1>1, TurnIsSet DEF Edit, SetsTurn, PassFails
  <2> QED  BY <1>0, <2>1, NothingIsAsked DEF rowVars
<1>2. CASE PassStep
  <2>1. CASE PassBegins \/ PassChecks \/ PassEnds \/ DebounceFires
    BY <1>0, <2>1, NothingIsAsked DEF PassBegins, PassChecks, PassEnds, DebounceFires, rowVars
  <2> QED  BY <1>2, <2>1, PassReplyFollows DEF PassStep
<1>3. ASSUME NEW t \in Fillers,
             NeedMore(t) \/ FillStarts(t) \/ FillReplies(t) \/ FillAppends(t) \/ FillFails(t)
      PROVE  RowsFollow' /\ PagesFollow'
  <2>1. CASE NeedMore(t) \/ FillStarts(t) \/ FillFails(t)
    <3>1. PICK r : fill' = [fill EXCEPT ![t] = r] /\ r.pc # "append"
      <4>1. /\ NoFill.pc # "append" /\ [NoFill EXCEPT !.pc = "start"].pc # "append"
            /\ [NoFill EXCEPT !.pc = "reply", !.ask = filter, !.held = Len(rows)].pc # "append"
        BY DEF NoFill
      <4> HIDE DEF NoFill
      <4>2. CASE NeedMore(t)
        BY <4>1, <4>2 DEF NeedMore, FillSteps
      <4>3. CASE FillStarts(t)
        BY <4>1, <4>3 DEF FillStarts, FillSteps
      <4>4. CASE FillFails(t)
        BY <4>1, <4>4 DEF FillFails, FillSteps
      <4> QED  BY <2>1, <4>2, <4>3, <4>4
    <3>2. UNCHANGED <<total, rows, scope, mixed>>
      BY <2>1 DEF NeedMore, FillStarts, FillFails, rowVars
    <3>3. PagesFollow'
      BY <3>1, <3>2, OneFills DEF PageFollows
    <3> QED  BY <1>0, <3>2, <3>3, RowsLeftAlone
  <2> QED  BY <1>3, <2>1, FillReplyFollows, FillAppendFollows
<1>4. CASE AgentAdds
  BY <1>0, <1>4, NothingIsAsked DEF AgentAdds, rowVars
<1>5. CASE GrowthStarts
  BY <1>0, <1>5, NothingIsAsked DEF GrowthStarts
<1>6. CASE UNCHANGED timelineVars
  BY <1>0, <1>6, NothingIsAsked DEF timelineVars, rowVars
<1> QED
  BY <1>1, <1>2, <1>3, <1>4, <1>5, <1>6, GrowthFollows DEF TimelineNext

-----------------------------------------------------------------------------
(* The theorems. *)

LEMMA InvImpliesPrefix == Inv => RowsAreAPrefix
<1> SUFFICES ASSUME Inv, ~mixed, ~Misplaced(scope)
             PROVE  IsPrefix(rows, ScopeList(scope))
  BY DEF RowsAreAPrefix
<1> DEFINE all == Listed(scope, total)
           list == SubSeq(all, BaseOf(scope) + 1, Len(all))
<1>1. /\ rows \in Seq(EventIndexes) /\ total \in Nat /\ BaseOf(scope) \in Nat
      /\ Follows(rows, scope, 0, total)
  BY EventsAreNumbers, BaseIsNatural DEF Inv, Shape, RowsFollow
<1>2. all \in Seq(1 .. total) /\ Len(all) = PlaceOf(scope, total) /\ Len(all) \in Nat
  BY <1>1, ListedIsOrdered, MatchingIsFinite
<1> HIDE DEF all
<1>3. \A i \in BaseOf(scope) + 1 .. Len(all) : all[i] \in 1 .. total
  BY <1>1, <1>2
<1>4. /\ list \in Seq(1 .. total)
      /\ Len(list) = IF BaseOf(scope) + 1 <= Len(all) THEN Len(all) - (BaseOf(scope) + 1) + 1 ELSE 0
      /\ \A i \in 1 .. Len(all) - (BaseOf(scope) + 1) + 1 : list[i] = all[BaseOf(scope) + 1 + i - 1]
  <2>1. ASSUME NEW b \in Nat, \A i \in b + 1 .. Len(all) : all[i] \in 1 .. total
        PROVE  /\ SubSeq(all, b + 1, Len(all)) \in Seq(1 .. total)
               /\ Len(SubSeq(all, b + 1, Len(all)))
                     = IF b + 1 <= Len(all) THEN Len(all) - (b + 1) + 1 ELSE 0
               /\ \A i \in 1 .. Len(all) - (b + 1) + 1 :
                     SubSeq(all, b + 1, Len(all))[i] = all[b + 1 + i - 1]
    BY <1>2, <2>1, SubSeqProperties
  <2> QED  BY <1>1, <1>3, <2>1
<1> HIDE DEF list
<1>5. \A k \in 1 .. Len(rows) :
         /\ k \in 1 .. Len(all) - (BaseOf(scope) + 1) + 1
         /\ rows[k] = all[BaseOf(scope) + 1 + k - 1]
  <2> TAKE k \in 1 .. Len(rows)
  <2>1. BaseOf(scope) + 0 + k <= Len(all) /\ rows[k] = all[BaseOf(scope) + 0 + k]
    BY <1>1, <1>2 DEF Follows, all
  <2>2. k \in Nat \ {0} /\ BaseOf(scope) + 0 + k = BaseOf(scope) + 1 + k - 1
    BY <1>1
  <2> QED  BY <1>1, <1>2, <2>1, <2>2
<1>6. Len(rows) <= Len(list)
  <2>1. CASE Len(rows) = 0
    BY <1>2, <1>4, <2>1, <1>1
  <2>2. CASE Len(rows) # 0
    <3>1. Len(rows) \in 1 .. Len(rows)
      BY <1>1, <2>2
    <3> QED  BY <1>1, <1>2, <1>4, <1>5, <3>1
  <2> QED  BY <2>1, <2>2
<1>7. \A k \in 1 .. Len(rows) : rows[k] = list[k]
  BY <1>4, <1>5
<1>8. IsPrefix(rows, list)
  <2>1. SubSeq(rows, 1, Len(rows)) = rows
    BY <1>1, SubSeqFull
  <2>2. \A i \in 1 .. Len(rows) : list[i] \in EventIndexes
    BY <1>1, <1>7
  <2>3. /\ SubSeq(list, 1, Len(rows)) \in Seq(EventIndexes)
        /\ Len(SubSeq(list, 1, Len(rows))) = Len(rows)
        /\ \A i \in 1 .. Len(rows) : SubSeq(list, 1, Len(rows))[i] = list[i]
    <3>1. /\ SubSeq(list, 1, Len(rows)) \in Seq(EventIndexes)
          /\ Len(SubSeq(list, 1, Len(rows))) = IF 1 <= Len(rows) THEN Len(rows) - 1 + 1 ELSE 0
          /\ \A i \in 1 .. Len(rows) - 1 + 1 : SubSeq(list, 1, Len(rows))[i] = list[1 + i - 1]
      BY <1>1, <2>2, SubSeqProperties
    <3> QED  BY <1>1, <3>1
  <2>4. SubSeq(list, 1, Len(rows)) = rows
    BY <1>1, <1>7, <2>3, SeqEqual
  <2> QED  BY <1>6, <2>1, <2>4 DEF IsPrefix
<1>9. ScopeList(scope) = list
  BY DEF ScopeList, list, all
<1> QED  BY <1>8, <1>9

LEMMA InvIsInductive == TimelineSpec => []Inv
<1>1. TimelineInit => Inv
  BY InitShape, InitFollows DEF Inv
<1>2. Inv /\ [TimelineNext]_timelineVars => Inv'
  BY ShapeIsKept, RowsAreKept DEF Inv
<1> QED  BY <1>1, <1>2, PTL DEF TimelineSpec

\* The filters, the list and the count keep their types, and a pass runs just
\* while SearchFlight says that one does.
THEOREM TimelineTyped == TimelineSpec => []TimelineTypeOK
<1>1. Inv => TimelineTypeOK
  BY DEF Inv, Shape, TimelineTypeOK, AnyFilter, EventIndexes
<1> QED  BY <1>1, InvIsInductive, PTL

\* However pages, growth and passes follow one another, in whatever number of
\* threads, the rows are the list of one filter from its start, unless a reply
\* came to rows it was not asked for or the first page is a misplaced one.
THEOREM RowsAlwaysAPrefix == TimelineSpec => []RowsAreAPrefix
BY InvImpliesPrefix, InvIsInductive, PTL

-----------------------------------------------------------------------------
(* Turns: lists of places in a timeline. *)

\* A row of a parsed timeline: a start has a number.
Gained == {e \in [kind : Kinds, n : AnyNumber] : IsStart(e) => e.n \in Nat}
Segs == [n : AnyNumber, open : BOOLEAN, at : Seq(Nat)]
Distinct(s) == \A p, q \in DOMAIN s : s[p] = s[q] => p = q

LEMMA NumbersGained == ASSUME NEW e \in Gained PROVE e.n \in AnyNumber
BY DEF Gained, AnyNumber

LEMMA NoSegmentFits == NoSegment \in Segs /\ Distinct(NoSegment.at) /\ Range(NoSegment.at) = {}
BY DEF NoSegment, Segment, Segs, AnyNumber, Distinct, Range

LEMMA AppendAt ==
    ASSUME NEW s \in Seq(Nat), NEW i \in Nat, Distinct(s), i \notin Range(s)
    PROVE  /\ Append(s, i) \in Seq(Nat) /\ Distinct(Append(s, i))
           /\ Range(Append(s, i)) = Range(s) \union {i}
<1> DEFINE t == Append(s, i)
<1>1. /\ t \in Seq(Nat) /\ DOMAIN s = 1 .. Len(s) /\ DOMAIN t = 1 .. Len(s) + 1 /\ Len(s) \in Nat
      /\ t[Len(s) + 1] = i /\ \A p \in 1 .. Len(s) : t[p] = s[p]
  OBVIOUS
<1> HIDE DEF t
<1>2. \A p \in 1 .. Len(s) : s[p] # i
  BY <1>1 DEF Range
<1>3. ASSUME NEW p \in DOMAIN t, NEW q \in DOMAIN t, t[p] = t[q] PROVE p = q
  BY <1>1, <1>2, <1>3 DEF Distinct
<1>4. ASSUME NEW x \in Range(t) PROVE x \in Range(s) \union {i}
  BY <1>1, <1>4 DEF Range
<1>5. ASSUME NEW x \in Range(s) \union {i} PROVE x \in Range(t)
  BY <1>1, <1>5 DEF Range
<1>6. Distinct(t) /\ Range(t) = Range(s) \union {i}
  BY <1>3, <1>4, <1>5 DEF Distinct
<1> QED BY <1>1, <1>6 DEF t

LEMMA JoinAt ==
    ASSUME NEW s \in Seq(Nat), NEW t \in Seq(Nat), Distinct(s), Distinct(t),
           Range(s) \cap Range(t) = {}
    PROVE  /\ s \o t \in Seq(Nat) /\ Distinct(s \o t)
           /\ Range(s \o t) = Range(s) \union Range(t)
<1> DEFINE u == s \o t
           m == Len(s)
           n == Len(t)
<1>1. /\ u \in Seq(Nat) /\ m \in Nat /\ n \in Nat
      /\ DOMAIN s = 1 .. m /\ DOMAIN t = 1 .. n /\ DOMAIN u = 1 .. m + n
      /\ \A p \in 1 .. m : u[p] = s[p]
      /\ \A p \in m + 1 .. m + n : u[p] = t[p - m] /\ p - m \in 1 .. n
  OBVIOUS
<1> HIDE DEF u, m, n
<1>2. \A p \in 1 .. m, q \in 1 .. n : s[p] # t[q]
  BY <1>1 DEF Range
<1>3. \A p \in DOMAIN u : p \in 1 .. m \/ p \in m + 1 .. m + n
  BY <1>1
<1>4. ASSUME NEW p \in DOMAIN u, NEW q \in DOMAIN u, u[p] = u[q] PROVE p = q
  <2>1. CASE p \in 1 .. m /\ q \in 1 .. m
    BY <1>1, <1>4, <2>1 DEF Distinct
  <2>2. CASE p \in m + 1 .. m + n /\ q \in m + 1 .. m + n
    <3>1. t[p - m] = t[q - m] /\ p - m \in DOMAIN t /\ q - m \in DOMAIN t
      BY <1>1, <1>4, <2>2
    <3>2. p - m = q - m
      BY <3>1 DEF Distinct
    <3> QED BY <1>1, <2>2, <3>2
  <2>3. CASE p \in 1 .. m /\ q \in m + 1 .. m + n
    BY <1>1, <1>2, <1>4, <2>3
  <2>4. CASE p \in m + 1 .. m + n /\ q \in 1 .. m
    BY <1>1, <1>2, <1>4, <2>4
  <2> QED BY <1>3, <2>1, <2>2, <2>3, <2>4
<1>5. ASSUME NEW x \in Range(u) PROVE x \in Range(s) \union Range(t)
  <2>1. PICK p \in DOMAIN u : u[p] = x
    BY <1>5 DEF Range
  <2> QED BY <1>1, <1>3, <2>1 DEF Range
<1>6. ASSUME NEW x \in Range(s) \union Range(t) PROVE x \in Range(u)
  <2>1. CASE x \in Range(s)
    BY <1>1, <2>1 DEF Range
  <2>2. CASE x \in Range(t)
    <3>1. PICK q \in 1 .. n : t[q] = x
      BY <1>1, <2>2 DEF Range
    <3>2. m + q \in m + 1 .. m + n /\ (m + q) - m = q /\ m + q \in DOMAIN u
      BY <1>1
    <3>3. u[m + q] = x
      BY <1>1, <3>1, <3>2
    <3> QED BY <3>2, <3>3 DEF Range
  <2> QED BY <1>6, <2>1, <2>2
<1>7. Distinct(u) /\ Range(u) = Range(s) \union Range(t)
  BY <1>4, <1>5, <1>6 DEF Distinct
<1> QED BY <1>1, <1>7 DEF u

-----------------------------------------------------------------------------
(* Segments that hold each of a set of places once. *)

Spread(segs, S) ==
    /\ segs \in Seq(Segs)
    /\ \A k \in DOMAIN segs : Distinct(segs[k].at)
    /\ \A k, l \in DOMAIN segs : k # l => Range(segs[k].at) \cap Range(segs[l].at) = {}
    /\ \A i : i \in S <=> \E k \in DOMAIN segs : i \in Range(segs[k].at)

LEMMA SpreadNone == Spread(<<>>, {})
BY DEF Spread

LEMMA SpreadMore ==
    ASSUME NEW segs, NEW S, Spread(segs, S), NEW x \in Segs, Distinct(x.at),
           Range(x.at) \cap S = {}
    PROVE  Spread(Append(segs, x), S \union Range(x.at))
<1> DEFINE new == Append(segs, x)
           n == Len(segs)
<1>1. segs \in Seq(Segs)
  BY DEF Spread
<1>2. /\ new \in Seq(Segs) /\ n \in Nat /\ DOMAIN segs = 1 .. n /\ DOMAIN new = 1 .. n + 1
      /\ new[n + 1] = x /\ \A k \in 1 .. n : new[k] = segs[k]
  BY <1>1
<1> HIDE DEF new, n
<1>3. \A k \in DOMAIN new : k \in DOMAIN segs \/ k = n + 1
  BY <1>2
<1>4. \A k \in DOMAIN segs : Range(segs[k].at) \subseteq S
  BY DEF Spread
<1>5. \A k \in DOMAIN new : Distinct(new[k].at)
  BY <1>2, <1>3 DEF Spread
<1>6. ASSUME NEW k \in DOMAIN new, NEW l \in DOMAIN new, k # l
      PROVE  Range(new[k].at) \cap Range(new[l].at) = {}
  <2>1. CASE k \in DOMAIN segs /\ l \in DOMAIN segs
    BY <1>2, <1>6, <2>1 DEF Spread
  <2>2. CASE k \in DOMAIN segs /\ l = n + 1
    BY <1>2, <1>4, <2>2
  <2>3. CASE k = n + 1 /\ l \in DOMAIN segs
    BY <1>2, <1>4, <2>3
  <2> QED BY <1>3, <1>6, <2>1, <2>2, <2>3
<1>7. ASSUME NEW i
      PROVE  i \in S \union Range(x.at) <=> \E k \in DOMAIN new : i \in Range(new[k].at)
  <2>1. ASSUME i \in S PROVE \E k \in DOMAIN new : i \in Range(new[k].at)
    <3>1. PICK k \in DOMAIN segs : i \in Range(segs[k].at)
      BY <2>1 DEF Spread
    <3>2. k \in DOMAIN new /\ new[k] = segs[k]
      BY <1>2
    <3> QED BY <3>1, <3>2
  <2>2. ASSUME i \in Range(x.at) PROVE \E k \in DOMAIN new : i \in Range(new[k].at)
    <3>1. n + 1 \in DOMAIN new
      BY <1>2
    <3> QED BY <1>2, <2>2, <3>1
  <2>3. ASSUME NEW k \in DOMAIN new, i \in Range(new[k].at) PROVE i \in S \union Range(x.at)
    BY <1>2, <1>3, <1>4, <2>3
  <2> QED BY <2>1, <2>2, <2>3
<1>8. Spread(new, S \union Range(x.at))
  BY <1>2, <1>5, <1>6, <1>7 DEF Spread
<1> QED BY <1>8 DEF new

LEMMA SpreadOnto ==
    ASSUME NEW segs, NEW S, Spread(segs, S), NEW k \in DOMAIN segs, NEW x \in Segs,
           Distinct(x.at), NEW B, B \cap S = {}, Range(x.at) = Range(segs[k].at) \union B
    PROVE  Spread([segs EXCEPT ![k] = x], S \union B)
<1> DEFINE new == [segs EXCEPT ![k] = x]
<1>1. segs \in Seq(Segs)
  BY DEF Spread
<1>2. /\ new \in Seq(Segs) /\ DOMAIN new = DOMAIN segs
      /\ new[k] = x /\ \A l \in DOMAIN segs : l # k => new[l] = segs[l]
  BY <1>1
<1> HIDE DEF new
<1>3. \A l \in DOMAIN segs : Range(segs[l].at) \subseteq S
  BY DEF Spread
<1>4. \A l \in DOMAIN new : Distinct(new[l].at)
  BY <1>2 DEF Spread
<1>5. \A l \in DOMAIN segs : l # k => Range(x.at) \cap Range(segs[l].at) = {}
  <2>1. \A l \in DOMAIN segs : l # k => Range(segs[k].at) \cap Range(segs[l].at) = {}
    BY DEF Spread
  <2> QED BY <1>3, <2>1
<1>6. ASSUME NEW l \in DOMAIN new, NEW m \in DOMAIN new, l # m
      PROVE  Range(new[l].at) \cap Range(new[m].at) = {}
  <2>1. CASE l # k /\ m # k
    BY <1>2, <1>6, <2>1 DEF Spread
  <2>2. CASE l = k
    BY <1>2, <1>5, <1>6, <2>2
  <2>3. CASE m = k
    BY <1>2, <1>5, <1>6, <2>3
  <2> QED BY <2>1, <2>2, <2>3
<1>7. ASSUME NEW i
      PROVE  i \in S \union B <=> \E l \in DOMAIN new : i \in Range(new[l].at)
  <2>1. ASSUME i \in S PROVE \E l \in DOMAIN new : i \in Range(new[l].at)
    <3>1. PICK l \in DOMAIN segs : i \in Range(segs[l].at)
      BY <2>1 DEF Spread
    <3> QED BY <1>2, <3>1
  <2>2. ASSUME i \in B PROVE \E l \in DOMAIN new : i \in Range(new[l].at)
    BY <1>2, <2>2
  <2>3. ASSUME NEW l \in DOMAIN new, i \in Range(new[l].at) PROVE i \in S \union B
    BY <1>2, <1>3, <2>3
  <2> QED BY <2>1, <2>2, <2>3
<1>8. Spread(new, S \union B)
  BY <1>2, <1>4, <1>6, <1>7 DEF Spread
<1> QED BY <1>8 DEF new

\* An event of theirs is at one place.
LEMMA OnePlace ==
    ASSUME NEW segs, NEW S, Spread(segs, S), NEW i
    PROVE  /\ i \in S => \E k \in DOMAIN segs : \E p \in DOMAIN segs[k].at :
                            segs[k].at[p] = i /\ Places(segs, i) = {<<k, p>>}
           /\ i \notin S => Places(segs, i) = {}
<1>1. \A x : x \in Places(segs, i)
             <=> \E k \in DOMAIN segs : \E p \in DOMAIN segs[k].at :
                    segs[k].at[p] = i /\ x = <<k, p>>
  BY DEF Places
<1>2. ASSUME i \in S
      PROVE  \E k \in DOMAIN segs : \E p \in DOMAIN segs[k].at :
                segs[k].at[p] = i /\ Places(segs, i) = {<<k, p>>}
  <2>1. PICK k \in DOMAIN segs : i \in Range(segs[k].at)
    BY <1>2 DEF Spread
  <2>2. PICK p \in DOMAIN segs[k].at : segs[k].at[p] = i
    BY <2>1 DEF Range
  <2>3. ASSUME NEW l \in DOMAIN segs, NEW q \in DOMAIN segs[l].at, segs[l].at[q] = i
        PROVE  l = k /\ q = p
    <3>1. i \in Range(segs[l].at)
      BY <2>3 DEF Range
    <3>2. l = k
      BY <2>1, <3>1 DEF Spread
    <3>3. Distinct(segs[k].at)
      BY DEF Spread
    <3> QED BY <2>2, <2>3, <3>2, <3>3 DEF Distinct
  <2>4. Places(segs, i) = {<<k, p>>}
    BY <1>1, <2>2, <2>3
  <2> QED BY <2>2, <2>4
<1>3. ASSUME i \notin S PROVE Places(segs, i) = {}
  <2>1. \A k \in DOMAIN segs : i \notin Range(segs[k].at)
    BY <1>3 DEF Spread
  <2> QED BY <1>1, <2>1 DEF Range
<1> QED BY <1>2, <1>3

-----------------------------------------------------------------------------
(* The pass that cuts. *)

PassOf(tl, n, f) ==
    f = [i \in 0 .. n |-> IF i = 0 THEN NothingCut ELSE Step(tl, f[i - 1], i)]

LEMMA PassOne ==
    ASSUME NEW tl, NEW n \in Nat, NEW f, PassOf(tl, n, f)
    PROVE  /\ DOMAIN f = 0 .. n /\ f[0] = NothingCut
           /\ \A i \in 1 .. n : f[i] = Step(tl, f[i - 1], i)
<1> DEFINE g == [i \in 0 .. n |-> IF i = 0 THEN NothingCut ELSE Step(tl, f[i - 1], i)]
<1>1. f = g
  BY DEF PassOf
<1>2. DOMAIN g = 0 .. n /\ g[0] = NothingCut /\ \A i \in 1 .. n : g[i] = Step(tl, f[i - 1], i)
  OBVIOUS
<1> HIDE DEF g
<1> QED BY <1>1, <1>2

LEMMA PassExists == ASSUME NEW tl, NEW n \in Nat PROVE \E f : PassOf(tl, n, f)
<1> DEFINE bad == {m \in Nat : ~\E f : PassOf(tl, m, f)}
<1>1. ASSUME bad # {} PROVE FALSE
  <2>1. PICK m \in bad : \A k \in bad : m <= k
    BY <1>1, LeastNatural
  <2>2. CASE m = 0
    <3> DEFINE f == [i \in 0 .. 0 |-> NothingCut]
    <3>1. f = [i \in 0 .. 0 |-> IF i = 0 THEN NothingCut ELSE Step(tl, f[i - 1], i)]
      OBVIOUS
    <3>2. PassOf(tl, 0, f)
      BY <3>1 DEF PassOf
    <3> QED BY <2>1, <2>2, <3>2
  <2>3. CASE m # 0
    <3>1. m - 1 \in Nat /\ m - 1 \notin bad
      BY <2>1, <2>3
    <3>2. PICK g : PassOf(tl, m - 1, g)
      BY <3>1
    <3> DEFINE f == [i \in 0 .. m |-> IF i = m THEN Step(tl, g[m - 1], m) ELSE g[i]]
    <3>3. g[0] = NothingCut /\ \A i \in 1 .. m - 1 : g[i] = Step(tl, g[i - 1], i)
      BY <3>1, <3>2, PassOne
    <3>4. \A i \in 0 .. m - 1 : f[i] = g[i]
      BY <2>1
    <3>5. f[m] = Step(tl, g[m - 1], m)
      BY <2>1
    <3>6. \A i \in 0 .. m : f[i] = IF i = 0 THEN NothingCut ELSE Step(tl, f[i - 1], i)
      <4> TAKE i \in 0 .. m
      <4>1. CASE i = 0
        BY <2>1, <2>3, <3>1, <3>3, <3>4, <4>1
      <4>2. CASE i = m
        <5>1. f[m - 1] = g[m - 1]
          BY <3>1, <3>4
        <5> QED BY <2>3, <3>5, <4>2, <5>1
      <4>3. CASE i \in 1 .. m - 1
        <5>1. f[i] = g[i] /\ f[i - 1] = g[i - 1] /\ i # 0
          BY <2>1, <3>4, <4>3
        <5> QED BY <3>3, <4>3, <5>1
      <4> QED BY <2>1, <4>1, <4>2, <4>3
    <3>7. f = [i \in 0 .. m |-> f[i]]
      OBVIOUS
    <3> HIDE DEF f
    <3>8. PassOf(tl, m, f)
      BY <3>6, <3>7 DEF PassOf
    <3> QED BY <2>1, <3>8
  <2> QED BY <2>2, <2>3
<1> QED BY <1>1

LEMMA PassedSteps ==
    ASSUME NEW tl, Len(tl) \in Nat
    PROVE  /\ Passed(tl)[0] = NothingCut
           /\ \A i \in 1 .. Len(tl) : Passed(tl)[i] = Step(tl, Passed(tl)[i - 1], i)
<1> DEFINE n == Len(tl)
           f == CHOOSE g : PassOf(tl, n, g)
<1>1. PassOf(tl, n, f)
  BY PassExists
<1>2. Passed(tl) = f
  BY DEF Passed, PassOf
<1> HIDE DEF f
<1> QED BY <1>1, <1>2, PassOne

\* The events of turns among the first i.
TurnPlaces(tl, i) == {j \in 1 .. i : ~SessionLevel(tl[j])}

PassFits(tl, s, i) ==
    /\ s = [segs |-> s.segs, cur |-> s.cur]
    /\ s.cur \in Segs /\ Distinct(s.cur.at)
    /\ Range(s.cur.at) \subseteq TurnPlaces(tl, i)
    /\ Spread(s.segs, TurnPlaces(tl, i) \ Range(s.cur.at))

LEMMA AddFits ==
    ASSUME NEW seg \in Segs, Distinct(seg.at), NEW i \in Nat, i \notin Range(seg.at)
    PROVE  /\ Add(seg, i) \in Segs /\ Distinct(Add(seg, i).at)
           /\ Range(Add(seg, i).at) = Range(seg.at) \union {i}
<1>1. Add(seg, i) = [n |-> seg.n, open |-> seg.open, at |-> Append(seg.at, i)]
  <2>1. \A t : [seg EXCEPT !.at = t] = [n |-> seg.n, open |-> seg.open, at |-> t]
    BY DEF Segs
  <2> QED BY <2>1, Zenon DEF Add
<1>2. seg.at \in Seq(Nat) /\ seg.n \in AnyNumber /\ seg.open \in BOOLEAN
  BY DEF Segs
<1>3. /\ Append(seg.at, i) \in Seq(Nat) /\ Distinct(Append(seg.at, i))
      /\ Range(Append(seg.at, i)) = Range(seg.at) \union {i}
  BY <1>2, AppendAt
<1> QED BY <1>1, <1>2, <1>3 DEF Segs

LEMMA OntoLastFits ==
    ASSUME NEW segs, NEW S, Spread(segs, S), segs # <<>>, NEW i \in Nat, i \notin S
    PROVE  /\ Spread(OntoLast(segs, i), S \union {i})
           /\ Spread([OntoLast(segs, i) EXCEPT ![Len(segs)].open = FALSE], S \union {i})
<1> DEFINE n == Len(segs)
           x == Add(segs[n], i)
           y == [x EXCEPT !.open = FALSE]
<1>1. segs \in Seq(Segs) /\ n \in DOMAIN segs /\ segs[n] \in Segs
  <2>1. segs \in Seq(Segs)
    BY DEF Spread
  <2> QED BY <2>1
<1>2. Distinct(segs[n].at) /\ i \notin Range(segs[n].at)
  BY <1>1 DEF Spread
<1>3. /\ x \in Segs /\ Distinct(x.at) /\ Range(x.at) = Range(segs[n].at) \union {i}
  BY <1>1, <1>2, AddFits
<1>4. /\ y \in Segs /\ y.at = x.at
  BY <1>3 DEF Segs
<1>5. OntoLast(segs, i) = [segs EXCEPT ![n] = x]
  BY DEF OntoLast
<1>6. [OntoLast(segs, i) EXCEPT ![n].open = FALSE] = [segs EXCEPT ![n] = y]
  BY <1>1, <1>5
<1>7. {i} \cap S = {}
  OBVIOUS
<1> HIDE DEF n, x, y
<1>8. Spread([segs EXCEPT ![n] = x], S \union {i})
  BY <1>1, <1>3, <1>7, SpreadOnto
<1>9. Spread([segs EXCEPT ![n] = y], S \union {i})
  BY <1>1, <1>3, <1>4, <1>7, SpreadOnto
<1> QED BY <1>5, <1>6, <1>8, <1>9 DEF n

\* Segment(n, TRUE, <<i>>) and the like.
LEMMA OneEvent ==
    ASSUME NEW n \in AnyNumber, NEW b \in BOOLEAN, NEW i \in Nat
    PROVE  /\ Segment(n, b, <<i>>) \in Segs /\ Distinct(Segment(n, b, <<i>>).at)
           /\ Range(Segment(n, b, <<i>>).at) = {i}
BY DEF Segment, Segs, Distinct, Range

LEMMA StartFits ==
    ASSUME NEW tl, NEW i \in Nat, NEW s, PassFits(tl, s, i), i + 1 \in DOMAIN tl,
           tl[i + 1] \in Gained, ~SessionLevel(tl[i + 1])
    PROVE  PassFits(tl, StartStep(tl, s, i + 1), i + 1)
<1> DEFINE T == TurnPlaces(tl, i)
           U == TurnPlaces(tl, i + 1)
           R == Range(s.cur.at)
           e == tl[i + 1]
           t == StartStep(tl, s, i + 1)
<1>1. U = T \union {i + 1} /\ i + 1 \notin T
  BY DEF TurnPlaces
<1>2. e.n \in AnyNumber
  BY NumbersGained
<1>3. /\ s = [segs |-> s.segs, cur |-> s.cur] /\ s.cur \in Segs /\ Distinct(s.cur.at)
      /\ R \subseteq T /\ Spread(s.segs, T \ R)
  BY DEF PassFits
<1> HIDE DEF T, U, R
<1>4. CASE s.cur # NoSegment /\ ~Started(tl, s.cur)
  <2> DEFINE c == [Add(s.cur, i + 1) EXCEPT !.n = IF e.n = Unnumbered THEN @ ELSE e.n]
  <2>1. t = [segs |-> s.segs, cur |-> c]
    <3>1. t = [s EXCEPT !.cur = c]
      BY <1>4, Zenon DEF StartStep
    <3> HIDE DEF c, t
    <3> QED BY <1>3, <3>1
  <2>2. /\ Add(s.cur, i + 1) \in Segs /\ Distinct(Add(s.cur, i + 1).at)
        /\ Range(Add(s.cur, i + 1).at) = R \union {i + 1}
    BY <1>1, <1>3, AddFits DEF R
  <2>3. c \in Segs /\ c.at = Add(s.cur, i + 1).at
    BY <1>2, <2>2 DEF Segs
  <2>4. U \ (R \union {i + 1}) = T \ R
    BY <1>1, <1>3
  <2> HIDE DEF c, t
  <2>5. t.segs = s.segs /\ t.cur = c /\ t = [segs |-> t.segs, cur |-> t.cur]
    BY <2>1
  <2>6. Range(t.cur.at) = R \union {i + 1} /\ Distinct(t.cur.at) /\ t.cur \in Segs
    BY <2>2, <2>3, <2>5
  <2>7. Spread(t.segs, U \ Range(t.cur.at)) /\ Range(t.cur.at) \subseteq U
    BY <1>1, <1>3, <2>4, <2>5, <2>6
  <2> QED BY <2>5, <2>6, <2>7 DEF PassFits, t, U
<1>5. CASE ~(s.cur # NoSegment /\ ~Started(tl, s.cur))
  <2> DEFINE c == Segment(e.n, TRUE, <<i + 1>>)
             x == [s.cur EXCEPT !.open = FALSE]
             g == IF s.cur = NoSegment THEN s.segs ELSE Append(s.segs, x)
  <2>1. t = [segs |-> g, cur |-> c]
    BY <1>5, Zenon DEF StartStep
  <2>2. c \in Segs /\ Distinct(c.at) /\ Range(c.at) = {i + 1}
    <3>1. i + 1 \in Nat /\ TRUE \in BOOLEAN
      OBVIOUS
    <3> QED BY <1>2, <3>1, OneEvent
  <2>3. x \in Segs /\ x.at = s.cur.at
    BY <1>3 DEF Segs
  <2>4. U \ {i + 1} = T
    BY <1>1
  <2>5. Spread(g, T)
    <3>1. CASE s.cur = NoSegment
      <4>1. R = {}
        BY <3>1, NoSegmentFits DEF R
      <4>2. T \ R = T
        BY <4>1
      <4> QED BY <1>3, <3>1, <4>2
    <3>2. CASE s.cur # NoSegment
      <4>1. Range(x.at) = R /\ Distinct(x.at)
        BY <1>3, <2>3 DEF R
      <4>2. R \cap (T \ R) = {} /\ (T \ R) \union R = T
        BY <1>3
      <4> HIDE DEF x
      <4>3. Spread(Append(s.segs, x), (T \ R) \union R)
        BY <1>3, <2>3, <4>1, <4>2, SpreadMore
      <4> QED BY <3>2, <4>2, <4>3
    <3> QED BY <3>1, <3>2
  <2> HIDE DEF c, g, t
  <2>6. t.segs = g /\ t.cur = c /\ t = [segs |-> t.segs, cur |-> t.cur]
    BY <2>1
  <2>7. Range(t.cur.at) = {i + 1} /\ Distinct(t.cur.at) /\ t.cur \in Segs
    BY <2>2, <2>6
  <2>8. Spread(t.segs, U \ Range(t.cur.at)) /\ Range(t.cur.at) \subseteq U
    BY <1>1, <2>4, <2>5, <2>6, <2>7
  <2> QED BY <2>6, <2>7, <2>8 DEF PassFits, t, U
<1> QED BY <1>4, <1>5

\* What a step gives fits if what it closed and what is open do.
LEMMA FitsAnew ==
    ASSUME NEW tl, NEW i \in Nat, NEW segs, NEW cur \in Segs, Distinct(cur.at),
           i + 1 \in DOMAIN tl, ~SessionLevel(tl[i + 1]),
           Range(cur.at) \subseteq TurnPlaces(tl, i) \union {i + 1},
           NEW S, Spread(segs, S), S = (TurnPlaces(tl, i) \union {i + 1}) \ Range(cur.at)
    PROVE  PassFits(tl, [segs |-> segs, cur |-> cur], i + 1)
<1>1. TurnPlaces(tl, i + 1) = TurnPlaces(tl, i) \union {i + 1}
  BY DEF TurnPlaces
<1> DEFINE t == [segs |-> segs, cur |-> cur]
<1>2. t.segs = segs /\ t.cur = cur /\ t = [segs |-> t.segs, cur |-> t.cur]
  OBVIOUS
<1> HIDE DEF t
<1> QED BY <1>1, <1>2 DEF PassFits, t

LEMMA EndFits ==
    ASSUME NEW tl, NEW i \in Nat, NEW s, PassFits(tl, s, i), i + 1 \in DOMAIN tl,
           tl[i + 1] \in Gained, ~SessionLevel(tl[i + 1])
    PROVE  PassFits(tl, EndStep(tl, s, i + 1), i + 1)
<1> DEFINE T == TurnPlaces(tl, i)
           R == Range(s.cur.at)
           j == i + 1
           late == s.cur # NoSegment /\ tl[j].kind = "ended" /\ ~Started(tl, s.cur) /\ s.segs # <<>>
           t == EndStep(tl, s, j)
           closing == [OntoLast(s.segs, j) EXCEPT ![Len(s.segs)].open = FALSE]
<1>1. j \notin T /\ j \in Nat
  BY DEF TurnPlaces
<1>3. /\ s = [segs |-> s.segs, cur |-> s.cur] /\ s.cur \in Segs /\ Distinct(s.cur.at)
      /\ R \subseteq T /\ Spread(s.segs, T \ R)
  BY DEF PassFits
<1>4. s.cur = NoSegment => R = {}
  BY NoSegmentFits
<1>5. Unnumbered \in AnyNumber
  BY DEF AnyNumber
<1>6. s.segs # <<>> => Spread(closing, (T \ R) \union {j})
  BY <1>1, <1>3, OntoLastFits
<1> HIDE DEF T, R
<1>7. CASE late
  <2>1. t = [s EXCEPT !.segs = closing]
    BY <1>7 DEF EndStep
  <2>2. t = [segs |-> closing, cur |-> s.cur]
    BY <1>3, <2>1
  <2>3. (T \ R) \union {j} = (T \union {j}) \ R /\ R \subseteq T \union {j}
    BY <1>1, <1>3
  <2>4. Spread(closing, (T \ R) \union {j})
    BY <1>6, <1>7
  <2> HIDE DEF closing
  <2> QED BY <1>3, <2>2, <2>3, <2>4, FitsAnew DEF T, R
<1>8. CASE ~late /\ s.cur # NoSegment
  <2> DEFINE x == [Add(s.cur, j) EXCEPT !.open = FALSE]
  <2>1. t = [segs |-> Append(s.segs, x), cur |-> NoSegment]
    BY <1>8 DEF EndStep
  <2>2. /\ Add(s.cur, j) \in Segs /\ Distinct(Add(s.cur, j).at)
        /\ Range(Add(s.cur, j).at) = R \union {j}
    BY <1>1, <1>3, AddFits DEF R
  <2>3. x \in Segs /\ x.at = Add(s.cur, j).at
    BY <2>2 DEF Segs
  <2>4. Range(x.at) = R \union {j} /\ Distinct(x.at)
    BY <2>2, <2>3
  <2>5. (R \union {j}) \cap (T \ R) = {} /\ (T \ R) \union (R \union {j}) = T \union {j}
    BY <1>1, <1>3
  <2> HIDE DEF x
  <2>6. Spread(Append(s.segs, x), (T \ R) \union (R \union {j}))
    BY <1>3, <2>3, <2>4, <2>5, SpreadMore
  <2>7. (T \union {j}) \ {} = T \union {j} /\ {} \subseteq T \union {j}
    OBVIOUS
  <2> QED BY <2>1, <2>5, <2>6, <2>7, NoSegmentFits, FitsAnew DEF T
<1>9. CASE s.cur = NoSegment /\ s.segs # <<>>
  <2>1. t = [s EXCEPT !.segs = closing]
    BY <1>9 DEF EndStep
  <2>2. t = [segs |-> closing, cur |-> s.cur]
    BY <1>3, <2>1
  <2>3. (T \ R) \union {j} = (T \union {j}) \ R /\ R \subseteq T \union {j}
    BY <1>1, <1>3
  <2>4. Spread(closing, (T \ R) \union {j})
    BY <1>6, <1>9
  <2> HIDE DEF closing
  <2> QED BY <1>3, <2>2, <2>3, <2>4, FitsAnew DEF T, R
<1>10. CASE s.cur = NoSegment /\ s.segs = <<>>
  <2> DEFINE x == Segment(Unnumbered, FALSE, <<j>>)
  <2>1. t = [s EXCEPT !.segs = <<x>>]
    BY <1>10 DEF EndStep
  <2>2. t = [segs |-> Append(s.segs, x), cur |-> s.cur]
    <3>1. Append(s.segs, x) = <<x>>
      BY <1>10
    <3> HIDE DEF x, t
    <3> QED BY <1>3, <2>1, <3>1
  <2>3. x \in Segs /\ Distinct(x.at) /\ Range(x.at) = {j}
    BY <1>1, <1>5, OneEvent
  <2>4. /\ {j} \cap (T \ R) = {} /\ (T \ R) \union {j} = (T \union {j}) \ R
        /\ R \subseteq T \union {j}
    BY <1>1, <1>3
  <2> HIDE DEF x
  <2>5. Spread(Append(s.segs, x), (T \ R) \union {j})
    BY <1>3, <2>3, <2>4, SpreadMore
  <2>6. Spread(Append(s.segs, x), (T \union {j}) \ R)
    BY <2>4, <2>5
  <2>7. R \subseteq T \union {j}
    BY <2>4
  <2> QED BY <1>3, <2>2, <2>6, <2>7, FitsAnew DEF T, R
<1> QED BY <1>7, <1>8, <1>9, <1>10

LEMMA PlainFits ==
    ASSUME NEW tl, NEW i \in Nat, NEW s, PassFits(tl, s, i), i + 1 \in DOMAIN tl,
           tl[i + 1] \in Gained, ~SessionLevel(tl[i + 1])
    PROVE  PassFits(tl, PlainStep(tl, s, i + 1), i + 1)
<1> DEFINE T == TurnPlaces(tl, i)
           R == Range(s.cur.at)
           j == i + 1
           t == PlainStep(tl, s, j)
<1>1. j \notin T /\ j \in Nat
  BY DEF TurnPlaces
<1>3. /\ s = [segs |-> s.segs, cur |-> s.cur] /\ s.cur \in Segs /\ Distinct(s.cur.at)
      /\ R \subseteq T /\ Spread(s.segs, T \ R)
  BY DEF PassFits
<1>4. s.cur = NoSegment => R = {}
  BY NoSegmentFits
<1>5. Unnumbered \in AnyNumber
  BY DEF AnyNumber
<1>6. s.segs # <<>> => Spread(OntoLast(s.segs, j), (T \ R) \union {j})
  BY <1>1, <1>3, OntoLastFits
<1> HIDE DEF T, R
<1>7. CASE s.cur # NoSegment
  <2>1. t = [s EXCEPT !.cur = Add(s.cur, j)]
    BY <1>7 DEF PlainStep
  <2>2. t = [segs |-> s.segs, cur |-> Add(s.cur, j)]
    BY <1>3, <2>1
  <2>3. /\ Add(s.cur, j) \in Segs /\ Distinct(Add(s.cur, j).at)
        /\ Range(Add(s.cur, j).at) = R \union {j}
    BY <1>1, <1>3, AddFits DEF R
  <2>4. T \ R = (T \union {j}) \ (R \union {j}) /\ R \union {j} \subseteq T \union {j}
    BY <1>1, <1>3
  <2> QED BY <1>3, <2>2, <2>3, <2>4, FitsAnew DEF T
<1>8. CASE s.cur = NoSegment /\ (s.segs = <<>> \/ tl[j].kind = "user")
  <2> DEFINE x == Segment(Unnumbered, TRUE, <<j>>)
  <2>1. t = [s EXCEPT !.cur = x]
    BY <1>8 DEF PlainStep
  <2>2. t = [segs |-> s.segs, cur |-> x]
    BY <1>3, <2>1
  <2>3. x \in Segs /\ Distinct(x.at) /\ Range(x.at) = {j}
    BY <1>1, <1>5, OneEvent
  <2>4. T \ R = (T \union {j}) \ {j} /\ {j} \subseteq T \union {j}
    BY <1>1, <1>4, <1>8
  <2> HIDE DEF x
  <2> QED BY <1>3, <2>2, <2>3, <2>4, FitsAnew DEF T
<1>9. CASE s.cur = NoSegment /\ ~(s.segs = <<>> \/ tl[j].kind = "user")
  <2>1. t = [s EXCEPT !.segs = OntoLast(s.segs, j)]
    BY <1>9 DEF PlainStep
  <2>2. t = [segs |-> OntoLast(s.segs, j), cur |-> s.cur]
    BY <1>3, <2>1
  <2>3. (T \ R) \union {j} = (T \union {j}) \ R
    BY <1>1, <1>3
  <2> QED BY <1>1, <1>3, <1>6, <1>9, <2>2, <2>3, FitsAnew DEF T, R
<1> QED BY <1>7, <1>8, <1>9

LEMMA StepFits ==
    ASSUME NEW tl, NEW i \in Nat, NEW s, PassFits(tl, s, i), i + 1 \in DOMAIN tl,
           tl[i + 1] \in Gained
    PROVE  PassFits(tl, Step(tl, s, i + 1), i + 1)
<1>1. CASE SessionLevel(tl[i + 1])
  <2>1. TurnPlaces(tl, i + 1) = TurnPlaces(tl, i)
    BY <1>1 DEF TurnPlaces
  <2>2. Step(tl, s, i + 1) = s
    BY <1>1 DEF Step, SessionLevel, IsStart, IsEnd
  <2> QED BY <2>1, <2>2 DEF PassFits
<1>2. CASE ~SessionLevel(tl[i + 1])
  <2>1. CASE IsStart(tl[i + 1])
    <3>1. Step(tl, s, i + 1) = StartStep(tl, s, i + 1)
      BY <1>2, <2>1 DEF Step, SessionLevel, IsStart, IsEnd
    <3> QED BY <1>2, <3>1, StartFits
  <2>2. CASE IsEnd(tl[i + 1]) /\ ~IsStart(tl[i + 1])
    <3>1. Step(tl, s, i + 1) = EndStep(tl, s, i + 1)
      BY <1>2, <2>2, Zenon DEF Step
    <3> QED BY <1>2, <3>1, EndFits
  <2>3. CASE ~IsEnd(tl[i + 1]) /\ ~IsStart(tl[i + 1])
    <3>1. Step(tl, s, i + 1) = PlainStep(tl, s, i + 1)
      BY <1>2, <2>3 DEF Step
    <3> QED BY <1>2, <3>1, PlainFits
  <2> QED BY <2>1, <2>2, <2>3
<1> QED BY <1>1, <1>2

LEMMA PassedFits ==
    ASSUME NEW tl \in Seq(Gained), NEW m \in 0 .. Len(tl)
    PROVE  PassFits(tl, Passed(tl)[m], m)
<1> DEFINE f == Passed(tl)
           bad == {i \in 0 .. Len(tl) : ~PassFits(tl, f[i], i)}
<1>1. Len(tl) \in Nat /\ DOMAIN tl = 1 .. Len(tl) /\ \A i \in 1 .. Len(tl) : tl[i] \in Gained
  OBVIOUS
<1>2. f[0] = NothingCut /\ \A i \in 1 .. Len(tl) : f[i] = Step(tl, f[i - 1], i)
  BY <1>1, PassedSteps
<1> HIDE DEF f
<1>3. PassFits(tl, NothingCut, 0)
  <2>1. TurnPlaces(tl, 0) \ {} = {} /\ TurnPlaces(tl, 0) = {}
    BY DEF TurnPlaces
  <2>2. NothingCut.segs = <<>> /\ NothingCut.cur = NoSegment
    BY DEF NothingCut
  <2>3. NothingCut = [segs |-> NothingCut.segs, cur |-> NothingCut.cur]
    BY DEF NothingCut
  <2> QED BY <2>1, <2>2, <2>3, NoSegmentFits, SpreadNone DEF PassFits
<1>4. ASSUME bad # {} PROVE FALSE
  <2>1. bad \subseteq Nat
    BY <1>1
  <2>2. PICK i \in bad : \A k \in bad : i <= k
    BY <1>4, <2>1, LeastNatural
  <2>3. CASE i = 0
    BY <1>2, <1>3, <2>2, <2>3
  <2>4. CASE i # 0
    <3>1. i - 1 \in Nat /\ i - 1 \in 0 .. Len(tl) /\ i \in 1 .. Len(tl) /\ (i - 1) + 1 = i
      BY <1>1, <2>2, <2>4
    <3>2. i - 1 \notin bad
      BY <2>2, <3>1
    <3>3. PassFits(tl, f[i - 1], i - 1)
      BY <3>1, <3>2
    <3>4. PassFits(tl, Step(tl, f[i - 1], i), i)
      BY <1>1, <3>1, <3>3, StepFits
    <3> QED BY <1>2, <2>2, <3>1, <3>4
  <2> QED BY <2>3, <2>4
<1> QED BY <1>4 DEF f

LEMMA ClosedSpreads ==
    ASSUME NEW tl, NEW s, NEW i, PassFits(tl, s, i)
    PROVE  Spread(Closed(s), TurnPlaces(tl, i))
<1> DEFINE T == TurnPlaces(tl, i)
           R == Range(s.cur.at)
<1>1. s.cur \in Segs /\ Distinct(s.cur.at) /\ R \subseteq T /\ Spread(s.segs, T \ R)
  BY DEF PassFits
<1> HIDE DEF T
<1>2. CASE s.cur = NoSegment
  <2>1. T \ R = T
    BY <1>2, NoSegmentFits
  <2> QED BY <1>1, <1>2, <2>1 DEF Closed, T
<1>3. CASE s.cur # NoSegment
  <2>1. R \cap (T \ R) = {} /\ (T \ R) \union R = T
    BY <1>1
  <2>2. Spread(Append(s.segs, s.cur), (T \ R) \union R)
    BY <1>1, <2>1, SpreadMore
  <2> QED BY <1>3, <2>1, <2>2 DEF Closed, T
<1> QED BY <1>2, <1>3

LEMMA CutSpreads ==
    ASSUME NEW tl \in Seq(Gained)
    PROVE  Spread(Cut(tl), TurnPlaces(tl, Len(tl)))
<1>1. Len(tl) \in 0 .. Len(tl)
  OBVIOUS
<1> QED BY <1>1, PassedFits, ClosedSpreads DEF Cut

-----------------------------------------------------------------------------
(* The pass that joins what was never started, and the numbers. *)

LEMMA SpreadSame ==
    ASSUME NEW segs, NEW S, Spread(segs, S), NEW new \in Seq(Segs),
           DOMAIN new = DOMAIN segs, \A k \in DOMAIN segs : new[k].at = segs[k].at
    PROVE  Spread(new, S)
BY DEF Spread

LEMMA StampedFits ==
    ASSUME NEW segs, NEW S, Spread(segs, S)
    PROVE  /\ Spread(Stamped(segs), S)
           /\ DOMAIN Stamped(segs) = DOMAIN segs
           /\ \A k \in DOMAIN segs : Stamped(segs)[k].at = segs[k].at
           /\ segs # <<>> => \E k \in DOMAIN segs : Stamped(segs)[k].n # Unnumbered
<1> DEFINE new == [k \in DOMAIN segs |-> [segs[k] EXCEPT !.n = k - 1]]
           n == Len(segs)
<1>1. segs \in Seq(Segs) /\ n \in Nat /\ DOMAIN segs = 1 .. n /\ \A k \in 1 .. n : segs[k] \in Segs
  <2>1. segs \in Seq(Segs)
    BY DEF Spread
  <2> QED BY <2>1
<1> HIDE DEF n
<1>2. CASE \E k \in DOMAIN segs : segs[k].n # Unnumbered
  <2>1. Stamped(segs) = segs
    BY <1>2 DEF Stamped
  <2> QED BY <1>2, <2>1
<1>3. CASE ~\E k \in DOMAIN segs : segs[k].n # Unnumbered
  <2>1. Stamped(segs) = new
    BY <1>3 DEF Stamped
  <2>2. \A k \in 1 .. n : new[k] \in Segs /\ new[k].at = segs[k].at /\ new[k].n = k - 1
    <3> TAKE k \in 1 .. n
    <3>1. new[k] = [segs[k] EXCEPT !.n = k - 1]
      BY <1>1
    <3>2. k - 1 \in AnyNumber
      BY <1>1 DEF AnyNumber
    <3> HIDE DEF new
    <3> QED BY <1>1, <3>1, <3>2 DEF Segs
  <2>3. DOMAIN new = 1 .. n
    BY <1>1
  <2>4. new = [k \in 1 .. n |-> new[k]]
    BY <1>1
  <2> HIDE DEF new
  <2>5. new \in Seq(Segs)
    BY <1>1, <2>2, <2>4
  <2>6. Spread(new, S)
    BY <1>1, <2>2, <2>3, <2>5, SpreadSame
  <2>7. segs # <<>> => 1 \in 1 .. n /\ new[1].n # Unnumbered
    <3>1. segs # <<>> => n # 0
      BY <1>1
    <3> QED BY <1>1, <2>2, <3>1, UnnumberedAssumption
  <2> QED BY <1>1, <2>1, <2>2, <2>3, <2>6, <2>7
<1> QED BY <1>2, <1>3

JoinOf(tl, segs, n, f) ==
    f = [k \in 0 .. n |-> IF k = 0 THEN NothingJoined ELSE Attach(tl, f[k - 1], segs[k])]

LEMMA JoinOne ==
    \A tl, segs, f : \A n \in Nat : JoinOf(tl, segs, n, f) =>
        /\ DOMAIN f = 0 .. n /\ f[0] = NothingJoined
        /\ \A k \in 1 .. n : f[k] = Attach(tl, f[k - 1], segs[k])
<1> SUFFICES ASSUME NEW tl, NEW segs, NEW f, NEW n \in Nat, JoinOf(tl, segs, n, f)
             PROVE  /\ DOMAIN f = 0 .. n /\ f[0] = NothingJoined
                    /\ \A k \in 1 .. n : f[k] = Attach(tl, f[k - 1], segs[k])
  BY Zenon
<1> DEFINE g == [k \in 0 .. n |-> IF k = 0 THEN NothingJoined ELSE Attach(tl, f[k - 1], segs[k])]
<1>1. f = g
  BY DEF JoinOf
<1>2. /\ DOMAIN g = 0 .. n /\ g[0] = NothingJoined
      /\ \A k \in 1 .. n : g[k] = Attach(tl, f[k - 1], segs[k])
  OBVIOUS
<1> HIDE DEF g
<1> QED BY <1>1, <1>2

LEMMA JoinExists == ASSUME NEW tl, NEW segs, NEW n \in Nat PROVE \E f : JoinOf(tl, segs, n, f)
<1> DEFINE bad == {m \in Nat : ~\E f : JoinOf(tl, segs, m, f)}
<1>1. ASSUME bad # {} PROVE FALSE
  <2>1. PICK m \in bad : \A k \in bad : m <= k
    BY <1>1, LeastNatural
  <2>2. CASE m = 0
    <3> DEFINE f == [k \in 0 .. 0 |-> NothingJoined]
    <3>1. f = [k \in 0 .. 0 |-> IF k = 0 THEN NothingJoined ELSE Attach(tl, f[k - 1], segs[k])]
      OBVIOUS
    <3>2. JoinOf(tl, segs, 0, f)
      BY <3>1 DEF JoinOf
    <3> QED BY <2>1, <2>2, <3>2
  <2>3. CASE m # 0
    <3>1. m - 1 \in Nat /\ m - 1 \notin bad
      BY <2>1, <2>3
    <3>2. PICK g : JoinOf(tl, segs, m - 1, g)
      BY <3>1
    <3> DEFINE f == [k \in 0 .. m |-> IF k = m THEN Attach(tl, g[m - 1], segs[m]) ELSE g[k]]
    <3>3. g[0] = NothingJoined /\ \A k \in 1 .. m - 1 : g[k] = Attach(tl, g[k - 1], segs[k])
      BY <3>1, <3>2, JoinOne
    <3>4. \A k \in 0 .. m - 1 : f[k] = g[k]
      BY <2>1
    <3>5. f[m] = Attach(tl, g[m - 1], segs[m])
      BY <2>1
    <3>6. \A k \in 0 .. m : f[k] = IF k = 0 THEN NothingJoined ELSE Attach(tl, f[k - 1], segs[k])
      <4> TAKE k \in 0 .. m
      <4>1. CASE k = 0
        BY <2>1, <2>3, <3>1, <3>3, <3>4, <4>1
      <4>2. CASE k = m
        <5>1. f[m - 1] = g[m - 1]
          BY <3>1, <3>4
        <5> QED BY <2>3, <3>5, <4>2, <5>1
      <4>3. CASE k \in 1 .. m - 1
        <5>1. f[k] = g[k] /\ f[k - 1] = g[k - 1] /\ k # 0
          BY <2>1, <3>4, <4>3
        <5> QED BY <3>3, <4>3, <5>1
      <4> QED BY <2>1, <4>1, <4>2, <4>3
    <3>7. f = [k \in 0 .. m |-> f[k]]
      OBVIOUS
    <3> HIDE DEF f
    <3>8. JoinOf(tl, segs, m, f)
      BY <3>6, <3>7 DEF JoinOf
    <3> QED BY <2>1, <3>8
  <2> QED BY <2>2, <2>3
<1> QED BY <1>1

LEMMA JoinedSteps ==
    ASSUME NEW tl, NEW segs, Len(segs) \in Nat
    PROVE  /\ Joined(tl, segs)[0] = NothingJoined
           /\ \A k \in 1 .. Len(segs) :
                 Joined(tl, segs)[k] = Attach(tl, Joined(tl, segs)[k - 1], segs[k])
<1> DEFINE n == Len(segs)
           f == CHOOSE g : JoinOf(tl, segs, n, g)
<1>1. JoinOf(tl, segs, n, f)
  BY JoinExists
<1>2. Joined(tl, segs) = f
  BY DEF Joined, JoinOf
<1> HIDE DEF f
<1> QED BY <1>1, <1>2, JoinOne

Held(segs, k) == UNION {Range(segs[j].at) : j \in 1 .. k}

JoinFits(segs, acc, k) ==
    /\ acc = [out |-> acc.out, waiting |-> acc.waiting, seen |-> acc.seen]
    /\ acc.waiting \in Seq(Nat) /\ Distinct(acc.waiting)
    /\ Range(acc.waiting) \subseteq Held(segs, k)
    /\ Spread(acc.out, Held(segs, k) \ Range(acc.waiting))
    /\ acc.seen <=> \E j \in 1 .. k : segs[j].n # Unnumbered
    /\ acc.seen => acc.out # <<>>

LEMMA JoinsAnew ==
    ASSUME NEW segs, NEW k, NEW out, NEW waiting \in Seq(Nat), NEW seen,
           Distinct(waiting), Range(waiting) \subseteq Held(segs, k),
           NEW S, Spread(out, S), S = Held(segs, k) \ Range(waiting),
           seen <=> \E j \in 1 .. k : segs[j].n # Unnumbered, seen => out # <<>>
    PROVE  JoinFits(segs, [out |-> out, waiting |-> waiting, seen |-> seen], k)
<1> DEFINE t == [out |-> out, waiting |-> waiting, seen |-> seen]
<1>1. /\ t.out = out /\ t.waiting = waiting /\ t.seen = seen
      /\ t = [out |-> t.out, waiting |-> t.waiting, seen |-> t.seen]
  OBVIOUS
<1> HIDE DEF t
<1> QED BY <1>1 DEF JoinFits, t

LEMMA AttachFits ==
    ASSUME NEW tl, NEW segs, NEW S, Spread(segs, S), NEW k \in Nat, k + 1 \in DOMAIN segs,
           NEW acc, JoinFits(segs, acc, k)
    PROVE  JoinFits(segs, Attach(tl, acc, segs[k + 1]), k + 1)
<1> DEFINE seg == segs[k + 1]
           H == Held(segs, k)
           W == Range(acc.waiting)
           R == Range(seg.at)
           t == Attach(tl, acc, seg)
<1>1. /\ seg \in Segs /\ seg.at \in Seq(Nat) /\ Distinct(seg.at)
      /\ \A j \in 1 .. k : j \in DOMAIN segs /\ j # k + 1
  <2>1. segs \in Seq(Segs) /\ \A l \in DOMAIN segs : Distinct(segs[l].at)
    BY DEF Spread
  <2>2. seg \in Segs /\ \A j \in 1 .. k : j \in DOMAIN segs /\ j # k + 1
    BY <2>1
  <2> QED BY <2>1, <2>2 DEF Segs
<1>2. Held(segs, k + 1) = H \union R
  <2>1. 1 .. k + 1 = 1 .. k \union {k + 1}
    OBVIOUS
  <2> QED BY <2>1 DEF Held
<1>3. H \cap R = {}
  <2>1. \A j \in 1 .. k : Range(segs[j].at) \cap R = {}
    BY <1>1 DEF Spread
  <2> HIDE DEF R
  <2> QED BY <2>1 DEF Held
<1>4. /\ acc = [out |-> acc.out, waiting |-> acc.waiting, seen |-> acc.seen]
      /\ acc.waiting \in Seq(Nat) /\ Distinct(acc.waiting)
      /\ W \subseteq H /\ Spread(acc.out, H \ W)
      /\ acc.seen <=> \E j \in 1 .. k : segs[j].n # Unnumbered
      /\ acc.seen => acc.out # <<>>
  BY DEF JoinFits
<1>5. \A j \in 1 .. k + 1 : j \in 1 .. k \/ j = k + 1
  OBVIOUS
<1>6. acc.out \in Seq(Segs) /\ \A x \in Segs : Append(acc.out, x) # <<>>
  <2>1. acc.out \in Seq(Segs)
    BY <1>4 DEF Spread
  <2> QED BY <2>1
<1>7. CASE seg.n # Unnumbered
  <2> DEFINE x == Onto(seg, acc.waiting)
  <2>1. t = [out |-> Append(acc.out, x), waiting |-> <<>>, seen |-> TRUE]
    BY <1>7 DEF Attach
  <2>2. /\ acc.waiting \o seg.at \in Seq(Nat) /\ Distinct(acc.waiting \o seg.at)
        /\ Range(acc.waiting \o seg.at) = W \union R
    <3>1. W \cap R = {}
      BY <1>3, <1>4
    <3> QED BY <1>1, <1>4, <3>1, JoinAt
  <2>3. x \in Segs /\ x.at = acc.waiting \o seg.at
    BY <1>1, <2>2 DEF Onto, Segs
  <2>4. Range(x.at) = W \union R /\ Distinct(x.at)
    BY <2>2, <2>3
  <2> HIDE DEF x, H, W, R, seg, t
  <2>5. (W \union R) \cap (H \ W) = {} /\ (H \ W) \union (W \union R) = H \union R
    BY <1>3, <1>4
  <2>6. Spread(Append(acc.out, x), H \union R)
    <3>1. Spread(Append(acc.out, x), (H \ W) \union Range(x.at))
      BY <1>4, <2>3, <2>4, <2>5, SpreadMore
    <3> QED BY <2>4, <2>5, <3>1
  <2>7. <<>> \in Seq(Nat) /\ Distinct(<<>>) /\ Range(<<>>) = {} /\ (H \union R) \ {} = H \union R
    BY DEF Distinct, Range
  <2>8. Append(acc.out, x) # <<>> /\ k + 1 \in 1 .. k + 1 /\ segs[k + 1].n # Unnumbered
    BY <1>6, <1>7, <2>3 DEF seg
  <2>9. JoinFits(segs, [out |-> Append(acc.out, x), waiting |-> <<>>, seen |-> TRUE], k + 1)
    BY <1>2, <2>6, <2>7, <2>8, JoinsAnew
  <2> QED BY <2>1, <2>9 DEF t, seg
<1>8. CASE seg.n = Unnumbered /\ (acc.seen \/ (seg.open /\ ~HasEnd(tl, seg)))
  <2> DEFINE w == acc.waiting \o seg.at
  <2>1. t = [acc EXCEPT !.waiting = w]
    BY <1>8 DEF Attach
  <2>2. w \in Seq(Nat) /\ Distinct(w) /\ Range(w) = W \union R
    <3>1. W \cap R = {}
      BY <1>3, <1>4
    <3> QED BY <1>1, <1>4, <3>1, JoinAt
  <2> HIDE DEF w, t
  <2>3. t = [out |-> acc.out, waiting |-> w, seen |-> acc.seen]
    BY <1>4, <2>1
  <2>4. H \ W = (H \union R) \ (W \union R) /\ W \union R \subseteq H \union R
    BY <1>3, <1>4
  <2>5. /\ acc.seen <=> \E j \in 1 .. k + 1 : segs[j].n # Unnumbered
        /\ acc.seen => acc.out # <<>>
    BY <1>4, <1>5, <1>8
  <2> HIDE DEF H, W, R, seg
  <2>6. Spread(acc.out, (H \union R) \ (W \union R)) /\ Range(w) \subseteq H \union R
    BY <1>4, <2>2, <2>4
  <2>7. JoinFits(segs, [out |-> acc.out, waiting |-> w, seen |-> acc.seen], k + 1)
    BY <1>2, <2>2, <2>5, <2>6, JoinsAnew
  <2> QED BY <2>3, <2>7 DEF t, seg
<1>9. CASE seg.n = Unnumbered /\ ~(acc.seen \/ (seg.open /\ ~HasEnd(tl, seg)))
  <2>1. t = [acc EXCEPT !.out = Append(acc.out, seg)]
    BY <1>9 DEF Attach
  <2> HIDE DEF t, H, W, R, seg
  <2>2. t = [out |-> Append(acc.out, seg), waiting |-> acc.waiting, seen |-> acc.seen]
    BY <1>4, <2>1
  <2>3. R \cap (H \ W) = {} /\ (H \ W) \union R = (H \union R) \ W /\ W \subseteq H \union R
    BY <1>3, <1>4
  <2>4. Spread(Append(acc.out, seg), (H \union R) \ W)
    <3>1. Spread(Append(acc.out, seg), (H \ W) \union Range(seg.at))
      BY <1>1, <1>4, <2>3, SpreadMore DEF R
    <3> QED BY <2>3, <3>1 DEF R
  <2>5. /\ acc.seen <=> \E j \in 1 .. k + 1 : segs[j].n # Unnumbered
        /\ Append(acc.out, seg) # <<>>
    BY <1>1, <1>4, <1>5, <1>6, <1>9 DEF seg
  <2>6. Range(acc.waiting) \subseteq H \union R /\ Spread(Append(acc.out, seg), (H \union R) \ Range(acc.waiting))
    BY <2>3, <2>4 DEF W
  <2>7. JoinFits(segs, [out |-> Append(acc.out, seg), waiting |-> acc.waiting, seen |-> acc.seen], k + 1)
    BY <1>2, <1>4, <2>5, <2>6, JoinsAnew
  <2> QED BY <2>2, <2>7 DEF t, seg
<1> QED BY <1>7, <1>8, <1>9

LEMMA JoinedFits ==
    ASSUME NEW tl, NEW segs, NEW S, Spread(segs, S), NEW m \in 0 .. Len(segs)
    PROVE  JoinFits(segs, Joined(tl, segs)[m], m)
<1> DEFINE f == Joined(tl, segs)
           bad == {i \in 0 .. Len(segs) : ~JoinFits(segs, f[i], i)}
<1>1. Len(segs) \in Nat /\ DOMAIN segs = 1 .. Len(segs)
  <2>1. segs \in Seq(Segs)
    BY DEF Spread
  <2> QED BY <2>1
<1>2. f[0] = NothingJoined /\ \A i \in 1 .. Len(segs) : f[i] = Attach(tl, f[i - 1], segs[i])
  BY <1>1, JoinedSteps
<1> HIDE DEF f
<1>3. JoinFits(segs, NothingJoined, 0)
  <2>1. Held(segs, 0) = {} /\ {} \ {} = {} /\ {} \subseteq {}
    BY DEF Held
  <2>2. ~\E j \in 1 .. 0 : segs[j].n # Unnumbered
    OBVIOUS
  <2>3. <<>> \in Seq(Nat) /\ Distinct(<<>>) /\ Range(<<>>) = {}
    BY DEF Distinct, Range
  <2> QED BY <2>1, <2>2, <2>3, SpreadNone, JoinsAnew DEF NothingJoined
<1>4. ASSUME bad # {} PROVE FALSE
  <2>1. bad \subseteq Nat
    BY <1>1
  <2>2. PICK i \in bad : \A k \in bad : i <= k
    BY <1>4, <2>1, LeastNatural
  <2>3. CASE i = 0
    BY <1>2, <1>3, <2>2, <2>3
  <2>4. CASE i # 0
    <3>1. i - 1 \in Nat /\ i - 1 \in 0 .. Len(segs) /\ i \in 1 .. Len(segs) /\ (i - 1) + 1 = i
      BY <1>1, <2>2, <2>4
    <3>2. i - 1 \notin bad
      BY <2>2, <3>1
    <3>3. JoinFits(segs, f[i - 1], i - 1)
      BY <3>1, <3>2
    <3>4. JoinFits(segs, Attach(tl, f[i - 1], segs[i]), i)
      BY <1>1, <3>1, <3>3, AttachFits
    <3> QED BY <1>2, <2>2, <3>1, <3>4
  <2> QED BY <2>3, <2>4
<1> QED BY <1>4 DEF f

LEMMA AttachedSpreads ==
    ASSUME NEW tl, NEW segs, NEW S, Spread(segs, S),
           segs # <<>> => \E k \in DOMAIN segs : segs[k].n # Unnumbered
    PROVE  Spread(Attached(tl, segs), S)
<1> DEFINE acc == Joined(tl, segs)[Len(segs)]
           W == Range(acc.waiting)
<1>1. Len(segs) \in Nat /\ DOMAIN segs = 1 .. Len(segs) /\ Len(segs) \in 0 .. Len(segs)
  <2>1. segs \in Seq(Segs)
    BY DEF Spread
  <2> QED BY <2>1
<1>2. Held(segs, Len(segs)) = S
  BY <1>1 DEF Spread, Held
<1>3. JoinFits(segs, acc, Len(segs))
  BY <1>1, JoinedFits
<1> HIDE DEF acc
<1>4. /\ acc.waiting \in Seq(Nat) /\ Distinct(acc.waiting)
      /\ W \subseteq S /\ Spread(acc.out, S \ W)
      /\ acc.seen <=> \E j \in DOMAIN segs : segs[j].n # Unnumbered
      /\ acc.seen => acc.out # <<>>
  BY <1>1, <1>2, <1>3 DEF JoinFits
<1>5. CASE acc.waiting = <<>>
  <2>1. W = {} /\ S \ {} = S
    BY <1>5 DEF Range
  <2> QED BY <1>4, <1>5, <2>1 DEF Attached, Settled, acc
<1>6. CASE acc.waiting # <<>>
  <2> DEFINE out == acc.out
             n == Len(out)
             x == [out[n] EXCEPT !.at = @ \o acc.waiting]
  <2>1. acc.waiting[1] \in W
    BY <1>4, <1>6 DEF Range
  <2>2. segs # <<>>
    <3>1. segs = <<>> => S = {}
      BY <1>1 DEF Spread
    <3> QED BY <1>4, <2>1, <3>1
  <2>3. out # <<>>
    BY <1>4, <2>2
  <2>4. out \in Seq(Segs) /\ n \in DOMAIN out /\ out[n] \in Segs
    <3>1. out \in Seq(Segs)
      BY <1>4 DEF Spread
    <3> QED BY <2>3, <3>1
  <2>5. /\ Distinct(out[n].at) /\ out[n].at \in Seq(Nat) /\ Range(out[n].at) \cap W = {}
    <3>1. Range(out[n].at) \subseteq S \ W /\ Distinct(out[n].at)
      BY <1>4, <2>4 DEF Spread
    <3> QED BY <2>4, <3>1 DEF Segs
  <2>6. /\ out[n].at \o acc.waiting \in Seq(Nat) /\ Distinct(out[n].at \o acc.waiting)
        /\ Range(out[n].at \o acc.waiting) = Range(out[n].at) \union W
    BY <1>4, <2>5, JoinAt
  <2>7. x \in Segs /\ x.at = out[n].at \o acc.waiting
    BY <2>4, <2>6 DEF Segs
  <2>8. Settled(acc) = [out EXCEPT ![n] = x]
    BY <1>6, <2>4 DEF Settled
  <2> HIDE DEF x
  <2>9. W \cap (S \ W) = {} /\ (S \ W) \union W = S
    BY <1>4
  <2>10. Spread([out EXCEPT ![n] = x], (S \ W) \union W)
    BY <1>4, <2>4, <2>6, <2>7, <2>9, SpreadOnto
  <2> QED BY <2>8, <2>9, <2>10 DEF Attached, acc
<1> QED BY <1>5, <1>6

\* Numbering moves nothing.
LEMMA NumberedStays ==
    ASSUME NEW segs \in Seq(Segs)
    PROVE  /\ DOMAIN Numbered(segs) = DOMAIN segs
           /\ \A k \in DOMAIN segs : Numbered(segs)[k].at = segs[k].at
           /\ \A i : Places(Numbered(segs), i) = Places(segs, i)
<1> DEFINE new == Numbered(segs)
<1>1. DOMAIN new = DOMAIN segs
  BY Zenon DEF Numbered
<1>2. \A k \in DOMAIN segs : new[k].at = segs[k].at
  <2> TAKE k \in DOMAIN segs
  <2>1. segs[k] \in Segs
    OBVIOUS
  <2>2. \A n : [segs[k] EXCEPT !.n = n].at = segs[k].at
    BY <2>1 DEF Segs
  <2>3. \E n : new[k] = [segs[k] EXCEPT !.n = n]
    BY Zenon DEF Numbered
  <2> HIDE DEF new
  <2> QED BY <2>2, <2>3
<1> HIDE DEF new
<1>3. \A i : Places(new, i) = Places(segs, i)
  BY <1>1, <1>2 DEF Places
<1> QED BY <1>1, <1>2, <1>3 DEF new

LEMMA SegmentsSpread ==
    ASSUME NEW tl \in Seq(Gained)
    PROVE  Spread(Attached(tl, Stamped(Cut(tl))), TurnPlaces(tl, Len(tl)))
<1> DEFINE c == Cut(tl)
           S == TurnPlaces(tl, Len(tl))
<1>1. Spread(c, S)
  BY CutSpreads
<1> HIDE DEF c, S
<1>2. /\ Spread(Stamped(c), S) /\ DOMAIN Stamped(c) = DOMAIN c
      /\ c # <<>> => \E k \in DOMAIN c : Stamped(c)[k].n # Unnumbered
  BY <1>1, StampedFits
<1>3. Stamped(c) # <<>> => c # <<>>
  BY <1>2
<1>4. Spread(Attached(tl, Stamped(c)), S)
  BY <1>2, <1>3, AttachedSpreads
<1> QED BY <1>4 DEF c, S

LEMMA PartitionHolds == ASSUME NEW tl \in Seq(Gained) PROVE Partition(tl)
<1> DEFINE a == Attached(tl, Stamped(Cut(tl)))
           S == TurnPlaces(tl, Len(tl))
<1>1. Spread(a, S)
  BY SegmentsSpread
<1>2. a \in Seq(Segs)
  BY <1>1 DEF Spread
<1>3. Segments(tl) = Numbered(a)
  BY DEF Segments
<1> HIDE DEF a
<1>4. ASSUME NEW i \in 1 .. Len(tl)
      PROVE  Cardinality(Places(Segments(tl), i)) = IF SessionLevel(tl[i]) THEN 0 ELSE 1
  <2>1. Places(Segments(tl), i) = Places(a, i)
    BY <1>2, <1>3, NumberedStays
  <2>2. i \in S <=> ~SessionLevel(tl[i])
    BY DEF TurnPlaces
  <2>3. CASE SessionLevel(tl[i])
    <3>1. Places(a, i) = {}
      BY <1>1, <2>2, <2>3, OnePlace
    <3> QED BY <2>1, <2>3, <3>1, FS_EmptySet
  <2>4. CASE ~SessionLevel(tl[i])
    <3>1. \E k \in DOMAIN a : \E p \in DOMAIN a[k].at : Places(a, i) = {<<k, p>>}
      BY <1>1, <2>2, <2>4, OnePlace
    <3>2. PICK k, p : Places(a, i) = {<<k, p>>}
      BY <3>1
    <3> QED BY <2>1, <2>4, <3>2, FS_Singleton
  <2> QED BY <2>3, <2>4
<1> QED BY <1>4 DEF Partition

-----------------------------------------------------------------------------
(* A timeline that goes on: what was cut stays, and a tail without a       *)
(* boundary is added to the last segment.                                  *)

Continues(ul, tl) ==
    /\ ul \in Seq(Gained) /\ tl \in Seq(Gained)
    /\ Len(ul) <= Len(tl) /\ \A i \in 1 .. Len(ul) : tl[i] = ul[i]

LEMMA StartHasNumber == ASSUME NEW e \in Gained, IsStart(e) PROVE e.n # Unnumbered
BY UnnumberedAssumption DEF Gained

LEMMA StepLocal ==
    ASSUME NEW ul, NEW tl, Continues(ul, tl), NEW i \in Nat, i + 1 \in 1 .. Len(ul),
           NEW s, PassFits(ul, s, i)
    PROVE  Step(ul, s, i + 1) = Step(tl, s, i + 1)
<1>1. tl[i + 1] = ul[i + 1] /\ \A j \in 1 .. i : tl[j] = ul[j]
  BY DEF Continues
<1>2. \A j \in Range(s.cur.at) : j \in 1 .. i
  BY DEF PassFits, TurnPlaces
<1>3. Started(ul, s.cur) <=> Started(tl, s.cur)
  BY <1>1, <1>2 DEF Started
<1>4. StartStep(ul, s, i + 1) = StartStep(tl, s, i + 1)
  BY <1>1, <1>3, Zenon DEF StartStep
<1>5. EndStep(ul, s, i + 1) = EndStep(tl, s, i + 1)
  BY <1>1, <1>3, Zenon DEF EndStep
<1>6. PlainStep(ul, s, i + 1) = PlainStep(tl, s, i + 1)
  BY <1>1, Zenon DEF PlainStep
<1> QED BY <1>1, <1>4, <1>5, <1>6 DEF Step

LEMMA PassedLocal ==
    ASSUME NEW ul, NEW tl, Continues(ul, tl), NEW m \in 0 .. Len(ul)
    PROVE  Passed(ul)[m] = Passed(tl)[m]
<1> DEFINE f == Passed(ul)
           g == Passed(tl)
           bad == {i \in 0 .. Len(ul) : f[i] # g[i]}
<1>1. Len(ul) \in Nat /\ Len(tl) \in Nat /\ Len(ul) <= Len(tl)
  BY DEF Continues
<1>2. /\ f[0] = NothingCut /\ \A i \in 1 .. Len(ul) : f[i] = Step(ul, f[i - 1], i)
      /\ g[0] = NothingCut /\ \A i \in 1 .. Len(ul) : g[i] = Step(tl, g[i - 1], i)
  BY <1>1, PassedSteps
<1>3. \A i \in 0 .. Len(ul) : PassFits(ul, f[i], i)
  BY PassedFits DEF Continues
<1> HIDE DEF f, g
<1>4. ASSUME bad # {} PROVE FALSE
  <2>1. bad \subseteq Nat
    BY <1>1
  <2>2. PICK i \in bad : \A k \in bad : i <= k
    BY <1>4, <2>1, LeastNatural
  <2>3. CASE i = 0
    BY <1>2, <2>2, <2>3
  <2>4. CASE i # 0
    <3>1. i - 1 \in Nat /\ i - 1 \in 0 .. Len(ul) /\ i \in 1 .. Len(ul) /\ (i - 1) + 1 = i
      BY <1>1, <2>2, <2>4
    <3>2. f[i - 1] = g[i - 1]
      BY <2>2, <3>1
    <3>3. Step(ul, f[i - 1], i) = Step(tl, f[i - 1], i)
      BY <1>3, <3>1, StepLocal
    <3> QED BY <1>2, <2>2, <3>1, <3>2, <3>3
  <2> QED BY <2>3, <2>4
<1> QED BY <1>4 DEF f, g

\* What the pass notes of starts: an open segment with a number has one, and
\* the number of a start is kept.
NumbersNoted(tl, s, i) ==
    /\ s.cur.n # Unnumbered => Started(tl, s.cur)
    /\ (\E j \in 1 .. i : IsStart(tl[j]))
       => s.cur.n # Unnumbered \/ \E k \in DOMAIN s.segs : s.segs[k].n # Unnumbered

\* Where it puts the event it is at: at the end of the open segment, or at
\* the end of the last one closed; then nothing was started since, and the
\* event is a late end if something is open.
EndsWith(at, i) == at # <<>> /\ at[Len(at)] = i
PutLast(tl, s, i) ==
    \/ s.cur # NoSegment /\ EndsWith(s.cur.at, i)
    \/ /\ s.segs # <<>> /\ EndsWith(s.segs[Len(s.segs)].at, i)
       /\ s.cur # NoSegment => ~Started(tl, s.cur) /\ tl[i].kind = "ended"

Shaped(s) ==
    /\ s = [segs |-> s.segs, cur |-> s.cur]
    /\ s.cur \in Segs /\ s.segs \in Seq(Segs)

LEMMA FitIsShaped == ASSUME NEW tl, NEW s, NEW i, PassFits(tl, s, i) PROVE Shaped(s)
BY DEF PassFits, Spread, Shaped

LEMMA AddShape ==
    ASSUME NEW seg \in Segs, NEW i \in Nat
    PROVE  /\ Add(seg, i) = [n |-> seg.n, open |-> seg.open, at |-> Append(seg.at, i)]
           /\ Add(seg, i) \in Segs /\ Add(seg, i).n = seg.n /\ Add(seg, i).at = Append(seg.at, i)
           /\ EndsWith(Add(seg, i).at, i) /\ Add(seg, i) # NoSegment
           /\ Range(seg.at) \subseteq Range(Add(seg, i).at) /\ i \in Range(Add(seg, i).at)
<1> DEFINE a == Append(seg.at, i)
<1>1. Add(seg, i) = [n |-> seg.n, open |-> seg.open, at |-> a]
  <2>1. \A t : [seg EXCEPT !.at = t] = [n |-> seg.n, open |-> seg.open, at |-> t]
    BY DEF Segs
  <2> QED BY <2>1, Zenon DEF Add
<1>2. seg.at \in Seq(Nat) /\ seg.n \in AnyNumber /\ seg.open \in BOOLEAN
  BY DEF Segs
<1>3. /\ a \in Seq(Nat) /\ a # <<>> /\ Len(a) = Len(seg.at) + 1 /\ a[Len(a)] = i
      /\ Len(a) \in DOMAIN a
      /\ \A p \in DOMAIN seg.at : p \in DOMAIN a /\ a[p] = seg.at[p]
  BY <1>2
<1> HIDE DEF a
<1>4. Range(seg.at) \subseteq Range(a) /\ i \in Range(a)
  BY <1>3 DEF Range
<1>5. Add(seg, i).at = a /\ Add(seg, i).n = seg.n
  BY <1>1
<1>6. Add(seg, i) \in Segs
  BY <1>1, <1>2, <1>3 DEF Segs
<1>7. NoSegment.at = <<>>
  BY DEF NoSegment, Segment
<1> QED BY <1>1, <1>3, <1>4, <1>5, <1>6, <1>7 DEF EndsWith, a

LEMMA OntoLastShape ==
    ASSUME NEW segs \in Seq(Segs), segs # <<>>, NEW i \in Nat,
           NEW new, \/ new = OntoLast(segs, i)
                    \/ new = [OntoLast(segs, i) EXCEPT ![Len(segs)].open = FALSE]
    PROVE  /\ new \in Seq(Segs) /\ new # <<>> /\ Len(new) = Len(segs) /\ DOMAIN new = DOMAIN segs
           /\ EndsWith(new[Len(new)].at, i) /\ \A k \in DOMAIN segs : new[k].n = segs[k].n
<1> DEFINE n == Len(segs)
           x == Add(segs[n], i)
           y == [x EXCEPT !.open = FALSE]
<1>1. n \in DOMAIN segs /\ segs[n] \in Segs /\ n \in Nat
  OBVIOUS
<1>2. x \in Segs /\ x.n = segs[n].n /\ EndsWith(x.at, i)
  BY <1>1, AddShape
<1>3. y \in Segs /\ y.n = x.n /\ y.at = x.at
  BY <1>2 DEF Segs
<1>4. OntoLast(segs, i) = [segs EXCEPT ![n] = x]
  BY DEF OntoLast
<1>5. [OntoLast(segs, i) EXCEPT ![n].open = FALSE] = [segs EXCEPT ![n] = y]
  BY <1>1, <1>4
<1> HIDE DEF x, y
<1>6. PICK z \in Segs : z.n = segs[n].n /\ EndsWith(z.at, i) /\ new = [segs EXCEPT ![n] = z]
  BY <1>2, <1>3, <1>4, <1>5
<1>7. /\ new \in Seq(Segs) /\ Len(new) = n /\ DOMAIN new = DOMAIN segs /\ new[n] = z /\ new # <<>>
      /\ \A k \in DOMAIN segs : k # n => new[k] = segs[k]
  BY <1>1, <1>6
<1> QED BY <1>6, <1>7

LEMMA OneMoreShape ==
    ASSUME NEW segs \in Seq(Segs), NEW x \in Segs
    PROVE  /\ Append(segs, x) \in Seq(Segs) /\ Append(segs, x) # <<>>
           /\ Append(segs, x)[Len(Append(segs, x))] = x
           /\ (\E k \in DOMAIN segs : segs[k].n # Unnumbered) \/ x.n # Unnumbered
              => \E k \in DOMAIN Append(segs, x) : Append(segs, x)[k].n # Unnumbered
<1> DEFINE a == Append(segs, x)
<1>1. /\ a \in Seq(Segs) /\ a # <<>> /\ Len(a) = Len(segs) + 1 /\ a[Len(a)] = x
      /\ Len(a) \in DOMAIN a
      /\ \A k \in DOMAIN segs : k \in DOMAIN a /\ a[k] = segs[k]
  OBVIOUS
<1> HIDE DEF a
<1> QED BY <1>1 DEF a

LEMMA StartNotes ==
    ASSUME NEW tl, NEW i \in Nat, tl[i + 1] \in Gained, IsStart(tl[i + 1]), NEW s, Shaped(s)
    PROVE  /\ NumbersNoted(tl, StartStep(tl, s, i + 1), i + 1)
           /\ PutLast(tl, StartStep(tl, s, i + 1), i + 1)
<1> DEFINE e == tl[i + 1]
           t == StartStep(tl, s, i + 1)
<1>1. e.n # Unnumbered /\ i + 1 \in Nat
  BY StartHasNumber
<1>2. ASSUME NEW c, t.cur = c, c.n = e.n, EndsWith(c.at, i + 1), i + 1 \in Range(c.at)
      PROVE  NumbersNoted(tl, t, i + 1) /\ PutLast(tl, t, i + 1)
  <2>1. c # NoSegment
    <3>1. NoSegment.at = <<>>
      BY DEF NoSegment, Segment
    <3> QED BY <1>2, <3>1 DEF EndsWith
  <2>2. Started(tl, c)
    BY <1>2 DEF Started
  <2> HIDE DEF t
  <2>3. NumbersNoted(tl, t, i + 1)
    BY <1>1, <1>2, <2>2 DEF NumbersNoted
  <2> QED BY <1>2, <2>1, <2>3 DEF PutLast
<1>3. CASE s.cur # NoSegment /\ ~Started(tl, s.cur)
  <2> DEFINE x == Add(s.cur, i + 1)
             c == [x EXCEPT !.n = IF e.n = Unnumbered THEN @ ELSE e.n]
  <2>1. t = [s EXCEPT !.cur = c]
    BY <1>3, Zenon DEF StartStep
  <2>2. x \in Segs /\ EndsWith(x.at, i + 1) /\ i + 1 \in Range(x.at)
    BY <1>1, AddShape DEF Shaped
  <2> HIDE DEF x, t
  <2>3. c.n = e.n /\ c.at = x.at
    BY <1>1, <2>2 DEF Segs
  <2> HIDE DEF c
  <2>4. t.cur = c
    BY <2>1 DEF Shaped
  <2> QED BY <1>2, <2>2, <2>3, <2>4 DEF t
<1>4. CASE ~(s.cur # NoSegment /\ ~Started(tl, s.cur))
  <2> DEFINE c == Segment(e.n, TRUE, <<i + 1>>)
             g == IF s.cur = NoSegment THEN s.segs ELSE Append(s.segs, [s.cur EXCEPT !.open = FALSE])
  <2>1. t = [segs |-> g, cur |-> c]
    BY <1>4, Zenon DEF StartStep
  <2>2. c.n = e.n /\ c.at = <<i + 1>>
    BY DEF Segment
  <2>3. i + 1 \in Range(<<i + 1>>) /\ EndsWith(<<i + 1>>, i + 1)
    BY DEF Range, EndsWith
  <2> HIDE DEF c, g, t
  <2>4. t.cur = c
    BY <2>1
  <2> QED BY <1>2, <2>2, <2>3, <2>4 DEF t
<1> QED BY <1>3, <1>4

LEMMA StartsBefore ==
    ASSUME NEW tl, NEW i \in Nat, ~IsStart(tl[i + 1]), \E j \in 1 .. i + 1 : IsStart(tl[j])
    PROVE  \E j \in 1 .. i : IsStart(tl[j])
<1>1. \A j \in 1 .. i + 1 : j \in 1 .. i \/ j = i + 1
  OBVIOUS
<1> QED BY <1>1

LEMMA EndNotes ==
    ASSUME NEW tl, NEW i \in Nat, ~IsStart(tl[i + 1]), NEW s, Shaped(s), NumbersNoted(tl, s, i)
    PROVE  /\ NumbersNoted(tl, EndStep(tl, s, i + 1), i + 1)
           /\ PutLast(tl, EndStep(tl, s, i + 1), i + 1)
<1> DEFINE j == i + 1
           t == EndStep(tl, s, j)
           late == s.cur # NoSegment /\ tl[j].kind = "ended" /\ ~Started(tl, s.cur) /\ s.segs # <<>>
           closing == [OntoLast(s.segs, j) EXCEPT ![Len(s.segs)].open = FALSE]
<1>1. s = [segs |-> s.segs, cur |-> s.cur] /\ s.cur \in Segs /\ s.segs \in Seq(Segs) /\ j \in Nat
  BY DEF Shaped
<1>2. (\E k \in 1 .. j : IsStart(tl[k]))
      => s.cur.n # Unnumbered \/ \E k \in DOMAIN s.segs : s.segs[k].n # Unnumbered
  BY StartsBefore DEF NumbersNoted
<1>3. s.segs # <<>> =>
        /\ closing # <<>> /\ DOMAIN closing = DOMAIN s.segs
        /\ EndsWith(closing[Len(closing)].at, j) /\ \A k \in DOMAIN s.segs : closing[k].n = s.segs[k].n
  <2> DEFINE new == closing
  <2>1. new = closing
    OBVIOUS
  <2> HIDE DEF new
  <2> QED BY <1>1, <2>1, OntoLastShape
<1>4. NoSegment.n = Unnumbered
  BY DEF NoSegment, Segment
<1>5. CASE late \/ (s.cur = NoSegment /\ s.segs # <<>>)
  <2>1. t = [s EXCEPT !.segs = closing]
    BY <1>5 DEF EndStep
  <2>2. s.segs # <<>>
    BY <1>5
  <2> HIDE DEF closing, t
  <2>3. t.segs = closing /\ t.cur = s.cur
    BY <1>1, <2>1
  <2>4. NumbersNoted(tl, t, j)
    BY <1>2, <1>3, <2>2, <2>3 DEF NumbersNoted
  <2>5. PutLast(tl, t, j)
    BY <1>3, <1>5, <2>2, <2>3 DEF PutLast
  <2> QED BY <2>4, <2>5 DEF t
<1>6. CASE ~late /\ s.cur # NoSegment
  <2> DEFINE y == Add(s.cur, j)
             x == [y EXCEPT !.open = FALSE]
             g == Append(s.segs, x)
  <2>1. t = [segs |-> g, cur |-> NoSegment]
    BY <1>6 DEF EndStep
  <2>2. y \in Segs /\ y.n = s.cur.n /\ EndsWith(y.at, j)
    BY <1>1, AddShape
  <2>3. x \in Segs /\ x.n = y.n /\ x.at = y.at
    BY <2>2 DEF Segs
  <2> HIDE DEF x, t
  <2>4. /\ g # <<>> /\ g[Len(g)] = x
        /\ (\E k \in DOMAIN s.segs : s.segs[k].n # Unnumbered) \/ x.n # Unnumbered
           => \E k \in DOMAIN g : g[k].n # Unnumbered
    BY <1>1, <2>3, OneMoreShape
  <2> HIDE DEF y, g
  <2>5. t.segs = g /\ t.cur = NoSegment
    BY <2>1
  <2>6. NumbersNoted(tl, t, j)
    BY <1>2, <1>4, <2>2, <2>3, <2>4, <2>5 DEF NumbersNoted
  <2>7. PutLast(tl, t, j)
    BY <2>2, <2>3, <2>4, <2>5 DEF PutLast
  <2> QED BY <2>6, <2>7 DEF t
<1>7. CASE s.cur = NoSegment /\ s.segs = <<>>
  <2> DEFINE x == Segment(Unnumbered, FALSE, <<j>>)
  <2>1. t = [s EXCEPT !.segs = <<x>>]
    BY <1>7 DEF EndStep
  <2>2. x.at = <<j>> /\ EndsWith(<<j>>, j)
    BY DEF Segment, EndsWith
  <2> HIDE DEF x, t
  <2>3. t.segs = <<x>> /\ t.cur = NoSegment
    BY <1>1, <1>7, <2>1
  <2>4. ~\E k \in 1 .. j : IsStart(tl[k])
    BY <1>2, <1>4, <1>7
  <2>5. NumbersNoted(tl, t, j)
    BY <1>4, <2>3, <2>4 DEF NumbersNoted
  <2>6. <<x>> # <<>> /\ <<x>>[Len(<<x>>)] = x
    OBVIOUS
  <2>7. PutLast(tl, t, j)
    BY <2>2, <2>3, <2>6 DEF PutLast
  <2> QED BY <2>5, <2>7 DEF t
<1> QED BY <1>5, <1>6, <1>7

LEMMA PlainNotes ==
    ASSUME NEW tl, NEW i \in Nat, ~IsStart(tl[i + 1]), NEW s, Shaped(s), NumbersNoted(tl, s, i)
    PROVE  /\ NumbersNoted(tl, PlainStep(tl, s, i + 1), i + 1)
           /\ PutLast(tl, PlainStep(tl, s, i + 1), i + 1)
<1> DEFINE j == i + 1
           t == PlainStep(tl, s, j)
           longer == OntoLast(s.segs, j)
<1>1. s = [segs |-> s.segs, cur |-> s.cur] /\ s.cur \in Segs /\ s.segs \in Seq(Segs) /\ j \in Nat
  BY DEF Shaped
<1>2. (\E k \in 1 .. j : IsStart(tl[k]))
      => s.cur.n # Unnumbered \/ \E k \in DOMAIN s.segs : s.segs[k].n # Unnumbered
  BY StartsBefore DEF NumbersNoted
<1>4. NoSegment.n = Unnumbered /\ NoSegment.at = <<>>
  BY DEF NoSegment, Segment
<1>5. CASE s.cur # NoSegment
  <2> DEFINE y == Add(s.cur, j)
  <2>1. t = [s EXCEPT !.cur = y]
    BY <1>5 DEF PlainStep
  <2>2. y.n = s.cur.n /\ EndsWith(y.at, j) /\ y # NoSegment /\ Range(s.cur.at) \subseteq Range(y.at)
    BY <1>1, AddShape
  <2>3. Started(tl, s.cur) => Started(tl, y)
    BY <2>2 DEF Started
  <2> HIDE DEF y, t
  <2>4. t.segs = s.segs /\ t.cur = y
    BY <1>1, <2>1
  <2>5. NumbersNoted(tl, t, j)
    BY <1>2, <2>2, <2>3, <2>4 DEF NumbersNoted
  <2> QED BY <2>2, <2>4, <2>5 DEF PutLast, t
<1>6. CASE s.cur = NoSegment /\ (s.segs = <<>> \/ tl[j].kind = "user")
  <2> DEFINE x == Segment(Unnumbered, TRUE, <<j>>)
  <2>1. t = [s EXCEPT !.cur = x]
    BY <1>6 DEF PlainStep
  <2>2. x.at = <<j>> /\ x.n = Unnumbered /\ EndsWith(<<j>>, j) /\ <<j>> # <<>>
    BY DEF Segment, EndsWith
  <2> HIDE DEF x, t
  <2>3. t.segs = s.segs /\ t.cur = x
    BY <1>1, <2>1
  <2>4. NumbersNoted(tl, t, j)
    BY <1>2, <1>4, <1>6, <2>2, <2>3 DEF NumbersNoted
  <2>5. PutLast(tl, t, j)
    BY <1>4, <2>2, <2>3 DEF PutLast
  <2> QED BY <2>4, <2>5 DEF t
<1>7. CASE s.cur = NoSegment /\ ~(s.segs = <<>> \/ tl[j].kind = "user")
  <2>1. t = [s EXCEPT !.segs = longer]
    BY <1>7 DEF PlainStep
  <2>2. /\ longer # <<>> /\ DOMAIN longer = DOMAIN s.segs
        /\ EndsWith(longer[Len(longer)].at, j) /\ \A k \in DOMAIN s.segs : longer[k].n = s.segs[k].n
    <3> DEFINE new == longer
    <3>1. new = longer
      OBVIOUS
    <3> HIDE DEF new
    <3> QED BY <1>1, <1>7, <3>1, OntoLastShape
  <2> HIDE DEF longer, t
  <2>3. t.segs = longer /\ t.cur = NoSegment
    BY <1>1, <1>7, <2>1
  <2>4. NumbersNoted(tl, t, j)
    BY <1>2, <1>4, <1>7, <2>2, <2>3 DEF NumbersNoted
  <2>5. PutLast(tl, t, j)
    BY <2>2, <2>3 DEF PutLast
  <2> QED BY <2>4, <2>5 DEF t
<1> QED BY <1>5, <1>6, <1>7

LEMMA StepNotes ==
    ASSUME NEW tl, NEW i \in Nat, tl[i + 1] \in Gained, NEW s, Shaped(s), NumbersNoted(tl, s, i)
    PROVE  /\ NumbersNoted(tl, Step(tl, s, i + 1), i + 1)
           /\ ~SessionLevel(tl[i + 1]) => PutLast(tl, Step(tl, s, i + 1), i + 1)
<1>1. CASE SessionLevel(tl[i + 1])
  <2>1. Step(tl, s, i + 1) = s /\ ~IsStart(tl[i + 1])
    BY <1>1 DEF Step, SessionLevel, IsStart, IsEnd
  <2>2. (\E j \in 1 .. i + 1 : IsStart(tl[j])) => \E j \in 1 .. i : IsStart(tl[j])
    BY <2>1, StartsBefore
  <2> QED BY <1>1, <2>1, <2>2 DEF NumbersNoted
<1>2. CASE ~SessionLevel(tl[i + 1])
  <2>1. CASE IsStart(tl[i + 1])
    <3>1. Step(tl, s, i + 1) = StartStep(tl, s, i + 1)
      BY <1>2, <2>1 DEF Step, SessionLevel, IsStart, IsEnd
    <3> QED BY <1>2, <2>1, <3>1, StartNotes
  <2>2. CASE IsEnd(tl[i + 1]) /\ ~IsStart(tl[i + 1])
    <3>1. Step(tl, s, i + 1) = EndStep(tl, s, i + 1)
      BY <1>2, <2>2, Zenon DEF Step
    <3> QED BY <1>2, <2>2, <3>1, EndNotes
  <2>3. CASE ~IsEnd(tl[i + 1]) /\ ~IsStart(tl[i + 1])
    <3>1. Step(tl, s, i + 1) = PlainStep(tl, s, i + 1)
      BY <1>2, <2>3 DEF Step
    <3> QED BY <1>2, <2>3, <3>1, PlainNotes
  <2> QED BY <2>1, <2>2, <2>3
<1> QED BY <1>1, <1>2

LEMMA PassedNotes ==
    ASSUME NEW tl \in Seq(Gained), NEW m \in 0 .. Len(tl)
    PROVE  /\ NumbersNoted(tl, Passed(tl)[m], m)
           /\ m # 0 /\ ~SessionLevel(tl[m]) => PutLast(tl, Passed(tl)[m], m)
<1> DEFINE f == Passed(tl)
           Good(i) == /\ NumbersNoted(tl, f[i], i)
                      /\ i # 0 /\ ~SessionLevel(tl[i]) => PutLast(tl, f[i], i)
           bad == {i \in 0 .. Len(tl) : ~Good(i)}
<1>1. Len(tl) \in Nat /\ DOMAIN tl = 1 .. Len(tl) /\ \A i \in 1 .. Len(tl) : tl[i] \in Gained
  OBVIOUS
<1>2. f[0] = NothingCut /\ \A i \in 1 .. Len(tl) : f[i] = Step(tl, f[i - 1], i)
  BY <1>1, PassedSteps
<1>3. \A i \in 0 .. Len(tl) : Shaped(f[i])
  BY PassedFits, FitIsShaped
<1>4. NumbersNoted(tl, NothingCut, 0)
  BY DEF NumbersNoted, NothingCut, NoSegment, Segment
<1> HIDE DEF f
<1>5. Good(0)
  BY <1>2, <1>4
<1>6. ASSUME NEW i \in 1 .. Len(tl), Good(i - 1) PROVE Good(i)
  <2>1. i - 1 \in Nat /\ i - 1 \in 0 .. Len(tl) /\ (i - 1) + 1 = i
    BY <1>1
  <2>2. /\ NumbersNoted(tl, Step(tl, f[i - 1], i), i)
        /\ ~SessionLevel(tl[i]) => PutLast(tl, Step(tl, f[i - 1], i), i)
    BY <1>1, <1>3, <1>6, <2>1, StepNotes
  <2> QED BY <1>2, <2>2
<1> HIDE DEF Good
<1>7. ASSUME bad # {} PROVE FALSE
  <2>1. bad \subseteq Nat
    BY <1>1
  <2>2. PICK i \in bad : \A k \in bad : i <= k
    BY <1>7, <2>1, LeastNatural
  <2>3. CASE i = 0
    BY <1>5, <2>2, <2>3
  <2>4. CASE i # 0
    <3>1. i - 1 \in 0 .. Len(tl) /\ i \in 1 .. Len(tl) /\ ~(i <= i - 1)
      BY <1>1, <2>2, <2>4
    <3>2. Good(i - 1)
      BY <2>2, <3>1
    <3> QED BY <1>6, <2>2, <3>1, <3>2
  <2> QED BY <2>3, <2>4
<1>8. Good(m)
  BY <1>7
<1> QED BY <1>8 DEF Good, f

\* A segment with more at its end, and a list whose last segment has more.
Lengthened(seg, T) == [n |-> seg.n, open |-> seg.open, at |-> seg.at \o T]
Longer(a, b, T) ==
    a # <<>> /\ b = [a EXCEPT ![Len(a)] = Lengthened(a[Len(a)], T)]

LEMMA SegmentIs ==
    ASSUME NEW seg \in Segs
    PROVE  seg = [n |-> seg.n, open |-> seg.open, at |-> seg.at] /\ seg.at \in Seq(Nat)
BY DEF Segs

LEMMA LengthenedNone == ASSUME NEW seg \in Segs PROVE Lengthened(seg, <<>>) = seg
<1>1. seg = [n |-> seg.n, open |-> seg.open, at |-> seg.at] /\ seg.at \in Seq(Nat)
  BY SegmentIs
<1>2. seg.at \o <<>> = seg.at
  BY <1>1
<1> QED BY <1>1, <1>2 DEF Lengthened

LEMMA LengthenedFits ==
    ASSUME NEW seg \in Segs, NEW T \in Seq(Nat)
    PROVE  /\ Lengthened(seg, T) \in Segs /\ Lengthened(seg, T).n = seg.n
           /\ Lengthened(seg, T).open = seg.open /\ Lengthened(seg, T).at = seg.at \o T
<1>1. seg.at \in Seq(Nat) /\ seg.n \in AnyNumber /\ seg.open \in BOOLEAN
  BY DEF Segs
<1>2. seg.at \o T \in Seq(Nat)
  BY <1>1
<1> QED BY <1>1, <1>2 DEF Lengthened, Segs

LEMMA ConcatAppend ==
    ASSUME NEW s \in Seq(Nat), NEW t \in Seq(Nat), NEW i \in Nat
    PROVE  s \o Append(t, i) = Append(s \o t, i)
OBVIOUS

LEMMA LengthenedAdd ==
    ASSUME NEW seg \in Segs, NEW T \in Seq(Nat), NEW i \in Nat
    PROVE  Add(Lengthened(seg, T), i) = Lengthened(seg, Append(T, i))
<1>1. seg.at \in Seq(Nat)
  BY SegmentIs
<1>2. Append(seg.at \o T, i) = seg.at \o Append(T, i)
  BY <1>1, ConcatAppend
<1>3. Add(Lengthened(seg, T), i)
      = [n |-> Lengthened(seg, T).n, open |-> Lengthened(seg, T).open,
         at |-> Append(Lengthened(seg, T).at, i)]
  BY LengthenedFits, AddShape
<1>4. Add(Lengthened(seg, T), i) = [n |-> seg.n, open |-> seg.open, at |-> Append(seg.at \o T, i)]
  BY <1>3, LengthenedFits
<1> QED BY <1>2, <1>4 DEF Lengthened

\* The pass after a tail T, from the pass before it.
TailOf(s, t, T) ==
    /\ s.cur # NoSegment => /\ t.segs = s.segs /\ t.cur # NoSegment
                            /\ t.cur = Lengthened(s.cur, T)
    /\ s.cur = NoSegment => t.cur = NoSegment /\ Longer(s.segs, t.segs, T)

LEMMA TailBegins ==
    ASSUME NEW s, Shaped(s), s.cur # NoSegment \/ s.segs # <<>>
    PROVE  TailOf(s, s, <<>>)
<1>1. s.cur \in Segs /\ s.segs \in Seq(Segs)
  BY DEF Shaped
<1>2. Lengthened(s.cur, <<>>) = s.cur
  BY <1>1, LengthenedNone
<1>3. ASSUME s.segs # <<>> PROVE Longer(s.segs, s.segs, <<>>)
  <2>1. Len(s.segs) \in DOMAIN s.segs /\ s.segs[Len(s.segs)] \in Segs
    BY <1>1, <1>3
  <2>2. Lengthened(s.segs[Len(s.segs)], <<>>) = s.segs[Len(s.segs)]
    BY <2>1, LengthenedNone
  <2>3. [s.segs EXCEPT ![Len(s.segs)] = s.segs[Len(s.segs)]] = s.segs
    BY <1>1
  <2> QED BY <1>3, <2>2, <2>3 DEF Longer
<1> QED BY <1>2, <1>3 DEF TailOf

LEMMA TailGoesOn ==
    ASSUME NEW s, Shaped(s), NEW t, Shaped(t), NEW T \in Seq(Nat), TailOf(s, t, T),
           NEW tl, NEW i \in Nat, ~SessionLevel(tl[i]), ~Boundary(tl[i])
    PROVE  TailOf(s, Step(tl, t, i), Append(T, i))
<1> DEFINE u == PlainStep(tl, t, i)
<1>1. Step(tl, t, i) = u
  BY DEF Step, Boundary
<1>2. tl[i].kind # "user"
  BY DEF Boundary
<1>3. s.cur \in Segs /\ s.segs \in Seq(Segs)
  BY DEF Shaped
<1>4. t = [segs |-> t.segs, cur |-> t.cur] /\ t.cur \in Segs /\ t.segs \in Seq(Segs)
  BY DEF Shaped
<1>5. CASE s.cur # NoSegment
  <2>1. t.segs = s.segs /\ t.cur # NoSegment /\ t.cur = Lengthened(s.cur, T)
    BY <1>5 DEF TailOf
  <2> DEFINE x == Add(t.cur, i)
  <2>2. u = [t EXCEPT !.cur = x]
    BY <2>1 DEF PlainStep
  <2>3. x = Lengthened(s.cur, Append(T, i))
    BY <1>3, <2>1, LengthenedAdd
  <2>4. x # NoSegment
    BY <1>4, AddShape
  <2> HIDE DEF x, u
  <2>5. u.segs = t.segs /\ u.cur = x
    BY <1>4, <2>2
  <2> QED BY <1>1, <1>5, <2>1, <2>3, <2>4, <2>5 DEF TailOf
<1>6. CASE s.cur = NoSegment
  <2> DEFINE n == Len(s.segs)
             x == Lengthened(s.segs[n], T)
             g == OntoLast(t.segs, i)
  <2>1. t.cur = NoSegment /\ s.segs # <<>> /\ t.segs = [s.segs EXCEPT ![n] = x]
    BY <1>6 DEF TailOf, Longer
  <2>2. n \in DOMAIN s.segs /\ s.segs[n] \in Segs /\ n \in Nat
    BY <1>3, <2>1
  <2>3. Len(t.segs) = n /\ t.segs[n] = x /\ t.segs # <<>>
    <3> HIDE DEF x
    <3> QED BY <1>3, <1>4, <2>1, <2>2
  <2>4. u = [t EXCEPT !.segs = g]
    BY <1>2, <2>1, <2>3 DEF PlainStep
  <2>5. g = [t.segs EXCEPT ![n] = Add(x, i)]
    BY <2>3 DEF OntoLast
  <2>6. Add(x, i) = Lengthened(s.segs[n], Append(T, i))
    BY <2>2, LengthenedAdd
  <2> HIDE DEF x, g, u
  <2>7. g = [s.segs EXCEPT ![n] = Lengthened(s.segs[n], Append(T, i))]
    BY <1>3, <2>1, <2>5, <2>6
  <2>8. u.segs = g /\ u.cur = NoSegment
    BY <1>4, <2>1, <2>4
  <2> QED BY <1>1, <1>6, <2>1, <2>7, <2>8 DEF TailOf, Longer
<1> QED BY <1>5, <1>6

\* The events of turns after the first n.
TailPlaces(tl, n, m) == {j \in n + 1 .. m : ~SessionLevel(tl[j])}
HasTail(tl, s, t, n, m) ==
    \E T \in Seq(Nat) : Range(T) = TailPlaces(tl, n, m) /\ TailOf(s, t, T)

LEMMA TailPassed ==
    ASSUME NEW tl \in Seq(Gained), NEW n \in 1 .. Len(tl), ~SessionLevel(tl[n]),
           \A i \in n + 1 .. Len(tl) : ~Boundary(tl[i]),
           NEW m \in n .. Len(tl)
    PROVE  HasTail(tl, Passed(tl)[n], Passed(tl)[m], n, m)
<1> DEFINE f == Passed(tl)
           bad == {i \in n .. Len(tl) : ~HasTail(tl, f[n], f[i], n, i)}
<1>1. Len(tl) \in Nat /\ n \in Nat /\ n \in 0 .. Len(tl) /\ n # 0
  OBVIOUS
<1>2. \A i \in 1 .. Len(tl) : f[i] = Step(tl, f[i - 1], i)
  BY <1>1, PassedSteps
<1>3. \A i \in 0 .. Len(tl) : Shaped(f[i])
  BY PassedFits, FitIsShaped
<1>4. f[n].cur # NoSegment \/ f[n].segs # <<>>
  <2>1. PutLast(tl, f[n], n)
    BY <1>1, PassedNotes
  <2> QED BY <2>1 DEF PutLast
<1> HIDE DEF f
<1>5. HasTail(tl, f[n], f[n], n, n)
  <2>1. TailPlaces(tl, n, n) = {}
    BY DEF TailPlaces
  <2>2. <<>> \in Seq(Nat) /\ Range(<<>>) = {}
    BY DEF Range
  <2>3. TailOf(f[n], f[n], <<>>)
    BY <1>1, <1>3, <1>4, TailBegins
  <2> QED BY <2>1, <2>2, <2>3 DEF HasTail
<1>6. ASSUME NEW i \in n + 1 .. Len(tl), HasTail(tl, f[n], f[i - 1], n, i - 1)
      PROVE  HasTail(tl, f[n], f[i], n, i)
  <2>1. PICK T \in Seq(Nat) : Range(T) = TailPlaces(tl, n, i - 1) /\ TailOf(f[n], f[i - 1], T)
    BY <1>6 DEF HasTail
  <2>2. i \in 1 .. Len(tl) /\ i - 1 \in 0 .. Len(tl) /\ i \in Nat
    BY <1>1
  <2>3. CASE SessionLevel(tl[i])
    <3>1. f[i] = f[i - 1]
      BY <1>2, <2>2, <2>3 DEF Step, SessionLevel, IsStart, IsEnd
    <3>2. \A j : j \in TailPlaces(tl, n, i) <=> j \in TailPlaces(tl, n, i - 1)
      BY <1>1, <2>2, <2>3 DEF TailPlaces
    <3>3. TailPlaces(tl, n, i) = TailPlaces(tl, n, i - 1)
      BY <3>2
    <3> QED BY <2>1, <3>1, <3>3 DEF HasTail
  <2>4. CASE ~SessionLevel(tl[i])
    <3>1. TailOf(f[n], Step(tl, f[i - 1], i), Append(T, i))
      BY <1>1, <1>3, <2>1, <2>2, <2>4, TailGoesOn
    <3>2. \A j : j \in TailPlaces(tl, n, i) <=> j \in TailPlaces(tl, n, i - 1) \/ j = i
      BY <1>1, <2>2, <2>4 DEF TailPlaces
    <3>3. Append(T, i) \in Seq(Nat) /\ Range(Append(T, i)) = Range(T) \union {i}
      <4> DEFINE a == Append(T, i)
                 k == Len(T)
      <4>1. /\ a \in Seq(Nat) /\ k \in Nat /\ DOMAIN T = 1 .. k /\ DOMAIN a = 1 .. k + 1
            /\ a[k + 1] = i /\ \A p \in 1 .. k : a[p] = T[p]
        BY <2>2
      <4> HIDE DEF a, k
      <4>2. ASSUME NEW x \in Range(a) PROVE x \in Range(T) \union {i}
        BY <4>1, <4>2 DEF Range
      <4>3. ASSUME NEW x \in Range(T) \union {i} PROVE x \in Range(a)
        <5>1. CASE x = i
          BY <4>1, <5>1 DEF Range
        <5>2. CASE x \in Range(T)
          <6>1. PICK p \in 1 .. k : T[p] = x
            BY <4>1, <5>2 DEF Range
          <6>2. p \in DOMAIN a /\ a[p] = x
            BY <4>1, <6>1
          <6> QED BY <6>2 DEF Range
        <5> QED BY <4>3, <5>1, <5>2
      <4> QED BY <4>1, <4>2, <4>3 DEF a
    <3>4. Range(Append(T, i)) = TailPlaces(tl, n, i)
      BY <2>1, <3>2, <3>3
    <3> QED BY <1>2, <2>2, <3>1, <3>3, <3>4 DEF HasTail
  <2> QED BY <2>3, <2>4
<1>7. ASSUME bad # {} PROVE FALSE
  <2>1. bad \subseteq Nat
    BY <1>1
  <2>2. PICK i \in bad : \A k \in bad : i <= k
    BY <1>7, <2>1, LeastNatural
  <2>3. CASE i = n
    BY <1>5, <2>2, <2>3
  <2>4. CASE i # n
    <3>1. i - 1 \in n .. Len(tl) /\ i \in n + 1 .. Len(tl) /\ ~(i <= i - 1)
      BY <1>1, <2>2, <2>4
    <3>2. HasTail(tl, f[n], f[i - 1], n, i - 1)
      BY <2>2, <3>1
    <3> QED BY <1>6, <2>2, <3>1, <3>2
  <2> QED BY <2>3, <2>4
<1> QED BY <1>7 DEF f

LEMMA LastReplaced ==
    ASSUME NEW segs \in Seq(Segs), NEW x \in Segs, NEW y \in Segs
    PROVE  /\ Append(segs, x) # <<>> /\ Append(segs, x)[Len(Append(segs, x))] = x
           /\ Append(segs, y) = [Append(segs, x) EXCEPT ![Len(Append(segs, x))] = y]
<1> DEFINE a == Append(segs, x)
           b == Append(segs, y)
           c == [a EXCEPT ![Len(a)] = y]
           k == Len(segs)
<1>1. /\ k \in Nat /\ a \in Seq(Segs) /\ Len(a) = k + 1 /\ DOMAIN a = 1 .. k + 1
      /\ a # <<>> /\ a[k + 1] = x
      /\ b \in Seq(Segs) /\ Len(b) = k + 1 /\ b[k + 1] = y
      /\ \A p \in 1 .. k : b[p] = segs[p] /\ a[p] = segs[p]
  OBVIOUS
<1> HIDE DEF a, b, k
<1>2. /\ c \in Seq(Segs) /\ Len(c) = k + 1 /\ c[k + 1] = y
      /\ \A p \in 1 .. k : c[p] = a[p]
  BY <1>1
<1> HIDE DEF c
<1>3. \A p \in 1 .. Len(b) : b[p] = c[p]
  BY <1>1, <1>2
<1>4. b = c
  BY <1>1, <1>2, <1>3, SeqEqual
<1> QED BY <1>1, <1>4 DEF a, b, c

LEMMA TailCloses ==
    ASSUME NEW s, Shaped(s), NEW t, NEW T \in Seq(Nat), TailOf(s, t, T)
    PROVE  Longer(Closed(s), Closed(t), T)
<1>1. s.cur \in Segs /\ s.segs \in Seq(Segs)
  BY DEF Shaped
<1>2. CASE s.cur = NoSegment
  BY <1>2 DEF Closed, TailOf
<1>3. CASE s.cur # NoSegment
  <2> DEFINE x == Lengthened(s.cur, T)
             a == Append(s.segs, s.cur)
  <2>1. Closed(s) = a /\ Closed(t) = Append(s.segs, x)
    BY <1>3 DEF Closed, TailOf
  <2>2. a # <<>> /\ a[Len(a)] = s.cur
    BY <1>1
  <2>3. x \in Segs
    BY <1>1, LengthenedFits
  <2> HIDE DEF x
  <2>4. Append(s.segs, x) = [a EXCEPT ![Len(a)] = x]
    BY <1>1, <2>3, LastReplaced
  <2> QED BY <2>1, <2>2, <2>4 DEF Longer, x
<1> QED BY <1>2, <1>3

-----------------------------------------------------------------------------
(* The tail through the passes over segments. *)

LEMMA LongerIs ==
    ASSUME NEW a \in Seq(Segs), NEW b, NEW T \in Seq(Nat), Longer(a, b, T)
    PROVE  /\ b \in Seq(Segs) /\ b # <<>> /\ Len(b) = Len(a) /\ DOMAIN b = DOMAIN a
           /\ Len(a) \in DOMAIN a /\ Len(a) \in Nat /\ a[Len(a)] \in Segs
           /\ b[Len(a)] = Lengthened(a[Len(a)], T)
           /\ \A k \in DOMAIN a : k # Len(a) => b[k] = a[k]
           /\ \A k \in DOMAIN a : b[k].n = a[k].n
<1> DEFINE n == Len(a)
           x == Lengthened(a[n], T)
<1>1. a # <<>> /\ b = [a EXCEPT ![n] = x]
  BY DEF Longer
<1>2. n \in DOMAIN a /\ n \in Nat /\ a[n] \in Segs
  BY <1>1
<1>3. x \in Segs /\ x.n = a[n].n
  BY <1>2, LengthenedFits
<1> HIDE DEF x
<1>4. /\ b \in Seq(Segs) /\ b # <<>> /\ Len(b) = n /\ DOMAIN b = DOMAIN a /\ b[n] = x
      /\ \A k \in DOMAIN a : k # n => b[k] = a[k]
  BY <1>1, <1>2, <1>3
<1> QED BY <1>2, <1>3, <1>4 DEF x

LEMMA LongerFrom ==
    ASSUME NEW a \in Seq(Segs), NEW b \in Seq(Segs), NEW T \in Seq(Nat), a # <<>>,
           Len(b) = Len(a), b[Len(a)] = Lengthened(a[Len(a)], T),
           \A k \in DOMAIN a : k # Len(a) => b[k] = a[k]
    PROVE  Longer(a, b, T)
<1> DEFINE n == Len(a)
           x == Lengthened(a[n], T)
           c == [a EXCEPT ![n] = x]
<1>1. n \in DOMAIN a /\ n \in Nat /\ a[n] \in Segs /\ DOMAIN a = 1 .. n
  OBVIOUS
<1>2. x \in Segs
  BY <1>1, LengthenedFits
<1> HIDE DEF x
<1>3. /\ c \in Seq(Segs) /\ Len(c) = n /\ c[n] = x /\ \A k \in 1 .. n : k # n => c[k] = a[k]
  BY <1>1, <1>2
<1> HIDE DEF c
<1>4. \A k \in 1 .. Len(b) : b[k] = c[k]
  BY <1>1, <1>3 DEF x
<1>5. b = c
  BY <1>3, <1>4, SeqEqual
<1> QED BY <1>5 DEF Longer, c, x

LEMMA NumberReplaced ==
    ASSUME NEW seg \in Segs, NEW m
    PROVE  [seg EXCEPT !.n = m] = [n |-> m, open |-> seg.open, at |-> seg.at]
BY DEF Segs

LEMMA StampedLonger ==
    ASSUME NEW a \in Seq(Segs), NEW b, NEW T \in Seq(Nat), Longer(a, b, T),
           Stamped(a) \in Seq(Segs), Stamped(b) \in Seq(Segs)
    PROVE  Longer(Stamped(a), Stamped(b), T)
<1> DEFINE n == Len(a)
           c == Stamped(a)
           d == Stamped(b)
<1>1. /\ b \in Seq(Segs) /\ b # <<>> /\ Len(b) = n /\ DOMAIN b = DOMAIN a
      /\ n \in DOMAIN a /\ n \in Nat /\ a[n] \in Segs
      /\ b[n] = Lengthened(a[n], T)
      /\ \A k \in DOMAIN a : k # n => b[k] = a[k]
      /\ \A k \in DOMAIN a : b[k].n = a[k].n
  BY LongerIs
<1>2. CASE \E k \in DOMAIN a : a[k].n # Unnumbered
  <2>1. c = a /\ d = b
    BY <1>1, <1>2 DEF Stamped
  <2> QED BY <2>1
<1>3. CASE ~\E k \in DOMAIN a : a[k].n # Unnumbered
  <2>1. /\ c = [k \in DOMAIN a |-> [a[k] EXCEPT !.n = k - 1]]
        /\ d = [k \in DOMAIN a |-> [b[k] EXCEPT !.n = k - 1]]
    BY <1>1, <1>3 DEF Stamped
  <2>2. \A k \in DOMAIN a : c[k] = [a[k] EXCEPT !.n = k - 1] /\ d[k] = [b[k] EXCEPT !.n = k - 1]
    BY <2>1
  <2>3. DOMAIN c = 1 .. n /\ DOMAIN d = 1 .. n
    BY <1>1, <2>1
  <2> HIDE DEF n, c, d
  <2>4. Len(c) = n /\ Len(d) = n /\ c # <<>>
    BY <1>1, <2>3
  <2>5. d[n] = Lengthened(c[n], T)
    <3> DEFINE x == a[n]
               y == Lengthened(x, T)
    <3>1. x \in Segs /\ c[n] = [x EXCEPT !.n = n - 1] /\ d[n] = [y EXCEPT !.n = n - 1]
      BY <1>1, <2>2
    <3>2. y \in Segs /\ y.open = x.open /\ y.at = x.at \o T
      BY <3>1, LengthenedFits
    <3> HIDE DEF x, y
    <3>3. c[n] = [n |-> n - 1, open |-> x.open, at |-> x.at]
      BY <3>1, NumberReplaced
    <3>4. d[n] = [n |-> n - 1, open |-> y.open, at |-> y.at]
      BY <3>1, <3>2, NumberReplaced
    <3> QED BY <3>2, <3>3, <3>4 DEF Lengthened
  <2>6. \A k \in 1 .. n : k # n => d[k] = c[k]
    <3>1. DOMAIN a = 1 .. n
      BY <1>1 DEF n
    <3>2. ASSUME NEW k \in 1 .. n, k # n PROVE d[k] = c[k]
      <4>1. b[k] = a[k] /\ k \in DOMAIN a
        BY <1>1, <3>1, <3>2
      <4> QED BY <2>2, <4>1, Zenon
    <3> QED BY <3>2
  <2> QED BY <2>3, <2>4, <2>5, <2>6, LongerFrom DEF c, d
<1> QED BY <1>2, <1>3

LEMMA ConcatThree ==
    ASSUME NEW s \in Seq(Nat), NEW t \in Seq(Nat), NEW u \in Seq(Nat)
    PROVE  (s \o t) \o u = s \o (t \o u)
OBVIOUS

LEMMA LengthenedTwice ==
    ASSUME NEW seg \in Segs, NEW s \in Seq(Nat), NEW t \in Seq(Nat)
    PROVE  Lengthened(Lengthened(seg, s), t) = Lengthened(seg, s \o t)
<1>1. seg.at \in Seq(Nat)
  BY SegmentIs
<1>2. (seg.at \o s) \o t = seg.at \o (s \o t)
  BY <1>1, ConcatThree
<1> QED BY <1>2, LengthenedFits DEF Lengthened

LEMMA ReplacedAt ==
    ASSUME NEW seg \in Segs, NEW t
    PROVE  [seg EXCEPT !.at = t] = [n |-> seg.n, open |-> seg.open, at |-> t]
BY DEF Segs

LEMMA LengthenedOnto ==
    ASSUME NEW seg \in Segs, NEW w \in Seq(Nat), NEW t \in Seq(Nat)
    PROVE  /\ Onto(seg, w) \in Segs /\ Onto(seg, w).at = w \o seg.at
           /\ Onto(Lengthened(seg, t), w) = Lengthened(Onto(seg, w), t)
<1>1. seg = [n |-> seg.n, open |-> seg.open, at |-> seg.at] /\ seg.at \in Seq(Nat)
  BY SegmentIs
<1>2. \A x \in Segs : Onto(x, w) = [n |-> x.n, open |-> x.open, at |-> w \o x.at]
  BY ReplacedAt, Zenon DEF Onto
<1>3. (w \o seg.at) \o t = w \o (seg.at \o t)
  BY <1>1, ConcatThree
<1>4. Onto(seg, w) = [n |-> seg.n, open |-> seg.open, at |-> w \o seg.at]
  BY <1>2
<1>5. seg.n \in AnyNumber /\ seg.open \in BOOLEAN /\ w \o seg.at \in Seq(Nat)
  BY <1>1 DEF Segs
<1>6. Onto(seg, w) \in Segs
  BY <1>4, <1>5 DEF Segs
<1>7. Onto(Lengthened(seg, t), w)
      = [n |-> seg.n, open |-> seg.open, at |-> w \o (seg.at \o t)]
  <2> DEFINE y == Lengthened(seg, t)
  <2>1. y \in Segs /\ y.n = seg.n /\ y.open = seg.open /\ y.at = seg.at \o t
    BY LengthenedFits
  <2> HIDE DEF y
  <2>2. Onto(y, w) = [n |-> seg.n, open |-> seg.open, at |-> w \o (seg.at \o t)]
    BY <1>2, <2>1
  <2> QED BY <2>2 DEF y
<1>8. /\ Onto(seg, w).n = seg.n /\ Onto(seg, w).open = seg.open /\ Onto(seg, w).at = w \o seg.at
  BY <1>4
<1>9. Lengthened(Onto(seg, w), t) = [n |-> seg.n, open |-> seg.open, at |-> (w \o seg.at) \o t]
  BY <1>8 DEF Lengthened
<1> QED BY <1>3, <1>6, <1>7, <1>8, <1>9

\* What waits goes to the end of the last segment.
LEMMA SettledIs ==
    ASSUME NEW acc, acc.out \in Seq(Segs), acc.out # <<>>, acc.waiting \in Seq(Nat)
    PROVE  Settled(acc) = [acc.out EXCEPT ![Len(acc.out)]
                              = Lengthened(acc.out[Len(acc.out)], acc.waiting)]
<1> DEFINE o == acc.out
           n == Len(o)
           w == acc.waiting
<1>1. n \in DOMAIN o /\ o[n] \in Segs
  OBVIOUS
<1>2. [o[n] EXCEPT !.at = @ \o w] = Lengthened(o[n], w)
  BY <1>1, ReplacedAt, Zenon DEF Lengthened
<1>3. CASE w = <<>>
  <2>1. Lengthened(o[n], w) = o[n]
    BY <1>1, <1>3, LengthenedNone
  <2>2. [o EXCEPT ![n] = o[n]] = o
    OBVIOUS
  <2> QED BY <1>3, <2>1, <2>2 DEF Settled
<1>4. CASE w # <<>>
  <2>1. Settled(acc) = [o EXCEPT ![n] = [o[n] EXCEPT !.at = @ \o w]]
    BY <1>1, <1>4 DEF Settled
  <2> QED BY <1>2, <2>1
<1> QED BY <1>3, <1>4

\* The ends in a segment of the shorter timeline are those in the longer one.
LEMMA EndsLocal ==
    ASSUME NEW ul, NEW tl, Continues(ul, tl), NEW seg, Range(seg.at) \subseteq 1 .. Len(ul)
    PROVE  HasEnd(ul, seg) <=> HasEnd(tl, seg)
BY DEF HasEnd, Continues

LEMMA ConcatRange ==
    ASSUME NEW s \in Seq(Nat), NEW t \in Seq(Nat)
    PROVE  Range(s \o t) = Range(s) \union Range(t)
<1> DEFINE u == s \o t
           m == Len(s)
           n == Len(t)
<1>1. /\ u \in Seq(Nat) /\ m \in Nat /\ n \in Nat
      /\ DOMAIN s = 1 .. m /\ DOMAIN t = 1 .. n /\ DOMAIN u = 1 .. m + n
      /\ \A p \in 1 .. m : u[p] = s[p]
      /\ \A p \in m + 1 .. m + n : u[p] = t[p - m] /\ p - m \in 1 .. n
  OBVIOUS
<1> HIDE DEF u, m, n
<1>2. \A p \in DOMAIN u : p \in 1 .. m \/ p \in m + 1 .. m + n
  BY <1>1
<1>3. ASSUME NEW x \in Range(u) PROVE x \in Range(s) \union Range(t)
  <2>1. PICK p \in DOMAIN u : u[p] = x
    BY <1>3 DEF Range
  <2> QED BY <1>1, <1>2, <2>1 DEF Range
<1>4. ASSUME NEW x \in Range(s) \union Range(t) PROVE x \in Range(u)
  <2>1. CASE x \in Range(s)
    BY <1>1, <2>1 DEF Range
  <2>2. CASE x \in Range(t)
    <3>1. PICK q \in 1 .. n : t[q] = x
      BY <1>1, <2>2 DEF Range
    <3>2. m + q \in m + 1 .. m + n /\ (m + q) - m = q /\ m + q \in DOMAIN u
      BY <1>1
    <3>3. u[m + q] = x
      BY <1>1, <3>1, <3>2
    <3> QED BY <3>2, <3>3 DEF Range
  <2> QED BY <1>4, <2>1, <2>2
<1> QED BY <1>3, <1>4 DEF u

LEMMA JoinedLocal ==
    ASSUME NEW ul, NEW tl, Continues(ul, tl), NEW a \in Seq(Segs), NEW b, NEW T \in Seq(Nat),
           Longer(a, b, T), \A k \in DOMAIN a : Range(a[k].at) \subseteq 1 .. Len(ul),
           NEW m \in 0 .. Len(a) - 1
    PROVE  Joined(ul, a)[m] = Joined(tl, b)[m]
<1> DEFINE f == Joined(ul, a)
           g == Joined(tl, b)
           n == Len(a)
           bad == {i \in 0 .. n - 1 : f[i] # g[i]}
<1>1. /\ n \in Nat /\ Len(b) = n /\ DOMAIN a = 1 .. n
      /\ \A k \in DOMAIN a : k # n => b[k] = a[k]
  BY LongerIs
<1>2. /\ f[0] = NothingJoined /\ \A i \in 1 .. n : f[i] = Attach(ul, f[i - 1], a[i])
      /\ g[0] = NothingJoined /\ \A i \in 1 .. n : g[i] = Attach(tl, g[i - 1], b[i])
  BY <1>1, JoinedSteps
<1> HIDE DEF f, g, n
<1>3. ASSUME bad # {} PROVE FALSE
  <2>1. bad \subseteq Nat
    BY <1>1
  <2>2. PICK i \in bad : \A k \in bad : i <= k
    BY <1>3, <2>1, LeastNatural
  <2>3. CASE i = 0
    BY <1>2, <2>2, <2>3
  <2>4. CASE i # 0
    <3>1. i - 1 \in 0 .. n - 1 /\ i \in 1 .. n /\ i # n /\ ~(i <= i - 1)
      BY <1>1, <2>2, <2>4
    <3>2. f[i - 1] = g[i - 1]
      BY <2>2, <3>1
    <3>3. b[i] = a[i] /\ i \in DOMAIN a
      BY <1>1, <3>1
    <3>4. HasEnd(ul, a[i]) <=> HasEnd(tl, a[i])
      BY <3>3, EndsLocal
    <3>5. Attach(ul, f[i - 1], a[i]) = Attach(tl, f[i - 1], a[i])
      BY <3>4, Zenon DEF Attach
    <3> QED BY <1>2, <2>2, <3>1, <3>2, <3>3, <3>5
  <2> QED BY <2>3, <2>4
<1> QED BY <1>3 DEF f, g, n

\* The list ends with events u, the last of them i, and then with some that
\* are no starts.
FinalIn(tl, out, i) ==
    /\ out # <<>>
    /\ \E u, v \in Seq(Nat) : /\ out[Len(out)].at = u \o v /\ EndsWith(u, i)
                              /\ \A j \in Range(v) : ~IsStart(tl[j])

\* So do the segments that were cut, if the last has no start and no number.
TailStands(tl, a, i) ==
    \/ EndsWith(a[Len(a)].at, i)
    \/ /\ Len(a) > 1 /\ EndsWith(a[Len(a) - 1].at, i)
       /\ a[Len(a)].n = Unnumbered /\ \A j \in Range(a[Len(a)].at) : ~IsStart(tl[j])

LEMMA EndsAfter ==
    ASSUME NEW r \in Seq(Nat), NEW s \in Seq(Nat), NEW i, EndsWith(s, i)
    PROVE  EndsWith(r \o s, i)
<1>1. s # <<>> /\ s[Len(s)] = i /\ Len(s) \in Nat /\ Len(r) \in Nat /\ Len(s) # 0
  BY DEF EndsWith
<1>2. Len(r \o s) = Len(r) + Len(s) /\ (r \o s)[Len(r) + Len(s)] = s[Len(s)] /\ r \o s # <<>>
  BY <1>1
<1> QED BY <1>1, <1>2 DEF EndsWith

LEMMA AttachedTail ==
    ASSUME NEW ul, NEW tl, Continues(ul, tl), NEW a \in Seq(Segs), NEW b, NEW T \in Seq(Nat),
           Longer(a, b, T), \A k \in DOMAIN a : Range(a[k].at) \subseteq 1 .. Len(ul),
           \A j \in Range(T) : ~IsEnd(tl[j]),
           NEW S, Spread(a, S), \E k \in DOMAIN a : a[k].n # Unnumbered,
           NEW i, TailStands(ul, a, i)
    PROVE  /\ Longer(Attached(ul, a), Attached(tl, b), T)
           /\ FinalIn(ul, Attached(ul, a), i)
<1> DEFINE n == Len(a)
           seg == a[n]
           acc == Joined(ul, a)[n - 1]
           o == acc.out
           w == acc.waiting
           long == Lengthened(seg, T)
<1>1. /\ n \in Nat /\ Len(b) = n /\ DOMAIN a = 1 .. n /\ n \in 1 .. n /\ seg \in Segs /\ b[n] = long
  BY LongerIs
<1>2. n - 1 \in 0 .. n /\ n - 1 \in 0 .. n - 1
  BY <1>1
<1>3. /\ Joined(ul, a)[n] = Attach(ul, acc, seg)
      /\ Joined(tl, b)[n] = Attach(tl, acc, long)
  <2>1. acc = Joined(tl, b)[n - 1]
    BY <1>2, JoinedLocal
  <2>2. Joined(ul, a)[n] = Attach(ul, acc, a[n]) /\ Joined(tl, b)[n] = Attach(tl, Joined(tl, b)[n - 1], b[n])
    BY <1>1, JoinedSteps
  <2> QED BY <1>1, <2>1, <2>2
<1>4. JoinFits(a, acc, n - 1)
  BY <1>2, JoinedFits
<1>5. /\ acc = [out |-> o, waiting |-> w, seen |-> acc.seen]
      /\ w \in Seq(Nat) /\ o \in Seq(Segs)
      /\ acc.seen <=> \E j \in 1 .. n - 1 : a[j].n # Unnumbered
      /\ acc.seen => o # <<>>
  BY <1>4 DEF JoinFits, Spread
<1>6. seg.at \in Seq(Nat) /\ long \in Segs /\ long.n = seg.n /\ long.open = seg.open
      /\ long.at = seg.at \o T
  BY <1>1, SegmentIs, LengthenedFits
<1>7. HasEnd(ul, seg) <=> HasEnd(tl, long)
  <2>1. Range(long.at) = Range(seg.at) \union Range(T)
    BY <1>6, ConcatRange
  <2>2. HasEnd(ul, seg) <=> HasEnd(tl, seg)
    BY <1>1, EndsLocal
  <2> HIDE DEF seg, long
  <2>3. HasEnd(tl, seg) <=> HasEnd(tl, long)
    BY <2>1 DEF HasEnd
  <2> QED BY <2>2, <2>3
<1>8. Attached(ul, a) = Settled(Attach(ul, acc, seg)) /\ Attached(tl, b) = Settled(Attach(tl, acc, long))
  BY <1>1, <1>3 DEF Attached
<1>9. \A k \in 1 .. n : k \in 1 .. n - 1 \/ k = n
  BY <1>1
<1> HIDE DEF acc, long
<1>10. CASE seg.n # Unnumbered
  <2> DEFINE x == Onto(seg, w)
             y == Onto(long, w)
  <2>1. /\ Attach(ul, acc, seg) = [out |-> Append(o, x), waiting |-> <<>>, seen |-> TRUE]
        /\ Attach(tl, acc, long) = [out |-> Append(o, y), waiting |-> <<>>, seen |-> TRUE]
    BY <1>6, <1>10 DEF Attach
  <2>2. x \in Segs /\ x.at = w \o seg.at /\ y = Lengthened(x, T)
    BY <1>1, <1>5, LengthenedOnto DEF long
  <2>3. y \in Segs
    BY <2>2, LengthenedFits
  <2> HIDE DEF x, y, o, w
  <2>4. Attached(ul, a) = Append(o, x) /\ Attached(tl, b) = Append(o, y)
    BY <1>8, <2>1 DEF Settled
  <2>5. /\ Append(o, x) # <<>> /\ Append(o, x)[Len(Append(o, x))] = x
        /\ Append(o, y) = [Append(o, x) EXCEPT ![Len(Append(o, x))] = y]
    BY <1>5, <2>2, <2>3, LastReplaced
  <2>6. Longer(Append(o, x), Append(o, y), T)
    BY <2>2, <2>5 DEF Longer
  <2>7. EndsWith(w \o seg.at, i)
    <3>1. EndsWith(seg.at, i)
      BY <1>10 DEF TailStands
    <3> QED BY <1>5, <1>6, <3>1, EndsAfter
  <2>8. FinalIn(ul, Append(o, x), i)
    <3>1. /\ w \o seg.at \in Seq(Nat) /\ <<>> \in Seq(Nat) /\ Range(<<>>) = {}
          /\ (w \o seg.at) \o <<>> = w \o seg.at
      BY <1>5, <1>6 DEF Range
    <3> QED BY <2>2, <2>5, <2>7, <3>1 DEF FinalIn
  <2> QED BY <2>4, <2>6, <2>8
<1>11. CASE seg.n = Unnumbered
  <2> DEFINE z == w \o seg.at
             last == o[Len(o)]
  <2>1. acc.seen /\ o # <<>>
    BY <1>1, <1>5, <1>9, <1>11
  <2>2. z \in Seq(Nat) /\ w \o (seg.at \o T) = z \o T
    <3>1. w \in Seq(Nat) /\ seg.at \in Seq(Nat)
      BY <1>5, <1>6
    <3> HIDE DEF w, seg
    <3>2. w \o seg.at \in Seq(Nat)
      BY <3>1
    <3> QED BY <3>1, <3>2, ConcatThree
  <2>3. Attach(ul, acc, seg) = [acc EXCEPT !.waiting = z]
    BY <1>11, <2>1 DEF Attach
  <2>4. Attach(tl, acc, long) = [acc EXCEPT !.waiting = z \o T]
    <3>1. Attach(tl, acc, long) = [acc EXCEPT !.waiting = @ \o long.at]
      BY <1>6, <1>11, <2>1 DEF Attach
    <3> QED BY <1>6, <2>2, <3>1
  <2> HIDE DEF z, last, o, w, seg
  <2>5. \A q : [acc EXCEPT !.waiting = q] = [out |-> o, waiting |-> q, seen |-> acc.seen]
    BY <1>5
  <2>6. last \in Segs /\ Len(o) \in DOMAIN o
    BY <1>5, <2>1 DEF last
  <2>7. z \o T \in Seq(Nat)
    BY <2>2
  <2>8. \A q \in Seq(Nat) : Settled([out |-> o, waiting |-> q, seen |-> acc.seen])
                            = [o EXCEPT ![Len(o)] = Lengthened(last, q)]
    <3> TAKE q \in Seq(Nat)
    <3> DEFINE c == [out |-> o, waiting |-> q, seen |-> acc.seen]
    <3>1. c.out = o /\ c.waiting = q
      OBVIOUS
    <3> HIDE DEF c
    <3>2. Settled(c) = [c.out EXCEPT ![Len(c.out)] = Lengthened(c.out[Len(c.out)], c.waiting)]
      BY <1>5, <2>1, <3>1, SettledIs
    <3> QED BY <3>1, <3>2 DEF c, last
  <2> DEFINE A == [o EXCEPT ![Len(o)] = Lengthened(last, z)]
             B == [o EXCEPT ![Len(o)] = Lengthened(last, z \o T)]
  <2>9. Attached(ul, a) = A
    BY <1>8, <2>2, <2>3, <2>5, <2>8
  <2>10. Attached(tl, b) = B
    BY <1>8, <2>4, <2>5, <2>7, <2>8
  <2>11. Lengthened(last, z) \in Segs /\ Lengthened(last, z).at = last.at \o z
    BY <2>2, <2>6, LengthenedFits
  <2>12. Lengthened(Lengthened(last, z), T) = Lengthened(last, z \o T)
    BY <2>2, <2>6, LengthenedTwice
  <2>13. A # <<>> /\ Len(A) = Len(o) /\ A[Len(A)] = Lengthened(last, z)
    <3> DEFINE p == Lengthened(last, z)
    <3>1. p \in Segs
      BY <2>11
    <3> HIDE DEF p
    <3> QED BY <1>5, <2>1, <2>6, <3>1
  <2>14. B = [A EXCEPT ![Len(A)] = Lengthened(last, z \o T)]
    <3> DEFINE p == Lengthened(last, z)
               q == Lengthened(last, z \o T)
    <3> HIDE DEF p, q
    <3>1. [[o EXCEPT ![Len(o)] = p] EXCEPT ![Len(o)] = q] = [o EXCEPT ![Len(o)] = q]
      OBVIOUS
    <3> QED BY <2>13, <3>1 DEF p, q
  <2>15. Longer(A, B, T)
    BY <2>12, <2>13, <2>14 DEF Longer
  <2>16. last.at \in Seq(Nat)
    BY <2>6, SegmentIs
  <2>17. FinalIn(ul, A, i)
    <3>1. CASE EndsWith(seg.at, i)
      <4>1. EndsWith(z, i)
        BY <1>5, <1>6, <3>1, EndsAfter DEF z
      <4>2. EndsWith(last.at \o z, i) /\ last.at \o z \in Seq(Nat)
        BY <2>2, <2>16, <4>1, EndsAfter
      <4>3. (last.at \o z) \o <<>> = last.at \o z /\ <<>> \in Seq(Nat) /\ Range(<<>>) = {}
        BY <4>2 DEF Range
      <4> HIDE DEF A
      <4> QED BY <2>11, <2>13, <4>2, <4>3 DEF FinalIn
    <3>2. CASE /\ n > 1 /\ EndsWith(a[n - 1].at, i)
               /\ \A j \in Range(seg.at) : ~IsStart(ul[j])
      <4> DEFINE pre == a[n - 1]
                 old == Joined(ul, a)[n - 2]
      <4>1. n - 1 \in 1 .. n /\ (n - 1) - 1 = n - 2 /\ n - 2 \in 0 .. n /\ pre \in Segs /\ pre.at \in Seq(Nat)
        <5>1. n - 1 \in 1 .. n /\ (n - 1) - 1 = n - 2 /\ n - 2 \in 0 .. n
          BY <1>1, <3>2
        <5>2. pre \in Segs
          BY <1>1, <5>1
        <5> QED BY <5>1, <5>2, SegmentIs
      <4>2. acc = Attach(ul, old, pre)
        BY <1>1, <4>1, JoinedSteps DEF acc
      <4>3. JoinFits(a, old, n - 2)
        BY <4>1, JoinedFits
      <4>4. /\ old = [out |-> old.out, waiting |-> old.waiting, seen |-> old.seen]
            /\ old.waiting \in Seq(Nat) /\ old.out \in Seq(Segs)
            /\ old.seen <=> \E j \in 1 .. n - 2 : a[j].n # Unnumbered
        BY <4>3 DEF JoinFits, Spread
      <4>5. \E u \in Seq(Nat) : last.at \o w = u /\ EndsWith(u, i)
        <5>1. CASE pre.n # Unnumbered
          <6> DEFINE x == Onto(pre, old.waiting)
          <6>1. acc = [out |-> Append(old.out, x), waiting |-> <<>>, seen |-> TRUE]
            BY <4>2, <5>1 DEF Attach
          <6>2. x \in Segs /\ x.at = old.waiting \o pre.at
            BY <4>1, <4>4, LengthenedOnto
          <6> HIDE DEF x, old
          <6>3. o = Append(old.out, x) /\ w = <<>>
            BY <6>1 DEF o, w
          <6>4. last = x
            BY <4>4, <6>2, <6>3, LastReplaced DEF last
          <6>5. EndsWith(old.waiting \o pre.at, i)
            BY <3>2, <4>1, <4>4, EndsAfter
          <6>6. last.at \o <<>> = last.at
            BY <2>16
          <6> QED BY <2>16, <6>2, <6>3, <6>4, <6>5, <6>6
        <5>2. CASE pre.n = Unnumbered
          <6>1. \A k \in 1 .. n - 1 : k \in 1 .. n - 2 \/ k = n - 1
            BY <1>1
          <6>2. old.seen
            BY <1>5, <2>1, <4>4, <5>2, <6>1
          <6>3. acc = [old EXCEPT !.waiting = old.waiting \o pre.at]
            BY <4>2, <5>2, <6>2 DEF Attach
          <6> HIDE DEF old
          <6>4. w = old.waiting \o pre.at
            BY <4>4, <6>3 DEF w
          <6>5. EndsWith(w, i)
            BY <3>2, <4>1, <4>4, <6>4, EndsAfter
          <6>6. EndsWith(last.at \o w, i) /\ last.at \o w \in Seq(Nat)
            BY <1>5, <2>16, <6>5, EndsAfter
          <6> QED BY <6>6
        <5> QED BY <5>1, <5>2
      <4>6. PICK u \in Seq(Nat) : last.at \o w = u /\ EndsWith(u, i)
        BY <4>5
      <4>7. last.at \o z = u \o seg.at
        BY <1>5, <1>6, <2>16, <4>6, ConcatThree DEF z
      <4> HIDE DEF A
      <4> QED BY <1>6, <2>11, <2>13, <3>2, <4>6, <4>7 DEF FinalIn
    <3> QED BY <3>1, <3>2 DEF TailStands, seg
  <2> QED BY <2>9, <2>10, <2>15, <2>17
<1> QED BY <1>10, <1>11

-----------------------------------------------------------------------------
(* The number of an event. *)

Starts(tl, at) == {p \in 1 .. Len(at) : IsStart(tl[at[p]]) /\ tl[at[p]].n # Unnumbered}
UpTo(S, pos) == {p \in S : p <= pos}
Earliest(S) == CHOOSE p \in S : \A q \in S : p <= q
Latest(S) == CHOOSE p \in S : \A q \in S : p >= q
Chosen(S, pos) == IF UpTo(S, pos) = {} THEN Earliest(S) ELSE Latest(UpTo(S, pos))

LEMMA NumberOfIs ==
    ASSUME NEW tl, NEW seg, NEW pos
    PROVE  NumberOf(tl, seg, pos)
           = IF Starts(tl, seg.at) = {} THEN seg.n
             ELSE tl[seg.at[Chosen(Starts(tl, seg.at), pos)]].n
<1> DEFINE S == Starts(tl, seg.at)
           B == UpTo(S, pos)
           P == IF B = {} THEN S ELSE B
<1>1. NumberOf(tl, seg, pos)
      = IF S = {} THEN seg.n
        ELSE tl[seg.at[IF B = {} THEN Earliest(P) ELSE Latest(P)]].n
  BY Zenon DEF NumberOf, Starts, UpTo, Earliest, Latest
<1>2. (IF B = {} THEN Earliest(P) ELSE Latest(P)) = Chosen(S, pos)
  BY DEF Chosen
<1> HIDE DEF S, B, P
<1> QED BY <1>1, <1>2 DEF S

LEMMA GreatestNatural ==
    ASSUME NEW m \in Nat, NEW S, S \subseteq 0 .. m, S # {}
    PROVE  \E i \in S : \A j \in S : i >= j
<1> DEFINE R == {x \in 0 .. m : m - x \in S}
<1>1. PICK j \in S : TRUE
  OBVIOUS
<1>2. m - j \in R
  <2>1. j \in 0 .. m
    BY <1>1
  <2>2. m - j \in 0 .. m /\ m - (m - j) = j
    BY <2>1
  <2> QED BY <1>1, <2>2
<1>3. R \subseteq Nat
  OBVIOUS
<1>4. PICK x \in R : \A y \in R : x <= y
  BY <1>2, <1>3, LeastNatural
<1>5. ASSUME NEW k \in S PROVE m - x >= k
  <2>1. k \in 0 .. m
    BY <1>5
  <2>2. m - k \in R
    <3>1. m - k \in 0 .. m /\ m - (m - k) = k
      BY <2>1
    <3> QED BY <1>5, <3>1
  <2>3. x <= m - k
    BY <1>4, <2>2
  <2> QED BY <2>1, <2>3
<1>6. m - x \in S
  OBVIOUS
<1> QED BY <1>5, <1>6

LEMMA ChosenIsOne ==
    ASSUME NEW m \in Nat, NEW S, S \subseteq 1 .. m, S # {}, NEW pos
    PROVE  Chosen(S, pos) \in S
<1> DEFINE B == UpTo(S, pos)
<1>1. B \subseteq S
  BY DEF UpTo
<1>2. CASE B = {}
  <2>1. S \subseteq Nat
    OBVIOUS
  <2>2. \E p \in S : \A q \in S : p <= q
    BY <2>1, LeastNatural
  <2>3. Earliest(S) \in S
    BY <2>2, Zenon DEF Earliest
  <2> QED BY <1>2, <2>3 DEF Chosen
<1>3. CASE B # {}
  <2> HIDE DEF B
  <2>1. B \subseteq 0 .. m
    <3>1. 1 .. m \subseteq 0 .. m
      OBVIOUS
    <3> QED BY <1>1, <3>1
  <2>2. \E p \in B : \A q \in B : p >= q
    BY <1>3, <2>1, GreatestNatural
  <2>3. Latest(B) \in B
    BY <2>2, Zenon DEF Latest
  <2> QED BY <1>1, <1>3, <2>3 DEF Chosen, B
<1> QED BY <1>2, <1>3

\* The starts a longer segment has are those it had.
KeepsStarts(ul, tl, x, y, T) ==
    /\ Continues(ul, tl) /\ T \in Seq(Nat) /\ \A j \in Range(T) : ~IsStart(tl[j])
    /\ x.at \in Seq(Nat) /\ Range(x.at) \subseteq 1 .. Len(ul)
    /\ y.at = x.at \o T /\ y.n = x.n

LEMMA NumberKept ==
    \A ul, tl, x, y, T :
        KeepsStarts(ul, tl, x, y, T)
        => \A pos : NumberOf(tl, y, pos) = NumberOf(ul, x, pos)
<1> SUFFICES ASSUME NEW ul, NEW tl, NEW x, NEW y, NEW T, NEW pos, KeepsStarts(ul, tl, x, y, T)
             PROVE  NumberOf(tl, y, pos) = NumberOf(ul, x, pos)
  OBVIOUS
<1>0. /\ Continues(ul, tl) /\ T \in Seq(Nat) /\ \A j \in Range(T) : ~IsStart(tl[j])
      /\ x.at \in Seq(Nat) /\ Range(x.at) \subseteq 1 .. Len(ul)
      /\ y.at = x.at \o T /\ y.n = x.n
  BY DEF KeepsStarts
<1> DEFINE m == Len(x.at)
           k == Len(T)
           S == Starts(ul, x.at)
           R == Starts(tl, y.at)
<1>1. /\ m \in Nat /\ k \in Nat /\ DOMAIN x.at = 1 .. m /\ DOMAIN T = 1 .. k /\ Len(y.at) = m + k
      /\ \A p \in 1 .. m : y.at[p] = x.at[p]
      /\ \A p \in m + 1 .. m + k : y.at[p] = T[p - m] /\ p - m \in 1 .. k
  BY <1>0
<1>2. \A p \in 1 .. m : x.at[p] \in 1 .. Len(ul)
  BY <1>0, <1>1 DEF Range
<1>3. \A p \in 1 .. m : tl[y.at[p]] = ul[x.at[p]]
  BY <1>0, <1>1, <1>2 DEF Continues
<1>4. \A p \in m + 1 .. m + k : ~IsStart(tl[y.at[p]])
  BY <1>0, <1>1 DEF Range
<1>5. \A p \in 1 .. m + k : p \in 1 .. m \/ p \in m + 1 .. m + k
  BY <1>1
<1>6. \A p \in 1 .. m : p \in 1 .. m + k
  BY <1>1
<1>7. R = S
  <2>1. \A p : p \in R <=> p \in S
    BY <1>1, <1>3, <1>4, <1>5, <1>6 DEF Starts
  <2> QED BY <2>1
<1>8. S \subseteq 1 .. m
  BY DEF Starts
<1> DEFINE c == Chosen(S, pos)
<1>9. S # {} => c \in 1 .. m
  BY <1>1, <1>8, ChosenIsOne
<1>13. Chosen(R, pos) = c
  BY <1>7
<1> HIDE DEF m, k, S, R, c
<1>10. S # {} => tl[y.at[c]].n = ul[x.at[c]].n
  BY <1>3, <1>9
<1>11. /\ NumberOf(tl, y, pos) = IF R = {} THEN y.n ELSE tl[y.at[Chosen(R, pos)]].n
       /\ NumberOf(ul, x, pos) = IF S = {} THEN x.n ELSE ul[x.at[c]].n
  BY NumberOfIs DEF S, R, c
<1>14. CASE S = {}
  BY <1>0, <1>7, <1>11, <1>14
<1>15. CASE S # {}
  BY <1>7, <1>10, <1>11, <1>13, <1>15
<1> QED BY <1>14, <1>15

\* After its last start every event of a segment has the same number.
LEMMA NumberStays ==
    ASSUME NEW tl, NEW x, NEW u \in Seq(Nat), NEW v \in Seq(Nat), x.at = u \o v,
           \A j \in Range(v) : ~IsStart(tl[j]),
           NEW p \in Nat, NEW q \in Nat, p >= Len(u), q >= Len(u)
    PROVE  NumberOf(tl, x, p) = NumberOf(tl, x, q)
<1> DEFINE m == Len(u)
           k == Len(v)
           S == Starts(tl, x.at)
<1>1. /\ m \in Nat /\ k \in Nat /\ DOMAIN v = 1 .. k /\ Len(x.at) = m + k
      /\ \A r \in m + 1 .. m + k : x.at[r] = v[r - m] /\ r - m \in 1 .. k
  OBVIOUS
<1>2. \A r \in m + 1 .. m + k : ~IsStart(tl[x.at[r]])
  BY <1>1 DEF Range
<1>3. \A r \in 1 .. m + k : r <= m \/ r \in m + 1 .. m + k
  BY <1>1
<1>4. \A r \in S : r \in Nat /\ r <= m
  BY <1>1, <1>2, <1>3 DEF Starts
<1>5. UpTo(S, p) = S /\ UpTo(S, q) = S
  <2>1. \A r \in S : r <= p /\ r <= q
    BY <1>1, <1>4
  <2> HIDE DEF S
  <2> QED BY <2>1 DEF UpTo
<1>6. Chosen(S, p) = Chosen(S, q)
  BY <1>5 DEF Chosen
<1> HIDE DEF S
<1>7. /\ NumberOf(tl, x, p) = IF S = {} THEN x.n ELSE tl[x.at[Chosen(S, p)]].n
      /\ NumberOf(tl, x, q) = IF S = {} THEN x.n ELSE tl[x.at[Chosen(S, q)]].n
  BY NumberOfIs DEF S
<1> QED BY <1>6, <1>7

LEMMA NumberedIs ==
    ASSUME NEW segs \in Seq(Segs), NEW k \in DOMAIN segs
    PROVE  /\ Numbered(segs)[k].n = IF segs[k].n = Unnumbered
                                    THEN FreeNumber([j \in DOMAIN segs |-> segs[j].n], k)
                                    ELSE segs[k].n
           /\ Numbered(segs)[k].at = segs[k].at
<1> DEFINE new == Numbered(segs)
           v == IF segs[k].n = Unnumbered THEN FreeNumber([j \in DOMAIN segs |-> segs[j].n], k)
                ELSE segs[k].n
<1>1. new[k] = [segs[k] EXCEPT !.n = v]
  BY Zenon DEF Numbered
<1>2. segs[k] \in Segs
  OBVIOUS
<1> HIDE DEF new, v
<1>3. new[k] = [n |-> v, open |-> segs[k].open, at |-> segs[k].at]
  BY <1>1, <1>2, NumberReplaced
<1>4. new[k].n = v /\ new[k].at = segs[k].at
  BY <1>3
<1> QED BY <1>4 DEF new, v

LEMMA NumberedLonger ==
    ASSUME NEW a \in Seq(Segs), NEW b, NEW T \in Seq(Nat), Longer(a, b, T)
    PROVE  /\ DOMAIN Numbered(a) = DOMAIN a /\ DOMAIN Numbered(b) = DOMAIN a
           /\ \A k \in DOMAIN a : /\ Numbered(b)[k].n = Numbered(a)[k].n
                                  /\ Numbered(a)[k].at = a[k].at
                                  /\ Numbered(b)[k].at = b[k].at
<1>1. b \in Seq(Segs) /\ DOMAIN b = DOMAIN a /\ \A k \in DOMAIN a : b[k].n = a[k].n
  BY LongerIs
<1>2. [j \in DOMAIN b |-> b[j].n] = [j \in DOMAIN a |-> a[j].n]
  BY <1>1
<1>3. DOMAIN Numbered(a) = DOMAIN a /\ DOMAIN Numbered(b) = DOMAIN b
  BY <1>1, NumberedStays
<1>4. ASSUME NEW k \in DOMAIN a
      PROVE  /\ Numbered(b)[k].n = Numbered(a)[k].n
             /\ Numbered(a)[k].at = a[k].at
             /\ Numbered(b)[k].at = b[k].at
  <2>1. b[k].n = a[k].n
    BY <1>1
  <2>2. FreeNumber([j \in DOMAIN b |-> b[j].n], k) = FreeNumber([j \in DOMAIN a |-> a[j].n], k)
    BY <1>2
  <2>3. /\ Numbered(a)[k].n = IF a[k].n = Unnumbered
                              THEN FreeNumber([j \in DOMAIN a |-> a[j].n], k) ELSE a[k].n
        /\ Numbered(a)[k].at = a[k].at
    BY NumberedIs
  <2>4. /\ Numbered(b)[k].n = IF b[k].n = Unnumbered
                              THEN FreeNumber([j \in DOMAIN b |-> b[j].n], k) ELSE b[k].n
        /\ Numbered(b)[k].at = b[k].at
    BY <1>1, NumberedIs
  <2> QED BY <2>1, <2>2, <2>3, <2>4
<1> QED BY <1>1, <1>3, <1>4

-----------------------------------------------------------------------------
(* The map of a timeline, and of one that goes on without a boundary. *)

Whole(tl) == Attached(tl, Stamped(Cut(tl)))

LEMMA WholeSpreads ==
    ASSUME NEW tl \in Seq(Gained)
    PROVE  /\ Spread(Whole(tl), TurnPlaces(tl, Len(tl))) /\ Whole(tl) \in Seq(Segs)
           /\ Segments(tl) = Numbered(Whole(tl))
<1>1. Spread(Whole(tl), TurnPlaces(tl, Len(tl)))
  BY SegmentsSpread DEF Whole
<1> QED BY <1>1 DEF Spread, Segments, Whole

LEMMA MapDomain ==
    ASSUME NEW tl \in Seq(Gained)
    PROVE  DOMAIN CutTurns(tl) = TurnPlaces(tl, Len(tl))
<1> DEFINE a == Whole(tl)
           L == Segments(tl)
<1>1. /\ DOMAIN L = DOMAIN a /\ \A k \in DOMAIN a : L[k].at = a[k].at
  BY WholeSpreads, NumberedStays
<1>2. Spread(a, TurnPlaces(tl, Len(tl)))
  BY WholeSpreads
<1> HIDE DEF a, L
<1>3. DOMAIN CutTurns(tl) = UNION {Range(L[k].at) : k \in DOMAIN L}
  BY Zenon DEF CutTurns, DisplayTurns, L
<1>4. \A i : i \in DOMAIN CutTurns(tl) <=> \E k \in DOMAIN a : i \in Range(a[k].at)
  BY <1>1, <1>3
<1>5. \A i : i \in TurnPlaces(tl, Len(tl)) <=> \E k \in DOMAIN a : i \in Range(a[k].at)
  BY <1>2 DEF Spread
<1> QED BY <1>4, <1>5

LEMMA MapAt ==
    ASSUME NEW tl \in Seq(Gained), NEW k \in DOMAIN Whole(tl), NEW p \in DOMAIN Whole(tl)[k].at
    PROVE  CutTurns(tl)[Whole(tl)[k].at[p]] = NumberOf(tl, Segments(tl)[k], p)
<1> DEFINE a == Whole(tl)
           L == Segments(tl)
           i == a[k].at[p]
           S == TurnPlaces(tl, Len(tl))
<1>1. Spread(a, S) /\ a \in Seq(Segs) /\ L = Numbered(a)
  BY WholeSpreads
<1>2. Places(L, i) = Places(a, i)
  BY <1>1, NumberedStays
<1>3. i \in S
  <2>1. i \in Range(a[k].at)
    BY DEF Range
  <2> HIDE DEF a, i
  <2> QED BY <1>1, <2>1 DEF Spread, a
<1>4. <<k, p>> \in Places(a, i)
  BY DEF Places
<1>5. \E l \in DOMAIN a : \E q \in DOMAIN a[l].at : a[l].at[q] = i /\ Places(a, i) = {<<l, q>>}
  BY <1>1, <1>3, OnePlace
<1>6. Places(L, i) = {<<k, p>>}
  BY <1>2, <1>4, <1>5
<1>7. i \in DOMAIN CutTurns(tl)
  BY <1>3, MapDomain
<1> HIDE DEF a, i, L
<1>8. CutTurns(tl)[i] = NumberOf(tl, L[(CHOOSE x \in Places(L, i) : TRUE)[1]],
                                (CHOOSE x \in Places(L, i) : TRUE)[2])
  BY <1>7, Zenon DEF CutTurns, DisplayTurns, L
<1>9. (CHOOSE x \in Places(L, i) : TRUE) = <<k, p>>
  BY <1>6
<1>10. <<k, p>>[1] = k /\ <<k, p>>[2] = p
  OBVIOUS
<1>11. CutTurns(tl)[i] = NumberOf(tl, L[k], p)
  BY <1>8, <1>9, <1>10
<1> QED BY <1>11 DEF i, a, L

EndsFollowStarts(tl) ==
    \A i \in DOMAIN tl : tl[i].kind = "ended" => \E j \in 1 .. i - 1 : IsStart(tl[j])

\* What is cut of a timeline without its tail is ready for the tail.
LEMMA CutStands ==
    ASSUME NEW ul \in Seq(Gained), EndsFollowStarts(ul), Len(ul) # 0, ~SessionLevel(ul[Len(ul)])
    PROVE  TailStands(ul, Stamped(Cut(ul)), Len(ul))
<1> DEFINE n == Len(ul)
           s == Passed(ul)[n]
           c == Cut(ul)
           a == Stamped(c)
<1>1. n \in Nat /\ n \in 1 .. n /\ n \in 0 .. n /\ DOMAIN ul = 1 .. n
  OBVIOUS
<1>2. Shaped(s)
  BY <1>1, PassedFits, FitIsShaped
<1>3. NumbersNoted(ul, s, n) /\ PutLast(ul, s, n)
  BY <1>1, PassedNotes
<1>4. Spread(c, TurnPlaces(ul, n))
  BY CutSpreads
<1>5. c = Closed(s)
  BY DEF Cut
<1> SUFFICES TailStands(ul, a, n)
  OBVIOUS
<1> HIDE DEF s, c
<1>6. /\ DOMAIN a = DOMAIN c /\ \A k \in DOMAIN c : a[k].at = c[k].at
      /\ a \in Seq(Segs) /\ c \in Seq(Segs)
  BY <1>4, StampedFits DEF Spread
<1>7. Len(a) = Len(c)
  BY <1>6
<1>8. s.segs \in Seq(Segs) /\ s.cur \in Segs
  BY <1>2 DEF Shaped
<1>9. CASE EndsWith(c[Len(c)].at, n) /\ c # <<>>
  <2>1. Len(c) \in DOMAIN c
    BY <1>6, <1>9
  <2> QED BY <1>6, <1>7, <1>9, <2>1 DEF TailStands
<1>10. CASE s.cur # NoSegment /\ EndsWith(s.cur.at, n)
  <2>1. c # <<>> /\ c[Len(c)] = s.cur
    BY <1>5, <1>8, <1>10 DEF Closed
  <2> QED BY <1>9, <1>10, <2>1
<1>11. CASE s.cur = NoSegment /\ s.segs # <<>> /\ EndsWith(s.segs[Len(s.segs)].at, n)
  BY <1>5, <1>9, <1>11 DEF Closed
<1>12. CASE /\ s.cur # NoSegment /\ s.segs # <<>> /\ EndsWith(s.segs[Len(s.segs)].at, n)
            /\ ~Started(ul, s.cur) /\ ul[n].kind = "ended"
  <2> DEFINE m == Len(s.segs)
  <2>1. c = Append(s.segs, s.cur)
    BY <1>5, <1>12 DEF Closed
  <2>2. /\ m \in Nat /\ m # 0 /\ Len(c) = m + 1 /\ c[m + 1] = s.cur /\ m \in DOMAIN c /\ m + 1 \in DOMAIN c
        /\ \A k \in DOMAIN s.segs : k \in DOMAIN c /\ c[k] = s.segs[k]
        /\ m \in DOMAIN s.segs
    BY <1>8, <1>12, <2>1
  <2>3. \E j \in 1 .. n : IsStart(ul[j])
    <3>1. PICK j \in 1 .. n - 1 : IsStart(ul[j])
      BY <1>1, <1>12 DEF EndsFollowStarts
    <3>2. j \in 1 .. n
      BY <1>1
    <3> QED BY <3>1, <3>2
  <2>4. s.cur.n = Unnumbered /\ \E k \in DOMAIN s.segs : s.segs[k].n # Unnumbered
    BY <1>3, <1>12, <2>3 DEF NumbersNoted
  <2>5. a = c
    BY <2>2, <2>4 DEF Stamped
  <2> HIDE DEF m, n, a
  <2>6. Len(a) = m + 1 /\ a[Len(a)] = s.cur /\ Len(a) - 1 = m /\ a[m] = s.segs[m] /\ Len(a) > 1
    BY <2>2, <2>5
  <2>7. \A j \in Range(s.cur.at) : ~IsStart(ul[j])
    BY <1>12 DEF Started
  <2>8. TailStands(ul, a, n)
    BY <1>12, <2>4, <2>6, <2>7 DEF TailStands, m
  <2> QED BY <2>8 DEF a, n
<1> QED BY <1>3, <1>10, <1>11, <1>12 DEF PutLast

LEMMA TailIsAdded ==
    ASSUME NEW ul, NEW tl, Continues(ul, tl), EndsFollowStarts(ul), Len(ul) # 0,
           ~SessionLevel(ul[Len(ul)]), \A i \in Len(ul) + 1 .. Len(tl) : ~Boundary(tl[i])
    PROVE  /\ \E T \in Seq(Nat) : /\ Range(T) = TailPlaces(tl, Len(ul), Len(tl))
                                  /\ Longer(Whole(ul), Whole(tl), T)
           /\ FinalIn(ul, Whole(ul), Len(ul))
<1> DEFINE n == Len(ul)
           s == Passed(tl)[n]
           t == Passed(tl)[Len(tl)]
           a == Stamped(Cut(ul))
           b == Stamped(Cut(tl))
<1>1. /\ ul \in Seq(Gained) /\ tl \in Seq(Gained) /\ n \in Nat /\ Len(tl) \in Nat /\ n <= Len(tl)
      /\ n \in 1 .. Len(tl) /\ n \in 0 .. n /\ Len(tl) \in n .. Len(tl) /\ n \in 0 .. Len(tl)
      /\ n \in 1 .. n
  BY DEF Continues
<1>2. tl[n] = ul[n]
  BY <1>1 DEF Continues
<1>3. HasTail(tl, s, t, n, Len(tl))
  BY <1>1, <1>2, TailPassed
<1>4. PICK T \in Seq(Nat) : Range(T) = TailPlaces(tl, n, Len(tl)) /\ TailOf(s, t, T)
  BY <1>3 DEF HasTail
<1>5. Shaped(s)
  BY <1>1, PassedFits, FitIsShaped
<1>6. Longer(Closed(s), Closed(t), T)
  BY <1>4, <1>5, TailCloses
<1>7. Cut(ul) = Closed(s) /\ Cut(tl) = Closed(t)
  <2>1. Passed(ul)[n] = s
    BY <1>1, PassedLocal
  <2> QED BY <2>1 DEF Cut
<1>8. Spread(Cut(ul), TurnPlaces(ul, n)) /\ Spread(Cut(tl), TurnPlaces(tl, Len(tl)))
  BY <1>1, CutSpreads
<1>9. /\ Spread(a, TurnPlaces(ul, n)) /\ DOMAIN a = DOMAIN Cut(ul)
      /\ Cut(ul) # <<>> => \E k \in DOMAIN a : a[k].n # Unnumbered
  BY <1>8, StampedFits
<1>10. Spread(b, TurnPlaces(tl, Len(tl)))
  BY <1>8, StampedFits
<1>11. Cut(ul) \in Seq(Segs) /\ a \in Seq(Segs) /\ b \in Seq(Segs)
  BY <1>8, <1>9, <1>10 DEF Spread
<1>12. Longer(Cut(ul), Cut(tl), T)
  BY <1>6, <1>7
<1>13. Longer(a, b, T)
  BY <1>11, <1>12, StampedLonger
<1>14. \E k \in DOMAIN a : a[k].n # Unnumbered
  BY <1>9, <1>12 DEF Longer
<1>15. \A k \in DOMAIN a : Range(a[k].at) \subseteq 1 .. n
  <2>1. TurnPlaces(ul, n) \subseteq 1 .. n
    BY DEF TurnPlaces
  <2>2. \A k \in DOMAIN a : Range(a[k].at) \subseteq TurnPlaces(ul, n)
    BY <1>9 DEF Spread
  <2> QED BY <2>1, <2>2
<1>16. \A j \in Range(T) : ~IsEnd(tl[j])
  BY <1>4 DEF TailPlaces, Boundary
<1>17. TailStands(ul, a, n)
  BY <1>1, CutStands
<1> HIDE DEF a, b, n
<1>18. Longer(Attached(ul, a), Attached(tl, b), T) /\ FinalIn(ul, Attached(ul, a), n)
  BY <1>9, <1>11, <1>13, <1>14, <1>15, <1>16, <1>17, AttachedTail DEF n
<1> QED BY <1>4, <1>18 DEF Whole, a, b, n

LEMMA BehindIt ==
    ASSUME NEW s \in Seq(Nat), NEW t \in Seq(Nat), NEW q \in DOMAIN t
    PROVE  /\ Len(s) \in Nat /\ q \in Nat /\ Len(s) + q \in DOMAIN (s \o t)
           /\ (s \o t)[Len(s) + q] = t[q] /\ Len(s) + q \in Nat
<1>1. Len(s) \in Nat /\ Len(t) \in Nat /\ q \in 1 .. Len(t) /\ s \o t \in Seq(Nat)
  OBVIOUS
<1>2. Len(s \o t) = Len(s) + Len(t)
  OBVIOUS
<1> QED BY <1>1, <1>2

LEMMA MapGoesOn ==
    ASSUME NEW ul, NEW tl, Continues(ul, tl), EndsFollowStarts(ul), Len(ul) # 0,
           ~SessionLevel(ul[Len(ul)]), \A i \in Len(ul) + 1 .. Len(tl) : ~Boundary(tl[i])
    PROVE  /\ \A i \in TurnPlaces(ul, Len(ul)) : CutTurns(tl)[i] = CutTurns(ul)[i]
           /\ \A i \in TailPlaces(tl, Len(ul), Len(tl)) : CutTurns(tl)[i] = CutTurns(ul)[Len(ul)]
<1> DEFINE n == Len(ul)
           a == Whole(ul)
           b == Whole(tl)
           L == Segments(ul)
           M == Segments(tl)
           m == Len(a)
<1>1. ul \in Seq(Gained) /\ tl \in Seq(Gained)
  BY DEF Continues
<1>2. PICK T \in Seq(Nat) : /\ Range(T) = TailPlaces(tl, n, Len(tl)) /\ Longer(a, b, T)
  BY TailIsAdded
<1>3. FinalIn(ul, a, n)
  BY TailIsAdded
<1>4. Spread(a, TurnPlaces(ul, n)) /\ a \in Seq(Segs) /\ L = Numbered(a) /\ M = Numbered(b)
  BY <1>1, WholeSpreads
<1>5. /\ DOMAIN b = DOMAIN a /\ m \in DOMAIN a /\ b[m] = Lengthened(a[m], T)
      /\ \A k \in DOMAIN a : k # m => b[k] = a[k]
  BY <1>2, <1>4, LongerIs
<1>6. \A k \in DOMAIN a : M[k].n = L[k].n /\ L[k].at = a[k].at /\ M[k].at = b[k].at
  BY <1>2, <1>4, NumberedLonger
<1>7. \A k \in DOMAIN a : a[k].at \in Seq(Nat) /\ Range(a[k].at) \subseteq 1 .. n
  <2>1. TurnPlaces(ul, n) \subseteq 1 .. n
    BY DEF TurnPlaces
  <2>2. \A k \in DOMAIN a : Range(a[k].at) \subseteq TurnPlaces(ul, n)
    BY <1>4 DEF Spread
  <2>3. \A k \in DOMAIN a : a[k] \in Segs
    BY <1>4
  <2> HIDE DEF a
  <2>4. \A k \in DOMAIN a : a[k].at \in Seq(Nat)
    BY <2>3, SegmentIs
  <2> QED BY <2>1, <2>2, <2>4
<1>8. b[m].at = a[m].at \o T
  BY <1>5 DEF Lengthened
<1>9. \A j \in Range(T) : ~IsStart(tl[j])
  BY <1>2 DEF TailPlaces, Boundary
<1>10. /\ \A k \in DOMAIN a : \A p \in DOMAIN a[k].at : CutTurns(ul)[a[k].at[p]] = NumberOf(ul, L[k], p)
       /\ \A k \in DOMAIN b : \A p \in DOMAIN b[k].at : CutTurns(tl)[b[k].at[p]] = NumberOf(tl, M[k], p)
  BY <1>1, MapAt
<1> HIDE DEF a, b, L, M, m, n
<1>11. ASSUME NEW k \in DOMAIN a, NEW pos PROVE NumberOf(tl, M[k], pos) = NumberOf(ul, L[k], pos)
  <2>1. L[k].at \in Seq(Nat) /\ Range(L[k].at) \subseteq 1 .. Len(ul) /\ M[k].n = L[k].n
    BY <1>6, <1>7 DEF n
  <2>2. CASE k = m
    <3>1. M[k].at = L[k].at \o T
      BY <1>6, <1>8, <2>2
    <3>2. KeepsStarts(ul, tl, L[k], M[k], T)
      BY <1>9, <2>1, <3>1 DEF KeepsStarts
    <3> QED BY <3>2, NumberKept
  <2>3. CASE k # m
    <3>1. M[k].at = L[k].at \o <<>>
      BY <1>5, <1>6, <2>1, <2>3
    <3>2. <<>> \in Seq(Nat) /\ \A j \in Range(<<>>) : ~IsStart(tl[j])
      BY DEF Range
    <3>3. KeepsStarts(ul, tl, L[k], M[k], <<>>)
      BY <2>1, <3>1, <3>2 DEF KeepsStarts
    <3> QED BY <3>3, NumberKept
  <2> QED BY <2>2, <2>3
<1>12. ASSUME NEW k \in DOMAIN a, NEW p \in DOMAIN a[k].at
       PROVE  p \in DOMAIN b[k].at /\ b[k].at[p] = a[k].at[p]
  <2>1. CASE k = m
    <3>1. a[k].at \in Seq(Nat) /\ b[k].at = a[k].at \o T
      BY <1>7, <1>8, <2>1
    <3> QED BY <3>1
  <2>2. CASE k # m
    BY <1>5, <2>2
  <2> QED BY <2>1, <2>2
<1>13. ASSUME NEW i \in TurnPlaces(ul, n) PROVE CutTurns(tl)[i] = CutTurns(ul)[i]
  <2>1. PICK k \in DOMAIN a : i \in Range(a[k].at)
    BY <1>4 DEF Spread
  <2>2. PICK p \in DOMAIN a[k].at : a[k].at[p] = i
    BY <2>1 DEF Range
  <2>3. p \in DOMAIN b[k].at /\ b[k].at[p] = i /\ k \in DOMAIN b
    BY <1>5, <1>12, <2>2
  <2>4. CutTurns(ul)[i] = NumberOf(ul, L[k], p)
    BY <1>10, <2>2
  <2>5. CutTurns(tl)[i] = NumberOf(tl, M[k], p)
    BY <1>10, <2>3
  <2> QED BY <1>11, <2>4, <2>5
<1>14. ASSUME NEW i \in TailPlaces(tl, n, Len(tl)) PROVE CutTurns(tl)[i] = CutTurns(ul)[n]
  <2>1. i \in Range(T)
    BY <1>2
  <2>2. PICK q \in DOMAIN T : T[q] = i
    BY <2>1 DEF Range
  <2> DEFINE w == Len(a[m].at)
  <2>3. a[m].at \in Seq(Nat) /\ m \in DOMAIN a
    BY <1>5, <1>7
  <2>4. /\ w \in Nat /\ q \in Nat /\ w + q \in DOMAIN b[m].at /\ b[m].at[w + q] = i
        /\ w + q \in Nat
    BY <1>8, <2>2, <2>3, BehindIt
  <2>5. PICK u \in Seq(Nat), v \in Seq(Nat) :
           /\ a[m].at = u \o v /\ EndsWith(u, n) /\ \A j \in Range(v) : ~IsStart(ul[j])
    BY <1>3 DEF FinalIn, m
  <2>6. /\ Len(u) \in Nat /\ Len(u) \in DOMAIN a[m].at /\ a[m].at[Len(u)] = n /\ w >= Len(u)
    <3>1. u # <<>> /\ u[Len(u)] = n
      BY <2>5 DEF EndsWith
    <3>2. Len(u) \in Nat /\ Len(u) # 0 /\ Len(v) \in Nat
      BY <3>1
    <3>3. w = Len(u) + Len(v)
      BY <2>5
    <3>4. DOMAIN a[m].at = 1 .. w
      BY <2>3
    <3>5. (u \o v)[Len(u)] = u[Len(u)]
      BY <3>2
    <3> HIDE DEF w
    <3> QED BY <2>5, <3>1, <3>2, <3>3, <3>4, <3>5
  <2>7. CutTurns(ul)[n] = NumberOf(ul, L[m], Len(u))
    BY <1>10, <2>3, <2>6
  <2>8. CutTurns(tl)[i] = NumberOf(tl, M[m], w + q)
    BY <1>5, <1>10, <2>4
  <2>9. NumberOf(tl, M[m], w + q) = NumberOf(ul, L[m], w + q)
    BY <1>11, <2>3
  <2>10. L[m].at = u \o v
    BY <1>6, <2>3, <2>5
  <2>11. w + q >= Len(u) /\ Len(u) >= Len(u)
    BY <2>4, <2>6
  <2> HIDE DEF w
  <2>12. NumberOf(ul, L[m], w + q) = NumberOf(ul, L[m], Len(u))
    BY <2>4, <2>5, <2>6, <2>10, <2>11, NumberStays
  <2> QED BY <2>7, <2>8, <2>9, <2>12
<1> QED BY <1>13, <1>14 DEF n

-----------------------------------------------------------------------------
(* Numbers for the turns the harness did not number. *)

LEMMA LessIsFinite ==
    ASSUME NEW S, IsFiniteSet(S), NEW T
    PROVE  /\ IsFiniteSet(S \ T) /\ Cardinality(S \ T) \in Nat
           /\ Cardinality(S \ T) = Cardinality(S) - Cardinality(S \cap T)
<1>1. IsFiniteSet(S \ T) /\ Cardinality(S \ T) = Cardinality(S) - Cardinality(S \cap T)
  BY FS_Difference
<1> QED BY <1>1, FS_CardinalityType

LEMMA FirstNumbers ==
    ASSUME NEW n \in Nat
    PROVE  /\ IsFiniteSet(1 .. n) /\ Cardinality(1 .. n) = n
           /\ IsFiniteSet(0 .. n) /\ Cardinality(0 .. n) = n + 1
<1>1. IsFiniteSet(1 .. n) /\ Cardinality(1 .. n) = IF 1 > n THEN 0 ELSE n - 1 + 1
  BY FS_Interval
<1>2. IsFiniteSet(0 .. n) /\ Cardinality(0 .. n) = IF 0 > n THEN 0 ELSE n - 0 + 1
  BY FS_Interval
<1> QED BY <1>1, <1>2

LEMMA FreeOne ==
    ASSUME NEW used, NEW top \in Nat, NEW b \in Nat,
           Cardinality((0 .. top) \ used) > b
    PROVE  \E n \in (0 .. top) \ used : Cardinality((0 .. n - 1) \ used) = b
<1> DEFINE S == {n \in 0 .. top : Cardinality((0 .. n) \ used) > b}
<1>1. top \in S /\ S \subseteq Nat
  OBVIOUS
<1>2. PICK n \in S : \A m \in S : n <= m
  BY <1>1, LeastNatural
<1>3. n \in Nat /\ n \in 0 .. top /\ Cardinality((0 .. n) \ used) > b
  BY <1>2
<1>4. ASSUME NEW m \in Int
      PROVE  /\ IsFiniteSet((0 .. m) \ used) /\ Cardinality((0 .. m) \ used) \in Nat
  <2>1. IsFiniteSet(0 .. m)
    BY FS_Interval
  <2> QED BY <2>1, LessIsFinite
<1>5. n - 1 \in Int /\ IsFiniteSet((0 .. n - 1) \ used) /\ Cardinality((0 .. n - 1) \ used) \in Nat
  BY <1>3, <1>4
<1>6. Cardinality((0 .. n - 1) \ used) <= b
  <2>1. CASE n = 0
    <3>1. (0 .. n - 1) \ used = {}
      BY <2>1
    <3> QED BY <3>1, FS_EmptySet
  <2>2. CASE n # 0
    <3>1. n - 1 \in 0 .. top /\ ~(n <= n - 1)
      BY <1>3, <2>2
    <3>2. n - 1 \notin S
      BY <1>2, <3>1
    <3> QED BY <1>5, <3>1, <3>2
  <2> QED BY <2>1, <2>2
<1>7. 0 .. n = (0 .. n - 1) \union {n} /\ n \notin 0 .. n - 1
  BY <1>3
<1>8. n \notin used
  <2> SUFFICES ASSUME n \in used PROVE FALSE
    OBVIOUS
  <2>1. (0 .. n) \ used = (0 .. n - 1) \ used
    BY <1>7
  <2> QED BY <1>3, <1>5, <1>6, <2>1
<1>9. (0 .. n) \ used = ((0 .. n - 1) \ used) \union {n} /\ n \notin (0 .. n - 1) \ used
  BY <1>7, <1>8
<1>10. Cardinality((0 .. n) \ used) = Cardinality((0 .. n - 1) \ used) + 1
  BY <1>5, <1>9, FS_AddElement
<1>11. Cardinality((0 .. n - 1) \ used) = b
  BY <1>3, <1>5, <1>6, <1>10
<1> QED BY <1>3, <1>8, <1>11

LEMMA FreeNumberIs ==
    ASSUME NEW numbers \in Seq(AnyNumber), NEW k \in DOMAIN numbers, numbers[k] = Unnumbered
    PROVE  FreeNumber(numbers, k) \in Nat
<1> DEFINE N == Len(numbers)
           used == {numbers[j] : j \in DOMAIN numbers}
           before == {j \in 1 .. k - 1 : numbers[j] = Unnumbered}
           bare == {j \in 1 .. N : numbers[j] = Unnumbered}
           own == (1 .. N) \ bare
           taken == {numbers[j] : j \in own}
<1>1. N \in Nat /\ DOMAIN numbers = 1 .. N /\ k \in 1 .. N /\ k \in Nat
  OBVIOUS
<1>2. IsFiniteSet(1 .. N) /\ Cardinality(1 .. N) = N
  BY <1>1, FirstNumbers
<1>3. bare \in SUBSET (1 .. N) /\ (1 .. N) \cap bare = bare
  OBVIOUS
<1>4. /\ IsFiniteSet(bare) /\ Cardinality(bare) \in Nat
      /\ IsFiniteSet(own) /\ Cardinality(own) = N - Cardinality(bare)
      /\ Cardinality(own) \in Nat
  <2> HIDE DEF bare, N
  <2>1. IsFiniteSet(bare)
    BY <1>2, <1>3, FS_Subset
  <2>2. IsFiniteSet(own) /\ Cardinality(own) \in Nat
        /\ Cardinality(own) = Cardinality(1 .. N) - Cardinality((1 .. N) \cap bare)
    BY <1>2, LessIsFinite
  <2> QED BY <1>2, <1>3, <2>1, <2>2, FS_CardinalityType
<1>5. IsFiniteSet(taken) /\ Cardinality(taken) <= Cardinality(own) /\ Cardinality(taken) \in Nat
  <2> DEFINE f == [j \in own |-> numbers[j]]
  <2>1. f \in [own -> taken] /\ \A x \in taken : \E j \in own : f[j] = x
    OBVIOUS
  <2> HIDE DEF f, own, taken
  <2>2. f \in Surjection(own, taken)
    BY <2>1 DEF Surjection
  <2> QED BY <1>4, <2>2, FS_Surjection, FS_CardinalityType
<1>6. (0 .. N) \ used = (0 .. N) \ taken
  <2>1. \A x : x \in used /\ x \in Nat <=> x \in taken /\ x \in Nat
    BY <1>1, UnnumberedAssumption
  <2>2. 0 .. N \subseteq Nat
    OBVIOUS
  <2> HIDE DEF used, taken
  <2> QED BY <2>1, <2>2
<1>7. Cardinality((0 .. N) \ taken) >= (N + 1) - Cardinality(own)
  <2> HIDE DEF taken, own, N
  <2>1. IsFiniteSet(0 .. N) /\ Cardinality(0 .. N) = N + 1
    BY <1>1, FirstNumbers
  <2>2. (0 .. N) \cap taken \in SUBSET taken
    OBVIOUS
  <2>3. Cardinality((0 .. N) \cap taken) <= Cardinality(taken) /\ IsFiniteSet((0 .. N) \cap taken)
    BY <1>5, <2>2, FS_Subset
  <2>4. Cardinality((0 .. N) \cap taken) \in Nat
    BY <2>3, FS_CardinalityType
  <2>5. Cardinality((0 .. N) \ taken) = (N + 1) - Cardinality((0 .. N) \cap taken)
    BY <2>1, LessIsFinite
  <2> QED BY <1>1, <1>4, <1>5, <2>3, <2>4, <2>5
<1>8. IsFiniteSet(before) /\ Cardinality(before) \in Nat /\ Cardinality(before) < Cardinality(bare)
  <2>1. before \in SUBSET (bare \ {k}) /\ k \in bare
    BY <1>1
  <2> HIDE DEF before, bare
  <2>2. IsFiniteSet(bare \ {k}) /\ Cardinality(bare \ {k}) = Cardinality(bare) - 1
    BY <1>4, <2>1, FS_RemoveElement
  <2>3. IsFiniteSet(before) /\ Cardinality(before) <= Cardinality(bare \ {k})
    BY <2>1, <2>2, FS_Subset
  <2> QED BY <1>4, <2>2, <2>3, FS_CardinalityType
<1> DEFINE b == Cardinality(before)
<1>9. Cardinality((0 .. N) \ used) > b
  <2> HIDE DEF used, taken, own, bare, before, N
  <2>1. Cardinality((0 .. N) \ taken) \in Nat
    BY <1>1, FirstNumbers, LessIsFinite
  <2>2. Cardinality((0 .. N) \ taken) > b
    BY <1>1, <1>4, <1>7, <1>8, <2>1
  <2> QED BY <1>6, <2>2
<1>10. b \in Nat
  BY <1>8
<1> DEFINE Free(n) == Cardinality((0 .. n - 1) \ used) = b
<1>11. \E n \in (0 .. N) \ used : Free(n)
  <2> HIDE DEF used, N, b
  <2> QED BY <1>1, <1>9, <1>10, FreeOne
<1>12. FreeNumber(numbers, k) = CHOOSE n \in (0 .. N) \ used : Free(n)
  BY Zenon DEF FreeNumber
<1> HIDE DEF Free, used
<1>13. FreeNumber(numbers, k) \in 0 .. N
  BY <1>11, <1>12
<1> QED BY <1>1, <1>13

\* Every row of a turn has a turn.
LEMMA CutNumbers ==
    ASSUME NEW tl \in Seq(Gained), NEW i \in TurnPlaces(tl, Len(tl))
    PROVE  i \in DOMAIN CutTurns(tl) /\ CutTurns(tl)[i] \in Nat
<1> DEFINE a == Whole(tl)
           S == TurnPlaces(tl, Len(tl))
           numbers == [j \in DOMAIN a |-> a[j].n]
<1>1. Spread(a, S) /\ a \in Seq(Segs) /\ Segments(tl) = Numbered(a)
  BY WholeSpreads
<1>2. PICK k \in DOMAIN a : i \in Range(a[k].at)
  BY <1>1 DEF Spread
<1>3. PICK p \in DOMAIN a[k].at : a[k].at[p] = i
  BY <1>2 DEF Range
<1> DEFINE seg == Segments(tl)[k]
<1>4. CutTurns(tl)[i] = NumberOf(tl, seg, p)
  BY <1>3, MapAt
<1>5. a[k] \in Segs
  BY <1>1, <1>2
<1>6. a[k].n \in AnyNumber /\ a[k].at \in Seq(Nat)
  BY <1>5 DEF Segs
<1>7. seg.at = a[k].at /\ seg.n = IF a[k].n = Unnumbered THEN FreeNumber(numbers, k) ELSE a[k].n
  BY <1>1, NumberedIs
<1>8. numbers \in Seq(AnyNumber) /\ DOMAIN numbers = DOMAIN a /\ numbers[k] = a[k].n
  <2>1. \A j \in DOMAIN a : a[j] \in Segs
    BY <1>1
  <2>2. DOMAIN a = 1 .. Len(a) /\ Len(a) \in Nat
    BY <1>1
  <2> HIDE DEF a
  <2>3. \A j \in 1 .. Len(a) : numbers[j] \in AnyNumber
    BY <2>1, <2>2 DEF Segs
  <2> QED BY <1>2, <2>2, <2>3
<1>0. i \in DOMAIN CutTurns(tl)
  BY MapDomain
<1> HIDE DEF a, S, numbers, seg
<1>9. seg.n \in Nat
  BY <1>2, <1>6, <1>7, <1>8, FreeNumberIs DEF AnyNumber
<1>10. \A x \in Range(a[k].at) : x \in DOMAIN tl
  <2>1. \A x \in Range(a[k].at) : x \in S
    BY <1>1, <1>2 DEF Spread
  <2> QED BY <2>1 DEF S, TurnPlaces
<1>11. CASE Starts(tl, seg.at) = {}
  BY <1>0, <1>4, <1>9, <1>11, NumberOfIs
<1>12. CASE Starts(tl, seg.at) # {}
  <2> DEFINE c == Chosen(Starts(tl, seg.at), p)
  <2>1. c \in Starts(tl, seg.at)
    <3>1. Len(seg.at) \in Nat /\ Starts(tl, seg.at) \subseteq 1 .. Len(seg.at)
      BY <1>6, <1>7 DEF Starts
    <3> QED BY <1>12, <3>1, ChosenIsOne
  <2>2. c \in DOMAIN a[k].at /\ IsStart(tl[a[k].at[c]])
    <3>1. c \in Starts(tl, a[k].at)
      BY <1>7, <2>1
    <3>2. c \in 1 .. Len(a[k].at) /\ IsStart(tl[a[k].at[c]])
      BY <3>1 DEF Starts
    <3> HIDE DEF c
    <3> QED BY <1>6, <3>2
  <2>3. a[k].at[c] \in DOMAIN tl
    BY <1>10, <2>2 DEF Range
  <2>4. tl[a[k].at[c]] \in Gained
    BY <2>3
  <2>5. NumberOf(tl, seg, p) = tl[a[k].at[c]].n
    BY <1>7, <1>12, NumberOfIs
  <2> QED BY <1>0, <1>4, <2>2, <2>4, <2>5 DEF Gained
<1> QED BY <1>11, <1>12

-----------------------------------------------------------------------------
(* The rows of a page, of the session as it is when they are read. *)

\* A row as its store has it.
Brought == {e \in [kind : Kinds, n : AnyNumber] : ~IsStart(e) => e.n = Unnumbered}
Till(s, m) == SubSeq(s, 1, m)
Own(s) == [i \in DOMAIN s |-> s[i].n]

LEMMA LoggedIsBrought == Logged(EventKinds, Numbers) \subseteq Brought
<1> SUFFICES ASSUME NEW e \in Logged(EventKinds, Numbers) PROVE e \in Brought
    OBVIOUS
<1>1. CASE \E k \in EventKinds : e = [kind |-> k, n |-> Unnumbered]
  BY <1>1, TableAssumption DEF Brought, AnyNumber
<1>2. CASE \E n \in Numbers : e = [kind |-> "started", n |-> n]
  BY <1>2, TableAssumption DEF Brought, AnyNumber, Kinds, IsStart
<1> QED BY <1>1, <1>2 DEF Logged

LEMMA TillIs ==
    ASSUME NEW s \in Seq(Brought), NEW m \in 0 .. Len(s)
    PROVE  /\ Till(s, m) \in Seq(Brought) /\ Len(Till(s, m)) = m /\ DOMAIN Till(s, m) = 1 .. m
           /\ \A i \in 1 .. m : Till(s, m)[i] = s[i] /\ i \in DOMAIN s
BY DEF Till

LEMMA OwnIs ==
    ASSUME NEW s \in Seq(Brought)
    PROVE  /\ Own(s) \in Seq(AnyNumber) /\ DOMAIN Own(s) = DOMAIN s /\ Len(Own(s)) = Len(s)
           /\ \A i \in DOMAIN s : Own(s)[i] = s[i].n
<1>1. \A i \in DOMAIN s : s[i].n \in AnyNumber
  BY DEF Brought
<1>2. DOMAIN s = 1 .. Len(s) /\ Len(s) \in Nat
  OBVIOUS
<1> QED BY <1>1, <1>2 DEF Own

LEMMA ParsedIs ==
    ASSUME NEW s \in Seq(Brought)
    PROVE  /\ Parsed(s) \in Seq(Gained) /\ Len(Parsed(s)) = Len(s)
           /\ DOMAIN Parsed(s) = 1 .. Len(s)
           /\ \A i \in 1 .. Len(s) :
                 /\ Parsed(s)[i] = [kind |-> s[i].kind, n |-> NumberAt(Own(s), i)]
                 /\ NumberAt(Own(s), i) \in Nat
<1> DEFINE n == Len(s)
           stamps == Carried(Own(s))
<1>1. n \in Nat /\ DOMAIN s = 1 .. n
  OBVIOUS
<1>2. Own(s) \in Seq(AnyNumber) /\ Len(Own(s)) = n
  BY OwnIs
<1>3. \A i \in 1 .. n : stamps[i] = NumberAt(Own(s), i) /\ NumberAt(Own(s), i) \in Nat
  BY <1>2, CarriedIs
<1>4. Parsed(s) = [i \in 1 .. n |-> [s[i] EXCEPT !.n = stamps[i]]]
  BY <1>1, Zenon DEF Parsed, Own
<1>5. ASSUME NEW i \in 1 .. n
      PROVE  /\ Parsed(s)[i] = [kind |-> s[i].kind, n |-> NumberAt(Own(s), i)]
             /\ Parsed(s)[i] \in Gained
  <2>1. s[i] \in [kind : Kinds, n : AnyNumber]
    BY <1>1 DEF Brought
  <2>2. Parsed(s)[i] = [s[i] EXCEPT !.n = NumberAt(Own(s), i)]
    BY <1>3, <1>4
  <2>3. Parsed(s)[i] = [kind |-> s[i].kind, n |-> NumberAt(Own(s), i)]
    BY <2>1, <2>2
  <2> QED BY <1>3, <2>1, <2>3 DEF Gained, AnyNumber
<1> HIDE DEF stamps
<1>6. Parsed(s) \in Seq(Gained) /\ Len(Parsed(s)) = n /\ DOMAIN Parsed(s) = 1 .. n
  <2>1. Parsed(s) \in [1 .. n -> Gained]
    BY <1>4, <1>5
  <2> QED BY <1>1, <2>1
<1> QED BY <1>3, <1>5, <1>6

\* Rows without a number change nothing for those before them.
Lengthens(a, b, l, m) ==
    /\ l \in Nat /\ m \in Nat /\ l # 0 /\ l <= m
    /\ DOMAIN a = 1 .. l /\ DOMAIN b = 1 .. m /\ \A i \in 1 .. l : a[i] = b[i]
    /\ \A i \in l + 1 .. m : b[i] = Unnumbered

LEMMA NumbersGoOn ==
    ASSUME NEW a, NEW b, NEW l, NEW m, Lengthens(a, b, l, m)
    PROVE  /\ \A i \in 1 .. l : NumberAt(b, i) = NumberAt(a, i)
           /\ \A i \in l .. m : NumberAt(b, i) = NumberAt(a, l)
<1>0. /\ l \in Nat /\ m \in Nat /\ l # 0 /\ l <= m
      /\ DOMAIN a = 1 .. l /\ DOMAIN b = 1 .. m /\ \A i \in 1 .. l : a[i] = b[i]
      /\ \A i \in l + 1 .. m : b[i] = Unnumbered
  BY DEF Lengthens
<1> DEFINE M == Marks(a)
<1>1. Marks(b) = M /\ M \in SUBSET (1 .. l) /\ \A x \in M : a[x] = b[x]
  <2>1. \A i \in 1 .. m : i \in 1 .. l \/ i \in l + 1 .. m
    BY <1>0
  <2>2. \A i \in 1 .. l : i \in 1 .. m
    BY <1>0
  <2> QED BY <1>0, <2>1, <2>2 DEF Marks
<1> HIDE DEF M
<1>2. M # {} => Min(M) \in M
  <2>1. M \subseteq Nat
    BY <1>1
  <2> QED BY <2>1, LeastPlace
<1>3. ASSUME NEW i, NEW j, {x \in M : x <= i} = {x \in M : x <= j}
      PROVE  NumberAt(b, i) = NumberAt(a, j)
  <2> DEFINE before == {x \in M : x <= j}
  <2>1. before \in SUBSET (1 .. l) /\ before \subseteq M
    BY <1>1
  <2>2. /\ NumberAt(b, i) = IF before # {} THEN b[Max(before)] ELSE IF M # {} THEN b[Min(M)] ELSE 0
        /\ NumberAt(a, j) = IF before # {} THEN a[Max(before)] ELSE IF M # {} THEN a[Min(M)] ELSE 0
    <3>1. {x \in Marks(b) : x <= i} = before /\ {x \in Marks(a) : x <= j} = before
      BY <1>1, <1>3 DEF M
    <3> QED BY <1>1, <3>1, Zenon DEF NumberAt, M
  <2> HIDE DEF before
  <2>3. before # {} => Max(before) \in M
    BY <1>0, <2>1, GreatestPlace
  <2>4. CASE before # {}
    BY <1>1, <2>2, <2>3, <2>4
  <2>5. CASE before = {} /\ M # {}
    BY <1>1, <1>2, <2>2, <2>5
  <2>6. CASE before = {} /\ M = {}
    BY <2>2, <2>6
  <2> QED BY <2>4, <2>5, <2>6
<1>4. \A i \in 1 .. l : NumberAt(b, i) = NumberAt(a, i)
  BY <1>3
<1>5. \A i \in l .. m : NumberAt(b, i) = NumberAt(a, l)
  <2> TAKE i \in l .. m
  <2>1. \A x \in M : x <= i <=> x <= l
    BY <1>0, <1>1
  <2>2. {x \in M : x <= i} = {x \in M : x <= l}
    BY <2>1
  <2> QED BY <1>3, <2>2
<1> QED BY <1>4, <1>5

LEMMA ParsedGoesOn ==
    ASSUME NEW s \in Seq(Brought), NEW m \in 1 .. Len(s), NEW l \in 1 .. m,
           \A i \in l + 1 .. m : ~Boundary(s[i])
    PROVE  /\ Continues(Parsed(Till(s, l)), Parsed(Till(s, m)))
           /\ \A j \in l .. m : Parsed(Till(s, m))[j].n = Parsed(Till(s, l))[l].n
<1> DEFINE u == Till(s, l)
           t == Till(s, m)
<1>1. l \in 0 .. Len(s) /\ m \in 0 .. Len(s) /\ l \in Nat /\ m \in Nat /\ l # 0 /\ l <= m
  OBVIOUS
<1>2. /\ u \in Seq(Brought) /\ Len(u) = l /\ DOMAIN u = 1 .. l
      /\ \A i \in 1 .. l : u[i] = s[i]
      /\ t \in Seq(Brought) /\ Len(t) = m /\ DOMAIN t = 1 .. m
      /\ \A i \in 1 .. m : t[i] = s[i] /\ i \in DOMAIN s
  BY <1>1, TillIs
<1> HIDE DEF u, t
<1>3. /\ DOMAIN Own(u) = 1 .. l /\ DOMAIN Own(t) = 1 .. m
      /\ \A i \in 1 .. l : Own(u)[i] = s[i].n
      /\ \A i \in 1 .. m : Own(t)[i] = s[i].n
  BY <1>2, OwnIs
<1>4. \A i \in 1 .. l : i \in 1 .. m /\ i \in l + 1 .. m => FALSE
  BY <1>1
<1>5. \A i \in l + 1 .. m : Own(t)[i] = Unnumbered
  <2> TAKE i \in l + 1 .. m
  <2>1. i \in 1 .. m
    BY <1>1
  <2>2. s[i] \in Brought /\ ~IsStart(s[i])
    BY <1>2, <2>1 DEF Boundary
  <2> QED BY <1>3, <2>1, <2>2 DEF Brought
<1>6. \A i \in 1 .. l : Own(u)[i] = Own(t)[i]
  <2> TAKE i \in 1 .. l
  <2>1. i \in 1 .. m
    BY <1>1
  <2> QED BY <1>3, <2>1
<1>7. /\ \A i \in 1 .. l : NumberAt(Own(t), i) = NumberAt(Own(u), i)
      /\ \A i \in l .. m : NumberAt(Own(t), i) = NumberAt(Own(u), l)
  <2> DEFINE a == Own(u)
             b == Own(t)
  <2>1. Lengthens(a, b, l, m)
    BY <1>1, <1>3, <1>5, <1>6 DEF Lengthens
  <2> HIDE DEF a, b
  <2>2. /\ \A i \in 1 .. l : NumberAt(b, i) = NumberAt(a, i)
        /\ \A i \in l .. m : NumberAt(b, i) = NumberAt(a, l)
    BY <2>1, NumbersGoOn
  <2> QED BY <2>2 DEF a, b
<1>8. /\ Parsed(u) \in Seq(Gained) /\ Len(Parsed(u)) = l
      /\ \A i \in 1 .. l : Parsed(u)[i] = [kind |-> u[i].kind, n |-> NumberAt(Own(u), i)]
      /\ Parsed(t) \in Seq(Gained) /\ Len(Parsed(t)) = m
      /\ \A i \in 1 .. m : Parsed(t)[i] = [kind |-> t[i].kind, n |-> NumberAt(Own(t), i)]
  BY <1>2, ParsedIs
<1>9. \A i \in 1 .. l : Parsed(t)[i] = Parsed(u)[i]
  <2> TAKE i \in 1 .. l
  <2>1. i \in 1 .. m /\ u[i] = t[i]
    BY <1>1, <1>2
  <2> QED BY <1>7, <1>8, <2>1
<1>10. \A j \in l .. m : Parsed(t)[j].n = Parsed(u)[l].n
  <2> TAKE j \in l .. m
  <2>1. j \in 1 .. m /\ l \in 1 .. l
    BY <1>1
  <2>2. Parsed(t)[j].n = NumberAt(Own(t), j) /\ Parsed(u)[l].n = NumberAt(Own(u), l)
    BY <1>8, <2>1
  <2> QED BY <1>7, <2>2
<1>11. Continues(Parsed(u), Parsed(t))
  BY <1>1, <1>8, <1>9 DEF Continues
<1> QED BY <1>10, <1>11 DEF u, t

\* Whether the owner stamps a row.
Bears(how, e) == how = "directory" \/ ~SessionLevel(e)

LEMMA PageIs ==
    ASSUME NEW how, NEW s \in Seq(Brought)
    PROVE  /\ Page(how, s) \in Seq(Gained) /\ Len(Page(how, s)) = Len(s)
           /\ DOMAIN Page(how, s) = 1 .. Len(s)
           /\ \A i \in 1 .. Len(s) :
                 /\ Page(how, s)[i].kind = s[i].kind
                 /\ Bears(how, s[i])
                    => /\ Page(how, s)[i].n \in Nat
                       /\ Page(how, s)[i].n = IF how = "directory" THEN Parsed(s)[i].n
                                              ELSE CutTurns(Parsed(s))[i]
                 /\ ~Bears(how, s[i]) => Page(how, s)[i].n = Unnumbered
<1> DEFINE n == Len(s)
           p == Parsed(s)
           cut == CutTurns(p)
           Turn(i) == IF i \in DOMAIN cut THEN cut[i] ELSE Unnumbered
<1>1. n \in Nat /\ DOMAIN s = 1 .. n
  OBVIOUS
<1>2. /\ p \in Seq(Gained) /\ Len(p) = n /\ DOMAIN p = 1 .. n
      /\ \A i \in 1 .. n : /\ p[i] = [kind |-> s[i].kind, n |-> p[i].n]
                           /\ p[i].kind = s[i].kind /\ p[i].n \in Nat /\ p[i] \in Gained
  <2>1. /\ p \in Seq(Gained) /\ Len(p) = n /\ DOMAIN p = 1 .. n
        /\ \A i \in 1 .. n : /\ p[i] = [kind |-> s[i].kind, n |-> NumberAt(Own(s), i)]
                             /\ NumberAt(Own(s), i) \in Nat
    BY ParsedIs
  <2> HIDE DEF p, n
  <2> QED BY <2>1
<1> HIDE DEF p, n
<1>3. CASE how = "directory"
  <2>1. Page(how, s) = p
    BY <1>3, Zenon DEF Page, p
  <2> QED BY <1>2, <1>3, <2>1 DEF Bears, n, p
<1>4. CASE how # "directory"
  <2>1. Page(how, s) = [i \in DOMAIN s |-> [p[i] EXCEPT !.n = Turn(i)]]
    BY <1>4, Zenon DEF Page, p
  <2>2. DOMAIN cut = TurnPlaces(p, n)
    BY <1>2, MapDomain
  <2>3. \A i \in TurnPlaces(p, n) : cut[i] \in Nat
    BY <1>2, CutNumbers
  <2>4. \A i \in 1 .. n : i \in DOMAIN cut <=> Bears(how, s[i])
    BY <1>2, <1>4, <2>2 DEF TurnPlaces, Bears, SessionLevel
  <2> HIDE DEF cut
  <2>5. ASSUME NEW i \in 1 .. n
        PROVE  /\ Page(how, s)[i] = [kind |-> s[i].kind, n |-> Turn(i)]
               /\ Turn(i) \in AnyNumber
               /\ IsStart(s[i]) => Turn(i) \in Nat
    <3>1. Page(how, s)[i] = [p[i] EXCEPT !.n = Turn(i)]
      BY <1>1, <2>1
    <3>2. Page(how, s)[i] = [kind |-> s[i].kind, n |-> Turn(i)]
      BY <1>2, <3>1
    <3>3. IsStart(s[i]) => Bears(how, s[i])
      BY DEF IsStart, Bears, SessionLevel
    <3>4. i \in DOMAIN cut => cut[i] \in Nat
      BY <2>2, <2>3
    <3> QED BY <2>4, <3>2, <3>3, <3>4 DEF AnyNumber
  <2>6. \A i \in 1 .. n : Page(how, s)[i] \in Gained
    <3> TAKE i \in 1 .. n
    <3>1. s[i].kind \in Kinds
      BY <1>1 DEF Brought
    <3> DEFINE e == Page(how, s)[i]
    <3>2. e = [kind |-> s[i].kind, n |-> Turn(i)] /\ Turn(i) \in AnyNumber
      BY <2>5
    <3>3. IsStart(s[i]) => Turn(i) \in Nat
      BY <2>5
    <3> HIDE DEF Turn, e
    <3>4. e \in [kind : Kinds, n : AnyNumber] /\ e.kind = s[i].kind /\ e.n = Turn(i)
      BY <3>1, <3>2
    <3> QED BY <3>3, <3>4 DEF Gained, IsStart, e
  <2>7. DOMAIN Page(how, s) = 1 .. n
    BY <1>1, <2>1
  <2>8. Page(how, s) \in Seq(Gained) /\ Len(Page(how, s)) = n
    <3> DEFINE g == [i \in 1 .. n |-> [p[i] EXCEPT !.n = Turn(i)]]
    <3>1. Page(how, s) = g
      BY <1>1, <2>1
    <3>2. \A i \in 1 .. n : g[i] \in Gained
      BY <2>6, <3>1
    <3>3. g \in [1 .. n -> Gained]
      BY <3>2
    <3> HIDE DEF g
    <3>4. g \in Seq(Gained) /\ Len(g) = n
      BY <1>1, <3>3
    <3> QED BY <3>1, <3>4
  <2>9. \A i \in 1 .. n :
           /\ Page(how, s)[i].kind = s[i].kind
           /\ Bears(how, s[i]) => Page(how, s)[i].n = cut[i] /\ cut[i] \in Nat
           /\ ~Bears(how, s[i]) => Page(how, s)[i].n = Unnumbered
    <3> TAKE i \in 1 .. n
    <3>4. Turn(i) = IF i \in DOMAIN cut THEN cut[i] ELSE Unnumbered
      OBVIOUS
    <3>2. i \in DOMAIN cut => cut[i] \in Nat
      BY <2>2, <2>3
    <3>3. i \in DOMAIN cut <=> Bears(how, s[i])
      BY <2>4
    <3>5. Page(how, s)[i] = [kind |-> s[i].kind, n |-> Turn(i)]
      BY <2>5
    <3> HIDE DEF Turn
    <3>1. Page(how, s)[i].kind = s[i].kind /\ Page(how, s)[i].n = Turn(i)
      BY <3>5
    <3> QED BY <3>1, <3>2, <3>3, <3>4, Zenon
  <2> QED BY <1>4, <2>7, <2>8, <2>9 DEF n, cut, p
<1> QED BY <1>3, <1>4

\* The number row i shows in a page read when the session has m rows.
Shown(how, s, m, i) == Page(how, Till(s, m))[i].n

\* No turn begins or ends after row l of those read by m.
TurnStays(how, s, l, m) ==
    /\ s \in Seq(Brought) /\ EndsFollowStarts(s)
    /\ m \in 1 .. Len(s) /\ l \in 1 .. m /\ Bears(how, s[l])
    /\ \A i \in l + 1 .. m : ~Boundary(s[i])

\* The rows of a turn that goes on show the number its row had when it was
\* the last.
LEMMA Steady ==
    ASSUME NEW how, NEW s, NEW l, NEW m, TurnStays(how, s, l, m),
           NEW j \in l .. m, Bears(how, s[j])
    PROVE  Shown(how, s, m, j) = Shown(how, s, l, l)
<1> DEFINE a == Till(s, l)
           b == Till(s, m)
           u == Parsed(a)
           t == Parsed(b)
<1>0. /\ s \in Seq(Brought) /\ EndsFollowStarts(s)
      /\ m \in 1 .. Len(s) /\ l \in 1 .. m /\ Bears(how, s[l])
      /\ \A i \in l + 1 .. m : ~Boundary(s[i])
  BY DEF TurnStays
<1>1. /\ l \in 0 .. Len(s) /\ m \in 0 .. Len(s) /\ l \in 1 .. l /\ j \in 1 .. m /\ l # 0
      /\ l \in Nat /\ m \in Nat /\ l <= m
  BY <1>0
<1>2. /\ a \in Seq(Brought) /\ Len(a) = l /\ DOMAIN a = 1 .. l /\ \A i \in 1 .. l : a[i] = s[i]
      /\ b \in Seq(Brought) /\ Len(b) = m /\ DOMAIN b = 1 .. m /\ \A i \in 1 .. m : b[i] = s[i]
  BY <1>0, <1>1, TillIs
<1>3. Continues(u, t) /\ t[j].n = u[l].n
  BY <1>0, ParsedGoesOn
<1> HIDE DEF a, b
<1>4. /\ u \in Seq(Gained) /\ Len(u) = l /\ DOMAIN u = 1 .. l
      /\ \A i \in 1 .. l : u[i].kind = s[i].kind
      /\ t \in Seq(Gained) /\ Len(t) = m /\ DOMAIN t = 1 .. m
      /\ \A i \in 1 .. m : t[i].kind = s[i].kind
  <2>1. /\ u \in Seq(Gained) /\ Len(u) = l /\ DOMAIN u = 1 .. l
        /\ \A i \in 1 .. l : u[i] = [kind |-> a[i].kind, n |-> NumberAt(Own(a), i)]
        /\ t \in Seq(Gained) /\ Len(t) = m /\ DOMAIN t = 1 .. m
        /\ \A i \in 1 .. m : t[i] = [kind |-> b[i].kind, n |-> NumberAt(Own(b), i)]
    BY <1>2, ParsedIs
  <2> HIDE DEF u, t
  <2> QED BY <1>2, <2>1
<1> HIDE DEF u, t
<1>5. /\ Shown(how, s, m, j) = IF how = "directory" THEN t[j].n ELSE CutTurns(t)[j]
      /\ Shown(how, s, l, l) = IF how = "directory" THEN u[l].n ELSE CutTurns(u)[l]
  <2>1. Bears(how, b[j]) /\ Bears(how, a[l])
    BY <1>0, <1>1, <1>2
  <2>2. /\ Page(how, b)[j].n = IF how = "directory" THEN t[j].n ELSE CutTurns(t)[j]
        /\ Page(how, a)[l].n = IF how = "directory" THEN u[l].n ELSE CutTurns(u)[l]
    BY <1>1, <1>2, <2>1, PageIs DEF u, t
  <2> QED BY <2>2 DEF Shown, a, b
<1>6. CASE how = "directory"
  BY <1>3, <1>5, <1>6
<1>7. CASE how # "directory"
  <2>1. ~SessionLevel(s[l]) /\ ~SessionLevel(s[j])
    BY <1>0, <1>7 DEF Bears
  <2>2. ~SessionLevel(u[Len(u)]) /\ ~SessionLevel(t[j])
    BY <1>1, <1>4, <2>1 DEF SessionLevel
  <2>3. \A i \in Len(u) + 1 .. Len(t) : ~Boundary(t[i])
    <3> SUFFICES ASSUME NEW i \in l + 1 .. m PROVE ~Boundary(t[i])
      BY <1>4
    <3>1. i \in 1 .. m
      BY <1>1
    <3> QED BY <1>0, <1>4, <3>1 DEF Boundary, IsStart, IsEnd
  <2>4. EndsFollowStarts(u)
    <3> SUFFICES ASSUME NEW i \in 1 .. l, u[i].kind = "ended"
                 PROVE  \E x \in 1 .. i - 1 : IsStart(u[x])
      BY <1>4 DEF EndsFollowStarts
    <3>1. i \in DOMAIN s /\ s[i].kind = "ended"
      BY <1>0, <1>1, <1>4
    <3>2. PICK x \in 1 .. i - 1 : IsStart(s[x])
      BY <1>0, <3>1 DEF EndsFollowStarts
    <3>3. x \in 1 .. l
      BY <1>1
    <3> QED BY <1>4, <3>2, <3>3 DEF IsStart
  <2>5. /\ \A i \in TurnPlaces(u, l) : CutTurns(t)[i] = CutTurns(u)[i]
        /\ \A i \in TailPlaces(t, l, m) : CutTurns(t)[i] = CutTurns(u)[l]
    BY <1>1, <1>3, <1>4, <2>2, <2>3, <2>4, MapGoesOn
  <2>6. CASE j = l
    <3>1. l \in TurnPlaces(u, l)
      BY <1>1, <1>4, <2>2 DEF TurnPlaces
    <3> QED BY <1>5, <1>7, <2>5, <2>6, <3>1
  <2>7. CASE j # l
    <3>1. j \in TailPlaces(t, l, m)
      BY <1>1, <2>2, <2>7 DEF TailPlaces
    <3> QED BY <1>5, <1>7, <2>5, <3>1
  <2> QED BY <2>6, <2>7
<1> QED BY <1>6, <1>7

-----------------------------------------------------------------------------
(* What the table holds, of a session s whose rows were read at any time. *)

\* A row held was in a page, of the session as it was then: none but the
\* last when there were rows that are not held.
ReadAt(how, s, tl, i, m) ==
    /\ m \in i .. Len(s)
    /\ i < Len(tl) => m <= Len(tl)
    /\ tl[i] = Page(how, Till(s, m))[i]
ReadRows(how, s, tl) ==
    /\ s \in Seq(Brought) /\ EndsFollowStarts(s)
    /\ tl \in Seq(Gained) /\ Len(tl) <= Len(s)
    /\ \A i \in 1 .. Len(tl) : \E m \in Nat : ReadAt(how, s, tl, i, m)

\* The last row up to k that bears a stamp.
Holds(how, s, l, k) ==
    /\ l \in 1 .. k /\ Bears(how, s[l])
    /\ \A j \in l + 1 .. k : ~Bears(how, s[j])

\* A turn that row k was given, of the rows read by m.
TurnRead(how, s, tl, k, turn, l, m) ==
    /\ Holds(how, s, l, k)
    /\ m \in k .. Len(s)
    /\ Len(tl) > k => m <= Len(tl)
    /\ turn = Shown(how, s, m, l)
LastTurnRead(how, s, tl, map, k) ==
    k \in DOMAIN map => \E l, m \in Nat : TurnRead(how, s, tl, k, map[k], l, m)

\* Rows before k have their stamp.
StampsHold(tl, map, k) ==
    \A i \in 1 .. k - 1 : ~SessionLevel(tl[i]) => i \in DOMAIN map /\ map[i] = tl[i].n

LEMMA RowIs ==
    ASSUME NEW how, NEW s, NEW tl, ReadRows(how, s, tl), NEW i \in 1 .. Len(tl)
    PROVE  /\ i \in DOMAIN s /\ s[i] \in Brought
           /\ tl[i].kind = s[i].kind
           /\ Bears(how, s[i]) <=> tl[i].n # Unnumbered
           /\ ~SessionLevel(tl[i]) => Bears(how, s[i])
           /\ \E m \in i .. Len(s) : /\ i < Len(tl) => m <= Len(tl)
                                     /\ tl[i].n = Shown(how, s, m, i)
<1>1. /\ s \in Seq(Brought) /\ tl \in Seq(Gained) /\ Len(tl) <= Len(s)
      /\ Len(s) \in Nat /\ Len(tl) \in Nat
  BY DEF ReadRows
<1>2. PICK m \in Nat : ReadAt(how, s, tl, i, m)
  BY DEF ReadRows
<1>3. m \in i .. Len(s) /\ (i < Len(tl) => m <= Len(tl)) /\ tl[i] = Page(how, Till(s, m))[i]
  BY <1>2 DEF ReadAt
<1>4. m \in 0 .. Len(s) /\ i \in 1 .. m /\ i \in DOMAIN s
  BY <1>1, <1>3
<1> DEFINE t == Till(s, m)
<1>5. t \in Seq(Brought) /\ Len(t) = m /\ t[i] = s[i]
  BY <1>1, <1>4, TillIs
<1> HIDE DEF t
<1>6. /\ Page(how, t)[i].kind = t[i].kind
      /\ Bears(how, t[i]) => Page(how, t)[i].n \in Nat
      /\ ~Bears(how, t[i]) => Page(how, t)[i].n = Unnumbered
  BY <1>4, <1>5, PageIs
<1>7. /\ tl[i].kind = s[i].kind
      /\ Bears(how, s[i]) => tl[i].n \in Nat
      /\ ~Bears(how, s[i]) => tl[i].n = Unnumbered
  BY <1>3, <1>5, <1>6 DEF t
<1>8. Bears(how, s[i]) <=> tl[i].n # Unnumbered
  BY <1>7, UnnumberedAssumption
<1>9. ~SessionLevel(tl[i]) => Bears(how, s[i])
  BY <1>7 DEF SessionLevel, Bears
<1>10. tl[i].n = Shown(how, s, m, i)
  BY <1>3 DEF Shown
<1>11. s[i] \in Brought
  BY <1>1, <1>4
<1> QED BY <1>3, <1>4, <1>7, <1>8, <1>9, <1>10, <1>11

\* Behind the last row that bears a stamp nothing begins or ends.
LEMMA HoldsQuiet ==
    ASSUME NEW how, NEW s, NEW l, NEW k, NEW m,
           s \in Seq(Brought), EndsFollowStarts(s), Holds(how, s, l, k), k \in 1 .. Len(s),
           m \in l .. Len(s), \A i \in k + 1 .. m : ~Boundary(s[i])
    PROVE  TurnStays(how, s, l, m) /\ Shown(how, s, m, l) = Shown(how, s, l, l)
<1>1. l \in 1 .. k /\ Bears(how, s[l]) /\ \A j \in l + 1 .. k : ~Bears(how, s[j])
  BY DEF Holds
<1>2. l \in 1 .. m /\ m \in 1 .. Len(s) /\ l \in l .. m
  BY <1>1
<1>3. ASSUME NEW i \in l + 1 .. m PROVE ~Boundary(s[i])
  <2>1. CASE i \in l + 1 .. k
    <3>1. SessionLevel(s[i])
      BY <1>1, <2>1 DEF Bears
    <3> QED BY <3>1 DEF SessionLevel, Boundary, IsStart, IsEnd
  <2>2. CASE i \in k + 1 .. m
    BY <2>2
  <2> QED BY <1>1, <1>2, <2>1, <2>2
<1>4. TurnStays(how, s, l, m)
  BY <1>1, <1>2, <1>3 DEF TurnStays
<1> QED BY <1>1, <1>2, <1>4, Steady

\* A map rebuilt has the stamps, and for the last row that of the last row
\* that has one.
LEMMA RebuiltIs ==
    ASSUME NEW how, NEW s, NEW tl, ReadRows(how, s, tl)
    PROVE  /\ DOMAIN TurnMap(tl) \subseteq 1 .. Len(tl)
           /\ StampsHold(tl, TurnMap(tl), Len(tl) + 1)
           /\ LastTurnRead(how, s, tl, TurnMap(tl), Len(tl))
<1> DEFINE n == Len(tl)
           map == TurnMap(tl)
<1>1. /\ s \in Seq(Brought) /\ EndsFollowStarts(s) /\ tl \in Seq(Gained) /\ n <= Len(s)
      /\ Len(s) \in Nat /\ n \in Nat /\ DOMAIN tl = 1 .. n
  BY DEF ReadRows
<1>2. \A i \in 1 .. n : /\ i \in DOMAIN s
                        /\ tl[i].kind = s[i].kind
                        /\ Bears(how, s[i]) <=> tl[i].n # Unnumbered
                        /\ ~SessionLevel(tl[i]) => Bears(how, s[i])
                        /\ \E m \in i .. Len(s) : tl[i].n = Shown(how, s, m, i)
                                                  /\ (i < n => m <= n)
  BY RowIs
<1>3. CASE StampsBefore(tl, n) = {}
  <2>1. \A i \in 1 .. n : SessionLevel(tl[i])
    BY <1>2, <1>3 DEF StampsBefore
  <2>2. TurnPlaces(tl, n) = {}
    BY <1>1, <2>1 DEF TurnPlaces
  <2>3. DOMAIN map = {}
    <3>1. map = CutTurns(tl)
      BY <1>3 DEF TurnMap
    <3> QED BY <1>1, <2>2, <3>1, MapDomain
  <2>4. StampsHold(tl, map, n + 1)
    BY <1>1, <2>1 DEF StampsHold
  <2>5. LastTurnRead(how, s, tl, map, n)
    BY <2>3 DEF LastTurnRead
  <2> QED BY <2>3, <2>4, <2>5
<1>4. CASE StampsBefore(tl, n) # {}
  <2>1. map = [i \in {j \in 1 .. n : StampsBefore(tl, j) # {}} |-> tl[Max(StampsBefore(tl, i))].n]
    BY <1>1, <1>4 DEF TurnMap
  <2>2. DOMAIN map \subseteq 1 .. n
    BY <2>1
  <2>3. ASSUME NEW i \in 1 .. n, StampsBefore(tl, i) # {}
        PROVE  /\ i \in DOMAIN map
               /\ \E l \in 1 .. i : /\ tl[l].n # Unnumbered /\ map[i] = tl[l].n
                                    /\ \A j \in l + 1 .. i : tl[j].n = Unnumbered
    <3> DEFINE S == StampsBefore(tl, i)
    <3>1. S \in SUBSET (1 .. i) /\ i \in Nat
      BY DEF StampsBefore
    <3>2. Max(S) \in S /\ \A k \in S : k <= Max(S)
      BY <2>3, <3>1, GreatestPlace
    <3>3. i \in DOMAIN map /\ map[i] = tl[Max(S)].n
      BY <2>1, <2>3
    <3> DEFINE l == Max(S)
    <3>4. l \in 1 .. i /\ tl[l].n # Unnumbered
      BY <3>2 DEF StampsBefore
    <3>5. \A j \in l + 1 .. i : tl[j].n = Unnumbered
      <4> SUFFICES ASSUME NEW j \in l + 1 .. i, tl[j].n # Unnumbered PROVE FALSE
        OBVIOUS
      <4>1. j \in 1 .. i /\ ~(j <= l)
        BY <3>4
      <4>2. j \in S
        BY <4>1 DEF StampsBefore
      <4> HIDE DEF S
      <4> QED BY <3>2, <4>1, <4>2
    <3> HIDE DEF l, S
    <3> QED BY <3>3, <3>4, <3>5 DEF l
  <2> HIDE DEF map
  <2>4. StampsHold(tl, map, n + 1)
    <3> SUFFICES ASSUME NEW i \in 1 .. n, ~SessionLevel(tl[i])
                 PROVE  i \in DOMAIN map /\ map[i] = tl[i].n
      BY <1>1 DEF StampsHold
    <3>1. tl[i].n # Unnumbered
      BY <1>2
    <3>2. i \in StampsBefore(tl, i)
      BY <3>1 DEF StampsBefore
    <3>3. PICK l \in 1 .. i : /\ map[i] = tl[l].n
                              /\ \A j \in l + 1 .. i : tl[j].n = Unnumbered
      BY <2>3, <3>2
    <3>4. l = i
      BY <3>1, <3>3
    <3> QED BY <2>3, <3>2, <3>3, <3>4
  <2>5. LastTurnRead(how, s, tl, map, n)
    <3> SUFFICES ASSUME n \in DOMAIN map
                 PROVE  \E l, m \in Nat : TurnRead(how, s, tl, n, map[n], l, m)
      BY DEF LastTurnRead
    <3>1. n \in 1 .. n
      BY <2>2
    <3>2. PICK l \in 1 .. n : /\ tl[l].n # Unnumbered /\ map[n] = tl[l].n
                              /\ \A j \in l + 1 .. n : tl[j].n = Unnumbered
      BY <1>4, <2>3, <3>1
    <3>3. Bears(how, s[l]) /\ \A j \in l + 1 .. n : ~Bears(how, s[j])
      BY <1>2, <3>1, <3>2
    <3>4. Holds(how, s, l, n)
      BY <3>3 DEF Holds
    <3>5. PICK m \in l .. Len(s) : tl[l].n = Shown(how, s, m, l) /\ (l < n => m <= n)
      BY <1>2, <3>2
    <3>6. n \in 1 .. Len(s) /\ l \in Nat
      BY <1>1, <3>1
    <3>7. CASE l = n
      <4>1. TurnRead(how, s, tl, n, map[n], l, m) /\ m \in Nat
        BY <3>2, <3>4, <3>5, <3>6, <3>7 DEF TurnRead
      <4> QED BY <3>6, <4>1
    <3>8. CASE l # n
      <4>1. m <= n /\ \A i \in n + 1 .. m : ~Boundary(s[i])
        <5>1. l < n /\ m \in Nat
          <6>1. l \in Nat /\ n \in Nat /\ l <= n
            BY <1>1, <3>2
          <6>2. m \in Nat
            BY <1>1, <3>5, <6>1
          <6> HIDE DEF n
          <6> QED BY <3>8, <6>1, <6>2
        <5>2. m <= n
          BY <3>5, <5>1
        <5> HIDE DEF n
        <5> QED BY <1>1, <5>1, <5>2
      <4>2. Shown(how, s, m, l) = Shown(how, s, l, l)
        BY <1>1, <3>4, <3>5, <3>6, <4>1, HoldsQuiet
      <4>3. n \in l .. Len(s) /\ \A i \in n + 1 .. n : ~Boundary(s[i])
        BY <1>1, <3>6
      <4>4. Shown(how, s, n, l) = Shown(how, s, l, l)
        BY <1>1, <3>4, <3>6, <4>3, HoldsQuiet
      <4>5. TurnRead(how, s, tl, n, map[n], l, n)
        BY <3>2, <3>4, <3>5, <3>6, <4>2, <4>4 DEF TurnRead
      <4> QED BY <1>1, <3>6, <4>5
    <3> QED BY <3>7, <3>8
  <2> QED BY <2>2, <2>4, <2>5 DEF map
<1> QED BY <1>3, <1>4

\* And so has one extended by rows that begin or end no turn.
LEMMA ExtendedIs ==
    ASSUME NEW how, NEW s, NEW tl, ReadRows(how, s, tl), NEW map, NEW k \in Nat,
           k < Len(tl), DOMAIN map \subseteq 1 .. k, StampsHold(tl, map, k),
           LastTurnRead(how, s, tl, map, k)
    PROVE  /\ DOMAIN Extended(map, tl, k) \subseteq 1 .. Len(tl)
           /\ StampsHold(tl, Extended(map, tl, k), Len(tl))
           /\ LastTurnRead(how, s, tl, Extended(map, tl, k), Len(tl))
<1> DEFINE n == Len(tl)
           tail == (k + 1) .. n
           ext == Extended(map, tl, k)
<1>1. /\ s \in Seq(Brought) /\ EndsFollowStarts(s) /\ tl \in Seq(Gained) /\ n <= Len(s)
      /\ Len(s) \in Nat /\ n \in Nat /\ DOMAIN tl = 1 .. n
  BY DEF ReadRows
<1>2. CASE k \notin DOMAIN map \/ \E i \in tail : Boundary(tl[i])
  <2>1. ext = TurnMap(tl)
    BY <1>2 DEF Extended
  <2>2. /\ DOMAIN ext \subseteq 1 .. n /\ StampsHold(tl, ext, n + 1)
        /\ LastTurnRead(how, s, tl, ext, n)
    BY <2>1, RebuiltIs
  <2>3. \A i \in 1 .. n - 1 : i \in 1 .. (n + 1) - 1
    BY <1>1
  <2> QED BY <2>2, <2>3 DEF StampsHold
<1>3. CASE k \in DOMAIN map /\ \A i \in tail : ~Boundary(tl[i])
  <2>1. ext = [i \in DOMAIN map \union {j \in tail : ~SessionLevel(tl[j])} |->
                 IF i \in DOMAIN map THEN map[i] ELSE map[k]]
    BY <1>3, Zenon DEF Extended
  <2>2. k \in 1 .. k /\ k \in 1 .. n /\ k \in 1 .. Len(s)
    BY <1>1, <1>3
  <2>3. DOMAIN ext \subseteq 1 .. n
    BY <1>1, <2>1
  <2>4. \A i \in DOMAIN map : i \in DOMAIN ext /\ ext[i] = map[i]
    BY <2>1
  <2>5. \A i \in tail : i \notin DOMAIN map
    OBVIOUS
  <2>6. \A i \in tail : i \in DOMAIN ext <=> ~SessionLevel(tl[i])
    BY <2>1, <2>5
  <2>7. \A i \in tail : i \in DOMAIN ext => ext[i] = map[k]
    BY <2>1, <2>5
  <2> HIDE DEF ext
  <2>8. PICK l, m \in Nat : TurnRead(how, s, tl, k, map[k], l, m)
    BY <1>3 DEF LastTurnRead
  <2>9. Holds(how, s, l, k) /\ m \in k .. n /\ m \in k .. Len(s) /\ map[k] = Shown(how, s, m, l)
    BY <1>1, <2>8 DEF TurnRead
  <2>10. l \in 1 .. k /\ Bears(how, s[l]) /\ \A j \in l + 1 .. k : ~Bears(how, s[j])
    BY <2>9 DEF Holds
  <2>11. \A i \in 1 .. n : /\ tl[i].kind = s[i].kind
                           /\ ~SessionLevel(tl[i]) => Bears(how, s[i])
                           /\ \E x \in i .. Len(s) : tl[i].n = Shown(how, s, x, i)
                                                     /\ (i < n => x <= n)
    BY RowIs
  <2>12. \A i \in k + 1 .. n : ~Boundary(s[i])
    <3> TAKE i \in k + 1 .. n
    <3>1. ~Boundary(tl[i]) /\ tl[i].kind = s[i].kind
      BY <1>3, <2>2, <2>11
    <3> QED BY <3>1 DEF Boundary, IsStart, IsEnd
  <2>13. ASSUME NEW x \in l .. n
         PROVE  TurnStays(how, s, l, x) /\ Shown(how, s, x, l) = Shown(how, s, l, l)
    <3>1. x \in l .. Len(s) /\ \A i \in k + 1 .. x : ~Boundary(s[i])
      BY <1>1, <2>10, <2>12
    <3> QED BY <1>1, <2>2, <2>9, <3>1, HoldsQuiet
  <2>14. map[k] = Shown(how, s, l, l)
    <3>1. m \in l .. n
      BY <2>9, <2>10
    <3> QED BY <2>9, <2>13, <3>1
  <2>15. ASSUME NEW i \in k .. n, ~SessionLevel(tl[i]), NEW x \in i .. n
         PROVE  Shown(how, s, x, i) = map[k]
    <3>1. x \in l .. n /\ i \in l .. x /\ i \in 1 .. n
      BY <1>1, <2>2, <2>10
    <3>2. TurnStays(how, s, l, x) /\ Bears(how, s[i])
      BY <2>11, <2>13, <2>15, <3>1
    <3> QED BY <2>14, <3>1, <3>2, Steady
  <2>16. StampsHold(tl, ext, n)
    <3> SUFFICES ASSUME NEW i \in 1 .. n - 1, ~SessionLevel(tl[i])
                 PROVE  i \in DOMAIN ext /\ ext[i] = tl[i].n
      BY DEF StampsHold
    <3>1. CASE i \in 1 .. k - 1
      BY <2>4, <3>1 DEF StampsHold
    <3>2. CASE i \in k .. n - 1
      <4>1. i \in k .. n /\ i \in 1 .. n /\ i < n
        BY <1>1, <2>2, <3>2
      <4>2. PICK x \in i .. Len(s) : tl[i].n = Shown(how, s, x, i) /\ x <= n
        BY <2>11, <4>1
      <4>3. x \in i .. n
        BY <1>1, <4>2
      <4>4. tl[i].n = map[k]
        BY <2>15, <4>1, <4>2, <4>3
      <4>5. i = k \/ i \in tail
        BY <4>1
      <4> QED BY <1>3, <2>4, <2>6, <2>7, <4>4, <4>5
    <3> QED BY <1>1, <2>2, <3>1, <3>2
  <2>17. LastTurnRead(how, s, tl, ext, n)
    <3> SUFFICES ASSUME n \in DOMAIN ext
                 PROVE  \E y, z \in Nat : TurnRead(how, s, tl, n, ext[n], y, z)
      BY DEF LastTurnRead
    <3>1. n \in tail /\ n \in k .. n /\ n \in n .. n /\ n \in 1 .. n
      BY <1>1, <2>2
    <3>2. ~SessionLevel(tl[n]) /\ ext[n] = map[k]
      BY <2>6, <2>7, <3>1
    <3>3. ext[n] = Shown(how, s, n, n)
      BY <2>15, <3>1, <3>2
    <3>4. Holds(how, s, n, n)
      BY <1>1, <2>11, <3>1, <3>2 DEF Holds
    <3>5. TurnRead(how, s, tl, n, ext[n], n, n)
      BY <1>1, <3>3, <3>4 DEF TurnRead
    <3> QED BY <1>1, <3>5
  <2> QED BY <2>3, <2>16, <2>17 DEF ext
<1> QED BY <1>2, <1>3

-----------------------------------------------------------------------------
(* The table while the session grows. *)

TableShape ==
    /\ session \in Seq(Brought) /\ EndsFollowStarts(session)
    /\ timeline \in Seq(Gained) /\ events \in Seq(Gained)
    /\ Len(events) <= Len(timeline) /\ Len(timeline) <= Len(session)
RowsRead == ReadRows(store, session, timeline)
\* The row that is read again is the last one held.
RereadRead ==
    reread # NotRead =>
        /\ timeline # <<>>
        /\ \E m \in Len(timeline) .. Len(session) :
              reread = Page(store, Till(session, m))[Len(timeline)]
EventsRead == \A i \in 1 .. Len(events) - 1 : events[i] = timeline[i]
MapRead ==
    /\ DOMAIN turnBy \subseteq 1 .. Len(events)
    /\ StampsHold(timeline, turnBy, Len(events))
    /\ LastTurnRead(store, session, timeline, turnBy, Len(events))
TableInv == TableShape /\ RowsRead /\ RereadRead /\ EventsRead /\ MapRead

LEMMA TableInvInit == TableInit => TableInv
<1> SUFFICES ASSUME TableInit PROVE TableInv
    OBVIOUS
<1>1. /\ session = <<>> /\ timeline = <<>> /\ reread = NotRead /\ events = <<>> /\ turnBy = << >>
      /\ <<>> \in Seq(Brought) /\ <<>> \in Seq(Gained) /\ Len(<<>>) = 0 /\ DOMAIN <<>> = {}
  BY DEF TableInit
<1>2. TableShape
  BY <1>1 DEF TableShape, EndsFollowStarts
<1>3. RowsRead
  BY <1>1 DEF RowsRead, ReadRows, EndsFollowStarts
<1>4. RereadRead /\ EventsRead
  BY <1>1 DEF RereadRead, EventsRead
<1>5. MapRead
  BY <1>1 DEF MapRead, StampsHold, LastTurnRead
<1> QED BY <1>2, <1>3, <1>4, <1>5 DEF TableInv

\* A session that gained a row begins with the rows it had.
LEMMA GainedRow ==
    ASSUME NEW s \in Seq(Brought), NEW e \in Brought
    PROVE  /\ Append(s, e) \in Seq(Brought) /\ Len(Append(s, e)) = Len(s) + 1
           /\ \A i \in 1 .. Len(s) : Append(s, e)[i] = s[i]
           /\ Append(s, e)[Len(s) + 1] = e
           /\ \A m \in 0 .. Len(s) : Till(Append(s, e), m) = Till(s, m)
<1> DEFINE t == Append(s, e)
<1>1. /\ t \in Seq(Brought) /\ Len(t) = Len(s) + 1 /\ Len(s) \in Nat
      /\ \A i \in 1 .. Len(s) : t[i] = s[i] /\ t[Len(s) + 1] = e
  OBVIOUS
<1>2. t[Len(s) + 1] = e
  OBVIOUS
<1> HIDE DEF t
<1>3. ASSUME NEW m \in 0 .. Len(s) PROVE Till(t, m) = Till(s, m)
  <2>1. m \in 0 .. Len(t)
    BY <1>1
  <2>2. /\ Till(t, m) \in Seq(Brought) /\ Len(Till(t, m)) = m
        /\ \A i \in 1 .. m : Till(t, m)[i] = t[i]
    BY <1>1, <2>1, TillIs
  <2>3. /\ Till(s, m) \in Seq(Brought) /\ Len(Till(s, m)) = m
        /\ \A i \in 1 .. m : Till(s, m)[i] = s[i]
    BY TillIs
  <2>4. \A i \in 1 .. m : t[i] = s[i]
    BY <1>1
  <2> QED BY <2>2, <2>3, <2>4
<1> QED BY <1>1, <1>2, <1>3 DEF t

LEMMA GainsKeeps == ASSUME TableInv, Gains PROVE TableInv'
<1>1. PICK e \in Logged(EventKinds, Numbers) :
          /\ e.kind = "ended" => \E i \in DOMAIN session : IsStart(session[i])
          /\ session' = Append(session, e)
  BY DEF Gains
<1>2. /\ store' = store /\ timeline' = timeline /\ events' = events /\ reread' = reread
      /\ turnBy' = turnBy
  BY DEF Gains
<1> DEFINE n == Len(session)
<1>3. /\ session \in Seq(Brought) /\ EndsFollowStarts(session)
      /\ timeline \in Seq(Gained) /\ events \in Seq(Gained)
      /\ Len(events) <= Len(timeline) /\ Len(timeline) <= n
      /\ n \in Nat /\ Len(timeline) \in Nat /\ Len(events) \in Nat /\ DOMAIN session = 1 .. n
  BY DEF TableInv, TableShape
<1>4. /\ session' \in Seq(Brought) /\ Len(session') = n + 1 /\ DOMAIN session' = 1 .. n + 1
      /\ \A i \in 1 .. n : session'[i] = session[i]
      /\ session'[n + 1] = e
      /\ \A m \in 0 .. n : Till(session', m) = Till(session, m)
  <2>1. e \in Brought
    BY LoggedIsBrought
  <2> QED BY <1>1, <1>3, <2>1, GainedRow
<1> HIDE DEF n
<1>5. EndsFollowStarts(session')
  <2> SUFFICES ASSUME NEW i \in 1 .. n + 1, session'[i].kind = "ended"
               PROVE  \E j \in 1 .. i - 1 : IsStart(session'[j])
    BY <1>4 DEF EndsFollowStarts
  <2>1. CASE i \in 1 .. n
    <3>1. PICK j \in 1 .. i - 1 : IsStart(session[j])
      BY <1>3, <1>4, <2>1 DEF EndsFollowStarts
    <3>2. j \in 1 .. n
      BY <1>3, <2>1
    <3> QED BY <1>4, <3>1, <3>2
  <2>2. CASE i = n + 1
    <3>1. PICK j \in 1 .. n : IsStart(session[j])
      BY <1>1, <1>3, <1>4, <2>2
    <3>2. j \in 1 .. i - 1
      BY <1>3, <2>2
    <3> QED BY <1>4, <3>1, <3>2
  <2> QED BY <1>3, <2>1, <2>2
<1>6. TableShape'
  BY <1>2, <1>3, <1>4, <1>5 DEF TableShape
<1>7. RowsRead'
  <2>1. ASSUME NEW i \in 1 .. Len(timeline), NEW m \in Nat, ReadAt(store, session, timeline, i, m)
        PROVE  ReadAt(store, session', timeline, i, m)
    <3>1. /\ m \in i .. n /\ (i < Len(timeline) => m <= Len(timeline))
          /\ timeline[i] = Page(store, Till(session, m))[i]
      BY <2>1 DEF ReadAt, n
    <3>2. m \in 0 .. n /\ m \in i .. n + 1
      BY <1>3, <3>1
    <3> QED BY <1>4, <3>1, <3>2 DEF ReadAt
  <2>2. Len(timeline) <= Len(session')
    BY <1>3, <1>4
  <2>3. \A i \in 1 .. Len(timeline) : \E m \in Nat : ReadAt(store, session', timeline, i, m)
    BY <2>1 DEF TableInv, RowsRead, ReadRows
  <2>4. ReadRows(store, session', timeline)
    BY <1>3, <1>4, <1>5, <2>2, <2>3 DEF ReadRows
  <2> QED BY <1>2, <2>4 DEF RowsRead
<1>8. RereadRead'
  <2> SUFFICES ASSUME reread # NotRead
               PROVE  /\ timeline # <<>>
                      /\ \E m \in Len(timeline) .. Len(session') :
                            reread = Page(store, Till(session', m))[Len(timeline)]
    BY <1>2 DEF RereadRead
  <2>1. timeline # <<>>
    BY DEF TableInv, RereadRead
  <2>2. PICK m \in Len(timeline) .. n : reread = Page(store, Till(session, m))[Len(timeline)]
    BY DEF TableInv, RereadRead, n
  <2>3. m \in 0 .. n /\ m \in Len(timeline) .. n + 1
    BY <1>3
  <2>4. reread = Page(store, Till(session', m))[Len(timeline)]
    BY <1>4, <2>2, <2>3
  <2> QED BY <1>4, <2>1, <2>3, <2>4
<1>9. EventsRead'
  BY <1>2 DEF TableInv, EventsRead
<1>10. MapRead'
  <2>1. /\ DOMAIN turnBy \subseteq 1 .. Len(events)
        /\ StampsHold(timeline, turnBy, Len(events))
        /\ LastTurnRead(store, session, timeline, turnBy, Len(events))
    BY DEF TableInv, MapRead
  <2> DEFINE k == Len(events)
  <2>2. ASSUME NEW l \in Nat, NEW m \in Nat, k \in 1 .. n,
               TurnRead(store, session, timeline, k, turnBy[k], l, m)
        PROVE  TurnRead(store, session', timeline, k, turnBy[k], l, m)
    <3>1. /\ Holds(store, session, l, k) /\ m \in k .. n
          /\ (Len(timeline) > k => m <= Len(timeline))
          /\ turnBy[k] = Shown(store, session, m, l)
      BY <2>2 DEF TurnRead, n
    <3>2. /\ l \in 1 .. k /\ Bears(store, session[l])
          /\ \A j \in l + 1 .. k : ~Bears(store, session[j])
      BY <3>1 DEF Holds
    <3>3. l \in 1 .. n /\ \A j \in l + 1 .. k : j \in 1 .. n
      BY <1>3, <2>2, <3>2
    <3> HIDE DEF k
    <3>4. Holds(store, session', l, k)
      BY <1>4, <3>2, <3>3 DEF Holds
    <3>5. m \in k .. n + 1 /\ m \in 0 .. n
      BY <1>3, <2>2, <3>1
    <3>6. Shown(store, session', m, l) = Shown(store, session, m, l)
      BY <1>4, <3>5 DEF Shown
    <3> QED BY <1>4, <3>1, <3>4, <3>5, <3>6 DEF TurnRead
  <2>3. k \in DOMAIN turnBy => k \in 1 .. n
    BY <1>3, <2>1
  <2> HIDE DEF k
  <2>4. LastTurnRead(store, session', timeline, turnBy, k)
    BY <2>1, <2>2, <2>3 DEF LastTurnRead, k
  <2> QED BY <1>2, <2>1, <2>4 DEF MapRead, k
<1> QED BY <1>6, <1>7, <1>8, <1>9, <1>10 DEF TableInv

\* A page of the session as it is.
LEMMA PageNow ==
    ASSUME NEW how, NEW s \in Seq(Brought), EndsFollowStarts(s)
    PROVE  /\ Till(s, Len(s)) = s
           /\ ReadRows(how, s, Page(how, s)) /\ Len(Page(how, s)) = Len(s)
           /\ Page(how, s) \in Seq(Gained)
<1>1. Len(s) \in Nat /\ Len(s) \in 0 .. Len(s) /\ DOMAIN s = 1 .. Len(s)
  OBVIOUS
<1>2. Till(s, Len(s)) = s
  <2>1. /\ Till(s, Len(s)) \in Seq(Brought) /\ Len(Till(s, Len(s))) = Len(s)
        /\ \A i \in 1 .. Len(s) : Till(s, Len(s))[i] = s[i]
    BY <1>1, TillIs
  <2> QED BY <2>1
<1> DEFINE p == Page(how, s)
<1>3. p \in Seq(Gained) /\ Len(p) = Len(s)
  BY PageIs
<1>4. \A i \in 1 .. Len(p) : ReadAt(how, s, p, i, Len(s))
  BY <1>1, <1>2, <1>3 DEF ReadAt
<1>5. ReadRows(how, s, p)
  BY <1>1, <1>3, <1>4 DEF ReadRows
<1> QED BY <1>2, <1>3, <1>5

LEMMA OpensKeeps == ASSUME TableInv, Opens PROVE TableInv'
<1>1. /\ timeline = <<>> /\ timeline' = Page(store, session)
      /\ store' = store /\ session' = session /\ reread' = reread /\ events' = events
      /\ turnBy' = turnBy
  BY DEF Opens
<1>2. /\ session \in Seq(Brought) /\ EndsFollowStarts(session)
      /\ events \in Seq(Gained) /\ Len(events) <= 0
  BY <1>1 DEF TableInv, TableShape
<1>3. /\ ReadRows(store, session, timeline') /\ Len(timeline') = Len(session)
      /\ timeline' \in Seq(Gained)
  BY <1>1, <1>2, PageNow
<1>4. Len(events) = 0 /\ Len(session) \in Nat
  BY <1>2
<1>5. TableShape' /\ RowsRead'
  BY <1>1, <1>2, <1>3, <1>4 DEF TableShape, RowsRead
<1>6. RereadRead' /\ EventsRead'
  BY <1>1, <1>4 DEF TableInv, RereadRead, EventsRead
<1>7. MapRead'
  BY <1>1, <1>4 DEF TableInv, MapRead, StampsHold, LastTurnRead
<1> QED BY <1>5, <1>6, <1>7 DEF TableInv

LEMMA ReadsLastKeeps == ASSUME TableInv, ReadsLast PROVE TableInv'
<1>1. /\ timeline # <<>> /\ reread' = Page(store, session)[Len(timeline)]
      /\ store' = store /\ session' = session /\ timeline' = timeline /\ events' = events
      /\ turnBy' = turnBy
  BY DEF ReadsLast
<1>2. /\ session \in Seq(Brought) /\ EndsFollowStarts(session)
      /\ timeline \in Seq(Gained) /\ Len(timeline) <= Len(session)
      /\ Len(session) \in Nat /\ Len(timeline) \in Nat
  BY DEF TableInv, TableShape
<1>3. Till(session, Len(session)) = session /\ Len(session) \in Len(timeline) .. Len(session)
  BY <1>2, PageNow
<1>4. RereadRead'
  BY <1>1, <1>3 DEF RereadRead
<1>5. TableShape' /\ RowsRead' /\ EventsRead' /\ MapRead'
  BY <1>1 DEF TableInv, TableShape, RowsRead, EventsRead, MapRead
<1> QED BY <1>4, <1>5 DEF TableInv

LEMMA ReadsTailKeeps == ASSUME TableInv, ReadsTail PROVE TableInv'
<1> DEFINE held == Len(timeline)
           n == Len(session)
           now == Page(store, session)
<1>1. PICK upTo \in {held, n} :
         timeline' = [timeline EXCEPT ![held] = reread] \o SubSeq(now, held + 1, upTo)
  BY DEF ReadsTail
<1>2. /\ reread # NotRead /\ reread' = NotRead /\ store' = store /\ session' = session
      /\ events' = events /\ turnBy' = turnBy
  BY DEF ReadsTail
<1>3. /\ session \in Seq(Brought) /\ EndsFollowStarts(session)
      /\ timeline \in Seq(Gained) /\ events \in Seq(Gained)
      /\ Len(events) <= held /\ held <= n
      /\ n \in Nat /\ held \in Nat /\ Len(events) \in Nat
  BY DEF TableInv, TableShape
<1>4. timeline # <<>> /\ held \in 1 .. held
  BY <1>2, <1>3 DEF TableInv, RereadRead
<1>5. PICK x \in held .. n : reread = Page(store, Till(session, x))[held]
  BY <1>2 DEF TableInv, RereadRead
<1>6. now \in Seq(Gained) /\ Len(now) = n /\ Till(session, n) = session
  BY <1>3, PageNow
<1>7. reread \in Gained
  <2>1. x \in 0 .. n /\ held \in 1 .. x
    BY <1>3, <1>4
  <2>2. Till(session, x) \in Seq(Brought) /\ Len(Till(session, x)) = x
    BY <1>3, <2>1, TillIs
  <2> DEFINE g == Page(store, Till(session, x))
  <2>3. g \in Seq(Gained) /\ Len(g) = x
    BY <2>2, PageIs
  <2> HIDE DEF g
  <2>4. g[held] \in Gained
    BY <2>1, <2>3
  <2> QED BY <1>5, <2>4 DEF g
<1>8. upTo \in held .. n
  BY <1>3
<1> HIDE DEF held, n, now
<1>9. /\ timeline' \in Seq(Gained) /\ Len(timeline') = upTo
      /\ \A i \in 1 .. held : timeline'[i] = IF i = held THEN reread ELSE timeline[i]
      /\ \A i \in held + 1 .. upTo : timeline'[i] = now[i]
  <2> DEFINE a == [timeline EXCEPT ![held] = reread]
             b == SubSeq(now, held + 1, upTo)
  <2>1. /\ a \in Seq(Gained) /\ Len(a) = held
        /\ \A i \in 1 .. held : a[i] = IF i = held THEN reread ELSE timeline[i]
    BY <1>3, <1>4, <1>7 DEF held
  <2>2. /\ b \in Seq(Gained) /\ Len(b) = upTo - held
        /\ \A i \in 1 .. upTo - held : b[i] = now[held + i]
    BY <1>3, <1>6, <1>8
  <2> HIDE DEF a, b
  <2>3. timeline' = a \o b
    BY <1>1 DEF a, b
  <2>4. /\ a \o b \in Seq(Gained) /\ Len(a \o b) = upTo
        /\ \A i \in 1 .. held : (a \o b)[i] = a[i]
        /\ \A i \in held + 1 .. upTo : (a \o b)[i] = b[i - held]
    <3>1. a \o b \in Seq(Gained) /\ Len(a \o b) = Len(a) + Len(b)
      BY <2>1, <2>2
    <3>2. Len(a \o b) = upTo
      BY <1>3, <1>8, <2>1, <2>2, <3>1
    <3>3. \A i \in 1 .. Len(a) + Len(b) : (a \o b)[i] = IF i <= Len(a) THEN a[i] ELSE b[i - Len(a)]
      BY <2>1, <2>2
    <3>4. Len(a) + Len(b) = upTo
      BY <3>1, <3>2
    <3>5. \A i \in 1 .. held : i \in 1 .. upTo /\ i <= Len(a)
      BY <1>3, <1>8, <2>1
    <3>6. \A i \in held + 1 .. upTo : i \in 1 .. upTo /\ ~(i <= Len(a))
      BY <1>3, <1>8, <2>1
    <3> QED BY <2>1, <3>1, <3>2, <3>3, <3>4, <3>5, <3>6
  <2>5. \A i \in held + 1 .. upTo : b[i - held] = now[i]
    <3> TAKE i \in held + 1 .. upTo
    <3>1. i - held \in 1 .. upTo - held /\ held + (i - held) = i
      BY <1>3, <1>8
    <3> QED BY <2>2, <3>1
  <2> QED BY <2>1, <2>3, <2>4, <2>5
<1>10. upTo \in Nat /\ held <= upTo /\ upTo <= n /\ (upTo > held => upTo = n)
  BY <1>1, <1>3, <1>8
<1>11. TableShape'
  BY <1>2, <1>3, <1>9, <1>10 DEF TableShape, held, n
<1>12. ASSUME NEW i \in 1 .. upTo
       PROVE  \E m \in Nat : ReadAt(store, session, timeline', i, m)
  <2>1. CASE i \in 1 .. held - 1
    <3>1. i \in 1 .. Len(timeline) /\ timeline'[i] = timeline[i]
      BY <1>3, <1>9, <2>1 DEF held
    <3>2. PICK m \in Nat : ReadAt(store, session, timeline, i, m)
      BY <3>1 DEF TableInv, RowsRead, ReadRows
    <3>3. m \in i .. n /\ m <= held /\ timeline[i] = Page(store, Till(session, m))[i]
      BY <1>3, <2>1, <3>2 DEF ReadAt, held, n
    <3>4. m <= upTo
      BY <1>3, <1>10, <3>3
    <3>5. ReadAt(store, session, timeline', i, m)
      BY <1>9, <3>1, <3>3, <3>4 DEF ReadAt, n
    <3> QED BY <3>5
  <2>2. CASE i = held
    <3>1. timeline'[i] = Page(store, Till(session, x))[i] /\ x \in i .. n
      BY <1>4, <1>5, <1>9, <2>2
    <3>2. i < upTo => x <= upTo
      BY <1>3, <1>10, <2>2, <3>1
    <3>3. ReadAt(store, session, timeline', i, x) /\ x \in Nat
      BY <1>3, <1>9, <3>1, <3>2 DEF ReadAt, n
    <3> QED BY <3>3
  <2>3. CASE i \in held + 1 .. upTo
    <3>1. upTo = n /\ timeline'[i] = Page(store, Till(session, n))[i] /\ n \in i .. n
      BY <1>3, <1>6, <1>9, <1>10, <2>3 DEF now
    <3>2. ReadAt(store, session, timeline', i, n)
      BY <1>3, <1>9, <3>1 DEF ReadAt, n
    <3> QED BY <1>3, <3>2
  <2> QED BY <1>3, <1>10, <2>1, <2>2, <2>3
<1>13. RowsRead'
  <2>1. ReadRows(store, session, timeline')
    BY <1>3, <1>9, <1>10, <1>12 DEF ReadRows, n
  <2> QED BY <1>2, <2>1 DEF RowsRead
<1>14. RereadRead'
  BY <1>2 DEF RereadRead
<1>15. \A i \in 1 .. Len(events) - 1 : timeline'[i] = timeline[i]
  BY <1>3, <1>9
<1>16. EventsRead'
  BY <1>2, <1>15 DEF TableInv, EventsRead
<1>17. MapRead'
  <2> DEFINE k == Len(events)
  <2>1. /\ DOMAIN turnBy \subseteq 1 .. k
        /\ StampsHold(timeline, turnBy, k)
        /\ LastTurnRead(store, session, timeline, turnBy, k)
    BY DEF TableInv, MapRead
  <2> HIDE DEF k
  <2>2. StampsHold(timeline', turnBy, k)
    BY <1>15, <2>1 DEF StampsHold, k
  <2>3. ASSUME NEW l \in Nat, NEW m \in Nat,
               TurnRead(store, session, timeline, k, turnBy[k], l, m)
        PROVE  TurnRead(store, session, timeline', k, turnBy[k], l, m)
    <3>1. m \in k .. n /\ (held > k => m <= held)
      BY <2>3 DEF TurnRead, held, n
    <3>2. upTo > k => m <= upTo
      BY <1>3, <1>10, <3>1 DEF k
    <3> QED BY <1>9, <2>3, <3>2 DEF TurnRead
  <2>4. LastTurnRead(store, session, timeline', turnBy, k)
    BY <2>1, <2>3 DEF LastTurnRead
  <2> QED BY <1>2, <2>1, <2>2, <2>4 DEF MapRead, k
<1> QED BY <1>11, <1>13, <1>14, <1>16, <1>17 DEF TableInv

LEMMA LoadsKeeps == ASSUME TableInv, Loads PROVE TableInv'
<1>1. /\ events' = timeline /\ timeline' = timeline /\ store' = store /\ session' = session
      /\ reread' = reread
      /\ turnBy' = IF visible = {} THEN TurnMap(timeline)
                   ELSE IF Len(timeline) = Len(events) THEN turnBy
                   ELSE Extended(turnBy, timeline, Len(events))
  BY DEF Loads
<1>2. /\ timeline \in Seq(Gained) /\ events \in Seq(Gained)
      /\ Len(events) <= Len(timeline) /\ Len(timeline) <= Len(session)
      /\ Len(timeline) \in Nat /\ Len(events) \in Nat
      /\ ReadRows(store, session, timeline)
  BY DEF TableInv, TableShape, RowsRead
<1>3. TableShape' /\ RowsRead' /\ RereadRead' /\ EventsRead'
  BY <1>1, <1>2 DEF TableInv, TableShape, RowsRead, RereadRead, EventsRead
<1>4. MapRead'
  <2> DEFINE n == Len(timeline)
  <2> SUFFICES /\ DOMAIN turnBy' \subseteq 1 .. n
               /\ StampsHold(timeline, turnBy', n)
               /\ LastTurnRead(store, session, timeline, turnBy', n)
    BY <1>1 DEF MapRead
  <2>1. /\ DOMAIN turnBy \subseteq 1 .. Len(events)
        /\ StampsHold(timeline, turnBy, Len(events))
        /\ LastTurnRead(store, session, timeline, turnBy, Len(events))
    BY DEF TableInv, MapRead
  <2>2. CASE visible = {}
    <3>1. /\ DOMAIN TurnMap(timeline) \subseteq 1 .. n
          /\ StampsHold(timeline, TurnMap(timeline), n + 1)
          /\ LastTurnRead(store, session, timeline, TurnMap(timeline), n)
      BY <1>2, RebuiltIs
    <3>2. \A i \in 1 .. n - 1 : i \in 1 .. (n + 1) - 1
      BY <1>2
    <3>3. turnBy' = TurnMap(timeline)
      BY <1>1, <2>2
    <3> QED BY <3>1, <3>2, <3>3 DEF StampsHold
  <2>3. CASE visible # {} /\ n = Len(events)
    <3>1. turnBy' = turnBy
      BY <1>1, <2>3
    <3> QED BY <2>1, <2>3, <3>1
  <2>4. CASE visible # {} /\ n # Len(events)
    <3>1. turnBy' = Extended(turnBy, timeline, Len(events))
      BY <1>1, <2>4
    <3>2. Len(events) < Len(timeline)
      BY <1>2, <2>4
    <3> QED BY <1>2, <2>1, <3>1, <3>2, ExtendedIs
  <2> QED BY <2>2, <2>3, <2>4
<1> QED BY <1>3, <1>4 DEF TableInv

LEMMA TableInvNext == ASSUME TableInv, [TableNext]_tableVars PROVE TableInv'
<1>1. CASE Filters \/ UNCHANGED tableVars
  BY <1>1 DEF Filters, tableVars, TableInv, TableShape, RowsRead, RereadRead, EventsRead, MapRead
<1> QED BY <1>1, GainsKeeps, OpensKeeps, ReadsLastKeeps, ReadsTailKeeps, LoadsKeeps DEF TableNext

\* Whatever was read when, each row held was in a page of the session as it
\* was then, and the last turn of the map (_turn_by_index) is one its row, or
\* the row before those without a turn, was shown with.
THEOREM TableAlwaysRead == TableSpec => []TableInv
BY TableInvInit, TableInvNext, PTL DEF TableSpec

\* Cutting loses nothing and doubles nothing (segment_timeline_turns and
\* _attach_startless_turns), whatever the session gains and however late its
\* rows are read again: each event of a turn lies in exactly one segment.
THEOREM EveryEventAlwaysInOneTurn == TableSpec => []EveryEventInOneTurn
<1>1. TableInv => EveryEventInOneTurn
  BY PartitionHolds DEF TableInv, TableShape, EveryEventInOneTurn
<1> QED BY <1>1, TableAlwaysRead, PTL

\* The map of the Timeline has the turn the owner stamped each row with
\* (_rebuild_turn_map and _extend_turn_map_from), although a tail inherits
\* the turn of the row before it and its own stamps are never looked at:
\* for any session, and pages read at any time.
THEOREM OwnerStampsAlwaysWin == TableSpec => []OwnerStampsWin
<1>1. ASSUME TableInv PROVE OwnerStampsWin
  <2>1. /\ Len(events) \in Nat
        /\ \A i \in 1 .. Len(events) - 1 : events[i] = timeline[i]
        /\ StampsHold(timeline, turnBy, Len(events))
    BY <1>1 DEF TableInv, TableShape, EventsRead, MapRead
  <2> QED BY <2>1 DEF OwnerStampsWin, StampsHold
<1> QED BY <1>1, TableAlwaysRead, PTL
=============================================================================
