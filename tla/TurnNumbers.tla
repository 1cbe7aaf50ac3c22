---------------------------- MODULE TurnNumbers -----------------------------
(***************************************************************************)
(* The turn number every row of a parsed timeline carries                  *)
(* (carry_turn_numbers of core/src/event.rs, with which the parse of every *)
(* store ends).  A timeline is given here by what its rows bring along:    *)
(* the number of a turn_started that has one, Unnumbered for any other     *)
(* row.                                                                    *)
(***************************************************************************)
EXTENDS Integers, SequencesExt

CONSTANT Unnumbered

ASSUME UnnumberedAssumption == Unnumbered \notin Nat

\* One row of the pass: a start's number holds from here on, and the rows
\* that wait for one (those before the first) take it too.
\* Mutated: the rows that wait are left to the end.
CarryForward(acc, own) ==
    LET current == IF own = Unnumbered THEN acc.current ELSE own
    IN [current |-> current, stamps |-> Append(acc.stamps, current)]
Carry(acc, own) ==
    LET current == IF own = Unnumbered THEN acc.current ELSE own
    IN [current |-> current,
        stamps |-> Append([j \in DOMAIN acc.stamps |->
                              IF acc.stamps[j] = Unnumbered THEN current ELSE acc.stamps[j]],
                          current)]
NothingCarried == [current |-> Unnumbered, stamps |-> <<>>]
\* The pass after each row.
Carrying(owns) ==
    LET pass[i \in 0 .. Len(owns)] ==
            IF i = 0 THEN NothingCarried ELSE Carry(pass[i - 1], owns[i])
    IN pass
\* Without a numbered start every row is of turn 0.
Carried(owns) ==
    LET stamps == Carrying(owns)[Len(owns)].stamps
    IN [i \in DOMAIN stamps |-> IF stamps[i] = Unnumbered THEN 0 ELSE stamps[i]]
\* What the parse hands out of a timeline of records: every row is stamped.
Parsed(tl) ==
    LET stamps == Carried([i \in DOMAIN tl |-> tl[i].n])
    IN [i \in DOMAIN tl |-> [tl[i] EXCEPT !.n = stamps[i]]]

-----------------------------------------------------------------------------
\* What its comment promises: the number of the last numbered start up to a
\* row, of the first one for the rows before it, and 0 if there is none.
Marks(owns) == {i \in DOMAIN owns : owns[i] # Unnumbered}
NumberAt(owns, i) ==
    LET marks == Marks(owns)
        before == {m \in marks : m <= i}
    IN IF before # {} THEN owns[Max(before)]
       ELSE IF marks # {} THEN owns[Min(marks)] ELSE 0
=============================================================================
