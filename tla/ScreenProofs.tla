----------------------------- MODULE ScreenProofs -----------------------------
(***************************************************************************)
(* An open session's refreshes, for any number of screens and threads: one *)
(* thread at a time has the session's lock, and because of that no screen  *)
(* ever replaces what it read by something older.                          *)
(***************************************************************************)
EXTENDS LiveRefresh, FiniteSetTheorems, TLAPS

-----------------------------------------------------------------------------
(* The inductive invariant of an open session's refreshes. *)

Shape ==
    /\ lock \in [held : BOOLEAN, rerun : BOOLEAN]
    /\ home \in [pc : {"idle", "begin", "refused", "held", "apply"}, rerun : BOOLEAN]
    /\ scr \in [Screens -> ScreenRecords]
    /\ store \in Seq(BOOLEAN)

\* One thread at a time between its try_begin and its end, and the lock says so.
\* A screen's load does not run before the screen is opened.
LockInv ==
    /\ \A p, q \in Holders : p = q
    /\ lock.held <=> Holders # {}
    /\ lock.rerun => lock.held
    /\ \A s \in Screens : scr[s].at = "unopened" => scr[s].load = "none"

\* Nothing a screen holds is ahead of the store, and what a full load has read
\* but not yet put on the screen is not behind what the screen has.
ReadIsSound(r) ==
    /\ r.meta <= Now /\ r.rows <= Now /\ r.got <= Now
    /\ r.shown <= r.rows
    /\ mode = "attached" /\ r.load = "page" => r.meta <= r.got
ReadsInv == \A s \in Screens : ReadIsSound(scr[s])

Inv == Shape /\ LockInv /\ ReadsInv

-----------------------------------------------------------------------------
(* What a step of one screen may do, to its lock and to what it shows. *)

Keeps(s, q) ==
    /\ q.load \in LoadHolds <=> scr[s].load \in LoadHolds
    /\ q.job # "none" <=> scr[s].job # "none"
    /\ lock' \in {lock, Asked(lock)}
Takes(s, q) ==
    /\ ~lock.held
    /\ q.load \in LoadHolds <=> q.job = "none"
    /\ lock' = Taken
Releases(s, q) ==
    /\ scr[s].load \in LoadHolds \/ scr[s].job # "none"
    /\ q.load \notin LoadHolds
    /\ \/ q.job = "none" /\ lock' = Free
       \/ q.job # "none" /\ lock' = Taken

Advances(q, r) == q.meta >= r.meta /\ q.rows >= r.rows /\ q.shown >= r.shown

\* Screen s becomes q, and nothing else that the invariant is about moves.
TurnsInto(s, q) ==
    /\ Becomes(s, q)
    /\ Keeps(s, q) \/ Takes(s, q) \/ Releases(s, q)
    /\ q.at = "unopened" => q.load = "none"
    /\ ReadIsSound(q) /\ Advances(q, scr[s])

ScreenStep(s) ==
    /\ \E q \in ScreenRecords : TurnsInto(s, q)
    /\ home' \in [pc : {"idle", "begin", "refused", "held", "apply"}, rerun : BOOLEAN]
    /\ home'.pc = "held" <=> home.pc = "held"
    /\ UNCHANGED <<mode, store>>

-----------------------------------------------------------------------------
(* Who holds the lock. *)

LEMMA HolderIs ==
    ASSUME NEW p
    PROVE  p \in Holders <=>
              \/ \E t \in Screens : p = <<"load", t>> /\ scr[t].load \in LoadHolds
              \/ \E t \in Screens : p = <<"job", t>> /\ scr[t].job # "none"
              \/ p = <<"home">> /\ home.pc = "held"
BY DEF Holders

LEMMA HolderIsNext ==
    ASSUME NEW p
    PROVE  p \in Holders' <=>
              \/ \E t \in Screens : p = <<"load", t>> /\ scr'[t].load \in LoadHolds
              \/ \E t \in Screens : p = <<"job", t>> /\ scr'[t].job # "none"
              \/ p = <<"home">> /\ home'.pc = "held"
BY DEF Holders

\* A screen's load and its job never have the lock both.
LEMMA LoadOrJob ==
    ASSUME LockInv, NEW s \in Screens
    PROVE  ~(scr[s].load \in LoadHolds /\ scr[s].job # "none")
<1> SUFFICES ASSUME scr[s].load \in LoadHolds, scr[s].job # "none" PROVE FALSE
    OBVIOUS
<1>1. <<"load", s>> \in Holders /\ <<"job", s>> \in Holders
      BY HolderIs
<1>2. <<"load", s>> # <<"job", s>>
      OBVIOUS
<1> QED BY <1>1, <1>2 DEF LockInv

\* The step of a screen keeps the lock's part of the invariant.
LEMMA ScreenStepLocks ==
    ASSUME Shape, LockInv, NEW s \in Screens, ScreenStep(s)
    PROVE  LockInv'
<1>1. PICK q \in ScreenRecords : TurnsInto(s, q)
      BY DEF ScreenStep
<1>2. /\ scr' = [scr EXCEPT ![s] = q]
      /\ scr'[s] = q
      /\ \A t \in Screens : t # s => scr'[t] = scr[t]
      BY <1>1 DEF TurnsInto, Becomes, Shape
<1>3. \A t \in Screens : scr'[t].at = "unopened" => scr'[t].load = "none"
      BY <1>1, <1>2 DEF LockInv, TurnsInto
<1>4. \A p : p # <<"load", s>> /\ p # <<"job", s>> => (p \in Holders' <=> p \in Holders)
  <2> SUFFICES ASSUME NEW p, p # <<"load", s>>, p # <<"job", s>>
               PROVE  p \in Holders' <=> p \in Holders
      OBVIOUS
  <2>1. \A t \in Screens : p = <<"load", t>> \/ p = <<"job", t>> => t # s
        OBVIOUS
  <2> QED BY <1>2, <2>1, HolderIs, HolderIsNext DEF ScreenStep
<1>5. /\ <<"load", s>> \in Holders' <=> q.load \in LoadHolds
      /\ <<"job", s>> \in Holders' <=> q.job # "none"
      /\ <<"load", s>> \in Holders <=> scr[s].load \in LoadHolds
      /\ <<"job", s>> \in Holders <=> scr[s].job # "none"
      BY <1>2, HolderIs, HolderIsNext
<1>6. lock.held \in BOOLEAN /\ lock.rerun \in BOOLEAN
      BY DEF Shape
<1>7. CASE Keeps(s, q)
  <2>1. Holders' = Holders
        BY <1>4, <1>5, <1>7 DEF Keeps
  <2>2. lock'.held = lock.held /\ (lock'.rerun => lock.held)
        BY <1>7 DEF Keeps, Asked, LockInv, Shape
  <2> QED BY <1>3, <2>1, <2>2 DEF LockInv
<1>8. CASE Takes(s, q)
  <2>1. Holders = {}
        BY <1>8 DEF Takes, LockInv
  <2>2. Holders' # {} /\ \A p, o \in Holders' : p = o
        BY <1>4, <1>5, <1>8, <2>1 DEF Takes
  <2>3. lock'.held /\ ~lock'.rerun
        BY <1>8 DEF Takes, Taken
  <2> QED BY <1>3, <2>2, <2>3 DEF LockInv
<1>9. CASE Releases(s, q)
  <2>1. Holders \subseteq {<<"load", s>>, <<"job", s>>}
        BY <1>5, <1>9 DEF Releases, LockInv
  <2>2. CASE q.job = "none" /\ lock' = Free
    <3>1. Holders' = {}
          BY <1>4, <1>5, <1>9, <2>1, <2>2 DEF Releases
    <3>2. ~lock'.held /\ ~lock'.rerun
          BY <2>2 DEF Free
    <3> QED BY <1>3, <3>1, <3>2 DEF LockInv
  <2>3. CASE q.job # "none" /\ lock' = Taken
    <3>1. Holders' = {<<"job", s>>}
          BY <1>4, <1>5, <1>9, <2>1, <2>3 DEF Releases
    <3>2. lock'.held /\ ~lock'.rerun
          BY <2>3 DEF Taken
    <3> QED BY <1>3, <3>1, <3>2 DEF LockInv
  <2> QED BY <1>9, <2>2, <2>3 DEF Releases
<1> QED BY <1>1, <1>7, <1>8, <1>9 DEF TurnsInto

LEMMA ScreenStepKeeps ==
    ASSUME Inv, NEW s \in Screens, ScreenStep(s)
    PROVE  Inv' /\ \A t \in Screens : Advances(scr'[t], scr[t])
<1>1. PICK q \in ScreenRecords : TurnsInto(s, q)
      BY DEF ScreenStep
<1>2. /\ scr' = [scr EXCEPT ![s] = q]
      /\ scr'[s] = q
      /\ \A t \in Screens : t # s => scr'[t] = scr[t]
      BY <1>1 DEF TurnsInto, Becomes, Shape, Inv
<1>3. LockInv'
      BY ScreenStepLocks DEF Inv
<1>4. Shape'
  <2>1. lock' \in [held : BOOLEAN, rerun : BOOLEAN]
    <3>1. lock' \in {lock, Asked(lock), Taken, Free}
          BY <1>1 DEF TurnsInto, Keeps, Takes, Releases
    <3>2. lock \in [held : BOOLEAN, rerun : BOOLEAN]
          BY DEF Inv, Shape
    <3>3. /\ Asked(lock) \in [held : BOOLEAN, rerun : BOOLEAN]
          /\ Taken \in [held : BOOLEAN, rerun : BOOLEAN]
          /\ Free \in [held : BOOLEAN, rerun : BOOLEAN]
          BY <3>2 DEF Asked, Taken, Free
    <3> QED BY <3>1, <3>2, <3>3
  <2>2. scr' \in [Screens -> ScreenRecords]
        BY <1>2 DEF Inv, Shape
  <2> QED BY <2>1, <2>2 DEF ScreenStep, Inv, Shape
<1>5. ReadsInv'
  <2>1. UNCHANGED <<mode, store>>
        BY DEF ScreenStep
  <2>2. ReadIsSound(q)
        BY <1>1 DEF TurnsInto
  <2> QED BY <1>2, <2>1, <2>2 DEF ReadsInv, ReadIsSound, Now, Inv
<1>6. \A t \in Screens : Advances(scr'[t], scr[t])
  <2>1. \A t \in Screens : scr[t].meta \in Nat /\ scr[t].rows \in Nat /\ scr[t].shown \in Nat
        BY DEF Inv, Shape, ScreenRecords
  <2> QED BY <1>1, <1>2, <2>1 DEF TurnsInto, Advances
<1> QED BY <1>3, <1>4, <1>5, <1>6 DEF Inv

-----------------------------------------------------------------------------
(* The screen's own helpers. *)

SameReads(q, r) ==
    /\ q.at = r.at /\ q.load = r.load
    /\ q.meta = r.meta /\ q.rows = r.rows /\ q.shown = r.shown /\ q.got = r.got

LEMMA HelpersKeep ==
    ASSUME NEW r \in ScreenRecords
    PROVE  /\ Probed(r) \in ScreenRecords /\ SameReads(Probed(r), r) /\ Probed(r).job = r.job
           /\ Forgotten(r) \in ScreenRecords /\ SameReads(Forgotten(r), r) /\ Forgotten(r).job = r.job
           /\ Downgraded(r) \in ScreenRecords /\ SameReads(Downgraded(r), r) /\ Downgraded(r).job = r.job
           /\ Deferred(r) \in ScreenRecords /\ SameReads(Deferred(r), r) /\ Deferred(r).job = r.job
<1>1. PICK v \in {"yes", "no"} : Probed(r) = [r EXCEPT !.need = v]
      BY DEF Probed
<1>2. Probed(r) \in ScreenRecords /\ SameReads(Probed(r), r) /\ Probed(r).job = r.job
      BY <1>1 DEF SameReads, ScreenRecords
<1>3. Forgotten(r) \in ScreenRecords /\ SameReads(Forgotten(r), r) /\ Forgotten(r).job = r.job
      BY DEF Forgotten, SameReads, ScreenRecords
<1>4. Downgraded(r) \in ScreenRecords /\ SameReads(Downgraded(r), r) /\ Downgraded(r).job = r.job
      BY DEF Downgraded, SameReads, ScreenRecords
<1>5. Deferred(r) \in ScreenRecords /\ SameReads(Deferred(r), r) /\ Deferred(r).job = r.job
      BY DEF Deferred, SameReads, ScreenRecords
<1> QED BY <1>2, <1>3, <1>4, <1>5

LEMMA ScheduledKeeps ==
    ASSUME NEW r \in ScreenRecords
    PROVE  Scheduled(r) \in ScreenRecords /\ SameReads(Scheduled(r), r) /\ Scheduled(r).job = r.job
<1>1. CASE Needed(r)
  <2>1. Scheduled(r) = [Probed(r) EXCEPT !.recheck = FALSE, !.hot = TRUE]
        BY <1>1 DEF Scheduled
  <2>2. Probed(r) \in ScreenRecords /\ SameReads(Probed(r), r) /\ Probed(r).job = r.job
        BY HelpersKeep
  <2> DEFINE q == [Probed(r) EXCEPT !.recheck = FALSE, !.hot = TRUE]
  <2>3. q \in ScreenRecords /\ SameReads(q, Probed(r)) /\ q.job = Probed(r).job
        BY <2>2 DEF SameReads, ScreenRecords
  <2> QED BY <2>1, <2>2, <2>3 DEF SameReads
<1>2. CASE ~Needed(r)
  <2>1. Scheduled(r) = Downgraded(Probed(r))
        BY <1>2 DEF Scheduled
  <2>2. Probed(r) \in ScreenRecords /\ SameReads(Probed(r), r) /\ Probed(r).job = r.job
        BY HelpersKeep
  <2> QED BY <2>1, <2>2, HelpersKeep DEF SameReads
<1> QED BY <1>1, <1>2

LEMMA JobStarts ==
    ASSUME NEW r \in ScreenRecords, NEW b \in BOOLEAN
    PROVE  [r EXCEPT !.pending = FALSE, !.beat = b, !.recent = TRUE, !.job = "read"] \in ScreenRecords
BY DEF ScreenRecords

\* A request leaves what the screen has read alone, and starts a job only on a
\* lock that is free.
LEMMA RequestsKeep ==
    ASSUME NEW s \in Screens, NEW r \in ScreenRecords,
           NEW lk \in [held : BOOLEAN, rerun : BOOLEAN], NEW beat \in BOOLEAN,
           RefreshFrom(s, r, lk, beat)
    PROVE  \E q \in ScreenRecords :
              /\ Becomes(s, q) /\ SameReads(q, r)
              /\ \/ q.job = r.job /\ lock' \in {lk, Asked(lk)}
                 \/ ~lk.held /\ q.job = "read" /\ lock' = Taken
<1> DEFINE p == Probed(r)
<1>0. p \in ScreenRecords /\ SameReads(p, r) /\ p.job = r.job
      BY HelpersKeep
<1>1. CASE ~Needed(r) /\ Becomes(s, Downgraded(p)) /\ lock' = lk
  <2>1. Downgraded(p) \in ScreenRecords /\ SameReads(Downgraded(p), p) /\ Downgraded(p).job = p.job
        BY <1>0, HelpersKeep
  <2> QED BY <1>0, <1>1, <2>1 DEF SameReads
<1>2. CASE Becomes(s, Deferred(p)) /\ lock' = lk
  <2>1. Deferred(p) \in ScreenRecords /\ SameReads(Deferred(p), p) /\ Deferred(p).job = p.job
        BY <1>0, HelpersKeep
  <2> QED BY <1>0, <1>2, <2>1 DEF SameReads
<1>3. CASE /\ Becomes(s, [p EXCEPT !.pending = TRUE, !.beat = p.beat \/ beat])
           /\ lock' \in {Asked(lk)} \union (IF home.pc = "held" THEN {lk} ELSE {})
  <2>0. PICK b \in BOOLEAN : b = (p.beat \/ beat)
        OBVIOUS
  <2> DEFINE q == [p EXCEPT !.pending = TRUE, !.beat = b]
  <2>1. q \in ScreenRecords /\ SameReads(q, p) /\ q.job = p.job
        BY <1>0 DEF SameReads, ScreenRecords
  <2>2. lock' \in {lk, Asked(lk)}
        BY <1>3
  <2> HIDE DEF p
  <2> QED BY <1>0, <1>3, <2>0, <2>1, <2>2 DEF SameReads
<1>4. CASE /\ MayBegin(lk)
           /\ Becomes(s, [p EXCEPT !.pending = FALSE, !.beat = p.beat \/ beat,
                                   !.recent = TRUE, !.job = "read"])
           /\ lock' = Taken
  <2>0. PICK b \in BOOLEAN : b = (p.beat \/ beat)
        OBVIOUS
  <2> DEFINE q == [p EXCEPT !.pending = FALSE, !.beat = b,
                            !.recent = TRUE, !.job = "read"]
  <2>1. q \in ScreenRecords /\ SameReads(q, p) /\ q.job = "read"
    <3>1. p \in ScreenRecords
          BY <1>0
    <3> HIDE DEF p
    <3>2. q \in ScreenRecords
          BY <3>1, JobStarts
    <3>3. SameReads(q, p) /\ q.job = "read"
          BY <3>1 DEF SameReads, ScreenRecords
    <3> QED BY <3>2, <3>3
  <2> HIDE DEF p
  <2> QED BY <1>0, <1>4, <2>0, <2>1 DEF SameReads, MayBegin
<1> QED BY <1>1, <1>2, <1>3, <1>4 DEF RefreshFrom

-----------------------------------------------------------------------------
(* Each action is such a step of its screen. *)

LEMMA ScreenFacts ==
    ASSUME Inv, NEW s \in Screens
    PROVE  /\ scr[s] \in ScreenRecords
           /\ Now \in Nat
           /\ ReadIsSound(scr[s])
           /\ ~(scr[s].load \in LoadHolds /\ scr[s].job # "none")
           /\ ~lock.held => scr[s].load \notin LoadHolds /\ scr[s].job = "none"
           /\ scr[s].at = "unopened" => scr[s].load = "none"
<1>1. scr[s] \in ScreenRecords /\ Now \in Nat /\ ReadIsSound(scr[s])
      BY DEF Inv, Shape, ReadsInv, Now
<1>2. ~(scr[s].load \in LoadHolds /\ scr[s].job # "none")
      BY LoadOrJob DEF Inv
<1>3. ~lock.held => scr[s].load \notin LoadHolds /\ scr[s].job = "none"
      BY HolderIs DEF Inv, LockInv
<1>4. scr[s].at = "unopened" => scr[s].load = "none"
      BY DEF Inv, LockInv
<1> QED BY <1>1, <1>2, <1>3, <1>4

LEMMA QuietStep ==
    ASSUME Inv, NEW s \in Screens, NEW q \in ScreenRecords,
           Becomes(s, q), SameReads(q, scr[s]), q.job = scr[s].job,
           lock' \in {lock, Asked(lock)}, UNCHANGED <<mode, store, home>>
    PROVE  ScreenStep(s)
<1>1. scr[s] \in ScreenRecords /\ ReadIsSound(scr[s])
      BY ScreenFacts
<1>2. Keeps(s, q)
      BY DEF Keeps, SameReads
<1>3. ReadIsSound(q) /\ Advances(q, scr[s])
      BY <1>1 DEF ReadIsSound, Advances, SameReads, ScreenRecords
<1>4. q.at = "unopened" => q.load = "none"
      BY ScreenFacts DEF SameReads
<1> QED BY <1>2, <1>3, <1>4 DEF ScreenStep, TurnsInto, Inv, Shape

LEMMA RequestStep ==
    ASSUME Inv, NEW s \in Screens, NEW r \in ScreenRecords, NEW beat \in BOOLEAN,
           SameReads(r, scr[s]), r.job = scr[s].job,
           RefreshFrom(s, r, lock, beat),
           UNCHANGED <<mode, store>>,
           home' \in [pc : {"idle", "begin", "refused", "held", "apply"}, rerun : BOOLEAN],
           home'.pc = "held" <=> home.pc = "held"
    PROVE  ScreenStep(s)
<1>1. lock \in [held : BOOLEAN, rerun : BOOLEAN]
      BY DEF Inv, Shape
<1>2. PICK q \in ScreenRecords :
         /\ Becomes(s, q) /\ SameReads(q, r)
         /\ \/ q.job = r.job /\ lock' \in {lock, Asked(lock)}
            \/ ~lock.held /\ q.job = "read" /\ lock' = Taken
      BY <1>1, RequestsKeep
<1>3. scr[s] \in ScreenRecords /\ ReadIsSound(scr[s])
      BY ScreenFacts
<1>4. SameReads(q, scr[s])
      BY <1>2 DEF SameReads
<1>5. ReadIsSound(q) /\ Advances(q, scr[s])
      BY <1>3, <1>4 DEF ReadIsSound, Advances, SameReads, ScreenRecords
<1>6. q.at = "unopened" => q.load = "none"
      BY <1>4, ScreenFacts DEF SameReads
<1>7. Keeps(s, q) \/ Takes(s, q)
  <2>1. CASE q.job = r.job /\ lock' \in {lock, Asked(lock)}
        BY <1>4, <2>1 DEF Keeps, SameReads
  <2>2. CASE ~lock.held /\ q.job = "read" /\ lock' = Taken
        BY <1>4, <2>2, ScreenFacts DEF Takes, SameReads
  <2> QED BY <1>2, <2>1, <2>2
<1> QED BY <1>2, <1>5, <1>6, <1>7 DEF ScreenStep, TurnsInto

\* The requests: the watch, the timers and the slow probe.
LEMMA TimerSteps ==
    ASSUME Inv, NEW s \in Screens,
           Signal(s) \/ SnapshotTick(s) \/ HeartbeatTick(s)
    PROVE  ScreenStep(s)
<1>1. scr[s] \in ScreenRecords /\ SameReads(scr[s], scr[s])
      BY ScreenFacts DEF SameReads
<1>2. /\ Forgotten(scr[s]) \in ScreenRecords
      /\ SameReads(Forgotten(scr[s]), scr[s]) /\ Forgotten(scr[s]).job = scr[s].job
      BY <1>1, HelpersKeep
<1>3. home \in [pc : {"idle", "begin", "refused", "held", "apply"}, rerun : BOOLEAN]
      BY DEF Inv, Shape
<1>4. CASE Signal(s)
      BY <1>1, <1>3, <1>4, RequestStep DEF Signal
<1>5. CASE SnapshotTick(s)
      BY <1>2, <1>3, <1>5, RequestStep DEF SnapshotTick
<1>6. CASE HeartbeatTick(s)
      BY <1>1, <1>3, <1>6, RequestStep DEF HeartbeatTick
<1> QED BY <1>4, <1>5, <1>6

LEMMA DeferredStep ==
    ASSUME Inv, NEW s \in Screens, DeferredFires(s)
    PROVE  ScreenStep(s)
<1> DEFINE r == [scr[s] EXCEPT !.deferred = FALSE]
<1>1. scr[s] \in ScreenRecords
      BY ScreenFacts
<1>2. r \in ScreenRecords /\ SameReads(r, scr[s]) /\ r.job = scr[s].job
      BY <1>1 DEF SameReads, ScreenRecords
<1>3. CASE Becomes(s, [r EXCEPT !.pending = TRUE]) /\ UNCHANGED lock
  <2> DEFINE q == [r EXCEPT !.pending = TRUE]
  <2>1. q \in ScreenRecords /\ SameReads(q, r) /\ q.job = r.job
        BY <1>2 DEF SameReads, ScreenRecords
  <2>2. SameReads(q, scr[s]) /\ q.job = scr[s].job
        BY <1>2, <2>1 DEF SameReads
  <2> HIDE DEF q, r
  <2>3. Becomes(s, q) /\ lock' \in {lock, Asked(lock)} /\ UNCHANGED <<mode, store, home>>
        BY <1>3 DEF DeferredFires, q, r
  <2> QED BY <2>1, <2>2, <2>3, QuietStep
<1>4. CASE RefreshFrom(s, r, lock, FALSE)
  <2>1. home \in [pc : {"idle", "begin", "refused", "held", "apply"}, rerun : BOOLEAN]
        BY DEF Inv, Shape
  <2>2. UNCHANGED <<mode, store, home>>
        BY DEF DeferredFires
  <2> HIDE DEF r
  <2> QED BY <1>2, <1>4, <2>1, <2>2, RequestStep
<1> QED BY <1>3, <1>4 DEF DeferredFires

LEMMA RecheckStep ==
    ASSUME Inv, NEW s \in Screens, RecheckTick(s)
    PROVE  ScreenStep(s)
<1> DEFINE r == Probed(Forgotten(scr[s]))
<1>1. scr[s] \in ScreenRecords
      BY ScreenFacts
<1>2. Forgotten(scr[s]) \in ScreenRecords /\ SameReads(Forgotten(scr[s]), scr[s])
      /\ Forgotten(scr[s]).job = scr[s].job
      BY <1>1, HelpersKeep
<1>3. r \in ScreenRecords /\ SameReads(r, scr[s]) /\ r.job = scr[s].job
      BY <1>2, HelpersKeep DEF SameReads
<1>4. UNCHANGED <<mode, store, home>>
      BY DEF RecheckTick
<1>5. CASE Becomes(s, r) /\ UNCHANGED lock
  <2> HIDE DEF r
  <2> QED BY <1>3, <1>4, <1>5, QuietStep
<1>6. CASE RefreshFrom(s, Scheduled(r), lock, FALSE)
  <2> HIDE DEF r
  <2>1. Scheduled(r) \in ScreenRecords /\ SameReads(Scheduled(r), scr[s])
        /\ Scheduled(r).job = scr[s].job
        BY <1>3, ScheduledKeeps DEF SameReads
  <2>2. home \in [pc : {"idle", "begin", "refused", "held", "apply"}, rerun : BOOLEAN]
        BY DEF Inv, Shape
  <2> QED BY <1>4, <1>6, <2>1, <2>2, RequestStep
<1> QED BY <1>5, <1>6 DEF RecheckTick

LEMMA GapStep ==
    ASSUME Inv, NEW s \in Screens, GapPasses(s)
    PROVE  ScreenStep(s)
<1> DEFINE q == [scr[s] EXCEPT !.recent = FALSE]
<1>1. scr[s] \in ScreenRecords
      BY ScreenFacts
<1>2. q \in ScreenRecords /\ SameReads(q, scr[s]) /\ q.job = scr[s].job
      BY <1>1 DEF SameReads, ScreenRecords
<1>3. Becomes(s, q) /\ lock' = lock /\ UNCHANGED <<mode, store, home>>
      BY DEF GapPasses
<1> HIDE DEF q
<1> QED BY <1>2, <1>3, QuietStep

-----------------------------------------------------------------------------
(* The full load. *)

\* A load or a job that goes on: what is left to show of it.
LEMMA StepOn ==
    ASSUME Inv, NEW s \in Screens, NEW q \in ScreenRecords, Becomes(s, q),
           Keeps(s, q) \/ Takes(s, q) \/ Releases(s, q),
           q.at = scr[s].at, q.load = "none" \/ scr[s].load # "none",
           ReadIsSound(q), Advances(q, scr[s]),
           UNCHANGED <<mode, store, home>>
    PROVE  ScreenStep(s)
<1>1. q.at = "unopened" => q.load = "none"
      BY ScreenFacts
<1> QED BY <1>1 DEF ScreenStep, TurnsInto, Inv, Shape

LEMMA LoadBeginsStep ==
    ASSUME Inv, NEW s \in Screens, LoadBegins(s)
    PROVE  ScreenStep(s)
<1>1. scr[s] \in ScreenRecords /\ ReadIsSound(scr[s]) /\ scr[s].load = "begin"
      BY ScreenFacts DEF LoadBegins, LoadSteps
<1>2. UNCHANGED <<mode, store, home>>
      BY DEF LoadBegins
<1>3. CASE MayBegin(lock) /\ lock' = Taken
           /\ Becomes(s, [scr[s] EXCEPT !.load = "read", !.fp = <<>>,
                                        !.seen = IF mode = "offline" THEN 0 ELSE @])
  <2>1. PICK n \in Nat : n = IF mode = "offline" THEN 0 ELSE scr[s].seen
        BY <1>1 DEF ScreenRecords
  <2> DEFINE q == [scr[s] EXCEPT !.load = "read", !.fp = <<>>, !.seen = n]
  <2>2. q \in ScreenRecords
        BY <1>1 DEF ScreenRecords, LoadHolds
  <2>3. /\ q.at = scr[s].at /\ q.load = "read" /\ q.job = scr[s].job
        /\ q.meta = scr[s].meta /\ q.rows = scr[s].rows
        /\ q.shown = scr[s].shown /\ q.got = scr[s].got
        BY <1>1 DEF ScreenRecords
  <2>4. Becomes(s, q)
        BY <1>3, <2>1
  <2> HIDE DEF q
  <2>5. Takes(s, q)
        BY <1>3, <2>3, ScreenFacts DEF Takes, MayBegin, LoadHolds
  <2>6. ReadIsSound(q) /\ Advances(q, scr[s])
        BY <1>1, <2>3 DEF ReadIsSound, Advances, ScreenRecords
  <2> QED BY <1>1, <1>2, <2>2, <2>3, <2>4, <2>5, <2>6, StepOn
<1>4. CASE lock' = lock /\ Becomes(s, [scr[s] EXCEPT !.load = "refused"])
  <2> DEFINE q == [scr[s] EXCEPT !.load = "refused"]
  <2>1. q \in ScreenRecords
        BY <1>1 DEF ScreenRecords
  <2>2. /\ q.at = scr[s].at /\ q.load = "refused" /\ q.job = scr[s].job
        /\ q.meta = scr[s].meta /\ q.rows = scr[s].rows
        /\ q.shown = scr[s].shown /\ q.got = scr[s].got
        BY <1>1 DEF ScreenRecords
  <2>3. Becomes(s, q)
        BY <1>4
  <2> HIDE DEF q
  <2>4. Keeps(s, q)
        BY <1>1, <1>4, <2>2 DEF Keeps, LoadHolds
  <2>5. ReadIsSound(q) /\ Advances(q, scr[s])
        BY <1>1, <2>2 DEF ReadIsSound, Advances, ScreenRecords
  <2> QED BY <1>1, <1>2, <2>1, <2>2, <2>3, <2>4, <2>5, StepOn
<1> QED BY <1>3, <1>4 DEF LoadBegins, LoadSteps

LEMMA LoadAsksStep ==
    ASSUME Inv, NEW s \in Screens, LoadAsks(s)
    PROVE  ScreenStep(s)
<1> DEFINE q == [scr[s] EXCEPT !.load = "none"]
<1>1. scr[s] \in ScreenRecords /\ ReadIsSound(scr[s]) /\ scr[s].load = "refused"
      BY ScreenFacts DEF LoadAsks, LoadSteps
<1>2. q \in ScreenRecords
      BY <1>1 DEF ScreenRecords
<1>3. /\ q.at = scr[s].at /\ q.load = "none" /\ q.job = scr[s].job
      /\ q.meta = scr[s].meta /\ q.rows = scr[s].rows
      /\ q.shown = scr[s].shown /\ q.got = scr[s].got
      BY <1>1 DEF ScreenRecords
<1>4. Becomes(s, q) /\ lock' = Asked(lock) /\ UNCHANGED <<mode, store, home>>
      BY DEF LoadAsks, LoadSteps
<1> HIDE DEF q
<1>5. Keeps(s, q)
      BY <1>1, <1>3, <1>4 DEF Keeps, LoadHolds
<1>6. ReadIsSound(q) /\ Advances(q, scr[s])
      BY <1>1, <1>3 DEF ReadIsSound, Advances, ScreenRecords
<1> QED BY <1>2, <1>3, <1>4, <1>5, <1>6, StepOn

\* What a load that holds the lock may make of its screen.
LoadGoesOn(s, q) ==
    /\ q \in ScreenRecords
    /\ q.at = scr[s].at /\ q.load \in LoadHolds /\ q.job = scr[s].job
    /\ ReadIsSound(q) /\ Advances(q, scr[s])

LEMMA LoadOn ==
    ASSUME Inv, NEW s \in Screens, scr[s].load \in LoadHolds,
           NEW q, Becomes(s, q), LoadGoesOn(s, q),
           UNCHANGED <<mode, store, lock, home>>
    PROVE  ScreenStep(s)
<1>1. Keeps(s, q) /\ scr[s].load # "none"
      BY DEF Keeps, LoadGoesOn, LoadHolds
<1> QED BY <1>1, StepOn DEF LoadGoesOn

LEMMA LoadReadsStep ==
    ASSUME Inv, NEW s \in Screens, LoadReads(s)
    PROVE  ScreenStep(s)
<1> DEFINE r == scr[s]
<1>1. r \in ScreenRecords /\ ReadIsSound(r) /\ Now \in Nat
      BY ScreenFacts
<1>2. UNCHANGED <<mode, store, lock, home>>
      BY DEF LoadReads
<1>3. r.load \in LoadHolds
      BY DEF LoadReads, LoadSteps, LoadHolds
<1>4. CASE mode = "attached" /\ LoadSteps(s, "read", [r EXCEPT !.load = "page", !.seen = Now, !.got = Now])
  <2> DEFINE q == [r EXCEPT !.load = "page", !.seen = Now, !.got = Now]
  <2>1. q \in ScreenRecords
        BY <1>1 DEF ScreenRecords, LoadHolds
  <2>2. /\ q.at = r.at /\ q.load = "page" /\ q.job = r.job
        /\ q.meta = r.meta /\ q.rows = r.rows /\ q.shown = r.shown /\ q.got = Now
        BY <1>1 DEF ScreenRecords
  <2>3. LoadGoesOn(s, q)
        BY <1>1, <2>1, <2>2 DEF LoadGoesOn, ReadIsSound, Advances, ScreenRecords, LoadHolds
  <2> HIDE DEF q
  <2>4. Becomes(s, q)
        BY <1>4 DEF LoadSteps, q
  <2> QED BY <1>2, <1>3, <2>3, <2>4, LoadOn
<1>5. CASE mode = "attached" /\ LoadSteps(s, "page", [r EXCEPT !.load = "commit", !.meta = r.got,
                                                             !.rows = Now, !.got = 0])
  <2> DEFINE q == [r EXCEPT !.load = "commit", !.meta = r.got, !.rows = Now, !.got = 0]
  <2>1. q \in ScreenRecords
        BY <1>1 DEF ScreenRecords, LoadHolds
  <2>2. /\ q.at = r.at /\ q.load = "commit" /\ q.job = r.job
        /\ q.meta = r.got /\ q.rows = Now /\ q.shown = r.shown /\ q.got = 0
        BY <1>1 DEF ScreenRecords
  <2>3. LoadGoesOn(s, q)
        BY <1>1, <1>5, <2>1, <2>2
        DEF LoadGoesOn, LoadSteps, ReadIsSound, Advances, ScreenRecords, LoadHolds
  <2> HIDE DEF q
  <2>4. Becomes(s, q)
        BY <1>5 DEF LoadSteps, q
  <2> QED BY <1>2, <1>3, <2>3, <2>4, LoadOn
<1>6. CASE mode = "offline" /\ LoadSteps(s, "read", [r EXCEPT !.load = "page", !.meta = Now])
  <2> DEFINE q == [r EXCEPT !.load = "page", !.meta = Now]
  <2>1. q \in ScreenRecords
        BY <1>1 DEF ScreenRecords, LoadHolds
  <2>2. /\ q.at = r.at /\ q.load = "page" /\ q.job = r.job
        /\ q.meta = Now /\ q.rows = r.rows /\ q.shown = r.shown /\ q.got = r.got
        BY <1>1 DEF ScreenRecords
  <2>3. LoadGoesOn(s, q)
        BY <1>1, <1>6, <2>1, <2>2
        DEF LoadGoesOn, ReadIsSound, Advances, ScreenRecords, LoadHolds
  <2> HIDE DEF q
  <2>4. Becomes(s, q)
        BY <1>6 DEF LoadSteps, q
  <2> QED BY <1>2, <1>3, <2>3, <2>4, LoadOn
<1>7. CASE mode = "offline" /\ LoadSteps(s, "page", [r EXCEPT !.load = "stamp", !.rows = Now])
  <2> DEFINE q == [r EXCEPT !.load = "stamp", !.rows = Now]
  <2>1. q \in ScreenRecords
        BY <1>1 DEF ScreenRecords, LoadHolds
  <2>2. /\ q.at = r.at /\ q.load = "stamp" /\ q.job = r.job
        /\ q.meta = r.meta /\ q.rows = Now /\ q.shown = r.shown /\ q.got = r.got
        BY <1>1 DEF ScreenRecords
  <2>3. LoadGoesOn(s, q)
        BY <1>1, <2>1, <2>2 DEF LoadGoesOn, ReadIsSound, Advances, ScreenRecords, LoadHolds
  <2> HIDE DEF q
  <2>4. Becomes(s, q)
        BY <1>7 DEF LoadSteps, q
  <2> QED BY <1>2, <1>3, <2>3, <2>4, LoadOn
<1>8. CASE mode = "offline" /\ LoadSteps(s, "stamp", [r EXCEPT !.load = "commit", !.seen = Now])
  <2> DEFINE q == [r EXCEPT !.load = "commit", !.seen = Now]
  <2>1. q \in ScreenRecords
        BY <1>1 DEF ScreenRecords, LoadHolds
  <2>2. /\ q.at = r.at /\ q.load = "commit" /\ q.job = r.job
        /\ q.meta = r.meta /\ q.rows = r.rows /\ q.shown = r.shown /\ q.got = r.got
        BY <1>1 DEF ScreenRecords
  <2>3. LoadGoesOn(s, q)
        BY <1>1, <2>1, <2>2 DEF LoadGoesOn, ReadIsSound, Advances, ScreenRecords, LoadHolds
  <2> HIDE DEF q
  <2>4. Becomes(s, q)
        BY <1>8 DEF LoadSteps, q
  <2> QED BY <1>2, <1>3, <2>3, <2>4, LoadOn
<1> QED BY <1>4, <1>5, <1>6, <1>7, <1>8 DEF LoadReads

LEMMA LoadCommitsStep ==
    ASSUME Inv, NEW s \in Screens, LoadCommits(s)
    PROVE  ScreenStep(s)
<1>1. scr[s] \in ScreenRecords /\ ReadIsSound(scr[s]) /\ scr[s].load \in LoadHolds
      BY ScreenFacts DEF LoadCommits, LoadSteps, LoadHolds
<1>2. PICK l \in {"populate", "release"} : Becomes(s, [scr[s] EXCEPT !.load = l])
      BY DEF LoadCommits, LoadSteps
<1> DEFINE q == [scr[s] EXCEPT !.load = l]
<1>3. q \in ScreenRecords
      BY <1>1 DEF ScreenRecords, LoadHolds
<1>4. /\ q.at = scr[s].at /\ q.load = l /\ q.job = scr[s].job
      /\ q.meta = scr[s].meta /\ q.rows = scr[s].rows
      /\ q.shown = scr[s].shown /\ q.got = scr[s].got
      BY <1>1 DEF ScreenRecords
<1>5. LoadGoesOn(s, q)
      BY <1>1, <1>3, <1>4 DEF LoadGoesOn, ReadIsSound, Advances, ScreenRecords, LoadHolds
<1>6. UNCHANGED <<mode, store, lock, home>>
      BY DEF LoadCommits
<1> HIDE DEF q
<1> QED BY <1>1, <1>2, <1>5, <1>6, LoadOn DEF q

LEMMA LoadPaintsStep ==
    ASSUME Inv, NEW s \in Screens, LoadPaints(s)
    PROVE  ScreenStep(s)
<1> DEFINE r == scr[s]
<1>1. r \in ScreenRecords /\ ReadIsSound(r) /\ r.load \in LoadHolds
      BY ScreenFacts DEF LoadPaints, LoadSteps, LoadHolds
<1>2. UNCHANGED <<mode, store, lock, home>>
      BY DEF LoadPaints
<1>3. CASE LoadSteps(s, "populate", [Forgotten(Painted(r)) EXCEPT !.load = "arm"])
  <2> DEFINE q == [Forgotten(Painted(r)) EXCEPT !.load = "arm"]
  <2>1. Painted(r) \in ScreenRecords
        BY <1>1 DEF Painted, ScreenRecords
  <2>2. Forgotten(Painted(r)) \in ScreenRecords
        BY <2>1, HelpersKeep
  <2>3. q \in ScreenRecords
        BY <2>2 DEF ScreenRecords, LoadHolds
  <2>4. /\ q.at = r.at /\ q.load = "arm" /\ q.job = r.job
        /\ q.meta = r.meta /\ q.rows = r.rows /\ q.shown = r.rows /\ q.got = r.got
        BY <1>1 DEF Forgotten, Painted, ScreenRecords
  <2>5. LoadGoesOn(s, q)
        BY <1>1, <2>3, <2>4 DEF LoadGoesOn, ReadIsSound, Advances, ScreenRecords, LoadHolds
  <2> HIDE DEF q
  <2>6. Becomes(s, q)
        BY <1>3 DEF LoadSteps, q
  <2> QED BY <1>1, <1>2, <2>5, <2>6, LoadOn
<1>4. CASE LoadSteps(s, "populate", [r EXCEPT !.load = "arm"])
  <2> DEFINE q == [r EXCEPT !.load = "arm"]
  <2>1. q \in ScreenRecords
        BY <1>1 DEF ScreenRecords, LoadHolds
  <2>2. /\ q.at = r.at /\ q.load = "arm" /\ q.job = r.job
        /\ q.meta = r.meta /\ q.rows = r.rows /\ q.shown = r.shown /\ q.got = r.got
        BY <1>1 DEF ScreenRecords
  <2>3. LoadGoesOn(s, q)
        BY <1>1, <2>1, <2>2 DEF LoadGoesOn, ReadIsSound, Advances, ScreenRecords, LoadHolds
  <2> HIDE DEF q
  <2>4. Becomes(s, q)
        BY <1>4 DEF LoadSteps, q
  <2> QED BY <1>1, <1>2, <2>3, <2>4, LoadOn
<1>5. CASE LoadSteps(s, "arm", [Scheduled(r) EXCEPT !.load = "release"])
  <2> DEFINE p == Scheduled(r)
             q == [p EXCEPT !.load = "release"]
  <2>1. p \in ScreenRecords /\ SameReads(p, r) /\ p.job = r.job
        BY <1>1, ScheduledKeeps
  <2> HIDE DEF p
  <2>2. q \in ScreenRecords
        BY <2>1 DEF ScreenRecords, LoadHolds
  <2>3. /\ q.at = r.at /\ q.load = "release" /\ q.job = r.job
        /\ q.meta = r.meta /\ q.rows = r.rows /\ q.shown = r.shown /\ q.got = r.got
        BY <2>1 DEF SameReads, ScreenRecords
  <2>4. LoadGoesOn(s, q)
        BY <1>1, <2>2, <2>3 DEF LoadGoesOn, ReadIsSound, Advances, ScreenRecords, LoadHolds
  <2> HIDE DEF q
  <2>5. Becomes(s, q)
        BY <1>5 DEF LoadSteps, q, p
  <2> QED BY <1>1, <1>2, <2>4, <2>5, LoadOn
<1> QED BY <1>3, <1>4, <1>5 DEF LoadPaints

\* A release, of a load or of a job, with or without a last request.
LEMMA ReleaseStep ==
    ASSUME Inv, NEW s \in Screens,
           scr[s].load \in LoadHolds \/ scr[s].job # "none",
           NEW r \in ScreenRecords,
           r.load = "none" \/ scr[s].load # "none",
           r.at = scr[s].at, r.load \notin LoadHolds, r.job = "none",
           ReadIsSound(r), Advances(r, scr[s]),
           \/ Becomes(s, r) /\ lock' = Free
           \/ \E beat \in BOOLEAN : RefreshFrom(s, r, Free, beat),
           UNCHANGED <<mode, store, home>>
    PROVE  ScreenStep(s)
<1>1. CASE Becomes(s, r) /\ lock' = Free
  <2>1. Releases(s, r)
        BY <1>1 DEF Releases
  <2> QED BY <1>1, <2>1, StepOn
<1>2. ASSUME NEW beat \in BOOLEAN, RefreshFrom(s, r, Free, beat)
      PROVE  ScreenStep(s)
  <2>1. Free \in [held : BOOLEAN, rerun : BOOLEAN] /\ Asked(Free) = Free
    <3>1. Free.held = FALSE /\ Free.rerun = FALSE
          BY DEF Free
    <3>2. Free \in [held : BOOLEAN, rerun : BOOLEAN]
          BY DEF Free
    <3>3. [Free EXCEPT !.rerun = FALSE] = Free
          BY <3>1, <3>2
    <3> QED BY <3>1, <3>2, <3>3 DEF Asked
  <2>2. PICK q \in ScreenRecords :
           /\ Becomes(s, q) /\ SameReads(q, r)
           /\ \/ q.job = r.job /\ lock' \in {Free, Asked(Free)}
              \/ ~Free.held /\ q.job = "read" /\ lock' = Taken
        BY <1>2, <2>1, RequestsKeep
  <2>3. Releases(s, q)
        BY <2>1, <2>2 DEF Releases, SameReads
  <2>4. /\ q.at = scr[s].at /\ (q.load = "none" \/ scr[s].load # "none")
        /\ ReadIsSound(q) /\ Advances(q, scr[s])
        BY <2>2 DEF SameReads, ReadIsSound, Advances
  <2> QED BY <2>2, <2>3, <2>4, StepOn
<1> QED BY <1>1, <1>2

LEMMA LoadReleasesStep ==
    ASSUME Inv, NEW s \in Screens, LoadReleases(s)
    PROVE  ScreenStep(s)
<1> DEFINE r == [scr[s] EXCEPT !.load = "none", !.pending = FALSE, !.beat = FALSE]
<1>1. /\ scr[s] \in ScreenRecords /\ ReadIsSound(scr[s])
      /\ scr[s].load = "release" /\ scr[s].job = "none" /\ scr[s].beat \in BOOLEAN
      BY ScreenFacts DEF LoadReleases, LoadHolds, ScreenRecords
<1>2. r \in ScreenRecords
      BY <1>1 DEF ScreenRecords
<1>3. /\ r.at = scr[s].at /\ r.load = "none" /\ r.job = "none"
      /\ r.meta = scr[s].meta /\ r.rows = scr[s].rows
      /\ r.shown = scr[s].shown /\ r.got = scr[s].got
      BY <1>1 DEF ScreenRecords
<1>4. ReadIsSound(r) /\ Advances(r, scr[s]) /\ r.load \notin LoadHolds
      BY <1>1, <1>3 DEF ReadIsSound, Advances, ScreenRecords, LoadHolds
<1>5. /\ \/ Becomes(s, r) /\ lock' = Free
         \/ RefreshFrom(s, r, Free, scr[s].beat)
      /\ UNCHANGED <<mode, store, home>>
      BY DEF LoadReleases
<1> HIDE DEF r
<1>6. scr[s].load \in LoadHolds
      BY <1>1 DEF LoadHolds
<1> QED BY <1>1, <1>2, <1>3, <1>4, <1>5, <1>6, ReleaseStep

-----------------------------------------------------------------------------
(* The light job. *)

\* What a job that holds the lock may make of its screen.
JobGoesOn(s, q) ==
    /\ q \in ScreenRecords
    /\ q.at = scr[s].at /\ q.load = scr[s].load /\ q.job # "none"
    /\ ReadIsSound(q) /\ Advances(q, scr[s])

LEMMA JobOn ==
    ASSUME Inv, NEW s \in Screens, scr[s].job # "none",
           NEW q, Becomes(s, q), JobGoesOn(s, q),
           UNCHANGED <<mode, store, lock, home>>
    PROVE  ScreenStep(s)
<1>1. Keeps(s, q)
      BY DEF Keeps, JobGoesOn
<1>2. q.load = "none" \/ scr[s].load # "none"
      BY DEF JobGoesOn
<1> QED BY <1>1, <1>2, StepOn DEF JobGoesOn

\* A job may take all its screen has read up to the store of now.
LEMMA JobReads ==
    ASSUME Inv, NEW s \in Screens, scr[s].job # "none",
           NEW q \in ScreenRecords,
           q.at = scr[s].at, q.load = scr[s].load, q.job # "none",
           q.meta \in {scr[s].meta, Now}, q.rows \in {scr[s].rows, Now},
           q.shown \in {scr[s].shown, scr[s].rows}, q.got \in {scr[s].got, scr[s].meta, Now, 0}
    PROVE  JobGoesOn(s, q)
<1>1. /\ scr[s] \in ScreenRecords /\ ReadIsSound(scr[s]) /\ Now \in Nat
      /\ scr[s].load \notin LoadHolds
      BY ScreenFacts
<1>2. /\ scr[s].meta \in Nat /\ scr[s].rows \in Nat /\ scr[s].shown \in Nat /\ scr[s].got \in Nat
      /\ q.load # "page"
      BY <1>1 DEF ScreenRecords, LoadHolds
<1>3. ReadIsSound(q) /\ Advances(q, scr[s])
      BY <1>1, <1>2 DEF ReadIsSound, Advances
<1> QED BY <1>3 DEF JobGoesOn

LEMMA JobReadsOverviewStep ==
    ASSUME Inv, NEW s \in Screens, JobReadsOverview(s)
    PROVE  ScreenStep(s)
<1>1. scr[s] \in ScreenRecords /\ Now \in Nat /\ scr[s].job = "read"
      BY ScreenFacts DEF JobReadsOverview, JobSteps
<1>2. UNCHANGED <<mode, store, lock, home>>
      BY DEF JobReadsOverview
<1> DEFINE r == [scr[s] EXCEPT !.meta = Now, !.seen = Now]
<1>3. /\ r \in ScreenRecords /\ r.at = scr[s].at /\ r.load = scr[s].load
      /\ r.meta = Now /\ r.rows = scr[s].rows /\ r.shown = scr[s].shown /\ r.got = scr[s].got
      BY <1>1 DEF ScreenRecords
<1>4. PICK j \in {"paint", "done"} : JobEnds(r, FALSE, scr[s].meta) = j
      BY DEF JobEnds
<1>5. Becomes(s, [r EXCEPT !.job = j]) \/ Becomes(s, [r EXCEPT !.job = "grow", !.got = scr[s].meta])
      BY <1>4 DEF JobReadsOverview, JobSteps
<1> HIDE DEF r
<1>6. CASE Becomes(s, [r EXCEPT !.job = j])
  <2> DEFINE q == [r EXCEPT !.job = j]
  <2>1. q \in ScreenRecords
        BY <1>3 DEF ScreenRecords
  <2>2. /\ q.at = scr[s].at /\ q.load = scr[s].load /\ q.job = j /\ q.job # "none"
        /\ q.meta = Now /\ q.rows = scr[s].rows /\ q.shown = scr[s].shown /\ q.got = scr[s].got
        BY <1>3 DEF ScreenRecords
  <2> HIDE DEF q
  <2>3. JobGoesOn(s, q)
        BY <1>1, <2>1, <2>2, JobReads
  <2> QED BY <1>1, <1>2, <1>6, <2>3, JobOn DEF q
<1>7. CASE Becomes(s, [r EXCEPT !.job = "grow", !.got = scr[s].meta])
  <2> DEFINE q == [r EXCEPT !.job = "grow", !.got = scr[s].meta]
  <2>1. q \in ScreenRecords
        BY <1>1, <1>3 DEF ScreenRecords
  <2>2. /\ q.at = scr[s].at /\ q.load = scr[s].load /\ q.job # "none"
        /\ q.meta = Now /\ q.rows = scr[s].rows /\ q.shown = scr[s].shown /\ q.got = scr[s].meta
        BY <1>3 DEF ScreenRecords
  <2> HIDE DEF q
  <2>3. JobGoesOn(s, q)
        BY <1>1, <2>1, <2>2, JobReads
  <2> QED BY <1>1, <1>2, <1>7, <2>3, JobOn DEF q
<1> QED BY <1>5, <1>6, <1>7

LEMMA JobFetchesGrowthStep ==
    ASSUME Inv, NEW s \in Screens, JobFetchesGrowth(s)
    PROVE  ScreenStep(s)
<1>1. scr[s] \in ScreenRecords /\ Now \in Nat /\ scr[s].job # "none"
      BY ScreenFacts DEF JobFetchesGrowth, JobSteps
<1> DEFINE q == [scr[s] EXCEPT !.rows = Now, !.job = "paint", !.got = 0]
<1>2. q \in ScreenRecords
      BY <1>1 DEF ScreenRecords
<1>3. /\ q.at = scr[s].at /\ q.load = scr[s].load /\ q.job # "none"
      /\ q.meta = scr[s].meta /\ q.rows = Now /\ q.shown = scr[s].shown /\ q.got = 0
      BY <1>1 DEF ScreenRecords
<1>4. Becomes(s, q) /\ UNCHANGED <<mode, store, lock, home>>
      BY DEF JobFetchesGrowth, JobSteps
<1> HIDE DEF q
<1>5. JobGoesOn(s, q)
      BY <1>1, <1>2, <1>3, JobReads
<1> QED BY <1>1, <1>4, <1>5, JobOn

LEMMA JobReadsDiskStep ==
    ASSUME Inv, NEW s \in Screens, JobReadsDisk(s)
    PROVE  ScreenStep(s)
<1> DEFINE r == scr[s]
<1>1. r \in ScreenRecords /\ Now \in Nat /\ r.job # "none"
      BY ScreenFacts DEF JobReadsDisk, JobSteps
<1>2. UNCHANGED <<mode, store, lock, home>>
      BY DEF JobReadsDisk
<1>3. CASE Becomes(s, [r EXCEPT !.job = "parse", !.got = Now])
  <2> DEFINE q == [r EXCEPT !.job = "parse", !.got = Now]
  <2>1. q \in ScreenRecords
        BY <1>1 DEF ScreenRecords
  <2>2. /\ q.at = r.at /\ q.load = r.load /\ q.job # "none"
        /\ q.meta = r.meta /\ q.rows = r.rows /\ q.shown = r.shown /\ q.got = Now
        BY <1>1 DEF ScreenRecords
  <2> HIDE DEF q
  <2>3. JobGoesOn(s, q)
        BY <1>1, <2>1, <2>2, JobReads
  <2> QED BY <1>1, <1>2, <1>3, <2>3, JobOn DEF q
<1>4. ASSUME NEW j \in {"meta", "done"}, Becomes(s, [r EXCEPT !.job = j])
      PROVE  ScreenStep(s)
  <2> DEFINE q == [r EXCEPT !.job = j]
  <2>1. q \in ScreenRecords
        BY <1>1 DEF ScreenRecords
  <2>2. /\ q.at = r.at /\ q.load = r.load /\ q.job # "none"
        /\ q.meta = r.meta /\ q.rows = r.rows /\ q.shown = r.shown /\ q.got = r.got
        BY <1>1 DEF ScreenRecords
  <2> HIDE DEF q
  <2>3. JobGoesOn(s, q)
        BY <1>1, <2>1, <2>2, JobReads
  <2> QED BY <1>1, <1>2, <1>4, <2>3, JobOn DEF q
<1>5. CASE Becomes(s, [r EXCEPT !.job = "meta", !.rows = Now, !.seen = r.got, !.got = 0])
  <2> DEFINE q == [r EXCEPT !.job = "meta", !.rows = Now, !.seen = r.got, !.got = 0]
  <2>1. q \in ScreenRecords
        BY <1>1 DEF ScreenRecords
  <2>2. /\ q.at = r.at /\ q.load = r.load /\ q.job # "none"
        /\ q.meta = r.meta /\ q.rows = Now /\ q.shown = r.shown /\ q.got = 0
        BY <1>1 DEF ScreenRecords
  <2> HIDE DEF q
  <2>3. JobGoesOn(s, q)
        BY <1>1, <2>1, <2>2, JobReads
  <2> QED BY <1>1, <1>2, <1>5, <2>3, JobOn DEF q
<1>6. CASE Becomes(s, [r EXCEPT !.job = "paint", !.meta = Now])
  <2> DEFINE q == [r EXCEPT !.job = "paint", !.meta = Now]
  <2>1. q \in ScreenRecords
        BY <1>1 DEF ScreenRecords
  <2>2. /\ q.at = r.at /\ q.load = r.load /\ q.job # "none"
        /\ q.meta = Now /\ q.rows = r.rows /\ q.shown = r.shown /\ q.got = r.got
        BY <1>1 DEF ScreenRecords
  <2> HIDE DEF q
  <2>3. JobGoesOn(s, q)
        BY <1>1, <2>1, <2>2, JobReads
  <2> QED BY <1>1, <1>2, <1>6, <2>3, JobOn DEF q
<1>7. \/ Becomes(s, [r EXCEPT !.job = "parse", !.got = Now])
      \/ \E j \in {"meta", "done"} : Becomes(s, [r EXCEPT !.job = j])
      \/ Becomes(s, [r EXCEPT !.job = "meta", !.rows = Now, !.seen = r.got, !.got = 0])
      \/ Becomes(s, [r EXCEPT !.job = "paint", !.meta = Now])
      BY DEF JobReadsDisk, JobSteps
<1> QED BY <1>3, <1>4, <1>5, <1>6, <1>7

LEMMA FingerprintKept ==
    ASSUME NEW r \in ScreenRecords, NEW f \in {<<>>} \union (Nat \X BOOLEAN)
    PROVE  [r EXCEPT !.job = "done", !.fp = f] \in ScreenRecords
BY DEF ScreenRecords

LEMMA JobPaintsStep ==
    ASSUME Inv, NEW s \in Screens, JobPaints(s)
    PROVE  ScreenStep(s)
<1>1. scr[s] \in ScreenRecords /\ Now \in Nat /\ scr[s].job # "none" /\ scr[s].rows \in Nat
      BY ScreenFacts DEF JobPaints, JobSteps, ScreenRecords
<1>2. UNCHANGED <<mode, store, lock, home>>
      BY DEF JobPaints
<1> DEFINE fp == <<scr[s].rows, Live(scr[s].meta)>>
           r == [scr[s] EXCEPT !.job = "done", !.fp = fp]
           p == Probed(Forgotten(r))
           d == [scr[s] EXCEPT !.job = "done"]
<1>3. /\ r \in ScreenRecords
      /\ r.at = scr[s].at /\ r.load = scr[s].load /\ r.job = "done"
      /\ r.meta = scr[s].meta /\ r.rows = scr[s].rows /\ r.shown = scr[s].shown /\ r.got = scr[s].got
  <2>1. Live(scr[s].meta) \in BOOLEAN
        BY DEF Live
  <2>2. fp \in Nat \X BOOLEAN
        BY <1>1, <2>1
  <2> HIDE DEF fp
  <2>3. r \in ScreenRecords
        BY <1>1, <2>2, FingerprintKept
  <2> QED BY <1>1, <2>3 DEF ScreenRecords
<1>4. /\ d \in ScreenRecords
      /\ d.at = scr[s].at /\ d.load = scr[s].load /\ d.job = "done"
      /\ d.meta = scr[s].meta /\ d.rows = scr[s].rows /\ d.shown = scr[s].shown /\ d.got = scr[s].got
      BY <1>1 DEF ScreenRecords
<1> HIDE DEF r
<1>5. p \in ScreenRecords /\ SameReads(p, r) /\ p.job = r.job
  <2>1. Forgotten(r) \in ScreenRecords /\ SameReads(Forgotten(r), r) /\ Forgotten(r).job = r.job
        BY <1>3, HelpersKeep
  <2> QED BY <2>1, HelpersKeep DEF SameReads
<1>6. \E q \in {r, p} : Becomes(s, d) \/ Becomes(s, q) \/ Becomes(s, Painted(q))
      BY DEF JobPaints, JobSteps, r
<1> HIDE DEF p, d
<1>7. PICK q \in {r, p} : Becomes(s, d) \/ Becomes(s, q) \/ Becomes(s, Painted(q))
      BY <1>6
<1>8. /\ q \in ScreenRecords
      /\ q.at = scr[s].at /\ q.load = scr[s].load /\ q.job = "done"
      /\ q.meta = scr[s].meta /\ q.rows = scr[s].rows /\ q.shown = scr[s].shown /\ q.got = scr[s].got
      BY <1>3, <1>5, <1>7 DEF SameReads
<1>9. /\ Painted(q) \in ScreenRecords
      /\ Painted(q).at = scr[s].at /\ Painted(q).load = scr[s].load /\ Painted(q).job = "done"
      /\ Painted(q).meta = scr[s].meta /\ Painted(q).rows = scr[s].rows
      /\ Painted(q).shown = scr[s].rows /\ Painted(q).got = scr[s].got
      BY <1>8 DEF Painted, ScreenRecords
<1>10. JobGoesOn(s, d) /\ JobGoesOn(s, q) /\ JobGoesOn(s, Painted(q))
      BY <1>1, <1>4, <1>8, <1>9, JobReads
<1> QED BY <1>1, <1>2, <1>7, <1>10, JobOn

LEMMA JobReleasesStep ==
    ASSUME Inv, NEW s \in Screens, JobReleases(s)
    PROVE  ScreenStep(s)
<1> DEFINE r == [scr[s] EXCEPT !.job = "none", !.pending = FALSE, !.beat = FALSE]
<1>1. /\ scr[s] \in ScreenRecords /\ ReadIsSound(scr[s])
      /\ scr[s].job # "none" /\ scr[s].load \notin LoadHolds /\ scr[s].beat \in BOOLEAN
      BY ScreenFacts DEF JobReleases, ScreenRecords
<1>2. r \in ScreenRecords
      BY <1>1 DEF ScreenRecords
<1>3. /\ r.at = scr[s].at /\ r.load = scr[s].load /\ r.job = "none"
      /\ r.meta = scr[s].meta /\ r.rows = scr[s].rows
      /\ r.shown = scr[s].shown /\ r.got = scr[s].got
      BY <1>1 DEF ScreenRecords
<1>4. /\ UNCHANGED <<mode, store, home>>
      /\ \/ (Becomes(s, r) \/ Becomes(s, Deferred(r))) /\ lock' = Free
         \/ RefreshFrom(s, r, Free, scr[s].beat)
      BY DEF JobReleases
<1> HIDE DEF r
<1>5. Deferred(r) \in ScreenRecords /\ SameReads(Deferred(r), r) /\ Deferred(r).job = r.job
      BY <1>2, HelpersKeep
<1>6. ReadIsSound(r) /\ Advances(r, scr[s])
      BY <1>1, <1>3 DEF ReadIsSound, Advances, ScreenRecords
<1>7. ReadIsSound(Deferred(r)) /\ Advances(Deferred(r), scr[s])
      BY <1>5, <1>6 DEF ReadIsSound, Advances, SameReads
<1>8. CASE Becomes(s, r) /\ lock' = Free
      BY <1>1, <1>2, <1>3, <1>4, <1>6, <1>8, ReleaseStep
<1>9. CASE Becomes(s, Deferred(r)) /\ lock' = Free
  <2>1. /\ Deferred(r).at = scr[s].at /\ Deferred(r).load = scr[s].load
        /\ Deferred(r).job = "none"
        BY <1>3, <1>5 DEF SameReads
  <2> QED BY <1>1, <1>4, <1>5, <1>7, <1>9, <2>1, ReleaseStep
<1>10. CASE RefreshFrom(s, r, Free, scr[s].beat)
      BY <1>1, <1>2, <1>3, <1>4, <1>6, <1>10, ReleaseStep
<1> QED BY <1>4, <1>8, <1>9, <1>10

-----------------------------------------------------------------------------
(* The operator, and a read that fails. *)

LEMMA OpenStep ==
    ASSUME Inv, NEW s \in Screens, Open(s)
    PROVE  ScreenStep(s)
<1> DEFINE q == [scr[s] EXCEPT !.at = "open", !.load = "begin"]
<1>1. scr[s] \in ScreenRecords /\ ReadIsSound(scr[s]) /\ scr[s].load = "none"
      BY ScreenFacts DEF Open
<1>2. q \in ScreenRecords
      BY <1>1 DEF ScreenRecords
<1>3. /\ q.at = "open" /\ q.load = "begin" /\ q.job = scr[s].job
      /\ q.meta = scr[s].meta /\ q.rows = scr[s].rows
      /\ q.shown = scr[s].shown /\ q.got = scr[s].got
      BY <1>1 DEF ScreenRecords
<1>4. Becomes(s, q) /\ UNCHANGED <<mode, store, lock, home>>
      BY DEF Open
<1> HIDE DEF q
<1>5. Keeps(s, q)
      BY <1>1, <1>3, <1>4 DEF Keeps, LoadHolds
<1>6. ReadIsSound(q) /\ Advances(q, scr[s])
      BY <1>1, <1>3 DEF ReadIsSound, Advances, ScreenRecords
<1> QED BY <1>2, <1>3, <1>4, <1>5, <1>6 DEF ScreenStep, TurnsInto, Inv, Shape

LEMMA CloseStep ==
    ASSUME Inv, NEW s \in Screens, Close(s)
    PROVE  ScreenStep(s)
<1> DEFINE q == [scr[s] EXCEPT !.at = "closed", !.hot = FALSE, !.recheck = FALSE,
                               !.deferred = FALSE]
<1>1. scr[s] \in ScreenRecords /\ ReadIsSound(scr[s])
      BY ScreenFacts
<1>2. q \in ScreenRecords
      BY <1>1 DEF ScreenRecords
<1>3. /\ q.at = "closed" /\ q.load = scr[s].load /\ q.job = scr[s].job
      /\ q.meta = scr[s].meta /\ q.rows = scr[s].rows
      /\ q.shown = scr[s].shown /\ q.got = scr[s].got
      BY <1>1 DEF ScreenRecords
<1>4. Becomes(s, q) /\ UNCHANGED <<mode, store, lock, home>>
      BY DEF Close, Happens
<1> HIDE DEF q
<1>5. Keeps(s, q)
      BY <1>3, <1>4 DEF Keeps
<1>6. ReadIsSound(q) /\ Advances(q, scr[s])
      BY <1>1, <1>3 DEF ReadIsSound, Advances, ScreenRecords
<1> QED BY <1>2, <1>3, <1>4, <1>5, <1>6 DEF ScreenStep, TurnsInto, Inv, Shape

LEMMA SwitchTabStep ==
    ASSUME Inv, NEW s \in Screens, SwitchTab(s)
    PROVE  ScreenStep(s)
<1>1. scr[s] \in ScreenRecords
      BY ScreenFacts
<1>2. PICK t \in {"timeline", "other"} : Becomes(s, [scr[s] EXCEPT !.tab = t])
      BY DEF SwitchTab
<1> DEFINE q == [scr[s] EXCEPT !.tab = t]
<1>3. q \in ScreenRecords /\ SameReads(q, scr[s]) /\ q.job = scr[s].job
      BY <1>1 DEF SameReads, ScreenRecords
<1>4. lock' = lock /\ UNCHANGED <<mode, store, home>>
      BY DEF SwitchTab, Happens
<1> HIDE DEF q
<1> QED BY <1>2, <1>3, <1>4, QuietStep DEF q

LEMMA ReloadStep ==
    ASSUME Inv, NEW s \in Screens, Reload(s)
    PROVE  ScreenStep(s)
<1>1. scr[s] \in ScreenRecords /\ ReadIsSound(scr[s])
      BY ScreenFacts
<1>2. UNCHANGED <<mode, store, home>>
      BY DEF Reload, Happens
<1>3. CASE scr[s].load = "none" /\ Becomes(s, [scr[s] EXCEPT !.load = "begin"]) /\ lock' = lock
  <2> DEFINE q == [scr[s] EXCEPT !.load = "begin"]
  <2>1. q \in ScreenRecords
        BY <1>1 DEF ScreenRecords
  <2>2. /\ q.at = scr[s].at /\ q.load = "begin" /\ q.job = scr[s].job
        /\ q.meta = scr[s].meta /\ q.rows = scr[s].rows
        /\ q.shown = scr[s].shown /\ q.got = scr[s].got
        BY <1>1 DEF ScreenRecords
  <2>3. q.at # "unopened"
        BY <2>2 DEF Reload, Top
  <2> HIDE DEF q
  <2>4. Keeps(s, q)
        BY <1>3, <2>2 DEF Keeps, LoadHolds
  <2>5. ReadIsSound(q) /\ Advances(q, scr[s])
        BY <1>1, <2>2 DEF ReadIsSound, Advances, ScreenRecords
  <2> QED BY <1>2, <1>3, <2>1, <2>3, <2>4, <2>5 DEF ScreenStep, TurnsInto, Inv, Shape, q
<1>4. CASE lock' = Asked(lock) /\ UNCHANGED scr
  <2>1. Becomes(s, scr[s]) /\ SameReads(scr[s], scr[s])
        BY <1>4 DEF Becomes, SameReads, Inv, Shape
  <2> QED BY <1>1, <1>2, <1>4, <2>1, QuietStep
<1> QED BY <1>3, <1>4 DEF Reload

LEMMA ReadFailsStep ==
    ASSUME Inv, NEW s \in Screens, ReadFails(s)
    PROVE  ScreenStep(s)
<1>1. scr[s] \in ScreenRecords /\ ReadIsSound(scr[s]) /\ Now \in Nat
      BY ScreenFacts
<1>2. UNCHANGED <<mode, store, lock, home>>
      BY DEF ReadFails, Happens
<1>3. CASE scr[s].load \in LoadHolds /\ Becomes(s, [scr[s] EXCEPT !.load = "release", !.got = 0])
  <2> DEFINE q == [scr[s] EXCEPT !.load = "release", !.got = 0]
  <2>1. q \in ScreenRecords
        BY <1>1 DEF ScreenRecords, LoadHolds
  <2>2. /\ q.at = scr[s].at /\ q.load = "release" /\ q.job = scr[s].job
        /\ q.meta = scr[s].meta /\ q.rows = scr[s].rows
        /\ q.shown = scr[s].shown /\ q.got = 0
        BY <1>1 DEF ScreenRecords
  <2> HIDE DEF q
  <2>3. LoadGoesOn(s, q)
        BY <1>1, <2>1, <2>2 DEF LoadGoesOn, ReadIsSound, Advances, ScreenRecords, LoadHolds
  <2> QED BY <1>2, <1>3, <2>3, LoadOn DEF q
<1>4. CASE scr[s].job # "none" /\ Becomes(s, [scr[s] EXCEPT !.job = "done", !.got = 0])
  <2> DEFINE q == [scr[s] EXCEPT !.job = "done", !.got = 0]
  <2>1. q \in ScreenRecords
        BY <1>1 DEF ScreenRecords
  <2>2. /\ q.at = scr[s].at /\ q.load = scr[s].load /\ q.job # "none"
        /\ q.meta = scr[s].meta /\ q.rows = scr[s].rows
        /\ q.shown = scr[s].shown /\ q.got = 0
        BY <1>1 DEF ScreenRecords
  <2> HIDE DEF q
  <2>3. JobGoesOn(s, q)
        BY <1>4, <2>1, <2>2, JobReads
  <2> QED BY <1>2, <1>4, <2>3, JobOn DEF q
<1> QED BY <1>3, <1>4 DEF ReadFails, LoadHolds

-----------------------------------------------------------------------------
(* The home list's heartbeat, and the agent. *)

LEMMA HomeTurns ==
    /\ \A h \in [pc : {"idle", "begin", "refused", "held", "apply"}, rerun : BOOLEAN] :
          \A pc \in {"begin", "refused"} :
             [h EXCEPT !.pc = pc] \in [pc : {"idle", "begin", "refused", "held", "apply"}, rerun : BOOLEAN]
    /\ [pc |-> "apply", rerun |-> FALSE]
          \in [pc : {"idle", "begin", "refused", "held", "apply"}, rerun : BOOLEAN]
OBVIOUS

\* The heartbeat takes the lock, or gives it up, and no screen changes.
LEMMA HeartbeatStep ==
    ASSUME Inv, HomeTicks \/ HomeBegins \/ HomeLeaves
    PROVE  Inv'
<1>1. UNCHANGED <<mode, store, scr>>
      BY DEF HomeTicks, HomeBegins, HomeLeaves
<1>2. ReadsInv'
      BY <1>1 DEF Inv, ReadsInv, ReadIsSound, Now
<1>3. \A p : p # <<"home">> => (p \in Holders' <=> p \in Holders)
      BY <1>1, HolderIs, HolderIsNext
<1>4. /\ <<"home">> \in Holders <=> home.pc = "held"
      /\ <<"home">> \in Holders' <=> home'.pc = "held"
      BY HolderIs, HolderIsNext
<1>5. \A s \in Screens : scr'[s].at = "unopened" => scr'[s].load = "none"
      BY <1>1 DEF Inv, LockInv
<1>6. /\ lock \in [held : BOOLEAN, rerun : BOOLEAN]
      /\ home \in [pc : {"idle", "begin", "refused", "held", "apply"}, rerun : BOOLEAN]
      BY DEF Inv, Shape
<1>7. CASE HomeTicks \/ (HomeBegins /\ ~MayBegin(lock)) \/ (HomeLeaves /\ home.pc = "refused")
  <2>1. home.pc # "held" /\ home'.pc # "held"
        BY <1>6, <1>7 DEF HomeTicks, HomeBegins, HomeLeaves
  <2>2. home' \in [pc : {"idle", "begin", "refused", "held", "apply"}, rerun : BOOLEAN]
    <3>1. \/ \E pc \in {"begin", "refused"} : home' = [home EXCEPT !.pc = pc]
          \/ home' = [pc |-> "apply", rerun |-> FALSE]
          BY <1>7 DEF HomeTicks, HomeBegins, HomeLeaves
    <3>2. ASSUME NEW pc \in {"begin", "refused"}, home' = [home EXCEPT !.pc = pc]
          PROVE  home' \in [pc : {"idle", "begin", "refused", "held", "apply"}, rerun : BOOLEAN]
          BY <1>6, <3>2, HomeTurns, Zenon
    <3>3. CASE home' = [pc |-> "apply", rerun |-> FALSE]
          BY <3>3, HomeTurns
    <3> QED BY <3>1, <3>2, <3>3
  <2>3. lock' \in {lock, Asked(lock)}
        BY <1>7 DEF HomeTicks, HomeBegins, HomeLeaves
  <2>4. /\ lock' \in [held : BOOLEAN, rerun : BOOLEAN]
        /\ lock'.held = lock.held /\ (lock'.rerun => lock.held)
        BY <1>6, <2>3 DEF Asked, Inv, LockInv
  <2>5. Holders' = Holders
        BY <1>3, <1>4, <2>1
  <2>6. LockInv'
        BY <1>5, <2>4, <2>5 DEF Inv, LockInv
  <2> QED BY <1>1, <1>2, <2>2, <2>4, <2>6 DEF Inv, Shape
<1>8. CASE HomeBegins /\ MayBegin(lock)
  <2>1. home' = [home EXCEPT !.pc = "held"] /\ lock' = Taken /\ ~lock.held
        BY <1>8 DEF HomeBegins, MayBegin
  <2>2. home' \in [pc : {"idle", "begin", "refused", "held", "apply"}, rerun : BOOLEAN]
        /\ home'.pc = "held"
        BY <1>6, <2>1
  <2>3. /\ lock' \in [held : BOOLEAN, rerun : BOOLEAN]
        /\ lock'.held /\ ~lock'.rerun
        BY <2>1 DEF Taken
  <2>4. Holders = {}
        BY <2>1 DEF Inv, LockInv
  <2>5. Holders' = {<<"home">>}
        BY <1>3, <1>4, <2>2, <2>4
  <2>6. LockInv'
        BY <1>5, <2>3, <2>5 DEF LockInv
  <2> QED BY <1>1, <1>2, <2>2, <2>3, <2>6 DEF Inv, Shape
<1>9. CASE HomeLeaves /\ home.pc = "held"
  <2>1. home' = [pc |-> "apply", rerun |-> lock.rerun] /\ lock' = Free
        BY <1>9 DEF HomeLeaves
  <2>2. home' \in [pc : {"idle", "begin", "refused", "held", "apply"}, rerun : BOOLEAN]
        /\ home'.pc # "held"
        BY <1>6, <2>1
  <2>3. /\ lock' \in [held : BOOLEAN, rerun : BOOLEAN]
        /\ ~lock'.held /\ ~lock'.rerun
        BY <2>1 DEF Free
  <2>4. Holders \subseteq {<<"home">>}
        BY <1>4, <1>9 DEF Inv, LockInv
  <2>5. Holders' = {}
        BY <1>3, <1>4, <2>2, <2>4
  <2>6. LockInv'
        BY <1>5, <2>3, <2>5 DEF LockInv
  <2> QED BY <1>1, <1>2, <2>2, <2>3, <2>6 DEF Inv, Shape
<1> QED BY <1>7, <1>8, <1>9 DEF HomeBegins, HomeLeaves

\* What the heartbeat found is handed to the screen on top, or dropped.
LEMMA HomeAppliesStep ==
    ASSUME Inv, HomeApplies
    PROVE  \/ \E s \in Screens : ScreenStep(s)
           \/ Inv' /\ UNCHANGED scr
<1>1. /\ home \in [pc : {"idle", "begin", "refused", "held", "apply"}, rerun : BOOLEAN]
      /\ home' = [pc |-> "idle", rerun |-> FALSE]
      /\ home.pc = "apply"
      BY DEF HomeApplies, Inv, Shape
<1>2. /\ home' \in [pc : {"idle", "begin", "refused", "held", "apply"}, rerun : BOOLEAN]
      /\ home'.pc # "held"
      BY <1>1
<1>3. UNCHANGED <<mode, store>>
      BY DEF HomeApplies
<1>4. ASSUME NEW s \in Screens, RefreshFrom(s, scr[s], lock, TRUE)
      PROVE  ScreenStep(s)
  <2>1. scr[s] \in ScreenRecords /\ SameReads(scr[s], scr[s])
        BY ScreenFacts DEF SameReads
  <2> QED BY <1>1, <1>2, <1>3, <1>4, <2>1, RequestStep
<1>5. CASE UNCHANGED <<scr, lock>>
  <2>1. \A p : p \in Holders' <=> p \in Holders
        BY <1>1, <1>2, <1>5, HolderIs, HolderIsNext
  <2>2. Holders' = Holders
        BY <2>1
  <2>3. LockInv'
        BY <1>5, <2>2 DEF Inv, LockInv
  <2>4. ReadsInv'
        BY <1>3, <1>5 DEF Inv, ReadsInv, ReadIsSound, Now
  <2>5. Shape'
        BY <1>2, <1>3, <1>5 DEF Inv, Shape
  <2> QED BY <1>5, <2>3, <2>4, <2>5 DEF Inv
<1> QED BY <1>4, <1>5 DEF HomeApplies

\* The store only grows, and the screens know nothing of it yet.
LEMMA AgentStep ==
    ASSUME Inv, AgentWrites
    PROVE  Inv'
<1>1. UNCHANGED <<mode, scr, lock, home>>
      BY DEF AgentWrites
<1>2. PICK open \in BOOLEAN : store' = Append(store, open)
      BY DEF AgentWrites
<1>3. store' \in Seq(BOOLEAN) /\ Len(store') = Len(store) + 1 /\ Len(store) \in Nat
      BY <1>2 DEF Inv, Shape
<1>4. LockInv'
      BY <1>1 DEF Inv, LockInv, Holders
<1>5. ReadsInv'
  <2> SUFFICES ASSUME NEW s \in Screens PROVE ReadIsSound(scr[s])'
      BY DEF ReadsInv
  <2>1. ReadIsSound(scr[s]) /\ scr[s] \in ScreenRecords
        BY DEF Inv, ReadsInv, Shape
  <2>2. scr[s].meta \in Nat /\ scr[s].rows \in Nat /\ scr[s].got \in Nat
        BY <2>1 DEF ScreenRecords
  <2> QED BY <1>1, <1>3, <2>1, <2>2 DEF ReadIsSound, Now
<1> QED BY <1>1, <1>3, <1>4, <1>5 DEF Inv, Shape

-----------------------------------------------------------------------------
(* The theorems. *)

LEMMA InvInitially == Init => Inv
<1> SUFFICES ASSUME Init PROVE Inv
    OBVIOUS
<1>1. NewScreen \in ScreenRecords
      BY DEF NewScreen, ScreenRecords
<1>2. /\ NewScreen.load = "none" /\ NewScreen.job = "none"
      /\ NewScreen.meta = 0 /\ NewScreen.rows = 0 /\ NewScreen.shown = 0 /\ NewScreen.got = 0
      BY DEF NewScreen
<1>3. scr = [s \in Screens |-> NewScreen] /\ lock = Free /\ home = [pc |-> "idle", rerun |-> FALSE]
      BY DEF Init
<1>4. store \in Seq(BOOLEAN)
  <2>1. store \in {<<TRUE>>, <<FALSE>>}
        BY DEF Init
  <2>2. \A b \in BOOLEAN : <<b>> \in Seq(BOOLEAN)
        OBVIOUS
  <2> QED BY <2>1, <2>2
<1> HIDE DEF NewScreen
<1>5. Shape
      BY <1>1, <1>3, <1>4 DEF Shape, Free
<1>6. \A p : p \notin Holders
      BY <1>2, <1>3, HolderIs DEF LoadHolds
<1>7. LockInv
      BY <1>2, <1>3, <1>6 DEF LockInv, Free
<1>8. ReadsInv
  <2>1. Now \in Nat
        BY <1>4 DEF Now
  <2> QED BY <1>2, <1>3, <2>1 DEF ReadsInv, ReadIsSound
<1> QED BY <1>5, <1>7, <1>8 DEF Inv

\* Every step is one of a screen, or leaves the screens alone.
LEMMA EachStep ==
    ASSUME Inv, [Next]_vars
    PROVE  \/ \E s \in Screens : ScreenStep(s)
           \/ Inv' /\ UNCHANGED scr
<1>1. CASE UNCHANGED vars
  <2>1. UNCHANGED <<mode, store, events, scr, lock, home>>
        BY <1>1 DEF vars
  <2>2. Holders' = Holders
        BY <2>1 DEF Holders
  <2> QED BY <2>1, <2>2 DEF Inv, Shape, LockInv, ReadsInv, ReadIsSound, Now
<1>2. ASSUME NEW s \in Screens, ScreenSteps(s)
      PROVE  ScreenStep(s)
  <2>1. CASE SnapshotTick(s) \/ HeartbeatTick(s)
        BY <2>1, TimerSteps
  <2>2. CASE DeferredFires(s)
        BY <2>2, DeferredStep
  <2>3. CASE RecheckTick(s)
        BY <2>3, RecheckStep
  <2>4. CASE GapPasses(s)
        BY <2>4, GapStep
  <2>5. CASE LoadThread(s)
        BY <2>5, LoadBeginsStep, LoadAsksStep, LoadReadsStep, LoadCommitsStep,
           LoadPaintsStep, LoadReleasesStep DEF LoadThread
  <2>6. CASE JobThread(s)
        BY <2>6, JobReadsOverviewStep, JobFetchesGrowthStep, JobReadsDiskStep,
           JobPaintsStep, JobReleasesStep DEF JobThread
  <2> QED BY <1>2, <2>1, <2>2, <2>3, <2>4, <2>5, <2>6 DEF ScreenSteps
<1>3. ASSUME NEW s \in Screens,
             Signal(s) \/ Open(s) \/ Close(s) \/ Reload(s) \/ SwitchTab(s) \/ ReadFails(s)
      PROVE  ScreenStep(s)
      BY <1>3, TimerSteps, OpenStep, CloseStep, ReloadStep, SwitchTabStep, ReadFailsStep
<1>4. CASE HomeTicks \/ HomeThread
  <2>1. CASE HomeTicks \/ HomeBegins \/ HomeLeaves
        BY <2>1, HeartbeatStep DEF HomeTicks, HomeBegins, HomeLeaves
  <2>2. CASE HomeApplies
        BY <2>2, HomeAppliesStep
  <2> QED BY <1>4, <2>1, <2>2 DEF HomeThread
<1>5. CASE AgentWrites
      BY <1>5, AgentStep DEF AgentWrites
<1> QED BY <1>1, <1>2, <1>3, <1>4, <1>5 DEF Next

LEMMA InvStep ==
    ASSUME Inv, [Next]_vars
    PROVE  Inv' /\ \A s \in Screens : Advances(scr'[s], scr[s])
<1>1. CASE Inv' /\ UNCHANGED scr
  <2>1. \A s \in Screens : scr[s].meta \in Nat /\ scr[s].rows \in Nat /\ scr[s].shown \in Nat
        BY DEF Inv, Shape, ScreenRecords
  <2> QED BY <1>1, <2>1 DEF Advances
<1>2. ASSUME NEW s \in Screens, ScreenStep(s)
      PROVE  Inv' /\ \A t \in Screens : Advances(scr'[t], scr[t])
      BY <1>2, ScreenStepKeeps
<1> QED BY <1>1, <1>2, EachStep

LEMMA InvAlways == Spec => []Inv
<1>1. Inv /\ [Next]_vars => Inv'
      BY InvStep
<1> QED BY <1>1, InvInitially, PTL DEF Spec

\* A session is refreshed by one thread at a time, and its lock is held exactly
\* while one of them has yet to release it (anqa/session_inflight.py).
THEOREM OneRefreshAtATime == Spec => []HeldByOne
<1>1. Inv => HeldByOne
  <2> SUFFICES ASSUME Inv PROVE HeldByOne
      OBVIOUS
  <2>1. Cardinality(Holders) <= 1
    <3>1. CASE Holders = {}
          BY <3>1, FS_EmptySet
    <3>2. CASE Holders # {}
      <4>1. PICK p : p \in Holders
            BY <3>2
      <4>2. Holders = {p}
            BY <4>1 DEF Inv, LockInv
      <4>3. Cardinality({p}) = 1
            BY FS_Singleton
      <4> QED BY <4>2, <4>3
    <3> QED BY <3>1, <3>2
  <2> QED BY <2>1 DEF HeldByOne, Inv, LockInv
<1> QED BY <1>1, InvAlways, PTL

\* A screen never replaces what it read by something older, for any number of
\* screens, loads, jobs and writes: between a load's reads no job of the session
\* runs, because the load holds the lock (browser.py, _load_data).
THEOREM ScreensOnlyAdvance == Spec => ScreensNeverGoBack
<1>1. Inv /\ [Next]_vars
         => [\A s \in Screens :
               /\ scr'[s].meta >= scr[s].meta
               /\ scr'[s].rows >= scr[s].rows
               /\ scr'[s].shown >= scr[s].shown]_vars
      BY InvStep DEF Advances
<1> QED BY <1>1, InvAlways, PTL DEF Spec, ScreensNeverGoBack

=============================================================================
