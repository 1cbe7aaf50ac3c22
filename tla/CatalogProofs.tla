---------------------------- MODULE CatalogProofs ----------------------------
(***************************************************************************)
(* What holds of the session catalog for every set of sessions, threads    *)
(* and clients, every depth of the delta log and every number of           *)
(* environment events: its types first, then that a client which follows   *)
(* session/list with sinceRevision is never left behind (DeltasCatchUp),   *)
(* and that no install puts an older chrome back (ChromeNeverGoesBack).    *)
(***************************************************************************)
EXTENDS CatalogCache, SequenceTheorems, WellFoundedInduction, TLAPS

\* A thread inside a patching call has a plan, the call it is in first.
PlansOK == \A w \in Workers : work[w].pc # "idle" => work[w].plan # <<>>

TypeInv == TypeOK /\ PlansOK

-----------------------------------------------------------------------------
\* Every row, and the absence of one, has a chrome, which is 0 for the absence
\* alone; the fields of catalog.py's rows and stamps are of this shape.
LEMMA RowFacts ==
    /\ NoRow \in Row
    /\ EmptyTable \in Table
    /\ \A r \in Row : r.chrome \in Nat /\ (r.chrome = 0 <=> r = NoRow)
    /\ \A r \in Files : r \in Row /\ r # NoRow
    /\ \A t \in Table : Chrome(t) \in View
<1>1. \A r \in Files : r.chrome # 0
  BY DEF Files
<1>2. NoRow.chrome = 0
  BY DEF NoRow
<1>3. \A r \in Row : r.chrome \in Nat /\ (r.chrome = 0 <=> r = NoRow)
  BY <1>1, <1>2 DEF Row, Files, NoRow
<1>4. \A t \in Table : Chrome(t) \in View
  BY <1>3 DEF Chrome, View, Table
<1> QED
  BY <1>1, <1>2, <1>3, <1>4 DEF Row, Table, EmptyTable

\* Reading a row from disk gives a row.
LEMMA DiskRows ==
    ASSUME TypeOK, NEW s \in Sessions
    PROVE  RowOnDisk(s) \in Row /\ RowInScan(s) \in Row
  BY DEF TypeOK, RowOnDisk, RowInScan, Row

\* A call that returns leaves its thread idle or at the next call of its plan.
LEMMA ReturnedType ==
    ASSUME NEW me \in WorkState, me.plan # <<>>
    PROVE  /\ Returned(me) \in WorkState
           /\ Returned(me).pc # "idle" => Returned(me).plan # <<>>
           /\ Returned(me).pc \in {"idle", "enter"}
<1>1. IdleWork \in WorkState
  <2>1. <<>> \in Plans
    BY DEF Plans
  <2> QED
    BY <2>1, RowFacts DEF IdleWork, WorkState
<1>2. me.plan \in Plans /\ me.dirs \in SUBSET Sessions
  BY DEF WorkState
<1>3. CASE Len(me.plan) = 1
  BY <1>1, <1>3 DEF Returned, IdleWork
<1>4. CASE Len(me.plan) # 1
  <2>1. Tail(me.plan) \in Plans /\ Tail(me.plan) # <<>>
    <3>1. /\ Tail(me.plan) \in Plans
          /\ Len(me.plan) \in Nat \ {0}
          /\ Len(Tail(me.plan)) = Len(me.plan) - 1
      BY <1>2, EmptySeq, HeadTailProperties DEF Plans
    <3>2. Len(Tail(me.plan)) # Len(<<>>)
      BY <3>1, <1>4
    <3> QED
      BY <3>1, <3>2
  <2>2. Returned(me) = [IdleWork EXCEPT !.pc = "enter", !.plan = Tail(me.plan), !.dirs = me.dirs]
    BY <1>4 DEF Returned
  <2> QED
    BY <1>1, <1>2, <2>1, <2>2 DEF WorkState, IdleWork
<1> QED
  BY <1>3, <1>4

\* A thread that has looked at a session keeps its snapshot until it returns.
LEMMA LookedType ==
    ASSUME NEW me \in WorkState, me.plan # <<>>
    PROVE  /\ Looked(me) \in WorkState
           /\ Looked(me).pc # "idle" => Looked(me).plan # <<>>
           /\ Looked(me).pc \in {"stat", "install"} =>
                  Looked(me).snap = me.snap /\ Looked(me).seq = me.seq
           /\ Looked(me).pc \in {"idle", "enter", "stat", "install"}
<1>1. [me EXCEPT !.pc = "stat"] \in WorkState /\ [me EXCEPT !.pc = "install"] \in WorkState
  BY DEF WorkState
<1>2. CASE me.todo # {}
  BY <1>1, <1>2 DEF Looked, WorkState
<1>3. CASE me.todo = {} /\ me.new = EmptyTable /\ me.drop = {}
  BY <1>3, ReturnedType DEF Looked
<1>4. CASE me.todo = {} /\ ~ (me.new = EmptyTable /\ me.drop = {})
  BY <1>1, <1>4 DEF Looked, WorkState
<1> QED
  BY <1>2, <1>3, <1>4

\* What a step makes of the locals of one thread is all it changes of work.
LEMMA WorkUpdate ==
    ASSUME TypeInv, NEW w \in Workers, NEW new \in WorkState,
           new.pc # "idle" => new.plan # <<>>,
           work' = [work EXCEPT ![w] = new]
    PROVE  work' \in [Workers -> WorkState] /\ PlansOK'
  BY DEF TypeInv, TypeOK, PlansOK

\* A thread whose call returns goes back to a well-typed record with a plan left.
LEMMA DoneType ==
    ASSUME TypeInv, NEW w \in Workers, work[w].pc # "idle", Done(w)
    PROVE  /\ work' \in [Workers -> WorkState] /\ PlansOK'
           /\ work' = [work EXCEPT ![w] = Returned(work[w])]
<1>1. work[w] \in WorkState /\ work[w].plan # <<>>
  BY DEF TypeInv, TypeOK, PlansOK
<1>2. work' = [work EXCEPT ![w] = Returned(work[w])]
  BY <1>1 DEF Done, TypeInv, TypeOK
<1> QED
  BY <1>1, <1>2, ReturnedType, WorkUpdate

\* A thread starts with a plan of one call or more.
LEMMA StartType ==
    ASSUME TypeInv, NEW w \in Workers, NEW plan \in Plans, plan # <<>>,
           NEW dirs \in SUBSET Sessions, Start(w, plan, dirs)
    PROVE  work' \in [Workers -> WorkState] /\ PlansOK'
<1>1. IdleWork \in WorkState
  <2>1. <<>> \in Plans
    BY DEF Plans
  <2> QED
    BY <2>1, RowFacts DEF IdleWork, WorkState
<1> DEFINE new == [IdleWork EXCEPT !.pc = "enter", !.plan = plan, !.dirs = dirs]
<1>2. new \in WorkState /\ new.plan = plan
  BY <1>1 DEF WorkState, IdleWork
<1>3. work' = [work EXCEPT ![w] = new]
  BY DEF Start
<1> QED
  BY <1>2, <1>3, WorkUpdate

\* Starting the rebuild thread gives it a scan of every session.
LEMMA KickType ==
    ASSUME TypeOK, NEW force \in BOOLEAN, Kick(force)
    PROVE  build' \in BuildState
<1>1. NoBuild \in BuildState /\ Fingerprint \in Roots
  BY RowFacts DEF NoBuild, BuildState, NoRoots, Roots, Fingerprint
<1>2. [NoBuild EXCEPT !.pc = "scan", !.todo = Sessions, !.roots = Fingerprint] \in BuildState
  BY <1>1 DEF BuildState, NoBuild
<1> QED
  BY <1>2 DEF Kick, TypeOK

\* The log of deltas grows by a delta and never passes DeltaKeep by it.
LEMMA LoggedType ==
    ASSUME NEW d \in Delta, deltas \in Seq(Delta)
    PROVE  Logged(d) \in Seq(Delta)
<1>1. CASE Len(deltas) < DeltaKeep
  BY <1>1, AppendProperties DEF Logged
<1>2. CASE ~ (Len(deltas) < DeltaKeep)
  <2>1. deltas # <<>>
    BY <1>2, DeltaKeepAssumption
  <2>2. Tail(deltas) \in Seq(Delta)
    BY <2>1, HeadTailProperties
  <2> QED
    BY <1>2, <2>2, AppendProperties DEF Logged
<1> QED
  BY <1>1, <1>2

\* The delta a patch logs is a delta: it upserts chromes and removes session ids.
LEMMA PatchDeltaType ==
    ASSUME TypeOK, NEW w \in Workers
    PROVE  PatchDelta(w) \in Delta /\ Patched(w) \in Table
<1>1. /\ work[w].new \in Table /\ work[w].snap \in Table
      /\ work[w].drop \in SUBSET Sessions
  BY DEF TypeOK, WorkState
<1>2. \A s \in Sessions : work[w].new[s] \in Row /\ work[w].snap[s] \in Row
  BY <1>1 DEF Table
<1>3. Patched(w) \in Table
  BY <1>2, RowFacts DEF Patched, Table
<1>4. \A s \in Sessions : work[w].new[s].chrome \in Nat
  BY <1>2, RowFacts
<1>5. seq + 1 \in Nat
  BY DEF TypeOK
<1> QED
  BY <1>1, <1>3, <1>4, <1>5 DEF PatchDelta, Delta, Listed

\* A nonempty set of indices has a last one.
LEMMA LastIndex ==
    ASSUME NEW N \in Nat, NEW T \in SUBSET (1 .. N), T # {}
    PROVE  \E i \in T : \A j \in T : j <= i
<1> DEFINE D == {k \in Nat : \E i \in T : k = N - i}
<1>1. D \subseteq Nat /\ D # {}
  <2>1. \A i \in T : N - i \in D
    OBVIOUS
  <2> QED
    BY <2>1
<1>2. PICK d \in D : \A e \in D : <<e, d>> \notin OpToRel(<, Nat)
  BY <1>1, NatLessThanWellFounded, WFMin
<1>3. \A e \in D : ~ (e < d)
  BY <1>1, <1>2 DEF OpToRel
<1>4. PICK i \in T : d = N - i
  OBVIOUS
<1>5. \A j \in T : N - j \in D
  OBVIOUS
<1>6. \A j \in T : ~ (N - j < N - i)
  BY <1>3, <1>4, <1>5
<1> QED
  BY <1>6

\* A session touched after revision n has a last delta that touches it.
LEMMA LastTouchExists ==
    ASSUME deltas \in Seq(Delta), NEW n \in Nat, NEW s \in Sessions, TouchedAfter(n, s)
    PROVE  /\ LastTouch(n, s) \in After(n)
           /\ Touches(deltas[LastTouch(n, s)], s)
           /\ \A j \in After(n) : j > LastTouch(n, s) => ~ Touches(deltas[j], s)
<1> DEFINE T == {i \in After(n) : Touches(deltas[i], s)}
<1>1. Len(deltas) \in Nat /\ T \in SUBSET (1 .. Len(deltas))
  BY LenProperties DEF After
<1>2. T # {}
  BY DEF TouchedAfter
<1>3. PICK i \in T : \A j \in T : j <= i
  BY <1>1, <1>2, LastIndex
<1>4. \A j \in After(n) : j > i => ~ Touches(deltas[j], s)
  BY <1>1, <1>3
<1> QED
  BY <1>3, <1>4 DEF LastTouch

\* A replayed view is a view.
LEMMA ReplayedType ==
    ASSUME TypeOK, NEW view \in View, NEW n \in Nat
    PROVE  Replayed(view, n) \in View
<1>1. ASSUME NEW s \in Sessions, TouchedAfter(n, s)
      PROVE  deltas[LastTouch(n, s)].upserted[s] \in Nat
  <2>1. LastTouch(n, s) \in 1 .. Len(deltas) /\ deltas \in Seq(Delta)
    BY <1>1, LastTouchExists DEF After, TypeOK
  <2>2. deltas[LastTouch(n, s)] \in Delta
    BY <2>1, ElementOfSeq
  <2> QED
    BY <2>2 DEF Delta
<1> QED
  BY <1>1 DEF Replayed, View

-----------------------------------------------------------------------------
(***************************************************************************)
(* Types are preserved, group of actions by group of actions.              *)
(***************************************************************************)
LEMMA TypeInit == Init => TypeInv
<1> SUFFICES ASSUME Init PROVE TypeInv
  OBVIOUS
<1>1. /\ EmptyTable \in Table /\ IdleWork \in WorkState
      /\ NoBuild \in BuildState /\ NoRoots \in Roots
  <2>1. <<>> \in Plans
    BY DEF Plans
  <2> QED
    BY <2>1, RowFacts DEF IdleWork, WorkState, NoBuild, BuildState, NoRoots, Roots
<1>2. <<>> \in Seq(Delta)
  OBVIOUS
<1>3. data \in [Sessions -> Files] /\ kind \in [Sessions -> {"gone", "listed", "child"}]
  BY DEF Init, Files
<1>4. client \in [Clients -> ClientState]
  BY DEF Init, ClientState, NoReply, NoRevision, Revision, View, Rev
<1>5. work \in [Workers -> WorkState] /\ PlansOK
  BY <1>1 DEF Init, PlansOK, IdleWork
<1> QED
  BY <1>1, <1>2, <1>3, <1>4, <1>5 DEF TypeInv, TypeOK, Init

\* Writes, sessions that come and go, expiry, invalidate and a restart keep types.
LEMMA TypeEnvironment == TypeInv /\ Environment => TypeInv'
<1> SUFFICES ASSUME TypeInv, Environment PROVE TypeInv'
  OBVIOUS
<1> USE DEF TypeInv, TypeOK
<1>1. \A r \in Files : [r EXCEPT !.chrome = @ + 1] \in Files /\ [r EXCEPT !.meter = @ + 1] \in Files
  BY DEF Files
<1>2. /\ EmptyTable \in Table /\ IdleWork \in WorkState
      /\ NoBuild \in BuildState /\ NoRoots \in Roots
  <2>1. <<>> \in Plans
    BY DEF Plans
  <2> QED
    BY <2>1, RowFacts DEF IdleWork, WorkState, NoBuild, BuildState, NoRoots, Roots
<1>3. /\ \A e : Event(e) => events' \in Nat
      /\ <<>> \in Seq(Delta)
  BY DEF Event
<1>4. ASSUME NEW s \in Sessions, WriteChrome(s) PROVE TypeInv'
  BY <1>1, <1>3, <1>4 DEF WriteChrome, cacheVars, PlansOK
<1>5. ASSUME NEW s \in Sessions, WriteMeter(s) PROVE TypeInv'
  BY <1>1, <1>3, <1>5 DEF WriteMeter, cacheVars, PlansOK
<1>6. ASSUME NEW s \in Sessions, Appear(s) PROVE TypeInv'
  BY <1>1, <1>3, <1>6 DEF Appear, cacheVars, PlansOK
<1>7. ASSUME NEW s \in Sessions, Vanish(s) PROVE TypeInv'
  BY <1>3, <1>7 DEF Vanish, cacheVars, PlansOK
<1>8. ASSUME NEW s \in Sessions, BecomeChild(s) PROVE TypeInv'
  BY <1>3, <1>8 DEF BecomeChild, cacheVars, PlansOK
<1>9. CASE Expire
  BY <1>3, <1>9 DEF Expire, PlansOK
<1>10. CASE Invalidate
  BY <1>2, <1>3, <1>10 DEF Invalidate, PlansOK
<1>11. CASE Restart
  <2>1. events' \in Nat
    BY <1>3, <1>11 DEF Restart
  <2>2. client' \in [Clients -> ClientState]
    <3>1. \A x \in ClientState : [x EXCEPT !.pc = "idle", !.page = NoReply] \in ClientState
      BY DEF ClientState, NoReply, NoRevision, Revision, View, Rev
    <3> QED
      BY <1>11, <3>1 DEF Restart
  <2>3. work' \in [Workers -> WorkState] /\ PlansOK'
    BY <1>2, <1>11 DEF Restart, PlansOK, IdleWork
  <2>4. /\ build' \in BuildState /\ rows' \in Table /\ stamps' \in Table
        /\ roots' \in Roots /\ deltas' \in Seq(Delta)
    BY <1>2, <1>3, <1>11 DEF Restart
  <2>5. /\ kind' = kind /\ data' = data /\ saved' = saved
        /\ gen' = gen + 1 /\ seq' = 0
        /\ loaded' = FALSE /\ seeded' = FALSE /\ expired' = TRUE
    BY <1>11, Zenon DEF Restart
  <2>6. gen' \in Nat /\ seq' \in Nat
    BY <2>5
  <2> QED
    BY <2>1, <2>2, <2>3, <2>4, <2>5, <2>6
<1> QED
  BY <1>4, <1>5, <1>6, <1>7, <1>8, <1>9, <1>10, <1>11 DEF Environment

\* Every step of _run_rebuild keeps the types.
LEMMA TypeRebuild == TypeInv /\ (RebuildStep \/ RebuildFail) => TypeInv'
<1> SUFFICES ASSUME TypeInv, RebuildStep \/ RebuildFail PROVE TypeInv'
  OBVIOUS
<1> USE DEF TypeInv, TypeOK
<1>1. NoBuild \in BuildState
  BY RowFacts DEF NoBuild, BuildState, NoRoots, Roots
<1>2. ASSUME NEW s \in Sessions, RebuildRead(s) PROVE TypeInv'
  <2> DEFINE scan == [build.scan EXCEPT ![s] = RowInScan(s)]
  <2>1. scan \in Table
    BY DiskRows DEF BuildState, Table
  <2>2. build' \in BuildState
    BY <1>2, <2>1 DEF RebuildRead, BuildState
  <2>3. saved' \in Table
    BY <1>2, <2>1 DEF RebuildRead
  <2> QED
    BY <1>2, <2>2, <2>3 DEF RebuildRead, cacheVars, PlansOK
<1>3. CASE RebuildInstall
  <2>1. build.scan \in Table /\ build.roots \in Roots
    BY DEF BuildState
  <2>2. stamps' \in Table
    BY <1>3, DiskRows, RowFacts DEF RebuildInstall, Table
  <2>3. build' \in BuildState
    BY <1>3 DEF RebuildInstall, BuildState
  <2>4. deltas' \in Seq(Delta) /\ seq' \in Nat
    BY <1>3 DEF RebuildInstall
  <2>5. rows' \in Table /\ roots' \in Roots /\ PlansOK'
    BY <1>3, <2>1 DEF RebuildInstall, PlansOK
  <2>6. /\ kind' = kind /\ data' = data /\ saved' = saved /\ events' = events
        /\ gen' = gen /\ work' = work /\ client' = client
        /\ loaded' = TRUE /\ seeded' = FALSE /\ expired' = FALSE
    BY <1>3 DEF RebuildInstall, diskVars
  <2> QED
    BY <2>2, <2>3, <2>4, <2>5, <2>6
<1>4. CASE RebuildEnd
  BY <1>1, <1>4 DEF RebuildEnd, diskVars, cacheVars, PlansOK
<1>5. CASE RebuildFail
  BY <1>1, <1>5 DEF RebuildFail, Event, cacheVars, PlansOK
<1> QED
  BY <1>2, <1>3, <1>4, <1>5 DEF RebuildStep

\* Every step of list_for_rpc, and the client that merges its answer, keeps types.
LEMMA TypeList ==
    ASSUME TypeInv, NEW c \in Clients, ListStep(c)
    PROVE  TypeInv'
<1> USE DEF TypeInv, TypeOK
<1>1. client[c] \in ClientState
  OBVIOUS
<1>2. CASE ListSeed(c)
  <2>1. client' \in [Clients -> ClientState]
    BY <1>1, <1>2 DEF ListSeed, ClientState
  <2> QED
    BY <1>2, <2>1 DEF ListSeed, diskVars, PlansOK
<1>3. CASE ListKick(c)
  <2>1. client' \in [Clients -> ClientState]
    BY <1>1, <1>3 DEF ListKick, ClientState
  <2>2. build' \in BuildState
    BY <1>3, KickType DEF ListKick
  <2> QED
    BY <1>3, <2>1, <2>2 DEF ListKick, diskVars, cacheVars, PlansOK
<1>4. CASE ListRead(c)
  <2>1. [view |-> Chrome(rows), rev |-> CurrentRevision] \in [view: View, rev: Rev]
    BY RowFacts DEF Rev, CurrentRevision, Revision, NoRevision
  <2>2. client' \in [Clients -> ClientState]
    BY <1>1, <1>4, <2>1 DEF ListRead, ClientState
  <2> QED
    BY <1>4, <2>2 DEF ListRead, diskVars, cacheVars, PlansOK
<1>5. CASE ListReply(c)
  <2>1. /\ client[c].view \in View /\ client[c].page.view \in View
        /\ client[c].rev \in Rev /\ client[c].page.rev \in Rev /\ client[c].rev.seq \in Nat
    BY <1>1 DEF ClientState, Rev
  <2>2. Replayed(client[c].view, client[c].rev.seq) \in View
    BY <2>1, ReplayedType
  <2>3. NoReply \in [view: View, rev: Rev]
    BY DEF NoReply, NoRevision, Revision, View, Rev
  <2>4. client' \in [Clients -> ClientState]
    BY <1>5, <2>1, <2>2, <2>3 DEF ListReply, ClientState
  <2> QED
    BY <1>5, <2>4 DEF ListReply, diskVars, cacheVars, PlansOK
<1> QED
  BY <1>2, <1>3, <1>4, <1>5 DEF ListStep

\* A thread that enters a plan of calls has a well-typed, nonempty plan.
LEMMA TypeBegin ==
    ASSUME TypeInv, NEW w \in Workers, Begin(w)
    PROVE  TypeInv'
<1> DEFINE One == {"dirs", "store", "missing", "ids"}
<1>1. CASE Poll(w)
  <2> DEFINE moved == {s \in Listed(rows) : ~ Unmoved(s) /\ ~ LocatorGone(s)}
             dirs == moved \ StoreSessions
             first == IF dirs # {} THEN <<"dirs">> ELSE <<>>
             second == IF moved \ dirs # {} THEN <<"store">> ELSE <<>>
             plan == first \o second \o <<"missing">>
  <2>1. dirs \in SUBSET Sessions
    BY DEF Listed
  <2> HIDE DEF dirs, moved
  <2>2. first \in Seq(One) /\ second \in Seq(One) /\ <<"missing">> \in Seq(One)
    <3>1. <<>> \in Seq(One) /\ <<"dirs">> \in Seq(One) /\ <<"store">> \in Seq(One)
          /\ <<"missing">> \in Seq(One)
      OBVIOUS
    <3>2. (dirs # {} \/ dirs = {}) /\ (moved \ dirs # {} \/ moved \ dirs = {})
      OBVIOUS
    <3> QED BY <3>1, <3>2, Zenon
  <2>3. first \o second \in Seq(One) /\ Len(first \o second) \in Nat
    BY <2>2, ConcatProperties, LenProperties
  <2>4. plan \in Plans /\ Len(plan) = Len(first \o second) + 1
    BY <2>2, <2>3, ConcatProperties DEF Plans
  <2>5. plan # <<>>
    BY <2>3, <2>4
  <2>6. Start(w, plan, dirs)
    BY <1>1 DEF Poll, dirs, moved
  <2>7. work' \in [Workers -> WorkState] /\ PlansOK'
    BY <2>1, <2>4, <2>5, <2>6, StartType
  <2> QED
    BY <1>1, <2>7 DEF Poll, TypeInv, TypeOK, diskVars, cacheVars
<1>2. ASSUME NEW s \in Sessions, Watch(w, s) PROVE TypeInv'
  <2>1. \A k \in {"dirs", "store"} : <<k, "missing">> \in Plans /\ <<k, "missing">> # <<>>
    BY DEF Plans
  <2>2. work' \in [Workers -> WorkState] /\ PlansOK'
    BY <1>2, <2>1, StartType DEF Watch
  <2> QED
    BY <1>2, <2>2 DEF Watch, TypeInv, TypeOK, diskVars, cacheVars
<1>3. ASSUME NEW s \in Sessions, AfterWrite(w, s) PROVE TypeInv'
  <2>1. <<"dirs">> \in Plans /\ <<"dirs">> # <<>>
    BY DEF Plans
  <2>2. work' \in [Workers -> WorkState] /\ PlansOK'
    BY <1>3, <2>1, StartType DEF AfterWrite
  <2>3. data' \in [Sessions -> Files]
    <3>1. \A r \in Files : [r EXCEPT !.chrome = @ + 1] \in Files
      BY DEF Files
    <3> QED
      BY <1>3, <3>1 DEF AfterWrite, TypeInv, TypeOK
  <2>4. events' \in Nat
    BY <1>3 DEF AfterWrite, Event, TypeInv, TypeOK
  <2> QED
    BY <1>3, <2>2, <2>3, <2>4 DEF AfterWrite, TypeInv, TypeOK, cacheVars
<1>4. ASSUME NEW s \in Sessions, Delete(w, s) PROVE TypeInv'
  <2>1. <<"ids">> \in Plans /\ <<"ids">> # <<>>
    BY DEF Plans
  <2>2. work' \in [Workers -> WorkState] /\ PlansOK'
    BY <1>4, <2>1, StartType DEF Delete
  <2>3. kind' \in [Sessions -> {"gone", "listed", "child"}] /\ events' \in Nat
    BY <1>4 DEF Delete, Event, TypeInv, TypeOK
  <2> QED
    BY <1>4, <2>2, <2>3 DEF Delete, TypeInv, TypeOK, cacheVars
<1> QED
  BY <1>1, <1>2, <1>3, <1>4 DEF Begin

\* Every step inside a row-patching call keeps the types and the plans.
LEMMA TypePatch ==
    ASSUME TypeInv, NEW w \in Workers, PatchStep(w)
    PROVE  TypeInv'
<1>1. work[w] \in WorkState /\ (work[w].pc # "idle" => work[w].plan # <<>>)
  BY DEF TypeInv, TypeOK, PlansOK
<1>2. CASE EnterSkip(w)
  <2>1. work' \in [Workers -> WorkState] /\ PlansOK'
    BY <1>2, DoneType DEF EnterSkip
  <2> QED
    BY <1>2, <2>1 DEF EnterSkip, TypeInv, TypeOK, diskVars, cacheVars
<1>3. CASE EnterGet(w)
  <2>1. /\ [work[w] EXCEPT !.pc = "kick"] \in WorkState
        /\ [work[w] EXCEPT !.pc = "kick"].plan # <<>>
    BY <1>1, <1>3 DEF EnterGet, WorkState
  <2>2. work' = [work EXCEPT ![w] = [work[w] EXCEPT !.pc = "kick"]]
    BY <1>3 DEF EnterGet, TypeInv, TypeOK
  <2>3. work' \in [Workers -> WorkState] /\ PlansOK'
    BY <2>1, <2>2, WorkUpdate
  <2>4. loaded' \in BOOLEAN /\ rows' \in Table /\ seeded' \in BOOLEAN
    BY <1>3 DEF EnterGet, TypeInv, TypeOK
  <2> QED
    BY <1>3, <2>3, <2>4 DEF EnterGet, TypeInv, TypeOK, diskVars
<1>4. CASE GetKick(w)
  <2>1. /\ [work[w] EXCEPT !.pc = "wait"] \in WorkState
        /\ [work[w] EXCEPT !.pc = "wait"].plan # <<>>
    BY <1>1, <1>4 DEF GetKick, WorkState
  <2>2. work' = [work EXCEPT ![w] = [work[w] EXCEPT !.pc = "wait"]]
    BY <1>4 DEF GetKick, TypeInv, TypeOK
  <2>3. work' \in [Workers -> WorkState] /\ PlansOK'
    BY <2>1, <2>2, WorkUpdate
  <2>4. build' \in BuildState
    BY <1>4, KickType DEF GetKick, TypeInv
  <2> QED
    BY <1>4, <2>3, <2>4 DEF GetKick, TypeInv, TypeOK, diskVars, cacheVars
<1>5. CASE Waited(w)
  <2>1. work' \in [Workers -> WorkState] /\ PlansOK'
    BY <1>5, DoneType DEF Waited
  <2> QED
    BY <1>5, <2>1 DEF Waited, TypeInv, TypeOK, diskVars, cacheVars
<1>6. CASE Abandon(w)
  <2>1. work' \in [Workers -> WorkState] /\ PlansOK'
    BY <1>6, DoneType DEF Abandon
  <2> QED
    BY <1>6, <2>1 DEF Abandon, TypeInv, TypeOK, diskVars, cacheVars
<1>7. CASE Install(w)
  <2>1. work' \in [Workers -> WorkState] /\ PlansOK'
    BY <1>7, DoneType DEF Install
  <2>2. PatchDelta(w) \in Delta /\ rows' \in Table
    BY <1>7, PatchDeltaType DEF Install, TypeInv
  <2>3. seq' \in Nat
    BY <1>7 DEF Install, TypeInv, TypeOK
  <2>4. deltas' \in Seq(Delta)
    BY <1>7, <2>2, LoggedType DEF Install, TypeInv, TypeOK
  <2> QED
    BY <1>7, <2>1, <2>2, <2>3, <2>4 DEF Install, TypeInv, TypeOK, diskVars
<1>8. CASE Enter(w)
  <2> DEFINE me == [work[w] EXCEPT !.snap = rows, !.seq = seq]
             new == CASE Call(w) = "dirs" -> Looked([me EXCEPT !.todo = me.dirs])
                      [] Call(w) = "store" ->
                           Looked([me EXCEPT !.todo = {s \in StoreSessions : kind[s] = "listed"}])
                      [] OTHER -> [me EXCEPT !.pc = "find"]
  <2>1. me \in WorkState /\ me.plan # <<>>
    BY <1>1, <1>8 DEF Enter, WorkState, TypeInv, TypeOK
  <2>2. /\ [me EXCEPT !.todo = me.dirs] \in WorkState
        /\ [me EXCEPT !.todo = me.dirs].plan # <<>>
    BY <2>1 DEF WorkState
  <2>3. /\ [me EXCEPT !.todo = {s \in StoreSessions : kind[s] = "listed"}] \in WorkState
        /\ [me EXCEPT !.todo = {s \in StoreSessions : kind[s] = "listed"}].plan # <<>>
    <3>1. {s \in StoreSessions : kind[s] = "listed"} \in SUBSET Sessions
      BY SessionsAssumption
    <3> QED
      BY <2>1, <3>1 DEF WorkState
  <2>4. [me EXCEPT !.pc = "find"] \in WorkState /\ [me EXCEPT !.pc = "find"].plan # <<>>
    BY <2>1 DEF WorkState
  <2>5. new \in WorkState /\ (new.pc # "idle" => new.plan # <<>>)
    BY <2>2, <2>3, <2>4, LookedType
  <2>6. work' = [work EXCEPT ![w] = new]
    BY <1>8 DEF Enter
  <2>7. work' \in [Workers -> WorkState] /\ PlansOK'
    BY <2>5, <2>6, WorkUpdate
  <2> QED
    BY <1>8, <2>7 DEF Enter, TypeInv, TypeOK, diskVars, cacheVars
<1>9. ASSUME NEW s \in Sessions, Stat(w, s) PROVE TypeInv'
  <2> DEFINE me == [work[w] EXCEPT !.todo = @ \ {s}]
             child == Call(w) = "dirs" /\ kind[s] = "child"
             new == IF child THEN Looked([me EXCEPT !.drop = @ \union {s}])
                    ELSE IF Unmoved(s) THEN Looked(me)
                    ELSE [me EXCEPT !.pc = "read", !.at = {s}, !.stamp = RowOnDisk(s)]
  <2>1. RowOnDisk(s) \in Row
    BY DiskRows DEF TypeInv
  <2>2. me \in WorkState /\ me.plan # <<>>
    BY <1>1, <1>9 DEF Stat, WorkState
  <2>3. /\ [me EXCEPT !.drop = @ \union {s}] \in WorkState
        /\ [me EXCEPT !.drop = @ \union {s}].plan # <<>>
    BY <2>2 DEF WorkState
  <2>4. /\ [me EXCEPT !.pc = "read", !.at = {s}, !.stamp = RowOnDisk(s)] \in WorkState
        /\ [me EXCEPT !.pc = "read", !.at = {s}, !.stamp = RowOnDisk(s)].plan # <<>>
    BY <2>1, <2>2 DEF WorkState
  <2>5. new \in WorkState /\ (new.pc # "idle" => new.plan # <<>>)
    BY <2>2, <2>3, <2>4, LookedType
  <2>6. work' = [work EXCEPT ![w] = new]
    BY <1>9 DEF Stat
  <2>7. work' \in [Workers -> WorkState] /\ PlansOK'
    BY <2>5, <2>6, WorkUpdate
  <2>8. stamps' \in Table
    BY <1>9, <2>1 DEF Stat, TypeInv, TypeOK, Table
  <2> QED
    BY <1>9, <2>7, <2>8 DEF Stat, TypeInv, TypeOK, diskVars
<1>10. ASSUME NEW s \in Sessions, Read(w, s) PROVE TypeInv'
  <2> DEFINE me == [work[w] EXCEPT !.at = {}, !.stamp = NoRow]
             row == RowOnDisk(s)
             found == IF row = NoRow THEN [me EXCEPT !.drop = @ \union {s}]
                      ELSE [me EXCEPT !.new[s] = row]
  <2>1. row \in Row /\ work[w].stamp \in Row
    BY <1>1, DiskRows DEF TypeInv, WorkState
  <2>2. me \in WorkState /\ me.plan # <<>>
    BY <1>1, <1>10, RowFacts DEF Read, WorkState
  <2>3. found \in WorkState /\ found.plan # <<>>
    <3>1. [me.new EXCEPT ![s] = row] \in Table
      BY <2>1, <2>2 DEF WorkState, Table
    <3> QED
      BY <2>2, <3>1 DEF WorkState
  <2>4. work' = [work EXCEPT ![w] = Looked(found)]
    BY <1>10 DEF Read
  <2>5. work' \in [Workers -> WorkState] /\ PlansOK'
    BY <2>3, <2>4, LookedType, WorkUpdate
  <2>6. stamps' \in Table
    BY <1>10, <2>1 DEF Read, TypeInv, TypeOK, Table
  <2> QED
    BY <1>10, <2>5, <2>6 DEF Read, TypeInv, TypeOK, diskVars
<1>11. CASE Find(w)
  <2> DEFINE found == {s \in Listed(work[w].snap) : Lost(w, s)}
             new == IF found = {} THEN Returned(work[w])
                    ELSE [work[w] EXCEPT !.pc = "install", !.drop = found]
  <2>1. found \in SUBSET Sessions
    BY DEF Listed
  <2>2. work[w].plan # <<>>
    BY <1>1, <1>11 DEF Find
  <2>3. /\ [work[w] EXCEPT !.pc = "install", !.drop = found] \in WorkState
        /\ [work[w] EXCEPT !.pc = "install", !.drop = found].plan # <<>>
    BY <1>1, <2>1, <2>2 DEF WorkState
  <2>4. new \in WorkState /\ (new.pc # "idle" => new.plan # <<>>)
    BY <1>1, <2>2, <2>3, ReturnedType
  <2>5. work' = [work EXCEPT ![w] = new]
    BY <1>11 DEF Find
  <2>6. work' \in [Workers -> WorkState] /\ PlansOK'
    BY <2>4, <2>5, WorkUpdate
  <2> QED
    BY <1>11, <2>6 DEF Find, TypeInv, TypeOK, diskVars, cacheVars
<1> QED
  BY <1>2, <1>3, <1>4, <1>5, <1>6, <1>7, <1>8, <1>9, <1>10, <1>11 DEF PatchStep

\* Every step of the catalog, or none, keeps the types and the plans.
LEMMA TypeStep == TypeInv /\ [Next]_vars => TypeInv'
<1> SUFFICES ASSUME TypeInv, [Next]_vars PROVE TypeInv'
  OBVIOUS
<1>1. CASE UNCHANGED vars
  BY <1>1 DEF vars, diskVars, cacheVars, TypeInv, TypeOK, PlansOK
<1> QED
  BY <1>1, TypeEnvironment, TypeRebuild, TypeList, TypeBegin, TypePatch DEF Next

\* Every field of the cache and every local of its threads keeps its type,
\* whatever threads rebuild, patch and list at once (SessionCatalogCache).
THEOREM TypeCorrect == Spec => []TypeOK
<1>1. Spec => []TypeInv
  BY TypeInit, TypeStep, PTL DEF Spec
<1> QED
  BY <1>1, PTL DEF TypeInv

-----------------------------------------------------------------------------
(***************************************************************************)
(* Deltas: a client that follows session/list with sinceRevision is never  *)
(* left behind.                                                            *)
(*                                                                         *)
(* The argument.  The log holds one delta for each of the last revisions   *)
(* (LogShape), and the last delta to touch a session carries what its row  *)
(* shows now (LastDeltaWins).  A patch is installed only on the revision   *)
(* its thread took its snapshot at, and at that revision the snapshot      *)
(* still shows what the table shows (SnapshotsHold): so what a patch does  *)
(* not touch does not move.  Hence a client whose revision is not gapped   *)
(* already shows every session that no later delta touches (ViewsHold).    *)
(* Revisions never run ahead of the owner's (RevisionsKnown): a rebuild,   *)
(* which clears the log, leaves every earlier revision gapped.             *)
(*                                                                         *)
(* From the same invariant, and one of its own at the end of the module:   *)
(* no install puts an older chrome back (ChromeNeverGoesBack).             *)
(***************************************************************************)

\* _deltas holds consecutive revisions and ends at the current one.
LogShape ==
    /\ Len(deltas) <= seq
    /\ \A i \in 1 .. Len(deltas) : deltas[i].seq = seq - Len(deltas) + i

\* The last delta to touch a session carries the chrome of its row.
LastDeltaWins ==
    roots.known =>
        \A i \in 1 .. Len(deltas), s \in Sessions :
            (/\ Touches(deltas[i], s)
             /\ \A j \in 1 .. Len(deltas) : j > i => ~ Touches(deltas[j], s))
            => deltas[i].upserted[s] = rows[s].chrome

\* A thread between the two critical sections of a patch.
Patching(w) == work[w].pc \in {"stat", "read", "find", "install"}

\* While the revision has not moved, a thread's snapshot shows the table.
SnapshotsHold ==
    \A w \in Workers :
        Patching(w) =>
            /\ work[w].seq <= seq
            /\ roots.known /\ work[w].seq = seq => Chrome(work[w].snap) = Chrome(rows)

\* A list and the revision it was read at: what no later delta touches it shows.
Holds(view, rev) ==
    ~ Gapped(rev) =>
        \A s \in Sessions : ~ TouchedAfter(rev.seq, s) => view[s] = rows[s].chrome

ViewsHold ==
    roots.known =>
        \A c \in Clients : /\ Holds(client[c].view, client[c].rev)
                           /\ Holds(client[c].page.view, client[c].page.rev)

\* No client knows a revision the owner has not reached.
Reached(rev) == rev.gen <= gen /\ (rev.gen = gen => rev.seq <= seq)
RevisionsKnown ==
    \A c \in Clients : Reached(client[c].rev) /\ Reached(client[c].page.rev)

\* The fingerprint is known only of a table that is loaded.
RootsLoaded == roots.known => loaded

DeltaInv ==
    /\ TypeInv /\ LogShape /\ LastDeltaWins /\ SnapshotsHold
    /\ ViewsHold /\ RevisionsKnown /\ RootsLoaded

\* DeltaInv apart from the types.
Linked ==
    /\ LogShape /\ LastDeltaWins /\ SnapshotsHold
    /\ ViewsHold /\ RevisionsKnown /\ RootsLoaded

-----------------------------------------------------------------------------
(***************************************************************************)
(* What a replay gives.                                                    *)
(***************************************************************************)
\* The heart of delta_since: a view that shows all that no later delta touches
\* shows the whole table once the later deltas are replayed on it.
LEMMA ReplayCatchesUp ==
    ASSUME TypeOK, LogShape, LastDeltaWins, roots.known,
           NEW view \in View, NEW n \in Nat,
           \A s \in Sessions : ~ TouchedAfter(n, s) => view[s] = rows[s].chrome
    PROVE  Replayed(view, n) = Chrome(rows)
<1>1. ASSUME NEW s \in Sessions, TouchedAfter(n, s)
      PROVE  deltas[LastTouch(n, s)].upserted[s] = rows[s].chrome
  <2> DEFINE i == LastTouch(n, s)
  <2>1. /\ i \in After(n) /\ Touches(deltas[i], s)
        /\ \A j \in After(n) : j > i => ~ Touches(deltas[j], s)
    BY <1>1, LastTouchExists DEF TypeOK
  <2>2. Len(deltas) \in Nat /\ seq \in Nat /\ i \in 1 .. Len(deltas)
    BY <2>1, LenProperties DEF After, TypeOK
  <2>3. \A j \in 1 .. Len(deltas) : j > i => j \in After(n)
    BY <2>1, <2>2 DEF After, LogShape
  <2>4. \A j \in 1 .. Len(deltas) : j > i => ~ Touches(deltas[j], s)
    BY <2>1, <2>3
  <2> QED
    BY <2>1, <2>2, <2>4 DEF LastDeltaWins
<1> QED
  BY <1>1 DEF Replayed, Chrome

\* The current revision with the table it was read from.
LEMMA CurrentHolds ==
    ASSUME TypeOK, LogShape
    PROVE  Holds(Chrome(rows), CurrentRevision) /\ Reached(CurrentRevision)
<1>1. CASE seq = 0
  BY <1>1 DEF Holds, Gapped, CurrentRevision, NoRevision, Revision, Reached, TypeOK
<1>2. CASE seq # 0
  BY <1>2 DEF Holds, Chrome, CurrentRevision, Revision, Reached, TypeOK
<1> QED
  BY <1>1, <1>2

\* No reply pending: nothing to hold, nothing to know.
LEMMA NoReplyHolds ==
    ASSUME TypeOK
    PROVE  Holds(NoReply.view, NoReply.rev) /\ Reached(NoReply.rev)
  BY DEF Holds, Gapped, NoReply, NoRevision, Revision, Reached, TypeOK

-----------------------------------------------------------------------------
(***************************************************************************)
(* Steps that leave the table, the log and the revision alone.             *)
(***************************************************************************)
Still ==
    /\ rows' = rows /\ roots' = roots /\ deltas' = deltas
    /\ gen' = gen /\ seq' = seq /\ loaded' = loaded

\* A step that leaves _deltas, _seq and _gen alone leaves what the log says alone.
LEMMA StillLog ==
    ASSUME Linked, Still
    PROVE  LogShape' /\ LastDeltaWins' /\ RootsLoaded'
  BY DEF Linked, Still, LogShape, LastDeltaWins, RootsLoaded, Touches

\* Clients and rows that did not move still agree.
LEMMA StillClients ==
    ASSUME Linked, Still, client' = client
    PROVE  ViewsHold' /\ RevisionsKnown'
  BY DEF Linked, Still, ViewsHold, RevisionsKnown, Holds, Reached, Gapped, TouchedAfter,
         After, Touches

\* A thread that takes a step of its own keeps the snapshot it has or takes one.
LEMMA StillWork ==
    ASSUME Linked, TypeInv, Still, NEW w \in Workers, NEW new,
           work' = [work EXCEPT ![w] = new],
           new.pc \in {"stat", "read", "find", "install"} =>
               \/ new.seq = seq /\ new.snap = rows
               \/ Patching(w) /\ new.seq = work[w].seq /\ new.snap = work[w].snap
    PROVE  SnapshotsHold'
<1> SUFFICES ASSUME NEW v \in Workers, Patching(v)'
             PROVE  /\ work'[v].seq <= seq
                    /\ roots.known /\ work'[v].seq = seq => Chrome(work'[v].snap) = Chrome(rows)
  BY DEF SnapshotsHold, Still, Chrome
<1>1. work'[v] = IF v = w THEN new ELSE work[v]
  BY DEF TypeInv, TypeOK
<1>2. seq \in Nat
  BY DEF TypeInv, TypeOK
<1> QED
  BY <1>1, <1>2 DEF Linked, SnapshotsHold, Patching

\* A step that touches neither the log, the rows nor a client keeps the invariant.
LEMMA StillAll ==
    ASSUME Linked, Still, work' = work, client' = client
    PROVE  Linked'
<1>1. SnapshotsHold'
  BY DEF Linked, Still, SnapshotsHold, Patching, Chrome
<1> QED
  BY <1>1, StillLog, StillClients DEF Linked

-----------------------------------------------------------------------------
(***************************************************************************)
(* The actions, one lemma for each way they touch the table.               *)
(***************************************************************************)
LEMMA LinkedInit == Init => Linked
<1> SUFFICES ASSUME Init PROVE Linked
  OBVIOUS
<1>1. LogShape /\ LastDeltaWins /\ RootsLoaded
  BY DEF Init, LogShape, LastDeltaWins, RootsLoaded, NoRoots
<1>2. SnapshotsHold
  BY DEF Init, SnapshotsHold, Patching, IdleWork
<1>3. ViewsHold
  BY DEF Init, ViewsHold, NoRoots
<1>4. RevisionsKnown
  BY DEF Init, RevisionsKnown, Reached, NoReply, NoRevision, Revision
<1> QED
  BY <1>1, <1>2, <1>3, <1>4 DEF Linked

\* Invalidation, restart and seeding leave a table nobody vouches for.
LEMMA LinkedInvalidate == DeltaInv /\ Invalidate => Linked'
<1> SUFFICES ASSUME DeltaInv, Invalidate PROVE Linked'
  OBVIOUS
<1>1. /\ roots'.known = FALSE /\ deltas' = <<>> /\ seq' = seq /\ gen' = gen
      /\ work' = work /\ client' = client
  BY DEF Invalidate, NoRoots
<1>2. LogShape' /\ LastDeltaWins' /\ ViewsHold' /\ RootsLoaded'
  BY <1>1 DEF DeltaInv, TypeInv, TypeOK, LogShape, LastDeltaWins, ViewsHold, RootsLoaded
<1>3. SnapshotsHold' /\ RevisionsKnown'
  BY <1>1 DEF DeltaInv, SnapshotsHold, Patching, RevisionsKnown, Reached
<1> QED
  BY <1>2, <1>3 DEF Linked

\* A new owner has an empty log of a new generation: every client is gapped.
LEMMA LinkedRestart == DeltaInv /\ Restart => Linked'
<1> SUFFICES ASSUME DeltaInv, Restart PROVE Linked'
  OBVIOUS
<1>1. /\ roots'.known = FALSE /\ deltas' = <<>> /\ seq' = 0 /\ gen' = gen + 1
      /\ gen \in Nat
  BY DEF Restart, NoRoots, DeltaInv, TypeInv, TypeOK
<1>2. LogShape' /\ LastDeltaWins' /\ ViewsHold' /\ RootsLoaded'
  BY <1>1 DEF LogShape, LastDeltaWins, ViewsHold, RootsLoaded
<1>3. SnapshotsHold'
  BY DEF Restart, SnapshotsHold, Patching, IdleWork
<1>4. RevisionsKnown'
  <2> SUFFICES ASSUME NEW c \in Clients
               PROVE  Reached(client[c].rev)' /\ Reached(client[c].page.rev)'
    BY DEF RevisionsKnown
  <2>1. client[c] \in ClientState /\ Reached(client[c].rev)
    BY DEF DeltaInv, TypeInv, TypeOK, RevisionsKnown
  <2>2. client'[c].rev = client[c].rev /\ client'[c].page = NoReply
    BY <2>1 DEF Restart, ClientState
  <2>3. client[c].rev.gen \in Nat
    BY <2>1 DEF ClientState, Rev
  <2> QED
    BY <1>1, <2>1, <2>2, <2>3 DEF Reached, NoReply, NoRevision, Revision
<1> QED
  BY <1>2, <1>3, <1>4 DEF Linked

\* An empty table, seeded or not, has no fingerprint.
LEMMA LinkedSeed ==
    ASSUME DeltaInv, ~ loaded, roots' = roots, deltas' = deltas, gen' = gen, seq' = seq
    PROVE  LogShape' /\ LastDeltaWins' /\ ViewsHold' /\ RootsLoaded'
<1>1. roots'.known = FALSE
  BY DEF DeltaInv, RootsLoaded, TypeInv, TypeOK, Roots
<1> QED
  BY <1>1 DEF DeltaInv, LogShape, LastDeltaWins, ViewsHold, RootsLoaded

\* Reading a page, and merging the answer, keep each client behind by the log alone.
LEMMA LinkedList ==
    ASSUME DeltaInv, NEW c \in Clients, ListStep(c)
    PROVE  Linked'
<1> USE DEF DeltaInv, TypeInv
<1>0. client[c] \in ClientState /\ client \in [Clients -> ClientState]
  BY DEF TypeOK
<1>1. CASE ListSeed(c)
  <2>1. roots' = roots /\ deltas' = deltas /\ gen' = gen /\ seq' = seq /\ work' = work
    BY <1>1 DEF ListSeed
  <2>2. LogShape' /\ LastDeltaWins' /\ ViewsHold' /\ RootsLoaded'
    BY <1>1, <2>1, LinkedSeed DEF ListSeed, Seedable
  <2>3. roots'.known = FALSE
    BY <1>1, <2>1 DEF ListSeed, Seedable, RootsLoaded, TypeOK, Roots
  <2>4. SnapshotsHold'
    BY <2>1, <2>3 DEF SnapshotsHold, Patching
  <2>5. \A d \in Clients : client'[d].rev = client[d].rev /\ client'[d].page = client[d].page
    BY <1>0, <1>1 DEF ListSeed, ClientState
  <2>6. RevisionsKnown'
    BY <2>1, <2>5 DEF RevisionsKnown, Reached
  <2> QED
    BY <2>2, <2>4, <2>6 DEF Linked
<1>2. CASE ListKick(c) \/ ListRead(c) \/ ListReply(c)
  <2>1. Still /\ work' = work
    BY <1>2 DEF ListKick, ListRead, ListReply, Still, cacheVars
  <2>2. SnapshotsHold'
    BY <2>1 DEF Still, SnapshotsHold, Patching, Chrome
  <2>3. LogShape' /\ LastDeltaWins' /\ RootsLoaded'
    BY <2>1, StillLog DEF Linked
  <2>4. ASSUME NEW d \in Clients
        PROVE  /\ roots.known => /\ Holds(client'[d].view, client'[d].rev)
                                 /\ Holds(client'[d].page.view, client'[d].page.rev)
               /\ Reached(client'[d].rev) /\ Reached(client'[d].page.rev)
    <3>0. /\ roots.known => /\ Holds(client[d].view, client[d].rev)
                            /\ Holds(client[d].page.view, client[d].page.rev)
          /\ Reached(client[d].rev) /\ Reached(client[d].page.rev)
      BY DEF ViewsHold, RevisionsKnown
    <3>1. CASE ListKick(c)
      <4>1. /\ client'[d].view = client[d].view /\ client'[d].rev = client[d].rev
            /\ client'[d].page = client[d].page
        BY <1>0, <3>1 DEF ListKick, ClientState
      <4> QED
        BY <3>0, <4>1
    <3>2. CASE ListRead(c)
      <4>1. /\ client'[d].view = client[d].view /\ client'[d].rev = client[d].rev
            /\ client'[d].page = IF d = c THEN [view |-> Chrome(rows), rev |-> CurrentRevision]
                                 ELSE client[d].page
        BY <1>0, <3>2 DEF ListRead, ClientState
      <4> QED
        BY <3>0, <4>1, CurrentHolds
    <3>3. CASE ListReply(c) /\ d # c
      BY <1>0, <3>0, <3>3 DEF ListReply
    <3>4. CASE ListReply(c) /\ d = c
      <4> DEFINE me == client[c]
                 view == IF me.rev.seq > 0 /\ me.rev = me.page.rev THEN me.view
                         ELSE IF ~ Gapped(me.rev) THEN Replayed(me.view, me.rev.seq)
                         ELSE me.page.view
      <4>1. client'[c] = [pc |-> "idle", view |-> view, rev |-> me.page.rev, page |-> NoReply]
        BY <1>0, <3>4 DEF ListReply
      <4>2. me.view \in View /\ me.rev.seq \in Nat
        BY <1>0 DEF ClientState, Rev
      <4>3. ASSUME roots.known PROVE Holds(view, me.page.rev)
        <5>1. CASE me.rev.seq > 0 /\ me.rev = me.page.rev
          BY <3>0, <3>4, <4>3, <5>1
        <5>2. CASE ~ (me.rev.seq > 0 /\ me.rev = me.page.rev) /\ ~ Gapped(me.rev)
          <6>1. Replayed(me.view, me.rev.seq) = Chrome(rows)
            <7>1. \A s \in Sessions : ~ TouchedAfter(me.rev.seq, s) => me.view[s] = rows[s].chrome
              BY <3>0, <3>4, <4>3, <5>2 DEF Holds
            <7> QED
              BY <4>2, <4>3, <7>1, ReplayCatchesUp
          <6> QED
            BY <5>2, <6>1 DEF Holds, Chrome
        <5>3. CASE ~ (me.rev.seq > 0 /\ me.rev = me.page.rev) /\ Gapped(me.rev)
          BY <3>0, <3>4, <4>3, <5>3
        <5> QED
          BY <5>1, <5>2, <5>3
      <4>4. Holds(NoReply.view, NoReply.rev) /\ Reached(NoReply.rev)
        BY NoReplyHolds
      <4> QED
        BY <3>0, <3>4, <4>1, <4>3, <4>4
    <3> QED
      BY <1>2, <3>1, <3>2, <3>3, <3>4
  <2>5. ViewsHold' /\ RevisionsKnown'
    BY <2>1, <2>4 DEF Still, ViewsHold, RevisionsKnown, Holds, Reached, Gapped, TouchedAfter,
                      After, Touches
  <2> QED
    BY <2>2, <2>3, <2>5 DEF Linked
<1> QED
  BY <1>1, <1>2 DEF ListStep

\* A rebuild clears the log and moves to a revision no client has: all that was
\* known before is gapped, and no snapshot is of this revision.
LEMMA LinkedRebuild == DeltaInv /\ RebuildInstall => Linked'
<1> SUFFICES ASSUME DeltaInv, RebuildInstall PROVE Linked'
  OBVIOUS
<1>1. /\ deltas' = <<>> /\ seq' = seq + 1 /\ seq \in Nat /\ gen' = gen
      /\ work' = work /\ client' = client /\ loaded' = TRUE
  BY DEF RebuildInstall, DeltaInv, TypeInv, TypeOK
<1>2. LogShape' /\ LastDeltaWins' /\ RootsLoaded'
  BY <1>1 DEF LogShape, LastDeltaWins, RootsLoaded
<1>3. SnapshotsHold'
  <2>1. \A w \in Workers : work[w].seq \in Nat
    BY DEF DeltaInv, TypeInv, TypeOK, WorkState
  <2> QED
    BY <1>1, <2>1 DEF DeltaInv, SnapshotsHold, Patching
<1>4. \A c \in Clients : /\ client[c].rev.seq \in Nat /\ client[c].page.rev.seq \in Nat
                         /\ Reached(client[c].rev) /\ Reached(client[c].page.rev)
  BY DEF DeltaInv, TypeInv, TypeOK, ClientState, Rev, RevisionsKnown
<1>5. RevisionsKnown'
  BY <1>1, <1>4 DEF RevisionsKnown, Reached
<1>6. ViewsHold'
  <2>1. \A rev \in Rev : Reached(rev) => Gapped(rev)'
    BY <1>1 DEF Reached, Gapped, Rev
  <2>2. \A c \in Clients : client[c].rev \in Rev /\ client[c].page.rev \in Rev
    BY DEF DeltaInv, TypeInv, TypeOK, ClientState
  <2> QED
    BY <1>1, <1>4, <2>1, <2>2 DEF ViewsHold, Holds
<1> QED
  BY <1>2, <1>3, <1>5, <1>6 DEF Linked

\* What the log looks like after a patch: its deltas move down by one when the
\* oldest falls off.
LEMMA LoggedShape ==
    ASSUME TypeOK, LogShape, NEW d \in Delta
    PROVE  \E k \in {0, 1} :
              /\ k <= Len(deltas)
              /\ Len(Logged(d)) = Len(deltas) - k + 1
              /\ \A i \in 1 .. Len(deltas) - k : Logged(d)[i] = deltas[i + k]
              /\ Logged(d)[Len(deltas) - k + 1] = d
<1>1. deltas \in Seq(Delta) /\ Len(deltas) \in Nat
  BY LenProperties DEF TypeOK
<1>2. CASE Len(deltas) < DeltaKeep
  <2>1. Logged(d) = Append(deltas, d)
    BY <1>2 DEF Logged
  <2>2. /\ Len(Logged(d)) = Len(deltas) - 0 + 1
        /\ \A i \in 1 .. Len(deltas) - 0 : Logged(d)[i] = deltas[i + 0]
        /\ Logged(d)[Len(deltas) - 0 + 1] = d
    BY <1>1, <2>1, AppendProperties
  <2> QED
    BY <1>1, <2>2
<1>3. CASE ~ (Len(deltas) < DeltaKeep)
  <2>1. deltas # <<>> /\ Len(deltas) >= 1
    BY <1>1, <1>3, DeltaKeepAssumption
  <2>2. /\ Tail(deltas) \in Seq(Delta) /\ Len(Tail(deltas)) = Len(deltas) - 1
        /\ \A i \in 1 .. Len(deltas) - 1 : Tail(deltas)[i] = deltas[i + 1]
    BY <1>1, <2>1, HeadTailProperties
  <2>3. Logged(d) = Append(Tail(deltas), d)
    BY <1>3 DEF Logged
  <2>4. /\ Len(Logged(d)) = Len(deltas) - 1 + 1
        /\ \A i \in 1 .. Len(deltas) - 1 : Logged(d)[i] = deltas[i + 1]
        /\ Logged(d)[Len(deltas) - 1 + 1] = d
    BY <1>1, <2>1, <2>2, <2>3, AppendProperties
  <2> QED
    BY <1>1, <2>1, <2>4
<1> QED
  BY <1>2, <1>3

\* list_refresh_delta tells of every session whose chrome a patch moves, and
\* tells what the patched row shows.
LEMMA PatchTells ==
    ASSUME TypeOK, NEW w \in Workers, Chrome(work[w].snap) = Chrome(rows), NEW s \in Sessions
    PROVE  /\ Touches(PatchDelta(w), s) => PatchDelta(w).upserted[s] = Patched(w)[s].chrome
           /\ ~ Touches(PatchDelta(w), s) => Patched(w)[s].chrome = rows[s].chrome
<1> DEFINE me == work[w]
<1>1. /\ me.new[s] \in Row /\ me.snap[s] \in Row /\ rows[s] \in Row
      /\ me.snap[s].chrome = rows[s].chrome
  BY DEF TypeOK, WorkState, Table, Chrome
<1>2. /\ me.new[s].chrome \in Nat /\ (me.new[s].chrome = 0 <=> me.new[s] = NoRow)
      /\ (me.snap[s].chrome = 0 <=> me.snap[s] = NoRow) /\ NoRow.chrome = 0
  BY <1>1, RowFacts DEF NoRow
<1>3. /\ PatchDelta(w).upserted[s] =
            IF s \notin me.drop /\ me.new[s] # NoRow
               /\ (me.snap[s] = NoRow \/ me.snap[s].chrome # me.new[s].chrome)
            THEN me.new[s].chrome ELSE 0
      /\ s \in PatchDelta(w).removed <=> s \in me.drop /\ me.snap[s] # NoRow
  BY DEF PatchDelta, Listed
<1>4. Patched(w)[s] = IF s \in me.drop THEN NoRow
                      ELSE IF me.new[s] # NoRow THEN me.new[s] ELSE me.snap[s]
  BY DEF Patched
<1> QED
  BY <1>1, <1>2, <1>3, <1>4 DEF Touches

\* A patch that bumps the revision.
LEMMA LinkedBump ==
    ASSUME DeltaInv, NEW w \in Workers, Chrome(work[w].snap) = Chrome(rows) \/ ~ roots.known,
           rows' = Patched(w), seq' = seq + 1, deltas' = Logged(PatchDelta(w)),
           roots' = roots, gen' = gen
    PROVE  /\ LogShape' /\ LastDeltaWins'
           /\ roots.known =>
                \A view \in View, rev \in Rev :
                    Reached(rev) /\ Holds(view, rev) => Holds(view, rev)'
<1> DEFINE d == PatchDelta(w)
           L == Len(deltas)
<1>1. /\ TypeOK /\ LogShape /\ d \in Delta /\ d.seq = seq + 1
      /\ seq \in Nat /\ L \in Nat /\ deltas \in Seq(Delta)
  BY PatchDeltaType, LenProperties DEF DeltaInv, TypeInv, TypeOK, PatchDelta
<1>2. PICK k \in {0, 1} :
         /\ k <= L
         /\ Len(deltas') = L - k + 1
         /\ \A i \in 1 .. L - k : deltas'[i] = deltas[i + k]
         /\ deltas'[L - k + 1] = d
  BY <1>1, LoggedShape
<1>3. \A i \in 1 .. L : deltas[i].seq = seq - L + i /\ deltas[i] \in Delta
  BY <1>1, ElementOfSeq DEF LogShape
<1>4. LogShape'
  <2> SUFFICES ASSUME NEW i \in 1 .. L - k + 1
               PROVE  deltas'[i].seq = (seq + 1) - (L - k + 1) + i
    BY <1>1, <1>2 DEF LogShape
  <2>1. CASE i = L - k + 1
    BY <1>1, <1>2, <2>1
  <2>2. CASE i \in 1 .. L - k
    <3>1. deltas'[i] = deltas[i + k] /\ i + k \in 1 .. L
      BY <1>1, <1>2, <2>2
    <3>2. deltas[i + k].seq = seq - L + (i + k)
      BY <1>3, <3>1
    <3> QED
      BY <1>1, <3>1, <3>2
  <2> QED
    BY <1>1, <2>1, <2>2
<1>5. ASSUME roots.known, NEW s \in Sessions
      PROVE  /\ Touches(d, s) => d.upserted[s] = rows'[s].chrome
             /\ ~ Touches(d, s) => rows'[s].chrome = rows[s].chrome
  BY <1>1, <1>5, PatchTells
<1>6. LastDeltaWins'
  <2> SUFFICES ASSUME roots.known, NEW i \in 1 .. L - k + 1, NEW s \in Sessions,
                      Touches(deltas'[i], s),
                      \A j \in 1 .. L - k + 1 : j > i => ~ Touches(deltas'[j], s)
               PROVE  deltas'[i].upserted[s] = rows'[s].chrome
    BY <1>2 DEF LastDeltaWins, Touches
  <2>1. CASE i = L - k + 1
    BY <1>2, <1>5, <2>1
  <2>2. CASE i \in 1 .. L - k
    <3>1. ~ Touches(d, s)
      BY <1>1, <1>2, <2>2
    <3>2. deltas'[i] = deltas[i + k] /\ i + k \in 1 .. L
      BY <1>1, <1>2, <2>2
    <3>3. ASSUME NEW j \in 1 .. L, j > i + k PROVE ~ Touches(deltas[j], s)
      <4>1. j - k \in 1 .. L - k /\ j - k > i /\ (j - k) + k = j
        BY <1>1, <2>2, <3>3
      <4>2. deltas'[j - k] = deltas[j]
        BY <1>2, <4>1
      <4> QED
        BY <1>1, <4>1, <4>2
    <3>4. deltas[i + k].upserted[s] = rows[s].chrome
      BY <3>2, <3>3 DEF DeltaInv, LastDeltaWins
    <3> QED
      BY <1>5, <3>1, <3>2, <3>4
  <2> QED
    BY <1>1, <2>1, <2>2
<1>7. ASSUME roots.known, NEW view \in View, NEW rev \in Rev, Reached(rev), Holds(view, rev)
      PROVE  Holds(view, rev)'
  <2> SUFFICES ASSUME ~ Gapped(rev)', NEW s \in Sessions, ~ TouchedAfter(rev.seq, s)'
               PROVE  view[s] = rows'[s].chrome
    BY DEF Holds
  <2>0. /\ \A i \in 1 .. Len(deltas') : deltas'[i].seq > rev.seq => ~ Touches(deltas'[i], s)
        /\ 1 \in 1 .. Len(deltas') /\ L - k + 1 \in 1 .. Len(deltas')
    <3>1. 1 \in 1 .. Len(deltas') /\ L - k + 1 \in 1 .. Len(deltas')
      BY <1>1, <1>2
    <3> QED
      BY <3>1 DEF TouchedAfter, After, Touches
  <2>1. /\ rev.seq \in Nat /\ rev.seq # 0 /\ rev.gen = gen /\ rev.seq <= seq
        /\ deltas'[1].seq <= rev.seq + 1
    <3>1. rev.seq \in Nat /\ rev.seq # 0 /\ rev.gen = gen /\ rev.seq <= seq
      BY <1>1, <1>7 DEF Gapped, Reached, Rev
    <3>2. deltas'[1].seq \in Nat
      <4>1. deltas'[1].seq = (seq + 1) - (L - k + 1) + 1
        BY <1>1, <1>2, <1>4, <2>0 DEF LogShape
      <4> QED
        BY <1>1, <1>2, <4>1 DEF LogShape
    <3> QED
      BY <1>1, <3>1, <3>2 DEF Gapped
  <2>2. deltas'[1].seq = seq + 1 - (L - k)
    <3>1. deltas'[1].seq = (seq + 1) - (L - k + 1) + 1
      BY <1>1, <1>2, <1>4, <2>0 DEF LogShape
    <3> QED
      BY <1>1, <1>2, <3>1
  <2>3. rev.seq >= seq - (L - k)
    BY <1>1, <1>2, <2>1, <2>2
  <2>4. ~ Gapped(rev)
    <3>1. CASE rev.seq = seq
      BY <2>1, <3>1 DEF Gapped
    <3>2. CASE rev.seq < seq
      <4>1. L >= 1 /\ deltas # <<>>
        BY <1>1, <1>2, <2>1, <2>3, <3>2
      <4>2. deltas[1].seq = seq - L + 1
        BY <1>1, <1>3, <4>1
      <4> QED
        BY <1>1, <1>2, <2>1, <2>3, <4>1, <4>2 DEF Gapped
    <3> QED
      BY <1>1, <2>1, <3>1, <3>2
  <2>5. ~ Touches(d, s)
    <3>1. deltas'[L - k + 1] = d /\ d.seq > rev.seq
      BY <1>1, <1>2, <2>1
    <3> QED
      BY <2>0, <3>1
  <2>6. ASSUME NEW i \in 1 .. L, deltas[i].seq > rev.seq PROVE ~ Touches(deltas[i], s)
    <3>1. i > k
      BY <1>1, <1>2, <1>3, <2>1, <2>3, <2>6
    <3>2. i - k \in 1 .. L - k /\ (i - k) + k = i
      BY <1>1, <3>1
    <3>3. deltas'[i - k] = deltas[i] /\ i - k \in 1 .. Len(deltas')
      BY <1>1, <1>2, <3>2
    <3> QED
      BY <2>0, <2>6, <3>3
  <2>7. view[s] = rows[s].chrome
    BY <1>7, <2>4, <2>6 DEF Holds, TouchedAfter, After
  <2> QED
    BY <1>5, <1>7, <2>5, <2>7
<1> QED
  BY <1>4, <1>6, <1>7

\* A patch that installs logs exactly the chrome it changes.
LEMMA LinkedInstall ==
    ASSUME DeltaInv, NEW w \in Workers, Install(w)
    PROVE  Linked'
<1>1. /\ TypeInv /\ TypeOK /\ work[w] \in WorkState /\ work[w].plan # <<>>
      /\ seq \in Nat /\ work[w].seq = seq /\ Patching(w)
  BY DEF DeltaInv, TypeInv, TypeOK, PlansOK, Install, Guard, Patching
<1>2. Chrome(work[w].snap) = Chrome(rows) \/ ~ roots.known
  BY <1>1 DEF DeltaInv, SnapshotsHold
<1>3. /\ rows' = Patched(w) /\ roots' = roots /\ gen' = gen /\ client' = client /\ loaded' = TRUE
      /\ work' = [work EXCEPT ![w] = Returned(work[w])]
  BY <1>1, DoneType DEF Install
<1>4. Returned(work[w]).pc \in {"idle", "enter"}
  BY <1>1, ReturnedType
<1>5. RootsLoaded'
  BY <1>3 DEF RootsLoaded
<1>6. \A c \in Clients : /\ client[c].rev \in Rev /\ client[c].page.rev \in Rev
                         /\ client[c].view \in View /\ client[c].page.view \in View
                         /\ Reached(client[c].rev) /\ Reached(client[c].page.rev)
                         /\ roots.known => /\ Holds(client[c].view, client[c].rev)
                                           /\ Holds(client[c].page.view, client[c].page.rev)
  BY <1>1 DEF DeltaInv, RevisionsKnown, ViewsHold, TypeOK, ClientState
<1>7. CASE \E s \in Sessions : Touches(PatchDelta(w), s)
  <2>1. seq' = seq + 1 /\ deltas' = Logged(PatchDelta(w))
    BY <1>7 DEF Install
  <2>2. /\ LogShape' /\ LastDeltaWins'
        /\ roots.known =>
             \A view \in View, rev \in Rev :
                 Reached(rev) /\ Holds(view, rev) => Holds(view, rev)'
    BY <1>2, <1>3, <2>1, LinkedBump
  <2>3. SnapshotsHold'
    <3> SUFFICES ASSUME NEW v \in Workers, Patching(v)'
                 PROVE  work'[v].seq \in Nat /\ work'[v].seq < seq'
      BY <1>1, <2>1 DEF SnapshotsHold
    <3>1. v # w /\ work'[v] = work[v]
      BY <1>1, <1>3, <1>4 DEF Patching, TypeOK
    <3>2. work[v].seq <= seq /\ work[v].seq \in Nat
      BY <3>1, <1>1 DEF DeltaInv, SnapshotsHold, Patching, TypeOK, WorkState
    <3> QED
      BY <1>1, <2>1, <3>1, <3>2
  <2>4. ViewsHold'
    <3>1. ASSUME roots.known, NEW c \in Clients
          PROVE  /\ Holds(client[c].view, client[c].rev)'
                 /\ Holds(client[c].page.view, client[c].page.rev)'
      <4>1. \A view \in View, rev \in Rev : Reached(rev) /\ Holds(view, rev) => Holds(view, rev)'
        BY <2>2, <3>1
      <4>2. ASSUME NEW view \in View, NEW rev \in Rev, Holds(view, rev)'
            PROVE  /\ view = client[c].view /\ rev = client[c].rev
                        => Holds(client[c].view, client[c].rev)'
                   /\ view = client[c].page.view /\ rev = client[c].page.rev
                        => Holds(client[c].page.view, client[c].page.rev)'
        BY <1>3, <4>2 DEF Holds, Gapped, TouchedAfter, After, Touches
      <4>3. Holds(client[c].view, client[c].rev)'
        BY <1>6, <3>1, <4>1, <4>2
      <4>4. Holds(client[c].page.view, client[c].page.rev)'
        BY <1>6, <3>1, <4>1, <4>2
      <4> QED
        BY <4>3, <4>4
    <3> QED
      BY <1>3, <3>1 DEF ViewsHold
  <2>5. RevisionsKnown'
    <3>1. \A rev \in Rev : Reached(rev) => Reached(rev)'
      BY <1>1, <1>3, <2>1 DEF Reached, Rev
    <3> QED
      BY <1>3, <1>6, <3>1 DEF RevisionsKnown, Reached
  <2> QED
    BY <1>5, <2>2, <2>3, <2>4, <2>5 DEF Linked
<1>8. CASE ~ \E s \in Sessions : Touches(PatchDelta(w), s)
  <2>1. seq' = seq /\ deltas' = deltas
    BY <1>8 DEF Install
  <2>2. ASSUME roots.known, NEW s \in Sessions PROVE rows'[s].chrome = rows[s].chrome
    BY <1>1, <1>2, <1>3, <1>8, <2>2, PatchTells
  <2>3. roots.known => Chrome(rows') = Chrome(rows)
    BY <2>2 DEF Chrome
  <2>4. LogShape' /\ LastDeltaWins'
    BY <1>3, <2>1, <2>2 DEF DeltaInv, LogShape, LastDeltaWins, Touches
  <2>5. SnapshotsHold'
    <3> SUFFICES ASSUME NEW v \in Workers, Patching(v)'
                 PROVE  /\ work'[v].seq <= seq
                        /\ roots.known /\ work'[v].seq = seq => Chrome(work'[v].snap) = Chrome(rows')
      BY <1>3, <2>1 DEF SnapshotsHold, Chrome
    <3>1. v # w /\ work'[v] = work[v] /\ Patching(v)
      BY <1>1, <1>3, <1>4 DEF Patching, TypeOK
    <3> QED
      BY <2>3, <3>1 DEF DeltaInv, SnapshotsHold
  <2>6. ViewsHold'
    BY <1>3, <1>6, <2>1, <2>2 DEF ViewsHold, Holds, Gapped, TouchedAfter, After, Touches
  <2>7. RevisionsKnown'
    BY <1>3, <1>6, <2>1 DEF RevisionsKnown, Reached
  <2> QED
    BY <1>5, <2>4, <2>5, <2>6, <2>7 DEF Linked
<1> QED
  BY <1>7, <1>8

\* The steps of a thread that do not install a patch.
LEMMA LinkedWork ==
    ASSUME DeltaInv, NEW w \in Workers, Begin(w) \/ PatchStep(w), ~ Install(w)
    PROVE  Linked'
<1>1. /\ TypeInv /\ TypeOK /\ Linked /\ work \in [Workers -> WorkState]
      /\ work[w] \in WorkState /\ (work[w].pc # "idle" => work[w].plan # <<>>)
  BY DEF DeltaInv, Linked, TypeInv, TypeOK, PlansOK
<1> DEFINE Kept(new) == new.pc \in {"stat", "read", "find", "install"} =>
                            \/ new.seq = seq /\ new.snap = rows
                            \/ Patching(w) /\ new.seq = work[w].seq /\ new.snap = work[w].snap
<1>2. ASSUME Still, client' = client, NEW new, work' = [work EXCEPT ![w] = new], Kept(new)
      PROVE  Linked'
  <2>1. SnapshotsHold'
    BY <1>1, <1>2, StillWork
  <2> QED
    BY <1>1, <1>2, <2>1, StillLog, StillClients DEF Linked
<1>3. ASSUME NEW plan, NEW dirs, Start(w, plan, dirs)
      PROVE  \E new : work' = [work EXCEPT ![w] = new] /\ Kept(new)
  <2> DEFINE new == [IdleWork EXCEPT !.pc = "enter", !.plan = plan, !.dirs = dirs]
  <2>1. work' = [work EXCEPT ![w] = new]
    BY <1>3 DEF Start
  <2>2. new.pc = "enter"
    BY DEF IdleWork
  <2> QED
    BY <2>1, <2>2
<1>4. CASE Begin(w)
  <2>1. Still /\ client' = client
    BY <1>4 DEF Begin, Poll, Watch, AfterWrite, Delete, Still, cacheVars
  <2>2. \E new : work' = [work EXCEPT ![w] = new] /\ Kept(new)
    BY <1>3, <1>4 DEF Begin, Poll, Watch, AfterWrite, Delete
  <2> QED
    BY <1>2, <2>1, <2>2
<1>5. ASSUME work[w].pc # "idle", Done(w)
      PROVE  \E new : work' = [work EXCEPT ![w] = new] /\ Kept(new)
  <2>1. work' = [work EXCEPT ![w] = Returned(work[w])]
    BY <1>1, <1>5, DoneType
  <2>2. Returned(work[w]).pc \in {"idle", "enter"}
    BY <1>1, <1>5, ReturnedType
  <2> QED
    BY <2>1, <2>2
<1>6. CASE EnterSkip(w) \/ Waited(w) \/ Abandon(w)
  <2>1. Still /\ client' = client /\ work[w].pc # "idle" /\ Done(w)
    BY <1>6 DEF EnterSkip, Waited, Abandon, Still, cacheVars
  <2> QED
    BY <1>2, <1>5, <2>1
<1>7. CASE EnterGet(w)
  <2>1. /\ ~ loaded /\ roots' = roots /\ deltas' = deltas /\ gen' = gen /\ seq' = seq
        /\ client' = client /\ work' = [work EXCEPT ![w].pc = "kick"]
    BY <1>7 DEF EnterGet
  <2>2. LogShape' /\ LastDeltaWins' /\ ViewsHold' /\ RootsLoaded'
    BY <2>1, LinkedSeed
  <2>3. roots'.known = FALSE
    BY <1>1, <2>1 DEF Linked, RootsLoaded, TypeOK, Roots
  <2>4. \A v \in Workers : Patching(v)' => Patching(v) /\ work'[v].seq = work[v].seq
    BY <1>1, <2>1 DEF Patching, WorkState
  <2>5. SnapshotsHold'
    BY <1>1, <2>1, <2>3, <2>4 DEF Linked, SnapshotsHold
  <2>6. RevisionsKnown'
    BY <1>1, <2>1 DEF Linked, RevisionsKnown, Reached
  <2> QED
    BY <2>2, <2>5, <2>6 DEF Linked
<1>8. CASE GetKick(w)
  <2>1. Still /\ client' = client /\ work' = [work EXCEPT ![w] = [work[w] EXCEPT !.pc = "wait"]]
    BY <1>1, <1>8 DEF GetKick, Still, cacheVars
  <2>2. Kept([work[w] EXCEPT !.pc = "wait"])
    BY <1>1 DEF WorkState
  <2> QED
    BY <1>2, <2>1, <2>2
<1>9. CASE Enter(w)
  <2> DEFINE me == [work[w] EXCEPT !.snap = rows, !.seq = seq]
             dirs == [me EXCEPT !.todo = me.dirs]
             store == [me EXCEPT !.todo = {s \in StoreSessions : kind[s] = "listed"}]
             new == CASE Call(w) = "dirs" -> Looked(dirs)
                      [] Call(w) = "store" -> Looked(store)
                      [] OTHER -> [me EXCEPT !.pc = "find"]
  <2>1. Still /\ client' = client /\ work' = [work EXCEPT ![w] = new]
    BY <1>9 DEF Enter, Still, cacheVars
  <2>2. me \in WorkState /\ me.plan # <<>> /\ me.snap = rows /\ me.seq = seq
    BY <1>1, <1>9 DEF Enter, WorkState, TypeOK
  <2>3. /\ dirs \in WorkState /\ dirs.plan # <<>> /\ dirs.snap = rows /\ dirs.seq = seq
        /\ store \in WorkState /\ store.plan # <<>> /\ store.snap = rows /\ store.seq = seq
    <3>1. {s \in StoreSessions : kind[s] = "listed"} \in SUBSET Sessions
      BY SessionsAssumption
    <3> QED
      BY <2>2, <3>1 DEF WorkState
  <2>4. [me EXCEPT !.pc = "find"].snap = rows /\ [me EXCEPT !.pc = "find"].seq = seq
    BY <2>2 DEF WorkState
  <2>5. Kept(new)
    BY <2>3, <2>4, LookedType
  <2> QED
    BY <1>2, <2>1, <2>5
<1>10. ASSUME NEW s \in Sessions, Stat(w, s) PROVE Linked'
  <2> DEFINE me == [work[w] EXCEPT !.todo = @ \ {s}]
             dropped == [me EXCEPT !.drop = @ \union {s}]
             reading == [me EXCEPT !.pc = "read", !.at = {s}, !.stamp = RowOnDisk(s)]
             new == IF Call(w) = "dirs" /\ kind[s] = "child" THEN Looked(dropped)
                    ELSE IF Unmoved(s) THEN Looked(me) ELSE reading
  <2>1. Still /\ client' = client /\ work' = [work EXCEPT ![w] = new] /\ Patching(w)
    BY <1>10 DEF Stat, Still, Patching
  <2>2. /\ me \in WorkState /\ me.plan # <<>>
        /\ me.snap = work[w].snap /\ me.seq = work[w].seq
    BY <1>1, <1>10 DEF Stat, WorkState
  <2>3. /\ dropped \in WorkState /\ dropped.plan # <<>>
        /\ dropped.snap = work[w].snap /\ dropped.seq = work[w].seq
        /\ reading.snap = work[w].snap /\ reading.seq = work[w].seq
    BY <2>2 DEF WorkState
  <2>4. Kept(new)
    BY <2>1, <2>2, <2>3, LookedType
  <2> QED
    BY <1>2, <2>1, <2>4
<1>11. ASSUME NEW s \in Sessions, Read(w, s) PROVE Linked'
  <2> DEFINE me == [work[w] EXCEPT !.at = {}, !.stamp = NoRow]
             row == RowOnDisk(s)
             found == IF row = NoRow THEN [me EXCEPT !.drop = @ \union {s}]
                      ELSE [me EXCEPT !.new[s] = row]
  <2>1. Still /\ client' = client /\ work' = [work EXCEPT ![w] = Looked(found)] /\ Patching(w)
    BY <1>11 DEF Read, Still, Patching
  <2>2. /\ me \in WorkState /\ me.plan # <<>>
        /\ me.snap = work[w].snap /\ me.seq = work[w].seq
    BY <1>1, <1>11, RowFacts DEF Read, WorkState
  <2>3. row \in Row
    BY <1>1, DiskRows
  <2>4. [me.new EXCEPT ![s] = row] \in Table
    BY <2>2, <2>3 DEF WorkState, Table
  <2>5. /\ found \in WorkState /\ found.plan # <<>>
        /\ found.snap = work[w].snap /\ found.seq = work[w].seq
    BY <2>2, <2>4 DEF WorkState
  <2>6. Kept(Looked(found))
    BY <2>1, <2>5, LookedType
  <2> QED
    BY <1>2, <2>1, <2>6
<1>12. CASE Find(w)
  <2> DEFINE found == {s \in Listed(work[w].snap) : Lost(w, s)}
             install == [work[w] EXCEPT !.pc = "install", !.drop = found]
             new == IF found = {} THEN Returned(work[w]) ELSE install
  <2>1. Still /\ client' = client /\ work' = [work EXCEPT ![w] = new] /\ Patching(w)
    BY <1>12 DEF Find, Still, cacheVars, Patching
  <2>2. install.snap = work[w].snap /\ install.seq = work[w].seq
    BY <1>1 DEF WorkState
  <2>3. Returned(work[w]).pc \in {"idle", "enter"}
    BY <1>1, <1>12, ReturnedType DEF Find
  <2>4. Kept(new)
    BY <2>1, <2>2, <2>3
  <2> QED
    BY <1>2, <2>1, <2>4
<1> QED
  BY <1>4, <1>6, <1>7, <1>8, <1>9, <1>10, <1>11, <1>12 DEF PatchStep

-----------------------------------------------------------------------------
\* Every step of the catalog, or none, keeps the invariant of the delta protocol.
LEMMA DeltaStep == DeltaInv /\ [Next]_vars => DeltaInv'
<1> SUFFICES ASSUME DeltaInv, [Next]_vars PROVE DeltaInv'
  OBVIOUS
<1>1. TypeInv' /\ Linked
  BY TypeStep DEF DeltaInv, Linked
<1> SUFFICES Linked'
  BY <1>1 DEF DeltaInv, Linked
<1>2. ASSUME Still, work' = work, client' = client PROVE Linked'
  BY <1>1, <1>2, StillAll
<1>3. CASE UNCHANGED vars
  BY <1>2, <1>3 DEF vars, cacheVars, Still
<1>4. CASE Environment
  <2>1. ASSUME NEW s \in Sessions,
               WriteChrome(s) \/ WriteMeter(s) \/ Appear(s) \/ Vanish(s) \/ BecomeChild(s)
        PROVE  Linked'
    BY <1>2, <2>1 DEF WriteChrome, WriteMeter, Appear, Vanish, BecomeChild, cacheVars, Still
  <2>2. CASE Expire
    BY <1>2, <2>2 DEF Expire, Still
  <2> QED
    BY <1>4, <2>1, <2>2, LinkedInvalidate, LinkedRestart DEF Environment
<1>5. CASE RebuildStep \/ RebuildFail
  <2>1. ASSUME NEW s \in Sessions, RebuildRead(s) PROVE Linked'
    BY <1>2, <2>1 DEF RebuildRead, cacheVars, Still
  <2>2. CASE RebuildEnd \/ RebuildFail
    BY <1>2, <2>2 DEF RebuildEnd, RebuildFail, cacheVars, Still
  <2> QED
    BY <1>5, <2>1, <2>2, LinkedRebuild DEF RebuildStep
<1>6. ASSUME NEW c \in Clients, ListStep(c) PROVE Linked'
  BY <1>6, LinkedList
<1>7. ASSUME NEW w \in Workers, Begin(w) \/ PatchStep(w) PROVE Linked'
  BY <1>7, LinkedInstall, LinkedWork
<1> QED
  BY <1>3, <1>4, <1>5, <1>6, <1>7 DEF Next

\* Whatever threads rebuild, patch and invalidate while a client polls, the
\* revision it holds is either gapped, so that it gets a full page, or the
\* deltas it is sent bring its list to what the owner lists (delta_since,
\* list_for_rpc).
THEOREM DeltasAlwaysCatchUp == Spec => []DeltasCatchUp
<1>1. Init => DeltaInv
  BY TypeInit, LinkedInit DEF DeltaInv, Linked
<1>2. DeltaInv => DeltasCatchUp
  <2> SUFFICES ASSUME DeltaInv, roots.known, NEW c \in Clients, ~ Gapped(client[c].rev)
               PROVE  Replayed(client[c].view, client[c].rev.seq) = Chrome(rows)
    BY DEF DeltasCatchUp
  <2>1. client[c].view \in View /\ client[c].rev.seq \in Nat
    BY DEF DeltaInv, TypeInv, TypeOK, ClientState, Rev
  <2>2. \A s \in Sessions : ~ TouchedAfter(client[c].rev.seq, s) => client[c].view[s] = rows[s].chrome
    BY DEF DeltaInv, ViewsHold, Holds
  <2> QED
    BY <2>1, <2>2, ReplayCatchesUp DEF DeltaInv, TypeInv
<1> QED
  BY <1>1, <1>2, DeltaStep, PTL DEF Spec

-----------------------------------------------------------------------------
(***************************************************************************)
(* No install puts an older chrome back.  Whatever table a thread carries, *)
(* it read from the disk, which only moves on (NothingInvented).  What a   *)
(* rebuild has read is as new as the table it will replace, which stands   *)
(* still while it builds (ScanNewer); what a patch has read is as new as   *)
(* the table while the revision it started from is the current one         *)
(* (ReadNewer), and on another it is abandoned.                            *)
(***************************************************************************)
AtMost(t, d) == \A s \in Sessions : t[s].chrome <= d[s].chrome
Newer(t, than) == \A s \in Sessions : t[s] # NoRow => t[s].chrome >= than[s].chrome

NothingInvented ==
    /\ AtMost(rows, data) /\ AtMost(saved, data) /\ AtMost(build.scan, data)
    /\ \A w \in Workers : AtMost(work[w].snap, data) /\ AtMost(work[w].new, data)
ScanNewer == build.pc \in {"scan", "install"} /\ roots.known => Newer(build.scan, rows)
ReadNewer ==
    \A w \in Workers :
        /\ Patching(w) /\ roots.known /\ work[w].seq = seq => Newer(work[w].new, rows)
        /\ ~ Patching(w) => work[w].new = EmptyTable
ChromeInv == NothingInvented /\ ScanNewer /\ ReadNewer

LEMMA EmptyFacts ==
    /\ \A s \in Sessions : EmptyTable[s] = NoRow /\ EmptyTable[s].chrome = 0
    /\ IdleWork.new = EmptyTable /\ IdleWork.snap = EmptyTable
    /\ NoBuild.scan = EmptyTable /\ NoBuild.pc = "idle"
    /\ \A t : Newer(EmptyTable, t)
  BY DEF EmptyTable, NoRow, IdleWork, NoBuild, Newer

\* The tables of the state are tables.
LEMMA Tables ==
    ASSUME TypeOK
    PROVE  /\ rows \in Table /\ saved \in Table /\ build.scan \in Table
           /\ \A w \in Workers : work[w].snap \in Table /\ work[w].new \in Table
           /\ \A t \in Table, s \in Sessions : t[s].chrome \in Nat /\ (t[s].chrome = 0 <=> t[s] = NoRow)
           /\ \A s \in Sessions : data[s].chrome \in Nat
           /\ AtMost(EmptyTable, data)
<1>1. \A t \in Table, s \in Sessions : t[s].chrome \in Nat /\ (t[s].chrome = 0 <=> t[s] = NoRow)
  BY RowFacts DEF Table
<1>2. \A s \in Sessions : data[s].chrome \in Nat
  BY RowFacts DEF TypeOK
<1> QED
  BY <1>1, <1>2, EmptyFacts DEF TypeOK, BuildState, WorkState, AtMost

\* What was read stays at most what the disk holds.
LEMMA AtMostGrows ==
    ASSUME TypeOK, NEW t \in Table, AtMost(t, data), NEW later,
           \A s \in Sessions : later[s].chrome \in Nat /\ later[s].chrome >= data[s].chrome
    PROVE  AtMost(t, later)
<1> SUFFICES ASSUME NEW s \in Sessions PROVE t[s].chrome <= later[s].chrome
  BY DEF AtMost
<1>1. t[s].chrome \in Nat /\ data[s].chrome \in Nat /\ t[s].chrome <= data[s].chrome
  BY Tables DEF AtMost
<1> QED
  BY <1>1

\* What a thread finds on the disk is at least as new as any table.
LEMMA ReadsNewer ==
    ASSUME TypeOK, NEW t \in Table, AtMost(t, data), NEW s \in Sessions
    PROVE  /\ RowOnDisk(s) # NoRow => RowOnDisk(s).chrome >= t[s].chrome
           /\ RowOnDisk(s).chrome <= data[s].chrome
           /\ RowInScan(s) # NoRow => RowInScan(s).chrome >= t[s].chrome
           /\ RowInScan(s).chrome <= data[s].chrome
<1>1. t[s].chrome \in Nat /\ data[s].chrome \in Nat /\ t[s].chrome <= data[s].chrome
  BY Tables DEF AtMost
<1> QED
  BY <1>1 DEF RowOnDisk, RowInScan, NoRow

\* The disk moves on under the tables.
DiskGrows == \A s \in Sessions : data'[s].chrome \in Nat /\ data'[s].chrome >= data[s].chrome

LEMMA DiskGrowsOn ==
    ASSUME TypeOK, data' = data \/ \E s \in Sessions : data' = [data EXCEPT ![s].chrome = @ + 1]
                                                    \/ data' = [data EXCEPT ![s].meter = @ + 1]
    PROVE  DiskGrows
<1>1. \A s \in Sessions : data[s].chrome \in Nat /\ data[s] \in Files
  BY Tables DEF TypeOK
<1>2. CASE data' = data
  BY <1>1, <1>2 DEF DiskGrows
<1>3. ASSUME NEW s \in Sessions, data' = [data EXCEPT ![s].chrome = @ + 1]
      PROVE  DiskGrows
  <2> DEFINE moved == [data[s] EXCEPT !.chrome = @ + 1]
  <2>1. moved.chrome = data[s].chrome + 1
    BY <1>1 DEF Files
  <2>2. \A r \in Sessions : data'[r] = IF r = s THEN moved ELSE data[r]
    BY <1>3 DEF TypeOK
  <2> HIDE DEF moved
  <2> QED
    BY <1>1, <2>1, <2>2 DEF DiskGrows
<1>4. ASSUME NEW s \in Sessions, data' = [data EXCEPT ![s].meter = @ + 1]
      PROVE  DiskGrows
  <2> DEFINE moved == [data[s] EXCEPT !.meter = @ + 1]
  <2>1. moved.chrome = data[s].chrome
    BY <1>1 DEF Files
  <2>2. \A r \in Sessions : data'[r] = IF r = s THEN moved ELSE data[r]
    BY <1>4 DEF TypeOK
  <2> HIDE DEF moved
  <2> QED
    BY <1>1, <2>1, <2>2 DEF DiskGrows
<1> QED
  BY <1>2, <1>3, <1>4

LEMMA InventedGrows ==
    ASSUME TypeOK, NothingInvented, DiskGrows
    PROVE  /\ AtMost(rows, data') /\ AtMost(saved, data') /\ AtMost(build.scan, data')
           /\ \A w \in Workers : AtMost(work[w].snap, data') /\ AtMost(work[w].new, data')
           /\ AtMost(EmptyTable, data')
<1>1. \A t \in Table : AtMost(t, data) => AtMost(t, data')
  BY AtMostGrows DEF DiskGrows
<1> QED
  BY <1>1, Tables, RowFacts DEF NothingInvented

\* A step that leaves the tables to themselves.
LEMMA ChromeStays ==
    ASSUME TypeOK, ChromeInv, DiskGrows, UNCHANGED <<rows, saved, roots, seq, build, work>>
    PROVE  ChromeInv'
<1>1. NothingInvented'
  BY InventedGrows DEF ChromeInv, NothingInvented
<1> QED
  BY <1>1 DEF ChromeInv, ScanNewer, ReadNewer, Patching

\* A step of one thread that leaves the catalog to itself.
LEMMA ChromeWork ==
    ASSUME TypeOK, ChromeInv, DiskGrows, UNCHANGED <<rows, saved, roots, seq, build>>,
           NEW w \in Workers, NEW me, work' = [work EXCEPT ![w] = me],
           AtMost(me.snap, data'), AtMost(me.new, data'),
           IF me.pc \in {"stat", "read", "find", "install"}
           THEN roots.known /\ me.seq = seq => Newer(me.new, rows)
           ELSE me.new = EmptyTable
    PROVE  ChromeInv'
<1>1. work'[w] = me /\ \A v \in Workers : v # w => work'[v] = work[v]
  BY DEF TypeOK
<1>2. NothingInvented'
  BY <1>1, InventedGrows DEF ChromeInv, NothingInvented
<1>3. ReadNewer'
  BY <1>1 DEF ChromeInv, ReadNewer, Patching
<1> QED
  BY <1>2, <1>3 DEF ChromeInv, ScanNewer

\* A call that returns carries nothing; one that goes on carries what it did.
LEMMA ReturnsEmpty ==
    ASSUME NEW me \in WorkState, me.plan # <<>>
    PROVE  /\ Returned(me).new = EmptyTable /\ Returned(me).snap = EmptyTable
           /\ Returned(me).pc \in {"idle", "enter"}
<1>1. CASE Len(me.plan) = 1
  BY <1>1, ReturnedType, EmptyFacts DEF Returned
<1>2. CASE Len(me.plan) # 1
  <2>1. Returned(me) = [IdleWork EXCEPT !.pc = "enter", !.plan = Tail(me.plan), !.dirs = me.dirs]
    BY <1>2 DEF Returned
  <2> QED
    BY <2>1, ReturnedType DEF IdleWork
<1> QED
  BY <1>1, <1>2

LEMMA LookedCarries ==
    ASSUME NEW me \in WorkState, me.plan # <<>>
    PROVE  \/ /\ Looked(me).pc \in {"stat", "install"} /\ Looked(me).new = me.new
              /\ Looked(me).snap = me.snap /\ Looked(me).seq = me.seq
           \/ /\ Looked(me).pc \in {"idle", "enter"}
              /\ Looked(me).new = EmptyTable /\ Looked(me).snap = EmptyTable
<1>1. CASE me.todo # {}
  BY <1>1 DEF Looked, WorkState
<1>2. CASE me.todo = {} /\ me.new = EmptyTable /\ me.drop = {}
  BY <1>2, ReturnsEmpty DEF Looked
<1>3. CASE me.todo = {} /\ ~ (me.new = EmptyTable /\ me.drop = {})
  BY <1>3 DEF Looked, WorkState
<1> QED
  BY <1>1, <1>2, <1>3

LEMMA ChromeInit == Init => ChromeInv
<1> SUFFICES ASSUME Init PROVE ChromeInv
  OBVIOUS
<1>1. TypeOK
  BY TypeInit DEF TypeInv
<1>2. AtMost(EmptyTable, data)
  BY <1>1, Tables
<1> QED
  BY <1>2, EmptyFacts DEF Init, ChromeInv, NothingInvented, ScanNewer, ReadNewer, NoRoots, Patching, IdleWork

LEMMA ChromeEnvironment == DeltaInv /\ ChromeInv /\ Environment => ChromeInv'
<1> SUFFICES ASSUME DeltaInv, ChromeInv, Environment PROVE ChromeInv'
  OBVIOUS
<1>1. TypeOK /\ DiskGrows
  <2>1. TypeOK
    BY DEF DeltaInv, TypeInv
  <2>2. data' = data \/ \E s \in Sessions : data' = [data EXCEPT ![s].chrome = @ + 1]
                                           \/ data' = [data EXCEPT ![s].meter = @ + 1]
    BY DEF Environment, WriteChrome, WriteMeter, Appear, Vanish, BecomeChild, Expire, Invalidate, Restart
  <2> QED
    BY <2>1, <2>2, DiskGrowsOn
<1>2. CASE \/ Expire
           \/ \E s \in Sessions : WriteChrome(s) \/ WriteMeter(s) \/ Appear(s) \/ Vanish(s) \/ BecomeChild(s)
  <2>1. UNCHANGED <<rows, saved, roots, seq, build, work>>
    BY <1>2 DEF WriteChrome, WriteMeter, Appear, Vanish, BecomeChild, Expire, cacheVars
  <2> QED
    BY <1>1, <2>1, ChromeStays
<1>3. CASE Invalidate
  <2>1. rows' = EmptyTable /\ roots'.known = FALSE /\ UNCHANGED <<saved, seq, build, work>>
    BY <1>3 DEF Invalidate, NoRoots
  <2> QED
    BY <1>1, <2>1, InventedGrows DEF ChromeInv, NothingInvented, ScanNewer, ReadNewer, Patching
<1>4. CASE Restart
  <2>1. /\ rows' = EmptyTable /\ roots'.known = FALSE /\ saved' = saved /\ build' = NoBuild
        /\ work' = [w \in Workers |-> IdleWork]
    BY <1>4 DEF Restart, NoRoots
  <2>2. NothingInvented'
    BY <1>1, <2>1, InventedGrows, EmptyFacts DEF ChromeInv, NothingInvented
  <2> QED
    BY <2>1, <2>2, EmptyFacts DEF ChromeInv, ScanNewer, ReadNewer, Patching, IdleWork
<1> QED
  BY <1>2, <1>3, <1>4 DEF Environment

\* A rebuild starts with nothing read, or goes on.
LEMMA ChromeKick ==
    ASSUME TypeOK, ChromeInv, NEW force, Kick(force), UNCHANGED <<data, saved, rows, roots>>
    PROVE  /\ ScanNewer' /\ AtMost(build'.scan, data')
<1>1. build' = build \/ build'.scan = EmptyTable
  <2> DEFINE new == [NoBuild EXCEPT !.pc = "scan", !.todo = Sessions, !.roots = Fingerprint]
  <2>1. new.scan = EmptyTable
    BY DEF NoBuild
  <2>2. build' = build \/ build' = new
    BY DEF Kick
  <2> QED
    BY <2>1, <2>2
<1> QED
  BY <1>1, EmptyFacts, Tables DEF ChromeInv, ScanNewer, NothingInvented

LEMMA ChromeRebuild ==
    ASSUME DeltaInv, ChromeInv, RebuildStep \/ RebuildFail
    PROVE  /\ ChromeInv'
           /\ roots.known => \A s \in Listed(rows) \intersect Listed(rows') : rows'[s].chrome >= rows[s].chrome
<1>1. /\ TypeOK /\ TypeOK'
  BY TypeStep DEF DeltaInv, TypeInv, Next
<1>2. DiskGrows
  <2>1. data' = data
    BY DEF RebuildStep, RebuildFail, RebuildInstall, RebuildEnd, RebuildRead, diskVars
  <2> QED
    BY <1>1, <2>1, DiskGrowsOn
<1>3. ASSUME rows' = rows, NEW s \in Listed(rows) PROVE rows'[s].chrome >= rows[s].chrome
  BY <1>1, <1>3, Tables DEF Listed
<1>4. ASSUME NEW s \in Sessions, RebuildRead(s)
      PROVE  ChromeInv' /\ rows' = rows
  <2> DEFINE scan == [build.scan EXCEPT ![s] = RowInScan(s)]
  <2>1. /\ UNCHANGED <<data, rows, roots, seq, work>> /\ build.pc = "scan"
        /\ build'.scan = scan /\ build'.pc \in {"scan", "install"}
        /\ saved' = scan \/ saved' = saved
    BY <1>1, <1>4 DEF RebuildRead, cacheVars, TypeOK, BuildState
  <2>2. \A r \in Sessions : scan[r] = IF r = s THEN RowInScan(s) ELSE build.scan[r]
    BY <1>1, Tables DEF Table
  <2>3. AtMost(scan, data)
    BY <1>1, <2>2, ReadsNewer, Tables DEF ChromeInv, NothingInvented, AtMost
  <2>4. roots.known => Newer(scan, rows)
    BY <1>1, <2>1, <2>2, ReadsNewer, Tables DEF ChromeInv, NothingInvented, ScanNewer, Newer
  <2> HIDE DEF scan
  <2>5. NothingInvented'
    BY <2>1, <2>3 DEF ChromeInv, NothingInvented
  <2> QED
    BY <2>1, <2>4, <2>5 DEF ChromeInv, ScanNewer, ReadNewer, Patching
<1>5. CASE RebuildEnd \/ RebuildFail
  <2>1. build' = NoBuild /\ UNCHANGED <<data, saved, rows, roots, seq, work>>
    BY <1>5 DEF RebuildEnd, RebuildFail, diskVars, cacheVars
  <2>2. NothingInvented'
    BY <1>1, <2>1, EmptyFacts, Tables DEF ChromeInv, NothingInvented
  <2>3. ScanNewer' /\ ReadNewer'
    BY <2>1, EmptyFacts DEF ChromeInv, ScanNewer, ReadNewer, Patching
  <2>4. \A s \in Listed(rows) \intersect Listed(rows') : rows'[s].chrome >= rows[s].chrome
    BY <1>3, <2>1
  <2> QED
    BY <2>2, <2>3, <2>4 DEF ChromeInv
<1>6. CASE RebuildInstall
  <2>1. /\ build.pc = "install" /\ build'.pc = "installed" /\ build'.scan = build.scan
        /\ rows' = build.scan /\ seq' = seq + 1 /\ UNCHANGED <<data, saved, work>> /\ seq \in Nat
    BY <1>1, <1>6 DEF RebuildInstall, diskVars, TypeOK, BuildState
  <2>2. NothingInvented'
    BY <2>1 DEF ChromeInv, NothingInvented
  <2>3. \A w \in Workers : Patching(w) => work[w].seq # seq'
    BY <1>1, <2>1 DEF DeltaInv, SnapshotsHold, TypeOK, WorkState
  <2>4. ReadNewer'
    BY <2>1, <2>3 DEF ChromeInv, ReadNewer, Patching
  <2>5. roots.known => Newer(rows', rows)
    BY <2>1 DEF ChromeInv, ScanNewer
  <2> QED
    BY <2>1, <2>2, <2>4, <2>5 DEF ChromeInv, ScanNewer, Newer, Listed
<1> QED
  <2>1. CASE \E s \in Sessions : RebuildRead(s)
    BY <1>4, <1>3, <2>1 DEF Listed
  <2>2. CASE RebuildEnd \/ RebuildFail
    BY <1>5, <1>3, <2>2 DEF Listed
  <2> QED
    BY <1>6, <2>1, <2>2 DEF RebuildStep

LEMMA ChromeList ==
    ASSUME DeltaInv, ChromeInv, NEW c \in Clients, ListStep(c)
    PROVE  ChromeInv' /\ (roots.known => rows' = rows)
<1>1. TypeOK /\ roots.known \in BOOLEAN
  BY DEF DeltaInv, TypeInv, TypeOK, Roots
<1>2. DiskGrows /\ data' = data
  <2>1. data' = data
    BY DEF ListStep, ListSeed, ListKick, ListRead, ListReply, diskVars
  <2> QED
    BY <1>1, <2>1, DiskGrowsOn
<1>3. CASE ListSeed(c)
  <2>1. rows' = saved /\ ~ loaded /\ UNCHANGED <<data, saved, roots, seq, build, work>>
    BY <1>3 DEF ListSeed, diskVars, Seedable
  <2>2. ~ roots.known
    BY <2>1 DEF DeltaInv, RootsLoaded
  <2> QED
    BY <2>1, <2>2 DEF ChromeInv, NothingInvented, ScanNewer, ReadNewer, Patching
<1>4. CASE ListKick(c)
  <2>1. UNCHANGED <<data, saved, rows, roots, seq, work>> /\ Kick(FALSE)
    BY <1>4 DEF ListKick, diskVars, cacheVars
  <2>2. ScanNewer' /\ AtMost(build'.scan, data')
    BY <1>1, <2>1, ChromeKick
  <2> QED
    BY <2>1, <2>2 DEF ChromeInv, NothingInvented, ReadNewer, Patching
<1>5. CASE ListRead(c) \/ ListReply(c)
  <2>1. UNCHANGED <<data, saved, rows, roots, seq, build, work>>
    BY <1>5 DEF ListRead, ListReply, diskVars, cacheVars
  <2> QED
    BY <1>1, <1>2, <2>1, ChromeStays
<1> QED
  BY <1>3, <1>4, <1>5 DEF ListStep
\* The steps of a thread that do not install a patch.
LEMMA ChromePatching ==
    ASSUME DeltaInv, ChromeInv, NEW w \in Workers, Begin(w) \/ PatchStep(w), ~ Install(w)
    PROVE  ChromeInv' /\ (roots.known => rows' = rows)
<1>1. /\ TypeOK /\ TypeInv /\ roots.known \in BOOLEAN /\ work[w] \in WorkState
      /\ (work[w].pc # "idle" => work[w].plan # <<>>)
  BY DEF DeltaInv, TypeInv, TypeOK, PlansOK, Roots
<1>2. DiskGrows
  <2>1. data' = data \/ \E s \in Sessions : data' = [data EXCEPT ![s].chrome = @ + 1]
    BY DEF Begin, Poll, Watch, AfterWrite, Delete, PatchStep, EnterSkip, EnterGet, GetKick, Waited,
           Enter, Find, Abandon, Stat, Read, diskVars
  <2> QED
    BY <1>1, <2>1, DiskGrowsOn
<1>3. /\ AtMost(rows, data') /\ AtMost(EmptyTable, data')
      /\ AtMost(work[w].snap, data') /\ AtMost(work[w].new, data')
  BY <1>1, <1>2, InventedGrows DEF ChromeInv
<1> DEFINE Good(me) == /\ AtMost(me.snap, data') /\ AtMost(me.new, data')
                       /\ IF me.pc \in {"stat", "read", "find", "install"}
                          THEN roots.known /\ me.seq = seq => Newer(me.new, rows)
                          ELSE me.new = EmptyTable
           TablesStay == UNCHANGED <<rows, saved, roots, seq, build>>
<1>4. ASSUME TablesStay, NEW me, work' = [work EXCEPT ![w] = me], Good(me)
      PROVE  ChromeInv' /\ (roots.known => rows' = rows)
  BY <1>1, <1>2, <1>4, ChromeWork
<1>5. ASSUME NEW me \in WorkState, me.plan # <<>> PROVE Good(Returned(me))
  BY <1>3, <1>5, ReturnsEmpty
<1>6. ASSUME NEW me \in WorkState, me.plan # <<>>, AtMost(me.snap, data'), AtMost(me.new, data'),
             roots.known /\ me.seq = seq => Newer(me.new, rows)
      PROVE  Good(Looked(me))
  BY <1>3, <1>6, LookedCarries
<1>7. Patching(w) => (roots.known /\ work[w].seq = seq => Newer(work[w].new, rows))
  BY DEF ChromeInv, ReadNewer
<1>8. CASE Begin(w)
  <2>1. ASSUME NEW plan, NEW dirs, Start(w, plan, dirs)
        PROVE  \E me : work' = [work EXCEPT ![w] = me] /\ Good(me)
    <3> DEFINE me == [IdleWork EXCEPT !.pc = "enter", !.plan = plan, !.dirs = dirs]
    <3>1. work' = [work EXCEPT ![w] = me]
      BY <2>1 DEF Start
    <3>2. me.pc = "enter" /\ me.new = EmptyTable /\ me.snap = EmptyTable
      BY DEF IdleWork
    <3> QED
      BY <1>3, <3>1, <3>2
  <2>2. TablesStay /\ \E me : work' = [work EXCEPT ![w] = me] /\ Good(me)
    BY <1>8, <2>1 DEF Begin, Poll, Watch, AfterWrite, Delete, cacheVars, diskVars
  <2> QED
    BY <1>4, <2>2
<1>9. CASE EnterSkip(w) \/ Waited(w) \/ Abandon(w)
  <2>1. TablesStay /\ work[w].pc # "idle" /\ Done(w)
    BY <1>9 DEF EnterSkip, Waited, Abandon, cacheVars, diskVars
  <2>2. work' = [work EXCEPT ![w] = Returned(work[w])]
    BY <1>1, <2>1, DoneType
  <2> QED
    BY <1>1, <1>4, <1>5, <2>1, <2>2
<1>10. CASE EnterGet(w)
  <2> DEFINE me == [work[w] EXCEPT !.pc = "kick"]
  <2>1. /\ ~ loaded /\ ~ Patching(w) /\ rows' \in {rows, saved} /\ roots' = roots
        /\ UNCHANGED <<data, saved, build>> /\ work' = [work EXCEPT ![w] = me]
    BY <1>10 DEF EnterGet, diskVars, Patching
  <2>2. ~ roots'.known
    BY <2>1 DEF DeltaInv, RootsLoaded
  <2>3. me.new = work[w].new /\ me.snap = work[w].snap /\ me.pc = "kick"
    BY <1>1 DEF WorkState
  <2> HIDE DEF me
  <2>4. work'[w] = me /\ \A v \in Workers : v # w => work'[v] = work[v]
    BY <1>1, <2>1 DEF TypeOK
  <2>5. NothingInvented'
    BY <2>1, <2>3, <2>4 DEF ChromeInv, NothingInvented
  <2>6. ReadNewer'
    BY <2>1, <2>2, <2>3, <2>4 DEF ChromeInv, ReadNewer, Patching
  <2> QED
    BY <2>1, <2>2, <2>5, <2>6 DEF ChromeInv, ScanNewer
<1>11. CASE GetKick(w)
  <2> DEFINE me == [work[w] EXCEPT !.pc = "wait"]
  <2>1. /\ UNCHANGED <<data, saved, rows, roots, seq>> /\ Kick(TRUE) /\ ~ Patching(w)
        /\ work' = [work EXCEPT ![w] = me]
    BY <1>11 DEF GetKick, diskVars, cacheVars, Patching
  <2>2. ScanNewer' /\ AtMost(build'.scan, data')
    BY <1>1, <2>1, ChromeKick
  <2>3. me.new = work[w].new /\ me.snap = work[w].snap /\ me.pc = "wait"
    BY <1>1 DEF WorkState
  <2> HIDE DEF me
  <2>4. work'[w] = me /\ \A v \in Workers : v # w => work'[v] = work[v]
    BY <1>1, <2>1 DEF TypeOK
  <2>5. NothingInvented'
    BY <2>1, <2>2, <2>3, <2>4 DEF ChromeInv, NothingInvented
  <2>6. ReadNewer'
    BY <2>1, <2>3, <2>4 DEF ChromeInv, ReadNewer, Patching
  <2> QED
    BY <2>1, <2>2, <2>5, <2>6 DEF ChromeInv
<1>12. CASE Enter(w)
  <2> DEFINE me == [work[w] EXCEPT !.snap = rows, !.seq = seq]
             dirs == [me EXCEPT !.todo = me.dirs]
             store == [me EXCEPT !.todo = {s \in StoreSessions : kind[s] = "listed"}]
             finding == [me EXCEPT !.pc = "find"]
             new == CASE Call(w) = "dirs" -> Looked(dirs)
                      [] Call(w) = "store" -> Looked(store)
                      [] OTHER -> finding
  <2>1. TablesStay /\ work' = [work EXCEPT ![w] = new] /\ ~ Patching(w) /\ work[w].plan # <<>>
    BY <1>1, <1>12 DEF Enter, cacheVars, diskVars, Patching
  <2>2. work[w].new = EmptyTable
    BY <2>1 DEF ChromeInv, ReadNewer
  <2>3. me \in WorkState /\ me.plan # <<>> /\ me.snap = rows /\ me.new = EmptyTable
    BY <1>1, <2>1, <2>2 DEF WorkState, TypeOK
  <2>4. /\ dirs \in WorkState /\ dirs.plan # <<>> /\ dirs.snap = rows /\ dirs.new = EmptyTable
        /\ store \in WorkState /\ store.plan # <<>> /\ store.snap = rows /\ store.new = EmptyTable
        /\ finding.snap = rows /\ finding.new = EmptyTable /\ finding.pc = "find"
    <3>1. {s \in StoreSessions : kind[s] = "listed"} \in SUBSET Sessions
      BY SessionsAssumption
    <3> QED
      BY <2>3, <3>1 DEF WorkState
  <2>5. Good(Looked(dirs)) /\ Good(Looked(store)) /\ Good(finding)
    <3> HIDE DEF dirs, store, finding
    <3> QED
      BY <1>3, <1>6, <2>4, EmptyFacts
  <2>6. Good(new)
    <3> HIDE DEF dirs, store, finding
    <3> QED
      BY <2>5
  <2> QED
    BY <1>4, <2>1, <2>6
<1>13. ASSUME NEW s \in Sessions, Stat(w, s)
       PROVE  ChromeInv' /\ (roots.known => rows' = rows)
  <2> DEFINE me == [work[w] EXCEPT !.todo = @ \ {s}]
             dropped == [me EXCEPT !.drop = @ \union {s}]
             reading == [me EXCEPT !.pc = "read", !.at = {s}, !.stamp = RowOnDisk(s)]
             new == IF Call(w) = "dirs" /\ kind[s] = "child" THEN Looked(dropped)
                    ELSE IF Unmoved(s) THEN Looked(me) ELSE reading
  <2>1. TablesStay /\ work' = [work EXCEPT ![w] = new] /\ Patching(w)
    BY <1>13 DEF Stat, diskVars, Patching
  <2>2. /\ me \in WorkState /\ me.plan # <<>>
        /\ me.snap = work[w].snap /\ me.seq = work[w].seq /\ me.new = work[w].new
    BY <1>1, <1>13 DEF Stat, WorkState
  <2>3. /\ dropped \in WorkState /\ dropped.plan # <<>> /\ dropped.new = work[w].new
        /\ dropped.snap = work[w].snap /\ dropped.seq = work[w].seq
        /\ reading.snap = work[w].snap /\ reading.seq = work[w].seq
        /\ reading.new = work[w].new /\ reading.pc = "read"
    BY <2>2 DEF WorkState
  <2>4. Good(Looked(dropped)) /\ Good(Looked(me)) /\ Good(reading)
    <3> HIDE DEF dropped, me, reading
    <3> QED
      BY <1>3, <1>6, <1>7, <2>1, <2>2, <2>3
  <2>5. Good(new)
    <3> HIDE DEF dropped, me, reading
    <3> QED
      BY <2>4
  <2> QED
    BY <1>4, <2>1, <2>5
<1>14. ASSUME NEW s \in Sessions, Read(w, s)
       PROVE  ChromeInv' /\ (roots.known => rows' = rows)
  <2> DEFINE me == [work[w] EXCEPT !.at = {}, !.stamp = NoRow]
             row == RowOnDisk(s)
             missed == [me EXCEPT !.drop = @ \union {s}]
             built == [me EXCEPT !.new[s] = row]
             found == IF row = NoRow THEN missed ELSE built
  <2>1. TablesStay /\ data' = data /\ work' = [work EXCEPT ![w] = Looked(found)] /\ Patching(w)
    BY <1>14 DEF Read, diskVars, Patching
  <2>2. /\ me \in WorkState /\ me.plan # <<>>
        /\ me.snap = work[w].snap /\ me.seq = work[w].seq /\ me.new = work[w].new
    BY <1>1, <1>14, RowFacts DEF Read, WorkState
  <2>3. row \in Row /\ me.new \in Table
    BY <1>1, <2>2, DiskRows DEF WorkState
  <2> DEFINE table == [me.new EXCEPT ![s] = row]
  <2>4. table \in Table /\ \A r \in Sessions : table[r] = IF r = s THEN row ELSE me.new[r]
    BY <2>3 DEF Table
  <2>5. /\ missed \in WorkState /\ missed.plan # <<>> /\ missed.new = work[w].new
        /\ missed.snap = work[w].snap /\ missed.seq = work[w].seq
        /\ built \in WorkState /\ built.plan # <<>> /\ built.new = table
        /\ built.snap = work[w].snap /\ built.seq = work[w].seq
    BY <2>2, <2>4 DEF WorkState
  <2>6. AtMost(table, data')
    BY <1>1, <1>3, <2>1, <2>2, <2>4, ReadsNewer, Tables DEF AtMost, ChromeInv, NothingInvented
  <2>7. row # NoRow /\ Newer(work[w].new, rows) => Newer(table, rows)
    BY <1>1, <2>2, <2>4, ReadsNewer, Tables DEF Newer, ChromeInv, NothingInvented
  <2>8. found \in WorkState /\ found.plan # <<>> /\ AtMost(found.snap, data') /\ AtMost(found.new, data')
        /\ (roots.known /\ found.seq = seq => Newer(found.new, rows))
    <3> HIDE DEF missed, built, table, row
    <3> QED
      BY <1>3, <1>7, <2>1, <2>5, <2>6, <2>7
  <2>9. Good(Looked(found))
    <3> HIDE DEF found
    <3> QED
      BY <1>6, <2>8
  <2> QED
    BY <1>4, <2>1, <2>9
<1>15. CASE Find(w)
  <2> DEFINE found == {s \in Listed(work[w].snap) : Lost(w, s)}
             install == [work[w] EXCEPT !.pc = "install", !.drop = found]
             new == IF found = {} THEN Returned(work[w]) ELSE install
  <2>1. TablesStay /\ work' = [work EXCEPT ![w] = new] /\ Patching(w) /\ work[w].plan # <<>>
    BY <1>1, <1>15 DEF Find, cacheVars, diskVars, Patching
  <2>2. /\ install.snap = work[w].snap /\ install.seq = work[w].seq /\ install.pc = "install"
        /\ install.new = work[w].new
    BY <1>1 DEF WorkState
  <2>3. Good(Returned(work[w])) /\ Good(install)
    <3> HIDE DEF install
    <3> QED
      BY <1>1, <1>3, <1>5, <1>7, <2>1, <2>2
  <2>4. Good(new)
    <3> HIDE DEF install, found
    <3> QED
      BY <2>3
  <2> QED
    BY <1>4, <2>1, <2>4
<1> QED
  BY <1>8, <1>9, <1>10, <1>11, <1>12, <1>13, <1>14, <1>15 DEF PatchStep

\* A patch that installs shows what it read, which is as new as the table, and
\* leaves the rest of the table as it was when its thread took its snapshot.
LEMMA ChromeInstall ==
    ASSUME DeltaInv, ChromeInv, NEW w \in Workers, Install(w)
    PROVE  /\ ChromeInv'
           /\ roots.known => \A s \in Listed(rows) \intersect Listed(rows') : rows'[s].chrome >= rows[s].chrome
<1>1. /\ TypeInv /\ TypeOK /\ work[w] \in WorkState /\ work[w].plan # <<>> /\ work[w].pc # "idle"
      /\ seq \in Nat /\ work[w].seq = seq /\ Patching(w) /\ ~ Building
  BY DEF DeltaInv, TypeInv, TypeOK, PlansOK, Install, Guard, Patching
<1>2. /\ rows' = Patched(w) /\ UNCHANGED <<data, saved, roots, build>> /\ Done(w)
      /\ IF \E s \in Sessions : Touches(PatchDelta(w), s) THEN seq' = seq + 1 ELSE seq' = seq
  BY DEF Install, diskVars
<1>3. work' = [work EXCEPT ![w] = Returned(work[w])]
  BY <1>1, <1>2, DoneType
<1>4. /\ work'[w] = Returned(work[w])
      /\ \A v \in Workers : v # w => work'[v] = work[v]
      /\ Returned(work[w]).pc \in {"idle", "enter"}
      /\ Returned(work[w]).new = EmptyTable /\ Returned(work[w]).snap = EmptyTable
  BY <1>1, <1>3, ReturnsEmpty DEF TypeOK
<1>5. roots.known => Chrome(work[w].snap) = Chrome(rows) /\ Newer(work[w].new, rows)
  BY <1>1 DEF DeltaInv, SnapshotsHold, ChromeInv, ReadNewer
<1>6. \A s \in Sessions : rows'[s] = IF s \in work[w].drop THEN NoRow
                                     ELSE IF work[w].new[s] # NoRow THEN work[w].new[s]
                                     ELSE work[w].snap[s]
  BY <1>2 DEF Patched
<1>7. NothingInvented'
  <2>1. AtMost(rows', data)
    BY <1>1, <1>6, Tables, EmptyFacts DEF ChromeInv, NothingInvented, AtMost
  <2>2. \A v \in Workers : AtMost(work'[v].snap, data) /\ AtMost(work'[v].new, data)
    BY <1>1, <1>4, Tables DEF ChromeInv, NothingInvented
  <2> QED
    BY <1>2, <2>1, <2>2 DEF ChromeInv, NothingInvented
<1>8. ASSUME roots.known, seq' = seq, NEW s \in Sessions PROVE rows'[s].chrome = rows[s].chrome
  <2>1. ~ Touches(PatchDelta(w), s)
    BY <1>1, <1>2, <1>8
  <2> QED
    BY <1>1, <1>2, <1>5, <1>8, <2>1, PatchTells
<1>9. ReadNewer'
  <2> SUFFICES ASSUME NEW v \in Workers
               PROVE  /\ Patching(v)' /\ roots.known /\ work'[v].seq = seq' => Newer(work'[v].new, rows')
                      /\ ~ Patching(v)' => work'[v].new = EmptyTable
    BY <1>2 DEF ReadNewer
  <2>1. CASE v = w
    BY <1>4, <2>1 DEF Patching
  <2>2. CASE v # w
    <3>1. work'[v] = work[v] /\ (~ Patching(v) => work[v].new = EmptyTable)
      BY <1>4, <2>2 DEF ChromeInv, ReadNewer
    <3>2. ASSUME Patching(v), roots.known, work[v].seq = seq' PROVE Newer(work[v].new, rows')
      <4>1. work[v].seq <= seq /\ work[v].seq \in Nat
        BY <1>1, <3>2 DEF DeltaInv, SnapshotsHold, TypeOK, WorkState
      <4>2. seq' = seq
        BY <1>1, <1>2, <3>2, <4>1
      <4>3. Newer(work[v].new, rows)
        BY <3>2, <4>2 DEF ChromeInv, ReadNewer
      <4> QED
        BY <1>8, <3>2, <4>2, <4>3 DEF Newer
    <3> QED
      BY <3>1, <3>2 DEF Patching
  <2> QED
    BY <2>1, <2>2
<1>10. ASSUME roots.known, NEW s \in Listed(rows) \intersect Listed(rows')
       PROVE  rows'[s].chrome >= rows[s].chrome
  <2>1. s \in Sessions /\ rows'[s] # NoRow /\ rows[s].chrome \in Nat
    BY <1>1, <1>10, Tables DEF Listed
  <2>2. CASE work[w].new[s] # NoRow
    BY <1>5, <1>6, <1>10, <2>1, <2>2 DEF Newer
  <2>3. CASE work[w].new[s] = NoRow
    <3>1. rows'[s] = work[w].snap[s]
      BY <1>6, <2>1, <2>3
    <3>2. work[w].snap[s].chrome = rows[s].chrome
      BY <1>5, <1>10, <2>1 DEF Chrome
    <3> QED
      BY <2>1, <3>1, <3>2
  <2> QED
    BY <2>2, <2>3
<1>11. ScanNewer'
  BY <1>1, <1>2 DEF ScanNewer, Building
<1> QED
  BY <1>7, <1>9, <1>10, <1>11 DEF ChromeInv

LEMMA ChromeStep ==
    ASSUME DeltaInv, ChromeInv, [Next]_vars
    PROVE  /\ ChromeInv'
           /\ roots.known /\ roots'.known =>
                \A s \in Listed(rows) \intersect Listed(rows') : rows'[s].chrome >= rows[s].chrome
<1>1. TypeOK
  BY DEF DeltaInv, TypeInv
<1> DEFINE Advances == \A s \in Listed(rows) \intersect Listed(rows') : rows'[s].chrome >= rows[s].chrome
<1>2. ASSUME rows' = rows PROVE Advances
  BY <1>1, <1>2, Tables DEF Listed
<1>3. CASE UNCHANGED vars
  <2>1. DiskGrows /\ UNCHANGED <<rows, saved, roots, seq, build, work>>
    BY <1>1, <1>3, DiskGrowsOn DEF vars, diskVars, cacheVars
  <2> QED
    BY <1>1, <1>2, <2>1, ChromeStays
<1>4. CASE Environment
  <2>1. ChromeInv'
    BY <1>4, ChromeEnvironment
  <2>2. CASE Invalidate \/ Restart
    <3>1. roots' = NoRoots
      BY <2>2 DEF Invalidate, Restart
    <3>2. roots'.known = FALSE
      BY <3>1 DEF NoRoots
    <3> QED
      BY <2>1, <3>2
  <2>3. CASE Expire \/ \E s \in Sessions : WriteChrome(s) \/ WriteMeter(s) \/ Appear(s)
                                           \/ Vanish(s) \/ BecomeChild(s)
    <3>1. rows' = rows
      BY <2>3 DEF WriteChrome, WriteMeter, Appear, Vanish, BecomeChild, Expire, cacheVars
    <3> QED
      BY <1>2, <2>1, <3>1
  <2> QED
    BY <1>4, <2>2, <2>3 DEF Environment
<1>5. CASE RebuildStep \/ RebuildFail
  BY <1>5, ChromeRebuild
<1>6. ASSUME NEW c \in Clients, ListStep(c) PROVE ChromeInv' /\ (roots.known => Advances)
  BY <1>2, <1>6, ChromeList
<1>7. ASSUME NEW w \in Workers, Begin(w) \/ PatchStep(w)
      PROVE  ChromeInv' /\ (roots.known => Advances)
  <2>1. CASE Install(w)
    BY <2>1, ChromeInstall
  <2>2. CASE ~ Install(w)
    BY <1>2, <1>7, <2>2, ChromePatching
  <2> QED
    BY <2>1, <2>2
<1> QED
  BY <1>3, <1>4, <1>5, <1>6, <1>7 DEF Next

\* Whatever rebuilds and patches race, no install puts an older chrome of a
\* session back over a newer one (_run_rebuild, refresh_rows and the other
\* callers of the revision check): each installs only what it read after the
\* table it replaces was read.
THEOREM ChromeAlwaysAdvances == Spec => ChromeNeverGoesBack
<1> DEFINE Inv == DeltaInv /\ ChromeInv
<1>1. Init => Inv
  BY TypeInit, LinkedInit, ChromeInit DEF DeltaInv, Linked
<1>2. Inv /\ [Next]_vars => Inv'
  BY DeltaStep, ChromeStep
<1>3. Inv /\ [Next]_vars =>
        [roots.known /\ roots'.known =>
            \A s \in Listed(rows) \intersect Listed(rows') : rows'[s].chrome >= rows[s].chrome]_vars
  BY ChromeStep
<1> QED
  BY <1>1, <1>2, <1>3, PTL DEF Spec, ChromeNeverGoesBack

=============================================================================
