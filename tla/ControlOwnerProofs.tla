-------------------------- MODULE ControlOwnerProofs --------------------------
(***************************************************************************)
(* The control owner: who is it, and what its clients are told.            *)
(*                                                                         *)
(* For any number of processes, commands and crashes two owners never      *)
(* accept clients at once.  OneOwner is not inductive.  It needs the flock *)
(* (a process holds it from before it probes until after it has stopped    *)
(* listening) and, since the legacy owner takes none, the reason nobody    *)
(* binds beside that one: while it serves its socket is at the path, so    *)
(* every probe finds it; and no command unlinks the path or signals a      *)
(* process, which would make that process unlink the path on its way out.  *)
(*                                                                         *)
(* For every set of connections and sessions, every gate and every stream, *)
(* a client finds no notification before the answer to its first request,  *)
(* and the notification of its own write only after the answer to it       *)
(* (StreamOrder).  A connection outside the broadcast set is in nobody's   *)
(* audience, so that only answers are in its stream (Quiet).  The requests *)
(* of a connection are numbered in the order they are read, and what its   *)
(* coroutine has told of bears the number of a request it has answered     *)
(* (Numbered): when an answer is written, no line before it tells of the   *)
(* same request (Ordered).                                                 *)
(***************************************************************************)
EXTENDS OwnerLifecycle, ControlServer, SequenceTheorems, NaturalsInduction, WellFoundedInduction, TLAPS

-----------------------------------------------------------------------------
(* One owner. *)

\* From the flock to the end of close.
InLock == {"locked", "clear", "bound", "serving", "closing"}
LockHeld == \A p \in Owners \ {Legacy} : proc[p] \in InLock => lock = p

LegacyUndisturbed ==
    /\ proc[Legacy] \in {"none", "serving", "dead"}
    /\ proc[Legacy] = "serving" =>
          /\ sock = Legacy /\ pidFile = None /\ term = {}
          /\ \A p \in Owners \ {Legacy} : proc[p] \notin InLock \ {"locked"}
          /\ \A c \in Commands : cmd[c].pc # "unlink" /\ (cmd[c].pc = "probe" => cmd[c].pid = None)

OwnerInv == TypeOK /\ LockHeld /\ LegacyUndisturbed

-----------------------------------------------------------------------------
\* A command that moves on keeps the type of the commands, and so does one that
\* takes a pid or targets on the way.
LEMMA CommandType ==
    ASSUME TypeOK, NEW c \in Commands, NEW x \in Pcs, NEW p \in Process,
           NEW T \in SUBSET Owners
    PROVE  /\ [cmd EXCEPT ![c].pc = x] \in [Commands -> Command]
           /\ [cmd EXCEPT ![c].pc = x, ![c].pid = p] \in [Commands -> Command]
           /\ [cmd EXCEPT ![c].targets = T, ![c].pc = x] \in [Commands -> Command]
<1>1. cmd[c] \in Command /\ cmd \in [Commands -> Command]
    BY DEF TypeOK
<1>2. /\ [cmd[c] EXCEPT !.pc = x] \in Command
      /\ [[cmd[c] EXCEPT !.pc = x] EXCEPT !.pid = p] \in Command
      /\ [[cmd[c] EXCEPT !.targets = T] EXCEPT !.pc = x] \in Command
    BY <1>1 DEF Command
<1> QED BY <1>1, <1>2

(* A command that moves on still has its fields' types. *)
LEMMA MoveType ==
    ASSUME TypeOK, NEW c \in Commands, NEW x \in Pcs
    PROVE  [cmd EXCEPT ![c].pc = x] \in [Commands -> Command]
BY CommandType, None \in Process, {} \in SUBSET Owners DEF Process

\* So does one that starts a stop.
LEMMA StopType ==
    ASSUME TypeOK, NEW c \in Commands, NEW n \in {"replaced", "start", "retry"}, Stop(c, n)
    PROVE  cmd' \in [Commands -> Command]
<1>1. cmd[c] \in Command /\ cmd \in [Commands -> Command]
    BY DEF TypeOK
<1>2. [[cmd[c] EXCEPT !.pc = "stop"] EXCEPT !.next = n] \in Command
    BY <1>1 DEF Command, Pcs
<1> QED BY <1>1, <1>2 DEF Stop

\* Where a stop returns to is a place of a command.
LEMMA NextIsPc == ASSUME TypeOK, NEW c \in Commands PROVE cmd[c].next \in Pcs
BY DEF TypeOK, Command, Pcs

\* The holders of the lock are processes.
LEMMA HoldersAreOwners == ASSUME TypeOK PROVE LockHolders \subseteq Owners
BY DEF LockHolders, TypeOK, Process

\* The initial states have the types of the state.
LEMMA TypeInit == Init => TypeOK
<1> SUFFICES ASSUME Init PROVE TypeOK
    OBVIOUS
<1> USE OwnersAssumption, MaxCrashesAssumption DEF Init, Process
<1>1. proc \in [Owners -> Places]
    BY DEF Places
<1>2. sock \in Process /\ lock \in Process /\ lockPid \in Process /\ pidFile \in Process
    BY DEF Old
<1>3. crashes \in 0 .. MaxCrashes
    OBVIOUS
<1>4. cmd \in [Commands -> Command]
  <2>1. \A k \in Kinds :
            [kind |-> k, pc |-> "begin", next |-> "done", pid |-> None, targets |-> {}] \in Command
      BY DEF Command, Pcs
  <2> QED BY <2>1
<1> QED BY <1>1, <1>2, <1>3, <1>4 DEF TypeOK

\* A step of an owner process keeps the types.
LEMMA TypeOwnerStep ==
    ASSUME TypeOK, NEW p \in Owners, OwnerStep(p) \/ Crash(p)
    PROVE  TypeOK'
<1> USE OwnersAssumption, MaxCrashesAssumption DEF TypeOK, Process, Enter, Unlock, Places
<1>1. CASE Lock(p) BY <1>1 DEF Lock
<1>2. CASE Takeover(p) BY <1>2 DEF Takeover
<1>3. CASE Bind(p) BY <1>3 DEF Bind
<1>4. CASE WritePid(p) BY <1>4 DEF WritePid
<1>5. CASE CloseListener(p) BY <1>5 DEF CloseListener
<1>6. CASE Release(p) BY <1>6 DEF Release
<1>7. CASE RemovePid(p) BY <1>7 DEF RemovePid
<1>8. CASE Crash(p) BY <1>8 DEF Crash, Die, Alive
<1> QED BY <1>1, <1>2, <1>3, <1>4, <1>5, <1>6, <1>7, <1>8 DEF OwnerStep

\* A step of a command keeps the types.
LEMMA TypeCommandStep ==
    ASSUME TypeOK, NEW c \in Commands, CommandStep(c) \/ StopKill(c)
    PROVE  TypeOK'
<1> USE DEF files, Goto
<1>1. CASE StopRead(c)
    BY <1>1, CommandType DEF StopRead, TypeOK, Pcs
<1>2. CASE StopRefuse(c)
    BY <1>2, CommandType, NextIsPc DEF StopRefuse, TypeOK, Process
<1>3. CASE StopSignal(c)
  <2> DEFINE targets == IF Alive(cmd[c].pid) THEN {cmd[c].pid} ELSE LockHolders
  <2>1. targets \subseteq Owners
      BY HoldersAreOwners DEF TypeOK, Alive, Command, Process
  <2>2. /\ cmd' = [cmd EXCEPT ![c].targets = targets,
                              ![c].pc = IF targets = {} THEN "clean" ELSE "wait"]
        /\ term' = term \union targets
        /\ UNCHANGED <<proc, files, crashes>>
      BY <1>3 DEF StopSignal
  <2> HIDE DEF targets
  <2>3. PICK x \in Pcs : cmd' = [cmd EXCEPT ![c].targets = targets, ![c].pc = x]
      BY <2>2 DEF Pcs
  <2>4. cmd' \in [Commands -> Command]
      BY <2>1, <2>3, CommandType DEF Process
  <2> QED BY <2>1, <2>2, <2>4 DEF TypeOK
<1>4. CASE StopWait(c)
    BY <1>4, CommandType DEF StopWait, TypeOK, Pcs
<1>5. CASE StopKill(c)
    BY <1>5 DEF StopKill, Die, Enter, TypeOK, Places, Process
<1>6. CASE StopCleanProbe(c)
  <2>1. PICK x \in Pcs : cmd' = [cmd EXCEPT ![c].pc = x]
      BY <1>6 DEF StopCleanProbe, Pcs
  <2>2. cmd' \in [Commands -> Command]
      BY <2>1, CommandType DEF Process
  <2>3. UNCHANGED <<proc, term, files, crashes>>
      BY <1>6 DEF StopCleanProbe
  <2> QED BY <2>2, <2>3 DEF TypeOK
<1>7. CASE StopUnlink(c)
    BY <1>7, CommandType DEF StopUnlink, TypeOK, Pcs, Process
<1>8. CASE StopRemovePid(c)
    BY <1>8, CommandType, NextIsPc DEF StopRemovePid, TypeOK, Process
<1>9. CASE StartProbe(c) \/ EnsureProbe(c) \/ Restart(c)
  <2>1. \/ \E x \in Pcs : cmd' = [cmd EXCEPT ![c].pc = x]
        \/ \E n \in {"replaced", "start", "retry"} : Stop(c, n)
      BY <1>9 DEF StartProbe, EnsureProbe, Restart, Pcs
  <2>2. cmd' \in [Commands -> Command]
      BY <2>1, MoveType, StopType
  <2>3. UNCHANGED <<proc, term, files, crashes>>
      BY <1>9 DEF StartProbe, EnsureProbe, Restart
  <2> QED BY <2>2, <2>3 DEF TypeOK
<1>13. CASE StopCheck(c) \/ EnsureReplaced(c) \/ StartRetry(c)
  <2>1. \E x \in Pcs : cmd' = [cmd EXCEPT ![c].pc = x]
      BY <1>13, NextIsPc DEF StopCheck, EnsureReplaced, StartRetry, Pcs
  <2>2. cmd' \in [Commands -> Command]
      BY <2>1, MoveType
  <2>3. UNCHANGED <<proc, term, files, crashes>>
      BY <1>13 DEF StopCheck, EnsureReplaced, StartRetry
  <2> QED BY <2>2, <2>3 DEF TypeOK
<1>10. CASE Spawn(c)
  <2>1. PICK p \in Owners \ Old :
            /\ Enter(p, "new")
            /\ cmd' = [cmd EXCEPT ![c].pc = IF @ = "spawn" THEN "await" ELSE "done", ![c].pid = p]
      BY <1>10 DEF Spawn
  <2>2. PICK x \in Pcs : cmd' = [cmd EXCEPT ![c].pc = x, ![c].pid = p]
      BY <2>1 DEF Pcs, TypeOK
  <2>3. cmd' \in [Commands -> Command]
      BY <2>2, CommandType DEF Process
  <2> QED BY <1>10, <2>1, <2>3 DEF Spawn, Enter, TypeOK, Places
<1>11. CASE Await(c)
    BY <1>11, CommandType DEF Await, TypeOK, Pcs
<1>12. CASE GiveUp(c)
  <2>1. cmd' \in [Commands -> Command]
      BY <1>12, CommandType DEF GiveUp, Pcs, Process
  <2>2. term' \subseteq Owners
      BY <1>12 DEF GiveUp, Alive, TypeOK, Command, Process
  <2>3. UNCHANGED <<proc, files, crashes>>
      BY <1>12 DEF GiveUp
  <2> QED BY <2>1, <2>2, <2>3 DEF TypeOK
<1> QED BY <1>1, <1>2, <1>3, <1>4, <1>5, <1>6, <1>7, <1>8, <1>9, <1>10, <1>11, <1>12, <1>13
        DEF CommandStep

\* The state keeps its types.
THEOREM OwnerTypeCorrect == Spec => []TypeOK
<1>1. Init => TypeOK
    BY TypeInit
<1>2. TypeOK /\ [Next]_vars => TypeOK'
  <2> SUFFICES ASSUME TypeOK, [Next]_vars PROVE TypeOK'
      OBVIOUS
  <2>1. CASE \E p \in Owners : OwnerStep(p) \/ Crash(p)
      BY <2>1, TypeOwnerStep
  <2>2. CASE \E c \in Commands : CommandStep(c) \/ StopKill(c)
      BY <2>2, TypeCommandStep
  <2>3. CASE UNCHANGED vars
      BY <2>3 DEF vars, files, TypeOK
  <2> QED BY <2>1, <2>2, <2>3 DEF Next
<1> QED BY <1>1, <1>2, PTL DEF Spec

-----------------------------------------------------------------------------
\* Initially nobody but the outdated owner holds the lock, and nobody serves
\* beside the legacy owner.
LEMMA OwnerInit == Init => LockHeld /\ LegacyUndisturbed
<1> SUFFICES ASSUME Init PROVE LockHeld /\ LegacyUndisturbed
    OBVIOUS
<1>1. PICK q \in Old, x \in {"serving", "dead", "none"} :
        /\ proc = [p \in Owners |-> IF p = q THEN x ELSE "none"]
        /\ term = {}
        /\ sock = IF x = "none" THEN None ELSE q
        /\ lock = IF q = Outdated /\ x = "serving" THEN q ELSE None
        /\ lockPid = IF q = Outdated /\ x # "none" THEN q ELSE None
        /\ pidFile = lockPid
        /\ cmd \in [Commands -> {[kind |-> k, pc |-> "begin", next |-> "done",
                                  pid |-> None, targets |-> {}] : k \in Kinds}]
    BY DEF Init
<1>2. LockHeld
    BY <1>1, OwnersAssumption DEF LockHeld, InLock, Old
<1>3. \A c \in Commands : cmd[c].pc = "begin"
  <2>1. \A k \in Kinds :
            [kind |-> k, pc |-> "begin", next |-> "done", pid |-> None, targets |-> {}].pc = "begin"
      OBVIOUS
  <2> QED BY <1>1, <2>1
<1>4. /\ proc[Legacy] \in {"none", "serving", "dead"}
      /\ proc[Legacy] = "serving" => q = Legacy
    BY <1>1, OwnersAssumption
<1> QED BY <1>1, <1>2, <1>3, <1>4, OwnersAssumption DEF LegacyUndisturbed, InLock

\* A process that serves is a process that is alive, and None is not.
LEMMA AcceptsLegacy ==
    ASSUME OwnerInv, proc[Legacy] = "serving"
    PROVE  Accepts /\ ~ Alive(None)
BY OwnersAssumption DEF OwnerInv, LegacyUndisturbed, Accepts, Listening, Alive

\* A stop returns neither to the unlinking nor to the probe of a stop.
LEMMA NextNeverUnlinks ==
    ASSUME TypeOK, NEW c \in Commands PROVE cmd[c].next \notin {"unlink", "probe"}
BY DEF TypeOK, Command

\* A step of a process keeps the flock with those between Lock and Release: the
\* only way to it is through Lock, the only ways to lose it end that.
LEMMA LockOwnerStep ==
    ASSUME OwnerInv, NEW p \in Owners, OwnerStep(p) \/ Crash(p)
    PROVE  LockHeld'
<1> USE OwnersAssumption DEF OwnerInv, LockHeld, LegacyUndisturbed, TypeOK, Enter, Unlock, InLock
<1>1. CASE Lock(p) BY <1>1 DEF Lock, Places
<1>2. CASE Takeover(p) BY <1>2 DEF Takeover
<1>3. CASE Bind(p) BY <1>3 DEF Bind
<1>4. CASE WritePid(p) BY <1>4 DEF WritePid
<1>5. CASE CloseListener(p) BY <1>5 DEF CloseListener
<1>6. CASE Release(p) BY <1>6 DEF Release
<1>7. CASE RemovePid(p) BY <1>7 DEF RemovePid
<1>8. CASE Crash(p) BY <1>8 DEF Crash, Die
<1> QED BY <1>1, <1>2, <1>3, <1>4, <1>5, <1>6, <1>7, <1>8 DEF OwnerStep

\* A command takes the flock from nobody but a process it kills.
LEMMA LockCommandStep ==
    ASSUME OwnerInv, NEW c \in Commands, CommandStep(c) \/ StopKill(c)
    PROVE  LockHeld'
<1> USE DEF OwnerInv, LockHeld, TypeOK, Enter, InLock, files
<1>1. CASE StopKill(c) BY <1>1 DEF StopKill, Die, Command
<1>2. CASE Spawn(c) BY <1>2 DEF Spawn, Old
<1>3. CASE UNCHANGED <<proc, lock>> BY <1>3
<1>4. CommandStep(c) => Spawn(c) \/ UNCHANGED <<proc, lock>>
    BY DEF CommandStep, StopRead, StopRefuse, StopSignal, StopWait, StopCheck, StopCleanProbe,
           StopUnlink, StopRemovePid, EnsureProbe, EnsureReplaced, Restart, StartProbe, StartRetry,
           Await, GiveUp
<1> QED BY <1>1, <1>2, <1>3, <1>4

\* A step of a process leaves the legacy owner undisturbed: whoever has the lock
\* finds its socket, and with no signal pending nobody closes.
LEMMA LegacyOwnerStep ==
    ASSUME OwnerInv, NEW p \in Owners, OwnerStep(p) \/ Crash(p)
    PROVE  LegacyUndisturbed'
<1> USE OwnersAssumption, AcceptsLegacy
    DEF OwnerInv, LegacyUndisturbed, TypeOK, Enter, Unlock, InLock
<1>1. CASE Lock(p) BY <1>1 DEF Lock
<1>2. CASE Takeover(p) BY <1>2 DEF Takeover
<1>3. CASE Bind(p) BY <1>3 DEF Bind
<1>4. CASE WritePid(p) BY <1>4 DEF WritePid
<1>5. CASE CloseListener(p) BY <1>5 DEF CloseListener
<1>6. CASE Release(p) BY <1>6 DEF Release
<1>7. CASE RemovePid(p) BY <1>7 DEF RemovePid
<1>8. CASE Crash(p) BY <1>8 DEF Crash, Die
<1> QED BY <1>1, <1>2, <1>3, <1>4, <1>5, <1>6, <1>7, <1>8 DEF OwnerStep

\* A command leaves the legacy owner undisturbed: its probes find the socket, so
\* that it goes neither to unlink the path nor, with no pid to manage, to signal.
LEMMA LegacyCommandStep ==
    ASSUME OwnerInv, NEW c \in Commands, CommandStep(c) \/ StopKill(c)
    PROVE  LegacyUndisturbed'
<1> USE OwnersAssumption, AcceptsLegacy, NextNeverUnlinks
    DEF OwnerInv, LegacyUndisturbed, TypeOK, files, Goto, Stop, Command, InLock
<1>1. CASE StopRead(c) BY <1>1 DEF StopRead
<1>2. CASE StopRefuse(c) BY <1>2 DEF StopRefuse
<1>3. CASE StopSignal(c) BY <1>3 DEF StopSignal
<1>4. CASE StopWait(c) BY <1>4 DEF StopWait
<1>5. CASE StopKill(c) BY <1>5 DEF StopKill, Die, Enter
<1>6. CASE StopCleanProbe(c) BY <1>6 DEF StopCleanProbe
<1>7. CASE StopUnlink(c) BY <1>7 DEF StopUnlink
<1>8. CASE StopRemovePid(c) BY <1>8 DEF StopRemovePid
<1>9. CASE StartProbe(c) BY <1>9 DEF StartProbe
<1>10. CASE Spawn(c) BY <1>10 DEF Spawn, Enter, Old
<1>11. CASE Await(c) BY <1>11 DEF Await
<1>12. CASE GiveUp(c) BY <1>12 DEF GiveUp
<1>13. CASE StopCheck(c) \/ EnsureReplaced(c) \/ StartRetry(c)
    BY <1>13 DEF StopCheck, EnsureReplaced, StartRetry
<1>14. CASE EnsureProbe(c) \/ Restart(c) BY <1>14 DEF EnsureProbe, Restart
<1> QED BY <1>1, <1>2, <1>3, <1>4, <1>5, <1>6, <1>7, <1>8, <1>9, <1>10, <1>11, <1>12, <1>13,
        <1>14
        DEF CommandStep

\* Two owners that listen would both hold the flock, or one would be the legacy
\* owner, beside which nobody gets past its probe.
LEMMA InvImpliesOneOwner == OwnerInv => OneOwner
BY DEF OwnerInv, LockHeld, LegacyUndisturbed, OneOwner, Listening, InLock

\* Two owners never accept clients at once.
THEOREM NeverTwoOwners == Spec => []OneOwner
<1>1. Init => OwnerInv
    BY TypeInit, OwnerInit DEF OwnerInv
<1>2. OwnerInv /\ [Next]_vars => OwnerInv'
  <2> SUFFICES ASSUME OwnerInv, [Next]_vars PROVE OwnerInv'
      OBVIOUS
  <2>1. CASE \E p \in Owners : OwnerStep(p) \/ Crash(p)
      BY <2>1, TypeOwnerStep, LockOwnerStep, LegacyOwnerStep DEF OwnerInv
  <2>2. CASE \E c \in Commands : CommandStep(c) \/ StopKill(c)
      BY <2>2, TypeCommandStep, LockCommandStep, LegacyCommandStep DEF OwnerInv
  <2>3. CASE UNCHANGED vars
      BY <2>3 DEF vars, files, OwnerInv, TypeOK, LockHeld, LegacyUndisturbed
  <2> QED BY <2>1, <2>2, <2>3 DEF Next
<1> QED BY <1>1, <1>2, InvImpliesOneOwner, PTL DEF Spec

-----------------------------------------------------------------------------
(* What a client is told. *)

Coroutines == Clients \cup {Poll}
Fields == {"pc", "call", "id", "about", "to", "at"}
Lines == [kind : {"answer", "news"}, by : Clients \cup {Poll, Nobody}, id : Nat]
Requests == [call : {"initialize"} \cup UNION {Calls[a] : a \in Askers}, id : Nat \ {0}]

StreamShape ==
    /\ link \in [Clients -> {"off", "up", "cut"}]
    /\ inbox \in [Clients -> Seq(Requests)]
    /\ lines \in [Clients -> Seq(Lines)]
    /\ called \in [Clients -> Nat]
    /\ DOMAIN hand = Coroutines
    /\ \A h \in Coroutines : DOMAIN hand[h] = Fields /\ hand[h].id \in Nat

\* A stream that is gone holds no line; one outside the broadcast set holds
\* answers alone, and no coroutine is about to tell it anything.
Quiet(c) ==
    /\ link[c] = "off" => lines[c] = <<>>
    /\ c \notin writers /\ link[c] = "up" =>
          /\ \A h \in Coroutines : c \notin hand[h].to
          /\ \A i \in 1 .. Len(lines[c]) : lines[c][i].kind = "answer"

\* The request of c in hand has no answer yet.
Unanswered == {"gate", "work", "after", "scan", "answer"}

\* Requests are numbered in the order they are read, and what the coroutine of c
\* told c of is a request it has answered.
Numbered(c) ==
    /\ hand[c].id <= called[c] /\ (hand[c].pc = "read" => hand[c].id = 0)
    /\ \A i \in 1 .. Len(inbox[c]) : inbox[c][i].id > hand[c].id /\ inbox[c][i].id <= called[c]
    /\ \A i, j \in 1 .. Len(inbox[c]) : i < j => inbox[c][i].id < inbox[c][j].id
    /\ \A i \in 1 .. Len(lines[c]) :
          lines[c][i].by = c =>
             /\ lines[c][i].kind = "news" /\ lines[c][i].id <= called[c]
             /\ \A j \in 1 .. Len(inbox[c]) : lines[c][i].id < inbox[c][j].id
             /\ hand[c].pc # "read" => lines[c][i].id <= hand[c].id
             /\ hand[c].pc \in Unanswered => lines[c][i].id < hand[c].id

\* The notification of a connection's own request comes after the answer to it.
Ordered(c) ==
    \A i, j \in 1 .. Len(lines[c]) :
        lines[c][i].by = c /\ lines[c][j].kind = "answer" /\ lines[c][i].id = lines[c][j].id => j < i

StreamInv == StreamShape /\ \A c \in Clients : Quiet(c) /\ Numbered(c) /\ Ordered(c)

-----------------------------------------------------------------------------
LEMMA WaitingFacts ==
    /\ DOMAIN Waiting = Fields /\ Waiting.pc = "read" /\ Waiting.id = 0 /\ Waiting.to = {}
BY DEF Waiting, Fields

LEMMA RequestFacts ==
    ASSUME StreamShape, NEW c \in Clients
    PROVE  /\ inbox[c] \in Seq(Requests) /\ Len(inbox[c]) \in Nat
           /\ lines[c] \in Seq(Lines) /\ Len(lines[c]) \in Nat
           /\ \A i \in 1 .. Len(inbox[c]) : inbox[c][i].id \in Nat \ {0}
           /\ \A i \in 1 .. Len(lines[c]) : lines[c][i].id \in Nat
<1>1. inbox[c] \in Seq(Requests) /\ lines[c] \in Seq(Lines)
    BY DEF StreamShape
<1>2. \A i \in 1 .. Len(inbox[c]) : inbox[c][i] \in Requests
    BY <1>1, ElementOfSeq
<1>3. \A i \in 1 .. Len(lines[c]) : lines[c][i] \in Lines
    BY <1>1, ElementOfSeq
<1> QED
    BY <1>1, <1>2, <1>3, LenProperties DEF Requests, Lines

LEMMA StreamInit == ServerInit => StreamInv
<1> SUFFICES ASSUME ServerInit PROVE StreamInv
    OBVIOUS
<1>1. /\ link \in [Clients -> {"off", "up", "cut"}] /\ \A c \in Clients : link[c] = "up" => c \in writers
      /\ inbox = [c \in Clients |-> <<>>] /\ lines = [c \in Clients |-> <<>>]
      /\ called \in [Clients -> Nat] /\ hand = [h \in Coroutines |-> Waiting]
    BY DEF ServerInit, Coroutines
<1>2. StreamShape
    BY <1>1, WaitingFacts DEF StreamShape
<1>3. ASSUME NEW c \in Clients PROVE Quiet(c) /\ Numbered(c) /\ Ordered(c)
  <2>1. hand[c] = Waiting /\ inbox[c] = <<>> /\ lines[c] = <<>> /\ called[c] \in Nat
    BY <1>1 DEF Coroutines
  <2> QED
    BY <1>1, <2>1, WaitingFacts DEF Quiet, Numbered, Ordered, Unanswered
<1> QED
    BY <1>2, <1>3 DEF StreamInv

\* A step that concerns neither the streams nor the coroutines.
LEMMA StreamStays ==
    ASSUME StreamInv, UNCHANGED <<link, inbox, lines, called, hand, writers>>
    PROVE  StreamInv'
<1>1. StreamShape'
    BY DEF StreamInv, StreamShape
<1>2. \A c \in Clients : Quiet(c)' /\ Numbered(c)' /\ Ordered(c)'
    BY DEF StreamInv, Quiet, Numbered, Ordered
<1> QED
    BY <1>1, <1>2 DEF StreamInv

\* A coroutine goes on with its request, or is done with it, and writes no line;
\* a writer may join the broadcast set, and one that leaves it is closed.
LEMMA HandGoes ==
    ASSUME StreamInv, UNCHANGED <<inbox, lines, called>>,
           link' \in [Clients -> {"off", "up", "cut"}],
           \A c \in Clients : /\ link'[c] = "off" => link[c] = "off"
                              /\ c \notin writers' /\ link'[c] = "up" => c \notin writers /\ link[c] = "up",
           NEW h \in Coroutines, NEW n, Goes(h, n),
           DOMAIN n = Fields, n.to \subseteq hand[h].to \cup writers,
           \/ /\ n.id = hand[h].id /\ (n.pc \in Unanswered => hand[h].pc \in Unanswered)
              /\ n.pc # "read" /\ hand[h].pc # "read"
           \/ n.id = 0 /\ (n.pc = "read" \/ h = Poll)
    PROVE  StreamInv'
<1>1. /\ hand'[h] = n /\ \A g \in Coroutines : g # h => hand'[g] = hand[g]
      /\ DOMAIN hand' = Coroutines /\ hand[h].id \in Nat
    BY DEF Goes, StreamInv, StreamShape
<1>2. StreamShape'
  <2>1. \A g \in Coroutines : DOMAIN hand[g] = Fields /\ hand[g].id \in Nat
    BY DEF StreamInv, StreamShape
  <2>2. n.id \in Nat
    BY <1>1
  <2>3. ASSUME NEW g \in Coroutines PROVE DOMAIN hand'[g] = Fields /\ hand'[g].id \in Nat
    <3>1. CASE g = h
      BY <1>1, <2>2, <3>1
    <3>2. CASE g # h
      BY <1>1, <2>1, <3>2
    <3> QED
      BY <3>1, <3>2
  <2> QED
    BY <1>1, <2>3 DEF StreamInv, StreamShape
<1>3. ASSUME NEW c \in Clients PROVE Quiet(c)' /\ Numbered(c)' /\ Ordered(c)'
  <2>1. Quiet(c) /\ Numbered(c) /\ Ordered(c)
    BY DEF StreamInv
  <2>2. Quiet(c)'
    <3>1. ASSUME c \notin writers', link'[c] = "up", NEW g \in Coroutines PROVE c \notin hand'[g].to
      BY <1>1, <2>1, <3>1 DEF Quiet
    <3> QED
      BY <2>1, <3>1 DEF Quiet
  <2>3. Numbered(c)'
    <3>1. CASE c # h
      <4>1. hand'[c] = hand[c]
        BY <1>1, <3>1 DEF Coroutines
      <4> QED
        BY <2>1, <4>1 DEF Numbered
    <3>2. CASE c = h
      <4>1. h # Poll /\ called[c] \in Nat
        BY <3>2, ClientsAssumption DEF StreamInv, StreamShape
      <4>2. \A i \in 1 .. Len(inbox[c]) : inbox[c][i].id \in Nat \ {0}
        BY RequestFacts DEF StreamInv
      <4> QED
        BY <1>1, <2>1, <3>2, <4>1, <4>2 DEF Numbered, Unanswered
    <3> QED
      BY <3>1, <3>2
  <2>4. Ordered(c)'
    BY <2>1 DEF Ordered
  <2> QED
    BY <2>2, <2>3, <2>4
<1> QED
    BY <1>2, <1>3 DEF StreamInv

\* A nonempty set of indices has a first one.
LEMMA FirstIndex ==
    ASSUME NEW T \in SUBSET Nat, T # {}
    PROVE  \E i \in T : \A j \in T : i <= j
<1>1. PICK i \in T : \A j \in T : <<j, i>> \notin OpToRel(<, Nat)
    BY NatLessThanWellFounded, WFMin
<1>2. \A j \in T : ~ (j < i)
    BY <1>1 DEF OpToRel
<1> QED
    BY <1>2

\* A client's lines from some place on; its requests but the first.
LEMMA ReadsOn ==
    ASSUME StreamShape, NEW c \in Clients
    PROVE  /\ LET k == SelectInSeq(lines[c], LAMBDA line : Ends(c, line)) IN k \in 0 .. Len(lines[c])
           /\ \A k \in 0 .. Len(lines[c]) :
                 /\ SubSeq(lines[c], k + 1, Len(lines[c])) \in Seq(Lines)
                 /\ Len(SubSeq(lines[c], k + 1, Len(lines[c]))) = Len(lines[c]) - k
                 /\ \A i \in 1 .. Len(lines[c]) - k :
                       SubSeq(lines[c], k + 1, Len(lines[c]))[i] = lines[c][k + i]
<1>1. lines[c] \in Seq(Lines) /\ Len(lines[c]) \in Nat
    BY LenProperties DEF StreamShape
<1>2. LET k == SelectInSeq(lines[c], LAMBDA line : Ends(c, line)) IN k \in 0 .. Len(lines[c])
  <2> DEFINE I == {i \in 1 .. Len(lines[c]) : Ends(c, lines[c][i])}
  <2>1. SelectInSeq(lines[c], LAMBDA line : Ends(c, line)) = IF I # {} THEN Min(I) ELSE 0
    BY DEF SelectInSeq
  <2>2. I # {} => Min(I) \in I
    <3>1. I \in SUBSET Nat
      BY <1>1
    <3>2. I # {} => \E i \in I : \A j \in I : i <= j
      BY <3>1, FirstIndex
    <3> HIDE DEF I
    <3> QED
      BY <3>2 DEF Min
  <2>3. I \subseteq 1 .. Len(lines[c])
    OBVIOUS
  <2> HIDE DEF I
  <2> QED
    BY <1>1, <2>1, <2>2, <2>3
<1>3. ASSUME NEW k \in 0 .. Len(lines[c])
      PROVE  /\ SubSeq(lines[c], k + 1, Len(lines[c])) \in Seq(Lines)
             /\ Len(SubSeq(lines[c], k + 1, Len(lines[c]))) = Len(lines[c]) - k
             /\ \A i \in 1 .. Len(lines[c]) - k :
                   SubSeq(lines[c], k + 1, Len(lines[c]))[i] = lines[c][k + i]
  <2> DEFINE m == k + 1
             len == Len(lines[c])
             rest == SubSeq(lines[c], m, len)
  <2>1. m \in Int /\ len \in Int /\ \A i \in m .. len : lines[c][i] \in Lines
    BY <1>1, ElementOfSeq
  <2>2. /\ rest \in Seq(Lines) /\ Len(rest) = IF m <= len THEN len - m + 1 ELSE 0
        /\ \A i \in 1 .. len - m + 1 : rest[i] = lines[c][m + i - 1]
    <3> HIDE DEF m, len
    <3> QED
      BY <2>1, SubSeqProperties
  <2>3. Len(rest) = len - k
    BY <1>1, <2>2
  <2>4. \A i \in 1 .. len - k : rest[i] = lines[c][k + i]
    <3>1. \A i \in 1 .. len - k : i \in 1 .. len - m + 1 /\ m + i - 1 = k + i
      BY <1>1
    <3> HIDE DEF m, rest
    <3> QED
      BY <2>2, <3>1
  <2> QED
    BY <2>2, <2>3, <2>4
<1> QED
    BY <1>2, <1>3

\* A coroutine writes a line: the answer to its request, or what came of it.
LEMMA LineWritten ==
    ASSUME StreamInv, UNCHANGED <<link, inbox, called, writers>>,
           NEW h \in Coroutines, NEW n, Goes(h, n),
           DOMAIN n = Fields, n.id = hand[h].id, n.to \subseteq hand[h].to,
           NEW to, NEW line \in Lines, Puts(to, line), line.id = hand[h].id,
           \/ /\ line.kind = "answer" /\ line.by = Nobody /\ to = {h}
              /\ hand[h].pc = "answer" /\ n.pc = "answered"
           \/ /\ line.kind = "news" /\ line.by = h /\ to \subseteq hand[h].to
              /\ hand[h].pc = "tell" /\ n.pc \in {"tell", "drain"}
    PROVE  StreamInv'
<1>1. /\ hand'[h] = n /\ \A g \in Coroutines : g # h => hand'[g] = hand[g]
      /\ DOMAIN hand' = Coroutines /\ hand[h].id \in Nat /\ StreamShape
    BY DEF Goes, StreamInv, StreamShape
<1>2. /\ lines' \in [Clients -> Seq(Lines)]
      /\ \A c \in Clients : lines'[c] = IF c \in to /\ Takes(c) THEN Append(lines[c], line) ELSE lines[c]
  <2>1. \A c \in Clients : lines[c] \in Seq(Lines) /\ Append(lines[c], line) \in Seq(Lines)
    BY <1>1, RequestFacts, AppendProperties
  <2> QED
    BY <2>1 DEF Puts
<1>3. StreamShape'
  <2>1. \A g \in Coroutines : DOMAIN hand[g] = Fields /\ hand[g].id \in Nat
    BY <1>1 DEF StreamShape
  <2>2. \A g \in Coroutines : DOMAIN hand'[g] = Fields /\ hand'[g].id \in Nat
    BY <1>1, <2>1
  <2> QED
    BY <1>1, <1>2, <2>2 DEF StreamShape
<1>4. ASSUME NEW c \in Clients PROVE Quiet(c)' /\ Numbered(c)' /\ Ordered(c)'
  <2> DEFINE L == Len(lines[c])
             app == c \in to /\ Takes(c)
  <2>1. Quiet(c) /\ Numbered(c) /\ Ordered(c)
    BY DEF StreamInv
  <2>2. /\ L \in Nat /\ c # Poll /\ c # Nobody /\ c \in Coroutines
        /\ Len(lines'[c]) = IF app THEN L + 1 ELSE L
        /\ \A i \in 1 .. L : lines'[c][i] = lines[c][i]
        /\ app => lines'[c][L + 1] = line
    BY <1>1, <1>2, RequestFacts, AppendProperties, ClientsAssumption DEF Coroutines
  <2>3. \A i \in 1 .. Len(lines'[c]) : i \in 1 .. L \/ (app /\ i = L + 1)
    BY <2>2
  <2>4. app => link[c] # "off"
    <3>1. ASSUME app, link[c] = "off" PROVE FALSE
      BY <3>1 DEF Takes
    <3> QED
      BY <3>1
  <2>5. app /\ c \notin writers /\ link[c] = "up" => line.kind = "answer"
    BY <2>1 DEF Quiet
  <2>6. app /\ line.by = c => c = h /\ line.kind = "news"
    BY <2>2
  <2>7. app /\ line.kind = "answer" => c = h /\ hand[c].pc \in Unanswered
    BY DEF Unanswered
  <2>8. /\ hand'[c].id = hand[c].id
        /\ (hand'[c].pc = "read" <=> hand[c].pc = "read")
        /\ (hand'[c].pc \in Unanswered => hand[c].pc \in Unanswered)
        /\ app /\ line.by = c => hand'[c].pc \notin Unanswered
        /\ \A g \in Coroutines : hand'[g].to \subseteq hand[g].to
    BY <1>1, <2>2 DEF Unanswered
  <2> HIDE DEF L, app
  <2>9. Quiet(c)'
    <3>1. link[c] = "off" => lines'[c] = <<>>
      BY <1>2, <2>1, <2>4 DEF Quiet, app
    <3>2. c \notin writers /\ link[c] = "up" => \A g \in Coroutines : c \notin hand'[g].to
      BY <2>1, <2>8 DEF Quiet
    <3>3. c \notin writers /\ link[c] = "up" => \A i \in 1 .. Len(lines'[c]) : lines'[c][i].kind = "answer"
      BY <2>1, <2>2, <2>3, <2>5 DEF Quiet, L
    <3> QED
      BY <3>1, <3>2, <3>3 DEF Quiet
  <2>10. Numbered(c)'
    <3>1. ASSUME NEW i \in 1 .. Len(lines'[c]), lines'[c][i].by = c
          PROVE  /\ lines'[c][i].kind = "news" /\ lines'[c][i].id <= called[c]
                 /\ \A j \in 1 .. Len(inbox[c]) : lines'[c][i].id < inbox[c][j].id
                 /\ hand'[c].pc # "read" => lines'[c][i].id <= hand'[c].id
                 /\ hand'[c].pc \in Unanswered => lines'[c][i].id < hand'[c].id
      <4>1. CASE i \in 1 .. L
        BY <2>1, <2>2, <2>8, <3>1, <4>1 DEF Numbered, L
      <4>2. CASE app /\ i = L + 1
        <5>1. lines'[c][i] = line /\ c = h /\ line.kind = "news" /\ line.id = hand[c].id
          BY <2>2, <2>6, <3>1, <4>2
        <5> QED
          BY <1>1, <2>1, <2>8, <3>1, <4>2, <5>1 DEF Numbered
      <4> QED
        BY <2>3, <4>1, <4>2
    <3>2. (hand'[c].id <= called[c] /\ (hand'[c].pc = "read" => hand'[c].id = 0))
          /\ (\A i \in 1 .. Len(inbox[c]) : inbox[c][i].id > hand'[c].id /\ inbox[c][i].id <= called[c])
          /\ (\A i, j \in 1 .. Len(inbox[c]) : i < j => inbox[c][i].id < inbox[c][j].id)
      BY <2>1, <2>8 DEF Numbered
    <3> QED
      BY <3>1, <3>2 DEF Numbered
  <2>11. Ordered(c)'
    <3> SUFFICES ASSUME NEW i \in 1 .. Len(lines'[c]), NEW j \in 1 .. Len(lines'[c]),
                        lines'[c][i].by = c, lines'[c][j].kind = "answer",
                        lines'[c][i].id = lines'[c][j].id
                 PROVE  j < i
      BY DEF Ordered
    <3>1. CASE i \in 1 .. L /\ j \in 1 .. L
      BY <2>1, <2>2, <3>1 DEF Ordered, L
    <3>2. CASE app /\ j = L + 1 /\ i \in 1 .. L
      <4>1. line.kind = "answer" /\ lines[c][i].by = c /\ lines[c][i].id = hand[h].id
        BY <2>2, <3>2
      <4>2. c = h /\ hand[c].pc \in Unanswered
        BY <2>7, <3>2, <4>1
      <4>3. lines[c][i].id < hand[c].id
        BY <2>1, <3>2, <4>1, <4>2 DEF Numbered, L
      <4> QED
        BY <1>1, <4>1, <4>2, <4>3
    <3>3. CASE app /\ i = L + 1
      <4>1. line.kind = "news"
        BY <2>2, <2>6, <3>3
      <4>2. j # L + 1
        BY <2>2, <3>3, <4>1
      <4> QED
        BY <2>2, <2>3, <3>3, <4>2
    <3> QED
      BY <2>3, <3>1, <3>2, <3>3
  <2> QED
    BY <2>9, <2>10, <2>11
<1> QED
    BY <1>3, <1>4 DEF StreamInv

\* A client reads its lines, from some place on.
LEMMA StreamReadsLines == ASSUME StreamInv, NEW c \in Clients, ReadsLines(c) PROVE StreamInv'
<1> DEFINE k == SelectInSeq(lines[c], LAMBDA line : Ends(c, line))
           len == Len(lines[c])
           left == IF k = 0 THEN <<>> ELSE SubSeq(lines[c], k + 1, len)
<1>1. /\ lines' = [lines EXCEPT ![c] = left]
      /\ UNCHANGED <<link, inbox, called, hand, writers>>
    BY DEF ReadsLines
<1>2. StreamShape /\ k \in 0 .. len /\ len \in Nat
    BY ReadsOn, RequestFacts DEF StreamInv
<1>3. PICK m \in 0 .. len :
        /\ left \in Seq(Lines) /\ Len(left) = len - m
        /\ \A i \in 1 .. len - m : left[i] = lines[c][m + i]
  <2>1. CASE k = 0
    <3>1. left = <<>> /\ <<>> \in Seq(Lines) /\ Len(<<>>) = len - len
      BY <1>2, <2>1
    <3> HIDE DEF left
    <3> QED
      BY <1>2, <3>1
  <2>2. CASE k # 0
    <3>1. left = SubSeq(lines[c], k + 1, len)
      BY <2>2
    <3> HIDE DEF left, k
    <3> QED
      BY <1>2, <3>1, ReadsOn
  <2> QED
    BY <2>1, <2>2
<1> HIDE DEF left, len, k
<1>4. \A d \in Clients : lines'[d] = IF d = c THEN left ELSE lines[d]
    BY <1>1, <1>2 DEF StreamShape
<1>5. StreamShape'
    BY <1>1, <1>2, <1>3 DEF StreamShape
<1>6. ASSUME NEW d \in Clients PROVE Quiet(d)' /\ Numbered(d)' /\ Ordered(d)'
  <2>1. Quiet(d) /\ Numbered(d) /\ Ordered(d)
    BY DEF StreamInv
  <2>2. CASE d # c
    <3>1. lines'[d] = lines[d]
      BY <1>4, <2>2
    <3> QED
      BY <1>1, <2>1, <3>1 DEF Quiet, Numbered, Ordered
  <2>3. CASE d = c
    <3>1. /\ lines'[d] = left
          /\ \A i \in 1 .. Len(left) : m + i \in 1 .. Len(lines[d]) /\ left[i] = lines[d][m + i]
      BY <1>2, <1>3, <1>4, <2>3 DEF len
    <3>2. Quiet(d)'
      <4>1. lines[d] = <<>> => left = <<>>
        <5>1. ASSUME lines[d] = <<>> PROVE Len(left) = 0
          BY <1>2, <1>3, <2>3, <5>1 DEF len
        <5> QED
          BY <1>3, <5>1
      <4> QED
        BY <1>1, <2>1, <3>1, <4>1 DEF Quiet
    <3>3. Numbered(d)'
      <4>1. ASSUME NEW i \in 1 .. Len(left), left[i].by = d
            PROVE  /\ left[i].kind = "news" /\ left[i].id <= called[d]
                   /\ \A j \in 1 .. Len(inbox[d]) : left[i].id < inbox[d][j].id
                   /\ hand[d].pc # "read" => left[i].id <= hand[d].id
                   /\ hand[d].pc \in Unanswered => left[i].id < hand[d].id
        <5>1. m + i \in 1 .. Len(lines[d]) /\ left[i] = lines[d][m + i]
          BY <3>1
        <5> DEFINE n == m + i
        <5>2. n \in 1 .. Len(lines[d]) /\ left[i] = lines[d][n]
          BY <5>1
        <5> HIDE DEF n
        <5> QED
          BY <2>1, <4>1, <5>2 DEF Numbered
      <4>2. /\ hand[d].id <= called[d] /\ (hand[d].pc = "read" => hand[d].id = 0)
            /\ \A i \in 1 .. Len(inbox[d]) : inbox[d][i].id > hand[d].id /\ inbox[d][i].id <= called[d]
            /\ \A i, j \in 1 .. Len(inbox[d]) : i < j => inbox[d][i].id < inbox[d][j].id
        BY <2>1 DEF Numbered
      <4> QED
        BY <1>1, <3>1, <4>1, <4>2 DEF Numbered
    <3>4. Ordered(d)'
      <4> SUFFICES ASSUME NEW i \in 1 .. Len(left), NEW j \in 1 .. Len(left),
                          left[i].by = d, left[j].kind = "answer", left[i].id = left[j].id
                   PROVE  j < i
        BY <3>1 DEF Ordered
      <4>1. m + j < m + i
        BY <2>1, <3>1 DEF Ordered
      <4> QED
        BY <1>2, <1>3, <4>1
    <3> QED
      BY <3>2, <3>3, <3>4
  <2> QED
    BY <2>2, <2>3
<1> QED
    BY <1>5, <1>6 DEF StreamInv

\* A client closes its stream, and the lines in it are gone.
LEMMA StreamShuts == ASSUME StreamInv, NEW c \in Clients, Shut(c) PROVE StreamInv'
<1>1. /\ link' = [link EXCEPT ![c] = "off"] /\ lines' = [lines EXCEPT ![c] = <<>>]
      /\ UNCHANGED <<inbox, called, hand, writers>>
    BY DEF Shut
<1>2. StreamShape'
    BY <1>1 DEF StreamInv, StreamShape
<1>3. ASSUME NEW d \in Clients PROVE Quiet(d)' /\ Numbered(d)' /\ Ordered(d)'
  <2>1. Quiet(d) /\ Numbered(d) /\ Ordered(d)
    BY DEF StreamInv
  <2>2. /\ lines'[d] = IF d = c THEN <<>> ELSE lines[d]
        /\ link'[d] = IF d = c THEN "off" ELSE link[d]
    BY <1>1 DEF StreamInv, StreamShape
  <2> QED
    BY <1>1, <2>1, <2>2 DEF Quiet, Numbered, Ordered
<1> QED
    BY <1>2, <1>3 DEF StreamInv

\* A client writes a request, connecting first where it has no stream.
LEMMA StreamCalls == ASSUME StreamInv, NEW c \in Clients, Call(c) PROVE StreamInv'
<1>1. /\ called' = [called EXCEPT ![c] = @ + 1]
      /\ link' = [link EXCEPT ![c] = IF @ = "off" THEN "up" ELSE @]
      /\ UNCHANGED <<lines, hand, writers>> /\ StreamShape
      /\ link[c] = "off" => Forgotten(c)
    BY DEF Call, StreamInv
<1>2. PICK call \in IF c \in Listeners THEN {"initialize"} ELSE Calls[c] :
         inbox' = [inbox EXCEPT ![c] = Append(@, [call |-> call, id |-> called'[c]])]
    BY DEF Call
<1> DEFINE request == [call |-> call, id |-> called[c] + 1]
           L == Len(inbox[c])
<1>3. /\ called[c] \in Nat /\ called'[c] = called[c] + 1
      /\ \A d \in Clients : d # c => called'[d] = called[d]
      /\ called' \in [Clients -> Nat]
    BY <1>1 DEF StreamShape
<1>4. request \in Requests /\ request.id = called[c] + 1
    BY <1>2, <1>3 DEF Requests, Clients
<1>5. inbox' = [inbox EXCEPT ![c] = Append(inbox[c], request)]
    BY <1>1, <1>2, <1>3 DEF StreamShape
<1> HIDE DEF request
<1>6. /\ inbox[c] \in Seq(Requests) /\ L \in Nat /\ Append(inbox[c], request) \in Seq(Requests)
      /\ Len(Append(inbox[c], request)) = L + 1
      /\ \A i \in 1 .. L : Append(inbox[c], request)[i] = inbox[c][i]
      /\ Append(inbox[c], request)[L + 1] = request
    BY <1>1, <1>4, RequestFacts, AppendProperties
<1>7. \A d \in Clients : inbox'[d] = IF d = c THEN Append(inbox[c], request) ELSE inbox[d]
    BY <1>1, <1>5 DEF StreamShape
<1>8. /\ link' \in [Clients -> {"off", "up", "cut"}]
      /\ link'[c] = IF link[c] = "off" THEN "up" ELSE link[c]
      /\ \A d \in Clients : d # c => link'[d] = link[d]
    BY <1>1 DEF StreamShape
<1>9. StreamShape'
    BY <1>1, <1>3, <1>5, <1>6, <1>8 DEF StreamShape
<1>10. ASSUME NEW d \in Clients PROVE Quiet(d)' /\ Numbered(d)' /\ Ordered(d)'
  <2>1. Quiet(d) /\ Numbered(d) /\ Ordered(d)
    BY DEF StreamInv
  <2>2. Ordered(d)'
    BY <1>1, <2>1 DEF Ordered
  <2>3. CASE d # c
    <3>1. link'[d] = link[d] /\ inbox'[d] = inbox[d] /\ called'[d] = called[d]
      BY <1>3, <1>7, <1>8, <2>3
    <3> QED
      BY <1>1, <2>1, <2>2, <3>1 DEF Quiet, Numbered
  <2>4. CASE d = c
    <3>1. Quiet(c)'
      <4>1. CASE link[c] = "off"
        <5>1. lines[c] = <<>> /\ \A h \in Coroutines : c \notin hand[h].to
          BY <1>1, <2>1, <2>4, <4>1 DEF Quiet, Forgotten, StreamShape
        <5> QED
          BY <1>1, <1>8, <4>1, <5>1 DEF Quiet
      <4>2. CASE link[c] # "off"
        BY <1>1, <1>8, <2>1, <2>4, <4>2 DEF Quiet
      <4> QED
        BY <4>1, <4>2
    <3>2. Numbered(c)'
      <4>1. /\ inbox'[c] = Append(inbox[c], request) /\ Len(inbox'[c]) = L + 1
            /\ \A i \in 1 .. L : inbox'[c][i] = inbox[c][i]
            /\ inbox'[c][L + 1].id = called[c] + 1
        BY <1>4, <1>6, <1>7
      <4>2. /\ \A i \in 1 .. L : inbox[c][i].id \in Nat
            /\ \A i \in 1 .. Len(lines[c]) : lines[c][i].id \in Nat
            /\ hand[c].id \in Nat
        BY <1>1, RequestFacts DEF StreamShape, Coroutines
      <4>3. \A i \in 1 .. Len(inbox'[c]) : inbox'[c][i].id > hand[c].id /\ inbox'[c][i].id <= called'[c]
        BY <1>3, <1>6, <2>1, <2>4, <4>1, <4>2 DEF Numbered
      <4>4. \A i, j \in 1 .. Len(inbox'[c]) : i < j => inbox'[c][i].id < inbox'[c][j].id
        <5> SUFFICES ASSUME NEW i \in 1 .. Len(inbox'[c]), NEW j \in 1 .. Len(inbox'[c]), i < j
                     PROVE  inbox'[c][i].id < inbox'[c][j].id
          OBVIOUS
        <5>1. i \in 1 .. L /\ (j \in 1 .. L \/ j = L + 1)
          BY <1>6, <4>1
        <5>2. inbox'[c][i] = inbox[c][i]
          BY <4>1, <5>1
        <5>3. CASE j \in 1 .. L
          BY <2>1, <2>4, <4>1, <5>1, <5>2, <5>3 DEF Numbered
        <5>4. CASE j = L + 1
          <6>1. inbox[c][i].id <= called[c] /\ inbox[c][i].id \in Nat
            BY <2>1, <2>4, <4>2, <5>1 DEF Numbered
          <6>2. inbox'[c][j].id = called[c] + 1
            BY <4>1, <5>4
          <6> QED
            BY <1>3, <5>2, <6>1, <6>2
        <5> QED
          BY <5>1, <5>3, <5>4
      <4>5. ASSUME NEW i \in 1 .. Len(lines[c]), lines[c][i].by = c
            PROVE  /\ lines[c][i].kind = "news" /\ lines[c][i].id <= called'[c]
                   /\ \A j \in 1 .. Len(inbox'[c]) : lines[c][i].id < inbox'[c][j].id
                   /\ hand[c].pc # "read" => lines[c][i].id <= hand[c].id
                   /\ hand[c].pc \in Unanswered => lines[c][i].id < hand[c].id
        <5>1. lines[c][i].id <= called[c] /\ \A j \in 1 .. L : lines[c][i].id < inbox[c][j].id
          BY <2>1, <2>4, <4>5 DEF Numbered
        <5>2. lines[c][i].id \in Nat
          BY <4>2
        <5>3. ASSUME NEW j \in 1 .. Len(inbox'[c]) PROVE lines[c][i].id < inbox'[c][j].id
          <6>1. CASE j \in 1 .. L
            BY <4>1, <5>1, <6>1
          <6>2. CASE j = L + 1
            <7>1. inbox'[c][j].id = called[c] + 1
              BY <4>1, <6>2
            <7> QED
              BY <1>3, <5>1, <5>2, <7>1
          <6> QED
            BY <1>6, <4>1, <6>1, <6>2
        <5> QED
          BY <1>3, <2>1, <2>4, <4>5, <5>1, <5>2, <5>3 DEF Numbered
      <4>6. hand[c].id <= called'[c] /\ (hand[c].pc = "read" => hand[c].id = 0)
        BY <1>3, <2>1, <2>4, <4>2 DEF Numbered
      <4> QED
        BY <1>1, <4>3, <4>4, <4>5, <4>6 DEF Numbered
    <3> QED
      BY <2>2, <2>4, <3>1, <3>2
  <2> QED
    BY <2>3, <2>4
<1> QED
    BY <1>9, <1>10 DEF StreamInv

\* The coroutine takes up the next request.
LEMMA StreamReadsRequest == ASSUME StreamInv, NEW c \in Clients, ReadsRequest(c) PROVE StreamInv'
<1> DEFINE request == Head(inbox[c])
           pc == CASE request.call = "initialize" -> "answer"
                   [] request.call \in Heavy -> "gate"
                   [] OTHER -> "work"
           n == [Waiting EXCEPT !.call = request.call, !.id = request.id, !.pc = pc]
<1>1. /\ Goes(c, n) /\ inbox' = [inbox EXCEPT ![c] = Tail(inbox[c])]
      /\ UNCHANGED <<link, lines, called, writers>> /\ StreamShape
      /\ hand[c].pc = "read" /\ inbox[c] # <<>> /\ c \in Coroutines
    BY DEF ReadsRequest, StreamInv, StreamShape, Coroutines
<1>2. pc \in Unanswered
    BY DEF Unanswered
<1> HIDE DEF pc
<1>3. n.id = request.id /\ n.pc = pc /\ n.to = {} /\ DOMAIN n = Fields
    BY DEF Waiting, Fields
<1> HIDE DEF n
<1>4. /\ inbox[c] \in Seq(Requests) /\ Len(inbox[c]) \in Nat /\ Len(inbox[c]) >= 1
      /\ request = inbox[c][1] /\ Tail(inbox[c]) \in Seq(Requests)
      /\ Len(Tail(inbox[c])) = Len(inbox[c]) - 1
      /\ \A i \in 1 .. Len(inbox[c]) - 1 : Tail(inbox[c])[i] = inbox[c][i + 1]
    BY <1>1, RequestFacts, HeadTailProperties
<1>5. request.id \in Nat \ {0}
    BY <1>1, <1>4, RequestFacts
<1>6. /\ hand'[c] = n /\ \A g \in Coroutines : g # c => hand'[g] = hand[g]
      /\ DOMAIN hand' = Coroutines
      /\ \A d \in Clients : inbox'[d] = IF d = c THEN Tail(inbox[c]) ELSE inbox[d]
    BY <1>1 DEF Goes, StreamShape
<1>7. StreamShape'
  <2>1. \A g \in Coroutines : DOMAIN hand[g] = Fields /\ hand[g].id \in Nat
    BY <1>1 DEF StreamShape
  <2>2. \A g \in Coroutines : DOMAIN hand'[g] = Fields /\ hand'[g].id \in Nat
    BY <1>3, <1>5, <1>6, <2>1
  <2> QED
    BY <1>1, <1>4, <1>6, <2>2 DEF StreamShape
<1>8. ASSUME NEW d \in Clients PROVE Quiet(d)' /\ Numbered(d)' /\ Ordered(d)'
  <2>1. Quiet(d) /\ Numbered(d) /\ Ordered(d) /\ d \in Coroutines
    BY DEF StreamInv, Coroutines
  <2>2. Ordered(d)'
    BY <1>1, <2>1 DEF Ordered
  <2>3. Quiet(d)'
    <3>1. \A g \in Coroutines : d \notin hand[g].to => d \notin hand'[g].to
      BY <1>3, <1>6
    <3> QED
      BY <1>1, <2>1, <3>1 DEF Quiet
  <2>4. CASE d # c
    <3>1. hand'[d] = hand[d] /\ inbox'[d] = inbox[d]
      BY <1>6, <2>1, <2>4
    <3>2. Numbered(d)'
      BY <1>1, <2>1, <3>1 DEF Numbered
    <3> QED
      BY <2>2, <2>3, <3>2
  <2>5. CASE d = c
    <3> DEFINE T == Tail(inbox[c])
    <3>1. /\ inbox'[c] = T /\ hand'[c] = n /\ Len(T) \in Nat
          /\ \A i \in 1 .. Len(T) : i + 1 \in 1 .. Len(inbox[c]) /\ T[i] = inbox[c][i + 1]
          /\ 1 \in 1 .. Len(inbox[c])
      BY <1>4, <1>6
    <3> HIDE DEF T
    <3>2. \A i \in 1 .. Len(T) : T[i].id > request.id /\ T[i].id <= called[c]
      <4> SUFFICES ASSUME NEW i \in 1 .. Len(T)
                   PROVE  T[i].id > request.id /\ T[i].id <= called[c]
        OBVIOUS
      <4>1. 1 < i + 1
        BY <3>1
      <4>2. inbox[c][1].id < inbox[c][i + 1].id /\ inbox[c][i + 1].id <= called[c]
        BY <2>1, <2>5, <3>1, <4>1 DEF Numbered
      <4>3. inbox[c][i + 1].id \in Nat
        BY <1>1, <3>1, RequestFacts
      <4> QED
        BY <1>4, <1>5, <3>1, <4>2, <4>3
    <3>3. \A i, j \in 1 .. Len(T) : i < j => T[i].id < T[j].id
      <4> SUFFICES ASSUME NEW i \in 1 .. Len(T), NEW j \in 1 .. Len(T), i < j
                   PROVE  T[i].id < T[j].id
        OBVIOUS
      <4>1. i + 1 < j + 1
        OBVIOUS
      <4>2. inbox[c][i + 1].id < inbox[c][j + 1].id
        BY <2>1, <2>5, <3>1, <4>1 DEF Numbered
      <4> QED
        BY <3>1, <4>2
    <3>4. ASSUME NEW i \in 1 .. Len(lines[c]), lines[c][i].by = c
          PROVE  /\ lines[c][i].kind = "news" /\ lines[c][i].id <= called[c]
                 /\ \A j \in 1 .. Len(T) : lines[c][i].id < T[j].id
                 /\ lines[c][i].id < request.id /\ lines[c][i].id <= request.id
      <4>1. /\ lines[c][i].kind = "news" /\ lines[c][i].id <= called[c]
            /\ \A j \in 1 .. Len(inbox[c]) : lines[c][i].id < inbox[c][j].id
        BY <2>1, <2>5, <3>4 DEF Numbered
      <4>2. lines[c][i].id \in Nat
        BY <1>1, RequestFacts
      <4>3. lines[c][i].id < inbox[c][1].id
        BY <3>1, <4>1
      <4>4. lines[c][i].id < request.id
        BY <1>4, <4>3
      <4>5. ASSUME NEW j \in 1 .. Len(T) PROVE lines[c][i].id < T[j].id
        <5>1. lines[c][i].id < inbox[c][j + 1].id
          BY <3>1, <4>1
        <5> QED
          BY <3>1, <5>1
      <4> HIDE DEF request
      <4> QED
        BY <1>5, <4>1, <4>2, <4>4, <4>5
    <3>5. request.id <= called[c]
      BY <1>4, <2>1, <2>5, <3>1 DEF Numbered
    <3>6. pc # "read"
      BY <1>2 DEF Unanswered
    <3> HIDE DEF request
    <3>7. Numbered(c)'
      BY <1>1, <1>3, <3>1, <3>2, <3>3, <3>4, <3>5, <3>6 DEF Numbered
    <3> QED
      BY <2>2, <2>3, <2>5, <3>7
  <2> QED
    BY <2>4, <2>5
<1> QED
    BY <1>7, <1>8 DEF StreamInv

\* The coroutine of a stream that ended drops what it has not read.
LEMMA StreamHangsUp == ASSUME StreamInv, NEW c \in Clients, HangsUp(c) PROVE StreamInv'
<1>1. /\ writers' = writers \ {c} /\ inbox' = [inbox EXCEPT ![c] = <<>>]
      /\ UNCHANGED <<link, lines, called, hand>> /\ link[c] # "up" /\ StreamShape
    BY DEF HangsUp, StreamInv
<1>2. \A d \in Clients : inbox'[d] = IF d = c THEN <<>> ELSE inbox[d]
    BY <1>1 DEF StreamShape
<1>3. StreamShape'
    BY <1>1 DEF StreamShape
<1>4. ASSUME NEW d \in Clients PROVE Quiet(d)' /\ Numbered(d)' /\ Ordered(d)'
  <2>1. Quiet(d) /\ Numbered(d) /\ Ordered(d)
    BY DEF StreamInv
  <2>2. Quiet(d)' /\ Ordered(d)'
    BY <1>1, <2>1 DEF Quiet, Ordered
  <2>3. Numbered(d)'
    <3>1. CASE d = c
      BY <1>1, <1>2, <2>1, <3>1 DEF Numbered
    <3>2. CASE d # c
      <4>1. inbox'[d] = inbox[d]
        BY <1>2, <3>2
      <4> QED
        BY <1>1, <2>1, <4>1 DEF Numbered
    <3> QED
      BY <3>1, <3>2
  <2> QED
    BY <2>2, <2>3
<1> QED
    BY <1>3, <1>4 DEF StreamInv

-----------------------------------------------------------------------------
\* A coroutine goes on with its request.
LEMMA RequestGoes ==
    ASSUME StreamInv, UNCHANGED <<link, inbox, lines, called, writers>>,
           NEW h \in Coroutines, NEW n, Goes(h, n),
           DOMAIN n = Fields, n.to \subseteq hand[h].to \cup writers, n.id = hand[h].id,
           n.pc \in Unanswered => hand[h].pc \in Unanswered,
           n.pc # "read" /\ hand[h].pc # "read"
    PROVE  StreamInv'
<1>1. link' \in [Clients -> {"off", "up", "cut"}]
    BY DEF StreamInv, StreamShape
<1> QED
    BY <1>1, HandGoes

LEMMA StreamServes ==
    ASSUME StreamInv, NEW c \in Clients,
           \/ Enters(c) \/ TagsOne(c) \/ (\E s \in Sessions : WritesNotes(c, s) \/ Imports(c, s))
           \/ Lists(c) \/ Fails(c) \/ Refreshes(c) \/ Scans(c)
    PROVE  StreamInv'
<1>1. c \in Coroutines /\ DOMAIN hand[c] = Fields
    BY DEF StreamInv, StreamShape, Coroutines
<1>2. UNCHANGED <<link, inbox, lines, called, writers>> /\ hand[c].pc \in Unanswered \ {"read"}
    BY DEF Enters, TagsOne, WritesNotes, Imports, Lists, Fails, Refreshes, Scans, Working,
           clientVars, catalogVars, Unanswered
<1>3. ASSUME NEW pc \in {"work", "answer", "after", "scan"}, NEW n, Goes(c, n),
             \/ n = [hand[c] EXCEPT !.pc = pc]
             \/ \E about : n = [hand[c] EXCEPT !.about = about, !.pc = pc]
      PROVE  StreamInv'
  <2>1. DOMAIN n = Fields /\ n.to = hand[c].to /\ n.id = hand[c].id /\ n.pc = pc
    BY <1>1, <1>3 DEF Fields
  <2>2. n.pc # "read" /\ hand[c].pc # "read" /\ hand[c].pc \in Unanswered
    BY <1>2, <2>1
  <2> QED
    BY <1>1, <1>2, <1>3, <2>1, <2>2, RequestGoes
<1>4. CASE Enters(c)
  <2>1. Goes(c, [hand[c] EXCEPT !.pc = "work"])
    BY <1>4 DEF Enters
  <2> QED
    BY <1>3, <2>1
<1>5. CASE TagsOne(c)
  <2>1. PICK pc \in {"work", "after"} :
           Goes(c, [hand[c] EXCEPT !.about = WithChange(c, Catalog[Len(hand[c].about) + 1]), !.pc = pc])
    BY <1>5 DEF TagsOne
  <2> QED
    BY <1>3, <2>1
<1>6. ASSUME NEW s \in Sessions, WritesNotes(c, s) PROVE StreamInv'
  <2>1. Goes(c, [hand[c] EXCEPT !.about = WithChange(c, s), !.pc = "after"])
    BY <1>6 DEF WritesNotes
  <2> QED
    BY <1>3, <2>1
<1>7. ASSUME NEW s \in Sessions, Imports(c, s) PROVE StreamInv'
  <2>1. Goes(c, [hand[c] EXCEPT !.about = WithChange(c, s), !.pc = "answer"])
    BY <1>7 DEF Imports
  <2> QED
    BY <1>3, <2>1
<1>8. CASE Lists(c) \/ Scans(c)
  <2>1. Goes(c, [hand[c] EXCEPT !.pc = "answer"])
    BY <1>8 DEF Lists, Scans
  <2> QED
    BY <1>3, <2>1
<1>9. CASE Fails(c)
  <2>1. Goes(c, [hand[c] EXCEPT !.pc = "answer", !.about = <<>>])
    BY <1>9 DEF Fails
  <2>2. [hand[c] EXCEPT !.pc = "answer", !.about = <<>>] = [hand[c] EXCEPT !.about = <<>>, !.pc = "answer"]
    BY <1>1 DEF Fields
  <2> QED
    BY <1>3, <2>1, <2>2
<1>10. CASE Refreshes(c)
  <2>1. PICK pc \in {"scan", "answer"} : Goes(c, [hand[c] EXCEPT !.pc = pc])
    BY <1>10 DEF Refreshes
  <2> QED
    BY <1>3, <2>1
<1> QED
    BY <1>4, <1>5, <1>6, <1>7, <1>8, <1>9, <1>10

LEMMA StreamAnswers == ASSUME StreamInv, NEW c \in Clients, Answers(c) PROVE StreamInv'
<1> DEFINE n == [hand[c] EXCEPT !.pc = "answered"]
<1>1. c \in Coroutines /\ DOMAIN hand[c] = Fields /\ hand[c].id \in Nat
    BY DEF StreamInv, StreamShape, Coroutines
<1>2. /\ UNCHANGED <<link, inbox, called, writers>> /\ Goes(c, n) /\ hand[c].pc = "answer"
      /\ Puts({c}, Answer(hand[c].id))
    BY DEF Answers
<1>3. DOMAIN n = Fields /\ n.to = hand[c].to /\ n.id = hand[c].id /\ n.pc = "answered"
    BY <1>1 DEF Fields
<1> HIDE DEF n
<1>4. /\ Answer(hand[c].id) \in Lines /\ Answer(hand[c].id).id = hand[c].id
      /\ Answer(hand[c].id).kind = "answer" /\ Answer(hand[c].id).by = Nobody
    BY <1>1 DEF Answer, Lines
<1> QED
    BY <1>1, <1>2, <1>3, <1>4, LineWritten

\* notify, and what ends it.
LEMMA StreamNotifies == ASSUME StreamInv, NEW h \in Coroutines, Notifies(h) PROVE StreamInv'
<1>1. DOMAIN hand[h] = Fields /\ hand[h].id \in Nat /\ link \in [Clients -> {"off", "up", "cut"}]
    BY DEF StreamInv, StreamShape
<1>2. News(h) \in Lines /\ News(h).kind = "news" /\ News(h).by = h /\ News(h).id = hand[h].id
    BY <1>1 DEF News, Lines, Coroutines
<1>3. CASE Announces(h)
  <2>1. PICK left : Goes(h, [hand[h] EXCEPT !.pc = "tell", !.about = left, !.to = Audience])
    BY <1>3 DEF Announces
  <2> DEFINE n == [hand[h] EXCEPT !.pc = "tell", !.about = left, !.to = Audience]
  <2>2. DOMAIN n = Fields /\ n.to = writers /\ n.id = hand[h].id /\ n.pc = "tell"
    BY <1>1 DEF Fields, Audience
  <2> HIDE DEF n
  <2>3. UNCHANGED <<link, inbox, lines, called, writers>> /\ hand[h].pc # "read"
    BY <1>3 DEF Announces, Onward, clientVars
  <2>4. n.pc \notin Unanswered
    BY <2>2 DEF Unanswered
  <2> QED
    BY <2>1, <2>2, <2>3, <2>4, RequestGoes DEF n
<1>4. CASE Tells(h)
  <2> DEFINE n == [hand[h] EXCEPT !.to = @ \ Ready(h)]
  <2>1. /\ UNCHANGED <<link, inbox, called, writers>> /\ Goes(h, n) /\ hand[h].pc = "tell"
        /\ Puts(Ready(h), News(h))
    BY <1>4 DEF Tells
  <2>2. DOMAIN n = Fields /\ n.to \subseteq hand[h].to /\ n.id = hand[h].id /\ n.pc = "tell"
    BY <1>1, <2>1 DEF Fields
  <2>3. Ready(h) \subseteq hand[h].to
    BY DEF Ready
  <2> HIDE DEF n
  <2> QED
    BY <1>2, <2>1, <2>2, <2>3, LineWritten
<1>5. CASE TellsFull(h)
  <2>1. PICK w \in hand[h].to \ Ready(h) :
           /\ Puts({w}, News(h))
           /\ Goes(h, [hand[h] EXCEPT !.pc = "drain", !.to = @ \ {w}, !.at = w])
    BY <1>5 DEF TellsFull
  <2> DEFINE n == [hand[h] EXCEPT !.pc = "drain", !.to = @ \ {w}, !.at = w]
  <2>2. UNCHANGED <<link, inbox, called, writers>> /\ Goes(h, n) /\ hand[h].pc = "tell"
    BY <1>5, <2>1 DEF TellsFull
  <2>3. DOMAIN n = Fields /\ n.to \subseteq hand[h].to /\ n.id = hand[h].id /\ n.pc = "drain"
    BY <1>1 DEF Fields
  <2> HIDE DEF n
  <2>4. {w} \subseteq hand[h].to
    BY <2>1
  <2> QED
    BY <1>2, <2>1, <2>2, <2>3, <2>4, LineWritten
<1>6. CASE TellsOn(h)
  <2> DEFINE n == [hand[h] EXCEPT !.pc = "tell", !.at = Nobody]
  <2>1. UNCHANGED <<link, inbox, lines, called, writers>> /\ Goes(h, n) /\ hand[h].pc # "read"
    BY <1>6 DEF TellsOn, clientVars
  <2>2. DOMAIN n = Fields /\ n.to = hand[h].to /\ n.id = hand[h].id /\ n.pc = "tell"
    BY <1>1 DEF Fields
  <2>3. n.pc \notin Unanswered
    BY <2>2 DEF Unanswered
  <2> HIDE DEF n
  <2> QED
    BY <2>1, <2>2, <2>3, RequestGoes
<1>7. CASE TimesOut(h)
  <2> DEFINE n == [hand[h] EXCEPT !.pc = "tell", !.to = Others(h), !.at = Nobody]
             w == hand[h].at
  <2>1. /\ UNCHANGED <<inbox, lines, called>> /\ Goes(h, n) /\ hand[h].pc # "read"
        /\ writers' = writers \ {w} /\ link' = [link EXCEPT ![w] = IF @ = "up" THEN "cut" ELSE @]
    BY <1>7 DEF TimesOut
  <2>2. DOMAIN n = Fields /\ n.to = hand[h].to /\ n.id = hand[h].id /\ n.pc = "tell"
    BY <1>1 DEF Fields, Others
  <2>3. n.pc \notin Unanswered
    BY <2>2 DEF Unanswered
  <2> HIDE DEF n, w
  <2>4. /\ link' \in [Clients -> {"off", "up", "cut"}]
        /\ \A c \in Clients : link'[c] = IF c = w /\ link[c] = "up" THEN "cut" ELSE link[c]
    BY <1>1, <2>1
  <2>5. \A c \in Clients : /\ link'[c] = "off" => link[c] = "off"
                           /\ c \notin writers' /\ link'[c] = "up" => c \notin writers /\ link[c] = "up"
    BY <2>1, <2>4
  <2> QED
    BY <2>1, <2>2, <2>3, <2>4, <2>5, HandGoes
<1> QED
    BY <1>3, <1>4, <1>5, <1>6, <1>7 DEF Notifies

\* The request is done, or the poll is.
LEMMA StreamEnds ==
    ASSUME StreamInv, Polls \/ Polled \/ \E c \in Clients : Joins(c)
    PROVE  StreamInv'
<1>1. link \in [Clients -> {"off", "up", "cut"}] /\ Poll \in Coroutines
    BY DEF StreamInv, StreamShape, Coroutines
<1>2. ASSUME NEW h \in Coroutines, NEW n, Goes(h, n), UNCHANGED <<link, inbox, lines, called>>,
             writers \subseteq writers', DOMAIN n = Fields, n.to \subseteq writers,
             n.id = 0, n.pc = "read" \/ h = Poll
      PROVE  StreamInv'
  <2>1. \A c \in Clients : /\ link'[c] = "off" => link[c] = "off"
                           /\ c \notin writers' /\ link'[c] = "up" => c \notin writers /\ link[c] = "up"
    BY <1>2
  <2> QED
    BY <1>1, <1>2, <2>1, HandGoes
<1>3. ASSUME NEW c \in Clients, Joins(c) PROVE StreamInv'
  <2>1. /\ Goes(c, Waiting) /\ UNCHANGED <<link, inbox, lines, called>> /\ writers \subseteq writers'
        /\ c \in Coroutines
    BY <1>3 DEF Joins, clientVars, Coroutines
  <2> QED
    BY <1>2, <2>1, WaitingFacts
<1>4. CASE Polled
  <2>1. Goes(Poll, Waiting) /\ UNCHANGED <<link, inbox, lines, called>> /\ writers \subseteq writers'
    BY <1>4 DEF Polled, clientVars
  <2> QED
    BY <1>1, <1>2, <2>1, WaitingFacts
<1>5. CASE Polls
  <2>1. PICK about : Goes(Poll, [Waiting EXCEPT !.pc = "tell", !.to = Audience, !.about = about])
    BY <1>5 DEF Polls
  <2> DEFINE n == [Waiting EXCEPT !.pc = "tell", !.to = Audience, !.about = about]
  <2>2. DOMAIN n = Fields /\ n.to = writers /\ n.id = 0
    BY DEF Waiting, Fields, Audience
  <2>3. UNCHANGED <<link, inbox, lines, called>> /\ writers \subseteq writers'
    BY <1>5 DEF Polls, clientVars
  <2> HIDE DEF n
  <2> QED
    BY <1>1, <1>2, <2>1, <2>2, <2>3 DEF n
<1> QED
    BY <1>3, <1>4, <1>5

LEMMA StreamStep == ASSUME StreamInv, [ServerNext]_serverVars PROVE StreamInv'
<1>1. CASE UNCHANGED serverVars
  <2>1. UNCHANGED <<link, inbox, lines, called, hand, writers>>
    BY <1>1 DEF serverVars, clientVars
  <2> QED
    BY <2>1, StreamStays
<1>2. ASSUME NEW c \in Clients, Serves(c) PROVE StreamInv'
  <2>1. CASE ReadsRequest(c)
    BY <2>1, StreamReadsRequest
  <2>2. CASE HangsUp(c)
    BY <2>2, StreamHangsUp
  <2>3. CASE Answers(c)
    BY <2>3, StreamAnswers
  <2>4. CASE Joins(c)
    BY <2>4, StreamEnds
  <2>5. CASE \/ Enters(c) \/ TagsOne(c) \/ (\E s \in Sessions : WritesNotes(c, s) \/ Imports(c, s))
             \/ Lists(c) \/ Refreshes(c) \/ Scans(c)
    BY <2>5, StreamServes
  <2> QED
    BY <1>2, <2>1, <2>2, <2>3, <2>4, <2>5 DEF Serves
<1>3. ASSUME NEW c \in Clients, Reads(c) PROVE StreamInv'
  <2>1. CASE ReadsLines(c)
    BY <2>1, StreamReadsLines
  <2>2. CASE ReadsEnd(c)
    BY <2>2, StreamShuts DEF ReadsEnd
  <2> QED
    BY <1>3, <2>1, <2>2 DEF Reads
<1>4. ASSUME NEW c \in Clients, Meets(c) PROVE StreamInv'
  <2>1. CASE Call(c)
    BY <2>1, StreamCalls
  <2>2. CASE Leaves(c)
    BY <2>2, StreamShuts DEF Leaves
  <2>3. CASE GivesUp(c) \/ Sticks(c)
    <3>1. UNCHANGED <<link, inbox, lines, called, hand, writers>>
      BY <2>3 DEF GivesUp, Sticks
    <3> QED
      BY <3>1, StreamStays
  <2>4. CASE Fails(c)
    BY <2>4, StreamServes
  <2> QED
    BY <1>4, <2>1, <2>2, <2>3, <2>4 DEF Meets
<1>5. ASSUME NEW h \in Clients \cup {Poll}, Notifies(h) PROVE StreamInv'
    BY <1>5, StreamNotifies DEF Coroutines
<1>6. CASE Polls \/ Polled
    BY <1>6, StreamEnds
<1> QED
    BY <1>1, <1>2, <1>3, <1>4, <1>5, <1>6 DEF ServerNext, Proceeds

\* Whatever clients stick, leave, give up or reconnect, a client's stream holds no
\* notification before the answer to its first request, and the notification of a
\* client's own write only after the answer to it (_handle_client, _send, notify).
THEOREM StreamAlwaysInOrder == ServerSpec => []StreamOrder
<1>1. StreamInv => StreamOrder
  <2> SUFFICES ASSUME StreamInv, NEW c \in Clients, link[c] = "up"
               PROVE  /\ c \notin writers /\ lines[c] # <<>> => Head(lines[c]).kind = "answer"
                      /\ \A i, j \in DOMAIN lines[c] :
                            lines[c][i].by = c /\ lines[c][j].kind = "answer"
                                /\ lines[c][i].id = lines[c][j].id => j < i
      BY DEF StreamOrder
  <2>1. lines[c] \in Seq(Lines) /\ Len(lines[c]) \in Nat /\ DOMAIN lines[c] = 1 .. Len(lines[c])
      BY RequestFacts, LenProperties DEF StreamInv
  <2>2. Quiet(c) /\ Ordered(c)
      BY DEF StreamInv
  <2>3. ASSUME c \notin writers, lines[c] # <<>> PROVE Head(lines[c]).kind = "answer"
    <3>1. 1 \in 1 .. Len(lines[c]) /\ Head(lines[c]) = lines[c][1]
      BY <2>1, <2>3, HeadTailProperties
    <3> QED
      BY <2>2, <2>3, <3>1 DEF Quiet
  <2> QED
      BY <2>1, <2>2, <2>3 DEF Ordered
<1>2. StreamInv /\ [ServerNext]_serverVars => StreamInv'
    BY StreamStep
<1> QED
    BY <1>1, <1>2, StreamInit, PTL DEF ServerSpec

=============================================================================
