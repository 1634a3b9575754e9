--------------------------- MODULE LayoutLockProofs ---------------------------
(***************************************************************************)
(* TLAPS proofs about LayoutLock, for every set of clients: types, the     *)
(* lock discipline, writer precedence, and that the three-file protocol    *)
(* implements ReadWriteLease.                                              *)
(***************************************************************************)
EXTENDS LayoutLock, TLAPS

(***************************************************************************)
(* The inductive invariant.  FlockSound is what flock gives; NothingLeaks  *)
(* ties it to control positions, so that an admission knows which files    *)
(* its client already holds; ChildrenHold carries a lease past its wrapper.*)
(***************************************************************************)
IInv == TypeOK /\ LockDiscipline

\* The initial state satisfies the inductive invariant: no lock is held.
LEMMA InitIInv == Init => IInv
<1> SUFFICES ASSUME Init PROVE IInv
  OBVIOUS
<1>1. TypeOK
  BY DEF Init, TypeOK, NoLocks, Files, Modes, PCs
<1>2. NothingLeaks
  BY DEF Init, NothingLeaks, HoldsAt, NoLocks, Files, RegisteredAt, BarringAt,
         IntentAt, EnteredAt
<1>3. FlockSound /\ ChildrenHold
  BY DEF Init, FlockSound, ChildrenHold, NoLocks, Files, Compatible
<1> QED
  BY <1>1, <1>2, <1>3 DEF IInv, LockDiscipline

-----------------------------------------------------------------------------
(* The three elementary lock steps *)

\* A granted lock keeps the invariant when the position it leads to is one at
\* which the client is to hold that file as well.
LEMMA AcquireIInv ==
  ASSUME IInv, NEW c \in Clients, NEW from, NEW f \in Files, NEW m \in Modes,
         NEW to \in PCs, from # "dying",
         Acquire(c, from, f, m, to),
         HoldsAt(from, own[c]) => HoldsAt(to, [own[c] EXCEPT ![f] = m])
  PROVE  IInv'
<1> USE DEF Acquire, Goto, Hold
<1>0. TypeOK /\ NothingLeaks /\ FlockSound /\ ChildrenHold
  BY DEF IInv, LockDiscipline
<1>1. TypeOK'
  BY <1>0 DEF TypeOK
<1>2. NothingLeaks'
  BY <1>0 DEF TypeOK, NothingLeaks
<1>3. FlockSound'
  BY <1>0 DEF TypeOK, FlockSound, CanLock, Compatible, Modes
<1>4. ChildrenHold'
  BY <1>0 DEF ChildrenHold
<1> QED
  BY <1>1, <1>2, <1>3, <1>4 DEF IInv, LockDiscipline

\* A refused lock moves control only.
LEMMA BusyIInv ==
  ASSUME IInv, NEW c \in Clients, NEW from, NEW f \in Files, NEW m \in Modes,
         NEW to \in PCs, from # "dying",
         Busy(c, from, f, m, to),
         HoldsAt(from, own[c]) => HoldsAt(to, own[c])
  PROVE  IInv'
<1> USE DEF Busy, Goto
<1>0. TypeOK /\ NothingLeaks /\ FlockSound /\ ChildrenHold
  BY DEF IInv, LockDiscipline
<1>1. TypeOK' /\ NothingLeaks'
  BY <1>0 DEF TypeOK, NothingLeaks
<1>2. FlockSound' /\ ChildrenHold'
  BY <1>0 DEF FlockSound, ChildrenHold
<1> QED
  BY <1>1, <1>2 DEF IInv, LockDiscipline

\* A release keeps the invariant when the next position does without the file.
LEMMA ReleaseIInv ==
  ASSUME IInv, NEW c \in Clients, NEW from, NEW f \in Files, NEW to \in PCs,
         from # "dying",
         Release(c, from, f, to),
         HoldsAt(from, own[c]) => HoldsAt(to, [own[c] EXCEPT ![f] = "none"])
  PROVE  IInv'
<1> USE DEF Release, Goto, Hold
<1>0. TypeOK /\ NothingLeaks /\ FlockSound /\ ChildrenHold
  BY DEF IInv, LockDiscipline
<1>1. TypeOK'
  BY <1>0 DEF TypeOK, Modes
<1>2. NothingLeaks'
  BY <1>0 DEF TypeOK, NothingLeaks
<1>3. FlockSound'
  BY <1>0 DEF TypeOK, FlockSound, Compatible
<1>4. ChildrenHold'
  BY <1>0 DEF ChildrenHold
<1> QED
  BY <1>1, <1>2, <1>3, <1>4 DEF IInv, LockDiscipline
-----------------------------------------------------------------------------
(* Each action preserves the invariant *)

\* The exclusive call: register, claim the intent, enter, and unwind.
LEMMA WriterIInv ==
  ASSUME IInv, NEW c \in Clients, WriterStep(c)
  PROVE  IInv'
<1> USE DEF HoldsAt, Files, Modes, PCs, WriterPCs, ReaderPCs,
            RegisteredAt, BarringAt, IntentAt, EnteredAt
<1>0. own[c] \in [Files -> Modes]
  BY DEF IInv, TypeOK
<1>1. CASE WriterQueue(c)
  <2>1. CASE Acquire(c, "wQueue", "pending", "SH", "wClaim")
    BY <1>0, <2>1, AcquireIInv
  <2>2. CASE Busy(c, "wQueue", "pending", "SH", "idle")
    BY <1>0, <2>2, BusyIInv
  <2> QED
    BY <1>1, <2>1, <2>2 DEF WriterQueue
<1>2. CASE WriterClaim(c)
  <2>1. CASE Acquire(c, "wClaim", "intent", "EX", "wEnter")
    BY <1>0, <2>1, AcquireIInv
  <2>2. CASE Busy(c, "wClaim", "intent", "EX", "wFreePending")
    BY <1>0, <2>2, BusyIInv
  <2> QED
    BY <1>2, <2>1, <2>2 DEF WriterClaim
<1>3. CASE WriterEnter(c)
  <2>1. CASE Acquire(c, "wEnter", "main", "EX", "writing")
    BY <1>0, <2>1, AcquireIInv
  <2>2. CASE Busy(c, "wEnter", "main", "EX", "wFreeIntent")
    BY <1>0, <2>2, BusyIInv
  <2> QED
    BY <1>3, <2>1, <2>2 DEF WriterEnter
<1>4. CASE WriterExit(c)
  <2>1. CASE Release(c, "writing", "main", "wFreeIntent")
    BY <1>0, <2>1, ReleaseIInv
  <2>2. CASE Release(c, "wFreeIntent", "intent", "wFreePending")
    BY <1>0, <2>2, ReleaseIInv
  <2>3. CASE Release(c, "wFreePending", "pending", "idle")
    BY <1>0, <2>3, ReleaseIInv
  <2> QED
    BY <1>4, <2>1, <2>2, <2>3 DEF WriterExit
<1> QED
  BY <1>1, <1>2, <1>3, <1>4 DEF WriterStep

\* The shared call, admitted at once.
LEMMA PromptReaderIInv ==
  ASSUME IInv, NEW c \in Clients,
         \/ ReaderAdmit(c) \/ ReaderProbe(c) \/ ReaderEnter(c)
         \/ ReaderAdmitted(c) \/ ReaderExit(c)
  PROVE  IInv'
<1> USE DEF HoldsAt, Files, Modes, PCs, WriterPCs, ReaderPCs,
            RegisteredAt, BarringAt, IntentAt, EnteredAt
<1>0. own[c] \in [Files -> Modes]
  BY DEF IInv, TypeOK
<1>1. CASE ReaderAdmit(c)
  <2>1. CASE Acquire(c, "rAdmit", "intent", "EX", "rProbe")
    BY <1>0, <2>1, AcquireIInv
  <2>2. CASE Busy(c, "rAdmit", "intent", "EX", "idle")
    BY <1>0, <2>2, BusyIInv
  <2> QED
    BY <1>1, <2>1, <2>2 DEF ReaderAdmit
<1>2. CASE ReaderProbe(c)
  <2>1. CASE Acquire(c, "rProbe", "pending", "EX", "rEnter")
    BY <1>0, <2>1, AcquireIInv
  <2>2. CASE ProbeFails(c)
    BY <1>0, <2>2 DEF ProbeFails, Goto, IInv, TypeOK, LockDiscipline, NothingLeaks,
                      FlockSound, ChildrenHold
  <2> QED
    BY <1>2, <2>1, <2>2 DEF ReaderProbe
<1>3. CASE ReaderEnter(c)
  <2>1. CASE Acquire(c, "rEnter", "main", "SH", "rFreePending")
    BY <1>0, <2>1, AcquireIInv
  <2>2. CASE Busy(c, "rEnter", "main", "SH", "rFreePending")
    BY <1>0, <2>2, BusyIInv
  <2> QED
    BY <1>3, <2>1, <2>2 DEF ReaderEnter
<1>4. CASE ReaderAdmitted(c)
  <2>1. CASE Release(c, "rFreePending", "pending", "rFreeIntent")
    BY <1>0, <2>1, ReleaseIInv
  <2>2. CASE Release(c, "rFreeIntent", "intent", Outcome(c))
    BY <1>0, <2>2, ReleaseIInv DEF Outcome
  <2> QED
    BY <1>4, <2>1, <2>2 DEF ReaderAdmitted
<1>5. CASE ReaderExit(c)
  BY <1>0, <1>5, ReleaseIInv DEF ReaderExit
<1> QED
  BY <1>1, <1>2, <1>3, <1>4, <1>5

\* The shared call that steps aside for a registered writer.
LEMMA LateReaderIInv ==
  ASSUME IInv, NEW c \in Clients,
         \/ ReaderStepAside(c) \/ ReaderQueue(c) \/ ReaderReadmit(c)
         \/ ReaderLateEnter(c) \/ ReaderLateAdmitted(c)
  PROVE  IInv'
<1> USE DEF HoldsAt, Files, Modes, PCs, WriterPCs, ReaderPCs,
            RegisteredAt, BarringAt, IntentAt, EnteredAt
<1>0. own[c] \in [Files -> Modes]
  BY DEF IInv, TypeOK
<1>1. CASE ReaderStepAside(c)
  BY <1>0, <1>1, ReleaseIInv DEF ReaderStepAside
<1>2. CASE ReaderQueue(c)
  <2>1. CASE Acquire(c, "rQueue", "pending", "EX", "rReadmit")
    BY <1>0, <2>1, AcquireIInv
  <2>2. CASE Busy(c, "rQueue", "pending", "EX", "idle")
    BY <1>0, <2>2, BusyIInv
  <2> QED
    BY <1>2, <2>1, <2>2 DEF ReaderQueue
<1>3. CASE ReaderReadmit(c)
  <2>1. CASE Acquire(c, "rReadmit", "intent", "EX", "rLateEnter")
    BY <1>0, <2>1, AcquireIInv
  <2>2. CASE Busy(c, "rReadmit", "intent", "EX", "rLateFreePending")
    BY <1>0, <2>2, BusyIInv
  <2> QED
    BY <1>3, <2>1, <2>2 DEF ReaderReadmit
<1>4. CASE ReaderLateEnter(c)
  <2>1. CASE Acquire(c, "rLateEnter", "main", "SH", "rLateFreeIntent")
    BY <1>0, <2>1, AcquireIInv
  <2>2. CASE Busy(c, "rLateEnter", "main", "SH", "rLateFreeIntent")
    BY <1>0, <2>2, BusyIInv
  <2> QED
    BY <1>4, <2>1, <2>2 DEF ReaderLateEnter
<1>5. CASE ReaderLateAdmitted(c)
  <2>1. CASE Release(c, "rLateFreeIntent", "intent", "rLateFreePending")
    BY <1>0, <2>1, ReleaseIInv
  <2>2. CASE Release(c, "rLateFreePending", "pending", Outcome(c))
    BY <1>0, <2>2, ReleaseIInv DEF Outcome
  <2> QED
    BY <1>5, <2>1, <2>2 DEF ReaderLateAdmitted
<1> QED
  BY <1>1, <1>2, <1>3, <1>4, <1>5

\* Children take, and dead processes give up, locks that were granted before.
LEMMA ProcessIInv ==
  ASSUME IInv, NEW c \in Clients,
         \/ StartWriter(c) \/ StartReader(c) \/ Spawn(c) \/ Crash(c)
         \/ EndOfChild(c) \/ DyingDrop(c) \/ Reborn(c)
  PROVE  IInv'
<1>0. TypeOK /\ NothingLeaks /\ FlockSound /\ ChildrenHold
  BY DEF IInv, LockDiscipline
<1>1. CASE StartWriter(c) \/ StartReader(c)
  <2> USE DEF StartWriter, StartReader, Start, Goto
  <2>1. TypeOK'
    BY <1>0, <1>1 DEF TypeOK, PCs, WriterPCs, ReaderPCs
  <2>2. NothingLeaks'
    <3>1. ASSUME NEW label \in {"wQueue", "rAdmit"}, HoldsAt("idle", own[c])
          PROVE  HoldsAt(label, own[c])
      BY <3>1 DEF HoldsAt, RegisteredAt, BarringAt, IntentAt, EnteredAt
    <3> QED
      BY <1>0, <1>1, <3>1 DEF TypeOK, NothingLeaks
  <2>3. FlockSound' /\ ChildrenHold'
    BY <1>0, <1>1 DEF FlockSound, ChildrenHold
  <2> QED
    BY <2>1, <2>2, <2>3 DEF IInv, LockDiscipline
<1>2. CASE Spawn(c)
  <2> USE DEF Spawn, Spawns
  <2>1. TypeOK'
    BY <1>0, <1>2 DEF TypeOK, Granted
  <2>2. NothingLeaks'
    BY <1>0, <1>2 DEF NothingLeaks
  <2>3. FlockSound'
    BY <1>0, <1>2 DEF TypeOK, FlockSound, Compatible
  <2>4. ChildrenHold'
    BY <1>0, <1>2 DEF TypeOK, ChildrenHold, NothingLeaks, HoldsAt, Granted, EnteredAt
  <2> QED
    BY <2>1, <2>2, <2>3, <2>4 DEF IInv, LockDiscipline
<1>3. CASE Crash(c)
  BY <1>0, <1>3 DEF Crash, Goto, IInv, TypeOK, LockDiscipline, NothingLeaks, FlockSound,
     ChildrenHold, PCs
<1>4. CASE EndOfChild(c)
  <2> USE DEF EndOfChild, KidExit, KidDrop
  <2>1. TypeOK'
    <3>1. CASE KidExit(c)
      BY <1>0, <3>1 DEF TypeOK
    <3>2. CASE KidDrop(c)
      BY <1>0, <3>2 DEF TypeOK, Modes
    <3> QED
      BY <1>4, <3>1, <3>2
  <2>2. NothingLeaks'
    BY <1>0, <1>4 DEF NothingLeaks
  <2>3. FlockSound'
    BY <1>0, <1>4 DEF TypeOK, FlockSound, Compatible
  <2>4. ChildrenHold'
    BY <1>0, <1>4 DEF TypeOK, ChildrenHold
  <2> QED
    BY <2>1, <2>2, <2>3, <2>4 DEF IInv, LockDiscipline
<1>5. CASE DyingDrop(c)
  <2> USE DEF DyingDrop, Hold
  <2>1. TypeOK'
    BY <1>0, <1>5 DEF TypeOK, Modes
  <2>2. NothingLeaks'
    BY <1>0, <1>5 DEF TypeOK, NothingLeaks
  <2>3. FlockSound'
    BY <1>0, <1>5 DEF TypeOK, FlockSound, Compatible
  <2>4. ChildrenHold'
    BY <1>0, <1>5 DEF ChildrenHold
  <2> QED
    BY <2>1, <2>2, <2>3, <2>4 DEF IInv, LockDiscipline
<1>6. CASE Reborn(c)
  BY <1>0, <1>6 DEF Reborn, Goto, NoLocks, IInv, TypeOK, LockDiscipline, NothingLeaks,
     FlockSound, ChildrenHold, HoldsAt, Files, Modes, PCs, WriterPCs, ReaderPCs,
     RegisteredAt, BarringAt, IntentAt, EnteredAt
<1> QED
  BY <1>1, <1>2, <1>3, <1>4, <1>5, <1>6

\* Every step of the protocol preserves the inductive invariant.
LEMMA NextIInv == IInv /\ [Next]_vars => IInv'
<1> SUFFICES ASSUME IInv, [Next]_vars PROVE IInv'
  OBVIOUS
<1>1. CASE UNCHANGED vars
  BY <1>1 DEF vars, IInv, TypeOK, LockDiscipline, NothingLeaks, FlockSound, ChildrenHold
<1>2. ASSUME NEW c \in Clients, Step(c) PROVE IInv'
  <2>1. CASE WriterStep(c)
    BY <2>1, WriterIInv
  <2>2. CASE ReaderStep(c)
    BY <2>2, PromptReaderIInv, LateReaderIInv DEF ReaderStep
  <2>3. CASE \/ StartWriter(c) \/ StartReader(c) \/ Spawn(c) \/ Crash(c)
             \/ EndOfChild(c) \/ DyingDrop(c) \/ Reborn(c)
    BY <2>3, ProcessIInv
  <2> QED
    BY <1>2, <2>1, <2>2, <2>3 DEF Step, Progress
<1> QED
  BY <1>1, <1>2 DEF Next

\* The invariant holds throughout, for any set of clients.
LEMMA Invariance == Spec => []IInv
  BY InitIInv, NextIInv, PTL DEF Spec

\* Type correctness of the protocol.
THEOREM TypeCorrect == Spec => []TypeOK
<1>1. IInv => TypeOK
  BY DEF IInv
<1> QED
  BY <1>1, Invariance, PTL

\* Whatever the interleaving, the kills and the nonblocking refusals, what a
\* client holds follows from its control position, no two descriptions stand in
\* conflict, and a running child keeps its coordinate locked.
THEOREM Discipline == Spec => []LockDiscipline
<1>1. IInv => LockDiscipline
  BY DEF IInv
<1> QED
  BY <1>1, Invariance, PTL
-----------------------------------------------------------------------------
(* Writer precedence *)

\* A step that takes the lock itself in shared mode is one of the two reader
\* admissions, and the position before each bars the pending file.
LEMMA SharedEntryBars ==
  ASSUME IInv, NEW r \in Clients, [Next]_vars,
         own[r]["main"] = "none", own'[r]["main"] = "SH"
  PROVE  own[r]["pending"] = "EX"
<1>0. own \in [Clients -> [Files -> Modes]] /\ "main" \in Files
  BY DEF IInv, TypeOK, Files
<1>1. own' # own
  OBVIOUS
<1>2. PICK c \in Clients : Step(c)
  BY <1>1 DEF Next, vars
<1>3. ASSUME NEW from, NEW f \in Files, NEW m, NEW to, Acquire(c, from, f, m, to)
      PROVE  c = r /\ f = "main" /\ m = "SH" /\ pc[r] = from
  BY <1>0, <1>3 DEF Acquire, Hold
<1>4. ASSUME NEW from, NEW f \in Files, NEW to, Release(c, from, f, to)
      PROVE  FALSE
  BY <1>0, <1>4 DEF Release, Hold
<1>5. ASSUME NEW from, NEW f \in Files, NEW m, NEW to, Busy(c, from, f, m, to)
      PROVE  FALSE
  BY <1>1, <1>5 DEF Busy
<1>6. ~WriterStep(c)
  BY <1>3, <1>4, <1>5 DEF Files, WriterStep, WriterQueue, WriterClaim, WriterEnter, WriterExit
<1>7. CASE ReaderStep(c)
  <2>1. pc[r] \in {"rEnter", "rLateEnter"}
    BY <1>1, <1>3, <1>4, <1>5, <1>7 DEF Files, ReaderStep, ReaderAdmit, ReaderProbe, ProbeFails,
       ReaderEnter, ReaderAdmitted, ReaderStepAside, ReaderQueue, ReaderReadmit,
       ReaderLateEnter, ReaderLateAdmitted, ReaderExit
  <2> QED
    BY <2>1 DEF IInv, LockDiscipline, NothingLeaks, HoldsAt, RegisteredAt, BarringAt
<1>8. ~DyingDrop(c)
  BY <1>0 DEF DyingDrop, Hold
<1> QED
  BY <1>1, <1>2, <1>6, <1>7, <1>8 DEF Step, Progress, StartWriter, StartReader, Start, Spawn,
     Spawns, Crash, EndOfChild, KidExit, KidDrop, Reborn

\* No reader enters while another client is a registered writer: whoever bars
\* the pending file has it alone.
THEOREM Precedence == Spec => WriterPrecedence
<1> DEFINE Prefers ==
      \A r \in Clients :
        own[r]["main"] = "none" /\ own'[r]["main"] = "SH"
          => \A w \in Clients \ {r} : ~Registered(w)
<1>1. IInv /\ [Next]_vars => [Prefers]_vars
  BY SharedEntryBars DEF IInv, LockDiscipline, FlockSound, Compatible, Files, Registered
<1> QED
  BY <1>1, Invariance, PTL DEF Spec, WriterPrecedence
-----------------------------------------------------------------------------
(* The protocol implements ReadWriteLease *)

GrantMap == [c \in Clients |-> Granted(c)]

\* A client that comes to believe it has the lease holds the lock itself, and
\* then nobody else believes what it does not tolerate.
LEMMA AdmissionIsEnter ==
  ASSUME IInv, NEW c \in Clients, NEW role \in {"reader", "writer"},
         Granted(c) = "none", own'[c]["main"] = IF role = "writer" THEN "EX" ELSE "SH",
         IInv', GrantMap' = [GrantMap EXCEPT ![c] = role], UNCHANGED <<kid, kidRole>>,
         \A d \in Clients \ {c} : own'[d] = own[d] /\ pc'[d] = pc[d],
         role = "writer" => kid[c]["main"] = "none"
  PROVE  Lease!Enter(c, role)
<1>1. ASSUME NEW d \in Clients
      PROVE  Lease!Tolerates(role, kidRole[d])
  <2>1. c = d => kid'[d]["main"] \in {"none", own'[c]["main"]}
    BY DEF IInv, LockDiscipline, FlockSound, Files
  <2>2. /\ kidRole[d] \in {"none", "reader", "writer"}
        /\ kidRole[d] = "writer" => kid[d]["main"] = "EX"
        /\ kidRole[d] = "reader" => kid[d]["main"] = "SH"
    BY DEF IInv, TypeOK, LockDiscipline, ChildrenHold
  <2>3. c # d => Compatible(own'[c]["main"], kid'[d]["main"])
    BY DEF IInv, LockDiscipline, FlockSound, Files
  <2> QED
    BY <2>1, <2>2, <2>3 DEF Lease!Tolerates, Compatible
<1>2. ASSUME NEW d \in Clients
      PROVE  Lease!Tolerates(role, GrantMap[d])
  <2>1. CASE d = c
    BY <2>1 DEF GrantMap, Lease!Tolerates
  <2>2. CASE d # c
    <3>1. Compatible(own'[c]["main"], own[d]["main"])
      BY <2>2 DEF IInv, LockDiscipline, FlockSound, Files
    <3>2. Granted(d) # "none" =>
             own[d]["main"] = IF Granted(d) = "writer" THEN "EX" ELSE "SH"
      BY DEF Granted, IInv, LockDiscipline, NothingLeaks, HoldsAt
    <3>3. Granted(d) \in {"none", "reader", "writer"}
      BY DEF Granted
    <3> QED
      BY <3>1, <3>2, <3>3 DEF GrantMap, Lease!Tolerates, Compatible
  <2> QED
    BY <2>1, <2>2
<1>3. GrantMap[c] = "none"
  BY DEF GrantMap
<1> QED
  BY <1>1, <1>2, <1>3 DEF Lease!Enter, GrantMap
\* A move of control between positions without the lease is a stutter there.
LEMMA OutsideIsStutter ==
  ASSUME IInv, NEW c \in Clients, NEW to, Goto(c, to), UNCHANGED kidRole,
         pc[c] \notin {"writing", "reading"}, to \notin {"writing", "reading"}
  PROVE  UNCHANGED <<GrantMap, kidRole>>
<1>1. pc \in [Clients -> PCs]
  BY DEF IInv, TypeOK
<1>2. ASSUME NEW d \in Clients PROVE Granted(d)' = Granted(d)
  BY <1>1 DEF Goto, Granted
<1> QED
  BY <1>2 DEF GrantMap

\* A move away from the body gives the lease up; the child's part stays.
LEMMA ExitIsLeave ==
  ASSUME IInv, NEW c \in Clients, NEW to, Goto(c, to), UNCHANGED kidRole,
         pc[c] \in {"writing", "reading"}, to \notin {"writing", "reading"}
  PROVE  Lease!Leave(c)
<1>1. pc \in [Clients -> PCs]
  BY DEF IInv, TypeOK
<1>2. ASSUME NEW d \in Clients \ {c} PROVE Granted(d)' = Granted(d)
  BY <1>1 DEF Goto, Granted
<1>3. Granted(c)' = "none" /\ Granted(c) # "none"
  BY <1>1 DEF Goto, Granted
<1> QED
  BY <1>2, <1>3 DEF GrantMap, Lease!Leave

\* Every step of the exclusive call is a writer's entry, its end, or silent.
LEMMA WriterRefines ==
  ASSUME IInv, IInv', NEW c \in Clients, WriterStep(c)
  PROVE  Lease!Next \/ UNCHANGED <<GrantMap, kidRole>>
<1> USE DEF Acquire, Busy, Release
<1>1. CASE Acquire(c, "wEnter", "main", "EX", "writing")
  <2>1. pc \in [Clients -> PCs] /\ own \in [Clients -> [Files -> Modes]]
           /\ kid \in [Clients -> [Files -> Modes]] /\ "main" \in Files
    BY DEF IInv, TypeOK, Files
  <2>2. GrantMap' = [GrantMap EXCEPT ![c] = "writer"] /\ Granted(c) = "none"
    BY <1>1, <2>1 DEF GrantMap, Granted, Goto
  <2>3. own'[c]["main"] = "EX" /\ kid[c]["main"] = "none"
    BY <1>1, <2>1 DEF CanLock, Compatible, Hold
  <2>4. \A d \in Clients \ {c} : own'[d] = own[d] /\ pc'[d] = pc[d]
    BY <1>1, <2>1 DEF Goto, Hold
  <2>5. Lease!Enter(c, "writer")
    BY <1>1, <2>2, <2>3, <2>4, AdmissionIsEnter
  <2> QED
    BY <2>5 DEF Lease!Next, Lease!Roles
<1>2. CASE Release(c, "writing", "main", "wFreeIntent")
  BY <1>2, ExitIsLeave DEF Lease!Next
<1>3. CASE \/ WriterQueue(c) \/ WriterClaim(c)
           \/ Busy(c, "wEnter", "main", "EX", "wFreeIntent")
           \/ Release(c, "wFreeIntent", "intent", "wFreePending")
           \/ Release(c, "wFreePending", "pending", "idle")
  BY <1>3, OutsideIsStutter DEF WriterQueue, WriterClaim
<1> QED
  BY <1>1, <1>2, <1>3 DEF WriterStep, WriterEnter, WriterExit

\* A reader enters when its admission files are closed, with the lock in hand.
LEMMA AdmittedRefines ==
  ASSUME IInv, IInv', NEW c \in Clients, NEW from \in {"rFreeIntent", "rLateFreePending"},
         NEW f \in {"intent", "pending"}, Release(c, from, f, Outcome(c))
  PROVE  Lease!Next \/ UNCHANGED <<GrantMap, kidRole>>
<1> USE DEF Release
<1>1. CASE own[c]["main"] = "SH"
  <2>1. pc \in [Clients -> PCs] /\ own \in [Clients -> [Files -> Modes]]
           /\ "main" \in Files
    BY DEF IInv, TypeOK, Files
  <2>2. GrantMap' = [GrantMap EXCEPT ![c] = "reader"] /\ Granted(c) = "none"
    BY <1>1, <2>1 DEF GrantMap, Granted, Goto, Outcome
  <2>3. own'[c]["main"] = "SH"
    BY <1>1, <2>1 DEF Hold
  <2>4. \A d \in Clients \ {c} : own'[d] = own[d] /\ pc'[d] = pc[d]
    BY <2>1 DEF Goto, Hold
  <2>5. Lease!Enter(c, "reader")
    BY <2>2, <2>3, <2>4, AdmissionIsEnter
  <2> QED
    BY <2>5 DEF Lease!Next, Lease!Roles
<1>2. CASE own[c]["main"] # "SH"
  BY <1>2, OutsideIsStutter DEF Outcome
<1> QED
  BY <1>1, <1>2

\* Every step of the shared call is a reader's entry, its end, or silent.
LEMMA ReaderRefines ==
  ASSUME IInv, IInv', NEW c \in Clients, ReaderStep(c)
  PROVE  Lease!Next \/ UNCHANGED <<GrantMap, kidRole>>
<1>1. CASE \/ Release(c, "rFreeIntent", "intent", Outcome(c))
           \/ Release(c, "rLateFreePending", "pending", Outcome(c))
  BY <1>1, AdmittedRefines
<1>2. CASE ReaderExit(c)
  BY <1>2, ExitIsLeave DEF ReaderExit, Release, Lease!Next
<1>3. CASE \/ ReaderAdmit(c) \/ ReaderProbe(c) \/ ReaderEnter(c)
           \/ Release(c, "rFreePending", "pending", "rFreeIntent")
           \/ ReaderStepAside(c) \/ ReaderQueue(c) \/ ReaderReadmit(c)
           \/ ReaderLateEnter(c)
           \/ Release(c, "rLateFreeIntent", "intent", "rLateFreePending")
  BY <1>3, OutsideIsStutter DEF Acquire, Busy, Release, ReaderAdmit, ReaderProbe,
     ProbeFails, ReaderEnter, ReaderStepAside, ReaderQueue, ReaderReadmit, ReaderLateEnter
<1> QED
  BY <1>1, <1>2, <1>3 DEF ReaderStep, ReaderAdmitted, ReaderLateAdmitted

\* A kill, a child's start and a child's end are those of ReadWriteLease.
LEMMA ProcessRefines ==
  ASSUME IInv, NEW c \in Clients,
         \/ StartWriter(c) \/ StartReader(c) \/ Spawn(c) \/ Crash(c)
         \/ EndOfChild(c) \/ DyingDrop(c) \/ Reborn(c)
  PROVE  Lease!Next \/ UNCHANGED <<GrantMap, kidRole>>
<1>1. CASE StartWriter(c) \/ StartReader(c) \/ Reborn(c)
  BY <1>1, OutsideIsStutter DEF StartWriter, StartReader, Start, Reborn
<1>2. CASE Crash(c)
  BY <1>2, ExitIsLeave, OutsideIsStutter DEF Crash, Lease!Next
<1>3. CASE Spawn(c)
  <2>1. Lease!Fork(c)
    BY <1>3 DEF Spawn, Spawns, Granted, Lease!Fork
  <2> QED
    BY <2>1 DEF Lease!Next
<1>4. CASE KidExit(c)
  <2>1. Lease!HeirLeave(c)
    BY <1>4 DEF KidExit, Granted, Lease!HeirLeave
  <2> QED
    BY <2>1 DEF Lease!Next
<1>5. CASE KidDrop(c) \/ DyingDrop(c)
  BY <1>5 DEF KidDrop, DyingDrop, GrantMap, Granted
<1> QED
  BY <1>1, <1>2, <1>3, <1>4, <1>5 DEF EndOfChild

\* The three-file protocol implements the lease: for any set of clients, its
\* steps are steps of ReadWriteLease or leave the lease as it was.
THEOREM Refinement == Spec => LeaseSpec
<1>1. Init => Lease!Init
  BY DEF Init, Granted, Lease!Init
<1>2. IInv /\ IInv' /\ [Next]_vars => [Lease!Next]_(Lease!leaseVars)
  <2> SUFFICES ASSUME IInv, IInv', [Next]_vars
               PROVE  Lease!Next \/ UNCHANGED <<GrantMap, kidRole>>
    BY DEF Lease!leaseVars, GrantMap
  <2>1. CASE UNCHANGED vars
    BY <2>1 DEF vars, GrantMap, Granted
  <2>2. ASSUME NEW c \in Clients, Step(c)
        PROVE  Lease!Next \/ UNCHANGED <<GrantMap, kidRole>>
    BY <2>2, WriterRefines, ReaderRefines, ProcessRefines DEF Step, Progress
  <2> QED
    BY <2>1, <2>2 DEF Next
<1> QED
  BY <1>1, <1>2, Invariance, PTL DEF Spec, LeaseSpec, Lease!Spec
===============================================================================
