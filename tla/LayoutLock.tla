------------------------------ MODULE LayoutLock ------------------------------
(***************************************************************************)
(* The fair reader-writer lock of atrinik_workspace/locking.py:            *)
(* exclusive_layout_lock and shared_layout_lock over three flock files of  *)
(* one coordinate (writer-pending, writer-intent and the lock itself), with*)
(* children that inherit the locked descriptors (inherit_lock_fds,         *)
(* active_lock_fds) and processes killed at any point.                     *)
(*                                                                         *)
(* A flock belongs to an open file description.  own[c] are those client c *)
(* opened; kid[c] are the duplicates in the child it started.  The         *)
(* description stays locked until every duplicate is closed, and one       *)
(* opened later by the same client conflicts with them like any other.     *)
(***************************************************************************)
EXTENDS Naturals, FiniteSets

CONSTANTS Clients

Files == {"pending", "intent", "main"}
Modes == {"none", "SH", "EX"}

WriterPCs == {"wQueue", "wClaim", "wEnter", "writing", "wFreeIntent", "wFreePending"}
ReaderPCs == {"rAdmit", "rProbe", "rEnter", "rFreePending", "rFreeIntent",
              "rStepAside", "rQueue", "rReadmit", "rLateEnter",
              "rLateFreeIntent", "rLateFreePending", "reading"}
PCs == WriterPCs \cup ReaderPCs \cup {"idle", "dying"}

VARIABLES pc,       \* where each client stands in its lock call
          nb,       \* nb[c]: the call is nonblocking
          own,      \* own[c][f]: mode client c holds file f in
          kid,      \* kid[c][f]: mode its child's duplicates hold f in
          kidRole   \* what the live child of c believes it may do

vars == <<pc, nb, own, kid, kidRole>>

NoLocks == [f \in Files |-> "none"]

Init ==
  /\ pc = [c \in Clients |-> "idle"]
  /\ nb = [c \in Clients |-> FALSE]
  /\ own = [c \in Clients |-> NoLocks]
  /\ kid = [c \in Clients |-> NoLocks]
  /\ kidRole = [c \in Clients |-> "none"]

-----------------------------------------------------------------------------
(* flock(2), external to the repository *)

Compatible(a, b) == a = "none" \/ b = "none" \/ (a = "SH" /\ b = "SH")

\* The kernel grants f to c: no other open file description stands against it.
CanLock(c, f, m) ==
  /\ \A d \in Clients \ {c} : Compatible(m, own[d][f])
  /\ \A d \in Clients : Compatible(m, kid[d][f])

\* The lease the client's own code believes it has.
Granted(c) == IF pc[c] = "writing" THEN "writer"
              ELSE IF pc[c] = "reading" THEN "reader" ELSE "none"

Goto(c, label) == pc' = [pc EXCEPT ![c] = label]
Hold(c, f, m) == own' = [own EXCEPT ![c][f] = m]

\* _advisory_lock granted: the context manager yields and control goes on.
Acquire(c, from, f, m, to) ==
  /\ pc[c] = from
  /\ CanLock(c, f, m)
  /\ Hold(c, f, m)
  /\ Goto(c, to)
  /\ UNCHANGED <<nb, kid, kidRole>>

\* _advisory_lock with nonblocking raises LockBusyError: unwind from here.
Busy(c, from, f, m, to) ==
  /\ pc[c] = from
  /\ nb[c]
  /\ ~CanLock(c, f, m)
  /\ Goto(c, to)
  /\ UNCHANGED <<nb, own, kid, kidRole>>

\* Closing the client's descriptor; a child may keep the description locked.
Release(c, from, f, to) ==
  /\ pc[c] = from
  /\ Hold(c, f, "none")
  /\ Goto(c, to)
  /\ UNCHANGED <<nb, kid, kidRole>>

-----------------------------------------------------------------------------
(* Exclusive: register as pending, claim the intent, enter. *)

Start(c, label) ==
  /\ pc[c] = "idle"
  /\ \E wait \in BOOLEAN : nb' = [nb EXCEPT ![c] = ~wait]
  /\ Goto(c, label)
  /\ UNCHANGED <<own, kid, kidRole>>

StartWriter(c) == Start(c, "wQueue")

WriterQueue(c) == \/ Acquire(c, "wQueue", "pending", "SH", "wClaim")
                  \/ Busy(c, "wQueue", "pending", "SH", "idle")

\* Mutant: a busy intent forgets that the pending file is held.
WriterClaimLeaky(c) == \/ Acquire(c, "wClaim", "intent", "EX", "wEnter")
                       \/ Busy(c, "wClaim", "intent", "EX", "idle")

WriterClaim(c) == \/ Acquire(c, "wClaim", "intent", "EX", "wEnter")
                  \/ Busy(c, "wClaim", "intent", "EX", "wFreePending")

WriterEnter(c) == \/ Acquire(c, "wEnter", "main", "EX", "writing")
                  \/ Busy(c, "wEnter", "main", "EX", "wFreeIntent")

WriterExit(c) == \/ Release(c, "writing", "main", "wFreeIntent")
                 \/ Release(c, "wFreeIntent", "intent", "wFreePending")
                 \/ Release(c, "wFreePending", "pending", "idle")

-----------------------------------------------------------------------------
(* Shared: pass the intent, prove no writer is pending, enter; when one is, *)
(* leave the intent to it and queue on the pending file instead.            *)

StartReader(c) == Start(c, "rAdmit")

ReaderAdmit(c) == \/ Acquire(c, "rAdmit", "intent", "EX", "rProbe")
                  \/ Busy(c, "rAdmit", "intent", "EX", "idle")

\* The probe is nonblocking whatever the caller asked for.
ProbeFails(c) ==
  /\ pc[c] = "rProbe"
  /\ ~CanLock(c, "pending", "EX")
  /\ Goto(c, "rStepAside")
  /\ UNCHANGED <<nb, own, kid, kidRole>>

\* Mutant: the probe asks for the pending file in shared mode.
ReaderProbeShared(c) == \/ Acquire(c, "rProbe", "pending", "SH", "rEnter")
                        \/ ProbeFails(c)

ReaderProbe(c) == \/ Acquire(c, "rProbe", "pending", "EX", "rEnter")
                  \/ ProbeFails(c)

ReaderEnter(c) == \/ Acquire(c, "rEnter", "main", "SH", "rFreePending")
                  \/ Busy(c, "rEnter", "main", "SH", "rFreePending")

Outcome(c) == IF own[c]["main"] = "SH" THEN "reading" ELSE "idle"

ReaderAdmitted(c) == \/ Release(c, "rFreePending", "pending", "rFreeIntent")
                     \/ Release(c, "rFreeIntent", "intent", Outcome(c))

\* Mutant: the reader queues on the pending file with the intent in hand.
ReaderStepAsideHolding(c) ==
  /\ pc[c] = "rStepAside"
  /\ Goto(c, "rQueue")
  /\ UNCHANGED <<nb, own, kid, kidRole>>

ReaderStepAside(c) == Release(c, "rStepAside", "intent", "rQueue")

ReaderQueue(c) == \/ Acquire(c, "rQueue", "pending", "EX", "rReadmit")
                  \/ Busy(c, "rQueue", "pending", "EX", "idle")

ReaderReadmit(c) == \/ Acquire(c, "rReadmit", "intent", "EX", "rLateEnter")
                    \/ Busy(c, "rReadmit", "intent", "EX", "rLateFreePending")

ReaderLateEnter(c) == \/ Acquire(c, "rLateEnter", "main", "SH", "rLateFreeIntent")
                      \/ Busy(c, "rLateEnter", "main", "SH", "rLateFreeIntent")

ReaderLateAdmitted(c) ==
  \/ Release(c, "rLateFreeIntent", "intent", "rLateFreePending")
  \/ Release(c, "rLateFreePending", "pending", Outcome(c))

ReaderExit(c) == Release(c, "reading", "main", "idle")

-----------------------------------------------------------------------------
(* Children and crashes *)

Spawns(c, locks, role) ==
  /\ pc[c] \in {"reading", "writing"}
  /\ kid[c] = NoLocks
  /\ kidRole[c] = "none"
  /\ kid' = [kid EXCEPT ![c] = locks]
  /\ kidRole' = [kidRole EXCEPT ![c] = role]
  /\ UNCHANGED <<pc, nb, own>>

\* Mutants: the lock itself is not inherited; the child is given no role.
SpawnUninherited(c) == Spawns(c, [own[c] EXCEPT !["main"] = "none"], Granted(c))

\* A subprocess is started with active_lock_fds(): it shares the descriptions.
Spawn(c) == Spawns(c, own[c], Granted(c))

KidExit(c) ==
  /\ kidRole[c] # "none"
  /\ kidRole' = [kidRole EXCEPT ![c] = "none"]
  /\ UNCHANGED <<pc, nb, own, kid>>

\* A process that ended closes its descriptors one by one, in no fixed order.
KidDrop(c) ==
  /\ kidRole[c] = "none"
  /\ \E f \in Files :
       /\ kid[c][f] # "none"
       /\ kid' = [kid EXCEPT ![c][f] = "none"]
  /\ UNCHANGED <<pc, nb, own, kidRole>>

Crash(c) ==
  /\ pc[c] \notin {"idle", "dying"}
  /\ Goto(c, "dying")
  /\ UNCHANGED <<nb, own, kid, kidRole>>

DyingDrop(c) ==
  /\ pc[c] = "dying"
  /\ \E f \in Files : own[c][f] # "none" /\ Hold(c, f, "none")
  /\ UNCHANGED <<pc, nb, kid, kidRole>>

Reborn(c) ==
  /\ pc[c] = "dying"
  /\ own[c] = NoLocks
  /\ Goto(c, "idle")
  /\ UNCHANGED <<nb, own, kid, kidRole>>

-----------------------------------------------------------------------------
WriterStep(c) == WriterQueue(c) \/ WriterClaim(c) \/ WriterEnter(c) \/ WriterExit(c)

ReaderStep(c) ==
  \/ ReaderAdmit(c) \/ ReaderProbe(c) \/ ReaderEnter(c) \/ ReaderAdmitted(c)
  \/ ReaderStepAside(c) \/ ReaderQueue(c) \/ ReaderReadmit(c)
  \/ ReaderLateEnter(c) \/ ReaderLateAdmitted(c) \/ ReaderExit(c)

\* What a client does by itself: its lock call, its body, its end.
Progress(c) == WriterStep(c) \/ ReaderStep(c) \/ DyingDrop(c) \/ Reborn(c)

EndOfChild(c) == KidExit(c) \/ KidDrop(c)

Step(c) == \/ StartWriter(c) \/ StartReader(c)
           \/ Progress(c)
           \/ Spawn(c) \/ Crash(c) \/ EndOfChild(c)

\* The steps that wait in the kernel for the pending or the intent file.
QueuedStep(c) == \/ WriterQueue(c) \/ WriterClaim(c)
                 \/ ReaderAdmit(c) \/ ReaderQueue(c) \/ ReaderReadmit(c)

Next == \E c \in Clients : Step(c)

Spec == Init /\ [][Next]_vars

(***************************************************************************)
(* A running client keeps executing, bodies and children end, and a dead   *)
(* process's descriptors get closed (WF).  The kernel grants a lock to a   *)
(* blocked waiter that finds it free again and again (SF): Linux wakes     *)
(* every waiter of a released flock, so this holds up to scheduling.       *)
(* Entering main is only WF: the protocol itself keeps it free.            *)
(***************************************************************************)
Fairness ==
  \A c \in Clients :
    /\ WF_vars(Progress(c))
    /\ WF_vars(EndOfChild(c))
    /\ SF_vars(QueuedStep(c))

FairSpec == Spec /\ Fairness

-----------------------------------------------------------------------------
(* Properties *)

\* Control positions, locks and children have the values the code can give.
TypeOK ==
  /\ pc \in [Clients -> PCs]
  /\ nb \in [Clients -> BOOLEAN]
  /\ own \in [Clients -> [Files -> Modes]]
  /\ kid \in [Clients -> [Files -> Modes]]
  /\ kidRole \in [Clients -> {"none", "reader", "writer"}]

(* The control positions at which a live client holds each file. *)
RegisteredAt == {"wClaim", "wEnter", "writing", "wFreeIntent", "wFreePending"}
BarringAt == {"rEnter", "rFreePending", "rReadmit", "rLateEnter",
              "rLateFreeIntent", "rLateFreePending"}
IntentAt == {"wEnter", "writing", "wFreeIntent", "rProbe", "rEnter", "rFreePending",
             "rFreeIntent", "rStepAside", "rLateEnter", "rLateFreeIntent"}
EnteredAt == {"rFreePending", "rFreeIntent", "rLateFreeIntent", "rLateFreePending"}

HoldsAt(label, locks) ==
  /\ locks["pending"] = IF label \in RegisteredAt THEN "SH"
                        ELSE IF label \in BarringAt THEN "EX" ELSE "none"
  /\ locks["intent"] = IF label \in IntentAt THEN "EX" ELSE "none"
  /\ locks["main"] \in IF label = "writing" THEN {"EX"}
                      ELSE IF label = "reading" THEN {"SH"}
                      ELSE IF label \in EnteredAt THEN {"SH", "none"} ELSE {"none"}

\* Every exit, nonblocking failures included, returned exactly what was taken:
\* what a live client holds follows from where it stands.
NothingLeaks == \A c \in Clients : pc[c] # "dying" => HoldsAt(pc[c], own[c])

\* Descriptions of different opens never hold conflicting modes; a client and
\* its child hold the same description, or compatible ones.
FlockSound ==
  \A c, d \in Clients, f \in Files :
    /\ c # d => /\ Compatible(own[c][f], own[d][f])
               /\ Compatible(own[c][f], kid[d][f])
               /\ Compatible(kid[c][f], kid[d][f])
    /\ own[c][f] = "none" \/ kid[c][f] = "none" \/ own[c][f] = kid[c][f]

\* A running child keeps its coordinate locked whatever became of its wrapper.
ChildrenHold ==
  \A c \in Clients :
    /\ kidRole[c] = "writer" => kid[c]["main"] = "EX"
    /\ kidRole[c] = "reader" => kid[c]["main"] = "SH"

LockDiscipline == NothingLeaks /\ FlockSound /\ ChildrenHold

\* The promise of the coordinate (refinement): readers share, a writer is
\* alone, and a child that outlives its wrapper, killed or not, keeps what it
\* was started with.  Every step of the three-file protocol is a step of
\* ReadWriteLease or changes nothing there.
Lease == INSTANCE ReadWriteLease
           WITH grant <- [c \in Clients |-> Granted(c)], heir <- kidRole
LeaseSpec == Lease!Spec

\* A client that holds the pending file SH has registered as a writer.
Registered(c) == own[c]["pending"] = "SH"

\* docs/ARCHITECTURE.md:721 "A queued writer precedes later readers": no
\* reader obtains the lock while any other client is a registered writer.
WriterPrecedence ==
  [][\A r \in Clients :
       own[r]["main"] = "none" /\ own'[r]["main"] = "SH"
         => \A w \in Clients \ {r} : ~Registered(w)]_vars

\* A registered writer that waits is served: it writes, or a nonblocking call
\* gave up, or its process was killed, however many readers keep arriving.
WriterServed ==
  \A c \in Clients :
    pc[c] \in {"wClaim", "wEnter"} ~> pc[c] \in {"writing", "wFreePending", "dying"}

\* The writer preference cannot strand a reader by itself: a reader that has
\* queued behind writers is served unless writers overlap for ever, without a
\* single moment in which none holds the pending file.
WriterGap == \A c \in Clients : own[c]["pending"] # "SH" /\ kid[c]["pending"] # "SH"
ReaderServed ==
  []<>WriterGap =>
    \A c \in Clients :
      pc[c] \in {"rStepAside", "rQueue", "rReadmit", "rLateEnter"}
        ~> pc[c] \in {"reading", "idle", "dying"}
===============================================================================
