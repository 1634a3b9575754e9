---------------------------- MODULE TrackingJournal ----------------------------
(***************************************************************************)
(* The tracking operations of project_coordinator_github.py over the       *)
(* compare-and-swap store of project_coordinator_store.py: an operation on *)
(* an issue is planned, journaled as in flight, sent once and bound to the *)
(* result it shows, by coordinators that run concurrently and die anywhere,*)
(* against a tracker that loses and delays requests and that others edit.  *)
(*                                                                         *)
(* The store is read and replaced under a lock nobody waits for.  A        *)
(* command that only replaces the document is one step; plan and cancel,   *)
(* which look at the tracker under the lock, hold it over several.  A      *)
(* snapshot's digest and path say no more than its generation does.        *)
(***************************************************************************)
EXTENDS Naturals, FiniteSets

CONSTANTS Coordinators,
          Operations,   \* identities; each covers the generation it was planned in
          Nobody, NoOp,
          Target,       \* Target[o]: the issue o is about
          Effect,       \* Effect[o]: what the tracker shows once o is done
          Marked,       \* comment, create-child: the text carries o's marker
          Relational,   \* assign, project-status, link, dependency
          MaxGeneration \* bound on the updates of the document

ASSUME MarkedAssumption ==
  /\ Marked \subseteq Operations
  /\ \A o \in Marked, a \in Operations : Effect[a] = Effect[o] => a = o
ASSUME NamesAssumption == Nobody \notin Coordinators /\ NoOp \notin Operations
ASSUME GenerationAssumption == MaxGeneration \in Nat

Phases == {"absent", "planned", "in-flight", "bound", "cancelled"}
Stations == {"idle", "planning", "planned", "cancelling", "cancelled",
             "observe", "reconcile", "claim", "send", "await", "confirm", "bind"}
Effects == {Effect[o] : o \in Operations}
Shared == Effects \ {Effect[o] : o \in Marked}

VARIABLES phase,       \* phase[o]: the journal in the document
          generation,  \* of the document
          lock,        \* who holds the project lock across steps
          at,          \* at[c]: where coordinator c stands in its command
          op,          \* op[c]: the operation it works on
          snap,        \* snap[c]: the generation it expects to replace
          network,     \* requests sent and not yet arrived
          shown,       \* effects the tracker shows
          sent,        \* sent[o]: how often o was sent, for the properties
          landed       \* operations whose own request took effect, likewise

document == <<phase, generation>>
tracker == <<network, shown, landed>>
vars == <<phase, generation, lock, at, op, snap, network, shown, sent, landed>>

Init ==
  /\ phase = [o \in Operations |-> "absent"]
  /\ generation = 1
  /\ lock = Nobody
  /\ at = [c \in Coordinators |-> "idle"]
  /\ op = [c \in Coordinators |-> NoOp]
  /\ snap = [c \in Coordinators |-> 0]
  /\ network = {}
  /\ shown \in SUBSET Shared
  /\ sent = [o \in Operations |-> 0]
  /\ landed = {}

Unresolved(o) == phase[o] \in {"planned", "in-flight"}
Matches(o) == Effect[o] \in shown

-----------------------------------------------------------------------------
(* The store *)

\* Mutant: the expected generation is not compared.
CanReplaceAny(c) ==
  /\ lock \in {Nobody, c}
  /\ generation < MaxGeneration

\* update: the lock is free, or this command's own, and nobody replaced the
\* document it expects.
CanReplace(c) ==
  /\ lock \in {Nobody, c}
  /\ snap[c] = generation
  /\ generation < MaxGeneration

Replace(o, to) ==
  /\ phase' = [phase EXCEPT ![o] = to]
  /\ generation' = generation + 1

\* Begin a command on o with the snapshot the operator just took.  An older
\* snapshot is refused here, and nothing changes.
Begin(c, o, station) ==
  /\ at[c] = "idle"
  /\ lock = Nobody
  /\ at' = [at EXCEPT ![c] = station]
  /\ op' = [op EXCEPT ![c] = o]
  /\ snap' = [snap EXCEPT ![c] = generation]
  /\ UNCHANGED <<document, tracker, sent>>

Goto(c, from, to) ==
  /\ at[c] = from
  /\ at' = [at EXCEPT ![c] = to]

End(c) ==
  /\ at' = [at EXCEPT ![c] = "idle"]
  /\ op' = [op EXCEPT ![c] = NoOp]
  /\ snap' = [snap EXCEPT ![c] = 0]

\* A requirement fails, the lock is busy, the snapshot is stale, a call to the
\* tracker fails or the process dies: the command ends and frees the lock.
Stop(c) ==
  /\ at[c] # "idle"
  /\ End(c)
  /\ lock' = IF lock = c THEN Nobody ELSE lock
  /\ UNCHANGED <<document, tracker, sent>>

\* Any other command of the project replaces the document.
OtherUpdate ==
  /\ lock = Nobody
  /\ generation < MaxGeneration
  /\ generation' = generation + 1
  /\ UNCHANGED <<phase, lock, at, op, snap, tracker, sent>>

-----------------------------------------------------------------------------
(* Planning and cancelling, with the lock held *)

Free(o) == \A a \in Operations : Target[a] = Target[o] => ~Unresolved(a)

\* Mutant: an intent on the same issue does not stand in the way.
PlanBeside(c, o) ==
  /\ phase[o] = "absent"
  /\ Begin(c, o, "planning")
  /\ lock' = c

Plan(c, o) ==
  /\ phase[o] = "absent"
  /\ Free(o)
  /\ Begin(c, o, "planning")
  /\ lock' = c

\* prepare_operation: nothing to do when the tracker shows the effect already.
PlanLook(c) ==
  /\ Goto(c, "planning", "planned")
  /\ ~Matches(op[c])
  /\ UNCHANGED <<document, lock, op, snap, tracker, sent>>

PlanCommit(c) ==
  /\ at[c] = "planned"
  /\ CanReplace(c)
  /\ Replace(op[c], "planned")
  /\ End(c)
  /\ lock' = Nobody
  /\ UNCHANGED <<tracker, sent>>

\* Mutant: an intent is cancelled whatever its phase.
CancelAny(c, o) ==
  /\ Unresolved(o)
  /\ Begin(c, o, "cancelling")
  /\ lock' = c

Cancel(c, o) ==
  /\ phase[o] = "planned"
  /\ Begin(c, o, "cancelling")
  /\ lock' = c

\* cancel_operation: an effect nobody sent is harmless only for relations.
CancelLook(c) ==
  /\ Goto(c, "cancelling", "cancelled")
  /\ Matches(op[c]) => op[c] \in Relational
  /\ UNCHANGED <<document, lock, op, snap, tracker, sent>>

CancelCommit(c) ==
  /\ at[c] = "cancelled"
  /\ CanReplace(c)
  /\ Replace(op[c], "cancelled")
  /\ End(c)
  /\ lock' = Nobody
  /\ UNCHANGED <<tracker, sent>>

-----------------------------------------------------------------------------
(* apply_operation: no lock is held between its steps *)

Apply(c, o) ==
  /\ Unresolved(o)
  /\ \E station \in {"observe", "reconcile"} : Begin(c, o, station)
  /\ UNCHANGED lock

\* The phase is that of the snapshot, which is current as long as c may go on.
\* A result that shows is bound when the intent was in flight.
FindResult(c) ==
  /\ \E from \in {"observe", "reconcile"} : Goto(c, from, "bind")
  /\ Matches(op[c])
  /\ phase[op[c]] = "in-flight"
  /\ UNCHANGED <<document, lock, op, snap, tracker, sent>>

\* Only an intent never started goes on, and never when reconciling.
FindNothing(c) ==
  /\ Goto(c, "observe", "claim")
  /\ ~Matches(op[c])
  /\ phase[op[c]] = "planned"
  /\ UNCHANGED <<document, lock, op, snap, tracker, sent>>

\* Journal the intent as in flight before the one request.
Claim(c) ==
  /\ Goto(c, "claim", "send")
  /\ CanReplace(c)
  /\ Replace(op[c], "in-flight")
  /\ snap' = [snap EXCEPT ![c] = generation']
  /\ UNCHANGED <<lock, op, tracker, sent>>

Send(c) ==
  /\ Goto(c, "send", "await")
  /\ network' = network \cup {op[c]}
  /\ sent' = [sent EXCEPT ![op[c]] = @ + 1]
  /\ UNCHANGED <<document, lock, op, snap, shown, landed>>

Answered(c) ==
  /\ Goto(c, "await", "confirm")
  /\ op[c] \in landed
  /\ UNCHANGED <<document, lock, op, snap, tracker, sent>>

\* Mutant: the answer is believed without looking.
ConfirmUnseen(c) ==
  /\ \E from \in {"await", "confirm"} : Goto(c, from, "bind")
  /\ UNCHANGED <<document, lock, op, snap, tracker, sent>>

Confirm(c) ==
  /\ Goto(c, "confirm", "bind")
  /\ Matches(op[c])
  /\ UNCHANGED <<document, lock, op, snap, tracker, sent>>

Bind(c) ==
  /\ at[c] = "bind"
  /\ CanReplace(c)
  /\ Replace(op[c], "bound")
  /\ End(c)
  /\ UNCHANGED <<lock, tracker, sent>>

-----------------------------------------------------------------------------
(* The tracker and its other users, external to the repository *)

Arrive(o) ==
  /\ o \in network
  /\ network' = network \ {o}
  /\ shown' = shown \cup {Effect[o]}
  /\ landed' = landed \cup {o}
  /\ UNCHANGED <<document, lock, at, op, snap, sent>>

LoseRequest(o) ==
  /\ o \in network
  /\ network' = network \ {o}
  /\ UNCHANGED <<document, lock, at, op, snap, shown, sent, landed>>

\* Anybody makes or undoes a relation, closes or reopens an issue, or deletes
\* a text; nobody else writes a coordinator's marker.
Edit(e) ==
  /\ \/ e \in Shared /\ shown' = shown \cup {e}
     \/ shown' = shown \ {e}
  /\ UNCHANGED <<document, lock, at, op, snap, network, sent, landed>>

-----------------------------------------------------------------------------
Step(c) ==
  \/ \E o \in Operations : Plan(c, o) \/ Cancel(c, o) \/ Apply(c, o)
  \/ PlanLook(c) \/ PlanCommit(c) \/ CancelLook(c) \/ CancelCommit(c)
  \/ FindResult(c) \/ FindNothing(c) \/ Claim(c) \/ Send(c)
  \/ Answered(c) \/ Confirm(c) \/ Bind(c)
  \/ Stop(c)

Next ==
  \/ \E c \in Coordinators : Step(c)
  \/ OtherUpdate
  \/ \E o \in Operations : Arrive(o) \/ LoseRequest(o)
  \/ \E e \in Effects : Edit(e)

Spec == Init /\ [][Next]_vars

-----------------------------------------------------------------------------
(* Properties *)

\* Every variable has its type; only the holder of the lock plans or cancels.
TypeOK ==
  /\ phase \in [Operations -> Phases]
  /\ generation \in Nat
  /\ lock \in Coordinators \cup {Nobody}
  /\ at \in [Coordinators -> Stations]
  /\ op \in [Coordinators -> Operations \cup {NoOp}]
  /\ snap \in [Coordinators -> Nat]
  /\ network \subseteq Operations
  /\ shown \subseteq Effects
  /\ sent \in [Operations -> Nat]
  /\ landed \subseteq Operations
  /\ \A c \in Coordinators :
       /\ at[c] # "idle" => op[c] \in Operations
       /\ at[c] \in {"planning", "planned", "cancelling", "cancelled"} <=> lock = c

\* "journals an exact planned request before its single remote attempt" and
\* "never automatic replay" (docs/ARCHITECTURE.md): an operation is sent at
\* most once, whoever applies or reconciles it, and never unless it is
\* journaled as started; a cancelled one was never sent.
SingleAttempt ==
  \A o \in Operations : /\ sent[o] <= 1
                        /\ sent[o] = 1 => phase[o] \in {"in-flight", "bound"}

\* "binds the observed result": an operation that carries a marker is bound
\* only when its own request took effect, even if the answer was lost.
BoundIsOwn ==
  \A o \in Marked : phase[o] = "bound" => o \in landed

\* No two operations on one issue are unresolved at once.
OneIntentPerTarget ==
  \A a, o \in Operations :
    Unresolved(a) /\ Unresolved(o) /\ Target[a] = Target[o] => a = o

Decisions == {<<"absent", "planned">>, <<"planned", "in-flight">>,
              <<"planned", "cancelled">>, <<"in-flight", "bound">>}

\* What the journal decided stays, whichever coordinators write it: bound and
\* cancelled are final, and a started intent is never taken back.
DecisionsStand ==
  [][\A o \in Operations :
       phase'[o] # phase[o] => <<phase[o], phase'[o]>> \in Decisions]_vars
===============================================================================
