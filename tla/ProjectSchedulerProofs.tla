------------------------ MODULE ProjectSchedulerProofs ------------------------
(***************************************************************************)
(* TLAPS proofs about ProjectScheduler, for every set of plans, workers,   *)
(* remote states and limits: types, disjoint lanes, the two limits, what a *)
(* terminal project leaves at work, current acceptance and drift.          *)
(***************************************************************************)
EXTENDS ProjectScheduler, FiniteSetTheorems, TLAPS

(***************************************************************************)
(* The inductive invariant.  An order or a worker at work keeps its node   *)
(* attempting, whatever the document says of it since; and of the workers  *)
(* that ever took an attempt, the document knows the one that may go on.   *)
(***************************************************************************)
HandlesSound ==
  \A w \in Workers :
    IF job[w].status = "closed" THEN job[w] = Closed
    ELSE job[w].node \in Declared /\ job[w].attempt # 0

\* Worker w has taken the attempt of n that the document records.
Took(w, n) == job[w].node = n /\ job[w].attempt = node[n].attempt

\* An order is for the attempt its node is at, and nobody has taken it.
OrdersCurrent ==
  \A o \in orders :
    /\ Attempting(o.node)
    /\ o.attempt = node[o.node].attempt
    /\ o.worker = node[o.node].worker
    /\ \A w \in Workers : ~Took(w, o.node)

\* One worker takes an attempt, and it is the one recorded, once one is.
OneTakes ==
  \A n \in Declared : \A w \in Workers : Took(w, n) =>
    /\ node[n].worker \in {None, w}
    /\ \A v \in Workers : Took(v, n) => v = w

\* Whoever is at work on a node has taken its attempt, or is its worker, left
\* over from an earlier attempt while the present one is on its way to it.
WorkCovered ==
  \A w \in Working :
    /\ Attempting(job[w].node)
    /\ Took(w, job[w].node) \/ node[job[w].node].worker = w

Engaged == {o.node : o \in orders} \cup WorkedOn

\* The lanes of all that is at work or on its way to work.
EngagedApart ==
  /\ \A m, n \in Engaged : m # n => ~Conflict(m, n)
  /\ HeavyIn(Engaged) <= HeavyLimit

OpenHandles == {w \in Workers : job[w].status # "closed"}
Spawns == {o \in orders : o.worker = None}

\* As long as the inventory is current, what it counts bounds what there is.
InventoryBounds ==
  sight.current =>
    Cardinality(OpenHandles) + Cardinality(Spawns) <= Cardinality(Open) + Cardinality(Unbound)

IInv ==
  /\ TypeOK /\ HandlesSound
  /\ OrdersCurrent /\ OneTakes /\ WorkCovered
  /\ EngagedApart
  /\ HandlesWithinCapacity /\ InventoryBounds

-----------------------------------------------------------------------------
(* Types *)

\* What the assumptions and the type invariant say of coordinates and records.
LEMMA Basics ==
  ASSUME TypeOK
  PROVE  /\ Declared \subseteq Ids /\ None \notin Declared /\ None \notin Workers
         /\ issued \in Nat /\ issued <= MaxAttempt /\ MaxAttempt \in Nat
         /\ DOMAIN node = Declared /\ \A n \in Declared : node[n] \in NodeRecords
         /\ \A n \in Declared : node[n].attempt \in Nat
         /\ \A n \in Declared : node[n].worker \in Workers \cup {None}
BY SchedulerAssumption DEF TypeOK, Declared, NodeRecords

LEMMA InitTypeOK == Init => TypeOK
<1> SUFFICES ASSUME Init PROVE TypeOK
  OBVIOUS
<1> USE DEF Init
<1>1. node \in [Declared -> NodeRecords]
  BY SchedulerAssumption DEF NodeRecords, Merged, Fresh, States
<1>2. \A n \in Declared : node[n].attempt <= issued
                          /\ node[n].state \notin {"reserved", "running", "ready"}
  BY SchedulerAssumption DEF Merged, Fresh
<1>3. sight \in [current : BOOLEAN, status : [Workers -> {"closed", "idle", "running"}]]
  BY DEF Blind
<1>4. job \in [Workers -> [status : {"closed", "idle", "running"},
                          node : Declared \cup {None}, attempt : 0..issued]]
  BY DEF Closed
<1>5. DOMAIN proof \subseteq DOMAIN plan.owners
  OBVIOUS
<1> QED
  BY <1>1, <1>2, <1>3, <1>4, <1>5, SchedulerAssumption DEF TypeOK

LEMMA BlindType == Blind \in [current : BOOLEAN, status : [Workers -> {"closed", "idle", "running"}]]
BY DEF Blind

LEMMA ReserveType ==
  ASSUME TypeOK, NEW chosen \in SUBSET Declared, Reserve(chosen)
  PROVE  TypeOK'
<1> USE DEF Reserve, Commit
<1>0. Declared' = Declared /\ issued' \in 0..MaxAttempt /\ issued' # 0 /\ issued <= issued'
  BY Basics DEF Declared
<1>1. node' \in [Declared -> NodeRecords]
  BY <1>0, Basics DEF NodeRecords, States
<1>2. orders' \subseteq [node : Declared, worker : Workers \cup {None}, attempt : 1..issued']
  <2>1. orders \subseteq [node : Declared, worker : Workers \cup {None}, attempt : 1..issued']
    BY <1>0, Basics DEF TypeOK
  <2> QED
    BY <1>0, <2>1, Basics
<1>3. job' \in [Workers -> [status : {"closed", "idle", "running"},
                           node : Declared \cup {None}, attempt : 0..issued']]
  BY <1>0, Basics DEF TypeOK
<1>4. \A n \in Declared : /\ node'[n].attempt <= issued'
                          /\ node'[n].state \in {"reserved", "running", "ready"}
                               => node'[n].attempt # 0
  BY <1>0, Basics DEF TypeOK
<1> QED
  BY <1>0, <1>1, <1>2, <1>3, <1>4, BlindType DEF TypeOK

LEMMA AssignType ==
  ASSUME TypeOK, NEW n \in Declared, NEW w \in Workers, NEW state \in {"reserved", "running"},
         Assign(n, w, state)
  PROVE  TypeOK'
<1> USE DEF Assign, Commit
<1>0. Declared' = Declared /\ issued' \in 0..MaxAttempt /\ issued' # 0 /\ issued <= issued'
  BY Basics DEF Declared
<1>1. node' \in [Declared -> NodeRecords]
  BY <1>0, Basics DEF NodeRecords, States
<1>2. orders' \subseteq [node : Declared, worker : Workers \cup {None}, attempt : 1..issued']
  <2>1. orders \subseteq [node : Declared, worker : Workers \cup {None}, attempt : 1..issued']
    BY <1>0, Basics DEF TypeOK
  <2> QED
    BY <1>0, <2>1, Basics
<1>3. job' \in [Workers -> [status : {"closed", "idle", "running"},
                           node : Declared \cup {None}, attempt : 0..issued']]
  BY <1>0, Basics DEF TypeOK
<1>4. \A m \in Declared : /\ node'[m].attempt <= issued'
                          /\ node'[m].state \in {"reserved", "running", "ready"}
                               => node'[m].attempt # 0
  BY <1>0, Basics DEF TypeOK
<1> QED
  BY <1>0, <1>1, <1>2, <1>3, <1>4, BlindType DEF TypeOK

LEMMA ChangeType ==
  ASSUME TypeOK, NEW n \in Declared, NEW new \in NodeRecords, Change(n, new),
         new.attempt = node[n].attempt,
         new.state \in {"reserved", "running", "ready"} => new.attempt # 0
  PROVE  TypeOK'
<1> USE DEF Change, Commit, store, runtime
<1>0. Declared' = Declared
  BY DEF Declared
<1>1. node' \in [Declared -> NodeRecords]
  BY Basics
<1>2. \A m \in Declared : /\ node'[m].attempt <= issued
                          /\ node'[m].state \in {"reserved", "running", "ready"}
                               => node'[m].attempt # 0
  BY Basics DEF TypeOK
<1> QED
  BY <1>0, <1>1, <1>2, BlindType DEF TypeOK

LEMMA BlockRecord ==
  ASSUME NEW s \in NodeRecords
  PROVE  /\ Block(s) \in NodeRecords /\ Block(s).state = "blocked"
         /\ Block(s).attempt = s.attempt /\ Block(s).worker = s.worker
         /\ Block(Block(s)) = Block(s)
BY DEF Block, NodeRecords, States

LEMMA MergedRecord ==
  /\ Merged \in NodeRecords
  /\ Merged.state = "merged" /\ Merged.attempt = 0 /\ Merged.worker = None
BY SchedulerAssumption DEF Merged, NodeRecords, States

\* What a refresh leaves of a node: blocked, merged, or as it was.
LEMMA Refreshed ==
  ASSUME TypeOK, NEW new, NEW pv, Refresh(new, pv), NEW n \in Declared
  PROVE  /\ node'[n] \in {node[n], Block(node[n]), Merged}
         /\ Attempting(n) => node'[n] \in {node[n], Block(node[n])}
<1> DEFINE changed == {m \in Declared : obs[m] # new[m]}
           drifted == IF n \in changed THEN AfterDrift(n, new[n]) ELSE node[n]
           descended == Descended(n, drifted, Stale(changed))
<1>1. node'[n] = Rescoped(descended, new[n], pv.body # parent.body)
  BY DEF Refresh
<1>2. drifted \in {node[n], Block(node[n]), Merged}
  BY DEF AfterDrift
<1>3. Attempting(n) => drifted \in {node[n], Block(node[n])}
  BY DEF AfterDrift
<1>4. Block(Block(node[n])) = Block(node[n])
  BY Basics, BlockRecord
<1>5. Merged.state = "merged" /\ Block(node[n]).state = "blocked"
  BY Basics, BlockRecord, MergedRecord
<1>6. descended \in {node[n], Block(node[n]), Merged}
  <2> HIDE DEF drifted
  <2> QED
    BY <1>2, <1>4, <1>5 DEF Descended, Revocable
<1>7. Attempting(n) => descended \in {node[n], Block(node[n])}
  <2> HIDE DEF drifted
  <2> QED
    BY <1>3, <1>4 DEF Descended
<1>8. node'[n] \in {node[n], Block(node[n]), Merged}
  <2> HIDE DEF descended
  <2> QED
    BY <1>1, <1>4, <1>5, <1>6 DEF Rescoped, Revocable
<1>9. ASSUME Attempting(n) PROVE node'[n] \in {node[n], Block(node[n])}
  <2> HIDE DEF descended
  <2>1. descended.state \notin {"pending", "ready"}
    BY <1>5, <1>7, <1>9 DEF Attempting
  <2> QED
    BY <1>1, <1>4, <1>7, <1>9, <2>1 DEF Rescoped
<1> QED
  BY <1>8, <1>9

LEMMA ObserveType == ASSUME TypeOK, Observe PROVE TypeOK'
<1>1. PICK new \in [Ids -> Views \cup {Unseen}], pv \in ParentViews : Refresh(new, pv)
  BY DEF Observe
<1> USE <1>1 DEF Refresh, Commit, runtime
<1>2. Declared' = Declared /\ DOMAIN node' = Declared
  BY DEF Declared
<1>3. ASSUME NEW n \in Declared
      PROVE  /\ node'[n] \in NodeRecords
             /\ node'[n].attempt <= issued
             /\ node'[n].state \in {"reserved", "running", "ready"} => node'[n].attempt # 0
  <2>1. node'[n] \in {node[n], Block(node[n]), Merged}
    BY Refreshed
  <2> QED
    BY <2>1, Basics, BlockRecord, MergedRecord DEF TypeOK
<1>4. node' \in [Declared -> NodeRecords]
  BY <1>2, <1>3
<1> QED
  BY <1>2, <1>3, <1>4, BlindType DEF TypeOK

LEMMA AttestType ==
  ASSUME TypeOK, NEW i \in DOMAIN plan.owners, Attest(i)
  PROVE  TypeOK'
<1> USE DEF Attest, Commit, runtime
<1>1. Declared' = Declared
  BY DEF Declared
<1>2. node' \in [Declared -> NodeRecords]
  BY Basics DEF NodeRecords, States
<1>3. \A n \in Declared : /\ node'[n].attempt <= issued
                          /\ node'[n].state \in {"reserved", "running", "ready"}
                               => node'[n].attempt # 0
  BY Basics DEF TypeOK, NodeRecords
<1>4. DOMAIN proof' \subseteq DOMAIN plan.owners
  BY DEF TypeOK
<1> QED
  BY <1>1, <1>2, <1>3, <1>4, BlindType DEF TypeOK

\* A node a replan adds has no attempt.
LEMMA FreshType ==
  ASSUME NEW p, NEW n
  PROVE  /\ Fresh(p, n) \in NodeRecords /\ Fresh(p, n).attempt = 0 /\ Fresh(p, n).worker = None
         /\ Fresh(p, n).state \in {"external", "pending"}
BY SchedulerAssumption DEF Fresh, NodeRecords, States

\* What a replan leaves of a known node.
LEMMA Replanned ==
  ASSUME NEW new, Replan(new), NEW n \in Declared
  PROVE  /\ n \in Declared'
         /\ node'[n] \in {[node[n] EXCEPT !.state = "pending", !.worker = None],
                         [node[n] EXCEPT !.state = "merged"], node[n]}
         /\ Attempting(n) => node'[n] = node[n] /\ plan'.nodes[n] = plan.nodes[n]
BY DEF Replan, Declared, Attempting

LEMMA ReplanType ==
  ASSUME TypeOK, NEW new \in Plans, Replan(new)
  PROVE  TypeOK'
<1>1. /\ Declared' = DOMAIN new.nodes /\ Declared \subseteq Declared' /\ Declared' \subseteq Ids
      /\ plan' = new /\ proof' = << >> /\ sight' = Blind
      /\ UNCHANGED <<obs, parent, issued, orders, job>>
  BY SchedulerAssumption DEF Replan, Declared, Commit, runtime
<1>2. \A n \in Declared' \ Declared : node'[n] = Fresh(new, n)
  BY DEF Replan, Declared
<1>3. ASSUME NEW n \in Declared'
      PROVE  /\ node'[n] \in NodeRecords
             /\ node'[n].attempt <= issued
             /\ node'[n].state \in {"reserved", "running", "ready"} => node'[n].attempt # 0
  <2>1. CASE n \notin Declared
    BY <1>2, <2>1, Basics, FreshType
  <2>2. CASE n \in Declared
    <3>1. node'[n] \in {[node[n] EXCEPT !.state = "pending", !.worker = None],
                       [node[n] EXCEPT !.state = "merged"], node[n]}
      BY <2>2, Replanned
    <3>2. /\ node[n] \in NodeRecords /\ node[n].attempt <= issued
          /\ node[n].state \in {"reserved", "running", "ready"} => node[n].attempt # 0
      BY <2>2, Basics DEF TypeOK
    <3> QED
      BY <3>1, <3>2 DEF NodeRecords, States
  <2> QED
    BY <2>1, <2>2
<1>4. node' \in [Declared' -> NodeRecords]
  <2>1. DOMAIN node' = Declared' /\ node' = [n \in Declared' |-> node'[n]]
    BY DEF Replan, Declared
  <2> QED
    BY <1>3, <2>1
<1>5. orders' \subseteq [node : Declared', worker : Workers \cup {None}, attempt : 1..issued']
  BY <1>1 DEF TypeOK
<1>6. job' \in [Workers -> [status : {"closed", "idle", "running"},
                           node : Declared' \cup {None}, attempt : 0..issued']]
  BY <1>1 DEF TypeOK
<1>7. DOMAIN proof' = {}
  <2>1. DOMAIN << >> = {}
    OBVIOUS
  <2> QED
    BY <1>1, <2>1
<1> QED
  BY <1>1, <1>3, <1>4, <1>5, <1>6, <1>7, BlindType DEF TypeOK

\* A step of the runtime leaves the store alone.
LEMMA RuntimeType ==
  ASSUME TypeOK, UNCHANGED <<store, sight>>,
         orders' \subseteq orders,
         job' \in [Workers -> [status : {"closed", "idle", "running"},
                               node : Declared \cup {None}, attempt : 0..issued]]
  PROVE  TypeOK'
BY DEF TypeOK, store, Declared

LEMMA CarryType ==
  ASSUME TypeOK, NEW o \in orders, Carry(o)
  PROVE  TypeOK'
<1> USE DEF Carry
<1>1. o.node \in Declared /\ o.attempt \in 0..issued
  BY Basics DEF TypeOK
<1>2. job' \in [Workers -> [status : {"closed", "idle", "running"},
                          node : Declared \cup {None}, attempt : 0..issued]]
  BY <1>1 DEF TypeOK
<1> QED
  BY <1>2, RuntimeType

LEMMA SettleType ==
  ASSUME TypeOK, NEW w \in Workers, Complete(w) \/ Close(w)
  PROVE  TypeOK'
<1>1. PICK new \in {[job[w] EXCEPT !.status = "idle"], Closed} :
        /\ job' = [job EXCEPT ![w] = new]
        /\ UNCHANGED <<store, orders, sight>>
  BY DEF Complete, Close, Settle
<1>2. new \in [status : {"closed", "idle", "running"},
               node : Declared \cup {None}, attempt : 0..issued]
  <2>1. job[w] \in [status : {"closed", "idle", "running"},
                   node : Declared \cup {None}, attempt : 0..issued]
    BY DEF TypeOK
  <2>2. 0 \in 0..issued
    BY Basics
  <2> QED
    BY <2>1, <2>2 DEF Closed
<1>3. job' \in [Workers -> [status : {"closed", "idle", "running"},
                          node : Declared \cup {None}, attempt : 0..issued]]
  BY <1>1, <1>2 DEF TypeOK
<1> QED
  BY <1>1, <1>3, RuntimeType

LEMMA LookType == ASSUME TypeOK, Look PROVE TypeOK'
<1>1. sight' \in [current : BOOLEAN, status : [Workers -> {"closed", "idle", "running"}]]
  BY DEF Look, TypeOK
<1> QED
  BY <1>1 DEF TypeOK, Look, store, runtime, Declared

LEMMA CommandType ==
  ASSUME TypeOK, NEW n \in Declared, Command(n)
  PROVE  TypeOK'
<1>1. CASE Reopen(n)
  <2>1. node[n].worker \in Workers
    BY <1>1, Basics DEF Reopen
  <2> QED
    BY <1>1, <2>1, AssignType DEF Reopen
<1>2. CASE Retry(n)
  <2>1. [node[n] EXCEPT !.state = "pending", !.worker = None] \in NodeRecords
    BY Basics DEF NodeRecords, States
  <2> QED
    BY <1>2, <2>1, ChangeType, Basics DEF Retry, NodeRecords
<1>3. ASSUME NEW w \in Workers, ReserveExisting(n, w) PROVE TypeOK'
  BY <1>3, AssignType DEF ReserveExisting
<1>4. ASSUME NEW w \in Workers, RecordWorker(n, w) PROVE TypeOK'
  <2>1. [node[n] EXCEPT !.state = "running", !.worker = w] \in NodeRecords
    BY Basics DEF NodeRecords, States
  <2>2. node[n].attempt # 0
    BY <1>4 DEF RecordWorker, TypeOK
  <2> QED
    BY <1>4, <2>1, <2>2, ChangeType, Basics DEF RecordWorker, NodeRecords
<1>5. ASSUME NEW w \in Workers, WorkerResult(n, w) PROVE TypeOK'
  <2>1. PICK outcome \in {"ready", "blocked"} :
          Change(n, [node[n] EXCEPT !.state = outcome])
    BY <1>5 DEF WorkerResult
  <2>2. [node[n] EXCEPT !.state = outcome] \in NodeRecords
    BY Basics DEF NodeRecords, States
  <2>3. node[n].attempt # 0
    BY <1>5 DEF WorkerResult, TypeOK
  <2> QED
    BY <2>1, <2>2, <2>3, ChangeType, Basics DEF NodeRecords
<1> QED
  BY <1>1, <1>2, <1>3, <1>4, <1>5 DEF Command

\* Every step preserves the types.
LEMMA TypeStep == TypeOK /\ [Next]_vars => TypeOK'
<1> SUFFICES ASSUME TypeOK, [Next]_vars PROVE TypeOK'
  OBVIOUS
<1>1. CASE Look
  BY <1>1, LookType
<1>2. CASE Dispatch
  BY <1>2, ReserveType DEF Dispatch
<1>3. ASSUME NEW n \in Declared, Command(n) PROVE TypeOK'
  BY <1>3, CommandType
<1>4. CASE Observe
  BY <1>4, ObserveType
<1>5. ASSUME NEW i \in DOMAIN plan.owners, Attest(i) PROVE TypeOK'
  BY <1>5, AttestType
<1>6. ASSUME NEW new \in Plans, Replan(new) PROVE TypeOK'
  BY <1>6, ReplanType
<1>7. ASSUME NEW o \in orders, Carry(o) PROVE TypeOK'
  BY <1>7, CarryType
<1>8. ASSUME NEW o \in orders, Lose(o) PROVE TypeOK'
  <2>1. job' \in [Workers -> [status : {"closed", "idle", "running"},
                            node : Declared \cup {None}, attempt : 0..issued]]
    BY <1>8 DEF Lose, TypeOK
  <2> QED
    BY <1>8, <2>1, RuntimeType DEF Lose
<1>9. ASSUME NEW w \in Workers, Complete(w) \/ Close(w) PROVE TypeOK'
  BY <1>9, SettleType
<1>10. CASE UNCHANGED vars
  BY <1>10 DEF TypeOK, vars, Declared
<1> QED
  BY <1>1, <1>2, <1>3, <1>4, <1>5, <1>6, <1>7, <1>8, <1>9, <1>10 DEF Next

\* Types are right in every state: an attempt that is recorded or ordered was
\* issued, and a node at work or reported has one.
THEOREM TypeCorrect == Spec => []TypeOK
BY InitTypeOK, TypeStep, PTL DEF Spec

-----------------------------------------------------------------------------
(* Evidence *)

\* The coordinates that the acceptance of S observes: S, and all it requires.
LEMMA ClosureContains == ASSUME NEW S \in SUBSET Ids PROVE S \subseteq Closure(S)
BY DEF Closure

\* What goes stale with a change: the change itself, and whoever needs what does.
LEMMA StaleContains ==
  ASSUME NEW changed \in SUBSET Declared PROVE changed \subseteq Stale(changed)
BY DEF Stale

LEMMA StaleClosed ==
  ASSUME NEW changed, NEW n \in Declared,
         DOMAIN plan.nodes[n].needs \cap Stale(changed) # {}
  PROVE  n \in Stale(changed)
<1> SUFFICES ASSUME NEW T \in SUBSET Declared, changed \subseteq T,
                    \A m \in Declared : DOMAIN plan.nodes[m].needs \cap T # {} => m \in T
             PROVE  n \in T
  BY DEF Stale
<1>1. Stale(changed) \subseteq T
  BY DEF Stale
<1> QED
  BY <1>1

LEMMA StaleMonotone ==
  ASSUME NEW A, NEW B, A \subseteq B PROVE Stale(A) \subseteq Stale(B)
BY DEF Stale

\* Nothing goes stale of itself.
LEMMA StaleReached ==
  ASSUME NEW changed \in SUBSET Declared, NEW n \in Stale(changed), n \notin changed
  PROVE  DOMAIN plan.nodes[n].needs \cap Stale(changed) # {}
<1> SUFFICES ASSUME DOMAIN plan.nodes[n].needs \cap Stale(changed) = {} PROVE FALSE
  OBVIOUS
<1> DEFINE T == Stale(changed) \ {n}
<1>1. T \in SUBSET Declared
  BY DEF Stale
<1>2. changed \subseteq T
  BY StaleContains
<1>3. ASSUME NEW m \in Declared, DOMAIN plan.nodes[m].needs \cap T # {} PROVE m \in T
  <2>1. m \in Stale(changed)
    BY <1>3, StaleClosed
  <2> QED
    BY <1>3, <2>1
<1>4. n \in T
  <2> HIDE DEF T
  <2> QED
    BY <1>1, <1>2, <1>3 DEF Stale
<1> QED
  BY <1>4

\* What goes stale with m has m among the coordinates its acceptance observes.
LEMMA StaleIsObserved ==
  ASSUME Declared \subseteq Ids, NEW S, NEW n \in S, n \in Declared,
         NEW m \in Declared, n \in Stale({m})
  PROVE  m \in Closure(S)
<1> SUFFICES ASSUME NEW T \in SUBSET Ids, S \subseteq T,
                    \A k \in T \cap Declared : Requires(k) \subseteq T
             PROVE  m \in T
  BY DEF Closure
<1> SUFFICES ASSUME m \notin T PROVE FALSE
  OBVIOUS
<1> DEFINE U == Declared \ T
<1>1. ASSUME NEW k \in Declared, DOMAIN plan.nodes[k].needs \cap U # {} PROVE k \in U
  BY <1>1 DEF Requires
<1>2. U \in SUBSET Declared /\ {m} \subseteq U
  OBVIOUS
<1>3. n \in U
  <2> HIDE DEF U
  <2> QED
    BY <1>1, <1>2 DEF Stale
<1> QED
  BY <1>3

\* Evidence says of the parent, and of all that n rests on, what is so now.
Shows(n, evidence) ==
  /\ evidence.requirements[1] = parent.body
  /\ \A m \in Declared : m = n \/ n \in Stale({m}) =>
       m \in DOMAIN evidence.observations /\ evidence.observations[m] = obs[m]

LEMMA EvidenceShows ==
  ASSUME Declared \subseteq Ids, NEW i, NEW n \in Declared, n \in plan.owners[i]
  PROVE  Shows(n, Evidence(i))
<1>1. ASSUME NEW m \in Declared, m = n \/ n \in Stale({m})
      PROVE  m \in Closure(plan.owners[i])
  <2>1. CASE m = n
    BY <2>1 DEF Closure
  <2>2. CASE n \in Stale({m})
    BY <2>2, StaleIsObserved
  <2> QED
    BY <1>1, <2>1, <2>2
<1> QED
  BY <1>1 DEF Shows, Evidence

\* Acceptance is current after a step that leaves the plan alone, told with what
\* depended on what before the step.
LEMMA CurrentNext ==
  ASSUME UNCHANGED plan,
         \A n \in Declared : node'[n].state = "accepted" =>
           \A i \in Owned(n) :
             /\ i \in DOMAIN proof'
             /\ proof'[i].requirements[1] = parent'.body
             /\ \A m \in Declared : m = n \/ n \in Stale({m}) =>
                  /\ m \in DOMAIN proof'[i].observations
                  /\ proof'[i].observations[m] = obs'[m]
  PROVE  AcceptedIsCurrent'
BY DEF AcceptedIsCurrent, Declared, Owned, Stale

LEMMA AcceptedShows ==
  AcceptedIsCurrent <=>
    \A n \in Declared : node[n].state = "accepted" =>
      \A i \in Owned(n) : i \in DOMAIN proof /\ Shows(n, proof[i])
BY DEF AcceptedIsCurrent, Shows

\* A step that accepts nobody, and touches no evidence, keeps acceptance current.
LEMMA AcceptNobody ==
  ASSUME AcceptedIsCurrent, UNCHANGED <<plan, obs, parent, proof>>,
         \A n \in Declared : node'[n].state = "accepted" => node[n].state = "accepted"
  PROVE  AcceptedIsCurrent'
BY DEF AcceptedIsCurrent, Declared, Owned, Stale

\* A refresh leaves a node accepted only if nothing it rests on has changed.
LEMMA RefreshAccepted ==
  ASSUME TypeOK, AcceptedIsCurrent, NEW new, NEW pv, Refresh(new, pv)
  PROVE  AcceptedIsCurrent'
<1> DEFINE changed == {m \in Declared : obs[m] # new[m]}
<1>8. obs' = new /\ parent' = pv /\ plan' = plan /\ proof' = proof
  BY DEF Refresh
<1> SUFFICES ASSUME NEW n \in Declared, node'[n].state = "accepted",
                    NEW i \in Owned(n)
             PROVE  /\ i \in DOMAIN proof
                    /\ proof[i].requirements[1] = pv.body
                    /\ \A m \in Declared : m = n \/ n \in Stale({m}) =>
                         /\ m \in DOMAIN proof[i].observations
                         /\ proof[i].observations[m] = new[m]
  <2> HIDE DEF changed
  <2> QED
    BY <1>8, CurrentNext
<1> DEFINE drifted == IF n \in changed THEN AfterDrift(n, new[n]) ELSE node[n]
           descended == Descended(n, drifted, Stale(changed))
<1>1. node'[n] = Rescoped(descended, new[n], pv.body # parent.body)
  BY DEF Refresh
<1>2. drifted \in NodeRecords
  BY BlockRecord, MergedRecord, Basics DEF AfterDrift
<1>3. descended \in NodeRecords
  <2> HIDE DEF drifted
  <2> QED
    BY <1>2, BlockRecord DEF Descended
<1>9. descended.state = "accepted" /\ pv.body = parent.body
  <2> HIDE DEF descended
  <2> QED
    BY <1>1, <1>3, BlockRecord, MergedRecord DEF Rescoped, Revocable
<1>4. /\ drifted.state = "accepted"
      /\ DOMAIN plan.nodes[n].needs \cap Stale(changed) = {}
  <2> HIDE DEF drifted
  <2> QED
    BY <1>2, <1>9, BlockRecord DEF Descended, Revocable
<1>5. n \notin changed /\ node[n].state = "accepted"
  BY <1>4, Basics, BlockRecord, MergedRecord DEF AfterDrift
<1>6. i \in DOMAIN proof /\ Shows(n, proof[i])
  BY <1>5, AcceptedShows
<1>7. ASSUME NEW m \in Declared, m = n \/ n \in Stale({m}) PROVE new[m] = obs[m]
  <2> SUFFICES ASSUME m \in changed PROVE FALSE
    OBVIOUS
  <2>1. n # m /\ n \in Stale({m})
    BY <1>5, <1>7
  <2>2. DOMAIN plan.nodes[n].needs \cap Stale({m}) # {}
    BY <2>1, StaleReached
  <2>3. Stale({m}) \subseteq Stale(changed)
    BY StaleMonotone
  <2> QED
    BY <1>4, <2>2, <2>3
<1> QED
  BY <1>6, <1>7, <1>9 DEF Shows

\* Whom an attestation accepts owns nothing that is not proved as of now.
LEMMA AttestAccepted ==
  ASSUME TypeOK, AcceptedIsCurrent, NEW i \in DOMAIN plan.owners, Attest(i)
  PROVE  AcceptedIsCurrent'
<1>1. UNCHANGED <<plan, obs, parent>>
  BY DEF Attest
<1>2. /\ DOMAIN proof' = DOMAIN proof \cup {i}
      /\ proof'[i] = Evidence(i)
      /\ \A j \in DOMAIN proof \ {i} : proof'[j] = proof[j]
  BY DEF Attest
<1>3. ASSUME NEW n \in Declared, node'[n].state = "accepted", NEW j \in Owned(n)
      PROVE  j \in DOMAIN proof' /\ Shows(n, proof'[j])
  <2>1. n \in plan.owners[j]
    BY DEF Owned
  <2>2. CASE j = i
    BY <1>2, <2>1, <2>2, Basics, EvidenceShows
  <2>3. CASE j # i /\ node[n].state = "accepted"
    BY <1>2, <2>3, AcceptedShows
  <2>4. CASE j # i /\ node[n].state # "accepted"
    <3>1. Valid(j)
      BY <1>3, <2>4 DEF Attest
    <3>2. j \in DOMAIN proof /\ proof[j] = Evidence(j)
      BY <3>1 DEF Valid
    <3> QED
      BY <1>2, <2>1, <2>4, <3>2, Basics, EvidenceShows
  <2> QED
    BY <2>2, <2>3, <2>4
<1> QED
  BY <1>1, <1>3, CurrentNext DEF Shows

\* Every step keeps acceptance current.
LEMMA AcceptedStep == TypeOK /\ AcceptedIsCurrent /\ [Next]_vars => AcceptedIsCurrent'
<1> SUFFICES ASSUME TypeOK, AcceptedIsCurrent, [Next]_vars PROVE AcceptedIsCurrent'
  OBVIOUS
<1>1. CASE UNCHANGED store
  BY <1>1, AcceptNobody DEF store
<1>2. CASE Dispatch
  BY <1>2, AcceptNobody DEF Dispatch, Reserve
<1>3. ASSUME NEW n \in Declared, Command(n) PROVE AcceptedIsCurrent'
  <2>1. CASE Reopen(n) \/ \E w \in Workers : ReserveExisting(n, w)
    <3>1. PICK w \in Workers, state \in {"reserved", "running"} : Assign(n, w, state)
      BY <2>1, Basics DEF Reopen, ReserveExisting
    <3>2. \A m \in Declared : node'[m].state = "accepted" => node[m].state = "accepted"
      BY <3>1, Basics DEF Assign
    <3> QED
      BY <3>1, <3>2, AcceptNobody DEF Assign
  <2>2. ASSUME NEW new \in NodeRecords, Change(n, new), new.state # "accepted"
        PROVE  AcceptedIsCurrent'
    <3>1. \A m \in Declared : node'[m].state = "accepted" => node[m].state = "accepted"
      BY <2>2, Basics DEF Change
    <3> QED
      BY <2>2, <3>1, AcceptNobody DEF Change
  <2>3. CASE Retry(n)
    <3>1. [node[n] EXCEPT !.state = "pending", !.worker = None] \in NodeRecords
      BY Basics DEF NodeRecords, States
    <3> QED
      BY <2>2, <2>3, <3>1 DEF Retry, NodeRecords
  <2>4. ASSUME NEW w \in Workers, RecordWorker(n, w) PROVE AcceptedIsCurrent'
    <3>1. [node[n] EXCEPT !.state = "running", !.worker = w] \in NodeRecords
      BY Basics DEF NodeRecords, States
    <3> QED
      BY <2>2, <2>4, <3>1, Basics DEF RecordWorker, NodeRecords
  <2>5. ASSUME NEW w \in Workers, WorkerResult(n, w) PROVE AcceptedIsCurrent'
    <3>1. PICK outcome \in {"ready", "blocked"} :
            Change(n, [node[n] EXCEPT !.state = outcome])
      BY <2>5 DEF WorkerResult
    <3>2. [node[n] EXCEPT !.state = outcome] \in NodeRecords
      BY Basics DEF NodeRecords, States
    <3> QED
      BY <2>2, <3>1, <3>2, Basics DEF NodeRecords
  <2> QED
    BY <1>3, <2>1, <2>3, <2>4, <2>5 DEF Command
<1>4. CASE Observe
  BY <1>4, RefreshAccepted DEF Observe
<1>5. ASSUME NEW i \in DOMAIN plan.owners, Attest(i) PROVE AcceptedIsCurrent'
  BY <1>5, AttestAccepted
<1>6. ASSUME NEW new \in Plans, Replan(new) PROVE AcceptedIsCurrent'
  <2>1. \A n \in Declared' : node'[n].state # "accepted"
    <3> SUFFICES ASSUME NEW n \in Declared' PROVE node'[n].state # "accepted"
      OBVIOUS
    <3>1. CASE n \notin Declared
      <4>1. node'[n] = Fresh(new, n)
        BY <1>6, <3>1 DEF Replan, Declared
      <4> QED
        BY <4>1, FreshType
    <3>2. CASE n \in Declared
      <4>1. node[n] \in NodeRecords
        BY <3>2, Basics
      <4>2. node'[n] = IF plan.nodes[n] # new.nodes[n]
                       THEN [node[n] EXCEPT !.state = "pending", !.worker = None]
                       ELSE IF node[n].state = "accepted"
                       THEN [node[n] EXCEPT !.state = "merged"]
                       ELSE node[n]
        BY <1>6, <3>2 DEF Replan, Declared
      <4> QED
        BY <4>1, <4>2 DEF NodeRecords
    <3> QED
      BY <3>1, <3>2
  <2> QED
    BY <2>1 DEF AcceptedIsCurrent
<1>7. CASE Look \/ (\E o \in orders : Carry(o) \/ Lose(o))
           \/ (\E w \in Workers : Complete(w) \/ Close(w)) \/ UNCHANGED vars
  <2>1. UNCHANGED store
    BY <1>7 DEF Look, Carry, Lose, Complete, Close, Settle, vars, store
  <2> QED
    BY <1>1, <2>1
<1> QED
  BY <1>2, <1>3, <1>4, <1>5, <1>6, <1>7 DEF Next

\* An accepted node rests on current evidence, whatever is refreshed, attested
\* and replanned in whatever order.
THEOREM AcceptanceIsCurrent == Spec => []AcceptedIsCurrent
<1>1. Init => AcceptedIsCurrent
  BY DEF Init, AcceptedIsCurrent, Merged, Fresh
<1> QED
  BY <1>1, InitTypeOK, TypeStep, AcceptedStep, PTL DEF Spec

\* Drift reaches whoever depends on what drifted, however remotely.
LEMMA RefreshBlocks ==
  ASSUME TypeOK, NEW new, NEW pv, Refresh(new, pv),
         NEW m \in Declared, obs'[m] # obs[m], NEW n \in Stale({m}) \ {m}
  PROVE  node'[n].state \notin Revocable
<1> DEFINE changed == {k \in Declared : obs[k] # new[k]}
           drifted == IF n \in changed THEN AfterDrift(n, new[n]) ELSE node[n]
           descended == Descended(n, drifted, Stale(changed))
<1>1. n \in Declared /\ DOMAIN plan.nodes[n].needs \cap Stale({m}) # {}
  <2>1. n \in Stale({m}) /\ n \notin {m} /\ {m} \in SUBSET Declared
    OBVIOUS
  <2>2. n \in Declared
    BY <2>1 DEF Stale
  <2> QED
    BY <2>1, <2>2, StaleReached
<1>2. m \in changed
  BY DEF Refresh
<1>3. DOMAIN plan.nodes[n].needs \cap Stale(changed) # {}
  BY <1>1, <1>2, StaleMonotone
<1>4. node'[n] = Rescoped(descended, new[n], pv.body # parent.body)
  BY <1>1 DEF Refresh
<1>5. drifted \in NodeRecords
  BY <1>1, BlockRecord, MergedRecord, Basics DEF AfterDrift
<1>6. descended \in NodeRecords /\ descended.state \notin Revocable
  <2> HIDE DEF drifted
  <2> QED
    BY <1>3, <1>5, BlockRecord DEF Descended, Revocable
<1> QED
  <2> HIDE DEF descended
  <2> QED
    BY <1>4, <1>6, BlockRecord, MergedRecord DEF Rescoped, Revocable

\* What depends on a node whose observation changes is not left at work,
\* reported or accepted by that step.
THEOREM DriftBlocks == Spec => DriftBlocksDescendants
<1>1. ASSUME TypeOK, [Next]_vars
      PROVE  [\A m \in Declared : obs'[m] # obs[m] /\ obs[m] # Unseen =>
                \A n \in Stale({m}) \ {m} : node'[n].state \notin Revocable]_vars
  <2>1. CASE Observe
    BY <1>1, <2>1, RefreshBlocks DEF Observe
  <2>2. CASE UNCHANGED obs
    BY <2>2
  <2>3. Observe \/ UNCHANGED obs
    BY <1>1 DEF Next, Look, Dispatch, Reserve, Command, Reopen, Retry, ReserveExisting, Assign,
       RecordWorker, WorkerResult, Change, Attest, Replan, Carry, Lose, Complete, Close, Settle,
       store, vars
  <2> QED
    BY <2>1, <2>2, <2>3
<1> QED
  BY <1>1, InitTypeOK, TypeStep, PTL DEF Spec, DriftBlocksDescendants

-----------------------------------------------------------------------------
(* Lanes and limits *)

\* What is at work, or on its way there, is attempted.
LEMMA EngagedActive ==
  ASSUME TypeOK, HandlesSound, OrdersCurrent, WorkCovered
  PROVE  /\ Engaged \subseteq Active /\ Active \subseteq Declared
         /\ IsFiniteSet(Active) /\ IsFiniteSet(Engaged)
<1>1. \A o \in orders : o.node \in Active
  BY DEF TypeOK, OrdersCurrent, Active
<1>2. \A w \in Working : job[w].node \in Active
  BY DEF WorkCovered, Working, HandlesSound, Active
<1>3. Engaged \subseteq Active
  BY <1>1, <1>2 DEF Engaged, WorkedOn
<1>4. Active \subseteq Declared
  BY DEF Active
<1>5. IsFiniteSet(Active)
  BY <1>4, Basics, SchedulerAssumption, FS_Subset
<1> QED
  BY <1>3, <1>4, <1>5, FS_Subset

\* A handle that took an attempt of a declared node is not closed.
LEMMA TakersOpen ==
  ASSUME TypeOK, HandlesSound, NEW w \in Workers, job[w].node # None
  PROVE  job[w].status # "closed" /\ job[w].node \in Declared /\ job[w].attempt # 0
BY DEF HandlesSound, Closed

\* Commands that hand out no attempt, and leave alone what is engaged.
LEMMA Quiet ==
  ASSUME IInv, TypeOK', UNCHANGED <<orders, job>>, sight' = Blind,
         Declared \subseteq Declared',
         \A n \in Engaged : /\ Attempting(n)'
                            /\ node'[n].attempt = node[n].attempt
                            /\ node'[n].worker = node[n].worker
                            /\ plan'.nodes[n] = plan.nodes[n],
         \A n \in Declared : /\ node'[n].attempt \in {node[n].attempt, 0}
                             /\ node'[n].worker \in {node[n].worker, None}
  PROVE  IInv'
<1> USE DEF IInv
<1>0. /\ \A o \in orders : o.node \in Engaged
      /\ \A w \in Working : w \in Workers /\ job[w].node \in Engaged
  BY DEF Engaged, WorkedOn, Working
<1>1. HandlesSound'
  BY DEF HandlesSound, Closed
<1>2. ASSUME NEW w \in Workers, NEW n \in Declared', Took(w, n)'
      PROVE  n \in Declared /\ Took(w, n)
  <2>1. job[w].node = n /\ job[w].attempt = node'[n].attempt
    BY <1>2 DEF Took
  <2>2. n # None
    BY SchedulerAssumption DEF TypeOK, Declared
  <2>3. n \in Declared /\ job[w].attempt # 0
    BY <2>1, <2>2, TakersOpen
  <2> QED
    BY <2>1, <2>3 DEF Took
<1>3. OrdersCurrent'
  <2> SUFFICES ASSUME NEW o \in orders
               PROVE  /\ Attempting(o.node)'
                      /\ o.attempt = node'[o.node].attempt
                      /\ o.worker = node'[o.node].worker
                      /\ \A w \in Workers : ~Took(w, o.node)'
    BY DEF OrdersCurrent
  <2>1. o.node \in Engaged /\ o.node \in Declared'
    BY <1>0, EngagedActive
  <2> QED
    BY <1>2, <2>1 DEF OrdersCurrent
<1>4. OneTakes'
  <2> SUFFICES ASSUME NEW n \in Declared', NEW w \in Workers, Took(w, n)'
               PROVE  /\ node'[n].worker \in {None, w}
                      /\ \A v \in Workers : Took(v, n)' => v = w
    BY DEF OneTakes
  <2> QED
    BY <1>2 DEF OneTakes
<1>5. WorkCovered'
  <2> SUFFICES ASSUME NEW w \in Working
               PROVE  /\ Attempting(job[w].node)'
                      /\ Took(w, job[w].node)' \/ node'[job[w].node].worker = w
    BY DEF WorkCovered, Working
  <2> QED
    BY <1>0 DEF WorkCovered, Took
<1>6. EngagedApart'
  <2>1. Engaged' = Engaged
    BY DEF Engaged, WorkedOn, Working
  <2>2. \A m, n \in Engaged : m # n => ~Conflict(m, n)'
    BY DEF EngagedApart, Conflict
  <2>3. HeavyIn(Engaged)' = HeavyIn(Engaged)
    <3>1. {n \in Engaged : plan'.nodes[n].heavy} = {n \in Engaged : plan.nodes[n].heavy}
      OBVIOUS
    <3> QED
      BY <2>1, <3>1 DEF HeavyIn
  <2> QED
    BY <2>1, <2>2, <2>3 DEF EngagedApart
<1>7. HandlesWithinCapacity' /\ InventoryBounds'
  BY DEF HandlesWithinCapacity, InventoryBounds, Blind
<1> QED
  BY <1>1, <1>3, <1>4, <1>5, <1>6, <1>7

LEMMA InitIInv == Init => IInv
<1> SUFFICES ASSUME Init PROVE IInv
  OBVIOUS
<1> USE DEF Init
<1>1. TypeOK
  BY InitTypeOK
<1>2. \A w \in Workers : job[w] = Closed /\ job[w].status = "closed" /\ job[w].node = None
  BY DEF Closed
<1>3. HandlesSound
  BY <1>2 DEF HandlesSound
<1>4. OrdersCurrent
  BY DEF OrdersCurrent
<1>5. OneTakes
  BY <1>1, <1>2, Basics DEF OneTakes, Took
<1>6. Working = {} /\ OpenHandles = {} /\ Spawns = {}
  BY <1>2 DEF Working, OpenHandles, Spawns
<1>7. WorkCovered
  BY <1>6 DEF WorkCovered
<1>8. EngagedApart
  <2>1. Engaged = {}
    BY <1>6 DEF Engaged, WorkedOn
  <2>2. HeavyIn({}) = 0
    BY FS_EmptySet DEF HeavyIn
  <2> QED
    BY <2>1, <2>2, SchedulerAssumption DEF EngagedApart
<1>9. HandlesWithinCapacity
  <2>1. Cardinality(OpenHandles) = 0 /\ Cardinality(Spawns) = 0
    BY <1>6, FS_EmptySet
  <2> QED
    BY <2>1, SchedulerAssumption DEF HandlesWithinCapacity, OpenHandles, Spawns
<1>10. InventoryBounds
  BY DEF InventoryBounds, Blind
<1> QED
  BY <1>1, <1>3, <1>4, <1>5, <1>7, <1>8, <1>9, <1>10 DEF IInv

\* A change of a node on which nobody works, and to which nobody is on the way.
LEMMA ChangeIdle ==
  ASSUME IInv, TypeOK', NEW n \in Declared, n \notin Engaged, NEW new \in NodeRecords,
         Change(n, new), new.attempt = node[n].attempt, new.worker \in {node[n].worker, None}
  PROVE  IInv'
<1> USE DEF Change, Commit, store, runtime
<1>1. Declared' = Declared /\ DOMAIN node = Declared
  BY Basics DEF Declared, IInv
<1>2. \A m \in Declared \ {n} : node'[m] = node[m]
  BY <1>1
<1>3. node'[n] = new
  BY <1>1
<1>4. Engaged \subseteq Declared \ {n}
  BY EngagedActive DEF IInv
<1>5. \A m \in Engaged : Attempting(m)
  BY EngagedActive DEF IInv, Active
<1>6. \A m \in Engaged : Attempting(m)'
  BY <1>2, <1>4, <1>5 DEF Attempting
<1> QED
  BY <1>1, <1>2, <1>3, <1>4, <1>6, Quiet

LEMMA RetryStep == ASSUME IInv, TypeOK', NEW n \in Declared, Retry(n) PROVE IInv'
<1>1. n \notin Engaged
  BY DEF Retry, Engaged, WorkedOn, Working
<1>2. node[n] \in NodeRecords
  BY Basics DEF IInv
<1>3. [node[n] EXCEPT !.state = "pending", !.worker = None] \in NodeRecords
  BY <1>2 DEF NodeRecords, States
<1> QED
  BY <1>1, <1>2, <1>3, ChangeIdle DEF Retry, NodeRecords

LEMMA ResultStep ==
  ASSUME IInv, TypeOK', NEW n \in Declared, NEW w \in Workers, WorkerResult(n, w)
  PROVE  IInv'
<1>1. PICK outcome \in {"ready", "blocked"} : Change(n, [node[n] EXCEPT !.state = outcome])
  BY DEF WorkerResult
<1>2. Took(w, n) /\ job[w].status = "idle"
  BY DEF WorkerResult, Took
<1>3. \A o \in orders : o.node # n
  BY <1>2 DEF IInv, OrdersCurrent
<1>4. \A v \in Working : job[v].node # n
  <2> SUFFICES ASSUME NEW v \in Working, job[v].node = n PROVE FALSE
    OBVIOUS
  <2>1. v \in Workers /\ v # w /\ v # None
    BY <1>2, SchedulerAssumption DEF Working
  <2>2. Took(v, n) \/ node[n].worker = v
    BY DEF IInv, WorkCovered
  <2> QED
    BY <1>2, <2>1, <2>2 DEF IInv, OneTakes
<1>5. n \notin Engaged
  BY <1>3, <1>4 DEF Engaged, WorkedOn
<1>6. node[n] \in NodeRecords
  BY Basics DEF IInv
<1>7. [node[n] EXCEPT !.state = outcome] \in NodeRecords
  BY <1>6 DEF NodeRecords, States
<1> QED
  BY <1>1, <1>5, <1>6, <1>7, ChangeIdle DEF NodeRecords

\* A refresh blocks the engaged, but never releases them.
LEMMA ObserveStep == ASSUME IInv, TypeOK', Observe PROVE IInv'
<1>1. PICK new \in [Ids -> Views \cup {Unseen}], pv \in ParentViews : Refresh(new, pv)
  BY DEF Observe
<1>2. UNCHANGED <<plan, orders, job>> /\ sight' = Blind
  BY <1>1 DEF Refresh, Commit, runtime
<1>3. Declared' = Declared
  BY <1>2 DEF Declared
<1>4. ASSUME NEW n \in Declared
      PROVE  /\ node'[n].attempt \in {node[n].attempt, 0}
             /\ node'[n].worker \in {node[n].worker, None}
             /\ Attempting(n) => /\ Attempting(n)'
                                 /\ node'[n].attempt = node[n].attempt
                                 /\ node'[n].worker = node[n].worker
  <2>1. node[n] \in NodeRecords
    BY Basics DEF IInv
  <2>2. node'[n] \in {node[n], Block(node[n]), Merged}
    BY <1>1, Refreshed DEF IInv
  <2>3. Attempting(n) => node'[n] \in {node[n], Block(node[n])}
    BY <1>1, Refreshed DEF IInv
  <2>4. Attempting(n) => node[n].attempt # 0
    BY DEF IInv, TypeOK, Attempting
  <2>5. ASSUME Attempting(n), node'[n] = Block(node[n]) PROVE Attempting(n)'
    BY <2>1, <2>4, <2>5, BlockRecord DEF Attempting
  <2>6. ASSUME Attempting(n), node'[n] = node[n] PROVE Attempting(n)'
    BY <2>6 DEF Attempting
  <2> QED
    BY <2>1, <2>2, <2>3, <2>5, <2>6, BlockRecord, MergedRecord
<1>5. \A n \in Engaged : n \in Declared /\ Attempting(n)
  BY EngagedActive DEF IInv, Active
<1> QED
  BY <1>2, <1>3, <1>4, <1>5, Quiet

LEMMA AttestStep ==
  ASSUME IInv, TypeOK', NEW i \in DOMAIN plan.owners, Attest(i)
  PROVE  IInv'
<1>1. UNCHANGED <<plan, orders, job>> /\ sight' = Blind /\ Declared' = Declared
  BY DEF Attest, Commit, runtime, Declared
<1>2. ASSUME NEW n \in Declared
      PROVE  /\ node'[n].attempt = node[n].attempt /\ node'[n].worker = node[n].worker
             /\ Attempting(n) => Attempting(n)'
  <2>1. node[n] \in NodeRecords
    BY Basics DEF IInv
  <2>2. node'[n] \in {node[n], [node[n] EXCEPT !.state = "accepted"]}
    BY DEF Attest
  <2>3. Attempting(n) => node'[n] = node[n]
    BY DEF Attest, Attempting
  <2> QED
    BY <2>1, <2>2, <2>3 DEF Attempting, NodeRecords
<1>3. \A n \in Engaged : n \in Declared /\ Attempting(n)
  BY EngagedActive DEF IInv, Active
<1> QED
  BY <1>1, <1>2, <1>3, Quiet

LEMMA ReplanStep ==
  ASSUME IInv, TypeOK', NEW new \in Plans, Replan(new)
  PROVE  IInv'
<1>1. UNCHANGED <<orders, job>> /\ sight' = Blind
  BY DEF Replan, Commit, runtime
<1>2. ASSUME NEW n \in Declared
      PROVE  /\ n \in Declared'
             /\ node'[n].attempt \in {node[n].attempt, 0}
             /\ node'[n].worker \in {node[n].worker, None}
             /\ Attempting(n) => node'[n] = node[n] /\ plan'.nodes[n] = plan.nodes[n]
  <2>1. node[n] \in NodeRecords
    BY Basics DEF IInv
  <2> QED
    BY <2>1, Replanned DEF NodeRecords
<1>3. \A n \in Engaged : n \in Declared /\ Attempting(n)
  BY EngagedActive DEF IInv, Active
<1>4. \A n \in Engaged : Attempting(n)'
  BY <1>2, <1>3 DEF Attempting
<1> QED
  BY <1>1, <1>2, <1>3, <1>4, Quiet

\* A worker whose start is recorded is the one that took the attempt.
LEMMA RecordStep ==
  ASSUME IInv, TypeOK', NEW n \in Declared, NEW w \in Workers, RecordWorker(n, w)
  PROVE  IInv'
<1> DEFINE new == [node[n] EXCEPT !.state = "running", !.worker = w]
<1>1. /\ node' = [node EXCEPT ![n] = new] /\ sight' = Blind
      /\ UNCHANGED <<plan, orders, job>> /\ Declared' = Declared
  BY DEF RecordWorker, Change, Commit, runtime, Declared
<1>2. DOMAIN node = Declared /\ node[n] \in NodeRecords
  BY Basics DEF IInv
<1>3. node'[n].state = "running" /\ node'[n].worker = w /\ node'[n].attempt = node[n].attempt
  BY <1>1, <1>2 DEF NodeRecords
<1>4. \A m \in Declared \ {n} : node'[m] = node[m]
  BY <1>1, <1>2
<1>5. Took(w, n) /\ node[n].worker \in {None, w}
  BY DEF RecordWorker, Took
<1>6. \A o \in orders : o.node \in Declared \ {n}
  BY <1>5 DEF IInv, OrdersCurrent, TypeOK
<1>7. \A v \in Workers, m \in Declared : Took(v, m)' <=> Took(v, m)
  BY <1>1, <1>3, <1>4 DEF Took
<1>8. HandlesSound'
  BY <1>1 DEF IInv, HandlesSound, Closed
<1>9. OrdersCurrent'
  <2> SUFFICES ASSUME NEW o \in orders
               PROVE  /\ Attempting(o.node)'
                      /\ o.attempt = node'[o.node].attempt
                      /\ o.worker = node'[o.node].worker
                      /\ \A v \in Workers : ~Took(v, o.node)'
    BY <1>1 DEF OrdersCurrent
  <2> QED
    BY <1>4, <1>6, <1>7 DEF IInv, OrdersCurrent, Attempting
<1>10. OneTakes'
  <2> SUFFICES ASSUME NEW m \in Declared, NEW v \in Workers, Took(v, m)'
               PROVE  /\ node'[m].worker \in {None, v}
                      /\ \A u \in Workers : Took(u, m)' => u = v
    BY <1>1 DEF OneTakes
  <2>1. Took(v, m) /\ \A u \in Workers : Took(u, m) => u = v
    BY <1>7 DEF IInv, OneTakes
  <2> QED
    BY <1>3, <1>4, <1>5, <1>7, <2>1 DEF IInv, OneTakes
<1>11. WorkCovered'
  <2> SUFFICES ASSUME NEW v \in Working
               PROVE  /\ Attempting(job[v].node)'
                      /\ Took(v, job[v].node)' \/ node'[job[v].node].worker = v
    BY <1>1 DEF WorkCovered, Working
  <2>1. v \in Workers /\ job[v].node \in Declared
    BY DEF IInv, HandlesSound, Working
  <2>2. /\ Attempting(job[v].node)
        /\ Took(v, job[v].node) \/ node[job[v].node].worker = v
    BY DEF IInv, WorkCovered
  <2>3. CASE job[v].node = n
    <3>1. v = w
      BY <1>5, <2>1, <2>2, <2>3, SchedulerAssumption DEF IInv, OneTakes
    <3> QED
      BY <1>1, <1>3, <2>3, <3>1 DEF Attempting
  <2>4. CASE job[v].node # n
    BY <1>1, <1>4, <1>7, <2>1, <2>2, <2>4 DEF Attempting
  <2> QED
    BY <2>3, <2>4
<1>12. EngagedApart'
  <2>1. Engaged' = Engaged
    BY <1>1 DEF Engaged, WorkedOn, Working
  <2>2. HeavyIn(Engaged)' = HeavyIn(Engaged)
    BY <1>1, <2>1 DEF HeavyIn
  <2> QED
    BY <1>1, <2>1, <2>2 DEF IInv, EngagedApart, Conflict
<1>13. HandlesWithinCapacity' /\ InventoryBounds'
  BY <1>1 DEF IInv, HandlesWithinCapacity, InventoryBounds, Blind
<1> QED
  BY <1>8, <1>9, <1>10, <1>11, <1>12, <1>13 DEF IInv

\* Every order is the one order of its node: the spawns to come are no more than
\* the attempts without a worker.
LEMMA SpawnsUnbound ==
  ASSUME TypeOK, HandlesSound, OrdersCurrent, WorkCovered
  PROVE  /\ IsFiniteSet(Spawns) /\ IsFiniteSet(Unbound) /\ IsFiniteSet(OpenHandles)
         /\ Cardinality(Spawns) \in Nat /\ Cardinality(Unbound) \in Nat
         /\ Cardinality(OpenHandles) \in Nat
         /\ Cardinality(Spawns) <= Cardinality(Unbound)
<1> DEFINE f == [o \in Spawns |-> o.node]
<1>1. \A o \in Spawns : /\ o \in [node : Declared, worker : Workers \cup {None}, attempt : 1..issued]
                        /\ o.node \in Unbound
                        /\ o.worker = None /\ o.attempt = node[o.node].attempt
  BY DEF Spawns, TypeOK, OrdersCurrent, Unbound, Active
<1>2. \A o, q \in Spawns : o.node = q.node => o = q
  BY <1>1
<1>3. f \in Injection(Spawns, Unbound)
  BY <1>1, <1>2 DEF Injection, IsInjective
<1>4. IsFiniteSet(Unbound)
  BY EngagedActive, FS_Subset DEF Unbound
<1>5. IsFiniteSet(Spawns) /\ Cardinality(Spawns) <= Cardinality(Unbound)
  <2> HIDE DEF f
  <2> QED
    BY <1>3, <1>4, FS_Injection
<1>6. IsFiniteSet(OpenHandles)
  BY SchedulerAssumption, FS_Subset DEF OpenHandles
<1> QED
  BY <1>4, <1>5, <1>6, FS_CardinalityType

\* To continue a node nobody else works on, beside lanes that do not touch it.
LEMMA AssignStep ==
  ASSUME IInv, TypeOK', NEW n \in Declared, NEW w \in Workers,
         NEW state \in {"reserved", "running"}, Assign(n, w, state),
         LaneFree(n, Occupied \ {n}),
         \A v \in Working : job[v].node = n => v = w
  PROVE  IInv'
<1> DEFINE order == [node |-> n, worker |-> w, attempt |-> issued']
<1>1. /\ node' = [node EXCEPT ![n] = [state |-> state, worker |-> w, attempt |-> issued']]
      /\ orders' = {o \in orders : o.node # n} \cup {order}
      /\ sight' = Blind /\ issued' = issued + 1
      /\ UNCHANGED <<plan, job>> /\ Declared' = Declared
  BY DEF Assign, Commit, Declared
<1>2. /\ DOMAIN node = Declared /\ issued \in Nat /\ w # None
      /\ \A v \in Workers : job[v].attempt \in 0..issued
  BY Basics DEF IInv, TypeOK
<1>3. node'[n].state = state /\ node'[n].worker = w /\ node'[n].attempt = issued + 1
  BY <1>1, <1>2
<1>4. \A m \in Declared \ {n} : node'[m] = node[m]
  BY <1>1, <1>2
<1>5. \A v \in Workers : ~Took(v, n)'
  BY <1>1, <1>2, <1>3 DEF Took
<1>6. \A v \in Workers, m \in Declared \ {n} : Took(v, m)' <=> Took(v, m)
  BY <1>1, <1>4 DEF Took
<1>7. Attempting(n)'
  BY <1>3 DEF Attempting
<1>8. HandlesSound'
  BY <1>1 DEF IInv, HandlesSound, Closed
<1>9. OrdersCurrent'
  <2> SUFFICES ASSUME NEW o \in orders'
               PROVE  /\ Attempting(o.node)'
                      /\ o.attempt = node'[o.node].attempt
                      /\ o.worker = node'[o.node].worker
                      /\ \A v \in Workers : ~Took(v, o.node)'
    BY <1>1 DEF OrdersCurrent
  <2>1. CASE o = order
    BY <1>1, <1>3, <1>5, <1>7, <2>1
  <2>2. CASE o \in orders /\ o.node # n
    <3>1. o.node \in Declared \ {n}
      BY <2>2 DEF IInv, TypeOK
    <3> QED
      BY <1>4, <1>6, <2>2, <3>1 DEF IInv, OrdersCurrent, Attempting
  <2> QED
    BY <1>1, <2>1, <2>2
<1>10. OneTakes'
  <2> SUFFICES ASSUME NEW m \in Declared, NEW v \in Workers, Took(v, m)'
               PROVE  /\ node'[m].worker \in {None, v}
                      /\ \A u \in Workers : Took(u, m)' => u = v
    BY <1>1 DEF OneTakes
  <2> QED
    BY <1>4, <1>5, <1>6 DEF IInv, OneTakes
<1>11. WorkCovered'
  <2> SUFFICES ASSUME NEW v \in Working
               PROVE  /\ Attempting(job[v].node)'
                      /\ Took(v, job[v].node)' \/ node'[job[v].node].worker = v
    BY <1>1 DEF WorkCovered, Working
  <2>1. v \in Workers /\ job[v].node \in Declared
    BY DEF IInv, HandlesSound, Working
  <2> QED
    BY <1>1, <1>3, <1>4, <1>6, <1>7, <2>1 DEF IInv, WorkCovered, Attempting
<1>12. EngagedApart'
  <2>1. Engaged' \subseteq Engaged \cup {n}
    BY <1>1 DEF Engaged, WorkedOn, Working
  <2>2. Engaged \ {n} \subseteq Occupied \ {n} /\ IsFiniteSet(Engaged) /\ IsFiniteSet(Occupied)
    <3>1. Occupied \subseteq Declared /\ IsFiniteSet(Declared)
      BY Basics, SchedulerAssumption, FS_Subset DEF Occupied, Active, IInv
    <3> QED
      BY <3>1, EngagedActive, FS_Subset DEF Occupied, IInv
  <2>3. \A m \in Engaged \ {n} : ~Conflict(n, m) /\ ~Conflict(m, n)
    BY <2>2 DEF LaneFree, Conflict
  <2>4. \A l, m \in Engaged' : l # m => ~Conflict(l, m)
    BY <2>1, <2>3 DEF IInv, EngagedApart
  <2> DEFINE heavy == {m \in Engaged \cup {n} : plan.nodes[m].heavy}
             beside == {m \in Engaged \ {n} : plan.nodes[m].heavy}
  <2>5. IsFiniteSet(heavy) /\ Cardinality(heavy) \in Nat /\ Cardinality(heavy) <= HeavyLimit
    <3>1. CASE plan.nodes[n].heavy
      <4>1. heavy = beside \cup {n} /\ n \notin beside
        BY <3>1
      <4>2. IsFiniteSet(beside) /\ Cardinality(beside) < HeavyLimit
        <5>1. HeavyIn(Occupied \ {n}) < HeavyLimit
          BY <3>1 DEF LaneFree
        <5>2. IsFiniteSet({m \in Occupied \ {n} : plan.nodes[m].heavy})
          BY <2>2, FS_Subset
        <5>3. beside \in SUBSET {m \in Occupied \ {n} : plan.nodes[m].heavy}
          BY <2>2
        <5> QED
          BY <5>1, <5>2, <5>3, FS_Subset, FS_CardinalityType, SchedulerAssumption DEF HeavyIn
      <4> HIDE DEF heavy, beside
      <4>3. Cardinality(beside) \in Nat
        BY <4>2, FS_CardinalityType
      <4>4. IsFiniteSet(beside \cup {n}) /\ Cardinality(beside \cup {n}) = Cardinality(beside) + 1
        BY <4>1, <4>2, FS_AddElement
      <4> QED
        BY <4>1, <4>2, <4>3, <4>4, SchedulerAssumption
    <3>2. CASE ~plan.nodes[n].heavy
      <4>1. heavy \in SUBSET {m \in Engaged : plan.nodes[m].heavy}
        BY <3>2
      <4>2. IsFiniteSet({m \in Engaged : plan.nodes[m].heavy})
        BY <2>2, FS_Subset
      <4>3. Cardinality({m \in Engaged : plan.nodes[m].heavy}) <= HeavyLimit
        BY DEF IInv, EngagedApart, HeavyIn
      <4> HIDE DEF heavy
      <4> QED
        BY <4>1, <4>2, <4>3, FS_Subset, FS_CardinalityType, SchedulerAssumption
    <3> QED
      BY <3>1, <3>2
  <2>6. HeavyIn(Engaged)' <= HeavyLimit
    <3>1. {m \in Engaged' : plan.nodes[m].heavy} \in SUBSET heavy
      BY <2>1
    <3>2. HeavyIn(Engaged)' = Cardinality({m \in Engaged' : plan.nodes[m].heavy})
      BY <1>1 DEF HeavyIn
    <3> HIDE DEF heavy
    <3> QED
      BY <2>5, <3>1, <3>2, FS_Subset, FS_CardinalityType, SchedulerAssumption
  <2> QED
    BY <1>1, <2>4, <2>6 DEF EngagedApart, Conflict
<1>13. HandlesWithinCapacity'
  <2>1. Spawns' \in SUBSET Spawns /\ OpenHandles' = OpenHandles
    BY <1>1, <1>2 DEF Spawns, OpenHandles
  <2>2. Cardinality(OpenHandles) + Cardinality(Spawns) <= Capacity
    BY DEF IInv, HandlesWithinCapacity, OpenHandles, Spawns
  <2>3. Cardinality(Spawns') <= Cardinality(Spawns) /\ Cardinality(Spawns') \in Nat
    BY <2>1, SpawnsUnbound, FS_Subset, FS_CardinalityType DEF IInv
  <2>4. Cardinality(OpenHandles') + Cardinality(Spawns') <= Capacity
    BY <2>1, <2>2, <2>3, SpawnsUnbound, SchedulerAssumption DEF IInv
  <2> QED
    BY <2>4 DEF HandlesWithinCapacity, OpenHandles, Spawns
<1>14. InventoryBounds'
  BY <1>1 DEF InventoryBounds, Blind
<1> QED
  BY <1>8, <1>9, <1>10, <1>11, <1>12, <1>13, <1>14 DEF IInv

\* A retained worker resumes its node, or takes a retired attempt up again.
LEMMA ReopenStep == ASSUME IInv, TypeOK', NEW n \in Declared, Reopen(n) PROVE IInv'
<1>1. node[n].worker \in Workers
  BY Basics DEF Reopen, IInv
<1>2. ASSUME NEW v \in Working, job[v].node = n PROVE v = node[n].worker
  <2>1. v \in Workers /\ (Took(v, n) \/ node[n].worker = v)
    BY <1>2 DEF IInv, WorkCovered, Working
  <2> QED
    BY <1>1, <2>1, Basics DEF IInv, OneTakes
<1> QED
  BY <1>1, <1>2, AssignStep DEF Reopen

LEMMA ReserveExistingStep ==
  ASSUME IInv, TypeOK', NEW n \in Declared, NEW w \in Workers, ReserveExisting(n, w)
  PROVE  IInv'
<1>1. ASSUME NEW v \in Working, job[v].node = n PROVE v = w
  BY <1>1 DEF IInv, WorkCovered, Attempting, ReserveExisting
<1> QED
  BY <1>1, AssignStep DEF ReserveExisting

\* A set of coordinates that is not empty has one that comes last in the plan.
LEMMA LastOf ==
  ASSUME NEW S, S \subseteq Ids, S # {}
  PROVE  \E h \in S : \A m \in S : m # h => Rank[m] < Rank[h]
<1> DEFINE less == OpToRel(<, Nat)
           above(n) == {m \in Ids : Rank[n] < Rank[m]}
           counts == {k \in Nat : \E n \in S : k = Cardinality(above(n))}
<1>1. IsWellFoundedOn(less, Nat) /\ \A x, y \in Nat : <<y, x>> \in less <=> y < x
  BY NatLessThanWellFounded DEF OpToRel
<1>2. \A n \in S : IsFiniteSet(above(n)) /\ Cardinality(above(n)) \in Nat
  BY SchedulerAssumption, FS_Subset, FS_CardinalityType
<1>3. counts \subseteq Nat /\ counts # {}
  BY <1>2
<1>4. PICK k \in counts : \A j \in counts : ~(<<j, k>> \in less)
  <2> HIDE DEF counts, less
  <2> QED
    BY <1>1, <1>3, WFMin
<1>5. PICK h \in S : k = Cardinality(above(h))
  BY <1>4
<1>6. ASSUME NEW m \in S, m # h PROVE Rank[m] < Rank[h]
  <2>1. Rank[m] \in Nat /\ Rank[h] \in Nat /\ Rank[m] # Rank[h]
    BY <1>6, SchedulerAssumption
  <2> SUFFICES ASSUME Rank[h] < Rank[m] PROVE FALSE
    BY <2>1
  <2>2. m \in above(h) /\ m \notin above(m)
    BY <2>1
  <2>3. above(m) \in SUBSET above(h)
    BY <2>1, SchedulerAssumption
  <2>4. Cardinality(above(m)) \in counts /\ k \in Nat /\ Cardinality(above(m)) \in Nat
    BY <1>2, <1>3
  <2>5. ~(Cardinality(above(m)) < k)
    <3> HIDE DEF counts, less, above
    <3> QED
      BY <1>1, <1>4, <2>4
  <2> HIDE DEF counts, above
  <2>6. Cardinality(above(m)) <= k /\ (k = Cardinality(above(m)) => above(h) = above(m))
    BY <1>2, <1>5, <2>3, FS_Subset
  <2> QED
    BY <2>2, <2>4, <2>5, <2>6
<1> QED
  BY <1>6

\* What dispatch takes together fits together, beside what is occupied already.
LEMMA ChosenFit ==
  ASSUME IInv, NEW chosen \in SUBSET Declared, Schedule(chosen), chosen # {}
  PROVE  /\ chosen \cap Active = {}
         /\ \A n \in chosen : \A m \in Occupied \cup chosen :
              m # n => ~Conflict(m, n) /\ ~Conflict(n, m)
         /\ IsFiniteSet(chosen) /\ Cardinality(chosen) \in Nat
         /\ Cardinality(chosen) <= Free
         /\ HeavyIn(Occupied \cup chosen) <= HeavyLimit \/ \A n \in chosen : ~plan.nodes[n].heavy
<1> DEFINE before(n) == {m \in chosen : Rank[m] < Rank[n]}
<1>1. Declared \subseteq Ids /\ IsFiniteSet(Declared) /\ IsFiniteSet(chosen)
  BY Basics, SchedulerAssumption, FS_Subset DEF IInv
<1>2. \A n \in chosen : Fits(n, before(n), Free)
  BY DEF Schedule
<1>3. chosen \cap Active = {}
  BY <1>2 DEF Fits, Active, Attempting
<1>4. ASSUME NEW n \in chosen, NEW m \in Occupied \cup chosen, m # n
      PROVE  ~Conflict(m, n) /\ ~Conflict(n, m)
  <2>1. \A k, l \in Occupied \cup chosen : Conflict(k, l) <=> Conflict(l, k)
    BY DEF Conflict
  <2>2. CASE m \in Occupied
    BY <1>2, <2>1, <2>2 DEF Fits, LaneFree
  <2>3. CASE m \in chosen
    <3>1. Rank[m] < Rank[n] \/ Rank[n] < Rank[m]
      BY <1>1, <1>4, <2>3, SchedulerAssumption
    <3>2. ASSUME Rank[m] < Rank[n] PROVE ~Conflict(n, m)
      <4>1. m \in before(n)
        BY <2>3, <3>2
      <4> QED
        BY <1>2, <4>1 DEF Fits, LaneFree
    <3>3. ASSUME Rank[n] < Rank[m] PROVE ~Conflict(m, n)
      <4>1. n \in before(m)
        BY <3>3
      <4> QED
        BY <1>2, <2>3, <4>1 DEF Fits, LaneFree
    <3> QED
      BY <2>1, <2>3, <3>1, <3>2, <3>3
  <2> QED
    BY <2>2, <2>3
<1>5. Cardinality(chosen) \in Nat /\ Cardinality(chosen) <= Free
  <2>1. PICK h \in chosen : \A m \in chosen : m # h => Rank[m] < Rank[h]
    BY <1>1, LastOf
  <2>2. before(h) = chosen \ {h}
    BY <1>1, <2>1, SchedulerAssumption
  <2>3. Cardinality(chosen \ {h}) < Free
    BY <1>2, <2>2 DEF Fits
  <2>4. Cardinality(chosen \ {h}) = Cardinality(chosen) - 1 /\ Cardinality(chosen) \in Nat
    BY <1>1, FS_RemoveElement, FS_CardinalityType
  <2>5. Free \in Int
    <3>1. Capacity \in Nat /\ Cardinality(Unbound) \in Nat
      BY SchedulerAssumption, SpawnsUnbound DEF IInv
    <3>2. Cardinality(Active \ Unbound) \in Nat
      BY EngagedActive, FS_Subset, FS_CardinalityType DEF IInv
    <3>3. Cardinality(Open) \in Nat
      BY SchedulerAssumption, FS_Subset, FS_CardinalityType DEF Open
    <3> QED
      BY <3>1, <3>2, <3>3 DEF Free, Less, Larger
  <2> QED
    BY <2>3, <2>4, <2>5
<1>6. ASSUME NEW k \in chosen, plan.nodes[k].heavy
      PROVE  HeavyIn(Occupied \cup chosen) <= HeavyLimit
  <2> DEFINE heavy == {n \in chosen : plan.nodes[n].heavy}
  <2>1. heavy \subseteq Ids /\ heavy # {}
    BY <1>1, <1>6
  <2>2. PICK h \in heavy : \A m \in heavy : m # h => Rank[m] < Rank[h]
    BY <2>1, LastOf
  <2> DEFINE all == {n \in Occupied \cup chosen : plan.nodes[n].heavy}
             seen == {n \in Occupied \cup before(h) : plan.nodes[n].heavy}
  <2>3. IsFiniteSet(seen) /\ Cardinality(seen) \in Nat /\ Cardinality(seen) < HeavyLimit
    <3>1. Occupied \cup before(h) \in SUBSET Declared
      BY DEF Occupied, Active
    <3>2. IsFiniteSet(seen)
      BY <1>1, <3>1, FS_Subset
    <3>3. Cardinality(seen) < HeavyLimit
      BY <1>2 DEF Fits, LaneFree, HeavyIn
    <3> QED
      BY <3>2, <3>3, FS_CardinalityType
  <2>4. all \in SUBSET (seen \cup {h})
    BY <2>2
  <2> HIDE DEF seen, all
  <2>5. IsFiniteSet(seen \cup {h}) /\ Cardinality(seen \cup {h}) <= Cardinality(seen) + 1
    <3>1. IsFiniteSet(seen) /\ Cardinality(seen) \in Nat
      BY <2>3
    <3>2. /\ IsFiniteSet(seen \cup {h})
          /\ Cardinality(seen \cup {h}) = IF h \in seen THEN Cardinality(seen)
                                           ELSE Cardinality(seen) + 1
      BY <3>1, FS_AddElement
    <3> DEFINE size == Cardinality(seen)
               more == Cardinality(seen \cup {h})
    <3>3. size \in Nat /\ more = (IF h \in seen THEN size ELSE size + 1)
      BY <3>1, <3>2
    <3> HIDE DEF size, more
    <3>4. more <= size + 1
      BY <3>3
    <3> QED
      BY <3>2, <3>4 DEF size, more
  <2>6. Cardinality(all) <= Cardinality(seen \cup {h}) /\ IsFiniteSet(all)
    <3> DEFINE more == seen \cup {h}
    <3>1. IsFiniteSet(more) /\ all \in SUBSET more
      BY <2>4, <2>5
    <3> HIDE DEF more
    <3>2. Cardinality(all) <= Cardinality(more) /\ IsFiniteSet(all)
      BY <3>1, FS_Subset
    <3> QED
      BY <3>2 DEF more
  <2>7. Cardinality(all) \in Nat /\ Cardinality(seen \cup {h}) \in Nat
    BY <2>5, <2>6, FS_CardinalityType
  <2>8. Cardinality(all) <= HeavyLimit
    BY <2>3, <2>5, <2>6, <2>7, SchedulerAssumption
  <2> QED
    BY <2>8 DEF HeavyIn, all
<1> QED
  BY <1>1, <1>3, <1>4, <1>5, <1>6

\* Dispatch hands out fresh attempts of pending nodes.
LEMMA ReserveStep ==
  ASSUME IInv, TypeOK', sight.current, NEW chosen \in SUBSET Declared, Reserve(chosen)
  PROVE  IInv'
<1> DEFINE new == {[node |-> n, worker |-> None, attempt |-> issued'] : n \in chosen}
<1>1. /\ orders' = orders \cup new /\ sight' = Blind /\ issued' = issued + 1
      /\ UNCHANGED <<plan, job>> /\ Declared' = Declared
      /\ Schedule(chosen) /\ chosen # {}
  BY DEF Reserve, Commit, Declared
<1>2. /\ issued \in Nat /\ Declared \subseteq Ids
      /\ \A v \in Workers : job[v].attempt \in 0..issued
  BY Basics DEF IInv, TypeOK
<1>3. \A n \in chosen : /\ node'[n].state = "reserved" /\ node'[n].worker = None
                        /\ node'[n].attempt = issued + 1
  BY DEF Reserve
<1>4. \A n \in Declared \ chosen : node'[n] = node[n]
  BY DEF Reserve
<1>5. \A v \in Workers, n \in chosen : ~Took(v, n)'
  BY <1>1, <1>2, <1>3 DEF Took
<1>6. \A v \in Workers, n \in Declared \ chosen : Took(v, n)' <=> Took(v, n)
  BY <1>1, <1>4 DEF Took
<1>7. Engaged \subseteq Active /\ Active \subseteq Declared \ chosen
  BY <1>1, ChosenFit, EngagedActive DEF IInv
<1>8. \A n \in Declared : (n \in chosen => Attempting(n)') /\ (n \in Active => Attempting(n)')
  <2>1. ASSUME NEW n \in Active PROVE Attempting(n)'
    BY <1>4, <1>7 DEF Active, Attempting
  <2>2. ASSUME NEW n \in chosen PROVE Attempting(n)'
    BY <1>3 DEF Attempting
  <2> QED
    BY <2>1, <2>2
<1>9. HandlesSound'
  BY <1>1 DEF IInv, HandlesSound, Closed
<1>10. OrdersCurrent'
  <2> SUFFICES ASSUME NEW o \in orders'
               PROVE  /\ Attempting(o.node)'
                      /\ o.attempt = node'[o.node].attempt
                      /\ o.worker = node'[o.node].worker
                      /\ \A v \in Workers : ~Took(v, o.node)'
    BY <1>1 DEF OrdersCurrent
  <2>1. CASE o \in new
    <3>1. o.node \in chosen /\ o.attempt = issued + 1 /\ o.worker = None
      BY <1>1, <2>1
    <3> QED
      BY <1>3, <1>5, <1>8, <3>1
  <2>2. CASE o \in orders
    <3>1. o.node \in Active /\ o.node \in Declared \ chosen
      BY <1>7, <2>2 DEF Engaged
    <3> QED
      BY <1>4, <1>6, <1>8, <2>2, <3>1 DEF IInv, OrdersCurrent
  <2> QED
    BY <1>1, <2>1, <2>2
<1>11. OneTakes'
  <2> SUFFICES ASSUME NEW n \in Declared, NEW v \in Workers, Took(v, n)'
               PROVE  /\ node'[n].worker \in {None, v}
                      /\ \A u \in Workers : Took(u, n)' => u = v
    BY <1>1 DEF OneTakes
  <2>1. n \in Declared \ chosen /\ Took(v, n)
    BY <1>5, <1>6
  <2> QED
    BY <1>4, <1>6, <2>1 DEF IInv, OneTakes
<1>12. WorkCovered'
  <2> SUFFICES ASSUME NEW v \in Working
               PROVE  /\ Attempting(job[v].node)'
                      /\ Took(v, job[v].node)' \/ node'[job[v].node].worker = v
    BY <1>1 DEF WorkCovered, Working
  <2>1. v \in Workers /\ job[v].node \in Active /\ job[v].node \in Declared \ chosen
    BY <1>7 DEF Engaged, WorkedOn, Working
  <2>2. Attempting(job[v].node)'
    BY <1>1, <1>8, <2>1
  <2> QED
    BY <1>1, <1>4, <1>6, <2>1, <2>2 DEF IInv, WorkCovered
<1>13. EngagedApart'
  <2>1. Engaged' \subseteq Engaged \cup chosen
    BY <1>1 DEF Engaged, WorkedOn, Working
  <2>2. Engaged \subseteq Occupied /\ IsFiniteSet(Occupied \cup chosen) /\ IsFiniteSet(Engaged)
    <3>1. Occupied \cup chosen \in SUBSET Declared /\ IsFiniteSet(Declared)
      BY <1>2, SchedulerAssumption, FS_Subset DEF Occupied, Active
    <3> QED
      BY <1>7, <3>1, FS_Subset, EngagedActive DEF Occupied, IInv
  <2>3. \A m, n \in Engaged' : m # n => ~Conflict(m, n)
    <3>1. \A n \in chosen : \A m \in Occupied \cup chosen :
            m # n => ~Conflict(m, n) /\ ~Conflict(n, m)
      BY <1>1, ChosenFit
    <3> QED
      BY <2>1, <2>2, <3>1 DEF IInv, EngagedApart
  <2> DEFINE heavy == {m \in Engaged' : plan.nodes[m].heavy}
  <2>4. Cardinality(heavy) <= HeavyLimit
    <3>1. CASE HeavyIn(Occupied \cup chosen) <= HeavyLimit
      <4> DEFINE all == {m \in Occupied \cup chosen : plan.nodes[m].heavy}
      <4>1. heavy \in SUBSET all /\ Cardinality(all) <= HeavyLimit
        BY <2>1, <2>2, <3>1 DEF HeavyIn
      <4>2. IsFiniteSet(all)
        BY <2>2, FS_Subset
      <4> HIDE DEF heavy, all
      <4> QED
        BY <4>1, <4>2, FS_Subset, FS_CardinalityType, SchedulerAssumption
    <3>2. CASE \A n \in chosen : ~plan.nodes[n].heavy
      <4> DEFINE all == {m \in Engaged : plan.nodes[m].heavy}
      <4>1. heavy \in SUBSET all /\ Cardinality(all) <= HeavyLimit
        BY <2>1, <3>2 DEF IInv, EngagedApart, HeavyIn
      <4>2. IsFiniteSet(all)
        BY <2>2, FS_Subset
      <4> HIDE DEF heavy, all
      <4> QED
        BY <4>1, <4>2, FS_Subset, FS_CardinalityType, SchedulerAssumption
    <3> QED
      BY <1>1, <3>1, <3>2, ChosenFit
  <2>5. HeavyIn(Engaged)' = Cardinality(heavy)
    BY <1>1 DEF HeavyIn
  <2> QED
    BY <1>1, <2>3, <2>4, <2>5 DEF EngagedApart, Conflict
<1>14. HandlesWithinCapacity'
  <2>1. OpenHandles' = OpenHandles /\ Spawns' = Spawns \cup new
    BY <1>1 DEF OpenHandles, Spawns
  <2>2. IsFiniteSet(new) /\ Cardinality(new) <= Cardinality(chosen)
    <3> DEFINE f == [o \in new |-> o.node]
    <3>1. f \in Injection(new, chosen)
      BY DEF Injection, IsInjective
    <3>2. IsFiniteSet(chosen)
      BY <1>1, ChosenFit
    <3> HIDE DEF new, f
    <3> QED
      BY <3>1, <3>2, FS_Injection
  <2>3. /\ Cardinality(OpenHandles) \in Nat /\ Cardinality(Spawns) \in Nat /\ IsFiniteSet(Spawns)
        /\ Cardinality(Unbound) \in Nat /\ Cardinality(chosen) \in Nat /\ Cardinality(new) \in Nat
    BY <1>1, <2>2, SpawnsUnbound, ChosenFit, FS_CardinalityType DEF IInv
  <2>4. /\ Cardinality(Spawns \cup new) <= Cardinality(Spawns) + Cardinality(new)
        /\ Cardinality(Spawns \cup new) \in Nat
    <3> HIDE DEF new
    <3>1. /\ IsFiniteSet(Spawns \cup new)
          /\ Cardinality(Spawns \cup new)
               = Cardinality(Spawns) + Cardinality(new) - Cardinality(Spawns \cap new)
      BY <2>2, <2>3, FS_Union
    <3>2. Cardinality(Spawns \cap new) \in Nat
      BY <2>3, FS_Intersection, FS_CardinalityType
    <3> QED
      BY <2>3, <3>1, <3>2, FS_CardinalityType
  <2>5. Cardinality(Open) \in Nat /\ Cardinality(Active \ Unbound) \in Nat
    BY SchedulerAssumption, EngagedActive, FS_Subset, FS_CardinalityType DEF IInv, Open
  <2>6. /\ Cardinality(chosen) <= Free /\ Cardinality(chosen) # 0
    BY <1>1, ChosenFit, FS_EmptySet
  <2>7. Cardinality(chosen) + Cardinality(Open) + Cardinality(Unbound) <= Capacity
    BY <2>3, <2>5, <2>6, SchedulerAssumption DEF Free, Less, Larger
  <2>8. Cardinality(OpenHandles) + Cardinality(Spawns) <= Cardinality(Open) + Cardinality(Unbound)
    BY DEF IInv, InventoryBounds
  <2>9. Cardinality(OpenHandles') + Cardinality(Spawns') <= Capacity
    <3> HIDE DEF new
    <3> QED
      BY <2>1, <2>2, <2>3, <2>4, <2>5, <2>7, <2>8, SchedulerAssumption
  <2> QED
    BY <2>9 DEF HandlesWithinCapacity, OpenHandles, Spawns
<1>15. InventoryBounds'
  BY <1>1 DEF InventoryBounds, Blind
<1> QED
  BY <1>9, <1>10, <1>11, <1>12, <1>13, <1>14, <1>15 DEF IInv

\* What the operator reads counts no less than what is open or on its way.
LEMMA LookStep == ASSUME IInv, TypeOK', Look PROVE IInv'
<1>1. /\ UNCHANGED <<plan, node, obs, parent, proof, issued, orders, job>>
      /\ sight'.status = [w \in Workers |-> job[w].status]
  BY DEF Look, store, runtime
<1>2. /\ Declared' = Declared /\ Active' = Active /\ Unbound' = Unbound
      /\ OpenHandles' = OpenHandles /\ Spawns' = Spawns /\ Open' = OpenHandles
  BY <1>1 DEF Declared, Active, Attempting, Unbound, OpenHandles, Spawns, Open
<1>3. HandlesSound' /\ OrdersCurrent' /\ OneTakes' /\ WorkCovered'
  BY <1>1, <1>2 DEF IInv, HandlesSound, OrdersCurrent, OneTakes, WorkCovered, Took, Attempting,
     Working, Closed
<1>4. EngagedApart'
  <2>1. Engaged' = Engaged /\ HeavyIn(Engaged)' = HeavyIn(Engaged)
    BY <1>1 DEF Engaged, WorkedOn, Working, HeavyIn
  <2> QED
    BY <1>1, <2>1 DEF IInv, EngagedApart, Conflict
<1>5. HandlesWithinCapacity'
  BY <1>1 DEF IInv, HandlesWithinCapacity
<1>6. InventoryBounds'
  BY <1>2, SpawnsUnbound DEF IInv, InventoryBounds
<1> QED
  BY <1>3, <1>4, <1>5, <1>6 DEF IInv

\* A step of the runtime that engages nobody, and asks for no more handles.
LEMMA RuntimeStep ==
  ASSUME IInv, UNCHANGED <<store, sight>>, Engaged' \subseteq Engaged,
         Cardinality(OpenHandles') + Cardinality(Spawns')
           <= Cardinality(OpenHandles) + Cardinality(Spawns),
         Cardinality(OpenHandles') \in Nat, Cardinality(Spawns') \in Nat
  PROVE  EngagedApart' /\ HandlesWithinCapacity' /\ InventoryBounds'
<1>1. UNCHANGED <<plan, node, sight>> /\ Open' = Open /\ Unbound' = Unbound
  BY DEF store, Open, Unbound, Active, Declared, Attempting
<1>2. EngagedApart'
  <2>1. \A m, n \in Engaged' : m # n => ~Conflict(m, n)'
    BY <1>1 DEF IInv, EngagedApart, Conflict
  <2> DEFINE all == {m \in Engaged : plan.nodes[m].heavy}
             heavy == {m \in Engaged' : plan.nodes[m].heavy}
  <2>2. HeavyIn(Engaged)' = Cardinality(heavy) /\ Cardinality(all) <= HeavyLimit
    BY <1>1 DEF IInv, EngagedApart, HeavyIn
  <2>3. IsFiniteSet(all) /\ heavy \in SUBSET all
    BY EngagedActive, FS_Subset DEF IInv
  <2>4. Cardinality(heavy) <= HeavyLimit
    <3> HIDE DEF all, heavy
    <3> QED
      BY <2>2, <2>3, FS_Subset, FS_CardinalityType, SchedulerAssumption
  <2> QED
    BY <2>1, <2>2, <2>4 DEF EngagedApart
<1>3. Cardinality(OpenHandles) \in Nat /\ Cardinality(Spawns) \in Nat
      /\ Cardinality(Unbound) \in Nat /\ Cardinality(Open) \in Nat
  BY SpawnsUnbound, SchedulerAssumption, FS_Subset, FS_CardinalityType DEF IInv, Open
<1>4. Cardinality(OpenHandles') + Cardinality(Spawns') <= Capacity
  <2>1. Cardinality(OpenHandles) + Cardinality(Spawns) <= Capacity
    BY DEF IInv, HandlesWithinCapacity, OpenHandles, Spawns
  <2> QED
    BY <1>3, <2>1, SchedulerAssumption
<1>5. InventoryBounds'
  BY <1>1, <1>3 DEF IInv, InventoryBounds
<1> QED
  BY <1>2, <1>4, <1>5 DEF HandlesWithinCapacity, OpenHandles, Spawns

\* An order is carried out: by a new worker, or by the one the node names.
LEMMA CarryStep == ASSUME IInv, TypeOK', NEW o \in orders, Carry(o) PROVE IInv'
<1> DEFINE task == [status |-> "running", node |-> o.node, attempt |-> o.attempt]
<1>1. PICK w \in Workers :
        /\ IF o.worker = None THEN job[w].status = "closed"
           ELSE w = o.worker /\ job[w].status # "closed"
        /\ job' = [job EXCEPT ![w] = task]
  BY DEF Carry
<1>2. /\ UNCHANGED <<store, sight, plan, node>> /\ Declared' = Declared
      /\ orders' = orders \ {o}
  BY DEF Carry, store, Declared
<1>3. /\ o.node \in Declared /\ o.attempt # 0 /\ o.worker \in Workers \cup {None}
      /\ \A q \in orders : q.node = o.node => q = o
  <2>1. TypeOK /\ OrdersCurrent
    BY DEF IInv
  <2>2. orders \subseteq [node : Declared, worker : Workers \cup {None}, attempt : 1..issued]
        /\ issued \in Nat
    BY <2>1, Basics DEF TypeOK
  <2>3. o.node \in Declared /\ o.attempt # 0 /\ o.worker \in Workers \cup {None}
    BY <2>2
  <2>4. ASSUME NEW q \in orders, q.node = o.node
        PROVE  q = o
    <3>1. q.attempt = o.attempt /\ q.worker = o.worker
      BY <2>1, <2>4 DEF OrdersCurrent
    <3>2. /\ q = [node |-> q.node, worker |-> q.worker, attempt |-> q.attempt]
          /\ o = [node |-> o.node, worker |-> o.worker, attempt |-> o.attempt]
      BY <2>2
    <3> QED
      BY <2>4, <3>1, <3>2
  <2> QED
    BY <2>3, <2>4
<1>4. /\ Attempting(o.node) /\ o.attempt = node[o.node].attempt
      /\ o.worker = node[o.node].worker /\ \A v \in Workers : ~Took(v, o.node)
  BY DEF IInv, OrdersCurrent
<1>5. job'[w] = task /\ \A v \in Workers \ {w} : job'[v] = job[v]
  BY <1>1 DEF IInv, TypeOK
<1>6. HandlesSound'
  BY <1>2, <1>3, <1>5 DEF IInv, HandlesSound, Closed
<1>7. ASSUME NEW v \in Workers, NEW n \in Declared, Took(v, n)'
      PROVE  (v = w /\ n = o.node) \/ (n # o.node /\ Took(v, n))
  BY <1>2, <1>4, <1>5, <1>7 DEF Took
<1>8. OrdersCurrent'
  <2> SUFFICES ASSUME NEW q \in orders, q # o
               PROVE  /\ Attempting(q.node)'
                      /\ q.attempt = node[q.node].attempt
                      /\ q.worker = node[q.node].worker
                      /\ \A v \in Workers : ~Took(v, q.node)'
    BY <1>2 DEF OrdersCurrent
  <2>1. q.node \in Declared /\ q.node # o.node
    BY <1>3 DEF IInv, TypeOK
  <2>2. Attempting(q.node)'
    BY <1>2 DEF IInv, OrdersCurrent, Attempting
  <2> QED
    BY <1>7, <2>1, <2>2 DEF IInv, OrdersCurrent
<1>9. OneTakes'
  <2> SUFFICES ASSUME NEW n \in Declared, NEW v \in Workers, Took(v, n)'
               PROVE  /\ node[n].worker \in {None, v}
                      /\ \A u \in Workers : Took(u, n)' => u = v
    BY <1>2 DEF OneTakes
  <2>1. CASE v = w /\ n = o.node
    BY <1>1, <1>4, <1>7, <2>1
  <2>2. CASE n # o.node /\ Took(v, n)
    BY <1>7, <2>2 DEF IInv, OneTakes
  <2> QED
    BY <1>7, <2>1, <2>2
<1>10. WorkCovered'
  <2> SUFFICES ASSUME NEW v \in Workers, job'[v].status = "running"
               PROVE  /\ Attempting(job[v].node)'
                      /\ Took(v, job[v].node)' \/ node[job'[v].node].worker = v
    BY <1>2 DEF WorkCovered, Working
  <2>1. CASE v = w
    BY <1>2, <1>4, <1>5, <2>1 DEF Attempting, Took
  <2>2. CASE v # w
    <3>1. v \in Working /\ job'[v] = job[v]
      BY <1>5, <2>2 DEF Working
    <3> QED
      BY <1>2, <3>1 DEF IInv, WorkCovered, Attempting, Took
  <2> QED
    BY <2>1, <2>2
<1>11. Engaged' \subseteq Engaged
  <2>1. \A v \in Working' : job'[v].node \in Engaged
    BY <1>5 DEF Working, Engaged, WorkedOn
  <2> QED
    BY <1>2, <2>1 DEF Engaged, WorkedOn
<1>12. /\ Cardinality(OpenHandles') + Cardinality(Spawns')
            <= Cardinality(OpenHandles) + Cardinality(Spawns)
       /\ Cardinality(OpenHandles') \in Nat /\ Cardinality(Spawns') \in Nat
  <2>1. /\ IsFiniteSet(Spawns) /\ Cardinality(Spawns) \in Nat
        /\ IsFiniteSet(OpenHandles) /\ Cardinality(OpenHandles) \in Nat
    BY SpawnsUnbound DEF IInv
  <2>2. CASE o.worker = None
    <3>1. /\ OpenHandles' = OpenHandles \cup {w} /\ w \notin OpenHandles
          /\ Spawns' = Spawns \ {o} /\ o \in Spawns
      BY <1>1, <1>2, <1>5, <2>2 DEF OpenHandles, Spawns
    <3>2. Cardinality(OpenHandles') = Cardinality(OpenHandles) + 1
      BY <2>1, <3>1, FS_AddElement
    <3>3. Cardinality(Spawns') = Cardinality(Spawns) - 1 /\ IsFiniteSet(Spawns')
      BY <2>1, <3>1, FS_RemoveElement
    <3> QED
      BY <2>1, <3>2, <3>3, FS_CardinalityType
  <2>3. CASE o.worker # None
    <3>1. OpenHandles' = OpenHandles /\ Spawns' = Spawns
      BY <1>1, <1>2, <1>5, <2>3 DEF OpenHandles, Spawns
    <3> QED
      BY <2>1, <3>1
  <2> QED
    BY <2>2, <2>3
<1> QED
  BY <1>2, <1>6, <1>8, <1>9, <1>10, <1>11, <1>12, RuntimeStep DEF IInv

\* An order is lost, a turn ends, or a handle is closed.
LEMMA ShrinkStep ==
  ASSUME IInv, TypeOK', UNCHANGED <<store, sight>>, orders' \subseteq orders,
         \A v \in Workers : \/ job'[v] = job[v] \/ job'[v] = Closed
                            \/ /\ job'[v] = [job[v] EXCEPT !.status = "idle"]
                               /\ job[v].status = "running"
  PROVE  IInv'
<1>1. UNCHANGED <<plan, node>> /\ Declared' = Declared
  BY DEF store, Declared
<1>2. ASSUME NEW v \in Workers
      PROVE  /\ job'[v].status = "running" => job'[v] = job[v]
             /\ job'[v].status # "closed" =>
                  /\ job[v].status # "closed"
                  /\ job'[v].node = job[v].node /\ job'[v].attempt = job[v].attempt
             /\ job'[v].status = "closed" => job'[v] = Closed
             /\ job'[v].status = "closed" <=> job'[v].node = None
  <2>1. job[v] \in [status : {"closed", "idle", "running"},
                   node : Declared \cup {None}, attempt : 0..issued]
    BY DEF IInv, TypeOK
  <2>2. /\ job[v].status = "closed" => job[v] = Closed
        /\ job[v].status # "closed" => job[v].node \in Declared /\ job[v].node # None
    BY Basics DEF IInv, HandlesSound
  <2>3. Closed.status = "closed" /\ Closed.node = None
    BY DEF Closed
  <2>4. CASE job'[v] = job[v]
    BY <2>2, <2>3, <2>4
  <2>5. CASE job'[v] = Closed
    BY <2>3, <2>5
  <2>6. CASE job'[v] = [job[v] EXCEPT !.status = "idle"] /\ job[v].status = "running"
    <3>1. /\ job'[v].status = "idle" /\ job'[v].node = job[v].node
          /\ job'[v].attempt = job[v].attempt
      BY <2>1, <2>6
    <3> QED
      BY <2>2, <2>6, <3>1
  <2> QED
    BY <2>4, <2>5, <2>6
<1>3. HandlesSound'
  BY <1>1, <1>2 DEF IInv, HandlesSound, Closed
<1>4. ASSUME NEW v \in Workers, NEW n \in Declared, Took(v, n)' PROVE Took(v, n)
  <2>1. n # None
    BY Basics DEF IInv
  <2> QED
    BY <1>1, <1>2, <1>4, <2>1 DEF Took
<1>5. OrdersCurrent'
  <2> SUFFICES ASSUME NEW q \in orders
               PROVE  /\ Attempting(q.node)'
                      /\ q.attempt = node[q.node].attempt
                      /\ q.worker = node[q.node].worker
                      /\ \A v \in Workers : ~Took(v, q.node)'
    BY <1>1 DEF OrdersCurrent
  <2>1. Attempting(q.node)' /\ q.node \in Declared
    BY <1>1 DEF IInv, OrdersCurrent, Attempting, TypeOK
  <2> QED
    BY <1>4, <2>1 DEF IInv, OrdersCurrent
<1>6. OneTakes'
  <2> SUFFICES ASSUME NEW n \in Declared, NEW v \in Workers, Took(v, n)'
               PROVE  /\ node[n].worker \in {None, v}
                      /\ \A u \in Workers : Took(u, n)' => u = v
    BY <1>1 DEF OneTakes
  <2> QED
    BY <1>4 DEF IInv, OneTakes
<1>7. ASSUME NEW v \in Working' PROVE v \in Working /\ job'[v] = job[v]
  BY <1>2, <1>7 DEF Working
<1>8. WorkCovered'
  <2> SUFFICES ASSUME NEW v \in Working'
               PROVE  /\ Attempting(job[v].node)'
                      /\ Took(v, job[v].node)' \/ node[job'[v].node].worker = v
    BY <1>1 DEF WorkCovered
  <2>1. v \in Working /\ job'[v] = job[v]
    BY <1>7
  <2> QED
    BY <1>1, <2>1 DEF IInv, WorkCovered, Attempting, Took
<1>9. Engaged' \subseteq Engaged
  BY <1>7 DEF Engaged, WorkedOn
<1>10. /\ Cardinality(OpenHandles') + Cardinality(Spawns')
            <= Cardinality(OpenHandles) + Cardinality(Spawns)
       /\ Cardinality(OpenHandles') \in Nat /\ Cardinality(Spawns') \in Nat
  <2>1. /\ IsFiniteSet(Spawns) /\ Cardinality(Spawns) \in Nat
        /\ IsFiniteSet(OpenHandles) /\ Cardinality(OpenHandles) \in Nat
    BY SpawnsUnbound DEF IInv
  <2>2. Spawns' \in SUBSET Spawns /\ OpenHandles' \in SUBSET OpenHandles
    BY <1>2 DEF Spawns, OpenHandles
  <2>3. /\ Cardinality(Spawns') <= Cardinality(Spawns) /\ Cardinality(Spawns') \in Nat
        /\ Cardinality(OpenHandles') <= Cardinality(OpenHandles)
        /\ Cardinality(OpenHandles') \in Nat
    BY <2>1, <2>2, FS_Subset, FS_CardinalityType
  <2> QED
    BY <2>1, <2>3
<1> QED
  BY <1>3, <1>5, <1>6, <1>8, <1>9, <1>10, RuntimeStep DEF IInv

LEMMA NextIInv == IInv /\ [Next]_vars => IInv'
<1> SUFFICES ASSUME IInv, [Next]_vars PROVE IInv'
  OBVIOUS
<1>0. TypeOK'
  BY TypeStep DEF IInv
<1>1. CASE Look
  BY <1>0, <1>1, LookStep
<1>2. CASE Dispatch
  BY <1>0, <1>2, ReserveStep DEF Dispatch
<1>3. ASSUME NEW n \in Declared, Command(n) PROVE IInv'
  BY <1>0, <1>3, ReopenStep, RetryStep, ReserveExistingStep, RecordStep, ResultStep DEF Command
<1>4. CASE Observe
  BY <1>0, <1>4, ObserveStep
<1>5. ASSUME NEW i \in DOMAIN plan.owners, Attest(i) PROVE IInv'
  BY <1>0, <1>5, AttestStep
<1>6. ASSUME NEW new \in Plans, Replan(new) PROVE IInv'
  BY <1>0, <1>6, ReplanStep
<1>7. ASSUME NEW o \in orders, Carry(o) PROVE IInv'
  BY <1>0, <1>7, CarryStep
<1>8. ASSUME NEW o \in orders, Lose(o) PROVE IInv'
  BY <1>0, <1>8, ShrinkStep DEF Lose
<1>9. ASSUME NEW w \in Workers, Complete(w) \/ Close(w) PROVE IInv'
  <2>1. PICK new \in {[job[w] EXCEPT !.status = "idle"], Closed} :
          /\ job' = [job EXCEPT ![w] = new]
          /\ new = Closed \/ job[w].status = "running"
          /\ UNCHANGED <<store, orders, sight>>
    BY <1>9 DEF Complete, Close, Settle
  <2>2. DOMAIN job = Workers
    BY DEF IInv, TypeOK
  <2>3. \A v \in Workers : \/ job'[v] = job[v] \/ job'[v] = Closed
                           \/ /\ job'[v] = [job[v] EXCEPT !.status = "idle"]
                              /\ job[v].status = "running"
    BY <2>1, <2>2
  <2> QED
    BY <1>0, <2>1, <2>3, ShrinkStep
<1>10. CASE UNCHANGED vars
  <2>1. UNCHANGED <<store, sight>> /\ UNCHANGED <<orders, job>>
    BY <1>10 DEF vars, store
  <2> QED
    BY <1>0, <2>1, ShrinkStep
<1> QED
  BY <1>1, <1>2, <1>3, <1>4, <1>5, <1>6, <1>7, <1>8, <1>9, <1>10 DEF Next

\* The inductive invariant holds throughout.
THEOREM Invariance == Spec => []IInv
BY InitIInv, NextIInv, PTL DEF Spec

\* Two workers at work are on two nodes that touch no common lane, after lost
\* starts, blocking refreshes, reopened attempts and replans alike.
THEOREM DisjointLanes == Spec => []LanesDisjoint
<1>1. IInv => LanesDisjoint
  <2> SUFFICES ASSUME IInv, NEW v \in Working, NEW w \in Working, v # w
               PROVE  job[v].node # job[w].node /\ ~Conflict(job[v].node, job[w].node)
    BY DEF LanesDisjoint
  <2>1. /\ v \in Workers /\ w \in Workers /\ v # None /\ w # None
        /\ job[v].node \in Declared /\ job[w].node \in Declared
    BY SchedulerAssumption DEF IInv, HandlesSound, Working
  <2>2. job[v].node # job[w].node
    BY <2>1 DEF IInv, WorkCovered, OneTakes
  <2>3. job[v].node \in Engaged /\ job[w].node \in Engaged
    BY DEF Engaged, WorkedOn
  <2> QED
    BY <2>2, <2>3 DEF IInv, EngagedApart
<1> QED
  BY <1>1, Invariance, PTL

\* The heavy nodes that workers are at work on never exceed the heavy limit.
THEOREM HeavyLimited == Spec => []HeavyWithinLimit
<1>1. IInv => HeavyWithinLimit
  <2> SUFFICES ASSUME IInv PROVE HeavyWithinLimit
    OBVIOUS
  <2> DEFINE all == {m \in Engaged : plan.nodes[m].heavy}
             heavy == {m \in WorkedOn : plan.nodes[m].heavy}
  <2>1. IsFiniteSet(all) /\ heavy \in SUBSET all
    BY EngagedActive, FS_Subset DEF IInv, Engaged
  <2>2. Cardinality(all) <= HeavyLimit
    BY DEF IInv, EngagedApart, HeavyIn
  <2>3. Cardinality(heavy) <= HeavyLimit
    <3> HIDE DEF all, heavy
    <3> QED
      BY <2>1, <2>2, FS_Subset, FS_CardinalityType, SchedulerAssumption
  <2> QED
    BY <2>3 DEF HeavyWithinLimit, HeavyIn
<1> QED
  BY <1>1, Invariance, PTL

\* Open handles and spawns still to come never exceed the runtime's capacity.
THEOREM CapacityKept == Spec => []HandlesWithinCapacity
<1>1. IInv => HandlesWithinCapacity
  BY DEF IInv
<1> QED
  BY <1>1, Invariance, PTL

\* A project without terminal gaps has no worker at work and no start on its way.
THEOREM TerminalIsStopped == Spec => []TerminalMeansStopped
<1>1. IInv => TerminalMeansStopped
  <2> SUFFICES ASSUME IInv, NoTerminalGaps PROVE Engaged = {}
    BY DEF TerminalMeansStopped, Engaged, WorkedOn
  <2>1. Active = {}
    BY DEF NoTerminalGaps, Active, Attempting
  <2> QED
    BY <2>1, EngagedActive DEF IInv
<1> QED
  BY <1>1, Invariance, PTL

===============================================================================
