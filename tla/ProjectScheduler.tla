--------------------------- MODULE ProjectScheduler ---------------------------
(***************************************************************************)
(* The project delivery scheduler of project_coordinator.py and the        *)
(* refresh of project_coordinator_github.py: a durable project document    *)
(* that hands plan nodes to workers of an agent runtime it cannot see.     *)
(*                                                                         *)
(* Every command is one Store.update under the project lock, so it is one  *)
(* step.  What the lock does not cover is modelled apart: the starts a     *)
(* command orders and that are carried out later or lost (orders), what    *)
(* the workers really do (job), and the runtime inventory an operator read *)
(* before the command (sight), which the compare-and-swap makes useless    *)
(* once another command has committed.                                     *)
(*                                                                         *)
(* An attempt digest is a number never issued before: the digests cover    *)
(* the generation, which every update increments.  An operator who states  *)
(* that an attempt stopped or never started tells the truth.               *)
(***************************************************************************)
EXTENDS Naturals, FiniteSets

CONSTANTS Ids,          \* coordinates a plan may declare
          Workers,      \* worker identities of the runtime
          None,         \* no worker
          Plans,        \* plans that may be installed, the first one included
          Rank,         \* position of a coordinate in the plan's node list
          Native,       \* Native[n]: its native children and dependencies
          Views,        \* what an observation of a node can show
          Unseen,       \* no observation yet
          Terminal,     \* the views that show a completed node
          ParentViews,  \* records [body, refs, resolved] of the parent
          Capacity, HeavyLimit,
          Domain,       \* what the capacity counts: handles, or active ones
          MaxAttempt    \* bound on the attempts issued

\* Plans are finite, their coordinates are no worker, and no two of them share a rank.
ASSUME SchedulerAssumption ==
  /\ IsFiniteSet(Ids) /\ IsFiniteSet(Workers)
  /\ None \notin Ids \cup Workers
  /\ \A p \in Plans : DOMAIN p.nodes \subseteq Ids
  /\ Rank \in [Ids -> Nat]
  /\ \A m, n \in Ids : Rank[m] = Rank[n] => m = n
  /\ {Capacity, HeavyLimit, MaxAttempt} \subseteq Nat

States == {"pending", "reserved", "running", "blocked", "ready", "merged",
           "accepted", "external"}

VARIABLES plan,    \* [nodes: coordinate -> entry, owners: criterion -> coordinates]
          node,    \* node[n]: [state, worker, attempt]
          obs,     \* obs[n]: the recorded observation of n
          parent,  \* the recorded observation of the parent issue
          proof,   \* the attestations, by criterion
          issued,  \* the last attempt handed out
          orders,  \* starts and follow-ups still to be carried out
          job,     \* job[w]: [status, node, attempt] of worker w at the runtime
          sight    \* the operator's inventory, and whether its snapshot is current

store == <<plan, node, obs, parent, proof, issued>>
runtime == <<orders, job>>
vars == <<plan, node, obs, parent, proof, issued, orders, job, sight>>

Declared == DOMAIN plan.nodes
External(n) == plan.nodes[n].external
Closed == [status |-> "closed", node |-> None, attempt |-> 0]
Blind == [current |-> FALSE, status |-> [w \in Workers |-> "closed"]]

Fresh(p, n) == [state |-> IF p.nodes[n].external THEN "external" ELSE "pending",
                worker |-> None, attempt |-> 0]

Merged == [state |-> "merged", worker |-> None, attempt |-> 0]

\* new_project, then the first refresh, of any plan and any remote state.
Init ==
  /\ plan \in Plans
  /\ obs \in [Ids -> Views \cup {Unseen}]
  /\ \A n \in Ids : obs[n] = Unseen <=> n \notin Declared
  /\ parent \in ParentViews
  /\ node = [n \in Declared |-> IF obs[n] \in Terminal THEN Merged ELSE Fresh(plan, n)]
  /\ proof = << >>
  /\ issued = 0
  /\ orders = {}
  /\ job = [w \in Workers |-> Closed]
  /\ sight = Blind

-----------------------------------------------------------------------------
(* What occupies a lane, and what a dependency waits for *)

\* Two nodes that touch the same lane, one of them at least to write.
\* A named resource is a lane that both of its users write.
Conflict(m, n) ==
  LET a == plan.nodes[m]
      b == plan.nodes[n]
  IN \/ a.writes \cap (b.writes \cup b.reads) # {}
     \/ b.writes \cap a.reads # {}

Attempting(n) == \/ node[n].state \in {"reserved", "running"}
                 \/ node[n].state = "blocked" /\ node[n].attempt # 0

Active == {n \in Declared : Attempting(n)}
Occupied == Active \cup {n \in Declared : External(n) /\ obs[n] \notin Terminal}
HeavyIn(S) == Cardinality({n \in S : plan.nodes[n].heavy})

Unbound == {n \in Active : node[n].worker = None}
Bound == {node[n].worker : n \in Active \ Unbound}

\* acceptance_observations: the owners and all they require, declared or native.
Requires(n) == DOMAIN plan.nodes[n].needs \cup Native[n]
Closure(S) ==
  {n \in Ids : \A T \in SUBSET Ids :
     (S \subseteq T /\ \A m \in T \cap Declared : Requires(m) \subseteq T) => n \in T}
Provable(S) == \A n \in Closure(S) : n \in Declared /\ obs[n] # Unseen

Evidence(i) == [requirements |-> <<parent.body, parent.refs>>,
                observations |-> [n \in Closure(plan.owners[i]) |-> obs[n]]]

Valid(i) == /\ i \in DOMAIN proof
            /\ Provable(plan.owners[i])
            /\ proof[i] = Evidence(i)

Owned(n) == {i \in DOMAIN plan.owners : n \in plan.owners[i]}

ConditionMet(n, condition) ==
  \/ condition = "ready" /\ node[n].state \in {"ready", "merged", "accepted"}
  \/ condition = "merged" /\ node[n].state \in {"merged", "accepted"}
  \/ /\ condition = "accepted"
     /\ node[n].state = "accepted"
     /\ \A i \in Owned(n) : Valid(i)

DependenciesMet(n) ==
  \A m \in DOMAIN plan.nodes[n].needs : ConditionMet(m, plan.nodes[n].needs[m])

\* n may take its lane beside the nodes of S.
LaneFree(n, S) ==
  /\ \A m \in S : ~Conflict(n, m)
  /\ plan.nodes[n].heavy => HeavyIn(S) < HeavyLimit

-----------------------------------------------------------------------------
(* The operator lists the runtime, then runs a command *)

\* inspect the project and list the workers: the inventory dispatch and
\* reserve-existing take as arguments, good only for this snapshot.
Look == /\ sight' = [current |-> TRUE, status |-> [w \in Workers |-> job[w].status]]
        /\ UNCHANGED <<store, runtime>>

Open == {w \in Workers : sight.status[w] # "closed"}

\* An update of the store: every snapshot read before it is stale.
Commit == sight' = Blind

\* schedule: the nodes taken in plan order as long as a slot is free.
Fits(n, earlier, free) ==
  /\ ~External(n)
  /\ node[n].state = "pending"
  /\ DependenciesMet(n)
  /\ LaneFree(n, Occupied \cup earlier)
  /\ Cardinality(earlier) < free

Larger(a, b) == IF a < b THEN b ELSE a
Less(a, b) == IF a < b THEN 0 ELSE a - b

Free == Less(Capacity, Larger(Cardinality(Open), Cardinality(Active \ Unbound))
                         + Cardinality(Unbound))

Schedule(chosen) ==
  \A n \in Declared :
    n \in chosen <=> Fits(n, {m \in chosen : Rank[m] < Rank[n]}, Free)

Reserve(chosen) ==
  /\ Schedule(chosen)
  /\ chosen # {}
  /\ issued < MaxAttempt
  /\ issued' = issued + 1
  /\ node' = [n \in Declared |->
                IF n \in chosen
                THEN [state |-> "reserved", worker |-> None, attempt |-> issued']
                ELSE node[n]]
  /\ orders' = orders \cup
       {[node |-> n, worker |-> None, attempt |-> issued'] : n \in chosen}
  /\ Commit
  /\ UNCHANGED <<plan, obs, parent, proof, job>>

\* Mutant: the open handles are those of an older snapshot.
DispatchStale == \E chosen \in SUBSET Declared : Reserve(chosen)

Dispatch == sight.current /\ \E chosen \in SUBSET Declared : Reserve(chosen)

\* Continue n on w under a fresh attempt; the order replaces an earlier one
\* for n that the single dispatcher has not carried out.
Assign(n, w, state) ==
  /\ issued < MaxAttempt
  /\ issued' = issued + 1
  /\ node' = [node EXCEPT ![n] = [state |-> state, worker |-> w, attempt |-> issued']]
  /\ orders' = {o \in orders : o.node # n}
                 \cup {[node |-> n, worker |-> w, attempt |-> issued']}
  /\ Commit
  /\ UNCHANGED <<plan, obs, parent, proof, job>>

Inventoried ==
  /\ Bound \subseteq Open
  /\ \A m \in Declared :
       node[m].worker # None /\ sight.status[node[m].worker] = "running" => m \in Active

SlotFor(w) ==
  LET running == {v \in Workers : sight.status[v] = "running"}
  IN /\ Domain = "whole-thread-tree" =>
          Cardinality(Open) + Cardinality(Unbound) <= Capacity
     /\ Cardinality(running \cup Bound \cup {w}) + Cardinality(Unbound) <= Capacity

\* reserve-existing: a retained idle handle takes a retired attempt up again.
ReserveExisting(n, w) ==
  /\ sight.current
  /\ ~External(n)
  /\ node[n].state = "pending"
  /\ node[n].worker = None
  /\ node[n].attempt # 0
  /\ sight.status[w] = "idle"
  /\ \A m \in Declared \ {n} : node[m].worker # w
  /\ Inventoried
  /\ SlotFor(w)
  /\ DependenciesMet(n)
  /\ LaneFree(n, Occupied \ {n})
  /\ Assign(n, w, "reserved")

\* Mutant: reopening forgets who took the lane meanwhile.
ReopenBlindly(n) ==
  /\ node[n].state \in {"ready", "blocked"}
  /\ node[n].attempt # 0
  /\ node[n].worker # None
  /\ job[node[n].worker].status # "closed"
  /\ DependenciesMet(n)
  /\ Assign(n, node[n].worker, "running")

\* reopen: the retained worker of n resumes, proved alive by the operator.
Reopen(n) ==
  /\ node[n].state \in {"ready", "blocked"}
  /\ node[n].attempt # 0
  /\ node[n].worker # None
  /\ job[node[n].worker].status # "closed"
  /\ DependenciesMet(n)
  /\ LaneFree(n, Occupied \ {n})
  /\ Assign(n, node[n].worker, "running")

Change(n, new) ==
  /\ node' = [node EXCEPT ![n] = new]
  /\ Commit
  /\ UNCHANGED <<plan, obs, parent, proof, issued, runtime>>

\* worker: the start of w for this attempt is recorded.
RecordWorker(n, w) ==
  /\ job[w].node = n /\ job[w].attempt = node[n].attempt
  /\ node[n].state \in {"reserved", "running"}
  /\ node[n].worker \in {None, w}
  /\ \A m \in Declared \ {n} : node[m].worker # w
  /\ Change(n, [node[n] EXCEPT !.state = "running", !.worker = w])

\* result: what w, now idle, reports of its attempt.
WorkerResult(n, w) ==
  /\ job[w] = [status |-> "idle", node |-> n, attempt |-> node[n].attempt]
  /\ node[n].state = "running"
  /\ \E outcome \in {"ready", "blocked"} : Change(n, [node[n] EXCEPT !.state = outcome])

\* retry: the operator proves that the attempt stopped or never started.
Retry(n) ==
  /\ node[n].attempt # 0
  /\ node[n].state \in {"reserved", "blocked", "ready"}
  /\ \A o \in orders : o.node # n
  /\ \A w \in Workers : ~(job[w].status = "running" /\ job[w].node = n)
  /\ Change(n, [node[n] EXCEPT !.state = "pending", !.worker = None])

-----------------------------------------------------------------------------
(* Evidence: refresh, attest, replan *)

Revocable == {"ready", "accepted", "running", "reserved"}

Block(s) == [s EXCEPT !.state = "blocked"]

\* The changed nodes, then all that depend on them.
Stale(changed) ==
  {n \in Declared : \A T \in SUBSET Declared :
     /\ changed \subseteq T
     /\ \A m \in Declared : DOMAIN plan.nodes[m].needs \cap T # {} => m \in T
     => n \in T}

\* Mutant: a terminal observation releases an attempt nobody proved stopped.
AfterDriftReleasing(n, view) ==
  IF view \in Terminal THEN Merged
  ELSE IF Attempting(n) THEN Block(node[n])
  ELSE IF node[n].state \in {"ready", "merged", "accepted"} THEN Block(node[n])
  ELSE node[n]

AfterDrift(n, view) ==
  IF Attempting(n) THEN Block(node[n])
  ELSE IF view \in Terminal THEN Merged
  ELSE IF node[n].state \in {"ready", "merged", "accepted"} THEN Block(node[n])
  ELSE node[n]

\* Mutant: only the descendants at work are blocked.
DescendedAtWork(n, s, stale) ==
  IF DOMAIN plan.nodes[n].needs \cap stale # {} /\ s.state \in {"running", "reserved"}
  THEN Block(s) ELSE s

Descended(n, s, stale) ==
  IF DOMAIN plan.nodes[n].needs \cap stale # {} /\ s.state \in Revocable
  THEN Block(s) ELSE s

\* Mutant: new requirements leave accepted nodes accepted.
RescopedAtWork(s, view, rewritten) ==
  IF rewritten /\ s.state \in Revocable \ {"accepted"} THEN Block(s)
  ELSE IF view \in Terminal /\ s.state \in {"pending", "ready"} THEN Merged
  ELSE s

Rescoped(s, view, rewritten) ==
  IF rewritten /\ s.state \in Revocable THEN Block(s)
  ELSE IF view \in Terminal /\ s.state \in {"pending", "ready"} THEN Merged
  ELSE s

\* refresh: replace all the evidence and block what rested on the old one.
Refresh(new, pv) ==
  LET changed == {n \in Declared : obs[n] # new[n]}
      stale == Stale(changed)
      Drifted(n) == IF n \in changed THEN AfterDrift(n, new[n]) ELSE node[n]
  IN /\ obs' = new
     /\ parent' = pv
     /\ node' = [n \in Declared |->
          Rescoped(Descended(n, Drifted(n), stale), new[n], pv.body # parent.body)]
     /\ Commit
     /\ UNCHANGED <<plan, proof, issued, runtime>>

Observe == \E new \in [Ids -> Views \cup {Unseen}], pv \in ParentViews :
             /\ \A n \in Ids : new[n] = Unseen <=> n \notin Declared
             /\ Refresh(new, pv)

\* attest: bind criterion i to the evidence seen now; its owners may be done.
Attest(i) ==
  /\ Provable(plan.owners[i])
  /\ proof' = [j \in DOMAIN proof \cup {i} |-> IF j = i THEN Evidence(i) ELSE proof[j]]
  /\ node' = [n \in Declared |->
       IF /\ n \in plan.owners[i]
          /\ \/ node[n].state = "merged"
             \/ /\ node[n].state = "blocked" /\ node[n].worker = None /\ ~Attempting(n)
                /\ obs[n] \in Terminal
          /\ \A j \in Owned(n) : j = i \/ Valid(j)
       THEN [node[n] EXCEPT !.state = "accepted"]
       ELSE node[n]]
  /\ Commit
  /\ UNCHANGED <<plan, obs, parent, issued, runtime>>

\* replan: known nodes stay; a changed boundary needs a node nobody works on.
Replan(new) ==
  /\ Declared \subseteq DOMAIN new.nodes
  /\ \A n \in Declared : plan.nodes[n] # new.nodes[n] =>
       ~External(n) /\ ~Attempting(n) /\ node[n].state # "external"
  /\ plan' = new
  /\ node' = [n \in DOMAIN new.nodes |->
       IF n \notin Declared THEN Fresh(new, n)
       ELSE IF plan.nodes[n] # new.nodes[n]
       THEN [node[n] EXCEPT !.state = "pending", !.worker = None]
       ELSE IF node[n].state = "accepted" THEN [node[n] EXCEPT !.state = "merged"]
       ELSE node[n]]
  /\ proof' = << >>
  /\ Commit
  /\ UNCHANGED <<obs, parent, issued, runtime>>

-----------------------------------------------------------------------------
(* The agent runtime, external to the repository *)

\* The dispatcher carries an order out: it spawns a worker or follows one up.
Carry(o) ==
  /\ o \in orders
  /\ orders' = orders \ {o}
  /\ \E w \in Workers :
       /\ IF o.worker = None THEN job[w].status = "closed"
          ELSE w = o.worker /\ job[w].status # "closed"
       /\ job' = [job EXCEPT ![w] =
            [status |-> "running", node |-> o.node, attempt |-> o.attempt]]
  /\ UNCHANGED <<store, sight>>

\* The dispatcher dies, or its output is lost, before it carries the order out.
Lose(o) ==
  /\ o \in orders
  /\ orders' = orders \ {o}
  /\ UNCHANGED <<store, job, sight>>

Settle(w, from, new) ==
  /\ job[w].status \in from
  /\ job' = [job EXCEPT ![w] = new]
  /\ UNCHANGED <<store, orders, sight>>

\* A worker completes its turn and keeps its result; a handle is closed, or dies.
Complete(w) == Settle(w, {"running"}, [job[w] EXCEPT !.status = "idle"])
Close(w) == Settle(w, {"running", "idle"}, Closed)

-----------------------------------------------------------------------------
Command(n) ==
  \/ Reopen(n)
  \/ Retry(n)
  \/ \E w \in Workers : ReserveExisting(n, w) \/ RecordWorker(n, w) \/ WorkerResult(n, w)

Next ==
  \/ Look
  \/ Dispatch
  \/ \E n \in Declared : Command(n)
  \/ Observe
  \/ \E i \in DOMAIN plan.owners : Attest(i)
  \/ \E new \in Plans : Replan(new)
  \/ \E o \in orders : Carry(o) \/ Lose(o)
  \/ \E w \in Workers : Complete(w) \/ Close(w)

Spec == Init /\ [][Next]_vars

-----------------------------------------------------------------------------
(* Properties *)

NodeRecords == [state : States, worker : Workers \cup {None}, attempt : 0..MaxAttempt]

\* Every variable has its type, only an attempt ever issued is recorded or
\* ordered, and a node at work or reported always carries its attempt.
TypeOK ==
  /\ plan \in Plans
  /\ node \in [Declared -> NodeRecords]
  /\ obs \in [Ids -> Views \cup {Unseen}]
  /\ parent \in ParentViews
  /\ DOMAIN proof \subseteq DOMAIN plan.owners
  /\ issued \in 0..MaxAttempt
  /\ orders \subseteq [node : Declared, worker : Workers \cup {None}, attempt : 1..issued]
  /\ job \in [Workers -> [status : {"closed", "idle", "running"},
                          node : Declared \cup {None}, attempt : 0..issued]]
  /\ sight \in [current : BOOLEAN, status : [Workers -> {"closed", "idle", "running"}]]
  /\ \A n \in Declared : /\ node[n].attempt <= issued
                         /\ node[n].state \in {"reserved", "running", "ready"}
                              => node[n].attempt # 0

Working == {w \in Workers : job[w].status = "running"}
WorkedOn == {job[w].node : w \in Working}

\* "Scheduling reserves dependency-ready, disjoint file/resource lanes"
\* (docs/ARCHITECTURE.md): whatever the document says of them, two workers at
\* work are on two nodes that touch no common lane, even after lost starts,
\* blocking refreshes and replans.
LanesDisjoint ==
  \A v, w \in Working : v # w =>
    /\ job[v].node # job[w].node
    /\ ~Conflict(job[v].node, job[w].node)

\* "with a separate heavy-job limit": of the nodes workers are at work on, no
\* more than HeavyLimit are heavy.
HeavyWithinLimit == HeavyIn(WorkedOn) <= HeavyLimit

\* The runtime is never asked for more handles than it has: the open ones and
\* the spawns still to come fit its capacity (whole-thread-tree counts both).
HandlesWithinCapacity ==
  Cardinality({w \in Workers : job[w].status # "closed"})
    + Cardinality({o \in orders : o.worker = None}) <= Capacity

\* terminal_gaps is empty.
NoTerminalGaps ==
  /\ parent.resolved
  /\ \A n \in Declared : /\ obs[n] \in Terminal
                         /\ node[n].state \notin {"running", "reserved", "blocked", "external"}
                         /\ Native[n] \subseteq Declared
  /\ \A i \in DOMAIN plan.owners : Valid(i)

\* A project without terminal gaps, whose parent may be closed, has no worker
\* at work on one of its nodes and no start on its way to one.
TerminalMeansStopped == NoTerminalGaps => Working = {} /\ orders = {}

\* An accepted node rests on current evidence: each criterion it owns was
\* attested, on what is observed now of the node and of all it depends on, and
\* on the parent's present text.
AcceptedIsCurrent ==
  \A n \in Declared : node[n].state = "accepted" =>
    \A i \in Owned(n) :
      /\ i \in DOMAIN proof
      /\ proof[i].requirements[1] = parent.body
      /\ \A m \in Declared : m = n \/ n \in Stale({m}) =>
           m \in DOMAIN proof[i].observations /\ proof[i].observations[m] = obs[m]

\* "live merge/head changes invalidate dependent integration evidence": when
\* the observation of m changes, nothing that depends on m, however remotely,
\* is left at work, reported or accepted.
DriftBlocksDescendants ==
  [][\A m \in Declared : obs'[m] # obs[m] /\ obs[m] # Unseen =>
       \A n \in Stale({m}) \ {m} : node'[n].state \notin Revocable]_vars
===============================================================================
