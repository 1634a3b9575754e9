# Verification of the Atrinik workspace

TLA+ models of the concurrent core of `atrinik_workspace`, checked with TLC on
small instances and, for the central properties, proved with TLAPS for every
instance. Paths below are relative to `src/`; `locking.py` and the other modules
named without a directory are in `src/atrinik_workspace/`.

## 1. The system

The workspace tool manages the checkouts, worktrees, profiles, builds and
running topologies of the Atrinik projects. Every invocation is a process of its
own (some start threads), and many run at once: people, agents and CI jobs share
one machine. They share files, not memory. Four mechanisms carry the weight:

1. **Leases** (`locking.py`). Each resource (a profile, a repository's Git
   administration, a source tree, a topology, ...) is a *coordinate* with a fair
   reader-writer lock made of three `flock` files. Commands take several.
2. **Durable documents under compare-and-swap** (`project_coordinator_store.py`,
   `scripts/delivery_ledger.py`): a locked read-check-replace of one JSON file.
3. **Journals of intent** (tracking operations, migration, cleanup, scopes): what
   is about to happen is written first, so that a crash can be reconciled.
4. **Supervision** (`supervisor.py`, `process_tree.py`): a topology's processes
   keep leases through inherited descriptors; a guardian outlives the supervisor.

### Inventory

| component | state | operations | what is hard | what makes it correct |
|---|---|---|---|---|
| fair layout lock (`locking.py` 466-647) | three `flock` files per coordinate, inherited descriptors | `exclusive_layout_lock`, `shared_layout_lock` | three acquisitions interleave with others', nonblocking calls unwind halfway, wrappers die while children run | exclusion, nothing leaks, writers before later readers, nobody starves |
| resource leases (`locking.py` 1113-1245, `workspace.py`) | leases a command holds, nested | `resource_locks`, `_resource_locks_all_or_none`, the commands | lease order across nested calls, retries, refusals | no circular wait, commands at work exclude each other |
| lease owner records (`locking.py` 245-463, 752-1110; diagnosis only) | staged and published records, each locked by its owner | publish, admit, release, scan | publication in three steps against a reaping scanner | a holder is recorded, a live record is never reaped |
| project scheduler (`project_coordinator.py`) | project document: nodes, attempts, evidence | dispatch, reserve-existing, worker, result, reopen, retry, refresh, attest, replan, terminal | lost starts, stale inventories, drift under running workers | workers at work are on disjoint lanes, acceptance rests on current evidence |
| project store, tracking journal (`project_coordinator_store.py`, `project_coordinator_github.py`) | document under CAS, operation phases | plan, apply, reconcile, cancel | two coordinators, crash anywhere, lost or late requests, foreign edits | sent at most once, bound only to its own result |
| topology supervisor (`supervisor.py`, `process_tree.py`) | process tree, leases, status | start, readiness, stop, guardian | supervisor dies, descendants survive, PID reuse | leases are free only after the tree has gone |
| port reservations (`port_reservation.py`) | one lease file per port and generation | reserve, find owner | two topologies look before either creates | one live reservation per port |
| workspace state (`workspace.py`) | generations of sources and runtimes, temporary state, builds, topology records | build, start, stop, recover, reset | publication by rename, recovery after a crash | what is published is complete; in use is never removed |
| cleanup (`cleanup.py`) | cleanup journal, tombstones | plan, apply, resume, acknowledge | crash between journal, rename and removal | only what was claimed is removed, exactly once |
| migration (`migration.py`, `content_migration.py`) | pending journal, exchanged files | apply, roll back, restore | crash between two exchanges | either all of it or none |
| scopes (`scopes.py`) | scope record, journal, reservation | create, recover, release | partial creation, retry by another process | one owner, nothing half released |
| leaf delivery ledger (`scripts/delivery_ledger.py`, `delivery.py`) | private ledger per delivery | start, update, release, archive, reclaim, migrate a report, correct a head | concurrent writers, ownership transfer | an active delivery has one owner |
| agent ledgers (`agent_ledgers.py`) | two Markdown tables | merge a row | writers that ignore the lock | no row lost |
| prebuilt receipts (`prebuilt.py`, `provenance_identity.py`) | receipt in a build root | publish, retire | replacement during rollback | a receipt speaks of the build it lies in |
| runtime handoff (`runtime_handoff.py`) | lease directory, socket | publish, consume, revoke | expiry and revocation against an answer | nothing is consumed after revocation |

The rest holds no shared state across processes: command line and manifest
(`cli.py`, `model.py`, `completion.py`), MCP servers (`mcp_*.py`, read-only
request handlers), packaging and supply chain (`linux_*.py`, `supply_chain.py`,
`sound.py`), scenario measurement, CI sharding, guidance inventories, operating
system wrappers and the operational scripts. `PROJECT.json` lists them all.

Interactions: every command runs inside `resource_locks`, which stacks fair
layout locks; supervisors and children inherit the descriptors; cleanup,
migration and scopes take leases before they touch anything; the project
coordinator writes its own store and only reads leaf ledgers.

## 2. The modules

| module | models | checked in | proved in |
|---|---|---|---|
| `ReadWriteLease` | abstract: what one coordinate promises | refined by `LayoutLock` | |
| `LayoutLock` | the three-file lock of one coordinate | `LayoutLockSafety`, `LayoutLockLiveness` | `LayoutLockProofs` |
| `LeaseOrder` | commands over several coordinates, each reduced to what `LayoutLock` shows of it | `LeaseOrder`, `Progress` | `LeaseOrderProofs` |
| `ProjectScheduler` | project document, operators and agent runtime | `SchedulerLanes`, `SchedulerEvidence` | `ProjectSchedulerProofs` |
| `TrackingJournal` | store, coordinators and tracker | `TrackingJournal` | `TrackingJournalProofs` |
| `TopologySupervisor` | launch, supervisor, guardian, process tree, ports, down, restart | `Topologies`, `Progress` | `TopologyProofs` |
| `TemporaryState` | server states: creation, copy, promotion, removal, cleanup | `Topologies`, `Progress` | |
| `RuntimeOutput` | publication of a runtime generation and its output directory | `Topologies`, `Progress` | |
| `SourceGeneration` | sealed exports of checkouts, their pins and collection | `Builds` | |
| `ReplacedDirectory` | generated directories exchanged behind a journal or a backup | `Builds`, `Progress` | |
| `WorkerDependencies` | npm installations shared by Worker builds | `Builds`, `Progress` | |
| `PreparedBuild` | prebuilt receipts, fenced builds and launches from them | `Builds`, `Progress` | |
| `DevelopmentBuild` | binary trees: configure, reset, skip, and launches | `Builds` | |
| `CleanupJournal` | the journal of one cleanup request, removal, retry, receipt | `Recovery`, `Progress` | |
| `JournalPaging` | how a cleanup finds the journal it must resume | `Recovery`, `Progress` | `TrackingJournalProofs` |
| `RepositoryMigration` | `migrate repositories` | `Recovery`, `Progress` | |
| `ContentMigration` | `migrate content` and its restore | `Recovery`, `Progress` | |
| `LedgerStore` | abstract: a store of leaf ledgers, each operation at once | refined by `LedgerRoot` | |
| `LedgerRoot` | the files of the review root, helpers killed at any step | `Delivery`, `Progress`, `LedgerTornReceipt` | `LedgerRootProofs` |
| `LedgerMigration` | a delivery report from before the ledgers becomes one | `Delivery` | `LedgerMigrationProofs` |
| `HeadCorrection` | a head that does not exist is corrected in a ledger | `Delivery` | `LedgerMigrationProofs` |
| `ScopeLifecycle` | creation, rollback, retry and release of a delivery scope | `Delivery`, `Progress` | `ScopeLifecycleProofs` |
| `LeafLedger` | the document of one leaf and its agents | `Delivery`, `Progress` | |
| `AgentLedgers` | the Markdown tables that agents and editors write | `Delivery` | |
| `LeaseOwners` | the records that say who holds a lease | `Recovery` | |
| `RuntimeHandoff` | a tested runtime is served to consumers, and revoked | `Topologies` | `TopologyProofs` |

`PROJECT.json` maps each operator that stands for code to the source lines it
stands for. Some definitions are marked "Mutant" in their comment: a plausible
bug kept beside the original. No specification uses one; `PROJECT.json` names the
property each breaks. Constants are bounds, sets of actors, or the happenings an
instance allows (`Enabled`, `Faults`, ...); what a module assumes of them is its
operator `Assumptions`, which the MC modules `ASSUME` of every instance (the
modules with proofs state named assumptions of their own).

### LayoutLock

`own[c]` are the locks of the descriptions client `c` opened, `kid[c]` those of
the duplicates its child inherited. A `flock` belongs to the open file
description, so a description stays locked until every duplicate is closed: that
is what `CanLock` says. Each `flock` call is one step, taken when the kernel
grants it (`Acquire`), refused in a nonblocking call (`Busy`) or undone when the
descriptor is closed (`Release`). `pc` walks through `exclusive_layout_lock`
(pending SH, intent EX, lock EX) and `shared_layout_lock` (intent EX, a
nonblocking probe of pending EX, lock SH; or, when the probe fails, out of the
intent and through pending and intent again). `Busy` leads to exactly the
releases the `ExitStack` performs there. `Spawn` starts one child with
`active_lock_fds()`; `Crash` kills a client at any point, and its descriptors
close one by one, in any order. A client may ask blocking or nonblocking each
time. Opening and checking the lock file (`_open_lock`) is part of `Acquire`; its
refusals end a call before anything is taken. Wait diagnostics change no state.

The module is the POSIX protocol. On Windows the same calls run over
`LockFileEx`; children inherit nothing there.

`ReadWriteLease` has `grant[c]` and `heir[c]` only; the refinement maps `heir`
to the role a child was started with and `grant` to what the client's code
believes it holds.

### LeaseOrder

A coordinate is a number, its place in `sort_key` order: registry, profile, Git
administration, then the sources. `call[c]` is the `resource_locks` call in
progress: requests still wanted, whether it blocks, where it continues when it
is granted or refused, and its depth; `held[c]` are leases tagged with the depth
that took them, so that the end of a `with` block gives back its own. A
coordinate is the fair lock of `LayoutLock` reduced to its holders and to the
queued writer that later readers wait behind (`Queue`, `Obstructs`). The five
commands are those of `workspace.py` that nest, refuse or retry: initialise (and
create a worktree), synchronise with its snapshot, all-or-none gathering and
nested claim, remove a worktree, use a profile (collect sources, stand back, start
over) and update a profile. Single-call users of `_resource_locks` behave as
initialise does.

Left out: the maintenance barrier and the wrapper's own source lease, which every
command shares and whose writers never block (they refuse), and owner records. A
worktree's source and physical coordinates, taken in one call, are one coordinate.

### ProjectScheduler

A command is one `Store.update` under the project lock, hence one step. What the
lock does not cover is modelled apart: `orders` are the starts a command
returned, still to be carried out or lost; `job` is what the workers really do;
`sight` is the inventory an operator read before a command, which any commit
makes stale (the compare-and-swap of the snapshot it was read with). Attempts
are numbers instead of digests: a digest covers the generation, which every
update increments, so it never repeats. Paths and resources are *lanes*, which
two nodes share or not. An observation is a member of `Views`, some of which
are terminal; recorded evidence is compared, never interpreted.

Assumed of the environment: an operator who declares an attempt stopped or
never started (`retry`) tells the truth; the one dispatcher does not carry out an
order a later one for the node has replaced; a worker is reopened only while its
handle exists. These are the proofs the commands demand as evidence text.
Abstracted, because it can only refuse a command: the age and format of a runtime
observation, the repeated observation in `result`, and in `terminal_gaps` the
parts about operations. The root coordinator is not counted, in the inventory or
in the capacity.

### TrackingJournal

`phase[o]` is the journal, `generation` stands for generation, digest and path
of the document. A coordinator's command is at a station; `lock` is held across
steps while planning and cancelling look at the tracker, and never while
applying: `apply_operation` inspects, looks, claims (`in-flight`, by CAS), sends,
looks and binds (by CAS on the snapshot its claim returned). `Stop` ends a
command at any station: a requirement that fails, a busy lock, a failed call, a
killed process. Requests arrive late or get lost; others make and undo
relations, close and reopen issues and delete texts, but nobody else writes a
coordinator's marker. Guards that only refuse further (a changed issue identity,
the relationship graph, closure evidence) are covered by `Stop`.

### TopologySupervisor

A launch is one generation. `command` walks `topology_up` from the opened
descriptors to the handoff, `topology_down`, the forced stop and `dev_restart`;
`sup[g]` walks the supervisor from boot through start, serving, termination and
its final record; `kin` is the guardian, `kids` the process tree, `doomed` and
`listed` what a signal and a scan of `/proc` reached. Leases are open
descriptions, so who holds one follows from who still has the descriptor. A tree
may fork at any time, also between the listing of `/proc` and the turn of the
process listed (`Faults` "race"). Readiness text, logs, `launch_identity` and the
legacy stop by process number are left out.

### TemporaryState, RuntimeOutput

`TemporaryState` keeps, per generation, the directory, the lease file beside it,
the provenance in it and what `status.json` says of both; a topology has at most
one command, which may die between any two durable steps. Creation, the copy of
a restart, removal after a clean down, promotion under a name and the
temporary-states scope of cleanup are separate actions.

`RuntimeOutput` follows a generation from its staging copy through the rename to
the status that owns its output, and the removal through tombstone and record,
for a topology with a persistent state and a foreground server on the same state.
Left out: digest collisions (an edit is never undone within one publication). A
command that dies or fails while its transaction says `creating` leaves an output
that every later command refuses, for good: the runs reach it, liveness excludes
it (`Enabled` "creating"). A foreground server that is killed leaves its output
behind, so `Owned` is about the topology.

### SourceGeneration, ReplacedDirectory, WorkerDependencies

`SourceGeneration`: one checkout whose commits name the generations; staging,
publication by a rename that replaces nothing, pin, lease handed back, recovery
of torn generations, cleanup; loss of power makes undurable writes disappear
(undoing a published rename itself is left out). Several checkouts differ in name
only.

`ReplacedDirectory`: content, resources, region maps and runtime inputs, the kind
being a constant: observe, reuse or make, exchange behind a journal (or, for
maps, a backup with a random name), recover. The kind "runtime" is today called
by tests only. Reading an input is one instant per look.

`WorkerDependencies`: entries keyed by all npm reads, a staging directory with a
stable name, seal, exchange, copy into the profile, removal by cleanup. The npm
cache directory and its lock are abstracted; the configuration changes once, so a
return to an earlier configuration is not seen; the grace period does not run out
while a step under the lock is in progress; cleanup is not killed.

### PreparedBuild, DevelopmentBuild

`PreparedBuild`: a file is an object with its inode; every build moves the receipt
it finds aside, a fenced one publishes another when nothing it was planned from
has changed; a launch validates at admission, under the lock and before its copy
is published. Versions and outputs never return. Non-Linux systems refuse
receipts.

`DevelopmentBuild`: per root the source views, caches, graph, objects and the
fingerprint recorded after a configure; commands build (with or without tests), up
and restart, one at a time (the lock of the root). A build of the client alone
defers the region maps; a launch always needs them, and with them the server's
executable (the comment at `workspace.py` 9405-9408). Left out: the protocol and
libatrinik trees, portable builds, the regeneration Ninja starts by itself,
commands in different roots at once. A checkout is read in one instant per look,
and an edit is undone only where an instance says so (`Enabled` "undo").

### CleanupJournal, JournalPaging

`CleanupJournal`: the journal of a request has the targets, the completed actions
and one intent with its phase; a target at a path is an object with a number that
changes when somebody makes the path anew. Removal renames the object to a
tombstone and cuts into it. Users hold leases, use and remake objects meanwhile.
`JournalPaging`: bounded pages over journals of many requests, a durable cursor,
commands that die, reports shown and acknowledged.

### RepositoryMigration, ContentMigration

One command at a time under the exclusive layout lock, killed or failing at any
step, editors that take no lock, topologies that start. Inside a phase the order
of sources, trees and profiles is open. A look at a worktree and the Git command
it allows are two steps: recovery compares a worktree with its plan (`UndoTree`)
and then removes it by force (`ForceTree`), the content migration proves one
(`Prove`) and then moves it (`Move`), and Git asks for neither to be clean. What a
user does in between is removed, or moves along; `RecoveryKeepsEdits` and
`OnlyProvenMoves` speak of what was there before, for which `cmd` remembers `found`
and `busy`. Recovery compares the status and the files of a worktree, not its
commit: "edited" is work it can see. Undoing may fail at any step and goes on to the
next; a profile that was not restored may then select worktrees that are gone, so
`ProfileResolves` is claimed of the part without such faults only ("profiled"). The
inert paths a migration sets aside and the verification of the exchanged bytes are
left out.

### LedgerStore, LedgerRoot

`LedgerRoot` has the files of the root: canonical ledgers, stages, receipts,
proofs, archives and the quarantine of an unlink, each whole or torn, and walks
through create, cas, release, archive and reclaim, each starting with the
inventory that refuses a root it cannot read. A helper may be killed between two
steps, or (`Torn`) within a write. It implements `LedgerStore`, where each
operation is one step. Left out: link counts, `fsync` and power loss, the lock
and report members, the retention clock, ledgers of older formats.

### ScopeLifecycle

The rows of a creation journal (worktree and branch), profile and reference, the
rollback of a failed creation, the exact retry that adopts what is left, the
preview of a release by digest, its application action by action and its
resumption; users edit, commit, build and start topologies between and, where no
lease prevents it, within commands. The rollback looks at a row, removes the
worktree and deletes the branch in three steps, as the release does. Left out: `DeliveryScopeProof`, the path
registry on Windows, the variants of the state policy.

### LeafLedger

The document of one leaf (issue or pull request), its pending replacement, GitHub,
the worktree and several agents: each reads, classifies, and either makes the
next generation or writes what the ledger intends; a write may land late or
never. Left out: resource slots, corrections, dependency advancement, worktrees
bound to scopes, several targets, old formats.

### LedgerMigration, HeadCorrection

`LedgerMigration` is one call of `migrate` after another on one report: `op` is
the helper at work under the root lock, which covers the whole call, `marker` the
durable state (planned, prepared, complete), `staged` the files beside it, each
whole or torn. A helper may be killed in the middle of any write, people edit the
reports without a lock, and somebody else may get the issue first (`rival`).
`Kind` tells the migrations apart; a rebind has two sources. Versions of a report
have no common prefix, so that a torn file is the beginning of one content only.
A plan whose report is edited after a kill stays refused until the report is what
was planned again.

`HeadCorrection` is `correct_target_head` on one ledger: a helper reads the ledger
and proves the live head before it has the locks, keeps the predecessor and the
erroneous bytes, stages, writes the receipt, proves the head again and renames.
Several helpers want the same or another head, and commits move it. A correction
that was killed stays pending until the head it was made for is live again.

### AgentLedgers, LeaseOwners, RuntimeHandoff

`AgentLedgers`: a call of `update_agent_ledger` from its first reading to the rename
and the synchronisation, under `build/.agent-ledgers.lock`; a person's editor saves
whole files without the lock. A table is a function from keys to values; Markdown
cells, path and Git checks only refuse.

`LeaseOwners`: a call publishes a record of itself, asks for the lease, rewrites the
record and removes it; who is refused, or waits long, reads all records of the
coordinate and removes those nobody has locked. Four kinds of lock are taken in
different orders; a child inherits the lock of the record with the lease. At most
eight holders are named, and an unlink that fails is left out.

`RuntimeHandoff`: a publisher proves its build, binds a socket and takes one
connection at a time; a consumer is challenged, proves the publisher, is admitted
and starts with the root of the ledgers locked for it; a revocation waits for its turn
at the socket, is on disk before it is acknowledged and ends the publisher.
Publishers, consumers and revocations may be killed anywhere, the helper moves the
ledger behind the same lock, sources change unless they are leased, and leases expire.
Signatures and
fingerprints are abstracted to who wrote, bound or answered; the branch that removes
an endpoint of one's own that died is not reached from `runtime_handoff_publish`.

## 3. The runs

| run | question | instance | states |
|---|---|---|---|
| `LayoutLockSafety` | exclusion, inheritance, unwinding, writer precedence, refinement | 3 clients, each reads, writes, forks, dies, blocks or not | 377,929 |
| `LayoutLockLiveness` | is every queued writer served, and every reader between writers | 2 writers, 2 readers (one is both), children, crashes, one impatient client | 14,634 |
| `LeaseOrder` | lease order, circular waits, exclusion at work | one client per kind of command, two sources | 873,981 |
| `SchedulerLanes` | disjoint lanes, heavy limit, capacity, termination | 2 nodes, 3 workers, capacity 2, 3 attempts, 3 plans | 1,337,637 |
| `SchedulerEvidence` | drift along a chain, current acceptance | 3 chained nodes, 2 parent texts, 2 plans, 1 attempt | 105,222 |
| `TrackingJournal` | one attempt, own result, one intent per issue, final decisions | 2 coordinators, 4 operations on 2 issues, 7 generations | 2,736,784 |
| `Topologies` | what is confirmed stopped is gone, what is held is held by one, what is in use is whole | 8 parts: topologies, states, outputs, handed-off runtimes | 1,813,600 |
| `Builds` | what is read is whole, what is recorded is true, what is reused is current | 18 parts: sources, directories, dependencies, receipts, trees | 1,013,568 |
| `Recovery` | whatever is half done is journaled, what records say is so | 14 parts: cleanup, paging, both migrations, lease owners | 1,860,216 |
| `Delivery` | one owner, true journals, the root implements the store | 20 parts: roots, scopes, leaves, their migration and correction, agents' tables | 1,807,932 |
| `Progress` | what was begun is finished, who asks again is served | 15 parts, under fairness | 97,504 |
| `LedgerTornReceipt` | can a killed helper make the root unreadable (it can: section 5) | 2 ledgers, one kill inside a write | stops at the violation |

**Runs of several parts.** Components that share no state are explored in one
run: `Init` chooses the part that moves (variable `part`), the variables of the
others keep an initial value, and each step is a step of that part's instance.
The state space is the sum of the parts', not their product, and loses nothing:
the components interact through leases, which each module models where it takes
them. The header of each MC module lists the parts, the instances below it their
constants, and a property states for each part what it owes. Where a conjunct is
claimed of some parts only, the others allow a fault that breaks it (section 5)
or do not reach what it is about.

**Bounds.** Three clients are enough for `LayoutLock`: a precedence violation
needs a holder, a queued writer and a late reader, and the file protocol never
distinguishes more; the proofs remove the bound for safety. `LeaseOrder` has two
sources because the retry loops need a first and a later one. In
`SchedulerLanes` three attempts let a node be dispatched, reopened and its rival
dispatched; three workers exceed the capacity of two. The plans make both nodes
share a lane until replanning separates or lightens one. `SchedulerEvidence`
needs a chain of three for remote descendants and little else. In
`TrackingJournal` seven generations allow two complete operations (three updates
each) interleaved with updates of others. In the runs of several parts each
instance is the smallest on which its hazards occur: two commands or builders for
an interleaving, two generations for a restart, one or two kills (the second
interrupts the recovery from the first), one or two faults, one or two things
people do. Counters named `Max...` are the only artificial bounds, all in guards.
Symmetry is used over clients, workers and coordinators in safety runs only. In
`LayoutLockLiveness`, `Scope` limits who starts what; it restricts only steps
without fairness. The part "rivals" of `Topologies` leaves out steps that ask a
topology to stop (`NobodyAsks`): its rivals start, are forced down or stop.

**Deadlock** is checked in the first six runs. In the others the system may stop:
a bounded number of edits, builds and faults is used up and nobody asks again.

**Fairness.** Nobody is obliged to begin something new, to edit, to fail or to be
killed. What is assumed:

- `LayoutLock`: a running client goes on, bodies and children end, dead processes'
  descriptors get closed (weak). Waiting in the kernel for the pending or intent
  file is strongly fair: Linux wakes every waiter of a released `flock`, so a
  waiter that finds the file free again and again gets it, up to scheduling.
  Entering the lock itself needs only weak fairness: the protocol keeps it free
  for whoever was admitted. A reader that stepped aside waits for a moment
  without writers (`WriterGap`), which is all the code promises it.
- `LeaseOrder`: a command in progress goes on (weak), a lease found free again and
  again is granted (strong), which is what `LayoutLock` shows of writers.
- Commands in progress take their steps (weak), in every other part: a process
  that is not killed is scheduled. The lock of a build root, an entry or a state,
  taken by a blocking `flock`, is strongly fair, as above.
- A user whose command failed or was killed, and who is told to run it again, does
  so (strong where the command can be refused meanwhile): `BeginUp`, `BeginDown`,
  `Scan`, `RecoverByHand`, `Retry`, `Inspect`, the repetition of a ledger command,
  `RetryBegins`, `Preview` and `ReleaseBegins`. This is a promise to those who
  repeat, not of repetition.
- Users give leases back, topologies stop, time passes for what must age, an
  occupied path is vacated once (weak), a write to GitHub under way lands or is
  lost (weak).

`Progress` states the fairness of all its parts together: a part moves alone, so
the i-th weakly (strongly) fair action is the disjunction of the parts' i-th.

**What they show.** The properties quote the documentation where it makes the
claim: "A queued writer precedes later readers" (`WriterPrecedence`), "disjoint
file/resource lanes, with a separate heavy-job limit" (`LanesDisjoint`,
`HeavyWithinLimit`), "live merge/head changes invalidate dependent integration
evidence" (`DriftBlocksDescendants`), "journals an exact planned request before
its single remote attempt", "never automatic replay" (`SingleAttempt`), "binds
the observed result" (`BoundIsOwn`). `BoundIsOwn` is about operations that carry a
marker only: an assignment somebody else makes meanwhile is indistinguishable
from its own, and binding it is right.

## 4. What is proved

For every number of clients, commands, sources, coordinators and operations:

- `LayoutLockProofs`: `TypeCorrect`, `Discipline`, `Precedence`, `Refinement`.
  The invariant is `TypeOK /\ LockDiscipline`. `NothingLeaks` determines a live
  client's locks from its control position, `FlockSound` excludes conflicting
  descriptions, `ChildrenHold` ties children to the lock; each is needed for the
  others: releases are sound because positions determine locks, and the
  refinement's `Enter` is enabled because conflicting holders contradict
  `FlockSound`. Precedence needs in addition only that a reader that enters
  holds the pending file EX, which follows from its position.
- `LeaseOrderProofs`: `TypeCorrect`, `Ascending`, `NoCycle`, `Exclusion`. The
  invariant adds to `TypeOK` and `WaitsAscend`: `CallsSound` (what a call in
  progress wants, at which depth, and where it goes on), `Placed` (the leases a
  command holds at each position) and `LeasesCompatible` (no two clients hold
  conflicting leases). `NoCycle` follows without induction: in a set of commands
  the one that waits for the greatest coordinate can only be blocked by a holder
  of it or by a writer queued before it, and such a one waits, if at all, further
  up. From the assumptions on `Role`, `Roots` and `Last`.
- `TrackingJournalProofs`: `TypeCorrect`, `AtMostOneAttempt`, `BoundIsEarned`,
  `IntentsApart`, `DecisionsAreFinal`. The invariant adds `Expecting` (while the
  generation a coordinator expects is current, the journal is as it saw it),
  `Sending` (of the coordinators that claimed one operation at most one is still
  to send it, and it was not sent before) and `MarkersOwn` (a marker shows only
  after its request took effect). From the assumptions that a marker belongs to
  one operation and that `Nobody` and `NoOp` are no coordinator or operation.

- `ProjectSchedulerProofs`: `TypeCorrect`, `Invariance`, `DisjointLanes`,
  `HeavyLimited`, `CapacityKept`, `TerminalIsStopped`, `AcceptanceIsCurrent`,
  `DriftBlocks`. The document and the runtime are two pieces of state no step
  changes together, so the properties of the workers are not inductive. `IInv`
  adds what ties them: `HandlesSound`, `OrdersCurrent`, `OneTakes` and
  `WorkCovered` (each worker at work and each order on its way is of the attempt
  its node records, which one worker takes), `EngagedApart` (the nodes recorded as
  engaged share no lane and hold no more than the heavy limit) and
  `InventoryBounds` (an inventory that is current counts every open handle).
  Evidence needs no more than the types: `Stale` is closed under dependence.
  From `SchedulerAssumption`: finite plans, distinct ranks, natural limits.
- `TrackingJournalProofs`, instance `J` of `JournalPaging`: `PagingInvariance`,
  `OneJournal`, `WorkIsOwn`. A scan
  reads its pages in several commands that come and go; `CursorCovers` (behind
  the cursor nothing of its request is open but what the cursor names) makes them
  as good as one reading. `OneWorks`: at most one command works at a time.
- `LedgerRootProofs`: `Invariance`, `TypeCorrect`, `ClaimsApart`, `OwnersApart`,
  `AlwaysReadable`, `Refinement`. The invariant is `LInv == Types /\ Files /\
  Knows`. `Files` says what may lie beside what whenever a helper is killed: one
  archive to a leaf, markers that speak of the ledger beside them, an archive
  that covers what it archives, no pending work on a retired leaf, updates whose
  receipt, stage and proof agree with the ledger, and claims of all that is not
  retired apart. `Knows` says what a running command has established at each of
  its stations and which files it is still to unlink; without it the next step
  could not be shown to keep `Files`. There is a lemma per action, built on what
  one more file (`GainsFiles`), one file less (`DropsFiles`) and a new ledger
  (`LedgerComes`, `LedgerMovesOn`, `LedgerGoes`) do to `Files`. The refinement
  maps a leaf to one record (`Record`); `CreateInstalls`, `CasCommits`,
  `ReleaseInstalls`, `ArchiveInstalls` and the unlink of an archive are the steps
  of the store, and every other step, each kill included, leaves all records as
  they are. Two hypotheses are real limits of the code: `"again" \notin Enabled`
  (a leaf created anew while its archive is kept is compared as historical,
  section 5) and, for `AlwaysReadable` and `Answers`, `Torn \subseteq {"stage"}`: the
  violation run `LedgerTornReceipt` shows that a torn receipt is never readable
  again.
  `HistoryKept` and `Answers` come from `LInv` and two invariants of their own. The
  first says that no step, of a kill or of a helper, forgets a document on record;
  `Reclaimer` is what it needs: a reclaim unlinks the archive only when its receipt
  is written, and the receipt only when the completion is. An archive takes away the
  ledger it covers (`ArchiveCovers`), a cas moves to a document its predecessor is a
  prefix of, and nothing else touches what lasts (`OthersHarmless`). `Answers` says
  that what create and cas answer is what they did; `Answering` carries that from the
  step that decides the answer, through the unlinks that follow, to the return. It
  needs `Torn \subseteq {"stage"}` as well: a cas refused because the root is not
  readable leaves its files.
- `LedgerMigrationProofs` is about two modules, for any candidates, versions, heads,
  helpers, kills and edits. Of `LedgerMigration`: `MigrationInvariant`,
  `MigrationTypes`, `MigrationHasOneOwner`, `MigratedLedgerIsBacked`,
  `MigrationIsResumed`, `MigrationAnswersAreTrue`, `MigrationMovesForward`. The
  invariant `MInv` adds to the types: `OnDisk` (which files can lie there, whole or
  torn and of which plan, in each state of the marker), `Alone` (nobody else gets the
  issue once something of a migration is there), `AtWork` (at each of its stations,
  what the helper has done), `Calm` (until a report is edited the files are of what
  the marker planned) and `Told` (what an answer says). A helper is killed inside a
  write, so `OnDisk` has to hold after every half of a step; what lets the next call
  go on is that a torn file is a beginning of what the plan says (`Part`), which
  `OnDisk` keeps. The instance `C` in the second half is `HeadCorrection`, with
  `CorrectionInvariant`, `CorrectionErasesNothing`, `CorrectionIsResumed`,
  `CorrectionAnswersAreTrue`, `HeadCorrectedOnce`; `CInv` says in which order the kept
  files came (`InOrder`), what is settled once the head is another (`Settled`), that
  one helper is behind the locks (`Locked`) and what it found there.
- `ScopeLifecycleProofs`: `Invariance`, `Whole`, `WorkKept`, `Backed`,
  `RolledBackClean`, `Preserved`, `ShownGo`, `DoneGone`, for any number of
  checkouts and builds. `SInv == Types /\ Published /\ Recorded` says how far a
  creation is at each of its stations (which rows stand, whether the profile and its
  reference are out) and what a record implies; `Whole` and `WorkKept` follow from
  it. The others need more, each an invariant proved beside `SInv`:
  - `UInv` (what a failed creation still owes: an effect without its note, a row
    that is not undone yet) gives `Backed` and `RolledBackClean`. Hypothesis
    `"between" \notin Faults`: a rollback undoes what is noted, so a command that
    fails between an effect and its note (scopes.py:1591) leaves the effect.
  - `Preserving` (a command between the look at a row and its removals is at a row
    that is still called created) gives `Preserved`, without a hypothesis. It says
    nothing of a preserved row's worktree: a commit after the look, or a primary that
    does not contain the commit asked for, lets the worktree go before `branch -d`
    refuses (scopes.py:1805).
  - `Planned` (which action and which plan a releasing command is at) gives
    `ShownGo`, unless users both build late and build again over an interrupted
    removal, which takes up again whatever it finds (scopes.py:3080).
  - `Done` gives `DoneGone`: an action is journaled as done once `Vanished`, and
    nothing that vanished comes back. Hypothesis `"late" \notin Enabled`: no lease
    or check keeps a user from building after a release has begun.
- `TopologyProofs` is about two modules. Of `RuntimeHandoff`: `Sound`,
  `AdmittedIsGuardedHolds`, `CompletionIsWholeHolds`, `RevocationIsFinalHolds`,
  `SourcesStandHolds`, `OneServesHolds`, for any publishers, consumers, revocations,
  lengths of a lease and bounds. `RInv` adds to the properties what each step needs of the others:
  - `Locks` and `Lease`: who stands where a lock is needed has it, and the lease is
    that of the one publisher that wrote its envelope, so all clients have pinned
    the same one (`OnlyOne`).
  - `Sessions`: an admitted consumer is the peer of a publisher in `Admitting`, or
    that publisher is `Over`; `Unanswered` says that who is verified anew has no
    answer yet, without which the second answer of a session could be a word for
    the next question; `Word` that a consumer goes on only with the answer it
    awaits, and with none once the revocation is on disk.
  - `Moved`: who had the ledger move under its session will never be told that it
    is done. The helper moves it behind the lock of the root, so the publisher of
    whoever is in session then is `Over`.
  - `Leased`: sources that were compared after their leases were taken stand.
  From `Assumptions`: names that differ, a lease that lasts, natural bounds.

  The instance `T` in the second half is `TopologySupervisor`, for any commands,
  topologies, processes, ports, generations and, where no hypothesis says otherwise,
  faults: `Topology` (the invariant `TInv`), `StatusBindsLeaseHolds`,
  `OneGenerationPerTreeHolds`, `DownMeansGoneHolds`, `PortExclusiveHolds`,
  `GuardianOutlivesTreeHolds`, `StateExclusiveHolds`, `CleanIsEarnedHolds`.
  - A lease is an open description, so it comes to a new holder only where a command
    opens it or hands it to a launch. `Frame` says so of every step of a supervisor,
    a guardian or a service, and the other half of the proof is about the commands
    alone: `Tree` (which generation a command is at work on, that the tree lease
    names it, and that a launch nobody has made yet holds nothing), `Ports` and
    `States` (who found a port or state free found it so for all that are later).
  - `GuardianOutlivesTreeHolds` and `StateExclusiveHolds` add `AllWait` and
    `AllWatched`: at each station of a supervisor and a guardian, whom a scan has
    listed, whom a signal reached and who can be left. Hypothesis: neither "guardian"
    nor "race" is in `Faults`. A tree whose guardian is killed is on its own, and a
    scan that misses a child lets the last lease go before the child does.
  - `CleanIsEarnedHolds` adds `AllClean`, with the hypothesis that "race" is not in
    `Faults`: a supervisor that finds everybody gone notes a clean end, and the child
    its scan missed is killed by a later scan, so the end is called clean though it
    was not. With two processes and "race" TLC finds that; the run has it with one.
  From `Assumptions`: one port for each generation, and a topology.

Each inductive invariant was checked with TLC before it was proved.

Only model-checked: of `Topologies` the properties of `TemporaryState` and
`RuntimeOutput`, those of `Builds`, of `Recovery` but for `OneJournal` and
`WorkIsOwn`, of `Delivery` those of `LeafLedger` and `AgentLedgers`; and liveness
(`EveryoneServed`, `NothingStaysOwed`, `AskingHelps`), which TLAPS cannot prove under
fairness. Of `ScopeLifecycle`, `CompleteIsGone` is only model-checked: that the
actions of a plan name every object of it is a fact about `SelectSeq`, which is
recursive. The properties of these
composed runs gather several components in one formula, so that a theorem about one
component proves a conjunct of such a property.

## 5. Where the code and its documentation disagree

Each line was a counterexample TLC found while the module was written, to what
the quoted text says. The properties of the passing runs state what does hold:
their comments name the exception, or the instance leaves out the fault.
`LedgerTornReceipt` keeps one of them as a run: a helper killed inside the write
of a receipt leaves a file every later inventory refuses.

| where | what happens | against |
|---|---|---|
| `supervisor.py` 396 | the guardian trusts one scan of `/proc`; a process that forks and exits between the listing and its turn hides its child, and the leases are released over a living tree | ARCHITECTURE 1431 |
| `workspace.py` 23178 | a previous state a restart leaves "for safe cleanup" is protected by cleanup for ever (its generation is not the status's) | README 2027 |
| `workspace.py` 24307 | an interrupted promotion cannot be retried once somebody else registered its name | ARCHITECTURE 1455 |
| `workspace.py` 22355 | a name with unfinished temporary state starts again after a crash between the record and the removal | README 2025 |
| `cleanup.py` 2318 | a target skipped as busy overwrites, in the retry, the intent of a half removed one | README 1628 |
| `cleanup.py` 1927 | a receipt whose targets completed in another order is refused as invalid | README 1632 |
| `cleanup.py` 2128 | a completed target whose lease is busy stays skipped in the receipt | README 1635 |
| `cleanup.py` 2237 | absence of a prunable worktree's path is taken for the removal of its record | ARCHITECTURE 677 |
| `cleanup.py` 2208 | with a removing intent whatever stands at the path is removed, without revalidation | ARCHITECTURE 676 |
| `cleanup.py` 7849 | a profile build proved without its lock is removed though used or remade meanwhile | README 1628 |
| `cleanup.py` 2253 | a target another request removed makes every retry fail | README 1630 |
| `cleanup.py` 1826 | a match acknowledged between two pages makes every later maintenance command fail | ARCHITECTURE 682 |
| `migration.py` 464 | the rerun inspects first, and refuses what the interrupted run has made | `migration.py` 2775 |
| `migration.py` 2411 | a rollback that cannot restore one source restores the profiles, which then select nothing | `migration.py` 556 |
| `migration.py` 2664 | a profile deleted meanwhile makes the pending journal invalid | `migration.py` 2775 |
| `migration.py` 2274, 2482 | the rollback of a failing application removes worktrees with what users put there, and a recovery with what they put there since it looked | ARCHITECTURE 1049 |
| `migration.py` 549 | under the lock running topologies are not looked at again before the rollback | ARCHITECTURE 1045 |
| `migration.py` 2226, `content_migration.py` 1068 | a directory that cannot be synchronised after the exchange leaves a rewritten profile the rollback skips | `migration.py` 1795, ARCHITECTURE 1073 |
| `content_migration.py` 1425 | a restore that dies half way can never be continued | README 1054 |
| `content_migration.py` 1058 | a worktree that is no longer clean after its proof is moved | README 1049 |
| `content_migration.py` 1064 | an edit between comparison and replacement is overwritten | `tests/test_content_migration.py` 1058 |
| `delivery_ledger.py` 16882, 14721, 10671 | receipts written in place, decoded by every inventory | ARCHITECTURE 652, 698 |
| `delivery_ledger.py` 12976 | a ledger created again under an archived name is compared as historical | ARCHITECTURE 608 |
| `delivery_ledger.py` 16816, 14719, 9339 | a pending update whose evidence moved, an archive stage whose archive was reclaimed, and a pull request somebody commented on are refused for ever, and so is everything else on the root | README 1359, ARCHITECTURE 655 |
| `scopes.py` 1591 | a row is marked only after later checks; a failure between leaves its worktree out of the rollback | ARCHITECTURE 514 |
| `scopes.py` 1805 | a branch git refuses to delete, for a commit since the look or a primary that is behind, is reported preserved though its worktree is gone | README 1293 |
| `workspace.py` 6862 | a creation from a remote start point that was fetched meanwhile is another reservation | README 1299 |
| `scopes.py` 2271, 3032 | a release that began keeps its journal's plan: later builds are left, and a topology that ran again blocks it | README 1326, 1337 |
| `scopes.py` 3080 | the resumed release removes whatever stands at the path of the build | ARCHITECTURE 547 |
| `scopes.py` 3015 | applying a complete release writes its journal as applying | ARCHITECTURE 554 |
| `workspace.py` 6012 | generations are pinned only after all are made; cleanup may remove one between | README 1554 |
| `workspace.py` 5826, 14384, `model.py` 1705 | tombstone names are stable and must be free: a kill before the last `rmdir` blocks later removals or is classified as something else | README 1556, 858 |
| `workspace.py` 10450 | checkouts are observed once per operation, so the checks after generation compare a value with itself | README 1716 |
| `workspace.py` 1179 | a prepared exchange journal without its container is refused | `tests/test_workspace.py` 13880 |
| `workspace.py` 1299 | the previous region maps are lost by a kill before the exchange | ARCHITECTURE 1280 |
| `workspace.py` 11526 | an exchange killed before its journal went is reused, then undone | ARCHITECTURE 1281 |
| `workspace.py` 23065 | an interrupt after `Popen` rolls back under a running supervisor | ARCHITECTURE 1542 |
| `workspace.py` 9050 | a development build of clean primaries warms another root than the launch uses | README 822 |
| `workspace.py` 12785, 11928 | a restart after sealing, a commit or the first edit fails after the controlled stop | README 839 |
| `workspace.py` 11925 | a commit empties the binary tree | ARCHITECTURE 1137 |
| `workspace.py` 11945 | tools replaced during a configure are recorded as those it used | ARCHITECTURE 1252 |
| `workspace.py` 10750 | an edit undone after a configure leaves a graph made from it | ARCHITECTURE 1144 |

(README and ARCHITECTURE are the repository's `README.md` and
`docs/ARCHITECTURE.md`.)

Limits the models made visible, none of them against a documented promise:

- The profile user's collect loop (`workspace.py` 5945-5962) neither registers
  nor backs off: it can be overtaken for ever, and it can fall into step with the
  all-or-none probing of a synchronisation. Liveness is therefore checked of the
  commands that change checkouts.
- `reopen` checks no capacity. Where capacity counts open handles this is right
  (`HandlesWithinCapacity`); where it counts active workers only, reopened
  workers are not counted against it.
- Two nodes on one lane may both be blocked with an attempt after a drift; until
  one is retried neither may reopen.
- An accepted state may outlive the drift of an undeclared native child; what
  depends on it asks `acceptance_valid` again (`ConditionMet`), so nothing is
  built on it. `AcceptedIsCurrent` speaks of declared dependencies.
- The publisher of a runtime takes the guard without waiting, and the error of a busy
  guard is not one it answers with: a consumer that comes while another command has
  the ledger root ends the handoff, not only itself (`docs/RUNTIME_HANDOFF.md` 74
  says such a consumer is refused).
- A migration that was killed before its report was replaced stays refused while the
  report is edited, and so does a head correction while the worktree has moved on.
- An intent claimed by a coordinator that died stays in flight for good, and a
  planned closure a human anticipates can be neither applied nor cancelled.

## 6. What is not modelled

API clients and paging of GitHub, the coordinator's proof of its container, MCP
servers, manifest and command line, path and platform wrappers,
packaging, supply chain and sound, scenarios, CI sharding and guidance, the
operational scripts. They compute a function of their input, read the outside
world, or are a single locked step. What each modelled component leaves out is
said in section 2 and in its "note" in `PROJECT.json`. Windows is modelled
nowhere: its locks are not inherited and its paths are registered differently.

Left to prove: the invariants of `SourceGeneration` and `PreparedBuild` (what is
read is whole) and of `LeafLedger`. What a cleanup's fresh approvals append to its
journal is listed recursively, which the provers cannot follow.

## 7. Running

    tlc -workers 2 -config LayoutLockSafety.cfg MCLayoutLock
    tlapm LayoutLockProofs.tla

`PROJECT.json` names the module and configuration of every run.
