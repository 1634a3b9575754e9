---------------------------- MODULE TemporaryState ----------------------------
(***************************************************************************)
(* The state directories of topologies: creation, the copy a restart makes,*)
(* removal after a clean down, promotion under a name, and what cleanup    *)
(* may finish; workspace.py and the temporary-states scope of cleanup.py.  *)
(*                                                                         *)
(* Every operation on a topology holds its operation lock, so each topology*)
(* has at most one command; a command may die between any two of its       *)
(* durable steps, and nothing but the disk is left of it.  A generation is *)
(* one launch; its state is a directory, a lease file beside it and what   *)
(* status.json of the topology says of both.                               *)
(***************************************************************************)
EXTENDS Naturals, FiniteSets

CONSTANTS Topologies,
          Names,      \* names a state can be promoted under
          MaxGen,     \* bound on the generations
          Faults      \* what may go wrong: a command dies, a topology stops uncleanly,
                      \* a tree is altered, a path is swapped under a promotion

\* What an instance assumes of the constants.
Assumptions ==
  /\ Faults \subseteq {"crash", "unclean", "damage", "swap"}
  /\ MaxGen \in Nat

Gens == 1..MaxGen
NoGen == 0
Elsewhere == MaxGen + 1          \* a registered directory that is no topology's
CONSTANT NoName

VARIABLES op,        \* op[t]: the command that holds the operation lock of t
          pol,       \* pol[t]: the state policy in status.json of t
          srv,       \* srv[t]: the generation last handed to a supervisor, and how it fares
          dir,       \* dir[g]: the directory of g
          lock,      \* lock[g]: its lease file
          prov,      \* prov[g]: the name in its promotion record
          sound,     \* sound[g]: the integrity check of its tree would pass
          home,      \* home[g]: the topology of g
          from,      \* from[g]: the generation g was copied from
          registry   \* registry[n]: the directory states.json has for n

vars == <<op, pol, srv, dir, lock, prov, sound, home, from, registry>>
tree == <<dir, lock, prov, sound, home, from>>

NoPolicy == [g |-> NoGen, life |-> "none", name |-> NoName]
Policy(g, life, n) == [g |-> g, life |-> life, name |-> n]
Idle == [at |-> "idle", g |-> NoGen, old |-> NoGen, name |-> NoName, added |-> FALSE]

Init ==
  /\ op = [t \in Topologies |-> Idle]
  /\ pol = [t \in Topologies |-> NoPolicy]
  /\ srv = [t \in Topologies |-> [g |-> NoGen, at |-> "none"]]
  /\ dir = [g \in Gens |-> "absent"]
  /\ lock = [g \in Gens |-> "none"]
  /\ prov = [g \in Gens |-> NoName]
  /\ sound = [g \in Gens |-> TRUE]
  /\ home = [g \in Gens |-> CHOOSE t \in Topologies : TRUE]
  /\ from = [g \in Gens |-> NoGen]
  /\ registry = [n \in Names |-> NoGen]

-----------------------------------------------------------------------------
(* The lease: held by a server from the handoff to its end, and by the      *)
(* command that works on the state                                          *)

Alive(t) == srv[t].at \in {"starting", "up"}
Served(g) == \E t \in Topologies : Alive(t) /\ srv[t].g = g
Held(g) == \E t \in Topologies :
  op[t].g = g /\ op[t].at \in {"held", "named", "retired", "doom", "commit",
                               "opened", "pledged", "recorded", "registered", "finished"}
Free(g) == ~Served(g) /\ ~Held(g)

At(t, station) == op[t].at = station
Go(t, station) == op' = [op EXCEPT ![t].at = station]
Done(t) == op' = [op EXCEPT ![t] = Idle]
Exit(t) == Done(t) /\ UNCHANGED <<pol, srv, tree, registry>>

Temporary(t) == pol[t].g # NoGen /\ pol[t].life # "persistent"
Fresh == {g \in Gens : dir[g] = "absent" /\ lock[g] = "none" /\ from[g] = NoGen
                       /\ \A t \in Topologies : /\ op[t].g # g /\ pol[t].g # g /\ srv[t].g # g
                                                /\ op[t].old # g}
NextGen == CHOOSE g \in Fresh : \A h \in Fresh : g <= h

-----------------------------------------------------------------------------
(* up: create the state, or take a promoted one *)

\* The operation lock; a topology that runs, or whose temporary state was
\* neither removed nor promoted, is refused.
MayStart(t) ==
  /\ At(t, "idle") /\ ~Alive(t)
  /\ pol[t].life \in {"none", "removed", "promoted", "persistent"}

UpOpen(t) ==
  /\ MayStart(t)
  /\ Fresh # {}
  /\ op' = [op EXCEPT ![t] = [Idle EXCEPT !.at = "creating", !.g = NextGen]]
  /\ home' = [home EXCEPT ![NextGen] = t]
  /\ UNCHANGED <<pol, srv, dir, lock, prov, sound, from, registry>>

\* A state by its registered name: its provenance must name it, its lease must be free.
UpNamed(t, n) ==
  /\ MayStart(t)
  /\ registry[n] \in Gens
  /\ Free(registry[n])
  /\ dir[registry[n]] = "state" /\ prov[registry[n]] = n
  /\ op' = [op EXCEPT ![t] = [Idle EXCEPT !.at = "named", !.g = registry[n], !.name = n]]
  /\ UNCHANGED <<pol, srv, tree, registry>>

\* Copy the template into a private staging directory with its records.
Create(t) ==
  /\ At(t, "creating") /\ op[t].old = NoGen
  /\ dir' = [dir EXCEPT ![op[t].g] = "staged"]
  /\ Go(t, "staged")
  /\ UNCHANGED <<pol, srv, lock, prov, sound, home, from, registry>>

\* Under the lease of the previous generation, and only when its tree is sound
\* and does not change while it is copied.
Clone(t) ==
  LET old == op[t].old IN
  /\ At(t, "creating") /\ old # NoGen
  /\ Free(old) /\ lock[old] = "file" /\ dir[old] = "state" /\ sound[old]
  /\ dir' = [dir EXCEPT ![op[t].g] = "staged"]
  /\ from' = [from EXCEPT ![op[t].g] = old]
  /\ Go(t, "staged")
  /\ UNCHANGED <<pol, srv, lock, prov, sound, home, registry>>

\* Everything is validated once more; one rename publishes it.
Publish(t) ==
  /\ At(t, "staged")
  /\ dir' = [dir EXCEPT ![op[t].g] = "state"]
  /\ Go(t, "published")
  /\ UNCHANGED <<pol, srv, lock, prov, sound, home, from, registry>>

\* The lease of the new state; from here a failure rolls the state back.
TakeLease(t) ==
  /\ At(t, "published")
  /\ lock' = [lock EXCEPT ![op[t].g] = "file"]
  /\ Go(t, "held")
  /\ UNCHANGED <<pol, srv, dir, prov, sound, home, from, registry>>

\* The build and the runtime generation exist: remove the previous status.
Retire(t) ==
  /\ op[t].at \in {"held", "named"}
  /\ pol' = [pol EXCEPT ![t] = NoPolicy]
  /\ Go(t, "retired")
  /\ UNCHANGED <<srv, tree, registry>>

\* The supervisor owns the state now: the rollback is given up.
HandOff(t) ==
  /\ At(t, "retired")
  /\ srv' = [srv EXCEPT ![t] = [g |-> op[t].g, at |-> "starting"]]
  /\ Go(t, "waiting")
  /\ UNCHANGED <<pol, tree, registry>>

\* A failure before publication removes the staging directory.
FailEarly(t) ==
  /\ op[t].at \in {"creating", "staged"}
  /\ dir' = [dir EXCEPT ![op[t].g] = "absent"]
  /\ from' = [from EXCEPT ![op[t].g] = NoGen]
  /\ Done(t)
  /\ UNCHANGED <<pol, srv, lock, prov, sound, home, registry>>

\* A failure after it: the lease is taken (or held) and the state rolled back,
\* when its tree still is what was created.
FailLate(t) ==
  /\ op[t].at \in {"published", "held", "retired"} /\ op[t].name = NoName
  /\ IF sound[op[t].g]
     THEN /\ lock' = [lock EXCEPT ![op[t].g] = "file"]
          /\ dir' = [dir EXCEPT ![op[t].g] = "doomed"]
          /\ Go(t, "doom")
     ELSE UNCHANGED <<lock, dir>> /\ Go(t, "restore")
  /\ UNCHANGED <<pol, srv, prov, sound, home, from, registry>>

FailNamed(t) ==
  /\ op[t].at \in {"named", "retired"} /\ op[t].name # NoName
  /\ Exit(t)

\* Remove the tree, move the lease aside, unlink it.
RollBack(t) ==
  /\ At(t, "doom")
  /\ \/ /\ dir[op[t].g] = "doomed"
        /\ dir' = [dir EXCEPT ![op[t].g] = "absent"]
        /\ UNCHANGED <<lock, op>>
     \/ /\ dir[op[t].g] = "absent" /\ lock[op[t].g] = "file"
        /\ lock' = [lock EXCEPT ![op[t].g] = "tomb"]
        /\ UNCHANGED <<dir, op>>
     \/ /\ lock[op[t].g] = "tomb"
        /\ lock' = [lock EXCEPT ![op[t].g] = "none"]
        /\ Go(t, "restore")
        /\ UNCHANGED dir
  /\ UNCHANGED <<pol, srv, prov, sound, home, from, registry>>

\* A restart that failed before the handoff restores the status it retired.
Restore(t) ==
  /\ At(t, "restore")
  /\ pol' = IF op[t].old = NoGen THEN pol
            ELSE [pol EXCEPT ![t] = Policy(op[t].old, "disposable", NoName)]
  /\ Done(t)
  /\ UNCHANGED <<srv, tree, registry>>

-----------------------------------------------------------------------------
(* The supervisor, and the wait for it *)

\* status.json of the new generation, with the policy the command prepared.
Record(t) ==
  /\ srv[t].at = "starting"
  /\ srv' = [srv EXCEPT ![t].at = "up"]
  /\ pol' = [pol EXCEPT ![t] = IF prov[srv[t].g] = NoName
                               THEN Policy(srv[t].g, "disposable", NoName)
                               ELSE Policy(srv[t].g, "persistent", prov[srv[t].g])]
  /\ UNCHANGED <<op, tree, registry>>

\* It ends without having been asked, or with a service that failed.
DieUnclean(t) ==
  /\ "unclean" \in Faults
  /\ Alive(t)
  /\ srv' = [srv EXCEPT ![t].at = "unclean"]
  /\ UNCHANGED <<op, pol, tree, registry>>

\* Mutant: the previous state is removed as soon as the supervisor runs.
ReadyWhenStarted(t) ==
  /\ At(t, "waiting") /\ Alive(t)
  /\ IF op[t].old = NoGen THEN Done(t) ELSE Go(t, "superseding")
  /\ UNCHANGED <<pol, srv, tree, registry>>

\* The new generation is ready: a restart goes on to remove the previous state.
Ready(t) ==
  /\ At(t, "waiting")
  /\ srv[t] = [g |-> op[t].g, at |-> "up"]
  /\ IF op[t].old = NoGen THEN Done(t) ELSE Go(t, "superseding")
  /\ UNCHANGED <<pol, srv, tree, registry>>

NotReady(t) == At(t, "waiting") /\ Exit(t)

\* Under the lease of the previous state, when its tree is sound; otherwise, and
\* when an error ends it, a warning, and it stays.
Supersede(t) ==
  LET old == op[t].old IN
  /\ At(t, "superseding")
  /\ \/ /\ dir[old] = "state" /\ lock[old] = "file" /\ Free(old) /\ sound[old]
        /\ dir' = [dir EXCEPT ![old] = "doomed"]
        /\ UNCHANGED <<lock, op>>
     \/ /\ dir[old] = "doomed"
        /\ dir' = [dir EXCEPT ![old] = "absent"]
        /\ UNCHANGED <<lock, op>>
     \/ /\ dir[old] = "absent" /\ lock[old] = "file"
        /\ lock' = [lock EXCEPT ![old] = "tomb"]
        /\ UNCHANGED <<dir, op>>
     \/ /\ lock[old] = "tomb"
        /\ lock' = [lock EXCEPT ![old] = "none"]
        /\ Done(t)
        /\ UNCHANGED dir
     \/ /\ dir[old] = "state"
        /\ Done(t)
        /\ UNCHANGED <<dir, lock>>
  /\ UNCHANGED <<pol, srv, prov, sound, home, from, registry>>

-----------------------------------------------------------------------------
(* down and restart: stop, then decide *)

DownOpen(t) ==
  /\ At(t, "idle") /\ pol[t].g # NoGen
  /\ op' = [op EXCEPT ![t] = [Idle EXCEPT !.at = "stopping", !.g = pol[t].g]]
  /\ UNCHANGED <<pol, srv, tree, registry>>

\* Only a running topology with a disposable temporary state.
RestartOpen(t) ==
  /\ At(t, "idle") /\ srv[t].at = "up"
  /\ pol[t].life = "disposable"
  /\ op' = [op EXCEPT ![t] = [Idle EXCEPT !.at = "restarting", !.g = pol[t].g]]
  /\ UNCHANGED <<pol, srv, tree, registry>>

Stop(t) ==
  /\ op[t].at \in {"stopping", "restarting"} /\ srv[t].at = "up"
  /\ \E end \in {"clean"} \cup ({"unclean"} \cap Faults) : srv' = [srv EXCEPT ![t].at = end]
  /\ UNCHANGED <<op, pol, tree, registry>>

\* The stop must have been clean; a new generation then copies the state.
Restarted(t) ==
  /\ At(t, "restarting") /\ ~Alive(t)
  /\ IF srv[t].at = "clean" /\ Fresh # {}
     THEN /\ op' = [op EXCEPT ![t] = [Idle EXCEPT !.at = "creating", !.g = NextGen, !.old = op[t].g]]
          /\ home' = [home EXCEPT ![NextGen] = t]
     ELSE Done(t) /\ UNCHANGED home
  /\ UNCHANGED <<pol, srv, dir, lock, prov, sound, from, registry>>

Clean(t) == srv[t] = [g |-> pol[t].g, at |-> "clean"]
Stopped(t) == At(t, "stopping") /\ ~Alive(t)

\* down ends here for a persistent, retained or promoted state, and for one that
\* did not stop cleanly unless its removal had begun.
Disposes(t) ==
  /\ Temporary(t)
  /\ pol[t].life \in {"disposable", "removal-pending", "removed"}
  /\ Clean(t) \/ pol[t].life = "removal-pending"

DownKeeps(t) == Stopped(t) /\ ~Disposes(t) /\ Exit(t)

\* --retain-state, or a tree that is not sound: retained; too late once removal began.
DownRetains(t) ==
  /\ Stopped(t) /\ Disposes(t)
  /\ pol[t].life = "disposable" /\ lock[op[t].g] = "file" /\ ~Served(op[t].g)
  /\ pol' = [pol EXCEPT ![t].life = "retained"]
  /\ Done(t)
  /\ UNCHANGED <<srv, tree, registry>>

\* Removed, and the lease gone or moved aside: unlink what was moved.
DownFinishesLease(t) ==
  /\ Stopped(t) /\ Disposes(t)
  /\ pol[t].life = "removed" /\ lock[op[t].g] # "file"
  /\ lock' = [lock EXCEPT ![op[t].g] = "none"]
  /\ Done(t)
  /\ UNCHANGED <<pol, srv, dir, prov, sound, home, from, registry>>

\* The lease is taken without waiting; a disposable tree must be sound.
DownRemoves(t) ==
  /\ Stopped(t) /\ Disposes(t)
  /\ lock[op[t].g] = "file" /\ Free(op[t].g)
  /\ pol[t].life = "disposable" => sound[op[t].g]
  /\ Go(t, "commit")
  /\ UNCHANGED <<pol, srv, tree, registry>>

-----------------------------------------------------------------------------
(* The removal itself, in durable steps that a later down or cleanup goes on with *)

Committing(t, life) == At(t, "commit") /\ pol[t].life = life

CommitPending(t) ==
  /\ Committing(t, "disposable") /\ sound[op[t].g]
  /\ pol' = [pol EXCEPT ![t].life = "removal-pending"]
  /\ UNCHANGED <<op, srv, tree, registry>>

\* Rename it to the tombstone of its generation.
CommitAside(t) ==
  /\ Committing(t, "removal-pending")
  /\ dir[op[t].g] = "state" /\ sound[op[t].g]
  /\ dir' = [dir EXCEPT ![op[t].g] = "aside"]
  /\ UNCHANGED <<op, pol, srv, lock, prov, sound, home, from, registry>>

\* Remove its contents one by one and keep the root.
CommitEmpty(t) ==
  /\ Committing(t, "removal-pending")
  /\ \/ dir[op[t].g] = "aside" /\ dir' = [dir EXCEPT ![op[t].g] = "partial"]
     \/ dir[op[t].g] = "partial" /\ dir' = [dir EXCEPT ![op[t].g] = "emptied"]
  /\ UNCHANGED <<op, pol, srv, lock, prov, sound, home, from, registry>>

\* The durable decision that it is removed.
CommitRemoved(t) ==
  /\ Committing(t, "removal-pending")
  /\ dir[op[t].g] = "emptied"
  /\ pol' = [pol EXCEPT ![t].life = "removed"]
  /\ UNCHANGED <<op, srv, tree, registry>>

CommitRemoveRoot(t) ==
  /\ Committing(t, "removed") /\ dir[op[t].g] = "emptied"
  /\ dir' = [dir EXCEPT ![op[t].g] = "absent"]
  /\ UNCHANGED <<op, pol, srv, lock, prov, sound, home, from, registry>>

CommitMoveLease(t) ==
  /\ Committing(t, "removed") /\ dir[op[t].g] = "absent" /\ lock[op[t].g] = "file"
  /\ lock' = [lock EXCEPT ![op[t].g] = "tomb"]
  /\ UNCHANGED <<op, pol, srv, dir, prov, sound, home, from, registry>>

CommitUnlink(t) ==
  /\ Committing(t, "removed") /\ lock[op[t].g] = "tomb"
  /\ lock' = [lock EXCEPT ![op[t].g] = "none"]
  /\ Done(t)
  /\ UNCHANGED <<pol, srv, dir, prov, sound, home, from, registry>>

CommitRefused(t) ==
  /\ At(t, "commit")
  /\ dir[op[t].g] = "state" /\ ~sound[op[t].g]
  /\ Exit(t)

-----------------------------------------------------------------------------
(* state promote, and state add *)

RegistryLocked == \E t \in Topologies : op[t].at \in {"pledged", "recorded", "registered", "finished", "undo"}

\* Stopped, retained or on its way to this very name; the lease and the tree checked.
PromoteOpen(t, n) ==
  LET g == pol[t].g IN
  /\ At(t, "idle") /\ ~Alive(t)
  /\ pol[t].life = "retained" \/ (pol[t].life \in {"promotion-pending", "promoted"} /\ pol[t].name = n)
  /\ Free(g) /\ lock[g] = "file" /\ dir[g] = "state" /\ sound[g]
  /\ op' = [op EXCEPT ![t] = [Idle EXCEPT !.at = "opened", !.g = g, !.name = n]]
  /\ UNCHANGED <<pol, srv, tree, registry>>

\* In the registry's lock: the name is unused or this state's, the state has no other name.
PromotePledge(t) ==
  LET g == op[t].g n == op[t].name IN
  /\ At(t, "opened") /\ ~RegistryLocked
  /\ registry[n] \in {NoGen, g}
  /\ \A m \in Names \ {n} : registry[m] # g
  /\ pol' = [pol EXCEPT ![t] = Policy(g, "promotion-pending", n)]
  /\ op' = [op EXCEPT ![t].at = "pledged", ![t].added = registry[n] = NoGen]
  /\ UNCHANGED <<srv, tree, registry>>

PromoteRefused(t) ==
  LET g == op[t].g n == op[t].name IN
  /\ At(t, "opened") /\ ~RegistryLocked
  /\ registry[n] \notin {NoGen, g} \/ \E m \in Names \ {n} : registry[m] = g
  /\ Exit(t)

\* Mutant: the registry is written before the promotion record.
PromoteRecordLater(t) ==
  /\ At(t, "pledged")
  /\ Go(t, "recorded")
  /\ UNCHANGED <<pol, srv, tree, registry>>

\* The promotion record inside the state, or the one that is there already.
PromoteRecord(t) ==
  /\ At(t, "pledged")
  /\ prov[op[t].g] \in {NoName, op[t].name}
  /\ prov' = [prov EXCEPT ![op[t].g] = op[t].name]
  /\ Go(t, "recorded")
  /\ UNCHANGED <<pol, srv, dir, lock, sound, home, from, registry>>

PromoteRegister(t) ==
  /\ At(t, "recorded")
  /\ registry' = [registry EXCEPT ![op[t].name] = op[t].g]
  /\ Go(t, "registered")
  /\ UNCHANGED <<pol, srv, tree>>

PromoteFinish(t) ==
  /\ At(t, "registered")
  /\ pol' = [pol EXCEPT ![t].life = "promoted"]
  /\ Go(t, "finished")
  /\ UNCHANGED <<srv, tree, registry>>

PromoteReturn(t) == At(t, "finished") /\ Exit(t)

\* The path no longer shows the directory that was checked: the status goes back
\* to pending first, then the entry that was added goes.
PromoteUndo(t) ==
  /\ "swap" \in Faults
  /\ op[t].at \in {"registered", "finished"}
  /\ pol' = [pol EXCEPT ![t].life = "promotion-pending"]
  /\ Go(t, "undo")
  /\ UNCHANGED <<srv, tree, registry>>

PromoteUndone(t) ==
  /\ At(t, "undo")
  /\ registry' = IF op[t].added THEN [registry EXCEPT ![op[t].name] = NoGen] ELSE registry
  /\ Done(t)
  /\ UNCHANGED <<pol, srv, tree>>

\* A directory that is no temporary state, under a name nobody has.
StateAdd(n) ==
  /\ ~RegistryLocked
  /\ registry[n] = NoGen
  /\ registry' = [registry EXCEPT ![n] = Elsewhere]
  /\ UNCHANGED <<op, pol, srv, tree>>

-----------------------------------------------------------------------------
(* cleanup --scope temporary-states *)

\* What the inventory finds for the generation the status names: the state, or
\* what is left of one whose removal began, under the tombstone's name.
Abandoned(t) ==
  LET g == pol[t].g IN
  \/ pol[t].life = "disposable" /\ dir[g] = "state" /\ sound[g]
  \/ pol[t].life \in {"removal-pending", "removed"} /\ dir[g] = "aside" /\ sound[g]
  \/ pol[t].life \in {"removal-pending", "removed"} /\ dir[g] = "emptied"

Registered(g) == \E n \in Names : registry[n] = g

Eligible(g) ==
  /\ pol[home[g]].g = g /\ Temporary(home[g]) /\ ~Alive(home[g])
  /\ Abandoned(home[g]) /\ ~Registered(g)
  /\ lock[g] = "file" /\ Free(g)

\* Under the operation lock and the lease, everything is asked again.
CleanupState(t) ==
  /\ At(t, "idle")
  /\ \E g \in Gens : g = pol[t].g /\ home[g] = t /\ Eligible(g)
  /\ op' = [op EXCEPT ![t] = [Idle EXCEPT !.at = "commit", !.g = pol[t].g]]
  /\ UNCHANGED <<pol, srv, tree, registry>>

\* Only the lease of a removed state is left.
LeaseOnly(t) ==
  /\ pol[t].life = "removed" /\ ~Alive(t)
  /\ dir[pol[t].g] = "absent" /\ lock[pol[t].g] = "file" /\ Free(pol[t].g)

\* It is moved and unlinked.
CleanupLease(t) ==
  /\ At(t, "idle") /\ LeaseOnly(t)
  /\ op' = [op EXCEPT ![t] = [Idle EXCEPT !.at = "commit", !.g = pol[t].g]]
  /\ UNCHANGED <<pol, srv, tree, registry>>

\* A lease without a state, of a generation no status names.
Orphan(g) ==
  /\ dir[g] \notin {"state", "aside", "partial", "emptied"}
  /\ pol[home[g]].g # g
  /\ At(home[g], "idle")

CleanupOrphanLease(g) ==
  /\ Orphan(g) /\ lock[g] = "file" /\ Free(g)
  /\ lock' = [lock EXCEPT ![g] = "tomb"]
  /\ UNCHANGED <<op, pol, srv, dir, prov, sound, home, from, registry>>

CleanupOrphanTombstone(g) ==
  /\ Orphan(g) /\ lock[g] = "tomb"
  /\ lock' = [lock EXCEPT ![g] = "none"]
  /\ UNCHANGED <<op, pol, srv, dir, prov, sound, home, from, registry>>

-----------------------------------------------------------------------------
(* What may go wrong *)

Crash(t) ==
  /\ "crash" \in Faults
  /\ op[t].at # "idle"
  /\ Exit(t)

Damage(g) ==
  /\ "damage" \in Faults
  /\ dir[g] \in {"state", "aside"} /\ sound[g]
  /\ sound' = [sound EXCEPT ![g] = FALSE]
  /\ UNCHANGED <<op, pol, srv, dir, lock, prov, home, from, registry>>

Commit(t) ==
  \/ CommitPending(t) \/ CommitAside(t) \/ CommitEmpty(t) \/ CommitRemoved(t)
  \/ CommitRemoveRoot(t) \/ CommitMoveLease(t) \/ CommitUnlink(t) \/ CommitRefused(t)
Down(t) ==
  \/ Stop(t) \/ DownKeeps(t) \/ DownRetains(t) \/ DownFinishesLease(t)
  \/ DownRemoves(t)
Start(t) ==
  \/ Create(t) \/ Clone(t) \/ Publish(t) \/ TakeLease(t) \/ Retire(t) \/ HandOff(t)
  \/ FailEarly(t) \/ FailLate(t) \/ FailNamed(t) \/ RollBack(t) \/ Restore(t)
  \/ Ready(t) \/ NotReady(t) \/ Supersede(t)
Promote(t) ==
  \/ PromotePledge(t) \/ PromoteRefused(t) \/ PromoteRecord(t) \/ PromoteRegister(t)
  \/ PromoteFinish(t) \/ PromoteReturn(t) \/ PromoteUndo(t) \/ PromoteUndone(t)

Next ==
  \/ \E t \in Topologies :
       \/ UpOpen(t) \/ DownOpen(t) \/ RestartOpen(t) \/ Restarted(t)
       \/ \E n \in Names : UpNamed(t, n) \/ PromoteOpen(t, n)
       \/ Start(t) \/ Record(t) \/ DieUnclean(t) \/ Down(t) \/ Commit(t) \/ Promote(t)
       \/ CleanupState(t) \/ CleanupLease(t) \/ Crash(t)
  \/ \E n \in Names : StateAdd(n)
  \/ \E g \in Gens : CleanupOrphanLease(g) \/ CleanupOrphanTombstone(g) \/ Damage(g)

Spec == Init /\ [][Next]_vars

\* A command that is not killed goes on; one that is tried again and again gets
\* each of its durable steps done; and somebody tries down again.
Fairness ==
  \A t \in Topologies :
    /\ WF_vars(Down(t) \/ Start(t) \/ Promote(t) \/ Restarted(t) \/ Record(t))
    /\ WF_vars(DownOpen(t))
    /\ SF_vars(DownRemoves(t)) /\ SF_vars(CommitAside(t))
    /\ SF_vars(CommitEmpty(t)) /\ SF_vars(CommitRemoved(t))

LiveSpec == Spec /\ Fairness

-----------------------------------------------------------------------------
(* Properties *)

\* Every record has its shape; a policy carries a name exactly when it is on its
\* way to the registry, or came from there.
TypeOK ==
  /\ \A t \in Topologies :
       /\ op[t].g \in Gens \cup {NoGen} /\ op[t].old \in Gens \cup {NoGen}
       /\ op[t].name \in Names \cup {NoName} /\ op[t].added \in BOOLEAN
       /\ pol[t].g \in Gens \cup {NoGen}
       /\ pol[t].life \in {"none", "disposable", "retained", "removal-pending", "removed",
                           "promotion-pending", "promoted", "persistent"}
       /\ pol[t].life \in {"promotion-pending", "promoted", "persistent"} <=> pol[t].name \in Names
       /\ srv[t].at \in {"none", "starting", "up", "clean", "unclean"}
  /\ dir \in [Gens -> {"absent", "staged", "state", "aside", "partial", "emptied", "doomed"}]
  /\ lock \in [Gens -> {"none", "file", "tomb"}]
  /\ registry \in [Names -> Gens \cup {NoGen, Elsewhere}]

\* Whatever removes a state leaves alone the one a server runs on, and its lease:
\* down, a restart, cleanup and the rollback of another command.
ServedIsIntact ==
  \A t \in Topologies : Alive(t) => dir[srv[t].g] = "state" /\ lock[srv[t].g] = "file"

\* A registered name leads to a whole state that records this very name, and
\* has its lease, wherever a promotion was interrupted.
RegisteredIsWhole ==
  \A n \in Names : registry[n] \in Gens =>
    dir[registry[n]] = "state" /\ prov[registry[n]] = n /\ lock[registry[n]] = "file"

\* A status that says promoted is backed by the registry: topology_status
\* refuses the record otherwise, and with it every later operation.
PromotedIsRegistered ==
  \A t \in Topologies : pol[t].life = "promoted" => registry[pol[t].name] = pol[t].g

\* The lease is the last thing of a state to go: as long as the status names a
\* generation with something left on disk, its lease can be taken.
LeaseIsLast ==
  \A t \in Topologies :
    pol[t].g # NoGen /\ dir[pol[t].g] # "absent" => lock[pol[t].g] = "file"

\* A state a server ran on leaves its place only when the durable status says
\* that its removal was decided, or when the copy of it is the one that runs.
KeptUntilDecided ==
  [][\A g \in Gens : dir[g] = "state" /\ dir'[g] # "state" =>
       \/ pol[home[g]].g = g /\ pol[home[g]].life = "removal-pending"
       \/ op[home[g]].g = g /\ srv[home[g]].g # g
       \/ \E h \in Gens : from[h] = g /\ dir[h] = "state" /\ pol[home[g]].g = h]_vars
=============================================================================
