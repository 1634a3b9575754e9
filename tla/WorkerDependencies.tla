------------------------ MODULE WorkerDependencies ------------------------
(***************************************************************************)
(* The dependency installations builds of the metaserver Worker share      *)
(* (src/atrinik_workspace/workspace.py: _worker_dependencies, _worker_view *)
(* and their helpers; src/atrinik_workspace/cleanup.py for their removal). *)
(* An installation is keyed by everything npm reads.  A build that finds   *)
(* none installs into a staging directory whose name is stable, seals it   *)
(* and exchanges it with the entry of the key, under the lock of the key;  *)
(* it keeps the lock until its profile has a copy.  Cleanup removes        *)
(* entries and transactions nobody used for long.                          *)
(*                                                                         *)
(* The inputs are one version of the source and one npm configuration.     *)
(* Each builder is a profile, whose build root has a lock of its own.      *)
(* Builders may be killed between any two steps.                           *)
(***************************************************************************)
EXTENDS Integers

CONSTANTS Builders,   \* the profiles that build the Worker
          Sources,    \* the versions of its source
          Configs,    \* the npm configurations; 0 is one with an external file
          MaxEdit,    \* bound on the edits of the source
          MaxConfig,  \* bound on the changes of the configuration
          MaxFail,    \* bound on the installs and checks that fail
          MaxSpoil,   \* bound on the trees something else damages
          MaxKill,    \* bound on the builders killed
          MaxClean    \* bound on the removals cleanup begins

\* What an instance assumes of the constants.
Assumptions ==
  /\ Sources \subseteq Nat \ {0} /\ Configs \subseteq Nat
  /\ {MaxEdit, MaxConfig, MaxFail, MaxSpoil, MaxKill, MaxClean} \subseteq Nat

VARIABLES inputs,   \* what npm would read now
          entry,    \* the installation of each key
          staging,  \* the staging directory of each key
          tomb,     \* the keys whose staging left a tombstone
          backups,  \* the other directories in .transactions, each with its key
          holder,   \* who holds the lock of each key
          work,     \* where each builder is and what it knows
          view,     \* the Worker view of each profile
          cleaner,  \* where cleanup is and what it is about to remove
          spent     \* how much of each bound is used

vars == <<inputs, entry, staging, tomb, backups, holder, work, view, cleaner, spent>>
disk == <<entry, staging, tomb, backups>>

Keys == [source : Sources, config : Configs]
Known == {key \in Keys : key.config # 0}
NoKey == [source |-> 0, config |-> 0]
NoDir == [mark |-> "absent", key |-> NoKey, files |-> 0, modules |-> NoKey,
          sealed |-> NoKey, old |-> FALSE]
NoView == [source |-> 0, modules |-> NoKey, key |-> NoKey, intact |-> FALSE]
Nobody == "nobody"
Cleanup == "cleanup"
Idle == [at |-> "idle", key |-> NoKey, aside |-> NoDir, after |-> "none",
         copied |-> 0, ended |-> "none"]
Resting == [at |-> "idle", kind |-> "entry", key |-> NoKey, dir |-> NoDir]

Init ==
  /\ inputs \in {key \in Known : \A other \in Known : key.source <= other.source
                                                       /\ key.config <= other.config}
  /\ entry = [key \in Known |-> NoDir]
  /\ staging = [key \in Known |-> NoDir]
  /\ tomb = {}
  /\ backups = {}
  /\ holder = [key \in Known |-> Nobody]
  /\ work = [b \in Builders |-> Idle]
  /\ view = [b \in Builders |-> NoView]
  /\ cleaner = Resting
  /\ spent = [edit |-> 0, config |-> 0, fail |-> 0, spoil |-> 0, kill |-> 0, clean |-> 0]

-----------------------------------------------------------------------------
(* Directories *)

At(b, station) == work[b].at = station
Go(b, station) == work' = [work EXCEPT ![b].at = station]
Key(b) == work[b].key
There(dir) == dir # NoDir
Spend(bound) == spent' = [spent EXCEPT ![bound] = @ + 1]

\* A digest tells trees apart by names, bytes, modes, links and copied times.
SameDigest(tree, other) == tree = other

\* The installed tree, digest for digest, is the one its metadata seals.
ValidModules(modules, sealed) == sealed # NoKey /\ SameDigest(modules, sealed)

Matches(dir, key) ==
  /\ dir.mark = "entry" /\ dir.key = key
  /\ dir.files = key.source
  /\ ValidModules(dir.modules, dir.sealed)

Owned(dir) == dir.mark = "entry"

Candidates(key) ==
  {dir \in {backup.dir : backup \in {x \in backups : x.key = key}} \cup {staging[key]} :
     Matches(dir, key)}

Backup(key, dir) == [key |-> key, dir |-> dir]
Fresh(dir) == [dir EXCEPT !.old = FALSE]

\* What the tree removal leaves until its root goes: the marker is its first victim.
Emptied(dir) == [NoDir EXCEPT !.mark = "none"]

Unlock(b) == holder' = [holder EXCEPT ![Key(b)] = Nobody]

\* The build ends, with the lock of the key if it holds it.
Ends(b, how) ==
  /\ work' = [work EXCEPT ![b] = [Idle EXCEPT !.ended = how]]
  /\ holder' = [key \in Known |-> IF holder[key] = b THEN Nobody ELSE holder[key]]

-----------------------------------------------------------------------------
(* A build: the installation *)

\* Nothing npm would read from a file outside the source is accepted.
Accepted(read) == read.config # 0

ReadInputs(b) ==
  /\ At(b, "idle")
  /\ work' = [work EXCEPT ![b] = IF Accepted(inputs)
                                 THEN [Idle EXCEPT !.at = "lock", !.key = inputs]
                                 ELSE [Idle EXCEPT !.ended = "failed"]]
  /\ UNCHANGED <<inputs, disk, holder, view, cleaner, spent>>

\* Mutant: a candidate is looked for only when there is no entry.
FoundForMissing(key) == IF Matches(entry[key], key) THEN "serve"
              ELSE IF ~There(entry[key]) /\ Candidates(key) # {} THEN "restore"
              ELSE IF There(staging[key]) THEN "clear"
              ELSE "copy"

\* Under the lock: the entry, else a whole candidate, else an install.
Found(key) == IF Matches(entry[key], key) THEN "serve"
              ELSE IF Candidates(key) # {} THEN "restore"
              ELSE IF There(staging[key]) THEN "clear"
              ELSE "copy"

Lock(b) ==
  /\ At(b, "lock")
  /\ holder[Key(b)] = Nobody
  /\ \/ /\ There(entry[Key(b)]) /\ ~Owned(entry[Key(b)])
        /\ Ends(b, "failed")
     \/ /\ There(entry[Key(b)]) => Owned(entry[Key(b)])
        /\ work' = [work EXCEPT ![b].at = Found(Key(b)), ![b].after = "copy"]
        /\ holder' = [holder EXCEPT ![Key(b)] = b]
  /\ UNCHANGED <<inputs, disk, view, cleaner, spent>>

\* The entry, which is not whole, is first renamed to a name of its own.
RestoreAside(b) ==
  /\ At(b, "restore")
  /\ IF There(entry[Key(b)])
     THEN /\ backups' = backups \cup {Backup(Key(b), Fresh(entry[Key(b)]))}
          /\ entry' = [entry EXCEPT ![Key(b)] = NoDir]
          /\ work' = [work EXCEPT ![b].at = "restored", ![b].aside = Fresh(entry[Key(b)])]
     ELSE Go(b, "restored") /\ UNCHANGED <<entry, backups>>
  /\ UNCHANGED <<inputs, staging, tomb, holder, view, cleaner, spent>>

Restore(b) ==
  /\ At(b, "restored")
  /\ \E dir \in Candidates(Key(b)) :
       /\ entry' = [entry EXCEPT ![Key(b)] = dir]
       /\ IF dir = staging[Key(b)]
          THEN staging' = [staging EXCEPT ![Key(b)] = NoDir] /\ UNCHANGED backups
          ELSE backups' = backups \ {Backup(Key(b), dir)} /\ UNCHANGED staging
  /\ Go(b, "drop")
  /\ UNCHANGED <<inputs, tomb, holder, view, cleaner, spent>>

\* What was moved aside is removed; a failure of that is only reported.
Drop(b) ==
  /\ At(b, "drop")
  /\ backups' = backups \ {Backup(Key(b), work[b].aside)}
  /\ work' = [work EXCEPT ![b].at = "serve", ![b].aside = NoDir]
  /\ UNCHANGED <<inputs, entry, staging, tomb, holder, view, cleaner, spent>>

\* A tree is removed from the bottom; its root is renamed, then removed.
Clear(b) ==
  /\ At(b, "clear")
  /\ staging' = [staging EXCEPT ![Key(b)] = Emptied(@)]
  /\ Go(b, "bury")
  /\ UNCHANGED <<inputs, entry, tomb, backups, holder, view, cleaner, spent>>

\* The name of the tombstone is made from the name of the tree and must be free.
Bury(b) ==
  /\ At(b, "bury")
  /\ IF Key(b) \in tomb
     THEN Ends(b, "failed") /\ UNCHANGED <<staging, tomb>>
     ELSE /\ staging' = [staging EXCEPT ![Key(b)] = NoDir]
          /\ tomb' = tomb \cup {Key(b)}
          /\ Go(b, "buried")
          /\ UNCHANGED holder
  /\ UNCHANGED <<inputs, entry, backups, view, cleaner, spent>>

Buried(b) ==
  /\ At(b, "buried")
  /\ tomb' = tomb \ {Key(b)}
  /\ IF work[b].after = "copy" THEN Go(b, "copy") /\ UNCHANGED holder
     ELSE Ends(b, "failed")
  /\ UNCHANGED <<inputs, entry, staging, backups, view, cleaner, spent>>

\* A step that fails takes the staging directory with it.
GiveUp(b) == work' = [work EXCEPT ![b].at = "clear", ![b].after = "failed"]

\* The source is copied and the copy compared with the inputs.
Copy(b) ==
  /\ At(b, "copy")
  /\ staging' = [staging EXCEPT ![Key(b)] =
                   [NoDir EXCEPT !.mark = "none", !.files = inputs.source]]
  /\ IF SameDigest(inputs.source, Key(b).source) THEN Go(b, "install") ELSE GiveUp(b)
  /\ UNCHANGED <<inputs, entry, tomb, backups, holder, view, cleaner, spent>>

\* "npm ci" in the staging directory, with the configuration there is now.
Install(b) ==
  /\ At(b, "install")
  /\ staging' = [staging EXCEPT ![Key(b)].modules =
                   [source |-> staging[Key(b)].files, config |-> inputs.config]]
  /\ Go(b, "reread")
  /\ UNCHANGED <<inputs, entry, tomb, backups, holder, view, cleaner, spent>>

InstallFails(b) ==
  /\ At(b, "install")
  /\ spent.fail < MaxFail /\ Spend("fail")
  /\ GiveUp(b)
  /\ UNCHANGED <<inputs, disk, holder, view, cleaner>>

Reread(b) ==
  /\ At(b, "reread")
  /\ IF inputs = Key(b) THEN Go(b, "seal") ELSE GiveUp(b)
  /\ UNCHANGED <<inputs, disk, holder, view, cleaner, spent>>

\* The package files are copied once more, and the tree is sealed as it is.
Seal(b) ==
  /\ At(b, "seal")
  /\ staging' = [staging EXCEPT ![Key(b)] =
                   [@ EXCEPT !.mark = "entry", !.key = Key(b), !.files = inputs.source,
                             !.sealed = staging[Key(b)].modules]]
  /\ Go(b, "aside")
  /\ UNCHANGED <<inputs, entry, tomb, backups, holder, view, cleaner, spent>>

Aside(b) ==
  /\ At(b, "aside")
  /\ IF There(entry[Key(b)])
     THEN /\ backups' = backups \cup {Backup(Key(b), Fresh(entry[Key(b)]))}
          /\ entry' = [entry EXCEPT ![Key(b)] = NoDir]
          /\ work' = [work EXCEPT ![b].at = "place", ![b].aside = Fresh(entry[Key(b)])]
     ELSE Go(b, "place") /\ UNCHANGED <<entry, backups>>
  /\ UNCHANGED <<inputs, staging, tomb, holder, view, cleaner, spent>>

Place(b) ==
  /\ At(b, "place")
  /\ entry' = [entry EXCEPT ![Key(b)] = staging[Key(b)]]
  /\ staging' = [staging EXCEPT ![Key(b)] = NoDir]
  /\ Go(b, "verify")
  /\ UNCHANGED <<inputs, tomb, backups, holder, view, cleaner, spent>>

\* What does not match after the exchange is exchanged back.
Verify(b) ==
  /\ At(b, "verify")
  /\ IF Matches(entry[Key(b)], Key(b))
     THEN Go(b, "drop") /\ UNCHANGED <<entry, staging, backups>>
     ELSE /\ staging' = [staging EXCEPT ![Key(b)] = entry[Key(b)]]
          /\ entry' = [entry EXCEPT ![Key(b)] = work[b].aside]
          /\ backups' = backups \ {Backup(Key(b), work[b].aside)}
          /\ work' = [work EXCEPT ![b].at = "clear", ![b].after = "failed",
                                  ![b].aside = NoDir]
  /\ UNCHANGED <<inputs, tomb, holder, view, cleaner, spent>>

-----------------------------------------------------------------------------
(* A build: the view of the profile, still under the lock of the key *)

\* The time of the last use is renewed before the entry is used.
Serve(b) ==
  /\ At(b, "serve")
  /\ entry' = [entry EXCEPT ![Key(b)] = Fresh(@)]
  /\ Go(b, "view")
  /\ UNCHANGED <<inputs, staging, tomb, backups, holder, view, cleaner, spent>>

ValidView(b) ==
  /\ view[b].intact /\ view[b].key = Key(b)
  /\ view[b].source = inputs.source
  /\ view[b].modules = entry[Key(b)].sealed

\* A view that is what this build would make is used again.
ViewLook(b) ==
  /\ At(b, "view")
  /\ \/ inputs.source # Key(b).source /\ Ends(b, "failed")
     \/ /\ inputs.source = Key(b).source /\ ValidView(b)
        /\ Go(b, "check") /\ Unlock(b)
     \/ /\ inputs.source = Key(b).source /\ ~ValidView(b)
        /\ Go(b, "fill") /\ UNCHANGED holder
  /\ UNCHANGED <<inputs, disk, view, cleaner, spent>>

ViewCopy(b) ==
  /\ At(b, "fill")
  /\ IF inputs.source = Key(b).source
     THEN work' = [work EXCEPT ![b].at = "modules", ![b].copied = inputs.source]
          /\ UNCHANGED holder
     ELSE Ends(b, "failed")
  /\ UNCHANGED <<inputs, disk, view, cleaner, spent>>

\* The modules are copied, the source is read again, and the view is exchanged.
ViewPublish(b) ==
  /\ At(b, "modules")
  /\ IF inputs.source = Key(b).source /\ There(entry[Key(b)])
     THEN /\ view' = [view EXCEPT ![b] = [source |-> work[b].copied, key |-> Key(b),
                                          modules |-> entry[Key(b)].modules,
                                          intact |-> TRUE]]
          /\ Go(b, "check") /\ Unlock(b)
     ELSE Ends(b, "failed") /\ UNCHANGED view
  /\ UNCHANGED <<inputs, disk, cleaner, spent>>

\* "npm run check" works in the view, whose mode is open meanwhile.
Check(b) ==
  /\ At(b, "check")
  /\ Go(b, "reconcile")
  /\ UNCHANGED <<inputs, disk, holder, view, cleaner, spent>>

\* It writes to files it was only to read.
CheckWrites(b) ==
  /\ At(b, "check")
  /\ spent.spoil < MaxSpoil /\ Spend("spoil")
  /\ \/ view' = [view EXCEPT ![b].source = 0]
     \/ view' = [view EXCEPT ![b].modules = NoKey]
  /\ Go(b, "reconcile")
  /\ UNCHANGED <<inputs, disk, holder, cleaner>>

CheckFails(b) ==
  /\ At(b, "check")
  /\ spent.fail < MaxFail /\ Spend("fail")
  /\ Ends(b, "failed")
  /\ UNCHANGED <<inputs, disk, view, cleaner>>

\* The source and the view must still be the ones the installation is of.
SourceReconciled(b) ==
  SameDigest(inputs.source, Key(b).source) /\ SameDigest(view[b].source, inputs.source)

Reconciled(b) == SourceReconciled(b) /\ ValidModules(view[b].modules, Key(b))

Reconcile(b) ==
  /\ At(b, "reconcile")
  /\ Ends(b, IF Reconciled(b) THEN "done" ELSE "failed")
  /\ UNCHANGED <<inputs, disk, view, cleaner, spent>>

Step(b) ==
  \/ ReadInputs(b) \/ Lock(b) \/ RestoreAside(b) \/ Restore(b) \/ Drop(b)
  \/ Clear(b) \/ Bury(b) \/ Buried(b) \/ Copy(b) \/ Install(b) \/ Reread(b) \/ Seal(b)
  \/ Aside(b) \/ Place(b) \/ Verify(b) \/ Serve(b)
  \/ ViewLook(b) \/ ViewCopy(b) \/ ViewPublish(b) \/ Check(b) \/ Reconcile(b)

Fails(b) == InstallFails(b) \/ CheckFails(b) \/ CheckWrites(b)

Kill(b) ==
  /\ ~At(b, "idle")
  /\ spent.kill < MaxKill /\ Spend("kill")
  /\ view' = IF At(b, "check") THEN [view EXCEPT ![b].intact = FALSE] ELSE view
  /\ Ends(b, "killed")
  /\ UNCHANGED <<inputs, disk, cleaner>>

-----------------------------------------------------------------------------
(* Cleanup: an item is chosen in a preview and proved again under the lock *)

\* The item's age is counted from the last use, or from the tree's own times.
EligibleEntry(key) == Owned(entry[key]) /\ entry[key].key = key /\ entry[key].old
EligibleTransaction(dir) == There(dir) /\ dir.old

Items ==
  {[at |-> "lock", kind |-> "entry", key |-> key, dir |-> entry[key]] :
     key \in {k \in Known : EligibleEntry(k)}}
  \cup {[at |-> "lock", kind |-> "staging", key |-> key, dir |-> staging[key]] :
          key \in {k \in Known : EligibleTransaction(staging[k])}}
  \cup {[at |-> "lock", kind |-> "backup", key |-> backup.key, dir |-> backup.dir] :
          backup \in {x \in backups : EligibleTransaction(x.dir)}}

Preview ==
  /\ cleaner.at = "idle"
  /\ spent.clean < MaxClean /\ Spend("clean")
  /\ \E item \in Items : holder[item.key] = Nobody /\ cleaner' = item
  /\ UNCHANGED <<inputs, disk, holder, work, view>>

\* Its time of last use must be the one of the preview, its age still enough.
Proved ==
  CASE cleaner.kind = "entry" -> EligibleEntry(cleaner.key)
    [] cleaner.kind = "staging" -> EligibleTransaction(staging[cleaner.key])
    [] OTHER -> Backup(cleaner.key, cleaner.dir) \in backups

\* The lock of the key is tried, not waited for.
CleanLock ==
  /\ cleaner.at = "lock"
  /\ \/ /\ holder[cleaner.key] = Nobody /\ Proved
        /\ holder' = [holder EXCEPT ![cleaner.key] = Cleanup]
        /\ cleaner' = [cleaner EXCEPT !.at = "remove"]
     \/ /\ ~(holder[cleaner.key] = Nobody /\ Proved)
        /\ cleaner' = Resting
        /\ UNCHANGED holder
  /\ UNCHANGED <<inputs, disk, work, view, spent>>

CleanRemove ==
  /\ cleaner.at = "remove"
  /\ CASE cleaner.kind = "entry" ->
            entry' = [entry EXCEPT ![cleaner.key] = Emptied(@)] /\ UNCHANGED <<staging, backups>>
       [] cleaner.kind = "staging" ->
            staging' = [staging EXCEPT ![cleaner.key] = Emptied(@)] /\ UNCHANGED <<entry, backups>>
       [] OTHER ->
            backups' = backups \ {Backup(cleaner.key, cleaner.dir)} /\ UNCHANGED <<entry, staging>>
  /\ cleaner' = [cleaner EXCEPT !.at = "bury"]
  /\ UNCHANGED <<inputs, tomb, holder, work, view, spent>>

CleanBury ==
  /\ cleaner.at = "bury"
  /\ CASE cleaner.kind = "entry" -> entry' = [entry EXCEPT ![cleaner.key] = NoDir] /\ UNCHANGED staging
       [] cleaner.kind = "staging" /\ cleaner.key \notin tomb ->
            staging' = [staging EXCEPT ![cleaner.key] = NoDir] /\ UNCHANGED entry
       [] OTHER -> UNCHANGED <<entry, staging>>
  /\ holder' = [holder EXCEPT ![cleaner.key] = Nobody]
  /\ cleaner' = Resting
  /\ UNCHANGED <<inputs, tomb, backups, work, view, spent>>

-----------------------------------------------------------------------------
(* The world *)

Edit ==
  /\ spent.edit < MaxEdit /\ Spend("edit")
  /\ \E source \in Sources \ {inputs.source} : inputs' = [inputs EXCEPT !.source = source]
  /\ UNCHANGED <<disk, holder, work, view, cleaner>>

Configure ==
  /\ spent.config < MaxConfig /\ Spend("config")
  /\ \E config \in Configs \ {inputs.config} : inputs' = [inputs EXCEPT !.config = config]
  /\ UNCHANGED <<disk, holder, work, view, cleaner>>

Spoil ==
  /\ spent.spoil < MaxSpoil /\ Spend("spoil")
  /\ \E key \in Known : /\ entry[key].modules # NoKey
                        /\ entry' = [entry EXCEPT ![key].modules = NoKey]
  /\ UNCHANGED <<inputs, staging, tomb, backups, holder, work, view, cleaner>>

Aged(dir) == [dir EXCEPT !.old = There(dir)]

\* The grace period passes.  Cleanup counts ages from the time of its preview.
Age ==
  /\ MaxClean > 0 /\ cleaner.at = "idle"
  /\ \A b \in Builders : At(b, "idle") \/ At(b, "lock") \/ At(b, "check")
  /\ entry' = [key \in Known |-> Aged(entry[key])]
  /\ staging' = [key \in Known |-> Aged(staging[key])]
  /\ backups' = {Backup(x.key, Aged(x.dir)) : x \in backups}
  /\ UNCHANGED <<inputs, tomb, holder, work, view, cleaner, spent>>

Next ==
  \/ \E b \in Builders : Step(b) \/ Fails(b) \/ Kill(b)
  \/ Preview \/ CleanLock \/ CleanRemove \/ CleanBury
  \/ Edit \/ Configure \/ Spoil \/ Age

Spec == Init /\ [][Next]_vars

\* Builds are asked for again for ever; the lock serves whoever waits for it.
FairSpec ==
  /\ Spec
  /\ \A b \in Builders : WF_vars(Step(b)) /\ SF_vars(Lock(b))

-----------------------------------------------------------------------------
(* Properties *)

Dirs == [mark : {"absent", "none", "entry"}, key : Known \cup {NoKey},
         files : Sources \cup {0}, modules : Keys \cup {NoKey},
         sealed : Keys \cup {NoKey}, old : BOOLEAN]

\* The type of every variable, and a lock is held by whoever works under it.
TypeOK ==
  /\ inputs \in Keys
  /\ \A key \in Known : entry[key] \in Dirs /\ staging[key] \in Dirs
  /\ tomb \subseteq Known
  /\ \A x \in backups : x.key \in Known /\ x.dir \in Dirs
  /\ holder \in [Known -> Builders \cup {Nobody, Cleanup}]
  /\ \A b \in Builders :
       ~(At(b, "idle") \/ At(b, "lock") \/ At(b, "check") \/ At(b, "reconcile"))
         => holder[Key(b)] = b

\* An entry that passes for the key was installed from exactly the source and with
\* exactly the configuration the key names, whatever was edited in the meantime.
EntryIsItsKey ==
  \A key \in Known : Matches(entry[key], key) => entry[key].modules = key

\* A build that succeeds leaves its profile a view of the source there is, with the
\* modules installed from it.
ServesItsSource ==
  \A b \in Builders :
    work'[b].ended = "done" /\ work[b].ended # "done" =>
      /\ view'[b].source = inputs.source
      /\ view'[b].modules.source = inputs.source
      /\ view'[b].modules = view'[b].key

\* npm installs nothing, and nothing is cleared for it, while a whole installation of
\* the key is at hand.
InstallIsLast ==
  \A b \in Builders :
    At(b, "copy") \/ At(b, "install") \/ (At(b, "clear") /\ work[b].after = "copy") =>
      Candidates(Key(b)) = {} /\ ~Matches(entry[Key(b)], Key(b))

\* A build takes an owned entry away only when an installation that succeeded is there
\* to replace it, or it takes its own back.
KeptUntilReplaced ==
  \A key \in Known : There(entry[key]) /\ ~There(entry'[key]) =>
    \/ holder[key] = Cleanup
    \/ Candidates(key) # {}
    \/ ValidModules(staging[key].modules, staging[key].sealed)
    \/ staging'[key] = entry[key]

\* The installation a profile is being given a copy of stays whole until it has it.
InUse ==
  \A b \in Builders : At(b, "view") \/ At(b, "fill") \/ At(b, "modules") =>
    Matches(entry[Key(b)], Key(b))

\* Cleanup takes no whole entry that was used since its preview.
RecentStays ==
  \A key \in Known : Matches(entry[key], key) /\ ~entry[key].old =>
    Matches(entry'[key], key)

=============================================================================
