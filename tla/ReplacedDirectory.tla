-------------------------- MODULE ReplacedDirectory --------------------------
(***************************************************************************)
(* The generated directories a profile build keeps beside its binaries     *)
(* (src/atrinik_workspace/workspace.py): the collected content, the staged *)
(* resources, the region maps and the runtime inputs of a topology.  A     *)
(* command observes the checkout it reads, reuses what is there when it    *)
(* was made from the same coordinates, and otherwise makes the directory   *)
(* beside it and exchanges the two, behind a journal or (the maps) a       *)
(* backup with a name of its own.                                          *)
(*                                                                         *)
(* One directory, whose kind is a constant; its commands exclude one       *)
(* another with the lock of the build root.  Users edit the checkout       *)
(* without a lease.  The process may be killed between any two steps.      *)
(***************************************************************************)
EXTENDS Integers

CONSTANTS Kind,       \* which directory
          Snapshot,   \* the command runs inside a resolved profile operation
          Enabled,    \* what users do to the checkout, and when
          MaxEdit,    \* bound on the changes of the checkout
          MaxFault,   \* bound on the steps that fail
          MaxCrash    \* bound on the processes killed

Kinds == {"content", "resources", "maps", "runtime"}
UserKinds == {"commit", "edit", "outside", "revert"}

\* What an instance assumes of the constants.
Assumptions ==
  /\ Kind \in Kinds /\ Enabled \subseteq UserKinds
  /\ Snapshot \in BOOLEAN
  /\ {MaxEdit, MaxFault, MaxCrash} \subseteq Nat

VARIABLES tree,       \* the checkout: its commit, and its uncommitted edit
          disk,       \* the directory, the new one and the previous one
          journal,    \* the phase in the journal of the exchange
          container,  \* whether the directory for the previous one is there
          command,    \* where the command is and what it knows
          ended,      \* what the last command came to
          spent       \* how much of each bound is used

vars == <<tree, disk, journal, container, command, ended, spent>>

Unmarked == [head |-> -1, clean |-> FALSE]
NoDir == [head |-> -1, edit |-> 0, whole |-> FALSE, mark |-> Unmarked]
Idle == [at |-> "idle", snapshot |-> Unmarked, seen |-> Unmarked, matched |-> FALSE,
         backup |-> FALSE]
Never == [how |-> "never", dir |-> NoDir, before |-> NoDir, tidy |-> TRUE, served |-> NoDir]
Journaled == Kind # "maps"
Cached == Kind # "runtime"

Init ==
  /\ tree = [head |-> 0, edit |-> 0]
  /\ disk = [output |-> NoDir, staging |-> NoDir, previous |-> NoDir]
  /\ journal = "none" /\ container = FALSE
  /\ command = Idle
  /\ ended = Never
  /\ spent = [edit |-> 0, fault |-> 0, crash |-> 0]

-----------------------------------------------------------------------------
(* What a command makes of the checkout *)

At(station) == command.at = station
Go(station) == command' = [command EXCEPT !.at = station]
There(dir) == dir # NoDir
Coordinates == [head |-> tree.head, clean |-> tree.edit = 0]

\* Inside a resolved operation the states of the checkouts are the operation's own.
Observed == IF Snapshot THEN command.snapshot ELSE Coordinates

Copied == [head |-> tree.head, edit |-> tree.edit, whole |-> TRUE, mark |-> Unmarked]
SameBytes(dir) == dir.whole /\ dir.head = tree.head /\ dir.edit = tree.edit

\* The bytes of resources are compared with the checkout's; those of content with
\* the manifest beside them, and those of maps with nothing.
Valid(dir) == IF Kind = "resources" THEN SameBytes(dir) ELSE dir.whole

Matches ==
  /\ There(disk.output) /\ command.seen.clean
  /\ disk.output.mark = command.seen
  /\ Valid(disk.output)

Begin ==
  /\ At("idle")
  /\ command' = [Idle EXCEPT !.at = IF Cached THEN "match" ELSE "guard",
                             !.snapshot = Coordinates, !.seen = Coordinates]
  /\ ended' = [ended EXCEPT !.how = "running", !.before = disk.output,
                            !.tidy = journal = "none"]
  /\ UNCHANGED <<tree, disk, journal, container, spent>>

\* The directory must carry the wrapper's marker, the first thing a removal takes.
Foreign == There(disk.output) /\ ~disk.output.whole

Match ==
  /\ At("match")
  /\ \/ Kind = "resources" /\ Foreign /\ Go("refuse")
     \/ /\ ~(Kind = "resources" /\ Foreign)
        /\ command' = [command EXCEPT !.at = "again", !.matched = Matches]
  /\ UNCHANGED <<tree, disk, journal, container, ended, spent>>

\* The coordinates are observed once more before what is there is reused.
Again ==
  /\ At("again")
  /\ \/ /\ command.matched /\ (Kind = "maps" \/ Observed = command.seen)
        /\ command' = Idle
        /\ ended' = [ended EXCEPT !.how = "reused", !.dir = disk.output,
                                  !.served = disk.output]
     \/ /\ ~(command.matched /\ (Kind = "maps" \/ Observed = command.seen))
        /\ command' = [command EXCEPT !.at = "guard",
                                      !.seen = IF Kind = "maps" THEN @ ELSE Observed]
        /\ UNCHANGED ended
  /\ UNCHANGED <<tree, disk, journal, container, spent>>

Guard ==
  /\ At("guard")
  /\ Go(IF Foreign THEN "refuse" ELSE "make")
  /\ UNCHANGED <<tree, disk, journal, container, ended, spent>>

Make ==
  /\ At("make")
  /\ disk' = [disk EXCEPT !.staging = Copied]
  /\ Go(IF Cached THEN "recheck" ELSE "recover")
  /\ UNCHANGED <<tree, journal, container, ended, spent>>

\* The coordinates again; what was made from a clean checkout says so.
Recheck ==
  /\ At("recheck")
  /\ \/ Observed # command.seen /\ Go("fail") /\ UNCHANGED disk
     \/ /\ Observed = command.seen
        /\ Go(IF Kind = "resources" THEN "compare" ELSE "recover")
        /\ disk' = [disk EXCEPT !.staging.mark =
                      IF command.seen.clean \/ Kind = "maps" THEN command.seen ELSE @]
  /\ UNCHANGED <<tree, journal, container, ended, spent>>

Compare ==
  /\ At("compare")
  /\ Go(IF SameBytes(disk.staging) THEN "confirm" ELSE "fail")
  /\ UNCHANGED <<tree, disk, journal, container, ended, spent>>

Confirm ==
  /\ At("confirm")
  /\ Go(IF Observed = command.seen THEN "recover" ELSE "fail")
  /\ UNCHANGED <<tree, disk, journal, container, ended, spent>>

-----------------------------------------------------------------------------
(* What an exchange that was cut short left is settled first *)

\* Nothing to settle, or something only a kill inside a recovery leaves.
RecoverLook ==
  /\ At("recover")
  /\ \/ (~Journaled \/ journal = "none") /\ Go("swap")
     \/ journal = "initializing" /\ Go("uncontain")
     \/ /\ journal = "prepared"
        /\ Go(IF container /\ (There(disk.previous) \/ There(disk.output))
              THEN "settle" ELSE "refuse")
     \/ /\ journal = "committed"
        /\ Go(IF ~There(disk.output) THEN "refuse"
              ELSE IF container THEN "settle" ELSE "unjournal")
  /\ UNCHANGED <<tree, disk, journal, container, ended, spent>>

Discarded(place) ==
  IF disk[place].whole THEN [disk EXCEPT ![place].whole = FALSE]
                       ELSE [disk EXCEPT ![place] = NoDir]

\* Prepared: the previous directory replaces an exchange that was not committed.
\* Committed: the previous directory goes.  A removal takes several steps.
Settle ==
  /\ At("settle")
  /\ \/ ~There(disk.previous) /\ Go("uncontain") /\ UNCHANGED disk
     \/ /\ There(disk.previous) /\ journal = "prepared" /\ There(disk.output)
        /\ disk' = Discarded("output") /\ UNCHANGED command
     \/ /\ There(disk.previous) /\ journal = "prepared" /\ ~There(disk.output)
        /\ disk' = [disk EXCEPT !.output = disk.previous, !.previous = NoDir]
        /\ Go("uncontain")
     \/ /\ There(disk.previous) /\ journal = "committed"
        /\ disk' = Discarded("previous") /\ UNCHANGED command
  /\ UNCHANGED <<tree, journal, container, ended, spent>>

Uncontain ==
  /\ At("uncontain")
  /\ container' = FALSE
  /\ Go("unjournal")
  /\ UNCHANGED <<tree, disk, journal, ended, spent>>

Unjournal ==
  /\ At("unjournal")
  /\ journal' = "none"
  /\ Go("swap")
  /\ UNCHANGED <<tree, disk, container, ended, spent>>

-----------------------------------------------------------------------------
(* The exchange *)

Swap ==
  /\ At("swap")
  /\ \/ ~There(disk.output) /\ Go("in") /\ UNCHANGED journal
     \/ /\ There(disk.output) /\ Journaled
        /\ journal' = "initializing" /\ Go("contain")
     \/ There(disk.output) /\ ~Journaled /\ Go("out") /\ UNCHANGED journal
  /\ UNCHANGED <<tree, disk, container, ended, spent>>

Contain ==
  /\ At("contain")
  /\ container' = TRUE
  /\ Go("prepare")
  /\ UNCHANGED <<tree, disk, journal, ended, spent>>

\* Mutant: the journal is not prepared before the previous directory moves.
PrepareLate ==
  /\ At("prepare")
  /\ UNCHANGED journal
  /\ Go("out")
  /\ UNCHANGED <<tree, disk, container, ended, spent>>

Prepare ==
  /\ At("prepare")
  /\ journal' = "prepared"
  /\ Go("out")
  /\ UNCHANGED <<tree, disk, container, ended, spent>>

MoveOut ==
  /\ At("out")
  /\ disk' = [disk EXCEPT !.previous = disk.output, !.output = NoDir]
  /\ command' = [command EXCEPT !.at = "in", !.backup = TRUE]
  /\ UNCHANGED <<tree, journal, container, ended, spent>>

MoveIn ==
  /\ At("in")
  /\ disk' = [disk EXCEPT !.output = disk.staging, !.staging = NoDir]
  /\ Go("verify")
  /\ UNCHANGED <<tree, journal, container, ended, spent>>

\* The coordinates (or, of a topology's inputs, the bytes) once it is in place.
Verified ==
  CASE Kind = "maps"    -> TRUE
    [] Kind = "runtime" -> SameBytes(disk.output)
    [] OTHER            -> Observed = command.seen

Verify ==
  /\ At("verify")
  /\ \/ Verified /\ Go(IF ~command.backup THEN "done"
                       ELSE IF Journaled THEN "commit" ELSE "drop") /\ UNCHANGED disk
     \/ /\ ~Verified
        /\ disk' = [disk EXCEPT !.staging = disk.output, !.output = NoDir]
        /\ Go(IF command.backup THEN "back" ELSE "fail")
  /\ UNCHANGED <<tree, journal, container, ended, spent>>

Commit ==
  /\ At("commit")
  /\ journal' = "committed"
  /\ Go("drop")
  /\ UNCHANGED <<tree, disk, container, ended, spent>>

Drop ==
  /\ At("drop")
  /\ \/ There(disk.previous) /\ disk' = Discarded("previous") /\ UNCHANGED <<command, container>>
     \/ ~There(disk.previous) /\ container /\ container' = FALSE /\ UNCHANGED <<command, disk>>
     \/ ~There(disk.previous) /\ ~container /\ Go("done") /\ UNCHANGED <<disk, container>>
  /\ UNCHANGED <<tree, journal, ended, spent>>

Done ==
  /\ At("done")
  /\ journal' = "none"
  /\ command' = Idle
  /\ ended' = [ended EXCEPT !.how = "refreshed", !.dir = disk.output, !.served = disk.output]
  /\ UNCHANGED <<tree, disk, container, spent>>

\* The directory cannot be moved in, or is not what it should be: put back.
PutBack ==
  /\ At("back")
  /\ disk' = [disk EXCEPT !.output = disk.previous, !.previous = NoDir]
  /\ Go(IF Journaled THEN "back uncontain" ELSE "fail")
  /\ UNCHANGED <<tree, journal, container, ended, spent>>

BackUncontain ==
  /\ At("back uncontain")
  /\ container' = FALSE
  /\ Go("back unjournal")
  /\ UNCHANGED <<tree, disk, journal, ended, spent>>

BackUnjournal ==
  /\ At("back unjournal")
  /\ journal' = "none"
  /\ Go("fail")
  /\ UNCHANGED <<tree, disk, container, ended, spent>>

Fail ==
  /\ At("fail")
  /\ disk' = [disk EXCEPT !.staging = NoDir]
  /\ command' = Idle
  /\ ended' = [ended EXCEPT !.how = "failed", !.dir = disk.output]
  /\ UNCHANGED <<tree, journal, container, spent>>

\* What was made goes; the journal and the directories stay as they are.
Refuse ==
  /\ At("refuse")
  /\ disk' = [disk EXCEPT !.staging = NoDir]
  /\ command' = Idle
  /\ ended' = [ended EXCEPT !.how = "refused", !.dir = disk.output]
  /\ UNCHANGED <<tree, journal, container, spent>>

-----------------------------------------------------------------------------
(* Faults, kills and users *)

\* The generator fails, the new directory cannot be moved in, or the previous one
\* cannot be removed, which is only a warning.
Fault ==
  /\ spent.fault < MaxFault
  /\ spent' = [spent EXCEPT !.fault = @ + 1]
  /\ \/ At("make") /\ Go("fail") /\ UNCHANGED ended
     \/ At("in") /\ Go(IF command.backup THEN "back" ELSE "fail") /\ UNCHANGED ended
     \/ /\ At("drop")
        /\ command' = Idle
        /\ ended' = [ended EXCEPT !.how = "refreshed", !.dir = disk.output,
                                  !.served = disk.output]
  /\ UNCHANGED <<tree, disk, journal, container>>

\* The names of what was being made, and of the maps' backup, die with the process.
Kill ==
  /\ spent.crash < MaxCrash /\ ~At("idle")
  /\ spent' = [spent EXCEPT !.crash = @ + 1]
  /\ command' = Idle
  /\ disk' = [disk EXCEPT !.staging = NoDir, !.previous = IF Journaled THEN @ ELSE NoDir]
  /\ ended' = [ended EXCEPT !.how = "killed", !.dir = disk.output]
  /\ UNCHANGED <<tree, journal, container>>

MayEdit(kind) ==
  /\ kind \in Enabled /\ spent.edit < MaxEdit
  /\ At("idle") \/ "outside" \in Enabled
  /\ spent' = [spent EXCEPT !.edit = @ + 1]
  /\ UNCHANGED <<disk, journal, container, command, ended>>

CommitTree == MayEdit("commit") /\ tree' = [head |-> spent.edit + 1, edit |-> 0]
EditTree == MayEdit("edit") /\ tree' = [tree EXCEPT !.edit = spent.edit + 1]
RevertTree ==
  /\ tree.edit # 0 /\ (At("idle") \/ "revert" \in Enabled)
  /\ tree' = [tree EXCEPT !.edit = 0]
  /\ UNCHANGED <<disk, journal, container, command, ended, spent>>

-----------------------------------------------------------------------------
Work ==
  \/ Match \/ Again \/ Guard \/ Make \/ Recheck \/ Compare \/ Confirm
  \/ RecoverLook \/ Settle \/ Uncontain \/ Unjournal
  \/ Swap \/ Contain \/ Prepare \/ MoveOut \/ MoveIn \/ Verify \/ Commit \/ Drop \/ Done
  \/ PutBack \/ BackUncontain \/ BackUnjournal \/ Fail \/ Refuse

Next == Begin \/ Work \/ Fault \/ Kill \/ CommitTree \/ EditTree \/ RevertTree

Spec == Init /\ [][Next]_vars

\* A command goes on unless it is killed, and somebody asks again for ever.
FairSpec == Spec /\ WF_vars(Work) /\ WF_vars(Begin)

-----------------------------------------------------------------------------
(* Properties *)

Marks == [head : -1 .. MaxEdit, clean : BOOLEAN]
Dirs == [head : -1 .. MaxEdit, edit : 0 .. MaxEdit, whole : BOOLEAN, mark : Marks]

\* Every variable has its type.
TypeOK ==
  /\ tree \in [head : 0 .. MaxEdit, edit : 0 .. MaxEdit]
  /\ \A place \in {"output", "staging", "previous"} : disk[place] \in Dirs
  /\ journal \in {"none", "initializing", "prepared", "committed"}
  /\ container \in BOOLEAN
  /\ command.snapshot \in Marks /\ command.seen \in Marks
  /\ ended.dir \in Dirs /\ ended.before \in Dirs /\ ended.served \in Dirs

Recoverable == journal = "prepared" /\ container /\ disk.previous.whole

\* Once a command has returned a directory there is always a whole one on disk: in
\* place, or where the journal says the next exchange takes it back from
\* (replace_runtime_directory, recover_replaced_directory).
NeverLost == There(ended.served) => disk.output.whole \/ Recoverable

\* A command that fails leaves the directory it found, unless it found an exchange
\* somebody else left unfinished.
FailureKeeps ==
  ended.how = "failed" /\ ended.tidy => ended.dir = ended.before

\* Whatever a command refuses to touch, a whole directory survives it: only an
\* exchange that was being undone is ever refused.
RefusedIsUndone ==
  ended.how = "refused" => journal = "prepared" /\ (disk.output.whole \/ Recoverable)

\* A directory that says it was made from a clean commit holds that commit
\* (_collect_content, _stage_resources: the coordinates are observed again).
CacheTells ==
  disk.output.mark.clean =>
    disk.output.edit = 0 /\ disk.output.head = disk.output.mark.head

\* Resources that are reused are those of the commit the command observed, whatever
\* happened to the checkout while they were staged (_validate_resource_view).
ReusedIsCommitted ==
  [][At("again") /\ ended'.how = "reused" =>
       disk.output.edit = 0 /\ disk.output.head = command.seen.head]_vars

\* A kill may cost the region maps, but never leaves half of them in place.
MapsNeverHalf == There(disk.output) => disk.output.whole

\* The exchange was being undone when it was cut short.
Stuck == ended.how = "refused"
Fresh == disk.output.whole /\ disk.output.head = tree.head /\ disk.output.edit = tree.edit
=============================================================================
