------------------------- MODULE RepositoryMigration -------------------------
(***************************************************************************)
(* `migrate repositories`: the former classic repositories become archives,*)
(* the work found in them becomes worktrees of the classic checkout, and   *)
(* the profiles that selected them are rewritten (migration.py).           *)
(*                                                                         *)
(* One command runs at a time, under the exclusive layout lock; it may die *)
(* between any two steps and be run again.  Editors take no lock.  Within a*)
(* phase the order of sources, worktrees and profiles is left open.        *)
(***************************************************************************)
EXTENDS Naturals, FiniteSets

CONSTANTS Sources,     \* the former repositories
          Profiles,    \* profiles that may select them
          Uses,        \* Uses[p]: the sources profile p selects
          Dirty,       \* sources with changes or commits of their own
          Faults,      \* the operations that may fail
          MaxFault, MaxCrash, MaxEdit, MaxLive, MaxOccupy, MaxDelete  \* bounds on what the world does

Trees == Sources \cup Profiles     \* a worktree per source, a composite per profile
Versions == 0..MaxEdit
NoPlan == [sources |-> {}, trees |-> {}, profiles |-> {}, none |-> TRUE,
           content |-> [s \in Sources |-> 0], from |-> [w \in Trees |-> {}]]

\* What an instance assumes of the constants.
Assumptions ==
  /\ Sources \cap Profiles = {} /\ Uses \in [Profiles -> SUBSET Sources] /\ Dirty \subseteq Sources
  /\ Faults \subseteq {"create", "exchange", "sync", "archive", "record", "unsure", "publish", "unlink", "back", "undo"}
  /\ {MaxFault, MaxCrash, MaxEdit, MaxLive, MaxOccupy, MaxDelete} \subseteq Nat

VARIABLES
  archived,    \* the sources whose directory was renamed to its archive
  occupied,    \* the source paths another checkout has taken since
  content,     \* content[s]: version of the work in s, which moves with its directory
  refs,        \* the trees whose branch (and archive ref) exists in the classic checkout
  tree,        \* tree[w]: its directory, "absent", "bare", "full", or "edited" by a user
  copy,        \* copy[w][s]: version of s the tree w was filled with
  profile,     \* profile[p]: "before", "after", or "gone"
  reference,   \* reference[p]: the generations published as references
  pending, record,   \* the journal and the record: a plan, or NoPlan
  live,        \* a topology runs
  cmd,         \* the command: station, plan, what is left, what it did; found: the trees
               \* edited by the time its undoing reached the trees
  budget

vars == <<archived, occupied, content, refs, tree, copy, profile, reference, pending, record, live, cmd, budget>>
files == <<archived, refs, tree, copy, profile>>
world == <<occupied, content, live>>

Idle == [at |-> "idle", plan |-> NoPlan, todo |-> {}, now |-> {}, made |-> {}, swapped |-> {}, moved |-> {},
         found |-> {}, failed |-> FALSE]

TypeOK ==
  /\ archived \subseteq Sources /\ occupied \subseteq Sources /\ refs \subseteq Trees
  /\ content \in [Sources -> Versions]
  /\ tree \in [Trees -> {"absent", "bare", "full", "edited"}]
  /\ copy \in [Trees -> [Sources -> Versions]]
  /\ profile \in [Profiles -> {"before", "after", "gone"}]
  /\ reference \in [Profiles -> SUBSET {"before", "after", "gone"}]
  /\ live \in BOOLEAN
  /\ cmd.at \in {"idle", "waiting", "undo sources", "undo profiles", "undo trees", "undo tree", "undo refs", "undo end", "enter",
                 "journal", "publish", "create", "add", "fill", "exchange", "archive", "verify", "record", "narrow", "unlink",
                 "back", "back sources", "back profiles", "back references", "back trees", "back refs", "back end"}
  /\ cmd.todo \subseteq Trees /\ cmd.now \cup cmd.made \cup cmd.found \subseteq Trees /\ cmd.swapped \subseteq Profiles /\ cmd.moved \subseteq Sources

Init ==
  /\ archived = {} /\ occupied = {} /\ refs = {}
  /\ content = [s \in Sources |-> 0]
  /\ tree = [w \in Trees |-> "absent"]
  /\ copy = [w \in Trees |-> [s \in Sources |-> 0]]
  /\ profile = [p \in Profiles |-> "before"]
  /\ reference = [p \in Profiles |-> {"before"}]
  /\ pending = NoPlan /\ record = NoPlan
  /\ live = FALSE
  /\ cmd = Idle
  /\ budget = [fault |-> 0, crash |-> 0, edit |-> 0, live |-> 0, occupy |-> 0, delete |-> 0]

\* ---------------------------------------------------------------- the plan
Present == Sources \ (archived \cup occupied)
Needy(S) == {s \in S : s \in Dirty \/ content[s] > 0}
\* A profile that selects the work of several sources needs a composite of them.
Composites == {p \in Profiles : profile[p] = "before" /\ Cardinality(Needy(Uses[p])) > 1}
From(w) == IF w \in Sources THEN {w} ELSE Needy(Uses[w])
NewTrees == Needy(Present) \cup Composites

Plan == [sources |-> Present, trees |-> NewTrees, profiles |-> {p \in Profiles : profile[p] = "before"},
         none |-> FALSE, content |-> content, from |-> [w \in Trees |-> From(w)]]

\* _inspect has no refusal: what a tree needs is free, every selected source is there.
NoTopologyRuns == ~live
Inspected ==
  /\ NoTopologyRuns
  /\ \A w \in NewTrees : tree[w] = "absent" /\ w \notin refs
  /\ \A p \in Profiles : profile[p] = "before" => Uses[p] \subseteq Present

\* ------------------------------------------------- faults and failing steps
MayFail(f) == f \in Faults /\ budget.fault < MaxFault
Fail == budget' = [budget EXCEPT !.fault = @ + 1]
Goto(at) == cmd' = [cmd EXCEPT !.at = at]
Next1(at, todo) == cmd' = [cmd EXCEPT !.at = at, !.todo = todo]

\* ------------------------------------------------------- execute: entering
\* A first inspection without the lock.
Start == /\ cmd.at = "idle" /\ Inspected
         /\ Goto("waiting")
         /\ UNCHANGED <<files, world, reference, pending, record, budget>>

\* The audit of a written record.
ArchivesHold == record.sources \subseteq archived /\ \A s \in record.sources : content[s] = record.content[s]
TreesHold == \A w \in record.trees : tree[w] = "full"
ProfilesHold == \A p \in record.profiles : profile[p] = "after"
AuditComplete == ArchivesHold /\ TreesHold /\ ProfilesHold

Narrow == reference' = [p \in Profiles |-> {profile[p]}]
Publishable == MayFail("publish") /\ Fail /\ UNCHANGED reference

\* Under the lock: a record ends the command, at most narrowing and unlinking what is left.
AlreadyApplied ==
  /\ cmd.at = "waiting" /\ record # NoPlan
  /\ cmd' = Idle
  /\ \/ /\ AuditComplete /\ Narrow
        /\ pending' = IF pending = record THEN NoPlan ELSE pending
        /\ UNCHANGED budget
     \/ AuditComplete /\ Publishable /\ UNCHANGED pending
     \/ ~AuditComplete /\ UNCHANGED <<reference, pending, budget>>
  /\ UNCHANGED <<files, world, record>>

\* No record and no journal (left): inspect again, now under the lock.
Enter ==
  /\ \/ cmd.at = "waiting" /\ record = NoPlan /\ pending = NoPlan /\ UNCHANGED <<reference, budget>>
     \/ cmd.at = "enter" /\ Narrow /\ UNCHANGED budget
  /\ cmd' = IF Inspected THEN [Idle EXCEPT !.at = "journal", !.plan = Plan] ELSE Idle
  /\ UNCHANGED <<files, world, pending, record>>

EnterFails ==
  /\ cmd.at = "enter" /\ Publishable
  /\ cmd' = Idle
  /\ UNCHANGED <<files, world, pending, record>>

\* ---------------------------------------------------- _rollback_pending
\* The journal is refused when the files it is about are not all there.
JournalValid == \A p \in pending.profiles : profile[p] # "gone"

\* A journal without a record: both generations are published, then all is undone.
EnterPending ==
  /\ cmd.at = "waiting" /\ record = NoPlan /\ pending # NoPlan
  /\ \/ /\ JournalValid
        /\ reference' = [p \in Profiles |->
                           {profile[p]} \cup IF p \in pending.profiles THEN {"before", "after"} ELSE {}]
        /\ cmd' = [Idle EXCEPT !.at = "undo sources", !.todo = pending.sources]
        /\ UNCHANGED budget
     \/ JournalValid /\ Publishable /\ cmd' = Idle
     \/ ~JournalValid /\ cmd' = Idle /\ UNCHANGED <<reference, budget>>
  /\ UNCHANGED <<files, world, pending, record>>

UndoSource(s) ==
  /\ cmd.at = "undo sources" /\ s \in cmd.todo
  /\ \/ /\ s \in archived /\ s \notin occupied
        /\ archived' = archived \ {s}
        /\ cmd' = [cmd EXCEPT !.todo = @ \ {s}]
        /\ UNCHANGED budget
     \/ /\ s \in archived => s \in occupied
        /\ cmd' = [cmd EXCEPT !.todo = @ \ {s}, !.failed = @ \/ s \in archived]
        /\ UNCHANGED <<archived, budget>>
     \/ /\ s \in archived \ occupied /\ MayFail("undo") /\ Fail
        /\ cmd' = [cmd EXCEPT !.todo = @ \ {s}, !.failed = TRUE]
        /\ archived' \in {archived, archived \ {s}}
  /\ UNCHANGED <<world, refs, tree, copy, profile, reference, pending, record>>

UndoProfile(p) ==
  /\ cmd.at = "undo profiles" /\ p \in cmd.todo
  /\ \/ /\ profile' = [profile EXCEPT ![p] = "before"]
        /\ cmd' = [cmd EXCEPT !.todo = @ \ {p}]
        /\ UNCHANGED budget
     \/ /\ MayFail("undo") /\ Fail
        /\ cmd' = [cmd EXCEPT !.todo = @ \ {p}, !.failed = TRUE]
        /\ profile' \in {profile, [profile EXCEPT ![p] = "before"]}
  /\ UNCHANGED <<archived, refs, tree, copy, world, reference, pending, record>>

\* A destination is removed only when it is what the plan says, its refs after it.
Matches(w) == tree[w] = "full"

\* Mutant: a destination is removed whatever is found there.
UndoUnmatched(w) ==
  /\ cmd.at = "undo trees" /\ w \in cmd.todo
  /\ cmd' = [cmd EXCEPT !.at = "undo tree", !.todo = @ \ {w}, !.now = {w}]
  /\ UNCHANGED <<files, world, reference, pending, record, budget>>

UndoTree(w) ==
  /\ cmd.at = "undo trees" /\ w \in cmd.todo
  /\ \/ /\ tree[w] = "absent"
        /\ cmd' = [cmd EXCEPT !.at = "undo refs", !.todo = @ \ {w}, !.now = {w}]
     \/ /\ Matches(w)
        /\ cmd' = [cmd EXCEPT !.at = "undo tree", !.todo = @ \ {w}, !.now = {w}]
     \/ /\ tree[w] # "absent" /\ ~Matches(w)
        /\ cmd' = [cmd EXCEPT !.todo = @ \ {w}, !.failed = TRUE]
  /\ UNCHANGED <<files, world, reference, pending, record, budget>>

\* Git removes it by force: whatever it holds by now.  A removal that stops leaves all or part.
Left(w) == {tree} \cup IF tree[w] = "absent" THEN {} ELSE {[tree EXCEPT ![w] = "bare"]}
ForceTree(w) ==
  /\ cmd.at = "undo tree" /\ cmd.now = {w}
  /\ tree' = [tree EXCEPT ![w] = "absent"]
  /\ Goto("undo refs")
  /\ UNCHANGED <<archived, refs, copy, profile, world, reference, pending, record, budget>>

TreesOf(at) == IF at = "back refs" THEN "back trees" ELSE "undo trees"
DropRefs(w) ==
  /\ cmd.at \in {"undo refs", "back refs"} /\ cmd.now = {w}
  /\ refs' = refs \ {w}
  /\ cmd' = [cmd EXCEPT !.at = TreesOf(@), !.now = {}]
  /\ UNCHANGED <<archived, tree, copy, profile, world, reference, pending, record, budget>>

\* A Git command that fails ends the work on this tree.
TreeFails(w) ==
  /\ cmd.now = {w} /\ Fail
  /\ \/ cmd.at = "undo tree" /\ MayFail("undo") /\ tree' \in Left(w)
     \/ cmd.at = "undo refs" /\ MayFail("undo") /\ UNCHANGED tree
     \/ cmd.at = "back refs" /\ MayFail("back") /\ UNCHANGED tree
  /\ cmd' = [cmd EXCEPT !.at = TreesOf(@), !.now = {}, !.failed = TRUE]
  /\ UNCHANGED <<archived, refs, copy, profile, world, reference, pending, record>>

\* Mutant: the new worktrees are removed before the profiles are restored.
UndoTreesFirst ==
  /\ cmd.todo = {}
  /\ \/ cmd.at = "undo sources" /\ Next1("undo trees", pending.trees)
     \/ cmd.at = "undo trees" /\ Next1("undo profiles", pending.profiles)
     \/ cmd.at = "undo profiles" /\ Goto("undo end")
  /\ UNCHANGED <<files, world, reference, pending, record, budget>>

UndoPhase ==
  /\ cmd.todo = {}
  /\ \/ cmd.at = "undo sources" /\ Next1("undo profiles", pending.profiles)
     \/ /\ cmd.at = "undo profiles"
        /\ cmd' = [cmd EXCEPT !.at = "undo trees", !.todo = pending.trees,
                              !.found = {w \in Trees : tree[w] = "edited"}]
     \/ cmd.at = "undo trees" /\ Goto("undo end")
  /\ UNCHANGED <<files, world, reference, pending, record, budget>>

\* The journal goes only when nothing failed.
UndoEnd ==
  /\ cmd.at = "undo end"
  /\ IF cmd.failed
     THEN cmd' = Idle /\ UNCHANGED pending
     ELSE cmd' = [Idle EXCEPT !.at = "enter"] /\ pending' = NoPlan
  /\ UNCHANGED <<files, world, reference, record, budget>>

\* ------------------------------------------------------------ _apply
Rollback == cmd' = [cmd EXCEPT !.at = "back"]

Journal ==
  /\ cmd.at = "journal"
  /\ pending' = cmd.plan
  /\ Goto("publish")
  /\ UNCHANGED <<files, world, reference, record, budget>>

Publish ==
  /\ cmd.at = "publish"
  /\ \/ /\ reference' = [p \in Profiles |->
                           {profile[p]} \cup IF p \in cmd.plan.profiles THEN {"before", "after"} ELSE {}]
        /\ Next1("create", cmd.plan.trees) /\ UNCHANGED budget
     \/ Publishable /\ Rollback
  /\ UNCHANGED <<files, world, pending, record>>

\* One worktree: its refs, its directory, the state transplanted from the source.
\* The composites come last, from the branches of the others.
Making(w) == w \in cmd.todo /\ (w \in Profiles => cmd.todo \subseteq Profiles)

Create(w) ==
  /\ cmd.at = "create" /\ Making(w)
  /\ cmd' = [cmd EXCEPT !.at = "add", !.todo = @ \ {w}, !.made = @ \cup {w}, !.now = {w}]
  /\ refs' = refs \cup {w}
  /\ UNCHANGED <<archived, tree, copy, profile, world, reference, pending, record, budget>>

AddTree(w) ==
  /\ cmd.at = "add" /\ cmd.now = {w}
  /\ tree' = [tree EXCEPT ![w] = "bare"]
  /\ Goto("fill")
  /\ UNCHANGED <<archived, refs, copy, profile, world, reference, pending, record, budget>>

\* The snapshot of the source is verified before and after the files are copied.
Snapshot(s) == content[s] = cmd.plan.content[s]
Fill(w) ==
  /\ cmd.at = "fill" /\ cmd.now = {w}
  /\ copy' = [copy EXCEPT ![w] = content]
  /\ \/ /\ \A s \in cmd.plan.from[w] : Snapshot(s)
        /\ tree' = [tree EXCEPT ![w] = "full"]
        /\ Goto("create")
     \/ /\ \E s \in cmd.plan.from[w] : ~Snapshot(s)
        /\ UNCHANGED tree
        /\ Rollback
  /\ UNCHANGED <<archived, refs, profile, world, reference, pending, record, budget>>

CreateFails ==
  /\ cmd.at \in {"create", "add", "fill"} /\ MayFail("create") /\ Fail
  /\ Rollback
  /\ UNCHANGED <<files, world, reference, pending, record>>

\* The rewritten bytes and the file are exchanged; a directory that cannot be
\* synchronised afterwards looks like an exchange that never happened.
Exchange(p) ==
  /\ cmd.at = "exchange" /\ p \in cmd.todo
  /\ \/ /\ profile' = [profile EXCEPT ![p] = "after"]
        /\ cmd' = [cmd EXCEPT !.todo = @ \ {p}, !.swapped = @ \cup {p}]
        /\ UNCHANGED budget
     \/ /\ MayFail("exchange") /\ Fail /\ Rollback
        /\ UNCHANGED profile
     \/ /\ MayFail("sync") /\ Fail /\ Rollback
        /\ profile' = [profile EXCEPT ![p] = "after"]
  /\ UNCHANGED <<archived, refs, tree, copy, world, reference, pending, record>>

Archive(s) ==
  /\ cmd.at = "archive" /\ s \in cmd.todo
  /\ \/ /\ archived' = archived \cup {s}
        /\ cmd' = [cmd EXCEPT !.at = "verify", !.todo = @ \ {s}, !.now = {s}, !.moved = @ \cup {s}]
        /\ UNCHANGED budget
     \/ /\ MayFail("archive") /\ Fail
        /\ cmd' = [cmd EXCEPT !.at = "back", !.moved = @ \cup {s}]
        /\ UNCHANGED archived
  /\ UNCHANGED <<refs, tree, copy, profile, world, reference, pending, record>>

\* What was archived must still be what was planned and copied.
VerifyArchive(s) ==
  /\ cmd.at = "verify" /\ cmd.now = {s}
  /\ IF Snapshot(s) THEN Goto("archive") ELSE Rollback
  /\ UNCHANGED <<files, world, reference, pending, record, budget>>

ApplyPhase ==
  /\ cmd.todo = {}
  /\ \/ cmd.at = "create" /\ Next1("exchange", cmd.plan.profiles)
     \/ cmd.at = "exchange" /\ Next1("archive", cmd.plan.sources)
     \/ cmd.at = "archive" /\ Goto("record")
  /\ UNCHANGED <<files, world, reference, pending, record, budget>>

\* The record commits; it may be visible although its durability is uncertain.
Record ==
  /\ cmd.at = "record"
  /\ \/ record' = cmd.plan /\ Goto("narrow") /\ UNCHANGED budget
     \/ record' = cmd.plan /\ MayFail("unsure") /\ Fail /\ cmd' = Idle
     \/ MayFail("record") /\ Fail /\ Rollback /\ UNCHANGED record
  /\ UNCHANGED <<files, world, reference, pending>>

NarrowReferences ==
  /\ cmd.at = "narrow"
  /\ \/ Narrow /\ Goto("unlink") /\ UNCHANGED budget
     \/ Publishable /\ cmd' = Idle
  /\ UNCHANGED <<files, world, pending, record>>

Unlink ==
  /\ cmd.at = "unlink"
  /\ cmd' = Idle
  /\ \/ pending' = NoPlan /\ UNCHANGED budget
     \/ MayFail("unlink") /\ Fail /\ UNCHANGED pending
  /\ UNCHANGED <<files, world, reference, record>>

\* ------------------------------------------- the rollback of a failed _apply
Back ==
  /\ cmd.at = "back"
  /\ Next1("back sources", cmd.moved)
  /\ UNCHANGED <<files, world, reference, pending, record, budget>>

RestoreSource(s) ==
  /\ cmd.at = "back sources" /\ s \in cmd.todo
  /\ \/ /\ archived' = archived \ {s}
        /\ cmd' = [cmd EXCEPT !.todo = @ \ {s}, !.failed = @ \/ ~Snapshot(s)]
        /\ UNCHANGED budget
     \/ /\ s \in archived /\ MayFail("back") /\ Fail
        /\ cmd' = [cmd EXCEPT !.todo = @ \ {s}, !.failed = TRUE]
        /\ UNCHANGED archived
  /\ UNCHANGED <<refs, tree, copy, profile, world, reference, pending, record>>

RollbackProfile(p) ==
  /\ cmd.at = "back profiles" /\ p \in cmd.todo
  /\ \/ /\ profile' = [profile EXCEPT ![p] = "before"]
        /\ cmd' = [cmd EXCEPT !.todo = @ \ {p}]
        /\ UNCHANGED budget
     \/ /\ MayFail("back") /\ Fail
        /\ cmd' = [cmd EXCEPT !.todo = @ \ {p}, !.failed = TRUE]
        /\ UNCHANGED profile
  /\ UNCHANGED <<archived, refs, tree, copy, world, reference, pending, record>>

BackReferences ==
  /\ cmd.at = "back references"
  /\ \/ Narrow /\ Next1("back trees", cmd.made) /\ UNCHANGED budget
     \/ Publishable /\ cmd' = [cmd EXCEPT !.at = "back trees", !.todo = cmd.made, !.failed = TRUE]
  /\ UNCHANGED <<files, world, pending, record>>

\* Forced here too, and nothing is looked at: whatever the destination holds by now.
RemoveTree(w) ==
  /\ cmd.at = "back trees" /\ w \in cmd.todo
  /\ \/ /\ tree' = [tree EXCEPT ![w] = "absent"]
        /\ cmd' = [cmd EXCEPT !.at = "back refs", !.todo = @ \ {w}, !.now = {w}]
        /\ UNCHANGED budget
     \/ /\ MayFail("back") /\ Fail
        /\ cmd' = [cmd EXCEPT !.todo = @ \ {w}, !.failed = TRUE]
        /\ tree' \in Left(w)
  /\ UNCHANGED <<archived, refs, copy, profile, world, reference, pending, record>>

BackPhase ==
  /\ cmd.todo = {}
  /\ \/ cmd.at = "back sources" /\ Next1("back profiles", cmd.swapped)
     \/ cmd.at = "back profiles" /\ Goto("back references")
     \/ cmd.at = "back trees" /\ Goto("back end")
  /\ UNCHANGED <<files, world, reference, pending, record, budget>>

BackEnd ==
  /\ cmd.at = "back end"
  /\ cmd' = Idle
  /\ pending' = IF cmd.failed THEN pending ELSE NoPlan
  /\ UNCHANGED <<files, world, reference, record, budget>>

\* ----------------------------------------------------------- the world
Removing == CASE cmd.at = "undo tree" -> cmd.now [] cmd.at = "back trees" -> cmd.todo [] OTHER -> {}
Crash ==
  /\ cmd.at # "idle" /\ budget.crash < MaxCrash
  /\ cmd' = Idle
  /\ budget' = [budget EXCEPT !.crash = @ + 1]
  /\ UNCHANGED tree \/ \E w \in Removing : tree' \in Left(w)
  /\ UNCHANGED <<archived, refs, copy, profile, world, reference, pending, record>>

LockFree == cmd.at \in {"idle", "waiting"}
Edits == budget.edit < MaxEdit /\ budget' = [budget EXCEPT !.edit = @ + 1]

\* Editors and Git in a former repository take no lock; nor do they in a new worktree.
Edit(s) ==
  /\ Edits /\ content' = [content EXCEPT ![s] = @ + 1]
  /\ UNCHANGED <<files, occupied, live, reference, pending, record, cmd>>

EditTree(w) ==
  /\ Edits /\ tree[w] = "full" /\ tree' = [tree EXCEPT ![w] = "edited"]
  /\ UNCHANGED <<archived, refs, copy, profile, world, reference, pending, record, cmd>>

\* The start of a topology and of a checkout share the lock; a topology then runs without it.
StartTopology ==
  /\ LockFree /\ ~live /\ budget.live < MaxLive
  /\ live' = TRUE /\ budget' = [budget EXCEPT !.live = @ + 1]
  /\ UNCHANGED <<files, occupied, content, reference, pending, record, cmd>>

StopTopology ==
  /\ live /\ live' = FALSE
  /\ UNCHANGED <<files, occupied, content, reference, pending, record, cmd, budget>>

Occupy(s) ==
  /\ LockFree /\ s \in archived \ occupied /\ budget.occupy < MaxOccupy
  /\ occupied' = occupied \cup {s} /\ budget' = [budget EXCEPT !.occupy = @ + 1]
  /\ UNCHANGED <<files, content, live, reference, pending, record, cmd>>

Vacate(s) ==
  /\ LockFree /\ s \in occupied
  /\ occupied' = occupied \ {s}
  /\ UNCHANGED <<files, content, live, reference, pending, record, cmd, budget>>

\* Releasing the delivery scope that owns an unchanged profile deletes it, under the shared lock.
DeleteProfile(p) ==
  /\ LockFree /\ profile[p] = "before" /\ budget.delete < MaxDelete
  /\ profile' = [profile EXCEPT ![p] = "gone"]
  /\ reference' = [reference EXCEPT ![p] = {"gone"}]
  /\ budget' = [budget EXCEPT !.delete = @ + 1]
  /\ UNCHANGED <<archived, refs, tree, copy, world, pending, record, cmd>>

Command ==
  \/ Start \/ AlreadyApplied \/ Enter \/ EnterFails \/ EnterPending \/ UndoPhase \/ UndoEnd
  \/ Journal \/ Publish \/ CreateFails \/ ApplyPhase \/ Record \/ NarrowReferences \/ Unlink
  \/ Back \/ BackReferences \/ BackPhase \/ BackEnd
  \/ \E s \in Sources : UndoSource(s) \/ Archive(s) \/ VerifyArchive(s) \/ RestoreSource(s)
  \/ \E p \in Profiles : UndoProfile(p) \/ Exchange(p) \/ RollbackProfile(p)
  \/ \E w \in Trees : UndoTree(w) \/ ForceTree(w) \/ DropRefs(w) \/ TreeFails(w)
  \/ \E w \in Trees : Create(w) \/ AddTree(w) \/ Fill(w) \/ RemoveTree(w)

Next ==
  \/ Command \/ Crash \/ StartTopology \/ StopTopology
  \/ \E s \in Sources : Edit(s) \/ Occupy(s) \/ Vacate(s)
  \/ \E w \in Trees : EditTree(w)
  \/ \E p \in Profiles : DeleteProfile(p)

Spec == Init /\ [][Next]_vars

\* The operator repeats the command until there is nothing left to do.
LiveSpec == Spec /\ WF_vars(Command) /\ WF_vars(StopTopology) /\ \A s \in Sources : WF_vars(Vacate(s))

\* ---------------------------------------------------------- properties
\* While anything is changed, the journal or the record says so: a crash at any point,
\* any failing step and any rerun leave no half-migrated workspace without its journal.
Changed == archived # {} \/ refs # {} \/ (\E w \in Trees : tree[w] # "absent") \/ (\E p \in Profiles : profile[p] = "after")
ChangedIsJournaled == Changed => pending # NoPlan \/ record # NoPlan

\* A record, once visible, stands for all of the migration, whatever failed before.
RecordIsWhole ==
  record # NoPlan =>
    /\ record.sources \subseteq archived
    /\ \A w \in record.trees : tree[w] \in {"full", "edited"} /\ w \in refs
    /\ \A p \in record.profiles : profile[p] # "before"

\* Whatever step was the last, a profile selects work that is there: the old sources
\* in their places, or the trees that replace them, complete.
Planned == IF record # NoPlan THEN record.trees ELSE pending.trees
TreesFor(p) == IF p \in Planned THEN {p} ELSE Planned \cap Uses[p]
ProfileResolves ==
  \A p \in Profiles :
    /\ profile[p] = "before" => Uses[p] \cap archived = {}
    /\ profile[p] = "after" => \A w \in TreesFor(p) : tree[w] \in {"full", "edited"}

\* Cleanup sees references to every generation of a profile that may be in the file.
ReferencesCover == \A p \in Profiles : profile[p] \in reference[p]

\* What is archived for good was copied as it is: an edit between copy and rename is noticed.
ArchivedAsCopied ==
  [][\A s \in Sources :
       cmd.at = "verify" /\ cmd.now = {s} /\ cmd'.at = "archive" =>
         \A w \in cmd.plan.trees : s \in cmd.plan.from[w] => copy[w][s] = content[s]]_vars

\* Sources, trees and profiles of a first application move only while no topology runs.
Moved == files' # files
NothingLiveMoves == [][Moved /\ cmd.at \in {"create", "add", "fill", "exchange", "archive"} => ~live]_vars

\* The rollback of an interrupted migration keeps what a user did in a new worktree by the
\* time it comes to the worktrees, through all it does after.  What is done between the look
\* at a worktree and its removal by force is lost.
RecoveryKeepsEdits ==
  [][\A w \in cmd.found : tree[w] = "edited" => tree'[w] = "edited"]_vars
=============================================================================
