---------------------------- MODULE ScopeLifecycle ----------------------------
(***************************************************************************)
(* One development scope, from `scope create` to `scope release`           *)
(* (src/atrinik_workspace/scopes.py): the worktrees, branches, profile and *)
(* physical reference a creation publishes one by one, what a failed       *)
(* creation takes back, the retry that adopts what is left, and the release*)
(* that is previewed, applied action by action and resumed.                *)
(*                                                                         *)
(* A command holds its leases from its first step to its last.  So builds  *)
(* and topologies, which need leases of their own, come between commands;  *)
(* an editor in a worktree needs none and interleaves with every step.     *)
(***************************************************************************)
EXTENDS Naturals, Sequences, SequencesExt, FiniteSets

CONSTANTS N,          \* checkouts the scope selects, in their order
          B,          \* build roots the scope's profile can have
          Enabled,    \* what users do beside the commands
          Faults,     \* how a step of a command can fail
          MaxFault,   \* bound on the steps that fail
          MaxCrash,   \* bound on the commands killed
          MaxUser     \* bound on what users do

Rows == 1 .. N
Builds == 1 .. B

UserKinds == {"edit", "commit", "build", "topology", "late", "rebuild", "upstream", "behind"}
FaultKinds == {"step", "between", "uncertain", "recovery", "half"}

\* What an instance assumes of the constants.
Assumptions ==
  /\ N \in Nat \ {0} /\ B \in Nat
  /\ Enabled \subseteq UserKinds /\ Faults \subseteq FaultKinds
  /\ MaxFault \in Nat /\ MaxCrash \in Nat /\ MaxUser \in Nat

VARIABLES journal,   \* the creation journal: its status, its rows and its profile
          record,    \* the completed scope record is published
          tree,      \* tree[r]: the worktree of a checkout
          branch,    \* branch[r]: the head of its branch; 1 is the commit asked for
          merged,    \* the checkouts whose primary HEAD contains that commit
          drifted,   \* the checkouts whose start point resolves to another commit by now
          profile,   \* the profile's file
          ref,       \* its entry in the registry of physical references
          built,     \* built[b]: which build stands in a root
          topology,  \* the topology of the scope: its state and generation
          release,   \* the release journal
          preview,   \* the plan the operator has seen last
          cmd,       \* the command that runs
          spent      \* how much of each bound is used

vars == <<journal, record, tree, branch, merged, drifted, profile, ref, built, topology,
          release, preview, cmd, spent>>
creation == <<journal, record>>
sources == <<tree, branch, merged, drifted>>
reach == <<profile, ref>>
users == <<built, topology>>

NoBranch == 0
Asked == 1
NoBuild == 0
HalfBuild == MaxUser + 1
NoPlan == [kind |-> "none"]
NoRelease == [status |-> "none", plan |-> NoPlan, done |-> 0, phase |-> "none"]
Idle == [at |-> "idle"]

Init ==
  /\ journal = [status |-> "none", row |-> [r \in Rows |-> "planned"], profile |-> "planned"]
  /\ record = FALSE
  /\ tree = [r \in Rows |-> "none"]
  /\ branch = [r \in Rows |-> NoBranch]
  /\ merged \in IF "behind" \in Enabled THEN SUBSET Rows ELSE {Rows}
  /\ drifted = {}
  /\ profile = FALSE /\ ref = FALSE
  /\ built = [b \in Builds |-> NoBuild]
  /\ topology = [state |-> "none", generation |-> 0]
  /\ release = NoRelease
  /\ preview = NoPlan
  /\ cmd = Idle
  /\ spent = [fault |-> 0, crash |-> 0, user |-> 0]

-----------------------------------------------------------------------------
(* Creation *)

Free == cmd.at = "idle"
At(station) == cmd.at = station
Go(station) == cmd' = [cmd EXCEPT !.at = station]
Start(station, retries) ==
  cmd' = [at |-> station, row |-> 1, profiled |-> FALSE, referenced |-> FALSE,
          uncertain |-> FALSE, retries |-> retries]
Note(status) == journal' = [journal EXCEPT !.status = status]
NoteRow(status) == journal' = [journal EXCEPT !.row[cmd.row] = status]
NoteProfile(status) == journal' = [journal EXCEPT !.profile = status]

\* The profile selects the worktrees, or the registry says that it does.
Referenced == profile \/ ref

Nothing == /\ ~Referenced /\ topology.state = "none"
           /\ \A r \in Rows : tree[r] = "none"

\* The name is taken: a directory that has neither reservation nor journal.
CreateBegins ==
  /\ Free /\ journal.status = "none"
  /\ Nothing /\ \A r \in Rows : branch[r] = NoBranch
  /\ Note("bare") /\ Start("reserve", FALSE)
  /\ UNCHANGED <<record, sources, reach, users, release, preview, spent>>

Reserve ==
  /\ At("reserve")
  /\ Note("creating") /\ Go("add")
  /\ UNCHANGED <<record, sources, reach, users, release, preview, spent>>

\* Mutant: a branch the failed creation cut is in the way of its retry.
RetryableBranchless ==
  /\ journal.status \in {"rolled back", "recovery required"}
  /\ ~record /\ Nothing
  /\ drifted = {} /\ \A r \in Rows : branch[r] = NoBranch
  /\ journal.profile \in {"planned", "rolled back"}
  /\ \A r \in Rows : journal.row[r] \in {"planned", "rolled back"}

\* The exact request again: its digest covers the commits, and every row and the
\* profile were never published or were taken back.
Retryable ==
  /\ journal.status \in {"rolled back", "recovery required"}
  /\ ~record /\ Nothing
  /\ drifted = {}
  /\ journal.profile \in {"planned", "rolled back"}
  /\ \A r \in Rows : journal.row[r] \in {"planned", "rolled back"}

RetryBegins ==
  /\ Free /\ Retryable
  /\ Note("recovering") /\ Start("add", TRUE)
  /\ UNCHANGED <<record, sources, reach, users, release, preview, spent>>

\* A branch that was left behind is adopted where it stands; a new one is cut
\* after a fetch, which moves the start point of the request if that is a branch
\* of the remote and another commit is there by now.
AddWorktree ==
  LET r == cmd.row
  IN  /\ At("add")
      /\ branch[r] = NoBranch \/ (cmd.retries /\ branch[r] = Asked)
      /\ tree' = [tree EXCEPT ![r] = "clean"]
      /\ branch' = [branch EXCEPT ![r] = Asked]
      /\ \/ UNCHANGED drifted
         \/ "upstream" \in Enabled /\ branch[r] = NoBranch /\ drifted' = drifted \cup {r}
      /\ Go("note row")
      /\ UNCHANGED <<creation, merged, reach, users, release, preview, spent>>

NoteWorktree ==
  /\ At("note row")
  /\ NoteRow("created")
  /\ IF cmd.row = N THEN Go("publish") ELSE cmd' = [cmd EXCEPT !.at = "add", !.row = @ + 1]
  /\ UNCHANGED <<record, sources, reach, users, release, preview, spent>>

PublishReference ==
  /\ At("publish")
  /\ ref' = TRUE /\ Go("note reference")
  /\ UNCHANGED <<creation, sources, profile, users, release, preview, spent>>

NoteReference ==
  /\ At("note reference")
  /\ NoteProfile("reference-published")
  /\ cmd' = [cmd EXCEPT !.at = "write profile", !.referenced = TRUE]
  /\ UNCHANGED <<record, sources, reach, users, release, preview, spent>>

WriteProfile ==
  /\ At("write profile")
  /\ profile' = TRUE /\ Go("note profile")
  /\ UNCHANGED <<creation, sources, ref, users, release, preview, spent>>

NoteProfileCreated ==
  /\ At("note profile")
  /\ NoteProfile("created")
  /\ cmd' = [cmd EXCEPT !.at = "record", !.profiled = TRUE]
  /\ UNCHANGED <<record, sources, reach, users, release, preview, spent>>

WriteRecord ==
  /\ At("record")
  /\ record' = TRUE /\ Go("complete")
  /\ UNCHANGED <<journal, sources, reach, users, release, preview, spent>>

\* Also what a failure after the record's publication ends with.
Complete ==
  /\ At("complete")
  /\ Note("complete") /\ cmd' = Idle
  /\ UNCHANGED <<record, sources, reach, users, release, preview, spent>>

-----------------------------------------------------------------------------
(* Failed creations *)

Effects == {"add", "publish", "write profile", "record"}
Notes == {"note row", "note reference", "note profile"}

May(fault) == fault \in Faults /\ spent.fault < MaxFault
Failing == spent' = [spent EXCEPT !.fault = @ + 1]

\* A retry keeps everything; a first attempt is rolled back.  A `worktree add'
\* that fails may have cut the branch.
Fail ==
  /\ \/ cmd.at \in Effects /\ May("step")
     \/ cmd.at \in Notes /\ May("between")
  /\ cmd.retries => May("recovery")
  /\ IF cmd.retries THEN Note("recovery required") /\ cmd' = Idle
     ELSE Note("rolling back") /\ Go("undo profile")
  /\ \/ UNCHANGED branch
     \/ At("add") /\ branch[cmd.row] = NoBranch /\ branch' = [branch EXCEPT ![cmd.row] = Asked]
  /\ ref' = (ref /\ ~(At("write profile") /\ ~cmd.retries))
  /\ Failing
  /\ UNCHANGED <<record, tree, merged, drifted, profile, users, release, preview>>

\* Whether the rename of the profile or of the record is durable is not known:
\* a first attempt undoes nothing, and neither does a retry.
PublicationUncertain ==
  /\ cmd.at \in {"write profile", "record"} /\ May("uncertain")
  /\ cmd.retries => May("recovery")
  /\ journal' = [journal EXCEPT !.status = "recovery required",
                                !.profile = IF At("write profile") /\ ~cmd.retries THEN "preserved" ELSE @]
  /\ IF At("write profile") THEN profile' \in BOOLEAN /\ UNCHANGED record
     ELSE record' \in BOOLEAN /\ UNCHANGED profile
  /\ cmd' = Idle /\ Failing
  /\ UNCHANGED <<sources, ref, users, release, preview>>

GoUndoRows == cmd' = [cmd EXCEPT !.at = "undo row", !.row = N]

UndoProfile ==
  /\ At("undo profile")
  /\ profile' = (profile /\ ~cmd.profiled)
  /\ Go("undo reference")
  /\ UNCHANGED <<creation, sources, ref, users, release, preview, spent>>

UndoReference ==
  /\ At("undo reference")
  /\ ref' = (ref /\ ~(cmd.profiled \/ cmd.referenced))
  /\ IF cmd.profiled \/ cmd.referenced THEN NoteProfile("rolled back") ELSE UNCHANGED journal
  /\ GoUndoRows
  /\ UNCHANGED <<record, sources, profile, users, release, preview, spent>>

\* What cannot be undone is kept, and said to be.
UndoFails ==
  /\ cmd.at \in {"undo profile", "undo reference"} /\ May("step")
  /\ cmd.profiled \/ cmd.referenced
  /\ NoteProfile("preserved")
  /\ cmd' = [cmd EXCEPT !.at = "undo row", !.row = N, !.uncertain = TRUE]
  /\ Failing
  /\ UNCHANGED <<record, sources, reach, users, release, preview>>

\* The references of the profile, if it is still there, keep the worktrees too.
Exact(r) == tree[r] = "clean" /\ branch[r] = Asked /\ ~Referenced

NextRowUp ==
  IF cmd.row = 1 THEN Go("undone") ELSE cmd' = [cmd EXCEPT !.at = "undo row", !.row = @ - 1]
PreserveRow ==
  /\ NoteRow("preserved")
  /\ cmd' = [cmd EXCEPT !.uncertain = TRUE, !.at = IF cmd.row = 1 THEN "undone" ELSE "undo row",
                        !.row = IF @ = 1 THEN @ ELSE @ - 1]

\* Only a look.  A commit between its reading of HEAD and its reading of the
\* status amounts to one after both.  The status of a row that has changed is
\* written with the next note only; nothing reads it before the last one.
UndoRow ==
  LET r == cmd.row
  IN  /\ At("undo row")
      /\ CASE journal.row[r] # "created" -> NextRowUp /\ UNCHANGED journal
           [] journal.row[r] = "created" /\ ~Exact(r) -> PreserveRow
           [] OTHER -> Go("undo tree") /\ UNCHANGED journal
      /\ UNCHANGED <<record, sources, reach, users, release, preview, spent>>

\* What a user has done since the look: Git refuses a worktree with changes, and
\* removes one with a commit.
UndoTree ==
  LET r == cmd.row
  IN  /\ At("undo tree")
      /\ IF tree[r] = "clean"
         THEN tree' = [tree EXCEPT ![r] = "none"] /\ Go("undo branch") /\ UNCHANGED journal
         ELSE PreserveRow /\ UNCHANGED tree
      /\ UNCHANGED <<record, branch, merged, drifted, reach, users, release, preview, spent>>

\* Mutant: a branch that Git refuses to delete counts as deleted.
UndoBranchUnchecked ==
  LET r == cmd.row
  IN  /\ At("undo branch")
      /\ NoteRow("rolled back") /\ NextRowUp
      /\ branch' = [branch EXCEPT ![r] = IF @ = Asked /\ r \in merged THEN NoBranch ELSE @]
      /\ UNCHANGED <<record, tree, merged, drifted, reach, users, release, preview, spent>>

\* `branch -d' refuses what the primary's HEAD does not contain: a commit since
\* the look, or the commit asked for itself.  The worktree is gone then.
UndoBranch ==
  LET r == cmd.row
  IN  /\ At("undo branch")
      /\ IF branch[r] = Asked /\ r \in merged
         THEN /\ branch' = [branch EXCEPT ![r] = NoBranch]
              /\ NoteRow("rolled back") /\ NextRowUp
         ELSE PreserveRow /\ UNCHANGED branch
      /\ UNCHANGED <<record, tree, merged, drifted, reach, users, release, preview, spent>>

\* Git fails, at the look or at either removal.
UndoRowFails ==
  /\ cmd.at \in {"undo row", "undo tree", "undo branch"} /\ May("step")
  /\ journal.row[cmd.row] = "created"
  /\ PreserveRow
  /\ Failing
  /\ UNCHANGED <<record, sources, reach, users, release, preview>>

UndoEnds ==
  /\ At("undone")
  /\ Note(IF cmd.uncertain THEN "recovery required" ELSE "rolled back")
  /\ cmd' = Idle
  /\ UNCHANGED <<record, sources, reach, users, release, preview, spent>>

-----------------------------------------------------------------------------
(* Release: the plan *)

Actions(plan) ==
  SelectSeq([b \in Builds |-> [kind |-> "build", n |-> b]], LAMBDA a : plan.build[a.n] # NoBuild)
    \o (IF plan.profile THEN <<[kind |-> "profile", n |-> 0]>> ELSE <<>>)
    \o Reverse(SelectSeq([r \in Rows |-> [kind |-> "tree", n |-> r]],
                         LAMBDA a : plan.head[a.n] # NoBranch))

\* A worktree that is gone may have left its branch, and only as it was cut.
Protected ==
  \/ topology.state \in {"running", "unclean"}
  \/ \E b \in Builds : built[b] = HalfBuild
  \/ \E r \in Rows : IF tree[r] = "none" THEN branch[r] \notin {NoBranch, Asked} ELSE tree[r] # "clean"

PlanNow ==
  [kind |-> "plan", topology |-> topology, build |-> built, profile |-> profile, head |-> branch]

Pristine == release.status = "applying" /\ release.done = 0 /\ release.phase = "none"
Replans == release.status = "none" \/ Pristine
CurrentPlan == IF Replans THEN PlanNow ELSE release.plan

Preview ==
  /\ Free /\ record
  /\ Replans => ~Protected
  /\ preview # CurrentPlan /\ preview' = CurrentPlan
  /\ UNCHANGED <<creation, sources, reach, users, release, cmd, spent>>

-----------------------------------------------------------------------------
(* Release: its steps *)

Doing == Actions(release.plan)[cmd.action]
Gone(a) == CASE a.kind = "build" -> built[a.n] = NoBuild
             [] a.kind = "profile" -> ~profile
             [] OTHER -> tree[a.n] = "none" /\ branch[a.n] = NoBranch

ReleaseBegins ==
  /\ Free /\ record
  /\ preview # NoPlan /\ preview = CurrentPlan
  /\ Replans => ~Protected
  /\ cmd' = [at |-> "journal", action |-> 1]
  /\ UNCHANGED <<creation, sources, reach, users, release, preview, spent>>

\* Also a release that is complete is written down as applying again.
WriteRelease ==
  /\ At("journal")
  /\ release' = [status |-> "applying", plan |-> preview,
                 done |-> IF Replans THEN 0 ELSE release.done,
                 phase |-> IF Replans THEN "none" ELSE release.phase]
  /\ Go("evidence")
  /\ UNCHANGED <<creation, sources, reach, users, preview, spent>>

\* Only a topology the plan retains is compared with what the plan says of it.
CheckEvidence ==
  /\ At("evidence")
  /\ IF release.plan.topology.state = "none" \/ release.plan.topology = topology
     THEN Go("next") ELSE cmd' = Idle
  /\ UNCHANGED <<creation, sources, reach, users, release, preview, spent>>

\* The station an action is done at.
Place(a) == CASE a.kind = "build" -> "build" [] a.kind = "profile" -> "profile" [] OTHER -> "tree"

NextAction ==
  /\ At("next") /\ cmd.action <= Len(Actions(release.plan))
  /\ IF cmd.action <= release.done
     THEN /\ cmd' = IF Gone(Doing) THEN [cmd EXCEPT !.action = @ + 1] ELSE Idle
          /\ UNCHANGED release
     ELSE /\ release' = [release EXCEPT !.phase = IF @ = "none" THEN "prepared" ELSE @]
          /\ Go(Place(Doing))
  /\ UNCHANGED <<creation, sources, reach, users, preview, spent>>

Removing(station) ==
  release' = [release EXCEPT !.phase = "removing"] /\ Go(station)
Refuse == cmd' = Idle /\ UNCHANGED release

\* An interrupted removal goes on with whatever it finds in the root.
CheckBuild ==
  /\ At("build")
  /\ \E b \in Builds :
       /\ b = Doing.n
       /\ IF release.phase = "removing" THEN Go("remove build") /\ UNCHANGED release
          ELSE IF built[b] = release.plan.build[b] THEN Removing("remove build") ELSE Refuse
  /\ UNCHANGED <<creation, sources, reach, users, preview, spent>>

RemoveBuild ==
  /\ At("remove build")
  /\ built' = [built EXCEPT ![Doing.n] = NoBuild]
  /\ Go("finish")
  /\ UNCHANGED <<creation, sources, reach, topology, release, preview, spent>>

CheckProfile ==
  /\ At("profile")
  /\ CASE profile -> Removing("unlink profile")
       [] ~profile /\ release.phase = "removing" -> Go("remove reference") /\ UNCHANGED release
       [] OTHER -> Refuse
  /\ UNCHANGED <<creation, sources, reach, users, preview, spent>>

UnlinkProfile ==
  /\ At("unlink profile")
  /\ profile' = FALSE /\ Go("remove reference")
  /\ UNCHANGED <<creation, sources, ref, users, release, preview, spent>>

RemoveReference ==
  /\ At("remove reference")
  /\ ref' = FALSE /\ Go("finish")
  /\ UNCHANGED <<creation, sources, profile, users, release, preview, spent>>

\* A worktree that is already gone leaves its branch to delete, if it is the
\* branch of the plan; without either, only a removal that had begun is believed.
CheckTree ==
  /\ At("tree")
  /\ \E r \in Rows : LET planned == branch[r] = release.plan.head[r] IN
       /\ r = Doing.n
       /\ IF tree[r] = "none"
          THEN IF planned \/ (branch[r] = NoBranch /\ release.phase = "removing")
               THEN Removing("remove branch") ELSE Refuse
          ELSE IF tree[r] = "clean" /\ planned /\ ~Referenced
               THEN Removing("remove tree") ELSE Refuse
  /\ UNCHANGED <<creation, sources, reach, users, preview, spent>>

\* Mutant: the worktree is removed with --force.
RemoveTreeForced ==
  /\ At("remove tree")
  /\ IF TRUE
     THEN tree' = [tree EXCEPT ![Doing.n] = "none"] /\ Go("remove branch")
     ELSE cmd' = Idle /\ UNCHANGED tree
  /\ UNCHANGED <<creation, branch, merged, drifted, reach, users, release, preview, spent>>

\* Git itself refuses a tree that has changes by now.
RemoveTree ==
  /\ At("remove tree")
  /\ IF tree[Doing.n] = "clean"
     THEN tree' = [tree EXCEPT ![Doing.n] = "none"] /\ Go("remove branch")
     ELSE cmd' = Idle /\ UNCHANGED tree
  /\ UNCHANGED <<creation, branch, merged, drifted, reach, users, release, preview, spent>>

RemoveBranch ==
  LET r == Doing.n
  IN  /\ At("remove branch")
      /\ IF branch[r] \in {NoBranch, release.plan.head[r]}
         THEN branch' = [branch EXCEPT ![r] = NoBranch] /\ Go("finish")
         ELSE cmd' = Idle /\ UNCHANGED branch
      /\ UNCHANGED <<creation, tree, merged, drifted, reach, users, release, preview, spent>>

\* Mutant: an action whose removal was resumed is journaled twice.
FinishTwice ==
  /\ At("finish")
  /\ release' = [release EXCEPT !.done = @ + 1 + spent.crash, !.phase = "none"]
  /\ cmd' = [cmd EXCEPT !.at = "next", !.action = @ + 1]
  /\ UNCHANGED <<creation, sources, reach, users, preview, spent>>

Finish ==
  /\ At("finish")
  /\ release' = [release EXCEPT !.done = @ + 1, !.phase = "none"]
  /\ cmd' = [cmd EXCEPT !.at = "next", !.action = @ + 1]
  /\ UNCHANGED <<creation, sources, reach, users, preview, spent>>

ReleaseEnds ==
  /\ At("next") /\ cmd.action > Len(Actions(release.plan))
  /\ release' = [release EXCEPT !.status = "complete"]
  /\ cmd' = Idle
  /\ UNCHANGED <<creation, sources, reach, users, preview, spent>>

-----------------------------------------------------------------------------
(* Kills and users *)

Kill ==
  /\ ~Free /\ spent.crash < MaxCrash
  /\ cmd' = Idle
  /\ spent' = [spent EXCEPT !.crash = @ + 1]
  /\ UNCHANGED <<creation, sources, reach, users, release, preview>>

\* Git, or the removal of a build, is killed with the command, half-way.
KillHalfway ==
  /\ cmd.at \in {"add", "undo tree", "remove tree", "remove build"} /\ spent.crash < MaxCrash
  /\ "half" \in Faults
  /\ CASE At("add") -> tree' = [tree EXCEPT ![cmd.row] = "half"] /\ UNCHANGED built
       [] At("undo tree") -> /\ tree[cmd.row] = "clean"
                             /\ tree' = [tree EXCEPT ![cmd.row] = "half"] /\ UNCHANGED built
       [] At("remove tree") -> /\ tree[Doing.n] = "clean"
                               /\ tree' = [tree EXCEPT ![Doing.n] = "half"] /\ UNCHANGED built
       [] OTHER -> /\ built[Doing.n] # NoBuild
                   /\ built' = [built EXCEPT ![Doing.n] = HalfBuild] /\ UNCHANGED tree
  /\ cmd' = Idle
  /\ spent' = [spent EXCEPT !.crash = @ + 1]
  /\ UNCHANGED <<creation, branch, merged, drifted, reach, topology, release, preview>>

Wants(kind) == kind \in Enabled /\ spent.user < MaxUser
Using == spent' = [spent EXCEPT !.user = @ + 1]

Edit(r) ==
  /\ Wants("edit") /\ tree[r] \in {"clean", "dirty"}
  /\ tree' = [tree EXCEPT ![r] = IF @ = "clean" THEN "dirty" ELSE "clean"]
  /\ Using
  /\ UNCHANGED <<creation, branch, merged, drifted, reach, users, release, preview, cmd>>

Commit(r) ==
  /\ Wants("commit") /\ tree[r] \in {"clean", "dirty"}
  /\ tree' = [tree EXCEPT ![r] = "clean"]
  /\ branch' = [branch EXCEPT ![r] = @ + 1]
  /\ Using
  /\ UNCHANGED <<creation, merged, drifted, reach, users, release, preview, cmd>>

\* Neither asks whether a release of the scope has begun.
MayUse(kind) ==
  /\ Free /\ Wants(kind) /\ record /\ profile /\ \A r \in Rows : tree[r] \in {"clean", "dirty"}
  /\ \/ release.status = "none"
     \/ "late" \in Enabled /\ (release.phase = "removing" => "rebuild" \in Enabled)

Build(b) ==
  /\ MayUse("build")
  /\ built' = [built EXCEPT ![b] = spent.user + 1]
  /\ Using
  /\ UNCHANGED <<creation, sources, reach, topology, release, preview, cmd>>

Up ==
  /\ MayUse("topology") /\ topology.state # "running"
  /\ topology' = [state |-> "running", generation |-> topology.generation + 1]
  /\ Using
  /\ UNCHANGED <<creation, sources, reach, built, release, preview, cmd>>

\* It stops as it was asked to, or its supervisor is lost.
Down ==
  /\ Free /\ topology.state = "running"
  /\ \E state \in {"clean", "unclean"} : topology' = [topology EXCEPT !.state = state]
  /\ UNCHANGED <<creation, sources, reach, built, release, preview, cmd, spent>>

-----------------------------------------------------------------------------
CreateSteps ==
  \/ Reserve \/ AddWorktree \/ NoteWorktree \/ PublishReference \/ NoteReference
  \/ WriteProfile \/ NoteProfileCreated \/ WriteRecord \/ Complete
  \/ UndoProfile \/ UndoReference \/ UndoRow \/ UndoTree \/ UndoBranch \/ UndoEnds
ReleaseSteps ==
  \/ WriteRelease \/ CheckEvidence \/ NextAction \/ CheckBuild \/ RemoveBuild
  \/ CheckProfile \/ UnlinkProfile \/ RemoveReference \/ CheckTree \/ RemoveTree
  \/ RemoveBranch \/ Finish \/ ReleaseEnds
Failures == Fail \/ PublicationUncertain \/ UndoFails \/ UndoRowFails \/ Kill \/ KillHalfway
Usage ==
  \/ Up \/ Down \/ \E b \in Builds : Build(b)
  \/ \E r \in Rows : Edit(r) \/ Commit(r)

Next ==
  \/ CreateBegins \/ RetryBegins \/ CreateSteps
  \/ Preview \/ ReleaseBegins \/ ReleaseSteps
  \/ Failures \/ Usage

Spec == Init /\ [][Next]_vars

\* A command goes on, and the operator repeats what a failure left unfinished:
\* the exact create, or a fresh preview and the release with its digest.
Operator ==
  /\ WF_vars(CreateSteps) /\ WF_vars(RetryBegins)
  /\ WF_vars(ReleaseSteps) /\ WF_vars(Preview) /\ WF_vars(ReleaseBegins)
OperatedSpec == Spec /\ Operator

-----------------------------------------------------------------------------
(* Properties *)

\* Type invariant; the journals are never in a state their readers reject.
TypeOK ==
  /\ journal \in [status : {"none", "bare", "creating", "rolling back", "rolled back",
                            "recovering", "recovery required", "complete"},
                  row : [Rows -> {"planned", "created", "rolled back", "preserved"}],
                  profile : {"planned", "reference-published", "created", "rolled back", "preserved"}]
  /\ record \in BOOLEAN /\ profile \in BOOLEAN /\ ref \in BOOLEAN
  /\ tree \in [Rows -> {"none", "clean", "dirty", "half"}]
  /\ branch \in [Rows -> 0 .. Asked + MaxUser]
  /\ merged \subseteq Rows /\ drifted \subseteq Rows
  /\ built \in [Builds -> 0 .. HalfBuild]
  /\ topology.state \in {"none", "running", "clean", "unclean"}
  /\ release.status \in {"none", "applying", "complete"}
  /\ release.phase \in {"none", "prepared", "removing"}
  /\ release # NoRelease => release.done \in 0 .. Len(Actions(release.plan))

\* A creation that says it is rolled back left at most branches behind, so that
\* the exact request can be made again.
RolledBackIsClean == journal.status = "rolled back" => Nothing

\* Readers of the record find every worktree on its branch, the profile and the
\* physical reference that protects it, until a release begins.
RecordIsWhole ==
  record /\ release.status = "none" =>
    /\ profile /\ ref
    /\ \A r \in Rows : tree[r] # "none" /\ branch[r] # NoBranch

\* A profile that can be read is backed by its physical reference and by worktrees
\* that are all there, however a creation or a release was interrupted.
ProfileIsBacked ==
  profile => ref /\ \A r \in Rows : tree[r] # "none" /\ branch[r] # NoBranch

\* No step of a command throws away what a user did: neither changes that are not
\* committed, nor commits the operator was not shown in the plan of the release.
NoWorkLost ==
  \A r \in Rows :
    /\ tree[r] = "dirty" => tree'[r] # "none"
    /\ (branch[r] > Asked /\ branch'[r] = NoBranch) => release.plan.head[r] = branch[r]

\* What a rollback says it preserved keeps its branch, with every commit on it, and
\* what it says it took back is gone: also where users or Git are in its way between
\* the look at a row and its removals.  The worktree of a row that is preserved may be
\* gone.
PreservedIsThere ==
  \A r \in Rows :
    /\ journal.row[r] = "preserved" => branch[r] # NoBranch
    /\ (journal.row[r] = "rolled back" /\ journal.status \in {"rolling back", "rolled back"}) =>
         tree[r] = "none" /\ branch[r] = NoBranch

\* A release removes the builds the operator was shown, no other.
OnlyPreviewed ==
  \A b \in Builds : built[b] \notin {NoBuild, HalfBuild} /\ built'[b] = NoBuild
    => release.plan.build[b] = built[b]

\* An action the release journal calls done is done: its object is gone, or was
\* made again by somebody else since.
DoneIsGone ==
  release.status = "applying" =>
    \A k \in 1 .. release.done : Gone(Actions(release.plan)[k])

\* A complete release leaves nothing of the scope but a topology's history.
CompleteIsGone ==
  release.status = "complete" =>
    /\ ~profile /\ ~ref
    /\ \A r \in Rows : tree[r] = "none" /\ branch[r] = NoBranch
    /\ \A b \in Builds : built[b] = NoBuild
    /\ topology.state \in {"none", "clean"}

\* A release that was interrupted cannot go on: a worktree has changes its plan did not
\* cover.
Unforeseen ==
  /\ release.status = "applying"
  /\ \E r \in Rows : tree[r] = "dirty" \/ branch[r] \notin {NoBranch, release.plan.head[r]}
=============================================================================
