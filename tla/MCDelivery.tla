----------------------------- MODULE MCDelivery -----------------------------
(***************************************************************************)
(* Instances of the modules about delivering a change: the scope it is     *)
(* made in, the ledger of its leaf, the review root the ledgers are kept   *)
(* in, the migration of an older report, the correction of a head and the  *)
(* tables the agents keep.                                                 *)
(* They share no state, so one run explores them one at a time: Init       *)
(* chooses the part that moves, and the variables of the others keep their *)
(* initial values.                                                         *)
(*   "updated"    ledgers of two leaves are created and updated, helpers   *)
(*                are killed twice, live evidence drifts                   *)
(*   "retired"    ledgers of two leaves are created, released, archived    *)
(*                and reclaimed, one helper is killed                      *)
(*   "drifting"   the same, nobody is killed, live evidence drifts         *)
(*   "kept"       one ledger through its whole life, two generations       *)
(*   "created"    a scope of two checkouts, every way a creation fails     *)
(*   "used"       a scope that users work in while it is made and released *)
(*   "behind"     the same, checkouts that are behind the commit asked for *)
(*   "released"   a scope with two builds is released, killed twice        *)
(*   "commented"  two agents post one comment, writes are lost, two kills  *)
(*   "described"  two agents write one body, which people edit             *)
(*   "targeted"   two agents from an issue to a pull request, one kill     *)
(*   "moved"      two agents while the target's branches move              *)
(*   "readied"    one agent also makes it ready                            *)
(*   "migrated"   a legacy report, three calls, two kills and an edit      *)
(*   "rebound"    the same for two reports, one for evidence               *)
(*   "schemed"    a report from before the schema, two kills and an edit   *)
(*   "corrected"  two helpers for one head and one for another, two kills, *)
(*                two retries, the head moves twice                        *)
(*   "tabled"     two calls update one table, a failure, a kill, an edit   *)
(*   "edited"     three calls, two of one row, and an editor               *)
(*   "crowding"   two of one row, one that is refused, one is killed       *)
(***************************************************************************)
EXTENDS Integers, LedgerRoot

CONSTANTS NoFile, Malformed, AnyContent

VARIABLES part
VARIABLES journal, record, worktree, branch, merged, drifted, profile, ref, built, topology,
          release, preview, command, used
VARIABLES leaf, pending, hub, tree, posts, agent, shown, spent
VARIABLES reports, staged, marker, destination, rival, op, said, wear
VARIABLES installed, kept, live, holders, at, found, costs
VARIABLES file, temp, lock, local, pc, how, seen, next, commits, raced, ills

scope == <<journal, record, worktree, branch, merged, drifted, profile, ref, built, topology,
           release, preview, command, used>>
delivery == <<leaf, pending, hub, tree, posts, agent, shown, spent>>
migration == <<reports, staged, marker, destination, rival, op, said, wear>>
correction == <<installed, kept, live, holders, at, found, costs>>
tables == <<file, temp, lock, local, pc, how, seen, next, commits, raced, ills>>
MCvars == <<part, vars, scope, delivery, migration, correction, tables>>

\* The part "updated" is the module extended, with the constants of Delivery.cfg.
Retired ==
  INSTANCE LedgerRoot WITH
    Names <- {"a", "b"}, Coords <- {"c"}, MaxGen <- 1,
    Enabled <- {"create", "release", "archive", "reclaim"}, Torn <- {"stage"}, MaxCrash <- 1,
    MaxDrift <- 0
Drifting ==
  INSTANCE LedgerRoot WITH
    Names <- {"a", "b"}, Coords <- {"c"}, MaxGen <- 1,
    Enabled <- {"create", "release", "archive", "reclaim"}, Torn <- {"stage"}, MaxCrash <- 0,
    MaxDrift <- 1
Whole ==
  INSTANCE LedgerRoot WITH
    Names <- {"a", "b"}, Coords <- {}, MaxGen <- 2,
    Enabled <- {"create", "cas", "release", "archive", "reclaim"}, Torn <- {}, MaxCrash <- 0,
    MaxDrift <- 0

Created ==
  INSTANCE ScopeLifecycle WITH tree <- worktree, cmd <- command, spent <- used,
    N <- 2, B <- 1, Enabled <- {"edit", "commit"}, Faults <- {"step", "uncertain", "recovery"},
    MaxFault <- 2, MaxCrash <- 1, MaxUser <- 2
Used ==
  INSTANCE ScopeLifecycle WITH tree <- worktree, cmd <- command, spent <- used,
    N <- 2, B <- 1, Enabled <- {"edit", "commit", "build", "topology", "late", "upstream"},
    Faults <- {"step", "between", "uncertain", "recovery", "half"},
    MaxFault <- 1, MaxCrash <- 1, MaxUser <- 2
Behind ==
  INSTANCE ScopeLifecycle WITH tree <- worktree, cmd <- command, spent <- used,
    N <- 2, B <- 1,
    Enabled <- {"edit", "commit", "build", "topology", "late", "behind", "upstream"},
    Faults <- {"step", "between", "uncertain", "recovery", "half"},
    MaxFault <- 1, MaxCrash <- 1, MaxUser <- 1
Ended ==
  INSTANCE ScopeLifecycle WITH tree <- worktree, cmd <- command, spent <- used,
    N <- 2, B <- 2, Enabled <- {"edit", "commit", "build", "topology"}, Faults <- {},
    MaxFault <- 0, MaxCrash <- 2, MaxUser <- 3

Two == {"p", "q"}
Commented ==
  INSTANCE LeafLedger WITH ledger <- leaf,
    Agents <- Two, Start <- "bound", Commands <- {"plan comment", "comment", "cancel comment"},
    People <- {"lose"}, MaxGen <- 7, MaxText <- 2, MaxCommit <- 0, MaxTouch <- 1, MaxKill <- 2
Described ==
  INSTANCE LeafLedger WITH ledger <- leaf,
    Agents <- Two, Start <- "adopted", Commands <- {"plan body", "body", "cancel body"},
    People <- {"edit", "lose"}, MaxGen <- 3, MaxText <- 2, MaxCommit <- 0, MaxTouch <- 1,
    MaxKill <- 0
Targeted ==
  INSTANCE LeafLedger WITH ledger <- leaf,
    Agents <- Two, Start <- "issue", Commands <- {"worktree", "open", "pull", "refresh"},
    People <- {"commit", "dirty", "push", "base", "fetch"}, MaxGen <- 3, MaxText <- 0,
    MaxCommit <- 1, MaxTouch <- 0, MaxKill <- 1
Moved ==
  INSTANCE LeafLedger WITH ledger <- leaf,
    Agents <- Two, Start <- "bound", Commands <- {"refresh", "body", "plan body"},
    People <- {"commit", "rewind", "base", "fetch"}, MaxGen <- 5, MaxText <- 1, MaxCommit <- 1,
    MaxTouch <- 0, MaxKill <- 0
Readied ==
  INSTANCE LeafLedger WITH ledger <- leaf,
    Agents <- {"p"}, Start <- "bound", Commands <- {"refresh", "ready", "body", "plan body"},
    People <- {"commit", "rewind", "base", "fetch"}, MaxGen <- 6, MaxText <- 1, MaxCommit <- 1,
    MaxTouch <- 0, MaxKill <- 0

\* A report says one of two things; only the first proves what the second candidate claims.
Shows == [c \in {"a", "b"} |-> IF c = "a" THEN {1, 2} ELSE {1}]
Migrated ==
  INSTANCE LedgerMigration WITH spent <- wear, Absent <- NoFile, Kind <- "legacy",
    Candidates <- {"a", "b"}, Versions <- {1, 2}, Proves <- Shows,
    MaxCall <- 3, MaxKill <- 2, MaxEdit <- 1
Rebound ==
  INSTANCE LedgerMigration WITH spent <- wear, Absent <- NoFile, Kind <- "legacy-rebind",
    Candidates <- {"a", "b"}, Versions <- {1, 2}, Proves <- Shows,
    MaxCall <- 3, MaxKill <- 2, MaxEdit <- 1
Schemed ==
  INSTANCE LedgerMigration WITH spent <- wear, Absent <- NoFile, Kind <- "pre-schema",
    Candidates <- {"a", "b"}, Versions <- {1, 2}, Proves <- Shows,
    MaxCall <- 3, MaxKill <- 2, MaxEdit <- 1

Says == [h \in {"p", "q", "r"} |-> IF h = "q" THEN 2 ELSE 1]
Righted ==
  INSTANCE HeadCorrection WITH ledger <- installed, lock <- holders, seen <- found,
    spent <- costs, Helpers <- {"p", "q", "r"}, Heads <- {1, 2}, Ask <- Says,
    Granted <- {"p", "q"}, Bad <- 0, MaxGen <- 4, MaxKill <- 2, MaxRetry <- 2, MaxMove <- 2

\* Keys that sort before, between and after; no row is the value 0.
Keys == {"a", "b", "d"}
Only(key, value) == [k \in Keys |-> IF k = key THEN value ELSE 0]
\* The first two calls want one row, the fourth has none that can be written.
Rows == [c \in 1 .. 4 |-> [key |-> IF c = 3 THEN "b" ELSE "a",
                           value |-> CASE c = 2 -> 2 [] c = 4 -> Malformed [] OTHER -> 1]]
Of(calls) == [c \in calls |-> Rows[c]]
Saved == {Malformed, Only("d", 1), Only("a", 1)}
Tabled ==
  INSTANCE AgentLedgers WITH spent <- ills, NoRow <- 0, Absent <- NoFile, Values <- {1, 2},
    Drafts <- Saved, Calls <- {1, 3}, Row <- Of({1, 3}), MaxRows <- 2,
    Faults <- {"write", "sync"}, MaxFault <- 1, MaxKill <- 1, MaxEdit <- 1
Edited ==
  INSTANCE AgentLedgers WITH spent <- ills, NoRow <- 0, Absent <- NoFile, Values <- {1, 2},
    Drafts <- Saved, Calls <- {1, 2, 3}, Row <- Of({1, 2, 3}), MaxRows <- 2,
    Faults <- {}, MaxFault <- 0,
    MaxKill <- 0, MaxEdit <- 1
Crowding ==
  INSTANCE AgentLedgers WITH spent <- ills, NoRow <- 0, Absent <- NoFile, Values <- {1, 2},
    Drafts <- Saved, Calls <- {1, 2, 4}, Row <- Of({1, 2, 4}), MaxRows <- 2,
    Faults <- {}, MaxFault <- 0,
    MaxKill <- 1, MaxEdit <- 0

ASSUME Assumptions /\ Retired!Assumptions /\ Drifting!Assumptions /\ Whole!Assumptions
ASSUME Created!Assumptions /\ Used!Assumptions /\ Behind!Assumptions /\ Ended!Assumptions
ASSUME Commented!Assumptions /\ Described!Assumptions /\ Targeted!Assumptions
ASSUME Moved!Assumptions /\ Readied!Assumptions
ASSUME Migrated!Assumptions /\ Rebound!Assumptions /\ Schemed!Assumptions
ASSUME Righted!Assumptions
ASSUME Tabled!Assumptions /\ Edited!Assumptions /\ Crowding!Assumptions

-----------------------------------------------------------------------------
(* The one that moves *)

Parts == {"updated", "retired", "drifting", "kept", "created", "used", "behind", "released",
          "commented", "described", "targeted", "moved", "readied", "migrated", "rebound",
          "schemed", "corrected", "tabled", "edited", "crowding"}

MCInit ==
  /\ part \in Parts
  /\ Init
  /\ CASE part = "behind" -> Behind!Init
       [] part = "released" -> Ended!Init
       [] OTHER -> Used!Init
  /\ CASE part = "described" -> Described!Init
       [] part = "targeted" -> Targeted!Init
       [] part = "readied" -> Readied!Init
       [] OTHER -> Commented!Init
  /\ IF part = "rebound" THEN Rebound!Init ELSE Migrated!Init
  /\ part \notin {"migrated", "schemed"} => \A r \in DOMAIN reports : reports[r] = 1
  /\ Righted!Init /\ (part # "corrected" => live = 1)
  /\ CASE part = "tabled" -> Tabled!Init
       [] part = "crowding" -> Crowding!Init
       [] OTHER -> Edited!Init

RootNext ==
  \/ part = "updated" /\ Next
  \/ part = "retired" /\ Retired!Next
  \/ part = "drifting" /\ Drifting!Next
  \/ part = "kept" /\ Whole!Next

ScopeNext ==
  \/ part = "created" /\ Created!Next
  \/ part = "used" /\ Used!Next
  \/ part = "behind" /\ Behind!Next
  \/ part = "released" /\ Ended!Next

LeafNext ==
  \/ part = "commented" /\ Commented!Next
  \/ part = "described" /\ Described!Next
  \/ part = "targeted" /\ Targeted!Next
  \/ part = "moved" /\ Moved!Next
  \/ part = "readied" /\ Readied!Next

MigrationNext ==
  \/ part = "migrated" /\ Migrated!Next
  \/ part = "rebound" /\ Rebound!Next
  \/ part = "schemed" /\ Schemed!Next

CorrectionNext == part = "corrected" /\ Righted!Next

TableNext ==
  \/ part = "tabled" /\ Tabled!Next
  \/ part = "edited" /\ Edited!Next
  \/ part = "crowding" /\ Crowding!Next

MCNext ==
  /\ UNCHANGED part
  /\ \/ RootNext /\ UNCHANGED <<scope, delivery, migration, correction, tables>>
     \/ ScopeNext /\ UNCHANGED <<vars, delivery, migration, correction, tables>>
     \/ LeafNext /\ UNCHANGED <<vars, scope, migration, correction, tables>>
     \/ MigrationNext /\ UNCHANGED <<vars, scope, delivery, correction, tables>>
     \/ CorrectionNext /\ UNCHANGED <<vars, scope, delivery, migration, tables>>
     \/ TableNext /\ UNCHANGED <<vars, scope, delivery, migration, correction>>

MCSpec == MCInit /\ [][MCNext]_MCvars

-----------------------------------------------------------------------------
(* Properties *)

RootParts == {"updated", "retired", "drifting", "kept"}
ScopeParts == {"created", "used", "behind", "released"}
LeafParts == {"commented", "described", "targeted", "moved", "readied"}
TableParts == {"tabled", "edited", "crowding"}

\* Every record has its form, whichever part moves, and what a killed migration or a killed
\* correction left is resumed by the same call.
Consistent ==
  CASE part = "updated" -> TypeOK
    [] part = "retired" -> Retired!TypeOK
    [] part = "drifting" -> Drifting!TypeOK
    [] part = "kept" -> Whole!TypeOK
    [] part \in {"created", "used"} -> Used!TypeOK
    [] part = "behind" -> Behind!TypeOK
    [] part = "released" -> Ended!TypeOK
    [] part \in {"commented", "described"} -> Commented!TypeOK
    [] part = "targeted" -> Targeted!TypeOK
    [] part = "moved" -> Moved!TypeOK
    [] part = "readied" -> Readied!TypeOK
    [] part = "migrated" -> Migrated!TypeOK /\ Migrated!LeftoversAreResumed
    [] part = "rebound" -> Rebound!TypeOK /\ Rebound!LeftoversAreResumed
    [] part = "schemed" -> Schemed!TypeOK /\ Schemed!LeftoversAreResumed
    [] part = "corrected" -> Righted!TypeOK /\ Righted!LeftoversAreResumed
    [] part = "tabled" -> Tabled!TypeOK /\ Tabled!NothingTorn
    [] part = "edited" -> Edited!TypeOK
    [] part = "crowding" -> Crowding!TypeOK /\ Crowding!NothingTorn

\* What two ledgers or two agents could both take, one has: two ledgers never claim one
\* object, an active ledger's claims are its own whatever a killed helper left, and a
\* comment is posted once, and known to the ledger, though its answer is lost; a body is
\* recorded as whoever prepared it showed it.  A report that is migrated and the ledger made
\* of it never have the issue beside another ledger, and a head is corrected beside the
\* evidence.  The table of the agents is what the calls that published made of it, each of
\* them once.
OwnedOnce ==
  /\ part \in RootParts =>
       RootReadable /\ NoDoubleClaim /\ ActiveOwnsAlone
  /\ part \in LeafParts \ {"readied"} => Commented!OneComment /\ Commented!CommentIsKnown
  /\ part = "readied" => Readied!OneComment /\ Readied!CommentIsKnown
  /\ part \in LeafParts => Commented!RecordedWasShown
  /\ part = "migrated" =>
       Migrated!OneOwner /\ Migrated!DestinationIsBacked /\ Migrated!AnswersAreTrue
  /\ part = "rebound" =>
       Rebound!OneOwner /\ Rebound!DestinationIsBacked /\ Rebound!AnswersAreTrue
  /\ part = "schemed" =>
       Schemed!OneOwner /\ Schemed!DestinationIsBacked /\ Schemed!AnswersAreTrue
  /\ part = "corrected" => Righted!NothingErased /\ Righted!AnswersAreTrue
  /\ part = "tabled" => Tabled!Linear /\ Tabled!AnswersAreTrue
  /\ part = "edited" => Edited!Linear /\ Edited!AnswersAreTrue
  /\ part = "crowding" => Crowding!Linear /\ Crowding!AnswersAreTrue

\* A journal that says a scope was rolled back, recorded, preserved or released is right,
\* through every failure of a command and every death: nothing of it is left that should
\* be gone, nothing it still refers to is gone.
ScopeIsWhole ==
  /\ part \in ScopeParts => Used!RecordIsWhole /\ Used!PreservedIsThere
  /\ part \in {"created", "released"} => Used!RolledBackIsClean /\ Used!ProfileIsBacked
  /\ part \in {"created", "behind"} => Used!DoneIsGone
  /\ part = "created" => Created!CompleteIsGone
  /\ part = "released" => Ended!DoneIsGone /\ Ended!CompleteIsGone

\* No step forgets a ledger, answers what is not so, throws away what a user did, removes
\* a build that was not shown, calls drift an answer, takes a leaf back to what it was
\* before, decides a migration again, or replaces a table it did not read.
StepsAreAllowed ==
  [][CASE part \in RootParts -> NothingForgotten /\ AnswersAreExact
       [] part = "released" -> Used!NoWorkLost /\ Ended!OnlyPreviewed
       [] part = "used" -> Used!NoWorkLost /\ Used!OnlyPreviewed
       [] part \in {"created", "behind"} -> Used!NoWorkLost
       [] part \in LeafParts -> Commented!DriftIsSeparate /\ Commented!Linear
       [] part = "migrated" -> Migrated!MovesForward
       [] part = "rebound" -> Rebound!MovesForward
       [] part = "schemed" -> Schemed!MovesForward
       [] part = "corrected" -> Righted!CorrectedOnce
       [] part = "tabled" -> Tabled!ReplacesStep
       [] part = "edited" -> Edited!ReplacesStep
       [] part = "crowding" -> Crowding!ReplacesStep]_MCvars
=============================================================================
