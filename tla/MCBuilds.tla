------------------------------ MODULE MCBuilds ------------------------------
(***************************************************************************)
(* Instances of the modules about what builds read and make.  They share   *)
(* no state, so one run explores them one at a time: Init chooses the part *)
(* that moves, and the variables of the others keep their initial values.  *)
(***************************************************************************)
EXTENDS Integers, FiniteSets

VARIABLES part
VARIABLES head, dirty, generation, durable, remains, aged, source, pinned, owner, build,
          cleaner, spent
VARIABLES checkout, disk, journal, container, command, ended, edits
VARIABLES inputs, entry, staging, tomb, backups, keeper, install, view, pruner, mishaps
VARIABLES src, wrapper, out, public, aside, staged, holder, work, use, issued, launched, deeds
VARIABLES text, tool, links, tree, shape, maps, running, task, last, faults

sources == <<head, dirty, generation, durable, remains, aged, source, pinned, owner, build,
             cleaner, spent>>
replaced == <<checkout, disk, journal, container, command, ended, edits>>
worker == <<inputs, entry, staging, tomb, backups, keeper, install, view, pruner, mishaps>>
prepared == <<src, wrapper, out, public, aside, staged, holder, work, use, issued, launched,
              deeds>>
development == <<text, tool, links, tree, shape, maps, running, task, last, faults>>
vars == <<part, sources, replaced, worker, prepared, development>>

\* Source generations: a torn one while cleanup removes, three builds and a loss of
\* power, a checkout that moves.
Read ==
  INSTANCE SourceGeneration WITH
    Builds <- {"b", "c"}, Heads <- {"h"}, Retained <- {}, Enabled <- {"tear", "clean", "kill"},
    Again <- {}, MaxName <- 4, MaxFault <- 0, MaxCrash <- 1, MaxUser <- 1
Published ==
  INSTANCE SourceGeneration WITH
    Builds <- {"b", "c", "d"}, Heads <- {"h"}, Retained <- {},
    Enabled <- {"kill", "power", "tear", "fault"}, Again <- {}, MaxName <- 4, MaxFault <- 1,
    MaxCrash <- 1, MaxUser <- 1
Moving ==
  INSTANCE SourceGeneration WITH
    Builds <- {"b", "c"}, Heads <- {"h", "i"}, Retained <- {"i"},
    Enabled <- {"edit", "commit", "sync", "fault", "kill"}, Again <- {}, MaxName <- 4,
    MaxFault <- 1, MaxCrash <- 1, MaxUser <- 2

\* Directories that are exchanged: by kind.
Resources ==
  INSTANCE ReplacedDirectory WITH tree <- checkout, spent <- edits,
    Kind <- "resources", Snapshot <- TRUE, Enabled <- {"commit", "edit", "outside", "revert"},
    MaxEdit <- 2, MaxFault <- 1, MaxCrash <- 1
Content ==
  INSTANCE ReplacedDirectory WITH tree <- checkout, spent <- edits,
    Kind <- "content", Snapshot <- TRUE, Enabled <- {"commit", "edit"},
    MaxEdit <- 2, MaxFault <- 1, MaxCrash <- 2
Runtime ==
  INSTANCE ReplacedDirectory WITH tree <- checkout, spent <- edits,
    Kind <- "runtime", Snapshot <- TRUE, Enabled <- {"commit", "edit", "outside"},
    MaxEdit <- 2, MaxFault <- 1, MaxCrash <- 2
Direct ==
  INSTANCE ReplacedDirectory WITH tree <- checkout, spent <- edits,
    Kind <- "content", Snapshot <- FALSE, Enabled <- {"commit", "edit", "outside"},
    MaxEdit <- 2, MaxFault <- 1, MaxCrash <- 1
Maps ==
  INSTANCE ReplacedDirectory WITH tree <- checkout, spent <- edits,
    Kind <- "maps", Snapshot <- TRUE, Enabled <- {"commit", "edit"},
    MaxEdit <- 2, MaxFault <- 1, MaxCrash <- 2

\* Installed dependencies: one builder and every fault, two of which one is killed, two
\* beside cleanup.
Alone ==
  INSTANCE WorkerDependencies WITH holder <- keeper, work <- install, cleaner <- pruner,
    spent <- mishaps,
    Builders <- {"p"}, Sources <- {1, 2}, Configs <- {0, 1, 2}, MaxEdit <- 1, MaxConfig <- 1,
    MaxFail <- 1, MaxSpoil <- 1, MaxKill <- 1, MaxClean <- 0
Beside ==
  INSTANCE WorkerDependencies WITH holder <- keeper, work <- install, cleaner <- pruner,
    spent <- mishaps,
    Builders <- {"p", "q"}, Sources <- {1, 2}, Configs <- {1}, MaxEdit <- 1, MaxConfig <- 0,
    MaxFail <- 1, MaxSpoil <- 0, MaxKill <- 1, MaxClean <- 0
Cleaned ==
  INSTANCE WorkerDependencies WITH holder <- keeper, work <- install, cleaner <- pruner,
    spent <- mishaps,
    Builders <- {"p", "q"}, Sources <- {1, 2}, Configs <- {1}, MaxEdit <- 1, MaxConfig <- 0,
    MaxFail <- 0, MaxSpoil <- 0, MaxKill <- 0, MaxClean <- 1

\* Prepared builds: their evidence, launches of them, people who move receipts.
Evidence ==
  INSTANCE PreparedBuild WITH spent <- deeds,
    Builders <- {"p", "q"}, Consumers <- {}, Kinds <- {"fenced", "ordinary"},
    Persistent <- FALSE, MaxBuild <- 2, MaxLaunch <- 0, MaxEdit <- 1, MaxCommit <- 1,
    MaxTamper <- 0, MaxSwap <- 1, MaxRestore <- 0, MaxFail <- 1, MaxKill <- 1
Launches ==
  INSTANCE PreparedBuild WITH spent <- deeds,
    Builders <- {"p", "q"}, Consumers <- {"c", "d"}, Kinds <- {"fenced", "ordinary"},
    Persistent <- FALSE, MaxBuild <- 2, MaxLaunch <- 1, MaxEdit <- 1, MaxCommit <- 0,
    MaxTamper <- 1, MaxSwap <- 0, MaxRestore <- 1, MaxFail <- 0, MaxKill <- 0
People ==
  INSTANCE PreparedBuild WITH spent <- deeds,
    Builders <- {"p", "q"}, Consumers <- {}, Kinds <- {"fenced", "ordinary"},
    Persistent <- FALSE, MaxBuild <- 2, MaxLaunch <- 0, MaxEdit <- 0, MaxCommit <- 0,
    MaxTamper <- 0, MaxSwap <- 1, MaxRestore <- 1, MaxFail <- 1, MaxKill <- 1

\* Development builds: integrated trees, one tree and changing tools, trees of their own.
Paired ==
  INSTANCE DevelopmentBuild WITH src <- text, view <- links, work <- task,
    Integrated <- TRUE, Primary <- TRUE, Commands <- {"build", "up", "restart"},
    Asked <- {{"client"}, {"server"}}, Tests <- {FALSE}, Forces <- {FALSE}, Envs <- {1},
    Incomplete <- {}, Enabled <- {"edit", "commit", "byhand"}, MaxContent <- 2, MaxTool <- 1,
    MaxFault <- 0
Tools ==
  INSTANCE DevelopmentBuild WITH src <- text, view <- links, work <- task,
    Integrated <- FALSE, Primary <- FALSE, Commands <- {"build"}, Asked <- {{"client"}},
    Tests <- {FALSE, TRUE}, Forces <- {FALSE, TRUE}, Envs <- {1}, Incomplete <- {3},
    Enabled <- {"edit", "commit", "upgrade", "byhand"}, MaxContent <- 2, MaxTool <- 3,
    MaxFault <- 1
Apart ==
  INSTANCE DevelopmentBuild WITH src <- text, view <- links, work <- task,
    Integrated <- FALSE, Primary <- FALSE, Commands <- {"build", "up", "restart"},
    Asked <- {{"client", "server"}}, Tests <- {FALSE}, Forces <- {FALSE}, Envs <- {1},
    Incomplete <- {2}, Enabled <- {"edit", "commit", "upgrade", "byhand"}, MaxContent <- 2,
    MaxTool <- 2, MaxFault <- 0
Undone ==
  INSTANCE DevelopmentBuild WITH src <- text, view <- links, work <- task,
    Integrated <- TRUE, Primary <- FALSE, Commands <- {"build", "up"},
    Asked <- {{"client", "server"}}, Tests <- {FALSE, TRUE}, Forces <- {FALSE}, Envs <- {1},
    Incomplete <- {}, Enabled <- {"edit", "undo", "byhand"}, MaxContent <- 2, MaxTool <- 1,
    MaxFault <- 0

ASSUME Read!Assumptions /\ Published!Assumptions /\ Moving!Assumptions
ASSUME Resources!Assumptions /\ Content!Assumptions /\ Direct!Assumptions /\ Runtime!Assumptions
ASSUME Maps!Assumptions
ASSUME Alone!Assumptions /\ Beside!Assumptions /\ Cleaned!Assumptions
ASSUME Evidence!Assumptions /\ Launches!Assumptions /\ People!Assumptions
ASSUME Paired!Assumptions /\ Tools!Assumptions /\ Apart!Assumptions /\ Undone!Assumptions

-----------------------------------------------------------------------------
(* The one that moves *)

SourceParts == {"read", "published", "moving"}
ReplacedParts == {"resources", "content", "direct", "runtime", "maps"}
WorkerParts == {"alone", "beside", "cleaned"}
PreparedParts == {"evidence", "launches", "people"}
DevelopmentParts == {"paired", "tools", "apart", "undone"}
Parts == SourceParts \cup ReplacedParts \cup WorkerParts \cup PreparedParts \cup DevelopmentParts

Init ==
  /\ part \in Parts
  /\ CASE part = "published" -> Published!Init
       [] part = "moving" -> Moving!Init
       [] OTHER -> Read!Init
  /\ Resources!Init
  /\ CASE part = "beside" -> Beside!Init
       [] part = "cleaned" -> Cleaned!Init
       [] part = "alone" -> Alone!Init
       [] OTHER -> Beside!Init /\ inputs.source = 1
  /\ IF part = "launches" THEN Launches!Init ELSE Evidence!Init
  /\ IF part = "paired" THEN Paired!Init ELSE Undone!Init

SourceNext ==
  \/ part = "read" /\ Read!Next
  \/ part = "published" /\ Published!Next
  \/ part = "moving" /\ Moving!Next

ReplacedNext ==
  \/ part = "resources" /\ Resources!Next
  \/ part = "content" /\ Content!Next
  \/ part = "direct" /\ Direct!Next
  \/ part = "runtime" /\ Runtime!Next
  \/ part = "maps" /\ Maps!Next

WorkerNext ==
  \/ part = "alone" /\ Alone!Next
  \/ part = "beside" /\ Beside!Next
  \/ part = "cleaned" /\ Cleaned!Next

PreparedNext ==
  \/ part = "evidence" /\ Evidence!Next
  \/ part = "launches" /\ Launches!Next
  \/ part = "people" /\ People!Next

DevelopmentNext ==
  \/ part = "paired" /\ Paired!Next
  \/ part = "tools" /\ Tools!Next
  \/ part = "apart" /\ Apart!Next
  \/ part = "undone" /\ Undone!Next

Next ==
  /\ UNCHANGED part
  /\ \/ SourceNext /\ UNCHANGED <<replaced, worker, prepared, development>>
     \/ ReplacedNext /\ UNCHANGED <<sources, worker, prepared, development>>
     \/ WorkerNext /\ UNCHANGED <<sources, replaced, prepared, development>>
     \/ PreparedNext /\ UNCHANGED <<sources, replaced, worker, development>>
     \/ DevelopmentNext /\ UNCHANGED <<sources, replaced, worker, prepared>>

Spec == Init /\ [][Next]_vars

-----------------------------------------------------------------------------
(* Properties *)

\* The records have their form; a source generation has one maker at a time, a build
\* without its lease reads what it has pinned, and npm installs only what nothing
\* whole is there to replace.
Consistent ==
  /\ CASE part = "published" -> Published!TypeOK /\ Published!OneMaker /\ Published!LeasedOrPinned
       [] part = "moving" -> Moving!TypeOK /\ Moving!OneMaker /\ Moving!LeasedOrPinned
       [] OTHER -> Read!TypeOK /\ Read!OneMaker /\ Read!LeasedOrPinned
  /\ Resources!TypeOK
  /\ IF part = "alone" THEN Alone!TypeOK /\ Alone!InstallIsLast
     ELSE Beside!TypeOK /\ Beside!InstallIsLast
  /\ IF part = "launches" THEN Launches!TypeOK ELSE Evidence!TypeOK
  /\ CASE part = "paired" -> Paired!TypeOK
       [] part = "tools" -> Tools!TypeOK
       [] part = "apart" -> Apart!TypeOK
       [] OTHER -> Undone!TypeOK

\* What a build compiles is whole and durable, and the dependencies a profile is being
\* given stay whole until it has them, whatever other builds, cleanup, kills and
\* losses of power do meanwhile.
ReadsWhole ==
  /\ CASE part = "published" -> Published!ReadsWhole /\ Published!ReadsDurable
       [] part = "moving" -> Moving!ReadsWhole /\ Moving!ReadsDurable
       [] OTHER -> Read!ReadsWhole /\ Read!ReadsDurable
  /\ part # "alone" => Beside!InUse

\* What is on disk is what its name, mark, receipt or place says it was made from,
\* and a launch gets the bytes of the receipt it was given.
ClaimsHold ==
  /\ part # "resources" => Content!CacheTells
  /\ IF part = "alone" THEN Alone!EntryIsItsKey ELSE Beside!EntryIsItsKey
  /\ Evidence!EvidenceHolds /\ Evidence!LaunchedIsReceipt
  /\ IF part = "paired"
     THEN Paired!PureObjects /\ Paired!SealedIsItsCommit /\ Paired!LastBuildServes
     ELSE Undone!PureObjects /\ Undone!LastBuildServes

\* A command that fails, is refused or is killed leaves the directory it found, or
\* one whole and recoverable, and withdraws its receipt; a launch does not fail for
\* want of an executable it compiled.
FailureIsContained ==
  /\ part # "maps" => Content!NeverLost
  /\ part = "maps" => Maps!MapsNeverHalf
  /\ Content!FailureKeeps /\ Content!RefusedIsUndone
  /\ Evidence!FailureRetracts
  /\ part # "paired" => Apart!LaunchesPublish

\* No step takes away what is still needed: a corrupt generation disappears only into
\* recovery or by cleanup, cleanup takes only what is stale and unused, an
\* installation goes only for one that replaces it, receipts only move.
NothingIsLost ==
  /\ Read!TornIsKept /\ Read!OnlyStale
  /\ [][/\ part \in {"beside", "cleaned"} => Beside!KeptUntilReplaced
        /\ part = "alone" => Alone!KeptUntilReplaced
        /\ part = "cleaned" => Cleaned!RecentStays]_vars
  /\ Evidence!NothingDestroyed

\* What is reused or skipped is current: installed dependencies, staged resources, a
\* configured tree; and a launch right after its build configures nothing.
ServesCurrent ==
  /\ Resources!ReusedIsCommitted
  /\ [][/\ part \in {"beside", "cleaned"} => Beside!ServesItsSource
        /\ part = "tools" => Tools!SkippedIsCurrent
        /\ part = "apart" => Apart!WarmBuildWarms]_vars
=============================================================================
