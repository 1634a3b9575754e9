----------------------------- MODULE MCRecovery -----------------------------
(***************************************************************************)
(* Instances of the modules about what a command leaves for the next call  *)
(* to finish or to read: cleanup, the two migrations, the records of the   *)
(* leases.  They share no state, so one run explores them one at a time:   *)
(* Init chooses the part that moves, and the variables of the others keep  *)
(* their initial values.                                                   *)
(*   "killed"    two cleanups of four targets, killed again and again      *)
(*   "busy"      two cleanups of which one wants part of what the other    *)
(*               does, killed once, while users hold leases                *)
(*   "rebuilt"   the same apart, users make removed objects anew           *)
(*   "crowded"   the same together, nobody is killed                       *)
(*   "leased"    two cleanups of the same leased topologies                *)
(*   "paged"     two commands that page through the journals of a request  *)
(*   "archived"  the repository migration of two sources and one profile   *)
(*   "profiled"  the same with two profiles                                *)
(*   "live"      the same beside a topology                                *)
(*   "content"   the content migration and its restore, every fault        *)
(*   "synced"    the same, and a directory that cannot be flushed          *)
(*   "settled"   the same with failures that can be rolled back            *)
(*   "owned"     two calls ask for one lease, alone or shared, with or     *)
(*               without waiting; one write fails, one process is killed   *)
(*   "queued"    three calls ask for it in three ways, one is killed       *)
(***************************************************************************)
EXTENDS Integers, Sequences, FiniteSets

CONSTANT None

VARIABLES part
VARIABLES run, jrn, obj, grave, aged, held, crashes
VARIABLES journal, cursor, reader, killed
VARIABLES archived, occupied, content, refs, tree, copy, profile, reference, pending, record,
          live, cmd, budget
VARIABLES file, place, drift, open, recorded, rows, referenced, command, spent
VARIABLES pc, ask, end, main, kid, handle, staged, says, dir, stage, trans, scan, used

cleanup == <<run, jrn, obj, grave, aged, held, crashes>>
paging == <<journal, cursor, reader, killed>>
repository == <<archived, occupied, content, refs, tree, copy, profile, reference, pending,
                record, live, cmd, budget>>
classic == <<file, place, drift, open, recorded, rows, referenced, command, spent>>
owners == <<pc, ask, end, main, kid, handle, staged, says, dir, stage, trans, scan, used>>
vars == <<part, cleanup, paging, repository, classic, owners>>

TwoRequests == {"r1", "r2"}
TwoTrees == {"a", "b"}
TwoKinds == [t \in TwoTrees |-> IF t = "a" THEN "topology" ELSE "build"]
Places == [t \in {"a", "b", "c", "d"} |->
             CASE t = "a" -> 1 [] t = "b" -> 2 [] t = "c" -> 3 [] OTHER -> 4]
Own(targets) == [t \in targets |-> t]
Within == [r \in TwoRequests |-> IF r = "r1" THEN TwoTrees ELSE {"b"}]
Each == [r \in TwoRequests |-> IF r = "r1" THEN {"a"} ELSE {"b"}]

Killed ==
  INSTANCE CleanupJournal WITH
    Requests <- TwoRequests, Targets <- {"a", "b", "c", "d"},
    Kind <- [t \in {"a", "b", "c", "d"} |->
               CASE t = "a" -> "topology" [] t = "b" -> "build" [] OTHER -> "metadata"],
    Owner <- [t \in {"a", "b", "c", "d"} |-> IF t = "d" THEN "c" ELSE t],
    Wants <- [r \in TwoRequests |-> IF r = "r1" THEN {"a", "c", "d"} ELSE {"b"}],
    Rank <- Places, MaxObject <- 1, MaxCrash <- 3, Faults <- {}, NoTarget <- "none"
Busy ==
  INSTANCE CleanupJournal WITH
    Requests <- TwoRequests, Targets <- TwoTrees, Kind <- TwoKinds, Owner <- Own(TwoTrees),
    Wants <- Within, Rank <- [t \in TwoTrees |-> Places[t]], MaxObject <- 1, MaxCrash <- 1,
    Faults <- {"busy", "rebuild"}, NoTarget <- "none"
Rebuilt ==
  INSTANCE CleanupJournal WITH
    Requests <- TwoRequests, Targets <- TwoTrees, Kind <- TwoKinds, Owner <- Own(TwoTrees),
    Wants <- Each, Rank <- [t \in TwoTrees |-> Places[t]], MaxObject <- 2, MaxCrash <- 1,
    Faults <- {"busy", "rebuild"}, NoTarget <- "none"
Crowded ==
  INSTANCE CleanupJournal WITH
    Requests <- TwoRequests, Targets <- TwoTrees, Kind <- TwoKinds, Owner <- Own(TwoTrees),
    Wants <- Within, Rank <- [t \in TwoTrees |-> Places[t]], MaxObject <- 2, MaxCrash <- 0,
    Faults <- {"busy", "rebuild"}, NoTarget <- "none"
Leased ==
  INSTANCE CleanupJournal WITH
    Requests <- TwoRequests, Targets <- TwoTrees, Kind <- [t \in TwoTrees |-> "topology"],
    Owner <- Own(TwoTrees), Wants <- [r \in TwoRequests |-> TwoTrees],
    Rank <- [t \in TwoTrees |-> Places[t]], MaxObject <- 2, MaxCrash <- 0,
    Faults <- {"busy", "rebuild"}, NoTarget <- "none"

\* The first names are older than the naming scheme.
Paged ==
  INSTANCE JournalPaging WITH cmd <- reader, crashes <- killed,
    Commands <- {"c", "d"}, Requests <- TwoRequests, MaxName <- 4, Legacy <- 1 .. 3, Limit <- 1,
    MaxCrash <- 1, NoRequest <- "none"

\* The first profile selects both sources, the second one of them.
Uses == [p \in {"p", "q"} |-> IF p = "p" THEN {"s", "t"} ELSE {"s"}]
Archived ==
  INSTANCE RepositoryMigration WITH
    Sources <- {"s", "t"}, Profiles <- {"p"}, Uses <- [p \in {"p"} |-> Uses[p]],
    Dirty <- {"s", "t"},
    Faults <- {"create", "exchange", "archive", "record", "unsure", "publish", "unlink", "back",
               "undo"},
    MaxFault <- 2, MaxCrash <- 2, MaxEdit <- 1, MaxLive <- 0, MaxOccupy <- 1, MaxDelete <- 1
Profiled ==
  INSTANCE RepositoryMigration WITH
    Sources <- {"s", "t"}, Profiles <- {"p", "q"}, Uses <- Uses, Dirty <- {"s", "t"},
    Faults <- {"create", "exchange", "archive", "record", "publish"},
    MaxFault <- 1, MaxCrash <- 2, MaxEdit <- 1, MaxLive <- 0, MaxOccupy <- 0, MaxDelete <- 1
Live ==
  INSTANCE RepositoryMigration WITH
    Sources <- {"s", "t"}, Profiles <- {"p"}, Uses <- [p \in {"p"} |-> Uses[p]],
    Dirty <- {"s"}, Faults <- {"sync"},
    MaxFault <- 1, MaxCrash <- 0, MaxEdit <- 1, MaxLive <- 1, MaxOccupy <- 0, MaxDelete <- 0

Failures == {"publish", "move", "write", "record", "unsure", "unlink"}
Content ==
  INSTANCE ContentMigration WITH
    profile <- file, pending <- open, record <- recorded, reference <- referenced,
    cmd <- command, budget <- spent,
    Profiles <- {"p", "q"}, Managed <- {"p"}, Faults <- Failures \cup {"back"},
    Killable <- {"apply", "restore"}, MaxFault <- 2, MaxCrash <- 2, MaxDrift <- 1, MaxEdit <- 1
Synced ==
  INSTANCE ContentMigration WITH
    profile <- file, pending <- open, record <- recorded, reference <- referenced,
    cmd <- command, budget <- spent,
    Profiles <- {"p", "q"}, Managed <- {"p"}, Faults <- Failures \cup {"back", "sync"},
    Killable <- {"apply", "restore"}, MaxFault <- 2, MaxCrash <- 2, MaxDrift <- 1, MaxEdit <- 1
Settled ==
  INSTANCE ContentMigration WITH
    profile <- file, pending <- open, record <- recorded, reference <- referenced,
    cmd <- command, budget <- spent,
    Profiles <- {"p", "q"}, Managed <- {"p", "q"}, Faults <- Failures,
    Killable <- {"apply"}, MaxFault <- 2, MaxCrash <- 1, MaxDrift <- 0, MaxEdit <- 0

Calling(mode, wait, inherit) == [mode |-> mode, wait |-> wait, inherit |-> inherit]
InTurn == [c \in {"a", "b", "c"} |->
             CASE c = "a" -> Calling("exclusive", FALSE, TRUE)
               [] c = "b" -> Calling("exclusive", TRUE, FALSE)
               [] OTHER -> Calling("shared", TRUE, FALSE)]
Owned ==
  INSTANCE LeaseOwners WITH open <- handle, record <- says, spent <- used,
    Calls <- {"a", "b"},
    Ways <- [{"a", "b"} -> [mode : {"exclusive", "shared"}, wait : BOOLEAN, inherit : {TRUE}]],
    Faults <- {"stage", "admit", "release"}, MaxFault <- 1, MaxKill <- 1
Queued ==
  INSTANCE LeaseOwners WITH open <- handle, record <- says, spent <- used,
    Calls <- {"a", "b", "c"}, Ways <- {InTurn}, Faults <- {}, MaxFault <- 0, MaxKill <- 1

ASSUME Killed!Assumptions /\ Busy!Assumptions /\ Rebuilt!Assumptions
ASSUME Crowded!Assumptions /\ Leased!Assumptions /\ Paged!Assumptions
ASSUME Archived!Assumptions /\ Profiled!Assumptions /\ Live!Assumptions
ASSUME Content!Assumptions /\ Synced!Assumptions /\ Settled!Assumptions
ASSUME Owned!Assumptions /\ Queued!Assumptions

-----------------------------------------------------------------------------
(* The one that moves *)

Parts == {"killed", "busy", "rebuilt", "crowded", "leased", "paged", "archived", "profiled",
          "live", "content", "synced", "settled", "owned", "queued"}

Init ==
  /\ part \in Parts
  /\ IF part = "killed" THEN Killed!Init ELSE Busy!Init
  /\ Paged!Init
  /\ part # "paged" => \A n \in DOMAIN journal : journal[n].status = "absent"
  /\ IF part = "profiled" THEN Profiled!Init ELSE Archived!Init
  /\ IF part = "settled" THEN Settled!Init ELSE Content!Init
  /\ IF part = "owned" THEN Owned!Init ELSE Queued!Init

CleanupNext ==
  \/ part = "killed" /\ Killed!Next
  \/ part = "busy" /\ Busy!Next
  \/ part = "rebuilt" /\ Rebuilt!Next
  \/ part = "crowded" /\ Crowded!Next
  \/ part = "leased" /\ Leased!Next

RepositoryNext ==
  \/ part = "archived" /\ Archived!Next
  \/ part = "profiled" /\ Profiled!Next
  \/ part = "live" /\ Live!Next

ClassicNext ==
  \/ part = "content" /\ Content!Next
  \/ part = "synced" /\ Synced!Next
  \/ part = "settled" /\ Settled!Next

OwnersNext ==
  \/ part = "owned" /\ Owned!Next
  \/ part = "queued" /\ Queued!Next

Next ==
  /\ UNCHANGED part
  /\ \/ CleanupNext /\ UNCHANGED <<paging, repository, classic, owners>>
     \/ part = "paged" /\ Paged!Next /\ UNCHANGED <<cleanup, repository, classic, owners>>
     \/ RepositoryNext /\ UNCHANGED <<cleanup, paging, classic, owners>>
     \/ ClassicNext /\ UNCHANGED <<cleanup, paging, repository, owners>>
     \/ OwnersNext /\ UNCHANGED <<cleanup, paging, repository, classic>>

Spec == Init /\ [][Next]_vars

-----------------------------------------------------------------------------
(* Properties *)

\* Every record has its form; a request never has two unfinished journals, and whatever
\* works on one works on its own.
Consistent ==
  /\ IF part = "killed" THEN Killed!TypeOK ELSE Rebuilt!TypeOK
  /\ Paged!TypeOK /\ Paged!OneOpenJournal /\ Paged!WorksOnOpen
  /\ IF part = "profiled" THEN Profiled!TypeOK ELSE Archived!TypeOK
  /\ IF part = "settled" THEN Settled!TypeOK ELSE Content!TypeOK
  /\ IF part = "owned" THEN Owned!TypeOK ELSE Queued!TypeOK

\* Whatever is half done, a removal or a migration, some durable journal or record names,
\* through every death, failure and retry: the next call can finish it or take it back.
HalfDoneIsJournaled ==
  /\ part = "killed" => Killed!TornIsClaimed
  /\ part \in {"rebuilt", "crowded", "leased"} => Rebuilt!TornIsClaimed
  /\ part = "profiled" => Profiled!ChangedIsJournaled
  /\ part = "archived" => Archived!ChangedIsJournaled
  /\ part = "content" => Content!ChangedIsJournaled
  /\ part = "settled" => Settled!ChangedIsJournaled

\* What a record says of the past is so: a receipt of a cleanup can be read back and
\* acknowledged, an action it calls completed is, and a migration's record stands for
\* all of the migration, and its absence for none of it; who holds a lease has a record,
\* a diagnosis names it, and of whoever is gone it leaves none.
RecordsAreTrue ==
  /\ part = "killed" => Killed!ReceiptReadable /\ Killed!ReceiptClean
  /\ part # "killed" => Rebuilt!CompletedIsGone
  /\ IF part = "profiled" THEN Profiled!RecordIsWhole ELSE Archived!RecordIsWhole
  /\ part = "settled" => Settled!SettledWhole
  /\ part = "owned" => Owned!HolderIsNamed /\ Owned!BusyIsExplained /\ Owned!LeftoversGo
  /\ part = "queued" => Queued!HolderIsNamed /\ Queued!BusyIsExplained /\ Queued!LeftoversGo

\* After every step of a migration a profile selects work that is there, and cleanup sees
\* a reference to what it selects.
ProfilesResolve ==
  /\ part = "profiled" => Profiled!ProfileResolves /\ Profiled!ReferencesCover
  /\ part # "profiled" => Archived!ReferencesCover

\* No step cuts into an object without its intent, takes one that is young or in use, or
\* gives up an unfinished journal; nor archives what changed since it was copied, undoes
\* what a user had done in a new worktree when its undoing came to the worktrees, moves what
\* a topology uses, or what somebody works in since before the previous effect of the command.
StepsAreCovered ==
  /\ Busy!JournalIsKept /\ Busy!CutUnderIntent
  /\ [][part = "leased" => Leased!OnlyEligibleGoes]_vars
  /\ Archived!ArchivedAsCopied /\ Archived!RecoveryKeepsEdits /\ Archived!NothingLiveMoves
  /\ Content!RecordedStep /\ Content!ReferencesKeepUp /\ Content!OnlyProvenMoves
=============================================================================
