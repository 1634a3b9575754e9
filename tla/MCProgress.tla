------------------------------ MODULE MCProgress ------------------------------
(***************************************************************************)
(* Liveness of the components, each on a small instance.  They share no    *)
(* state, so one run explores them one at a time: Init chooses the part    *)
(* that moves.  The variables of that part are v1, v2, ... in the order    *)
(* its module declares them; the rest of the fourteen stay None.           *)
(* A part moves alone, so the fairness of each part is stated in common:   *)
(* the i-th weakly fair action is the disjunction of the i-th weakly fair  *)
(* actions of the parts, of which at most one can ever be enabled, and so  *)
(* with the strongly fair ones and with what is promised.                  *)
(***************************************************************************)
EXTENDS Naturals, Sequences, FiniteSets

VARIABLES part, v1, v2, v3, v4, v5, v6, v7, v8, v9, v10, v11, v12, v13, v14
vars == <<part, v1, v2, v3, v4, v5, v6, v7, v8, v9, v10, v11, v12, v13, v14>>

\* The commands that change checkouts, on two sources.
Order ==
  INSTANCE LeaseOrder WITH pc <- v1, held <- v2, call <- v3, queued <- v4, todo <- v5,
    Clients <- {1, 2, 3}, Role <- <<"init", "sync", "remove">>,
    Roots <- <<{4}, {4, 5}, {5}>>, Last <- 5

\* One launch of two processes; the command and the supervisor are killed.
Topology ==
  INSTANCE TopologySupervisor WITH
    cmd <- v1, of <- v2, sup <- v3, kin <- v4, kids <- v5, doomed <- v6, listed <- v7,
    memory <- v8, lease <- v9, status <- v10, told <- v11,
    Commands <- {"c"}, Topologies <- {"t"}, Processes <- {"p", "q"}, MaxLaunch <- 1,
    PortOf <- [g \in {1} |-> 1], Faults <- {"command", "supervisor"}

\* The temporary state of one topology, whose commands die.
State ==
  INSTANCE TemporaryState WITH
    op <- v1, pol <- v2, srv <- v3, dir <- v4, lock <- v5, prov <- v6, sound <- v7,
    home <- v8, from <- v9, registry <- v10,
    Topologies <- {"t"}, Names <- {"n"}, NoName <- "none", MaxGen <- 2,
    Faults <- {"crash", "unclean"}

\* The outputs of one topology, whose commands fail and die.
Output ==
  INSTANCE RuntimeOutput WITH
    cmd <- v1, transaction <- v2, status <- v3, output <- v4, runtime <- v5,
    supervisor <- v6, child <- v7, input <- v8, person <- v9, made <- v10, spent <- v11,
    Actors <- {"topology"}, Enabled <- {"crash", "startup"}, MaxGen <- 2, MaxEdit <- 0,
    MaxFault <- 1, MaxKill <- 2, MaxPerson <- 0

\* Two cleanup requests, killed twice.
Targets == {"a", "b", "c", "d"}
Cleanup ==
  INSTANCE CleanupJournal WITH
    run <- v1, jrn <- v2, obj <- v3, grave <- v4, aged <- v5, held <- v6, crashes <- v7,
    Requests <- {"r", "s"}, Targets <- Targets,
    Kind <- [t \in Targets |->
               CASE t = "a" -> "topology" [] t = "b" -> "build" [] OTHER -> "metadata"],
    Owner <- [t \in Targets |-> IF t = "d" THEN "c" ELSE t],
    Wants <- [r \in {"r", "s"} |-> IF r = "r" THEN {"a", "c", "d"} ELSE {"b"}],
    Rank <- [t \in Targets |-> CASE t = "a" -> 1 [] t = "b" -> 2 [] t = "c" -> 3 [] OTHER -> 4],
    MaxObject <- 1, MaxCrash <- 2, Faults <- {}, NoTarget <- "none"

\* One command at a time looks for the journals of two requests, one to a page.
Paging ==
  INSTANCE JournalPaging WITH journal <- v1, cursor <- v2, cmd <- v3, crashes <- v4,
    Commands <- {"c"}, Requests <- {"r", "s"}, MaxName <- 3, Legacy <- 1 .. 2, Limit <- 1,
    MaxCrash <- 1, NoRequest <- "none"

\* The two migrations, every step of which fails and dies.
Repository ==
  INSTANCE RepositoryMigration WITH
    archived <- v1, occupied <- v2, content <- v3, refs <- v4, tree <- v5, copy <- v6,
    profile <- v7, reference <- v8, pending <- v9, record <- v10, live <- v11, cmd <- v12,
    budget <- v13,
    Sources <- {"s", "t"}, Profiles <- {"p", "q"},
    Uses <- [p \in {"p", "q"} |-> IF p = "p" THEN {"s", "t"} ELSE {"s"}], Dirty <- {},
    Faults <- {"exchange", "archive", "record", "unsure", "publish", "unlink"},
    MaxFault <- 2, MaxCrash <- 2, MaxEdit <- 0, MaxLive <- 1, MaxOccupy <- 0, MaxDelete <- 0
Content ==
  INSTANCE ContentMigration WITH
    profile <- v1, place <- v2, drift <- v3, pending <- v4, record <- v5, rows <- v6,
    reference <- v7, cmd <- v8, budget <- v9,
    Profiles <- {"p", "q"}, Managed <- {"p"},
    Faults <- {"publish", "move", "write", "record", "unsure", "unlink", "back"},
    Killable <- {"apply"}, MaxFault <- 2, MaxCrash <- 2, MaxDrift <- 1, MaxEdit <- 0

\* One ledger through its whole life, its helper killed.
Root ==
  INSTANCE LedgerRoot WITH
    ledger <- v1, files <- v2, torn <- v3, bin <- v4, cmd <- v5, proven <- v6, crashes <- v7,
    drifts <- v8,
    Names <- {"a"}, Coords <- {}, MaxGen <- 2,
    Enabled <- {"create", "release", "archive", "reclaim", "patient"},
    Torn <- {"stage"}, MaxCrash <- 1, MaxDrift <- 0

\* A scope whose creation fails, one whose release is killed.
Creation ==
  INSTANCE ScopeLifecycle WITH
    journal <- v1, record <- v2, tree <- v3, branch <- v4, merged <- v5, drifted <- v6,
    profile <- v7, ref <- v8, built <- v9, topology <- v10, release <- v11, preview <- v12,
    cmd <- v13, spent <- v14,
    N <- 3, B <- 1, Enabled <- {}, Faults <- {"step"}, MaxFault <- 2, MaxCrash <- 0,
    MaxUser <- 0
Release ==
  INSTANCE ScopeLifecycle WITH
    journal <- v1, record <- v2, tree <- v3, branch <- v4, merged <- v5, drifted <- v6,
    profile <- v7, ref <- v8, built <- v9, topology <- v10, release <- v11, preview <- v12,
    cmd <- v13, spent <- v14,
    N <- 2, B <- 1, Enabled <- {"edit", "build", "topology"}, Faults <- {}, MaxFault <- 0,
    MaxCrash <- 1, MaxUser <- 2

\* The directory of the content, rebuilt while the checkout changes.
Directory ==
  INSTANCE ReplacedDirectory WITH
    tree <- v1, disk <- v2, journal <- v3, container <- v4, command <- v5, ended <- v6,
    spent <- v7,
    Kind <- "content", Snapshot <- TRUE, Enabled <- {"commit", "edit"}, MaxEdit <- 2,
    MaxFault <- 1, MaxCrash <- 1

\* One agent comments and makes ready, writes are lost, it is killed.
Leaf ==
  INSTANCE LeafLedger WITH
    ledger <- v1, pending <- v2, hub <- v3, tree <- v4, posts <- v5, agent <- v6, shown <- v7,
    spent <- v8,
    Agents <- {"p"}, Start <- "bound", Commands <- {"plan comment", "comment", "ready", "same"},
    People <- {"lose"}, MaxGen <- 5, MaxText <- 2, MaxCommit <- 0, MaxTouch <- 1, MaxKill <- 1

\* Two profiles build the Worker; an install fails, a builder dies, the source is edited.
Worker ==
  INSTANCE WorkerDependencies WITH
    inputs <- v1, entry <- v2, staging <- v3, tomb <- v4, backups <- v5, holder <- v6,
    work <- v7, view <- v8, cleaner <- v9, spent <- v10,
    Builders <- {"p", "q"}, Sources <- {1}, Configs <- {1}, MaxEdit <- 0, MaxConfig <- 0,
    MaxFail <- 1, MaxSpoil <- 0, MaxKill <- 1, MaxClean <- 0

\* Two users build in one root; a build fails, one dies, somebody swaps the receipt.
Prepared ==
  INSTANCE PreparedBuild WITH
    src <- v1, wrapper <- v2, out <- v3, public <- v4, aside <- v5, staged <- v6, holder <- v7,
    work <- v8, use <- v9, issued <- v10, launched <- v11, spent <- v12,
    Builders <- {"p", "q"}, Consumers <- {}, Kinds <- {"fenced"}, Persistent <- TRUE,
    MaxBuild <- 0, MaxLaunch <- 0, MaxEdit <- 0, MaxCommit <- 0, MaxTamper <- 0, MaxSwap <- 1,
    MaxRestore <- 0, MaxFail <- 0, MaxKill <- 1

ASSUME Topology!Assumptions /\ State!Assumptions /\ Output!Assumptions
ASSUME Cleanup!Assumptions /\ Paging!Assumptions /\ Repository!Assumptions
ASSUME Content!Assumptions /\ Root!Assumptions /\ Creation!Assumptions /\ Release!Assumptions
ASSUME Directory!Assumptions /\ Leaf!Assumptions /\ Worker!Assumptions
ASSUME Prepared!Assumptions

-----------------------------------------------------------------------------
(* The one that moves *)

None == "none"

\* A part of n variables leaves the others alone.
Unused(n) ==
  /\ n < 5 => v5 = None
  /\ n < 6 => v6 = None
  /\ n < 7 => v7 = None
  /\ n < 8 => v8 = None
  /\ n < 9 => v9 = None
  /\ n < 10 => v10 = None
  /\ n < 11 => v11 = None
  /\ n < 12 => v12 = None
  /\ n < 13 => v13 = None
  /\ n < 14 => v14 = None

Alone(n) ==
  /\ UNCHANGED part
  /\ n < 5 => UNCHANGED v5
  /\ n < 6 => UNCHANGED v6
  /\ n < 7 => UNCHANGED v7
  /\ n < 8 => UNCHANGED v8
  /\ n < 9 => UNCHANGED v9
  /\ n < 10 => UNCHANGED v10
  /\ n < 11 => UNCHANGED v11
  /\ n < 12 => UNCHANGED v12
  /\ n < 13 => UNCHANGED v13
  /\ n < 14 => UNCHANGED v14

Parts == {"order", "topology", "state", "output", "cleanup", "paging", "repository",
          "content", "root", "creation", "release", "directory", "leaf", "worker", "prepared"}

Size ==
  [p \in Parts |->
     CASE p = "order" -> 5
       [] p \in {"topology", "output"} -> 11
       [] p \in {"state", "worker"} -> 10
       [] p \in {"cleanup", "directory"} -> 7
       [] p = "paging" -> 4
       [] p = "repository" -> 13
       [] p = "content" -> 9
       [] p \in {"root", "leaf"} -> 8
       [] p \in {"creation", "release"} -> 14
       [] p = "prepared" -> 12]

Init ==
  /\ part \in Parts
  /\ \/ part = "order" /\ Order!Init
     \/ part = "topology" /\ Topology!Init
     \/ part = "state" /\ State!Init
     \/ part = "output" /\ Output!Init
     \/ part = "cleanup" /\ Cleanup!Init
     \/ part = "paging" /\ Paging!Init
     \/ part = "repository" /\ Repository!Init
     \/ part = "content" /\ Content!Init
     \/ part = "root" /\ Root!Init
     \/ part = "creation" /\ Creation!Init
     \/ part = "release" /\ Release!Init
     \/ part = "directory" /\ Directory!Init
     \/ part = "leaf" /\ Leaf!Init
     \/ part = "worker" /\ Worker!Init
     \/ part = "prepared" /\ Prepared!Init
  /\ Unused(Size[part])

Next ==
  /\ Alone(Size[part])
  /\ \/ part = "order" /\ Order!Next
     \/ part = "topology" /\ Topology!Next
     \/ part = "state" /\ State!Next
     \/ part = "output" /\ Output!Next
     \/ part = "cleanup" /\ Cleanup!Next
     \/ part = "paging" /\ Paging!Next
     \/ part = "repository" /\ Repository!Next
     \/ part = "content" /\ Content!ApplyNext
     \/ part = "root" /\ Root!Next
     \/ part = "creation" /\ Creation!Next
     \/ part = "release" /\ Release!Next
     \/ part = "directory" /\ Directory!Next
     \/ part = "leaf" /\ Leaf!Next
     \/ part = "worker" /\ Worker!Next
     \/ part = "prepared" /\ Prepared!Next

-----------------------------------------------------------------------------
(* Fairness, as each module states it *)

Weak(i) ==
  /\ Alone(Size[part])
  /\ \/ part = "order" /\ i \in 1 .. 3 /\ Order!Goes(i)
     \/ /\ part = "topology"
        /\ \/ i = 1 /\ (Topology!Ready(1) \/ Topology!StartFails(1))
           \/ i = 2 /\ Topology!LeaveLoop(1) /\ v8[1].requested
           \/ i = 3 /\ Topology!Terminate(1)
           \/ i = 4 /\ Topology!Reap(1)
           \/ i = 5 /\ Topology!RecordEnd(1)
           \/ i = 6 /\ Topology!ReleaseResources(1)
           \/ i = 7 /\ Topology!ReleaseTree(1)
           \/ i = 8 /\ Topology!GuardianWakes(1)
           \/ i = 9 /\ Topology!GuardianKills(1)
           \/ i = 10 /\ Topology!GuardianKillsAgain(1)
           \/ i = 11 /\ Topology!GuardianWaits(1)
           \/ i = 12 /\ Topology!TerminateAgain(1)
           \/ i = 13 /\ Topology!GuardianReleases(1)
           \/ i = 14 /\ Topology!GuardianEnds(1)
           \/ i = 15 /\ Topology!Relist(1)
           \/ i = 16 /\ Topology!Die(1)
     \/ /\ part = "state"
        /\ \/ /\ i = 1
              /\ \/ State!Down("t") \/ State!Start("t") \/ State!Promote("t")
                 \/ State!Restarted("t") \/ State!Record("t")
           \/ i = 2 /\ State!DownOpen("t")
     \/ /\ part = "output"
        /\ \/ i = 1 /\ Output!SupervisorStarts
           \/ i = 2 /\ Output!SupervisorStops
           \/ i = 3 /\ Output!Exit
           \/ i = 4 /\ Output!Command("topology")
     \/ /\ part = "cleanup"
        /\ \/ i = 1 /\ Cleanup!Step("r")
           \/ i = 2 /\ Cleanup!Step("s")
           \/ i \in 3 .. 6 /\ Cleanup!Release(<<"a", "b", "c", "d">>[i - 2])
           \/ i \in 7 .. 10 /\ Cleanup!Age(<<"a", "b", "c", "d">>[i - 6])
     \/ /\ part = "paging"
        /\ \/ i = 1 /\ Paging!Complete("c")
           \/ i = 2 /\ Paging!Acknowledge("c")
     \/ /\ part = "repository"
        /\ \/ i = 1 /\ Repository!Command
           \/ i = 2 /\ Repository!StopTopology
           \/ i = 3 /\ Repository!Vacate("s")
           \/ i = 4 /\ Repository!Vacate("t")
     \/ /\ part = "content"
        /\ \/ i = 1 /\ Content!Work
           \/ i = 2 /\ Content!Asked
           \/ i = 3 /\ Content!Settle("p")
     \/ part = "root" /\ i = 1 /\ Root!Step
     \/ /\ part = "creation"
        /\ \/ i = 1 /\ Creation!CreateSteps
           \/ i = 2 /\ Creation!RetryBegins
     \/ /\ part = "release"
        /\ \/ i = 1 /\ Release!CreateSteps
           \/ i = 2 /\ Release!RetryBegins
           \/ i = 3 /\ Release!ReleaseSteps
           \/ i = 4 /\ Release!Preview
           \/ i = 5 /\ Release!ReleaseBegins
     \/ /\ part = "directory"
        /\ \/ i = 1 /\ Directory!Work
           \/ i = 2 /\ Directory!Begin
     \/ /\ part = "leaf"
        /\ \/ i = 1 /\ Leaf!Works("p")
           \/ i = 2 /\ \E p \in v5 : Leaf!Land(p)
     \/ /\ part = "worker"
        /\ \/ i = 1 /\ Worker!Step("p")
           \/ i = 2 /\ Worker!Step("q")
     \/ /\ part = "prepared"
        /\ \/ i = 1 /\ Prepared!BuildStep("p")
           \/ i = 2 /\ Prepared!BuildStep("q")
           \/ i = 3 /\ Prepared!Ask("p", "fenced")
           \/ i = 4 /\ Prepared!Ask("q", "fenced")
           \/ i = 5 /\ Prepared!Vacate

Strong(i) ==
  /\ Alone(Size[part])
  /\ \/ part = "order" /\ i \in 1 .. 3 /\ Order!Grant(i)
     \/ /\ part = "state"
        /\ \/ i = 1 /\ State!DownRemoves("t")
           \/ i = 2 /\ State!CommitAside("t")
           \/ i = 3 /\ State!CommitEmpty("t")
           \/ i = 4 /\ State!CommitRemoved("t")
     \/ /\ part = "output"
        /\ \/ i = 1 /\ Output!BeginUp("topology")
           \/ i = 2 /\ Output!BeginDown("topology")
     \/ /\ part = "paging"
        /\ \/ i = 1 /\ Paging!Scan("c", "r")
           \/ i = 2 /\ Paging!Scan("c", "s")
     \/ part = "content" /\ i = 1 /\ Content!RecoverByHand
     \/ /\ part = "root"
        /\ \E r \in Root!Requests :
             /\ i \in 1 .. 4 /\ r.op = <<"create", "release", "archive", "reclaim">>[i]
             /\ Root!Finishes(r) /\ Root!Begin(r)
     \/ /\ part = "leaf"
        /\ \/ i = 1 /\ Leaf!Retry("p")
           \/ i = 2 /\ Leaf!Inspect("p", "comment")
           \/ i = 3 /\ Leaf!Inspect("p", "ready")
     \/ /\ part = "worker"
        /\ \/ i = 1 /\ Worker!Lock("p")
           \/ i = 2 /\ Worker!Lock("q")
     \/ /\ part = "prepared"
        /\ \/ i = 1 /\ Prepared!Lock("p")
           \/ i = 2 /\ Prepared!Lock("q")

Fairness ==
  /\ \A i \in 1 .. 16 : WF_vars(Weak(i))
  /\ \A i \in 1 .. 4 : SF_vars(Strong(i))

FairSpec == Init /\ [][Next]_vars /\ Fairness

-----------------------------------------------------------------------------
(* Properties *)

\* What each part owes in the i-th place: a grant to whoever waits, the leases of a tree
\* whose supervisor died or was told to stop, a removal, an output, a cleanup, a scan, a
\* ledger command, a scope or a release that began; and when it is paid.
Owed(i) ==
  \/ part = "order" /\ Order!Waiting(i)
  \/ /\ part = "topology"
     /\ \/ i = 1 /\ v3[1] = "gone"
        \/ i = 2 /\ v8[1].requested
  \/ part = "state" /\ i = 1 /\ v2["t"].life = "removal-pending"
  \/ part = "output" /\ i \in 1 .. 2 /\ v4[i] # Output!NoOutput
  \/ /\ part = "cleanup"
     /\ \/ i = 1 /\ v2["r"].status = "in-progress"
        \/ i = 2 /\ v2["s"].status = "in-progress"
  \/ part = "paging" /\ i = 1 /\ v2 # Paging!NoCursor
  \/ part = "root" /\ i = 1 /\ Root!Unfinished("a")
  \/ part = "creation" /\ i = 1 /\ v1.status = "rolled back"
  \/ part = "release" /\ i = 1 /\ v11.status = "applying"

Paid(i) ==
  \/ part = "order" /\ v1[i] # "acquire"
  \/ part = "topology" /\ ~Topology!TreeHolders(1)
  \/ part = "state" /\ v2["t"].life # "removal-pending"
  \/ part = "output" /\ i \in 1 .. 2 /\ v4[i] = Output!NoOutput
  \/ /\ part = "cleanup"
     /\ \/ i = 1 /\ v2["r"].status = "none"
        \/ i = 2 /\ v2["s"].status = "none"
  \/ part = "paging" /\ v2 = Paging!NoCursor
  \/ part = "root" /\ ~Root!Unfinished("a")
  \/ part = "creation" /\ v2
  \/ part = "release" /\ (v11.status = "complete" \/ Release!Unforeseen)

\* Whatever is begun is finished by whoever repeats it, however often it is killed.
NothingStaysOwed == \A i \in 1 .. 3 : Owed(i) ~> Paid(i)

\* A migration that is asked for until it is done is recorded, its journal gone; the content
\* is made from the checkout as it is; a leaf has no intent left that its agent can settle.
Settled ==
  /\ part = "repository" => v10 # Repository!NoPlan /\ v9 = Repository!NoPlan
  /\ part = "content" => v5 = "complete" /\ v4 = "none"
  /\ part = "directory" => Directory!Stuck \/ (Directory!At("idle") => Directory!Fresh)
  /\ part = "leaf" =>
       \/ Leaf!Orphaned
       \/ v1.body.state # "update-planned" /\ ~v1.ready /\ v1.comment.state # "in-flight"

\* A replacement cut short is cleared, and builds asked for again succeed.
Served(i) ==
  /\ part = "leaf" => v2 = Leaf!NoPending
  /\ part = "worker" => v7[<<"p", "q">>[i]].ended = "done"
  /\ part = "prepared" => v8[<<"p", "q">>[i]].ended = "completed"

\* Asking again and again gets there: what settles is settled for good in the end, and
\* whoever builds is served again and again, through failures, kills and lost writes.
AskingHelps == <>[]Settled /\ \A i \in 1 .. 2 : []<>Served(i)
=============================================================================
