------------------------- MODULE DevelopmentBuild -------------------------
(***************************************************************************)
(* Builds of the two playable services, and the launches made from them    *)
(* (src/atrinik_workspace/workspace.py: dev_build, dev_up, dev_restart,    *)
(* _build_resolved, the source views, _cmake and what decides whether its  *)
(* configure command is run).  A build root is keyed by the paths of its   *)
(* sources: the checkouts people edit, or a sealed generation of one       *)
(* commit.  In a root each binary tree has a view of the sources, a cache, *)
(* a Ninja graph, objects, the executables compiled, and the fingerprint   *)
(* recorded after it was configured.  A tree is configured again, emptied  *)
(* first, or used as it is; a command may fail or be killed at any step.   *)
(*                                                                         *)
(* A content is the part of the sources that CMake reads and Ninja does    *)
(* not watch; a head is the content that was committed.  The directories   *)
(* of a tree and its view are "none", "bare" (made, not yet marked as the  *)
(* wrapper's) or "marked".  The root lock and the topology's lease let one *)
(* command work at a time.                                                 *)
(***************************************************************************)
EXTENDS Integers, FiniteSets

CONSTANTS Integrated,  \* whether the checkout has one graph for both services
          Primary,     \* whether the profile selects the primary checkouts
          Commands,    \* the commands given: "build", "up", "restart"
          Asked,       \* the sets of services asked for
          Tests,       \* whether a build is asked for with tests: a set of BOOLEANs
          Forces,      \* whether its configure is forced: a set of BOOLEANs
          Envs,        \* the environments commands are given in
          Incomplete,  \* the toolchains whose files cannot all be identified
          Enabled,     \* what people do: "edit", "undo", "commit", "upgrade", "midbuild", "byhand"
          MaxContent,  \* bound on the contents
          MaxTool,     \* bound on the versions of the tools
          MaxFault     \* bound on the commands that fail or are killed

\* What an instance assumes of the constants.
Assumptions ==
  /\ Integrated \in BOOLEAN /\ Primary \in BOOLEAN
  /\ Commands \subseteq {"build", "up", "restart"}
  /\ Asked \subseteq SUBSET {"client", "server"} /\ {} \notin Asked
  /\ Tests \subseteq BOOLEAN /\ Forces \subseteq BOOLEAN
  /\ Envs \subseteq Nat /\ Incomplete \subseteq Nat
  /\ Enabled \subseteq {"edit", "undo", "commit", "upgrade", "midbuild",
       "byhand"}
  /\ {MaxContent, MaxTool, MaxFault} \subseteq Nat

VARIABLES src,      \* the checkout: its content, its head
          tool,     \* the version of CMake, Ninja and the compilers
          view,     \* per root and tree: the view of the sources, what its metadata says
          tree,     \* per root and tree: the binary tree
          shape,    \* per root and service: the graph it is recorded to be served from
          maps,     \* per root: the clean head its region maps are of, or 0
          running,  \* the services of the topology that runs
          work,     \* the command at work
          last,     \* the last command that completed
          faults    \* the commands that failed or were killed so far

vars == <<src, tool, view, tree, shape, maps, running, work, last, faults>>
people == <<src, tool>>

Services == {"client", "server"}
Trees == Services \cup {"integrated"}
Live == 0
Roots == {Live} \cup (IF Primary THEN 1..MaxContent ELSE {})

NoArgs == [head |-> 0, dirty |-> FALSE, tests |-> FALSE]
NoPrint == [meta |-> 0, tool |-> 0, env |-> 0, args |-> NoArgs]
NoSource == [content |-> 0, tool |-> 0, env |-> 0, args |-> NoArgs]
NoTree == [place |-> "none", record |-> NoPrint, cache |-> NoArgs, graph |-> FALSE,
           from |-> NoSource, objects |-> {}, tomb |-> FALSE,
           built |-> [s \in Services |-> 0]]
NoWork == [at |-> "idle", cmd |-> "none", services |-> {}, launch |-> {},
           args |-> NoArgs, env |-> 0, force |-> FALSE, root |-> Live, tree |-> "none",
           todo |-> {}, roles |-> {}, tool |-> 0, looked |-> [content |-> 0, head |-> 0],
           unchanged |-> FALSE, made |-> [s \in Services |-> 0]]
NoLast == [services |-> {}, args |-> NoArgs, env |-> 0, tool |-> 0]

(* A workspace in which nothing was built. *)
Init ==
  /\ src = [content |-> 1, head |-> 1]
  /\ tool = 1
  /\ view = [r \in Roots |-> [t \in Trees |-> [place |-> "none", meta |-> 0]]]
  /\ tree = [r \in Roots |-> [t \in Trees |-> NoTree]]
  /\ shape = [r \in Roots |-> [s \in Services |-> "standalone"]]
  /\ maps = [r \in Roots |-> 0]
  /\ running = {}
  /\ work = NoWork
  /\ last = NoLast
  /\ faults = 0

At(station) == work.at = station
Goes(station) == work' = [work EXCEPT !.at = station]
Here == tree[work.root][work.tree]
SetTree(new) == tree' = [tree EXCEPT ![work.root][work.tree] = new]
MyView == view[work.root][work.tree]
SetView(new) == view' = [view EXCEPT ![work.root][work.tree] = new]
Dirty(s) == s.content # s.head

(* What the sources of a root contain: a sealed generation is one commit,  *)
(* for ever; the checkout is what people make of it.                       *)
Reads(r) == IF r = Live THEN src ELSE [content |-> r, head |-> r]

(* One graph compiles both services where the roles are directories of one *)
(* checkout that has a CMakeLists of its own, as sealed generations do not. *)
OneGraph(r) == Integrated /\ r = Live
TreesOf(r, services) == IF OneGraph(r) THEN {"integrated"} ELSE services

(* The tree a service's executable is taken from, and the content it was *)
(* compiled from, 0 when it is not there.                                *)
TreeOf(r, s) == IF shape[r][s] = "integrated" THEN "integrated" ELSE s
Executable(r, s) == tree[r][TreeOf(r, s)].built[s]
-----------------------------------------------------------------------------
(* The root a command works in: a build seals clean primary checkouts and  *)
(* works in the root of what it sealed; a launch, and a restart whatever   *)
(* it sealed, resolve the live paths again.                                *)
RootOf(cmd) == IF cmd = "build" /\ Primary /\ ~Dirty(src) THEN src.head ELSE Live

(* A command resolves its profile: the heads and the cleanness of its *)
(* checkouts, which become arguments of the configure command.        *)
Begin(cmd, services, launch, tests, force, env) ==
  /\ At("idle") /\ cmd \in Commands
  /\ work' = [NoWork EXCEPT
       !.at = IF cmd = "restart" THEN "stop" ELSE "view", !.cmd = cmd,
       !.services = services, !.launch = launch, !.env = env, !.force = force,
       !.args = [head |-> src.head, dirty |-> Dirty(src), tests |-> tests],
       !.root = RootOf(cmd), !.todo = TreesOf(RootOf(cmd), services), !.tool = tool]
  /\ last' = IF cmd = "up" THEN last ELSE NoLast
  /\ UNCHANGED <<people, view, tree, shape, maps, running, faults>>

BeginBuild == \E services \in Asked, tests \in Tests, force \in Forces, env \in Envs :
  Begin("build", services, {}, tests, force, env)

BeginUp == \E services \in Asked, env \in Envs :
  running = {} /\ Begin("up", services, services, FALSE, FALSE, env)

(* A restart rebuilds one service and launches all that ran. *)
BeginRestart == \E service \in running, env \in Envs :
  Begin("restart", {service}, running, FALSE, FALSE, env)

(* It stops the topology before it builds. *)
Stop ==
  /\ At("stop")
  /\ running' = {}
  /\ Goes("view")
  /\ UNCHANGED <<people, view, tree, shape, maps, last, faults>>
-----------------------------------------------------------------------------
(* The view of the next tree's sources.  A directory that is not marked is *)
(* refused, whoever made it.                                               *)
NextTree == IF "client" \in work.todo THEN "client" ELSE CHOOSE t \in work.todo : TRUE

OpenView ==
  /\ At("view") /\ work.todo # {}
  /\ LET place == view[work.root][NextTree].place IN
       \/ /\ place = "none"
          /\ view' = [view EXCEPT ![work.root][NextTree].place = "bare"]
          /\ work' = [work EXCEPT !.at = "mark", !.tree = NextTree]
       \/ /\ place = "bare"
          /\ work' = NoWork
          /\ UNCHANGED view
       \/ /\ place = "marked"
          /\ work' = [work EXCEPT !.at = "look", !.tree = NextTree]
          /\ UNCHANGED view
  /\ UNCHANGED <<people, tree, shape, maps, running, last, faults>>

MarkView ==
  /\ At("mark")
  /\ SetView([MyView EXCEPT !.place = "marked"])
  /\ Goes("look")
  /\ UNCHANGED <<people, tree, shape, maps, running, last, faults>>

(* The head and the cleanness are read first, then the entries are linked *)
(* or copied.                                                             *)
Look ==
  /\ At("look")
  /\ work' = [work EXCEPT !.at = "describe", !.looked = Reads(work.root)]
  /\ UNCHANGED <<people, view, tree, shape, maps, running, last, faults>>

(* The view is unchanged if the metadata on disk say the same and the *)
(* sources are not dirty; how they are dirty is not in the metadata.  *)
Describe ==
  /\ At("describe")
  /\ work' = [work EXCEPT !.at = "binary",
       !.unchanged = MyView.meta = work.looked.head /\ ~Dirty(work.looked)]
  /\ SetView([MyView EXCEPT !.meta = work.looked.head])
  /\ UNCHANGED <<people, tree, shape, maps, running, last, faults>>

(* The identity arguments are looked up by the path of the source among    *)
(* those the command captured: a restart that sealed clean primaries       *)
(* captured the paths of generations, and has the live ones.               *)
Captured == ~(work.cmd = "restart" /\ Primary /\ ~work.args.dirty)

(* An unmarked binary directory of a marked root is taken over. *)
OpenBinary ==
  /\ At("binary")
  /\ \/ /\ ~Captured
        /\ Goes("missing")
        /\ UNCHANGED tree
     \/ /\ Captured /\ Here.place # "marked"
        /\ SetTree([Here EXCEPT !.place = "bare"])
        /\ Goes("adopt")
     \/ /\ Captured /\ Here.place = "marked"
        /\ Goes("decide")
        /\ UNCHANGED tree
  /\ UNCHANGED <<people, view, shape, maps, running, last, faults>>

Adopt ==
  /\ At("adopt")
  /\ SetTree([Here EXCEPT !.place = "marked"])
  /\ Goes("decide")
  /\ UNCHANGED <<people, view, shape, maps, running, last, faults>>
-----------------------------------------------------------------------------
(* What a configure fingerprint holds: the metadata of the view, the tools, *)
(* the environment, the arguments.                                          *)
Fingerprint == [meta |-> MyView.meta, tool |-> tool, env |-> work.env, args |-> work.args]

(* The compilers and their runtimes, as this environment finds them; some file *)
(* of the toolchain cannot be identified.                                      *)
Tools == [tool |-> tool, env |-> work.env]
Unidentified == tool \in Incomplete

(* The cache and the Ninja graph are there and were given these arguments. *)
StateValid == Here.graph /\ Here.cache = work.args

(* The tree was initialized by other tools, in another environment, or with *)
(* other arguments: it is emptied first.                                    *)
MustReset ==
  \/ [tool |-> Here.record.tool, env |-> Here.record.env] # Tools
  \/ Unidentified
  \/ ~StateValid

\* Mutant: dirty sources do not force the configure command.
ConfigureByPrint == work.force \/ Here.record # Fingerprint

(* The explicit configure command is run unless nothing it was run with *)
(* last has changed.                                                    *)
MustConfigure == work.force \/ ~work.unchanged \/ Here.record # Fingerprint

Decide ==
  /\ At("decide")
  /\ work' = [work EXCEPT
       !.at = IF MustReset THEN "reset"
              ELSE IF MustConfigure THEN "configure" ELSE "compile",
       !.looked = NoWork.looked, !.unchanged = FALSE]
  /\ UNCHANGED <<people, view, tree, shape, maps, running, last, faults>>

(* A tree is emptied: whatever part of it is removed first, then the rest. *)
Empty == \E place \in {"bare", "marked"}, kept \in SUBSET {"record", "cache", "graph"} :
  /\ At("reset")
  /\ SetTree([Here EXCEPT !.place = place,
       !.record = IF "record" \in kept THEN @ ELSE NoPrint,
       !.cache = IF "cache" \in kept THEN @ ELSE NoArgs,
       !.graph = @ /\ "graph" \in kept,
       !.built = IF "graph" \in kept THEN @ ELSE NoTree.built])
  /\ Goes("bury")
  /\ UNCHANGED <<people, view, shape, maps, running, last, faults>>

(* It is renamed to the one name its own gives, which must be free. *)
Bury ==
  /\ At("bury")
  /\ IF Here.tomb
     THEN SetTree([NoTree EXCEPT !.place = "bare", !.tomb = TRUE]) /\ Goes("refused")
     ELSE SetTree([NoTree EXCEPT !.tomb = TRUE]) /\ Goes("remake")
  /\ UNCHANGED <<people, view, shape, maps, running, last, faults>>

(* What was renamed is removed, and the directory made again. *)
Remake ==
  /\ At("remake")
  /\ SetTree([NoTree EXCEPT !.place = "bare"])
  /\ Goes("own")
  /\ UNCHANGED <<people, view, shape, maps, running, last, faults>>

Own ==
  /\ At("own")
  /\ SetTree([Here EXCEPT !.place = "marked"])
  /\ Goes("configure")
  /\ UNCHANGED <<people, view, shape, maps, running, last, faults>>

(* CMake writes its cache and, at the end, the graph. *)
Configure ==
  /\ At("configure")
  /\ SetTree([Here EXCEPT !.cache = work.args, !.graph = TRUE,
       !.from = [content |-> Reads(work.root).content, tool |-> tool,
                 env |-> work.env, args |-> work.args]])
  /\ Goes("record")
  /\ UNCHANGED <<people, view, shape, maps, running, last, faults>>

(* The fingerprint is taken again and recorded. *)
Record ==
  /\ At("record")
  /\ SetTree([Here EXCEPT !.record = Fingerprint])
  /\ Goes("compile")
  /\ UNCHANGED <<people, view, shape, maps, running, last, faults>>

(* One service's targets, or all of a graph's: of a graph both are asked  *)
(* for, or all is tested.                                                 *)
Targets == IF work.args.tests \/ work.services = Services
           THEN IF work.tree = "integrated" THEN Services ELSE {work.tree}
           ELSE work.services

Compiled(done) ==
  [Here EXCEPT !.objects = @ \cup {<<tool, work.env>>},
     !.built = [s \in Services |-> IF s \in done THEN Reads(work.root).content ELSE @[s]]]

Compile ==
  /\ At("compile")
  /\ SetTree(Compiled(Targets))
  /\ work' = [work EXCEPT !.at = "shape",
       !.roles = IF work.tree = "integrated" THEN Services ELSE {work.tree},
       !.made = [s \in Services |->
                   IF s \in Targets THEN Reads(work.root).content ELSE @[s]]]
  /\ UNCHANGED <<people, view, shape, maps, running, last, faults>>

(* Which graph serves a service is recorded, a role at a time. *)
RecordShape ==
  /\ At("shape") /\ work.roles # {}
  /\ \E s \in work.roles :
       /\ shape' = [shape EXCEPT ![work.root][s] =
            IF work.tree = "integrated" THEN "integrated" ELSE "standalone"]
       /\ work' = IF work.roles = {s}
                  THEN [work EXCEPT !.at = IF work.todo = {work.tree} THEN "maps" ELSE "view",
                          !.roles = {}, !.todo = @ \ {work.tree}, !.tree = "none"]
                  ELSE [work EXCEPT !.roles = @ \ {s}]
  /\ UNCHANGED <<people, view, tree, maps, running, last, faults>>
-----------------------------------------------------------------------------
(* The region maps are made by running the server, unless they are of the *)
(* same clean heads; a build of the client alone does without.            *)
NeedsMaps == work.cmd = "build" => "server" \in work.services
MapsMatch == ~work.args.dirty /\ maps[work.root] = work.args.head

Maps ==
  /\ At("maps")
  /\ \/ /\ ~NeedsMaps \/ MapsMatch
        /\ Goes("publish")
        /\ UNCHANGED maps
     \/ /\ NeedsMaps /\ ~MapsMatch
        /\ IF Executable(work.root, "server") = 0
           THEN Goes("missing") /\ UNCHANGED maps
           ELSE /\ maps' = [maps EXCEPT ![work.root] =
                              IF work.args.dirty THEN 0 ELSE work.args.head]
                /\ Goes("publish")
  /\ UNCHANGED <<people, view, tree, shape, running, last, faults>>

(* A launch publishes a runtime with the executables of its services and *)
(* starts them.                                                          *)
Publish ==
  /\ At("publish")
  /\ IF \E s \in work.launch : Executable(work.root, s) = 0
     THEN Goes("missing") /\ UNCHANGED running
     ELSE Goes("complete") /\ running' = running \cup work.launch
  /\ UNCHANGED <<people, view, tree, shape, maps, last, faults>>

Complete ==
  /\ At("complete")
  /\ work' = NoWork
  /\ last' = IF work.cmd = "build"
             THEN [services |-> work.services, args |-> work.args, env |-> work.env,
                   tool |-> work.tool]
             ELSE NoLast
  /\ UNCHANGED <<people, view, tree, shape, maps, running, faults>>

(* A command that lacks an input it needs, or a source it captured, or a *)
(* free name, ends.                                                      *)
GiveUp ==
  /\ At("missing") \/ At("refused")
  /\ work' = NoWork
  /\ last' = NoLast
  /\ UNCHANGED <<people, view, tree, shape, maps, running, faults>>

(* A command fails, or is killed, at any step: a configure that did not end *)
(* may have written its cache, a compilation some objects and executables.  *)
Interrupted ==
  /\ ~At("idle") /\ faults < MaxFault
  /\ \/ /\ ~At("configure") /\ ~At("compile")
        /\ UNCHANGED tree
     \/ /\ At("configure")
        /\ \E written \in {Here.cache, work.args} : SetTree([Here EXCEPT !.cache = written])
     \/ /\ At("compile")
        /\ \E done \in SUBSET Targets : SetTree(Compiled(done))
  /\ work' = NoWork
  /\ last' = NoLast
  /\ faults' = faults + 1
  /\ UNCHANGED <<people, view, shape, maps, running>>
-----------------------------------------------------------------------------
(* People edit, undo and commit in the checkout, upgrade the tools, take  *)
(* the topology down, and remove what the wrapper refuses to touch: a     *)
(* directory that is not marked, what was left under the name a removed   *)
(* tree is renamed to.                                                    *)
Edit ==
  /\ "edit" \in Enabled /\ src.content < MaxContent
  /\ src' = [src EXCEPT !.content = @ + 1]
  /\ UNCHANGED <<tool, view, tree, shape, maps, running, work, last, faults>>

Undo ==
  /\ "undo" \in Enabled /\ Dirty(src)
  /\ src' = [src EXCEPT !.content = src.head]
  /\ UNCHANGED <<tool, view, tree, shape, maps, running, work, last, faults>>

Commit ==
  /\ "commit" \in Enabled /\ Dirty(src)
  /\ src' = [src EXCEPT !.head = src.content]
  /\ UNCHANGED <<tool, view, tree, shape, maps, running, work, last, faults>>

Upgrade ==
  /\ "upgrade" \in Enabled /\ tool < MaxTool
  /\ At("idle") \/ "midbuild" \in Enabled
  /\ tool' = tool + 1
  /\ UNCHANGED <<src, view, tree, shape, maps, running, work, last, faults>>

Down ==
  /\ At("idle") /\ running # {}
  /\ running' = {}
  /\ UNCHANGED <<people, view, tree, shape, maps, work, last, faults>>

Clear == \E r \in Roots, t \in Trees :
  /\ At("idle")
  /\ \/ /\ view[r][t].place = "bare"
        /\ view' = [view EXCEPT ![r][t].place = "none"]
        /\ UNCHANGED tree
     \/ /\ "byhand" \in Enabled /\ tree[r][t].tomb
        /\ tree' = [tree EXCEPT ![r][t].tomb = FALSE]
        /\ UNCHANGED view
  /\ UNCHANGED <<people, shape, maps, running, work, last, faults>>
-----------------------------------------------------------------------------
BeginAny == BeginBuild \/ BeginUp \/ BeginRestart
Step ==
  \/ Stop \/ OpenView \/ MarkView \/ Look \/ Describe \/ OpenBinary \/ Adopt \/ Decide
  \/ Empty \/ Bury \/ Remake \/ Own \/ Configure \/ Record \/ Compile \/ RecordShape
  \/ Maps \/ Publish \/ Complete \/ GiveUp

Next == BeginAny \/ Step \/ Interrupted \/ Edit \/ Undo \/ Commit \/ Upgrade \/ Down \/ Clear

Spec == Init /\ [][Next]_vars

(* A command at work goes on; people give commands again, and remove what *)
(* the wrapper refuses.                                                   *)
FairSpec == Spec /\ WF_vars(Step) /\ WF_vars(BeginAny) /\ SF_vars(Clear)
-----------------------------------------------------------------------------
(* The values of the variables. *)
Stations == {"idle", "stop", "view", "mark", "look", "describe", "binary", "adopt",
             "decide", "reset", "bury", "remake", "own", "configure", "record", "compile",
             "shape", "maps", "publish", "complete", "missing", "refused"}
Places == {"none", "bare", "marked"}
Contents == 0..MaxContent
ArgSet == [head : Contents, dirty : BOOLEAN, tests : BOOLEAN]

TypeOK ==
  /\ src \in [content : 1..MaxContent, head : 1..MaxContent]
  /\ tool \in 1..MaxTool /\ faults \in 0..MaxFault
  /\ running \subseteq Services /\ maps \in [Roots -> Contents]
  /\ view \in [Roots -> [Trees -> [place : Places, meta : Contents]]]
  /\ shape \in [Roots -> [Services -> {"standalone", "integrated"}]]
  /\ \A r \in Roots, t \in Trees :
       LET b == tree[r][t] IN
         /\ b.place \in Places /\ b.cache \in ArgSet /\ b.graph \in BOOLEAN /\ b.tomb \in BOOLEAN
         /\ b.record.meta \in Contents /\ b.record.args \in ArgSet
         /\ b.objects \subseteq (1..MaxTool) \X Envs /\ b.built \in [Services -> Contents]
  /\ work.at \in Stations /\ work.services \subseteq Services /\ work.root \in Roots
  /\ work.todo \subseteq Trees /\ work.tree \in Trees \cup {"none"}
  /\ last.args \in ArgSet /\ (At("idle") => work = NoWork)
  /\ work.tree = "none" \/ work.tree \in TreesOf(work.root, work.services)

(* A build that does not run the configure command works in a tree that was *)
(* last configured from the sources as its view found them, by the tools,   *)
(* in the environment and with the arguments of this build: whatever failed *)
(* or was killed in between (workspace.py:11897-11955).                     *)
SkippedIsCurrent ==
  At("decide") /\ work'.at = "compile" =>
    Here.from = [content |-> work.looked.content, tool |-> tool,
                 env |-> work.env, args |-> work.args]

(* Once a tree is compiled all its objects were made by the tools and in    *)
(* the environment of this build, unless the tools changed during it: a     *)
(* change reinitializes the tree first (workspace.py:11911-11929).          *)
PureObjects ==
  At("shape") /\ work.tool = tool => Here.objects \subseteq {<<tool, work.env>>}

(* In the root of a sealed generation everything is of its commit, however  *)
(* the checkout was edited meanwhile (workspace.py:9050, 10507-10536).      *)
SealedIsItsCommit ==
  \A r \in Roots \ {Live}, t \in Trees :
    /\ tree[r][t].from.content \in {0, r}
    /\ \A s \in Services : tree[r][t].built[s] \in {0, r}

(* When a command completes, the services it was asked for are served from  *)
(* the tree it compiled them in (workspace.py:12859-12884).                 *)
LastBuildServes ==
  At("complete") => \A s \in work.services :
    work.made[s] # 0 /\ Executable(work.root, s) = work.made[s]

(* A launch that follows a completed build of its services, with the same   *)
(* clean sources, tools and environment, configures nothing                 *)
(* (README.md:822-824; workspace.py:9029-9117).                             *)
WarmBuildWarms ==
  At("decide") /\ work.cmd = "up" /\ work.services \subseteq last.services
  /\ last.args = work.args /\ ~work.args.dirty
  /\ work.looked = [content |-> work.args.head, head |-> work.args.head]
  /\ last.env = work.env /\ last.tool = tool /\ tool \notin Incomplete
    => work'.at \notin {"reset", "configure"}

(* A paired launch is not refused for want of an executable of a service   *)
(* it has compiled (README.md:822-826; workspace.py:9095-9117, 25003-25043). *)
LaunchesPublish == ~(At("missing") /\ work.cmd = "up")
=============================================================================
