-------------------------- MODULE TopologySupervisor --------------------------
(***************************************************************************)
(* Topologies, their supervisors and guardians: topology_up, topology_down *)
(* and dev_restart of workspace.py, supervisor.py, process_tree.py and     *)
(* port_reservation.py.                                                    *)
(*                                                                         *)
(* A launch is one generation of a topology.  Its leases are open file     *)
(* descriptions that the command prepares and the supervisor, its guardian *)
(* and, for the process tree only, the services inherit; each stays locked *)
(* until the last of them is gone, so who holds what follows from where    *)
(* they stand.  Every topology wants the same state.                       *)
(***************************************************************************)
EXTENDS Naturals, FiniteSets

CONSTANTS Commands,    \* invocations of the workspace tool
          Topologies,
          Processes,   \* services and their descendants, over all launches
          MaxLaunch,   \* bound on the generations
          PortOf,      \* PortOf[g]: the port launch g wants
          Faults       \* who may be killed, and whether a scan of /proc may miss a fork

Launches == 1..MaxLaunch
\* What an instance assumes of the constants.
Assumptions ==
  /\ Faults \subseteq {"command", "supervisor", "guardian", "race"}
  /\ MaxLaunch \in Nat
  /\ DOMAIN PortOf = Launches /\ Topologies # {}

NoLaunch == 0

Preparing == {"opened", "locked", "free", "reserved", "stated", "retired", "bound"}
Restoring == {"unwinding", "rebound"}
Stations == {"idle"} \cup Preparing \cup Restoring \cup {"waiting", "asked", "forcing"}

Watching == {"watch", "wait", "kill", "last"}
Alive == {"boot", "guarded", "spawned", "starting", "serving", "terminating", "killing",
          "recording", "recorded", "released"}

VARIABLES cmd,      \* cmd[c]: station, topology, launch, restart in progress, stop was answered
          of,       \* of[g]: the topology of launch g
          sup,      \* sup[g]: where the supervisor of g stands
          kin,      \* kin[g]: where its guardian stands
          kids,     \* kids[g]: live processes that hold the process-tree lease of g
          doomed,   \* doomed[g]: the processes of g that were sent SIGKILL
          listed,   \* listed[g]: processes the current scan of /proc has to look at
          memory,   \* memory[g]: control request seen, error seen, termination not clean
          lease,    \* lease[t]: the generation written into the process-tree lease
          status,   \* status[t]: status.json
          told      \* told[g]: what a down of g reported, for the properties

vars == <<cmd, of, sup, kin, kids, doomed, listed, memory, lease, status, told>>
actors == <<sup, kin, kids, doomed, listed, memory>>

NoStatus == [gen |-> NoLaunch, stopped |-> FALSE, requested |-> FALSE, clean |-> FALSE, error |-> FALSE]
Idle == [at |-> "idle", t |-> CHOOSE t \in Topologies : TRUE, g |-> NoLaunch,
         restart |-> NoLaunch, heard |-> FALSE]

Init ==
  /\ cmd = [c \in Commands |-> Idle]
  /\ of = [g \in Launches |-> CHOOSE t \in Topologies : TRUE]
  /\ sup = [g \in Launches |-> "none"]
  /\ kin = [g \in Launches |-> "none"]
  /\ kids = [g \in Launches |-> {}]
  /\ doomed = [g \in Launches |-> {}]
  /\ listed = [g \in Launches |-> {}]
  /\ memory = [g \in Launches |-> [requested |-> FALSE, error |-> FALSE, dirty |-> FALSE]]
  /\ lease = [t \in Topologies |-> NoLaunch]
  /\ status = [t \in Topologies |-> NoStatus]
  /\ told = [g \in Launches |-> "nothing"]

-----------------------------------------------------------------------------
(* Who holds which lease *)

Running(g) == sup[g] \in Alive
Guarding(g) == kin[g] \notin {"none", "gone"}

\* The process-tree lease of t: a command from its lock to the handoff (or the
\* end of a rollback), the supervisor, the guardian and every process below.
TreeHolders(g) == Running(g) \/ Guarding(g) \/ kids[g] # {}
TreeLocked(t) ==
  \/ \E c \in Commands : cmd[c].t = t /\ cmd[c].at \in (Preparing \ {"opened"}) \cup Restoring
  \/ \E g \in Launches : of[g] = t /\ TreeHolders(g)

\* State, runtime and port leases after the handoff: the supervisor until it
\* has recorded the end, the guardian until it saw the tree gone.
Retains(g) == (Running(g) /\ sup[g] # "released") \/ kin[g] \in Watching

PortHeld(g) ==
  \/ Retains(g)
  \/ \E c \in Commands :
       cmd[c].g = g /\ cmd[c].at \in {"reserved", "stated", "retired", "bound"}

StateHeld ==
  \/ \E c \in Commands : cmd[c].at \in {"stated", "retired", "bound", "waiting"}
  \/ \E g \in Launches : Retains(g)

Operating(t) == \E c \in Commands : cmd[c].at # "idle" /\ cmd[c].t = t

\* topology_status: a live or unreachable supervisor, or a lease of the tree or
\* the port still held.
Retained(t) == TreeLocked(t) \/ (status[t].gen # NoLaunch /\ PortHeld(status[t].gen))

-----------------------------------------------------------------------------
(* up and dev_restart: prepare a launch, hand it over, wait for it *)

Move(c, from, to) ==
  /\ cmd[c].at = from
  /\ cmd' = [cmd EXCEPT ![c].at = to]

Fresh == {g \in Launches : /\ sup[g] = "none" /\ \A c \in Commands : cmd[c].g # g
                           /\ told[g] = "nothing" /\ \A t \in Topologies : lease[t] # g}
Next1 == CHOOSE g \in Fresh : \A h \in Fresh : g <= h

\* The operation lock, the status of the previous generation, and a new
\* generation; a running topology is refused.
UpOpen(c, t) ==
  /\ cmd[c] = Idle
  /\ ~Operating(t)
  /\ status[t].gen # NoLaunch => ~Running(status[t].gen)
  /\ Fresh # {}
  /\ cmd' = [cmd EXCEPT ![c] = [Idle EXCEPT !.at = "opened", !.t = t, !.g = Next1]]
  /\ of' = [of EXCEPT ![Next1] = t]
  /\ UNCHANGED <<actors, lease, status, told>>

\* A nonblocking flock of the process-tree lease.
UpLockTree(c) ==
  /\ ~TreeLocked(cmd[c].t)
  /\ Move(c, "opened", "locked")
  /\ UNCHANGED <<of, actors, lease, status, told>>

\* Mutant: the port is looked at outside its transaction.
PortLookShared(c) ==
  /\ Move(c, "locked", "free")
  /\ \A g \in Launches : PortOf[g] = PortOf[cmd[c].g] => ~PortHeld(g)
  /\ UNCHANGED <<of, actors, lease, status, told>>

\* In the short transaction of the port, which excludes every other creator: no
\* generation holds a lease of the port.
PortLook(c) ==
  /\ Move(c, "locked", "free")
  /\ \A d \in Commands : cmd[d].at = "free" => PortOf[cmd[d].g] # PortOf[cmd[c].g]
  /\ \A g \in Launches : PortOf[g] = PortOf[cmd[c].g] => ~PortHeld(g)
  /\ UNCHANGED <<of, actors, lease, status, told>>

\* Create and publish the lease of this generation; close the transaction.
PortCreate(c) ==
  /\ Move(c, "free", "reserved")
  /\ UNCHANGED <<of, actors, lease, status, told>>

\* The state lock, then every other topology with a status of this state.
StateLock(c) ==
  /\ ~StateHeld
  /\ \A t \in Topologies \ {cmd[c].t} : status[t].gen # NoLaunch => ~Retained(t)
  /\ Move(c, "reserved", "stated")
  /\ UNCHANGED <<of, actors, lease, status, told>>

\* Mutant: the lease is rewritten while the old status still stands.
RetireNothing(c) ==
  /\ Move(c, "stated", "retired")
  /\ UNCHANGED <<of, actors, lease, status, told>>

\* Everything is built and the runtime generation published: remove the stopped
\* status before the lease is bound to the new generation.
Retire(c) ==
  /\ Move(c, "stated", "retired")
  /\ status' = [status EXCEPT ![cmd[c].t] = NoStatus]
  /\ UNCHANGED <<of, actors, lease, told>>

\* Write the generation into the lease, then the spec.
BindLease(c) ==
  /\ Move(c, "retired", "bound")
  /\ lease' = [lease EXCEPT ![cmd[c].t] = cmd[c].g]
  /\ UNCHANGED <<of, actors, status, told>>

\* Start the supervisor with the descriptors; close the command's own, but for
\* the state lock.
Launch(c) ==
  /\ Move(c, "bound", "waiting")
  /\ sup' = [sup EXCEPT ![cmd[c].g] = "boot"]
  /\ UNCHANGED <<of, kin, kids, doomed, listed, memory, lease, status, told>>

\* The status shows the end of the wait, an error or a timeout ends it too: the
\* launch goes on by itself.
Return(c) ==
  /\ cmd[c].at = "waiting"
  /\ cmd' = [cmd EXCEPT ![c] = Idle]
  /\ UNCHANGED <<of, actors, lease, status, told>>

\* A refusal or failure before the handoff closes what was opened.  A restart
\* that had retired the stopped record takes that back first.
Fail(c) ==
  /\ cmd[c].at \in Preparing
  /\ cmd' = IF cmd[c].restart # NoLaunch /\ cmd[c].at \in {"retired", "bound"}
            THEN [cmd EXCEPT ![c].at = "unwinding"]
            ELSE [cmd EXCEPT ![c] = Idle]
  /\ UNCHANGED <<of, actors, lease, status, told>>

\* restore_stopped_restart_record: the lease first, the status last.
RestoreLease(c) ==
  /\ Move(c, "unwinding", "rebound")
  /\ lease' = [lease EXCEPT ![cmd[c].t] = cmd[c].restart]
  /\ UNCHANGED <<of, actors, status, told>>

\* The record that stood when the restart began: of a confirmed clean stop.
RestoreStatus(c) ==
  /\ cmd[c].at = "rebound"
  /\ status' = [status EXCEPT ![cmd[c].t] =
                  [gen |-> cmd[c].restart, stopped |-> TRUE, requested |-> TRUE,
                   clean |-> TRUE, error |-> FALSE]]
  /\ cmd' = [cmd EXCEPT ![c] = Idle]
  /\ UNCHANGED <<of, actors, lease, told>>

\* A command is killed: the kernel closes its descriptors.
CommandDies(c) ==
  /\ "command" \in Faults
  /\ cmd[c].at # "idle"
  /\ cmd' = [cmd EXCEPT ![c] = Idle]
  /\ UNCHANGED <<of, actors, lease, status, told>>

-----------------------------------------------------------------------------
(* Looking for the holders of a process-tree lease *)

\* No holder was seen.  One that forked and left between the listing of /proc and
\* its own examination is missed, and so is its child.
Absent(g) == listed[g] \cap kids[g] = {} /\ ("race" \in Faults \/ kids[g] = {})

\* The holders a scan sends SIGKILL.
Seen(g) == IF "race" \in Faults THEN listed[g] \cap kids[g] ELSE kids[g]
Kill(g) == doomed' = [doomed EXCEPT ![g] = @ \cup Seen(g)]
List(g) == listed' = [listed EXCEPT ![g] = IF "race" \in Faults THEN kids[g] ELSE {}]

\* Each pass of a loop lists /proc again.
Relist(g) ==
  /\ sup[g] \in {"terminating", "killing"} \/ kin[g] \in {"wait", "kill", "last"}
  /\ "race" \in Faults /\ listed[g] # kids[g]
  /\ List(g)
  /\ UNCHANGED <<cmd, of, sup, kin, kids, doomed, memory, lease, status, told>>

-----------------------------------------------------------------------------
(* The supervisor of launch g *)

Become(g, from, to) ==
  /\ sup[g] = from
  /\ sup' = [sup EXCEPT ![g] = to]

Write(g, fields) == status' = [status EXCEPT ![of[g]] = fields]
Current(g) == [NoStatus EXCEPT !.gen = g]

\* Fork the guardian, which inherits the tree and everything to retain.
StartGuardian(g) ==
  /\ Become(g, "boot", "guarded")
  /\ kin' = [kin EXCEPT ![g] = "watch"]
  /\ UNCHANGED <<cmd, of, kids, doomed, listed, memory, lease, status, told>>

\* An error before that: main closes what was inherited.
BootFails(g) ==
  /\ Become(g, "boot", "gone")
  /\ UNCHANGED <<cmd, of, kin, kids, doomed, listed, memory, lease, status, told>>

\* Start the first service, which inherits the process-tree lease only.
Spawn(g) ==
  /\ Become(g, "guarded", "spawned")
  /\ \E p \in Processes \ UNION {kids[h] \cup doomed[h] : h \in Launches} :
       kids' = [kids EXCEPT ![g] = {p}]
  /\ UNCHANGED <<cmd, of, kin, doomed, listed, memory, lease, status, told>>

\* The first status of this generation.
WriteStarting(g) ==
  /\ Become(g, "spawned", "starting")
  /\ Write(g, Current(g))
  /\ UNCHANGED <<cmd, of, kin, kids, doomed, listed, memory, lease, told>>

\* The server said that it listens.
Ready(g) ==
  /\ ~memory[g].requested
  /\ Become(g, "starting", "serving")
  /\ UNCHANGED <<cmd, of, kin, kids, doomed, listed, memory, lease, status, told>>

\* A port somebody else took, a service that ended or was too slow, a stop before
\* it was ready: the error is in the status, then everything is terminated.
StartFails(g) ==
  /\ sup[g] \in {"guarded", "spawned", "starting"}
  /\ sup' = [sup EXCEPT ![g] = "terminating"]
  /\ memory' = [memory EXCEPT ![g].error = TRUE]
  /\ Write(g, [Current(g) EXCEPT !.error = TRUE])
  /\ List(g)
  /\ UNCHANGED <<cmd, of, kin, kids, doomed, lease, told>>

\* A stop request, a signal or the end of a service leaves the loop.
LeaveLoop(g) ==
  /\ Become(g, "serving", "terminating")
  /\ List(g)
  /\ UNCHANGED <<cmd, of, kin, kids, doomed, memory, lease, status, told>>

\* terminate after SIGTERM: nobody is left, or the deadline has passed and whoever
\* is left is killed.
Terminate(g) ==
  /\ Become(g, "terminating", "killing")
  /\ Kill(g) /\ List(g)
  /\ memory' = [memory EXCEPT ![g].dirty = ~Absent(g)]
  /\ UNCHANGED <<cmd, of, kin, kids, lease, status, told>>

\* Kill again, for two seconds.
TerminateAgain(g) ==
  /\ sup[g] = "killing" /\ ~(Seen(g) \subseteq doomed[g])
  /\ Kill(g)
  /\ UNCHANGED <<cmd, of, sup, kin, kids, listed, memory, lease, status, told>>

\* The absence of everybody, or the end of the two seconds; the exit codes of the
\* services may spoil a clean end.
Reap(g) ==
  /\ Seen(g) \subseteq doomed[g]
  /\ Become(g, "killing", "recording")
  /\ \E spoilt \in BOOLEAN : memory' = [memory EXCEPT ![g].dirty = @ \/ spoilt]
  /\ UNCHANGED <<cmd, of, kin, kids, doomed, listed, lease, status, told>>

\* The durable record of the end.
RecordEnd(g) ==
  /\ Become(g, "recording", "recorded")
  /\ Write(g, [gen |-> g, stopped |-> TRUE, requested |-> memory[g].requested,
                clean |-> memory[g].requested /\ ~memory[g].dirty /\ ~memory[g].error,
                error |-> memory[g].error])
  /\ UNCHANGED <<cmd, of, kin, kids, doomed, listed, memory, lease, told>>

\* Close the resource leases, then the process tree and the guardian's pipe.
ReleaseResources(g) ==
  /\ Become(g, "recorded", "released")
  /\ UNCHANGED <<cmd, of, kin, kids, doomed, listed, memory, lease, status, told>>
ReleaseTree(g) ==
  /\ Become(g, "released", "gone")
  /\ UNCHANGED <<cmd, of, kin, kids, doomed, listed, memory, lease, status, told>>

SupervisorDies(g) ==
  /\ "supervisor" \in Faults
  /\ Running(g)
  /\ sup' = [sup EXCEPT ![g] = "gone"]
  /\ UNCHANGED <<cmd, of, kin, kids, doomed, listed, memory, lease, status, told>>

-----------------------------------------------------------------------------
(* Its guardian *)

Turn(g, from, to) ==
  /\ kin[g] = from
  /\ kin' = [kin EXCEPT ![g] = to]

\* End of file on the pipe: the supervisor is gone.  SIGTERM to the tree.
GuardianWakes(g) ==
  /\ sup[g] = "gone"
  /\ Turn(g, "watch", "wait")
  /\ List(g)
  /\ UNCHANGED <<cmd, of, sup, kids, doomed, memory, lease, status, told>>

\* Nobody is left, or the ten seconds are over: SIGKILL.
GuardianKills(g) ==
  /\ Turn(g, "wait", "kill")
  /\ Kill(g) /\ List(g)
  /\ UNCHANGED <<cmd, of, sup, kids, memory, lease, status, told>>

GuardianKillsAgain(g) ==
  /\ kin[g] = "kill" /\ ~(Seen(g) \subseteq doomed[g])
  /\ Kill(g)
  /\ UNCHANGED <<cmd, of, sup, kin, kids, listed, memory, lease, status, told>>

\* Whoever the loop still saw was killed again; from here it only waits.
GuardianWaits(g) ==
  /\ Seen(g) \subseteq doomed[g]
  /\ Turn(g, "kill", "last")
  /\ List(g)
  /\ UNCHANGED <<cmd, of, sup, kids, doomed, memory, lease, status, told>>

\* Nobody holds the tree: close what was retained, the tree last.
GuardianReleases(g) ==
  /\ Absent(g)
  /\ Turn(g, "last", "closing")
  /\ UNCHANGED <<cmd, of, sup, kids, doomed, listed, memory, lease, status, told>>
GuardianEnds(g) ==
  /\ Turn(g, "closing", "gone")
  /\ UNCHANGED <<cmd, of, sup, kids, doomed, listed, memory, lease, status, told>>

GuardianDies(g) ==
  /\ "guardian" \in Faults
  /\ Guarding(g)
  /\ kin' = [kin EXCEPT ![g] = "gone"]
  /\ UNCHANGED <<cmd, of, sup, kids, doomed, listed, memory, lease, status, told>>

-----------------------------------------------------------------------------
(* The services and what they start *)

Fork(g) ==
  /\ kids[g] \ doomed[g] # {}
  /\ \E p \in Processes \ UNION {kids[h] \cup doomed[h] : h \in Launches} :
       kids' = [kids EXCEPT ![g] = @ \cup {p}]
  /\ UNCHANGED <<cmd, of, sup, kin, doomed, listed, memory, lease, status, told>>

\* A process ends by itself, or closes the lease and is nobody's descendant.
Leave(g) ==
  /\ \E p \in kids[g] \ doomed[g] : kids' = [kids EXCEPT ![g] = @ \ {p}]
  /\ UNCHANGED <<cmd, of, sup, kin, doomed, listed, memory, lease, status, told>>

Die(g) ==
  /\ \E p \in kids[g] \cap doomed[g] : kids' = [kids EXCEPT ![g] = @ \ {p}]
  /\ UNCHANGED <<cmd, of, sup, kin, doomed, listed, memory, lease, status, told>>

-----------------------------------------------------------------------------
(* down, and the first half of dev_restart *)

\* The operation lock, the status, and a stop request to the control socket: it
\* may be lost on the way there (accepted) or back (heard).
DownAsk(c, t, restart) ==
  /\ cmd[c] = Idle
  /\ ~Operating(t)
  /\ LET g == status[t].gen
     IN /\ g # NoLaunch
        /\ restart => sup[g] \in {"starting", "serving"}
        /\ \E accepted, heard \in (IF sup[g] \in {"starting", "serving"} THEN BOOLEAN ELSE {FALSE}) :
             /\ memory' = [memory EXCEPT ![g].requested = @ \/ accepted]
             /\ cmd' = [cmd EXCEPT ![c] =
                  [at |-> "asked", t |-> t, g |-> g,
                   restart |-> IF restart THEN g ELSE NoLaunch, heard |-> heard]]
  /\ UNCHANGED <<of, sup, kin, kids, doomed, listed, lease, status, told>>

\* What one look of _controlled_topology_down must show.
Over(c) ==
  LET s == status[cmd[c].t]
  IN /\ ~Running(s.gen)
     /\ ~Retained(cmd[c].t)
     /\ ~StateHeld
     /\ cmd[c].heard => s.error \/ (s.stopped /\ s.requested)
CleanlyOver(c) ==
  LET s == status[cmd[c].t] IN s.stopped /\ s.requested /\ s.clean /\ ~s.error

\* Mutant: the record of the end is believed whoever still holds a lease.
DownConfirmEarly(c) ==
  /\ cmd[c].at = "asked" /\ cmd[c].restart = NoLaunch
  /\ LET s == status[cmd[c].t] IN s.stopped
  /\ told' = [told EXCEPT ![cmd[c].g] = IF CleanlyOver(c) THEN "clean" ELSE "stopped"]
  /\ cmd' = [cmd EXCEPT ![c] = Idle]
  /\ UNCHANGED <<of, actors, lease, status>>

DownConfirm(c) ==
  /\ cmd[c].at = "asked" /\ cmd[c].restart = NoLaunch
  /\ Over(c)
  /\ told' = [told EXCEPT ![cmd[c].g] = IF CleanlyOver(c) THEN "clean" ELSE "stopped"]
  /\ cmd' = [cmd EXCEPT ![c] = Idle]
  /\ UNCHANGED <<of, actors, lease, status>>

\* dev_restart goes on under the same operation lock, after a clean end only.
RestartOpen(c) ==
  /\ cmd[c].at = "asked" /\ cmd[c].restart # NoLaunch
  /\ Over(c) /\ CleanlyOver(c)
  /\ Fresh # {}
  /\ told' = [told EXCEPT ![cmd[c].g] = "clean"]
  /\ cmd' = [cmd EXCEPT ![c].at = "opened", ![c].g = Next1, ![c].heard = FALSE]
  /\ of' = [of EXCEPT ![Next1] = cmd[c].t]
  /\ UNCHANGED <<actors, lease, status>>

\* The deadline of down, or a restart that saw no clean end.
DownGivesUp(c) ==
  /\ cmd[c].at \in {"asked", "forcing"}
  /\ cmd' = [cmd EXCEPT ![c] = Idle]
  /\ UNCHANGED <<of, actors, lease, status, told>>

\* A generation that never got as far as a status is stopped through the lease
\* that names it: SIGTERM, and at the deadline SIGKILL to every holder, the
\* supervisor and the guardian included.
ForceOpen(c, t) ==
  /\ cmd[c] = Idle
  /\ ~Operating(t)
  /\ status[t].gen = NoLaunch /\ lease[t] # NoLaunch
  /\ cmd' = [cmd EXCEPT ![c] = [Idle EXCEPT !.at = "forcing", !.t = t, !.g = lease[t]]]
  /\ UNCHANGED <<of, actors, lease, status, told>>

ForceKill(c) ==
  /\ cmd[c].at = "forcing"
  /\ LET g == cmd[c].g
     IN /\ TreeHolders(g)
        /\ sup' = [sup EXCEPT ![g] = IF Running(g) THEN "gone" ELSE @]
        /\ kin' = [kin EXCEPT ![g] = IF Guarding(g) THEN "gone" ELSE @]
        /\ doomed' = [doomed EXCEPT ![g] = @ \cup kids[g]]
  /\ UNCHANGED <<cmd, of, kids, listed, memory, lease, status, told>>

ForceConfirm(c) ==
  /\ cmd[c].at = "forcing"
  /\ ~TreeHolders(cmd[c].g)
  /\ told' = [told EXCEPT ![cmd[c].g] = "stopped"]
  /\ cmd' = [cmd EXCEPT ![c] = Idle]
  /\ UNCHANGED <<of, actors, lease, status>>

-----------------------------------------------------------------------------

UpStep(c) ==
  \/ \E t \in Topologies : UpOpen(c, t)
  \/ UpLockTree(c) \/ PortLook(c) \/ PortCreate(c) \/ StateLock(c)
  \/ Retire(c) \/ BindLease(c) \/ Launch(c) \/ Return(c)
  \/ Fail(c) \/ RestoreLease(c) \/ RestoreStatus(c)
DownStep(c) ==
  \/ \E t \in Topologies, restart \in BOOLEAN : DownAsk(c, t, restart)
  \/ \E t \in Topologies : ForceOpen(c, t)
  \/ DownConfirm(c) \/ RestartOpen(c) \/ DownGivesUp(c) \/ ForceKill(c) \/ ForceConfirm(c)
SupervisorStep(g) ==
  \/ StartGuardian(g) \/ BootFails(g) \/ Spawn(g) \/ WriteStarting(g) \/ Ready(g)
  \/ StartFails(g) \/ LeaveLoop(g) \/ Terminate(g) \/ TerminateAgain(g) \/ Reap(g)
  \/ RecordEnd(g) \/ ReleaseResources(g) \/ ReleaseTree(g)
GuardianStep(g) ==
  \/ GuardianWakes(g) \/ GuardianKills(g) \/ GuardianKillsAgain(g) \/ GuardianWaits(g)
  \/ GuardianReleases(g) \/ GuardianEnds(g)

Next ==
  \/ \E c \in Commands : UpStep(c) \/ DownStep(c) \/ CommandDies(c)
  \/ \E g \in Launches :
       \/ SupervisorStep(g) \/ SupervisorDies(g)
       \/ GuardianStep(g) \/ GuardianDies(g)
       \/ Relist(g) \/ Fork(g) \/ Leave(g) \/ Die(g)

Spec == Init /\ [][Next]_vars

\* The supervisor serves its socket and ends what it terminates, the guardian
\* goes through its deadlines, a killed process dies.  A server need not get
\* ready, nor a command be run.
Fairness ==
  \A g \in Launches :
    /\ WF_vars(Ready(g) \/ StartFails(g)) /\ WF_vars(LeaveLoop(g) /\ memory[g].requested)
    /\ WF_vars(Terminate(g)) /\ WF_vars(Reap(g)) /\ WF_vars(RecordEnd(g))
    /\ WF_vars(ReleaseResources(g)) /\ WF_vars(ReleaseTree(g))
    /\ WF_vars(GuardianWakes(g)) /\ WF_vars(GuardianKills(g)) /\ WF_vars(GuardianKillsAgain(g))
    /\ WF_vars(GuardianWaits(g)) /\ WF_vars(TerminateAgain(g))
    /\ WF_vars(GuardianReleases(g)) /\ WF_vars(GuardianEnds(g))
    /\ WF_vars(Relist(g)) /\ WF_vars(Die(g))
FairSpec == Spec /\ Fairness

-----------------------------------------------------------------------------
(* Properties *)

TypeOK ==
  /\ cmd \in [Commands -> [at : Stations, t : Topologies, g : 0..MaxLaunch,
                            restart : 0..MaxLaunch, heard : BOOLEAN]]
  /\ of \in [Launches -> Topologies]
  /\ sup \in [Launches -> Alive \cup {"none", "gone"}]
  /\ kin \in [Launches -> Watching \cup {"none", "closing", "gone"}]
  /\ kids \in [Launches -> SUBSET Processes]
  /\ doomed \in [Launches -> SUBSET Processes]
  /\ listed \in [Launches -> SUBSET Processes]
  /\ memory \in [Launches -> [requested : BOOLEAN, error : BOOLEAN, dirty : BOOLEAN]]
  /\ lease \in [Topologies -> 0..MaxLaunch]
  /\ status \in [Topologies -> [gen : 0..MaxLaunch, stopped : BOOLEAN, requested : BOOLEAN,
                                clean : BOOLEAN, error : BOOLEAN]]
  /\ told \in [Launches -> {"nothing", "stopped", "clean"}]

\* The process-tree lease always names the generation the status is about, over
\* every crash of a command and every failed restart: topology_status refuses
\* a status whose generation the lease does not hold.
StatusBindsLease == \A t \in Topologies : status[t].gen # NoLaunch => lease[t] = status[t].gen

\* A topology is never restarted while anything of a generation remains: the
\* inherited lease, and neither a record nor a process number, prevents it.
OneGenerationPerTree ==
  \A g, h \in Launches : g # h /\ of[g] = of[h] => ~(TreeHolders(g) /\ TreeHolders(h))

\* What down confirmed is gone for good: no process, no lease.
DownMeansGone == \A g \in Launches : told[g] # "nothing" => ~TreeHolders(g) /\ ~Retains(g)

\* Two generations never hold one port, although each looks for the other's lease
\* before it creates its own.
PortExclusive ==
  \A g, h \in Launches : g # h /\ PortOf[g] = PortOf[h] => ~(PortHeld(g) /\ PortHeld(h))

\* Two servers never run on the one state.
Serving(g) == kids[g] \ doomed[g] # {}
StateExclusive == \A g, h \in Launches : g # h => ~(Serving(g) /\ Serving(h))

\* A clean end is reported only of a tree that needed no SIGKILL.
CleanIsEarned == \A g \in Launches : told[g] = "clean" => doomed[g] = {}

\* State, runtime and port stay leased while a descendant lives, whatever became
\* of the supervisor.
GuardianOutlivesTree ==
  \A g \in Launches : kin[g] # "none" /\ kids[g] \ doomed[g] # {} => Retains(g)
=============================================================================
