---------------------------- MODULE MCTopologies ----------------------------
(***************************************************************************)
(* Instances of the modules about launched topologies and the runtimes     *)
(* they are launched from.  They share no state, so one run explores them  *)
(* one at a time: Init chooses the part that moves, and the variables of   *)
(* the others keep their initial values.                                   *)
(*   "one"     one topology, every fault, two processes of one launch      *)
(*   "again"   one topology that is restarted, every fault                 *)
(*   "rivals"  two topologies that want one port, and one state            *)
(*   "state"   the temporary state of one topology, a name to promote it   *)
(*   "output"  the outputs of a topology's launches                        *)
(*   "shared"  the same beside a command in the foreground, inputs edited  *)
(*   "handed"  a tested runtime, its publisher and two consumers           *)
(*   "revoked" the same of two publishers, one consumer and one revocation *)
(***************************************************************************)
EXTENDS Naturals, FiniteSets

VARIABLES part
VARIABLES command, of, sup, kin, kids, doomed, listed, memory, lease, status, told
VARIABLES op, pol, srv, dir, lock, prov, sound, home, from, registry
VARIABLES cmd, transaction, record, output, runtime, supervisor, child, input, person, made,
          spent
VARIABLES clock, ledger, sources, root, offer, flock, pub, queue, peer, cl, kills

tree == <<command, of, sup, kin, kids, doomed, listed, memory, lease, status, told>>
state == <<op, pol, srv, dir, lock, prov, sound, home, from, registry>>
launch == <<cmd, transaction, record, output, runtime, supervisor, child, input, person, made,
            spent>>
handoff == <<clock, ledger, sources, root, offer, flock, pub, queue, peer, cl, kills>>
vars == <<part, tree, state, launch, handoff>>

EveryFault == {"command", "supervisor", "guardian", "race"}

One ==
  INSTANCE TopologySupervisor WITH cmd <- command,
    Commands <- {"c"}, Topologies <- {"t"}, Processes <- {"p", "q"}, MaxLaunch <- 1,
    PortOf <- [g \in {1} |-> 1], Faults <- EveryFault

Again ==
  INSTANCE TopologySupervisor WITH cmd <- command,
    Commands <- {"c"}, Topologies <- {"t"}, Processes <- {"p"}, MaxLaunch <- 2,
    PortOf <- [g \in {1, 2} |-> 1], Faults <- EveryFault

Rivals ==
  INSTANCE TopologySupervisor WITH cmd <- command,
    Commands <- {"c", "d"}, Topologies <- {"t", "u"}, Processes <- {"p"}, MaxLaunch <- 2,
    PortOf <- [g \in {1, 2} |-> 1], Faults <- {"command", "supervisor"}

\* The rivals start, are forced down and stop by themselves; nobody asks them to.
NobodyAsks == \A c \in {"c", "d"} : command'[c].at # "asked"

State ==
  INSTANCE TemporaryState WITH
    Topologies <- {"t"}, Names <- {"n"}, NoName <- "none", MaxGen <- 2,
    Faults <- {"crash", "unclean", "damage", "swap"}

Output ==
  INSTANCE RuntimeOutput WITH status <- record,
    Actors <- {"topology"}, Enabled <- {"crash", "startup", "creating", "timeout"},
    MaxGen <- 2, MaxEdit <- 0,
    MaxFault <- 1, MaxKill <- 1, MaxPerson <- 2

Shared ==
  INSTANCE RuntimeOutput WITH status <- record,
    Actors <- {"topology", "foreground"}, Enabled <- {"crash"}, MaxGen <- 2, MaxEdit <- 1,
    MaxFault <- 1, MaxKill <- 1, MaxPerson <- 0

Handed ==
  INSTANCE RuntimeHandoff WITH lease <- offer,
    Publishers <- {"p"}, Consumers <- {"c", "d"}, Revokers <- {}, None <- "none",
    Helper <- "helper", Ttl <- 1, Horizon <- 1, MaxGen <- 1, Backlog <- 1, MaxKill <- 1

Revoked ==
  INSTANCE RuntimeHandoff WITH lease <- offer,
    Publishers <- {"p", "q"}, Consumers <- {"c"}, Revokers <- {"r"}, None <- "none",
    Helper <- "helper", Ttl <- 1, Horizon <- 1, MaxGen <- 1, Backlog <- 1, MaxKill <- 0

ASSUME One!Assumptions /\ Again!Assumptions /\ Rivals!Assumptions
ASSUME State!Assumptions /\ Output!Assumptions /\ Shared!Assumptions
ASSUME Handed!Assumptions /\ Revoked!Assumptions

Parts == {"one", "again", "rivals", "state", "output", "shared", "handed", "revoked"}

Init ==
  /\ part \in Parts
  /\ CASE part = "again" -> Again!Init [] part = "rivals" -> Rivals!Init [] OTHER -> One!Init
  /\ State!Init
  /\ IF part = "shared" THEN Shared!Init ELSE Output!Init
  /\ IF part = "handed" THEN Handed!Init ELSE Revoked!Init

Alone(p, others) == part = p /\ UNCHANGED <<part, others>>

Next ==
  \/ Alone("one", <<state, launch, handoff>>) /\ One!Next
  \/ Alone("again", <<state, launch, handoff>>) /\ Again!Next
  \/ Alone("rivals", <<state, launch, handoff>>) /\ Rivals!Next /\ NobodyAsks
  \/ Alone("state", <<tree, launch, handoff>>) /\ State!Next
  \/ Alone("output", <<tree, state, handoff>>) /\ Output!Next
  \/ Alone("shared", <<tree, state, handoff>>) /\ Shared!Next
  \/ Alone("handed", <<tree, state, launch>>) /\ Handed!Next
  \/ Alone("revoked", <<tree, state, launch>>) /\ Revoked!Next

Spec == Init /\ [][Next]_vars

-----------------------------------------------------------------------------
(* Properties *)

\* Every record has its form and what names what agrees: the status and the lease of its
\* generation, a temporary state and its lease, an output and the transaction or status
\* it can be found by.
Consistent ==
  /\ CASE part = "again" -> Again!TypeOK /\ Again!StatusBindsLease
       [] part = "rivals" -> Rivals!TypeOK /\ Rivals!StatusBindsLease
       [] OTHER -> One!TypeOK /\ One!StatusBindsLease
  /\ State!TypeOK /\ State!LeaseIsLast
  /\ IF part = "shared" THEN Shared!TypeOK ELSE Output!TypeOK /\ Output!Owned
  /\ IF part = "handed" THEN Handed!TypeOK ELSE Revoked!TypeOK

\* What down confirmed is gone for good, process and lease, whoever else dies at whatever
\* moment; and it is called clean only if it was not killed (a second process that is
\* forked while the tree is signalled may be).
DownMeansGone ==
  /\ part = "one" => One!DownMeansGone
  /\ part = "again" => Again!DownMeansGone /\ Again!CleanIsEarned

\* One generation to a tree, one topology to a port and to a state, one publisher to a
\* lease; and what they hold stays held as long as a descendant lives, whatever became of
\* the supervisor (with its guardian alive), or until the lease is revoked.
OneAtATime ==
  /\ part = "again" => Again!OneGenerationPerTree
  /\ part = "rivals" =>
       Rivals!PortExclusive /\ Rivals!StateExclusive /\ Rivals!GuardianOutlivesTree
  /\ part = "revoked" => Revoked!OneServes /\ Revoked!RevocationIsFinal

\* A state is whole while a server runs on it or a name is registered for it, a status
\* that says promoted is backed by the registry, and a runtime is there, of one version,
\* with the output it writes to, while a topology or a foreground server uses it; the
\* ledger and the sources a runtime was proved with stand still while it is handed off.
WholeWhileUsed ==
  /\ State!ServedIsIntact /\ State!RegisteredIsWhole /\ State!PromotedIsRegistered
  /\ part = "shared" => Shared!InUse /\ Shared!OneVersion
  /\ part = "handed" => Handed!AdmittedIsGuarded /\ Handed!CompletionIsWhole
                         /\ Handed!SourcesStand
  /\ part = "revoked" => Revoked!AdmittedIsGuarded /\ Revoked!CompletionIsWhole
                          /\ Revoked!SourcesStand

\* A state or an output disappears, or is recorded as gone, only after the decision to
\* remove it is durable, and only by whoever carries it out.
KeptUntilDecided == State!KeptUntilDecided /\ Output!GoneIsGone
=============================================================================
