---------------------------- MODULE RuntimeOutput ----------------------------
(***************************************************************************)
(* How a server runtime is published (src/atrinik_workspace/workspace.py:  *)
(* _publish_runtime_generation, _topology_up, topology_down, _run_server). *)
(* A generation is copied beside the topology, sealed and renamed into     *)
(* place; the one directory its server writes lies in the server's state,  *)
(* named after the generation.  A transaction beside the topology owns     *)
(* that directory until the status of the topology does; a removal renames *)
(* it, empties it and takes the empty tombstone away only after the record *)
(* of its owner says so.                                                   *)
(*                                                                         *)
(* One topology with a persistent state, and a foreground server on the    *)
(* same state.  Users edit the inputs, move or copy the directory of a     *)
(* stopped server, and put it back; commands fail and are killed.          *)
(***************************************************************************)
EXTENDS Integers

CONSTANTS Actors,     \* who publishes: the topology's commands, "run server"
          Enabled,    \* what else may happen
          MaxGen,     \* bound on the generations made
          MaxEdit,    \* bound on the changes of the inputs
          MaxFault,   \* bound on the steps that fail
          MaxKill,    \* bound on the commands killed
          MaxPerson   \* bound on what a person does to an output

Happenings == {"crash", "startup", "creating", "interrupt", "timeout"}

\* What an instance assumes of the constants.
Assumptions ==
  /\ Actors \subseteq {"topology", "foreground"}
  /\ Enabled \subseteq Happenings
  /\ {MaxGen, MaxEdit, MaxFault, MaxKill, MaxPerson} \subseteq Nat

VARIABLES cmd,          \* where each command is and what it holds
          transaction,  \* the transaction of the topology's state output
          status,       \* the status of the topology
          output,       \* the outputs in the state: by name, and as a tombstone
          runtime,      \* the generations: what was copied, and where it is
          supervisor,   \* the supervisor (or guardian) of the topology
          child,        \* the generation the foreground server runs
          input,        \* the version of what is copied
          person,       \* the outputs a person moved, copied or put back
          made,         \* the generations made so far
          spent         \* how much of each bound is used

vars == <<cmd, transaction, status, output, runtime, supervisor, child, input, person,
          made, spent>>
disk == <<transaction, status, output, runtime>>

Gens == 1 .. MaxGen
NoTransaction == [phase |-> "none", gen |-> 0, identified |-> FALSE]
NoStatus == [gen |-> 0, cleanup |-> "none", clean |-> FALSE]
NoSupervisor == [gen |-> 0, at |-> "none", stop |-> FALSE]
NoOutput == [entry |-> "none", grave |-> "none"]
NoRuntime == [at |-> "none", first |-> 0, second |-> 0, digest |-> 0]
Idle == [at |-> "idle", gen |-> 0, why |-> "none", doing |-> "none",
         locked |-> FALSE]

Init ==
  /\ cmd = [a \in Actors |-> Idle]
  /\ transaction = NoTransaction /\ status = NoStatus
  /\ output = [g \in Gens |-> NoOutput]
  /\ runtime = [g \in Gens |-> NoRuntime]
  /\ supervisor = NoSupervisor /\ child = 0
  /\ input = 1
  /\ person = [moved |-> {}, copied |-> {}, touched |-> {}]
  /\ made = 0
  /\ spent = [fault |-> 0, kill |-> 0, person |-> 0]

At(a, station) == cmd[a].at = station
Go(a, station) == cmd' = [cmd EXCEPT ![a].at = station]
End(a) == cmd' = [cmd EXCEPT ![a] = Idle]
Owns(a) == a = "topology"
Alive == supervisor.at # "none"

\* The lease of the state is inherited by the supervisor and by a foreground server.
StateFree(a) ==
  /\ ~Alive /\ child = 0
  /\ \A b \in Actors \ {a} : ~cmd[b].locked

Entry(g, entry) == output' = [output EXCEPT ![g].entry = entry]
Grave(g, grave) == output' = [output EXCEPT ![g].grave = grave]

-----------------------------------------------------------------------------
(* The removal of an output; "why" says whose removal it is *)

Target(a) == IF cmd[a].why = "recovery" THEN transaction.gen
             ELSE IF cmd[a].why = "cleanup" THEN status.gen ELSE cmd[a].gen

\* Where a removal that cannot go on leaves its command.
GivenUp(a) ==
  IF cmd[a].why \in {"rollback", "served"} THEN Go(a, "unpublish") ELSE End(a)

\* The exact directory is renamed; or an earlier removal's tombstone is taken up.
Bury(a) ==
  LET g == Target(a) IN
  /\ At(a, "bury")
  /\ \/ /\ output[g] = [entry |-> "there", grave |-> "none"]
        /\ output' = [output EXCEPT ![g] = [entry |-> "none", grave |-> "full"]]
        /\ Go(a, "empty")
     \/ /\ output[g].entry = "none" /\ output[g].grave # "none"
        /\ Go(a, "empty") /\ UNCHANGED output
     \/ /\ (output[g].entry = "none") = (output[g].grave = "none")
        /\ GivenUp(a) /\ UNCHANGED output
  /\ UNCHANGED <<transaction, status, runtime, supervisor, child, input, person, made, spent>>

Empty(a) ==
  /\ At(a, "empty")
  /\ Grave(Target(a), "empty")
  /\ Go(a, IF Owns(a) THEN "record" ELSE "finish")
  /\ UNCHANGED <<transaction, status, runtime, supervisor, child, input, person, made, spent>>

\* What owns the output says that it is gone, before its tombstone goes.
Record(a) ==
  /\ At(a, "record")
  /\ IF cmd[a].why = "cleanup"
     THEN status' = [status EXCEPT !.cleanup = "complete"] /\ UNCHANGED transaction
     ELSE transaction' = [transaction EXCEPT !.phase = "complete"] /\ UNCHANGED status
  /\ Go(a, IF cmd[a].why = "recovery" THEN "absent" ELSE "finish")
  /\ UNCHANGED <<output, runtime, supervisor, child, input, person, made, spent>>

\* An output that is recorded as gone must not be there again.
Absent(a) ==
  /\ At(a, "absent")
  /\ IF output[Target(a)].entry = "none" THEN Go(a, "finish") ELSE End(a)
  /\ UNCHANGED <<disk, supervisor, child, input, person, made, spent>>

Finish(a) ==
  /\ At(a, "finish")
  /\ Grave(Target(a), "none")
  /\ \/ cmd[a].why = "served" /\ Go(a, "unpublish")
     \/ cmd[a].why = "publish" /\ ~Owns(a) /\ End(a)
     \/ cmd[a].why = "cleanup" /\ cmd[a].doing = "up" /\ Go(a, "start")
     \/ cmd[a].why = "cleanup" /\ cmd[a].doing = "down" /\ End(a)
     \/ cmd[a].why \in {"recovery", "rollback", "publish"} /\ Owns(a) /\ Go(a, "clear")
  /\ UNCHANGED <<transaction, status, runtime, supervisor, child, input, person, made, spent>>

Clear(a) ==
  /\ At(a, "clear")
  /\ transaction' = NoTransaction
  /\ \/ /\ cmd[a].why = "recovery"
        /\ cmd' = [cmd EXCEPT ![a] = [Idle EXCEPT !.at = "previous", !.doing = "up"]]
     \/ cmd[a].why = "rollback" /\ Go(a, "unpublish")
     \/ cmd[a].why = "publish" /\ End(a)
  /\ UNCHANGED <<status, output, runtime, supervisor, child, input, person, made, spent>>

\* The root of the generation goes last, whatever became of its output.
Unpublish(a) ==
  /\ At(a, "unpublish")
  /\ runtime' = [runtime EXCEPT ![cmd[a].gen] = NoRuntime]
  /\ End(a)
  /\ UNCHANGED <<transaction, status, output, supervisor, child, input, person, made, spent>>

-----------------------------------------------------------------------------
(* "up": what an earlier command left *)

Begin(a, doing, station) ==
  /\ At(a, "idle")
  /\ cmd' = [cmd EXCEPT ![a] = [Idle EXCEPT !.at = station, !.doing = doing]]
  /\ UNCHANGED <<disk, supervisor, child, input, person, made, spent>>

BeginUp(a) == Owns(a) /\ Begin(a, "up", "recover")
BeginDown(a) == Owns(a) /\ Begin(a, "down", "stop")
BeginRun(a) == ~Owns(a) /\ Begin(a, "run", "start")

ValidTransaction == transaction.phase \in {"prepared", "complete"} => transaction.identified
StatusOwns == transaction.identified /\ status.gen = transaction.gen

RecoverIn(a, why, station) ==
  cmd' = [cmd EXCEPT ![a].at = station, ![a].why = why, ![a].locked = TRUE]

\* An output of a transaction whose phase is "creating" is never removed: what was
\* made was not recorded exactly, and an operator has to look.
Recover(a) ==
  /\ At(a, "recover")
  /\ \/ transaction.phase = "none" /\ Go(a, "previous") /\ UNCHANGED transaction
     \/ /\ transaction.phase # "none" /\ ValidTransaction /\ StatusOwns
        /\ transaction' = NoTransaction /\ Go(a, "previous")
     \/ /\ transaction.phase # "none"
        /\ ~ValidTransaction \/ (~StatusOwns /\ (~StateFree(a) \/ transaction.phase = "creating"))
        /\ End(a) /\ UNCHANGED transaction
     \/ /\ transaction.phase \in {"prepared", "complete"} /\ ValidTransaction
        /\ ~StatusOwns /\ StateFree(a)
        /\ RecoverIn(a, "recovery", IF transaction.phase = "prepared" THEN "bury" ELSE "absent")
        /\ UNCHANGED transaction
  /\ UNCHANGED <<status, output, runtime, supervisor, child, input, person, made, spent>>

\* The outputs a stopped server left are taken away on the word of its status.
CleanOutputs(a) ==
  \/ /\ status.cleanup = "none"
     /\ status' = [status EXCEPT !.cleanup = "pending"]
     /\ cmd' = [cmd EXCEPT ![a].at = "bury", ![a].why = "cleanup"]
  \/ /\ status.cleanup = "pending"
     /\ cmd' = [cmd EXCEPT ![a].at = "bury", ![a].why = "cleanup"] /\ UNCHANGED status
  \/ /\ status.cleanup = "complete"
     /\ cmd' = [cmd EXCEPT ![a].at = "absent", ![a].why = "cleanup"] /\ UNCHANGED status

Previous(a) ==
  /\ At(a, "previous")
  /\ \/ status = NoStatus /\ Go(a, "start") /\ UNCHANGED status
     \/ status # NoStatus /\ Alive /\ End(a) /\ UNCHANGED status
     \/ status # NoStatus /\ ~Alive /\ CleanOutputs(a)
  /\ UNCHANGED <<transaction, output, runtime, supervisor, child, input, person, made, spent>>

-----------------------------------------------------------------------------
(* The generation is made beside the others and renamed *)

Start(a) ==
  /\ At(a, "start")
  /\ \/ /\ StateFree(a) /\ made < MaxGen
        /\ made' = made + 1
        /\ cmd' = [cmd EXCEPT ![a] = [Idle EXCEPT !.at = "digest", !.gen = made + 1,
                                                  !.doing = cmd[a].doing, !.locked = TRUE]]
     \/ ~(StateFree(a) /\ made < MaxGen) /\ End(a) /\ UNCHANGED made
  /\ UNCHANGED <<disk, supervisor, child, input, person, spent>>

Digest(a) ==
  /\ At(a, "digest")
  /\ runtime' = [runtime EXCEPT ![cmd[a].gen] = [NoRuntime EXCEPT !.at = "staging",
                                                                 !.digest = input]]
  /\ Go(a, "copy")
  /\ UNCHANGED <<transaction, status, output, supervisor, child, input, person, made, spent>>

Copy(a) ==
  /\ At(a, "copy")
  /\ runtime' = [runtime EXCEPT ![cmd[a].gen].first = input]
  /\ Go(a, IF Owns(a) THEN "creating" ELSE "mkdir")
  /\ UNCHANGED <<transaction, status, output, supervisor, child, input, person, made, spent>>

Creating(a) ==
  /\ At(a, "creating")
  /\ transaction' = [phase |-> "creating", gen |-> cmd[a].gen, identified |-> FALSE]
  /\ Go(a, "mkdir")
  /\ UNCHANGED <<status, output, runtime, supervisor, child, input, person, made, spent>>

Mkdir(a) ==
  /\ At(a, "mkdir")
  /\ Entry(cmd[a].gen, "bare") /\ Go(a, "marker")
  /\ UNCHANGED <<transaction, status, runtime, supervisor, child, input, person, made, spent>>

Marker(a) ==
  /\ At(a, "marker")
  /\ Entry(cmd[a].gen, "there") /\ Go(a, IF Owns(a) THEN "prepared" ELSE "maps")
  /\ UNCHANGED <<transaction, status, runtime, supervisor, child, input, person, made, spent>>

Prepared(a) ==
  /\ At(a, "prepared")
  /\ transaction' = [phase |-> "prepared", gen |-> cmd[a].gen, identified |-> TRUE]
  /\ Go(a, "maps")
  /\ UNCHANGED <<status, output, runtime, supervisor, child, input, person, made, spent>>

Maps(a) ==
  /\ At(a, "maps")
  /\ runtime' = [runtime EXCEPT ![cmd[a].gen].second = input]
  /\ Go(a, "compare")
  /\ UNCHANGED <<transaction, status, output, supervisor, child, input, person, made, spent>>

\* A publication that fails removes its staging directory, then its output.
Unwind(a) ==
  /\ runtime' = [runtime EXCEPT ![cmd[a].gen] = NoRuntime]
  /\ cmd' = [cmd EXCEPT ![a].at = "bury", ![a].why = "publish"]

Compare(a) ==
  /\ At(a, "compare")
  /\ \/ runtime[cmd[a].gen].digest = input /\ Go(a, "publish") /\ UNCHANGED runtime
     \/ runtime[cmd[a].gen].digest # input /\ Unwind(a)
  /\ UNCHANGED <<transaction, status, output, supervisor, child, input, person, made, spent>>

Publish(a) ==
  /\ At(a, "publish")
  /\ runtime' = [runtime EXCEPT ![cmd[a].gen].at = "published"]
  /\ Go(a, IF Owns(a) THEN "retire" ELSE "serve")
  /\ UNCHANGED <<transaction, status, output, supervisor, child, input, person, made, spent>>

-----------------------------------------------------------------------------
(* The hand-off to the supervisor, and "down" *)

\* The stopped record is retired before the new one can be written.
Retire(a) ==
  /\ At(a, "retire")
  /\ status' = NoStatus
  /\ Go(a, "launch")
  /\ UNCHANGED <<transaction, output, runtime, supervisor, child, input, person, made, spent>>

Launch(a) ==
  /\ At(a, "launch")
  /\ supervisor' = [gen |-> cmd[a].gen, at |-> "starting", stop |-> FALSE]
  /\ Go(a, "launched")
  /\ UNCHANGED <<disk, child, input, person, made, spent>>

\* Nothing is rolled back from here on.
HandOff(a) ==
  /\ At(a, "launched")
  /\ cmd' = [cmd EXCEPT ![a].at = "wait", ![a].locked = FALSE]
  /\ UNCHANGED <<disk, supervisor, child, input, person, made, spent>>

Wait(a) ==
  /\ At(a, "wait")
  /\ \/ status.gen = cmd[a].gen /\ transaction' = NoTransaction
     \/ /\ status.gen # cmd[a].gen /\ (~Alive \/ "timeout" \in Enabled)
        /\ UNCHANGED transaction
  /\ End(a)
  /\ UNCHANGED <<status, output, runtime, supervisor, child, input, person, made, spent>>

Stop(a) ==
  /\ At(a, "stop")
  /\ IF status = NoStatus
     THEN End(a) /\ UNCHANGED supervisor
     ELSE Go(a, "stopping") /\ supervisor' = [supervisor EXCEPT !.stop = Alive]
  /\ UNCHANGED <<disk, child, input, person, made, spent>>

\* Only a stop that was asked for and confirmed removes the outputs.
Stopping(a) ==
  /\ At(a, "stopping") /\ ~Alive
  /\ IF status.clean THEN CleanOutputs(a) ELSE End(a) /\ UNCHANGED status
  /\ UNCHANGED <<transaction, output, runtime, supervisor, child, input, person, made, spent>>

-----------------------------------------------------------------------------
(* The supervisor, the foreground server *)

SupervisorStarts ==
  /\ supervisor.at = "starting"
  /\ supervisor' = [supervisor EXCEPT !.at = "running"]
  /\ status' = [NoStatus EXCEPT !.gen = supervisor.gen]
  /\ UNCHANGED <<cmd, transaction, output, runtime, child, input, person, made, spent>>

SupervisorFails ==
  /\ "startup" \in Enabled /\ supervisor.at = "starting"
  /\ supervisor' = NoSupervisor
  /\ UNCHANGED <<cmd, disk, child, input, person, made, spent>>

SupervisorStops ==
  /\ supervisor.at = "running" /\ supervisor.stop
  /\ supervisor' = NoSupervisor
  /\ status' = [status EXCEPT !.clean = TRUE]
  /\ UNCHANGED <<cmd, transaction, output, runtime, child, input, person, made, spent>>

\* The guardian ends the services of a supervisor that dies; nobody says "clean".
SupervisorDies ==
  /\ "crash" \in Enabled /\ supervisor.at = "running"
  /\ supervisor' = NoSupervisor
  /\ UNCHANGED <<cmd, disk, child, input, person, made, spent>>

Serve(a) ==
  /\ At(a, "serve")
  /\ child' = cmd[a].gen
  /\ Go(a, "served")
  /\ UNCHANGED <<disk, supervisor, input, person, made, spent>>

Exit ==
  /\ child # 0
  /\ child' = 0
  /\ UNCHANGED <<cmd, disk, supervisor, input, person, made, spent>>

Served(a) ==
  /\ At(a, "served") /\ child = 0
  /\ cmd' = [cmd EXCEPT ![a].at = "bury", ![a].why = "served"]
  /\ UNCHANGED <<disk, supervisor, child, input, person, made, spent>>

-----------------------------------------------------------------------------
(* Steps that fail, commands that are killed, people *)

Spend(what) == spent' = [spent EXCEPT ![what] = @ + 1]
Removing == {"bury", "empty", "record", "absent", "finish", "clear"}
Handing == {"retire", "launch"} \cup (IF "interrupt" \in Enabled THEN {"launched"} ELSE {})

\* What was not recorded exactly: a kill, or a failure of its undoing, is for ever.
Unrecorded(a) == Owns(a) /\ transaction.phase # "none" /\ ~transaction.identified

\* What was made of the output is undone, with proof, before the transaction goes.
PreparationFails(a) ==
  /\ cmd[a].at \in {"mkdir", "marker"}
  /\ runtime' = [runtime EXCEPT ![cmd[a].gen] = NoRuntime]
  /\ \/ /\ Entry(cmd[a].gen, "none")
        /\ IF Owns(a) THEN cmd' = [cmd EXCEPT ![a].at = "clear", ![a].why = "publish"]
           ELSE End(a)
     \/ Owns(a) /\ "creating" \in Enabled /\ End(a) /\ UNCHANGED output

Fail(a) ==
  /\ spent.fault < MaxFault /\ Spend("fault")
  /\ \/ /\ cmd[a].at \in {"digest", "copy", "creating"}
        /\ runtime' = [runtime EXCEPT ![cmd[a].gen] = NoRuntime]
        /\ End(a) /\ UNCHANGED output
     \/ PreparationFails(a)
     \/ cmd[a].at \in {"prepared", "maps", "compare", "publish"} /\ Unwind(a) /\ UNCHANGED output
     \/ /\ cmd[a].at \in Handing
        /\ cmd' = [cmd EXCEPT ![a].at = "bury", ![a].why = "rollback"]
        /\ UNCHANGED <<output, runtime>>
     \/ /\ cmd[a].at \in Removing /\ (Unrecorded(a) => "creating" \in Enabled)
        /\ GivenUp(a) /\ UNCHANGED <<output, runtime>>
  /\ UNCHANGED <<transaction, status, supervisor, child, input, person, made>>

Kill(a) ==
  /\ spent.kill < MaxKill /\ Spend("kill")
  /\ ~At(a, "idle") /\ (Unrecorded(a) => "creating" \in Enabled)
  /\ End(a)
  /\ UNCHANGED <<disk, supervisor, child, input, person, made>>

Edit ==
  /\ input <= MaxEdit
  /\ input' = input + 1
  /\ UNCHANGED <<cmd, disk, supervisor, child, person, made, spent>>

\* Somebody moves an output away, or copies it, while its server is stopped.
Displace(g) ==
  /\ spent.person < MaxPerson /\ Spend("person")
  /\ output[g].entry = "there" /\ supervisor.gen # g /\ child # g
  /\ output' = [output EXCEPT ![g].entry = "none"]
  /\ person' = [person EXCEPT !.moved = @ \cup {g}, !.touched = @ \cup {g}]
  /\ UNCHANGED <<cmd, transaction, status, runtime, supervisor, child, input, made>>

Duplicate(g) ==
  /\ spent.person < MaxPerson /\ Spend("person")
  /\ output[g].entry = "there" /\ supervisor.gen # g /\ child # g
  /\ person' = [person EXCEPT !.copied = @ \cup {g}, !.touched = @ \cup {g}]
  /\ UNCHANGED <<cmd, disk, supervisor, child, input, made>>

PutBack(g) ==
  /\ g \in person.moved \cup person.copied /\ output[g].entry = "none"
  /\ output' = [output EXCEPT ![g].entry = "there"]
  /\ person' = [person EXCEPT !.moved = @ \ {g}, !.copied = @ \ {g}]
  /\ UNCHANGED <<cmd, transaction, status, runtime, supervisor, child, input, made, spent>>

-----------------------------------------------------------------------------
Removal(a) ==
  Bury(a) \/ Empty(a) \/ Record(a) \/ Absent(a) \/ Finish(a) \/ Clear(a) \/ Unpublish(a)

Publication(a) ==
  \/ Start(a) \/ Digest(a) \/ Copy(a) \/ Creating(a) \/ Mkdir(a) \/ Marker(a)
  \/ Prepared(a) \/ Maps(a) \/ Compare(a) \/ Publish(a)

Command(a) ==
  \/ Removal(a) \/ Recover(a) \/ Previous(a) \/ Publication(a) \/ Retire(a) \/ Launch(a)
  \/ HandOff(a) \/ Wait(a) \/ Stop(a) \/ Stopping(a) \/ Serve(a) \/ Served(a)

Supervisor == SupervisorStarts \/ SupervisorFails \/ SupervisorStops \/ SupervisorDies

Next ==
  \/ \E a \in Actors : \/ BeginUp(a) \/ BeginDown(a) \/ BeginRun(a) \/ Command(a)
                       \/ Fail(a) \/ Kill(a)
  \/ Supervisor \/ Exit \/ Edit
  \/ \E g \in Gens : Displace(g) \/ Duplicate(g) \/ PutBack(g)

Spec == Init /\ [][Next]_vars

\* Commands run on, servers start and stop when told, and an operator asks again:
\* "down" and "up" are each repeated for ever.
FairSpec ==
  /\ Spec
  /\ WF_vars(SupervisorStarts) /\ WF_vars(SupervisorStops) /\ WF_vars(Exit)
  /\ \A a \in Actors : /\ WF_vars(Command(a))
                       /\ SF_vars(BeginUp(a)) /\ SF_vars(BeginDown(a))

-----------------------------------------------------------------------------
(* Properties *)

\* Every record has its form, and one generation is served at a time.
TypeOK ==
  /\ transaction.phase \in {"none", "creating", "prepared", "complete"}
  /\ {transaction.gen, status.gen, supervisor.gen, child} \subseteq 0 .. MaxGen
  /\ status.cleanup \in {"none", "pending", "complete"}
  /\ \A g \in Gens : /\ output[g].entry \in {"none", "bare", "there"}
                     /\ output[g].grave \in {"none", "full", "empty"}
                     /\ runtime[g].at \in {"none", "staging", "published"}
  /\ ~(Alive /\ child # 0)

Named(g) == transaction.phase # "none" /\ transaction.gen = g

\* An output of the topology is named by its transaction or by its status, wherever a
\* command fails or dies: _publish_runtime_generation, _recover_runtime_state_output_
\* transaction and _cleanup_topology_mutable_state_outputs leave no orphan.
Owned ==
  \A g \in Gens \ person.touched :
    output[g] # NoOutput => Named(g) \/ status.gen = g

\* What a running server writes to, and what it runs from, is there as long as it runs.
InUse ==
  \A g \in {supervisor.gen, child} \ {0} :
    output[g].entry = "there" /\ runtime[g].at = "published"

\* A published generation was copied from one version of its inputs, the one its
\* manifest names.
OneVersion ==
  \A g \in Gens : runtime[g].at = "published" =>
    {runtime[g].first, runtime[g].second} = {runtime[g].digest}

\* An output is recorded as gone by the one who removed it: what an operator moved
\* away is not.
GoneIsGone ==
  [][ /\ (status'.cleanup = "complete" /\ status.cleanup # "complete"
            => output[status.gen].grave = "empty")
      /\ (transaction'.phase = "complete" /\ transaction.phase # "complete"
            => output[transaction.gen].grave = "empty") ]_vars

=============================================================================
