---------------------------- MODULE CleanupJournal ----------------------------
(***************************************************************************)
(* cleanup --apply: the write-ahead journal of one request, the removal of *)
(* its targets, interruption, the identical retry that resumes it, and the *)
(* receipt; Cleanup.execute, _execute_apply, _remove, _recover_owned_tree  *)
(* and acknowledge of cleanup.py.                                          *)
(*                                                                         *)
(* A request is a selector (scopes, age, names).  Its commands exclude each*)
(* other, those of another request and the users of the targets do not.  A *)
(* target is a path; what stands there is an object with a number, and the *)
(* number changes when somebody makes the path anew.  Worktrees behave as  *)
(* topologies do and are targets of that kind; states of topologies have   *)
(* their own module.                                                       *)
(***************************************************************************)
EXTENDS Naturals, Sequences, FiniteSets, Functions

CONSTANTS Requests,
          Targets,
          Kind,        \* "build": its lock is taken to remove it; "topology": leased before
                       \* it is proved; "metadata": leased, and pruned with its siblings
          Owner,       \* targets with one owner share a lease
          Wants,       \* Wants[r]: the targets request r selects
          Rank,        \* the order of removal
          MaxObject,   \* bound on the objects made at one path
          MaxCrash,    \* bound on the commands killed
          Faults       \* what users do meanwhile: hold a lease or lock, make a removed path anew

\* What an instance assumes of the constants.
Assumptions ==
  /\ Kind \in [Targets -> {"build", "topology", "metadata"}]
  /\ Owner \in [Targets -> Targets]
  /\ Wants \in [Requests -> SUBSET Targets]
  /\ Rank \in [Targets -> Nat] /\ \A t, u \in Targets : Rank[t] = Rank[u] => t = u
  /\ MaxObject \in Nat \ {0} /\ MaxCrash \in Nat
  /\ Faults \subseteq {"busy", "rebuild"}

CONSTANT NoTarget

VARIABLES run,      \* run[r]: the command that works on r, if any
          jrn,      \* jrn[r]: the journal of r that is not delivered yet
          obj,      \* obj[t]: the object at the path of t
          grave,    \* grave[t]: the object under the tombstone name of t, 0 if none
          aged,     \* aged[t]: by age and references the object at t may go
          held,     \* held[t]: a user has the lease or the lock of t
          crashes

vars == <<run, jrn, obj, grave, aged, held, crashes>>
world == <<obj, grave, aged, held>>

Idle == [at |-> "idle", left |-> {}, t |-> NoTarget, skipped |-> FALSE]
NoJournal == [status |-> "none", targets |-> {}, was |-> [t \in Targets |-> 0], done |-> <<>>,
              flight |-> NoTarget, phase |-> "none", sour |-> FALSE]

Init ==
  /\ run = [r \in Requests |-> Idle]
  /\ jrn = [r \in Requests |-> NoJournal]
  /\ obj = [t \in Targets |-> [n |-> 1, is |-> "whole"]]
  /\ grave = [t \in Targets |-> 0]
  /\ aged = [t \in Targets |-> TRUE]
  /\ held = [t \in Targets |-> FALSE]
  /\ crashes = 0

-----------------------------------------------------------------------------
(* Who has which lease *)

At(r, station) == run[r].at = station
Leased(t) == Kind[t] # "build"
Same(t) == {u \in Targets : Owner[u] = Owner[t]}

\* The lease is kept from before the proof until the removal is recorded; the
\* lock of a build only while it is removed.
Holds(r, t) ==
  /\ run[r].t = t
  /\ \/ At(r, "removing")
     \/ Leased(t) /\ run[r].at \in {"leased", "proved", "prepared", "removed"}

Busy(t, r) == \E u \in Same(t) : held[u] \/ \E q \in Requests \ {r} : Holds(q, u)

\* What the inventory and the revalidation accept: an object of the right shape
\* and age that nobody uses; one protected sibling protects all prunable metadata.
Eligible(t, r) ==
  /\ obj[t].is = "whole" /\ aged[t]
  /\ ~Busy(t, r)
  /\ Kind[t] = "metadata" => \A u \in Same(t) : obj[u].is = "whole" => aged[u]

Done(r) == Range(jrn[r].done)
Next1(S) == CHOOSE t \in S : \A u \in S : Rank[t] <= Rank[u]
InFlight(r, t) == jrn[r].flight = t
Go(r, station) == run' = [run EXCEPT ![r].at = station]

\* Leave the target; give the rest of the targets up, or take the next.
Drop(r) == run' = [run EXCEPT ![r].at = "visit", ![r].t = NoTarget]
Abort(r) == run' = [run EXCEPT ![r].at = "visit", ![r].t = NoTarget, ![r].left = {}]

-----------------------------------------------------------------------------
(* The command *)

\* No journal: inventory, and the selection is written before anything else.
Plan(r) ==
  LET chosen == {t \in Wants[r] : Eligible(t, r)} IN
  /\ At(r, "idle") /\ jrn[r].status = "none"
  /\ jrn' = [jrn EXCEPT ![r] = [NoJournal EXCEPT !.status = "in-progress", !.targets = chosen,
                                                 !.was = [t \in Targets |-> obj[t].n]]]
  /\ run' = [run EXCEPT ![r] = [Idle EXCEPT !.at = "visit", !.left = chosen]]
  /\ UNCHANGED <<world, crashes>>

\* A journal in progress: the same selection, from its first target on.
Resume(r) ==
  /\ At(r, "idle") /\ jrn[r].status = "in-progress"
  /\ run' = [run EXCEPT ![r] = [Idle EXCEPT !.at = "visit", !.left = jrn[r].targets]]
  /\ UNCHANGED <<jrn, world, crashes>>

\* A receipt: its report again.  It must list the completed actions in the
\* order of the targets.
InOrder(r) == \A i, j \in DOMAIN jrn[r].done : i < j => Rank[jrn[r].done[i]] < Rank[jrn[r].done[j]]

Replay(r) ==
  /\ At(r, "idle") /\ jrn[r].status = "complete-pending-output"
  /\ InOrder(r)
  /\ run' = [run EXCEPT ![r] = [Idle EXCEPT !.at = "show"]]
  /\ UNCHANGED <<jrn, world, crashes>>

\* The lease of the next target, without waiting: a busy one is skipped, and
\* nothing else is tried when it is the one in flight.
Visit(r) ==
  LET t == Next1(run[r].left) IN
  /\ At(r, "visit") /\ run[r].left # {}
  /\ IF Leased(t) /\ Busy(t, r)
     THEN run' = [run EXCEPT ![r].left = IF InFlight(r, t) THEN {} ELSE @ \ {t},
                             ![r].skipped = TRUE]
     ELSE IF t \in Done(r)
     THEN run' = [run EXCEPT ![r].left = @ \ {t}]
     ELSE run' = [run EXCEPT ![r].left = @ \ {t}, ![r].t = t, ![r].at = "leased"]
  /\ UNCHANGED <<jrn, world, crashes>>

\* The durable record of one completed action; metadata goes with its siblings.
Record(r) ==
  LET t == run[r].t
      related == IF Kind[t] = "metadata"
                 THEN {u \in Same(t) \cap jrn[r].targets : Kind[u] = "metadata"} ELSE {t}
      fresh == related \ Done(r)
      Listed[S \in SUBSET fresh] == IF S = {} THEN <<>>
                                    ELSE <<Next1(S)>> \o Listed[S \ {Next1(S)}]
  IN
  /\ jrn' = [jrn EXCEPT ![r].done = @ \o Listed[fresh], ![r].flight = NoTarget, ![r].phase = "none"]
  /\ Drop(r)
  /\ UNCHANGED <<world, crashes>>

\* The target was in flight: finish what was begun.  The lock of a build is
\* taken again.  Metadata counts as removed when its path does not exist.
Recovering(r) == InFlight(r, run[r].t) /\ jrn[r].phase = "removing"

Recover(r) ==
  /\ At(r, "leased") /\ Recovering(r)
  /\ Kind[run[r].t] # "metadata"
  /\ ~Busy(run[r].t, r)
  /\ Go(r, "removing")
  /\ UNCHANGED <<jrn, world, crashes>>

RecoverRefused(r) ==
  /\ At(r, "leased") /\ Recovering(r)
  /\ Busy(run[r].t, r)
  /\ Abort(r)
  /\ UNCHANGED <<jrn, world, crashes>>

\* Mutant: whatever was being removed counts as removed.
RecoverTrusts(r) ==
  /\ At(r, "leased") /\ Recovering(r)
  /\ obj[run[r].t].is # "whole"
  /\ Record(r)

RecoverAbsent(r) ==
  /\ At(r, "leased") /\ Recovering(r)
  /\ Kind[run[r].t] = "metadata"
  /\ Record(r)

Revalidate(r) ==
  /\ At(r, "leased") /\ ~Recovering(r)
  /\ Eligible(run[r].t, r)
  /\ Go(r, "proved")
  /\ UNCHANGED <<jrn, world, crashes>>

RevalidationFails(r) ==
  /\ At(r, "leased") /\ ~Recovering(r)
  /\ ~Eligible(run[r].t, r)
  /\ Abort(r)
  /\ UNCHANGED <<jrn, world, crashes>>

\* The intent, over whatever intent the journal has.
Prepare(r) ==
  /\ At(r, "proved")
  /\ jrn' = [jrn EXCEPT ![r].flight = run[r].t, ![r].phase = "prepared"]
  /\ Go(r, "prepared")
  /\ UNCHANGED <<world, crashes>>

\* The kind's own lock and rechecks.  A build is not looked at again under its
\* lock, a topology is.
Recheck(t, r) == Kind[t] = "topology" => Eligible(t, r)

\* Mutant: the second checkpoint is left out.
CheckpointNotWritten(r) ==
  LET t == run[r].t IN
  /\ At(r, "prepared")
  /\ ~Busy(t, r) /\ Recheck(t, r)
  /\ obj[t].is # "absent"
  /\ Go(r, "removing")
  /\ UNCHANGED <<jrn, world, crashes>>

Checkpoint(r) ==
  LET t == run[r].t IN
  /\ At(r, "prepared")
  /\ ~Busy(t, r) /\ Recheck(t, r)
  /\ obj[t].is # "absent"
  /\ jrn' = [jrn EXCEPT ![r].phase = "removing"]
  /\ Go(r, "removing")
  /\ UNCHANGED <<world, crashes>>

RemovalRefused(r) ==
  LET t == run[r].t IN
  /\ At(r, "prepared")
  /\ Busy(t, r) \/ ~Recheck(t, r) \/ obj[t].is = "absent"
  /\ Abort(r)
  /\ UNCHANGED <<jrn, world, crashes>>

\* remove_owned_tree: the contents, then the empty root under its tombstone
\* name, then that.  It works on whatever directory stands at the path.
Tear(r) ==
  LET t == run[r].t IN
  /\ At(r, "removing") /\ Kind[t] # "metadata"
  /\ obj[t].is = "whole"
  /\ obj' = [obj EXCEPT ![t].is = "torn"]
  /\ UNCHANGED <<run, jrn, grave, aged, held, crashes>>

Bury(r) ==
  LET t == run[r].t IN
  /\ At(r, "removing")
  /\ obj[t].is = "torn" /\ grave[t] = 0
  /\ obj' = [obj EXCEPT ![t].is = "absent"]
  /\ grave' = [grave EXCEPT ![t] = obj[t].n]
  /\ UNCHANGED <<run, jrn, aged, held, crashes>>

\* The tombstone name is taken: the rename does not replace it.
BuryRefused(r) ==
  LET t == run[r].t IN
  /\ At(r, "removing")
  /\ obj[t].is = "torn" /\ grave[t] # 0
  /\ Abort(r)
  /\ UNCHANGED <<jrn, world, crashes>>

Vanish(r) ==
  LET t == run[r].t IN
  /\ At(r, "removing")
  /\ obj[t].is = "absent"
  /\ grave' = [grave EXCEPT ![t] = 0]
  /\ Go(r, "removed")
  /\ UNCHANGED <<jrn, obj, aged, held, crashes>>

\* git worktree prune takes every prunable record of the repository.
Prune(r) ==
  LET t == run[r].t IN
  /\ At(r, "removing") /\ Kind[t] = "metadata"
  /\ obj' = [u \in Targets |-> IF u \in Same(t) /\ Kind[u] = "metadata"
                               THEN [obj[u] EXCEPT !.is = "absent"] ELSE obj[u]]
  /\ Go(r, "removed")
  /\ UNCHANGED <<jrn, grave, aged, held, crashes>>

RecordCompleted(r) == At(r, "removed") /\ Record(r)

\* Every target done: the receipt with the report, which says what was skipped.
\* Otherwise the journal stays as it is.
Finish(r) ==
  /\ At(r, "visit") /\ run[r].left = {}
  /\ IF Done(r) = jrn[r].targets
     THEN /\ jrn' = [jrn EXCEPT ![r].status = "complete-pending-output", ![r].sour = run[r].skipped]
          /\ run' = [run EXCEPT ![r] = [Idle EXCEPT !.at = "show"]]
     ELSE /\ run' = [run EXCEPT ![r] = Idle]
          /\ UNCHANGED jrn
  /\ UNCHANGED <<world, crashes>>

\* The report is flushed, then acknowledged, unless it says a target was skipped.
Acknowledge(r) ==
  /\ At(r, "show")
  /\ jrn' = [jrn EXCEPT ![r] = IF @.sour THEN @ ELSE NoJournal]
  /\ run' = [run EXCEPT ![r] = Idle]
  /\ UNCHANGED <<world, crashes>>

Crash(r) ==
  /\ ~At(r, "idle")
  /\ crashes < MaxCrash
  /\ crashes' = crashes + 1
  /\ run' = [run EXCEPT ![r] = Idle]
  /\ UNCHANGED <<jrn, world>>

-----------------------------------------------------------------------------
(* The users of the targets *)

Unlocked(t) == \A u \in Same(t) : ~held[u] /\ \A r \in Requests : ~Holds(r, u)

Use(t) ==
  /\ "busy" \in Faults
  /\ obj[t].is = "whole" /\ Unlocked(t)
  /\ held' = [held EXCEPT ![t] = TRUE]
  /\ aged' = [aged EXCEPT ![t] = Kind[t] = "metadata"]
  /\ UNCHANGED <<run, jrn, obj, grave, crashes>>

Make(t) ==
  /\ "rebuild" \in Faults /\ Kind[t] # "metadata"
  /\ obj[t].is = "absent" /\ Unlocked(t) /\ obj[t].n < MaxObject
  /\ obj' = [obj EXCEPT ![t] = [n |-> @.n + 1, is |-> "whole"]]
  /\ held' = [held EXCEPT ![t] = TRUE]
  /\ aged' = [aged EXCEPT ![t] = FALSE]
  /\ UNCHANGED <<run, jrn, grave, crashes>>

Release(t) ==
  /\ held[t]
  /\ held' = [held EXCEPT ![t] = FALSE]
  /\ UNCHANGED <<run, jrn, obj, grave, aged, crashes>>

Age(t) ==
  /\ ~held[t] /\ ~aged[t]
  /\ aged' = [aged EXCEPT ![t] = TRUE]
  /\ UNCHANGED <<run, jrn, obj, grave, held, crashes>>

-----------------------------------------------------------------------------
Step(r) ==
  \/ Plan(r) \/ Resume(r) \/ Replay(r) \/ Visit(r)
  \/ Recover(r) \/ RecoverRefused(r) \/ RecoverAbsent(r)
  \/ Revalidate(r) \/ RevalidationFails(r) \/ Prepare(r) \/ Checkpoint(r) \/ RemovalRefused(r)
  \/ Tear(r) \/ Bury(r) \/ BuryRefused(r) \/ Vanish(r) \/ Prune(r)
  \/ RecordCompleted(r) \/ Finish(r) \/ Acknowledge(r)

User(t) == Use(t) \/ Make(t) \/ Release(t) \/ Age(t)

Next == (\E r \in Requests : Step(r) \/ Crash(r)) \/ (\E t \in Targets : User(t))

Spec == Init /\ [][Next]_vars

\* An operator repeats the identical request; users let go and objects age.
FairSpec == Spec /\ (\A r \in Requests : WF_vars(Step(r)))
                 /\ (\A t \in Targets : WF_vars(Release(t)) /\ WF_vars(Age(t)))

-----------------------------------------------------------------------------
(* Properties *)

\* Every variable stays in its range.
TypeOK ==
  /\ run \in [Requests -> [at : {"idle", "visit", "leased", "proved", "prepared", "removing",
                                 "removed", "show"},
                           left : SUBSET Targets, t : Targets \cup {NoTarget}, skipped : BOOLEAN]]
  /\ \A r \in Requests :
       /\ jrn[r].status \in {"none", "in-progress", "complete-pending-output"}
       /\ jrn[r].targets \subseteq Targets /\ Done(r) \subseteq jrn[r].targets
       /\ Len(jrn[r].done) = Cardinality(Done(r))
       /\ jrn[r].flight \in (jrn[r].targets \ Done(r)) \cup {NoTarget}
       /\ jrn[r].phase \in {"none", "prepared", "removing"}
  /\ \A t \in Targets : obj[t].n \in 1..MaxObject /\ obj[t].is \in {"absent", "whole", "torn"}
  /\ grave \in [Targets -> 0..MaxObject]
  /\ aged \in [Targets -> BOOLEAN] /\ held \in [Targets -> BOOLEAN]
  /\ crashes \in 0..MaxCrash

\* An object is only cut into while a durable intent of phase "removing" names
\* its target, so a retry may finish it (_remove calls removal_started first).
Claims(r, t) == jrn[r].flight = t /\ jrn[r].phase = "removing"
CutUnderIntent ==
  [][\A t \in Targets : (obj[t].is = "whole" /\ obj'[t].is = "torn") => \E r \in Requests : Claims(r, t)]_vars

\* What is half removed stays in flight in some journal until it is gone: the
\* intent that authorizes its recovery is not lost (_execute_apply, in_flight).
TornIsClaimed ==
  \A t \in Targets : (obj[t].is = "torn" \/ grave[t] # 0) => \E r \in Requests : Claims(r, t)

\* A target is recorded as completed only when the object that was selected is
\* gone from its path and from its tombstone (record_completed).
Gone(t, n) == (obj[t].n > n \/ obj[t].is = "absent") /\ grave[t] # n
CompletedIsGone ==
  \A r \in Requests : \A t \in Done(r) : Gone(t, jrn[r].was[t])

\* Nothing young, referenced or in use is removed: when a removal cuts into an
\* object, that object may go (_revalidate_target, _remove, _recover_owned_tree).
OnlyEligibleGoes ==
  \A t \in Targets : (obj[t].is = "whole" /\ obj'[t].is # "whole") => aged[t] /\ ~held[t]

\* A receipt reads back: an identical retry accepts what the run has written
\* (_resumable_journal compares the completed actions with the targets).
ReceiptReadable ==
  \A r \in Requests : jrn[r].status = "complete-pending-output" => InOrder(r)

\* A receipt can be acknowledged: its report skips no target (cli.py, retry_required).
ReceiptClean ==
  \A r \in Requests : jrn[r].status = "complete-pending-output" => ~jrn[r].sour

\* The journal of a request keeps its selection, its completed actions only grow,
\* and it is given up only by the delivery of a receipt for the whole selection.
JournalIsKept ==
  [][\A r \in Requests :
       jrn[r].status # "none" =>
         \/ jrn'[r].status = "none" /\ jrn[r].status = "complete-pending-output"
            /\ Done(r) = jrn[r].targets
         \/ /\ jrn'[r].targets = jrn[r].targets
            /\ Len(jrn[r].done) <= Len(jrn'[r].done)
            /\ SubSeq(jrn'[r].done, 1, Len(jrn[r].done)) = jrn[r].done
            /\ (jrn[r].status = "complete-pending-output" => jrn'[r] = jrn[r])]_vars

=============================================================================
