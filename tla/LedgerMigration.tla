-------------------------- MODULE LedgerMigration --------------------------
(***************************************************************************)
(* A delivery report from before the ledgers gets one (delivery_ledger.py, *)
(* migrate): a marker beside the ledger to be takes the candidate and the  *)
(* sources as planned, a snapshot of the source and a canonical report are *)
(* made, and once the marker is prepared the ledger is linked.             *)
(*                                                                         *)
(* A helper works under the lock of the root from its first reading to its *)
(* answer, so one works at a time; it may be killed anywhere, in the       *)
(* middle of a write too, and people edit the reports without any lock.    *)
(***************************************************************************)
EXTENDS Naturals

CONSTANTS Kind,       \* the kind of migration
          Candidates, \* ledgers somebody would make of it
          Versions,   \* what a report may say; they have no prefix in common
          Proves,     \* Proves[candidate]: the versions whose claim is exactly the candidate's
          None, Absent, MaxCall, MaxKill, MaxEdit

Legacy == Kind # "pre-schema"
\* The report that is migrated, and the one a rebind's evidence is also taken from.
Reports == IF Kind = "legacy-rebind" THEN {"main", "related"} ELSE {"main"}
Plans == [candidate : Candidates, source : [Reports -> Versions]]
Slots == {"plan", "snapshot", "report", "prepared", "stage", "complete"}
States == {"planned", "prepared", "complete"}
Steps == {"inspect", "plan", "link", "unlink", "source", "snapshot", "report", "prepare", "swap",
          "resume", "install", "tie", "untie", "finish", "finished", "final"}

\* A file is of a version of the report, or of a plan.
Files(slot) == [whole : BOOLEAN, of : IF slot \in {"snapshot", "report"} THEN Versions ELSE Plans]
Markers == [state : States, plan : Plans]
Ledgers == [plan : Plans, generation : {1, 2}]
Helpers == [plan : Plans, at : Steps, read : [Reports -> Versions]]
Answers == [plan : Plans, how : {"done", "refused", "killed"}]

Assumptions ==
  /\ \A slot \in Slots : None \notin Files(slot)
  /\ None \notin Plans /\ None \notin Markers /\ None \notin Ledgers /\ None \notin Helpers
  /\ None \notin Answers
  /\ Kind \in {"legacy", "legacy-rebind", "pre-schema"}
  /\ Proves \in [Candidates -> SUBSET Versions] /\ Absent \notin Versions
  /\ MaxCall \in Nat /\ MaxKill \in Nat /\ MaxEdit \in Nat

VARIABLES reports,     \* what the reports say
          staged,      \* staged[slot]: a file of a migration and what it is made of, maybe torn
          marker,      \* the marker that is installed
          destination, \* the ledger, the plan of its first generation
          rival,       \* another ledger has the issue
          op,          \* the helper at work: its plan, its step, what it read first
          said,        \* what became of the last call
          spent        \* calls, kills and edits so far

vars == <<reports, staged, marker, destination, rival, op, said, spent>>

TypeOK ==
  /\ reports \in [Reports -> Versions \cup {Absent}]
  /\ DOMAIN staged = Slots /\ \A slot \in Slots : staged[slot] \in {None} \cup Files(slot)
  /\ marker \in {None} \cup Markers /\ destination \in {None} \cup Ledgers
  /\ rival \in BOOLEAN
  /\ op \in {None} \cup Helpers /\ said \in {None} \cup Answers
  /\ spent \in [call : 0 .. MaxCall, kill : 0 .. MaxKill, edit : 0 .. MaxEdit]

Init ==
  /\ reports \in [Reports -> Versions] /\ staged = [s \in Slots |-> None]
  /\ marker = None /\ destination = None /\ rival = FALSE /\ op = None /\ said = None
  /\ spent = [call |-> 0, kill |-> 0, edit |-> 0]

-----------------------------------------------------------------------------
(* The inventory *)

Is(slot, whole, what) == staged[slot] # None /\ staged[slot] = [whole |-> whole, of |-> what]
\* There is nothing, or something that is an exact operation's to continue.
Part(slot, what) == staged[slot] # None => staged[slot].of = what

Planned(plan) ==
  /\ Part("snapshot", plan.source["main"]) /\ Part("prepared", plan)
  /\ Legacy => Part("report", plan.source["main"])
  /\ destination = None /\ staged["complete"] = None

Prepared(plan) ==
  /\ Is("snapshot", TRUE, plan.source["main"]) /\ staged["prepared"] = None
  /\ Legacy => Is("report", TRUE, plan.source["main"])
  /\ Part("complete", plan)

Completed(plan) ==
  /\ Is("snapshot", TRUE, plan.source["main"])
  /\ Legacy => staged["report"] # None
  /\ destination # None
  /\ staged["prepared"] = None /\ staged["complete"] = None

\* What an inventory does not raise for.  A report that was migrated before the schema
\* may change once that is complete.
Readable ==
  IF marker = None
  THEN /\ \A s \in {"snapshot", "prepared", "complete", "stage"} : staged[s] = None
       /\ destination = None
  ELSE LET plan == marker.plan
       IN  /\ \A r \in Reports :
                IF Legacy \/ marker.state # "complete" THEN reports[r] = plan.source[r]
                                                       ELSE reports[r] # Absent
           /\ staged["plan"] # None => marker.state = "planned" /\ Is("plan", TRUE, plan)
           /\ CASE marker.state = "planned" -> Planned(plan)
                [] marker.state = "prepared" -> Prepared(plan)
                [] marker.state = "complete" -> Completed(plan)
           /\ destination # None => destination.plan = plan

Pending == \/ marker # None /\ marker.state # "complete"
           \/ \E s \in {"plan", "prepared", "stage", "complete"} : staged[s] # None
           \/ marker = None /\ staged["snapshot"] # None

\* A report is a marker's source, or beside one: that speaks for it.
Unpaired == marker = None
\* Any other claims its issue, by its name if by nothing it says.
Claimed(sources) ==
  /\ Unpaired
  /\ \/ \E r \in Reports \ sources : reports[r] # Absent
     \/ staged["report"] # None

-----------------------------------------------------------------------------
(* A call *)

Answer(how) == op' = None /\ said' = [plan |-> op.plan, how |-> how]
Go(step) == op' = [op EXCEPT !.at = step] /\ UNCHANGED said

\* The plan that is installed, or staged and whole: a torn one tells nothing.
Known == IF marker # None THEN marker.plan
         ELSE IF staged["plan"] # None /\ staged["plan"].whole THEN staged["plan"].of ELSE None

MayStillChange == ~Legacy /\ marker # None /\ marker.state = "complete"

\* What a legacy report says is exactly what the candidate would claim.
ClaimIsExact(plan) == Legacy => reports["main"] \in Proves[plan.candidate]

\* The preflight: another transition, another source than expected, or one whose claim is
\* not the candidate's.
Call(plan) ==
  /\ op = None /\ spent.call < MaxCall /\ spent' = [spent EXCEPT !.call = @ + 1]
  /\ IF /\ Known \in {None, plan}
        /\ \A r \in Reports : reports[r] # Absent
        /\ reports = plan.source \/ MayStillChange
        /\ ClaimIsExact(plan)
     THEN /\ op' = [plan |-> plan, at |-> "inspect", read |-> reports]
          /\ UNCHANGED said
     ELSE said' = [plan |-> plan, how |-> "refused"] /\ UNCHANGED op
  /\ UNCHANGED <<reports, staged, marker, destination, rival>>

\* Under the ledger's lock, the second inventory; what else is pending or owns the issue.
Inspect ==
  /\ IF /\ Readable /\ Part("plan", op.plan) /\ ~Claimed(Reports) /\ ~rival
        /\ reports = op.read
     THEN Go(IF marker = None THEN "plan"
             ELSE IF staged["plan"] # None THEN "unlink" ELSE "source")
     ELSE Answer("refused")
  /\ UNCHANGED <<staged, marker, destination>>

\* A file that is written, resumed where a killed helper left it, or there already.
Stage(slot, what, step) ==
  IF staged[slot] = None
  THEN staged' = [staged EXCEPT ![slot] = [whole |-> FALSE, of |-> what]] /\ UNCHANGED <<op, said>>
  ELSE IF staged[slot].of = what
  THEN staged' = [staged EXCEPT ![slot].whole = TRUE] /\ Go(step)
  ELSE Answer("refused") /\ UNCHANGED staged

Drop(slot) == staged' = [staged EXCEPT ![slot] = None]

Plan == Stage("plan", op.plan, "link") /\ UNCHANGED <<marker, destination>>

Link ==
  /\ marker' = [state |-> "planned", plan |-> op.plan] /\ Go("unlink")
  /\ UNCHANGED <<staged, destination>>

Unlink == Drop("plan") /\ Go("source") /\ UNCHANGED <<marker, destination>>

\* The related sources are read once more.
Source ==
  /\ IF /\ op.read["main"] = op.plan.source["main"] \/ MayStillChange
        /\ \A r \in Reports \ {"main"} : reports[r] = op.plan.source[r]
     THEN Go(IF marker.state = "planned" THEN "snapshot" ELSE "resume")
     ELSE Answer("refused")
  /\ UNCHANGED <<staged, marker, destination>>

TakeSnapshot ==
  Stage("snapshot", op.read["main"], "report") /\ UNCHANGED <<marker, destination>>

\* A canonical report is copied from the snapshot; before the schema it was the source.
Report ==
  /\ IF Legacy THEN Stage("report", staged["snapshot"].of, "prepare")
     ELSE /\ IF reports["main"] = staged["snapshot"].of THEN Go("prepare") ELSE Answer("refused")
          /\ UNCHANGED staged
  /\ UNCHANGED <<marker, destination>>

Prepare == Stage("prepared", op.plan, "swap") /\ UNCHANGED <<marker, destination>>

Swap ==
  /\ marker' = [marker EXCEPT !.state = "prepared"] /\ Drop("prepared") /\ Go("install")
  /\ UNCHANGED destination

\* The marker is prepared already: what it says is there is there.
Resume ==
  /\ IF /\ Is("snapshot", TRUE, op.plan.source["main"])
        /\ IF Legacy THEN staged["report"] # None ELSE reports["main"] # Absent
        /\ Legacy /\ marker.state # "complete" => Is("report", TRUE, op.plan.source["main"])
     THEN Go(IF marker.state = "complete" THEN "final" ELSE "install")
     ELSE Answer("refused")
  /\ UNCHANGED <<staged, marker, destination>>

Install ==
  /\ IF destination = None THEN Stage("stage", op.plan, "tie")
     ELSE IF destination.plan = op.plan THEN Drop("stage") /\ Go("finish")
     ELSE Answer("refused") /\ UNCHANGED staged
  /\ UNCHANGED <<marker, destination>>

Tie ==
  /\ destination' = [plan |-> op.plan, generation |-> 1] /\ Go("untie")
  /\ UNCHANGED <<staged, marker>>

Untie == Drop("stage") /\ Go("finish") /\ UNCHANGED <<marker, destination>>

Finish == Stage("complete", op.plan, "finished") /\ UNCHANGED <<marker, destination>>

Finished ==
  /\ marker' = [marker EXCEPT !.state = "complete"] /\ Drop("complete") /\ Go("final")
  /\ UNCHANGED destination

Final ==
  /\ Answer(IF Readable /\ ~Pending THEN "done" ELSE "refused")
  /\ UNCHANGED <<staged, marker, destination>>

Migrate ==
  /\ op # None /\ UNCHANGED <<reports, rival, spent>>
  /\ \/ (op.at = "inspect" /\ Inspect)
     \/ (op.at = "plan" /\ Plan)
     \/ (op.at = "link" /\ Link)
     \/ (op.at = "unlink" /\ Unlink)
     \/ (op.at = "source" /\ Source)
     \/ (op.at = "snapshot" /\ TakeSnapshot)
     \/ (op.at = "report" /\ Report)
     \/ (op.at = "prepare" /\ Prepare)
     \/ (op.at = "swap" /\ Swap)
     \/ (op.at = "resume" /\ Resume)
     \/ (op.at = "install" /\ Install)
     \/ (op.at = "tie" /\ Tie)
     \/ (op.at = "untie" /\ Untie)
     \/ (op.at = "finish" /\ Finish)
     \/ (op.at = "finished" /\ Finished)
     \/ (op.at = "final" /\ Final)

-----------------------------------------------------------------------------
(* Around it *)

Kill ==
  /\ op # None /\ spent.kill < MaxKill /\ spent' = [spent EXCEPT !.kill = @ + 1]
  /\ Answer("killed")
  /\ UNCHANGED <<reports, staged, marker, destination, rival>>

\* A person saves a report, or throws it away.
Edit ==
  /\ spent.edit < MaxEdit /\ spent' = [spent EXCEPT !.edit = @ + 1]
  /\ \E v \in Versions \cup {Absent} :
       \/ /\ \E r \in Reports : reports[r] # v /\ reports' = [reports EXCEPT ![r] = v]
          /\ UNCHANGED staged
       \/ /\ Legacy /\ UNCHANGED reports
          /\ staged' = [staged EXCEPT !["report"] =
                          IF v = Absent THEN None ELSE [whole |-> TRUE, of |-> v]]
          /\ staged' # staged
  /\ UNCHANGED <<marker, destination, rival, op, said>>

\* Another ledger is made for the issue: nothing has it, nothing is pending.
CreateRival ==
  /\ op = None /\ ~rival /\ Readable /\ ~Pending /\ destination = None /\ ~Claimed({})
  /\ rival' = TRUE
  /\ UNCHANGED <<reports, staged, marker, destination, op, said, spent>>

\* The ledger goes on; its history keeps what it began as.
Advance ==
  /\ op = None /\ Readable /\ ~Pending /\ destination # None /\ destination.generation = 1
  /\ destination' = [destination EXCEPT !.generation = 2]
  /\ UNCHANGED <<reports, staged, marker, rival, op, said, spent>>

Next == (\E plan \in Plans : Call(plan)) \/ Migrate \/ Kill \/ Edit \/ CreateRival \/ Advance

Spec == Init /\ [][Next]_vars

-----------------------------------------------------------------------------
(* Properties *)

\* The issue has one owner: at every moment of a migration, interrupted or not, either the
\* report still claims it, or a pending file keeps everybody out, or the ledger has it.
OneOwner == ~(rival /\ (marker # None \/ destination # None))

\* A ledger is never there before the marker is prepared and the snapshot whole, and it is
\* the ledger the marker planned, whatever was killed or edited on the way.
DestinationIsBacked ==
  /\ destination # None =>
       /\ marker # None /\ marker.state \in {"prepared", "complete"}
       /\ destination.plan = marker.plan
       /\ destination.generation = 2 => marker.state = "complete"
  /\ marker # None /\ marker.state # "planned" =>
       Is("snapshot", TRUE, marker.plan.source["main"])

\* Whatever a killed helper left, torn or linked twice, the same call goes on from there
\* when the reports are what it planned: the inventory does not raise, and nothing that is
\* pending is another's.
Mine(plan) == IF marker # None THEN marker.plan = plan
              ELSE staged["plan"] # None /\ staged["plan"].of = plan
Untouched(plan) ==
  /\ reports = plan.source
  /\ Legacy /\ marker # None => Part("report", plan.source["main"])
  /\ Legacy /\ marker # None /\ marker.state # "planned" =>
       Is("report", TRUE, plan.source["main"])
  /\ Legacy /\ marker = None => staged["report"] = None

LeftoversAreResumed ==
  op = None =>
    \A plan \in Plans :
      Mine(plan) /\ Untouched(plan) =>
        Readable /\ Known \in {None, plan} /\ Part("plan", plan) /\ ~rival

\* An answer that the migration is done stays right: the ledger is there, nothing of the
\* migration is pending, and the root can be read until somebody edits a report.
AnswersAreTrue ==
  said # None /\ said.how = "done" =>
    /\ marker = [state |-> "complete", plan |-> said.plan] /\ destination # None
    /\ ~Pending /\ (spent.edit = 0 => Readable)

\* Nothing that was decided is decided again: a marker keeps its plan and goes forward, a
\* snapshot that is whole and a ledger stay.  Without an edit a call is refused only when
\* another was planned first, or the source is not what it expects or does not prove it.
MovesForward ==
  /\ marker # None =>
       /\ marker' # None /\ marker'.plan = marker.plan
       /\ marker.state = "complete" => marker'.state = "complete"
       /\ marker.state = "prepared" => marker'.state # "planned"
  /\ staged["snapshot"] # None /\ staged["snapshot"].whole =>
       staged'["snapshot"] = staged["snapshot"]
  /\ destination # None => destination' # None /\ destination'.plan = destination.plan
  /\ op # None /\ op' = None /\ said'.how = "refused" /\ spent.edit = 0 =>
       rival \/ ~Part("plan", op.plan)
=============================================================================
