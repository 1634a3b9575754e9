------------------------ MODULE LedgerMigrationProofs ------------------------
(***************************************************************************)
(* Proofs about LedgerMigration, for any candidates, versions, kills, edits*)
(* and calls, and for each kind of migration.                              *)
(***************************************************************************)
EXTENDS LedgerMigration, TLAPS

Main(plan) == plan.source["main"]

\* What is on disk for each state of the marker, whoever wrote it and wherever it died.
OnDisk ==
  /\ marker = None =>
       /\ staged["snapshot"] = None /\ staged["prepared"] = None /\ staged["stage"] = None
       /\ staged["complete"] = None /\ destination = None
  /\ marker # None /\ marker.state = "planned" =>
       /\ staged["plan"] # None => Is("plan", TRUE, marker.plan)
       /\ Part("snapshot", Main(marker.plan)) /\ Part("prepared", marker.plan)
       /\ staged["stage"] = None /\ staged["complete"] = None /\ destination = None
  /\ marker # None /\ marker.state # "planned" =>
       /\ Is("snapshot", TRUE, Main(marker.plan))
       /\ staged["plan"] = None /\ staged["prepared"] = None
       /\ destination # None => destination.plan = marker.plan
  /\ marker # None /\ marker.state = "prepared" =>
       /\ Part("stage", marker.plan) /\ Part("complete", marker.plan)
       /\ destination # None => destination.generation = 1
       /\ staged["complete"] # None => destination # None /\ staged["stage"] = None
  /\ marker # None /\ marker.state = "complete" =>
       staged["stage"] = None /\ staged["complete"] = None /\ destination # None

\* Nobody else has the issue once something of a migration is there.
Alone ==
  rival => marker = None /\ staged["plan"] = None /\ (op # None => op.at = "inspect")

\* Where a helper is tells what it has done.
AtWork ==
  op # None =>
    /\ marker # None => op.plan = marker.plan
    /\ op.at \in {"plan", "link"} => marker = None
    /\ op.at = "plan" => Part("plan", op.plan)
    /\ op.at = "link" => Is("plan", TRUE, op.plan)
    /\ op.at \notin {"inspect", "plan", "link"} => marker # None
    /\ op.at = "unlink" => marker.state = "planned"
    /\ op.at \notin {"inspect", "plan", "link", "unlink"} => staged["plan"] = None
    /\ op.at \in {"snapshot", "report", "prepare", "swap"} => marker.state = "planned"
    /\ op.at = "snapshot" => op.read["main"] = Main(op.plan)
    /\ op.at \in {"report", "prepare", "swap"} => Is("snapshot", TRUE, Main(op.plan))
    /\ op.at = "swap" => Is("prepared", TRUE, op.plan)
    /\ op.at = "resume" => marker.state # "planned"
    /\ op.at \in {"install", "tie", "untie", "finish", "finished"} => marker.state = "prepared"
    /\ op.at \in {"tie", "untie"} => Is("stage", TRUE, op.plan)
    /\ op.at = "tie" => destination = None
    /\ op.at \in {"untie", "finish", "finished"} => destination # None
    /\ op.at \in {"finish", "finished"} => staged["stage"] = None
    /\ op.at = "finished" => Is("complete", TRUE, op.plan)
    /\ op.at = "final" => marker.state = "complete"

\* While nobody edits a report everything on disk is what was planned.
Calm ==
  spent.edit = 0 =>
    /\ marker = None => staged["report"] = None
    /\ marker # None => reports = marker.plan.source
    /\ Legacy /\ marker # None /\ marker.state = "planned" =>
         Part("report", Main(marker.plan))
    /\ Legacy /\ marker # None /\ marker.state # "planned" =>
         Is("report", TRUE, Main(marker.plan))
    /\ op # None => op.read = reports /\ op.plan.source = reports
    /\ Legacy /\ op # None /\ op.at \in {"prepare", "swap"} =>
         Is("report", TRUE, Main(op.plan))

\* Who was told that it is done was told the truth.
Told ==
  said # None /\ said.how = "done" =>
    marker = [state |-> "complete", plan |-> said.plan]

MInv == TypeOK /\ OnDisk /\ Alone /\ AtWork /\ Calm /\ Told

-----------------------------------------------------------------------------
(* What the operations do *)

\* A helper that goes on is the same helper, one step further.
LEMMA Went ==
  ASSUME Assumptions, TypeOK, op # None, NEW step \in Steps, Go(step)
  PROVE  /\ op' \in Helpers /\ op' # None /\ said' = said
         /\ op'.plan = op.plan /\ op'.at = step /\ op'.read = op.read
BY DEF Assumptions, TypeOK, Go, Helpers

\* A call that ends tells which plan it was called with.
LEMMA Answered ==
  ASSUME Assumptions, TypeOK, op # None, NEW how \in {"done", "refused", "killed"}, Answer(how)
  PROVE  /\ op' = None /\ said' \in Answers /\ said' # None
         /\ said'.how = how /\ said'.plan = op.plan
BY DEF Assumptions, TypeOK, Answer, Helpers, Answers

\* A field of a record that is set is set, and no other is.
LEMMA FieldSet ==
  ASSUME NEW W, NEW V, NEW v \in V, NEW f \in [whole : V, of : W]
  PROVE  [f EXCEPT !.whole = v] = [whole |-> v, of |-> f.of]
<1> DEFINE g == [f EXCEPT !.whole = v]
<1>1. g \in [whole : V, of : W]
  OBVIOUS
<1>2. g.whole = v /\ g.of = f.of
  OBVIOUS
<1>3. \A h \in [whole : V, of : W] : h = [whole |-> h.whole, of |-> h.of]
  OBVIOUS
<1> HIDE DEF g
<1>4. g = [whole |-> v, of |-> f.of]
  BY <1>1, <1>2, <1>3
<1> QED BY <1>4 DEF g

\* A file that is completed is of what it was.
LEMMA Whole ==
  ASSUME NEW W, NEW f \in [whole : BOOLEAN, of : W]
  PROVE  [f EXCEPT !.whole = TRUE] = [whole |-> TRUE, of |-> f.of]
<1>1. TRUE \in BOOLEAN
  OBVIOUS
<1> QED BY <1>1, FieldSet

\* A file that is written: it is begun, or completed, or another's and the call is refused.
Written(slot, what, step) ==
  /\ DOMAIN staged' = Slots /\ staged'[slot] \in {None} \cup Files(slot)
  /\ \A s \in Slots : s # slot => staged'[s] = staged[s]
  /\ \/ /\ staged[slot] = None /\ staged'[slot] # None
        /\ staged'[slot].of = what /\ staged'[slot].whole = FALSE
        /\ op' = op /\ said' = said
     \/ /\ staged[slot] # None /\ staged[slot].of = what
        /\ staged'[slot] = [whole |-> TRUE, of |-> what] /\ staged'[slot] # None
        /\ op' \in Helpers /\ op' # None /\ said' = said
        /\ op'.plan = op.plan /\ op'.at = step /\ op'.read = op.read
     \/ /\ staged[slot] # None /\ staged[slot].of # what /\ staged' = staged
        /\ op' = None /\ said' \in Answers /\ said' # None
        /\ said'.how = "refused" /\ said'.plan = op.plan

\* That is what writing a file does.
LEMMA StagedOne ==
  ASSUME Assumptions, TypeOK, op # None, NEW slot \in Slots, NEW what, NEW step \in Steps,
         [whole |-> FALSE, of |-> what] \in Files(slot), Stage(slot, what, step)
  PROVE  Written(slot, what, step)
<1> USE DEF Written
<1>1. /\ DOMAIN staged = Slots /\ staged[slot] \in {None} \cup Files(slot)
      /\ None \notin Files(slot)
  BY DEF TypeOK, Assumptions
<1>2. CASE staged[slot] = None
  <2>1. staged' = [staged EXCEPT ![slot] = [whole |-> FALSE, of |-> what]] /\ op' = op
        /\ said' = said
    BY <1>2 DEF Stage
  <2>2. staged'[slot] = [whole |-> FALSE, of |-> what] /\ DOMAIN staged' = Slots
        /\ \A s \in Slots : s # slot => staged'[s] = staged[s]
    BY <2>1, <1>1
  <2> QED BY <1>1, <1>2, <2>1, <2>2
<1>3. CASE staged[slot] # None /\ staged[slot].of = what
  <2>1. staged' = [staged EXCEPT ![slot].whole = TRUE] /\ Go(step)
    BY <1>3 DEF Stage
  <2>2. staged[slot] \in Files(slot)
    BY <1>1, <1>3
  <2>3. [staged[slot] EXCEPT !.whole = TRUE] = [whole |-> TRUE, of |-> what]
    BY <2>2, <1>3, Whole DEF Files
  <2>4. [whole |-> TRUE, of |-> what] \in Files(slot)
    BY DEF Files
  <2>5. staged'[slot] = [whole |-> TRUE, of |-> what] /\ DOMAIN staged' = Slots
        /\ \A s \in Slots : s # slot => staged'[s] = staged[s]
    BY <2>1, <2>3, <1>1
  <2> QED BY <1>1, <1>3, <2>1, <2>4, <2>5, Went
<1>4. CASE staged[slot] # None /\ staged[slot].of # what
  <2>1. Answer("refused") /\ staged' = staged
    BY <1>4 DEF Stage
  <2> QED BY <1>1, <1>4, <2>1, Answered
<1> QED BY <1>2, <1>3, <1>4

\* A file that is dropped is gone, the others stay.
LEMMA DroppedOne ==
  ASSUME TypeOK, NEW slot \in Slots, Drop(slot)
  PROVE  /\ DOMAIN staged' = Slots /\ staged'[slot] = None
         /\ \A s \in Slots : s # slot => staged'[s] = staged[s]
BY DEF TypeOK, Drop

\* What the slots, the marker and the plans hold, one by one.
LEMMA Kinds ==
  ASSUME Assumptions, TypeOK
  PROVE  /\ DOMAIN staged = Slots
         /\ \A slot \in Slots : staged[slot] \in {None} \cup Files(slot)
         /\ marker # None => /\ marker \in Markers /\ marker.plan \in Plans
                             /\ marker.state \in States /\ marker.plan # None
                             /\ marker.plan.source \in [Reports -> Versions]
                             /\ Main(marker.plan) \in Versions
         /\ op # None => /\ op \in Helpers /\ op.plan \in Plans /\ op.at \in Steps
                         /\ op.read \in [Reports -> Versions] /\ op.plan # None
                         /\ op.plan.source \in [Reports -> Versions]
                         /\ Main(op.plan) \in Versions /\ op.read["main"] \in Versions
         /\ destination # None => destination \in Ledgers /\ destination.plan \in Plans
         /\ "main" \in Reports
<1>1. "main" \in Reports
  BY DEF Reports
<1>2. \A p \in Plans :
        p.source \in [Reports -> Versions] /\ p.source["main"] \in Versions /\ p # None
  BY <1>1 DEF Plans, Assumptions
<1>3. marker # None => marker \in Markers /\ marker.plan \in Plans /\ marker.state \in States
  BY DEF TypeOK, Markers
<1>4. op # None => /\ op \in Helpers /\ op.plan \in Plans /\ op.at \in Steps
                   /\ op.read \in [Reports -> Versions]
  BY DEF TypeOK, Helpers
<1>5. destination # None => destination \in Ledgers /\ destination.plan \in Plans
  BY DEF TypeOK, Ledgers
<1> QED BY <1>1, <1>2, <1>3, <1>4, <1>5 DEF TypeOK, Main


-----------------------------------------------------------------------------
(* Type correctness *)

\* Every step keeps the types.
LEMMA TypesKept ==
  ASSUME Assumptions, MInv, [Next]_vars
  PROVE  TypeOK'
<1> USE DEF MInv
<1> DEFINE Rest == /\ marker' \in {None} \cup Markers /\ destination' \in {None} \cup Ledgers
                   /\ op' \in {None} \cup Helpers /\ said' \in {None} \cup Answers
           Filed == DOMAIN staged' = Slots
                    /\ \A slot \in Slots : staged'[slot] \in {None} \cup Files(slot)
<1>1. CASE UNCHANGED vars
  BY <1>1 DEF vars, TypeOK
<1>2. CASE Migrate
  <2>0. /\ op # None /\ UNCHANGED <<reports, rival, spent>>
        /\ marker \in {None} \cup Markers /\ destination \in {None} \cup Ledgers
        /\ op \in {None} \cup Helpers /\ said \in {None} \cup Answers
    BY <1>2 DEF Migrate, TypeOK
  <2> USE <2>0
  <2>a. ASSUME NEW step \in Steps, Go(step)
        PROVE  op' \in {None} \cup Helpers /\ said' \in {None} \cup Answers
    BY <2>a, Went
  <2>b. ASSUME NEW how \in {"done", "refused"}, Answer(how)
        PROVE  op' \in {None} \cup Helpers /\ said' \in {None} \cup Answers
    BY <2>b, Answered
  <2>c. ASSUME NEW slot \in Slots, NEW what, NEW step \in Steps, Stage(slot, what, step),
               [whole |-> FALSE, of |-> what] \in Files(slot)
        PROVE  /\ op' \in {None} \cup Helpers /\ said' \in {None} \cup Answers
               /\ Filed
    <3>1. Filed
      BY <2>c, StagedOne, Kinds DEF Written
    <3>2. op' \in {None} \cup Helpers /\ said' \in {None} \cup Answers
      BY <2>c, StagedOne DEF Written
    <3> QED BY <3>1, <3>2
  <2>d. ASSUME NEW slot \in Slots, Drop(slot)
        PROVE  Filed
    BY <2>d, DroppedOne, Kinds
  <2>e. UNCHANGED staged => Filed
    BY Kinds
  <2>f. \A plan \in Plans, slot \in Slots \ {"snapshot", "report"} :
          [whole |-> FALSE, of |-> plan] \in Files(slot)
    BY DEF Files
  <2>g. \A v \in Versions, slot \in {"snapshot", "report"} :
          [whole |-> FALSE, of |-> v] \in Files(slot)
    BY DEF Files
  <2>h. ASSUME Rest, Filed PROVE TypeOK'
    BY <2>h DEF TypeOK
  <2>1. CASE Inspect \/ Source \/ Resume \/ Final
    <3>1. UNCHANGED <<staged, marker, destination>>
      BY <2>1 DEF Inspect, Source, Resume, Final
    <3>2. \/ \E step \in Steps : Go(step)
          \/ \E how \in {"done", "refused"} : Answer(how)
      BY <2>1 DEF Inspect, Source, Resume, Final, Steps
    <3> QED BY <3>1, <3>2, <2>a, <2>b, <2>e, <2>h
  <2>2. CASE Plan \/ Prepare \/ Finish
    <3>1. UNCHANGED <<marker, destination>>
      BY <2>2 DEF Plan, Prepare, Finish
    <3>2. \E slot \in Slots \ {"snapshot", "report"}, step \in Steps : Stage(slot, op.plan, step)
      BY <2>2 DEF Plan, Prepare, Finish, Slots, Steps
    <3>3. op.plan \in Plans
      BY Kinds
    <3> QED BY <3>1, <3>2, <3>3, <2>c, <2>f, <2>h
  <2>3. CASE \/ op.at = "link" /\ Link
             \/ op.at = "swap" /\ Swap
             \/ op.at = "finished" /\ Finished
    <3>1. marker' \in {None} \cup Markers
      <4>1. CASE op.at = "link" /\ Link
        BY <4>1, Kinds DEF Link, Markers, States
      <4>2. CASE \/ op.at = "swap" /\ Swap
                 \/ op.at = "finished" /\ Finished
        <5>1. marker \in Markers
          BY <4>2, Kinds DEF AtWork
        <5> QED BY <4>2, <5>1 DEF Swap, Finished, Markers, States
      <4> QED BY <2>3, <4>1, <4>2
    <3>2. UNCHANGED destination /\ \E step \in Steps : Go(step)
      BY <2>3 DEF Link, Swap, Finished, Steps
    <3>3. Filed
      BY <2>3, <2>d, <2>e DEF Link, Swap, Finished, Slots
    <3> QED BY <3>1, <3>2, <3>3, <2>a, <2>h
  <2>4. CASE Unlink \/ Untie
    <3>1. UNCHANGED <<marker, destination>> /\ \E step \in Steps : Go(step)
      BY <2>4 DEF Unlink, Untie, Steps
    <3>2. Filed
      BY <2>4, <2>d DEF Unlink, Untie, Slots
    <3> QED BY <3>1, <3>2, <2>a, <2>h
  <2>5. CASE TakeSnapshot
    <3>1. UNCHANGED <<marker, destination>> /\ Stage("snapshot", op.read["main"], "report")
      BY <2>5 DEF TakeSnapshot
    <3>2. "snapshot" \in Slots /\ "report" \in Steps /\ op.read["main"] \in Versions
      BY Kinds DEF Slots, Steps
    <3> QED BY <3>1, <3>2, <2>c, <2>g, <2>h
  <2>6. CASE op.at = "report" /\ Report
    <3>1. UNCHANGED <<marker, destination>>
      BY <2>6 DEF Report
    <3>2. CASE Legacy
      <4>1. Stage("report", staged["snapshot"].of, "prepare")
        BY <2>6, <3>2 DEF Report
      <4>2. "report" \in Slots /\ "prepare" \in Steps
        BY DEF Slots, Steps
      <4>3. staged["snapshot"].of \in Versions
        BY <2>6, Kinds DEF AtWork, Is
      <4> QED BY <3>1, <4>1, <4>2, <4>3, <2>c, <2>g, <2>h
    <3>3. CASE ~Legacy
      <4>1. UNCHANGED staged /\ (Go("prepare") \/ Answer("refused"))
        BY <2>6, <3>3 DEF Report
      <4> QED BY <3>1, <4>1, <2>a, <2>b, <2>e, <2>h DEF Steps
    <3> QED BY <3>2, <3>3
  <2>7. CASE op.at = "install" /\ Install
    <3>1. UNCHANGED <<marker, destination>> /\ op.plan \in Plans
      BY <2>7, Kinds DEF Install
    <3>2. \/ Stage("stage", op.plan, "tie")
          \/ Drop("stage") /\ Go("finish")
          \/ Answer("refused") /\ UNCHANGED staged
      BY <2>7 DEF Install
    <3>3. /\ "stage" \in Slots \ {"snapshot", "report"} /\ "tie" \in Steps /\ "finish" \in Steps
      BY DEF Slots, Steps
    <3> QED BY <3>1, <3>2, <3>3, <2>a, <2>b, <2>c, <2>d, <2>e, <2>f, <2>h
  <2>8. CASE Tie
    <3>1. destination' \in Ledgers
      BY <2>8, Kinds DEF Tie, Ledgers
    <3> QED BY <2>8, <3>1, <2>a, <2>e, <2>h DEF Tie, Steps
  <2> QED BY <1>2, <2>1, <2>2, <2>3, <2>4, <2>5, <2>6, <2>7, <2>8 DEF Migrate
<1>3. CASE \E plan \in Plans : Call(plan)
  <2>1. PICK plan \in Plans : Call(plan)
    BY <1>3
  <2>2. op' \in {None} \cup Helpers
    <3>1. \A r \in Reports : reports[r] # Absent => reports[r] \in Versions
      BY DEF TypeOK
    <3>2. (\A r \in Reports : reports[r] # Absent) => reports \in [Reports -> Versions]
      BY <3>1 DEF TypeOK
    <3>3. \/ op' = op /\ op \in {None} \cup Helpers
          \/ /\ op' = [plan |-> plan, at |-> "inspect", read |-> reports]
             /\ \A r \in Reports : reports[r] # Absent
      BY <2>1 DEF Call, TypeOK
    <3> QED BY <3>2, <3>3 DEF Helpers, Steps
  <2>3. said' \in {None} \cup Answers
    BY <2>1 DEF Call, Answers, TypeOK
  <2>4. spent' \in [call : 0 .. MaxCall, kill : 0 .. MaxKill, edit : 0 .. MaxEdit]
    BY <2>1 DEF Call, TypeOK, Assumptions
  <2>5. UNCHANGED <<reports, staged, marker, destination, rival>>
    BY <2>1 DEF Call
  <2> QED BY <2>2, <2>3, <2>4, <2>5 DEF TypeOK
<1>4. CASE Kill
  <2>1. op' \in {None} \cup Helpers /\ said' \in {None} \cup Answers
    BY <1>4, Answered DEF Kill
  <2>2. spent' \in [call : 0 .. MaxCall, kill : 0 .. MaxKill, edit : 0 .. MaxEdit]
    BY <1>4 DEF Kill, TypeOK, Assumptions
  <2> QED BY <1>4, <2>1, <2>2 DEF Kill, TypeOK
<1>5. CASE Edit
  <2>1. spent' \in [call : 0 .. MaxCall, kill : 0 .. MaxKill, edit : 0 .. MaxEdit]
    BY <1>5 DEF Edit, TypeOK, Assumptions
  <2>2. PICK v \in Versions \cup {Absent} :
          \/ /\ \E r \in Reports : reports' = [reports EXCEPT ![r] = v]
             /\ UNCHANGED staged
          \/ /\ UNCHANGED reports
             /\ staged' = [staged EXCEPT !["report"] =
                             IF v = Absent THEN None ELSE [whole |-> TRUE, of |-> v]]
    BY <1>5 DEF Edit
  <2>3. reports' \in [Reports -> Versions \cup {Absent}]
    BY <2>2 DEF TypeOK
  <2>4. Filed
    <3>1. (IF v = Absent THEN None ELSE [whole |-> TRUE, of |-> v]) \in {None} \cup Files("report")
      BY DEF Files
    <3> QED BY <2>2, <3>1, Kinds
  <2> QED BY <1>5, <2>1, <2>3, <2>4 DEF Edit, TypeOK
<1>6. CASE CreateRival
  BY <1>6 DEF CreateRival, TypeOK
<1>7. CASE Advance
  <2>1. destination' \in Ledgers
    BY <1>7 DEF Advance, TypeOK, Ledgers
  <2> QED BY <1>7, <2>1 DEF Advance, TypeOK
<1> QED BY <1>1, <1>2, <1>3, <1>4, <1>5, <1>6, <1>7 DEF Next


-----------------------------------------------------------------------------
(* Where a helper is *)

\* What is on disk, in the helper's hands and told, all but the types.
Shape == OnDisk /\ Alone /\ AtWork /\ Calm /\ Told

\* A call that is refused changes nothing but what was told.
LEMMA Refused ==
  ASSUME Assumptions, MInv, op # None, Answer("refused"),
         UNCHANGED <<reports, staged, marker, destination, rival, spent>>
  PROVE  Shape'
<1>1. op' = None /\ said' # None /\ said'.how = "refused"
  BY Answered DEF MInv
<1> QED BY <1>1 DEF MInv, Shape, OnDisk, Alone, AtWork, Calm, Told, Is, Part, Main

\* Without a marker nobody was told that it is done.
LEMMA Untold ==
  ASSUME Assumptions, TypeOK, Told, marker = None
  PROVE  ~(said # None /\ said.how = "done")
<1>1. said # None => [state |-> "complete", plan |-> said.plan] \in Markers
  BY DEF TypeOK, Answers, Markers, States
<1> QED BY <1>1 DEF Told, Assumptions

\* The plan is staged: there is no marker yet.
LEMMA PlanKeeps ==
  ASSUME Assumptions, MInv, op # None, op.at = "plan", Plan,
         UNCHANGED <<reports, rival, spent>>
  PROVE  Shape'
<1>1. UNCHANGED <<marker, destination>> /\ Stage("plan", op.plan, "link")
  BY DEF Plan
<1>2. /\ "plan" \in Slots /\ "link" \in Steps
      /\ [whole |-> FALSE, of |-> op.plan] \in Files("plan")
  BY Kinds DEF Slots, Steps, Files, MInv, AtWork, Is
<1>3. Written("plan", op.plan, "link")
  BY <1>1, <1>2, StagedOne DEF MInv
<1>4. /\ "main" \in Reports
      /\ \A s \in {"plan", "snapshot", "report", "prepared", "stage", "complete"} : s \in Slots
  BY DEF Reports, Slots
<1>5. OnDisk'
  BY <1>1, <1>2, <1>3, <1>4, Kinds DEF MInv, OnDisk, AtWork, Is, Part, Main, Written
<1>6. Alone'
  BY <1>1, <1>2, <1>3, <1>4, Kinds DEF MInv, Alone, AtWork, Written
<1>7. AtWork'
  BY <1>1, <1>2, <1>3, <1>4, Kinds DEF MInv, AtWork, OnDisk, Alone, Is, Part, Main, Written
<1>8. Calm'
  BY <1>1, <1>2, <1>3, <1>4, Kinds DEF MInv, Calm, AtWork, OnDisk, Is, Part, Main, Written
<1>9. Told'
  BY <1>1, <1>2, <1>3, <1>4, Kinds DEF MInv, Told, AtWork, Written
<1> QED BY <1>5, <1>6, <1>7, <1>8, <1>9 DEF Shape

\* The staged plan goes once the marker is linked.
LEMMA UnlinkKeeps ==
  ASSUME Assumptions, MInv, op # None, op.at = "unlink", Unlink,
         UNCHANGED <<reports, rival, spent>>
  PROVE  Shape'
<1>1. /\ op' # None /\ said' = said /\ op'.plan = op.plan
      /\ op'.at = "source" /\ op'.read = op.read
  BY Went DEF MInv, Unlink, Steps
<1>2. staged'["plan"] = None /\ \A s \in Slots : s # "plan" => staged'[s] = staged[s]
  BY DroppedOne DEF MInv, Unlink, Slots
<1>3. UNCHANGED <<marker, destination>>
  BY DEF Unlink
<1>4. \A s \in {"plan", "snapshot", "report", "prepared", "stage", "complete"} : s \in Slots
  BY DEF Slots
<1>5. OnDisk'
  BY <1>1, <1>2, <1>3, <1>4, Kinds DEF MInv, OnDisk, AtWork, Is, Part, Main
<1>6. Alone'
  BY <1>1, <1>2, <1>3, <1>4, Kinds DEF MInv, Alone, AtWork
<1>7. AtWork'
  BY <1>1, <1>2, <1>3, <1>4, Kinds DEF MInv, AtWork, OnDisk, Alone, Is, Part, Main
<1>8. Calm'
  BY <1>1, <1>2, <1>3, <1>4, Kinds DEF MInv, Calm, AtWork, OnDisk, Is, Part, Main
<1>9. Told'
  BY <1>1, <1>2, <1>3, <1>4, Kinds DEF MInv, Told, AtWork
<1> QED BY <1>5, <1>6, <1>7, <1>8, <1>9 DEF Shape

\* The snapshot is of what the helper read.
LEMMA TakeSnapshotKeeps ==
  ASSUME Assumptions, MInv, op # None, op.at = "snapshot", TakeSnapshot,
         UNCHANGED <<reports, rival, spent>>
  PROVE  Shape'
<1>1. UNCHANGED <<marker, destination>> /\ Stage("snapshot", op.read["main"], "report")
  BY DEF TakeSnapshot
<1>2. /\ "snapshot" \in Slots /\ "report" \in Steps
      /\ [whole |-> FALSE, of |-> op.read["main"]] \in Files("snapshot")
  BY Kinds DEF Slots, Steps, Files, MInv, AtWork, Is
<1>3. Written("snapshot", op.read["main"], "report")
  BY <1>1, <1>2, StagedOne DEF MInv
<1>4. /\ "main" \in Reports
      /\ \A s \in {"plan", "snapshot", "report", "prepared", "stage", "complete"} : s \in Slots
  BY DEF Reports, Slots
<1>5. OnDisk'
  BY <1>1, <1>2, <1>3, <1>4, Kinds DEF MInv, OnDisk, AtWork, Is, Part, Main, Written
<1>6. Alone'
  BY <1>1, <1>2, <1>3, <1>4, Kinds DEF MInv, Alone, AtWork, Written
<1>7. AtWork'
  BY <1>1, <1>2, <1>3, <1>4, Kinds DEF MInv, AtWork, OnDisk, Alone, Is, Part, Main, Written
<1>8. Calm'
  BY <1>1, <1>2, <1>3, <1>4, Kinds DEF MInv, Calm, AtWork, OnDisk, Is, Part, Main, Written
<1>9. Told'
  BY <1>1, <1>2, <1>3, <1>4, Kinds DEF MInv, Told, AtWork, Written
<1> QED BY <1>5, <1>6, <1>7, <1>8, <1>9 DEF Shape

\* The prepared marker is staged beside the planned one.
LEMMA PrepareKeeps ==
  ASSUME Assumptions, MInv, op # None, op.at = "prepare", Prepare,
         UNCHANGED <<reports, rival, spent>>
  PROVE  Shape'
<1>1. UNCHANGED <<marker, destination>> /\ Stage("prepared", op.plan, "swap")
  BY DEF Prepare
<1>2. /\ "prepared" \in Slots /\ "swap" \in Steps
      /\ [whole |-> FALSE, of |-> op.plan] \in Files("prepared")
  BY Kinds DEF Slots, Steps, Files, MInv, AtWork, Is
<1>3. Written("prepared", op.plan, "swap")
  BY <1>1, <1>2, StagedOne DEF MInv
<1>4. /\ "main" \in Reports
      /\ \A s \in {"plan", "snapshot", "report", "prepared", "stage", "complete"} : s \in Slots
  BY DEF Reports, Slots
<1>5. OnDisk'
  BY <1>1, <1>2, <1>3, <1>4, Kinds DEF MInv, OnDisk, AtWork, Is, Part, Main, Written
<1>6. Alone'
  BY <1>1, <1>2, <1>3, <1>4, Kinds DEF MInv, Alone, AtWork, Written
<1>7. AtWork'
  BY <1>1, <1>2, <1>3, <1>4, Kinds DEF MInv, AtWork, OnDisk, Alone, Is, Part, Main, Written
<1>8. Calm'
  BY <1>1, <1>2, <1>3, <1>4, Kinds DEF MInv, Calm, AtWork, OnDisk, Is, Part, Main, Written
<1>9. Told'
  BY <1>1, <1>2, <1>3, <1>4, Kinds DEF MInv, Told, AtWork, Written
<1> QED BY <1>5, <1>6, <1>7, <1>8, <1>9 DEF Shape

\* The staged ledger goes once the ledger is linked.
LEMMA UntieKeeps ==
  ASSUME Assumptions, MInv, op # None, op.at = "untie", Untie,
         UNCHANGED <<reports, rival, spent>>
  PROVE  Shape'
<1>1. /\ op' # None /\ said' = said /\ op'.plan = op.plan
      /\ op'.at = "finish" /\ op'.read = op.read
  BY Went DEF MInv, Untie, Steps
<1>2. staged'["stage"] = None /\ \A s \in Slots : s # "stage" => staged'[s] = staged[s]
  BY DroppedOne DEF MInv, Untie, Slots
<1>3. UNCHANGED <<marker, destination>>
  BY DEF Untie
<1>4. \A s \in {"plan", "snapshot", "report", "prepared", "stage", "complete"} : s \in Slots
  BY DEF Slots
<1>5. OnDisk'
  BY <1>1, <1>2, <1>3, <1>4, Kinds DEF MInv, OnDisk, AtWork, Is, Part, Main
<1>6. Alone'
  BY <1>1, <1>2, <1>3, <1>4, Kinds DEF MInv, Alone, AtWork
<1>7. AtWork'
  BY <1>1, <1>2, <1>3, <1>4, Kinds DEF MInv, AtWork, OnDisk, Alone, Is, Part, Main
<1>8. Calm'
  BY <1>1, <1>2, <1>3, <1>4, Kinds DEF MInv, Calm, AtWork, OnDisk, Is, Part, Main
<1>9. Told'
  BY <1>1, <1>2, <1>3, <1>4, Kinds DEF MInv, Told, AtWork
<1> QED BY <1>5, <1>6, <1>7, <1>8, <1>9 DEF Shape

\* The complete marker is staged beside the prepared one.
LEMMA FinishKeeps ==
  ASSUME Assumptions, MInv, op # None, op.at = "finish", Finish,
         UNCHANGED <<reports, rival, spent>>
  PROVE  Shape'
<1>1. UNCHANGED <<marker, destination>> /\ Stage("complete", op.plan, "finished")
  BY DEF Finish
<1>2. /\ "complete" \in Slots /\ "finished" \in Steps
      /\ [whole |-> FALSE, of |-> op.plan] \in Files("complete")
  BY Kinds DEF Slots, Steps, Files, MInv, AtWork, Is
<1>3. Written("complete", op.plan, "finished")
  BY <1>1, <1>2, StagedOne DEF MInv
<1>4. /\ "main" \in Reports
      /\ \A s \in {"plan", "snapshot", "report", "prepared", "stage", "complete"} : s \in Slots
  BY DEF Reports, Slots
<1>5. OnDisk'
  BY <1>1, <1>2, <1>3, <1>4, Kinds DEF MInv, OnDisk, AtWork, Is, Part, Main, Written
<1>6. Alone'
  BY <1>1, <1>2, <1>3, <1>4, Kinds DEF MInv, Alone, AtWork, Written
<1>7. AtWork'
  BY <1>1, <1>2, <1>3, <1>4, Kinds DEF MInv, AtWork, OnDisk, Alone, Is, Part, Main, Written
<1>8. Calm'
  BY <1>1, <1>2, <1>3, <1>4, Kinds DEF MInv, Calm, AtWork, OnDisk, Is, Part, Main, Written
<1>9. Told'
  BY <1>1, <1>2, <1>3, <1>4, Kinds DEF MInv, Told, AtWork, Written
<1> QED BY <1>5, <1>6, <1>7, <1>8, <1>9 DEF Shape

\* The planned marker is installed.
LEMMA LinkKeeps ==
  ASSUME Assumptions, MInv, op # None, op.at = "link", Link,
         UNCHANGED <<reports, rival, spent>>
  PROVE  Shape'
<1>1. /\ op' # None /\ said' = said /\ op'.plan = op.plan
      /\ op'.at = "unlink" /\ op'.read = op.read
  BY Went DEF MInv, Link, Steps
<1>2. marker' = [state |-> "planned", plan |-> op.plan] /\ marker' # None /\ UNCHANGED destination
  BY Kinds DEF MInv, Link, Markers, States, Assumptions
<1>3. ~(said # None /\ said.how = "done")
  BY Kinds, Untold DEF MInv, AtWork
<1>4. UNCHANGED staged
  BY DEF Link
<1>5. \A s \in {"plan", "snapshot", "report", "prepared", "stage", "complete"} : s \in Slots
  BY DEF Slots
<1>6. OnDisk'
  BY <1>1, <1>2, <1>3, <1>4, <1>5, Kinds DEF MInv, OnDisk, AtWork, Is, Part, Main
<1>7. Alone'
  BY <1>1, <1>2, <1>3, <1>4, <1>5, Kinds DEF MInv, Alone, AtWork
<1>8. AtWork'
  BY <1>1, <1>2, <1>3, <1>4, <1>5, Kinds DEF MInv, AtWork, OnDisk, Alone, Is, Part, Main
<1>9. Calm'
  BY <1>1, <1>2, <1>3, <1>4, <1>5, Kinds DEF MInv, Calm, AtWork, OnDisk, Is, Part, Main
<1>10. Told'
  BY <1>1, <1>2, <1>3, <1>4, <1>5, Kinds DEF MInv, Told, AtWork
<1> QED BY <1>6, <1>7, <1>8, <1>9, <1>10 DEF Shape

\* The prepared marker is installed.
LEMMA SwapKeeps ==
  ASSUME Assumptions, MInv, op # None, op.at = "swap", Swap,
         UNCHANGED <<reports, rival, spent>>
  PROVE  Shape'
<1>1. /\ op' # None /\ said' = said /\ op'.plan = op.plan
      /\ op'.at = "install" /\ op'.read = op.read
  BY Went DEF MInv, Swap, Steps
<1>2. staged'["prepared"] = None /\ \A s \in Slots : s # "prepared" => staged'[s] = staged[s]
  BY DroppedOne DEF MInv, Swap, Slots
<1>3. marker \in Markers /\ marker.plan = op.plan /\ op.plan \in Plans
  BY Kinds DEF MInv, AtWork
<1>4. marker' = [state |-> "prepared", plan |-> op.plan] /\ marker' # None /\ UNCHANGED destination
  BY <1>3 DEF Swap, Markers, States, Assumptions
<1>5. \A s \in {"plan", "snapshot", "report", "prepared", "stage", "complete"} : s \in Slots
  BY DEF Slots
<1>6. OnDisk'
  BY <1>1, <1>2, <1>3, <1>4, <1>5, Kinds DEF MInv, OnDisk, AtWork, Is, Part, Main
<1>7. Alone'
  BY <1>1, <1>2, <1>3, <1>4, <1>5, Kinds DEF MInv, Alone, AtWork
<1>8. AtWork'
  BY <1>1, <1>2, <1>3, <1>4, <1>5, Kinds DEF MInv, AtWork, OnDisk, Alone, Is, Part, Main
<1>9. Calm'
  BY <1>1, <1>2, <1>3, <1>4, <1>5, Kinds DEF MInv, Calm, AtWork, OnDisk, Is, Part, Main
<1>10. Told'
  BY <1>1, <1>2, <1>3, <1>4, <1>5, Kinds DEF MInv, Told, AtWork
<1> QED BY <1>6, <1>7, <1>8, <1>9, <1>10 DEF Shape

\* The complete marker is installed.
LEMMA FinishedKeeps ==
  ASSUME Assumptions, MInv, op # None, op.at = "finished", Finished,
         UNCHANGED <<reports, rival, spent>>
  PROVE  Shape'
<1>1. /\ op' # None /\ said' = said /\ op'.plan = op.plan
      /\ op'.at = "final" /\ op'.read = op.read
  BY Went DEF MInv, Finished, Steps
<1>2. staged'["complete"] = None /\ \A s \in Slots : s # "complete" => staged'[s] = staged[s]
  BY DroppedOne DEF MInv, Finished, Slots
<1>3. marker \in Markers /\ marker.plan = op.plan /\ op.plan \in Plans
  BY Kinds DEF MInv, AtWork
<1>4. marker' = [state |-> "complete", plan |-> op.plan] /\ marker' # None /\ UNCHANGED destination
  BY <1>3 DEF Finished, Markers, States, Assumptions
<1>5. \A s \in {"plan", "snapshot", "report", "prepared", "stage", "complete"} : s \in Slots
  BY DEF Slots
<1>6. OnDisk'
  BY <1>1, <1>2, <1>3, <1>4, <1>5, Kinds DEF MInv, OnDisk, AtWork, Is, Part, Main
<1>7. Alone'
  BY <1>1, <1>2, <1>3, <1>4, <1>5, Kinds DEF MInv, Alone, AtWork
<1>8. AtWork'
  BY <1>1, <1>2, <1>3, <1>4, <1>5, Kinds DEF MInv, AtWork, OnDisk, Alone, Is, Part, Main
<1>9. Calm'
  BY <1>1, <1>2, <1>3, <1>4, <1>5, Kinds DEF MInv, Calm, AtWork, OnDisk, Is, Part, Main
<1>10. Told'
  BY <1>1, <1>2, <1>3, <1>4, <1>5, Kinds DEF MInv, Told, AtWork
<1> QED BY <1>6, <1>7, <1>8, <1>9, <1>10 DEF Shape

\* The ledger is linked, the first of its generations.
LEMMA TieKeeps ==
  ASSUME Assumptions, MInv, op # None, op.at = "tie", Tie,
         UNCHANGED <<reports, rival, spent>>
  PROVE  Shape'
<1>1. /\ op' # None /\ said' = said /\ op'.plan = op.plan
      /\ op'.at = "untie" /\ op'.read = op.read
  BY Went DEF MInv, Tie, Steps
<1>2. destination' = [plan |-> op.plan, generation |-> 1] /\ destination' # None
  BY Kinds DEF MInv, Tie, Ledgers, Assumptions
<1>3. UNCHANGED <<staged, marker>>
  BY DEF Tie
<1>4. \A s \in {"plan", "snapshot", "report", "prepared", "stage", "complete"} : s \in Slots
  BY DEF Slots
<1>5. OnDisk'
  BY <1>1, <1>2, <1>3, <1>4, Kinds DEF MInv, OnDisk, AtWork, Is, Part, Main
<1>6. Alone'
  BY <1>1, <1>2, <1>3, <1>4, Kinds DEF MInv, Alone, AtWork
<1>7. AtWork'
  BY <1>1, <1>2, <1>3, <1>4, Kinds DEF MInv, AtWork, OnDisk, Alone, Is, Part, Main
<1>8. Calm'
  BY <1>1, <1>2, <1>3, <1>4, Kinds DEF MInv, Calm, AtWork, OnDisk, Is, Part, Main
<1>9. Told'
  BY <1>1, <1>2, <1>3, <1>4, Kinds DEF MInv, Told, AtWork
<1> QED BY <1>5, <1>6, <1>7, <1>8, <1>9 DEF Shape

\* The second inventory sends the helper to where the migration is.
LEMMA InspectKeeps ==
  ASSUME Assumptions, MInv, op # None, op.at = "inspect", Inspect,
         UNCHANGED <<reports, rival, spent>>
  PROVE  Shape'
<1>1. UNCHANGED <<staged, marker, destination>>
  BY DEF Inspect
<1>2. CASE Answer("refused")
  BY <1>1, <1>2, Refused
<1>3. CASE /\ Readable /\ Part("plan", op.plan) /\ ~rival /\ reports = op.read
           /\ Go(IF marker = None THEN "plan"
                 ELSE IF staged["plan"] # None THEN "unlink" ELSE "source")
  <2>1. PICK step \in {"plan", "unlink", "source"} :
          /\ step = IF marker = None THEN "plan"
                    ELSE IF staged["plan"] # None THEN "unlink" ELSE "source"
          /\ op' # None /\ said' = said /\ op'.plan = op.plan /\ op'.at = step
          /\ op'.read = op.read
    BY <1>3, Went DEF MInv, Steps
  <2>2. marker # None /\ staged["plan"] # None => marker.state = "planned"
    BY <1>3 DEF Readable
  <2>3. OnDisk' /\ Told'
    BY <1>1, <2>1 DEF MInv, OnDisk, Told, Is, Part, Main
  <2>4. Alone'
    BY <1>1, <1>3, <2>1 DEF Alone
  <2>5. AtWork'
    BY <1>1, <1>3, <2>1, <2>2 DEF MInv, AtWork, Is, Part, Main
  <2>6. Calm'
    BY <1>1, <2>1 DEF MInv, Calm, Is, Part, Main
  <2> QED BY <2>3, <2>4, <2>5, <2>6 DEF Shape
<1> QED BY <1>2, <1>3 DEF Inspect

\* The related sources are what was planned, or the call is refused.
LEMMA SourceKeeps ==
  ASSUME Assumptions, MInv, op # None, op.at = "source", Source,
         UNCHANGED <<reports, rival, spent>>
  PROVE  Shape'
<1>1. UNCHANGED <<staged, marker, destination>>
  BY DEF Source
<1>2. CASE Answer("refused")
  BY <1>1, <1>2, Refused
<1>3. CASE /\ op.read["main"] = op.plan.source["main"] \/ MayStillChange
           /\ Go(IF marker.state = "planned" THEN "snapshot" ELSE "resume")
  <2>1. PICK step \in {"snapshot", "resume"} :
          /\ step = IF marker.state = "planned" THEN "snapshot" ELSE "resume"
          /\ op' # None /\ said' = said /\ op'.plan = op.plan /\ op'.at = step
          /\ op'.read = op.read
    BY <1>3, Went DEF MInv, Steps
  <2>2. OnDisk' /\ Told'
    BY <1>1, <2>1 DEF MInv, OnDisk, Told, Is, Part, Main
  <2>3. Alone'
    BY <1>1, <2>1 DEF MInv, Alone, AtWork
  <2>4. AtWork'
    BY <1>1, <1>3, <2>1 DEF MInv, AtWork, MayStillChange, Is, Part, Main
  <2>5. Calm'
    BY <1>1, <2>1 DEF MInv, Calm, Is, Part, Main
  <2> QED BY <2>2, <2>3, <2>4, <2>5 DEF Shape
<1> QED BY <1>2, <1>3 DEF Source

\* The canonical report is written from the snapshot, or is the source still.
LEMMA ReportKeeps ==
  ASSUME Assumptions, MInv, op # None, op.at = "report", Report,
         UNCHANGED <<reports, rival, spent>>
  PROVE  Shape'
<1>1. UNCHANGED <<marker, destination>>
  BY DEF Report
<1>2. /\ "report" \in Slots /\ "prepare" \in Steps /\ staged["snapshot"].of = Main(op.plan)
      /\ Main(op.plan) \in Versions /\ staged["snapshot"] # None
  BY Kinds DEF MInv, AtWork, Is, Slots, Steps
<1>3. CASE Legacy
  <2>1. Stage("report", Main(op.plan), "prepare")
    BY <1>2, <1>3 DEF Report
  <2>2. [whole |-> FALSE, of |-> Main(op.plan)] \in Files("report")
    BY <1>2 DEF Files
  <2>3. Written("report", Main(op.plan), "prepare")
    BY <1>2, <2>1, <2>2, StagedOne DEF MInv
  <2>4. \A s \in {"plan", "snapshot", "report", "prepared", "stage", "complete"} : s \in Slots
    BY DEF Slots
  <2>5. OnDisk'
    BY <1>1, <2>3, <2>4 DEF MInv, OnDisk, Written, Is, Part, Main
  <2>6. Alone'
    BY <1>1, <2>3, <2>4 DEF MInv, Alone, AtWork, Written
  <2>7. AtWork'
    BY <1>1, <2>3, <2>4 DEF MInv, AtWork, Written, Is, Part, Main
  <2>8. Calm'
    BY <1>1, <2>3, <2>4 DEF MInv, Calm, AtWork, Written, Is, Part, Main
  <2>9. Told'
    BY <1>1, <2>3 DEF MInv, Told, Written
  <2> QED BY <2>5, <2>6, <2>7, <2>8, <2>9 DEF Shape
<1>4. CASE ~Legacy
  <2>1. UNCHANGED staged /\ (Go("prepare") \/ Answer("refused"))
    BY <1>4 DEF Report
  <2>2. CASE Answer("refused")
    BY <1>1, <2>1, <2>2, Refused
  <2>3. CASE Go("prepare")
    <3>1. /\ op' # None /\ said' = said /\ op'.plan = op.plan /\ op'.at = "prepare"
          /\ op'.read = op.read
      BY <1>2, <2>3, Went DEF MInv
    <3>2. OnDisk' /\ Told'
      BY <1>1, <2>1, <3>1 DEF MInv, OnDisk, Told, Is, Part, Main
    <3>3. Alone'
      BY <1>1, <2>1, <3>1 DEF MInv, Alone, AtWork
    <3>4. AtWork'
      BY <1>1, <2>1, <3>1 DEF MInv, AtWork, Is, Part, Main
    <3>5. Calm'
      BY <1>1, <1>4, <2>1, <3>1 DEF MInv, Calm, Legacy, Is, Part, Main
    <3> QED BY <3>2, <3>3, <3>4, <3>5 DEF Shape
  <2> QED BY <2>1, <2>2, <2>3
<1> QED BY <1>3, <1>4

\* What a prepared marker says is there is there, or the call is refused.
LEMMA ResumeKeeps ==
  ASSUME Assumptions, MInv, op # None, op.at = "resume", Resume,
         UNCHANGED <<reports, rival, spent>>
  PROVE  Shape'
<1>1. UNCHANGED <<staged, marker, destination>>
  BY DEF Resume
<1>2. CASE Answer("refused")
  BY <1>1, <1>2, Refused
<1>3. CASE Go(IF marker.state = "complete" THEN "final" ELSE "install")
  <2>1. PICK step \in {"final", "install"} :
          /\ step = IF marker.state = "complete" THEN "final" ELSE "install"
          /\ op' # None /\ said' = said /\ op'.plan = op.plan /\ op'.at = step
          /\ op'.read = op.read
    BY <1>3, Went DEF MInv, Steps
  <2>2. marker # None /\ marker.state \in {"prepared", "complete"}
    BY Kinds DEF MInv, AtWork, States
  <2>3. OnDisk' /\ Told'
    BY <1>1, <2>1 DEF MInv, OnDisk, Told, Is, Part, Main
  <2>4. Alone'
    BY <1>1, <2>1 DEF MInv, Alone, AtWork
  <2>5. AtWork'
    BY <1>1, <2>1, <2>2 DEF MInv, AtWork, Is, Part, Main
  <2>6. Calm'
    BY <1>1, <2>1 DEF MInv, Calm, Is, Part, Main
  <2> QED BY <2>3, <2>4, <2>5, <2>6 DEF Shape
<1> QED BY <1>2, <1>3 DEF Resume

\* The ledger is staged, or there already and the staged one goes.
LEMMA InstallKeeps ==
  ASSUME Assumptions, MInv, op # None, op.at = "install", Install,
         UNCHANGED <<reports, rival, spent>>
  PROVE  Shape'
<1>1. UNCHANGED <<marker, destination>>
  BY DEF Install
<1>2. \A s \in {"plan", "snapshot", "report", "prepared", "stage", "complete"} : s \in Slots
  BY DEF Slots
<1>3. marker # None /\ marker.state = "prepared" /\ marker.plan = op.plan
  BY DEF MInv, AtWork
<1>4. CASE destination = None /\ Stage("stage", op.plan, "tie")
  <2>1. [whole |-> FALSE, of |-> op.plan] \in Files("stage")
    BY Kinds DEF MInv, Files
  <2>2. Written("stage", op.plan, "tie")
    BY <1>2, <1>4, <2>1, StagedOne DEF MInv, Steps
  <2>3. OnDisk'
    BY <1>1, <1>2, <1>3, <1>4, <2>2 DEF MInv, OnDisk, Written, Is, Part, Main
  <2>4. Alone'
    BY <1>1, <1>2, <2>2 DEF MInv, Alone, AtWork, Written
  <2>5. AtWork'
    BY <1>1, <1>2, <1>4, <2>2 DEF MInv, AtWork, Written, Is, Part, Main
  <2>6. Calm'
    BY <1>1, <1>2, <2>2 DEF MInv, Calm, AtWork, Written, Is, Part, Main
  <2>7. Told'
    BY <1>1, <2>2 DEF MInv, Told, Written
  <2> QED BY <2>3, <2>4, <2>5, <2>6, <2>7 DEF Shape
<1>5. CASE destination # None /\ Drop("stage") /\ Go("finish")
  <2>1. /\ op' # None /\ said' = said /\ op'.plan = op.plan /\ op'.at = "finish"
        /\ op'.read = op.read
    BY <1>5, Went DEF MInv, Steps
  <2>2. /\ staged'["stage"] = None
        /\ \A s \in Slots : s # "stage" => staged'[s] = staged[s]
    BY <1>2, <1>5, DroppedOne DEF MInv
  <2>3. OnDisk'
    BY <1>1, <1>2, <1>3, <1>5, <2>1, <2>2 DEF MInv, OnDisk, Is, Part, Main
  <2>4. Alone'
    BY <1>1, <1>2, <2>1, <2>2 DEF MInv, Alone, AtWork
  <2>5. AtWork'
    BY <1>1, <1>2, <1>5, <2>1, <2>2 DEF MInv, AtWork, Is, Part, Main
  <2>6. Calm'
    BY <1>1, <1>2, <2>1, <2>2 DEF MInv, Calm, AtWork, Is, Part, Main
  <2>7. Told'
    BY <1>1, <2>1 DEF MInv, Told
  <2> QED BY <2>3, <2>4, <2>5, <2>6, <2>7 DEF Shape
<1>6. CASE Answer("refused") /\ UNCHANGED staged
  BY <1>1, <1>6, Refused
<1> QED BY <1>4, <1>5, <1>6 DEF Install

\* The last look at the root answers.
LEMMA FinalKeeps ==
  ASSUME Assumptions, MInv, op # None, op.at = "final", Final,
         UNCHANGED <<reports, rival, spent>>
  PROVE  Shape'
<1>1. UNCHANGED <<staged, marker, destination>>
  BY DEF Final
<1>2. CASE Answer("refused")
  BY <1>1, <1>2, Refused
<1>3. CASE Answer("done")
  <2>1. op' = None /\ said' # None /\ said'.plan = op.plan
    BY <1>3, Answered DEF MInv
  <2>2. marker \in Markers /\ marker.state = "complete" /\ marker.plan = op.plan
    BY Kinds DEF MInv, AtWork
  <2>3. \A m \in Markers : m = [state |-> m.state, plan |-> m.plan]
    BY DEF Markers
  <2>4. Told'
    BY <1>1, <2>1, <2>2, <2>3 DEF Told
  <2> QED BY <1>1, <2>1, <2>4 DEF MInv, Shape, OnDisk, Alone, AtWork, Calm, Is, Part, Main
<1> QED BY <1>2, <1>3 DEF Final

-----------------------------------------------------------------------------
(* Around it *)

\* A call that begins has the plan of the marker, if there is one, and has read the reports.
LEMMA CallKeeps ==
  ASSUME Assumptions, MInv, NEW plan \in Plans, Call(plan)
  PROVE  Shape'
<1>1. UNCHANGED <<reports, staged, marker, destination, rival>> /\ spent'.edit = spent.edit
  BY DEF Call, MInv, TypeOK
<1>2. CASE op' = None /\ said' = [plan |-> plan, how |-> "refused"]
  <2>1. OnDisk' /\ Told'
    BY <1>1, <1>2 DEF MInv, OnDisk, Told, Is, Part, Main
  <2> QED BY <1>1, <1>2, <2>1 DEF MInv, Shape, Alone, AtWork, Calm, Is, Part, Main
<1>3. CASE /\ \A r \in Reports : reports[r] # Absent
           /\ Known \in {None, plan} /\ (reports = plan.source \/ MayStillChange)
           /\ op' = [plan |-> plan, at |-> "inspect", read |-> reports] /\ said' = said
  <2>1. op' # None /\ op'.plan = plan /\ op'.at = "inspect" /\ op'.read = reports
    <3>1. reports \in [Reports -> Versions]
      BY <1>3 DEF MInv, TypeOK
    <3>2. [plan |-> plan, at |-> "inspect", read |-> reports] \in Helpers
      BY <3>1 DEF Helpers, Steps
    <3> QED BY <1>3, <3>2 DEF Assumptions
  <2>2. marker # None => plan = marker.plan
    BY <1>3, Kinds DEF Known, MInv
  <2>3. OnDisk' /\ Told'
    BY <1>1, <1>3 DEF MInv, OnDisk, Told, Is, Part, Main
  <2>4. Alone'
    BY <1>1, <2>1 DEF MInv, Alone
  <2>5. AtWork'
    BY <1>1, <2>1, <2>2 DEF MInv, AtWork
  <2>6. Calm'
    BY <1>1, <1>3, <2>1, <2>2 DEF MInv, Calm, MayStillChange, Is, Part, Main
  <2> QED BY <2>3, <2>4, <2>5, <2>6 DEF Shape
<1> QED BY <1>2, <1>3 DEF Call

\* A helper that is killed leaves what is on disk.
LEMMA KillKeeps ==
  ASSUME Assumptions, MInv, Kill
  PROVE  Shape'
<1>1. UNCHANGED <<reports, staged, marker, destination, rival>> /\ spent'.edit = spent.edit
  BY DEF Kill, MInv, TypeOK
<1>2. op' = None /\ said' # None /\ said'.how = "killed"
  BY Answered DEF Kill, MInv
<1> QED BY <1>1, <1>2 DEF MInv, Shape, OnDisk, Alone, AtWork, Calm, Told, Is, Part, Main

\* An edit touches no file of the migration but the canonical report.
LEMMA EditKeeps ==
  ASSUME Assumptions, MInv, Edit
  PROVE  Shape'
<1>1. UNCHANGED <<marker, destination, rival, op, said>>
  BY DEF Edit
<1>2. \A s \in {"plan", "snapshot", "prepared", "stage", "complete"} : staged'[s] = staged[s]
  BY DEF Edit, MInv, TypeOK, Slots
<1>3. spent'.edit # 0
  BY DEF Edit, MInv, TypeOK, Assumptions
<1>4. OnDisk'
  BY <1>1, <1>2 DEF MInv, OnDisk, Is, Part, Main
<1>5. Alone' /\ Told'
  BY <1>1, <1>2 DEF MInv, Alone, Told
<1>6. AtWork'
  BY <1>1, <1>2 DEF MInv, AtWork, Is, Part, Main
<1> QED BY <1>3, <1>4, <1>5, <1>6 DEF Shape, Calm

\* Another ledger is made only where nothing of a migration is.
LEMMA CreateRivalKeeps ==
  ASSUME Assumptions, MInv, CreateRival
  PROVE  Shape'
<1>1. UNCHANGED <<reports, staged, marker, destination, op, said, spent>> /\ op = None
  BY DEF CreateRival
<1>2. marker = None
  BY DEF CreateRival, Pending, MInv, OnDisk
<1>3. staged["plan"] = None
  BY DEF CreateRival, Pending
<1>4. OnDisk' /\ Told'
  BY <1>1 DEF MInv, OnDisk, Told, Is, Part, Main
<1>5. Alone' /\ AtWork'
  BY <1>1, <1>2, <1>3 DEF Alone, AtWork
<1> QED BY <1>1, <1>4, <1>5 DEF MInv, Shape, Calm, Is, Part, Main

\* A ledger goes on only once the migration is complete.
LEMMA AdvanceKeeps ==
  ASSUME Assumptions, MInv, Advance
  PROVE  Shape'
<1>1. UNCHANGED <<reports, staged, marker, rival, op, said, spent>> /\ op = None
  BY DEF Advance
<1>2. marker # None /\ marker.state = "complete"
  BY DEF Advance, Pending, MInv, OnDisk
<1>3. destination' \in Ledgers /\ destination' # None /\ destination'.plan = destination.plan
  BY Kinds DEF Advance, MInv, Ledgers, Assumptions
<1>4. OnDisk'
  BY <1>1, <1>2, <1>3 DEF Advance, MInv, OnDisk, Is, Part, Main
<1>5. Alone' /\ AtWork' /\ Told'
  BY <1>1 DEF MInv, Alone, AtWork, Told
<1> QED BY <1>1, <1>4, <1>5 DEF MInv, Shape, Calm, Is, Part, Main

-----------------------------------------------------------------------------
(* The invariant, and what it says *)

\* Every step keeps the invariant.
LEMMA InvKept ==
  ASSUME Assumptions, MInv, [Next]_vars
  PROVE  MInv'
<1>1. TypeOK'
  BY TypesKept
<1>2. Shape'
  <2>1. CASE UNCHANGED vars
    BY <2>1 DEF vars, MInv, Shape, OnDisk, Alone, AtWork, Calm, Told, Is, Part, Main
  <2>2. CASE Migrate
    <3>1. op # None /\ UNCHANGED <<reports, rival, spent>>
      BY <2>2 DEF Migrate
    <3>2. CASE \/ op.at = "inspect" /\ Inspect
               \/ op.at = "plan" /\ Plan
               \/ op.at = "link" /\ Link
               \/ op.at = "unlink" /\ Unlink
               \/ op.at = "source" /\ Source
      BY <3>1, <3>2, InspectKeeps, PlanKeeps, LinkKeeps, UnlinkKeeps, SourceKeeps
    <3>3. CASE \/ op.at = "snapshot" /\ TakeSnapshot
               \/ op.at = "report" /\ Report
               \/ op.at = "prepare" /\ Prepare
               \/ op.at = "swap" /\ Swap
               \/ op.at = "resume" /\ Resume
      BY <3>1, <3>3, TakeSnapshotKeeps, ReportKeeps, PrepareKeeps, SwapKeeps, ResumeKeeps
    <3>4. CASE \/ op.at = "install" /\ Install
               \/ op.at = "tie" /\ Tie
               \/ op.at = "untie" /\ Untie
               \/ op.at = "finish" /\ Finish
               \/ op.at = "finished" /\ Finished
               \/ op.at = "final" /\ Final
      BY <3>1, <3>4, InstallKeeps, TieKeeps, UntieKeeps, FinishKeeps, FinishedKeeps, FinalKeeps
    <3> QED BY <2>2, <3>2, <3>3, <3>4 DEF Migrate
  <2>3. CASE \E plan \in Plans : Call(plan)
    BY <2>3, CallKeeps
  <2>4. CASE Kill \/ Edit \/ CreateRival \/ Advance
    BY <2>4, KillKeeps, EditKeeps, CreateRivalKeeps, AdvanceKeeps
  <2> QED BY <2>1, <2>2, <2>3, <2>4 DEF Next
<1> QED BY <1>1, <1>2 DEF MInv, Shape

\* It holds where nothing was migrated yet.
LEMMA InvInit ==
  ASSUME Assumptions, Init
  PROVE  MInv
<1>1. TypeOK
  <2>1. reports \in [Reports -> Versions \cup {Absent}]
    BY DEF Init
  <2>2. spent \in [call : 0 .. MaxCall, kill : 0 .. MaxKill, edit : 0 .. MaxEdit]
    BY DEF Init, Assumptions
  <2> QED BY <2>1, <2>2 DEF Init, TypeOK
<1>2. \A s \in Slots : staged[s] = None
  BY DEF Init
<1>3. OnDisk
  BY <1>2 DEF Init, OnDisk, Slots
<1> QED BY <1>1, <1>2, <1>3 DEF Init, MInv, Alone, AtWork, Calm, Told, Slots

\* Its parts hold of every state of every migration.
THEOREM MigrationInvariant ==
  ASSUME Assumptions
  PROVE  Spec => []MInv
<1>1. Init => MInv
  BY InvInit
<1>2. MInv /\ [Next]_vars => MInv'
  BY InvKept
<1> QED BY <1>1, <1>2, PTL DEF Spec

\* A migration's files, marker, ledger, helper and answer are what their types say.
THEOREM MigrationTypes ==
  ASSUME Assumptions
  PROVE  Spec => []TypeOK
<1>1. MInv => TypeOK
  BY DEF MInv
<1> QED BY <1>1, MigrationInvariant, PTL

\* The issue of a report has one owner, whatever was killed or edited while it was migrated.
THEOREM MigrationHasOneOwner ==
  ASSUME Assumptions
  PROVE  Spec => []OneOwner
<1>1. MInv => OneOwner
  BY DEF MInv, OneOwner, OnDisk, Alone
<1> QED BY <1>1, MigrationInvariant, PTL

\* A ledger is there only behind a prepared marker and a whole snapshot, and is the one planned.
THEOREM MigratedLedgerIsBacked ==
  ASSUME Assumptions
  PROVE  Spec => []DestinationIsBacked
<1>1. MInv => DestinationIsBacked
  <2> SUFFICES ASSUME MInv
               PROVE  DestinationIsBacked
    OBVIOUS
  <2>1. marker # None => marker.state \in {"planned", "prepared", "complete"}
    BY Kinds DEF MInv, States
  <2> QED BY <2>1 DEF MInv, OnDisk, DestinationIsBacked, Is, Main
<1> QED BY <1>1, MigrationInvariant, PTL

\* The plan that is known where an exact call may go on is that call's, or none.
LEMMA KnownIsMine ==
  ASSUME Assumptions, MInv, NEW plan \in Plans, Mine(plan)
  PROVE  Known \in {None, plan} /\ Part("plan", plan)
BY DEF Mine, Known, Part, MInv, OnDisk, Is

\* The inventory does not raise for what a killed helper left.
LEMMA LeftoversAreReadable ==
  ASSUME Assumptions, MInv, NEW plan \in Plans, Mine(plan), Untouched(plan)
  PROVE  Readable
<1>1. "main" \in Reports /\ (marker # None => marker.state \in {"planned", "prepared", "complete"})
  BY Kinds DEF MInv, States
<1>2. CASE marker = None
  BY <1>2 DEF Readable, MInv, OnDisk
<1>3. CASE marker # None
  <2>1. marker.plan = plan /\ reports = plan.source
    BY <1>3 DEF Mine, Untouched
  <2>2. \A r \in Reports : reports[r] # Absent
    <3>1. plan.source \in [Reports -> Versions] /\ Absent \notin Versions
      BY DEF Plans, Assumptions
    <3> QED BY <2>1, <3>1
  <2>3. staged["plan"] # None => marker.state = "planned" /\ Is("plan", TRUE, plan)
    BY <1>1, <1>3, <2>1 DEF MInv, OnDisk
  <2>4. destination # None => destination.plan = plan
    BY <1>1, <1>3, <2>1 DEF MInv, OnDisk
  <2>5. CASE marker.state = "planned"
    <3>1. Planned(plan)
      BY <1>3, <2>1, <2>5 DEF MInv, OnDisk, Planned, Untouched, Main
    <3> QED BY <1>3, <2>1, <2>2, <2>3, <2>4, <2>5, <3>1 DEF Readable
  <2>6. CASE marker.state = "prepared"
    <3>1. Prepared(plan)
      BY <1>3, <2>1, <2>6 DEF MInv, OnDisk, Prepared, Untouched, Main
    <3> QED BY <1>3, <2>1, <2>2, <2>3, <2>4, <2>6, <3>1 DEF Readable
  <2>7. CASE marker.state = "complete"
    <3>1. Completed(plan)
      BY <1>3, <2>1, <2>7 DEF MInv, OnDisk, Completed, Untouched, Is, Main
    <3> QED BY <1>3, <2>1, <2>2, <2>3, <2>4, <2>7, <3>1 DEF Readable
  <2> QED BY <1>1, <1>3, <2>5, <2>6, <2>7
<1> QED BY <1>2, <1>3

\* Whatever a killed helper left, the exact call goes on from there.
THEOREM MigrationIsResumed ==
  ASSUME Assumptions
  PROVE  Spec => []LeftoversAreResumed
<1>1. MInv => LeftoversAreResumed
  <2> SUFFICES ASSUME MInv, NEW plan \in Plans, Mine(plan), Untouched(plan)
               PROVE  Readable /\ Known \in {None, plan} /\ Part("plan", plan) /\ ~rival
    BY DEF LeftoversAreResumed
  <2>1. ~rival
    BY DEF MInv, Alone, Mine
  <2> QED BY <2>1, KnownIsMine, LeftoversAreReadable
<1> QED BY <1>1, MigrationInvariant, PTL

\* While nobody edits, a complete migration can be read.
LEMMA CompleteIsReadable ==
  ASSUME Assumptions, MInv, spent.edit = 0, marker # None, marker.state = "complete"
  PROVE  Readable
<1>1. marker.plan \in Plans /\ Mine(marker.plan)
  BY Kinds DEF MInv, Mine
<1>2. Untouched(marker.plan)
  BY Kinds DEF MInv, Calm, Untouched, Is, Part, Main
<1> QED BY <1>1, <1>2, LeftoversAreReadable

\* Who was told that it is migrated was told the truth, and it stays true.
THEOREM MigrationAnswersAreTrue ==
  ASSUME Assumptions
  PROVE  Spec => []AnswersAreTrue
<1>1. MInv => AnswersAreTrue
  <2> SUFFICES ASSUME MInv, said # None, said.how = "done"
               PROVE  /\ marker = [state |-> "complete", plan |-> said.plan] /\ destination # None
                      /\ ~Pending /\ (spent.edit = 0 => Readable)
    BY DEF AnswersAreTrue
  <2>1. marker = [state |-> "complete", plan |-> said.plan]
    BY DEF MInv, Told
  <2>2. marker # None
    BY Untold DEF MInv
  <2>3. destination # None /\ ~Pending
    BY <2>1, <2>2 DEF MInv, OnDisk, Pending
  <2> QED BY <2>1, <2>2, <2>3, CompleteIsReadable
<1> QED BY <1>1, MigrationInvariant, PTL

-----------------------------------------------------------------------------
(* What is decided stays decided *)

\* The marker, a whole snapshot and the ledger, as every step leaves them.
Forward ==
  /\ marker # None =>
       /\ marker' # None /\ marker'.plan = marker.plan
       /\ marker.state = "complete" => marker'.state = "complete"
       /\ marker.state = "prepared" => marker'.state # "planned"
  /\ staged["snapshot"] # None /\ staged["snapshot"].whole =>
       staged'["snapshot"] = staged["snapshot"]
  /\ destination # None => destination' # None /\ destination'.plan = destination.plan

\* A step of a helper keeps them.
LEMMA HelperGoesForward ==
  ASSUME Assumptions, MInv, Migrate
  PROVE  Forward
<1>0. op # None /\ op.plan \in Plans
  BY Kinds DEF Migrate, MInv
<1>s. \A s \in {"plan", "snapshot", "report", "prepared", "stage", "complete"} : s \in Slots
  BY DEF Slots
<1>1. CASE Inspect \/ Source \/ Resume \/ Final
  BY <1>1 DEF Inspect, Source, Resume, Final, Forward
<1>2. CASE Plan \/ Prepare \/ Finish
  <2>1. PICK slot \in {"plan", "prepared", "complete"}, step \in Steps : Stage(slot, op.plan, step)
    BY <1>2 DEF Plan, Prepare, Finish, Steps
  <2>2. [whole |-> FALSE, of |-> op.plan] \in Files(slot)
    BY <1>0 DEF Files
  <2>3. Written(slot, op.plan, step)
    BY <1>0, <1>s, <2>1, <2>2, StagedOne DEF MInv
  <2>4. staged'["snapshot"] = staged["snapshot"]
    BY <1>s, <2>3 DEF Written
  <2> QED BY <1>2, <2>4 DEF Plan, Prepare, Finish, Forward
<1>3. CASE Unlink \/ Untie
  <2>1. PICK slot \in {"plan", "stage"} : Drop(slot)
    BY <1>3 DEF Unlink, Untie
  <2>2. staged'["snapshot"] = staged["snapshot"]
    BY <1>s, <2>1, DroppedOne DEF MInv
  <2> QED BY <1>3, <2>2 DEF Unlink, Untie, Forward
<1>4. CASE op.at = "link" /\ Link
  BY <1>0, <1>4 DEF Link, Forward, MInv, AtWork
<1>5. CASE \/ op.at = "swap" /\ Swap
           \/ op.at = "finished" /\ Finished
  <2>2. marker # None /\ marker \in Markers
    BY <1>0, <1>5 DEF MInv, AtWork, TypeOK
  <2>3. PICK slot \in {"prepared", "complete"} : Drop(slot)
    BY <1>5 DEF Swap, Finished
  <2>4. staged'["snapshot"] = staged["snapshot"]
    BY <1>s, <2>3, DroppedOne DEF MInv
  <2>5. PICK state \in {"prepared", "complete"} :
          /\ marker' = [marker EXCEPT !.state = state] /\ UNCHANGED destination
          /\ marker.state = "complete" => state = "complete"
    BY <1>0, <1>5 DEF Swap, Finished, MInv, AtWork
  <2>6. marker' \in Markers /\ marker'.plan = marker.plan /\ marker'.state = state
    BY <2>2, <2>5 DEF Markers, States
  <2> QED BY <2>4, <2>5, <2>6 DEF Forward, Assumptions
<1>6. CASE op.at = "snapshot" /\ TakeSnapshot
  <2>1. UNCHANGED <<marker, destination>> /\ Stage("snapshot", op.read["main"], "report")
    BY <1>6 DEF TakeSnapshot
  <2>2. [whole |-> FALSE, of |-> op.read["main"]] \in Files("snapshot") /\ "report" \in Steps
    BY Kinds, <1>0 DEF MInv, Files, Steps
  <2>3. Written("snapshot", op.read["main"], "report")
    BY <1>0, <1>s, <2>1, <2>2, StagedOne DEF MInv
  <2>4. staged["snapshot"] \in {None} \cup Files("snapshot")
    BY <1>s DEF MInv, TypeOK
  <2>5. ASSUME staged["snapshot"] # None, staged["snapshot"].whole,
               staged["snapshot"].of = op.read["main"]
        PROVE  staged["snapshot"] = [whole |-> TRUE, of |-> op.read["main"]]
    BY <2>4, <2>5 DEF Files
  <2>6. staged["snapshot"] # None /\ staged["snapshot"].whole =>
          staged'["snapshot"] = staged["snapshot"]
    BY <2>3, <2>5 DEF Written
  <2> QED BY <2>1, <2>6 DEF Forward
<1>7. CASE op.at = "report" /\ Report
  <2>1. UNCHANGED <<marker, destination>>
    BY <1>7 DEF Report
  <2>2. staged'["snapshot"] = staged["snapshot"]
    BY <1>7, <1>s DEF Report, Stage, MInv, TypeOK
  <2> QED BY <2>1, <2>2 DEF Forward
<1>8. CASE Install
  <2>1. UNCHANGED <<marker, destination>>
    BY <1>8 DEF Install
  <2>2. staged'["snapshot"] = staged["snapshot"]
    BY <1>8, <1>s DEF Install, Stage, Drop, MInv, TypeOK
  <2> QED BY <2>1, <2>2 DEF Forward
<1>9. CASE op.at = "tie" /\ Tie
  BY <1>0, <1>9 DEF Tie, Forward, MInv, AtWork
<1> QED BY <1>1, <1>2, <1>3, <1>4, <1>5, <1>6, <1>7, <1>8, <1>9 DEF Migrate

\* While nobody edits, what a helper finds beside the marker is what was planned.
LEMMA NothingIsInTheWay ==
  ASSUME Assumptions, MInv, op # None, spent.edit = 0
  PROVE  /\ Readable /\ ~Claimed(Reports) /\ reports = op.read /\ op.read = op.plan.source
         /\ \A r \in Reports : reports[r] # Absent
<1>1. op.plan \in Plans /\ op.plan.source \in [Reports -> Versions]
  BY Kinds DEF MInv
<1>2. reports = op.read /\ op.read = op.plan.source
  BY DEF MInv, Calm
<1>3. \A r \in Reports : reports[r] # Absent
  BY <1>1, <1>2 DEF Assumptions
<1>4. ~Claimed(Reports)
  BY DEF Claimed, Unpaired, MInv, Calm
<1>5. CASE marker = None
  BY <1>2, <1>3, <1>4, <1>5 DEF Readable, MInv, OnDisk
<1>6. CASE marker # None
  <2>1. Mine(op.plan) /\ marker.plan = op.plan
    BY <1>6 DEF Mine, MInv, AtWork
  <2>2. Untouched(op.plan)
    BY <1>2, <1>6, <2>1 DEF MInv, Calm, Untouched, Main, Is, Part
  <2>3. Readable
    BY <1>1, <2>1, <2>2, LeftoversAreReadable
  <2> QED BY <1>2, <1>3, <1>4, <2>3
<1> QED BY <1>5, <1>6

\* A file that is not another's is not a reason to refuse.
LEMMA StageGoesOn ==
  ASSUME Assumptions, MInv, op # None, NEW slot \in Slots, NEW what, NEW step \in Steps,
         Part(slot, what), Stage(slot, what, step)
  PROVE  op' # None
BY Went DEF Part, Stage, MInv

\* While nobody edits, a step of a helper refuses only what another planned first.
LEMMA HelperGoesOn ==
  ASSUME Assumptions, MInv, Migrate, spent.edit = 0, ~rival, Part("plan", op.plan),
         op' = None, said'.how = "refused"
  PROVE  FALSE
<1>0. /\ op # None /\ Readable /\ ~Claimed(Reports) /\ reports = op.read
      /\ op.read = op.plan.source /\ \A r \in Reports : reports[r] # Absent
  BY NothingIsInTheWay DEF Migrate
<1>1. \A s \in {"plan", "snapshot", "report", "prepared", "stage", "complete"} : s \in Slots
  BY DEF Slots
<1>2. "main" \in Reports /\ (marker # None => marker.state \in {"planned", "prepared", "complete"})
  BY Kinds DEF MInv, States
<1>3. ASSUME NEW step \in Steps, Go(step) PROVE FALSE
  BY <1>0, <1>3, Went DEF MInv
<1>4. ASSUME Answer("done") PROVE FALSE
  BY <1>0, <1>4, Answered DEF MInv
<1>5. CASE op.at = "inspect" /\ Inspect
  BY <1>0, <1>3, <1>5 DEF Inspect, Steps
<1>6. CASE op.at = "source" /\ Source
  BY <1>0, <1>3, <1>6 DEF Source, Steps
<1>7. CASE op.at = "plan" /\ Plan
  BY <1>0, <1>1, <1>7, StageGoesOn DEF Plan, Steps
<1>8. CASE op.at = "snapshot" /\ TakeSnapshot
  <2>1. Part("snapshot", op.read["main"])
    BY <1>0, <1>8 DEF MInv, AtWork, OnDisk, Main
  <2> QED BY <1>0, <1>1, <1>8, <2>1, StageGoesOn DEF TakeSnapshot, Steps
<1>9. CASE op.at = "report" /\ Report
  <2>1. staged["snapshot"].of = Main(op.plan) /\ marker # None /\ marker.state = "planned"
    BY <1>0, <1>9 DEF MInv, AtWork, Is
  <2>2. marker.plan = op.plan /\ (Legacy => Part("report", Main(op.plan)))
    BY <1>0, <2>1 DEF MInv, AtWork, Calm
  <2>3. CASE Legacy
    BY <1>0, <1>1, <1>9, <2>1, <2>2, <2>3, StageGoesOn DEF Report, Steps
  <2>4. CASE ~Legacy
    BY <1>0, <1>3, <1>9, <2>1, <2>4 DEF Report, Main, Steps
  <2> QED BY <2>3, <2>4
<1>10. CASE op.at = "prepare" /\ Prepare
  <2>1. Part("prepared", op.plan)
    BY <1>0, <1>10 DEF MInv, AtWork, OnDisk
  <2> QED BY <1>0, <1>1, <1>10, <2>1, StageGoesOn DEF Prepare, Steps
<1>11. CASE op.at = "resume" /\ Resume
  <2>1. marker # None /\ marker.plan = op.plan /\ marker.state # "planned"
    BY <1>0, <1>11 DEF MInv, AtWork
  <2>2. Is("snapshot", TRUE, op.plan.source["main"])
    BY <2>1 DEF MInv, OnDisk, Main
  <2>3. Legacy => Is("report", TRUE, op.plan.source["main"])
    BY <2>1 DEF MInv, Calm, Main
  <2>4. Legacy => staged["report"] # None
    BY <2>3 DEF Is
  <2> QED BY <1>0, <1>2, <1>3, <1>11, <2>2, <2>3, <2>4 DEF Resume, Steps
<1>12. CASE op.at = "install" /\ Install
  <2>1. marker # None /\ marker.plan = op.plan /\ marker.state = "prepared"
    BY <1>0, <1>12 DEF MInv, AtWork
  <2>2. Part("stage", op.plan) /\ (destination # None => destination.plan = op.plan)
    BY <2>1 DEF MInv, OnDisk
  <2> QED BY <1>0, <1>1, <1>3, <1>12, <2>2, StageGoesOn DEF Install, Steps
<1>13. CASE op.at = "finish" /\ Finish
  <2>1. Part("complete", op.plan)
    BY <1>0, <1>13 DEF MInv, AtWork, OnDisk
  <2> QED BY <1>0, <1>1, <1>13, <2>1, StageGoesOn DEF Finish, Steps
<1>14. CASE op.at = "final" /\ Final
  <2>1. ~Pending
    BY <1>0, <1>14 DEF MInv, AtWork, OnDisk, Pending
  <2> QED BY <1>0, <1>4, <1>14, <2>1 DEF Final
<1>15. CASE Link \/ Unlink \/ Swap \/ Tie \/ Untie \/ Finished
  BY <1>3, <1>15 DEF Link, Unlink, Swap, Tie, Untie, Finished, Steps
<1> QED BY <1>5, <1>6, <1>7, <1>8, <1>9, <1>10, <1>11, <1>12, <1>13, <1>14, <1>15 DEF Migrate

\* Nothing that was decided is decided again, and without an edit an exact call goes on.
THEOREM MigrationMovesForward ==
  ASSUME Assumptions
  PROVE  Spec => [][MovesForward]_vars
<1>1. MInv /\ [Next]_vars => [MovesForward]_vars
  <2> SUFFICES ASSUME MInv, Next
               PROVE  MovesForward
    BY DEF vars
  <2>1. CASE Migrate
    <3>1. Forward
      BY <2>1, HelperGoesForward
    <3>2. ASSUME op' = None, said'.how = "refused", spent.edit = 0
          PROVE  rival \/ ~Part("plan", op.plan)
      BY <2>1, <3>2, HelperGoesOn
    <3> QED BY <3>1, <3>2 DEF Forward, MovesForward
  <2>2. CASE \E plan \in Plans : Call(plan)
    BY <2>2 DEF Call, MovesForward
  <2>3. CASE Kill
    <3>1. said'.how = "killed" /\ UNCHANGED <<staged, marker, destination>>
      BY <2>3, Answered DEF Kill, MInv
    <3> QED BY <3>1 DEF MovesForward
  <2>4. CASE Edit
    <3>1. UNCHANGED <<marker, destination, op, said>>
      BY <2>4 DEF Edit
    <3>2. staged'["snapshot"] = staged["snapshot"]
      BY <2>4 DEF Edit, MInv, TypeOK, Slots
    <3> QED BY <3>1, <3>2 DEF MovesForward
  <2>5. CASE CreateRival
    BY <2>5 DEF CreateRival, MovesForward
  <2>6. CASE Advance
    <3>1. UNCHANGED <<staged, marker>> /\ op = None
      BY <2>6 DEF Advance
    <3>2. destination' # None /\ destination'.plan = destination.plan
      BY <2>6, Kinds DEF Advance, MInv, Ledgers, Assumptions
    <3> QED BY <3>1, <3>2 DEF MovesForward
  <2> QED BY <2>1, <2>2, <2>3, <2>4, <2>5, <2>6 DEF Next
<1> QED BY <1>1, MigrationInvariant, PTL DEF Spec


-----------------------------------------------------------------------------
(***************************************************************************)
(* The correction of a head                                                *)
(*                                                                         *)
(* HeadCorrection is proved beside the migrations, as the instance C: for  *)
(* any helpers, heads, authorities, kills, retries and commits.            *)
(***************************************************************************)

CONSTANTS Helping, Heads, Ask, Granted, Bad, MaxGen, MaxRetry, MaxMove

VARIABLES ledger, kept, live, lock, at, seen, costs

C == INSTANCE HeadCorrection WITH Helpers <- Helping, spent <- costs

\* The steps a helper takes behind the locks.
Behind == {"predecessor", "erroneous", "stage", "receipt", "again", "replace", "final"}

\* One helper at most is behind the locks.
Locked ==
  /\ \A h \in Helping : at[h] \in Behind <=> h \in lock
  /\ \A g, h \in lock : g = h

\* While the erroneous bytes are installed the files were made one after the other.
InOrder ==
  ledger = C!Erroneous =>
    /\ \A f \in C!Files : C!There(f) => C!There("predecessor")
    /\ C!There("predecessor") => kept["predecessor"].by = Bad
    /\ C!There("erroneous") => /\ C!Whole("predecessor")
                             /\ kept["erroneous"].whole /\ kept["erroneous"].by = Bad
    /\ C!There("stage") =>
         C!There("erroneous") /\ \E g \in Granted : Ask[g] = kept["stage"].by
    /\ C!There("receipt") => C!Whole("stage") /\ kept["receipt"].by = kept["stage"].by

\* Afterwards either all the evidence is there, or another update came first.
Settled ==
  ledger # C!Erroneous =>
    /\ ledger.generation >= 3
    /\ \/ ledger.head = Bad /\ \A f \in C!Files : ~C!There(f)
       \/ /\ ledger.head # Bad /\ ~C!There("stage")
          /\ C!Whole("predecessor") /\ C!Whole("erroneous") /\ C!Receipt(ledger.head)
          /\ \E g \in Granted : Ask[g] = ledger.head

\* Where a helper is tells what it has done.
Done ==
  \A h \in Helping :
    /\ at[h] \in Behind \cup {"prove", "lock", "done"} => h \in Granted
    /\ at[h] \in Behind \ {"final"} => ledger = C!Erroneous
    /\ at[h] = "erroneous" => C!Whole("predecessor")
    /\ at[h] = "stage" => C!There("erroneous")
    /\ at[h] \in {"receipt", "again", "replace"} =>
         C!Whole("stage") /\ kept["stage"].by = Ask[h]
    /\ at[h] \in {"again", "replace"} => C!Receipt(Ask[h])
    /\ at[h] = "final" => ledger = C!Corrected(Ask[h])
    /\ at[h] = "done" => ledger.head = Ask[h] /\ ledger.generation >= 3

CInv == C!TypeOK /\ Locked /\ InOrder /\ Settled /\ Done

\* A helper that goes on is at its next step, the others where they were.
LEMMA Gone ==
  ASSUME C!TypeOK, NEW h \in Helping, NEW step \in C!Steps \cup C!Answers, C!Go(h, step)
  PROVE  /\ at' \in [Helping -> C!Steps \cup C!Answers] /\ at'[h] = step
         /\ \A g \in Helping : g # h => at'[g] = at[g]
BY DEF C!TypeOK, C!Go

\* A file that is set is what was put there, the others stay.
LEMMA FileSet ==
  ASSUME C!TypeOK, NEW f \in C!Files, NEW k \in {None} \cup C!Kept, kept' = [kept EXCEPT ![f] = k]
  PROVE  /\ kept' \in [C!Files -> {None} \cup C!Kept] /\ kept'[f] = k
         /\ \A g \in C!Files : g # f => kept'[g] = kept[g]
BY DEF C!TypeOK

\* A file that is completed is of what it was.
LEMMA FileWhole ==
  ASSUME C!Assumptions, C!TypeOK, NEW f \in C!Files, C!There(f),
         kept' = [kept EXCEPT ![f].whole = TRUE]
  PROVE  /\ kept' \in [C!Files -> {None} \cup C!Kept]
         /\ kept'[f] = [whole |-> TRUE, by |-> kept[f].by]
         /\ \A g \in C!Files : g # f => kept'[g] = kept[g]
<1> DEFINE k == [kept[f] EXCEPT !.whole = TRUE]
<1>1. kept[f] \in C!Kept
  BY DEF C!TypeOK, C!There
<1>2. k \in C!Kept /\ k.whole = TRUE /\ k.by = kept[f].by
  BY <1>1 DEF C!Kept
<1>3. \A r \in C!Kept : r = [whole |-> r.whole, by |-> r.by]
  BY DEF C!Kept
<1>4. kept' = [kept EXCEPT ![f] = k]
  OBVIOUS
<1> HIDE DEF k
<1>5. k = [whole |-> TRUE, by |-> kept[f].by]
  BY <1>2, <1>3
<1> QED BY <1>2, <1>4, <1>5, FileSet

\* Where a record of Kept is, there is a file.
LEMMA KeptIsThere ==
  ASSUME C!Assumptions, NEW k \in C!Kept
  PROVE  k # None
BY DEF C!Assumptions

\* A helper that gives up gives the locks up.
LEMMA GivesUp ==
  ASSUME C!Assumptions, CInv, NEW h \in Helping, NEW how \in {"refused", "killed"},
         C!Answer(h, how), UNCHANGED <<ledger, kept>>
  PROVE  Locked' /\ InOrder' /\ Settled' /\ Done'
<1>1. /\ at'[h] = how /\ \A g \in Helping : g # h => at'[g] = at[g]
  BY Gone DEF CInv, C!Answer, C!Answers
<1>2. lock' = lock \ {h}
  BY DEF C!Answer
<1>3. Locked'
  BY <1>1, <1>2 DEF CInv, Locked, Behind
<1>4. InOrder' /\ Settled'
  BY DEF CInv, InOrder, Settled, C!There, C!Whole, C!Receipt
<1>5. Done'
  BY <1>1 DEF CInv, Done, Behind, C!There, C!Whole, C!Receipt
<1> QED BY <1>3, <1>4, <1>5

\* A file is made behind the locks: it is begun, or completed, or another's.
Made(h, f, by, step) ==
  /\ at[h] = f /\ h \in lock /\ UNCHANGED ledger
  /\ \/ /\ ~C!There(f) /\ kept' \in [C!Files -> {None} \cup C!Kept] /\ UNCHANGED <<lock, at>>
        /\ kept'[f].by = by /\ kept'[f] # None
        /\ \A g \in C!Files : g # f => kept'[g] = kept[g]
     \/ /\ C!There(f) /\ kept[f].by = by /\ UNCHANGED lock
        /\ kept' \in [C!Files -> {None} \cup C!Kept]
        /\ kept'[f] = [whole |-> TRUE, by |-> by] /\ kept'[f] # None
        /\ kept'[f].by = by /\ kept'[f].whole
        /\ \A g \in C!Files : g # f => kept'[g] = kept[g]
        /\ at' \in [Helping -> C!Steps \cup C!Answers] /\ at'[h] = step
        /\ \A g \in Helping : g # h => at'[g] = at[g]
     \/ C!There(f) /\ kept[f].by # by /\ C!Answer(h, "refused") /\ UNCHANGED kept

\* That is what a step that makes a file does.
LEMMA StageIs ==
  ASSUME C!Assumptions, CInv, NEW h \in Helping, NEW f \in {"predecessor", "stage", "receipt"},
         NEW by \in Heads \cup {Bad}, NEW step \in Behind, C!Stage(h, f, by, step)
  PROVE  Made(h, f, by, step)
<1> USE DEF Made
<1>1. at[h] = f /\ h \in lock /\ UNCHANGED ledger
  BY DEF C!Stage, CInv, Locked, Behind
<1>2. f \in C!Files /\ step \in C!Steps \cup C!Answers
  BY DEF C!Files, Behind, C!Steps
<1>3. CASE ~C!There(f)
  <2>1. [whole |-> FALSE, by |-> by] \in C!Kept
    BY DEF C!Kept
  <2>2. kept' = [kept EXCEPT ![f] = [whole |-> FALSE, by |-> by]] /\ UNCHANGED <<lock, at>>
    BY <1>3 DEF C!Stage
  <2> QED BY <1>1, <1>2, <1>3, <2>1, <2>2, FileSet, KeptIsThere DEF CInv
<1>4. CASE C!There(f) /\ kept[f].by = by
  <2>1. [whole |-> TRUE, by |-> by] \in C!Kept
    BY DEF C!Kept
  <2>2. kept' = [kept EXCEPT ![f].whole = TRUE] /\ C!Go(h, step) /\ UNCHANGED lock
    BY <1>4 DEF C!Stage
  <2>3. /\ at' \in [Helping -> C!Steps \cup C!Answers] /\ at'[h] = step
        /\ \A g \in Helping : g # h => at'[g] = at[g]
    BY <1>2, <2>2, Gone DEF CInv
  <2>4. /\ kept' \in [C!Files -> {None} \cup C!Kept] /\ kept'[f] = [whole |-> TRUE, by |-> by]
        /\ \A g \in C!Files : g # f => kept'[g] = kept[g]
    BY <1>2, <1>4, <2>2, FileWhole DEF CInv
  <2>5. kept'[f] # None
    BY <2>1, <2>4, KeptIsThere
  <2>6. kept'[f].by = by
    BY <2>4
  <2>7. kept'[f].whole
    BY <2>4
  <2> QED BY <1>1, <1>4, <2>2, <2>3, <2>4, <2>5, <2>6, <2>7
<1>5. CASE C!There(f) /\ kept[f].by # by
  BY <1>1, <1>5 DEF C!Stage
<1> QED BY <1>3, <1>4, <1>5

\* Nobody else is behind the locks.
LEMMA AloneThere ==
  ASSUME CInv, NEW h \in lock, NEW g \in Helping, g # h
  PROVE  at[g] \notin Behind
BY DEF CInv, Locked

\* The predecessor is kept first.
LEMMA PredecessorKeeps ==
  ASSUME C!Assumptions, CInv, NEW h \in Helping, C!KeepPredecessor(h)
  PROVE  Locked' /\ InOrder' /\ Settled' /\ Done'
<1>1. /\ C!Stage(h, "predecessor", Bad, "erroneous") /\ "erroneous" \in Behind
      /\ \A f \in {"predecessor", "erroneous", "stage", "receipt"} : f \in C!Files
  BY DEF C!KeepPredecessor, Behind, C!Files
<1>m. Made(h, "predecessor", Bad, "erroneous")
  BY <1>1, StageIs
<1>2. at[h] = "predecessor" /\ h \in lock /\ UNCHANGED ledger /\ ledger = C!Erroneous
  BY <1>m DEF Made, CInv, Done, Behind
<1>3. CASE C!Answer(h, "refused") /\ UNCHANGED kept
  BY <1>2, <1>3, GivesUp
<1>4. CASE /\ \/ UNCHANGED at /\ ~C!There("predecessor")
              \/ /\ at'[h] = "erroneous" /\ \A g \in Helping : g # h => at'[g] = at[g]
                 /\ kept'["predecessor"].whole
           /\ UNCHANGED lock /\ kept'["predecessor"] # None /\ kept'["predecessor"].by = Bad
           /\ C!There("predecessor") => kept'["predecessor"].whole
           /\ \A g \in C!Files : g # "predecessor" => kept'[g] = kept[g]
  <2>1. Locked'
    BY <1>1, <1>2, <1>4 DEF CInv, Locked, Behind
  <2>2. InOrder' /\ Settled'
    BY <1>1, <1>2, <1>4 DEF CInv, InOrder, Settled, C!There, C!Whole
  <2>3. \A g \in Helping : g # h => at[g] \notin Behind
    BY <1>2, AloneThere
  <2>4. Done'
    BY <1>1, <1>2, <1>4, <2>3 DEF CInv, Done, Behind, C!There, C!Whole, C!Receipt
  <2> QED BY <2>1, <2>2, <2>4
<1> QED BY <1>m, <1>3, <1>4 DEF Made

\* Then the erroneous bytes.
LEMMA ErroneousKeeps ==
  ASSUME C!Assumptions, CInv, NEW h \in Helping, C!KeepErroneous(h)
  PROVE  Locked' /\ InOrder' /\ Settled' /\ Done'
<1>1. \A f \in {"predecessor", "erroneous", "stage", "receipt"} : f \in C!Files
  BY DEF C!Files
<1>2. at[h] = "erroneous" /\ h \in lock /\ UNCHANGED <<ledger, lock>> /\ ledger = C!Erroneous
  BY DEF C!KeepErroneous, CInv, Locked, Done, Behind
<1>3. /\ at'[h] = "stage" /\ \A g \in Helping : g # h => at'[g] = at[g]
  BY Gone DEF C!KeepErroneous, CInv, C!Steps
<1>4. [whole |-> TRUE, by |-> Bad] \in C!Kept
  BY DEF C!Kept
<1>5. /\ kept'["erroneous"] = [whole |-> TRUE, by |-> Bad] /\ kept'["erroneous"] # None
      /\ \A g \in C!Files : g # "erroneous" => kept'[g] = kept[g]
  BY <1>1, <1>4, FileSet, KeptIsThere DEF C!KeepErroneous, CInv
<1>6. Locked'
  BY <1>2, <1>3 DEF CInv, Locked, Behind
<1>7. InOrder' /\ Settled'
  BY <1>1, <1>2, <1>5 DEF CInv, InOrder, Settled, Done, C!There, C!Whole
<1>8. \A g \in Helping : g # h => at[g] \notin Behind
  BY <1>2, AloneThere
<1>9. Done'
  BY <1>1, <1>2, <1>3, <1>5, <1>8 DEF CInv, Done, Behind, C!There, C!Whole, C!Receipt
<1> QED BY <1>6, <1>7, <1>9

\* Then the corrected ledger is staged.
LEMMA CStageKeeps ==
  ASSUME C!Assumptions, CInv, NEW h \in Helping, C!StageCorrected(h)
  PROVE  Locked' /\ InOrder' /\ Settled' /\ Done'
<1>1. /\ C!Stage(h, "stage", Ask[h], "receipt") /\ "receipt" \in Behind
      /\ \A f \in {"predecessor", "erroneous", "stage", "receipt"} : f \in C!Files
      /\ Ask[h] \in Heads \cup {Bad}
  BY DEF C!StageCorrected, Behind, C!Files, C!Assumptions
<1>m. Made(h, "stage", Ask[h], "receipt")
  BY <1>1, StageIs
<1>2. at[h] = "stage" /\ h \in lock /\ UNCHANGED ledger /\ ledger = C!Erroneous /\ h \in Granted
  BY <1>m DEF Made, CInv, Done, Behind
<1>3. CASE C!Answer(h, "refused") /\ UNCHANGED kept
  BY <1>2, <1>3, GivesUp
<1>4. CASE /\ \/ UNCHANGED at /\ ~C!There("stage")
              \/ /\ at'[h] = "receipt" /\ \A g \in Helping : g # h => at'[g] = at[g]
                 /\ kept'["stage"].whole
           /\ UNCHANGED lock /\ kept'["stage"] # None /\ kept'["stage"].by = Ask[h]
           /\ C!There("stage") => kept'["stage"].whole /\ kept["stage"].by = Ask[h]
           /\ \A g \in C!Files : g # "stage" => kept'[g] = kept[g]
  <2>1. Locked'
    BY <1>1, <1>2, <1>4 DEF CInv, Locked, Behind
  <2>2. InOrder' /\ Settled'
    BY <1>1, <1>2, <1>4 DEF CInv, InOrder, Settled, Done, C!There, C!Whole
  <2>3. \A g \in Helping : g # h => at[g] \notin Behind
    BY <1>2, AloneThere
  <2>4. Done'
    BY <1>1, <1>2, <1>4, <2>3 DEF CInv, Done, Behind, C!There, C!Whole, C!Receipt
  <2> QED BY <2>1, <2>2, <2>4
<1> QED BY <1>m, <1>3, <1>4 DEF Made

\* Then the receipt says who allowed it.
LEMMA ReceiptKeeps ==
  ASSUME C!Assumptions, CInv, NEW h \in Helping, C!WriteReceipt(h)
  PROVE  Locked' /\ InOrder' /\ Settled' /\ Done'
<1>1. /\ C!Stage(h, "receipt", Ask[h], "again") /\ "again" \in Behind
      /\ \A f \in {"predecessor", "erroneous", "stage", "receipt"} : f \in C!Files
      /\ Ask[h] \in Heads \cup {Bad}
  BY DEF C!WriteReceipt, Behind, C!Files, C!Assumptions
<1>m. Made(h, "receipt", Ask[h], "again")
  BY <1>1, StageIs
<1>2. /\ at[h] = "receipt" /\ h \in lock /\ UNCHANGED ledger /\ ledger = C!Erroneous
      /\ C!Whole("stage") /\ kept["stage"].by = Ask[h]
  BY <1>m DEF Made, CInv, Done, Behind
<1>3. CASE C!Answer(h, "refused") /\ UNCHANGED kept
  BY <1>2, <1>3, GivesUp
<1>4. CASE /\ \/ UNCHANGED at
              \/ /\ at'[h] = "again" /\ \A g \in Helping : g # h => at'[g] = at[g]
                 /\ kept'["receipt"].whole
           /\ UNCHANGED lock /\ kept'["receipt"] # None /\ kept'["receipt"].by = Ask[h]
           /\ \A g \in C!Files : g # "receipt" => kept'[g] = kept[g]
  <2>1. Locked'
    BY <1>1, <1>2, <1>4 DEF CInv, Locked, Behind
  <2>2. InOrder' /\ Settled'
    BY <1>1, <1>2, <1>4 DEF CInv, InOrder, Settled, Done, C!There, C!Whole
  <2>3. \A g \in Helping : g # h => at[g] \notin Behind
    BY <1>2, AloneThere
  <2>4. Done'
    BY <1>1, <1>2, <1>4, <2>3 DEF CInv, Done, Behind, C!There, C!Whole, C!Receipt
  <2> QED BY <2>1, <2>2, <2>4
<1> QED BY <1>m, <1>3, <1>4 DEF Made

\* The corrected ledger is installed and its evidence stays.
LEMMA ReplaceKeeps ==
  ASSUME C!Assumptions, CInv, NEW h \in Helping, C!Replace(h)
  PROVE  /\ Locked' /\ InOrder' /\ Settled' /\ Done'
         /\ ledger = C!Erroneous /\ ledger' = C!Corrected(Ask[h]) /\ h \in lock
         /\ kept' \in [C!Files -> {None} \cup C!Kept]
         /\ \A f \in C!Files : f # "stage" => kept'[f] = kept[f]
<1>1. \A f \in {"predecessor", "erroneous", "stage", "receipt"} : f \in C!Files
  BY DEF C!Files
<1>2. /\ at[h] = "replace" /\ h \in lock /\ UNCHANGED lock /\ ledger = C!Erroneous
      /\ C!Whole("stage") /\ kept["stage"].by = Ask[h] /\ C!Receipt(Ask[h]) /\ h \in Granted
  BY DEF C!Replace, CInv, Locked, Done, Behind
<1>3. /\ at'[h] = "final" /\ \A g \in Helping : g # h => at'[g] = at[g]
  BY Gone DEF C!Replace, CInv, C!Steps
<1>4. /\ kept' \in [C!Files -> {None} \cup C!Kept] /\ kept'["stage"] = None
      /\ \A g \in C!Files : g # "stage" => kept'[g] = kept[g]
  BY <1>1, FileSet DEF C!Replace, CInv
<1>5. ledger' = C!Corrected(Ask[h]) /\ Ask[h] # Bad
  BY <1>2 DEF C!Replace, C!Assumptions
<1>6. /\ ledger'.head = Ask[h] /\ ledger'.generation = 3 /\ ledger' # C!Erroneous
      /\ ledger.generation = 2
  BY <1>2, <1>5 DEF C!Corrected, C!Erroneous
<1>7. Locked'
  BY <1>2, <1>3 DEF CInv, Locked, Behind
<1>8. InOrder'
  BY <1>6 DEF InOrder, C!Erroneous
<1>9. Settled'
  BY <1>1, <1>2, <1>4, <1>5, <1>6 DEF CInv, InOrder, Settled, C!There, C!Whole, C!Receipt
<1>10. \A g \in Helping : g # h => at[g] \notin Behind
  BY <1>2, AloneThere
<1>11. Done'
  <2>1. \A g \in Helping : g # h => at[g] # "done"
    BY <1>6 DEF CInv, Done
  <2> QED BY <1>2, <1>3, <1>5, <1>6, <1>10, <2>1 DEF CInv, Done, Behind, C!Corrected
<1> QED BY <1>2, <1>4, <1>5, <1>7, <1>8, <1>9, <1>11


\* Before the locks nothing of the correction is touched.
LEMMA BeforeKeeps ==
  ASSUME C!Assumptions, CInv, NEW h \in Helping, C!Inspect(h) \/ C!Prove(h) \/ C!Lock(h)
  PROVE  Locked' /\ InOrder' /\ Settled' /\ Done'
<1>1. UNCHANGED <<ledger, kept>>
  BY DEF C!Inspect, C!Prove, C!Lock
<1>2. InOrder' /\ Settled'
  BY <1>1 DEF CInv, InOrder, Settled, C!There, C!Whole, C!Receipt
<1>3. CASE C!Inspect(h)
  <2>1. PICK step \in {"refused", "lock", "prove"} :
          C!Go(h, step) /\ (step # "refused" => h \in Granted)
    BY <1>3 DEF C!Inspect, C!Authorized
  <2>2. /\ at'[h] = step /\ \A g \in Helping : g # h => at'[g] = at[g]
    BY <2>1, Gone DEF CInv, C!Steps, C!Answers
  <2>3. at[h] = "idle" /\ UNCHANGED lock
    BY <1>3 DEF C!Inspect
  <2>4. Locked'
    BY <2>2, <2>3 DEF CInv, Locked, Behind
  <2>5. Done'
    BY <1>1, <2>1, <2>2 DEF CInv, Done, Behind, C!There, C!Whole, C!Receipt
  <2> QED BY <1>2, <2>4, <2>5
<1>4. CASE C!Prove(h)
  <2>1. PICK step \in {"refused", "lock"} : C!Go(h, step)
    BY <1>4 DEF C!Prove
  <2>2. /\ at'[h] = step /\ \A g \in Helping : g # h => at'[g] = at[g]
    BY <2>1, Gone DEF CInv, C!Steps, C!Answers
  <2>3. at[h] = "prove" /\ UNCHANGED lock /\ h \in Granted
    BY <1>4 DEF C!Prove, CInv, Done
  <2>4. Locked'
    BY <2>2, <2>3 DEF CInv, Locked, Behind
  <2>5. Done'
    BY <1>1, <2>2, <2>3 DEF CInv, Done, Behind, C!There, C!Whole, C!Receipt
  <2> QED BY <1>2, <2>4, <2>5
<1>5. CASE C!Lock(h)
  <2>1. at[h] = "lock" /\ lock = {} /\ h \in Granted
    BY <1>5 DEF C!Lock, CInv, Done
  <2>2. CASE C!Answer(h, "refused")
    BY <1>1, <2>2, GivesUp
  <2>3. CASE C!Answer(h, "done") /\ ledger = C!Corrected(Ask[h])
    <3>1. /\ at'[h] = "done" /\ \A g \in Helping : g # h => at'[g] = at[g]
      BY <2>3, Gone DEF CInv, C!Answer, C!Answers
    <3>2. UNCHANGED lock
      BY <2>1, <2>3 DEF C!Answer
    <3>3. Locked'
      BY <2>1, <3>1, <3>2 DEF CInv, Locked, Behind
    <3>4. ledger.head = Ask[h] /\ ledger.generation >= 3
      BY <2>3 DEF C!Corrected
    <3>5. Done'
      BY <1>1, <2>1, <3>1, <3>4 DEF CInv, Done, Behind, C!There, C!Whole, C!Receipt
    <3> QED BY <1>2, <3>3, <3>5
  <2>4. CASE ledger = C!Erroneous /\ lock' = {h} /\ C!Go(h, "predecessor")
    <3>1. /\ at'[h] = "predecessor" /\ \A g \in Helping : g # h => at'[g] = at[g]
      BY <2>4, Gone DEF CInv, C!Steps
    <3>2. Locked'
      BY <2>1, <2>4, <3>1 DEF CInv, Locked, Behind
    <3>3. Done'
      BY <1>1, <2>1, <2>4, <3>1 DEF CInv, Done, Behind, C!There, C!Whole, C!Receipt
    <3> QED BY <1>2, <3>2, <3>3
  <2> QED BY <1>5, <2>2, <2>3, <2>4 DEF C!Lock
<1> QED BY <1>3, <1>4, <1>5

\* The head is proved once more, or the helper gives up.
LEMMA AgainKeeps ==
  ASSUME C!Assumptions, CInv, NEW h \in Helping, C!ProveAgain(h)
  PROVE  Locked' /\ InOrder' /\ Settled' /\ Done'
<1>1. UNCHANGED <<ledger, kept>> /\ at[h] = "again"
  BY DEF C!ProveAgain
<1>2. CASE C!Answer(h, "refused")
  BY <1>1, <1>2, GivesUp
<1>3. CASE C!Go(h, "replace") /\ UNCHANGED lock
  <2>1. /\ at'[h] = "replace" /\ \A g \in Helping : g # h => at'[g] = at[g]
    BY <1>3, Gone DEF CInv, C!Steps
  <2>2. Locked'
    BY <1>1, <1>3, <2>1 DEF CInv, Locked, Behind
  <2>3. InOrder' /\ Settled'
    BY <1>1 DEF CInv, InOrder, Settled, C!There, C!Whole, C!Receipt
  <2>4. Done'
    BY <1>1, <2>1 DEF CInv, Done, Behind, C!There, C!Whole, C!Receipt
  <2> QED BY <2>2, <2>3, <2>4
<1> QED BY <1>2, <1>3 DEF C!ProveAgain

\* The last look at the root answers, behind the locks still.
LEMMA LastKeeps ==
  ASSUME C!Assumptions, CInv, NEW h \in Helping, C!Final(h)
  PROVE  Locked' /\ InOrder' /\ Settled' /\ Done'
<1>1. UNCHANGED <<ledger, kept>> /\ at[h] = "final" /\ h \in Granted /\ ledger = C!Corrected(Ask[h])
  BY DEF C!Final, CInv, Done, Behind
<1>2. CASE C!Answer(h, "refused")
  BY <1>1, <1>2, GivesUp
<1>3. CASE C!Answer(h, "done")
  <2>1. /\ at'[h] = "done" /\ \A g \in Helping : g # h => at'[g] = at[g]
        /\ lock' = lock \ {h}
    BY <1>3, Gone DEF CInv, C!Answer, C!Answers
  <2>2. Locked'
    BY <2>1 DEF CInv, Locked, Behind
  <2>3. InOrder' /\ Settled'
    BY <1>1 DEF CInv, InOrder, Settled, C!There, C!Whole, C!Receipt
  <2>4. ledger.head = Ask[h] /\ ledger.generation >= 3
    BY <1>1 DEF C!Corrected
  <2>5. Done'
    BY <1>1, <2>1, <2>4 DEF CInv, Done, Behind, C!There, C!Whole, C!Receipt
  <2> QED BY <2>2, <2>3, <2>5
<1> QED BY <1>2, <1>3 DEF C!Final

\* A helper that is killed or calls again, and a commit, touch nothing of a correction.
LEMMA AroundKeeps ==
  ASSUME C!Assumptions, CInv, NEW h \in Helping, C!Retry(h) \/ C!Kill(h)
  PROVE  Locked' /\ InOrder' /\ Settled' /\ Done'
<1>1. CASE C!Kill(h)
  BY <1>1, GivesUp DEF C!Kill
<1>2. CASE C!Retry(h)
  <2>1. /\ at'[h] = "idle" /\ \A g \in Helping : g # h => at'[g] = at[g]
    BY <1>2, Gone DEF CInv, C!Retry, C!Steps
  <2>2. at[h] \in {"killed", "refused"} /\ UNCHANGED <<ledger, kept, lock>>
    BY <1>2 DEF C!Retry
  <2>3. Locked'
    BY <2>1, <2>2 DEF CInv, Locked, Behind
  <2>4. InOrder' /\ Settled'
    BY <2>2 DEF CInv, InOrder, Settled, C!There, C!Whole, C!Receipt
  <2>5. Done'
    BY <2>1, <2>2 DEF CInv, Done, Behind, C!There, C!Whole, C!Receipt
  <2> QED BY <2>3, <2>4, <2>5
<1> QED BY <1>1, <1>2

\* Another update of the ledger comes only where nothing is pending.
LEMMA UpdateKeeps ==
  ASSUME C!Assumptions, CInv, C!Update
  PROVE  /\ Locked' /\ InOrder' /\ Settled' /\ Done'
         /\ ledger' \in [generation : 2 .. MaxGen, head : Heads \cup {Bad}]
         /\ ledger'.generation = ledger.generation + 1 /\ ledger'.head = ledger.head
<1>1. UNCHANGED <<kept, lock, at>> /\ lock = {} /\ ~C!Pending
  BY DEF C!Update
<1>2. /\ ledger \in [generation : 2 .. MaxGen, head : Heads \cup {Bad}] /\ MaxGen \in Nat
      /\ ledger.generation < MaxGen
  BY DEF CInv, C!TypeOK, C!Update, C!Assumptions
<1>3. /\ ledger' \in [generation : 2 .. MaxGen, head : Heads \cup {Bad}]
      /\ ledger'.generation = ledger.generation + 1 /\ ledger'.head = ledger.head
  BY <1>2 DEF C!Update
<1>4. ledger' # C!Erroneous /\ ledger'.generation >= 3
  BY <1>2, <1>3 DEF C!Erroneous
<1>5. Locked' /\ InOrder'
  BY <1>1, <1>4 DEF CInv, Locked, InOrder, C!Erroneous
<1>6. Settled'
  <2>1. CASE ledger = C!Erroneous
    <3>1. \A f \in C!Files : ~C!There(f)
      BY <1>1, <2>1 DEF C!Pending
    <3>2. ledger'.head = Bad
      BY <1>3, <2>1 DEF C!Erroneous
    <3> QED BY <1>1, <1>4, <3>1, <3>2 DEF Settled, C!There
  <2>2. CASE ledger # C!Erroneous
    BY <1>1, <1>3, <1>4, <2>2 DEF CInv, Settled, C!There, C!Whole, C!Receipt
  <2> QED BY <2>1, <2>2
<1>7. \A h \in Helping : at[h] \notin Behind
  BY <1>1 DEF CInv, Locked
<1>8. Done'
  BY <1>1, <1>2, <1>3, <1>4, <1>7 DEF CInv, Done, Behind, C!There, C!Whole, C!Receipt
<1> QED BY <1>3, <1>5, <1>6, <1>8

\* Every step keeps the types.
LEMMA CTypesKept ==
  ASSUME C!Assumptions, CInv, [C!Next]_C!vars
  PROVE  C!TypeOK'
<1> DEFINE Gens == [generation : 2 .. MaxGen, head : Heads \cup {Bad}]
           Spending == [kill : 0 .. MaxKill, retry : 0 .. MaxRetry, move : 0 .. MaxMove]
<1>1. CASE UNCHANGED C!vars
  BY <1>1 DEF C!vars, CInv, C!TypeOK
<1>2. ASSUME NEW h \in Helping,
             C!Inspect(h) \/ C!Prove(h) \/ C!Lock(h) \/ C!ProveAgain(h) \/ C!Final(h)
      PROVE  C!TypeOK'
  <2>1. UNCHANGED <<ledger, kept, live, costs>>
    BY <1>2 DEF C!Inspect, C!Prove, C!Lock, C!ProveAgain, C!Final
  <2>2. PICK step \in C!Steps \cup C!Answers : C!Go(h, step)
    BY <1>2 DEF C!Inspect, C!Prove, C!Lock, C!ProveAgain, C!Final, C!Answer, C!Steps, C!Answers
  <2>3. lock' \in SUBSET Helping
    BY <1>2 DEF C!Inspect, C!Prove, C!Lock, C!ProveAgain, C!Final, C!Answer, CInv, C!TypeOK
  <2>4. seen' \in [Helping -> Gens]
    BY <1>2 DEF C!Inspect, C!Prove, C!Lock, C!ProveAgain, C!Final, CInv, C!TypeOK
  <2> QED BY <2>1, <2>2, <2>3, <2>4, Gone DEF CInv, C!TypeOK
<1>3. ASSUME NEW h \in Helping, NEW f \in {"predecessor", "stage", "receipt"},
             NEW by \in Heads \cup {Bad}, NEW step \in Behind, C!Stage(h, f, by, step)
      PROVE  C!TypeOK'
  <2>1. Made(h, f, by, step)
    BY <1>3, StageIs
  <2>2. UNCHANGED <<ledger, live, seen, costs>>
    BY <1>3 DEF C!Stage
  <2>3. kept' \in [C!Files -> {None} \cup C!Kept]
    BY <2>1 DEF Made, CInv, C!TypeOK
  <2>4. at' \in [Helping -> C!Steps \cup C!Answers] /\ lock' \in SUBSET Helping
    <3>1. CASE C!Answer(h, "refused")
      BY <3>1, Gone DEF C!Answer, C!Answers, CInv, C!TypeOK
    <3> QED BY <2>1, <3>1 DEF Made, CInv, C!TypeOK
  <2> QED BY <2>2, <2>3, <2>4 DEF CInv, C!TypeOK
<1>4. ASSUME NEW h \in Helping, C!KeepErroneous(h)
      PROVE  C!TypeOK'
  <2>1. [whole |-> TRUE, by |-> Bad] \in C!Kept /\ "erroneous" \in C!Files /\ "stage" \in C!Steps
    BY DEF C!Kept, C!Files, C!Steps
  <2>2. kept' \in [C!Files -> {None} \cup C!Kept]
    BY <1>4, <2>1, FileSet DEF C!KeepErroneous, CInv
  <2>3. at' \in [Helping -> C!Steps \cup C!Answers]
    BY <1>4, <2>1, Gone DEF C!KeepErroneous, CInv
  <2> QED BY <1>4, <2>2, <2>3 DEF C!KeepErroneous, CInv, C!TypeOK
<1>5. ASSUME NEW h \in Helping, C!Replace(h)
      PROVE  C!TypeOK'
  <2>1. ledger' = C!Corrected(Ask[h]) /\ kept' \in [C!Files -> {None} \cup C!Kept]
    BY <1>5, ReplaceKeeps
  <2>2. ledger' \in Gens
    BY <2>1 DEF C!Corrected, C!Assumptions
  <2>3. at' \in [Helping -> C!Steps \cup C!Answers]
    BY <1>5, Gone DEF C!Replace, C!Steps, CInv
  <2> QED BY <1>5, <2>1, <2>2, <2>3 DEF C!Replace, CInv, C!TypeOK
<1>6. ASSUME NEW h \in Helping, C!Retry(h) \/ C!Kill(h)
      PROVE  C!TypeOK'
  <2>1. UNCHANGED <<ledger, kept, live, seen>>
    BY <1>6 DEF C!Retry, C!Kill
  <2>2. PICK step \in C!Steps \cup C!Answers : C!Go(h, step)
    BY <1>6 DEF C!Retry, C!Kill, C!Answer, C!Steps, C!Answers
  <2>3. lock' \in SUBSET Helping
    BY <1>6 DEF C!Retry, C!Kill, C!Answer, CInv, C!TypeOK
  <2>4. costs' \in Spending
    BY <1>6 DEF C!Retry, C!Kill, CInv, C!TypeOK, C!Assumptions
  <2> QED BY <2>1, <2>2, <2>3, <2>4, Gone DEF CInv, C!TypeOK
<1>7. CASE C!Commit
  <2>1. costs' \in Spending
    BY <1>7 DEF C!Commit, CInv, C!TypeOK, C!Assumptions
  <2> QED BY <1>7, <2>1 DEF C!Commit, CInv, C!TypeOK
<1>8. CASE C!Update
  BY <1>8, UpdateKeeps DEF C!Update, CInv, C!TypeOK
<1>9. ASSUME NEW h \in Helping, C!Correct(h)
      PROVE  C!TypeOK'
  <2>1. \A step \in {"erroneous", "receipt", "again"} : step \in Behind
    BY DEF Behind
  <2>2. Ask[h] \in Heads \cup {Bad}
    BY DEF C!Assumptions
  <2>3. CASE C!KeepPredecessor(h) \/ C!StageCorrected(h) \/ C!WriteReceipt(h)
    BY <1>3, <2>1, <2>2, <2>3 DEF C!KeepPredecessor, C!StageCorrected, C!WriteReceipt
  <2> QED BY <1>2, <1>4, <1>5, <1>9, <2>3 DEF C!Correct
<1> QED BY <1>1, <1>6, <1>7, <1>8, <1>9 DEF C!Next

\* Every step keeps the invariant.
LEMMA CInvKept ==
  ASSUME C!Assumptions, CInv, [C!Next]_C!vars
  PROVE  CInv'
<1>1. C!TypeOK'
  BY CTypesKept
<1>2. Locked' /\ InOrder' /\ Settled' /\ Done'
  <2>1. CASE UNCHANGED C!vars
    BY <2>1 DEF C!vars, CInv, Locked, InOrder, Settled, Done, C!There, C!Whole, C!Receipt
  <2>2. ASSUME NEW h \in Helping, C!Correct(h)
        PROVE  Locked' /\ InOrder' /\ Settled' /\ Done'
    BY <2>2, BeforeKeeps, PredecessorKeeps, ErroneousKeeps, CStageKeeps, ReceiptKeeps, AgainKeeps,
       ReplaceKeeps, LastKeeps DEF C!Correct
  <2>3. ASSUME NEW h \in Helping, C!Retry(h) \/ C!Kill(h)
        PROVE  Locked' /\ InOrder' /\ Settled' /\ Done'
    BY <2>3, AroundKeeps
  <2>4. CASE C!Commit
    BY <2>4 DEF C!Commit, CInv, Locked, InOrder, Settled, Done, C!There, C!Whole, C!Receipt
  <2>5. CASE C!Update
    BY <2>5, UpdateKeeps
  <2> QED BY <2>1, <2>2, <2>3, <2>4, <2>5 DEF C!Next
<1> QED BY <1>1, <1>2 DEF CInv

\* Its parts hold of every state of every correction.
THEOREM CorrectionInvariant ==
  ASSUME C!Assumptions
  PROVE  C!Spec => []CInv
<1>1. C!Init => CInv
  <2> SUFFICES ASSUME C!Init
               PROVE  CInv
    OBVIOUS
  <2>1. C!TypeOK
    BY DEF C!Init, C!TypeOK, C!Erroneous, C!Steps, C!Assumptions
  <2>2. Locked
    BY DEF C!Init, Locked, Behind
  <2>3. InOrder
    BY DEF C!Init, InOrder, C!There, C!Files
  <2> QED BY <2>1, <2>2, <2>3 DEF C!Init, CInv, Settled, Done, Behind
<1>2. CInv /\ [C!Next]_C!vars => CInv'
  BY CInvKept
<1> QED BY <1>1, <1>2, PTL DEF C!Spec

\* A ledger has another head only beside the whole evidence.
THEOREM CorrectionErasesNothing ==
  ASSUME C!Assumptions
  PROVE  C!Spec => []C!NothingErased
<1>1. CInv => C!NothingErased
  BY DEF CInv, Settled, C!NothingErased, C!Erroneous
<1> QED BY <1>1, CorrectionInvariant, PTL

\* What a killed helper left locks nobody out and is gone on with.
THEOREM CorrectionIsResumed ==
  ASSUME C!Assumptions
  PROVE  C!Spec => []C!LeftoversAreResumed
<1>1. CInv => C!LeftoversAreResumed
  <2> SUFFICES ASSUME CInv
               PROVE  C!LeftoversAreResumed
    OBVIOUS
  <2>1. \A f \in {"predecessor", "erroneous", "stage", "receipt"} : f \in C!Files
    BY DEF C!Files
  <2>2. C!Readable
    BY <2>1 DEF CInv, InOrder, Settled, C!Readable, C!Whole
  <2>3. ASSUME C!Pending, C!There("stage")
        PROVE  /\ C!There("receipt") => kept["receipt"].by = kept["stage"].by
               /\ C!Whole("predecessor") /\ C!There("erroneous")
    BY <2>3 DEF CInv, InOrder, C!Pending
  <2> QED BY <2>1, <2>2, <2>3 DEF C!LeftoversAreResumed
<1> QED BY <1>1, CorrectionInvariant, PTL

\* Who is told that it is corrected finds its own head in the ledger.
THEOREM CorrectionAnswersAreTrue ==
  ASSUME C!Assumptions
  PROVE  C!Spec => []C!AnswersAreTrue
<1>1. CInv => C!AnswersAreTrue
  BY DEF CInv, Locked, Done, C!AnswersAreTrue, Behind
<1> QED BY <1>1, CorrectionInvariant, PTL

\* A head is corrected once, by whoever proved it behind the locks, beside evidence that stays.
THEOREM HeadCorrectedOnce ==
  ASSUME C!Assumptions
  PROVE  C!Spec => [][C!CorrectedOnce]_C!vars
<1>1. CInv /\ [C!Next]_C!vars => [C!CorrectedOnce]_C!vars
  <2> SUFFICES ASSUME CInv, C!Next
               PROVE  C!CorrectedOnce
    BY DEF C!vars
  <2>1. \A f \in {"predecessor", "erroneous", "stage", "receipt"} : f \in C!Files
    BY DEF C!Files
  <2>2. ASSUME NEW h \in Helping, C!Replace(h)
        PROVE  C!CorrectedOnce
    <3>1. /\ ledger = C!Erroneous /\ ledger' = C!Corrected(Ask[h]) /\ h \in lock
          /\ \A f \in C!Files : f # "stage" => kept'[f] = kept[f]
      BY <2>2, ReplaceKeeps
    <3>2. ledger'.generation = ledger.generation + 1 /\ ledger'.head = Ask[h]
      BY <3>1 DEF C!Erroneous, C!Corrected
    <3>3. at[h] = "replace"
      BY <2>2 DEF C!Replace
    <3> QED BY <2>1, <3>1, <3>2, <3>3 DEF C!CorrectedOnce
  <2>3. CASE C!Update
    BY <2>3, UpdateKeeps DEF C!Update, C!CorrectedOnce
  <2>4. CASE C!Commit
    BY <2>4 DEF C!Commit, C!CorrectedOnce
  <2>5. ASSUME NEW h \in Helping, \/ C!Inspect(h) \/ C!Prove(h) \/ C!Lock(h) \/ C!ProveAgain(h)
                                  \/ C!Final(h) \/ C!Retry(h) \/ C!Kill(h)
        PROVE  C!CorrectedOnce
    BY <2>5 DEF C!Inspect, C!Prove, C!Lock, C!ProveAgain, C!Final, C!Retry, C!Kill, C!CorrectedOnce
  <2>6. ASSUME NEW h \in Helping, C!KeepErroneous(h)
        PROVE  C!CorrectedOnce
    <3>1. UNCHANGED ledger /\ kept' = [kept EXCEPT !["erroneous"] = [whole |-> TRUE, by |-> Bad]]
      BY <2>6 DEF C!KeepErroneous
    <3>2. [whole |-> TRUE, by |-> Bad] \in C!Kept
      BY DEF C!Kept
    <3>3. /\ kept'["erroneous"] = [whole |-> TRUE, by |-> Bad]
          /\ \A g \in C!Files : g # "erroneous" => kept'[g] = kept[g]
      BY <2>1, <3>1, <3>2, FileSet DEF CInv
    <3>4. C!Whole("erroneous") => kept["erroneous"] = [whole |-> TRUE, by |-> Bad]
      <4>1. at[h] \in Behind \ {"final"}
        BY <2>6 DEF C!KeepErroneous, Behind
      <4>2. C!Whole("erroneous") => kept["erroneous"].whole /\ kept["erroneous"].by = Bad
        BY <4>1 DEF CInv, Done, InOrder, C!Whole
      <4>3. C!Whole("erroneous") => kept["erroneous"] \in C!Kept
        BY <2>1 DEF CInv, C!TypeOK, C!Whole, C!There
      <4> QED BY <4>2, <4>3 DEF C!Kept
    <3> QED BY <2>1, <3>1, <3>3, <3>4 DEF C!CorrectedOnce
  <2>7. ASSUME NEW h \in Helping, NEW f \in {"predecessor", "stage", "receipt"},
               NEW by \in Heads \cup {Bad}, NEW step \in Behind, C!Stage(h, f, by, step)
        PROVE  C!CorrectedOnce
    <3>1. Made(h, f, by, step)
      BY <2>7, StageIs
    <3>2. UNCHANGED ledger /\ \A g \in C!Files : g # f => kept'[g] = kept[g]
      BY <3>1 DEF Made
    <3>3. C!Whole(f) => kept'[f] = kept[f]
      <4>1. C!Whole(f) => kept[f] \in C!Kept /\ kept[f].whole
        BY <2>1 DEF CInv, C!TypeOK, C!Whole, C!There
      <4>2. C!Whole(f) /\ kept[f].by = by => kept[f] = [whole |-> TRUE, by |-> by]
        BY <4>1 DEF C!Kept
      <4> QED BY <3>1, <4>2 DEF Made, C!Whole
    <3> QED BY <2>1, <3>2, <3>3 DEF C!CorrectedOnce
  <2>8. ASSUME NEW h \in Helping, C!Correct(h)
        PROVE  C!CorrectedOnce
    <3>1. \A step \in {"erroneous", "receipt", "again"} : step \in Behind
      BY DEF Behind
    <3>2. Ask[h] \in Heads \cup {Bad}
      BY DEF C!Assumptions
    <3>3. CASE C!KeepPredecessor(h) \/ C!StageCorrected(h) \/ C!WriteReceipt(h)
      BY <2>7, <3>1, <3>2, <3>3 DEF C!KeepPredecessor, C!StageCorrected, C!WriteReceipt
    <3> QED BY <2>2, <2>5, <2>6, <2>8, <3>3 DEF C!Correct
  <2> QED BY <2>3, <2>4, <2>5, <2>8 DEF C!Next
<1> QED BY <1>1, CorrectionInvariant, PTL DEF C!Spec

===============================================================================
