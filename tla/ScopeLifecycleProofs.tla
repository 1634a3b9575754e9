------------------------- MODULE ScopeLifecycleProofs -------------------------
(***************************************************************************)
(* Proofs about ScopeLifecycle, for any checkouts, builds, failures, kills *)
(* and users.  No step of a command throws work away, and a scope on       *)
(* record is whole.  Where no command fails between an effect and its      *)
(* note, a profile is backed and a scope that is rolled back is gone.  What*)
(* a rollback preserves keeps its branch.  A release removes the builds    *)
(* that were shown, and what its journal calls done is gone.               *)
(***************************************************************************)
EXTENDS ScopeLifecycle, TLAPS

Forward == {"reserve", "add", "note row", "publish", "note reference", "write profile",
            "note profile", "record"}
Backward == {"undo profile", "undo reference", "undo row", "undo tree", "undo branch", "undone"}
Creating == Forward \cup Backward \cup {"complete"}
Releasing == {"journal", "evidence", "next", "build", "remove build", "profile", "unlink profile",
              "remove reference", "tree", "remove tree", "remove branch", "finish"}

CreateCommand == [at : Creating, row : Rows, profiled : BOOLEAN, referenced : BOOLEAN,
                  uncertain : BOOLEAN, retries : BOOLEAN]
ReleaseCommand == [at : Releasing, action : Nat]

Statuses == {"none", "bare", "creating", "rolling back", "rolled back", "recovering",
             "recovery required", "complete"}
RowStatuses == {"planned", "created", "rolled back", "preserved"}
ProfileStatuses == {"planned", "reference-published", "created", "rolled back", "preserved"}
Journals == [status : Statuses, row : [Rows -> RowStatuses], profile : ProfileStatuses]

Types ==
  /\ journal \in Journals
  /\ record \in BOOLEAN /\ profile \in BOOLEAN /\ ref \in BOOLEAN
  /\ tree \in [Rows -> {"none", "clean", "dirty", "half"}]
  /\ branch \in [Rows -> Nat]
  /\ cmd = Idle \/ cmd \in CreateCommand \/ cmd \in ReleaseCommand
  /\ DOMAIN release = {"status", "plan", "done", "phase"}

-----------------------------------------------------------------------------
(* What a command knows where it is *)

Stands(r) == tree[r] # "none" /\ branch[r] # NoBranch
Built == \A r \in Rows : Stands(r)

\* What a creation has published by then, whatever users do meanwhile.
Published ==
  /\ cmd.at = "reserve" => cmd.row = 1
  /\ cmd.at = "add" => \A r \in Rows : r < cmd.row => Stands(r)
  /\ cmd.at = "note row" => \A r \in Rows : r <= cmd.row => Stands(r)
  /\ cmd.at \in {"publish", "note reference", "write profile", "note profile", "record"} => Built
  /\ cmd.at \in {"note reference", "write profile", "note profile", "record"} => ref
  /\ cmd.at \in {"note profile", "record"} => profile
  /\ cmd.at = "undo branch" => tree[cmd.row] = "none"

\* Where the record is published, and what stands then.
Recorded ==
  /\ journal.status = "none" => ~record
  /\ cmd.at \in Creating => journal.status # "none"
  /\ cmd.at \in Forward \cup Backward => ~record
  /\ cmd.at \in Releasing => record
  /\ cmd.at \in Releasing \ {"journal"} => release.status # "none"
  /\ RecordIsWhole

SInv == Types /\ Published /\ Recorded

-----------------------------------------------------------------------------
(* What a failed creation has still to take back *)

Unnoted(r) == journal.row[r] # "created" => tree[r] = "none"

Unpublished ==
  /\ cmd.at \in Forward \ {"note profile", "record"} => ~profile
  /\ cmd.at \in {"reserve", "add", "note row", "publish"} => ~ref
  /\ cmd.at = "write profile" => cmd.referenced
  /\ cmd.at = "record" => cmd.profiled
  /\ cmd.at = "undo profile" => (profile => cmd.profiled)
  /\ cmd.at \in {"undo profile", "undo reference"} => (ref => cmd.profiled \/ cmd.referenced)
  /\ cmd.at = "undo reference" => ~profile
  /\ (cmd.at \in {"undo row", "undone"} /\ ~cmd.uncertain) => ~Referenced
  /\ cmd.at \in {"undo tree", "undo branch", "remove tree"} => ~Referenced
  /\ cmd.at \in {"remove reference", "remove branch"} => ~profile

\* The rows: what is not noted was not added, and what was passed is gone.
Rowed ==
  /\ (cmd.at \in Forward \ {"note row"} /\ ~cmd.retries) => \A r \in Rows : Unnoted(r)
  /\ (cmd.at = "note row" /\ ~cmd.retries) => \A r \in Rows : r # cmd.row => Unnoted(r)
  /\ cmd.at \in {"undo profile", "undo reference"} => \A r \in Rows : Unnoted(r)
  /\ cmd.at \in {"undo row", "undo tree", "undo branch"} => \A r \in Rows : r <= cmd.row => Unnoted(r)
  /\ (cmd.at \in {"undo row", "undo tree", "undo branch"} /\ ~cmd.uncertain) =>
       \A r \in Rows : r > cmd.row => tree[r] = "none"
  /\ (cmd.at = "undone" /\ ~cmd.uncertain) => \A r \in Rows : tree[r] = "none"

RolledBack ==
  /\ cmd.at \in Creating => journal.status # "rolled back"
  /\ topology.state # "none" => record
  /\ journal.status = "rolled back" => ~record
  /\ RolledBackIsClean

UInv == ProfileIsBacked /\ Unpublished /\ Rowed /\ RolledBack

-----------------------------------------------------------------------------
(* Which command it is, and what moving on leaves of it *)

\* The commands differ by their stations: none is of two of them.
LEMMA Stations ==
  ASSUME Types
  PROVE  /\ cmd.at \in Creating => cmd \in CreateCommand
         /\ cmd.at \in Releasing => cmd \in ReleaseCommand
         /\ cmd.at = "idle" => cmd = Idle
         /\ cmd \in CreateCommand => cmd.at \in Creating /\ cmd.row \in Rows
         /\ cmd \in ReleaseCommand => cmd.at \in Releasing
         /\ cmd = Idle => cmd.at = "idle"
<1>1. \A s \in Creating : s \notin Releasing /\ s # "idle"
  BY DEF Creating, Forward, Backward, Releasing
<1>2. "idle" \notin Releasing
  BY DEF Releasing
<1>3. cmd \in CreateCommand => cmd.at \in Creating /\ cmd.row \in Rows
  BY DEF CreateCommand
<1>4. cmd \in ReleaseCommand => cmd.at \in Releasing
  BY DEF ReleaseCommand
<1>5. cmd = Idle => cmd.at = "idle"
  BY DEF Idle
<1>6. cmd = Idle \/ cmd \in CreateCommand \/ cmd \in ReleaseCommand
  BY DEF Types
<1>. QED
  BY <1>1, <1>2, <1>3, <1>4, <1>5, <1>6

\* The creation at another station, otherwise as it was.
Moved(station) ==
  /\ cmd' \in CreateCommand /\ cmd'.at = station /\ cmd'.row = cmd.row
  /\ cmd'.profiled = cmd.profiled /\ cmd'.referenced = cmd.referenced
  /\ cmd'.uncertain = cmd.uncertain /\ cmd'.retries = cmd.retries

\* A step of a creation leaves it a creation, at the station it goes to.
LEMMA Creates ==
  ASSUME cmd \in CreateCommand, NEW station \in Creating, Go(station)
  PROVE  Moved(station)
BY DEF Go, Moved, CreateCommand

\* A step of a release leaves it a release, at the station it goes to.
LEMMA Releases ==
  ASSUME cmd \in ReleaseCommand, NEW station \in Releasing, Go(station)
  PROVE  cmd' \in ReleaseCommand /\ cmd'.at = station
BY DEF Go, ReleaseCommand

\* What a command is when it starts.
LEMMA Begins ==
  ASSUME Assumptions, NEW station \in Creating, NEW retries \in BOOLEAN, Start(station, retries)
  PROVE  /\ cmd' \in CreateCommand /\ cmd'.at = station /\ cmd'.row = 1 /\ cmd'.retries = retries
         /\ ~cmd'.profiled /\ ~cmd'.referenced /\ ~cmd'.uncertain
<1>1. 1 \in Rows
  BY DEF Assumptions, Rows
<1>. QED
  BY <1>1 DEF Start, CreateCommand

\* The journal of the creation after a note of one of its parts.
LEMMA Noted ==
  ASSUME journal \in Journals
  PROVE  /\ \A status \in Statuses : Note(status) =>
              journal' \in Journals /\ journal'.status = status /\ journal'.row = journal.row
         /\ \A status \in ProfileStatuses : NoteProfile(status) =>
              journal' \in Journals /\ journal'.status = journal.status /\ journal'.row = journal.row
         /\ \A status \in RowStatuses : NoteRow(status) =>
              /\ journal' \in Journals /\ journal'.status = journal.status
              /\ \A r \in Rows : journal'.row[r] = IF r = cmd.row THEN status ELSE journal.row[r]
BY DEF Journals, Note, NoteProfile, NoteRow

-----------------------------------------------------------------------------
(* A creation goes forward *)

\* How the rows before one and after it are ordered.
LEMMA RowOrder ==
  ASSUME Assumptions, NEW k \in Rows
  PROVE  /\ k # N => k + 1 \in Rows
         /\ k # 1 => k - 1 \in Rows
         /\ N \in Rows /\ 1 \in Rows /\ k <= k
         /\ \A r \in Rows :
              /\ ~(r < 1) /\ r <= N /\ ~(r > N) /\ (r <= 1 => r = 1) /\ (r = 1 \/ r > 1)
              /\ r < k + 1 => r <= k
              /\ r <= k - 1 => r <= k /\ r # k
              /\ (r <= k /\ r # k) => r < k
              /\ r > k - 1 => r = k \/ r > k
BY DEF Assumptions, Rows

\* What is known where a creation is.
LEMMA CreateStation ==
  ASSUME SInv, NEW station \in Creating, At(station)
  PROVE  /\ cmd \in CreateCommand /\ cmd.at = station /\ cmd.row \in Rows
         /\ Types /\ Published /\ Recorded /\ journal \in Journals /\ journal.status # "none"
         /\ station # "complete" => ~record
<1>1. station # "complete" => station \in Forward \cup Backward
  BY DEF Creating
<1>. QED
  BY <1>1, Stations DEF SInv, At, Types, Recorded

\* A creation or a retry finds nothing, and starts from there.
LEMMA BeginningKeeps ==
  ASSUME Assumptions, SInv, CreateBegins \/ RetryBegins
  PROVE  SInv'
<1>1. PICK station \in {"reserve", "add"}, retries \in BOOLEAN, status \in {"bare", "recovering"} :
        /\ Start(station, retries) /\ Note(status)
        /\ UNCHANGED <<record, tree, branch, profile, ref, release>>
  BY DEF CreateBegins, RetryBegins, sources, reach
<1>2. station \in Creating /\ status \in Statuses
  BY DEF Creating, Forward, Statuses
<1>3. cmd' \in CreateCommand /\ cmd'.at = station /\ cmd'.row = 1
  BY <1>1, <1>2, Begins
<1>4. journal' \in Journals /\ journal'.status = status
  BY <1>1, <1>2, Noted DEF SInv, Types
<1>5. ~record
  BY DEF SInv, Recorded, CreateBegins, RetryBegins, Retryable
<1>6. Types'
  BY <1>1, <1>3, <1>4 DEF SInv, Types
<1>7. Published'
  <2>1. \A r \in Rows : ~(r < 1)
    BY RowOrder
  <2>. QED  BY <1>1, <1>3, <2>1 DEF Published
<1>8. Recorded'
  BY <1>1, <1>3, <1>4, <1>5 DEF Recorded, RecordIsWhole, Releasing
<1>. QED
  BY <1>6, <1>7, <1>8 DEF SInv

\* A scope that is not on record need not be whole.
LEMMA Unrecorded ==
  ASSUME Types', Published', ~record', cmd'.at \notin Releasing,
         cmd'.at \in Creating => journal'.status # "none"
  PROVE  SInv'
BY DEF SInv, Recorded, RecordIsWhole

\* The row that is added stands, and so do the rows before it.
LEMMA Adding ==
  ASSUME Assumptions, SInv, Reserve \/ AddWorktree \/ NoteWorktree
  PROVE  SInv'
<1>1. CASE Reserve
  <2>1. /\ cmd \in CreateCommand /\ cmd.at = "reserve" /\ Types /\ Published
        /\ journal \in Journals /\ journal.status # "none" /\ ~record
    <3>1. "reserve" \in Creating /\ At("reserve")
      BY <1>1 DEF Reserve, Creating, Forward
    <3>. QED  BY <3>1, CreateStation
  <2>2. Moved("add")
    BY <1>1, <2>1, Creates DEF Reserve, Creating, Forward
  <2>3. journal' \in Journals /\ journal'.status # "none"
    BY <1>1, <2>1, Noted DEF Reserve, Statuses
  <2>4. UNCHANGED <<record, tree, branch, profile, ref, release>>
    BY <1>1 DEF Reserve, sources, reach
  <2>5. Types'
    BY <2>1, <2>2, <2>3, <2>4 DEF Types, Moved
  <2>6. Published'
    <3>1. \A r \in Rows : ~(r < 1)
      BY RowOrder
    <3>. QED  BY <2>1, <2>2, <2>4, <3>1 DEF Published, Moved
  <2>. QED  BY <2>1, <2>2, <2>3, <2>4, <2>5, <2>6, Unrecorded DEF Moved, Releasing
<1>2. CASE AddWorktree
  <2>1. /\ cmd \in CreateCommand /\ cmd.at = "add" /\ cmd.row \in Rows /\ Types /\ Published
        /\ journal \in Journals /\ journal.status # "none" /\ ~record
    <3>1. "add" \in Creating /\ At("add")
      BY <1>2 DEF AddWorktree, Creating, Forward
    <3>. QED  BY <3>1, CreateStation
  <2>2. Moved("note row")
    BY <1>2, <2>1, Creates DEF AddWorktree, Creating, Forward
  <2>3. /\ tree' = [tree EXCEPT ![cmd.row] = "clean"]
        /\ branch' = [branch EXCEPT ![cmd.row] = Asked]
        /\ UNCHANGED <<journal, record, profile, ref, release>>
    BY <1>2 DEF AddWorktree, creation, reach
  <2>4. Types'
    BY <2>1, <2>2, <2>3 DEF Types, Moved, Asked
  <2>5. \A r \in Rows : r <= cmd.row => Stands(r)'
    <3>. SUFFICES ASSUME NEW r \in Rows, r <= cmd.row PROVE Stands(r)'
      OBVIOUS
    <3>1. CASE r = cmd.row
      BY <2>1, <2>3, <3>1 DEF Stands, Types, Asked, NoBranch
    <3>2. CASE r # cmd.row
      <4>1. r < cmd.row
        BY <2>1, <3>2, RowOrder
      <4>2. Stands(r)
        BY <2>1, <4>1 DEF Published
      <4>. QED  BY <2>1, <2>3, <3>2, <4>2 DEF Stands, Types
    <3>. QED  BY <3>1, <3>2
  <2>6. Published'
    BY <2>2, <2>5 DEF Published, Moved
  <2>. QED  BY <2>1, <2>2, <2>3, <2>4, <2>6, Unrecorded DEF Moved, Releasing
<1>3. CASE NoteWorktree
  <2>1. /\ cmd \in CreateCommand /\ cmd.at = "note row" /\ cmd.row \in Rows /\ Types /\ Published
        /\ journal \in Journals /\ journal.status # "none" /\ ~record
    <3>1. "note row" \in Creating /\ At("note row")
      BY <1>3 DEF NoteWorktree, Creating, Forward
    <3>. QED  BY <3>1, CreateStation
  <2>2. /\ journal' \in Journals /\ journal'.status # "none"
        /\ UNCHANGED <<record, tree, branch, profile, ref, release>>
    BY <1>3, <2>1, Noted DEF NoteWorktree, RowStatuses, sources, reach
  <2>3. \A r \in Rows : r <= cmd.row => Stands(r)'
    BY <2>1, <2>2 DEF Published, Stands
  <2>4. CASE cmd.row = N
    <3>1. Moved("publish")
      BY <1>3, <2>1, <2>4, Creates DEF NoteWorktree, Creating, Forward
    <3>2. Types'
      BY <2>1, <2>2, <3>1 DEF Types, Moved
    <3>3. Published'
      BY <2>1, <2>3, <2>4, <3>1, RowOrder DEF Published, Moved, Built
    <3>. QED  BY <2>1, <2>2, <3>1, <3>2, <3>3, Unrecorded DEF Moved, Releasing
  <2>5. CASE cmd.row # N
    <3>1. cmd' = [cmd EXCEPT !.at = "add", !.row = @ + 1]
      BY <1>3, <2>5 DEF NoteWorktree
    <3>2. cmd.row + 1 \in Rows
      BY <2>1, <2>5, RowOrder
    <3>3. cmd' \in CreateCommand /\ cmd'.at = "add" /\ cmd'.row = cmd.row + 1
      BY <2>1, <3>1, <3>2 DEF CreateCommand, Creating, Forward
    <3>4. Types'
      BY <2>1, <2>2, <3>3 DEF Types
    <3>5. \A r \in Rows : r < cmd.row + 1 => r <= cmd.row
      BY <2>1, RowOrder
    <3>6. Published'
      BY <2>3, <3>3, <3>5 DEF Published
    <3>. QED  BY <2>1, <2>2, <3>3, <3>4, <3>6, Unrecorded DEF Releasing
  <2>. QED  BY <2>4, <2>5
<1>. QED
  BY <1>1, <1>2, <1>3

\* Reference and profile are published once every row stands.
LEMMA Publishing ==
  ASSUME Assumptions, SInv, PublishReference \/ NoteReference \/ WriteProfile \/ NoteProfileCreated
  PROVE  SInv'
<1>1. CASE PublishReference
  <2>1. /\ cmd \in CreateCommand /\ cmd.at = "publish" /\ cmd.row \in Rows /\ Types /\ Published
        /\ journal \in Journals /\ journal.status # "none" /\ ~record
    <3>1. "publish" \in Creating /\ At("publish")
      BY <1>1 DEF PublishReference, Creating, Forward
    <3>. QED  BY <3>1, CreateStation
  <2>2. Moved("note reference")
    BY <1>1, <2>1, Creates DEF PublishReference, Creating, Forward
  <2>3. ref' /\ ref' \in BOOLEAN /\ UNCHANGED <<journal, record, tree, branch, profile, release>>
    BY <1>1 DEF PublishReference, creation, sources
  <2>4. Types'
    BY <2>1, <2>2, <2>3 DEF Types, Moved
  <2>5. Published'
    BY <2>1, <2>2, <2>3 DEF Published, Built, Stands, Moved
  <2>. QED  BY <2>1, <2>2, <2>3, <2>4, <2>5, Unrecorded DEF Releasing, Moved
<1>2. CASE NoteReference
  <2>1. /\ cmd \in CreateCommand /\ cmd.at = "note reference" /\ cmd.row \in Rows /\ Types
        /\ Published
        /\ journal \in Journals /\ journal.status # "none" /\ ~record
    <3>1. "note reference" \in Creating /\ At("note reference")
      BY <1>2 DEF NoteReference, Creating, Forward
    <3>. QED  BY <3>1, CreateStation
  <2>2. cmd' \in CreateCommand /\ cmd'.at = "write profile"
    BY <1>2, <2>1 DEF NoteReference, CreateCommand, Creating, Forward
  <2>3. /\ journal' \in Journals /\ journal'.status # "none"
        /\ UNCHANGED <<record, tree, branch, profile, ref, release>>
    BY <1>2, <2>1, Noted DEF NoteReference, ProfileStatuses, sources, reach
  <2>4. Types'
    BY <2>1, <2>2, <2>3 DEF Types
  <2>5. Published'
    BY <2>1, <2>2, <2>3 DEF Published, Built, Stands
  <2>. QED  BY <2>1, <2>2, <2>3, <2>4, <2>5, Unrecorded DEF Releasing
<1>3. CASE WriteProfile
  <2>1. /\ cmd \in CreateCommand /\ cmd.at = "write profile" /\ cmd.row \in Rows /\ Types
        /\ Published
        /\ journal \in Journals /\ journal.status # "none" /\ ~record
    <3>1. "write profile" \in Creating /\ At("write profile")
      BY <1>3 DEF WriteProfile, Creating, Forward
    <3>. QED  BY <3>1, CreateStation
  <2>2. Moved("note profile")
    BY <1>3, <2>1, Creates DEF WriteProfile, Creating, Forward
  <2>3. /\ profile' /\ profile' \in BOOLEAN
        /\ UNCHANGED <<journal, record, tree, branch, ref, release>>
    BY <1>3 DEF WriteProfile, creation, sources
  <2>4. Types'
    BY <2>1, <2>2, <2>3 DEF Types, Moved
  <2>5. Published'
    BY <2>1, <2>2, <2>3 DEF Published, Built, Stands, Moved
  <2>. QED  BY <2>1, <2>2, <2>3, <2>4, <2>5, Unrecorded DEF Releasing, Moved
<1>4. CASE NoteProfileCreated
  <2>1. /\ cmd \in CreateCommand /\ cmd.at = "note profile" /\ cmd.row \in Rows /\ Types
        /\ Published
        /\ journal \in Journals /\ journal.status # "none" /\ ~record
    <3>1. "note profile" \in Creating /\ At("note profile")
      BY <1>4 DEF NoteProfileCreated, Creating, Forward
    <3>. QED  BY <3>1, CreateStation
  <2>2. cmd' \in CreateCommand /\ cmd'.at = "record"
    BY <1>4, <2>1 DEF NoteProfileCreated, CreateCommand, Creating, Forward
  <2>3. /\ journal' \in Journals /\ journal'.status # "none"
        /\ UNCHANGED <<record, tree, branch, profile, ref, release>>
    BY <1>4, <2>1, Noted DEF NoteProfileCreated, ProfileStatuses, sources, reach
  <2>4. Types'
    BY <2>1, <2>2, <2>3 DEF Types
  <2>5. Published'
    BY <2>1, <2>2, <2>3 DEF Published, Built, Stands
  <2>. QED  BY <2>1, <2>2, <2>3, <2>4, <2>5, Unrecorded DEF Releasing
<1>. QED
  BY <1>1, <1>2, <1>3, <1>4

\* The record is written over a profile and a reference that are there.
LEMMA Recording ==
  ASSUME Assumptions, SInv, WriteRecord \/ Complete
  PROVE  SInv'
<1>1. CASE WriteRecord
  <2>1. /\ cmd \in CreateCommand /\ cmd.at = "record" /\ Types /\ Published /\ Recorded
        /\ journal \in Journals /\ journal.status # "none" /\ ~record
    <3>1. "record" \in Creating /\ At("record")
      BY <1>1 DEF WriteRecord, Creating, Forward
    <3>. QED  BY <3>1, CreateStation
  <2>2. Moved("complete")
    BY <1>1, <2>1, Creates DEF WriteRecord, Creating
  <2>3. record' = TRUE /\ UNCHANGED <<journal, tree, branch, profile, ref, release>>
    BY <1>1 DEF WriteRecord, sources, reach
  <2>4. Types'
    BY <2>1, <2>2, <2>3 DEF Types, Moved
  <2>5. Published'
    BY <2>2 DEF Published, Moved
  <2>7. Recorded'
    BY <2>1, <2>2, <2>3 DEF Recorded, RecordIsWhole, Published, Built, Stands, Moved,
       Forward, Backward, Releasing
  <2>. QED  BY <2>4, <2>5, <2>7 DEF SInv
<1>2. CASE Complete
  <2>1. /\ Types /\ Published /\ Recorded /\ journal \in Journals
    BY DEF SInv, Types
  <2>2. cmd' = Idle /\ cmd'.at = "idle"
    BY <1>2 DEF Complete, Idle
  <2>3. journal' \in Journals /\ journal'.status = "complete"
        /\ UNCHANGED <<record, tree, branch, profile, ref, release>>
    BY <1>2, <2>1, Noted DEF Complete, Statuses, sources, reach
  <2>4. Types'
    BY <2>1, <2>2, <2>3 DEF Types
  <2>5. Published'
    BY <2>2 DEF Published
  <2>6. Recorded'
    BY <2>1, <2>2, <2>3 DEF Recorded, RecordIsWhole, Forward, Backward, Releasing
  <2>. QED  BY <2>4, <2>5, <2>6 DEF SInv
<1>. QED
  BY <1>1, <1>2

\* A command that ends leaves the scope as it knows it to be, when it takes nothing away.
LEMMA Ending ==
  ASSUME SInv, cmd' = Idle, journal' \in Journals, journal'.status = "none" => journal.status = "none",
         tree' \in [Rows -> {"none", "clean", "dirty", "half"}], branch' \in [Rows -> Nat],
         profile' \in BOOLEAN, ref' \in BOOLEAN,
         \A r \in Rows : record /\ Stands(r) => Stands(r)',
         UNCHANGED <<record, release>>, record => UNCHANGED <<profile, ref>>
  PROVE  SInv'
<1>1. cmd'.at = "idle"
  BY DEF Idle
<1>2. Types'
  BY DEF SInv, Types
<1>3. Published'
  BY <1>1 DEF Published
<1>4. Recorded'
  BY <1>1 DEF SInv, Recorded, RecordIsWhole, Creating, Forward, Backward, Releasing, Stands
<1>. QED
  BY <1>2, <1>3, <1>4 DEF SInv

-----------------------------------------------------------------------------
(* A creation fails *)

\* A failure before the record is published says nothing of it.
LEMMA FailingKeeps ==
  ASSUME Assumptions, SInv, Fail
  PROVE  SInv'
<1>1. cmd.at \in Effects \cup Notes
  BY DEF Fail
<1>2. cmd.at \in Forward
  BY <1>1 DEF Effects, Notes, Forward
<1>3. /\ cmd \in CreateCommand /\ cmd.row \in Rows /\ Types /\ Recorded
      /\ journal \in Journals /\ journal.status # "none" /\ ~record
  BY <1>2, Stations DEF SInv, Creating, Recorded, Types
<1>4. branch' \in [Rows -> Nat] /\ ref' \in BOOLEAN /\ UNCHANGED <<record, tree, profile, release>>
  <2>1. branch' = branch \/ branch' = [branch EXCEPT ![cmd.row] = Asked]
    BY DEF Fail
  <2>2. branch \in [Rows -> Nat] /\ Asked \in Nat
    BY <1>3 DEF Types, Asked
  <2>3. branch' \in [Rows -> Nat]
    BY <2>1, <2>2
  <2>4. ref' = (ref /\ ~(At("write profile") /\ ~cmd.retries))
    BY DEF Fail
  <2>5. ref' \in BOOLEAN
    BY <2>4
  <2>6. UNCHANGED <<record, tree, profile, release>>
    BY DEF Fail
  <2>. QED  BY <2>3, <2>5, <2>6
<1>5. CASE cmd.retries
  <2>1. Note("recovery required") /\ cmd' = Idle
    BY <1>5 DEF Fail
  <2>2. journal' \in Journals /\ journal'.status # "none"
    BY <1>3, <2>1, Noted DEF Statuses
  <2>. QED  BY <1>3, <1>4, <2>1, <2>2, Ending DEF Types
<1>6. CASE ~cmd.retries
  <2>1. Note("rolling back") /\ Go("undo profile")
    BY <1>6 DEF Fail
  <2>2. journal' \in Journals /\ journal'.status # "none"
    BY <1>3, <2>1, Noted DEF Statuses
  <2>3. Moved("undo profile")
    BY <1>3, <2>1, Creates DEF Creating, Backward
  <2>4. Types'
    BY <1>3, <1>4, <2>2, <2>3 DEF Types, Moved
  <2>5. Published'
    BY <2>3 DEF Published, Moved
  <2>. QED  BY <1>3, <1>4, <2>2, <2>3, <2>4, <2>5, Unrecorded DEF Moved, Releasing
<1>. QED
  BY <1>5, <1>6

\* A publication of which it is not known whether it is durable.
LEMMA UncertaintyKeeps ==
  ASSUME Assumptions, SInv, PublicationUncertain
  PROVE  SInv'
<1>1. cmd.at \in {"write profile", "record"}
  BY DEF PublicationUncertain
<1>2. /\ cmd \in CreateCommand /\ Types /\ Recorded /\ Published
      /\ journal \in Journals /\ ~record
  BY <1>1, Stations DEF SInv, Creating, Forward, Recorded, Types
<1>3. cmd' = Idle /\ cmd'.at = "idle" /\ UNCHANGED <<tree, branch, ref, release>>
  BY DEF PublicationUncertain, sources, Idle
<1>4. journal' \in Journals /\ journal'.status = "recovery required"
  BY <1>2 DEF PublicationUncertain, Journals, Statuses, ProfileStatuses
<1>5. CASE cmd.at = "write profile"
  <2>1. profile' \in BOOLEAN /\ record' = record
    BY <1>5 DEF PublicationUncertain, At
  <2>. QED  BY <1>2, <1>3, <1>4, <2>1, Ending DEF Types
<1>6. CASE cmd.at = "record"
  <2>1. record' \in BOOLEAN /\ profile' = profile
    BY <1>6 DEF PublicationUncertain, At
  <2>2. Types'
    BY <1>2, <1>3, <1>4, <2>1 DEF Types
  <2>3. Published'
    BY <1>3 DEF Published
  <2>4. Recorded'
    BY <1>2, <1>3, <1>4, <1>6, <2>1 DEF Recorded, RecordIsWhole, Published, Built, Stands,
       Creating, Forward, Backward, Releasing
  <2>. QED  BY <2>2, <2>3, <2>4 DEF SInv
<1>. QED
  BY <1>1, <1>5, <1>6

\* An undo that is no branch's leads to another station of the undo, or ends it.
LEMMA Undoing ==
  ASSUME SInv, cmd.at \in Backward, cmd' \in CreateCommand, cmd'.at \in Backward,
         journal' \in Journals, journal'.status = journal.status,
         tree' \in [Rows -> {"none", "clean", "dirty", "half"}], branch' \in [Rows -> Nat],
         profile' \in BOOLEAN, ref' \in BOOLEAN, UNCHANGED <<record, release>>,
         cmd'.at = "undo branch" => tree'[cmd'.row] = "none"
  PROVE  SInv'
<1>1. ~record /\ journal.status # "none" /\ Types
  BY DEF SInv, Recorded, Creating
<1>2. Types'
  BY <1>1 DEF Types
<1>3. Published'
  BY DEF Published, Backward
<1>. QED
  BY <1>1, <1>2, <1>3, Unrecorded DEF Backward, Releasing

\* The row above is a row, or there is none.
LEMMA UndoneRow ==
  ASSUME Assumptions, cmd \in CreateCommand
  PROVE  /\ NextRowUp => cmd' \in CreateCommand /\ cmd'.at \in {"undo row", "undone"}
         /\ PreserveRow => cmd' \in CreateCommand /\ cmd'.at \in {"undo row", "undone"} /\ cmd'.uncertain
         /\ NextRowUp \/ PreserveRow =>
              IF cmd.row = 1 THEN cmd'.at = "undone" /\ cmd'.row = 1
              ELSE cmd'.at = "undo row" /\ cmd'.row = cmd.row - 1
         /\ NextRowUp => cmd'.uncertain = cmd.uncertain
<1>1. cmd.row \in Rows
  BY DEF CreateCommand
<1>2. cmd.row # 1 => cmd.row - 1 \in Rows
  BY <1>1, RowOrder
<1>. QED
  BY <1>1, <1>2 DEF NextRowUp, PreserveRow, Go, CreateCommand, Creating, Backward

\* Taking back a profile, a reference, a row or a branch of what is not recorded.
LEMMA UndoKeeps ==
  ASSUME Assumptions, SInv,
         \/ UndoProfile \/ UndoReference \/ UndoFails
         \/ UndoRow \/ UndoTree \/ UndoBranch \/ UndoRowFails
  PROVE  SInv'
<1>1. cmd.at \in Backward
  BY DEF UndoProfile, UndoReference, UndoFails, UndoRow, UndoTree, UndoBranch, UndoRowFails, At,
     Backward
<1>2. /\ cmd \in CreateCommand /\ cmd.row \in Rows /\ Types /\ Published
      /\ journal \in Journals
  BY <1>1, Stations DEF SInv, Creating, Types
<1>3. CASE UndoProfile
  <2>1. Moved("undo reference")
    BY <1>2, <1>3, Creates DEF UndoProfile, Creating, Backward
  <2>2. /\ UNCHANGED <<journal, record, tree, branch, ref, release>> /\ profile' \in BOOLEAN
    BY <1>2, <1>3 DEF UndoProfile, creation, sources, Types
  <2>. QED  BY <1>1, <1>2, <2>1, <2>2, Undoing DEF Moved, Types, Backward
<1>4. CASE UndoReference \/ UndoFails
  <2>1. cmd' \in CreateCommand /\ cmd'.at = "undo row"
    <3>1. N \in Rows /\ "undo row" \in Creating
      BY <1>2, RowOrder DEF Creating, Backward
    <3>2. CASE UndoReference
      <4>1. cmd' = [cmd EXCEPT !.at = "undo row", !.row = N]
        BY <3>2 DEF UndoReference, GoUndoRows
      <4>. QED  BY <1>2, <3>1, <4>1 DEF CreateCommand
    <3>3. CASE UndoFails
      <4>1. cmd' = [cmd EXCEPT !.at = "undo row", !.row = N, !.uncertain = TRUE]
        BY <3>3 DEF UndoFails
      <4>. QED  BY <1>2, <3>1, <4>1 DEF CreateCommand
    <3>. QED  BY <1>4, <3>2, <3>3
  <2>2. journal' \in Journals /\ journal'.status = journal.status
    BY <1>2, <1>4, Noted DEF UndoReference, UndoFails, ProfileStatuses
  <2>3. UNCHANGED <<record, tree, branch, release, profile>> /\ ref' \in BOOLEAN
    BY <1>2, <1>4 DEF UndoReference, UndoFails, sources, reach, Types
  <2>. QED  BY <1>1, <1>2, <2>1, <2>2, <2>3, Undoing DEF Types, Backward
<1>5. ASSUME PreserveRow \/ (NextRowUp /\ journal' = journal),
             UNCHANGED <<record, tree, branch, profile, ref, release>>
      PROVE  SInv'
  <2>1. cmd' \in CreateCommand /\ cmd'.at \in {"undo row", "undone"}
    BY <1>2, <1>5, UndoneRow
  <2>2. journal' \in Journals /\ journal'.status = journal.status
    BY <1>2, <1>5, Noted DEF PreserveRow, RowStatuses
  <2>. QED  BY <1>1, <1>2, <1>5, <2>1, <2>2, Undoing DEF Types, Backward
<1>6. CASE UndoRow
  <2>1. UNCHANGED <<record, tree, branch, profile, ref, release>>
    BY <1>6 DEF UndoRow, sources, reach
  <2>2. CASE Go("undo tree") /\ journal' = journal
    <3>1. Moved("undo tree")
      BY <1>2, <2>2, Creates DEF Creating, Backward
    <3>. QED  BY <1>1, <1>2, <2>1, <2>2, <3>1, Undoing DEF Moved, Types, Backward
  <2>. QED  BY <1>5, <1>6, <2>1, <2>2 DEF UndoRow
<1>7. CASE UndoTree
  <2>1. UNCHANGED <<record, branch, profile, ref, release>>
    BY <1>7 DEF UndoTree, reach
  <2>2. CASE tree' = [tree EXCEPT ![cmd.row] = "none"] /\ Go("undo branch") /\ journal' = journal
    <3>1. Moved("undo branch")
      BY <1>2, <2>2, Creates DEF Creating, Backward
    <3>2. tree' \in [Rows -> {"none", "clean", "dirty", "half"}] /\ tree'[cmd.row] = "none"
      BY <1>2, <2>2 DEF Types
    <3>. QED  BY <1>1, <1>2, <2>1, <2>2, <3>1, <3>2, Undoing DEF Moved, Types, Backward
  <2>. QED  BY <1>5, <1>7, <2>1, <2>2 DEF UndoTree
<1>8. CASE UndoBranch
  <2>1. UNCHANGED <<record, tree, profile, ref, release>>
    BY <1>8 DEF UndoBranch, reach
  <2>2. CASE branch' = [branch EXCEPT ![cmd.row] = NoBranch] /\ NoteRow("rolled back") /\ NextRowUp
    <3>1. branch' \in [Rows -> Nat]
      BY <1>2, <2>2 DEF Types, NoBranch
    <3>2. cmd' \in CreateCommand /\ cmd'.at \in {"undo row", "undone"}
      BY <1>2, <2>2, UndoneRow
    <3>3. journal' \in Journals /\ journal'.status = journal.status
      BY <1>2, <2>2, Noted DEF RowStatuses
    <3>. QED  BY <1>1, <1>2, <2>1, <3>1, <3>2, <3>3, Undoing DEF Types, Backward
  <2>. QED  BY <1>5, <1>8, <2>1, <2>2 DEF UndoBranch
<1>9. CASE UndoRowFails
  BY <1>5, <1>9 DEF UndoRowFails, sources, reach
<1>. QED
  BY <1>3, <1>4, <1>6, <1>7, <1>8, <1>9

\* A command that ends or is killed leaves what it has done.
LEMMA EndKeeps ==
  ASSUME Assumptions, SInv, UndoEnds \/ Kill \/ KillHalfway
  PROVE  SInv'
<1>1. Types /\ journal \in Journals
  BY DEF SInv, Types
<1>2. cmd' = Idle /\ UNCHANGED <<record, branch, profile, ref, release>>
  BY DEF UndoEnds, Kill, KillHalfway, sources, reach, creation
<1>3. CASE UndoEnds
  <2>1. tree' = tree
    BY <1>3 DEF UndoEnds, sources
  <2>2. journal' \in Journals /\ journal'.status # "none"
    BY <1>1, <1>3, Noted DEF UndoEnds, Statuses
  <2>. QED  BY <1>1, <1>2, <2>1, <2>2, Ending DEF Types, Stands
<1>4. CASE Kill
  <2>1. UNCHANGED <<tree, journal>>
    BY <1>4 DEF Kill, sources, creation
  <2>. QED  BY <1>1, <1>2, <2>1, Ending DEF Types, Stands
<1>5. CASE KillHalfway
  <2>1. journal' = journal
    BY <1>5 DEF KillHalfway, creation
  <2>2. tree' = tree \/ \E r : tree' = [tree EXCEPT ![r] = "half"]
    BY <1>5 DEF KillHalfway
  <2>3. tree' \in [Rows -> {"none", "clean", "dirty", "half"}]
    BY <1>1, <2>2 DEF Types
  <2>4. \A r \in Rows : tree[r] # "none" => tree'[r] # "none"
    BY <1>1, <2>2 DEF Types
  <2>. QED  BY <1>1, <1>2, <2>1, <2>3, <2>4, Ending DEF Types, Stands
<1>. QED
  BY <1>3, <1>4, <1>5

-----------------------------------------------------------------------------
(* Users, and commands that only look *)

\* Users leave every worktree there and on its branch, and the command where it is.
LEMMA Used ==
  ASSUME SInv, UNCHANGED <<journal, record, profile, ref, release, cmd>>,
         tree' \in [Rows -> {"none", "clean", "dirty", "half"}], branch' \in [Rows -> Nat],
         \A r \in Rows : /\ Stands(r) => Stands(r)'
                         /\ tree[r] = "none" => tree'[r] = "none" /\ branch'[r] = branch[r]
  PROVE  SInv'
<1>1. Types'
  BY DEF SInv, Types
<1>2. cmd.at = "undo branch" => cmd.row \in Rows
  BY Stations DEF SInv, Creating, Backward
<1>3. Published'
  BY <1>2 DEF SInv, Published, Built
<1>4. Recorded'
  BY DEF SInv, Recorded, RecordIsWhole, Stands
<1>. QED
  BY <1>1, <1>3, <1>4 DEF SInv

\* What users do to worktrees and builds leaves the scope whole.
LEMMA UsageKeeps ==
  ASSUME Assumptions, SInv, Usage \/ Preview
  PROVE  SInv'
<1>1. Types
  BY DEF SInv
<1>2. CASE UNCHANGED <<tree, branch, journal, record, profile, ref, release, cmd>>
  BY <1>1, <1>2, Used DEF Types, Stands
<1>3. ASSUME NEW r \in Rows, Edit(r)
      PROVE  SInv'
  <2>1. /\ UNCHANGED <<branch, journal, record, profile, ref, release, cmd>>
        /\ tree[r] \in {"clean", "dirty"}
        /\ \E t \in {"clean", "dirty"} : tree' = [tree EXCEPT ![r] = t]
    BY <1>1, <1>3 DEF Edit, creation, reach, Types
  <2>2. tree' \in [Rows -> {"none", "clean", "dirty", "half"}]
    BY <1>1, <2>1 DEF Types
  <2>3. \A q \in Rows : tree[q] = "none" <=> tree'[q] = "none"
    BY <1>1, <2>1 DEF Types
  <2>. QED  BY <1>1, <2>1, <2>2, <2>3, Used DEF Types, Stands
<1>4. ASSUME NEW r \in Rows, Commit(r)
      PROVE  SInv'
  <2>1. /\ UNCHANGED <<journal, record, profile, ref, release, cmd>>
        /\ tree[r] \in {"clean", "dirty"}
        /\ tree' = [tree EXCEPT ![r] = "clean"] /\ branch' = [branch EXCEPT ![r] = @ + 1]
    BY <1>4 DEF Commit, creation, reach
  <2>2. tree' \in [Rows -> {"none", "clean", "dirty", "half"}]
    BY <1>1, <2>1 DEF Types
  <2>3. branch' \in [Rows -> Nat]
    BY <1>1, <2>1 DEF Types
  <2>4. \A q \in Rows : /\ (tree[q] = "none" <=> tree'[q] = "none")
                        /\ q # r => branch'[q] = branch[q]
    BY <1>1, <2>1 DEF Types
  <2>5. branch'[r] # NoBranch
    BY <1>1, <2>1 DEF Types, NoBranch
  <2>. QED  BY <2>1, <2>2, <2>3, <2>4, <2>5, Used DEF Stands
<1>5. (Up \/ Down \/ (\E b \in Builds : Build(b)) \/ Preview) =>
         UNCHANGED <<tree, branch, journal, record, profile, ref, release, cmd>>
  BY DEF Up, Down, Build, Preview, creation, sources, reach
<1>. QED
  BY <1>2, <1>3, <1>4, <1>5 DEF Usage

-----------------------------------------------------------------------------
(* A release *)

\* A release begins for what is recorded.
LEMMA ReleaseBeginsKeeps ==
  ASSUME SInv, ReleaseBegins
  PROVE  SInv'
<1>1. /\ cmd.at = "idle" /\ record /\ cmd' = [at |-> "journal", action |-> 1]
      /\ UNCHANGED <<journal, record, tree, branch, profile, ref, release>>
  BY DEF ReleaseBegins, Free, creation, sources, reach
<1>2. cmd' \in ReleaseCommand /\ cmd'.at = "journal"
  BY <1>1 DEF ReleaseCommand, Releasing
<1>3. Types'
  BY <1>1, <1>2 DEF SInv, Types
<1>4. Published'
  BY <1>2 DEF Published
<1>5. Recorded'
  BY <1>1, <1>2 DEF SInv, Recorded, RecordIsWhole, Creating, Forward, Backward
<1>. QED
  BY <1>3, <1>4, <1>5 DEF SInv

\* A release that is written down goes on or ends.
LEMMA Going ==
  ASSUME SInv, cmd.at \in Releasing,
         cmd' = Idle \/ (cmd' \in ReleaseCommand /\ cmd'.at # "journal"),
         DOMAIN release' = {"status", "plan", "done", "phase"}, release'.status # "none",
         tree' \in [Rows -> {"none", "clean", "dirty", "half"}], branch' \in [Rows -> Nat],
         profile' \in BOOLEAN, ref' \in BOOLEAN, UNCHANGED <<journal, record>>
  PROVE  SInv'
<1>1. cmd'.at = "idle" \/ cmd'.at \in Releasing
  BY DEF Idle, ReleaseCommand
<1>2. Types'
  BY DEF SInv, Types
<1>3. Published'
  BY <1>1 DEF Published, Releasing
<1>4. record /\ (cmd'.at \in Creating => journal.status # "none") /\ cmd'.at \notin Forward \cup Backward
  BY <1>1 DEF SInv, Recorded, Creating, Forward, Backward, Releasing
<1>5. Recorded'
  BY <1>4 DEF SInv, Recorded, RecordIsWhole
<1>. QED
  BY <1>2, <1>3, <1>5 DEF SInv

\* Once a release is written down the scope need not be whole.
LEMMA ReleaseKeeps ==
  ASSUME SInv, ReleaseSteps
  PROVE  SInv'
<1>1. cmd.at \in Releasing
  BY DEF ReleaseSteps, WriteRelease, CheckEvidence, NextAction, CheckBuild, RemoveBuild,
     CheckProfile,
     UnlinkProfile, RemoveReference, CheckTree, RemoveTree, RemoveBranch, Finish, ReleaseEnds,
     At, Releasing
<1>2. Types /\ cmd \in ReleaseCommand
  BY <1>1, Stations DEF SInv
<1>3. cmd.at # "journal" => release.status # "none"
  BY <1>1 DEF SInv, Recorded
<1>4. DOMAIN release = {"status", "plan", "done", "phase"}
  BY <1>2 DEF Types
<1>. DEFINE Station == cmd' = Idle \/ (cmd' \in ReleaseCommand /\ cmd'.at # "journal")
            Journal == DOMAIN release' = {"status", "plan", "done", "phase"} /\ release'.status # "none"
<1>5. \A s \in Releasing : s # "journal" /\ Go(s) => Station
  BY <1>2, Releases
<1>6. CASE WriteRelease
  <2>1. "evidence" \in Releasing
    BY DEF Releasing
  <2>2. Station
    BY <1>5, <1>6, <2>1 DEF WriteRelease
  <2>3. Journal
    BY <1>6 DEF WriteRelease
  <2>4. UNCHANGED <<journal, record, tree, branch, profile, ref>>
    BY <1>6 DEF WriteRelease, creation, sources, reach
  <2>. QED  BY <1>1, <1>2, <2>2, <2>3, <2>4, Going DEF Types
<1>7. CASE CheckEvidence
  <2>1. "next" \in Releasing
    BY DEF Releasing
  <2>2. Station
    BY <1>5, <1>7, <2>1 DEF CheckEvidence
  <2>3. Journal
    BY <1>3, <1>4, <1>7 DEF CheckEvidence, At
  <2>4. UNCHANGED <<journal, record, tree, branch, profile, ref>>
    BY <1>7 DEF CheckEvidence, creation, sources, reach
  <2>. QED  BY <1>1, <1>2, <2>2, <2>3, <2>4, Going DEF Types
<1>8. CASE NextAction
  <2>1. Place(Doing) \in Releasing /\ Place(Doing) # "journal"
    BY DEF Releasing, Place
  <2>2. cmd' = [cmd EXCEPT !.action = @ + 1] => Station
    BY <1>2, <1>8 DEF ReleaseCommand, NextAction, At
  <2>3. Station
    BY <1>5, <1>8, <2>1, <2>2 DEF NextAction
  <2>4. Journal
    BY <1>3, <1>4, <1>8 DEF NextAction, At
  <2>5. UNCHANGED <<journal, record, tree, branch, profile, ref>>
    BY <1>8 DEF NextAction, creation, sources, reach
  <2>. QED  BY <1>1, <1>2, <2>3, <2>4, <2>5, Going DEF Types
<1>9. CASE CheckBuild \/ CheckProfile \/ CheckTree
  <2>1. /\ "remove build" \in Releasing /\ "unlink profile" \in Releasing
        /\ "remove reference" \in Releasing
        /\ "remove branch" \in Releasing /\ "remove tree" \in Releasing
    BY DEF Releasing
  <2>2. Station
    BY <1>5, <1>9, <2>1 DEF CheckBuild, CheckProfile, CheckTree, Removing, Refuse
  <2>3. cmd.at # "journal"
    BY <1>9 DEF CheckBuild, CheckProfile, CheckTree, At
  <2>4. release' = release \/ release' = [release EXCEPT !.phase = "removing"]
    BY <1>9 DEF CheckBuild, CheckProfile, CheckTree, Removing, Refuse
  <2>5. Journal
    BY <1>3, <1>4, <2>3, <2>4
  <2>6. UNCHANGED <<journal, record, tree, branch, profile, ref>>
    BY <1>9 DEF CheckBuild, CheckProfile, CheckTree, creation, sources, reach
  <2>. QED  BY <1>1, <1>2, <2>2, <2>5, <2>6, Going DEF Types
<1>10. CASE RemoveBuild \/ UnlinkProfile \/ RemoveReference
  <2>1. "finish" \in Releasing /\ "remove reference" \in Releasing
    BY DEF Releasing
  <2>2. Station
    BY <1>5, <1>10, <2>1 DEF RemoveBuild, UnlinkProfile, RemoveReference
  <2>3. Journal
    BY <1>3, <1>4, <1>10 DEF RemoveBuild, UnlinkProfile, RemoveReference, At
  <2>4. UNCHANGED <<journal, record, tree, branch>> /\ profile' \in BOOLEAN /\ ref' \in BOOLEAN
    BY <1>2, <1>10 DEF RemoveBuild, UnlinkProfile, RemoveReference, creation, sources, reach, Types
  <2>. QED  BY <1>1, <1>2, <2>2, <2>3, <2>4, Going DEF Types
<1>11. CASE RemoveTree
  <2>1. "remove branch" \in Releasing
    BY DEF Releasing
  <2>2. Station
    BY <1>5, <1>11, <2>1 DEF RemoveTree
  <2>3. Journal
    BY <1>3, <1>4, <1>11 DEF RemoveTree, At
  <2>4. tree' = tree \/ tree' = [tree EXCEPT ![Doing.n] = "none"]
    BY <1>11 DEF RemoveTree
  <2>5. tree' \in [Rows -> {"none", "clean", "dirty", "half"}]
    BY <1>2, <2>4 DEF Types
  <2>6. UNCHANGED <<journal, record, branch, profile, ref>>
    BY <1>11 DEF RemoveTree, creation, reach
  <2>. QED  BY <1>1, <1>2, <2>2, <2>3, <2>5, <2>6, Going DEF Types
<1>12. CASE RemoveBranch
  <2>1. "finish" \in Releasing
    BY DEF Releasing
  <2>2. Station
    BY <1>5, <1>12, <2>1 DEF RemoveBranch
  <2>3. Journal
    BY <1>3, <1>4, <1>12 DEF RemoveBranch, At
  <2>4. branch' = branch \/ branch' = [branch EXCEPT ![Doing.n] = NoBranch]
    BY <1>12 DEF RemoveBranch
  <2>5. branch' \in [Rows -> Nat]
    BY <1>2, <2>4 DEF Types, NoBranch
  <2>6. UNCHANGED <<journal, record, tree, profile, ref>>
    BY <1>12 DEF RemoveBranch, creation, reach
  <2>. QED  BY <1>1, <1>2, <2>2, <2>3, <2>5, <2>6, Going DEF Types
<1>13. CASE Finish \/ ReleaseEnds
  <2>1. cmd' = [cmd EXCEPT !.at = "next", !.action = @ + 1] => Station
    <3>. SUFFICES ASSUME cmd' = [cmd EXCEPT !.at = "next", !.action = @ + 1] PROVE Station
      OBVIOUS
    <3>1. "next" \in Releasing
      BY DEF Releasing
    <3>2. cmd.action \in Nat
      BY <1>2 DEF ReleaseCommand
    <3>3. cmd.action + 1 \in Nat
      BY <3>2
    <3>4. cmd' \in ReleaseCommand /\ cmd'.at = "next"
      BY <1>2, <3>1, <3>3 DEF ReleaseCommand
    <3>. QED  BY <3>4
  <2>2. Station
    BY <1>13, <2>1 DEF Finish, ReleaseEnds
  <2>3. Journal
    BY <1>3, <1>4, <1>13 DEF Finish, ReleaseEnds, At
  <2>4. UNCHANGED <<journal, record, tree, branch, profile, ref>>
    BY <1>13 DEF Finish, ReleaseEnds, creation, sources, reach
  <2>. QED  BY <1>1, <1>2, <2>2, <2>3, <2>4, Going DEF Types
<1>. QED
  BY <1>6, <1>7, <1>8, <1>9, <1>10, <1>11, <1>12, <1>13 DEF ReleaseSteps

-----------------------------------------------------------------------------
\* At the start nothing is there.
LEMMA Initially ==
  ASSUME Assumptions, Init
  PROVE  SInv
<1>1. cmd = Idle /\ cmd.at = "idle"
  BY DEF Init, Idle
<1>2. journal \in Journals /\ ~record
  BY DEF Init, Journals, Statuses, RowStatuses, ProfileStatuses
<1>3. Types
  BY <1>1, <1>2 DEF Init, Types, NoBranch, NoRelease
<1>4. Published
  BY <1>1 DEF Published
<1>5. Recorded
  BY <1>1, <1>2 DEF Recorded, RecordIsWhole, Creating, Forward, Backward, Releasing
<1>. QED
  BY <1>3, <1>4, <1>5 DEF SInv

\* Every step keeps the first invariant.
LEMMA StepKeeps ==
  ASSUME Assumptions, SInv, [Next]_vars
  PROVE  SInv'
<1>1. CASE CreateBegins \/ RetryBegins
  BY <1>1, BeginningKeeps
<1>2. CASE CreateSteps
  BY <1>2, Adding, Publishing, Recording, UndoKeeps, EndKeeps DEF CreateSteps
<1>3. CASE Preview \/ Usage
  BY <1>3, UsageKeeps
<1>4. CASE ReleaseBegins
  BY <1>4, ReleaseBeginsKeeps
<1>5. CASE ReleaseSteps
  BY <1>5, ReleaseKeeps
<1>6. CASE Failures
  BY <1>6, FailingKeeps, UncertaintyKeeps, UndoKeeps, EndKeeps DEF Failures
<1>7. CASE UNCHANGED vars
  BY <1>7, Used DEF SInv, Types, Stands, vars, creation, sources, reach, users
<1>. QED
  BY <1>1, <1>2, <1>3, <1>4, <1>5, <1>6, <1>7 DEF Next

\* What the creation journal, the record and the files of the scope say of each other,
\* through failures, kills and releases: the first inductive invariant.
THEOREM Invariance == ASSUME Assumptions PROVE Spec => []SInv
<1>1. Init => SInv
  BY Initially
<1>2. SInv /\ [Next]_vars => SInv'
  BY StepKeeps
<1>. QED
  BY <1>1, <1>2, PTL DEF Spec

\* Readers of the record find every worktree on its branch, the profile and the
\* physical reference that protects it, until a release begins.
THEOREM Whole == ASSUME Assumptions PROVE Spec => []RecordIsWhole
<1>1. SInv => RecordIsWhole
  BY DEF SInv, Recorded
<1>. QED
  BY <1>1, Invariance, PTL

-----------------------------------------------------------------------------
(* What a step throws away *)

\* The steps that touch no worktree and no branch.
LEMMA Quiet ==
  ASSUME [Next]_vars,
         ~AddWorktree, ~UndoTree, ~UndoBranch, ~Fail, ~KillHalfway, ~RemoveTree, ~RemoveBranch,
         \A r \in Rows : ~Edit(r) /\ ~Commit(r)
  PROVE  UNCHANGED <<tree, branch>>
<1>1. CASE CreateBegins \/ RetryBegins \/ CreateSteps
  BY <1>1 DEF CreateBegins, RetryBegins, CreateSteps, Reserve, NoteWorktree, PublishReference,
     NoteReference,
     WriteProfile, NoteProfileCreated, WriteRecord, Complete, UndoProfile, UndoReference,
     UndoRow, UndoEnds, sources
<1>2. CASE Preview \/ ReleaseBegins \/ ReleaseSteps
  BY <1>2 DEF Preview, ReleaseBegins, ReleaseSteps, WriteRelease, CheckEvidence, NextAction,
     CheckBuild,
     RemoveBuild, CheckProfile, UnlinkProfile, RemoveReference, CheckTree, Finish, ReleaseEnds,
     sources
<1>3. CASE Failures
  BY <1>3 DEF Failures, PublicationUncertain, UndoFails, UndoRowFails, Kill, sources
<1>4. CASE Usage
  BY <1>4 DEF Usage, Up, Down, Build, sources
<1>5. CASE UNCHANGED vars
  BY <1>5 DEF vars, sources
<1>. QED
  BY <1>1, <1>2, <1>3, <1>4, <1>5 DEF Next

\* A worktree goes only where it is clean.
LEMMA TreesGo ==
  ASSUME Types, [Next]_vars, NEW r \in Rows, tree[r] = "dirty"
  PROVE  tree'[r] # "none"
<1>1. CASE tree' = tree
  BY <1>1
<1>2. CASE \E q, t : t # "none" /\ tree' = [tree EXCEPT ![q] = t]
  BY <1>2 DEF Types
<1>3. CASE \E q : tree[q] = "clean" /\ tree' = [tree EXCEPT ![q] = "none"]
  BY <1>3 DEF Types
<1>4. CASE AddWorktree \/ KillHalfway \/ Fail
  <2>1. CASE AddWorktree
    BY <1>2, <2>1 DEF AddWorktree
  <2>2. CASE KillHalfway
    <3>1. \/ tree' = tree
          \/ tree' = [tree EXCEPT ![cmd.row] = "half"]
          \/ tree' = [tree EXCEPT ![Doing.n] = "half"]
      BY <2>2 DEF KillHalfway
    <3>2. CASE tree' = [tree EXCEPT ![cmd.row] = "half"]
      BY <1>2, <3>2
    <3>3. CASE tree' = [tree EXCEPT ![Doing.n] = "half"]
      BY <1>2, <3>3
    <3>. QED  BY <1>1, <3>1, <3>2, <3>3
  <2>3. CASE Fail
    BY <1>1, <2>3 DEF Fail
  <2>. QED  BY <1>4, <2>1, <2>2, <2>3
<1>5. CASE UndoTree \/ UndoBranch
  BY <1>1, <1>3, <1>5 DEF UndoTree, UndoBranch
<1>6. CASE RemoveTree \/ RemoveBranch
  BY <1>1, <1>3, <1>6 DEF RemoveTree, RemoveBranch
<1>7. ASSUME NEW q \in Rows, Edit(q) \/ Commit(q)
      PROVE  tree'[r] # "none"
  <2>1. \E t \in {"clean", "dirty"} : tree' = [tree EXCEPT ![q] = t]
    BY <1>7 DEF Edit, Commit, Types
  <2>. QED  BY <1>2, <2>1
<1>. QED
  BY <1>1, <1>4, <1>5, <1>6, <1>7, Quiet

\* A branch goes only with the commit asked for, or as the plan has it.
LEMMA BranchesGo ==
  ASSUME SInv, [Next]_vars, NEW r \in Rows, branch[r] > Asked, branch'[r] = NoBranch
  PROVE  release.plan.head[r] = branch[r]
<1>1. branch[r] # NoBranch /\ branch[r] # Asked /\ branch \in [Rows -> Nat] /\ Asked # NoBranch
  BY DEF SInv, Types, NoBranch, Asked
<1>2. branch' # branch
  BY <1>1
<1>3. ~\E q, k : k # NoBranch /\ branch' = [branch EXCEPT ![q] = k]
  BY <1>1
<1>4. ~(AddWorktree \/ Fail \/ KillHalfway \/ UndoTree \/ RemoveTree)
  BY <1>1, <1>2, <1>3 DEF AddWorktree, Fail, KillHalfway, UndoTree, RemoveTree
<1>5. \A q \in Rows : ~Edit(q)
  BY <1>2 DEF Edit
<1>6. \A q \in Rows : ~Commit(q)
  <2>. SUFFICES ASSUME NEW q \in Rows, Commit(q) PROVE FALSE
    OBVIOUS
  <2>1. branch' = [branch EXCEPT ![q] = branch[q] + 1]
    BY DEF Commit
  <2>2. branch[q] + 1 # NoBranch
    BY <1>1 DEF NoBranch
  <2>. QED  BY <1>3, <2>1, <2>2
<1>7. CASE UndoBranch
  <2>1. branch' = [branch EXCEPT ![cmd.row] = NoBranch] /\ branch[cmd.row] = Asked
    BY <1>2, <1>7 DEF UndoBranch
  <2>. QED  BY <1>1, <2>1
<1>8. CASE RemoveBranch
  <2>1. branch' = [branch EXCEPT ![Doing.n] = NoBranch]
        /\ branch[Doing.n] \in {NoBranch, release.plan.head[Doing.n]}
    BY <1>2, <1>8 DEF RemoveBranch
  <2>2. r = Doing.n
    BY <1>1, <2>1
  <2>. QED  BY <1>1, <2>1, <2>2
<1>. QED
  BY <1>2, <1>4, <1>5, <1>6, <1>7, <1>8, Quiet

\* No step of a command throws away what a user did: neither changes that are not
\* committed, nor commits the operator was not shown in the plan of the release.
THEOREM WorkKept == ASSUME Assumptions PROVE Spec => [][NoWorkLost]_vars
<1>1. SInv /\ [Next]_vars => NoWorkLost
  BY TreesGo, BranchesGo DEF SInv, NoWorkLost
<1>. QED
  BY <1>1, Invariance, PTL DEF Spec

-----------------------------------------------------------------------------
(* Where no command fails between an effect and its note *)

\* A command that ends owes nothing, when what it leaves is in order.
LEMMA Leaving ==
  ASSUME cmd' = Idle, ProfileIsBacked', RolledBack'
  PROVE  UInv'
<1>1. cmd'.at = "idle"
  BY DEF Idle
<1>. QED
  BY <1>1 DEF UInv, Unpublished, Rowed, Forward

\* What is known, beside, of what it owes.
LEMMA UndoStation ==
  ASSUME SInv, UInv, NEW station \in Creating, At(station)
  PROVE  /\ cmd \in CreateCommand /\ cmd.at = station /\ cmd.row \in Rows
         /\ Published /\ ProfileIsBacked /\ Unpublished /\ Rowed
         /\ journal \in Journals /\ journal.status # "rolled back"
         /\ tree \in [Rows -> {"none", "clean", "dirty", "half"}]
         /\ topology.state # "none" => record
         /\ station # "complete" => ~record
BY CreateStation DEF UInv, RolledBack, At, Types

\* A creation that goes on has not ended: what it has published may stand, and
\* nothing was said to be rolled back.
LEMMA Continuing ==
  ASSUME cmd'.at \in Creating, journal'.status # "rolled back", ~record, ~record', topology' = topology,
         topology.state # "none" => record
  PROVE  RolledBack'
BY DEF RolledBack, RolledBackIsClean

\* A creation or a retry that begins owes nothing.
LEMMA BeginningOwes ==
  ASSUME Assumptions, SInv, UInv, CreateBegins \/ RetryBegins
  PROVE  UInv'
<1>1. /\ ~profile /\ ~ref /\ \A r \in Rows : tree[r] = "none"
      /\ ~record /\ topology.state = "none"
  BY DEF CreateBegins, RetryBegins, Retryable, Nothing, Referenced, SInv, Recorded
<1>2. UNCHANGED <<record, tree, profile, ref, topology>>
  BY DEF CreateBegins, RetryBegins, sources, reach, users
<1>3. CASE CreateBegins
  <2>1. Start("reserve", FALSE) /\ Note("bare")
    BY <1>3 DEF CreateBegins
  <2>2. "reserve" \in Creating /\ "bare" \in Statuses
    BY DEF Creating, Forward, Statuses
  <2>3. cmd'.at = "reserve"
    BY <2>1, <2>2, Begins
  <2>4. journal'.status = "bare"
    BY <2>1, <2>2, Noted DEF SInv, Types
  <2>5. RolledBack'
    BY <1>1, <1>2, <2>2, <2>3, <2>4, Continuing
  <2>. QED  BY <1>1, <1>2, <2>3, <2>5 DEF UInv, ProfileIsBacked, Unpublished, Rowed, Unnoted
<1>4. CASE RetryBegins
  <2>1. Start("add", TRUE) /\ Note("recovering")
    BY <1>4 DEF RetryBegins
  <2>2. "add" \in Creating /\ "recovering" \in Statuses
    BY DEF Creating, Forward, Statuses
  <2>3. cmd'.at = "add"
    BY <2>1, <2>2, Begins
  <2>4. journal'.status = "recovering"
    BY <2>1, <2>2, Noted DEF SInv, Types
  <2>5. RolledBack'
    BY <1>1, <1>2, <2>2, <2>3, <2>4, Continuing
  <2>. QED  BY <1>1, <1>2, <2>3, <2>5 DEF UInv, ProfileIsBacked, Unpublished, Rowed, Unnoted
<1>. QED
  BY <1>3, <1>4

\* A row is owed from the worktree to the note that says it is created.
LEMMA AddingOwes ==
  ASSUME Assumptions, SInv, UInv, Reserve \/ AddWorktree \/ NoteWorktree
  PROVE  UInv'
<1>1. CASE Reserve
  <2>1. "reserve" \in Creating /\ "add" \in Creating /\ At("reserve") /\ "creating" \in Statuses
    BY <1>1 DEF Reserve, Creating, Forward, Statuses
  <2>2. /\ cmd \in CreateCommand /\ cmd.at = "reserve" /\ Unpublished /\ Rowed
        /\ journal \in Journals /\ ~record /\ (topology.state # "none" => record)
    BY <2>1, UndoStation
  <2>3. Moved("add")
    BY <1>1, <2>1, <2>2, Creates DEF Reserve
  <2>4. journal'.status = "creating" /\ journal'.row = journal.row
    BY <1>1, <2>1, <2>2, Noted DEF Reserve
  <2>5. UNCHANGED <<record, tree, profile, ref, topology>>
    BY <1>1 DEF Reserve, sources, reach, users
  <2>6. RolledBack'
    BY <2>1, <2>2, <2>3, <2>4, <2>5, Continuing DEF Moved
  <2>7. ~profile /\ ~ref /\ (~cmd.retries => \A r \in Rows : Unnoted(r))
    BY <2>2 DEF Unpublished, Rowed, Forward
  <2>8. ProfileIsBacked' /\ Unpublished'
    BY <2>3, <2>5, <2>7 DEF ProfileIsBacked, Unpublished, Moved
  <2>9. Rowed'
    BY <2>3, <2>4, <2>5, <2>7 DEF Rowed, Unnoted, Moved
  <2>. QED  BY <2>6, <2>8, <2>9 DEF UInv
<1>2. CASE AddWorktree
  <2>1. "note row" \in Creating /\ "add" \in Creating /\ At("add")
    BY <1>2 DEF AddWorktree, Creating, Forward
  <2>2. /\ cmd \in CreateCommand /\ cmd.at = "add" /\ Unpublished /\ Rowed /\ cmd.row \in Rows
        /\ ~record /\ (topology.state # "none" => record) /\ journal.status # "rolled back"
    BY <2>1, UndoStation
  <2>3. Moved("note row")
    BY <1>2, <2>1, <2>2, Creates DEF AddWorktree
  <2>4. /\ UNCHANGED <<journal, record, profile, ref, topology>>
        /\ tree' = [tree EXCEPT ![cmd.row] = "clean"]
    BY <1>2 DEF AddWorktree, creation, reach, users
  <2>5. RolledBack'
    BY <2>1, <2>2, <2>3, <2>4, Continuing DEF Moved
  <2>6. ~profile /\ ~ref /\ (~cmd.retries => \A r \in Rows : Unnoted(r))
    BY <2>2 DEF Unpublished, Rowed, Forward
  <2>7. ProfileIsBacked' /\ Unpublished'
    BY <2>3, <2>4, <2>6 DEF ProfileIsBacked, Unpublished, Moved
  <2>8. \A r \in Rows : r # cmd.row => tree'[r] = tree[r]
    BY <2>4 DEF SInv, Types
  <2>9. Rowed'
    BY <2>3, <2>4, <2>6, <2>8 DEF Rowed, Unnoted, Moved
  <2>. QED  BY <2>5, <2>7, <2>9 DEF UInv
<1>3. CASE NoteWorktree
  <2>1. /\ "note row" \in Creating /\ "add" \in Creating /\ "publish" \in Creating
        /\ At("note row") /\ "created" \in RowStatuses
    BY <1>3 DEF NoteWorktree, Creating, Forward, RowStatuses
  <2>2. /\ cmd \in CreateCommand /\ cmd.at = "note row" /\ Unpublished /\ Rowed /\ cmd.row \in Rows
        /\ journal \in Journals /\ ~record /\ (topology.state # "none" => record) /\ journal.status # "rolled back"
    BY <2>1, UndoStation
  <2>3. cmd'.at \in {"add", "publish"} /\ cmd'.retries = cmd.retries
    BY <1>3, <2>2 DEF NoteWorktree, Go, CreateCommand
  <2>4. /\ journal'.status = journal.status
        /\ \A r \in Rows : journal'.row[r] = IF r = cmd.row THEN "created" ELSE journal.row[r]
    BY <1>3, <2>1, <2>2, Noted DEF NoteWorktree
  <2>5. UNCHANGED <<record, tree, profile, ref, topology>>
    BY <1>3 DEF NoteWorktree, sources, reach, users
  <2>6. RolledBack'
    BY <2>1, <2>2, <2>3, <2>4, <2>5, Continuing
  <2>7. ~profile /\ ~ref /\ (~cmd.retries => \A r \in Rows : r # cmd.row => Unnoted(r))
    BY <2>2 DEF Unpublished, Rowed, Forward
  <2>8. ProfileIsBacked' /\ Unpublished'
    BY <2>3, <2>5, <2>7 DEF ProfileIsBacked, Unpublished
  <2>9. ~cmd.retries => \A r \in Rows : Unnoted(r)'
    BY <2>4, <2>5, <2>7 DEF Unnoted
  <2>10. Rowed'
    BY <2>3, <2>9 DEF Rowed
  <2>. QED  BY <2>6, <2>8, <2>10 DEF UInv
<1>. QED
  BY <1>1, <1>2, <1>3

\* Reference and profile are owed by the command that published them.
LEMMA PublishingOwes ==
  ASSUME Assumptions, SInv, UInv, PublishReference \/ NoteReference \/ WriteProfile \/ NoteProfileCreated
  PROVE  UInv'
<1>1. CASE PublishReference
  <2>1. "publish" \in Creating /\ "note reference" \in Creating /\ At("publish")
    BY <1>1 DEF PublishReference, Creating, Forward
  <2>2. /\ cmd \in CreateCommand /\ cmd.at = "publish" /\ Unpublished /\ Rowed
        /\ ~record /\ (topology.state # "none" => record) /\ journal.status # "rolled back"
    BY <2>1, UndoStation
  <2>3. Moved("note reference")
    BY <1>1, <2>1, <2>2, Creates DEF PublishReference
  <2>4. UNCHANGED <<journal, record, tree, profile, topology>>
    BY <1>1 DEF PublishReference, creation, sources, users
  <2>5. RolledBack'
    BY <2>1, <2>2, <2>3, <2>4, Continuing DEF Moved
  <2>6. ~profile /\ (~cmd.retries => \A r \in Rows : Unnoted(r))
    BY <2>2 DEF Unpublished, Rowed, Forward
  <2>7. ProfileIsBacked' /\ Unpublished'
    BY <2>3, <2>4, <2>6 DEF ProfileIsBacked, Unpublished, Moved
  <2>8. Rowed'
    BY <2>3, <2>4, <2>6 DEF Rowed, Unnoted, Moved
  <2>. QED  BY <2>5, <2>7, <2>8 DEF UInv
<1>2. CASE NoteReference
  <2>1. /\ "note reference" \in Creating /\ "write profile" \in Creating /\ At("note reference")
        /\ "reference-published" \in ProfileStatuses
    BY <1>2 DEF NoteReference, Creating, Forward, ProfileStatuses
  <2>2. /\ cmd \in CreateCommand /\ cmd.at = "note reference" /\ Unpublished /\ Rowed
        /\ journal \in Journals
        /\ ~record /\ (topology.state # "none" => record) /\ journal.status # "rolled back"
    BY <2>1, UndoStation
  <2>3. cmd'.at = "write profile" /\ cmd'.referenced /\ cmd'.retries = cmd.retries
    BY <1>2, <2>2 DEF NoteReference, CreateCommand
  <2>4. journal'.status = journal.status /\ journal'.row = journal.row
    BY <1>2, <2>1, <2>2, Noted DEF NoteReference
  <2>5. UNCHANGED <<record, tree, profile, ref, topology>>
    BY <1>2 DEF NoteReference, sources, reach, users
  <2>6. RolledBack'
    BY <2>1, <2>2, <2>3, <2>4, <2>5, Continuing
  <2>7. ~profile /\ (~cmd.retries => \A r \in Rows : Unnoted(r))
    BY <2>2 DEF Unpublished, Rowed, Forward
  <2>8. ProfileIsBacked' /\ Unpublished'
    BY <2>3, <2>5, <2>7 DEF ProfileIsBacked, Unpublished
  <2>9. Rowed'
    BY <2>3, <2>4, <2>5, <2>7 DEF Rowed, Unnoted
  <2>. QED  BY <2>6, <2>8, <2>9 DEF UInv
<1>3. CASE WriteProfile
  <2>1. "write profile" \in Creating /\ "note profile" \in Creating /\ At("write profile")
    BY <1>3 DEF WriteProfile, Creating, Forward
  <2>2. /\ cmd \in CreateCommand /\ cmd.at = "write profile" /\ Published /\ Rowed
        /\ ~record /\ (topology.state # "none" => record) /\ journal.status # "rolled back"
    BY <2>1, UndoStation
  <2>3. Moved("note profile")
    BY <1>3, <2>1, <2>2, Creates DEF WriteProfile
  <2>4. UNCHANGED <<journal, record, tree, branch, ref, topology>>
    BY <1>3 DEF WriteProfile, creation, sources, users
  <2>5. RolledBack'
    BY <2>1, <2>2, <2>3, <2>4, Continuing DEF Moved
  <2>6. Built /\ ref /\ (~cmd.retries => \A r \in Rows : Unnoted(r))
    BY <2>2 DEF Published, Rowed, Forward
  <2>7. ProfileIsBacked'
    BY <2>4, <2>6 DEF ProfileIsBacked, Built, Stands
  <2>8. Unpublished'
    BY <2>3 DEF Unpublished, Moved
  <2>9. Rowed'
    BY <2>3, <2>4, <2>6 DEF Rowed, Unnoted, Moved
  <2>. QED  BY <2>5, <2>7, <2>8, <2>9 DEF UInv
<1>4. CASE NoteProfileCreated
  <2>1. /\ "note profile" \in Creating /\ "record" \in Creating /\ At("note profile")
        /\ "created" \in ProfileStatuses
    BY <1>4 DEF NoteProfileCreated, Creating, Forward, ProfileStatuses
  <2>2. /\ cmd \in CreateCommand /\ cmd.at = "note profile" /\ ProfileIsBacked /\ Rowed
        /\ journal \in Journals
        /\ ~record /\ (topology.state # "none" => record) /\ journal.status # "rolled back"
    BY <2>1, UndoStation
  <2>3. cmd'.at = "record" /\ cmd'.profiled /\ cmd'.retries = cmd.retries
    BY <1>4, <2>2 DEF NoteProfileCreated, CreateCommand
  <2>4. journal'.status = journal.status /\ journal'.row = journal.row
    BY <1>4, <2>1, <2>2, Noted DEF NoteProfileCreated
  <2>5. UNCHANGED <<record, tree, branch, profile, ref, topology>>
    BY <1>4 DEF NoteProfileCreated, sources, reach, users
  <2>6. RolledBack'
    BY <2>1, <2>2, <2>3, <2>4, <2>5, Continuing
  <2>7. ~cmd.retries => \A r \in Rows : Unnoted(r)
    BY <2>2 DEF Rowed, Forward
  <2>8. ProfileIsBacked' /\ Unpublished'
    BY <2>2, <2>3, <2>5 DEF ProfileIsBacked, Unpublished
  <2>9. Rowed'
    BY <2>3, <2>4, <2>5, <2>7 DEF Rowed, Unnoted
  <2>. QED  BY <2>6, <2>8, <2>9 DEF UInv
<1>. QED
  BY <1>1, <1>2, <1>3, <1>4

\* Once it is recorded nothing is owed.
LEMMA RecordingOwes ==
  ASSUME Assumptions, SInv, UInv, WriteRecord \/ Complete
  PROVE  UInv'
<1>1. CASE WriteRecord
  <2>1. "record" \in Creating /\ "complete" \in Creating /\ At("record")
    BY <1>1 DEF WriteRecord, Creating, Forward
  <2>2. cmd \in CreateCommand /\ ProfileIsBacked /\ journal.status # "rolled back"
    BY <2>1, UndoStation
  <2>3. Moved("complete")
    BY <1>1, <2>1, <2>2, Creates DEF WriteRecord
  <2>4. record' /\ UNCHANGED <<journal, tree, branch, profile, ref>>
    BY <1>1 DEF WriteRecord, sources, reach
  <2>5. Unpublished' /\ Rowed'
    BY <2>3 DEF Unpublished, Rowed, Forward, Moved
  <2>. QED  BY <2>2, <2>4, <2>5 DEF UInv, ProfileIsBacked, RolledBack, RolledBackIsClean
<1>2. CASE Complete
  <2>1. "complete" \in Creating /\ At("complete") /\ "complete" \in Statuses
    BY <1>2 DEF Complete, Creating, Statuses
  <2>2. ProfileIsBacked /\ journal \in Journals /\ (topology.state # "none" => record)
    BY <2>1, UndoStation
  <2>3. cmd' = Idle /\ UNCHANGED <<record, tree, branch, profile, ref, topology>>
    BY <1>2 DEF Complete, sources, reach, users
  <2>4. journal'.status = "complete"
    BY <1>2, <2>1, <2>2, Noted DEF Complete
  <2>. QED  BY <2>2, <2>3, <2>4, Leaving DEF ProfileIsBacked, RolledBack, RolledBackIsClean
<1>. QED
  BY <1>1, <1>2

\* A step that fails before its effect leaves to the rollback what is noted.
LEMMA FailingOwes ==
  ASSUME Assumptions, SInv, UInv, "between" \notin Faults, Fail
  PROVE  UInv'
<1>1. cmd.at \in {"add", "publish", "write profile", "record"}
  BY DEF Fail, May, Effects
<1>2. /\ cmd.at \in Forward /\ cmd.at # "note row" /\ cmd.at # "note profile" /\ At(cmd.at)
      /\ cmd.at # "complete"
  BY <1>1 DEF Forward, At
<1>3. /\ cmd \in CreateCommand /\ cmd.row \in Rows /\ Unpublished /\ Rowed /\ ProfileIsBacked
      /\ journal \in Journals /\ ~record /\ topology.state = "none"
  BY <1>2, UndoStation DEF Creating
<1>4. /\ UNCHANGED <<record, tree, profile, topology>>
      /\ ref' = (ref /\ ~(At("write profile") /\ ~cmd.retries))
      /\ branch' = branch \/ branch' = [branch EXCEPT ![cmd.row] = Asked]
  BY DEF Fail, users
<1>5. profile => cmd.at = "record"
  BY <1>1 DEF Unpublished, Forward, UInv
<1>6. ProfileIsBacked'
  <2>. SUFFICES ASSUME profile PROVE ref' /\ \A r \in Rows : tree[r] # "none" /\ branch'[r] # NoBranch
    BY <1>4 DEF ProfileIsBacked
  <2>1. ref /\ \A r \in Rows : tree[r] # "none" /\ branch[r] # NoBranch
    BY <1>3 DEF ProfileIsBacked
  <2>2. ref'
    BY <1>4, <1>5, <2>1 DEF At
  <2>3. branch \in [Rows -> Nat] /\ Asked # NoBranch
    BY DEF SInv, Types, Asked, NoBranch
  <2>4. \A r \in Rows : branch'[r] # NoBranch
    BY <1>4, <2>1, <2>3
  <2>. QED  BY <2>1, <2>2, <2>4
<1>7. CASE cmd.retries
  <2>1. Note("recovery required") /\ cmd' = Idle
    BY <1>7 DEF Fail
  <2>2. journal'.status = "recovery required"
    BY <1>3, <2>1, Noted DEF Statuses
  <2>. QED  BY <1>3, <1>4, <1>6, <2>1, <2>2, Leaving DEF RolledBack, RolledBackIsClean, Idle,
     Creating, Forward, Backward
<1>8. CASE ~cmd.retries
  <2>1. Note("rolling back") /\ Go("undo profile")
    BY <1>8 DEF Fail
  <2>2. journal'.status = "rolling back" /\ journal'.row = journal.row
    BY <1>3, <2>1, Noted DEF Statuses
  <2>3. "undo profile" \in Creating
    BY DEF Creating, Backward
  <2>4. Moved("undo profile")
    BY <1>3, <2>1, <2>3, Creates
  <2>5. profile => cmd.profiled
    BY <1>3, <1>5 DEF Unpublished
  <2>6. ref' => cmd.profiled \/ cmd.referenced
    BY <1>1, <1>3, <1>4, <1>8 DEF Unpublished, At
  <2>7. Unpublished'
    BY <1>4, <2>4, <2>5, <2>6 DEF Unpublished, Moved, Forward
  <2>8. \A r \in Rows : Unnoted(r)
    BY <1>2, <1>3, <1>8 DEF Rowed
  <2>9. Rowed'
    BY <1>4, <2>2, <2>4, <2>8 DEF Rowed, Unnoted, Moved, Forward
  <2>10. RolledBack'
    BY <1>3, <1>4, <2>2, <2>3, <2>4, Continuing DEF Moved
  <2>. QED  BY <1>6, <2>7, <2>9, <2>10 DEF UInv
<1>. QED
  BY <1>7, <1>8

\* An uncertain profile is no more readable than its reference and its rows.
LEMMA UncertaintyOwes ==
  ASSUME Assumptions, SInv, UInv, PublicationUncertain
  PROVE  UInv'
<1>1. cmd.at \in {"write profile", "record"}
  BY DEF PublicationUncertain
<1>2. cmd.at \in Creating /\ At(cmd.at) /\ cmd.at # "complete"
  BY <1>1 DEF Creating, Forward, At
<1>3. Published /\ ProfileIsBacked /\ journal \in Journals /\ topology.state = "none"
  BY <1>2, UndoStation
<1>4. cmd' = Idle /\ UNCHANGED <<tree, branch, ref, topology>>
  BY DEF PublicationUncertain, sources, users
<1>5. journal'.status = "recovery required"
  BY <1>3 DEF PublicationUncertain, Journals
<1>6. ref /\ Built
  BY <1>1, <1>3 DEF Published
<1>7. ProfileIsBacked'
  BY <1>4, <1>6 DEF ProfileIsBacked, Built, Stands
<1>8. RolledBack'
  BY <1>3, <1>4, <1>5 DEF RolledBack, RolledBackIsClean
<1>. QED
  BY <1>4, <1>7, <1>8, Leaving

\* The profile goes before its reference.
LEMMA UndoProfileOwes ==
  ASSUME Assumptions, SInv, UInv, UndoProfile \/ UndoReference \/ UndoFails
  PROVE  UInv'
<1>1. CASE UndoProfile
  <2>1. "undo profile" \in Creating /\ "undo reference" \in Creating /\ At("undo profile")
    BY <1>1 DEF UndoProfile, Creating, Backward
  <2>2. /\ cmd \in CreateCommand /\ cmd.at = "undo profile" /\ Unpublished /\ Rowed
        /\ ~record /\ (topology.state # "none" => record) /\ journal.status # "rolled back"
    BY <2>1, UndoStation
  <2>3. Moved("undo reference")
    BY <1>1, <2>1, <2>2, Creates DEF UndoProfile
  <2>4. UNCHANGED <<journal, record, tree, ref, topology>> /\ profile' = (profile /\ ~cmd.profiled)
    BY <1>1 DEF UndoProfile, creation, sources, users
  <2>5. RolledBack'
    BY <2>1, <2>2, <2>3, <2>4, Continuing DEF Moved
  <2>6. (profile => cmd.profiled) /\ (ref => cmd.profiled \/ cmd.referenced) /\ \A r \in Rows : Unnoted(r)
    BY <2>2 DEF Unpublished, Rowed
  <2>7. ~profile'
    BY <2>4, <2>6
  <2>8. ProfileIsBacked' /\ Unpublished'
    BY <2>3, <2>4, <2>6, <2>7 DEF ProfileIsBacked, Unpublished, Moved, Forward
  <2>9. Rowed'
    BY <2>3, <2>4, <2>6 DEF Rowed, Unnoted, Moved, Forward
  <2>. QED  BY <2>5, <2>8, <2>9 DEF UInv
<1>2. CASE UndoReference \/ UndoFails
  <2>1. cmd.at \in {"undo profile", "undo reference"} /\ cmd.at \in Creating /\ At(cmd.at)
    BY <1>2 DEF UndoReference, UndoFails, At, Creating, Backward
  <2>2. /\ cmd \in CreateCommand /\ Unpublished /\ Rowed /\ ProfileIsBacked /\ journal \in Journals
        /\ (topology.state # "none" => record) /\ journal.status # "rolled back"
    BY <2>1, UndoStation
  <2>3. ~record
    BY <2>1 DEF SInv, Recorded, Backward
  <2>4. /\ cmd'.at = "undo row" /\ cmd'.row = N /\ "undo row" \in Creating
        /\ (UndoFails => cmd'.uncertain)
    BY <1>2, <2>2 DEF UndoReference, UndoFails, GoUndoRows, CreateCommand, Creating, Backward
  <2>5. journal'.status = journal.status /\ journal'.row = journal.row
    BY <1>2, <2>2, Noted DEF UndoReference, UndoFails, ProfileStatuses
  <2>6. UNCHANGED <<record, tree, branch, profile, topology>>
    BY <1>2 DEF UndoReference, UndoFails, sources, reach, users
  <2>7. RolledBack'
    BY <2>2, <2>3, <2>4, <2>5, <2>6, Continuing
  <2>8. \A r \in Rows : Unnoted(r)
    BY <2>1, <2>2 DEF Rowed
  <2>9. Rowed'
    <3>1. \A r \in Rows : ~(r > N)
      BY <2>2, RowOrder DEF CreateCommand
    <3>. QED  BY <2>4, <2>5, <2>6, <2>8, <3>1 DEF Rowed, Unnoted, Forward
  <2>10. CASE UndoReference
    <3>1. ~profile /\ (ref => cmd.profiled \/ cmd.referenced)
      BY <2>2, <2>10 DEF Unpublished, UndoReference, At
    <3>2. ~ref'
      BY <2>10, <3>1 DEF UndoReference
    <3>3. ProfileIsBacked' /\ Unpublished'
      BY <2>4, <2>6, <3>1, <3>2 DEF ProfileIsBacked, Unpublished, Referenced, Forward
    <3>. QED  BY <2>7, <2>9, <3>3 DEF UInv
  <2>11. CASE UndoFails
    <3>1. ref' = ref
      BY <2>11 DEF UndoFails, reach
    <3>2. ProfileIsBacked' /\ Unpublished'
      BY <2>2, <2>4, <2>6, <2>11, <3>1 DEF ProfileIsBacked, Unpublished, Forward
    <3>. QED  BY <2>7, <2>9, <3>2 DEF UInv
  <2>. QED  BY <1>2, <2>10, <2>11
<1>. QED
  BY <1>1, <1>2

\* The row that was looked at is passed, and what is above it is as it was.
LEMMA Passing ==
  ASSUME Assumptions, cmd \in CreateCommand, NextRowUp \/ PreserveRow,
         \A r \in Rows : r <= cmd.row /\ r # cmd.row => Unnoted(r)',
         ~cmd'.uncertain => /\ ~Referenced' /\ tree'[cmd.row] = "none"
                            /\ \A r \in Rows : r > cmd.row => tree'[r] = "none"
  PROVE  cmd'.at \in Creating /\ Unpublished' /\ Rowed'
<1>1. /\ cmd'.at \in {"undo row", "undone"}
      /\ IF cmd.row = 1 THEN cmd'.at = "undone" /\ cmd'.row = 1
         ELSE cmd'.at = "undo row" /\ cmd'.row = cmd.row - 1
  BY UndoneRow
<1>2. cmd.row \in Rows /\ cmd'.at \in Creating
  BY <1>1 DEF CreateCommand, Creating, Backward
<1>3. Unpublished'
  BY <1>1 DEF Unpublished, Forward
<1>4. CASE cmd.row = 1
  <2>1. \A r \in Rows : r = cmd.row \/ r > cmd.row
    BY <1>2, <1>4, RowOrder
  <2>2. ~cmd'.uncertain => \A r \in Rows : tree'[r] = "none"
    BY <2>1
  <2>. QED  BY <1>1, <1>2, <1>3, <1>4, <2>2 DEF Rowed, Forward
<1>5. CASE cmd.row # 1
  <2>1. \A r \in Rows : r <= cmd.row - 1 => r <= cmd.row /\ r # cmd.row
    BY <1>2, RowOrder
  <2>2. \A r \in Rows : r > cmd.row - 1 => r = cmd.row \/ r > cmd.row
    BY <1>2, RowOrder
  <2>3. cmd'.at = "undo row" /\ cmd'.row = cmd.row - 1
    BY <1>1, <1>5
  <2>4. \A r \in Rows : r <= cmd'.row => Unnoted(r)'
    BY <2>1, <2>3
  <2>5. ~cmd'.uncertain => \A r \in Rows : r > cmd'.row => tree'[r] = "none"
    BY <2>2, <2>3
  <2>. QED  BY <1>2, <1>3, <2>3, <2>4, <2>5 DEF Rowed, Forward
<1>. QED
  BY <1>4, <1>5

\* A row that is preserved makes the rollback uncertain.
LEMMA PreservingOwes ==
  ASSUME Assumptions, SInv, UInv, cmd.at \in {"undo row", "undo tree", "undo branch"}, PreserveRow,
         UNCHANGED <<record, tree, branch, profile, ref, topology>>
  PROVE  UInv'
<1>1. cmd.at \in Creating /\ At(cmd.at)
  BY DEF Creating, Backward, At
<1>2. /\ cmd \in CreateCommand /\ Rowed /\ ProfileIsBacked /\ journal \in Journals
      /\ (topology.state # "none" => record) /\ journal.status # "rolled back" /\ ~record
  BY <1>1, UndoStation
<1>3. journal'.status = journal.status /\ \A r \in Rows : r # cmd.row => journal'.row[r] = journal.row[r]
  BY <1>2, Noted DEF PreserveRow, RowStatuses
<1>4. cmd'.uncertain
  BY <1>2, UndoneRow
<1>5. \A r \in Rows : r <= cmd.row /\ r # cmd.row => Unnoted(r)'
  BY <1>2, <1>3 DEF Rowed, Unnoted
<1>6. cmd'.at \in Creating /\ Unpublished' /\ Rowed'
  BY <1>2, <1>4, <1>5, Passing
<1>7. RolledBack'
  BY <1>2, <1>3, <1>6, Continuing
<1>. QED
  BY <1>2, <1>6, <1>7 DEF UInv, ProfileIsBacked

\* The rows go once no profile can be read, from the last to the first.
LEMMA UndoRowOwes ==
  ASSUME Assumptions, SInv, UInv, UndoRow
  PROVE  UInv'
<1>1. /\ cmd.at = "undo row" /\ cmd.at \in Creating /\ At(cmd.at) /\ "undo tree" \in Creating
     
      /\ UNCHANGED <<record, tree, branch, profile, ref, topology>>
  BY DEF UndoRow, At, Creating, Backward, sources, reach, users
<1>2. /\ cmd \in CreateCommand /\ cmd.row \in Rows /\ Unpublished /\ Rowed /\ ProfileIsBacked
      /\ journal \in Journals
      /\ (topology.state # "none" => record) /\ journal.status # "rolled back" /\ ~record
  BY <1>1, UndoStation
<1>3. /\ \A r \in Rows : r <= cmd.row => Unnoted(r)
      /\ ~cmd.uncertain => ~Referenced /\ \A r \in Rows : r > cmd.row => tree[r] = "none"
  BY <1>1, <1>2 DEF Rowed, Unpublished
<1>4. cmd.row <= cmd.row
  BY <1>2, RowOrder
<1>5. CASE journal' = journal /\ NextRowUp /\ journal.row[cmd.row] # "created"
  <2>1. tree[cmd.row] = "none"
    BY <1>2, <1>3, <1>4, <1>5 DEF Unnoted
  <2>2. cmd'.uncertain = cmd.uncertain
    BY <1>2, <1>5, UndoneRow
  <2>3. cmd'.at \in Creating /\ Unpublished' /\ Rowed'
    BY <1>1, <1>2, <1>3, <1>5, <2>1, <2>2, Passing DEF Unnoted, Referenced
  <2>4. RolledBack'
    BY <1>1, <1>2, <1>5, <2>3, Continuing
  <2>. QED  BY <1>1, <1>2, <1>5, <2>3, <2>4 DEF UInv, ProfileIsBacked
<1>6. CASE Exact(cmd.row) /\ Go("undo tree") /\ journal' = journal
  <2>1. Moved("undo tree")
    BY <1>1, <1>2, <1>6, Creates
  <2>2. Unpublished'
    BY <1>1, <1>6, <2>1 DEF Unpublished, Moved, Forward, Referenced, Exact
  <2>3. Rowed'
    BY <1>1, <1>3, <1>6, <2>1 DEF Rowed, Moved, Forward, Unnoted
  <2>4. RolledBack'
    BY <1>1, <1>2, <1>6, <2>1, Continuing DEF Moved
  <2>. QED  BY <1>1, <1>2, <2>2, <2>3, <2>4 DEF UInv, ProfileIsBacked
<1>. QED
  BY <1>1, <1>5, <1>6, PreservingOwes DEF UndoRow

\* A worktree that Git refuses to remove is preserved.
LEMMA UndoTreeOwes ==
  ASSUME Assumptions, SInv, UInv, UndoTree
  PROVE  UInv'
<1>1. /\ cmd.at = "undo tree" /\ cmd.at \in Creating /\ At(cmd.at) /\ "undo branch" \in Creating
      /\ UNCHANGED <<record, branch, profile, ref, topology>>
  BY DEF UndoTree, At, Creating, Backward, reach, users
<1>2. /\ cmd \in CreateCommand /\ cmd.row \in Rows /\ Unpublished /\ Rowed
      /\ (topology.state # "none" => record) /\ journal.status # "rolled back" /\ ~record
      /\ tree \in [Rows -> {"none", "clean", "dirty", "half"}]
  BY <1>1, UndoStation
<1>3. /\ \A r \in Rows : r <= cmd.row => Unnoted(r)
      /\ ~Referenced
      /\ ~cmd.uncertain => \A r \in Rows : r > cmd.row => tree[r] = "none"
  BY <1>1, <1>2 DEF Rowed, Unpublished
<1>4. CASE tree' = [tree EXCEPT ![cmd.row] = "none"] /\ Go("undo branch") /\ journal' = journal
  <2>1. Moved("undo branch")
    BY <1>1, <1>2, <1>4, Creates
  <2>2. \A r \in Rows : tree'[r] = tree[r] \/ tree'[r] = "none"
    BY <1>2, <1>4
  <2>3. ProfileIsBacked' /\ Unpublished'
    BY <1>1, <1>3, <2>1 DEF ProfileIsBacked, Unpublished, Moved, Forward, Referenced
  <2>4. Rowed'
    BY <1>1, <1>3, <1>4, <2>1, <2>2 DEF Rowed, Moved, Forward, Unnoted
  <2>5. RolledBack'
    BY <1>1, <1>2, <1>4, <2>1, Continuing DEF Moved
  <2>. QED  BY <2>3, <2>4, <2>5 DEF UInv
<1>. QED
  BY <1>1, <1>4, PreservingOwes DEF UndoTree

\* A branch that cannot go is preserved.
LEMMA UndoBranchOwes ==
  ASSUME Assumptions, SInv, UInv, UndoBranch
  PROVE  UInv'
<1>1. /\ cmd.at = "undo branch" /\ cmd.at \in Creating /\ At(cmd.at)
      /\ UNCHANGED <<record, tree, profile, ref, topology>>
  BY DEF UndoBranch, At, Creating, Backward, reach, users
<1>2. /\ cmd \in CreateCommand /\ cmd.row \in Rows /\ Unpublished /\ Rowed /\ Published
      /\ journal \in Journals
      /\ (topology.state # "none" => record) /\ journal.status # "rolled back" /\ ~record
  BY <1>1, UndoStation
<1>3. /\ tree[cmd.row] = "none" /\ ~Referenced
      /\ \A r \in Rows : r <= cmd.row => Unnoted(r)
      /\ ~cmd.uncertain => \A r \in Rows : r > cmd.row => tree[r] = "none"
  BY <1>1, <1>2 DEF Rowed, Unpublished, Published
<1>4. CASE NoteRow("rolled back") /\ NextRowUp
  <2>1. journal'.status = journal.status /\ \A r \in Rows : r # cmd.row => journal'.row[r] = journal.row[r]
    BY <1>2, <1>4, Noted DEF RowStatuses
  <2>2. cmd'.uncertain = cmd.uncertain
    BY <1>2, <1>4, UndoneRow
  <2>3. \A r \in Rows : r <= cmd.row /\ r # cmd.row => Unnoted(r)'
    BY <1>1, <1>3, <2>1 DEF Unnoted
  <2>4. cmd'.at \in Creating /\ Unpublished' /\ Rowed'
    BY <1>1, <1>2, <1>3, <1>4, <2>2, <2>3, Passing DEF Referenced
  <2>5. RolledBack'
    BY <1>1, <1>2, <2>1, <2>4, Continuing
  <2>6. ProfileIsBacked'
    BY <1>1, <1>3 DEF ProfileIsBacked, Referenced
  <2>. QED  BY <2>4, <2>5, <2>6 DEF UInv
<1>. QED
  BY <1>1, <1>4, PreservingOwes DEF UndoBranch

\* So is a row that Git fails at.
LEMMA UndoRowFailsOwes ==
  ASSUME Assumptions, SInv, UInv, UndoRowFails
  PROVE  UInv'
BY PreservingOwes DEF UndoRowFails, sources, reach, users

\* A rollback without uncertainty has taken everything back.
LEMMA EndOwes ==
  ASSUME Assumptions, SInv, UInv, UndoEnds \/ Kill \/ KillHalfway
  PROVE  UInv'
<1>1. cmd' = Idle /\ UNCHANGED <<record, branch, profile, ref, topology>>
  BY DEF UndoEnds, Kill, KillHalfway, sources, reach, creation, users
<1>2. ProfileIsBacked /\ Unpublished /\ Rowed /\ RolledBack /\ Types
  BY DEF UInv, SInv
<1>3. CASE UndoEnds
  <2>1. cmd.at = "undone" /\ ~record /\ tree' = tree /\ journal \in Journals
    BY <1>2, <1>3 DEF UndoEnds, At, sources, SInv, Recorded, Backward, Types
  <2>2. journal'.status = (IF cmd.uncertain THEN "recovery required" ELSE "rolled back")
    BY <1>3, <2>1, Noted DEF UndoEnds, Statuses
  <2>3. ~cmd.uncertain => Nothing
    BY <1>2, <2>1 DEF Nothing, Unpublished, Rowed, RolledBack
  <2>4. RolledBack'
    BY <1>1, <1>2, <2>1, <2>2, <2>3 DEF RolledBack, RolledBackIsClean, Nothing, Referenced, Idle,
       Creating,
       Forward, Backward
  <2>. QED  BY <1>1, <1>2, <2>1, <2>4, Leaving DEF ProfileIsBacked
<1>4. CASE Kill
  <2>1. UNCHANGED <<tree, journal>>
    BY <1>4 DEF Kill, sources, creation
  <2>2. RolledBack'
    BY <1>1, <1>2, <2>1 DEF RolledBack, RolledBackIsClean, Nothing, Referenced, Idle, Creating,
       Forward, Backward
  <2>. QED  BY <1>1, <1>2, <2>1, <2>2, Leaving DEF ProfileIsBacked
<1>5. CASE KillHalfway
  <2>1. journal' = journal /\ (tree' = tree \/ \E r : tree' = [tree EXCEPT ![r] = "half"])
    BY <1>5 DEF KillHalfway, creation
  <2>2. \A r \in Rows : tree[r] # "none" => tree'[r] # "none"
    BY <1>2, <2>1 DEF Types
  <2>3. ProfileIsBacked'
    BY <1>1, <1>2, <2>2 DEF ProfileIsBacked
  <2>4. cmd.at \in Creating \cup Releasing
    BY <1>5 DEF KillHalfway, Creating, Forward, Backward, Releasing
  <2>5. journal.status # "rolled back"
    BY <1>2, <2>4 DEF RolledBack, SInv, Recorded
  <2>6. RolledBack'
    BY <1>1, <1>2, <2>1, <2>5 DEF RolledBack, RolledBackIsClean, Idle, Creating, Forward, Backward
  <2>. QED  BY <1>1, <2>3, <2>6, Leaving
<1>. QED
  BY <1>3, <1>4, <1>5

\* Users take no worktree away, and a topology comes up only in a scope on record.
LEMMA UsedOwes ==
  ASSUME UInv, UNCHANGED <<journal, record, profile, ref, cmd>>,
         \A r \in Rows : /\ tree[r] = "none" <=> tree'[r] = "none"
                         /\ branch[r] # NoBranch => branch'[r] # NoBranch,
         topology' = topology \/ record
  PROVE  UInv'
<1>1. ProfileIsBacked'
  BY DEF UInv, ProfileIsBacked
<1>2. Unpublished'
  BY DEF UInv, Unpublished, Referenced
<1>3. \A r \in Rows : Unnoted(r)' <=> Unnoted(r)
  BY DEF Unnoted
<1>4. Rowed'
  BY <1>3 DEF UInv, Rowed
<1>5. RolledBack'
  BY DEF UInv, RolledBack, RolledBackIsClean, Nothing, Referenced
<1>. QED
  BY <1>1, <1>2, <1>4, <1>5 DEF UInv

\* Users make no worktree, no profile and no reference.
LEMMA UsageOwes ==
  ASSUME Assumptions, SInv, UInv, Usage \/ Preview
  PROVE  UInv'
<1>1. Types /\ RolledBack
  BY DEF SInv, UInv
<1>2. CASE Preview \/ Up \/ Down \/ \E b \in Builds : Build(b)
  <2>1. UNCHANGED <<tree, branch, journal, record, profile, ref, cmd>>
    BY <1>2 DEF Up, Down, Build, Preview, creation, sources, reach
  <2>2. topology' = topology \/ record
    BY <1>1, <1>2 DEF Up, Down, Build, Preview, MayUse, users, RolledBack
  <2>. QED  BY <2>1, <2>2, UsedOwes
<1>3. ASSUME NEW r \in Rows, Edit(r)
      PROVE  UInv'
  <2>1. /\ UNCHANGED <<branch, journal, record, profile, ref, topology, cmd>>
        /\ tree[r] \in {"clean", "dirty"}
        /\ \E t \in {"clean", "dirty"} : tree' = [tree EXCEPT ![r] = t]
    BY <1>1, <1>3 DEF Edit, creation, reach, users, Types
  <2>2. \A q \in Rows : tree[q] = "none" <=> tree'[q] = "none"
    BY <1>1, <2>1 DEF Types
  <2>. QED  BY <2>1, <2>2, UsedOwes
<1>4. ASSUME NEW r \in Rows, Commit(r)
      PROVE  UInv'
  <2>1. /\ UNCHANGED <<journal, record, profile, ref, topology, cmd>>
        /\ tree[r] \in {"clean", "dirty"}
        /\ tree' = [tree EXCEPT ![r] = "clean"] /\ branch' = [branch EXCEPT ![r] = @ + 1]
    BY <1>4 DEF Commit, creation, reach, users
  <2>2. \A q \in Rows : /\ (tree[q] = "none" <=> tree'[q] = "none")
                        /\ q # r => branch'[q] = branch[q]
    BY <1>1, <2>1 DEF Types
  <2>3. branch'[r] # NoBranch
    BY <1>1, <2>1 DEF Types, NoBranch
  <2>. QED  BY <2>1, <2>2, <2>3, UsedOwes
<1>. QED
  BY <1>2, <1>3, <1>4 DEF Usage

\* A release that is at no station before which the scope must be out of reach.
LEMMA Released ==
  ASSUME SInv, UInv, cmd.at \in Releasing, UNCHANGED <<journal, record, topology>>,
         cmd' = Idle \/ cmd' \in ReleaseCommand, ProfileIsBacked',
         cmd'.at = "remove tree" => ~Referenced',
         cmd'.at \in {"remove reference", "remove branch"} => ~profile'
  PROVE  UInv'
<1>1. cmd'.at = "idle" \/ cmd'.at \in Releasing
  <2>1. cmd' \in ReleaseCommand => cmd'.at \in Releasing
    BY DEF ReleaseCommand
  <2>2. Idle.at = "idle"
    BY DEF Idle
  <2>. QED  BY <2>1, <2>2
<1>2. record /\ journal.status # "rolled back"
  BY DEF SInv, Recorded, UInv, RolledBack
<1>3. Unpublished' /\ Rowed'
  BY <1>1 DEF Unpublished, Rowed, Forward, Releasing
<1>4. RolledBack'
  BY <1>2 DEF RolledBack, RolledBackIsClean
<1>. QED
  BY <1>3, <1>4 DEF UInv

\* A release takes the profile before its reference, and that before a worktree.
LEMMA ReleaseOwes ==
  ASSUME SInv, UInv, ReleaseBegins \/ ReleaseSteps
  PROVE  UInv'
<1>1. ProfileIsBacked /\ Unpublished /\ RolledBack /\ Types
  BY DEF UInv, SInv
<1>2. CASE ReleaseBegins
  <2>1. /\ cmd'.at = "journal"
        /\ UNCHANGED <<journal, record, tree, branch, profile, ref, topology>>
    BY <1>2 DEF ReleaseBegins, creation, sources, reach, users
  <2>2. Unpublished' /\ Rowed'
    BY <2>1 DEF Unpublished, Rowed, Forward
  <2>3. RolledBack'
    BY <1>1, <2>1 DEF RolledBack, RolledBackIsClean, Nothing, Referenced, Creating, Forward,
       Backward
  <2>. QED  BY <1>1, <2>1, <2>2, <2>3 DEF UInv, ProfileIsBacked
<1>3. CASE ReleaseSteps
  <2>1. cmd.at \in Releasing /\ UNCHANGED <<journal, record, topology>>
    BY <1>3 DEF ReleaseSteps, WriteRelease, CheckEvidence, NextAction, CheckBuild, RemoveBuild,
       CheckProfile,
       UnlinkProfile, RemoveReference, CheckTree, RemoveTree, RemoveBranch, Finish, ReleaseEnds,
       At, Releasing,
       creation, users
  <2>2. cmd \in ReleaseCommand
    BY <1>1, <2>1, Stations
  <2>3. ASSUME NEW station \in Releasing, Go(station)
        PROVE  cmd' \in ReleaseCommand /\ cmd'.at = station
    BY <2>2, <2>3, Releases
  <2>4. Idle.at = "idle"
    BY DEF Idle
  <2>5. CASE WriteRelease \/ CheckEvidence \/ RemoveBuild
    <3>1. "evidence" \in Releasing /\ "next" \in Releasing /\ "finish" \in Releasing
      BY DEF Releasing
    <3>2. cmd' = Idle \/ (cmd' \in ReleaseCommand /\ cmd'.at \in {"evidence", "next", "finish"})
      BY <2>3, <2>5, <3>1 DEF WriteRelease, CheckEvidence, RemoveBuild
    <3>3. UNCHANGED <<tree, branch, profile, ref>>
      BY <2>5 DEF WriteRelease, CheckEvidence, RemoveBuild, sources, reach
    <3>. QED  BY <1>1, <2>1, <2>4, <3>2, <3>3, Released DEF ProfileIsBacked
  <2>6. CASE NextAction
    <3>1. Place(Doing) \in {"build", "profile", "tree"}
      BY DEF Place
    <3>2. Place(Doing) \in Releasing
      BY <3>1 DEF Releasing
    <3>3. cmd' = [cmd EXCEPT !.action = @ + 1] => cmd' \in ReleaseCommand /\ cmd'.at = "next"
      BY <2>2, <2>6 DEF ReleaseCommand, NextAction, At
    <3>4. cmd' = Idle \/ (cmd' \in ReleaseCommand /\ cmd'.at \in {"next", "build", "profile", "tree"})
      BY <2>3, <2>6, <3>1, <3>2, <3>3 DEF NextAction
    <3>5. UNCHANGED <<tree, branch, profile, ref>>
      BY <2>6 DEF NextAction, sources, reach
    <3>. QED  BY <1>1, <2>1, <2>4, <3>4, <3>5, Released DEF ProfileIsBacked
  <2>7. CASE CheckBuild
    <3>1. "remove build" \in Releasing
      BY DEF Releasing
    <3>2. cmd' = Idle \/ (cmd' \in ReleaseCommand /\ cmd'.at = "remove build")
      BY <2>3, <2>7, <3>1 DEF CheckBuild, Removing, Refuse
    <3>3. UNCHANGED <<tree, branch, profile, ref>>
      BY <2>7 DEF CheckBuild, sources, reach
    <3>. QED  BY <1>1, <2>1, <2>4, <3>2, <3>3, Released DEF ProfileIsBacked
  <2>8. CASE CheckProfile
    <3>1. "unlink profile" \in Releasing /\ "remove reference" \in Releasing
      BY DEF Releasing
    <3>2. \/ cmd' = Idle
          \/ cmd' \in ReleaseCommand /\ cmd'.at = "unlink profile"
          \/ cmd' \in ReleaseCommand /\ cmd'.at = "remove reference" /\ ~profile
      BY <2>3, <2>8, <3>1 DEF CheckProfile, Removing, Refuse
    <3>3. UNCHANGED <<tree, branch, profile, ref>>
      BY <2>8 DEF CheckProfile, sources, reach
    <3>. QED  BY <1>1, <2>1, <2>4, <3>2, <3>3, Released DEF ProfileIsBacked
  <2>9. CASE UnlinkProfile
    <3>1. "remove reference" \in Releasing
      BY DEF Releasing
    <3>2. cmd' \in ReleaseCommand /\ cmd'.at = "remove reference"
      BY <2>3, <2>9, <3>1 DEF UnlinkProfile
    <3>3. ~profile'
      BY <2>9 DEF UnlinkProfile
    <3>. QED  BY <2>1, <3>2, <3>3, Released DEF ProfileIsBacked
  <2>10. CASE RemoveReference
    <3>1. "finish" \in Releasing
      BY DEF Releasing
    <3>2. cmd' \in ReleaseCommand /\ cmd'.at = "finish"
      BY <2>3, <2>10, <3>1 DEF RemoveReference
    <3>3. ~profile'
      BY <1>1, <2>10 DEF RemoveReference, At, Unpublished
    <3>. QED  BY <2>1, <3>2, <3>3, Released DEF ProfileIsBacked
  <2>11. CASE CheckTree
    <3>1. "remove branch" \in Releasing /\ "remove tree" \in Releasing
      BY DEF Releasing
    <3>2. UNCHANGED <<tree, branch, profile, ref>>
      BY <2>11 DEF CheckTree, sources, reach
    <3>3. \/ cmd' = Idle
          \/ cmd' \in ReleaseCommand /\ cmd'.at = "remove branch" /\ \E r \in Rows : tree[r] = "none"
          \/ cmd' \in ReleaseCommand /\ cmd'.at = "remove tree" /\ ~Referenced
      BY <2>3, <2>11, <3>1 DEF CheckTree, Removing, Refuse
    <3>. QED  BY <1>1, <2>1, <2>4, <3>2, <3>3, Released DEF ProfileIsBacked, Referenced
  <2>12. CASE RemoveTree
    <3>1. "remove branch" \in Releasing
      BY DEF Releasing
    <3>2. cmd' = Idle \/ (cmd' \in ReleaseCommand /\ cmd'.at = "remove branch")
      BY <2>3, <2>12, <3>1 DEF RemoveTree
    <3>3. ~profile'
      BY <1>1, <2>12 DEF RemoveTree, At, Unpublished, Referenced, reach
    <3>. QED  BY <2>1, <2>4, <3>2, <3>3, Released DEF ProfileIsBacked
  <2>13. CASE RemoveBranch
    <3>1. "finish" \in Releasing
      BY DEF Releasing
    <3>2. cmd' = Idle \/ (cmd' \in ReleaseCommand /\ cmd'.at = "finish")
      BY <2>3, <2>13, <3>1 DEF RemoveBranch
    <3>3. ~profile'
      BY <1>1, <2>13 DEF RemoveBranch, At, Unpublished, reach
    <3>. QED  BY <2>1, <2>4, <3>2, <3>3, Released DEF ProfileIsBacked
  <2>14. CASE Finish \/ ReleaseEnds
    <3>1. "next" \in Releasing
      BY DEF Releasing
    <3>2. cmd.action \in Nat
      BY <2>2 DEF ReleaseCommand
    <3>3. cmd.action + 1 \in Nat
      BY <3>2
    <3>4. cmd' = [cmd EXCEPT !.at = "next", !.action = @ + 1] => cmd' \in ReleaseCommand /\ cmd'.at = "next"
      BY <2>2, <3>1, <3>3 DEF ReleaseCommand
    <3>5. cmd' = Idle \/ (cmd' \in ReleaseCommand /\ cmd'.at = "next")
      BY <2>14, <3>4 DEF Finish, ReleaseEnds
    <3>6. UNCHANGED <<tree, branch, profile, ref>>
      BY <2>14 DEF Finish, ReleaseEnds, sources, reach
    <3>. QED  BY <1>1, <2>1, <2>4, <3>5, <3>6, Released DEF ProfileIsBacked
  <2>. QED
    BY <1>3, <2>5, <2>6, <2>7, <2>8, <2>9, <2>10, <2>11, <2>12, <2>13, <2>14 DEF ReleaseSteps
<1>. QED
  BY <1>2, <1>3

-----------------------------------------------------------------------------
\* Every step keeps the second invariant.
LEMMA StepOwes ==
  ASSUME Assumptions, "between" \notin Faults, SInv, UInv, [Next]_vars
  PROVE  UInv'
<1>1. CASE CreateBegins \/ RetryBegins
  BY <1>1, BeginningOwes
<1>2. CASE CreateSteps
  BY <1>2, AddingOwes, PublishingOwes, RecordingOwes, UndoProfileOwes, UndoRowOwes,
     UndoTreeOwes, UndoBranchOwes, EndOwes
  DEF CreateSteps
<1>3. CASE Preview \/ Usage
  BY <1>3, UsageOwes
<1>4. CASE ReleaseBegins \/ ReleaseSteps
  BY <1>4, ReleaseOwes
<1>5. CASE Failures
  BY <1>5, FailingOwes, UncertaintyOwes, UndoProfileOwes, UndoRowFailsOwes, EndOwes DEF Failures
<1>6. CASE UNCHANGED vars
  BY <1>6, UsedOwes DEF vars, creation, sources, reach, users
<1>. QED
  BY <1>1, <1>2, <1>3, <1>4, <1>5, <1>6 DEF Next

\* The second invariant needs the first, and that no command fails once an effect
\* of it is there and before its journal says so.
THEOREM NothingOwed ==
  ASSUME Assumptions, "between" \notin Faults
  PROVE  Spec => []UInv
<1>1. Init => UInv
  <2>1. Init => cmd.at = "idle" /\ journal.status = "none" /\ ~record /\ ~profile /\ topology.state = "none"
    BY DEF Init, Idle
  <2>. QED  BY <2>1 DEF UInv, ProfileIsBacked, Unpublished, Rowed, RolledBack, RolledBackIsClean,
               Creating, Forward, Backward
<1>2. SInv /\ UInv /\ [Next]_vars => UInv'
  BY StepOwes
<1>. QED
  BY <1>1, <1>2, Invariance, PTL DEF Spec

\* A profile that can be read is backed by its physical reference and by worktrees
\* that are all there, however a creation or a release was interrupted.
THEOREM Backed ==
  ASSUME Assumptions, "between" \notin Faults
  PROVE  Spec => []ProfileIsBacked
<1>1. UInv => ProfileIsBacked
  BY DEF UInv
<1>. QED
  BY <1>1, NothingOwed, PTL

\* A creation that says it is rolled back left at most branches behind, so that
\* the exact request can be made again.
THEOREM RolledBackClean ==
  ASSUME Assumptions, "between" \notin Faults
  PROVE  Spec => []RolledBackIsClean
<1>1. UInv => RolledBackIsClean
  BY DEF UInv, RolledBack
<1>. QED
  BY <1>1, NothingOwed, PTL

-----------------------------------------------------------------------------
(* What a rollback preserves *)

Undone == {"rolling back", "rolled back"}

\* Which rows a creation, a rollback and a record can have.  A row that is noted as
\* created keeps its branch as long as its command runs; no creation goes on with a row
\* that is preserved, and no first attempt with one that was taken back.
Undertaking ==
  /\ journal.status = "none" => \A r \in Rows : journal.row[r] = "planned"
  /\ cmd.at \in Forward => journal.status \in {"bare", "creating", "recovering"}
  /\ cmd.at \in Backward => journal.status = "rolling back"
  /\ (cmd.at \in Forward /\ ~cmd.retries) => \A r \in Rows : journal.row[r] # "rolled back"
  /\ (record \/ cmd.at \in Forward) => \A r \in Rows : journal.row[r] # "preserved"
  /\ cmd.at \in {"undo tree", "undo branch"} => journal.row[cmd.row] = "created"
  /\ cmd.at \in Forward \cup Backward =>
       \A r \in Rows : journal.row[r] = "created" => branch[r] # NoBranch

Preserving == Undertaking /\ PreservedIsThere

\* Steps that note no row, and take no branch away.
LEMMA KeepsRows ==
  ASSUME Preserving, journal'.row = journal.row,
         \A r \in Rows : branch[r] # NoBranch => branch'[r] # NoBranch,
         journal'.status \in Undone =>
           \/ \A r \in Rows : journal.row[r] # "rolled back"
           \/ /\ journal.status \in Undone
              /\ \A r \in Rows : (tree[r] = "none" /\ branch[r] = NoBranch) =>
                                  tree'[r] = "none" /\ branch'[r] = NoBranch,
         journal'.status = "none" => journal.status = "none",
         cmd'.at \in Forward =>
           /\ cmd.at \in Forward /\ cmd'.retries = cmd.retries
           /\ journal'.status \in {"bare", "creating", "recovering"},
         cmd'.at \in Backward => cmd.at \in Forward \cup Backward /\ journal'.status = "rolling back",
         record' => record \/ cmd.at \in Forward,
         cmd'.at \in {"undo tree", "undo branch"} => journal.row[cmd'.row] = "created"
  PROVE  Preserving'
<1>1. Undertaking'
  BY DEF Preserving, Undertaking
<1>2. PreservedIsThere'
  BY DEF Preserving, PreservedIsThere, Undone
<1>. QED
  BY <1>1, <1>2 DEF Preserving

\* A retry finds no row that was preserved, a first attempt none that was taken back.
LEMMA BeginningPreserves ==
  ASSUME Assumptions, SInv, Preserving, CreateBegins \/ RetryBegins
  PROVE  Preserving'
<1>1. PICK station \in {"reserve", "add"}, retries \in BOOLEAN, status \in {"bare", "recovering"} :
        /\ Start(station, retries) /\ Note(status) /\ UNCHANGED <<record, tree, branch>>
        /\ retries \/ journal.status = "none"
  BY DEF CreateBegins, RetryBegins, sources
<1>2. /\ station \in Creating /\ status \in Statuses /\ station \in Forward
      /\ station \notin Backward /\ station \notin {"undo tree", "undo branch"}
  BY DEF Creating, Forward, Backward, Statuses
<1>3. cmd'.at = station /\ cmd'.retries = retries
  BY <1>1, <1>2, Begins
<1>4. journal'.row = journal.row /\ journal'.status = status
  BY <1>1, <1>2, Noted DEF SInv, Types
<1>5. \A r \in Rows : journal.row[r] \in {"planned", "rolled back"}
  BY DEF CreateBegins, RetryBegins, Retryable, Preserving, Undertaking
<1>6. ~retries => \A r \in Rows : journal.row[r] = "planned"
  BY <1>1 DEF Preserving, Undertaking
<1>7. Undertaking'
  BY <1>1, <1>2, <1>3, <1>4, <1>5, <1>6 DEF Undertaking
<1>8. PreservedIsThere'
  BY <1>4, <1>5 DEF PreservedIsThere
<1>. QED
  BY <1>7, <1>8 DEF Preserving

\* The steps of a creation that note no row.
LEMMA GoingPreserves ==
  ASSUME Assumptions, SInv, Preserving,
         \/ Reserve \/ AddWorktree \/ PublishReference \/ NoteReference \/ WriteProfile
         \/ NoteProfileCreated \/ WriteRecord
  PROVE  Preserving'
<1>1. cmd.at \in {"reserve", "add", "publish", "note reference", "write profile", "note profile", "record"}
  BY DEF Reserve, AddWorktree, PublishReference, NoteReference, WriteProfile, NoteProfileCreated,
     WriteRecord, At
<1>2. cmd.at \in Forward /\ cmd.at \in Creating
  BY <1>1 DEF Forward, Creating
<1>3. cmd \in CreateCommand /\ journal \in Journals /\ branch \in [Rows -> Nat]
  BY <1>2, Stations DEF SInv, Types
<1>4. journal.status \in {"bare", "creating", "recovering"}
  BY <1>2 DEF Preserving, Undertaking
<1>5. journal'.row = journal.row /\ journal'.status \in {"bare", "creating", "recovering"}
  <2>1. journal' = journal \/ Note("creating") \/ NoteProfile("reference-published") \/ NoteProfile("created")
    BY DEF Reserve, AddWorktree, PublishReference, NoteReference, WriteProfile, NoteProfileCreated,
       WriteRecord, creation
  <2>2. "creating" \in Statuses /\ "reference-published" \in ProfileStatuses /\ "created" \in ProfileStatuses
    BY DEF Statuses, ProfileStatuses
  <2>. QED  BY <1>3, <1>4, <2>1, <2>2, Noted
<1>6. \A r \in Rows : branch[r] # NoBranch => branch'[r] # NoBranch
  <2>1. branch' = branch \/ branch' = [branch EXCEPT ![cmd.row] = Asked]
    BY DEF Reserve, AddWorktree, PublishReference, NoteReference, WriteProfile, NoteProfileCreated,
       WriteRecord, sources
  <2>. QED  BY <1>3, <2>1 DEF Asked, NoBranch
<1>7. cmd'.retries = cmd.retries /\ cmd'.at \in Forward \cup {"complete"}
  BY <1>3 DEF Reserve, AddWorktree, PublishReference, NoteReference, WriteProfile, NoteProfileCreated,
     WriteRecord, Go, CreateCommand, Forward
<1>8. cmd'.at \notin Backward /\ cmd'.at \notin {"undo tree", "undo branch"}
  BY <1>7 DEF Forward, Backward
<1>. QED
  BY <1>2, <1>5, <1>6, <1>7, <1>8, KeepsRows DEF Undone

\* A row is noted as created with its branch there.
LEMMA NotePreserves ==
  ASSUME Assumptions, SInv, Preserving, NoteWorktree
  PROVE  Preserving'
<1>1. "note row" \in Creating /\ "note row" \in Forward /\ At("note row") /\ "created" \in RowStatuses
  BY DEF NoteWorktree, Creating, Forward, RowStatuses
<1>2. /\ cmd \in CreateCommand /\ cmd.at = "note row" /\ cmd.row \in Rows /\ Published
      /\ journal \in Journals /\ journal.status # "none" /\ ~record
  BY <1>1, CreateStation
<1>3. cmd'.at \in {"add", "publish"} /\ cmd'.retries = cmd.retries
  BY <1>2 DEF NoteWorktree, Go, CreateCommand
<1>4. /\ journal'.status = journal.status /\ UNCHANGED <<record, tree, branch>>
      /\ \A r \in Rows : journal'.row[r] = IF r = cmd.row THEN "created" ELSE journal.row[r]
  BY <1>1, <1>2, Noted DEF NoteWorktree, sources
<1>5. branch[cmd.row] # NoBranch
  BY <1>2, RowOrder DEF Published, Stands
<1>6. cmd'.at \notin Backward /\ cmd'.at \notin {"undo tree", "undo branch"}
  BY <1>3 DEF Backward
<1>7. Undertaking'
  BY <1>1, <1>2, <1>3, <1>4, <1>5, <1>6 DEF Preserving, Undertaking
<1>8. PreservedIsThere'
  BY <1>4 DEF Preserving, PreservedIsThere
<1>. QED
  BY <1>7, <1>8 DEF Preserving

\* A command that ends or is killed takes no branch with it.
LEMMA EndingPreserves ==
  ASSUME Assumptions, SInv, Preserving,
         Complete \/ PublicationUncertain \/ UndoEnds \/ Kill \/ KillHalfway
  PROVE  Preserving'
<1>1. /\ journal \in Journals /\ tree \in [Rows -> {"none", "clean", "dirty", "half"}]
      /\ cmd.at \in Creating => journal.status # "none"
  BY DEF SInv, Types, Recorded
<1>2. cmd' = Idle /\ Idle.at = "idle" /\ branch' = branch
  BY DEF Complete, PublicationUncertain, UndoEnds, Kill, KillHalfway, sources, Idle
<1>3. cmd'.at \notin Forward \cup Backward /\ cmd'.at \notin {"undo tree", "undo branch"}
  BY <1>2 DEF Forward, Backward
<1>4. CASE Complete \/ PublicationUncertain
  <2>1. journal'.row = journal.row /\ journal'.status \in {"complete", "recovery required"}
    BY <1>1, <1>4, Noted DEF Complete, PublicationUncertain, Statuses, Journals
  <2>2. record' => record \/ cmd.at \in Forward
    BY <1>4 DEF Complete, PublicationUncertain, Forward
  <2>. QED  BY <1>2, <1>3, <2>1, <2>2, KeepsRows DEF Undone
<1>5. CASE UndoEnds
  <2>1. journal.status = "rolling back" /\ UNCHANGED <<record, tree>>
    BY <1>5 DEF UndoEnds, At, Backward, Preserving, Undertaking, sources
  <2>2. journal'.row = journal.row /\ journal'.status # "none"
    BY <1>1, <1>5, Noted DEF UndoEnds, Statuses
  <2>. QED  BY <1>2, <1>3, <2>1, <2>2, KeepsRows DEF Undone
<1>6. CASE Kill
  <2>1. UNCHANGED <<journal, record, tree>>
    BY <1>6 DEF Kill, creation, sources
  <2>. QED  BY <1>2, <1>3, <2>1, KeepsRows
<1>7. CASE KillHalfway
  <2>1. UNCHANGED <<journal, record>>
    BY <1>7 DEF KillHalfway, creation
  <2>2. cmd.at = "add" => journal.status \notin Undone
    BY DEF Preserving, Undertaking, Forward, Undone
  <2>3. cmd.at # "add" => \A r \in Rows : tree[r] = "none" => tree'[r] = "none"
    <3>1. CASE cmd.at = "undo tree"
      BY <1>1, <1>7, <3>1 DEF KillHalfway, At
    <3>2. CASE cmd.at = "remove tree"
      BY <1>1, <1>7, <3>2 DEF KillHalfway, At
    <3>3. CASE cmd.at = "remove build"
      BY <1>7, <3>3 DEF KillHalfway, At
    <3>. QED  BY <1>7, <3>1, <3>2, <3>3 DEF KillHalfway
  <2>. QED  BY <1>2, <1>3, <2>1, <2>2, <2>3, KeepsRows
<1>. QED
  BY <1>4, <1>5, <1>6, <1>7

\* A rollback begins with no row taken back.
LEMMA FailingPreserves ==
  ASSUME Assumptions, SInv, Preserving, Fail
  PROVE  Preserving'
<1>1. cmd.at \in Forward
  BY DEF Fail, Effects, Notes, Forward
<1>2. cmd \in CreateCommand /\ journal \in Journals /\ branch \in [Rows -> Nat]
  BY <1>1, Stations DEF SInv, Types, Creating
<1>3. record' = record
  BY DEF Fail
<1>4. \A r \in Rows : branch[r] # NoBranch => branch'[r] # NoBranch
  <2>1. branch' = branch \/ branch' = [branch EXCEPT ![cmd.row] = Asked]
    BY DEF Fail
  <2>. QED  BY <1>2, <2>1 DEF Asked, NoBranch
<1>5. CASE cmd.retries
  <2>1. Note("recovery required") /\ cmd' = Idle
    BY <1>5 DEF Fail
  <2>2. journal'.row = journal.row /\ journal'.status = "recovery required"
    BY <1>2, <2>1, Noted DEF Statuses
  <2>3. cmd'.at \notin Forward \cup Backward /\ cmd'.at \notin {"undo tree", "undo branch"}
    BY <2>1 DEF Idle, Forward, Backward
  <2>. QED  BY <1>3, <1>4, <2>2, <2>3, KeepsRows DEF Undone
<1>6. CASE ~cmd.retries
  <2>1. Note("rolling back") /\ Go("undo profile")
    BY <1>6 DEF Fail
  <2>2. journal'.row = journal.row /\ journal'.status = "rolling back"
    BY <1>2, <2>1, Noted DEF Statuses
  <2>3. \A r \in Rows : journal.row[r] # "rolled back"
    BY <1>1, <1>6 DEF Preserving, Undertaking
  <2>4. cmd'.at = "undo profile" /\ "undo profile" \notin Forward
    BY <1>2, <2>1 DEF Go, CreateCommand, Forward
  <2>. QED  BY <1>1, <1>3, <1>4, <2>2, <2>3, <2>4, KeepsRows
<1>. QED
  BY <1>5, <1>6

\* What is known of a rollback and of its row.
LEMMA UndoFacts ==
  ASSUME SInv, Preserving, cmd.at \in Backward
  PROVE  /\ cmd \in CreateCommand /\ cmd.row \in Rows /\ journal \in Journals /\ ~record
         /\ journal.status = "rolling back" /\ cmd.at \notin Forward
         /\ tree \in [Rows -> {"none", "clean", "dirty", "half"}] /\ branch \in [Rows -> Nat]
         /\ \A r \in Rows : journal.row[r] = "created" => branch[r] # NoBranch
BY Stations DEF SInv, Types, Recorded, Creating, Preserving, Undertaking, Forward, Backward

\* A rollback that goes on without a note takes no branch away.
LEMMA UndoingPreserves ==
  ASSUME SInv, Preserving, cmd.at \in Backward, cmd'.at \in Backward, journal'.row = journal.row,
         journal'.status = journal.status, UNCHANGED <<record, branch>>,
         \A r \in Rows : tree[r] = "none" => tree'[r] = "none",
         cmd'.at \in {"undo tree", "undo branch"} => journal.row[cmd'.row] = "created"
  PROVE  Preserving'
<1>1. journal.status = "rolling back"
  BY UndoFacts
<1>2. cmd'.at \notin Forward
  BY DEF Forward, Backward
<1>. QED
  BY <1>1, <1>2, KeepsRows DEF Undone

\* A row that is preserved has its branch, whatever users have done meanwhile.
LEMMA PreservesRow ==
  ASSUME Assumptions, SInv, Preserving, cmd.at \in Backward, PreserveRow,
         journal.row[cmd.row] = "created", UNCHANGED <<record, tree, branch>>
  PROVE  Preserving'
<1>1. /\ cmd \in CreateCommand /\ cmd.row \in Rows /\ journal \in Journals /\ ~record
      /\ journal.status = "rolling back"
      /\ \A r \in Rows : journal.row[r] = "created" => branch[r] # NoBranch
  BY UndoFacts
<1>2. cmd'.at \in {"undo row", "undone"}
  BY <1>1, UndoneRow
<1>3. cmd'.at \notin Forward /\ cmd'.at \notin {"undo tree", "undo branch"}
  BY <1>2 DEF Forward
<1>4. /\ journal'.status = journal.status
      /\ \A r \in Rows : journal'.row[r] = IF r = cmd.row THEN "preserved" ELSE journal.row[r]
  BY <1>1, Noted DEF PreserveRow, RowStatuses
<1>5. Undertaking'
  BY <1>1, <1>3, <1>4 DEF Undertaking
<1>6. PreservedIsThere'
  BY <1>1, <1>4 DEF Preserving, PreservedIsThere
<1>. QED
  BY <1>5, <1>6 DEF Preserving

\* A row is taken back whole or preserved.
LEMMA UndoPreserves ==
  ASSUME Assumptions, SInv, Preserving,
         \/ UndoProfile \/ UndoReference \/ UndoFails
         \/ UndoRow \/ UndoTree \/ UndoBranch \/ UndoRowFails
  PROVE  Preserving'
<1>1. cmd.at \in Backward
  BY DEF UndoProfile, UndoReference, UndoFails, UndoRow, UndoTree, UndoBranch, UndoRowFails, At,
     Backward
<1>2. /\ cmd \in CreateCommand /\ cmd.row \in Rows /\ journal \in Journals /\ ~record
      /\ journal.status = "rolling back"
      /\ tree \in [Rows -> {"none", "clean", "dirty", "half"}] /\ branch \in [Rows -> Nat]
      /\ \A r \in Rows : journal.row[r] = "created" => branch[r] # NoBranch
  BY <1>1, UndoFacts
<1>3. /\ "undo reference" \in Backward /\ "undo row" \in Backward /\ "undo tree" \in Backward
      /\ "undo branch" \in Backward /\ "undone" \in Backward
      /\ "undo tree" \in Creating /\ "undo branch" \in Creating
  BY DEF Backward, Creating
<1>4. CASE UndoProfile \/ UndoReference \/ UndoFails
  <2>1. cmd'.at \in {"undo reference", "undo row"}
    BY <1>2, <1>4 DEF UndoProfile, UndoReference, UndoFails, Go, GoUndoRows, CreateCommand
  <2>2. journal'.row = journal.row /\ journal'.status = journal.status /\ UNCHANGED <<record, tree, branch>>
    BY <1>2, <1>4, Noted DEF UndoProfile, UndoReference, UndoFails, ProfileStatuses, creation, sources
  <2>. QED  BY <1>1, <1>3, <2>1, <2>2, UndoingPreserves
<1>5. CASE UndoRow
  <2>1. UNCHANGED <<record, tree, branch>>
    BY <1>5 DEF UndoRow, sources
  <2>2. CASE NextRowUp /\ journal' = journal
    <3>1. cmd'.at \in {"undo row", "undone"}
      BY <1>2, <2>2, UndoneRow
    <3>. QED  BY <1>1, <1>3, <2>1, <2>2, <3>1, UndoingPreserves
  <2>3. CASE Go("undo tree") /\ journal' = journal /\ journal.row[cmd.row] = "created"
    <3>1. Moved("undo tree")
      BY <1>2, <1>3, <2>3, Creates
    <3>. QED  BY <1>1, <1>3, <2>1, <2>3, <3>1, UndoingPreserves DEF Moved
  <2>. QED  BY <1>1, <1>5, <2>1, <2>2, <2>3, PreservesRow DEF UndoRow
<1>6. CASE UndoTree
  <2>1. journal.row[cmd.row] = "created" /\ UNCHANGED <<record, branch>>
    BY <1>6 DEF UndoTree, At, Preserving, Undertaking
  <2>2. CASE tree' = [tree EXCEPT ![cmd.row] = "none"] /\ Go("undo branch") /\ journal' = journal
    <3>1. Moved("undo branch")
      BY <1>2, <1>3, <2>2, Creates
    <3>2. \A r \in Rows : tree[r] = "none" => tree'[r] = "none"
      BY <1>2, <2>2
    <3>. QED  BY <1>1, <1>3, <2>1, <2>2, <3>1, <3>2, UndoingPreserves DEF Moved
  <2>. QED  BY <1>1, <1>6, <2>1, <2>2, PreservesRow DEF UndoTree
<1>7. CASE UndoBranch
  <2>1. /\ journal.row[cmd.row] = "created" /\ tree[cmd.row] = "none"
        /\ UNCHANGED <<record, tree>>
    BY <1>7 DEF UndoBranch, At, Preserving, Undertaking, SInv, Published
  <2>2. CASE branch' = [branch EXCEPT ![cmd.row] = NoBranch] /\ NoteRow("rolled back") /\ NextRowUp
    <3>1. cmd'.at \in {"undo row", "undone"}
      BY <1>2, <2>2, UndoneRow
    <3>2. cmd'.at \notin Forward /\ cmd'.at \notin {"undo tree", "undo branch"}
      BY <3>1 DEF Forward
    <3>3. /\ journal'.status = journal.status
          /\ \A r \in Rows : journal'.row[r] = IF r = cmd.row THEN "rolled back" ELSE journal.row[r]
      BY <1>2, <2>2, Noted DEF RowStatuses
    <3>4. \A r \in Rows : branch'[r] = IF r = cmd.row THEN NoBranch ELSE branch[r]
      BY <1>2, <2>2
    <3>5. Undertaking'
      BY <1>2, <2>1, <3>2, <3>3, <3>4 DEF Undertaking
    <3>6. PreservedIsThere'
      BY <1>2, <2>1, <3>3, <3>4 DEF Preserving, PreservedIsThere
    <3>. QED  BY <3>5, <3>6 DEF Preserving
  <2>. QED  BY <1>1, <1>7, <2>1, <2>2, PreservesRow DEF UndoBranch
<1>8. CASE UndoRowFails
  BY <1>1, <1>8, PreservesRow DEF UndoRowFails, sources
<1>. QED
  BY <1>4, <1>5, <1>6, <1>7, <1>8

\* Users take no branch away and make none.
LEMMA UsagePreserves ==
  ASSUME SInv, Preserving, Preview \/ Usage \/ UNCHANGED vars
  PROVE  Preserving'
<1>1. UNCHANGED <<journal, record, cmd>>
  BY DEF Preview, Usage, Up, Down, Build, Edit, Commit, vars, creation
<1>2. tree \in [Rows -> {"none", "clean", "dirty", "half"}] /\ branch \in [Rows -> Nat]
  BY DEF SInv, Types
<1>. DEFINE UsersKeep == \A r \in Rows : /\ branch[r] # NoBranch => branch'[r] # NoBranch
                                         /\ (tree[r] = "none" /\ branch[r] = NoBranch) =>
                                              tree'[r] = "none" /\ branch'[r] = NoBranch
<1>3. UsersKeep
  <2>1. CASE UNCHANGED <<tree, branch>>
    BY <2>1
  <2>2. ASSUME NEW q \in Rows, Edit(q)
        PROVE  UsersKeep
    BY <1>2, <2>2 DEF Edit
  <2>3. ASSUME NEW q \in Rows, Commit(q)
        PROVE  UsersKeep
    BY <1>2, <2>3 DEF Commit, NoBranch
  <2>. QED
    BY <2>1, <2>2, <2>3 DEF Preview, Usage, Up, Down, Build, vars, sources
<1>4. cmd.at \in {"undo tree", "undo branch"} => journal.row[cmd.row] = "created"
  BY DEF Preserving, Undertaking
<1>5. /\ cmd.at \in Forward => journal.status \in {"bare", "creating", "recovering"}
      /\ cmd.at \in Backward => journal.status = "rolling back"
  BY DEF Preserving, Undertaking
<1>. QED
  BY <1>1, <1>3, <1>4, <1>5, KeepsRows

\* A release finds no row preserved, and makes no worktree and no branch.
LEMMA ReleasePreserves ==
  ASSUME SInv, Preserving, ReleaseBegins \/ ReleaseSteps
  PROVE  Preserving'
<1>1. UNCHANGED <<journal, record>>
  BY DEF ReleaseBegins, ReleaseSteps, WriteRelease, CheckEvidence, NextAction, CheckBuild, RemoveBuild,
     CheckProfile, UnlinkProfile, RemoveReference, CheckTree, RemoveTree, RemoveBranch, Finish,
     ReleaseEnds, creation
<1>2. record
  BY DEF ReleaseBegins, ReleaseSteps, WriteRelease, CheckEvidence,
     NextAction, CheckBuild, RemoveBuild, CheckProfile, UnlinkProfile, RemoveReference, CheckTree, RemoveTree,
     RemoveBranch, Finish, ReleaseEnds, At, SInv, Recorded, Releasing
<1>3. cmd'.at \notin Forward \cup Backward
  <2>1. SInv'
    BY ReleaseBeginsKeeps, ReleaseKeeps
  <2>. QED  BY <1>1, <1>2, <2>1 DEF SInv, Recorded
<1>4. \A r \in Rows : /\ tree[r] = "none" => tree'[r] = "none"
                      /\ branch[r] = NoBranch => branch'[r] = NoBranch
  <2>1. tree' = tree \/ tree' = [tree EXCEPT ![Doing.n] = "none"]
    BY DEF ReleaseBegins, ReleaseSteps, WriteRelease, CheckEvidence, NextAction, CheckBuild, RemoveBuild,
       CheckProfile, UnlinkProfile, RemoveReference, CheckTree, RemoveTree, RemoveBranch, Finish,
       ReleaseEnds, sources
  <2>2. branch' = branch \/ branch' = [branch EXCEPT ![Doing.n] = NoBranch]
    BY DEF ReleaseBegins, ReleaseSteps, WriteRelease, CheckEvidence, NextAction, CheckBuild, RemoveBuild,
       CheckProfile, UnlinkProfile, RemoveReference, CheckTree, RemoveTree, RemoveBranch, Finish,
       ReleaseEnds, sources
  <2>. QED  BY <2>1, <2>2 DEF SInv, Types
<1>5. Undertaking'
  <2>1. "undo tree" \in Backward /\ "undo branch" \in Backward
    BY DEF Backward
  <2>. QED  BY <1>1, <1>2, <1>3, <2>1 DEF Preserving, Undertaking
<1>6. PreservedIsThere'
  BY <1>1, <1>2, <1>4 DEF Preserving, Undertaking, PreservedIsThere
<1>. QED
  BY <1>5, <1>6 DEF Preserving

\* What a rollback says it preserved keeps its branch, with every commit on it, and
\* what it says it took back is gone: also where users or Git are in its way between
\* the look at a row and its removals.
THEOREM Preserved == ASSUME Assumptions PROVE Spec => []PreservedIsThere
<1>1. Init => Preserving
  <2>1. Init => cmd.at = "idle" /\ ~record /\ \A r \in Rows : journal.row[r] = "planned"
    BY DEF Init, Idle
  <2>. QED  BY <2>1 DEF Preserving, Undertaking, PreservedIsThere, Forward, Backward
<1>2. SInv /\ Preserving /\ [Next]_vars => Preserving'
  BY BeginningPreserves, GoingPreserves, NotePreserves, EndingPreserves, FailingPreserves, UndoPreserves,
     UsagePreserves, ReleasePreserves
  DEF Next, CreateSteps, Failures
<1>3. Preserving => PreservedIsThere
  BY DEF Preserving
<1>. QED
  BY <1>1, <1>2, <1>3, Invariance, PTL DEF Spec

-----------------------------------------------------------------------------
(* Which builds a release removes *)

Acting == {"build", "remove build", "profile", "unlink profile", "remove reference", "tree",
           "remove tree", "remove branch", "finish"}
Pending == Actions(release.plan)[release.done + 1]

\* What stands in the root of a build whose removal has begun, if anything does.
Shown ==
  \A b \in Builds : release.phase = "removing" /\ Pending.kind = "build" /\ Pending.n = b
    => built[b] \in {release.plan.build[b], NoBuild, HalfBuild}

\* The command does the action that is pending, and only at the build's own
\* stations one of a build.
Planned ==
  /\ DOMAIN built = Builds /\ release.done \in Nat
  /\ spent \in [fault : Nat, crash : Nat, user : Nat]
  /\ release.status = "none" => release.phase = "none"
  /\ cmd.at = "journal" => cmd.action = 1 /\ (~Replans => preview = release.plan)
  /\ cmd.at \in {"evidence", "next"} => cmd.action <= release.done + 1
  /\ cmd.at \in Acting => cmd.action = release.done + 1
  /\ cmd.at \in {"build", "remove build"} => Doing.kind = "build"
  /\ cmd.at \in {"profile", "tree"} => Doing.kind # "build"
  /\ cmd.at = "remove build" => release.phase = "removing"
  /\ Shown

\* The bounds are used up one by one.
LEMMA Counting ==
  ASSUME Planned, [Next]_vars
  PROVE  spent' \in [fault : Nat, crash : Nat, user : Nat]
<1>1. \/ spent' = spent
      \/ Failing \/ Using
      \/ spent' = [spent EXCEPT !.crash = @ + 1]
  <2>1. CASE CreateBegins \/ RetryBegins \/ CreateSteps
    BY <2>1 DEF CreateBegins, RetryBegins, CreateSteps, Reserve, AddWorktree, NoteWorktree, PublishReference,
       NoteReference, WriteProfile, NoteProfileCreated, WriteRecord, Complete, UndoProfile, UndoReference,
       UndoRow, UndoTree, UndoBranch, UndoEnds
  <2>2. CASE Preview \/ ReleaseBegins \/ ReleaseSteps
    BY <2>2 DEF Preview, ReleaseBegins, ReleaseSteps, WriteRelease, CheckEvidence, NextAction, CheckBuild,
       RemoveBuild, CheckProfile, UnlinkProfile, RemoveReference, CheckTree, RemoveTree, RemoveBranch,
       Finish, ReleaseEnds
  <2>3. CASE Failures
    BY <2>3 DEF Failures, Fail, PublicationUncertain, UndoFails, UndoRowFails, Kill, KillHalfway
  <2>4. CASE Usage
    BY <2>4 DEF Usage, Up, Down, Build, Edit, Commit
  <2>5. CASE UNCHANGED vars
    BY <2>5 DEF vars
  <2>. QED
    BY <2>1, <2>2, <2>3, <2>4, <2>5 DEF Next
<1>2. spent \in [fault : Nat, crash : Nat, user : Nat]
  BY DEF Planned
<1>. QED
  BY <1>1, <1>2 DEF Failing, Using

\* Steps outside of a release change neither its journal nor a build.
LEMMA Outside ==
  ASSUME Planned, UNCHANGED <<built, release>>, spent' \in [fault : Nat, crash : Nat, user : Nat],
         cmd'.at \notin Releasing \/ UNCHANGED <<cmd, preview>>
  PROVE  Planned'
<1>1. Shown'
  BY DEF Planned, Shown, Pending
<1>2. CASE cmd'.at \notin Releasing
  BY <1>1, <1>2 DEF Planned, Releasing, Acting
<1>3. CASE UNCHANGED <<cmd, preview>>
  BY <1>1, <1>3 DEF Planned, Replans, Pristine, Doing
<1>. QED
  BY <1>2, <1>3

\* A creation leads to no station of a release.
LEMMA NotReleasing ==
  ASSUME Assumptions, SInv,
         \/ CreateBegins \/ RetryBegins \/ CreateSteps \/ Preview
         \/ Fail \/ PublicationUncertain \/ UndoFails \/ UndoRowFails \/ Kill
  PROVE  UNCHANGED <<built, release>> /\ cmd'.at \notin Releasing
<1>1. UNCHANGED <<built, release>>
  BY DEF CreateBegins, RetryBegins, CreateSteps, Reserve, AddWorktree, NoteWorktree, PublishReference,
     NoteReference, WriteProfile, NoteProfileCreated, WriteRecord, Complete, UndoProfile, UndoReference,
     UndoRow, UndoTree, UndoBranch, UndoEnds, Preview, Fail, PublicationUncertain, UndoFails, UndoRowFails, Kill, users
<1>2. SInv'
  BY StepKeeps DEF Next, Failures
<1>3. "idle" \notin Releasing /\ Idle.at = "idle" /\ "complete" \notin Releasing
  BY DEF Releasing, Idle
<1>4. CASE Complete \/ PublicationUncertain \/ Kill \/ UndoEnds
  <2>1. cmd' = Idle
    BY <1>4 DEF Complete, PublicationUncertain, Kill, UndoEnds
  <2>. QED  BY <1>1, <1>3, <2>1
<1>5. CASE Preview
  <2>1. cmd' = cmd /\ cmd.at = "idle"
    BY <1>5 DEF Preview, Free
  <2>. QED  BY <1>1, <1>3, <2>1
<1>6. CASE WriteRecord
  <2>1. "record" \in Creating /\ "complete" \in Creating /\ At("record")
    BY <1>6 DEF WriteRecord, Creating, Forward
  <2>2. cmd \in CreateCommand
    BY <2>1, CreateStation
  <2>3. cmd'.at = "complete"
    BY <1>6, <2>1, <2>2, Creates DEF WriteRecord, Moved
  <2>. QED  BY <1>1, <1>3, <2>3
<1>7. CASE /\ ~WriteRecord /\ ~Complete /\ ~PublicationUncertain /\ ~Kill /\ ~UndoEnds /\ ~Preview
  <2>1. record' = record
    BY <1>7 DEF CreateBegins, RetryBegins, CreateSteps, Reserve, AddWorktree, NoteWorktree, PublishReference,
       NoteReference, WriteProfile, NoteProfileCreated, UndoProfile, UndoReference,
       UndoRow, UndoTree, UndoBranch, Fail, UndoFails, UndoRowFails, creation
  <2>2. \/ journal.status = "none" \/ ~record
        \/ cmd.at \in {"reserve", "add", "note row", "publish", "note reference", "write profile", "note profile",
                       "record", "undo profile", "undo reference", "undo row", "undo tree", "undo branch"}
    BY <1>7 DEF CreateBegins, RetryBegins, Retryable, CreateSteps, Reserve, AddWorktree, NoteWorktree,
       PublishReference, NoteReference, WriteProfile, NoteProfileCreated, UndoProfile, UndoReference,
       UndoRow, UndoTree, UndoBranch, Fail, UndoFails, UndoRowFails, At, Effects, Notes
  <2>3. ~record
    BY <2>2 DEF SInv, Recorded, Forward, Backward
  <2>4. cmd'.at \notin Releasing
    BY <1>2, <2>1, <2>3 DEF SInv, Recorded
  <2>. QED  BY <1>1, <2>4
<1>. QED
  BY <1>1, <1>4, <1>5, <1>6, <1>7

\* A creation, a preview and a kill leave the plan of the release alone.
LEMMA CommandsOutside ==
  ASSUME Assumptions, SInv, Planned,
         \/ CreateBegins \/ RetryBegins \/ CreateSteps \/ Preview
         \/ Fail \/ PublicationUncertain \/ UndoFails \/ UndoRowFails \/ Kill
  PROVE  Planned'
<1>1. UNCHANGED <<built, release>> /\ cmd'.at \notin Releasing
  BY NotReleasing
<1>2. spent' \in [fault : Nat, crash : Nat, user : Nat]
  BY Counting DEF Next, Failures
<1>. QED
  BY <1>1, <1>2, Outside

\* Users that do not build over a removal that has begun, and kills.
LEMMA UsersOutside ==
  ASSUME Assumptions, "late" \notin Enabled \/ "rebuild" \notin Enabled, SInv, Planned,
         Usage \/ KillHalfway \/ UNCHANGED vars
  PROVE  Planned'
<1>1. spent' \in [fault : Nat, crash : Nat, user : Nat]
  BY Counting DEF Next, Failures
<1>2. release' = release
  BY DEF Usage, Up, Down, Build, Edit, Commit, KillHalfway, vars
<1>3. "idle" \notin Releasing /\ Idle.at = "idle"
  BY DEF Releasing, Idle
<1>4. CASE UNCHANGED <<built, cmd, preview>>
  BY <1>1, <1>2, <1>4, Outside
<1>5. ASSUME NEW b \in Builds, Build(b)
      PROVE  Planned'
  <2>1. cmd.at = "idle" /\ cmd' = cmd /\ built' = [built EXCEPT ![b] = spent.user + 1]
    BY <1>5 DEF Build, MayUse, Free
  <2>2. release.phase # "removing"
    BY <1>5 DEF Build, MayUse, Planned
  <2>3. DOMAIN built' = Builds
    BY <2>1 DEF Planned
  <2>. QED  BY <1>1, <1>2, <1>3, <2>1, <2>2, <2>3 DEF Planned, Shown, Releasing, Acting
<1>6. CASE KillHalfway
  <2>1. cmd'.at = "idle"
    BY <1>3, <1>6 DEF KillHalfway
  <2>2. built' = built \/ \E n : built' = [built EXCEPT ![n] = HalfBuild]
    BY <1>6 DEF KillHalfway
  <2>3. DOMAIN built' = Builds /\ \A b \in Builds : built'[b] \in {built[b], HalfBuild}
    BY <2>2 DEF Planned
  <2>4. Shown'
    BY <1>2, <2>3 DEF Planned, Shown, Pending
  <2>. QED  BY <1>1, <1>2, <2>1, <2>3, <2>4 DEF Planned, Acting
<1>7. CASE Usage /\ ~\E b \in Builds : Build(b)
  BY <1>4, <1>7 DEF Usage, Up, Down, Edit, Commit, users
<1>8. CASE UNCHANGED vars
  BY <1>4, <1>8 DEF vars, users
<1>. QED
  BY <1>5, <1>6, <1>7, <1>8 DEF Usage

\* Where the release is, of what its journal says.
LEMMA ReleaseStation ==
  ASSUME SInv, NEW station \in Releasing, At(station)
  PROVE  /\ cmd \in ReleaseCommand /\ cmd.at = station /\ cmd.action \in Nat
         /\ DOMAIN release = {"status", "plan", "done", "phase"}
         /\ station # "journal" => release.status # "none"
         /\ \A s \in Releasing : Go(s) => cmd'.at = s /\ cmd'.action = cmd.action
<1>1. cmd.at = station /\ cmd \in ReleaseCommand
  BY Stations DEF At, SInv
<1>. QED
  BY <1>1 DEF SInv, Types, Recorded, ReleaseCommand, Go

\* The plan that is written down is the one that was shown.
LEMMA PlanKept ==
  ASSUME SInv, Planned, ReleaseBegins \/ WriteRelease \/ CheckEvidence
  PROVE  Planned'
<1>1. spent' = spent /\ built' = built
  BY DEF ReleaseBegins, WriteRelease, CheckEvidence, users
<1>2. CASE ReleaseBegins
  <2>1. /\ cmd' = [at |-> "journal", action |-> 1] /\ release' = release /\ preview' = preview
        /\ preview = CurrentPlan
    BY <1>2 DEF ReleaseBegins
  <2>2. cmd'.at = "journal" /\ cmd'.action = 1
    BY <2>1
  <2>3. Shown'
    BY <1>1, <2>1 DEF Planned, Shown, Pending
  <2>4. (~Replans)' => preview' = release'.plan
    BY <2>1 DEF CurrentPlan, Replans, Pristine
  <2>. QED  BY <1>1, <2>1, <2>2, <2>3, <2>4 DEF Planned, Acting
<1>3. CASE WriteRelease
  <2>1. "journal" \in Releasing /\ "evidence" \in Releasing /\ At("journal")
    BY <1>3 DEF WriteRelease, Releasing
  <2>2. cmd.at = "journal" /\ cmd'.at = "evidence" /\ cmd'.action = cmd.action
    BY <1>3, <2>1, ReleaseStation DEF WriteRelease
  <2>3. /\ release'.status = "applying" /\ release'.plan = preview
        /\ release'.done = IF Replans THEN 0 ELSE release.done
        /\ release'.phase = IF Replans THEN "none" ELSE release.phase
    BY <1>3 DEF WriteRelease
  <2>4. cmd.action = 1 /\ (~Replans => preview = release.plan)
    BY <2>2 DEF Planned
  <2>5. release'.done \in Nat
    <3>1. release.done \in Nat
      BY DEF Planned
    <3>. QED  BY <2>3, <3>1
  <2>6. cmd'.action <= release'.done + 1
    BY <2>2, <2>4, <2>5
  <2>7. Shown'
    BY <1>1, <2>3, <2>4 DEF Planned, Shown, Pending
  <2>. QED  BY <1>1, <2>2, <2>3, <2>5, <2>6, <2>7 DEF Planned, Acting
<1>4. CASE CheckEvidence
  <2>1. "next" \in Releasing /\ "evidence" \in Releasing /\ At("evidence") /\ Idle.at = "idle"
    BY <1>4 DEF CheckEvidence, Releasing, Idle
  <2>2. cmd.at = "evidence" /\ (cmd'.at = "idle" \/ (cmd'.at = "next" /\ cmd'.action = cmd.action))
    BY <1>4, <2>1, ReleaseStation DEF CheckEvidence
  <2>3. release' = release
    BY <1>4 DEF CheckEvidence
  <2>4. Shown'
    BY <1>1, <2>3 DEF Planned, Shown, Pending
  <2>. QED  BY <1>1, <2>2, <2>3, <2>4 DEF Planned, Acting
<1>. QED
  BY <1>2, <1>3, <1>4

\* The release goes from action to action.
LEMMA TurnPlanned ==
  ASSUME SInv, Planned, NextAction \/ Finish \/ ReleaseEnds
  PROVE  Planned'
<1>1. spent' = spent /\ built' = built /\ Idle.at = "idle"
  BY DEF NextAction, Finish, ReleaseEnds, users, Idle
<1>2. /\ cmd.at \in {"next", "finish"} /\ At(cmd.at) /\ cmd.at \in Releasing /\ "next" \in Releasing
  BY DEF NextAction, Finish, ReleaseEnds, At, Releasing
<1>3. /\ cmd \in ReleaseCommand /\ cmd.action \in Nat
      /\ DOMAIN release = {"status", "plan", "done", "phase"} /\ release.status # "none"
      /\ release.done \in Nat
  BY <1>2, ReleaseStation DEF Planned
<1>4. CASE NextAction
  <2>1. cmd.at = "next" /\ cmd.action <= release.done + 1
    BY <1>4 DEF NextAction, At, Planned
  <2>2. CASE cmd.action <= release.done
    <3>1. release' = release /\ (cmd' = Idle \/ cmd' = [cmd EXCEPT !.action = @ + 1])
      BY <1>4, <2>2 DEF NextAction
    <3>2. cmd'.at = "idle" \/ (cmd'.at = "next" /\ cmd'.action = cmd.action + 1)
      BY <1>1, <1>3, <2>1, <3>1 DEF ReleaseCommand
    <3>3. cmd.action + 1 <= release.done + 1
      BY <1>3, <2>2
    <3>4. Shown'
      BY <1>1, <3>1 DEF Planned, Shown, Pending
    <3>. QED  BY <1>1, <3>1, <3>2, <3>3, <3>4 DEF Planned, Acting
  <2>3. CASE ~(cmd.action <= release.done)
    <3>1. /\ release' = [release EXCEPT !.phase = IF @ = "none" THEN "prepared" ELSE @]
          /\ Go(Place(Doing))
      BY <1>4, <2>3 DEF NextAction
    <3>2. cmd.action = release.done + 1
      BY <1>3, <2>1, <2>3
    <3>3. Place(Doing) \in {"build", "profile", "tree"} /\ (Place(Doing) = "build" <=> Doing.kind = "build")
      BY DEF Place
    <3>4. Place(Doing) \in Releasing
      BY <3>3 DEF Releasing
    <3>5. cmd'.at = Place(Doing) /\ cmd'.action = cmd.action
      BY <1>2, <3>1, <3>4, ReleaseStation
    <3>6. /\ release'.status = release.status /\ release'.plan = release.plan
          /\ release'.done = release.done /\ (release'.phase = "removing" => release.phase = "removing")
      BY <1>3, <3>1
    <3>7. Doing' = Doing
      BY <3>5, <3>6 DEF Doing
    <3>8. Shown'
      BY <1>1, <3>6 DEF Planned, Shown, Pending
    <3>. QED  BY <1>1, <1>3, <3>2, <3>3, <3>5, <3>6, <3>7, <3>8 DEF Planned, Acting
  <2>. QED  BY <2>2, <2>3
<1>5. CASE Finish
  <2>1. cmd.at = "finish" /\ cmd.action = release.done + 1
    BY <1>5 DEF Finish, At, Planned, Acting
  <2>2. cmd'.at = "next" /\ cmd'.action = cmd.action + 1
    BY <1>3, <1>5 DEF Finish, ReleaseCommand
  <2>3. release'.status = release.status /\ release'.phase = "none" /\ release'.done = release.done + 1
    BY <1>3, <1>5 DEF Finish
  <2>4. release'.done \in Nat /\ cmd'.action <= release'.done + 1
    BY <1>3, <2>1, <2>2, <2>3
  <2>. QED  BY <1>1, <1>3, <2>2, <2>3, <2>4 DEF Planned, Shown, Acting
<1>6. CASE ReleaseEnds
  <2>1. cmd'.at = "idle"
    BY <1>1, <1>6 DEF ReleaseEnds
  <2>2. /\ release'.status = "complete" /\ release'.plan = release.plan
        /\ release'.done = release.done /\ release'.phase = release.phase
    BY <1>3, <1>6 DEF ReleaseEnds
  <2>3. Shown'
    BY <1>1, <2>2 DEF Planned, Shown, Pending
  <2>. QED  BY <1>1, <2>1, <2>2, <2>3 DEF Planned, Acting
<1>. QED
  BY <1>4, <1>5, <1>6

\* An action that goes on at one of its later stations.
LEMMA ActingPlanned ==
  ASSUME Planned, cmd.at \in Acting, spent' = spent, DOMAIN built' = DOMAIN built, release.status # "none",
         release' = release \/ (release'.phase = "removing" /\ release'.status = release.status
                                /\ release'.plan = release.plan /\ release'.done = release.done),
         \/ cmd'.at = "idle"
         \/ /\ cmd'.action = cmd.action
            /\ cmd'.at \in {"remove build", "unlink profile", "remove reference", "remove tree",
                            "remove branch", "finish"}
            /\ cmd'.at = "remove build" => Doing.kind = "build" /\ release'.phase = "removing",
         Shown'
  PROVE  Planned'
<1>1. cmd.action = release.done + 1
  BY DEF Planned
<1>2. release'.plan = release.plan /\ release'.done = release.done /\ release'.status = release.status
  OBVIOUS
<1>3. cmd'.action = cmd.action => Doing' = Doing
  BY <1>2 DEF Doing
<1>. QED
  BY <1>1, <1>2, <1>3 DEF Planned, Acting

\* The steps of an action work on the object its plan names.
LEMMA ActionPlanned ==
  ASSUME Assumptions, SInv, Planned,
         \/ CheckBuild \/ RemoveBuild \/ CheckProfile \/ UnlinkProfile \/ RemoveReference
         \/ CheckTree \/ RemoveTree \/ RemoveBranch
  PROVE  Planned'
<1>1. spent' = spent /\ Idle.at = "idle"
  BY DEF CheckBuild, RemoveBuild, CheckProfile, UnlinkProfile, RemoveReference, CheckTree, RemoveTree,
     RemoveBranch, Idle
<1>2. /\ cmd.at \in Acting /\ At(cmd.at) /\ cmd.at # "journal"
  BY DEF CheckBuild, RemoveBuild, CheckProfile, UnlinkProfile, RemoveReference, CheckTree, RemoveTree,
     RemoveBranch, At, Acting
<1>3. cmd.at \in Releasing
  BY <1>2 DEF Acting, Releasing
<1>4. /\ cmd \in ReleaseCommand /\ release.status # "none"
      /\ DOMAIN release = {"status", "plan", "done", "phase"}
      /\ \A s \in Releasing : Go(s) => cmd'.at = s /\ cmd'.action = cmd.action
  BY <1>2, <1>3, ReleaseStation
<1>5. Pending = Doing
  BY <1>2 DEF Pending, Doing, Planned
<1>6. /\ "remove build" \in Releasing /\ "unlink profile" \in Releasing
      /\ "remove reference" \in Releasing /\ "remove tree" \in Releasing
      /\ "remove branch" \in Releasing /\ "finish" \in Releasing
  BY DEF Releasing
<1>7. release' = [release EXCEPT !.phase = "removing"] =>
        /\ release'.phase = "removing" /\ release'.status = release.status
        /\ release'.plan = release.plan /\ release'.done = release.done
  BY <1>4
<1>8. CASE CheckBuild
  <2>1. cmd.at = "build" /\ built' = built /\ Doing.kind = "build"
    BY <1>8 DEF CheckBuild, At, users, Planned
  <2>2. \/ cmd' = Idle /\ release' = release
        \/ release.phase = "removing" /\ Go("remove build") /\ release' = release
        \/ /\ built[Doing.n] = release.plan.build[Doing.n] /\ Go("remove build")
           /\ release' = [release EXCEPT !.phase = "removing"]
    <3>1. PICK b \in Builds :
            /\ b = Doing.n
            /\ IF release.phase = "removing" THEN Go("remove build") /\ UNCHANGED release
               ELSE IF built[b] = release.plan.build[b] THEN Removing("remove build") ELSE Refuse
      BY <1>8 DEF CheckBuild
    <3>. QED  BY <3>1 DEF Removing, Refuse
  <2>3. Shown'
    <3>1. CASE release' = release
      BY <2>1, <3>1 DEF Planned, Shown, Pending
    <3>2. CASE built[Doing.n] = release.plan.build[Doing.n] /\ release' = [release EXCEPT !.phase = "removing"]
      <4>1. release'.plan = release.plan /\ Pending' = Pending
        BY <1>7, <3>2 DEF Pending
      <4>. QED  BY <1>5, <2>1, <3>2, <4>1 DEF Shown
    <3>. QED  BY <2>2, <3>1, <3>2
  <2>. QED  BY <1>1, <1>2, <1>4, <1>6, <1>7, <2>1, <2>2, <2>3, ActingPlanned
<1>9. CASE RemoveBuild
  <2>1. cmd.at = "remove build" /\ release' = release /\ built' = [built EXCEPT ![Doing.n] = NoBuild] /\ Go("finish")
    BY <1>9 DEF RemoveBuild, At
  <2>2. DOMAIN built' = DOMAIN built /\ \A b \in Builds : built'[b] \in {built[b], NoBuild}
    BY <2>1 DEF Planned
  <2>3. Shown'
    BY <2>1, <2>2 DEF Planned, Shown, Pending
  <2>. QED  BY <1>1, <1>2, <1>4, <1>6, <2>1, <2>2, <2>3, ActingPlanned
<1>10. CASE CheckProfile \/ CheckTree
  <2>1. Doing.kind # "build" /\ built' = built
    BY <1>10 DEF CheckProfile, CheckTree, At, users, Planned
  <2>2. \/ cmd' = Idle /\ release' = release
        \/ \E s \in {"unlink profile", "remove reference", "remove tree", "remove branch"} :
             Go(s) /\ (release' = release \/ release' = [release EXCEPT !.phase = "removing"])
    BY <1>10 DEF CheckProfile, CheckTree, Removing, Refuse
  <2>3. release'.plan = release.plan /\ release'.done = release.done
    BY <1>7, <2>2
  <2>4. Shown'
    BY <1>5, <2>1, <2>3 DEF Shown, Pending
  <2>. QED  BY <1>1, <1>2, <1>4, <1>6, <1>7, <2>1, <2>2, <2>4, ActingPlanned
<1>11. CASE UnlinkProfile \/ RemoveReference \/ RemoveTree \/ RemoveBranch
  <2>1. built' = built /\ release' = release
    BY <1>11 DEF UnlinkProfile, RemoveReference, RemoveTree, RemoveBranch, users
  <2>2. cmd' = Idle \/ \E s \in {"remove reference", "finish", "remove branch"} : Go(s)
    BY <1>11 DEF UnlinkProfile, RemoveReference, RemoveTree, RemoveBranch
  <2>3. Shown'
    BY <2>1 DEF Planned, Shown, Pending
  <2>4. \/ cmd'.at = "idle"
        \/ cmd'.at \in {"remove reference", "finish", "remove branch"} /\ cmd'.action = cmd.action
    BY <1>1, <1>4, <1>6, <2>2
  <2>. QED  BY <1>1, <1>2, <1>4, <2>1, <2>3, <2>4, ActingPlanned
<1>. QED
  BY <1>8, <1>9, <1>10, <1>11

\* A build that goes was pending, and shown.
LEMMA BuildsGo ==
  ASSUME Assumptions, Planned, [Next]_vars
  PROVE  OnlyPreviewed
<1>. SUFFICES ASSUME NEW b \in Builds, built[b] \notin {NoBuild, HalfBuild}, built'[b] = NoBuild
              PROVE  release.plan.build[b] = built[b]
  BY DEF OnlyPreviewed
<1>1. DOMAIN built = Builds /\ HalfBuild # NoBuild /\ spent.user + 1 # NoBuild
  <2>1. DOMAIN built = Builds /\ spent.user \in Nat
    BY DEF Planned
  <2>2. MaxUser \in Nat
    BY DEF Assumptions
  <2>. QED  BY <2>1, <2>2 DEF HalfBuild, NoBuild
<1>2. built' # built
  OBVIOUS
<1>3. ~KillHalfway /\ ~\E c \in Builds : Build(c)
  BY <1>1, <1>2 DEF KillHalfway, Build
<1>4. RemoveBuild
  <2>1. ~(CreateBegins \/ RetryBegins \/ CreateSteps)
    BY <1>2 DEF CreateBegins, RetryBegins, CreateSteps, Reserve, AddWorktree, NoteWorktree,
       PublishReference, NoteReference, WriteProfile, NoteProfileCreated, WriteRecord, Complete,
       UndoProfile, UndoReference, UndoRow, UndoTree, UndoBranch, UndoEnds, users
  <2>2. ~(Preview \/ ReleaseBegins)
    BY <1>2 DEF Preview, ReleaseBegins, users
  <2>3. ReleaseSteps => RemoveBuild
    BY <1>2 DEF ReleaseSteps, WriteRelease, CheckEvidence, NextAction, CheckBuild, CheckProfile,
       UnlinkProfile, RemoveReference, CheckTree, RemoveTree, RemoveBranch, Finish, ReleaseEnds, users
  <2>4. ~Failures
    BY <1>2, <1>3 DEF Failures, Fail, PublicationUncertain, UndoFails, UndoRowFails, Kill, users
  <2>5. ~Usage
    BY <1>2, <1>3 DEF Usage, Up, Down, Edit, Commit, users
  <2>6. ~UNCHANGED vars
    BY <1>2 DEF vars, users
  <2>. QED  BY <2>1, <2>2, <2>3, <2>4, <2>5, <2>6 DEF Next
<1>5. cmd.at = "remove build" /\ built' = [built EXCEPT ![Doing.n] = NoBuild]
  BY <1>4 DEF RemoveBuild, At
<1>6. Doing.n = b
  BY <1>1, <1>5
<1>7. release.phase = "removing" /\ Doing.kind = "build" /\ Pending = Doing
  BY <1>5 DEF Planned, Acting, Pending, Doing
<1>. QED
  BY <1>6, <1>7 DEF Planned, Shown

\* At the start no release is planned.
LEMMA InitPlanned ==
  ASSUME Init
  PROVE  Planned
<1>1. cmd.at = "idle" /\ DOMAIN built = Builds
  BY DEF Init, Idle
<1>2. release.status = "none" /\ release.phase = "none" /\ release.done \in Nat
  BY DEF Init, NoRelease
<1>3. spent \in [fault : Nat, crash : Nat, user : Nat]
  BY DEF Init
<1>. QED  BY <1>1, <1>2, <1>3 DEF Planned, Shown, Acting

\* Every step keeps to the plan.
LEMMA PlannedKept ==
  ASSUME Assumptions, "late" \notin Enabled \/ "rebuild" \notin Enabled, SInv, Planned, [Next]_vars
  PROVE  Planned'
<1>1. CASE CreateBegins \/ RetryBegins \/ CreateSteps \/ Preview
  BY <1>1, CommandsOutside
<1>2. CASE Failures \/ Usage \/ UNCHANGED vars
  BY <1>2, CommandsOutside, UsersOutside DEF Failures
<1>3. CASE ReleaseBegins \/ ReleaseSteps
  BY <1>3, PlanKept, TurnPlanned, ActionPlanned DEF ReleaseSteps
<1>. QED  BY <1>1, <1>2, <1>3 DEF Next

\* A release removes the builds the operator was shown, no other, where nobody builds
\* again in a root whose removal was interrupted.
THEOREM ShownGo ==
  ASSUME Assumptions, "late" \notin Enabled \/ "rebuild" \notin Enabled
  PROVE  Spec => [][OnlyPreviewed]_vars
<1>1. Init => Planned
  BY InitPlanned
<1>2. SInv /\ Planned /\ [Next]_vars => Planned'
  BY PlannedKept
<1>3. Planned /\ [Next]_vars => OnlyPreviewed
  BY BuildsGo
<1>. QED
  BY <1>1, <1>2, <1>3, Invariance, PTL DEF Spec

-----------------------------------------------------------------------------
(* What a release journal calls done *)

\* The object of an action is gone: a build, the profile, or a worktree with its branch.
Vanished(a) ==
  \/ a.kind = "build" /\ a.n \in Builds /\ built[a.n] = NoBuild
  \/ a.kind = "profile" /\ ~profile
  \/ a.kind \notin {"build", "profile"} /\ a.n \in Rows /\ tree[a.n] = "none" /\ branch[a.n] = NoBranch

\* What the command has done of the action it is at.
Partly ==
  /\ cmd.at \in {"unlink profile", "remove reference"} => Doing.kind = "profile"
  /\ cmd.at = "remove reference" => ~profile
  /\ cmd.at \in {"tree", "remove tree", "remove branch"} => Doing.kind \notin {"build", "profile"}
  /\ cmd.at = "profile" => Doing.kind = "profile"
  /\ cmd.at \in {"remove tree", "remove branch"} => Doing.n \in Rows
  /\ cmd.at = "remove branch" => tree[Doing.n] = "none"
  /\ cmd.at = "remove build" => Doing.n \in Builds
  /\ cmd.at = "finish" => Vanished(Doing)

Done ==
  /\ release.status # "none" => record
  /\ release.status = "none" => release.done = 0
  /\ \A k \in 1 .. release.done : Vanished(Actions(release.plan)[k])
  /\ Partly

\* What is gone stays gone when nothing is made.
LEMMA StaysGone ==
  ASSUME \A b \in Builds : built[b] = NoBuild => built'[b] = NoBuild,
         profile' => profile,
         \A r \in Rows : /\ tree[r] = "none" => tree'[r] = "none"
                         /\ tree[r] = "none" /\ branch[r] = NoBranch => branch'[r] = NoBranch
  PROVE  \A a : Vanished(a) => Vanished(a)'
BY DEF Vanished

\* Nothing was done before the release is written down.
LEMMA Unreleased ==
  ASSUME Done, release' = release, release.status = "none", cmd'.at \notin Acting
  PROVE  Done'
<1>1. release.done = 0 /\ \A k \in 1 .. 0 : FALSE
  BY DEF Done
<1>2. Partly'
  BY DEF Partly, Acting
<1>3. \A k \in 1 .. release.done : FALSE
  BY <1>1
<1>. QED
  BY <1>1, <1>2, <1>3 DEF Done

\* A step that makes nothing and leaves the journal's plan and its count.
LEMMA Progressing ==
  ASSUME Done, record => record', release'.plan = release.plan, release'.done = release.done,
         release'.status # "none" <=> release.status # "none",
         \A a : Vanished(a) => Vanished(a)',
         Partly'
  PROVE  Done'
<1>1. \A k \in 1 .. release.done : Vanished(Actions(release.plan)[k])'
  <2>. SUFFICES ASSUME NEW k \in 1 .. release.done PROVE Vanished(Actions(release.plan)[k])'
    OBVIOUS
  <2>1. PICK a : a = Actions(release.plan)[k]
    OBVIOUS
  <2>2. Vanished(a)
    BY <2>1 DEF Done
  <2>3. Vanished(a)'
    BY <2>2
  <2>4. Actions(release'.plan)[k] = a
    BY <2>1
  <2>. QED  BY <2>3, <2>4 DEF Vanished
<1>. QED
  BY <1>1 DEF Done

\* A command that ends or is at no action, and a user who makes no build, lets it be.
LEMMA Aside ==
  ASSUME Done, release' = release, record => record',
         \A b \in Builds : built[b] = NoBuild => built'[b] = NoBuild,
         profile' => profile,
         \A r \in Rows : /\ tree[r] = "none" => tree'[r] = "none"
                         /\ tree[r] = "none" /\ branch[r] = NoBranch => branch'[r] = NoBranch,
         cmd'.at \notin Acting \/ (cmd' = cmd /\ cmd.at \notin {"finish", "remove branch"})
           \/ (cmd' = cmd /\ \A r \in Rows : tree[r] = "none" => tree'[r] = "none")
  PROVE  Done'
<1>1. \A a : Vanished(a) => Vanished(a)'
  BY StaysGone
<1>2. CASE cmd'.at \notin Acting
  <2>1. Partly'
    BY <1>2 DEF Partly, Acting
  <2>. QED  BY <1>1, <2>1, Progressing
<1>3. CASE cmd' = cmd
  <2>1. Doing' = Doing
    BY <1>3 DEF Doing
  <2>2. Vanished(Doing) => Vanished(Doing)'
    <3>1. PICK a : a = Doing
      OBVIOUS
    <3>2. Vanished(a) => Vanished(a)'
      BY <1>1
    <3>3. Vanished(a)' <=> Vanished(Doing)'
      BY <2>1, <3>1 DEF Vanished
    <3>. QED  BY <3>1, <3>2, <3>3
  <2>3. cmd.at = "remove branch" => Doing.n \in Rows /\ tree[Doing.n] = "none"
    BY DEF Done, Partly
  <2>4. Partly'
    BY <1>3, <2>1, <2>2, <2>3 DEF Done, Partly
  <2>. QED  BY <1>1, <2>4, Progressing
<1>. QED
  BY <1>2, <1>3

\* A creation cannot make again what a release has taken.
LEMMA CommandsKeepDone ==
  ASSUME Assumptions, SInv, Done,
         \/ CreateBegins \/ RetryBegins \/ CreateSteps \/ Preview
         \/ Fail \/ PublicationUncertain \/ UndoFails \/ UndoRowFails \/ Kill
  PROVE  Done'
<1>1. release' = release /\ cmd'.at \notin Releasing
  BY NotReleasing
<1>2. cmd'.at \notin Acting
  BY <1>1 DEF Acting, Releasing
<1>3. CASE release.status = "none"
  BY <1>1, <1>2, <1>3, Unreleased
<1>4. CASE release.status # "none"
  <2>1. record
    BY <1>4 DEF Done
  <2>2. /\ journal.status # "none"
        /\ cmd.at \notin {"reserve", "add", "note row", "publish", "note reference", "write profile", "note profile",
                          "record", "undo profile", "undo reference", "undo row", "undo tree", "undo branch", "undone"}
    BY <2>1 DEF SInv, Recorded, Forward, Backward
  <2>3. Complete \/ Preview \/ Kill
    BY <2>1, <2>2 DEF CreateBegins, RetryBegins, Retryable, CreateSteps, Reserve, AddWorktree, NoteWorktree,
       PublishReference, NoteReference, WriteProfile, NoteProfileCreated, WriteRecord, UndoProfile, UndoReference,
       UndoRow, UndoTree, UndoBranch, UndoEnds, Fail, PublicationUncertain, UndoFails, UndoRowFails, At, Effects, Notes
  <2>4. UNCHANGED <<record, tree, branch, profile, built>>
    BY <2>3 DEF Complete, Preview, Kill, creation, sources, reach, users
  <2>. QED  BY <1>1, <1>2, <2>4, Aside
<1>. QED
  BY <1>3, <1>4

\* Users make nothing again but a build, and no build once a release has begun.
LEMMA UsersKeepDone ==
  ASSUME Assumptions, "late" \notin Enabled, SInv, Planned, Done, Usage \/ KillHalfway \/ UNCHANGED vars
  PROVE  Done'
<1>1. /\ tree \in [Rows -> {"none", "clean", "dirty", "half"}] /\ branch \in [Rows -> Nat]
      /\ release' = release /\ record' = record /\ profile' = profile
  BY DEF SInv, Types, Usage, Up, Down, Build, Edit, Commit, KillHalfway, vars, creation, reach
<1>2. "idle" \notin Acting /\ Idle.at = "idle"
  BY DEF Acting, Idle
<1>3. CASE UNCHANGED <<tree, branch, built, cmd>>
  BY <1>1, <1>3, Aside
<1>4. ASSUME NEW b \in Builds, Build(b)
      PROVE  Done'
  <2>1. cmd.at = "idle" /\ cmd' = cmd /\ release.status = "none"
    BY <1>4 DEF Build, MayUse, Free
  <2>. QED  BY <1>1, <1>2, <2>1, Unreleased
<1>5. ASSUME NEW q \in Rows, Edit(q) \/ Commit(q)
      PROVE  Done'
  <2>1. cmd' = cmd /\ built' = built /\ tree[q] # "none"
    BY <1>5 DEF Edit, Commit, users
  <2>2. \E t : tree' = [tree EXCEPT ![q] = t]
    BY <1>5 DEF Edit, Commit
  <2>3. branch' = branch \/ \E k : branch' = [branch EXCEPT ![q] = k]
    BY <1>5 DEF Edit, Commit
  <2>4. \A r \in Rows : r # q => tree'[r] = tree[r] /\ branch'[r] = branch[r]
    BY <1>1, <2>2, <2>3
  <2>. QED  BY <1>1, <2>1, <2>4, Aside
<1>6. CASE KillHalfway
  <2>1. cmd'.at = "idle" /\ branch' = branch
    BY <1>2, <1>6 DEF KillHalfway
  <2>2. CASE release.status = "none"
    BY <1>1, <1>2, <2>1, <2>2, Unreleased
  <2>3. CASE release.status # "none"
    <3>1. cmd.at \notin {"add", "undo tree"}
      BY <2>3 DEF Done, SInv, Recorded, Forward, Backward
    <3>2. \/ UNCHANGED built /\ \E n : tree[n] = "clean" /\ tree' = [tree EXCEPT ![n] = "half"]
          \/ UNCHANGED tree /\ \E n : built[n] # NoBuild /\ built' = [built EXCEPT ![n] = HalfBuild]
      BY <1>6, <3>1 DEF KillHalfway, At
    <3>3. \A r \in Rows : tree[r] = "none" => tree'[r] = "none"
      BY <1>1, <3>2
    <3>4. \A b \in Builds : built[b] = NoBuild => built'[b] = NoBuild
      BY <3>2 DEF Planned
    <3>. QED  BY <1>1, <1>2, <2>1, <3>3, <3>4, Aside
  <2>. QED  BY <2>2, <2>3
<1>7. CASE Usage /\ ~\E b \in Builds : Build(b)
  BY <1>3, <1>5, <1>7 DEF Usage, Up, Down, sources
<1>8. CASE UNCHANGED vars
  BY <1>3, <1>8 DEF vars, users, sources
<1>. QED
  BY <1>4, <1>6, <1>7, <1>8 DEF Usage

\* A release that is written down, resumed or ended has done what its journal says.
LEMMA TurnKeepsDone ==
  ASSUME SInv, Planned, Done, ReleaseBegins \/ WriteRelease \/ CheckEvidence \/ ReleaseEnds
  PROVE  Done'
<1>1. UNCHANGED <<record, built, profile, tree, branch>>
  BY DEF ReleaseBegins, WriteRelease, CheckEvidence, ReleaseEnds, creation, users, reach, sources
<1>2. \A a : Vanished(a) => Vanished(a)'
  BY <1>1, StaysGone
<1>3. Idle.at = "idle" /\ "idle" \notin Acting /\ "journal" \notin Acting /\ "evidence" \notin Acting /\ "next" \notin Acting
  BY DEF Idle, Acting
<1>4. "journal" \in Releasing /\ "evidence" \in Releasing /\ "next" \in Releasing
  BY DEF Releasing
<1>5. cmd'.at \notin Acting
  <2>1. CASE ReleaseBegins
    BY <1>3, <2>1 DEF ReleaseBegins
  <2>2. CASE WriteRelease
    BY <1>3, <1>4, <2>2, ReleaseStation DEF WriteRelease
  <2>3. CASE CheckEvidence
    BY <1>3, <1>4, <2>3, ReleaseStation DEF CheckEvidence
  <2>4. CASE ReleaseEnds
    BY <1>3, <2>4 DEF ReleaseEnds
  <2>. QED  BY <2>1, <2>2, <2>3, <2>4
<1>6. Partly'
  BY <1>5 DEF Partly, Acting
<1>7. CASE ReleaseBegins \/ CheckEvidence
  <2>1. release' = release
    BY <1>7 DEF ReleaseBegins, CheckEvidence
  <2>. QED  BY <1>1, <1>2, <1>6, <2>1, Progressing
<1>8. CASE ReleaseEnds
  <2>1. release.status # "none" /\ DOMAIN release = {"status", "plan", "done", "phase"}
    BY <1>4, <1>8, ReleaseStation DEF ReleaseEnds
  <2>2. release'.status # "none" /\ release'.plan = release.plan /\ release'.done = release.done
    BY <1>8, <2>1 DEF ReleaseEnds
  <2>. QED  BY <1>1, <1>2, <1>6, <2>1, <2>2, Progressing
<1>9. CASE WriteRelease
  <2>1. cmd.at = "journal" /\ "journal" \in Releasing
    BY <1>4, <1>9 DEF WriteRelease, At
  <2>2. record /\ (~Replans => preview = release.plan)
    BY <2>1 DEF SInv, Recorded, Planned
  <2>3. /\ release'.status = "applying" /\ release'.plan = preview
        /\ release'.done = IF Replans THEN 0 ELSE release.done
    BY <1>9 DEF WriteRelease
  <2>4. release'.status # "none" /\ (record => record')
    BY <1>1, <2>3
  <2>5. CASE Replans
    <3>1. release'.done = 0 /\ \A k \in 1 .. 0 : FALSE
      BY <2>3, <2>5
    <3>2. \A k \in 1 .. release'.done : FALSE
      BY <3>1
    <3>. QED  BY <1>1, <1>6, <2>2, <2>4, <3>1, <3>2 DEF Done
  <2>6. CASE ~Replans
    <3>1. release'.done = release.done /\ release'.plan = release.plan /\ release.status # "none"
      BY <2>2, <2>3, <2>6 DEF Replans
    <3>. QED  BY <1>2, <1>6, <2>4, <3>1, Progressing
  <2>. QED  BY <2>5, <2>6
<1>. QED
  BY <1>7, <1>8, <1>9

\* An action whose station changes and whose object does not, unless to go.
LEMMA Advancing ==
  ASSUME Done, record' = record, release'.plan = release.plan, release'.done = release.done,
         release'.status = release.status, cmd'.action = cmd.action,
         \A b \in Builds : built[b] = NoBuild => built'[b] = NoBuild,
         profile' => profile,
         \A r \in Rows : /\ tree[r] = "none" => tree'[r] = "none"
                         /\ branch[r] = NoBranch => branch'[r] = NoBranch,
         \/ cmd'.at = "build"
         \/ cmd'.at = "remove build" /\ Doing.n \in Builds
         \/ cmd'.at \in {"profile", "unlink profile"} /\ Doing.kind = "profile"
         \/ cmd'.at = "remove reference" /\ Doing.kind = "profile" /\ ~profile'
         \/ cmd'.at = "tree" /\ Doing.kind \notin {"build", "profile"}
         \/ cmd'.at = "remove tree" /\ Doing.kind \notin {"build", "profile"} /\ Doing.n \in Rows
         \/ /\ cmd'.at = "remove branch" /\ Doing.kind \notin {"build", "profile"}
            /\ Doing.n \in Rows /\ tree'[Doing.n] = "none"
         \/ /\ cmd'.at = "finish"
            /\ \/ Doing.kind = "build" /\ Doing.n \in Builds /\ built'[Doing.n] = NoBuild
               \/ Doing.kind = "profile" /\ ~profile'
               \/ /\ Doing.kind \notin {"build", "profile"}
                  /\ Doing.n \in Rows /\ tree'[Doing.n] = "none" /\ branch'[Doing.n] = NoBranch
  PROVE  Done'
<1>1. Doing' = Doing
  BY DEF Doing
<1>2. \A a : Vanished(a) => Vanished(a)'
  BY StaysGone
<1>3. cmd'.at = "finish" => Vanished(Doing)'
  BY <1>1 DEF Vanished
<1>4. Partly'
  BY <1>1, <1>3 DEF Partly
<1>. QED
  BY <1>2, <1>4, Progressing

\* A refusal.
LEMMA Stopping ==
  ASSUME Done, cmd' = Idle, UNCHANGED <<record, release, built, profile, tree, branch>>
  PROVE  Done'
<1>1. cmd'.at \notin Acting
  BY DEF Idle, Acting
<1>. QED
  BY <1>1, Aside

\* What is checked before a removal is what the action is about.
LEMMA CheckKeepsDone ==
  ASSUME Assumptions, SInv, Planned, Done, CheckBuild \/ CheckProfile \/ CheckTree
  PROVE  Done'
<1>1. UNCHANGED <<record, built, profile, tree, branch>>
  BY DEF CheckBuild, CheckProfile, CheckTree, creation, users, reach, sources
<1>2. /\ cmd.at \in {"build", "profile", "tree"} /\ At(cmd.at) /\ cmd.at \in Releasing
  BY DEF CheckBuild, CheckProfile, CheckTree, At, Releasing
<1>3. /\ DOMAIN release = {"status", "plan", "done", "phase"}
      /\ \A s \in Releasing : Go(s) => cmd'.at = s /\ cmd'.action = cmd.action
  BY <1>2, ReleaseStation
<1>4. /\ "remove build" \in Releasing /\ "unlink profile" \in Releasing
      /\ "remove reference" \in Releasing /\ "remove tree" \in Releasing
      /\ "remove branch" \in Releasing
  BY DEF Releasing
<1>5. CASE cmd' = Idle /\ release' = release
  BY <1>1, <1>5, Stopping
<1>6. CASE ~(cmd' = Idle /\ release' = release)
  <2>1. release' = release \/ release' = [release EXCEPT !.phase = "removing"]
    BY <1>6 DEF CheckBuild, CheckProfile, CheckTree, Removing, Refuse
  <2>2. release'.plan = release.plan /\ release'.done = release.done /\ release'.status = release.status
    BY <1>3, <2>1
  <2>3. CASE CheckBuild
    <3>1. Go("remove build") /\ Doing.n \in Builds
      BY <1>6, <2>3 DEF CheckBuild, Removing, Refuse
    <3>2. cmd'.at = "remove build" /\ cmd'.action = cmd.action
      BY <1>3, <1>4, <3>1
    <3>. QED  BY <1>1, <2>2, <3>1, <3>2, Advancing
  <2>4. CASE CheckProfile
    <3>1. cmd.at = "profile" /\ (Go("unlink profile") \/ (Go("remove reference") /\ ~profile))
      BY <1>6, <2>4 DEF CheckProfile, Removing, Refuse, At
    <3>2. /\ cmd'.action = cmd.action
          /\ cmd'.at = "unlink profile" \/ (cmd'.at = "remove reference" /\ ~profile)
      BY <1>3, <1>4, <3>1
    <3>3. Doing.kind = "profile"
      BY <3>1 DEF Done, Partly
    <3>. QED  BY <1>1, <2>2, <3>2, <3>3, Advancing
  <2>5. CASE CheckTree
    <3>1. /\ cmd.at = "tree" /\ Doing.n \in Rows
          /\ Go("remove tree") \/ (Go("remove branch") /\ tree[Doing.n] = "none")
      BY <1>6, <2>5 DEF CheckTree, Removing, Refuse, At
    <3>2. /\ cmd'.action = cmd.action
          /\ cmd'.at = "remove tree" \/ (cmd'.at = "remove branch" /\ tree[Doing.n] = "none")
      BY <1>3, <1>4, <3>1
    <3>3. Doing.kind \notin {"build", "profile"}
      BY <3>1 DEF Done, Partly
    <3>. QED  BY <1>1, <2>2, <3>1, <3>2, <3>3, Advancing
  <2>. QED  BY <2>3, <2>4, <2>5
<1>. QED
  BY <1>5, <1>6

\* A removal takes one object and makes none.
LEMMA RemovalKeepsDone ==
  ASSUME Assumptions, SInv, Planned, Done,
         RemoveBuild \/ UnlinkProfile \/ RemoveReference \/ RemoveTree \/ RemoveBranch
  PROVE  Done'
<1>1. UNCHANGED <<record, release>>
  BY DEF RemoveBuild, UnlinkProfile, RemoveReference, RemoveTree, RemoveBranch, creation
<1>2. /\ cmd.at \in {"remove build", "unlink profile", "remove reference", "remove tree", "remove branch"}
      /\ At(cmd.at) /\ cmd.at \in Releasing
  BY DEF RemoveBuild, UnlinkProfile, RemoveReference, RemoveTree, RemoveBranch, At, Releasing
<1>3. \A s \in Releasing : Go(s) => cmd'.at = s /\ cmd'.action = cmd.action
  BY <1>2, ReleaseStation
<1>4. "finish" \in Releasing /\ "remove reference" \in Releasing /\ "remove branch" \in Releasing
  BY DEF Releasing
<1>5. DOMAIN built = Builds /\ tree \in [Rows -> {"none", "clean", "dirty", "half"}] /\ branch \in [Rows -> Nat]
  BY DEF Planned, SInv, Types
<1>6. CASE RemoveBuild
  <2>1. /\ cmd.at = "remove build" /\ UNCHANGED <<profile, tree, branch>>
        /\ built' = [built EXCEPT ![Doing.n] = NoBuild] /\ Go("finish")
    BY <1>6 DEF RemoveBuild, At, reach, sources
  <2>2. cmd'.at = "finish" /\ cmd'.action = cmd.action
    BY <1>3, <1>4, <2>1
  <2>3. Doing.kind = "build" /\ Doing.n \in Builds
    BY <2>1 DEF Planned, Done, Partly
  <2>4. built'[Doing.n] = NoBuild /\ \A b \in Builds : built[b] = NoBuild => built'[b] = NoBuild
    BY <1>5, <2>1, <2>3
  <2>. QED  BY <1>1, <2>1, <2>2, <2>3, <2>4, Advancing
<1>7. CASE UnlinkProfile
  <2>1. /\ cmd.at = "unlink profile" /\ UNCHANGED <<built, tree, branch>>
        /\ profile' = FALSE /\ Go("remove reference")
    BY <1>7 DEF UnlinkProfile, At, users, sources
  <2>2. cmd'.at = "remove reference" /\ cmd'.action = cmd.action
    BY <1>3, <1>4, <2>1
  <2>3. Doing.kind = "profile"
    BY <2>1 DEF Done, Partly
  <2>. QED  BY <1>1, <2>1, <2>2, <2>3, Advancing
<1>8. CASE RemoveReference
  <2>1. cmd.at = "remove reference" /\ UNCHANGED <<built, profile, tree, branch>> /\ Go("finish")
    BY <1>8 DEF RemoveReference, At, users, sources
  <2>2. cmd'.at = "finish" /\ cmd'.action = cmd.action
    BY <1>3, <1>4, <2>1
  <2>3. Doing.kind = "profile" /\ ~profile
    BY <2>1 DEF Done, Partly
  <2>. QED  BY <1>1, <2>1, <2>2, <2>3, Advancing
<1>9. CASE RemoveTree
  <2>1. cmd.at = "remove tree" /\ UNCHANGED <<built, profile, branch>>
    BY <1>9 DEF RemoveTree, At, users, reach
  <2>2. Doing.kind \notin {"build", "profile"} /\ Doing.n \in Rows
    BY <2>1 DEF Done, Partly
  <2>3. CASE tree' = [tree EXCEPT ![Doing.n] = "none"] /\ Go("remove branch")
    <3>1. cmd'.at = "remove branch" /\ cmd'.action = cmd.action
      BY <1>3, <1>4, <2>3
    <3>2. tree'[Doing.n] = "none" /\ \A r \in Rows : tree[r] = "none" => tree'[r] = "none"
      BY <1>5, <2>2, <2>3
    <3>. QED  BY <1>1, <2>1, <2>2, <3>1, <3>2, Advancing
  <2>4. CASE cmd' = Idle /\ tree' = tree
    BY <1>1, <2>1, <2>4, Stopping
  <2>. QED  BY <1>9, <2>3, <2>4 DEF RemoveTree
<1>10. CASE RemoveBranch
  <2>1. cmd.at = "remove branch" /\ UNCHANGED <<built, profile, tree>>
    BY <1>10 DEF RemoveBranch, At, users, reach
  <2>2. Doing.kind \notin {"build", "profile"} /\ Doing.n \in Rows /\ tree[Doing.n] = "none"
    BY <2>1 DEF Done, Partly
  <2>3. CASE branch' = [branch EXCEPT ![Doing.n] = NoBranch] /\ Go("finish")
    <3>1. cmd'.at = "finish" /\ cmd'.action = cmd.action
      BY <1>3, <1>4, <2>3
    <3>2. branch'[Doing.n] = NoBranch /\ \A r \in Rows : branch[r] = NoBranch => branch'[r] = NoBranch
      BY <1>5, <2>2, <2>3
    <3>. QED  BY <1>1, <2>1, <2>2, <3>1, <3>2, Advancing
  <2>4. CASE cmd' = Idle /\ branch' = branch
    BY <1>1, <2>1, <2>4, Stopping
  <2>. QED  BY <1>10, <2>3, <2>4 DEF RemoveBranch
<1>. QED
  BY <1>6, <1>7, <1>8, <1>9, <1>10

\* The next action begins with nothing done of it.
LEMMA NextKeepsDone ==
  ASSUME SInv, Planned, Done, NextAction
  PROVE  Done'
<1>1. UNCHANGED <<record, built, profile, tree, branch>> /\ cmd.at = "next"
  BY DEF NextAction, creation, users, reach, sources, At
<1>2. "next" \in Releasing /\ "next" \notin Acting /\ At("next")
  BY DEF NextAction, Releasing, Acting
<1>3. cmd \in ReleaseCommand /\ DOMAIN release = {"status", "plan", "done", "phase"}
  BY <1>2, ReleaseStation
<1>4. CASE cmd.action <= release.done
  <2>1. release' = release /\ (cmd' = Idle \/ cmd' = [cmd EXCEPT !.action = @ + 1])
    BY <1>4 DEF NextAction
  <2>2. CASE cmd' = Idle
    BY <1>1, <2>1, <2>2, Stopping
  <2>3. CASE cmd' = [cmd EXCEPT !.action = @ + 1]
    <3>1. cmd'.at = "next"
      BY <1>1, <1>3, <2>3 DEF ReleaseCommand
    <3>. QED  BY <1>1, <1>2, <2>1, <3>1, Aside
  <2>. QED  BY <2>1, <2>2, <2>3
<1>5. CASE ~(cmd.action <= release.done)
  <2>1. release' = [release EXCEPT !.phase = IF @ = "none" THEN "prepared" ELSE @] /\ Go(Place(Doing))
    BY <1>5 DEF NextAction
  <2>2. release'.plan = release.plan /\ release'.done = release.done /\ release'.status = release.status
    BY <1>3, <2>1
  <2>3. /\ Place(Doing) \in {"build", "profile", "tree"}
        /\ Place(Doing) = "profile" => Doing.kind = "profile"
        /\ Place(Doing) = "tree" => Doing.kind \notin {"build", "profile"}
    BY DEF Place
  <2>4. Place(Doing) \in Releasing
    BY <2>3 DEF Releasing
  <2>5. cmd'.at = Place(Doing) /\ cmd'.action = cmd.action
    BY <1>2, <2>1, <2>4, ReleaseStation
  <2>. QED  BY <1>1, <2>2, <2>3, <2>5, Advancing
<1>. QED
  BY <1>4, <1>5

\* An action is journaled as done once its object is gone.
LEMMA FinishKeepsDone ==
  ASSUME SInv, Planned, Done, Finish
  PROVE  Done'
<1>1. UNCHANGED <<record, built, profile, tree, branch>> /\ cmd.at = "finish"
  BY DEF Finish, creation, users, reach, sources, At
<1>2. "finish" \in Releasing /\ At("finish") /\ "finish" # "journal"
  BY DEF Finish, Releasing
<1>3. /\ cmd \in ReleaseCommand /\ DOMAIN release = {"status", "plan", "done", "phase"}
      /\ release.status # "none" /\ release.done \in Nat
  BY <1>2, ReleaseStation DEF Planned
<1>4. cmd.action = release.done + 1 /\ Vanished(Doing)
  BY <1>1 DEF Planned, Acting, Done, Partly
<1>5. release'.status = release.status /\ release'.plan = release.plan /\ release'.done = release.done + 1
  BY <1>3 DEF Finish
<1>6. cmd'.at = "next"
  BY <1>3 DEF Finish, ReleaseCommand
<1>7. Partly' /\ record'
  BY <1>1, <1>3, <1>6 DEF Partly, Done
<1>8. ASSUME NEW k \in 1 .. release'.done
      PROVE  Vanished(Actions(release.plan)[k])
  <2>1. k \in 1 .. release.done \/ k = release.done + 1
    BY <1>3, <1>5, <1>8
  <2>. QED  BY <1>4, <2>1 DEF Done, Doing
<1>9. \A k \in 1 .. release.done + 1 : Vanished(Actions(release.plan)[k])'
  <2>. SUFFICES ASSUME NEW k \in 1 .. release.done + 1 PROVE Vanished(Actions(release.plan)[k])'
    OBVIOUS
  <2>1. PICK a : a = Actions(release.plan)[k]
    OBVIOUS
  <2>2. Vanished(a)
    BY <1>5, <1>8, <2>1
  <2>3. Vanished(a)'
    BY <1>1, <2>2 DEF Vanished
  <2>4. Actions(release'.plan)[k] = a
    BY <1>5, <2>1
  <2>. QED  BY <2>3, <2>4 DEF Vanished
<1>. QED
  BY <1>3, <1>5, <1>7, <1>9 DEF Done

\* An action the release journal calls done is done: its object is gone, where nothing is
\* built once a release has begun.
THEOREM DoneGone ==
  ASSUME Assumptions, "late" \notin Enabled
  PROVE  Spec => []DoneIsGone
<1>1. Init => Planned /\ Done
  <2>. SUFFICES ASSUME Init PROVE Planned /\ Done
    OBVIOUS
  <2>1. cmd.at = "idle"
    BY DEF Init, Idle
  <2>2. release.status = "none" /\ release.done = 0
    BY DEF Init, NoRelease
  <2>3. \A k \in 1 .. release.done : FALSE
    BY <2>2
  <2>. QED  BY <2>1, <2>2, <2>3, InitPlanned DEF Done, Partly
<1>2. SInv /\ Planned /\ Done /\ [Next]_vars => Planned' /\ Done'
  <2>. SUFFICES ASSUME SInv, Planned, Done, [Next]_vars PROVE Planned' /\ Done'
    OBVIOUS
  <2>1. Planned'
    BY PlannedKept
  <2>2. CASE CreateBegins \/ RetryBegins \/ CreateSteps \/ Preview
    BY <2>1, <2>2, CommandsKeepDone
  <2>3. CASE Failures \/ Usage \/ UNCHANGED vars
    BY <2>1, <2>3, CommandsKeepDone, UsersKeepDone DEF Failures
  <2>4. CASE ReleaseBegins \/ ReleaseSteps
    BY <2>1, <2>4, TurnKeepsDone, CheckKeepsDone, RemovalKeepsDone, NextKeepsDone, FinishKeepsDone
    DEF ReleaseSteps
  <2>. QED  BY <2>2, <2>3, <2>4 DEF Next
<1>3. Done => DoneIsGone
  BY DEF Done, DoneIsGone, Vanished, Gone
<1>. QED
  BY <1>1, <1>2, <1>3, Invariance, PTL DEF Spec

===============================================================================
