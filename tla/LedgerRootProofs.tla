--------------------------- MODULE LedgerRootProofs ---------------------------
(***************************************************************************)
(* Proofs about LedgerRoot, for any leaves, claims, generations, kills and *)
(* drifting evidence, of operators who do not create a leaf anew while its *)
(* archive is kept ("again"): the root implements the store of ledgers, its*)
(* inventory always accepts what a kill leaves, no two ledgers that are    *)
(* active claim one object, no step forgets a document that was retired,   *)
(* and what create and cas answer is what they did.                        *)
(***************************************************************************)
EXTENDS LedgerRoot, FiniteSetTheorems, SequenceTheorems, TLAPS

Kinds == {"create stage", "receipt", "stage", "proof", "release stage", "release", "archive stage",
          "archive", "reclaim receipt", "complete stage", "complete"}
Managed == [kind : Kinds, name : Names, doc : Docs]
Unlinkable == [kind : Kinds \cup {"ledger"}, name : Names, doc : Docs]
Command == [at : Stations, req : Requests, todo : Seq(Unlinkable), wrote : BOOLEAN]
Bins == [phase : {"none", "made", "torn", "noted", "moved", "gone", "cleared"},
         file : Unlinkable \cup {[kind |-> "none"]}]

Types ==
  /\ ledger \in [Names -> Docs \cup {None}]
  /\ files \subseteq Managed
  /\ torn \subseteq files
  /\ cmd = Idle \/ cmd \in Command
  /\ proven \subseteq Names
  /\ bin \in Bins /\ (bin = NoBin \/ bin.phase # "none")

-----------------------------------------------------------------------------
(* What the files of the root say of each other *)

Entry(kind, n, d) == [kind |-> kind, name |-> n, doc |-> d]
There(kind, n, d) == Entry(kind, n, d) \in files
Whole(kind, n, d) == There(kind, n, d) /\ Entry(kind, n, d) \notin torn

OneArchive ==
  \A n \in Names, c, d \in Docs : There("archive", n, c) /\ There("archive", n, d) => c = d
OneCompleted ==
  \A m, n \in Names, c, d \in Docs :
    There("complete", m, c) /\ There("complete", n, d) => m = n /\ c = d
MarkerSpeaks == \A n \in Names, d \in Docs : There("release", n, d) => ledger[n] = d
ArchiveCovers ==
  \A n \in Names, d \in Docs :
    There("archive", n, d) /\ ledger[n] # None => ledger[n] = d /\ There("archive stage", n, d)

Work == {"create stage", "receipt", "stage", "proof"}
Busy(n) == \E kind \in Work, d \in Docs : There(kind, n, d)
Retired(n) == \E d \in Docs : There("release", n, d) \/ There("archive", n, d)
WorkIsUnretired == \A n \in Names : ~(Busy(n) /\ Retired(n))

UpdatesStand ==
  \A n \in Names, d \in Docs :
    (\E kind \in {"receipt", "stage", "proof"} : There(kind, n, d)) =>
      /\ ledger[n] # None
      /\ There("stage", n, d) => There("receipt", n, d) /\ ledger[n] = Front(d)
      /\ ~There("stage", n, d) => ledger[n] = (IF There("proof", n, d) THEN d ELSE Front(d))

\* Whose claims stand: of a ledger or a stage that is whole, without a marker.
Holds(n, d) == ledger[n] = d \/ Whole("create stage", n, d) \/ Whole("stage", n, d)
Claiming(n, d) == Holds(n, d) /\ ~There("release", n, d) /\ ~There("archive", n, d)
Clear(c, d) == Claims(c) \cap Claims(d) = {}
Apart ==
  \A m, n \in Names, c, d \in Docs : m # n /\ Claiming(m, c) /\ Claiming(n, d) => Clear(c, d)

Files ==
  /\ OneArchive /\ OneCompleted /\ MarkerSpeaks /\ ArchiveCovers
  /\ WorkIsUnretired /\ UpdatesStand /\ Apart

-----------------------------------------------------------------------------
(* What a command knows where it is *)

leaf == cmd.req.name
document == cmd.req.doc
Here(kind) == There(kind, leaf, document)
Complete(kind) == Whole(kind, leaf, document)
NoneOf(kind) == \A d \in Docs : ~There(kind, leaf, d)

Creating ==
  /\ cmd.req.op = "create" => NoneOf("archive")
  /\ cmd.at = "staged" => cmd.req.op = "create" /\ ledger[leaf] = None /\ Here("create stage")

\* Whatever is being updated is the candidate's, and the candidate fits.
Alone ==
  \A kind \in Work, n \in Names, d \in Docs : There(kind, n, d) => n = leaf /\ d = document
Fits == \A m \in Names, c \in Docs : m # leaf /\ Claiming(m, c) => Clear(c, document)
Updating ==
  /\ cmd.at \in {"receipted", "cas staged", "proofed"} =>
       /\ cmd.req.op = "cas" /\ Alone /\ Fits
       /\ ledger[leaf] # None /\ ledger[leaf] = Front(document)
       /\ Here("receipt")
  /\ cmd.at \in {"cas staged", "proofed"} => Complete("stage")
  /\ cmd.at = "proofed" => Here("proof")
Updated ==
  (cmd.at = "done" /\ cmd.req.op = "cas" /\ cmd.todo # <<>>) =>
    /\ ledger[leaf] = document /\ ~Here("stage")
    /\ \/ cmd.todo = <<Mine("receipt"), Mine("proof")>>
       \/ cmd.todo = <<Mine("proof")>> /\ ~Here("receipt")
TakenBack ==
  (cmd.at = "refused" /\ cmd.todo # <<>>) =>
    /\ ledger[leaf] = Front(document)
    /\ \/ cmd.todo = <<Mine("proof"), Mine("stage"), Mine("receipt")>>
       \/ cmd.todo = <<Mine("stage"), Mine("receipt")>> /\ ~Here("proof")
       \/ cmd.todo = <<Mine("receipt")>> /\ ~Here("proof") /\ ~Here("stage")

Releasing ==
  cmd.at = "release staged" =>
    /\ cmd.req.op = "release" /\ ledger[leaf] = document
    /\ ~Retired(leaf) /\ ~Busy(leaf) /\ Here("release stage")

Archiving ==
  /\ cmd.at = "archive staged" =>
       /\ cmd.req.op = "archive" /\ ledger[leaf] = document
       /\ Here("release") /\ NoneOf("archive") /\ Here("archive stage")
  /\ cmd.at \in {"archive linked", "members", "ledger member"} =>
       cmd.req.op = "archive" /\ Here("archive")
  /\ cmd.at = "ledger member" =>
       IF cmd.todo = <<>> THEN NoneOf("release")
       ELSE /\ cmd.todo = <<Mine("release")>>
            /\ \A d \in Docs : There("release", leaf, d) => d = document
ArchiveEnds ==
  (cmd.at = "done" /\ cmd.req.op = "archive" /\ cmd.todo # <<>>) =>
    \/ /\ cmd.todo = <<Mine("ledger"), Mine("archive stage")>> \/ cmd.todo = <<Mine("ledger")>>
       /\ Here("archive") /\ NoneOf("release")
    \/ cmd.todo = <<Mine("archive stage")>> /\ ledger[leaf] = None

Reclaiming ==
  /\ cmd.at \in {"prepared", "publish", "swap", "rename", "published"} => cmd.req.op = "reclaim"
  /\ cmd.at = "prepared" => ledger[leaf] = None /\ Here("reclaim receipt")
  /\ (cmd.at = "publish" /\ cmd.todo # <<>>) =>
       cmd.todo = <<Mine("archive")>> /\ (Here("archive") => ledger[leaf] = None)
  /\ cmd.at \in {"swap", "rename"} => Complete("complete stage")
  /\ cmd.at = "rename" =>
       IF cmd.todo = <<>> THEN \A n \in Names, d \in Docs : ~There("complete", n, d)
       ELSE /\ cmd.todo = <<Head(cmd.todo)>> /\ Head(cmd.todo).kind = "complete"
            /\ \A n \in Names, d \in Docs :
                 There("complete", n, d) => Head(cmd.todo) = [kind |-> "complete", name |-> n, doc |-> d]
  /\ (cmd.at = "published" /\ cmd.todo # <<>>) => cmd.todo = <<Mine("complete stage")>>
  /\ (cmd.at = "done" /\ cmd.req.op = "reclaim" /\ cmd.todo # <<>>) =>
       cmd.todo = <<Mine("reclaim receipt")>>

\* Only these stations unlink, and nothing else is in the quarantine meanwhile.
Unlinking ==
  /\ cmd.at \in Operations => cmd.at = cmd.req.op
  /\ cmd.todo # <<>> =>
       cmd.at \in {"done", "refused", "ledger member", "publish", "rename", "published"}
  /\ (cmd.at = "done" /\ cmd.req.op = "create" /\ cmd.todo # <<>>) =>
       cmd.todo = <<Mine("create stage")>>
  /\ (cmd.at = "done" /\ cmd.req.op = "release" /\ cmd.todo # <<>>) =>
       cmd.todo = <<Mine("release stage")>>
  /\ (cmd.todo = <<>> /\ cmd.at \notin {"recover", "refused"}) => bin = NoBin
  /\ cmd.todo # <<>> => bin.phase # "torn"
  /\ (cmd.todo # <<>> /\ bin.phase \in {"moved", "gone", "cleared"}) => ~Visible(Head(cmd.todo))

Knows ==
  cmd # Idle =>
    /\ Creating /\ Updating /\ Updated /\ TakenBack /\ Releasing
    /\ Archiving /\ ArchiveEnds /\ Reclaiming /\ Unlinking

LInv == Types /\ Files /\ Knows

-----------------------------------------------------------------------------
(* Documents, requests and lists of what is to be unlinked *)

LEMMA Document ==
  ASSUME Assumptions, NEW d \in Docs
  PROVE  d # None /\ Len(d) \in 1 .. MaxGen /\ d \in Seq(SUBSET Coords)
<1>1. PICK k \in 1 .. MaxGen : d \in [1 .. k -> SUBSET Coords]
  BY DEF Docs
<1>2. k \in Nat /\ k >= 1 /\ d \in Seq(SUBSET Coords) /\ Len(d) = k
  BY <1>1 DEF Assumptions
<1>. QED
  BY <1>1, <1>2 DEF None

LEMMA Longer ==
  ASSUME Assumptions, NEW d \in Docs, Len(d) > 1
  PROVE  Front(d) # d
<1>1. Len(d) \in Nat /\ d \in Seq(SUBSET Coords)
  BY Document
<1>2. Len(Front(d)) = Len(d) - 1
  BY <1>1 DEF Front
<1>. QED
  BY <1>1, <1>2

LEMMA Request ==
  ASSUME NEW r \in Requests
  PROVE  /\ r.op \in Operations /\ r.name \in Names /\ r.doc \in Docs
         /\ r.op \in Enabled
         /\ r.op = "create" => Len(r.doc) = 1
         /\ r.op = "cas" => Len(r.doc) > 1
BY DEF Requests

LEMMA Lists ==
  /\ \A a : <<a>> # <<>> /\ Head(<<a>>) = a /\ Tail(<<a>>) = <<>>
  /\ \A a, b : <<a, b>> # <<>> /\ Head(<<a, b>>) = a /\ Tail(<<a, b>>) = <<b>>
  /\ \A a, b, c : /\ <<a, b, c>> # <<>> /\ Head(<<a, b, c>>) = a
                  /\ Tail(<<a, b, c>>) = <<b, c>>
<1>1. \A a : <<a>> # <<>> /\ Head(<<a>>) = a /\ Tail(<<a>>) = <<>>
  OBVIOUS
<1>2. \A a, b : <<a, b>> # <<>> /\ Head(<<a, b>>) = a /\ Tail(<<a, b>>) = <<b>>
  OBVIOUS
<1>3. \A a, b, c : /\ <<a, b, c>> # <<>> /\ Head(<<a, b, c>>) = a
                   /\ Tail(<<a, b, c>>) = <<b, c>>
  OBVIOUS
<1>. QED
  BY <1>1, <1>2, <1>3

-----------------------------------------------------------------------------
(* The sets of the inventory, in terms of what is there *)

LEMMA FileForm ==
  ASSUME Types, NEW f \in files
  PROVE  /\ f.kind \in Kinds /\ f.name \in Names /\ f.doc \in Docs
         /\ f = [kind |-> f.kind, name |-> f.name, doc |-> f.doc]
         /\ There(f.kind, f.name, f.doc)
BY DEF Types, Managed, There, Entry

LEMMA Retirement ==
  ASSUME Types, NEW n \in Names
  PROVE  /\ Archived(n) = {d \in Docs : There("archive", n, d)}
         /\ Released(n) = {d \in Docs : There("release", n, d)}
<1>1. \A d : d \in Archived(n) <=> d \in Docs /\ There("archive", n, d)
  <2>1. ASSUME NEW d \in Archived(n) PROVE d \in Docs /\ There("archive", n, d)
    <3>1. PICK f \in files : f.kind = "archive" /\ f.name = n /\ d = f.doc
      BY <2>1 DEF Archived
    <3>. QED  BY <3>1, FileForm
  <2>2. ASSUME NEW d \in Docs, There("archive", n, d) PROVE d \in Archived(n)
    BY <2>2 DEF Archived, There, Entry
  <2>. QED  BY <2>1, <2>2
<1>2. \A d : d \in Released(n) <=> d \in Docs /\ There("release", n, d)
  <2>1. ASSUME NEW d \in Released(n) PROVE d \in Docs /\ There("release", n, d)
    <3>1. PICK f \in files : f.kind = "release" /\ f.name = n /\ d = f.doc
      BY <2>1 DEF Released
    <3>. QED  BY <3>1, FileForm
  <2>2. ASSUME NEW d \in Docs, There("release", n, d) PROVE d \in Released(n)
    BY <2>2 DEF Released, There, Entry
  <2>. QED  BY <2>1, <2>2
<1>. QED
  BY <1>1, <1>2

LEMMA Snapshots ==
  ASSUME Assumptions, Types
  PROVE  /\ \A s \in Committed \cup Staged \cup ArchivedSnapshots :
              s = Snapshot(s.name, s.doc) /\ s.name \in Names /\ s.doc \in Docs
         /\ \A n \in Names, d \in Docs :
              /\ Snapshot(n, d) \in Committed \cup Staged <=> Holds(n, d)
              /\ Snapshot(n, d) \in ArchivedSnapshots <=> There("archive", n, d)
              /\ Snapshot(n, d) \in Marked <=> There("release", n, d) \/ There("archive", n, d)
<1>1. ASSUME NEW s \in Committed
      PROVE  s = Snapshot(s.name, s.doc) /\ s.name \in Names /\ s.doc \in Docs
             /\ s.doc = ledger[s.name]
  <2>1. PICK m \in Names : ledger[m] # None /\ s = Snapshot(m, ledger[m])
    BY <1>1 DEF Committed
  <2>2. ledger[m] \in Docs
    BY <2>1 DEF Types
  <2>. QED  BY <2>1, <2>2 DEF Snapshot
<1>2. ASSUME NEW s \in Staged
      PROVE  s = Snapshot(s.name, s.doc) /\ s.name \in Names /\ s.doc \in Docs
             /\ (Whole("create stage", s.name, s.doc) \/ Whole("stage", s.name, s.doc))
  <2>1. PICK f \in files \ torn : f.kind \in {"create stage", "stage"} /\ s = Snapshot(f.name, f.doc)
    BY <1>2 DEF Staged
  <2>2. f.name \in Names /\ f.doc \in Docs /\ f = [kind |-> f.kind, name |-> f.name, doc |-> f.doc]
    BY <2>1, FileForm
  <2>. QED  BY <2>1, <2>2 DEF Snapshot, Whole, There, Entry
<1>3. ASSUME NEW s \in ArchivedSnapshots
      PROVE  s = Snapshot(s.name, s.doc) /\ s.name \in Names /\ s.doc \in Docs
             /\ There("archive", s.name, s.doc)
  <2>1. PICK f \in files : f.kind = "archive" /\ s = Snapshot(f.name, f.doc)
    BY <1>3 DEF ArchivedSnapshots
  <2>. QED  BY <2>1, FileForm DEF Snapshot
<1>4. ASSUME NEW s \in Marked
      PROVE  There("release", s.name, s.doc) \/ There("archive", s.name, s.doc)
  <2>1. PICK f \in files : f.kind \in {"release", "archive"} /\ s = Snapshot(f.name, f.doc)
    BY <1>4 DEF Marked
  <2>. QED  BY <2>1, FileForm DEF Snapshot
<1>5. ASSUME NEW n \in Names, NEW d \in Docs
      PROVE  /\ Snapshot(n, d).name = n /\ Snapshot(n, d).doc = d
             /\ Holds(n, d) => Snapshot(n, d) \in Committed \cup Staged
             /\ There("archive", n, d) => Snapshot(n, d) \in ArchivedSnapshots
             /\ There("release", n, d) \/ There("archive", n, d) => Snapshot(n, d) \in Marked
  <2>1. ledger[n] = d => Snapshot(n, d) \in Committed
    BY Document DEF Committed
  <2>2. ASSUME NEW kind \in {"create stage", "stage"}, Whole(kind, n, d)
        PROVE  Snapshot(n, d) \in Staged
    <3>. DEFINE f == [kind |-> kind, name |-> n, doc |-> d]
    <3>1. f \in {g \in files \ torn : g.kind \in {"create stage", "stage"}}
      BY <2>2 DEF Whole, There, Entry
    <3>2. f.name = n /\ f.doc = d
      OBVIOUS
    <3>. HIDE DEF f
    <3>. QED  BY <3>1, <3>2 DEF Staged
  <2>3. There("archive", n, d) => Snapshot(n, d) \in ArchivedSnapshots
    BY DEF There, Entry, ArchivedSnapshots, Snapshot
  <2>4. There("release", n, d) \/ There("archive", n, d) => Snapshot(n, d) \in Marked
    BY DEF There, Entry, Marked, Snapshot
  <2>. QED  BY <2>1, <2>2, <2>3, <2>4 DEF Holds, Snapshot
<1>6. ASSUME NEW n \in Names, NEW d \in Docs
      PROVE  /\ Snapshot(n, d) \in Committed \cup Staged => Holds(n, d)
             /\ Snapshot(n, d) \in ArchivedSnapshots => There("archive", n, d)
             /\ Snapshot(n, d) \in Marked => There("release", n, d) \/ There("archive", n, d)
  <2>. DEFINE s == Snapshot(n, d)
  <2>1. s.name = n /\ s.doc = d
    BY <1>5
  <2>. HIDE DEF s
  <2>2. s \in Committed => ledger[n] = d
    BY <1>1, <2>1
  <2>3. s \in Staged => Whole("create stage", n, d) \/ Whole("stage", n, d)
    BY <1>2, <2>1
  <2>4. s \in ArchivedSnapshots => There("archive", n, d)
    BY <1>3, <2>1
  <2>5. s \in Marked => There("release", n, d) \/ There("archive", n, d)
    BY <1>4, <2>1
  <2>6. s \in Committed \cup Staged => Holds(n, d)
    BY <2>2, <2>3 DEF Holds
  <2>. QED  BY <2>4, <2>5, <2>6 DEF s
<1>7. \A s \in Committed \cup Staged \cup ArchivedSnapshots :
        s = Snapshot(s.name, s.doc) /\ s.name \in Names /\ s.doc \in Docs
  BY <1>1, <1>2, <1>3
<1>. QED
  BY <1>5, <1>6, <1>7

\* Nobody is in the way of a candidate that fits: its claims are apart from every claim
\* that stands, and whatever is pending is its own.
LEMMA CandidateStands ==
  ASSUME Assumptions, Types, Files, NEW r \in Requests, CandidateFits(r),
         \A d \in Docs : ~There("release", r.name, d) /\ ~There("archive", r.name, d)
  PROVE  \A m \in Names, c \in Docs : m # r.name /\ Claiming(m, c) => Clear(c, r.doc)
<1>. DEFINE all == Committed \cup Staged \cup ArchivedSnapshots \cup {Snapshot(r.name, r.doc)}
<1>1. r.name \in Names /\ r.doc \in Docs
  BY Request
<1>2. SUFFICES ASSUME NEW m \in Names, NEW c \in Docs, m # r.name, Claiming(m, c)
               PROVE  Clear(c, r.doc)
  OBVIOUS
<1>3. Snapshot(m, c) \in all /\ Snapshot(r.name, r.doc) \in all
  BY <1>2, Snapshots DEF Claiming
<1>4. Snapshot(r.name, r.doc) \notin Historical
  <2>1. Released(r.name) = {} /\ Archived(r.name) = {}
    BY <1>1, Retirement
  <2>2. Snapshot(r.name, r.doc) \notin ArchivedSnapshots
    BY <1>1, Snapshots
  <2>. QED  BY <2>1, <2>2 DEF Historical, Snapshot
<1>5. Snapshot(m, c) \notin Historical
  <2>1. ~There("release", m, c) /\ ~There("archive", m, c) /\ Holds(m, c)
    BY <1>2 DEF Claiming
  <2>2. Snapshot(m, c) \notin ArchivedSnapshots
    BY <2>1, Snapshots
  <2>3. CASE ledger[m] = c
    <3>1. c # None
      BY Document
    <3>2. \A d \in Docs : ~There("release", m, d) /\ ~There("archive", m, d)
      BY <2>1, <2>3, <3>1 DEF Files, MarkerSpeaks, ArchiveCovers
    <3>3. Released(m) = {} /\ Archived(m) = {}
      BY <3>2, Retirement
    <3>. QED  BY <3>3, <2>2 DEF Historical, Snapshot
  <2>4. CASE Whole("create stage", m, c) \/ Whole("stage", m, c)
    <3>1. Busy(m)
      BY <2>4 DEF Busy, Work, Whole, There, Entry
    <3>2. \A d \in Docs : ~There("release", m, d) /\ ~There("archive", m, d)
      BY <3>1 DEF Files, WorkIsUnretired, Retired
    <3>3. Released(m) = {} /\ Archived(m) = {}
      BY <3>2, Retirement
    <3>. QED  BY <3>3, <2>2 DEF Historical, Snapshot
  <2>. QED  BY <2>1, <2>3, <2>4 DEF Holds
<1>6. ~Overlaps(all, Historical)
  BY DEF CandidateFits
<1>7. Snapshot(m, c).name = m /\ Snapshot(m, c).doc = c
      /\ Snapshot(r.name, r.doc).name = r.name /\ Snapshot(r.name, r.doc).doc = r.doc
  BY DEF Snapshot
<1>. HIDE DEF all
<1>. QED
  BY <1>2, <1>3, <1>4, <1>5, <1>6, <1>7 DEF Overlaps, Clear

\* What is pending: everything that is staged or journaled, and a proof without a receipt.
LEMMA PendingIs ==
  ASSUME Types, NEW kind \in Kinds, NEW n \in Names, NEW d \in Docs, There(kind, n, d),
         \/ kind \in {"create stage", "receipt", "stage", "release stage", "archive stage",
                      "reclaim receipt", "complete stage"}
         \/ kind = "proof" /\ ~There("receipt", n, d)
  PROVE  [kind |-> kind, name |-> n, doc |-> d] \in Pending
BY DEF Pending, There, Entry, Has, File

LEMMA OwnFilesAre ==
  ASSUME NEW r \in Requests, NEW f \in OwnFiles(r)
  PROVE  /\ f = File(f.kind, r) /\ f.name = r.name /\ f.doc = r.doc
         /\ r.op = "create" => f.kind = "create stage"
         /\ r.op = "cas" => f.kind \in {"receipt", "stage", "proof"}
         /\ r.op = "release" => f.kind = "release stage"
         /\ r.op = "archive" => f.kind = "archive stage"
<1>1. PICK kind \in CASE r.op = "create" -> {"create stage"}
                      [] r.op = "cas" -> {"receipt", "stage", "proof"}
                      [] r.op = "release" -> {"release stage"}
                      [] r.op = "archive" -> {"archive stage"}
                      [] OTHER -> {"reclaim receipt", "complete stage"} : f = File(kind, r)
  BY DEF OwnFiles
<1>. QED
  BY <1>1 DEF File

-----------------------------------------------------------------------------
(* What stands in the root agrees as the inventory wants it to *)

LEMMA Agrees ==
  ASSUME Assumptions, Types, Files
  PROVE  /\ UpdatesAgree
         /\ RetirementAgrees
         /\ ~Overlaps(Committed \cup Staged \cup ArchivedSnapshots, Marked)
<1>1. UpdatesAgree
  <2>. SUFFICES ASSUME NEW f \in {g \in files : g.kind \in {"receipt", "stage", "proof"}}
                PROVE  IF ~Has("receipt", f)
                       THEN ~Has("stage", f) /\ ledger[f.name] = f.doc
                       ELSE /\ ledger[f.name] # None
                            /\ ~Has("stage", f) =>
                                 IF Has("proof", f) THEN ledger[f.name] = f.doc
                                                    ELSE ledger[f.name] = Front(f.doc)
    BY DEF UpdatesAgree
  <2>1. f.name \in Names /\ f.doc \in Docs /\ There(f.kind, f.name, f.doc)
    BY FileForm
  <2>2. \A kind : Has(kind, f) <=> There(kind, f.name, f.doc)
    BY DEF Has, File, There, Entry
  <2>. QED  BY <2>1, <2>2 DEF Files, UpdatesStand
<1>2. RetirementAgrees
  <2>. SUFFICES ASSUME NEW n \in Names
                PROVE  /\ Cardinality(Archived(n)) <= 1
                       /\ \A d \in Released(n) :
                            IF ledger[n] = None THEN Archived(n) # {} ELSE ledger[n] = d
    BY DEF RetirementAgrees
  <2>1. \A c, d \in Archived(n) : c = d
    BY Retirement DEF Files, OneArchive
  <2>2. Cardinality(Archived(n)) <= 1
    <3>1. CASE Archived(n) = {}
      BY <3>1, FS_EmptySet
    <3>2. CASE Archived(n) # {}
      <4>1. PICK d : Archived(n) = {d}
        BY <2>1, <3>2
      <4>2. Cardinality({d}) = 1
        BY FS_Singleton
      <4>. QED  BY <4>1, <4>2
    <3>. QED  BY <3>1, <3>2
  <2>3. \A d \in Released(n) : d \in Docs /\ d # None /\ ledger[n] = d
    BY Retirement, Document DEF Files, MarkerSpeaks
  <2>. QED  BY <2>2, <2>3
<1>3. ~Overlaps(Committed \cup Staged \cup ArchivedSnapshots, Marked)
  <2>. SUFFICES ASSUME NEW a \in (Committed \cup Staged \cup ArchivedSnapshots) \ Marked,
                       NEW b \in (Committed \cup Staged \cup ArchivedSnapshots) \ Marked,
                       a.name # b.name
                PROVE  Claims(a.doc) \cap Claims(b.doc) = {}
    BY DEF Overlaps
  <2>1. \A s \in (Committed \cup Staged \cup ArchivedSnapshots) \ Marked :
          s.name \in Names /\ s.doc \in Docs /\ Claiming(s.name, s.doc)
    BY Snapshots DEF Claiming
  <2>2. /\ a.name \in Names /\ a.doc \in Docs /\ Claiming(a.name, a.doc)
        /\ b.name \in Names /\ b.doc \in Docs /\ Claiming(b.name, b.doc)
    BY <2>1
  <2>3. Clear(a.doc, b.doc)
    BY <2>2 DEF Files, Apart
  <2>. QED  BY <2>3 DEF Clear
<1>. QED
  BY <1>1, <1>2, <1>3

-----------------------------------------------------------------------------
(* The first state *)

LEMMA Starts ==
  ASSUME Assumptions, Init
  PROVE  LInv
<1>1. Types
  BY DEF Init, Types, Bins, NoBin
<1>2. Files
  <2>1. \A kind, n, d : ~There(kind, n, d) /\ ~Whole(kind, n, d)
    BY DEF Init, There, Entry, Whole
  <2>2. \A n \in Names, d \in Docs : ledger[n] # d
    BY Document DEF Init
  <2>. QED
    BY <2>1, <2>2 DEF Files, OneArchive, OneCompleted, MarkerSpeaks, ArchiveCovers, WorkIsUnretired,
         Busy, UpdatesStand, Apart, Claiming, Holds
<1>3. Knows
  BY DEF Init, Knows
<1>. QED
  BY <1>1, <1>2, <1>3 DEF LInv

-----------------------------------------------------------------------------
(* Commands that move, and a root that does not *)

LEMMA Commanded ==
  ASSUME Types
  PROVE  /\ cmd.at # "idle" => cmd \in Command
         /\ cmd # Idle => cmd \in Command
         /\ cmd \in Command =>
              /\ cmd # Idle
              /\ cmd.req \in Requests /\ leaf \in Names /\ document \in Docs
              /\ cmd.todo \in Seq(Unlinkable)
              /\ \A kind \in Kinds \cup {"ledger"} : Mine(kind) \in Unlinkable
              /\ \A kind \in Kinds : Mine(kind) \in Managed
              /\ \A kind : /\ Mine(kind) = [kind |-> kind, name |-> leaf, doc |-> document]
                           /\ Mine(kind) \in files <=> Here(kind)
<1>1. /\ cmd.at # "idle" => cmd \in Command
      /\ cmd # Idle => cmd \in Command
  BY DEF Types, Idle
<1>2. ASSUME cmd \in Command
      PROVE  cmd.req \in Requests /\ cmd.todo \in Seq(Unlinkable) /\ cmd.at \in Stations
  BY <1>2 DEF Command
<1>3. ASSUME cmd \in Command
      PROVE  cmd # Idle /\ leaf \in Names /\ document \in Docs
  <2>1. cmd.at # "idle"
    BY <1>2, <1>3 DEF Stations, Operations
  <2>. QED  BY <2>1, <1>2, <1>3, Request DEF Idle, leaf, document
<1>4. \A kind : /\ Mine(kind) = [kind |-> kind, name |-> leaf, doc |-> document]
                /\ Mine(kind) \in files <=> Here(kind)
  BY DEF Mine, File, Here, There, Entry, leaf, document
<1>. QED
  BY <1>1, <1>2, <1>3, <1>4 DEF Managed, Unlinkable

Moved(station, todo) ==
  cmd' \in Command /\ cmd'.at = station /\ cmd'.req = cmd.req /\ cmd'.todo = todo

LEMMA Going ==
  ASSUME cmd \in Command, NEW station \in Stations
  PROVE  /\ Go(station) => Moved(station, cmd.todo)
         /\ \A todo \in Seq(Unlinkable) : GoUnlinking(station, todo) => Moved(station, todo)
         /\ \A kind : Write(kind, station) => Moved(station, cmd.todo)
<1>1. Go(station) => Moved(station, cmd.todo)
  BY DEF Go, Moved, Command
<1>2. \A todo \in Seq(Unlinkable) : GoUnlinking(station, todo) => Moved(station, todo)
  BY DEF GoUnlinking, Moved, Command
<1>3. ASSUME NEW kind, Write(kind, station)
      PROVE  Moved(station, cmd.todo)
  <2>1. (Mine(kind) \in torn \/ ~Present(kind)) \in BOOLEAN
    OBVIOUS
  <2>. QED  BY <1>3, <2>1 DEF Write, Moved, Command
<1>. QED
  BY <1>1, <1>2, <1>3

LEMMA Lists2 ==
  ASSUME Types, cmd \in Command
  PROVE  /\ \A kind \in Kinds \cup {"ledger"} :
              /\ <<Mine(kind)>> \in Seq(Unlinkable)
              /\ IfThere(Mine(kind)) \in Seq(Unlinkable)
              /\ IfThere(Mine(kind)) \in {<<>>, <<Mine(kind)>>}
         /\ \A j, k \in Kinds \cup {"ledger"} : <<Mine(j), Mine(k)>> \in Seq(Unlinkable)
         /\ \A i, j, k \in Kinds : <<Mine(i), Mine(j), Mine(k)>> \in Seq(Unlinkable)
BY Commanded DEF IfThere

LEMMA SameRoot ==
  ASSUME UNCHANGED <<ledger, files, torn>>
  PROVE  /\ \A kind, n, d : There(kind, n, d)' <=> There(kind, n, d)
         /\ \A n, d : Claiming(n, d)' <=> Claiming(n, d)
         /\ Files => Files'
<1>1. \A kind, n, d : (There(kind, n, d)' <=> There(kind, n, d)) /\ (Whole(kind, n, d)' <=> Whole(kind, n, d))
  BY DEF There, Entry, Whole
<1>2. \A n, d : Claiming(n, d)' <=> Claiming(n, d)
  BY <1>1 DEF Claiming, Holds
<1>3. ASSUME Files PROVE Files'
  <2>. USE <1>1, <1>2, <1>3 DEF Files
  <2>1. OneArchive'  BY DEF OneArchive
  <2>2. OneCompleted'  BY DEF OneCompleted
  <2>3. MarkerSpeaks'  BY DEF MarkerSpeaks
  <2>4. ArchiveCovers'  BY DEF ArchiveCovers
  <2>5. WorkIsUnretired'  BY DEF WorkIsUnretired, Busy, Retired
  <2>6. UpdatesStand'  BY DEF UpdatesStand
  <2>7. Apart'  BY DEF Apart, Clear
  <2>. QED  BY <2>1, <2>2, <2>3, <2>4, <2>5, <2>6, <2>7
<1>. QED
  BY <1>1, <1>2, <1>3

\* A command that moves and leaves the root alone keeps what the root says of itself, and
\* what it knew.
LEMMA Steady ==
  ASSUME LInv, cmd \in Command, NEW station, NEW todo, Moved(station, todo), UNCHANGED <<disk, world>>
  PROVE  /\ Types' /\ Files'
         /\ cmd # Idle /\ Knows /\ cmd' # Idle
         /\ leaf' = leaf /\ document' = document
         /\ \A kind : Mine(kind)' = Mine(kind) /\ Here(kind)' = Here(kind) /\ NoneOf(kind)' = NoneOf(kind)
         /\ \A kind, n, d : There(kind, n, d)' <=> There(kind, n, d)
         /\ station # "staged" => Creating'
<1>1. UNCHANGED <<ledger, files, torn>>
  BY DEF disk
<1>2. Types'
  BY DEF LInv, Types, Moved, disk, world
<1>3. Files' /\ \A kind, n, d : There(kind, n, d)' <=> There(kind, n, d)
  BY <1>1, SameRoot DEF LInv
<1>4. cmd # Idle /\ Knows
  BY Commanded DEF LInv
<1>5. cmd' # Idle
  <2>1. cmd'.at \in Stations
    BY DEF Moved, Command
  <2>2. cmd'.at # "idle"
    BY <2>1 DEF Stations, Operations
  <2>3. Idle.at = "idle" /\ Idle' = Idle
    BY DEF Idle
  <2>. QED  BY <2>2, <2>3
<1>6. leaf' = leaf /\ document' = document
  BY DEF Moved, leaf, document
<1>7. \A kind : Mine(kind)' = Mine(kind)
  BY DEF Moved, Mine, File
<1>8. \A kind : Here(kind)' = Here(kind) /\ NoneOf(kind)' = NoneOf(kind)
  BY <1>1, <1>6 DEF Here, NoneOf, There, Entry
<1>9. station # "staged" => Creating'
  BY <1>4, <1>8 DEF Knows, Creating, Moved
<1>. QED
  BY <1>2, <1>3, <1>4, <1>5, <1>6, <1>7, <1>8, <1>9

\* Stations where a command knows nothing of the root yet, or nothing any more.
LEMMA Arrives ==
  ASSUME LInv, cmd \in Command, NEW station, Moved(station, <<>>), UNCHANGED <<disk, world>>,
         \/ station = "refused"
         \/ bin = NoBin /\ station = "done"
         \/ bin = NoBin /\ station \in Operations /\ station = cmd.req.op
         \/ bin = NoBin /\ station \in {"publish", "published"} /\ cmd.req.op = "reclaim"
  PROVE  LInv'
<1>1. Types' /\ Files' /\ Creating'
  BY Steady DEF Operations
<1>2. Updating' /\ Updated' /\ TakenBack' /\ Releasing' /\ Archiving' /\ ArchiveEnds'
  BY DEF Moved, Updating, Updated, TakenBack, Releasing, Archiving, ArchiveEnds, Operations
<1>3. Reclaiming' /\ Unlinking'
  BY DEF Moved, Reclaiming, Unlinking, disk, Operations
<1>. QED
  BY <1>1, <1>2, <1>3 DEF LInv, Knows

LEMMA Refuses ==
  ASSUME LInv, cmd \in Command, cmd.todo = <<>>, Refuse, UNCHANGED world
  PROVE  LInv'
<1>1. Moved("refused", <<>>)
  BY Going DEF Refuse, Stations
<1>. QED
  BY <1>1, Arrives DEF Refuse

\* What is known at a station a command is at.
LEMMA Station ==
  ASSUME LInv, NEW station \in Stations, At(station)
  PROVE  /\ Types /\ Files
         /\ cmd \in Command /\ cmd # Idle /\ Knows
         /\ cmd.at = station /\ cmd.todo = <<>>
         /\ station \notin {"recover", "refused"} => bin = NoBin
         /\ station \in Operations => cmd.req.op = station
<1>1. cmd.at # "idle" /\ cmd.at = station /\ cmd.todo = <<>>
  BY DEF At, Stations, Operations
<1>2. Types /\ Files /\ cmd \in Command /\ cmd # Idle /\ Knows
  BY <1>1, Commanded DEF LInv
<1>. QED
  BY <1>1, <1>2 DEF Knows, Unlinking

LEMMA InventoryKeeps ==
  ASSUME LInv, Inventory
  PROVE  LInv'
<1>1. cmd \in Command /\ cmd.at = "recover" /\ cmd.todo = <<>> /\ bin = NoBin
  BY Station DEF Inventory, Stations
<1>2. cmd.req.op \in Operations
  BY <1>1, Request, Commanded DEF LInv
<1>3. Moved(IF Readable THEN cmd.req.op ELSE "refused", <<>>) /\ UNCHANGED <<disk, world>>
  BY <1>1, <1>2, Going DEF Inventory, Stations
<1>. QED
  BY <1>1, <1>2, <1>3, Arrives

LEMMA RecoverKeeps ==
  ASSUME LInv, RecoverUnlink
  PROVE  LInv'
<1>1. cmd \in Command /\ cmd.at = "recover" /\ cmd.todo = <<>> /\ bin # NoBin
  BY Station DEF RecoverUnlink, Stations
<1>2. CASE bin.phase = "torn"
  <2>1. Moved("refused", <<>>) /\ UNCHANGED <<disk, world>>
    BY <1>1, <1>2, Going DEF RecoverUnlink, disk, Stations
  <2>. QED  BY <1>1, <2>1, Arrives
<1>3. CASE bin.phase # "torn"
  <2>1. UNCHANGED <<cmd, ledger, files, torn, proven>>
    BY <1>3 DEF RecoverUnlink, world
  <2>2. bin' \in Bins /\ (bin' = NoBin \/ bin'.phase # "none")
    BY <1>3 DEF LInv, Types, RecoverUnlink, Bins, NoBin
  <2>3. Types' /\ Files'
    BY <2>1, <2>2, SameRoot DEF LInv, Types
  <2>4. Creating /\ cmd # Idle /\ leaf' = leaf
    BY <1>1, Commanded, <2>1 DEF LInv, Knows, leaf
  <2>5. Creating'
    BY <1>1, <2>1, <2>4, SameRoot DEF Creating, NoneOf
  <2>6. Knows'
    BY <1>1, <2>1, <2>5 DEF Knows, Updating, Updated, TakenBack, Releasing, Archiving, ArchiveEnds,
       Reclaiming, Unlinking, Operations
  <2>. QED  BY <2>3, <2>6 DEF LInv
<1>. QED
  BY <1>2, <1>3

-----------------------------------------------------------------------------
(* Beginnings, ends, kills and the world outside *)

LEMMA BeginKeeps ==
  ASSUME LInv, "again" \notin Enabled, NEW r \in Requests, Begin(r)
  PROVE  LInv'
<1>1. UNCHANGED <<ledger, files, torn, bin, proven>>
  BY DEF Begin, disk, world
<1>2. cmd' = [at |-> "recover", req |-> r, todo |-> <<>>, wrote |-> FALSE]
  BY DEF Begin
<1>3. cmd' \in Command /\ cmd'.req = r /\ cmd'.at = "recover" /\ cmd'.todo = <<>>
  BY <1>2 DEF Command, Stations
<1>4. Types'
  BY <1>1, <1>3 DEF LInv, Types
<1>5. Files'
  BY <1>1, SameRoot DEF LInv
<1>6. r.op = "create" => \A d \in Docs : ~There("archive", r.name, d)
  <2>1. r.name \in Names
    BY Request
  <2>2. r.op = "create" => Archived(r.name) = {}
    BY DEF Begin
  <2>. QED  BY <2>1, <2>2, Retirement DEF LInv
<1>7. Creating'
  BY <1>1, <1>3, <1>6, SameRoot DEF Creating, NoneOf, leaf
<1>8. Knows'
  BY <1>3, <1>7 DEF Knows, Updating, Updated, TakenBack, Releasing, Archiving, ArchiveEnds, Reclaiming,
     Unlinking, Operations
<1>. QED
  BY <1>4, <1>5, <1>8 DEF LInv

\* What a command knows stands as long as it and the root do.
LEMMA SameKnows ==
  ASSUME UNCHANGED <<ledger, files, torn, bin, cmd>>, Knows
  PROVE  Knows'
<1>1. /\ leaf' = leaf /\ document' = document
      /\ ledger' = ledger /\ bin' = bin /\ cmd' = cmd
  BY DEF leaf, document
<1>2. /\ \A kind, n, d : There(kind, n, d)' <=> There(kind, n, d)
      /\ \A n, d : Claiming(n, d)' <=> Claiming(n, d)
  BY SameRoot
<1>3. \A kind : /\ (Here(kind)' <=> Here(kind)) /\ (NoneOf(kind)' <=> NoneOf(kind))
               /\ (Complete(kind)' <=> Complete(kind)) /\ Mine(kind)' = Mine(kind)
  BY <1>1, <1>2 DEF Here, NoneOf, Complete, Whole, There, Mine
<1>4. (Alone' <=> Alone) /\ (Fits' <=> Fits)
  BY <1>1, <1>2 DEF Alone, Fits, Clear
<1>5. (Busy(leaf)' <=> Busy(leaf)) /\ (Retired(leaf)' <=> Retired(leaf))
  BY <1>1, <1>2 DEF Busy, Retired
<1>6. Creating => Creating'
  BY <1>1, <1>3 DEF Creating
<1>7. Updating => Updating'
  BY <1>1, <1>3, <1>4 DEF Updating
<1>8. (Updated => Updated') /\ (TakenBack => TakenBack')
  BY <1>1, <1>3 DEF Updated, TakenBack
<1>9. Releasing => Releasing'
  BY <1>1, <1>3, <1>5 DEF Releasing
<1>10. Archiving => Archiving'
  BY <1>1, <1>2, <1>3 DEF Archiving
<1>11. ArchiveEnds => ArchiveEnds'
  BY <1>1, <1>3 DEF ArchiveEnds
<1>12. Reclaiming => Reclaiming'
  BY <1>1, <1>2, <1>3 DEF Reclaiming
<1>13. Unlinking => Unlinking'
  BY <1>1, <1>3 DEF Unlinking, Visible
<1>. QED
  BY <1>1, <1>6, <1>7, <1>8, <1>9, <1>10, <1>11, <1>12, <1>13 DEF Knows

LEMMA EndKeeps ==
  ASSUME LInv, Return \/ Crash
  PROVE  LInv'
<1>1. UNCHANGED <<ledger, files, torn, bin, proven>> /\ cmd' = Idle
  BY DEF Return, Crash, disk, world
<1>2. Types' /\ Knows'
  BY <1>1 DEF LInv, Types, Knows, Idle
<1>. QED
  BY <1>1, <1>2, SameRoot DEF LInv

LEMMA DriftKeeps ==
  ASSUME LInv, NEW n \in Names, Drift(n)
  PROVE  LInv'
<1>1. UNCHANGED <<ledger, files, torn, bin, cmd>> /\ proven' \subseteq Names
  BY DEF Drift, disk, LInv, Types
<1>2. Types'
  BY <1>1 DEF LInv, Types
<1>3. Knows'
  BY <1>1, SameKnows DEF LInv
<1>. QED
  BY <1>1, <1>2, <1>3, SameRoot DEF LInv

\* A file that is half written claims no more than it did.
LEMMA Halves ==
  ASSUME UNCHANGED <<ledger, files>>, torn \subseteq torn', Files
  PROVE  Files'
<1>1. \A kind, n, d : (There(kind, n, d)' <=> There(kind, n, d)) /\ (Whole(kind, n, d)' => Whole(kind, n, d))
  BY DEF There, Entry, Whole
<1>2. \A n, d : Claiming(n, d)' => Claiming(n, d)
  BY <1>1 DEF Claiming, Holds
<1>. USE <1>1, <1>2 DEF Files
<1>3. OneArchive'  BY DEF OneArchive
<1>4. OneCompleted'  BY DEF OneCompleted
<1>5. MarkerSpeaks'  BY DEF MarkerSpeaks
<1>6. ArchiveCovers'  BY DEF ArchiveCovers
<1>7. WorkIsUnretired'  BY DEF WorkIsUnretired, Busy, Retired
<1>8. UpdatesStand'  BY DEF UpdatesStand
<1>9. Apart'  BY DEF Apart, Clear
<1>. QED
  BY <1>3, <1>4, <1>5, <1>6, <1>7, <1>8, <1>9

\* What a command has just written is there.
LEMMA JustWritten ==
  ASSUME LInv, cmd # Idle, cmd.at \in DOMAIN WrittenAt
  PROVE  Mine(WrittenAt[cmd.at]) \in files
<1>1. cmd \in Command /\ Creating /\ Updating /\ Releasing /\ Archiving /\ Reclaiming
  BY Commanded DEF LInv, Knows
<1>2. Here(WrittenAt[cmd.at])
  BY <1>1 DEF WrittenAt, Creating, Updating, Releasing, Archiving, Reclaiming, Complete, Whole, Here
<1>. QED
  BY <1>1, <1>2, Commanded DEF LInv

LEMMA CrashWritingKeeps ==
  ASSUME LInv, CrashWriting
  PROVE  LInv'
<1>1. UNCHANGED <<ledger, files, proven>> /\ cmd' = Idle
  BY DEF CrashWriting
<1>2. torn \subseteq torn' /\ torn' \subseteq files
  BY JustWritten DEF CrashWriting, LInv, Types
<1>3. bin' \in Bins /\ (bin' = NoBin \/ bin'.phase # "none")
  BY DEF CrashWriting, LInv, Types, Bins
<1>4. Types' /\ Knows'
  BY <1>1, <1>2, <1>3 DEF LInv, Types, Knows, Idle
<1>. QED
  BY <1>1, <1>2, <1>4, Halves DEF LInv

-----------------------------------------------------------------------------
(* One file more *)

Adds(kind) ==
  \A k, n, d : Entry(k, n, d) \in files' <=> There(k, n, d) \/ (k = kind /\ n = leaf /\ d = document)
Gains(kind) ==
  /\ Adds(kind)
  /\ \A k, n, d :
       /\ Entry(k, n, d) \in torn' => Entry(k, n, d) \in torn
       /\ Entry(k, n, d) \notin torn' =>
            Entry(k, n, d) \notin torn \/ (k = kind /\ n = leaf /\ d = document)
  /\ files' \subseteq Managed /\ torn' \subseteq files'
  /\ ledger' = ledger

LEMMA Gaining ==
  ASSUME Types, cmd \in Command, NEW kind \in Kinds, NEW station, NEW todo,
         Write(kind, station) \/ Link(kind, station, todo)
  PROVE  Gains(kind) /\ bin' = bin
<1>1. files' = files \cup {Mine(kind)} /\ ledger' = ledger /\ bin' = bin
  BY DEF Write, Link
<1>2. torn' = torn \ {Mine(kind)} \/ (torn' = torn /\ Mine(kind) \notin torn)
  BY DEF Write, Link, Types
<1>3. Mine(kind) \in Managed /\ Mine(kind) = [kind |-> kind, name |-> leaf, doc |-> document]
  BY Commanded
<1>4. files' \subseteq Managed /\ torn' \subseteq files'
  BY <1>1, <1>2, <1>3 DEF Types
<1>5. ASSUME NEW k, NEW n, NEW d
      PROVE  Entry(k, n, d) = Mine(kind) <=> k = kind /\ n = leaf /\ d = document
  BY <1>3 DEF Entry
<1>6. \A k, n, d :
        /\ Entry(k, n, d) \in files' <=> There(k, n, d) \/ (k = kind /\ n = leaf /\ d = document)
        /\ Entry(k, n, d) \in torn' => Entry(k, n, d) \in torn
        /\ Entry(k, n, d) \notin torn' =>
             Entry(k, n, d) \notin torn \/ (k = kind /\ n = leaf /\ d = document)
  BY <1>1, <1>2, <1>5 DEF There
<1>. QED
  BY <1>1, <1>4, <1>6 DEF Gains, Adds

LEMMA AddsArchives ==
  ASSUME NEW kind, Adds(kind), OneArchive, kind = "archive" => NoneOf("archive")
  PROVE  OneArchive'
BY DEF Adds, There, OneArchive, NoneOf

LEMMA AddsCompleted ==
  ASSUME NEW kind, Adds(kind), OneCompleted, kind # "complete"
  PROVE  OneCompleted'
BY DEF Adds, There, OneCompleted

LEMMA AddsMarkers ==
  ASSUME NEW kind, Adds(kind), ledger' = ledger, MarkerSpeaks,
         kind = "release" => ledger[leaf] = document
  PROVE  MarkerSpeaks'
BY DEF Adds, There, MarkerSpeaks

LEMMA AddsCovers ==
  ASSUME NEW kind, Adds(kind), ledger' = ledger, ArchiveCovers, kind # "archive"
  PROVE  ArchiveCovers'
<1>. SUFFICES ASSUME NEW n \in Names, NEW d \in Docs, There("archive", n, d)', ledger'[n] # None
              PROVE  ledger'[n] = d /\ There("archive stage", n, d)'
  BY DEF ArchiveCovers
<1>1. Entry("archive", n, d) \in files'
  BY DEF There
<1>2. There("archive", n, d)
  BY <1>1 DEF Adds
<1>3. ledger[n] = d /\ There("archive stage", n, d)
  BY <1>2 DEF ArchiveCovers
<1>4. Entry("archive stage", n, d) \in files'
  BY <1>3 DEF Adds
<1>. QED
  BY <1>3, <1>4 DEF There

LEMMA AddsArchive ==
  ASSUME Adds("archive"), ledger' = ledger, ArchiveCovers,
         ledger[leaf] = document, Here("archive stage")
  PROVE  ArchiveCovers'
BY DEF Adds, There, ArchiveCovers, Here

LEMMA AddsUnretired ==
  ASSUME NEW kind, Adds(kind), WorkIsUnretired,
         kind \in Work => ~Retired(leaf),
         kind \in {"release", "archive"} => ~Busy(leaf)
  PROVE  WorkIsUnretired'
<1>1. ASSUME NEW n \in Names,
             NEW k \in Work, NEW c \in Docs, Entry(k, n, c) \in files',
             NEW d \in Docs, Entry("release", n, d) \in files' \/ Entry("archive", n, d) \in files'
      PROVE  FALSE
  <2>1. Busy(n) \/ (kind \in Work /\ n = leaf)
    BY <1>1 DEF Adds, Busy
  <2>2. Retired(n) \/ (kind \in {"release", "archive"} /\ n = leaf)
    BY <1>1 DEF Adds, Retired
  <2>. QED  BY <2>1, <2>2 DEF WorkIsUnretired, Work
<1>. QED
  BY <1>1 DEF WorkIsUnretired, Busy, Retired, There

LEMMA AddsUpdates ==
  ASSUME NEW kind, Adds(kind), ledger' = ledger, UpdatesStand,
         kind \notin {"receipt", "stage", "proof"}
  PROVE  UpdatesStand'
BY DEF Adds, There, UpdatesStand

LEMMA AddsReceipt ==
  ASSUME Adds("receipt"), ledger' = ledger, UpdatesStand, leaf \in Names, document \in Docs,
         ledger[leaf] # None, ledger[leaf] = Front(document),
         There("proof", leaf, document) => There("stage", leaf, document)
  PROVE  UpdatesStand'
BY DEF Adds, There, UpdatesStand

LEMMA AddsStage ==
  ASSUME Adds("stage"), ledger' = ledger, UpdatesStand, Here("receipt"),
         ledger[leaf] # None, ledger[leaf] = Front(document)
  PROVE  UpdatesStand'
BY DEF Adds, There, UpdatesStand, Here

LEMMA AddsProof ==
  ASSUME Adds("proof"), ledger' = ledger, UpdatesStand, Here("stage"), leaf \in Names, document \in Docs
  PROVE  UpdatesStand'
BY DEF Adds, There, UpdatesStand, Here

LEMMA AddsClaim ==
  ASSUME NEW kind, Gains(kind), Apart, kind \in {"create stage", "stage"} => Fits
  PROVE  Apart'
<1>. DEFINE Becoming(n, d) ==
       /\ \/ ledger[n] = d
          \/ \E k \in {"create stage", "stage"} :
               Entry(k, n, d) \in files' /\ Entry(k, n, d) \notin torn'
       /\ Entry("release", n, d) \notin files' /\ Entry("archive", n, d) \notin files'
<1>1. ASSUME NEW n \in Names, NEW d \in Docs, Becoming(n, d)
      PROVE  Claiming(n, d) \/ (kind \in {"create stage", "stage"} /\ n = leaf /\ d = document)
  <2>1. ~There("release", n, d) /\ ~There("archive", n, d)
    BY <1>1 DEF Gains, Adds
  <2>2. CASE ledger[n] = d
    BY <2>1, <2>2 DEF Claiming, Holds
  <2>3. ASSUME NEW k \in {"create stage", "stage"}, Entry(k, n, d) \in files', Entry(k, n, d) \notin torn'
        PROVE  Whole(k, n, d) \/ (kind \in {"create stage", "stage"} /\ n = leaf /\ d = document)
    <3>1. There(k, n, d) \/ (k = kind /\ n = leaf /\ d = document)
      BY <2>3 DEF Gains, Adds
    <3>2. Entry(k, n, d) \notin torn \/ (k = kind /\ n = leaf /\ d = document)
      BY <2>3 DEF Gains
    <3>. QED  BY <3>1, <3>2 DEF Whole
  <2>. QED  BY <1>1, <2>1, <2>2, <2>3 DEF Claiming, Holds
<1>2. ASSUME NEW m \in Names, NEW n \in Names, NEW c \in Docs, NEW d \in Docs,
             m # n, Becoming(m, c), Becoming(n, d)
      PROVE  Clear(c, d)
  <2>1. /\ Claiming(m, c) \/ (kind \in {"create stage", "stage"} /\ m = leaf /\ c = document)
        /\ Claiming(n, d) \/ (kind \in {"create stage", "stage"} /\ n = leaf /\ d = document)
    BY <1>1, <1>2
  <2>2. CASE Claiming(m, c) /\ Claiming(n, d)
    BY <1>2, <2>2 DEF Apart
  <2>3. CASE ~Claiming(m, c)
    <3>1. Fits /\ m = leaf /\ c = document /\ Claiming(n, d)
      BY <1>2, <2>1, <2>3
    <3>2. Clear(d, c)
      BY <1>2, <3>1 DEF Fits
    <3>. QED  BY <3>2 DEF Clear
  <2>4. CASE ~Claiming(n, d)
    <3>1. Fits /\ n = leaf /\ d = document /\ Claiming(m, c)
      BY <1>2, <2>1, <2>4
    <3>. QED  BY <1>2, <3>1 DEF Fits
  <2>. QED  BY <2>2, <2>3, <2>4
<1>3. ledger' = ledger
  BY DEF Gains
<1>. SUFFICES ASSUME NEW m \in Names, NEW n \in Names, NEW c \in Docs, NEW d \in Docs,
                     m # n, Claiming(m, c)', Claiming(n, d)'
              PROVE  Clear(c, d)
  BY DEF Apart, Clear
<1>4. Becoming(m, c) /\ Becoming(n, d)
  BY <1>3 DEF Claiming, Holds, Whole, There
<1>. QED
  BY <1>2, <1>4

LEMMA GainsFiles ==
  ASSUME Assumptions, Files, cmd \in Command, Types, NEW kind, Gains(kind),
         \/ kind \in {"release stage", "archive stage", "reclaim receipt", "complete stage"}
         \/ kind = "create stage" /\ ~Retired(leaf) /\ Fits
         \/ /\ kind = "receipt" /\ ~Retired(leaf) /\ Len(document) > 1
            /\ ledger[leaf] # None /\ ledger[leaf] = Front(document)
         \/ /\ kind = "stage" /\ Here("receipt") /\ Fits
            /\ ledger[leaf] # None /\ ledger[leaf] = Front(document)
         \/ kind = "proof" /\ Here("stage")
         \/ kind = "release" /\ ~Busy(leaf) /\ ledger[leaf] = document
         \/ /\ kind = "archive" /\ NoneOf("archive") /\ Here("release") /\ Here("archive stage")
            /\ ledger[leaf] = document
  PROVE  Files'
<1>1. /\ OneArchive /\ OneCompleted /\ MarkerSpeaks /\ ArchiveCovers
      /\ WorkIsUnretired /\ UpdatesStand /\ Apart
      /\ Adds(kind) /\ ledger' = ledger
      /\ leaf \in Names /\ document \in Docs
  BY Commanded DEF Files, Gains
<1>2. OneArchive' /\ OneCompleted' /\ MarkerSpeaks' /\ ArchiveCovers'
  BY <1>1, AddsArchives, AddsCompleted, AddsMarkers, AddsCovers, AddsArchive
<1>3. WorkIsUnretired'
  <2>1. Here("receipt") \/ Here("stage") => ~Retired(leaf)
    BY <1>1 DEF WorkIsUnretired, Busy, Work, Here
  <2>2. Here("release") => ~Busy(leaf)
    BY <1>1 DEF WorkIsUnretired, Retired, Here
  <2>. QED  BY <1>1, <2>1, <2>2, AddsUnretired DEF Work
<1>4. UpdatesStand'
  <2>1. CASE kind = "receipt"
    <3>1. Front(document) # document /\ ledger[leaf] = Front(document) /\ ledger[leaf] # None
      BY <1>1, <2>1, Longer
    <3>2. There("proof", leaf, document) => There("stage", leaf, document)
      BY <1>1, <3>1 DEF UpdatesStand
    <3>. QED  BY <1>1, <2>1, <3>1, <3>2, AddsReceipt
  <2>2. CASE kind = "stage"
    BY <1>1, <2>2, AddsStage
  <2>3. CASE kind = "proof"
    BY <1>1, <2>3, AddsProof
  <2>. QED  BY <1>1, <2>1, <2>2, <2>3, AddsUpdates
<1>5. Apart'
  BY <1>1, AddsClaim
<1>. QED
  BY <1>2, <1>3, <1>4, <1>5 DEF Files

-----------------------------------------------------------------------------
(* One file less *)

Drops(kind, name, d0) ==
  \A k, n, d :
    Entry(k, n, d) \in files' <=> There(k, n, d) /\ ~(k = kind /\ n = name /\ d = d0)

\* What makes a file safe to take away.
Removable(kind, n, d) ==
  There(kind, n, d) =>
    /\ kind = "archive stage" => ledger[n] = None
    /\ kind = "receipt" => ~There("stage", n, d)
    /\ kind = "proof" => There("stage", n, d) \/ ~There("receipt", n, d) \/ ledger[n] = Front(d)
    /\ kind = "stage" => ~There("proof", n, d)
    /\ kind = "release" => There("archive", n, d)
    /\ kind = "archive" => ledger[n] # d

LEMMA DropsCovers ==
  ASSUME NEW kind, NEW n0 \in Names, NEW d0 \in Docs, Drops(kind, n0, d0), ledger' = ledger, ArchiveCovers,
         There(kind, n0, d0) /\ kind = "archive stage" => ledger[n0] = None
  PROVE  ArchiveCovers'
<1>. SUFFICES ASSUME NEW n \in Names, NEW d \in Docs, There("archive", n, d)', ledger'[n] # None
              PROVE  ledger'[n] = d /\ There("archive stage", n, d)'
  BY DEF ArchiveCovers
<1>1. Entry("archive", n, d) \in files'
  BY DEF There
<1>2. There("archive", n, d)
  BY <1>1 DEF Drops
<1>3. ledger[n] = d /\ There("archive stage", n, d)
  BY <1>2 DEF ArchiveCovers
<1>4. ~(kind = "archive stage" /\ n = n0 /\ d = d0)
  BY <1>3
<1>5. Entry("archive stage", n, d) \in files'
  BY <1>3, <1>4 DEF Drops
<1>. QED
  BY <1>3, <1>5 DEF There

LEMMA DropsUpdates ==
  ASSUME NEW kind, NEW n0 \in Names, NEW d0 \in Docs, Drops(kind, n0, d0), ledger' = ledger, UpdatesStand,
         Removable(kind, n0, d0)
  PROVE  UpdatesStand'
<1>. SUFFICES ASSUME NEW n \in Names, NEW d \in Docs,
                     NEW k \in {"receipt", "stage", "proof"}, There(k, n, d)'
              PROVE  /\ ledger'[n] # None
                     /\ There("stage", n, d)' => There("receipt", n, d)' /\ ledger'[n] = Front(d)
                     /\ ~There("stage", n, d)' =>
                          ledger'[n] = (IF There("proof", n, d)' THEN d ELSE Front(d))
  BY DEF UpdatesStand
<1>1. \A j : There(j, n, d)' <=> Entry(j, n, d) \in files'
  BY DEF There
<1>2. There(k, n, d)
  BY <1>1 DEF Drops
<1>3. /\ ledger[n] # None
      /\ There("stage", n, d) => There("receipt", n, d) /\ ledger[n] = Front(d)
      /\ ~There("stage", n, d) => ledger[n] = (IF There("proof", n, d) THEN d ELSE Front(d))
  BY <1>2 DEF UpdatesStand
<1>4. CASE n = n0 /\ d = d0
  <2>1. /\ Entry("stage", n, d) \in files' <=> There("stage", n, d) /\ kind # "stage"
        /\ Entry("receipt", n, d) \in files' <=> There("receipt", n, d) /\ kind # "receipt"
        /\ Entry("proof", n, d) \in files' <=> There("proof", n, d) /\ kind # "proof"
        /\ Entry(k, n, d) \in files' <=> There(k, n, d) /\ kind # k
    BY <1>4 DEF Drops
  <2>2. CASE kind = "receipt"
    <3>1. There("receipt", n, d) => ~There("stage", n, d)
      BY <1>4, <2>2 DEF Removable
    <3>. QED  BY <1>1, <1>3, <2>1, <2>2, <3>1
  <2>3. CASE kind = "stage"
    <3>1. There("stage", n, d) => ~There("proof", n, d)
      BY <1>4, <2>3 DEF Removable
    <3>. QED  BY <1>1, <1>3, <2>1, <2>3, <3>1
  <2>4. CASE kind = "proof"
    <3>1. There("proof", n, d) =>
            There("stage", n, d) \/ ~There("receipt", n, d) \/ ledger[n] = Front(d)
      BY <1>4, <2>4 DEF Removable
    <3>. QED  BY <1>1, <1>2, <1>3, <2>1, <2>4, <3>1
  <2>. QED  BY <1>1, <1>3, <2>1, <2>2, <2>3, <2>4
<1>5. CASE ~(n = n0 /\ d = d0)
  <2>1. \A j : Entry(j, n, d) \in files' <=> There(j, n, d)
    BY <1>5 DEF Drops
  <2>. QED  BY <1>1, <1>3, <2>1
<1>. QED
  BY <1>4, <1>5

LEMMA DropsFiles ==
  ASSUME NEW kind, NEW n0 \in Names, NEW d0 \in Docs, Drops(kind, n0, d0), ledger' = ledger,
         torn' = torn \ {Entry(kind, n0, d0)},
         Files, Removable(kind, n0, d0)
  PROVE  Files'
<1>1. /\ OneArchive /\ OneCompleted /\ MarkerSpeaks /\ ArchiveCovers
      /\ WorkIsUnretired /\ UpdatesStand /\ Apart
  BY DEF Files
<1>2. \A k, n, d : Entry(k, n, d) \in files' => There(k, n, d)
  BY DEF Drops
<1>3. OneArchive'
  BY <1>1, <1>2 DEF OneArchive, There
<1>4. OneCompleted'
  BY <1>1, <1>2 DEF OneCompleted, There
<1>5. MarkerSpeaks'
  BY <1>1, <1>2 DEF MarkerSpeaks, There
<1>6. ArchiveCovers'
  BY <1>1, DropsCovers DEF Removable
<1>7. WorkIsUnretired'
  BY <1>1, <1>2 DEF WorkIsUnretired, Busy, Retired, There
<1>8. UpdatesStand'
  BY <1>1, DropsUpdates
<1>9. Apart'
  <2>1. ASSUME NEW n \in Names, NEW d \in Docs, Claiming(n, d)'
        PROVE  Claiming(n, d)
    <3>1. /\ ledger[n] = d \/ \E k \in {"create stage", "stage"} :
                                Entry(k, n, d) \in files' /\ Entry(k, n, d) \notin torn'
          /\ Entry("release", n, d) \notin files' /\ Entry("archive", n, d) \notin files'
      BY <2>1 DEF Claiming, Holds, Whole, There
    <3>2. ASSUME NEW k, Entry(k, n, d) \in files', Entry(k, n, d) \notin torn'
          PROVE  Whole(k, n, d)
      <4>1. There(k, n, d) /\ ~(k = kind /\ n = n0 /\ d = d0)
        BY <3>2 DEF Drops
      <4>2. Entry(k, n, d) # Entry(kind, n0, d0)
        BY <4>1 DEF Entry
      <4>. QED  BY <3>2, <4>1, <4>2 DEF Whole
    <3>3. Holds(n, d)
      BY <3>1, <3>2 DEF Holds
    <3>4. ~There("archive", n, d)
      <4>1. SUFFICES ASSUME There("archive", n, d) PROVE FALSE
        OBVIOUS
      <4>2. kind = "archive" /\ n = n0 /\ d = d0
        BY <3>1, <4>1 DEF Drops
      <4>3. ledger[n] # d
        BY <4>1, <4>2 DEF Removable
      <4>4. Busy(n)
        BY <3>3, <4>3 DEF Holds, Whole, Busy, Work
      <4>. QED  BY <1>1, <4>1, <4>4 DEF WorkIsUnretired, Retired
    <3>5. ~There("release", n, d)
      <4>1. SUFFICES ASSUME There("release", n, d) PROVE FALSE
        OBVIOUS
      <4>2. kind = "release" /\ n = n0 /\ d = d0
        BY <3>1, <4>1 DEF Drops
      <4>. QED  BY <3>4, <4>1, <4>2 DEF Removable
    <3>. QED  BY <3>3, <3>4, <3>5 DEF Claiming
  <2>. SUFFICES ASSUME NEW m \in Names, NEW n \in Names, NEW c \in Docs, NEW d \in Docs,
                       m # n, Claiming(m, c)', Claiming(n, d)'
                PROVE  Clear(c, d)
    BY DEF Apart, Clear
  <2>2. Claiming(m, c) /\ Claiming(n, d)
    BY <2>1
  <2>. QED  BY <1>1, <2>2 DEF Apart
<1>. QED
  BY <1>3, <1>4, <1>5, <1>6, <1>7, <1>8, <1>9 DEF Files

-----------------------------------------------------------------------------
(* Another ledger *)

LEMMA LedgerGoes ==
  ASSUME Assumptions, Types, Files, cmd \in Command, UNCHANGED <<files, torn>>,
         ledger' = [ledger EXCEPT ![leaf] = None], Here("archive"), NoneOf("release")
  PROVE  Files'
<1>1. /\ OneArchive /\ OneCompleted /\ MarkerSpeaks /\ ArchiveCovers
      /\ WorkIsUnretired /\ UpdatesStand /\ Apart
      /\ leaf \in Names /\ document \in Docs
  BY Commanded DEF Files
<1>2. \A n \in Names : ledger'[n] = IF n = leaf THEN None ELSE ledger[n]
  BY DEF Types
<1>3. OneArchive' /\ OneCompleted' /\ WorkIsUnretired'
  BY <1>1 DEF OneArchive, OneCompleted, WorkIsUnretired, Busy, Retired, There
<1>4. MarkerSpeaks'
  BY <1>1, <1>2 DEF MarkerSpeaks, NoneOf, There
<1>5. ArchiveCovers'
  BY <1>1, <1>2 DEF ArchiveCovers, There
<1>6. UpdatesStand'
  <2>1. ~Busy(leaf)
    BY <1>1 DEF WorkIsUnretired, Retired, Here
  <2>2. \A k \in {"receipt", "stage", "proof"}, d \in Docs : ~There(k, leaf, d)
    BY <2>1 DEF Busy, Work
  <2>. QED  BY <1>1, <1>2, <2>2 DEF UpdatesStand, There
<1>7. Apart'
  <2>1. ASSUME NEW n \in Names, NEW d \in Docs, Claiming(n, d)'
        PROVE  Claiming(n, d)
    BY <1>2, <2>1, Document DEF Claiming, Holds, Whole, There
  <2>. SUFFICES ASSUME NEW m \in Names, NEW n \in Names, NEW c \in Docs, NEW d \in Docs,
                       m # n, Claiming(m, c)', Claiming(n, d)'
                PROVE  Clear(c, d)
    BY DEF Apart, Clear
  <2>. QED  BY <1>1, <2>1 DEF Apart
<1>. QED
  BY <1>3, <1>4, <1>5, <1>6, <1>7 DEF Files

\* A new document under the name of a leaf that is not retired claims what fits.
LEMMA LedgerClaims ==
  ASSUME Types, Apart, Fits, leaf \in Names, document \in Docs,
         ledger' = [ledger EXCEPT ![leaf] = document], torn' = torn,
         \A k, n, d : Entry(k, n, d) \in files' => There(k, n, d),
         \A n, d : /\ There("release", n, d) => Entry("release", n, d) \in files'
                   /\ There("archive", n, d) => Entry("archive", n, d) \in files'
  PROVE  Apart'
<1>1. \A n \in Names : ledger'[n] = IF n = leaf THEN document ELSE ledger[n]
  BY DEF Types
<1>2. ASSUME NEW n \in Names, NEW d \in Docs, Claiming(n, d)'
      PROVE  Claiming(n, d) \/ (n = leaf /\ d = document)
  BY <1>1, <1>2 DEF Claiming, Holds, Whole, There
<1>. SUFFICES ASSUME NEW m \in Names, NEW n \in Names, NEW c \in Docs, NEW d \in Docs,
                     m # n, Claiming(m, c)', Claiming(n, d)'
              PROVE  Clear(c, d)
  BY DEF Apart, Clear
<1>3. /\ Claiming(m, c) \/ (m = leaf /\ c = document)
      /\ Claiming(n, d) \/ (n = leaf /\ d = document)
  BY <1>2
<1>4. CASE Claiming(m, c) /\ Claiming(n, d)
  BY <1>4 DEF Apart
<1>5. CASE m = leaf /\ c = document
  BY <1>3, <1>5 DEF Fits, Clear
<1>6. CASE n = leaf /\ d = document
  BY <1>3, <1>6 DEF Fits, Clear
<1>. QED
  BY <1>3, <1>4, <1>5, <1>6

LEMMA LedgerComes ==
  ASSUME Assumptions, Types, Files, cmd \in Command, UNCHANGED <<files, torn>>,
         ledger' = [ledger EXCEPT ![leaf] = document], ledger[leaf] = None, ~Retired(leaf), Fits
  PROVE  Files'
<1>1. /\ OneArchive /\ OneCompleted /\ MarkerSpeaks /\ ArchiveCovers
      /\ WorkIsUnretired /\ UpdatesStand /\ Apart
      /\ leaf \in Names /\ document \in Docs
  BY Commanded DEF Files
<1>2. \A n \in Names : ledger'[n] = IF n = leaf THEN document ELSE ledger[n]
  BY DEF Types
<1>3. OneArchive' /\ OneCompleted' /\ WorkIsUnretired'
  BY <1>1 DEF OneArchive, OneCompleted, WorkIsUnretired, Busy, Retired, There
<1>4. MarkerSpeaks'
  BY <1>1, <1>2 DEF MarkerSpeaks, Retired, There
<1>5. ArchiveCovers'
  BY <1>1, <1>2 DEF ArchiveCovers, Retired, There
<1>6. UpdatesStand'
  BY <1>1, <1>2 DEF UpdatesStand, There
<1>7. Apart'
  BY <1>1, LedgerClaims DEF There
<1>. QED
  BY <1>3, <1>4, <1>5, <1>6, <1>7 DEF Files

LEMMA LedgerMovesOn ==
  ASSUME Assumptions, Types, Files, cmd \in Command, torn' = torn, files' = files \ {Mine("stage")},
         ledger' = [ledger EXCEPT ![leaf] = document],
         Alone, Fits, Here("receipt"), Here("proof")
  PROVE  Files'
<1>1. /\ OneArchive /\ OneCompleted /\ MarkerSpeaks /\ ArchiveCovers
      /\ WorkIsUnretired /\ UpdatesStand /\ Apart
      /\ leaf \in Names /\ document \in Docs
  BY Commanded DEF Files
<1>2. \A n \in Names : ledger'[n] = IF n = leaf THEN document ELSE ledger[n]
  BY DEF Types
<1>3. \A k, n, d : Entry(k, n, d) \in files' <=>
                     There(k, n, d) /\ ~(k = "stage" /\ n = leaf /\ d = document)
  BY Commanded DEF There, Entry
<1>4. ~Retired(leaf)
  BY <1>1 DEF WorkIsUnretired, Busy, Work, Here
<1>5. OneArchive' /\ OneCompleted'
  BY <1>1, <1>3 DEF OneArchive, OneCompleted, There
<1>6. WorkIsUnretired'
  BY <1>1, <1>3 DEF WorkIsUnretired, Busy, Retired, There
<1>7. MarkerSpeaks'
  BY <1>1, <1>2, <1>3, <1>4 DEF MarkerSpeaks, Retired, There
<1>8. ArchiveCovers'
  <2>. SUFFICES ASSUME NEW n \in Names, NEW d \in Docs, There("archive", n, d)', ledger'[n] # None
                PROVE  ledger'[n] = d /\ There("archive stage", n, d)'
    BY DEF ArchiveCovers
  <2>1. There("archive", n, d)
    BY <1>3 DEF There
  <2>2. n # leaf
    BY <1>4, <2>1 DEF Retired
  <2>3. ledger[n] = d /\ There("archive stage", n, d)
    BY <1>1, <1>2, <2>1, <2>2 DEF ArchiveCovers
  <2>4. Entry("archive stage", n, d) \in files'
    BY <1>3, <2>2, <2>3
  <2>. QED  BY <1>2, <2>2, <2>3, <2>4 DEF There
<1>9. UpdatesStand'
  <2>. SUFFICES ASSUME NEW n \in Names, NEW d \in Docs,
                       NEW k \in {"receipt", "stage", "proof"}, There(k, n, d)'
                PROVE  /\ ledger'[n] # None
                       /\ There("stage", n, d)' => There("receipt", n, d)' /\ ledger'[n] = Front(d)
                       /\ ~There("stage", n, d)' =>
                            ledger'[n] = (IF There("proof", n, d)' THEN d ELSE Front(d))
    BY DEF UpdatesStand
  <2>1. \A j : There(j, n, d)' <=> Entry(j, n, d) \in files'
    BY DEF There
  <2>2. There(k, n, d)
    BY <1>3, <2>1
  <2>3. n = leaf /\ d = document
    BY <2>2 DEF Alone, Work
  <2>4. Entry("stage", n, d) \notin files' /\ Entry("proof", n, d) \in files'
    BY <1>3, <2>3 DEF Here
  <2>5. ledger'[n] = document /\ document # None
    BY <1>1, <1>2, <2>3, Document
  <2>. QED  BY <2>1, <2>3, <2>4, <2>5
<1>10. Apart'
  BY <1>1, <1>3, LedgerClaims
<1>. QED
  BY <1>5, <1>6, <1>7, <1>8, <1>9, <1>10 DEF Files

LEMMA CompletionComes ==
  ASSUME Types, Files, cmd \in Command, UNCHANGED <<ledger, torn>>,
         files' = (files \ {Mine("complete stage")}) \cup {Mine("complete")},
         \A n \in Names, d \in Docs : ~There("complete", n, d)
  PROVE  Files'
<1>1. /\ OneArchive /\ OneCompleted /\ MarkerSpeaks /\ ArchiveCovers
      /\ WorkIsUnretired /\ UpdatesStand /\ Apart
  BY DEF Files
<1>3. ASSUME NEW k, NEW n, NEW d
      PROVE  /\ Entry(k, n, d) = Mine("complete stage") <=> k = "complete stage" /\ n = leaf /\ d = document
             /\ Entry(k, n, d) = Mine("complete") <=> k = "complete" /\ n = leaf /\ d = document
  BY DEF Entry, Mine, File, leaf, document
<1>2. \A k, n, d : Entry(k, n, d) \in files' <=>
                     \/ There(k, n, d) /\ ~(k = "complete stage" /\ n = leaf /\ d = document)
                     \/ k = "complete" /\ n = leaf /\ d = document
  BY <1>3 DEF There
<1>4. OneArchive'
  BY <1>1, <1>2 DEF OneArchive, There
<1>5. OneCompleted'
  <2>1. \A n \in Names, d \in Docs : Entry("complete", n, d) \in files' => n = leaf /\ d = document
    BY <1>2
  <2>. QED  BY <2>1 DEF OneCompleted, There
<1>6. MarkerSpeaks'
  BY <1>1, <1>2 DEF MarkerSpeaks, There
<1>7. ArchiveCovers'
  <2>. SUFFICES ASSUME NEW n \in Names, NEW d \in Docs, There("archive", n, d)', ledger'[n] # None
                PROVE  ledger'[n] = d /\ There("archive stage", n, d)'
    BY DEF ArchiveCovers
  <2>1. There("archive", n, d)
    BY <1>2 DEF There
  <2>2. ledger[n] = d /\ There("archive stage", n, d)
    BY <1>1, <2>1 DEF ArchiveCovers
  <2>3. Entry("archive stage", n, d) \in files'
    BY <1>2, <2>2
  <2>. QED  BY <2>2, <2>3 DEF There
<1>8. WorkIsUnretired'
  <2>1. \A n \in Names : (Busy(n)' => Busy(n)) /\ (Retired(n)' => Retired(n))
    BY <1>2 DEF Busy, Retired, There, Work
  <2>. QED  BY <1>1, <2>1 DEF WorkIsUnretired
<1>9. UpdatesStand'
  <2>1. \A kind \in {"receipt", "stage", "proof"}, n \in Names, d \in Docs :
          There(kind, n, d)' <=> There(kind, n, d)
    BY <1>2 DEF There
  <2>2. ledger' = ledger
    OBVIOUS
  <2>. SUFFICES ASSUME NEW n \in Names, NEW d \in Docs,
                       \E kind \in {"receipt", "stage", "proof"} : There(kind, n, d)'
                PROVE  /\ ledger[n] # None
                       /\ There("stage", n, d)' => There("receipt", n, d)' /\ ledger[n] = Front(d)
                       /\ ~There("stage", n, d)' =>
                            ledger[n] = (IF There("proof", n, d)' THEN d ELSE Front(d))
    BY <2>2 DEF UpdatesStand
  <2>3. \E kind \in {"receipt", "stage", "proof"} : There(kind, n, d)
    BY <2>1
  <2>4. /\ ledger[n] # None
        /\ There("stage", n, d) => There("receipt", n, d) /\ ledger[n] = Front(d)
        /\ ~There("stage", n, d) => ledger[n] = (IF There("proof", n, d) THEN d ELSE Front(d))
    BY <1>1, <2>3 DEF UpdatesStand
  <2>5. /\ There("stage", n, d)' <=> There("stage", n, d)
        /\ There("receipt", n, d)' <=> There("receipt", n, d)
        /\ There("proof", n, d)' <=> There("proof", n, d)
    BY <2>1
  <2>. QED  BY <2>4, <2>5
<1>10. Apart'
  <2>1. ASSUME NEW n \in Names, NEW d \in Docs, Claiming(n, d)'
        PROVE  Claiming(n, d)
    BY <1>2, <2>1 DEF Claiming, Holds, Whole, There
  <2>. SUFFICES ASSUME NEW m \in Names, NEW n \in Names, NEW c \in Docs, NEW d \in Docs,
                       m # n, Claiming(m, c)', Claiming(n, d)'
                PROVE  Clear(c, d)
    BY DEF Apart, Clear
  <2>2. Claiming(m, c) /\ Claiming(n, d)
    BY <2>1
  <2>. QED  BY <1>1, <2>2 DEF Apart
<1>. QED
  BY <1>4, <1>5, <1>6, <1>7, <1>8, <1>9, <1>10 DEF Files

-----------------------------------------------------------------------------
(* Arrivals *)

LEMMA SameRequest ==
  ASSUME cmd \in Command, NEW station, NEW todo, Moved(station, todo)
  PROVE  /\ cmd'.at = station /\ cmd'.todo = todo /\ cmd'.req = cmd.req /\ cmd'.req.op = cmd.req.op
         /\ leaf' = leaf /\ document' = document
         /\ \A kind : Mine(kind)' = Mine(kind)
BY DEF Moved, leaf, document, Mine, File

LEMMA StaysSound ==
  ASSUME LInv, cmd \in Command, NEW station, NEW todo, Moved(station, todo), UNCHANGED disk, UNCHANGED world,
         station # "staged"
  PROVE  Types' /\ Files' /\ Creating'
<1>1. UNCHANGED <<disk, world>>
  OBVIOUS
<1>. QED
  BY <1>1, Steady

\* Ready: nothing in the quarantine, and the root as it should be.
Settled(station, todo) ==
  Moved(station, todo) /\ Types' /\ Files' /\ bin' = NoBin /\ NoBin.phase = "none"

\* What a command that answers knows of what it still has to unlink.
LEMMA Ends ==
  ASSUME cmd \in Command, NEW todo, Settled("done", todo), Creating',
         \/ todo = <<>>
         \/ cmd.req.op = "create" /\ todo = <<Mine("create stage")>>
         \/ cmd.req.op = "release" /\ todo = <<Mine("release stage")>>
         \/ cmd.req.op = "reclaim" /\ todo = <<Mine("reclaim receipt")>>
         \/ cmd.req.op = "archive" /\ ArchiveEnds'
         \/ cmd.req.op = "cas" /\ Updated'
  PROVE  LInv'
<1>1. /\ cmd'.at = "done" /\ cmd'.todo = todo /\ cmd'.req.op = cmd.req.op
      /\ \A kind : Mine(kind)' = Mine(kind)
  BY SameRequest DEF Settled
<1>2. Updating' /\ TakenBack' /\ Releasing' /\ Archiving'
  BY <1>1 DEF Updating, TakenBack, Releasing, Archiving
<1>3. Updated'
  BY <1>1 DEF Updated
<1>4. ArchiveEnds'
  BY <1>1 DEF ArchiveEnds
<1>5. Reclaiming'
  BY <1>1 DEF Reclaiming
<1>6. Unlinking'
  BY <1>1 DEF Unlinking, Settled, Operations
<1>. QED
  BY <1>2, <1>3, <1>4, <1>5, <1>6 DEF LInv, Knows, Settled

-----------------------------------------------------------------------------
(* create *)

LEMMA CreateChecksKeeps ==
  ASSUME Assumptions, LInv, CreateChecks
  PROVE  LInv'
<1>1. /\ Types /\ Files /\ cmd \in Command /\ cmd # Idle /\ Knows
      /\ cmd.at = "create" /\ cmd.todo = <<>> /\ bin = NoBin /\ cmd.req.op = "create"
  <2>. "create" \in Stations /\ "create" \in Operations /\ At("create")
    BY DEF CreateChecks, Stations, Operations
  <2>. QED  BY Station
<1>2. /\ cmd.req \in Requests /\ leaf \in Names /\ document \in Docs /\ NoneOf("archive")
      /\ Creating
  BY <1>1, Commanded DEF Knows, Creating
<1>3. UNCHANGED world
  BY DEF CreateChecks
<1>4. CASE Refuse
  BY <1>1, <1>3, <1>4, Refuses
<1>5. CASE GoUnlinking("done", IfThere(Mine("create stage"))) /\ UNCHANGED disk
  <2>1. /\ IfThere(Mine("create stage")) \in {<<>>, <<Mine("create stage")>>}
        /\ IfThere(Mine("create stage")) \in Seq(Unlinkable)
    BY <1>1, Lists2 DEF Kinds
  <2>. DEFINE todo == IfThere(Mine("create stage"))
  <2>2. Moved("done", todo)
    BY <1>1, <1>5, <2>1, Going DEF Stations
  <2>. HIDE DEF todo
  <2>3. Types' /\ Files' /\ Creating'
    BY <1>1, <1>3, <1>5, <2>2, StaysSound
  <2>4. Settled("done", todo)
    BY <1>1, <1>5, <2>2, <2>3 DEF Settled, disk, NoBin
  <2>. QED  BY <1>1, <2>1, <2>3, <2>4, Ends DEF todo
<1>6. CASE Write("create stage", "staged") /\ CandidateFits(cmd.req) /\ ledger[leaf] = None
  <2>1. Moved("staged", <<>>) /\ Gains("create stage") /\ bin' = NoBin
    BY <1>1, <1>6, Going, Gaining DEF Stations, Kinds
  <2>2. \A d \in Docs : ~There("release", leaf, d)
    BY <1>1, <1>2, <1>6, Document DEF Files, MarkerSpeaks
  <2>3. ~Retired(leaf)
    BY <1>2, <2>2 DEF Retired, NoneOf
  <2>4. Fits
    BY <1>1, <1>2, <1>6, <2>2, CandidateStands DEF Fits, NoneOf, leaf, document
  <2>5. Files'
    BY <1>1, <2>1, <2>3, <2>4, GainsFiles
  <2>6. Types'
    BY <1>1, <1>3, <2>1 DEF Types, Gains, Moved, world, Bins, NoBin
  <2>7. /\ cmd'.at = "staged" /\ cmd'.todo = <<>> /\ cmd'.req.op = "create"
        /\ leaf' = leaf /\ document' = document
    BY <1>1, <2>1, SameRequest
  <2>8. ledger'[leaf] = None
    BY <1>6, <2>1 DEF Gains
  <2>9. Entry("create stage", leaf, document) \in files'
    BY <2>1 DEF Gains, Adds
  <2>10. \A d \in Docs : Entry("archive", leaf, d) \notin files'
    BY <1>2, <2>1 DEF Gains, Adds, NoneOf
  <2>11. Creating'
    BY <2>7, <2>8, <2>9, <2>10 DEF Creating, NoneOf, Here, There
  <2>12. Updating' /\ Updated' /\ TakenBack' /\ Releasing' /\ Archiving' /\ ArchiveEnds'
    BY <2>7 DEF Updating, Updated, TakenBack, Releasing, Archiving, ArchiveEnds
  <2>13. Reclaiming' /\ Unlinking'
    BY <2>1, <2>7 DEF Reclaiming, Unlinking, Operations
  <2>. QED  BY <2>5, <2>6, <2>11, <2>12, <2>13 DEF LInv, Knows
<1>7. \/ Refuse
      \/ GoUnlinking("done", IfThere(Mine("create stage"))) /\ UNCHANGED disk
      \/ Write("create stage", "staged") /\ CandidateFits(cmd.req) /\ ledger[leaf] = None
  BY DEF CreateChecks, leaf
<1>. QED
  BY <1>4, <1>5, <1>6, <1>7

LEMMA CreateInstallsKeeps ==
  ASSUME Assumptions, LInv, CreateInstalls
  PROVE  LInv'
<1>1. /\ Types /\ Files /\ cmd \in Command /\ cmd # Idle /\ Knows
      /\ cmd.at = "staged" /\ cmd.todo = <<>> /\ bin = NoBin
  <2>. "staged" \in Stations /\ At("staged")
    BY DEF CreateInstalls, Stations
  <2>. QED  BY Station
<1>2. /\ cmd.req \in Requests /\ leaf \in Names /\ document \in Docs /\ NoneOf("archive")
      /\ cmd.req.op = "create" /\ ledger[leaf] = None /\ Here("create stage")
  BY <1>1, Commanded DEF Knows, Creating
<1>3. UNCHANGED world
  BY DEF CreateInstalls
<1>4. CASE Refuse
  BY <1>1, <1>3, <1>4, Refuses
<1>5. CASE ~Refuse
  <2>. DEFINE todo == IfThere(Mine("create stage"))
  <2>1. /\ CandidateFits(cmd.req) /\ ledger' = [ledger EXCEPT ![leaf] = document]
        /\ GoUnlinking("done", todo) /\ UNCHANGED <<files, torn, bin>>
    BY <1>5 DEF CreateInstalls, leaf, document
  <2>2. todo \in {<<>>, <<Mine("create stage")>>} /\ todo \in Seq(Unlinkable)
    BY <1>1, Lists2 DEF Kinds
  <2>. HIDE DEF todo
  <2>3. Moved("done", todo)
    BY <1>1, <2>1, <2>2, Going DEF Stations
  <2>4. ~Retired(leaf)
    BY <1>1, <1>2, Document DEF Retired, NoneOf, Files, MarkerSpeaks
  <2>5. \A d \in Docs : ~There("release", leaf, d) /\ ~There("archive", leaf, d)
    BY <2>4 DEF Retired
  <2>6. Fits
    BY <1>1, <1>2, <2>1, <2>5, CandidateStands DEF Fits, leaf, document
  <2>7. Files'
    BY <1>1, <1>2, <2>1, <2>4, <2>6, LedgerComes
  <2>8. Types'
    BY <1>1, <1>2, <1>3, <2>1, <2>3 DEF Types, Moved, world
  <2>9. /\ cmd'.at = "done" /\ cmd'.req.op = "create" /\ leaf' = leaf
    BY <1>1, <1>2, <2>3, SameRequest
  <2>10. Creating'
    BY <1>2, <2>1, <2>9 DEF Creating, NoneOf, There, Entry
  <2>11. Settled("done", todo)
    BY <1>1, <2>1, <2>3, <2>7, <2>8 DEF Settled, NoBin
  <2>. QED  BY <1>1, <1>2, <2>2, <2>10, <2>11, Ends
<1>. QED
  BY <1>4, <1>5

-----------------------------------------------------------------------------
(* cas *)

LEMMA Continues ==
  ASSUME cmd \in Command, NEW station, Settled(station, <<>>), station \notin Operations,
         Creating', Updating', Releasing', Archiving', Reclaiming'
  PROVE  LInv'
<1>1. cmd'.at = station /\ cmd'.todo = <<>>
  BY SameRequest DEF Settled
<1>2. Updated' /\ TakenBack' /\ ArchiveEnds'
  BY <1>1 DEF Updated, TakenBack, ArchiveEnds
<1>3. Unlinking'
  BY <1>1 DEF Unlinking, Settled
<1>. QED
  BY <1>2, <1>3 DEF LInv, Knows, Settled

LEMMA TakesBack ==
  ASSUME cmd \in Command, NEW todo, Settled("refused", todo), Creating', TakenBack'
  PROVE  LInv'
<1>1. cmd'.at = "refused" /\ cmd'.todo = todo
  BY SameRequest DEF Settled
<1>2. Updating' /\ Updated' /\ Releasing' /\ Archiving' /\ ArchiveEnds' /\ Reclaiming'
  BY <1>1 DEF Updating, Updated, Releasing, Archiving, ArchiveEnds, Reclaiming
<1>3. Unlinking'
  BY <1>1 DEF Unlinking, Settled, Operations
<1>. QED
  BY <1>2, <1>3 DEF LInv, Knows, Settled

\* Whoever writes one file more leaves the claims of the others as they were.
LEMMA ClaimsLater ==
  ASSUME NEW kind, Gains(kind), NEW n, NEW d, Claiming(n, d)'
  PROVE  Claiming(n, d) \/ (n = leaf /\ d = document)
<1>1. /\ \/ ledger[n] = d
         \/ \E k \in {"create stage", "stage"} : Entry(k, n, d) \in files' /\ Entry(k, n, d) \notin torn'
      /\ Entry("release", n, d) \notin files' /\ Entry("archive", n, d) \notin files'
  BY DEF Claiming, Holds, Whole, There, Gains
<1>2. ~There("release", n, d) /\ ~There("archive", n, d)
  BY <1>1 DEF Gains, Adds
<1>3. ASSUME NEW k \in {"create stage", "stage"}, Entry(k, n, d) \in files', Entry(k, n, d) \notin torn'
      PROVE  Whole(k, n, d) \/ (n = leaf /\ d = document)
  <2>1. There(k, n, d) \/ (k = kind /\ n = leaf /\ d = document)
    BY <1>3 DEF Gains, Adds
  <2>2. Entry(k, n, d) \notin torn \/ (k = kind /\ n = leaf /\ d = document)
    BY <1>3 DEF Gains
  <2>. QED  BY <2>1, <2>2 DEF Whole
<1>. QED
  BY <1>1, <1>2, <1>3 DEF Claiming, Holds

LEMMA CandidateLater ==
  ASSUME NEW kind, Gains(kind), leaf' = leaf, document' = document
  PROVE  /\ Fits => Fits'
         /\ Alone => Alone'
<1>1. ASSUME Fits PROVE Fits'
  <2>. SUFFICES ASSUME NEW m \in Names, NEW c \in Docs, m # leaf, Claiming(m, c)'
                PROVE  Clear(c, document)
    BY DEF Fits, Clear
  <2>1. Claiming(m, c)
    BY ClaimsLater
  <2>. QED  BY <1>1, <2>1 DEF Fits
<1>2. ASSUME Alone PROVE Alone'
  <2>. SUFFICES ASSUME NEW k \in Work, NEW n \in Names, NEW d \in Docs, There(k, n, d)'
                PROVE  n = leaf /\ d = document
    BY DEF Alone
  <2>1. Entry(k, n, d) \in files'
    BY DEF There
  <2>2. There(k, n, d) \/ (n = leaf /\ d = document)
    BY <2>1 DEF Gains, Adds
  <2>. QED  BY <1>2, <2>2 DEF Alone
<1>. QED
  BY <1>1, <1>2

\* The candidate of a cas is all that is being updated.
LEMMA CandidateAlone ==
  ASSUME Assumptions, Types, Files, cmd \in Command, cmd.req.op = "cas", CandidateFits(cmd.req)
  PROVE  /\ Alone
         /\ \A n \in Names, d \in Docs : ~There("archive stage", n, d)
<1>1. \A f \in Pending : f.name = leaf /\ f.doc = document /\ f.kind \in {"receipt", "stage", "proof"}
  BY Commanded, OwnFilesAre DEF CandidateFits, leaf, document
<1>2. ASSUME NEW k \in Kinds, NEW n \in Names, NEW d \in Docs, There(k, n, d),
             k \in {"create stage", "receipt", "stage", "archive stage"}
      PROVE  n = leaf /\ d = document /\ k \in {"receipt", "stage", "proof"}
  <2>1. [kind |-> k, name |-> n, doc |-> d] \in Pending
    BY <1>2, PendingIs
  <2>. QED  BY <1>1, <2>1
<1>3. ASSUME NEW n \in Names, NEW d \in Docs, There("proof", n, d)
      PROVE  n = leaf /\ d = document
  <2>1. CASE There("receipt", n, d)
    BY <1>2, <2>1 DEF Kinds
  <2>2. CASE ~There("receipt", n, d)
    <3>1. [kind |-> "proof", name |-> n, doc |-> d] \in Pending
      BY <1>3, <2>2, PendingIs DEF Kinds
    <3>. QED  BY <1>1, <3>1
  <2>. QED  BY <2>1, <2>2
<1>4. Alone
  BY <1>2, <1>3 DEF Alone, Work, Kinds
<1>5. \A n \in Names, d \in Docs : ~There("archive stage", n, d)
  BY <1>2 DEF Kinds
<1>. QED
  BY <1>4, <1>5

LEMMA GainsTypes ==
  ASSUME Types, cmd \in Command, NEW kind, Gains(kind), NEW station, NEW todo, Moved(station, todo),
         bin' = bin, UNCHANGED world
  PROVE  Types'
BY DEF Types, Gains, Moved, world, Bins, NoBin

LEMMA CasChecksKeeps ==
  ASSUME Assumptions, LInv, CasChecks
  PROVE  LInv'
<1>1. /\ Types /\ Files /\ cmd \in Command /\ cmd # Idle /\ Knows
      /\ cmd.at = "cas" /\ cmd.todo = <<>> /\ bin = NoBin /\ cmd.req.op = "cas"
  <2>. "cas" \in Stations /\ "cas" \in Operations /\ At("cas")
    BY DEF CasChecks, Stations, Operations
  <2>. QED  BY Station
<1>2. /\ cmd.req \in Requests /\ leaf \in Names /\ document \in Docs /\ Len(document) > 1
  BY <1>1, Commanded, Request DEF document
<1>3. UNCHANGED world
  BY DEF CasChecks
<1>4. CASE Refuse
  BY <1>1, <1>3, <1>4, Refuses
<1>5. CASE CasRetries(cmd.req) /\ ledger[leaf] = document /\ ~Refuse
  <2>. DEFINE todo == IF Has("receipt", cmd.req) THEN <<Mine("receipt"), Mine("proof")>>
                                                 ELSE <<Mine("proof")>>
  <2>1. GoUnlinking("done", todo) /\ UNCHANGED disk /\ ~Has("stage", cmd.req)
    BY <1>5 DEF CasRetries
  <2>2. /\ ~Here("stage")
        /\ \/ todo = <<Mine("receipt"), Mine("proof")>>
           \/ todo = <<Mine("proof")>> /\ ~Here("receipt")
    BY <2>1 DEF Has, File, Here, There, Entry, leaf, document
  <2>3. todo \in Seq(Unlinkable)
    BY <1>1, Lists2 DEF Kinds
  <2>. HIDE DEF todo
  <2>4. Moved("done", todo)
    BY <1>1, <2>1, <2>3, Going DEF Stations
  <2>5. Types' /\ Files' /\ Creating'
    BY <1>1, <1>3, <2>1, <2>4, StaysSound
  <2>6. Settled("done", todo)
    BY <1>1, <2>1, <2>4, <2>5 DEF Settled, disk, NoBin
  <2>7. /\ cmd'.at = "done" /\ cmd'.todo = todo /\ leaf' = leaf /\ document' = document
        /\ Mine("receipt")' = Mine("receipt") /\ Mine("proof")' = Mine("proof")
    BY <1>1, <2>4, SameRequest
  <2>8. Updated'
    BY <1>5, <2>1, <2>2, <2>7 DEF Updated, Here, There, disk
  <2>. QED  BY <1>1, <2>5, <2>6, <2>8, Ends
<1>6. CASE /\ Write("receipt", "receipted") /\ CandidateFits(cmd.req) /\ Released(leaf) = {}
           /\ ledger[leaf] # None /\ ledger[leaf] = Front(document)
  <2>1. Moved("receipted", <<>>) /\ Gains("receipt") /\ bin' = NoBin /\ bin' = bin
    BY <1>1, <1>6, Going, Gaining DEF Stations, Kinds
  <2>2. Alone /\ \A n \in Names, d \in Docs : ~There("archive stage", n, d)
    BY <1>1, <1>6, CandidateAlone
  <2>3. \A d \in Docs : ~There("release", leaf, d) /\ ~There("archive", leaf, d)
    BY <1>1, <1>2, <1>6, <2>2, Retirement DEF Files, ArchiveCovers
  <2>4. ~Retired(leaf)
    BY <2>3 DEF Retired
  <2>5. Fits
    BY <1>1, <1>2, <1>6, <2>3, CandidateStands DEF Fits, leaf, document
  <2>6. Files'
    BY <1>1, <1>2, <1>6, <2>1, <2>4, GainsFiles
  <2>7. Types'
    BY <1>1, <1>3, <2>1, GainsTypes
  <2>8. /\ cmd'.at = "receipted" /\ cmd'.todo = <<>> /\ cmd'.req.op = "cas"
        /\ leaf' = leaf /\ document' = document
    BY <1>1, <2>1, SameRequest
  <2>9. Fits' /\ Alone'
    BY <2>1, <2>2, <2>5, <2>8, CandidateLater
  <2>10. Entry("receipt", leaf, document) \in files' /\ ledger' = ledger
    BY <2>1 DEF Gains, Adds
  <2>11. Updating'
    BY <1>6, <2>8, <2>9, <2>10 DEF Updating, Here, There
  <2>12. Creating'
    BY <2>8 DEF Creating
  <2>13. Releasing' /\ Archiving' /\ Reclaiming'
    BY <2>8 DEF Releasing, Archiving, Reclaiming
  <2>14. Settled("receipted", <<>>)
    BY <2>1, <2>6, <2>7 DEF Settled, NoBin
  <2>. QED  BY <1>1, <2>11, <2>12, <2>13, <2>14, Continues DEF Operations
<1>7. \/ Refuse
      \/ CasRetries(cmd.req) /\ ledger[leaf] = document /\ ~Refuse
      \/ /\ Write("receipt", "receipted") /\ CandidateFits(cmd.req) /\ Released(leaf) = {}
         /\ ledger[leaf] # None /\ ledger[leaf] = Front(document)
  BY DEF CasChecks, leaf, document
<1>. QED
  BY <1>4, <1>5, <1>6, <1>7

LEMMA CasStagesKeeps ==
  ASSUME Assumptions, LInv, CasStages
  PROVE  LInv'
<1>1. /\ Types /\ Files /\ cmd \in Command /\ cmd # Idle /\ Knows
      /\ cmd.at = "receipted" /\ cmd.todo = <<>> /\ bin = NoBin
  <2>. "receipted" \in Stations /\ At("receipted")
    BY DEF CasStages, Stations
  <2>. QED  BY Station
<1>2. /\ cmd.req.op = "cas" /\ Alone /\ Fits /\ Here("receipt")
      /\ ledger[leaf] # None /\ ledger[leaf] = Front(document)
  BY <1>1 DEF Knows, Updating
<1>3. UNCHANGED world /\ Write("stage", "cas staged")
  BY DEF CasStages
<1>4. Moved("cas staged", <<>>) /\ Gains("stage") /\ bin' = NoBin /\ bin' = bin
  BY <1>1, <1>3, Going, Gaining DEF Stations, Kinds
<1>5. Files'
  BY <1>1, <1>2, <1>4, GainsFiles
<1>6. Types'
  BY <1>1, <1>3, <1>4, GainsTypes
<1>7. /\ cmd'.at = "cas staged" /\ cmd'.todo = <<>> /\ cmd'.req.op = "cas"
      /\ leaf' = leaf /\ document' = document
  BY <1>1, <1>2, <1>4, SameRequest
<1>8. Fits' /\ Alone'
  BY <1>2, <1>4, <1>7, CandidateLater
<1>9. Entry("receipt", leaf, document) \in files' /\ ledger' = ledger
  BY <1>2, <1>4 DEF Gains, Adds, Here
<1>10. Entry("stage", leaf, document) \in files' /\ Entry("stage", leaf, document) \notin torn'
  BY <1>3 DEF Write, Mine, File, Entry, leaf, document
<1>11. Updating'
  BY <1>2, <1>7, <1>8, <1>9, <1>10 DEF Updating, Here, There, Complete, Whole
<1>12. Creating'
  BY <1>7 DEF Creating
<1>13. Releasing' /\ Archiving' /\ Reclaiming'
  BY <1>7 DEF Releasing, Archiving, Reclaiming
<1>14. Settled("cas staged", <<>>)
  BY <1>4, <1>5, <1>6 DEF Settled, NoBin
<1>. QED
  BY <1>1, <1>11, <1>12, <1>13, <1>14, Continues DEF Operations

\* What a candidate knows stays while the root stays.
LEMMA CandidateStays ==
  ASSUME UNCHANGED <<ledger, files, torn>>, leaf' = leaf, document' = document
  PROVE  /\ Fits => Fits'
         /\ Alone => Alone'
<1>1. ASSUME Fits PROVE Fits'
  <2>. SUFFICES ASSUME NEW m \in Names, NEW c \in Docs, m # leaf, Claiming(m, c)'
                PROVE  Clear(c, document)
    BY DEF Fits, Clear
  <2>1. Claiming(m, c)
    BY SameRoot
  <2>. QED  BY <1>1, <2>1 DEF Fits
<1>2. ASSUME Alone PROVE Alone'
  BY <1>2 DEF Alone, There, Entry
<1>. QED
  BY <1>1, <1>2

LEMMA CasProvesKeeps ==
  ASSUME Assumptions, LInv, CasProves
  PROVE  LInv'
<1>1. /\ Types /\ Files /\ cmd \in Command /\ cmd # Idle /\ Knows
      /\ cmd.at = "cas staged" /\ cmd.todo = <<>> /\ bin = NoBin
  <2>. "cas staged" \in Stations /\ At("cas staged")
    BY DEF CasProves, Stations
  <2>. QED  BY Station
<1>2. /\ cmd.req.op = "cas" /\ Alone /\ Fits /\ Here("receipt")
      /\ ledger[leaf] # None /\ ledger[leaf] = Front(document)
      /\ There("stage", leaf, document) /\ Entry("stage", leaf, document) \notin torn
  BY <1>1 DEF Knows, Updating, Complete, Whole
<1>3. UNCHANGED world
  BY DEF CasProves
<1>4. \/ Present("proof") /\ Go("proofed") /\ UNCHANGED disk
      \/ Link("proof", "proofed", <<>>)
  BY DEF CasProves
<1>5. Moved("proofed", <<>>)
  <2>1. CASE Go("proofed")
    BY <1>1, <2>1, Going DEF Stations
  <2>2. CASE Link("proof", "proofed", <<>>)
    <3>1. GoUnlinking("proofed", <<>>) /\ <<>> \in Seq(Unlinkable)
      BY <2>2 DEF Link
    <3>. QED  BY <1>1, <3>1, Going DEF Stations
  <2>. QED  BY <1>4, <2>1, <2>2
<1>6. /\ cmd'.at = "proofed" /\ cmd'.todo = <<>> /\ cmd'.req.op = "cas"
      /\ leaf' = leaf /\ document' = document
  BY <1>1, <1>2, <1>5, SameRequest
<1>7. /\ Types' /\ Files' /\ bin' = NoBin /\ Fits' /\ Alone' /\ ledger' = ledger
      /\ Entry("receipt", leaf, document) \in files' /\ Entry("proof", leaf, document) \in files'
      /\ Entry("stage", leaf, document) \in files' /\ Entry("stage", leaf, document) \notin torn'
  <2>1. CASE Present("proof") /\ UNCHANGED disk
    <3>1. UNCHANGED <<disk, world>> /\ UNCHANGED <<ledger, files, torn>> /\ bin' = NoBin
      BY <1>1, <1>3, <2>1 DEF disk
    <3>2. Types' /\ Files'
      BY ONLY LInv, <1>1, <1>5, <3>1, Steady
    <3>3. Fits' /\ Alone'
      BY <1>2, <1>6, <3>1, CandidateStays
    <3>4. Entry("proof", leaf, document) \in files
      BY <2>1 DEF Present, Mine, File, Entry, leaf, document
    <3>. QED  BY <1>2, <3>1, <3>2, <3>3, <3>4 DEF Here, There
  <2>2. CASE Link("proof", "proofed", <<>>)
    <3>1. Gains("proof") /\ bin' = bin
      BY <1>1, <2>2, Gaining DEF Kinds
    <3>2. Files'
      BY <1>1, <1>2, <3>1, GainsFiles DEF Here
    <3>3. Types'
      BY <1>1, <1>3, <1>5, <3>1, GainsTypes
    <3>4. Fits' /\ Alone'
      BY <1>2, <1>6, <3>1, CandidateLater
    <3>5. ledger' = ledger /\ torn' = torn
      BY <2>2 DEF Link
    <3>6. /\ Entry("receipt", leaf, document) \in files' /\ Entry("proof", leaf, document) \in files'
          /\ Entry("stage", leaf, document) \in files'
      BY <1>2, <3>1 DEF Gains, Adds, Here
    <3>. QED  BY <1>1, <1>2, <3>1, <3>2, <3>3, <3>4, <3>5, <3>6
  <2>. QED  BY <1>4, <2>1, <2>2
<1>8. Updating'
  BY <1>2, <1>6, <1>7 DEF Updating, Here, There, Complete, Whole
<1>9. Creating' /\ Releasing' /\ Archiving' /\ Reclaiming'
  BY <1>6 DEF Creating, Releasing, Archiving, Reclaiming
<1>10. Settled("proofed", <<>>)
  BY <1>5, <1>7 DEF Settled, NoBin
<1>. QED
  BY <1>1, <1>8, <1>9, <1>10, Continues DEF Operations

LEMMA CasCommitsKeeps ==
  ASSUME Assumptions, LInv, CasCommits
  PROVE  LInv'
<1>1. /\ Types /\ Files /\ cmd \in Command /\ cmd # Idle /\ Knows
      /\ cmd.at = "proofed" /\ cmd.todo = <<>> /\ bin = NoBin
  <2>. "proofed" \in Stations /\ At("proofed")
    BY DEF CasCommits, Stations
  <2>. QED  BY Station
<1>2. /\ cmd.req.op = "cas" /\ Alone /\ Fits /\ Here("receipt") /\ Here("proof")
      /\ ledger[leaf] # None /\ ledger[leaf] = Front(document)
      /\ leaf \in Names /\ document \in Docs
  BY <1>1, Commanded DEF Knows, Updating
<1>3. UNCHANGED world
  BY DEF CasCommits
<1>4. CASE Precommit(cmd.req)
  <2>. DEFINE todo == <<Mine("receipt"), Mine("proof")>>
  <2>1. /\ ledger' = [ledger EXCEPT ![leaf] = document] /\ files' = files \ {Mine("stage")}
        /\ GoUnlinking("done", todo) /\ torn' = torn /\ bin' = bin
    BY <1>4 DEF CasCommits, leaf, document
  <2>2. todo \in Seq(Unlinkable)
    BY <1>1, Lists2 DEF Kinds
  <2>3. Moved("done", todo)
    BY <1>1, <2>1, <2>2, Going DEF Stations
  <2>4. Files'
    BY <1>1, <1>2, <2>1, LedgerMovesOn
  <2>5. Types'
    <3>1. Mine("stage") \notin torn
      BY <1>1, Commanded DEF Knows, Updating, Complete, Whole, Entry
    <3>. QED  BY <1>1, <1>2, <1>3, <2>1, <2>3, <3>1 DEF Types, Moved, world, Bins, NoBin
  <2>6. /\ cmd'.at = "done" /\ cmd'.todo = todo /\ leaf' = leaf /\ document' = document
        /\ Mine("receipt")' = Mine("receipt") /\ Mine("proof")' = Mine("proof")
        /\ cmd'.req.op = "cas"
    BY <1>1, <1>2, <2>3, SameRequest
  <2>7. Entry("stage", leaf, document) \notin files' /\ ledger'[leaf] = document
    BY <1>1, <1>2, <2>1 DEF Mine, File, Entry, leaf, document, Types
  <2>8. Updated'
    BY <2>6, <2>7 DEF Updated, Here, There
  <2>9. Creating'
    BY <2>6 DEF Creating
  <2>10. Settled("done", todo)
    BY <1>1, <2>1, <2>3, <2>4, <2>5 DEF Settled, NoBin
  <2>. HIDE DEF todo
  <2>. QED  BY <1>1, <1>2, <2>8, <2>9, <2>10, Ends
<1>5. CASE ~Precommit(cmd.req)
  <2>. DEFINE todo == <<Mine("proof"), Mine("stage"), Mine("receipt")>>
  <2>1. GoUnlinking("refused", todo) /\ UNCHANGED disk
    BY <1>5 DEF CasCommits
  <2>2. todo \in Seq(Unlinkable)
    BY <1>1, Lists2 DEF Kinds
  <2>3. Moved("refused", todo)
    BY <1>1, <2>1, <2>2, Going DEF Stations
  <2>4. /\ cmd'.at = "refused" /\ cmd'.todo = todo /\ leaf' = leaf /\ document' = document
        /\ Mine("receipt")' = Mine("receipt") /\ Mine("proof")' = Mine("proof")
        /\ Mine("stage")' = Mine("stage")
    BY <1>1, <2>3, SameRequest
  <2>5. TakenBack'
    BY <1>2, <2>1, <2>4 DEF TakenBack, disk
  <2>. HIDE DEF todo
  <2>6. Types' /\ Files' /\ Creating'
    BY <1>1, <1>3, <2>1, <2>3, StaysSound
  <2>7. Settled("refused", todo)
    BY <1>1, <2>1, <2>3, <2>6 DEF Settled, disk, NoBin
  <2>. QED  BY <1>1, <2>5, <2>6, <2>7, TakesBack
<1>. QED
  BY <1>4, <1>5

-----------------------------------------------------------------------------
(* release *)

\* A leaf of which nothing else is pending, that has a ledger and no marker, is neither
\* retired nor busy.
LEMMA LeafAlone ==
  ASSUME Assumptions, Types, Files, cmd \in Command, cmd.req.op = "release",
         NothingElsePending(cmd.req), Released(leaf) = {}, ledger[leaf] # None
  PROVE  ~Retired(leaf) /\ ~Busy(leaf)
<1>1. leaf \in Names /\ cmd.req \in Requests
  BY Commanded
<1>2. ASSUME NEW k \in Kinds, NEW d \in Docs, There(k, leaf, d),
             \/ k \in {"create stage", "receipt", "stage", "archive stage"}
             \/ k = "proof" /\ ~There("receipt", leaf, d)
      PROVE  FALSE
  <2>. DEFINE f == [kind |-> k, name |-> leaf, doc |-> d]
  <2>1. f \in Pending
    BY <1>1, <1>2, PendingIs
  <2>2. f.kind = k /\ f.name = leaf
    OBVIOUS
  <2>. HIDE DEF f
  <2>3. f \notin OwnFiles(cmd.req)
    BY <1>1, <1>2, <2>2, OwnFilesAre
  <2>. QED  BY <2>1, <2>2, <2>3 DEF NothingElsePending, leaf
<1>3. ~Retired(leaf)
  <2>1. \A d \in Docs : ~There("release", leaf, d)
    BY <1>1, Retirement
  <2>2. \A d \in Docs : ~There("archive stage", leaf, d)
    BY <1>2 DEF Kinds
  <2>3. \A d \in Docs : ~There("archive", leaf, d)
    BY <1>1, <2>2 DEF Files, ArchiveCovers
  <2>. QED  BY <2>1, <2>3 DEF Retired
<1>4. ~Busy(leaf)
  <2>. SUFFICES ASSUME NEW k \in Work, NEW d \in Docs, There(k, leaf, d) PROVE FALSE
    BY DEF Busy
  <2>1. k \in Kinds /\ "receipt" \in Kinds
    BY DEF Work, Kinds
  <2>2. CASE k # "proof"
    <3>1. k \in {"create stage", "receipt", "stage", "archive stage"}
      BY <2>2 DEF Work
    <3>. QED  BY <1>2, <2>1, <3>1
  <2>3. CASE k = "proof" /\ ~There("receipt", leaf, d)
    BY <1>2, <2>1, <2>3
  <2>4. CASE There("receipt", leaf, d)
    BY <1>2, <2>1, <2>4
  <2>. QED  BY <2>2, <2>3, <2>4
<1>. QED
  BY <1>3, <1>4

LEMMA ReleaseChecksKeeps ==
  ASSUME Assumptions, LInv, ReleaseChecks
  PROVE  LInv'
<1>1. /\ Types /\ Files /\ cmd \in Command /\ cmd # Idle /\ Knows
      /\ cmd.at = "release" /\ cmd.todo = <<>> /\ bin = NoBin /\ cmd.req.op = "release"
  <2>. "release" \in Stations /\ "release" \in Operations /\ At("release")
    BY DEF ReleaseChecks, Stations, Operations
  <2>. QED  BY Station
<1>2. /\ cmd.req \in Requests /\ leaf \in Names /\ document \in Docs
  BY <1>1, Commanded
<1>3. UNCHANGED world
  BY DEF ReleaseChecks
<1>4. CASE Refuse
  BY <1>1, <1>3, <1>4, Refuses
<1>5. CASE GoUnlinking("done", IfThere(Mine("release stage"))) /\ UNCHANGED disk
  <2>1. /\ IfThere(Mine("release stage")) \in {<<>>, <<Mine("release stage")>>}
        /\ IfThere(Mine("release stage")) \in Seq(Unlinkable)
    BY <1>1, Lists2 DEF Kinds
  <2>. DEFINE todo == IfThere(Mine("release stage"))
  <2>2. Moved("done", todo)
    BY <1>1, <1>5, <2>1, Going DEF Stations
  <2>. HIDE DEF todo
  <2>3. Types' /\ Files' /\ Creating'
    BY <1>1, <1>3, <1>5, <2>2, StaysSound
  <2>4. Settled("done", todo)
    BY <1>1, <1>5, <2>2, <2>3 DEF Settled, disk, NoBin
  <2>. QED  BY <1>1, <2>1, <2>3, <2>4, Ends DEF todo
<1>6. CASE /\ Write("release stage", "release staged") /\ NothingElsePending(cmd.req)
           /\ Released(leaf) = {} /\ ledger[leaf] = document
  <2>1. Moved("release staged", <<>>) /\ Gains("release stage") /\ bin' = NoBin /\ bin' = bin
    BY <1>1, <1>6, Going, Gaining DEF Stations, Kinds
  <2>2. ~Retired(leaf) /\ ~Busy(leaf)
    BY <1>1, <1>2, <1>6, LeafAlone, Document
  <2>3. Files'
    BY <1>1, <2>1, GainsFiles
  <2>4. Types'
    BY <1>1, <1>3, <2>1, GainsTypes
  <2>5. /\ cmd'.at = "release staged" /\ cmd'.todo = <<>> /\ cmd'.req.op = "release"
        /\ leaf' = leaf /\ document' = document
    BY <1>1, <2>1, SameRequest
  <2>6. Entry("release stage", leaf, document) \in files' /\ ledger' = ledger
    BY <2>1 DEF Gains, Adds
  <2>7. \A k, d : k # "release stage" => (Entry(k, leaf, d) \in files' <=> There(k, leaf, d))
    BY <2>1 DEF Gains, Adds
  <2>8. \A d \in Docs : Entry("release", leaf, d) \notin files' /\ Entry("archive", leaf, d) \notin files'
    BY <2>2, <2>7 DEF Retired
  <2>9. \A k \in Work, d \in Docs : Entry(k, leaf, d) \notin files'
    BY <2>2, <2>7 DEF Busy, Work
  <2>10. Releasing'
    BY <1>6, <2>5, <2>6, <2>8, <2>9 DEF Releasing, Retired, Busy, Here, There
  <2>11. Creating' /\ Updating' /\ Archiving' /\ Reclaiming'
    BY <2>5 DEF Creating, Updating, Archiving, Reclaiming
  <2>12. Settled("release staged", <<>>)
    BY <2>1, <2>3, <2>4 DEF Settled, NoBin
  <2>. QED  BY <1>1, <2>10, <2>11, <2>12, Continues DEF Operations
<1>7. \/ Refuse
      \/ GoUnlinking("done", IfThere(Mine("release stage"))) /\ UNCHANGED disk
      \/ /\ Write("release stage", "release staged") /\ NothingElsePending(cmd.req)
         /\ Released(leaf) = {} /\ ledger[leaf] = document
  BY DEF ReleaseChecks, leaf, document
<1>. QED
  BY <1>4, <1>5, <1>6, <1>7

LEMMA ReleaseInstallsKeeps ==
  ASSUME Assumptions, LInv, ReleaseInstalls
  PROVE  LInv'
<1>1. /\ Types /\ Files /\ cmd \in Command /\ cmd # Idle /\ Knows
      /\ cmd.at = "release staged" /\ cmd.todo = <<>> /\ bin = NoBin
  <2>. "release staged" \in Stations /\ At("release staged")
    BY DEF ReleaseInstalls, Stations
  <2>. QED  BY Station
<1>2. /\ cmd.req.op = "release" /\ ledger[leaf] = document /\ ~Busy(leaf)
  BY <1>1 DEF Knows, Releasing
<1>3. UNCHANGED world
  BY DEF ReleaseInstalls
<1>4. CASE Refuse
  BY <1>1, <1>3, <1>4, Refuses
<1>5. CASE Link("release", "done", IfThere(Mine("release stage")))
  <2>. DEFINE todo == IfThere(Mine("release stage"))
  <2>1. todo \in {<<>>, <<Mine("release stage")>>} /\ todo \in Seq(Unlinkable)
    BY <1>1, Lists2 DEF Kinds
  <2>. HIDE DEF todo
  <2>2. Link("release", "done", todo) /\ GoUnlinking("done", todo)
    BY <1>5 DEF Link, todo
  <2>3. Moved("done", todo)
    BY <1>1, <2>1, <2>2, Going DEF Stations
  <2>4. Gains("release") /\ bin' = bin
    BY <1>1, <2>2, Gaining DEF Kinds
  <2>5. Files'
    BY <1>1, <1>2, <2>4, GainsFiles
  <2>6. Types'
    BY <1>1, <1>3, <2>3, <2>4, GainsTypes
  <2>7. cmd'.at = "done" /\ cmd'.req.op = "release"
    BY <1>1, <1>2, <2>3, SameRequest
  <2>8. Creating'
    BY <2>7 DEF Creating
  <2>9. Settled("done", todo)
    BY <1>1, <2>3, <2>4, <2>5, <2>6 DEF Settled, NoBin
  <2>. QED  BY <1>1, <1>2, <2>1, <2>8, <2>9, Ends
<1>. QED
  BY <1>4, <1>5 DEF ReleaseInstalls

-----------------------------------------------------------------------------
(* archive *)

LEMMA ArchiveChecksKeeps ==
  ASSUME Assumptions, LInv, ArchiveChecks
  PROVE  LInv'
<1>1. /\ Types /\ Files /\ cmd \in Command /\ cmd # Idle /\ Knows
      /\ cmd.at = "archive" /\ cmd.todo = <<>> /\ bin = NoBin /\ cmd.req.op = "archive"
  <2>. "archive" \in Stations /\ "archive" \in Operations /\ At("archive")
    BY DEF ArchiveChecks, Stations, Operations
  <2>. QED  BY Station
<1>2. /\ cmd.req \in Requests /\ leaf \in Names /\ document \in Docs
  BY <1>1, Commanded
<1>3. UNCHANGED world
  BY DEF ArchiveChecks
<1>4. CASE Refuse
  BY <1>1, <1>3, <1>4, Refuses
<1>5. CASE Has("archive", cmd.req) /\ Go("members") /\ UNCHANGED disk
  <2>1. Moved("members", <<>>)
    BY <1>1, <1>5, Going DEF Stations
  <2>2. Types' /\ Files' /\ Creating'
    BY <1>1, <1>3, <1>5, <2>1, StaysSound
  <2>3. /\ cmd'.at = "members" /\ cmd'.todo = <<>> /\ cmd'.req.op = "archive"
        /\ leaf' = leaf /\ document' = document
    BY <1>1, <2>1, SameRequest
  <2>4. Entry("archive", leaf, document) \in files'
    BY <1>5 DEF Has, File, Entry, leaf, document, disk
  <2>5. Archiving'
    BY <2>3, <2>4 DEF Archiving, Here, There
  <2>6. Updating' /\ Releasing' /\ Reclaiming'
    BY <2>3 DEF Updating, Releasing, Reclaiming
  <2>7. Settled("members", <<>>)
    BY <1>1, <1>5, <2>1, <2>2 DEF Settled, disk, NoBin
  <2>. QED  BY <1>1, <2>2, <2>5, <2>6, <2>7, Continues DEF Operations
<1>6. CASE /\ Write("archive stage", "archive staged") /\ Archived(leaf) = {}
           /\ Has("release", cmd.req) /\ ledger[leaf] = document
  <2>1. Moved("archive staged", <<>>) /\ Gains("archive stage") /\ bin' = NoBin /\ bin' = bin
    BY <1>1, <1>6, Going, Gaining DEF Stations, Kinds
  <2>2. Files'
    BY <1>1, <2>1, GainsFiles
  <2>3. Types'
    BY <1>1, <1>3, <2>1, GainsTypes
  <2>4. /\ cmd'.at = "archive staged" /\ cmd'.todo = <<>> /\ cmd'.req.op = "archive"
        /\ leaf' = leaf /\ document' = document
    BY <1>1, <2>1, SameRequest
  <2>5. Entry("archive stage", leaf, document) \in files' /\ ledger' = ledger
    BY <2>1 DEF Gains, Adds
  <2>6. There("release", leaf, document)
    BY <1>6 DEF Has, File, There, Entry, leaf, document
  <2>7. Entry("release", leaf, document) \in files'
    BY <2>1, <2>6 DEF Gains, Adds
  <2>8. \A d \in Docs : ~There("archive", leaf, d)
    BY <1>1, <1>2, <1>6, Retirement
  <2>9. \A d \in Docs : Entry("archive", leaf, d) \notin files'
    BY <2>1, <2>8 DEF Gains, Adds
  <2>10. Archiving'
    BY <1>6, <2>4, <2>5, <2>7, <2>9 DEF Archiving, NoneOf, Here, There
  <2>11. Creating' /\ Updating' /\ Releasing' /\ Reclaiming'
    BY <2>4 DEF Creating, Updating, Releasing, Reclaiming
  <2>12. Settled("archive staged", <<>>)
    BY <2>1, <2>2, <2>3 DEF Settled, NoBin
  <2>. QED  BY <1>1, <2>10, <2>11, <2>12, Continues DEF Operations
<1>7. \/ Refuse
      \/ Has("archive", cmd.req) /\ Go("members") /\ UNCHANGED disk
      \/ /\ Write("archive stage", "archive staged") /\ Archived(leaf) = {}
         /\ Has("release", cmd.req) /\ ledger[leaf] = document
  BY DEF ArchiveChecks, leaf, document
<1>. QED
  BY <1>4, <1>5, <1>6, <1>7

LEMMA ArchiveInstallsKeeps ==
  ASSUME Assumptions, LInv, ArchiveInstalls
  PROVE  LInv'
<1>1. /\ Types /\ Files /\ cmd \in Command /\ cmd # Idle /\ Knows
      /\ cmd.at = "archive staged" /\ cmd.todo = <<>> /\ bin = NoBin
  <2>. "archive staged" \in Stations /\ At("archive staged")
    BY DEF ArchiveInstalls, Stations
  <2>. QED  BY Station
<1>2. /\ cmd.req.op = "archive" /\ ledger[leaf] = document
      /\ Here("release") /\ NoneOf("archive") /\ Here("archive stage")
  BY <1>1 DEF Knows, Archiving
<1>3. UNCHANGED world
  BY DEF ArchiveInstalls
<1>4. CASE Refuse
  BY <1>1, <1>3, <1>4, Refuses
<1>5. CASE Link("archive", "archive linked", <<>>)
  <2>1. GoUnlinking("archive linked", <<>>)
    BY <1>5 DEF Link
  <2>2. Moved("archive linked", <<>>)
    <3>1. <<>> \in Seq(Unlinkable)
      OBVIOUS
    <3>. QED  BY <1>1, <2>1, <3>1, Going DEF Stations
  <2>3. Gains("archive") /\ bin' = bin
    BY <1>1, <1>5, Gaining DEF Kinds
  <2>4. Files'
    BY <1>1, <1>2, <2>3, GainsFiles
  <2>5. Types'
    BY <1>1, <1>3, <2>2, <2>3, GainsTypes
  <2>6. /\ cmd'.at = "archive linked" /\ cmd'.todo = <<>> /\ cmd'.req.op = "archive"
        /\ leaf' = leaf /\ document' = document
    BY <1>1, <1>2, <2>2, SameRequest
  <2>7. Entry("archive", leaf, document) \in files'
    BY <2>3 DEF Gains, Adds
  <2>8. Archiving'
    BY <2>6, <2>7 DEF Archiving, Here, There
  <2>9. Creating' /\ Updating' /\ Releasing' /\ Reclaiming'
    BY <2>6 DEF Creating, Updating, Releasing, Reclaiming
  <2>10. Settled("archive linked", <<>>)
    BY <1>1, <2>2, <2>3, <2>4, <2>5 DEF Settled, NoBin
  <2>. QED  BY <1>1, <2>8, <2>9, <2>10, Continues DEF Operations
<1>. QED
  BY <1>4, <1>5 DEF ArchiveInstalls

LEMMA ArchiveRechecksKeeps ==
  ASSUME LInv, ArchiveRechecks
  PROVE  LInv'
<1>1. /\ Types /\ Files /\ cmd \in Command /\ cmd # Idle /\ Knows
      /\ cmd.at = "archive linked" /\ cmd.todo = <<>> /\ bin = NoBin
  <2>. "archive linked" \in Stations /\ At("archive linked")
    BY DEF ArchiveRechecks, Stations
  <2>. QED  BY Station
<1>2. cmd.req.op = "archive" /\ Here("archive")
  BY <1>1 DEF Knows, Archiving
<1>3. UNCHANGED world
  BY DEF ArchiveRechecks
<1>4. CASE Refuse
  BY <1>1, <1>3, <1>4, Refuses
<1>5. CASE Go("members") /\ UNCHANGED disk
  <2>1. Moved("members", <<>>)
    BY <1>1, <1>5, Going DEF Stations
  <2>2. Types' /\ Files' /\ Creating'
    BY <1>1, <1>3, <1>5, <2>1, StaysSound
  <2>3. /\ cmd'.at = "members" /\ cmd'.todo = <<>> /\ cmd'.req.op = "archive"
        /\ leaf' = leaf /\ document' = document
    BY <1>1, <1>2, <2>1, SameRequest
  <2>4. Archiving'
    BY <1>2, <1>5, <2>3 DEF Archiving, Here, There, disk
  <2>5. Updating' /\ Releasing' /\ Reclaiming'
    BY <2>3 DEF Updating, Releasing, Reclaiming
  <2>6. Settled("members", <<>>)
    BY <1>1, <1>5, <2>1, <2>2 DEF Settled, disk, NoBin
  <2>. QED  BY <1>1, <2>2, <2>4, <2>5, <2>6, Continues DEF Operations
<1>. QED
  BY <1>4, <1>5 DEF ArchiveRechecks

LEMMA ArchiveRemovesMarkerKeeps ==
  ASSUME LInv, ArchiveRemovesMarker
  PROVE  LInv'
<1>1. /\ Types /\ Files /\ cmd \in Command /\ cmd # Idle /\ Knows
      /\ cmd.at = "members" /\ cmd.todo = <<>> /\ bin = NoBin
  <2>. "members" \in Stations /\ At("members")
    BY DEF ArchiveRemovesMarker, Stations
  <2>. QED  BY Station
<1>2. cmd.req.op = "archive" /\ Here("archive") /\ leaf \in Names /\ document \in Docs
  BY <1>1, Commanded DEF Knows, Archiving
<1>3. UNCHANGED world
  BY DEF ArchiveRemovesMarker
<1>4. CASE Refuse
  BY <1>1, <1>3, <1>4, Refuses
<1>5. CASE /\ Released(leaf) \subseteq {document}
           /\ GoUnlinking("ledger member", IfThere(Mine("release"))) /\ UNCHANGED disk
  <2>. DEFINE todo == IfThere(Mine("release"))
  <2>1. /\ todo \in Seq(Unlinkable)
        /\ IF Here("release") THEN todo = <<Mine("release")>> ELSE todo = <<>>
    BY <1>1, Lists2, Commanded DEF Kinds, IfThere
  <2>. HIDE DEF todo
  <2>2. GoUnlinking("ledger member", todo) /\ UNCHANGED disk
    BY <1>5 DEF todo
  <2>3. Moved("ledger member", todo)
    BY <1>1, <2>1, <2>2, Going DEF Stations
  <2>4. Types' /\ Files' /\ Creating'
    BY <1>1, <1>3, <2>2, <2>3, StaysSound
  <2>5. /\ cmd'.at = "ledger member" /\ cmd'.todo = todo /\ cmd'.req.op = "archive"
        /\ leaf' = leaf /\ document' = document /\ Mine("release")' = Mine("release")
    BY <1>1, <1>2, <2>3, SameRequest
  <2>6. \A d \in Docs : There("release", leaf, d) => d = document
    BY <1>1, <1>2, <1>5, Retirement
  <2>7. todo = <<>> => \A d \in Docs : ~There("release", leaf, d)
    BY <2>1, <2>6, Lists DEF Here
  <2>8. Archiving'
    BY <1>2, <2>1, <2>2, <2>5, <2>6, <2>7 DEF Archiving, NoneOf, Here, There, disk
  <2>9. Updating' /\ Updated' /\ TakenBack' /\ Releasing' /\ ArchiveEnds' /\ Reclaiming'
    BY <2>5 DEF Updating, Updated, TakenBack, Releasing, ArchiveEnds, Reclaiming
  <2>10. bin' = NoBin /\ NoBin.phase = "none"
    BY <1>1, <2>2 DEF disk, NoBin
  <2>11. Unlinking'
    BY <2>5, <2>10 DEF Unlinking, Operations
  <2>. QED  BY <2>4, <2>8, <2>9, <2>11 DEF LInv, Knows
<1>6. \/ Refuse
      \/ /\ Released(leaf) \subseteq {document}
         /\ GoUnlinking("ledger member", IfThere(Mine("release"))) /\ UNCHANGED disk
  BY DEF ArchiveRemovesMarker, leaf, document
<1>. QED
  BY <1>4, <1>5, <1>6

LEMMA ArchiveRemovesLedgerKeeps ==
  ASSUME Assumptions, LInv, ArchiveRemovesLedger
  PROVE  LInv'
<1>1. /\ Types /\ Files /\ cmd \in Command /\ cmd # Idle /\ Knows
      /\ cmd.at = "ledger member" /\ cmd.todo = <<>> /\ bin = NoBin
  <2>. "ledger member" \in Stations /\ At("ledger member")
    BY DEF ArchiveRemovesLedger, Stations
  <2>. QED  BY Station
<1>2. /\ cmd.req.op = "archive" /\ Here("archive") /\ NoneOf("release")
      /\ leaf \in Names /\ document \in Docs
  BY <1>1, Commanded DEF Knows, Archiving
<1>3. UNCHANGED world
  BY DEF ArchiveRemovesLedger
<1>4. CASE Refuse
  BY <1>1, <1>3, <1>4, Refuses
<1>5. ASSUME NEW todo \in Seq(Unlinkable), GoUnlinking("done", todo), UNCHANGED disk,
             \/ todo = <<>>
             \/ todo \in {<<Mine("ledger"), Mine("archive stage")>>, <<Mine("ledger")>>}
             \/ todo = <<Mine("archive stage")>> /\ ledger[leaf] = None
      PROVE  LInv'
  <2>1. Moved("done", todo)
    BY <1>1, <1>5, Going DEF Stations
  <2>2. Types' /\ Files' /\ Creating'
    BY <1>1, <1>3, <1>5, <2>1, StaysSound
  <2>3. /\ cmd'.at = "done" /\ cmd'.todo = todo /\ leaf' = leaf /\ document' = document
        /\ Mine("ledger")' = Mine("ledger") /\ Mine("archive stage")' = Mine("archive stage")
    BY <1>1, <2>1, SameRequest
  <2>4. UNCHANGED <<files, ledger>>
    BY <1>5 DEF disk
  <2>5. ArchiveEnds'
    BY <1>2, <1>5, <2>3, <2>4 DEF ArchiveEnds, NoneOf, Here, There
  <2>6. Settled("done", todo)
    BY <1>1, <1>5, <2>1, <2>2 DEF Settled, disk, NoBin
  <2>. QED  BY <1>1, <1>2, <2>2, <2>5, <2>6, Ends
<1>6. CASE ledger[leaf] = None
  <2>1. GoUnlinking("done", IfThere(Mine("archive stage"))) /\ UNCHANGED disk
    BY <1>2, <1>6, Document DEF ArchiveRemovesLedger, leaf, document
  <2>2. /\ IfThere(Mine("archive stage")) \in {<<>>, <<Mine("archive stage")>>}
        /\ IfThere(Mine("archive stage")) \in Seq(Unlinkable)
    BY <1>1, Lists2 DEF Kinds
  <2>. QED  BY <1>5, <1>6, <2>1, <2>2
<1>7. CASE ledger[leaf] = document
  <2>. DEFINE todo == IF Present("archive stage") THEN <<Mine("ledger"), Mine("archive stage")>>
                                                  ELSE <<Mine("ledger")>>
  <2>1. GoUnlinking("done", todo) /\ UNCHANGED disk
    BY <1>2, <1>7, Document DEF ArchiveRemovesLedger, leaf, document
  <2>2. /\ todo \in {<<Mine("ledger"), Mine("archive stage")>>, <<Mine("ledger")>>}
        /\ todo \in Seq(Unlinkable)
    BY <1>1, Lists2 DEF Kinds
  <2>. QED  BY <1>5, <2>1, <2>2
<1>8. CASE ledger[leaf] # None /\ ledger[leaf] # document
  BY <1>4, <1>8 DEF ArchiveRemovesLedger, leaf, document
<1>. QED
  BY <1>6, <1>7, <1>8

-----------------------------------------------------------------------------
(* reclaim *)

LEMMA ReclaimGoesOn ==
  ASSUME cmd \in Command, NEW station, NEW todo, Settled(station, todo), cmd.req.op = "reclaim",
         station \in {"prepared", "publish", "swap", "rename", "published"},
         station \in {"prepared", "swap"} => todo = <<>>,
         Reclaiming'
  PROVE  LInv'
<1>1. cmd'.at = station /\ cmd'.todo = todo /\ cmd'.req.op = "reclaim"
  BY SameRequest DEF Settled
<1>2. Creating' /\ Updating' /\ Updated' /\ TakenBack' /\ Releasing' /\ Archiving' /\ ArchiveEnds'
  BY <1>1 DEF Creating, Updating, Updated, TakenBack, Releasing, Archiving, ArchiveEnds
<1>3. Unlinking'
  BY <1>1 DEF Unlinking, Settled, Operations
<1>. QED
  BY <1>2, <1>3 DEF LInv, Knows, Settled

LEMMA ReclaimChecksKeeps ==
  ASSUME Assumptions, LInv, ReclaimChecks
  PROVE  LInv'
<1>1. /\ Types /\ Files /\ cmd \in Command /\ cmd # Idle /\ Knows
      /\ cmd.at = "reclaim" /\ cmd.todo = <<>> /\ bin = NoBin /\ cmd.req.op = "reclaim"
  <2>. "reclaim" \in Stations /\ "reclaim" \in Operations /\ At("reclaim")
    BY DEF ReclaimChecks, Stations, Operations
  <2>. QED  BY Station
<1>2. UNCHANGED world
  BY DEF ReclaimChecks
<1>3. CASE Refuse
  BY <1>1, <1>2, <1>3, Refuses
<1>4. CASE Go("publish") /\ UNCHANGED disk
  <2>1. Moved("publish", <<>>)
    BY <1>1, <1>4, Going DEF Stations
  <2>2. Types' /\ Files' /\ Creating'
    BY <1>1, <1>2, <1>4, <2>1, StaysSound
  <2>3. cmd'.at = "publish" /\ cmd'.todo = <<>> /\ cmd'.req.op = "reclaim"
    BY <1>1, <2>1, SameRequest
  <2>4. Reclaiming'
    BY <2>3 DEF Reclaiming
  <2>5. Settled("publish", <<>>)
    BY <1>1, <1>4, <2>1, <2>2 DEF Settled, disk, NoBin
  <2>. QED  BY <1>1, <2>4, <2>5, ReclaimGoesOn
<1>5. CASE GoUnlinking("publish", <<Mine("archive")>>) /\ ~Has("archive", cmd.req) /\ UNCHANGED disk
  <2>. DEFINE todo == <<Mine("archive")>>
  <2>1. todo \in Seq(Unlinkable)
    BY <1>1, Lists2 DEF Kinds
  <2>2. Moved("publish", todo)
    BY <1>1, <1>5, <2>1, Going DEF Stations
  <2>3. Types' /\ Files' /\ Creating'
    BY <1>1, <1>2, <1>5, <2>2, StaysSound
  <2>4. /\ cmd'.at = "publish" /\ cmd'.todo = todo /\ cmd'.req.op = "reclaim"
        /\ Mine("archive")' = Mine("archive") /\ leaf' = leaf /\ document' = document
    BY <1>1, <2>2, SameRequest
  <2>5. Entry("archive", leaf, document) \notin files'
    BY <1>5 DEF Has, File, Entry, leaf, document, disk
  <2>6. Reclaiming'
    BY <2>4, <2>5 DEF Reclaiming, Here, There
  <2>. HIDE DEF todo
  <2>7. Settled("publish", todo)
    BY <1>1, <1>5, <2>2, <2>3 DEF Settled, disk, NoBin
  <2>. QED  BY <1>1, <2>6, <2>7, ReclaimGoesOn
<1>6. CASE Write("reclaim receipt", "prepared") /\ ledger[leaf] = None
  <2>1. Moved("prepared", <<>>) /\ Gains("reclaim receipt") /\ bin' = NoBin /\ bin' = bin
    BY <1>1, <1>6, Going, Gaining DEF Stations, Kinds
  <2>2. Files'
    BY <1>1, <2>1, GainsFiles
  <2>3. Types'
    BY <1>1, <1>2, <2>1, GainsTypes
  <2>4. /\ cmd'.at = "prepared" /\ cmd'.todo = <<>> /\ cmd'.req.op = "reclaim"
        /\ leaf' = leaf /\ document' = document
    BY <1>1, <2>1, SameRequest
  <2>5. Entry("reclaim receipt", leaf, document) \in files' /\ ledger' = ledger
    BY <2>1 DEF Gains, Adds
  <2>6. Reclaiming'
    BY <1>6, <2>4, <2>5 DEF Reclaiming, Here, There
  <2>7. Settled("prepared", <<>>)
    BY <2>1, <2>2, <2>3 DEF Settled, NoBin
  <2>. QED  BY <1>1, <2>6, <2>7, ReclaimGoesOn
<1>7. \/ Refuse
      \/ Go("publish") /\ UNCHANGED disk
      \/ GoUnlinking("publish", <<Mine("archive")>>) /\ ~Has("archive", cmd.req) /\ UNCHANGED disk
      \/ Write("reclaim receipt", "prepared") /\ ledger[leaf] = None
  BY DEF ReclaimChecks, leaf
<1>. QED
  BY <1>3, <1>4, <1>5, <1>6, <1>7

LEMMA ReclaimRemovesKeeps ==
  ASSUME LInv, ReclaimRemoves
  PROVE  LInv'
<1>1. /\ Types /\ Files /\ cmd \in Command /\ cmd # Idle /\ Knows
      /\ cmd.at = "prepared" /\ cmd.todo = <<>> /\ bin = NoBin
  <2>. "prepared" \in Stations /\ At("prepared")
    BY DEF ReclaimRemoves, Stations
  <2>. QED  BY Station
<1>2. cmd.req.op = "reclaim" /\ ledger[leaf] = None
  BY <1>1 DEF Knows, Reclaiming
<1>. DEFINE todo == IfThere(Mine("archive"))
<1>3. todo \in {<<>>, <<Mine("archive")>>} /\ todo \in Seq(Unlinkable)
  BY <1>1, Lists2 DEF Kinds
<1>. HIDE DEF todo
<1>4. GoUnlinking("publish", todo) /\ UNCHANGED disk /\ UNCHANGED world
  BY DEF ReclaimRemoves, todo
<1>5. Moved("publish", todo)
  BY <1>1, <1>3, <1>4, Going DEF Stations
<1>6. Types' /\ Files' /\ Creating'
  BY <1>1, <1>4, <1>5, StaysSound
<1>7. /\ cmd'.at = "publish" /\ cmd'.todo = todo /\ cmd'.req.op = "reclaim"
      /\ Mine("archive")' = Mine("archive") /\ leaf' = leaf
  BY <1>1, <1>2, <1>5, SameRequest
<1>8. Reclaiming'
  BY <1>2, <1>3, <1>4, <1>7 DEF Reclaiming, disk
<1>9. Settled("publish", todo)
  BY <1>1, <1>4, <1>5, <1>6 DEF Settled, disk, NoBin
<1>. QED
  BY <1>1, <1>2, <1>8, <1>9, ReclaimGoesOn

LEMMA ReclaimStagesKeeps ==
  ASSUME Assumptions, LInv, ReclaimStages
  PROVE  LInv'
<1>1. /\ Types /\ Files /\ cmd \in Command /\ cmd # Idle /\ Knows
      /\ cmd.at = "publish" /\ cmd.todo = <<>> /\ bin = NoBin
  <2>. "publish" \in Stations /\ At("publish")
    BY DEF ReclaimStages, Stations
  <2>. QED  BY Station
<1>2. cmd.req.op = "reclaim"
  BY <1>1 DEF Knows, Reclaiming
<1>3. UNCHANGED world /\ Write("complete stage", "swap")
  BY DEF ReclaimStages
<1>4. Moved("swap", <<>>) /\ Gains("complete stage") /\ bin' = NoBin /\ bin' = bin
  BY <1>1, <1>3, Going, Gaining DEF Stations, Kinds
<1>5. Files'
  BY <1>1, <1>4, GainsFiles
<1>6. Types'
  BY <1>1, <1>3, <1>4, GainsTypes
<1>7. /\ cmd'.at = "swap" /\ cmd'.todo = <<>> /\ cmd'.req.op = "reclaim"
      /\ leaf' = leaf /\ document' = document
  BY <1>1, <1>2, <1>4, SameRequest
<1>8. /\ Entry("complete stage", leaf, document) \in files'
      /\ Entry("complete stage", leaf, document) \notin torn'
  BY <1>3 DEF Write, Mine, File, Entry, leaf, document
<1>9. Reclaiming'
  BY <1>7, <1>8 DEF Reclaiming, Complete, Whole, There
<1>10. Settled("swap", <<>>)
  BY <1>4, <1>5, <1>6 DEF Settled, NoBin
<1>. QED
  BY <1>1, <1>2, <1>9, <1>10, ReclaimGoesOn

LEMMA ReclaimSwapsKeeps ==
  ASSUME LInv, ReclaimSwaps
  PROVE  LInv'
<1>1. /\ Types /\ Files /\ cmd \in Command /\ cmd # Idle /\ Knows
      /\ cmd.at = "swap" /\ cmd.todo = <<>> /\ bin = NoBin
  <2>. "swap" \in Stations /\ At("swap")
    BY DEF ReclaimSwaps, Stations
  <2>. QED  BY Station
<1>2. cmd.req.op = "reclaim" /\ Complete("complete stage")
  BY <1>1 DEF Knows, Reclaiming
<1>3. UNCHANGED disk /\ UNCHANGED world /\ UNCHANGED <<files, torn>>
  BY DEF ReclaimSwaps, disk
<1>4. ASSUME NEW station \in {"published", "rename"}, NEW todo \in Seq(Unlinkable),
             GoUnlinking(station, todo), Moved(station, todo) => Reclaiming'
      PROVE  LInv'
  <2>1. station \in Stations /\ station # "staged" /\ station \notin {"prepared", "swap"}
    BY DEF Stations
  <2>2. Moved(station, todo)
    BY <1>1, <1>4, <2>1, Going
  <2>3. Types' /\ Files' /\ Creating'
    BY <1>1, <1>3, <2>1, <2>2, StaysSound
  <2>4. Settled(station, todo)
    BY <1>1, <1>3, <2>2, <2>3 DEF Settled, disk, NoBin
  <2>. QED  BY <1>1, <1>2, <1>4, <2>1, <2>2, <2>4, ReclaimGoesOn
<1>5. CASE Present("complete")
  <2>. DEFINE todo == IfThere(Mine("complete stage"))
  <2>1. todo \in {<<>>, <<Mine("complete stage")>>} /\ todo \in Seq(Unlinkable)
    BY <1>1, Lists2 DEF Kinds
  <2>2. GoUnlinking("published", todo)
    BY <1>5 DEF ReclaimSwaps
  <2>. HIDE DEF todo
  <2>3. ASSUME Moved("published", todo) PROVE Reclaiming'
    <3>1. /\ cmd'.at = "published" /\ cmd'.todo = todo /\ cmd'.req.op = "reclaim"
          /\ Mine("complete stage")' = Mine("complete stage")
      BY <1>1, <1>2, <2>3, SameRequest
    <3>. QED  BY <2>1, <3>1 DEF Reclaiming
  <2>. QED  BY <1>4, <2>1, <2>2, <2>3
<1>6. ASSUME NEW todo \in Seq(Unlinkable), GoUnlinking("rename", todo),
             IF todo = <<>> THEN \A n \in Names, d \in Docs : ~There("complete", n, d)
             ELSE /\ todo = <<Head(todo)>> /\ Head(todo).kind = "complete"
                  /\ \A n \in Names, d \in Docs :
                       There("complete", n, d) => Head(todo) = [kind |-> "complete", name |-> n, doc |-> d]
      PROVE  LInv'
  <2>1. ASSUME Moved("rename", todo) PROVE Reclaiming'
    <3>1. /\ cmd'.at = "rename" /\ cmd'.todo = todo /\ cmd'.req.op = "reclaim"
          /\ leaf' = leaf /\ document' = document
      BY <1>1, <1>2, <2>1, SameRequest
    <3>2. /\ Entry("complete stage", leaf, document) \in files'
          /\ Entry("complete stage", leaf, document) \notin torn'
      BY <1>2, <1>3 DEF Complete, Whole, There
    <3>3. \A n, d : There("complete", n, d)' <=> There("complete", n, d)
      BY <1>3 DEF There, Entry
    <3>. QED  BY <1>6, <3>1, <3>2, <3>3 DEF Reclaiming, Complete, Whole, There
  <2>. QED  BY <1>4, <1>6, <2>1
<1>7. CASE ~Present("complete") /\ Completed = {}
  <2>1. GoUnlinking("rename", <<>>)
    BY <1>7 DEF ReclaimSwaps
  <2>2. \A n \in Names, d \in Docs : ~There("complete", n, d)
    BY <1>7 DEF Completed, There, Entry
  <2>3. <<>> \in Seq(Unlinkable)
    OBVIOUS
  <2>. QED  BY <1>6, <2>1, <2>2, <2>3
<1>8. CASE ~Present("complete") /\ Completed # {}
  <2>. DEFINE f == CHOOSE f \in Completed : TRUE
  <2>1. f \in files /\ f.kind = "complete"
    BY <1>8 DEF Completed
  <2>2. GoUnlinking("rename", <<f>>)
    BY <1>8 DEF ReclaimSwaps
  <2>. HIDE DEF f
  <2>3. /\ f.name \in Names /\ f.doc \in Docs /\ There("complete", f.name, f.doc)
        /\ f = [kind |-> "complete", name |-> f.name, doc |-> f.doc]
    BY <1>1, <2>1, FileForm
  <2>4. \A n \in Names, d \in Docs :
          There("complete", n, d) => f = [kind |-> "complete", name |-> n, doc |-> d]
    BY <1>1, <2>3 DEF Files, OneCompleted
  <2>5. f \in Unlinkable
    BY <1>1, <2>1 DEF Types, Managed, Unlinkable
  <2>6. <<f>> \in Seq(Unlinkable) /\ <<f>> # <<>> /\ Head(<<f>>) = f
    BY <2>5
  <2>. QED  BY <1>6, <2>1, <2>2, <2>4, <2>6
<1>. QED
  BY <1>5, <1>7, <1>8

LEMMA ReclaimRenamesKeeps ==
  ASSUME LInv, ReclaimRenames
  PROVE  LInv'
<1>1. /\ Types /\ Files /\ cmd \in Command /\ cmd # Idle /\ Knows
      /\ cmd.at = "rename" /\ cmd.todo = <<>> /\ bin = NoBin
  <2>. "rename" \in Stations /\ At("rename")
    BY DEF ReclaimRenames, Stations
  <2>. QED  BY Station
<1>2. /\ cmd.req.op = "reclaim" /\ Complete("complete stage")
      /\ \A n \in Names, d \in Docs : ~There("complete", n, d)
  BY <1>1 DEF Knows, Reclaiming
<1>3. /\ files' = (files \ {Mine("complete stage")}) \cup {Mine("complete")}
      /\ Go("published") /\ UNCHANGED <<ledger, torn>> /\ bin' = bin /\ UNCHANGED world
  BY DEF ReclaimRenames
<1>4. Moved("published", <<>>)
  BY <1>1, <1>3, Going DEF Stations
<1>5. Files'
  BY <1>1, <1>2, <1>3, CompletionComes
<1>6. Types'
  <2>1. Mine("complete stage") \notin torn
    BY <1>2 DEF Complete, Whole, Entry, Mine, File, leaf, document
  <2>2. Mine("complete") \in Managed
    BY <1>1, Commanded DEF Kinds
  <2>. QED  BY <1>1, <1>3, <1>4, <2>1, <2>2 DEF Types, Moved, world, Bins, NoBin
<1>7. cmd'.at = "published" /\ cmd'.todo = <<>> /\ cmd'.req.op = "reclaim"
  BY <1>1, <1>2, <1>4, SameRequest
<1>8. Reclaiming'
  BY <1>7 DEF Reclaiming
<1>9. Settled("published", <<>>)
  BY <1>1, <1>3, <1>4, <1>5, <1>6 DEF Settled, NoBin
<1>. QED
  BY <1>1, <1>2, <1>8, <1>9, ReclaimGoesOn

LEMMA ReclaimEndsKeeps ==
  ASSUME LInv, ReclaimEnds
  PROVE  LInv'
<1>1. /\ Types /\ Files /\ cmd \in Command /\ cmd # Idle /\ Knows
      /\ cmd.at = "published" /\ cmd.todo = <<>> /\ bin = NoBin
  <2>. "published" \in Stations /\ At("published")
    BY DEF ReclaimEnds, Stations
  <2>. QED  BY Station
<1>2. cmd.req.op = "reclaim"
  BY <1>1 DEF Knows, Reclaiming
<1>. DEFINE todo == IfThere(Mine("reclaim receipt"))
<1>3. todo \in {<<>>, <<Mine("reclaim receipt")>>} /\ todo \in Seq(Unlinkable)
  BY <1>1, Lists2 DEF Kinds
<1>. HIDE DEF todo
<1>4. GoUnlinking("done", todo) /\ UNCHANGED disk /\ UNCHANGED world
  BY DEF ReclaimEnds, todo
<1>5. Moved("done", todo)
  BY <1>1, <1>3, <1>4, Going DEF Stations
<1>6. Types' /\ Files' /\ Creating'
  BY <1>1, <1>4, <1>5, StaysSound
<1>7. Settled("done", todo)
  BY <1>1, <1>4, <1>5, <1>6 DEF Settled, disk, NoBin
<1>. QED
  BY <1>1, <1>2, <1>3, <1>6, <1>7, Ends

-----------------------------------------------------------------------------
(* Unlinks *)

LEMMA FirstAndRest ==
  ASSUME NEW S, NEW list \in Seq(S), list # <<>>
  PROVE  Head(list) \in S /\ Tail(list) \in Seq(S)
OBVIOUS

Doomed == Head(cmd.todo)
LedgerMember ==
  /\ cmd.at = "done" /\ cmd.req.op = "archive" /\ Doomed = Mine("ledger")
  /\ Here("archive") /\ NoneOf("release")

\* What a command unlinks next is safe to take away, or is the ledger of an archived leaf.
LEMMA Unlinked ==
  ASSUME Assumptions, LInv, cmd # Idle, cmd.todo # <<>>
  PROVE  \/ LedgerMember
         \/ /\ Doomed.kind \in Kinds /\ Doomed.name \in Names /\ Doomed.doc \in Docs
            /\ Doomed = Entry(Doomed.kind, Doomed.name, Doomed.doc)
            /\ Removable(Doomed.kind, Doomed.name, Doomed.doc)
<1>1. /\ cmd \in Command /\ cmd.todo \in Seq(Unlinkable) /\ leaf \in Names /\ document \in Docs
      /\ cmd.req.op \in Operations
      /\ Knows /\ cmd.at \in {"done", "refused", "ledger member", "publish", "rename", "published"}
  BY Commanded, Request DEF LInv, Knows, Unlinking
<1>2. Doomed \in Unlinkable
  BY <1>1, FirstAndRest DEF Doomed
<1>3. ASSUME NEW kind \in Kinds, Doomed = Mine(kind), Removable(kind, leaf, document)
      PROVE  /\ Doomed.kind \in Kinds /\ Doomed.name \in Names /\ Doomed.doc \in Docs
             /\ Doomed = Entry(Doomed.kind, Doomed.name, Doomed.doc)
             /\ Removable(Doomed.kind, Doomed.name, Doomed.doc)
  <2>1. Doomed.kind = kind /\ Doomed.name = leaf /\ Doomed.doc = document
        /\ Doomed = Entry(kind, leaf, document)
    BY <1>3 DEF Mine, File, Entry, leaf, document
  <2>. QED  BY <1>1, <1>3, <2>1
<1>4. ASSUME NEW kind \in {"create stage", "release stage", "reclaim receipt", "complete stage"}
      PROVE  kind \in Kinds /\ Removable(kind, leaf, document)
  BY DEF Kinds, Removable
<1>5. CASE cmd.at = "done" /\ cmd.req.op \in {"create", "release", "reclaim"}
  <2>1. PICK kind \in {"create stage", "release stage", "reclaim receipt"} : cmd.todo = <<Mine(kind)>>
    BY <1>1, <1>5 DEF Knows, Unlinking, Reclaiming
  <2>2. Doomed = Mine(kind)
    BY <2>1, Lists DEF Doomed
  <2>. QED  BY <1>3, <1>4, <2>2
<1>6. CASE cmd.at = "done" /\ cmd.req.op = "cas"
  <2>1. /\ ~Here("stage")
        /\ \/ cmd.todo = <<Mine("receipt"), Mine("proof")>>
           \/ cmd.todo = <<Mine("proof")>> /\ ~Here("receipt")
    BY <1>1, <1>6 DEF Knows, Updated
  <2>2. CASE cmd.todo = <<Mine("receipt"), Mine("proof")>>
    <3>1. Doomed = Mine("receipt")
      BY <2>2, Lists DEF Doomed
    <3>2. "receipt" \in Kinds /\ Removable("receipt", leaf, document)
      BY <2>1 DEF Kinds, Removable, Here
    <3>. QED  BY <1>3, <3>1, <3>2
  <2>3. CASE cmd.todo = <<Mine("proof")>> /\ ~Here("receipt")
    <3>1. Doomed = Mine("proof")
      BY <2>3, Lists DEF Doomed
    <3>2. "proof" \in Kinds /\ Removable("proof", leaf, document)
      BY <2>3 DEF Kinds, Removable, Here
    <3>. QED  BY <1>3, <3>1, <3>2
  <2>. QED  BY <2>1, <2>2, <2>3
<1>7. CASE cmd.at = "done" /\ cmd.req.op = "archive"
  <2>1. \/ /\ cmd.todo = <<Mine("ledger"), Mine("archive stage")>> \/ cmd.todo = <<Mine("ledger")>>
           /\ Here("archive") /\ NoneOf("release")
        \/ cmd.todo = <<Mine("archive stage")>> /\ ledger[leaf] = None
    BY <1>1, <1>7 DEF Knows, ArchiveEnds
  <2>2. CASE /\ cmd.todo = <<Mine("ledger"), Mine("archive stage")>> \/ cmd.todo = <<Mine("ledger")>>
             /\ Here("archive") /\ NoneOf("release")
    <3>1. Doomed = Mine("ledger")
      BY <2>2, Lists DEF Doomed
    <3>. QED  BY <1>7, <2>2, <3>1 DEF LedgerMember
  <2>3. CASE cmd.todo = <<Mine("archive stage")>> /\ ledger[leaf] = None
    <3>1. Doomed = Mine("archive stage")
      BY <2>3, Lists DEF Doomed
    <3>2. "archive stage" \in Kinds /\ Removable("archive stage", leaf, document)
      BY <2>3 DEF Kinds, Removable
    <3>. QED  BY <1>3, <3>1, <3>2
  <2>. QED  BY <2>1, <2>2, <2>3
<1>8. CASE cmd.at = "refused"
  <2>1. /\ ledger[leaf] = Front(document)
        /\ \/ cmd.todo = <<Mine("proof"), Mine("stage"), Mine("receipt")>>
           \/ cmd.todo = <<Mine("stage"), Mine("receipt")>> /\ ~Here("proof")
           \/ cmd.todo = <<Mine("receipt")>> /\ ~Here("proof") /\ ~Here("stage")
    BY <1>1, <1>8 DEF Knows, TakenBack
  <2>2. CASE cmd.todo = <<Mine("proof"), Mine("stage"), Mine("receipt")>>
    <3>1. Doomed = Mine("proof")
      BY <2>2, Lists DEF Doomed
    <3>2. "proof" \in Kinds /\ Removable("proof", leaf, document)
      BY <2>1 DEF Kinds, Removable
    <3>. QED  BY <1>3, <3>1, <3>2
  <2>3. CASE cmd.todo = <<Mine("stage"), Mine("receipt")>> /\ ~Here("proof")
    <3>1. Doomed = Mine("stage")
      BY <2>3, Lists DEF Doomed
    <3>2. "stage" \in Kinds /\ Removable("stage", leaf, document)
      BY <2>3 DEF Kinds, Removable, Here
    <3>. QED  BY <1>3, <3>1, <3>2
  <2>4. CASE cmd.todo = <<Mine("receipt")>> /\ ~Here("stage")
    <3>1. Doomed = Mine("receipt")
      BY <2>4, Lists DEF Doomed
    <3>2. "receipt" \in Kinds /\ Removable("receipt", leaf, document)
      BY <2>4 DEF Kinds, Removable, Here
    <3>. QED  BY <1>3, <3>1, <3>2
  <2>. QED  BY <2>1, <2>2, <2>3, <2>4
<1>9. CASE cmd.at = "ledger member"
  <2>1. cmd.todo = <<Mine("release")>> /\ Here("archive")
    BY <1>1, <1>9 DEF Knows, Archiving
  <2>2. Doomed = Mine("release")
    BY <2>1, Lists DEF Doomed
  <2>3. "release" \in Kinds /\ Removable("release", leaf, document)
    BY <2>1 DEF Kinds, Removable, Here
  <2>. QED  BY <1>3, <2>2, <2>3
<1>10. CASE cmd.at = "publish"
  <2>1. cmd.todo = <<Mine("archive")>> /\ (Here("archive") => ledger[leaf] = None)
    BY <1>1, <1>10 DEF Knows, Reclaiming
  <2>2. Doomed = Mine("archive")
    BY <2>1, Lists DEF Doomed
  <2>3. "archive" \in Kinds /\ Removable("archive", leaf, document)
    BY <1>1, <2>1, Document DEF Kinds, Removable, Here
  <2>. QED  BY <1>3, <2>2, <2>3
<1>11. CASE cmd.at = "rename"
  <2>1. Doomed.kind = "complete"
    BY <1>1, <1>11 DEF Knows, Reclaiming, Doomed
  <2>2. Doomed.name \in Names /\ Doomed.doc \in Docs
        /\ Doomed = [kind |-> Doomed.kind, name |-> Doomed.name, doc |-> Doomed.doc]
    BY <1>2 DEF Unlinkable
  <2>3. "complete" \in Kinds /\ Removable("complete", Doomed.name, Doomed.doc)
    BY DEF Kinds, Removable
  <2>. QED  BY <2>1, <2>2, <2>3 DEF Entry
<1>12. CASE cmd.at = "published"
  <2>1. cmd.todo = <<Mine("complete stage")>>
    BY <1>1, <1>12 DEF Knows, Reclaiming
  <2>2. Doomed = Mine("complete stage")
    BY <2>1, Lists DEF Doomed
  <2>. QED  BY <1>3, <1>4, <2>2
<1>. QED
  BY <1>1, <1>5, <1>6, <1>7, <1>8, <1>9, <1>10, <1>11, <1>12 DEF Operations

\* The quarantine moves on and the files stay.
LEMMA UnlinkPreparesKeeps ==
  ASSUME LInv, cmd # Idle, cmd.todo # <<>>, UNCHANGED <<ledger, files, torn, cmd, proven>>,
         bin' \in Bins, bin'.phase \notin {"none", "torn"},
         bin'.phase \in {"moved", "gone", "cleared"} => bin.phase \in {"moved", "gone", "cleared"}
  PROVE  LInv'
<1>1. Types' /\ Files'
  BY SameRoot DEF LInv, Types
<1>2. /\ Creating /\ Updating /\ Updated /\ TakenBack /\ Releasing
      /\ Archiving /\ ArchiveEnds /\ Reclaiming /\ Unlinking
  BY DEF LInv, Knows
<1>3. Creating' /\ Updated' /\ TakenBack' /\ Archiving' /\ ArchiveEnds'
  BY <1>2 DEF Creating, Updated, TakenBack, Archiving, ArchiveEnds, NoneOf, Here, There, Entry, leaf,
     document, Mine
<1>4. cmd.at \notin {"receipted", "cas staged", "proofed", "release staged"}
  BY <1>2 DEF Unlinking
<1>5. Updating' /\ Releasing'
  BY <1>4 DEF Updating, Releasing
<1>6. Reclaiming'
  BY <1>2 DEF Reclaiming, Complete, Whole, Here, There, Entry, leaf, document, Mine
<1>7. Unlinking'
  BY <1>2 DEF Unlinking, Mine, Visible
<1>. QED
  BY <1>1, <1>3, <1>5, <1>6, <1>7 DEF LInv, Knows

\* One file is taken away, or the ledger of an archived leaf.
LEMMA UnlinkTakesKeeps ==
  ASSUME Assumptions, LInv, cmd # Idle, cmd.todo # <<>>,
         ledger' = IF Doomed.kind = "ledger" THEN [ledger EXCEPT ![Doomed.name] = None] ELSE ledger,
         files' = files \ {Doomed}, torn' = torn \ {Doomed}, UNCHANGED <<cmd, proven>>,
         bin' \in Bins, bin'.phase \notin {"none", "torn"}
  PROVE  LInv'
<1>1. /\ Types /\ Files /\ cmd \in Command /\ leaf \in Names /\ document \in Docs
      /\ leaf' = leaf /\ document' = document
      /\ cmd.at \in {"done", "refused", "ledger member", "publish", "rename", "published"}
  BY Commanded DEF LInv, Knows, Unlinking, leaf, document
<1>2. /\ Creating /\ Updating /\ Updated /\ TakenBack /\ Releasing
      /\ Archiving /\ ArchiveEnds /\ Reclaiming /\ Unlinking
  BY DEF LInv, Knows
<1>3. \A k, n, d : Entry(k, n, d) \in files' => There(k, n, d)
  BY DEF There
<1>4. ~(Doomed.kind \in Kinds /\ Doomed.kind = "ledger")
  BY DEF Kinds
<1>5. CASE LedgerMember
  <2>1. Doomed.kind = "ledger" /\ Doomed.name = leaf
    BY <1>5 DEF LedgerMember, Mine, File, leaf
  <2>2. Doomed \notin files /\ Doomed \notin torn
    BY <1>1, <1>4, <2>1, FileForm DEF Types
  <2>3. UNCHANGED <<files, torn>> /\ ledger' = [ledger EXCEPT ![leaf] = None]
    BY <2>1, <2>2
  <2>4. Files'
    BY <1>1, <1>5, <2>3, LedgerGoes DEF LedgerMember
  <2>5. Types'
    BY <1>1, <2>3 DEF Types, Bins, NoBin
  <2>6. Creating' /\ Updating' /\ Updated' /\ TakenBack' /\ Releasing' /\ Archiving' /\ Reclaiming'
    <3>1. cmd'.at = "done" /\ cmd'.req.op = "archive"
      BY <1>5 DEF LedgerMember
    <3>. QED  BY <3>1 DEF Creating, Updating, Updated, TakenBack, Releasing, Archiving, Reclaiming
  <2>7. ArchiveEnds'
    <3>1. \/ cmd.todo = <<Mine("ledger"), Mine("archive stage")>> \/ cmd.todo = <<Mine("ledger")>>
          \/ cmd.todo = <<Mine("archive stage")>> /\ ledger'[leaf] = None
      BY <1>1, <1>2, <1>5, <2>3 DEF ArchiveEnds, LedgerMember, Types
    <3>2. Mine("ledger")' = Mine("ledger") /\ Mine("archive stage")' = Mine("archive stage")
      BY DEF Mine
    <3>3. Here("archive") /\ NoneOf("release")
      BY <1>5 DEF LedgerMember
    <3>. QED  BY <1>1, <2>3, <3>1, <3>2, <3>3 DEF ArchiveEnds, NoneOf, Here, There
  <2>8. ~Visible(Doomed)'
    BY <1>1, <2>1, <2>3 DEF Visible, Doomed, Types
  <2>9. Unlinking'
    BY <1>2, <2>8 DEF Unlinking, Mine, Doomed
  <2>. QED  BY <2>4, <2>5, <2>6, <2>7, <2>9 DEF LInv, Knows
<1>6. CASE /\ Doomed.kind \in Kinds /\ Doomed.name \in Names /\ Doomed.doc \in Docs
           /\ Doomed = Entry(Doomed.kind, Doomed.name, Doomed.doc)
           /\ Removable(Doomed.kind, Doomed.name, Doomed.doc)
  <2>1. ledger' = ledger
    BY <1>4, <1>6
  <2>2. ASSUME NEW k, NEW n, NEW d
        PROVE  Entry(k, n, d) = Doomed <=> k = Doomed.kind /\ n = Doomed.name /\ d = Doomed.doc
    BY <1>6 DEF Entry
  <2>3. Drops(Doomed.kind, Doomed.name, Doomed.doc)
    BY <2>2 DEF Drops, There
  <2>4. Files'
    <3>1. torn' = torn \ {Entry(Doomed.kind, Doomed.name, Doomed.doc)}
      BY <1>6
    <3>. QED  BY <1>1, <1>6, <2>1, <2>3, <3>1, DropsFiles
  <2>5. Types'
    BY <1>1, <2>1 DEF Types, Bins, NoBin
  <2>6. Creating'
    <3>1. cmd'.at # "staged"
      BY <1>1
    <3>. QED  BY <1>1, <1>2, <1>3, <3>1 DEF Creating, NoneOf, There
  <2>7. Updating' /\ Releasing'
    BY <1>1 DEF Updating, Releasing
  <2>8. Updated' /\ TakenBack'
    <3>1. \A k : Entry(k, leaf, document) \in files' => Here(k)
      BY <1>3 DEF Here
    <3>2. \A k : Mine(k)' = Mine(k)
      BY DEF Mine
    <3>. QED  BY <1>1, <1>2, <2>1, <3>1, <3>2 DEF Updated, TakenBack, Here, There
  <2>9. Archiving'
    <3>. SUFFICES ASSUME cmd.at = "ledger member" PROVE Archiving'
      BY <1>1 DEF Archiving
    <3>1. /\ cmd.req.op = "archive" /\ Here("archive") /\ cmd.todo = <<Mine("release")>>
          /\ \A d \in Docs : There("release", leaf, d) => d = document
      BY <1>2 DEF Archiving
    <3>2. Doomed.kind = "release"
      <4>1. Doomed = Mine("release")
        BY <3>1, Lists DEF Doomed
      <4>. QED  BY <4>1 DEF Mine, File
    <3>3. Entry("archive", leaf, document) \in files'
      BY <2>3, <3>1, <3>2 DEF Drops, Here
    <3>4. \A d \in Docs : Entry("release", leaf, d) \in files' => d = document
      BY <1>3, <3>1
    <3>5. Mine("release")' = Mine("release")
      BY DEF Mine
    <3>. QED  BY <1>1, <3>1, <3>3, <3>4, <3>5 DEF Archiving, Here, There
  <2>10. ArchiveEnds'
    <3>. SUFFICES ASSUME cmd.at = "done", cmd.req.op = "archive" PROVE ArchiveEnds'
      BY DEF ArchiveEnds
    <3>1. cmd.todo = <<Mine("archive stage")>> /\ ledger[leaf] = None
      <4>1. Doomed # Mine("ledger")
        BY <1>4, <1>6 DEF Mine, File
      <4>2. cmd.todo # <<Mine("ledger"), Mine("archive stage")>> /\ cmd.todo # <<Mine("ledger")>>
        BY <4>1, Lists DEF Doomed
      <4>. QED  BY <1>2, <4>2 DEF ArchiveEnds
    <3>2. Mine("archive stage")' = Mine("archive stage")
      BY DEF Mine
    <3>. QED  BY <1>1, <2>1, <3>1, <3>2 DEF ArchiveEnds
  <2>11. Reclaiming'
    <3>1. cmd'.at \notin {"prepared", "swap"}
      BY <1>1
    <3>2. \A k : Mine(k)' = Mine(k)
      BY DEF Mine
    <3>3. \A d : Entry("archive", leaf, d) \in files' => There("archive", leaf, d)
      BY <1>3
    <3>4. ASSUME cmd.at = "rename"
          PROVE  /\ Entry("complete stage", leaf, document) \in files'
                 /\ Entry("complete stage", leaf, document) \notin torn'
      <4>1. There("complete stage", leaf, document) /\ Entry("complete stage", leaf, document) \notin torn
        BY <1>2, <3>4 DEF Reclaiming, Complete, Whole
      <4>2. Doomed.kind = "complete"
        BY <1>2, <3>4 DEF Reclaiming, Doomed
      <4>. QED  BY <2>3, <4>1, <4>2 DEF Drops
    <3>5. \A n, d : Entry("complete", n, d) \in files' => There("complete", n, d)
      BY <1>3
    <3>. QED  BY <1>1, <1>2, <2>1, <3>1, <3>2, <3>3, <3>4, <3>5 DEF Reclaiming, Complete, Whole, Here, There
  <2>12. ~Visible(Doomed)'
    BY <1>4, <1>6 DEF Visible, Doomed
  <2>13. Unlinking'
    BY <1>2, <2>12 DEF Unlinking, Mine, Doomed
  <2>. QED  BY <2>4, <2>5, <2>6, <2>7, <2>8, <2>9, <2>10, <2>11, <2>13 DEF LInv, Knows
<1>. QED
  BY <1>5, <1>6, Unlinked

\* The quarantine is empty again, and the command goes on with the rest of its list.
LEMMA UnlinkEndsKeeps ==
  ASSUME Assumptions, LInv, cmd # Idle, cmd.todo # <<>>, ~Visible(Doomed),
         cmd' = [cmd EXCEPT !.todo = Tail(cmd.todo)], bin' = NoBin, UNCHANGED <<ledger, files, torn, world>>
  PROVE  LInv'
<1>. DEFINE todo == Tail(cmd.todo)
<1>1. /\ Types /\ Files /\ cmd \in Command /\ cmd.todo \in Seq(Unlinkable)
      /\ leaf \in Names /\ document \in Docs /\ cmd.req.op \in Operations
      /\ cmd.at \in {"done", "refused", "ledger member", "publish", "rename", "published"}
  BY Commanded, Request DEF LInv, Knows, Unlinking
<1>2. /\ Creating /\ Updating /\ Updated /\ TakenBack /\ Releasing
      /\ Archiving /\ ArchiveEnds /\ Reclaiming /\ Unlinking
  BY DEF LInv, Knows
<1>3. todo \in Seq(Unlinkable)
  BY <1>1, FirstAndRest
<1>4. Moved(cmd.at, todo)
  BY <1>1, <1>3 DEF Moved, Command
<1>. HIDE DEF todo
<1>5. /\ cmd'.at = cmd.at /\ cmd'.todo = todo /\ cmd'.req.op = cmd.req.op
      /\ leaf' = leaf /\ document' = document /\ \A kind : Mine(kind)' = Mine(kind)
  BY <1>1, <1>4, SameRequest
<1>6. Types' /\ Files'
  BY <1>1, <1>4, SameRoot DEF Types, Moved, Bins, NoBin, world
<1>7. Settled(cmd.at, todo)
  BY <1>4, <1>6 DEF Settled, NoBin
<1>8. Creating'
  BY <1>1, <1>2, <1>5 DEF Creating, NoneOf, There
<1>9. \A kind \in Kinds : Doomed = Mine(kind) => ~Here(kind)
  <2>1. \A kind \in Kinds : Mine(kind).kind = kind /\ kind # "ledger"
    BY DEF Mine, File, Kinds
  <2>. QED  BY <1>1, <2>1, Commanded DEF Visible
<1>10. CASE cmd.at = "done" /\ cmd.req.op \in {"create", "release", "reclaim"}
  <2>1. PICK kind : cmd.todo = <<Mine(kind)>>
    BY <1>1, <1>2, <1>10 DEF Unlinking, Reclaiming
  <2>2. todo = <<>>
    BY <2>1, Lists DEF todo
  <2>. QED  BY <1>1, <1>7, <1>8, <1>10, <2>2, Ends
<1>11. CASE cmd.at = "done" /\ cmd.req.op = "cas"
  <2>1. /\ ledger[leaf] = document /\ ~Here("stage")
        /\ \/ cmd.todo = <<Mine("receipt"), Mine("proof")>>
           \/ cmd.todo = <<Mine("proof")>> /\ ~Here("receipt")
    BY <1>2, <1>11 DEF Updated
  <2>2. CASE cmd.todo = <<Mine("receipt"), Mine("proof")>>
    <3>1. todo = <<Mine("proof")>> /\ Doomed = Mine("receipt")
      BY <2>2, Lists DEF todo, Doomed
    <3>2. ~Here("receipt")
      BY <1>9, <3>1 DEF Kinds
    <3>3. Entry("receipt", leaf, document) \notin files' /\ Entry("stage", leaf, document) \notin files'
      BY <2>1, <3>2 DEF Here, There
    <3>4. Updated'
      BY <1>5, <2>1, <3>1, <3>3 DEF Updated, Here, There
    <3>. QED  BY <1>1, <1>7, <1>8, <1>11, <3>4, Ends
  <2>3. CASE cmd.todo = <<Mine("proof")>>
    <3>1. todo = <<>>
      BY <2>3, Lists DEF todo
    <3>. QED  BY <1>1, <1>7, <1>8, <1>11, <3>1, Ends
  <2>. QED  BY <2>1, <2>2, <2>3
<1>12. CASE cmd.at = "done" /\ cmd.req.op = "archive"
  <2>1. CASE cmd.todo = <<Mine("ledger"), Mine("archive stage")>>
    <3>1. todo = <<Mine("archive stage")>> /\ Doomed = Mine("ledger")
      BY <2>1, Lists DEF todo, Doomed
    <3>2. ledger'[leaf] = None
      BY <3>1 DEF Visible, Mine, File, leaf
    <3>3. Mine("archive stage")' = Mine("archive stage")
      BY <1>5
    <3>4. ArchiveEnds'
      BY <1>5, <3>1, <3>2, <3>3 DEF ArchiveEnds
    <3>. QED  BY <1>1, <1>7, <1>8, <1>12, <3>4, Ends
  <2>2. CASE \E a : cmd.todo = <<a>>
    <3>1. todo = <<>>
      BY <2>2, Lists DEF todo
    <3>. QED  BY <1>1, <1>7, <1>8, <1>12, <3>1, Ends
  <2>. QED  BY <1>2, <1>12, <2>1, <2>2 DEF ArchiveEnds
<1>13. CASE cmd.at = "refused"
  <2>1. /\ ledger[leaf] = Front(document)
        /\ \/ cmd.todo = <<Mine("proof"), Mine("stage"), Mine("receipt")>>
           \/ cmd.todo = <<Mine("stage"), Mine("receipt")>> /\ ~Here("proof")
           \/ cmd.todo = <<Mine("receipt")>> /\ ~Here("proof") /\ ~Here("stage")
    BY <1>2, <1>13 DEF TakenBack
  <2>2. ledger'[leaf] = Front(document)
    BY <2>1
  <2>3. CASE cmd.todo = <<Mine("proof"), Mine("stage"), Mine("receipt")>>
    <3>1. todo = <<Mine("stage"), Mine("receipt")>> /\ Doomed = Mine("proof")
      BY <2>3, Lists DEF todo, Doomed
    <3>2. ~Here("proof")
      BY <1>9, <3>1 DEF Kinds
    <3>3. Entry("proof", leaf, document) \notin files'
      BY <3>2 DEF Here, There
    <3>4. TakenBack'
      BY <1>5, <2>2, <3>1, <3>3 DEF TakenBack, Here, There
    <3>. QED  BY <1>1, <1>7, <1>8, <1>13, <3>4, TakesBack
  <2>4. CASE cmd.todo = <<Mine("stage"), Mine("receipt")>> /\ ~Here("proof")
    <3>1. todo = <<Mine("receipt")>> /\ Doomed = Mine("stage")
      BY <2>4, Lists DEF todo, Doomed
    <3>2. ~Here("stage")
      BY <1>9, <3>1 DEF Kinds
    <3>3. Entry("proof", leaf, document) \notin files' /\ Entry("stage", leaf, document) \notin files'
      BY <2>4, <3>2 DEF Here, There
    <3>4. TakenBack'
      BY <1>5, <2>2, <3>1, <3>3 DEF TakenBack, Here, There
    <3>. QED  BY <1>1, <1>7, <1>8, <1>13, <3>4, TakesBack
  <2>5. CASE cmd.todo = <<Mine("receipt")>>
    <3>1. todo = <<>>
      BY <2>5, Lists DEF todo
    <3>2. TakenBack'
      BY <1>5, <3>1 DEF TakenBack
    <3>. QED  BY <1>1, <1>7, <1>8, <1>13, <3>2, TakesBack
  <2>. QED  BY <2>1, <2>3, <2>4, <2>5
<1>14. CASE cmd.at = "ledger member"
  <2>1. /\ cmd.req.op = "archive" /\ Here("archive") /\ cmd.todo = <<Mine("release")>>
        /\ \A d \in Docs : There("release", leaf, d) => d = document
    BY <1>2, <1>14 DEF Archiving
  <2>2. todo = <<>> /\ Doomed = Mine("release")
    BY <2>1, Lists DEF todo, Doomed
  <2>3. ~Here("release")
    BY <1>9, <2>2 DEF Kinds
  <2>4. \A d \in Docs : Entry("release", leaf, d) \notin files'
    BY <2>1, <2>3 DEF Here, There
  <2>5. Entry("archive", leaf, document) \in files'
    BY <2>1 DEF Here, There
  <2>6. Archiving'
    BY <1>5, <1>14, <2>1, <2>2, <2>4, <2>5 DEF Archiving, NoneOf, Here, There
  <2>7. Updating' /\ Releasing' /\ Reclaiming'
    BY <1>5, <1>14 DEF Updating, Releasing, Reclaiming
  <2>. QED  BY <1>1, <1>7, <1>8, <1>14, <2>2, <2>6, <2>7, Continues DEF Operations
<1>15. CASE cmd.at \in {"publish", "published"}
  <2>1. cmd.req.op = "reclaim" /\ \E a : cmd.todo = <<a>>
    BY <1>2, <1>15 DEF Reclaiming
  <2>2. todo = <<>>
    BY <2>1, Lists DEF todo
  <2>3. Reclaiming'
    BY <1>5, <1>15, <2>1, <2>2 DEF Reclaiming
  <2>. QED  BY <1>1, <1>7, <1>15, <2>1, <2>3, ReclaimGoesOn
<1>16. CASE cmd.at = "rename"
  <2>1. /\ cmd.req.op = "reclaim" /\ Complete("complete stage")
        /\ cmd.todo = <<Doomed>> /\ Doomed.kind = "complete"
        /\ \A n \in Names, d \in Docs :
             There("complete", n, d) => Doomed = [kind |-> "complete", name |-> n, doc |-> d]
    BY <1>2, <1>16 DEF Reclaiming, Doomed
  <2>2. todo = <<>>
    BY <2>1, Lists DEF todo
  <2>3. Doomed \notin files
    BY <2>1 DEF Visible
  <2>4. \A n \in Names, d \in Docs : Entry("complete", n, d) \notin files'
    BY <2>1, <2>3 DEF There, Entry
  <2>5. /\ Entry("complete stage", leaf, document) \in files'
        /\ Entry("complete stage", leaf, document) \notin torn'
    BY <2>1 DEF Complete, Whole, There
  <2>6. Reclaiming'
    BY <1>5, <1>16, <2>1, <2>2, <2>4, <2>5 DEF Reclaiming, Complete, Whole, There
  <2>. QED  BY <1>1, <1>7, <1>16, <2>1, <2>6, ReclaimGoesOn
<1>. QED
  BY <1>1, <1>10, <1>11, <1>12, <1>13, <1>14, <1>15, <1>16 DEF Operations

LEMMA UnlinkKeeps ==
  ASSUME Assumptions, LInv, Unlink
  PROVE  LInv'
<1>1. /\ cmd # Idle /\ cmd.todo # <<>> /\ UNCHANGED world /\ UNCHANGED proven
      /\ bin \in Bins /\ (bin = NoBin \/ bin.phase # "none")
      /\ bin.phase # "torn"
      /\ bin.phase \in {"moved", "gone", "cleared"} => ~Visible(Doomed)
  BY DEF Unlink, world, LInv, Types, Knows, Unlinking, Doomed
<1>2. Doomed \in Unlinkable
  <2>1. cmd \in Command /\ cmd.todo \in Seq(Unlinkable)
    BY <1>1, Commanded DEF LInv
  <2>. QED  BY <1>1, <2>1, FirstAndRest DEF Doomed
<1>3. CASE bin = NoBin
  <2>1. UNCHANGED <<ledger, files, torn, cmd>> /\ bin' = [phase |-> "made", file |-> Doomed]
    <3>1. bin.phase = "none"
      BY <1>3 DEF NoBin
    <3>. QED  BY <1>3, <3>1 DEF Unlink, Doomed
  <2>2. bin' \in Bins /\ bin'.phase = "made"
    BY <1>2, <2>1 DEF Bins
  <2>. QED  BY <1>1, <2>1, <2>2, UnlinkPreparesKeeps
<1>4. CASE bin # NoBin /\ bin.phase \in {"made", "moved", "gone"}
  <2>1. /\ UNCHANGED <<ledger, files, torn, cmd>>
        /\ bin' = [bin EXCEPT !.phase = CASE bin.phase = "made" -> "noted"
                                          [] bin.phase = "moved" -> "gone"
                                          [] OTHER -> "cleared"]
    BY <1>4 DEF Unlink
  <2>2. /\ bin' \in Bins /\ bin'.phase \in {"noted", "gone", "cleared"}
        /\ bin'.phase \in {"moved", "gone", "cleared"} => bin.phase \in {"moved", "gone", "cleared"}
    BY <1>1, <1>4, <2>1 DEF Bins
  <2>. QED  BY <1>1, <2>1, <2>2, UnlinkPreparesKeeps
<1>5. CASE bin # NoBin /\ bin.phase = "noted"
  <2>1. /\ bin' = [bin EXCEPT !.phase = IF Visible(Doomed) THEN "moved" ELSE "cleared"]
        /\ ledger' = IF Doomed.kind = "ledger" THEN [ledger EXCEPT ![Doomed.name] = None] ELSE ledger
        /\ files' = files \ {Doomed} /\ torn' = torn \ {Doomed} /\ UNCHANGED cmd
    BY <1>5 DEF Unlink, Doomed
  <2>2. bin' \in Bins /\ bin'.phase \in {"moved", "cleared"}
    BY <1>1, <2>1 DEF Bins
  <2>. QED  BY <1>1, <2>1, <2>2, UnlinkTakesKeeps
<1>6. CASE bin # NoBin /\ bin.phase = "cleared"
  <2>1. /\ bin' = NoBin /\ cmd' = [cmd EXCEPT !.todo = Tail(cmd.todo)]
        /\ UNCHANGED <<ledger, files, torn>>
    BY <1>6 DEF Unlink
  <2>. QED  BY <1>1, <1>6, <2>1, UnlinkEndsKeeps
<1>. QED
  BY <1>1, <1>3, <1>4, <1>5, <1>6 DEF Bins

-----------------------------------------------------------------------------
(* Theorems *)

LEMMA StepKeeps ==
  ASSUME Assumptions, "again" \notin Enabled, LInv, [Next]_vars
  PROVE  LInv'
<1>1. CASE UNCHANGED vars
  <2>1. UNCHANGED <<ledger, files, torn, bin, cmd, proven>>
    BY <1>1 DEF vars
  <2>2. Types'
    BY <2>1 DEF LInv, Types
  <2>3. Knows'
    BY <2>1, SameKnows DEF LInv
  <2>. QED  BY <2>1, <2>2, <2>3, SameRoot DEF LInv
<1>2. CASE RecoverUnlink \/ Inventory \/ Unlink \/ Return
  BY <1>2, RecoverKeeps, InventoryKeeps, UnlinkKeeps, EndKeeps
<1>3. CASE CreateChecks \/ CreateInstalls
  BY <1>3, CreateChecksKeeps, CreateInstallsKeeps
<1>4. CASE CasChecks \/ CasStages \/ CasProves \/ CasCommits
  BY <1>4, CasChecksKeeps, CasStagesKeeps, CasProvesKeeps, CasCommitsKeeps
<1>5. CASE ReleaseChecks \/ ReleaseInstalls
  BY <1>5, ReleaseChecksKeeps, ReleaseInstallsKeeps
<1>6. CASE \/ ArchiveChecks \/ ArchiveInstalls \/ ArchiveRechecks
           \/ ArchiveRemovesMarker \/ ArchiveRemovesLedger
  BY <1>6, ArchiveChecksKeeps, ArchiveInstallsKeeps, ArchiveRechecksKeeps, ArchiveRemovesMarkerKeeps,
     ArchiveRemovesLedgerKeeps
<1>7. CASE \/ ReclaimChecks \/ ReclaimRemoves \/ ReclaimStages
           \/ ReclaimSwaps \/ ReclaimRenames \/ ReclaimEnds
  BY <1>7, ReclaimChecksKeeps, ReclaimRemovesKeeps, ReclaimStagesKeeps, ReclaimSwapsKeeps,
     ReclaimRenamesKeeps, ReclaimEndsKeeps
<1>8. CASE \E r \in Requests : Begin(r)
  BY <1>8, BeginKeeps
<1>9. CASE Crash \/ CrashWriting
  BY <1>9, EndKeeps, CrashWritingKeeps
<1>10. CASE \E n \in Names : Drift(n)
  BY <1>10, DriftKeeps
<1>. QED
  BY <1>1, <1>2, <1>3, <1>4, <1>5, <1>6, <1>7, <1>8, <1>9, <1>10 DEF Next, Step

\* What the files of the root say of each other, and what a running command knows of them,
\* after every step, kill and drift (_ledger_inventory and the commands that call it).
THEOREM Invariance ==
  ASSUME Assumptions, "again" \notin Enabled
  PROVE  Spec => []LInv
<1>1. Init => LInv
  BY Starts
<1>2. LInv /\ [Next]_vars => LInv'
  BY StepKeeps
<1>. QED
  BY <1>1, <1>2, PTL DEF Spec

LEMMA OneStanding ==
  ASSUME Types, OneCompleted
  PROVE  Cardinality(Completed) <= 1
<1>1. \A f, g \in Completed : f = g
  BY FileForm DEF Completed, OneCompleted
<1>2. CASE Completed = {}
  BY <1>2, FS_EmptySet
<1>3. CASE Completed # {}
  <2>1. PICK f : Completed = {f}
    BY <1>1, <1>3
  <2>2. Cardinality({f}) = 1
    BY FS_Singleton
  <2>. QED  BY <2>1, <2>2
<1>. QED
  BY <1>2, <1>3

\* The state is what the helper can leave.
THEOREM TypeCorrect ==
  ASSUME Assumptions, "again" \notin Enabled
  PROVE  Spec => []TypeOK
<1>1. ASSUME LInv PROVE TypeOK
  <2>1. Types /\ OneCompleted
    BY <1>1 DEF LInv, Files
  <2>2. Cardinality(Completed) <= 1
    BY <2>1, OneStanding
  <2>3. \A f \in files : f.name \in Names /\ f.doc \in Docs
    BY <2>1, FileForm
  <2>4. cmd # Idle => cmd.at \in Stations /\ cmd.req \in Requests
    BY <2>1 DEF Types, Command
  <2>5. bin.phase \in {"none", "made", "torn", "noted", "moved", "gone", "cleared"}
    BY <2>1 DEF Types, Bins
  <2>. QED  BY <2>1, <2>2, <2>3, <2>4, <2>5 DEF Types, TypeOK
<1>. QED
  BY <1>1, Invariance, PTL

\* No coordinate is claimed by two ledgers without a marker (_overlap, which every command
\* asks before it installs a document).
THEOREM ClaimsApart ==
  ASSUME Assumptions, "again" \notin Enabled
  PROVE  Spec => []NoDoubleClaim
<1>1. ASSUME LInv PROVE NoDoubleClaim
  <2>. SUFFICES ASSUME NEW m \in Names, NEW n \in Names, m # n, ledger[m] # None, ledger[n] # None,
                       {m, n} \cap {s.name : s \in Marked} = {}
                PROVE  Claims(ledger[m]) \cap Claims(ledger[n]) = {}
    BY DEF NoDoubleClaim
  <2>1. Types /\ Apart /\ ledger[m] \in Docs /\ ledger[n] \in Docs
    BY <1>1 DEF LInv, Files, Types
  <2>2. ASSUME NEW k \in {m, n}, NEW d \in Docs, There("release", k, d) \/ There("archive", k, d)
        PROVE  FALSE
    <3>1. Snapshot(k, d) \in Marked /\ Snapshot(k, d).name = k
      BY <2>2 DEF Marked, Snapshot, There, Entry
    <3>. QED  BY <3>1
  <2>3. Claiming(m, ledger[m]) /\ Claiming(n, ledger[n])
    BY <2>1, <2>2 DEF Claiming, Holds
  <2>4. Clear(ledger[m], ledger[n])
    BY <2>1, <2>3 DEF Apart
  <2>. QED  BY <2>4 DEF Clear
<1>. QED
  BY <1>1, Invariance, PTL

\* The same of every ledger whose own document is not released or archived.
THEOREM OwnersApart ==
  ASSUME Assumptions, "again" \notin Enabled
  PROVE  Spec => []ActiveOwnsAlone
<1>1. ASSUME LInv PROVE ActiveOwnsAlone
  <2>. SUFFICES ASSUME NEW m \in Names, NEW n \in Names, m # n, Owned(m), Owned(n)
                PROVE  Claims(ledger[m]) \cap Claims(ledger[n]) = {}
    BY DEF ActiveOwnsAlone
  <2>1. Types /\ Apart
    BY <1>1 DEF LInv, Files
  <2>2. ASSUME NEW k \in Names, Owned(k)
        PROVE  ledger[k] \in Docs /\ Claiming(k, ledger[k])
    BY <2>1, <2>2, Retirement DEF Owned, Claiming, Holds, Types
  <2>3. Clear(ledger[m], ledger[n])
    BY <2>1, <2>2 DEF Apart
  <2>. QED  BY <2>3 DEF Clear
<1>. QED
  BY <1>1, Invariance, PTL

-----------------------------------------------------------------------------
(* The inventory after a kill *)

\* Where a kill leaves halves only of what the next command completes (_ensure_stage with a
\* prefix found), the inventory accepts what any kill leaves, at any step.
HalvesAreStages == bin.phase # "torn" /\ NoHalves

LEMMA HalvesStay ==
  ASSUME LInv, Torn \subseteq {"stage"}, HalvesAreStages, [Next]_vars
  PROVE  HalvesAreStages'
<1>1. ASSUME torn' \subseteq torn, bin'.phase # "torn"
      PROVE  HalvesAreStages'
  BY <1>1 DEF HalvesAreStages, NoHalves
<1>2. CASE UNCHANGED <<torn, bin>>
  BY <1>1, <1>2 DEF HalvesAreStages
<1>3. ASSUME NEW kind, NEW station, Write(kind, station)
      PROVE  HalvesAreStages'
  BY <1>1, <1>3 DEF HalvesAreStages, Write
<1>4. CASE RecoverUnlink
  <2>1. torn' = torn /\ bin'.phase # "torn"
    BY <1>4 DEF RecoverUnlink, HalvesAreStages, NoBin, LInv, Types, Bins
  <2>. QED  BY <1>1, <2>1
<1>5. CASE Unlink
  <2>1. torn' \subseteq torn
    BY <1>5 DEF Unlink
  <2>2. bin'.phase # "torn"
    BY <1>5 DEF Unlink, HalvesAreStages, NoBin, LInv, Types, Bins
  <2>. QED  BY <1>1, <2>1, <2>2
<1>6. CASE CrashWriting
  <2>1. /\ cmd.at \in DOMAIN WrittenAt /\ WrittenKind(cmd.at) = "stage"
        /\ torn' = torn \cup {Mine(WrittenAt[cmd.at])} /\ bin' = bin
    BY <1>6 DEF CrashWriting
  <2>2. WrittenAt[cmd.at] \in Resumed
    BY <2>1 DEF WrittenKind
  <2>3. Mine(WrittenAt[cmd.at]).kind = WrittenAt[cmd.at]
    BY DEF Mine, File
  <2>. QED  BY <2>1, <2>2, <2>3 DEF HalvesAreStages, NoHalves
<1>7. CASE CreateChecks \/ CasChecks \/ CasStages \/ ReleaseChecks \/ ArchiveChecks \/ ReclaimChecks \/ ReclaimStages
  BY <1>2, <1>3, <1>7 DEF CreateChecks, CasChecks, CasStages, ReleaseChecks, ArchiveChecks, ReclaimChecks,
     ReclaimStages, CasRetries, Refuse, disk
<1>8. CASE \/ UNCHANGED vars \/ Inventory \/ Return \/ Crash \/ (\E r \in Requests : Begin(r))
           \/ (\E n \in Names : Drift(n))
  BY <1>2, <1>8 DEF vars, Inventory, Return, Crash, Begin, Drift, disk
<1>9. CASE CreateInstalls \/ CasProves \/ CasCommits \/ ReleaseInstalls
  BY <1>2, <1>9 DEF CreateInstalls, CasProves, CasCommits, ReleaseInstalls, Link, Refuse, disk
<1>10. CASE ArchiveInstalls \/ ArchiveRechecks \/ ArchiveRemovesMarker \/ ArchiveRemovesLedger
  BY <1>2, <1>10 DEF ArchiveInstalls, ArchiveRechecks, ArchiveRemovesMarker, ArchiveRemovesLedger, Link,
     Refuse, disk
<1>11. CASE ReclaimRemoves \/ ReclaimSwaps \/ ReclaimRenames \/ ReclaimEnds
  BY <1>2, <1>11 DEF ReclaimRemoves, ReclaimSwaps, ReclaimRenames, ReclaimEnds, disk
<1>. QED
  BY <1>4, <1>5, <1>6, <1>7, <1>8, <1>9, <1>10, <1>11 DEF Next, Step

\* Whenever the helper may be called, the inventory accepts the root.
THEOREM AlwaysReadable ==
  ASSUME Assumptions, "again" \notin Enabled, Torn \subseteq {"stage"}
  PROVE  Spec => []RootReadable
<1>1. Init => HalvesAreStages
  BY DEF Init, HalvesAreStages, NoHalves, NoBin
<1>2. LInv /\ HalvesAreStages /\ [Next]_vars => HalvesAreStages'
  BY HalvesStay
<1>3. ASSUME LInv, HalvesAreStages PROVE RootReadable
  BY <1>3, Agrees DEF LInv, HalvesAreStages, RootReadable, Readable
<1>. QED
  BY <1>1, <1>2, <1>3, Invariance, PTL DEF Spec

-----------------------------------------------------------------------------
(* The root implements the store *)

\* The record of a leaf, as a function of the ledgers and the files.
ArchivedIn(fs, n) == {f.doc : f \in {g \in fs : g.kind = "archive" /\ g.name = n}}
ReleasedIn(fs, n) == {f.doc : f \in {g \in fs : g.kind = "release" /\ g.name = n}}
RecordIn(l, fs, n) ==
  IF ArchivedIn(fs, n) # {} THEN [is |-> "archived", doc |-> CHOOSE doc \in ArchivedIn(fs, n) : TRUE]
  ELSE IF l[n] = None THEN [is |-> "absent", doc |-> None]
  ELSE [is |-> IF ReleasedIn(fs, n) # {} THEN "released" ELSE "active", doc |-> l[n]]

LEMMA RecordsAre ==
  ASSUME NEW n
  PROVE  Record(n) = RecordIn(ledger, files, n) /\ Record(n)' = RecordIn(ledger', files', n)
BY DEF Record, RecordIn, Archived, Released, ArchivedIn, ReleasedIn

LEMMA RetirementIn ==
  ASSUME NEW fs \in SUBSET Managed, NEW n \in Names
  PROVE  /\ ArchivedIn(fs, n) = {d \in Docs : Entry("archive", n, d) \in fs}
         /\ ReleasedIn(fs, n) = {d \in Docs : Entry("release", n, d) \in fs}
<1>1. ASSUME NEW f \in fs
      PROVE  f.doc \in Docs /\ f = Entry(f.kind, f.name, f.doc)
  BY DEF Managed, Entry
<1>2. ASSUME NEW kind, NEW d
      PROVE  d \in {f.doc : f \in {g \in fs : g.kind = kind /\ g.name = n}}
               <=> d \in Docs /\ Entry(kind, n, d) \in fs
  <2>1. ASSUME d \in {f.doc : f \in {g \in fs : g.kind = kind /\ g.name = n}}
        PROVE  d \in Docs /\ Entry(kind, n, d) \in fs
    BY <1>1, <2>1
  <2>2. ASSUME Entry(kind, n, d) \in fs
        PROVE  d \in {f.doc : f \in {g \in fs : g.kind = kind /\ g.name = n}}
    BY <2>2 DEF Entry
  <2>. QED  BY <2>1, <2>2
<1>3. \A d : d \in ArchivedIn(fs, n) <=> d \in {e \in Docs : Entry("archive", n, e) \in fs}
  BY <1>2 DEF ArchivedIn
<1>4. \A d : d \in ReleasedIn(fs, n) <=> d \in {e \in Docs : Entry("release", n, e) \in fs}
  BY <1>2 DEF ReleasedIn
<1>. QED
  BY <1>3, <1>4

LEMMA RecordIs ==
  ASSUME NEW l, NEW fs \in SUBSET Managed, NEW n \in Names
  PROVE  /\ \A d \in Docs :
              /\ Entry("archive", n, d) \in fs
              /\ \A c \in Docs : Entry("archive", n, c) \in fs => c = d
              => RecordIn(l, fs, n) = [is |-> "archived", doc |-> d]
         /\ (\A d \in Docs : Entry("archive", n, d) \notin fs) =>
              /\ l[n] = None => RecordIn(l, fs, n) = [is |-> "absent", doc |-> None]
              /\ l[n] # None =>
                   RecordIn(l, fs, n) = [is |-> IF \E d \in Docs : Entry("release", n, d) \in fs
                                                THEN "released" ELSE "active",
                                         doc |-> l[n]]
<1>1. ASSUME NEW d \in Docs, Entry("archive", n, d) \in fs,
             \A c \in Docs : Entry("archive", n, c) \in fs => c = d
      PROVE  RecordIn(l, fs, n) = [is |-> "archived", doc |-> d]
  <2>1. ArchivedIn(fs, n) = {d}
    <3>1. ArchivedIn(fs, n) = {c \in Docs : Entry("archive", n, c) \in fs}
      BY RetirementIn
    <3>. QED  BY <1>1, <3>1
  <2>2. (CHOOSE doc \in ArchivedIn(fs, n) : TRUE) = d
    BY <2>1
  <2>. QED  BY <2>1, <2>2 DEF RecordIn
<1>2. ASSUME \A d \in Docs : Entry("archive", n, d) \notin fs
      PROVE  /\ l[n] = None => RecordIn(l, fs, n) = [is |-> "absent", doc |-> None]
             /\ l[n] # None =>
                  RecordIn(l, fs, n) = [is |-> IF \E d \in Docs : Entry("release", n, d) \in fs
                                               THEN "released" ELSE "active",
                                        doc |-> l[n]]
  <2>1. ArchivedIn(fs, n) = {}
    BY <1>2, RetirementIn
  <2>2. ReleasedIn(fs, n) # {} <=> \E d \in Docs : Entry("release", n, d) \in fs
    BY RetirementIn
  <2>. QED  BY <2>1, <2>2 DEF RecordIn
<1>. QED
  BY <1>1, <1>2

\* The record of a leaf stays while its archive stays, and while its ledger and its marker do.
LEMMA RecordStays ==
  ASSUME Types, Types', NEW n \in Names,
         \A d \in Docs : Entry("archive", n, d) \in files' <=> There("archive", n, d),
         \/ \E d \in Docs : There("archive", n, d)
         \/ /\ ledger'[n] = ledger[n]
            /\ \A d \in Docs : Entry("release", n, d) \in files' <=> There("release", n, d)
  PROVE  Record(n)' = Record(n)
<1>1. files \in SUBSET Managed /\ files' \in SUBSET Managed
  BY DEF Types
<1>2. ArchivedIn(files', n) = ArchivedIn(files, n)
  <2>1. ArchivedIn(files, n) = {d \in Docs : Entry("archive", n, d) \in files}
    BY <1>1, RetirementIn
  <2>2. ArchivedIn(files', n) = {d \in Docs : Entry("archive", n, d) \in files'}
    BY <1>1, RetirementIn
  <2>. QED  BY <2>1, <2>2 DEF There
<1>3. CASE \E d \in Docs : There("archive", n, d)
  <2>1. ArchivedIn(files, n) # {}
    BY <1>1, <1>3, RetirementIn DEF There
  <2>2. RecordIn(ledger, files, n) = RecordIn(ledger', files', n)
    BY <1>2, <2>1 DEF RecordIn
  <2>. QED  BY <2>2, RecordsAre
<1>4. CASE /\ ledger'[n] = ledger[n]
           /\ \A d \in Docs : Entry("release", n, d) \in files' <=> There("release", n, d)
  <2>1. ReleasedIn(files', n) = ReleasedIn(files, n)
    <3>1. ReleasedIn(files, n) = {d \in Docs : Entry("release", n, d) \in files}
      BY <1>1, RetirementIn
    <3>2. ReleasedIn(files', n) = {d \in Docs : Entry("release", n, d) \in files'}
      BY <1>1, RetirementIn
    <3>. QED  BY <1>4, <3>1, <3>2 DEF There
  <2>2. RecordIn(ledger, files, n) = RecordIn(ledger', files', n)
    BY <1>2, <1>4, <2>1 DEF RecordIn
  <2>. QED  BY <2>2, RecordsAre
<1>. QED
  BY <1>3, <1>4

\* What of a leaf is there before and after a step that operates on it.
Unarchived(n) == \A d \in Docs : ~There("archive", n, d)
Unmarked(n) == \A d \in Docs : ~There("release", n, d)

LEMMA RecordOf ==
  ASSUME Types, Files, NEW n \in Names
  PROVE  /\ \A d \in Docs : There("archive", n, d) => Record(n) = [is |-> "archived", doc |-> d]
         /\ Unarchived(n) /\ ledger[n] = None => Record(n) = [is |-> "absent", doc |-> None]
         /\ Unarchived(n) /\ ledger[n] # None =>
              Record(n) = [is |-> IF Unmarked(n) THEN "active" ELSE "released", doc |-> ledger[n]]
<1>1. files \in SUBSET Managed /\ Record(n) = RecordIn(ledger, files, n)
  BY RecordsAre DEF Types
<1>2. ASSUME NEW d \in Docs, There("archive", n, d)
      PROVE  Record(n) = [is |-> "archived", doc |-> d]
  <2>1. \A c \in Docs : Entry("archive", n, c) \in files => c = d
    BY <1>2 DEF Files, OneArchive, There
  <2>2. Entry("archive", n, d) \in files
    BY <1>2 DEF There
  <2>3. files \in SUBSET Managed
    BY <1>1
  <2>4. RecordIn(ledger, files, n) = [is |-> "archived", doc |-> d]
    BY <2>1, <2>2, <2>3, RecordIs
  <2>. QED  BY <1>1, <2>4
<1>3. ASSUME Unarchived(n)
      PROVE  /\ ledger[n] = None => Record(n) = [is |-> "absent", doc |-> None]
             /\ ledger[n] # None =>
                  Record(n) = [is |-> IF Unmarked(n) THEN "active" ELSE "released", doc |-> ledger[n]]
  <2>1. \A d \in Docs : Entry("archive", n, d) \notin files
    BY <1>3 DEF Unarchived, There
  <2>2. Unmarked(n) <=> ~\E d \in Docs : Entry("release", n, d) \in files
    BY DEF Unmarked, There
  <2>3. /\ ledger[n] = None => RecordIn(ledger, files, n) = [is |-> "absent", doc |-> None]
        /\ ledger[n] # None =>
             RecordIn(ledger, files, n) = [is |-> IF \E d \in Docs : Entry("release", n, d) \in files
                                                  THEN "released" ELSE "active",
                                           doc |-> ledger[n]]
    BY <1>1, <2>1, RecordIs
  <2>. QED  BY <1>1, <2>2, <2>3
<1>. QED
  BY <1>2, <1>3

\* The same of the next state.
LEMMA NextRecord ==
  ASSUME Types', NEW n \in Names
  PROVE  /\ \A d \in Docs :
              /\ Entry("archive", n, d) \in files'
              /\ \A c \in Docs : Entry("archive", n, c) \in files' => c = d
              => Record(n)' = [is |-> "archived", doc |-> d]
         /\ (\A d \in Docs : Entry("archive", n, d) \notin files') =>
              /\ ledger'[n] = None => Record(n)' = [is |-> "absent", doc |-> None]
              /\ ledger'[n] # None =>
                   Record(n)' = [is |-> IF \E d \in Docs : Entry("release", n, d) \in files'
                                        THEN "released" ELSE "active",
                                 doc |-> ledger'[n]]
<1>1. files' \in SUBSET Managed /\ Record(n)' = RecordIn(ledger', files', n)
  BY RecordsAre DEF Types
<1>2. /\ \A d \in Docs :
           /\ Entry("archive", n, d) \in files'
           /\ \A c \in Docs : Entry("archive", n, c) \in files' => c = d
           => RecordIn(ledger', files', n) = [is |-> "archived", doc |-> d]
      /\ (\A d \in Docs : Entry("archive", n, d) \notin files') =>
           /\ ledger'[n] = None => RecordIn(ledger', files', n) = [is |-> "absent", doc |-> None]
           /\ ledger'[n] # None =>
                RecordIn(ledger', files', n) = [is |-> IF \E d \in Docs : Entry("release", n, d) \in files'
                                                      THEN "released" ELSE "active",
                                               doc |-> ledger'[n]]
  BY <1>1, RecordIs
<1>. QED
  BY <1>1, <1>2

Records == [n \in Names |-> Record(n)]

\* Most steps change no ledger, no archive and no marker.
Unseen ==
  /\ ledger' = ledger
  /\ \A n, d : /\ Entry("archive", n, d) \in files' <=> There("archive", n, d)
               /\ Entry("release", n, d) \in files' <=> There("release", n, d)

LEMMA UnseenStays ==
  ASSUME Types, Types', Unseen
  PROVE  Records' = Records
<1>1. ASSUME NEW n \in Names PROVE Record(n)' = Record(n)
  BY RecordStays DEF Unseen
<1>. QED
  BY <1>1 DEF Records

\* A step that touches one leaf changes one record.
LEMMA OneRecord ==
  ASSUME Types, Types', NEW n \in Names, NEW r, Record(n)' = r,
         \A m \in Names \ {n} :
           /\ ledger'[m] = ledger[m]
           /\ \A d \in Docs : /\ Entry("archive", m, d) \in files' <=> There("archive", m, d)
                              /\ Entry("release", m, d) \in files' <=> There("release", m, d)
  PROVE  Records' = [Records EXCEPT ![n] = r]
<1>1. ASSUME NEW m \in Names, m # n PROVE Record(m)' = Record(m)
  <2>1. /\ ledger'[m] = ledger[m]
        /\ \A d \in Docs : Entry("archive", m, d) \in files' <=> There("archive", m, d)
        /\ \A d \in Docs : Entry("release", m, d) \in files' <=> There("release", m, d)
    BY <1>1
  <2>. QED  BY <2>1, RecordStays
<1>2. Records' = [m \in Names |-> Record(m)']
  BY DEF Records
<1>3. ASSUME NEW m \in Names PROVE Record(m)' = IF m = n THEN r ELSE Record(m)
  BY <1>1
<1>. QED
  BY <1>2, <1>3 DEF Records

\* A document that fits is free in the store.
LEMMA FitsIsFree ==
  ASSUME Types, Files, NEW n \in Names, NEW doc \in Docs,
         \A m \in Names, c \in Docs : m # n /\ Claiming(m, c) => Clear(c, doc)
  PROVE  Store!Free(n, doc)
<1>1. SUFFICES ASSUME NEW m \in Names \ {n}, Record(m).is = "active"
               PROVE  Claims(Record(m).doc) \cap Claims(doc) = {}
  BY DEF Store!Free, Store!Claims, Claims
<1>2. m \in Names /\ m # n
  OBVIOUS
<1>3. Unarchived(m)
  <2>. SUFFICES ASSUME NEW d \in Docs, There("archive", m, d) PROVE FALSE
    BY DEF Unarchived
  <2>1. Record(m) = [is |-> "archived", doc |-> d]
    BY RecordOf
  <2>. QED  BY <1>1, <2>1
<1>4. ledger[m] # None
  <2>. SUFFICES ASSUME ledger[m] = None PROVE FALSE
    OBVIOUS
  <2>1. Record(m) = [is |-> "absent", doc |-> None]
    BY <1>3, RecordOf
  <2>. QED  BY <1>1, <2>1
<1>5. Record(m) = [is |-> IF Unmarked(m) THEN "active" ELSE "released", doc |-> ledger[m]]
  BY <1>3, <1>4, RecordOf
<1>6. Unmarked(m) /\ Record(m).doc = ledger[m]
  BY <1>1, <1>5
<1>7. ledger[m] \in Docs
  BY <1>2, <1>4 DEF Types
<1>8. Claiming(m, ledger[m])
  BY <1>3, <1>6, <1>7 DEF Claiming, Holds, Unarchived, Unmarked
<1>9. Clear(ledger[m], doc)
  BY <1>2, <1>7, <1>8
<1>. QED
  BY <1>6, <1>9 DEF Clear

\* What the store allows to become of one record.
LEMMA StoreStep ==
  ASSUME NEW n \in Names, NEW is, NEW doc,
         Records' = [Records EXCEPT ![n] = [is |-> is, doc |-> doc]],
         \/ /\ is = "active" /\ doc \in Docs /\ Store!Free(n, doc)
            /\ \/ Record(n) = [is |-> "absent", doc |-> None] /\ Len(doc) = 1
               \/ Record(n) = [is |-> "active", doc |-> Front(doc)] /\ Front(doc) # doc
         \/ is = "released" /\ Record(n) = [is |-> "active", doc |-> doc]
         \/ is = "archived" /\ Record(n) = [is |-> "released", doc |-> doc]
         \/ is = "absent" /\ doc = None /\ Record(n).is = "archived"
  PROVE  Store!Next
<1>1. Records[n] = Record(n) /\ Records'[n] = [is |-> is, doc |-> doc]
  BY DEF Records
<1>2. Records' # Records
  BY <1>1
<1>3. Store!Become(n, is, doc)
  BY DEF Store!Become, Records
<1>4. CASE is = "active" /\ Record(n) = [is |-> "absent", doc |-> None]
  <2>1. Store!Create(n, doc)
    BY <1>1, <1>3, <1>4 DEF Store!Create, Store!Absent, Store!None, None, Records
  <2>. QED  BY <1>2, <1>4, <2>1 DEF Store!Next, Store!Docs, Docs, Records
<1>5. CASE is = "active" /\ Record(n) = [is |-> "active", doc |-> Front(doc)]
  <2>1. Store!Front(doc) = Front(doc)
    BY DEF Store!Front, Front
  <2>2. Records[n].is = "active" /\ Records[n].doc = Front(doc)
    BY <1>1, <1>5
  <2>3. Store!Free(n, doc) /\ Store!Become(n, "active", doc)
    BY <1>3, <1>5
  <2>4. Store!Update(n, doc)
    BY <2>1, <2>2, <2>3 DEF Store!Update, Records
  <2>. QED  BY <1>2, <1>5, <2>4 DEF Store!Next, Store!Docs, Docs, Records
<1>6. CASE is = "released"
  <2>1. Store!Release(n)
    BY <1>1, <1>3, <1>6 DEF Store!Release, Records
  <2>. QED  BY <1>2, <2>1 DEF Store!Next, Records
<1>7. CASE is = "archived"
  <2>1. Store!Archive(n)
    BY <1>1, <1>3, <1>7 DEF Store!Archive, Records
  <2>. QED  BY <1>2, <2>1 DEF Store!Next, Records
<1>8. CASE is = "absent"
  <2>1. Store!Reclaim(n)
    BY <1>1, <1>3, <1>8 DEF Store!Reclaim, Store!None, None, Records
  <2>. QED  BY <1>2, <2>1 DEF Store!Next, Records
<1>. QED
  BY <1>4, <1>5, <1>6, <1>7, <1>8

\* What happens to the leaf n, as its record sees it.
Elsewhere(n) ==
  \A m \in Names \ {n} :
    /\ ledger'[m] = ledger[m]
    /\ \A d \in Docs : /\ Entry("archive", m, d) \in files' <=> There("archive", m, d)
                       /\ Entry("release", m, d) \in files' <=> There("release", m, d)

LEMMA Created ==
  ASSUME Types, Files, Types', NEW n \in Names, NEW doc \in Docs, doc # None, Len(doc) = 1,
         ledger[n] = None, Unarchived(n), Unmarked(n), Store!Free(n, doc),
         ledger' = [ledger EXCEPT ![n] = doc], files' = files
  PROVE  Store!Next
<1>1. Record(n) = [is |-> "absent", doc |-> None]
  BY RecordOf
<1>2. ledger'[n] = doc /\ (\A d \in Docs : Entry("archive", n, d) \notin files')
      /\ ~\E d \in Docs : Entry("release", n, d) \in files'
  BY DEF Types, Unarchived, Unmarked, There
<1>3. Record(n)' = [is |-> IF \E d \in Docs : Entry("release", n, d) \in files'
                          THEN "released" ELSE "active",
                   doc |-> ledger'[n]]
  BY <1>2, NextRecord
<1>4. Record(n)' = [is |-> "active", doc |-> doc]
  BY <1>2, <1>3
<1>5. Elsewhere(n)
  BY DEF Elsewhere, Types, There
<1>6. Records' = [Records EXCEPT ![n] = [is |-> "active", doc |-> doc]]
  BY <1>4, <1>5, OneRecord DEF Elsewhere
<1>. QED
  BY <1>1, <1>6, StoreStep

LEMMA MovedOn ==
  ASSUME Types, Files, Types', NEW n \in Names, NEW doc \in Docs, doc # None,
         Front(doc) # None, Front(doc) # doc,
         ledger[n] = Front(doc), Unarchived(n), Unmarked(n), Store!Free(n, doc),
         ledger' = [ledger EXCEPT ![n] = doc], files' = files \ {Entry("stage", n, doc)}
  PROVE  Store!Next
<1>1. Record(n) = [is |-> "active", doc |-> Front(doc)]
  BY RecordOf
<1>2. ASSUME NEW m \in Names, NEW d \in Docs
      PROVE  /\ Entry("archive", m, d) \in files' <=> There("archive", m, d)
             /\ Entry("release", m, d) \in files' <=> There("release", m, d)
  BY DEF There, Entry
<1>3. ledger'[n] = doc /\ (\A d \in Docs : Entry("archive", n, d) \notin files')
      /\ ~\E d \in Docs : Entry("release", n, d) \in files'
  BY <1>2 DEF Types, Unarchived, Unmarked
<1>4. Record(n)' = [is |-> IF \E d \in Docs : Entry("release", n, d) \in files'
                          THEN "released" ELSE "active",
                   doc |-> ledger'[n]]
  BY <1>3, NextRecord
<1>5. Record(n)' = [is |-> "active", doc |-> doc]
  BY <1>3, <1>4
<1>6. Elsewhere(n)
  <2>1. \A m \in Names \ {n} : ledger'[m] = ledger[m]
    BY DEF Types
  <2>. QED  BY <1>2, <2>1 DEF Elsewhere
<1>7. Records' = [Records EXCEPT ![n] = [is |-> "active", doc |-> doc]]
  BY <1>5, <1>6, OneRecord DEF Elsewhere
<1>. QED
  BY <1>1, <1>7, StoreStep

LEMMA MarkedNow ==
  ASSUME Types, Files, Types', NEW n \in Names, NEW doc \in Docs, doc # None,
         ledger[n] = doc, Unarchived(n), Unmarked(n),
         ledger' = ledger, files' = files \cup {Entry("release", n, doc)}
  PROVE  Store!Next
<1>1. Record(n) = [is |-> "active", doc |-> doc]
  BY RecordOf
<1>2. \A m \in Names, d \in Docs : Entry("archive", m, d) \in files' <=> There("archive", m, d)
  BY DEF There, Entry
<1>3. ledger'[n] = doc /\ (\A d \in Docs : Entry("archive", n, d) \notin files')
      /\ Entry("release", n, doc) \in files'
  BY <1>2 DEF Unarchived
<1>4. Record(n)' = [is |-> IF \E d \in Docs : Entry("release", n, d) \in files'
                          THEN "released" ELSE "active",
                   doc |-> ledger'[n]]
  BY <1>3, NextRecord
<1>5. Record(n)' = [is |-> "released", doc |-> doc]
  BY <1>3, <1>4
<1>6. Elsewhere(n)
  <2>1. \A m \in Names \ {n}, d \in Docs : Entry("release", m, d) \in files' <=> There("release", m, d)
    BY DEF There, Entry
  <2>. QED  BY <1>2, <2>1 DEF Elsewhere
<1>7. Records' = [Records EXCEPT ![n] = [is |-> "released", doc |-> doc]]
  BY <1>5, <1>6, OneRecord DEF Elsewhere
<1>. QED
  BY <1>1, <1>7, StoreStep

LEMMA ArchivedNow ==
  ASSUME Types, Files, Types', NEW n \in Names, NEW doc \in Docs, doc # None,
         ledger[n] = doc, Unarchived(n), There("release", n, doc),
         ledger' = ledger, files' = files \cup {Entry("archive", n, doc)}
  PROVE  Store!Next
<1>1. Record(n) = [is |-> "released", doc |-> doc]
  <2>1. ~Unmarked(n)
    BY DEF Unmarked
  <2>. QED  BY <2>1, RecordOf
<1>2. \A m \in Names, d \in Docs : Entry("release", m, d) \in files' <=> There("release", m, d)
  BY DEF There, Entry
<1>3. /\ Entry("archive", n, doc) \in files'
      /\ \A c \in Docs : Entry("archive", n, c) \in files' => c = doc
  BY DEF Unarchived, There, Entry
<1>4. Record(n)' = [is |-> "archived", doc |-> doc]
  BY <1>3, NextRecord
<1>5. Elsewhere(n)
  <2>1. \A m \in Names \ {n}, d \in Docs : Entry("archive", m, d) \in files' <=> There("archive", m, d)
    BY DEF There, Entry
  <2>. QED  BY <1>2, <2>1 DEF Elsewhere
<1>6. Records' = [Records EXCEPT ![n] = [is |-> "archived", doc |-> doc]]
  BY <1>4, <1>5, OneRecord DEF Elsewhere
<1>. QED
  BY <1>1, <1>6, StoreStep

LEMMA Reclaimed ==
  ASSUME Types, Files, Types', NEW n \in Names, NEW doc \in Docs,
         ledger[n] = None, There("archive", n, doc),
         ledger' = ledger, files' = files \ {Entry("archive", n, doc)}
  PROVE  Store!Next
<1>1. Record(n) = [is |-> "archived", doc |-> doc]
  BY RecordOf
<1>2. \A m \in Names, d \in Docs : Entry("release", m, d) \in files' <=> There("release", m, d)
  BY DEF There, Entry
<1>3. \A d \in Docs : Entry("archive", n, d) \notin files'
  BY DEF There, Files, OneArchive
<1>4. Record(n)' = [is |-> "absent", doc |-> None]
  BY <1>3, NextRecord
<1>5. Elsewhere(n)
  <2>1. \A m \in Names \ {n}, d \in Docs : Entry("archive", m, d) \in files' <=> There("archive", m, d)
    BY DEF There, Entry
  <2>. QED  BY <1>2, <2>1 DEF Elsewhere
<1>6. Records' = [Records EXCEPT ![n] = [is |-> "absent", doc |-> None]]
  BY <1>4, <1>5, OneRecord DEF Elsewhere
<1>7. Record(n).is = "archived"
  BY <1>1
<1>. QED
  BY <1>6, <1>7, StoreStep

\* The steps that change no record.
LEMMA Quiet ==
  /\ UNCHANGED disk => Unseen
  /\ UNCHANGED <<ledger, files>> => Unseen
  /\ \A kind, station : Write(kind, station) /\ kind \notin {"archive", "release"} => Unseen
  /\ \A kind, station, todo :
       Link(kind, station, todo) /\ kind \notin {"archive", "release"} => Unseen
<1>1. UNCHANGED disk => UNCHANGED <<ledger, files>>
  BY DEF disk
<1>2. UNCHANGED <<ledger, files>> => Unseen
  BY DEF Unseen, There
<1>3. ASSUME NEW kind, kind \notin {"archive", "release"},
             ledger' = ledger, files' = files \cup {Mine(kind)}
      PROVE  Unseen
  BY <1>3 DEF Unseen, There, Entry, Mine, File
<1>4. \A kind, station : Write(kind, station) /\ kind \notin {"archive", "release"} => Unseen
  BY <1>3 DEF Write
<1>5. \A kind, station, todo :
        Link(kind, station, todo) /\ kind \notin {"archive", "release"} => Unseen
  BY <1>3 DEF Link
<1>. QED
  BY <1>1, <1>2, <1>4, <1>5

\* A command that runs at a station, and the leaf it operates on.
LEMMA Operates ==
  ASSUME Assumptions, LInv, NEW station \in Stations \ {"recover", "refused"}, At(station)
  PROVE  /\ Types /\ Files /\ Knows /\ cmd \in Command /\ cmd # Idle
         /\ cmd.at = station /\ cmd.todo = <<>>
         /\ cmd.req \in Requests /\ leaf \in Names /\ document \in Docs /\ document # None
<1>1. Types /\ Files /\ Knows /\ cmd \in Command /\ cmd # Idle /\ cmd.at = station /\ cmd.todo = <<>>
  BY Station
<1>2. cmd.req \in Requests /\ leaf \in Names /\ document \in Docs
  BY <1>1, Commanded
<1>. QED
  BY <1>1, <1>2, Document

LEMMA CreateIsCreate ==
  ASSUME Assumptions, LInv, Types', CreateInstalls
  PROVE  Store!Next \/ Unseen
<1>1. /\ Types /\ Files /\ Knows /\ cmd \in Command /\ cmd # Idle /\ cmd.at = "staged"
      /\ cmd.req \in Requests /\ leaf \in Names /\ document \in Docs /\ document # None
  <2>. "staged" \in Stations \ {"recover", "refused"} /\ At("staged")
    BY DEF CreateInstalls, Stations
  <2>. QED  BY Operates
<1>2. cmd.req.op = "create" /\ ledger[leaf] = None /\ NoneOf("archive") /\ Len(document) = 1
  <2>1. cmd.req.op = "create" /\ ledger[leaf] = None /\ NoneOf("archive")
    BY <1>1 DEF Knows, Creating
  <2>. QED  BY <1>1, <2>1, Request DEF document
<1>3. CASE Refuse
  BY <1>3, Quiet DEF Refuse
<1>4. CASE ~Refuse
  <2>1. /\ CandidateFits(cmd.req) /\ ledger' = [ledger EXCEPT ![leaf] = document] /\ files' = files
    BY <1>4 DEF CreateInstalls, leaf, document
  <2>2. Unarchived(leaf) /\ Unmarked(leaf)
    BY <1>1, <1>2, Document DEF Unarchived, Unmarked, NoneOf, Files, MarkerSpeaks
  <2>3. \A m \in Names, c \in Docs : m # leaf /\ Claiming(m, c) => Clear(c, document)
    BY <1>1, <2>1, <2>2, CandidateStands DEF leaf, document, Unarchived, Unmarked
  <2>4. Store!Free(leaf, document)
    BY <1>1, <2>3, FitsIsFree
  <2>. QED  BY <1>1, <1>2, <2>1, <2>2, <2>4, Created
<1>. QED
  BY <1>3, <1>4

LEMMA CasIsUpdate ==
  ASSUME Assumptions, LInv, Types', CasCommits
  PROVE  Store!Next \/ Unseen
<1>1. /\ Types /\ Files /\ Knows /\ cmd \in Command /\ cmd # Idle /\ cmd.at = "proofed"
      /\ cmd.req \in Requests /\ leaf \in Names /\ document \in Docs /\ document # None
  <2>. "proofed" \in Stations \ {"recover", "refused"} /\ At("proofed")
    BY DEF CasCommits, Stations
  <2>. QED  BY Operates
<1>2. /\ cmd.req.op = "cas" /\ Fits /\ Here("receipt")
      /\ ledger[leaf] # None /\ ledger[leaf] = Front(document)
  BY <1>1 DEF Knows, Updating
<1>3. CASE ~Precommit(cmd.req)
  BY <1>3, Quiet DEF CasCommits
<1>4. CASE Precommit(cmd.req)
  <2>1. /\ ledger' = [ledger EXCEPT ![leaf] = document]
        /\ files' = files \ {Entry("stage", leaf, document)}
    BY <1>4 DEF CasCommits, leaf, document, Mine, File, Entry
  <2>2. Unarchived(leaf) /\ Unmarked(leaf)
    <3>1. Busy(leaf)
      BY <1>1, <1>2 DEF Busy, Here, Work
    <3>. QED  BY <1>1, <3>1 DEF Files, WorkIsUnretired, Retired, Unarchived, Unmarked
  <2>3. Front(document) # document
    <3>1. Len(document) > 1
      BY <1>1, <1>2, Request DEF document
    <3>. QED  BY <1>1, <3>1, Longer
  <2>4. Store!Free(leaf, document)
    BY <1>1, <1>2, FitsIsFree DEF Fits
  <2>. QED  BY <1>1, <1>2, <2>1, <2>2, <2>3, <2>4, MovedOn
<1>. QED
  BY <1>3, <1>4

LEMMA ReleaseIsRelease ==
  ASSUME Assumptions, LInv, Types', ReleaseInstalls
  PROVE  Store!Next \/ Unseen
<1>1. /\ Types /\ Files /\ Knows /\ cmd \in Command /\ cmd # Idle /\ cmd.at = "release staged"
      /\ cmd.req \in Requests /\ leaf \in Names /\ document \in Docs /\ document # None
  <2>. "release staged" \in Stations \ {"recover", "refused"} /\ At("release staged")
    BY DEF ReleaseInstalls, Stations
  <2>. QED  BY Operates
<1>2. ledger[leaf] = document /\ Unarchived(leaf) /\ Unmarked(leaf)
  BY <1>1 DEF Knows, Releasing, Retired, Unarchived, Unmarked
<1>3. CASE Refuse
  BY <1>3, Quiet DEF Refuse
<1>4. CASE ~Refuse
  <2>1. ledger' = ledger /\ files' = files \cup {Entry("release", leaf, document)}
    BY <1>4 DEF ReleaseInstalls, Link, leaf, document, Mine, File, Entry
  <2>. QED  BY <1>1, <1>2, <2>1, MarkedNow
<1>. QED
  BY <1>3, <1>4

LEMMA ArchiveIsArchive ==
  ASSUME Assumptions, LInv, Types', ArchiveInstalls
  PROVE  Store!Next \/ Unseen
<1>1. /\ Types /\ Files /\ Knows /\ cmd \in Command /\ cmd # Idle /\ cmd.at = "archive staged"
      /\ cmd.req \in Requests /\ leaf \in Names /\ document \in Docs /\ document # None
  <2>. "archive staged" \in Stations \ {"recover", "refused"} /\ At("archive staged")
    BY DEF ArchiveInstalls, Stations
  <2>. QED  BY Operates
<1>2. ledger[leaf] = document /\ Unarchived(leaf) /\ There("release", leaf, document)
  BY <1>1 DEF Knows, Archiving, NoneOf, Here, Unarchived
<1>3. CASE Refuse
  BY <1>3, Quiet DEF Refuse
<1>4. CASE ~Refuse
  <2>1. ledger' = ledger /\ files' = files \cup {Entry("archive", leaf, document)}
    BY <1>4 DEF ArchiveInstalls, Link, leaf, document, Mine, File, Entry
  <2>. QED  BY <1>1, <1>2, <2>1, ArchivedNow
<1>. QED
  BY <1>3, <1>4

\* An unlink takes away a file that is not seen, the ledger or the marker of an archived
\* leaf, which was archived all along, or the archive, which is reclaimed.
LEMMA UnlinkReclaims ==
  ASSUME Assumptions, LInv, Types', Unlink
  PROVE  Store!Next \/ Records' = Records
<1>1. Types /\ Files /\ cmd # Idle /\ cmd.todo # <<>>
  BY DEF LInv, Unlink
<1>2. CASE UNCHANGED <<ledger, files>>
  BY <1>1, <1>2, Quiet, UnseenStays
<1>3. CASE ~UNCHANGED <<ledger, files>>
  <2>1. /\ ledger' = IF Doomed.kind = "ledger" THEN [ledger EXCEPT ![Doomed.name] = None] ELSE ledger
        /\ files' = files \ {Doomed}
    BY <1>3 DEF Unlink, Doomed
  <2>2. CASE LedgerMember
    <3>1. cmd \in Command /\ leaf \in Names /\ document \in Docs
      BY <1>1, Commanded
    <3>2. Doomed = Entry("ledger", leaf, document) /\ Doomed.kind = "ledger" /\ Doomed.name = leaf
      BY <2>2 DEF LedgerMember, Mine, File, Entry, leaf, document
    <3>3. /\ \A m \in Names \ {leaf} : ledger'[m] = ledger[m]
          /\ \A k \in Kinds : \A m, d : Entry(k, m, d) \in files' <=> There(k, m, d)
      BY <1>1, <2>1, <3>2 DEF Types, There, Entry, Kinds
    <3>4. There("archive", leaf, document)
      BY <2>2 DEF LedgerMember, Here
    <3>5. ASSUME NEW m \in Names PROVE Record(m)' = Record(m)
      <4>1. \A d \in Docs : /\ Entry("archive", m, d) \in files' <=> There("archive", m, d)
                            /\ Entry("release", m, d) \in files' <=> There("release", m, d)
        BY <3>3 DEF Kinds
      <4>2. CASE m = leaf
        BY <1>1, <3>1, <3>4, <4>1, <4>2, RecordStays
      <4>3. CASE m # leaf
        <5>1. ledger'[m] = ledger[m]
          BY <3>3, <4>3
        <5>. QED  BY <1>1, <4>1, <5>1, RecordStays
      <4>. QED  BY <4>2, <4>3
    <3>. QED  BY <3>5 DEF Records
  <2>3. CASE ~LedgerMember
    <3>1. PICK k \in Kinds, n \in Names, d \in Docs : Doomed = Entry(k, n, d) /\ Removable(k, n, d)
      BY <1>1, <2>3, Unlinked
    <3>2. ledger' = ledger /\ files' = files \ {Entry(k, n, d)}
      BY <2>1, <3>1 DEF Entry, Kinds
    <3>3. There(k, n, d)
      BY <1>3, <3>2 DEF There
    <3>4. CASE k = "archive"
      <4>1. ledger[n] = None
        BY <1>1, <3>1, <3>3, <3>4 DEF Removable, Files, ArchiveCovers
      <4>. QED  BY <1>1, <3>2, <3>3, <3>4, <4>1, Reclaimed
    <3>5. CASE k = "release"
      <4>1. There("archive", n, d)
        BY <3>1, <3>3, <3>5 DEF Removable
      <4>2. ASSUME NEW m \in Names PROVE Record(m)' = Record(m)
        <5>1. \A c \in Docs : Entry("archive", m, c) \in files' <=> There("archive", m, c)
          BY <3>2, <3>5 DEF There, Entry
        <5>2. CASE m = n
          BY <1>1, <4>1, <5>1, <5>2, RecordStays
        <5>3. CASE m # n
          <6>1. \A c \in Docs : Entry("release", m, c) \in files' <=> There("release", m, c)
            BY <3>2, <3>5, <5>3 DEF There, Entry
          <6>. QED  BY <1>1, <3>2, <5>1, <6>1, RecordStays
        <5>. QED  BY <5>2, <5>3
      <4>. QED  BY <4>2 DEF Records
    <3>6. CASE k \notin {"archive", "release"}
      <4>1. Unseen
        BY <3>2, <3>6 DEF Unseen, There, Entry
      <4>. QED  BY <1>1, <4>1, UnseenStays
    <3>. QED  BY <3>4, <3>5, <3>6
  <2>. QED  BY <2>2, <2>3
<1>. QED
  BY <1>2, <1>3

\* Every other step changes no record.
LEMMA OthersQuiet ==
  /\ RecoverUnlink \/ Inventory \/ Return => Unseen
  /\ CreateChecks \/ CasChecks \/ CasStages \/ CasProves => Unseen
  /\ ReleaseChecks \/ ArchiveChecks \/ ArchiveRechecks => Unseen
  /\ ArchiveRemovesMarker \/ ArchiveRemovesLedger => Unseen
  /\ ReclaimChecks \/ ReclaimRemoves \/ ReclaimStages \/ ReclaimSwaps \/ ReclaimRenames \/ ReclaimEnds => Unseen
  /\ (\E r \in Requests : Begin(r)) \/ Crash \/ CrashWriting \/ (\E n \in Names : Drift(n)) => Unseen
  /\ UNCHANGED vars => Unseen
<1>1. RecoverUnlink \/ Inventory \/ Return => Unseen
  BY Quiet DEF RecoverUnlink, Inventory, Return
<1>2. CreateChecks => Unseen
  BY Quiet DEF CreateChecks, Refuse
<1>3. CasChecks => Unseen
  BY Quiet DEF CasChecks, CasRetries, Refuse
<1>4. CasStages \/ CasProves => Unseen
  BY Quiet DEF CasStages, CasProves
<1>5. ReleaseChecks => Unseen
  BY Quiet DEF ReleaseChecks, Refuse
<1>6. ArchiveChecks => Unseen
  BY Quiet DEF ArchiveChecks, Refuse
<1>7. ArchiveRechecks \/ ArchiveRemovesMarker \/ ArchiveRemovesLedger => Unseen
  BY Quiet DEF ArchiveRechecks, ArchiveRemovesMarker, ArchiveRemovesLedger, Refuse
<1>8. ReclaimChecks => Unseen
  BY Quiet DEF ReclaimChecks, Refuse
<1>9. ReclaimRemoves \/ ReclaimStages \/ ReclaimSwaps \/ ReclaimEnds => Unseen
  BY Quiet DEF ReclaimRemoves, ReclaimStages, ReclaimSwaps, ReclaimEnds
<1>10. ReclaimRenames => Unseen
  <2>. SUFFICES ASSUME ledger' = ledger,
                       files' = (files \ {Mine("complete stage")}) \cup {Mine("complete")}
                PROVE  Unseen
    BY DEF ReclaimRenames
  <2>. QED  BY DEF Unseen, There, Entry, Mine, File
<1>11. (\E r \in Requests : Begin(r)) \/ Crash \/ CrashWriting \/ (\E n \in Names : Drift(n)) => Unseen
  BY Quiet DEF Begin, Crash, CrashWriting, Drift
<1>12. UNCHANGED vars => Unseen
  BY Quiet DEF vars
<1>. QED
  BY <1>1, <1>2, <1>3, <1>4, <1>5, <1>6, <1>7, <1>8, <1>9, <1>10, <1>11, <1>12

LEMMA StepIsStep ==
  ASSUME Assumptions, LInv, LInv', [Next]_vars
  PROVE  Store!Next \/ Records' = Records
<1>1. Types /\ Types'
  BY DEF LInv
<1>2. CASE CreateInstalls \/ CasCommits \/ ReleaseInstalls \/ ArchiveInstalls
  BY <1>1, <1>2, CreateIsCreate, CasIsUpdate, ReleaseIsRelease, ArchiveIsArchive, UnseenStays
<1>3. CASE Unlink
  BY <1>1, <1>3, UnlinkReclaims
<1>4. CASE Unseen
  BY <1>1, <1>4, UnseenStays
<1>. QED
  BY <1>2, <1>3, <1>4, OthersQuiet DEF Next, Step

\* Each create, cas, release, archive and reclaim of the review root takes effect at one of
\* its steps, on the record of one leaf, whatever is killed around it (create_command,
\* cas_command, release_command, archive_command, reclaim_archive_command).
THEOREM Refinement ==
  ASSUME Assumptions, "again" \notin Enabled
  PROVE  Spec => ImplementsStore
<1>1. Init => Store!Init
  <2>. SUFFICES ASSUME Init PROVE Store!Init
    OBVIOUS
  <2>1. Types /\ Files
    BY Starts DEF LInv
  <2>2. ASSUME NEW n \in Names PROVE Record(n) = [is |-> "absent", doc |-> None]
    <3>1. Unarchived(n) /\ ledger[n] = None
      BY DEF Init, Unarchived, There
    <3>. QED  BY <2>1, <3>1, RecordOf
  <2>. QED  BY <2>2 DEF Store!Init, Store!Absent, Store!None, None
<1>2. LInv /\ LInv' /\ [Next]_vars => [Store!Next]_Records
  BY StepIsStep
<1>3. Store!Spec <=> Store!Init /\ [][Store!Next]_Records
  BY DEF Store!Spec, Records
<1>. QED
  BY <1>1, <1>2, <1>3, Invariance, PTL DEF Spec, ImplementsStore

-----------------------------------------------------------------------------
(* The steps: what is never forgotten, what an answer says *)

\* What a reclaim has written before it takes something away.
Reclaimer ==
  cmd # Idle =>
    /\ (cmd.at = "publish" /\ cmd.todo # <<>>) => Here("reclaim receipt")
    /\ cmd.at = "published" => Here("complete")
    /\ (cmd.at = "done" /\ cmd.req.op = "reclaim") => Here("complete")

-----------------------------------------------------------------------------
(* Where a step takes the command *)

Arrived(station, todo) == cmd'.at = station /\ cmd'.req = cmd.req /\ cmd'.todo = todo

LEMMA Arriving ==
  ASSUME cmd \in Command
  PROVE  /\ \A station : Go(station) => Arrived(station, cmd.todo)
         /\ \A station, todo : GoUnlinking(station, todo) => Arrived(station, todo)
         /\ \A kind, station : Write(kind, station) => Arrived(station, cmd.todo)
         /\ \A kind, station, todo : Link(kind, station, todo) => Arrived(station, todo)
         /\ Refuse => Arrived("refused", cmd.todo)
<1>1. \A station : Go(station) => Arrived(station, cmd.todo)
  BY DEF Go, Arrived, Command
<1>2. \A station, todo : GoUnlinking(station, todo) => Arrived(station, todo)
  BY DEF GoUnlinking, Arrived, Command
<1>3. \A kind, station : Write(kind, station) => Arrived(station, cmd.todo)
  BY DEF Write, Arrived, Command
<1>4. \A kind, station, todo : Link(kind, station, todo) => Arrived(station, todo)
  BY <1>2 DEF Link
<1>. QED
  BY <1>1, <1>2, <1>3, <1>4 DEF Refuse

\* What an unlink is about, by the station of the command.
LEMMA DoomedAt ==
  ASSUME LInv, cmd # Idle, cmd.todo # <<>>
  PROVE  /\ cmd.at = "publish" => Doomed = Mine("archive")
         /\ cmd.at = "published" => Doomed = Mine("complete stage")
         /\ (cmd.at = "done" /\ cmd.req.op = "reclaim") => Doomed = Mine("reclaim receipt")
         /\ Doomed.kind = "archive" => cmd.at = "publish"
         /\ Doomed.kind = "reclaim receipt" => cmd.at = "done" /\ cmd.req.op = "reclaim"
<1>1. /\ cmd \in Command /\ cmd.req.op \in Operations
      /\ Knows /\ cmd.at \in {"done", "refused", "ledger member", "publish", "rename", "published"}
  BY Commanded, Request DEF LInv, Knows, Unlinking
<1>2. \A kind : Mine(kind).kind = kind
  BY DEF Mine, File
<1>3. CASE cmd.at = "publish"
  <2>1. Doomed = Mine("archive")
    BY <1>1, <1>3, Lists DEF Knows, Reclaiming, Doomed
  <2>. QED  BY <1>2, <1>3, <2>1
<1>4. CASE cmd.at = "published"
  <2>1. Doomed = Mine("complete stage")
    BY <1>1, <1>4, Lists DEF Knows, Reclaiming, Doomed
  <2>. QED  BY <1>2, <1>4, <2>1
<1>5. CASE cmd.at = "done" /\ cmd.req.op = "reclaim"
  <2>1. Doomed = Mine("reclaim receipt")
    BY <1>1, <1>5, Lists DEF Knows, Reclaiming, Doomed
  <2>. QED  BY <1>2, <1>5, <2>1
<1>6. CASE cmd.at = "rename"
  <2>1. Doomed.kind = "complete"
    BY <1>1, <1>6 DEF Knows, Reclaiming, Doomed
  <2>. QED  BY <1>6, <2>1
<1>7. CASE cmd.at = "ledger member"
  <2>1. Doomed = Mine("release")
    BY <1>1, <1>7, Lists DEF Knows, Archiving, Doomed
  <2>. QED  BY <1>2, <1>7, <2>1
<1>8. CASE cmd.at = "refused"
  <2>1. Doomed \in {Mine("proof"), Mine("stage"), Mine("receipt")}
    BY <1>1, <1>8, Lists DEF Knows, TakenBack, Doomed
  <2>. QED  BY <1>2, <1>8, <2>1
<1>9. CASE cmd.at = "done" /\ cmd.req.op = "archive"
  <2>1. Doomed \in {Mine("ledger"), Mine("archive stage")}
    BY <1>1, <1>9, Lists DEF Knows, ArchiveEnds, Doomed
  <2>. QED  BY <1>2, <1>9, <2>1
<1>10. CASE cmd.at = "done" /\ cmd.req.op = "cas"
  <2>1. Doomed \in {Mine("proof"), Mine("receipt")}
    BY <1>1, <1>10, Lists DEF Knows, Updated, Doomed
  <2>. QED  BY <1>2, <1>10, <2>1
<1>11. CASE cmd.at = "done" /\ cmd.req.op \in {"create", "release"}
  <2>1. Doomed \in {Mine("create stage"), Mine("release stage")}
    BY <1>1, <1>11, Lists DEF Knows, Unlinking, Doomed
  <2>. QED  BY <1>2, <1>11, <2>1
<1>. QED
  BY <1>1, <1>3, <1>4, <1>5, <1>6, <1>7, <1>8, <1>9, <1>10, <1>11 DEF Operations

\* What an unlink does to the root.
LEMMA Unlinks ==
  ASSUME Assumptions, LInv, Unlink
  PROVE  /\ cmd # Idle /\ cmd.todo # <<>> /\ cmd \in Command
         /\ \/ UNCHANGED <<ledger, files>>
            \/ /\ LedgerMember /\ files' = files /\ ledger' = [ledger EXCEPT ![leaf] = None]
            \/ \E k \in Kinds, n \in Names, d \in Docs :
                 /\ Doomed = Entry(k, n, d) /\ There(k, n, d)
                 /\ ledger' = ledger /\ files' = files \ {Entry(k, n, d)}
         /\ cmd' = cmd \/ (cmd'.at = cmd.at /\ cmd'.req = cmd.req /\ cmd'.todo = Tail(cmd.todo)
                           /\ bin.phase = "cleared" /\ UNCHANGED <<ledger, files>>)
<1>1. cmd # Idle /\ cmd.todo # <<>> /\ cmd \in Command /\ Types
  BY Commanded DEF Unlink, LInv
<1>2. \/ /\ ledger' = IF Doomed.kind = "ledger" THEN [ledger EXCEPT ![Doomed.name] = None] ELSE ledger
         /\ files' = files \ {Doomed}
      \/ UNCHANGED <<ledger, files>>
  BY DEF Unlink, Doomed
<1>3. cmd' = cmd \/ (cmd' = [cmd EXCEPT !.todo = Tail(cmd.todo)] /\ bin.phase = "cleared"
                     /\ UNCHANGED <<ledger, files>>)
  <2>1. bin.phase \in {"none", "made", "torn", "noted", "moved", "gone", "cleared"} /\ bin.phase # "torn"
        /\ (bin = NoBin \/ bin.phase # "none")
    BY <1>1 DEF LInv, Knows, Unlinking, Types, Bins
  <2>. QED  BY <2>1 DEF Unlink
<1>4. cmd' = [cmd EXCEPT !.todo = Tail(cmd.todo)] =>
        cmd'.at = cmd.at /\ cmd'.req = cmd.req /\ cmd'.todo = Tail(cmd.todo)
  BY <1>1 DEF Command
<1>5. CASE LedgerMember
  <2>1. Doomed.kind = "ledger" /\ Doomed.name = leaf
    BY <1>5 DEF LedgerMember, Mine, File, leaf
  <2>2. Doomed \notin files
    BY <1>1, <2>1, FileForm DEF Kinds
  <2>. QED  BY <1>1, <1>2, <1>3, <1>4, <1>5, <2>1, <2>2
<1>6. CASE ~LedgerMember
  <2>1. PICK k \in Kinds, n \in Names, d \in Docs : Doomed = Entry(k, n, d)
    BY <1>1, <1>6, Unlinked
  <2>2. Doomed.kind # "ledger"
    BY <2>1 DEF Entry, Kinds
  <2>3. CASE There(k, n, d)
    BY <1>1, <1>2, <1>3, <1>4, <2>1, <2>2, <2>3
  <2>4. CASE ~There(k, n, d)
    <3>1. files \ {Doomed} = files
      BY <2>1, <2>4 DEF There
    <3>. QED  BY <1>1, <1>2, <1>3, <1>4, <2>2, <3>1
  <2>. QED  BY <2>3, <2>4
<1>. QED
  BY <1>5, <1>6

-----------------------------------------------------------------------------
(* A reclaim says first what it takes away *)

LEMMA ReclaimerElsewhere ==
  \/ cmd' = Idle
  \/ cmd'.at \notin {"publish", "published", "done"}
  \/ cmd'.at = "done" /\ cmd'.req.op # "reclaim"
  \/ cmd'.at = "publish" /\ cmd'.todo = <<>>
  => Reclaimer'
BY DEF Reclaimer

LEMMA ReclaimerKeeps ==
  ASSUME Assumptions, LInv, Reclaimer, [Next]_vars
  PROVE  Reclaimer'
<1>1. CASE UNCHANGED vars \/ (\E n \in Names : Drift(n))
  <2>1. UNCHANGED <<files, cmd>>
    BY <1>1 DEF vars, Drift, disk
  <2>. QED  BY <2>1 DEF Reclaimer, Here, There, leaf, document
<1>2. CASE Return \/ Crash \/ CrashWriting \/ (\E r \in Requests : Begin(r))
  <2>1. cmd' = Idle \/ cmd'.at = "recover"
    BY <1>2 DEF Return, Crash, CrashWriting, Begin
  <2>. QED  BY <2>1, ReclaimerElsewhere
<1>3. CASE RecoverUnlink \/ Inventory
  <2>1. /\ cmd \in Command /\ cmd.at = "recover" /\ cmd.req.op \in Operations
    <3>1. At("recover") /\ "recover" \in Stations
      BY <1>3 DEF RecoverUnlink, Inventory, Stations
    <3>2. cmd \in Command /\ cmd.at = "recover"
      BY <3>1, Station
    <3>. QED  BY <3>2, Commanded, Request DEF LInv
  <2>2. cmd' = cmd \/ cmd'.at \in {"refused"} \cup Operations
    BY <1>3, <2>1, Arriving DEF RecoverUnlink, Inventory, Arrived
  <2>. QED  BY <2>1, <2>2, ReclaimerElsewhere DEF Operations
<1>4. CASE Unlink
  <2>1. /\ cmd # Idle /\ cmd.todo # <<>> /\ cmd \in Command /\ cmd.todo \in Seq(Unlinkable)
        /\ cmd'.at = cmd.at /\ cmd'.req = cmd.req
        /\ cmd' = cmd \/ UNCHANGED <<ledger, files>>
    BY <1>4, Unlinks, Commanded DEF LInv
  <2>2. leaf' = leaf /\ document' = document
    BY <2>1 DEF leaf, document
  <2>3. ASSUME NEW kind, Here(kind), Doomed # Mine(kind)
        PROVE  Entry(kind, leaf, document) \in files'
    BY <1>4, <2>3, Unlinks DEF Here, There, Mine, File, Entry, leaf, document
  <2>4. \A kind, other : Mine(kind) = Mine(other) => kind = other
    BY DEF Mine, File
  <2>5. (cmd'.at = "publish" /\ cmd'.todo # <<>>) => Entry("reclaim receipt", leaf, document) \in files'
    <3>. SUFFICES ASSUME cmd.at = "publish"
                  PROVE  Entry("reclaim receipt", leaf, document) \in files'
      BY <2>1
    <3>1. Here("reclaim receipt") /\ Doomed = Mine("archive")
      BY <2>1, DoomedAt DEF Reclaimer
    <3>. QED  BY <2>3, <2>4, <3>1
  <2>6. cmd'.at = "published" => Entry("complete", leaf, document) \in files'
    <3>. SUFFICES ASSUME cmd.at = "published" PROVE Entry("complete", leaf, document) \in files'
      BY <2>1
    <3>1. Here("complete") /\ Doomed = Mine("complete stage")
      BY <2>1, DoomedAt DEF Reclaimer
    <3>. QED  BY <2>3, <2>4, <3>1
  <2>7. (cmd'.at = "done" /\ cmd'.req.op = "reclaim") => Entry("complete", leaf, document) \in files'
    <3>. SUFFICES ASSUME cmd.at = "done", cmd.req.op = "reclaim"
                  PROVE  Entry("complete", leaf, document) \in files'
      BY <2>1
    <3>1. Here("complete") /\ Doomed = Mine("reclaim receipt")
      BY <2>1, DoomedAt DEF Reclaimer
    <3>. QED  BY <2>3, <2>4, <3>1
  <2>. QED  BY <2>2, <2>5, <2>6, <2>7 DEF Reclaimer, Here, There
<1>5. ASSUME NEW station \in Stations \ {"recover", "refused"}, At(station)
      PROVE  /\ Types /\ Knows /\ cmd # Idle /\ cmd \in Command
             /\ cmd.at = station /\ cmd.todo = <<>>
             /\ station \in Operations => cmd.req.op = station
  BY <1>5, Operates, Station
<1>6. CASE CreateChecks \/ CreateInstalls
  <2>1. PICK station \in {"create", "staged"} : At(station)
    BY <1>6 DEF CreateChecks, CreateInstalls
  <2>2. station \in Stations \ {"recover", "refused"}
    BY DEF Stations, Operations
  <2>3. cmd \in Command /\ cmd.req.op = "create"
    BY <1>5, <2>1, <2>2 DEF Knows, Creating, Operations
  <2>4. cmd'.at \in {"refused", "done", "staged"} /\ cmd'.req = cmd.req
    BY <1>6, <2>3, Arriving DEF CreateChecks, CreateInstalls, Arrived
  <2>. QED  BY <2>3, <2>4, ReclaimerElsewhere
<1>7. CASE CasChecks \/ CasStages \/ CasProves \/ CasCommits
  <2>1. PICK station \in {"cas", "receipted", "cas staged", "proofed"} : At(station)
    BY <1>7 DEF CasChecks, CasStages, CasProves, CasCommits
  <2>2. station \in Stations \ {"recover", "refused"}
    BY DEF Stations, Operations
  <2>3. cmd \in Command /\ cmd.req.op = "cas"
    BY <1>5, <2>1, <2>2 DEF Knows, Updating, Operations
  <2>4. cmd'.at \in {"refused", "done", "receipted", "cas staged", "proofed"} /\ cmd'.req = cmd.req
    <3>1. CASE CasChecks
      BY <3>1, <2>3, Arriving DEF CasChecks, CasRetries, Arrived
    <3>2. CASE CasStages \/ CasProves \/ CasCommits
      BY <3>2, <2>3, Arriving DEF CasStages, CasProves, CasCommits, Arrived
    <3>. QED  BY <1>7, <3>1, <3>2
  <2>. QED  BY <2>3, <2>4, ReclaimerElsewhere
<1>8. CASE ReleaseChecks \/ ReleaseInstalls
  <2>1. PICK station \in {"release", "release staged"} : At(station)
    BY <1>8 DEF ReleaseChecks, ReleaseInstalls
  <2>2. station \in Stations \ {"recover", "refused"}
    BY DEF Stations, Operations
  <2>3. cmd \in Command /\ cmd.req.op = "release"
    BY <1>5, <2>1, <2>2 DEF Knows, Releasing, Operations
  <2>4. cmd'.at \in {"refused", "done", "release staged"} /\ cmd'.req = cmd.req
    BY <1>8, <2>3, Arriving DEF ReleaseChecks, ReleaseInstalls, Arrived
  <2>. QED  BY <2>3, <2>4, ReclaimerElsewhere
<1>9. CASE ArchiveChecks \/ ArchiveInstalls \/ ArchiveRechecks \/ ArchiveRemovesMarker \/ ArchiveRemovesLedger
  <2>1. PICK station \in {"archive", "archive staged", "archive linked", "members", "ledger member"} :
          At(station)
    BY <1>9 DEF ArchiveChecks, ArchiveInstalls, ArchiveRechecks, ArchiveRemovesMarker,
       ArchiveRemovesLedger
  <2>2. station \in Stations \ {"recover", "refused"}
    BY DEF Stations, Operations
  <2>3. cmd \in Command /\ cmd.req.op = "archive"
    BY <1>5, <2>1, <2>2 DEF Knows, Archiving, Operations
  <2>4. /\ cmd'.at \in {"refused", "done", "archive staged", "archive linked", "members", "ledger member"}
        /\ cmd'.req = cmd.req
    <3>1. CASE ArchiveChecks \/ ArchiveInstalls
      BY <3>1, <2>3, Arriving DEF ArchiveChecks, ArchiveInstalls, Arrived
    <3>2. CASE ArchiveRechecks \/ ArchiveRemovesMarker \/ ArchiveRemovesLedger
      BY <3>2, <2>3, Arriving DEF ArchiveRechecks, ArchiveRemovesMarker, ArchiveRemovesLedger, Arrived
    <3>. QED  BY <1>9, <3>1, <3>2
  <2>. QED  BY <2>3, <2>4, ReclaimerElsewhere
<1>10. CASE \/ ReclaimChecks \/ ReclaimRemoves \/ ReclaimStages \/ ReclaimSwaps
            \/ ReclaimRenames \/ ReclaimEnds
  <2>1. PICK station \in {"reclaim", "prepared", "publish", "swap", "rename", "published"} : At(station)
    BY <1>10 DEF ReclaimChecks, ReclaimRemoves, ReclaimStages, ReclaimSwaps, ReclaimRenames, ReclaimEnds
  <2>2. station \in Stations \ {"recover", "refused"}
    BY DEF Stations, Operations
  <2>3. cmd \in Command /\ cmd # Idle /\ cmd.todo = <<>> /\ Knows /\ cmd.at = station
    BY <1>5, <2>1, <2>2
  <2>4. \A kind : /\ Mine(kind) = Entry(kind, leaf, document)
                  /\ Mine(kind) \in files <=> Here(kind)
    BY DEF Mine, File, Entry, Here, There, leaf, document
  <2>5. ASSUME cmd'.req = cmd.req
        PROVE  \A kind : Here(kind)' <=> Mine(kind) \in files'
    BY <2>5 DEF Here, There, Mine, File, Entry, leaf, document
  <2>6. CASE ReclaimChecks
    <3>1. /\ cmd'.req = cmd.req
          /\ \/ cmd'.at \in {"refused", "prepared"}
             \/ cmd'.at = "publish" /\ cmd'.todo = <<>>
             \/ cmd'.at = "publish" /\ Mine("reclaim receipt") \in files /\ files' = files
      BY <2>3, <2>6, Arriving DEF ReclaimChecks, Arrived, disk, Has, Mine
    <3>2. CASE cmd'.at \in {"refused", "prepared"} \/ (cmd'.at = "publish" /\ cmd'.todo = <<>>)
      BY <3>2, ReclaimerElsewhere
    <3>3. CASE cmd'.at = "publish" /\ Mine("reclaim receipt") \in files /\ files' = files
      BY <2>5, <3>1, <3>3 DEF Reclaimer
    <3>. QED  BY <3>1, <3>2, <3>3
  <2>7. CASE ReclaimRemoves
    <3>1. cmd.at = "prepared"
      BY <2>7 DEF ReclaimRemoves, At
    <3>2. Mine("reclaim receipt") \in files
      BY <2>3, <2>4, <3>1 DEF Knows, Reclaiming
    <3>3. files' = files /\ cmd'.at = "publish" /\ cmd'.req = cmd.req
      BY <2>3, <2>7, Arriving DEF ReclaimRemoves, Arrived, disk
    <3>. QED  BY <2>5, <3>2, <3>3 DEF Reclaimer
  <2>8. CASE ReclaimStages
    <3>1. cmd'.at = "swap"
      BY <2>3, <2>8, Arriving DEF ReclaimStages, Arrived
    <3>. QED  BY <3>1, ReclaimerElsewhere
  <2>9. CASE ReclaimSwaps
    <3>1. /\ cmd'.req = cmd.req /\ files' = files
          /\ cmd'.at = "rename" \/ (cmd'.at = "published" /\ Mine("complete") \in files)
      BY <2>3, <2>9, Arriving DEF ReclaimSwaps, Arrived, disk, Present
    <3>2. CASE cmd'.at = "rename"
      BY <3>2, ReclaimerElsewhere
    <3>3. CASE cmd'.at = "published" /\ Mine("complete") \in files
      BY <2>5, <3>1, <3>3 DEF Reclaimer
    <3>. QED  BY <3>1, <3>2, <3>3
  <2>10. CASE ReclaimRenames
    <3>1. cmd'.req = cmd.req /\ Mine("complete") \in files' /\ cmd'.at = "published"
      BY <2>3, <2>10, Arriving DEF ReclaimRenames, Arrived
    <3>. QED  BY <2>5, <3>1 DEF Reclaimer
  <2>11. CASE ReclaimEnds
    <3>1. cmd.at = "published"
      BY <2>11 DEF ReclaimEnds, At
    <3>2. Mine("complete") \in files
      BY <2>3, <2>4, <3>1 DEF Reclaimer
    <3>3. files' = files /\ cmd'.at = "done" /\ cmd'.req = cmd.req
      BY <2>3, <2>11, Arriving DEF ReclaimEnds, Arrived, disk
    <3>. QED  BY <2>5, <3>2, <3>3 DEF Reclaimer
  <2>. QED  BY <1>10, <2>6, <2>7, <2>8, <2>9, <2>10, <2>11
<1>. QED
  BY <1>1, <1>2, <1>3, <1>4, <1>6, <1>7, <1>8, <1>9, <1>10 DEF Next, Step

-----------------------------------------------------------------------------
(* What stays on record *)

Lasting == {"archive", "reclaim receipt", "complete"}

\* A document on record stays so while its ledger and the files that last do.
LEMMA KeptStays ==
  ASSUME NEW n, NEW doc, Kept(n, doc),
         ledger[n] # None => ledger'[n] = ledger[n],
         \A f \in files : f.name = n /\ f.kind \in Lasting => f \in files'
  PROVE  Kept(n, doc)'
BY DEF Kept, Lasting

LEMMA ShorterByOne ==
  ASSUME Assumptions, NEW d \in Docs
  PROVE  Len(Front(d)) = Len(d) - 1
<1>1. Len(d) \in Nat /\ d \in Seq(SUBSET Coords) /\ Len(d) >= 1
  BY Document DEF Assumptions
<1>2. CASE Len(d) > 1
  <2>1. Len(d) \in Nat /\ d \in Seq(SUBSET Coords)
    BY <1>1
  <2>. QED  BY <1>2, <2>1 DEF Front
<1>3. CASE Len(d) = 1
  <2>1. SubSeq(d, 1, 0) = <<>>
    BY SubSeqEmpty
  <2>. QED  BY <1>3, <2>1 DEF Front
<1>4. Len(d) > 1 \/ Len(d) = 1
  <2>1. \A k \in Nat : k >= 1 => k > 1 \/ k = 1
    OBVIOUS
  <2>. QED  BY <1>1, <2>1, Zenon
<1>. QED
  BY <1>2, <1>3, <1>4

LEMMA PrefixOfFront ==
  ASSUME Assumptions, NEW d \in Docs, NEW doc \in Docs, IsPrefix(doc, Front(d))
  PROVE  IsPrefix(doc, d)
<1>1. /\ d \in Seq(SUBSET Coords) /\ doc \in Seq(SUBSET Coords)
      /\ Len(d) \in Nat /\ Len(doc) \in Nat /\ Len(d) >= 1 /\ Len(doc) >= 1
  BY Document DEF Assumptions
<1>2. Front(d) = SubSeq(d, 1, Len(d) - 1) /\ Len(Front(d)) = Len(d) - 1
  BY ShorterByOne DEF Front
<1>3. Len(doc) <= Len(d) - 1 /\ SubSeq(doc, 1, Len(doc)) = SubSeq(Front(d), 1, Len(doc))
  BY <1>2 DEF IsPrefix
<1>4. SubSeq(Front(d), 1, Len(doc)) = SubSeq(d, 1, Len(doc))
  BY <1>1, <1>2, <1>3
<1>. QED
  BY <1>1, <1>3, <1>4 DEF IsPrefix

\* Most steps take away no ledger and no file that lasts.
Harmless ==
  /\ \A n \in Names : ledger[n] # None => ledger'[n] = ledger[n]
  /\ \A f \in files : f.kind \in Lasting => f \in files'

LEMMA HarmlessSteps ==
  /\ UNCHANGED disk \/ UNCHANGED <<ledger, files>> => Harmless
  /\ \A kind, station : Write(kind, station) => Harmless
  /\ \A kind, station, todo : Link(kind, station, todo) => Harmless
BY DEF Harmless, disk, Write, Link

LEMMA OthersHarmless ==
  ASSUME Assumptions, LInv, [Next]_vars
  PROVE  Harmless \/ (CasCommits /\ Precommit(cmd.req)) \/ Unlink
<1>1. CASE \/ RecoverUnlink \/ Inventory \/ Return \/ Crash \/ CrashWriting \/ UNCHANGED vars
           \/ (\E r \in Requests : Begin(r)) \/ (\E n \in Names : Drift(n))
  BY <1>1, HarmlessSteps DEF RecoverUnlink, Inventory, Return, Crash, CrashWriting, vars, Begin, Drift
<1>2. CASE CreateChecks \/ CasChecks \/ CasStages \/ CasProves \/ ReleaseChecks \/ ArchiveChecks
  BY <1>2, HarmlessSteps DEF CreateChecks, CasChecks, CasRetries, CasStages, CasProves, ReleaseChecks,
     ArchiveChecks, Refuse
<1>3. CASE \/ ReleaseInstalls \/ ArchiveInstalls \/ ArchiveRechecks \/ ArchiveRemovesMarker
           \/ ArchiveRemovesLedger
  BY <1>3, HarmlessSteps DEF ReleaseInstalls, ArchiveInstalls, ArchiveRechecks, ArchiveRemovesMarker,
     ArchiveRemovesLedger, Refuse
<1>4. CASE ReclaimChecks \/ ReclaimRemoves \/ ReclaimStages \/ ReclaimSwaps \/ ReclaimEnds
  BY <1>4, HarmlessSteps DEF ReclaimChecks, ReclaimRemoves, ReclaimStages, ReclaimSwaps, ReclaimEnds, Refuse
<1>5. CASE CasCommits /\ ~Precommit(cmd.req)
  BY <1>5, HarmlessSteps DEF CasCommits
<1>6. CASE ReclaimRenames
  <2>1. ledger' = ledger /\ \A f \in files : f # Mine("complete stage") => f \in files'
    BY <1>6 DEF ReclaimRenames
  <2>2. Mine("complete stage").kind \notin Lasting
    BY DEF Mine, File, Lasting
  <2>. QED  BY <2>1, <2>2 DEF Harmless
<1>7. CASE CreateInstalls
  <2>1. Types /\ Knows /\ cmd.at = "staged" /\ cmd # Idle /\ leaf \in Names
    <3>. "staged" \in Stations \ {"recover", "refused"} /\ At("staged")
      BY <1>7 DEF CreateInstalls, Stations
    <3>. QED  BY Operates
  <2>2. ledger[leaf] = None
    BY <2>1 DEF Knows, Creating
  <2>3. UNCHANGED disk \/ (ledger' = [ledger EXCEPT ![leaf] = document] /\ files' = files)
    BY <1>7 DEF CreateInstalls, Refuse, leaf, document
  <2>4. CASE ledger' = [ledger EXCEPT ![leaf] = document] /\ files' = files
    BY <2>1, <2>2, <2>4 DEF Harmless, Types
  <2>. QED  BY <2>3, <2>4, HarmlessSteps
<1>. QED
  BY <1>1, <1>2, <1>3, <1>4, <1>5, <1>6, <1>7 DEF Next, Step

LEMMA StepRemembers ==
  ASSUME Assumptions, LInv, Reclaimer, [Next]_vars
  PROVE  NothingForgotten
<1>. SUFFICES ASSUME NEW n \in Names, NEW doc \in Docs, Kept(n, doc),
                     ~\E f \in Completed : f.name = n /\ IsPrefix(doc, f.doc)
              PROVE  Kept(n, doc)'
  BY DEF NothingForgotten
<1>1. CASE Harmless
  <2>1. ledger[n] # None => ledger'[n] = ledger[n]
    BY <1>1 DEF Harmless
  <2>2. \A f \in files : f.name = n /\ f.kind \in Lasting => f \in files'
    BY <1>1 DEF Harmless
  <2>. QED  BY <2>1, <2>2, KeptStays
<1>2. CASE CasCommits /\ Precommit(cmd.req)
  <2>1. /\ Types /\ Knows /\ cmd # Idle /\ cmd.at = "proofed"
        /\ leaf \in Names /\ document \in Docs /\ document # None
    <3>. "proofed" \in Stations \ {"recover", "refused"} /\ At("proofed")
      BY <1>2 DEF CasCommits, Stations
    <3>. QED  BY Operates
  <2>2. ledger[leaf] = Front(document)
    BY <2>1 DEF Knows, Updating
  <2>3. ledger' = [ledger EXCEPT ![leaf] = document] /\ files' = files \ {Mine("stage")}
    BY <1>2 DEF CasCommits, leaf, document
  <2>4. \A f \in files : f.name = n /\ f.kind \in Lasting => f \in files'
    <3>1. Mine("stage").kind \notin Lasting
      BY DEF Mine, File, Lasting
    <3>. QED  BY <2>3, <3>1
  <2>5. CASE n = leaf /\ ledger[n] # None /\ IsPrefix(doc, ledger[n])
    <3>1. IsPrefix(doc, document)
      BY <2>1, <2>2, <2>5, PrefixOfFront
    <3>2. ledger'[n] = document
      BY <2>1, <2>3, <2>5 DEF Types
    <3>. QED  BY <2>1, <3>1, <3>2 DEF Kept
  <2>6. CASE n # leaf
    <3>1. ledger'[n] = ledger[n]
      BY <2>1, <2>3, <2>6 DEF Types
    <3>. QED  BY <2>4, <3>1, KeptStays
  <2>7. CASE ~(ledger[n] # None /\ IsPrefix(doc, ledger[n]))
    <3>1. PICK f \in files : f.name = n /\ IsPrefix(doc, f.doc) /\ f.kind \in Lasting
      BY <2>7 DEF Kept, Lasting
    <3>. QED  BY <2>4, <3>1 DEF Kept, Lasting
  <2>. QED  BY <2>5, <2>6, <2>7
<1>3. CASE Unlink
  <2>1. Types /\ Files /\ cmd # Idle /\ cmd.todo # <<>> /\ cmd \in Command
    BY <1>3, Unlinks DEF LInv
  <2>2. leaf \in Names /\ document \in Docs
    BY <2>1, Commanded
  <2>3. CASE UNCHANGED <<ledger, files>>
    BY <2>3 DEF Kept
  <2>4. CASE LedgerMember /\ files' = files /\ ledger' = [ledger EXCEPT ![leaf] = None]
    <3>1. There("archive", leaf, document)
      BY <2>4 DEF LedgerMember, Here
    <3>2. CASE n = leaf /\ ledger[n] # None /\ IsPrefix(doc, ledger[n])
      <4>1. ledger[leaf] = document
        BY <2>1, <2>2, <3>1, <3>2 DEF Files, ArchiveCovers
      <4>2. Entry("archive", n, document) \in files' /\ IsPrefix(doc, document)
        BY <2>4, <3>1, <3>2, <4>1 DEF There
      <4>. QED  BY <4>2 DEF Kept, Entry
    <3>3. CASE n # leaf
      <4>1. ledger'[n] = ledger[n]
        BY <2>1, <2>4, <3>3 DEF Types
      <4>. QED  BY <2>4, <4>1, KeptStays
    <3>4. CASE ~(ledger[n] # None /\ IsPrefix(doc, ledger[n]))
      BY <2>4, <3>4 DEF Kept
    <3>. QED  BY <3>2, <3>3, <3>4
  <2>5. ASSUME NEW k \in Kinds, NEW m \in Names, NEW d \in Docs,
               Doomed = Entry(k, m, d), There(k, m, d),
               ledger' = ledger, files' = files \ {Entry(k, m, d)}
        PROVE  Kept(n, doc)'
    <3>1. Doomed.kind = k /\ Doomed.name = m /\ Doomed.doc = d
      BY <2>5 DEF Entry
    <3>2. CASE \E f \in files : f.name = n /\ IsPrefix(doc, f.doc) /\ f.kind \in Lasting /\ f # Doomed
      BY <2>5, <3>2 DEF Kept, Lasting
    <3>3. CASE ledger[n] # None /\ IsPrefix(doc, ledger[n])
      BY <2>5, <3>3 DEF Kept
    <3>4. CASE m = n /\ IsPrefix(doc, d) /\ k \in Lasting
      <4>1. k # "complete"
        <5>1. k = "complete" => Doomed \in Completed
          BY <2>5, <3>1 DEF Completed, There
        <5>. QED  BY <3>1, <3>4, <5>1
      <4>2. \A kind : Mine(kind) = Entry(kind, leaf, document)
        BY DEF Mine, File, Entry, leaf, document
      <4>3. CASE k = "archive"
        <5>0. Doomed = Mine("archive") /\ cmd.at = "publish"
          BY <2>1, <3>1, <4>3, DoomedAt
        <5>1. Doomed = Entry("archive", leaf, document) /\ Here("reclaim receipt")
          BY <2>1, <4>2, <5>0 DEF Reclaimer
        <5>2. m = leaf /\ d = document
          <6>1. /\ Entry("archive", leaf, document).name = leaf
                /\ Entry("archive", leaf, document).doc = document
            BY DEF Entry
          <6>. QED  BY <3>1, <5>1, <6>1
        <5>3. Entry("reclaim receipt", n, d) \in files'
          BY <2>5, <3>4, <4>3, <5>1, <5>2 DEF Here, There, Entry
        <5>. QED  BY <3>4, <5>3 DEF Kept, Entry
      <4>4. CASE k = "reclaim receipt"
        <5>0. Doomed = Mine("reclaim receipt") /\ cmd.at = "done" /\ cmd.req.op = "reclaim"
          BY <2>1, <3>1, <4>4, DoomedAt
        <5>1. Doomed = Entry("reclaim receipt", leaf, document) /\ Here("complete")
          BY <2>1, <4>2, <5>0 DEF Reclaimer
        <5>2. m = leaf /\ d = document
          <6>1. /\ Entry("reclaim receipt", leaf, document).name = leaf
                /\ Entry("reclaim receipt", leaf, document).doc = document
            BY DEF Entry
          <6>. QED  BY <3>1, <5>1, <6>1
        <5>3. Entry("complete", n, d) \in files'
          BY <2>5, <3>4, <4>4, <5>1, <5>2 DEF Here, There, Entry
        <5>. QED  BY <3>4, <5>3 DEF Kept, Entry
      <4>. QED  BY <3>4, <4>1, <4>3, <4>4 DEF Lasting
    <3>5. \/ ledger[n] # None /\ IsPrefix(doc, ledger[n])
          \/ \E f \in files : f.name = n /\ IsPrefix(doc, f.doc) /\ f.kind \in Lasting
      BY DEF Kept, Lasting
    <3>. QED  BY <3>1, <3>2, <3>3, <3>4, <3>5
  <2>. QED  BY <1>3, <2>3, <2>4, <2>5, Unlinks
<1>. QED
  BY <1>1, <1>2, <1>3, OthersHarmless

\* Whatever is killed when, a retired leaf stays on record: an archive is only unlinked when
\* the receipt of its reclaim is written, and the receipt when the completion is, until the
\* next completion replaces that (archive_command, reclaim_archive_command).
THEOREM HistoryKept ==
  ASSUME Assumptions, "again" \notin Enabled
  PROVE  Spec => [][NothingForgotten]_vars
<1>1. Init => Reclaimer
  BY DEF Init, Reclaimer
<1>2. LInv /\ Reclaimer /\ [Next]_vars => Reclaimer'
  BY ReclaimerKeeps
<1>3. LInv /\ Reclaimer /\ [Next]_vars => [NothingForgotten]_vars
  BY StepRemembers
<1>. QED
  BY <1>1, <1>2, <1>3, Invariance, PTL DEF Spec

-----------------------------------------------------------------------------
(* What create and cas answer *)

Lacking(r) == ledger[r.name] # Front(r.doc) \/ Released(r.name) # {} \/ ~CandidateFits(r)

Installed ==
  (cmd.at = "done" /\ cmd.req.op = "create") =>
    ledger[leaf] = document /\ (Here("create stage") => cmd.todo = <<Mine("create stage")>>)
Replaced ==
  (cmd.at = "done" /\ cmd.req.op = "cas") =>
    /\ ledger[leaf] = document /\ ~Here("stage")
    /\ Here("receipt") => cmd.todo = <<Mine("receipt"), Mine("proof")>>
    /\ Here("proof") => cmd.todo # <<>>
Refused ==
  (cmd.at = "refused" /\ cmd.req.op = "cas" /\ cmd.todo = <<>>) =>
    Lacking(cmd.req) \/ \A kind \in {"receipt", "stage", "proof"} : ~Here(kind)
Answering == cmd # Idle => Installed /\ Replaced /\ Refused

LEMMA AnsweringElsewhere ==
  \/ cmd' = Idle
  \/ cmd'.at \notin {"done", "refused"}
  \/ cmd'.req.op \notin {"create", "cas"}
  \/ cmd'.req.op = "create" /\ cmd'.at # "done"
  => Answering'
BY DEF Answering, Installed, Replaced, Refused

LEMMA LackingStays ==
  ASSUME NEW r, UNCHANGED <<ledger, files, torn>>, Lacking(r)
  PROVE  Lacking(r)'
<1>1. Released(r.name)' = Released(r.name) /\ Pending' = Pending
  BY DEF Released, Pending, Has
<1>2. /\ Committed' = Committed /\ Staged' = Staged /\ ArchivedSnapshots' = ArchivedSnapshots
      /\ Historical' = Historical
  BY DEF Committed, Staged, ArchivedSnapshots, Historical, Released, Archived
<1>3. ASSUME CandidateFits(r)' PROVE CandidateFits(r)
  BY <1>1, <1>2, <1>3 DEF CandidateFits
<1>. QED
  BY <1>1, <1>3 DEF Lacking

\* The same request afterwards, with the names that it has before.
LEMMA SameMine ==
  ASSUME cmd'.req = cmd.req
  PROVE  /\ leaf' = leaf /\ document' = document
         /\ \A kind : Mine(kind)' = Mine(kind) /\ (Here(kind)' <=> Mine(kind) \in files')
BY DEF leaf, document, Mine, File, Here, There, Entry

\* A refusal that changes nothing is told by the root as it was.
LEMMA RefusedSame ==
  ASSUME cmd'.req = cmd.req, UNCHANGED <<ledger, files, torn>>,
         Lacking(cmd.req) \/ \A kind \in {"receipt", "stage", "proof"} : ~Here(kind)
  PROVE  Refused'
<1>1. PICK r : r = cmd.req
  OBVIOUS
<1>2. CASE Lacking(cmd.req)
  <2>1. Lacking(r)'
    BY <1>1, <1>2, LackingStays
  <2>. QED  BY <1>1, <2>1 DEF Refused, Lacking, CandidateFits
<1>3. CASE \A kind \in {"receipt", "stage", "proof"} : ~Here(kind)
  <2>1. \A kind : Here(kind)' <=> Here(kind)
    BY DEF Here, There, Entry, leaf, document
  <2>. QED  BY <1>3, <2>1 DEF Refused
<1>. QED
  BY <1>2, <1>3

LEMMA AnsweringStays ==
  ASSUME Answering, UNCHANGED <<ledger, files, torn, cmd>>
  PROVE  Answering'
<1>1. cmd' # Idle => Installed' /\ Replaced'
  BY DEF Answering, Installed, Replaced, Here, There, Entry, Mine, File, leaf, document, Idle
<1>2. ASSUME cmd # Idle, cmd.at = "refused", cmd.req.op = "cas", cmd.todo = <<>>
      PROVE  Refused'
  <2>1. Lacking(cmd.req) \/ \A kind \in {"receipt", "stage", "proof"} : ~Here(kind)
    BY <1>2 DEF Answering, Refused
  <2>. QED  BY <2>1, RefusedSame
<1>3. ~(cmd # Idle /\ cmd.at = "refused" /\ cmd.req.op = "cas" /\ cmd.todo = <<>>) => (cmd' # Idle => Refused')
  BY DEF Refused, Idle
<1>. QED
  BY <1>1, <1>2, <1>3 DEF Answering

\* The predecessor of a later generation is a document.
LEMMA FrontIsSome ==
  ASSUME Assumptions, NEW d \in Docs, Len(d) > 1
  PROVE  Front(d) # None
<1>1. Len(Front(d)) = Len(d) - 1 /\ Len(d) \in Nat
  BY ShorterByOne, Document
<1>2. Len(Front(d)) # 0
  BY <1>1
<1>. QED
  BY <1>2 DEF None

LEMMA CreateAnswers ==
  ASSUME Assumptions, LInv, CreateChecks \/ CreateInstalls
  PROVE  Answering'
<1>1. PICK station \in {"create", "staged"} : At(station)
  BY DEF CreateChecks, CreateInstalls
<1>2. station \in Stations \ {"recover", "refused"}
  BY DEF Stations, Operations
<1>3. /\ Types /\ Knows /\ cmd # Idle /\ cmd \in Command /\ cmd.at = station /\ leaf \in Names
      /\ station \in Operations => cmd.req.op = station
  BY <1>1, <1>2, Operates, Station
<1>4. cmd.req.op = "create"
  BY <1>3 DEF Knows, Creating, Operations
<1>5. \/ cmd'.at \in {"refused", "staged"} /\ cmd'.req = cmd.req
      \/ /\ Arrived("done", IfThere(Mine("create stage"))) /\ files' = files
         /\ \/ ledger' = ledger /\ ledger[leaf] = document
            \/ ledger' = [ledger EXCEPT ![leaf] = document]
  BY <1>3, Arriving DEF CreateChecks, CreateInstalls, Arrived, disk, leaf, document
<1>6. CASE cmd'.at \in {"refused", "staged"} /\ cmd'.req = cmd.req
  BY <1>4, <1>6, AnsweringElsewhere
<1>7. CASE /\ Arrived("done", IfThere(Mine("create stage"))) /\ files' = files
           /\ \/ ledger' = ledger /\ ledger[leaf] = document
              \/ ledger' = [ledger EXCEPT ![leaf] = document]
  <2>1. ledger'[leaf] = document
    BY <1>3, <1>7 DEF Types
  <2>2. Mine("create stage") \in files' => cmd'.todo = <<Mine("create stage")>>
    BY <1>7 DEF Arrived, IfThere
  <2>3. cmd'.req = cmd.req /\ cmd'.at = "done"
    BY <1>7 DEF Arrived
  <2>4. Installed'
    BY <2>1, <2>2, <2>3, SameMine DEF Installed
  <2>. QED  BY <1>4, <2>3, <2>4 DEF Answering, Replaced, Refused
<1>. QED
  BY <1>5, <1>6, <1>7

LEMMA CasRefuses ==
  ASSUME Assumptions, LInv, cmd \in Command, cmd.req.op = "cas", Refuse, Lacking(cmd.req)
  PROVE  Answering'
<1>1. cmd'.req = cmd.req /\ cmd'.at = "refused" /\ UNCHANGED <<ledger, files, torn>>
  BY Arriving DEF Refuse, Arrived, disk
<1>2. Refused'
  BY <1>1, RefusedSame
<1>. QED
  BY <1>1, <1>2 DEF Answering, Installed, Replaced

LEMMA CasReplaces ==
  ASSUME cmd'.req = cmd.req, cmd'.at = "done", cmd.req.op = "cas",
         ledger'[leaf] = document, Mine("stage") \notin files',
         \/ cmd'.todo = <<Mine("receipt"), Mine("proof")>>
         \/ cmd'.todo = <<Mine("proof")>> /\ Mine("receipt") \notin files'
         \/ cmd'.todo = <<>> /\ Mine("receipt") \notin files' /\ Mine("proof") \notin files'
  PROVE  Answering'
<1>1. cmd'.todo = <<>> \/ cmd'.todo # <<>>
  OBVIOUS
<1>2. <<Mine("receipt"), Mine("proof")>> # <<>> /\ <<Mine("proof")>> # <<>>
  BY Lists
<1>3. Replaced'
  BY <1>2, SameMine DEF Replaced
<1>. QED
  BY <1>3 DEF Answering, Installed, Refused

LEMMA CasAnswers ==
  ASSUME Assumptions, LInv, CasChecks \/ CasStages \/ CasProves \/ CasCommits
  PROVE  Answering'
<1>1. PICK station \in {"cas", "receipted", "cas staged", "proofed"} : At(station)
  BY DEF CasChecks, CasStages, CasProves, CasCommits
<1>2. station \in Stations \ {"recover", "refused"}
  BY DEF Stations, Operations
<1>3. /\ Types /\ Knows /\ cmd # Idle /\ cmd \in Command /\ cmd.at = station
      /\ leaf \in Names /\ document \in Docs /\ cmd.req \in Requests /\ document # None
      /\ station \in Operations => cmd.req.op = station
  BY <1>1, <1>2, Operates, Station
<1>4. cmd.req.op = "cas"
  BY <1>3 DEF Knows, Updating, Operations
<1>5. Len(document) > 1 /\ Front(document) # document
  BY <1>3, <1>4, Request, Longer DEF document
<1>6. CASE CasStages \/ CasProves
  <2>1. cmd'.at \in {"cas staged", "proofed"}
    BY <1>3, <1>6, Arriving DEF CasStages, CasProves, Arrived
  <2>. QED  BY <2>1, AnsweringElsewhere
<1>7. CASE CasCommits
  <2>1. CASE Precommit(cmd.req)
    <3>1. /\ Arrived("done", <<Mine("receipt"), Mine("proof")>>)
          /\ ledger' = [ledger EXCEPT ![leaf] = document] /\ files' = files \ {Mine("stage")}
      BY <1>3, <1>7, <2>1, Arriving DEF CasCommits, leaf, document
    <3>2. ledger'[leaf] = document
      BY <1>3, <3>1 DEF Types
    <3>. QED  BY <1>4, <3>1, <3>2, CasReplaces DEF Arrived
  <2>2. CASE ~Precommit(cmd.req)
    <3>1. Arrived("refused", <<Mine("proof"), Mine("stage"), Mine("receipt")>>)
      BY <1>3, <1>7, <2>2, Arriving DEF CasCommits
    <3>2. <<Mine("proof"), Mine("stage"), Mine("receipt")>> # <<>>
      BY Lists
    <3>. QED  BY <1>4, <3>1, <3>2 DEF Arrived, Answering, Installed, Replaced, Refused
  <2>. QED  BY <2>1, <2>2
<1>8. CASE CasChecks
  <2>1. CASE Released(leaf) # {} \/ ~CandidateFits(cmd.req) \/ ledger[leaf] = None
    <3>1. Refuse
      BY <1>8, <2>1 DEF CasChecks, leaf
    <3>2. Front(document) # None
      BY <1>3, <1>5, FrontIsSome
    <3>3. Lacking(cmd.req)
      BY <2>1, <3>2 DEF Lacking, leaf, document
    <3>. QED  BY <1>3, <1>4, <3>1, <3>3, CasRefuses
  <2>2. CASE ~(Released(leaf) # {} \/ ~CandidateFits(cmd.req) \/ ledger[leaf] = None)
             /\ ledger[leaf] = document
    <3>1. CasRetries(cmd.req)
      BY <1>8, <2>2 DEF CasChecks, leaf, document
    <3>2. CASE Refuse
      <4>1. Lacking(cmd.req)
        BY <1>5, <2>2 DEF Lacking, leaf, document
      <4>. QED  BY <1>3, <1>4, <3>2, <4>1, CasRefuses
    <3>3. CASE ~Refuse
      <4>1. /\ ~Has("stage", cmd.req)
            /\ GoUnlinking("done", IF Has("receipt", cmd.req) THEN <<Mine("receipt"), Mine("proof")>>
                                                             ELSE <<Mine("proof")>>)
            /\ UNCHANGED disk
        BY <3>1, <3>3 DEF CasRetries
      <4>2. /\ cmd'.req = cmd.req /\ cmd'.at = "done"
            /\ cmd'.todo = IF Has("receipt", cmd.req) THEN <<Mine("receipt"), Mine("proof")>>
                                                     ELSE <<Mine("proof")>>
        BY <1>3, <4>1, Arriving DEF Arrived
      <4>3. files' = files /\ ledger' = ledger /\ \A kind : Has(kind, cmd.req) <=> Mine(kind) \in files
        BY <4>1 DEF disk, Has, Mine
      <4>. QED  BY <1>4, <2>2, <4>1, <4>2, <4>3, CasReplaces
    <3>. QED  BY <3>2, <3>3
  <2>3. CASE ledger[leaf] # document /\ ledger[leaf] # Front(document)
    <3>1. Refuse
      BY <1>8, <2>3 DEF CasChecks, leaf, document
    <3>2. Lacking(cmd.req)
      BY <2>3 DEF Lacking, leaf, document
    <3>. QED  BY <1>3, <1>4, <3>1, <3>2, CasRefuses
  <2>4. CASE /\ ~(Released(leaf) # {} \/ ~CandidateFits(cmd.req) \/ ledger[leaf] = None)
             /\ ledger[leaf] # document /\ ledger[leaf] = Front(document)
    <3>1. Write("receipt", "receipted")
      BY <1>8, <2>4 DEF CasChecks, leaf, document
    <3>2. cmd'.at = "receipted"
      BY <1>3, <3>1, Arriving DEF Arrived
    <3>. QED  BY <3>2, AnsweringElsewhere
  <2>. QED  BY <2>1, <2>2, <2>3, <2>4
<1>. QED
  BY <1>6, <1>7, <1>8

LEMMA OthersAnswer ==
  ASSUME Assumptions, LInv,
         \/ ReleaseChecks \/ ReleaseInstalls
         \/ ArchiveChecks \/ ArchiveInstalls \/ ArchiveRechecks \/ ArchiveRemovesMarker
         \/ ArchiveRemovesLedger
         \/ ReclaimChecks \/ ReclaimRemoves \/ ReclaimStages \/ ReclaimSwaps
         \/ ReclaimRenames \/ ReclaimEnds
  PROVE  Answering'
<1>1. PICK station \in {"release", "release staged", "archive", "archive staged", "archive linked",
                        "members", "ledger member", "reclaim", "prepared", "publish", "swap", "rename",
                        "published"} : At(station)
  BY DEF ReleaseChecks, ReleaseInstalls, ArchiveChecks, ArchiveInstalls, ArchiveRechecks,
     ArchiveRemovesMarker, ArchiveRemovesLedger, ReclaimChecks, ReclaimRemoves, ReclaimStages,
     ReclaimSwaps, ReclaimRenames, ReclaimEnds
<1>2. station \in Stations \ {"recover", "refused"}
  BY DEF Stations, Operations
<1>3. /\ Knows /\ cmd # Idle /\ cmd \in Command /\ cmd.at = station
      /\ station \in Operations => cmd.req.op = station
  BY <1>1, <1>2, Operates, Station
<1>4. cmd.req.op \in {"release", "archive", "reclaim"}
  BY <1>3 DEF Knows, Releasing, Archiving, Reclaiming, Operations
<1>5. cmd'.req = cmd.req
  <2>1. CASE ReleaseChecks \/ ReleaseInstalls
    BY <1>3, <2>1, Arriving DEF ReleaseChecks, ReleaseInstalls, Arrived
  <2>2. CASE ArchiveChecks \/ ArchiveInstalls \/ ArchiveRechecks \/ ArchiveRemovesMarker
    BY <1>3, <2>2, Arriving DEF ArchiveChecks, ArchiveInstalls, ArchiveRechecks, ArchiveRemovesMarker, Arrived
  <2>3. CASE ArchiveRemovesLedger \/ ReclaimChecks
    BY <1>3, <2>3, Arriving DEF ArchiveRemovesLedger, ReclaimChecks, Arrived
  <2>4. CASE ReclaimRemoves \/ ReclaimStages \/ ReclaimSwaps \/ ReclaimRenames \/ ReclaimEnds
    BY <1>3, <2>4, Arriving DEF ReclaimRemoves, ReclaimStages, ReclaimSwaps, ReclaimRenames, ReclaimEnds, Arrived
  <2>. QED  BY <2>1, <2>2, <2>3, <2>4
<1>. QED
  BY <1>4, <1>5, AnsweringElsewhere

\* Taking away what has no business there any more leaves the answer what it is.
LEMMA UnlinkTellsNothingNew ==
  ASSUME Assumptions, LInv, Answering, Unlink
  PROVE  Answering'
<1>1. /\ cmd # Idle /\ cmd.todo # <<>> /\ cmd \in Command /\ Types /\ Knows
      /\ leaf \in Names /\ document \in Docs
  BY Unlinks, Commanded DEF LInv, Knows
<1>2. cmd'.at = cmd.at /\ cmd'.req = cmd.req
  BY <1>1, Unlinks
<1>3. \/ cmd'.todo = cmd.todo
      \/ /\ cmd'.todo = Tail(cmd.todo) /\ bin.phase = "cleared" /\ UNCHANGED <<ledger, files>>
  BY <1>1, Unlinks
<1>4. files' \subseteq files
  BY Unlinks
<1>5. ASSUME NEW kind \in Kinds, Doomed = Mine(kind), bin.phase = "cleared", files' = files
      PROVE  Mine(kind) \notin files'
  <2>1. Mine(kind).kind # "ledger"
    BY DEF Mine, File, Kinds
  <2>2. ~Visible(Doomed)
    BY <1>1, <1>5 DEF Knows, Unlinking, Doomed
  <2>. QED  BY <1>5, <2>1, <2>2 DEF Visible
<1>6. ~LedgerMember => ledger' = ledger
  <2>1. ASSUME ~LedgerMember, NEW k \in Kinds, NEW n, NEW d, Doomed = Entry(k, n, d), ledger' = ledger
        PROVE  ledger' = ledger
    BY <2>1
  <2>. QED  BY <1>1, Unlinks
<1>7. LedgerMember => cmd.req.op = "archive"
  BY DEF LedgerMember
<1>8. CASE cmd.req.op \notin {"create", "cas"}
  BY <1>2, <1>8, AnsweringElsewhere
<1>9. CASE cmd.req.op = "create" /\ cmd.at = "done"
  <2>1. ledger[leaf] = document /\ cmd.todo = <<Mine("create stage")>>
    BY <1>1, <1>9 DEF Answering, Installed, Knows, Unlinking
  <2>2. Mine("create stage") \in files' => cmd'.todo = <<Mine("create stage")>>
    <3>1. Doomed = Mine("create stage") /\ "create stage" \in Kinds
      BY <2>1, Lists DEF Doomed, Kinds
    <3>. QED  BY <1>3, <1>5, <2>1, <3>1
  <2>3. Installed'
    BY <1>2, <1>6, <1>7, <1>9, <2>1, <2>2, SameMine DEF Installed
  <2>. QED  BY <1>2, <1>9, <2>3 DEF Answering, Replaced, Refused
<1>10. CASE cmd.req.op = "cas" /\ cmd.at = "done"
  <2>1. /\ ledger[leaf] = document /\ ~Here("stage")
        /\ \/ cmd.todo = <<Mine("receipt"), Mine("proof")>>
           \/ cmd.todo = <<Mine("proof")>> /\ ~Here("receipt")
    BY <1>1, <1>10 DEF Knows, Updated
  <2>2. ledger'[leaf] = document
    BY <1>6, <1>7, <1>10, <2>1
  <2>3. \A kind : ~Here(kind) => Mine(kind) \notin files'
    BY <1>1, <1>4, Commanded
  <2>4. CASE cmd.todo = <<Mine("receipt"), Mine("proof")>>
    <3>1. Doomed = Mine("receipt") /\ Tail(cmd.todo) = <<Mine("proof")>> /\ "receipt" \in Kinds
      BY <2>4, Lists DEF Doomed, Kinds
    <3>2. \/ cmd'.todo = <<Mine("receipt"), Mine("proof")>>
          \/ cmd'.todo = <<Mine("proof")>> /\ Mine("receipt") \notin files'
      BY <1>3, <1>5, <2>4, <3>1
    <3>. QED  BY <1>2, <1>10, <2>1, <2>2, <2>3, <3>2, CasReplaces
  <2>5. CASE cmd.todo = <<Mine("proof")>> /\ ~Here("receipt")
    <3>1. Doomed = Mine("proof") /\ Tail(cmd.todo) = <<>> /\ "proof" \in Kinds
      BY <2>5, Lists DEF Doomed, Kinds
    <3>2. \/ cmd'.todo = <<Mine("proof")>> /\ Mine("receipt") \notin files'
          \/ cmd'.todo = <<>> /\ Mine("receipt") \notin files' /\ Mine("proof") \notin files'
      BY <1>3, <1>5, <2>3, <2>5, <3>1
    <3>. QED  BY <1>2, <1>10, <2>1, <2>2, <2>3, <3>2, CasReplaces
  <2>. QED  BY <2>1, <2>4, <2>5
<1>11. CASE cmd.req.op = "cas" /\ cmd.at = "refused"
  <2>1. CASE cmd'.todo # <<>>
    BY <1>2, <1>11, <2>1 DEF Answering, Installed, Replaced, Refused
  <2>2. CASE cmd'.todo = <<>>
    <3>1. cmd'.todo = Tail(cmd.todo) /\ bin.phase = "cleared" /\ files' = files
      BY <1>1, <1>3, <2>2
    <3>2. \/ cmd.todo = <<Mine("proof"), Mine("stage"), Mine("receipt")>>
          \/ cmd.todo = <<Mine("stage"), Mine("receipt")>>
          \/ cmd.todo = <<Mine("receipt")>> /\ ~Here("proof") /\ ~Here("stage")
      BY <1>1, <1>11 DEF Knows, TakenBack
    <3>3. cmd.todo = <<Mine("receipt")>> /\ ~Here("proof") /\ ~Here("stage")
      <4>1. Tail(<<Mine("proof"), Mine("stage"), Mine("receipt")>>) # <<>>
        BY Lists
      <4>2. Tail(<<Mine("stage"), Mine("receipt")>>) # <<>>
        BY Lists
      <4>. QED  BY <2>2, <3>1, <3>2, <4>1, <4>2
    <3>4. Doomed = Mine("receipt") /\ "receipt" \in Kinds
      BY <3>3, Lists DEF Doomed, Kinds
    <3>5. \A kind \in {"receipt", "stage", "proof"} : Mine(kind) \notin files'
      BY <1>1, <1>4, <1>5, <3>1, <3>3, <3>4, Commanded
    <3>6. Refused'
      BY <1>2, <3>5, SameMine DEF Refused
    <3>. QED  BY <1>2, <1>11, <3>6 DEF Answering, Installed, Replaced
  <2>. QED  BY <2>1, <2>2
<1>12. CASE cmd.at \notin {"done", "refused"} \/ (cmd.req.op = "create" /\ cmd.at # "done")
  BY <1>2, <1>12, AnsweringElsewhere
<1>. QED
  BY <1>8, <1>9, <1>10, <1>11, <1>12

LEMMA AnsweringKeeps ==
  ASSUME Assumptions, LInv, HalvesAreStages, Answering, [Next]_vars
  PROVE  Answering'
<1>1. CASE UNCHANGED vars \/ (\E n \in Names : Drift(n))
  BY <1>1, AnsweringStays DEF vars, Drift, disk
<1>2. CASE Return \/ Crash \/ CrashWriting \/ (\E r \in Requests : Begin(r))
  <2>1. cmd' = Idle \/ cmd'.at = "recover"
    BY <1>2 DEF Return, Crash, CrashWriting, Begin
  <2>. QED  BY <2>1, AnsweringElsewhere
<1>3. CASE RecoverUnlink \/ Inventory
  <2>1. cmd \in Command /\ cmd.at = "recover" /\ cmd.req.op \in Operations /\ Types /\ Files
    <3>1. At("recover") /\ "recover" \in Stations
      BY <1>3 DEF RecoverUnlink, Inventory, Stations
    <3>2. cmd \in Command /\ cmd.at = "recover" /\ Types /\ Files
      BY <3>1, Station
    <3>. QED  BY <3>2, Commanded, Request
  <2>2. Readable
    BY <2>1, Agrees DEF Readable, HalvesAreStages
  <2>3. cmd' = cmd \/ cmd'.at = cmd.req.op
    BY <1>3, <2>1, <2>2, Arriving DEF RecoverUnlink, Inventory, Arrived, HalvesAreStages
  <2>4. cmd'.at \notin {"done", "refused"}
    BY <2>1, <2>3 DEF Operations
  <2>. QED  BY <2>4, AnsweringElsewhere
<1>4. CASE Unlink
  BY <1>4, UnlinkTellsNothingNew
<1>5. CASE CreateChecks \/ CreateInstalls
  BY <1>5, CreateAnswers
<1>6. CASE CasChecks \/ CasStages \/ CasProves \/ CasCommits
  BY <1>6, CasAnswers
<1>7. CASE \/ ReleaseChecks \/ ReleaseInstalls
           \/ ArchiveChecks \/ ArchiveInstalls \/ ArchiveRechecks \/ ArchiveRemovesMarker
           \/ ArchiveRemovesLedger
           \/ ReclaimChecks \/ ReclaimRemoves \/ ReclaimStages \/ ReclaimSwaps
           \/ ReclaimRenames \/ ReclaimEnds
  BY <1>7, OthersAnswer
<1>. QED
  BY <1>1, <1>2, <1>3, <1>4, <1>5, <1>6, <1>7 DEF Next, Step

\* Whatever was killed before: a create or cas that answers "done" has its document installed
\* and nothing of its own left, and a cas that is refused for its evidence alone has taken its
\* files back (create_command, cas_command).
THEOREM Answers ==
  ASSUME Assumptions, "again" \notin Enabled, Torn \subseteq {"stage"}
  PROVE  Spec => [][AnswersAreExact]_vars
<1>1. Init => HalvesAreStages /\ Answering
  BY DEF Init, HalvesAreStages, NoHalves, NoBin, Answering
<1>2. LInv /\ HalvesAreStages /\ Answering /\ [Next]_vars => HalvesAreStages' /\ Answering'
  BY HalvesStay, AnsweringKeeps
<1>3. ASSUME LInv, Answering PROVE AnswersAreExact
  <2>. SUFFICES ASSUME Return, cmd.req.op \in {"create", "cas"}
                PROVE  IF At("done")
                       THEN ledger[leaf] = document /\ OwnFiles(cmd.req) \cap files = {}
                       ELSE cmd.req.op = "cas" /\ ~Lacking(cmd.req) => OwnFiles(cmd.req) \cap files = {}
    BY DEF AnswersAreExact, Lacking, leaf, document
  <2>1. /\ cmd \in Command /\ cmd # Idle /\ cmd.req \in Requests
        /\ cmd.todo = <<>> /\ (At("done") <=> cmd.at = "done")
        /\ ~At("done") => cmd.at = "refused"
    <3>1. cmd.at \in {"done", "refused"} /\ cmd.todo = <<>>
      BY DEF Return, At
    <3>. QED  BY <1>3, <3>1, Commanded DEF LInv, At
  <2>2. ASSUME \A kind \in {"receipt", "stage", "proof"} : ~Here(kind), cmd.req.op = "cas"
        PROVE  OwnFiles(cmd.req) \cap files = {}
    <3>. SUFFICES ASSUME NEW f \in OwnFiles(cmd.req), f \in files PROVE FALSE
      OBVIOUS
    <3>1. f = Mine(f.kind) /\ f.kind \in {"receipt", "stage", "proof"}
      BY <2>1, <2>2, OwnFilesAre DEF Mine
    <3>. QED  BY <1>3, <2>1, <2>2, <3>1, Commanded DEF LInv
  <2>3. CASE cmd.req.op = "create" /\ cmd.at = "done"
    <3>1. ledger[leaf] = document /\ ~Here("create stage")
      BY <1>3, <2>1, <2>3, Lists DEF Answering, Installed
    <3>2. OwnFiles(cmd.req) \cap files = {}
      <4>. SUFFICES ASSUME NEW f \in OwnFiles(cmd.req), f \in files PROVE FALSE
        OBVIOUS
      <4>1. f = Mine("create stage")
        <5>1. f = Mine(f.kind)
          BY <2>1, OwnFilesAre DEF Mine
        <5>2. f.kind = "create stage"
          BY <2>1, <2>3, OwnFilesAre
        <5>. QED  BY <5>1, <5>2
      <4>. QED  BY <1>3, <2>1, <3>1, <4>1, Commanded DEF LInv
    <3>. QED  BY <3>1, <3>2, <2>1, <2>3
  <2>4. CASE cmd.req.op = "cas" /\ cmd.at = "done"
    <3>1. ledger[leaf] = document /\ ~Here("stage") /\ ~Here("receipt") /\ ~Here("proof")
      BY <1>3, <2>1, <2>4, Lists DEF Answering, Replaced
    <3>. QED  BY <2>1, <2>2, <2>4, <3>1
  <2>5. CASE cmd.at = "refused"
    BY <1>3, <2>1, <2>2, <2>5 DEF Answering, Refused
  <2>. QED  BY <2>1, <2>3, <2>4, <2>5
<1>. QED
  BY <1>1, <1>2, <1>3, Invariance, PTL DEF Spec
===============================================================================
