------------------------------ MODULE LedgerRoot ------------------------------
(***************************************************************************)
(* The files of the delivery review root and the commands that change them:*)
(* create, cas, release, archive and reclaim of scripts/delivery_ledger.py,*)
(* step by step, with the quarantine an unlink goes through, the inventory *)
(* every command starts with, and the helper killed at any of these steps. *)
(*                                                                         *)
(* A command holds the lock of the root from its first step to its last, so*)
(* the inventories it repeats see what its first one saw and its own files.*)
(* What changes meanwhile is the world outside: whether the evidence of a  *)
(* leaf (its pull request, worktree, resources) can still be proved live.  *)
(* Ledgers of older formats and corrections of heads are left out.         *)
(***************************************************************************)
EXTENDS Naturals, Sequences, SequencesExt, FiniteSets, TLC

CONSTANTS Names, Coords, MaxGen,
          Enabled,    \* the commands operators use; "again": a leaf is created anew although
                      \* its archive is still kept; "patient": what is unfinished is finished
                      \* before anything else is asked
          Torn,       \* what a kill can leave half written: "stage", "receipt", "unlink"
          MaxCrash,   \* bound on the helpers killed
          MaxDrift    \* bound on how often live evidence changes

Operations == {"create", "cas", "release", "archive", "reclaim"}
\* What an instance assumes of the constants.
Assumptions ==
  /\ Enabled \subseteq Operations \cup {"again", "patient"}
  /\ Torn \subseteq {"stage", "receipt", "unlink"}
  /\ MaxGen \in Nat \ {0} /\ MaxCrash \in Nat /\ MaxDrift \in Nat

VARIABLES ledger,   \* ledger[n]: the document under the canonical name n
          files,    \* the other managed files of the root
          torn,     \* those of them that are half written
          bin,      \* the transaction in the quarantine of unlinks
          cmd,      \* the command that runs, if any
          proven,   \* the leaves whose live evidence would be proved now
          crashes, drifts

vars == <<ledger, files, torn, bin, cmd, proven, crashes, drifts>>
disk == <<ledger, files, torn, bin>>
world == <<proven, crashes, drifts>>

Docs == UNION {[1 .. k -> SUBSET Coords] : k \in 1 .. MaxGen}
None == <<>>
Claims(doc) == doc[Len(doc)]

\* What a command is asked: a leaf and the document that is created, installed,
\* released, archived or whose archive is reclaimed.
Requests == {r \in [op : Operations, name : Names, doc : Docs] :
              /\ r.op \in Enabled
              /\ (r.op = "create") => Len(r.doc) = 1
              /\ (r.op = "cas") => Len(r.doc) > 1}

File(kind, r) == [kind |-> kind, name |-> r.name, doc |-> r.doc]
Has(kind, r) == File(kind, r) \in files

NoBin == [phase |-> "none", file |-> [kind |-> "none"]]
Idle == [at |-> "idle"]

Init ==
  /\ ledger = [n \in Names |-> None]
  /\ files = {} /\ torn = {}
  /\ bin = NoBin
  /\ cmd = Idle
  /\ proven = Names
  /\ crashes = 0 /\ drifts = 0

-----------------------------------------------------------------------------
(* The inventory *)

\* A stage is completed when a prefix of it is found; receipts and the stage of
\* a completion are not, and their half does not parse.
Resumed == {"create stage", "stage", "release stage", "archive stage"}

NoHalves == \A f \in torn : f.kind \in Resumed

\* Compact updates: what may stand with what.
UpdatesAgree ==
  \A f \in {g \in files : g.kind \in {"receipt", "stage", "proof"}} :
    LET installed == ledger[f.name] = f.doc
    IN  IF ~Has("receipt", f)
        THEN ~Has("stage", f) /\ installed
        ELSE /\ ledger[f.name] # None
             /\ ~Has("stage", f) =>
                  IF Has("proof", f) THEN installed ELSE ledger[f.name] = Front(f.doc)

Archived(n) == {f.doc : f \in {g \in files : g.kind = "archive" /\ g.name = n}}
Released(n) == {f.doc : f \in {g \in files : g.kind = "release" /\ g.name = n}}

\* A marker speaks of the ledger beside it, unless the leaf is archived, and a
\* leaf has one archive.
RetirementAgrees ==
  \A n \in Names :
    /\ Cardinality(Archived(n)) <= 1
    /\ \A doc \in Released(n) : IF ledger[n] = None THEN Archived(n) # {} ELSE ledger[n] = doc

Snapshot(n, doc) == [name |-> n, doc |-> doc]
Committed == {Snapshot(n, ledger[n]) : n \in {m \in Names : ledger[m] # None}}
Staged == {Snapshot(f.name, f.doc) : f \in {g \in files \ torn : g.kind \in {"create stage", "stage"}}}
ArchivedSnapshots == {Snapshot(f.name, f.doc) : f \in {g \in files : g.kind = "archive"}}
Marked == {Snapshot(f.name, f.doc) : f \in {g \in files : g.kind \in {"release", "archive"}}}

Overlaps(snapshots, inert) ==
  \E a, b \in snapshots \ inert : a.name # b.name /\ Claims(a.doc) \cap Claims(b.doc) # {}

Readable ==
  /\ bin.phase # "torn"
  /\ NoHalves
  /\ UpdatesAgree
  /\ RetirementAgrees
  /\ ~Overlaps(Committed \cup Staged \cup ArchivedSnapshots, Marked)

\* By name, whatever its document: what has a marker or an archive is history.
Historical ==
  {s \in Committed \cup Staged : Released(s.name) # {} \/ Archived(s.name) # {}}
    \cup ArchivedSnapshots

Pending ==
  {f \in files : \/ f.kind \in {"create stage", "receipt", "stage", "release stage", "archive stage",
                                "reclaim receipt", "complete stage"}
                 \/ f.kind = "proof" /\ ~Has("receipt", f)}

OwnFiles(r) ==
  {File(kind, r) : kind \in CASE r.op = "create" -> {"create stage"}
                              [] r.op = "cas" -> {"receipt", "stage", "proof"}
                              [] r.op = "release" -> {"release stage"}
                              [] r.op = "archive" -> {"archive stage"}
                              [] OTHER -> {"reclaim receipt", "complete stage"}}

\* Mutant: what a candidate claims is not compared with the other ledgers.
CandidateFitsAnyClaim(r) ==
  /\ Pending \subseteq OwnFiles(r)

\* Whatever else is pending, of any leaf, is in the way of a candidate.
CandidateFits(r) ==
  /\ Pending \subseteq OwnFiles(r)
  /\ ~Overlaps(Committed \cup Staged \cup ArchivedSnapshots \cup {Snapshot(r.name, r.doc)}, Historical)

\* A release or an archive minds only what is pending for its own leaf.
NothingElsePending(r) == \A f \in Pending \ OwnFiles(r) : f.name # r.name

-----------------------------------------------------------------------------
(* Steps every command is made of *)

At(station) == cmd.at = station /\ cmd.todo = <<>>
Mine(kind) == File(kind, cmd.req)
Present(kind) == Mine(kind) \in files

Go(station) == cmd' = [cmd EXCEPT !.at = station]
GoUnlinking(station, todo) == cmd' = [cmd EXCEPT !.at = station, !.todo = todo]
IfThere(f) == IF f \in files THEN <<f>> ELSE <<>>
Refuse == Go("refused") /\ UNCHANGED disk

\* A file is written whole, or what a kill left of it is completed.
Write(kind, station) ==
  /\ files' = files \cup {Mine(kind)}
  /\ torn' = torn \ {Mine(kind)}
  /\ cmd' = [cmd EXCEPT !.at = station, !.wrote = (Mine(kind) \in torn \/ ~Present(kind))]
  /\ UNCHANGED <<ledger, bin>>

\* A second name for a file that is there: linked, never replacing.
Link(kind, station, todo) ==
  /\ Mine(kind) \notin files
  /\ files' = files \cup {Mine(kind)}
  /\ GoUnlinking(station, todo)
  /\ UNCHANGED <<ledger, torn, bin>>

\* What a killed request left behind, and the request that would finish it.
Unfinished(n) ==
  \/ \E f \in Pending : f.name = n
  \/ \E f \in files : f.kind = "archive" /\ f.name = n /\ (ledger[n] = f.doc \/ Released(n) # {})
Finishes(r) ==
  \/ OwnFiles(r) \cap files # {}
  \/ r.op = "archive" /\ Has("archive", r) /\ (ledger[r.name] = r.doc \/ Released(r.name) # {})

\* Under the lock of the root: no command begins while another runs.
Begin(r) ==
  /\ cmd = Idle
  /\ (r.op = "create" /\ "again" \notin Enabled) => Archived(r.name) = {}
  /\ "patient" \in Enabled => \A q \in Requests : Finishes(q) => Finishes(r)
  /\ cmd' = [at |-> "recover", req |-> r, todo |-> <<>>, wrote |-> FALSE]
  /\ UNCHANGED <<disk, world>>

Visible(f) == IF f.kind = "ledger" THEN ledger[f.name] # None ELSE f \in files

\* The quarantine first: what was moved is finished, what was not is kept.
RecoverUnlink ==
  /\ At("recover") /\ bin # NoBin
  /\ IF bin.phase = "torn"
     THEN Go("refused") /\ UNCHANGED bin
     ELSE /\ bin' = CASE bin.phase \in {"made", "cleared"} -> NoBin
                      [] bin.phase = "moved" -> [bin EXCEPT !.phase = "gone"]
                      [] OTHER -> [bin EXCEPT !.phase = "cleared"]
          /\ UNCHANGED cmd
  /\ UNCHANGED <<ledger, files, torn, world>>

Inventory ==
  /\ At("recover") /\ bin = NoBin
  /\ Go(IF Readable THEN cmd.req.op ELSE "refused")
  /\ UNCHANGED <<disk, world>>

\* One unlink: a directory, a receipt in it, the file moved there, the file
\* gone, the receipt gone, the directory gone.
Unlink ==
  /\ cmd # Idle /\ cmd.todo # <<>>
  /\ LET f == Head(cmd.todo) IN
     CASE bin = NoBin -> bin' = [phase |-> "made", file |-> f] /\ UNCHANGED <<ledger, files, torn, cmd>>
       [] bin.phase = "made" -> bin' = [bin EXCEPT !.phase = "noted"] /\ UNCHANGED <<ledger, files, torn, cmd>>
       [] bin.phase = "noted" ->
            /\ bin' = [bin EXCEPT !.phase = IF Visible(f) THEN "moved" ELSE "cleared"]
            /\ ledger' = IF f.kind = "ledger" THEN [ledger EXCEPT ![f.name] = None] ELSE ledger
            /\ files' = files \ {f}
            /\ torn' = torn \ {f}
            /\ UNCHANGED cmd
       [] bin.phase = "moved" -> bin' = [bin EXCEPT !.phase = "gone"] /\ UNCHANGED <<ledger, files, torn, cmd>>
       [] bin.phase = "gone" -> bin' = [bin EXCEPT !.phase = "cleared"] /\ UNCHANGED <<ledger, files, torn, cmd>>
       [] OTHER -> bin' = NoBin /\ cmd' = [cmd EXCEPT !.todo = Tail(@)] /\ UNCHANGED <<ledger, files, torn>>
  /\ UNCHANGED world

Return ==
  /\ At("done") \/ At("refused")
  /\ cmd' = Idle
  /\ UNCHANGED <<disk, world>>

-----------------------------------------------------------------------------
(* create *)

CreateChecks ==
  /\ At("create")
  /\ LET r == cmd.req IN
     IF ~CandidateFits(r) \/ ledger[r.name] \notin {None, r.doc} THEN Refuse
     ELSE IF ledger[r.name] = r.doc
          THEN GoUnlinking("done", IfThere(Mine("create stage"))) /\ UNCHANGED disk
          ELSE Write("create stage", "staged")
  /\ UNCHANGED world

\* The inventory again, with the candidate in it, and then its name.
CreateInstalls ==
  /\ At("staged")
  /\ IF ~Readable \/ ~CandidateFits(cmd.req) THEN Refuse
     ELSE /\ ledger' = [ledger EXCEPT ![cmd.req.name] = cmd.req.doc]
          /\ GoUnlinking("done", IfThere(Mine("create stage")))
          /\ UNCHANGED <<files, torn, bin>>
  /\ UNCHANGED world

-----------------------------------------------------------------------------
(* cas *)

\* The pull request, worktree and resources a leaf speaks of are as it says.
Live(n) == n \in proven

\* What a generation claims for the first time is proved live before it stands.
Precommit(r) == Claims(r.doc) = Claims(Front(r.doc)) \/ Live(r.name)

\* The rename happened and the helper was killed: the proof file shows whose
\* generation stands there.
CasRetries(r) ==
  IF Has("stage", r) \/ ~Has("proof", r) \/ ~Precommit(r) THEN Refuse
  ELSE GoUnlinking("done", IF Has("receipt", r) THEN <<Mine("receipt"), Mine("proof")>>
                                                ELSE <<Mine("proof")>>) /\ UNCHANGED disk

\* Mutant: a released leaf is updated.
CasChecksReleased ==
  /\ At("cas")
  /\ LET r == cmd.req IN
     IF ~CandidateFits(r) \/ ledger[r.name] = None THEN Refuse
     ELSE IF ledger[r.name] = r.doc THEN CasRetries(r)
     ELSE IF ledger[r.name] # Front(r.doc) THEN Refuse
     ELSE Write("receipt", "receipted")
  /\ UNCHANGED world

CasChecks ==
  /\ At("cas")
  /\ LET r == cmd.req IN
     IF Released(r.name) # {} \/ ~CandidateFits(r) \/ ledger[r.name] = None THEN Refuse
     ELSE IF ledger[r.name] = r.doc THEN CasRetries(r)
     ELSE IF ledger[r.name] # Front(r.doc) THEN Refuse
     ELSE Write("receipt", "receipted")
  /\ UNCHANGED world

CasStages == At("receipted") /\ Write("stage", "cas staged") /\ UNCHANGED world

CasProves ==
  /\ At("cas staged")
  /\ IF Present("proof") THEN Go("proofed") /\ UNCHANGED disk ELSE Link("proof", "proofed", <<>>)
  /\ UNCHANGED world

\* The last proof, and the rename over the predecessor; or all is taken back.
CasCommits ==
  /\ At("proofed")
  /\ IF Precommit(cmd.req)
     THEN /\ ledger' = [ledger EXCEPT ![cmd.req.name] = cmd.req.doc]
          /\ files' = files \ {Mine("stage")}
          /\ GoUnlinking("done", <<Mine("receipt"), Mine("proof")>>)
          /\ UNCHANGED <<torn, bin>>
     ELSE GoUnlinking("refused", <<Mine("proof"), Mine("stage"), Mine("receipt")>>) /\ UNCHANGED disk
  /\ UNCHANGED world

-----------------------------------------------------------------------------
(* release, archive, reclaim *)

ReleaseChecks ==
  /\ At("release")
  /\ LET r == cmd.req IN
     IF ledger[r.name] = None \/ ~NothingElsePending(r) THEN Refuse
     ELSE IF Released(r.name) # {}
          THEN IF Has("release", r) THEN GoUnlinking("done", IfThere(Mine("release stage"))) /\ UNCHANGED disk
                                    ELSE Refuse
     ELSE IF ledger[r.name] # r.doc \/ ~Live(r.name) THEN Refuse
     ELSE Write("release stage", "release staged")
  /\ UNCHANGED world

ReleaseInstalls ==
  /\ At("release staged")
  /\ IF Live(cmd.req.name) THEN Link("release", "done", IfThere(Mine("release stage"))) ELSE Refuse
  /\ UNCHANGED world

ArchiveChecks ==
  /\ At("archive")
  /\ LET r == cmd.req IN
     IF Archived(r.name) # {}
     THEN IF Has("archive", r) /\ r.name \in proven THEN Go("members") /\ UNCHANGED disk ELSE Refuse
     ELSE IF \/ ledger[r.name] # r.doc \/ ~Has("release", r)
             \/ ~NothingElsePending(r) \/ ~Live(r.name)
          THEN Refuse
          ELSE Write("archive stage", "archive staged")
  /\ UNCHANGED world

ArchiveInstalls ==
  /\ At("archive staged")
  /\ IF Live(cmd.req.name) THEN Link("archive", "archive linked", <<>>) ELSE Refuse
  /\ UNCHANGED world

ArchiveRechecks ==
  /\ At("archive linked")
  /\ IF Live(cmd.req.name) THEN Go("members") /\ UNCHANGED disk ELSE Refuse
  /\ UNCHANGED world

\* The members in the order of their names: the marker, then the ledger.  A
\* member that is not what the archive holds stops the removal.
ArchiveRemovesMarker ==
  /\ At("members")
  /\ IF Released(cmd.req.name) \subseteq {cmd.req.doc}
     THEN GoUnlinking("ledger member", IfThere(Mine("release"))) /\ UNCHANGED disk
     ELSE Refuse
  /\ UNCHANGED world

ArchiveRemovesLedger ==
  /\ At("ledger member")
  /\ CASE ledger[cmd.req.name] = None -> GoUnlinking("done", IfThere(Mine("archive stage"))) /\ UNCHANGED disk
       [] ledger[cmd.req.name] = cmd.req.doc ->
            GoUnlinking("done", IF Present("archive stage")
                                THEN <<Mine("ledger"), Mine("archive stage")>>
                                ELSE <<Mine("ledger")>>) /\ UNCHANGED disk
       [] OTHER -> Refuse
  /\ UNCHANGED world

Completed == {f \in files : f.kind = "complete"}

\* The archive is there, or the receipt says that it was taken away.
ReclaimChecks ==
  /\ At("reclaim")
  /\ LET r == cmd.req
         others == \E f \in files : f.kind = "complete stage" /\ f # Mine("complete stage")
     IN
     IF others \/ (Has("complete", r) /\ Has("archive", r)) THEN Refuse
     ELSE IF Has("complete", r) THEN Go("publish") /\ UNCHANGED disk
     ELSE IF ~Has("archive", r)
          THEN IF Has("reclaim receipt", r)
               THEN GoUnlinking("publish", <<Mine("archive")>>) /\ UNCHANGED disk
               ELSE Refuse
     ELSE IF ledger[r.name] # None \/ Released(r.name) # {} THEN Refuse
     ELSE Write("reclaim receipt", "prepared")
  /\ UNCHANGED world

ReclaimRemoves ==
  /\ At("prepared")
  /\ GoUnlinking("publish", IfThere(Mine("archive")))
  /\ UNCHANGED <<disk, world>>

\* The fixed checkpoint: staged, its predecessor unlinked, renamed over it.
ReclaimStages == At("publish") /\ Write("complete stage", "swap") /\ UNCHANGED world

ReclaimSwaps ==
  /\ At("swap")
  /\ IF Present("complete") THEN GoUnlinking("published", IfThere(Mine("complete stage")))
     ELSE GoUnlinking("rename", IF Completed = {} THEN <<>> ELSE <<CHOOSE f \in Completed : TRUE>>)
  /\ UNCHANGED <<disk, world>>

ReclaimRenames ==
  /\ At("rename")
  /\ files' = (files \ {Mine("complete stage")}) \cup {Mine("complete")}
  /\ Go("published")
  /\ UNCHANGED <<ledger, torn, bin, world>>

ReclaimEnds ==
  /\ At("published")
  /\ GoUnlinking("done", IfThere(Mine("reclaim receipt")))
  /\ UNCHANGED <<disk, world>>

-----------------------------------------------------------------------------
(* Kills, and the world outside *)

Crash ==
  /\ cmd # Idle /\ crashes < MaxCrash
  /\ crashes' = crashes + 1
  /\ cmd' = Idle
  /\ UNCHANGED <<disk, proven, drifts>>

\* The file that was written last, and what it counts as, at the stations that
\* follow a write.
WrittenAt ==
  [station \in {"staged", "receipted", "cas staged", "release staged", "archive staged", "prepared",
                "swap"} |->
     CASE station = "staged" -> "create stage"
       [] station = "receipted" -> "receipt"
       [] station = "cas staged" -> "stage"
       [] station = "release staged" -> "release stage"
       [] station = "archive staged" -> "archive stage"
       [] station = "prepared" -> "reclaim receipt"
       [] OTHER -> "complete stage"]
WrittenKind(station) == IF WrittenAt[station] \in Resumed THEN "stage" ELSE "receipt"

\* A kill inside a write leaves a half of the file.
CrashWriting ==
  /\ cmd # Idle /\ crashes < MaxCrash
  /\ \/ /\ cmd.at \in DOMAIN WrittenAt /\ cmd.wrote /\ WrittenKind(cmd.at) \in Torn
        /\ torn' = torn \cup {Mine(WrittenAt[cmd.at])}
        /\ UNCHANGED bin
     \/ /\ cmd.todo # <<>> /\ bin.phase = "noted" /\ "unlink" \in Torn
        /\ bin' = [bin EXCEPT !.phase = "torn"]
        /\ UNCHANGED torn
  /\ crashes' = crashes + 1
  /\ cmd' = Idle
  /\ UNCHANGED <<ledger, files, proven, drifts>>

\* The pull request, the worktree or a resource of a leaf changes.
Drift(n) ==
  /\ drifts < MaxDrift
  /\ drifts' = drifts + 1
  /\ proven' = IF n \in proven THEN proven \ {n} ELSE proven \cup {n}
  /\ UNCHANGED <<disk, cmd, crashes>>

Step ==
  \/ RecoverUnlink \/ Inventory \/ Unlink \/ Return
  \/ CreateChecks \/ CreateInstalls
  \/ CasChecks \/ CasStages \/ CasProves \/ CasCommits
  \/ ReleaseChecks \/ ReleaseInstalls
  \/ ArchiveChecks \/ ArchiveInstalls \/ ArchiveRechecks \/ ArchiveRemovesMarker \/ ArchiveRemovesLedger
  \/ ReclaimChecks \/ ReclaimRemoves \/ ReclaimStages \/ ReclaimSwaps \/ ReclaimRenames \/ ReclaimEnds

Next ==
  \/ Step
  \/ \E r \in Requests : Begin(r)
  \/ Crash \/ CrashWriting
  \/ \E n \in Names : Drift(n)

Spec == Init /\ [][Next]_vars

\* A command that runs goes on, and the operator of an unfinished request
\* repeats it.
RetrySpec ==
  /\ Spec
  /\ WF_vars(Step)
  /\ \A n \in Names, op \in Operations :
       SF_vars(\E r \in Requests : r.name = n /\ r.op = op /\ Finishes(r) /\ Begin(r))

-----------------------------------------------------------------------------
(* Properties *)

Stations == {"recover", "refused", "done", "staged", "receipted", "cas staged", "proofed", "release staged",
             "archive staged", "archive linked", "members", "ledger member", "prepared", "publish", "swap",
             "rename", "published"} \cup Operations

\* The state is what the helper can leave: the type invariant.
TypeOK ==
  /\ ledger \in [Names -> Docs \cup {None}]
  /\ torn \subseteq files
  /\ \A f \in files : f.name \in Names /\ f.doc \in Docs
  /\ Cardinality(Completed) <= 1
  /\ bin.phase \in {"none", "made", "torn", "noted", "moved", "gone", "cleared"}
  /\ cmd # Idle => cmd.at \in Stations /\ cmd.req \in Requests
  /\ proven \subseteq Names

\* Whenever the helper may be called, killed or not, the inventory accepts what
\* it left: a refused inventory refuses every command on every leaf for ever.
RootReadable == cmd = Idle => Readable

\* No coordinate is claimed by two ledgers that are not released, at any step.
NoDoubleClaim ==
  \A m, n \in Names :
    m # n /\ ledger[m] # None /\ ledger[n] # None /\ {m, n} \cap {s.name : s \in Marked} = {}
      => Claims(ledger[m]) \cap Claims(ledger[n]) = {}

\* The same, counting a leaf that was created again after its archive.
Owned(n) == ledger[n] # None /\ ledger[n] \notin Released(n) \cup Archived(n)
ActiveOwnsAlone ==
  \A m, n \in Names : m # n /\ Owned(m) /\ Owned(n) => Claims(ledger[m]) \cap Claims(ledger[n]) = {}

\* A retired leaf stays on record: its document is in its ledger, its archive,
\* the receipt of a reclaim or the last completion, until the next completion.
Kept(n, doc) ==
  \/ ledger[n] # None /\ IsPrefix(doc, ledger[n])
  \/ \E f \in files : f.name = n /\ IsPrefix(doc, f.doc) /\ f.kind \in {"archive", "reclaim receipt", "complete"}
NothingForgotten ==
  \A n \in Names, doc \in Docs :
    Kept(n, doc) => Kept(n, doc)' \/ \E f \in Completed : f.name = n /\ IsPrefix(doc, f.doc)

\* A create or cas that answers leaves its document installed and nothing
\* pending; a cas that is refused for its evidence leaves nothing of its own.
AnswersAreExact ==
  Return /\ cmd.req.op \in {"create", "cas"} =>
    LET r == cmd.req IN
    IF At("done") THEN ledger[r.name] = r.doc /\ OwnFiles(r) \cap files = {}
    ELSE (r.op = "cas" /\ ledger[r.name] = Front(r.doc) /\ Released(r.name) = {} /\ CandidateFits(r))
           => OwnFiles(r) \cap files = {}

\* The root implements the store: every operation happens at one step of it.
Record(n) ==
  IF Archived(n) # {} THEN [is |-> "archived", doc |-> CHOOSE doc \in Archived(n) : TRUE]
  ELSE IF ledger[n] = None THEN [is |-> "absent", doc |-> None]
  ELSE [is |-> IF Released(n) # {} THEN "released" ELSE "active", doc |-> ledger[n]]

Store == INSTANCE LedgerStore WITH record <- [n \in Names |-> Record(n)]
ImplementsStore == Store!Spec
================================================================================
