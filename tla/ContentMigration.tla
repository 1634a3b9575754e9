--------------------------- MODULE ContentMigration ---------------------------
(***************************************************************************)
(* `migrate content`: profiles that select content-1x are rewritten to     *)
(* content, the managed worktrees among them move to the shared namespace, *)
(* and --restore takes both back (content_migration.py).                   *)
(*                                                                         *)
(* Only the application keeps a journal; a journal found later is left to  *)
(* the operator, who puts back what it records.  A restore has the record. *)
(***************************************************************************)
EXTENDS Naturals, FiniteSets

CONSTANTS Profiles,    \* the classic profiles that select content-1x
          Managed,     \* those whose selector is a managed worktree
          Faults,      \* the operations that may fail
          Killable,    \* the commands that may be killed
          MaxFault, MaxCrash, MaxDrift, MaxEdit

\* What an instance assumes of the constants.
Assumptions ==
  /\ Managed \subseteq Profiles
  /\ Faults \subseteq {"publish", "move", "write", "sync", "record", "unsure", "unlink", "back"}
  /\ Killable \subseteq {"apply", "restore"}
  /\ {MaxFault, MaxCrash, MaxDrift, MaxEdit} \subseteq Nat

VARIABLES
  profile,     \* profile[p]: "original", "replacement" or "edited" bytes
  place,       \* place[p]: the namespace its managed worktree is in, "old" or "new"
  drift,       \* the worktrees that are no longer clean, attached and proven
  pending, record,   \* the journal, "none" or "pending"; the record, "none", "complete" or "restored"
  rows,        \* the profiles the journal or the record is about
  reference,   \* reference[p]: the generations published as references
  cmd,         \* the command: station, kind, what is left, checked, done; busy: the worktrees
               \* that have drifted ever since its last phase began or worktree moved
  budget

vars == <<profile, place, drift, pending, record, rows, reference, cmd, budget>>
Both == {"original", "replacement"}
Idle == [at |-> "idle", kind |-> "apply", todo |-> {}, checked |-> {}, written |-> {}, moved |-> {},
         busy |-> {}, failed |-> FALSE]

TypeOK ==
  /\ profile \in [Profiles -> Both \cup {"edited"}]
  /\ place \in [Managed -> {"old", "new"}] /\ drift \subseteq Managed
  /\ pending \in {"none", "pending"} /\ record \in {"none", "complete", "restored"}
  /\ reference \in [Profiles -> SUBSET (Both \cup {"edited"})]
  /\ cmd.kind \in {"apply", "restore"}
  /\ cmd.at \in {"idle", "locked", "publish", "moves", "profiles", "record", "narrow", "unlink",
                 "back first", "back second", "back references", "back end"}
  /\ cmd.todo \cup cmd.checked \cup cmd.written \cup cmd.moved \cup rows \subseteq Profiles
  /\ cmd.busy \subseteq drift

Init ==
  /\ profile = [p \in Profiles |-> "original"]
  /\ place = [p \in Managed |-> "old"]
  /\ drift = {} /\ pending = "none" /\ record = "none" /\ rows = {}
  /\ reference = [p \in Profiles |-> {"original"}]
  /\ cmd = Idle
  /\ budget = [fault |-> 0, crash |-> 0, drift |-> 0, edit |-> 0]

MayFail(f) == f \in Faults /\ budget.fault < MaxFault
Fail == budget' = [budget EXCEPT !.fault = @ + 1]
Goto(at) == cmd' = [cmd EXCEPT !.at = at]
Phase(at, todo) == cmd' = [cmd EXCEPT !.at = at, !.todo = todo, !.checked = {}, !.busy = drift]
Narrow == reference' = [p \in Profiles |-> {profile[p]}]
NotPublished == MayFail("publish") /\ Fail /\ UNCHANGED reference

\* Both commands take the exclusive lock; one at a time works.
Lock(kind) ==
  /\ cmd.at = "idle"
  /\ cmd' = [Idle EXCEPT !.at = "locked", !.kind = kind]
  /\ UNCHANGED <<profile, place, drift, pending, record, rows, reference, budget>>

\* The audit: what the record says is what is there.
Recorded == IF record = "restored" THEN "original" ELSE "replacement"
RecordedPlace == IF record = "restored" THEN "old" ELSE "new"
AuditOK ==
  /\ \A p \in rows : profile[p] = Recorded
  /\ \A p \in rows \cap Managed : place[p] = RecordedPlace /\ p \notin drift

\* Mutant: a recorded migration leaves its journal.
RecordKeepsJournal ==
  /\ cmd.at = "locked" /\ cmd.kind = "apply" /\ record # "none"
  /\ cmd' = Idle
  /\ IF AuditOK THEN Narrow ELSE UNCHANGED reference
  /\ UNCHANGED <<profile, place, drift, pending, record, rows, budget>>

\* An application with a record finishes it; one with a journal alone is refused.
HasRecord ==
  /\ cmd.at = "locked" /\ cmd.kind = "apply" /\ record # "none"
  /\ cmd' = Idle
  /\ \/ /\ AuditOK /\ Narrow
        /\ pending' = IF record = "complete" THEN "none" ELSE pending
        /\ UNCHANGED budget
     \/ AuditOK /\ NotPublished /\ UNCHANGED pending
     \/ ~AuditOK /\ UNCHANGED <<reference, pending, budget>>
  /\ UNCHANGED <<profile, place, drift, record, rows>>

\* The profiles still to rewrite; each selector has to be proven, each file understood.
Legacy == {p \in Profiles : profile[p] = "original"}
Proven(p) == p \in Managed => p \notin drift
Inspected ==
  /\ \A p \in Profiles : profile[p] # "edited"
  /\ \A p \in Legacy : Proven(p) /\ (p \in Managed => place[p] = "old")

Inspect ==
  /\ cmd.at = "locked" /\ cmd.kind = "apply" /\ record = "none"
  /\ IF pending = "none" /\ Inspected /\ Legacy # {}
     THEN Goto("publish") /\ pending' = "pending" /\ rows' = Legacy
     ELSE cmd' = Idle /\ UNCHANGED <<pending, rows>>
  /\ UNCHANGED <<profile, place, drift, record, reference, budget>>

EnterRestore ==
  /\ cmd.at = "locked" /\ cmd.kind = "restore"
  /\ IF record = "complete" /\ AuditOK THEN Goto("publish") ELSE cmd' = Idle
  /\ UNCHANGED <<profile, place, drift, pending, record, rows, reference, budget>>

\* An application moves the worktrees first, a restore the profiles.
First == IF cmd.kind = "apply" THEN "moves" ELSE "profiles"
Second == IF cmd.kind = "apply" THEN "profiles" ELSE "moves"
Left(at) == IF at = "moves" THEN rows \cap Managed ELSE rows
From == IF cmd.kind = "apply" THEN "original" ELSE "replacement"
To == IF cmd.kind = "apply" THEN "replacement" ELSE "original"
NewPlace == IF cmd.kind = "apply" THEN "new" ELSE "old"
OldPlace == IF cmd.kind = "apply" THEN "old" ELSE "new"
Rollback == cmd' = [cmd EXCEPT !.at = "back first", !.checked = {}, !.busy = drift,
                               !.todo = IF cmd.kind = "apply" THEN cmd.written ELSE cmd.moved]

Publish ==
  /\ cmd.at = "publish"
  /\ \/ /\ reference' = [p \in Profiles |-> {profile[p]} \cup IF p \in rows THEN Both ELSE {}]
        /\ Phase(First, Left(First)) /\ UNCHANGED budget
     \/ NotPublished /\ Rollback
  /\ UNCHANGED <<profile, place, drift, pending, record, rows>>

\* Applying, a worktree is proven again before Git moves it.
Prove(p) ==
  /\ cmd.at = "moves" /\ cmd.kind = "apply" /\ p \in cmd.todo /\ cmd.checked = {}
  /\ IF Proven(p) THEN cmd' = [cmd EXCEPT !.checked = {p}] ELSE Rollback
  /\ UNCHANGED <<profile, place, drift, pending, record, rows, reference, budget>>

\* Git moves it with whatever it holds by now.
Move(p) ==
  /\ cmd.at = "moves" /\ p \in cmd.todo /\ (cmd.kind = "apply" => p \in cmd.checked)
  /\ \/ /\ place' = [place EXCEPT ![p] = NewPlace]
        /\ cmd' = [cmd EXCEPT !.todo = @ \ {p}, !.checked = {}, !.moved = @ \cup {p}, !.busy = drift]
        /\ UNCHANGED budget
     \/ MayFail("move") /\ Fail /\ Rollback /\ UNCHANGED place
  /\ UNCHANGED <<profile, drift, pending, record, rows, reference>>

\* The bytes are compared, then replaced.
Check(p) ==
  /\ cmd.at = "profiles" /\ p \in cmd.todo /\ cmd.checked = {}
  /\ IF profile[p] = From THEN cmd' = [cmd EXCEPT !.checked = {p}] ELSE Rollback
  /\ UNCHANGED <<profile, place, drift, pending, record, rows, reference, budget>>

\* A directory that cannot be synchronised looks like a replacement that never happened.
Write(p) ==
  /\ cmd.at = "profiles" /\ p \in cmd.checked
  /\ \/ /\ profile' = [profile EXCEPT ![p] = To]
        /\ cmd' = [cmd EXCEPT !.todo = @ \ {p}, !.checked = {}, !.written = @ \cup {p}]
        /\ UNCHANGED budget
     \/ MayFail("write") /\ Fail /\ Rollback /\ UNCHANGED profile
     \/ MayFail("sync") /\ Fail /\ Rollback /\ profile' = [profile EXCEPT ![p] = To]
  /\ UNCHANGED <<place, drift, pending, record, rows, reference>>

NextPhase ==
  /\ cmd.todo = {}
  /\ \/ cmd.at = First /\ Phase(Second, Left(Second))
     \/ cmd.at = Second /\ Goto("record")
  /\ UNCHANGED <<profile, place, drift, pending, record, rows, reference, budget>>

Record ==
  /\ cmd.at = "record"
  /\ LET done == IF cmd.kind = "apply" THEN "complete" ELSE "restored" IN
     \/ record' = done /\ Goto("narrow") /\ UNCHANGED budget
     \/ record' = done /\ MayFail("unsure") /\ Fail /\ cmd' = Idle
     \/ MayFail("record") /\ Fail /\ Rollback /\ UNCHANGED record
  /\ UNCHANGED <<profile, place, drift, pending, rows, reference>>

NarrowReferences ==
  /\ cmd.at = "narrow"
  /\ \/ /\ Narrow /\ UNCHANGED budget
        /\ IF cmd.kind = "apply" THEN Goto("unlink") ELSE cmd' = Idle
     \/ NotPublished /\ cmd' = Idle
  /\ UNCHANGED <<profile, place, drift, pending, record, rows>>

Unlink ==
  /\ cmd.at = "unlink" /\ cmd' = Idle
  /\ \/ pending' = "none" /\ UNCHANGED budget
     \/ MayFail("unlink") /\ Fail /\ UNCHANGED pending
  /\ UNCHANGED <<profile, place, drift, record, rows, reference>>

\* --------------------------------------------------------------- rolling back
\* The reverse order: an application takes back profiles then moves, a restore
\* moves (proven ones) then profiles; what does not match is left and reported.
BackAt == IF cmd.at = "back first" THEN Second ELSE First
Backing(p, kind) == cmd.at \in {"back first", "back second"} /\ p \in cmd.checked /\ BackAt = kind

BackFails(p) == cmd' = [cmd EXCEPT !.todo = @ \ {p}, !.checked = {}, !.failed = TRUE]

\* The bytes, or in a restore the worktree, must still be what the command left.
AsLeft(p) == IF BackAt = "profiles" THEN profile[p] = To ELSE cmd.kind = "restore" => Proven(p)
CheckBack(p) ==
  /\ cmd.at \in {"back first", "back second"} /\ p \in cmd.todo /\ cmd.checked = {}
  /\ IF AsLeft(p) THEN cmd' = [cmd EXCEPT !.checked = {p}] ELSE BackFails(p)
  /\ UNCHANGED <<profile, place, drift, pending, record, rows, reference, budget>>

BackProfile(p) ==
  /\ Backing(p, "profiles")
  /\ \/ /\ profile' = [profile EXCEPT ![p] = From]
        /\ cmd' = [cmd EXCEPT !.todo = @ \ {p}, !.checked = {}]
        /\ UNCHANGED budget
     \/ MayFail("back") /\ Fail /\ BackFails(p) /\ UNCHANGED profile
     \/ MayFail("sync") /\ Fail /\ BackFails(p) /\ profile' = [profile EXCEPT ![p] = From]
  /\ UNCHANGED <<place, drift, pending, record, rows, reference>>

BackMove(p) ==
  /\ Backing(p, "moves")
  /\ \/ /\ place' = [place EXCEPT ![p] = OldPlace]
        /\ cmd' = [cmd EXCEPT !.todo = @ \ {p}, !.checked = {}, !.busy = drift]
        /\ UNCHANGED budget
     \/ MayFail("back") /\ Fail /\ BackFails(p) /\ UNCHANGED place
  /\ UNCHANGED <<profile, drift, pending, record, rows, reference>>

BackPhase ==
  /\ cmd.todo = {}
  /\ \/ cmd.at = "back first" /\ Phase("back second", IF cmd.kind = "apply" THEN cmd.moved ELSE cmd.written)
     \/ cmd.at = "back second" /\ Goto("back references")
  /\ UNCHANGED <<profile, place, drift, pending, record, rows, reference, budget>>

BackReferences ==
  /\ cmd.at = "back references"
  /\ \/ Narrow /\ Goto("back end") /\ UNCHANGED budget
     \/ NotPublished /\ cmd' = [cmd EXCEPT !.at = "back end", !.failed = TRUE]
  /\ UNCHANGED <<profile, place, drift, pending, record, rows>>

\* The journal of an application goes only when all is back.
BackEnd ==
  /\ cmd.at = "back end" /\ cmd' = Idle
  /\ pending' = IF cmd.kind = "apply" /\ ~cmd.failed THEN "none" ELSE pending
  /\ UNCHANGED <<profile, place, drift, record, rows, reference, budget>>

\* ------------------------------------------------------------------ the world
Crash ==
  /\ cmd.at # "idle" /\ cmd.kind \in Killable /\ budget.crash < MaxCrash
  /\ cmd' = Idle
  /\ budget' = [budget EXCEPT !.crash = @ + 1]
  /\ UNCHANGED <<profile, place, drift, pending, record, rows, reference>>

\* Users work in a worktree without a lock, and clean it up again.
Drift(p) ==
  /\ p \notin drift /\ budget.drift < MaxDrift
  /\ drift' = drift \cup {p} /\ budget' = [budget EXCEPT !.drift = @ + 1]
  /\ UNCHANGED <<profile, place, pending, record, rows, reference, cmd>>

Settle(p) ==
  /\ p \in drift /\ drift' = drift \ {p}
  /\ cmd' = [cmd EXCEPT !.busy = @ \ {p}]
  /\ UNCHANGED <<profile, place, pending, record, rows, reference, budget>>

\* Somebody writes to a profile file.
EditProfile(p) ==
  /\ budget.edit < MaxEdit /\ profile[p] # "edited"
  /\ profile' = [profile EXCEPT ![p] = "edited"]
  /\ budget' = [budget EXCEPT !.edit = @ + 1]
  /\ UNCHANGED <<place, drift, pending, record, rows, reference, cmd>>

\* The operator follows the refusal: the exact recorded bytes and paths, then the journal.
RecoverByHand ==
  /\ cmd.at = "idle" /\ pending = "pending" /\ record = "none"
  /\ \A p \in Profiles : profile[p] # "edited"
  /\ profile' = [p \in Profiles |-> IF p \in rows THEN "original" ELSE profile[p]]
  /\ place' = [p \in Managed |-> IF p \in rows THEN "old" ELSE place[p]]
  /\ pending' = "none"
  /\ UNCHANGED <<drift, record, rows, reference, cmd, budget>>

Work ==
  \/ HasRecord \/ Inspect \/ EnterRestore \/ Publish \/ NextPhase \/ Record \/ NarrowReferences \/ Unlink
  \/ BackPhase \/ BackReferences \/ BackEnd
  \/ \E p \in Profiles : Check(p) \/ Write(p) \/ CheckBack(p) \/ BackProfile(p)
  \/ \E p \in Managed : Prove(p) \/ Move(p) \/ BackMove(p)

Next ==
  \/ Work \/ Crash \/ RecoverByHand
  \/ Lock("apply") \/ Lock("restore")
  \/ \E p \in Profiles : EditProfile(p)
  \/ \E p \in Managed : Drift(p) \/ Settle(p)

Spec == Init /\ [][Next]_vars

\* The operator goes on asking for an application until it is recorded and its journal
\* gone, and sooner or later does what a refusal asks for.
Asked == Lock("apply") /\ (record = "none" \/ pending = "pending")
ApplyNext == Work \/ Crash \/ RecoverByHand \/ Asked \/ \E p \in Managed : Drift(p) \/ Settle(p)
ApplySpec == Init /\ [][ApplyNext]_vars /\ WF_vars(Work) /\ WF_vars(Asked) /\ SF_vars(RecoverByHand)
             /\ \A p \in Managed : WF_vars(Settle(p))

\* ------------------------------------------------------------------ properties
\* What is changed before the record is in the journal, through failures and deaths.
Changed == (\E p \in Profiles : profile[p] = "replacement") \/ (\E p \in Managed : place[p] = "new")
ChangedIsJournaled == Changed => pending = "pending" \/ record # "none"

\* Between commands, with no journal left, all of it is migrated or none of it is, and the
\* record says which: no failure of one step leaves some profiles pointing at moved worktrees.
SettledWhole ==
  cmd.at = "idle" /\ pending = "none" =>
    /\ \A p \in Profiles : profile[p] # "edited" => (profile[p] = "replacement" <=> record = "complete")
    /\ \A p \in Managed : place[p] = "new" <=> record = "complete"

\* A record says "restored" only when the old bytes and places are back, "complete" only
\* when the new ones are, whatever is edited later.
RecordedStep ==
  [][record' # record =>
       /\ \A p \in rows : profile[p] \in {IF record' = "restored" THEN "original" ELSE "replacement", "edited"}
       /\ \A p \in rows \cap Managed : place[p] = IF record' = "restored" THEN "old" ELSE "new"]_vars

\* No step of a command leaves a profile with bytes that cleanup sees no reference to.
ReferencesKeepUp ==
  [][\A p \in Profiles : cmd.at # "idle" /\ profile[p] \in reference[p] /\ profile'[p] # "edited"
                           => profile'[p] \in reference'[p]]_vars

\* A worktree in which somebody works since before the previous effect of the command does
\* not move to the new namespace.  What begins between its own proof and Git's move goes along.
OnlyProvenMoves ==
  [][\A p \in Managed : place[p] = "old" /\ place'[p] = "new" => p \notin cmd.busy]_vars
=============================================================================
