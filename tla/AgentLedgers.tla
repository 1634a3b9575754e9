---------------------------- MODULE AgentLedgers ----------------------------
(***************************************************************************)
(* The local ledgers of the agents (atrinik_workspace/agent_ledgers.py):   *)
(* one Markdown table, a row to a key, that every worktree of the wrapper  *)
(* shares.  A call merges one row into what it reads under the lock, or    *)
(* replaces what it expects, and publishes the whole file with a rename.   *)
(*                                                                         *)
(* The calls serialize; a person's editor does not ask for the lock.       *)
(***************************************************************************)
EXTENDS Naturals, Sequences, FiniteSets, SequencesExt

CONSTANTS Calls, Keys, Values,
          NoRow,      \* no value: the key has no row
          Absent,     \* there is no file
          Malformed,  \* the file is not a table that can be validated
          AnyContent, \* a caller that does not say what it expects
          Row,        \* Row[c]: the key and the value a call asks for, or Malformed
          Drafts,     \* what an editor may save
          MaxRows,    \* how many rows fit
          Faults, MaxFault, MaxKill, MaxEdit

Tables == [Keys -> Values \cup {NoRow}]
Empty == [k \in Keys |-> NoRow]
Contents == Tables \cup {Absent, Malformed}

Assumptions ==
  /\ NoRow \notin Values /\ Absent \notin Tables /\ Malformed \notin Tables \cup {Absent}
  /\ AnyContent \notin Contents
  /\ Malformed \notin Values
  /\ Row \in [Calls -> [key : Keys, value : Values \cup {Malformed}]]
  /\ Drafts \subseteq Contents /\ Faults \subseteq {"write", "sync"}
  /\ MaxRows \in Nat /\ MaxFault \in Nat /\ MaxKill \in Nat /\ MaxEdit \in Nat

VARIABLES file,     \* the ledger
          temp,     \* temp[c]: the file a call writes beside it
          lock,     \* who has build/.agent-ledgers.lock
          local,    \* the ledger is ignored by Git, and not tracked
          pc, how,  \* where a call is; whether it expects a content, and whether it waits
          seen,     \* seen[c]: what it has read
          next,     \* next[c]: what it will publish
          commits,  \* the calls whose content was published, in their order
          raced,    \* the calls an editor came before, after their second reading
          spent     \* faults, kills and edits so far

vars == <<file, temp, lock, local, pc, how, seen, next, commits, raced, spent>>

Answers == {"refused", "busy", "unchanged", "done", "uncertain"}
Labels == {"idle", "lock", "read", "again", "write", "flush", "replace", "sync", "dead"}
          \cup Answers

TypeOK ==
  /\ file \in Contents /\ temp \in [Calls -> {"none", "torn", "whole"}]
  /\ lock \in SUBSET Calls /\ Cardinality(lock) <= 1 /\ local \in BOOLEAN
  /\ pc \in [Calls -> Labels]
  /\ \A c \in Calls : how[c].expect \in Contents \cup {AnyContent} /\ how[c].wait \in BOOLEAN
  /\ seen \in [Calls -> Contents] /\ next \in [Calls -> Contents]
  /\ commits \in Seq(Calls) /\ raced \subseteq Calls
  /\ spent \in [fault : 0 .. MaxFault, kill : 0 .. MaxKill, edit : 0 .. MaxEdit]

Init ==
  /\ file = Absent /\ temp = [c \in Calls |-> "none"] /\ lock = {} /\ local = TRUE
  /\ pc = [c \in Calls |-> "idle"]
  /\ how = [c \in Calls |-> [expect |-> AnyContent, wait |-> TRUE]]
  /\ seen = [c \in Calls |-> Absent] /\ next = [c \in Calls |-> Absent]
  /\ commits = <<>> /\ raced = {} /\ spent = [fault |-> 0, kill |-> 0, edit |-> 0]

-----------------------------------------------------------------------------
(* Tables *)

\* A new key gets a row after the last one; a known one has its row replaced.
Merge(content, row) == [IF content = Absent THEN Empty ELSE content EXCEPT ![row.key] = row.value]

Valid(content) == /\ content \in Tables
                  /\ Cardinality({k \in Keys : content[k] # NoRow}) \in 1 .. MaxRows

-----------------------------------------------------------------------------
(* A call *)

Go(c, label) == pc' = [pc EXCEPT ![c] = label]
Answer(c, label) == Go(c, label) /\ lock' = lock \ {c}
Fails(kind) == kind \in Faults /\ spent.fault < MaxFault
               /\ spent' = [spent EXCEPT !.fault = @ + 1]

\* A field that is empty, or more than one cell of one line; a key, a status or a time that
\* has not its form.
Acceptable(row) == row.value # Malformed

\* The caller read the ledger before, if it expects a digest.  A path that Git would take
\* is refused before the lock, and again behind it.
Begin(c) ==
  /\ pc[c] = "idle"
  /\ \E expect \in {AnyContent, file}, wait \in BOOLEAN :
       how' = [how EXCEPT ![c] = [expect |-> expect, wait |-> wait]]
  /\ Go(c, IF Acceptable(Row[c]) /\ local THEN "lock" ELSE "refused")
  /\ UNCHANGED <<file, temp, lock, local, seen, next, commits, raced, spent>>

Lock(c) ==
  /\ pc[c] = "lock" /\ lock = {}
  /\ lock' = {c} /\ Go(c, "read")
  /\ UNCHANGED <<file, temp, local, how, seen, next, commits, raced, spent>>

Busy(c) ==
  /\ pc[c] = "lock" /\ lock # {} /\ ~how[c].wait
  /\ Go(c, "busy")
  /\ UNCHANGED <<file, temp, lock, local, how, seen, next, commits, raced, spent>>

\* A digest that is stale, a table that cannot be validated and one that would not fit are
\* refused; a row that is there already changes nothing.
Read(c) ==
  /\ pc[c] = "read"
  /\ seen' = [seen EXCEPT ![c] = file]
  /\ LET candidate == Merge(file, Row[c])
     IN  IF \/ ~local \/ how[c].expect \notin {AnyContent, file}
            \/ file # Absent /\ ~Valid(file)
            \/ ~Valid(candidate)
         THEN Answer(c, "refused") /\ UNCHANGED next
         ELSE IF candidate = file THEN Answer(c, "unchanged") /\ UNCHANGED next
         ELSE next' = [next EXCEPT ![c] = candidate] /\ Go(c, "again") /\ UNCHANGED lock
  /\ UNCHANGED <<file, temp, local, how, commits, raced, spent>>

\* The second reading.
ReadAgain(c) ==
  /\ pc[c] = "again"
  /\ IF file = seen[c] THEN Go(c, "write") /\ UNCHANGED lock ELSE Answer(c, "refused")
  /\ UNCHANGED <<file, temp, local, how, seen, next, commits, raced, spent>>

Write(c) ==
  /\ pc[c] = "write"
  /\ temp' = [temp EXCEPT ![c] = "torn"] /\ Go(c, "flush")
  /\ UNCHANGED <<file, lock, local, how, seen, next, commits, raced, spent>>

Flush(c) ==
  /\ pc[c] = "flush"
  /\ temp' = [temp EXCEPT ![c] = "whole"] /\ Go(c, "replace")
  /\ UNCHANGED <<file, lock, local, how, seen, next, commits, raced, spent>>

\* What was written is removed, unless that fails too.
WriteFails(c) ==
  /\ pc[c] \in {"flush", "replace"} /\ Fails("write")
  /\ temp' \in {temp, [temp EXCEPT ![c] = "none"]} /\ Answer(c, "refused")
  /\ UNCHANGED <<file, local, how, seen, next, commits, raced>>

Replace(c) ==
  /\ pc[c] = "replace"
  /\ file' = next[c] /\ temp' = [temp EXCEPT ![c] = "none"]
  /\ commits' = Append(commits, c) /\ Go(c, "sync")
  /\ UNCHANGED <<lock, local, how, seen, next, raced, spent>>

Sync(c) ==
  /\ pc[c] = "sync"
  /\ Answer(c, "done")
  /\ UNCHANGED <<file, temp, local, how, seen, next, commits, raced, spent>>

\* AgentLedgerCommitUncertain: the content is there, its durability is not known.
SyncFails(c) ==
  /\ pc[c] = "sync" /\ Fails("sync")
  /\ Answer(c, "uncertain")
  /\ UNCHANGED <<file, temp, local, how, seen, next, commits, raced>>

-----------------------------------------------------------------------------
(* Around it *)

Edit ==
  /\ spent.edit < MaxEdit /\ spent' = [spent EXCEPT !.edit = @ + 1]
  /\ \E draft \in Drafts \ {file} : file' = draft
  /\ raced' = raced \cup {c \in Calls : pc[c] \in {"write", "flush", "replace"}}
  /\ UNCHANGED <<temp, lock, local, pc, how, seen, next, commits>>

\* Somebody has Git take the ledger.
Track ==
  /\ local /\ spent.edit < MaxEdit /\ spent' = [spent EXCEPT !.edit = @ + 1]
  /\ local' = FALSE
  /\ UNCHANGED <<file, temp, lock, pc, how, seen, next, commits, raced>>

Kill(c) ==
  /\ pc[c] \notin Answers \cup {"idle", "dead"} /\ spent.kill < MaxKill
  /\ spent' = [spent EXCEPT !.kill = @ + 1]
  /\ Answer(c, "dead")
  /\ UNCHANGED <<file, temp, local, how, seen, next, commits, raced>>

Update(c) == \/ Begin(c) \/ Lock(c) \/ Busy(c) \/ Read(c) \/ ReadAgain(c) \/ Write(c)
             \/ Flush(c) \/ WriteFails(c) \/ Replace(c) \/ Sync(c) \/ SyncFails(c)

Next == (\E c \in Calls : Update(c) \/ Kill(c)) \/ Edit \/ Track

Spec == Init /\ [][Next]_vars

-----------------------------------------------------------------------------
(* Properties *)

\* What the calls that were published make of the ledger, one after the other.
Replayed == FoldLeft(LAMBDA content, c : Merge(content, Row[c]), Absent, commits)

\* Unless an editor was there the ledger is what the published calls make of it, each of
\* them once: no call loses another's row, whatever fails and whoever is killed.
Linear ==
  spent.edit = 0 \/ (~local /\ spent.edit = 1) =>
    /\ file = Replayed
    /\ \A i, j \in DOMAIN commits : commits[i] = commits[j] => i = j

\* Who was told that the row is there is among them, and who was refused is not.
AnswersAreTrue ==
  LET published == {commits[i] : i \in DOMAIN commits}
  IN  \A c \in Calls : /\ pc[c] \in {"done", "uncertain", "sync"} => c \in published
                       /\ c \in published => pc[c] \in {"done", "uncertain", "sync", "dead"}

\* A call replaces exactly what it expects with its row merged into what is there; only an
\* editor that saves between the second reading and the rename loses what it saved.
ReplacesStep ==
  \A c \in Calls : commits' = Append(commits, c) /\ c \notin raced =>
    /\ file' = Merge(file, Row[c])
    /\ how[c].expect \in {AnyContent, file}

ReplacesWhatItRead == [][ReplacesStep]_vars

\* A file half written is never the ledger's, and only a kill or a failure leaves one.
NothingTorn ==
  \A c \in Calls : temp[c] # "none" => pc[c] \in {"flush", "replace", "refused", "dead"}
=============================================================================
