--------------------------- MODULE SourceGeneration ---------------------------
(***************************************************************************)
(* The immutable exports of clean primary checkouts that builds read in    *)
(* place of the checkout (src/atrinik_workspace/workspace.py, the functions*)
(* about source generations, and src/atrinik_workspace/cleanup.py, which   *)
(* collects them): a build exports a commit into a staging directory,      *)
(* publishes it with a rename that replaces nothing, pins it with a shared *)
(* lock, and only then gives back the lease of the checkout.               *)
(*                                                                         *)
(* One checkout, whose commits name the generations.  Users edit and       *)
(* commit without a lease; `sync` takes the lease of the checkout.  Entries*)
(* of a commit are plain, left out of its archive, or pointers to a payload*)
(* kept elsewhere.                                                         *)
(***************************************************************************)
EXTENDS Naturals, FiniteSets

CONSTANTS Builds,     \* builds of profiles that select the checkout's primary
          Heads,      \* commits of the checkout
          Retained,   \* commits whose generation a terminal delivery retains
          Enabled,    \* what happens beside the builds
          Again,      \* builds that start over once they have ended
          MaxName,    \* bound on the transaction directories ever made
          MaxFault,   \* bound on the steps that fail
          MaxCrash,   \* bound on the processes killed and the power losses
          MaxUser     \* bound on what users do

UserKinds == {"edit", "commit", "sync", "tear", "fault", "kill", "power", "clean"}
Pointers == {"payload"}
Entries == {"plain", "ignored"} \cup Pointers

\* What an instance assumes of the constants.
Assumptions ==
  /\ Heads # {} /\ Retained \subseteq Heads
  /\ Enabled \subseteq UserKinds /\ Again \subseteq Builds
  /\ {MaxName, MaxFault, MaxCrash, MaxUser} \subseteq Nat

VARIABLES head, dirty,    \* the checkout
          generation,     \* generation[h]: the directory published for a commit
          durable,        \* the commits whose publication the container's fsync covers
          remains,        \* the transaction directories beside them
          aged,           \* those of both that are older than the grace period
          source,         \* the builds that share the lease of the checkout
          pinned,         \* pinned[h]: the builds that share the lock of a generation
          owner,          \* owner[h]: who has that lock alone
          build,          \* build[b]: where a build is and what it knows
          cleaner,        \* the cleanup that is being applied
          spent           \* how much of each bound is used

vars == <<head, dirty, generation, durable, remains, aged, source, pinned, owner, build,
          cleaner, spent>>
checkout == <<head, dirty>>
locks == <<source, pinned, owner>>

None == "none"
Nobody == "nobody"
Cleaner == "cleaner"
Idle == [at |-> "idle"]
NoItem == [kind |-> None]

Init ==
  /\ head \in Heads /\ dirty = FALSE
  /\ generation = [h \in Heads |-> None]
  /\ durable = {} /\ remains = {}
  /\ aged = [generation |-> {}, name |-> {}]
  /\ source = {}
  /\ pinned = [h \in Heads |-> {}]
  /\ owner = [h \in Heads |-> Nobody]
  /\ build = [b \in Builds |-> Idle]
  /\ cleaner = [at |-> "idle", item |-> NoItem, pending |-> FALSE, resumed |-> FALSE]
  /\ spent = [name |-> 0, fault |-> 0, crash |-> 0, user |-> 0]

-----------------------------------------------------------------------------
(* Builds: the checkout and the generation that is there *)

At(b, station) == build[b].at = station
Go(b, station) == build' = [build EXCEPT ![b].at = station]
Chosen(b) == build[b].head
Unpins(b, h) == pinned' = [pinned EXCEPT ![h] = @ \ {b}]
Whole(h) == generation[h] = "whole"
Sealed(h) == generation[h] \in {"whole", "torn"}
Disowned(h) == generation[h] = "bare"
Synced(h) == durable' = durable \cup {h}
Young(h) == aged' = [aged EXCEPT !.generation = @ \ {h}]

Begin(b) ==
  /\ At(b, "idle")
  /\ source' = source \cup {b}
  /\ build' = [build EXCEPT ![b] = [at |-> "observe"]]
  /\ UNCHANGED <<checkout, generation, durable, remains, aged, pinned, owner, cleaner, spent>>

\* A dirty checkout is read where it is, under its lease.
Observe(b) ==
  /\ At(b, "observe")
  /\ build' = [build EXCEPT ![b] = [at |-> IF dirty THEN "live" ELSE "look", head |-> head,
                                    name |-> 0, spoiled |-> FALSE]]
  /\ UNCHANGED <<checkout, generation, durable, remains, aged, locks, cleaner, spent>>

\* The lock of the commit's generation: shared if there is one, else alone.
Look(b) ==
  LET h == Chosen(b)
  IN  /\ At(b, "look")
      /\ IF generation[h] = None
         THEN Go(b, "exclude") /\ UNCHANGED pinned
         ELSE /\ owner[h] = Nobody
              /\ Go(b, "check") /\ pinned' = [pinned EXCEPT ![h] = @ \cup {b}]
      /\ UNCHANGED <<checkout, generation, durable, remains, aged, source, owner, cleaner, spent>>

Moved(b) == dirty \/ head # Chosen(b)

\* What there is to reuse: nothing; a refusal when the checkout has moved or the
\* directory is not certainly the wrapper's; a corrupt generation; a whole one,
\* which is flushed again.
CheckShared(b) ==
  LET h == Chosen(b)
  IN  /\ At(b, "check")
      /\ Unpins(b, h)
      /\ \/ generation[h] = None /\ Go(b, "exclude") /\ UNCHANGED durable
         \/ /\ generation[h] # None /\ (Moved(b) \/ Disowned(h))
            /\ Go(b, "fail") /\ UNCHANGED durable
         \/ ~Moved(b) /\ generation[h] = "torn" /\ Go(b, "exclude") /\ UNCHANGED durable
         \/ ~Moved(b) /\ Whole(h) /\ Go(b, "made") /\ Synced(h)
      /\ UNCHANGED <<checkout, generation, remains, aged, source, owner, cleaner, spent>>

Exclude(b) ==
  LET h == Chosen(b)
  IN  /\ At(b, "exclude")
      /\ owner[h] = Nobody /\ pinned[h] = {}
      /\ owner' = [owner EXCEPT ![h] = b]
      /\ Go(b, "check alone")
      /\ UNCHANGED <<checkout, generation, durable, remains, aged, source, pinned, cleaner, spent>>

CheckAlone(b) ==
  LET h == Chosen(b)
  IN  /\ At(b, "check alone")
      /\ \/ generation[h] = None /\ h \notin Retained /\ Go(b, "stage") /\ UNCHANGED durable
         \/ generation[h] = None /\ h \in Retained /\ Go(b, "fail") /\ UNCHANGED durable
         \/ /\ generation[h] # None /\ (Moved(b) \/ Disowned(h))
            /\ Go(b, "fail") /\ UNCHANGED durable
         \/ /\ ~Moved(b) /\ generation[h] = "torn"
            /\ Go(b, IF h \in Retained THEN "fail" ELSE "quarantine") /\ UNCHANGED durable
         \/ ~Moved(b) /\ Whole(h) /\ Go(b, "made") /\ Synced(h)
      /\ UNCHANGED <<checkout, generation, remains, aged, locks, cleaner, spent>>

-----------------------------------------------------------------------------
(* Builds: recovery, export and publication *)

NewName == spent.name + 1
Mine(b) == CHOOSE r \in remains : r.name = build[b].name
Inventory(b) == Mine(b).has
Validated(b) == Inventory(b) = Entries
Becomes(b, entry) == remains' = (remains \ {Mine(b)}) \cup {entry}

\* A corrupt generation is kept under a name of its own.
Quarantine(b) ==
  LET h == Chosen(b)
  IN  /\ At(b, "quarantine")
      /\ generation[h] = "torn"
      /\ spent.name < MaxName
      /\ generation' = [generation EXCEPT ![h] = None]
      /\ durable' = durable \ {h} /\ Young(h)
      /\ remains' = remains \cup {[name |-> NewName, head |-> h, kind |-> "recovery",
                                   has |-> {"plain"}, marked |-> TRUE]}
      /\ build' = [build EXCEPT ![b].at = "settle", ![b].name = NewName]
      /\ spent' = [spent EXCEPT !.name = @ + 1]
      /\ UNCHANGED <<checkout, locks, cleaner>>

Settle(b) ==
  /\ At(b, "settle")
  /\ Go(b, "stage")
  /\ UNCHANGED <<checkout, generation, durable, remains, aged, locks, cleaner, spent>>

\* It changed while it was moved, or the container cannot be flushed.
PutBack(b) ==
  LET h == Chosen(b)
  IN  /\ At(b, "settle") /\ "fault" \in Enabled /\ spent.fault < MaxFault
      /\ generation' = [generation EXCEPT ![h] = "torn"]
      /\ remains' = remains \ {Mine(b)}
      /\ Go(b, "fail")
      /\ spent' = [spent EXCEPT !.fault = @ + 1]
      /\ UNCHANGED <<checkout, durable, aged, locks, cleaner>>

Stage(b) ==
  LET h == Chosen(b)
  IN  /\ At(b, "stage")
      /\ spent.name < MaxName
      /\ remains' = remains \cup {[name |-> NewName, head |-> h, kind |-> "staging",
                                   has |-> {}, marked |-> FALSE]}
      /\ build' = [build EXCEPT ![b].at = "export", ![b].name = NewName]
      /\ spent' = [spent EXCEPT !.name = @ + 1]
      /\ UNCHANGED <<checkout, generation, durable, aged, locks, cleaner>>

\* The archive of the commit, completed from its blobs, then payloads for pointers.
Export(b) ==
  /\ At(b, "export")
  /\ Becomes(b, [Mine(b) EXCEPT !.has = {"plain"}])
  /\ Go(b, "complete")
  /\ UNCHANGED <<checkout, generation, durable, aged, locks, cleaner, spent>>

CompleteArchive(b) ==
  /\ At(b, "complete")
  /\ Becomes(b, [Mine(b) EXCEPT !.has = @ \cup {"ignored"}])
  /\ Go(b, "hydrate")
  /\ UNCHANGED <<checkout, generation, durable, aged, locks, cleaner, spent>>

Hydrate(b) ==
  /\ At(b, "hydrate")
  /\ Becomes(b, [Mine(b) EXCEPT !.has = @ \cup Pointers])
  /\ Go(b, "recheck")
  /\ UNCHANGED <<checkout, generation, durable, aged, locks, cleaner, spent>>

Recheck(b) ==
  /\ At(b, "recheck")
  /\ Go(b, IF Moved(b) THEN "discard" ELSE "validate")
  /\ UNCHANGED <<checkout, generation, durable, remains, aged, locks, cleaner, spent>>

\* Compared with the recorded tree, then sealed, recorded, marked and flushed.
Seal(b) ==
  /\ At(b, "validate")
  /\ IF Validated(b)
     THEN Becomes(b, [Mine(b) EXCEPT !.marked = TRUE]) /\ Go(b, "confirm")
     ELSE UNCHANGED remains /\ Go(b, "discard")
  /\ UNCHANGED <<checkout, generation, durable, aged, locks, cleaner, spent>>

Confirm(b) ==
  /\ At(b, "confirm")
  /\ Go(b, IF Inventory(b) = Entries THEN "publish" ELSE "discard")
  /\ UNCHANGED <<checkout, generation, durable, remains, aged, locks, cleaner, spent>>

Publish(b) ==
  LET h == Chosen(b)
  IN  /\ At(b, "publish")
      /\ IF generation[h] = None
         THEN /\ generation' =
                   [generation EXCEPT ![h] = IF Inventory(b) = Entries THEN "whole" ELSE "torn"]
              /\ remains' = remains \ {Mine(b)} /\ Young(h)
              /\ Go(b, "flush")
         ELSE UNCHANGED <<generation, remains, aged>> /\ Go(b, "discard")
      /\ UNCHANGED <<checkout, durable, locks, cleaner, spent>>

\* What differs from the inventory stays where it was published.
Flush(b) ==
  LET h == Chosen(b)
  IN  /\ At(b, "flush")
      /\ IF Whole(h) THEN Synced(h) /\ Go(b, "made") ELSE UNCHANGED durable /\ Go(b, "fail")
      /\ UNCHANGED <<checkout, generation, remains, aged, locks, cleaner, spent>>

StepStations == {"export", "complete", "hydrate", "recheck", "validate", "confirm", "publish"}

\* A step fails: a command, a read, a write or a comparison.
Fault(b) ==
  /\ "fault" \in Enabled /\ spent.fault < MaxFault
  /\ \/ \E s \in StepStations : At(b, s) /\ Go(b, "discard")
     \/ \E s \in {"check alone", "flush"} : At(b, s) /\ Go(b, "fail")
  /\ spent' = [spent EXCEPT !.fault = @ + 1]
  /\ UNCHANGED <<checkout, generation, durable, remains, aged, locks, cleaner>>

\* The staging directory is emptied, renamed and removed.
Discard(b) ==
  /\ At(b, "discard")
  /\ IF Mine(b).kind = "staging"
     THEN Becomes(b, [Mine(b) EXCEPT !.kind = "tomb", !.has = {}, !.marked = FALSE])
          /\ UNCHANGED build
     ELSE remains' = remains \ {Mine(b)} /\ Go(b, "fail")
  /\ UNCHANGED <<checkout, generation, durable, aged, locks, cleaner, spent>>

-----------------------------------------------------------------------------
(* Builds: reading *)

\* The lock that made the generation is gone before the one that keeps it is taken.
LetGo(b) ==
  LET h == Chosen(b)
  IN  /\ At(b, "made")
      /\ owner' = [owner EXCEPT ![h] = IF @ = b THEN Nobody ELSE @]
      /\ Go(b, "pin")
      /\ UNCHANGED <<checkout, generation, durable, remains, aged, source, pinned, cleaner, spent>>

Pin(b) ==
  LET h == Chosen(b)
  IN  /\ At(b, "pin")
      /\ owner[h] = Nobody
      /\ pinned' = [pinned EXCEPT ![h] = @ \cup {b}]
      /\ Go(b, "revalidate")
      /\ UNCHANGED <<checkout, generation, durable, remains, aged, source, owner, cleaner, spent>>

\* Mutant: only the presence of a pinned generation is checked.
RevalidateExists(b) ==
  LET h == Chosen(b)
  IN  /\ At(b, "revalidate")
      /\ IF generation[h] # None
         THEN Synced(h) /\ source' = source \ {b} /\ Go(b, "compile")
         ELSE UNCHANGED <<durable, source>> /\ Go(b, "fail")
      /\ UNCHANGED <<checkout, generation, remains, aged, pinned, owner, cleaner, spent>>

\* Only then is the lease of the checkout given back.
Revalidate(b) ==
  LET h == Chosen(b)
  IN  /\ At(b, "revalidate")
      /\ IF Whole(h)
         THEN Synced(h) /\ source' = source \ {b} /\ Go(b, "compile")
         ELSE UNCHANGED <<durable, source>> /\ Go(b, "fail")
      /\ UNCHANGED <<checkout, generation, remains, aged, pinned, owner, cleaner, spent>>

Ends(b) ==
  /\ source' = source \ {b}
  /\ pinned' = [h \in Heads |-> pinned[h] \ {b}]
  /\ owner' = [h \in Heads |-> IF owner[h] = b THEN Nobody ELSE owner[h]]
  /\ build' = [build EXCEPT ![b] = IF b \in Again THEN Idle ELSE [at |-> "ended"]]

End(b) ==
  /\ build[b].at \in {"compile", "live", "fail"}
  /\ Ends(b)
  /\ UNCHANGED <<checkout, generation, durable, remains, aged, cleaner, spent>>

-----------------------------------------------------------------------------
(* Cleanup *)

Free(h) == owner[h] = Nobody /\ pinned[h] = {}

GenerationItem(h) == [kind |-> "generation", head |-> h, is |-> generation[h], name |-> 0]
TransactionItem(r) == [kind |-> "transaction", head |-> r.head, is |-> r.kind, name |-> r.name]

\* What is older than the grace period, certainly the wrapper's, and not locked.
Eligible ==
  {GenerationItem(h) : h \in {g \in Heads : Sealed(g) /\ g \in aged.generation}}
  \cup {TransactionItem(r) : r \in {s \in remains : s.kind # "tomb" /\ s.name \in aged.name}}

CleanPreview ==
  /\ "clean" \in Enabled /\ cleaner.at = "idle" /\ ~cleaner.pending
  /\ \E item \in Eligible :
       Free(item.head) /\ cleaner' = [cleaner EXCEPT !.at = "lock", !.item = item]
  /\ UNCHANGED <<checkout, generation, durable, remains, aged, locks, build, spent>>

CleanSkips == cleaner' = [cleaner EXCEPT !.at = "idle", !.item = NoItem]

CleanLock ==
  /\ cleaner.at = "lock"
  /\ IF Free(cleaner.item.head)
     THEN /\ owner' = [owner EXCEPT ![cleaner.item.head] = Cleaner]
          /\ cleaner' = [cleaner EXCEPT !.at = IF cleaner.pending THEN "tear" ELSE "check"]
     ELSE UNCHANGED owner /\ (IF cleaner.pending THEN cleaner' = [cleaner EXCEPT !.at = "idle"]
                                                 ELSE CleanSkips)
  /\ UNCHANGED <<checkout, generation, durable, remains, aged, source, pinned, build, spent>>

\* Mutant: cleanup trusts its preview once it has the lock.
CleanCheckPreviewed ==
  LET item == cleaner.item
  IN  /\ cleaner.at = "check"
      /\ IF item.kind = "transaction" \/ generation[item.head] \in {"whole", "torn"}
         THEN cleaner' = [cleaner EXCEPT !.at = "tear", !.pending = TRUE] /\ UNCHANGED owner
         ELSE CleanSkips /\ owner' = [owner EXCEPT ![item.head] = Nobody]
      /\ UNCHANGED <<checkout, generation, durable, remains, aged, source, pinned, build, spent>>

\* The item as it is now is the one previewed, still old enough.
CleanCheck ==
  LET item == cleaner.item
  IN  /\ cleaner.at = "check"
      /\ IF item \in Eligible
         THEN cleaner' = [cleaner EXCEPT !.at = "tear", !.pending = TRUE] /\ UNCHANGED owner
         ELSE CleanSkips /\ owner' = [owner EXCEPT ![item.head] = Nobody]
      /\ UNCHANGED <<checkout, generation, durable, remains, aged, source, pinned, build, spent>>

Named(item) == {r \in remains : r.name = item.name}

\* Removal makes the directory writable, then takes metadata and marker first.
CleanTear ==
  LET item == cleaner.item
  IN  /\ cleaner.at = "tear"
      /\ IF item.kind = "generation"
         THEN /\ generation' = [generation EXCEPT ![item.head] = IF @ = None THEN None ELSE "bare"]
              /\ UNCHANGED remains
         ELSE /\ remains' = (remains \ Named(item))
                              \cup {[r EXCEPT !.has = {}, !.marked = FALSE] : r \in Named(item)}
              /\ UNCHANGED generation
      /\ cleaner' = [cleaner EXCEPT !.at = "remove"]
      /\ UNCHANGED <<checkout, durable, aged, locks, build, spent>>

CleanRemove ==
  LET item == cleaner.item
  IN  /\ cleaner.at = "remove"
      /\ IF item.kind = "generation"
         THEN /\ generation' = [generation EXCEPT ![item.head] = None]
              /\ durable' = durable \ {item.head} /\ Young(item.head)
              /\ UNCHANGED remains
         ELSE remains' = remains \ Named(item) /\ UNCHANGED <<generation, durable, aged>>
      /\ owner' = [owner EXCEPT ![item.head] = Nobody]
      /\ cleaner' = [at |-> "idle", item |-> NoItem, pending |-> FALSE, resumed |-> FALSE]
      /\ UNCHANGED <<checkout, source, pinned, build, spent>>

\* A removal that began is finished by the next cleanup, whatever stands there.
CleanResume ==
  /\ "clean" \in Enabled /\ cleaner.at = "idle" /\ cleaner.pending
  /\ cleaner' = [cleaner EXCEPT !.at = "lock", !.resumed = TRUE]
  /\ UNCHANGED <<checkout, generation, durable, remains, aged, locks, build, spent>>

-----------------------------------------------------------------------------
(* Users, time and failures *)

User(kind) ==
  /\ kind \in Enabled /\ spent.user < MaxUser
  /\ spent' = [spent EXCEPT !.user = @ + 1]

Edit ==
  /\ User("edit") /\ dirty' = ~dirty
  /\ UNCHANGED <<head, generation, durable, remains, aged, locks, build, cleaner>>

Commit ==
  /\ User("commit") /\ head' \in Heads \ {head} /\ dirty' = FALSE
  /\ UNCHANGED <<generation, durable, remains, aged, locks, build, cleaner>>

\* A command of the wrapper: it needs the lease alone, and a clean checkout.
Sync ==
  /\ User("sync") /\ source = {} /\ ~dirty
  /\ head' \in Heads \ {head}
  /\ UNCHANGED <<dirty, generation, durable, remains, aged, locks, build, cleaner>>

\* Somebody makes a sealed or staged file writable and changes it.
Tear ==
  /\ User("tear")
  /\ \/ \E h \in Heads :
          /\ Whole(h)
          /\ generation' = [generation EXCEPT ![h] = "torn"]
          /\ build' = [b \in Builds |-> IF At(b, "compile") /\ Chosen(b) = h
                                        THEN [build[b] EXCEPT !.spoiled = TRUE] ELSE build[b]]
          /\ UNCHANGED remains
     \/ \E r \in {s \in remains : s.has = Entries} :
          /\ remains' = (remains \ {r}) \cup {[r EXCEPT !.has = {"plain"}]}
          /\ UNCHANGED <<generation, build>>
  /\ UNCHANGED <<checkout, durable, aged, locks, cleaner>>

Age ==
  /\ "clean" \in Enabled
  /\ \/ \E h \in Heads \ aged.generation :
          Sealed(h) /\ aged' = [aged EXCEPT !.generation = @ \cup {h}]
     \/ \E r \in {s \in remains : s.name \notin aged.name} :
          aged' = [aged EXCEPT !.name = @ \cup {r.name}]
  /\ UNCHANGED <<checkout, generation, durable, remains, locks, build, cleaner, spent>>

Crashes(kind) ==
  /\ kind \in Enabled /\ spent.crash < MaxCrash
  /\ spent' = [spent EXCEPT !.crash = @ + 1]

\* A process dies: the kernel gives back its locks, its directories stay.
Kill ==
  /\ Crashes("kill")
  /\ \/ \E b \in Builds :
          /\ build[b].at \notin {"idle", "ended"}
          /\ Ends(b) /\ UNCHANGED cleaner
     \/ /\ cleaner.at # "idle"
        /\ owner' = [h \in Heads |-> IF owner[h] = Cleaner THEN Nobody ELSE owner[h]]
        /\ cleaner' = [cleaner EXCEPT !.at = "idle",
                                      !.item = IF cleaner.pending THEN @ ELSE NoItem]
        /\ UNCHANGED <<source, pinned, build>>
  /\ UNCHANGED <<checkout, generation, durable, remains, aged>>

\* Every process dies, and publications that were not flushed may be undone.
PowerLoss ==
  /\ Crashes("power")
  /\ \E lost \in SUBSET {h \in Heads : Sealed(h) /\ h \notin durable} :
       generation' = [h \in Heads |-> IF h \in lost THEN None ELSE generation[h]]
  /\ source' = {}
  /\ pinned' = [h \in Heads |-> {}] /\ owner' = [h \in Heads |-> Nobody]
  /\ build' = [b \in Builds |-> IF b \in Again THEN Idle ELSE [at |-> "ended"]]
  /\ cleaner' = [cleaner EXCEPT !.at = "idle", !.item = IF cleaner.pending THEN @ ELSE NoItem]
  /\ UNCHANGED <<checkout, durable, remains, aged>>

BuildStep(b) ==
  \/ Observe(b) \/ Look(b) \/ CheckShared(b) \/ Exclude(b) \/ CheckAlone(b)
  \/ Quarantine(b) \/ Settle(b) \/ Stage(b) \/ Export(b) \/ CompleteArchive(b)
  \/ Hydrate(b) \/ Recheck(b) \/ Seal(b) \/ Confirm(b) \/ Publish(b) \/ Flush(b)
  \/ Discard(b) \/ LetGo(b) \/ Pin(b) \/ Revalidate(b) \/ End(b)

CleanStep ==
  CleanPreview \/ CleanLock \/ CleanCheck \/ CleanTear \/ CleanRemove \/ CleanResume

Next ==
  \/ \E b \in Builds : Begin(b) \/ BuildStep(b) \/ PutBack(b) \/ Fault(b)
  \/ CleanStep
  \/ Edit \/ Commit \/ Sync \/ Tear \/ Age \/ Kill \/ PowerLoss

Spec == Init /\ [][Next]_vars

\* Builds go on, time passes, and an operator keeps cleaning up.  Cleanup tries
\* the lock without waiting, so only its repetition is assumed.
FairSpec ==
  /\ Spec
  /\ \A b \in Builds : WF_vars(BuildStep(b))
  /\ WF_vars(Age)
  /\ SF_vars(CleanPreview) /\ WF_vars(CleanCheck \/ CleanTear \/ CleanRemove \/ CleanResume)
  /\ SF_vars(CleanLock)

-----------------------------------------------------------------------------
(* Properties *)

TypeOK ==
  /\ head \in Heads /\ dirty \in BOOLEAN
  /\ generation \in [Heads -> {None, "whole", "torn", "bare"}]
  /\ durable \subseteq Heads /\ source \subseteq Builds
  /\ pinned \in [Heads -> SUBSET Builds]
  /\ owner \in [Heads -> Builds \cup {Nobody, Cleaner}]
  /\ \A r \in remains : r.name \in 1 .. spent.name /\ r.head \in Heads /\ r.has \subseteq Entries
  /\ \A r, s \in remains : r.name = s.name => r = s
  /\ aged.generation \subseteq Heads /\ aged.name \subseteq 1 .. spent.name

\* What a build compiles is the whole commit, unless somebody changed a sealed file
\* under it: no other build and no cleanup takes it away, and what an earlier build
\* left behind half made is never read (_resolved_profile_operation).
ReadsWhole ==
  \A b \in Builds : At(b, "compile") => Whole(Chosen(b)) \/ build[b].spoiled

\* Nor does a power loss: a publication that a killed build never flushed is flushed
\* before another build relies on it (_durably_resync_source_generation).
ReadsDurable ==
  \A b \in Builds : At(b, "compile") => Chosen(b) \in durable

\* Two builds of one commit never make its generation at once
\* (_materialize_primary_source, the lock of the key).
Makes(b) == build[b].at \in StepStations \cup {"quarantine", "settle", "stage", "flush", "discard"}
OneMaker ==
  \A b, c \in Builds : b # c /\ Makes(b) /\ Makes(c) => Chosen(b) # Chosen(c)

\* A lease that is given back early is never needed again: a build without it reads
\* its pinned generation, or has not begun (_resolved_profile_operation).
LeasedOrPinned ==
  \A b \in Builds :
    build[b].at \notin {"idle", "ended"} /\ b \notin source
      => At(b, "compile") /\ b \in pinned[Chosen(b)]

\* A corrupt generation disappears only into a recovery directory or by a cleanup,
\* also when its quarantine is not finished (_quarantine_source_generation).
TornIsKept ==
  [][\A h \in Heads :
       generation[h] = "torn" /\ generation'[h] # "torn" /\ h \in durable
         => \/ \E r \in remains' \ remains : r.kind = "recovery" /\ r.head = h
            \/ cleaner.at = "tear"]_vars

\* Cleanup begins to remove a generation only when nobody reads or makes it and, unless
\* it resumes a removal, when it is past the grace period, whatever was rebuilt since
\* its preview (cleanup.py, _remove).
OnlyStale ==
  [][\A h \in Heads :
       generation[h] # "bare" /\ generation'[h] = "bare"
         => /\ pinned[h] = {} /\ \A b \in Builds : ~(Makes(b) /\ Chosen(b) = h)
            /\ cleaner.resumed \/ h \in aged.generation]_vars
=============================================================================
