---------------------------- MODULE JournalPaging ----------------------------
(***************************************************************************)
(* How a cleanup of the cleanup journals finds the journal it has to resume*)
(* among more of them than it may read at once: bounded pages and a durable*)
(* cursor, Cleanup._resumable_journal and _maintenance_recovery_page.      *)
(*                                                                         *)
(* Journal names sort by the time they were made; a legacy name does not   *)
(* tell its request.  Commands of all these requests exclude each other    *)
(* until they return their report; only then is it shown and acknowledged. *)
(***************************************************************************)
EXTENDS Naturals, FiniteSets, FiniteSetsExt

CONSTANTS Commands, Requests,
          MaxName,    \* bound on the journals ever made
          Legacy,     \* the names without a request
          Limit,      \* journals in a page
          MaxCrash    \* bound on the commands killed
CONSTANT NoRequest

Names == 1..MaxName
NoName == 0
\* What an instance assumes of the constants.
Assumptions ==
  /\ Legacy \subseteq Names /\ Limit \in Nat \ {0} /\ MaxName \in Nat
  /\ NoRequest \notin Requests

VARIABLES journal,    \* journal[n]: its request and status
          cursor,     \* the one cursor: request, last name read, journal found so far
          cmd,        \* cmd[c]: station, request, its journal
          crashes

vars == <<journal, cursor, cmd, crashes>>

NoCursor == [req |-> NoRequest, after |-> 0, match |-> NoName]
Idle == [at |-> "idle", req |-> NoRequest, n |-> NoName]
Open == {"in-progress", "complete-pending-output"}
Statuses == Open \cup {"absent", "complete-delivered", "removed"}

OpenOf(r) == {n \in Names : journal[n].req = r /\ journal[n].status \in Open}

\* Old journals in any mixture a history of requests leaves behind.
Init ==
  /\ journal \in [Names -> [req : Requests, status : Statuses \ {"removed"}]]
  /\ \A r \in Requests : Cardinality(OpenOf(r)) <= 1
  /\ \A n \in Names : journal[n].status = "absent" => journal[n].req = CHOOSE r \in Requests : TRUE
  /\ \A n \in Names : n \notin Legacy => journal[n].status = "absent"
  /\ cursor = NoCursor
  /\ cmd = [c \in Commands |-> Idle]
  /\ crashes = 0

There(n) == journal[n].status \notin {"absent", "removed"}
Working == {c \in Commands : cmd[c].at = "work"}

\* The names after the cursor that may belong to r; the first Limit of them are read.
Candidates(r) == {n \in Names : There(n) /\ n > cursor.after /\ (n \in Legacy \/ journal[n].req = r)}

Page(r) == {n \in Candidates(r) : Cardinality({m \in Candidates(r) : m <= n}) <= Limit}
More(r) == Cardinality(Candidates(r)) > Limit

Found(r) == {n \in Page(r) \cup ({cursor.match} \ {NoName}) : n \in OpenOf(r)}
Match(r) == IF Found(r) = {} THEN NoName ELSE CHOOSE n \in Found(r) : TRUE

\* The cursor of another request, a match that is no longer open, two matches:
\* the command fails.
MayScan(c, r) ==
  /\ cmd[c].at = "idle" /\ Working = {}
  /\ cursor.req \in {NoRequest, r}
  /\ cursor.match # NoName => cursor.match \in OpenOf(r)
  /\ Cardinality(Found(r)) <= 1

\* Mutant: the cursor does not keep what was found.
ScanPageForgets(c, r) ==
  /\ MayScan(c, r) /\ More(r)
  /\ cursor' = [req |-> r, after |-> Max(Page(r)), match |-> NoName]
  /\ UNCHANGED <<journal, cmd, crashes>>

\* More journals than a page: the cursor moves on and the command fails.
ScanPage(c, r) ==
  /\ MayScan(c, r) /\ More(r)
  /\ cursor' = [req |-> r, after |-> Max(Page(r)), match |-> Match(r)]
  /\ UNCHANGED <<journal, cmd, crashes>>

\* The last page: the cursor goes, and what was found is resumed or replayed.
ScanEnds(c, r) ==
  /\ MayScan(c, r) /\ ~More(r)
  /\ Found(r) # {}
  /\ cursor' = NoCursor
  /\ cmd' = [cmd EXCEPT ![c] = [at |-> "work", req |-> r, n |-> Match(r)]]
  /\ UNCHANGED <<journal, crashes>>

\* Nothing found: a new journal, named later than every other.  Beyond MaxName
\* it is not followed.
Begin(c, r) ==
  LET n == Max({m \in Names : journal[m].status # "absent"} \cup {0}) + 1 IN
  /\ MayScan(c, r) /\ ~More(r)
  /\ Found(r) = {}
  /\ cursor' = NoCursor
  /\ IF n \in Names
     THEN /\ journal' = [journal EXCEPT ![n] = [req |-> r, status |-> "in-progress"]]
          /\ cmd' = [cmd EXCEPT ![c] = [at |-> "work", req |-> r, n |-> n]]
     ELSE UNCHANGED <<journal, cmd>>
  /\ UNCHANGED crashes

\* A delivered journal is removed.
Retire(c, n) ==
  /\ cmd[c].at = "work"
  /\ journal[cmd[c].n].status = "in-progress" /\ journal[n].status = "complete-delivered"
  /\ journal' = [journal EXCEPT ![n].status = "removed"]
  /\ UNCHANGED <<cursor, cmd, crashes>>

Complete(c) ==
  /\ cmd[c].at = "work"
  /\ journal' = [journal EXCEPT ![cmd[c].n].status = "complete-pending-output"]
  /\ cmd' = [cmd EXCEPT ![c].at = "shown"]
  /\ UNCHANGED <<cursor, crashes>>

\* The report was flushed.  Only the lease of the request is taken; a second
\* acknowledgement changes nothing, one of a removed journal fails.
Acknowledge(c) ==
  /\ cmd[c].at = "shown"
  /\ \A d \in Working : cmd[d].req # cmd[c].req
  /\ journal' = [journal EXCEPT ![cmd[c].n].status = IF There(cmd[c].n) THEN "complete-delivered" ELSE @]
  /\ cmd' = [cmd EXCEPT ![c] = Idle]
  /\ UNCHANGED <<cursor, crashes>>

Crash(c) ==
  /\ cmd[c].at # "idle" /\ crashes < MaxCrash
  /\ crashes' = crashes + 1
  /\ cmd' = [cmd EXCEPT ![c] = Idle]
  /\ UNCHANGED <<journal, cursor>>

Scan(c, r) == ScanPage(c, r) \/ ScanEnds(c, r) \/ Begin(c, r)

Next == \E c \in Commands :
  \/ \E r \in Requests : Scan(c, r)
  \/ \E n \in Names : Retire(c, n)
  \/ Complete(c) \/ Acknowledge(c) \/ Crash(c)

Spec == Init /\ [][Next]_vars

\* Every request that is begun is repeated; a command that is not killed goes on.
FairSpec ==
  /\ Spec
  /\ \A c \in Commands : WF_vars(Complete(c)) /\ WF_vars(Acknowledge(c))
  /\ \A r \in Requests : SF_vars(\E c \in Commands : Scan(c, r))

-----------------------------------------------------------------------------
\* The cursor is part of some scan and the stations are in range.
TypeOK ==
  /\ journal \in [Names -> [req : Requests, status : Statuses]]
  /\ cursor \in [req : Requests \cup {NoRequest}, after : 0..MaxName, match : 0..MaxName]
  /\ cursor.req = NoRequest => cursor = NoCursor
  /\ cmd \in [Commands -> [at : {"idle", "work", "shown"}, req : Requests \cup {NoRequest}, n : 0..MaxName]]

\* A request never has two unfinished journals: the scan does not begin a new
\* one while an old one stands on a page it has not read or has read before.
OneOpenJournal == \A r \in Requests : Cardinality(OpenOf(r)) <= 1

\* What a command works on is its own open journal.
WorksOnOpen == \A c \in Working : cmd[c].n \in OpenOf(cmd[c].req)

=============================================================================
