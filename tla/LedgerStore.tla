------------------------------ MODULE LedgerStore ------------------------------
(***************************************************************************)
(* What the delivery review root promises: each leaf has one record, which *)
(* is created, updated one generation at a time, released, archived and    *)
(* reclaimed, each of them at once, and no coordinate is claimed by two    *)
(* records that are active.  The specification LedgerRoot implements.      *)
(***************************************************************************)
EXTENDS Naturals, Sequences, SequencesExt

CONSTANTS Names,    \* the leaves, by the canonical names of their ledgers
          Coords,   \* what a ledger may claim besides its own issue or pull request
          MaxGen    \* bound on the generations of a ledger

\* A document is the sequence of what its generations claimed: the digests of
\* its history stand for all but the last.
Docs == UNION {[1 .. k -> SUBSET Coords] : k \in 1 .. MaxGen}
None == <<>>
Claims(doc) == doc[Len(doc)]

VARIABLE record    \* record[n]: where the leaf is, and with which document

Absent == [is |-> "absent", doc |-> None]
Free(n, doc) ==
  \A m \in Names \ {n} : record[m].is = "active" => Claims(record[m].doc) \cap Claims(doc) = {}

Become(n, is, doc) == record' = [record EXCEPT ![n] = [is |-> is, doc |-> doc]]

Init == record = [n \in Names |-> Absent]

Create(n, doc) == record[n] = Absent /\ Len(doc) = 1 /\ Free(n, doc) /\ Become(n, "active", doc)

Update(n, doc) ==
  /\ record[n].is = "active" /\ Front(doc) = record[n].doc
  /\ Free(n, doc)
  /\ Become(n, "active", doc)

Release(n) == record[n].is = "active" /\ Become(n, "released", record[n].doc)
Archive(n) == record[n].is = "released" /\ Become(n, "archived", record[n].doc)
Reclaim(n) == record[n].is = "archived" /\ Become(n, "absent", None)

\* An operation takes effect on the record of one leaf.
Next ==
  /\ record' # record
  /\ \E n \in Names : \/ \E doc \in Docs : Create(n, doc) \/ Update(n, doc)
                      \/ Release(n) \/ Archive(n) \/ Reclaim(n)

Spec == Init /\ [][Next]_record
================================================================================
