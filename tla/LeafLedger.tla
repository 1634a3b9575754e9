------------------------------ MODULE LeafLedger ------------------------------
(***************************************************************************)
(* The life of one leaf ledger (src/scripts/delivery_ledger.py): the       *)
(* document that says what a delivery owns on GitHub and in its worktree,  *)
(* and the order in which it may say so.  An agent reads the ledger and    *)
(* what is live, classifies the two, and either makes the next generation  *)
(* or writes to GitHub what the ledger already intends.                    *)
(*                                                                         *)
(* Several agents work on one ledger.  A write to GitHub may land late,    *)
(* after its agent died, or never.  People edit, commit, push and move     *)
(* the base meanwhile.  How a generation reaches the disk is in LedgerRoot *)
(* and LedgerStore; here it is staged, proved, renamed and settled.        *)
(***************************************************************************)
EXTENDS Integers, FiniteSets

CONSTANTS Agents,     \* the agents
          Start,      \* the ledger the run begins with
          Commands,   \* what agents ask for
          People,     \* what people do
          MaxGen,     \* no agent starts something new from this generation on
          MaxText,    \* the sections an agent may want to write
          MaxCommit,  \* bound on commits of the worktree and of the base
          MaxTouch,   \* bound on the edits and comments of others, and on lost writes
          MaxKill     \* bound on the agents killed

Starts == {"issue", "bound", "adopted"}
Ops == {"worktree", "open", "pull", "refresh", "same", "plan body", "body",
        "cancel body", "plan comment", "comment", "cancel comment", "ready"}
Deeds == {"edit", "touch", "commit", "rewind", "dirty", "push", "base", "fetch", "lose"}

\* What an instance assumes of the constants.
Assumptions ==
  /\ Start \in Starts /\ Commands \subseteq Ops /\ People \subseteq Deeds
  /\ {MaxGen, MaxText, MaxCommit, MaxTouch, MaxKill} \subseteq Nat

VARIABLES ledger,    \* the document
          pending,   \* what a replacement that was cut short leaves beside it
          hub,       \* the pull request, the comments and the branches on GitHub
          tree,      \* the worktree and what it last fetched
          posts,     \* the writes to GitHub that are in the air
          agent,     \* where each agent is and what it knows
          shown,     \* the texts GitHub has shown so far
          spent      \* how much of each bound is used

vars == <<ledger, pending, hub, tree, posts, agent, shown, spent>>

Nobody == "nobody"
NoText == [outside |-> -1, section |-> 0]
Planned == [outside |-> 0, section |-> 0]
NoWrite == [kind |-> "none", node |-> 0, text |-> NoText, id |-> 0]

Body(owner, state, text, stamp) ==
  [owner |-> owner, state |-> state, current |-> text, intended |-> NoText, stamp |-> stamp]
Comment == [state |-> "none", node |-> 0, current |-> 0, intended |-> 0]

\* An issue's ledger plans everything; a pull request's adopts the pull request.
Genesis ==
  [gen |-> 1, base |-> 0, head |-> 0, worktree |-> "planned", pull |-> "planned",
   draft |-> TRUE, ready |-> FALSE, comment |-> Comment,
   body |-> Body("none", "none", NoText, 0)]
Bound ==
  [Genesis EXCEPT !.gen = 3, !.worktree = "created", !.pull = "created",
                  !.body = Body("created", "written", Planned, 0)]
Adopted ==
  [Genesis EXCEPT !.pull = "created", !.body = Body("contributor", "observed", Planned, 0)]

NoPending == [doc |-> Genesis, op |-> "none", write |-> NoWrite, renamed |-> FALSE,
              by |-> Nobody]
Idle == [at |-> "idle", op |-> "none", doc |-> Genesis, next |-> Genesis,
         write |-> NoWrite, hub |-> [open |-> FALSE]]

Init ==
  /\ ledger = CASE Start = "issue" -> Genesis [] Start = "bound" -> Bound
                [] Start = "adopted" -> Adopted
  /\ pending = NoPending
  /\ hub = [open |-> Start # "issue", draft |-> TRUE, head |-> 0, base |-> 0,
            text |-> IF Start = "issue" THEN NoText ELSE Planned, stamp |-> 0,
            comments |-> {}]
  /\ tree = [head |-> 0, base |-> 0, clean |-> TRUE]
  /\ posts = {} /\ shown = {hub.text}
  /\ agent = [a \in Agents |-> Idle]
  /\ spent = [touch |-> 0, kill |-> 0, id |-> 0]

-----------------------------------------------------------------------------
(* What a classification comes to *)

At(a, station) == agent[a].at = station
Go(a, station) == agent' = [agent EXCEPT ![a].at = station]

\* The next generation, and what is written to GitHub once it is installed.
Cas(doc) == {[to |-> "cas", next |-> doc, write |-> NoWrite]}
CasThen(doc, write) == {[to |-> "cas", next |-> doc, write |-> write]}
Post(write) == {[to |-> "post", next |-> Genesis, write |-> write]}
Nothing == {[to |-> "idle", next |-> Genesis, write |-> NoWrite]}
Refused == {}
Write(kind, node, text) == [kind |-> kind, node |-> node, text |-> text, id |-> 0]
Section(s) == [outside |-> 0, section |-> s]
Successor(doc) == [doc EXCEPT !.gen = @ + 1]

Intending(doc) ==
  \/ doc.ready
  \/ doc.body.state = "update-planned"
  \/ doc.comment.state \in {"planned", "in-flight"}

\* The worktree is clean, on its branch, and at this commit.
AtCommit(at, head) == at.head = head /\ at.clean
Fetched(at, doc) == AtCommit(at, doc.head) /\ at.base = doc.base

SamePull(left, right) == [left EXCEPT !.stamp = 0] = [right EXCEPT !.stamp = 0]
Uncommented(live) == live.comments = {}

\* The worktree that was asked for is there, at the commit that was asked for.
WorktreeOutput(doc, at) ==
  IF doc.worktree = "created" THEN IF AtCommit(at, doc.head) THEN Nothing ELSE Refused
  ELSE IF AtCommit(at, doc.head)
    THEN Cas([Successor(doc) EXCEPT !.worktree = "created"]) ELSE Refused

PlannedPayload(doc) ==
  IF doc.pull = "planned" /\ doc.worktree = "created"
    THEN Post(Write("open", 0, Planned)) ELSE Refused

\* The exact open draft with the text that was planned, and no comment of ours.
PullCandidate(doc, live) ==
  [Successor(doc) EXCEPT !.pull = "created", !.draft = TRUE,
                         !.body = Body("created", "written", live.text, live.stamp)]
BoundMatch(doc, live) ==
  /\ doc.pull = "created" /\ doc.body.owner = "created"
  /\ live.draft /\ live.text = doc.body.current

PullBinding(doc, live) ==
  CASE ~live.open \/ ~Uncommented(live) \/ live.base # doc.base \/ live.head # doc.head
         \/ doc.worktree # "created" -> Refused
    [] doc.pull = "planned" /\ live.draft /\ live.text = Planned -> Cas(PullCandidate(doc, live))
    [] BoundMatch(doc, live) -> IF pending.op = "pull" THEN Cas(doc) ELSE Nothing
    [] OTHER -> Refused

\* Only the tips of one target move, and only forward; nothing else is intended.
TargetRefresh(doc, at) ==
  IF \/ doc.worktree # "created" \/ Intending(doc)
     \/ ~at.clean \/ at.head < doc.head \/ at.base < doc.base
     \/ (at.head = doc.head /\ at.base = doc.base)
    THEN Refused
    ELSE Cas([Successor(doc) EXCEPT !.head = at.head, !.base = at.base])

CurrentTargets(doc, at) ==
  IF doc.worktree = "created" /\ Fetched(at, doc)
    THEN Cas(Successor(doc)) ELSE Refused

\* A section of ours at the end of the text as it was last recorded.
BodyPlan(doc, live) ==
  LET body == doc.body
      outcome(s) == [Successor(doc) EXCEPT
        !.body.owner = IF @ = "contributor" THEN "section" ELSE @,
        !.body.state = "update-planned",
        !.body.intended = [outside |-> body.current.outside, section |-> s]]
  IN IF /\ doc.pull = "created" /\ body.state \in {"observed", "written"}
        /\ live.text = body.current
        /\ body.owner = "section" => body.current.section # 0
       THEN UNION {Cas(outcome(s)) : s \in (1 .. MaxText) \ {body.current.section}}
       ELSE Refused

BodyCancelled(doc) ==
  IF doc.body.state # "update-planned" THEN Refused
  ELSE IF doc.body.owner = "section" /\ doc.body.current.section = 0
    THEN Cas([Successor(doc) EXCEPT !.body = Body("contributor", "observed", @.current, @.stamp)])
    ELSE Cas([Successor(doc) EXCEPT !.body.state = "written", !.body.intended = NoText])

\* Where the text on GitHub stands between what is recorded and what is intended.
BodyRecovery(doc, live) ==
  LET body == doc.body
      later == live.stamp > body.stamp
      refreshed == Cas([Successor(doc) EXCEPT !.body.stamp = live.stamp])
  IN CASE doc.pull # "created" -> Refused
       [] body.owner = "contributor" ->
            IF later THEN Cas([Successor(doc) EXCEPT !.body.current = live.text,
                                                     !.body.stamp = live.stamp])
            ELSE IF live.text = body.current THEN Nothing ELSE Refused
       [] body.state = "update-planned" /\ live.text = body.current ->
            IF later THEN refreshed ELSE Post(Write("body", 0, body.intended))
       [] body.state = "update-planned" /\ live.text = body.intended ->
            Cas([Successor(doc) EXCEPT !.body = Body(@.owner, "written", live.text, live.stamp)])
       [] body.state = "written" /\ live.text = body.current ->
            IF later THEN refreshed ELSE Nothing
       [] OTHER -> Refused

CommentPlan(doc) ==
  IF doc.pull # "created" \/ doc.comment.state \notin {"none", "bound"} THEN Refused
  ELSE UNION {Cas([Successor(doc) EXCEPT !.comment.state = "planned", !.comment.intended = s]) :
                s \in (1 .. MaxText) \ {doc.comment.current}}

CommentCancelled(doc) ==
  IF doc.comment.state # "planned" THEN Refused
  ELSE Cas([Successor(doc) EXCEPT !.comment.state = IF doc.comment.node = 0 THEN "none" ELSE "bound",
                                  !.comment.intended = 0])

\* The comments with our marker decide; the intent is in flight before it is written.
CommentRecovery(doc, live) ==
  LET comment == doc.comment
      recorded == IF comment.node = 0 THEN {}
                  ELSE {[node |-> comment.node, text |-> comment.current]}
      intended == {c \in live.comments : c.text = comment.intended}
      write == Write("comment", comment.node, Section(comment.intended))
  IN CASE doc.pull # "created" \/ Cardinality(live.comments) > 1 -> Refused
       [] comment.state \in {"none", "bound"} ->
            IF live.comments = recorded THEN Nothing ELSE Refused
       [] comment.state = "planned" ->
            IF live.comments = recorded
              THEN CasThen([Successor(doc) EXCEPT !.comment.state = "in-flight"], write)
              ELSE Refused
       [] comment.state = "in-flight" /\ intended # {} ->
            IF comment.node = 0 \/ \A c \in intended : c.node = comment.node
              THEN UNION {Cas([Successor(doc) EXCEPT !.comment =
                            [state |-> "bound", node |-> c.node, current |-> c.text,
                             intended |-> 0]]) : c \in intended}
              ELSE Refused
       [] comment.state = "in-flight" /\ intended = {} ->
            IF comment.node # 0 /\ live.comments = recorded THEN Post(write) ELSE Refused

\* A draft is made ready on GitHub between an intent and its record.
ReadyTransition(doc, live) ==
  IF doc.pull # "created" \/ ~doc.draft THEN Refused
  ELSE IF ~doc.ready THEN Cas([Successor(doc) EXCEPT !.ready = TRUE])
  ELSE IF live.draft THEN Post(Write("ready", 0, NoText))
  ELSE Cas([Successor(doc) EXCEPT !.draft = FALSE, !.ready = FALSE])

Results(op, doc, live, at) ==
  CASE op = "worktree"       -> WorktreeOutput(doc, at)
    [] op = "open"           -> PlannedPayload(doc)
    [] op = "pull"           -> PullBinding(doc, live)
    [] op = "refresh"        -> TargetRefresh(doc, at)
    [] op = "same"           -> CurrentTargets(doc, at)
    [] op = "plan body"      -> BodyPlan(doc, live)
    [] op = "body"           -> BodyRecovery(doc, live)
    [] op = "cancel body"    -> BodyCancelled(doc)
    [] op = "plan comment"   -> CommentPlan(doc)
    [] op = "comment"        -> CommentRecovery(doc, live)
    [] op = "cancel comment" -> CommentCancelled(doc)
    [] op = "ready"          -> ReadyTransition(doc, live)

-----------------------------------------------------------------------------
(* A command *)

Starting == {"refresh", "same", "plan body", "cancel body", "plan comment", "cancel comment"}

Inspect(a, op) ==
  /\ At(a, "idle") /\ op \in Commands
  /\ op \in Starting => ledger.gen < MaxGen
  /\ agent' = [agent EXCEPT ![a] = [Idle EXCEPT !.at = "observe", !.op = op, !.doc = ledger]]
  /\ UNCHANGED <<ledger, pending, hub, tree, posts, shown, spent>>

\* What is live is observed after the ledger was read, and classified with it.
Decide(a) ==
  /\ At(a, "observe")
  /\ LET results == Results(agent[a].op, agent[a].doc, hub, tree)
     IN \/ /\ results = Refused
           /\ agent' = [agent EXCEPT ![a] = Idle]
        \/ \E result \in results :
             agent' = [agent EXCEPT ![a] =
               [Idle EXCEPT !.at = result.to, !.next = result.next, !.write = result.write,
                            !.op = IF result.to = "cas" THEN agent[a].op ELSE @,
                            !.doc = IF result.to = "cas" THEN agent[a].doc ELSE @,
                            !.hub = IF agent[a].op = "pull" /\ result.to = "cas" THEN hub ELSE @]]
  /\ UNCHANGED <<ledger, pending, hub, tree, posts, shown, spent>>

\* The lock of the ledger is free; what is left beside it must be exactly this.
Resumes(a) == pending.op = agent[a].op /\ pending.doc = agent[a].next

Stage(a) ==
  /\ At(a, "cas") /\ pending.by = Nobody
  /\ \/ /\ pending = NoPending /\ ledger = agent[a].doc
        /\ pending' = [doc |-> agent[a].next, op |-> agent[a].op, write |-> agent[a].write,
                       renamed |-> FALSE, by |-> a]
        /\ agent' = [agent EXCEPT ![a] = [@ EXCEPT !.at = "prove", !.doc = Genesis,
                                                   !.next = Genesis]]
     \/ /\ pending # NoPending /\ Resumes(a)
        /\ pending' = [pending EXCEPT !.by = a]
        /\ agent' = [agent EXCEPT ![a] = [@ EXCEPT !.at = "prove", !.doc = Genesis,
                                                   !.next = Genesis, !.write = pending.write]]
     \/ /\ IF pending = NoPending THEN ledger # agent[a].doc ELSE ~Resumes(a)
        /\ agent' = [agent EXCEPT ![a] = Idle]
        /\ UNCHANGED pending
  /\ UNCHANGED <<ledger, hub, tree, posts, shown, spent>>

\* What a dedicated command observed is observed again just before the rename; the
\* generic replacement proves nothing, and a resumed refresh nothing either.
ProvedWorktree(doc) == AtCommit(tree, doc.head)
ProvedTargets(doc) == Fetched(tree, doc)
ProvedRefresh(doc) == pending.renamed \/ Fetched(tree, doc)
ProvedPull(doc, seen) == AtCommit(tree, doc.head) /\ SamePull(hub, seen)

Precommit(a) ==
  CASE pending.op = "worktree" -> ProvedWorktree(pending.doc)
    [] pending.op = "same"     -> ProvedTargets(pending.doc)
    [] pending.op = "refresh"  -> ProvedRefresh(pending.doc)
    [] pending.op = "pull"     -> ProvedPull(pending.doc, agent[a].hub)
    [] OTHER                   -> TRUE

Prove(a) ==
  /\ At(a, "prove")
  /\ \/ /\ Precommit(a)
        /\ Go(a, IF pending.renamed THEN "settle" ELSE "rename")
        /\ UNCHANGED pending
     \/ /\ ~Precommit(a)
        /\ pending' = IF pending.renamed THEN [pending EXCEPT !.by = Nobody] ELSE NoPending
        /\ agent' = [agent EXCEPT ![a] = Idle]
  /\ UNCHANGED <<ledger, hub, tree, posts, shown, spent>>

Rename(a) ==
  /\ At(a, "rename")
  /\ ledger' = pending.doc
  /\ pending' = [pending EXCEPT !.renamed = TRUE]
  /\ Go(a, "settle")
  /\ UNCHANGED <<hub, tree, posts, shown, spent>>

Settle(a) ==
  /\ At(a, "settle")
  /\ pending' = NoPending
  /\ agent' = IF agent[a].write = NoWrite THEN [agent EXCEPT ![a] = Idle]
                         ELSE [agent EXCEPT ![a] = [Idle EXCEPT !.at = "post", !.write = agent[a].write]]
  /\ UNCHANGED <<ledger, hub, tree, posts, shown, spent>>

\* A command that was cut short is run again with the candidate its operator kept;
\* the binding of a pull request makes its candidate anew.
Retry(a) ==
  /\ At(a, "idle") /\ pending # NoPending /\ pending.by = Nobody /\ pending.op # "pull"
  /\ agent' = [agent EXCEPT ![a] = [Idle EXCEPT !.at = "cas", !.op = pending.op,
                                                !.doc = ledger, !.next = pending.doc]]
  /\ UNCHANGED <<ledger, pending, hub, tree, posts, shown, spent>>

-----------------------------------------------------------------------------
(* GitHub, people and the operating system *)

Send(a) ==
  /\ At(a, "post")
  /\ LET creates == agent[a].write.kind = "comment" /\ agent[a].write.node = 0
     IN /\ posts' = posts \cup {[agent[a].write EXCEPT !.id = IF creates THEN spent.id + 1 ELSE 0]}
        /\ spent' = [spent EXCEPT !.id = IF creates THEN @ + 1 ELSE @]
  /\ agent' = [agent EXCEPT ![a] = Idle]
  /\ UNCHANGED <<ledger, pending, hub, tree, shown>>

\* Two changes within one second carry the same time.
Stamped(h) == {h, [h EXCEPT !.stamp = @ + 1]}

Landed(p) ==
  CASE p.kind = "open"  -> IF hub.open THEN {hub}
                           ELSE {[hub EXCEPT !.open = TRUE, !.text = p.text]}
    [] p.kind = "body"  -> IF hub.text = p.text THEN {hub}
                           ELSE Stamped([hub EXCEPT !.text = p.text])
    [] p.kind = "ready" -> IF hub.draft THEN Stamped([hub EXCEPT !.draft = FALSE]) ELSE {hub}
    [] p.kind = "comment" /\ p.node = 0 ->
         Stamped([hub EXCEPT !.comments = @ \cup {[node |-> Cardinality(@) + 1,
                                                   text |-> p.text.section]}])
    [] p.kind = "comment" /\ p.node # 0 ->
         LET updated == [hub EXCEPT !.comments = {[c EXCEPT !.text =
               IF c.node = p.node THEN p.text.section ELSE @] : c \in @}]
         IN IF updated = hub THEN {hub} ELSE Stamped(updated)

Land(p) ==
  /\ posts' = posts \ {p}
  /\ hub' \in Landed(p)
  /\ shown' = shown \cup {hub'.text}
  /\ UNCHANGED <<ledger, pending, tree, agent, spent>>

Lose(p) ==
  /\ "lose" \in People /\ spent.touch < MaxTouch
  /\ posts' = posts \ {p}
  /\ spent' = [spent EXCEPT !.touch = @ + 1]
  /\ UNCHANGED <<ledger, pending, hub, tree, agent, shown>>

Kill(a) ==
  /\ ~At(a, "idle") /\ spent.kill < MaxKill
  /\ spent' = [spent EXCEPT !.kill = @ + 1]
  /\ agent' = [agent EXCEPT ![a] = Idle]
  /\ pending' = IF pending.by = a THEN [pending EXCEPT !.by = Nobody] ELSE pending
  /\ UNCHANGED <<ledger, hub, tree, posts, shown>>

Edit ==
  /\ "edit" \in People /\ hub.open /\ spent.touch < MaxTouch
  /\ spent' = [spent EXCEPT !.touch = @ + 1]
  /\ hub' \in Stamped([hub EXCEPT !.text.outside = spent.touch + 1])
  /\ shown' = shown \cup {hub'.text}
  /\ UNCHANGED <<ledger, pending, tree, posts, agent>>

Touch ==
  /\ "touch" \in People /\ hub.open /\ spent.touch < MaxTouch
  /\ spent' = [spent EXCEPT !.touch = @ + 1]
  /\ hub' = [hub EXCEPT !.stamp = @ + 1]
  /\ UNCHANGED <<ledger, pending, tree, posts, agent, shown>>

Advance ==
  /\ \/ /\ "commit" \in People /\ tree.head < MaxCommit
        /\ tree' = [tree EXCEPT !.head = @ + 1] /\ UNCHANGED hub
     \/ /\ "rewind" \in People /\ tree.head > 0
        /\ tree' = [tree EXCEPT !.head = @ - 1] /\ UNCHANGED hub
     \/ "dirty" \in People /\ tree' = [tree EXCEPT !.clean = ~@] /\ UNCHANGED hub
     \/ "push" \in People /\ hub' = [hub EXCEPT !.head = tree.head] /\ UNCHANGED tree
     \/ /\ "base" \in People /\ hub.base < MaxCommit
        /\ hub' = [hub EXCEPT !.base = @ + 1] /\ UNCHANGED tree
     \/ "fetch" \in People /\ tree' = [tree EXCEPT !.base = hub.base] /\ UNCHANGED hub
  /\ UNCHANGED <<ledger, pending, posts, agent, shown, spent>>

-----------------------------------------------------------------------------
Works(a) ==
  \/ Decide(a) \/ Stage(a) \/ Prove(a) \/ Rename(a) \/ Settle(a) \/ Send(a)

Next ==
  \/ \E a \in Agents : \/ \E op \in Ops : Inspect(a, op)
                       \/ Works(a) \/ Retry(a) \/ Kill(a)
  \/ \E p \in posts : Land(p) \/ Lose(p)
  \/ Edit \/ Touch \/ Advance

Spec == Init /\ [][Next]_vars

Recoveries == {"pull", "body", "comment", "ready"}

\* A command that was started goes on unless it is killed, a write that was sent lands
\* unless it is lost, and agents run again what was cut short or is still intended.
FairSpec ==
  /\ Spec
  /\ \A a \in Agents : WF_vars(Works(a)) /\ SF_vars(Retry(a))
  /\ \A a \in Agents, op \in Recoveries \cap Commands : SF_vars(Inspect(a, op))
  /\ WF_vars(\E p \in posts : Land(p))

-----------------------------------------------------------------------------
(* Properties *)

Texts == [outside : -1 .. MaxTouch, section : 0 .. MaxText]

\* What validate demands of a document, of what the model keeps of it.
Acceptable(doc) ==
  /\ doc.gen \in Nat \ {0} /\ doc.base \in 0 .. MaxCommit /\ doc.head \in 0 .. MaxCommit
  /\ doc.body.owner \in {"none", "created", "section", "contributor"}
  /\ doc.body.state \in {"none", "observed", "update-planned", "written"}
  /\ {doc.body.current, doc.body.intended} \subseteq Texts
  /\ doc.comment.state \in {"none", "planned", "in-flight", "bound"}

\* Every variable has its type, and every document in hand is one the helper accepts.
TypeOK ==
  /\ Acceptable(ledger) /\ Acceptable(pending.doc)
  /\ \A a \in Agents : Acceptable(agent[a].doc) /\ Acceptable(agent[a].next)
  /\ {hub.text} \cup shown \subseteq Texts
  /\ pending.by \in Agents \cup {Nobody}
  /\ \A p \in posts : p.kind \in {"open", "body", "comment", "ready"}

Creations == {p \in posts : p.kind = "comment" /\ p.node = 0}
ToCreate == {a \in Agents : At(a, "post") /\ agent[a].write.kind = "comment"
                                          /\ agent[a].write.node = 0}

\* However agents race, die and run again, at most one comment of ours is created:
\* only the agent whose generation put it in flight writes it
\* (classify_comments, _comment_transition, cas).
OneComment ==
  Cardinality(hub.comments) + Cardinality(Creations) + Cardinality(ToCreate) <= 1

\* A comment that exists or is being created is one the ledger knows to be in flight
\* or bound: no agent forgets it and starts over.
CommentIsKnown ==
  hub.comments # {} \/ Creations # {} \/ ToCreate # {} =>
    ledger.comment.state \in {"in-flight", "bound"} \/ ledger.comment.node # 0

\* A text the ledger records as written was once what GitHub showed, and an intent
\* keeps the text around the section as it was recorded (plan_body_section).
RecordedWasShown ==
  /\ ledger.pull = "created" => ledger.body.current \in shown
  /\ ledger.body.state = "update-planned" =>
       ledger.body.intended.outside = ledger.body.current.outside

\* The target's tips are only recorded forward, and never while something written for
\* the old ones is still intended (_target_refresh_change, _transition).
DriftIsSeparate ==
  <<ledger'.head, ledger'.base>> # <<ledger.head, ledger.base>> =>
    /\ ledger'.head >= ledger.head /\ ledger'.base >= ledger.base
    /\ ~Intending(ledger) /\ ledger'.body = ledger.body

\* No generation is lost: each replaces the one it was made from.
Linear == ledger' # ledger => ledger'.gen = ledger.gen + 1

\* The only writer of a first comment is gone.
Orphaned == ledger.comment.state = "in-flight" /\ ledger.comment.node = 0 /\ hub.comments = {}
=============================================================================
