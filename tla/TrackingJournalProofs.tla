------------------------- MODULE TrackingJournalProofs -------------------------
(***************************************************************************)
(* That TrackingJournal sends every operation at most once and binds only  *)
(* what its own request achieved, for any number of coordinators,          *)
(* operations and updates.                                                 *)
(*                                                                         *)
(* The argument rests on Expecting: a coordinator whose snapshot is still  *)
(* the current generation is right about the phase of its operation.  Each *)
(* replacement demands that and makes every other snapshot old, so of all  *)
(* who saw an intent planned one at most claims it, and it alone sends.    *)
(***************************************************************************)
EXTENDS TrackingJournal, FiniteSetTheorems, TLAPS

Expects(c) ==
  /\ at[c] \in {"planning", "planned"} => phase[op[c]] = "absent" /\ Free(op[c])
  /\ at[c] \in {"cancelling", "cancelled", "claim"} => phase[op[c]] = "planned"
  /\ at[c] \in {"send", "await", "confirm", "bind"} => phase[op[c]] = "in-flight"

Expecting ==
  \A c \in Coordinators : /\ snap[c] <= generation
                          /\ snap[c] = generation => Expects(c)

Sending ==
  /\ \A c \in Coordinators : at[c] = "send" =>
       sent[op[c]] = 0 /\ phase[op[c]] \in {"in-flight", "bound"}
  /\ \A c, d \in Coordinators :
       at[c] = "send" /\ at[d] = "send" /\ op[c] = op[d] => c = d

MarkersOwn ==
  /\ \A o \in Marked : Effect[o] \in shown => o \in landed
  /\ \A c \in Coordinators : at[c] = "bind" /\ op[c] \in Marked => op[c] \in landed

IInv == /\ TypeOK
        /\ Expecting
        /\ Sending
        /\ SingleAttempt
        /\ MarkersOwn
        /\ BoundIsOwn
        /\ OneIntentPerTarget

-----------------------------------------------------------------------------
(* Type correctness *)

LEMMA TypeInit == Init => TypeOK
  BY NamesAssumption DEF Init, TypeOK, Phases, Stations, Effects, Shared

\* One step per group of actions that write the same variables.
LEMMA TypeStep == TypeOK /\ [Next]_vars => TypeOK'
<1> SUFFICES ASSUME TypeOK, [Next]_vars PROVE TypeOK'
  OBVIOUS
<1> USE NamesAssumption DEF TypeOK, document, tracker, Goto, End, Replace, Begin
<1>1. ASSUME NEW c \in Coordinators, NEW o \in Operations, Plan(c, o) PROVE TypeOK'
  BY <1>1 DEF Plan, Phases, Stations
<1>2. ASSUME NEW c \in Coordinators, NEW o \in Operations, Cancel(c, o) PROVE TypeOK'
  BY <1>2 DEF Cancel, Phases, Stations
<1>3. ASSUME NEW c \in Coordinators, NEW o \in Operations, Apply(c, o) PROVE TypeOK'
  BY <1>3 DEF Apply, Phases, Stations
<1>4. ASSUME NEW c \in Coordinators, PlanLook(c) \/ CancelLook(c) PROVE TypeOK'
  BY <1>4 DEF PlanLook, CancelLook, Stations
<1>5. ASSUME NEW c \in Coordinators, PlanCommit(c) \/ CancelCommit(c) PROVE TypeOK'
  BY <1>5 DEF PlanCommit, CancelCommit, CanReplace, Phases, Stations
<1>6. ASSUME NEW c \in Coordinators, FindResult(c) \/ FindNothing(c) PROVE TypeOK'
  BY <1>6 DEF FindResult, FindNothing, Stations
<1>7. ASSUME NEW c \in Coordinators, Claim(c) PROVE TypeOK'
  BY <1>7 DEF Claim, CanReplace, Phases, Stations
<1>8. ASSUME NEW c \in Coordinators, Send(c) PROVE TypeOK'
  BY <1>8 DEF Send, Stations
<1>9. ASSUME NEW c \in Coordinators, Answered(c) \/ Confirm(c) PROVE TypeOK'
  BY <1>9 DEF Answered, Confirm, Stations
<1>10. ASSUME NEW c \in Coordinators, Bind(c) PROVE TypeOK'
  BY <1>10 DEF Bind, CanReplace, Phases, Stations
<1>11. ASSUME NEW c \in Coordinators, Stop(c) PROVE TypeOK'
  BY <1>11 DEF Stop, Stations
<1>12. CASE OtherUpdate
  BY <1>12 DEF OtherUpdate
<1>13. ASSUME NEW o \in Operations, Arrive(o) \/ LoseRequest(o) PROVE TypeOK'
  BY <1>13 DEF Arrive, LoseRequest, Effects
<1>14. ASSUME NEW e \in Effects, Edit(e) PROVE TypeOK'
  BY <1>14 DEF Edit
<1>15. CASE UNCHANGED vars
  BY <1>15 DEF vars
<1>16. QED
  BY <1>1, <1>2, <1>3, <1>4, <1>5, <1>6, <1>7, <1>8, <1>9, <1>10, <1>11, <1>12,
     <1>13, <1>14, <1>15 DEF Next, Step

\* Every variable of the journal, its coordinators and the tracker keeps its
\* type, and whoever plans or cancels holds the project lock (Store.locked).
THEOREM TypeCorrect == Spec => []TypeOK
  BY TypeInit, TypeStep, PTL DEF Spec
-----------------------------------------------------------------------------
(* A current snapshot is right *)

\* A replacement makes every other snapshot old; nothing else touches a phase.
LEMMA ExpectingStep == TypeOK /\ Expecting /\ [Next]_vars => Expecting'
<1> SUFFICES ASSUME TypeOK, Expecting, [Next]_vars
             PROVE  Expecting'
  OBVIOUS
<1> USE DEF TypeOK, Expecting, Expects, Free, Unresolved, document, tracker
<1>1. ASSUME NEW c \in Coordinators, NEW o \in Operations, Plan(c, o)
      PROVE  Expecting'
  BY <1>1 DEF Plan, Begin
<1>2. ASSUME NEW c \in Coordinators, NEW o \in Operations, Cancel(c, o)
      PROVE  Expecting'
  BY <1>2 DEF Cancel, Begin
<1>3. ASSUME NEW c \in Coordinators, NEW o \in Operations, Apply(c, o)
      PROVE  Expecting'
  BY <1>3 DEF Apply, Begin
<1>4. ASSUME NEW c \in Coordinators, PlanLook(c) \/ CancelLook(c)
      PROVE  Expecting'
  BY <1>4 DEF PlanLook, CancelLook, Goto
<1>5. ASSUME NEW c \in Coordinators, PlanCommit(c)
      PROVE  Expecting'
  BY <1>5 DEF PlanCommit, CanReplace, Replace, End
<1>6. ASSUME NEW c \in Coordinators, CancelCommit(c)
      PROVE  Expecting'
  BY <1>6 DEF CancelCommit, CanReplace, Replace, End
<1>7. ASSUME NEW c \in Coordinators, FindResult(c)
      PROVE  Expecting'
  BY <1>7 DEF FindResult, Goto
<1>8. ASSUME NEW c \in Coordinators, FindNothing(c)
      PROVE  Expecting'
  BY <1>8 DEF FindNothing, Goto
<1>9. ASSUME NEW c \in Coordinators, Claim(c)
      PROVE  Expecting'
  BY <1>9 DEF Claim, CanReplace, Replace, Goto
<1>10. ASSUME NEW c \in Coordinators, Send(c)
      PROVE  Expecting'
  BY <1>10 DEF Send, Goto
<1>11. ASSUME NEW c \in Coordinators, Answered(c) \/ Confirm(c)
      PROVE  Expecting'
  BY <1>11 DEF Answered, Confirm, Goto
<1>12. ASSUME NEW c \in Coordinators, Bind(c)
      PROVE  Expecting'
  BY <1>12 DEF Bind, CanReplace, Replace, End
<1>13. ASSUME NEW c \in Coordinators, Stop(c)
      PROVE  Expecting'
  BY <1>13 DEF Stop, End
<1>14. CASE OtherUpdate
  BY <1>14 DEF OtherUpdate
<1>15. ASSUME NEW o \in Operations, Arrive(o)
      PROVE  Expecting'
  BY <1>15 DEF Arrive
<1>16. ASSUME NEW o \in Operations, LoseRequest(o)
      PROVE  Expecting'
  BY <1>16 DEF LoseRequest
<1>17. ASSUME NEW e \in Effects, Edit(e)
      PROVE  Expecting'
  BY <1>17 DEF Edit
<1>18. CASE UNCHANGED vars
  BY <1>18 DEF vars
<1>19. QED
  BY <1>1, <1>2, <1>3, <1>4, <1>5, <1>6, <1>7, <1>8, <1>9, <1>10, <1>11,
     <1>12, <1>13, <1>14, <1>15, <1>16, <1>17, <1>18 DEF Next, Step

-----------------------------------------------------------------------------
(* Only the coordinator that claimed an operation sends it *)

\* Claiming finds the operation planned, hence unsent and with no sender.
LEMMA SendingStep ==
  TypeOK /\ Expecting /\ Sending /\ SingleAttempt /\ [Next]_vars => (Sending /\ SingleAttempt)'
<1> SUFFICES ASSUME TypeOK, Expecting, Sending, SingleAttempt, [Next]_vars
             PROVE  (Sending /\ SingleAttempt)'
  OBVIOUS
<1> USE DEF TypeOK, Expecting, Expects, Sending, SingleAttempt, document, tracker
<1>1. ASSUME NEW c \in Coordinators, NEW o \in Operations, Plan(c, o)
      PROVE  (Sending /\ SingleAttempt)'
  BY <1>1 DEF Plan, Begin
<1>2. ASSUME NEW c \in Coordinators, NEW o \in Operations, Cancel(c, o)
      PROVE  (Sending /\ SingleAttempt)'
  BY <1>2 DEF Cancel, Begin
<1>3. ASSUME NEW c \in Coordinators, NEW o \in Operations, Apply(c, o)
      PROVE  (Sending /\ SingleAttempt)'
  BY <1>3 DEF Apply, Begin
<1>4. ASSUME NEW c \in Coordinators, PlanLook(c) \/ CancelLook(c)
      PROVE  (Sending /\ SingleAttempt)'
  BY <1>4 DEF PlanLook, CancelLook, Goto
<1>5. ASSUME NEW c \in Coordinators, PlanCommit(c)
      PROVE  (Sending /\ SingleAttempt)'
  BY <1>5 DEF PlanCommit, CanReplace, Replace, End
<1>6. ASSUME NEW c \in Coordinators, CancelCommit(c)
      PROVE  (Sending /\ SingleAttempt)'
  BY <1>6 DEF CancelCommit, CanReplace, Replace, End
<1>7. ASSUME NEW c \in Coordinators, FindResult(c)
      PROVE  (Sending /\ SingleAttempt)'
  BY <1>7 DEF FindResult, Goto
<1>8. ASSUME NEW c \in Coordinators, FindNothing(c)
      PROVE  (Sending /\ SingleAttempt)'
  BY <1>8 DEF FindNothing, Goto
<1>9. ASSUME NEW c \in Coordinators, Claim(c)
      PROVE  (Sending /\ SingleAttempt)'
  BY <1>9 DEF Claim, CanReplace, Replace, Goto
<1>10. ASSUME NEW c \in Coordinators, Send(c)
      PROVE  (Sending /\ SingleAttempt)'
  BY <1>10 DEF Send, Goto
<1>11. ASSUME NEW c \in Coordinators, Answered(c) \/ Confirm(c)
      PROVE  (Sending /\ SingleAttempt)'
  BY <1>11 DEF Answered, Confirm, Goto
<1>12. ASSUME NEW c \in Coordinators, Bind(c)
      PROVE  (Sending /\ SingleAttempt)'
  BY <1>12 DEF Bind, CanReplace, Replace, End
<1>13. ASSUME NEW c \in Coordinators, Stop(c)
      PROVE  (Sending /\ SingleAttempt)'
  BY <1>13 DEF Stop, End
<1>14. CASE OtherUpdate
  BY <1>14 DEF OtherUpdate
<1>15. ASSUME NEW o \in Operations, Arrive(o)
      PROVE  (Sending /\ SingleAttempt)'
  BY <1>15 DEF Arrive
<1>16. ASSUME NEW o \in Operations, LoseRequest(o)
      PROVE  (Sending /\ SingleAttempt)'
  BY <1>16 DEF LoseRequest
<1>17. ASSUME NEW e \in Effects, Edit(e)
      PROVE  (Sending /\ SingleAttempt)'
  BY <1>17 DEF Edit
<1>18. CASE UNCHANGED vars
  BY <1>18 DEF vars
<1>19. QED
  BY <1>1, <1>2, <1>3, <1>4, <1>5, <1>6, <1>7, <1>8, <1>9, <1>10, <1>11,
     <1>12, <1>13, <1>14, <1>15, <1>16, <1>17, <1>18 DEF Next, Step

-----------------------------------------------------------------------------
(* A marker shows only by the operation's own request *)

\* Binding finds the marker, which nobody else writes.
LEMMA MarkersStep ==
  TypeOK /\ MarkersOwn /\ BoundIsOwn /\ [Next]_vars => (MarkersOwn /\ BoundIsOwn)'
<1> SUFFICES ASSUME TypeOK, MarkersOwn, BoundIsOwn, [Next]_vars
             PROVE  (MarkersOwn /\ BoundIsOwn)'
  OBVIOUS
<1> USE DEF TypeOK, MarkersOwn, BoundIsOwn, Matches, Shared, Effects, document, tracker
<1>1. ASSUME NEW c \in Coordinators, NEW o \in Operations, Plan(c, o)
      PROVE  (MarkersOwn /\ BoundIsOwn)'
  BY <1>1 DEF Plan, Begin
<1>2. ASSUME NEW c \in Coordinators, NEW o \in Operations, Cancel(c, o)
      PROVE  (MarkersOwn /\ BoundIsOwn)'
  BY <1>2 DEF Cancel, Begin
<1>3. ASSUME NEW c \in Coordinators, NEW o \in Operations, Apply(c, o)
      PROVE  (MarkersOwn /\ BoundIsOwn)'
  BY <1>3 DEF Apply, Begin
<1>4. ASSUME NEW c \in Coordinators, PlanLook(c) \/ CancelLook(c)
      PROVE  (MarkersOwn /\ BoundIsOwn)'
  BY <1>4 DEF PlanLook, CancelLook, Goto
<1>5. ASSUME NEW c \in Coordinators, PlanCommit(c)
      PROVE  (MarkersOwn /\ BoundIsOwn)'
  BY <1>5 DEF PlanCommit, CanReplace, Replace, End
<1>6. ASSUME NEW c \in Coordinators, CancelCommit(c)
      PROVE  (MarkersOwn /\ BoundIsOwn)'
  BY <1>6 DEF CancelCommit, CanReplace, Replace, End
<1>7. ASSUME NEW c \in Coordinators, FindResult(c)
      PROVE  (MarkersOwn /\ BoundIsOwn)'
  BY <1>7 DEF FindResult, Goto
<1>8. ASSUME NEW c \in Coordinators, FindNothing(c)
      PROVE  (MarkersOwn /\ BoundIsOwn)'
  BY <1>8 DEF FindNothing, Goto
<1>9. ASSUME NEW c \in Coordinators, Claim(c)
      PROVE  (MarkersOwn /\ BoundIsOwn)'
  BY <1>9 DEF Claim, CanReplace, Replace, Goto
<1>10. ASSUME NEW c \in Coordinators, Send(c)
      PROVE  (MarkersOwn /\ BoundIsOwn)'
  BY <1>10 DEF Send, Goto
<1>11. ASSUME NEW c \in Coordinators, Answered(c) \/ Confirm(c)
      PROVE  (MarkersOwn /\ BoundIsOwn)'
  BY <1>11 DEF Answered, Confirm, Goto
<1>12. ASSUME NEW c \in Coordinators, Bind(c)
      PROVE  (MarkersOwn /\ BoundIsOwn)'
  BY <1>12 DEF Bind, CanReplace, Replace, End
<1>13. ASSUME NEW c \in Coordinators, Stop(c)
      PROVE  (MarkersOwn /\ BoundIsOwn)'
  BY <1>13 DEF Stop, End
<1>14. CASE OtherUpdate
  BY <1>14 DEF OtherUpdate
<1>15. ASSUME NEW o \in Operations, Arrive(o)
      PROVE  (MarkersOwn /\ BoundIsOwn)'
  BY <1>15, MarkedAssumption DEF Arrive
<1>16. ASSUME NEW o \in Operations, LoseRequest(o)
      PROVE  (MarkersOwn /\ BoundIsOwn)'
  BY <1>16 DEF LoseRequest
<1>17. ASSUME NEW e \in Effects, Edit(e)
      PROVE  (MarkersOwn /\ BoundIsOwn)'
  BY <1>17 DEF Edit
<1>18. CASE UNCHANGED vars
  BY <1>18 DEF vars
<1>19. QED
  BY <1>1, <1>2, <1>3, <1>4, <1>5, <1>6, <1>7, <1>8, <1>9, <1>10, <1>11,
     <1>12, <1>13, <1>14, <1>15, <1>16, <1>17, <1>18 DEF Next, Step

-----------------------------------------------------------------------------
(* Planning is the only way to become unresolved *)

\* A planned operation had no unresolved rival when its snapshot was taken.
LEMMA IntentStep == TypeOK /\ Expecting /\ OneIntentPerTarget /\ [Next]_vars => OneIntentPerTarget'
<1> SUFFICES ASSUME TypeOK, Expecting, OneIntentPerTarget, [Next]_vars
             PROVE  OneIntentPerTarget'
  OBVIOUS
<1> USE DEF TypeOK, Expecting, Expects, OneIntentPerTarget, Free, Unresolved, document, tracker
<1>1. ASSUME NEW c \in Coordinators, NEW o \in Operations, Plan(c, o)
      PROVE  OneIntentPerTarget'
  BY <1>1 DEF Plan, Begin
<1>2. ASSUME NEW c \in Coordinators, NEW o \in Operations, Cancel(c, o)
      PROVE  OneIntentPerTarget'
  BY <1>2 DEF Cancel, Begin
<1>3. ASSUME NEW c \in Coordinators, NEW o \in Operations, Apply(c, o)
      PROVE  OneIntentPerTarget'
  BY <1>3 DEF Apply, Begin
<1>4. ASSUME NEW c \in Coordinators, PlanLook(c) \/ CancelLook(c)
      PROVE  OneIntentPerTarget'
  BY <1>4 DEF PlanLook, CancelLook, Goto
<1>5. ASSUME NEW c \in Coordinators, PlanCommit(c)
      PROVE  OneIntentPerTarget'
  BY <1>5 DEF PlanCommit, CanReplace, Replace, End
<1>6. ASSUME NEW c \in Coordinators, CancelCommit(c)
      PROVE  OneIntentPerTarget'
  BY <1>6 DEF CancelCommit, CanReplace, Replace, End
<1>7. ASSUME NEW c \in Coordinators, FindResult(c)
      PROVE  OneIntentPerTarget'
  BY <1>7 DEF FindResult, Goto
<1>8. ASSUME NEW c \in Coordinators, FindNothing(c)
      PROVE  OneIntentPerTarget'
  BY <1>8 DEF FindNothing, Goto
<1>9. ASSUME NEW c \in Coordinators, Claim(c)
      PROVE  OneIntentPerTarget'
  BY <1>9 DEF Claim, CanReplace, Replace, Goto
<1>10. ASSUME NEW c \in Coordinators, Send(c)
      PROVE  OneIntentPerTarget'
  BY <1>10 DEF Send, Goto
<1>11. ASSUME NEW c \in Coordinators, Answered(c) \/ Confirm(c)
      PROVE  OneIntentPerTarget'
  BY <1>11 DEF Answered, Confirm, Goto
<1>12. ASSUME NEW c \in Coordinators, Bind(c)
      PROVE  OneIntentPerTarget'
  BY <1>12 DEF Bind, CanReplace, Replace, End
<1>13. ASSUME NEW c \in Coordinators, Stop(c)
      PROVE  OneIntentPerTarget'
  BY <1>13 DEF Stop, End
<1>14. CASE OtherUpdate
  BY <1>14 DEF OtherUpdate
<1>15. ASSUME NEW o \in Operations, Arrive(o)
      PROVE  OneIntentPerTarget'
  BY <1>15 DEF Arrive
<1>16. ASSUME NEW o \in Operations, LoseRequest(o)
      PROVE  OneIntentPerTarget'
  BY <1>16 DEF LoseRequest
<1>17. ASSUME NEW e \in Effects, Edit(e)
      PROVE  OneIntentPerTarget'
  BY <1>17 DEF Edit
<1>18. CASE UNCHANGED vars
  BY <1>18 DEF vars
<1>19. QED
  BY <1>1, <1>2, <1>3, <1>4, <1>5, <1>6, <1>7, <1>8, <1>9, <1>10, <1>11,
     <1>12, <1>13, <1>14, <1>15, <1>16, <1>17, <1>18 DEF Next, Step

-----------------------------------------------------------------------------
(* The inductive invariant, and what it shows *)

LEMMA InvariantInit == Init => IInv
<1> SUFFICES ASSUME Init PROVE IInv
  OBVIOUS
<1>1. TypeOK
  BY TypeInit
<1>2. Expecting
  BY DEF Init, Expecting, Expects
<1>3. Sending /\ SingleAttempt
  BY DEF Init, Sending, SingleAttempt
<1>4. MarkersOwn
  BY MarkedAssumption DEF Init, MarkersOwn, Shared
<1>5. BoundIsOwn
  BY MarkedAssumption DEF Init, BoundIsOwn
<1>6. OneIntentPerTarget
  BY DEF Init, OneIntentPerTarget, Unresolved
<1>7. QED
  BY <1>1, <1>2, <1>3, <1>4, <1>5, <1>6 DEF IInv

LEMMA InvariantStep == IInv /\ [Next]_vars => IInv'
<1> SUFFICES ASSUME IInv, [Next]_vars PROVE IInv'
  OBVIOUS
<1>1. TypeOK'
  BY TypeStep DEF IInv
<1>2. Expecting'
  BY ExpectingStep DEF IInv
<1>3. (Sending /\ SingleAttempt)'
  BY SendingStep DEF IInv
<1>4. (MarkersOwn /\ BoundIsOwn)'
  BY MarkersStep DEF IInv
<1>5. OneIntentPerTarget'
  BY IntentStep DEF IInv
<1>6. QED
  BY <1>1, <1>2, <1>3, <1>4, <1>5 DEF IInv

\* The invariant the journal keeps through every command and every failure.
THEOREM Invariance == Spec => []IInv
  BY InvariantInit, InvariantStep, PTL DEF Spec

\* apply_operation sends an operation at most once and only after the journal
\* says so, however many coordinators apply, reconcile and cancel it.
THEOREM AtMostOneAttempt == Spec => []SingleAttempt
<1>1. IInv => SingleAttempt
  BY DEF IInv
<1>2. QED
  BY Invariance, <1>1, PTL

\* A comment or child issue is bound only when its own request took effect.
THEOREM BoundIsEarned == Spec => []BoundIsOwn
<1>1. IInv => BoundIsOwn
  BY DEF IInv
<1>2. QED
  BY Invariance, <1>1, PTL

\* prepare_operation leaves one unresolved intent per issue at most.
THEOREM IntentsApart == Spec => []OneIntentPerTarget
<1>1. IInv => OneIntentPerTarget
  BY DEF IInv
<1>2. QED
  BY Invariance, <1>1, PTL

\* One step of Next follows Decisions: only four actions write a phase, each
\* with a snapshot that is right about it.
LEMMA DecisionStep ==
  IInv /\ [Next]_vars =>
    [\A o \in Operations : phase'[o] # phase[o] => <<phase[o], phase'[o]>> \in Decisions]_vars
<1> DEFINE Stands == \A o \in Operations :
                       phase'[o] # phase[o] => <<phase[o], phase'[o]>> \in Decisions
<1> SUFFICES ASSUME TypeOK, Expecting, [Next]_vars PROVE Stands \/ UNCHANGED vars
  BY DEF IInv
<1> USE DEF TypeOK, Expecting, Expects, Decisions, CanReplace, Replace
<1>1. ASSUME NEW c \in Coordinators, PlanCommit(c) PROVE Stands
  BY <1>1 DEF PlanCommit
<1>2. ASSUME NEW c \in Coordinators, CancelCommit(c) PROVE Stands
  BY <1>2 DEF CancelCommit
<1>3. ASSUME NEW c \in Coordinators, Claim(c) PROVE Stands
  BY <1>3 DEF Claim, Goto
<1>4. ASSUME NEW c \in Coordinators, Bind(c) PROVE Stands
  BY <1>4 DEF Bind
<1>5. ASSUME NEW c \in Coordinators, NEW o \in Operations,
             Plan(c, o) \/ Cancel(c, o) \/ Apply(c, o)
      PROVE  Stands
  BY <1>5 DEF Plan, Cancel, Apply, Begin, document
<1>6. ASSUME NEW c \in Coordinators,
             PlanLook(c) \/ CancelLook(c) \/ FindResult(c) \/ FindNothing(c)
               \/ Send(c) \/ Answered(c) \/ Confirm(c) \/ Stop(c)
      PROVE  Stands
  BY <1>6 DEF PlanLook, CancelLook, FindResult, FindNothing, Send, Answered, Confirm,
     Stop, document
<1>7. CASE OtherUpdate \/ \E o \in Operations : Arrive(o) \/ LoseRequest(o)
  BY <1>7 DEF OtherUpdate, Arrive, LoseRequest, document
<1>8. CASE \E e \in Effects : Edit(e)
  BY <1>8 DEF Edit, document
<1>9. CASE UNCHANGED vars
  BY <1>9
<1>10. QED
  BY <1>1, <1>2, <1>3, <1>4, <1>5, <1>6, <1>7, <1>8, <1>9 DEF Next, Step

\* Bound and cancelled are final and no started intent is taken back: the
\* compare-and-swap of Store.update lets no coordinator undo another's decision.
THEOREM DecisionsAreFinal == Spec => DecisionsStand
  BY Invariance, DecisionStep, PTL DEF Spec, DecisionsStand


-----------------------------------------------------------------------------
(***************************************************************************)
(* The pages of the journals                                               *)
(*                                                                         *)
(* JournalPaging is proved beside the tracking journal, as the instance J: *)
(* for every number of journals, pages, requests and commands, a scan that *)
(* reads its journals page by page, in commands that come and go and may   *)
(* be killed, never begins a second journal of a request.                  *)
(***************************************************************************)

CONSTANTS Commands, Requests, MaxName, Legacy, Limit, MaxCrash, NoRequest

VARIABLES journal, cursor, cmd, crashes

J == INSTANCE JournalPaging

\* The instance counts as its host does.
LEMMA CountsAlike == \A S : J!Cardinality(S) = Cardinality(S)
BY DEF J!Cardinality, Cardinality

(***************************************************************************)
(* The inductive invariant.  What makes the pages as good as one reading   *)
(* is CursorCovers: behind the cursor nothing of its request is open but   *)
(* what the cursor names.                                                  *)
(***************************************************************************)
OneOpen == \A r \in Requests : \A m, n \in J!OpenOf(r) : m = n

CursorCovers == \A n \in J!OpenOf(cursor.req) : n <= cursor.after => n = cursor.match

OneWorks == \A c, d \in J!Working : c = d

\* A command that works or reports does so on a journal of its request.
OwnJournal ==
  \A c \in Commands : cmd[c].at # "idle" =>
    /\ cmd[c].req \in Requests /\ cmd[c].n \in J!Names
    /\ journal[cmd[c].n].req = cmd[c].req
    /\ journal[cmd[c].n].status # "absent"

PagingInv == J!TypeOK /\ OneOpen /\ CursorCovers /\ OneWorks /\ OwnJournal /\ J!WorksOnOpen

-----------------------------------------------------------------------------
(* Names and pages *)

\* A set of numbers with a bound has a least element, if it has one at all.
LEMMA Least ==
  ASSUME NEW R, R \subseteq Nat, R # {}
  PROVE  \E m \in R : \A n \in R : m <= n
<1> DEFINE less == OpToRel(<, Nat)
<1>1. IsWellFoundedOn(less, Nat) /\ \A x, y \in Nat : <<y, x>> \in less <=> y < x
  BY NatLessThanWellFounded DEF OpToRel
<1> HIDE DEF less
<1>2. PICK m \in R : \A n \in R : ~(<<n, m>> \in less)
  BY <1>1, WFMin
<1>3. ASSUME NEW n \in R PROVE m <= n
  <2>1. m \in Nat /\ n \in Nat /\ ~(n < m)
    BY <1>1, <1>2
  <2> QED
    BY <2>1
<1> QED
  BY <1>3

LEMMA Greatest ==
  ASSUME NEW B \in Nat, NEW R, R \subseteq 0..B, R # {}
  PROVE  J!Max(R) \in R /\ \A n \in R : n <= J!Max(R)
<1> DEFINE gaps == {k \in Nat : \E n \in R : k = B - n}
<1>1. gaps \subseteq Nat /\ gaps # {}
  <2>1. PICK n \in R : n \in 0..B
    OBVIOUS
  <2>2. B - n \in gaps
    BY <2>1
  <2> QED
    BY <2>2
<1>2. PICK k \in gaps : \A j \in gaps : k <= j
  <2> HIDE DEF gaps
  <2> QED
    BY <1>1, Least
<1>3. PICK m \in R : k = B - m
  BY <1>2
<1>4. \A n \in R : m >= n
  <2> SUFFICES ASSUME NEW n \in R PROVE m >= n
    OBVIOUS
  <2>1. B - n \in gaps
    OBVIOUS
  <2> QED
    BY <1>2, <1>3, <2>1
<1>5. J!Max(R) \in R /\ \A n \in R : J!Max(R) >= n
  BY <1>3, <1>4 DEF J!Max
<1> QED
  BY <1>5

\* What a scan has not read is on the page, or after it.
LEMMA PageFirst ==
  ASSUME J!Assumptions, J!TypeOK, NEW r \in Requests
  PROVE  /\ J!Candidates(r) \subseteq J!Names /\ IsFiniteSet(J!Candidates(r))
         /\ J!Page(r) \subseteq J!Candidates(r)
         /\ ~J!More(r) => J!Page(r) = J!Candidates(r)
         /\ J!More(r) => J!Page(r) # {}
         /\ \A p \in J!Page(r), n \in J!Candidates(r) : n <= p => n \in J!Page(r)
<1> DEFINE upto(n) == {m \in J!Candidates(r) : m <= n}
<1>1. J!Candidates(r) \subseteq J!Names /\ IsFiniteSet(J!Candidates(r))
  <2>1. IsFiniteSet(J!Names)
    BY FS_Interval DEF J!Names, J!Assumptions
  <2>2. J!Candidates(r) \in SUBSET J!Names
    BY DEF J!Candidates
  <2> QED
    BY <2>1, <2>2, FS_Subset
<1>8. \A n \in J!Candidates(r) : n \in Nat
  BY <1>1 DEF J!Names
<1>2. J!Page(r) = {n \in J!Candidates(r) : Cardinality(upto(n)) <= Limit}
  BY CountsAlike DEF J!Page
<1>3. Limit \in Nat /\ Limit # 0 /\ J!Names \subseteq Nat
  BY DEF J!Assumptions, J!Names
<1>4. \A n \in J!Candidates(r) : /\ IsFiniteSet(upto(n)) /\ Cardinality(upto(n)) \in Nat
                                 /\ Cardinality(upto(n)) <= Cardinality(J!Candidates(r))
  BY <1>1, FS_Subset, FS_CardinalityType
<1>5. ASSUME ~J!More(r) PROVE J!Page(r) = J!Candidates(r)
  <2>1. Cardinality(J!Candidates(r)) <= Limit /\ Cardinality(J!Candidates(r)) \in Nat
    BY <1>1, <1>3, <1>5, FS_CardinalityType, CountsAlike DEF J!More
  <2>2. ASSUME NEW n \in J!Candidates(r) PROVE Cardinality(upto(n)) <= Limit
    <3>1. Cardinality(upto(n)) \in Nat /\ Cardinality(upto(n)) <= Cardinality(J!Candidates(r))
      BY <1>4
    <3> HIDE DEF upto
    <3> QED
      BY <1>3, <2>1, <3>1
  <2> HIDE DEF upto
  <2> QED
    BY <1>2, <2>2
<1>6. ASSUME J!More(r) PROVE J!Page(r) # {}
  <2>1. J!Candidates(r) # {}
    BY <1>3, <1>6, FS_EmptySet, CountsAlike DEF J!More
  <2>2. PICK m \in J!Candidates(r) : \A n \in J!Candidates(r) : m <= n
    BY <1>1, <1>3, <2>1, Least
  <2>3. upto(m) = {m}
    <3>1. \A n \in J!Candidates(r) : n <= m <=> n = m
      BY <1>8, <2>2
    <3> QED
      BY <3>1
  <2>4. Cardinality(upto(m)) = 1
    BY <2>3, FS_Singleton
  <2>5. m \in J!Page(r)
    BY <1>2, <1>3, <2>4
  <2> QED
    BY <2>5
<1>7. ASSUME NEW p \in J!Page(r), NEW n \in J!Candidates(r), n <= p PROVE n \in J!Page(r)
  <2>1. p \in J!Candidates(r) /\ Cardinality(upto(p)) <= Limit
    BY <1>2
  <2>2. upto(n) \in SUBSET upto(p)
    <3>1. \A m \in J!Candidates(r) : m <= n => m <= p
      BY <1>7, <1>8, <2>1
    <3> QED
      BY <3>1
  <2>3. Cardinality(upto(n)) <= Cardinality(upto(p))
    <3> HIDE DEF upto
    <3> QED
      BY <1>4, <2>1, <2>2, FS_Subset
  <2>4. Cardinality(upto(n)) \in Nat /\ Cardinality(upto(p)) \in Nat
    BY <1>4, <2>1
  <2> HIDE DEF upto
  <2> QED
    BY <1>2, <1>3, <2>1, <2>3, <2>4
<1> QED
  BY <1>1, <1>2, <1>5, <1>6, <1>7

\* A scan that has come to its end has found whatever is open.
LEMMA ScanFinds ==
  ASSUME J!Assumptions, PagingInv, NEW r \in Requests, NEW c \in Commands, J!MayScan(c, r),
         NEW n \in J!OpenOf(r), (\E p \in J!Page(r) : n <= p) \/ ~J!More(r)
  PROVE  n \in J!Found(r) /\ J!Match(r) = n
<1>1. n \in J!Names /\ J!There(n) /\ journal[n].req = r /\ n \in Nat
  BY DEF J!OpenOf, J!Open, J!There, J!Names
<1>2. cursor.after \in Nat /\ (cursor.req = r \/ (cursor.req = NoRequest /\ cursor.after = 0))
  BY DEF PagingInv, J!TypeOK, J!MayScan, J!NoCursor, J!Assumptions
<1>3. n \in J!Found(r)
  <2>1. CASE n <= cursor.after
    <3>1. cursor.req = r
      BY <1>1, <1>2, <2>1 DEF J!Names
    <3>2. n = cursor.match /\ n # J!NoName
      BY <1>1, <2>1, <3>1 DEF PagingInv, CursorCovers, J!Names, J!NoName
    <3> QED
      BY <3>2 DEF J!Found
  <2>2. CASE n > cursor.after
    <3>1. n \in J!Candidates(r)
      BY <1>1, <2>2 DEF J!Candidates
    <3>2. n \in J!Page(r)
      BY <3>1, PageFirst DEF PagingInv
    <3> QED
      BY <3>2 DEF J!Found
  <2> QED
    BY <1>1, <1>2, <2>1, <2>2
<1>4. J!Found(r) \subseteq J!OpenOf(r)
  BY DEF J!Found
<1> QED
  BY <1>3, <1>4 DEF J!Match, PagingInv, OneOpen

-----------------------------------------------------------------------------
(* The steps *)

\* What a step leaves of the open journals decides all of the invariant but types.
LEMMA OpenShrinks ==
  ASSUME PagingInv, J!TypeOK', UNCHANGED <<cursor, cmd>>,
         \A n \in J!Names : /\ journal'[n].req = journal[n].req
                            /\ (journal[n].status # "absent") => (journal'[n].status # "absent")
                            /\ journal'[n].status \in J!Open => journal[n].status \in J!Open,
         \A c \in J!Working : journal'[cmd[c].n].status \in J!Open
  PROVE  PagingInv'
<1>1. \A r : J!OpenOf(r)' \subseteq J!OpenOf(r)
  BY DEF J!OpenOf
<1>2. OneOpen' /\ CursorCovers' /\ OneWorks'
  BY <1>1 DEF PagingInv, OneOpen, CursorCovers, OneWorks, J!Working
<1>3. OwnJournal'
  BY DEF PagingInv, OwnJournal
<1>4. J!WorksOnOpen'
  BY DEF PagingInv, OwnJournal, J!WorksOnOpen, J!Working, J!OpenOf
<1> QED
  BY <1>2, <1>3, <1>4 DEF PagingInv

LEMMA InitPaging == ASSUME J!Assumptions PROVE J!Init => PagingInv
<1> SUFFICES ASSUME J!Init PROVE PagingInv
  OBVIOUS
<1> USE DEF J!Init
<1>1. J!TypeOK
  BY DEF J!TypeOK, J!NoCursor, J!Idle, J!NoName, J!Statuses, J!Open, J!Assumptions
<1>2. OneOpen
  <2> SUFFICES ASSUME NEW r \in Requests, NEW m \in J!OpenOf(r), NEW n \in J!OpenOf(r), m # n
               PROVE  FALSE
    BY DEF OneOpen
  <2>1. IsFiniteSet(J!Names) /\ J!OpenOf(r) \in SUBSET J!Names
    BY FS_Interval DEF J!Names, J!Assumptions, J!OpenOf
  <2>2. IsFiniteSet(J!OpenOf(r)) /\ Cardinality(J!OpenOf(r)) <= 1
    BY <2>1, FS_Subset, CountsAlike
  <2>3. IsFiniteSet({m}) /\ Cardinality({m}) = 1 /\ {m} \in SUBSET J!OpenOf(r)
    BY FS_Singleton
  <2>4. Cardinality(J!OpenOf(r)) = Cardinality({m}) => J!OpenOf(r) = {m}
    BY <2>2, <2>3, FS_Subset
  <2>5. Cardinality({m}) <= Cardinality(J!OpenOf(r)) /\ Cardinality(J!OpenOf(r)) \in Nat
    BY <2>2, <2>3, FS_Subset, FS_CardinalityType
  <2> QED
    BY <2>2, <2>3, <2>4, <2>5
<1>3. CursorCovers
  BY DEF CursorCovers, J!NoCursor, J!OpenOf, J!Names
<1>4. J!Working = {} /\ \A c \in Commands : cmd[c].at = "idle"
  BY DEF J!Working, J!Idle
<1> QED
  BY <1>1, <1>2, <1>3, <1>4 DEF PagingInv, OneWorks, OwnJournal, J!WorksOnOpen

\* The cursor moves over a page, and keeps what was found on it.
LEMMA ScanPageStep ==
  ASSUME J!Assumptions, PagingInv, NEW c \in Commands, NEW r \in Requests, J!ScanPage(c, r)
  PROVE  PagingInv'
<1> DEFINE last == J!Max(J!Page(r))
<1>1. J!MayScan(c, r) /\ J!More(r) /\ UNCHANGED <<journal, cmd>>
      /\ cursor' = [req |-> r, after |-> last, match |-> J!Match(r)]
  BY DEF J!ScanPage
<1>2. J!Page(r) # {} /\ J!Page(r) \subseteq 1..MaxName /\ MaxName \in Nat
  BY <1>1, PageFirst DEF PagingInv, J!Names, J!Assumptions
<1>3. last \in J!Page(r) /\ \A n \in J!Page(r) : n <= last
  BY <1>2, Greatest
<1>4. last \in 0..MaxName /\ J!Match(r) \in 0..MaxName
  <2>1. J!Found(r) \subseteq J!Names
    BY DEF J!Found, J!OpenOf
  <2>2. J!Match(r) \in J!Found(r) \cup {0}
    BY DEF J!Match, J!NoName
  <2> QED
    BY <1>2, <1>3, <2>1, <2>2 DEF J!Names
<1> HIDE DEF last
<1>5. J!TypeOK'
  BY <1>1, <1>4 DEF PagingInv, J!TypeOK, J!Assumptions
<1>6. CursorCovers'
  <2> SUFFICES ASSUME NEW n \in J!OpenOf(r), n <= last PROVE n = J!Match(r)
    BY <1>1 DEF CursorCovers, J!OpenOf
  <2> QED
    BY <1>1, <1>3, ScanFinds
<1>7. OneOpen' /\ OneWorks' /\ OwnJournal' /\ J!WorksOnOpen'
  BY <1>1 DEF PagingInv, OneOpen, OneWorks, OwnJournal,
              J!WorksOnOpen,
                           J!OpenOf, J!Working
<1> QED
  BY <1>5, <1>6, <1>7 DEF PagingInv

LEMMA ScanEndsStep ==
  ASSUME J!Assumptions, PagingInv, NEW c \in Commands, NEW r \in Requests, J!ScanEnds(c, r)
  PROVE  PagingInv'
<1>1. /\ J!MayScan(c, r) /\ ~J!More(r) /\ UNCHANGED journal /\ cursor' = J!NoCursor
      /\ cmd' = [cmd EXCEPT ![c] = [at |-> "work", req |-> r, n |-> J!Match(r)]]
  BY DEF J!ScanEnds
<1>2. J!Match(r) \in J!OpenOf(r)
  BY DEF J!ScanEnds, J!Match, J!Found
<1>3. J!Match(r) \in J!Names /\ journal[J!Match(r)].req = r /\ journal[J!Match(r)].status \in J!Open
  BY <1>2 DEF J!OpenOf
<1>4. /\ cmd'[c] = [at |-> "work", req |-> r, n |-> J!Match(r)]
      /\ \A d \in Commands \ {c} : cmd'[d] = cmd[d]
  BY <1>1 DEF PagingInv, J!TypeOK
<1>5. J!TypeOK'
  BY <1>1, <1>3 DEF PagingInv, J!TypeOK, J!NoCursor, J!NoName, J!Names, J!Assumptions
<1>6. J!Working' = {c}
  BY <1>1, <1>4 DEF J!Working, J!MayScan
<1>7. OneOpen' /\ CursorCovers' /\ OneWorks'
  BY <1>1, <1>6 DEF PagingInv, OneOpen, CursorCovers, OneWorks, J!OpenOf, J!NoCursor, J!Names
<1>8. OwnJournal'
  BY <1>1, <1>3, <1>4 DEF PagingInv, OwnJournal, J!Open
<1>9. J!WorksOnOpen'
  BY <1>1, <1>2, <1>4, <1>6 DEF J!WorksOnOpen, J!OpenOf
<1> QED
  BY <1>5, <1>7, <1>8, <1>9 DEF PagingInv

\* A new journal is begun when the request has none that is open, on any page.
LEMMA BeginStep ==
  ASSUME J!Assumptions, PagingInv, NEW c \in Commands, NEW r \in Requests, J!Begin(c, r)
  PROVE  PagingInv'
<1> DEFINE made == {m \in J!Names : journal[m].status # "absent"} \cup {0}
           n == J!Max(made) + 1
           new == [req |-> r, status |-> "in-progress"]
<1>1. J!MayScan(c, r) /\ ~J!More(r) /\ J!Found(r) = {} /\ cursor' = J!NoCursor /\ J!Working = {}
  BY DEF J!Begin, J!MayScan
<1>2. J!OpenOf(r) = {}
  BY <1>1, ScanFinds
<1>3. CASE n \in J!Names
  <2>1. /\ journal' = [journal EXCEPT ![n] = new]
        /\ cmd' = [cmd EXCEPT ![c] = [at |-> "work", req |-> r, n |-> n]]
    BY <1>3 DEF J!Begin
  <2>2. journal[n].status = "absent"
    <3>1. made \subseteq 0..MaxName /\ made # {} /\ MaxName \in Nat
      BY DEF J!Names, J!Assumptions
    <3>2. J!Max(made) \in made /\ \A m \in made : m <= J!Max(made)
      <4> HIDE DEF made
      <4> QED
        BY <3>1, Greatest
    <3>3. n \notin made
      <4>1. J!Max(made) \in Nat
        BY <3>1, <3>2
      <4> HIDE DEF made
      <4> QED
        BY <3>2, <4>1
    <3> QED
      BY <1>3, <3>3
  <2> HIDE DEF n
  <2>3. /\ journal'[n] = new /\ \A m \in J!Names \ {n} : journal'[m] = journal[m]
        /\ cmd'[c] = [at |-> "work", req |-> r, n |-> n]
        /\ \A d \in Commands \ {c} : cmd'[d] = cmd[d]
    BY <1>3, <2>1 DEF PagingInv, J!TypeOK
  <2>4. J!TypeOK'
    <3>1. new \in [req : Requests, status : J!Statuses] /\ n \in 0..MaxName
      BY <1>3 DEF J!Statuses, J!Open, J!Names, J!Assumptions
    <3>2. journal' \in [J!Names -> [req : Requests, status : J!Statuses]]
      BY <2>1, <3>1 DEF PagingInv, J!TypeOK
    <3>3. cursor' \in [req : Requests \cup {NoRequest}, after : 0..MaxName, match : 0..MaxName]
      BY <1>1 DEF J!NoCursor, J!NoName, J!Assumptions
    <3>4. cmd' \in [Commands -> [at : {"idle", "work", "shown"}, req : Requests \cup {NoRequest},
                                n : 0..MaxName]]
      BY <2>1, <3>1 DEF PagingInv, J!TypeOK
    <3> QED
      BY <1>1, <3>2, <3>3, <3>4 DEF J!TypeOK
  <2>5. J!Working' = {c}
    BY <1>1, <2>3 DEF J!Working
  <2>6. \A q \in Requests : J!OpenOf(q)' = IF q = r THEN {n} ELSE J!OpenOf(q)
    <3>1. ASSUME NEW q \in Requests, NEW m \in J!Names
          PROVE  m \in J!OpenOf(q)' <=> m \in IF q = r THEN {n} ELSE J!OpenOf(q)
      <4>1. CASE m = n
        BY <1>3, <2>2, <2>3, <4>1 DEF J!OpenOf, J!Open
      <4>2. CASE m # n
        BY <1>2, <2>3, <4>2 DEF J!OpenOf
      <4> QED
        BY <4>1, <4>2
    <3> QED
      BY <1>3, <3>1 DEF J!OpenOf
  <2>7. OneOpen' /\ OneWorks'
    BY <2>5, <2>6 DEF PagingInv, OneOpen, OneWorks
  <2>8. CursorCovers'
    BY <1>1 DEF CursorCovers, J!OpenOf, J!NoCursor, J!Names
  <2>9. OwnJournal'
    BY <1>3, <2>2, <2>3 DEF PagingInv, OwnJournal
  <2>10. J!WorksOnOpen'
    BY <2>3, <2>5, <2>6 DEF J!WorksOnOpen
  <2> QED
    BY <2>4, <2>7, <2>8, <2>9, <2>10 DEF PagingInv
<1>4. CASE n \notin J!Names
  <2>1. UNCHANGED <<journal, cmd>>
    BY <1>4 DEF J!Begin
  <2>2. J!TypeOK'
    BY <1>1, <2>1 DEF PagingInv, J!TypeOK, J!NoCursor, J!NoName, J!Assumptions
  <2>3. CursorCovers'
    BY <1>1 DEF CursorCovers, J!OpenOf, J!NoCursor, J!Names
  <2> QED
    BY <2>1, <2>2, <2>3 DEF PagingInv, OneOpen, OneWorks, OwnJournal,
              J!WorksOnOpen,
                           J!OpenOf, J!Working
<1> QED
  BY <1>3, <1>4

LEMMA RetireStep ==
  ASSUME PagingInv, NEW c \in Commands, NEW n \in J!Names, J!Retire(c, n)
  PROVE  PagingInv'
<1>1. /\ journal' = [journal EXCEPT ![n].status = "removed"] /\ UNCHANGED <<cursor, cmd>>
      /\ journal[n].status = "complete-delivered"
  BY DEF J!Retire
<1>2. journal[n] \in [req : Requests, status : J!Statuses] /\ DOMAIN journal = J!Names
  BY DEF PagingInv, J!TypeOK
<1>3. /\ journal'[n].req = journal[n].req /\ journal'[n].status = "removed"
      /\ \A m \in J!Names \ {n} : journal'[m] = journal[m]
  BY <1>1, <1>2
<1>4. J!TypeOK'
  <2>1. [journal[n] EXCEPT !.status = "removed"] \in [req : Requests, status : J!Statuses]
    BY <1>2 DEF J!Statuses
  <2> QED
    BY <1>1, <2>1 DEF PagingInv, J!TypeOK
<1>5. \A d \in J!Working : cmd[d].n \in J!Names /\ cmd[d].n # n
                            /\ journal[cmd[d].n].status \in J!Open
  BY <1>1 DEF PagingInv, J!WorksOnOpen, J!OpenOf, J!Open
<1>6. \A d \in J!Working : journal'[cmd[d].n].status \in J!Open
  BY <1>3, <1>5
<1>7. "removed" \notin J!Open
  BY DEF J!Open
<1> QED
  BY <1>1, <1>3, <1>4, <1>6, <1>7, OpenShrinks

LEMMA CompleteStep ==
  ASSUME PagingInv, NEW c \in Commands, J!Complete(c)
  PROVE  PagingInv'
<1> DEFINE n == cmd[c].n
<1>1. /\ journal' = [journal EXCEPT ![n].status = "complete-pending-output"]
      /\ cmd' = [cmd EXCEPT ![c].at = "shown"] /\ UNCHANGED cursor
      /\ c \in J!Working
  BY DEF J!Complete, J!Working
<1>2. /\ n \in J!Names /\ journal[n] \in [req : Requests, status : J!Statuses]
      /\ journal[n].status \in J!Open /\ DOMAIN journal = J!Names
  BY <1>1 DEF PagingInv, J!TypeOK, J!WorksOnOpen, J!OpenOf
<1>3. /\ journal'[n].req = journal[n].req /\ journal'[n].status = "complete-pending-output"
      /\ \A m \in J!Names \ {n} : journal'[m] = journal[m]
  BY <1>1, <1>2
<1>4. cmd[c] \in [at : {"idle", "work", "shown"}, req : Requests \cup {NoRequest}, n : 0..MaxName]
  BY DEF PagingInv, J!TypeOK
<1>5. /\ cmd'[c].at = "shown" /\ cmd'[c].n = n /\ cmd'[c].req = cmd[c].req
      /\ \A d \in Commands \ {c} : cmd'[d] = cmd[d]
  BY <1>1, <1>4 DEF PagingInv, J!TypeOK
<1>6. J!TypeOK'
  <2>1. [journal[n] EXCEPT !.status = "complete-pending-output"]
          \in [req : Requests, status : J!Statuses]
    BY <1>2 DEF J!Statuses, J!Open
  <2>2. [cmd[c] EXCEPT !.at = "shown"]
          \in [at : {"idle", "work", "shown"}, req : Requests \cup {NoRequest}, n : 0..MaxName]
    BY <1>4
  <2> QED
    BY <1>1, <2>1, <2>2 DEF PagingInv, J!TypeOK
<1>7. J!Working' = {}
  BY <1>1, <1>5 DEF PagingInv, OneWorks, J!Working
<1>8. \A m \in J!Names : /\ journal'[m].req = journal[m].req
                         /\ journal'[m].status \in J!Open <=> journal[m].status \in J!Open
  BY <1>2, <1>3 DEF J!Open
<1>9. \A r : J!OpenOf(r)' = J!OpenOf(r)
  BY <1>8 DEF J!OpenOf
<1>10. OneOpen' /\ CursorCovers'
  BY <1>1, <1>9 DEF PagingInv, OneOpen, CursorCovers
<1>11. OwnJournal'
  <2> SUFFICES ASSUME NEW d \in Commands, cmd'[d].at # "idle"
               PROVE  /\ cmd'[d].req \in Requests /\ cmd'[d].n \in J!Names
                      /\ journal'[cmd'[d].n].req = cmd'[d].req
                      /\ journal'[cmd'[d].n].status # "absent"
    BY DEF OwnJournal
  <2>1. /\ cmd[d].at # "idle" /\ cmd'[d].req = cmd[d].req /\ cmd'[d].n = cmd[d].n
    BY <1>1, <1>5 DEF J!Working
  <2> QED
    BY <1>3, <1>8, <2>1 DEF PagingInv, OwnJournal
<1> QED
  BY <1>6, <1>7, <1>10, <1>11 DEF PagingInv, OneWorks, J!WorksOnOpen

\* A command that leaves takes nothing with it.
LEMMA LeaveStep ==
  ASSUME PagingInv, NEW c \in Commands, UNCHANGED <<journal, cursor>>,
         cmd' = [cmd EXCEPT ![c] = J!Idle], J!TypeOK'
  PROVE  PagingInv'
<1>1. cmd'[c] = J!Idle /\ \A d \in Commands \ {c} : cmd'[d] = cmd[d]
  BY DEF PagingInv, J!TypeOK
<1>2. J!Working' \subseteq J!Working \ {c}
  BY <1>1 DEF J!Working, J!Idle
<1>3. \A d \in J!Working' : cmd'[d] = cmd[d]
  BY <1>1, <1>2 DEF J!Working
<1>4. OneOpen' /\ CursorCovers' /\ OneWorks'
  BY <1>2 DEF PagingInv, OneOpen, CursorCovers, OneWorks, J!OpenOf
<1>5. OwnJournal'
  BY <1>1 DEF PagingInv, OwnJournal, J!Idle
<1>6. J!WorksOnOpen'
  BY <1>2, <1>3 DEF PagingInv, J!WorksOnOpen, J!OpenOf
<1> QED
  BY <1>4, <1>5, <1>6 DEF PagingInv

LEMMA IdleType ==
  ASSUME PagingInv, J!Assumptions, NEW c \in Commands
  PROVE  [cmd EXCEPT ![c] = J!Idle] \in
           [Commands -> [at : {"idle", "work", "shown"}, req : Requests \cup {NoRequest},
                         n : 0..MaxName]]
BY DEF PagingInv, J!TypeOK, J!Idle, J!NoName, J!Assumptions

LEMMA AcknowledgeStep ==
  ASSUME J!Assumptions, PagingInv, NEW c \in Commands, J!Acknowledge(c)
  PROVE  PagingInv'
<1> DEFINE n == cmd[c].n
           status == IF J!There(n) THEN "complete-delivered" ELSE journal[n].status
           kept == [journal EXCEPT ![n].status = status]
<1>1. /\ journal' = kept /\ cmd' = [cmd EXCEPT ![c] = J!Idle] /\ UNCHANGED cursor
      /\ cmd[c].at = "shown" /\ \A d \in J!Working : cmd[d].req # cmd[c].req
  BY DEF J!Acknowledge
<1>2. /\ n \in J!Names /\ journal[n].req = cmd[c].req /\ journal[n].status # "absent"
      /\ journal[n] \in [req : Requests, status : J!Statuses] /\ DOMAIN journal = J!Names
  BY <1>1 DEF PagingInv, OwnJournal, J!TypeOK
<1>3. status \in J!Statuses /\ status # "absent" /\ status \notin J!Open
  BY <1>2 DEF J!There, J!Statuses, J!Open
<1>4. /\ kept[n].req = journal[n].req /\ kept[n].status = status
      /\ \A m \in J!Names \ {n} : kept[m] = journal[m]
  BY <1>2
<1>5. kept \in [J!Names -> [req : Requests, status : J!Statuses]]
  <2>1. [journal[n] EXCEPT !.status = status] \in [req : Requests, status : J!Statuses]
    BY <1>2, <1>3
  <2> QED
    BY <2>1 DEF PagingInv, J!TypeOK
<1>6. \A d \in J!Working : cmd[d].n \in J!Names /\ cmd[d].n # n
                            /\ journal[cmd[d].n].status \in J!Open
  BY <1>1, <1>2 DEF PagingInv, OwnJournal, J!WorksOnOpen, J!OpenOf
<1> HIDE DEF n, status, kept
<1>7. J!TypeOK'
  BY <1>1, <1>5, IdleType DEF PagingInv, J!TypeOK
<1>8. cmd'[c] = J!Idle /\ \A d \in Commands \ {c} : cmd'[d] = cmd[d]
  BY <1>1 DEF PagingInv, J!TypeOK
<1>9. J!Working' = J!Working
  BY <1>1, <1>8 DEF J!Working, J!Idle
<1>10. \A r : J!OpenOf(r)' \subseteq J!OpenOf(r)
  BY <1>1, <1>2, <1>3, <1>4 DEF J!OpenOf
<1>11. OneOpen' /\ CursorCovers' /\ OneWorks'
  BY <1>1, <1>9, <1>10 DEF PagingInv, OneOpen, CursorCovers, OneWorks
<1>12. OwnJournal'
  <2> SUFFICES ASSUME NEW d \in Commands, d # c, cmd[d].at # "idle"
               PROVE  /\ cmd[d].req \in Requests /\ cmd[d].n \in J!Names
                      /\ journal'[cmd[d].n].req = cmd[d].req
                      /\ journal'[cmd[d].n].status # "absent"
    BY <1>8 DEF OwnJournal, J!Idle
  <2>1. /\ cmd[d].req \in Requests /\ cmd[d].n \in J!Names
        /\ journal[cmd[d].n].req = cmd[d].req /\ journal[cmd[d].n].status # "absent"
    BY DEF PagingInv, OwnJournal
  <2> QED
    BY <1>1, <1>3, <1>4, <2>1
<1>13. J!WorksOnOpen'
  <2> SUFFICES ASSUME NEW d \in J!Working PROVE (cmd[d].n \in J!OpenOf(cmd[d].req))'
    BY <1>9 DEF J!WorksOnOpen
  <2>1. d # c /\ d \in Commands /\ cmd'[d] = cmd[d]
    BY <1>1, <1>8 DEF J!Working
  <2>2. cmd[d].n \in J!OpenOf(cmd[d].req)
    BY DEF PagingInv, J!WorksOnOpen
  <2> QED
    BY <1>1, <1>4, <1>6, <2>1, <2>2 DEF J!OpenOf
<1> QED
  BY <1>7, <1>11, <1>12, <1>13 DEF PagingInv

LEMMA NextPaging == ASSUME J!Assumptions PROVE PagingInv /\ [J!Next]_J!vars => PagingInv'
<1> SUFFICES ASSUME PagingInv, [J!Next]_J!vars PROVE PagingInv'
  OBVIOUS
<1>1. ASSUME NEW c \in Commands, NEW r \in Requests, J!Scan(c, r) PROVE PagingInv'
  BY <1>1, ScanPageStep, ScanEndsStep, BeginStep DEF J!Scan
<1>2. ASSUME NEW c \in Commands, NEW n \in J!Names, J!Retire(c, n) PROVE PagingInv'
  BY <1>2, RetireStep
<1>3. ASSUME NEW c \in Commands, J!Complete(c) \/ J!Acknowledge(c) PROVE PagingInv'
  BY <1>3, CompleteStep, AcknowledgeStep
<1>4. ASSUME NEW c \in Commands, J!Crash(c) PROVE PagingInv'
  <2>1. UNCHANGED <<journal, cursor>> /\ cmd' = [cmd EXCEPT ![c] = J!Idle]
    BY <1>4 DEF J!Crash
  <2>2. J!TypeOK'
    BY <2>1, IdleType DEF PagingInv, J!TypeOK
  <2> QED
    BY <2>1, <2>2, LeaveStep
<1>5. CASE UNCHANGED J!vars
  BY <1>5 DEF J!vars, PagingInv, J!TypeOK, OneOpen, CursorCovers, OneWorks, OwnJournal,
              J!WorksOnOpen,
     J!OpenOf, J!Working
<1> QED
  BY <1>1, <1>2, <1>3, <1>4, <1>5 DEF J!Next

-----------------------------------------------------------------------------
\* The invariant of paging holds in every instance that meets the assumptions.
THEOREM PagingInvariance == ASSUME J!Assumptions PROVE J!Spec => []PagingInv
BY InitPaging, NextPaging, PTL DEF J!Spec

\* A request never has two unfinished journals, however many pages a scan takes
\* and whoever is killed in between.
THEOREM OneJournal == ASSUME J!Assumptions PROVE J!Spec => []J!OneOpenJournal
<1>1. PagingInv => J!OneOpenJournal
  <2> SUFFICES ASSUME PagingInv, NEW r \in Requests PROVE Cardinality(J!OpenOf(r)) <= 1
    BY CountsAlike DEF J!OneOpenJournal
  <2>1. CASE J!OpenOf(r) = {}
    BY <2>1, FS_EmptySet
  <2>2. CASE J!OpenOf(r) # {}
    <3>1. PICK n \in J!OpenOf(r) : J!OpenOf(r) = {n}
      BY <2>2 DEF PagingInv, OneOpen
    <3>2. Cardinality({n}) = 1
      BY FS_Singleton
    <3>3. Cardinality(J!OpenOf(r)) = 1
      BY <3>1, <3>2
    <3> QED
      BY <3>3
  <2> QED
    BY <2>1, <2>2
<1> QED
  BY <1>1, PagingInvariance, PTL

\* What a command works on is its own, unfinished journal; its acknowledgement
\* never reaches the journal another command works on.
THEOREM WorkIsOwn == ASSUME J!Assumptions PROVE J!Spec => []J!WorksOnOpen
<1>1. PagingInv => J!WorksOnOpen
  BY DEF PagingInv
<1> QED
  BY <1>1, PagingInvariance, PTL
=============================================================================
