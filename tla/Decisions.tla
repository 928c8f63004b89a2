------------------------------- MODULE Decisions -------------------------------
(***************************************************************************)
(* Decisions and workflow runs: the second half of a worker's tick         *)
(* (evaluate_decisions and prepare_workflow_runs of worker/src/main.rs)    *)
(* with the tables of storage/src/lib.rs, and the approval of a run.  The  *)
(* scheduler's Redis lock does not cover this half: two workers may be in  *)
(* it at once.  A source is an incident, a provider, the open alerts or a  *)
(* declarative rule; what it shows is the title of the draft it causes.    *)
(***************************************************************************)
EXTENDS Integers, Sequences, FiniteSets, SequencesExt

CONSTANTS
  Workers,      \* worker replicas
  Approvers,    \* administrators who approve runs
  Sources,      \* what decisions are about
  Titles,       \* an incident's severities, a provider's outage, a rule's match
  Category,     \* the category of a source's decisions
  Workflows,    \* the workflows by name
  CategoryOf,   \* the category of a workflow
  Ids,          \* decision ids
  RunIds,       \* ids of workflow runs, and of the approvals asked for them
  MaxChanges,   \* titles that change, workflows switched on or off
  MaxFaults,    \* failing calls, crashes, ticks that stay out for 30 days
  None

ASSUME DecisionsAssumption ==
  /\ MaxChanges \in Nat /\ MaxFaults \in Nat
  /\ None \notin Titles \cup Ids \cup RunIds \cup ToSet(Workflows)

VARIABLES
  shown,        \* what each source shows now, if anything
  on,           \* workflows that are enabled
  decisions,    \* the decisions, by id
  runs,         \* the workflow runs, by id
  approvals,    \* the status of the approval asked for with a run
  tick,         \* what each worker does
  granting,     \* the transaction of each approver
  overlapped, switched, raced,   \* what has happened so far
  changes, faults

vars == <<shown, on, decisions, runs, approvals, tick, granting, overlapped,
          switched, raced, changes, faults>>
tables  == <<decisions, runs, approvals>>
outside == <<shown, on, switched, changes>>
admin   == <<granting, raced>>

Idle == [pc |-> "idle", todo |-> {}, key |-> None, found |-> None,
         jobs |-> {}, job |-> None, ask |-> FALSE]

Init ==
  /\ shown \in [Sources -> Titles \cup {None}]
  /\ on = ToSet(Workflows)
  /\ decisions = [d \in Ids |-> None]
  /\ runs = [r \in RunIds |-> None]
  /\ approvals = [r \in RunIds |-> None]
  /\ tick = [w \in Workers |-> Idle]
  /\ granting = [a \in Approvers |-> None]
  /\ overlapped = FALSE /\ switched = FALSE /\ raced = FALSE
  /\ changes = 0 /\ faults = 0

Fault      == faults < MaxFaults /\ faults' = faults + 1
At(w, pc)  == tick[w].pc = pc
Open       == {d \in Ids : decisions[d] # None /\ decisions[d].status = "open"}
Prepared   == {r \in RunIds : runs[r] # None}
About(d)   == decisions[d].key
Unused(f)  == {x \in DOMAIN f : f[x] = None}
NewIn(f)   == CHOOSE x \in Unused(f) : TRUE

\* DecisionEngine::evaluate and evaluate_rule: one draft for whatever shows something.
Drafts == {<<s, shown[s]>> : s \in {x \in Sources : shown[x] # None}}

-----------------------------------------------------------------------------
(* evaluate_decisions *)

Tick(w) ==
  /\ At(w, "idle")
  /\ tick' = [tick EXCEPT ![w] = [Idle EXCEPT !.pc = "evaluate", !.todo = Drafts]]
  /\ overlapped' = (overlapped \/ \E v \in Workers \ {w} : ~At(v, "idle"))
  /\ UNCHANGED <<tables, outside, admin, faults>>

\* Mutant: only what was updated lately is looked at.
ExistingFresh(key) == {d \in Open : About(d) = key /\ ~decisions[d].aged}
Existing(key) == {d \in Open : About(d) = key}

\* upsert_decision: the open decision of that category, source, title and incident,
Look(w) ==
  /\ At(w, "evaluate")
  /\ \E key \in tick[w].todo :
       \E d \in IF Existing(key) = {} THEN {None} ELSE Existing(key) :
         tick' = [tick EXCEPT ![w].pc = "write", ![w].key = key, ![w].found = d]
  /\ UNCHANGED <<tables, outside, admin, overlapped, faults>>

\* and then, in a statement of its own, its update or the insert of a new one.
Write(w) ==
  /\ At(w, "write")
  /\ \/ tick[w].found # None
        /\ decisions' = [decisions EXCEPT ![tick[w].found].aged = FALSE]
     \/ tick[w].found = None /\ Unused(decisions) # {}
        /\ decisions' = [decisions EXCEPT ![NewIn(decisions)] =
                           [key |-> tick[w].key, status |-> "open", aged |-> FALSE]]
  /\ tick' = [tick EXCEPT ![w].pc = "evaluate", ![w].todo = @ \ {tick[w].key},
                          ![w].key = None, ![w].found = None]
  /\ UNCHANGED <<runs, approvals, outside, admin, overlapped, faults>>

Expired(ds) == [d \in Ids |-> IF d \in ds THEN [decisions[d] EXCEPT !.status = "expired"]
                                          ELSE decisions[d]]
\* The first enabled workflow, by name, of a decision's category.
Serving(category) == SelectSeq(Workflows, LAMBDA f : f \in on /\ CategoryOf[f] = category)
Jobs(ds) == {<<d, Serving(Category[About(d)[1]])[1]>> :
               d \in {x \in ds : Serving(Category[About(x)[1]]) # <<>>}}
Lists(w, ds) == tick' = [tick EXCEPT ![w] = [Idle EXCEPT !.pc = "prepare", !.jobs = Jobs(ds)]]

\* expire_decisions: what has not been updated for 30 days. Then the open decisions
\* and the enabled workflows are listed.
Expire(w) ==
  LET lapsed == {d \in Open : decisions[d].aged} IN
  /\ At(w, "evaluate") /\ tick[w].todo = {}
  /\ decisions' = Expired(lapsed)
  /\ Lists(w, Open \ lapsed)
  /\ UNCHANGED <<runs, approvals, outside, admin, overlapped, faults>>

\* One failing statement ends the evaluation; the runs are prepared all the same.
EvaluationFails(w) ==
  /\ Fault /\ tick[w].pc \in {"evaluate", "write"}
  /\ Lists(w, Open)
  /\ UNCHANGED <<tables, outside, admin, overlapped>>

-----------------------------------------------------------------------------
(* prepare_workflow_runs *)

\* prepare_workflow_run: nothing to do for a run that is pending or waits already.
HasRun(d, f) == \E r \in Prepared : runs[r].decision = d /\ runs[r].workflow = f
Begin(w) ==
  /\ At(w, "prepare")
  /\ \E job \in tick[w].jobs :
       tick' = [tick EXCEPT ![w].jobs = @ \ {job},
                            ![w].pc = IF HasRun(job[1], job[2]) THEN "prepare" ELSE "ask",
                            ![w].job = IF HasRun(job[1], job[2]) THEN None ELSE job]
  /\ UNCHANGED <<tables, outside, admin, overlapped, faults>>

\* An approval is asked for unless one of that decision is pending.
Pending(d) == {r \in Prepared : runs[r].decision = d /\ approvals[r] = "pending"}
Ask(w) ==
  /\ At(w, "ask")
  /\ tick' = [tick EXCEPT ![w].pc = "commit", ![w].ask = (Pending(tick[w].job[1]) = {})]
  /\ UNCHANGED <<tables, outside, admin, overlapped, faults>>

NewRun(w) == [decision |-> tick[w].job[1], workflow |-> tick[w].job[2], status |-> "waiting_approval"]
Done(w)   == tick' = [tick EXCEPT ![w].pc = "prepare", ![w].job = None, ![w].ask = FALSE]

\* The run, the audit row and the approval are one transaction.
Commit(w) ==
  /\ At(w, "commit") /\ Unused(runs) # {}
  /\ runs' = [runs EXCEPT ![NewIn(runs)] = NewRun(w)]
  /\ approvals' = [approvals EXCEPT ![NewIn(runs)] = IF tick[w].ask THEN "pending" ELSE None]
  /\ Done(w)
  /\ UNCHANGED <<decisions, outside, admin, overlapped, faults>>

EndTick(w) ==
  /\ At(w, "prepare") /\ tick[w].jobs = {}
  /\ tick' = [tick EXCEPT ![w] = Idle]
  /\ UNCHANGED <<tables, outside, admin, overlapped, faults>>

\* An error ends the preparation, and a crash the tick; a transaction is rolled back.
\* So does an insert beyond the bounds Ids and RunIds.
TickDies(w) ==
  /\ \/ Fault /\ ~At(w, "idle")
     \/ /\ \/ At(w, "write") /\ tick[w].found = None /\ Unused(decisions) = {}
           \/ At(w, "commit") /\ Unused(runs) = {}
        /\ UNCHANGED faults
  /\ tick' = [tick EXCEPT ![w] = Idle]
  /\ UNCHANGED <<tables, outside, admin, overlapped>>

-----------------------------------------------------------------------------
(* approve_workflow_run *)

\* Mutant: nobody looks at how many approvals the update changed.
GrantUnasked(a) ==
  /\ granting[a] = None
  /\ \E r \in {x \in Prepared : runs[x].status = "waiting_approval"} :
       /\ \A b \in Approvers : granting[b] # None => granting[b].run # r
       /\ granting' = [granting EXCEPT ![a] =
            [run |-> r, approval |-> IF Pending(runs[r].decision) = {} THEN None
                                     ELSE CHOOSE p \in Pending(runs[r].decision) : TRUE]]
       /\ raced' = (raced \/ \E b \in Approvers : granting[b] # None
                               /\ runs[granting[b].run].decision = runs[r].decision)
  /\ UNCHANGED <<tables, outside, tick, overlapped, faults>>

\* The run is locked; the update then takes the latest pending approval of its
\* decision, and waits for a transaction that has taken the same.
Grant(a) ==
  /\ granting[a] = None
  /\ \E r \in {x \in Prepared : runs[x].status = "waiting_approval"} :
       /\ \A b \in Approvers : granting[b] # None => granting[b].run # r
       /\ \E p \in Pending(runs[r].decision) :
            granting' = [granting EXCEPT ![a] = [run |-> r, approval |-> p]]
       /\ raced' = (raced \/ \E b \in Approvers : granting[b] # None
                               /\ runs[granting[b].run].decision = runs[r].decision)
  /\ UNCHANGED <<tables, outside, tick, overlapped, faults>>

\* The row it waited for still has the id the update asks for: it changes one row.
GrantCommits(a) ==
  LET g == granting[a] IN
  /\ g # None
  /\ approvals' = (IF g.approval = None THEN approvals
                   ELSE [approvals EXCEPT ![g.approval] = "approved"])
  /\ runs' = [runs EXCEPT ![g.run].status = "pending"]
  /\ granting' = [granting EXCEPT ![a] = None]
  /\ UNCHANGED <<decisions, outside, raced, tick, overlapped, faults>>

GrantRolledBack(a) ==
  /\ Fault /\ granting[a] # None
  /\ granting' = [granting EXCEPT ![a] = None]
  /\ UNCHANGED <<tables, outside, raced, tick, overlapped>>

-----------------------------------------------------------------------------
(* Time, the sources and the owner. *)

\* 30 days without an update: of what no source shows, or without a tick.
Age(d) ==
  /\ d \in Open /\ ~decisions[d].aged
  /\ \/ About(d) \notin Drafts /\ UNCHANGED faults
     \/ About(d) \in Drafts /\ Fault
  /\ decisions' = [decisions EXCEPT ![d].aged = TRUE]
  /\ UNCHANGED <<runs, approvals, outside, admin, tick, overlapped>>

Change(s) ==
  /\ changes < MaxChanges /\ changes' = changes + 1
  /\ \E t \in (Titles \cup {None}) \ {shown[s]} : shown' = [shown EXCEPT ![s] = t]
  /\ UNCHANGED <<tables, on, switched, admin, tick, overlapped, faults>>

Switch(f) ==
  /\ changes < MaxChanges /\ changes' = changes + 1
  /\ on' = (IF f \in on THEN on \ {f} ELSE on \cup {f}) /\ switched' = TRUE
  /\ UNCHANGED <<tables, shown, admin, tick, overlapped, faults>>

Step(w) ==
  \/ Look(w) \/ Write(w) \/ Expire(w) \/ Begin(w) \/ Ask(w) \/ Commit(w)
  \/ EndTick(w)

Next ==
  \/ \E w \in Workers : Tick(w) \/ Step(w) \/ EvaluationFails(w) \/ TickDies(w)
  \/ \E a \in Approvers : Grant(a) \/ GrantCommits(a) \/ GrantRolledBack(a)
  \/ \E d \in Ids : Age(d)
  \/ \E s \in Sources : Change(s)
  \/ \E f \in ToSet(Workflows) : Switch(f)

Spec == Init /\ [][Next]_vars

-----------------------------------------------------------------------------
(* Properties *)

\* A tick finds the decision of an earlier one: what has two open decisions has been
\* evaluated by two workers at once.
OneOpenDecision ==
  \A d, e \in Open : About(d) = About(e) => d = e \/ overlapped

\* A run that waits for an approval can be approved: one is pending for its decision,
\* whatever calls failed, as long as one worker at a time prepares runs and the
\* decision's workflow has not been replaced by another.
WaitingIsApprovable ==
  \A r \in Prepared :
    runs[r].status = "waiting_approval" =>
      Pending(runs[r].decision) # {} \/ overlapped \/ switched

\* Ticks that take turns leave one decision and a run that can be approved.
TicksAgree == OneOpenDecision /\ WaitingIsApprovable

\* No approval releases two runs, even when overlapping ticks or a replaced workflow
\* have left several runs to a decision, unless two administrators approve at once.
ApprovalPerRun ==
  \A d \in Ids :
    LET of == {r \in Prepared : runs[r].decision = d} IN
    Cardinality({r \in of : runs[r].status = "pending"})
      <= Cardinality({r \in of : approvals[r] = "approved"}) \/ raced
================================================================================
