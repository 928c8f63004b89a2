---------------------------- MODULE DecisionsProofs ----------------------------
(***************************************************************************)
(* Ticks that take turns agree: for any number of workers, approvers,      *)
(* sources, titles, workflows and ids, and whatever fails.                 *)
(***************************************************************************)
EXTENDS Decisions, FiniteSetTheorems, TLAPS

\* The null value is no row of a table and no job.
NoneIsNoRow ==
  /\ \A d, f : None # <<d, f>>
  /\ \A k, s, a : None # [key |-> k, status |-> s, aged |-> a]
  /\ \A d, f, s : None # [decision |-> d, workflow |-> f, status |-> s]

-----------------------------------------------------------------------------
(* Types. *)

\* The workflow a decision about a source gets when the workflows of `enabled` are on.
Choice(enabled, s) ==
  SelectSeq(Workflows, LAMBDA f : f \in enabled /\ CategoryOf[f] = Category[s])
Chosen  == {Choice(S, s)[1] : S \in SUBSET ToSet(Workflows), s \in Sources}
Keys    == Sources \X Titles
Rows    == [key : Keys, status : {"open", "expired"}, aged : BOOLEAN]
RunRows == [decision : Ids, workflow : Chosen, status : {"waiting_approval", "pending"}]
Steps   == {"idle", "evaluate", "write", "prepare", "ask", "commit"}
Ticks   == [pc : Steps, todo : SUBSET Keys, key : Keys \cup {None}, found : Ids \cup {None},
            jobs : SUBSET (Ids \X Chosen), job : (Ids \X Chosen) \cup {None}, ask : BOOLEAN]

Types ==
  /\ shown \in [Sources -> Titles \cup {None}] /\ on \subseteq ToSet(Workflows)
  /\ decisions \in [Ids -> Rows \cup {None}]
  /\ runs \in [RunIds -> RunRows \cup {None}]
  /\ approvals \in [RunIds -> {"pending", "approved", None}]
  /\ tick \in [Workers -> Ticks]
  /\ granting \in [Approvers -> [run : RunIds, approval : RunIds] \cup {None}]
  /\ overlapped \in BOOLEAN /\ switched \in BOOLEAN

LEMMA ServingIsChoice == \A s : Serving(Category[s]) = Choice(on, s)
BY DEF Serving, Choice

LEMMA JobsAreTyped ==
  ASSUME Types, NEW ds \in SUBSET Open
  PROVE  /\ Jobs(ds) \in SUBSET (Ids \X Chosen)
         /\ \A j \in Jobs(ds) : j[1] \in ds /\ j[2] = Choice(on, About(j[1])[1])[1]
<1>1. \A d \in ds : d \in Ids /\ About(d) \in Keys
  BY DEF Types, Open, About, Rows
<1>2. \A d \in ds : Choice(on, About(d)[1])[1] \in Chosen
  <2> HIDE DEF Choice
  <2> QED BY <1>1 DEF Types, Chosen, Keys
<1>3. Jobs(ds) = {<<d, Choice(on, About(d)[1])[1]>> :
                    d \in {x \in ds : Choice(on, About(x)[1]) # <<>>}}
  BY ServingIsChoice DEF Jobs
<1> QED BY <1>1, <1>2, <1>3

-----------------------------------------------------------------------------
(* The inductive invariant. *)

\* Whatever a worker, a run or an approver refers to by id is in the tables.
Refers(w) ==
  /\ At(w, "write") =>
       tick[w].key \in Keys /\ (tick[w].found # None => decisions[tick[w].found] # None)
  /\ \A j \in tick[w].jobs : decisions[j[1]] # None
  /\ tick[w].pc \in {"ask", "commit"} =>
       tick[w].job # None /\ decisions[tick[w].job[1]] # None
Rooted ==
  /\ \A w \in Workers : Refers(w)
  /\ \A r \in Prepared : decisions[runs[r].decision] # None
  /\ \A a \in Approvers : granting[a] # None => granting[a].run \in Prepared

\* Ticks that take turns: one worker is busy, one decision is open for a draft, and
\* what a worker has looked for in vain is still not there when it writes.
Turns ==
  ~overlapped =>
    /\ \A v, w \in Workers : v # w => At(v, "idle") \/ At(w, "idle")
    /\ \A d, e \in Open : About(d) = About(e) => d = e
    /\ \A w \in Workers : At(w, "write") /\ tick[w].found = None =>
         \A d \in Open : About(d) # tick[w].key

\* As long as no workflow has been replaced either, a decision has one run, of the
\* workflow that serves it, and the run's own approval is what a grant takes.
Mine(d)    == Choice(on, About(d)[1])[1]
Waits(r)   == runs[r].status = "waiting_approval" => approvals[r] = "pending"
Prepares(w) ==
  /\ \A j \in tick[w].jobs : j[2] = Mine(j[1])
  /\ tick[w].pc \in {"ask", "commit"} =>
       /\ tick[w].job[2] = Mine(tick[w].job[1])
       /\ \A r \in Prepared : runs[r].decision # tick[w].job[1]
  /\ At(w, "commit") => tick[w].ask
OneRunEach ==
  ~overlapped /\ ~switched =>
    /\ \A r \in Prepared : runs[r].workflow = Mine(runs[r].decision) /\ Waits(r)
    /\ \A r, s \in Prepared : runs[r].decision = runs[s].decision => r = s
    /\ \A w \in Workers : Prepares(w)
    /\ \A a \in Approvers : granting[a] # None => granting[a].run = granting[a].approval

IInv == Types /\ Rooted /\ Turns /\ OneRunEach

LEMMA InitIInv == NoneIsNoRow /\ Init => IInv
<1> SUFFICES ASSUME NoneIsNoRow, Init PROVE IInv
  OBVIOUS
<1> USE DEF Init, Idle, At, Prepared, Open
<1>1. Types
  BY DEF Types, Ticks, Steps
<1>2. Rooted
  BY DEF Rooted, Refers
<1>3. Turns
  BY DEF Turns
<1>4. OneRunEach
  BY DEF OneRunEach, Prepares
<1> QED BY <1>1, <1>2, <1>3, <1>4 DEF IInv

(* A free id is one of the table's ids. *)
LEMMA FreeIds ==
  ASSUME Types
  PROVE  /\ Unused(decisions) # {} => NewIn(decisions) \in Ids /\ decisions[NewIn(decisions)] = None
         /\ Unused(runs) # {} => NewIn(runs) \in RunIds /\ runs[NewIn(runs)] = None
<1>1. DOMAIN decisions = Ids /\ DOMAIN runs = RunIds
  BY DEF Types
<1>2. Unused(decisions) # {} => NewIn(decisions) \in Unused(decisions)
  BY DEF NewIn
<1>3. Unused(runs) # {} => NewIn(runs) \in Unused(runs)
  BY DEF NewIn
<1> QED BY <1>1, <1>2, <1>3 DEF Unused

(* A tick is replaced by another one. *)
LEMMA TickReplaced ==
  ASSUME Types, NEW w \in Workers, NEW t \in Ticks, tick' = [tick EXCEPT ![w] = t]
  PROVE  tick' \in [Workers -> Ticks]
BY Zenon DEF Types

LEMMA TypesStep == ASSUME Types, Rooted, [Next]_vars PROVE Types'
<1> USE FreeIds, DecisionsAssumption
<1>0. \A ds \in SUBSET Open : Jobs(ds) \in SUBSET (Ids \X Chosen)
  BY JobsAreTyped
<1>d. Drafts \subseteq Keys
  BY DEF Drafts, Keys, Types
<1>i. Idle \in Ticks
  BY DEF Idle, Ticks, Steps
<1>l. ASSUME NEW w \in Workers, NEW ds \in SUBSET Open, Lists(w, ds)
      PROVE  tick' \in [Workers -> Ticks]
  <2>1. [Idle EXCEPT !.pc = "prepare", !.jobs = Jobs(ds)] \in Ticks
    BY <1>0 DEF Idle, Ticks, Steps
  <2> QED BY <1>l, <2>1, TickReplaced DEF Lists
<1>r. \A w \in Workers : tick[w] \in Ticks
  BY DEF Types
<1>1. ASSUME NEW w \in Workers, Tick(w) PROVE Types'
  <2>1. [Idle EXCEPT !.pc = "evaluate", !.todo = Drafts] \in Ticks
    BY <1>d DEF Idle, Ticks, Steps
  <2>2. tick' \in [Workers -> Ticks]
    BY <1>1, <2>1, TickReplaced DEF Tick
  <2> QED BY <1>1, <2>2 DEF Types, Tick, tables, outside, admin
<1>2. ASSUME NEW w \in Workers, Look(w) PROVE Types'
  <2>1. PICK key \in tick[w].todo, d \in Ids \cup {None} :
          tick' = [tick EXCEPT ![w].pc = "write", ![w].key = key, ![w].found = d]
    BY <1>2 DEF Look, Existing, Open
  <2>2. [tick[w] EXCEPT !.pc = "write", !.key = key, !.found = d] \in Ticks
    BY <1>r DEF Ticks, Steps
  <2>3. tick' = [tick EXCEPT ![w] = [tick[w] EXCEPT !.pc = "write", !.key = key, !.found = d]]
    BY <2>1 DEF Types
  <2>4. tick' \in [Workers -> Ticks]
    BY <2>2, <2>3, TickReplaced
  <2> QED BY <1>2, <2>4 DEF Types, Look, tables, outside, admin
<1>3. ASSUME NEW w \in Workers, Write(w) PROVE Types'
  <2>2. [tick[w] EXCEPT !.pc = "evaluate", !.todo = @ \ {tick[w].key}, !.key = None, !.found = None]
          \in Ticks
    BY <1>r DEF Ticks, Steps
  <2>3. tick' = [tick EXCEPT ![w] = [tick[w] EXCEPT !.pc = "evaluate",
                    !.todo = @ \ {tick[w].key}, !.key = None, !.found = None]]
    BY <1>3 DEF Types, Write
  <2>4. tick' \in [Workers -> Ticks]
    BY <2>2, <2>3, TickReplaced
  <2>5. decisions' \in [Ids -> Rows \cup {None}]
    <3>1. tick[w].key \in Keys /\ tick[w].found \in Ids \cup {None}
            /\ (tick[w].found # None => decisions[tick[w].found] # None)
      BY <1>3, <1>r DEF Write, Rooted, Refers, At, Ticks
    <3>2. CASE /\ tick[w].found # None
               /\ decisions' = [decisions EXCEPT ![tick[w].found].aged = FALSE]
      <4>1. decisions[tick[w].found] \in Rows
        BY <3>1, <3>2 DEF Types
      <4>2. [decisions[tick[w].found] EXCEPT !.aged = FALSE] \in Rows
        BY <4>1 DEF Rows
      <4>3. decisions' = [decisions EXCEPT ![tick[w].found] =
                            [decisions[tick[w].found] EXCEPT !.aged = FALSE]]
        BY <3>2 DEF Types
      <4> QED BY <4>2, <4>3, Zenon DEF Types
    <3>3. CASE /\ Unused(decisions) # {}
               /\ decisions' = [decisions EXCEPT ![NewIn(decisions)] =
                    [key |-> tick[w].key, status |-> "open", aged |-> FALSE]]
      <4>1. [key |-> tick[w].key, status |-> "open", aged |-> FALSE] \in Rows
        BY <3>1 DEF Rows
      <4> QED BY <3>3, <4>1, Zenon DEF Types
    <3> QED BY <1>3, <3>2, <3>3 DEF Write
  <2> QED BY <1>3, <2>4, <2>5 DEF Types, Write, outside, admin
<1>4. ASSUME NEW w \in Workers, Expire(w) PROVE Types'
  <2>1. \A ds \in SUBSET Open : Expired(ds) \in [Ids -> Rows \cup {None}]
    BY DEF Types, Expired, Rows, Open
  <2>2. tick' \in [Workers -> Ticks]
    BY <1>4, <1>l DEF Expire
  <2> QED BY <1>4, <2>1, <2>2 DEF Types, Expire, outside, admin
<1>5. ASSUME NEW w \in Workers, EvaluationFails(w) PROVE Types'
  <2>1. tick' \in [Workers -> Ticks]
    BY <1>5, <1>l DEF EvaluationFails
  <2> QED BY <1>5, <2>1 DEF Types, EvaluationFails, tables, outside, admin
<1>6. ASSUME NEW w \in Workers, Begin(w) PROVE Types'
  <2>1. PICK job \in tick[w].jobs :
          tick' = [tick EXCEPT ![w].jobs = @ \ {job},
                     ![w].pc = IF HasRun(job[1], job[2]) THEN "prepare" ELSE "ask",
                     ![w].job = IF HasRun(job[1], job[2]) THEN None ELSE job]
    BY <1>6 DEF Begin
  <2> DEFINE t == [tick[w] EXCEPT !.jobs = @ \ {job},
                     !.pc = IF HasRun(job[1], job[2]) THEN "prepare" ELSE "ask",
                     !.job = IF HasRun(job[1], job[2]) THEN None ELSE job]
  <2>2. t \in Ticks
    BY <1>r, ZenonT(60) DEF Ticks, Steps
  <2>3. tick' = [tick EXCEPT ![w] = t]
    BY <2>1 DEF Types
  <2> HIDE DEF t
  <2>4. tick' \in [Workers -> Ticks]
    BY <2>2, <2>3, TickReplaced
  <2> QED BY <1>6, <2>4 DEF Types, Begin, tables, outside, admin
<1>7. ASSUME NEW w \in Workers, Ask(w) PROVE Types'
  <2> DEFINE ask == Pending(tick[w].job[1]) = {}
             t   == [tick[w] EXCEPT !.pc = "commit", !.ask = ask]
  <2>1. tick' = [tick EXCEPT ![w] = t]
    BY <1>7, Zenon DEF Types, Ask
  <2>2. ask \in BOOLEAN
    OBVIOUS
  <2> HIDE DEF ask
  <2>3. t \in Ticks
    BY <1>r, <2>2 DEF Ticks, Steps
  <2> HIDE DEF t
  <2>4. tick' \in [Workers -> Ticks]
    BY <2>1, <2>3, TickReplaced
  <2> QED BY <1>7, <2>4 DEF Types, Ask, tables, outside, admin
<1>8. ASSUME NEW w \in Workers, Commit(w) PROVE Types'
  <2> DEFINE t == [tick[w] EXCEPT !.pc = "prepare", !.job = None, !.ask = FALSE]
  <2>1. tick' = [tick EXCEPT ![w] = t]
    BY <1>8 DEF Types, Commit, Done
  <2>2. t \in Ticks
    BY <1>r DEF Ticks, Steps
  <2>3. tick' \in [Workers -> Ticks]
    BY <2>1, <2>2, TickReplaced
  <2>4. NewRun(w) \in RunRows
    <3>1. tick[w].job \in Ids \X Chosen
      BY <1>8, <1>r DEF Commit, Rooted, Refers, At, Ticks
    <3> QED BY <3>1 DEF NewRun, RunRows
  <2>5. runs' \in [RunIds -> RunRows \cup {None}]
    BY <1>8, <2>4 DEF Commit, Types
  <2>6. approvals' \in [RunIds -> {"pending", "approved", None}]
    BY <1>8 DEF Commit, Types
  <2> QED BY <1>8, <2>3, <2>5, <2>6 DEF Types, Commit, outside, admin
<1>9. ASSUME NEW w \in Workers, EndTick(w) \/ TickDies(w) PROVE Types'
  <2>1. tick' \in [Workers -> Ticks]
    BY <1>9, <1>i, TickReplaced DEF EndTick, TickDies
  <2> QED BY <1>9, <2>1 DEF Types, EndTick, TickDies, tables, outside, admin
<1>10. ASSUME NEW a \in Approvers, Grant(a) PROVE Types'
  <2>1. PICK r \in Prepared, p \in RunIds :
          granting' = [granting EXCEPT ![a] = [run |-> r, approval |-> p]]
    BY <1>10 DEF Grant, Pending, Prepared
  <2>2. granting' \in [Approvers -> [run : RunIds, approval : RunIds] \cup {None}]
    BY <2>1 DEF Types, Prepared
  <2>3. UNCHANGED <<tables, outside, tick, overlapped>>
    BY <1>10 DEF Grant
  <2> QED BY <2>2, <2>3 DEF Types, tables, outside
<1>11. ASSUME NEW a \in Approvers, GrantCommits(a) PROVE Types'
  <2> DEFINE g == granting[a]
  <2>1. g \in [run : RunIds, approval : RunIds] /\ runs[g.run] \in RunRows
    BY <1>11 DEF GrantCommits, Types, Rooted, Prepared
  <2>2. runs' = [runs EXCEPT ![g.run] = [runs[g.run] EXCEPT !.status = "pending"]]
    BY <1>11, <2>1 DEF GrantCommits, Types
  <2>3. [runs[g.run] EXCEPT !.status = "pending"] \in RunRows
    BY <2>1 DEF RunRows
  <2>4. runs' \in [RunIds -> RunRows \cup {None}]
    BY <2>1, <2>2, <2>3 DEF Types
  <2>5. approvals' \in [RunIds -> {"pending", "approved", None}]
    BY <1>11 DEF GrantCommits, Types
  <2>6. granting' \in [Approvers -> [run : RunIds, approval : RunIds] \cup {None}]
    BY <1>11 DEF GrantCommits, Types
  <2> QED BY <1>11, <2>4, <2>5, <2>6 DEF Types, GrantCommits, outside
<1>12. ASSUME NEW a \in Approvers, GrantRolledBack(a) PROVE Types'
  BY <1>12 DEF Types, GrantRolledBack, tables, outside
<1>13. ASSUME NEW d \in Ids, Age(d) PROVE Types'
  <2>1. decisions[d] \in Rows
    BY <1>13 DEF Age, Open, Types
  <2>2. [decisions[d] EXCEPT !.aged = TRUE] \in Rows
    BY <2>1 DEF Rows
  <2>3. decisions' = [decisions EXCEPT ![d] = [decisions[d] EXCEPT !.aged = TRUE]]
    BY <1>13 DEF Age, Types
  <2>4. decisions' \in [Ids -> Rows \cup {None}]
    BY <2>2, <2>3, Zenon DEF Types
  <2> QED BY <1>13, <2>4 DEF Types, Age, outside, admin
<1>14. ASSUME NEW s \in Sources, Change(s) PROVE Types'
  BY <1>14 DEF Types, Change, tables, admin
<1>15. ASSUME NEW f \in ToSet(Workflows), Switch(f) PROVE Types'
  BY <1>15 DEF Types, Switch, tables, admin
<1>16. CASE UNCHANGED vars
  BY <1>16 DEF Types, vars
<1> QED
  BY <1>1, <1>2, <1>3, <1>4, <1>5, <1>6, <1>7, <1>8, <1>9, <1>10, <1>11,
     <1>12, <1>13, <1>14, <1>15, <1>16 DEF Next, Step

(* Rows are never deleted; a decision keeps what it is about, a run its decision and *)
(* its workflow.                                                                     *)
LEMMA RowsAreKept ==
  ASSUME NoneIsNoRow, Types, Rooted, [Next]_vars
  PROVE  /\ \A d \in Ids : decisions[d] # None =>
              decisions'[d] # None /\ decisions'[d].key = decisions[d].key
         /\ \A r \in Prepared : /\ r \in Prepared'
                                /\ runs'[r].decision = runs[r].decision
                                /\ runs'[r].workflow = runs[r].workflow
<1> USE FreeIds
<1>n. /\ \A t \in Rows : t # None
      /\ \A t \in RunRows : t # None
  BY DEF NoneIsNoRow, Rows, RunRows
<1>a. ASSUME UNCHANGED decisions
      PROVE  \A d \in Ids : decisions[d] # None =>
               decisions'[d] # None /\ decisions'[d].key = decisions[d].key
  BY <1>a
<1>b. ASSUME UNCHANGED runs
      PROVE  \A r \in Prepared : /\ r \in Prepared'
                                /\ runs'[r].decision = runs[r].decision
                                /\ runs'[r].workflow = runs[r].workflow
  BY <1>b DEF Prepared
<1>1. ASSUME NEW w \in Workers, Write(w)
      PROVE  \A d \in Ids : decisions[d] # None =>
               decisions'[d] # None /\ decisions'[d].key = decisions[d].key
  <2>1. CASE /\ tick[w].found # None
             /\ decisions' = [decisions EXCEPT ![tick[w].found].aged = FALSE]
    <3>1. tick[w].found \in Ids /\ decisions[tick[w].found] \in Rows
      BY <1>1, <2>1 DEF Write, Rooted, Refers, At, Types, Ticks
    <3>2. /\ [decisions[tick[w].found] EXCEPT !.aged = FALSE] \in Rows
          /\ [decisions[tick[w].found] EXCEPT !.aged = FALSE].key = decisions[tick[w].found].key
      BY <3>1 DEF Rows
    <3> QED BY <2>1, <3>1, <3>2, <1>n DEF Types
  <2>2. CASE /\ Unused(decisions) # {}
             /\ decisions' = [decisions EXCEPT ![NewIn(decisions)] =
                    [key |-> tick[w].key, status |-> "open", aged |-> FALSE]]
    BY <2>2 DEF Types
  <2> QED BY <1>1, <2>1, <2>2 DEF Write
<1>2. ASSUME NEW w \in Workers, Expire(w)
      PROVE  \A d \in Ids : decisions[d] # None =>
               decisions'[d] # None /\ decisions'[d].key = decisions[d].key
  <2>1. \A t \in Rows : /\ [t EXCEPT !.status = "expired"] \in Rows
                        /\ [t EXCEPT !.status = "expired"].key = t.key
    BY DEF Rows
  <2> QED BY <1>2, <2>1, <1>n DEF Expire, Expired, Types
<1>3. ASSUME NEW d \in Ids, Age(d)
      PROVE  \A e \in Ids : decisions[e] # None =>
               decisions'[e] # None /\ decisions'[e].key = decisions[e].key
  <2>1. decisions[d] \in Rows
    BY <1>3 DEF Age, Open, Types
  <2>2. /\ [decisions[d] EXCEPT !.aged = TRUE] \in Rows
        /\ [decisions[d] EXCEPT !.aged = TRUE].key = decisions[d].key
    BY <2>1 DEF Rows
  <2> QED BY <1>3, <2>2, <1>n DEF Age, Types
<1>4. ASSUME NEW w \in Workers, Commit(w)
      PROVE  \A r \in Prepared : /\ r \in Prepared'
                                /\ runs'[r].decision = runs[r].decision
                                /\ runs'[r].workflow = runs[r].workflow
  BY <1>4 DEF Commit, Prepared, Types
<1>5. ASSUME NEW a \in Approvers, GrantCommits(a)
      PROVE  \A r \in Prepared : /\ r \in Prepared'
                                /\ runs'[r].decision = runs[r].decision
                                /\ runs'[r].workflow = runs[r].workflow
  <2> DEFINE g == granting[a]
  <2>1. g.run \in RunIds /\ runs[g.run] \in RunRows
    BY <1>5 DEF GrantCommits, Rooted, Prepared, Types
  <2>2. /\ [runs[g.run] EXCEPT !.status = "pending"] \in RunRows
        /\ [runs[g.run] EXCEPT !.status = "pending"].decision = runs[g.run].decision
        /\ [runs[g.run] EXCEPT !.status = "pending"].workflow = runs[g.run].workflow
    BY <2>1 DEF RunRows
  <2>3. runs' = [runs EXCEPT ![g.run] = [runs[g.run] EXCEPT !.status = "pending"]]
    BY <1>5, <2>1 DEF GrantCommits, Types
  <2> HIDE DEF g
  <2> QED BY <2>1, <2>2, <2>3, <1>n DEF Prepared, Types
<1>6. CASE \E w \in Workers : Write(w)
  BY <1>6, <1>1, <1>b DEF Write
<1>7. CASE \E w \in Workers : Expire(w)
  BY <1>7, <1>2, <1>b DEF Expire
<1>8. CASE \E d \in Ids : Age(d)
  BY <1>8, <1>3, <1>b DEF Age
<1>9. CASE \E w \in Workers : Commit(w)
  BY <1>9, <1>4, <1>a DEF Commit
<1>10. CASE \E a \in Approvers : GrantCommits(a)
  BY <1>10, <1>5, <1>a DEF GrantCommits
<1>11. CASE UNCHANGED <<decisions, runs>>
  BY <1>11, <1>a, <1>b
<1>12. ASSUME NEW w \in Workers,
              \/ Tick(w) \/ Look(w) \/ EvaluationFails(w) \/ TickDies(w)
              \/ Begin(w) \/ Ask(w) \/ EndTick(w)
       PROVE  UNCHANGED <<decisions, runs>>
  BY <1>12 DEF Tick, Look, EvaluationFails, TickDies, Begin, Ask, EndTick, tables
<1>13. ASSUME NEW a \in Approvers, Grant(a) \/ GrantRolledBack(a)
       PROVE  UNCHANGED <<decisions, runs>>
  BY <1>13 DEF Grant, GrantRolledBack, tables
<1>14. ASSUME \/ \E s \in Sources : Change(s)
              \/ \E f \in ToSet(Workflows) : Switch(f)
       PROVE  UNCHANGED <<decisions, runs>>
  BY <1>14 DEF Change, Switch, tables
<1>15. CASE UNCHANGED vars
  BY <1>15, <1>11 DEF vars
<1> HIDE DEF Types, Rooted
<1> QED
  BY <1>6, <1>7, <1>8, <1>9, <1>10, <1>11, <1>12, <1>13, <1>14, <1>15 DEF Next, Step

(* A worker's step leaves the other workers where they are; the step of anyone else *)
(* leaves all of them.                                                              *)
LEMMA OthersStay ==
  ASSUME Types, NEW w \in Workers, Tick(w) \/ Step(w) \/ EvaluationFails(w) \/ TickDies(w)
  PROVE  \A v \in Workers : v # w => tick'[v] = tick[v]
<1>1. CASE Tick(w)
  BY <1>1 DEF Tick, Types
<1>2. CASE Look(w)
  BY <1>2 DEF Look, Types
<1>3. CASE Write(w)
  BY <1>3 DEF Write, Types
<1>4. CASE Expire(w) \/ EvaluationFails(w)
  BY <1>4 DEF Expire, EvaluationFails, Lists, Types
<1>5. CASE Begin(w)
  BY <1>5 DEF Begin, Types
<1>6. CASE Ask(w)
  <2> DEFINE ask == Pending(tick[w].job[1]) = {}
  <2>1. tick' = [tick EXCEPT ![w] = [tick[w] EXCEPT !.pc = "commit", !.ask = ask]]
    BY <1>6, Zenon DEF Ask, Types
  <2> HIDE DEF ask
  <2> QED BY <2>1 DEF Types
<1>7. CASE Commit(w)
  BY <1>7 DEF Commit, Done, Types
<1>8. CASE EndTick(w) \/ TickDies(w)
  BY <1>8 DEF EndTick, TickDies, Types
<1> QED BY <1>1, <1>2, <1>3, <1>4, <1>5, <1>6, <1>7, <1>8 DEF Step

LEMMA RootedStep ==
  ASSUME NoneIsNoRow, Types, Rooted, [Next]_vars, Types'
  PROVE  Rooted'
<1>k. /\ \A d \in Ids : decisions[d] # None =>
           decisions'[d] # None /\ decisions'[d].key = decisions[d].key
      /\ \A r \in Prepared : /\ r \in Prepared'
                             /\ runs'[r].decision = runs[r].decision
                             /\ runs'[r].workflow = runs[r].workflow
  BY RowsAreKept
<1>s. ASSUME NEW v \in Workers, tick'[v] = tick[v] PROVE Refers(v)'
  BY <1>s, <1>k DEF Rooted, Refers, At, Types, Ticks
<1>j. ASSUME NEW w \in Workers, NEW ds \in SUBSET Open, Lists(w, ds)
      PROVE  Refers(w)'
  <2>1. tick'[w].pc = "prepare" /\ tick'[w].jobs = Jobs(ds)
    BY <1>j DEF Lists, Idle, Types
  <2>2. \A j \in Jobs(ds) : j[1] \in Open
    BY JobsAreTyped
  <2> QED BY <2>1, <2>2, <1>k DEF Refers, At, Open
\* A step of a worker.
<1>w. ASSUME NEW w \in Workers, Tick(w) \/ Step(w) \/ EvaluationFails(w) \/ TickDies(w)
      PROVE  Refers(w)'
  <2>1. CASE Tick(w)
    BY <2>1 DEF Tick, Idle, Types, Refers, At
  <2>2. CASE Look(w)
    <3>1. PICK key \in tick[w].todo, d \in Open \cup {None} :
            tick' = [tick EXCEPT ![w].pc = "write", ![w].key = key, ![w].found = d]
      BY <2>2 DEF Look, Existing
    <3>2. /\ tick'[w].pc = "write" /\ tick'[w].key = key /\ tick'[w].found = d
          /\ tick'[w].jobs = tick[w].jobs
      BY <3>1 DEF Types, Ticks
    <3>3. key \in Keys /\ \A j \in tick[w].jobs : j[1] \in Ids
      BY DEF Types, Ticks
    <3> QED BY <3>2, <3>3, <1>k DEF Refers, At, Open, Rooted
  <2>3. CASE Write(w)
    <3>1. tick'[w].pc = "evaluate" /\ tick'[w].jobs = tick[w].jobs
      BY <2>3 DEF Write, Types, Ticks
    <3>2. \A j \in tick[w].jobs : j[1] \in Ids
      BY DEF Types, Ticks
    <3> QED BY <3>1, <3>2, <1>k DEF Refers, At, Rooted
  <2>4. CASE Expire(w) \/ EvaluationFails(w)
    BY <2>4, <1>j DEF Expire, EvaluationFails
  <2>5. CASE Begin(w)
    <3>1. PICK job \in tick[w].jobs :
          tick' = [tick EXCEPT ![w].jobs = @ \ {job},
                     ![w].pc = IF HasRun(job[1], job[2]) THEN "prepare" ELSE "ask",
                     ![w].job = IF HasRun(job[1], job[2]) THEN None ELSE job]
      BY <2>5 DEF Begin
    <3>2. /\ tick'[w].pc \in {"prepare", "ask"} /\ tick'[w].jobs = tick[w].jobs \ {job}
          /\ tick'[w].pc = "ask" => tick'[w].job = job
      BY <3>1 DEF Types, Ticks
    <3>3. job # None /\ \A j \in tick[w].jobs : j[1] \in Ids
      <4>1. \A j \in tick[w].jobs : j \in Ids \X Chosen
        BY DEF Types, Ticks
      <4> QED BY <4>1 DEF NoneIsNoRow
    <3> QED BY <3>2, <3>3, <1>k DEF Refers, At, Rooted
  <2>6. CASE Ask(w)
    <3> DEFINE ask == Pending(tick[w].job[1]) = {}
    <3>1. tick' = [tick EXCEPT ![w] = [tick[w] EXCEPT !.pc = "commit", !.ask = ask]]
      BY <2>6, Zenon DEF Ask, Types
    <3> HIDE DEF ask
    <3>2. tick'[w].pc = "commit" /\ tick'[w].jobs = tick[w].jobs /\ tick'[w].job = tick[w].job
      BY <3>1 DEF Types, Ticks
    <3>3. tick[w].pc = "ask" /\ tick[w] \in Ticks
      BY <2>6 DEF Ask, At, Types
    <3>4. tick[w].job # None /\ decisions[tick[w].job[1]] # None
      BY <3>3 DEF Rooted, Refers
    <3>5. tick[w].job \in Ids \X Chosen /\ \A j \in tick[w].jobs : j[1] \in Ids
      BY <3>3, <3>4 DEF Ticks
    <3>6. \A j \in tick[w].jobs : decisions[j[1]] # None
      BY DEF Rooted, Refers
    <3> QED BY <3>2, <3>4, <3>5, <3>6, <1>k DEF Refers, At
  <2>7. CASE Commit(w)
    <3>1. tick'[w].pc = "prepare" /\ tick'[w].jobs = tick[w].jobs
      BY <2>7 DEF Commit, Done, Types, Ticks
    <3>2. \A j \in tick[w].jobs : j[1] \in Ids
      BY DEF Types, Ticks
    <3> QED BY <3>1, <3>2, <1>k DEF Refers, At, Rooted
  <2>8. CASE EndTick(w) \/ TickDies(w)
    BY <2>8 DEF EndTick, TickDies, Idle, Types, Refers, At
  <2> QED BY <1>w, <2>1, <2>2, <2>3, <2>4, <2>5, <2>6, <2>7, <2>8 DEF Step
<1>1. \A w \in Workers : Refers(w)'
  <2>1. CASE \E w \in Workers : Tick(w) \/ Step(w) \/ EvaluationFails(w) \/ TickDies(w)
    BY <2>1, <1>w, <1>s, OthersStay
  <2>2. CASE UNCHANGED tick
    BY <2>2, <1>s
  <2> QED
    BY <2>1, <2>2 DEF Next, Grant, GrantCommits, GrantRolledBack, Age, Change, Switch, vars
<1>2. (\A r \in Prepared : decisions[runs[r].decision] # None)'
  <2>1. ASSUME NEW w \in Workers, Commit(w), NEW r \in Prepared', r \notin Prepared
        PROVE  decisions'[runs'[r].decision] # None
    <3>1. runs'[r] = NewRun(w)
      BY <2>1, FreeIds DEF Commit, Prepared, Types
    <3>2. tick[w].job \in Ids \X Chosen /\ decisions[tick[w].job[1]] # None
      BY <2>1 DEF Commit, Rooted, Refers, At, Types, Ticks
    <3> QED BY <3>1, <3>2, <1>k DEF NewRun
  <2>2. ASSUME NEW r \in Prepared' \ Prepared
        PROVE  \E w \in Workers : Commit(w)
    <3>1. CASE \E a \in Approvers : GrantCommits(a)
      BY <3>1, <2>2 DEF GrantCommits, Rooted, Prepared, Types
    <3>2. CASE UNCHANGED runs
      BY <3>2, <2>2 DEF Prepared
    <3> QED
      BY <3>1, <3>2 DEF Next, Step, Tick, Look, Write, Expire, EvaluationFails, TickDies,
         Begin, Ask, EndTick, Grant, GrantRolledBack, Age, Change, Switch, vars, tables
  <2>3. \A r \in Prepared : decisions[runs[r].decision] # None /\ runs[r].decision \in Ids
    BY DEF Rooted, Prepared, Types, RunRows
  <2> QED BY <2>1, <2>2, <2>3, <1>k
<1>3. (\A a \in Approvers : granting[a] # None => granting[a].run \in Prepared)'
  <2>1. ASSUME NEW a \in Approvers, Grant(a)
        PROVE  \A b \in Approvers : granting'[b] # None => granting'[b].run \in Prepared
    <3>1. PICK r \in Prepared, p \in RunIds :
            granting' = [granting EXCEPT ![a] = [run |-> r, approval |-> p]]
      BY <2>1 DEF Grant, Pending, Prepared
    <3> QED BY <3>1 DEF Rooted, Types
  <2>2. ASSUME NEW a \in Approvers, GrantCommits(a) \/ GrantRolledBack(a)
        PROVE  \A b \in Approvers : granting'[b] # None => granting'[b].run \in Prepared
    BY <2>2 DEF GrantCommits, GrantRolledBack, Rooted, Types
  <2>3. CASE UNCHANGED granting
    BY <2>3, <1>k DEF Rooted
  <2> QED
    BY <2>1, <2>2, <2>3, <1>k DEF Next, Step, Tick, Look, Write, Expire, EvaluationFails,
       TickDies, Begin, Ask, Commit, EndTick, Age, Change, Switch, vars, admin
<1> QED BY <1>1, <1>2, <1>3 DEF Rooted

(* What has happened stays so, and the workflows are replaced only by Switch. *)
LEMMA FlagsStay ==
  ASSUME Types, [Next]_vars
  PROVE  /\ overlapped => overlapped'
         /\ switched => switched'
         /\ ~switched' => on' = on
<1>1. CASE \E w \in Workers : Tick(w)
  BY <1>1 DEF Tick, outside, Types
<1>2. CASE \E f \in ToSet(Workflows) : Switch(f)
  BY <1>2 DEF Switch, Types
<1>3. CASE UNCHANGED <<overlapped, switched, on>>
  BY <1>3
<1> QED
  BY <1>1, <1>2, <1>3 DEF Next, Step, Look, Write, Expire, EvaluationFails, TickDies, Begin,
     Ask, Commit, EndTick, Grant, GrantCommits, GrantRolledBack, Age, Change, vars, outside

LEMMA TurnsStep ==
  ASSUME NoneIsNoRow, Types, Rooted, Turns, [Next]_vars
  PROVE  Turns'
<1> SUFFICES ASSUME ~overlapped' PROVE Turns'
  BY DEF Turns
<1>f. ~overlapped
  BY FlagsStay
<1>t. /\ \A v, w \in Workers : v # w => At(v, "idle") \/ At(w, "idle")
      /\ \A d, e \in Open : About(d) = About(e) => d = e
      /\ \A w \in Workers : At(w, "write") /\ tick[w].found = None =>
           \A d \in Open : About(d) # tick[w].key
  BY <1>f DEF Turns
<1>k. \A d \in Ids : decisions[d] # None => decisions'[d].key = decisions[d].key
  BY RowsAreKept
\* The set of open decisions does not grow.
<1>o. ASSUME Open' \subseteq Open
      PROVE  /\ \A d, e \in Open' : About(d)' = About(e)' => d = e
             /\ \A d \in Open' : d \in Open /\ About(d)' = About(d)
  <2>1. \A d \in Open' : d \in Open /\ About(d)' = About(d)
    BY <1>o, <1>k DEF Open, About
  <2> QED BY <2>1, <1>t
<1>u. ASSUME UNCHANGED decisions PROVE Open' = Open
  BY <1>u DEF Open
\* A worker steps that was the only busy one, or becomes it.
<1>w. ASSUME NEW w \in Workers, \A v \in Workers : v # w => At(v, "idle") /\ tick'[v] = tick[v],
             \A d, e \in Open' : About(d)' = About(e)' => d = e,
             tick'[w].pc = "write" /\ tick'[w].found = None =>
               \A d \in Open' : About(d)' # tick'[w].key
      PROVE  Turns'
  BY <1>w DEF Turns, At
<1>a. ASSUME NEW w \in Workers, ~At(w, "idle"),
             Step(w) \/ EvaluationFails(w) \/ TickDies(w)
      PROVE  \A v \in Workers : v # w => At(v, "idle") /\ tick'[v] = tick[v]
  BY <1>a, <1>t, OthersStay
<1>1. ASSUME NEW w \in Workers, Tick(w) PROVE Turns'
  <2>1. \A v \in Workers : v # w => At(v, "idle") /\ tick'[v] = tick[v]
    BY <1>1, OthersStay DEF Tick
  <2>2. tick'[w].pc = "evaluate" /\ UNCHANGED decisions
    BY <1>1 DEF Tick, Idle, Types, tables
  <2> QED BY <2>1, <2>2, <1>w, <1>o, <1>u
<1>2. ASSUME NEW w \in Workers, Look(w) PROVE Turns'
  <2>1. ~At(w, "idle") /\ UNCHANGED decisions
    BY <1>2 DEF Look, At, tables
  <2>2. PICK key \in tick[w].todo, d \in Open \cup {None} :
          /\ tick' = [tick EXCEPT ![w].pc = "write", ![w].key = key, ![w].found = d]
          /\ d \in IF Existing(key) = {} THEN {None} ELSE Existing(key)
    BY <1>2 DEF Look, Existing
  <2>3. tick'[w].key = key /\ tick'[w].found = d
    BY <2>2 DEF Types, Ticks
  <2>4. d = None => \A e \in Open : About(e) # key
    <3>1. \A e \in Open : e # None
      BY DecisionsAssumption DEF Open
    <3> QED BY <2>2, <3>1 DEF Existing
  <2> QED BY <1>2, <2>1, <2>3, <2>4, <1>a, <1>w, <1>o, <1>u DEF Step
<1>3. ASSUME NEW w \in Workers, Write(w) PROVE Turns'
  <2>1. ~At(w, "idle") /\ tick'[w].pc = "evaluate"
    BY <1>3 DEF Write, At, Types, Ticks
  <2>2. CASE /\ tick[w].found # None
             /\ decisions' = [decisions EXCEPT ![tick[w].found].aged = FALSE]
    <3>1. tick[w].found \in Ids /\ decisions[tick[w].found] \in Rows
      BY <1>3, <2>2 DEF Write, Rooted, Refers, At, Types, Ticks
    <3>2. [decisions[tick[w].found] EXCEPT !.aged = FALSE].status = decisions[tick[w].found].status
      BY <3>1 DEF Rows
    <3>3. Open' \subseteq Open
      BY <2>2, <3>1, <3>2 DEF Open, Types, NoneIsNoRow, Rows
    <3> QED BY <1>3, <2>1, <3>3, <1>a, <1>w, <1>o DEF Step
  <2>3. CASE /\ tick[w].found = None /\ Unused(decisions) # {}
             /\ decisions' = [decisions EXCEPT ![NewIn(decisions)] =
                    [key |-> tick[w].key, status |-> "open", aged |-> FALSE]]
    <3> DEFINE n == NewIn(decisions)
    <3>1. n \in Ids /\ decisions[n] = None
      BY <2>3, FreeIds
    <3> HIDE DEF n
    <3>2. decisions'[n].key = tick[w].key /\ \A d \in Ids : d # n => decisions'[d] = decisions[d]
      BY <2>3, <3>1 DEF n, Types
    <3>3. \A d \in Open' : d # n => d \in Open /\ About(d)' = About(d)
      BY <3>2 DEF Open, About
    <3>4. \A d \in Open : About(d) # tick[w].key
      BY <1>3, <2>3, <1>t DEF Write
    <3>5. \A d, e \in Open' : About(d)' = About(e)' => d = e
      BY <3>2, <3>3, <3>4, <1>t DEF About
    <3> QED BY <1>3, <2>1, <3>5, <1>a, <1>w DEF Step
  <2> QED BY <1>3, <2>2, <2>3 DEF Write
<1>4. ASSUME NEW w \in Workers, Expire(w) \/ EvaluationFails(w) PROVE Turns'
  <2>1. ~At(w, "idle") /\ tick'[w].pc = "prepare"
    <3>0. tick[w].pc \in {"evaluate", "write"}
      BY <1>4 DEF Expire, EvaluationFails, At
    <3>1. \E ds \in SUBSET Open : Lists(w, ds)
      BY <1>4 DEF Expire, EvaluationFails
    <3>2. PICK ds \in SUBSET Open : Lists(w, ds)
      BY <3>1
    <3>3. \E js : tick' = [tick EXCEPT ![w] = [Idle EXCEPT !.pc = "prepare", !.jobs = js]]
      BY <3>2 DEF Lists
    <3>4. PICK js : tick' = [tick EXCEPT ![w] = [Idle EXCEPT !.pc = "prepare", !.jobs = js]]
      BY <3>3
    <3>5. tick'[w] = [Idle EXCEPT !.pc = "prepare", !.jobs = js]
      BY <3>4 DEF Types
    <3> QED BY <3>0, <3>5 DEF At, Idle
  <2>2. Open' \subseteq Open
    <3>1. CASE Expire(w)
      <4>1. \A t \in Rows : [t EXCEPT !.status = "expired"].status # "open"
        BY DEF Rows
      <4> QED BY <3>1, <4>1 DEF Expire, Expired, Open, Types
    <3>2. CASE EvaluationFails(w)
      BY <3>2, <1>u DEF EvaluationFails, tables
    <3> QED BY <1>4, <3>1, <3>2
  <2> QED BY <1>4, <2>1, <2>2, <1>a, <1>w, <1>o DEF Step
<1>5. ASSUME NEW w \in Workers,
             Begin(w) \/ Ask(w) \/ Commit(w) \/ EndTick(w) \/ TickDies(w)
      PROVE  Turns'
  <2>1. ~At(w, "idle") /\ UNCHANGED decisions
    BY <1>5 DEF Begin, Ask, Commit, EndTick, TickDies, At, tables
  <2>2. tick'[w].pc # "write"
    <3>1. CASE Begin(w)
      BY <3>1 DEF Begin, Types, Ticks
    <3>2. CASE Ask(w)
      <4> DEFINE ask == Pending(tick[w].job[1]) = {}
      <4>1. tick' = [tick EXCEPT ![w] = [tick[w] EXCEPT !.pc = "commit", !.ask = ask]]
        BY <3>2, Zenon DEF Ask, Types
      <4> HIDE DEF ask
      <4> QED BY <4>1 DEF Types, Ticks
    <3>3. CASE Commit(w)
      BY <3>3 DEF Commit, Done, Types, Ticks
    <3>4. CASE EndTick(w) \/ TickDies(w)
      BY <3>4 DEF EndTick, TickDies, Idle, Types
    <3> QED BY <1>5, <3>1, <3>2, <3>3, <3>4
  <2> QED BY <1>5, <2>1, <2>2, <1>a, <1>w, <1>o, <1>u DEF Step
<1>6. ASSUME UNCHANGED tick, Open' \subseteq Open PROVE Turns'
  BY <1>6, <1>o, <1>t DEF Turns, At
<1>7. ASSUME NEW d \in Ids, Age(d) PROVE Turns'
  <2>1. decisions[d] \in Rows
    BY <1>7 DEF Age, Open, Types
  <2>2. [decisions[d] EXCEPT !.aged = TRUE].status = decisions[d].status
    BY <2>1 DEF Rows
  <2>3. Open' \subseteq Open
    BY <1>7, <2>1, <2>2 DEF Age, Open, Types, NoneIsNoRow, Rows
  <2> QED BY <1>7, <2>3, <1>6 DEF Age
<1>8. CASE UNCHANGED <<tick, decisions>>
  BY <1>8, <1>6, <1>u
<1> QED
  BY <1>1, <1>2, <1>3, <1>4, <1>5, <1>7, <1>8 DEF Next, Step, Grant, GrantCommits,
     GrantRolledBack, Change, Switch, vars, tables

LEMMA OneRunEachStep ==
  ASSUME NoneIsNoRow, Types, Rooted, Turns, OneRunEach, [Next]_vars
  PROVE  OneRunEach'
<1> SUFFICES ASSUME ~overlapped', ~switched' PROVE OneRunEach'
  BY DEF OneRunEach
<1>f. ~overlapped /\ ~switched /\ on' = on
  BY FlagsStay
<1>v. /\ \A r \in Prepared : runs[r].workflow = Mine(runs[r].decision) /\ Waits(r)
      /\ \A r, s \in Prepared : runs[r].decision = runs[s].decision => r = s
      /\ \A w \in Workers : Prepares(w)
      /\ \A a \in Approvers : granting[a] # None => granting[a].run = granting[a].approval
  BY <1>f DEF OneRunEach
<1>k. /\ \A d \in Ids : decisions[d] # None =>
           decisions'[d] # None /\ decisions'[d].key = decisions[d].key
      /\ \A r \in Prepared : /\ r \in Prepared'
                             /\ runs'[r].decision = runs[r].decision
                             /\ runs'[r].workflow = runs[r].workflow
  BY RowsAreKept
<1>m. \A d \in Ids : decisions[d] # None => Mine(d)' = Mine(d)
  <2> HIDE DEF Choice
  <2> QED BY <1>f, <1>k DEF Mine, About
<1>r. \A r \in Prepared : runs[r].decision \in Ids /\ decisions[runs[r].decision] # None
  BY DEF Rooted, Prepared, Types, RunRows
<1>j. \A w \in Workers : \A j \in tick[w].jobs : j[1] \in Ids /\ decisions[j[1]] # None
  BY DEF Rooted, Refers, Types, Ticks
<1>b. \A w \in Workers : tick[w].pc \in {"ask", "commit"} =>
        tick[w].job \in Ids \X Chosen /\ decisions[tick[w].job[1]] # None
  BY DEF Rooted, Refers, Types, Ticks
<1> HIDE DEF Mine
\* What does not concern the runs leaves them in order.
<1>q. ASSUME UNCHANGED <<runs, approvals>>
      PROVE  /\ Prepared' = Prepared
             /\ (\A r \in Prepared : runs[r].workflow = Mine(runs[r].decision) /\ Waits(r))'
             /\ (\A r, s \in Prepared : runs[r].decision = runs[s].decision => r = s)'
  BY <1>q, <1>v, <1>m, <1>r DEF Prepared, Waits
<1>s. ASSUME Prepared' = Prepared, NEW w \in Workers, tick'[w] = tick[w] PROVE Prepares(w)'
  <2>1. (\A j \in tick[w].jobs : j[2] = Mine(j[1]))'
    BY <1>s, <1>v, <1>m, <1>j DEF Prepares
  <2>2. (tick[w].pc \in {"ask", "commit"} =>
           /\ tick[w].job[2] = Mine(tick[w].job[1])
           /\ \A r \in Prepared : runs[r].decision # tick[w].job[1])'
    BY <1>s, <1>v, <1>m, <1>b, <1>k DEF Prepares
  <2>3. (At(w, "commit") => tick[w].ask)'
    BY <1>s, <1>v DEF Prepares, At
  <2> QED BY <2>1, <2>2, <2>3 DEF Prepares
<1>i. ASSUME NEW w \in Workers, tick'[w].pc \notin {"ask", "commit"},
             tick'[w].jobs \subseteq tick[w].jobs
      PROVE  Prepares(w)'
  BY <1>i, <1>v, <1>m, <1>j DEF Prepares, At
<1>l. ASSUME NEW w \in Workers, NEW ds \in SUBSET Open, Lists(w, ds)
      PROVE  Prepares(w)'
  <2>1. tick'[w].pc = "prepare" /\ tick'[w].jobs = Jobs(ds)
    BY <1>l DEF Lists, Idle, Types
  <2>2. \A j \in Jobs(ds) : j[1] \in Open /\ j[2] = Mine(j[1])
    BY JobsAreTyped DEF Mine
  <2> QED BY <2>1, <2>2, <1>m DEF Prepares, At, Open
<1>w. ASSUME NEW w \in Workers, Tick(w) \/ Step(w) \/ EvaluationFails(w) \/ TickDies(w),
             Prepares(w)', UNCHANGED <<runs, approvals, granting>>
      PROVE  OneRunEach'
  <2>1. \A x \in Workers : x # w => tick'[x] = tick[x]
    BY <1>w, OthersStay
  <2> QED BY <1>w, <2>1, <1>q, <1>s, <1>v DEF OneRunEach
<1>1. ASSUME NEW w \in Workers, Tick(w) PROVE OneRunEach'
  <2>1. tick'[w].pc = "evaluate" /\ tick'[w].jobs = {}
    BY <1>1 DEF Tick, Idle, Types
  <2> QED BY <1>1, <2>1, <1>i, <1>w DEF Tick, tables, admin
<1>2. ASSUME NEW w \in Workers, Look(w) PROVE OneRunEach'
  <2>1. tick'[w].pc = "write" /\ tick'[w].jobs = tick[w].jobs
    BY <1>2 DEF Look, Types, Ticks
  <2> QED BY <1>2, <2>1, <1>i, <1>w DEF Look, Step, tables, admin
<1>3. ASSUME NEW w \in Workers, Write(w) PROVE OneRunEach'
  <2>1. tick'[w].pc = "evaluate" /\ tick'[w].jobs = tick[w].jobs
    BY <1>3 DEF Write, Types, Ticks
  <2> QED BY <1>3, <2>1, <1>i, <1>w DEF Write, Step, admin
<1>4. ASSUME NEW w \in Workers, Expire(w) \/ EvaluationFails(w) PROVE OneRunEach'
  BY <1>4, <1>l, <1>w DEF Expire, EvaluationFails, Step, tables, admin
<1>5. ASSUME NEW w \in Workers, Begin(w) PROVE OneRunEach'
  <2>1. PICK job \in tick[w].jobs :
          tick' = [tick EXCEPT ![w].jobs = @ \ {job},
                     ![w].pc = IF HasRun(job[1], job[2]) THEN "prepare" ELSE "ask",
                     ![w].job = IF HasRun(job[1], job[2]) THEN None ELSE job]
    BY <1>5 DEF Begin
  <2>2. /\ tick'[w].jobs = tick[w].jobs \ {job}
        /\ tick'[w].pc = IF HasRun(job[1], job[2]) THEN "prepare" ELSE "ask"
        /\ tick'[w].pc = "ask" => tick'[w].job = job
    BY <2>1 DEF Types, Ticks
  <2>3. job[1] \in Ids /\ decisions[job[1]] # None /\ job[2] = Mine(job[1])
    BY <1>j, <1>v DEF Prepares
  <2>4. ~HasRun(job[1], job[2]) => \A r \in Prepared : runs[r].decision # job[1]
    BY <2>3, <1>v DEF HasRun
  <2>5. UNCHANGED <<runs, approvals, granting>>
    BY <1>5 DEF Begin, tables, admin
  <2>6. Prepares(w)'
    <3>1. (\A j \in tick[w].jobs : j[2] = Mine(j[1]))'
      BY <2>2, <1>v, <1>m, <1>j DEF Prepares
    <3>2. tick'[w].pc \in {"ask", "commit"} =>
            ~HasRun(job[1], job[2]) /\ tick'[w].job = job
      BY <2>2
    <3>3. (tick[w].pc \in {"ask", "commit"} =>
             /\ tick[w].job[2] = Mine(tick[w].job[1])
             /\ \A r \in Prepared : runs[r].decision # tick[w].job[1])'
      BY <3>2, <2>3, <2>4, <2>5, <1>m DEF Prepared
    <3> QED BY <3>1, <3>3, <2>2 DEF Prepares, At
  <2> QED BY <1>5, <2>5, <2>6, <1>w DEF Step
<1>6. ASSUME NEW w \in Workers, Ask(w) PROVE OneRunEach'
  <2> DEFINE ask == Pending(tick[w].job[1]) = {}
  <2>1. tick' = [tick EXCEPT ![w] = [tick[w] EXCEPT !.pc = "commit", !.ask = ask]]
    BY <1>6, Zenon DEF Ask, Types
  <2>a. tick[w].pc = "ask" /\ UNCHANGED <<runs, approvals, granting>>
    BY <1>6 DEF Ask, At, tables, admin
  <2>b. ask
    BY <2>a, <1>v DEF Prepares, Pending
  <2> HIDE DEF ask
  <2>2. /\ tick'[w].jobs = tick[w].jobs /\ tick'[w].job = tick[w].job
        /\ tick'[w].pc = "commit" /\ tick'[w].ask = ask
    BY <2>1 DEF Types, Ticks
  <2>6. Prepares(w)'
    <3>1. (\A j \in tick[w].jobs : j[2] = Mine(j[1]))'
      BY <2>2, <1>v, <1>m, <1>j DEF Prepares
    <3>2. /\ tick[w].job[2] = Mine(tick[w].job[1])
          /\ \A r \in Prepared : runs[r].decision # tick[w].job[1]
      BY <2>a, <1>v DEF Prepares
    <3>3. tick[w].job[1] \in Ids /\ decisions[tick[w].job[1]] # None
      BY <2>a, <1>b
    <3>4. (/\ tick[w].job[2] = Mine(tick[w].job[1])
           /\ \A r \in Prepared : runs[r].decision # tick[w].job[1])'
      BY <3>2, <3>3, <2>2, <2>a, <1>m DEF Prepared
    <3>5. tick'[w].ask
      BY <2>2, <2>b
    <3> QED BY <3>1, <3>4, <3>5, Zenon DEF Prepares
  <2> QED BY <1>6, <2>a, <2>6, <1>w DEF Step
<1>7. ASSUME NEW w \in Workers, EndTick(w) \/ TickDies(w) PROVE OneRunEach'
  <2>1. tick'[w].pc = "idle" /\ tick'[w].jobs = {}
    BY <1>7 DEF EndTick, TickDies, Idle, Types
  <2> QED BY <1>7, <2>1, <1>i, <1>w DEF EndTick, TickDies, Step, tables, admin
\* A run is prepared for a decision without one, with its own approval.
<1>8. ASSUME NEW w \in Workers, Commit(w) PROVE OneRunEach'
  <2> DEFINE n == NewIn(runs)
  <2>0. tick[w].pc = "commit" /\ UNCHANGED granting
    BY <1>8 DEF Commit, At, admin
  <2>1. n \in RunIds /\ runs[n] = None
    BY <1>8, FreeIds DEF Commit
  <2>2. /\ runs' = [runs EXCEPT ![n] = NewRun(w)]
        /\ approvals' = [approvals EXCEPT ![n] = IF tick[w].ask THEN "pending" ELSE None]
    BY <1>8 DEF Commit
  <2> HIDE DEF n
  <2>3. /\ tick[w].job[2] = Mine(tick[w].job[1]) /\ tick[w].ask
        /\ \A r \in Prepared : runs[r].decision # tick[w].job[1]
    BY <2>0, <1>v DEF Prepares, At
  <2>4. tick[w].job[1] \in Ids /\ decisions[tick[w].job[1]] # None
    BY <2>0, <1>b
  <2>5. /\ runs'[n].decision = tick[w].job[1] /\ runs'[n].workflow = tick[w].job[2]
        /\ approvals'[n] = "pending"
        /\ \A r \in RunIds : r # n => runs'[r] = runs[r] /\ approvals'[r] = approvals[r]
    BY <2>1, <2>2, <2>3 DEF NewRun, Types
  <2>6. \A r \in Prepared' : r # n => r \in Prepared
    BY <2>5 DEF Prepared
  <2>7. (\A r \in Prepared : runs[r].workflow = Mine(runs[r].decision) /\ Waits(r))'
    <3> SUFFICES ASSUME NEW r \in Prepared'
                 PROVE  (runs[r].workflow = Mine(runs[r].decision) /\ Waits(r))'
      OBVIOUS
    <3>1. CASE r = n
      BY <3>1, <2>3, <2>4, <2>5, <1>m DEF Waits
    <3>2. CASE r # n
      BY <3>2, <2>5, <2>6, <1>v, <1>m, <1>r DEF Waits, Prepared
    <3> QED BY <3>1, <3>2
  <2>8. (\A r, s \in Prepared : runs[r].decision = runs[s].decision => r = s)'
    BY <2>3, <2>5, <2>6, <1>v DEF Prepared
  <2>9. ~At(w, "idle") /\ \A x \in Workers : x # w => At(x, "idle") /\ tick'[x] = tick[x]
    BY <1>8, <2>0, <1>f, OthersStay DEF Turns, At, Step
  <2>10. \A x \in Workers : Prepares(x)'
    <3>1. tick'[w].pc = "prepare" /\ tick'[w].jobs = tick[w].jobs
      BY <1>8 DEF Commit, Done, Types, Ticks
    <3>2. \A x \in Workers : tick'[x].pc \notin {"ask", "commit"} /\ tick'[x].jobs \subseteq tick[x].jobs
      BY <2>9, <3>1 DEF At
    <3> QED BY <3>2, <1>i
  <2> QED BY <2>0, <2>7, <2>8, <2>10, <1>v DEF OneRunEach
\* A grant takes the only approval there is for the decision: the run's own.
<1>9. ASSUME NEW a \in Approvers, Grant(a) PROVE OneRunEach'
  <2>1. PICK r \in Prepared, p \in Prepared :
          /\ p \in Pending(runs[r].decision)
          /\ granting' = [granting EXCEPT ![a] = [run |-> r, approval |-> p]]
    BY <1>9 DEF Grant, Pending
  <2>2. r = p
    BY <2>1, <1>v DEF Pending
  <2>3. \A b \in Approvers : granting'[b] # None => granting'[b].run = granting'[b].approval
    BY <2>1, <2>2, <1>v DEF Types
  <2>4. UNCHANGED <<runs, approvals, tick>>
    BY <1>9 DEF Grant, tables
  <2> QED BY <2>3, <2>4, <1>q, <1>s DEF OneRunEach
<1>10. ASSUME NEW a \in Approvers, GrantCommits(a) PROVE OneRunEach'
  <2> DEFINE g == granting[a].run
  <2>1. /\ g \in Prepared /\ granting[a] # None /\ granting[a].approval = g
        /\ g \in RunIds /\ runs[g] \in RunRows /\ g # None
    BY <1>10, <1>v, DecisionsAssumption DEF GrantCommits, Rooted, Prepared, Types
  <2>2. /\ runs' = [runs EXCEPT ![g].status = "pending"]
        /\ approvals' = [approvals EXCEPT ![g] = "approved"]
        /\ granting' = [granting EXCEPT ![a] = None] /\ UNCHANGED tick
    BY <1>10, <2>1 DEF GrantCommits
  <2> HIDE DEF g
  <2>3. /\ runs'[g].status = "pending"
        /\ \A r \in RunIds : r # g => runs'[r] = runs[r] /\ approvals'[r] = approvals[r]
    BY <2>1, <2>2 DEF Types, RunRows
  <2>4. Prepared' = Prepared
    <3>1. Prepared' \subseteq Prepared
      BY <2>1, <2>3 DEF Prepared
    <3> QED BY <3>1, <1>k
  <2>5. (\A r \in Prepared : runs[r].workflow = Mine(runs[r].decision))'
    BY <2>4, <1>k, <1>v, <1>m, <1>r
  <2>6. (\A r \in Prepared : Waits(r))'
    BY <2>3, <2>4, <1>v DEF Waits, Prepared
  <2>7. (\A r, s \in Prepared : runs[r].decision = runs[s].decision => r = s)'
    BY <2>4, <1>k, <1>v
  <2>8. \A b \in Approvers : granting'[b] # None => granting'[b].run = granting'[b].approval
    BY <2>2, <1>v DEF Types
  <2> QED BY <2>2, <2>4, <2>5, <2>6, <2>7, <2>8, <1>s DEF OneRunEach
<1>11. ASSUME NEW a \in Approvers, GrantRolledBack(a) PROVE OneRunEach'
  <2>1. \A b \in Approvers : granting'[b] # None => granting'[b].run = granting'[b].approval
    BY <1>11, <1>v DEF GrantRolledBack, Types
  <2> QED BY <1>11, <2>1, <1>q, <1>s DEF GrantRolledBack, tables, OneRunEach
<1>12. CASE UNCHANGED <<runs, approvals, tick, granting>>
  BY <1>12, <1>q, <1>s, <1>v DEF OneRunEach
<1> QED
  BY <1>1, <1>2, <1>3, <1>4, <1>5, <1>6, <1>7, <1>8, <1>9, <1>10, <1>11, <1>12
  DEF Next, Step, Age, Change, Switch, vars, tables, admin

-----------------------------------------------------------------------------

LEMMA IInvInductive == ASSUME NoneIsNoRow PROVE Spec => []IInv
<1>1. Init => IInv
  BY InitIInv
<1>2. IInv /\ [Next]_vars => IInv'
  BY TypesStep, RootedStep, TurnsStep, OneRunEachStep DEF IInv
<1> QED BY <1>1, <1>2, PTL DEF Spec

(* evaluate_decisions selects before it inserts and prepare_workflow_run looks for a *)
(* run before it prepares one, without a lock or an index: that is enough as long as *)
(* ticks take turns, and a waiting run can be approved unless its workflow was       *)
(* replaced.                                                                         *)
THEOREM TurnsAreEnough == ASSUME NoneIsNoRow PROVE Spec => []TicksAgree
<1>1. IInv => OneOpenDecision
  BY DEF IInv, Types, Turns, OneOpenDecision
<1>2. IInv => WaitingIsApprovable
  BY DEF IInv, Types, OneRunEach, Waits, WaitingIsApprovable, Pending
<1> QED BY <1>1, <1>2, IInvInductive, PTL DEF TicksAgree

-----------------------------------------------------------------------------
(* An approval is spent once. *)

\* The runs of a decision that were released, and its approvals that were given.
Released(d) == {r \in Prepared : runs[r].decision = d /\ runs[r].status = "pending"}
Approved(d) == {r \in Prepared : runs[r].decision = d /\ approvals[r] = "approved"}

\* What an approver holds still waits when the transaction commits, and no other
\* holds an approval of the same decision.
Holds(a) ==
  LET g == granting[a] IN
  /\ runs[g.run].status = "waiting_approval"
  /\ g.approval \in Pending(runs[g.run].decision)
Apart(a, b) == runs[granting[a].run].decision # runs[granting[b].run].decision
Balanced == \A d \in Ids : Cardinality(Released(d)) <= Cardinality(Approved(d))
Spent ==
  /\ IsFiniteSet(Prepared)
  /\ ~raced =>
       /\ \A a \in Approvers : granting[a] # None => Holds(a)
       /\ \A a, b \in Approvers : granting[a] # None /\ granting[b] # None /\ a # b => Apart(a, b)
       /\ Balanced

LEMMA InitSpent == Init => Spent
<1> SUFFICES ASSUME Init PROVE Spent
  OBVIOUS
<1>1. Prepared = {}
  BY DEF Init, Prepared
<1>2. \A d \in Ids : Released(d) = {} /\ Approved(d) = {}
  BY <1>1 DEF Released, Approved
<1>3. Cardinality({}) = 0 /\ IsFiniteSet({})
  BY FS_EmptySet
<1>4. \A a \in Approvers : granting[a] = None
  BY DEF Init
<1> QED BY <1>1, <1>2, <1>3, <1>4 DEF Spent, Balanced

(* Released runs that do not grow and approvals that do not shrink stay in balance. *)
LEMMA BalanceIsKept ==
  ASSUME Balanced, IsFiniteSet(Prepared'), NEW d \in Ids,
         Released(d)' \subseteq Released(d), Approved(d) \subseteq Approved(d)',
         IsFiniteSet(Prepared)
  PROVE  Cardinality(Released(d)') <= Cardinality(Approved(d)')
<1> DEFINE R == Released(d)
           A == Approved(d)
           S == Released(d)'
           B == Approved(d)'
<1>1. R \subseteq Prepared /\ A \subseteq Prepared /\ B \subseteq Prepared'
  BY DEF Released, Approved
<1>2. Cardinality(R) <= Cardinality(A)
  BY DEF Balanced
<1>3. S \subseteq R /\ A \subseteq B
  OBVIOUS
<1> HIDE DEF R, A, S, B
<1>4. IsFiniteSet(R) /\ IsFiniteSet(A) /\ IsFiniteSet(B)
  BY <1>1, FS_Subset
<1>5. IsFiniteSet(S) /\ Cardinality(S) <= Cardinality(R)
  BY <1>3, <1>4, FS_Subset
<1>6. Cardinality(A) <= Cardinality(B)
  BY <1>3, <1>4, FS_Subset
<1>7. /\ Cardinality(R) \in Nat /\ Cardinality(A) \in Nat
      /\ Cardinality(S) \in Nat /\ Cardinality(B) \in Nat
  BY <1>4, <1>5, FS_CardinalityType
<1>8. Cardinality(S) <= Cardinality(B)
  BY <1>2, <1>5, <1>6, <1>7
<1> QED BY <1>8 DEF S, B

LEMMA SpentStep ==
  ASSUME NoneIsNoRow, Types, Rooted, Spent, [Next]_vars
  PROVE  Spent'
<1> USE FreeIds
<1>t. /\ \A r \in Prepared : r \in RunIds /\ runs[r] \in RunRows
      /\ \A a \in Approvers : granting[a] # None =>
           granting[a].run \in RunIds /\ granting[a].approval \in RunIds
             /\ granting[a].run \in Prepared
      /\ DOMAIN runs = RunIds /\ DOMAIN approvals = RunIds
  BY DEF Types, Rooted, Prepared
<1>n. \A t \in RunRows : t # None
  BY DEF NoneIsNoRow, RunRows
<1>1. CASE UNCHANGED <<runs, approvals, granting, raced>>
  <2>1. Prepared' = Prepared /\ raced' = raced
    BY <1>1 DEF Prepared
  <2>2. \A d \in Ids : Released(d)' = Released(d) /\ Approved(d)' = Approved(d)
    BY <1>1, <2>1 DEF Released, Approved
  <2>3. Balanced => Balanced'
    BY <2>2 DEF Balanced
  <2>4. \A a \in Approvers : Holds(a)' <=> Holds(a)
    BY <1>1, <2>1 DEF Holds, Pending
  <2>5. \A a, b \in Approvers : Apart(a, b)' <=> Apart(a, b)
    BY <1>1 DEF Apart
  <2> QED BY <1>1, <2>1, <2>3, <2>4, <2>5 DEF Spent
<1>2. ASSUME NEW w \in Workers, Commit(w) PROVE Spent'
  <2> DEFINE n == NewIn(runs)
  <2>1. /\ n \in RunIds /\ runs[n] = None /\ n \notin Prepared
        /\ runs' = [runs EXCEPT ![n] = NewRun(w)]
        /\ \E s : approvals' = [approvals EXCEPT ![n] = s]
        /\ UNCHANGED <<granting, raced>>
    BY <1>2 DEF Commit, Prepared, admin
  <2>2. NewRun(w).status = "waiting_approval"
    BY DEF NewRun
  <2> HIDE DEF n
  <2>3. /\ runs'[n].status = "waiting_approval"
        /\ \A r \in Prepared : r # n /\ runs'[r] = runs[r] /\ approvals'[r] = approvals[r]
        /\ Prepared \subseteq Prepared' /\ Prepared' \subseteq Prepared \cup {n}
    BY <2>1, <2>2, <1>t DEF Prepared
  <2>4. IsFiniteSet(Prepared')
    <3>1. IsFiniteSet(Prepared \cup {n})
      BY FS_AddElement DEF Spent
    <3> QED BY <3>1, <2>3, FS_Subset
  <2>5. ASSUME NEW a \in Approvers, granting[a] # None, Holds(a) PROVE Holds(a)'
    BY <2>5, <2>1, <2>3, <1>t DEF Holds, Pending
  <2>6. ASSUME NEW a \in Approvers, NEW b \in Approvers, granting[a] # None, granting[b] # None
        PROVE  Apart(a, b)' <=> Apart(a, b)
    BY <2>6, <2>1, <2>3, <1>t DEF Apart
  <2>7. \A d \in Ids : Released(d)' \subseteq Released(d) /\ Approved(d) \subseteq Approved(d)'
    BY <2>3 DEF Released, Approved
  <2>8. Balanced => Balanced'
    <3>1. ASSUME Balanced, NEW d \in Ids
          PROVE  Cardinality(Released(d)') <= Cardinality(Approved(d)')
      BY <3>1, <2>4, <2>7, BalanceIsKept DEF Spent
    <3> QED BY <3>1 DEF Balanced
  <2> QED BY <2>1, <2>4, <2>5, <2>6, <2>8 DEF Spent
<1>3. ASSUME NEW a \in Approvers, Grant(a) PROVE Spent'
  <2>1. PICK r \in Prepared :
          /\ runs[r].status = "waiting_approval"
          /\ \E p \in Pending(runs[r].decision) :
               granting' = [granting EXCEPT ![a] = [run |-> r, approval |-> p]]
          /\ raced' = (raced \/ \E b \in Approvers : granting[b] # None
                                 /\ runs[granting[b].run].decision = runs[r].decision)
    BY <1>3 DEF Grant
  <2>2. PICK p \in Pending(runs[r].decision) :
          granting' = [granting EXCEPT ![a] = [run |-> r, approval |-> p]]
    BY <2>1
  <2>3. /\ UNCHANGED <<runs, approvals>> /\ granting[a] = None
        /\ granting'[a] = [run |-> r, approval |-> p]
        /\ \A b \in Approvers : b # a => granting'[b] = granting[b]
    BY <1>3, <2>2 DEF Grant, tables, Types
  <2>4. /\ Prepared' = Prepared
        /\ \A d \in Ids : Released(d)' = Released(d) /\ Approved(d)' = Approved(d)
    BY <2>3 DEF Prepared, Released, Approved
  <2>5. \A d : Pending(d)' = Pending(d)
    BY <2>3, <2>4 DEF Pending
  <2>6. Balanced => Balanced'
    BY <2>4 DEF Balanced
  <2>7. ASSUME ~raced'
        PROVE  /\ ~raced
               /\ \A b \in Approvers : granting[b] # None =>
                    runs[granting[b].run].decision # runs[r].decision
    BY <2>7, <2>1
  <2>8. ASSUME ~raced', NEW b \in Approvers, granting'[b] # None PROVE Holds(b)'
    <3>1. CASE b = a
      <4>1. granting'[b].run = r /\ granting'[b].approval = p
        BY <3>1, <2>3
      <4> QED BY <4>1, <2>1, <2>2, <2>3, <2>5 DEF Holds
    <3>2. CASE b # a
      <4>1. Holds(b)
        BY <3>2, <2>8, <2>7, <2>3 DEF Spent
      <4> QED BY <4>1, <3>2, <2>3, <2>5 DEF Holds
    <3> QED BY <3>1, <3>2
  <2>9. ASSUME ~raced', NEW b \in Approvers, NEW c \in Approvers,
               granting'[b] # None, granting'[c] # None, b # c
        PROVE  Apart(b, c)'
    <3>1. granting'[a].run = r
      BY <2>3
    <3>2. CASE b = a
      BY <3>1, <3>2, <2>9, <2>7, <2>3 DEF Apart
    <3>3. CASE c = a
      BY <3>1, <3>3, <2>9, <2>7, <2>3 DEF Apart
    <3>4. CASE b # a /\ c # a
      BY <3>4, <2>9, <2>7, <2>3 DEF Apart, Spent
    <3> QED BY <3>2, <3>3, <3>4
  <2>10. IsFiniteSet(Prepared')
    BY <2>4 DEF Spent
  <2>11. ASSUME ~raced' PROVE Balanced'
    BY <2>11, <2>7, <2>6 DEF Spent
  <2> QED BY <2>8, <2>9, <2>10, <2>11 DEF Spent
<1>4. ASSUME NEW a \in Approvers, GrantCommits(a) PROVE Spent'
  <2> DEFINE g == granting[a].run
             p == granting[a].approval
  <2>1. /\ granting[a] # None
        /\ approvals' = (IF p = None THEN approvals ELSE [approvals EXCEPT ![p] = "approved"])
        /\ runs' = [runs EXCEPT ![g].status = "pending"]
        /\ granting' = [granting EXCEPT ![a] = None] /\ raced' = raced
    BY <1>4 DEF GrantCommits
  <2>2. /\ g \in Prepared /\ g \in RunIds /\ runs[g] \in RunRows
        /\ p \in RunIds /\ p # None
    BY <2>1, <1>t, DecisionsAssumption
  <2>e. PICK e \in Ids : e = runs[g].decision
    BY <2>2 DEF RunRows
  <2>3. approvals' = [approvals EXCEPT ![p] = "approved"]
    BY <2>1, <2>2
  <2>4. ASSUME ~raced PROVE runs[g].status = "waiting_approval" /\ p \in Pending(e)
    BY <2>1, <2>4, <2>e DEF Spent, Holds
  <2>5. ASSUME ~raced, NEW b \in Approvers, b # a, granting[b] # None
        PROVE  /\ Holds(b) /\ runs[granting[b].run].decision # e
    BY <2>1, <2>5, <2>e DEF Spent, Apart
  <2>6. \A b \in Approvers : granting'[b] # None => b # a /\ granting'[b] = granting[b]
    BY <2>1 DEF Types
  <2> HIDE DEF g, p
  <2>7. /\ runs'[g] = [runs[g] EXCEPT !.status = "pending"]
        /\ \A r \in RunIds : r # g => runs'[r] = runs[r]
        /\ approvals'[p] = "approved"
        /\ \A r \in RunIds : r # p => approvals'[r] = approvals[r]
    BY <2>1, <2>2, <2>3, <1>t
  <2>8. runs'[g].status = "pending" /\ runs'[g].decision = e /\ runs'[g] \in RunRows
    BY <2>7, <2>2, <2>e DEF RunRows
  <2>9. Prepared' = Prepared
    BY <2>7, <2>8, <2>2, <1>n DEF Prepared
  <2>10. \A r \in Prepared : runs'[r].decision = runs[r].decision
    BY <2>7, <2>8, <2>e, <1>t
  <2>11. ASSUME ~raced, NEW b \in Approvers, granting'[b] # None PROVE Holds(b)'
    <3>1. /\ granting[b] # None /\ granting'[b] = granting[b] /\ granting[b].run \in RunIds
          /\ granting[b].approval \in RunIds /\ granting[b].run \in Prepared /\ Holds(b)
          /\ runs[granting[b].run].decision # e
      BY <2>11, <2>5, <2>6, <1>t
    <3>2. PICK x \in RunIds, y \in RunIds, d \in Ids :
            x = granting[b].run /\ y = granting[b].approval /\ d = runs[x].decision
      BY <3>1, <1>t DEF RunRows
    <3>3. /\ x \in Prepared /\ d # e /\ runs[x].status = "waiting_approval" /\ y \in Pending(d)
      BY <3>1, <3>2 DEF Holds
    <3>4. x # g /\ y # p
      BY <3>2, <3>3, <2>11, <2>4, <2>e DEF Pending
    <3>5. runs'[x] = runs[x] /\ y \in Pending(d)'
      BY <3>2, <3>3, <3>4, <2>7, <2>9, <2>10 DEF Pending
    <3> QED BY <3>1, <3>2, <3>3, <3>5 DEF Holds, Pending
  <2>12. ASSUME ~raced, NEW b \in Approvers, NEW c \in Approvers,
                granting'[b] # None, granting'[c] # None, b # c
         PROVE  Apart(b, c)'
    <3>1. Apart(b, c) /\ granting[b] # None /\ granting[c] # None
      BY <2>12, <2>6 DEF Spent
    <3> QED BY <3>1, <2>12, <2>6, <2>10, <1>t DEF Apart
  <2>13. ASSUME ~raced PROVE Balanced'
    <3>0. IsFiniteSet(Prepared') /\ IsFiniteSet(Prepared) /\ Balanced
      BY <2>13, <2>9 DEF Spent
    <3>1. ASSUME NEW d \in Ids, d # e
          PROVE  Cardinality(Released(d)') <= Cardinality(Approved(d)')
      <4>1. Released(d)' \subseteq Released(d)
        BY <3>1, <2>7, <2>8, <2>9, <1>t DEF Released
      <4>2. Approved(d) \subseteq Approved(d)'
        BY <2>7, <2>9, <2>10, <1>t DEF Approved
      <4> QED BY <3>0, <4>1, <4>2, BalanceIsKept
    <3>2. Cardinality(Released(e)') <= Cardinality(Approved(e)')
      <4> DEFINE R == Released(e)
                 A == Approved(e)
      <4>1. Released(e)' = R \cup {g} /\ g \notin R
        <5>1. g \notin R
          BY <2>4, <2>13 DEF Released
        <5>2. Released(e)' \subseteq R \cup {g}
          BY <2>7, <2>9, <1>t DEF Released
        <5>3. R \cup {g} \subseteq Released(e)'
          BY <2>2, <2>7, <2>8, <2>9, <1>t DEF Released
        <5> QED BY <5>1, <5>2, <5>3
      <4>2. Approved(e)' = A \cup {p} /\ p \notin A
        <5>1. p \in Prepared /\ runs[p].decision = e /\ approvals[p] = "pending"
          BY <2>4, <2>13 DEF Pending
        <5>2. A \cup {p} \subseteq Approved(e)'
          BY <5>1, <2>7, <2>9, <2>10, <1>t DEF Approved
        <5>3. Approved(e)' \subseteq A \cup {p}
          BY <5>1, <2>7, <2>9, <2>10, <1>t DEF Approved
        <5> QED BY <5>1, <5>2, <5>3 DEF Approved
      <4>3. R \subseteq Prepared /\ A \subseteq Prepared
        BY DEF Released, Approved
      <4>4. Cardinality(R) <= Cardinality(A)
        BY <3>0, <2>2 DEF Balanced
      <4> HIDE DEF R, A
      <4>5. IsFiniteSet(R) /\ IsFiniteSet(A)
        BY <3>0, <4>3, FS_Subset
      <4>6. /\ Cardinality(R \cup {g}) = Cardinality(R) + 1
            /\ Cardinality(A \cup {p}) = Cardinality(A) + 1
        BY <4>1, <4>2, <4>5, FS_AddElement
      <4>7. Cardinality(R) \in Nat /\ Cardinality(A) \in Nat
        BY <4>5, FS_CardinalityType
      <4>8. Cardinality(R \cup {g}) <= Cardinality(A \cup {p})
        BY <4>4, <4>6, <4>7
      <4> QED BY <4>1, <4>2, <4>8
    <3>3. \A d \in Ids : Cardinality(Released(d)') <= Cardinality(Approved(d)')
      BY <3>1, <3>2
    <3> QED BY <3>3 DEF Balanced
  <2> QED BY <2>1, <2>9, <2>11, <2>12, <2>13 DEF Spent
<1>5. ASSUME NEW a \in Approvers, GrantRolledBack(a) PROVE Spent'
  <2>1. /\ UNCHANGED <<runs, approvals, raced>>
        /\ \A b \in Approvers : granting'[b] # None => granting'[b] = granting[b]
    BY <1>5 DEF GrantRolledBack, tables, Types
  <2>2. /\ Prepared' = Prepared
        /\ \A d \in Ids : Released(d)' = Released(d) /\ Approved(d)' = Approved(d)
    BY <2>1 DEF Prepared, Released, Approved
  <2>3. Balanced => Balanced'
    BY <2>2 DEF Balanced
  <2>4. ASSUME NEW b \in Approvers, granting'[b] # None, Holds(b) PROVE Holds(b)'
    BY <2>4, <2>1, <2>2 DEF Holds, Pending
  <2>5. ASSUME NEW b \in Approvers, NEW c \in Approvers, granting'[b] # None,
               granting'[c] # None, Apart(b, c)
        PROVE  Apart(b, c)'
    BY <2>5, <2>1 DEF Apart
  <2> QED BY <2>1, <2>2, <2>3, <2>4, <2>5 DEF Spent
<1>6. ASSUME NEW w \in Workers,
             \/ Tick(w) \/ Look(w) \/ Write(w) \/ Expire(w) \/ EvaluationFails(w)
             \/ Begin(w) \/ Ask(w) \/ EndTick(w) \/ TickDies(w)
      PROVE  UNCHANGED <<runs, approvals, granting, raced>>
  BY <1>6 DEF Tick, Look, Write, Expire, EvaluationFails, Begin, Ask, EndTick,
              TickDies, tables, admin
<1>7. ASSUME \/ \E d \in Ids : Age(d)
             \/ \E s \in Sources : Change(s)
             \/ \E f \in ToSet(Workflows) : Switch(f)
      PROVE  UNCHANGED <<runs, approvals, granting, raced>>
  BY <1>7 DEF Age, Change, Switch, tables, admin
<1>8. CASE UNCHANGED vars
  BY <1>8, <1>1 DEF vars
<1> HIDE DEF Types, Rooted, Spent
<1> QED
  BY <1>1, <1>2, <1>3, <1>4, <1>5, <1>6, <1>7, <1>8 DEF Next, Step

(* approve_workflow_run looks for the pending approval of the run's decision, not of *)
(* the run: still no approval releases two runs, whatever overlapping ticks left to  *)
(* a decision, as long as two administrators do not approve for it at once.          *)
THEOREM ApprovalsAreSpentOnce == ASSUME NoneIsNoRow PROVE Spec => []ApprovalPerRun
<1>1. Init => Spent
  BY InitSpent
<1>2. IInv /\ Spent /\ [Next]_vars => Spent'
  BY SpentStep DEF IInv
<1>3. Spent => ApprovalPerRun
  <2> SUFFICES ASSUME Spent, ~raced, NEW d \in Ids
               PROVE  LET of == {r \in Prepared : runs[r].decision = d} IN
                      Cardinality({r \in of : runs[r].status = "pending"})
                        <= Cardinality({r \in of : approvals[r] = "approved"})
    BY DEF ApprovalPerRun
  <2> DEFINE of == {r \in Prepared : runs[r].decision = d}
  <2>1. /\ {r \in of : runs[r].status = "pending"} = Released(d)
        /\ {r \in of : approvals[r] = "approved"} = Approved(d)
    BY DEF Released, Approved
  <2>2. Cardinality(Released(d)) <= Cardinality(Approved(d))
    BY DEF Spent, Balanced
  <2> QED BY <2>1, <2>2
<1> QED BY <1>1, <1>2, <1>3, IInvInductive, PTL DEF Spec
==============================================================================
