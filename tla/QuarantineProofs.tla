---------------------------- MODULE QuarantineProofs ----------------------------
(***************************************************************************)
(* Who owns an isolation, who may work on it, and what becomes of an       *)
(* operator's changes: for any number of executors, quarantine and         *)
(* reconcile requests, remote tasks, configurations and faults.            *)
(*                                                                         *)
(* First what each step does to the record of its executor and to the row  *)
(* of its generation (the ...Does lemmas), then one ...Step lemma for each *)
(* part of the inductive invariant IInv, then the theorems.                *)
(***************************************************************************)
EXTENDS Quarantine, TLAPS

-----------------------------------------------------------------------------
(* Types. *)

Pcs == Guarded \cup {"idle", "prepare", "guard", "take"}

WorkRecords ==
  [pc : Pcs, mode : {"apply", "sweep", "kill", "reconcile", None},
   gen : Quarantines \cup {None}, req : Requests \cup {None}, view : Configs \cup {None},
   left : SUBSET Links, bad : BOOLEAN, task : 0..MaxTasks, upid : 0..MaxTasks,
   approval : {"valid", "withdrawn", "expired"}]

Generations ==
  [status : Statuses, snap : Configs \cup {None}, expired : BOOLEAN, upid : 0..MaxTasks,
   receipts : SUBSET {"apply", "rollback"}]

TaskRecords ==
  [state : {"none", "running", "ok", "failed"}, gen : Quarantines \cup {None},
   digest : Configs \cup {None}, to : Configs \cup {None}]

Shaped ==
  /\ adapter \in Adapters /\ cfg \in Configs
  /\ gens \in [Quarantines -> Generations]
  /\ tasks \in [Tasks -> TaskRecords]
  /\ work \in [Workers -> WorkRecords]
  /\ claimed \subseteq Requests /\ kills \subseteq Quarantines
  /\ faults \in 0..MaxFaults /\ latest \in 1..MaxVer
  /\ cut \in [Links -> Quarantines \cup {None}]
  /\ lifted \subseteq Quarantines \X Quarantines

-----------------------------------------------------------------------------
(* The inductive invariant. *)

\* What an executor has in hand at each of its steps.
Handy(w) ==
  /\ work[w].pc # "idle" => work[w].gen \in Quarantines
  /\ work[w].pc \in {"prepare", "guard", "check", "disconnect", "verify", "finish"} =>
       work[w].mode = "apply"
  /\ work[w].pc \in {"take", "prove"} => work[w].mode = "reconcile"
  /\ work[w].pc = "resolve" => work[w].mode # "apply"
  /\ work[w].pc \in {"restore", "connect", "readback"} /\ work[w].mode = "apply" =>
       adapter = "docker"
  /\ work[w].pc \in {"submit", "await"} => adapter # "docker"
  /\ work[w].pc \in {"disconnect", "connect"} => adapter = "docker"
  /\ work[w].pc = "prepare" => work[w].req = work[w].gen /\ work[w].view \in Configs
  /\ work[w].pc = "submit" => work[w].view \in Configs
  /\ work[w].mode = "apply" /\ work[w].upid # 0 => work[w].pc \in {"verify", "finish", "fail"}

InHand == \A w \in Workers : Handy(w)

\* A row is written for a claimed request only, with a target that was connected,
\* and it has the receipts of its status.
Rows ==
  \A g \in Quarantines :
    /\ g \notin claimed => gens[g].status = "none"
    /\ gens[g].status # "none" => gens[g].snap \in Configs /\ ~Quarantined(gens[g].snap)
    /\ gens[g].status \in {"none", "prepared"} => gens[g].receipts = {} /\ gens[g].upid = 0
    /\ gens[g].status = "completed" => gens[g].receipts = {"apply"}
    /\ ("rollback" \in gens[g].receipts) = (gens[g].status = "rolled_back")

\* The unique index on the active generation of a target.
OneActive == \A g, h \in Quarantines :
  gens[g].status \in Active /\ gens[h].status \in Active => g = h

\* A guard is held on an active generation, and by one executor.
Locked ==
  /\ \A w \in Workers : work[w].pc \in Guarded => gens[work[w].gen].status \in Active
  /\ \A v, w \in Workers :
       work[v].pc \in Guarded /\ work[w].pc \in Guarded /\ work[v].gen = work[w].gen => v = w

Applies(w) == work[w].mode = "apply" /\ work[w].pc # "idle"

\* The executor that claimed a quarantine request is the only one to apply it.
Appliers ==
  \A w \in Workers : Applies(w) =>
    /\ work[w].gen \in claimed
    /\ work[w].pc = "prepare" =>
         gens[work[w].gen].status = "none" /\ ~Quarantined(work[w].view)
    /\ work[w].pc # "prepare" => gens[work[w].gen].status # "none"
    /\ \A v \in Workers : Applies(v) /\ work[v].gen = work[w].gen => v = w

Snap(w) == gens[work[w].gen].snap

\* What is about to be written follows from the snapshot; a task changes the link
\* state of the NIC it was given and nothing else.
Planned ==
  /\ \A w \in Workers :
       /\ work[w].pc \in {"disconnect", "connect"} => \A l \in work[w].left : Snap(w)[l].up
       /\ work[w].pc = "submit" =>
            work[w].view = IF work[w].mode = "apply" THEN Snap(w) ELSE Isolated(Snap(w))
  /\ \A k \in Tasks : tasks[k].state # "none" =>
       /\ tasks[k].gen \in Quarantines /\ tasks[k].digest \in Configs /\ tasks[k].to \in Configs
       /\ adapter # "docker" /\ tasks[k].to[1].ver = tasks[k].digest[1].ver

\* A remote task that will take the link down belongs to a generation that has no
\* outcome yet, and to no executor that could give it one.
Lowering(k) == tasks[k].state = "running" /\ ~tasks[k].to[1].up

Waiting(w, k) ==
  \/ /\ work[w].mode = "apply" /\ work[w].upid = 0
     /\ work[w].pc = "fail" \/ (work[w].pc = "await" /\ work[w].task = k)
  \/ work[w].pc \in {"take", "prove"}

Owes(k) ==
  LET g == tasks[k].gen IN
    /\ gens[g].status \in {"prepared", "recovery_required"}
    /\ gens[g].upid = 0 /\ gens[g].snap[1].up
    /\ \A w \in Workers : work[w].pc # "idle" /\ work[w].gen = g => Waiting(w, k)

TasksOwed == \A k \in Tasks : Lowering(k) => Owes(k)

\* A cut is charged to a generation that owns the target and will undo it.
Cuts ==
  \A l \in Links :
    /\ cfg[l].up => cut[l] = None
    /\ cut[l] # None => gens[cut[l]].status \in Active /\ gens[cut[l]].snap[l].up
    /\ \A w \in Workers : work[w].pc = "resolve" => cut[l] # work[w].gen

\* The inductive invariant.
IInv ==
  /\ Shaped /\ InHand /\ Rows /\ OneActive /\ Locked /\ Appliers /\ Planned /\ TasksOwed
  /\ Cuts /\ DriftKept /\ ApplyFenced

-----------------------------------------------------------------------------
(* Configurations. *)

LEMMA DownIsConfig ==
  ASSUME NEW c \in Configs, NEW l \in Links
  PROVE  [c EXCEPT ![l] = Down] \in Configs
BY BoundsAssumption DEF Configs, Down

LEMMA LinkIsConfig ==
  ASSUME NEW c \in Configs, NEW d \in Configs, NEW l \in Links
  PROVE  [c EXCEPT ![l] = d[l]] \in Configs
BY DEF Configs

LEMMA IsolatedIsConfig ==
  ASSUME NEW c \in Configs
  PROVE  /\ Isolated(c) \in Configs
         /\ \A l \in Links : ~Isolated(c)[l].up /\ Isolated(c)[l].ver = c[l].ver
<1>1. DOMAIN c = Links /\ \A l \in Links : c[l] \in [ver : 0..MaxVer, up : BOOLEAN]
  BY DEF Configs
<1>2. \A r \in [ver : 0..MaxVer, up : BOOLEAN] :
        /\ [r EXCEPT !.up = FALSE] \in [ver : 0..MaxVer, up : BOOLEAN]
        /\ ~[r EXCEPT !.up = FALSE].up /\ [r EXCEPT !.up = FALSE].ver = r.ver
  OBVIOUS
<1>3. \A l \in Links : Isolated(c)[l] = [c[l] EXCEPT !.up = FALSE]
  BY <1>1 DEF Isolated
<1>4. Isolated(c) \in Configs
  BY <1>1, <1>2, <1>3 DEF Isolated, Configs
<1> QED BY <1>1, <1>2, <1>3, <1>4

LEMMA BecomesTyped ==
  ASSUME Shaped, NEW c \in Configs, NEW g \in Quarantines, adapter' = adapter, Becomes(c, g)
  PROVE  /\ cfg' \in Configs' /\ cut' \in [Links -> Quarantines \cup {None}]'
         /\ lifted' \subseteq Quarantines \X Quarantines
<1>1. Configs' = Configs /\ Links' = Links
  BY DEF Configs, Links
<1>2. cut' \in [Links -> Quarantines \cup {None}]
  BY DEF Becomes, Shaped
<1>3. \A l \in Links : cut[l] # None => <<cut[l], g>> \in Quarantines \X Quarantines
  BY DEF Shaped
<1>4. lifted' \subseteq Quarantines \X Quarantines
  BY <1>3 DEF Becomes, Shaped
<1> QED BY <1>1, <1>2, <1>4 DEF Becomes

-----------------------------------------------------------------------------
(* What a step makes of an executor's record. *)

\* h is f but for fields X of w's record.
SameBut(h, f, w, X) ==
  /\ h \in [Workers -> WorkRecords]
  /\ \A v \in Workers : v # w => h[v] = f[v]
  /\ h[w].mode = f[w].mode /\ h[w].gen = f[w].gen /\ h[w].req = f[w].req
  /\ "pc" \notin X => h[w].pc = f[w].pc
  /\ "view" \notin X => h[w].view = f[w].view
  /\ "left" \notin X => h[w].left = f[w].left
  /\ "task" \notin X => h[w].task = f[w].task
  /\ "upid" \notin X => h[w].upid = f[w].upid
  /\ "approval" \notin X => h[w].approval = f[w].approval

LEMMA SetPc ==
  ASSUME NEW f \in [Workers -> WorkRecords], NEW w \in Workers, NEW p \in Pcs
  PROVE  /\ SameBut([f EXCEPT ![w].pc = p], f, w, {"pc"})
         /\ [f EXCEPT ![w].pc = p][w].pc = p
BY DEF SameBut, WorkRecords

LEMMA SetView ==
  ASSUME NEW f \in [Workers -> WorkRecords], NEW w \in Workers, NEW c \in Configs \cup {None}
  PROVE  /\ SameBut([f EXCEPT ![w].view = c], f, w, {"view"})
         /\ [f EXCEPT ![w].view = c][w].view = c
BY DEF SameBut, WorkRecords

LEMMA SetLeft ==
  ASSUME NEW f \in [Workers -> WorkRecords], NEW w \in Workers, NEW s \in SUBSET Links
  PROVE  /\ SameBut([f EXCEPT ![w].left = s], f, w, {"left"})
         /\ [f EXCEPT ![w].left = s][w].left = s
BY DEF SameBut, WorkRecords

LEMMA SetBad ==
  ASSUME NEW f \in [Workers -> WorkRecords], NEW w \in Workers, NEW b \in BOOLEAN
  PROVE  /\ SameBut([f EXCEPT ![w].bad = b], f, w, {"bad"})
         /\ [f EXCEPT ![w].bad = b][w].bad = b
BY DEF SameBut, WorkRecords

LEMMA SetTask ==
  ASSUME NEW f \in [Workers -> WorkRecords], NEW w \in Workers, NEW k \in 0..MaxTasks
  PROVE  /\ SameBut([f EXCEPT ![w].task = k], f, w, {"task"})
         /\ [f EXCEPT ![w].task = k][w].task = k
BY DEF SameBut, WorkRecords

LEMMA SetUpid ==
  ASSUME NEW f \in [Workers -> WorkRecords], NEW w \in Workers, NEW k \in 0..MaxTasks
  PROVE  /\ SameBut([f EXCEPT ![w].upid = k], f, w, {"upid"})
         /\ [f EXCEPT ![w].upid = k][w].upid = k
BY DEF SameBut, WorkRecords

LEMMA SetApproval ==
  ASSUME NEW f \in [Workers -> WorkRecords], NEW w \in Workers,
         NEW a \in {"valid", "withdrawn", "expired"}
  PROVE  /\ SameBut([f EXCEPT ![w].approval = a], f, w, {"approval"})
         /\ [f EXCEPT ![w].approval = a][w].approval = a
BY DEF SameBut, WorkRecords

\* Updates of several fields at once.
WithPcView(f, w, p, c) == [f EXCEPT ![w].pc = p, ![w].view = c]
WithPcViewLeft(f, w, p, c, s) == [f EXCEPT ![w].pc = p, ![w].view = c, ![w].left = s]
WithPcTask(f, w, p, k) == [f EXCEPT ![w].pc = p, ![w].task = k]
WithPcUpid(f, w, p, k) == [f EXCEPT ![w].pc = p, ![w].upid = k]
WithLeftBad(f, w, s, b) == [f EXCEPT ![w].left = s, ![w].bad = b]

LEMMA SetPcView ==
  ASSUME NEW f \in [Workers -> WorkRecords], NEW w \in Workers,
         NEW p \in Pcs,
         NEW c \in Configs \cup {None},
         NEW h, h = WithPcView(f, w, p, c)
  PROVE  SameBut(h, f, w, {"pc", "view"}) /\ h[w].pc = p /\ h[w].view = c
<1> DEFINE h1 == [f EXCEPT ![w].pc = p]
<1> DEFINE h2 == [h1 EXCEPT ![w].view = c]
<1>1. SameBut(h1, f, w, {"pc"}) /\ h1[w].pc = p
  BY SetPc
<1>2. SameBut(h2, h1, w, {"view"}) /\ h2[w].view = c
  <2> HIDE DEF h1
  <2>1. h1 \in [Workers -> WorkRecords]
    BY <1>1 DEF SameBut
  <2> QED BY <2>1, SetView
<1>3. h = h2
  BY DEF WithPcView
<1> HIDE DEF h1, h2
<1>4. SameBut(h2, f, w, {"pc", "view"})
  BY <1>1, <1>2 DEF SameBut
<1>5. h2[w].pc = p
  BY <1>1, <1>2 DEF SameBut
<1> QED BY <1>2, <1>3, <1>4, <1>5

LEMMA SetPcViewLeft ==
  ASSUME NEW f \in [Workers -> WorkRecords], NEW w \in Workers,
         NEW p \in Pcs, NEW c \in Configs \cup {None}, NEW s \in SUBSET Links,
         NEW h, h = WithPcViewLeft(f, w, p, c, s)
  PROVE  /\ SameBut(h, f, w, {"pc", "view", "left"})
         /\ h[w].pc = p /\ h[w].view = c /\ h[w].left = s
<1> DEFINE h1 == [f EXCEPT ![w].pc = p]
<1> DEFINE h2 == [h1 EXCEPT ![w].view = c]
<1> DEFINE h3 == [h2 EXCEPT ![w].left = s]
<1>1. SameBut(h1, f, w, {"pc"}) /\ h1[w].pc = p
  BY SetPc
<1>2. SameBut(h2, h1, w, {"view"}) /\ h2[w].view = c
  <2> HIDE DEF h1
  <2>1. h1 \in [Workers -> WorkRecords]
    BY <1>1 DEF SameBut
  <2> QED BY <2>1, SetView
<1>3. SameBut(h3, h2, w, {"left"}) /\ h3[w].left = s
  <2> HIDE DEF h2
  <2>1. h2 \in [Workers -> WorkRecords]
    BY <1>2 DEF SameBut
  <2> QED BY <2>1, SetLeft
<1>4. h = h3
  BY DEF WithPcViewLeft
<1> HIDE DEF h1, h2, h3
<1>5. SameBut(h3, f, w, {"pc", "view", "left"})
  BY <1>1, <1>2, <1>3 DEF SameBut
<1>6. h3[w].pc = p /\ h3[w].view = c
  BY <1>1, <1>2, <1>3 DEF SameBut
<1> QED BY <1>3, <1>4, <1>5, <1>6

LEMMA SetPcTask ==
  ASSUME NEW f \in [Workers -> WorkRecords], NEW w \in Workers,
         NEW p \in Pcs,
         NEW k \in 0..MaxTasks,
         NEW h, h = WithPcTask(f, w, p, k)
  PROVE  SameBut(h, f, w, {"pc", "task"}) /\ h[w].pc = p /\ h[w].task = k
<1> DEFINE h1 == [f EXCEPT ![w].pc = p]
<1> DEFINE h2 == [h1 EXCEPT ![w].task = k]
<1>1. SameBut(h1, f, w, {"pc"}) /\ h1[w].pc = p
  BY SetPc
<1>2. SameBut(h2, h1, w, {"task"}) /\ h2[w].task = k
  <2> HIDE DEF h1
  <2>1. h1 \in [Workers -> WorkRecords]
    BY <1>1 DEF SameBut
  <2> QED BY <2>1, SetTask
<1>3. h = h2
  BY DEF WithPcTask
<1> HIDE DEF h1, h2
<1>4. SameBut(h2, f, w, {"pc", "task"})
  BY <1>1, <1>2 DEF SameBut
<1>5. h2[w].pc = p
  BY <1>1, <1>2 DEF SameBut
<1> QED BY <1>2, <1>3, <1>4, <1>5

LEMMA SetPcUpid ==
  ASSUME NEW f \in [Workers -> WorkRecords], NEW w \in Workers,
         NEW p \in Pcs,
         NEW k \in 0..MaxTasks,
         NEW h, h = WithPcUpid(f, w, p, k)
  PROVE  SameBut(h, f, w, {"pc", "upid"}) /\ h[w].pc = p /\ h[w].upid = k
<1> DEFINE h1 == [f EXCEPT ![w].pc = p]
<1> DEFINE h2 == [h1 EXCEPT ![w].upid = k]
<1>1. SameBut(h1, f, w, {"pc"}) /\ h1[w].pc = p
  BY SetPc
<1>2. SameBut(h2, h1, w, {"upid"}) /\ h2[w].upid = k
  <2> HIDE DEF h1
  <2>1. h1 \in [Workers -> WorkRecords]
    BY <1>1 DEF SameBut
  <2> QED BY <2>1, SetUpid
<1>3. h = h2
  BY DEF WithPcUpid
<1> HIDE DEF h1, h2
<1>4. SameBut(h2, f, w, {"pc", "upid"})
  BY <1>1, <1>2 DEF SameBut
<1>5. h2[w].pc = p
  BY <1>1, <1>2 DEF SameBut
<1> QED BY <1>2, <1>3, <1>4, <1>5

LEMMA SetLeftBad ==
  ASSUME NEW f \in [Workers -> WorkRecords], NEW w \in Workers,
         NEW s \in SUBSET Links,
         NEW b \in BOOLEAN,
         NEW h, h = WithLeftBad(f, w, s, b)
  PROVE  SameBut(h, f, w, {"left", "bad"}) /\ h[w].left = s /\ h[w].bad = b
<1> DEFINE h1 == [f EXCEPT ![w].left = s]
<1> DEFINE h2 == [h1 EXCEPT ![w].bad = b]
<1>1. SameBut(h1, f, w, {"left"}) /\ h1[w].left = s
  BY SetLeft
<1>2. SameBut(h2, h1, w, {"bad"}) /\ h2[w].bad = b
  <2> HIDE DEF h1
  <2>1. h1 \in [Workers -> WorkRecords]
    BY <1>1 DEF SameBut
  <2> QED BY <2>1, SetBad
<1>3. h = h2
  BY DEF WithLeftBad
<1> HIDE DEF h1, h2
<1>4. SameBut(h2, f, w, {"left", "bad"})
  BY <1>1, <1>2 DEF SameBut
<1>5. h2[w].left = s
  BY <1>1, <1>2 DEF SameBut
<1> QED BY <1>2, <1>3, <1>4, <1>5

\* Executor w's record changes in fields X, or it is done with its request.
Went(w, X) == SameBut(work', work, w, X)
Left(w) ==
  /\ work' \in [Workers -> WorkRecords] /\ work'[w] = Idle
  /\ \A v \in Workers : v # w => work'[v] = work[v]
\* Executor w has begun with generation g.
Begun(w, p, m, g) ==
  /\ work' \in [Workers -> WorkRecords]
  /\ \A v \in Workers : v # w => work'[v] = work[v]
  /\ work'[w].pc = p /\ work'[w].mode = m /\ work'[w].gen = g
  /\ work'[w].upid = 0 /\ work'[w].left = {} /\ work'[w].approval = "valid"

LEMMA IdleTyped == Idle \in WorkRecords
BY BoundsAssumption DEF Idle, WorkRecords, Pcs

LEMMA GoWent ==
  ASSUME work \in [Workers -> WorkRecords], NEW w \in Workers, NEW p \in Pcs, Go(w, p)
  PROVE  Went(w, {"pc"}) /\ work'[w].pc = p
BY SetPc DEF Go, Went

LEMMA LeaveLeft ==
  ASSUME work \in [Workers -> WorkRecords], NEW w \in Workers, Leave(w)
  PROVE  Left(w)
BY IdleTyped DEF Leave, Left

LEMMA BrokenWent ==
  ASSUME work \in [Workers -> WorkRecords], NEW w \in Workers, Broken(w)
  PROVE  \/ work[w].mode = "reconcile" /\ Left(w)
         \/ work[w].mode # "reconcile" /\ Went(w, {"pc"}) /\ work'[w].pc = "fail"
<1>1. "fail" \in Pcs
  BY DEF Pcs, Guarded
<1> QED BY <1>1, LeaveLeft, GoWent DEF Broken

LEMMA RecoverBegun ==
  ASSUME work \in [Workers -> WorkRecords], NEW w \in Workers, NEW g \in Quarantines,
         NEW m \in {"sweep", "kill"},
         work' = [work EXCEPT ![w] = [Idle EXCEPT !.pc = "restore", !.mode = m, !.gen = g]]
  PROVE  Begun(w, "restore", m, g) /\ work'[w].req = None
<1> DEFINE r0 == Idle
<1> DEFINE r1 == [r0 EXCEPT !.pc = "restore"]
<1> DEFINE r2 == [r1 EXCEPT !.mode = m]
<1> DEFINE r3 == [r2 EXCEPT !.gen = g]
<1>0. /\ r0 \in WorkRecords /\ r0.upid = 0 /\ r0.left = {} /\ r0.approval = "valid"
      /\ r0.req = None
  BY IdleTyped DEF Idle
<1>1. /\ r1 \in WorkRecords /\ r1.upid = 0 /\ r1.left = {} /\ r1.approval = "valid"
      /\ r1.req = None /\ r1.pc = "restore"
  <2> HIDE DEF r0
  <2> QED BY <1>0 DEF WorkRecords, Pcs, Guarded, Requests
<1>2. /\ r2 \in WorkRecords /\ r2.upid = 0 /\ r2.left = {} /\ r2.approval = "valid"
      /\ r2.req = None /\ r2.pc = "restore" /\ r2.mode = m
  <2> HIDE DEF r1
  <2> QED BY <1>1 DEF WorkRecords, Pcs, Guarded, Requests
<1>3. /\ r3 \in WorkRecords /\ r3.upid = 0 /\ r3.left = {} /\ r3.approval = "valid"
      /\ r3.req = None /\ r3.pc = "restore" /\ r3.mode = m /\ r3.gen = g
  <2> HIDE DEF r2
  <2> QED BY <1>2 DEF WorkRecords, Pcs, Guarded, Requests
<1>4. work' = [work EXCEPT ![w] = r3]
  OBVIOUS
<1> HIDE DEF r0, r1, r2, r3
<1>5. work'[w] = r3 /\ work' \in [Workers -> WorkRecords]
      /\ \A v \in Workers : v # w => work'[v] = work[v]
  BY <1>3, <1>4
<1> QED BY <1>3, <1>5 DEF Begun

LEMMA TakeBegun ==
  ASSUME work \in [Workers -> WorkRecords], NEW w \in Workers, NEW g \in Quarantines,
         NEW q \in Requests,
         work' = [work EXCEPT ![w] = [Idle EXCEPT !.pc = "take", !.mode = "reconcile",
                                                  !.gen = g, !.req = q]]
  PROVE  Begun(w, "take", "reconcile", g)
<1> DEFINE r0 == Idle
<1> DEFINE r1 == [r0 EXCEPT !.pc = "take"]
<1> DEFINE r2 == [r1 EXCEPT !.mode = "reconcile"]
<1> DEFINE r3 == [r2 EXCEPT !.gen = g]
<1> DEFINE r4 == [r3 EXCEPT !.req = q]
<1>0. r0 \in WorkRecords /\ r0.upid = 0 /\ r0.left = {} /\ r0.approval = "valid"
  BY IdleTyped DEF Idle
<1>1. /\ r1 \in WorkRecords /\ r1.upid = 0 /\ r1.left = {} /\ r1.approval = "valid"
      /\ r1.pc = "take"
  <2> HIDE DEF r0
  <2> QED BY <1>0 DEF WorkRecords, Pcs, Guarded, Requests
<1>2. /\ r2 \in WorkRecords /\ r2.upid = 0 /\ r2.left = {} /\ r2.approval = "valid"
      /\ r2.pc = "take" /\ r2.mode = "reconcile"
  <2> HIDE DEF r1
  <2> QED BY <1>1 DEF WorkRecords, Pcs, Guarded, Requests
<1>3. /\ r3 \in WorkRecords /\ r3.upid = 0 /\ r3.left = {} /\ r3.approval = "valid"
      /\ r3.pc = "take" /\ r3.mode = "reconcile" /\ r3.gen = g
  <2> HIDE DEF r2
  <2> QED BY <1>2 DEF WorkRecords, Pcs, Guarded, Requests
<1>4. /\ r4 \in WorkRecords /\ r4.upid = 0 /\ r4.left = {} /\ r4.approval = "valid"
      /\ r4.pc = "take" /\ r4.mode = "reconcile" /\ r4.gen = g /\ r4.req = q
  <2> HIDE DEF r3
  <2> QED BY <1>3 DEF WorkRecords, Pcs, Guarded, Requests
<1>5. work' = [work EXCEPT ![w] = r4]
  OBVIOUS
<1> HIDE DEF r0, r1, r2, r3, r4
<1>6. work'[w] = r4 /\ work' \in [Workers -> WorkRecords]
      /\ \A v \in Workers : v # w => work'[v] = work[v]
  BY <1>4, <1>5
<1> QED BY <1>4, <1>6 DEF Begun

LEMMA PreflightBegun ==
  ASSUME work \in [Workers -> WorkRecords], NEW w \in Workers, NEW q \in Quarantines,
         NEW c \in Configs,
         work' = [work EXCEPT ![w] = [Idle EXCEPT !.pc = "prepare", !.mode = "apply",
                                                  !.gen = q, !.req = q, !.view = c]]
  PROVE  Begun(w, "prepare", "apply", q) /\ work'[w].req = q /\ work'[w].view = c
<1> DEFINE r0 == Idle
<1> DEFINE r1 == [r0 EXCEPT !.pc = "prepare"]
<1> DEFINE r2 == [r1 EXCEPT !.mode = "apply"]
<1> DEFINE r3 == [r2 EXCEPT !.gen = q]
<1> DEFINE r4 == [r3 EXCEPT !.req = q]
<1> DEFINE r5 == [r4 EXCEPT !.view = c]
<1>0. r0 \in WorkRecords /\ r0.upid = 0 /\ r0.left = {} /\ r0.approval = "valid"
  BY IdleTyped DEF Idle
<1>1. /\ r1 \in WorkRecords /\ r1.upid = 0 /\ r1.left = {} /\ r1.approval = "valid"
      /\ r1.pc = "prepare"
  <2> HIDE DEF r0
  <2> QED BY <1>0 DEF WorkRecords, Pcs, Guarded, Requests
<1>2. /\ r2 \in WorkRecords /\ r2.upid = 0 /\ r2.left = {} /\ r2.approval = "valid"
      /\ r2.pc = "prepare" /\ r2.mode = "apply"
  <2> HIDE DEF r1
  <2> QED BY <1>1 DEF WorkRecords, Pcs, Guarded, Requests
<1>3. /\ r3 \in WorkRecords /\ r3.upid = 0 /\ r3.left = {} /\ r3.approval = "valid"
      /\ r3.pc = "prepare" /\ r3.mode = "apply" /\ r3.gen = q
  <2> HIDE DEF r2
  <2> QED BY <1>2 DEF WorkRecords, Pcs, Guarded, Requests
<1>4. /\ r4 \in WorkRecords /\ r4.upid = 0 /\ r4.left = {} /\ r4.approval = "valid"
      /\ r4.pc = "prepare" /\ r4.mode = "apply" /\ r4.gen = q /\ r4.req = q
  <2> HIDE DEF r3
  <2> QED BY <1>3 DEF WorkRecords, Pcs, Guarded, Requests
<1>5. /\ r5 \in WorkRecords /\ r5.upid = 0 /\ r5.left = {} /\ r5.approval = "valid"
      /\ r5.pc = "prepare" /\ r5.mode = "apply" /\ r5.gen = q /\ r5.req = q /\ r5.view = c
  <2> HIDE DEF r4
  <2> QED BY <1>4 DEF WorkRecords, Pcs, Guarded, Requests
<1>6. work' = [work EXCEPT ![w] = r5]
  OBVIOUS
<1> HIDE DEF r0, r1, r2, r3, r4, r5
<1>7. work'[w] = r5 /\ work' \in [Workers -> WorkRecords]
      /\ \A v \in Workers : v # w => work'[v] = work[v]
  BY <1>5, <1>6
<1> QED BY <1>5, <1>7 DEF Begun

\* h is f but for fields X of g's generation.
GenBut(h, f, g, X) ==
  /\ h \in [Quarantines -> Generations]
  /\ \A q \in Quarantines : q # g => h[q] = f[q]
  /\ "status" \notin X => h[g].status = f[g].status
  /\ "snap" \notin X => h[g].snap = f[g].snap
  /\ "upid" \notin X => h[g].upid = f[g].upid
  /\ "receipts" \notin X => h[g].receipts = f[g].receipts

LEMMA SetStatus ==
  ASSUME NEW f \in [Quarantines -> Generations], NEW g \in Quarantines, NEW s \in Statuses
  PROVE  /\ GenBut([f EXCEPT ![g].status = s], f, g, {"status"})
         /\ [f EXCEPT ![g].status = s][g].status = s
BY DEF GenBut, Generations

LEMMA SetSnap ==
  ASSUME NEW f \in [Quarantines -> Generations], NEW g \in Quarantines, NEW c \in Configs \cup {None}
  PROVE  /\ GenBut([f EXCEPT ![g].snap = c], f, g, {"snap"})
         /\ [f EXCEPT ![g].snap = c][g].snap = c
BY DEF GenBut, Generations

LEMMA SetRowUpid ==
  ASSUME NEW f \in [Quarantines -> Generations], NEW g \in Quarantines, NEW k \in 0..MaxTasks
  PROVE  /\ GenBut([f EXCEPT ![g].upid = k], f, g, {"upid"})
         /\ [f EXCEPT ![g].upid = k][g].upid = k
BY DEF GenBut, Generations

LEMMA SetReceipts ==
  ASSUME NEW f \in [Quarantines -> Generations], NEW g \in Quarantines, NEW r \in SUBSET {"apply", "rollback"}
  PROVE  /\ GenBut([f EXCEPT ![g].receipts = r], f, g, {"receipts"})
         /\ [f EXCEPT ![g].receipts = r][g].receipts = r
BY DEF GenBut, Generations

LEMMA SetExpired ==
  ASSUME NEW f \in [Quarantines -> Generations], NEW g \in Quarantines, NEW b \in BOOLEAN
  PROVE  /\ GenBut([f EXCEPT ![g].expired = b], f, g, {"expired"})
BY DEF GenBut, Generations

WithStatusSnap(f, g, s, c) == [f EXCEPT ![g].status = s, ![g].snap = c]
WithStatusUpid(f, g, s, k) == [f EXCEPT ![g].status = s, ![g].upid = k]
WithStatusReceipts(f, g, s, r) == [f EXCEPT ![g].status = s, ![g].receipts = r]
WithStatusUpidReceipts(f, g, s, k, r) == [f EXCEPT ![g].status = s, ![g].upid = k, ![g].receipts = r]

LEMMA SetStatusSnap ==
  ASSUME NEW f \in [Quarantines -> Generations], NEW g \in Quarantines,
         NEW s \in Statuses, NEW c \in Configs \cup {None},
         NEW h, h = WithStatusSnap(f, g, s, c)
  PROVE  GenBut(h, f, g, {"status", "snap"}) /\ h[g].status = s /\ h[g].snap = c
<1> DEFINE h1 == [f EXCEPT ![g].status = s]
<1> DEFINE h2 == [h1 EXCEPT ![g].snap = c]
<1>1. GenBut(h1, f, g, {"status"}) /\ h1[g].status = s
  BY SetStatus
<1>2. GenBut(h2, h1, g, {"snap"}) /\ h2[g].snap = c
  <2> HIDE DEF h1
  <2>1. h1 \in [Quarantines -> Generations]
    BY <1>1 DEF GenBut
  <2> QED BY <2>1, SetSnap
<1>3. h = h2
  BY DEF WithStatusSnap
<1> HIDE DEF h1, h2
<1>4. GenBut(h2, f, g, {"status", "snap"})
  BY <1>1, <1>2 DEF GenBut
<1>5. h2[g].status = s /\ h2[g].snap = c
  BY <1>1, <1>2 DEF GenBut
<1> QED BY <1>3, <1>4, <1>5

LEMMA SetStatusUpid ==
  ASSUME NEW f \in [Quarantines -> Generations], NEW g \in Quarantines,
         NEW s \in Statuses, NEW k \in 0..MaxTasks,
         NEW h, h = WithStatusUpid(f, g, s, k)
  PROVE  GenBut(h, f, g, {"status", "upid"}) /\ h[g].status = s /\ h[g].upid = k
<1> DEFINE h1 == [f EXCEPT ![g].status = s]
<1> DEFINE h2 == [h1 EXCEPT ![g].upid = k]
<1>1. GenBut(h1, f, g, {"status"}) /\ h1[g].status = s
  BY SetStatus
<1>2. GenBut(h2, h1, g, {"upid"}) /\ h2[g].upid = k
  <2> HIDE DEF h1
  <2>1. h1 \in [Quarantines -> Generations]
    BY <1>1 DEF GenBut
  <2> QED BY <2>1, SetRowUpid
<1>3. h = h2
  BY DEF WithStatusUpid
<1> HIDE DEF h1, h2
<1>4. GenBut(h2, f, g, {"status", "upid"})
  BY <1>1, <1>2 DEF GenBut
<1>5. h2[g].status = s /\ h2[g].upid = k
  BY <1>1, <1>2 DEF GenBut
<1> QED BY <1>3, <1>4, <1>5

LEMMA SetStatusReceipts ==
  ASSUME NEW f \in [Quarantines -> Generations], NEW g \in Quarantines,
         NEW s \in Statuses, NEW r \in SUBSET {"apply", "rollback"},
         NEW h, h = WithStatusReceipts(f, g, s, r)
  PROVE  GenBut(h, f, g, {"status", "receipts"}) /\ h[g].status = s /\ h[g].receipts = r
<1> DEFINE h1 == [f EXCEPT ![g].status = s]
<1> DEFINE h2 == [h1 EXCEPT ![g].receipts = r]
<1>1. GenBut(h1, f, g, {"status"}) /\ h1[g].status = s
  BY SetStatus
<1>2. GenBut(h2, h1, g, {"receipts"}) /\ h2[g].receipts = r
  <2> HIDE DEF h1
  <2>1. h1 \in [Quarantines -> Generations]
    BY <1>1 DEF GenBut
  <2> QED BY <2>1, SetReceipts
<1>3. h = h2
  BY DEF WithStatusReceipts
<1> HIDE DEF h1, h2
<1>4. GenBut(h2, f, g, {"status", "receipts"})
  BY <1>1, <1>2 DEF GenBut
<1>5. h2[g].status = s /\ h2[g].receipts = r
  BY <1>1, <1>2 DEF GenBut
<1> QED BY <1>3, <1>4, <1>5

LEMMA SetCompleted ==
  ASSUME NEW f \in [Quarantines -> Generations], NEW g \in Quarantines,
         NEW s \in Statuses, NEW k \in 0..MaxTasks, NEW r \in SUBSET {"apply", "rollback"},
         NEW h, h = WithStatusUpidReceipts(f, g, s, k, r)
  PROVE  GenBut(h, f, g, {"status", "upid", "receipts"}) /\ h[g].status = s /\ h[g].upid = k /\ h[g].receipts = r
<1> DEFINE h1 == [f EXCEPT ![g].status = s]
<1> DEFINE h2 == [h1 EXCEPT ![g].upid = k]
<1> DEFINE h3 == [h2 EXCEPT ![g].receipts = r]
<1>1. GenBut(h1, f, g, {"status"}) /\ h1[g].status = s
  BY SetStatus
<1>2. GenBut(h2, h1, g, {"upid"}) /\ h2[g].upid = k
  <2> HIDE DEF h1
  <2>1. h1 \in [Quarantines -> Generations]
    BY <1>1 DEF GenBut
  <2> QED BY <2>1, SetRowUpid
<1>3. GenBut(h3, h2, g, {"receipts"}) /\ h3[g].receipts = r
  <2> HIDE DEF h2
  <2>1. h2 \in [Quarantines -> Generations]
    BY <1>2 DEF GenBut
  <2> QED BY <2>1, SetReceipts
<1>4. h = h3
  BY DEF WithStatusUpidReceipts
<1> HIDE DEF h1, h2, h3
<1>5. GenBut(h3, f, g, {"status", "upid", "receipts"})
  BY <1>1, <1>2, <1>3 DEF GenBut
<1>6. h3[g].status = s /\ h3[g].upid = k /\ h3[g].receipts = r
  BY <1>1, <1>2, <1>3 DEF GenBut
<1> QED BY <1>4, <1>5, <1>6

-----------------------------------------------------------------------------
(* What each step does to its executor's record and to its generation. *)

GenWent(g, X) == GenBut(gens', gens, g, X)

LEMMA PrepareDoes ==
  ASSUME Shaped, InHand, NEW w \in Workers, Prepare(w)
  PROVE  \/ Left(w) /\ gens' = gens
         \/ /\ MayPrepare(w) /\ Went(w, {"pc", "view"}) /\ work'[w].pc = "guard"
            /\ GenWent(work[w].gen, {"status", "snap"})
            /\ gens'[work[w].gen].status = "prepared"
            /\ gens'[work[w].gen].snap = work[w].view
<1> USE DEF Shaped
<1>1. CASE ~MayPrepare(w)
  BY <1>1, LeaveLeft DEF Prepare
<1>2. CASE MayPrepare(w)
  <2> DEFINE g == work[w].gen
  <2>1. g \in Quarantines /\ work[w].req = g /\ work[w].view \in Configs
    BY DEF Prepare, InHand, Handy
  <2>2. gens' = WithStatusSnap(gens, g, "prepared", work[w].view)
    BY <1>2, <2>1 DEF Prepare, WithStatusSnap
  <2>3. work' = WithPcView(work, w, "guard", None)
    BY <1>2 DEF Prepare, WithPcView
  <2>4. "guard" \in Pcs /\ None \in Configs \cup {None} /\ work \in [Workers -> WorkRecords]
    BY DEF Pcs, Guarded
  <2>6. /\ "prepared" \in Statuses /\ work[w].view \in Configs \cup {None}
        /\ gens \in [Quarantines -> Generations]
    BY <2>1 DEF Statuses, Active
  <2>5. Went(w, {"pc", "view"}) /\ work'[w].pc = "guard"
    BY <2>3, <2>4, SetPcView DEF Went
  <2> HIDE DEF g
  <2>7. /\ GenWent(g, {"status", "snap"})
        /\ gens'[g].status = "prepared" /\ gens'[g].snap = work[w].view
    BY <2>1, <2>2, <2>6, SetStatusSnap DEF GenWent
  <2> QED BY <1>2, <2>5, <2>7 DEF g
<1> QED BY <1>1, <1>2

LEMMA GuardDoes ==
  ASSUME Shaped, NEW w \in Workers, Guard(w)
  PROVE  \/ Left(w)
         \/ /\ Went(w, {"pc"}) /\ work'[w].pc = "check"
            /\ Acquirable(work[w].gen) /\ gens[work[w].gen].status = "prepared" /\ Validated(w)
BY GoWent, LeaveLeft DEF Guard, Pcs, Guarded, Shaped

LEMMA CheckDoes ==
  ASSUME Shaped, NEW w \in Workers, Check(w)
  PROVE  /\ Went(w, {"pc", "view", "left"})
         /\ work'[w].pc \in {"fail", "disconnect", "submit"}
         /\ work'[w].pc # "fail" => cfg = gens[work[w].gen].snap
         /\ work'[w].pc = "disconnect" => adapter = "docker"
         /\ work'[w].pc = "submit" => adapter # "docker"
         /\ work'[w].view = cfg /\ work'[w].left = {l \in Links : cfg[l].up}
<1> DEFINE p == IF cfg # gens[work[w].gen].snap THEN "fail"
                ELSE IF adapter = "docker" THEN "disconnect" ELSE "submit"
<1>1. p \in Pcs /\ p \in {"fail", "disconnect", "submit"}
      /\ (p # "fail" => cfg = gens[work[w].gen].snap)
      /\ (p = "disconnect" => adapter = "docker") /\ (p = "submit" => adapter # "docker")
  BY DEF Pcs, Guarded
<1> DEFINE s == {l \in Links : cfg[l].up}
<1>2. work' = WithPcViewLeft(work, w, p, cfg, s)
  BY DEF Check, WithPcViewLeft
<1>3. s \in SUBSET Links /\ cfg \in Configs \cup {None} /\ work \in [Workers -> WorkRecords]
  BY DEF Shaped
<1>4. s = {l \in Links : cfg[l].up}
  OBVIOUS
<1> HIDE DEF p, s
<1>5. /\ Went(w, {"pc", "view", "left"}) /\ work'[w].pc = p /\ work'[w].view = cfg
      /\ work'[w].left = s
  BY <1>1, <1>2, <1>3, SetPcViewLeft DEF Went
<1> QED BY <1>1, <1>4, <1>5

LEMMA DisconnectDoes ==
  ASSUME Shaped, NEW w \in Workers, Disconnect(w)
  PROVE  \/ /\ Went(w, {"pc"}) /\ work'[w].pc = "verify" /\ work[w].left = {}
            /\ UNCHANGED <<cfg, cut, lifted, faults>>
         \/ /\ \/ Went(w, {"left"}) /\ work'[w].left \subseteq work[w].left
               \/ Went(w, {"pc"}) /\ work'[w].pc = "restore"
            /\ faults' \in 0..MaxFaults
            /\ \/ UNCHANGED <<cfg, cut, lifted>>
               \/ \E l \in work[w].left : cfg[l].up /\ Becomes([cfg EXCEPT ![l] = Down], work[w].gen)
<1>0. {"verify", "restore"} \subseteq Pcs /\ work \in [Workers -> WorkRecords]
  BY DEF Pcs, Guarded, Shaped
<1>1. CASE work[w].left = {}
  BY <1>0, <1>1, GoWent DEF Disconnect
<1>2. CASE work[w].left # {}
  <2>1. PICK l \in work[w].left : \E effect, ok \in BOOLEAN :
        /\ IF effect /\ cfg[l].up THEN Becomes([cfg EXCEPT ![l] = Down], work[w].gen)
                                  ELSE UNCHANGED <<cfg, cut, lifted>>
        /\ IF ok THEN UNCHANGED faults ELSE IF cfg[l].up THEN Fault ELSE UNCHANGED faults
        /\ work' = IF ok THEN [work EXCEPT ![w].left = @ \ {l}]
                   ELSE [work EXCEPT ![w].pc = "restore"]
    BY <1>2 DEF Disconnect
  <2>2. PICK effect \in BOOLEAN, ok \in BOOLEAN :
        /\ IF effect /\ cfg[l].up THEN Becomes([cfg EXCEPT ![l] = Down], work[w].gen)
                                  ELSE UNCHANGED <<cfg, cut, lifted>>
        /\ IF ok THEN UNCHANGED faults ELSE IF cfg[l].up THEN Fault ELSE UNCHANGED faults
        /\ work' = IF ok THEN [work EXCEPT ![w].left = @ \ {l}]
                   ELSE [work EXCEPT ![w].pc = "restore"]
    BY <2>1
  <2>3. faults' \in 0..MaxFaults
    BY <2>2, BoundsAssumption DEF Fault, Shaped
  <2>4. \/ UNCHANGED <<cfg, cut, lifted>>
        \/ \E k \in work[w].left : cfg[k].up /\ Becomes([cfg EXCEPT ![k] = Down], work[w].gen)
    BY <2>2
  <2> DEFINE s == work[w].left \ {l}
  <2>5. s \in SUBSET Links /\ s \subseteq work[w].left
    BY <1>0 DEF WorkRecords
  <2>6. \/ work' = [work EXCEPT ![w].left = s] \/ work' = [work EXCEPT ![w].pc = "restore"]
    BY <2>2
  <2> HIDE DEF s
  <2>7. ASSUME work' = [work EXCEPT ![w].left = s]
        PROVE  Went(w, {"left"}) /\ work'[w].left = s
    BY <1>0, <2>5, <2>7, SetLeft DEF Went
  <2>8. ASSUME work' = [work EXCEPT ![w].pc = "restore"]
        PROVE  Went(w, {"pc"}) /\ work'[w].pc = "restore"
    BY <1>0, <2>8, SetPc DEF Went
  <2>9. \/ Went(w, {"left"}) /\ work'[w].left = s
        \/ Went(w, {"pc"}) /\ work'[w].pc = "restore"
    BY <2>6, <2>7, <2>8
  <2> QED BY <2>3, <2>4, <2>5, <2>9
<1> QED BY <1>1, <1>2

LEMMA SubmitDoes ==
  ASSUME Shaped, NEW w \in Workers, Submit(w)
  PROVE  \/ Broken(w) /\ UNCHANGED <<tasks, faults>>
         \/ \E k \in Tasks :
              /\ tasks[k].state = "none"
              /\ tasks' = [tasks EXCEPT ![k] = [state |-> "running", gen |-> work[w].gen,
                                                digest |-> work[w].view, to |-> Wanted(w)]]
              /\ faults' \in 0..MaxFaults
              /\ \/ Went(w, {"pc", "task"}) /\ work'[w].pc = "await" /\ work'[w].task = k
                 \/ Broken(w)
<1>0. "await" \in Pcs /\ work \in [Workers -> WorkRecords]
  BY DEF Pcs, Guarded, Shaped
<1>1. CASE Broken(w) /\ UNCHANGED <<tasks, faults>>
  BY <1>1
<1>2. ASSUME NEW k \in Tasks, tasks[k].state = "none",
             tasks' = [tasks EXCEPT ![k] = [state |-> "running", gen |-> work[w].gen,
                                            digest |-> work[w].view, to |-> Wanted(w)]],
             \/ work' = [work EXCEPT ![w].pc = "await", ![w].task = k] /\ UNCHANGED faults
             \/ Broken(w) /\ Fault
      PROVE  /\ faults' \in 0..MaxFaults
             /\ \/ Went(w, {"pc", "task"}) /\ work'[w].pc = "await" /\ work'[w].task = k
                \/ Broken(w)
  <2>1. faults' \in 0..MaxFaults
    BY <1>2, BoundsAssumption DEF Fault, Shaped
  <2>2. k \in 0..MaxTasks
    BY BoundsAssumption DEF Tasks
  <2>3. CASE work' = [work EXCEPT ![w].pc = "await", ![w].task = k]
    <3>1. work' = WithPcTask(work, w, "await", k)
      BY <2>3 DEF WithPcTask
    <3>2. Went(w, {"pc", "task"}) /\ work'[w].pc = "await" /\ work'[w].task = k
      BY <1>0, <2>2, <3>1, SetPcTask DEF Went
    <3> QED BY <2>1, <3>2
  <2> QED BY <1>2, <2>1, <2>3
<1>3. \/ Broken(w) /\ UNCHANGED <<tasks, faults>>
      \/ \E k \in Tasks :
          /\ tasks[k].state = "none"
          /\ tasks' = [tasks EXCEPT ![k] = [state |-> "running", gen |-> work[w].gen,
                                            digest |-> work[w].view, to |-> Wanted(w)]]
          /\ \/ work' = [work EXCEPT ![w].pc = "await", ![w].task = k] /\ UNCHANGED faults
             \/ Broken(w) /\ Fault
  BY DEF Submit
<1> QED BY <1>1, <1>2, <1>3

LEMMA AwaitDoes ==
  ASSUME Shaped, NEW w \in Workers, Await(w)
  PROVE  \/ Broken(w) /\ tasks[work[w].task].state # "ok"
         \/ /\ tasks[work[w].task].state = "ok" /\ work[w].mode = "apply"
            /\ Went(w, {"pc", "upid"}) /\ work'[w].pc = "verify"
            /\ work'[w].upid = work[w].task
         \/ /\ tasks[work[w].task].state = "ok" /\ work[w].mode # "apply"
            /\ Went(w, {"pc", "upid"}) /\ work'[w].pc = "readback"
            /\ work'[w].upid = work[w].upid
<1>0. /\ "verify" \in Pcs /\ "readback" \in Pcs /\ work \in [Workers -> WorkRecords]
      /\ work[w].task \in 0..MaxTasks /\ work[w].upid \in 0..MaxTasks
  BY DEF Pcs, Guarded, Shaped, WorkRecords
<1>1. CASE tasks[work[w].task].state \in {"running", "failed"} /\ Broken(w)
  BY <1>1
<1>2. CASE /\ tasks[work[w].task].state = "ok"
           /\ work' = [work EXCEPT ![w].pc = IF work[w].mode = "apply" THEN "verify" ELSE "readback",
                                ![w].upid = IF work[w].mode = "apply" THEN work[w].task ELSE @]
  <2>1. CASE work[w].mode = "apply"
    <3>1. work' = WithPcUpid(work, w, "verify", work[w].task)
      BY <1>2, <2>1 DEF WithPcUpid
    <3>2. Went(w, {"pc", "upid"}) /\ work'[w].pc = "verify" /\ work'[w].upid = work[w].task
      BY <1>0, <3>1, SetPcUpid DEF Went
    <3> QED BY <1>2, <2>1, <3>2
  <2>2. CASE work[w].mode # "apply"
    <3>1. work' = WithPcUpid(work, w, "readback", work[w].upid)
      BY <1>2, <2>2 DEF WithPcUpid
    <3>2. Went(w, {"pc", "upid"}) /\ work'[w].pc = "readback" /\ work'[w].upid = work[w].upid
      BY <1>0, <3>1, SetPcUpid DEF Went
    <3> QED BY <1>2, <2>2, <3>2
  <2> QED BY <2>1, <2>2
<1> QED BY <1>1, <1>2 DEF Await

LEMMA VerifyDoes ==
  ASSUME Shaped, NEW w \in Workers, Verify(w)
  PROVE  Went(w, {"pc"}) /\ work'[w].pc \in {"finish", "fail"}
<1>1. \E p \in {"finish", "fail"} : Go(w, p)
  BY DEF Verify
<1>2. {"finish", "fail"} \subseteq Pcs
  BY DEF Pcs, Guarded
<1> QED BY <1>1, <1>2, GoWent DEF Shaped

LEMMA FinishDoes ==
  ASSUME Shaped, InHand, NEW w \in Workers, Finish(w)
  PROVE  /\ Left(w) /\ faults' \in 0..MaxFaults
         /\ \/ gens' = gens
            \/ /\ GenWent(work[w].gen, {"status", "upid", "receipts"})
               /\ gens'[work[w].gen].status = "completed"
               /\ gens'[work[w].gen].receipts = gens[work[w].gen].receipts \cup {"apply"}
<1> DEFINE g == work[w].gen
<1> DEFINE r == gens[g].receipts \cup {"apply"}
<1> DEFINE u == work[w].upid
<1>1. Left(w)
  BY LeaveLeft DEF Finish, Shaped
<1>2. faults' \in 0..MaxFaults
  BY BoundsAssumption DEF Finish, Fault, Shaped
<1>3. /\ gens \in [Quarantines -> Generations] /\ g \in Quarantines /\ u \in 0..MaxTasks
      /\ "completed" \in Statuses /\ r \in SUBSET {"apply", "rollback"}
  BY DEF Finish, InHand, Handy, Shaped, WorkRecords, Generations, Statuses, Active
<1>4. gens' = gens \/ gens' = WithStatusUpidReceipts(gens, g, "completed", u, r)
  BY DEF Finish, WithStatusUpidReceipts
<1>5. r = gens[g].receipts \cup {"apply"}
  OBVIOUS
<1> HIDE DEF g, r, u
<1>6. ASSUME gens' = WithStatusUpidReceipts(gens, g, "completed", u, r)
      PROVE  /\ GenWent(g, {"status", "upid", "receipts"})
             /\ gens'[g].status = "completed" /\ gens'[g].receipts = r
  BY <1>3, <1>6, SetCompleted DEF GenWent
<1>7. \/ gens' = gens
      \/ /\ GenWent(g, {"status", "upid", "receipts"}) /\ gens'[g].status = "completed"
         /\ gens'[g].receipts = gens[g].receipts \cup {"apply"}
  BY <1>4, <1>5, <1>6
<1> QED BY <1>1, <1>2, <1>7 DEF g

LEMMA FailDoes ==
  ASSUME Shaped, InHand, NEW w \in Workers, Fail(w)
  PROVE  /\ Left(w) /\ faults' \in 0..MaxFaults
         /\ \/ gens' = gens
            \/ /\ GenWent(work[w].gen, {"status", "upid"})
               /\ gens'[work[w].gen].status = "recovery_required"
               /\ work[w].upid = 0 => gens'[work[w].gen].upid = gens[work[w].gen].upid
<1> DEFINE g == work[w].gen
<1> DEFINE u == IF work[w].upid # 0 THEN work[w].upid ELSE gens[g].upid
<1>1. Left(w)
  BY LeaveLeft DEF Fail, Shaped
<1>2. faults' \in 0..MaxFaults
  BY BoundsAssumption DEF Fail, Fault, Shaped
<1>3. /\ gens \in [Quarantines -> Generations] /\ g \in Quarantines /\ u \in 0..MaxTasks
      /\ "recovery_required" \in Statuses
  BY DEF Fail, InHand, Handy, Shaped, WorkRecords, Generations, Statuses, Active
<1>4. gens' = gens \/ gens' = WithStatusUpid(gens, g, "recovery_required", u)
  BY DEF Fail, WithStatusUpid
<1>5. work[w].upid = 0 => u = gens[g].upid
  OBVIOUS
<1> HIDE DEF g, u
<1>6. ASSUME gens' = WithStatusUpid(gens, g, "recovery_required", u)
      PROVE  /\ GenWent(g, {"status", "upid"})
             /\ gens'[g].status = "recovery_required" /\ gens'[g].upid = u
  BY <1>3, <1>6, SetStatusUpid DEF GenWent
<1>7. \/ gens' = gens
      \/ /\ GenWent(g, {"status", "upid"}) /\ gens'[g].status = "recovery_required"
         /\ work[w].upid = 0 => gens'[g].upid = gens[g].upid
  BY <1>4, <1>5, <1>6
<1> QED BY <1>1, <1>2, <1>7 DEF g

LEMMA ResolveDoes ==
  ASSUME Shaped, InHand, NEW w \in Workers, Resolve(w)
  PROVE  /\ Left(w) /\ faults' \in 0..MaxFaults /\ kills' \subseteq Quarantines
         /\ \/ gens' = gens
            \/ /\ GenWent(work[w].gen, {"status", "receipts"})
               /\ gens'[work[w].gen].status = "rolled_back"
               /\ gens'[work[w].gen].receipts = gens[work[w].gen].receipts \cup {"rollback"}
<1> DEFINE g == work[w].gen
<1> DEFINE r == gens[g].receipts \cup {"rollback"}
<1>1. Left(w)
  BY LeaveLeft DEF Resolve, Shaped
<1>2. faults' \in 0..MaxFaults
  BY BoundsAssumption DEF Resolve, Fault, Shaped
<1>3. kills' \subseteq Quarantines
  BY DEF Resolve, Shaped
<1>4. /\ gens \in [Quarantines -> Generations] /\ g \in Quarantines
      /\ "rolled_back" \in Statuses /\ r \in SUBSET {"apply", "rollback"}
  BY DEF Resolve, InHand, Handy, Shaped, Generations, Statuses
<1>5. gens' = gens \/ gens' = WithStatusReceipts(gens, g, "rolled_back", r)
  BY DEF Resolve, WithStatusReceipts
<1>6. r = gens[g].receipts \cup {"rollback"}
  OBVIOUS
<1> HIDE DEF g, r
<1>7. ASSUME gens' = WithStatusReceipts(gens, g, "rolled_back", r)
      PROVE  /\ GenWent(g, {"status", "receipts"})
             /\ gens'[g].status = "rolled_back" /\ gens'[g].receipts = r
  BY <1>4, <1>7, SetStatusReceipts DEF GenWent
<1>8. \/ gens' = gens
      \/ /\ GenWent(g, {"status", "receipts"}) /\ gens'[g].status = "rolled_back"
         /\ gens'[g].receipts = gens[g].receipts \cup {"rollback"}
  BY <1>5, <1>6, <1>7
<1> QED BY <1>1, <1>2, <1>3, <1>8 DEF g

LEMMA TakeDoes ==
  ASSUME Shaped, NEW w \in Workers, Take(w)
  PROVE  \/ Left(w)
         \/ /\ Went(w, {"pc"}) /\ work'[w].pc = "prove"
            /\ Acquirable(work[w].gen) /\ gens[work[w].gen].status = "recovery_required"
BY GoWent, LeaveLeft DEF Take, Pcs, Guarded, Shaped

LEMMA ProveDoes ==
  ASSUME Shaped, NEW w \in Workers, Prove(w)
  PROVE  \/ Left(w)
         \/ Went(w, {"pc"}) /\ work'[w].pc = "restore" /\ Proved(work[w].gen)
BY GoWent, LeaveLeft DEF Prove, Pcs, Guarded, Shaped

LEMMA RestoreDoes ==
  ASSUME Shaped, NEW w \in Workers, Restore(w)
  PROVE  \/ /\ adapter = "docker" /\ Went(w, {"pc", "view", "left"}) /\ work'[w].pc = "connect"
            /\ work'[w].view = cfg
            /\ work'[w].left = {l \in Links : gens[work[w].gen].snap[l].up}
         \/ /\ adapter # "docker" /\ Went(w, {"pc"}) /\ work'[w].pc = "resolve"
            /\ cfg = gens[work[w].gen].snap
         \/ /\ adapter # "docker" /\ Went(w, {"pc", "view"}) /\ work'[w].pc = "submit"
            /\ work'[w].view = cfg /\ cfg = Isolated(gens[work[w].gen].snap)
         \/ adapter # "docker" /\ Broken(w)
<1> DEFINE snap == gens[work[w].gen].snap
<1> DEFINE s == {l \in Links : snap[l].up}
<1>0. /\ work \in [Workers -> WorkRecords] /\ cfg \in Configs \cup {None} /\ s \in SUBSET Links
      /\ "connect" \in Pcs /\ "resolve" \in Pcs /\ "submit" \in Pcs
  BY DEF Shaped, Pcs, Guarded
<1>1. \/ adapter = "docker" /\ work' = WithPcViewLeft(work, w, "connect", cfg, s)
      \/ adapter # "docker" /\ cfg = snap /\ Go(w, "resolve")
      \/ adapter # "docker" /\ cfg = Isolated(snap) /\ work' = WithPcView(work, w, "submit", cfg)
      \/ adapter # "docker" /\ Broken(w)
  BY DEF Restore, Restored, RollbackNeeded, WithPcViewLeft, WithPcView
<1>2. s = {l \in Links : snap[l].up}
  OBVIOUS
<1> HIDE DEF s, snap
<1>3. ASSUME work' = WithPcViewLeft(work, w, "connect", cfg, s)
      PROVE  /\ Went(w, {"pc", "view", "left"}) /\ work'[w].pc = "connect"
             /\ work'[w].view = cfg /\ work'[w].left = s
  BY <1>0, <1>3, SetPcViewLeft DEF Went
<1>4. ASSUME work' = WithPcView(work, w, "submit", cfg)
      PROVE  Went(w, {"pc", "view"}) /\ work'[w].pc = "submit" /\ work'[w].view = cfg
  BY <1>0, <1>4, SetPcView DEF Went
<1>5. ASSUME Go(w, "resolve")
      PROVE  Went(w, {"pc"}) /\ work'[w].pc = "resolve"
  BY <1>0, <1>5, GoWent
<1>6. \/ /\ adapter = "docker" /\ Went(w, {"pc", "view", "left"}) /\ work'[w].pc = "connect"
         /\ work'[w].view = cfg /\ work'[w].left = {l \in Links : snap[l].up}
      \/ /\ adapter # "docker" /\ Went(w, {"pc"}) /\ work'[w].pc = "resolve" /\ cfg = snap
      \/ /\ adapter # "docker" /\ Went(w, {"pc", "view"}) /\ work'[w].pc = "submit"
         /\ work'[w].view = cfg /\ cfg = Isolated(snap)
      \/ adapter # "docker" /\ Broken(w)
  BY <1>1, <1>2, <1>3, <1>4, <1>5
<1> QED BY <1>6 DEF snap

LEMMA ConnectDoes ==
  ASSUME Shaped, NEW w \in Workers, Connect(w)
  PROVE  \/ /\ Went(w, {"pc"}) /\ work'[w].pc = "readback"
            /\ UNCHANGED <<cfg, cut, lifted, faults>>
         \/ /\ Went(w, {"left", "bad"}) /\ work'[w].left \subseteq work[w].left
            /\ faults' \in 0..MaxFaults
            /\ \/ UNCHANGED <<cfg, cut, lifted>>
               \/ \E l \in work[w].left :
                    Becomes([cfg EXCEPT ![l] = gens[work[w].gen].snap[l]], work[w].gen)
<1>0. "readback" \in Pcs /\ work \in [Workers -> WorkRecords]
  BY DEF Pcs, Guarded, Shaped
<1>1. CASE work[w].left = {}
  BY <1>0, <1>1, GoWent DEF Connect
<1>2. CASE work[w].left # {}
  <2> DEFINE snap == gens[work[w].gen].snap
  <2>1. PICK l \in work[w].left : \E effect, ok \in BOOLEAN :
          /\ IF (~work[w].view[l].up /\ ~cfg[l].up) /\ effect
             THEN Becomes([cfg EXCEPT ![l] = snap[l]], work[w].gen)
             ELSE UNCHANGED <<cfg, cut, lifted>>
          /\ IF (~work[w].view[l].up /\ ~cfg[l].up) /\ ~ok THEN Fault ELSE UNCHANGED faults
          /\ work' = [work EXCEPT ![w].left = @ \ {l},
                                  ![w].bad = @ \/ IF work[w].view[l].up
                                                  THEN work[w].view[l] # snap[l] ELSE ~ok]
    BY <1>2, ZenonT(60) DEF Connect
  <2>2. PICK effect \in BOOLEAN, ok \in BOOLEAN :
          /\ IF (~work[w].view[l].up /\ ~cfg[l].up) /\ effect
             THEN Becomes([cfg EXCEPT ![l] = snap[l]], work[w].gen)
             ELSE UNCHANGED <<cfg, cut, lifted>>
          /\ IF (~work[w].view[l].up /\ ~cfg[l].up) /\ ~ok THEN Fault ELSE UNCHANGED faults
          /\ work' = [work EXCEPT ![w].left = @ \ {l},
                                  ![w].bad = @ \/ IF work[w].view[l].up
                                                  THEN work[w].view[l] # snap[l] ELSE ~ok]
    BY <2>1
  <2>3. faults' \in 0..MaxFaults
    BY <2>2, BoundsAssumption DEF Fault, Shaped
  <2>4. \/ UNCHANGED <<cfg, cut, lifted>>
        \/ \E k \in work[w].left : Becomes([cfg EXCEPT ![k] = snap[k]], work[w].gen)
    BY <2>2
  <2> DEFINE s == work[w].left \ {l}
  <2> DEFINE b == work[w].bad \/ IF work[w].view[l].up
                                 THEN work[w].view[l] # snap[l] ELSE ~ok
  <2>5. s \in SUBSET Links /\ s \subseteq work[w].left
    BY <1>0 DEF WorkRecords
  <2>6. b \in BOOLEAN
    OBVIOUS
  <2>7. work' = WithLeftBad(work, w, s, b)
    BY <2>2 DEF WithLeftBad
  <2> HIDE DEF s, b
  <2>8. Went(w, {"left", "bad"}) /\ work'[w].left = s
    BY <1>0, <2>5, <2>6, <2>7, SetLeftBad DEF Went
  <2> QED BY <2>3, <2>4, <2>5, <2>8
<1> QED BY <1>1, <1>2

LEMMA ReadBackDoes ==
  ASSUME Shaped, NEW w \in Workers, ReadBack(w)
  PROVE  \/ work[w].mode = "apply" /\ Went(w, {"pc"}) /\ work'[w].pc = "fail"
         \/ /\ work[w].mode # "apply" /\ Went(w, {"pc"}) /\ work'[w].pc = "resolve"
            /\ \A l \in Links : gens[work[w].gen].snap[l].up => cfg[l] = gens[work[w].gen].snap[l]
         \/ work[w].mode # "apply" /\ Broken(w)
BY GoWent DEF ReadBack, Pcs, Guarded, Shaped

LEMMA ApprovalDoes ==
  ASSUME Shaped, NEW w \in Workers, Withdraw(w) \/ WindowEnds(w)
  PROVE  /\ Went(w, {"approval"})
         /\ work'[w].approval = "withdrawn" => work[w].pc \notin Guarded
<1>1. CASE Withdraw(w)
  <2>1. work' = [work EXCEPT ![w].approval = "withdrawn"]
    BY <1>1 DEF Withdraw
  <2>2. Went(w, {"approval"})
    BY <2>1, SetApproval DEF Went, Shaped
  <2> QED BY <1>1, <2>2 DEF Withdraw, ApprovalLocked
<1>2. CASE WindowEnds(w)
  <2>1. work' = [work EXCEPT ![w].approval = "expired"]
    BY <1>2 DEF WindowEnds
  <2>2. Went(w, {"approval"}) /\ work'[w].approval = "expired"
    BY <2>1, SetApproval DEF Went, Shaped
  <2> QED BY <2>2
<1> QED BY <1>1, <1>2

LEMMA PreflightDoes ==
  ASSUME Shaped, NEW w \in Workers, NEW r \in Requests, Preflight(w, r)
  PROVE  /\ r \in Quarantines /\ r \notin claimed /\ work[w].pc = "idle"
         /\ \/ UNCHANGED work
            \/ /\ Begun(w, "prepare", "apply", r) /\ work'[w].req = r /\ work'[w].view = cfg
               /\ ~Quarantined(cfg)
<1>1. r \in Quarantines /\ r \notin claimed /\ work[w].pc = "idle"
  BY DEF Preflight, Claimable
<1>2. work \in [Workers -> WorkRecords] /\ cfg \in Configs
  BY DEF Shaped
<1>3. CASE ~Quarantined(cfg)
  <2>1. work' = [work EXCEPT ![w] = [Idle EXCEPT !.pc = "prepare", !.mode = "apply",
                                                 !.gen = r, !.req = r, !.view = cfg]]
    BY <1>3 DEF Preflight
  <2>2. Begun(w, "prepare", "apply", r) /\ work'[w].req = r /\ work'[w].view = cfg
    BY <1>1, <1>2, <2>1, PreflightBegun
  <2> QED BY <1>1, <1>3, <2>2
<1> QED BY <1>1, <1>3 DEF Preflight

LEMMA FindActiveDoes ==
  ASSUME Shaped, NEW w \in Workers, NEW r \in Requests, FindActive(w, r)
  PROVE  /\ r \in Reconciles /\ work[w].pc = "idle"
         /\ UNCHANGED work \/ \E g \in Quarantines : Begun(w, "take", "reconcile", g)
<1>1. work \in [Workers -> WorkRecords]
  BY DEF Shaped
<1>2. ASSUME NEW g \in Quarantines,
             work' = [work EXCEPT ![w] = [Idle EXCEPT !.pc = "take", !.mode = "reconcile",
                                                      !.gen = g, !.req = r]]
      PROVE  Begun(w, "take", "reconcile", g)
  BY <1>1, <1>2, TakeBegun
<1>3. \/ UNCHANGED work
      \/ \E g \in Quarantines :
           work' = [work EXCEPT ![w] = [Idle EXCEPT !.pc = "take", !.mode = "reconcile",
                                                    !.gen = g, !.req = r]]
  BY DEF FindActive
<1> QED BY <1>2, <1>3 DEF FindActive, Claimable

LEMMA RecoverDoes ==
  ASSUME Shaped, NEW w \in Workers, NEW g \in Quarantines, NEW m \in {"sweep", "kill"},
         RecoverLocked(w, g, m)
  PROVE  \/ /\ gens[g].status = "completed" /\ UNCHANGED gens
            /\ Begun(w, "restore", m, g) /\ work'[w].req = None
         \/ /\ gens[g].status = "prepared" /\ UNCHANGED work
            /\ GenWent(g, {"status"}) /\ gens'[g].status = "recovery_required"
         \/ UNCHANGED <<gens, work>>
<1>1. work \in [Workers -> WorkRecords] /\ gens \in [Quarantines -> Generations]
  BY DEF Shaped
<1>2. CASE gens[g].status = "completed"
  <2>1. work' = [work EXCEPT ![w] = [Idle EXCEPT !.pc = "restore", !.mode = m, !.gen = g]]
        /\ UNCHANGED gens
    BY <1>2 DEF RecoverLocked
  <2> QED BY <1>1, <1>2, <2>1, RecoverBegun
<1>3. CASE gens[g].status = "prepared"
  <2>1. gens' = [gens EXCEPT ![g].status = "recovery_required"] /\ UNCHANGED work
    BY <1>3 DEF RecoverLocked
  <2>2. "recovery_required" \in Statuses
    BY DEF Statuses, Active
  <2>3. GenWent(g, {"status"}) /\ gens'[g].status = "recovery_required"
    BY <1>1, <2>1, <2>2, SetStatus DEF GenWent
  <2> QED BY <1>3, <2>1, <2>3
<1>4. CASE gens[g].status \notin {"completed", "prepared"}
  BY <1>4 DEF RecoverLocked
<1> QED BY <1>2, <1>3, <1>4

-----------------------------------------------------------------------------
(* Types. *)

LEMMA SameTypes ==
  ASSUME adapter' = adapter
  PROVE  /\ Links' = Links /\ Configs' = Configs /\ WorkRecords' = WorkRecords
         /\ TaskRecords' = TaskRecords /\ Generations' = Generations
<1>1. Links' = Links
  BY DEF Links
<1>2. Configs' = Configs
  BY <1>1 DEF Configs
<1> QED BY <1>1, <1>2 DEF WorkRecords, TaskRecords, Generations

TargetTyped ==
  /\ cfg' \in Configs /\ cut' \in [Links -> Quarantines \cup {None}]
  /\ lifted' \subseteq Quarantines \X Quarantines

LEMMA StillShaped ==
  ASSUME Shaped, adapter' = adapter, cfg' \in Configs, gens' \in [Quarantines -> Generations],
         tasks' \in [Tasks -> TaskRecords], work' \in [Workers -> WorkRecords],
         claimed' \subseteq Requests, kills' \subseteq Quarantines, faults' \in 0..MaxFaults,
         latest' \in 1..MaxVer, cut' \in [Links -> Quarantines \cup {None}],
         lifted' \subseteq Quarantines \X Quarantines
  PROVE  Shaped'
BY SameTypes DEF Shaped

\* What a guarded executor finds in its generation's row.
LEMMA GuardedRow ==
  ASSUME InHand, Rows, Locked, NEW w \in Workers, work[w].pc \in Guarded
  PROVE  /\ work[w].gen \in Quarantines /\ gens[work[w].gen].status \in Active
         /\ Snap(w) \in Configs /\ ~Quarantined(Snap(w))
<1>1. work[w].pc # "idle" /\ "none" \notin Active
  BY DEF Guarded, Active
<1>2. work[w].gen \in Quarantines
  BY <1>1 DEF InHand, Handy
<1> QED BY <1>1, <1>2 DEF Rows, Locked, Snap

LEMMA ShapedStep ==
  ASSUME IInv, [Next]_vars
  PROVE  Shaped'
<1> USE DEF IInv
<1>0. Shaped /\ InHand
  OBVIOUS
<1>1. ASSUME NEW w \in Workers, Step(w) PROVE Shaped'
  <2> SUFFICES ASSUME Shaped, InHand PROVE Shaped'
    BY <1>0
  <2>1. CASE Prepare(w)
    BY <2>1, PrepareDoes, StillShaped DEF Shaped, Prepare, Left, Went, SameBut, GenWent, GenBut
  <2>2. CASE Guard(w)
    BY <2>2, GuardDoes, StillShaped DEF Shaped, Guard, Left, Went, SameBut
  <2>3. CASE Check(w)
    BY <2>3, CheckDoes, StillShaped DEF Shaped, Check, Went, SameBut
  <2>4. CASE Disconnect(w)
    <3>1. work' \in [Workers -> WorkRecords] /\ faults' \in 0..MaxFaults
      BY <2>4, DisconnectDoes DEF Shaped, Went, SameBut
    <3>2. work[w].left \subseteq Links /\ work[w].gen \in Quarantines
      BY <2>4 DEF Disconnect, InHand, Handy, Shaped, WorkRecords
    <3>3. TargetTyped
      <4>1. CASE UNCHANGED <<cfg, cut, lifted>>
        BY <4>1 DEF Shaped, TargetTyped
      <4>2. ASSUME NEW l \in work[w].left, Becomes([cfg EXCEPT ![l] = Down], work[w].gen)
            PROVE  TargetTyped
        <5>1. [cfg EXCEPT ![l] = Down] \in Configs
          BY <3>2, DownIsConfig DEF Shaped
        <5> QED BY <2>4, <3>2, <4>2, <5>1, BecomesTyped, SameTypes DEF TargetTyped, Disconnect
      <4> QED BY <2>4, <4>1, <4>2, DisconnectDoes
    <3> QED BY <2>4, <3>1, <3>3, StillShaped DEF Shaped, TargetTyped, Disconnect
  <2>5. CASE Submit(w)
    <3>1. work' \in [Workers -> WorkRecords] /\ faults' \in 0..MaxFaults
      BY <2>5, SubmitDoes, BrokenWent DEF Shaped, Went, Left, SameBut
    <3>2. /\ work[w].gen \in Quarantines /\ work[w].view \in Configs
          /\ Wanted(w) \in Configs \cup {None}
      <4>1. work[w].gen \in Quarantines /\ work[w].view \in Configs
        BY <2>5 DEF Submit, InHand, Handy
      <4>2. gens[work[w].gen].snap \in Configs \cup {None}
        BY <4>1 DEF Shaped, Generations
      <4> QED BY <4>1, <4>2, IsolatedIsConfig DEF Wanted
    <3>3. tasks' \in [Tasks -> TaskRecords]
      <4>1. ASSUME NEW k \in Tasks,
                   tasks' = [tasks EXCEPT ![k] = [state |-> "running", gen |-> work[w].gen,
                                                  digest |-> work[w].view, to |-> Wanted(w)]]
            PROVE  tasks' \in [Tasks -> TaskRecords]
        <5>1. [state |-> "running", gen |-> work[w].gen, digest |-> work[w].view,
               to |-> Wanted(w)] \in TaskRecords
          BY <3>2 DEF TaskRecords
        <5> QED BY <4>1, <5>1 DEF Shaped
      <4> QED BY <2>5, <4>1, SubmitDoes DEF Shaped
    <3> QED BY <2>5, <3>1, <3>3, StillShaped DEF Shaped, Submit
  <2>6. CASE Await(w)
    BY <2>6, AwaitDoes, BrokenWent, StillShaped DEF Shaped, Await, Left, Went, SameBut
  <2>7. CASE Verify(w)
    BY <2>7, VerifyDoes, StillShaped DEF Shaped, Verify, Went, SameBut
  <2>8. CASE Finish(w)
    BY <2>8, FinishDoes, StillShaped DEF Shaped, Finish, Left, GenWent, GenBut
  <2>9. CASE Fail(w)
    BY <2>9, FailDoes, StillShaped DEF Shaped, Fail, Left, GenWent, GenBut
  <2>10. CASE Take(w)
    BY <2>10, TakeDoes, StillShaped DEF Shaped, Take, Left, Went, SameBut
  <2>11. CASE Prove(w)
    BY <2>11, ProveDoes, StillShaped DEF Shaped, Prove, Left, Went, SameBut
  <2>12. CASE Restore(w)
    BY <2>12, RestoreDoes, BrokenWent, StillShaped DEF Shaped, Restore, Left, Went, SameBut
  <2>13. CASE Connect(w)
    <3>1. work' \in [Workers -> WorkRecords] /\ faults' \in 0..MaxFaults
      BY <2>13, ConnectDoes DEF Shaped, Went, SameBut
    <3>2. work[w].left \subseteq Links /\ work[w].gen \in Quarantines /\ Snap(w) \in Configs
      BY <2>13, GuardedRow DEF Connect, Guarded, Shaped, WorkRecords
    <3>3. TargetTyped
      <4>1. CASE UNCHANGED <<cfg, cut, lifted>>
        BY <4>1 DEF Shaped, TargetTyped
      <4>2. ASSUME NEW l \in work[w].left,
                   Becomes([cfg EXCEPT ![l] = gens[work[w].gen].snap[l]], work[w].gen)
            PROVE  TargetTyped
        <5>1. [cfg EXCEPT ![l] = gens[work[w].gen].snap[l]] \in Configs
          BY <3>2, LinkIsConfig DEF Shaped, Snap
        <5> QED BY <2>13, <3>2, <4>2, <5>1, BecomesTyped, SameTypes DEF TargetTyped, Connect
      <4> QED BY <2>13, <4>1, <4>2, ConnectDoes
    <3> QED BY <2>13, <3>1, <3>3, StillShaped DEF Shaped, TargetTyped, Connect
  <2>14. CASE ReadBack(w)
    BY <2>14, ReadBackDoes, BrokenWent, StillShaped DEF Shaped, ReadBack, Left, Went, SameBut
  <2>15. CASE Resolve(w)
    BY <2>15, ResolveDoes, StillShaped DEF Shaped, Resolve, Left, GenWent, GenBut
  <2>16. CASE ReadFails(w)
    <3>1. faults' \in 0..MaxFaults
      BY <2>16, BoundsAssumption DEF ReadFails, Fault, Shaped
    <3>2. work' \in [Workers -> WorkRecords]
      BY <2>16, BrokenWent DEF Shaped, ReadFails, Left, Went, SameBut
    <3> QED BY <2>16, <3>1, <3>2, StillShaped DEF Shaped, ReadFails
  <2> QED BY <1>1, <2>1, <2>2, <2>3, <2>4, <2>5, <2>6, <2>7, <2>8, <2>9, <2>10, <2>11, <2>12,
             <2>13, <2>14, <2>15, <2>16 DEF Step
<1>2. ASSUME NEW w \in Workers, Crash(w) PROVE Shaped'
  <2>1. faults' \in 0..MaxFaults
    BY <1>2, BoundsAssumption DEF Crash, Fault, Shaped
  <2> QED BY <1>2, <2>1, LeaveLeft, StillShaped DEF Shaped, Crash, Left
<1>3. ASSUME NEW w \in Workers, Withdraw(w) \/ WindowEnds(w) PROVE Shaped'
  BY <1>3, ApprovalDoes, StillShaped DEF Shaped, Withdraw, WindowEnds, Went, SameBut
<1>4. ASSUME NEW w \in Workers, NEW r \in Requests, Preflight(w, r) PROVE Shaped'
  <2>1. claimed' \subseteq Requests
    BY <1>4 DEF Preflight, Shaped
  <2> QED BY <1>4, <2>1, PreflightDoes, StillShaped DEF Shaped, Preflight, Begun
<1>5. ASSUME NEW w \in Workers, NEW r \in Requests, FindActive(w, r) PROVE Shaped'
  <2>1. claimed' \subseteq Requests
    BY <1>5 DEF FindActive, Shaped
  <2> QED BY <1>5, <2>1, FindActiveDoes, StillShaped DEF Shaped, FindActive, Begun
<1>6. ASSUME NEW w \in Workers, NEW g \in Quarantines, Sweep(w, g) PROVE Shaped'
  BY <1>6, RecoverDoes, StillShaped DEF Shaped, Sweep, Begun, GenWent, GenBut
<1>7. ASSUME NEW w \in Workers, NEW g \in Quarantines, KillSwitch(w, g) PROVE Shaped'
  <2>1. kills' \subseteq Quarantines
    BY <1>7 DEF KillSwitch, Shaped
  <2> QED BY <1>7, <2>1, RecoverDoes, StillShaped DEF Shaped, KillSwitch, Begun, GenWent, GenBut
<1>8. ASSUME NEW g \in Quarantines, RequestKill(g) PROVE Shaped'
  BY <1>8, StillShaped DEF Shaped, RequestKill
<1>9. ASSUME NEW g \in Quarantines, Expire(g) PROVE Shaped'
  BY <1>9, SetExpired, StillShaped DEF Shaped, Expire, GenBut
<1>10. ASSUME NEW k \in Tasks, RunTask(k) PROVE Shaped'
  <2>1. tasks' \in [Tasks -> TaskRecords]
    BY <1>10 DEF RunTask, Shaped, TaskRecords
  <2>2. tasks[k].gen \in Quarantines /\ tasks[k].to \in Configs
    BY <1>10 DEF RunTask, Planned
  <2>3. TargetTyped
    <3>1. CASE UNCHANGED <<cfg, cut, lifted>>
      BY <3>1 DEF Shaped, TargetTyped
    <3>2. CASE Becomes(tasks[k].to, tasks[k].gen)
      BY <1>10, <2>2, <3>2, BecomesTyped, SameTypes DEF TargetTyped, RunTask
    <3> QED BY <1>10, <3>1, <3>2 DEF RunTask
  <2> QED BY <1>10, <2>1, <2>3, StillShaped DEF Shaped, TargetTyped, RunTask
<1>11. ASSUME NEW l \in Links, OperatorChange(l) PROVE Shaped'
  <2>1. PICK up \in BOOLEAN, v \in {cfg[l].ver, latest, latest + 1} :
          /\ v <= MaxVer
          /\ cfg' = [cfg EXCEPT ![l] = IF adapter = "docker" /\ ~up THEN Down
                                       ELSE [ver |-> v, up |-> up]]
          /\ cut' = [cut EXCEPT ![l] = IF up \/ cfg[l].up THEN None ELSE @]
          /\ latest' = IF v = latest + 1 THEN v ELSE latest
    BY <1>11 DEF OperatorChange
  <2>2. /\ latest \in 1..MaxVer /\ cfg[l].ver \in 0..MaxVer /\ cfg \in Configs
        /\ cut \in [Links -> Quarantines \cup {None}]
    BY DEF Shaped, Configs
  <2>3. v \in 0..MaxVer /\ latest' \in 1..MaxVer
    BY <2>1, <2>2, BoundsAssumption
  <2>4. cfg' \in Configs
    <3>1. CASE adapter = "docker" /\ ~up
      BY <2>1, <2>2, <3>1, DownIsConfig
    <3>2. CASE ~(adapter = "docker" /\ ~up)
      <4>1. cfg' = [cfg EXCEPT ![l] = [ver |-> v, up |-> up]]
        BY <2>1, <3>2
      <4>2. [ver |-> v, up |-> up] \in [ver : 0..MaxVer, up : BOOLEAN]
        BY <2>3
      <4> QED BY <2>2, <4>1, <4>2 DEF Configs
    <3> QED BY <3>1, <3>2
  <2>5. cut' \in [Links -> Quarantines \cup {None}]
    BY <2>1, <2>2
  <2>6. faults' \in 0..MaxFaults
    BY <1>11, BoundsAssumption DEF OperatorChange, Fault, Shaped
  <2> QED BY <1>11, <2>3, <2>4, <2>5, <2>6, StillShaped DEF Shaped, OperatorChange
<1>12. CASE UNCHANGED vars
  BY <1>12, StillShaped DEF Shaped, vars
<1> QED BY <1>1, <1>2, <1>3, <1>4, <1>5, <1>6, <1>7, <1>8, <1>9, <1>10, <1>11, <1>12 DEF Next

-----------------------------------------------------------------------------
(* What an executor has in hand. *)

LEMMA StillInHand ==
  ASSUME InHand, adapter' = adapter, NEW w \in Workers, Handy(w)',
         \A v \in Workers : v # w => work'[v] = work[v]
  PROVE  InHand'
<1>1. Configs' = Configs
  BY SameTypes
<1>2. ASSUME NEW v \in Workers, v # w PROVE Handy(v)'
  <2>1. Handy(v) /\ work'[v] = work[v]
    BY <1>2 DEF InHand
  <2> QED BY <1>1, <2>1 DEF Handy
<1> QED BY <1>2 DEF InHand

LEMMA IdleHandy ==
  ASSUME NEW w \in Workers, Left(w)
  PROVE  Handy(w)'
BY DEF Left, Handy, Idle

LEMMA BrokenHandy ==
  ASSUME Shaped, NEW w \in Workers, Handy(w), Broken(w), work[w].pc # "idle",
         adapter' = adapter, work[w].mode = "apply" => work[w].upid = 0 \/ work[w].pc = "verify"
  PROVE  Handy(w)' /\ \A v \in Workers : v # w => work'[v] = work[v]
BY BrokenWent, IdleHandy DEF Handy, Left, Went, SameBut, Shaped

LEMMA InHandStep ==
  ASSUME IInv, [Next]_vars
  PROVE  InHand'
<1>0. Shaped /\ InHand
  BY DEF IInv
<1>1. ASSUME NEW w \in Workers, Step(w) PROVE InHand'
  <2> SUFFICES Handy(w)' /\ adapter' = adapter /\ \A v \in Workers : v # w => work'[v] = work[v]
    BY <1>0, StillInHand
  <2>0. Handy(w) /\ cfg \in Configs /\ work \in [Workers -> WorkRecords]
    BY <1>0 DEF InHand, Shaped
  <2>1. CASE Prepare(w)
    BY <1>0, <2>0, <2>1, PrepareDoes, IdleHandy DEF Handy, Prepare, Left, Went, SameBut
  <2>2. CASE Guard(w)
    BY <1>0, <2>0, <2>2, GuardDoes, IdleHandy DEF Handy, Guard, Left, Went, SameBut
  <2>3. CASE Check(w)
    BY <1>0, <2>0, <2>3, CheckDoes, SameTypes DEF Handy, Check, Went, SameBut
  <2>4. CASE Disconnect(w)
    BY <1>0, <2>0, <2>4, DisconnectDoes DEF Handy, Disconnect, Went, SameBut
  <2>5. CASE Submit(w)
    BY <1>0, <2>0, <2>5, SubmitDoes, BrokenHandy DEF Handy, Submit, Went, SameBut
  <2>6. CASE Await(w)
    BY <1>0, <2>0, <2>6, AwaitDoes, BrokenHandy DEF Handy, Await, Went, SameBut
  <2>7. CASE Verify(w)
    BY <1>0, <2>0, <2>7, VerifyDoes DEF Handy, Verify, Went, SameBut
  <2>8. CASE Finish(w)
    BY <1>0, <2>8, FinishDoes, IdleHandy DEF Finish, Left
  <2>9. CASE Fail(w)
    BY <1>0, <2>9, FailDoes, IdleHandy DEF Fail, Left
  <2>10. CASE Take(w)
    BY <1>0, <2>0, <2>10, TakeDoes, IdleHandy DEF Handy, Take, Left, Went, SameBut
  <2>11. CASE Prove(w)
    BY <1>0, <2>0, <2>11, ProveDoes, IdleHandy DEF Handy, Prove, Left, Went, SameBut
  <2>12. CASE Restore(w)
    BY <1>0, <2>0, <2>12, RestoreDoes, BrokenHandy, SameTypes DEF Handy, Restore, Went, SameBut
  <2>13. CASE Connect(w)
    BY <1>0, <2>0, <2>13, ConnectDoes DEF Handy, Connect, Went, SameBut
  <2>14. CASE ReadBack(w)
    BY <1>0, <2>0, <2>14, ReadBackDoes, BrokenHandy DEF Handy, ReadBack, Went, SameBut
  <2>15. CASE Resolve(w)
    BY <1>0, <2>15, ResolveDoes, IdleHandy DEF Resolve, Left
  <2>16. CASE ReadFails(w)
    BY <1>0, <2>0, <2>16, BrokenHandy DEF Handy, ReadFails
  <2> QED BY <1>1, <2>1, <2>2, <2>3, <2>4, <2>5, <2>6, <2>7, <2>8, <2>9, <2>10, <2>11, <2>12,
             <2>13, <2>14, <2>15, <2>16 DEF Step
<1>2. ASSUME NEW w \in Workers, Crash(w) PROVE InHand'
  BY <1>0, <1>2, LeaveLeft, IdleHandy, StillInHand DEF Shaped, Crash, Left
<1>3. ASSUME NEW w \in Workers, Withdraw(w) \/ WindowEnds(w) PROVE InHand'
  <2>1. /\ adapter' = adapter /\ Configs' = Configs /\ Handy(w)
        /\ \A v \in Workers : v # w => work'[v] = work[v]
    BY <1>0, <1>3, ApprovalDoes, SameTypes DEF Withdraw, WindowEnds, InHand, Went, SameBut
  <2>2. Handy(w)'
    BY <1>0, <1>3, <2>1, ApprovalDoes DEF Handy, Went, SameBut
  <2> QED BY <1>0, <2>1, <2>2, StillInHand
<1>4. ASSUME UNCHANGED <<adapter, work>> PROVE InHand'
  BY <1>0, <1>4, SameTypes DEF InHand, Handy
<1>6. ASSUME NEW w \in Workers, NEW p \in {"restore", "take", "prepare"},
             NEW m \in {"sweep", "kill", "reconcile", "apply"}, NEW g \in Quarantines,
             Begun(w, p, m, g), adapter' = adapter, p = "take" <=> m = "reconcile",
             p = "prepare" <=> m = "apply",
             p = "prepare" => work'[w].req = g /\ work'[w].view \in Configs
      PROVE  InHand'
  <2>1. Handy(w)' /\ \A v \in Workers : v # w => work'[v] = work[v]
    BY <1>6, SameTypes DEF Begun, Handy
  <2> QED BY <1>0, <1>6, <2>1, StillInHand
<1>7. ASSUME NEW w \in Workers, NEW r \in Requests, Preflight(w, r) PROVE InHand'
  <2>1. CASE UNCHANGED work
    BY <1>4, <1>7, <2>1 DEF Preflight
  <2>2. CASE Begun(w, "prepare", "apply", r) /\ work'[w].req = r /\ work'[w].view = cfg
    <3>1. r \in Quarantines /\ adapter' = adapter /\ cfg \in Configs
      BY <1>0, <1>7, PreflightDoes DEF Preflight, Shaped
    <3> QED BY <1>6, <2>2, <3>1
  <2> QED BY <1>0, <1>7, <2>1, <2>2, PreflightDoes
<1>8. ASSUME NEW w \in Workers, NEW r \in Requests, FindActive(w, r) PROVE InHand'
  BY <1>0, <1>4, <1>6, <1>8, FindActiveDoes DEF FindActive
<1>9. ASSUME NEW w \in Workers, NEW g \in Quarantines, Sweep(w, g) PROVE InHand'
  BY <1>0, <1>4, <1>6, <1>9, RecoverDoes DEF Sweep
<1>10. ASSUME NEW w \in Workers, NEW g \in Quarantines, KillSwitch(w, g) PROVE InHand'
  BY <1>0, <1>4, <1>6, <1>10, RecoverDoes DEF KillSwitch
<1>11. ASSUME \/ \E g \in Quarantines : RequestKill(g) \/ Expire(g)
              \/ \E k \in Tasks : RunTask(k)
              \/ \E l \in Links : OperatorChange(l)
              \/ UNCHANGED vars
       PROVE  InHand'
  BY <1>4, <1>11 DEF RequestKill, Expire, RunTask, OperatorChange, vars
<1> QED BY <1>1, <1>2, <1>3, <1>7, <1>8, <1>9, <1>10, <1>11 DEF Next

-----------------------------------------------------------------------------
(* The rows, the unique index and the row locks. *)

\* Steps that leave the rows alone.
Aside ==
  \/ \E w \in Workers : \/ Guard(w) \/ Check(w) \/ Disconnect(w) \/ Submit(w) \/ Await(w)
                        \/ Verify(w) \/ Take(w) \/ Prove(w) \/ Restore(w) \/ Connect(w)
                        \/ ReadBack(w) \/ ReadFails(w) \/ Crash(w) \/ Withdraw(w) \/ WindowEnds(w)
  \/ \E w \in Workers, r \in Requests : Preflight(w, r) \/ FindActive(w, r)
  \/ \E g \in Quarantines : RequestKill(g)
  \/ \E k \in Tasks : RunTask(k)
  \/ \E l \in Links : OperatorChange(l)
  \/ UNCHANGED vars

LEMMA AsideKeepsRows ==
  ASSUME Aside
  PROVE  UNCHANGED <<adapter, gens>> /\ claimed \subseteq claimed'
BY DEF Aside, Guard, Check, Disconnect, Submit, Await, Verify, Take, Prove, Restore, Connect,
       ReadBack, ReadFails, Crash, Withdraw, WindowEnds, Preflight, FindActive, RequestKill,
       RunTask, OperatorChange, vars

\* What a step can do to the rows.
RowMoves ==
  \/ gens' = gens
  \/ \E g \in Quarantines : GenWent(g, {"expired"})
  \/ \E w \in Workers :
       /\ work[w].pc = "prepare" /\ MayPrepare(w) /\ GenWent(work[w].gen, {"status", "snap"})
       /\ gens'[work[w].gen].status = "prepared" /\ gens'[work[w].gen].snap = work[w].view
  \/ \E w \in Workers :
       /\ work[w].pc = "finish" /\ GenWent(work[w].gen, {"status", "upid", "receipts"})
       /\ gens'[work[w].gen].status = "completed"
       /\ gens'[work[w].gen].receipts = gens[work[w].gen].receipts \cup {"apply"}
  \/ \E w \in Workers :
       /\ work[w].pc = "fail" /\ GenWent(work[w].gen, {"status", "upid"})
       /\ gens'[work[w].gen].status = "recovery_required"
       /\ work[w].upid = 0 => gens'[work[w].gen].upid = gens[work[w].gen].upid
  \/ \E w \in Workers :
       /\ work[w].pc = "resolve" /\ GenWent(work[w].gen, {"status", "receipts"})
       /\ gens'[work[w].gen].status = "rolled_back"
       /\ gens'[work[w].gen].receipts = gens[work[w].gen].receipts \cup {"rollback"}
  \/ \E g \in Quarantines :
       /\ gens[g].status = "prepared" /\ Acquirable(g) /\ GenWent(g, {"status"})
       /\ gens'[g].status = "recovery_required"

LEMMA RowsMove ==
  ASSUME Shaped, InHand, [Next]_vars
  PROVE  adapter' = adapter /\ claimed \subseteq claimed' /\ RowMoves
<1>1. CASE Aside
  BY <1>1, AsideKeepsRows DEF RowMoves
<1>2. ASSUME NEW w \in Workers, Prepare(w) \/ Finish(w) \/ Fail(w) \/ Resolve(w)
      PROVE  adapter' = adapter /\ claimed \subseteq claimed' /\ RowMoves
  <2>1. adapter' = adapter /\ claimed' = claimed
    BY <1>2 DEF Prepare, Finish, Fail, Resolve
  <2>2. CASE Prepare(w)
    BY <2>1, <2>2, PrepareDoes DEF Prepare, RowMoves
  <2>3. CASE Finish(w)
    BY <2>1, <2>3, FinishDoes DEF Finish, RowMoves
  <2>4. CASE Fail(w)
    BY <2>1, <2>4, FailDoes DEF Fail, RowMoves
  <2>5. CASE Resolve(w)
    BY <2>1, <2>5, ResolveDoes DEF Resolve, RowMoves
  <2> QED BY <1>2, <2>2, <2>3, <2>4, <2>5
<1>3. ASSUME NEW w \in Workers, NEW g \in Quarantines, Sweep(w, g) \/ KillSwitch(w, g)
      PROVE  adapter' = adapter /\ claimed \subseteq claimed' /\ RowMoves
  <2>1. adapter' = adapter /\ claimed' = claimed
    BY <1>3 DEF Sweep, KillSwitch
  <2>2. \/ gens' = gens
        \/ \E m \in {"sweep", "kill"} : RecoverLocked(w, g, m) /\ Acquirable(g)
    BY <1>3 DEF Sweep, KillSwitch
  <2> QED BY <2>1, <2>2, RecoverDoes DEF RowMoves
<1>4. ASSUME NEW g \in Quarantines, Expire(g)
      PROVE  adapter' = adapter /\ claimed \subseteq claimed' /\ RowMoves
  <2>1. GenWent(g, {"expired"})
    BY <1>4, SetExpired DEF Expire, GenWent, Shaped
  <2> QED BY <1>4, <2>1 DEF Expire, RowMoves
<1> QED BY <1>1, <1>2, <1>3, <1>4 DEF Next, Step, Aside

LEMMA RowsStep ==
  ASSUME IInv, [Next]_vars
  PROVE  Rows'
<1> USE DEF GenWent, GenBut
<1>0. adapter' = adapter /\ Configs' = Configs /\ claimed \subseteq claimed' /\ RowMoves
  BY RowsMove, SameTypes DEF IInv
<1>1. Rows /\ InHand
  BY DEF IInv
<1>2. CASE gens' = gens
  BY <1>0, <1>1, <1>2 DEF Rows
<1>3. ASSUME NEW g \in Quarantines, GenWent(g, {"expired"}) PROVE Rows'
  BY <1>0, <1>1, <1>3 DEF Rows
<1>4. ASSUME NEW w \in Workers, work[w].pc = "prepare",
             GenWent(work[w].gen, {"status", "snap"}),
             gens'[work[w].gen].status = "prepared", gens'[work[w].gen].snap = work[w].view
      PROVE  Rows'
  <2>1. /\ work[w].gen \in Quarantines /\ work[w].gen \in claimed
        /\ gens[work[w].gen].status = "none"
        /\ work[w].view \in Configs /\ ~Quarantined(work[w].view)
    BY <1>1, <1>4 DEF InHand, Handy, IInv, Appliers, Applies
  <2> QED BY <1>0, <1>1, <1>4, <2>1 DEF Rows
<1>5. ASSUME NEW w \in Workers, work[w].pc = "finish",
             GenWent(work[w].gen, {"status", "upid", "receipts"}),
             gens'[work[w].gen].status = "completed",
             gens'[work[w].gen].receipts = gens[work[w].gen].receipts \cup {"apply"}
      PROVE  Rows'
  <2>1. work[w].gen \in Quarantines /\ gens[work[w].gen].status = "prepared"
    BY <1>1, <1>5 DEF InHand, Handy, IInv, ApplyFenced, Guarded
  <2> QED BY <1>0, <1>1, <1>5, <2>1 DEF Rows
<1>6. ASSUME NEW w \in Workers, work[w].pc = "fail", GenWent(work[w].gen, {"status", "upid"}),
             gens'[work[w].gen].status = "recovery_required"
      PROVE  Rows'
  <2>1. work[w].gen \in Quarantines /\ gens[work[w].gen].status \in Active
    BY <1>1, <1>6 DEF InHand, Handy, IInv, Locked, Guarded
  <2> QED BY <1>0, <1>1, <1>6, <2>1 DEF Rows, Active
<1>7. ASSUME NEW w \in Workers, work[w].pc = "resolve",
             GenWent(work[w].gen, {"status", "receipts"}),
             gens'[work[w].gen].status = "rolled_back",
             gens'[work[w].gen].receipts = gens[work[w].gen].receipts \cup {"rollback"}
      PROVE  Rows'
  <2>1. work[w].gen \in Quarantines /\ gens[work[w].gen].status \in Active
    BY <1>1, <1>7 DEF InHand, Handy, IInv, Locked, Guarded
  <2> QED BY <1>0, <1>1, <1>7, <2>1 DEF Rows, Active
<1>8. ASSUME NEW g \in Quarantines, gens[g].status = "prepared", GenWent(g, {"status"}),
             gens'[g].status = "recovery_required"
      PROVE  Rows'
  BY <1>0, <1>1, <1>8 DEF Rows
<1> QED BY <1>0, <1>2, <1>3, <1>4, <1>5, <1>6, <1>7, <1>8 DEF RowMoves

LEMMA OneActiveStep ==
  ASSUME IInv, [Next]_vars
  PROVE  OneActive'
<1> USE DEF GenWent, GenBut
<1>0. RowMoves /\ OneActive /\ InHand /\ Locked
  BY RowsMove DEF IInv
<1>1. ASSUME \A g \in Quarantines : gens'[g].status \in Active => gens[g].status \in Active
      PROVE  OneActive'
  BY <1>0, <1>1 DEF OneActive
<1>2. ASSUME NEW w \in Workers, work[w].pc = "prepare", MayPrepare(w),
             GenWent(work[w].gen, {"status", "snap"})
      PROVE  OneActive'
  BY <1>2 DEF MayPrepare, OneActive
<1>3. ASSUME NEW w \in Workers, work[w].pc \in {"finish", "fail", "resolve"},
             \A h \in Quarantines : h # work[w].gen => gens'[h] = gens[h]
      PROVE  OneActive'
  <2>1. gens[work[w].gen].status \in Active
    BY <1>0, <1>3 DEF Locked, Guarded
  <2> QED BY <1>1, <1>3, <2>1
<1>4. ASSUME NEW g \in Quarantines, gens[g].status = "prepared", GenWent(g, {"status"})
      PROVE  OneActive'
  BY <1>1, <1>4 DEF Active
<1> QED BY <1>0, <1>1, <1>2, <1>3, <1>4 DEF RowMoves

\* A step that takes no lock keeps the locks, if no row stops being active.
LEMMA StillLocked ==
  ASSUME Locked, InHand, NEW w \in Workers, \A v \in Workers : v # w => work'[v] = work[v],
         work'[w].pc \in Guarded => work[w].pc \in Guarded /\ work'[w].gen = work[w].gen,
         \A v \in Workers : work'[v].pc \in Guarded /\ work'[v].gen \in Quarantines
              /\ gens[work'[v].gen].status \in Active => gens'[work'[v].gen].status \in Active
  PROVE  Locked'
<1>1. ASSUME NEW v \in Workers, work'[v].pc \in Guarded
      PROVE  work[v].pc \in Guarded /\ work'[v].gen = work[v].gen
  BY <1>1
<1>2. ASSUME NEW v \in Workers, work[v].pc \in Guarded
      PROVE  work[v].gen \in Quarantines
  BY <1>2 DEF InHand, Handy, Guarded
<1> QED BY <1>1, <1>2 DEF Locked

\* A step that locks a free, active row.
LEMMA NowLocked ==
  ASSUME Locked, InHand, NEW w \in Workers, \A v \in Workers : v # w => work'[v] = work[v],
         gens' = gens, work'[w].gen \in Quarantines, Acquirable(work'[w].gen)
  PROVE  Locked'
<1>1. \A v \in Workers : ~(work[v].gen = work'[w].gen /\ work[v].pc \in Guarded)
  BY DEF Acquirable, Holds
<1>2. gens'[work'[w].gen].status \in Active
  BY DEF Acquirable
<1>3. ASSUME NEW v \in Workers, work'[v].pc \in Guarded
      PROVE  gens'[work'[v].gen].status \in Active
  BY <1>2, <1>3 DEF Locked
<1>4. ASSUME NEW u \in Workers, NEW v \in Workers, work'[u].pc \in Guarded,
             work'[v].pc \in Guarded, work'[u].gen = work'[v].gen
      PROVE  u = v
  BY <1>1, <1>4 DEF Locked
<1> QED BY <1>3, <1>4 DEF Locked

LEMMA LockedStep ==
  ASSUME IInv, [Next]_vars
  PROVE  Locked'
<1>0. Shaped /\ InHand /\ Locked /\ work \in [Workers -> WorkRecords] /\ "idle" \notin Guarded
  BY DEF IInv, Shaped, Guarded
<1>1. ASSUME NEW w \in Workers, gens' = gens, \A v \in Workers : v # w => work'[v] = work[v],
             work'[w].pc \in Guarded => work[w].pc \in Guarded /\ work'[w].gen = work[w].gen
      PROVE  Locked'
  BY <1>0, <1>1, StillLocked
<1>2. ASSUME NEW w \in Workers, gens' = gens, Left(w) PROVE Locked'
  BY <1>0, <1>1, <1>2 DEF Left, Idle
<1>3. ASSUME NEW w \in Workers, gens' = gens, NEW X, Went(w, X), work[w].pc \in Guarded
      PROVE  Locked'
  BY <1>1, <1>3 DEF Went, SameBut
<1>4. ASSUME NEW w \in Workers, gens' = gens, Broken(w), work[w].pc \in Guarded PROVE Locked'
  BY <1>0, <1>2, <1>3, <1>4, BrokenWent
<1>5. ASSUME NEW w \in Workers, Step(w) PROVE Locked'
  <2>1. CASE Prepare(w)
    <3>1. CASE Left(w) /\ gens' = gens
      BY <1>2, <3>1
    <3>2. CASE /\ Went(w, {"pc", "view"}) /\ work'[w].pc = "guard"
               /\ GenWent(work[w].gen, {"status", "snap"})
               /\ gens'[work[w].gen].status = "prepared"
      <4>1. work'[w].pc \notin Guarded /\ \A v \in Workers : v # w => work'[v] = work[v]
        BY <3>2 DEF Went, SameBut, Guarded
      <4>2. \A g \in Quarantines : gens[g].status \in Active => gens'[g].status \in Active
        BY <3>2 DEF GenWent, GenBut, Active
      <4> QED BY <1>0, <4>1, <4>2, StillLocked
    <3> QED BY <1>0, <2>1, <3>1, <3>2, PrepareDoes
  <2>2. CASE Guard(w)
    <3>1. gens' = gens
      BY <2>2 DEF Guard
    <3>2. CASE Left(w)
      BY <1>2, <3>1, <3>2
    <3>3. CASE Went(w, {"pc"}) /\ Acquirable(work[w].gen)
      <4>1. work[w].gen \in Quarantines
        BY <1>0, <2>2 DEF Guard, InHand, Handy
      <4> QED BY <1>0, <3>1, <3>3, <4>1, NowLocked DEF Went, SameBut
    <3> QED BY <1>0, <2>2, <3>2, <3>3, GuardDoes
  <2>3. CASE Check(w)
    BY <1>0, <1>3, <2>3, CheckDoes DEF Check, Guarded
  <2>4. CASE Disconnect(w)
    BY <1>0, <1>3, <2>4, DisconnectDoes DEF Disconnect, Guarded
  <2>5. CASE Submit(w)
    BY <1>0, <1>3, <1>4, <2>5, SubmitDoes DEF Submit, Guarded
  <2>6. CASE Await(w)
    BY <1>0, <1>3, <1>4, <2>6, AwaitDoes DEF Await, Guarded
  <2>7. CASE Verify(w)
    BY <1>0, <1>3, <2>7, VerifyDoes DEF Verify, Guarded
  <2>8. CASE Finish(w) \/ Fail(w)
    <3>1. /\ Left(w)
          /\ \A g \in Quarantines : gens[g].status \in Active => gens'[g].status \in Active
      BY <1>0, <2>8, FinishDoes, FailDoes DEF GenWent, GenBut, Active
    <3>2. work'[w].pc \notin Guarded /\ \A v \in Workers : v # w => work'[v] = work[v]
      BY <1>0, <3>1 DEF Left, Idle
    <3> QED BY <1>0, <3>1, <3>2, StillLocked
  <2>9. CASE Take(w)
    <3>1. gens' = gens
      BY <2>9 DEF Take
    <3>2. CASE Left(w)
      BY <1>2, <3>1, <3>2
    <3>3. CASE Went(w, {"pc"}) /\ Acquirable(work[w].gen)
      <4>1. work[w].gen \in Quarantines
        BY <1>0, <2>9 DEF Take, InHand, Handy
      <4> QED BY <1>0, <3>1, <3>3, <4>1, NowLocked DEF Went, SameBut
    <3> QED BY <1>0, <2>9, <3>2, <3>3, TakeDoes
  <2>10. CASE Prove(w)
    BY <1>0, <1>2, <1>3, <2>10, ProveDoes DEF Prove, Guarded
  <2>11. CASE Restore(w)
    BY <1>0, <1>3, <1>4, <2>11, RestoreDoes DEF Restore, Guarded
  <2>12. CASE Connect(w)
    BY <1>0, <1>3, <2>12, ConnectDoes DEF Connect, Guarded
  <2>13. CASE ReadBack(w)
    BY <1>0, <1>3, <1>4, <2>13, ReadBackDoes DEF ReadBack, Guarded
  <2>14. CASE Resolve(w)
    <3>1. /\ Left(w) /\ work[w].pc \in Guarded
          /\ \A g \in Quarantines : g # work[w].gen => gens'[g] = gens[g]
      BY <1>0, <2>14, ResolveDoes DEF GenWent, GenBut, Resolve, Guarded
    <3>2. work'[w].pc \notin Guarded /\ \A v \in Workers : v # w => work'[v] = work[v]
      BY <1>0, <3>1 DEF Left, Idle
    <3>3. \A v \in Workers : work'[v].pc \in Guarded => work'[v].gen # work[w].gen
      BY <1>0, <3>1, <3>2 DEF Locked
    <3> QED BY <1>0, <3>1, <3>2, <3>3, StillLocked
  <2>15. CASE ReadFails(w)
    BY <1>0, <1>4, <2>15 DEF ReadFails, Guarded
  <2> QED BY <1>5, <2>1, <2>2, <2>3, <2>4, <2>5, <2>6, <2>7, <2>8, <2>9, <2>10, <2>11, <2>12,
             <2>13, <2>14, <2>15 DEF Step
<1>6. ASSUME NEW w \in Workers, Crash(w) PROVE Locked'
  BY <1>0, <1>2, <1>6, LeaveLeft DEF Crash
<1>7. ASSUME NEW w \in Workers, Withdraw(w) \/ WindowEnds(w) PROVE Locked'
  <2>1. Went(w, {"approval"}) /\ gens' = gens
    BY <1>0, <1>7, ApprovalDoes DEF Withdraw, WindowEnds
  <2> QED BY <1>1, <2>1 DEF Went, SameBut
<1>8. ASSUME work' = work, \A g \in Quarantines : gens[g].status \in Active => gens'[g].status \in Active
      PROVE  Locked'
  BY <1>0, <1>8 DEF Locked, InHand, Handy
<1>9. ASSUME NEW w \in Workers, NEW p \in {"take", "prepare"}, NEW m, NEW g,
             Begun(w, p, m, g), gens' = gens
      PROVE  Locked'
  BY <1>1, <1>9 DEF Begun, Guarded
<1>10. ASSUME NEW w \in Workers, NEW r \in Requests, Preflight(w, r) PROVE Locked'
  BY <1>0, <1>8, <1>9, <1>10, PreflightDoes DEF Preflight
<1>11. ASSUME NEW w \in Workers, NEW r \in Requests, FindActive(w, r) PROVE Locked'
  BY <1>0, <1>8, <1>9, <1>11, FindActiveDoes DEF FindActive
<1>12. ASSUME NEW w \in Workers, NEW g \in Quarantines, NEW m \in {"sweep", "kill"},
              Acquirable(g), RecoverLocked(w, g, m)
       PROVE  Locked'
  <2>1. CASE Begun(w, "restore", m, g) /\ gens' = gens
    BY <1>0, <1>12, <2>1, NowLocked DEF Begun
  <2>2. CASE work' = work /\ GenWent(g, {"status"}) /\ gens'[g].status = "recovery_required"
    BY <1>8, <2>2 DEF GenWent, GenBut, Active
  <2> QED BY <1>0, <1>8, <1>12, <2>1, <2>2, RecoverDoes
<1>13. ASSUME NEW w \in Workers, NEW g \in Quarantines, Sweep(w, g) \/ KillSwitch(w, g)
       PROVE  Locked'
  BY <1>8, <1>12, <1>13 DEF Sweep, KillSwitch
<1>14. ASSUME NEW g \in Quarantines, Expire(g) PROVE Locked'
  <2>1. GenBut(gens', gens, g, {"expired"}) /\ work' = work
    BY <1>0, <1>14, SetExpired DEF Expire, Shaped
  <2> QED BY <1>8, <2>1 DEF GenBut
<1>15. ASSUME \/ \E g \in Quarantines : RequestKill(g)
              \/ \E k \in Tasks : RunTask(k)
              \/ \E l \in Links : OperatorChange(l)
              \/ UNCHANGED vars
       PROVE  Locked'
  BY <1>8, <1>15 DEF RequestKill, RunTask, OperatorChange, vars
<1> QED BY <1>5, <1>6, <1>7, <1>10, <1>11, <1>13, <1>14, <1>15 DEF Next

\* A step of an executor that prepares nothing, and starts no apply.
LEMMA StillApplied ==
  ASSUME Appliers, InHand, NEW w \in Workers, \A v \in Workers : v # w => work'[v] = work[v],
         claimed \subseteq claimed',
         \A g \in Quarantines : (gens'[g].status = "none") = (gens[g].status = "none"),
         Applies(w)' => /\ Applies(w) /\ work'[w].gen = work[w].gen
                        /\ (work'[w].pc = "prepare") = (work[w].pc = "prepare")
                        /\ work[w].pc = "prepare" => work'[w].view = work[w].view
  PROVE  Appliers'
<1>1. ASSUME NEW v \in Workers, Applies(v)'
      PROVE  /\ Applies(v) /\ work'[v].gen = work[v].gen /\ work[v].gen \in Quarantines
             /\ (work'[v].pc = "prepare") = (work[v].pc = "prepare")
             /\ work[v].pc = "prepare" => work'[v].view = work[v].view
  <2>1. CASE v = w
    BY <1>1, <2>1 DEF Applies, InHand, Handy
  <2>2. CASE v # w
    BY <1>1, <2>2 DEF Applies, InHand, Handy
  <2> QED BY <2>1, <2>2
<1>2. ASSUME NEW v \in Workers, Applies(v)'
      PROVE  /\ work'[v].gen \in claimed'
             /\ work'[v].pc = "prepare" =>
                  gens'[work'[v].gen].status = "none" /\ ~Quarantined(work'[v].view)
             /\ work'[v].pc # "prepare" => gens'[work'[v].gen].status # "none"
  BY <1>1, <1>2 DEF Appliers
<1>3. ASSUME NEW u \in Workers, NEW v \in Workers, Applies(u)', Applies(v)',
             work'[u].gen = work'[v].gen
      PROVE  u = v
  BY <1>1, <1>3 DEF Appliers
<1> QED BY <1>2, <1>3 DEF Appliers, Applies

LEMMA AppliersStep ==
  ASSUME IInv, [Next]_vars
  PROVE  Appliers'
<1>0. Shaped /\ InHand /\ Appliers /\ work \in [Workers -> WorkRecords] /\ Rows /\ Locked
  BY DEF IInv, Shaped
<1>1. ASSUME NEW w \in Workers, gens' = gens, claimed' = claimed, Left(w) PROVE Appliers'
  BY <1>0, <1>1, StillApplied DEF Left, Idle, Applies
<1>2. ASSUME NEW w \in Workers, gens' = gens, claimed' = claimed, NEW X, Went(w, X),
             work[w].pc \notin {"prepare", "idle"}, work'[w].pc \notin {"prepare", "idle"}
      PROVE  Appliers'
  BY <1>0, <1>2, StillApplied DEF Went, SameBut, Applies
<1>3. ASSUME NEW w \in Workers, gens' = gens, claimed' = claimed, Broken(w),
             work[w].pc \notin {"prepare", "idle"}
      PROVE  Appliers'
  BY <1>0, <1>1, <1>2, <1>3, BrokenWent
<1>4. ASSUME NEW w \in Workers, Step(w) PROVE Appliers'
  <2>1. CASE Prepare(w)
    <3>1. claimed' = claimed
      BY <2>1 DEF Prepare
    <3>2. CASE Left(w) /\ gens' = gens
      BY <1>1, <3>1, <3>2
    <3>3. CASE /\ Went(w, {"pc", "view"}) /\ work'[w].pc = "guard"
               /\ GenWent(work[w].gen, {"status", "snap"})
               /\ gens'[work[w].gen].status = "prepared"
      <4>1. Applies(w) /\ work[w].gen \in Quarantines /\ work[w].gen \in claimed
        BY <1>0, <2>1 DEF Prepare, InHand, Handy, Applies, Appliers
      <4>2. /\ Applies(w)' /\ work'[w].gen = work[w].gen /\ work'[w].pc = "guard"
            /\ \A v \in Workers : v # w => work'[v] = work[v]
        BY <3>3, <4>1 DEF Went, SameBut, Applies
      <4>3. ASSUME NEW v \in Workers, v # w, Applies(v)'
            PROVE  Applies(v) /\ work'[v] = work[v] /\ work[v].gen # work[w].gen
                   /\ work[v].gen \in Quarantines
        <5>1. Applies(v) /\ work'[v] = work[v]
          BY <4>2, <4>3 DEF Applies
        <5> QED BY <1>0, <4>1, <4>3, <5>1 DEF Appliers, Applies, InHand, Handy
      <4>4. \A g \in Quarantines : g # work[w].gen => gens'[g] = gens[g]
        BY <3>3 DEF GenWent, GenBut
      <4>5. ASSUME NEW v \in Workers, Applies(v)'
            PROVE  /\ work'[v].gen \in claimed'
                   /\ work'[v].pc = "prepare" =>
                        gens'[work'[v].gen].status = "none" /\ ~Quarantined(work'[v].view)
                   /\ work'[v].pc # "prepare" => gens'[work'[v].gen].status # "none"
        <5>1. CASE v = w
          BY <3>1, <3>3, <4>1, <4>2, <5>1
        <5>2. CASE v # w
          BY <1>0, <3>1, <4>3, <4>4, <4>5, <5>2 DEF Appliers
        <5> QED BY <5>1, <5>2
      <4>6. ASSUME NEW u \in Workers, NEW v \in Workers, Applies(u)', Applies(v)',
                   work'[u].gen = work'[v].gen
            PROVE  u = v
        BY <1>0, <4>1, <4>2, <4>3, <4>6 DEF Appliers
      <4> QED BY <4>5, <4>6 DEF Appliers, Applies
    <3> QED BY <1>0, <2>1, <3>2, <3>3, PrepareDoes
  <2>2. CASE Guard(w)
    BY <1>0, <1>1, <1>2, <2>2, GuardDoes DEF Guard
  <2>3. CASE Check(w)
    BY <1>0, <1>2, <2>3, CheckDoes DEF Check
  <2>4. CASE Disconnect(w)
    <3>1. gens' = gens /\ claimed' = claimed /\ work[w].pc = "disconnect"
      BY <2>4 DEF Disconnect
    <3>2. \E X \in {{"pc"}, {"left"}} : Went(w, X) /\ work'[w].pc \notin {"prepare", "idle"}
      BY <1>0, <2>4, <3>1, DisconnectDoes DEF Went, SameBut
    <3> QED BY <1>2, <3>1, <3>2
  <2>5. CASE Submit(w)
    BY <1>0, <1>2, <1>3, <2>5, SubmitDoes DEF Submit
  <2>6. CASE Await(w)
    BY <1>0, <1>2, <1>3, <2>6, AwaitDoes DEF Await
  <2>7. CASE Verify(w)
    BY <1>0, <1>2, <2>7, VerifyDoes DEF Verify
  <2>8. CASE Finish(w) \/ Fail(w) \/ Resolve(w)
    <3>1. /\ Left(w) /\ claimed' = claimed /\ work[w].pc \in Guarded
          /\ gens' = gens \/ ( /\ \A g \in Quarantines : g # work[w].gen => gens'[g] = gens[g]
                               /\ gens'[work[w].gen].status # "none" )
      BY <1>0, <2>8, FinishDoes, FailDoes, ResolveDoes
         DEF GenWent, GenBut, Finish, Fail, Resolve, Guarded
    <3>2. gens[work[w].gen].status # "none"
      BY <1>0, <3>1 DEF Locked, Active
    <3>3. \A g \in Quarantines : (gens'[g].status = "none") = (gens[g].status = "none")
      BY <3>1, <3>2
    <3> QED BY <1>0, <3>1, <3>3, StillApplied DEF Left, Idle, Applies
  <2>9. CASE Take(w)
    BY <1>0, <1>1, <1>2, <2>9, TakeDoes DEF Take
  <2>10. CASE Prove(w)
    BY <1>0, <1>1, <1>2, <2>10, ProveDoes DEF Prove
  <2>11. CASE Restore(w)
    BY <1>0, <1>2, <1>3, <2>11, RestoreDoes DEF Restore
  <2>12. CASE Connect(w)
    <3>1. gens' = gens /\ claimed' = claimed /\ work[w].pc = "connect"
      BY <2>12 DEF Connect
    <3>2. \E X \in {{"pc"}, {"left", "bad"}} : Went(w, X) /\ work'[w].pc \notin {"prepare", "idle"}
      BY <1>0, <2>12, <3>1, ConnectDoes DEF Went, SameBut
    <3> QED BY <1>2, <3>1, <3>2
  <2>13. CASE ReadBack(w)
    BY <1>0, <1>2, <1>3, <2>13, ReadBackDoes DEF ReadBack
  <2>14. CASE ReadFails(w)
    BY <1>0, <1>3, <2>14 DEF ReadFails
  <2> QED BY <1>4, <2>1, <2>2, <2>3, <2>4, <2>5, <2>6, <2>7, <2>8, <2>9, <2>10, <2>11, <2>12,
             <2>13, <2>14 DEF Step
<1>5. ASSUME NEW w \in Workers, Crash(w) PROVE Appliers'
  BY <1>0, <1>1, <1>5, LeaveLeft DEF Crash
<1>6. ASSUME NEW w \in Workers, Withdraw(w) \/ WindowEnds(w) PROVE Appliers'
  <2>1. Went(w, {"approval"}) /\ gens' = gens /\ claimed' = claimed
    BY <1>0, <1>6, ApprovalDoes DEF Withdraw, WindowEnds
  <2> QED BY <1>0, <2>1, StillApplied DEF Went, SameBut, Applies
<1>7. ASSUME work' = work, claimed \subseteq claimed',
             \A g \in Quarantines : (gens'[g].status = "none") = (gens[g].status = "none")
      PROVE  Appliers'
  <2>1. CASE Workers = {}
    BY <2>1 DEF Appliers
  <2>2. CASE Workers # {}
    BY <1>0, <1>7, <2>2, StillApplied DEF Applies
  <2> QED BY <2>1, <2>2
<1>8. ASSUME NEW w \in Workers, NEW r \in Requests, Preflight(w, r) PROVE Appliers'
  <2>1. claimed \subseteq claimed' /\ gens' = gens /\ r \in claimed' /\ r \in Quarantines /\ r \notin claimed
    BY <1>0, <1>8, PreflightDoes DEF Preflight
  <2>2. CASE work' = work
    BY <1>7, <2>1, <2>2
  <2>3. CASE /\ Begun(w, "prepare", "apply", r) /\ work'[w].view = cfg /\ ~Quarantined(cfg)
    <3>1. gens[r].status = "none"
      BY <1>0, <2>1 DEF Rows
    <3>2. ASSUME NEW v \in Workers, v # w, Applies(v)'
          PROVE  /\ Applies(v) /\ work'[v] = work[v] /\ work[v].gen # r
                 /\ work[v].gen \in Quarantines
      <4>1. Applies(v) /\ work'[v] = work[v]
        BY <2>3, <3>2 DEF Begun, Applies
      <4> QED BY <1>0, <2>1, <4>1 DEF Appliers, Applies, InHand, Handy
    <3>3. /\ work'[w].pc = "prepare" /\ work'[w].gen = r /\ work'[w].view = cfg
      BY <2>3 DEF Begun
    <3>4. ASSUME NEW v \in Workers, Applies(v)'
          PROVE  /\ work'[v].gen \in claimed'
                 /\ work'[v].pc = "prepare" =>
                      gens'[work'[v].gen].status = "none" /\ ~Quarantined(work'[v].view)
                 /\ work'[v].pc # "prepare" => gens'[work'[v].gen].status # "none"
      <4>1. CASE v = w
        BY <2>1, <2>3, <3>1, <3>3, <4>1
      <4>2. CASE v # w
        BY <1>0, <2>1, <3>2, <3>4, <4>2 DEF Appliers
      <4> QED BY <4>1, <4>2
    <3>5. ASSUME NEW u \in Workers, NEW v \in Workers, Applies(u)', Applies(v)',
                 work'[u].gen = work'[v].gen
          PROVE  u = v
      BY <1>0, <3>2, <3>3, <3>5 DEF Appliers
    <3> QED BY <3>4, <3>5 DEF Appliers, Applies
  <2> QED BY <1>0, <1>8, <2>2, <2>3, PreflightDoes
<1>9. ASSUME NEW w \in Workers, NEW p, NEW m \in {"sweep", "kill", "reconcile"}, NEW g,
             Begun(w, p, m, g), gens' = gens, claimed \subseteq claimed'
      PROVE  Appliers'
  BY <1>0, <1>9, StillApplied DEF Begun, Applies
<1>10. ASSUME NEW w \in Workers, NEW r \in Requests, FindActive(w, r) PROVE Appliers'
  <2>1. gens' = gens /\ claimed \subseteq claimed'
    BY <1>10 DEF FindActive
  <2> QED BY <1>0, <1>7, <1>9, <1>10, <2>1, FindActiveDoes
<1>11. ASSUME NEW w \in Workers, NEW g \in Quarantines, Sweep(w, g) \/ KillSwitch(w, g)
       PROVE  Appliers'
  <2>1. claimed' = claimed
    BY <1>11 DEF Sweep, KillSwitch
  <2>2. ASSUME NEW m \in {"sweep", "kill"}, RecoverLocked(w, g, m)
        PROVE  Appliers'
    <3>1. CASE Begun(w, "restore", m, g) /\ gens' = gens
      BY <1>9, <2>1, <3>1
    <3>2. CASE /\ work' = work /\ gens[g].status = "prepared" /\ GenWent(g, {"status"})
               /\ gens'[g].status = "recovery_required"
      BY <1>7, <2>1, <3>2 DEF GenWent, GenBut
    <3> QED BY <1>0, <1>7, <2>1, <2>2, <3>1, <3>2, RecoverDoes
  <2> QED BY <1>7, <1>11, <2>1, <2>2 DEF Sweep, KillSwitch
<1>12. ASSUME NEW g \in Quarantines, Expire(g) PROVE Appliers'
  <2>1. GenBut(gens', gens, g, {"expired"}) /\ work' = work /\ claimed' = claimed
    BY <1>0, <1>12, SetExpired DEF Expire, Shaped
  <2> QED BY <1>7, <2>1 DEF GenBut
<1>13. ASSUME \/ \E g \in Quarantines : RequestKill(g)
              \/ \E k \in Tasks : RunTask(k)
              \/ \E l \in Links : OperatorChange(l)
              \/ UNCHANGED vars
       PROVE  Appliers'
  BY <1>7, <1>13 DEF RequestKill, RunTask, OperatorChange, vars
<1> QED BY <1>4, <1>5, <1>6, <1>8, <1>10, <1>11, <1>12, <1>13 DEF Next

-----------------------------------------------------------------------------
(* The fence around an apply. *)

\* A step that passes no fence keeps those passed, if no row under a guard stops
\* being prepared.
LEMMA StillFenced ==
  ASSUME ApplyFenced, InHand, NEW w \in Workers, \A v \in Workers : v # w => work'[v] = work[v],
         work'[w].mode = "apply" /\ work'[w].pc \in Guarded =>
           /\ work[w].mode = "apply" /\ work[w].pc \in Guarded /\ work'[w].gen = work[w].gen
           /\ work'[w].approval = work[w].approval \/ work'[w].approval # "withdrawn",
         \A v \in Workers : work'[v].pc \in Guarded /\ work'[v].gen \in Quarantines
              /\ gens[work'[v].gen].status = "prepared" => gens'[work'[v].gen].status = "prepared"
  PROVE  ApplyFenced'
<1>1. ASSUME NEW v \in Workers, work'[v].mode = "apply", work'[v].pc \in Guarded
      PROVE  /\ work[v].mode = "apply" /\ work[v].pc \in Guarded /\ work'[v].gen = work[v].gen
             /\ work[v].gen \in Quarantines
             /\ work'[v].approval = work[v].approval \/ work'[v].approval # "withdrawn"
  <2>1. /\ work[v].mode = "apply" /\ work[v].pc \in Guarded /\ work'[v].gen = work[v].gen
        /\ work'[v].approval = work[v].approval \/ work'[v].approval # "withdrawn"
    BY <1>1
  <2> QED BY <2>1 DEF InHand, Handy, Guarded
<1>2. ASSUME NEW v \in Workers, work'[v].mode = "apply", work'[v].pc \in Guarded
      PROVE  gens'[work'[v].gen].status = "prepared" /\ work'[v].approval # "withdrawn"
  BY <1>1, <1>2 DEF ApplyFenced
<1> QED BY <1>2 DEF ApplyFenced

LEMMA FencedStep ==
  ASSUME IInv, [Next]_vars
  PROVE  ApplyFenced'
<1>0. /\ Shaped /\ InHand /\ Locked /\ ApplyFenced /\ work \in [Workers -> WorkRecords]
      /\ "idle" \notin Guarded
  BY DEF IInv, Shaped, Guarded
<1>1. ASSUME NEW w \in Workers, gens' = gens, \A v \in Workers : v # w => work'[v] = work[v],
             work'[w].pc \in Guarded /\ work'[w].mode = "apply" =>
               /\ work[w].mode = "apply" /\ work[w].pc \in Guarded /\ work'[w].gen = work[w].gen
               /\ work'[w].approval = work[w].approval \/ work'[w].approval # "withdrawn"
      PROVE  ApplyFenced'
  BY <1>0, <1>1, StillFenced
<1>2. ASSUME NEW w \in Workers, gens' = gens, Left(w) PROVE ApplyFenced'
  BY <1>0, <1>1, <1>2 DEF Left, Idle
<1>3. ASSUME NEW w \in Workers, gens' = gens, NEW X, Went(w, X), "approval" \notin X,
             work[w].pc \in Guarded
      PROVE  ApplyFenced'
  BY <1>1, <1>3 DEF Went, SameBut
<1>4. ASSUME NEW w \in Workers, gens' = gens, Broken(w), work[w].pc \in Guarded PROVE ApplyFenced'
  BY <1>0, <1>2, <1>3, <1>4, BrokenWent
<1>5. ASSUME NEW w \in Workers, Step(w) PROVE ApplyFenced'
  <2>1. CASE Prepare(w)
    <3>1. CASE Left(w) /\ gens' = gens
      BY <1>2, <3>1
    <3>2. CASE /\ Went(w, {"pc", "view"}) /\ work'[w].pc = "guard"
               /\ GenWent(work[w].gen, {"status", "snap"})
               /\ gens'[work[w].gen].status = "prepared"
      <4>1. work'[w].pc \notin Guarded /\ \A v \in Workers : v # w => work'[v] = work[v]
        BY <3>2 DEF Went, SameBut, Guarded
      <4>2. \A g \in Quarantines : gens[g].status = "prepared" => gens'[g].status = "prepared"
        BY <3>2 DEF GenWent, GenBut
      <4> QED BY <1>0, <4>1, <4>2, StillFenced
    <3> QED BY <1>0, <2>1, <3>1, <3>2, PrepareDoes
  <2>2. CASE Guard(w)
    <3>1. gens' = gens
      BY <2>2 DEF Guard
    <3>2. CASE Left(w)
      BY <1>2, <3>1, <3>2
    <3>3. CASE /\ Went(w, {"pc"}) /\ gens[work[w].gen].status = "prepared" /\ Validated(w)
      BY <1>0, <3>1, <3>3 DEF ApplyFenced, Validated, Went, SameBut
    <3> QED BY <1>0, <2>2, <3>2, <3>3, GuardDoes
  <2>3. CASE Check(w)
    BY <1>0, <1>3, <2>3, CheckDoes DEF Check, Guarded
  <2>4. CASE Disconnect(w)
    <3>1. gens' = gens /\ work[w].pc \in Guarded
      BY <2>4 DEF Disconnect, Guarded
    <3>2. \E X \in {{"pc"}, {"left"}} : Went(w, X)
      BY <1>0, <2>4, DisconnectDoes
    <3> QED BY <1>3, <3>1, <3>2
  <2>5. CASE Submit(w)
    BY <1>0, <1>3, <1>4, <2>5, SubmitDoes DEF Submit, Guarded
  <2>6. CASE Await(w)
    BY <1>0, <1>3, <1>4, <2>6, AwaitDoes DEF Await, Guarded
  <2>7. CASE Verify(w)
    BY <1>0, <1>3, <2>7, VerifyDoes DEF Verify, Guarded
  <2>8. CASE Finish(w) \/ Fail(w) \/ Resolve(w)
    <3>1. /\ Left(w) /\ work[w].pc \in Guarded
          /\ \A g \in Quarantines : g # work[w].gen => gens'[g] = gens[g]
      BY <1>0, <2>8, FinishDoes, FailDoes, ResolveDoes
         DEF GenWent, GenBut, Finish, Fail, Resolve, Guarded
    <3>2. work'[w].pc \notin Guarded /\ \A v \in Workers : v # w => work'[v] = work[v]
      BY <1>0, <3>1 DEF Left, Idle
    <3>3. \A v \in Workers : work'[v].pc \in Guarded => work'[v].gen # work[w].gen
      BY <1>0, <3>1, <3>2 DEF Locked
    <3> QED BY <1>0, <3>1, <3>2, <3>3, StillFenced
  <2>9. CASE Take(w)
    <3>1. gens' = gens /\ work[w].mode = "reconcile"
      BY <1>0, <2>9 DEF Take, InHand, Handy
    <3>2. CASE Left(w)
      BY <1>2, <3>1, <3>2
    <3>3. CASE Went(w, {"pc"})
      BY <1>1, <3>1, <3>3 DEF Went, SameBut
    <3> QED BY <1>0, <2>9, <3>2, <3>3, TakeDoes
  <2>10. CASE Prove(w)
    BY <1>0, <1>2, <1>3, <2>10, ProveDoes DEF Prove, Guarded
  <2>11. CASE Restore(w)
    BY <1>0, <1>3, <1>4, <2>11, RestoreDoes DEF Restore, Guarded
  <2>12. CASE Connect(w)
    <3>1. gens' = gens /\ work[w].pc \in Guarded
      BY <2>12 DEF Connect, Guarded
    <3>2. \E X \in {{"pc"}, {"left", "bad"}} : Went(w, X)
      BY <1>0, <2>12, ConnectDoes
    <3> QED BY <1>3, <3>1, <3>2
  <2>13. CASE ReadBack(w)
    BY <1>0, <1>3, <1>4, <2>13, ReadBackDoes DEF ReadBack, Guarded
  <2>14. CASE ReadFails(w)
    BY <1>0, <1>4, <2>14 DEF ReadFails, Guarded
  <2> QED BY <1>5, <2>1, <2>2, <2>3, <2>4, <2>5, <2>6, <2>7, <2>8, <2>9, <2>10, <2>11, <2>12,
             <2>13, <2>14 DEF Step
<1>6. ASSUME NEW w \in Workers, Crash(w) PROVE ApplyFenced'
  BY <1>0, <1>2, <1>6, LeaveLeft DEF Crash
<1>7. ASSUME NEW w \in Workers, Withdraw(w) \/ WindowEnds(w) PROVE ApplyFenced'
  <2>1. /\ Went(w, {"approval"}) /\ gens' = gens
        /\ work'[w].approval = "withdrawn" => work[w].pc \notin Guarded
    BY <1>0, <1>7, ApprovalDoes DEF Withdraw, WindowEnds
  <2> QED BY <1>1, <2>1 DEF Went, SameBut
<1>8. ASSUME work' = work,
             \A v \in Workers : work[v].pc \in Guarded /\ gens[work[v].gen].status = "prepared"
                => gens'[work[v].gen].status = "prepared"
      PROVE  ApplyFenced'
  BY <1>0, <1>8 DEF ApplyFenced
<1>9. ASSUME NEW w \in Workers, NEW p, NEW m, NEW g, p \notin Guarded \/ m # "apply",
             Begun(w, p, m, g), gens' = gens
      PROVE  ApplyFenced'
  BY <1>1, <1>9 DEF Begun
<1>10. ASSUME NEW w \in Workers, NEW r \in Requests, Preflight(w, r) PROVE ApplyFenced'
  <2>1. gens' = gens /\ "prepare" \notin Guarded
    BY <1>10 DEF Preflight, Guarded
  <2> QED BY <1>0, <1>8, <1>9, <1>10, <2>1, PreflightDoes
<1>11. ASSUME NEW w \in Workers, NEW r \in Requests, FindActive(w, r) PROVE ApplyFenced'
  <2>1. gens' = gens /\ "take" \notin Guarded
    BY <1>11 DEF FindActive, Guarded
  <2> QED BY <1>0, <1>8, <1>9, <1>11, <2>1, FindActiveDoes
<1>12. ASSUME NEW w \in Workers, NEW g \in Quarantines, NEW m \in {"sweep", "kill"},
              Acquirable(g), RecoverLocked(w, g, m)
       PROVE  ApplyFenced'
  <2>1. CASE Begun(w, "restore", m, g) /\ gens' = gens
    BY <1>9, <2>1
  <2>2. CASE work' = work /\ GenWent(g, {"status"})
    <3>1. \A v \in Workers : work[v].pc \in Guarded => work[v].gen # g
      BY <1>12 DEF Acquirable, Holds
    <3>2. \A v \in Workers : work[v].pc \in Guarded => work[v].gen \in Quarantines
      BY <1>0 DEF InHand, Handy
    <3> QED BY <1>8, <2>2, <3>1, <3>2 DEF GenWent, GenBut
  <2> QED BY <1>0, <1>8, <1>12, <2>1, <2>2, RecoverDoes
<1>13. ASSUME NEW w \in Workers, NEW g \in Quarantines, Sweep(w, g) \/ KillSwitch(w, g)
       PROVE  ApplyFenced'
  BY <1>8, <1>12, <1>13 DEF Sweep, KillSwitch
<1>14. ASSUME NEW g \in Quarantines, Expire(g) PROVE ApplyFenced'
  <2>1. GenBut(gens', gens, g, {"expired"}) /\ work' = work
    BY <1>0, <1>14, SetExpired DEF Expire, Shaped
  <2>2. \A v \in Workers : work[v].pc \in Guarded => work[v].gen \in Quarantines
    BY <1>0 DEF InHand, Handy
  <2> QED BY <1>8, <2>1, <2>2 DEF GenBut
<1>15. ASSUME \/ \E g \in Quarantines : RequestKill(g)
              \/ \E k \in Tasks : RunTask(k)
              \/ \E l \in Links : OperatorChange(l)
              \/ UNCHANGED vars
       PROVE  ApplyFenced'
  BY <1>8, <1>15 DEF RequestKill, RunTask, OperatorChange, vars
<1> QED BY <1>5, <1>6, <1>7, <1>10, <1>11, <1>13, <1>14, <1>15 DEF Next

-----------------------------------------------------------------------------
(* What is written follows from the snapshot. *)

LEMMA SnapKept ==
  ASSUME IInv, [Next]_vars, NEW g \in Quarantines, gens[g].status # "none"
  PROVE  gens'[g].snap = gens[g].snap
<1>1. RowMoves
  BY RowsMove DEF IInv
<1>2. ASSUME NEW w \in Workers, work[w].pc = "prepare"
      PROVE  gens[work[w].gen].status = "none"
  BY <1>2 DEF IInv, Appliers, Applies, InHand, Handy
<1> QED BY <1>1, <1>2 DEF RowMoves, GenWent, GenBut

\* One executor's part of Planned.
PlannedFor(w) ==
  /\ work[w].pc \in {"disconnect", "connect"} => \A l \in work[w].left : Snap(w)[l].up
  /\ work[w].pc = "submit" =>
       work[w].view = IF work[w].mode = "apply" THEN Snap(w) ELSE Isolated(Snap(w))

LEMMA PlannedWork ==
  ASSUME IInv, [Next]_vars, NEW v \in Workers
  PROVE  PlannedFor(v)'
<1>0. /\ Shaped /\ InHand /\ Locked /\ PlannedFor(v) /\ work \in [Workers -> WorkRecords]
      /\ Handy(v) /\ cfg \in Configs
  BY DEF IInv, Planned, PlannedFor, InHand, Shaped
<1>1. ASSUME work[v].pc \in Guarded, work'[v].gen = work[v].gen
      PROVE  Snap(v)' = Snap(v)
  <2>1. work[v].gen \in Quarantines /\ gens[work[v].gen].status # "none"
    BY <1>0, <1>1 DEF Handy, Locked, Guarded, Active
  <2> QED BY <1>1, <2>1, SnapKept DEF Snap
<1>2. ASSUME work'[v].pc \notin {"disconnect", "connect", "submit"} PROVE PlannedFor(v)'
  BY <1>2 DEF PlannedFor
<1>3. ASSUME work'[v].pc = work[v].pc, work'[v].gen = work[v].gen, work'[v].view = work[v].view,
             work'[v].left \subseteq work[v].left, work'[v].mode = work[v].mode
      PROVE  PlannedFor(v)'
  <2>1. CASE work[v].pc \in {"disconnect", "connect", "submit"}
    <3>1. Snap(v)' = Snap(v)
      BY <1>1, <1>3, <2>1 DEF Guarded
    <3> QED BY <1>0, <1>3, <3>1 DEF PlannedFor
  <2> QED BY <1>2, <1>3, <2>1
<1>4. ASSUME work'[v] = work[v] PROVE PlannedFor(v)'
  BY <1>3, <1>4
<1>5. ASSUME Left(v) PROVE PlannedFor(v)'
  BY <1>2, <1>5 DEF Left, Idle
<1>6. ASSUME Broken(v) PROVE PlannedFor(v)'
  BY <1>0, <1>2, <1>5, <1>6, BrokenWent
<1>7. ASSUME NEW w \in Workers, Step(w) PROVE PlannedFor(v)'
  <2>1. CASE v = w
    <3>1. CASE Prepare(v)
      BY <1>0, <1>2, <1>5, <3>1, PrepareDoes
    <3>2. CASE Guard(v)
      BY <1>0, <1>2, <1>5, <3>2, GuardDoes
    <3>3. CASE Check(v)
      <4>1. Snap(v)' = Snap(v) /\ work[v].mode = "apply"
        BY <1>0, <1>1, <3>3, CheckDoes DEF Check, Guarded, Handy, Went, SameBut
      <4>2. /\ work'[v].pc # "connect" /\ work'[v].mode = "apply"
            /\ work'[v].pc # "fail" => cfg = Snap(v)
            /\ work'[v].view = cfg /\ work'[v].left = {l \in Links : cfg[l].up}
        BY <1>0, <3>3, <4>1, CheckDoes DEF Went, SameBut, Snap
      <4> QED BY <1>2, <4>1, <4>2 DEF PlannedFor
    <3>4. CASE Disconnect(v)
      BY <1>0, <1>2, <1>3, <3>4, DisconnectDoes DEF Went, SameBut
    <3>5. CASE Submit(v)
      BY <1>0, <1>2, <1>6, <3>5, SubmitDoes
    <3>6. CASE Await(v)
      BY <1>0, <1>2, <1>6, <3>6, AwaitDoes
    <3>7. CASE Verify(v)
      BY <1>0, <1>2, <3>7, VerifyDoes
    <3>8. CASE Finish(v) \/ Fail(v) \/ Resolve(v)
      BY <1>0, <1>5, <3>8, FinishDoes, FailDoes, ResolveDoes
    <3>9. CASE Take(v)
      BY <1>0, <1>2, <1>5, <3>9, TakeDoes
    <3>10. CASE Prove(v)
      BY <1>0, <1>2, <1>5, <3>10, ProveDoes
    <3>11. CASE Restore(v)
      <4>1. work[v].pc = "restore" /\ work[v].pc \in Guarded
        BY <3>11 DEF Restore, Guarded
      <4>2. CASE /\ Went(v, {"pc", "view", "left"}) /\ work'[v].pc = "connect"
                 /\ work'[v].left = {l \in Links : Snap(v)[l].up}
        <5>1. Snap(v)' = Snap(v)
          BY <1>1, <4>1, <4>2 DEF Went, SameBut
        <5> QED BY <4>2, <5>1 DEF PlannedFor
      <4>3. CASE /\ adapter # "docker" /\ Went(v, {"pc", "view"}) /\ work'[v].pc = "submit"
                 /\ work'[v].view = cfg /\ cfg = Isolated(Snap(v))
        <5>1. Snap(v)' = Snap(v) /\ work'[v].mode # "apply"
          BY <1>0, <1>1, <4>1, <4>3 DEF Went, SameBut, Handy
        <5> QED BY <4>3, <5>1 DEF PlannedFor
      <4> QED BY <1>0, <1>2, <1>6, <3>11, <4>2, <4>3, RestoreDoes DEF Snap
    <3>12. CASE Connect(v)
      BY <1>0, <1>2, <1>3, <3>12, ConnectDoes DEF Went, SameBut
    <3>13. CASE ReadBack(v)
      BY <1>0, <1>2, <1>6, <3>13, ReadBackDoes
    <3>14. CASE ReadFails(v)
      BY <1>6, <3>14 DEF ReadFails
    <3> QED BY <1>7, <2>1, <3>1, <3>2, <3>3, <3>4, <3>5, <3>6, <3>7, <3>8, <3>9, <3>10, <3>11,
               <3>12, <3>13, <3>14 DEF Step
  <2>2. CASE v # w
    <3>1. work'[v] = work[v]
      BY <1>0, <1>7, <2>2 DEF Step, Prepare, Guard, Check, Disconnect, Submit, Await, Verify,
         Finish, Fail, Take, Prove, Restore, Connect, ReadBack, Resolve, ReadFails, Go, Leave,
         Broken
    <3> QED BY <1>4, <3>1
  <2> QED BY <2>1, <2>2
<1>8. ASSUME NEW w \in Workers, Crash(w) PROVE PlannedFor(v)'
  BY <1>0, <1>4, <1>5, <1>8, LeaveLeft DEF Crash, Left
<1>9. ASSUME NEW w \in Workers, Withdraw(w) \/ WindowEnds(w) PROVE PlannedFor(v)'
  BY <1>0, <1>3, <1>9, ApprovalDoes DEF Went, SameBut
<1>10. ASSUME NEW w \in Workers, NEW p \in {"prepare", "take", "restore"}, NEW m, NEW g,
              Begun(w, p, m, g)
       PROVE  PlannedFor(v)'
  BY <1>2, <1>4, <1>10 DEF Begun
<1>11. ASSUME NEW w \in Workers, NEW r \in Requests, Preflight(w, r) \/ FindActive(w, r)
       PROVE  PlannedFor(v)'
  BY <1>0, <1>4, <1>10, <1>11, PreflightDoes, FindActiveDoes
<1>12. ASSUME NEW w \in Workers, NEW g \in Quarantines, Sweep(w, g) \/ KillSwitch(w, g)
       PROVE  PlannedFor(v)'
  <2>1. work' = work \/ \E m \in {"sweep", "kill"} : RecoverLocked(w, g, m)
    BY <1>12 DEF Sweep, KillSwitch
  <2> QED BY <1>0, <1>4, <1>10, <2>1, RecoverDoes
<1>13. ASSUME \/ \E g \in Quarantines : RequestKill(g) \/ Expire(g)
              \/ \E k \in Tasks : RunTask(k)
              \/ \E l \in Links : OperatorChange(l)
              \/ UNCHANGED vars
       PROVE  PlannedFor(v)'
  BY <1>4, <1>13 DEF RequestKill, Expire, RunTask, OperatorChange, vars
<1> QED BY <1>7, <1>8, <1>9, <1>11, <1>12, <1>13 DEF Next

\* A task the executor submits: it keeps the version of the NIC it was read from,
\* and takes the link down only for an apply.
LEMMA SubmittedTask ==
  ASSUME IInv, NEW w \in Workers, work[w].pc = "submit"
  PROVE  /\ work[w].gen \in Quarantines /\ work[w].view \in Configs /\ Wanted(w) \in Configs
         /\ adapter # "docker" /\ 1 \in Links
         /\ Wanted(w)[1].ver = work[w].view[1].ver
         /\ ~Wanted(w)[1].up => work[w].mode = "apply"
         /\ Snap(w) \in Configs /\ Snap(w)[1].up
<1>1. /\ work[w].gen \in Quarantines /\ work[w].view \in Configs /\ adapter # "docker"
      /\ Snap(w) \in Configs /\ ~Quarantined(Snap(w))
  BY GuardedRow DEF IInv, InHand, Handy, Guarded
<1>2. 1 \in Links /\ Links = {1}
  BY <1>1 DEF Links
<1>3. Snap(w)[1].up
  <2>1. DOMAIN Snap(w) = {1}
    BY <1>1, <1>2 DEF Configs
  <2> QED BY <1>1, <2>1 DEF Quarantined
<1>4. work[w].view = IF work[w].mode = "apply" THEN Snap(w) ELSE Isolated(Snap(w))
  BY DEF IInv, Planned
<1>5. CASE work[w].mode = "apply"
  <2>1. Wanted(w) = Isolated(work[w].view)
    BY <1>5 DEF Wanted
  <2> QED BY <1>1, <1>2, <1>3, <1>5, <2>1, IsolatedIsConfig
<1>6. CASE work[w].mode # "apply"
  <2>1. Wanted(w) = Snap(w) /\ work[w].view = Isolated(Snap(w))
    BY <1>4, <1>6 DEF Wanted, Snap
  <2> QED BY <1>1, <1>2, <1>3, <1>6, <2>1, IsolatedIsConfig
<1> QED BY <1>5, <1>6

\* What a step can do to the tasks.
TaskMoves ==
  \/ tasks' = tasks
  \/ \E k \in Tasks : RunTask(k)
  \/ \E w \in Workers, k \in Tasks :
       /\ Submit(w) /\ tasks[k].state = "none"
       /\ tasks' = [tasks EXCEPT ![k] = [state |-> "running", gen |-> work[w].gen,
                                         digest |-> work[w].view, to |-> Wanted(w)]]
       /\ \/ Went(w, {"pc", "task"}) /\ work'[w].pc = "await" /\ work'[w].task = k
          \/ Broken(w)

LEMMA TasksMove ==
  ASSUME Shaped, [Next]_vars
  PROVE  TaskMoves
<1>1. ASSUME NEW w \in Workers, Submit(w) PROVE TaskMoves
  BY <1>1, SubmitDoes DEF TaskMoves
<1>2. ASSUME NEW w \in Workers, Step(w) \/ Crash(w) \/ Withdraw(w) \/ WindowEnds(w), ~Submit(w)
      PROVE  tasks' = tasks
  BY <1>2 DEF Step, Crash, Withdraw, WindowEnds, Prepare, Guard, Check, Disconnect, Await, Verify,
     Finish, Fail, Take, Prove, Restore, Connect, ReadBack, Resolve, ReadFails
<1>3. ASSUME \/ \E w \in Workers, r \in Requests : Preflight(w, r) \/ FindActive(w, r)
             \/ \E w \in Workers, g \in Quarantines : Sweep(w, g) \/ KillSwitch(w, g)
             \/ \E g \in Quarantines : RequestKill(g) \/ Expire(g)
             \/ \E l \in Links : OperatorChange(l)
             \/ UNCHANGED vars
      PROVE  tasks' = tasks
  BY <1>3 DEF Preflight, FindActive, Sweep, KillSwitch, RequestKill, Expire, OperatorChange, vars
<1> QED BY <1>1, <1>2, <1>3 DEF Next, TaskMoves

LEMMA PlannedStep ==
  ASSUME IInv, [Next]_vars
  PROVE  Planned'
<1>1. \A v \in Workers : PlannedFor(v)'
  BY PlannedWork
<1>2. adapter' = adapter /\ Configs' = Configs /\ TaskMoves
  BY RowsMove, TasksMove, SameTypes DEF IInv
<1>3. Shaped /\ Planned
  BY DEF IInv
<1>4. ASSUME NEW k \in Tasks, tasks'[k].state # "none"
      PROVE  /\ tasks'[k].gen \in Quarantines /\ tasks'[k].digest \in Configs
             /\ tasks'[k].to \in Configs /\ adapter # "docker"
             /\ tasks'[k].to[1].ver = tasks'[k].digest[1].ver
  <2>1. CASE tasks' = tasks
    BY <1>3, <1>4, <2>1 DEF Planned
  <2>2. ASSUME NEW j \in Tasks, RunTask(j)
        PROVE  /\ tasks'[k].gen = tasks[k].gen /\ tasks'[k].digest = tasks[k].digest
               /\ tasks'[k].to = tasks[k].to /\ tasks[k].state # "none"
    BY <1>3, <1>4, <2>2 DEF RunTask, Shaped, TaskRecords
  <2>3. ASSUME NEW w \in Workers, NEW j \in Tasks, Submit(w),
               tasks' = [tasks EXCEPT ![j] = [state |-> "running", gen |-> work[w].gen,
                                              digest |-> work[w].view, to |-> Wanted(w)]]
        PROVE  /\ tasks'[k].gen \in Quarantines /\ tasks'[k].digest \in Configs
               /\ tasks'[k].to \in Configs /\ adapter # "docker"
               /\ tasks'[k].to[1].ver = tasks'[k].digest[1].ver
    <3>1. CASE k = j
      <4>1. /\ tasks'[k].gen = work[w].gen /\ tasks'[k].digest = work[w].view
            /\ tasks'[k].to = Wanted(w)
        BY <1>3, <2>3, <3>1 DEF Shaped
      <4> QED BY <2>3, <4>1, SubmittedTask DEF Submit
    <3>2. CASE k # j
      <4>1. tasks'[k] = tasks[k]
        BY <1>3, <2>3, <3>2 DEF Shaped
      <4> QED BY <1>3, <1>4, <4>1 DEF Planned
    <3> QED BY <3>1, <3>2
  <2> QED BY <1>2, <1>3, <2>1, <2>2, <2>3 DEF TaskMoves, Planned
<1> QED BY <1>1, <1>2, <1>4 DEF Planned, PlannedFor, Snap

-----------------------------------------------------------------------------
(* Tasks that will take the link down. *)

\* The row of a generation that such a task belongs to.
LEMMA OwedRow ==
  ASSUME IInv, [Next]_vars, NEW k \in Tasks, Lowering(k)
  PROVE  LET g == tasks[k].gen IN
         /\ gens'[g].status \in {"prepared", "recovery_required"}
         /\ gens'[g].upid = 0 /\ gens'[g].snap[1].up
<1> DEFINE g == tasks[k].gen
<1>1. /\ g \in Quarantines /\ gens[g].status \in {"prepared", "recovery_required"}
      /\ gens[g].upid = 0 /\ gens[g].snap[1].up
      /\ \A w \in Workers : work[w].pc # "idle" /\ work[w].gen = g => Waiting(w, k)
  BY DEF IInv, Planned, TasksOwed, Lowering, Owes
<1>2. RowMoves
  BY RowsMove DEF IInv
<1> HIDE DEF g
<1>3. gens'[g].snap = gens[g].snap
  BY <1>1, SnapKept
<1>4. ASSUME NEW w \in Workers, work[w].pc = "prepare"
      PROVE  work[w].gen # g
  BY <1>1, <1>4 DEF IInv, Appliers, Applies, InHand, Handy
<1>5. ASSUME NEW w \in Workers, work[w].pc \in {"finish", "resolve"}
      PROVE  work[w].gen # g
  BY <1>1, <1>5 DEF Waiting
<1>6. ASSUME NEW w \in Workers, work[w].pc = "fail", work[w].gen = g
      PROVE  work[w].upid = 0
  BY <1>1, <1>6 DEF Waiting
<1>7. gens'[g].status \in {"prepared", "recovery_required"} /\ gens'[g].upid = 0
  BY <1>1, <1>2, <1>4, <1>5, <1>6 DEF RowMoves, GenWent, GenBut
<1> QED BY <1>1, <1>3, <1>7 DEF g

\* The executors of that generation.
LEMMA OwedWork ==
  ASSUME IInv, [Next]_vars, NEW k \in Tasks, Lowering(k), NEW v \in Workers,
         work'[v].pc # "idle", work'[v].gen = tasks[k].gen
  PROVE  Waiting(v, k)'
<1> DEFINE g == tasks[k].gen
<1>0. /\ Shaped /\ InHand /\ Handy(v) /\ work \in [Workers -> WorkRecords]
      /\ tasks[k].state = "running" /\ adapter # "docker" /\ k \in 0..MaxTasks
  BY BoundsAssumption DEF IInv, InHand, Shaped, Lowering, Planned, Tasks
<1>1. /\ g \in Quarantines /\ gens[g].status \in {"prepared", "recovery_required"}
      /\ gens[g].upid = 0
      /\ work[v].pc # "idle" /\ work[v].gen = g => Waiting(v, k)
  BY DEF IInv, Planned, TasksOwed, Lowering, Owes
<1>2. work'[v].gen = g
  OBVIOUS
<1> HIDE DEF g
<1>3. CASE work'[v] = work[v]
  BY <1>1, <1>2, <1>3 DEF Waiting
<1>4. ASSUME Left(v) PROVE FALSE
  BY <1>4 DEF Left, Idle
<1>5. ASSUME NEW X, Went(v, X), work[v].pc # "idle" PROVE Waiting(v, k)
  BY <1>1, <1>2, <1>5 DEF Went, SameBut
<1>6. ASSUME NEW w \in Workers, Step(w) PROVE Waiting(v, k)'
  <2>1. CASE v = w
    <3>1. ASSUME Prepare(v) PROVE FALSE
      <4>1. work[v].gen = g /\ work[v].pc = "prepare"
        BY <1>0, <1>4, <1>2, <3>1, PrepareDoes DEF Went, SameBut, Prepare
      <4> QED BY <1>1, <4>1 DEF Waiting
    <3>2. ASSUME Guard(v) PROVE FALSE
      <4>1. Waiting(v, k) /\ work[v].pc = "guard"
        BY <1>0, <1>4, <1>5, <3>2, GuardDoes DEF Guard
      <4> QED BY <4>1 DEF Waiting
    <3>3. ASSUME Check(v) PROVE FALSE
      BY <1>0, <1>5, <3>3, CheckDoes DEF Check, Waiting
    <3>4. ASSUME Disconnect(v) \/ Connect(v) PROVE FALSE
      BY <1>0, <3>4 DEF Handy, Disconnect, Connect
    <3>5. ASSUME Submit(v) PROVE FALSE
      <4>1. Waiting(v, k) /\ work[v].pc = "submit"
        BY <1>0, <1>4, <1>5, <3>5, SubmitDoes, BrokenWent DEF Submit
      <4> QED BY <4>1 DEF Waiting
    <3>6. CASE Await(v)
      <4>1. work[v].pc = "await"
        BY <3>6 DEF Await
      <4>2. Waiting(v, k)
        BY <1>0, <1>4, <1>5, <3>6, <4>1, AwaitDoes, BrokenWent
      <4>3. work[v].mode = "apply" /\ work[v].upid = 0 /\ work[v].task = k
        BY <4>1, <4>2 DEF Waiting
      <4>4. Broken(v)
        BY <1>0, <3>6, <4>3, AwaitDoes
      <4>5. Went(v, {"pc"}) /\ work'[v].pc = "fail"
        BY <1>0, <4>3, <4>4, BrokenWent
      <4> QED BY <4>3, <4>5 DEF Waiting, Went, SameBut
    <3>7. ASSUME Verify(v) PROVE FALSE
      BY <1>0, <1>5, <3>7, VerifyDoes DEF Verify, Waiting
    <3>8. ASSUME Finish(v) \/ Fail(v) \/ Resolve(v) PROVE FALSE
      BY <1>0, <1>4, <3>8, FinishDoes, FailDoes, ResolveDoes
    <3>9. CASE Take(v)
      BY <1>0, <1>4, <3>9, TakeDoes DEF Waiting
    <3>10. ASSUME Prove(v) PROVE FALSE
      <4>1. Went(v, {"pc"}) /\ Proved(work[v].gen)
        BY <1>0, <1>4, <3>10, ProveDoes
      <4>2. work[v].gen = g
        BY <1>2, <4>1 DEF Went, SameBut
      <4> QED BY <1>0, <1>1, <4>1, <4>2 DEF Proved
    <3>11. ASSUME Restore(v) PROVE FALSE
      <4>1. Waiting(v, k) /\ work[v].pc = "restore"
        BY <1>0, <1>4, <1>5, <3>11, RestoreDoes, BrokenWent DEF Restore
      <4> QED BY <4>1 DEF Waiting
    <3>12. ASSUME ReadBack(v) PROVE FALSE
      <4>1. Waiting(v, k) /\ work[v].pc = "readback"
        BY <1>0, <1>4, <1>5, <3>12, ReadBackDoes, BrokenWent DEF ReadBack
      <4> QED BY <4>1 DEF Waiting
    <3>13. ASSUME ReadFails(v) PROVE FALSE
      <4>1. Broken(v) /\ work[v].pc \in {"check", "verify", "prove", "restore", "readback"}
        BY <3>13 DEF ReadFails
      <4>2. work[v].mode # "reconcile" /\ Went(v, {"pc"})
        BY <1>0, <1>4, <4>1, BrokenWent
      <4>3. Waiting(v, k)
        BY <1>5, <4>1, <4>2
      <4> QED BY <1>0, <4>1, <4>2, <4>3 DEF Waiting, Handy
    <3> QED BY <1>6, <2>1, <3>1, <3>2, <3>3, <3>4, <3>5, <3>6, <3>7, <3>8, <3>9, <3>10, <3>11,
               <3>12, <3>13 DEF Step
  <2>2. CASE v # w
    <3>1. work'[v] = work[v]
      BY <1>0, <1>6, <2>2 DEF Step, Prepare, Guard, Check, Disconnect, Submit, Await, Verify,
         Finish, Fail, Take, Prove, Restore, Connect, ReadBack, Resolve, ReadFails, Go, Leave,
         Broken
    <3> QED BY <1>3, <3>1
  <2> QED BY <2>1, <2>2
<1>7. ASSUME NEW w \in Workers, Crash(w) PROVE Waiting(v, k)'
  BY <1>0, <1>3, <1>4, <1>7, LeaveLeft DEF Crash, Left
<1>8. ASSUME NEW w \in Workers, Withdraw(w) \/ WindowEnds(w) PROVE Waiting(v, k)'
  <2>1. Went(w, {"approval"})
    BY <1>0, <1>8, ApprovalDoes
  <2>2. CASE v = w
    <3>1. Waiting(v, k)
      BY <1>5, <2>1, <2>2 DEF Went, SameBut
    <3> QED BY <2>1, <2>2, <3>1 DEF Waiting, Went, SameBut
  <2>3. CASE v # w
    BY <1>3, <2>1, <2>3 DEF Went, SameBut
  <2> QED BY <2>2, <2>3
<1>9. ASSUME NEW w \in Workers, NEW r \in Requests, Preflight(w, r) PROVE Waiting(v, k)'
  <2>1. r # g
    BY <1>0, <1>1, <1>9, PreflightDoes DEF IInv, Rows
  <2> QED BY <1>0, <1>3, <1>2, <1>9, <2>1, PreflightDoes DEF Begun
<1>10. ASSUME NEW w \in Workers, NEW r \in Requests, FindActive(w, r) PROVE Waiting(v, k)'
  BY <1>0, <1>3, <1>10, FindActiveDoes DEF Begun, Waiting
<1>11. ASSUME NEW w \in Workers, NEW h \in Quarantines, Sweep(w, h) \/ KillSwitch(w, h)
       PROVE  Waiting(v, k)'
  <2>1. work' = work \/ \E m \in {"sweep", "kill"} : RecoverLocked(w, h, m)
    BY <1>11 DEF Sweep, KillSwitch
  <2>2. ASSUME NEW m \in {"sweep", "kill"}, RecoverLocked(w, h, m) PROVE Waiting(v, k)'
    BY <1>0, <1>1, <1>3, <1>2, <2>2, RecoverDoes DEF Begun
  <2> QED BY <1>3, <2>1, <2>2
<1>12. ASSUME \/ \E h \in Quarantines : RequestKill(h) \/ Expire(h)
              \/ \E j \in Tasks : RunTask(j)
              \/ \E l \in Links : OperatorChange(l)
              \/ UNCHANGED vars
       PROVE  Waiting(v, k)'
  BY <1>3, <1>12 DEF RequestKill, Expire, RunTask, OperatorChange, vars
<1> QED BY <1>6, <1>7, <1>8, <1>9, <1>10, <1>11, <1>12 DEF Next

LEMMA TasksOwedStep ==
  ASSUME IInv, [Next]_vars
  PROVE  TasksOwed'
<1>0. Shaped /\ InHand /\ Locked /\ Appliers /\ work \in [Workers -> WorkRecords]
  BY DEF IInv, Shaped
<1>1. ASSUME NEW k \in Tasks, Lowering(k), tasks'[k] = tasks[k] PROVE Owes(k)'
  <2>1. /\ gens'[tasks[k].gen].status \in {"prepared", "recovery_required"}
        /\ gens'[tasks[k].gen].upid = 0 /\ gens'[tasks[k].gen].snap[1].up
    BY <1>1, OwedRow
  <2>2. \A v \in Workers : work'[v].pc # "idle" /\ work'[v].gen = tasks[k].gen => Waiting(v, k)'
    BY <1>1, OwedWork
  <2> QED BY <1>1, <2>1, <2>2 DEF Owes, Waiting
<1>2. ASSUME NEW w \in Workers, NEW k \in Tasks, Submit(w),
             tasks' = [tasks EXCEPT ![k] = [state |-> "running", gen |-> work[w].gen,
                                            digest |-> work[w].view, to |-> Wanted(w)]],
             \/ Went(w, {"pc", "task"}) /\ work'[w].pc = "await" /\ work'[w].task = k
             \/ Broken(w),
             Lowering(k)'
      PROVE  Owes(k)'
  <2> DEFINE g == work[w].gen
  <2>1. tasks'[k].gen = g /\ tasks'[k].to = Wanted(w)
    BY <1>0, <1>2 DEF Shaped
  <2>2. /\ g \in Quarantines /\ work[w].mode = "apply" /\ gens[g].snap[1].up
        /\ work[w].pc = "submit" /\ gens' = gens
    BY <1>2, <2>1, SubmittedTask DEF Submit, Lowering, Snap
  <2>3. gens[g].status = "prepared" /\ gens[g].upid = 0
    BY <2>2 DEF IInv, ApplyFenced, Guarded, Rows
  <2>4. Applies(w) /\ work[w].pc \in Guarded /\ work[w].upid = 0
    BY <1>0, <2>2 DEF Applies, Guarded, InHand, Handy
  <2>5. Waiting(w, k)' /\ \A v \in Workers : v # w => work'[v] = work[v]
    BY <1>0, <1>2, <2>2, <2>4, BrokenWent DEF Waiting, Went, SameBut
  <2>6. ASSUME NEW v \in Workers, work'[v].pc # "idle", work'[v].gen = g
        PROVE  Waiting(v, k)'
    <3>1. CASE v = w
      BY <2>5, <3>1
    <3>2. CASE v # w
      <4>1. work'[v] = work[v] /\ work[v].gen = g /\ work[v].pc # "idle"
        BY <2>5, <2>6, <3>2
      <4>2. work[v].pc \notin Guarded
        BY <1>0, <2>4, <3>2, <4>1 DEF Locked
      <4>3. work[v].pc \notin {"prepare", "guard"}
        BY <1>0, <2>4, <3>2, <4>1 DEF Appliers, Applies, InHand, Handy
      <4>4. work[v].pc \in Pcs
        BY <1>0 DEF WorkRecords
      <4>5. work[v].pc = "take"
        BY <4>1, <4>2, <4>3, <4>4 DEF Pcs
      <4> QED BY <4>1, <4>5 DEF Waiting
    <3> QED BY <3>1, <3>2
  <2> HIDE DEF g
  <2> QED BY <2>1, <2>2, <2>3, <2>6 DEF Owes, Waiting
<1>3. ASSUME NEW k \in Tasks, Lowering(k)' PROVE Owes(k)'
  <2>1. CASE tasks' = tasks
    BY <1>1, <1>3, <2>1 DEF Lowering
  <2>2. ASSUME NEW j \in Tasks, RunTask(j) PROVE Owes(k)'
    <3>1. tasks'[k] = tasks[k]
      BY <1>0, <1>3, <2>2 DEF RunTask, Lowering, Shaped, TaskRecords
    <3> QED BY <1>1, <1>3, <3>1 DEF Lowering
  <2>3. ASSUME NEW w \in Workers, NEW j \in Tasks, Submit(w),
               tasks' = [tasks EXCEPT ![j] = [state |-> "running", gen |-> work[w].gen,
                                              digest |-> work[w].view, to |-> Wanted(w)]],
               \/ Went(w, {"pc", "task"}) /\ work'[w].pc = "await" /\ work'[w].task = j
               \/ Broken(w)
        PROVE  Owes(k)'
    <3>1. CASE k = j
      BY <1>2, <1>3, <2>3, <3>1
    <3>2. CASE k # j
      <4>1. tasks'[k] = tasks[k]
        BY <1>0, <2>3, <3>2 DEF Shaped
      <4> QED BY <1>1, <1>3, <4>1 DEF Lowering
    <3> QED BY <3>1, <3>2
  <2> QED BY <1>0, <2>1, <2>2, <2>3, TasksMove DEF TaskMoves
<1> QED BY <1>3 DEF TasksOwed

-----------------------------------------------------------------------------
(* The target, and who cut its links. *)

\* What a step can do to the target.
TargetMoves ==
  \/ UNCHANGED <<cfg, cut, latest>>
  \/ \E w \in Workers : \E l \in work[w].left :
       /\ work[w].pc = "disconnect" /\ latest' = latest
       /\ Becomes([cfg EXCEPT ![l] = Down], work[w].gen)
  \/ \E w \in Workers : \E l \in work[w].left :
       /\ work[w].pc = "connect" /\ latest' = latest
       /\ Becomes([cfg EXCEPT ![l] = Snap(w)[l]], work[w].gen)
  \/ \E k \in Tasks :
       /\ tasks[k].state = "running" /\ tasks[k].digest = cfg /\ latest' = latest
       /\ Becomes(tasks[k].to, tasks[k].gen)
  \/ \E l \in Links : OperatorChange(l)

LEMMA TargetMove ==
  ASSUME Shaped, [Next]_vars
  PROVE  TargetMoves
<1>1. ASSUME NEW w \in Workers, Disconnect(w) PROVE TargetMoves
  BY <1>1, DisconnectDoes DEF TargetMoves, Disconnect
<1>2. ASSUME NEW w \in Workers, Connect(w) PROVE TargetMoves
  BY <1>2, ConnectDoes DEF TargetMoves, Connect, Snap
<1>3. ASSUME NEW k \in Tasks, RunTask(k) PROVE TargetMoves
  BY <1>3 DEF RunTask, TargetMoves
<1>4. ASSUME NEW w \in Workers, Step(w) \/ Crash(w) \/ Withdraw(w) \/ WindowEnds(w),
             ~Disconnect(w), ~Connect(w)
      PROVE  UNCHANGED <<cfg, cut, latest>>
  BY <1>4 DEF Step, Crash, Withdraw, WindowEnds, Prepare, Guard, Check, Submit, Await, Verify,
     Finish, Fail, Take, Prove, Restore, ReadBack, Resolve, ReadFails
<1>5. ASSUME \/ \E w \in Workers, r \in Requests : Preflight(w, r) \/ FindActive(w, r)
             \/ \E w \in Workers, g \in Quarantines : Sweep(w, g) \/ KillSwitch(w, g)
             \/ \E g \in Quarantines : RequestKill(g) \/ Expire(g)
             \/ UNCHANGED vars
      PROVE  UNCHANGED <<cfg, cut, latest>>
  BY <1>5 DEF Preflight, FindActive, Sweep, KillSwitch, RequestKill, Expire, vars
<1> QED BY <1>1, <1>2, <1>3, <1>4, <1>5 DEF Next, TargetMoves

LEMMA DriftStep ==
  ASSUME IInv, [Next]_vars
  PROVE  DriftKept'
<1>0. adapter' = adapter /\ TargetMoves /\ DriftKept /\ Shaped
  BY RowsMove, TargetMove DEF IInv
<1>1. ASSUME adapter = "proxmox" PROVE cfg'[1].ver = latest'
  <2>0. Links = {1} /\ adapter # "docker"
    BY <1>1 DEF Links
  <2>1. CASE UNCHANGED <<cfg, cut, latest>>
    BY <1>0, <1>1, <2>1 DEF DriftKept
  <2>2. ASSUME NEW w \in Workers, work[w].pc \in {"disconnect", "connect"} PROVE FALSE
    BY <2>0, <2>2 DEF IInv, InHand, Handy
  <2>3. ASSUME NEW k \in Tasks, tasks[k].state = "running", tasks[k].digest = cfg,
               latest' = latest, Becomes(tasks[k].to, tasks[k].gen)
        PROVE  cfg'[1].ver = latest'
    <3>1. tasks[k].to[1].ver = tasks[k].digest[1].ver
      BY <2>3 DEF IInv, Planned
    <3> QED BY <1>0, <1>1, <2>3, <3>1 DEF Becomes, DriftKept
  <2>4. ASSUME NEW l \in Links, OperatorChange(l) PROVE cfg'[1].ver = latest'
    <3>1. PICK up \in BOOLEAN, v \in {cfg[l].ver, latest, latest + 1} :
            /\ cfg' = [cfg EXCEPT ![l] = [ver |-> v, up |-> up]]
            /\ latest' = IF v = latest + 1 THEN v ELSE latest
      BY <2>0, <2>4 DEF OperatorChange
    <3>2. l = 1 /\ cfg[1].ver = latest
      BY <1>0, <1>1, <2>0 DEF DriftKept
    <3>3. cfg'[1] = [ver |-> v, up |-> up]
      BY <1>0, <3>1, <3>2 DEF Shaped, Configs
    <3>4. latest' = v
      BY <3>1, <3>2
    <3> QED BY <3>3, <3>4
  <2> QED BY <1>0, <2>1, <2>2, <2>3, <2>4 DEF TargetMoves
<1> QED BY <1>0, <1>1 DEF DriftKept

\* Generation g may be charged with the cut of link l.
Charged(g, l) ==
  /\ g \in Quarantines /\ gens[g].status \in Active /\ gens[g].snap[l].up
  /\ \A w \in Workers : work[w].pc = "resolve" => work[w].gen # g

LEMMA CutsMove ==
  ASSUME IInv, [Next]_vars, NEW l \in Links
  PROVE  /\ cfg'[l].up => cut'[l] = None
         /\ cut'[l] = None \/ Charged(cut'[l], l)
<1>0. /\ Shaped /\ TargetMoves /\ InHand /\ Locked /\ Rows
      /\ cut[l] = None \/ Charged(cut[l], l)
      /\ cfg[l].up => cut[l] = None
  BY TargetMove DEF IInv, Cuts, Charged, Shaped
<1>1. CASE UNCHANGED <<cfg, cut>>
  BY <1>0, <1>1
<1>2. ASSUME NEW c, NEW g, Becomes(c, g), cfg[l].up /\ ~c[l].up => Charged(g, l)
      PROVE  /\ cfg'[l].up => cut'[l] = None
             /\ cut'[l] = None \/ Charged(cut'[l], l)
  <2>1. cfg' = c /\ cut'[l] = IF c[l].up THEN None ELSE IF cfg[l].up THEN g ELSE cut[l]
    BY <1>2 DEF Becomes
  <2> QED BY <1>0, <1>2, <2>1
<1>3. ASSUME NEW w \in Workers, work[w].pc \in {"disconnect", "connect"}, NEW k \in work[w].left,
             NEW d, cfg[l].up /\ ~[cfg EXCEPT ![k] = d][l].up => l = k
      PROVE  cfg[l].up /\ ~[cfg EXCEPT ![k] = d][l].up => Charged(work[w].gen, l)
  <2>1. /\ work[w].gen \in Quarantines /\ gens[work[w].gen].status \in Active
        /\ work[w].pc \in Guarded
    BY <1>0, <1>3, GuardedRow DEF Guarded
  <2>2. gens[work[w].gen].snap[k].up
    BY <1>3 DEF IInv, Planned, Snap
  <2>3. \A v \in Workers : work[v].pc = "resolve" => work[v].gen # work[w].gen
    BY <1>0, <1>3, <2>1 DEF Locked, Guarded
  <2> QED BY <1>3, <2>1, <2>2, <2>3 DEF Charged
<1>4. ASSUME NEW k \in Links, NEW d
      PROVE  cfg[l].up /\ ~[cfg EXCEPT ![k] = d][l].up => l = k
  BY <1>0 DEF Shaped, Configs
<1>5. ASSUME NEW w \in Workers, NEW k \in work[w].left, work[w].pc = "disconnect",
             Becomes([cfg EXCEPT ![k] = Down], work[w].gen)
      PROVE  /\ cfg'[l].up => cut'[l] = None
             /\ cut'[l] = None \/ Charged(cut'[l], l)
  <2>1. k \in Links
    BY <1>0 DEF Shaped, WorkRecords
  <2> DEFINE c == [cfg EXCEPT ![k] = Down]
  <2>2. Becomes(c, work[w].gen) /\ (cfg[l].up /\ ~c[l].up => Charged(work[w].gen, l))
    BY <1>3, <1>4, <1>5, <2>1
  <2> HIDE DEF c
  <2> QED BY <1>2, <2>2
<1>6. ASSUME NEW w \in Workers, NEW k \in work[w].left, work[w].pc = "connect",
             Becomes([cfg EXCEPT ![k] = Snap(w)[k]], work[w].gen)
      PROVE  /\ cfg'[l].up => cut'[l] = None
             /\ cut'[l] = None \/ Charged(cut'[l], l)
  <2>1. k \in Links
    BY <1>0 DEF Shaped, WorkRecords
  <2> DEFINE c == [cfg EXCEPT ![k] = Snap(w)[k]]
  <2>2. Becomes(c, work[w].gen) /\ (cfg[l].up /\ ~c[l].up => Charged(work[w].gen, l))
    BY <1>3, <1>4, <1>6, <2>1
  <2> HIDE DEF c
  <2> QED BY <1>2, <2>2
<1>7. ASSUME NEW k \in Tasks, tasks[k].state = "running", Becomes(tasks[k].to, tasks[k].gen)
      PROVE  /\ cfg'[l].up => cut'[l] = None
             /\ cut'[l] = None \/ Charged(cut'[l], l)
  <2>1. /\ tasks[k].gen \in Quarantines /\ adapter # "docker"
    BY <1>7 DEF IInv, Planned
  <2>2. l = 1
    BY <2>1 DEF Links
  <2>3. ~tasks[k].to[l].up => Charged(tasks[k].gen, l)
    <3> SUFFICES ASSUME ~tasks[k].to[l].up PROVE Charged(tasks[k].gen, l)
      OBVIOUS
    <3>1. Owes(k)
      BY <1>7, <2>2 DEF IInv, TasksOwed, Lowering
    <3> QED BY <2>1, <2>2, <3>1 DEF Owes, Waiting, Charged, Active
  <2> QED BY <1>2, <1>7, <2>3
<1>8. ASSUME NEW k \in Links, OperatorChange(k)
      PROVE  /\ cfg'[l].up => cut'[l] = None
             /\ cut'[l] = None \/ Charged(cut'[l], l)
  <2>1. PICK up \in BOOLEAN, v \in {cfg[k].ver, latest, latest + 1} :
          /\ cfg' = [cfg EXCEPT ![k] = IF adapter = "docker" /\ ~up THEN Down
                                       ELSE [ver |-> v, up |-> up]]
          /\ cut' = [cut EXCEPT ![k] = IF up \/ cfg[k].up THEN None ELSE @]
    BY <1>8 DEF OperatorChange
  <2>2. CASE l = k
    <3>1. cfg'[l].up => up
      BY <1>0, <2>1, <2>2 DEF Shaped, Configs, Down
    <3>2. cut'[l] = IF up \/ cfg[l].up THEN None ELSE cut[l]
      BY <1>0, <2>1, <2>2 DEF Shaped
    <3> QED BY <1>0, <3>1, <3>2
  <2>3. CASE l # k
    BY <1>0, <2>1, <2>3 DEF Shaped, Configs
  <2> QED BY <2>2, <2>3
<1> QED BY <1>0, <1>1, <1>5, <1>6, <1>7, <1>8 DEF TargetMoves

\* An executor about to resolve: it was already, or it has just seen its links up.
LEMMA Resolvers ==
  ASSUME IInv, [Next]_vars, NEW v \in Workers, work'[v].pc = "resolve"
  PROVE  /\ work'[v].gen = work[v].gen
         /\ \/ work[v].pc = "resolve"
            \/ cut' = cut /\ \A l \in Links : cut[l] # work[v].gen
<1>0. /\ Shaped /\ InHand /\ Handy(v) /\ work \in [Workers -> WorkRecords] /\ Cuts
      /\ cfg \in Configs
  BY DEF IInv, InHand, Shaped
<1> DEFINE Was == /\ work'[v].gen = work[v].gen
                  /\ \/ work[v].pc = "resolve"
                     \/ cut' = cut /\ \A l \in Links : cut[l] # work[v].gen
<1>1. ASSUME work'[v].pc = work[v].pc, work'[v].gen = work[v].gen PROVE Was
  BY <1>1
<1>2. ASSUME Left(v) PROVE FALSE
  BY <1>2 DEF Left, Idle
<1>3. ASSUME Broken(v) PROVE FALSE
  BY <1>0, <1>2, <1>3, BrokenWent
<1>4. ASSUME NEW w \in Workers, Step(w) PROVE Was
  <2>1. CASE v = w
    <3>1. ASSUME Prepare(v) PROVE FALSE
      BY <1>0, <1>2, <3>1, PrepareDoes
    <3>2. ASSUME Guard(v) PROVE FALSE
      BY <1>0, <1>2, <3>2, GuardDoes
    <3>3. ASSUME Check(v) PROVE FALSE
      BY <1>0, <3>3, CheckDoes
    <3>4. CASE Disconnect(v)
      BY <1>0, <1>1, <3>4, DisconnectDoes DEF Went, SameBut
    <3>5. ASSUME Submit(v) PROVE FALSE
      BY <1>0, <1>3, <3>5, SubmitDoes
    <3>6. ASSUME Await(v) PROVE FALSE
      BY <1>0, <1>3, <3>6, AwaitDoes
    <3>7. ASSUME Verify(v) PROVE FALSE
      BY <1>0, <3>7, VerifyDoes
    <3>8. ASSUME Finish(v) \/ Fail(v) \/ Resolve(v) PROVE FALSE
      BY <1>0, <1>2, <3>8, FinishDoes, FailDoes, ResolveDoes
    <3>9. ASSUME Take(v) PROVE FALSE
      BY <1>0, <1>2, <3>9, TakeDoes
    <3>10. ASSUME Prove(v) PROVE FALSE
      BY <1>0, <1>2, <3>10, ProveDoes
    <3>11. CASE Restore(v)
      <4>1. adapter # "docker" /\ Went(v, {"pc"}) /\ cfg = Snap(v) /\ cut' = cut
        BY <1>0, <1>3, <3>11, RestoreDoes DEF Restore, Snap
      <4>2. work[v].gen \in Quarantines /\ ~Quarantined(cfg)
        BY <3>11, <4>1, GuardedRow DEF Restore, Guarded, IInv
      <4>3. Links = {1} /\ DOMAIN cfg = {1}
        BY <1>0, <4>1 DEF Links, Configs
      <4>4. \A l \in Links : cfg[l].up
        BY <4>2, <4>3 DEF Quarantined
      <4>5. \A l \in Links : cut[l] # work[v].gen
        BY <1>0, <4>2, <4>4, NamesAssumption DEF Cuts
      <4> QED BY <4>1, <4>5 DEF Went, SameBut
    <3>12. CASE Connect(v)
      BY <1>0, <1>1, <3>12, ConnectDoes DEF Went, SameBut
    <3>13. CASE ReadBack(v)
      <4>1. /\ Went(v, {"pc"}) /\ cut' = cut
            /\ \A l \in Links : gens[work[v].gen].snap[l].up => cfg[l] = gens[work[v].gen].snap[l]
        BY <1>0, <1>3, <3>13, ReadBackDoes DEF ReadBack
      <4>2. work[v].gen \in Quarantines
        BY <1>0, <3>13 DEF ReadBack, Handy
      <4>3. ASSUME NEW l \in Links, cut[l] = work[v].gen PROVE FALSE
        <5>1. gens[work[v].gen].snap[l].up /\ ~cfg[l].up
          BY <1>0, <4>2, <4>3, NamesAssumption DEF Cuts
        <5> QED BY <4>1, <5>1
      <4> QED BY <4>1, <4>3 DEF Went, SameBut
    <3>14. ASSUME ReadFails(v) PROVE FALSE
      BY <1>3, <3>14 DEF ReadFails
    <3> QED BY <1>4, <2>1, <3>1, <3>2, <3>3, <3>4, <3>5, <3>6, <3>7, <3>8, <3>9, <3>10, <3>11,
               <3>12, <3>13, <3>14 DEF Step
  <2>2. CASE v # w
    <3>1. work'[v] = work[v]
      BY <1>0, <1>4, <2>2 DEF Step, Prepare, Guard, Check, Disconnect, Submit, Await, Verify,
         Finish, Fail, Take, Prove, Restore, Connect, ReadBack, Resolve, ReadFails, Go, Leave,
         Broken
    <3> QED BY <1>1, <3>1
  <2> QED BY <2>1, <2>2
<1>5. ASSUME NEW w \in Workers, Crash(w) PROVE Was
  BY <1>0, <1>1, <1>2, <1>5, LeaveLeft DEF Crash, Left
<1>6. ASSUME NEW w \in Workers, Withdraw(w) \/ WindowEnds(w) PROVE Was
  BY <1>0, <1>1, <1>6, ApprovalDoes DEF Went, SameBut
<1>7. ASSUME NEW w \in Workers, NEW r \in Requests, Preflight(w, r) \/ FindActive(w, r) PROVE Was
  BY <1>0, <1>1, <1>7, PreflightDoes, FindActiveDoes DEF Begun
<1>8. ASSUME NEW w \in Workers, NEW h \in Quarantines, Sweep(w, h) \/ KillSwitch(w, h) PROVE Was
  <2>1. work' = work \/ \E m \in {"sweep", "kill"} : RecoverLocked(w, h, m)
    BY <1>8 DEF Sweep, KillSwitch
  <2> QED BY <1>0, <1>1, <2>1, RecoverDoes DEF Begun
<1>9. ASSUME \/ \E h \in Quarantines : RequestKill(h) \/ Expire(h)
             \/ \E j \in Tasks : RunTask(j)
             \/ \E l \in Links : OperatorChange(l)
             \/ UNCHANGED vars
      PROVE  Was
  BY <1>1, <1>9 DEF RequestKill, Expire, RunTask, OperatorChange, vars
<1> QED BY <1>4, <1>5, <1>6, <1>7, <1>8, <1>9 DEF Next

LEMMA CutsStep ==
  ASSUME IInv, [Next]_vars
  PROVE  Cuts'
<1>0. Links' = Links /\ RowMoves /\ InHand /\ Locked
  BY RowsMove, SameTypes DEF IInv
<1>1. ASSUME NEW g \in Quarantines, NEW l \in Links, Charged(g, l)
      PROVE  gens'[g].status \in Active /\ gens'[g].snap[l].up
  <2>1. gens'[g].snap = gens[g].snap
    BY <1>1, SnapKept DEF Charged, Active
  <2>2. gens'[g].status \in Active
    BY <1>0, <1>1 DEF RowMoves, GenWent, GenBut, Charged, Active
  <2> QED BY <1>1, <2>1, <2>2 DEF Charged
<1>2. ASSUME NEW l \in Links
      PROVE  /\ cfg'[l].up => cut'[l] = None
             /\ cut'[l] # None => gens'[cut'[l]].status \in Active /\ gens'[cut'[l]].snap[l].up
  <2>1. /\ cfg'[l].up => cut'[l] = None
        /\ cut'[l] = None \/ Charged(cut'[l], l)
    BY CutsMove
  <2> QED BY <1>1, <2>1 DEF Charged
<1>3. ASSUME NEW l \in Links, NEW v \in Workers, work'[v].pc = "resolve"
      PROVE  cut'[l] # work'[v].gen
  <2>1. /\ work'[v].gen = work[v].gen
        /\ \/ work[v].pc = "resolve"
           \/ cut' = cut /\ \A k \in Links : cut[k] # work[v].gen
    BY <1>3, Resolvers
  <2>2. CASE work[v].pc = "resolve"
    <3>1. work[v].gen \in Quarantines
      BY <1>0, <2>2 DEF InHand, Handy
    <3>2. cut'[l] = None \/ Charged(cut'[l], l)
      BY CutsMove
    <3> QED BY <2>1, <2>2, <3>1, <3>2, NamesAssumption DEF Charged
  <2> QED BY <2>1, <2>2
<1> QED BY <1>0, <1>2, <1>3 DEF Cuts

-----------------------------------------------------------------------------
(* The theorems. *)

LEMMA InitialTarget ==
  ASSUME Init
  PROVE  cfg \in Configs /\ \A l \in Links : cfg[l].up
<1>1. [ver |-> 1, up |-> TRUE] \in [ver : 0..MaxVer, up : BOOLEAN]
  BY BoundsAssumption
<1> QED BY <1>1 DEF Init, Configs

LEMMA Initial ==
  ASSUME Init
  PROVE  IInv
<1>1. adapter \in Adapters /\ cfg \in Configs
  BY InitialTarget DEF Init
<1>2. gens \in [Quarantines -> Generations]
  <2>1. Unprepared \in Generations
    BY BoundsAssumption DEF Unprepared, Generations, Statuses
  <2> QED BY <2>1 DEF Init
<1>3. tasks \in [Tasks -> TaskRecords] /\ work \in [Workers -> WorkRecords]
  BY IdleTyped DEF Init, NoTask, TaskRecords
<1>4. Shaped
  BY <1>1, <1>2, <1>3, BoundsAssumption DEF Init, Shaped
<1>5. \A w \in Workers : work[w].pc = "idle" /\ work[w].upid = 0
  BY DEF Init, Idle
<1>6. /\ \A g \in Quarantines : /\ gens[g].status = "none" /\ gens[g].receipts = {}
                                /\ gens[g].upid = 0
      /\ \A k \in Tasks : tasks[k].state = "none"
      /\ \A l \in Links : cut[l] = None
  BY DEF Init, Unprepared, NoTask
<1>7. InHand
  BY <1>5 DEF InHand, Handy
<1>8. Rows
  BY <1>6 DEF Rows
<1>9. OneActive /\ Locked /\ Appliers /\ ApplyFenced
  BY <1>5, <1>6 DEF OneActive, Locked, Appliers, Applies, ApplyFenced, Active, Guarded
<1>10. Planned /\ TasksOwed
  BY <1>5, <1>6 DEF Planned, TasksOwed, Lowering
<1>11. Cuts
  BY <1>5, <1>6 DEF Cuts
<1>12. DriftKept
  BY DEF Init, DriftKept, Links
<1> QED BY <1>4, <1>7, <1>8, <1>9, <1>10, <1>11, <1>12 DEF IInv

\* The invariant is inductive.
THEOREM Invariant == Spec => []IInv
<1>1. Init => IInv
  BY Initial
<1>2. IInv /\ [Next]_vars => IInv'
  <2> SUFFICES ASSUME IInv, [Next]_vars PROVE IInv'
    OBVIOUS
  <2>1. Shaped' /\ InHand' /\ Rows' /\ OneActive' /\ Locked' /\ Appliers'
    BY ShapedStep, InHandStep, RowsStep, OneActiveStep, LockedStep, AppliersStep
  <2>2. Planned' /\ TasksOwed' /\ Cuts' /\ DriftKept' /\ ApplyFenced'
    BY PlannedStep, TasksOwedStep, CutsStep, DriftStep, FencedStep
  <2> QED BY <2>1, <2>2 DEF IInv
<1> QED BY <1>1, <1>2, PTL DEF Spec

\* Every link that a generation's write took down and nobody has put up again is
\* charged to a generation that recovery will still look at, and of the executors
\* (apply_prepared, sweep, kill switch, reconcile) at most one is between its guard
\* and its commit.
THEOREM IsolationsAreOwned == Spec => []Isolation
<1>1. IInv => Isolation
  <2> SUFFICES ASSUME IInv PROVE Isolation
    OBVIOUS
  <2>1. TypeOK
    <3>1. Shaped /\ Rows
      BY DEF IInv
    <3>2. \A g \in Quarantines : gens[g] \in Generations
      BY <3>1 DEF Shaped
    <3>3. \A w \in Workers : work[w].pc \in Pcs
      BY <3>1 DEF Shaped, WorkRecords
    <3>4. \A g \in Quarantines :
            /\ gens[g].status \in Statuses /\ gens[g].snap \in Configs \cup {None}
            /\ gens[g].expired \in BOOLEAN /\ gens[g].upid \in 0..MaxTasks
      BY <3>2 DEF Generations
    <3>5. \A g \in Quarantines :
            /\ (gens[g].status = "completed") => gens[g].receipts = {"apply"}
            /\ ("rollback" \in gens[g].receipts) = (gens[g].status = "rolled_back")
      BY <3>1 DEF Rows
    <3> QED BY <3>1, <3>3, <3>4, <3>5 DEF TypeOK, Shaped, TaskRecords, Pcs
  <2>2. CutIsOwned
    BY DEF IInv, Cuts, CutIsOwned
  <2>3. SoleMutator
    BY DEF IInv, SoleMutator, OneActive, Locked, InHand, Handy, Guarded
  <2> QED BY <2>1, <2>2, <2>3 DEF Isolation
<1> QED BY <1>1, Invariant, PTL

\* However late a Proxmox task runs, it does not overwrite a NIC the operator has
\* reconfigured since (the digest write_net0 sends).
THEOREM OperatorKeepsNic == Spec => []DriftKept
<1>1. IInv => DriftKept
  BY DEF IInv
<1> QED BY <1>1, Invariant, PTL

\* An apply past acquire_quarantine_guard works on a prepared generation, under an
\* approval that nobody has withdrawn since it was validated.
THEOREM AppliesStayFenced == Spec => []ApplyFenced
<1>1. IInv => ApplyFenced
  BY DEF IInv
<1> QED BY <1>1, Invariant, PTL

=============================================================================
