------------------------------ MODULE Quarantine ------------------------------
(***************************************************************************)
(* Quarantine generations of one container or VM: the write-ahead pipeline *)
(* of executor/src/quarantine_runtime.rs (apply_prepared, recover, sweep,  *)
(* reconcile), the generation rows and their guard in                      *)
(* storage/src/quarantine_intents.rs, and the Docker and Proxmox adapters  *)
(* of firewall-agent.                                                      *)
(*                                                                         *)
(* `apply_prepared` and `reconcile` are modelled behind the gate that      *)
(* refuses live dispatch in production (quarantine_gate.rs), where only    *)
(* the repository's tests call them; recovery and the kill switch are not  *)
(* behind it.  An executor may die between any two steps and every commit  *)
(* and remote call may fail.  A Docker command has happened or not when it *)
(* returns or times out; a Proxmox task goes on by itself.                 *)
(***************************************************************************)
EXTENDS Integers, FiniteSets

CONSTANTS
  Adapters,       \* adapters to look at: subset of {"docker", "proxmox"}
  Workers,        \* executor tasks
  Quarantines,    \* quarantine requests; a generation has its request's name
  Reconciles,     \* operator reconciliation requests
  Asked,          \* the requests made for the target of each adapter
  MaxVer,         \* versions of a network attachment or NIC
  MaxTasks,       \* Proxmox configuration tasks
  MaxFaults,      \* crashes and lost answers
  None

ASSUME NamesAssumption ==
  /\ Adapters \subseteq {"docker", "proxmox"}
  /\ None \notin Quarantines \cup Reconciles
  /\ Quarantines \cap Reconciles = {}
  /\ Asked \in [Adapters -> SUBSET (Quarantines \cup Reconciles)]
ASSUME BoundsAssumption ==
  /\ MaxVer \in Nat \ {0} /\ {MaxTasks, MaxFaults} \subseteq Nat

VARIABLES
  adapter,        \* the adapter of the target, fixed
  cfg,            \* the target's links: networks of a container, net0 of a VM
  tasks,          \* Proxmox worker tasks
  gens,           \* firewall_action_intents, one generation per request
  claimed,        \* requests an executor has taken
  kills,          \* pending kill-switch requests, bound to a generation
  work,           \* what each executor is doing, and its request's approval
  faults,
  latest,         \* history: the version the operator configured last
  cut,            \* history: generation whose write took each link down
  lifted          \* history: pairs <<generation, generation whose task lifted it>>

vars == <<adapter, cfg, tasks, gens, claimed, kills, work, faults,
          latest, cut, lifted>>

Requests == Quarantines \cup Reconciles
Links    == IF adapter = "docker" THEN {1, 2} ELSE {1}
Active   == {"prepared", "completed", "recovery_required"}
Tasks    == 1..MaxTasks
Down     == [ver |-> 0, up |-> FALSE]

Unprepared == [status |-> "none", snap |-> None, expired |-> FALSE, upid |-> 0,
               receipts |-> {}]
NoTask     == [state |-> "none", gen |-> None, digest |-> None, to |-> None]
Idle       == [pc |-> "idle", mode |-> None, gen |-> None, req |-> None,
               view |-> None, left |-> {}, bad |-> FALSE, task |-> 0, upid |-> 0,
               approval |-> "valid"]

\* Steps at which an executor holds the row lock of its generation.
Guarded  == {"check", "disconnect", "await", "verify", "finish", "fail",
             "prove", "restore", "connect", "submit", "readback", "resolve"}
Holds(g) == {w \in Workers : work[w].gen = g /\ work[w].pc \in Guarded}
Go(w, pc) == work' = [work EXCEPT ![w].pc = pc]
Leave(w)  == work' = [work EXCEPT ![w] = Idle]
Fault     == faults < MaxFaults /\ faults' = faults + 1

Init ==
  /\ adapter \in Adapters
  /\ cfg = [l \in Links |-> [ver |-> 1, up |-> TRUE]]
  /\ tasks = [k \in Tasks |-> NoTask]
  /\ gens = [g \in Quarantines |-> Unprepared]
  /\ claimed = {} /\ kills = {} /\ faults = 0 /\ latest = 1 /\ lifted = {}
  /\ work = [w \in Workers |-> Idle]
  /\ cut = [l \in Links |-> None]

-----------------------------------------------------------------------------
\* The target and its adapters.

\* Docker: on no network; Proxmox: link_down=1.
Quarantined(c) == \A l \in DOMAIN c : ~c[l].up
\* quarantine_net0: the same NIC, link down.
Isolated(c) == [l \in DOMAIN c |-> [c[l] EXCEPT !.up = FALSE]]

\* A write of generation g makes the target c; bookkeeping of who cut what.
Becomes(c, g) ==
  /\ cfg' = c
  /\ cut' = [l \in Links |-> IF c[l].up THEN None
                             ELSE IF cfg[l].up THEN g ELSE cut[l]]
  /\ lifted' = lifted \cup {<<cut[l], g>> : l \in {k \in Links :
                                c[k].up /\ ~cfg[k].up /\ cut[k] # None}}

\* The Proxmox worker runs a task: the digest must still be the configuration's.
RunTask(k) ==
  /\ tasks[k].state = "running"
  /\ IF tasks[k].digest = cfg
     THEN /\ Becomes(tasks[k].to, tasks[k].gen)
          /\ tasks' = [tasks EXCEPT ![k].state = "ok"]
     ELSE /\ tasks' = [tasks EXCEPT ![k].state = "failed"]
          /\ UNCHANGED <<cfg, cut, lifted>>
  /\ UNCHANGED <<adapter, gens, claimed, kills, work, faults, latest>>

\* The operator reconfigures a link, or puts it up or down by hand.
OperatorChange(l) ==
  /\ \E up \in BOOLEAN, v \in {cfg[l].ver, latest, latest + 1} :
        /\ v <= MaxVer /\ (adapter = "docker" /\ up => v > 0)
        /\ LET new == IF adapter = "docker" /\ ~up THEN Down ELSE [ver |-> v, up |-> up]
           IN /\ new # cfg[l]
              /\ cfg' = [cfg EXCEPT ![l] = new]
              /\ cut' = [cut EXCEPT ![l] = IF up \/ cfg[l].up THEN None ELSE @]
        /\ latest' = IF v = latest + 1 THEN v ELSE latest
  /\ Fault
  /\ UNCHANGED <<adapter, tasks, gens, claimed, kills, work, lifted>>

-----------------------------------------------------------------------------
\* Applying a quarantine: preflight, prepare, guard, mutate, verify, finish.

Claimable(w, r) == work[w].pc = "idle" /\ r \in Asked[adapter] \ claimed

\* Preflight refuses a target that is isolated already; its reading is the plan.
Preflight(w, r) ==
  /\ Claimable(w, r) /\ r \in Quarantines
  /\ claimed' = claimed \cup {r}
  /\ IF Quarantined(cfg) THEN UNCHANGED work
     ELSE work' = [work EXCEPT ![w] = [Idle EXCEPT !.pc = "prepare", !.mode = "apply",
                                                   !.gen = r, !.req = r, !.view = cfg]]
  /\ UNCHANGED <<adapter, cfg, tasks, gens, kills, faults, latest, cut, lifted>>

\* prepare_quarantine_intent: current approval, and the unique index on the
\* active generation of a target.
MayPrepare(w) ==
  /\ work[w].approval = "valid"
  /\ \A g \in Quarantines : gens[g].status \notin Active

Prepare(w) ==
  /\ work[w].pc = "prepare"
  /\ LET r == work[w].req IN
     IF MayPrepare(w)
     THEN /\ gens' = [gens EXCEPT ![r].status = "prepared", ![r].snap = work[w].view]
          /\ work' = [work EXCEPT ![w].pc = "guard", ![w].view = None]
     ELSE Leave(w) /\ UNCHANGED gens
  /\ UNCHANGED <<adapter, cfg, tasks, claimed, kills, faults, latest, cut, lifted>>

\* acquire_quarantine_guard: FOR UPDATE SKIP LOCKED on an active generation.
Acquirable(g) == gens[g].status \in Active /\ Holds(g) = {}

\* validate_approval: under the row locks the approval still stands.
Validated(w) == work[w].approval = "valid"

\* Guard the prepared generation and validate once more; otherwise leave it as it is.
Guard(w) ==
  /\ work[w].pc = "guard"
  /\ LET g == work[w].gen IN
     IF /\ Acquirable(g) /\ gens[g].status = "prepared"
        /\ ~gens[g].expired /\ Validated(w)
     THEN Go(w, "check")
     ELSE Leave(w)
  /\ UNCHANGED <<adapter, cfg, tasks, gens, claimed, kills, faults, latest, cut, lifted>>

\* apply_checked: what is there must be what was prepared.
Check(w) ==
  /\ work[w].pc = "check"
  /\ LET snap == gens[work[w].gen].snap IN
     work' = [work EXCEPT ![w].pc = IF cfg # snap THEN "fail"
                                    ELSE IF adapter = "docker" THEN "disconnect" ELSE "submit",
                          ![w].view = cfg,
                          ![w].left = {l \in Links : cfg[l].up}]
  /\ UNCHANGED <<adapter, cfg, tasks, gens, claimed, kills, faults, latest, cut, lifted>>

\* docker network disconnect, one network after another.  A failing command may
\* have had its effect, and starts the compensating reconnect.
Disconnect(w) ==
  /\ work[w].pc = "disconnect"
  /\ IF work[w].left = {} THEN Go(w, "verify") /\ UNCHANGED <<cfg, cut, lifted, faults>>
     ELSE \E l \in work[w].left : \E effect, ok \in BOOLEAN :
        /\ \A k \in work[w].left : l <= k
        /\ ok => effect /\ cfg[l].up
        /\ IF effect /\ cfg[l].up THEN Becomes([cfg EXCEPT ![l] = Down], work[w].gen)
                                  ELSE UNCHANGED <<cfg, cut, lifted>>
        /\ IF ok THEN UNCHANGED faults ELSE IF cfg[l].up THEN Fault ELSE UNCHANGED faults
        /\ work' = IF ok THEN [work EXCEPT ![w].left = @ \ {l}]
                   ELSE [work EXCEPT ![w].pc = "restore"]
  /\ UNCHANGED <<adapter, tasks, gens, claimed, kills, latest>>

\* write_net0: POST the configuration with the digest just read.  The answer may
\* be lost after the task was accepted.
Wanted(w) == IF work[w].mode = "apply" THEN Isolated(work[w].view)
             ELSE gens[work[w].gen].snap
Broken(w) == IF work[w].mode = "reconcile" THEN Leave(w) ELSE Go(w, "fail")

Submit(w) ==
  /\ work[w].pc = "submit"
  /\ \/ Broken(w) /\ UNCHANGED <<tasks, faults>>
     \/ \E k \in Tasks :
          /\ tasks[k].state = "none" /\ \A j \in Tasks : j < k => tasks[j].state # "none"
          /\ tasks' = [tasks EXCEPT ![k] = [state |-> "running", gen |-> work[w].gen,
                                            digest |-> work[w].view, to |-> Wanted(w)]]
          /\ \/ work' = [work EXCEPT ![w].pc = "await", ![w].task = k] /\ UNCHANGED faults
             \/ Broken(w) /\ Fault
  /\ UNCHANGED <<adapter, cfg, gens, claimed, kills, latest, cut, lifted>>

\* wait_for_config_task: stopped/OK, stopped with an error, or the wait times out.
\* The UPID is noted in the guard's transaction once the apply task succeeded.
Await(w) ==
  /\ work[w].pc = "await"
  /\ \/ /\ tasks[work[w].task].state = "ok"
        /\ work' = [work EXCEPT ![w].pc = IF work[w].mode = "apply" THEN "verify" ELSE "readback",
                                ![w].upid = IF work[w].mode = "apply" THEN work[w].task ELSE @]
     \/ tasks[work[w].task].state \in {"running", "failed"} /\ Broken(w)
  /\ UNCHANGED <<adapter, cfg, tasks, gens, claimed, kills, faults, latest, cut, lifted>>

\* verify: a fresh reading shows the target isolated.
Verify(w) ==
  /\ work[w].pc = "verify"
  /\ Go(w, IF Quarantined(cfg) THEN "finish" ELSE "fail")
  /\ UNCHANGED <<adapter, cfg, tasks, gens, claimed, kills, faults, latest, cut, lifted>>

\* QuarantineGuard::finish: receipt, status and UPID in one transaction.
Finish(w) ==
  /\ work[w].pc = "finish"
  /\ \/ /\ gens' = [gens EXCEPT ![work[w].gen].status = "completed",
                                ![work[w].gen].upid = work[w].upid,
                                ![work[w].gen].receipts = @ \cup {"apply"}]
        /\ UNCHANGED faults
     \/ Fault /\ UNCHANGED gens
  /\ Leave(w)
  /\ UNCHANGED <<adapter, cfg, tasks, claimed, kills, latest, cut, lifted>>

\* recovery_required: the transition and whatever UPID the transaction holds.
Fail(w) ==
  /\ work[w].pc = "fail"
  /\ \/ /\ gens' = [gens EXCEPT ![work[w].gen].status = "recovery_required",
                                ![work[w].gen].upid = IF work[w].upid # 0
                                                      THEN work[w].upid ELSE @]
        /\ UNCHANGED faults
     \/ Fault /\ UNCHANGED gens
  /\ Leave(w)
  /\ UNCHANGED <<adapter, cfg, tasks, claimed, kills, latest, cut, lifted>>

-----------------------------------------------------------------------------
\* Recovery: the sweep, the kill switch and the operator's reconciliation.

\* What `recover` does with a generation it could lock.
RecoverLocked(w, g, mode) ==
  CASE gens[g].status = "completed" ->
         /\ work' = [work EXCEPT ![w] = [Idle EXCEPT !.pc = "restore", !.mode = mode, !.gen = g]]
         /\ UNCHANGED gens
    [] gens[g].status = "prepared" ->
         gens' = [gens EXCEPT ![g].status = "recovery_required"] /\ UNCHANGED work
    [] OTHER -> UNCHANGED <<gens, work>>

\* recoverable_quarantine_intents: prepared, or completed and past its TTL.
Due(g) == gens[g].status = "prepared" \/ (gens[g].status = "completed" /\ gens[g].expired)

\* A pass lists them unlocked. One it lists as prepared may be completed when the pass
\* comes to it, however late that is, and is restored before its TTL.
Listed(g) == Due(g) \/ gens[g].status = "completed"

\* Mutant: the sweep leaves prepared generations to their executor.
SweepExpired(w, g) ==
  /\ work[w].pc = "idle" /\ gens[g].status = "completed" /\ Acquirable(g)
  /\ RecoverLocked(w, g, "sweep")
  /\ UNCHANGED <<adapter, cfg, tasks, claimed, kills, faults, latest, cut, lifted>>

Sweep(w, g) ==
  /\ work[w].pc = "idle" /\ Listed(g) /\ Acquirable(g)
  /\ RecoverLocked(w, g, "sweep")
  /\ UNCHANGED <<adapter, cfg, tasks, claimed, kills, faults, latest, cut, lifted>>

\* A kill-switch request names a generation.
RequestKill(g) ==
  /\ gens[g].status \in Active /\ g \notin kills
  /\ kills' = kills \cup {g}
  /\ UNCHANGED <<adapter, cfg, tasks, gens, claimed, work, faults, latest, cut, lifted>>

\* The kill switch: a resolved generation is done, any other is recovered.
KillSwitch(w, g) ==
  /\ work[w].pc = "idle" /\ g \in kills
  /\ IF gens[g].status \in Active
     THEN Acquirable(g) /\ RecoverLocked(w, g, "kill") /\ UNCHANGED kills
     ELSE kills' = kills \ {g} /\ UNCHANGED <<gens, work>>
  /\ UNCHANGED <<adapter, cfg, tasks, claimed, faults, latest, cut, lifted>>

\* reconcile: look the active generation up by the target, unlocked.
FindActive(w, r) ==
  /\ Claimable(w, r) /\ r \in Reconciles
  /\ claimed' = claimed \cup {r}
  /\ \/ \E g \in Quarantines :
          /\ gens[g].status \in Active
          /\ work' = [work EXCEPT ![w] = [Idle EXCEPT !.pc = "take", !.mode = "reconcile",
                                                      !.gen = g, !.req = r]]
     \/ (\A g \in Quarantines : gens[g].status \notin Active) /\ UNCHANGED work
  /\ UNCHANGED <<adapter, cfg, tasks, gens, kills, faults, latest, cut, lifted>>

\* Then lock it and validate the reconcile request's own approval.
Take(w) ==
  /\ work[w].pc = "take"
  /\ LET g == work[w].gen IN
     IF Acquirable(g) /\ gens[g].status = "recovery_required" /\ Validated(w)
     THEN Go(w, "prove") ELSE Leave(w)
  /\ UNCHANGED <<adapter, cfg, tasks, gens, claimed, kills, faults, latest, cut, lifted>>

\* Mutant: without a recorded UPID there is nothing to wait for.
ProvedUnrecorded(g) ==
  \/ adapter = "docker" \/ gens[g].upid = 0
  \/ tasks[gens[g].upid].state \in {"ok", "failed"}
\* prove_remote_completion: Proxmox needs a recorded UPID whose task is decided;
\* a Docker readback is proof enough.
Proved(g) ==
  \/ adapter = "docker"
  \/ gens[g].upid # 0 /\ tasks[gens[g].upid].state \in {"ok", "failed"}

Prove(w) ==
  /\ work[w].pc = "prove"
  /\ IF Proved(work[w].gen) THEN Go(w, "restore") ELSE Leave(w)
  /\ UNCHANGED <<adapter, cfg, tasks, gens, claimed, kills, faults, latest, cut, lifted>>

\* Mutant: whatever differs from the snapshot is rolled back.
RollbackAnything(snap) == cfg # snap
\* rollback_needed: restored already, our own isolation, or drift.
Restored(snap)       == cfg = snap
RollbackNeeded(snap) == cfg = Isolated(snap)

\* Start the rollback of either adapter with a fresh reading.
Restore(w) ==
  /\ work[w].pc = "restore"
  /\ LET snap == gens[work[w].gen].snap IN
     IF adapter = "docker"
     THEN work' = [work EXCEPT ![w].pc = "connect", ![w].view = cfg,
                               ![w].left = {l \in Links : snap[l].up}]
     ELSE \/ Restored(snap) /\ Go(w, "resolve")
          \/ ~Restored(snap) /\ RollbackNeeded(snap)
             /\ work' = [work EXCEPT ![w].pc = "submit", ![w].view = cfg]
          \/ ~Restored(snap) /\ ~RollbackNeeded(snap) /\ Broken(w)
  /\ UNCHANGED <<adapter, cfg, tasks, gens, claimed, kills, faults, latest, cut, lifted>>

\* docker network connect for every network of the snapshot that was missing; a
\* network that is there with other settings is a failure, not overwritten.
Connect(w) ==
  /\ work[w].pc = "connect"
  /\ LET snap == gens[work[w].gen].snap IN
     IF work[w].left = {} THEN Go(w, "readback") /\ UNCHANGED <<cfg, cut, lifted, faults>>
     ELSE \E l \in work[w].left : \E effect, ok \in BOOLEAN :
        /\ \A k \in work[w].left : l <= k
        /\ LET skip == work[w].view[l].up
               runs == ~skip /\ ~cfg[l].up
           IN /\ ok => effect
              /\ ~runs => ok = FALSE /\ effect = FALSE
              /\ IF runs /\ effect THEN Becomes([cfg EXCEPT ![l] = snap[l]], work[w].gen)
                                   ELSE UNCHANGED <<cfg, cut, lifted>>
              /\ IF runs /\ ~ok THEN Fault ELSE UNCHANGED faults
              /\ work' = [work EXCEPT ![w].left = @ \ {l},
                                      ![w].bad = @ \/ IF skip THEN work[w].view[l] # snap[l]
                                                              ELSE ~ok]
  /\ UNCHANGED <<adapter, tasks, gens, claimed, kills, latest>>

\* Readback: every link of the snapshot is as it was.
ReadBack(w) ==
  /\ work[w].pc = "readback"
  /\ LET snap == gens[work[w].gen].snap
         good == ~work[w].bad /\ \A l \in Links : snap[l].up => cfg[l] = snap[l]
     IN IF work[w].mode = "apply" THEN Go(w, "fail")
        ELSE IF good THEN Go(w, "resolve") ELSE Broken(w)
  /\ UNCHANGED <<adapter, cfg, tasks, gens, claimed, kills, faults, latest, cut, lifted>>

\* resolve_rollback: rollback receipt and rolled_back in one transaction; the
\* kill switch then marks its request processed, best effort.
Resolve(w) ==
  /\ work[w].pc = "resolve"
  /\ LET g == work[w].gen IN
     \/ /\ gens' = [gens EXCEPT ![g].status = "rolled_back",
                                ![g].receipts = @ \cup {"rollback"}]
        /\ kills' \in IF work[w].mode = "kill" THEN {kills, kills \ {g}} ELSE {kills}
        /\ UNCHANGED faults
     \/ Fault /\ UNCHANGED <<gens, kills>>
  /\ Leave(w)
  /\ UNCHANGED <<adapter, cfg, tasks, claimed, latest, cut, lifted>>

-----------------------------------------------------------------------------
\* The world around them.

\* TTL of a generation.
Expire(g) ==
  /\ gens[g].status \in {"prepared", "completed"} /\ ~gens[g].expired
  /\ gens' = [gens EXCEPT ![g].expired = TRUE]
  /\ UNCHANGED <<adapter, cfg, tasks, claimed, kills, work, faults, latest, cut, lifted>>

\* Mutant: the approval is read without locking its rows.
ApprovalUnlocked(w) == FALSE
\* clawforge_lock_quarantine_approval: the rows an approval rests on are locked
\* until the guard's transaction ends.
ApprovalLocked(w) == work[w].pc \in Guarded

\* Lease loss, cancellation, or a change of action or policy, while an executor
\* works on the request (before, it would not be claimed; after, it does not matter).
Withdraw(w) ==
  /\ work[w].req # None /\ work[w].approval = "valid" /\ ~ApprovalLocked(w)
  /\ work' = [work EXCEPT ![w].approval = "withdrawn"]
  /\ UNCHANGED <<adapter, cfg, tasks, gens, claimed, kills, faults, latest, cut, lifted>>

\* The approval window runs out; no lock stops the clock.
WindowEnds(w) ==
  /\ work[w].req # None /\ work[w].approval = "valid"
  /\ work' = [work EXCEPT ![w].approval = "expired"]
  /\ UNCHANGED <<adapter, cfg, tasks, gens, claimed, kills, faults, latest, cut, lifted>>

\* An executor dies: its transaction rolls back, its remote task goes on.
Crash(w) ==
  /\ work[w].pc # "idle" /\ Fault /\ Leave(w)
  /\ UNCHANGED <<adapter, cfg, tasks, gens, claimed, kills, latest, cut, lifted>>

\* A remote reading fails.
ReadFails(w) ==
  /\ work[w].pc \in {"check", "verify", "prove", "restore", "readback"}
  /\ Fault /\ Broken(w)
  /\ UNCHANGED <<adapter, cfg, tasks, gens, claimed, kills, latest, cut, lifted>>

Step(w) ==
  \/ Prepare(w) \/ Guard(w) \/ Check(w) \/ Disconnect(w) \/ Submit(w) \/ Await(w)
  \/ Verify(w) \/ Finish(w) \/ Fail(w) \/ Take(w) \/ Prove(w) \/ Restore(w)
  \/ Connect(w) \/ ReadBack(w) \/ Resolve(w) \/ ReadFails(w)

Next ==
  \/ \E w \in Workers : Step(w) \/ Crash(w) \/ Withdraw(w) \/ WindowEnds(w)
  \/ \E w \in Workers, r \in Requests : Preflight(w, r) \/ FindActive(w, r)
  \/ \E w \in Workers, g \in Quarantines : Sweep(w, g) \/ KillSwitch(w, g)
  \/ \E g \in Quarantines : RequestKill(g) \/ Expire(g)
  \/ \E k \in Tasks : RunTask(k)
  \/ \E l \in Links : OperatorChange(l)

Spec == Init /\ [][Next]_vars

\* An executor that runs finishes what it began (every wait is bounded), and
\* every sweep pass looks at every due generation.
Fairness ==
  /\ \A w \in Workers : WF_vars(Step(w))
  /\ \A g \in Quarantines : WF_vars(\E w \in Workers : Due(g) /\ Sweep(w, g))

FairSpec == Spec /\ Fairness

-----------------------------------------------------------------------------
\* The properties.

Configs  == [Links -> [ver : 0..MaxVer, up : BOOLEAN]]
Statuses == {"none", "rolled_back"} \cup Active

\* Every variable keeps its type, and a generation has the receipts its status
\* asks for: an apply receipt exactly from `completed` on, a rollback receipt
\* exactly when it is rolled back.
TypeOK ==
  /\ adapter \in Adapters /\ cfg \in Configs
  /\ tasks \in [Tasks -> [state : {"none", "running", "ok", "failed"},
                          gen : Quarantines \cup {None},
                          digest : Configs \cup {None}, to : Configs \cup {None}]]
  /\ \A g \in Quarantines :
       /\ gens[g].status \in Statuses /\ gens[g].snap \in Configs \cup {None}
       /\ gens[g].expired \in BOOLEAN /\ gens[g].upid \in 0..MaxTasks
       /\ (gens[g].status = "completed") => gens[g].receipts = {"apply"}
       /\ ("rollback" \in gens[g].receipts) = (gens[g].status = "rolled_back")
  /\ claimed \subseteq Requests /\ kills \subseteq Quarantines
  /\ \A w \in Workers : work[w].pc \in Guarded \cup {"idle", "prepare", "guard", "take"}
  /\ faults \in 0..MaxFaults /\ latest \in 1..MaxVer
  /\ cut \in [Links -> Quarantines \cup {None}]
  /\ lifted \subseteq Quarantines \X Quarantines

\* A link that a generation's write took down, and nobody has put up again,
\* belongs to a generation that still owns its target: no crash, timeout or lost
\* answer leaves an isolation behind that no recovery path will look at.
CutIsOwned == \A l \in Links : cut[l] # None => gens[cut[l]].status \in Active

\* Proxmox: neither an isolation nor a restore overwrites a NIC the operator has
\* reconfigured in between, however late its task runs.
DriftKept == adapter = "proxmox" => cfg[1].ver = latest

\* Of the executors at most one is between its guard and its commit: an apply, a
\* sweep, a kill and a reconcile never work on the target at the same time.
SoleMutator == \A v, w \in Workers :
  v # w => ~(work[v].pc \in Guarded /\ work[w].pc \in Guarded)

\* Every isolation has one owner, and one executor at a time works on it.
Isolation == TypeOK /\ CutIsOwned /\ SoleMutator

\* An apply past its guard works on a generation that recovery has not taken, on
\* an approval nobody has withdrawn since.
ApplyFenced == \A w \in Workers :
  work[w].mode = "apply" /\ work[w].pc \in Guarded =>
    gens[work[w].gen].status = "prepared" /\ work[w].approval # "withdrawn"

\* A quarantine is not kept past its TTL unnoticed: it is rolled back or handed to
\* an operator.  A generation whose executor died is handed over too.
DueEnds == \A g \in Quarantines : Due(g) ~> ~Due(g)

\* "A resolved old ID cannot restore a newer generation at the same target"
\* (executor/src/quarantine_runtime.rs): only a write of the generation that took
\* a link down puts it up again.
OldCannotRestoreNewer == \A p \in lifted : p[1] = p[2]

=============================================================================
