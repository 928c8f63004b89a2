----------------------- MODULE FirewallDispatchProofs -----------------------
(***************************************************************************)
(* Proofs about FirewallDispatch for every value of its constants: any     *)
(* number of replicas, requests, rules, generations and kill requests, any *)
(* timeouts, TTLs, retries and faults, adapter commands bounded or not.    *)
(*                                                                         *)
(* IInv is inductive.  Each of its parts has a lemma: it survives every    *)
(* step of a replica (Sweep, Dispatch, Crash), one leaf per action that    *)
(* can disturb it; EnvironmentStep does the operator's and the clock's.    *)
(***************************************************************************)
EXTENDS FirewallDispatch, TLAPS

\* The outcome of a dispatch is one of three terminal statuses.
LEMMA OutcomeStatus ==
  ASSUME NEW facts \in SUBSET Facts
  PROVE  /\ Outcome(facts) \in {"success", "failed", "rollback_required"}
         /\ Outcome(facts) = "success" => "mandatory" \in facts
<1>1. CASE "uncertain" \in facts
  BY <1>1 DEF Outcome
<1>2. CASE "uncertain" \notin facts /\ "mandatory" \in facts
  <2>1. facts # {} /\ facts # {"owned"}
    BY <1>2
  <2> QED
    BY <1>2, <2>1 DEF Outcome
<1>3. CASE facts = {"owned"}
  BY <1>3 DEF Outcome
<1>4. CASE facts = {}
  BY <1>4 DEF Outcome
<1> QED
  BY <1>1, <1>2, <1>3, <1>4 DEF Facts

\* A prepared row names the request and the rule in the hands of its preparer.
LEMMA InsertTyped ==
  ASSUME GenerationsTyped, NEW w \in Workers, req[w] \in Requests, rule[w] \in Rules,
         NEW g \in Gens, Insert(w, g)
  PROVE  /\ genStatus' \in [Gens -> GenStatus]
         /\ genReq' \in [Gens -> Requests \cup {None}]
         /\ genRule' \in [Gens -> Rules \cup {None}]
         /\ genTtl' \in [Gens -> 0..Ttl]
BY TimeAssumption DEF GenerationsTyped, Insert, GenStatus

\* Types of the generation rows.
LEMMA GenerationsStep ==
  ASSUME TypeOK, Scoped, Identified, NEW w \in Workers,
         Sweep(w) \/ Dispatch(w) \/ Crash(w)
  PROVE  GenerationsTyped'
<1> USE PlanAssumption, TimeAssumption DEF TypeOK, GenerationsTyped, ProcessesTyped,
   Scoped, Identified, OwningSteps, LockSteps
<1>1. CASE RecoverLock(w)
  BY <1>1 DEF RecoverLock, Goto, GenStatus
<1>2. CASE LeaveInFlight(w)
  BY <1>2 DEF LeaveInFlight, EndRecovery, Back, Unlock, GenStatus
<1>3. CASE RecoverPrepared(w)
  BY <1>3 DEF RecoverPrepared, EndRecovery, Back, Unlock, GenStatus
<1>4. CASE LetGo(w)
  BY <1>4 DEF LetGo, Fault, EndRecovery, Back, Unlock, GenStatus
<1>5. CASE Resolve(w)
  BY <1>5 DEF Resolve, Goto, EndRecovery, Back, Unlock, GenStatus
<1>6. CASE Retain(w)
  BY <1>6 DEF Retain, EndRecovery, Back, Unlock, GenStatus
<1>7. CASE Prepare(w)
  BY <1>7 DEF Prepare, Goto, Insert, GenStatus
<1>8. CASE PrepareFails(w)
  <2>1. UNCHANGED <<applied, reverted, guard>>
    BY <1>8 DEF PrepareFails
  <2>2. CASE UNCHANGED <<genStatus, genReq, genRule, genTtl>>
    BY <2>1, <2>2
  <2>3. CASE \E g \in Gens : Insert(w, g)
    <3>1. PICK g \in Gens : Insert(w, g)
      BY <2>3
    <3>2. req[w] \in Requests /\ rule[w] \in Rules
      BY <1>8 DEF PrepareFails, DispatchSteps
    <3> QED
      BY <2>1, <3>1, <3>2, InsertTyped
  <2> QED
    BY <1>8, <2>2, <2>3 DEF PrepareFails
<1>9. CASE Finish(w)
  BY <1>9 DEF Finish, Record, Goto, Verified, GenStatus
<1>10. CASE FinishFails(w)
  BY <1>10 DEF FinishFails, Goto, Fault, GenStatus
<1>11. CASE MarkUncertain(w)
  BY <1>11 DEF MarkUncertain, Fault, Record, Goto, GenStatus
<1>12. CASE Crash(w)
  BY <1>12 DEF Crash, Goto, Fault, Forget, GenStatus
<1>13. CASE UNCHANGED genVars
  BY <1>13 DEF genVars
<1> QED
  BY <1>1, <1>2, <1>3, <1>4, <1>5, <1>6, <1>7, <1>8, <1>9, <1>10, <1>11, <1>12, <1>13
     DEF Sweep, Dispatch, ListKills, RouteKill, LegacyKill, ListGenerations,
     SweepGeneration, RecoverBusy, RecoverResolved, Rollback, LegacyRollback,
     MarkProcessed, Maintain, Claim, NothingToClaim, Authorize, Refuse, Preflight,
     Apply, Verify, DispatchDone, MarkRunning, MarkTerminal, CompletionRefused,
     ReleaseLease, Added, Allowed, Back, EndRecovery, Fault, Forget, Goto, Outcome,
     Remove, requestVars, leaseVars, genVars, killVars, localVars

\* Types of the request, lease and kill-request rows and of the host.
LEMMA RowsStep ==
  ASSUME TypeOK, Scoped, NEW w \in Workers,
         Sweep(w) \/ Dispatch(w) \/ Crash(w)
  PROVE  RowsTyped'
<1> USE PlanAssumption, TimeAssumption DEF TypeOK, RowsTyped, ProcessesTyped, Scoped,
   DispatchSteps, OwningSteps, LockSteps, requestVars, leaseVars, killVars
<1>1. CASE RecoverBusy(w)
  BY <1>1 DEF RecoverBusy, Fault, EndRecovery, Back, RequestStatus, LeaseStatus,
     KillStatus
<1>2. CASE LetGo(w)
  BY <1>2 DEF LetGo, Fault, EndRecovery, Back, Unlock, RequestStatus, LeaseStatus,
     KillStatus
<1>3. CASE Rollback(w)
  BY <1>3 DEF Rollback, Remove, Goto, Fault, RequestStatus, LeaseStatus, KillStatus
<1>4. CASE Resolve(w)
  <2>1. UNCHANGED <<requestVars, leaseVars, kill, host, faults>>
    BY <1>4 DEF Resolve
  <2>2. undone' \in [Kills -> SUBSET Gens]
    <3>1. gen[w] \in Gens
      BY <1>4 DEF Resolve
    <3>2. undone' = undone \/ undone' = [undone EXCEPT ![cause[w]] = @ \cup {gen[w]}]
      BY <1>4 DEF Resolve
    <3> QED
      BY <3>1, <3>2, SMTT(40)
  <2> QED
    BY <2>1, <2>2
<1>5. CASE LegacyRollback(w)
  BY <1>5 DEF LegacyRollback, Remove, Goto, Fault, RequestStatus, LeaseStatus,
     KillStatus
<1>6. CASE MarkProcessed(w)
  <2>1. UNCHANGED <<requestVars, leaseVars, undone, host>> /\ faults' \in 0..MaxFaults
    BY <1>6 DEF MarkProcessed, Fault
  <2>2. kill' = kill \/ kill' = [kill EXCEPT ![cause[w]] = "processed"]
    BY <1>6 DEF MarkProcessed
  <2>3. kill' \in [Kills -> KillStatus]
    BY <2>2 DEF KillStatus
  <2> QED
    BY <2>1, <2>3
<1>7. CASE Maintain(w)
  <2>1. UNCHANGED <<approvalLeft, leaseHolder, leaseLeft, killVars, host, faults>>
    BY <1>7 DEF Maintain
  <2>2. leaseState' \in [Requests -> LeaseStatus]
    BY <1>7 DEF Maintain, LeaseStatus
  <2>3. status' \in [Requests -> RequestStatus]
    BY <1>7 DEF Maintain, RequestStatus
  <2>4. retries' \in [Requests -> 0..MaxRetries]
    BY <1>7 DEF Maintain, Retried
  <2>5. age' \in [Requests -> 0..Timeout]
    BY <1>7 DEF Maintain
  <2> QED
    BY <2>1, <2>2, <2>3, <2>4, <2>5
<1>8. CASE Claim(w)
  BY <1>8 DEF Claim, Goto, RequestStatus, LeaseStatus, KillStatus
<1>9. CASE Preflight(w)
  BY <1>9 DEF Preflight, Goto, Fault, RequestStatus, LeaseStatus, KillStatus
<1>10. CASE PrepareFails(w)
  BY <1>10 DEF PrepareFails, Goto, Fault, Insert, RequestStatus, LeaseStatus, KillStatus
<1>11. CASE Apply(w)
  BY <1>11 DEF Apply, Goto, Fault, Added, RequestStatus, LeaseStatus, KillStatus
<1>12. CASE Verify(w)
  BY <1>12 DEF Verify, Goto, Fault, RequestStatus, LeaseStatus, KillStatus
<1>13. CASE FinishFails(w)
  BY <1>13 DEF FinishFails, Goto, Fault, RequestStatus, LeaseStatus, KillStatus
<1>14. CASE MarkUncertain(w)
  BY <1>14 DEF MarkUncertain, Fault, Record, Goto, RequestStatus, LeaseStatus,
     KillStatus
<1>15. CASE MarkRunning(w)
  BY <1>15 DEF MarkRunning, Goto, Allowed, RequestStatus, LeaseStatus, KillStatus
<1>16. CASE MarkTerminal(w)
  <2>1. Outcome(seen[w]) \in RequestStatus
    BY OutcomeStatus DEF RequestStatus
  <2> QED
    BY <1>16, <2>1 DEF MarkTerminal
<1>17. CASE ReleaseLease(w)
  BY <1>17 DEF ReleaseLease, Goto, Forget, RequestStatus, LeaseStatus, KillStatus
<1>18. CASE Crash(w)
  BY <1>18 DEF Crash, Goto, Fault, Forget, RequestStatus, LeaseStatus, KillStatus
<1>19. CASE UNCHANGED <<requestVars, leaseVars, killVars, host, faults>>
  BY <1>19
<1> QED
  BY <1>1, <1>2, <1>3, <1>4, <1>5, <1>6, <1>7, <1>8, <1>9, <1>10, <1>11, <1>12, <1>13,
     <1>14, <1>15, <1>16, <1>17, <1>18, <1>19 DEF Sweep, Dispatch, ListKills, RouteKill,
     LegacyKill, ListGenerations, SweepGeneration, RecoverResolved, RecoverLock,
     LeaveInFlight, RecoverPrepared, Retain, NothingToClaim, Authorize, Refuse, Prepare,
     Finish, DispatchDone, CompletionRefused, Allowed, Back, EndRecovery, Forget, Goto,
     Insert, Outcome, Record, Unlock, Verified, requestVars, leaseVars, genVars,
     killVars, localVars

\* Types of what a process has in hand.
LEMMA ProcessesStep ==
  ASSUME TypeOK, Scoped, Identified, NEW w \in Workers,
         Sweep(w) \/ Dispatch(w) \/ Crash(w)
  PROVE  ProcessesTyped'
<1> USE PlanAssumption, TimeAssumption DEF TypeOK, GenerationsTyped, ProcessesTyped,
   Scoped, Identified, OwningSteps, LockSteps, localVars
<1>1. CASE ListKills(w)
  BY <1>1 DEF ListKills, Goto, Owners, Steps, SweepSteps, DispatchSteps, Facts
<1>2. CASE RouteKill(w)
  BY <1>2 DEF RouteKill, Goto, Owners, Steps, SweepSteps, DispatchSteps, Facts
<1>3. CASE LegacyKill(w)
  BY <1>3 DEF LegacyKill, Goto, Owners, Steps, SweepSteps, DispatchSteps, Facts
<1>4. CASE ListGenerations(w)
  BY <1>4 DEF ListGenerations, Goto, Owners, Steps, SweepSteps, DispatchSteps, Facts
<1>5. CASE SweepGeneration(w)
  BY <1>5 DEF SweepGeneration, Goto, Owners, Steps, SweepSteps, DispatchSteps, Facts
<1>6. CASE RecoverBusy(w)
  BY <1>6 DEF RecoverBusy, Fault, EndRecovery, Back, Owners, Steps, SweepSteps,
     DispatchSteps, Facts
<1>7. CASE RecoverResolved(w)
  BY <1>7, SMTT(40) DEF RecoverResolved, Goto, EndRecovery, Back, Owners, Steps, SweepSteps,
     DispatchSteps, Facts
<1>8. CASE RecoverLock(w)
  BY <1>8 DEF RecoverLock, Goto, Owners, Steps, SweepSteps, DispatchSteps, Facts
<1>9. CASE LeaveInFlight(w)
  BY <1>9 DEF LeaveInFlight, EndRecovery, Back, Unlock, Owners, Steps, SweepSteps,
     DispatchSteps, Facts
<1>10. CASE RecoverPrepared(w)
  BY <1>10 DEF RecoverPrepared, EndRecovery, Back, Unlock, Owners, Steps, SweepSteps,
     DispatchSteps, Facts
<1>11. CASE LetGo(w)
  BY <1>11 DEF LetGo, Fault, EndRecovery, Back, Unlock, Owners, Steps, SweepSteps,
     DispatchSteps, Facts
<1>12. CASE Rollback(w)
  BY <1>12 DEF Rollback, Remove, Goto, Fault, Owners, Steps, SweepSteps, DispatchSteps,
     Facts
<1>13. CASE Resolve(w)
  BY <1>13, SMTT(40) DEF Resolve, Goto, EndRecovery, Back, Unlock, Owners, Steps, SweepSteps,
     DispatchSteps, Facts
<1>14. CASE Retain(w)
  BY <1>14 DEF Retain, EndRecovery, Back, Unlock, Owners, Steps, SweepSteps,
     DispatchSteps, Facts
<1>15. CASE LegacyRollback(w)
  <2>1. pc' \in [Workers -> Steps]
    BY <1>15 DEF LegacyRollback, Remove, Goto, Steps, SweepSteps
  <2>2. /\ rule' \in [Workers -> Rules \cup {None}]
        /\ cause' \in [Workers -> Kills \cup {None}]
    BY <1>15 DEF LegacyRollback
  <2>3. UNCHANGED <<req, todo, gen, seen, agenda>>
    BY <1>15 DEF LegacyRollback
  <2> QED
    BY <2>1, <2>2, <2>3
<1>16. CASE MarkProcessed(w)
  BY <1>16 DEF MarkProcessed, Fault, EndRecovery, Back, Owners, Steps, SweepSteps,
     DispatchSteps, Facts
<1>17. CASE Maintain(w)
  BY <1>17 DEF Maintain, Goto, Owners, Steps, SweepSteps, DispatchSteps, Facts
<1>18. CASE Claim(w)
  BY <1>18 DEF Claim, Goto, Owners, Steps, SweepSteps, DispatchSteps, Facts
<1>19. CASE NothingToClaim(w)
  BY <1>19 DEF NothingToClaim, Goto, Owners, Steps, SweepSteps, DispatchSteps, Facts
<1>20. CASE Authorize(w)
  BY <1>20 DEF Authorize, Goto, Owners, Steps, SweepSteps, DispatchSteps, Facts
<1>21. CASE Refuse(w)
  BY <1>21 DEF Refuse, Goto, Owners, Steps, SweepSteps, DispatchSteps, Facts
<1>22. CASE Preflight(w)
  BY <1>22 DEF Preflight, Goto, Fault, Owners, Steps, SweepSteps, DispatchSteps, Facts
<1>23. CASE Prepare(w)
  BY <1>23 DEF Prepare, Goto, Insert, Owners, Steps, SweepSteps, DispatchSteps, Facts
<1>24. CASE PrepareFails(w)
  BY <1>24 DEF PrepareFails, Goto, Fault, Insert, Owners, Steps, SweepSteps,
     DispatchSteps, Facts
<1>25. CASE Apply(w)
  BY <1>25 DEF Apply, Goto, Fault, Added, Owners, Steps, SweepSteps, DispatchSteps,
     Facts
<1>26. CASE Verify(w)
  BY <1>26 DEF Verify, Goto, Fault, Owners, Steps, SweepSteps, DispatchSteps, Facts
<1>27. CASE Finish(w)
  BY <1>27 DEF Finish, Record, Goto, Verified, Owners, Steps, SweepSteps, DispatchSteps,
     Facts
<1>28. CASE FinishFails(w)
  BY <1>28 DEF FinishFails, Goto, Fault, Owners, Steps, SweepSteps, DispatchSteps, Facts
<1>29. CASE MarkUncertain(w)
  BY <1>29 DEF MarkUncertain, Fault, Record, Goto, Owners, Steps, SweepSteps,
     DispatchSteps, Facts
<1>30. CASE DispatchDone(w)
  BY <1>30 DEF DispatchDone, Goto, Owners, Steps, SweepSteps, DispatchSteps, Facts
<1>31. CASE MarkRunning(w)
  BY <1>31 DEF MarkRunning, Goto, Allowed, Owners, Steps, SweepSteps, DispatchSteps,
     Facts
<1>32. CASE MarkTerminal(w)
  BY <1>32 DEF MarkTerminal, Goto, Outcome, Allowed, Owners, Steps, SweepSteps,
     DispatchSteps, Facts
<1>33. CASE CompletionRefused(w)
  BY <1>33 DEF CompletionRefused, Goto, Forget, Outcome, Allowed, Owners, Steps,
     SweepSteps, DispatchSteps, Facts
<1>34. CASE ReleaseLease(w)
  BY <1>34 DEF ReleaseLease, Goto, Forget, Owners, Steps, SweepSteps, DispatchSteps,
     Facts
<1>35. CASE Crash(w)
  BY <1>35 DEF Crash, Goto, Fault, Forget, Owners, Steps, SweepSteps, DispatchSteps,
     Facts
<1> QED
  BY <1>1, <1>2, <1>3, <1>4, <1>5, <1>6, <1>7, <1>8, <1>9, <1>10, <1>11, <1>12, <1>13,
     <1>14, <1>15, <1>16, <1>17, <1>18, <1>19, <1>20, <1>21, <1>22, <1>23, <1>24, <1>25,
     <1>26, <1>27, <1>28, <1>29, <1>30, <1>31, <1>32, <1>33, <1>34, <1>35 DEF Sweep,
     Dispatch

\* Every step hands the next one what it needs.
LEMMA ScopedStep ==
  ASSUME TypeOK, Scoped, Identified, NEW w \in Workers,
         Sweep(w) \/ Dispatch(w) \/ Crash(w)
  PROVE  Scoped'
<1> USE PlanAssumption, NoneAssumption DEF TypeOK, GenerationsTyped, ProcessesTyped,
   Scoped, Identified, OwningSteps, LockSteps, DispatchSteps, localVars, Active,
   ActiveStatus
<1>1. CASE ListKills(w)
  BY <1>1 DEF ListKills, Goto, Owners
<1>2. CASE RouteKill(w)
  BY <1>2 DEF RouteKill, Goto, Owners
<1>3. CASE LegacyKill(w)
  BY <1>3 DEF LegacyKill, Goto, Owners
<1>4. CASE ListGenerations(w)
  BY <1>4 DEF ListGenerations, Goto, Owners
<1>5. CASE SweepGeneration(w)
  BY <1>5 DEF SweepGeneration, Goto, Owners
<1>6. CASE RecoverBusy(w)
  BY <1>6 DEF RecoverBusy, Fault, EndRecovery, Back, Owners
<1>7. CASE RecoverResolved(w)
  BY <1>7 DEF RecoverResolved, Goto, EndRecovery, Back, Owners
<1>8. CASE RecoverLock(w)
  BY <1>8 DEF RecoverLock, Goto, Owners
<1>9. CASE LeaveInFlight(w)
  BY <1>9 DEF LeaveInFlight, EndRecovery, Back, Unlock, Owners
<1>10. CASE RecoverPrepared(w)
  BY <1>10 DEF RecoverPrepared, EndRecovery, Back, Unlock, Owners
<1>11. CASE LetGo(w)
  BY <1>11 DEF LetGo, Fault, EndRecovery, Back, Unlock, Owners
<1>12. CASE Rollback(w)
  BY <1>12 DEF Rollback, Remove, Goto, Fault, Owners
<1>13. CASE Resolve(w)
  BY <1>13 DEF Resolve, Goto, EndRecovery, Back, Unlock, Owners
<1>14. CASE Retain(w)
  BY <1>14 DEF Retain, EndRecovery, Back, Unlock, Owners
<1>15. CASE LegacyRollback(w)
  BY <1>15 DEF LegacyRollback, Remove, Goto, Fault, Owners
<1>16. CASE MarkProcessed(w)
  BY <1>16 DEF MarkProcessed, Fault, EndRecovery, Back, Owners
<1>17. CASE Maintain(w)
  BY <1>17 DEF Maintain, Goto, Owners
<1>18. CASE Claim(w)
  BY <1>18 DEF Claim, Goto, Owners
<1>19. CASE NothingToClaim(w)
  BY <1>19 DEF NothingToClaim, Goto, Owners
<1>20. CASE Authorize(w)
  BY <1>20 DEF Authorize, Goto, Owners
<1>21. CASE Refuse(w)
  BY <1>21 DEF Refuse, Goto, Owners
<1>22. CASE Preflight(w)
  BY <1>22 DEF Preflight, Goto, Fault, Owners
<1>23. CASE Prepare(w)
  BY <1>23 DEF Prepare, Goto, Insert, Owners
<1>24. CASE PrepareFails(w)
  BY <1>24 DEF PrepareFails, Goto, Fault, Insert, Owners
<1>25. CASE Apply(w)
  BY <1>25 DEF Apply, Goto, Fault, Added, Owners
<1>26. CASE Verify(w)
  BY <1>26 DEF Verify, Goto, Fault, Owners
<1>27. CASE Finish(w)
  BY <1>27 DEF Finish, Record, Goto, Verified, Owners
<1>28. CASE FinishFails(w)
  BY <1>28 DEF FinishFails, Goto, Fault, Owners
<1>29. CASE MarkUncertain(w)
  BY <1>29 DEF MarkUncertain, Fault, Record, Goto, Owners
<1>30. CASE DispatchDone(w)
  BY <1>30 DEF DispatchDone, Goto, Owners
<1>31. CASE MarkRunning(w)
  BY <1>31 DEF MarkRunning, Goto, Allowed, Owners
<1>32. CASE MarkTerminal(w)
  BY <1>32 DEF MarkTerminal, Goto, Outcome, Allowed, Owners
<1>33. CASE CompletionRefused(w)
  BY <1>33 DEF CompletionRefused, Goto, Forget, Outcome, Allowed, Owners
<1>34. CASE ReleaseLease(w)
  BY <1>34 DEF ReleaseLease, Goto, Forget, Owners
<1>35. CASE Crash(w)
  BY <1>35 DEF Crash, Goto, Fault, Forget, Owners
<1> QED
  BY <1>1, <1>2, <1>3, <1>4, <1>5, <1>6, <1>7, <1>8, <1>9, <1>10, <1>11, <1>12, <1>13,
     <1>14, <1>15, <1>16, <1>17, <1>18, <1>19, <1>20, <1>21, <1>22, <1>23, <1>24, <1>25,
     <1>26, <1>27, <1>28, <1>29, <1>30, <1>31, <1>32, <1>33, <1>34, <1>35 DEF Sweep,
     Dispatch

\* Only an unused row is ever given an identity.
LEMMA IdentifiedStep ==
  ASSUME TypeOK, Scoped, Identified, LockHeld, OwnsGeneration, NEW w \in Workers,
         Sweep(w) \/ Dispatch(w) \/ Crash(w)
  PROVE  Identified'
<1> USE DEF TypeOK, GenerationsTyped, ProcessesTyped, Scoped, Identified, LockHeld,
   OwnsGeneration, OwningSteps, LockSteps, DispatchSteps
<1>1. CASE RecoverPrepared(w)
  BY <1>1 DEF RecoverPrepared, EndRecovery, Back, Unlock
<1>2. CASE Resolve(w)
  BY <1>2 DEF Resolve, Goto, EndRecovery, Back, Unlock
<1>3. CASE Retain(w)
  BY <1>3 DEF Retain, EndRecovery, Back, Unlock
<1>4. CASE Prepare(w)
  BY <1>4 DEF Prepare, Goto, Insert
<1>5. CASE PrepareFails(w)
  BY <1>5 DEF PrepareFails, Goto, Fault, Insert
<1>6. CASE Finish(w)
  BY <1>6 DEF Finish, Record, Goto, Verified
<1>7. CASE FinishFails(w)
  BY <1>7 DEF FinishFails, Goto, Fault
<1>8. CASE MarkUncertain(w)
  BY <1>8 DEF MarkUncertain, Fault, Record, Goto
<1>9. CASE UNCHANGED <<genStatus, genReq, genRule, applied>>
  BY <1>9
<1> QED
  BY <1>1, <1>2, <1>3, <1>4, <1>5, <1>6, <1>7, <1>8, <1>9 DEF Sweep, Dispatch,
     ListKills, RouteKill, LegacyKill, ListGenerations, SweepGeneration, RecoverBusy,
     RecoverResolved, RecoverLock, LeaveInFlight, LetGo, Rollback, LegacyRollback,
     MarkProcessed, Maintain, Claim, NothingToClaim, Authorize, Refuse, Preflight,
     Apply, Verify, DispatchDone, MarkRunning, MarkTerminal, CompletionRefused,
     ReleaseLease, Crash, Added, Allowed, Back, EndRecovery, Fault, Forget, Goto,
     Outcome, Remove, Unlock, requestVars, leaseVars, genVars, killVars, localVars

\* Nobody changes a row another replica has locked.
LEMMA LockHeldStep ==
  ASSUME TypeOK, Scoped, Identified, LockHeld, NEW w \in Workers,
         Sweep(w) \/ Dispatch(w) \/ Crash(w)
  PROVE  LockHeld'
<1> USE NoneAssumption DEF TypeOK, GenerationsTyped, ProcessesTyped, Scoped, LockHeld,
   OwningSteps, LockSteps, Active, ActiveStatus, genVars, localVars
<1>1. CASE ListKills(w)
  BY <1>1 DEF ListKills, Goto
<1>2. CASE RouteKill(w)
  BY <1>2 DEF RouteKill, Goto
<1>3. CASE LegacyKill(w)
  BY <1>3 DEF LegacyKill, Goto
<1>4. CASE ListGenerations(w)
  BY <1>4 DEF ListGenerations, Goto
<1>5. CASE SweepGeneration(w)
  BY <1>5 DEF SweepGeneration, Goto
<1>6. CASE RecoverBusy(w)
  BY <1>6 DEF RecoverBusy, Fault, EndRecovery, Back
<1>7. CASE RecoverResolved(w)
  BY <1>7 DEF RecoverResolved, Goto, EndRecovery, Back
<1>8. CASE RecoverLock(w)
  BY <1>8 DEF RecoverLock, Goto
<1>9. CASE LeaveInFlight(w)
  BY <1>9 DEF LeaveInFlight, EndRecovery, Back, Unlock
<1>10. CASE RecoverPrepared(w)
  BY <1>10 DEF RecoverPrepared, EndRecovery, Back, Unlock
<1>11. CASE LetGo(w)
  BY <1>11 DEF LetGo, Fault, EndRecovery, Back, Unlock
<1>12. CASE Rollback(w)
  BY <1>12 DEF Rollback, Remove, Goto, Fault
<1>13. CASE Resolve(w)
  BY <1>13 DEF Resolve, Goto, EndRecovery, Back, Unlock
<1>14. CASE Retain(w)
  BY <1>14 DEF Retain, EndRecovery, Back, Unlock
<1>15. CASE LegacyRollback(w)
  BY <1>15 DEF LegacyRollback, Remove, Goto, Fault
<1>16. CASE MarkProcessed(w)
  BY <1>16 DEF MarkProcessed, Fault, EndRecovery, Back
<1>17. CASE Maintain(w)
  BY <1>17 DEF Maintain, Goto
<1>18. CASE Claim(w)
  BY <1>18 DEF Claim, Goto
<1>19. CASE NothingToClaim(w)
  BY <1>19 DEF NothingToClaim, Goto
<1>20. CASE Authorize(w)
  BY <1>20 DEF Authorize, Goto
<1>21. CASE Refuse(w)
  BY <1>21 DEF Refuse, Goto
<1>22. CASE Preflight(w)
  BY <1>22 DEF Preflight, Goto, Fault
<1>23. CASE Prepare(w)
  BY <1>23 DEF Prepare, Goto, Insert
<1>24. CASE PrepareFails(w)
  BY <1>24 DEF PrepareFails, Goto, Fault, Insert
<1>25. CASE Apply(w)
  BY <1>25 DEF Apply, Goto, Fault, Added
<1>26. CASE Verify(w)
  BY <1>26 DEF Verify, Goto, Fault
<1>27. CASE Finish(w)
  BY <1>27 DEF Finish, Record, Goto, Verified
<1>28. CASE FinishFails(w)
  BY <1>28 DEF FinishFails, Goto, Fault
<1>29. CASE MarkUncertain(w)
  BY <1>29 DEF MarkUncertain, Fault, Record, Goto
<1>30. CASE DispatchDone(w)
  BY <1>30 DEF DispatchDone, Goto
<1>31. CASE MarkRunning(w)
  BY <1>31 DEF MarkRunning, Goto, Allowed
<1>32. CASE MarkTerminal(w)
  BY <1>32 DEF MarkTerminal, Goto, Outcome, Allowed
<1>33. CASE CompletionRefused(w)
  BY <1>33 DEF CompletionRefused, Goto, Forget, Outcome, Allowed
<1>34. CASE ReleaseLease(w)
  BY <1>34 DEF ReleaseLease, Goto, Forget
<1>35. CASE Crash(w)
  BY <1>35 DEF Crash, Goto, Fault, Forget
<1> QED
  BY <1>1, <1>2, <1>3, <1>4, <1>5, <1>6, <1>7, <1>8, <1>9, <1>10, <1>11, <1>12, <1>13,
     <1>14, <1>15, <1>16, <1>17, <1>18, <1>19, <1>20, <1>21, <1>22, <1>23, <1>24, <1>25,
     <1>26, <1>27, <1>28, <1>29, <1>30, <1>31, <1>32, <1>33, <1>34, <1>35 DEF Sweep,
     Dispatch

\* A fresh generation is in no other hands, and its identity is never rewritten.
LEMMA OwnsGenerationStep ==
  ASSUME TypeOK, Scoped, Identified, LockHeld, OwnsGeneration, NEW w \in Workers,
         Sweep(w) \/ Dispatch(w) \/ Crash(w)
  PROVE  OwnsGeneration'
<1> USE DEF TypeOK, GenerationsTyped, ProcessesTyped, Scoped, LockHeld, OwnsGeneration,
   OwningSteps, LockSteps, DispatchSteps, genVars, localVars
<1>1. CASE ListKills(w)
  BY <1>1 DEF ListKills, Goto
<1>2. CASE RouteKill(w)
  BY <1>2 DEF RouteKill, Goto
<1>3. CASE LegacyKill(w)
  BY <1>3 DEF LegacyKill, Goto
<1>4. CASE ListGenerations(w)
  BY <1>4 DEF ListGenerations, Goto
<1>5. CASE SweepGeneration(w)
  BY <1>5 DEF SweepGeneration, Goto
<1>6. CASE RecoverBusy(w)
  BY <1>6 DEF RecoverBusy, Fault, EndRecovery, Back
<1>7. CASE RecoverResolved(w)
  BY <1>7 DEF RecoverResolved, Goto, EndRecovery, Back
<1>8. CASE RecoverLock(w)
  BY <1>8 DEF RecoverLock, Goto
<1>9. CASE LeaveInFlight(w)
  BY <1>9 DEF LeaveInFlight, EndRecovery, Back, Unlock
<1>10. CASE RecoverPrepared(w)
  BY <1>10 DEF RecoverPrepared, EndRecovery, Back, Unlock
<1>11. CASE LetGo(w)
  BY <1>11 DEF LetGo, Fault, EndRecovery, Back, Unlock
<1>12. CASE Rollback(w)
  BY <1>12 DEF Rollback, Remove, Goto, Fault
<1>13. CASE Resolve(w)
  BY <1>13 DEF Resolve, Goto, EndRecovery, Back, Unlock
<1>14. CASE Retain(w)
  BY <1>14 DEF Retain, EndRecovery, Back, Unlock
<1>15. CASE LegacyRollback(w)
  BY <1>15 DEF LegacyRollback, Remove, Goto, Fault
<1>16. CASE MarkProcessed(w)
  BY <1>16 DEF MarkProcessed, Fault, EndRecovery, Back
<1>17. CASE Maintain(w)
  BY <1>17 DEF Maintain, Goto
<1>18. CASE Claim(w)
  BY <1>18 DEF Claim, Goto
<1>19. CASE NothingToClaim(w)
  BY <1>19 DEF NothingToClaim, Goto
<1>20. CASE Authorize(w)
  BY <1>20 DEF Authorize, Goto
<1>21. CASE Refuse(w)
  BY <1>21 DEF Refuse, Goto
<1>22. CASE Preflight(w)
  BY <1>22 DEF Preflight, Goto, Fault
<1>23. CASE Prepare(w)
  BY <1>23 DEF Prepare, Goto, Insert
<1>24. CASE PrepareFails(w)
  BY <1>24 DEF PrepareFails, Goto, Fault, Insert
<1>25. CASE Apply(w)
  BY <1>25 DEF Apply, Goto, Fault, Added
<1>26. CASE Verify(w)
  BY <1>26 DEF Verify, Goto, Fault
<1>27. CASE Finish(w)
  BY <1>27 DEF Finish, Record, Goto, Verified
<1>28. CASE FinishFails(w)
  BY <1>28 DEF FinishFails, Goto, Fault
<1>29. CASE MarkUncertain(w)
  BY <1>29 DEF MarkUncertain, Fault, Record, Goto
<1>30. CASE DispatchDone(w)
  BY <1>30 DEF DispatchDone, Goto
<1>31. CASE MarkRunning(w)
  BY <1>31 DEF MarkRunning, Goto, Allowed
<1>32. CASE MarkTerminal(w)
  BY <1>32 DEF MarkTerminal, Goto, Outcome, Allowed
<1>33. CASE CompletionRefused(w)
  BY <1>33 DEF CompletionRefused, Goto, Forget, Outcome, Allowed
<1>34. CASE ReleaseLease(w)
  BY <1>34 DEF ReleaseLease, Goto, Forget
<1>35. CASE Crash(w)
  BY <1>35 DEF Crash, Goto, Fault, Forget
<1> QED
  BY <1>1, <1>2, <1>3, <1>4, <1>5, <1>6, <1>7, <1>8, <1>9, <1>10, <1>11, <1>12, <1>13,
     <1>14, <1>15, <1>16, <1>17, <1>18, <1>19, <1>20, <1>21, <1>22, <1>23, <1>24, <1>25,
     <1>26, <1>27, <1>28, <1>29, <1>30, <1>31, <1>32, <1>33, <1>34, <1>35 DEF Sweep,
     Dispatch

\* Receipts are never deleted and identities never rewritten.
LEMMA ReceiptedStays ==
  ASSUME TypeOK, Scoped, Identified, NEW w \in Workers, Sweep(w) \/ Dispatch(w) \/ Crash(w),
         NEW r, Receipted(r)
  PROVE  Receipted(r)'
<1>1. PICK g \in applied : genReq[g] = r /\ genRule[g] = Mandatory[r]
  BY DEF Receipted
<1>2. g \in Gens /\ genStatus[g] # "unused"
  BY DEF TypeOK, GenerationsTyped, Identified
<1> SUFFICES g \in applied' /\ genReq'[g] = genReq[g] /\ genRule'[g] = genRule[g]
  BY <1>1 DEF Receipted
<1> USE <1>1, <1>2 DEF TypeOK, GenerationsTyped
<1>3. CASE Prepare(w)
  BY <1>3 DEF Prepare, Goto, Insert
<1>4. CASE PrepareFails(w)
  BY <1>4 DEF PrepareFails, Goto, Fault, Insert
<1>5. CASE Finish(w)
  BY <1>5 DEF Finish, Record, Goto, Verified
<1>6. CASE FinishFails(w)
  BY <1>6 DEF FinishFails, Goto, Fault
<1>7. CASE UNCHANGED <<applied, genReq, genRule>>
  BY <1>7
<1> QED
  BY <1>3, <1>4, <1>5, <1>6, <1>7 DEF Sweep, Dispatch, ListKills, RouteKill, LegacyKill,
     ListGenerations, SweepGeneration, RecoverBusy, RecoverResolved, RecoverLock,
     LeaveInFlight, RecoverPrepared, LetGo, Rollback, Resolve, Retain, LegacyRollback,
     MarkProcessed, Maintain, Claim, NothingToClaim, Authorize, Refuse, Preflight,
     Apply, Verify, MarkUncertain, DispatchDone, MarkRunning, MarkTerminal,
     CompletionRefused, ReleaseLease, Crash, Added, Allowed, Back, EndRecovery, Fault,
     Forget, Goto, Outcome, Record, Remove, Unlock, requestVars, leaseVars, genVars,
     killVars, localVars

\* Only Finish counts the mandatory adapter, in the step that persists its receipt.
LEMMA MandatoryStep ==
  ASSUME TypeOK, Scoped, Identified, OwnsGeneration, MandatoryPersisted, NEW w \in Workers,
         Sweep(w) \/ Dispatch(w) \/ Crash(w)
  PROVE  MandatoryPersisted'
<1>a. \A r : Receipted(r) => Receipted(r)'
  BY ReceiptedStays
<1> USE <1>a DEF TypeOK, GenerationsTyped, ProcessesTyped, Scoped, Identified,
   OwnsGeneration, MandatoryPersisted, OwningSteps, LockSteps, DispatchSteps, localVars
<1>1. CASE Claim(w)
  BY <1>1 DEF Claim, Goto
<1>2. CASE Prepare(w)
  BY <1>2 DEF Prepare, Goto, Insert
<1>3. CASE PrepareFails(w)
  BY <1>3 DEF PrepareFails, Goto, Fault, Insert
<1>4. CASE Finish(w)
  <2>1. rule[w] = Mandatory[req[w]] => Receipted(req[w])'
    BY <1>4 DEF Finish, Record, Receipted
  <2>2. "mandatory" \in seen'[w] => "mandatory" \in seen[w] \/ rule[w] = Mandatory[req[w]]
    BY <1>4 DEF Finish, Record, Verified
  <2>3. req' = req /\ \A v \in Workers \ {w} : seen'[v] = seen[v]
    BY <1>4 DEF Finish, Record
  <2> QED
    BY <2>1, <2>2, <2>3
<1>5. CASE FinishFails(w)
  BY <1>5 DEF FinishFails, Goto, Fault
<1>6. CASE MarkUncertain(w)
  BY <1>6 DEF MarkUncertain, Fault, Record, Goto
<1>7. CASE CompletionRefused(w)
  BY <1>7 DEF CompletionRefused, Goto, Forget, Outcome, Allowed
<1>8. CASE ReleaseLease(w)
  BY <1>8 DEF ReleaseLease, Goto, Forget
<1>9. CASE Crash(w)
  BY <1>9 DEF Crash, Goto, Fault, Forget
<1>10. CASE UNCHANGED <<req, seen, applied, genReq, genRule>>
  BY <1>10 DEF Receipted
<1> QED
  BY <1>1, <1>2, <1>3, <1>4, <1>5, <1>6, <1>7, <1>8, <1>9, <1>10 DEF Sweep, Dispatch,
     ListKills, RouteKill, LegacyKill, ListGenerations, SweepGeneration, RecoverBusy,
     RecoverResolved, RecoverLock, LeaveInFlight, RecoverPrepared, LetGo, Rollback,
     Resolve, Retain, LegacyRollback, MarkProcessed, Maintain, NothingToClaim,
     Authorize, Refuse, Preflight, Apply, Verify, DispatchDone, MarkRunning,
     MarkTerminal, Added, Allowed, Back, EndRecovery, Fault, Goto, Outcome, Remove,
     Unlock, requestVars, leaseVars, genVars, killVars, localVars

\* Only Prepare makes a row active, and only when its rule has no owner.
LEMMA OneOwnerStep ==
  ASSUME TypeOK, Scoped, LockHeld, OneOwner, NEW w \in Workers,
         Sweep(w) \/ Dispatch(w) \/ Crash(w)
  PROVE  OneOwner'
<1> USE DEF TypeOK, GenerationsTyped, ProcessesTyped, Scoped, LockHeld, OneOwner,
   OwningSteps, LockSteps
<1>1. CASE RecoverPrepared(w)
  BY <1>1 DEF RecoverPrepared, EndRecovery, Back, Unlock, Active, ActiveStatus, Owners
<1>2. CASE Resolve(w)
  BY <1>2 DEF Resolve, Goto, EndRecovery, Back, Unlock, Active, ActiveStatus, Owners
<1>3. CASE Retain(w)
  BY <1>3 DEF Retain, EndRecovery, Back, Unlock, Active, ActiveStatus, Owners
<1>4. CASE Prepare(w)
  BY <1>4 DEF Prepare, Goto, Insert, Active, ActiveStatus, Owners
<1>5. CASE PrepareFails(w)
  BY <1>5 DEF PrepareFails, Goto, Fault, Insert, Active, ActiveStatus, Owners
<1>6. CASE Finish(w)
  BY <1>6 DEF Finish, Record, Goto, Verified, Active, ActiveStatus, Owners
<1>7. CASE FinishFails(w)
  BY <1>7 DEF FinishFails, Goto, Fault, Active, ActiveStatus, Owners
<1>8. CASE MarkUncertain(w)
  BY <1>8 DEF MarkUncertain, Fault, Record, Goto, Active, ActiveStatus, Owners
<1>9. CASE UNCHANGED <<genStatus, genRule>>
  BY <1>9 DEF Active, ActiveStatus
<1> QED
  BY <1>1, <1>2, <1>3, <1>4, <1>5, <1>6, <1>7, <1>8, <1>9 DEF Sweep, Dispatch,
     ListKills, RouteKill, LegacyKill, ListGenerations, SweepGeneration, RecoverBusy,
     RecoverResolved, RecoverLock, LeaveInFlight, LetGo, Rollback, LegacyRollback,
     MarkProcessed, Maintain, Claim, NothingToClaim, Authorize, Refuse, Preflight,
     Apply, Verify, DispatchDone, MarkRunning, MarkTerminal, CompletionRefused,
     ReleaseLease, Crash, Added, Allowed, Back, EndRecovery, Fault, Forget, Goto,
     Outcome, Remove, Unlock, requestVars, leaseVars, genVars, killVars, localVars

\* Receipts are written in the transaction that changes the status.
LEMMA ReceiptsStep ==
  ASSUME TypeOK, Scoped, LockHeld, ReceiptsMatch, NEW w \in Workers,
         Sweep(w) \/ Dispatch(w) \/ Crash(w)
  PROVE  ReceiptsMatch'
<1> USE DEF TypeOK, GenerationsTyped, ProcessesTyped, Scoped, LockHeld, ReceiptsMatch,
   OwningSteps, LockSteps
<1>1. CASE RecoverPrepared(w)
  BY <1>1 DEF RecoverPrepared, EndRecovery, Back, Unlock, Active, ActiveStatus
<1>2. CASE Resolve(w)
  BY <1>2 DEF Resolve, Goto, EndRecovery, Back, Unlock, Active, ActiveStatus
<1>3. CASE Retain(w)
  BY <1>3 DEF Retain, EndRecovery, Back, Unlock, Active, ActiveStatus
<1>4. CASE Prepare(w)
  BY <1>4 DEF Prepare, Goto, Insert, Active, ActiveStatus
<1>5. CASE PrepareFails(w)
  BY <1>5 DEF PrepareFails, Goto, Fault, Insert, Active, ActiveStatus
<1>6. CASE Finish(w)
  BY <1>6 DEF Finish, Record, Goto, Verified, Active, ActiveStatus
<1>7. CASE FinishFails(w)
  BY <1>7 DEF FinishFails, Goto, Fault, Active, ActiveStatus
<1>8. CASE MarkUncertain(w)
  BY <1>8 DEF MarkUncertain, Fault, Record, Goto, Active, ActiveStatus
<1>9. CASE UNCHANGED <<genStatus, applied, reverted>>
  BY <1>9
<1> QED
  BY <1>1, <1>2, <1>3, <1>4, <1>5, <1>6, <1>7, <1>8, <1>9 DEF Sweep, Dispatch,
     ListKills, RouteKill, LegacyKill, ListGenerations, SweepGeneration, RecoverBusy,
     RecoverResolved, RecoverLock, LeaveInFlight, LetGo, Rollback, LegacyRollback,
     MarkProcessed, Maintain, Claim, NothingToClaim, Authorize, Refuse, Preflight,
     Apply, Verify, DispatchDone, MarkRunning, MarkTerminal, CompletionRefused,
     ReleaseLease, Crash, Added, Allowed, Back, EndRecovery, Fault, Forget, Goto,
     Outcome, Remove, Unlock, requestVars, leaseVars, genVars, killVars, localVars

\* A completion turns the mandatory receipt into `success`.
LEMMA SuccessStep ==
  ASSUME TypeOK, Scoped, Identified, MandatoryPersisted, SuccessHasReceipt, NEW w \in Workers,
         Sweep(w) \/ Dispatch(w) \/ Crash(w)
  PROVE  SuccessHasReceipt'
<1>a. \A r : Receipted(r) => Receipted(r)'
  BY ReceiptedStays
<1> USE <1>a DEF TypeOK, GenerationsTyped, ProcessesTyped, RowsTyped, Scoped,
   Identified, MandatoryPersisted, SuccessHasReceipt, OwningSteps, LockSteps,
   DispatchSteps
<1>1. CASE Maintain(w)
  BY <1>1 DEF Maintain, Goto
<1>2. CASE Claim(w)
  BY <1>2 DEF Claim, Goto
<1>3. CASE MarkRunning(w)
  BY <1>3 DEF MarkRunning, Goto, Allowed
<1>4. CASE MarkTerminal(w)
  <2>1. Outcome(seen[w]) = "success" => Receipted(req[w])
    BY OutcomeStatus
  <2> QED
    BY <1>4, <2>1 DEF MarkTerminal
<1>5. CASE UNCHANGED status
  BY <1>5
<1> QED
  BY <1>1, <1>2, <1>3, <1>4, <1>5 DEF Sweep, Dispatch, ListKills, RouteKill, LegacyKill,
     ListGenerations, SweepGeneration, RecoverBusy, RecoverResolved, RecoverLock,
     LeaveInFlight, RecoverPrepared, LetGo, Rollback, Resolve, Retain, LegacyRollback,
     MarkProcessed, NothingToClaim, Authorize, Refuse, Preflight, Prepare, PrepareFails,
     Apply, Verify, Finish, FinishFails, MarkUncertain, DispatchDone, CompletionRefused,
     ReleaseLease, Crash, Added, Allowed, Back, EndRecovery, Fault, Forget, Goto,
     Insert, Outcome, Record, Remove, Unlock, Verified, requestVars, leaseVars, genVars,
     killVars, localVars

\* Recovery asks for the lease, and only a claim grants one.
LEMMA LeaseStep ==
  ASSUME TypeOK, Scoped, Identified, LockHeld, OwnsGeneration, LiveLeaseNotStolen, NEW w \in Workers,
         Sweep(w) \/ Dispatch(w) \/ Crash(w)
  PROVE  LiveLeaseNotStolen'
<1> USE DEF TypeOK, GenerationsTyped, ProcessesTyped, RowsTyped, Scoped, LockHeld,
   OwnsGeneration, LiveLeaseNotStolen, OwningSteps, LockSteps, DispatchSteps, genVars,
   leaseVars, localVars
<1>1. CASE ListKills(w)
  BY <1>1 DEF ListKills, Goto, LiveLease
<1>2. CASE RouteKill(w)
  BY <1>2 DEF RouteKill, Goto, LiveLease
<1>3. CASE LegacyKill(w)
  BY <1>3 DEF LegacyKill, Goto, LiveLease
<1>4. CASE ListGenerations(w)
  BY <1>4 DEF ListGenerations, Goto, LiveLease
<1>5. CASE SweepGeneration(w)
  BY <1>5 DEF SweepGeneration, Goto, LiveLease
<1>6. CASE RecoverBusy(w)
  BY <1>6 DEF RecoverBusy, Fault, EndRecovery, Back, LiveLease
<1>7. CASE RecoverResolved(w)
  BY <1>7 DEF RecoverResolved, Goto, EndRecovery, Back, LiveLease
<1>8. CASE RecoverLock(w)
  BY <1>8 DEF RecoverLock, Goto, LiveLease
<1>9. CASE LeaveInFlight(w)
  BY <1>9 DEF LeaveInFlight, EndRecovery, Back, Unlock, LiveLease
<1>10. CASE RecoverPrepared(w)
  BY <1>10 DEF RecoverPrepared, EndRecovery, Back, Unlock, LiveLease
<1>11. CASE LetGo(w)
  BY <1>11 DEF LetGo, Fault, EndRecovery, Back, Unlock, LiveLease
<1>12. CASE Rollback(w)
  BY <1>12 DEF Rollback, Remove, Goto, Fault, LiveLease
<1>13. CASE Resolve(w)
  BY <1>13, SMTT(40) DEF Resolve, Goto, EndRecovery, Back, Unlock, LiveLease
<1>14. CASE Retain(w)
  BY <1>14 DEF Retain, EndRecovery, Back, Unlock, LiveLease
<1>15. CASE LegacyRollback(w)
  BY <1>15 DEF LegacyRollback, Remove, Goto, Fault, LiveLease
<1>16. CASE MarkProcessed(w)
  BY <1>16 DEF MarkProcessed, Fault, EndRecovery, Back, LiveLease
<1>17. CASE Maintain(w)
  BY <1>17 DEF Maintain, Goto, LiveLease
<1>18. CASE Claim(w)
  BY <1>18 DEF Claim, Goto, LiveLease
<1>19. CASE NothingToClaim(w)
  BY <1>19 DEF NothingToClaim, Goto, LiveLease
<1>20. CASE Authorize(w)
  BY <1>20 DEF Authorize, Goto, LiveLease
<1>21. CASE Refuse(w)
  BY <1>21 DEF Refuse, Goto, LiveLease
<1>22. CASE Preflight(w)
  BY <1>22 DEF Preflight, Goto, Fault, LiveLease
<1>23. CASE Prepare(w)
  BY <1>23 DEF Prepare, Goto, Insert, LiveLease
<1>24. CASE PrepareFails(w)
  BY <1>24 DEF PrepareFails, Goto, Fault, Insert, LiveLease
<1>25. CASE Apply(w)
  BY <1>25 DEF Apply, Goto, Fault, Added, LiveLease
<1>26. CASE Verify(w)
  BY <1>26 DEF Verify, Goto, Fault, LiveLease
<1>27. CASE Finish(w)
  BY <1>27 DEF Finish, Record, Goto, Verified, LiveLease
<1>28. CASE FinishFails(w)
  BY <1>28 DEF FinishFails, Goto, Fault, LiveLease
<1>29. CASE MarkUncertain(w)
  BY <1>29 DEF MarkUncertain, Fault, Record, Goto, LiveLease
<1>30. CASE DispatchDone(w)
  BY <1>30 DEF DispatchDone, Goto, LiveLease
<1>31. CASE MarkRunning(w)
  BY <1>31 DEF MarkRunning, Goto, Allowed, LiveLease
<1>32. CASE MarkTerminal(w)
  BY <1>32 DEF MarkTerminal, Goto, Outcome, Allowed, LiveLease
<1>33. CASE CompletionRefused(w)
  BY <1>33 DEF CompletionRefused, Goto, Forget, Outcome, Allowed, LiveLease
<1>34. CASE ReleaseLease(w)
  BY <1>34 DEF ReleaseLease, Goto, Forget, LiveLease
<1>35. CASE Crash(w)
  BY <1>35 DEF Crash, Goto, Fault, Forget, LiveLease
<1> QED
  BY <1>1, <1>2, <1>3, <1>4, <1>5, <1>6, <1>7, <1>8, <1>9, <1>10, <1>11, <1>12, <1>13,
     <1>14, <1>15, <1>16, <1>17, <1>18, <1>19, <1>20, <1>21, <1>22, <1>23, <1>24, <1>25,
     <1>26, <1>27, <1>28, <1>29, <1>30, <1>31, <1>32, <1>33, <1>34, <1>35 DEF Sweep,
     Dispatch

\* The operator and the clock change no row of a generation and no process.
LEMMA EnvironmentStep ==
  ASSUME IInv,
         \/ \E r \in Requests : Cancel(r)
         \/ \E k \in Kills : RequestKill(k)
         \/ Tick
  PROVE  IInv'
<1> USE DEF IInv
<1>1. UNCHANGED <<genStatus, genReq, genRule, guard, applied, reverted, pc, localVars>>
  BY DEF Cancel, RequestKill, Tick, genVars
<1>2. Scoped' /\ Identified' /\ LockHeld' /\ OwnsGeneration' /\ OneOwner' /\ ReceiptsMatch'
  BY <1>1 DEF Scoped, Identified, LockHeld, OwnsGeneration, OneOwner, ReceiptsMatch, Active,
     localVars
<1>3. MandatoryPersisted' /\ \A r : Receipted(r)' <=> Receipted(r)
  BY <1>1 DEF MandatoryPersisted, Receipted, localVars
<1>4. ProcessesTyped' /\ GenerationsTyped'
  <2>1. ProcessesTyped'
    BY <1>1 DEF TypeOK, ProcessesTyped, localVars
  <2>2. genTtl' \in [Gens -> 0..Ttl]
    BY TimeAssumption DEF Cancel, RequestKill, Tick, Less, genVars, TypeOK, GenerationsTyped
  <2> QED
    BY <1>1, <2>1, <2>2 DEF TypeOK, GenerationsTyped
<1>5. RowsTyped' /\ SuccessHasReceipt'
  <2> USE DEF TypeOK, RowsTyped, SuccessHasReceipt
  <2>1. ASSUME NEW r \in Requests, Cancel(r) PROVE RowsTyped' /\ SuccessHasReceipt'
    BY <1>3, <2>1 DEF Cancel, RequestStatus, leaseVars, killVars
  <2>2. ASSUME NEW k \in Kills, RequestKill(k) PROVE RowsTyped' /\ SuccessHasReceipt'
    BY <1>3, <2>2 DEF RequestKill, KillStatus, leaseVars, requestVars
  <2>3. CASE Tick
    BY <1>3, <2>3, TimeAssumption DEF Tick, Less, killVars
  <2> QED
    BY <2>1, <2>2, <2>3
<1>6. LiveLeaseNotStolen'
  <2>1. \A r \in Requests : LiveLease(r)' => LiveLease(r)
    BY TimeAssumption DEF Cancel, RequestKill, Tick, Less, LiveLease, leaseVars, TypeOK, RowsTyped
  <2>2. leaseHolder' = leaseHolder
    BY DEF Cancel, RequestKill, Tick, leaseVars
  <2> QED
    BY <1>1, <2>1, <2>2 DEF LiveLeaseNotStolen, Scoped, DispatchSteps, localVars
<1> QED
  BY <1>2, <1>3, <1>4, <1>5, <1>6 DEF TypeOK

\* Nothing is prepared, claimed or requested yet.
LEMMA Initially == Init => IInv
<1> SUFFICES ASSUME Init PROVE IInv
  OBVIOUS
<1> USE DEF Init
<1>1. RowsTyped
  BY PlanAssumption, TimeAssumption DEF RowsTyped, RequestStatus, LeaseStatus, KillStatus
<1>2. GenerationsTyped
  BY TimeAssumption DEF GenerationsTyped, GenStatus
<1>3. ProcessesTyped
  BY DEF ProcessesTyped, Steps
<1>4. Scoped /\ LockHeld /\ OwnsGeneration /\ MandatoryPersisted /\ LiveLeaseNotStolen
  BY DEF Scoped, LockHeld, OwnsGeneration, MandatoryPersisted, LiveLeaseNotStolen, OwningSteps,
     LockSteps, DispatchSteps
<1>5. Identified /\ OneOwner /\ ReceiptsMatch /\ SuccessHasReceipt
  BY DEF Identified, OneOwner, ReceiptsMatch, SuccessHasReceipt, Active, ActiveStatus
<1> QED
  BY <1>1, <1>2, <1>3, <1>4, <1>5 DEF IInv, TypeOK

LEMMA Stuttering == IInv /\ UNCHANGED vars => IInv'
<1> SUFFICES ASSUME IInv, UNCHANGED vars PROVE IInv'
  OBVIOUS
<1> USE DEF vars, requestVars, leaseVars, genVars, killVars, localVars
<1>1. TypeOK'
  BY DEF IInv, TypeOK, RowsTyped, GenerationsTyped, ProcessesTyped
<1>2. Scoped' /\ Identified' /\ LockHeld' /\ OwnsGeneration' /\ MandatoryPersisted'
  BY DEF IInv, Scoped, Identified, LockHeld, OwnsGeneration, MandatoryPersisted, Receipted
<1>3. OneOwner' /\ ReceiptsMatch' /\ SuccessHasReceipt' /\ LiveLeaseNotStolen'
  BY DEF IInv, OneOwner, ReceiptsMatch, SuccessHasReceipt, LiveLeaseNotStolen, Receipted, Active,
     LiveLease
<1> QED
  BY <1>1, <1>2, <1>3 DEF IInv

LEMMA Inductive == IInv /\ [Next]_vars => IInv'
<1> SUFFICES ASSUME IInv, [Next]_vars PROVE IInv'
  OBVIOUS
<1>1. ASSUME NEW w \in Workers, Sweep(w) \/ Dispatch(w) \/ Crash(w) PROVE IInv'
  <2>1. TypeOK'
    BY <1>1, RowsStep, GenerationsStep, ProcessesStep DEF IInv, TypeOK
  <2>2. Scoped' /\ Identified' /\ LockHeld'
    BY <1>1, ScopedStep, IdentifiedStep, LockHeldStep DEF IInv
  <2>3. OwnsGeneration' /\ MandatoryPersisted'
    BY <1>1, OwnsGenerationStep, MandatoryStep DEF IInv
  <2>4. OneOwner' /\ ReceiptsMatch'
    BY <1>1, OneOwnerStep, ReceiptsStep DEF IInv
  <2>5. SuccessHasReceipt' /\ LiveLeaseNotStolen'
    BY <1>1, SuccessStep, LeaseStep DEF IInv
  <2> QED
    BY <2>1, <2>2, <2>3, <2>4, <2>5 DEF IInv
<1>2. CASE (\E r \in Requests : Cancel(r)) \/ (\E k \in Kills : RequestKill(k)) \/ Tick
  BY <1>2, EnvironmentStep
<1>3. CASE UNCHANGED vars
  BY <1>3, Stuttering
<1> QED
  BY <1>1, <1>2, <1>3 DEF Next

\* All of the state stays in its type, however replicas, operator, clock and faults
\* interleave.
THEOREM TypeCorrect == Spec => []TypeOK
<1>1. IInv => TypeOK
  BY DEF IInv
<1> QED
  BY <1>1, Initially, Inductive, PTL DEF Spec

\* However many replicas apply, recover and kill, one concrete rule never has two
\* active generations (the ownership the partial unique index is there for).
THEOREM RuleHasOneOwner == Spec => []OneOwner
<1>1. IInv => OneOwner
  BY DEF IInv
<1> QED
  BY <1>1, Initially, Inductive, PTL DEF Spec

\* Receipts and generation statuses agree after any failed commit or crash.
THEOREM ReceiptsTellTheTruth == Spec => []ReceiptsMatch
<1>1. IInv => ReceiptsMatch
  BY DEF IInv
<1> QED
  BY <1>1, Initially, Inductive, PTL DEF Spec

\* No request is reported `success` without the durable receipt of its mandatory
\* adapter, not by a late replica whose lease has lapsed either.
THEOREM SuccessIsBacked == Spec => []SuccessHasReceipt
<1>1. IInv => SuccessHasReceipt
  BY DEF IInv
<1> QED
  BY <1>1, Initially, Inductive, PTL DEF Spec

\* R3: no recovery takes a prepared generation from a replica with a live lease.
THEOREM LiveOwnersKeepTheirGeneration == Spec => []LiveLeaseNotStolen
<1>1. IInv => LiveLeaseNotStolen
  BY DEF IInv
<1> QED
  BY <1>1, Initially, Inductive, PTL DEF Spec

\* Completion, cancellation and maintenance ask for allowed transitions only.
LEMMA SettledAction ==
  ASSUME TypeOK, Scoped, [Next]_vars
  PROVE  SettledStep
<1> USE DEF TypeOK, RowsTyped, SettledStep
<1>1. ASSUME NEW w \in Workers, Sweep(w) \/ Dispatch(w) \/ Crash(w) PROVE SettledStep
  <2>1. CASE Maintain(w)
    BY <2>1 DEF Maintain, Reclaimed, TimedOut, Retried
  <2>2. CASE Claim(w)
    BY <2>2 DEF Claim, Claimable
  <2>3. CASE MarkRunning(w)
    BY <2>3 DEF MarkRunning, Allowed
  <2>4. CASE MarkTerminal(w)
    <3>1. Outcome(seen[w]) \in {"success", "failed", "rollback_required"}
      BY OutcomeStatus DEF ProcessesTyped
    <3> QED
      BY <2>4, <3>1 DEF MarkTerminal, Allowed
  <2>5. CASE UNCHANGED status
    BY <2>5
  <2> QED
    BY <1>1, <2>1, <2>2, <2>3, <2>4, <2>5 DEF Sweep, Dispatch, ListKills, RouteKill, LegacyKill, ListGenerations,
          SweepGeneration, RecoverBusy, RecoverResolved, RecoverLock, LeaveInFlight,
          RecoverPrepared, LetGo, Rollback, Resolve, Retain, LegacyRollback, MarkProcessed,
          NothingToClaim, Authorize, Refuse, Preflight, Prepare, PrepareFails, Apply, Verify,
          Finish, FinishFails, MarkUncertain, DispatchDone, CompletionRefused, ReleaseLease,
          Crash, Added, Allowed, Back, EndRecovery, Fault, Forget, Goto, Insert, Outcome,
          Record, Remove, Unlock, Verified, requestVars
<1>2. ASSUME NEW r \in Requests, Cancel(r) PROVE SettledStep
  BY <1>2 DEF Cancel, Allowed
<1>3. CASE (\E k \in Kills : RequestKill(k)) \/ Tick \/ UNCHANGED vars
  BY <1>3 DEF RequestKill, Tick, vars, requestVars
<1> QED
  BY <1>1, <1>2, <1>3 DEF Next

\* An uncertain or finished request is never reopened: only an operator moves
\* `rollback_required`, and only to `cancelled`.
THEOREM SettledIsFinal == Spec => SettledStaysSettled
<1>1. IInv /\ [Next]_vars => [SettledStep]_vars
  BY SettledAction DEF IInv
<1> QED
  BY <1>1, Initially, Inductive, PTL DEF Spec, SettledStaysSettled

-----------------------------------------------------------------------------
(***************************************************************************)
(* What is in force on the host, who answers for it and when it may be     *)
(* undone.  With slow adapter commands or retries a second replica may     *)
(* take a rule from under its owner, and it may undo one early with a list *)
(* gone stale; the rest of this module shows that nothing else can.        *)
(***************************************************************************)

\* A dispatch always ends before its lease lapses, and no request is retried.
Calm == BoundedIO /\ MaxRetries = 0

\* One replica runs the executor.
OneReplica == \A v, w \in Workers : v = w

\* Either keeps a replica from being robbed of what it is working on.
Undisturbed == Calm \/ OneReplica

-----------------------------------------------------------------------------
(* What one step of a replica may do to the generations and to the host. *)

\* The other replicas keep what they have in hand.
OthersKept(w) ==
  \A v \in Workers : v # w =>
    /\ pc'[v] = pc[v] /\ req'[v] = req[v] /\ gen'[v] = gen[v] /\ rule'[v] = rule[v]
    /\ seen'[v] = seen[v] /\ cause'[v] = cause[v] /\ agenda'[v] = agenda[v]

\* Only `resolve` gives a rule up, only `prepare` takes one.
OwnershipMoves(w) ==
  \A g \in Gens :
    /\ genStatus[g] # "unused" => genReq'[g] = genReq[g] /\ genRule'[g] = genRule[g]
    /\ Active(g) => Active(g)' \/ (pc[w] = "resolve" /\ g = gen[w])
    /\ Active(g)' => Active(g) \/ (pc[w] = "prepare" /\ Insert(w, g))

\* Only `apply` puts a rule on the host.
HostMoves(w) ==
  \A x \in Rules : Present(x)' => Present(x) \/ (pc[w] = "apply" /\ x = rule[w])

LEMMA OthersAreKept ==
  ASSUME TypeOK, NEW w \in Workers, Sweep(w) \/ Dispatch(w) \/ Crash(w)
  PROVE  OthersKept(w)
<1> USE DEF TypeOK, ProcessesTyped, OthersKept, Goto, localVars
<1>1. CASE ListKills(w)
  BY <1>1 DEF ListKills
<1>2. CASE RouteKill(w)
  BY <1>2 DEF RouteKill
<1>3. CASE LegacyKill(w)
  BY <1>3 DEF LegacyKill
<1>4. CASE ListGenerations(w)
  BY <1>4 DEF ListGenerations
<1>5. CASE SweepGeneration(w)
  BY <1>5 DEF SweepGeneration
<1>6. CASE RecoverBusy(w)
  BY <1>6 DEF RecoverBusy, EndRecovery
<1>7. CASE RecoverResolved(w)
  BY <1>7 DEF RecoverResolved, EndRecovery
<1>8. CASE RecoverLock(w)
  BY <1>8 DEF RecoverLock
<1>9. CASE LeaveInFlight(w)
  BY <1>9 DEF LeaveInFlight, EndRecovery
<1>10. CASE RecoverPrepared(w)
  BY <1>10 DEF RecoverPrepared, EndRecovery
<1>11. CASE LetGo(w)
  BY <1>11 DEF LetGo, EndRecovery
<1>12. CASE Rollback(w)
  BY <1>12 DEF Rollback, Remove
<1>13. CASE Resolve(w)
  BY <1>13 DEF Resolve, EndRecovery
<1>14. CASE Retain(w)
  BY <1>14 DEF Retain, EndRecovery
<1>15. CASE LegacyRollback(w)
  BY <1>15 DEF LegacyRollback, Remove
<1>16. CASE MarkProcessed(w)
  BY <1>16 DEF MarkProcessed, EndRecovery
<1>17. CASE Maintain(w)
  BY <1>17 DEF Maintain
<1>18. CASE Claim(w)
  BY <1>18 DEF Claim
<1>19. CASE NothingToClaim(w)
  BY <1>19 DEF NothingToClaim
<1>20. CASE Authorize(w)
  BY <1>20 DEF Authorize
<1>21. CASE Refuse(w)
  BY <1>21 DEF Refuse
<1>22. CASE Preflight(w)
  BY <1>22 DEF Preflight
<1>23. CASE Prepare(w)
  BY <1>23 DEF Prepare
<1>24. CASE PrepareFails(w)
  BY <1>24 DEF PrepareFails
<1>25. CASE Apply(w)
  BY <1>25 DEF Apply
<1>26. CASE Verify(w)
  BY <1>26 DEF Verify
<1>27. CASE Finish(w)
  BY <1>27 DEF Finish, Record
<1>28. CASE FinishFails(w)
  BY <1>28 DEF FinishFails
<1>29. CASE MarkUncertain(w)
  BY <1>29 DEF MarkUncertain, Record
<1>30. CASE DispatchDone(w)
  BY <1>30 DEF DispatchDone
<1>31. CASE MarkRunning(w)
  BY <1>31 DEF MarkRunning
<1>32. CASE MarkTerminal(w)
  BY <1>32 DEF MarkTerminal
<1>33. CASE CompletionRefused(w)
  BY <1>33 DEF CompletionRefused, Forget
<1>34. CASE ReleaseLease(w)
  BY <1>34 DEF ReleaseLease, Forget
<1>35. CASE Crash(w)
  BY <1>35 DEF Crash, Forget
<1> QED
  BY <1>1, <1>2, <1>3, <1>4, <1>5, <1>6, <1>7, <1>8, <1>9, <1>10, <1>11, <1>12,
     <1>13, <1>14, <1>15, <1>16, <1>17, <1>18, <1>19, <1>20, <1>21, <1>22, <1>23, <1>24,
     <1>25, <1>26, <1>27, <1>28, <1>29, <1>30, <1>31, <1>32, <1>33, <1>34, <1>35
       DEF Sweep, Dispatch

LEMMA OwnershipStep ==
  ASSUME TypeOK, Scoped, LockHeld, NEW w \in Workers, Sweep(w) \/ Dispatch(w) \/ Crash(w)
  PROVE  OwnershipMoves(w)
<1> USE DEF TypeOK, GenerationsTyped, ProcessesTyped, Scoped, LockHeld, OwningSteps, LockSteps,
       OwnershipMoves, Active, ActiveStatus
<1>1. CASE RecoverPrepared(w)
  BY <1>1 DEF RecoverPrepared
<1>2. CASE Resolve(w)
  BY <1>2 DEF Resolve
<1>3. CASE Retain(w)
  BY <1>3 DEF Retain
<1>4. CASE Prepare(w)
  <2>1. PICK h \in Gens : Insert(w, h)
    BY <1>4 DEF Prepare
  <2>2. \A g \in Gens : g = h \/ UNCHANGED <<genStatus[g], genReq[g], genRule[g]>>
    BY <2>1 DEF Insert
  <2>3. genStatus[h] = "unused" /\ pc[w] = "prepare"
    BY <1>4, <2>1 DEF Prepare, Insert
  <2> QED BY <2>1, <2>2, <2>3
<1>5. CASE PrepareFails(w)
  <2>1. CASE UNCHANGED <<genStatus, genReq, genRule, genTtl>>
    BY <2>1
  <2>2. CASE \E g \in Gens : Insert(w, g)
    <3>1. PICK h \in Gens : Insert(w, h)
      BY <2>2
    <3>2. \A g \in Gens : g = h \/ UNCHANGED <<genStatus[g], genReq[g], genRule[g]>>
      BY <3>1 DEF Insert
    <3>3. genStatus[h] = "unused" /\ pc[w] = "prepare"
      BY <1>5, <3>1 DEF PrepareFails, Insert
    <3> QED BY <3>1, <3>2, <3>3
  <2> QED BY <1>5, <2>1, <2>2 DEF PrepareFails
<1>6. CASE Finish(w)
  BY <1>6 DEF Finish
<1>7. CASE FinishFails(w)
  BY <1>7 DEF FinishFails
<1>8. CASE MarkUncertain(w)
  BY <1>8 DEF MarkUncertain
<1>9. CASE UNCHANGED <<genStatus, genReq, genRule>>
  BY <1>9
<1> QED
  BY <1>1, <1>2, <1>3, <1>4, <1>5, <1>6, <1>7, <1>8, <1>9
     DEF Sweep, Dispatch, ListKills, RouteKill, LegacyKill, ListGenerations, SweepGeneration,
     RecoverBusy, RecoverResolved, RecoverLock, LeaveInFlight, LetGo, Rollback, LegacyRollback,
     MarkProcessed, Maintain, Claim, NothingToClaim, Authorize, Refuse, Preflight, Apply, Verify,
     DispatchDone, MarkRunning, MarkTerminal, CompletionRefused, ReleaseLease, Crash, genVars

LEMMA HostStep ==
  ASSUME TypeOK, NEW w \in Workers, Sweep(w) \/ Dispatch(w) \/ Crash(w)
  PROVE  HostMoves(w)
<1> USE DEF TypeOK, RowsTyped, HostMoves, Present
<1>1. CASE Apply(w)
  BY <1>1 DEF Apply, Added
<1>2. CASE Rollback(w) \/ LegacyRollback(w)
  <2>1. host' = host \/ host' = [host EXCEPT ![rule[w]] = 0]
    BY <1>2 DEF Rollback, LegacyRollback, Remove
  <2> QED BY <2>1
<1>3. CASE UNCHANGED host
  BY <1>3
<1> QED
  BY <1>1, <1>2, <1>3
     DEF Sweep, Dispatch, ListKills, RouteKill, LegacyKill, ListGenerations, SweepGeneration,
     RecoverBusy, RecoverResolved, RecoverLock, LeaveInFlight, RecoverPrepared, LetGo, Resolve,
     Retain, MarkProcessed, Maintain, Claim, NothingToClaim, Authorize, Refuse, Preflight,
     Prepare, PrepareFails, Verify, Finish, FinishFails, MarkUncertain, DispatchDone,
     MarkRunning, MarkTerminal, CompletionRefused, ReleaseLease, Crash

\* The operator and the clock move no generation and put nothing on the host.
LEMMA QuietSteps ==
  ASSUME TypeOK, \/ \E r \in Requests : Cancel(r)
                 \/ \E k \in Kills : RequestKill(k)
                 \/ Tick \/ UNCHANGED vars
  PROVE  /\ UNCHANGED <<genStatus, genReq, genRule, guard, pc, req, rule, gen, seen, cause, agenda>>
         /\ \A x \in Rules : Present(x)' => Present(x)
<1> USE DEF TypeOK, RowsTyped, Present
<1>1. CASE UNCHANGED <<genVars, pc, localVars, host>>
  BY <1>1 DEF genVars, localVars
<1>2. CASE Tick
  BY <1>2, TimeAssumption DEF Tick, Less, localVars
<1>3. CASE (\E r \in Requests : Cancel(r)) \/ (\E k \in Kills : RequestKill(k)) \/ UNCHANGED vars
  BY <1>1, <1>3 DEF Cancel, RequestKill, vars
<1> QED BY <1>2, <1>3

\* A sweep never ends in a step of a dispatch.
LEMMA SweepsStayOut ==
  ASSUME TypeOK, Scoped, NEW w \in Workers, Sweep(w) \/ Crash(w)
  PROVE  pc'[w] \notin DispatchSteps
<1> USE DEF TypeOK, ProcessesTyped, DispatchSteps, Goto, localVars
<1>1. CASE \/ ListKills(w) \/ RouteKill(w) \/ LegacyKill(w) \/ ListGenerations(w)
           \/ SweepGeneration(w) \/ RecoverLock(w) \/ Crash(w)
  BY <1>1 DEF Crash, ListKills, RouteKill, LegacyKill, ListGenerations, SweepGeneration,
     RecoverLock
<1>2. CASE \/ RecoverBusy(w) \/ RecoverResolved(w) \/ LeaveInFlight(w)
           \/ RecoverPrepared(w) \/ LetGo(w)
  BY <1>2 DEF RecoverBusy, RecoverResolved, LeaveInFlight, RecoverPrepared, LetGo,
     EndRecovery, Back
<1>3. CASE Rollback(w) \/ Resolve(w) \/ Retain(w) \/ LegacyRollback(w) \/ MarkProcessed(w)
  BY <1>3 DEF Rollback, Resolve, Retain, LegacyRollback, MarkProcessed, EndRecovery, Back,
     Remove
<1> QED BY <1>1, <1>2, <1>3 DEF Sweep

-----------------------------------------------------------------------------
(* Leases of calm replicas. *)

\* A dispatching replica holds the live lease of a request nobody else can claim,
\* and `failed` is the last word about it.
LeaseKept ==
  \A w \in Workers : pc[w] \in DispatchSteps =>
    /\ LiveLease(req[w]) /\ leaseHolder[req[w]] = w
    /\ status[req[w]] \notin {"pending", "approved", "queued"}
    /\ pc[w] # "release" => status[req[w]] # "failed"

\* What a step of w may do to the requests of others.
OthersRequests(w) ==
  \A r \in Requests :
    \/ /\ LiveLease(r) /\ status[r] \notin {"pending", "approved", "queued"} =>
            /\ LiveLease(r)' /\ leaseHolder'[r] = leaseHolder[r]
            /\ status'[r] \notin {"pending", "approved", "queued"}
       /\ status'[r] = "failed" => status[r] = "failed"
    \/ pc[w] = "claim" /\ status[r] \in {"pending", "approved", "queued"}
    \/ pc[w] \in DispatchSteps /\ r = req[w]

LEMMA RequestStep ==
  ASSUME Calm, TypeOK, Scoped, NEW w \in Workers, Sweep(w) \/ Dispatch(w) \/ Crash(w)
  PROVE  OthersRequests(w)
<1> USE DEF Calm, TypeOK, RowsTyped, Scoped, OthersRequests, LiveLease, DispatchSteps
<1>1. CASE Maintain(w)
  <2> SUFFICES ASSUME NEW r \in Requests
               PROVE  /\ LiveLease(r) => LiveLease(r)' /\ status'[r] \in {status[r], "timeout"}
                      /\ status'[r] = "failed" => status[r] = "failed"
    BY <1>1 DEF Maintain
  <2>1. ~Retried(r)
    BY DEF Retried
  <2>2. LiveLease(r) => ~Lapsed(r) /\ ~Reclaimed(r)
    BY DEF Lapsed, Reclaimed
  <2> QED BY <1>1, <2>1, <2>2 DEF Maintain
<1>2. CASE Claim(w)
  BY <1>2 DEF Claim, Claimable
<1>3. CASE MarkRunning(w) \/ MarkTerminal(w) \/ ReleaseLease(w)
  <2>1. req[w] \in Requests /\ pc[w] \in DispatchSteps
    BY <1>3 DEF MarkRunning, MarkTerminal, ReleaseLease
  <2>2. \A r \in Requests : r # req[w] => UNCHANGED <<status[r], leaseState[r], leaseHolder[r], leaseLeft[r]>>
    <3>1. CASE MarkRunning(w)
      BY <2>1, <3>1 DEF MarkRunning, leaseVars
    <3>2. CASE MarkTerminal(w)
      BY <2>1, <3>2 DEF MarkTerminal, leaseVars
    <3>3. CASE ReleaseLease(w)
      BY <2>1, <3>3 DEF ReleaseLease, requestVars
    <3> QED BY <1>3, <3>1, <3>2, <3>3
  <2> QED BY <2>1, <2>2
<1>4. CASE UNCHANGED <<status, leaseState, leaseHolder, leaseLeft>>
  BY <1>4
<1> QED
  BY <1>1, <1>2, <1>3, <1>4
     DEF Sweep, Dispatch, ListKills, RouteKill, LegacyKill, ListGenerations, SweepGeneration,
     RecoverBusy, RecoverResolved, RecoverLock, LeaveInFlight, RecoverPrepared, LetGo, Rollback,
     Resolve, Retain, LegacyRollback, MarkProcessed, NothingToClaim, Authorize, Refuse,
     Preflight, Prepare, PrepareFails, Apply, Verify, Finish, FinishFails, MarkUncertain,
     DispatchDone, CompletionRefused, Crash, requestVars, leaseVars

\* What w holds of its own request when its step leaves it dispatching.
LEMMA OwnRequestStep ==
  ASSUME Calm, TypeOK, Scoped, LeaseKept, NEW w \in Workers,
         Sweep(w) \/ Dispatch(w) \/ Crash(w), pc'[w] \in DispatchSteps
  PROVE  /\ LiveLease(req[w])' /\ leaseHolder'[req'[w]] = w
         /\ status'[req'[w]] \notin {"pending", "approved", "queued"}
         /\ pc'[w] # "release" => status'[req'[w]] # "failed"
         /\ pc[w] # "claim" => pc[w] \in DispatchSteps /\ req'[w] = req[w]
<1> DEFINE Goal ==
         /\ LiveLease(req[w])' /\ leaseHolder'[req'[w]] = w
         /\ status'[req'[w]] \notin {"pending", "approved", "queued"}
         /\ pc'[w] # "release" => status'[req'[w]] # "failed"
         /\ pc[w] # "claim" => pc[w] \in DispatchSteps /\ req'[w] = req[w]
<1> USE TimeAssumption DEF TypeOK, RowsTyped, ProcessesTyped, Scoped, LeaseKept, LiveLease,
        DispatchSteps, Goto, localVars
<1>1. CASE Claim(w)
  BY <1>1 DEF Claim
<1>2. CASE MarkRunning(w)
  BY <1>2 DEF MarkRunning, leaseVars
<1>3. CASE MarkTerminal(w)
  <2>1. Outcome(seen[w]) \in {"success", "failed", "rollback_required"}
    BY OutcomeStatus
  <2> QED BY <1>3, <2>1 DEF MarkTerminal, leaseVars
<1>4. ASSUME UNCHANGED <<status, leaseState, leaseHolder, leaseLeft>>, req'[w] = req[w],
             pc[w] \in DispatchSteps, pc[w] # "release"
      PROVE  Goal
  BY <1>4
<1>5. CASE \/ Authorize(w) \/ Refuse(w) \/ Preflight(w) \/ Prepare(w) \/ PrepareFails(w) \/ Apply(w)
           \/ Verify(w) \/ FinishFails(w) \/ DispatchDone(w)
  BY <1>4, <1>5 DEF Authorize, Refuse, Preflight, Prepare, PrepareFails, Apply, Verify, FinishFails,
     DispatchDone, requestVars, leaseVars
<1>6. CASE Finish(w) \/ MarkUncertain(w)
  BY <1>4, <1>6 DEF Finish, MarkUncertain, Record, requestVars, leaseVars
<1>7. CASE CompletionRefused(w) \/ ReleaseLease(w) \/ Crash(w) \/ Maintain(w) \/ NothingToClaim(w)
  BY <1>7 DEF CompletionRefused, ReleaseLease, Crash, Maintain, NothingToClaim
<1>8. CASE Sweep(w)
  BY <1>8, SweepsStayOut DEF DispatchSteps
<1> QED BY <1>1, <1>2, <1>3, <1>5, <1>6, <1>7, <1>8 DEF Dispatch

LEMMA LeaseKeptStays ==
  ASSUME Calm, IInv, LeaseKept, [Next]_vars
  PROVE  LeaseKept'
<1> USE DEF IInv
<1>1. ASSUME NEW w \in Workers, Sweep(w) \/ Dispatch(w) \/ Crash(w) PROVE LeaseKept'
  <2> SUFFICES ASSUME NEW v \in Workers, pc'[v] \in DispatchSteps
               PROVE  /\ LiveLease(req[v])' /\ leaseHolder'[req'[v]] = v
                      /\ status'[req'[v]] \notin {"pending", "approved", "queued"}
                      /\ pc'[v] # "release" => status'[req'[v]] # "failed"
    BY DEF LeaseKept
  <2>1. CASE v = w
    BY <1>1, <2>1, OwnRequestStep
  <2>2. CASE v # w
    <3>1. pc[v] \in DispatchSteps /\ pc'[v] = pc[v] /\ req'[v] = req[v] /\ req[v] \in Requests
      BY <1>1, <2>2, OthersAreKept DEF OthersKept, Scoped
    <3>2. /\ LiveLease(req[v]) /\ leaseHolder[req[v]] = v
          /\ status[req[v]] \notin {"pending", "approved", "queued"}
          /\ pc[v] # "release" => status[req[v]] # "failed"
      BY <3>1 DEF LeaseKept
    <3>3. pc[w] \in DispatchSteps => req[w] # req[v]
      BY <2>2, <3>2 DEF LeaseKept
    <3>4. OthersRequests(w)
      BY <1>1, RequestStep
    <3> QED BY <3>1, <3>2, <3>3, <3>4 DEF OthersRequests, LiveLease
  <2> QED BY <2>1, <2>2
<1>2. ASSUME NEW r \in Requests, Cancel(r) PROVE LeaseKept'
  <2>1. /\ UNCHANGED <<pc, req, leaseState, leaseHolder, leaseLeft>>
        /\ \A q \in Requests : status'[q] \in {status[q], "cancelled"}
    BY <1>2 DEF Cancel, leaseVars, localVars, TypeOK, RowsTyped
  <2> QED BY <2>1 DEF LeaseKept, LiveLease, Scoped
<1>3. CASE \E k \in Kills : RequestKill(k)
  BY <1>3 DEF RequestKill, requestVars, leaseVars, localVars, LeaseKept, LiveLease
<1>4. CASE Tick
  <2>1. UNCHANGED <<pc, req, status, leaseState, leaseHolder>>
    BY <1>4 DEF Tick, localVars
  <2>2. \A w \in Workers : pc[w] \in DispatchSteps => leaseLeft'[req[w]] > 0
    <3> SUFFICES ASSUME NEW w \in Workers, pc[w] \in DispatchSteps
                 PROVE  leaseLeft'[req[w]] > 0
      OBVIOUS
    <3>1. req[w] \in Requests /\ leaseLeft[req[w]] \in Nat
      BY TimeAssumption DEF Scoped, TypeOK, RowsTyped
    <3>2. leaseLeft[req[w]] > 1 /\ leaseLeft'[req[w]] = Less(leaseLeft[req[w]])
      BY <1>4, <3>1 DEF Tick, Calm
    <3> QED BY <3>1, <3>2 DEF Less
  <2> QED BY <2>1, <2>2 DEF LeaseKept, LiveLease
<1>5. CASE UNCHANGED vars
  BY <1>5 DEF vars, requestVars, leaseVars, localVars, LeaseKept, LiveLease
<1> QED BY <1>1, <1>2, <1>3, <1>4, <1>5 DEF Next

-----------------------------------------------------------------------------
(* A rule on the host has an owner as long as no replica is robbed of the    *)
(* generation it is about to apply.                                          *)

AppliesOwned ==
  \A w \in Workers : pc[w] \in {"apply", "verify", "finish"} => genStatus[gen[w]] = "prepared"

\* A recovery works on the rule of its generation, and has it off the host before
\* it gives the generation up.
Undoing ==
  \A w \in Workers :
    /\ pc[w] \in LockSteps => rule[w] = genRule[gen[w]]
    /\ pc[w] = "resolve" => ~Present(rule[w])

Owned == Undoing /\ NoOrphanRule

\* No two replicas dispatch one request, and none dispatches a `failed` one.
OwnRequests ==
  /\ \A v, w \in Workers :
       pc[v] \in DispatchSteps /\ pc[w] \in DispatchSteps /\ req[v] = req[w] => v = w
  /\ \A w \in Workers : pc[w] \in DispatchSteps \ {"release"} => status[req[w]] # "failed"

\* What either hypothesis of these proofs gives every step.
Disciplined == AppliesOwned /\ OwnRequests /\ (Calm => LeaseKept)

\* A lone replica has no prepared generation swept while it dispatches.
LEMMA AloneAppliesOwned ==
  ASSUME OneReplica, TypeOK, Scoped, AppliesOwned, NEW w \in Workers,
         Sweep(w) \/ Dispatch(w) \/ Crash(w)
  PROVE  AppliesOwned'
<1> USE DEF TypeOK, GenerationsTyped, ProcessesTyped, Scoped, AppliesOwned, OwningSteps,
        LockSteps, Goto, genVars, localVars
<1> SUFFICES ASSUME pc'[w] \in {"apply", "verify", "finish"}
             PROVE  genStatus'[gen'[w]] = "prepared"
  BY DEF OneReplica
<1>1. CASE Prepare(w)
  BY <1>1 DEF Prepare, Insert
<1>2. CASE Apply(w) \/ Verify(w)
  BY <1>2 DEF Apply, Verify
<1>3. CASE /\ Dispatch(w)
           /\ ~(Prepare(w) \/ Apply(w) \/ Verify(w))
  BY <1>3 DEF Dispatch, Maintain, Claim, NothingToClaim, Authorize, Refuse, Preflight,
     PrepareFails, Finish, FinishFails, MarkUncertain, Record, DispatchDone, MarkRunning,
     MarkTerminal, CompletionRefused, ReleaseLease
<1>4. CASE Sweep(w) \/ Crash(w)
  BY <1>4, SweepsStayOut DEF DispatchSteps
<1> QED BY <1>1, <1>2, <1>3, <1>4

LEMMA AloneOwnRequests ==
  ASSUME OneReplica, TypeOK, Scoped, OwnRequests, NEW w \in Workers,
         Sweep(w) \/ Dispatch(w) \/ Crash(w)
  PROVE  OwnRequests'
<1> USE DEF TypeOK, RowsTyped, ProcessesTyped, Scoped, OwnRequests, DispatchSteps, Goto,
        requestVars, localVars
<1> SUFFICES ASSUME pc'[w] \in DispatchSteps \ {"release"}
             PROVE  status'[req'[w]] # "failed"
  BY DEF OneReplica
<1>1. CASE Claim(w)
  BY <1>1 DEF Claim
<1>2. CASE MarkRunning(w)
  BY <1>2 DEF MarkRunning
<1>3. CASE MarkTerminal(w) \/ CompletionRefused(w) \/ ReleaseLease(w)
  BY <1>3 DEF MarkTerminal, CompletionRefused, ReleaseLease
<1>4. CASE Maintain(w) \/ NothingToClaim(w)
  BY <1>4 DEF Maintain, NothingToClaim
<1>5. CASE \/ Authorize(w) \/ Refuse(w) \/ Preflight(w) \/ Prepare(w) \/ PrepareFails(w) \/ Apply(w)
           \/ Verify(w) \/ FinishFails(w) \/ DispatchDone(w)
  BY <1>5 DEF Authorize, Refuse, Preflight, Prepare, PrepareFails, Apply, Verify, FinishFails,
     DispatchDone
<1>6. CASE Finish(w) \/ MarkUncertain(w)
  BY <1>6 DEF Finish, MarkUncertain, Record
<1>7. CASE Sweep(w) \/ Crash(w)
  BY <1>7, SweepsStayOut DEF DispatchSteps
<1> QED BY <1>1, <1>2, <1>3, <1>4, <1>5, <1>6, <1>7 DEF Dispatch

LEMMA QuietDiscipline ==
  ASSUME TypeOK, Scoped, AppliesOwned, OwnRequests,
         \/ \E r \in Requests : Cancel(r)
         \/ \E k \in Kills : RequestKill(k)
         \/ Tick \/ UNCHANGED vars
  PROVE  AppliesOwned' /\ OwnRequests'
<1>1. UNCHANGED <<genStatus, pc, gen, req>>
  BY QuietSteps
<1>2. \A r \in Requests : status'[r] = "failed" => status[r] = "failed"
  BY DEF Cancel, RequestKill, Tick, vars, requestVars, TypeOK, RowsTyped
<1>3. \A w \in Workers : pc[w] \in DispatchSteps => req[w] \in Requests
  BY DEF Scoped
<1>4. AppliesOwned'
  BY <1>1 DEF AppliesOwned
<1>5. OwnRequests'
  BY <1>1, <1>2, <1>3 DEF OwnRequests
<1> QED BY <1>4, <1>5

LEMMA DisciplineStays ==
  ASSUME Undisturbed, IInv, Disciplined, [Next]_vars
  PROVE  Disciplined'
<1>1. CASE Calm
  <2>1. IInv'
    BY Inductive
  <2>2. LeaseKept'
    BY <1>1, LeaseKeptStays DEF Disciplined
  <2> QED BY <2>1, <2>2 DEF IInv, LeaseKept, LiveLeaseNotStolen, AppliesOwned, OwnRequests,
             Disciplined, DispatchSteps
<1>2. CASE ~Calm
  <2>1. TypeOK /\ Scoped /\ AppliesOwned /\ OwnRequests /\ OneReplica
    BY <1>2 DEF IInv, Disciplined, Undisturbed
  <2>2. ASSUME NEW w \in Workers, Sweep(w) \/ Dispatch(w) \/ Crash(w)
        PROVE  AppliesOwned' /\ OwnRequests'
    BY <2>1, <2>2, AloneAppliesOwned, AloneOwnRequests
  <2>3. ASSUME \/ \E r \in Requests : Cancel(r)
               \/ \E k \in Kills : RequestKill(k)
               \/ Tick \/ UNCHANGED vars
        PROVE  AppliesOwned' /\ OwnRequests'
    BY <2>1, <2>3, QuietDiscipline
  <2>4. AppliesOwned' /\ OwnRequests'
    BY <2>2, <2>3 DEF Next
  <2>5. Calm' <=> Calm
    BY DEF Calm
  <2> QED BY <1>2, <2>4, <2>5 DEF Disciplined
<1> QED BY <1>1, <1>2

LEMMA OwnUndoing ==
  ASSUME IInv, Undoing, NEW w \in Workers, Sweep(w) \/ Dispatch(w) \/ Crash(w),
         pc'[w] \in LockSteps
  PROVE  /\ rule'[w] = genRule'[gen'[w]]
         /\ pc'[w] = "resolve" => ~Present(rule[w])'
<1> USE DEF IInv, TypeOK, GenerationsTyped, ProcessesTyped, RowsTyped, Scoped, Undoing,
        OwningSteps, LockSteps, Goto, Present
<1>1. CASE RecoverLock(w)
  BY <1>1 DEF RecoverLock
<1>2. CASE Rollback(w)
  <2>1. rule'[w] = genRule'[gen'[w]]
    BY <1>2 DEF Rollback, genVars, localVars
  <2>2. pc'[w] = "resolve" => host'[rule[w]] = 0 /\ rule' = rule
    BY <1>2 DEF Rollback, Remove, localVars
  <2> QED BY <2>1, <2>2
<1>3. CASE Sweep(w) /\ ~RecoverLock(w) /\ ~Rollback(w)
  BY <1>3, SMTT(40) DEF Sweep, ListKills, RouteKill, LegacyKill, ListGenerations, SweepGeneration,
     RecoverBusy, RecoverResolved, LeaveInFlight, RecoverPrepared, LetGo, Resolve, Retain,
     LegacyRollback, Remove, MarkProcessed, EndRecovery, Back
<1>4. CASE Dispatch(w)
  <2> SUFFICES pc'[w] \notin LockSteps
    BY DEF LockSteps
  <2>1. CASE \/ Maintain(w) \/ Claim(w) \/ NothingToClaim(w) \/ Authorize(w) \/ Refuse(w)
             \/ Preflight(w) \/ Prepare(w) \/ PrepareFails(w) \/ Apply(w) \/ Verify(w)
    BY <2>1 DEF Maintain, Claim, NothingToClaim, Authorize, Refuse, Preflight, Prepare,
       PrepareFails, Apply, Verify
  <2>2. CASE \/ Finish(w) \/ FinishFails(w) \/ MarkUncertain(w) \/ DispatchDone(w)
             \/ MarkRunning(w) \/ MarkTerminal(w) \/ CompletionRefused(w) \/ ReleaseLease(w)
    BY <2>2 DEF Finish, FinishFails, MarkUncertain, Record, DispatchDone, MarkRunning,
       MarkTerminal, CompletionRefused, ReleaseLease
  <2> QED BY <1>4, <2>1, <2>2 DEF Dispatch
<1>5. CASE Crash(w)
  BY <1>5 DEF Crash
<1> QED BY <1>1, <1>2, <1>3, <1>4, <1>5

\* Two active generations of one rule are one, so an apply never revives the rule
\* another replica has just removed.
LEMMA UndoingStep ==
  ASSUME IInv, AppliesOwned, Undoing, NEW w \in Workers, Sweep(w) \/ Dispatch(w) \/ Crash(w)
  PROVE  Undoing'
<1> USE DEF IInv
<1>1. OthersKept(w) /\ OwnershipMoves(w) /\ HostMoves(w)
  BY OthersAreKept, OwnershipStep, HostStep
<1> SUFFICES ASSUME NEW v \in Workers, pc'[v] \in LockSteps
             PROVE  rule'[v] = genRule'[gen'[v]] /\ (pc'[v] = "resolve" => ~Present(rule[v])')
  BY DEF Undoing, LockSteps
<1>2. CASE v = w
  BY <1>2, OwnUndoing
<1>3. CASE v # w
  <2>1. /\ pc[v] \in LockSteps /\ pc'[v] = pc[v] /\ rule'[v] = rule[v] /\ gen'[v] = gen[v]
        /\ gen[v] \in Gens /\ rule[v] \in Rules
    BY <1>1, <1>3 DEF OthersKept, Scoped
  <2>2. genStatus[gen[v]] # "unused" /\ rule[v] = genRule[gen[v]]
    BY <2>1 DEF LockHeld, Undoing
  <2>3. rule'[v] = genRule'[gen'[v]]
    BY <1>1, <2>1, <2>2 DEF OwnershipMoves
  <2>4. ASSUME pc[v] = "resolve", Present(rule[v])'
        PROVE  FALSE
    <3>1. ~Present(rule[v]) /\ genStatus[gen[v]] \in {"completed", "recovery_required"}
      BY <2>1, <2>4 DEF Undoing, LockHeld
    <3>2. pc[w] = "apply" /\ rule[w] = rule[v]
      BY <1>1, <2>1, <2>4, <3>1 DEF HostMoves, Present
    <3>3. gen[w] \in Gens /\ genRule[gen[w]] = rule[w] /\ genStatus[gen[w]] = "prepared"
      BY <3>2 DEF AppliesOwned, OwnsGeneration, Scoped, OwningSteps
    <3> QED BY <2>1, <2>2, <3>1, <3>2, <3>3 DEF OneOwner, Active, ActiveStatus
  <2> QED BY <2>1, <2>3, <2>4
<1> QED BY <1>2, <1>3

LEMMA NoOrphanStep ==
  ASSUME IInv, AppliesOwned, Undoing, NoOrphanRule, NEW w \in Workers,
         Sweep(w) \/ Dispatch(w) \/ Crash(w)
  PROVE  NoOrphanRule'
<1> USE DEF IInv
<1>1. OwnershipMoves(w) /\ HostMoves(w)
  BY OwnershipStep, HostStep
<1>2. pc[w] \in LockSteps => gen[w] \in Gens /\ genRule[gen[w]] = rule[w]
  BY DEF Scoped, Undoing
<1> SUFFICES ASSUME NEW x \in Rules, Present(x)'
             PROVE  \E g \in Gens : genRule'[g] = x /\ Active(g)'
  BY DEF NoOrphanRule, Owners
<1>3. PICK g \in Gens : genRule[g] = x /\ Active(g) /\ (Present(x) \/ pc[w] = "apply")
  <2>1. CASE Present(x)
    BY <2>1 DEF NoOrphanRule, Owners
  <2>2. CASE pc[w] = "apply" /\ x = rule[w]
    BY <2>2 DEF AppliesOwned, OwnsGeneration, Scoped, OwningSteps, Active, ActiveStatus
  <2> QED BY <1>1, <2>1, <2>2 DEF HostMoves
<1>4. genRule'[g] = x
  BY <1>1, <1>3 DEF OwnershipMoves, Active, ActiveStatus
<1>5. ~(pc[w] = "resolve" /\ g = gen[w])
  BY <1>2, <1>3 DEF Undoing, LockSteps
<1> QED BY <1>1, <1>3, <1>4, <1>5 DEF OwnershipMoves

LEMMA OwnedStays ==
  ASSUME IInv, AppliesOwned, Owned, [Next]_vars
  PROVE  Owned'
<1> USE DEF IInv, Owned
<1>1. ASSUME NEW w \in Workers, Sweep(w) \/ Dispatch(w) \/ Crash(w) PROVE Owned'
  BY <1>1, UndoingStep, NoOrphanStep
<1>2. CASE \/ \E r \in Requests : Cancel(r)
           \/ \E k \in Kills : RequestKill(k)
           \/ Tick \/ UNCHANGED vars
  <2>1. /\ UNCHANGED <<genStatus, genRule, pc, rule, gen>>
        /\ \A x \in Rules : Present(x)' => Present(x)
    BY <1>2, QuietSteps
  <2>2. Undoing'
    BY <2>1 DEF Undoing, Scoped, LockSteps, OwningSteps
  <2>3. NoOrphanRule'
    BY <2>1 DEF NoOrphanRule, Owners, Active
  <2> QED BY <2>2, <2>3
<1> QED BY <1>1, <1>2 DEF Next

LEMMA OwnedInitially == Init => Owned /\ Disciplined
BY DEF Init, Owned, Undoing, NoOrphanRule, LeaseKept, LockSteps, DispatchSteps, Present,
   Disciplined, AppliesOwned, OwnRequests

LEMMA OwnershipStays == Undisturbed /\ IInv /\ Disciplined /\ Owned /\ [Next]_vars => Owned'
BY OwnedStays DEF Disciplined

\* Through every crash, failed command and lost commit, a rule on the host has an
\* active generation that answers for it, if there is one replica, or dispatches end
\* within their lease and requests are not retried.  (The write-ahead order of
\* apply_single_adapter, and the receipt that gives a rule up only after its removal.)
THEOREM RulesHaveOwners == ASSUME Undisturbed PROVE Spec => []NoOrphanRule
<1> DEFINE Inv == IInv /\ Disciplined /\ Owned
<1>1. Init => Inv
  BY Initially, OwnedInitially
<1>2. Inv /\ [Next]_vars => Inv'
  BY Inductive, DisciplineStays, OwnershipStays
<1>3. Inv => NoOrphanRule
  BY DEF Owned
<1> QED BY <1>1, <1>2, <1>3, PTL DEF Spec

-----------------------------------------------------------------------------
(* `failed` leaves nothing behind. *)

\* A dispatch whose outcome would still be `failed`.
Undecided(w) ==
  /\ pc[w] \in DispatchSteps \ {"release"}
  /\ "owned" \notin seen[w] /\ "uncertain" \notin seen[w]

\* All it may have in force is the rule it has in hand.
UndecidedClean ==
  \A w \in Workers : Undecided(w) =>
    \A g \in Gens : genReq[g] = req[w] /\ Active(g) /\ Present(genRule[g]) =>
      pc[w] \in OwningSteps /\ g = gen[w]

LEMMA OutcomeFailed ==
  ASSUME NEW facts \in SUBSET Facts, Outcome(facts) = "failed"
  PROVE  facts = {}
<1>1. CASE "uncertain" \in facts
  BY <1>1 DEF Outcome
<1>2. CASE "uncertain" \notin facts /\ "mandatory" \in facts
  <2>1. facts # {} /\ facts # {"owned"}
    BY <1>2
  <2> QED BY <1>2, <2>1 DEF Outcome
<1>3. CASE facts = {"owned"}
  BY <1>3 DEF Outcome
<1> QED BY <1>1, <1>2, <1>3 DEF Facts

LEMMA FailedOnlyUndecided ==
  ASSUME TypeOK, Scoped, NEW w \in Workers, Sweep(w) \/ Dispatch(w) \/ Crash(w),
         NEW r \in Requests, status'[r] = "failed", status[r] # "failed"
  PROVE  pc[w] = "terminal" /\ r = req[w] /\ seen[w] = {}
<1> USE DEF TypeOK, RowsTyped, ProcessesTyped, Scoped
<1>1. CASE MarkTerminal(w)
  <2>1. r = req[w] /\ Outcome(seen[w]) = "failed"
    BY <1>1 DEF MarkTerminal
  <2> QED BY <1>1, <2>1, OutcomeFailed DEF MarkTerminal
<1>2. CASE Maintain(w)
  BY <1>2 DEF Maintain
<1>3. CASE Claim(w)
  BY <1>3 DEF Claim
<1>4. CASE MarkRunning(w)
  BY <1>4 DEF MarkRunning
<1>5. CASE UNCHANGED status
  BY <1>5
<1> QED
  BY <1>1, <1>2, <1>3, <1>4, <1>5
     DEF Sweep, Dispatch, ListKills, RouteKill, LegacyKill, ListGenerations, SweepGeneration,
     RecoverBusy, RecoverResolved, RecoverLock, LeaveInFlight, RecoverPrepared, LetGo, Rollback,
     Resolve, Retain, LegacyRollback, MarkProcessed, NothingToClaim, Authorize, Refuse,
     Preflight, Prepare, PrepareFails, Apply, Verify, Finish, FinishFails, MarkUncertain,
     DispatchDone, CompletionRefused, ReleaseLease, Crash, requestVars

\* How a replica comes to be undecided, and stays with the rule it has in hand.
LEMMA UndecidedMoves ==
  ASSUME TypeOK, Scoped, NEW w \in Workers, Sweep(w) \/ Dispatch(w) \/ Crash(w), Undecided(w)'
  PROVE  \/ pc[w] = "claim" /\ ~OwnsEffect(req'[w])
         \/ /\ Undecided(w) /\ req'[w] = req[w]
            /\ pc[w] \in OwningSteps => pc'[w] \in OwningSteps /\ gen'[w] = gen[w]
<1> USE DEF TypeOK, ProcessesTyped, Scoped, Undecided, DispatchSteps, OwningSteps, Goto, localVars
<1>1. CASE Claim(w)
  BY <1>1 DEF Claim, Claimable
<1>2. CASE Finish(w) \/ MarkUncertain(w)
  BY <1>2 DEF Finish, MarkUncertain, Record, Verified
<1>3. CASE \/ Authorize(w) \/ Refuse(w) \/ Preflight(w) \/ Prepare(w) \/ PrepareFails(w)
           \/ DispatchDone(w) \/ MarkRunning(w) \/ MarkTerminal(w)
  BY <1>3 DEF Authorize, Refuse, Preflight, Prepare, PrepareFails, DispatchDone, MarkRunning,
     MarkTerminal
<1>4. CASE Apply(w) \/ Verify(w) \/ FinishFails(w)
  BY <1>4 DEF Apply, Verify, FinishFails
<1>5. CASE CompletionRefused(w) \/ ReleaseLease(w) \/ Crash(w) \/ Maintain(w) \/ NothingToClaim(w)
  BY <1>5 DEF CompletionRefused, ReleaseLease, Crash, Maintain, NothingToClaim
<1>6. CASE Sweep(w)
  BY <1>6, SweepsStayOut DEF DispatchSteps
<1> QED BY <1>1, <1>2, <1>3, <1>4, <1>5, <1>6 DEF Dispatch

\* A generation whose rule a step of w has just brought into force is in w's hand.
LEMMA EffectsAreApplied ==
  ASSUME IInv, AppliesOwned, NoOrphanRule, NEW w \in Workers, Sweep(w) \/ Dispatch(w) \/ Crash(w),
         NEW g \in Gens, Active(g)', Present(genRule[g])'
  PROVE  /\ Active(g) /\ genReq'[g] = genReq[g] /\ genRule'[g] = genRule[g]
         /\ Present(genRule[g]) \/ (pc[w] = "apply" /\ g = gen[w] /\ genReq[g] = req[w])
<1> USE DEF IInv
<1>1. OwnershipMoves(w) /\ HostMoves(w)
  BY OwnershipStep, HostStep
<1>2. Active(g)
  <2> SUFFICES ASSUME pc[w] = "prepare", Insert(w, g) PROVE FALSE
    BY <1>1 DEF OwnershipMoves
  <2>1. genRule'[g] = rule[w] /\ rule[w] \in Rules /\ Owners(rule[w]) = {}
    BY DEF Insert, Scoped, TypeOK, GenerationsTyped
  <2>2. ~Present(rule[w])
    BY <2>1 DEF NoOrphanRule
  <2> QED BY <1>1, <2>1, <2>2 DEF HostMoves, Present
<1>3. genStatus[g] # "unused"
  BY <1>2 DEF Active, ActiveStatus
<1>4. genReq'[g] = genReq[g] /\ genRule'[g] = genRule[g] /\ genRule[g] \in Rules
  BY <1>1, <1>3 DEF OwnershipMoves, Identified
<1>5. ASSUME ~Present(genRule[g])
      PROVE  pc[w] = "apply" /\ g = gen[w] /\ genReq[g] = req[w]
  <2>1. pc[w] = "apply" /\ rule[w] = genRule[g]
    BY <1>1, <1>4, <1>5 DEF HostMoves, Present
  <2>2. /\ gen[w] \in Gens /\ genRule[gen[w]] = rule[w] /\ genReq[gen[w]] = req[w]
        /\ genStatus[gen[w]] = "prepared"
    BY <2>1 DEF AppliesOwned, OwnsGeneration, Scoped, OwningSteps
  <2> QED BY <1>2, <2>1, <2>2 DEF OneOwner, Active, ActiveStatus
<1> QED BY <1>2, <1>4, <1>5

LEMMA UndecidedCleanStep ==
  ASSUME IInv, Disciplined, NoOrphanRule, UndecidedClean, NEW w \in Workers,
         Sweep(w) \/ Dispatch(w) \/ Crash(w)
  PROVE  UndecidedClean'
<1> USE DEF IInv
<1>1. AppliesOwned /\ OwnRequests /\ OthersKept(w) /\ OwnershipMoves(w)
  BY OthersAreKept, OwnershipStep DEF Disciplined
<1> SUFFICES ASSUME NEW v \in Workers, Undecided(v)', NEW g \in Gens,
                    genReq'[g] = req'[v], Active(g)', Present(genRule[g])'
             PROVE  pc'[v] \in OwningSteps /\ g = gen'[v]
  BY DEF UndecidedClean
<1>2. /\ Active(g) /\ genReq[g] = req'[v]
      /\ Present(genRule[g]) \/ (pc[w] = "apply" /\ g = gen[w] /\ genReq[g] = req[w])
  BY <1>1, EffectsAreApplied
<1>3. CASE v = w
  <2>1. CASE pc[w] = "claim" /\ ~OwnsEffect(req'[w])
    BY <1>2, <1>3, <2>1 DEF OwnsEffect
  <2>2. CASE /\ Undecided(w) /\ req'[w] = req[w]
             /\ pc[w] \in OwningSteps => pc'[w] \in OwningSteps /\ gen'[w] = gen[w]
    <3>1. pc[w] \in OwningSteps /\ g = gen[w]
      BY <1>2, <1>3, <2>2 DEF UndecidedClean, OwningSteps
    <3> QED BY <1>3, <2>2, <3>1
  <2> QED BY <1>3, <2>1, <2>2, UndecidedMoves
<1>4. CASE v # w
  <2>1. Undecided(v) /\ UNCHANGED <<pc[v], req[v], gen[v]>>
    BY <1>1, <1>4 DEF OthersKept, Undecided
  <2>2. pc[w] = "apply" => req[w] # req[v]
    BY <1>1, <1>4, <2>1 DEF OwnRequests, Undecided, DispatchSteps
  <2> QED BY <1>2, <2>1, <2>2 DEF UndecidedClean
<1> QED BY <1>3, <1>4

LEMMA FailedEffectFreeStep ==
  ASSUME IInv, Disciplined, NoOrphanRule, UndecidedClean, FailedIsEffectFree,
         NEW w \in Workers, Sweep(w) \/ Dispatch(w) \/ Crash(w)
  PROVE  FailedIsEffectFree'
<1> USE DEF IInv
<1> SUFFICES ASSUME NEW r \in Requests, status'[r] = "failed", NEW g \in Gens,
                    genReq'[g] = r, Active(g)', Present(genRule[g])'
             PROVE  FALSE
  BY DEF FailedIsEffectFree
<1>1. /\ Active(g) /\ genReq[g] = r
      /\ Present(genRule[g]) \/ (pc[w] = "apply" /\ r = req[w])
  BY EffectsAreApplied DEF Disciplined
<1>2. CASE status[r] = "failed"
  BY <1>1, <1>2 DEF FailedIsEffectFree, Disciplined, OwnRequests, DispatchSteps
<1>3. CASE status[r] # "failed"
  <2>1. pc[w] = "terminal" /\ r = req[w] /\ seen[w] = {}
    BY <1>3, FailedOnlyUndecided
  <2> QED BY <1>1, <2>1 DEF UndecidedClean, Undecided, DispatchSteps, OwningSteps
<1> QED BY <1>2, <1>3

LEMMA EffectsStay ==
  ASSUME IInv, Disciplined, Owned, UndecidedClean, FailedIsEffectFree, [Next]_vars
  PROVE  UndecidedClean' /\ FailedIsEffectFree'
<1> USE DEF IInv, Owned
<1>1. ASSUME NEW w \in Workers, Sweep(w) \/ Dispatch(w) \/ Crash(w)
      PROVE  UndecidedClean' /\ FailedIsEffectFree'
  BY <1>1, UndecidedCleanStep, FailedEffectFreeStep
<1>2. CASE \/ \E r \in Requests : Cancel(r)
           \/ \E k \in Kills : RequestKill(k)
           \/ Tick \/ UNCHANGED vars
  <2>1. /\ UNCHANGED <<genStatus, genReq, genRule, pc, req, gen, seen>>
        /\ \A x \in Rules : Present(x)' => Present(x)
    BY <1>2, QuietSteps
  <2>2. \A g \in Gens : Active(g)' => Active(g) /\ (Present(genRule[g])' => Present(genRule[g]))
    BY <2>1 DEF Identified, Active, ActiveStatus
  <2>3. \A r \in Requests : status'[r] = "failed" => status[r] = "failed"
    BY <1>2 DEF Cancel, RequestKill, Tick, vars, requestVars, TypeOK, RowsTyped
  <2>4. UndecidedClean'
    BY <2>1, <2>2 DEF UndecidedClean, Undecided
  <2>5. FailedIsEffectFree'
    BY <2>1, <2>2, <2>3 DEF FailedIsEffectFree
  <2> QED BY <2>4, <2>5
<1> QED BY <1>1, <1>2 DEF Next

\* A request ends `failed`, the status from which it may be tried again, only when
\* no rule of it is in force, whichever adapters of its fan-out were attempted and
\* whatever became of their commands and receipts, if there is one replica, or
\* dispatches end within their lease and requests are not retried.
\* (dispatch_multi_with_adapters.)
THEOREM FailedLeavesNothing == ASSUME Undisturbed PROVE Spec => []FailedIsEffectFree
<1> DEFINE Inv == IInv /\ Disciplined /\ Owned /\ UndecidedClean /\ FailedIsEffectFree
<1>1. ASSUME Init PROVE Inv
  <2>1. UndecidedClean /\ FailedIsEffectFree
    BY <1>1 DEF Init, UndecidedClean, Undecided, FailedIsEffectFree, DispatchSteps
  <2> QED BY <1>1, <2>1, Initially, OwnedInitially
<1>2. Inv /\ [Next]_vars => Inv'
  BY Inductive, DisciplineStays, OwnershipStays, EffectsStay
<1> QED BY <1>1, <1>2, PTL DEF Spec
-----------------------------------------------------------------------------
(* A lone replica undoes nothing before it is due. *)

RecoverySteps == LockSteps \cup {"recover"}

\* What the sweep of kill requests acts on: requests made, and their targets.
OnErrand ==
  \A w \in Workers :
    /\ pc[w] \in {"idle", "kills", "gens", "claim"} \cup DispatchSteps => cause[w] = None
    /\ pc[w] \in {"legacy", "processed"} => cause[w] # None
    /\ cause[w] # None => kill[cause[w]] # "none"
    /\ pc[w] \in RecoverySteps /\ cause[w] # None => genRule[gen[w]] = KillTarget[cause[w]]
    /\ pc[w] = "kills" \/ cause[w] # None => \A k \in agenda[w] \cap Kills : kill[k] # "none"

\* Applied and receipted, then past its TTL.
Due(g) == genStatus[g] = "completed" => genTtl[g] = 0

\* What the sweep of generations acts on.
SweepsDue ==
  \A w \in Workers : cause[w] = None =>
    /\ pc[w] \in RecoverySteps => Due(gen[w])
    /\ pc[w] \in RecoverySteps \cup {"gens"} => \A g \in agenda[w] \cap Gens : Due(g)

\* No operator has asked for the removal of x.
Wanted(x) == \A k \in Kills : KillTarget[k] = x => kill[k] = "none"

\* A rule outlives its generation: the kernel's timeout is armed after the TTL is
\* recorded, by an apply that finds no element of its own.
Lasting ==
  /\ \A g \in Gens : genStatus[g] = "completed" /\ Wanted(genRule[g]) => genTtl[g] <= host[genRule[g]]
  /\ \A w \in Workers :
       /\ pc[w] = "apply" => ~Present(rule[w])
       /\ pc[w] \in {"verify", "finish"} => genTtl[gen[w]] <= host[rule[w]]

LEMMA OnErrandStep ==
  ASSUME OneReplica, TypeOK, Scoped, OnErrand, NEW w \in Workers,
         Sweep(w) \/ Dispatch(w) \/ Crash(w)
  PROVE  OnErrand'
<1> USE NoneAssumption DEF TypeOK, RowsTyped, GenerationsTyped, ProcessesTyped, Scoped, OnErrand,
        RecoverySteps, OwningSteps, LockSteps, DispatchSteps, Goto, genVars, killVars, localVars
<1> SUFFICES
      /\ pc'[w] \in {"idle", "kills", "gens", "claim"} \cup DispatchSteps => cause'[w] = None
      /\ pc'[w] \in {"legacy", "processed"} => cause'[w] # None
      /\ cause'[w] # None => kill'[cause'[w]] # "none"
      /\ pc'[w] \in RecoverySteps /\ cause'[w] # None => genRule'[gen'[w]] = KillTarget[cause'[w]]
      /\ pc'[w] = "kills" \/ cause'[w] # None => \A k \in agenda'[w] \cap Kills : kill'[k] # "none"
  BY DEF OneReplica
<1>1. CASE ListKills(w)
  BY <1>1 DEF ListKills
<1>2. CASE RouteKill(w)
  <2>1. PICK k \in agenda[w] \cap Kills : \E g \in Owners(KillTarget[k]) :
          /\ agenda' = [agenda EXCEPT ![w] = @ \ {k}]
          /\ cause' = [cause EXCEPT ![w] = k]
          /\ gen' = [gen EXCEPT ![w] = g]
    BY <1>2 DEF RouteKill
  <2>2. PICK g \in Owners(KillTarget[k]) :
          /\ agenda' = [agenda EXCEPT ![w] = @ \ {k}]
          /\ cause' = [cause EXCEPT ![w] = k]
          /\ gen' = [gen EXCEPT ![w] = g]
    BY <2>1
  <2> QED BY <1>2, <2>2 DEF RouteKill, Owners
<1>3. CASE LegacyKill(w)
  BY <1>3 DEF LegacyKill
<1>4. CASE ListGenerations(w) \/ SweepGeneration(w)
  BY <1>4 DEF ListGenerations, SweepGeneration
<1>5. CASE RecoverBusy(w) \/ RecoverResolved(w)
  BY <1>5 DEF RecoverBusy, RecoverResolved, EndRecovery, Back
<1>6. CASE RecoverLock(w) \/ LeaveInFlight(w) \/ RecoverPrepared(w) \/ LetGo(w)
  BY <1>6 DEF RecoverLock, LeaveInFlight, RecoverPrepared, LetGo, EndRecovery, Back
<1>7. CASE Rollback(w)
  BY <1>7 DEF Rollback, Remove
<1>8. CASE Resolve(w) \/ Retain(w)
  BY <1>8 DEF Resolve, Retain, EndRecovery, Back
<1>9. CASE LegacyRollback(w)
  BY <1>9 DEF LegacyRollback, Remove
<1>10. CASE MarkProcessed(w)
  BY <1>10 DEF MarkProcessed, EndRecovery, Back
<1>11. CASE Maintain(w) \/ Claim(w) \/ NothingToClaim(w)
  BY <1>11 DEF Maintain, Claim, NothingToClaim
<1>12. CASE \/ Authorize(w) \/ Refuse(w) \/ Preflight(w) \/ Prepare(w) \/ PrepareFails(w) \/ Apply(w)
            \/ Verify(w) \/ FinishFails(w) \/ DispatchDone(w) \/ MarkRunning(w) \/ MarkTerminal(w)
  BY <1>12 DEF Authorize, Refuse, Preflight, Prepare, PrepareFails, Apply, Verify, FinishFails,
     DispatchDone, MarkRunning, MarkTerminal
<1>13. CASE Finish(w) \/ MarkUncertain(w)
  BY <1>13 DEF Finish, MarkUncertain, Record
<1>14. CASE CompletionRefused(w) \/ ReleaseLease(w) \/ Crash(w)
  BY <1>14 DEF CompletionRefused, ReleaseLease, Crash, Forget
<1> QED BY <1>1, <1>2, <1>3, <1>4, <1>5, <1>6, <1>7, <1>8, <1>9, <1>10, <1>11, <1>12, <1>13, <1>14
        DEF Sweep, Dispatch

\* Only a dispatch completes a generation, and a new one gets its TTL when prepared.
LEMMA DueStays ==
  ASSUME TypeOK, Scoped, LockHeld, NEW w \in Workers, Sweep(w) \/ Crash(w) \/ Maintain(w),
         NEW g \in Gens, Due(g)
  PROVE  Due(g)'
<1> USE DEF TypeOK, GenerationsTyped, Scoped, Due, LockSteps, OwningSteps
<1>1. CASE RecoverPrepared(w) \/ Resolve(w) \/ Retain(w)
  BY <1>1 DEF RecoverPrepared, Resolve, Retain
<1>2. CASE UNCHANGED <<genStatus, genTtl>>
  BY <1>2
<1> QED BY <1>1, <1>2 DEF Sweep, ListKills, RouteKill, LegacyKill, ListGenerations, SweepGeneration,
     RecoverBusy, RecoverResolved, RecoverLock, LeaveInFlight, LetGo, Rollback,
     LegacyRollback, MarkProcessed, Crash, Maintain, genVars

LEMMA SweepsDueStep ==
  ASSUME OneReplica, TypeOK, Scoped, LockHeld, OnErrand, SweepsDue, NEW w \in Workers,
         Sweep(w) \/ Dispatch(w) \/ Crash(w)
  PROVE  SweepsDue'
<1> USE NoneAssumption DEF TypeOK, GenerationsTyped, ProcessesTyped, Scoped, SweepsDue,
        RecoverySteps, OwningSteps, LockSteps, Goto, localVars
<1> SUFFICES ASSUME cause'[w] = None, pc'[w] \in RecoverySteps \cup {"gens"}
             PROVE  /\ pc'[w] \in RecoverySteps => Due(gen[w])'
                    /\ \A g \in agenda'[w] \cap Gens : Due(g)'
  BY DEF OneReplica
<1>1. CASE ListGenerations(w)
  BY <1>1 DEF ListGenerations, Recoverable, Due, genVars
<1>2. CASE SweepGeneration(w)
  <2>1. PICK g \in agenda[w] \cap Gens :
          agenda' = [agenda EXCEPT ![w] = @ \ {g}] /\ gen' = [gen EXCEPT ![w] = g]
    BY <1>2 DEF SweepGeneration
  <2>2. pc[w] = "gens" /\ cause[w] = None /\ UNCHANGED <<genStatus, genTtl>>
    BY <1>2 DEF SweepGeneration, genVars, OnErrand
  <2>3. gen'[w] = g /\ \A h \in Gens : Due(h)' <=> Due(h)
    BY <2>1, <2>2 DEF Due
  <2>4. Due(gen[w])'
    BY <2>1, <2>2, <2>3 DEF Due
  <2> QED BY <2>1, <2>2, <2>3, <2>4
<1>3. CASE RouteKill(w) \/ LegacyKill(w)
  BY <1>3 DEF RouteKill, LegacyKill
<1>4. ASSUME Sweep(w), pc[w] \in RecoverySteps, cause[w] = None, agenda' = agenda,
             pc'[w] \in RecoverySteps => gen'[w] = gen[w]
      PROVE  /\ pc'[w] \in RecoverySteps => Due(gen[w])'
             /\ \A g \in agenda'[w] \cap Gens : Due(g)'
  <2>1. \A g \in Gens : Due(g) => Due(g)'
    BY <1>4, DueStays
  <2>2. \A h \in Gens : gen'[w] = h => (Due(gen[w])' <=> Due(h)')
    BY DEF Due
  <2> QED BY <1>4, <2>1, <2>2
<1>5. CASE \/ RecoverBusy(w) \/ RecoverResolved(w) \/ RecoverLock(w) \/ LeaveInFlight(w)
           \/ RecoverPrepared(w) \/ LetGo(w) \/ Rollback(w) \/ Resolve(w) \/ Retain(w)
  <2>1. /\ Sweep(w) /\ pc[w] \in RecoverySteps /\ agenda' = agenda
        /\ pc'[w] \in RecoverySteps => gen'[w] = gen[w]
    BY <1>5 DEF Sweep, RecoverBusy, RecoverResolved, RecoverLock, LeaveInFlight, RecoverPrepared,
       LetGo, Rollback, Remove, Resolve, Retain, EndRecovery, Back
  <2>2. cause[w] = None
    BY <1>5 DEF RecoverBusy, RecoverResolved, RecoverLock, LeaveInFlight, RecoverPrepared,
       LetGo, Rollback, Remove, Resolve, Retain, EndRecovery, Back
  <2> QED BY <1>4, <2>1, <2>2
<1>6. CASE ListKills(w) \/ LegacyRollback(w) \/ MarkProcessed(w)
  BY <1>6 DEF ListKills, LegacyRollback, MarkProcessed, Remove, EndRecovery, Back, OnErrand
<1>7. CASE Dispatch(w) \/ Crash(w)
  BY <1>7, SMTT(40) DEF Dispatch, Maintain, Claim, NothingToClaim, Authorize, Refuse, Preflight, Prepare,
     PrepareFails, Apply, Verify, Finish, FinishFails, MarkUncertain, Record, DispatchDone,
     MarkRunning, MarkTerminal, CompletionRefused, ReleaseLease, Crash
<1> QED BY <1>1, <1>2, <1>3, <1>5, <1>6, <1>7 DEF Sweep

LEMMA LegacyUnownedStep ==
  ASSUME OneReplica, TypeOK, LegacyOnlyUnowned, NEW w \in Workers,
         Sweep(w) \/ Dispatch(w) \/ Crash(w)
  PROVE  LegacyOnlyUnowned'
<1> USE DEF TypeOK, ProcessesTyped, Goto
<1> SUFFICES ASSUME pc'[w] = "legacy" PROVE Owners(rule[w])' = {}
  BY DEF OneReplica, LegacyOnlyUnowned
<1>1. CASE LegacyKill(w)
  BY <1>1 DEF LegacyKill, Owners, Active, genVars
<1>2. CASE Sweep(w) /\ ~LegacyKill(w)
  BY <1>2 DEF Sweep, ListKills, RouteKill, ListGenerations, SweepGeneration, RecoverBusy,
     RecoverResolved, RecoverLock, LeaveInFlight, RecoverPrepared, LetGo, Rollback, Resolve, Retain,
     LegacyRollback, MarkProcessed, EndRecovery, Back, Remove
<1>3. CASE Dispatch(w) \/ Crash(w)
  BY <1>3 DEF Dispatch, Maintain, Claim, NothingToClaim, Authorize, Refuse, Preflight, Prepare,
     PrepareFails, Apply, Verify, Finish, FinishFails, MarkUncertain, Record, DispatchDone,
     MarkRunning, MarkTerminal, CompletionRefused, ReleaseLease, Crash
<1> QED BY <1>1, <1>2, <1>3

\* What a step may complete, and what it leaves of a completed generation's rule.
LEMMA CompletedStep ==
  ASSUME OneReplica, IInv, Undoing, OnErrand, SweepsDue, LegacyOnlyUnowned, Lasting,
         NEW w \in Workers, Sweep(w) \/ Dispatch(w) \/ Crash(w),
         NEW g \in Gens, genStatus'[g] = "completed", Wanted(genRule[g])'
  PROVE  genTtl'[g] <= host'[genRule'[g]]
<1> USE DEF IInv
<1>1. Wanted(genRule'[g])
  <2>1. \A k \in Kills : kill'[k] = "none" => kill[k] = "none"
    BY DEF Sweep, Dispatch, ListKills, RouteKill, LegacyKill, ListGenerations, SweepGeneration,
       RecoverBusy, RecoverResolved, RecoverLock, LeaveInFlight, RecoverPrepared, LetGo, Rollback,
       Resolve, Retain, LegacyRollback, MarkProcessed, Maintain, Claim, NothingToClaim, Authorize,
       Refuse, Preflight, Prepare, PrepareFails, Apply, Verify, Finish, FinishFails, MarkUncertain,
       DispatchDone, MarkRunning, MarkTerminal, CompletionRefused, ReleaseLease, Crash, killVars,
       TypeOK, RowsTyped
  <2> QED BY <2>1 DEF Wanted
<1>a. genStatus[g] = "completed" /\ Wanted(genRule[g]) => genTtl[g] <= host[genRule[g]]
  BY DEF Lasting
<1>b. host' \in [Rules -> 0..Ttl]
  BY RowsStep DEF RowsTyped
<1> USE TimeAssumption DEF TypeOK, RowsTyped, GenerationsTyped, Scoped, Identified, OwningSteps, LockSteps
<1>2. ASSUME genStatus[g] = "completed", genTtl'[g] = genTtl[g], genRule'[g] = genRule[g],
             host'[genRule[g]] >= host[genRule[g]]
      PROVE  genTtl'[g] <= host'[genRule'[g]]
  <2>1. genRule[g] \in Rules
    BY <1>2
  <2>2. Wanted(genRule[g])
    BY <1>1, <1>2 DEF Wanted
  <2>3. genTtl[g] <= host[genRule[g]]
    BY <1>a, <1>2, <2>2
  <2> QED BY <1>b, <1>2, <2>1, <2>3
<1>3. CASE Finish(w) \/ FinishFails(w)
  <2>1. /\ pc[w] = "finish" /\ genRule[gen[w]] = rule[w] /\ gen[w] \in Gens
        /\ UNCHANGED <<genTtl, genRule, host>>
        /\ g # gen[w] => genStatus'[g] = genStatus[g]
    BY <1>3 DEF Finish, FinishFails, OwnsGeneration
  <2>2. CASE g = gen[w]
    BY <2>1, <2>2 DEF Lasting
  <2>3. CASE g # gen[w]
    BY <1>2, <2>1, <2>3
  <2> QED BY <2>2, <2>3
<1>4. CASE Apply(w)
  <2>1. \A x \in Rules : host'[x] >= host[x]
    BY <1>4 DEF Apply, Added
  <2>2. UNCHANGED <<genStatus, genTtl, genRule>>
    BY <1>4 DEF Apply, genVars
  <2> QED BY <1>2, <2>1, <2>2
<1>5. CASE Rollback(w)
  <2>1. /\ UNCHANGED <<genStatus, genTtl, genRule>> /\ pc[w] = "rollback"
        /\ \A x \in Rules : x # rule[w] => host'[x] = host[x]
    BY <1>5 DEF Rollback, Remove, genVars
  <2>2. CASE genRule[g] # rule[w]
    BY <1>2, <2>1, <2>2
  <2>3. CASE genRule[g] = rule[w]
    <3>1. g = gen[w]
      BY <2>1, <2>3 DEF Undoing, LockHeld, OneOwner, Active, ActiveStatus
    <3>2. cause[w] = None
      BY <1>1, <2>1, <3>1 DEF OnErrand, RecoverySteps, ProcessesTyped, Wanted
    <3>3. genTtl[g] = 0
      BY <2>1, <3>1, <3>2 DEF SweepsDue, RecoverySteps, Due
    <3> QED BY <1>b, <2>1, <3>3
  <2> QED BY <2>2, <2>3
<1>6. CASE LegacyRollback(w)
  <2>1. /\ UNCHANGED <<genStatus, genTtl, genRule>> /\ pc[w] = "legacy"
        /\ \A x \in Rules : x # rule[w] => host'[x] = host[x]
    BY <1>6 DEF LegacyRollback, Remove, genVars
  <2>2. genRule[g] # rule[w]
    BY <2>1 DEF LegacyOnlyUnowned, Owners, Active, ActiveStatus
  <2> QED BY <1>2, <2>1, <2>2
<1>7. CASE Prepare(w) \/ PrepareFails(w)
  <2>1. UNCHANGED host
    BY <1>7 DEF Prepare, PrepareFails
  <2>2. UNCHANGED <<genStatus, genRule, genTtl>> \/ \E h \in Gens : Insert(w, h)
    BY <1>7 DEF Prepare, PrepareFails
  <2>3. ASSUME NEW h \in Gens, Insert(w, h)
        PROVE  UNCHANGED <<genStatus[g], genRule[g], genTtl[g]>>
    BY <2>3 DEF Insert
  <2> QED BY <1>2, <2>1, <2>2, <2>3
<1>8. CASE RecoverPrepared(w) \/ Resolve(w) \/ Retain(w) \/ MarkUncertain(w)
  <2>1. genStatus[g] = "completed" /\ UNCHANGED <<genRule, genTtl, host>>
    BY <1>8 DEF RecoverPrepared, Resolve, Retain, MarkUncertain
  <2> QED BY <1>2, <2>1
<1>9. ASSUME UNCHANGED <<genStatus, genRule, genTtl, host>>
      PROVE  genTtl'[g] <= host'[genRule'[g]]
  BY <1>2, <1>9
<1> QED
  BY <1>3, <1>4, <1>5, <1>6, <1>7, <1>8, <1>9
     DEF Sweep, Dispatch, ListKills, RouteKill, LegacyKill, ListGenerations, SweepGeneration,
     RecoverBusy, RecoverResolved, RecoverLock, LeaveInFlight, LetGo, MarkProcessed, Maintain,
     Claim, NothingToClaim, Authorize, Refuse, Preflight, Verify, DispatchDone, MarkRunning,
     MarkTerminal, CompletionRefused, ReleaseLease, Crash, genVars

LEMMA LastingStep ==
  ASSUME OneReplica, IInv, Owned, OnErrand, SweepsDue, LegacyOnlyUnowned, Lasting,
         NEW w \in Workers, Sweep(w) \/ Dispatch(w) \/ Crash(w)
  PROVE  Lasting'
<1>1. \A g \in Gens : genStatus'[g] = "completed" /\ Wanted(genRule[g])' =>
         genTtl'[g] <= host'[genRule'[g]]
  BY CompletedStep DEF Owned
<1>2. ASSUME Prepare(w) PROVE pc'[w] = "apply" /\ ~Present(rule[w])'
  <2>1. rule[w] \in Rules /\ Owners(rule[w]) = {}
    BY <1>2 DEF IInv, Scoped, OwningSteps, Prepare, Insert
  <2>2. ~Present(rule[w])
    BY <2>1 DEF Owned, NoOrphanRule
  <2>3. pc'[w] = "apply" /\ host' = host /\ rule' = rule
    BY <1>2 DEF Prepare, Goto, IInv, TypeOK, ProcessesTyped
  <2> QED BY <2>2, <2>3 DEF Present
<1>3. ASSUME Dispatch(w), ~(Prepare(w) \/ Apply(w) \/ Verify(w))
      PROVE  pc'[w] \notin {"apply", "verify", "finish"}
  <2> USE DEF IInv, TypeOK, ProcessesTyped, Goto, localVars
  <2>1. CASE \/ Maintain(w) \/ Claim(w) \/ NothingToClaim(w) \/ Authorize(w) \/ Refuse(w)
             \/ Preflight(w) \/ PrepareFails(w)
    BY <2>1 DEF Maintain, Claim, NothingToClaim, Authorize, Refuse, Preflight, PrepareFails
  <2>2. CASE \/ Finish(w) \/ FinishFails(w) \/ MarkUncertain(w) \/ DispatchDone(w)
             \/ MarkRunning(w) \/ MarkTerminal(w) \/ CompletionRefused(w) \/ ReleaseLease(w)
    BY <2>2 DEF Finish, FinishFails, MarkUncertain, Record, DispatchDone, MarkRunning,
       MarkTerminal, CompletionRefused, ReleaseLease
  <2> QED BY <1>3, <2>1, <2>2 DEF Dispatch
<1> USE TimeAssumption DEF IInv, TypeOK, RowsTyped, GenerationsTyped, ProcessesTyped, Scoped,
        OwningSteps, Lasting, Present, Goto, genVars, localVars
<1>4. /\ pc'[w] = "apply" => ~Present(rule[w])'
      /\ pc'[w] \in {"verify", "finish"} => genTtl'[gen'[w]] <= host'[rule'[w]]
  <2>1. CASE Prepare(w)
    BY <1>2, <2>1
  <2>2. CASE Apply(w)
    BY <2>2 DEF Apply, Added
  <2>3. CASE Verify(w)
    BY <2>3 DEF Verify
  <2>4. CASE /\ Dispatch(w)
             /\ ~(Prepare(w) \/ Apply(w) \/ Verify(w))
    BY <1>3, <2>4
  <2>5. CASE Sweep(w) \/ Crash(w)
    BY <2>5, SweepsStayOut DEF DispatchSteps
  <2> QED BY <2>1, <2>2, <2>3, <2>4, <2>5
<1> QED BY <1>1, <1>4 DEF OneReplica

\* The clock takes as much from a TTL as from the kernel's timeout.
LEMMA LastingTick ==
  ASSUME IInv, Lasting, Tick
  PROVE  Lasting'
<1> USE TimeAssumption DEF IInv, TypeOK, RowsTyped, GenerationsTyped, ProcessesTyped, Scoped,
        Identified, OwningSteps, localVars
<1>1. ASSUME NEW g \in Gens, NEW x \in Rules, genTtl[g] <= host[x]
      PROVE  genTtl'[g] <= host'[x]
  <2>1. genTtl'[g] = Less(genTtl[g]) /\ host'[x] \in {host[x], Less(host[x])}
    BY <1>1 DEF Tick
  <2> QED BY <1>1, <2>1 DEF Less
<1>2. UNCHANGED <<genStatus, genRule, kill, pc, rule, gen>>
  BY DEF Tick, killVars
<1>3. \A x \in Rules : host[x] = 0 => host'[x] = 0
  BY DEF Tick, Less
<1> QED BY <1>1, <1>2, <1>3 DEF Lasting, Wanted, Present

\* What keeps a lone replica from undoing a rule early.
Careful == OnErrand /\ SweepsDue /\ LegacyOnlyUnowned /\ Lasting

LEMMA CarefulStays ==
  ASSUME OneReplica, IInv, Owned, Careful, [Next]_vars
  PROVE  Careful'
<1> USE DEF IInv, Careful
<1>1. ASSUME NEW w \in Workers, Sweep(w) \/ Dispatch(w) \/ Crash(w) PROVE Careful'
  BY <1>1, OnErrandStep, SweepsDueStep, LegacyUnownedStep, LastingStep
<1>2. CASE \/ \E r \in Requests : Cancel(r)
           \/ \E k \in Kills : RequestKill(k)
           \/ Tick \/ UNCHANGED vars
  <2>1. UNCHANGED <<genStatus, genReq, genRule, pc, rule, gen, cause, agenda>>
    BY <1>2, QuietSteps
  <2>2. \A k \in Kills : kill'[k] = "none" => kill[k] = "none"
    BY <1>2 DEF Cancel, RequestKill, Tick, vars, killVars, TypeOK, RowsTyped
  <2>3. \A g \in Gens : Due(g) => Due(g)'
    <3>1. UNCHANGED genTtl \/ \A g \in Gens : genTtl'[g] = Less(genTtl[g])
      BY <1>2 DEF Cancel, RequestKill, Tick, vars, genVars
    <3> QED BY <2>1, <3>1 DEF Due, Less
  <2>4. OnErrand'
    BY <2>1, <2>2 DEF OnErrand, TypeOK, ProcessesTyped
  <2>5. SweepsDue'
    <3>1. \A w \in Workers : \A g \in Gens : gen[w] = g => (Due(gen[w])' <=> Due(g)')
      BY <2>1 DEF Due
    <3> QED BY <2>1, <2>3, <3>1 DEF SweepsDue, RecoverySteps, LockSteps, Scoped
  <2>6. LegacyOnlyUnowned'
    BY <2>1 DEF LegacyOnlyUnowned, Owners, Active
  <2>7. Lasting'
    <3>1. CASE Tick
      BY <3>1, LastingTick
    <3>2. CASE UNCHANGED <<genTtl, host>>
      <4>1. \A x : (\A k \in Kills : KillTarget[k] = x => kill'[k] = "none") => Wanted(x)
        BY <2>2 DEF Wanted
      <4> QED BY <2>1, <3>2, <4>1 DEF Lasting, Wanted, Present
    <3> QED BY <1>2, <3>1, <3>2 DEF Cancel, RequestKill, vars, genVars
  <2> QED BY <2>4, <2>5, <2>6, <2>7
<1> QED BY <1>1, <1>2 DEF Next

\* With one replica neither the sweeps nor the target-only rollback undo a rule that
\* is owned, within its TTL and not asked to go, through any crash, failed command,
\* lapsed lease or retry.  (recoverable_firewall_rule_intents and the R4 fallback;
\* several replicas act on lists the others have made stale.)
THEOREM NothingUndoneEarly == ASSUME OneReplica PROVE Spec => []NeverUndoneEarly
<1> DEFINE Inv == IInv /\ Disciplined /\ Owned /\ Careful
<1>1. ASSUME Init PROVE Inv
  <2>1. Careful
    BY <1>1 DEF Init, Careful, OnErrand, SweepsDue, LegacyOnlyUnowned, Lasting, RecoverySteps,
       LockSteps
  <2> QED BY <1>1, <2>1, Initially, OwnedInitially
<1>2. Inv /\ [Next]_vars => Inv'
  BY Inductive, DisciplineStays, OwnershipStays, CarefulStays DEF Undisturbed
<1>3. ASSUME Inv PROVE NeverUndoneEarly
  <2>1. \A g \in Gens : genStatus[g] = "completed" => genRule[g] \in Rules
    BY <1>3 DEF IInv, Identified
  <2> QED BY <1>3, <2>1 DEF Careful, Lasting, Wanted, Present, NeverUndoneEarly,
             InForceUntilExpiry, IInv, TypeOK, RowsTyped, GenerationsTyped
<1> QED BY <1>1, <1>2, <1>3, PTL DEF Spec
================================================================================
