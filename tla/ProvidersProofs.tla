---------------------------- MODULE ProvidersProofs ----------------------------
(***************************************************************************)
(* For any number of workers, providers, answers, faults and changes: runs *)
(* of the provider scheduler take turns, what RedisRunLock is for; a       *)
(* manual synchronisation is in the hands of one worker, what              *)
(* claim_provider_sync_requests is for when a run outlives its lock; and a *)
(* view of an ASN is announced when its provider comes to it, and not      *)
(* because of what another provider or a failure does, what                *)
(* asn_record_differs is for.                                              *)
(***************************************************************************)
EXTENDS Providers, FiniteSetTheorems, TLAPS

\* Every worker has a run; what is in its record does not matter here.
Shaped == run = [w \in Workers |-> run[w]]

\* A run in progress that has not outlived its lock holds the Redis key.
BusyHoldsLock == \A w \in Busy : w \notin outlived => lock = w

LockInv == Shaped /\ BusyHoldsLock

\* Everything a worker does between taking and releasing the lock leaves the key alone
\* and every run where it is, or ahead in its own record.
Within(w) == Claim(w) \/ ClaimFails(w) \/ Sync(w) \/ CallFails(w) \/ WriteFails(w)
               \/ EventLost(w) \/ RiskUnwritten(w) \/ ConcludeUnwritten(w)

(* A step within a run is of a worker that is busy before it, and changes neither  *)
(* the key nor another worker's run.                                               *)
LEMMA WithinKeepsTheLock ==
  ASSUME Shaped, NEW w \in Workers, Within(w)
  PROVE  /\ ~At(w, "idle")
         /\ UNCHANGED redis
         /\ Shaped' /\ \A v \in Workers : v # w => run'[v] = run[v]
<1> USE DEF Shaped, At, redis
<1>a. ASSUME NEW r, run' = [run EXCEPT ![w] = r]
      PROVE  Shaped' /\ \A v \in Workers : v # w => run'[v] = run[v]
  BY <1>a
<1> HIDE DEF Shaped
<1>b. ASSUME NEW pc, Go(w, pc)
      PROVE  Shaped' /\ \A v \in Workers : v # w => run'[v] = run[v]
  BY <1>a, <1>b, Zenon DEF Go
<1>1. CASE Claim(w)
  BY <1>1, <1>a DEF Claim
<1>2. CASE Skip(w)
  BY <1>2, <1>a DEF Skip
<1>3. CASE Fetch(w)
  BY <1>3, <1>a DEF Fetch, Starts
<1>4. CASE Refuse(w)
  BY <1>4, <1>b DEF Refuse, Starts
<1>5. CASE Store(w)
  BY <1>5, <1>b DEF Store
<1>6. CASE Consume(w)
  BY <1>6, <1>b DEF Consume
<1>7. CASE Check(w)
  BY <1>7, <1>a DEF Check
<1>8. CASE Put(w)
  BY <1>8, <1>b DEF Put
<1>9. CASE TellNews(w)
  BY <1>9, <1>b DEF TellNews
<1>10. CASE Conclude(w)
  BY <1>10, <1>a DEF Conclude
<1>11. CASE CallFails(w)
  BY <1>11, <1>b DEF CallFails, Starts
<1>12. CASE WriteFails(w)
  BY <1>12, <1>b DEF WriteFails
<1>13. CASE EventLost(w)
  BY <1>13, <1>b DEF EventLost, Walked
<1>14. CASE ConcludeUnwritten(w)
  BY <1>14, <1>a DEF ConcludeUnwritten
<1>15. CASE ClaimFails(w)
  BY <1>15, <1>a DEF ClaimFails
<1>16. CASE RiskUnwritten(w)
  BY <1>16, <1>b DEF RiskUnwritten, Walked
<1> QED
  BY <1>1, <1>2, <1>3, <1>4, <1>5, <1>6, <1>7, <1>8, <1>9, <1>10, <1>11,
     <1>12, <1>13, <1>14, <1>15, <1>16 DEF Within, Sync

LEMMA LockInit == Init => LockInv
BY DEF Init, LockInv, Shaped, BusyHoldsLock, Busy, At, Idle

LEMMA LockStep == LockInv /\ [Next]_vars => LockInv'
<1> SUFFICES ASSUME LockInv, [Next]_vars PROVE LockInv'
  OBVIOUS
<1> USE ProvidersAssumption DEF LockInv
<1>1. ASSUME NEW w \in Workers, Begin(w) PROVE LockInv'
  <2>1. Shaped'
    BY <1>1 DEF Begin, Shaped, Go
  <2>2. \A v \in Workers : v # w => run'[v] = run[v]
    BY <1>1 DEF Begin, Shaped, Go
  <2>3. \A v \in Busy : v \in outlived
    BY <1>1 DEF Begin, BusyHoldsLock, Busy
  <2> QED BY <1>1, <2>1, <2>2, <2>3 DEF Begin, BusyHoldsLock, Busy, At
<1>2. ASSUME NEW w \in Workers, Within(w) PROVE LockInv'
  <2>1. /\ ~At(w, "idle") /\ UNCHANGED redis
        /\ Shaped' /\ \A v \in Workers : v # w => run'[v] = run[v]
    BY <1>2, WithinKeepsTheLock
  <2> QED BY <2>1 DEF BusyHoldsLock, Busy, At, redis
<1>3. ASSUME NEW w \in Workers, Release(w) \/ Crash(w) \/ ReleaseFails(w) PROVE LockInv'
  <2>1. /\ run' = [run EXCEPT ![w] = Idle]
        /\ lock' = lock \/ lock \in {w, None}
        /\ outlived' = outlived \ {w}
    BY <1>3 DEF Release, Crash, ReleaseFails
  <2>2. Shaped'
    BY <2>1 DEF Shaped, Idle
  <2>3. run'[w].pc = "idle" /\ \A v \in Workers : v # w => run'[v] = run[v]
    BY <2>1 DEF Shaped, Idle
  <2> QED BY <2>1, <2>2, <2>3 DEF BusyHoldsLock, Busy, At
<1>4. ASSUME LockEnds PROVE LockInv'
  BY <1>4 DEF LockEnds, Shaped, BusyHoldsLock, Busy, At
<1>10. ASSUME NEW w \in Workers, AcquireFails(w) PROVE LockInv'
  BY <1>10 DEF AcquireFails, Shaped, BusyHoldsLock, Busy, At
<1>5. ASSUME UNCHANGED <<run, redis>> PROVE LockInv'
  BY <1>5 DEF Shaped, BusyHoldsLock, Busy, At, redis
<1>6. CASE \E w \in Workers : DueAgain(w)
  BY <1>5, <1>6 DEF DueAgain
<1>7. CASE Change
  BY <1>5, <1>7 DEF Change
<1>8. CASE \E p \in Requests : Queue(p)
  BY <1>5, <1>8 DEF Queue
<1>9. CASE UNCHANGED vars
  BY <1>5, <1>9 DEF vars, redis
<1> QED
  BY <1>1, <1>2, <1>3, <1>4, <1>6, <1>7, <1>8, <1>9, <1>10 DEF Next, Step, Within

LEMMA LockInductive == Spec => []LockInv
BY LockInit, LockStep, PTL DEF Spec

(* RedisRunLock's comparison of the token and its TTL are enough: two runs of the *)
(* scheduler are in progress at once only if one has outlived its lock.           *)
THEOREM SchedulersTakeTurns == Spec => []RunsTakeTurns
<1>1. LockInv => RunsTakeTurns
  BY DEF LockInv, BusyHoldsLock, RunsTakeTurns
<1> QED BY <1>1, LockInductive, PTL

-----------------------------------------------------------------------------
(* Manual synchronisations *)

\* The lists of providers a run goes through, as configured and as asked, are sequences.
LEMMA ListsAreSequences ==
  ASSUME NEW X, NEW n \in Nat, NEW f \in [1..n -> X]
  PROVE  f \in Seq(X) /\ DOMAIN f = 1..n
  OBVIOUS

\* Asked lists every provider once.
LEMMA AskedOnce ==
  ASSUME NEW S \in SUBSET Providers, IsFiniteSet(S)
  PROVE  /\ Asked(S) \in Seq([provider : Providers, manual : BOOLEAN])
         /\ \A i \in DOMAIN Asked(S) : Asked(S)[i].manual /\ Asked(S)[i].provider \in S
         /\ \A i, j \in DOMAIN Asked(S) : i # j => Asked(S)[i] # Asked(S)[j]
<1> DEFINE n == Cardinality(S)
           f == SetToSeq(S)
<1>1. n \in Nat /\ ExistsBijection(1..n, S)
  BY FS_CardinalityType
<1>2. \E g \in [1..n -> S] : IsInjective(g)
  BY <1>1 DEF ExistsBijection, Bijection, Injection, IsInjective
<1>3. f \in [1..n -> S] /\ IsInjective(f)
  BY <1>2 DEF SetToSeq
<1>4. \A i, j \in 1..n : i # j => f[i] # f[j]
  BY <1>3 DEF IsInjective
<1>5. DOMAIN f = 1..n /\ \A i \in 1..n : f[i] \in S
  BY <1>3
<1> HIDE DEF f, n
<1>6. Asked(S) = [i \in 1..n |-> [provider |-> f[i], manual |-> TRUE]]
  BY <1>5 DEF Asked, f
<1>7. Asked(S) \in [1..n -> [provider : Providers, manual : BOOLEAN]]
  BY <1>5, <1>6
<1>8. \A i \in 1..n : Asked(S)[i].provider = f[i] /\ Asked(S)[i].manual
  BY <1>6
<1>9. DOMAIN Asked(S) = 1..n /\ Asked(S) \in Seq([provider : Providers, manual : BOOLEAN])
  <2>1. n \in Nat
    BY <1>1 DEF n
  <2> QED BY <1>7, <2>1, ListsAreSequences
<1>10. \A i, j \in 1..n : i # j => Asked(S)[i] # Asked(S)[j]
  BY <1>4, <1>8
<1> QED BY <1>5, <1>8, <1>9, <1>10

Steps == {"idle", "claim", "next", "store", "consume", "check", "put", "tell", "succeed", "fail"}
JobRecord == [provider : Providers, manual : BOOLEAN]

\* A worker's run, with something to do while it is at a provider.
RunShaped(r) ==
  /\ r \in [pc : Steps, todo : Seq(JobRecord), batch : {r.batch}, news : {r.news}]
  /\ r.todo # <<>> \/ r.pc \in {"idle", "claim", "next"}
  /\ \A i \in DOMAIN r.todo : r.todo[i].manual =>
       /\ r.todo[i].provider \in Requests
       /\ \A j \in DOMAIN r.todo : i # j => r.todo[i] # r.todo[j]

\* A run that goes on with another list.
LEMMA Relisted ==
  ASSUME NEW T, NEW B, NEW N, NEW pc \in Steps, NEW todo \in T,
         NEW r \in [pc : Steps, todo : T, batch : {B}, news : {N}]
  PROVE  /\ [r EXCEPT !.pc = pc, !.todo = todo]
               \in [pc : Steps, todo : T, batch : {B}, news : {N}]
         /\ [r EXCEPT !.pc = pc, !.todo = todo].pc = pc
         /\ [r EXCEPT !.pc = pc, !.todo = todo].todo = todo
  OBVIOUS

ManualInv ==
  /\ Shaped /\ \A w \in Workers : RunShaped(run[w])
  /\ requests = [p \in Requests |-> requests[p]]
  /\ ManualOnce

\* What ManualOnce says of one worker's list.
OwnsManual(w, todo) ==
  \A i \in DOMAIN todo : todo[i].manual =>
    /\ requests[todo[i].provider] = "running"
    /\ \A v \in Workers \ {w} : todo[i] \notin ToSet(run[v].todo)

\* A step that leaves a worker a part of its list, and settles no request but that
\* of a manual job it takes from the list.
LEMMA FewerJobs ==
  ASSUME ManualInv, NEW w \in Workers, NEW r, RunShaped(r), run' = [run EXCEPT ![w] = r],
         ToSet(r.todo) \subseteq ToSet(run[w].todo),
         requests' = [p \in Requests |-> requests'[p]],
         \A p \in Requests : requests[p] = "running" => requests'[p] = "running"
             \/ [provider |-> p, manual |-> TRUE] \in ToSet(run[w].todo) \ ToSet(r.todo)
  PROVE  ManualInv'
<1>1. /\ DOMAIN run = Workers /\ run'[w] = r
      /\ \A v \in Workers : v # w => run'[v] = run[v]
  BY DEF ManualInv, Shaped
<1>2. Shaped'
  BY <1>1 DEF Shaped, ManualInv
<1>3. \A v \in Workers : RunShaped(run'[v])
  BY <1>1 DEF ManualInv
<1>4. \A v \in Workers : ToSet(run'[v].todo) \subseteq ToSet(run[v].todo)
  BY <1>1
<1>5. ASSUME NEW v \in Workers, NEW i \in DOMAIN run'[v].todo, run'[v].todo[i].manual
      PROVE  /\ requests'[run'[v].todo[i].provider] = "running"
             /\ \A u \in Workers \ {v} : run'[v].todo[i] \notin ToSet(run'[u].todo)
  <2> DEFINE job == run'[v].todo[i]
  <2>1. job \in ToSet(run'[v].todo) /\ job \in JobRecord
    <3>1. run'[v].todo \in Seq(JobRecord)
      BY <1>3 DEF RunShaped
    <3> QED BY <3>1 DEF ToSet
  <2>2. job = [provider |-> job.provider, manual |-> TRUE] /\ job.provider \in Requests
    <3>1. job.provider \in Requests
      BY <1>3, <1>5 DEF RunShaped
    <3> QED BY <2>1, <1>5, <3>1 DEF JobRecord
  <2>3. PICK j \in DOMAIN run[v].todo : run[v].todo[j] = job
    BY <1>4, <2>1 DEF ToSet
  <2>4. /\ requests[job.provider] = "running"
        /\ \A u \in Workers \ {v} : job \notin ToSet(run[u].todo)
    BY <1>5, <2>3 DEF ManualInv, ManualOnce
  <2>5. \A u \in Workers \ {v} : job \notin ToSet(run'[u].todo)
    BY <1>4, <2>4
  <2>6. requests'[job.provider] = "running"
    <3>1. CASE v = w
      BY <1>1, <2>1, <2>2, <2>4, <3>1
    <3>2. CASE v # w
      BY <2>2, <2>4, <3>2
    <3> QED BY <3>1, <3>2
  <2> QED BY <2>5, <2>6
<1>6. ManualOnce'
  BY <1>5 DEF ManualOnce
<1> QED BY <1>2, <1>3, <1>6 DEF ManualInv

\* The jobs that were due are not manual.
LEMMA JobsDue ==
  ASSUME NEW w
  PROVE  Jobs(w) \in Seq(JobRecord) /\ \A i \in DOMAIN Jobs(w) : ~Jobs(w)[i].manual
<1>1. Order \in Seq(Providers)
  BY ProvidersAssumption
<1>2. [i \in DOMAIN Order |-> [provider |-> Order[i], manual |-> FALSE]] \in Seq(JobRecord)
  <2>1. \A i \in DOMAIN Order : [provider |-> Order[i], manual |-> FALSE] \in JobRecord
    BY <1>1 DEF JobRecord
  <2> HIDE DEF Order, Providers
  <2> QED BY <1>1, <2>1
<1> QED BY <1>2 DEF Jobs

\* A claim takes the pending requests, each once, and no other worker has them: those
\* it holds are running. One that fails takes none.
LEMMA ClaimOnce ==
  ASSUME ManualInv, NEW w \in Workers, NEW a,
         \/ a = Asked(Pending) /\ Marked(Pending, "running")
         \/ a = <<>> /\ (UNCHANGED requests \/ Marked(Pending, "running")),
         run' = [run EXCEPT ![w].pc = "next", ![w].todo = a \o Jobs(w)]
  PROVE  ManualInv'
<1> DEFINE todo == a \o Jobs(w)
           r == [run[w] EXCEPT !.pc = "next", !.todo = todo]
<1>1. Pending \in SUBSET Providers /\ IsFiniteSet(Pending) /\ Pending \subseteq Requests
  BY ProvidersAssumption, FS_Subset DEF Pending
<1> DEFINE b == Jobs(w)
<1>2. /\ a \in Seq(JobRecord)
      /\ \A i \in DOMAIN a : a[i].manual /\ a[i].provider \in Pending
      /\ \A i, j \in DOMAIN a : i # j => a[i] # a[j]
  <2>1. CASE a = Asked(Pending)
    BY <1>1, <2>1, AskedOnce DEF JobRecord
  <2>2. CASE a = <<>>
    <3>1. <<>> \in Seq(JobRecord) /\ DOMAIN <<>> = {}
      OBVIOUS
    <3> QED BY <2>2, <3>1
  <2> QED BY <2>1, <2>2
<1>3. b \in Seq(JobRecord) /\ \A i \in DOMAIN b : ~b[i].manual
  BY JobsDue
<1>4. /\ run' = [run EXCEPT ![w] = r] /\ requests' = [p \in Requests |-> requests'[p]]
      /\ \A p \in Requests : requests[p] = "running" => requests'[p] = "running"
      /\ a # <<>> => \A p \in Pending : requests'[p] = "running"
  BY <1>1 DEF Marked, ManualInv
<1> HIDE DEF b
<1>5. /\ todo = a \o b /\ todo \in Seq(JobRecord)
      /\ \A i \in DOMAIN todo : todo[i].manual => i \in DOMAIN a /\ todo[i] = a[i]
      /\ \A i \in DOMAIN a : todo[i] = a[i]
  <2>1. todo = a \o b
    BY DEF b
  <2>2. \A i \in 1..Len(a) + Len(b) : (a \o b)[i] = IF i <= Len(a) THEN a[i] ELSE b[i - Len(a)]
    BY <1>2, <1>3
  <2>3. Len(a \o b) = Len(a) + Len(b) /\ a \o b \in Seq(JobRecord)
    BY <1>2, <1>3
  <2>4. DOMAIN (a \o b) = 1..Len(a) + Len(b) /\ DOMAIN a = 1..Len(a) /\ DOMAIN b = 1..Len(b)
        /\ Len(a) \in Nat /\ Len(b) \in Nat
    BY <1>2, <1>3, <2>3
  <2>5. ASSUME NEW i \in DOMAIN (a \o b), (a \o b)[i].manual
        PROVE  i \in DOMAIN a /\ (a \o b)[i] = a[i]
    <3>1. CASE i <= Len(a)
      BY <2>2, <2>4, <3>1
    <3>2. CASE ~(i <= Len(a))
      <4>1. i - Len(a) \in DOMAIN b /\ (a \o b)[i] = b[i - Len(a)]
        BY <2>2, <2>4, <3>2
      <4> QED BY <1>3, <2>5, <4>1
    <3> QED BY <3>1, <3>2
  <2>6. \A i \in DOMAIN a : (a \o b)[i] = a[i]
    BY <2>2, <2>4
  <2> HIDE DEF todo
  <2> QED BY <2>1, <2>3, <2>5, <2>6
<1> HIDE DEF todo
<1>6. /\ r \in [pc : Steps, todo : Seq(JobRecord), batch : {r.batch}, news : {r.news}]
      /\ r.pc = "next" /\ r.todo = todo
  <2> DEFINE B == run[w].batch
             N == run[w].news
  <2> HIDE DEF B, N
  <2>1. run[w] \in [pc : Steps, todo : Seq(JobRecord), batch : {B}, news : {N}]
    BY DEF ManualInv, RunShaped, B, N
  <2>2. /\ r \in [pc : Steps, todo : Seq(JobRecord), batch : {B}, news : {N}]
        /\ r.pc = "next" /\ r.todo = todo
    <3>1. "next" \in Steps
      BY DEF Steps
    <3> QED BY <1>5, <2>1, <3>1, Relisted
  <2> HIDE DEF r
  <2> QED BY <2>2
<1>7. RunShaped(r)
  <2>1. \A i \in DOMAIN todo : todo[i].manual =>
          /\ todo[i].provider \in Requests
          /\ \A j \in DOMAIN todo : i # j => todo[i] # todo[j]
    <3> SUFFICES ASSUME NEW i \in DOMAIN todo, todo[i].manual
                 PROVE  /\ todo[i].provider \in Requests
                        /\ \A j \in DOMAIN todo : i # j => todo[i] # todo[j]
      OBVIOUS
    <3>1. i \in DOMAIN a /\ todo[i] = a[i] /\ a[i].provider \in Pending
      BY <1>2, <1>5
    <3>2. ASSUME NEW j \in DOMAIN todo, i # j, todo[i] = todo[j] PROVE FALSE
      <4>1. j \in DOMAIN a /\ todo[j] = a[j]
        BY <1>5, <3>2
      <4> QED BY <1>2, <3>1, <3>2, <4>1
    <3> QED BY <1>1, <3>1, <3>2
  <2> HIDE DEF r
  <2> QED BY <1>6, <2>1 DEF RunShaped
<1>8. /\ DOMAIN run = Workers /\ run'[w] = r /\ r.todo = todo
      /\ \A v \in Workers : v # w => run'[v] = run[v]
  BY <1>4, <1>6 DEF ManualInv, Shaped
<1> HIDE DEF r
<1>9. ASSUME NEW v \in Workers, NEW i \in DOMAIN run'[v].todo, run'[v].todo[i].manual
      PROVE  /\ requests'[run'[v].todo[i].provider] = "running"
             /\ \A u \in Workers \ {v} : run'[v].todo[i] \notin ToSet(run'[u].todo)
  <2> DEFINE job == run'[v].todo[i]
  <2>0. \A u \in Workers : \A j \in DOMAIN run[u].todo :
          run[u].todo[j].manual => requests[run[u].todo[j].provider] = "running"
    BY DEF ManualInv, ManualOnce
  <2>1. CASE v = w
    <3>1. job.provider \in Pending /\ job.manual /\ a # <<>>
      <4>1. i \in DOMAIN a /\ job = a[i]
        BY <1>5, <1>8, <1>9, <2>1
      <4>2. DOMAIN <<>> = {}
        OBVIOUS
      <4> QED BY <1>2, <1>9, <4>1, <4>2
    <3>2. requests'[job.provider] = "running"
      BY <1>1, <1>4, <3>1
    <3>3. requests[job.provider] # "running"
      BY <3>1 DEF Pending
    <3>4. \A u \in Workers \ {v} : job \notin ToSet(run[u].todo)
      BY <2>0, <3>1, <3>3 DEF ToSet
    <3> QED BY <1>8, <2>1, <3>2, <3>4
  <2>2. CASE v # w
    <3>0. job.provider \in Requests
      BY <1>8, <1>9, <2>2 DEF ManualInv, RunShaped
    <3>1. job \in ToSet(run[v].todo) /\ requests[job.provider] = "running"
          /\ \A u \in Workers \ {v} : job \notin ToSet(run[u].todo)
      BY <1>8, <1>9, <2>2 DEF ManualInv, ManualOnce, ToSet
    <3>2. job.provider \notin Pending
      BY <3>1 DEF Pending
    <3>3. job \notin ToSet(todo)
      <4> SUFFICES ASSUME NEW j \in DOMAIN todo, todo[j] = job PROVE FALSE
        BY DEF ToSet
      <4>1. todo[j] = a[j] /\ j \in DOMAIN a /\ todo[j].manual
        BY <1>5, <1>9
      <4> QED BY <1>2, <3>2, <4>1
    <3>4. requests'[job.provider] = "running"
      BY <1>4, <3>0, <3>1
    <3> QED BY <1>8, <2>2, <3>1, <3>3, <3>4
  <2> QED BY <2>1, <2>2
<1>10. ManualOnce'
  BY <1>9 DEF ManualOnce
<1>11. Shaped' /\ \A v \in Workers : RunShaped(run'[v])
  BY <1>7, <1>8, <1>4 DEF ManualInv, Shaped
<1> QED BY <1>4, <1>10, <1>11 DEF ManualInv

\* A run that goes on at a provider keeps its list.
Continues(f, r) == RunShaped(f) /\ f.todo = r.todo

LEMMA Onward ==
  ASSUME NEW r, RunShaped(r), NEW pc \in Steps, NEW b,
         r.todo # <<>> \/ pc \in {"idle", "claim", "next"}
  PROVE  /\ Continues([r EXCEPT !.pc = pc], r)
         /\ Continues([r EXCEPT !.pc = pc, !.batch = b], r)
         /\ Continues([r EXCEPT !.pc = pc, !.news = b], r)
<1> DEFINE T == Seq(JobRecord)
           B == {r.batch, b}
           N == {r.news, b}
<1>1. r \in [pc : Steps, todo : T, batch : B, news : N]
  BY DEF RunShaped
<1> HIDE DEF T, B, N
<1> SUFFICES ASSUME NEW f, \/ f = [r EXCEPT !.pc = pc]
                           \/ f = [r EXCEPT !.pc = pc, !.batch = b]
                           \/ f = [r EXCEPT !.pc = pc, !.news = b]
             PROVE  Continues(f, r)
  OBVIOUS
<1>2. /\ f \in [pc : Steps, todo : T, batch : B \cup {b}, news : N \cup {b}]
      /\ f.pc = pc /\ f.todo = r.todo
  BY <1>1
<1>3. f \in [pc : Steps, todo : T, batch : {f.batch}, news : {f.news}]
  BY <1>2
<1> QED BY <1>2, <1>3 DEF Continues, RunShaped, T

\* The first job is done; it is not in the rest of the list.
LEMMA Onwards ==
  ASSUME NEW r, RunShaped(r), r.todo # <<>>,
         NEW f, f = [r EXCEPT !.pc = "next", !.todo = Tail(@), !.batch = {}, !.news = {}]
  PROVE  /\ RunShaped(f) /\ ToSet(f.todo) \subseteq ToSet(r.todo)
         /\ Head(r.todo) \in ToSet(r.todo) /\ Head(r.todo) \in JobRecord
         /\ Head(r.todo).manual => Head(r.todo) \notin ToSet(f.todo)
<1> DEFINE s == r.todo
           t == Tail(s)
<1>1. /\ s \in Seq(JobRecord)
      /\ \A i \in DOMAIN s : s[i].manual =>
           s[i].provider \in Requests /\ \A j \in DOMAIN s : i # j => s[i] # s[j]
  BY DEF RunShaped
<1>2. /\ DOMAIN s = 1..Len(s) /\ Len(s) \in Nat /\ Len(s) > 0 /\ s[1] = Head(s)
      /\ t \in Seq(JobRecord) /\ DOMAIN t = 1..Len(s) - 1
      /\ \A i \in 1..Len(s) - 1 : t[i] = s[i + 1] /\ i + 1 \in DOMAIN s
  BY <1>1
<1>3. f.todo = t /\ f \in [pc : Steps, todo : Seq(JobRecord), batch : {{}}, news : {{}}] /\ f.pc = "next"
  <2> DEFINE T == Seq(JobRecord)
             B == {r.batch, {}}
             N == {r.news, {}}
  <2>1. r \in [pc : Steps, todo : T, batch : B, news : N] /\ t \in T /\ "next" \in Steps
    BY <1>2 DEF RunShaped, Steps
  <2>2. f = [r EXCEPT !.pc = "next", !.todo = t, !.batch = {}, !.news = {}]
    OBVIOUS
  <2> HIDE DEF T, B, N, t
  <2>3. f.todo = t /\ f.pc = "next" /\ f \in [pc : Steps, todo : T, batch : {{}}, news : {{}}]
    BY <2>1, <2>2
  <2> QED BY <2>3 DEF T
<1> HIDE DEF s, t
<1>4. ASSUME NEW i \in DOMAIN t, t[i].manual
      PROVE  t[i].provider \in Requests /\ \A j \in DOMAIN t : i # j => t[i] # t[j]
  <2>1. i + 1 \in DOMAIN s /\ s[i + 1] = t[i]
    BY <1>2
  <2>2. ASSUME NEW j \in DOMAIN t, i # j PROVE t[i] # t[j]
    <3>1. j + 1 \in DOMAIN s /\ s[j + 1] = t[j] /\ i + 1 # j + 1
      BY <1>2, <2>2
    <3> QED BY <1>1, <1>4, <2>1, <3>1
  <2> QED BY <1>1, <1>4, <2>1, <2>2
<1>5. RunShaped(f)
  BY <1>3, <1>4 DEF RunShaped
<1>6. ToSet(t) \subseteq ToSet(s) /\ Head(s) \in ToSet(s)
  BY <1>2 DEF ToSet
<1>7. s[1].manual => s[1] \notin ToSet(t)
  <2> SUFFICES ASSUME s[1].manual, NEW i \in DOMAIN t PROVE t[i] # s[1]
    BY DEF ToSet
  <2>1. i + 1 \in DOMAIN s /\ s[i + 1] = t[i] /\ i + 1 # 1 /\ 1 \in DOMAIN s
    BY <1>2
  <2> QED BY <1>1, <2>1
<1>8. s[1] \in JobRecord
  BY <1>1, <1>2
<1> QED BY <1>2, <1>3, <1>5, <1>6, <1>7, <1>8 DEF s

\* A worker between two runs has no list.
LEMMA IdleShaped == RunShaped(Idle) /\ Idle.todo = <<>>
<1>1. Idle \in [pc : Steps, todo : Seq(JobRecord), batch : {{}}, news : {{}}]
  BY DEF Idle, Steps
<1> QED BY <1>1 DEF RunShaped, Idle

\* A claim apart, a step leaves each worker a part of its list, and the manual job it
\* settles is gone from that list.
LEMMA ManualStep == ManualInv /\ [Next]_vars => ManualInv'
<1> SUFFICES ASSUME ManualInv, [Next]_vars PROVE ManualInv'
  OBVIOUS
<1>1. DOMAIN run = Workers /\ requests = [p \in Requests |-> requests[p]]
      /\ \A w \in Workers : RunShaped(run[w]) /\ run[w].pc \in Steps
  BY DEF ManualInv, Shaped, RunShaped
<1>2. ASSUME NEW w \in Workers, NEW pc \in Steps, NEW b, requests' = requests,
             run[w].todo # <<>> \/ pc \in {"idle", "claim", "next"},
             \/ run' = [run EXCEPT ![w].pc = pc]
             \/ run' = [run EXCEPT ![w].pc = pc, ![w].batch = b]
             \/ run' = [run EXCEPT ![w].pc = pc, ![w].news = b]
      PROVE  ManualInv'
  <2>1. PICK f : /\ run' = [run EXCEPT ![w] = f]
                 /\ \/ f = [run[w] EXCEPT !.pc = pc]
                    \/ f = [run[w] EXCEPT !.pc = pc, !.batch = b]
                    \/ f = [run[w] EXCEPT !.pc = pc, !.news = b]
    BY <1>2
  <2>2. RunShaped(f) /\ f.todo = run[w].todo
    <3> DEFINE r == run[w]
    <3>1. RunShaped(r) /\ (r.todo # <<>> \/ pc \in {"idle", "claim", "next"})
      BY <1>1, <1>2
    <3>2. f \in {[r EXCEPT !.pc = pc], [r EXCEPT !.pc = pc, !.batch = b],
                [r EXCEPT !.pc = pc, !.news = b]}
      BY <2>1
    <3> HIDE DEF r
    <3>3. /\ Continues([r EXCEPT !.pc = pc], r)
          /\ Continues([r EXCEPT !.pc = pc, !.batch = b], r)
          /\ Continues([r EXCEPT !.pc = pc, !.news = b], r)
      BY <3>1, Onward, Zenon
    <3>4. Continues(f, r)
      BY <3>2, <3>3
    <3> QED BY <3>4 DEF r, Continues
  <2> QED BY <1>1, <1>2, <2>1, <2>2, FewerJobs
<1>3. ASSUME NEW w \in Workers, requests' = requests, run' = [run EXCEPT ![w] = Idle]
      PROVE  ManualInv'
  <2>1. ToSet(Idle.todo) = {}
    BY IdleShaped DEF ToSet
  <2> QED BY <1>1, <1>3, <2>1, IdleShaped, FewerJobs
<1>4. ASSUME NEW w \in Workers, run[w].todo # <<>>, run' = [run EXCEPT ![w] = Rest(w)],
             NEW state, Finished(w, state) \/ requests' = requests
      PROVE  ManualInv'
  <2> DEFINE job == Head(run[w].todo)
             f == [run[w] EXCEPT !.pc = "next", !.todo = Tail(@), !.batch = {}, !.news = {}]
  <2>1. /\ RunShaped(f) /\ ToSet(f.todo) \subseteq ToSet(run[w].todo)
        /\ job \in ToSet(run[w].todo) /\ job \in JobRecord
        /\ job.manual => job \notin ToSet(f.todo)
    BY <1>1, <1>4, Onwards
  <2>2. run' = [run EXCEPT ![w] = f]
    BY <1>4 DEF Rest
  <2>3. requests' = requests
        \/ (job.manual /\ requests' = [p \in Requests |->
              IF p \in {job.provider} THEN state ELSE requests[p]])
    BY <1>4 DEF Finished, Marked, P, Job
  <2>4. requests' = [p \in Requests |-> requests'[p]]
    BY <1>1, <2>3
  <2>5. ASSUME NEW p \in Requests, requests[p] = "running", requests'[p] # "running"
        PROVE  [provider |-> p, manual |-> TRUE] \in ToSet(run[w].todo) \ ToSet(f.todo)
    <3>1. job.manual /\ p = job.provider
      BY <2>3, <2>5
    <3>2. job = [provider |-> p, manual |-> TRUE]
      BY <2>1, <3>1 DEF JobRecord
    <3> QED BY <2>1, <3>1, <3>2
  <2> HIDE DEF f
  <2> QED BY <2>1, <2>2, <2>4, <2>5, FewerJobs
<1>5. ASSUME NEW w \in Workers, Begin(w) \/ Fetch(w) \/ Refuse(w) \/ Store(w) \/ Consume(w)
               \/ Check(w) \/ Put(w) \/ TellNews(w) \/ CallFails(w) \/ WriteFails(w)
               \/ EventLost(w) \/ RiskUnwritten(w)
      PROVE  ManualInv'
  <2>1. requests' = requests
    BY <1>5 DEF Begin, Fetch, Refuse, Store, Consume, Check, Put, TellNews, CallFails,
                WriteFails, EventLost, RiskUnwritten
  <2>2. run[w].todo # <<>> \/ Begin(w)
    BY <1>1, <1>5 DEF Fetch, Refuse, Store, Consume, Check, Put, TellNews, CallFails,
                WriteFails, EventLost, RiskUnwritten, Walked, At, Starts, RunShaped
  <2>3. CASE Begin(w)
    BY <1>2, <2>1, <2>3 DEF Begin, Go, Steps
  <2>4. CASE ~Begin(w)
    <3>1. run[w].todo # <<>>
      BY <2>2, <2>4
    <3>2. ASSUME NEW pc, Go(w, pc), pc \in Steps PROVE ManualInv'
      BY <1>2, <2>1, <3>1, <3>2 DEF Go
    <3>3. CASE Fetch(w)
      <4>1. PICK pc \in {"store", "check"} :
              \E b : run' = [run EXCEPT ![w].pc = pc, ![w].batch = b]
        BY <3>3 DEF Fetch
      <4>2. PICK b : run' = [run EXCEPT ![w].pc = pc, ![w].batch = b]
        BY <4>1
      <4> QED BY <1>2, <2>1, <3>1, <4>1, <4>2 DEF Steps
    <3>4. CASE Check(w)
      <4>1. PICK b : run' = [run EXCEPT ![w].pc = "put", ![w].news = b]
        BY <3>4 DEF Check
      <4> QED BY <1>2, <2>1, <3>1, <4>1 DEF Steps
    <3>5. ~Fetch(w) /\ ~Check(w) =>
            \E pc \in {"fail", "consume", "tell", "succeed"} : Go(w, pc)
      BY <1>5, <2>4 DEF Refuse, Store, Consume, Put, TellNews, CallFails, WriteFails, EventLost,
                        RiskUnwritten
    <3> QED BY <3>2, <3>3, <3>4, <3>5 DEF Steps
  <2> QED BY <2>3, <2>4
<1>6. ASSUME run' = run, requests' = [p \in Requests |-> requests'[p]],
             \A p \in Requests : requests[p] = "running" => requests'[p] = "running"
      PROVE  ManualInv'
  <2>1. \A w \in Workers : \A i \in DOMAIN run[w].todo :
          run[w].todo[i].manual => run[w].todo[i].provider \in Requests
    BY <1>1 DEF RunShaped
  <2>2. ManualOnce'
    BY <1>6, <2>1 DEF ManualInv, ManualOnce
  <2> QED BY <1>6, <2>2 DEF ManualInv, Shaped
<1>7. ASSUME NEW w \in Workers, Release(w) \/ Crash(w) \/ ReleaseFails(w) PROVE ManualInv'
  BY <1>3, <1>7 DEF Release, Crash, ReleaseFails
<1>8. ASSUME NEW w \in Workers, Skip(w) PROVE ManualInv'
  BY <1>4, <1>8 DEF Skip
<1>9. ASSUME NEW w \in Workers, Conclude(w) \/ ConcludeUnwritten(w) PROVE ManualInv'
  <2>1. run[w].todo # <<>>
    BY <1>1, <1>9 DEF Conclude, ConcludeUnwritten, RunShaped
  <2> QED BY <1>4, <1>9, <2>1 DEF Conclude, ConcludeUnwritten
<1>10. ASSUME NEW p \in Requests, Queue(p) PROVE ManualInv'
  <2>1. requests[p] # "running"
    BY <1>10, ProvidersAssumption DEF Queue
  <2>2. run' = run /\ requests' = [q \in Requests |-> IF q \in {p} THEN "pending" ELSE requests[q]]
    BY <1>10 DEF Queue, Marked
  <2> QED BY <1>6, <2>1, <2>2
<1>11. ASSUME UNCHANGED <<run, requests>> PROVE ManualInv'
  BY <1>1, <1>6, <1>11
<1>12. CASE LockEnds \/ Change \/ UNCHANGED vars
  BY <1>11, <1>12 DEF LockEnds, Change, vars
<1>13. ASSUME NEW w \in Workers, DueAgain(w) \/ AcquireFails(w) PROVE ManualInv'
  BY <1>11, <1>13 DEF DueAgain, AcquireFails
<1>14. ASSUME NEW w \in Workers, Claim(w) PROVE ManualInv'
  BY <1>14, ClaimOnce DEF Claim
<1>15. ASSUME NEW w \in Workers, ClaimFails(w) PROVE ManualInv'
  <2>1. <<>> \o Jobs(w) = Jobs(w)
    BY JobsDue
  <2> QED BY <1>15, <2>1, ClaimOnce DEF ClaimFails
<1> QED
  BY <1>5, <1>7, <1>8, <1>9, <1>10, <1>12, <1>13, <1>14, <1>15 DEF Next, Step, Sync

\* Nothing is asked or claimed before the first request.
LEMMA ManualInit == Init => ManualInv
<1> SUFFICES ASSUME Init PROVE ManualInv
  OBVIOUS
<1>1. run = [w \in Workers |-> Idle] /\ requests = [r \in Requests |-> None]
  BY DEF Init
<1>2. \A w \in Workers : run[w] = Idle
  BY <1>1
<1>3. ManualOnce
  BY <1>2, IdleShaped DEF ManualOnce
<1> QED BY <1>1, <1>2, <1>3, IdleShaped DEF ManualInv, Shaped

\* However the runs of the replicas overlap, whichever of them crash and whatever
\* fails, a manual synchronisation is in the hands of one worker, and in none once
\* its result is recorded.
THEOREM ManualSynchronisationOnce == Spec => []ManualOnce
<1>1. ManualInv => ManualOnce
  BY DEF ManualInv
<1> QED BY <1>1, ManualInit, ManualStep, PTL DEF Spec

-----------------------------------------------------------------------------
(* Announcements *)

\* What the event's provider answers now lists it; what a worker has at hand does.
Lists(e) == \E r \in Batch(Format[e[1]], answer[e[1]]) : Event(e[1], r) = e
Carries(w, e) == \E r \in run[w].batch : Event(e[1], r) = e
InHand(w) == run[w].pc \in {"check", "put", "tell"}

\* The same provider has written another view of the ASN.
Other(e) == asns[e[2]] # None /\ asns[e[2]].provider = e[1] /\ asns[e[2]].view # e[3]

\* What a worker has at hand is about to be an event.
Tells(w, e) ==
  IF At(w, "check") THEN Carries(w, e) /\ (asns[e[2]] = None \/ Other(e))
                    ELSE \E r \in run[w].news : Event(e[1], r) = e

\* Every announcement after the first is paid for with two changes: away from the view
\* and back to it. The second is not made yet while the provider does not list the view,
\* and both are for the next one while the table, or a worker, has another view.
Paid(e) ==
  told[e] > 0 =>
    /\ asns[e[2]] # None
    /\ changes >= 2 * told[e] - (IF Lists(e) THEN 2 ELSE 1)
    /\ Other(e) => changes >= 2 * told[e] - (IF Lists(e) THEN 0 ELSE 1)

\* So is the announcement that is on its way.
RunPaid(w, e) ==
  InHand(w) /\ P(w) = e[1] =>
    /\ ~Carries(w, e) /\ told[e] > 0 =>
         changes >= 2 * told[e] - (IF Lists(e) THEN 0 ELSE 1)
    /\ Carries(w, e) /\ ~Lists(e) => changes >= 1
    /\ Tells(w, e) => changes >= 2 * told[e] + (IF Lists(e) THEN 0 ELSE 1)
    /\ Tells(w, e) /\ At(w, "tell") => asns[e[2]] = [provider |-> e[1], view |-> e[3]]

\* A worker at a provider has an answer of it; the rows of a feed are in the table when
\* consume looks for them.
Flight(w) ==
  /\ InHand(w) => ~IsThreat(P(w))
  /\ run[w].pc \in {"store", "consume"} => IsThreat(P(w))
  /\ InHand(w) \/ run[w].pc \in {"store", "consume"} =>
       \E a \in ToSet(Answers[P(w)]) : run[w].batch = Batch(Format[P(w)], a)
  /\ At(w, "consume") => \A r \in run[w].batch : Row(P(w), r) \in rows
  /\ run[w].pc \in {"put", "tell"} => run[w].news \subseteq run[w].batch

\* The tables have a value for each event, key and provider.
Tables ==
  /\ told \in [Events -> Nat] /\ changes \in Nat
  /\ asns = [k \in Keys |-> asns[k]]
  /\ answer = [p \in Providers |-> answer[p]]
  /\ \A p \in Providers : answer[p] \in ToSet(Answers[p])

\* One run at a time; a feed's new indicators are no events (they are in the table when
\* consume asks), and the other events are paid for.
Settled(e) ==
  IF IsThreat(e[1]) THEN told[e] = 0
                    ELSE Singular(e) => Paid(e) /\ \A w \in Workers : RunPaid(w, e)
InTurn ==
  /\ \A v, w \in Busy : v = w
  /\ \A w \in Workers : Flight(w)
  /\ \A e \in Events : Settled(e)

AnnounceInv == ManualInv /\ Tables /\ (overlapped \/ InTurn)

\* What a provider lists is an event of it.
LEMMA ListedIsEvent ==
  ASSUME NEW p \in Providers, NEW a \in ToSet(Answers[p]), NEW r \in Batch(Format[p], a)
  PROVE  Event(p, r) \in Events /\ r.key \in Keys
<1>1. r \in Listed(p)
  BY Zenon DEF Listed
<1>2. Event(p, r) \in Events
  BY <1>1 DEF Events
<1>3. Event(p, r)[2] = r.key
  BY DEF Event
<1>4. Event(p, r)[2] \in Keys
  BY <1>2, Zenon DEF Keys
<1> QED BY <1>2, <1>3, <1>4

LEMMA EventParts ==
  ASSUME NEW e \in Events
  PROVE  e[1] \in Providers /\ e[2] \in Keys /\ e = <<e[1], e[2], e[3]>>
<1>1. PICK p \in Providers : \E r \in Listed(p) : e = Event(p, r)
  BY Zenon DEF Events
<1>2. PICK r \in Listed(p) : e = Event(p, r)
  BY <1>1
<1>3. e = <<p, r.key, r.view>>
  BY <1>2 DEF Event
<1>4. e[2] \in Keys
  BY Zenon DEF Keys
<1> QED BY <1>3, <1>4

\* An answer has one record for the key of a singular event.
LEMMA OneRecord ==
  ASSUME NEW e, Singular(e), ~IsThreat(e[1]), NEW a \in ToSet(Answers[e[1]]),
         NEW r \in Batch(Format[e[1]], a), r.key = e[2]
  PROVE  r.kind = "asn" /\ \A s \in Batch(Format[e[1]], a) : s.key = e[2] => s = r
BY Zenon DEF Singular

\* What becomes of a worker's run when it stays at its provider.
Stays(w, pc, batch, news) ==
  /\ run'[w].pc = pc /\ run'[w].todo = run[w].todo
  /\ run'[w].batch = batch /\ run'[w].news = news

LEMMA RunMoves ==
  ASSUME Shaped, NEW w \in Workers, RunShaped(run[w]), NEW pc, NEW b
  PROVE  /\ Go(w, pc) => Stays(w, pc, run[w].batch, run[w].news)
         /\ run' = [run EXCEPT ![w].pc = pc, ![w].batch = b] => Stays(w, pc, b, run[w].news)
         /\ run' = [run EXCEPT ![w].pc = pc, ![w].news = b] => Stays(w, pc, run[w].batch, b)
<1> DEFINE r == run[w]
<1>1. r \in [pc : Steps, todo : Seq(JobRecord), batch : {r.batch}, news : {r.news}]
  BY DEF RunShaped
<1>2. w \in DOMAIN run
  BY DEF Shaped
<1>3. ASSUME Go(w, pc) PROVE Stays(w, pc, run[w].batch, run[w].news)
  <2>1. run'[w] = [r EXCEPT !.pc = pc]
    BY <1>2, <1>3 DEF Go
  <2> HIDE DEF r
  <2>2. run'[w].pc = pc /\ run'[w].todo = r.todo /\ run'[w].batch = r.batch /\ run'[w].news = r.news
    BY <1>1, <2>1
  <2> QED BY <2>2 DEF Stays, r
<1>4. ASSUME run' = [run EXCEPT ![w].pc = pc, ![w].batch = b] PROVE Stays(w, pc, b, run[w].news)
  <2>1. run'[w] = [r EXCEPT !.pc = pc, !.batch = b]
    BY <1>2, <1>4
  <2> HIDE DEF r
  <2>2. run'[w].pc = pc /\ run'[w].todo = r.todo /\ run'[w].batch = b /\ run'[w].news = r.news
    BY <1>1, <2>1
  <2> QED BY <2>2 DEF Stays, r
<1>5. ASSUME run' = [run EXCEPT ![w].pc = pc, ![w].news = b] PROVE Stays(w, pc, run[w].batch, b)
  <2>1. run'[w] = [r EXCEPT !.pc = pc, !.news = b]
    BY <1>2, <1>5
  <2> HIDE DEF r
  <2>2. run'[w].pc = pc /\ run'[w].todo = r.todo /\ run'[w].batch = r.batch /\ run'[w].news = b
    BY <1>1, <2>1
  <2> QED BY <2>2 DEF Stays, r
<1> QED BY <1>3, <1>4, <1>5

\* A worker that stays where it is has the same job.
LEMMA SameJob ==
  ASSUME NEW w \in Workers, NEW pc, NEW b, NEW n, Stays(w, pc, b, n)
  PROVE  /\ P(w)' = P(w) /\ run'[w].pc = pc /\ run'[w].batch = b /\ run'[w].news = n
         /\ At(w, pc)' /\ \A q : q # pc => ~At(w, q)'
BY DEF Stays, P, Job, At

\* A worker at a provider has a job.
LEMMA HasJob ==
  ASSUME NEW w \in Workers, RunShaped(run[w]),
         run[w].todo # <<>> \/ run[w].pc \notin {"idle", "claim", "next"}
  PROVE  P(w) \in Providers /\ run[w].todo # <<>>
<1>1. run[w].todo # <<>> /\ run[w].todo \in Seq(JobRecord)
  BY DEF RunShaped
<1>2. Head(run[w].todo) \in JobRecord
  BY <1>1
<1> QED BY <1>1, <1>2 DEF P, Job, JobRecord

\* When one worker moves, and the others are idle, it is enough to look at that one.
LEMMA OneWorkerMoves ==
  ASSUME NEW w \in Workers,
         \A v \in Workers : v # w => run'[v].pc = "idle",
         Flight(w)',
         \A e \in Events : IF IsThreat(e[1]) THEN told'[e] = 0
                           ELSE Singular(e) => Paid(e)' /\ RunPaid(w, e)'
  PROVE  InTurn'
<1>1. \A v \in Workers : v # w => Flight(v)' /\ \A e \in Events : RunPaid(v, e)'
  BY DEF Flight, RunPaid, InHand, At
<1>2. \A e \in Events : Settled(e)'
  BY <1>1 DEF Settled, Singular, IsThreat
<1>3. \A u, v \in Busy' : u = v
  BY DEF Busy, At
<1> QED BY <1>1, <1>2, <1>3 DEF InTurn

\* A worker that is not at a provider's answer has nothing on its way.
Landed(w) == run[w].pc \notin {"store", "consume", "check", "put", "tell"}

LEMMA NothingInFlight ==
  ASSUME NEW w, Landed(w)
  PROVE  Flight(w) /\ \A e : RunPaid(w, e)
BY DEF Landed, Flight, RunPaid, InHand, At

\* What a step leaves alone leaves the accounts alone.
LEMMA PaidStays ==
  ASSUME UNCHANGED <<answer, asns, told, changes>>, NEW e
  PROVE  /\ (Lists(e)' <=> Lists(e)) /\ (Other(e)' <=> Other(e))
         /\ Paid(e) => Paid(e)'
BY DEF Lists, Other, Paid

LEMMA Lands ==
  ASSUME InTurn, NEW w \in Workers, UNCHANGED <<answer, asns, told, changes>>,
         \A v \in Workers : v # w => run'[v].pc = "idle",
         Landed(w)'
  PROVE  InTurn'
<1>1. Flight(w)' /\ \A e : RunPaid(w, e)'
  BY DEF Landed, Flight, RunPaid, InHand, At
<1>2. \A e \in Events : IF IsThreat(e[1]) THEN told'[e] = 0
                        ELSE Singular(e) => Paid(e)' /\ RunPaid(w, e)'
  BY <1>1, PaidStays DEF InTurn, Settled
<1> QED BY <1>1, <1>2, OneWorkerMoves

\* A counted event is counted in the table, an answer is one of the provider's.
LEMMA TablesStep ==
  ASSUME Tables, [Next]_vars
  PROVE  Tables'
<1>1. ASSUME UNCHANGED <<told, changes, asns, answer>> PROVE Tables'
  BY <1>1 DEF Tables
<1>2. ASSUME NEW es, Tell(es), UNCHANGED <<changes, asns, answer>> PROVE Tables'
  <2>1. \A e \in Events : told[e] \in Nat /\ told[e] + 1 \in Nat
    BY DEF Tables
  <2>2. told' \in [Events -> Nat]
    BY <1>2, <2>1 DEF Tell
  <2> QED BY <1>2, <2>2 DEF Tables
<1>3. ASSUME NEW w, NEW rs, Written(w, rs), UNCHANGED <<told, changes, answer>> PROVE Tables'
  BY <1>3 DEF Tables, Written
<1>4. CASE Change
  <2>1. changes' \in Nat /\ UNCHANGED <<told, asns>>
    BY <1>4 DEF Change, Tables, data
  <2>2. answer' = [p \in Providers |-> answer'[p]]
        /\ \A p \in Providers : answer'[p] \in ToSet(Answers[p])
    BY <1>4 DEF Change, Tables
  <2> QED BY <2>1, <2>2 DEF Tables
<1>5. ASSUME NEW w \in Workers, Consume(w) \/ TellNews(w) PROVE Tables'
  BY <1>2, <1>5 DEF Consume, TellNews, world
<1>6. ASSUME NEW w \in Workers, Put(w) PROVE Tables'
  BY <1>3, <1>6 DEF Put, world
<1>11. ASSUME NEW w \in Workers, EventLost(w) \/ RiskUnwritten(w) PROVE Tables'
  BY <1>2, <1>11 DEF EventLost, RiskUnwritten, Walked, world
<1>7. ASSUME NEW w \in Workers, WriteFails(w) PROVE Tables'
  <2>1. UNCHANGED <<told, changes, answer>>
    BY <1>7 DEF WriteFails, world
  <2>2. \/ UNCHANGED asns
        \/ \E part \in SUBSET run[w].batch : Written(w, part)
    BY <1>7 DEF WriteFails
  <2> QED BY <1>1, <1>3, <2>1, <2>2
<1>8. ASSUME NEW w \in Workers, \/ Begin(w) \/ Claim(w) \/ Release(w) \/ Skip(w) \/ Fetch(w)
               \/ Refuse(w) \/ Store(w) \/ Check(w) \/ Conclude(w) \/ CallFails(w)
               \/ AcquireFails(w) \/ ReleaseFails(w) \/ ClaimFails(w) \/ ConcludeUnwritten(w)
               \/ Crash(w) \/ DueAgain(w)
      PROVE  Tables'
  BY <1>1, <1>8 DEF Begin, Claim, Release, Skip, Fetch, Refuse, Store, Check, Conclude, CallFails,
       AcquireFails, ReleaseFails, ClaimFails, ConcludeUnwritten, Crash, DueAgain, world, data
<1>9. ASSUME NEW p \in Requests, Queue(p) PROVE Tables'
  BY <1>1, <1>9 DEF Queue, world, data
<1>10. CASE LockEnds \/ UNCHANGED vars
  BY <1>1, <1>10 DEF LockEnds, vars, world, data
<1> QED
  BY <1>4, <1>5, <1>6, <1>7, <1>8, <1>9, <1>10, <1>11 DEF Next, Step, Sync

\* A worker that is busy is alone, and stays so.
LEMMA OthersIdle ==
  ASSUME InTurn, Shaped, NEW w \in Workers, ~At(w, "idle"),
         Within(w) \/ Release(w) \/ Crash(w) \/ ReleaseFails(w)
  PROVE  \A v \in Workers : v # w => run'[v].pc = "idle" /\ run[v].pc = "idle"
<1>1. \A v \in Workers : v # w => run[v].pc = "idle"
  BY DEF InTurn, Busy, At
<1>2. \A v \in Workers : v # w => run'[v] = run[v]
  BY WithinKeepsTheLock DEF Release, Crash, ReleaseFails, Shaped
<1> QED BY <1>1, <1>2

\* An answer is at hand: what it says of an event is what its provider lists now.
LEMMA FetchInTurn ==
  ASSUME ManualInv, Tables, InTurn, NEW w \in Workers, Fetch(w)
  PROVE  InTurn'
<1> DEFINE p == P(w)
           pc == IF IsThreat(p) THEN "store" ELSE "check"
           b == Batch(Format[p], answer[p])
<1>1. \A v \in Workers : v # w => run'[v].pc = "idle"
  BY OthersIdle DEF Fetch, Starts, At, Within, Sync, ManualInv
<1>2. Stays(w, pc, b, run[w].news) /\ RunShaped(run[w])
  BY RunMoves DEF Fetch, ManualInv
<1>3. /\ P(w)' = p /\ run'[w].pc = pc /\ run'[w].batch = b
      /\ At(w, pc)' /\ \A q : q # pc => ~At(w, q)'
  BY <1>2, SameJob
<1>4. p \in Providers /\ answer[p] \in ToSet(Answers[p])
  BY <1>2, HasJob DEF Fetch, Starts, Tables
<1>5. UNCHANGED <<answer, asns, told, changes>>
  BY DEF Fetch, world, data
<1> HIDE DEF p, b
<1>6. Flight(w)'
  BY <1>3, <1>4 DEF Flight, InHand, IsThreat, b
<1>7. ASSUME NEW e \in Events, ~IsThreat(e[1]), Singular(e)
      PROVE  Paid(e)' /\ RunPaid(w, e)'
  <2>1. Paid(e) /\ told[e] \in Nat /\ changes \in Nat
    BY <1>7 DEF InTurn, Settled, Tables
  <2>2. Paid(e)' /\ (Lists(e)' <=> Lists(e)) /\ (Other(e)' <=> Other(e))
    BY <1>5, <2>1, PaidStays
  <2>3. ASSUME InHand(w)', p = e[1] PROVE RunPaid(w, e)'
    <3>1. pc = "check" /\ run'[w].pc = "check"
      BY <1>3, <2>3 DEF InHand
    <3>2. Carries(w, e)' <=> Lists(e)
      BY <1>3, <2>3 DEF Carries, Lists, b
    <3>3. Tells(w, e)' <=> (Lists(e) /\ (asns[e[2]] = None \/ Other(e)))
      BY <1>3, <1>5, <2>2, <3>1, <3>2 DEF Tells, At
    <3>4. ~At(w, "tell")'
      BY <1>3, <3>1
    <3>5. told' = told /\ changes' = changes
      BY <1>5
    <3>6. /\ told[e] > 0 => asns[e[2]] # None
          /\ told[e] > 0 /\ ~Lists(e) => changes >= 2 * told[e] - 1
          /\ told[e] > 0 /\ Other(e) /\ Lists(e) => changes >= 2 * told[e]
      BY <2>1 DEF Paid
    <3> HIDE DEF pc
    <3>7. /\ ~Carries(w, e)' /\ told'[e] > 0 => changes' >= 2 * told'[e] - (IF Lists(e)' THEN 0 ELSE 1)
          /\ Carries(w, e)' /\ ~Lists(e)' => changes' >= 1
          /\ Tells(w, e)' => changes' >= 2 * told'[e] + (IF Lists(e)' THEN 0 ELSE 1)
      BY <2>1, <2>2, <3>2, <3>3, <3>5, <3>6
    <3> QED BY <3>4, <3>7 DEF RunPaid
  <2>4. RunPaid(w, e)'
    BY <1>3, <2>3 DEF RunPaid
  <2> QED BY <2>2, <2>4
<1>8. \A e \in Events : IsThreat(e[1]) => told'[e] = 0
  BY <1>5 DEF InTurn, Settled
<1> QED BY <1>1, <1>6, <1>7, <1>8, OneWorkerMoves

\* The accounts of the events stay as they are when nothing is told, written or changed.
LEMMA AccountsStay ==
  ASSUME InTurn, UNCHANGED <<answer, asns, told, changes>>
  PROVE  \A e \in Events : IF IsThreat(e[1]) THEN told'[e] = 0 ELSE Singular(e) => Paid(e)'
BY PaidStays DEF InTurn, Settled

\* The batch is in the table when consume asks, so that nothing of it is new.
LEMMA StoreInTurn ==
  ASSUME ManualInv, Tables, InTurn, NEW w \in Workers, Store(w)
  PROVE  InTurn'
<1>1. \A v \in Workers : v # w => run'[v].pc = "idle"
  BY OthersIdle DEF Store, At, Within, Sync, ManualInv
<1>2. Stays(w, "consume", run[w].batch, run[w].news)
  BY RunMoves DEF Store, ManualInv
<1>3. /\ P(w)' = P(w) /\ run'[w].pc = "consume" /\ run'[w].batch = run[w].batch
  BY <1>2, SameJob
<1>4. IsThreat(P(w)) /\ \E a \in ToSet(Answers[P(w)]) : run[w].batch = Batch(Format[P(w)], a)
  BY DEF Store, At, InTurn, Flight
<1>5. UNCHANGED <<answer, asns, told, changes>>
      /\ rows' = rows \cup {Row(P(w), r) : r \in run[w].batch}
  BY DEF Store, world, Upserted
<1>6. Flight(w)'
  BY <1>3, <1>4, <1>5 DEF Flight, InHand, At, Row
<1>7. \A e : RunPaid(w, e)'
  BY <1>3 DEF RunPaid, InHand
<1> QED BY <1>1, <1>5, <1>6, <1>7, AccountsStay, OneWorkerMoves

LEMMA ConsumeInTurn ==
  ASSUME ManualInv, Tables, InTurn, NEW w \in Workers, At(w, "consume"),
         Consume(w) \/ EventLost(w) \/ RiskUnwritten(w)
  PROVE  InTurn'
<1>1. \A v \in Workers : v # w => run'[v].pc = "idle"
  BY OthersIdle DEF At, Within, Sync, ManualInv
<1>2. \E pc \in {"succeed", "fail"} : Stays(w, pc, run[w].batch, run[w].news)
  BY RunMoves DEF Consume, EventLost, RiskUnwritten, ManualInv
<1>3. \A r \in run[w].batch : Row(P(w), r) \in rows
  BY DEF InTurn, Flight
<1>4. {r \in run[w].batch : Row(P(w), r) \notin rows} = {} /\ News(w) = {}
  BY <1>3 DEF News, At
<1>5. Tell({Event(P(w), r) : r \in {}})
  BY <1>4 DEF Consume, EventLost, RiskUnwritten, Walked
<1>6. told' = told
  BY <1>5 DEF Tell, Tables
<1>7. UNCHANGED <<answer, asns, told, changes>>
  BY <1>6 DEF Consume, EventLost, RiskUnwritten, world
<1> QED BY <1>1, <1>2, <1>7, Lands DEF Landed, Stays

\* What consume_network takes for a change is one.
LEMMA CheckInTurn ==
  ASSUME ManualInv, Tables, InTurn, NEW w \in Workers, Check(w)
  PROVE  InTurn'
<1> DEFINE p == P(w)
           n == {r \in run[w].batch : \/ r.kind = "asn" /\ Differs(P(w), r)
                                      \/ r.kind \in {"bgp_changed", "rpki_invalid"}}
<1>1. \A v \in Workers : v # w => run'[v].pc = "idle"
  BY OthersIdle DEF Check, At, Within, Sync, ManualInv
<1>2. Stays(w, "put", run[w].batch, n)
  BY RunMoves DEF Check, ManualInv
<1>3. /\ P(w)' = P(w) /\ run'[w].pc = "put" /\ run'[w].batch = run[w].batch /\ run'[w].news = n
  BY <1>2, SameJob
<1>4. PICK a \in ToSet(Answers[p]) : run[w].batch = Batch(Format[p], a)
  BY DEF Check, At, InTurn, Flight, InHand
<1>5. UNCHANGED <<answer, asns, told, changes>> /\ run[w].pc = "check" /\ ~IsThreat(p)
  BY DEF Check, At, world, data, InTurn, Flight, InHand
<1>6. n \subseteq run[w].batch
  OBVIOUS
<1>7. \A r \in n : \/ r.kind = "asn" /\ Differs(p, r)
                   \/ r.kind \in {"bgp_changed", "rpki_invalid"}
  OBVIOUS
<1> HIDE DEF p, n
<1>8. Flight(w)'
  BY <1>3, <1>4, <1>5, <1>6 DEF Flight, InHand, At, p
<1>9. ASSUME NEW e \in Events, ~IsThreat(e[1]), Singular(e), p = e[1]
      PROVE  RunPaid(w, e)'
  <2>1. RunPaid(w, e) /\ P(w) = e[1] /\ InHand(w)
    BY <1>5, <1>9 DEF InTurn, Settled, InHand, p
  <2>2. (Lists(e)' <=> Lists(e)) /\ (Other(e)' <=> Other(e)) /\ (Carries(w, e)' <=> Carries(w, e))
    BY <1>3, <1>5, PaidStays DEF Carries
  <2>3. ASSUME Tells(w, e)' PROVE Tells(w, e)
    <3>1. PICK r \in n : Event(e[1], r) = e
      BY <1>3, <2>3 DEF Tells, At
    <3>2. r.key = e[2] /\ r.view = e[3]
      BY <3>1 DEF Event
    <3>3. r.kind = "asn"
      BY <1>4, <1>6, <1>9, <3>2, OneRecord
    <3>4. asns[e[2]] = None \/ Other(e)
      BY <1>7, <1>9, <3>2, <3>3 DEF Differs, Other
    <3>5. Carries(w, e)
      BY <1>6, <3>1 DEF Carries
    <3> QED BY <1>5, <3>4, <3>5 DEF Tells, At
  <2>4. told' = told /\ changes' = changes /\ ~At(w, "tell")'
    BY <1>3, <1>5 DEF At
  <2>5. /\ ~Carries(w, e) /\ told[e] > 0 => changes >= 2 * told[e] - (IF Lists(e) THEN 0 ELSE 1)
        /\ Carries(w, e) /\ ~Lists(e) => changes >= 1
        /\ Tells(w, e) => changes >= 2 * told[e] + (IF Lists(e) THEN 0 ELSE 1)
    BY <2>1 DEF RunPaid
  <2>6. /\ ~Carries(w, e)' /\ told'[e] > 0 => changes' >= 2 * told'[e] - (IF Lists(e)' THEN 0 ELSE 1)
        /\ Carries(w, e)' /\ ~Lists(e)' => changes' >= 1
        /\ Tells(w, e)' => changes' >= 2 * told'[e] + (IF Lists(e)' THEN 0 ELSE 1)
    BY <2>2, <2>3, <2>4, <2>5
  <2> QED BY <2>4, <2>6 DEF RunPaid
<1>10. \A e \in Events : p # e[1] => RunPaid(w, e)'
  BY <1>3 DEF RunPaid, p
<1> QED BY <1>1, <1>5, <1>8, <1>9, <1>10, AccountsStay, OneWorkerMoves

\* A record of an ASN is one of the provider that wrote it, and of the answer a.
WroteOwn(w, rs, a, e) ==
  \/ asns'[e[2]] = asns[e[2]] /\ ~(\E r \in rs : P(w) = e[1] /\ r.key = e[2])
  \/ /\ P(w) # e[1]
     /\ asns'[e[2]] # None /\ asns'[e[2]].provider # e[1]
  \/ /\ P(w) = e[1] /\ asns'[e[2]] # None
     /\ asns'[e[2]].provider = e[1]
     /\ \E r \in rs : /\ r.key = e[2] /\ asns'[e[2]].view = r.view
                      /\ asns'[e[2]] = [provider |-> e[1], view |-> r.view]
                      /\ \A s \in Batch(Format[P(w)], a) : s.key = e[2] => s = r

LEMMA WrittenRows ==
  ASSUME Tables, NEW w \in Workers, P(w) \in Providers, ~IsThreat(P(w)), NEW rs,
         NEW a \in ToSet(Answers[P(w)]), rs \subseteq Batch(Format[P(w)], a),
         Written(w, rs), NEW e \in Events, Singular(e), ~IsThreat(e[1])
  PROVE  WroteOwn(w, rs, a, e)
<1> DEFINE k == e[2]
           C == CHOOSE r \in rs : r.kind = "asn" /\ r.key = k
<1>1. k \in Keys
  BY EventParts
<1>2. asns'[k] = IF \E r \in rs : r.kind = "asn" /\ r.key = k
                   THEN [provider |-> P(w), view |-> C.view] ELSE asns[k]
  BY <1>1 DEF Written
<1>3. CASE \E r \in rs : r.kind = "asn" /\ r.key = k
  <2>1. C \in rs /\ C.kind = "asn" /\ C.key = k
    BY <1>3
  <2> HIDE DEF C
  <2>2. Event(P(w), C) \in Events
    BY <2>1, ListedIsEvent
  <2>3. Event(P(w), C)[3] = C.view
    BY DEF Event
  <2>4. C.view \in {f[3] : f \in Events}
    BY <2>2, <2>3
  <2>5. [provider |-> P(w), view |-> C.view] \in [provider : Providers, view : {f[3] : f \in Events}]
    BY <2>4
  <2>6. asns'[k] # None /\ asns'[k].provider = P(w) /\ asns'[k].view = C.view
        /\ asns'[k] = [provider |-> P(w), view |-> C.view]
    BY <1>2, <1>3, <2>5, ProvidersAssumption
  <2>7. ASSUME P(w) = e[1] PROVE \A s \in Batch(Format[P(w)], a) : s.key = e[2] => s = C
    BY <2>1, <2>7, OneRecord
  <2> QED BY <2>1, <2>6, <2>7 DEF WroteOwn
<1>4. CASE ~(\E r \in rs : r.kind = "asn" /\ r.key = k)
  <2>1. asns'[k] = asns[k]
    BY <1>2, <1>4
  <2>2. ASSUME P(w) = e[1], NEW r \in rs, r.key = e[2] PROVE FALSE
    BY <1>4, <2>2, OneRecord
  <2> QED BY <2>1, <2>2 DEF WroteOwn
<1> QED BY <1>3, <1>4

\* Whatever part of the batch is written, the announcements so far stay paid for.
LEMMA WritingIsPaid ==
  ASSUME Tables, InTurn, NEW w \in Workers, P(w) \in Providers, At(w, "put"),
         NEW rs \in SUBSET run[w].batch, Written(w, rs),
         UNCHANGED <<answer, told, changes>>
  PROVE  \A e \in Events : ~IsThreat(e[1]) /\ Singular(e) => Paid(e)'
<1> SUFFICES ASSUME NEW e \in Events, ~IsThreat(e[1]), Singular(e) PROVE Paid(e)'
  OBVIOUS
<1>1. PICK a \in ToSet(Answers[P(w)]) : run[w].batch = Batch(Format[P(w)], a)
  BY DEF At, InTurn, Flight, InHand
<1>2. ~IsThreat(P(w)) /\ InHand(w)
  BY DEF At, InTurn, Flight, InHand
<1>3. Paid(e) /\ RunPaid(w, e) /\ told[e] \in Nat /\ changes \in Nat
  BY DEF InTurn, Settled, Tables
<1>4. Lists(e)' <=> Lists(e)
  BY DEF Lists
<1>5. /\ told[e] > 0 => asns[e[2]] # None
      /\ told[e] > 0 => changes >= 2 * told[e] - (IF Lists(e) THEN 2 ELSE 1)
      /\ told[e] > 0 /\ Other(e) => changes >= 2 * told[e] - (IF Lists(e) THEN 0 ELSE 1)
  BY <1>3 DEF Paid
<1>0. WroteOwn(w, rs, a, e)
  <2>1. rs \subseteq Batch(Format[P(w)], a)
    BY <1>1
  <2> QED BY <1>2, <2>1, WrittenRows
<1>6. told[e] > 0 => asns'[e[2]] # None
  BY <1>5, <1>0 DEF WroteOwn
<1>7. ASSUME told[e] > 0, Other(e)'
      PROVE  changes >= 2 * told[e] - (IF Lists(e) THEN 0 ELSE 1)
  <2>1. CASE asns'[e[2]] = asns[e[2]]
    <3>1. Other(e)
      BY <1>7, <2>1 DEF Other
    <3> QED BY <1>5, <1>7, <3>1
  <2>2. CASE asns'[e[2]].provider = e[1] /\ P(w) = e[1]
             /\ \E r \in rs : /\ r.key = e[2] /\ asns'[e[2]].view = r.view
                              /\ \A s \in Batch(Format[P(w)], a) : s.key = e[2] => s = r
    <3>1. PICK r \in rs : /\ r.key = e[2] /\ asns'[e[2]].view = r.view
                          /\ \A s \in Batch(Format[P(w)], a) : s.key = e[2] => s = r
      BY <2>2
    <3>2. r.view # e[3]
      BY <1>7, <3>1 DEF Other
    <3>3. ~Carries(w, e)
      <4> SUFFICES ASSUME NEW s \in run[w].batch, Event(e[1], s) = e PROVE FALSE
        BY DEF Carries
      <4>1. s.key = e[2] /\ s.view = e[3]
        BY DEF Event
      <4> QED BY <1>1, <3>1, <3>2, <4>1
    <3> QED BY <1>2, <1>3, <1>7, <2>2, <3>3 DEF RunPaid
  <2>3. asns'[e[2]].provider = e[1]
    BY <1>7 DEF Other
  <2> QED BY <1>0, <2>1, <2>2, <2>3 DEF WroteOwn
<1>8. /\ told'[e] > 0 => asns'[e[2]] # None
      /\ told'[e] > 0 => changes' >= 2 * told'[e] - (IF Lists(e)' THEN 2 ELSE 1)
      /\ told'[e] > 0 /\ Other(e)' => changes' >= 2 * told'[e] - (IF Lists(e)' THEN 0 ELSE 1)
  BY <1>4, <1>5, <1>6, <1>7
<1> QED BY <1>8 DEF Paid

LEMMA PutInTurn ==
  ASSUME ManualInv, Tables, InTurn, NEW w \in Workers, Put(w)
  PROVE  InTurn'
<1>1. \A v \in Workers : v # w => run'[v].pc = "idle"
  BY OthersIdle DEF Put, At, Within, Sync, ManualInv
<1>2. Stays(w, "tell", run[w].batch, run[w].news)
  BY RunMoves DEF Put, ManualInv
<1>3. /\ P(w)' = P(w) /\ run'[w].pc = "tell" /\ run'[w].batch = run[w].batch
      /\ run'[w].news = run[w].news
  BY <1>2, SameJob
<1>4. PICK a \in ToSet(Answers[P(w)]) : run[w].batch = Batch(Format[P(w)], a)
  BY DEF Put, At, InTurn, Flight, InHand
<1>5. /\ UNCHANGED <<answer, told, changes>> /\ run[w].pc = "put" /\ Written(w, run[w].batch)
      /\ ~IsThreat(P(w)) /\ run[w].news \subseteq run[w].batch
  BY DEF Put, At, world, data, InTurn, Flight, InHand
<1>6. P(w) \in Providers
  BY <1>5, HasJob DEF ManualInv
<1>7. \A e \in Events : ~IsThreat(e[1]) /\ Singular(e) => Paid(e)'
  BY <1>5, <1>6, WritingIsPaid DEF At
<1>8. Flight(w)'
  BY <1>3, <1>4, <1>5 DEF Flight, InHand, At
<1>9. ASSUME NEW e \in Events, ~IsThreat(e[1]), Singular(e), P(w) = e[1]
      PROVE  RunPaid(w, e)'
  <2>1. RunPaid(w, e) /\ InHand(w) /\ told' = told /\ changes' = changes
    BY <1>5, <1>9 DEF InTurn, Settled, InHand
  <2>2. (Lists(e)' <=> Lists(e)) /\ (Carries(w, e)' <=> Carries(w, e))
    BY <1>3, <1>5 DEF Carries, Lists
  <2>3. Tells(w, e)' <=> Tells(w, e)
    BY <1>3, <1>5 DEF Tells, At
  <2>4. /\ ~Carries(w, e) /\ told[e] > 0 => changes >= 2 * told[e] - (IF Lists(e) THEN 0 ELSE 1)
        /\ Carries(w, e) /\ ~Lists(e) => changes >= 1
        /\ Tells(w, e) => changes >= 2 * told[e] + (IF Lists(e) THEN 0 ELSE 1)
    BY <1>9, <2>1 DEF RunPaid
  <2>5. /\ ~Carries(w, e)' /\ told'[e] > 0 => changes' >= 2 * told'[e] - (IF Lists(e)' THEN 0 ELSE 1)
        /\ Carries(w, e)' /\ ~Lists(e)' => changes' >= 1
        /\ Tells(w, e)' => changes' >= 2 * told'[e] + (IF Lists(e)' THEN 0 ELSE 1)
    BY <2>1, <2>2, <2>3, <2>4
  <2>6. ASSUME Tells(w, e) PROVE asns'[e[2]] = [provider |-> e[1], view |-> e[3]]
    <3>1. PICK r \in run[w].news : Event(e[1], r) = e
      BY <1>5, <2>6 DEF Tells, At
    <3>2. r.key = e[2] /\ r.view = e[3] /\ r \in run[w].batch
      BY <1>5, <3>1 DEF Event
    <3> DEFINE rs == run[w].batch
    <3>3. /\ Written(w, rs) /\ rs \subseteq Batch(Format[P(w)], a)
          /\ P(w) = e[1] /\ r \in rs /\ r \in Batch(Format[P(w)], a)
      BY <1>4, <1>5, <1>9, <3>2
    <3> HIDE DEF rs
    <3>4. WroteOwn(w, rs, a, e)
      BY <1>5, <1>6, <1>9, <3>3, WrittenRows
    <3>5. \E t \in rs : /\ asns'[e[2]] = [provider |-> e[1], view |-> t.view]
                       /\ \A s \in Batch(Format[P(w)], a) : s.key = e[2] => s = t
      BY <1>9, <3>2, <3>3, <3>4 DEF WroteOwn
    <3> QED BY <3>2, <3>3, <3>5
  <2> QED BY <2>3, <2>5, <2>6 DEF RunPaid
<1>10. \A e \in Events : P(w) # e[1] => RunPaid(w, e)'
  BY <1>3 DEF RunPaid
<1>11. \A e \in Events : IsThreat(e[1]) => told'[e] = 0
  BY <1>5 DEF InTurn, Settled
<1> QED BY <1>1, <1>7, <1>8, <1>9, <1>10, <1>11, OneWorkerMoves

LEMMA WriteFailsInTurn ==
  ASSUME ManualInv, Tables, InTurn, NEW w \in Workers, WriteFails(w)
  PROVE  InTurn'
<1>1. \A v \in Workers : v # w => run'[v].pc = "idle"
  BY OthersIdle DEF WriteFails, At, Within, ManualInv
<1>2. Stays(w, "fail", run[w].batch, run[w].news)
  BY RunMoves DEF WriteFails, ManualInv
<1>3. UNCHANGED <<answer, told, changes>>
  BY DEF WriteFails, world
<1>4. CASE UNCHANGED asns
  BY <1>1, <1>2, <1>3, <1>4, Lands DEF Landed, Stays
<1>5. ASSUME At(w, "put"), NEW part \in SUBSET run[w].batch, Written(w, part) PROVE InTurn'
  <2>1. P(w) \in Providers
    BY <1>5, HasJob DEF ManualInv, At
  <2>2. \A e \in Events : ~IsThreat(e[1]) /\ Singular(e) => Paid(e)'
    BY <1>3, <1>5, <2>1, WritingIsPaid
  <2>3. Flight(w)' /\ \A e \in Events : RunPaid(w, e)'
    BY <1>2 DEF Stays, Flight, RunPaid, InHand, At
  <2>4. \A e \in Events : IsThreat(e[1]) => told'[e] = 0
    BY <1>3 DEF InTurn, Settled
  <2> QED BY <1>1, <2>2, <2>3, <2>4, OneWorkerMoves
<1> QED BY <1>4, <1>5 DEF WriteFails

\* An event that is told has been paid for on the way.
LEMMA TellInTurn ==
  ASSUME ManualInv, Tables, InTurn, NEW w \in Workers, At(w, "tell"),
         TellNews(w) \/ EventLost(w) \/ RiskUnwritten(w)
  PROVE  InTurn'
<1>1. \A v \in Workers : v # w => run'[v].pc = "idle"
  BY OthersIdle DEF At, Within, Sync, ManualInv
<1>2. \E pc \in {"succeed", "fail"} : Stays(w, pc, run[w].batch, run[w].news)
  BY RunMoves DEF TellNews, EventLost, RiskUnwritten, ManualInv
<1>3. Flight(w)' /\ \A e \in Events : RunPaid(w, e)'
  BY <1>2 DEF Stays, Flight, RunPaid, InHand, At
<1>4. UNCHANGED <<answer, asns, changes>> /\ run[w].pc = "tell" /\ ~IsThreat(P(w))
  BY DEF TellNews, EventLost, RiskUnwritten, world, At, InTurn, Flight, InHand
<1>9. PICK heard \in SUBSET run[w].news : Tell({Event(P(w), r) : r \in heard})
  BY DEF TellNews, EventLost, RiskUnwritten, Walked, News
<1> DEFINE es == {Event(P(w), r) : r \in heard}
<1>5. \A e \in Events : told'[e] = IF e \in es /\ told[e] < Lag THEN told[e] + 1 ELSE told[e]
  BY <1>9 DEF Tell
<1>6. ASSUME NEW e \in Events, e \in es
      PROVE  P(w) = e[1] /\ Tells(w, e)
  <2>1. PICK r \in run[w].news : e = Event(P(w), r)
    BY <1>6
  <2>2. e[1] = P(w)
    BY <2>1 DEF Event
  <2> QED BY <1>4, <2>1, <2>2 DEF Tells, At
<1> HIDE DEF es
<1>7. ASSUME NEW e \in Events, ~IsThreat(e[1]), Singular(e) PROVE Paid(e)'
  <2>1. Paid(e) /\ RunPaid(w, e) /\ told[e] \in Nat /\ changes \in Nat
    BY <1>7 DEF InTurn, Settled, Tables
  <2>2. (Lists(e)' <=> Lists(e)) /\ (Other(e)' <=> Other(e)) /\ changes' = changes
    BY <1>4 DEF Lists, Other
  <2>3. CASE e \notin es
    <3>1. told'[e] = told[e]
      BY <1>5, <2>3
    <3> QED BY <1>4, <2>1, <2>2, <3>1 DEF Paid
  <2>4. CASE e \in es
    <3>1. /\ changes >= 2 * told[e] + (IF Lists(e) THEN 0 ELSE 1)
          /\ asns[e[2]] = [provider |-> e[1], view |-> e[3]]
      BY <1>4, <1>6, <2>1, <2>4 DEF RunPaid, InHand, At
    <3>2. told'[e] \in {told[e], told[e] + 1}
      BY <1>5
    <3>3. ~Other(e)
      BY <3>1 DEF Other
    <3>4. asns[e[2]] # None
      <4>1. e[1] \in Providers /\ e[3] \in {f[3] : f \in Events}
        BY EventParts
      <4>2. [provider |-> e[1], view |-> e[3]] \in [provider : Providers, view : {f[3] : f \in Events}]
        BY <4>1
      <4> QED BY <3>1, <4>2, ProvidersAssumption
    <3>5. changes' >= 2 * told'[e] - (IF Lists(e)' THEN 2 ELSE 1)
      BY <2>1, <2>2, <3>1, <3>2
    <3> QED BY <1>4, <2>2, <3>3, <3>4, <3>5 DEF Paid
  <2> QED BY <2>3, <2>4
<1>8. \A e \in Events : IsThreat(e[1]) => told'[e] = 0
  BY <1>4, <1>5, <1>6 DEF InTurn, Settled
<1> QED BY <1>1, <1>3, <1>7, <1>8, OneWorkerMoves

\* A change of an answer pays for what it makes possible.
LEMMA ChangeInTurn ==
  ASSUME Tables, InTurn, Change
  PROVE  InTurn'
<1>1. UNCHANGED <<asns, told, run, rows>> /\ changes' = changes + 1
  BY DEF Change, data
<1>2. (\A w \in Workers : Flight(w)') /\ \A v, w \in Busy' : v = w
  BY <1>1 DEF InTurn, Flight, InHand, At, P, Job, Row, Busy, IsThreat
<1>3. ASSUME NEW e \in Events, ~IsThreat(e[1]), Singular(e)
      PROVE  Paid(e)' /\ \A w \in Workers : RunPaid(w, e)'
  <2>1. Paid(e) /\ told[e] \in Nat /\ changes \in Nat /\ told' = told
    BY <1>1, <1>3 DEF InTurn, Settled, Tables
  <2>2. /\ (Other(e)' <=> Other(e)) /\ asns' = asns
        /\ \A w \in Workers : /\ Carries(w, e)' <=> Carries(w, e)
                              /\ Tells(w, e)' <=> Tells(w, e)
    BY <1>1 DEF Other, Carries, Tells, At
  <2>3. Paid(e)'
    <3>1. /\ told[e] > 0 => asns[e[2]] # None
          /\ told[e] > 0 => changes >= 2 * told[e] - 2
          /\ told[e] > 0 /\ Other(e) => changes >= 2 * told[e] - 1
      BY <2>1 DEF Paid
    <3>2. /\ told'[e] > 0 => changes' >= 2 * told'[e] - (IF Lists(e)' THEN 2 ELSE 1)
          /\ told'[e] > 0 /\ Other(e)' => changes' >= 2 * told'[e] - (IF Lists(e)' THEN 0 ELSE 1)
      BY <1>1, <2>1, <2>2, <3>1
    <3> QED BY <1>1, <3>1, <3>2 DEF Paid
  <2>4. ASSUME NEW w \in Workers, InHand(w)', P(w)' = e[1] PROVE RunPaid(w, e)'
    <3>1. RunPaid(w, e) /\ InHand(w) /\ P(w) = e[1] /\ (At(w, "tell")' <=> At(w, "tell"))
      BY <1>1, <1>3, <2>4 DEF InTurn, Settled, InHand, P, Job, At
    <3>2. /\ ~Carries(w, e) /\ told[e] > 0 => changes >= 2 * told[e] - 1
          /\ Tells(w, e) => changes >= 2 * told[e]
          /\ Tells(w, e) /\ At(w, "tell") => asns[e[2]] = [provider |-> e[1], view |-> e[3]]
      BY <2>1, <3>1 DEF RunPaid
    <3>3. /\ ~Carries(w, e)' /\ told'[e] > 0 => changes' >= 2 * told'[e] - (IF Lists(e)' THEN 0 ELSE 1)
          /\ Carries(w, e)' /\ ~Lists(e)' => changes' >= 1
          /\ Tells(w, e)' => changes' >= 2 * told'[e] + (IF Lists(e)' THEN 0 ELSE 1)
      BY <1>1, <2>1, <2>2, <3>2
    <3> QED BY <2>2, <3>1, <3>2, <3>3 DEF RunPaid
  <2>5. \A w \in Workers : RunPaid(w, e)'
    BY <2>4 DEF RunPaid
  <2> QED BY <2>3, <2>5
<1>4. \A e \in Events : Settled(e)'
  BY <1>1, <1>3 DEF InTurn, Settled, Singular, IsThreat
<1> QED BY <1>2, <1>4 DEF InTurn

\* The steps that leave the provider, or have not come to one, announce nothing.
LEMMA LandsInTurn ==
  ASSUME ManualInv, InTurn, ~overlapped', NEW w \in Workers,
         \/ Begin(w) \/ Claim(w) \/ Release(w) \/ Skip(w) \/ Refuse(w) \/ Conclude(w)
         \/ CallFails(w) \/ ClaimFails(w) \/ ReleaseFails(w) \/ ConcludeUnwritten(w) \/ Crash(w)
  PROVE  InTurn'
<1>1. UNCHANGED <<answer, asns, told, changes>>
  BY DEF Begin, Claim, Release, Skip, Refuse, Conclude, CallFails, ClaimFails, ReleaseFails,
         ConcludeUnwritten, Crash, world, data
<1>2. \A v \in Workers : v # w => run'[v].pc = "idle"
  <2>1. CASE Begin(w)
    <3>1. \A v \in Workers : run[v].pc = "idle"
      BY <2>1 DEF Begin, Busy, At
    <3>2. \A v \in Workers : v # w => run'[v] = run[v]
      BY <2>1 DEF Begin, Go, ManualInv, Shaped
    <3> QED BY <3>1, <3>2
  <2>2. CASE Claim(w) \/ Release(w) \/ Skip(w) \/ Refuse(w) \/ Conclude(w) \/ CallFails(w)
             \/ ClaimFails(w) \/ ReleaseFails(w) \/ ConcludeUnwritten(w) \/ Crash(w)
    <3>1. ~At(w, "idle")
      BY <2>2 DEF Claim, Release, Skip, Refuse, Conclude, CallFails, ClaimFails,
                  ReleaseFails, ConcludeUnwritten, Crash, Starts, At
    <3>2. Within(w) \/ Release(w) \/ Crash(w) \/ ReleaseFails(w)
      BY <2>2 DEF Within, Sync
    <3> QED BY <3>1, <3>2, OthersIdle DEF ManualInv
  <2> QED BY <2>1, <2>2
<1>3. w \in DOMAIN run /\ RunShaped(run[w])
  BY DEF ManualInv, Shaped
<1>4. run'[w].pc \in {"idle", "claim", "next", "succeed", "fail"}
  <2>1. CASE Begin(w) \/ Refuse(w) \/ CallFails(w)
    <3>1. PICK pc \in {"claim", "fail"} : Go(w, pc)
      BY <2>1 DEF Begin, Refuse, CallFails
    <3>2. Stays(w, pc, run[w].batch, run[w].news)
      BY <1>3, <3>1, RunMoves DEF ManualInv
    <3> QED BY <3>1, <3>2 DEF Stays
  <2>2. CASE Release(w) \/ Crash(w) \/ ReleaseFails(w)
    BY <1>3, <2>2 DEF Release, Crash, ReleaseFails, Idle
  <2>3. ASSUME NEW todo, NEW b, NEW n,
               \/ run'[w] = [run[w] EXCEPT !.pc = "next", !.todo = todo, !.batch = b, !.news = n]
               \/ run'[w] = [run[w] EXCEPT !.pc = "next", !.todo = todo]
        PROVE  run'[w].pc = "next"
    <3> DEFINE r == run[w]
               T == {r.todo}
    <3>1. r \in [pc : Steps, todo : T, batch : {r.batch}, news : {r.news}]
      BY <1>3 DEF RunShaped
    <3> HIDE DEF r, T
    <3>2. \/ run'[w] = [r EXCEPT !.pc = "next", !.todo = todo, !.batch = b, !.news = n]
          \/ run'[w] = [r EXCEPT !.pc = "next", !.todo = todo]
      BY <2>3 DEF r
    <3> QED BY <3>1, <3>2
  <2>4. CASE Claim(w) \/ ClaimFails(w)
    <3>1. PICK todo \in {Asked(Pending) \o Jobs(w), Jobs(w)} :
            run'[w] = [run[w] EXCEPT !.pc = "next", !.todo = todo]
      BY <1>3, <2>4 DEF Claim, ClaimFails
    <3> QED BY <2>3, <3>1
  <2>5. CASE Skip(w) \/ Conclude(w) \/ ConcludeUnwritten(w)
    <3>1. run'[w] = Rest(w)
      BY <1>3, <2>5 DEF Skip, Conclude, ConcludeUnwritten
    <3>2. Rest(w) = [run[w] EXCEPT !.pc = "next", !.todo = Tail(run[w].todo), !.batch = {}, !.news = {}]
      BY DEF Rest
    <3> QED BY <2>3, <3>1, <3>2
  <2> QED BY <2>1, <2>2, <2>4, <2>5
<1> QED BY <1>1, <1>2, <1>4, Lands DEF Landed

\* An overlap is never forgotten; until there is one, every step is of the run that is
\* in progress, or of nobody's.
LEMMA AnnounceStep == AnnounceInv /\ [Next]_vars => AnnounceInv'
<1> SUFFICES ASSUME AnnounceInv, [Next]_vars PROVE AnnounceInv'
  OBVIOUS
<1>1. ManualInv' /\ Tables'
  BY ManualStep, TablesStep DEF AnnounceInv
<1>2. overlapped => overlapped'
  <2>1. ASSUME NEW w \in Workers, Within(w) PROVE UNCHANGED overlapped
    BY <2>1, WithinKeepsTheLock DEF AnnounceInv, ManualInv, redis
  <2>2. ASSUME NEW w \in Workers,
               \/ Begin(w) \/ Release(w) \/ Crash(w) \/ AcquireFails(w) \/ ReleaseFails(w)
               \/ DueAgain(w)
        PROVE  overlapped => overlapped'
    BY <2>2 DEF Begin, Release, Crash, AcquireFails, ReleaseFails, DueAgain, redis
  <2>3. CASE LockEnds \/ Change \/ UNCHANGED vars \/ \E p \in Requests : Queue(p)
    BY <2>3 DEF LockEnds, Change, vars, Queue, redis
  <2> QED BY <2>1, <2>2, <2>3 DEF Next, Step, Within
<1>3. CASE ~overlapped'
  <2>1. ManualInv /\ Tables /\ InTurn
    BY <1>2, <1>3 DEF AnnounceInv
  <2>2. ASSUME NEW w \in Workers, \/ Step(w) \/ ReleaseFails(w) \/ ClaimFails(w) \/ CallFails(w)
                 \/ WriteFails(w) \/ EventLost(w) \/ RiskUnwritten(w)
                 \/ ConcludeUnwritten(w) \/ Crash(w)
        PROVE  InTurn'
    <3>1. Consume(w) => At(w, "consume")
      BY DEF Consume
    <3>2. TellNews(w) => At(w, "tell")
      BY DEF TellNews
    <3>3. EventLost(w) \/ RiskUnwritten(w) => At(w, "consume") \/ At(w, "tell")
      BY DEF EventLost, RiskUnwritten, Walked, At
    <3> QED
      BY <1>3, <2>1, <2>2, <3>1, <3>2, <3>3, LandsInTurn, FetchInTurn, StoreInTurn,
         ConsumeInTurn, CheckInTurn, PutInTurn, TellInTurn, WriteFailsInTurn DEF Step, Sync
  <2>3. ASSUME Change PROVE InTurn'
    BY <2>1, <2>3, ChangeInTurn
  <2>4. ASSUME UNCHANGED <<answer, rows, asns, told, run, changes>> PROVE InTurn'
    <3>1. \A e \in Events : Settled(e)'
      BY <2>1, <2>4, PaidStays
         DEF InTurn, Settled, Singular, IsThreat, RunPaid, InHand, P, Job, Carries, Tells, At
    <3> QED BY <2>1, <2>4, <3>1 DEF InTurn, Flight, InHand, At, P, Job, Row, Busy, IsThreat
  <2>5. ASSUME NEW w \in Workers, DueAgain(w) \/ AcquireFails(w) PROVE InTurn'
    BY <2>4, <2>5 DEF DueAgain, AcquireFails, world, data
  <2>6. ASSUME LockEnds \/ UNCHANGED vars \/ \E p \in Requests : Queue(p) PROVE InTurn'
    BY <2>4, <2>6 DEF LockEnds, vars, Queue, world, data
  <2>7. InTurn'
    BY <2>2, <2>3, <2>5, <2>6 DEF Next
  <2> QED BY <1>1, <2>7 DEF AnnounceInv
<1> QED BY <1>1, <1>3 DEF AnnounceInv

\* At first no event has been told and no worker is at a provider.
LEMMA AnnounceInit == Init => AnnounceInv
<1> SUFFICES ASSUME Init PROVE AnnounceInv
  OBVIOUS
<1>1. Tables
  <2>1. ASSUME NEW p \in Providers PROVE Head(Answers[p]) \in ToSet(Answers[p])
    <3>1. Answers[p] \in Seq(ToSet(Answers[p])) /\ Answers[p] # <<>>
      BY ProvidersAssumption
    <3> QED BY <3>1
  <2> QED BY <2>1 DEF Init, Tables
<1>2. \A w \in Workers : run[w] = Idle
  BY DEF Init
<1>3. \A e \in Events : told[e] = 0
  BY DEF Init
<1>4. \A w \in Workers : Landed(w) /\ At(w, "idle")
  BY <1>2 DEF Landed, Idle, At
<1>5. \A w \in Workers : Flight(w) /\ \A e : RunPaid(w, e)
  BY <1>4, NothingInFlight
<1>6. InTurn
  BY <1>3, <1>4, <1>5 DEF InTurn, Settled, Paid, Busy
<1> QED BY <1>1, <1>6, ManualInit DEF AnnounceInv

\* For any providers, answers and changes: while runs take turns a threat feed's new
\* indicator is never announced, and a view of an ASN by one provider once, and once more
\* for every two changes, which leave the view and come back to it; another provider's
\* view of the ASN is no reason, nor is a failed write or a lost event
\* (asn_record_differs, consume_network and consume).
THEOREM ViewsAnnouncedOnce == Spec => []AnnouncedOnce
<1>1. AnnounceInv => AnnouncedOnce
  <2> SUFFICES ASSUME AnnounceInv, ~overlapped, NEW e \in Events, Singular(e)
               PROVE  2 * told[e] <= 2 + changes
    BY DEF AnnouncedOnce
  <2>1. told[e] \in Nat /\ changes \in Nat /\ Settled(e)
    BY DEF AnnounceInv, InTurn, Tables
  <2>2. CASE IsThreat(e[1])
    BY <2>1, <2>2 DEF Settled
  <2>3. CASE ~IsThreat(e[1])
    BY <2>1, <2>3 DEF Settled, Paid
  <2> QED BY <2>2, <2>3
<1> QED BY <1>1, AnnounceInit, AnnounceStep, PTL DEF Spec
===============================================================================
