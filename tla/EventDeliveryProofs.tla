------------------------ MODULE EventDeliveryProofs ------------------------
(***************************************************************************)
(* The path of an event, in three parts.                                   *)
(*                                                                         *)
(* EventDelivery: IInv is inductive - failed deliveries stay claimable     *)
(* until they are dead letters, and while batches end in time no two       *)
(* processes share one.  The rows then implement the at-least-once queue,  *)
(* unless a consumer reports success for what it failed to handle.         *)
(*                                                                         *)
(* Incidents: incidents stay in step with the candidates they were         *)
(* promoted from, and with one process of the correlation service the      *)
(* candidates of a key stay separate episodes.                             *)
(*                                                                         *)
(* SensorIngress: no security event is lost in silence or published twice. *)
(*                                                                         *)
(* What the three share is declared once, in Backbone and Faults; each     *)
(* theorem is about the specification it names.                            *)
(***************************************************************************)
EXTENDS EventDelivery, Incidents, SensorIngress, FiniteSetTheorems, TLAPS

USE DeliveryAssumption

\* What a claim takes, whatever the limit: the argument needs no more of it.
LEMMA TakenIsClaimable ==
  ASSUME NEW c \in Consumers, NEW taken \in Claimable(c)
  PROVE  taken \subseteq Stale(c) \cup Ready(c)
  BY DEF Claimable

\* The invariant holds at the start.
LEMMA InitInv == Init => IInv
<1> SUFFICES ASSUME Init PROVE IInv
  OBVIOUS
<1>1. TypeOK
  BY DEF Init, TypeOK, Status, Deliveries
<1> QED
  BY <1>1 DEF Init, IInv, AttemptsAccounted, RowsArePublished, BatchesAreClaims,
     SuccessIsHandled, OneHolder

\* Processes and rows have their types, and no claim exceeds MaxAttempts.
LEMMA TypeStep ==
  ASSUME TypeOK, RowsArePublished, SuccessIsHandled, [Next]_vars
  PROVE  TypeOK'
<1> USE DEF TypeOK, Status
<1>1. ASSUME NEW p \in Processes, Start(p)
      PROVE  TypeOK'
  BY <1>1 DEF Start, Register, rowVars
<1>2. ASSUME NEW p \in Processes, Claim(p)
      PROVE  TypeOK'
  <2>1. PICK taken \in Claimable(ConsumerOf[p]) :
          /\ status' = [d \in Deliveries |-> IF d \in taken THEN "processing" ELSE status[d]]
          /\ attempts' = [d \in Deliveries |-> IF d \in taken THEN attempts[d] + 1 ELSE attempts[d]]
          /\ fresh' = [d \in Deliveries |-> IF d \in taken THEN StaleAfter ELSE fresh[d]]
          /\ \/ batch' = [batch EXCEPT ![p] = taken] /\ UNCHANGED faults
             \/ taken # {} /\ Fault /\ UNCHANGED batch
    BY <1>2 DEF Claim
  <2>2. taken \subseteq Deliveries /\ \A d \in taken : attempts[d] < MaxAttempts
    BY <2>1, TakenIsClaimable DEF Stale, Ready
  <2>3. attempts' \in [Deliveries -> 0..MaxAttempts]
    BY <2>1, <2>2
  <2>4. status' \in [Deliveries -> Status] /\ fresh' \in [Deliveries -> 0..StaleAfter]
    BY <2>1
  <2>5. batch' \in [Processes -> SUBSET Deliveries] /\ faults' \in 0..MaxFaults
    BY <2>1, <2>2 DEF Fault
  <2> QED
    BY <1>2, <2>3, <2>4, <2>5 DEF Claim, Register
<1>3. ASSUME NEW p \in Processes, Handle(p)
      PROVE  TypeOK'
  <2>1. PICK d \in batch[p], ok \in BOOLEAN :
          /\ current' = [current EXCEPT ![p] = d]
          /\ success' = [success EXCEPT ![p] = ok]
          /\ handled' = handled \cup {d} \/ handled' = handled
    BY <1>3 DEF Handle
  <2>2. success' \in [Processes -> BOOLEAN]
    BY <2>1, Zenon
  <2>3. current' \in [Processes -> Deliveries \cup {None}] /\ handled' \subseteq Deliveries
    BY <2>1
  <2> QED
    BY <1>3, <2>2, <2>3 DEF Handle, rowVars
<1>4. ASSUME NEW p \in Processes, Report(p)
      PROVE  TypeOK'
  <2>1. /\ success' = [success EXCEPT ![p] = FALSE]
        /\ current' = [current EXCEPT ![p] = None]
        /\ UNCHANGED <<enabled, published, attempts, fresh, up, handled>>
    BY <1>4 DEF Report, Proceed
  <2>2. batch' \in [Processes -> SUBSET Deliveries] /\ faults' \in 0..MaxFaults
    BY <1>4 DEF Report, Proceed, Fault
  <2>3. PICK d \in Deliveries, s \in Status, n \in 0..Backoff :
          status' = [status EXCEPT ![d] = s] /\ wait' = [wait EXCEPT ![d] = n]
    <3>1. wait[current[p]] \in 0..Backoff /\ Backoff \in 0..Backoff
      BY <1>4 DEF Report
    <3> QED
      BY <1>4, <3>1 DEF Report, Complete
  <2>4. status' \in [Deliveries -> Status] /\ wait' \in [Deliveries -> 0..Backoff]
    BY <2>3
  <2> QED
    BY <2>1, <2>2, <2>4
<1>5. ASSUME NEW p \in Processes, ReportRefused(p)
      PROVE  TypeOK'
  BY <1>5 DEF ReportRefused, Proceed, Fault
<1>6. ASSUME NEW p \in Processes, Crash(p)
      PROVE  TypeOK'
  BY <1>6 DEF Crash, Fault, rowVars
<1>7. ASSUME NEW e \in Events, Publish(e)
      PROVE  TypeOK'
  BY <1>7 DEF Publish, processVars
<1>8. CASE Tick
  BY <1>8 DEF Tick, Less, processVars
<1>9. CASE UNCHANGED vars
  BY <1>9 DEF vars, rowVars, processVars
<1> QED
  BY <1>1, <1>2, <1>3, <1>4, <1>5, <1>6, <1>7, <1>8, <1>9 DEF Next, Poll

\* The parts of IInv that tie attempts, statuses and batches together.
LEMMA InvStep ==
  ASSUME IInv, [Next]_vars
  PROVE  IInv'
<1>0. TypeOK'
  BY TypeStep DEF IInv
<1> USE DEF IInv, AttemptsAccounted, RowsArePublished, BatchesAreClaims, SuccessIsHandled,
        OneHolder
<1>1. ASSUME NEW p \in Processes, Start(p)
      PROVE  IInv'
  BY <1>0, <1>1 DEF Start, rowVars
<1>2. ASSUME NEW p \in Processes, Claim(p)
      PROVE  IInv'
  <2>1. PICK taken \in Claimable(ConsumerOf[p]) :
          /\ status' = [d \in Deliveries |-> IF d \in taken THEN "processing" ELSE status[d]]
          /\ attempts' = [d \in Deliveries |-> IF d \in taken THEN attempts[d] + 1 ELSE attempts[d]]
          /\ fresh' = [d \in Deliveries |-> IF d \in taken THEN StaleAfter ELSE fresh[d]]
          /\ \/ batch' = [batch EXCEPT ![p] = taken] /\ UNCHANGED faults
             \/ taken # {} /\ Fault /\ UNCHANGED batch
    BY <1>2 DEF Claim
  <2>2. /\ taken \subseteq Deliveries
        /\ \A d \in taken : \/ status[d] = "processing" /\ fresh[d] = 0
                            \/ status[d] \in {"pending", "failed"}
    BY <2>1, TakenIsClaimable DEF TypeOK, Stale, Ready
  <2>3. UNCHANGED <<published, current, success, handled>> /\ batch[p] = {}
    BY <1>2 DEF Claim
  <2>4. AttemptsAccounted' /\ RowsArePublished'
    BY <2>1, <2>2, <2>3 DEF TypeOK
  <2>5. \A q \in Processes \ {p} : batch'[q] = batch[q]
    BY <2>1 DEF TypeOK
  <2>6. batch'[p] = taken \/ batch'[p] = {}
    BY <2>1, <2>3 DEF TypeOK
  <2>7. BatchesAreClaims'
    <3>1. ASSUME NEW q \in Processes, NEW d \in batch'[q]
          PROVE  /\ status'[d] # "none"
                 /\ BoundedIO => status'[d] = "processing" /\ fresh'[d] > 0
      <4>1. CASE d \in taken
        BY <2>1, <2>2, <4>1
      <4>2. CASE d \notin taken
        <5>1. d \in batch[q] /\ d \in Deliveries
          BY <2>3, <2>5, <2>6, <4>2 DEF TypeOK
        <5> QED
          BY <2>1, <4>2, <5>1
      <4> QED
        BY <4>1, <4>2
    <3> QED
      BY <3>1
  <2>8. BoundedIO => OneHolder'
    <3> SUFFICES ASSUME BoundedIO, NEW q \in Processes, NEW r \in Processes,
                        NEW d \in batch'[q] \cap batch'[r]
                 PROVE  q = r
      OBVIOUS
    <3>1. \A s \in Processes \ {p} : d \in batch'[s] => d \notin taken
      BY <2>2, <2>5
    <3> QED
      BY <2>3, <2>5, <2>6, <3>1
  <2>9. SuccessIsHandled'
    BY <2>3, <2>5
  <2> QED
    BY <1>0, <2>4, <2>7, <2>8, <2>9
<1>3. ASSUME NEW p \in Processes, Handle(p)
      PROVE  IInv'
  BY <1>0, <1>3 DEF Handle, rowVars, TypeOK
<1>4. ASSUME NEW p \in Processes, Report(p)
      PROVE  IInv'
  <2>1. /\ batch' \in [Processes -> SUBSET Deliveries]
        /\ \A q \in Processes \ {p} : batch'[q] = batch[q] /\ current'[q] = current[q]
                                      /\ success'[q] = success[q]
        /\ batch'[p] \subseteq batch[p] \ {current[p]}
        /\ current'[p] = None
        /\ UNCHANGED <<published, attempts, fresh, handled>>
    BY <1>0, <1>4 DEF Report, Proceed, TypeOK
  <2>2. /\ current[p] \in Deliveries
        /\ status[current[p]] = "processing"
        /\ status'[current[p]] \in {"processed", "dead", "failed"}
        /\ status'[current[p]] = "dead" => attempts[current[p]] >= MaxAttempts
        /\ status'[current[p]] = "failed" => ~(attempts[current[p]] >= MaxAttempts)
        /\ \A d \in Deliveries \ {current[p]} : status'[d] = status[d]
    BY <1>4 DEF Report, Complete, TypeOK
  <2>3. AttemptsAccounted' /\ RowsArePublished'
    BY <2>1, <2>2 DEF TypeOK
  <2>4. SuccessIsHandled'
    BY <2>1
  <2>5. \A q \in Processes : batch'[q] \subseteq batch[q]
    BY <2>1
  <2>6. BoundedIO => OneHolder'
    BY <2>5
  <2>7. BatchesAreClaims'
    <3>1. ASSUME NEW q \in Processes, NEW d \in batch'[q]
          PROVE  /\ status'[d] # "none"
                 /\ BoundedIO => status'[d] = "processing" /\ fresh'[d] > 0
      <4>1. CASE d = current[p]
        <5>1. q # p /\ d \in batch[q]
          BY <2>1, <4>1
        <5>2. d \in batch[p]
          BY <1>4, <4>1 DEF Report
        <5>3. ~BoundedIO
          BY <5>1, <5>2
        <5> QED
          BY <2>2, <4>1, <5>3
      <4>2. CASE d # current[p]
        BY <2>1, <2>2, <2>5, <4>2 DEF TypeOK
      <4> QED
        BY <4>1, <4>2
    <3> QED
      BY <3>1
  <2> QED
    BY <1>0, <2>3, <2>4, <2>6, <2>7
<1>5. ASSUME NEW p \in Processes, ReportRefused(p)
      PROVE  IInv'
  BY <1>0, <1>5 DEF ReportRefused, Proceed, TypeOK
<1>6. ASSUME NEW p \in Processes, Crash(p)
      PROVE  IInv'
  BY <1>0, <1>6 DEF Crash, rowVars, TypeOK
<1>7. ASSUME NEW e \in Events, Publish(e)
      PROVE  IInv'
  <2>1. \A d \in Deliveries :
          \/ status'[d] = status[d]
          \/ status[d] = "none" /\ status'[d] = "pending" /\ d[1] = e
    BY <1>7 DEF Publish
  <2>2. /\ published' = published \cup {e}
        /\ UNCHANGED <<attempts, fresh, batch, current, success, handled>>
    BY <1>7 DEF Publish, processVars
  <2>3. AttemptsAccounted' /\ RowsArePublished'
    BY <2>1, <2>2 DEF TypeOK
  <2>4. BatchesAreClaims' /\ SuccessIsHandled' /\ (BoundedIO => OneHolder')
    BY <2>1, <2>2 DEF TypeOK
  <2> QED
    BY <1>0, <2>3, <2>4
<1>8. CASE Tick
  BY <1>0, <1>8 DEF Tick, Less, processVars, TypeOK
<1>9. CASE UNCHANGED vars
  BY <1>0, <1>9 DEF vars, rowVars, processVars
<1> QED
  BY <1>1, <1>2, <1>3, <1>4, <1>5, <1>6, <1>7, <1>8, <1>9 DEF Next, Poll

\* A failed delivery stays claimable until it is a dead letter, and the types hold.
THEOREM InductiveInv == Spec => []IInv
  BY InitInv, InvStep, PTL DEF Spec

\* The deliveries, claims and processes have their types (the event_deliveries rows).
THEOREM DeliveryTypes == Spec => []TypeOK
<1>1. IInv => TypeOK
  BY DEF IInv
<1> QED
  BY <1>1, InductiveInv, PTL

\* complete_event_delivery and the claim statements agree on the number of attempts.
THEOREM AttemptsNeverStrand == Spec => []AttemptsAccounted
<1>1. IInv => AttemptsAccounted
  BY DEF IInv
<1> QED
  BY <1>1, InductiveInv, PTL

\* Two processes of a consumer never work on the same delivery while every batch is
\* worked off before its claim goes stale.
THEOREM HoldersAreExclusive == ASSUME BoundedIO PROVE Spec => []OneHolder
<1>1. IInv => OneHolder
  BY DEF IInv
<1> QED
  BY <1>1, InductiveInv, PTL

-----------------------------------------------------------------------------

\* Every step is one of the queue's or leaves it alone.
LEMMA QueueStep ==
  ASSUME IInv, Careless = {}, [Next]_vars
  PROVE  [Queue!Next]_(Queue!vars)
<1> DEFINE open  == {d \in Deliveries : status[d] \in {"pending", "processing", "failed"}}
           done  == {d \in Deliveries : status[d] = "processed"}
           dead  == {d \in Deliveries : status[d] = "dead"}
<1> SUFFICES \/ Queue!Next
             \/ open' = open /\ done' = done /\ dead' = dead /\ handled' = handled
  BY DEF Queue!vars
<1>1. ASSUME NEW p \in Processes, Start(p) \/ Crash(p) \/ ReportRefused(p)
      PROVE  UNCHANGED <<status, handled>>
  BY <1>1 DEF Start, Crash, ReportRefused, Proceed, rowVars
<1>2. ASSUME NEW p \in Processes, Claim(p)
      PROVE  open' = open /\ done' = done /\ dead' = dead /\ handled' = handled
  <2>1. PICK taken \in Claimable(ConsumerOf[p]) :
          status' = [d \in Deliveries |-> IF d \in taken THEN "processing" ELSE status[d]]
    BY <1>2 DEF Claim
  <2>2. \A d \in taken : status[d] \in {"pending", "processing", "failed"}
    BY <2>1, TakenIsClaimable DEF IInv, TypeOK, Stale, Ready
  <2>3. handled' = handled
    BY <1>2 DEF Claim
  <2> QED
    BY <2>1, <2>2, <2>3
<1>3. ASSUME NEW p \in Processes, Handle(p)
      PROVE  Queue!Next \/ UNCHANGED <<status, handled>>
  <2>1. PICK d \in batch[p] : handled' = handled \cup {d} \/ handled' = handled
    BY <1>3 DEF Handle
  <2>2. d \in Deliveries /\ status[d] # "none"
    BY <2>1 DEF IInv, TypeOK, BatchesAreClaims
  <2>3. status' = status
    BY <1>3 DEF Handle, rowVars
  <2>4. status[d] \in Status
    BY <2>2 DEF IInv, TypeOK
  <2>5. d \in open \cup done \cup dead
    BY <2>2, <2>4 DEF Status
  <2>6. CASE handled' = handled \cup {d}
    BY <2>2, <2>3, <2>5, <2>6 DEF Queue!Next, Queue!Handle
  <2> QED
    BY <2>1, <2>3, <2>6
<1>4. ASSUME NEW p \in Processes, Report(p)
      PROVE  Queue!Next \/ (open' = open /\ done' = done /\ dead' = dead /\ handled' = handled)
  <2> DEFINE c == current[p]
  <2>1. /\ c \in Deliveries /\ c # None
        /\ status[c] = "processing"
        /\ status' = [status EXCEPT ![c] =
             IF success[p] THEN "processed" ELSE IF attempts[c] >= MaxAttempts THEN "dead" ELSE "failed"]
        /\ handled' = handled
    BY <1>4 DEF Report, Complete, Proceed, IInv, TypeOK
  <2>2. status \in [Deliveries -> Status]
    BY DEF IInv, TypeOK
  <2>3. c \in open
    BY <2>1
  <2> HIDE DEF c
  <2>4. CASE success[p]
    <3>1. c \in handled
      BY <2>1, <2>4 DEF IInv, SuccessIsHandled, c
    <3>2. open' = open \ {c} /\ done' = done \cup {c} /\ dead' = dead
      BY <2>1, <2>2, <2>4
    <3> QED
      BY <2>1, <2>3, <3>1, <3>2 DEF Queue!Next, Queue!Settle
  <2>5. CASE ~success[p] /\ attempts[c] >= MaxAttempts
    <3>1. open' = open \ {c} /\ done' = done /\ dead' = dead \cup {c}
      BY <2>1, <2>2, <2>5
    <3> QED
      BY <2>1, <2>3, <3>1 DEF Queue!Next, Queue!GiveUp
  <2>6. CASE ~success[p] /\ ~(attempts[c] >= MaxAttempts)
    BY <2>1, <2>2, <2>6
  <2> QED
    BY <2>4, <2>5, <2>6
<1>5. ASSUME NEW e \in Events, Publish(e)
      PROVE  Queue!Next
  <2> DEFINE new == {d \in Deliveries : d[1] = e /\ d[2] \in enabled}
  <2>1. \A d \in new : status[d] = "none"
    BY <1>5 DEF Publish, IInv, RowsArePublished
  <2>2. new \cap (open \cup done \cup dead) = {}
    BY <2>1
  <2>3. status' = [d \in Deliveries |-> IF d \in new THEN "pending" ELSE status[d]]
    BY <1>5 DEF Publish
  <2> HIDE DEF new
  <2>4. new \subseteq Deliveries
    BY DEF new
  <2>5. open' = open \cup new /\ done' = done /\ dead' = dead
    BY <2>1, <2>3, <2>4
  <2>6. handled' = handled
    BY <1>5 DEF Publish
  <2> QED
    BY <2>2, <2>4, <2>5, <2>6 DEF Queue!Next, Queue!Accept
<1>6. CASE Tick
  BY <1>6 DEF Tick
<1>7. CASE UNCHANGED vars
  BY <1>7 DEF vars, rowVars
<1> QED
  BY <1>1, <1>2, <1>3, <1>4, <1>5, <1>6, <1>7 DEF Next, Poll

\* Whatever crashes, slow consumers and lost answers do, no delivery is lost, marked
\* processed unhandled, or settled twice - if no consumer belies its failures.
THEOREM DeliveryIsAtLeastOnce ==
  ASSUME Careless = {} PROVE Spec => AtLeastOnceDelivery
<1>1. Init => Queue!Init
  BY DEF Init, Queue!Init
<1> QED
  BY <1>1, InductiveInv, QueueStep, PTL DEF Spec, AtLeastOnceDelivery, Queue!Spec

HIDE DeliveryAssumption

-----------------------------------------------------------------------------
(* Correlation, incidents and alerts *)

(* Largest and smallest members *)

\* A finite set of numbers has a largest member.
LEMMA LargestMember ==
  ASSUME NEW S \in SUBSET Nat, S # {}, IsFiniteSet(S)
  PROVE  Max(S) \in S /\ \A i \in S : i <= Max(S)
<1> DEFINE Above(m) == {i \in S : i > m}
           bad == {n \in Nat : \E m \in S : Cardinality(Above(m)) = n}
           R == OpToRel(<, Nat)
<1>1. \A m \in S : IsFiniteSet(Above(m)) /\ Cardinality(Above(m)) \in Nat
  <2> TAKE m \in S
  <2>1. IsFiniteSet(Above(m))
    BY FS_Subset
  <2> QED BY <2>1, FS_CardinalityType
<1>2. bad \subseteq Nat /\ bad # {}
  BY <1>1
<1>3. PICK n \in bad : \A k \in bad : <<k, n>> \notin R
  <2> HIDE DEF bad, R
  <2>1. IsWellFoundedOn(R, Nat)
    BY NatLessThanWellFounded DEF R
  <2> QED BY <2>1, <1>2, WFMin
<1>4. PICK m \in S : Cardinality(Above(m)) = n
  OBVIOUS
<1>5. Above(m) = {}
  <2> SUFFICES ASSUME NEW k \in Above(m) PROVE FALSE
    OBVIOUS
  <2>0. k \in S /\ m < k /\ S \subseteq Nat
    OBVIOUS
  <2>1. Above(k) \subseteq Above(m) \ {k}
    <3> SUFFICES ASSUME NEW i \in S, i > k PROVE i > m /\ i # k
      OBVIOUS
    <3>1. i \in Nat /\ k \in Nat /\ m \in Nat
      BY <2>0
    <3> QED BY <3>1, <2>0
  <2>2. IsFiniteSet(Above(m) \ {k}) /\ Cardinality(Above(m) \ {k}) = n - 1
    BY <1>1, <1>4, FS_RemoveElement
  <2>3. Cardinality(Above(k)) <= n - 1
    BY <2>1, <2>2, FS_Subset
  <2>4. Cardinality(Above(k)) \in bad
    BY <2>0, <1>1
  <2>5. Cardinality(Above(k)) < n
    BY <2>0, <2>3, <1>1
  <2> QED BY <2>4, <2>5, <1>2, <1>3 DEF OpToRel
<1>6. \A i \in S : m >= i
  <2> SUFFICES ASSUME NEW i \in S PROVE m >= i
    OBVIOUS
  <2>1. i \in Nat /\ m \in Nat /\ ~(i > m)
    BY <1>5
  <2> QED BY <2>1
<1>7. Max(S) \in S /\ \A i \in S : Max(S) >= i
  BY <1>6 DEF Max
<1> QED BY <1>7

\* The values of a function on a finite set are finitely many.
LEMMA FiniteImage ==
  ASSUME NEW S, IsFiniteSet(S), NEW f, DOMAIN f = S, f = [x \in S |-> f[x]]
  PROVE  IsFiniteSet({f[x] : x \in S})
<1> DEFINE T == {f[x] : x \in S}
<1>1. f \in [S -> T] /\ \A t \in T : \E x \in S : f[x] = t
  OBVIOUS
<1> HIDE DEF T
<1>2. f \in Surjection(S, T)
  BY <1>1 DEF Surjection
<1>3. IsFiniteSet(T)
  BY <1>2, FS_Surjection
<1> QED BY <1>3 DEF T

\* A set of numbers has a smallest member.
LEMMA SmallestMember ==
  ASSUME NEW S \in SUBSET Nat, S # {}
  PROVE  Min(S) \in S /\ \A i \in S : Min(S) <= i
<1> DEFINE R == OpToRel(<, Nat)
<1>1. PICK m \in S : \A k \in S : <<k, m>> \notin R
  <2> HIDE DEF R
  <2>1. IsWellFoundedOn(R, Nat)
    BY NatLessThanWellFounded DEF R
  <2> QED BY <2>1, WFMin
<1>2. \A k \in S : m <= k
  <2> SUFFICES ASSUME NEW k \in S PROVE m <= k
    OBVIOUS
  <2>1. k \in Nat /\ m \in Nat /\ ~(k < m)
    BY <1>1 DEF OpToRel
  <2> QED BY <2>1
<1> QED BY <1>2 DEF Min

\* The later, and the earlier, of two times.
LEMMA OfTwo ==
  ASSUME NEW a \in Nat, NEW b \in Nat
  PROVE  /\ Max({a, b}) \in {a, b} /\ Max({a, b}) >= a /\ Max({a, b}) >= b
         /\ Min({a, b}) \in Nat
<1>1. \E x \in {a, b} : \A y \in {a, b} : x >= y
  OBVIOUS
<1>2. Min({a, b}) \in {a, b}
  BY SmallestMember
<1> QED BY <1>1, <1>2 DEF Max

-----------------------------------------------------------------------------
(* What correlation asks to keep *)

\* A confidence is one of the eight of `correlate`.
LEMMA Confidence ==
  ASSUME NEW e, NEW f
  PROVE  Correlate(e, f).conf \in Nat
BY DEF Correlate

\* derive_outcome keeps the confidence between 0 and 100.
LEMMA OutcomeBounded ==
  ASSUME NEW es, es # {}, IsFiniteSet(es), NEW confs \in SUBSET Nat, IsFiniteSet(confs)
  PROVE  Outcome(es, confs).conf \in 0..100
<1> DEFINE types == {Attr[e].type : e \in es}
           n == Cardinality(types)
           m == Max(confs \cup {0})
           conf == m + 4 * (n - 1)
<1>1. IsFiniteSet(types) /\ n \in Nat
  <2> DEFINE f == [e \in es |-> Attr[e].type]
  <2>1. IsFiniteSet({f[e] : e \in es})
    <3> HIDE DEF f
    <3>1. DOMAIN f = es /\ f = [e \in es |-> f[e]]
      BY DEF f
    <3> QED BY <3>1, FiniteImage
  <2>2. types = {f[e] : e \in es}
    OBVIOUS
  <2> HIDE DEF f, types
  <2>3. IsFiniteSet(types)
    BY <2>1, <2>2
  <2> QED BY <2>3, FS_CardinalityType DEF types
<1>2. n # 0
  BY <1>1, FS_EmptySet
<1>3. m \in Nat
  <2> DEFINE S == confs \cup {0}
  <2>1. IsFiniteSet(S) /\ S \in SUBSET Nat /\ S # {}
    BY FS_AddElement
  <2> HIDE DEF S
  <2>2. Max(S) \in Nat
    BY <2>1, LargestMember
  <2> QED BY <2>2 DEF S
<1>4. Outcome(es, confs).conf = IF conf > 100 THEN 100 ELSE conf
  BY  DEF Outcome
<1> HIDE DEF m, n
<1> QED BY <1>1, <1>2, <1>3, <1>4

\* What a correlator remembers to write.
ReqShaped(r) ==
  /\ r.events \in SUBSET published /\ r.out.conf \in 0..100
  /\ r.first \in Nat /\ r.last \in Nat /\ r.first <= r.last

\* What correlate and derive_outcome ask to keep is in order: it begins before it ends.
LEMMA RequestShaped ==
  ASSUME published \subseteq Events, NEW e \in published, NEW key, NEW strong \in SUBSET published
  PROVE  ReqShaped(Request(e, key, strong))
<1> DEFINE es == {e} \cup strong
           confs == {Correlate(e, f).conf : f \in strong}
           times == {Attr[f].at : f \in es}
           r == Request(e, key, strong)
<1>1. IsFiniteSet(strong) /\ IsFiniteSet(es)
  BY FS_Subset, EventsAssumption
<1>2. confs \in SUBSET Nat /\ IsFiniteSet(confs)
  <2>1. confs \in SUBSET Nat
    BY Confidence
  <2> DEFINE g == [f \in strong |-> Correlate(e, f).conf]
  <2>2. confs = {g[f] : f \in strong}
    OBVIOUS
  <2>3. DOMAIN g = strong /\ g = [f \in strong |-> g[f]]
    OBVIOUS
  <2> HIDE DEF g, confs
  <2> QED BY <2>1, <2>2, <2>3, <1>1, FiniteImage
<1>3. times \in SUBSET Nat /\ IsFiniteSet(times) /\ times # {}
  <2> DEFINE g == [f \in es |-> Attr[f].at]
  <2>2. times = {g[f] : f \in es} /\ DOMAIN g = es /\ g = [f \in es |-> g[f]]
    OBVIOUS
  <2>1. IsFiniteSet(times)
    <3> HIDE DEF g, times, es
    <3> QED BY <2>2, <1>1, FiniteImage
  <2> QED BY <2>1, EventsAssumption
<1>4. r.out.conf \in 0..100
  <2>1. r.out = Outcome(es, confs)
    BY DEF Request
  <2> HIDE DEF confs, es, r
  <2>2. es # {}
    BY DEF es
  <2> QED BY <2>1, <2>2, <1>1, <1>2, OutcomeBounded
<1>5. r.first = Min(times) /\ r.last = Max(times) /\ r.events = es
  BY DEF Request
<1> HIDE DEF r, times
<1>6. r.first \in Nat /\ r.last \in Nat /\ r.first <= r.last
  <2>1. Max(times) \in times
    BY <1>3, LargestMember
  <2>2. Min(times) \in times /\ Min(times) <= Max(times)
    BY <1>3, <2>1, SmallestMember
  <2> QED BY <1>3, <1>5, <2>1, <2>2
<1>7. r.events \in SUBSET published
  BY <1>5
<1>8. ReqShaped(r)
  BY <1>4, <1>6, <1>7 DEF ReqShaped
<1> QED BY <1>8 DEF r
-----------------------------------------------------------------------------
(* Incidents in step with their candidates *)

CandShaped(x) ==
  x \in [status : {"none", "open", "promoted"}, key : {x.key}, sev : {x.sev}, conf : 0..100,
         summary : {x.summary}, first : Nat, last : Nat, events : SUBSET published]

\* An incident relates an event at most once, and only events of its candidate.
IncShaped(i, es) ==
  /\ i \in [status : {i.status}, sev : {i.sev}, conf : {i.conf}, summary : {i.summary},
            related : [Events -> {0, 1}], times : {i.times}]
  /\ \A e \in Events : i.related[e] = 1 => e \in es

CorrShaped(x) ==
  /\ x \in [pc : {"idle", "find", "write", "ack"}, event : {x.event}, req : {x.req},
            cand : 0..MaxCandidates]
  /\ x.pc # "idle" => x.event \in published
  /\ x.pc \in {"find", "write"} => ReqShaped(x.req)

PromShaped(x) ==
  x \in [pc : {"idle", "commit", "announce"}, rows : SUBSET Candidates, queue : {x.queue}]

WorldInv ==
  /\ published \subseteq Events /\ acked \subseteq published
  /\ DOMAIN alerts \subseteq Events /\ faults \in 0..MaxFaults

TableInv ==
  /\ candidates = [c \in Candidates |-> candidates[c]]
  /\ incidents = [c \in Candidates |-> incidents[c]]
  /\ \A c \in Candidates :
       /\ CandShaped(candidates[c]) /\ IncShaped(incidents[c], candidates[c].events)
       /\ candidates[c].status = "none" => incidents[c] = NoIncident
  /\ PromotedInSync

ServiceInv ==
  /\ corr = [p \in Correlators |-> corr[p]] /\ prom = [q \in Promoters |-> prom[q]]
  /\ \A p \in Correlators : CorrShaped(corr[p])
  /\ \A q \in Promoters :
       /\ PromShaped(prom[q])
       /\ \A c \in prom[q].rows : candidates[c].status # "none"

SyncInv == WorldInv /\ TableInv /\ ServiceInv

\* The rows outside: events are added, acknowledged events are published.
LEMMA WorldStep ==
  SyncInv /\ [IncidentNext]_incidentVars => WorldInv' /\ published \subseteq published'
<1> SUFFICES ASSUME SyncInv, [IncidentNext]_incidentVars PROVE WorldInv' /\ published \subseteq published'
  OBVIOUS
<1> USE DEF SyncInv, WorldInv
<1>1. ASSUME NEW e \in Events, Produce(e)
      PROVE  WorldInv' /\ published \subseteq published'
  BY <1>1 DEF Produce, RecordEvent, PublishEvent, Enqueue, GroupAlert, InsertAlert
<1>2. ASSUME Fault PROVE faults' \in 0..MaxFaults
  BY <1>2, BoundsAssumption DEF Fault
<1>3. ASSUME NEW e \in Events, ProducerFails(e)
      PROVE  WorldInv' /\ published \subseteq published'
  BY <1>2, <1>3 DEF ProducerFails
<1>4. ASSUME NEW p \in Correlators, CorrStep(p)
      PROVE  WorldInv' /\ published \subseteq published'
  <2>1. CASE Ack(p)
    <3>1. corr[p].event \in published
      BY <2>1 DEF Ack, ServiceInv, CorrShaped
    <3> QED BY <2>1, <3>1 DEF Ack
  <2>2. CASE \E e \in Events : Read(p, e)
    BY <2>2 DEF Read
  <2>3. CASE Find(p) \/ Write(p)
    BY <2>3 DEF Find, Write
  <2> QED BY <1>4, <2>1, <2>2, <2>3 DEF CorrStep
<1>5. ASSUME NEW p \in Correlators, CorrelatorFails(p)
      PROVE  WorldInv' /\ published \subseteq published'
  BY <1>2, <1>5 DEF CorrelatorFails
<1>6. ASSUME NEW q \in Promoters, PromStep(q)
      PROVE  WorldInv' /\ published \subseteq published'
  <2>1. CASE Commit(q)
    <3>1. DOMAIN alerts' = DOMAIN alerts
      BY <2>1 DEF Commit
    <3> QED BY <2>1, <3>1 DEF Commit
  <2> QED BY <1>6, <2>1 DEF PromStep, Select, Announce
<1>7. ASSUME NEW q \in Promoters, PromoterFails(q)
      PROVE  WorldInv' /\ published \subseteq published'
  BY <1>2, <1>7 DEF PromoterFails
<1>8. ASSUME NEW c \in Candidates, NEW s, Transition(c, s)
      PROVE  WorldInv' /\ published \subseteq published'
  BY <1>2, <1>8 DEF Transition
<1>9. ASSUME NEW e, NEW s, SetAlert(e, s)
      PROVE  WorldInv' /\ published \subseteq published'
  BY <1>2, <1>9 DEF SetAlert
<1>10. CASE UNCHANGED incidentVars
  BY <1>10 DEF incidentVars
<1> QED BY <1>1, <1>3, <1>4, <1>5, <1>6, <1>7, <1>8, <1>9, <1>10 DEF IncidentNext

\* A candidate that takes in a request keeps its shape.
LEMMA ExtendedShaped ==
  ASSUME NEW x, CandShaped(x), NEW r, ReqShaped(r)
  PROVE  LET y == Extended(x, r) IN
         /\ CandShaped(y) /\ y.status = "open" /\ y.key = x.key
         /\ y.events = x.events \cup r.events /\ y.last >= x.last /\ y.last >= r.last
<1> DEFINE sev == Max({x.sev, r.out.sev})
           conf == Max({x.conf, r.out.conf})
           first == Min({x.first, r.first})
           last == Max({x.last, r.last})
           es == x.events \cup r.events
           y == Extended(x, r)
<1>1. x \in [status : {"none", "open", "promoted"}, key : {x.key}, sev : {x.sev}, conf : 0..100,
             summary : {x.summary}, first : Nat, last : Nat, events : SUBSET published]
  BY DEF CandShaped
<1>2. /\ conf \in 0..100 /\ first \in Nat /\ last \in Nat /\ es \in SUBSET published
      /\ last >= x.last /\ last >= r.last
  <2>1. /\ x.conf \in 0..100 /\ r.out.conf \in 0..100 /\ x.first \in Nat /\ r.first \in Nat
        /\ x.last \in Nat /\ r.last \in Nat
        /\ x.events \in SUBSET published /\ r.events \in SUBSET published
    BY <1>1 DEF ReqShaped
  <2>2. conf \in {x.conf, r.out.conf}
    <3>1. x.conf \in Nat /\ r.out.conf \in Nat
      BY <2>1
    <3> QED BY <3>1, OfTwo
  <2>3. last \in {x.last, r.last} /\ last >= x.last /\ last >= r.last
    BY <2>1, OfTwo
  <2>4. first \in Nat
    BY <2>1, OfTwo
  <2> QED BY <2>1, <2>2, <2>3, <2>4
<1>3. y = [x EXCEPT !.status = "open", !.sev = sev, !.conf = conf, !.summary = r.out.summary,
                    !.first = first, !.last = last, !.events = es]
  BY DEF Extended
<1> HIDE DEF sev, conf, first, last, es, y
<1>4. y = [status |-> "open", key |-> x.key, sev |-> sev, conf |-> conf,
           summary |-> r.out.summary, first |-> first, last |-> last, events |-> es]
  BY <1>1, <1>3
<1>5. CandShaped(y)
  BY <1>2, <1>4 DEF CandShaped
<1> QED BY <1>2, <1>4, <1>5 DEF y, es

\* A new candidate holds what was asked to keep.
LEMMA FreshShaped ==
  ASSUME NEW r, ReqShaped(r)
  PROVE  CandShaped(Fresh(r))
BY DEF CandShaped, Fresh, ReqShaped

\* Everything but writing a candidate, a promotion and an operator leaves candidates
\* and incidents alone; more published events are as good.
LEMMA TablesKept ==
  ASSUME TableInv, published \subseteq published', UNCHANGED <<candidates, incidents>>
  PROVE  TableInv'
<1>1. ASSUME NEW c \in Candidates PROVE CandShaped(candidates[c])'
  BY DEF TableInv, CandShaped
<1> QED BY <1>1 DEF TableInv, IncShaped, PromotedInSync

\* upsert_correlation_candidate: the candidate changes and its incident with it.
LEMMA TablesWritten ==
  ASSUME SyncInv, NEW p \in Correlators, Write(p)
  PROVE  TableInv'
<1> DEFINE r == corr[p].req
           new == {d \in Candidates : candidates[d].status = "none"}
           c == IF corr[p].cand # 0 THEN corr[p].cand ELSE Min(new)
           y == IF corr[p].cand # 0 THEN Extended(candidates[c], r) ELSE Fresh(r)
<1>1. ReqShaped(r) /\ corr[p].cand \in 0..MaxCandidates
  BY DEF SyncInv, ServiceInv, CorrShaped, Write
<1>2. c \in Candidates /\ (corr[p].cand = 0 => c \in new)
  <2>1. corr[p].cand # 0 \/ new # {}
    BY DEF Write
  <2>2. new \in SUBSET Nat
    BY BoundsAssumption DEF Candidates
  <2> HIDE DEF new
  <2>3. corr[p].cand = 0 => Min(new) \in new
    BY <2>1, <2>2, SmallestMember
  <2> QED BY <2>3, <1>1, BoundsAssumption DEF Candidates, new
<1>3. candidates' = [candidates EXCEPT ![c] = y] /\ UNCHANGED <<incidents, published>>
  BY DEF Write
<1> HIDE DEF c, r, new
<1>4. CandShaped(y) /\ y.status = "open"
      /\ (corr[p].cand # 0 => candidates[c].events \subseteq y.events)
  <2>1. CandShaped(candidates[c])
    BY <1>2 DEF SyncInv, TableInv
  <2>2. CASE corr[p].cand # 0
    BY <1>1, <2>1, <2>2, ExtendedShaped
  <2>3. CASE corr[p].cand = 0
    BY <1>1, <2>3, FreshShaped DEF Fresh
  <2> QED BY <2>2, <2>3
<1>5. IncShaped(incidents[c], y.events)
  <2>1. IncShaped(incidents[c], candidates[c].events)
    BY <1>2 DEF SyncInv, TableInv
  <2>2. CASE corr[p].cand # 0
    BY <1>4, <2>1, <2>2 DEF IncShaped
  <2>3. CASE corr[p].cand = 0
    <3>1. incidents[c] = NoIncident
      BY <1>2, <2>3 DEF SyncInv, TableInv, new
    <3>2. \A e \in Events : incidents[c].related[e] = 0
      BY <3>1 DEF NoIncident
    <3> QED BY <2>1, <3>2 DEF IncShaped
  <2> QED BY <2>2, <2>3
<1> HIDE DEF y
<1>6. /\ candidates'[c] = y /\ candidates' = [d \in Candidates |-> candidates'[d]]
      /\ \A d \in Candidates \ {c} : candidates'[d] = candidates[d]
  BY <1>2, <1>3 DEF SyncInv, TableInv
<1>7. ASSUME NEW d \in Candidates
      PROVE  /\ CandShaped(candidates[d])' /\ IncShaped(incidents[d], candidates[d].events)'
             /\ candidates'[d].status = "none" => incidents'[d] = NoIncident
  <2>1. CandShaped(candidates'[d])
    BY <1>4, <1>6 DEF SyncInv, TableInv
  <2>2. CandShaped(candidates[d])'
    BY <2>1, <1>3 DEF CandShaped
  <2>3. IncShaped(incidents[d], candidates'[d].events)
    BY <1>5, <1>6 DEF SyncInv, TableInv
  <2>4. IncShaped(incidents[d], candidates[d].events)'
    BY <2>3, <1>3 DEF IncShaped
  <2>5. candidates'[d].status = "none" => incidents'[d] = NoIncident
    BY <1>3, <1>4, <1>6 DEF SyncInv, TableInv
  <2> QED BY <2>2, <2>4, <2>5
<1>8. PromotedInSync'
  BY <1>3, <1>4, <1>6 DEF SyncInv, TableInv, PromotedInSync
<1> QED BY <1>3, <1>6, <1>7, <1>8 DEF SyncInv, TableInv

\* A promotion makes an incident what its candidate is, relating each event once.
LEMMA PromotedShaped ==
  ASSUME NEW c, CandShaped(c), NEW i, IncShaped(i, c.events)
  PROVE  LET j == Promoted(i, c) IN
         /\ IncShaped(j, c.events) /\ j.sev = c.sev /\ j.conf = c.conf /\ j.summary = c.summary
         /\ \A e \in Events : j.related[e] = IF e \in c.events THEN 1 ELSE 0
<1> DEFINE stage == IF i.status = "none" THEN "detected" ELSE i.status
           dif == i.sev # c.sev \/ i.conf # c.conf \/ i.summary # c.summary
           times == IF i.status # "none" /\ dif THEN i.times + 1 ELSE i.times
           related == Related(i.related, c.events)
           j == Promoted(i, c)
<1>1. i \in [status : {i.status}, sev : {i.sev}, conf : {i.conf}, summary : {i.summary},
             related : [Events -> {0, 1}], times : {i.times}]
      /\ \A e \in Events : i.related[e] = 1 => e \in c.events
  BY DEF IncShaped
<1>2. related \in [Events -> {0, 1}]
      /\ \A e \in Events : related[e] = IF e \in c.events THEN 1 ELSE 0
  BY <1>1 DEF Related
<1>3. j = [i EXCEPT !.status = stage, !.sev = c.sev, !.conf = c.conf,
                    !.summary = c.summary, !.times = times, !.related = related]
  BY DEF Promoted
<1> HIDE DEF stage, dif, times, related, j
<1>4. j = [status |-> stage, sev |-> c.sev, conf |-> c.conf, summary |-> c.summary,
           related |-> related, times |-> times]
  BY <1>1, <1>3
<1>5. IncShaped(j, c.events)
  BY <1>2, <1>4 DEF IncShaped
<1> QED BY <1>2, <1>4, <1>5 DEF j

\* A promotion pass: each candidate it takes becomes or refreshes its incident.
LEMMA TablesPromoted ==
  ASSUME SyncInv, NEW q \in Promoters, Commit(q)
  PROVE  TableInv'
<1> DEFINE taking == prom[q].rows
<1>1. /\ incidents' = [c \in Candidates |->
           IF c \in taking THEN Promoted(incidents[c], candidates[c]) ELSE incidents[c]]
      /\ candidates' = [c \in Candidates |->
           IF c \in taking THEN [candidates[c] EXCEPT !.status = "promoted"] ELSE candidates[c]]
      /\ published' = published
  BY DEF Commit
<1> HIDE DEF taking
<1>2. ASSUME NEW c \in Candidates
      PROVE  /\ CandShaped(candidates'[c]) /\ IncShaped(incidents'[c], candidates'[c].events)
             /\ candidates'[c].status = "none" => incidents'[c] = NoIncident
             /\ candidates'[c].status = "promoted" =>
                  /\ incidents'[c].sev = candidates'[c].sev
                  /\ incidents'[c].conf = candidates'[c].conf
                  /\ incidents'[c].summary = candidates'[c].summary
                  /\ \A e \in Events :
                       incidents'[c].related[e] = IF e \in candidates'[c].events THEN 1 ELSE 0
  <2>1. CASE c \notin taking
    BY <1>1, <2>1 DEF SyncInv, TableInv, PromotedInSync
  <2>2. CASE c \in taking
    <3> DEFINE x == candidates[c]
               y == [x EXCEPT !.status = "promoted"]
               j == Promoted(incidents[c], x)
    <3>1. CandShaped(x) /\ IncShaped(incidents[c], x.events)
      BY DEF SyncInv, TableInv
    <3>2. candidates'[c] = y /\ incidents'[c] = j
      BY <1>1, <2>2
    <3> HIDE DEF x, j
    <3>3. /\ CandShaped(y) /\ y.status = "promoted" /\ y.sev = x.sev /\ y.conf = x.conf
          /\ y.summary = x.summary /\ y.events = x.events
      BY <3>1 DEF CandShaped
    <3>4. /\ IncShaped(j, x.events) /\ j.sev = x.sev /\ j.conf = x.conf /\ j.summary = x.summary
          /\ \A e \in Events : j.related[e] = IF e \in x.events THEN 1 ELSE 0
      BY <3>1, PromotedShaped DEF j
    <3> HIDE DEF y
    <3> QED BY <3>2, <3>3, <3>4
  <2> QED BY <2>1, <2>2
<1>3. \A c \in Candidates : CandShaped(candidates[c])'
  BY <1>1, <1>2 DEF CandShaped
<1>4. \A c \in Candidates : IncShaped(incidents[c], candidates[c].events)'
  BY <1>2 DEF IncShaped
<1>5. PromotedInSync'
  BY <1>2 DEF PromotedInSync
<1>6. candidates' = [c \in Candidates |-> candidates'[c]]
      /\ incidents' = [c \in Candidates |-> incidents'[c]]
  BY <1>1
<1> QED BY <1>2, <1>3, <1>4, <1>5, <1>6 DEF TableInv

\* An operator moves one incident to an allowed status.
LEMMA TablesMoved ==
  ASSUME SyncInv, NEW c \in Candidates, NEW s, Transition(c, s)
  PROVE  TableInv'
<1>1. /\ s \in Allowed(incidents[c].status) /\ incidents' = [incidents EXCEPT ![c].status = s]
      /\ UNCHANGED <<candidates, published>>
  BY DEF Transition
<1>2. incidents[c].status # "none" /\ candidates[c].status # "none"
  BY <1>1 DEF Allowed, SyncInv, TableInv, NoIncident
<1>3. /\ incidents' = [d \in Candidates |-> incidents'[d]]
      /\ incidents'[c] = [incidents[c] EXCEPT !.status = s]
      /\ \A d \in Candidates \ {c} : incidents'[d] = incidents[d]
  BY <1>1 DEF SyncInv, TableInv
<1>4. /\ IncShaped(incidents'[c], candidates[c].events)
      /\ incidents'[c].sev = incidents[c].sev /\ incidents'[c].conf = incidents[c].conf
      /\ incidents'[c].summary = incidents[c].summary
      /\ incidents'[c].related = incidents[c].related
  <2> DEFINE i == incidents[c]
             j == [i EXCEPT !.status = s]
  <2>1. IncShaped(i, candidates[c].events)
    BY DEF SyncInv, TableInv
  <2> HIDE DEF i
  <2>2. /\ IncShaped(j, candidates[c].events) /\ j.sev = i.sev /\ j.conf = i.conf
        /\ j.summary = i.summary /\ j.related = i.related
    BY <2>1 DEF IncShaped
  <2> QED BY <1>3, <2>2 DEF i
<1>5. ASSUME NEW d \in Candidates
      PROVE  /\ CandShaped(candidates[d])' /\ IncShaped(incidents[d], candidates[d].events)'
             /\ candidates'[d].status = "none" => incidents'[d] = NoIncident
  <2>1. CandShaped(candidates[d])'
    BY <1>1 DEF CandShaped, SyncInv, TableInv
  <2>2. IncShaped(incidents'[d], candidates[d].events)
    BY <1>3, <1>4 DEF SyncInv, TableInv
  <2>3. IncShaped(incidents[d], candidates[d].events)'
    BY <1>1, <2>2 DEF IncShaped
  <2> QED BY <1>1, <1>2, <1>3, <2>1, <2>3 DEF SyncInv, TableInv
<1>6. PromotedInSync'
  BY <1>1, <1>3, <1>4 DEF SyncInv, TableInv, PromotedInSync
<1> QED BY <1>1, <1>3, <1>5, <1>6 DEF SyncInv, TableInv

\* Some candidate of a set of them was seen last.
LEMMA NewestOf ==
  ASSUME TableInv, NEW fits \in SUBSET Candidates, fits # {}
  PROVE  LET d == CHOOSE d \in fits : \A f \in fits : candidates[d].last >= candidates[f].last
         IN  d \in fits /\ \A f \in fits : candidates[d].last >= candidates[f].last
<1> DEFINE g == [c \in fits |-> candidates[c].last]
           S == {g[c] : c \in fits}
<1>1. IsFiniteSet(fits)
  <2>1. IsFiniteSet(Candidates)
    BY FS_Interval, BoundsAssumption DEF Candidates
  <2> QED BY <2>1, FS_Subset
<1>2. IsFiniteSet(S)
  <2>1. DOMAIN g = fits /\ g = [c \in fits |-> g[c]]
    OBVIOUS
  <2> HIDE DEF g
  <2> QED BY <1>1, <2>1, FiniteImage
<1>3. S \in SUBSET Nat /\ S # {}
  <2>1. \A c \in fits : candidates[c].last \in Nat
    BY DEF TableInv, CandShaped
  <2> QED BY <2>1
<1>4. PICK c \in fits : \A f \in fits : g[f] <= g[c]
  <2> HIDE DEF g
  <2>1. Max(S) \in S /\ \A i \in S : i <= Max(S)
    <3> HIDE DEF S
    <3> QED BY <1>2, <1>3, LargestMember
  <2> QED BY <2>1
<1>5. \A f \in fits : candidates[c].last >= candidates[f].last
  <2> TAKE f \in fits
  <2>1. g[f] <= g[c] /\ g[f] \in Nat /\ g[c] \in Nat
    BY <1>3, <1>4
  <2> QED BY <2>1
<1> QED BY <1>5

\* The services, when one correlator or one promoter has moved and no candidate is gone.
LEMMA ServicesMoved ==
  ASSUME SyncInv, published \subseteq published',
         \A c \in Candidates : candidates[c].status # "none" => candidates'[c].status # "none",
         \/ UNCHANGED corr
         \/ \E p \in Correlators : \E x : corr' = [corr EXCEPT ![p] = x] /\ CorrShaped(x),
         \/ UNCHANGED prom
         \/ \E q \in Promoters : \E y : /\ prom' = [prom EXCEPT ![q] = y] /\ PromShaped(y)
                                        /\ \A c \in y.rows : candidates[c].status # "none"
  PROVE  ServiceInv'
<1>1. /\ corr' = [p \in Correlators |-> corr'[p]] /\ \A p \in Correlators : CorrShaped(corr'[p])
  BY DEF SyncInv, ServiceInv
<1>2. /\ prom' = [q \in Promoters |-> prom'[q]]
      /\ \A q \in Promoters : /\ PromShaped(prom'[q])
                              /\ \A c \in prom'[q].rows : candidates[c].status # "none"
  BY DEF SyncInv, ServiceInv
<1>3. \A p \in Correlators : CorrShaped(corr[p])'
  BY <1>1 DEF CorrShaped, ReqShaped
<1>4. \A q \in Promoters : PromShaped(prom[q])'
  BY <1>2 DEF PromShaped
<1>5. ASSUME NEW q \in Promoters, NEW c \in prom'[q].rows
      PROVE  candidates'[c].status # "none"
  <2>1. c \in Candidates
    BY <1>2 DEF PromShaped
  <2> QED BY <1>2, <2>1
<1> QED BY <1>1, <1>2, <1>3, <1>4, <1>5 DEF ServiceInv

\* A selection only takes rows there are.
LEMMA SelectShaped ==
  ASSUME SyncInv, NEW q \in Promoters, Select(q)
  PROVE  \E y : /\ prom' = [prom EXCEPT ![q] = y] /\ PromShaped(y)
                /\ \A c \in y.rows : candidates[c].status # "none"
<1> DEFINE open == {c \in Candidates : candidates[c].status = "open" /\ ~Locked(c)}
           y == [prom[q] EXCEPT !.pc = "commit", !.rows = open]
<1>1. prom' = [prom EXCEPT ![q] = y]
  BY DEF Select
<1>2. open \in SUBSET Candidates /\ \A c \in open : candidates[c].status # "none"
  OBVIOUS
<1>3. PromShaped(prom[q])
  BY DEF SyncInv, ServiceInv
<1> HIDE DEF open
<1>4. PromShaped(y) /\ y.rows = open
  BY <1>2, <1>3 DEF PromShaped
<1> HIDE DEF y
<1> QED BY <1>1, <1>2, <1>4

\* So do the other steps of a promoter, which let go of its rows or announce.
LEMMA PromoterShaped ==
  ASSUME SyncInv, NEW q \in Promoters, Commit(q) \/ Announce(q) \/ PromoterFails(q)
  PROVE  \E y : /\ prom' = [prom EXCEPT ![q] = y] /\ PromShaped(y)
                /\ \A c \in y.rows : candidates[c].status # "none"
<1>1. CASE Commit(q)
  <2>1. PICK due : prom' = [prom EXCEPT ![q] = [pc |-> IF due = {} THEN "idle" ELSE "announce",
                                               rows |-> {}, queue |-> due]]
    BY <1>1 DEF Commit
  <2> DEFINE y == [pc |-> IF due = {} THEN "idle" ELSE "announce", rows |-> {}, queue |-> due]
  <2>2. PromShaped(y) /\ y.rows = {}
    BY DEF PromShaped
  <2>3. prom' = [prom EXCEPT ![q] = y]
    BY <2>1
  <2> HIDE DEF y
  <2> QED BY <2>2, <2>3
<1>2. CASE Announce(q)
  <2>1. PICK rest : prom' = [prom EXCEPT ![q].queue = rest,
                                         ![q].pc = IF rest = {} THEN "idle" ELSE "announce"]
    BY <1>2 DEF Announce
  <2> DEFINE x == prom[q]
             y == [x EXCEPT !.queue = rest, !.pc = IF rest = {} THEN "idle" ELSE "announce"]
  <2>2. prom' = [prom EXCEPT ![q] = y]
    BY <2>1
  <2>3. PromShaped(x) /\ \A c \in x.rows : candidates[c].status # "none"
    BY DEF SyncInv, ServiceInv
  <2> HIDE DEF x
  <2>4. PromShaped(y) /\ y.rows = x.rows
    BY <2>3 DEF PromShaped
  <2> HIDE DEF y
  <2> QED BY <2>2, <2>3, <2>4
<1>3. CASE PromoterFails(q)
  <2>1. PromShaped(Waiting) /\ Waiting.rows = {}
    BY DEF PromShaped, Waiting
  <2>2. prom' = [prom EXCEPT ![q] = Waiting]
    BY <1>3 DEF PromoterFails
  <2> QED BY <2>1, <2>2
<1> QED BY <1>1, <1>2, <1>3

\* A correlator remembers a request it can write, and a candidate there is.
LEMMA CorrelatorShaped ==
  ASSUME SyncInv, NEW p \in Correlators, CorrStep(p) \/ CorrelatorFails(p)
  PROVE  \E x : corr' = [corr EXCEPT ![p] = x] /\ CorrShaped(x)
<1> DEFINE s == corr[p]
<1>1. CorrShaped(s) /\ 0 \in 0..MaxCandidates /\ Candidates \subseteq 0..MaxCandidates
  BY BoundsAssumption DEF SyncInv, ServiceInv, Candidates
<1>2. CASE Ack(p) \/ CorrelatorFails(p)
  BY <1>1, <1>2 DEF Ack, CorrelatorFails, CorrShaped, Idle
<1>3. ASSUME NEW e \in Events, Read(p, e)
      PROVE  \E x : corr' = [corr EXCEPT ![p] = x] /\ CorrShaped(x)
  <2>1. e \in published /\ published \subseteq Events
    BY <1>3 DEF Read, SyncInv, WorldInv
  <2>2. CASE corr' = [corr EXCEPT ![p] = [pc |-> "ack", event |-> e, req |-> None, cand |-> 0]]
    <3> DEFINE x == [pc |-> "ack", event |-> e, req |-> None, cand |-> 0]
    <3>1. CorrShaped(x)
      BY <1>1, <2>1 DEF CorrShaped
    <3>2. corr' = [corr EXCEPT ![p] = x]
      BY <2>2
    <3> HIDE DEF x
    <3> QED BY <3>1, <3>2
  <2>3. CASE \E key, strong : strong \in SUBSET published /\ corr' = [corr EXCEPT ![p] =
               [pc |-> "find", event |-> e, cand |-> 0, req |-> Request(e, key, strong)]]
    <3>1. PICK key, strong : strong \in SUBSET published /\ corr' = [corr EXCEPT ![p] =
            [pc |-> "find", event |-> e, cand |-> 0, req |-> Request(e, key, strong)]]
      BY <2>3
    <3>2. ReqShaped(Request(e, key, strong))
      BY <2>1, <3>1, RequestShaped
    <3> DEFINE x == [pc |-> "find", event |-> e, cand |-> 0, req |-> Request(e, key, strong)]
    <3>3. CorrShaped(x)
      BY <1>1, <2>1, <3>2 DEF CorrShaped
    <3>4. corr' = [corr EXCEPT ![p] = x]
      BY <3>1
    <3> HIDE DEF x
    <3> QED BY <3>3, <3>4
  <2>4. PICK found \in {{f \in published : Correlate(e, f).key # None}} :
          IF ~Correlatable(e) \/ (found = {} /\ Attr[e].resource = None)
          THEN corr' = [corr EXCEPT ![p] = [pc |-> "ack", event |-> e, req |-> None, cand |-> 0]]
          ELSE \E key \in {Key(e, found)} :
                 corr' = [corr EXCEPT ![p] =
                   [pc |-> "find", event |-> e, cand |-> 0,
                    req |-> Request(e, key, {f \in found : Correlate(e, f).key = key})]]
    BY <1>3 DEF Read
  <2>5. found \in SUBSET published
    BY <2>4
  <2> QED BY <2>2, <2>3, <2>4, <2>5
<1>4. CASE Find(p)
  <2>1. PICK c \in 0..MaxCandidates : corr' = [corr EXCEPT ![p].pc = "write", ![p].cand = c]
    <3> DEFINE fits == {c \in Candidates : Extends(s.req, c)}
               best == CHOOSE d \in fits : \A f \in fits : candidates[d].last >= candidates[f].last
    <3>1. CASE fits = {}
      BY <1>1, <1>4, <3>1 DEF Find
    <3>2. CASE fits # {}
      <4>1. corr' = [corr EXCEPT ![p].pc = "write", ![p].cand = best]
        BY <1>4, <3>2 DEF Find
      <4>2. best \in fits
        <5>1. TableInv /\ fits \in SUBSET Candidates
          BY DEF SyncInv
        <5> HIDE DEF fits
        <5> QED BY <3>2, <5>1, NewestOf
      <4> QED BY <1>1, <4>1, <4>2
    <3> QED BY <3>1, <3>2
  <2> DEFINE x == [s EXCEPT !.pc = "write", !.cand = c]
  <2>2. corr' = [corr EXCEPT ![p] = x]
    BY <2>1
  <2>3. s.pc = "find"
    BY <1>4 DEF Find
  <2> HIDE DEF s
  <2>4. CorrShaped(x)
    BY <1>1, <2>1, <2>3 DEF CorrShaped
  <2> HIDE DEF x
  <2> QED BY <2>2, <2>4
<1>5. CASE Write(p)
  <2> DEFINE x == [s EXCEPT !.pc = "ack", !.cand = 0]
  <2>2. corr' = [corr EXCEPT ![p] = x]
    BY <1>5 DEF Write
  <2>3. s.pc = "write"
    BY <1>5 DEF Write
  <2> HIDE DEF s
  <2>4. CorrShaped(x)
    BY <1>1, <2>3 DEF CorrShaped
  <2> HIDE DEF x
  <2> QED BY <2>2, <2>4
<1> QED BY <1>2, <1>3, <1>4, <1>5 DEF CorrStep

\* Every step of the services and of the operator keeps incidents and candidates in step.
LEMMA SyncStep == SyncInv /\ [IncidentNext]_incidentVars => SyncInv'
<1> SUFFICES ASSUME SyncInv, [IncidentNext]_incidentVars PROVE SyncInv'
  OBVIOUS
<1>0. WorldInv' /\ published \subseteq published' /\ TableInv /\ ServiceInv
  BY WorldStep DEF SyncInv
<1>a. ASSUME UNCHANGED <<candidates, incidents>>,
             \/ UNCHANGED corr
             \/ \E p \in Correlators : \E x : corr' = [corr EXCEPT ![p] = x] /\ CorrShaped(x),
             \/ UNCHANGED prom
             \/ \E q \in Promoters : \E y : /\ prom' = [prom EXCEPT ![q] = y] /\ PromShaped(y)
                                            /\ \A c \in y.rows : candidates[c].status # "none"
      PROVE  SyncInv'
  BY <1>0, <1>a, TablesKept, ServicesMoved DEF SyncInv
<1>1. ASSUME NEW e \in Events, Produce(e) \/ ProducerFails(e) PROVE SyncInv'
  <2>1. UNCHANGED <<candidates, incidents, corr, prom>>
    BY <1>1 DEF Produce, RecordEvent, PublishEvent, Enqueue, GroupAlert, InsertAlert, ProducerFails
  <2> QED BY <2>1, <1>a
<1>2. ASSUME NEW p \in Correlators, CorrStep(p) \/ CorrelatorFails(p) PROVE SyncInv'
  <2>1. \E x : corr' = [corr EXCEPT ![p] = x] /\ CorrShaped(x)
    BY <1>2, CorrelatorShaped
  <2>2. UNCHANGED prom
    BY <1>2 DEF CorrStep, CorrelatorFails, Read, Find, Write, Ack
  <2>3. CASE Write(p)
    <3>1. TableInv'
      BY <2>3, TablesWritten
    <3>2. \A c \in Candidates : candidates[c].status # "none" => candidates'[c].status # "none"
      BY <2>3 DEF Write, Extended, Fresh, SyncInv, TableInv, CandShaped
    <3>3. ServiceInv'
      BY <1>0, <2>1, <2>2, <3>2, ServicesMoved
    <3> QED BY <1>0, <3>1, <3>3 DEF SyncInv
  <2>4. CASE ~Write(p)
    <3>1. UNCHANGED <<candidates, incidents>>
      BY <1>2, <2>4 DEF CorrStep, CorrelatorFails, Read, Find, Ack
    <3> QED BY <2>1, <2>2, <3>1, <1>a
  <2> QED BY <2>3, <2>4
<1>3. ASSUME NEW q \in Promoters, PromStep(q) \/ PromoterFails(q) PROVE SyncInv'
  <2>1. \E y : /\ prom' = [prom EXCEPT ![q] = y] /\ PromShaped(y)
               /\ \A c \in y.rows : candidates[c].status # "none"
    BY <1>3, SelectShaped, PromoterShaped DEF PromStep
  <2>2. UNCHANGED corr
    BY <1>3 DEF PromStep, PromoterFails, Select, Commit, Announce
  <2>3. CASE Commit(q)
    <3>1. TableInv'
      BY <2>3, TablesPromoted
    <3>2. \A c \in Candidates : candidates[c].status # "none" => candidates'[c].status # "none"
      BY <2>3 DEF Commit, SyncInv, TableInv, CandShaped
    <3>3. ServiceInv'
      BY <1>0, <2>1, <2>2, <3>2, ServicesMoved
    <3> QED BY <1>0, <3>1, <3>3 DEF SyncInv
  <2>4. CASE ~Commit(q)
    <3>1. UNCHANGED <<candidates, incidents>>
      BY <1>3, <2>4 DEF PromStep, PromoterFails, Select, Announce
    <3> QED BY <2>1, <2>2, <3>1, <1>a
  <2> QED BY <2>3, <2>4
<1>4. ASSUME NEW c \in Candidates, NEW s, Transition(c, s) PROVE SyncInv'
  <2>1. TableInv' /\ UNCHANGED <<candidates, corr, prom>>
    BY <1>4, TablesMoved DEF Transition
  <2>2. ServiceInv'
    BY <1>0, <2>1, ServicesMoved
  <2> QED BY <1>0, <2>1, <2>2 DEF SyncInv
<1>5. ASSUME NEW e \in Events, NEW s, SetAlert(e, s) PROVE SyncInv'
  <2>1. UNCHANGED <<candidates, incidents, corr, prom>>
    BY <1>5 DEF SetAlert
  <2> QED BY <2>1, <1>a
<1>6. CASE UNCHANGED incidentVars
  <2>1. UNCHANGED <<candidates, incidents, corr, prom>>
    BY <1>6 DEF incidentVars
  <2> QED BY <2>1, <1>a
<1> QED BY <1>1, <1>2, <1>3, <1>4, <1>5, <1>6 DEF IncidentNext

\* At the start there is no candidate and no incident.
LEMMA SyncInit == IncidentInit => SyncInv
<1> SUFFICES ASSUME IncidentInit PROVE SyncInv
  OBVIOUS
<1>1. WorldInv
  BY BoundsAssumption DEF IncidentInit, WorldInv
<1>2. CandShaped(NoCandidate) /\ IncShaped(NoIncident, {})
      /\ NoCandidate.status = "none" /\ NoCandidate.events = {}
  BY DEF CandShaped, IncShaped, NoCandidate, NoIncident
<1>3. \A c \in Candidates : candidates[c] = NoCandidate /\ incidents[c] = NoIncident
  BY DEF IncidentInit
<1>4. TableInv
  BY <1>2, <1>3 DEF IncidentInit, TableInv, PromotedInSync
<1>5. CorrShaped(Idle) /\ PromShaped(Waiting) /\ Waiting.rows = {}
  BY BoundsAssumption DEF CorrShaped, PromShaped, Idle, Waiting
<1>6. (\A p \in Correlators : corr[p] = Idle) /\ (\A q \in Promoters : prom[q] = Waiting)
  BY DEF IncidentInit
<1>7. ServiceInv
  BY <1>5, <1>6 DEF IncidentInit, ServiceInv
<1> QED BY <1>1, <1>4, <1>7 DEF SyncInv

\* Whatever fails between the producer, the correlators and the promoters: an incident
\* that is up to date with its candidate has its severity, its confidence, its summary
\* and each of its events once, and every row has its shape.
THEOREM IncidentsInSync == IncidentSpec => []Consistent
<1>1. SyncInv => Consistent
  <2>1. ASSUME SyncInv PROVE IncidentTypeOK
    <3>1. \A p \in Correlators : corr[p].pc \in {"idle", "find", "write", "ack"}
      BY <2>1 DEF SyncInv, ServiceInv, CorrShaped
    <3>2. \A q \in Promoters : prom[q].pc \in {"idle", "commit", "announce"}
      BY <2>1 DEF SyncInv, ServiceInv, PromShaped
    <3>3. ASSUME NEW c \in Candidates
          PROVE  /\ candidates[c].status \in {"none", "open", "promoted"}
                 /\ candidates[c].conf \in 0..100 /\ candidates[c].events \subseteq published
                 /\ candidates[c].status = "none" => incidents[c] = NoIncident
      BY <2>1 DEF SyncInv, TableInv, CandShaped
    <3> QED BY <2>1, <3>1, <3>2, <3>3 DEF SyncInv, WorldInv, IncidentTypeOK
  <2> QED BY <2>1 DEF SyncInv, TableInv, Consistent
<1> QED BY <1>1, SyncInit, SyncStep, PTL DEF IncidentSpec
-----------------------------------------------------------------------------
(* Episodes *)

\* What a correlator between SELECT ... FOR UPDATE and the end of its transaction
\* relies on: the candidate it found is the newest that fits, or none fits.
ChosenRight(x) ==
  x.pc = "write" =>
    IF x.cand = 0 THEN \A c \in Candidates : ~Extends(x.req, c)
    ELSE /\ x.cand \in Candidates /\ Extends(x.req, x.cand)
         /\ \A f \in Candidates : Extends(x.req, f) => candidates[x.cand].last >= candidates[f].last

EpisodeInv ==
  /\ \A c, d \in Candidates : c < d /\ candidates[d].status # "none" => candidates[c].status # "none"
  /\ SeparateEpisodes
  /\ \A p \in Correlators : ChosenRight(corr[p])

\* A step that changes no more of the candidates than open into promoted.
LEMMA EpisodesKept ==
  ASSUME SyncInv, EpisodeInv,
         \A c \in Candidates :
           /\ candidates'[c].key = candidates[c].key /\ candidates'[c].last = candidates[c].last
           /\ \/ candidates'[c].status = candidates[c].status
              \/ candidates[c].status \in {"open", "promoted"} /\ candidates'[c].status = "promoted",
         \/ UNCHANGED corr
         \/ \E p \in Correlators : \E x : corr' = [corr EXCEPT ![p] = x] /\ ChosenRight(x)
  PROVE  EpisodeInv'
<1>1. ASSUME NEW p \in Correlators PROVE ChosenRight(corr[p])'
  <2>1. ChosenRight(corr'[p])
    BY DEF SyncInv, ServiceInv, EpisodeInv
  <2>2. \A r : \A c \in Candidates : Extends(r, c)' <=> Extends(r, c)
    BY DEF Extends
  <2> QED BY <2>1, <2>2 DEF ChosenRight
<1> QED BY <1>1 DEF EpisodeInv, SeparateEpisodes

\* The only correlator writes: it extends the newest episode of the key, or begins one
\* more than a window after the last.
LEMMA EpisodeWritten ==
  ASSUME SyncInv, EpisodeInv, \A p, q \in Correlators : p = q,
         NEW p \in Correlators, Write(p)
  PROVE  EpisodeInv'
<1> DEFINE r == corr[p].req
           new == {d \in Candidates : candidates[d].status = "none"}
           c == IF corr[p].cand # 0 THEN corr[p].cand ELSE Min(new)
           y == IF corr[p].cand # 0 THEN Extended(candidates[c], r) ELSE Fresh(r)
<1>1. ReqShaped(r) /\ corr[p].cand \in 0..MaxCandidates /\ ChosenRight(corr[p])
      /\ corr[p].pc = "write"
  BY DEF SyncInv, ServiceInv, CorrShaped, Write, EpisodeInv
<1>2. c \in Candidates /\ (corr[p].cand = 0 => c \in new /\ \A d \in new : c <= d)
  <2>1. corr[p].cand # 0 \/ new # {}
    BY DEF Write
  <2>2. new \in SUBSET Nat
    BY BoundsAssumption DEF Candidates
  <2> HIDE DEF new
  <2>3. corr[p].cand = 0 => Min(new) \in new /\ \A d \in new : Min(new) <= d
    BY <2>1, <2>2, SmallestMember
  <2> QED BY <2>3, <1>1, BoundsAssumption DEF Candidates, new
<1>3. candidates' = [candidates EXCEPT ![c] = y]
  BY DEF Write
<1>4. corr' = [corr EXCEPT ![p].pc = "ack", ![p].cand = 0]
  BY DEF Write
<1> HIDE DEF c, r, new
<1>5. CandShaped(candidates[c]) /\ \A d \in Candidates : candidates[d].last \in Nat
  BY <1>2 DEF SyncInv, TableInv, CandShaped
<1>6. /\ y.status = "open" /\ y.last \in Nat /\ y.last >= r.last
      /\ corr[p].cand # 0 => y.key = candidates[c].key /\ y.last >= candidates[c].last
      /\ corr[p].cand = 0 => y.key = r.key
  <2>1. CASE corr[p].cand # 0
    BY <1>1, <1>5, <2>1, ExtendedShaped DEF CandShaped
  <2>2. CASE corr[p].cand = 0
    BY <1>1, <2>2 DEF Fresh, ReqShaped
  <2> QED BY <2>1, <2>2
<1> HIDE DEF y
<1>7. candidates'[c] = y /\ \A d \in Candidates \ {c} : candidates'[d] = candidates[d]
  BY <1>2, <1>3 DEF SyncInv, TableInv
<1>8. \A q \in Correlators : ChosenRight(corr[q])'
  <2> SUFFICES ASSUME NEW q \in Correlators PROVE ChosenRight(corr[q])'
    OBVIOUS
  <2>1. corr'[p].pc = "ack" /\ q = p
    BY <1>4 DEF SyncInv, ServiceInv, CorrShaped
  <2> QED BY <2>1 DEF ChosenRight
<1>9. ASSUME NEW a \in Candidates, NEW b \in Candidates, a < b, candidates'[b].status # "none"
      PROVE  /\ candidates'[a].status # "none"
             /\ candidates'[a].key = candidates'[b].key =>
                     candidates'[a].last + Window < candidates'[b].last
  <2> USE <1>9
  <2>0. /\ Window \in Nat /\ a \in Int /\ b \in Int /\ c \in Int
        /\ candidates[a].last \in Nat /\ candidates[b].last \in Nat
        /\ r.first \in Nat /\ r.last \in Nat /\ r.first <= r.last
    BY <1>1, <1>2, <1>5, EventsAssumption DEF Candidates, ReqShaped
  <2>1. candidates[b].status # "none" =>
          /\ candidates[a].status # "none"
          /\ candidates[a].key = candidates[b].key => candidates[a].last + Window < candidates[b].last
    BY DEF EpisodeInv, SeparateEpisodes
  <2>2. CASE c \notin {a, b}
    BY <1>7, <2>1, <2>2
  <2>3. CASE c = b
    <3>1. candidates'[a] = candidates[a] /\ candidates'[b] = y
      BY <1>7, <2>0, <2>3
    <3>2. CASE corr[p].cand # 0
      <4>1. candidates[b].status # "none"
        BY <1>1, <2>3, <3>2 DEF ChosenRight, Extends, c
      <4> QED BY <1>6, <2>0, <2>1, <2>3, <3>1, <3>2, <4>1
    <3>3. CASE corr[p].cand = 0
      <4>1. candidates[a].status # "none"
        BY <1>2, <2>0, <2>3, <3>3 DEF new
      <4>2. candidates[a].status \in {"none", "open", "promoted"}
        BY DEF SyncInv, TableInv, CandShaped
      <4>3. candidates[a].key = r.key => ~(candidates[a].last >= r.first - Window)
        BY <1>1, <3>3, <4>1, <4>2 DEF ChosenRight, Extends, r
      <4> QED BY <1>6, <2>0, <3>1, <3>3, <4>1, <4>3
    <3> QED BY <3>2, <3>3
  <2>4. CASE c = a
    <3>1. candidates'[b] = candidates[b] /\ candidates'[a] = y /\ candidates[b].status # "none"
      BY <1>7, <2>0, <2>4
    <3>2. corr[p].cand # 0
      BY <1>2, <2>1, <2>4, <3>1 DEF new
    <3>3. candidates[a].key = r.key /\ candidates[a].last >= r.first - Window
          /\ \A f \in Candidates : Extends(r, f) => candidates[a].last >= candidates[f].last
      BY <1>1, <2>4, <3>2 DEF ChosenRight, Extends, c, r
    <3>4. candidates[a].key # candidates[b].key
      <4> SUFFICES ASSUME candidates[a].key = candidates[b].key PROVE FALSE
        OBVIOUS
      <4>1. candidates[a].last + Window < candidates[b].last
        BY <2>1, <3>1
      <4>2. candidates[b].status \in {"none", "open", "promoted"}
        BY DEF SyncInv, TableInv, CandShaped
      <4>3. candidates[b].last >= r.first - Window
        BY <2>0, <3>3, <4>1
      <4>4. Extends(r, b)
        BY <3>1, <3>3, <4>2, <4>3 DEF Extends
      <4>5. candidates[a].last >= candidates[b].last
        BY <3>3, <4>4
      <4> QED BY <2>0, <4>1, <4>5
    <3> QED BY <1>6, <2>4, <3>1, <3>2, <3>4
  <2> QED BY <2>2, <2>3, <2>4
<1> QED BY <1>8, <1>9 DEF EpisodeInv, SeparateEpisodes

\* With one correlator nothing comes between the lookup of a candidate and its write.
LEMMA EpisodeStep ==
  ASSUME \A p, q \in Correlators : p = q
  PROVE  SyncInv /\ EpisodeInv /\ [IncidentNext]_incidentVars => EpisodeInv'
<1> SUFFICES ASSUME SyncInv, EpisodeInv, [IncidentNext]_incidentVars PROVE EpisodeInv'
  OBVIOUS
<1>1. ASSUME UNCHANGED candidates,
             \/ UNCHANGED corr
             \/ \E p \in Correlators : \E x : corr' = [corr EXCEPT ![p] = x] /\ ChosenRight(x)
      PROVE  EpisodeInv'
  BY <1>1, EpisodesKept
<1>2. ASSUME NEW e \in Events, Produce(e) \/ ProducerFails(e) PROVE EpisodeInv'
  <2>1. UNCHANGED <<candidates, corr>>
    BY <1>2 DEF Produce, RecordEvent, PublishEvent, Enqueue, GroupAlert, InsertAlert, ProducerFails
  <2> QED BY <2>1, <1>1
<1>3. ASSUME NEW p \in Correlators, CorrStep(p) \/ CorrelatorFails(p) PROVE EpisodeInv'
  <2>1. CASE Write(p)
    BY <2>1, EpisodeWritten
  <2>2. CASE Ack(p) \/ CorrelatorFails(p)
    <3>1. ChosenRight(Idle) /\ UNCHANGED candidates /\ corr' = [corr EXCEPT ![p] = Idle]
      BY <2>2 DEF Ack, CorrelatorFails, ChosenRight, Idle
    <3> QED BY <3>1, <1>1
  <2>3. ASSUME NEW e \in Events, Read(p, e) PROVE EpisodeInv'
    <3>1. UNCHANGED candidates
      BY <2>3 DEF Read
    <3>2. PICK pc, req :
            /\ pc \in {"ack", "find"}
            /\ corr' = [corr EXCEPT ![p] = [pc |-> pc, event |-> e, req |-> req, cand |-> 0]]
      <4>1. PICK found \in {{f \in published : Correlate(e, f).key # None}} :
              IF ~Correlatable(e) \/ (found = {} /\ Attr[e].resource = None)
              THEN corr' = [corr EXCEPT ![p] = [pc |-> "ack", event |-> e, req |-> None, cand |-> 0]]
              ELSE \E key \in {Key(e, found)} :
                     corr' = [corr EXCEPT ![p] =
                       [pc |-> "find", event |-> e, cand |-> 0,
                        req |-> Request(e, key, {f \in found : Correlate(e, f).key = key})]]
        BY <2>3 DEF Read
      <4> QED BY <4>1
    <3> DEFINE x == [pc |-> pc, event |-> e, req |-> req, cand |-> 0]
    <3>3. ChosenRight(x)
      BY <3>2 DEF ChosenRight
    <3> HIDE DEF x
    <3> QED BY <3>1, <3>2, <3>3, <1>1 DEF x
  <2>4. CASE Find(p)
    <3> DEFINE s == corr[p]
               fits == {c \in Candidates : Extends(s.req, c)}
               best == CHOOSE d \in fits : \A f \in fits : candidates[d].last >= candidates[f].last
    <3>0. UNCHANGED candidates /\ CorrShaped(s)
      BY <2>4 DEF Find, SyncInv, ServiceInv
    <3>1. CASE fits = {}
      <4> DEFINE x == [s EXCEPT !.pc = "write", !.cand = 0]
      <4>1. corr' = [corr EXCEPT ![p] = x]
        BY <2>4, <3>1 DEF Find
      <4>2. x.cand = 0 /\ x.req = s.req
        BY <3>0 DEF CorrShaped
      <4> HIDE DEF x, s
      <4>3. ChosenRight(x)
        BY <3>1, <4>2 DEF ChosenRight
      <4> QED BY <1>1, <3>0, <4>1, <4>3
    <3>2. CASE fits # {}
      <4> DEFINE x == [s EXCEPT !.pc = "write", !.cand = best]
      <4>1. corr' = [corr EXCEPT ![p] = x]
        BY <2>4, <3>2 DEF Find
      <4>2. best \in fits /\ \A f \in fits : candidates[best].last >= candidates[f].last
        <5>1. TableInv /\ fits \in SUBSET Candidates
          BY DEF SyncInv
        <5> HIDE DEF fits
        <5> QED BY <3>2, <5>1, NewestOf
      <4>3. best # 0
        BY <4>2, BoundsAssumption DEF Candidates
      <4> HIDE DEF best
      <4>4. x.cand = best /\ x.req = s.req
        BY <3>0 DEF CorrShaped
      <4> HIDE DEF x, s
      <4>5. ChosenRight(x)
        BY <4>2, <4>3, <4>4 DEF ChosenRight
      <4> QED BY <1>1, <3>0, <4>1, <4>5
    <3> QED BY <3>1, <3>2
  <2> QED BY <1>3, <2>1, <2>2, <2>3, <2>4 DEF CorrStep
<1>4. ASSUME NEW q \in Promoters, PromStep(q) \/ PromoterFails(q) PROVE EpisodeInv'
  <2>1. CASE Commit(q)
    <3>1. UNCHANGED corr
      BY <2>1 DEF Commit
    <3>2. ASSUME NEW c \in Candidates
          PROVE  /\ candidates'[c].key = candidates[c].key /\ candidates'[c].last = candidates[c].last
                 /\ \/ candidates'[c].status = candidates[c].status
                    \/ /\ candidates[c].status \in {"open", "promoted"}
                       /\ candidates'[c].status = "promoted"
      <4> DEFINE x == candidates[c]
      <4>1. CandShaped(x)
        BY DEF SyncInv, TableInv
      <4>2. c \in prom[q].rows => x.status # "none"
        BY DEF SyncInv, ServiceInv
      <4>3. candidates'[c] \in {x, [x EXCEPT !.status = "promoted"]}
            /\ (c \notin prom[q].rows => candidates'[c] = x)
        BY <2>1 DEF Commit
      <4> HIDE DEF x
      <4>4. x.status \in {"none", "open", "promoted"}
            /\ LET y == [x EXCEPT !.status = "promoted"] IN
               y.key = x.key /\ y.last = x.last /\ y.status = "promoted"
        BY <4>1 DEF CandShaped
      <4>5. /\ candidates'[c].key = x.key /\ candidates'[c].last = x.last
            /\ \/ candidates'[c].status = x.status
               \/ x.status \in {"open", "promoted"} /\ candidates'[c].status = "promoted"
        BY <4>2, <4>3, <4>4
      <4> QED BY <4>5 DEF x
    <3> QED BY <3>1, <3>2, EpisodesKept
  <2>2. CASE ~Commit(q)
    <3>1. UNCHANGED <<candidates, corr>>
      BY <1>4, <2>2 DEF PromStep, PromoterFails, Select, Announce
    <3> QED BY <3>1, <1>1
  <2> QED BY <2>1, <2>2
<1>5. ASSUME NEW c, NEW s, Transition(c, s) \/ SetAlert(c, s) PROVE EpisodeInv'
  <2>1. UNCHANGED <<candidates, corr>>
    BY <1>5 DEF Transition, SetAlert
  <2> QED BY <2>1, <1>1
<1>6. CASE UNCHANGED incidentVars
  <2>1. UNCHANGED <<candidates, corr>>
    BY <1>6 DEF incidentVars
  <2> QED BY <2>1, <1>1
<1> QED BY <1>2, <1>3, <1>4, <1>5, <1>6 DEF IncidentNext

\* At the start there is no episode.
LEMMA EpisodeInit == IncidentInit => EpisodeInv
BY DEF IncidentInit, EpisodeInv, SeparateEpisodes, ChosenRight, NoCandidate, Idle

\* With one process of the correlation service, as compose.yml runs it: whatever fails
\* or is delivered twice, two candidates of a key are more than a window apart.
THEOREM EpisodesStaySeparate ==
  ASSUME \A p, q \in Correlators : p = q
  PROVE  IncidentSpec => []SeparateEpisodes
<1>1. SyncInv /\ EpisodeInv /\ [IncidentNext]_incidentVars => SyncInv' /\ EpisodeInv'
  BY SyncStep, EpisodeStep
<1>2. EpisodeInv => SeparateEpisodes
  BY DEF EpisodeInv
<1> QED BY <1>1, <1>2, SyncInit, EpisodeInit, PTL DEF IncidentSpec
-----------------------------------------------------------------------------
(* Sensors and the ingress: sequences *)

\* The first k of a sequence, and the rest.
LEMMA Split ==
  ASSUME NEW T, NEW s \in Seq(T), NEW k \in 0..Len(s)
  PROVE  /\ SubSeq(s, 1, k) \in Seq(T) /\ Len(SubSeq(s, 1, k)) = k
         /\ \A i \in 1..k : SubSeq(s, 1, k)[i] = s[i]
         /\ SubSeq(s, k + 1, Len(s)) \in Seq(T) /\ Len(SubSeq(s, k + 1, Len(s))) = Len(s) - k
         /\ \A i \in 1..Len(s) - k : SubSeq(s, k + 1, Len(s))[i] = s[i + k] /\ i + k \in 1..Len(s)
OBVIOUS

\* Two sequences, one after the other.
LEMMA Joined ==
  ASSUME NEW T, NEW s \in Seq(T), NEW t \in Seq(T)
  PROVE  /\ s \o t \in Seq(T) /\ Len(s \o t) = Len(s) + Len(t)
         /\ Len(s) \in Nat /\ Len(t) \in Nat
         /\ \A i \in 1..Len(s) : (s \o t)[i] = s[i] /\ i \in 1..Len(s \o t)
         /\ \A i \in 1..Len(t) : (s \o t)[i + Len(s)] = t[i] /\ i + Len(s) \in 1..Len(s \o t)
         /\ \A i \in 1..Len(s) + Len(t) :
              i \in 1..Len(s) \/ (i - Len(s) \in 1..Len(t) /\ (s \o t)[i] = t[i - Len(s)])
OBVIOUS

\* A joined sequence has the elements of both.
LEMMA ElementsJoined ==
  ASSUME NEW T, NEW s \in Seq(T), NEW t \in Seq(T)
  PROVE  Elements(s \o t) = Elements(s) \cup Elements(t)
<1>1. DOMAIN s = 1..Len(s) /\ DOMAIN t = 1..Len(t) /\ DOMAIN (s \o t) = 1..Len(s \o t)
  BY Joined
<1>2. ASSUME NEW x \in Elements(s \o t) PROVE x \in Elements(s) \cup Elements(t)
  BY <1>1, <1>2, Joined DEF Elements
<1>3. ASSUME NEW x \in Elements(s) PROVE x \in Elements(s \o t)
  BY <1>1, <1>3, Joined DEF Elements
<1>4. ASSUME NEW x \in Elements(t) PROVE x \in Elements(s \o t)
  <2>1. PICK i \in 1..Len(t) : t[i] = x
    BY <1>1, <1>4 DEF Elements
  <2>2. (s \o t)[i + Len(s)] = x /\ i + Len(s) \in DOMAIN (s \o t)
    BY <1>1, <2>1, Joined
  <2> QED BY <2>2 DEF Elements
<1> QED BY <1>2, <1>3, <1>4

\* The elements of a sequence over T are in T.
LEMMA ElementsWithin ==
  ASSUME NEW T, NEW s \in Seq(T)
  PROVE  Elements(s) \subseteq T
BY DEF Elements

\* The head moved from one queue to the end of the other: the line is the same.
LEMMA HeadMoves ==
  ASSUME NEW T, NEW s \in Seq(T), NEW t \in Seq(T), t # <<>>
  PROVE  /\ Append(s, Head(t)) \o Tail(t) = s \o t
         /\ Append(s, Head(t)) \in Seq(T) /\ Len(Append(s, Head(t))) = Len(s) + 1
         /\ Tail(t) \in Seq(T) /\ Len(Tail(t)) = Len(t) - 1
OBVIOUS
-----------------------------------------------------------------------------
(* The invariant *)

\* What a sensor has read and no answer has settled, in the order it is posted.
Backlog == buffer \o chan

\* A batch the server is working on: an accepted item is on the backbone.
SlotShaped(x) ==
  /\ x \in [step : {"free", "auth", "record", "publish", "ok", "error"}, batch : Seq(Entries),
            cred : {x.cred}, item : Nat, results : Seq({"accepted", "rejected"})]
  /\ Elements(x.batch) \subseteq Reported
  /\ Journal => Len(x.batch) <= BatchMax
  /\ x.step # "free" => x.batch # <<>>
  /\ x.step \in {"auth", "record", "publish"} =>
       x.item \in 1..Len(x.batch) /\ Len(x.results) = x.item - 1
  /\ x.step = "ok" => Len(x.results) = Len(x.batch)
  /\ \A i \in DOMAIN x.results :
       i <= Len(x.batch) /\ (x.results[i] = "accepted" => copies[x.batch[i]] > 0)
  /\ x.step = "publish" => x.batch[x.item] \in rows

ServerInv ==
  /\ server = [r \in Requests |-> server[r]] /\ \A r \in Requests : SlotShaped(server[r])
  /\ rows \subseteq Reported /\ copies \in [Entries -> 0..1]
  /\ \A e \in Entries : copies[e] > 0 => e \in rows

SourceInv == kind \in Kinds /\ logged \in 0..MaxEntries /\ aged \in 0..logged

\* The sender waits for the batch its buffer begins with.
SensorInv ==
  /\ reader \in [up : BOOLEAN, next : 1..(logged + 1)]
  /\ chan \in Seq(Reported) /\ Len(chan) <= ChannelCap
  /\ buffer \in Seq(Reported)
  /\ Len(buffer) <= MaxBuffered + (IF sending = SenderIdle THEN 0 ELSE 1)
  /\ \/ sending = SenderIdle
     \/ sending = Flushing /\ buffer # <<>>
     \/ /\ sending \in Requests /\ buffer # <<>>
        /\ server[sending].step # "free" /\ server[sending].batch = Chunk
  /\ checkpoint = None \/ \E f \in 1..logged : checkpoint = Cursor(f)

\* Whatever comes before an entry of the backlog is handled or further to its front:
\* a checkpoint may be taken at any entry.
Covered ==
  \A i \in DOMAIN Backlog : \A e \in Reported \ passed :
    e < Backlog[i] => Handled(e) \/ \E j \in 1..(i - 1) : Backlog[j] = e

\* NoSilentLoss, of the checkpoint and of the reader.
BehindHandled == \A e \in Reported \ passed : Behind(e) => Handled(e)
ReadKept ==
  \A e \in Reported \ passed :
    reader.up /\ e < reader.next => Handled(e) \/ e \in Elements(Backlog)

LossInv == Covered /\ BehindHandled /\ ReadKept

SInv == SourceInv /\ ServerInv /\ SensorInv /\ LossInv

\* What never comes back: entries are not unwritten, settled or published ones stay so.
Onwards ==
  /\ kind' = kind /\ logged \in Nat /\ logged' \in Nat /\ logged <= logged'
  /\ rows \subseteq rows' /\ refused \subseteq refused' /\ dropped \subseteq dropped'
  /\ passed \subseteq passed'
  /\ copies' \in [Entries -> 0..1] /\ \A e \in Entries : copies[e] <= copies'[e]

\* What the sensor reports it goes on reporting.
LEMMA ReportedGrow ==
  ASSUME Onwards
  PROVE  Reported \subseteq Reported' /\ (Journal' <=> Journal)
<1>1. kind' = kind
  BY DEF Onwards
<1>2. \A e : Parse(e)' = Parse(e)
  BY <1>1 DEF Parse, LinuxParse, HaproxyParse, DockerParse
<1>3. 1..logged \subseteq 1..logged'
  BY DEF Onwards
<1> QED BY <1>1, <1>2, <1>3 DEF Reported, Journal

\* A handled entry stays handled.
LEMMA HandledStays ==
  ASSUME Onwards, copies \in [Entries -> 0..1], NEW e \in Entries, Handled(e)
  PROVE  Handled(e)'
BY DEF Onwards, Handled

\* The end of a flush only adds to what was dropped.
LEMMA EndFlushDrops ==
  ASSUME NEW buf, EndFlush(buf)
  PROVE  dropped \subseteq dropped'
BY DEF EndFlush

\* Every step moves onwards.
LEMMA StepsOnwards ==
  ASSUME SInv, [IngressNext]_ingressVars
  PROVE  Onwards /\ SourceInv'
<1> USE DEF SInv, SourceInv, ServerInv, Onwards
<1>0. MaxEntries \in Nat
  BY SizesAssumption DEF SInv
<1>1. CASE LogEntry \/ Age
  BY <1>0, <1>1 DEF LogEntry, Age, tableVars, totals
<1>2. CASE Connect \/ ReadLine \/ StreamEnds
  BY <1>2 DEF Connect, ReadLine, StreamEnds, sourceVars, tableVars, totals
<1>3. CASE Receive \/ FlushTick \/ SensorCrash \/ Rotate \/ Revoke \/ UNCHANGED ingressVars
  BY <1>3 DEF Receive, FlushTick, SensorCrash, Rotate, Revoke, ingressVars, sourceVars,
            tableVars, totals
<1>4. ASSUME NEW r \in Requests,
             Post(r) \/ Authenticate(r) \/ StatementFails(r) \/ Abandoned(r)
      PROVE  Onwards /\ SourceInv'
  BY <1>4 DEF Post, Authenticate, StatementFails, Abandoned, serverOnly,
            sourceVars, tableVars, totals
<1>5. ASSUME NEW r \in Requests, RecordItem(r) PROVE Onwards /\ SourceInv'
  BY <1>5 DEF RecordItem, serverOnly, sourceVars, totals
<1>6. ASSUME NEW r \in Requests, PublishItem(r) PROVE Onwards /\ SourceInv'
  <2> DEFINE c == Current(r)
             n == IF copies[c] = 0 THEN 1 ELSE copies[c]
  <2>1. copies' \in [Entries -> 0..1] /\ \A e \in Entries : copies[e] <= copies'[e]
    <3>1. copies' = [copies EXCEPT ![c] = n]
      BY <1>6 DEF PublishItem
    <3>2. \A e \in Entries : copies[e] \in 0..1
      OBVIOUS
    <3>3. c \in Entries => n \in 0..1 /\ copies[c] <= n
      BY <3>2
    <3> HIDE DEF c, n
    <3>4. copies' \in [Entries -> 0..1]
      BY <3>1, <3>3
    <3>5. ASSUME NEW e \in Entries PROVE copies[e] <= copies'[e]
      <4>1. CASE e = c
        BY <3>1, <3>3, <4>1
      <4>2. CASE e # c
        <5>1. copies'[e] = copies[e] /\ copies[e] \in 0..1
          BY <3>1, <3>2, <4>2
        <5> QED BY <5>1
      <4> QED BY <4>1, <4>2
    <3> QED BY <3>4, <3>5
  <2> QED BY <1>6, <2>1 DEF PublishItem, serverOnly, sourceVars, totals
<1>7. ASSUME NEW r \in Requests, NEW saved, Answer(r, saved) PROVE Onwards /\ SourceInv'
  <2>1. refused \subseteq refused' /\ dropped \subseteq dropped'
    BY <1>7, EndFlushDrops DEF Answer, Unanswered, AckJournal, AckDocker
  <2> QED BY <1>7, <2>1 DEF Answer, sourceVars, tableVars
<1>8. ASSUME NEW r \in Requests, LoseConnection(r) PROVE Onwards /\ SourceInv'
  <2>1. refused \subseteq refused' /\ dropped \subseteq dropped'
    BY <1>8, EndFlushDrops DEF LoseConnection, Unanswered
  <2> QED BY <1>8, <2>1 DEF LoseConnection, sourceVars, tableVars
<1> QED
  BY <1>1, <1>2, <1>3, <1>4, <1>5, <1>6, <1>7, <1>8
  DEF IngressNext, Source, Reader, Sender, HandleItem, SensorFault, Owner
-----------------------------------------------------------------------------
(* The server *)

\* A batch in order stays so while entries and tables grow.
LEMMA SlotStays ==
  ASSUME Onwards, copies \in [Entries -> 0..1], NEW x, SlotShaped(x)
  PROVE  SlotShaped(x)'
<1>1. /\ x \in [step : {"free", "auth", "record", "publish", "ok", "error"}, batch : Seq(Entries),
                cred : {x.cred}, item : Nat, results : Seq({"accepted", "rejected"})]
      /\ Elements(x.batch) \subseteq Reported'
      /\ Journal' => Len(x.batch) <= BatchMax
      /\ x.step # "free" => x.batch # <<>>
      /\ x.step \in {"auth", "record", "publish"} =>
           x.item \in 1..Len(x.batch) /\ Len(x.results) = x.item - 1
      /\ x.step = "ok" => Len(x.results) = Len(x.batch)
      /\ x.step = "publish" => x.batch[x.item] \in rows'
  BY ReportedGrow DEF SlotShaped, Onwards
<1>2. ASSUME NEW i \in DOMAIN x.results
      PROVE  i <= Len(x.batch) /\ (x.results[i] = "accepted" => copies'[x.batch[i]] > 0)
  <2>1. i <= Len(x.batch) /\ (x.results[i] = "accepted" => copies[x.batch[i]] > 0)
    BY DEF SlotShaped
  <2>2. i \in 1..Len(x.batch)
    BY <1>1, <2>1
  <2>3. x.batch[i] \in Entries
    BY <1>1, <2>2
  <2>4. /\ copies[x.batch[i]] \in 0..1 /\ copies'[x.batch[i]] \in 0..1
        /\ copies[x.batch[i]] <= copies'[x.batch[i]]
    BY <2>3 DEF Onwards
  <2> QED BY <2>1, <2>4
<1> QED BY <1>1, <1>2 DEF SlotShaped

\* The result of one item is kept; the next one is taken up.
LEMMA ItemShaped ==
  ASSUME Onwards, copies \in [Entries -> 0..1], NEW x, SlotShaped(x),
         x.step \in {"record", "publish"}, NEW result \in {"accepted", "rejected"},
         result = "accepted" => copies'[x.batch[x.item]] > 0
  PROVE  SlotShaped([x EXCEPT !.results = Append(x.results, result), !.item = x.item + 1,
                              !.step = IF x.item = Len(x.batch) THEN "ok" ELSE "record"])'
<1> DEFINE results == Append(x.results, result)
           step == IF x.item = Len(x.batch) THEN "ok" ELSE "record"
           y == [x EXCEPT !.results = results, !.item = x.item + 1, !.step = step]
<1>1. /\ x \in [step : {"free", "auth", "record", "publish", "ok", "error"}, batch : Seq(Entries),
                cred : {x.cred}, item : Nat, results : Seq({"accepted", "rejected"})]
      /\ x.item \in 1..Len(x.batch) /\ Len(x.results) = x.item - 1 /\ Len(x.batch) \in Nat
      /\ x.batch # <<>>
  BY DEF SlotShaped
<1>2. /\ Elements(x.batch) \subseteq Reported' /\ (Journal' => Len(x.batch) <= BatchMax)
      /\ \A i \in DOMAIN x.results :
           i <= Len(x.batch) /\ (x.results[i] = "accepted" => copies'[x.batch[i]] > 0)
  BY SlotStays DEF SlotShaped
<1>3. /\ results \in Seq({"accepted", "rejected"}) /\ Len(results) = x.item
      /\ DOMAIN results = 1..x.item
      /\ \A i \in 1..x.item : i # x.item => i \in DOMAIN x.results /\ results[i] = x.results[i]
      /\ results[x.item] = result
  BY <1>1
<1>4. \A i \in DOMAIN results :
        i <= Len(x.batch) /\ (results[i] = "accepted" => copies'[x.batch[i]] > 0)
  BY <1>1, <1>2, <1>3
<1>5. y = [x EXCEPT !.results = results, !.item = x.item + 1, !.step = step]
  OBVIOUS
<1> HIDE DEF y, results, step
<1>9. y = [step |-> step, batch |-> x.batch, cred |-> x.cred, item |-> x.item + 1,
           results |-> results]
  BY <1>1, <1>5
<1>6. /\ y \in [step : {"free", "auth", "record", "publish", "ok", "error"}, batch : Seq(Entries),
                cred : {y.cred}, item : Nat, results : Seq({"accepted", "rejected"})]
      /\ y.batch = x.batch /\ y.results = results /\ y.item = x.item + 1 /\ y.step = step
  BY <1>1, <1>3, <1>9 DEF step
<1>7. /\ y.step \in {"auth", "record", "publish"} =>
           y.item \in 1..Len(y.batch) /\ Len(y.results) = y.item - 1
      /\ y.step = "ok" => Len(y.results) = Len(y.batch)
      /\ y.step # "publish"
  BY <1>1, <1>3, <1>6 DEF step
<1>8. SlotShaped(y)'
  BY <1>1, <1>2, <1>4, <1>6, <1>7 DEF SlotShaped
<1> QED BY <1>8 DEF y, results, step

\* One slot changes, and what it holds is in order: so are the tables and the others.
LEMMA OneSlot ==
  ASSUME SInv, Onwards, NEW r \in Requests, NEW x, SlotShaped(x)',
         server' = [server EXCEPT ![r] = x],
         rows' \subseteq Reported', \A e \in Entries : copies'[e] > 0 => e \in rows'
  PROVE  /\ ServerInv' /\ server'[r] = x
         /\ \A q \in Requests \ {r} : server'[q] = server[q]
<1>1. /\ server = [q \in Requests |-> server[q]] /\ \A q \in Requests : SlotShaped(server[q])
      /\ copies \in [Entries -> 0..1]
  BY DEF SInv, ServerInv
<1>2. /\ server' = [q \in Requests |-> server'[q]] /\ server'[r] = x
      /\ \A q \in Requests \ {r} : server'[q] = server[q]
  BY <1>1
<1>3. ASSUME NEW q \in Requests PROVE SlotShaped(server[q])'
  <2>1. CASE q = r
    BY <1>2, <2>1 DEF SlotShaped
  <2>2. CASE q # r
    <3>1. SlotShaped(server[q]) /\ server'[q] = server[q]
      BY <1>1, <1>2, <2>2
    <3> DEFINE y == server[q]
    <3>2. SlotShaped(y)
      BY <3>1
    <3>3. server'[q] = y
      BY <3>1
    <3> QED BY <1>1, <3>1, SlotStays DEF SlotShaped
  <2> QED BY <2>1, <2>2
<1>4. copies' \in [Entries -> 0..1]
  BY DEF Onwards
<1> QED BY <1>2, <1>3, <1>4 DEF ServerInv

\* The slots are left alone.
LEMMA SlotsStay ==
  ASSUME SInv, Onwards, server' = server, rows' = rows, copies' = copies
  PROVE  ServerInv'
<1>1. /\ server = [q \in Requests |-> server[q]] /\ \A q \in Requests : SlotShaped(server[q])
      /\ copies \in [Entries -> 0..1] /\ rows \subseteq Reported
      /\ \A e \in Entries : copies[e] > 0 => e \in rows
  BY DEF SInv, ServerInv
<1>2. ASSUME NEW q \in Requests PROVE SlotShaped(server[q])'
  BY <1>1, SlotStays DEF SlotShaped
<1> QED BY <1>1, <1>2, ReportedGrow DEF ServerInv

\* A freed slot is in order.
LEMMA FreeShaped == SlotShaped(Free) /\ SlotShaped(Free)'
<1>1. Len(<<>>) = 0 /\ DOMAIN <<>> = {}
  OBVIOUS
<1>2. BatchMax \in Nat
  BY SizesAssumption DEF SInv
<1>3. /\ Free \in [step : {"free", "auth", "record", "publish", "ok", "error"},
                   batch : Seq(Entries), cred : {Free.cred}, item : Nat,
                   results : Seq({"accepted", "rejected"})]
      /\ Free.batch = <<>> /\ Free.results = <<>> /\ Free.step = "free"
  BY DEF Free
<1>4. Elements(<<>>) = {}
  BY DEF Elements
<1> QED BY <1>1, <1>2, <1>3, <1>4 DEF SlotShaped
\* What a step on slot r does to the slots: r goes on with its batch.
Served(r) ==
  /\ ServerInv'
  /\ server'[r].batch = server[r].batch /\ server'[r].step # "free" /\ server[r].step # "free"
  /\ \A q \in Requests \ {r} : server'[q] = server[q]

\* After the credential check the first item is due, or the batch has failed.
LEMMA CheckedShaped ==
  ASSUME Onwards, copies \in [Entries -> 0..1], NEW x, SlotShaped(x), x.step = "auth",
         NEW step \in {"record", "error"}
  PROVE  SlotShaped([x EXCEPT !.step = step])'
<1> DEFINE y == [x EXCEPT !.step = step]
<1>1. /\ x \in [step : {"free", "auth", "record", "publish", "ok", "error"}, batch : Seq(Entries),
                cred : {x.cred}, item : Nat, results : Seq({"accepted", "rejected"})]
      /\ x.item \in 1..Len(x.batch) /\ Len(x.results) = x.item - 1 /\ x.batch # <<>>
      /\ Elements(x.batch) \subseteq Reported' /\ (Journal' => Len(x.batch) <= BatchMax)
      /\ \A i \in DOMAIN x.results :
           i <= Len(x.batch) /\ (x.results[i] = "accepted" => copies'[x.batch[i]] > 0)
  BY SlotStays DEF SlotShaped
<1>2. /\ y \in [step : {"free", "auth", "record", "publish", "ok", "error"}, batch : Seq(Entries),
                cred : {y.cred}, item : Nat, results : Seq({"accepted", "rejected"})]
      /\ y.batch = x.batch /\ y.results = x.results /\ y.item = x.item /\ y.step = step
  BY <1>1
<1> HIDE DEF y
<1>3. SlotShaped(y)'
  BY <1>1, <1>2 DEF SlotShaped
<1> QED BY <1>3 DEF y

\* Once the row is committed, its publication is due.
LEMMA RecordedShaped ==
  ASSUME Onwards, copies \in [Entries -> 0..1], NEW x, SlotShaped(x), x.step = "record",
         x.batch[x.item] \in rows'
  PROVE  SlotShaped([x EXCEPT !.step = "publish"])'
<1> DEFINE y == [x EXCEPT !.step = "publish"]
<1>1. /\ x \in [step : {"free", "auth", "record", "publish", "ok", "error"}, batch : Seq(Entries),
                cred : {x.cred}, item : Nat, results : Seq({"accepted", "rejected"})]
      /\ x.item \in 1..Len(x.batch) /\ Len(x.results) = x.item - 1 /\ x.batch # <<>>
      /\ Elements(x.batch) \subseteq Reported' /\ (Journal' => Len(x.batch) <= BatchMax)
      /\ \A i \in DOMAIN x.results :
           i <= Len(x.batch) /\ (x.results[i] = "accepted" => copies'[x.batch[i]] > 0)
  BY SlotStays DEF SlotShaped
<1>2. /\ y \in [step : {"free", "auth", "record", "publish", "ok", "error"}, batch : Seq(Entries),
                cred : {y.cred}, item : Nat, results : Seq({"accepted", "rejected"})]
      /\ y.batch = x.batch /\ y.results = x.results /\ y.item = x.item /\ y.step = "publish"
  BY <1>1
<1> HIDE DEF y
<1>3. SlotShaped(y)'
  BY <1>1, <1>2 DEF SlotShaped
<1> QED BY <1>3 DEF y

\* The credential check.
LEMMA AuthenticateServes ==
  ASSUME SInv, Onwards, NEW r \in Requests, Authenticate(r)
  PROVE  Served(r)
<1> DEFINE s == server[r]
           step == IF Genuine(s.cred) /\ Len(s.batch) <= IngressMax THEN "record" ELSE "error"
           x == [s EXCEPT !.step = step]
<1>1. /\ s.step = "auth" /\ server' = [server EXCEPT ![r] = x]
      /\ rows' = rows /\ copies' = copies
  BY DEF Authenticate, tableVars
<1>2. /\ SlotShaped(s) /\ rows \subseteq Reported
      /\ \A e \in Entries : copies[e] > 0 => e \in rows
      /\ copies \in [Entries -> 0..1]
  BY DEF SInv, ServerInv
<1>3. step \in {"record", "error"}
  OBVIOUS
<1>4. x.batch = s.batch /\ x.step = step
  BY <1>2 DEF SlotShaped
<1> HIDE DEF step
<1>5. \A v : v = x => SlotShaped(v)'
  BY <1>1, <1>2, <1>3, CheckedShaped
<1>6. PICK v : v = x /\ SlotShaped(v)'
  BY <1>5
<1>7. server' = [server EXCEPT ![r] = v]
  BY <1>1, <1>6
<1>8. ServerInv' /\ server'[r] = v /\ \A q \in Requests \ {r} : server'[q] = server[q]
  BY <1>1, <1>2, <1>6, <1>7, OneSlot, ReportedGrow
<1> QED BY <1>1, <1>3, <1>4, <1>6, <1>8 DEF Served

\* An item is decided: accepted only if its event is on the backbone.
LEMMA ItemServes ==
  ASSUME SInv, Onwards, NEW r \in Requests, server[r].step \in {"record", "publish"},
         NEW result \in {"accepted", "rejected"}, Item(r, result),
         result = "accepted" => copies'[Current(r)] > 0,
         rows' \subseteq Reported', \A e \in Entries : copies'[e] > 0 => e \in rows'
  PROVE  Served(r)
<1> DEFINE s == server[r]
           step == IF s.item = Len(s.batch) THEN "ok" ELSE "record"
           x == [s EXCEPT !.results = Append(s.results, result), !.item = s.item + 1, !.step = step]
<1>1. server' = [server EXCEPT ![r] = x]
  BY DEF Item
<1>2. SlotShaped(s) /\ copies \in [Entries -> 0..1]
  BY DEF SInv, ServerInv
<1>3. step \in {"ok", "record"}
  OBVIOUS
<1>4. s \in [step : {"free", "auth", "record", "publish", "ok", "error"}, batch : Seq(Entries),
                cred : {s.cred}, item : Nat, results : Seq({"accepted", "rejected"})]
  BY <1>2 DEF SlotShaped
<1>5. x.batch = s.batch /\ x.step = step
  <2> DEFINE new == Append(s.results, result)
  <2> HIDE DEF new, step
  <2> QED BY <1>4
<1>6. \A v : v = x => SlotShaped(v)'
  <2>1. result = "accepted" => copies'[s.batch[s.item]] > 0
    BY DEF Current
  <2>2. PICK w : w = s
    OBVIOUS
  <2>3. /\ SlotShaped(w) /\ w.step \in {"record", "publish"}
        /\ result = "accepted" => copies'[w.batch[w.item]] > 0
    BY <1>2, <2>1, <2>2
  <2>4. SlotShaped([w EXCEPT !.results = Append(w.results, result), !.item = w.item + 1,
                             !.step = IF w.item = Len(w.batch) THEN "ok" ELSE "record"])'
    BY <1>2, <2>3, ItemShaped
  <2> QED BY <2>2, <2>4
<1>7. PICK v : v = x /\ SlotShaped(v)'
  BY <1>6
<1>8. server' = [server EXCEPT ![r] = v]
  BY <1>1, <1>7
<1>9. ServerInv' /\ server'[r] = v /\ \A q \in Requests \ {r} : server'[q] = server[q]
  BY <1>7, <1>8, OneSlot
<1> HIDE DEF x, step
<1> QED BY <1>3, <1>5, <1>7, <1>9 DEF Served

\* The current item is an event the sensor reported.
LEMMA CurrentReported ==
  ASSUME SInv, NEW r \in Requests, server[r].step \in {"record", "publish"}
  PROVE  Current(r) \in Reported /\ Current(r) \in Entries
<1> DEFINE s == server[r]
<1>1. /\ s.item \in 1..Len(s.batch) /\ s.batch \in Seq(Entries)
      /\ Elements(s.batch) \subseteq Reported
  BY DEF SInv, ServerInv, SlotShaped
<1>2. s.batch[s.item] \in Elements(s.batch) /\ s.batch[s.item] \in Entries
  BY <1>1 DEF Elements
<1> QED BY <1>1, <1>2 DEF Current

\* The sensor row: rejected, already published, or committed and due for publication.
LEMMA RecordServes ==
  ASSUME SInv, Onwards, NEW r \in Requests, RecordItem(r)
  PROVE  Served(r)
<1> DEFINE s == server[r]
           c == Current(r)
           x == [s EXCEPT !.step = "publish"]
<1>1. /\ SlotShaped(s) /\ rows \subseteq Reported
      /\ \A e \in Entries : copies[e] > 0 => e \in rows
      /\ copies \in [Entries -> 0..1] /\ s.step = "record" /\ copies' = copies
      /\ c \in Reported
  BY CurrentReported DEF SInv, ServerInv, RecordItem
<1>2. CASE Item(r, "rejected") /\ UNCHANGED rows
  BY <1>1, <1>2, ItemServes, ReportedGrow
<1>3. CASE c \in rows /\ copies[c] > 0 /\ Item(r, "accepted") /\ UNCHANGED rows
  BY <1>1, <1>3, ItemServes, ReportedGrow
<1>4. CASE rows' = rows \cup {c} /\ server' = [server EXCEPT ![r] = x]
  <2>1. x.batch = s.batch /\ x.step = "publish"
    BY <1>1 DEF SlotShaped
  <2>2. \A v : v = x => SlotShaped(v)'
    <3>1. s.batch[s.item] \in rows'
      BY <1>4 DEF Current
    <3> QED BY <1>1, <3>1, RecordedShaped
  <2>3. PICK v : v = x /\ SlotShaped(v)'
    BY <2>2
  <2>4. server' = [server EXCEPT ![r] = v]
    BY <1>4, <2>3
  <2>5. rows' \subseteq Reported' /\ \A e \in Entries : copies'[e] > 0 => e \in rows'
    BY <1>1, <1>4, ReportedGrow
  <2>6. ServerInv' /\ server'[r] = v /\ \A q \in Requests \ {r} : server'[q] = server[q]
    BY <2>3, <2>4, <2>5, OneSlot
  <2> HIDE DEF x
  <2> QED BY <1>1, <2>1, <2>3, <2>6 DEF Served
<1> QED BY <1>2, <1>3, <1>4 DEF RecordItem

\* The publication of the committed row.
LEMMA PublishServes ==
  ASSUME SInv, Onwards, NEW r \in Requests, PublishItem(r)
  PROVE  Served(r)
<1> DEFINE c == Current(r)
           s == server[r]
<1>1. /\ rows \subseteq Reported /\ \A e \in Entries : copies[e] > 0 => e \in rows
      /\ copies \in [Entries -> 0..1] /\ s.step = "publish" /\ rows' = rows
      /\ c \in Entries /\ c \in rows
      /\ Item(r, "accepted")
  BY CurrentReported DEF SInv, ServerInv, SlotShaped, Current, PublishItem
<1>2. /\ copies'[c] > 0
      /\ \A e \in Entries \ {c} : copies'[e] = copies[e]
  <2>1. copies' = [copies EXCEPT ![c] = IF copies[c] = 0 THEN 1 ELSE copies[c]]
    BY DEF PublishItem
  <2> HIDE DEF c
  <2>2. copies[c] \in 0..1
    BY <1>1
  <2> QED BY <1>1, <2>1, <2>2
<1>3. rows' \subseteq Reported' /\ \A e \in Entries : copies'[e] > 0 => e \in rows'
  BY <1>1, <1>2, ReportedGrow
<1> QED BY <1>1, <1>2, <1>3, ItemServes

\* A statement that fails rejects the item.
LEMMA FailureServes ==
  ASSUME SInv, Onwards, NEW r \in Requests, StatementFails(r)
  PROVE  Served(r)
<1>1. /\ rows \subseteq Reported /\ \A e \in Entries : copies[e] > 0 => e \in rows
      /\ server[r].step \in {"record", "publish"} /\ Item(r, "rejected")
      /\ rows' = rows /\ copies' = copies
  BY DEF SInv, ServerInv, StatementFails, tableVars
<1> QED BY <1>1, ItemServes, ReportedGrow

\* A batch ends, whether its answer was taken or nobody waited for it.
LEMMA FreedShaped ==
  ASSUME SInv, Onwards, NEW r \in Requests, server' = [server EXCEPT ![r] = Free],
         rows' = rows, copies' = copies
  PROVE  ServerInv' /\ \A q \in Requests \ {r} : server'[q] = server[q]
<1>1. /\ rows \subseteq Reported /\ \A e \in Entries : copies[e] > 0 => e \in rows
  BY DEF SInv, ServerInv
<1>2. rows' \subseteq Reported' /\ \A e \in Entries : copies'[e] > 0 => e \in rows'
  BY <1>1, ReportedGrow
<1>3. PICK v : v = Free /\ SlotShaped(v)'
  BY FreeShaped DEF Free, SInv
<1> QED BY <1>2, <1>3, OneSlot
-----------------------------------------------------------------------------
(* What the sensor keeps *)

\* What the invariant says of the source and of the backlog.
LEMMA SourceFacts ==
  ASSUME SInv
  PROVE  /\ logged \in Nat /\ Reported \subseteq Entries
         /\ Reported \subseteq Nat /\ Entries \subseteq Nat
         /\ \A e \in Reported : e \in 1..logged
         /\ buffer \in Seq(Reported) /\ chan \in Seq(Reported) /\ Backlog \in Seq(Reported)
         /\ DOMAIN Backlog = 1..Len(Backlog) /\ Len(Backlog) = Len(buffer) + Len(chan)
         /\ Elements(Backlog) = Elements(buffer) \cup Elements(chan)
         /\ Elements(Backlog) \subseteq Reported
         /\ copies \in [Entries -> 0..1]
<1>1. MaxEntries \in Nat
  BY SizesAssumption DEF SInv
<1>2. logged \in Nat /\ logged <= MaxEntries
  BY <1>1 DEF SInv, SourceInv
<1>3. Reported \subseteq Entries
         /\ Reported \subseteq Nat /\ Entries \subseteq Nat
      /\ \A e \in Reported : e \in 1..logged
  BY <1>1, <1>2 DEF Reported, Entries
<1>4. buffer \in Seq(Reported) /\ chan \in Seq(Reported) /\ copies \in [Entries -> 0..1]
  BY DEF SInv, SensorInv, ServerInv
<1> HIDE DEF Reported
<1>5. Backlog \in Seq(Reported) /\ Len(Backlog) = Len(buffer) + Len(chan)
  BY <1>4, Joined DEF Backlog
<1>6. Elements(Backlog) = Elements(buffer) \cup Elements(chan)
  BY <1>4, ElementsJoined DEF Backlog
<1>7. Elements(Backlog) \subseteq Reported
  BY <1>5, ElementsWithin
<1> QED BY <1>2, <1>3, <1>4, <1>5, <1>6, <1>7

\* The front of the backlog is handled and gone, or nothing is: what is left is still
\* preceded only by handled events, and the reader still skips nothing.
LEMMA FrontGone ==
  ASSUME SInv, Onwards, logged' = logged, NEW k \in Nat, DOMAIN Backlog' = 1..Len(Backlog'),
         Len(Backlog') \in Nat, Len(Backlog) = Len(Backlog') + k,
         \A i \in 1..Len(Backlog') : Backlog'[i] = Backlog[i + k],
         \A i \in 1..k : \A e \in Reported : e = Backlog[i] => Handled(e)',
         reader' = reader \/ ~reader'.up
  PROVE  Covered' /\ ReadKept'
<1> DEFINE len == Len(Backlog)
           new == Backlog'
           left == Len(Backlog')
<1>1. /\ Reported \subseteq Entries /\ Reported \subseteq Nat
      /\ Backlog \in Seq(Reported) /\ DOMAIN Backlog = 1..len /\ len \in Nat
      /\ copies \in [Entries -> 0..1]
  BY SourceFacts
<1>2. Reported' = Reported /\ passed \subseteq passed'
  <2>1. kind' = kind
    BY DEF Onwards
  <2>2. \A e : Parse(e)' = Parse(e)
    BY <2>1 DEF Parse, LinuxParse, HaproxyParse, DockerParse
  <2> QED BY <2>2 DEF Reported, Onwards
<1>3. \A e \in Reported : Handled(e) => Handled(e)'
  BY <1>1, HandledStays
<1>4. ASSUME NEW i \in DOMAIN Backlog', NEW e \in Reported' \ passed', e < Backlog'[i]
      PROVE  Handled(e)' \/ \E j \in 1..(i - 1) : Backlog'[j] = e
  <2>1. i \in 1..left /\ i + k \in 1..len /\ new[i] = Backlog[i + k] /\ left \in Nat
    BY <1>1
  <2>2. e \in Reported \ passed /\ e < Backlog[i + k]
    BY <1>2, <1>4, <2>1
  <2>3. Handled(e) \/ \E j \in 1..(i + k - 1) : Backlog[j] = e
    BY <1>1, <2>1, <2>2 DEF SInv, LossInv, Covered
  <2>4. CASE Handled(e)
    BY <1>3, <2>2, <2>4
  <2>5. ASSUME NEW j \in 1..(i + k - 1), Backlog[j] = e
        PROVE  Handled(e)' \/ \E l \in 1..(i - 1) : Backlog'[l] = e
    <3>1. CASE j \in 1..k
      BY <2>2, <2>5, <3>1
    <3>2. CASE j > k
      <4>1. j - k \in 1..left /\ j - k \in 1..(i - 1) /\ (j - k) + k = j
        BY <2>1, <2>5, <3>2
      <4>2. Backlog'[j - k] = Backlog[j]
        BY <4>1
      <4> QED BY <2>5, <4>1, <4>2
    <3> QED BY <2>1, <3>1, <3>2
  <2> QED BY <2>3, <2>4, <2>5
<1>5. ASSUME NEW e \in Reported' \ passed', reader'.up, e < reader'.next
      PROVE  Handled(e)' \/ e \in Elements(Backlog)'
  <2>1. e \in Reported \ passed /\ reader.up /\ e < reader.next
    BY <1>2, <1>5
  <2>2. Handled(e) \/ e \in Elements(Backlog)
    BY <2>1 DEF SInv, LossInv, ReadKept
  <2>3. CASE Handled(e)
    BY <1>3, <2>1, <2>3
  <2>4. CASE e \in Elements(Backlog)
    <3>1. PICK j \in 1..len : Backlog[j] = e
      BY <1>1, <2>4 DEF Elements
    <3>2. CASE j \in 1..k
      BY <2>1, <3>1, <3>2
    <3>3. CASE j > k
      <4>1. j - k \in 1..left /\ (j - k) + k = j
        BY <1>1, <3>1, <3>3
      <4>2. Backlog'[j - k] = Backlog[j]
        BY <4>1
      <4>3. j - k \in DOMAIN Backlog'
        BY <4>1
      <4> QED BY <3>1, <4>2, <4>3 DEF Elements
    <3> QED BY <1>1, <3>2, <3>3
  <2> QED BY <2>2, <2>3, <2>4
<1>6. Covered'
  BY <1>4 DEF Covered
<1>7. ReadKept'
  BY <1>5 DEF ReadKept
<1> QED BY <1>6, <1>7

\* The checkpoint stays: what lies behind it stays handled.
LEMMA BehindKept ==
  ASSUME SInv, Onwards, logged' = logged, checkpoint' = checkpoint
  PROVE  BehindHandled'
<1>1. Reported \subseteq Entries /\ copies \in [Entries -> 0..1]
  BY SourceFacts
<1>2. Reported' = Reported /\ passed \subseteq passed' /\ Journal' = Journal
  <2>1. kind' = kind
    BY DEF Onwards
  <2>2. \A e : Parse(e)' = Parse(e)
    BY <2>1 DEF Parse, LinuxParse, HaproxyParse, DockerParse
  <2> QED BY <2>1, <2>2 DEF Reported, Onwards, Journal
<1>3. ASSUME NEW e \in Reported' \ passed', Behind(e)' PROVE Handled(e)'
  <2>1. Behind(e) /\ e \in Reported \ passed
    BY <1>2, <1>3 DEF Behind
  <2>2. Handled(e)
    BY <2>1 DEF SInv, LossInv, BehindHandled
  <2> QED BY <1>1, <2>1, <2>2, HandledStays
<1> QED BY <1>3 DEF BehindHandled

\* Backlog and checkpoint stay.
LEMMA NothingGone ==
  ASSUME SInv, Onwards, logged' = logged, checkpoint' = checkpoint, Backlog' = Backlog,
         reader' = reader \/ ~reader'.up
  PROVE  LossInv'
<1>1. DOMAIN Backlog = 1..Len(Backlog) /\ Len(Backlog) \in Nat
  BY SourceFacts
<1>2. Covered' /\ ReadKept'
  <2> DEFINE k == 0
  <2>1. /\ k \in Nat /\ Len(Backlog) = Len(Backlog') + k
        /\ \A i \in 1..Len(Backlog') : Backlog'[i] = Backlog[i + k]
        /\ \A i \in 1..k : \A e \in Reported : e = Backlog[i] => Handled(e)'
    BY <1>1
  <2> HIDE DEF k
  <2> QED BY <1>1, <2>1, FrontGone
<1> QED BY <1>2, BehindKept DEF LossInv

\* What the sender posts is the front of its buffer; the Docker sensor posts all of it.
LEMMA ChunkShaped ==
  ASSUME SInv, buffer # <<>>
  PROVE  /\ Chunk \in Seq(Reported) /\ Len(Chunk) \in 1..Len(buffer)
         /\ \A i \in 1..Len(Chunk) : Chunk[i] = buffer[i]
         /\ Journal => Len(Chunk) <= BatchMax
         /\ ~Journal => Chunk = buffer
<1>1. buffer \in Seq(Reported) /\ Len(buffer) \in Nat /\ Len(buffer) >= 1
  BY SourceFacts
<1>2. BatchMax \in Nat /\ BatchMax >= 1
  BY SizesAssumption DEF SInv
<1>3. CASE Journal /\ Len(buffer) > BatchMax
  <2>1. BatchMax \in 0..Len(buffer) /\ Chunk = SubSeq(buffer, 1, BatchMax)
    BY <1>1, <1>2, <1>3 DEF Chunk
  <2>2. SubSeq(buffer, 1, BatchMax) \in Seq(Reported) /\ Len(SubSeq(buffer, 1, BatchMax)) = BatchMax
        /\ \A i \in 1..BatchMax : SubSeq(buffer, 1, BatchMax)[i] = buffer[i]
    BY <1>1, <2>1, Split
  <2> QED BY <1>1, <1>2, <1>3, <2>1, <2>2
<1>4. CASE ~(Journal /\ Len(buffer) > BatchMax)
  BY <1>1, <1>2, <1>4 DEF Chunk
<1> QED BY <1>3, <1>4

\* The sensor does not move, and the batch it waits for stays with the server.
LEMMA SensorStays ==
  ASSUME SInv, Onwards, UNCHANGED sensorVars,
         sending \in Requests /\ server[sending].step # "free" =>
           server'[sending].step # "free" /\ server'[sending].batch = server[sending].batch
  PROVE  SensorInv' /\ Backlog' = Backlog
<1>1. /\ reader' = reader /\ chan' = chan /\ buffer' = buffer /\ sending' = sending
      /\ checkpoint' = checkpoint /\ kind' = kind
      /\ logged \in Nat /\ logged' \in Nat /\ logged <= logged'
  BY DEF sensorVars, Onwards
<1>2. Journal' = Journal /\ Chunk' = Chunk
  BY <1>1 DEF Journal, Chunk
<1>3. Reported \subseteq Reported'
  BY ReportedGrow
<1>4. chan' \in Seq(Reported') /\ buffer' \in Seq(Reported')
  <2>1. chan \in Seq(Reported) /\ buffer \in Seq(Reported)
    BY DEF SInv, SensorInv
  <2> HIDE DEF Reported
  <2> QED BY <1>1, <1>3, <2>1
<1>5. reader' \in [up : BOOLEAN, next : 1..(logged' + 1)]
  <2>1. reader \in [up : BOOLEAN, next : 1..(logged + 1)]
    BY DEF SInv, SensorInv
  <2>2. 1..(logged + 1) \subseteq 1..(logged' + 1)
    <3>1. logged \in Nat /\ logged' \in Nat /\ logged <= logged'
      BY <1>1
    <3>2. \A a, b \in Nat : a <= b => 1..(a + 1) \subseteq 1..(b + 1)
      OBVIOUS
    <3> QED BY <3>1, <3>2
  <2> QED BY <1>1, <2>1, <2>2
<1>6. checkpoint' = None \/ \E f \in 1..logged' : checkpoint' = Cursor(f)'
  <2>1. CASE checkpoint = None
    BY <1>1, <2>1
  <2>2. ASSUME NEW f \in 1..logged, checkpoint = Cursor(f)
        PROVE  \E g \in 1..logged' : checkpoint' = Cursor(g)'
    <3>1. f \in 1..logged' /\ checkpoint' = Cursor(f)'
      BY <1>1, <1>2, <2>2 DEF Cursor
    <3> QED BY <3>1
  <2> QED BY <2>1, <2>2 DEF SInv, SensorInv
<1>7. \/ sending' = SenderIdle
      \/ sending' = Flushing /\ buffer' # <<>>
      \/ /\ sending' \in Requests /\ buffer' # <<>>
         /\ server'[sending'].step # "free" /\ server'[sending'].batch = Chunk'
  BY <1>1, <1>2 DEF SInv, SensorInv
<1>8. Len(chan') <= ChannelCap /\ Len(buffer') <= MaxBuffered + (IF sending' = SenderIdle THEN 0 ELSE 1)
  BY <1>1 DEF SInv, SensorInv
<1>9. Backlog' = Backlog
  BY <1>1 DEF Backlog
<1> QED BY <1>4, <1>5, <1>6, <1>7, <1>8, <1>9 DEF SensorInv

\* The server's own steps.
LEMMA ServerSteps ==
  ASSUME SInv, Onwards, UNCHANGED serverOnly, NEW r \in Requests,
         Served(r) \/ (Abandoned(r) /\ rows' = rows /\ copies' = copies)
  PROVE  ServerInv' /\ SensorInv' /\ LossInv'
<1>1. /\ logged' = logged /\ UNCHANGED sensorVars /\ checkpoint' = checkpoint /\ reader' = reader
  BY DEF serverOnly, sourceVars, sensorVars
<1>2. ServerInv'
  BY FreedShaped DEF Served, Abandoned
<1>3. sending \in Requests /\ server[sending].step # "free" =>
        server'[sending].step # "free" /\ server'[sending].batch = server[sending].batch
  <2>1. CASE Served(r)
    <3>1. CASE sending = r
      BY <2>1, <3>1 DEF Served
    <3>2. CASE sending # r
      BY <2>1, <3>2 DEF Served
    <3> QED BY <3>1, <3>2
  <2>2. CASE Abandoned(r) /\ rows' = rows /\ copies' = copies
    <3>1. sending # r /\ \A q \in Requests \ {r} : server'[q] = server[q]
      BY <2>2, FreedShaped DEF Abandoned
    <3> QED BY <3>1
  <2> QED BY <2>1, <2>2
<1>4. SensorInv' /\ Backlog' = Backlog
  BY <1>1, <1>3, SensorStays
<1> QED BY <1>1, <1>2, <1>4, NothingGone

\* Age and the owner's steps touch neither side.
LEMMA OutsideSteps ==
  ASSUME SInv, Onwards, Age \/ Rotate \/ Revoke \/ UNCHANGED ingressVars
  PROVE  ServerInv' /\ SensorInv' /\ LossInv'
<1>1. /\ logged' = logged /\ UNCHANGED sensorVars /\ checkpoint' = checkpoint /\ reader' = reader
      /\ server' = server /\ rows' = rows /\ copies' = copies
  BY DEF Age, Rotate, Revoke, ingressVars, sourceVars, sensorVars, tableVars
<1>2. SensorInv' /\ Backlog' = Backlog
  BY <1>1, SensorStays
<1> QED BY <1>1, <1>2, NothingGone, SlotsStay

\* Cursors grow with the entries.
LEMMA CursorOrder ==
  ASSUME SInv, NEW e \in Entries, NEW f \in Entries, checkpoint = Cursor(f), Behind(e)
  PROVE  e <= f /\ (~Journal => e < f)
<1>1. e \in Nat /\ f \in Nat
  BY SourceFacts
<1>2. SecondOf[e] \in Nat /\ SecondOf[f] \in Nat /\ (f <= e => SecondOf[f] <= SecondOf[e])
  <2>1. SecondOf \in [Entries -> Nat] /\ \A x, y \in Entries : x < y => SecondOf[x] <= SecondOf[y]
    BY SourceAssumption DEF SInv
  <2>2. CASE f = e
    BY <2>1, <2>2
  <2>3. CASE f # e
    BY <1>1, <2>1, <2>3
  <2> QED BY <2>2, <2>3
<1>3. CASE Journal
  BY <1>3 DEF Behind, Cursor
<1>4. CASE ~Journal
  BY <1>1, <1>2, <1>4 DEF Behind, Cursor
<1> QED BY <1>3, <1>4

\* A new entry lies behind no checkpoint and no backlog.
LEMMA LogStep ==
  ASSUME SInv, Onwards, LogEntry
  PROVE  ServerInv' /\ SensorInv' /\ LossInv'
<1>1. /\ logged' = logged + 1 /\ UNCHANGED sensorVars /\ checkpoint' = checkpoint
      /\ reader' = reader /\ server' = server /\ rows' = rows /\ copies' = copies
      /\ refused' = refused /\ dropped' = dropped /\ passed' = passed /\ kind' = kind
  BY DEF LogEntry, sensorVars, tableVars, totals
<1>2. SensorInv' /\ Backlog' = Backlog
  BY <1>1, SensorStays
<1>3. /\ logged \in Nat /\ Backlog \in Seq(Reported) /\ Reported \subseteq Entries
      /\ DOMAIN Backlog = 1..Len(Backlog)
      /\ \A e \in Reported : e \in 1..logged
  BY SourceFacts
<1>4. Reported' \subseteq Reported \cup {logged + 1} /\ (logged + 1) \in Entries
      /\ 1..logged \subseteq Entries
  <2>1. \A e : Parse(e)' = Parse(e)
    BY <1>1 DEF Parse, LinuxParse, HaproxyParse, DockerParse
  <2>2. 1..(logged + 1) = 1..logged \cup {logged + 1}
    BY <1>3
  <2>3. MaxEntries \in Nat /\ logged < MaxEntries
    BY SizesAssumption DEF SInv, LogEntry
  <2>4. (logged + 1) \in Entries /\ 1..logged \subseteq Entries
    BY <1>3, <2>3 DEF Entries
  <2> QED BY <1>1, <2>1, <2>2, <2>4 DEF Reported
<1>5. \A e \in Entries : (Handled(e)' <=> Handled(e)) /\ (Behind(e)' <=> Behind(e))
  BY <1>1 DEF Handled, Behind, Journal
<1>6. Covered'
  <2> SUFFICES ASSUME NEW i \in DOMAIN Backlog, NEW e \in Reported' \ passed, e < Backlog[i]
               PROVE  Handled(e) \/ \E j \in 1..(i - 1) : Backlog[j] = e
    BY <1>1, <1>2, <1>3, <1>4, <1>5 DEF Covered
  <2>1. Backlog[i] \in Reported
    BY <1>3
  <2>2. e \in Reported
    BY <1>3, <1>4, <2>1
  <2> QED BY <2>2 DEF SInv, LossInv, Covered
<1>7. ReadKept'
  <2> SUFFICES ASSUME NEW e \in Reported' \ passed, reader.up, e < reader.next
               PROVE  Handled(e) \/ e \in Elements(Backlog)
    BY <1>1, <1>2, <1>3, <1>4, <1>5 DEF ReadKept
  <2>1. reader.next \in 1..(logged + 1)
    BY DEF SInv, SensorInv
  <2>2. e \in Reported
    BY <1>3, <1>4, <2>1
  <2> QED BY <2>2 DEF SInv, LossInv, ReadKept
<1>8. BehindHandled'
  <2> SUFFICES ASSUME NEW e \in Reported' \ passed, Behind(e)
               PROVE  Handled(e)
    BY <1>1, <1>3, <1>4, <1>5 DEF BehindHandled
  <2>1. PICK f \in 1..logged : checkpoint = Cursor(f)
    BY DEF Behind, SInv, SensorInv
  <2>2. e <= f
    BY <1>3, <1>4, <2>1, CursorOrder
  <2>3. e \in Reported
    BY <1>3, <1>4, <2>1, <2>2
  <2> QED BY <2>3 DEF SInv, LossInv, BehindHandled
<1> QED BY <1>1, <1>2, <1>6, <1>7, <1>8, SlotsStay DEF LossInv

\* Where the stream begins: everything before it lies behind the checkpoint.
LEMMA Resumes ==
  ASSUME SInv
  PROVE  /\ ResumeAt(checkpoint) \in 1..(logged + 1)
         /\ checkpoint = None => ResumeAt(checkpoint) = logged + 1
         /\ \A e \in Reported : checkpoint # None /\ e < ResumeAt(checkpoint) => Behind(e)
<1> DEFINE at == ResumeAt(checkpoint)
<1>1. /\ logged \in Nat /\ \A e \in Reported : e \in 1..logged
  BY SourceFacts
<1>2. CASE checkpoint = None
  BY <1>1, <1>2 DEF ResumeAt
<1>3. ASSUME checkpoint # None, NEW f \in 1..logged, checkpoint = Cursor(f), Journal
      PROVE  at \in 1..(logged + 1) /\ \A e \in Reported : e < at => Behind(e)
  BY <1>1, <1>3 DEF ResumeAt, Behind, Cursor
<1>4. ASSUME checkpoint # None, NEW f \in 1..logged, checkpoint = Cursor(f), ~Journal
      PROVE  at \in 1..(logged + 1) /\ \A e \in Reported : e < at => Behind(e)
  <2> DEFINE Starts == {m \in 1..(logged + 1) : m <= logged => SecondOf[m] >= checkpoint}
             From(n) == /\ \A e \in 1..(n - 1) : SecondOf[e] < checkpoint
                        /\ n <= logged => SecondOf[n] >= checkpoint
  <2>1. \A e \in 1..logged : SecondOf[e] \in Nat
    <3>1. SecondOf \in [Entries -> Nat] /\ MaxEntries \in Nat
      BY SourceAssumption, SizesAssumption DEF SInv
    <3>2. logged <= MaxEntries
      BY <3>1 DEF SInv, SourceInv
    <3> QED BY <1>1, <3>1, <3>2 DEF Entries
  <2>2. checkpoint \in Nat
    BY <1>4, <2>1 DEF Cursor
  <2>3. Starts \in SUBSET Nat /\ (logged + 1) \in Starts
    BY <1>1
  <2>4. PICK m \in Starts : \A i \in Starts : m <= i
    BY <2>3, SmallestMember
  <2>5. From(m)
    <3>1. ASSUME NEW e \in 1..(m - 1) PROVE SecondOf[e] < checkpoint
      <4>1. e \in 1..logged /\ ~(m <= e)
        BY <1>1, <2>4
      <4>2. e \notin Starts
        BY <2>4, <4>1
      <4>3. ~(SecondOf[e] >= checkpoint)
        BY <1>1, <4>1, <4>2
      <4> QED BY <2>1, <2>2, <4>1, <4>3
    <3> QED BY <2>4, <3>1
  <2>6. at = CHOOSE n \in 1..(logged + 1) : From(n)
    BY <1>4 DEF ResumeAt
  <2> HIDE DEF From, at
  <2>7. at \in 1..(logged + 1) /\ From(at)
    BY <2>4, <2>5, <2>6
  <2>8. ASSUME NEW e \in Reported, e < at PROVE Behind(e)
    <3>1. e \in 1..(at - 1)
      BY <1>1, <2>7, <2>8
    <3>2. SecondOf[e] < checkpoint
      BY <2>7, <3>1 DEF From
    <3> QED BY <1>4, <3>2 DEF Behind
  <2> QED BY <2>7, <2>8
<1> QED BY <1>2, <1>3, <1>4 DEF SInv, SensorInv

\* A stream is opened: what it passes over is handled, queued or counted as passed.
LEMMA ConnectStep ==
  ASSUME SInv, Onwards, Connect
  PROVE  ServerInv' /\ SensorInv' /\ LossInv'
<1> DEFINE at == ResumeAt(checkpoint)
<1>1. /\ reader' = [up |-> TRUE, next |-> at]
      /\ passed' = IF checkpoint = None
                   THEN passed \cup ((1..logged) \ (Elements(chan) \cup Elements(buffer)))
                   ELSE passed
      /\ chan' = chan /\ buffer' = buffer /\ sending' = sending /\ checkpoint' = checkpoint
      /\ server' = server /\ rows' = rows /\ copies' = copies /\ kind' = kind
      /\ logged' = logged /\ refused' = refused /\ dropped' = dropped
  BY DEF Connect, sourceVars, tableVars
<1>2. /\ at \in 1..(logged + 1)
      /\ checkpoint = None => at = logged + 1
      /\ \A e \in Reported : checkpoint # None /\ e < at => Behind(e)
  BY Resumes
<1> HIDE DEF at
<1>3. /\ Backlog' = Backlog /\ Journal' = Journal /\ Chunk' = Chunk
      /\ Reported' = Reported
      /\ \A f : Cursor(f)' = Cursor(f)
  <2>1. \A e : Parse(e)' = Parse(e)
    BY <1>1 DEF Parse, LinuxParse, HaproxyParse, DockerParse
  <2> QED BY <1>1, <2>1 DEF Backlog, Journal, Chunk, Reported, Cursor
<1>4. SensorInv'
  <2>1. reader' \in [up : BOOLEAN, next : 1..(logged' + 1)]
    BY <1>1, <1>2
  <2> HIDE DEF Reported
  <2> QED BY <1>1, <1>3, <2>1 DEF SInv, SensorInv
<1>5. /\ logged \in Nat /\ \A e \in Reported : e \in 1..logged
      /\ Elements(Backlog) = Elements(buffer) \cup Elements(chan)
      /\ Reported \subseteq Entries
  BY SourceFacts
<1>6. passed \subseteq passed' /\ \A e \in Entries : Handled(e) => Handled(e)'
  BY <1>1 DEF Handled
<1>7. Covered'
  <2> SUFFICES ASSUME NEW i \in DOMAIN Backlog, NEW e \in Reported \ passed', e < Backlog[i]
               PROVE  Handled(e)' \/ \E j \in 1..(i - 1) : Backlog[j] = e
    BY <1>3 DEF Covered
  <2>1. Handled(e) \/ \E j \in 1..(i - 1) : Backlog[j] = e
    BY <1>6 DEF SInv, LossInv, Covered
  <2> QED BY <1>5, <1>6, <2>1
<1>8. ReadKept'
  <2> SUFFICES ASSUME NEW e \in Reported \ passed', e < at
               PROVE  Handled(e)' \/ e \in Elements(Backlog)
    BY <1>1, <1>3 DEF ReadKept, Elements
  <2>1. CASE checkpoint = None
    BY <1>1, <1>5, <2>1
  <2>2. CASE checkpoint # None
    <3>1. Behind(e) /\ e \in Reported \ passed
      BY <1>2, <1>6, <2>2
    <3>2. Handled(e)
      BY <3>1 DEF SInv, LossInv, BehindHandled
    <3> QED BY <1>5, <1>6, <3>2
  <2> QED BY <2>1, <2>2
<1> QED BY <1>1, <1>4, <1>7, <1>8, SlotsStay, BehindKept DEF LossInv

\* The slots, when the sensor's step leaves the server alone, and the definitions that
\* depend on the source alone.
LEMMA SourceStays ==
  ASSUME kind' = kind, logged' = logged
  PROVE  /\ Reported' = Reported /\ Journal' = Journal
         /\ \A f : Cursor(f)' = Cursor(f) /\ Parse(f)' = Parse(f)
<1>1. \A e : Parse(e)' = Parse(e)
  BY DEF Parse, LinuxParse, HaproxyParse, DockerParse
<1> QED BY <1>1 DEF Journal, Reported, Cursor

\* The end of the stream, or of the process: nothing is read until it is opened again.
LEMMA ReaderDown ==
  ASSUME SInv, Onwards, StreamEnds \/ SensorCrash
  PROVE  ServerInv' /\ SensorInv' /\ LossInv'
<1>1. /\ reader'.up = FALSE /\ reader' \in [up : BOOLEAN, next : 1..(logged + 1)]
      /\ checkpoint' = checkpoint /\ server' = server /\ rows' = rows
      /\ copies' = copies /\ kind' = kind /\ logged' = logged
  <2>1. reader \in [up : BOOLEAN, next : 1..(logged + 1)] /\ 1 \in 1..(logged + 1)
    BY SourceFacts DEF SInv, SensorInv
  <2>2. CASE StreamEnds
    BY <2>1, <2>2 DEF StreamEnds, sourceVars, tableVars
  <2>3. CASE SensorCrash
    BY <2>1, <2>3 DEF SensorCrash, sourceVars, tableVars
  <2> QED BY <2>2, <2>3
<1>2. Reported' = Reported /\ Journal' = Journal /\ \A f : Cursor(f)' = Cursor(f)
  BY <1>1, SourceStays
<1>3. CASE StreamEnds
  <2>1. chan' = chan /\ buffer' = buffer /\ sending' = sending
    BY <1>3 DEF StreamEnds
  <2>2. Chunk' = Chunk /\ Backlog' = Backlog
    BY <1>2, <2>1 DEF Chunk, Backlog
  <2>3. SensorInv'
    <3> HIDE DEF Reported
    <3> QED BY <1>1, <1>2, <2>1, <2>2 DEF SInv, SensorInv
  <2> QED BY <1>1, <2>2, <2>3, SlotsStay, NothingGone
<1>4. CASE SensorCrash
  <2>1. chan' = <<>> /\ buffer' = <<>> /\ sending' = SenderIdle
    BY <1>4 DEF SensorCrash
  <2>2. MaxBuffered \in Nat /\ ChannelCap \in Nat
    BY SizesAssumption DEF SInv
  <2>3. SensorInv'
    <3> HIDE DEF Reported
    <3>1. /\ chan' \in Seq(Reported') /\ buffer' \in Seq(Reported')
          /\ Len(chan') = 0 /\ Len(buffer') = 0
      BY <2>1
    <3>2. checkpoint' = None \/ \E f \in 1..logged' : checkpoint' = Cursor(f)'
      BY <1>1, <1>2 DEF SInv, SensorInv
    <3> QED BY <1>1, <2>1, <2>2, <3>1, <3>2 DEF SensorInv
  <2>4. Backlog' = <<>> /\ DOMAIN <<>> = {}
    BY <2>1 DEF Backlog
  <2>5. Covered' /\ ReadKept'
    BY <1>1, <2>4 DEF Covered, ReadKept
  <2> QED BY <1>1, <2>3, <2>5, SlotsStay, BehindKept DEF LossInv
<1> QED BY <1>3, <1>4

\* A line is queued at the end of the backlog: the reader has kept all before it.
LEMMA ReadStep ==
  ASSUME SInv, Onwards, ReadLine
  PROVE  ServerInv' /\ SensorInv' /\ LossInv'
<1> DEFINE e == reader.next
<1>1. /\ reader.up /\ e <= logged /\ reader' = [reader EXCEPT !.next = e + 1]
      /\ Parse(e) = "queue" => Len(chan) < ChannelCap
      /\ chan' = IF Parse(e) = "queue" THEN Append(chan, e) ELSE chan
      /\ buffer' = buffer /\ sending' = sending /\ checkpoint' = checkpoint
      /\ server' = server /\ rows' = rows /\ copies' = copies /\ kind' = kind
      /\ logged' = logged /\ refused' = refused /\ passed' = passed /\ dropped \subseteq dropped'
  BY DEF ReadLine, sourceVars, tableVars
<1>2. /\ Reported' = Reported /\ Journal' = Journal /\ \A f : Cursor(f)' = Cursor(f)
  BY <1>1, SourceStays
<1>3. /\ logged \in Nat /\ Reported \subseteq Entries /\ Reported \subseteq Nat
      /\ \A x \in Reported : x \in 1..logged
      /\ buffer \in Seq(Reported) /\ chan \in Seq(Reported) /\ Backlog \in Seq(Reported)
      /\ DOMAIN Backlog = 1..Len(Backlog) /\ Len(Backlog) \in Nat /\ Len(chan) \in Nat
      /\ reader \in [up : BOOLEAN, next : 1..(logged + 1)]
      /\ Len(chan) <= ChannelCap /\ ChannelCap \in Nat
  <2>1. ChannelCap \in Nat
    BY SizesAssumption DEF SInv
  <2>2. reader \in [up : BOOLEAN, next : 1..(logged + 1)] /\ Len(chan) <= ChannelCap
    BY DEF SInv, SensorInv
  <2>3. /\ logged \in Nat /\ Reported \subseteq Entries /\ Reported \subseteq Nat
        /\ \A x \in Reported : x \in 1..logged
        /\ buffer \in Seq(Reported) /\ chan \in Seq(Reported) /\ Backlog \in Seq(Reported)
        /\ DOMAIN Backlog = 1..Len(Backlog)
    BY SourceFacts
  <2> HIDE DEF Reported, Backlog
  <2>4. Len(Backlog) \in Nat /\ Len(chan) \in Nat
    BY <2>3
  <2> QED BY <2>1, <2>2, <2>3, <2>4
<1>4. /\ e \in 1..logged /\ reader'.next = e + 1 /\ reader'.up
      /\ reader' \in [up : BOOLEAN, next : 1..(logged + 1)]
  <2>1. e \in 1..(logged + 1) /\ e \in 1..logged
    BY <1>1, <1>3
  <2>2. (e + 1) \in 1..(logged + 1)
    BY <1>3, <2>1
  <2>3. reader' = [reader EXCEPT !.next = e + 1] /\ reader.up
    BY <1>1
  <2>4. reader \in [up : BOOLEAN, next : 1..(logged + 1)]
    BY <1>3
  <2> HIDE DEF e
  <2> QED BY <2>1, <2>2, <2>3, <2>4
<1>5. Parse(e) = "queue" <=> e \in Reported
  BY <1>4 DEF Reported
<1> HIDE DEF e, Reported
<1>6. chan' \in Seq(Reported) /\ Len(chan') <= ChannelCap
  BY <1>1, <1>3, <1>5
<1>7. Backlog' = IF e \in Reported THEN Append(Backlog, e) ELSE Backlog
  <2>1. e \in Reported => buffer \o Append(chan, e) = Append(buffer \o chan, e)
    BY <1>3
  <2> QED BY <1>1, <1>5, <2>1 DEF Backlog
<1>8. SensorInv'
  <2>1. Chunk' = Chunk
    BY <1>1, <1>2 DEF Chunk
  <2> QED BY <1>1, <1>2, <1>4, <1>6, <2>1 DEF SInv, SensorInv
<1>9. \A x \in Entries : Handled(x) => Handled(x)'
  BY <1>1 DEF Handled
<1>10. \A x \in Reported \ passed : x < e => Handled(x)' \/ \E j \in 1..Len(Backlog) : Backlog[j] = x
  <2> SUFFICES ASSUME NEW x \in Reported \ passed, x < e
               PROVE  Handled(x)' \/ \E j \in 1..Len(Backlog) : Backlog[j] = x
    OBVIOUS
  <2>1. Handled(x) \/ x \in Elements(Backlog)
    BY <1>1 DEF SInv, LossInv, ReadKept, e
  <2> QED BY <1>3, <1>9, <2>1 DEF Elements
<1>11. /\ DOMAIN Backlog' = 1..Len(Backlog') /\ Len(Backlog') \in Nat
       /\ Len(Backlog') = IF e \in Reported THEN Len(Backlog) + 1 ELSE Len(Backlog)
       /\ \A i \in 1..Len(Backlog) : Backlog'[i] = Backlog[i]
       /\ e \in Reported => Backlog'[Len(Backlog) + 1] = e
  BY <1>3, <1>7
<1>12. Covered'
  <2> SUFFICES ASSUME NEW i \in DOMAIN Backlog', NEW x \in Reported \ passed, x < Backlog'[i]
               PROVE  Handled(x)' \/ \E j \in 1..(i - 1) : Backlog'[j] = x
    BY <1>1, <1>2 DEF Covered
  <2>1. CASE i \in 1..Len(Backlog)
    <3>1. i \in DOMAIN Backlog /\ x < Backlog[i]
      BY <1>3, <1>11, <2>1
    <3>2. Handled(x) \/ \E j \in 1..(i - 1) : Backlog[j] = x
      BY <3>1 DEF SInv, LossInv, Covered
    <3>3. \A j \in 1..(i - 1) : Backlog'[j] = Backlog[j]
      BY <1>3, <1>11, <2>1
    <3> QED BY <1>3, <1>9, <3>2, <3>3
  <2>2. CASE i \notin 1..Len(Backlog)
    <3>1. i = Len(Backlog) + 1 /\ e \in Reported /\ Backlog'[i] = e
      BY <1>3, <1>11, <2>2
    <3>2. Handled(x)' \/ \E j \in 1..Len(Backlog) : Backlog[j] = x
      BY <1>10, <3>1
    <3> QED BY <1>3, <1>11, <3>1, <3>2
  <2> QED BY <2>1, <2>2
<1>13. ReadKept'
  <2> SUFFICES ASSUME NEW x \in Reported \ passed, x < e + 1
               PROVE  Handled(x)' \/ \E j \in 1..Len(Backlog') : Backlog'[j] = x
    BY <1>1, <1>2, <1>4, <1>11 DEF ReadKept, Elements
  <2>1. CASE x = e
    <3>1. Len(Backlog') = Len(Backlog) + 1 /\ Backlog'[Len(Backlog) + 1] = x
      BY <1>11, <2>1
    <3> QED BY <1>3, <3>1
  <2>2. CASE x # e
    <3>1. x < e
      BY <1>3, <1>4, <2>2
    <3>2. Handled(x)' \/ \E j \in 1..Len(Backlog) : Backlog[j] = x
      BY <1>10, <3>1
    <3>3. \A j \in 1..Len(Backlog) : j \in 1..Len(Backlog') /\ Backlog'[j] = Backlog[j]
      BY <1>3, <1>11
    <3> QED BY <3>2, <3>3
  <2> QED BY <2>1, <2>2
<1> QED BY <1>1, <1>8, <1>12, <1>13, SlotsStay, BehindKept DEF LossInv

\* A queued event moves to the retry buffer; the buffer is about to be posted.
LEMMA QueueSteps ==
  ASSUME SInv, Onwards, Receive \/ FlushTick
  PROVE  ServerInv' /\ SensorInv' /\ LossInv'
<1>1. /\ reader' = reader /\ checkpoint' = checkpoint /\ server' = server /\ rows' = rows
      /\ copies' = copies /\ kind' = kind /\ logged' = logged /\ sending = SenderIdle
      /\ sending' \in {SenderIdle, Flushing}
  BY DEF Receive, FlushTick, sourceVars, tableVars
<1>2. /\ Reported' = Reported /\ Journal' = Journal /\ \A f : Cursor(f)' = Cursor(f)
  BY <1>1, SourceStays
<1>3. buffer \in Seq(Reported) /\ chan \in Seq(Reported) /\ Len(buffer) \in Nat /\ Len(chan) \in Nat
  <2>1. buffer \in Seq(Reported) /\ chan \in Seq(Reported)
    BY SourceFacts
  <2> HIDE DEF Reported
  <2> QED BY <2>1
<1>4. /\ BatchMax \in Nat /\ MaxBuffered \in Nat /\ BatchMax <= MaxBuffered
      /\ BatchMax >= 1 /\ ChannelCap \in Nat
  BY SizesAssumption DEF SInv
<1>5. Len(buffer) <= MaxBuffered /\ Len(chan) <= ChannelCap
  BY <1>1, <1>4 DEF SInv, SensorInv
<1>6. /\ chan' \in Seq(Reported) /\ Len(chan') <= ChannelCap
      /\ buffer' \in Seq(Reported) /\ Backlog' = Backlog
      /\ Len(buffer') <= MaxBuffered + (IF sending' = SenderIdle THEN 0 ELSE 1)
      /\ sending' = Flushing => buffer' # <<>>
  <2> HIDE DEF Reported
  <2>1. CASE Receive
    <3>1. /\ chan # <<>> /\ chan' = Tail(chan) /\ buffer' = Append(buffer, Head(chan))
          /\ sending' = IF Len(buffer) + 1 >= BatchMax THEN Flushing ELSE SenderIdle
      BY <2>1 DEF Receive
    <3>2. /\ buffer' \o chan' = buffer \o chan
          /\ buffer' \in Seq(Reported) /\ Len(buffer') = Len(buffer) + 1
          /\ chan' \in Seq(Reported) /\ Len(chan') = Len(chan) - 1
      BY <1>3, <3>1, HeadMoves
    <3>3. Backlog' = Backlog
      BY <3>2 DEF Backlog
    <3>4. Len(chan') <= ChannelCap
      BY <1>3, <1>4, <1>5, <3>2
    <3>5. Len(buffer') <= MaxBuffered + (IF sending' = SenderIdle THEN 0 ELSE 1)
      <4>1. CASE Len(buffer) + 1 >= BatchMax
        BY <1>3, <1>4, <1>5, <3>1, <3>2, <4>1 DEF SenderIdle, Flushing
      <4>2. CASE ~(Len(buffer) + 1 >= BatchMax)
        BY <1>3, <1>4, <1>5, <3>1, <3>2, <4>2
      <4> QED BY <4>1, <4>2
    <3>6. buffer' # <<>>
      BY <1>3, <3>2
    <3> QED BY <3>2, <3>3, <3>4, <3>5, <3>6
  <2>2. CASE FlushTick
    <3>1. buffer # <<>> /\ chan' = chan /\ buffer' = buffer
      BY <2>2 DEF FlushTick
    <3> QED BY <1>1, <1>3, <1>4, <1>5, <3>1 DEF Backlog, SenderIdle
  <2> QED BY <2>1, <2>2
<1>7. SensorInv'
  <2>1. checkpoint' = None \/ \E f \in 1..logged' : checkpoint' = Cursor(f)'
    BY <1>1, <1>2 DEF SInv, SensorInv
  <2>2. reader' \in [up : BOOLEAN, next : 1..(logged' + 1)]
    BY <1>1 DEF SInv, SensorInv
  <2> HIDE DEF Reported
  <2> QED BY <1>1, <1>2, <1>6, <2>1, <2>2 DEF SensorInv
<1> QED BY <1>1, <1>6, <1>7, SlotsStay, NothingGone

\* A posted batch is the front of the buffer.
LEMMA PostStep ==
  ASSUME SInv, Onwards, NEW r \in Requests, Post(r)
  PROVE  ServerInv' /\ SensorInv' /\ LossInv'
<1> DEFINE x == [step |-> "auth", batch |-> Chunk, cred |-> held, item |-> 1, results |-> <<>>]
<1>1. /\ sending = Flushing /\ server' = [server EXCEPT ![r] = x] /\ sending' = r
      /\ reader' = reader /\ checkpoint' = checkpoint /\ rows' = rows /\ chan' = chan
      /\ buffer' = buffer /\ copies' = copies /\ kind' = kind /\ logged' = logged
  BY DEF Post, sourceVars, tableVars
<1>2. /\ Reported' = Reported /\ Journal' = Journal /\ \A f : Cursor(f)' = Cursor(f)
  BY <1>1, SourceStays
<1>3. /\ Requests \subseteq Nat /\ r # Flushing /\ r # SenderIdle
  BY SizesAssumption DEF SInv, Requests, Flushing, SenderIdle
<1>4. buffer # <<>>
  BY <1>1, <1>3 DEF SInv, SensorInv, SenderIdle, Flushing, Requests
<1>5. /\ Chunk \in Seq(Reported) /\ Len(Chunk) \in 1..Len(buffer)
      /\ Journal => Len(Chunk) <= BatchMax
  BY <1>4, ChunkShaped
<1>6. Chunk' = Chunk /\ Backlog' = Backlog
  BY <1>1, <1>2 DEF Chunk, Backlog
<1>7. Reported \subseteq Entries /\ Elements(Chunk) \subseteq Reported
  BY <1>5, SourceFacts, ElementsWithin
<1>8. PICK v : v = x
  OBVIOUS
<1>9. SlotShaped(v)'
  <2> HIDE DEF Reported
  <2>1. PICK b : b = Chunk
    OBVIOUS
  <2>2. /\ v.step = "auth" /\ v.batch = b /\ v.item = 1 /\ v.results = <<>>
        /\ v = [step |-> v.step, batch |-> v.batch, cred |-> v.cred, item |-> v.item,
                results |-> v.results]
    BY <1>8, <2>1
  <2>3. b \in Seq(Reported) /\ Len(b) >= 1 /\ Len(b) \in Nat /\ (Journal => Len(b) <= BatchMax)
        /\ Elements(b) \subseteq Reported
    BY <1>5, <1>7, <2>1
  <2>4. b \in Seq(Entries) /\ b # <<>>
    BY <1>7, <2>3
  <2>5. DOMAIN <<>> = {} /\ Len(<<>>) = 0
    OBVIOUS
  <2>6. v \in [step : {"free", "auth", "record", "publish", "ok", "error"}, batch : Seq(Entries),
               cred : {v.cred}, item : Nat, results : Seq({"accepted", "rejected"})]
    <3>1. v.step \in {"free", "auth", "record", "publish", "ok", "error"} /\ v.item \in Nat
          /\ v.batch \in Seq(Entries) /\ v.results \in Seq({"accepted", "rejected"})
      BY <2>2, <2>4
    <3> QED BY <2>2, <3>1
  <2>7. Len(v.results) = 0 /\ DOMAIN v.results = {} /\ v.item \in 1..Len(v.batch)
    BY <2>2, <2>3, <2>5
  <2> QED BY <1>2, <2>2, <2>3, <2>4, <2>6, <2>7 DEF SlotShaped
<1>10. rows' \subseteq Reported' /\ \A e \in Entries : copies'[e] > 0 => e \in rows'
  BY <1>1, <1>2 DEF SInv, ServerInv
<1>11. ServerInv' /\ server'[r] = v
  BY <1>1, <1>8, <1>9, <1>10, OneSlot
<1>12. SensorInv'
  <2>1. server'[sending'].step # "free" /\ server'[sending'].batch = Chunk'
    BY <1>1, <1>6, <1>8, <1>11
  <2>2. checkpoint' = None \/ \E f \in 1..logged' : checkpoint' = Cursor(f)'
    BY <1>1, <1>2 DEF SInv, SensorInv
  <2>3. Len(buffer') <= MaxBuffered + (IF sending' = SenderIdle THEN 0 ELSE 1)
    BY <1>1, <1>3 DEF SInv, SensorInv, SenderIdle, Flushing
  <2> HIDE DEF Reported
  <2> QED BY <1>1, <1>2, <1>4, <2>1, <2>2, <2>3 DEF SInv, SensorInv
<1> QED BY <1>1, <1>6, <1>11, <1>12, NothingGone

\* The front of the buffer is taken off: what is left of the backlog moves up.
LEMMA Shortened ==
  ASSUME SInv, NEW k \in 0..Len(buffer), chan' = chan,
         buffer' = SubSeq(buffer, k + 1, Len(buffer))
  PROVE  /\ buffer' \in Seq(Reported) /\ Len(buffer') = Len(buffer) - k
         /\ DOMAIN Backlog' = 1..Len(Backlog') /\ Len(Backlog') \in Nat
         /\ Len(Backlog) = Len(Backlog') + k
         /\ \A i \in 1..Len(Backlog') : Backlog'[i] = Backlog[i + k]
         /\ \A i \in 1..Len(buffer) : Backlog[i] = buffer[i]
<1>1. /\ buffer \in Seq(Reported) /\ chan \in Seq(Reported)
  BY SourceFacts
<1> HIDE DEF Reported
<1> DEFINE b == SubSeq(buffer, k + 1, Len(buffer))
<1>2. /\ b \in Seq(Reported) /\ Len(b) = Len(buffer) - k /\ Len(buffer) \in Nat
      /\ \A i \in 1..Len(buffer) - k : b[i] = buffer[i + k] /\ i + k \in 1..Len(buffer)
  BY <1>1, Split
<1>3. Backlog = buffer \o chan /\ Backlog' = b \o chan /\ buffer' = b
  BY DEF Backlog
<1> HIDE DEF b
<1>4. /\ Backlog' \in Seq(Reported) /\ Len(Backlog') = Len(b) + Len(chan) /\ Len(chan) \in Nat
      /\ \A i \in 1..Len(b) : Backlog'[i] = b[i]
      /\ \A i \in 1..Len(b) + Len(chan) :
           i \in 1..Len(b) \/ (i - Len(b) \in 1..Len(chan) /\ Backlog'[i] = chan[i - Len(b)])
  <2> DEFINE j == b \o chan
  <2>1. /\ j \in Seq(Reported) /\ Len(j) = Len(b) + Len(chan) /\ Len(chan) \in Nat
        /\ \A i \in 1..Len(b) : j[i] = b[i]
        /\ \A i \in 1..Len(b) + Len(chan) :
             i \in 1..Len(b) \/ (i - Len(b) \in 1..Len(chan) /\ j[i] = chan[i - Len(b)])
    <3>1. b \in Seq(Reported) /\ chan \in Seq(Reported)
      BY <1>1, <1>2
    <3>2. PICK c : c = b
      OBVIOUS
    <3>3. c \in Seq(Reported)
      BY <3>1, <3>2
    <3> QED BY <3>1, <3>2, <3>3, Joined
  <2>2. Backlog' = j
    BY <1>3
  <2> HIDE DEF j
  <2> QED BY <2>1, <2>2
<1>5. /\ Backlog \in Seq(Reported) /\ Len(Backlog) = Len(buffer) + Len(chan)
      /\ \A i \in 1..Len(buffer) : Backlog[i] = buffer[i]
      /\ \A i \in 1..Len(chan) : Backlog[i + Len(buffer)] = chan[i]
  <2> DEFINE j == buffer \o chan
  <2>1. /\ j \in Seq(Reported) /\ Len(j) = Len(buffer) + Len(chan)
        /\ \A i \in 1..Len(buffer) : j[i] = buffer[i]
        /\ \A i \in 1..Len(chan) : j[i + Len(buffer)] = chan[i]
    BY <1>1, Joined
  <2>2. Backlog = j
    BY <1>3
  <2> HIDE DEF j
  <2> QED BY <2>1, <2>2
<1>6. DOMAIN Backlog' = 1..Len(Backlog') /\ Len(Backlog') \in Nat
  BY <1>4
<1>7. Len(Backlog) = Len(Backlog') + k
  BY <1>2, <1>4, <1>5
<1>8. ASSUME NEW i \in 1..Len(Backlog') PROVE Backlog'[i] = Backlog[i + k]
  <2>1. CASE i \in 1..Len(b)
    BY <1>2, <1>4, <1>5, <2>1
  <2>2. CASE i \notin 1..Len(b)
    <3>1. i - Len(b) \in 1..Len(chan) /\ Backlog'[i] = chan[i - Len(b)]
      BY <1>4, <2>2
    <3>2. (i - Len(b)) + Len(buffer) = i + k
      BY <1>2, <1>4, <3>1
    <3> QED BY <1>5, <3>1, <3>2
  <2> QED BY <2>1, <2>2
<1> QED BY <1>2, <1>3, <1>5, <1>6, <1>7, <1>8

\* What exceeds the retry budget is counted as dropped.
LEMMA Trimmed ==
  ASSUME NEW T, NEW buf \in Seq(T), EndFlush(buf)
  PROVE  \E k \in 0..Len(buf) :
           /\ buffer' = SubSeq(buf, k + 1, Len(buf)) /\ Len(buffer') <= MaxBuffered
           /\ \A i \in 1..k : buf[i] \in dropped'
<1> DEFINE k == IF Len(buf) > MaxBuffered THEN Len(buf) - MaxBuffered ELSE 0
<1>1. MaxBuffered \in Nat /\ Len(buf) \in Nat
  BY SizesAssumption DEF SInv
<1>2. k \in 0..Len(buf) /\ Len(buf) - k <= MaxBuffered
  BY <1>1
<1>3. buffer' = SubSeq(buf, k + 1, Len(buf)) /\ dropped' = dropped \cup Elements(SubSeq(buf, 1, k))
  BY DEF EndFlush
<1> HIDE DEF k
<1>4. /\ SubSeq(buf, 1, k) \in Seq(T) /\ Len(SubSeq(buf, 1, k)) = k
      /\ \A i \in 1..k : SubSeq(buf, 1, k)[i] = buf[i]
      /\ Len(SubSeq(buf, k + 1, Len(buf))) = Len(buf) - k
  BY <1>2, Split
<1>5. ASSUME NEW i \in 1..k PROVE buf[i] \in dropped'
  <2>1. DOMAIN SubSeq(buf, 1, k) = 1..k
    BY <1>4
  <2>2. SubSeq(buf, 1, k)[i] \in Elements(SubSeq(buf, 1, k))
    BY <2>1 DEF Elements
  <2> QED BY <1>3, <1>4, <2>2
<1> QED BY <1>2, <1>3, <1>4, <1>5

\* A flush whose batch was not acknowledged keeps the batch, but for what it drops.
LEMMA UnansweredStep ==
  ASSUME SInv, Onwards, Unanswered, chan' = chan, reader' = reader, logged' = logged
  PROVE  SensorInv' /\ LossInv'
<1>1. /\ kind' = kind /\ checkpoint' = checkpoint /\ sending' = SenderIdle /\ EndFlush(buffer)
  BY DEF Onwards, Unanswered, EndFlush
<1>2. /\ Reported' = Reported /\ Journal' = Journal /\ \A f : Cursor(f)' = Cursor(f)
  BY <1>1, SourceStays
<1>3. /\ buffer \in Seq(Reported) /\ Reported \subseteq Entries
  BY SourceFacts
<1>4. PICK k \in 0..Len(buffer) :
        /\ buffer' = SubSeq(buffer, k + 1, Len(buffer)) /\ Len(buffer') <= MaxBuffered
        /\ \A i \in 1..k : buffer[i] \in dropped'
  BY <1>1, <1>3, Trimmed DEF SInv
<1>5. /\ buffer' \in Seq(Reported) /\ DOMAIN Backlog' = 1..Len(Backlog') /\ Len(Backlog') \in Nat
      /\ Len(Backlog) = Len(Backlog') + k
      /\ \A i \in 1..Len(Backlog') : Backlog'[i] = Backlog[i + k]
      /\ \A i \in 1..Len(buffer) : Backlog[i] = buffer[i]
  BY <1>4, Shortened
<1>6. \A i \in 1..k : \A e \in Reported : e = Backlog[i] => Handled(e)'
  <2> SUFFICES ASSUME NEW i \in 1..k, NEW e \in Reported, e = Backlog[i]
               PROVE  Handled(e)'
    OBVIOUS
  <2>1. Len(buffer) \in Nat
    BY <1>3
  <2>2. i \in 1..Len(buffer)
    BY <1>4, <2>1
  <2>3. e \in dropped'
    BY <1>4, <1>5, <2>2
  <2> QED BY <2>3 DEF Handled
<1>7. SensorInv'
  <2>1. checkpoint' = None \/ \E f \in 1..logged' : checkpoint' = Cursor(f)'
    BY <1>1, <1>2 DEF SInv, SensorInv
  <2>2. MaxBuffered \in Nat /\ Len(buffer') <= MaxBuffered + 0
    BY <1>3, <1>4, <1>5, SizesAssumption DEF SInv
  <2> HIDE DEF Reported
  <2> QED BY <1>1, <1>2, <1>5, <2>1, <2>2 DEF SInv, SensorInv
<1>8. Covered' /\ ReadKept'
  BY <1>4, <1>5, <1>6, FrontGone
<1> QED BY <1>1, <1>7, <1>8, BehindKept DEF LossInv

\* The connection breaks; the server goes on.
LEMMA LoseStep ==
  ASSUME SInv, Onwards, NEW r \in Requests, LoseConnection(r)
  PROVE  ServerInv' /\ SensorInv' /\ LossInv'
<1>1. /\ Unanswered /\ chan' = chan /\ reader' = reader /\ logged' = logged
      /\ server' = server /\ rows' = rows /\ copies' = copies
  BY DEF LoseConnection, sourceVars, tableVars
<1> QED BY <1>1, UnansweredStep, SlotsStay

\* The answer settles every event of the batch, which is the front of the buffer.
LEMMA AnswerSettles ==
  ASSUME SInv, NEW r \in Requests, sending = r, server[r].step = "ok",
         copies' = copies, refused' = refused \cup Rejected(r)
  PROVE  /\ server[r].batch = Chunk /\ buffer # <<>>
         /\ \A i \in 1..Len(Chunk) : \A e \in Reported : e = buffer[i] => Handled(e)'
<1> DEFINE s == server[r]
<1>1. r # SenderIdle /\ r # Flushing
  BY SizesAssumption DEF SInv, Requests, SenderIdle, Flushing
<1>2. s.batch = Chunk /\ buffer # <<>>
  BY <1>1 DEF SInv, SensorInv
<1>3. /\ s.results \in Seq({"accepted", "rejected"}) /\ Len(s.results) = Len(s.batch)
      /\ \A i \in DOMAIN s.results : s.results[i] = "accepted" => copies[s.batch[i]] > 0
      /\ s.batch \in Seq(Entries)
  BY DEF SInv, ServerInv, SlotShaped
<1>4. Rejected(r) = {s.batch[i] : i \in {j \in DOMAIN s.results : s.results[j] = "rejected"}}
  BY DEF Rejected
<1>5. \A i \in 1..Len(Chunk) : Chunk[i] = buffer[i]
  BY <1>2, ChunkShaped
<1> HIDE DEF s
<1>6. ASSUME NEW i \in 1..Len(Chunk), NEW e \in Reported, e = buffer[i] PROVE Handled(e)'
  <2>1. i \in DOMAIN s.results /\ e = s.batch[i]
    BY <1>2, <1>3, <1>5, <1>6
  <2>2. s.results[i] \in {"accepted", "rejected"}
    BY <1>3, <2>1
  <2>3. CASE s.results[i] = "accepted"
    BY <1>3, <2>1, <2>3 DEF Handled
  <2>4. CASE s.results[i] = "rejected"
    BY <1>4, <2>1, <2>4 DEF Handled
  <2> QED BY <2>2, <2>3, <2>4
<1> QED BY <1>2, <1>6 DEF s

\* The batch is taken off the buffer and the checkpoint moves to its last event: what
\* came before that event in the source came before it in the backlog, or was handled.
LEMMA Acknowledged ==
  ASSUME SInv, Onwards, NEW r \in Requests, sending = r, server[r].step = "ok",
         chan' = chan, reader' = reader, logged' = logged,
         copies' = copies, refused' = refused \cup Rejected(r),
         buffer' = SubSeq(buffer, Len(Chunk) + 1, Len(buffer)),
         checkpoint' \in {checkpoint, Cursor(Chunk[Len(Chunk)])},
         (sending' = SenderIdle /\ buffer' = <<>>) \/ (sending' = Flushing /\ buffer' # <<>>)
  PROVE  SensorInv' /\ LossInv'
<1> DEFINE n == Len(Chunk)
           f == Chunk[n]
<1>1. kind' = kind
  BY DEF Onwards
<1>2. /\ Reported' = Reported /\ Journal' = Journal /\ \A g : Cursor(g)' = Cursor(g)
  BY <1>1, SourceStays
<1>3. /\ buffer # <<>>
      /\ \A i \in 1..n : \A e \in Reported : e = buffer[i] => Handled(e)'
  BY AnswerSettles
<1>4. Chunk \in Seq(Reported) /\ n \in 1..Len(buffer) /\ \A i \in 1..n : Chunk[i] = buffer[i]
  BY <1>3, ChunkShaped
<1>5. /\ buffer \in Seq(Reported) /\ Reported \subseteq Entries /\ Reported \subseteq Nat
      /\ copies \in [Entries -> 0..1] /\ Backlog \in Seq(Reported)
      /\ DOMAIN Backlog = 1..Len(Backlog) /\ \A e \in Reported : e \in 1..logged
  BY SourceFacts
<1> HIDE DEF Reported
<1>6. n \in 0..Len(buffer) /\ Len(buffer) \in Nat /\ n \in Nat /\ n >= 1
  BY <1>4, <1>5
<1>7. /\ buffer' \in Seq(Reported) /\ DOMAIN Backlog' = 1..Len(Backlog') /\ Len(Backlog') \in Nat
      /\ Len(Backlog) = Len(Backlog') + n /\ Len(buffer') = Len(buffer) - n
      /\ \A i \in 1..Len(Backlog') : Backlog'[i] = Backlog[i + n]
      /\ \A i \in 1..Len(buffer) : Backlog[i] = buffer[i]
  BY <1>6, Shortened
<1>8. \A i \in 1..n : \A e \in Reported : e = Backlog[i] => Handled(e)'
  BY <1>3, <1>4, <1>5, <1>6, <1>7
<1>9. Covered' /\ ReadKept'
  BY <1>6, <1>7, <1>8, FrontGone
<1>10. f \in Reported /\ f \in Entries /\ n \in DOMAIN Backlog /\ Backlog[n] = f
  <2>1. f \in Reported /\ f = buffer[n] /\ n \in 1..Len(buffer)
    BY <1>4, <1>6
  <2>2. n \in 1..Len(Backlog)
    BY <1>6, <1>7
  <2> QED BY <1>5, <1>7, <2>1, <2>2
<1> HIDE DEF f, n
<1>11. SensorInv'
  <2>1. checkpoint' = None \/ \E g \in 1..logged' : checkpoint' = Cursor(g)'
    <3>1. CASE checkpoint' = checkpoint
      BY <1>2, <3>1 DEF SInv, SensorInv
    <3>2. CASE checkpoint' = Cursor(f)
      BY <1>2, <1>5, <1>10, <3>2
    <3> QED BY <3>1, <3>2 DEF f, n
  <2>2. Len(buffer) <= MaxBuffered + 1 /\ MaxBuffered \in Nat
    <3>1. MaxBuffered \in Nat /\ sending # SenderIdle
      BY SizesAssumption DEF SInv, Requests, SenderIdle
    <3> QED BY <3>1 DEF SInv, SensorInv
  <2>3. Len(buffer') <= MaxBuffered + (IF sending' = SenderIdle THEN 0 ELSE 1)
    <3>1. CASE sending' = SenderIdle /\ buffer' = <<>>
      BY <2>2, <3>1
    <3>2. CASE sending' = Flushing
      BY <1>6, <1>7, <2>2, <3>2 DEF Flushing, SenderIdle
    <3> QED BY <3>1, <3>2
  <2> QED BY <1>2, <1>7, <2>1, <2>3 DEF SInv, SensorInv
<1>12. BehindHandled'
  <2>1. CASE checkpoint' = checkpoint
    BY <2>1, BehindKept
  <2>2. CASE checkpoint' = Cursor(f)
    <3> SUFFICES ASSUME NEW e \in Reported \ passed', Behind(e)' PROVE Handled(e)'
      BY <1>2 DEF BehindHandled
    <3>1. e <= f /\ e \in Nat /\ f \in Nat
      <4>1. e \in Entries /\ e \in Nat /\ f \in Nat
        BY <1>5, <1>10
      <4>2. CASE Journal
        BY <1>2, <2>2, <4>1, <4>2 DEF Behind, Cursor
      <4>3. CASE ~Journal
        <5>1. SecondOf[e] < SecondOf[f]
          BY <1>2, <2>2, <4>3 DEF Behind, Cursor
        <5>2. SecondOf[e] \in Nat /\ SecondOf[f] \in Nat
              /\ (f < e => SecondOf[f] <= SecondOf[e])
          BY <1>10, <4>1, SourceAssumption DEF SInv
        <5> QED BY <4>1, <5>1, <5>2
      <4> QED BY <4>1, <4>2, <4>3
    <3>2. CASE e = f
      BY <1>6, <1>8, <1>10, <3>2
    <3>3. CASE e # f
      <4>1. e < Backlog[n]
        BY <1>10, <3>1, <3>3
      <4>2. e \in Reported \ passed
        BY DEF Onwards
      <4>3. Handled(e) \/ \E j \in 1..(n - 1) : Backlog[j] = e
        BY <1>10, <4>1, <4>2 DEF SInv, LossInv, Covered
      <4>4. CASE Handled(e)
        BY <1>5, <4>4, HandledStays
      <4>5. CASE \E j \in 1..(n - 1) : Backlog[j] = e
        <5>1. PICK j \in 1..(n - 1) : Backlog[j] = e
          BY <4>5
        <5>2. j \in 1..n
          BY <1>6
        <5> QED BY <1>8, <4>2, <5>1, <5>2
      <4> QED BY <4>3, <4>4, <4>5
    <3> QED BY <3>2, <3>3
  <2> QED BY <2>1, <2>2 DEF f, n
<1> QED BY <1>9, <1>11, <1>12 DEF LossInv

\* The answer: the batch is settled, or kept for the next flush.
LEMMA AnswerStep ==
  ASSUME SInv, Onwards, NEW r \in Requests, NEW saved, Answer(r, saved)
  PROVE  ServerInv' /\ SensorInv' /\ LossInv'
<1>1. /\ sending = r /\ server[r].step \in {"ok", "error"}
      /\ server' = [server EXCEPT ![r] = Free] /\ rows' = rows /\ copies' = copies
      /\ chan' = chan /\ reader' = reader /\ logged' = logged
  BY DEF Answer, sourceVars, tableVars
<1>2. ServerInv'
  BY <1>1, FreedShaped
<1>3. CASE Unanswered
  BY <1>1, <1>2, <1>3, UnansweredStep
<1>4. ASSUME server[r].step = "ok", ~Unanswered,
             IF Journal THEN AckJournal(r, saved) ELSE AckDocker(r, saved)
      PROVE  SensorInv' /\ LossInv'
  <2> DEFINE n == Len(Chunk)
             rest == SubSeq(buffer, n + 1, Len(buffer))
  <2>1. refused' = refused \cup Rejected(r)
    BY <1>4 DEF AckJournal, AckDocker
  <2>2. server[r].batch = Chunk /\ buffer # <<>>
    BY <1>1, <1>4, <2>1, AnswerSettles
  <2>3. buffer \in Seq(Reported) /\ n \in 1..Len(buffer) /\ (~Journal => Chunk = buffer)
    BY <2>2, ChunkShaped, SourceFacts
  <2> HIDE DEF Reported
  <2>4. /\ checkpoint' \in {checkpoint, Cursor(Chunk[n])}
        /\ buffer' = rest
        /\ (sending' = SenderIdle /\ buffer' = <<>>) \/ (sending' = Flushing /\ buffer' # <<>>)
    <3>1. CASE AckJournal(r, saved)
      <4>1. /\ checkpoint' = Cursor(Chunk[n])
            /\ IF rest = <<>> THEN EndFlush(rest) ELSE sending' = Flushing /\ buffer' = rest
        BY <1>4, <2>2, <3>1 DEF AckJournal
      <4>2. CASE rest = <<>>
        <5>1. rest \in Seq(Reported) /\ EndFlush(rest) /\ sending' = SenderIdle
          <6>1. EndFlush(rest)
            BY <4>1, <4>2
          <6> HIDE DEF rest
          <6> QED BY <4>2, <6>1 DEF EndFlush
        <5> HIDE DEF rest
        <5>2. PICK k \in 0..Len(rest) : buffer' = SubSeq(rest, k + 1, Len(rest))
          BY <5>1, Trimmed DEF SInv
        <5>3. Len(rest) = 0 /\ k = 0
          BY <4>2
        <5>4. buffer' = <<>>
          BY <4>2, <5>2, <5>3
        <5> QED BY <4>1, <4>2, <5>1, <5>4
      <4>3. CASE rest # <<>>
        BY <4>1, <4>3
      <4> QED BY <4>2, <4>3
    <3>2. CASE AckDocker(r, saved) /\ ~Journal
      <4>1. /\ checkpoint' = IF saved THEN Cursor(buffer[Len(buffer)]) ELSE checkpoint
            /\ buffer' = <<>> /\ sending' = SenderIdle /\ ~Journal
        BY <1>4, <3>2 DEF AckDocker
      <4>2. Chunk = buffer /\ n = Len(buffer)
        BY <2>3, <4>1
      <4>3. rest = <<>>
        <5>1. Len(rest) = 0 /\ rest \in Seq(Reported)
          BY <2>3, <4>2
        <5> HIDE DEF rest
        <5> QED BY <5>1
      <4> QED BY <4>1, <4>2, <4>3
    <3> QED BY <1>4, <3>1, <3>2
  <2> QED BY <1>1, <1>4, <2>1, <2>4, Acknowledged
<1> QED
  BY <1>1, <1>2, <1>3, <1>4 DEF Answer
-----------------------------------------------------------------------------
(* The invariant holds *)

\* Every step of the sensor, the server and the owner keeps the invariant.
LEMMA SensorSteps ==
  ASSUME SInv, [IngressNext]_ingressVars
  PROVE  SInv'
<1>1. Onwards /\ SourceInv'
  BY StepsOnwards
<1>2. CASE LogEntry
  BY <1>1, <1>2, LogStep DEF SInv
<1>3. CASE Age \/ Rotate \/ Revoke \/ UNCHANGED ingressVars
  BY <1>1, <1>3, OutsideSteps DEF SInv
<1>4. CASE Connect
  BY <1>1, <1>4, ConnectStep DEF SInv
<1>5. CASE ReadLine
  BY <1>1, <1>5, ReadStep DEF SInv
<1>6. CASE StreamEnds \/ SensorCrash
  BY <1>1, <1>6, ReaderDown DEF SInv
<1>7. CASE Receive \/ FlushTick
  BY <1>1, <1>7, QueueSteps DEF SInv
<1>8. ASSUME NEW r \in Requests, Post(r) PROVE SInv'
  BY <1>1, <1>8, PostStep DEF SInv
<1>9. ASSUME NEW r \in Requests, Answer(r, TRUE) \/ Answer(r, FALSE) PROVE SInv'
  BY <1>1, <1>9, AnswerStep DEF SInv
<1>10. ASSUME NEW r \in Requests, LoseConnection(r) PROVE SInv'
  BY <1>1, <1>10, LoseStep DEF SInv
<1>11. ASSUME NEW r \in Requests, HandleItem(r) \/ StatementFails(r) \/ Abandoned(r) PROVE SInv'
  <2>1. UNCHANGED serverOnly
    BY <1>11 DEF HandleItem, Authenticate, RecordItem, PublishItem, StatementFails, Abandoned
  <2>2. Served(r) \/ (Abandoned(r) /\ rows' = rows /\ copies' = copies)
    <3>1. Abandoned(r) => rows' = rows /\ copies' = copies
      BY DEF Abandoned, tableVars
    <3> QED BY <1>1, <1>11, <3>1, AuthenticateServes, RecordServes, PublishServes, FailureServes
            DEF HandleItem
  <2> QED BY <1>1, <2>1, <2>2, ServerSteps DEF SInv
<1> QED
  BY <1>2, <1>3, <1>4, <1>5, <1>6, <1>7, <1>8, <1>9, <1>10, <1>11
  DEF IngressNext, Source, Reader, Sender, SensorFault, Owner

\* At the start nothing is logged, queued or behind a checkpoint.
LEMMA SensorInit ==
  ASSUME IngressInit
  PROVE  SInv
<1>1. /\ kind \in Kinds /\ logged = 0 /\ aged = 0 /\ reader = [up |-> FALSE, next |-> 1]
      /\ chan = <<>> /\ buffer = <<>> /\ sending = SenderIdle /\ checkpoint = None
      /\ server = [r \in Requests |-> Free]
      /\ rows = {} /\ copies = [e \in Entries |-> 0]
  BY DEF IngressInit
<1>2. {BatchMax, IngressMax, MaxBuffered, ChannelCap, MaxEntries} \subseteq Nat
  BY SizesAssumption DEF SInv
<1>3. SourceInv
  BY <1>1, <1>2 DEF SourceInv
<1>4. ServerInv
  <2>1. \A r \in Requests : SlotShaped(server[r])
    BY <1>1, FreeShaped DEF SInv
  <2> QED BY <1>1, <2>1 DEF ServerInv
<1>5. Backlog = <<>> /\ DOMAIN <<>> = {}
  BY <1>1 DEF Backlog
<1>6. SensorInv
  <2>1. reader \in [up : BOOLEAN, next : 1..(logged + 1)]
    BY <1>1
  <2>2. chan \in Seq(Reported) /\ buffer \in Seq(Reported) /\ Len(chan) = 0 /\ Len(buffer) = 0
    BY <1>1
  <2> QED BY <1>1, <1>2, <2>1, <2>2 DEF SensorInv
<1>7. LossInv
  BY <1>1, <1>5 DEF LossInv, Covered, BehindHandled, ReadKept, Behind
<1> QED BY <1>3, <1>4, <1>6, <1>7 DEF SInv

\* The invariant says more than that every event is accounted for.
LEMMA SInvAccounts ==
  ASSUME SInv
  PROVE  Accounted
<1>1. /\ logged \in Nat /\ Reported \subseteq Entries
      /\ buffer \in Seq(Reported) /\ chan \in Seq(Reported) /\ Backlog \in Seq(Reported)
      /\ Elements(Backlog) = Elements(buffer) \cup Elements(chan)
      /\ Elements(Backlog) \subseteq Reported
      /\ copies \in [Entries -> 0..1]
  BY SourceFacts
<1>2. IngressTypeOK
  <2>1. reader.up \in BOOLEAN /\ reader.next \in 1..(logged + 1)
    BY DEF SInv, SensorInv
  <2>2. Journal => \A r \in Requests : Len(server[r].batch) <= BatchMax
    BY DEF SInv, ServerInv, SlotShaped
  <2>3. \/ sending \in {SenderIdle, Flushing}
        \/ \E r \in Requests : sending = r /\ server[r].step # "free"
    BY DEF SInv, SensorInv
  <2>4. Elements(chan) \cup Elements(buffer) \subseteq Reported
    BY <1>1
  <2> HIDE DEF Reported
  <2> QED BY <2>1, <2>2, <2>3, <2>4 DEF SInv, SourceInv, ServerInv, SensorInv, IngressTypeOK
<1>3. NoSilentLoss
  BY <1>1 DEF SInv, LossInv, BehindHandled, ReadKept, NoSilentLoss
<1>4. PublishedOnce
  BY <1>1 DEF PublishedOnce
<1> QED BY <1>2, <1>3, <1>4 DEF Accounted

\* No security event is lost in silence or published twice, whatever the sensor, its
\* sizes, crashes, broken connections, stream restarts and failing statements: what the
\* checkpoint or the reader has passed is on the backbone, rejected by an answer,
\* counted as dropped, or still queued (the reader and sender tasks of the sensors,
\* internal_security_events_batch and record_security_event).
THEOREM EventsAccounted == IngressSpec => []Accounted
<1>1. IngressInit => SInv
  BY SensorInit
<1>2. SInv /\ [IngressNext]_ingressVars => SInv'
  BY SensorSteps
<1>3. SInv => Accounted
  BY SInvAccounts
<1> QED BY <1>1, <1>2, <1>3, PTL DEF IngressSpec
=============================================================================
