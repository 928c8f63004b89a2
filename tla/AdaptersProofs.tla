---------------------------- MODULE AdaptersProofs ----------------------------
(***************************************************************************)
(* What every configuration of the adapters module guarantees, for any     *)
(* number of executors and requests, any concurrency budget, and whatever  *)
(* fails and crashes: rules that were never Clawforge's stay, nothing the  *)
(* never-block list protects is covered, and what the generations say is   *)
(* what the surfaces enforce.                                              *)
(*                                                                         *)
(* The three share the types and what a worker has in hand (Types, Fit).   *)
(* The first needs Kept: no generation is of a foreign rule.  The second   *)
(* needs Screened: every rule is that of a target compared with the list.  *)
(* The third needs Kept too, and Alone and Minded (who may touch a         *)
(* generation, and that it is what the worker takes it for), Unique (the   *)
(* unique index of rule scopes), Timed (whose timeouts the kernel has) and *)
(* Matched (each surface lies between what completed generations need and  *)
(* what active ones own).                                                  *)
(***************************************************************************)
EXTENDS Adapters, TLAPS

-----------------------------------------------------------------------------
(* Types, and what a step of a worker has in hand.                           *)

Statuses == {"none", "prepared", "completed", "recovery", "rolled_back"}
\* The steps at which a worker has a generation that has been recorded.
Owning   == {"call", "verify", "finish", "retain", "undone", "kept", "resolve"}
Steps    == {"idle", "reserve", "release", "preflight", "prepare", "listed", "presumed"}
            \cup Owning
Hands    == [pc : Steps, req : Requests \cup {None}, at : Nat, mode : Names \cup {"apply", None},
             slots : SUBSET Names]

Types ==
  /\ plan \in Plans /\ list \in Lists
  /\ gens \in [Gens -> Statuses] /\ leaked \in [Names -> Nat]
  /\ DOMAIN rules = Names /\ timed \subseteq Gens
  /\ workers \in [Workers -> Hands]

\* The generation a worker with t in hand is at.
GenOf(t)   == <<t.req, IF t.mode = "apply" THEN plan[t.req].adapters[t.at] ELSE t.mode>>
Applies(t) == t.mode = "apply" /\ t.pc # "idle"
Lifts(t)   == t.mode # "apply" /\ t.pc \in Lifting

Fits(t) ==
  /\ t.pc # "idle" => t.req \in Requests /\ t.mode \in Names \cup {"apply"}
  /\ Applies(t) /\ t.pc # "release" =>
       t.at \in DOMAIN plan[t.req].adapters /\ Valid(plan[t.req].target)
  /\ t.pc \in {"reserve", "release", "preflight", "prepare", "verify", "finish"} => t.mode = "apply"
  /\ t.pc \in {"listed", "presumed", "undone", "kept", "resolve"} => t.mode # "apply"

Fit == \A w \in Workers : Fits(workers[w])

-----------------------------------------------------------------------------
(* Foreign rules: what was never ours is owned by no generation.             *)

Ours(g) == Rule(g) \notin Foreign[g[2]]
Kept ==
  /\ ForeignKept
  /\ \A g \in Gens : gens[g] # "none" => Ours(g)
  /\ \A g \in timed : g[2] = "nftables" /\ Ours(g)
  /\ \A w \in Workers : workers[w].pc \in {"prepare"} \cup Owning => Ours(GenOf(workers[w]))

-----------------------------------------------------------------------------
(* The never-block list: every rule on a surface is that of a target which   *)
(* passed the list.                                                          *)

Covered(n) == Foreign[n] \cup {Rule(g) : g \in {h \in Gens : /\ h[2] = n
                                                             /\ Blockable(Target(h))
                                                             /\ Valid(Target(h))}}
Screened == \A n \in Names : rules[n] \subseteq Covered(n)

-----------------------------------------------------------------------------
(* Records and surfaces.                                                     *)

\* A request is applied by the worker that claimed it, a generation lifted by the one
\* that holds its row.
Alone ==
  /\ \A v, w \in Workers :
       /\ Applies(workers[v]) /\ Applies(workers[w]) /\ workers[v].req = workers[w].req => v = w
       /\ /\ Lifts(workers[v]) /\ Lifts(workers[w])
          /\ GenOf(workers[v]) = GenOf(workers[w])
          => v = w
  /\ \A w \in Workers : Applies(workers[w]) => workers[w].req \in taken

\* A generation is recorded once, by the worker that applies it. It then stays what
\* the worker takes it for until the worker changes it.
Fresh(t) ==
  \A i \in DOMAIN plan[t.req].adapters :
    (i > t.at \/ t.pc = "reserve" \/ (i = t.at /\ t.pc \in {"preflight", "prepare"}))
      => gens[<<t.req, plan[t.req].adapters[i]>>] = "none"
Mindful(w) ==
  LET t == workers[w] IN
  /\ Applies(t) /\ t.pc # "release" => Fresh(t)
  /\ Applies(t) /\ t.pc \in Owning => gens[GenOf(t)] = "prepared"
  /\ t.pc = "listed" => Due(GenOf(t))
  /\ Lifts(t) => gens[GenOf(t)] \in {"completed", "recovery"} /\ Due(GenOf(t))
Minded ==
  /\ \A g \in Gens : gens[g] # "none" => g[1] \in taken
  /\ \A w \in Workers : Mindful(w)

\* One active generation per rule scope: the unique index.
Unique ==
  \A g, h \in Gens : Active(g) /\ Active(h) /\ Owns(g) = Owns(h) => g = h

\* The kernel's timeouts are those of active generations, and none of one that a
\* worker has just undone.
Undone(g) == \E w \in Workers : workers[w].pc \in {"undone", "resolve"} /\ GenOf(workers[w]) = g
Timed ==
  \A g \in timed : g[2] = "nftables" /\ Active(g) /\ ~Undone(g)

\* A rule is owned by a generation that no worker has just undone; it is needed by a
\* completed one that is not due, nor is another of the same address.
Shadowed(g) ==
  \E h \in Gens : h[2] = g[2] /\ Owns(h) # Owns(g) /\ Due(h) /\ Rule(h) = Rule(g)
Owner(g)    == Active(g) /\ ~Undone(g)
Needs(g)    == gens[g] = "completed" /\ ~Due(g) /\ ~Shadowed(g)

\* What a worker at finish has just seen on the surface.
Seen(w) ==
  LET g == GenOf(workers[w]) IN
  workers[w].pc = "finish" => Rule(g) \in rules[g[2]] \/ Due(g) \/ Shadowed(g)

Matched ==
  /\ \A g \in Gens : Needs(g) => Rule(g) \in rules[g[2]]
  /\ \A n \in Names : \A k \in rules[n] \ Foreign[n] :
       \E g \in Gens : g[2] = n /\ Owner(g) /\ Rule(g) = k
  /\ \A w \in Workers : Seen(w)

-----------------------------------------------------------------------------
(* Steps of a worker and of the world, kind by kind.                         *)

ByWorker(w) ==
  WorkerStep(w) \/ CallFails(w) \/ StepFails(w) \/ RecordFails(w) \/ ReturnFails(w) \/ Crash(w)
ByWorld ==
  \/ \E g \in Gens : Orphaned(g) \/ TtlPasses(g) \/ Kill(g) \/ KernelDrops(g)
  \/ \E n \in Names : Stale(n)

Carries(u, t) == u.req = t.req /\ u.at = t.at /\ u.mode = t.mode
Replaced(w)   == /\ workers' \in [Workers -> Hands]
                 /\ \A v \in Workers : v # w => workers'[v] = workers[v]
Going(w, pc)  == Replaced(w) /\ workers'[w].pc = pc /\ Carries(workers'[w], workers[w])
Onward(u, t)  ==
  /\ u.req = t.req /\ u.mode = t.mode
  /\ \/ u.pc = "release" /\ u.at = t.at
     \/ u.pc = "preflight" /\ u.at = t.at + 1 /\ t.at < Len(plan[t.req].adapters)
Ended(w)      ==
  IF workers[w].mode = "apply" THEN Onward(workers'[w], workers[w]) ELSE workers'[w] = Idle

Stays == UNCHANGED <<taken, gens, rules, timed>>
Recorded(w, s) == gens' = [gens EXCEPT ![Gen(w)] = s] /\ UNCHANGED <<taken, rules, timed>>

Claims(w) ==
  /\ workers[w].pc = "idle" /\ UNCHANGED <<gens, rules, timed>>
  /\ \E r \in Requests \ taken :
       /\ taken' = taken \cup {r}
       /\ \/ workers'[w] = workers[w]
          \/ /\ workers'[w].pc = "reserve" /\ workers'[w].req = r /\ workers'[w].at = 1
             /\ workers'[w].mode = "apply" /\ Valid(plan[r].target)
Leaves(w) == workers'[w] = Idle /\ Stays
Books(w) ==
  LET t == workers[w]
      u == workers'[w]
  IN /\ t.pc = "reserve" /\ u.req = t.req /\ u.mode = t.mode /\ Stays
     /\ \/ u.pc = "release"
        \/ u.pc = "preflight" /\ u.at = 1
        \/ u.pc = "reserve" /\ u.at = t.at + 1 /\ t.at < Len(plan[t.req].adapters)
Notes(w) ==
  \E g \in Gens :
    /\ workers[w].pc = "idle" /\ workers'[w].pc \in {"listed", "presumed"}
    /\ workers'[w].mode # "apply" /\ workers'[w].req = g[1] /\ workers'[w].mode = g[2]
    /\ Active(g) /\ (workers'[w].pc = "listed" => Due(g)) /\ Stays
Locks(w) ==
  /\ workers[w].pc \in {"listed", "presumed"} /\ workers'[w].pc = "call"
  /\ Carries(workers'[w], workers[w]) /\ (workers[w].pc = "presumed" => Gen(w) \in hasty')
  /\ gens[Gen(w)] \in {"completed", "recovery"} /\ ~Held(Gen(w)) /\ Stays
Clears(w) ==
  /\ workers[w].pc = "preflight" /\ workers'[w].pc = "prepare"
  /\ Carries(workers'[w], workers[w]) /\ Rule(Gen(w)) \notin rules[Name(w)] /\ Stays
Skips(w) ==
  /\ workers[w].pc \in {"preflight", "prepare", "retain"} /\ workers[w].mode = "apply"
  /\ Onward(workers'[w], workers[w]) /\ Stays
Starts(w) ==
  /\ workers[w].pc = "prepare" /\ workers'[w].pc = "call" /\ Carries(workers'[w], workers[w])
  /\ Recorded(w, "prepared")
  /\ \A g \in Gens \ {Gen(w)} : Active(g) => Owns(g) # Owns(Gen(w))
Blocks(w) ==
  /\ workers[w].pc = "call" /\ workers[w].mode = "apply" /\ workers'[w].pc \in {"verify", "retain"}
  /\ Carries(workers'[w], workers[w]) /\ UNCHANGED <<taken, gens>>
  /\ Blockable(Target(Gen(w))) /\ Adds(w)
  /\ timed' = timed \/ (Name(w) = "nftables" /\ timed' = timed \cup {Gen(w)})
Unblocks(w) ==
  /\ workers[w].pc = "call" /\ workers[w].mode # "apply" /\ workers'[w].pc \in {"undone", "kept"}
  /\ Carries(workers'[w], workers[w]) /\ UNCHANGED <<taken, gens>>
  /\ Removes(w) /\ timed' \subseteq timed /\ (Name(w) = "nftables" => Gen(w) \notin timed')
Shifts(w) ==
  LET t == workers[w]
      u == workers'[w]
  IN /\ Carries(u, t) /\ Stays
     /\ \/ t.pc = "call" /\ t.mode = "apply" /\ u.pc = "retain"
        \/ t.pc = "call" /\ t.mode # "apply" /\ u.pc = "kept"
        \/ t.pc \in {"verify", "finish", "kept"} /\ u.pc = "retain"
        \/ t.pc = "undone" /\ u.pc = "resolve"
Passes(w) ==
  /\ workers[w].pc = "verify" /\ workers'[w].pc = "finish" /\ Carries(workers'[w], workers[w])
  /\ Rule(Gen(w)) \in rules[Name(w)] /\ Stays
Finishes(w) == workers[w].pc = "finish" /\ Ended(w) /\ Recorded(w, "completed")
Retains(w)  == workers[w].pc = "retain" /\ Ended(w) /\ Recorded(w, "recovery")
Resolves(w) == workers[w].pc = "resolve" /\ workers'[w] = Idle /\ Recorded(w, "rolled_back")

Moves(w) ==
  \/ Claims(w) \/ Leaves(w) \/ Books(w) \/ Notes(w) \/ Locks(w) \/ Clears(w) \/ Skips(w)
  \/ Starts(w) \/ Blocks(w) \/ Unblocks(w) \/ Shifts(w) \/ Passes(w) \/ Finishes(w)
  \/ Retains(w) \/ Resolves(w)

LEMMA SetupStays == [Next]_vars => plan' = plan /\ list' = list
<1> SUFFICES ASSUME [Next]_vars PROVE plan' = plan /\ list' = list
  OBVIOUS
<1>1. ASSUME NEW w \in Workers, WorkerStep(w) PROVE plan' = plan /\ list' = list
  <2>1. CASE \E r \in Requests : Take(w, r)
    BY <2>1 DEF Take, setup
  <2>2. CASE Reserve(w) \/ Release(w) \/ Preflight(w) \/ Prepare(w)
    BY <2>2 DEF Reserve, Release, Preflight, Prepare, setup
  <2>3. CASE Call(w)
    BY <2>3 DEF Call, ApplyRefuses, NftAdd, AclAdd, TableSet, NftDelete, AclDelete, AclMissing,
                TableReset, Then, setup
  <2>4. CASE Verify(w) \/ Finish(w) \/ Retain(w)
    BY <2>4 DEF Verify, Finish, Retain, setup
  <2>5. CASE (\E g \in Gens : List(w, g)) \/ Lift(w) \/ Return(w) \/ Resolve(w)
    BY <2>5 DEF List, Lift, Return, Resolve, setup
  <2> QED BY <1>1, <2>1, <2>2, <2>3, <2>4, <2>5 DEF WorkerStep
<1>2. ASSUME NEW w \in Workers,
             CallFails(w) \/ StepFails(w) \/ RecordFails(w) \/ ReturnFails(w) \/ Crash(w)
      PROVE  plan' = plan /\ list' = list
  BY <1>2 DEF CallFails, Then, StepFails, RecordFails, ReturnFails, Crash, setup
<1>3. ASSUME NEW g \in Gens, Orphaned(g) \/ TtlPasses(g) \/ Kill(g) \/ KernelDrops(g)
      PROVE  plan' = plan /\ list' = list
  BY <1>3 DEF Orphaned, TtlPasses, Kill, KernelDrops, setup
<1>4. CASE \E n \in Names : Stale(n)
  BY <1>4 DEF Stale, setup
<1> QED BY <1>1, <1>2, <1>3, <1>4 DEF Next, vars

LEMMA GenIsInHand ==
  ASSUME Types, Fit, NEW w \in Workers,
         workers[w].pc \in {"preflight", "prepare", "listed", "presumed"} \cup Owning
  PROVE  /\ Gen(w) = GenOf(workers[w]) /\ Gen(w) \in Gens
         /\ Name(w) = Gen(w)[2] /\ Name(w) \in Names /\ Gen(w)[1] = workers[w].req
         /\ workers[w].req \in Requests
<1> DEFINE t == workers[w]
<1>1. Fits(t) /\ t \in Hands
  BY DEF Fit, Types
<1>2. t.req \in Requests /\ t.mode \in Names \cup {"apply"}
  BY <1>1 DEF Fits, Owning
<1>3. Gen(w) = GenOf(t) /\ Name(w) = Gen(w)[2]
  BY DEF Gen, Name, GenOf, Touched
<1>4. CASE t.mode = "apply"
  <2> DEFINE as == plan[t.req].adapters
  <2>1. t.at \in DOMAIN as
    BY <1>1, <1>4 DEF Fits, Applies, Owning
  <2>2. as \in Seq(Names)
    BY <1>2, PlansAssumption DEF Types
  <2>3. as[t.at] \in Names
    BY <2>1, <2>2
  <2>4. GenOf(t) = <<t.req, as[t.at]>>
    BY <1>4 DEF GenOf
  <2> QED BY <1>2, <1>3, <2>3, <2>4 DEF Gens
<1>5. CASE t.mode # "apply"
  <2>1. GenOf(t) = <<t.req, t.mode>>
    BY <1>5 DEF GenOf
  <2> QED BY <1>2, <1>3, <1>5, <2>1 DEF Gens
<1> QED BY <1>4, <1>5

\* What a worker has in hand with one or two of its fields replaced.
LEMMA HandIs ==
  ASSUME NEW t \in Hands, NEW pc \in Steps
  PROVE  /\ [t EXCEPT !.pc = pc] \in Hands /\ [t EXCEPT !.pc = pc].pc = pc
         /\ Carries([t EXCEPT !.pc = pc], t)
BY DEF Hands, Carries

LEMMA SlottedIs ==
  ASSUME NEW t \in Hands, NEW pc \in Steps, NEW slots \in SUBSET Names
  PROVE  /\ [t EXCEPT !.pc = pc, !.slots = slots] \in Hands
         /\ [t EXCEPT !.pc = pc, !.slots = slots].pc = pc
         /\ Carries([t EXCEPT !.pc = pc, !.slots = slots], t)
<1> DEFINE a == [t EXCEPT !.pc = pc]
<1>1. [t EXCEPT !.pc = pc, !.slots = slots] = [a EXCEPT !.slots = slots]
  BY DEF Hands
<1>2. a \in Hands /\ a.pc = pc /\ Carries(a, t)
  BY HandIs
<1> HIDE DEF a
<1>3. /\ [a EXCEPT !.slots = slots] \in Hands /\ [a EXCEPT !.slots = slots].pc = pc
      /\ Carries([a EXCEPT !.slots = slots], t)
  BY <1>2 DEF Hands, Carries
<1> QED BY <1>1, <1>3

LEMMA NextIs ==
  ASSUME NEW t \in Hands
  PROVE  LET u == [t EXCEPT !.at = @ + 1, !.pc = "preflight"] IN
         /\ u \in Hands /\ u.pc = "preflight" /\ u.at = t.at + 1
         /\ u.req = t.req /\ u.mode = t.mode
<1> DEFINE a == [t EXCEPT !.at = t.at + 1]
<1>1. [t EXCEPT !.at = @ + 1, !.pc = "preflight"] = [a EXCEPT !.pc = "preflight"]
  BY DEF Hands
<1>2. a \in Hands /\ a.at = t.at + 1 /\ a.req = t.req /\ a.mode = t.mode
  BY DEF Hands
<1> HIDE DEF a
<1>3. /\ [a EXCEPT !.pc = "preflight"] \in Hands /\ [a EXCEPT !.pc = "preflight"].pc = "preflight"
      /\ Carries([a EXCEPT !.pc = "preflight"], a)
  BY <1>2, HandIs DEF Steps
<1> QED BY <1>1, <1>2, <1>3 DEF Carries

LEMMA StepDoes ==
  ASSUME Types, NEW w \in Workers, NEW u \in Hands, Step(w, u)
  PROVE  Replaced(w) /\ workers'[w] = u
BY DEF Step, Replaced, Types

LEMMA GoDoes ==
  ASSUME Types, NEW w \in Workers, NEW pc \in Steps, Go(w, pc)
  PROVE  Going(w, pc)
<1>1. workers[w] \in Hands
  BY DEF Types
<1>2. /\ [workers[w] EXCEPT !.pc = pc] \in Hands /\ [workers[w] EXCEPT !.pc = pc].pc = pc
      /\ Carries([workers[w] EXCEPT !.pc = pc], workers[w])
  BY <1>1, HandIs
<1> QED BY <1>2, StepDoes DEF Go, Going

LEMMA IdleDoes ==
  ASSUME Types, NEW w \in Workers, Step(w, Idle)
  PROVE  Replaced(w) /\ workers'[w] = Idle
<1>1. Idle \in Hands
  BY DEF Idle, Hands, Steps
<1> QED BY <1>1, StepDoes

LEMMA DoneDoes ==
  ASSUME Types, NEW w \in Workers, Step(w, Done(w))
  PROVE  Replaced(w) /\ Ended(w)
<1> DEFINE t == workers[w]
<1>1. t \in Hands
  BY DEF Types
<1>2. CASE t.mode # "apply"
  <2>1. Done(w) = Idle
    BY <1>2 DEF Done, Applying
  <2> QED BY <1>2, <2>1, IdleDoes DEF Ended
<1>3. CASE t.mode = "apply" /\ t.at < Len(plan[t.req].adapters)
  <2> DEFINE u == [t EXCEPT !.at = @ + 1, !.pc = "preflight"]
  <2>1. Done(w) = u
    BY <1>3 DEF Done, Applying, Touched
  <2>2. u \in Hands /\ u.pc = "preflight" /\ u.at = t.at + 1 /\ u.req = t.req /\ u.mode = t.mode
    BY <1>1, NextIs
  <2> HIDE DEF u
  <2>3. Replaced(w) /\ workers'[w] = u
    BY <2>1, <2>2, StepDoes
  <2> QED BY <1>3, <2>2, <2>3 DEF Ended, Onward
<1>4. CASE t.mode = "apply" /\ ~(t.at < Len(plan[t.req].adapters))
  <2> DEFINE u == [t EXCEPT !.pc = "release"]
  <2>1. Done(w) = u
    BY <1>4 DEF Done, Applying, Touched
  <2>2. u \in Hands /\ u.pc = "release" /\ Carries(u, t)
    BY <1>1, HandIs DEF Steps
  <2> HIDE DEF u
  <2>3. Replaced(w) /\ workers'[w] = u
    BY <2>1, <2>2, StepDoes
  <2> QED BY <1>4, <2>2, <2>3 DEF Ended, Onward, Carries
<1> QED BY <1>2, <1>3, <1>4

LEMMA TakeDoes ==
  ASSUME Types, NEW w \in Workers, NEW r \in Requests, Take(w, r)
  PROVE  Replaced(w) /\ Claims(w)
<1> DEFINE u == [Idle EXCEPT !.pc = "reserve", !.req = r, !.at = 1, !.mode = "apply"]
<1>1. u = [pc |-> "reserve", req |-> r, at |-> 1, mode |-> "apply", slots |-> {}]
  <2> DEFINE a == [Idle EXCEPT !.pc = "reserve"]
             b == [a EXCEPT !.req = r]
             c == [b EXCEPT !.at = 1]
  <2>1. u = [c EXCEPT !.mode = "apply"]
    BY DEF Idle
  <2>2. a = [pc |-> "reserve", req |-> None, at |-> 0, mode |-> None, slots |-> {}]
    BY DEF Idle
  <2> HIDE DEF a
  <2>3. b = [pc |-> "reserve", req |-> r, at |-> 0, mode |-> None, slots |-> {}]
    BY <2>2
  <2> HIDE DEF b
  <2>4. c = [pc |-> "reserve", req |-> r, at |-> 1, mode |-> None, slots |-> {}]
    BY <2>3
  <2> HIDE DEF c, u
  <2> QED BY <2>1, <2>4
<1>2. u \in Hands
  BY <1>1 DEF Hands, Steps
<1>3. workers[w].pc = "idle" /\ r \in Requests \ taken /\ taken' = taken \cup {r}
      /\ UNCHANGED <<gens, rules, timed>>
  BY DEF Take, host
<1>5. u.pc = "reserve" /\ u.req = r /\ u.at = 1 /\ u.mode = "apply"
  BY <1>1
<1> HIDE DEF u
<1>6. CASE workers' = workers
  BY <1>3, <1>6 DEF Replaced, Claims, Types
<1>7. CASE Valid(plan[r].target) /\ Step(w, u)
  <2>1. Replaced(w) /\ workers'[w] = u
    BY <1>2, <1>7, StepDoes
  <2> QED BY <1>3, <1>5, <1>7, <2>1 DEF Claims
<1> QED BY <1>6, <1>7 DEF Take, u

LEMMA ListDoes ==
  ASSUME Types, NEW w \in Workers, NEW g \in Gens, List(w, g)
  PROVE  Replaced(w) /\ Notes(w)
<1>a. PICK pc \in {"listed", "presumed"} :
        /\ IF pc = "presumed" THEN gens[g] = "prepared"
           ELSE (gens[g] = "completed" /\ g \in expired) \/ (Active(g) /\ Owns(g) \in killed)
        /\ Step(w, [Idle EXCEPT !.pc = pc, !.req = g[1], !.mode = g[2]])
  BY DEF List
<1> DEFINE u == [Idle EXCEPT !.pc = pc, !.req = g[1], !.mode = g[2]]
<1>1. u = [pc |-> pc, req |-> g[1], at |-> 0, mode |-> g[2], slots |-> {}]
  <2> DEFINE a == [Idle EXCEPT !.pc = pc]
             b == [a EXCEPT !.req = g[1]]
  <2>1. u = [b EXCEPT !.mode = g[2]]
    BY DEF Idle
  <2>2. a = [pc |-> pc, req |-> None, at |-> 0, mode |-> None, slots |-> {}]
    BY DEF Idle
  <2> HIDE DEF a
  <2>3. b = [pc |-> pc, req |-> g[1], at |-> 0, mode |-> None, slots |-> {}]
    BY <2>2
  <2> HIDE DEF b, u
  <2> QED BY <2>1, <2>3
<1>2. g[1] \in Requests /\ g[2] \in Names
  BY DEF Gens
<1> HIDE DEF u
<1>3. u \in Hands /\ u.pc = pc /\ u.req = g[1] /\ u.mode = g[2]
  <2> DEFINE r == g[1]
             n == g[2]
  <2>1. u = [pc |-> pc, req |-> r, at |-> 0, mode |-> n, slots |-> {}]
    BY <1>1
  <2>2. r \in Requests /\ n \in Names
    BY <1>2
  <2> HIDE DEF r, n
  <2>3. u \in Hands /\ u.pc = pc /\ u.req = r /\ u.mode = n
    BY <1>a, <2>1, <2>2 DEF Hands, Steps
  <2> QED BY <2>3 DEF r, n
<1>4. Step(w, u)
  BY <1>a DEF u
<1>5. Replaced(w) /\ workers'[w] = u
  BY <1>3, <1>4, StepDoes
<1>6. workers[w].pc = "idle" /\ Active(g) /\ (pc = "listed" => Due(g)) /\ Stays
  BY <1>a DEF List, At, Active, Due, Stays, host
<1> QED BY <1>a, <1>2, <1>3, <1>5, <1>6 DEF Notes, Names

LEMMA ReserveDoes ==
  ASSUME Types, Fit, NEW w \in Workers, Reserve(w)
  PROVE  Replaced(w) /\ Books(w)
<1> DEFINE t  == workers[w]
           as == plan[t.req].adapters
           at == IF t.at = Len(as) THEN 1 ELSE t.at + 1
           pc == IF t.at = Len(as) THEN "preflight" ELSE t.pc
           slots == t.slots \cup {as[t.at]}
           a  == [t EXCEPT !.slots = slots]
           b  == [a EXCEPT !.at = at]
           u  == [b EXCEPT !.pc = pc]
<1>1. t.pc = "reserve" /\ t \in Hands /\ Fits(t) /\ Stays
  BY DEF Reserve, Types, Fit, Stays, host
<1>2. t.req \in Requests /\ t.mode = "apply" /\ t.at \in DOMAIN as
  BY <1>1 DEF Fits, Applies
<1>3. as \in Seq(Names)
  BY <1>2, PlansAssumption DEF Types
<1>4. as[t.at] \in Names /\ t.at \in 1..Len(as)
  BY <1>2, <1>3
<1>5. CASE ~Free(as[t.at])
  <2>1. Going(w, "release")
    BY <1>5, GoDoes DEF Reserve, Touched, Steps
  <2> QED BY <1>1, <2>1 DEF Going, Carries, Books
<1>6. CASE Free(as[t.at])
  <2>1. Step(w, [t EXCEPT !.slots = @ \cup {as[t.at]},
                          !.at = IF @ = Len(as) THEN 1 ELSE @ + 1,
                          !.pc = IF t.at = Len(as) THEN "preflight" ELSE @])
    BY <1>6 DEF Reserve, Touched
  <2>2. Step(w, u)
    BY <2>1, <1>1 DEF Hands
  <2>3. \/ pc = "preflight" /\ at = 1
        \/ pc = "reserve" /\ at = t.at + 1 /\ t.at < Len(as)
    BY <1>1, <1>4
  <2>4. at \in Nat /\ pc \in Steps
    BY <1>1, <1>4 DEF Steps
  <2>5. a \in Hands /\ a.req = t.req /\ a.mode = t.mode
    BY <1>1, <1>4 DEF Hands
  <2> HIDE DEF a, at, pc
  <2>6. b \in Hands /\ b.req = t.req /\ b.mode = t.mode /\ b.at = at
    BY <2>4, <2>5 DEF Hands
  <2> HIDE DEF b
  <2>7. u \in Hands /\ u.pc = pc /\ Carries(u, b)
    BY <2>4, <2>6, HandIs
  <2> HIDE DEF u
  <2>8. Replaced(w) /\ workers'[w] = u
    BY <2>2, <2>7, StepDoes
  <2> QED BY <1>1, <2>3, <2>6, <2>7, <2>8 DEF Books, Carries
<1> QED BY <1>5, <1>6

LEMMA ReturnDoes ==
  ASSUME Types, NEW w \in Workers, workers[w].pc \in {"undone", "kept"},
         Step(w, [workers[w] EXCEPT !.pc = IF At(w, "undone") THEN "resolve" ELSE "retain", !.slots = {}]),
         Stays
  PROVE  Replaced(w) /\ Shifts(w)
<1> DEFINE t  == workers[w]
           pc == IF At(w, "undone") THEN "resolve" ELSE "retain"
           u  == [t EXCEPT !.pc = pc, !.slots = {}]
<1>1. t \in Hands /\ pc \in Steps /\ {} \in SUBSET Names
  BY DEF Types, Steps, Owning
<1>2. (t.pc = "undone" /\ pc = "resolve") \/ (t.pc = "kept" /\ pc = "retain")
  BY DEF At
<1> HIDE DEF pc
<1>3. u \in Hands /\ u.pc = pc /\ Carries(u, t)
  BY <1>1, SlottedIs
<1>4. Step(w, u)
  BY DEF pc
<1> HIDE DEF u
<1>5. Replaced(w) /\ workers'[w] = u
  BY <1>3, <1>4, StepDoes
<1> QED BY <1>2, <1>3, <1>5 DEF Shifts

LEMMA LiftDoes ==
  ASSUME Types, Fit, NEW w \in Workers, Lift(w)
  PROVE  Replaced(w) /\ (Locks(w) \/ Leaves(w))
<1> DEFINE t == workers[w]
           g == Gen(w)
<1>1. t.pc \in {"listed", "presumed"} /\ Stays /\ t \in Hands /\ g \in Gens
  BY GenIsInHand DEF Lift, At, Stays, host, Types
<1>2. {g[2]} \in SUBSET Names
  BY <1>1 DEF Gens
<1>3. CASE /\ gens[g] \in {"completed", "recovery"} /\ ~Held(g)
           /\ Step(w, [t EXCEPT !.pc = "call", !.slots = {g[2]}])
           /\ hasty' = IF At(w, "presumed") THEN hasty \cup {g} ELSE hasty
  <2> DEFINE u == [t EXCEPT !.pc = "call", !.slots = {g[2]}]
  <2>1. u \in Hands /\ u.pc = "call" /\ Carries(u, t)
    <3> DEFINE slots == {g[2]}
    <3>1. t \in Hands /\ "call" \in Steps /\ slots \in SUBSET Names
      BY <1>1, <1>2 DEF Steps, Owning
    <3> HIDE DEF t, slots
    <3>2. LET x == [t EXCEPT !.pc = "call", !.slots = slots]
          IN  x \in Hands /\ x.pc = "call" /\ Carries(x, t)
      BY <3>1, SlottedIs
    <3> QED BY <3>2 DEF t, slots
  <2> HIDE DEF u
  <2>2. Replaced(w) /\ workers'[w] = u
    BY <1>3, <2>1, StepDoes DEF u
  <2>3. t.pc = "presumed" => g \in hasty'
    BY <1>3 DEF At
  <2> QED BY <1>1, <1>3, <2>1, <2>2, <2>3 DEF Locks
<1>4. CASE Step(w, Idle)
  BY <1>1, <1>4, IdleDoes DEF Leaves
<1> QED BY <1>3, <1>4 DEF Lift

\* The commands.
LEMMA CallDoes ==
  ASSUME Types, Fit, NEW w \in Workers, Call(w) \/ CallFails(w)
  PROVE  Replaced(w) /\ (Blocks(w) \/ Unblocks(w) \/ Shifts(w))
<1> DEFINE t == workers[w]
           g == Gen(w)
<1> USE DEF At, Applying, Adding, Removing, Then, setup, asked, host, Stays
<1>1. t.pc = "call"
  BY DEF Call, ApplyRefuses, NftAdd, AclAdd, TableSet, NftDelete, AclDelete, AclMissing, TableReset,
         CallFails
<1>g. g \in Gens /\ Name(w) = g[2]
  BY <1>1, GenIsInHand DEF Owning
<1>a. ASSUME NEW pc \in {"verify", "retain"}, Go(w, pc), t.mode = "apply",
             Blockable(Target(g)), Adds(w), UNCHANGED <<taken, gens>>, StartTimeout(w) \/ UNCHANGED timed
      PROVE  Replaced(w) /\ Blocks(w)
  <2>1. Going(w, pc)
    BY <1>a, GoDoes DEF Steps, Owning
  <2>2. timed' = timed \/ (Name(w) = "nftables" /\ timed' = timed \cup {g})
    BY <1>a DEF StartTimeout
  <2> QED BY <1>1, <1>a, <2>1, <2>2 DEF Going, Blocks
<1>r. ASSUME NEW pc \in {"undone", "kept"}, Go(w, pc), t.mode # "apply",
             Removes(w), UNCHANGED <<taken, gens>>,
             EndTimeout(w) \/ (UNCHANGED timed /\ Name(w) # "nftables")
      PROVE  Replaced(w) /\ Unblocks(w)
  <2>1. Going(w, pc)
    BY <1>r, GoDoes DEF Steps, Owning
  <2>2. timed' \subseteq timed /\ (Name(w) = "nftables" => g \notin timed')
    BY <1>r DEF EndTimeout
  <2> QED BY <1>1, <1>r, <2>1, <2>2 DEF Going, Unblocks
<1>s. ASSUME NEW pc \in Steps, Go(w, pc), Stays,
             (t.mode = "apply" /\ pc = "retain") \/ (t.mode # "apply" /\ pc = "kept")
      PROVE  Replaced(w) /\ Shifts(w)
  <2>1. Going(w, pc)
    BY <1>s, GoDoes
  <2> QED BY <1>1, <1>s, <2>1 DEF Going, Shifts
<1>2. CASE ApplyRefuses(w)
  BY <1>2, <1>s DEF ApplyRefuses, Steps, Owning
<1>3. CASE NftAdd(w) \/ AclAdd(w) \/ TableSet(w)
  BY <1>3, <1>a DEF NftAdd, AclAdd, TableSet
<1>4. CASE NftDelete(w) \/ AclDelete(w) \/ TableReset(w)
  BY <1>4, <1>r DEF NftDelete, AclDelete, TableReset
<1>5. CASE AclMissing(w)
  BY <1>5, <1>s DEF AclMissing, Steps, Owning
<1>6. CASE CallFails(w)
  <2> DEFINE pc == IF t.mode = "apply" THEN "retain" ELSE "kept"
  <2>1. Go(w, pc) /\ UNCHANGED <<taken, gens>>
    BY <1>6 DEF CallFails
  <2>2. CASE UNCHANGED <<rules, timed>>
    BY <2>1, <2>2, <1>s DEF Steps, Owning
  <2>3. CASE t.mode = "apply" /\ Blockable(Target(g)) /\ Adds(w) /\ StartTimeout(w)
    BY <2>1, <2>3, <1>a
  <2>4. CASE t.mode # "apply" /\ Removes(w) /\ EndTimeout(w)
    BY <2>1, <2>4, <1>r
  <2> QED BY <1>6, <2>2, <2>3, <2>4 DEF CallFails
<1> QED BY <1>2, <1>3, <1>4, <1>5, <1>6 DEF Call

LEMMA PrepareDoes ==
  ASSUME Types, Fit, NEW w \in Workers, Prepare(w)
  PROVE  Replaced(w) /\ (Starts(w) \/ Skips(w))
<1>1. workers[w].pc = "prepare" /\ workers[w].mode = "apply" /\ UNCHANGED <<taken, rules, timed>>
  BY DEF Prepare, At, Fit, Fits, host
<1>2. CASE Step(w, Done(w)) /\ UNCHANGED gens
  BY <1>1, <1>2, DoneDoes DEF Skips, Ended, Stays
<1>3. CASE /\ SetGen(w, "prepared") /\ Go(w, "call")
           /\ ~\E g \in Gens \ {Gen(w)} : Active(g) /\ Owns(g) = Owns(Gen(w))
  <2>1. Going(w, "call")
    BY <1>3, GoDoes DEF Steps, Owning
  <2> QED BY <1>1, <1>3, <2>1 DEF Starts, Recorded, SetGen, Going
<1> QED BY <1>2, <1>3 DEF Prepare

LEMMA WorkerMoves ==
  ASSUME Types, Fit, NEW w \in Workers, ByWorker(w)
  PROVE  Moves(w) /\ Replaced(w) /\ expired' = expired /\ killed' = killed /\ hasty \subseteq hasty'
<1> USE DEF At, Steps, Owning, asked, host, Moves, Stays
<1>a. UNCHANGED <<expired, killed>> /\ hasty \subseteq hasty'
  <2>1. CASE WorkerStep(w)
    BY <2>1 DEF WorkerStep, Take, Reserve, Release, Preflight, Prepare, Call, ApplyRefuses, NftAdd,
                AclAdd, TableSet, NftDelete, AclDelete, AclMissing, TableReset, Then, Verify, Finish,
                Retain, List, Lift, Return, Resolve
  <2>2. CASE CallFails(w) \/ StepFails(w) \/ RecordFails(w) \/ ReturnFails(w) \/ Crash(w)
    BY <2>2 DEF CallFails, Then, StepFails, RecordFails, ReturnFails, Crash
  <2> QED BY <2>1, <2>2 DEF ByWorker
<1>f. Fits(workers[w]) /\ workers[w] \in Hands
  BY DEF Fit, Types
<1>1. CASE \E r \in Requests : Take(w, r)
  BY <1>1, <1>a, TakeDoes
<1>2. CASE Reserve(w)
  BY <1>2, <1>a, ReserveDoes
<1>3. CASE Release(w) \/ Crash(w)
  BY <1>3, <1>a, IdleDoes DEF Release, Crash, Leaves
<1>4. CASE Preflight(w)
  <2>1. CASE Step(w, Done(w))
    BY <1>4, <1>a, <1>f, <2>1, DoneDoes DEF Preflight, Skips, Ended, Fits
  <2>2. CASE Rule(Gen(w)) \notin rules[Name(w)] /\ Go(w, "prepare")
    BY <1>4, <1>a, <2>2, GoDoes DEF Preflight, Clears, Going
  <2> QED BY <1>4, <2>1, <2>2 DEF Preflight
<1>5. CASE Prepare(w)
  BY <1>5, <1>a, PrepareDoes
<1>6. CASE Call(w) \/ CallFails(w)
  BY <1>6, <1>a, CallDoes
<1>7. CASE Verify(w)
  <2>1. CASE Rule(Gen(w)) \in rules[Name(w)] /\ Go(w, "finish")
    BY <1>7, <1>a, <2>1, GoDoes DEF Verify, Passes, Going
  <2>2. CASE Go(w, "retain")
    BY <1>7, <1>a, <2>2, GoDoes DEF Verify, Shifts, Going
  <2> QED BY <1>7, <2>1, <2>2 DEF Verify
<1>8. CASE Finish(w)
  BY <1>8, <1>a, DoneDoes DEF Finish, Finishes, Recorded, SetGen
<1>9. CASE Retain(w)
  BY <1>9, <1>a, DoneDoes DEF Retain, Retains, Recorded, SetGen
<1>10. CASE \E g \in Gens : List(w, g)
  BY <1>10, <1>a, ListDoes
<1>11. CASE Lift(w)
  BY <1>11, <1>a, LiftDoes
<1>12. CASE Return(w)
  BY <1>12, <1>a, ReturnDoes DEF Return
<1>13. CASE Resolve(w)
  BY <1>13, <1>a, IdleDoes DEF Resolve, Resolves, Recorded, SetGen
<1>14. CASE StepFails(w)
  <2>1. CASE workers[w].pc \in {"preflight", "prepare"} /\ Step(w, Done(w))
    BY <1>14, <1>a, <1>f, <2>1, DoneDoes DEF StepFails, Skips, Ended, Fits
  <2>2. CASE workers[w].pc \in {"verify", "finish"} /\ Go(w, "retain")
    BY <1>14, <1>a, <2>2, GoDoes DEF StepFails, Shifts, Going
  <2> QED BY <1>14, <2>1, <2>2 DEF StepFails
<1>15. CASE RecordFails(w)
  <2>1. workers[w].pc \in {"retain", "resolve"} /\ Replaced(w) /\ Ended(w) /\ Stays
    BY <1>15, DoneDoes DEF RecordFails
  <2>2. CASE workers[w].mode = "apply"
    BY <1>a, <1>f, <2>1, <2>2 DEF Ended, Skips, Fits
  <2>3. CASE workers[w].mode # "apply"
    BY <1>a, <2>1, <2>3 DEF Ended, Leaves
  <2> QED BY <2>2, <2>3
<1>16. CASE ReturnFails(w)
  <2>1. CASE Step(w, Idle)
    BY <1>16, <1>a, <2>1, IdleDoes DEF ReturnFails, Leaves
  <2>2. CASE ~Step(w, Idle)
    BY <1>16, <1>a, <2>2, ReturnDoes DEF ReturnFails
  <2> QED BY <2>1, <2>2
<1> QED
  BY <1>1, <1>2, <1>3, <1>4, <1>5, <1>6, <1>7, <1>8, <1>9, <1>10, <1>11, <1>12, <1>13, <1>14,
     <1>15, <1>16 DEF ByWorker, WorkerStep

\* What the rest of the world does.
Demands ==
  /\ expired \subseteq expired' /\ killed \subseteq killed' /\ hasty \subseteq hasty'
  /\ UNCHANGED <<gens, rules, timed>>
Strays(g) ==
  /\ gens[g] = "prepared" /\ gens' = [gens EXCEPT ![g] = "recovery"]
  /\ \A w \in Workers : Applies(workers[w]) => workers[w].req # g[1]
  /\ UNCHANGED <<rules, timed, expired, killed, hasty>>
Lapses(g) ==
  /\ g \in timed \cap expired
  /\ rules' = [rules EXCEPT !["nftables"] = @ \ {Rule(g)}] /\ timed' = timed \ {g}
  /\ UNCHANGED <<gens, expired, killed, hasty>>

LEMMA WorldMoves ==
  ASSUME ByWorld \/ UNCHANGED vars
  PROVE  /\ UNCHANGED <<workers, taken>>
         /\ Demands \/ (\E g \in Gens : Strays(g)) \/ (\E g \in Gens : Lapses(g))
<1> USE DEF asked, host
<1>1. ASSUME NEW g \in Gens, Orphaned(g) PROVE Strays(g) /\ UNCHANGED <<workers, taken>>
  BY <1>1 DEF Orphaned, Strays, Applies, Applying
<1>2. ASSUME NEW g \in Gens, TtlPasses(g) \/ Kill(g) PROVE Demands /\ UNCHANGED <<workers, taken>>
  BY <1>2 DEF TtlPasses, Kill, Demands
<1>3. ASSUME NEW g \in Gens, KernelDrops(g) PROVE Lapses(g) /\ UNCHANGED <<workers, taken>>
  BY <1>3 DEF KernelDrops, Lapses
<1>4. CASE \E n \in Names : Stale(n)
  BY <1>4 DEF Stale, Demands
<1>5. CASE UNCHANGED vars
  BY <1>5 DEF vars, Demands
<1> QED BY <1>1, <1>2, <1>3, <1>4, <1>5 DEF ByWorld

-----------------------------------------------------------------------------
(* Types and hands.                                                          *)

LEMMA RulesStay ==
  ASSUME plan' = plan
  PROVE  /\ \A g : /\ Rule(g)' = Rule(g) /\ Target(g)' = Target(g) /\ Owns(g)' = Owns(g)
                   /\ (Ours(g)' <=> Ours(g))
         /\ Hands' = Hands
<1>1. \A g : Target(g)' = Target(g)
  BY DEF Target
<1>2. \A g : Rule(g)' = Rule(g) /\ Owns(g)' = Owns(g)
  BY <1>1 DEF Rule, Owns
<1> QED BY <1>1, <1>2 DEF Ours, Hands

\* What a step leaves alone stays at the generation it was at.
LEMMA OthersStay ==
  ASSUME plan' = plan, NEW v, workers'[v] = workers[v]
  PROVE  /\ GenOf(workers[v])' = GenOf(workers[v]) /\ (Applies(workers[v])' <=> Applies(workers[v]))
         /\ (Lifts(workers[v])' <=> Lifts(workers[v])) /\ (Fits(workers[v])' <=> Fits(workers[v]))
BY DEF GenOf, Applies, Lifts, Fits

LEMMA CarriedGen ==
  ASSUME plan' = plan, NEW w, Carries(workers'[w], workers[w])
  PROVE  GenOf(workers[w])' = GenOf(workers[w])
BY DEF GenOf, Carries

LEMMA InitTypes == Init => Types /\ Fit
<1> SUFFICES ASSUME Init PROVE Types /\ Fit
  OBVIOUS
<1>1. Idle \in Hands
  BY DEF Idle, Hands, Steps
<1>2. Types
  BY <1>1, AdaptersAssumption DEF Init, Types, Statuses
<1>3. \A w \in Workers : workers[w].pc = "idle"
  BY DEF Init, Idle
<1> QED BY <1>2, <1>3 DEF Fit, Fits, Applies

LEMMA LeakedStep == ASSUME Types, [Next]_vars PROVE leaked' \in [Names -> Nat]
<1>t. leaked \in [Names -> Nat]
  BY DEF Types
<1>1. ASSUME NEW w \in Workers, WorkerStep(w) PROVE leaked' = leaked
  BY <1>1 DEF WorkerStep, Take, Reserve, Release, Preflight, Prepare, Call, ApplyRefuses, NftAdd,
              AclAdd, TableSet, NftDelete, AclDelete, AclMissing, TableReset, Then, Verify, Finish,
              Retain, List, Lift, Return, Resolve
<1>2. ASSUME NEW w \in Workers, CallFails(w) \/ StepFails(w) \/ RecordFails(w) PROVE leaked' = leaked
  BY <1>2 DEF CallFails, Then, StepFails, RecordFails
<1>3. ASSUME NEW w \in Workers, ReturnFails(w) \/ Crash(w) PROVE leaked' \in [Names -> Nat]
  BY <1>3, <1>t DEF ReturnFails, Crash, Leaks
<1>4. ASSUME NEW g \in Gens, Orphaned(g) \/ TtlPasses(g) \/ Kill(g) \/ KernelDrops(g)
      PROVE  leaked' = leaked
  BY <1>4 DEF Orphaned, TtlPasses, Kill, KernelDrops
<1>5. ASSUME NEW n \in Names, Stale(n) PROVE leaked' \in [Names -> Nat]
  BY <1>5, <1>t DEF Stale
<1>6. CASE UNCHANGED vars
  BY <1>6, <1>t DEF vars
<1> QED BY <1>1, <1>2, <1>3, <1>4, <1>5, <1>6, <1>t DEF Next

LEMMA TypesStep == ASSUME Types, Fit, [Next]_vars PROVE Types'
<1>p. plan' = plan /\ list' = list
  BY SetupStays
<1>h. Hands' = Hands
  BY <1>p, RulesStay
<1>l. leaked' \in [Names -> Nat]
  BY LeakedStep
<1>1. ASSUME NEW w \in Workers, ByWorker(w) PROVE Types'
  <2>1. Moves(w) /\ workers' \in [Workers -> Hands]
    BY <1>1, WorkerMoves DEF Replaced
  <2>2. \/ gens' = gens
        \/ \E s \in Statuses : gens' = [gens EXCEPT ![Gen(w)] = s]
    BY <2>1 DEF Moves, Claims, Leaves, Books, Notes, Locks, Clears, Skips, Starts, Blocks, Unblocks,
                Shifts, Passes, Finishes, Retains, Resolves, Stays, Recorded, Statuses
  <2>3. gens' \in [Gens -> Statuses]
    BY <2>2 DEF Types
  <2>4. DOMAIN rules' = Names
    BY <2>1 DEF Types, Moves, Claims, Leaves, Books, Notes, Locks, Clears, Skips, Starts, Blocks,
                Unblocks, Shifts, Passes, Finishes, Retains, Resolves, Stays, Recorded, Adds, Removes
  <2>5. timed' \subseteq Gens
    <3>1. CASE Blocks(w)
      <4>1. Gen(w) \in Gens
        BY <3>1, GenIsInHand DEF Blocks, Owning
      <4> QED BY <3>1, <4>1 DEF Blocks, Types
    <3>2. CASE ~Blocks(w)
      BY <2>1, <3>2 DEF Types, Moves, Claims, Leaves, Books, Notes, Locks, Clears, Skips, Starts,
                        Unblocks, Shifts, Passes, Finishes, Retains, Resolves, Stays, Recorded
    <3> QED BY <3>1, <3>2
  <2> QED BY <1>p, <1>h, <1>l, <2>1, <2>3, <2>4, <2>5 DEF Types
<1>2. CASE ByWorld \/ UNCHANGED vars
  <2>1. workers' = workers /\ (Demands \/ (\E g \in Gens : Strays(g)) \/ (\E g \in Gens : Lapses(g)))
    BY <1>2, WorldMoves
  <2>2. gens' \in [Gens -> Statuses] /\ DOMAIN rules' = Names /\ timed' \subseteq Gens
    BY <2>1 DEF Types, Demands, Strays, Lapses, Statuses
  <2> QED BY <1>p, <1>h, <1>l, <2>1, <2>2 DEF Types
<1> QED BY <1>1, <1>2 DEF Next, ByWorker, ByWorld

LEMMA FitStep == ASSUME Types, Fit, [Next]_vars PROVE Fit'
<1>p. plan' = plan
  BY SetupStays
<1>1. ASSUME NEW w \in Workers, ByWorker(w) PROVE Fit'
  <2> DEFINE t == workers[w]
             u == workers'[w]
             as == plan[t.req].adapters
  <2>1. Moves(w) /\ Replaced(w)
    BY <1>1, WorkerMoves
  <2>2. ASSUME NEW v \in Workers, v # w PROVE Fits(workers[v])'
    BY <2>1, <2>2, <1>p, OthersStay DEF Replaced, Fit
  <2>f. Fits(t) /\ t \in Hands
    BY DEF Fit, Types
  <2>s. \A r \in Requests : plan[r].adapters \in Seq(Names) /\ plan[r].adapters # <<>>
    BY PlansAssumption DEF Types
  <2>d. ASSUME NEW r \in Requests PROVE DOMAIN plan[r].adapters = 1..Len(plan[r].adapters)
                                        /\ 1 \in DOMAIN plan[r].adapters
    BY <2>d, <2>s
  <2>i. ASSUME u = Idle PROVE Fits(workers[w])'
    BY <2>i DEF Idle, Fits, Applies
  <2>o. ASSUME t.pc \in {"preflight", "prepare", "finish", "retain"}, t.mode = "apply", Onward(u, t)
        PROVE  Fits(workers[w])'
    <3>1. t.req \in Requests /\ t.at \in DOMAIN as /\ Valid(plan[t.req].target)
      BY <2>o, <2>f DEF Fits, Applies
    <3>2. CASE u.pc = "release"
      BY <2>o, <3>1, <3>2, <1>p DEF Onward, Fits, Applies
    <3>3. CASE u.pc = "preflight" /\ u.at = t.at + 1 /\ t.at < Len(as)
      <4>1. u.at \in DOMAIN as
        BY <3>1, <3>3, <2>d
      <4> QED BY <2>o, <3>1, <3>3, <4>1, <1>p DEF Onward, Fits, Applies
    <3> QED BY <2>o, <3>2, <3>3 DEF Onward
  \* Steps on the same generation.
  <2>c. ASSUME t.pc \in {"preflight", "prepare", "listed", "presumed"} \cup Owning,
               u.pc \in {"prepare"} \cup Owning, Carries(u, t),
               u.pc \in {"prepare", "verify", "finish"} => t.mode = "apply",
               u.pc \in {"undone", "kept", "resolve"} => t.mode # "apply"
        PROVE  Fits(workers[w])'
    BY <2>c, <2>f, <1>p DEF Carries, Fits, Applies, Owning
  <2> SUFFICES Fits(workers[w])'
    BY <2>2 DEF Fit
  <2>3. CASE Claims(w)
    <3>1. CASE u = t
      BY <3>1, <1>p, <2>f, OthersStay
    <3>2. CASE u # t
      <4>1. PICK r \in Requests : /\ u.pc = "reserve" /\ u.req = r /\ u.at = 1
                                  /\ u.mode = "apply" /\ Valid(plan[r].target)
        BY <2>3, <3>2 DEF Claims
      <4> QED BY <4>1, <2>d, <1>p DEF Fits, Applies
    <3> QED BY <3>1, <3>2
  <2>4. CASE Leaves(w) \/ Resolves(w)
    BY <2>4, <2>i DEF Leaves, Resolves
  <2>5. CASE Books(w)
    <3>1. /\ t.pc = "reserve" /\ t.mode = "apply" /\ t.req \in Requests /\ t.at \in DOMAIN as
          /\ Valid(plan[t.req].target) /\ u.req = t.req /\ u.mode = t.mode
      BY <2>5, <2>f DEF Books, Fits, Applies
    <3>2. CASE u.pc = "release"
      BY <3>1, <3>2, <1>p DEF Fits, Applies
    <3>3. CASE u.pc = "preflight" /\ u.at = 1
      BY <3>1, <3>3, <2>d, <1>p DEF Fits, Applies
    <3>4. CASE u.pc = "reserve" /\ u.at = t.at + 1 /\ t.at < Len(as)
      <4>1. u.at \in DOMAIN as
        BY <3>1, <3>4, <2>d
      <4> QED BY <3>1, <3>4, <4>1, <1>p DEF Fits, Applies
    <3> QED BY <2>5, <3>2, <3>3, <3>4 DEF Books
  <2>6. CASE Notes(w)
    BY <2>6 DEF Notes, Gens, Fits, Applies
  <2>7. CASE Locks(w) \/ Clears(w) \/ Starts(w) \/ Blocks(w) \/ Unblocks(w)
    BY <2>7, <2>c, <2>f DEF Locks, Clears, Starts, Blocks, Unblocks, Owning, Fits
  <2>8. CASE Skips(w)
    BY <2>8, <2>o DEF Skips
  <2>9. CASE Shifts(w) \/ Passes(w)
    BY <2>9, <2>c, <2>f DEF Shifts, Passes, Owning, Fits
  <2>10. CASE Finishes(w) \/ Retains(w)
    BY <2>10, <2>o, <2>i DEF Finishes, Retains, Ended
  <2> QED BY <2>1, <2>3, <2>4, <2>5, <2>6, <2>7, <2>8, <2>9, <2>10 DEF Moves
<1>2. CASE ByWorld \/ UNCHANGED vars
  BY <1>2, <1>p, WorldMoves, OthersStay DEF Fit
<1> QED BY <1>1, <1>2 DEF Next, ByWorker, ByWorld

-----------------------------------------------------------------------------
(* Foreign rules are kept.                                                   *)

LEMMA InitKept == Init => Kept
BY DEF Init, Idle, Kept, ForeignKept, Owning

LEMMA KeptStep == ASSUME Types, Fit, Kept, [Next]_vars PROVE Kept'
<1>p. plan' = plan
  BY SetupStays
<1>s. \A g : Rule(g)' = Rule(g) /\ (Ours(g)' <=> Ours(g))
  BY <1>p, RulesStay
<1>n. DOMAIN rules = Names /\ \A n \in Names : Foreign[n] \subseteq rules[n]
  BY DEF Kept, ForeignKept, Types
<1>1. ASSUME NEW w \in Workers, ByWorker(w) PROVE Kept'
  <2> DEFINE t == workers[w]
             u == workers'[w]
             g == Gen(w)
  <2>1. Moves(w) /\ Replaced(w)
    BY <1>1, WorkerMoves
  <2>g. ASSUME t.pc \in {"prepare"} \cup Owning
        PROVE  g \in Gens /\ Name(w) = g[2] /\ g[2] \in Names /\ Ours(g) /\ g = GenOf(t)
    BY <2>g, GenIsInHand DEF Kept
  <2>2. ForeignKept'
    <3>1. CASE Blocks(w)
      <4>1. rules' = [rules EXCEPT ![Name(w)] = @ \cup {Rule(g)}]
        BY <3>1 DEF Blocks, Adds
      <4> QED BY <4>1, <1>n DEF ForeignKept
    <3>2. CASE Unblocks(w)
      <4>1. rules' = [rules EXCEPT ![g[2]] = @ \ {Rule(g)}] /\ Rule(g) \notin Foreign[g[2]]
        BY <3>2, <2>g DEF Unblocks, Removes, Owning, Ours
      <4> QED BY <4>1, <1>n DEF ForeignKept
    <3>3. CASE ~Blocks(w) /\ ~Unblocks(w)
      <4>1. rules' = rules
        BY <2>1, <3>3 DEF Moves, Claims, Leaves, Books, Notes, Locks, Clears, Skips, Starts,
                          Shifts, Passes, Finishes, Retains, Resolves, Stays, Recorded
      <4> QED BY <4>1, <1>n DEF ForeignKept
    <3> QED BY <3>1, <3>2, <3>3
  <2>3. ASSUME NEW h \in Gens, gens'[h] # "none" PROVE Ours(h)'
    <3>1. gens' = gens \/ (t.pc \in {"prepare"} \cup Owning
                           /\ \E s \in Statuses : gens' = [gens EXCEPT ![g] = s])
      BY <2>1 DEF Moves, Claims, Leaves, Books, Notes, Locks, Clears, Skips, Starts, Blocks, Unblocks,
                  Shifts, Passes, Finishes, Retains, Resolves, Stays, Recorded, Statuses, Owning
    <3>2. gens[h] # "none" \/ (h = g /\ t.pc \in {"prepare"} \cup Owning)
      BY <2>3, <3>1 DEF Types
    <3> QED BY <3>2, <2>g, <1>s DEF Kept
  <2>4. ASSUME u.pc \in {"prepare"} \cup Owning PROVE Ours(GenOf(workers[w]))'
    <3>1. \/ Carries(u, t) /\ t.pc \in {"prepare"} \cup Owning
          \/ Clears(w)
          \/ Locks(w)
          \/ u = t
      BY <2>1, <2>4 DEF Moves, Claims, Leaves, Idle, Books, Notes, Skips, Onward, Starts, Blocks,
                        Unblocks, Shifts, Passes, Finishes, Retains, Resolves, Ended, Owning
    <3>2. CASE Carries(u, t) /\ t.pc \in {"prepare"} \cup Owning
      <4>1. PICK h : h = GenOf(t)
        OBVIOUS
      <4>2. GenOf(workers[w])' = h
        BY <1>p, <3>2, <4>1, CarriedGen
      <4> QED BY <3>2, <4>1, <4>2, <2>g, <1>s
    <3>3. CASE Clears(w)
      <4>1. PICK h : h = GenOf(t)
        OBVIOUS
      <4>2. GenOf(workers[w])' = h
        BY <1>p, <3>3, <4>1, CarriedGen DEF Clears
      <4>3. Rule(h) \notin rules[h[2]] /\ h[2] \in Names
        BY <3>3, <4>1, GenIsInHand DEF Clears
      <4>4. Ours(h)
        BY <4>3, <1>n DEF Ours
      <4> QED BY <4>2, <4>4, <1>s
    <3>4. CASE Locks(w)
      <4>1. PICK h : h = GenOf(t)
        OBVIOUS
      <4>2. GenOf(workers[w])' = h
        BY <1>p, <3>4, <4>1, CarriedGen DEF Locks
      <4>3. h \in Gens /\ gens[h] # "none"
        BY <3>4, <4>1, GenIsInHand DEF Locks
      <4> QED BY <4>2, <4>3, <1>s DEF Kept
    <3>5. CASE u = t
      <4>1. PICK h : h = GenOf(t)
        OBVIOUS
      <4>2. GenOf(workers[w])' = h
        BY <1>p, <3>5, <4>1, OthersStay
      <4> QED BY <2>4, <3>5, <4>1, <4>2, <1>s DEF Kept
    <3> QED BY <3>1, <3>2, <3>3, <3>4, <3>5
  <2>5. ASSUME NEW v \in Workers, v # w, workers'[v].pc \in {"prepare"} \cup Owning
        PROVE  Ours(GenOf(workers[v]))'
    <3>1. PICK h : h = GenOf(workers[v])
      OBVIOUS
    <3>2. workers'[v] = workers[v] /\ GenOf(workers[v])' = h
      BY <1>p, <2>1, <2>5, <3>1, OthersStay DEF Replaced
    <3> QED BY <2>5, <3>1, <3>2, <1>s DEF Kept
  <2>6. ASSUME NEW h \in timed' PROVE h[2] = "nftables" /\ Ours(h)'
    <3>1. h \in timed \/ (h = g /\ Name(w) = "nftables" /\ Blocks(w))
      BY <2>1, <2>6 DEF Moves, Claims, Leaves, Books, Notes, Locks, Clears, Skips, Starts, Blocks,
                        Unblocks, Shifts, Passes, Finishes, Retains, Resolves, Stays, Recorded
    <3> QED BY <3>1, <2>g, <1>s DEF Kept, Blocks, Owning
  <2> QED BY <2>2, <2>3, <2>4, <2>5, <2>6 DEF Kept
<1>2. CASE ByWorld \/ UNCHANGED vars
  <2>1. workers' = workers /\ (Demands \/ (\E g \in Gens : Strays(g)) \/ (\E g \in Gens : Lapses(g)))
    BY <1>2, WorldMoves
  <2>2. ForeignKept'
    <3>1. CASE rules' = rules
      BY <3>1, <1>n DEF ForeignKept
    <3>2. ASSUME NEW g \in Gens, Lapses(g) PROVE ForeignKept'
      <4>1. rules' = [rules EXCEPT !["nftables"] = @ \ {Rule(g)}] /\ Rule(g) \notin Foreign["nftables"]
        BY <3>2 DEF Lapses, Kept, Ours
      <4> QED BY <4>1, <1>n DEF ForeignKept
    <3> QED BY <2>1, <3>1, <3>2 DEF Demands, Strays
  <2>3. \A g \in Gens : gens'[g] # "none" => gens[g] # "none"
    BY <2>1 DEF Types, Demands, Strays, Lapses
  <2>4. ASSUME NEW v \in Workers, workers'[v].pc \in {"prepare"} \cup Owning
        PROVE  Ours(GenOf(workers[v]))'
    <3>1. PICK h : h = GenOf(workers[v])
      OBVIOUS
    <3>2. GenOf(workers[v])' = h
      BY <1>p, <2>1, <3>1, OthersStay
    <3> QED BY <2>1, <2>4, <3>1, <3>2, <1>s DEF Kept
  <2>5. timed' \subseteq timed
    BY <2>1 DEF Demands, Strays, Lapses
  <2> QED BY <2>2, <2>3, <2>4, <2>5, <1>s DEF Kept
<1> QED BY <1>1, <1>2 DEF Next, ByWorker, ByWorld

-----------------------------------------------------------------------------
(* What is on a surface passed the never-block list.                         *)

LEMMA InitScreened == Init => Screened
BY DEF Init, Screened, Covered

LEMMA CoveredStays ==
  ASSUME plan' = plan, list' = list
  PROVE  \A n : Covered(n)' = Covered(n)
<1>1. \A g : Rule(g)' = Rule(g) /\ Target(g)' = Target(g)
  BY RulesStay
<1>2. \A t : (Blockable(t)' <=> Blockable(t))
  BY DEF Blockable
<1> QED BY <1>1, <1>2 DEF Covered

LEMMA ScreenedStep == ASSUME Types, Fit, Screened, [Next]_vars PROVE Screened'
<1>p. plan' = plan /\ list' = list
  BY SetupStays
<1>c. \A n : Covered(n)' = Covered(n)
  BY <1>p, CoveredStays
<1>d. DOMAIN rules = Names
  BY DEF Types
<1> SUFFICES \A n \in Names : rules'[n] \subseteq Covered(n)
  BY <1>c DEF Screened
<1>s. \A n \in Names : rules[n] \subseteq Covered(n)
  BY DEF Screened
<1>1. ASSUME NEW w \in Workers, ByWorker(w) PROVE \A n \in Names : rules'[n] \subseteq Covered(n)
  <2> DEFINE g == Gen(w)
  <2>1. Moves(w)
    BY <1>1, WorkerMoves
  <2>2. CASE Blocks(w)
    <3>1. g \in Gens /\ Name(w) = g[2] /\ g[2] \in Names /\ g[1] = workers[w].req
      BY <2>2, GenIsInHand DEF Blocks, Owning
    <3>2. Blockable(Target(g)) /\ Valid(Target(g))
      BY <2>2, <3>1 DEF Blocks, Fit, Fits, Applies, Target
    <3>3. Rule(g) \in Covered(g[2])
      BY <3>1, <3>2 DEF Covered
    <3>4. rules' = [rules EXCEPT ![g[2]] = @ \cup {Rule(g)}]
      BY <2>2, <3>1 DEF Blocks, Adds
    <3> QED BY <3>1, <3>3, <3>4, <1>s, <1>d
  <2>3. CASE ~Blocks(w)
    <3>1. rules' = rules \/ rules' = [rules EXCEPT ![Name(w)] = @ \ {Rule(g)}]
      BY <2>1, <2>3 DEF Moves, Claims, Leaves, Books, Notes, Locks, Clears, Skips, Starts, Unblocks,
                        Shifts, Passes, Finishes, Retains, Resolves, Stays, Recorded, Removes
    <3> QED BY <3>1, <1>s, <1>d
  <2> QED BY <2>2, <2>3
<1>2. CASE ByWorld \/ UNCHANGED vars
  <2>1. rules' = rules \/ \E g \in Gens : rules' = [rules EXCEPT !["nftables"] = @ \ {Rule(g)}]
    BY <1>2, WorldMoves DEF Demands, Strays, Lapses
  <2> QED BY <2>1, <1>s, <1>d
<1> QED BY <1>1, <1>2 DEF Next, ByWorker, ByWorld

-----------------------------------------------------------------------------
(* Two prefixes that share a host overlap.                                   *)

LEMMA Powers ==
  /\ \A i \in 0..3 : 2 ^ i \in {1, 2, 4, 8}
  /\ \A i \in 0..3 : \A j \in 0..3 : i <= j => 2 ^ i <= 2 ^ j
<1> DEFINE S(i) == 2 ^ i
<1>1. S(0) = 1 /\ S(1) = 2 /\ S(2) = 4 /\ S(3) = 8
  OBVIOUS
<1> HIDE DEF S
<1>2. \A i \in 0..3 : i = 0 \/ i = 1 \/ i = 2 \/ i = 3
  OBVIOUS
<1>3. \A i \in 0..3 : S(i) \in {1, 2, 4, 8}
  BY <1>1, <1>2
<1>4. \A i \in 0..3 : \A j \in 0..3 : i <= j => S(i) <= S(j)
  BY <1>1, <1>2
<1> QED BY <1>3, <1>4 DEF S

\* What two addresses have in common under a mask, they have under a shorter one.
LEMMA Coarser ==
  ASSUME NEW s \in {1, 2, 4, 8}, NEW q \in {1, 2, 4, 8}, s <= q,
         NEW x \in Nat, NEW a \in Nat, x \div s = a \div s
  PROVE  x \div q = a \div q
<1>1. CASE s = q
  BY <1>1
<1>2. CASE s = 1
  BY <1>2
<1>3. CASE s = 2 /\ q = 4
  BY <1>3
<1>4. CASE s = 2 /\ q = 8
  BY <1>4
<1>5. CASE s = 4 /\ q = 8
  BY <1>5
<1> QED BY <1>1, <1>2, <1>3, <1>4, <1>5

LEMMA SharedHostOverlaps ==
  ASSUME NEW a, NEW b, NEW fam \in {4, 6}, a.fam = fam, b.fam = fam,
         a.addr \in Nat, b.addr \in Nat, a.len \in 0..Bits(fam), b.len \in 0..Bits(fam),
         NEW x \in Nat,
         LET s == 2 ^ (Bits(fam) - a.len) IN x \div s = a.addr \div s,
         LET s == 2 ^ (Bits(fam) - b.len) IN x \div s = b.addr \div s
  PROVE  RangesOverlap(a, b)
<1> DEFINE B == Bits(fam)
           l == a.len
           m == b.len
           S(i) == 2 ^ i
<1>1. B \in {2, 3} /\ l \in 0..B /\ m \in 0..B
  BY DEF Bits
<1>2. \A i \in 0..3 : S(i) \in {1, 2, 4, 8}
  BY Powers
<1>3. \A i \in 0..3 : \A j \in 0..3 : i <= j => S(i) <= S(j)
  BY Powers
<1>4. B - l \in 0..3 /\ B - m \in 0..3
  BY <1>1
<1>5. x \div S(B - l) = a.addr \div S(B - l) /\ x \div S(B - m) = b.addr \div S(B - m)
  OBVIOUS
<1> HIDE DEF B, S
<1>6. CASE l <= m
  <2>1. x \div S(B - l) = b.addr \div S(B - l)
    <3>1. B - m <= B - l
      BY <1>1, <1>6
    <3>2. S(B - m) \in {1, 2, 4, 8} /\ S(B - l) \in {1, 2, 4, 8} /\ S(B - m) <= S(B - l)
      BY <1>2, <1>3, <1>4, <3>1
    <3> QED BY <3>2, <1>5, Coarser
  <2>2. a.addr \div S(B - l) = b.addr \div S(B - l)
    BY <1>5, <2>1
  <2> QED BY <1>6, <2>2 DEF RangesOverlap, B, S
<1>7. CASE ~(l <= m)
  <2>1. x \div S(B - m) = a.addr \div S(B - m)
    <3>1. B - l <= B - m
      BY <1>1, <1>7
    <3>2. S(B - m) \in {1, 2, 4, 8} /\ S(B - l) \in {1, 2, 4, 8} /\ S(B - l) <= S(B - m)
      BY <1>2, <1>3, <1>4, <3>1
    <3> QED BY <3>2, <1>5, Coarser
  <2>2. a.addr \div S(B - m) = b.addr \div S(B - m)
    BY <1>5, <2>1
  <2> QED BY <1>7, <2>2 DEF RangesOverlap, B, S
<1> QED BY <1>6, <1>7

\* A valid address as it is compared: its family's bits bound its prefix.
LEMMA FullIsBounded ==
  ASSUME NEW t, Address(t), Valid(t)
  PROVE  /\ Full(Key(t)).fam \in {4, 6} /\ Full(Key(t)).fam = Key(t).fam
         /\ Full(Key(t)).addr \in Nat /\ Full(Key(t)).addr = Key(t).addr
         /\ Full(Key(t)).len \in 0..Bits(Key(t).fam)
         /\ Full(Full(Key(t))) = Full(Key(t))
<1> DEFINE k == Key(t)
<1>1. /\ k = [fam |-> k.fam, addr |-> k.addr, len |-> k.len]
      /\ k.fam \in {4, 6} /\ k.addr \in Nat /\ k.len \in Nat \cup {None} /\ k.len = t.len
  BY DEF Key, Address
<1>2. k.len = None \/ k.len <= Bits(k.fam)
  BY <1>1 DEF Valid
<1> HIDE DEF k
<1>3. Full(k) = [fam |-> k.fam, addr |-> k.addr, len |-> IF k.len = None THEN Bits(k.fam) ELSE k.len]
  BY <1>1 DEF Full
<1>4. Bits(k.fam) \in {2, 3}
  BY <1>1 DEF Bits
<1>5. Full(Full(k)) = Full(k)
  BY <1>3 DEF Full
<1> QED BY <1>1, <1>2, <1>3, <1>4, <1>5 DEF k

LEMMA ScreenedIsRespected == ASSUME Types, Screened PROVE NeverBlocked
<1> SUFFICES ASSUME NEW n \in Names, NEW k \in rules[n] \ Foreign[n]
             PROVE  /\ list # Malformed
                    /\ \A entry \in list :
                         Key(entry).fam = k.fam => Hosts(Key(entry)) \cap Hosts(k) = {}
  BY DEF NeverBlocked
<1>2. PICK g \in Gens : g[2] = n /\ Blockable(Target(g)) /\ Valid(Target(g)) /\ Rule(g) = k
  BY DEF Screened, Covered
<1> DEFINE t == Target(g)
<1>3. Blockable(t) /\ Valid(t) /\ k = Entry(n, t)
  BY <1>2 DEF Rule
<1>4. Address(t)
  BY AddressAssumption DEF Types, Target, Gens
<1> HIDE DEF t
<1>5. list \in Lists /\ list # Malformed
  BY <1>3 DEF Types, Blockable
<1>6. ASSUME NEW entry \in list, Key(entry).fam = k.fam, NEW x \in Hosts(Key(entry)), x \in Hosts(k)
      PROVE  FALSE
  <2> DEFINE a == Full(Key(entry))
             b == Full(Key(t))
             fam == k.fam
  <2>1. Address(entry) /\ Valid(entry) /\ ~RangesOverlap(a, b)
    BY <1>3, <1>5, AddressAssumption DEF Blockable
  <2>2. /\ k.fam = b.fam /\ k.addr = b.addr /\ Full(k) = b /\ fam \in {4, 6}
        /\ b.addr \in Nat /\ b.len \in 0..Bits(fam)
    BY <1>3, <1>4, FullIsBounded DEF Entry
  <2>3. /\ a.fam = fam /\ a.addr = Key(entry).addr /\ a.addr \in Nat /\ a.len \in 0..Bits(fam)
        /\ Key(entry).fam = fam
    BY <1>6, <2>1, FullIsBounded
  <2>4. x \in Nat
    BY <1>6, <2>3, Powers DEF Hosts, Bits
  <2>5. /\ x \div (2 ^ (Bits(fam) - a.len)) = a.addr \div (2 ^ (Bits(fam) - a.len))
        /\ x \div (2 ^ (Bits(fam) - b.len)) = b.addr \div (2 ^ (Bits(fam) - b.len))
    BY <1>6, <2>2, <2>3 DEF Hosts
  <2> HIDE DEF a, b, fam
  <2>6. RangesOverlap(a, b)
    BY <2>2, <2>3, <2>4, <2>5, SharedHostOverlaps DEF fam
  <2> QED BY <2>1, <2>6
<1> QED BY <1>5, <1>6

-----------------------------------------------------------------------------

\* A rule an operator had put on a surface stays there whatever the executors apply,
\* lift or crash over: an apply refuses what is already there, and no generation that
\* is lifted, nor any element the kernel drops, is of such a rule.
THEOREM ForeignRulesStay == Spec => []ForeignKept
<1> DEFINE I == Types /\ Fit /\ Kept
<1>1. Init => I
  BY InitTypes, InitKept
<1>2. I /\ [Next]_vars => I'
  BY TypesStep, FitStep, KeptStep
<1>3. I => ForeignKept
  BY DEF Kept
<1> QED BY <1>1, <1>2, <1>3, PTL DEF Spec

\* No host of the never-block list is ever covered by a rule that Clawforge put on a
\* surface, however list and target spell their ranges and whether or not the target is
\* behind a pseudonym: every command compares the two by the shorter prefix.
THEOREM ListIsRespected == Spec => []NeverBlocked
<1> DEFINE I == Types /\ Fit /\ Screened
<1>1. Init => I
  BY InitTypes, InitScreened
<1>2. I /\ [Next]_vars => I'
  BY TypesStep, FitStep, ScreenedStep
<1>3. I => NeverBlocked
  BY ScreenedIsRespected
<1> QED BY <1>1, <1>2, <1>3, PTL DEF Spec

-----------------------------------------------------------------------------
(* Workers keep out of each other's way.                                     *)

\* Where a worker that applies or lifts comes from.
LEMMA WorkerArrives ==
  ASSUME Types, Fit, NEW w \in Workers, Moves(w), plan' = plan
  PROVE  LET t == workers[w]
             u == workers'[w]
         IN  /\ Applies(u) => \/ Applies(t) /\ u.req = t.req
                              \/ u.req \notin taken /\ u.req \in taken'
             /\ Lifts(u) => \/ Lifts(t) /\ GenOf(workers[w])' = GenOf(t)
                            \/ Locks(w) /\ GenOf(workers[w])' = GenOf(t)
             /\ taken \subseteq taken'
<1> DEFINE t == workers[w]
           u == workers'[w]
<1>f. Fits(t)
  BY DEF Fit
<1>1. taken \subseteq taken'
  BY DEF Moves, Claims, Leaves, Books, Notes, Locks, Clears, Skips, Starts, Blocks, Unblocks, Shifts,
         Passes, Finishes, Retains, Resolves, Stays, Recorded
<1>2. ASSUME Applies(u)
      PROVE  (Applies(t) /\ u.req = t.req) \/ (u.req \notin taken /\ u.req \in taken')
  <2> USE <1>2, <1>f DEF Applies, Fits, Idle, Carries
  <2>1. CASE Claims(w)
    BY <2>1 DEF Claims
  <2>2. CASE Leaves(w) \/ Books(w) \/ Notes(w) \/ Locks(w) \/ Clears(w) \/ Skips(w)
    BY <2>2 DEF Leaves, Books, Notes, Locks, Clears, Skips, Onward
  <2>3. CASE Starts(w) \/ Blocks(w) \/ Unblocks(w) \/ Shifts(w) \/ Passes(w)
    BY <2>3 DEF Starts, Blocks, Unblocks, Shifts, Passes
  <2>4. CASE Finishes(w) \/ Retains(w) \/ Resolves(w)
    BY <2>4 DEF Finishes, Retains, Resolves, Ended, Onward
  <2> QED BY <2>1, <2>2, <2>3, <2>4 DEF Moves
<1>3. ASSUME Lifts(u)
      PROVE  (Lifts(t) \/ Locks(w)) /\ GenOf(workers[w])' = GenOf(t)
  <2> USE <1>3, <1>f DEF Lifts, Lifting, Fits, Idle
  <2>1. CASE Claims(w)
    <3>1. u = t
      BY <2>1 DEF Claims
    <3> QED BY <3>1, OthersStay
  <2>2. CASE Leaves(w) \/ Books(w) \/ Notes(w) \/ Clears(w) \/ Skips(w)
    BY <2>2 DEF Leaves, Books, Notes, Clears, Skips, Onward
  <2>3. CASE Locks(w)
    BY <2>3, CarriedGen DEF Locks
  <2>4. CASE Starts(w) \/ Blocks(w) \/ Unblocks(w) \/ Shifts(w) \/ Passes(w)
    <3>1. Carries(u, t) /\ Lifts(t)
      BY <2>4 DEF Starts, Blocks, Unblocks, Shifts, Passes, Carries
    <3> QED BY <3>1, CarriedGen
  <2>5. CASE Finishes(w) \/ Retains(w) \/ Resolves(w)
    BY <2>5 DEF Finishes, Retains, Resolves, Ended, Onward
  <2> QED BY <2>1, <2>2, <2>3, <2>4, <2>5 DEF Moves
<1> QED BY <1>1, <1>2, <1>3

LEMMA AloneStep == ASSUME Types, Fit, Alone, [Next]_vars PROVE Alone'
<1>p. plan' = plan
  BY SetupStays
<1>1. ASSUME NEW w \in Workers, ByWorker(w) PROVE Alone'
  <2> DEFINE t == workers[w]
             u == workers'[w]
  <2>1. Moves(w) /\ Replaced(w)
    BY <1>1, WorkerMoves
  <2>2. /\ Applies(u) => \/ Applies(t) /\ u.req = t.req
                         \/ u.req \notin taken /\ u.req \in taken'
        /\ Lifts(u) => (Lifts(t) \/ Locks(w)) /\ GenOf(workers[w])' = GenOf(t)
        /\ taken \subseteq taken'
    BY <1>p, <2>1, WorkerArrives
  <2>3. ASSUME NEW v \in Workers, v # w
        PROVE  /\ workers'[v] = workers[v] /\ GenOf(workers[v])' = GenOf(workers[v])
    BY <1>p, <2>1, <2>3, OthersStay DEF Replaced
  <2>4. \A v \in Workers : Applies(workers'[v]) => workers'[v].req \in taken'
    BY <2>2, <2>3 DEF Alone
  <2>5. ASSUME NEW v \in Workers, v # w
        PROVE  /\ ~(Applies(workers'[v]) /\ Applies(u) /\ workers'[v].req = u.req)
               /\ ~(Lifts(workers'[v]) /\ Lifts(u) /\ GenOf(workers[v])' = GenOf(workers[w])')
    <3>1. ~(Applies(workers'[v]) /\ Applies(u) /\ workers'[v].req = u.req)
      BY <2>2, <2>3, <2>5 DEF Alone
    <3>2. ASSUME Lifts(workers[v]), Lifts(u), GenOf(workers[v]) = GenOf(t) PROVE FALSE
      <4>1. CASE Lifts(t)
        BY <3>2, <4>1, <2>5 DEF Alone
      <4>2. CASE Locks(w)
        <5>1. Gen(w) = GenOf(t) /\ Gen(v) = GenOf(workers[v])
          BY <3>2, <4>2, GenIsInHand DEF Locks, Lifts, Lifting, Owning
        <5> QED BY <3>2, <4>2, <5>1 DEF Locks, Held, Lifts, Applying
      <4> QED BY <3>2, <4>1, <4>2, <2>2
    <3> QED BY <3>1, <3>2, <2>2, <2>3, <2>5
  <2>6. ASSUME NEW v \in Workers, NEW x \in Workers
        PROVE  /\ Applies(workers'[v]) /\ Applies(workers'[x]) /\ workers'[v].req = workers'[x].req
                    => v = x
               /\ /\ Lifts(workers'[v]) /\ Lifts(workers'[x])
                  /\ GenOf(workers[v])' = GenOf(workers[x])'
                  => v = x
    <3>1. CASE v = w \/ x = w
      BY <2>5, <3>1
    <3>2. CASE v # w /\ x # w
      BY <2>3, <3>2 DEF Alone
    <3> QED BY <3>1, <3>2
  <2>7. \A v \in Workers : /\ Applies(workers[v])' <=> Applies(workers'[v])
                           /\ Lifts(workers[v])' <=> Lifts(workers'[v])
    BY DEF Applies, Lifts
  <2> QED BY <2>4, <2>6, <2>7 DEF Alone
<1>2. CASE ByWorld \/ UNCHANGED vars
  <2>1. workers' = workers /\ taken' = taken
    BY <1>2, WorldMoves
  <2>2. \A v \in Workers : /\ GenOf(workers[v])' = GenOf(workers[v])
                           /\ Applies(workers[v])' <=> Applies(workers[v])
                           /\ Lifts(workers[v])' <=> Lifts(workers[v])
    BY <1>p, <2>1, OthersStay
  <2> QED BY <2>1, <2>2 DEF Alone
<1> QED BY <1>1, <1>2 DEF Next, ByWorker, ByWorld

-----------------------------------------------------------------------------
(* A generation is what the worker at it takes it for.                       *)

LEMMA DueStays ==
  ASSUME plan' = plan, expired \subseteq expired', killed \subseteq killed', hasty \subseteq hasty'
  PROVE  \A g : Due(g) => Due(g)'
BY RulesStay DEF Due

LEMMA WorldPasses ==
  ASSUME ByWorld \/ UNCHANGED vars
  PROVE  expired \subseteq expired' /\ killed \subseteq killed' /\ hasty \subseteq hasty'
BY WorldMoves DEF Demands, Strays, Lapses

\* What a step of a worker makes of the generations.
LEMMA WorkerRecords ==
  ASSUME NEW w \in Workers, Moves(w)
  PROVE  \/ gens' = gens
         \/ /\ workers[w].pc \in {"prepare", "finish", "retain", "resolve"}
            /\ \E s \in Statuses \ {"none"} : gens' = [gens EXCEPT ![Gen(w)] = s]
BY DEF Moves, Claims, Leaves, Books, Notes, Locks, Clears, Skips, Starts, Blocks, Unblocks, Shifts,
       Passes, Finishes, Retains, Resolves, Stays, Recorded, Statuses

\* What a worker has before it: a generation that is not recorded, one that it applies, or
\* one that it lifts.
LEMMA WorkerHas ==
  ASSUME Types, Fit, Minded, NEW w \in Workers,
         workers[w].pc \in {"prepare", "finish", "retain", "resolve"}
  PROVE  /\ Gen(w) \in Gens /\ Gen(w) = GenOf(workers[w]) /\ Gen(w)[1] = workers[w].req
         /\ \/ Applies(workers[w]) /\ gens[Gen(w)] \in {"none", "prepared"}
            \/ Lifts(workers[w]) /\ gens[Gen(w)] \in {"completed", "recovery"}
<1> DEFINE t == workers[w]
<1>1. Gen(w) \in Gens /\ Gen(w) = GenOf(t) /\ Gen(w)[1] = t.req
  BY GenIsInHand DEF Owning
<1>2. Fits(t) /\ Mindful(w)
  BY DEF Fit, Minded
<1>3. CASE t.pc = "prepare"
  <2>1. Applies(t) /\ Fresh(t) /\ t.at \in DOMAIN plan[t.req].adapters
    BY <1>2, <1>3 DEF Fits, Mindful, Applies
  <2>2. gens[<<t.req, plan[t.req].adapters[t.at]>>] = "none"
    BY <1>3, <2>1 DEF Fresh
  <2> QED BY <1>1, <2>1, <2>2 DEF GenOf, Applies
<1>4. CASE t.pc # "prepare" /\ t.mode = "apply"
  BY <1>1, <1>2, <1>4 DEF Mindful, Applies, Owning
<1>5. CASE t.pc # "prepare" /\ t.mode # "apply"
  BY <1>1, <1>2, <1>5 DEF Mindful, Lifts, Lifting, Fits
<1> QED BY <1>1, <1>3, <1>4, <1>5

LEMMA OthersUndisturbed ==
  ASSUME Types, Fit, Alone, Minded, NEW w \in Workers, Moves(w), NEW v \in Workers, v # w
  PROVE  /\ \A x \in Gens : /\ Applies(workers[v]) /\ x[1] = workers[v].req
                            /\ gens[x] \in {"none", "prepared"}
                            => gens'[x] = gens[x]
         /\ Lifts(workers[v]) /\ GenOf(workers[v]) \in Gens
              /\ gens[GenOf(workers[v])] \in {"completed", "recovery"}
              => gens'[GenOf(workers[v])] = gens[GenOf(workers[v])]
<1>1. CASE gens' = gens
  BY <1>1
<1>2. CASE /\ workers[w].pc \in {"prepare", "finish", "retain", "resolve"}
           /\ \E s \in Statuses \ {"none"} : gens' = [gens EXCEPT ![Gen(w)] = s]
  <2>1. /\ Gen(w) \in Gens /\ Gen(w) = GenOf(workers[w]) /\ Gen(w)[1] = workers[w].req
        /\ \/ Applies(workers[w]) /\ gens[Gen(w)] \in {"none", "prepared"}
           \/ Lifts(workers[w]) /\ gens[Gen(w)] \in {"completed", "recovery"}
    BY <1>2, WorkerHas
  <2>2. \A x \in Gens : x # Gen(w) => gens'[x] = gens[x]
    BY <1>2, <2>1 DEF Types
  <2>3. ASSUME NEW x \in Gens, Applies(workers[v]), x[1] = workers[v].req, gens[x] \in {"none", "prepared"}
        PROVE  x # Gen(w)
    BY <2>1, <2>3 DEF Alone
  <2>4. ASSUME Lifts(workers[v]), gens[GenOf(workers[v])] \in {"completed", "recovery"}
        PROVE  GenOf(workers[v]) # Gen(w)
    BY <2>1, <2>4 DEF Alone
  <2> QED BY <2>2, <2>3, <2>4
<1> QED BY <1>1, <1>2, WorkerRecords

\* A worker that is left alone keeps in mind what it has.
LEMMA MindStays ==
  ASSUME Types, Fit, plan' = plan, expired \subseteq expired', killed \subseteq killed', hasty \subseteq hasty',
         NEW v \in Workers, Mindful(v), workers'[v] = workers[v],
         \A x \in Gens : /\ Applies(workers[v]) /\ x[1] = workers[v].req
                         /\ gens[x] \in {"none", "prepared"}
                         => gens'[x] = gens[x],
         Lifts(workers[v]) /\ GenOf(workers[v]) \in Gens
           /\ gens[GenOf(workers[v])] \in {"completed", "recovery"}
           => gens'[GenOf(workers[v])] = gens[GenOf(workers[v])]
  PROVE  Mindful(v)'
<1> DEFINE t == workers[v]
           as == plan[t.req].adapters
<1>1. PICK g : g = GenOf(t)
  OBVIOUS
<1>2. /\ GenOf(workers[v])' = g /\ (Applies(workers[v])' <=> Applies(t))
      /\ (Lifts(workers[v])' <=> Lifts(t)) /\ workers'[v].pc = t.pc
  BY <1>1, OthersStay
<1>f. Fits(t)
  BY DEF Fit
<1>3. ASSUME Applies(t), t.pc # "release" PROVE Fresh(workers[v])'
  <2>1. Fresh(t)
    BY <1>3 DEF Mindful
  <2>2. t.req \in Requests /\ as \in Seq(Names)
    BY <1>3, <1>f, PlansAssumption DEF Applies, Fits, Types
  <2>3. ASSUME NEW i \in DOMAIN as,
               i > t.at \/ t.pc = "reserve" \/ (i = t.at /\ t.pc \in {"preflight", "prepare"})
        PROVE  gens'[<<t.req, as[i]>>] = "none"
    <3>1. gens[<<t.req, as[i]>>] = "none"
      BY <2>1, <2>3 DEF Fresh
    <3>2. <<t.req, as[i]>> \in Gens /\ <<t.req, as[i]>>[1] = t.req
      BY <2>2 DEF Gens
    <3> QED BY <1>3, <3>1, <3>2
  <2> QED BY <2>3 DEF Fresh
<1>4. ASSUME Applies(t), t.pc \in Owning PROVE gens'[g] = "prepared"
  <2>1. g \in Gens /\ g[1] = t.req
    BY <1>1, <1>4, GenIsInHand
  <2> QED BY <1>1, <1>4, <2>1 DEF Mindful
<1>5. ASSUME Lifts(t) PROVE gens'[g] \in {"completed", "recovery"} /\ Due(g)'
  <2>1. g \in Gens
    BY <1>1, <1>5, GenIsInHand DEF Lifts, Lifting, Owning
  <2>2. gens[g] \in {"completed", "recovery"} /\ Due(g)
    BY <1>1, <1>5 DEF Mindful
  <2> QED BY <1>1, <1>5, <2>1, <2>2, DueStays
<1>6. t.pc = "listed" => Due(g)'
  BY <1>1, DueStays DEF Mindful
<1> QED BY <1>2, <1>3, <1>4, <1>5, <1>6 DEF Mindful

LEMMA MindedStep == ASSUME Types, Fit, Alone, Minded, [Next]_vars PROVE Minded'
<1>p. plan' = plan
  BY SetupStays
<1>g. \A g \in Gens : gens[g] # "none" => g[1] \in taken
  BY DEF Minded
<1>1. ASSUME NEW w \in Workers, ByWorker(w) PROVE Minded'
  <2> DEFINE t == workers[w]
             u == workers'[w]
             as == plan[t.req].adapters
  <2>1. /\ Moves(w) /\ Replaced(w) /\ expired \subseteq expired' /\ killed \subseteq killed' /\ hasty \subseteq hasty'
    BY <1>1, WorkerMoves
  <2>2. ASSUME NEW v \in Workers, v # w PROVE Mindful(v)'
    BY <2>1, <2>2, <1>p, OthersUndisturbed, MindStays DEF Minded, Replaced
  <2>3. \A g \in Gens : gens'[g] # "none" => g[1] \in taken'
    <3>1. taken \subseteq taken'
      BY <1>p, <2>1, WorkerArrives
    <3>2. CASE gens' = gens
      BY <3>1, <3>2, <1>g
    <3>3. CASE /\ t.pc \in {"prepare", "finish", "retain", "resolve"}
               /\ \E s \in Statuses \ {"none"} : gens' = [gens EXCEPT ![Gen(w)] = s]
      <4>1. /\ Gen(w) \in Gens /\ Gen(w)[1] = t.req
            /\ Applies(t) \/ gens[Gen(w)] # "none"
        BY <3>3, WorkerHas
      <4>2. Gen(w)[1] \in taken
        BY <4>1, <1>g DEF Alone
      <4> QED BY <3>1, <3>3, <4>1, <4>2, <1>g DEF Types
    <3> QED BY <2>1, <3>2, <3>3, WorkerRecords
  <2>m. Mindful(w) /\ Fits(t) /\ t \in Hands
    BY DEF Minded, Fit, Types
  <2>s. \A r \in Requests : plan[r].adapters \in Seq(Names) /\ IsInjective(plan[r].adapters)
    BY PlansAssumption DEF Types
  \* Steps on the same generation that leave the records alone.
  <2>c. ASSUME Carries(u, t), gens' = gens, t.pc \in {"preflight", "prepare"} \cup Owning,
               u.pc \in Owning => t.pc \in Owning,
               u.pc \in {"prepare"} \cup Owning,
               u.pc = "prepare" => t.pc = "preflight"
        PROVE  Mindful(w)'
    <3>1. PICK g : g = GenOf(t)
      OBVIOUS
    <3>2. GenOf(workers[w])' = g
      BY <2>c, <3>1, <1>p, CarriedGen
    <3>3. /\ Applies(workers[w])' => Applies(t) /\ t.pc # "release"
          /\ Lifts(workers[w])' => Lifts(t)
      BY <2>c, <2>m DEF Applies, Lifts, Lifting, Carries, Owning, Fits
    <3>4. Applies(t) /\ t.pc # "release" => Fresh(workers[w])'
      BY <2>c, <2>m, <1>p DEF Mindful, Fresh, Carries, Owning
    <3>5. Due(g) => Due(g)'
      BY <1>p, <2>1, DueStays
    <3> QED BY <2>c, <2>m, <3>1, <3>2, <3>3, <3>4, <3>5 DEF Mindful, Owning
  \* On to the next adapter.
  <2>o. ASSUME Applies(t), t.pc \in {"preflight", "prepare", "finish", "retain"}, Onward(u, t),
               \A x \in Gens : x # GenOf(t) => gens'[x] = gens[x]
        PROVE  Mindful(w)'
    <3>1. CASE u.pc = "release"
      BY <2>o, <3>1 DEF Mindful, Applies, Lifts, Lifting, Owning
    <3>2. CASE u.pc = "preflight" /\ u.at = t.at + 1
      <4>1. /\ t.req \in Requests /\ t.at \in DOMAIN as /\ Fresh(t) /\ t.mode = "apply"
            /\ u.req = t.req /\ u.mode = "apply"
        BY <2>o, <2>m DEF Fits, Applies, Mindful, Onward
      <4>2. as \in Seq(Names) /\ IsInjective(as) /\ t.at \in Nat
        BY <4>1, <2>s, <2>m DEF Hands
      <4>3. ASSUME NEW i \in DOMAIN as, i > t.at PROVE gens'[<<t.req, as[i]>>] = "none"
        <5>1. gens[<<t.req, as[i]>>] = "none"
          BY <4>1, <4>3 DEF Fresh
        <5>2. <<t.req, as[i]>> \in Gens /\ as[i] # as[t.at]
          BY <4>1, <4>2, <4>3 DEF Gens, IsInjective
        <5>3. <<t.req, as[i]>> # GenOf(t)
          BY <4>1, <5>2 DEF GenOf
        <5> QED BY <2>o, <5>1, <5>2, <5>3
      <4>4. \A i \in DOMAIN as : i > u.at \/ i = u.at => i > t.at
        BY <3>2, <4>2
      <4>5. Fresh(workers[w])'
        BY <3>2, <4>1, <4>3, <4>4, <1>p DEF Fresh
      <4> QED BY <3>2, <4>5 DEF Mindful, Applies, Lifts, Lifting, Owning
    <3> QED BY <2>o, <3>1, <3>2 DEF Onward
  <2>i. ASSUME u = Idle PROVE Mindful(w)'
    BY <2>i DEF Idle, Mindful, Applies, Lifts, Lifting
  <2> SUFFICES Mindful(w)'
    BY <2>2, <2>3 DEF Minded
  <2>4. CASE Claims(w)
    <3>1. CASE u = t
      <4>1. gens' = gens
        BY <2>4 DEF Claims
      <4> QED BY <3>1, <4>1, <2>1, <2>m, <1>p, MindStays
    <3>2. CASE u # t
      <4>1. PICK r \in Requests \ taken : /\ u.pc = "reserve" /\ u.req = r /\ u.mode = "apply"
                                          /\ gens' = gens
        BY <2>4, <3>2 DEF Claims
      <4>2. ASSUME NEW i \in DOMAIN plan[r].adapters
            PROVE  gens[<<r, plan[r].adapters[i]>>] = "none"
        <5>1. <<r, plan[r].adapters[i]>> \in Gens
          BY <2>s DEF Gens
        <5> QED BY <5>1, <1>g
      <4>3. Fresh(workers[w])'
        BY <4>1, <4>2, <1>p DEF Fresh
      <4> QED BY <4>1, <4>3 DEF Mindful, Applies, Lifts, Lifting, Owning
    <3> QED BY <3>1, <3>2
  <2>5. CASE Leaves(w) \/ Resolves(w)
    BY <2>5, <2>i DEF Leaves, Resolves
  <2>6. CASE Books(w)
    <3>1. /\ t.pc = "reserve" /\ t.mode = "apply" /\ u.req = t.req /\ u.mode = "apply" /\ gens' = gens
          /\ u.pc \in {"release", "reserve", "preflight"}
      BY <2>6, <2>m DEF Books, Fits, Stays
    <3>2. Fresh(t)
      BY <3>1, <2>m DEF Mindful, Applies
    <3>3. Fresh(workers[w])'
      BY <3>1, <3>2, <1>p DEF Fresh
    <3> QED BY <3>1, <3>3 DEF Mindful, Applies, Lifts, Lifting, Owning
  <2>7. CASE Notes(w)
    <3>1. PICK g \in Gens : /\ u.pc \in {"listed", "presumed"} /\ u.mode # "apply"
                            /\ u.req = g[1] /\ u.mode = g[2] /\ (u.pc = "listed" => Due(g))
      BY <2>7 DEF Notes
    <3>2. GenOf(workers[w])' = g
      BY <3>1 DEF GenOf, Gens
    <3>3. u.pc = "listed" => Due(g)'
      BY <3>1, <1>p, <2>1, DueStays
    <3> QED BY <3>1, <3>2, <3>3 DEF Mindful, Applies, Lifts, Lifting, Owning
  <2>8. CASE Locks(w)
    <3>1. PICK g : g = GenOf(t)
      OBVIOUS
    <3>2. GenOf(workers[w])' = g
      BY <2>8, <3>1, <1>p, CarriedGen DEF Locks
    <3>3. gens'[g] \in {"completed", "recovery"} /\ g = Gen(w)
      BY <2>8, <3>1, GenIsInHand DEF Locks, Stays
    <3>4. Due(g)'
      <4>1. CASE t.pc = "listed"
        BY <4>1, <3>1, <2>m, <1>p, <2>1, DueStays DEF Mindful
      <4>2. CASE t.pc = "presumed"
        BY <4>2, <2>8, <3>3 DEF Locks, Due
      <4> QED BY <4>1, <4>2, <2>8 DEF Locks
    <3>5. u.pc = "call" /\ u.mode # "apply"
      BY <2>8, <2>m DEF Locks, Carries, Fits
    <3> QED BY <3>2, <3>3, <3>4, <3>5 DEF Mindful, Applies
  <2>9. CASE Clears(w)
    BY <2>9, <2>c DEF Clears, Stays, Owning
  <2>10. CASE Skips(w)
    BY <2>10, <2>o DEF Skips, Stays, Applies
  <2>11. CASE Starts(w)
    <3>1. PICK g : g = GenOf(t)
      OBVIOUS
    <3>2. GenOf(workers[w])' = g
      BY <2>11, <3>1, <1>p, CarriedGen DEF Starts
    <3>3. g \in Gens /\ g = Gen(w) /\ gens' = [gens EXCEPT ![g] = "prepared"]
      BY <2>11, <3>1, GenIsInHand DEF Starts, Recorded
    <3>4. gens'[g] = "prepared" /\ \A x \in Gens : x # g => gens'[x] = gens[x]
      BY <3>3 DEF Types
    <3>5. /\ t.mode = "apply" /\ t.req \in Requests /\ t.at \in DOMAIN as /\ Fresh(t)
          /\ u.pc = "call" /\ u.mode = "apply" /\ u.req = t.req /\ u.at = t.at /\ t.at \in Nat
      BY <2>11, <2>m DEF Starts, Carries, Fits, Applies, Mindful, Hands
    <3>6. ASSUME NEW i \in DOMAIN as, i > t.at PROVE gens'[<<t.req, as[i]>>] = "none"
      <4>1. gens[<<t.req, as[i]>>] = "none"
        BY <3>5, <3>6 DEF Fresh
      <4>2. <<t.req, as[i]>> \in Gens /\ as[i] # as[t.at]
        BY <3>5, <3>6, <2>s DEF Gens, IsInjective
      <4>3. <<t.req, as[i]>> # g
        BY <3>1, <3>5, <4>2 DEF GenOf
      <4> QED BY <3>4, <4>1, <4>2, <4>3
    <3>7. Fresh(workers[w])'
      BY <3>5, <3>6, <1>p DEF Fresh
    <3> QED BY <3>2, <3>4, <3>5, <3>7 DEF Mindful, Lifts
  <2>12. CASE Blocks(w) \/ Unblocks(w) \/ Shifts(w) \/ Passes(w)
    BY <2>12, <2>c DEF Blocks, Unblocks, Shifts, Passes, Stays, Owning
  <2>13. CASE Finishes(w) \/ Retains(w)
    <3>1. \A x \in Gens : x # GenOf(t) => gens'[x] = gens[x]
      BY <2>13, GenIsInHand DEF Finishes, Retains, Recorded, Types, Owning
    <3> QED BY <2>13, <2>i, <2>o, <3>1 DEF Finishes, Retains, Ended, Applies
  <2> QED BY <2>1, <2>4, <2>5, <2>6, <2>7, <2>8, <2>9, <2>10, <2>11, <2>12, <2>13 DEF Moves
<1>2. CASE ByWorld \/ UNCHANGED vars
  <2>1. /\ workers' = workers /\ taken' = taken
        /\ Demands \/ (\E g \in Gens : Strays(g)) \/ (\E g \in Gens : Lapses(g))
        /\ expired \subseteq expired' /\ killed \subseteq killed' /\ hasty \subseteq hasty'
    BY <1>2, WorldMoves, WorldPasses
  <2>2. \/ gens' = gens
        \/ \E g \in Gens : Strays(g)
    BY <2>1 DEF Demands, Lapses
  <2>3. ASSUME NEW v \in Workers PROVE Mindful(v)'
    <3>1. CASE gens' = gens
      BY <3>1, <2>1, <1>p, MindStays DEF Minded
    <3>2. ASSUME NEW g \in Gens, Strays(g) PROVE Mindful(v)'
      <4>1. gens[g] = "prepared" /\ \A x \in Gens : x # g => gens'[x] = gens[x]
        BY <3>2 DEF Strays, Types
      <4>2. Applies(workers[v]) => workers[v].req # g[1]
        BY <3>2 DEF Strays
      <4>3. /\ \A x \in Gens : /\ Applies(workers[v]) /\ x[1] = workers[v].req
                               /\ gens[x] \in {"none", "prepared"}
                               => gens'[x] = gens[x]
            /\ Lifts(workers[v]) /\ GenOf(workers[v]) \in Gens
                 /\ gens[GenOf(workers[v])] \in {"completed", "recovery"}
                 => gens'[GenOf(workers[v])] = gens[GenOf(workers[v])]
        BY <4>1, <4>2
      <4> QED BY <4>3, <2>1, <1>p, MindStays DEF Minded
    <3> QED BY <2>2, <3>1, <3>2
  <2>4. \A g \in Gens : gens'[g] # "none" => g[1] \in taken'
    BY <2>1, <2>2, <1>g DEF Strays, Types
  <2> QED BY <2>3, <2>4 DEF Minded
<1> QED BY <1>1, <1>2 DEF Next, ByWorker, ByWorld

-----------------------------------------------------------------------------
(* One owner per rule scope.                                                 *)

\* What a worker at each of these steps has recorded.
LEMMA WorkerHolds ==
  ASSUME Types, Fit, Minded, NEW w \in Workers, workers[w].pc \in Owning
  PROVE  /\ Gen(w) \in Gens /\ Gen(w) = GenOf(workers[w]) /\ Name(w) = Gen(w)[2] /\ Name(w) \in Names
         /\ workers[w].mode = "apply" => gens[Gen(w)] = "prepared"
         /\ workers[w].mode # "apply" => gens[Gen(w)] \in {"completed", "recovery"} /\ Due(Gen(w))
<1> DEFINE t == workers[w]
<1>1. Gen(w) \in Gens /\ Gen(w) = GenOf(t) /\ Name(w) = Gen(w)[2] /\ Name(w) \in Names
  BY GenIsInHand
<1>2. Fits(t) /\ Mindful(w)
  BY DEF Fit, Minded
<1>3. CASE t.mode = "apply"
  BY <1>1, <1>2, <1>3 DEF Mindful, Applies, Owning
<1>4. CASE t.mode # "apply"
  BY <1>1, <1>2, <1>4 DEF Mindful, Lifts, Lifting, Fits, Owning
<1> QED BY <1>1, <1>3, <1>4

\* A generation is active from its start until it is resolved.
LEMMA ActiveMoves ==
  ASSUME Types, Fit, Minded, NEW w \in Workers, Moves(w), NEW x \in Gens
  PROVE  /\ Active(x)' => Active(x) \/ (Starts(w) /\ x = Gen(w))
         /\ Active(x) => Active(x)' \/ (Resolves(w) /\ x = Gen(w))
         /\ gens'[x] = "completed" => gens[x] = "completed" \/ (Finishes(w) /\ x = Gen(w))
<1> USE DEF Active
<1>g. gens \in [Gens -> Statuses]
  BY DEF Types
<1>1. CASE Starts(w)
  <2>1. gens' = [gens EXCEPT ![Gen(w)] = "prepared"] /\ Gen(w) \in Gens
    BY <1>1, GenIsInHand DEF Starts, Recorded
  <2> QED BY <1>1, <1>g, <2>1
<1>2. CASE Finishes(w)
  <2>1. gens' = [gens EXCEPT ![Gen(w)] = "completed"]
    BY <1>2 DEF Finishes, Recorded
  <2>2. Gen(w) \in Gens /\ gens[Gen(w)] = "prepared"
    BY <1>2, WorkerHolds DEF Finishes, Owning, Fit, Fits
  <2> QED BY <1>2, <1>g, <2>1, <2>2
<1>3. CASE Retains(w)
  <2>1. gens' = [gens EXCEPT ![Gen(w)] = "recovery"]
    BY <1>3 DEF Retains, Recorded
  <2>2. Gen(w) \in Gens /\ gens[Gen(w)] \in {"prepared", "completed", "recovery"}
    BY <1>3, WorkerHolds DEF Retains, Owning
  <2> QED BY <1>g, <2>1, <2>2
<1>4. CASE Resolves(w)
  <2>1. gens' = [gens EXCEPT ![Gen(w)] = "rolled_back"]
    BY <1>4 DEF Resolves, Recorded
  <2>2. Gen(w) \in Gens
    BY <1>4, GenIsInHand DEF Resolves, Owning
  <2> QED BY <1>4, <1>g, <2>1, <2>2
<1>5. CASE gens' = gens
  BY <1>5
<1> QED
  BY <1>1, <1>2, <1>3, <1>4, <1>5
  DEF Moves, Claims, Leaves, Books, Notes, Locks, Clears, Skips, Blocks, Unblocks, Shifts, Passes, Stays

LEMMA ActiveStays ==
  ASSUME Types, ByWorld \/ UNCHANGED vars, NEW x \in Gens
  PROVE  (Active(x)' <=> Active(x)) /\ (gens'[x] = "completed" => gens[x] = "completed")
BY WorldMoves DEF Types, Demands, Strays, Lapses, Active

LEMMA UniqueStep == ASSUME Types, Fit, Minded, Unique, [Next]_vars PROVE Unique'
<1>p. plan' = plan
  BY SetupStays
<1>s. \A g : Owns(g)' = Owns(g)
  BY <1>p, RulesStay
<1>1. ASSUME NEW w \in Workers, ByWorker(w), NEW g \in Gens, NEW h \in Gens,
             Active(g)', Active(h)', Owns(g) = Owns(h)
      PROVE  g = h
  <2>1. Moves(w)
    BY <1>1, WorkerMoves
  <2>2. /\ Active(g) \/ (Starts(w) /\ g = Gen(w))
        /\ Active(h) \/ (Starts(w) /\ h = Gen(w))
    BY <1>1, <2>1, ActiveMoves
  <2> QED BY <1>1, <2>2 DEF Starts, Unique
<1>2. CASE ByWorld \/ UNCHANGED vars
  BY <1>2, <1>s, ActiveStays DEF Unique
<1>3. CASE \E w \in Workers : ByWorker(w)
  BY <1>1, <1>3, <1>s DEF Unique
<1> QED BY <1>2, <1>3 DEF Next, ByWorker, ByWorld

-----------------------------------------------------------------------------
(* The kernel's timeouts.                                                    *)

LEMMA UndoneMoves ==
  ASSUME Types, Fit, plan' = plan, NEW w \in Workers, Moves(w), Replaced(w), NEW g, Undone(g)'
  PROVE  Undone(g) \/ (Unblocks(w) /\ g = Gen(w))
<1>1. PICK v \in Workers : workers'[v].pc \in {"undone", "resolve"} /\ GenOf(workers[v])' = g
  BY DEF Undone
<1>2. CASE v # w
  <2>1. workers'[v] = workers[v] /\ GenOf(workers[v])' = GenOf(workers[v])
    BY <1>2, OthersStay DEF Replaced
  <2> QED BY <1>1, <2>1 DEF Undone
<1>3. CASE v = w
  <2> DEFINE t == workers[w]
             u == workers'[w]
  <2>1. \/ Unblocks(w)
        \/ t.pc \in {"undone", "resolve"} /\ Carries(u, t)
        \/ u = t
    BY <1>1, <1>3 DEF Moves, Claims, Leaves, Idle, Books, Notes, Locks, Clears, Skips, Onward, Starts,
                      Blocks, Shifts, Passes, Finishes, Retains, Resolves, Ended
  <2>2. CASE Unblocks(w)
    <3>1. GenOf(workers[w])' = GenOf(t) /\ Gen(w) = GenOf(t)
      BY <2>2, CarriedGen, GenIsInHand DEF Unblocks, Owning
    <3> QED BY <1>1, <1>3, <2>2, <3>1
  <2>3. CASE t.pc \in {"undone", "resolve"} /\ Carries(u, t)
    BY <1>1, <1>3, <2>3, CarriedGen DEF Undone
  <2>4. CASE u = t
    <3>1. GenOf(workers[w])' = GenOf(t)
      BY <2>4, OthersStay
    <3> QED BY <1>1, <1>3, <2>4, <3>1 DEF Undone
  <2> QED BY <2>1, <2>2, <2>3, <2>4
<1> QED BY <1>2, <1>3

LEMMA UndoneStays ==
  ASSUME plan' = plan, workers' = workers
  PROVE  \A g : Undone(g)' <=> Undone(g)
BY OthersStay DEF Undone

LEMMA UndoneIsLifted ==
  ASSUME Types, Fit, Minded, NEW g, Undone(g)
  PROVE  gens[g] \in {"completed", "recovery"}
<1>1. PICK v \in Workers : workers[v].pc \in {"undone", "resolve"} /\ GenOf(workers[v]) = g
  BY DEF Undone
<1> QED BY <1>1, WorkerHolds DEF Owning, Fit, Fits

LEMMA TimedStep == ASSUME Types, Fit, Minded, Timed, [Next]_vars PROVE Timed'
<1>p. plan' = plan
  BY SetupStays
<1>t. timed \subseteq Gens
  BY DEF Types
<1>1. ASSUME NEW w \in Workers, ByWorker(w), NEW x \in timed'
      PROVE  x[2] = "nftables" /\ Active(x)' /\ ~Undone(x)'
  <2>1. Moves(w) /\ Replaced(w)
    BY <1>1, WorkerMoves
  <2>2. x \in timed \/ (Blocks(w) /\ x = Gen(w) /\ Name(w) = "nftables")
    BY <1>1, <2>1 DEF Moves, Claims, Leaves, Books, Notes, Locks, Clears, Skips, Starts, Blocks,
                Unblocks, Shifts, Passes, Finishes, Retains, Resolves, Stays, Recorded
  <2>3. CASE x \in timed
    <3>1. x \in Gens /\ x[2] = "nftables" /\ Active(x) /\ ~Undone(x)
      BY <2>3, <1>t DEF Timed
    <3>2. Active(x)'
      <4>1. ASSUME Resolves(w), x = Gen(w) PROVE Undone(x)
        BY <4>1, GenIsInHand DEF Resolves, Owning, Undone
      <4> QED BY <3>1, <4>1, <2>1, ActiveMoves
    <3>3. ASSUME Undone(x)' PROVE FALSE
      <4>1. Unblocks(w) /\ x = Gen(w)
        BY <3>1, <3>3, <2>1, <1>p, UndoneMoves
      <4>2. Name(w) = "nftables"
        BY <3>1, <4>1, GenIsInHand DEF Unblocks, Owning
      <4> QED BY <1>1, <4>1, <4>2 DEF Unblocks
    <3> QED BY <3>1, <3>2, <3>3
  <2>4. CASE Blocks(w) /\ x = Gen(w) /\ Name(w) = "nftables"
    <3>1. x \in Gens /\ x[2] = "nftables" /\ gens[x] = "prepared" /\ gens'[x] = "prepared"
      BY <2>4, WorkerHolds DEF Blocks, Owning
    <3>2. ASSUME Undone(x)' PROVE FALSE
      <4>1. Undone(x)
        BY <2>1, <2>4, <3>2, <1>p, UndoneMoves DEF Blocks, Unblocks
      <4> QED BY <3>1, <4>1, UndoneIsLifted
    <3> QED BY <3>1, <3>2 DEF Active
  <2> QED BY <2>2, <2>3, <2>4
<1>2. CASE ByWorld \/ UNCHANGED vars
  <2>1. workers' = workers /\ timed' \subseteq timed
    BY <1>2, WorldMoves DEF Demands, Strays, Lapses
  <2>2. \A x \in timed : x \in Gens /\ (Active(x)' <=> Active(x)) /\ (Undone(x)' <=> Undone(x))
    BY <1>2, <1>t, <1>p, <2>1, ActiveStays, UndoneStays
  <2> QED BY <2>1, <2>2 DEF Timed
<1>3. CASE \E w \in Workers : ByWorker(w)
  BY <1>1, <1>3 DEF Timed
<1> QED BY <1>2, <1>3 DEF Next, ByWorker, ByWorld

-----------------------------------------------------------------------------
(* Surfaces and records.                                                     *)

\* A rule that goes with a generation that is due is no other's, but for one of the
\* same address that is shadowed by it.
LEMMA Spared ==
  ASSUME Unique, NEW g \in Gens, NEW h \in Gens, Active(g), Active(h), Due(h),
         h[2] = g[2], Rule(h) = Rule(g)
  PROVE  Due(g) \/ Shadowed(g)
BY DEF Unique, Shadowed

LEMMA ShadowStays ==
  ASSUME plan' = plan, expired \subseteq expired', killed \subseteq killed', hasty \subseteq hasty'
  PROVE  \A g : Shadowed(g) => Shadowed(g)'
BY DueStays, RulesStay DEF Shadowed

LEMMA InitMatched == Init => Alone /\ Minded /\ Unique /\ Timed /\ Matched
<1> SUFFICES ASSUME Init PROVE Alone /\ Minded /\ Unique /\ Timed /\ Matched
  OBVIOUS
<1>1. \A w \in Workers : workers[w] = Idle
  BY DEF Init
<1>2. \A g \in Gens : gens[g] = "none"
  BY DEF Init
<1>3. Alone
  BY <1>1 DEF Alone, Idle, Applies, Lifts, Lifting
<1>4. Minded
  BY <1>1, <1>2 DEF Minded, Mindful, Idle, Applies, Lifts, Lifting
<1>5. Unique /\ Timed
  BY <1>2 DEF Unique, Active, Timed, Init
<1>6. Matched
  BY <1>1, <1>2 DEF Matched, Seen, Needs, Idle, Init
<1> QED BY <1>3, <1>4, <1>5, <1>6

LEMMA MatchedStepOfWorker ==
  ASSUME Types, Fit, Minded, Unique, Matched, plan' = plan, NEW w \in Workers, ByWorker(w)
  PROVE  Matched'
<1>p. Moves(w) /\ Replaced(w) /\ expired \subseteq expired' /\ killed \subseteq killed' /\ hasty \subseteq hasty'
  BY WorkerMoves
<1>s. \A g : /\ Rule(g)' = Rule(g) /\ (Due(g) => Due(g)') /\ (Shadowed(g) => Shadowed(g)')
  BY <1>p, RulesStay, DueStays, ShadowStays
<1>d. DOMAIN rules = Names /\ \A g \in Gens : g[2] \in Names
  BY DEF Types, Gens
<1> DEFINE h == Gen(w)
           t == workers[w]
\* The surfaces change in two of the steps.
<1>b. ASSUME Blocks(w)
      PROVE  /\ h \in Gens /\ h[2] \in Names /\ gens[h] = "prepared" /\ gens' = gens
             /\ rules' = [rules EXCEPT ![h[2]] = @ \cup {Rule(h)}]
  BY <1>b, WorkerHolds DEF Blocks, Owning, Adds
<1>u. ASSUME Unblocks(w)
      PROVE  /\ h \in Gens /\ h[2] \in Names /\ Active(h) /\ Due(h) /\ gens' = gens
             /\ rules' = [rules EXCEPT ![h[2]] = @ \ {Rule(h)}]
  BY <1>u, WorkerHolds DEF Unblocks, Owning, Removes, Active
<1>r. Blocks(w) \/ Unblocks(w) \/ rules' = rules
  BY <1>p DEF Moves, Claims, Leaves, Books, Notes, Locks, Clears, Skips, Starts, Shifts, Passes,
              Finishes, Retains, Resolves, Stays, Recorded
<1> HIDE DEF h
\* What is not due, nor shadowed, stays.
<1>k. ASSUME NEW g \in Gens, Active(g), Rule(g) \in rules[g[2]]
      PROVE  Rule(g) \in rules'[g[2]] \/ Due(g) \/ Shadowed(g)
  <2>1. CASE rules' = rules
    BY <2>1, <1>k
  <2>2. CASE Blocks(w)
    BY <2>2, <1>k, <1>b, <1>d
  <2>3. CASE Unblocks(w)
    <3>1. CASE h[2] = g[2] /\ Rule(h) = Rule(g)
      BY <2>3, <3>1, <1>k, <1>u, Spared
    <3>2. CASE ~(h[2] = g[2] /\ Rule(h) = Rule(g))
      BY <2>3, <3>2, <1>k, <1>u, <1>d
    <3> QED BY <3>1, <3>2
  <2> QED BY <1>r, <2>1, <2>2, <2>3
<1>1. ASSUME NEW g \in Gens, Needs(g)' PROVE Rule(g)' \in rules'[g[2]]
  <2>1. gens'[g] = "completed" /\ ~Due(g) /\ ~Shadowed(g)
    BY <1>1, <1>s DEF Needs
  <2>2. gens[g] = "completed" \/ (Finishes(w) /\ g = Gen(w))
    BY <1>p, <2>1, ActiveMoves
  <2>3. CASE gens[g] = "completed"
    BY <2>1, <2>3, <1>s, <1>k DEF Matched, Needs, Active
  <2>4. CASE Finishes(w) /\ g = Gen(w)
    <3>1. g = GenOf(t) /\ t.pc = "finish" /\ rules' = rules
      BY <2>4, GenIsInHand DEF Finishes, Owning, Recorded
    <3> QED BY <2>1, <3>1, <1>s DEF Matched, Seen
  <2> QED BY <2>2, <2>3, <2>4
<1>2. ASSUME NEW n \in Names, NEW k \in rules'[n] \ Foreign[n]
      PROVE  \E g \in Gens : g[2] = n /\ Owner(g)' /\ Rule(g)' = k
  <2>1. CASE k \in rules[n]
    <3>1. PICK g \in Gens : g[2] = n /\ Active(g) /\ ~Undone(g) /\ Rule(g) = k
      BY <1>2, <2>1 DEF Matched, Owner
    <3>2. Active(g)'
      <4>1. ASSUME Resolves(w), g = Gen(w) PROVE Undone(g)
        BY <4>1, GenIsInHand DEF Resolves, Owning, Undone
      <4> QED BY <3>1, <4>1, <1>p, ActiveMoves
    <3>3. ASSUME Undone(g)' PROVE FALSE
      <4>1. Unblocks(w) /\ g = h
        BY <3>1, <3>3, <1>p, UndoneMoves DEF h
      <4> QED BY <1>2, <3>1, <4>1, <1>u, <1>d
    <3> QED BY <3>1, <3>2, <3>3, <1>s DEF Owner
  <2>2. CASE k \notin rules[n]
    <3>1. Blocks(w) /\ n = h[2] /\ k = Rule(h)
      BY <1>2, <2>2, <1>b, <1>u, <1>r, <1>d
    <3>2. PICK g \in Gens : g = h
      BY <3>1, <1>b
    <3>3. gens[g] = "prepared" /\ gens'[g] = "prepared" /\ g[2] = n /\ Rule(g) = k
      BY <3>1, <3>2, <1>b
    <3>4. ASSUME Undone(g)' PROVE FALSE
      <4>1. Undone(g)
        BY <3>1, <3>4, <1>p, UndoneMoves DEF Blocks, Unblocks
      <4> QED BY <3>3, <4>1, UndoneIsLifted
    <3> QED BY <3>3, <3>4, <1>s DEF Owner, Active
  <2> QED BY <2>1, <2>2
<1>3. ASSUME NEW v \in Workers PROVE Seen(v)'
  <2>1. PICK g : g = GenOf(workers[v])
    OBVIOUS
  <2>2. CASE v # w
    <3>1. workers'[v] = workers[v] /\ GenOf(workers[v])' = g
      BY <2>1, <2>2, <1>p, OthersStay DEF Replaced
    <3>2. ASSUME workers[v].pc = "finish" PROVE Rule(g) \in rules'[g[2]] \/ Due(g) \/ Shadowed(g)
      <4>1. g \in Gens /\ Active(g)
        BY <2>1, <3>2, WorkerHolds DEF Owning, Active, Fit, Fits
      <4> QED BY <2>1, <3>2, <4>1, <1>k DEF Matched, Seen
    <3> QED BY <3>1, <3>2, <1>s DEF Seen
  <2>3. CASE v = w
    <3>1. ASSUME workers'[w].pc = "finish" PROVE Passes(w) \/ (Claims(w) /\ workers'[w] = t)
      BY <3>1, <1>p DEF Moves, Claims, Leaves, Idle, Books, Notes, Locks, Clears, Skips, Onward, Starts,
                        Blocks, Unblocks, Shifts, Finishes, Retains, Resolves, Ended
    <3>2. CASE Passes(w)
      <4>1. GenOf(workers[w])' = g
        BY <2>1, <2>3, <3>2, CarriedGen DEF Passes
      <4>2. Rule(g) \in rules'[g[2]]
        BY <2>1, <2>3, <3>2, GenIsInHand DEF Passes, Owning, Stays
      <4> QED BY <2>3, <4>1, <4>2, <1>s DEF Seen
    <3>3. CASE Claims(w) /\ workers'[w] = t
      BY <2>3, <3>3 DEF Claims, Seen
    <3> QED BY <2>3, <3>1, <3>2, <3>3 DEF Seen
  <2> QED BY <2>2, <2>3
<1> QED BY <1>1, <1>2, <1>3 DEF Matched

LEMMA MatchedStepOfWorld ==
  ASSUME Types, Fit, Minded, Unique, Timed, Matched, plan' = plan, ByWorld \/ UNCHANGED vars
  PROVE  Matched'
<1>p. /\ workers' = workers /\ (Demands \/ (\E g \in Gens : Strays(g)) \/ (\E g \in Gens : Lapses(g)))
      /\ expired \subseteq expired' /\ killed \subseteq killed' /\ hasty \subseteq hasty'
  BY WorldMoves, WorldPasses
<1>s. \A g : /\ Rule(g)' = Rule(g) /\ (Due(g) => Due(g)') /\ (Shadowed(g) => Shadowed(g)')
             /\ (Undone(g)' <=> Undone(g)) /\ Owner(g)' = (Active(g)' /\ ~Undone(g)')
  BY <1>p, RulesStay, DueStays, ShadowStays, UndoneStays DEF Owner
<1>a. \A g \in Gens : (Active(g)' <=> Active(g)) /\ (gens'[g] = "completed" => gens[g] = "completed")
  BY ActiveStays
<1>d. DOMAIN rules = Names /\ \A g \in Gens : g[2] \in Names
  BY DEF Types, Gens
<1>r. \/ rules' = rules
      \/ \E h \in timed \cap expired : rules' = [rules EXCEPT !["nftables"] = @ \ {Rule(h)}]
  BY <1>p DEF Demands, Strays, Lapses
<1>k. ASSUME NEW g \in Gens, Active(g), Rule(g) \in rules[g[2]]
      PROVE  Rule(g) \in rules'[g[2]] \/ Due(g) \/ Shadowed(g)
  <2>1. CASE rules' = rules
    BY <2>1, <1>k
  <2>2. ASSUME NEW h \in timed \cap expired, rules' = [rules EXCEPT !["nftables"] = @ \ {Rule(h)}]
        PROVE  Rule(g) \in rules'[g[2]] \/ Due(g) \/ Shadowed(g)
    <3>1. h \in Gens /\ h[2] = "nftables" /\ Active(h) /\ Due(h)
      BY <2>2 DEF Types, Timed, Due
    <3>2. CASE h[2] = g[2] /\ Rule(h) = Rule(g)
      BY <3>1, <3>2, <1>k, Spared
    <3>3. CASE ~(h[2] = g[2] /\ Rule(h) = Rule(g))
      BY <2>2, <3>1, <3>3, <1>k, <1>d
    <3> QED BY <3>2, <3>3
  <2> QED BY <1>r, <2>1, <2>2
<1>1. ASSUME NEW g \in Gens, Needs(g)' PROVE Rule(g)' \in rules'[g[2]]
  BY <1>1, <1>s, <1>a, <1>k DEF Needs, Matched, Active
<1>2. ASSUME NEW n \in Names, NEW k \in rules'[n] \ Foreign[n]
      PROVE  \E g \in Gens : g[2] = n /\ Owner(g)' /\ Rule(g)' = k
  <2>1. k \in rules[n]
    BY <1>2, <1>r, <1>d
  <2>2. PICK g \in Gens : g[2] = n /\ Active(g) /\ ~Undone(g) /\ Rule(g) = k
    BY <1>2, <2>1 DEF Matched, Owner
  <2> QED BY <2>2, <1>s, <1>a
<1>3. ASSUME NEW v \in Workers PROVE Seen(v)'
  <2>1. PICK g : g = GenOf(workers[v])
    OBVIOUS
  <2>2. workers'[v] = workers[v] /\ GenOf(workers[v])' = g
    BY <2>1, <1>p, OthersStay
  <2>3. ASSUME workers[v].pc = "finish" PROVE Rule(g) \in rules'[g[2]] \/ Due(g) \/ Shadowed(g)
    <3>1. g \in Gens /\ Active(g)
      BY <2>1, <2>3, WorkerHolds DEF Owning, Active, Fit, Fits
    <3> QED BY <2>1, <2>3, <3>1, <1>k DEF Matched, Seen
  <2> QED BY <2>2, <2>3, <1>s DEF Seen
<1> QED BY <1>1, <1>2, <1>3 DEF Matched

LEMMA MatchedIsAsRecorded == ASSUME Types, Kept, Matched PROVE EnforcedAsRecorded
<1>1. ASSUME NEW g \in Gens, gens[g] = "completed", ~Due(g), Rule(g) \notin rules[g[2]]
      PROVE  \E h \in Gens : h[2] = g[2] /\ Owns(h) # Owns(g) /\ Due(h) /\ Rule(h) = Rule(g)
  BY <1>1 DEF Matched, Needs, Shadowed
<1>2. ASSUME NEW g \in Gens, gens[g] = "rolled_back", Rule(g) \in rules[g[2]]
      PROVE  \E h \in Gens \ {g} : h[2] = g[2] /\ Active(h) /\ Rule(h) = Rule(g)
  <2>1. g[2] \in Names /\ Rule(g) \in rules[g[2]] \ Foreign[g[2]] /\ ~Active(g)
    BY <1>2 DEF Gens, Kept, Ours, Active
  <2>2. PICK h \in Gens : h[2] = g[2] /\ Owner(h) /\ Rule(h) = Rule(g)
    BY <2>1 DEF Matched
  <2> QED BY <2>1, <2>2 DEF Owner
<1> QED BY <1>1, <1>2 DEF EnforcedAsRecorded, CompletedIsEnforced, LiftedIsLifted

\* What the generations say and what the surfaces enforce agree, for any number of
\* executors, any concurrency budget and whatever they crash over: a completed block is
\* in force until it is due, and a lifted one is not, because one generation at a time
\* owns a rule scope and whoever lifts one holds its row lock from before the command
\* until the record is written.
THEOREM SurfacesMatchRecords == Spec => []EnforcedAsRecorded
<1> DEFINE I == Types /\ Fit /\ Kept /\ Alone /\ Minded /\ Unique /\ Timed /\ Matched
<1>1. Init => I
  BY InitTypes, InitKept, InitMatched
<1>2. I /\ [Next]_vars => I'
  <2> SUFFICES ASSUME I, [Next]_vars PROVE I'
    OBVIOUS
  <2>1. Types' /\ Fit' /\ Kept' /\ Alone' /\ Minded' /\ Unique' /\ Timed'
    BY TypesStep, FitStep, KeptStep, AloneStep, MindedStep, UniqueStep, TimedStep
  <2>2. Matched'
    <3>1. plan' = plan
      BY SetupStays
    <3> QED BY <3>1, MatchedStepOfWorker, MatchedStepOfWorld DEF Next, ByWorker, ByWorld
  <2> QED BY <2>1, <2>2
<1>3. I => EnforcedAsRecorded
  BY MatchedIsAsRecorded
<1> QED BY <1>1, <1>2, <1>3, PTL DEF Spec

===============================================================================
