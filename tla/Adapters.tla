------------------------------- MODULE Adapters -------------------------------
(***************************************************************************)
(* The adapters of firewall-agent/src/lib.rs as an executor drives them:   *)
(* nftables, the HAProxy ACL file and the HAProxy stick-table.             *)
(* FirewallDispatch abstracts a rule to "present or not"; here are the     *)
(* addresses and their spellings, the never-block list, the adapter        *)
(* commands, the concurrency budget of executor/src/main.rs, the row locks *)
(* of the generations, and what a crash between two steps leaves behind.   *)
(*                                                                         *)
(* A go-away adapter takes part in a fan-out only as far as the code lets  *)
(* it: its generation is refused, so its snippet is never written here.    *)
(* Leases, lost acknowledgements and the rollback of a target that no      *)
(* generation owns are FirewallDispatch's.                                 *)
(***************************************************************************)
EXTENDS Integers, Sequences, FiniteSets, SequencesExt

CONSTANTS
  Workers,      \* executor replicas
  Requests,     \* claimed execution requests
  Plans,        \* what the requests may ask for, each [adapters |-> .., target |-> ..]
  Lists,        \* never-block lists an operator may have configured
  Foreign,      \* rules an operator has put on each adapter's surface
  MaxInflight,  \* CLAWFORGE_FIREWALL_MAX_CONCURRENT_APPLIES_PER_ADAPTER
  MaxKills,     \* kill requests
  MaxFaults,    \* failing commands, lost answers, crashes
  Malformed,    \* a never-block list that does not parse
  None

Names == {"nftables", "haproxy", "haproxy_ratelimit", "goaway"}
\* The adapters a durable generation may be of.
Journaled == {"nftables", "haproxy", "haproxy_ratelimit"}
Gens  == Requests \X Names

ASSUME AdaptersAssumption ==
  /\ MaxInflight \in Nat \ {0} /\ MaxKills \in Nat /\ MaxFaults \in Nat
  /\ DOMAIN Foreign = Names
\* An action touches at least one adapter, and each of them once.
ASSUME PlansAssumption ==
  \A p \in Plans : \A r \in Requests :
    /\ p[r].adapters \in Seq(Names) \ {<<>>}
    /\ IsInjective(p[r].adapters)

VARIABLES
  plan,         \* what each request asks for
  list,         \* the never-block list, loaded when an adapter is built
  taken,        \* requests a worker has claimed
  workers,      \* what each worker is doing
  leaked,       \* reservations of workers that died, by adapter
  gens,         \* durable generations, by request and adapter
  expired,      \* generations whose TTL has passed
  killed,       \* targets an operator wants lifted, by adapter and fingerprint
  hasty,        \* generations a sweep listed as prepared and lifted as completed
  rules,        \* what is on each surface
  timed,        \* generations whose command gave an nftables element its timeout
  faults

vars == <<plan, list, taken, workers, leaked, gens, expired, killed, hasty,
          rules, timed, faults>>
setup == <<plan, list>>
asked == <<expired, killed, hasty>>
host  == <<rules, timed>>

Idle == [pc |-> "idle", req |-> None, at |-> 0, mode |-> None, slots |-> {}]

Init ==
  /\ plan \in Plans /\ list \in Lists
  /\ taken = {} /\ workers = [w \in Workers |-> Idle]
  /\ leaked = [n \in Names |-> 0] /\ gens = [g \in Gens |-> "none"]
  /\ expired = {} /\ killed = {} /\ hasty = {}
  /\ rules = Foreign /\ timed = {} /\ faults = 0

Fault == faults < MaxFaults /\ faults' = faults + 1

-----------------------------------------------------------------------------
(* Addresses.  A v4 address has two bits here, a v6 address three; `mapped` *)
(* is the IPv6 spelling of a v4 address, `len` is None for a bare address.  *)

Bits(fam) == IF fam = 4 THEN 2 ELSE 3

\* normalize_address and parse_ip_or_cidr: the address family after
\* normalisation decides how long a prefix may be.
Key(t)    == [fam |-> IF t.mapped THEN 4 ELSE t.fam, addr |-> t.addr, len |-> t.len]
Valid(t)  == t.len = None \/ t.len <= Bits(Key(t).fam)
Address(t) == t.fam \in {4, 6} /\ t.mapped \in BOOLEAN /\ t.addr \in Nat /\ t.len \in Nat \cup {None}
Full(k)   == [k EXCEPT !.len = IF k.len = None THEN Bits(k.fam) ELSE k.len]

\* A list with an entry that does not parse is malformed as a whole.
ASSUME AddressAssumption ==
  /\ \A p \in Plans : \A r \in Requests : Address(p[r].target)
  /\ \A l \in Lists : l = Malformed \/ \A t \in l : Address(t) /\ Valid(t)

\* Mutant: masked by the never-block entry's own prefix only.
RangesOverlapAsListed(a, b) ==
  /\ a.fam = b.fam
  /\ LET shift == 2 ^ (Bits(a.fam) - a.len) IN a.addr \div shift = b.addr \div shift

\* ranges_overlap: masked by the less specific of the two prefixes.
RangesOverlap(a, b) ==
  /\ a.fam = b.fam
  /\ LET len   == IF a.len <= b.len THEN a.len ELSE b.len
         shift == 2 ^ (Bits(a.fam) - len)
     IN a.addr \div shift = b.addr \div shift

\* check_never_block on an address, and on the receipt-safe view of a target, which
\* has no address when it is a pseudonym: then only a malformed list refuses.
Blockable(t) ==
  /\ list # Malformed
  /\ \A entry \in list : ~RangesOverlap(Full(Key(entry)), Full(Key(t)))
Renderable(t) == list # Malformed /\ (t.pseudonym = None => Blockable(t))

\* What ends up on the surface: nft prints a host prefix as a bare address, the
\* others keep the text as it was given.
Entry(n, t) == IF n = "nftables" THEN Full(Key(t)) ELSE Key(t)

\* The fingerprint a generation is owned under: never the resolved address.
Fingerprint(t) == IF t.pseudonym # None THEN <<t.pseudonym>> ELSE <<Key(t)>>

Target(g)  == plan[g[1]].target
Rule(g)    == Entry(g[2], Target(g))
Owns(g)    == <<g[2], Fingerprint(Target(g))>>
Active(g)  == gens[g] \in {"prepared", "completed", "recovery"}

-----------------------------------------------------------------------------
(* The concurrency budget. *)

Free(n) ==
  leaked[n] + Cardinality({w \in Workers : n \in workers[w].slots}) < MaxInflight

Touched(r) == plan[r].adapters
Step(w, f) == workers' = [workers EXCEPT ![w] = f]
Go(w, pc)  == Step(w, [workers[w] EXCEPT !.pc = pc])

Take(w, r) ==
  /\ workers[w].pc = "idle" /\ r \notin taken
  /\ taken' = taken \cup {r}
  /\ IF Valid(plan[r].target)
       THEN Step(w, [Idle EXCEPT !.pc = "reserve", !.req = r, !.at = 1, !.mode = "apply"])
       ELSE UNCHANGED workers
  /\ UNCHANGED <<setup, leaked, gens, asked, host, faults>>

\* Every adapter the action touches is reserved before the first is called; a
\* full one refuses the whole dispatch.
Reserve(w) ==
  LET me == workers[w]
      n  == Touched(me.req)[me.at]
  IN /\ me.pc = "reserve"
     /\ IF ~Free(n) THEN Go(w, "release")
        ELSE Step(w, [me EXCEPT !.slots = @ \cup {n},
                                !.at = IF @ = Len(Touched(me.req)) THEN 1 ELSE @ + 1,
                                !.pc = IF me.at = Len(Touched(me.req)) THEN "preflight" ELSE @])
     /\ UNCHANGED <<setup, taken, leaked, gens, asked, host, faults>>

Release(w) ==
  /\ workers[w].pc = "release"
  /\ Step(w, Idle)
  /\ UNCHANGED <<setup, taken, leaked, gens, asked, host, faults>>

\* A reservation older than the staleness window no longer counts. The window is
\* longer than any call here.
Stale(n) ==
  /\ leaked[n] > 0
  /\ leaked' = [leaked EXCEPT ![n] = @ - 1]
  /\ UNCHANGED <<setup, taken, workers, gens, asked, host, faults>>

-----------------------------------------------------------------------------
(* apply_single_adapter, for one adapter of the action after the other. *)

Gen(w)  == <<workers[w].req, IF workers[w].mode = "apply"
                             THEN Touched(workers[w].req)[workers[w].at]
                             ELSE workers[w].mode>>
Name(w) == Gen(w)[2]
At(w, pc) == workers[w].pc = pc
Applying(w) == workers[w].mode = "apply"

\* The adapter is done, whatever came of it.
Done(w) ==
  LET me == workers[w] IN
  IF ~Applying(w) THEN Idle
  ELSE IF me.at < Len(Touched(me.req)) THEN [me EXCEPT !.at = @ + 1, !.pc = "preflight"]
  ELSE [me EXCEPT !.pc = "release"]

SetGen(w, status) == gens' = [gens EXCEPT ![Gen(w)] = status]

\* Mutant: a rule that is already there is adopted.
PreflightAdopts(w) ==
  /\ At(w, "preflight")
  /\ Go(w, "prepare")
  /\ UNCHANGED <<setup, taken, leaked, gens, asked, host, faults>>

Preflight(w) ==
  /\ At(w, "preflight")
  /\ IF Rule(Gen(w)) \in rules[Name(w)] THEN Step(w, Done(w)) ELSE Go(w, "prepare")
  /\ UNCHANGED <<setup, taken, leaked, gens, asked, host, faults>>

\* The receipt-safe view is rendered, then the generation is inserted: only for an
\* adapter that may own one, and if no active one owns the rule.
Prepare(w) ==
  LET refused == \/ ~Renderable(Target(Gen(w))) \/ Name(w) \notin Journaled
                 \/ \E g \in Gens \ {Gen(w)} : Active(g) /\ Owns(g) = Owns(Gen(w))
  IN /\ At(w, "prepare")
     /\ IF refused THEN Step(w, Done(w)) /\ UNCHANGED gens
                   ELSE SetGen(w, "prepared") /\ Go(w, "call")
     /\ UNCHANGED <<setup, taken, leaked, asked, host, faults>>

\* The adapter's own apply compares the address itself with the list.
ApplyRefuses(w) ==
  /\ At(w, "call") /\ Applying(w) /\ ~Blockable(Target(Gen(w)))
  /\ Go(w, "retain")
  /\ UNCHANGED <<setup, taken, leaked, gens, asked, host, faults>>

\* One command each: add element, add acl, set table; delete element, del acl, clear.
Adding(w, n)   == At(w, "call") /\ Name(w) = n /\ Applying(w) /\ Blockable(Target(Gen(w)))
Removing(w, n) == At(w, "call") /\ Name(w) = n /\ ~Applying(w)
Adds(w)    == rules' = [rules EXCEPT ![Name(w)] = @ \cup {Rule(Gen(w))}]
Removes(w) == rules' = [rules EXCEPT ![Name(w)] = @ \ {Rule(Gen(w))}]
Then(w, pc) == Go(w, pc) /\ UNCHANGED <<setup, taken, leaked, gens, asked>>

\* An element that is there already keeps the timeout it has.
StartTimeout(w) ==
  timed' = IF Name(w) # "nftables" \/ Rule(Gen(w)) \in rules["nftables"] THEN timed
           ELSE timed \cup {Gen(w)}
EndTimeout(w) ==
  timed' = IF Name(w) # "nftables" THEN timed ELSE {g \in timed : Rule(g) # Rule(Gen(w))}

\* Mutant: the element is added without its own timeout.
NftAddUntimed(w) ==
  Adding(w, "nftables") /\ Adds(w) /\ UNCHANGED <<timed, faults>> /\ Then(w, "verify")

NftAdd(w) ==
  Adding(w, "nftables") /\ Adds(w) /\ StartTimeout(w) /\ UNCHANGED faults /\ Then(w, "verify")
AclAdd(w) ==
  Adding(w, "haproxy") /\ Adds(w) /\ UNCHANGED <<timed, faults>> /\ Then(w, "verify")
TableSet(w) ==
  Adding(w, "haproxy_ratelimit") /\ Adds(w) /\ UNCHANGED <<timed, faults>> /\ Then(w, "verify")

\* nft answers that there is no such element: it is gone, which was the aim.
NftDelete(w) ==
  Removing(w, "nftables") /\ Removes(w) /\ EndTimeout(w) /\ UNCHANGED faults /\ Then(w, "undone")
TableReset(w) ==
  Removing(w, "haproxy_ratelimit") /\ Removes(w) /\ UNCHANGED <<timed, faults>> /\ Then(w, "undone")
\* A key that is not in the ACL is an error.
AclDelete(w) ==
  /\ Removing(w, "haproxy") /\ Rule(Gen(w)) \in rules["haproxy"]
  /\ Removes(w) /\ UNCHANGED <<timed, faults>> /\ Then(w, "undone")
AclMissing(w) ==
  /\ Removing(w, "haproxy") /\ Rule(Gen(w)) \notin rules["haproxy"]
  /\ UNCHANGED <<host, faults>> /\ Then(w, "kept")

Call(w) ==
  \/ ApplyRefuses(w) \/ NftAdd(w) \/ AclAdd(w) \/ TableSet(w)
  \/ NftDelete(w) \/ AclDelete(w) \/ AclMissing(w) \/ TableReset(w)

Verify(w) ==
  /\ At(w, "verify")
  /\ Go(w, IF Rule(Gen(w)) \in rules[Name(w)] THEN "finish" ELSE "retain")
  /\ UNCHANGED <<setup, taken, leaked, gens, asked, host, faults>>

Finish(w) ==
  /\ At(w, "finish")
  /\ SetGen(w, "completed") /\ Step(w, Done(w))
  /\ UNCHANGED <<setup, taken, leaked, asked, host, faults>>

\* What is uncertain stays owned until an operator has looked at it.
Retain(w) ==
  /\ At(w, "retain")
  /\ SetGen(w, "recovery") /\ Step(w, Done(w))
  /\ UNCHANGED <<setup, taken, leaked, asked, host, faults>>

-----------------------------------------------------------------------------
(* Lifting: the TTL sweep and the kill switch list generations, then recover *)
(* each under its row lock, which they hold until it is resolved.            *)

Lifting == {"call", "undone", "kept", "resolve", "retain"}

\* Mutant: the row is selected without FOR UPDATE SKIP LOCKED.
HeldByNobody(g) == FALSE

Held(g) == \E w \in Workers : workers[w].pc \in Lifting /\ ~Applying(w) /\ Gen(w) = g

\* A kill request names a target, and finds the generation that owns it now.
Due(g) == g \in expired \/ Owns(g) \in killed \/ g \in hasty

\* The sweep lists prepared generations beside those past their TTL, without a lock.
List(w, g) ==
  /\ At(w, "idle")
  /\ \E pc \in {"listed", "presumed"} :
       /\ IF pc = "presumed" THEN gens[g] = "prepared"
          ELSE (gens[g] = "completed" /\ g \in expired) \/ (Active(g) /\ Owns(g) \in killed)
       /\ Step(w, [Idle EXCEPT !.pc = pc, !.req = g[1], !.mode = g[2]])
  /\ UNCHANGED <<setup, taken, leaked, gens, asked, host, faults>>

\* A row that is locked, resolved or being applied is left for another tick, as is
\* one whose adapter has no slot to spare. Under the lock anything that is not
\* prepared any more is taken to be past its TTL.
Lift(w) ==
  LET g == Gen(w) IN
  /\ workers[w].pc \in {"listed", "presumed"}
  /\ IF gens[g] \in {"completed", "recovery"} /\ ~Held(g) /\ Free(g[2])
       THEN /\ Step(w, [workers[w] EXCEPT !.pc = "call", !.slots = {g[2]}])
            /\ hasty' = IF At(w, "presumed") THEN hasty \cup {g} ELSE hasty
       ELSE Step(w, Idle) /\ UNCHANGED hasty
  /\ UNCHANGED <<setup, taken, leaked, gens, expired, killed, host, faults>>

\* The slot is given back before the generation is written.
Return(w) ==
  /\ workers[w].pc \in {"undone", "kept"}
  /\ Step(w, [workers[w] EXCEPT !.pc = IF At(w, "undone") THEN "resolve" ELSE "retain",
                                !.slots = {}])
  /\ UNCHANGED <<setup, taken, leaked, gens, asked, host, faults>>

Resolve(w) ==
  /\ At(w, "resolve")
  /\ SetGen(w, "rolled_back") /\ Step(w, Idle)
  /\ UNCHANGED <<setup, taken, leaked, asked, host, faults>>

\* A prepared generation whose owner is gone is kept for an operator.
Orphaned(g) ==
  /\ gens[g] = "prepared"
  /\ \A w \in Workers : Applying(w) => workers[w].req # g[1]
  /\ gens' = [gens EXCEPT ![g] = "recovery"]
  /\ UNCHANGED <<setup, taken, workers, leaked, asked, host, faults>>

-----------------------------------------------------------------------------
(* Faults and the world outside. *)

\* A command is refused, or it took effect and its answer was lost.
CallFails(w) ==
  /\ Fault /\ At(w, "call")
  /\ \/ UNCHANGED host
     \/ Applying(w) /\ Blockable(Target(Gen(w))) /\ Adds(w) /\ StartTimeout(w)
     \/ ~Applying(w) /\ Removes(w) /\ EndTimeout(w)
  /\ Then(w, IF Applying(w) THEN "retain" ELSE "kept")

\* Preflight, the insert of the generation, verification or finish fails.
StepFails(w) ==
  /\ Fault
  /\ \/ workers[w].pc \in {"preflight", "prepare"} /\ Step(w, Done(w))
     \/ workers[w].pc \in {"verify", "finish"} /\ Go(w, "retain")
  /\ UNCHANGED <<setup, taken, leaked, gens, asked, host>>

\* What came of it is not recorded; the generation keeps its status.
RecordFails(w) ==
  /\ Fault /\ workers[w].pc \in {"retain", "resolve"}
  /\ Step(w, Done(w))
  /\ UNCHANGED <<setup, taken, leaked, gens, asked, host>>

\* A reservation that nobody will end counts until it is stale.
Leaks(w) == leaked' = [n \in Names |-> leaked[n] + (IF n \in workers[w].slots THEN 1 ELSE 0)]

ReturnFails(w) ==
  /\ Fault /\ Leaks(w)
  /\ \/ At(w, "release") /\ Step(w, Idle)
     \/ /\ workers[w].pc \in {"undone", "kept"}
        /\ Step(w, [workers[w] EXCEPT !.pc = IF At(w, "undone") THEN "resolve" ELSE "retain",
                                      !.slots = {}])
  /\ UNCHANGED <<setup, taken, gens, asked, host>>

Crash(w) ==
  /\ Fault /\ ~At(w, "idle") /\ Leaks(w)
  /\ Step(w, Idle)
  /\ UNCHANGED <<setup, taken, gens, asked, host>>

TtlPasses(g) ==
  /\ Active(g) /\ g \notin expired
  /\ expired' = expired \cup {g}
  /\ UNCHANGED <<setup, taken, workers, leaked, gens, killed, hasty, host, faults>>

Kill(g) ==
  /\ Active(g) /\ Owns(g) \notin killed /\ Cardinality(killed) < MaxKills
  /\ killed' = killed \cup {Owns(g)}
  /\ UNCHANGED <<setup, taken, workers, leaked, gens, expired, hasty, host, faults>>

\* The kernel drops an element when the TTL it was added with is over.
KernelDrops(g) ==
  /\ g \in timed \cap expired
  /\ rules' = [rules EXCEPT !["nftables"] = @ \ {Rule(g)}] /\ timed' = timed \ {g}
  /\ UNCHANGED <<setup, taken, workers, leaked, gens, asked, faults>>

WorkerStep(w) ==
  \/ \E r \in Requests : Take(w, r)
  \/ Reserve(w) \/ Release(w) \/ Preflight(w) \/ Prepare(w) \/ Call(w)
  \/ Verify(w) \/ Finish(w) \/ Retain(w)
  \/ (\E g \in Gens : List(w, g)) \/ Lift(w) \/ Return(w) \/ Resolve(w)

Next ==
  \/ \E w \in Workers :
       WorkerStep(w) \/ CallFails(w) \/ StepFails(w) \/ RecordFails(w) \/ ReturnFails(w) \/ Crash(w)
  \/ \E g \in Gens : Orphaned(g) \/ TtlPasses(g) \/ Kill(g) \/ KernelDrops(g)
  \/ \E n \in Names : Stale(n)

Spec == Init /\ [][Next]_vars

\* Only time and the kernel: the executor may be dead for good.
Fairness ==
  \A g \in Requests \X {"nftables"} : WF_vars(TtlPasses(g)) /\ WF_vars(KernelDrops(g))
FairSpec == Spec /\ Fairness

-----------------------------------------------------------------------------
(* Properties *)

Hosts(k) == {x \in 0..2 ^ Bits(k.fam) - 1 :
               LET s == 2 ^ (Bits(k.fam) - Full(k).len) IN x \div s = k.addr \div s}

\* No adapter enforces anything on an address of the never-block list, however the
\* target spells its range and on whichever side the broader prefix is; with a list
\* that does not parse nothing is enforced at all.
NeverBlocked ==
  \A n \in Names : \A k \in rules[n] \ Foreign[n] :
    /\ list # Malformed
    /\ \A entry \in list : Key(entry).fam = k.fam => Hosts(Key(entry)) \cap Hosts(k) = {}

\* A rule that was on the surface before Clawforge came stays there: no apply
\* adopts it, so no TTL, kill or failed dispatch removes it.
ForeignKept ==
  \A n \in Names : Foreign[n] \subseteq rules[n]

\* A completed generation is enforced until its TTL passes or an operator asks for its
\* target: no other request's command, crash or failed step takes it away, and nor does
\* a sweep that listed an earlier generation of the same rule. (Lifting a generation
\* that owns the same address under another fingerprint may, and so may a sweep that
\* listed this one before it was completed: it is in `hasty` then.)
CompletedIsEnforced ==
  \A g \in Gens :
    (gens[g] = "completed" /\ ~Due(g)) =>
      \/ Rule(g) \in rules[g[2]]
      \/ \E h \in Gens : h[2] = g[2] /\ Owns(h) # Owns(g) /\ Due(h) /\ Rule(h) = Rule(g)

\* A generation recorded as rolled back is enforced by nothing any more, unless another
\* generation of the same address owns the rule now.
LiftedIsLifted ==
  \A g \in Gens : gens[g] = "rolled_back" =>
    \/ Rule(g) \notin rules[g[2]]
    \/ \E h \in Gens \ {g} : h[2] = g[2] /\ Active(h) /\ Rule(h) = Rule(g)

\* What the generations say and what the surfaces enforce agree.
EnforcedAsRecorded == CompletedIsEnforced /\ LiftedIsLifted

\* Whatever becomes of the executors, no block in the kernel outlives its TTL.
DeadMansTimeout ==
  \A r \in Requests :
    (Rule(<<r, "nftables">>) \in rules["nftables"] \ Foreign["nftables"])
      ~> (Rule(<<r, "nftables">>) \notin rules["nftables"])
===============================================================================
