--------------------------- MODULE ApiAccessProofs ---------------------------
(***************************************************************************)
(* Proofs about ApiAccess for every value of its constants: any number of  *)
(* clients, users, credentials, calls and faults, any deployments within   *)
(* DeploymentAssumption, flushes of any size.  Of the tables of handlers   *)
(* and tools the proofs use what RoutesAssumption and ToolsAssumption say. *)
(*                                                                         *)
(* Three lemmas say what one step may do to a call (CallMoves), to the     *)
(* credentials (CredsMove) and to the committed rows (RowsMove); the       *)
(* conjuncts of IInv follow from them.                                     *)
(***************************************************************************)
EXTENDS ApiAccess, FiniteSetTheorems, TLAPS

-----------------------------------------------------------------------------
(* Finite sets in order *)

Ordered(s) == \A i, j \in DOMAIN s : i < j => s[i] < s[j]

\* One more number, above all the others, goes at the end.
LEMMA OrderedAppend ==
  ASSUME NEW T, NEW m \in Nat, T \subseteq Nat, IsFiniteSet(T),
         \A i \in T : i < m,
         NEW s \in SetToSeqs(T), Ordered(s), Range(s) = T
  PROVE  \E t \in SetToSeqs(T \cup {m}) : Ordered(t) /\ Range(t) = T \cup {m}
<1> DEFINE n == Cardinality(T)
           U == T \cup {m}
           t == [i \in 1..n + 1 |-> IF i = n + 1 THEN m ELSE s[i]]
<1>1. n \in Nat /\ Cardinality(U) = n + 1 /\ m \notin T
  BY FS_CardinalityType, FS_AddElement
<1>2. s \in [1..n -> T] /\ \A i, j \in 1..n : i # j => s[i] # s[j]
  BY DEF SetToSeqs
<1>3. t \in [1..n + 1 -> U]
  BY <1>1, <1>2
<1>4. \A i, j \in 1..n + 1 : i # j => t[i] # t[j]
  <2> SUFFICES ASSUME NEW i \in 1..n + 1, NEW j \in 1..n + 1, i # j
               PROVE  t[i] # t[j]
    OBVIOUS
  <2>1. CASE i = n + 1
    BY <1>1, <1>2, <2>1
  <2>2. CASE j = n + 1
    BY <1>1, <1>2, <2>2
  <2>3. CASE i # n + 1 /\ j # n + 1
    BY <1>1, <1>2, <2>3
  <2> QED BY <2>1, <2>2, <2>3
<1>5. Ordered(t)
  <2> SUFFICES ASSUME NEW i \in 1..n + 1, NEW j \in 1..n + 1, i < j
               PROVE  t[i] < t[j]
    BY DEF Ordered
  <2>1. i \in 1..n /\ t[i] = s[i] /\ s[i] \in T
    BY <1>1, <1>2
  <2>2. CASE j = n + 1
    BY <2>1, <2>2, <1>1
  <2>3. CASE j # n + 1
    <3>1. j \in 1..n /\ t[j] = s[j]
      BY <2>3, <1>1
    <3> QED BY <2>1, <3>1, <1>2 DEF Ordered
  <2> QED BY <2>2, <2>3
<1>6. Range(t) = U
  <2>1. \A x \in T : \E i \in 1..n : s[i] = x
    BY <1>2 DEF Range
  <2>2. \A x \in T : \E i \in 1..n + 1 : t[i] = x
    BY <2>1, <1>1
  <2>3. t[n + 1] = m /\ n + 1 \in 1..n + 1
    BY <1>1
  <2> QED BY <2>2, <2>3, <1>3 DEF Range
<1>7. t \in SetToSeqs(U)
  BY <1>1, <1>3, <1>4 DEF SetToSeqs
<1> QED BY <1>5, <1>6, <1>7

\* A finite set of numbers has a largest member.
LEMMA LargestMember ==
  ASSUME NEW S \in SUBSET Nat, IsFiniteSet(S), S # {}
  PROVE  \E m \in S : \A i \in S : i <= m
<1> DEFINE Above(m) == {i \in S : i > m}
           bad == {n \in Nat : \E m \in S : Cardinality(Above(m)) = n}
           R == OpToRel(<, Nat)
<1>1. \A m \in S : IsFiniteSet(Above(m)) /\ Cardinality(Above(m)) \in Nat
  <2> TAKE m \in S
  <2>1. IsFiniteSet(Above(m))
    BY FS_Subset
  <2> QED BY <2>1, FS_CardinalityType
<1>2. bad \subseteq Nat /\ bad # {}
  BY <1>1
<1>3. PICK n \in bad : \A k \in bad : <<k, n>> \notin R
  <2> HIDE DEF bad, R
  <2>1. IsWellFoundedOn(R, Nat)
    BY NatLessThanWellFounded DEF R
  <2> QED BY <2>1, <1>2, WFMin
<1>4. PICK m \in S : Cardinality(Above(m)) = n
  OBVIOUS
<1>5. Above(m) = {}
  <2> SUFFICES ASSUME NEW k \in Above(m) PROVE FALSE
    OBVIOUS
  <2>0. k \in S /\ m < k /\ S \subseteq Nat
    OBVIOUS
  <2>1. Above(k) \subseteq Above(m) \ {k}
    <3> SUFFICES ASSUME NEW i \in S, i > k PROVE i > m /\ i # k
      OBVIOUS
    <3>1. i \in Nat /\ k \in Nat /\ m \in Nat
      BY <2>0
    <3> QED BY <3>1, <2>0
  <2>2. IsFiniteSet(Above(m) \ {k}) /\ Cardinality(Above(m) \ {k}) = n - 1
    BY <1>1, <1>4, FS_RemoveElement
  <2>3. Cardinality(Above(k)) <= n - 1
    BY <2>1, <2>2, FS_Subset
  <2>4. Cardinality(Above(k)) \in bad
    BY <2>0, <1>1
  <2>5. Cardinality(Above(k)) < n
    BY <2>0, <2>3, <1>1
  <2> QED BY <2>4, <2>5, <1>2, <1>3 DEF OpToRel
<1> QED
  <2> SUFFICES ASSUME NEW i \in S PROVE i <= m
    OBVIOUS
  <2>1. i \in Nat /\ m \in Nat /\ ~(i > m)
    BY <1>5
  <2> QED BY <2>1

\* Every finite set of numbers can be put in order: a smallest set that
\* cannot would lose its largest member.
LEMMA CanBeOrdered ==
  ASSUME NEW S \in SUBSET Nat, IsFiniteSet(S)
  PROVE  \E s \in SetToSeqs(S) : Ordered(s) /\ Range(s) = S
<1> DEFINE Good(T) == \E s \in SetToSeqs(T) : Ordered(s) /\ Range(s) = T
           bad == {T \in SUBSET S : ~Good(T)}
           R == StrictSubsetOrdering(S)
<1> SUFFICES ASSUME ~Good(S) PROVE FALSE
  OBVIOUS
<1>1. S \in bad
  OBVIOUS
<1>2. IsWellFoundedOn(R, SUBSET S)
  BY FS_StrictSubsetOrderingWellFounded, FS_FiniteSubsetsOfFinite
<1>3. PICK T \in bad : \A U \in bad : <<U, T>> \notin R
  <2>1. bad \subseteq SUBSET S /\ bad # {}
    BY <1>1
  <2> HIDE DEF bad, R
  <2> QED BY <1>2, <2>1, WFMin
<1>4. IsFiniteSet(T) /\ T \subseteq Nat
  BY FS_Subset
<1>5. CASE T = {}
  <2> DEFINE e == [i \in 1..0 |-> 0]
  <2>1. e \in [1..0 -> {}] /\ \A i, j \in 1..0 : i # j => e[i] # e[j]
    OBVIOUS
  <2>2. Cardinality(T) = 0
    BY <1>5, FS_EmptySet
  <2>3. e \in SetToSeqs(T)
    BY <2>1, <2>2, <1>5 DEF SetToSeqs
  <2>4. Ordered(e) /\ Range(e) = T
    BY <1>5 DEF Ordered, Range
  <2> QED BY <2>3, <2>4
<1>6. CASE T # {}
  <2>1. PICK m \in T : \A i \in T : i <= m
    BY <1>4, <1>6, LargestMember
  <2> DEFINE U == T \ {m}
  <2>2. U \in SUBSET S /\ IsFiniteSet(U) /\ \A i \in U : i < m
    BY <2>1, <1>4, FS_Subset
  <2>3. Good(U)
    <3>1. <<U, T>> \in R
      BY <2>1 DEF StrictSubsetOrdering
    <3> QED BY <2>2, <3>1, <1>3
  <2>4. U \cup {m} = T
    BY <2>1
  <2>5. Good(U \cup {m})
    BY <2>1, <2>2, <2>3, <1>4, OrderedAppend
  <2> QED BY <2>4, <2>5
<1> QED BY <1>5, <1>6

\* InOrder lists each row of a finite set, and nothing else.
LEMMA InOrderLists ==
  ASSUME NEW rows \in SUBSET (Nat \ {0}), IsFiniteSet(rows)
  PROVE  InOrder(rows) \in Seq(Nat \ {0}) /\ Range(InOrder(rows)) = rows
<1> DEFINE s == InOrder(rows)
           n == Cardinality(rows)
<1>1. \E t \in SetToSeqs(rows) : Ordered(t)
  BY CanBeOrdered
<1>2. s \in SetToSeqs(rows)
  BY <1>1 DEF InOrder, Ordered
<1>3. n \in Nat
  BY FS_CardinalityType
<1>4. s \in [1..n -> rows] /\ \A i, j \in 1..n : i # j => s[i] # s[j]
  BY <1>2 DEF SetToSeqs
<1>5. s \in Injection(1..n, rows)
  BY <1>4 DEF Injection, IsInjective
<1>6. IsFiniteSet(1..n) /\ Cardinality(1..n) = n
  BY <1>3, FS_Interval
<1>7. s \in Surjection(1..n, rows)
  BY <1>5, <1>6, FS_Injection
<1>8. Range(s) = rows
  <2>1. \A x \in rows : \E i \in 1..n : s[i] = x
    BY <1>7 DEF Surjection
  <2>2. DOMAIN s = 1..n /\ \A i \in 1..n : s[i] \in rows
    BY <1>4
  <2> HIDE DEF s, n
  <2> QED BY <2>1, <2>2 DEF Range
<1>9. s \in Seq(Nat \ {0})
  <2>1. s \in [1..n -> Nat \ {0}]
    BY <1>4
  <2> QED BY <2>1, <1>3
<1> QED BY <1>8, <1>9

\* What a flush takes are rows it found.
LEMMA OldestTakes ==
  ASSUME NEW rows \in SUBSET (Nat \ {0}), IsFiniteSet(rows), NEW n \in Nat \ {0}
  PROVE  Oldest(rows, n) \in Seq(Nat \ {0}) /\ Range(Oldest(rows, n)) \subseteq rows
<1> DEFINE all == InOrder(rows)
           k == IF n < Len(all) THEN n ELSE Len(all)
<1>1. all \in Seq(Nat \ {0}) /\ Range(all) = rows
  BY InOrderLists
<1>2. k \in 0..Len(all) /\ Oldest(rows, n) = SubSeq(all, 1, k)
  BY <1>1 DEF Oldest
<1>3. SubSeq(all, 1, k) \in Seq(Nat \ {0})
      /\ \A i \in 1..k : SubSeq(all, 1, k)[i] = all[i]
      /\ Len(SubSeq(all, 1, k)) = k
  BY <1>1, <1>2
<1>4. \A i \in 1..k : all[i] \in rows
  BY <1>1, <1>2 DEF Range
<1> QED BY <1>2, <1>3, <1>4 DEF Range
-----------------------------------------------------------------------------
(* The invariant *)

Row == [call : Nat, published : BOOLEAN]

\* Credentials keep their fields.
CredsShaped ==
  creds = [k \in Creds |-> [state |-> creds[k].state, kind |-> creds[k].kind,
                            user |-> creds[k].user, scopes |-> creds[k].scopes]]

\* The types of the variables the properties depend on.
TypeOK ==
  /\ calls \in [Clients -> Call \cup {None}]
  /\ CredsShaped
  /\ outbox \in Seq(Row) /\ stream \in Seq(Nat) /\ Len(stream) = Len(outbox)
  /\ deployment \in Deployments
  /\ started \in Nat

\* What the MCP server is configured with stays issued, with its scopes.
TokensKept ==
  deployment.tools # {} =>
    /\ \A k \in {McpToken, LearningToken} : creds[k].state # "free"
    /\ creds[McpToken].scopes = deployment.scopes
    /\ deployment.scopes \cap {"learning:read", "learning:propose"}
         \subseteq creds[LearningToken].scopes

\* The tool call in progress is of a granted tool; the API call it waits for
\* is one of the tool's, with the tool's token.
McpInHand ==
  /\ mcp # None =>
       /\ mcp \in [tool : deployment.tools, todo : SUBSET DOMAIN Routes, failed : BOOLEAN]
       /\ mcp.todo \subseteq Tools[mcp.tool].routes
       /\ ToolGranted(mcp.tool)
  /\ calls[Mcp] # None =>
       mcp # None /\ calls[Mcp].route \in mcp.todo /\ calls[Mcp].cred = TokenOf(mcp.tool)

\* A call that is past authentication came in with a credential that was in
\* force, of the kind and with the scopes its route asks for.
Admitted(c) ==
  LET call == calls[c]
      k == call.cred
      route == Routes[call.route]
  IN  /\ k # None => creds[k].state # "free" /\ (~call.legit => ~InForce(k))
      /\ call.at > 0 /\ route.auth # "none" =>
           /\ k # None /\ call.legit
           /\ creds[k].kind \in Kinds[route.auth]
           /\ route.auth = "agent" => ScopeAllowed(creds[k].scopes, route.needs)
           /\ route.auth = "exact" => ExactScope(creds[k].scopes, route.needs)

HasRow(id) == \E i \in DOMAIN outbox : outbox[i].call = id

\* The steps a call has passed.
Passed(c) == {i \in DOMAIN Steps(c) : i < calls[c].at}

\* A logging step behind a call left its row, or the store failed; what a
\* call changed it changed in a step behind it; 200 comes after the last one.
Trailed(c) ==
  /\ \A i \in Passed(c) : Steps(c)[i] \in Logging => calls[c].lost \/ HasRow(calls[c].id)
  /\ calls[c].changed =>
       \E i \in Passed(c) : /\ Steps(c)[i] \in Changing
                            /\ Steps(c)[i] = "record" => HasRow(calls[c].id)
  /\ calls[c].answer = "ok" => calls[c].at = Len(Steps(c)) + 1

\* What is in a call's hands are rows; the one it sent is in the stream; a
\* flush that is due has yet to take its rows.
Flushing(c) ==
  /\ Range(calls[c].flush) \subseteq DOMAIN outbox
  /\ calls[c].sent => calls[c].flush # <<>> /\ stream[Head(calls[c].flush)] = 1
  /\ calls[c].due => calls[c].flush = <<>>

\* The call waits for whom its token is in learning, and is refused for a token
\* that is not onboarded or a lookup that failed.
Unknown(c) ==
  /\ calls[c].at \in DOMAIN Steps(c) /\ Steps(c)[calls[c].at] = "actor"
  /\ calls[c].cred \notin deployment.onboarded \/ calls[c].lost

\* No tool call is answered 403 for its scope.
NotForbidden == calls[Mcp] # None /\ calls[Mcp].answer = "forbidden" => Unknown(Mcp)

IInv ==
  /\ TypeOK /\ TokensKept /\ McpInHand /\ NotForbidden
  /\ \A c \in Clients : calls[c] # None => Admitted(c) /\ Trailed(c) /\ Flushing(c)
  /\ RowsDelivered

-----------------------------------------------------------------------------
(* What one step may do *)

\* The steps of a call in flight, apart from its end.
HandlerStep(c) ==
  \/ Limit(c) \/ Authenticate(c) \/ Actor(c) \/ Read(c) \/ Refuse(c)
  \/ Write(c) \/ Record(c) \/ Finish(c) \/ Vacant(c) \/ CreateUser(c)
  \/ Account(c) \/ Session(c) \/ Token(c) \/ AgentToken(c) \/ Revoke(c)
  \/ RotateNothing(c) \/ Log(c) \/ FlushOnly(c) \/ Select(c) \/ Publish(c)
  \/ Mark(c) \/ StoreFails(c) \/ FlushFails(c)

\* The call stays where it is; it may be answered.
Stays(c) ==
  /\ calls'[c].at = calls[c].at
  /\ calls'[c].changed = calls[c].changed /\ (calls[c].lost => calls'[c].lost)
  /\ calls'[c].answer # calls[c].answer =>
       /\ calls'[c].answer = "ok" => calls[c].at = Len(Steps(c)) + 1
       /\ calls'[c].answer = "forbidden" =>
            \/ /\ Routes[calls[c].route].auth # "none"
               /\ ~Permitted(calls[c].cred, Routes[calls[c].route])
            \/ Unknown(c)'

\* The call passes authentication.
Enters(c) ==
  LET route == Routes[calls[c].route]
      k == calls[c].cred
  IN  /\ calls[c].at = 0 /\ calls'[c].at = 1
      /\ calls'[c].changed = calls[c].changed /\ calls'[c].lost = calls[c].lost
      /\ calls'[c].answer = None
      /\ route.auth # "none" => Credential(k, route.auth) /\ Permitted(k, route)

\* The call passes a step of its handler.
Passes(c) ==
  /\ calls[c].at \in DOMAIN Steps(c) /\ calls'[c].at = calls[c].at + 1
  /\ calls'[c].answer = None
  /\ calls[c].lost => calls'[c].lost
  /\ Steps(c)[calls[c].at] \in Logging =>
       calls'[c].lost \/ HasRow(calls[c].id)'
  /\ calls[c].changed => calls'[c].changed
  /\ calls'[c].changed # calls[c].changed =>
       /\ Steps(c)[calls[c].at] \in Changing
       /\ Steps(c)[calls[c].at] = "record" => HasRow(calls[c].id)'

\* It is the same call.
SameCall(c) ==
  /\ calls'[c].id = calls[c].id /\ calls'[c].route = calls[c].route
  /\ calls'[c].cred = calls[c].cred /\ calls'[c].legit = calls[c].legit

Goes(c) == calls[c] # None /\ SameCall(c) /\ (Stays(c) \/ Enters(c) \/ Passes(c))

\* A request has come in.
Arrived(c) ==
  /\ calls'[c].at = 0 /\ calls'[c].answer = None
  /\ ~calls'[c].changed /\ ~calls'[c].lost
  /\ ~calls'[c].due /\ calls'[c].flush = <<>> /\ ~calls'[c].sent
  /\ calls'[c].cred # None =>
       creds[calls'[c].cred].state # "free" /\ (calls'[c].legit <=> InForce(calls'[c].cred))

\* What waits is a finite set of rows.
LEMMA RowsWaiting ==
  ASSUME TypeOK
  PROVE  /\ DOMAIN outbox = 1..Len(outbox) /\ Len(outbox) \in Nat
         /\ \A T \in SUBSET Waiting : T \in SUBSET (Nat \ {0}) /\ IsFiniteSet(T)
<1>1. DOMAIN outbox = 1..Len(outbox) /\ Len(outbox) \in Nat
  BY DEF TypeOK
<1>2. IsFiniteSet(1..Len(outbox))
  BY <1>1, FS_Interval
<1>3. Waiting \subseteq 1..Len(outbox)
  BY <1>1 DEF Waiting
<1>4. \A T \in SUBSET Waiting : T \in SUBSET (1..Len(outbox))
  BY <1>3
<1>5. \A T \in SUBSET Waiting : IsFiniteSet(T)
  BY <1>2, <1>4, FS_Subset
<1> QED BY <1>1, <1>4, <1>5

\* Adding a row of a call: the call has its row.
LEMMA RowAdded ==
  ASSUME TypeOK, NEW id \in Nat,
         outbox' = Append(outbox, [call |-> id, published |-> FALSE])
  PROVE  outbox' \in Seq(Row) /\ \E i \in DOMAIN outbox' : outbox'[i].call = id
<1>1. [call |-> id, published |-> FALSE] \in Row
  BY DEF Row
<1>2. outbox' \in Seq(Row) /\ Len(outbox') = Len(outbox) + 1
      /\ outbox'[Len(outbox) + 1] = [call |-> id, published |-> FALSE]
  BY <1>1 DEF TypeOK
<1>3. Len(outbox) + 1 \in DOMAIN outbox'
  BY <1>2 DEF TypeOK
<1> QED BY <1>2, <1>3

\* A call that goes on is a call.
LEMMA NextCall ==
  ASSUME NEW call \in Call
  PROVE  Next1(call) \in Call
<1>1. call.at + 1 \in Nat
  BY DEF Call
<1> QED BY <1>1 DEF Call, Next1

\* The steps of the credential handlers pass on, issuing or changing.
LEMMA IssueGoes ==
  ASSUME TypeOK, NEW c \in Clients, NEW k \in Creds, NEW kind, NEW user, NEW scopes,
         Issue(c, k, kind, user, scopes),
         At(c, {"session", "token", "agent_token"})
  PROVE  Goes(c) /\ \E f \in Call : calls' = [calls EXCEPT ![c] = f]
<1>1. calls[c] # None /\ calls[c] \in Call /\ calls[c].answer = None
      /\ calls[c].at \in DOMAIN Steps(c)
      /\ Steps(c)[calls[c].at] \in {"session", "token", "agent_token"}
  BY RoutesAssumption DEF At, Running, Quiet, TypeOK, Call, Steps
<1> DEFINE f == [Next1(calls[c]) EXCEPT !.changed = TRUE]
<1>2. f \in Call /\ calls' = [calls EXCEPT ![c] = f]
  <2>1. Next1(calls[c]) \in Call
    BY <1>1, NextCall
  <2>2. \A call \in Call : [call EXCEPT !.changed = TRUE] \in Call
    BY DEF Call
  <2>3. calls' = [calls EXCEPT ![c] = f]
    BY DEF Issue, Update
  <2> QED BY <2>1, <2>2, <2>3
<1>3. calls'[c] = f
  BY <1>2 DEF TypeOK
<1>4. SameCall(c) /\ f.answer = None /\ f.at = calls[c].at + 1 /\ f.lost = calls[c].lost
      /\ f.changed
  BY <1>1, <1>3 DEF SameCall, Next1, Call
<1>5. Passes(c)
  BY <1>1, <1>3, <1>4 DEF Passes, Changing, Logging
<1> QED BY <1>1, <1>2, <1>4, <1>5 DEF Goes

\* A step of a handler takes its own call on, or leaves it where it is.
LEMMA HandlerGoes ==
  ASSUME TypeOK, NEW c \in Clients, HandlerStep(c),
         calls[c] # None => Flushing(c)
  PROVE  Goes(c) /\ \E f \in Call : calls' = [calls EXCEPT ![c] = f]
<1> DEFINE call == calls[c]
           Set(f) == f \in Call /\ calls' = [calls EXCEPT ![c] = f]
<1>1. call # None /\ call \in Call
  <2>1. call # None
    BY DEF HandlerStep, Limit, Authenticate, Actor, Read, Refuse, Write, Record, Finish, Vacant,
           CreateUser, Account, Session, Token, AgentToken, Revoke, RotateNothing, Log,
           FlushOnly, Select, Publish, Mark, StoreFails, FlushFails, At, Running, Quiet
  <2> QED BY <2>1 DEF TypeOK
<1>2. DOMAIN Steps(c) = 1..Len(Steps(c)) /\ call.at \in Nat /\ call.flush \in Seq(Nat \ {0})
      /\ call.id \in Nat /\ <<>> \in Seq(Nat \ {0}) /\ Next1(call) \in Call
  BY <1>1, RoutesAssumption, NextCall DEF Call, Steps
<1>3. ASSUME NEW f, Set(f) PROVE calls'[c] = f
  BY <1>3 DEF TypeOK
<1>4. ASSUME NEW a \in Answers, a \notin {"ok", "forbidden"}, Update(c, [call EXCEPT !.answer = a])
      PROVE  Goes(c) /\ \E f \in Call : calls' = [calls EXCEPT ![c] = f]
  <2> DEFINE f == [call EXCEPT !.answer = a]
  <2>1. Set(f)
    BY <1>1, <1>4 DEF Call, Update
  <2>2. calls'[c] = f
    BY <2>1, <1>3
  <2>3. SameCall(c) /\ Stays(c)
    BY <1>1, <1>4, <2>2 DEF SameCall, Stays, Call
  <2> QED BY <1>1, <2>1, <2>3 DEF Goes
<1>5. ASSUME Update(c, Next1(call)), At(c, {"actor", "check", "read", "find", "call", "vacant", "revoke_token", "record"})
      PROVE  Goes(c) /\ \E f \in Call : calls' = [calls EXCEPT ![c] = f]
  <2>1. Set(Next1(call))
    BY <1>1, <1>2, <1>5 DEF Call, Update, Next1
  <2>2. calls'[c] = Next1(call)
    BY <2>1, <1>3
  <2>3. SameCall(c) /\ Passes(c)
    BY <1>1, <1>2, <1>5, <2>2
    DEF SameCall, Passes, Call, At, Running, Logging, Changing, Next1
  <2> QED BY <1>1, <2>1, <2>3 DEF Goes
<1>6. ASSUME NEW f \in Call, Update(c, f), SameCall(c),
             f.at = call.at, f.changed = call.changed, f.lost = call.lost, f.answer = call.answer
      PROVE  Goes(c) /\ \E g \in Call : calls' = [calls EXCEPT ![c] = g]
  <2>1. Set(f)
    BY <1>6 DEF Update
  <2>2. Stays(c)
    BY <2>1, <1>3, <1>6 DEF Stays
  <2> QED BY <1>1, <1>6, <2>1, <2>2 DEF Goes
<1>7. CASE Limit(c)
  <2> DEFINE f == [call EXCEPT !.answer = "limited", !.due = TRUE]
  <2>1. Set(f)
    BY <1>1, <1>7 DEF Limit, Update, Call, Answers
  <2>2. SameCall(c) /\ Stays(c)
    BY <1>1, <2>1, <1>3 DEF SameCall, Stays, Call
  <2> QED BY <1>1, <2>1, <2>2 DEF Goes
<1>8. CASE Authenticate(c)
  <2> DEFINE route == Routes[call.route]
             k == call.cred
  <2>1. call.at = 0 /\ call.answer = None
    BY <1>8 DEF Authenticate, Running
  <2>2. CASE Update(c, Next1(call)) /\ (route.auth = "none" \/ (Credential(k, route.auth) /\ Permitted(k, route)))
    <3>1. Set(Next1(call))
      BY <1>2, <2>2 DEF Update
    <3>2. calls'[c] = Next1(call)
      BY <3>1, <1>3
    <3>3. SameCall(c) /\ Enters(c)
      BY <1>1, <2>1, <2>2, <3>2 DEF SameCall, Enters, Call, Next1
    <3> QED BY <1>1, <3>1, <3>3 DEF Goes
  <2>3. CASE Answer(c, "unauthorized")
    BY <2>3, <1>4 DEF Answer, Answers
  <2>4. CASE Answer(c, "forbidden") /\ route.auth # "none" /\ ~Permitted(k, route)
    <3> DEFINE f == [call EXCEPT !.answer = "forbidden"]
    <3>1. Set(f)
      BY <1>1, <2>4 DEF Call, Update, Answer, Answers
    <3>2. calls'[c] = f
      BY <3>1, <1>3
    <3>3. SameCall(c) /\ Stays(c)
      BY <1>1, <2>4, <3>2 DEF SameCall, Stays, Call
    <3> QED BY <1>1, <3>1, <3>3 DEF Goes
  <2>5. CASE Answer(c, "unavailable")
    BY <2>5, <1>4 DEF Answer, Answers
  <2> QED BY <1>8, <2>2, <2>3, <2>4, <2>5 DEF Authenticate
<1>29. ASSUME At(c, {"actor"}), NEW b \in BOOLEAN, call.lost => b, call.cred \notin deployment.onboarded \/ b,
              deployment' = deployment,
              Update(c, [call EXCEPT !.answer = "forbidden", !.lost = b])
       PROVE  Goes(c) /\ \E f \in Call : calls' = [calls EXCEPT ![c] = f]
  <2> DEFINE f == [call EXCEPT !.answer = "forbidden", !.lost = b]
  <2>1. Set(f)
    BY <1>1, <1>29 DEF Call, Update, Answers
  <2>2. calls'[c] = f
    BY <2>1, <1>3
  <2>3. f.at = call.at /\ f.route = call.route /\ f.cred = call.cred /\ f.lost = b
        /\ f.changed = call.changed /\ f.id = call.id /\ f.legit = call.legit
        /\ f.answer = "forbidden"
    BY <1>1 DEF Call
  <2>4. call.at \in DOMAIN Steps(c) /\ Steps(c)[call.at] = "actor"
    BY <1>2, <1>29 DEF At
  <2>5. Unknown(c)'
    BY <1>29, <2>2, <2>3, <2>4 DEF Unknown, Steps
  <2>6. SameCall(c) /\ Stays(c)
    BY <1>29, <2>2, <2>3, <2>5 DEF SameCall, Stays
  <2> QED BY <1>1, <2>1, <2>6 DEF Goes
<1>30. CASE Actor(c)
  <2>1. CASE Update(c, Next1(call))
    BY <1>5, <1>30, <2>1 DEF Actor, At
  <2>2. CASE call.cred \notin deployment.onboarded /\ Answer(c, "forbidden")
    <3>1. [call EXCEPT !.answer = "forbidden"] = [call EXCEPT !.answer = "forbidden", !.lost = call.lost]
      BY <1>1 DEF Call
    <3>2. call.lost \in BOOLEAN
      BY <1>1 DEF Call
    <3> QED BY <1>29, <1>30, <2>2, <3>1, <3>2 DEF Actor, Answer
  <2> QED BY <1>30, <2>1, <2>2 DEF Actor
<1>9. CASE Read(c)
  BY <1>9, <1>5 DEF Read, At
<1>10. CASE Refuse(c)
  BY <1>10, <1>4 DEF Refuse, Answer, Answers
<1>11. CASE Write(c)
  <2> DEFINE f == [Next1(call) EXCEPT !.changed = TRUE]
  <2>1. Set(f)
    BY <1>2, <1>11 DEF Write, Update, Call
  <2>2. calls'[c] = f
    BY <2>1, <1>3
  <2>3. SameCall(c) /\ Passes(c)
    BY <1>1, <1>2, <1>11, <2>2
    DEF SameCall, Passes, Call, Write, At, Running, Logging, Changing, Next1
  <2> QED BY <1>1, <2>1, <2>3 DEF Goes
<1>12. CASE Record(c)
  <2>1. CASE Update(c, Next1(call))
    BY <1>12, <2>1, <1>5 DEF Record, At
  <2>2. CASE /\ outbox' = Append(outbox, [call |-> call.id, published |-> FALSE])
             /\ Update(c, [Next1(call) EXCEPT !.changed = TRUE])
    <3> DEFINE f == [Next1(call) EXCEPT !.changed = TRUE]
    <3>1. Set(f)
      BY <1>2, <2>2 DEF Update, Call
    <3>2. calls'[c] = f
      BY <3>1, <1>3
    <3>3. SameCall(c)
      BY <1>1, <3>2 DEF SameCall, Call, Next1
    <3>4. HasRow(calls[c].id)'
      BY <2>2, <1>2, <3>3, RowAdded DEF HasRow, SameCall
    <3>5. Passes(c)
      BY <1>1, <1>2, <1>12, <3>2, <3>4
      DEF Passes, Call, Record, At, Running, Logging, Changing, Next1
    <3> QED BY <1>1, <3>1, <3>3, <3>5 DEF Goes
  <2> QED BY <1>12, <2>1, <2>2 DEF Record
<1>13. CASE Finish(c)
  <2> DEFINE f == [call EXCEPT !.answer = "ok"]
  <2>1. Set(f)
    BY <1>1, <1>13 DEF Finish, Update, Call, Answer, Answers
  <2>2. calls'[c] = f
    BY <2>1, <1>3
  <2>3. SameCall(c) /\ Stays(c)
    BY <1>1, <1>13, <2>2 DEF SameCall, Stays, Call, Finish
  <2> QED BY <1>1, <2>1, <2>3 DEF Goes
<1>14. CASE Vacant(c)
  BY <1>14, <1>4, <1>5 DEF Vacant, At, Answers
<1>15. CASE CreateUser(c)
  <2>1. PICK u \in Users : Update(c, [Next1(call) EXCEPT !.subject = u, !.changed = TRUE])
    BY <1>15 DEF CreateUser
  <2> DEFINE f == [Next1(call) EXCEPT !.subject = u, !.changed = TRUE]
  <2>2. Set(f)
    BY <1>2, <2>1 DEF Update, Call
  <2>3. calls'[c] = f
    BY <2>2, <1>3
  <2>4. SameCall(c) /\ Passes(c)
    BY <1>1, <1>2, <1>15, <2>3
    DEF SameCall, Passes, Call, CreateUser, At, Running, Logging, Changing, Next1
  <2> QED BY <1>1, <2>2, <2>4 DEF Goes
<1>16. CASE Account(c)
  <2>1. PICK u \in Users : Update(c, [Next1(call) EXCEPT !.subject = u])
    BY <1>16 DEF Account
  <2> DEFINE f == [Next1(call) EXCEPT !.subject = u]
  <2>2. Set(f)
    BY <1>2, <2>1 DEF Update, Call
  <2>3. calls'[c] = f
    BY <2>2, <1>3
  <2>4. SameCall(c) /\ Passes(c)
    BY <1>1, <1>2, <1>16, <2>3
    DEF SameCall, Passes, Call, Account, At, Running, Logging, Changing, Next1
  <2> QED BY <1>1, <2>2, <2>4 DEF Goes
<1>17. CASE Session(c)
  <2>1. At(c, {"session", "token", "agent_token"})
    BY <1>17 DEF Session, At
  <2> QED BY <1>17, <2>1, IssueGoes DEF Session
<1>18. CASE Token(c)
  <2>1. At(c, {"session", "token", "agent_token"})
    BY <1>18 DEF Token, At
  <2> QED BY <1>18, <2>1, IssueGoes DEF Token
<1>19. CASE AgentToken(c)
  <2>1. At(c, {"session", "token", "agent_token"})
    BY <1>19 DEF AgentToken, At
  <2> QED BY <1>19, <2>1, IssueGoes DEF AgentToken
<1>20. CASE Revoke(c)
  <2> DEFINE f == [Next1(call) EXCEPT !.changed = TRUE]
  <2>1. Set(f)
    BY <1>2, <1>20 DEF Revoke, Update, Call
  <2>2. calls'[c] = f
    BY <2>1, <1>3
  <2>3. SameCall(c) /\ Passes(c)
    BY <1>1, <1>2, <1>20, <2>2
    DEF SameCall, Passes, Call, Revoke, At, Running, Logging, Changing, Next1
  <2> QED BY <1>1, <2>1, <2>3 DEF Goes
<1>21. CASE RotateNothing(c)
  BY <1>21, <1>5 DEF RotateNothing, At
<1>22. CASE Log(c)
  <2> DEFINE f == [Next1(call) EXCEPT !.due = TRUE]
  <2>1. Set(f)
    BY <1>2, <1>22 DEF Log, Update, Call
  <2>2. calls'[c] = f
    BY <2>1, <1>3
  <2>3. SameCall(c)
    BY <1>1, <2>2 DEF SameCall, Call, Next1
  <2>4. HasRow(calls[c].id)'
    BY <1>22, <1>2, <2>3, RowAdded DEF HasRow, SameCall, Log
  <2>5. Passes(c)
    BY <1>1, <1>2, <1>22, <2>2, <2>4
    DEF Passes, Call, Log, At, Running, Logging, Changing, Next1
  <2> QED BY <1>1, <2>1, <2>3, <2>5 DEF Goes
<1>23. CASE FlushOnly(c)
  <2> DEFINE f == [Next1(call) EXCEPT !.due = TRUE]
  <2>1. Set(f)
    BY <1>2, <1>23 DEF FlushOnly, Update, Call
  <2>2. calls'[c] = f
    BY <2>1, <1>3
  <2>3. SameCall(c) /\ Passes(c)
    BY <1>1, <1>2, <1>23, <2>2
    DEF SameCall, Passes, Call, FlushOnly, At, Running, Logging, Changing, Next1
  <2> QED BY <1>1, <2>1, <2>3 DEF Goes
<1>24. CASE Select(c)
  <2>1. PICK skipped \in SUBSET (Marking(c) \cap Waiting) :
          Update(c, [call EXCEPT !.due = FALSE,
                                 !.flush = Oldest(Waiting \ skipped, deployment.batch)])
    BY <1>24 DEF Select
  <2> DEFINE chosen == Oldest(Waiting \ skipped, deployment.batch)
             f == [call EXCEPT !.due = FALSE, !.flush = chosen]
  <2>2. chosen \in Seq(Nat \ {0})
    <3>1. deployment.batch \in Nat \ {0}
      BY DeploymentAssumption DEF TypeOK
    <3>2. Waiting \ skipped \in SUBSET Waiting
      OBVIOUS
    <3> QED BY <3>1, <3>2, RowsWaiting, OldestTakes
  <2> HIDE DEF chosen
  <2>3. Set(f)
    BY <1>1, <2>1, <2>2 DEF Call, Update, chosen
  <2>4. SameCall(c)
    BY <1>1, <2>3, <1>3 DEF SameCall, Call
  <2> QED BY <1>1, <2>3, <2>4, <1>6 DEF Call, Update
<1>25. CASE Publish(c)
  <2> DEFINE f == [call EXCEPT !.sent = TRUE]
  <2>1. Set(f)
    BY <1>1, <1>25 DEF Publish, Update, Call
  <2>2. SameCall(c)
    BY <1>1, <2>1, <1>3 DEF SameCall, Call
  <2> QED BY <1>1, <2>1, <2>2, <1>6 DEF Call, Update
<1>26. CASE Mark(c)
  <2> DEFINE f == [call EXCEPT !.flush = Tail(@), !.sent = FALSE]
  <2>1. Tail(call.flush) \in Seq(Nat \ {0})
    BY <1>1, <1>2, <1>26 DEF Mark, Flushing
  <2>2. Set(f)
    BY <1>1, <1>26, <2>1 DEF Mark, Update, Call
  <2>3. SameCall(c)
    BY <1>1, <2>2, <1>3 DEF SameCall, Call
  <2> QED BY <1>1, <2>2, <2>3, <1>6 DEF Call, Update
<1>27. CASE StoreFails(c)
  <2>1. CASE At(c, {"log"}) /\ Update(c, [Next1(call) EXCEPT !.lost = TRUE])
    <3> DEFINE f == [Next1(call) EXCEPT !.lost = TRUE]
    <3>1. Set(f)
      BY <1>2, <2>1 DEF Update, Call
    <3>2. calls'[c] = f
      BY <3>1, <1>3
    <3>3. SameCall(c) /\ Passes(c)
      BY <1>1, <1>2, <2>1, <3>2
      DEF SameCall, Passes, Call, At, Running, Logging, Changing, Next1
    <3> QED BY <1>1, <3>1, <3>3 DEF Goes
  <2>2. CASE Update(c, [call EXCEPT !.answer = FailedAnswer(call)])
    <3>1. FailedAnswer(call) \in {"refused", "unavailable"}
      BY DEF FailedAnswer
    <3> QED BY <2>2, <3>1, <1>4 DEF Answers
  <2>3. CASE At(c, {"actor"}) /\ Update(c, [call EXCEPT !.answer = "forbidden", !.lost = TRUE])
    <3>1. deployment' = deployment
      BY <1>27 DEF StoreFails
    <3> QED BY <1>29, <2>3, <3>1
  <2> QED BY <1>27, <2>1, <2>2, <2>3 DEF StoreFails
<1>28. CASE FlushFails(c)
  <2>1. CASE Update(c, [call EXCEPT !.due = FALSE])
    <3> DEFINE f == [call EXCEPT !.due = FALSE]
    <3>1. Set(f)
      BY <1>1, <2>1 DEF Update, Call
    <3>2. SameCall(c)
      BY <1>1, <3>1, <1>3 DEF SameCall, Call
    <3> QED BY <1>1, <3>1, <3>2, <1>6 DEF Call, Update
  <2>2. CASE call.flush # <<>> /\ Update(c, [call EXCEPT !.flush = Tail(@)])
    <3> DEFINE f == [call EXCEPT !.flush = Tail(@)]
    <3>1. Tail(call.flush) \in Seq(Nat \ {0})
      BY <1>2, <2>2
    <3>2. Set(f)
      BY <1>1, <2>2, <3>1 DEF Update, Call
    <3>3. SameCall(c)
      BY <1>1, <3>2, <1>3 DEF SameCall, Call
    <3> QED BY <1>1, <3>2, <3>3, <1>6 DEF Call, Update
  <2>3. CASE Update(c, [call EXCEPT !.flush = <<>>, !.sent = FALSE])
    <3> DEFINE f == [call EXCEPT !.flush = <<>>, !.sent = FALSE]
    <3>1. Set(f)
      BY <1>1, <1>2, <2>3 DEF Update, Call
    <3>2. SameCall(c)
      BY <1>1, <3>1, <1>3 DEF SameCall, Call
    <3> QED BY <1>1, <3>1, <3>2, <1>6 DEF Call, Update
  <2> QED BY <1>28, <2>1, <2>2, <2>3 DEF FlushFails
<1> QED
  BY <1>7, <1>8, <1>9, <1>10, <1>11, <1>12, <1>13, <1>14, <1>15, <1>16, <1>17, <1>18, <1>19,
     <1>20, <1>21, <1>22, <1>23, <1>24, <1>25, <1>26, <1>27, <1>28, <1>30 DEF HandlerStep

\* A request comes in.
LEMMA ArriveStep ==
  ASSUME TypeOK, NEW c \in Clients, NEW r \in DOMAIN Routes, NEW k \in Creds \cup {None},
         Arrive(c, r, k), k # None => creds[k].state # "free"
  PROVE  /\ Arrived(c) /\ started' \in Nat
         /\ calls'[c].route = r /\ calls'[c].cred = k
         /\ \E f \in Call : calls' = [calls EXCEPT ![c] = f]
<1> DEFINE f == [id |-> started + 1, route |-> r, cred |-> k, at |-> 0, subject |-> None,
                 due |-> FALSE, flush |-> <<>>, sent |-> FALSE, answer |-> None,
                 changed |-> FALSE, lost |-> FALSE, legit |-> k # None /\ InForce(k)]
<1>1. calls' = [calls EXCEPT ![c] = f] /\ started' = started + 1
  BY DEF Arrive
<1>2. (k # None /\ InForce(k)) \in BOOLEAN
  BY DEF InForce
<1>3. started + 1 \in Nat /\ <<>> \in Seq(Nat \ {0})
  BY DEF TypeOK
<1>4. f \in Call
  BY <1>2, <1>3 DEF Call
<1>5. calls'[c] = f
  BY <1>1 DEF TypeOK
<1>6. calls'[c].route = r /\ calls'[c].cred = k
      /\ calls'[c].legit = (k # None /\ InForce(k))
  BY <1>5
<1>7. Arrived(c)
  <2>1. /\ calls'[c].at = 0 /\ calls'[c].answer = None
        /\ ~calls'[c].changed /\ ~calls'[c].lost
        /\ ~calls'[c].due /\ calls'[c].flush = <<>> /\ ~calls'[c].sent
    BY <1>5
  <2> QED BY <1>6, <2>1 DEF Arrived
<1>8. started' \in Nat
  BY <1>1, <1>3
<1>9. \E g \in Call : calls' = [calls EXCEPT ![c] = g]
  BY <1>1, <1>4
<1> HIDE DEF f
<1> QED BY <1>6, <1>7, <1>8, <1>9

\* The token a tool call is made with has been issued.
LEMMA TokenIssued ==
  ASSUME TypeOK, TokensKept, McpInHand, mcp # None
  PROVE  /\ TokenOf(mcp.tool) \in Creds
         /\ creds[TokenOf(mcp.tool)].state # "free"
         /\ mcp.tool \in deployment.tools /\ mcp.tool \in DOMAIN Tools
         /\ mcp.todo \subseteq DOMAIN Routes
  BY AccessAssumption, DeploymentAssumption DEF TypeOK, TokensKept, McpInHand, TokenOf

\* Every step leaves a call alone, ends it, takes it on or brings it in.
LEMMA CallMoves ==
  ASSUME TypeOK, TokensKept, McpInHand, [Next]_vars,
         \A c \in Clients : calls[c] # None => Flushing(c)
  PROVE  /\ calls' \in [Clients -> Call \cup {None}]
         /\ started' \in Nat /\ deployment' = deployment
         /\ \A d \in Clients : \/ calls'[d] = calls[d] \/ calls'[d] = None
                               \/ Goes(d) \/ Arrived(d)
<1> DEFINE Moves == /\ calls' \in [Clients -> Call \cup {None}]
                    /\ \A d \in Clients : \/ calls'[d] = calls[d] \/ calls'[d] = None
                                          \/ Goes(d) \/ Arrived(d)
<1>1. ASSUME NEW c \in Clients, HandlerStep(c)
      PROVE  Moves /\ started' \in Nat /\ deployment' = deployment
  <2>1. started' = started /\ deployment' = deployment
    BY <1>1 DEF HandlerStep, Limit, Authenticate, Actor, Read, Refuse, Write, Record, Finish, Vacant,
         CreateUser, Account, Session, Token, AgentToken, Revoke, RotateNothing, Log,
         FlushOnly, Select, Publish, Mark, StoreFails, FlushFails, Answer, Issue, bounds
  <2>2. Goes(c) /\ \E f \in Call : calls' = [calls EXCEPT ![c] = f]
    BY <1>1, HandlerGoes
  <2>3. PICK f \in Call : calls' = [calls EXCEPT ![c] = f]
    BY <2>2
  <2>4. calls' \in [Clients -> Call \cup {None}] /\ \A d \in Clients : d # c => calls'[d] = calls[d]
    BY <2>3 DEF TypeOK
  <2> QED BY <2>1, <2>2, <2>4 DEF TypeOK
<1>2. ASSUME NEW c \in Clients, Begin(c)
      PROVE  Moves /\ started' \in Nat /\ deployment' = deployment
  <2>1. PICK use \in deployment.calls[c] :
          (use[2] # None => creds[use[2]].state # "free") /\ Arrive(c, use[1], use[2])
    BY <1>2 DEF Begin
  <2>2. c # Mcp
    BY <1>2 DEF Begin
  <2>3. use[1] \in DOMAIN Routes /\ use[2] \in Creds \cup {None}
    BY <2>1, <2>2, DeploymentAssumption DEF TypeOK
  <2>4. Arrived(c) /\ started' \in Nat /\ \E f \in Call : calls' = [calls EXCEPT ![c] = f]
    BY <2>1, <2>3, ArriveStep
  <2>5. PICK f \in Call : calls' = [calls EXCEPT ![c] = f]
    BY <2>4
  <2>6. calls' \in [Clients -> Call \cup {None}] /\ \A d \in Clients : d # c => calls'[d] = calls[d]
    BY <2>5 DEF TypeOK
  <2>7. deployment' = deployment
    BY <2>1 DEF Arrive
  <2> QED BY <2>4, <2>6, <2>7
<1>3. ASSUME NEW c \in Clients, Vanish(c)
      PROVE  Moves /\ started' \in Nat /\ deployment' = deployment
  <2>1. calls' = [calls EXCEPT ![c] = None] /\ started' = started /\ deployment' = deployment
    BY <1>3 DEF Vanish, Update
  <2> QED BY <2>1 DEF TypeOK
<1>4. CASE Request
  <2>1. PICK r \in mcp.todo : Arrive(Mcp, r, TokenOf(mcp.tool))
    BY <1>4 DEF Request
  <2>2. mcp # None
    BY <1>4 DEF Request
  <2>3. Arrived(Mcp) /\ started' \in Nat /\ \E f \in Call : calls' = [calls EXCEPT ![Mcp] = f]
    BY <2>1, <2>2, TokenIssued, ArriveStep, AccessAssumption
  <2>4. PICK f \in Call : calls' = [calls EXCEPT ![Mcp] = f]
    BY <2>3
  <2>5. calls' \in [Clients -> Call \cup {None}] /\ \A d \in Clients : d # Mcp => calls'[d] = calls[d]
    BY <2>4, AccessAssumption DEF TypeOK
  <2>6. deployment' = deployment
    BY <2>1 DEF Arrive
  <2> QED BY <2>3, <2>5, <2>6
<1>5. CASE Receive
  <2>1. calls' = [calls EXCEPT ![Mcp] = None] /\ started' = started /\ deployment' = deployment
    BY <1>5 DEF Receive, Update, bounds
  <2> QED BY <2>1 DEF TypeOK
<1>6. CASE CallTool \/ Reply \/ Expire \/ UNCHANGED vars
  <2>1. calls' = calls /\ started' = started /\ deployment' = deployment
    BY <1>6 DEF CallTool, Reply, Expire, vars, bounds
  <2> QED BY <2>1 DEF TypeOK
<1> QED BY <1>1, <1>2, <1>3, <1>4, <1>5, <1>6 DEF Next, HandlerStep

\* An issued credential keeps its kind and its scopes, stays issued, and once
\* out of force never comes back.
LEMMA CredsMove ==
  ASSUME TypeOK, [Next]_vars
  PROVE  /\ CredsShaped'
         /\ \A k \in Creds : creds[k].state # "free" =>
              /\ creds'[k].state # "free"
              /\ creds'[k].kind = creds[k].kind /\ creds'[k].scopes = creds[k].scopes
              /\ ~InForce(k) => ~InForce(k)'
<1> DEFINE Moves ==
      /\ CredsShaped'
      /\ \A k \in Creds : creds[k].state # "free" =>
           /\ creds'[k].state # "free"
           /\ creds'[k].kind = creds[k].kind /\ creds'[k].scopes = creds[k].scopes
           /\ ~InForce(k) => ~InForce(k)'
<1>1. CASE creds' = creds /\ disabled' = disabled
  BY <1>1 DEF TypeOK, CredsShaped, InForce
<1>2. ASSUME NEW c \in Clients, NEW k \in Creds, NEW kind, NEW user, NEW scopes,
             Issue(c, k, kind, user, scopes)
      PROVE  Moves
  BY <1>2 DEF Issue, TypeOK, CredsShaped, InForce
<1>3. ASSUME NEW k, NEW state \in {"revoked", "expired"}, disabled' = disabled,
             creds' = [creds EXCEPT ![k].state = state]
      PROVE  Moves
  <2>1. CASE k \notin Creds
    <3>1. creds' = creds
      BY <1>3, <2>1 DEF TypeOK, CredsShaped
    <3> QED BY <1>1, <1>3, <3>1
  <2>2. CASE k \in Creds
    <3> DEFINE Shape(cred) == [state |-> cred.state, kind |-> cred.kind,
                               user |-> cred.user, scopes |-> cred.scopes]
               g == [Shape(creds[k]) EXCEPT !.state = state]
    <3>1. creds = [j \in Creds |-> Shape(creds[j])]
      BY DEF TypeOK, CredsShaped
    <3>2. \A j \in Creds : creds[j] = Shape(creds[j])
      BY <3>1
    <3>3. creds' = [creds EXCEPT ![k] = [creds[k] EXCEPT !.state = state]]
      BY <1>3
    <3>4. creds' = [j \in Creds |-> IF j = k THEN g ELSE Shape(creds[j])]
      BY <3>1, <3>2, <3>3, <2>2
    <3>5. g.state = state /\ g.kind = creds[k].kind /\ g.user = creds[k].user
          /\ g.scopes = creds[k].scopes /\ g = Shape(g)
      OBVIOUS
    <3>6. \A j \in Creds : /\ creds'[j].state = IF j = k THEN state ELSE creds[j].state
                           /\ creds'[j].kind = creds[j].kind
                           /\ creds'[j].user = creds[j].user
                           /\ creds'[j].scopes = creds[j].scopes
      <4> HIDE DEF g
      <4>1. \A j \in Creds : j # k => creds'[j] = creds[j]
        BY <3>2, <3>4
      <4>2. creds'[k] = g
        BY <2>2, <3>4
      <4>3. creds'[k].state = state /\ creds'[k].kind = creds[k].kind
            /\ creds'[k].user = creds[k].user /\ creds'[k].scopes = creds[k].scopes
        BY <3>5, <4>2
      <4> QED BY <4>1, <4>3
    <3>7. CredsShaped'
      <4>1. \A j \in Creds : creds'[j] = Shape(creds'[j])
        <5> HIDE DEF g
        <5> QED BY <3>2, <3>4, <3>5
      <4>2. creds' = [j \in Creds |-> creds'[j]]
        BY <3>4
      <4> QED BY <4>1, <4>2 DEF CredsShaped
    <3> QED BY <1>3, <3>6, <3>7 DEF InForce
  <2> QED BY <2>1, <2>2
<1>4. ASSUME NEW c \in Clients, Revoke(c) PROVE Moves
  <2>1. PICK k : creds' = [creds EXCEPT ![k].state = "revoked"]
    BY <1>4 DEF Revoke
  <2>2. disabled' = disabled
    BY <1>4 DEF Revoke
  <2> QED BY <2>1, <2>2, <1>3
<1>5. CASE Expire
  <2>1. CASE creds' = creds /\ \E u \in Users : disabled' = disabled \cup {u}
    BY <2>1 DEF TypeOK, CredsShaped, InForce
  <2>2. CASE disabled' = disabled /\ \E k \in Creds : creds' = [creds EXCEPT ![k].state = "expired"]
    BY <2>2, <1>3
  <2> QED BY <1>5, <2>1, <2>2 DEF Expire
<1>6. ASSUME NEW c \in Clients, Session(c) \/ Token(c) \/ AgentToken(c) PROVE Moves
  BY <1>6, <1>2 DEF Session, Token, AgentToken
<1>7. ASSUME NEW c \in Clients,
             HandlerStep(c), ~Revoke(c), ~Session(c), ~Token(c), ~AgentToken(c)
      PROVE  creds' = creds /\ disabled' = disabled
  BY <1>7 DEF HandlerStep, Limit, Authenticate, Actor, Read, Refuse, Write, Record, Finish, Vacant,
         CreateUser, Account, RotateNothing, Log, FlushOnly, Select, Publish, Mark,
         StoreFails, FlushFails, Answer, accounts
<1>8. ASSUME NEW c \in Clients, Begin(c) \/ Vanish(c)
      PROVE  creds' = creds /\ disabled' = disabled
  BY <1>8 DEF Begin, Vanish, Arrive, accounts
<1>9. CASE CallTool \/ Request \/ Receive \/ Reply \/ UNCHANGED vars
  <2>1. creds' = creds /\ disabled' = disabled
    BY <1>9 DEF CallTool, Request, Receive, Reply, Arrive, accounts, vars
  <2> QED BY <2>1, <1>1
<1> QED
  BY <1>1, <1>4, <1>5, <1>6, <1>7, <1>8, <1>9 DEF Next, HandlerStep

\* A committed row stays, with its call; one in the stream stays there, once.
RowsKept ==
  /\ Len(outbox) <= Len(outbox')
  /\ \A i \in DOMAIN outbox :
       /\ outbox'[i].call = outbox[i].call
       /\ stream[i] = 1 => stream'[i] = 1

RowsTyped == outbox \in Seq(Row) /\ stream \in Seq(Nat) /\ Len(stream) = Len(outbox)

\* What a step that adds a row does to the table and the stream.
LEMMA AddRow ==
  ASSUME TypeOK, PublishedOnce, NEW id \in Nat,
         outbox' = Append(outbox, [call |-> id, published |-> FALSE]),
         stream' = Append(stream, 0)
  PROVE  /\ RowsTyped' /\ RowsKept /\ PublishedOnce'
         /\ Waiting' \subseteq Waiting \cup {Len(outbox) + 1}
<1> DEFINE n == Len(outbox)
           new == [call |-> id, published |-> FALSE]
<1>1. new \in Row /\ n \in Nat /\ outbox \in Seq(Row) /\ stream \in Seq(Nat) /\ Len(stream) = n
  BY DEF Row, TypeOK
<1>2. /\ outbox' \in Seq(Row) /\ Len(outbox') = n + 1
      /\ outbox'[n + 1] = new /\ \A i \in 1..n : outbox'[i] = outbox[i]
  BY <1>1
<1>3. /\ stream' \in Seq(Nat) /\ Len(stream') = n + 1
      /\ stream'[n + 1] = 0 /\ \A i \in 1..n : stream'[i] = stream[i]
  BY <1>1
<1>4. DOMAIN outbox = 1..n /\ DOMAIN outbox' = 1..n + 1
  BY <1>1, <1>2
<1>5. RowsKept
  BY <1>1, <1>2, <1>3, <1>4 DEF RowsKept
<1>6. new.published = FALSE
  OBVIOUS
<1>7. PublishedOnce'
  <2> SUFFICES ASSUME NEW i \in 1..n + 1
               PROVE  stream'[i] <= 1 /\ (outbox'[i].published => stream'[i] = 1)
    BY <1>4 DEF PublishedOnce
  <2>1. CASE i \in 1..n
    BY <2>1, <1>2, <1>3, <1>4 DEF PublishedOnce
  <2>2. CASE i = n + 1
    BY <2>2, <1>2, <1>3, <1>6
  <2> QED BY <2>1, <2>2, <1>1
<1>8. Waiting' \subseteq Waiting \cup {n + 1}
  BY <1>1, <1>2, <1>4 DEF Waiting
<1> QED BY <1>2, <1>3, <1>5, <1>7, <1>8 DEF RowsTyped

\* A publication counts a row once; it leaves the others alone.
LEMMA PublishRow ==
  ASSUME TypeOK, PublishedOnce, NEW i \in DOMAIN outbox,
         stream' = Deliver(i), outbox' = outbox
  PROVE  RowsTyped' /\ RowsKept /\ PublishedOnce' /\ stream'[i] = 1
<1>1. DOMAIN outbox = 1..Len(outbox) /\ DOMAIN stream = 1..Len(outbox)
      /\ stream \in [1..Len(outbox) -> Nat] /\ Len(outbox) \in Nat
  BY DEF TypeOK
<1>2. stream[i] <= 1 /\ stream[i] \in Nat
  BY <1>1 DEF PublishedOnce
<1>3. /\ stream' \in [1..Len(outbox) -> Nat] /\ stream'[i] = 1
      /\ \A j \in 1..Len(outbox) : j # i => stream'[j] = stream[j]
  BY <1>1, <1>2 DEF Deliver
<1>4. stream' \in Seq(Nat) /\ Len(stream') = Len(outbox)
  BY <1>1, <1>3
<1> QED
  BY <1>1, <1>3, <1>4 DEF RowsTyped, RowsKept, PublishedOnce, TypeOK

\* A mark touches one row, which is in the stream.
LEMMA MarkRow ==
  ASSUME TypeOK, PublishedOnce, NEW i \in DOMAIN outbox, stream[i] = 1,
         outbox' = [outbox EXCEPT ![i].published = TRUE], stream' = stream
  PROVE  RowsTyped' /\ RowsKept /\ PublishedOnce' /\ Waiting' \subseteq Waiting \ {i}
<1>1. DOMAIN outbox = 1..Len(outbox) /\ outbox \in [1..Len(outbox) -> Row]
      /\ Len(outbox) \in Nat
  BY DEF TypeOK
<1>2. outbox[i] \in Row
  BY <1>1
<1> DEFINE marked == [outbox[i] EXCEPT !.published = TRUE]
<1>3. marked \in Row /\ marked.call = outbox[i].call /\ marked.published
  BY <1>2 DEF Row
<1>4. outbox' = [outbox EXCEPT ![i] = marked]
  OBVIOUS
<1> HIDE DEF marked
<1>5. /\ outbox' \in [1..Len(outbox) -> Row] /\ outbox'[i] = marked
      /\ \A j \in 1..Len(outbox) : j # i => outbox'[j] = outbox[j]
  BY <1>1, <1>3, <1>4
<1>6. outbox' \in Seq(Row) /\ Len(outbox') = Len(outbox) /\ DOMAIN outbox' = 1..Len(outbox)
  BY <1>1, <1>5
<1>7. RowsTyped' /\ RowsKept
  BY <1>1, <1>3, <1>5, <1>6 DEF RowsTyped, RowsKept, TypeOK
<1>8. PublishedOnce'
  BY <1>1, <1>5, <1>6 DEF PublishedOnce
<1>9. Waiting' \subseteq Waiting \ {i}
  BY <1>1, <1>3, <1>5, <1>6 DEF Waiting
<1> QED BY <1>7, <1>8, <1>9

\* Steps of a handler that neither add rows nor handle any.
QuietStep(c) ==
  \/ Authenticate(c) \/ Actor(c) \/ Read(c) \/ Refuse(c) \/ Write(c) \/ Finish(c)
  \/ Vacant(c) \/ CreateUser(c) \/ Account(c) \/ Session(c) \/ Token(c) \/ AgentToken(c) \/ Revoke(c)
  \/ RotateNothing(c) \/ FlushOnly(c) \/ StoreFails(c)
  \/ Record(c) /\ UNCHANGED trail

\* They leave a call's rows in its hands, and a flush that is due stays due.
LEMMA QuietKeeps ==
  ASSUME TypeOK, NEW c \in Clients, QuietStep(c)
  PROVE  /\ UNCHANGED trail /\ calls[c] # None /\ calls[c].flush = <<>>
         /\ calls'[c].flush = calls[c].flush /\ calls'[c].sent = calls[c].sent
         /\ calls[c].due => calls'[c].due
<1> DEFINE call == calls[c]
           Holds(f) == f.flush = call.flush /\ f.sent = call.sent /\ (call.due => f.due)
<1>1. call # None /\ UNCHANGED trail /\ call.flush = <<>>
  BY DEF QuietStep, Authenticate, Actor, Read, Refuse, Write, Record, Finish, Vacant, CreateUser,
         Account, Session, Token, AgentToken, Revoke, RotateNothing, FlushOnly,
         StoreFails, At, Running, Quiet, Answer, Issue
<1>2. call \in Call
  BY <1>1 DEF TypeOK
<1>3. ASSUME NEW f, Update(c, f), Holds(f)
      PROVE  calls'[c].flush = call.flush /\ calls'[c].sent = call.sent
             /\ (call.due => calls'[c].due)
  <2>1. calls'[c] = f
    BY <1>3 DEF Update, TypeOK
  <2> QED BY <2>1, <1>3
<1>4. /\ Holds(Next1(call)) /\ Holds([Next1(call) EXCEPT !.changed = TRUE])
      /\ Holds([Next1(call) EXCEPT !.lost = TRUE]) /\ Holds([Next1(call) EXCEPT !.due = TRUE])
      /\ \A u : /\ Holds([Next1(call) EXCEPT !.subject = u, !.changed = TRUE])
                /\ Holds([Next1(call) EXCEPT !.subject = u])
                /\ Holds([call EXCEPT !.answer = u])
                /\ Holds([call EXCEPT !.answer = u, !.lost = TRUE])
  BY <1>2 DEF Call, Next1
<1>5. ASSUME NEW a, Answer(c, a)
      PROVE  \E f : Update(c, f) /\ Holds(f)
  BY <1>4, <1>5 DEF Answer
<1>6. ASSUME NEW k, NEW kind, NEW user, NEW scopes, Issue(c, k, kind, user, scopes)
      PROVE  \E f : Update(c, f) /\ Holds(f)
  BY <1>4, <1>6 DEF Issue
<1>7. CASE Session(c) \/ Token(c) \/ AgentToken(c)
  <2>1. \E f : Update(c, f) /\ Holds(f)
    BY <1>6, <1>7 DEF Session, Token, AgentToken
  <2> QED BY <1>1, <1>3, <2>1
<1>8. CASE Authenticate(c) \/ Actor(c) \/ Refuse(c) \/ Finish(c)
  <2>1. \E f : Update(c, f) /\ Holds(f)
    BY <1>4, <1>5, <1>8 DEF Authenticate, Actor, Refuse, Finish
  <2> QED BY <1>1, <1>3, <2>1
<1>9. CASE Read(c) \/ Write(c) \/ Vacant(c) \/ CreateUser(c) \/ Account(c) \/ Revoke(c)
           \/ RotateNothing(c) \/ FlushOnly(c) \/ StoreFails(c) \/ Record(c)
  <2>1. \E f : Update(c, f) /\ Holds(f)
    BY <1>4, <1>9 DEF Read, Write, Vacant, CreateUser, Account, Revoke, RotateNothing,
                      FlushOnly, StoreFails, Record
  <2> QED
    <3> HIDE DEF Holds
    <3>1. PICK f : Update(c, f) /\ Holds(f)
      BY <2>1
    <3> QED BY <1>1, <1>3, <3>1
<1> QED BY <1>7, <1>8, <1>9 DEF QuietStep
\* Somebody flushes, or has the row in hand.
HeldBy(c, i) == calls[c] # None /\ (calls[c].due \/ i \in Range(calls[c].flush))

\* A row the others hold they go on holding.
LEMMA OthersHold ==
  ASSUME TypeOK, NEW c \in Clients, NEW f, calls' = [calls EXCEPT ![c] = f],
         NEW i, NEW d \in Clients, HeldBy(d, i), d # c
  PROVE  HeldBy(d, i)'
<1>1. calls'[d] = calls[d]
  BY DEF TypeOK
<1> QED BY <1>1 DEF HeldBy

\* A sequence's members are its head and its tail's.
LEMMA TailRange ==
  ASSUME NEW s \in Seq(Nat \ {0}), s # <<>>
  PROVE  /\ Range(Tail(s)) \subseteq Range(s) /\ Head(s) \in Range(s)
         /\ Range(s) \subseteq {Head(s)} \cup Range(Tail(s))
<1>1. Len(s) \in Nat /\ Len(s) > 0 /\ DOMAIN s = 1..Len(s) /\ Head(s) = s[1]
  OBVIOUS
<1>2. DOMAIN Tail(s) = 1..Len(s) - 1 /\ \A i \in 1..Len(s) - 1 : Tail(s)[i] = s[i + 1]
  BY <1>1
<1>3. Head(s) \in Range(s)
  BY <1>1 DEF Range
<1>4. Range(Tail(s)) \subseteq Range(s)
  <2> SUFFICES ASSUME NEW i \in 1..Len(s) - 1 PROVE Tail(s)[i] \in Range(s)
    BY <1>2 DEF Range
  <2>1. i + 1 \in 1..Len(s)
    BY <1>1
  <2> QED BY <2>1, <1>1, <1>2 DEF Range
<1>5. Range(s) \subseteq {Head(s)} \cup Range(Tail(s))
  <2> SUFFICES ASSUME NEW i \in 1..Len(s), i # 1 PROVE s[i] \in Range(Tail(s))
    BY <1>1 DEF Range
  <2>1. i - 1 \in 1..Len(s) - 1 /\ Tail(s)[i - 1] = s[i]
    BY <1>1, <1>2
  <2> QED BY <2>1, <1>2 DEF Range
<1> QED BY <1>3, <1>4, <1>5

\* A step of a handler: what it does to the rows, to what its call holds of
\* them, and that no row is left to nobody.
LEMMA RowStep ==
  ASSUME TypeOK, RowsDelivered, NEW c \in Clients, HandlerStep(c),
         \A d \in Clients : calls[d] # None => Flushing(d)
  PROVE  /\ RowsTyped' /\ RowsKept /\ PublishedOnce'
         /\ Flushing(c)' /\ NoRowForgotten'
<1> DEFINE call == calls[c]
           n == Len(outbox)
<1>1. Goes(c) /\ \E f \in Call : calls' = [calls EXCEPT ![c] = f]
  BY HandlerGoes
<1>2. PICK f \in Call : calls' = [calls EXCEPT ![c] = f]
  BY <1>1
<1>3. call # None /\ call \in Call /\ calls'[c] = f /\ calls'[c] # None
  BY <1>1, <1>2, AccessAssumption DEF Goes, TypeOK
<1>4. /\ n \in Nat /\ DOMAIN outbox = 1..n
      /\ call.flush \in Seq(Nat \ {0}) /\ call.id \in Nat
  BY <1>3 DEF TypeOK, Call
<1>5. Range(call.flush) \subseteq DOMAIN outbox
      /\ (call.sent => call.flush # <<>> /\ stream[Head(call.flush)] = 1)
      /\ (call.due => call.flush = <<>>)
  BY <1>3 DEF Flushing
<1>6. PublishedOnce /\ NoRowForgotten
  BY DEF RowsDelivered
<1>7. \A i \in Waiting : i \in left \/ \E d \in Clients : HeldBy(d, i)
  BY <1>6 DEF NoRowForgotten, HeldBy
<1>8. ASSUME \A i \in Waiting' : i \in left' \/ \E d \in Clients : HeldBy(d, i)'
      PROVE  NoRowForgotten'
  BY <1>8 DEF NoRowForgotten, HeldBy
<1>9. ASSUME outbox' = outbox, stream' = stream
      PROVE  RowsTyped' /\ RowsKept /\ PublishedOnce' /\ Waiting' = Waiting
  BY <1>4, <1>6, <1>9 DEF RowsTyped, RowsKept, TypeOK, PublishedOnce, Waiting
<1>10. ASSUME NEW id \in Nat,
              outbox' = Append(outbox, [call |-> id, published |-> FALSE]),
              stream' = Append(stream, 0)
       PROVE  /\ RowsTyped' /\ RowsKept /\ PublishedOnce'
              /\ Waiting' \subseteq Waiting \cup {n + 1} /\ DOMAIN outbox \subseteq DOMAIN outbox'
              /\ call.flush = calls'[c].flush /\ call.sent = calls'[c].sent /\ call.flush = <<>>
                   => Flushing(c)'
  <2>1. /\ RowsTyped' /\ RowsKept /\ PublishedOnce'
        /\ Waiting' \subseteq Waiting \cup {n + 1}
    BY <1>6, <1>10, AddRow
  <2>2. DOMAIN outbox \subseteq DOMAIN outbox'
    BY <2>1, <1>4 DEF RowsTyped, RowsKept
  <2>3. call.flush # <<>> => Head(call.flush) \in DOMAIN outbox
    BY <1>4, <1>5, TailRange
  <2>4. call.flush = calls'[c].flush /\ call.sent = calls'[c].sent /\ call.flush = <<>>
           => Flushing(c)'
    BY <1>5, <2>1, <2>2, <2>3 DEF Flushing, RowsKept
  <2> QED BY <2>1, <2>2, <2>4
<1>11. CASE QuietStep(c)
  <2>1. /\ UNCHANGED trail /\ call.flush = <<>>
        /\ calls'[c].flush = call.flush /\ calls'[c].sent = call.sent
        /\ call.due => calls'[c].due
    BY <1>11, QuietKeeps
  <2>2. outbox' = outbox /\ stream' = stream /\ left' = left
    BY <2>1 DEF trail
  <2>3. Flushing(c)'
    BY <1>5, <2>1, <2>2 DEF Flushing
  <2>4. \A i : HeldBy(c, i) => HeldBy(c, i)'
    BY <1>3, <2>1 DEF HeldBy
  <2>5. NoRowForgotten'
    BY <1>2, <1>7, <1>8, <1>9, <2>2, <2>4, OthersHold
  <2> QED BY <1>9, <2>2, <2>3, <2>5
<1>12. CASE Record(c) /\ outbox' = Append(outbox, [call |-> call.id, published |-> FALSE])
            /\ stream' = Append(stream, 0) /\ left' = left \cup {n + 1}
            /\ Update(c, [Next1(call) EXCEPT !.changed = TRUE])
  <2>1. calls'[c] = [Next1(call) EXCEPT !.changed = TRUE]
    BY <1>12 DEF Update, TypeOK
  <2>2. calls'[c].flush = call.flush /\ calls'[c].sent = call.sent /\ calls'[c].due = call.due
        /\ call.flush = <<>>
    BY <1>3, <1>12, <2>1 DEF Next1, Call, Record, At, Running, Quiet
  <2>3. \A i : HeldBy(c, i) => HeldBy(c, i)'
    BY <1>3, <2>2 DEF HeldBy
  <2>4. \A i \in Waiting : i \in left' \/ \E d \in Clients : HeldBy(d, i)'
    BY <1>2, <1>7, <1>12, <2>3, OthersHold
  <2>5. \A i \in Waiting' : i \in left' \/ \E d \in Clients : HeldBy(d, i)'
    BY <1>4, <1>10, <1>12, <2>4
  <2> QED BY <1>4, <1>8, <1>10, <1>12, <2>2, <2>5
<1>13. CASE Log(c) \/ Limit(c)
  <2>1. /\ outbox' = Append(outbox, [call |-> call.id, published |-> FALSE])
        /\ stream' = Append(stream, 0)
    BY <1>13 DEF Log, Limit
  <2>2. calls'[c].flush = call.flush /\ calls'[c].sent = call.sent /\ calls'[c].due
        /\ call.flush = <<>>
    <3>1. calls'[c] = [Next1(call) EXCEPT !.due = TRUE]
          \/ calls'[c] = [call EXCEPT !.answer = "limited", !.due = TRUE]
      BY <1>13 DEF Log, Limit, Update, TypeOK
    <3>2. call.flush = <<>>
      BY <1>13 DEF Log, Limit, At, Running, Quiet
    <3> QED BY <1>3, <3>1, <3>2 DEF Next1, Call
  <2>3. \A i : HeldBy(c, i)'
    BY <1>3, <2>2 DEF HeldBy
  <2> QED BY <1>4, <1>8, <1>10, <2>1, <2>2, <2>3
<1>14. CASE Select(c)
  <2>1. PICK skipped \in SUBSET (Marking(c) \cap Waiting) :
          /\ Update(c, [call EXCEPT
               !.due = FALSE, !.flush = Oldest(Waiting \ skipped, deployment.batch)])
          /\ left' = (left \cup (Waiting \ skipped)) \ Range(Oldest(Waiting \ skipped, deployment.batch))
    BY <1>14 DEF Select
  <2> DEFINE found == Waiting \ skipped
             chosen == Oldest(found, deployment.batch)
  <2>2. chosen \in Seq(Nat \ {0}) /\ Range(chosen) \subseteq found
    <3>1. deployment.batch \in Nat \ {0}
      BY DeploymentAssumption DEF TypeOK
    <3>2. found \in SUBSET Waiting
      OBVIOUS
    <3> QED BY <3>1, <3>2, RowsWaiting, OldestTakes
  <2>3. outbox' = outbox /\ stream' = stream
    BY <1>14 DEF Select
  <2> HIDE DEF chosen
  <2>4. calls'[c] = [call EXCEPT !.due = FALSE, !.flush = chosen]
    BY <2>1 DEF Update, TypeOK, chosen
  <2>5. calls'[c].flush = chosen /\ ~calls'[c].due /\ ~calls'[c].sent
    <3>1. ~call.sent
      BY <1>5, <1>14 DEF Select
    <3> QED BY <1>3, <2>4, <3>1 DEF Call
  <2>6. Flushing(c)'
    BY <2>2, <2>3, <2>5 DEF Flushing, Waiting
  <2>7. ASSUME NEW i \in Waiting PROVE i \in left' \/ \E d \in Clients : HeldBy(d, i)'
    <3>1. CASE i \in Range(chosen)
      BY <1>3, <2>5, <3>1 DEF HeldBy
    <3>2. CASE i \in found /\ i \notin Range(chosen)
      BY <2>1, <3>2 DEF chosen
    <3>3. CASE i \in skipped
      <4>1. PICK d \in Clients \ {c} : calls[d] # None /\ calls[d].sent /\ i = Head(calls[d].flush)
        BY <3>3 DEF Marking
      <4>2. calls[d].flush # <<>> /\ calls[d].flush \in Seq(Nat \ {0})
        BY <4>1 DEF Flushing, TypeOK, Call
      <4>3. HeldBy(d, i)
        BY <4>1, <4>2, TailRange DEF HeldBy
      <4> QED BY <4>1, <4>3, <1>2, OthersHold
    <3> QED BY <3>1, <3>2, <3>3
  <2> QED BY <1>8, <1>9, <2>3, <2>6, <2>7
<1>15. CASE Publish(c)
  <2> DEFINE i == Head(call.flush)
  <2>1. call.flush # <<>> /\ stream' = Deliver(i) /\ outbox' = outbox /\ left' = left
    BY <1>15 DEF Publish
  <2>2. i \in DOMAIN outbox
    BY <1>4, <1>5, <2>1, TailRange
  <2>3. RowsTyped' /\ RowsKept /\ PublishedOnce' /\ stream'[i] = 1
    BY <1>6, <2>1, <2>2, PublishRow
  <2>4. calls'[c].flush = call.flush /\ calls'[c].due = call.due /\ calls'[c].sent
    <3>1. calls'[c] = [call EXCEPT !.sent = TRUE]
      BY <1>15 DEF Publish, Update, TypeOK
    <3> QED BY <1>3, <3>1 DEF Call
  <2>5. Flushing(c)'
    BY <1>5, <2>1, <2>3, <2>4 DEF Flushing
  <2>6. \A j : HeldBy(c, j) => HeldBy(c, j)'
    BY <1>3, <2>4 DEF HeldBy
  <2>7. Waiting' = Waiting
    BY <2>1 DEF Waiting
  <2> QED BY <1>2, <1>7, <1>8, <2>1, <2>3, <2>5, <2>6, <2>7, OthersHold
<1>16. CASE Mark(c)
  <2> DEFINE i == Head(call.flush)
  <2>1. /\ call.sent /\ outbox' = [outbox EXCEPT ![i].published = TRUE]
        /\ stream' = stream /\ left' = left
    BY <1>16 DEF Mark
  <2>2. call.flush # <<>> /\ stream[i] = 1 /\ i \in DOMAIN outbox
    BY <1>4, <1>5, <2>1, TailRange
  <2>3. RowsTyped' /\ RowsKept /\ PublishedOnce' /\ Waiting' \subseteq Waiting \ {i}
    BY <1>6, <2>1, <2>2, MarkRow
  <2>4. calls'[c].flush = Tail(call.flush) /\ calls'[c].due = call.due /\ ~calls'[c].sent
    <3>1. calls'[c] = [call EXCEPT !.flush = Tail(@), !.sent = FALSE]
      BY <1>16 DEF Mark, Update, TypeOK
    <3> QED BY <1>3, <3>1 DEF Call
  <2>5. Flushing(c)'
    <3>1. Range(Tail(call.flush)) \subseteq DOMAIN outbox /\ ~call.due
      BY <1>4, <1>5, <2>2, TailRange
    <3>2. DOMAIN outbox \subseteq DOMAIN outbox'
      BY <2>1
    <3> QED BY <2>4, <3>1, <3>2 DEF Flushing
  <2>6. \A j : j # i /\ HeldBy(c, j) => HeldBy(c, j)'
    BY <1>3, <1>4, <2>2, <2>4, TailRange DEF HeldBy
  <2> QED BY <1>2, <1>7, <1>8, <2>1, <2>3, <2>5, <2>6, OthersHold
<1>17. CASE FlushFails(c)
  <2>1. outbox' = outbox /\ stream' = stream /\ left \subseteq left'
    BY <1>17 DEF FlushFails
  <2>2. CASE call.due /\ left' = left \cup Waiting /\ Update(c, [call EXCEPT !.due = FALSE])
    <3>1. calls'[c] = [call EXCEPT !.due = FALSE]
      BY <2>2 DEF Update, TypeOK
    <3>2. calls'[c].flush = call.flush /\ calls'[c].sent = call.sent /\ ~calls'[c].due
      BY <1>3, <3>1 DEF Call
    <3>3. Flushing(c)'
      BY <1>5, <2>1, <3>2 DEF Flushing
    <3> QED BY <1>8, <1>9, <2>1, <2>2, <3>3
  <2>3. CASE call.flush # <<>> /\ ~call.sent /\ left' = left \cup {Head(call.flush)}
             /\ Update(c, [call EXCEPT !.flush = Tail(@)])
    <3>1. calls'[c] = [call EXCEPT !.flush = Tail(@)]
      BY <2>3 DEF Update, TypeOK
    <3>2. calls'[c].flush = Tail(call.flush) /\ calls'[c].due = call.due /\ ~calls'[c].sent
      BY <1>3, <2>3, <3>1 DEF Call
    <3>3. Flushing(c)'
      BY <1>4, <1>5, <2>1, <2>3, <3>2, TailRange DEF Flushing
    <3>4. \A j : j # Head(call.flush) /\ HeldBy(c, j) => HeldBy(c, j)'
      BY <1>3, <1>4, <2>3, <3>2, TailRange DEF HeldBy
    <3> QED BY <1>2, <1>7, <1>8, <1>9, <2>1, <2>3, <3>3, <3>4, OthersHold
  <2>4. CASE call.sent /\ left' = left \cup Range(call.flush)
             /\ Update(c, [call EXCEPT !.flush = <<>>, !.sent = FALSE])
    <3>1. calls'[c] = [call EXCEPT !.flush = <<>>, !.sent = FALSE]
      BY <2>4 DEF Update, TypeOK
    <3>2. calls'[c].flush = <<>> /\ calls'[c].due = call.due /\ ~calls'[c].sent
      BY <1>3, <3>1 DEF Call
    <3>3. Flushing(c)'
      BY <3>2 DEF Flushing, Range
    <3>4. \A j : j \notin Range(call.flush) /\ HeldBy(c, j) => HeldBy(c, j)'
      BY <1>3, <3>2 DEF HeldBy
    <3> QED BY <1>2, <1>7, <1>8, <1>9, <2>1, <2>4, <3>3, <3>4, OthersHold
  <2> QED BY <1>17, <2>2, <2>3, <2>4 DEF FlushFails
<1> QED
  BY <1>11, <1>12, <1>13, <1>14, <1>15, <1>16, <1>17
  DEF HandlerStep, QuietStep, Record, trail

\* The rows a call goes on holding stay rows while rows are kept.
LEMMA StillFlushing ==
  ASSUME TypeOK, RowsTyped', RowsKept, NEW d \in Clients,
         calls[d] # None, Flushing(d), calls'[d] = calls[d]
  PROVE  Flushing(d)'
<1>1. calls[d].flush \in Seq(Nat \ {0})
  BY DEF TypeOK, Call
<1>2. DOMAIN outbox = 1..Len(outbox) /\ DOMAIN outbox' = 1..Len(outbox')
      /\ Len(outbox) \in Nat /\ Len(outbox') \in Nat
  BY DEF TypeOK, RowsTyped
<1>3. DOMAIN outbox \subseteq DOMAIN outbox'
  BY <1>2 DEF RowsKept
<1>4. calls[d].flush # <<>> => Head(calls[d].flush) \in DOMAIN outbox
  BY <1>1, TailRange DEF Flushing
<1> QED BY <1>3, <1>4 DEF Flushing, RowsKept

\* A step that leaves the rows as they are loses none, when whoever held one
\* still does or puts it aside.
LEMMA SameRows ==
  ASSUME TypeOK, RowsDelivered, \A d \in Clients : calls[d] # None => Flushing(d),
         outbox' = outbox, stream' = stream, left \subseteq left',
         \A d \in Clients : \/ calls'[d] = calls[d] \/ calls'[d] = None \/ Arrived(d),
         \A d \in Clients : \A i \in Waiting : HeldBy(d, i) => HeldBy(d, i)' \/ i \in left'
  PROVE  /\ RowsTyped' /\ RowsKept /\ RowsDelivered'
         /\ \A d \in Clients : calls'[d] # None => Flushing(d)'
<1>1. RowsTyped' /\ RowsKept /\ PublishedOnce' /\ Waiting' = Waiting
  BY DEF RowsTyped, RowsKept, TypeOK, PublishedOnce, RowsDelivered, Waiting
<1>2. NoRowForgotten'
  <2>1. \A i \in Waiting : i \in left \/ \E d \in Clients : HeldBy(d, i)
    BY DEF RowsDelivered, NoRowForgotten, HeldBy
  <2>2. \A i \in Waiting' : i \in left' \/ \E d \in Clients : HeldBy(d, i)'
    BY <1>1, <2>1
  <2> QED BY <2>2 DEF NoRowForgotten, HeldBy
<1>3. ASSUME NEW d \in Clients, calls'[d] # None PROVE Flushing(d)'
  <2>1. CASE calls'[d] = calls[d]
    BY <1>1, <1>3, <2>1, StillFlushing
  <2>2. CASE Arrived(d)
    BY <2>2 DEF Arrived, Flushing, Range
  <2> QED BY <1>3, <2>1, <2>2
<1> QED BY <1>1, <1>2, <1>3 DEF RowsDelivered

\* No step loses a row, or puts one into the stream twice.
LEMMA RowsMove ==
  ASSUME IInv, [Next]_vars
  PROVE  /\ RowsTyped' /\ RowsKept /\ RowsDelivered'
         /\ \A d \in Clients : calls'[d] # None => Flushing(d)'
<1> DEFINE Good == /\ RowsTyped' /\ RowsKept /\ RowsDelivered'
                   /\ \A d \in Clients : calls'[d] # None => Flushing(d)'
<1>1. TypeOK /\ TokensKept /\ McpInHand /\ RowsDelivered
      /\ \A d \in Clients : calls[d] # None => Flushing(d)
  BY DEF IInv
<1>2. ASSUME NEW c \in Clients, HandlerStep(c) PROVE Good
  <2>1. RowsTyped' /\ RowsKept /\ PublishedOnce' /\ Flushing(c)' /\ NoRowForgotten'
    BY <1>1, <1>2, RowStep
  <2>2. PICK f \in Call : calls' = [calls EXCEPT ![c] = f]
    BY <1>1, <1>2, HandlerGoes
  <2>3. ASSUME NEW d \in Clients, calls'[d] # None, d # c PROVE Flushing(d)'
    <3>1. calls'[d] = calls[d]
      BY <1>1, <2>2, <2>3 DEF TypeOK
    <3> QED BY <1>1, <2>1, <2>3, <3>1, StillFlushing
  <2> QED BY <2>1, <2>3 DEF RowsDelivered
<1>3. ASSUME NEW c \in Clients, NEW r, NEW k, Arrive(c, r, k), calls[c] = None \/ Quiet(c),
             Arrived(c)
      PROVE  Good
  <2>1. outbox' = outbox /\ stream' = stream /\ left' = left
    BY <1>3 DEF Arrive, trail
  <2>2. \A d \in Clients : d # c => calls'[d] = calls[d]
    BY <1>1, <1>3 DEF Arrive, TypeOK
  <2>3. \A i : ~HeldBy(c, i)
    BY <1>3 DEF HeldBy, Quiet, Range
  <2>4. \A d \in Clients : \A i \in Waiting : HeldBy(d, i) => HeldBy(d, i)'
    BY <2>2, <2>3 DEF HeldBy
  <2> QED BY <1>1, <1>3, <2>1, <2>2, <2>4, SameRows
<1>4. ASSUME NEW c \in Clients, Begin(c) PROVE Good
  <2>1. PICK use \in deployment.calls[c] :
          (use[2] # None => creds[use[2]].state # "free") /\ Arrive(c, use[1], use[2])
    BY <1>4 DEF Begin
  <2>2. c # Mcp /\ (calls[c] = None \/ Quiet(c))
    BY <1>4 DEF Begin
  <2>3. use[1] \in DOMAIN Routes /\ use[2] \in Creds \cup {None}
    BY <1>1, <2>1, <2>2, DeploymentAssumption DEF TypeOK
  <2>4. Arrived(c)
    BY <1>1, <2>1, <2>3, ArriveStep
  <2> QED BY <1>3, <2>1, <2>2, <2>4
<1>5. CASE Request
  <2>1. PICK r \in mcp.todo : Arrive(Mcp, r, TokenOf(mcp.tool))
    BY <1>5 DEF Request
  <2>2. mcp # None /\ calls[Mcp] = None
    BY <1>5 DEF Request
  <2>3. Arrived(Mcp)
    BY <1>1, <2>1, <2>2, TokenIssued, ArriveStep, AccessAssumption
  <2> QED BY <1>3, <2>1, <2>2, <2>3, AccessAssumption
<1>6. ASSUME NEW c \in Clients, calls' = [calls EXCEPT ![c] = None],
             outbox' = outbox, stream' = stream, left \subseteq left',
             \A i \in Waiting : HeldBy(c, i) => i \in left'
      PROVE  Good
  <2>1. \A d \in Clients : d # c => calls'[d] = calls[d]
    BY <1>1, <1>6 DEF TypeOK
  <2>2. calls'[c] = None
    BY <1>1, <1>6 DEF TypeOK
  <2>3. \A d \in Clients : \A i \in Waiting : HeldBy(d, i) => HeldBy(d, i)' \/ i \in left'
    BY <1>6, <2>1 DEF HeldBy
  <2> QED BY <1>1, <1>6, <2>1, <2>2, <2>3, SameRows
<1>7. ASSUME NEW c \in Clients, Vanish(c) PROVE Good
  <2>1. /\ calls' = [calls EXCEPT ![c] = None] /\ outbox' = outbox /\ stream' = stream
        /\ left' = left \cup Range(calls[c].flush) \cup (IF calls[c].due THEN Waiting ELSE {})
    BY <1>7 DEF Vanish, Update
  <2>2. \A i \in Waiting : HeldBy(c, i) => i \in left'
    BY <2>1 DEF HeldBy
  <2> QED BY <1>6, <2>1, <2>2
<1>8. CASE Receive
  <2>1. /\ calls' = [calls EXCEPT ![Mcp] = None] /\ outbox' = outbox /\ stream' = stream
        /\ left' = left /\ Quiet(Mcp)
    BY <1>8 DEF Receive, Update, trail
  <2>2. \A i : ~HeldBy(Mcp, i)
    BY <2>1 DEF HeldBy, Quiet, Range
  <2> QED BY <1>6, <2>1, <2>2, AccessAssumption
<1>9. CASE CallTool \/ Reply \/ Expire \/ UNCHANGED vars
  <2>1. calls' = calls /\ outbox' = outbox /\ stream' = stream /\ left' = left
    BY <1>9 DEF CallTool, Reply, Expire, trail, vars
  <2>2. \A d \in Clients : \A i : HeldBy(d, i) => HeldBy(d, i)'
    BY <2>1 DEF HeldBy
  <2> QED BY <1>1, <2>1, <2>2, SameRows
<1> QED BY <1>2, <1>4, <1>5, <1>7, <1>8, <1>9 DEF Next, HandlerStep
-----------------------------------------------------------------------------
(* The invariant is inductive *)

\* Who is past authentication stays admitted: credentials in use keep their
\* kind and scopes, and none comes back into force.
LEMMA AdmittedStep ==
  ASSUME IInv, [Next]_vars, NEW c \in Clients, calls'[c] # None
  PROVE  Admitted(c)'
<1> DEFINE k == calls'[c].cred
           route == Routes[calls'[c].route]
<1>1. /\ calls'[c] \in Call
      /\ calls'[c] = calls[c] \/ Goes(c) \/ Arrived(c)
  BY CallMoves DEF IInv
<1>2. \A j \in Creds : creds[j].state # "free" =>
        /\ creds'[j].state # "free"
        /\ creds'[j].kind = creds[j].kind /\ creds'[j].scopes = creds[j].scopes
        /\ ~InForce(j) => ~InForce(j)'
  BY CredsMove DEF IInv
<1>3. k \in Creds \cup {None} /\ calls'[c].legit \in BOOLEAN
  BY <1>1 DEF Call
<1>4. SUFFICES
        /\ k # None => creds[k].state # "free" /\ (~calls'[c].legit => ~InForce(k))
        /\ calls'[c].at > 0 /\ route.auth # "none" =>
             /\ k # None /\ calls'[c].legit
             /\ creds[k].kind \in Kinds[route.auth]
             /\ route.auth = "agent" => ScopeAllowed(creds[k].scopes, route.needs)
             /\ route.auth = "exact" => ExactScope(creds[k].scopes, route.needs)
  BY <1>2, <1>3 DEF Admitted
<1>5. CASE Arrived(c)
  BY <1>3, <1>5 DEF Arrived
<1>6. CASE calls'[c] = calls[c]
  BY <1>6 DEF IInv, Admitted
<1>7. CASE Goes(c)
  <2>1. /\ calls[c] # None /\ k = calls[c].cred /\ route = Routes[calls[c].route]
        /\ calls'[c].legit = calls[c].legit
    BY <1>7 DEF Goes, SameCall
  <2>2. Admitted(c) /\ calls[c] \in Call
    BY <2>1 DEF IInv, TypeOK
  <2>3. CASE calls[c].at > 0
    BY <2>1, <2>2, <2>3 DEF Admitted
  <2>4. CASE ~(calls[c].at > 0)
    <3>1. Stays(c) => calls'[c].at = calls[c].at
      BY DEF Stays
    <3>2. ~Passes(c)
      <4>1. calls[c].at \in DOMAIN Steps(c) => calls[c].at > 0
        BY <2>2, RoutesAssumption DEF Steps, Call
      <4> QED BY <4>1, <2>4 DEF Passes
    <3>3. CASE Enters(c) /\ route.auth # "none"
      <4>1. Credential(k, route.auth) /\ Permitted(k, route)
        BY <2>1, <3>3 DEF Enters
      <4>2. k # None /\ InForce(k) /\ creds[k].kind \in Kinds[route.auth]
        BY <4>1 DEF Credential
      <4>3. route.auth = "agent" => ScopeAllowed(creds[k].scopes, route.needs)
        BY <4>1 DEF Permitted
      <4>4. route.auth = "exact" => ExactScope(creds[k].scopes, route.needs)
        BY <4>1 DEF Permitted
      <4>5. calls'[c].legit /\ creds[k].state # "free"
        BY <1>3, <2>1, <2>2, <4>2 DEF Admitted
      <4> QED BY <4>2, <4>3, <4>4, <4>5
    <3> QED BY <1>7, <2>1, <2>2, <2>4, <3>1, <3>2, <3>3 DEF Goes, Admitted
  <2> QED BY <2>3, <2>4
<1> QED BY <1>1, <1>5, <1>6, <1>7

\* What a call has passed stays accounted for.
LEMMA TrailedStep ==
  ASSUME IInv, [Next]_vars, NEW c \in Clients, calls'[c] # None
  PROVE  Trailed(c)'
<1>1. /\ calls'[c] \in Call
      /\ calls'[c] = calls[c] \/ Goes(c) \/ Arrived(c)
  BY CallMoves DEF IInv
<1>2. \A id : HasRow(id) => HasRow(id)'
  <2>1. RowsTyped' /\ RowsKept
    BY RowsMove
  <2>2. DOMAIN outbox \subseteq DOMAIN outbox'
    BY <2>1 DEF RowsTyped, RowsKept, IInv, TypeOK
  <2> QED BY <2>1, <2>2 DEF HasRow, RowsKept
<1>3. CASE calls'[c] = calls[c]
  <2>1. Trailed(c) /\ Steps(c)' = Steps(c) /\ Passed(c)' = Passed(c)
    BY <1>1, <1>3 DEF IInv, Steps, Passed
  <2> QED BY <1>2, <1>3, <2>1 DEF Trailed
<1>4. CASE Arrived(c)
  <2>1. Passed(c)' = {}
    <3>1. DOMAIN Steps(c)' \subseteq Nat \ {0}
      BY <1>1, RoutesAssumption DEF Steps, Call
    <3> QED BY <1>4, <3>1 DEF Passed, Arrived
  <2> QED BY <1>4, <2>1, AccessAssumption DEF Trailed, Arrived, Answers
<1>5. CASE Goes(c)
  <2>1. /\ calls[c] # None /\ Steps(c)' = Steps(c) /\ calls'[c].id = calls[c].id
    BY <1>5 DEF Goes, SameCall, Steps
  <2>2. Trailed(c) /\ calls[c] \in Call
    BY <2>1 DEF IInv, TypeOK
  <2>3. DOMAIN Steps(c) \subseteq Nat \ {0}
    BY <2>2, RoutesAssumption DEF Steps, Call
  <2>4. calls[c].at \in Nat
    BY <2>2 DEF Call
  <2>5. CASE Stays(c)
    <3>1. Passed(c)' = Passed(c)
      BY <2>1, <2>5 DEF Passed, Stays
    <3>2. calls'[c].answer = "ok" => calls'[c].at = Len(Steps(c)) + 1
      BY <2>2, <2>5 DEF Trailed, Stays
    <3> QED BY <1>2, <2>1, <2>2, <2>5, <3>1, <3>2 DEF Trailed, Stays
  <2>6. CASE Enters(c)
    <3>1. Passed(c) = {} /\ Passed(c)' = {}
      BY <2>1, <2>3, <2>6 DEF Passed, Enters
    <3>2. ~calls'[c].changed
      BY <2>2, <2>6, <3>1 DEF Trailed, Enters
    <3> QED BY <2>6, <3>1, <3>2, AccessAssumption DEF Trailed, Enters, Answers
  <2>7. CASE Passes(c)
    <3>1. Passed(c)' = Passed(c) \cup {calls[c].at}
      BY <2>1, <2>3, <2>4, <2>7 DEF Passed, Passes
    <3>2. calls'[c].answer # "ok"
      BY <2>7, AccessAssumption DEF Passes, Answers
    <3>3. ASSUME NEW i \in Passed(c)', Steps(c)[i] \in Logging
          PROVE  calls'[c].lost \/ HasRow(calls[c].id)'
      <4>1. CASE i = calls[c].at
        BY <2>7, <3>3, <4>1 DEF Passes
      <4>2. CASE i \in Passed(c)
        BY <1>2, <2>1, <2>2, <2>7, <3>3, <4>2 DEF Trailed, Passes
      <4> QED BY <3>1, <4>1, <4>2
    <3>4. ASSUME calls'[c].changed
          PROVE  \E i \in Passed(c)' : /\ Steps(c)[i] \in Changing
                                       /\ Steps(c)[i] = "record" => HasRow(calls[c].id)'
      <4>1. CASE calls[c].changed
        BY <1>2, <2>1, <2>2, <3>1, <4>1 DEF Trailed
      <4>2. CASE ~calls[c].changed
        BY <2>7, <3>1, <3>4, <4>2 DEF Passes
      <4> QED BY <4>1, <4>2
    <3> QED BY <2>1, <3>2, <3>3, <3>4 DEF Trailed
  <2> QED BY <1>5, <2>5, <2>6, <2>7 DEF Goes
<1> QED BY <1>1, <1>3, <1>4, <1>5

\* The MCP server's tokens keep their scopes.
LEMMA TokensStep ==
  ASSUME IInv, [Next]_vars
  PROVE  TokensKept'
<1>1. deployment' = deployment
  BY CallMoves DEF IInv
<1>2. \A k \in Creds : creds[k].state # "free" =>
        creds'[k].state # "free" /\ creds'[k].scopes = creds[k].scopes
  BY CredsMove DEF IInv
<1> QED BY <1>1, <1>2, AccessAssumption DEF IInv, TokensKept

\* The tool call and its API call stay in step.
LEMMA McpStep ==
  ASSUME IInv, [Next]_vars
  PROVE  McpInHand'
<1>1. /\ TypeOK /\ McpInHand /\ deployment' = deployment
      /\ calls' \in [Clients -> Call \cup {None}]
      /\ \/ calls'[Mcp] = calls[Mcp] \/ calls'[Mcp] = None \/ Goes(Mcp) \/ Arrived(Mcp)
  BY CallMoves, AccessAssumption DEF IInv
<1> DEFINE Held(m) ==
      /\ m \in [tool : deployment.tools, todo : SUBSET DOMAIN Routes, failed : BOOLEAN]
      /\ m.todo \subseteq Tools[m.tool].routes
      /\ ToolGranted(m.tool)
<1>2. mcp # None => Held(mcp)
  BY <1>1 DEF McpInHand
<1>3. \A t : ToolGranted(t)' <=> ToolGranted(t)
  BY <1>1 DEF ToolGranted
<1>4. SUFFICES /\ mcp' # None => Held(mcp')
               /\ calls'[Mcp] # None =>
                    /\ mcp' # None /\ calls'[Mcp].route \in mcp'.todo
                    /\ calls'[Mcp].cred = TokenOf(mcp'.tool)
  BY <1>1, <1>3 DEF McpInHand, TokenOf
<1>5. CASE mcp' = mcp /\ (calls'[Mcp] = calls[Mcp] \/ calls'[Mcp] = None \/ Goes(Mcp))
  <2> HIDE DEF Held
  <2> QED BY <1>1, <1>2, <1>5 DEF McpInHand, Goes, SameCall
<1>6. ASSUME NEW c \in Clients, HandlerStep(c)
      PROVE  mcp' = mcp /\ (calls'[Mcp] = calls[Mcp] \/ Goes(Mcp))
  <2>1. mcp' = mcp
    BY <1>6 DEF HandlerStep, Limit, Authenticate, Actor, Read, Refuse, Write, Record, Finish, Vacant,
         CreateUser, Account, Session, Token, AgentToken, Revoke, RotateNothing, Log,
         FlushOnly, Select, Publish, Mark, StoreFails, FlushFails, Answer, Issue
  <2>2. Goes(c) /\ \E f \in Call : calls' = [calls EXCEPT ![c] = f]
    BY <1>6, HandlerGoes DEF IInv
  <2>3. c # Mcp => calls'[Mcp] = calls[Mcp]
    BY <2>2
  <2> QED BY <2>1, <2>2, <2>3
<1>7. ASSUME NEW c \in Clients, Begin(c)
      PROVE  mcp' = mcp /\ calls'[Mcp] = calls[Mcp]
  BY <1>7 DEF Begin, Arrive
<1>8. ASSUME NEW r, NEW b \in BOOLEAN, mcp # None,
             mcp' = [mcp EXCEPT !.todo = @ \ {r}, !.failed = b]
      PROVE  mcp' # None => Held(mcp')
  BY <1>2, <1>8
<1>9. ASSUME NEW c \in Clients, Vanish(c)
      PROVE  /\ calls'[Mcp] = IF c = Mcp THEN None ELSE calls[Mcp]
             /\ IF c = Mcp THEN mcp' # None => Held(mcp') ELSE mcp' = mcp
  <2>1. /\ calls' = [calls EXCEPT ![c] = None]
        /\ calls[c] # None
        /\ mcp' = IF c = Mcp THEN [mcp EXCEPT !.todo = @ \ {calls[c].route}, !.failed = TRUE]
                             ELSE mcp
    BY <1>9 DEF Vanish, Update
  <2>2. c = Mcp => mcp # None
    BY <1>1, <2>1 DEF McpInHand
  <2>3. c = Mcp => (mcp' # None => Held(mcp'))
    <3> HIDE DEF Held
    <3> QED BY <1>8, <2>1, <2>2
  <2> QED BY <1>1, <2>1, <2>3 DEF TypeOK
<1>10. CASE CallTool
  <2>1. PICK t \in deployment.tools :
          ToolGranted(t) /\ mcp' = [tool |-> t, todo |-> Tools[t].routes, failed |-> FALSE]
    BY <1>10 DEF CallTool
  <2>2. t \in DOMAIN Tools
    BY <1>1, DeploymentAssumption DEF TypeOK
  <2>3. Tools[t].routes \subseteq DOMAIN Routes
    BY <2>2, ToolsAssumption
  <2>4. Held(mcp')
    BY <2>1, <2>3
  <2>5. calls'[Mcp] = None
    BY <1>10 DEF CallTool
  <2> QED BY <2>4, <2>5
<1>11. CASE Request
  <2>1. PICK r \in mcp.todo : Arrive(Mcp, r, TokenOf(mcp.tool))
    BY <1>11 DEF Request
  <2>2. mcp # None /\ mcp' = mcp
    BY <1>11 DEF Request
  <2>3. calls'[Mcp].route = r /\ calls'[Mcp].cred = TokenOf(mcp.tool)
    BY <1>1, <2>1, <2>2, TokenIssued, ArriveStep, AccessAssumption DEF IInv
  <2> QED BY <1>2, <2>1, <2>2, <2>3
<1>12. CASE Receive
  <2>1. /\ calls' = [calls EXCEPT ![Mcp] = None] /\ mcp # None
        /\ mcp' = [mcp EXCEPT !.todo = @ \ {calls[Mcp].route},
                              !.failed = @ \/ calls[Mcp].answer # "ok"]
    BY <1>12 DEF Receive, Update
  <2>2. calls'[Mcp] = None
    BY <1>1, <2>1, AccessAssumption DEF TypeOK
  <2>3. (mcp.failed \/ calls[Mcp].answer # "ok") \in BOOLEAN
    OBVIOUS
  <2>4. mcp' = [mcp EXCEPT !.todo = @ \ {calls[Mcp].route},
                           !.failed = (mcp.failed \/ calls[Mcp].answer # "ok")]
    BY <1>2, <2>1
  <2>5. mcp' # None => Held(mcp')
    BY <1>8, <2>1, <2>3, <2>4
  <2> QED BY <2>2, <2>5
<1>13. CASE Reply
  <2>1. mcp' = None /\ calls'[Mcp] = None
    BY <1>13 DEF Reply
  <2> QED BY <2>1
<1>14. CASE Expire \/ UNCHANGED vars
  <2>1. mcp' = mcp /\ calls' = calls
    BY <1>14 DEF Expire, vars
  <2> QED BY <1>5, <2>1
<1>15. ASSUME NEW c \in Clients, Vanish(c)
       PROVE  /\ mcp' # None => Held(mcp')
              /\ calls'[Mcp] # None =>
                    /\ mcp' # None /\ calls'[Mcp].route \in mcp'.todo
                    /\ calls'[Mcp].cred = TokenOf(mcp'.tool)
  <2> HIDE DEF Held
  <2>1. CASE c = Mcp
    BY <1>9, <1>15, <2>1
  <2>2. CASE c # Mcp
    BY <1>1, <1>2, <1>9, <1>15, <2>2 DEF McpInHand
  <2> QED BY <2>1, <2>2
<1> HIDE DEF Held
<1> QED BY <1>5, <1>6, <1>7, <1>10, <1>11, <1>12, <1>13, <1>14, <1>15 DEF Next, HandlerStep

\* A route of a granted tool admits the tool's token.
LEMMA ToolAdmitted ==
  ASSUME IInv, mcp # None, calls[Mcp] # None
  PROVE  Permitted(calls[Mcp].cred, Routes[calls[Mcp].route])
<1> DEFINE t == mcp.tool
           r == calls[Mcp].route
           needs == Routes[r].needs
<1>1. /\ t \in deployment.tools /\ t \in DOMAIN Tools /\ r \in Tools[t].routes
      /\ calls[Mcp].cred = TokenOf(t) /\ ToolGranted(t)
  BY TokenIssued DEF IInv, McpInHand
<1>2. PICK need \in Tools[t].needs : need # {} /\ need \subseteq needs
  BY <1>1, ToolsAssumption
<1>3. Routes[r].auth = IF Tools[t].learning THEN "exact" ELSE "agent"
  BY <1>1, ToolsAssumption
<1>4. /\ creds[McpToken].scopes = deployment.scopes
      /\ deployment.scopes \cap {"learning:read", "learning:propose"}
            \subseteq creds[LearningToken].scopes
  BY <1>1 DEF IInv, TokensKept
<1>5. CASE Tools[t].learning
  <2>1. need \subseteq deployment.scopes
    BY <1>1, <1>2, <1>5 DEF ToolGranted
  <2>2. need \subseteq {"learning:read", "learning:propose"}
    BY <1>1, <1>2, <1>5, ToolsAssumption
  <2>3. creds[LearningToken].scopes \cap needs # {}
    BY <1>2, <1>4, <2>1, <2>2
  <2>4. calls[Mcp].cred = LearningToken /\ Routes[r].auth = "exact"
    BY <1>1, <1>3, <1>5 DEF TokenOf
  <2> QED BY <2>3, <2>4 DEF Permitted, ExactScope
<1>6. CASE ~Tools[t].learning
  <2>1. need \cap deployment.scopes # {} \/ "read" \in deployment.scopes
    BY <1>1, <1>2, <1>6 DEF ToolGranted
  <2>2. calls[Mcp].cred = McpToken /\ Routes[r].auth = "agent"
    BY <1>1, <1>3, <1>6 DEF TokenOf
  <2> QED BY <1>2, <1>4, <2>1, <2>2 DEF Permitted, ScopeAllowed
<1> QED BY <1>5, <1>6

\* A tool's call passes the Agent API's check of its scope.
LEMMA NotForbiddenStep ==
  ASSUME IInv, [Next]_vars
  PROVE  NotForbidden'
<1> SUFFICES ASSUME calls'[Mcp] # None, calls'[Mcp].answer = "forbidden" PROVE Unknown(Mcp)'
  BY DEF NotForbidden
<1>1. /\ calls'[Mcp] = calls[Mcp] \/ Goes(Mcp) \/ Arrived(Mcp)
      /\ deployment' = deployment
  BY CallMoves, AccessAssumption DEF IInv
<1>2. None # "forbidden"
  BY AccessAssumption DEF Answers
<1>3. calls[Mcp] # None /\ calls[Mcp].answer = "forbidden" => Unknown(Mcp)
  BY DEF IInv, NotForbidden
<1>4. CASE calls'[Mcp] = calls[Mcp]
  BY <1>1, <1>3, <1>4 DEF Unknown, Steps
<1>5. CASE Arrived(Mcp)
  BY <1>2, <1>5 DEF Arrived
<1>6. CASE Goes(Mcp)
  <2>1. calls[Mcp] # None /\ SameCall(Mcp) /\ Stays(Mcp)
    BY <1>2, <1>6 DEF Goes, Enters, Passes
  <2>2. Permitted(calls[Mcp].cred, Routes[calls[Mcp].route])
    BY <2>1, ToolAdmitted DEF IInv, McpInHand
  <2>3. CASE calls[Mcp].answer = "forbidden"
    BY <1>1, <1>3, <2>1, <2>3 DEF Unknown, Steps, SameCall, Stays
  <2>4. CASE calls[Mcp].answer # "forbidden"
    BY <2>1, <2>2, <2>4 DEF Stays
  <2> QED BY <2>3, <2>4
<1> QED BY <1>1, <1>4, <1>5, <1>6

\* The configured credentials, and nothing in flight.
LEMMA InitInv == Init => IInv
<1> SUFFICES ASSUME Init PROVE IInv
  OBVIOUS
<1>1. /\ deployment \in Deployments /\ calls = [c \in Clients |-> None]
      /\ outbox = <<>> /\ stream = <<>> /\ mcp = None /\ started = 0
  BY DEF Init
<1>2. \A k \in Creds :
        deployment.creds[k] \in [state : CredStates, kind : CredKinds \cup {None},
                                 user : Users \cup {None}, scopes : SUBSET AgentScopes]
  BY <1>1, DeploymentAssumption
<1>3. creds = [k \in Creds |->
                 IF k = McpToken
                   THEN [deployment.creds[k] EXCEPT !.scopes = deployment.scopes]
                   ELSE deployment.creds[k]]
  BY DEF Init
<1>4. \A k \in Creds :
        /\ creds[k] = [state |-> creds[k].state, kind |-> creds[k].kind,
                       user |-> creds[k].user, scopes |-> creds[k].scopes]
        /\ creds[k].state = deployment.creds[k].state
        /\ creds[k].scopes = IF k = McpToken THEN deployment.scopes
                                             ELSE deployment.creds[k].scopes
  BY <1>2, <1>3
<1>5. CredsShaped
  BY <1>3, <1>4 DEF CredsShaped
<1>6. TypeOK
  <2>1. outbox \in Seq(Row) /\ stream \in Seq(Nat) /\ Len(stream) = Len(outbox)
    BY <1>1
  <2> QED BY <1>1, <1>5, <2>1 DEF TypeOK
<1>7. TokensKept
  BY <1>1, <1>4, AccessAssumption, DeploymentAssumption DEF TokensKept
<1>8. \A c \in Clients : calls[c] = None
  BY <1>1
<1>9. McpInHand /\ NotForbidden
  BY <1>1, <1>8, AccessAssumption DEF McpInHand, NotForbidden
<1>10. RowsDelivered
  BY <1>1 DEF RowsDelivered, PublishedOnce, NoRowForgotten, Waiting
<1> QED BY <1>6, <1>7, <1>8, <1>9, <1>10 DEF IInv

\* Each conjunct by its own lemma.
LEMMA StepInv == IInv /\ [Next]_vars => IInv'
<1> SUFFICES ASSUME IInv, [Next]_vars PROVE IInv'
  OBVIOUS
<1>1. /\ calls' \in [Clients -> Call \cup {None}]
      /\ started' \in Nat /\ deployment' \in Deployments
  BY CallMoves DEF IInv, TypeOK
<1>2. TypeOK'
  BY <1>1, CredsMove, RowsMove DEF IInv, TypeOK, RowsTyped
<1>3. \A c \in Clients : calls'[c] # None => Admitted(c)' /\ Trailed(c)' /\ Flushing(c)'
  BY AdmittedStep, TrailedStep, RowsMove
<1>4. RowsDelivered'
  BY RowsMove
<1> QED
  BY <1>2, <1>3, <1>4, TokensStep, McpStep, NotForbiddenStep DEF IInv

\* The types of the calls, credentials and rows, and all the conjuncts of IInv,
\* hold in every reachable state.
THEOREM Invariance == Spec => []IInv
<1>1. Init => IInv
  BY InitInv
<1>2. IInv /\ [Next]_vars => IInv'
  BY StepInv
<1> QED BY <1>1, <1>2, PTL DEF Spec

\* What an admitted call's route asked for.
LEMMA AdmittedAuthorised == IInv => Authorised
<1> SUFFICES ASSUME IInv PROVE Authorised
  OBVIOUS
<1>1. RevokedIsRefused
  BY DEF IInv, Admitted, RevokedIsRefused
<1>2. ASSUME NEW c \in Clients, calls[c] # None, calls[c].changed, ByAgent(c)
      PROVE  /\ calls[c].route \in {"propose", "revise", "attach", "review"}
             /\ creds[calls[c].cred].scopes \cap Routes[calls[c].route].needs # {}
  <2> DEFINE r == calls[c].route
             route == Routes[r]
  <2>1. r \in DOMAIN Routes /\ calls[c].at \in Nat
    BY <1>2 DEF IInv, TypeOK, Call
  <2>2. PICK i \in Passed(c) : Steps(c)[i] \in Changing
    BY <1>2 DEF IInv, Trailed
  <2>3. i \in DOMAIN route.steps /\ i > 0 /\ i < calls[c].at /\ i \in Nat
    BY <2>1, <2>2, RoutesAssumption DEF Passed, Steps
  <2>4. Range(route.steps) \cap Changing # {}
    BY <2>2, <2>3 DEF Range, Steps
  <2>5. calls[c].at > 0 /\ route.auth # "none" /\ creds[calls[c].cred].kind = "agent"
    BY <1>2, <2>1, <2>3 DEF ByAgent
  <2>6. /\ creds[calls[c].cred].kind \in Kinds[route.auth]
        /\ route.auth = "exact" => ExactScope(creds[calls[c].cred].scopes, route.needs)
    BY <1>2, <2>5 DEF IInv, Admitted
  <2>7. route.auth \in {"agent", "exact"}
    BY <2>1, <2>5, <2>6, RoutesAssumption DEF Kinds
  <2>8. route.auth = "exact" /\ r \in {"propose", "revise", "attach", "review"}
    BY <2>1, <2>4, <2>7, RoutesAssumption
  <2> QED BY <2>6, <2>8 DEF ExactScope
<1> QED BY <1>1, <1>2 DEF Authorised, AgentsOnlyRead

\* A call answered 200 has passed a step that logs, or recorded its change.
LEMMA TrailedComplete == IInv => TrailComplete
<1> SUFFICES ASSUME IInv, NEW c \in Clients, Done(c, "ok"), ~calls[c].lost,
                    calls[c].changed \/ (ByAgent(c) /\ "record" \notin Range(Steps(c)))
             PROVE  HasRow(calls[c].id)
  BY DEF TrailComplete, HasRow
<1> DEFINE r == calls[c].route
           route == Routes[r]
<1>1. calls[c] # None /\ calls[c].answer = "ok" /\ Admitted(c) /\ Trailed(c)
  BY DEF Done, IInv
<1>2. r \in DOMAIN Routes /\ calls[c].at = Len(Steps(c)) + 1
  BY <1>1 DEF IInv, TypeOK, Call, Trailed
<1>3. Steps(c) \in Seq(STRING) /\ Steps(c) = route.steps
  BY <1>2, RoutesAssumption DEF Steps
<1>4. Passed(c) = DOMAIN Steps(c)
  BY <1>2, <1>3 DEF Passed
<1>5. ASSUME Range(route.steps) \cap Logging # {} PROVE HasRow(calls[c].id)
  <2>1. PICK j \in DOMAIN Steps(c) : Steps(c)[j] \in Logging
    BY <1>3, <1>5 DEF Range
  <2> QED BY <1>1, <1>4, <2>1 DEF Trailed
<1>6. CASE calls[c].changed
  <2>1. PICK i \in DOMAIN Steps(c) : /\ Steps(c)[i] \in Changing
                                     /\ Steps(c)[i] = "record" => HasRow(calls[c].id)
    BY <1>1, <1>4, <1>6 DEF Trailed
  <2>2. CASE Steps(c)[i] = "record"
    BY <2>1, <2>2
  <2>3. CASE Steps(c)[i] # "record"
    <3>1. Range(route.steps) \cap (Changing \ {"record"}) # {}
      BY <1>3, <2>1, <2>3 DEF Range
    <3> QED BY <1>2, <1>5, <3>1, RoutesAssumption
  <2> QED BY <2>2, <2>3
<1>7. CASE ByAgent(c) /\ "record" \notin Range(Steps(c))
  <2>1. calls[c].at > 0 /\ route.auth # "none" /\ creds[calls[c].cred].kind = "agent"
    BY <1>2, <1>3, <1>7 DEF ByAgent
  <2>2. creds[calls[c].cred].kind \in Kinds[route.auth]
    BY <1>1, <2>1 DEF Admitted
  <2>3. route.auth \in {"agent", "exact"}
    BY <1>2, <2>1, <2>2, RoutesAssumption DEF Kinds
  <2> QED BY <1>2, <1>3, <1>5, <1>7, <2>3, RoutesAssumption
<1> QED BY <1>6, <1>7

-----------------------------------------------------------------------------
(* The theorems *)

\* No handler goes past authentication for a request that came in after its
\* credential was out of force, and an agent token changes nothing but learning
\* data, with the exact learning scope: whatever is issued, revoked, expired or
\* disabled while the call runs.
THEOREM AccessAuthorised == Spec => []Authorised
<1>1. IInv => Authorised
  BY AdmittedAuthorised
<1> QED BY <1>1, Invariance, PTL

\* A call of an agent that reads, or of anybody that changes something, has its
\* audit row committed when it is answered 200, unless the store failed to take
\* it, in every handler of the API.
THEOREM AccessTrailComplete == Spec => []TrailComplete
<1>1. IInv => TrailComplete
  BY TrailedComplete
<1> QED BY <1>1, Invariance, PTL

\* However many calls flush the audit outbox at once, with flushes of any size
\* and a failure or an end at any step, a row is in the stream at most once, one
\* marked published is there, and none is left to nobody.
THEOREM AccessRowsDelivered == Spec => []RowsDelivered
<1>1. IInv => RowsDelivered
  BY DEF IInv
<1> QED BY <1>1, Invariance, PTL

\* A 403 to a tool call is the answer to a token that is not onboarded.
LEMMA ForbiddenInLearning == IInv => ToolsServable
<1> SUFFICES ASSUME IInv, calls[Mcp] # None, calls[Mcp].answer = "forbidden"
             PROVE  /\ Routes[calls[Mcp].route].auth = "exact"
                    /\ LearningToken \notin deployment.onboarded \/ calls[Mcp].lost
  BY DEF ToolsServable, Done
<1>1. Unknown(Mcp)
  BY DEF IInv, NotForbidden
<1>2. /\ mcp.tool \in DOMAIN Tools /\ calls[Mcp].route \in Tools[mcp.tool].routes
      /\ calls[Mcp].cred = TokenOf(mcp.tool)
  BY TokenIssued DEF IInv, McpInHand
<1>3. calls[Mcp].route \in DOMAIN Routes
  BY <1>2, ToolsAssumption
<1>4. "actor" \in Range(Steps(Mcp))
  BY <1>1 DEF Unknown, Range
<1>5. Routes[calls[Mcp].route].auth = "exact"
  BY <1>3, <1>4, RoutesAssumption DEF Steps
<1>6. Tools[mcp.tool].learning
  BY <1>2, <1>5, ToolsAssumption
<1> QED BY <1>1, <1>2, <1>5, <1>6 DEF Unknown, TokenOf

\* With any configured scopes, a tool that passed the MCP server's own check is
\* answered 403 by the Agent API for no other reason than a learning token that
\* is not onboarded, or could not be looked up.
THEOREM AccessToolsServable == Spec => []ToolsServable
<1>1. IInv => ToolsServable
  BY ForbiddenInLearning
<1> QED BY <1>1, Invariance, PTL
==============================================================================
