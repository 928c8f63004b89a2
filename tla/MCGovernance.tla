---------------------------- MODULE MCGovernance ----------------------------
(* Instances of Governance for TLC. *)
EXTENDS Governance, TLC

CONSTANTS bot, a1, a2, block, quarantine, c1, c2, e1, e2, d1, d2, src, k1

\* One bridge account and two administrators.
Roles == (bot :> "Operator") @@ (a1 :> "Administrator") @@ (a2 :> "Administrator")

\* Every decision is about the same source and confident enough for a block.
OneSource   == [d \in Decisions |-> src]
BlockScores == [d \in Decisions |-> 95]

\* Requests made by callers, and by the bridge in each of its modes.
Deployment(m, cs, es, us) == [mode |-> m, callers |-> cs, engines |-> es, accounts |-> us]
Calls      == {Deployment("off", {c1, c2}, {}, {bot, a1, a2})}
Proposals  == {Deployment("propose", {}, {e1}, {bot, a1, a2}),
               Deployment("propose", {}, {e1, e2}, {bot})}
Unattended == {Deployment(m, {}, {e1}, {bot, a1, a2}) : m \in {"automatic", "simulate"}}
AllDeployments == Calls \cup Proposals \cup Unattended

Twins == Permutations({c1, c2}) \cup Permutations({e1, e2}) \cup Permutations({a1, a2}) \cup Permutations({d1, d2})
=============================================================================
