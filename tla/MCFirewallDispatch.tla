------------------------- MODULE MCFirewallDispatch -------------------------
(* Instances of FirewallDispatch for TLC. *)
EXTENDS FirewallDispatch, TLC

CONSTANTS w1, w2, r1, r2, nft, hap, g1, g2, g3, g4, k1

\* One request for one nftables rule, and one kill request for that rule.
OnePlan      == (r1 :> {nft})
OneMandatory == (r1 :> nft)
OneKill      == (k1 :> nft)

\* The same with a HAProxy rule, which never expires by itself.
HapPlan      == (r1 :> {hap})
HapMandatory == (r1 :> hap)
HapKill      == (k1 :> hap)

\* A firewall.* fan-out over both adapters.
FanPlan      == (r1 :> {nft, hap})
NoKill       == [k \in {} |-> nft]

\* Two requests for the same rule.
TwinPlan      == (r1 :> {nft}) @@ (r2 :> {nft})
TwinMandatory == (r1 :> nft) @@ (r2 :> nft)

WorkersAndGens == Permutations({w1, w2}) \cup Permutations({g1, g2, g3, g4})
=============================================================================
