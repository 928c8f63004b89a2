------------------------------ MODULE MCAdapters ------------------------------
EXTENDS Adapters

CONSTANTS w1, w2, r1, r2, pseudo

T(fam, mapped, addr, len, alias) ==
  [fam |-> fam, mapped |-> mapped, addr |-> addr, len |-> len, pseudonym |-> alias]
Plan(adapters, target) == [adapters |-> adapters, target |-> target]

Nft(target)     == Plan(<<"nftables">>, target)
HaProxy(target) == Plan(<<"haproxy">>, target)
FanOut(target)  == Plan(<<"goaway", "haproxy_ratelimit">>, target)
Both(p, q)      == r1 :> p @@ r2 :> q

Pair    == T(4, FALSE, 1, 2, None)
Aliased == T(4, FALSE, 1, None, pseudo)
Subnet  == T(6, FALSE, 5, 2, None)

(* The same rule asked for twice, in nftables and in HAProxy, whose removal  *)
(* of a missing key fails; the same address under another fingerprint; a    *)
(* never-block address behind a pseudonym, and within a broader mapped      *)
(* range; a prefix that is too long; a rule of the operator's; a fan-out    *)
(* with go-away.                                                            *)
Requested ==
  {Both(Nft(Pair), Nft(Pair)),
   Both(HaProxy(Subnet), HaProxy(Subnet)),
   Both(Nft(Pair), Nft(Aliased)),
   Both(Nft(Pair), Nft(T(4, FALSE, 3, None, pseudo))),
   Both(Nft(T(6, TRUE, 0, 0, None)), HaProxy(Subnet)),
   Both(Nft(T(6, TRUE, 3, 3, None)), HaProxy(Subnet)),
   Both(HaProxy(T(4, FALSE, 2, None, None)), HaProxy(Subnet)),
   Both(FanOut(T(6, TRUE, 2, None, None)), Nft(Aliased))}

Configured == {{T(4, FALSE, 3, None, None)}, Malformed}

Operators ==
  [n \in Names |-> IF n = "haproxy" THEN {[fam |-> 4, addr |-> 2, len |-> None]} ELSE {}]
==============================================================================
