----------------------------- MODULE MCProviders -----------------------------
EXTENDS Providers

CONSTANTS w1, w2, drop, ripe, peering, net, as1, old, new

R(kind, key, view) == [kind |-> kind, key |-> key, view |-> view]
Says(rs) == [status |-> "ok", readable |-> TRUE, error |-> FALSE, notice |-> FALSE, rows |-> rs]

(* A list with a comment, then with junk in it; two providers that describe one *)
(* ASN differently, one of them with a second view and with an error page.      *)
Served ==
  [p \in {drop, ripe, peering} |->
     CASE p = drop    -> <<Says({R("prefix", net, None), R("note", None, None)}),
                          Says({R("junk", None, None)})>>
       [] p = ripe    -> <<Says({R("asn", as1, old)}), Says({R("asn", as1, new)})>>
       [] p = peering -> <<Says({R("asn", as1, net)})>>]
Formats == [p \in {drop, ripe, peering} |-> IF p = drop THEN "text" ELSE "asn_json"]
OneFeed == <<drop>>
TwoNetworks == <<ripe, peering>>
==============================================================================
