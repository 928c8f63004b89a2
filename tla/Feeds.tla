--------------------------------- MODULE Feeds ---------------------------------
(***************************************************************************)
(* What an answer of an intelligence provider becomes: fetch, validate and *)
(* normalize of intelligence/src/lib.rs, format by format.  An answer has  *)
(* a status, may be readable (UTF-8, JSON) or not, may say that it is an   *)
(* error or that the list has been merged into another one, and has rows.  *)
(* A row is a prefix, another value, an ASN, a BGP or RPKI record (calm or *)
(* alarming), a comment or metadata, or junk.                              *)
(***************************************************************************)
EXTENDS FiniteSets

Kinds(a) == {r.kind : r \in a.rows}
Of(a, kinds) == {r \in a.rows : r.kind \in kinds}

Fetched(a) == a.status = "ok" /\ (a.rows # {} \/ a.notice)

\* HttpFeedProvider::validate.
ValidJson(a) == a.readable /\ ~a.error
\* Mutant: every line has to be a prefix.
ValidTextStrict(a) == a.readable /\ (Kinds(a) \subseteq {"prefix"} \/ a.notice)
ValidText(a) == a.readable /\ ("prefix" \in Kinds(a) \/ a.notice)
ValidAsnLines(a) ==
  /\ a.readable
  /\ "asn" \in Kinds(a) /\ Kinds(a) \subseteq {"asn", "note"}

\* HttpFeedProvider::normalize: a JSON or text row that says nothing is passed over.
NormalizeJson(a)     == Of(a, {"value", "prefix"})
NormalizeText(a)     == Of(a, {"value", "prefix", "asn"})
NormalizeAsnLines(a) == Of(a, {"asn"})

\* The normalizers of the network providers; validate refuses an empty batch.
NormalizeAsn(a)  == Of(a, {"asn"})
NormalizeBgp(a)  == Of(a, {"bgp", "bgp_changed"})
NormalizeRpki(a) == Of(a, {"rpki", "rpki_invalid"})

\* HackerTarget reports an error as unquoted text; Team Cymru has a header, and one
\* row that is no ASN refuses the whole answer.
HackerTargetOk(a) == ~a.error
CymruOk(a)        == ~a.error /\ Kinds(a) \subseteq {"asn"}

Batch(format, a) ==
  CASE format = "json"      -> NormalizeJson(a)
    [] format = "text"      -> NormalizeText(a)
    [] format = "asn_lines" -> NormalizeAsnLines(a)
    [] format = "bgp_json"  -> NormalizeBgp(a)
    [] format = "rpki_json" -> NormalizeRpki(a)
    [] OTHER                -> NormalizeAsn(a)

ValidNetwork(format, a) ==
  /\ a.readable
  /\ format = "hackertarget" => HackerTargetOk(a)
  /\ format = "cymru" => CymruOk(a)
  /\ Batch(format, a) # {}

Accepted(format, a) ==
  /\ Fetched(a)
  /\ CASE format = "json"      -> ValidJson(a)
       [] format = "text"      -> ValidText(a)
       [] format = "asn_lines" -> ValidAsnLines(a)
       [] OTHER                -> ValidNetwork(format, a)
================================================================================
