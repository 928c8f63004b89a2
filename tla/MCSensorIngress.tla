--------------------------- MODULE MCSensorIngress ---------------------------
(* Instances of SensorIngress for TLC. *)
EXTENDS SensorIngress

Line(text, status) ==
  [json |-> TRUE, cursor |-> TRUE, text |-> text, match |-> TRUE, status |-> status, valid |-> TRUE]

\* Three events, but HAProxy's journal begins with an answered request and a line
\* that is not text, before a request without an answer.
ThreeLines ==
  [k \in Kinds |-> IF k = "haproxy" THEN <<Line(TRUE, 200), Line(FALSE, 0), Line(TRUE, -1)>>
                                    ELSE [e \in Entries |-> Line(TRUE, 0)]]

\* The last events share a second.
SharedSecond == [e \in Entries |-> IF e = 1 THEN 1 ELSE 2]
=============================================================================
