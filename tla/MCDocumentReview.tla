--------------------------- MODULE MCDocumentReview ---------------------------
(* Small instances of DocumentReview for TLC. *)
EXTENDS DocumentReview, TLC

CONSTANTS d1, d2, q1, q2, q3

\* A document without a field, one that passes, one whose checksum is unknown,
\* one that failed a check.
Legible == {"name", "dob", "address", "documentExpiry"}
SomeReadings == {[fields |-> {}, wrong |-> {}, checksum |-> TRUE],
                 [fields |-> Legible, wrong |-> {}, checksum |-> TRUE],
                 [fields |-> Legible, wrong |-> {}, checksum |-> FALSE],
                 [fields |-> Legible, wrong |-> {"document_expiry"}, checksum |-> TRUE]}

\* Handlers and documents are interchangeable.
HandlerSymmetry == Permutations(Requests) \cup Permutations(Documents)
==============================================================================
