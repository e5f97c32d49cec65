------------------------ MODULE MCOnboardingProgress ------------------------
(* Small instances of OnboardingProgress for TLC. *)
EXTENDS OnboardingProgress, TLC

CONSTANTS c1, d1, d2, d3, d4, d5, d6, y1

\* d1 to d5 bring the five steps in order, d6 repeats the first.
Letters == c1 :> "created" @@ y1 :> "kyc" @@ [e \in Events |-> "document"]
MCKind == [e \in Events |-> Letters[e]]
Orders == d2 :> "company_documents" @@ d3 :> "financial_documents"
          @@ d4 :> "compliance" @@ d5 :> "review" @@ [e \in Events |-> "identity"]
MCStepOf == [e \in Events |-> Orders[e]]
=============================================================================
