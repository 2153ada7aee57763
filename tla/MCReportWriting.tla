-------------------------- MODULE MCReportWriting --------------------------
(* ReportWriting for TLC: two questions, three pieces of evidence of which   *)
(* the report takes two, and drafts that cite well, cite unknown evidence,   *)
(* number their own citations, skip a question or refuse.                    *)
EXTENDS ReportWriting

ExecutionSymmetry == Permutations(Executions)

MCQuestions == <<"q1", "q2">>

MCCard ==
  [e1 |-> [question |-> "q1", score |-> 90, row |-> 1, tokens |-> 400, features |-> {1, 2}],
   e2 |-> [question |-> "q1", score |-> 60, row |-> 2, tokens |-> 300, features |-> {1, 2}],
   e3 |-> [question |-> "q2", score |-> 70, row |-> 3, tokens |-> 400, features |-> {3}]]

MCFindings == {{}, {"e1"}, {"e2", "e3"}}

Citing(ids, own) == [ids |-> ids, text |-> TRUE, own |-> own]

MCDrafts ==
  {[refusal |-> FALSE, summary |-> <<Citing(<<"e3", "e1", "e3">>, {})>>,
    sections |-> <<[question |-> "q1", paragraphs |-> <<Citing(<<"e1">>, {})>>]>>],
   [refusal |-> FALSE, summary |-> <<Citing(<<"e1", "e9">>, {7})>>,
    sections |-> <<[question |-> "q2", paragraphs |-> <<Citing(<<"e9">>, {1})>>]>>],
   [refusal |-> TRUE, summary |-> <<Citing(<<"e1">>, {})>>, sections |-> <<>>]}
=============================================================================
