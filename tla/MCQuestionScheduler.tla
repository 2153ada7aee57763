------------------------ MODULE MCQuestionScheduler ------------------------
EXTENDS QuestionScheduler
MCPriority == [q \in {"q1", "q2"} |-> IF q = "q1" THEN 1 ELSE 2]
MCRequirements == [q \in {"q1", "q2"} |-> IF q = "q1" THEN {"d1"} ELSE {"d2"}]
MCFamilies == <<"scope", "authoritative">>
MCFindings ==
    {[risky |-> r, weak |-> FALSE, good |-> TRUE, gate |-> "clean"] : r \in BOOLEAN}
=============================================================================
