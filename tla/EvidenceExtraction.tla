-------------------------- MODULE EvidenceExtraction --------------------------
(***************************************************************************)
(* services/evidence_extractor.py: the calls EvidenceExtractorService      *)
(* makes for one page under a token allowance.  A first request may be     *)
(* followed by one compact request (transport error or unreadable output), *)
(* one schema repair, or one rescue of an empty batch, each sized from     *)
(* what the reported usage leaves.  Quotes and scores are reduced to       *)
(* whether a batch is empty, wholly rejected or has accepted items.        *)
(***************************************************************************)
EXTENDS ModelGateway, Integers

OutputTokens == 3500         \* _EXTRACTOR_OUTPUT_TOKENS
InputTokens == 6000          \* _EXTRACTOR_INPUT_TOKENS
CompactOutputTokens == 1800  \* _COMPACT_OUTPUT_TOKENS
CompactInputTokens == 3000   \* _COMPACT_INPUT_TOKENS
MinRetryBudget == 2400       \* _MIN_RETRY_TOKEN_BUDGET
Margin == 512                \* kept free beside input and output

Least(a, b) == IF a < b THEN a ELSE b
Most(a, b) == IF a > b THEN a ELSE b

(* What the first request may use: its output, its input and the margin. *)
FirstOutput(max) == Least(OutputTokens, Most(768, max \div 3))
FirstInput(max) == Least(InputTokens, Most(512, max - FirstOutput(max) - Margin))
FirstCap(max) == FirstOutput(max) + FirstInput(max) + Margin

RemainingTokenBudget(max, known, reported) == Most(0, max - (IF known THEN reported ELSE 0))

CompactOutputBudget(requested, remaining) ==
    Most(512, Least(Least(requested, CompactOutputTokens), Most(512, remaining \div 3)))
CompactInputBudget(remaining) ==
    Most(512, Least(CompactInputTokens,
                    remaining - CompactOutputBudget(CompactOutputTokens, remaining) - Margin))
CompactCap(max, remaining) ==
    CompactOutputBudget(FirstOutput(max), remaining) + CompactInputBudget(remaining) + Margin

Batches == {"empty", "rejected", "accepted"}

(* extract() between two calls; "known" says that some call reported usage. *)
Start(max) ==
    [phase |-> "first", max |-> max, cap |-> FirstCap(max), known |-> FALSE, reported |-> 0,
     calls |-> 0, fallback |-> FALSE, batch |-> "empty", code |-> "ok"]

Remaining(x) == RemainingTokenBudget(x.max, x.known, x.reported)

Phases == {"first", "compact", "repair", "rescue", "scored", "failed"}

(* The usage of a call joins what earlier calls reported. *)
Counted(x, r, cost) ==
    [x EXCEPT !.calls = @ + 1,
              !.known = @ \/ r.reported,
              !.reported = @ + (IF r.reported THEN cost ELSE 0)]

Fails(x, code) == [x EXCEPT !.phase = "failed", !.code = code]
Compact(x, phase) ==
    [x EXCEPT !.phase = phase, !.cap = CompactCap(x.max, Remaining(x)),
              !.fallback = @ \/ phase \in {"compact", "repair"}]

(* The compact request after a failed first one. *)
AfterFirstError(x, code) ==
    IF Remaining(x) < MinRetryBudget THEN Fails(x, "MODEL_TOKEN_BUDGET_EXHAUSTED")
    ELSE IF code \in TransportErrors \cup UnreadableErrors THEN Compact(x, "compact")
    ELSE Fails(x, code)

(* A parsed object that EvidenceBatch refuses gets one repair. *)
AfterInvalidBatch(x) ==
    IF x.phase = "repair" THEN Fails(x, "EVIDENCE_OUTPUT_SCHEMA_INVALID")
    ELSE IF Remaining(x) < MinRetryBudget THEN Fails(x, "MODEL_TOKEN_BUDGET_EXHAUSTED")
    ELSE Compact(x, "repair")

(* An empty batch of a page that looks relevant gets one rescue. *)
AfterBatch(x, batch, relevant) ==
    IF batch = "empty" /\ ~x.fallback /\ x.max - x.reported >= MinRetryBudget /\ relevant
    THEN Compact(x, "rescue")
    ELSE [x EXCEPT !.phase = "scored", !.batch = batch]

(* The rescue is best effort: whatever it answers, the page is scored. *)
AfterRescue(x, ok, batch) ==
    [x EXCEPT !.phase = "scored", !.batch = IF ok THEN batch ELSE "empty"]

(* What a call without regeneration answers, whatever its number of POSTs. *)
Answered == {[code |-> r.code, reported |-> r.reported] : r \in StructuredCall(FALSE)}

AfterCall(x, r, cost, valid, batch, relevant) ==
    LET y == Counted(x, r, cost) IN
    CASE r.code = Escaped           -> Fails(y, Escaped)
      [] r.code # Escaped /\ x.phase = "rescue" -> AfterRescue(y, r.code = "ok" /\ valid, batch)
      [] r.code \notin {"ok", Escaped} /\ x.phase = "first" -> AfterFirstError(y, r.code)
      [] r.code \notin {"ok", Escaped} /\ x.phase \in {"compact", "repair"} -> Fails(y, r.code)
      [] r.code = "ok" /\ x.phase # "rescue" ->
            IF valid THEN AfterBatch(y, batch, relevant) ELSE AfterInvalidBatch(y)

(* Only a batch with an accepted item is cached. *)
Cacheable(x) == x.batch = "accepted"
===============================================================================
