---------------------------- MODULE ReportWriting ----------------------------
(* The last phase of a run: an execution loads the accepted evidence, takes  *)
(* a cached draft or pays the model for one, assembles the report and ends   *)
(* the run with it in one transaction, while pauses, cancellations and       *)
(* takeovers revoke executions at any point and the readers of EventStream   *)
(* follow.  The stages of write() are the awaits between which other actors  *)
(* run.  An execution is a delivery of its own dispatch, so its lease token  *)
(* is its own; one that crashed is one that takes no further step.           *)
EXTENDS EventStream, ReportAssembly, ContextBudget, ModelGateway

CONSTANTS
  Executions,       \* deliveries that execute the run
  Findings,         \* sets of evidence that one round of research accepts
  Drafts,           \* drafts a model may return
  Windows,          \* context windows of the provider
  ProtectedTokens,  \* instructions, task brief and output schema
  WriterLimit,      \* allocation.writer_tokens_initial
  SaveEvents        \* events of the final commit

ASSUME WriterConstants ==
  /\ SaveEvents \in Nat \ {0} /\ Findings \subseteq SUBSET DOMAIN Card
  /\ Drafts \subseteq Draft /\ Windows \subseteq Nat
  /\ ProtectedTokens \in Nat /\ WriterLimit \in Nat
  /\ \A e \in DOMAIN Card : Card[e].tokens \in Nat /\ IsFiniteSet(Card[e].features)

VARIABLES
  accepted,     \* accepted evidence with a claim
  owner,        \* research_runs.worker_task_id in phase writing
  writer,       \* write() in each execution
  draftCache,   \* report_draft_cache: context and draft
  reports       \* reports in version order

writeVars == <<accepted, owner, writer, draftCache, reports>>
vars == <<streamVars, writeVars>>

Off == [at |-> "off", selected |-> <<>>, affordable |-> FALSE, draft |-> NoDraft,
        draftFor |-> <<>>, mode |-> "deterministic_fallback",
        call |-> "none", resv |-> "none", prompt |-> <<0, 0>>]

Init ==
  /\ StreamInit
  /\ accepted = {} /\ owner = "none" /\ draftCache = {} /\ reports = <<>>
  /\ writer = [x \in Executions |-> Off]

Set(x, changes) == writer' = [writer EXCEPT ![x] = changes]

(* _require_writing_lease                                                    *)
HoldsLease(x) == status = "running" /\ owner = x

LoseLease(x) ==
  /\ ~HoldsLease(x)
  /\ Set(x, Off)
  /\ UNCHANGED <<streamVars, accepted, owner, draftCache, reports>>

CreateRun ==
  /\ status = "none" /\ Commit("queued", 1)
  /\ UNCHANGED writeVars

(* An execution acquires the run, researches and turns to writing.           *)
BeginWriting(x, found) ==
  /\ status = "queued" /\ writer[x].at = "off"
  /\ Commit("running", 1)
  /\ accepted' = accepted \union found
  /\ owner' = x /\ Set(x, [Off EXCEPT !.at = "load"])
  /\ UNCHANGED <<draftCache, reports>>

(* A takeover after an expired lease, or a pause: the lease is cleared.      *)
Revoke(new) ==
  /\ status = "running" /\ new \in {"queued", "interrupted"}
  /\ Commit(new, 1) /\ owner' = "none"
  /\ UNCHANGED <<accepted, writer, draftCache, reports>>

UserRequest ==
  /\ CancelRun \/ ResumeRun
  /\ owner' = "none"
  /\ UNCHANGED <<accepted, writer, draftCache, reports>>

(* load_for_writing; whether the tokens left cover the writer is a fact of   *)
(* the ledger.                                                               *)
LoadForWriting(x, affordable) ==
  /\ writer[x].at = "load" /\ HoldsLease(x)
  /\ Set(x, IF accepted = {} THEN [Off EXCEPT !.at = "empty"]
            ELSE [Off EXCEPT !.at = "cache", !.affordable = affordable,
                             !.selected = SelectWriterEvidence(accepted)])
  /\ UNCHANGED <<streamVars, accepted, owner, draftCache, reports>>

FailNoEvidence(x) ==
  /\ writer[x].at = "empty" /\ HoldsLease(x)
  /\ Commit("failed", 1) /\ owner' = "none" /\ Set(x, Off)
  /\ UNCHANGED <<accepted, draftCache, reports>>

AnyContext(x, entry) == writer[x].at = "cache"

(* _draft_context_hash covers goal, questions, quality and the cards.        *)
SameContext(x, entry) == entry.context = writer[x].selected

ReadDraftCache(x) ==
  /\ writer[x].at = "cache"
  /\ LET hits == {c \in draftCache : SameContext(x, c)
                                     /\ ~DraftRejected(c.draft, writer[x].selected)}
         hit == CHOOSE c \in hits : TRUE
         next == IF hits = {} /\ writer[x].affordable THEN "reserve" ELSE "save"
     IN Set(x, IF hits = {} THEN [writer[x] EXCEPT !.at = next, !.affordable = FALSE]
               ELSE [writer[x] EXCEPT !.at = next, !.affordable = FALSE, !.draft = hit.draft,
                                      !.draftFor = hit.context, !.mode = "cache"])
  /\ UNCHANGED <<streamVars, accepted, owner, draftCache, reports>>

Reserve(x, granted) ==
  /\ writer[x].at = "reserve" /\ HoldsLease(x)
  /\ Set(x, IF granted THEN [writer[x] EXCEPT !.at = "generate", !.resv = "reserved"]
            ELSE [writer[x] EXCEPT !.at = "save"])
  /\ UNCHANGED <<streamVars, accepted, owner, draftCache, reports>>

WriterOutputReserve == Smaller(5000, Larger(768, WriterLimit \div 3))

(* The candidates of the writer's prompt and its policy.                     *)
WriterPolicy == [lambda |-> 68, redundancy |-> 90, limits |-> [evidence_card |-> 20]]

WriterCandidates(selected) ==
  <<[type |-> "instruction", tokens |-> ProtectedTokens, rank |-> 100,
     protected |-> TRUE, features |-> {}]>>
  \o [i \in DOMAIN selected |->
        [type |-> "evidence_card", tokens |-> Card[selected[i]].tokens,
         rank |-> Card[selected[i]].score, protected |-> FALSE,
         features |-> Card[selected[i]].features]]

InputBudget(window) ==
  AllocateBudget(window, WriterOutputReserve, WriterOutputReserve,
                 Larger(512, WriterLimit - WriterOutputReserve - 512))

(* What the call comes to once the prompt was built: a valid draft, an error *)
(* with usage, one without (the deadline, or a reply that is no ReportDraft, *)
(* included), or an exception that write() does not handle.                  *)
CallOutcomes ==
  {CASE r.code = "ok" -> "draft" [] r.code = Escaped -> "escaped"
     [] OTHER -> IF r.reported THEN "reported" ELSE "unreported" : r \in StructuredCall(TRUE)}
  \union {"unreported", "escaped"}

Generate(x, window, outcome, draft) ==
  /\ writer[x].at = "generate"
  /\ LET cands == WriterCandidates(writer[x].selected)
         budget == InputBudget(window)
         context == ContextSelection(cands, WriterPolicy, budget)
     IN IF ContextInsufficient(cands, budget) \/ context.chosen = Protected(cands)
        THEN Set(x, [writer[x] EXCEPT !.at = "settle", !.call = "context"])
        ELSE Set(x, [writer[x] EXCEPT
               !.at = IF outcome = "escaped" THEN "escape" ELSE "settle",
               !.call = outcome,
               !.draft = IF outcome = "draft" THEN draft ELSE NoDraft,
               !.prompt = <<context.used, window>>])
  /\ UNCHANGED <<streamVars, accepted, owner, draftCache, reports>>

(* settle, release or mark uncertain, by what is known of the usage.         *)
Settlement(call) ==
  CASE call \in {"draft", "reported"} -> "committed"
    [] call = "context" -> "released"
    [] OTHER -> "uncertain"

Settle(x) ==
  /\ writer[x].at = "settle" /\ HoldsLease(x)
  /\ LET kept == writer[x].call = "draft"
                 /\ ~DraftRejected(writer[x].draft, writer[x].selected)
     IN Set(x, [writer[x] EXCEPT !.resv = Settlement(writer[x].call),
                  !.call = "none", !.prompt = <<0, 0>>,
                  !.at = IF kept THEN "put" ELSE "save",
                  !.draft = IF kept THEN @ ELSE NoDraft,
                  !.draftFor = IF kept THEN writer[x].selected ELSE <<>>,
                  !.mode = IF kept THEN "model" ELSE @])
  /\ UNCHANGED <<streamVars, accepted, owner, draftCache, reports>>

(* The first draft stored for a context stays.                               *)
PutDraft(x) ==
  /\ writer[x].at = "put"
  /\ draftCache' = IF \E c \in draftCache : SameContext(x, c) THEN draftCache
                   ELSE draftCache \union {[context |-> writer[x].selected,
                                            draft |-> writer[x].draft]}
  /\ Set(x, [writer[x] EXCEPT !.at = "save"])
  /\ UNCHANGED <<streamVars, accepted, owner, reports>>

ReportOf(x) ==
  LET report == AssembleReport(writer[x].draft, writer[x].selected) IN
  [citations |-> report.citations, sections |-> report.sections,
   verified |-> report.verified, mode |-> writer[x].mode,
   selected |-> writer[x].selected, draftFor |-> writer[x].draftFor,
   resv |-> writer[x].resv, evidence |-> accepted]

SaveBeforeLeaseCheck(x) ==
  /\ writer[x].at = "save"
  /\ reports' = Append(reports, ReportOf(x))
  /\ IF HoldsLease(x) THEN Commit("completed", SaveEvents) /\ owner' = "none"
                      ELSE UNCHANGED <<streamVars, owner>>
  /\ Set(x, Off)
  /\ UNCHANGED <<accepted, draftCache>>

(* Report, sections, citations, usage, status and events commit together.    *)
Save(x) ==
  /\ writer[x].at = "save" /\ HoldsLease(x)
  /\ reports' = Append(reports, ReportOf(x))
  /\ Commit("completed", SaveEvents) /\ owner' = "none" /\ Set(x, Off)
  /\ UNCHANGED <<accepted, draftCache>>

(* A credential that is gone, or any other exception, reaches the task.      *)
FailExecution(x) ==
  /\ writer[x].at = "escape" /\ HoldsLease(x)
  /\ Commit("failed", 1) /\ owner' = "none" /\ Set(x, Off)
  /\ UNCHANGED <<accepted, draftCache, reports>>

LeaseChecks == {"load", "empty", "reserve", "settle", "save", "escape"}

Step(x) ==
  \/ writer[x].at \in LeaseChecks /\ LoseLease(x)
  \/ \E b \in BOOLEAN : LoadForWriting(x, b) \/ Reserve(x, b)
  \/ FailNoEvidence(x) \/ ReadDraftCache(x)
  \/ \E w \in Windows, o \in CallOutcomes, d \in Drafts : Generate(x, w, o, d)
  \/ Settle(x) \/ PutDraft(x) \/ Save(x) \/ FailExecution(x)

Next ==
  \/ ReadStep /\ UNCHANGED writeVars
  \/ CreateRun
  \/ \E x \in Executions, found \in Findings : BeginWriting(x, found)
  \/ \E new \in Statuses : Revoke(new)
  \/ UserRequest
  \/ \E x \in Executions : Step(x)

Spec == Init /\ [][Next]_vars

TypeOK ==
  /\ StreamTypeOK /\ accepted \subseteq DOMAIN Card
  /\ owner \in Executions \union {"none"}
  /\ \A x \in Executions :
       /\ writer[x].at \in LeaseChecks \union {"off", "cache", "generate", "put"}
       /\ writer[x].resv \in {"none", "reserved", "committed", "released", "uncertain"}

(* A run is completed exactly when it has its report, and it has one: of the *)
(* executions that were revoked while they drafted none saves a second one   *)
(* or completes a run that was cancelled, paused or failed (save).           *)
CompletedExactlyWithReport ==
  Len(reports) <= 1 /\ (status = "completed") = (reports # <<>>)

(* Reports are stored with status verified without a look at the verifier's  *)
(* verdict: whatever the model drafts, wrote into its text or cites, the     *)
(* assembled report does pass the citation check and cites accepted evidence *)
(* only.                                                                     *)
StoredReportsVerify ==
  \A i \in DOMAIN reports :
    reports[i].verified /\ Range(reports[i].citations) \subseteq reports[i].evidence

(* No question that has accepted evidence is missing from the report, even   *)
(* when the draft skips it or supports it with unknown evidence only.        *)
AnsweredQuestionsAppear ==
  \A i \in DOMAIN reports :
    {Card[e].question : e \in reports[i].evidence} \subseteq reports[i].sections

(* A draft is used only for the evidence it was drafted from: one cached by  *)
(* an execution that was revoked is not reused after research went on.       *)
DraftFitsEvidence ==
  \A i \in DOMAIN reports :
    reports[i].mode # "deterministic_fallback" =>
      /\ reports[i].draftFor = reports[i].selected
      /\ reports[i].selected = SelectWriterEvidence(reports[i].evidence)

(* The execution that saves the report has left no reservation open: a reply *)
(* of unknown cost is accounted for before the template replaces it.         *)
SavedReportIsPaidFor ==
  \A i \in DOMAIN reports :
    /\ reports[i].resv # "reserved"
    /\ reports[i].mode = "model" => reports[i].resv = "committed"

(* A prompt holds no more cards than the writer takes, and with the reply    *)
(* reserved for and the safety margin it fits the window.                    *)
PromptFitsWindow ==
  \A x \in Executions :
    /\ Len(writer[x].selected) <= MaxWriterEvidence
    /\ writer[x].prompt[1] > 0 =>
         writer[x].prompt[1] + WriterOutputReserve + Larger(512, writer[x].prompt[2] \div 10)
           <= writer[x].prompt[2]

(* Whatever was accepted and whatever the model drafts, what is computed    *)
(* from them keeps its limits: prompts fit, and every stored report is      *)
(* verified and answers what was researched (_generate_draft,               *)
(* assemble_report).                                                        *)
ReportsSound == PromptFitsWindow /\ StoredReportsVerify /\ AnsweredQuestionsAppear

(* A draft is used for the evidence it was made from, and its tokens are    *)
(* accounted for when the report is stored (write).                         *)
DraftsSound == TypeOK /\ DraftFitsEvidence /\ SavedReportIsPaidFor

=============================================================================
