--------------------------- MODULE ReportAssembly ---------------------------
(* How a report is put together from evidence cards and a model's draft:     *)
(* selection of the cards, rejection of a draft, rendering with numbered     *)
(* citations, and the deterministic verification of what was rendered.       *)
(* A paragraph of a draft has the evidence ids it cites (in any order, with  *)
(* repetitions, possibly unknown ones), whether it has text, and the numbers *)
(* in brackets that the model wrote into the text itself.                    *)
EXTENDS Integers, Sequences, FiniteSets, SequencesExt, Listings

CONSTANTS
  Questions,          \* the plan's questions in order of priority
  Card,               \* evidence id -> its question, score and place in the load order
  MaxWriterEvidence   \* _MAX_WRITER_EVIDENCE

(* A plan has at most 12 questions, each once, and the writer takes 20 cards *)
(* (MAX_DYNAMIC_QUESTIONS, validate_unique_question_ids).                    *)
ASSUME AssemblyConstants ==
  /\ MaxWriterEvidence \in Nat \ {0}
  /\ Questions \in Seq(STRING) /\ Len(Questions) <= MaxWriterEvidence
  /\ IsFiniteSet(DOMAIN Card) /\ DOMAIN Card \subseteq STRING
  /\ \A e \in DOMAIN Card :
       Card[e].question \in Range(Questions) /\ Card[e].score \in Nat /\ Card[e].row \in Nat
  /\ \A e, f \in DOMAIN Card : Card[e].row = Card[f].row => e = f

(* What the model may draft: evidence ids are whatever strings it wrote.     *)
Paragraph == [ids : Seq(STRING), text : BOOLEAN, own : SUBSET Nat]
Draft ==
  [refusal : BOOLEAN, summary : Seq(Paragraph),
   sections : Seq([question : STRING, paragraphs : Seq(Paragraph)])]

(* Evidence in order of score, in load order among equals.                   *)
Before(a, b) ==
  \/ Card[a].score > Card[b].score
  \/ Card[a].score = Card[b].score /\ Card[a].row < Card[b].row

ByScore(S) == Listed(S, {p \in S \X S : Before(p[1], p[2])})

CardsOf(S, q) == {e \in S : Card[e].question = q}

(* select_writer_evidence: the best card of every question, then by score.   *)
SelectWriterEvidence(S) ==
  LET asked == Kept(Questions, {i \in DOMAIN Questions : CardsOf(S, Questions[i]) # {}})
      first == [i \in DOMAIN asked |-> ByScore(CardsOf(S, asked[i]))[1]]
      all   == first \o ByScore(S \ Range(first))
  IN SubSeq(all, 1, IF Len(all) < MaxWriterEvidence THEN Len(all) ELSE MaxWriterEvidence)

Referenced(draft) ==
  UNION {Range(p.ids) : p \in Range(draft.summary) \union
                              UNION {Range(s.paragraphs) : s \in Range(draft.sections)}}

(* _draft_rejection_reason                                                   *)
DraftRejected(draft, selected) ==
  Referenced(draft) \intersect Range(selected) = {} \/ draft.refusal

(* _clean_paragraph strips bracketed numbers from the model's text.          *)
CleanParagraph(par) == {}

(* render: the known cards a paragraph cites; without any, or without text,  *)
(* there is no line.                                                         *)
CitedCards(par, selected) ==
  Distinct(Kept(par.ids, {i \in DOMAIN par.ids : par.ids[i] \in Range(selected)}))

Renders(par, selected) == CitedCards(par, selected) # <<>> /\ par.text

Rendered(par, selected) == [cards |-> CitedCards(par, selected), own |-> CleanParagraph(par)]

RenderMany(pars, selected) ==
  LET kept == Kept(pars, {i \in DOMAIN pars : Renders(pars[i], selected)})
  IN [i \in DOMAIN kept |-> Rendered(kept[i], selected)]

(* The template used where a draft gives nothing: one line per card.         *)
CardLines(cards, selected) ==
  RenderMany([i \in 1..(IF Len(cards) < 3 THEN Len(cards) ELSE 3) |->
                [ids |-> <<cards[i]>>, text |-> TRUE, own |-> {}]], selected)

OrElse(lines, template) == IF lines = <<>> THEN template ELSE lines

SummaryLines(draft, selected) ==
  OrElse(RenderMany(draft.summary, selected),
         CardLines(ByScore(Range(selected)), selected))

(* Of two sections that name one question the later one counts.              *)
DraftedFor(draft, q) ==
  LET own == {i \in DOMAIN draft.sections : draft.sections[i].question = q}
  IN IF own = {} THEN <<>> ELSE draft.sections[Max(own)].paragraphs

SectionLinesDraftOnly(draft, selected, q) ==
  RenderMany(DraftedFor(draft, q), selected)

(* The paragraphs of the question's section, or else a line per card.        *)
SectionLines(draft, selected, q) ==
  OrElse(RenderMany(DraftedFor(draft, q), selected),
         CardLines(Kept(selected, {i \in DOMAIN selected : Card[selected[i]].question = q}), selected))

(* verify_citation_integrity: every line has markers, all of them registered.*)
Markers(line, registry) ==
  {i \in DOMAIN registry : registry[i] \in Range(line.cards)} \union line.own

CitationIntegrity(lines, registry) ==
  /\ lines # <<>>
  /\ \A i \in DOMAIN lines :
       LET m == Markers(lines[i], registry) IN m # {} /\ m \subseteq DOMAIN registry

(* assemble_report: citations are numbered in the order of first use.        *)
AssembleReport(draft, selected) ==
  LET section(q) == SectionLines(draft, selected, q)
      lines == SummaryLines(draft, selected)
                 \o FlattenSeq([i \in DOMAIN Questions |-> section(Questions[i])])
      registry == Distinct(FlattenSeq([i \in DOMAIN lines |-> lines[i].cards]))
  IN [citations |-> registry,
      sections  |-> {q \in Range(Questions) : section(q) # <<>>},
      verified  |-> CitationIntegrity(lines, registry)]

(* The draft of a report written without the model.                          *)
NoDraft == [refusal |-> FALSE, summary |-> <<>>, sections |-> <<>>]
=============================================================================
