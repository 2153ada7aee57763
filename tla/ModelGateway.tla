----------------------------- MODULE ModelGateway -----------------------------
(***************************************************************************)
(* One structured call of the LLM gateway (llm/adapters.py) as the set of  *)
(* its possible results.  A call is one or more POSTs: a connect timeout   *)
(* is retried once under /v1, a refused JSON mode once without it, and an  *)
(* unreadable answer once more when the caller allows regeneration.        *)
(* Prompts, schemas and wire formats are left out.                         *)
(***************************************************************************)
EXTENDS Naturals, FiniteSets

CONSTANTS
    Compatible,  \* the adapter is OPENAI_COMPATIBLE_CHAT
    KnownOrigin  \* base_url is the bare origin that _compatible_v1_fallback knows

ASSUME GatewayAssumption == Compatible \in BOOLEAN /\ KnownOrigin \in BOOLEAN

TransportErrors ==
    {"MODEL_TIMEOUT", "MODEL_NETWORK_ERROR", "MODEL_RATE_LIMITED", "MODEL_PROVIDER_UNAVAILABLE"}
UnreadableErrors == {"MODEL_OUTPUT_INVALID", "MODEL_OUTPUT_TRUNCATED", "MODEL_RESPONSE_INVALID"}

(* A response.json() that raises is no ModelGatewayError. *)
Escaped == "UNEXPECTED"

(* What one POST comes to: a text that parses, one that does not, one cut  *)
(* at the output limit, a payload without text, or an error.               *)
Answers == {"object", "garbled", "length", "textless"}
PostErrors ==
    TransportErrors \cup
    {"MODEL_RESPONSE_INVALID", "MODEL_AUTHENTICATION_FAILED", "MODEL_REQUEST_INVALID",
     "PROVIDER_REDIRECT_BLOCKED", Escaped}

PostJson ==
    {[answer |-> a, code |-> "ok", connect |-> FALSE] : a \in Answers}
    \cup {[answer |-> "none", code |-> c, connect |-> FALSE] : c \in PostErrors}
    \cup {[answer |-> "none", code |-> "MODEL_TIMEOUT", connect |-> TRUE]}

(* _post_compatible_json: POSTs made and the last one's outcome. *)
PostCompatible ==
    {[posts |-> 1, out |-> p] : p \in {x \in PostJson : ~(x.connect /\ KnownOrigin)}}
    \cup {[posts |-> 2, out |-> p] : p \in IF KnownOrigin THEN PostJson ELSE {}}

(* _openai_compatible: in JSON mode a 400 is retried without it. *)
OpenaiCompatible(json) ==
    IF ~json
    THEN PostCompatible
    ELSE {c \in PostCompatible : c.out.code # "MODEL_REQUEST_INVALID"}
         \cup {[posts |-> c.posts + d.posts, out |-> d.out] :
                   c \in {x \in PostCompatible : x.out.code = "MODEL_REQUEST_INVALID"},
                   d \in PostCompatible}

(* The first exchange of _generate_structured, for either kind of adapter. *)
Exchange ==
    IF Compatible THEN OpenaiCompatible(TRUE) ELSE {[posts |-> 1, out |-> p] : p \in PostJson}

(* _structured_output_error_code over what was parsed. *)
ParseCode(answer) ==
    CASE answer = "object"   -> "ok"
      [] answer = "garbled"  -> "MODEL_OUTPUT_INVALID"
      [] answer = "length"   -> "MODEL_OUTPUT_TRUNCATED"
      [] answer = "textless" -> "MODEL_RESPONSE_INVALID"

(* A result reports usage when the payload had a text. *)
Result(e) ==
    [code     |-> IF e.out.code = "ok" THEN ParseCode(e.out.answer) ELSE e.out.code,
     reported |-> e.out.code = "ok" /\ e.out.answer # "textless",
     posts    |-> e.posts]

(* The exchanges whose answer _generate_structured asks for once more. *)
Regenerates(allow, e) ==
    allow /\ Compatible /\ e.out.code = "ok" /\ e.out.answer \in {"garbled", "length"}

(* The second exchange: JSON mode only after a length stop.  Its usage is  *)
(* added to the first one's unless it raises, and then both are lost.      *)
Regenerated(e) ==
    {[Result(d) EXCEPT !.posts = e.posts + d.posts] : d \in OpenaiCompatible(e.out.answer = "length")}

StructuredCall(allow) ==
    {Result(e) : e \in {x \in Exchange : ~Regenerates(allow, x)}}
    \cup UNION {Regenerated(e) : e \in {x \in Exchange : Regenerates(allow, x)}}
===============================================================================
