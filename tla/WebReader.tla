------------------------------- MODULE WebReader -------------------------------
(***************************************************************************)
(* tools/web_reader.py: what PublicWebReader.read of a URL can come to.    *)
(* Location gives where a URL sends the reader next, by a redirect or by   *)
(* the publisher fallback after a 4xx; a URL that serves a document is its *)
(* own location.  Bodies, parsing and text are reduced to their outcome.   *)
(***************************************************************************)
EXTENDS Naturals, Sequences

CONSTANTS
    Urls,
    Location,       \* [Urls -> Urls]
    Public,         \* URLs whose host resolves to public addresses only
    MaxRedirects    \* _MAX_REDIRECTS

ASSUME WebAssumption ==
    /\ Location \in [Urls -> Urls]
    /\ Public \subseteq Urls
    /\ MaxRedirects \in Nat

(* The URL the n-th request of a read goes to. *)
Walk[n \in Nat] == IF n = 0 THEN [u \in Urls |-> u]
                   ELSE [u \in Urls |-> Location[Walk[n - 1][u]]]

Requested(u) == {Walk[n][u] : n \in 0..MaxRedirects}
FinalUrl(u) == Walk[MaxRedirects][u]

(* Every hop passes _require_public_destination before it is requested,    *)
(* and the last one must serve a document.                                 *)
Reachable(u) == Requested(u) \subseteq Public /\ Location[FinalUrl(u)] = FinalUrl(u)

Pages == {u \in Urls : Location[u] = u}

(* A ToolExecutionError (refused, unavailable, too large, empty, timeout)  *)
(* can end any read; the parser's own exception only one that got a body.  *)
ReadOutcomes(u) ==
    {"error"} \cup (IF Reachable(u) THEN {"page", "escape"} ELSE {})
================================================================================
