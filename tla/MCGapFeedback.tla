--------------------------- MODULE MCGapFeedback ---------------------------
EXTENDS GapFeedback

CONSTANTS a, b, c, o1, o2, d1, d2

MCDimensionOf == (a :> d1) @@ (b :> d1) @@ (c :> d2)
MCFindings ==
    {e \in Item : \/ e.claim = a /\ ~e.refutes /\ (e.accepted \/ e.score = 1)
                  \/ e.claim = b /\ e.accepted /\ e.score = 1
                  \/ e.claim = c /\ e.score = 1 /\ ~e.refutes}
MCContradictions == {{a, b}}
=============================================================================
