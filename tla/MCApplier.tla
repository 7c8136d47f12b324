----------------------------- MODULE MCApplier -----------------------------
EXTENDS Applier, TLC

CONSTANTS dst, src, respelled, body, edited

\* A document is renamed in case alone; its body is moved to a new document, and it
\* is written over from a third, which is removed.
MCBefore == (dst :> Nothing) @@ (respelled :> body) @@ (src :> edited)
MCAfter == (dst :> body) @@ (respelled :> edited) @@ (src :> Nothing)
MCDraws == {<<dst, respelled>>, <<respelled, src>>}
=============================================================================
