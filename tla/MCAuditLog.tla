----------------------------- MODULE MCAuditLog -----------------------------
(* A small instance of the audit log.                                      *)
EXTENDS AuditLog

\* Texts with and without the separator, so that two events share one payload.  The
\* log checks no text: the empty one is legal.
MCEmpty == {<<>>}
MCBarred == {<<>>, <<"|">>}

\* What the last call returned decides nothing that follows.
MCView == <<records, receipts, anchors, faults>>
=============================================================================
