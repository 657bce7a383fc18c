--------------------------- MODULE MCPullSync ---------------------------
(* Instances of PullSync for TLC.                                          *)
EXTENDS PullSync

\* A whole walk of WooCommerce, filtered or not, beside pushes that have a
\* SyncState row of their own; products rest between two pages.
WholeWalk == [page_size |-> 1, max_pages |-> 0, supports_since |-> TRUE,
              markers |-> TRUE, shared |-> FALSE, at_rest |-> TRUE, bound |-> 3]

\* A walk of one page, which products change under.
OnePage == [WholeWalk EXCEPT !.page_size = 3, !.at_rest = FALSE]

\* A walk cut in parts of one page, over a listing without filter and without
\* markers, which products change under.
Parts == [WholeWalk EXCEPT !.max_pages = 1, !.supports_since = FALSE,
                           !.markers = FALSE, !.at_rest = FALSE]

Walks == {WholeWalk, OnePage, Parts}

\* As in docs/DJANGO_INTEGRATION.md, one sync_state for both services: changes
\* before a push fall behind its watermark.  No run has it.
OneRow == [WholeWalk EXCEPT !.shared = TRUE]

=============================================================================
