--------------------------- MODULE MCSyncService ---------------------------
(* Instances of SyncService for TLC.                                       *)
EXTENDS SyncService

\* One adapter for every kind of cursor and every way to find the end of pages.
MCSettings ==
    {s \in Setting :
       IF s.oldest_first
       THEN s.name \in {"cargus", "emag", "shopify", "vendigo"}
       ELSE s.name \in {"woocommerce", "linkedin", "facebook",
                        "stripe_payments", "gitlab_projects"}}

=============================================================================
