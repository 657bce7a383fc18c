--------------------------- MODULE MCCredentials ---------------------------
(* Instances of Credentials for TLC.                                       *)
EXTENDS Credentials

\* One provider of every way to issue and every way to store.
MCSetups == {"saga_web", "youtube", "onedrive", "facebook", "shopify",
             "pinterest", "tiktok"}

=============================================================================
