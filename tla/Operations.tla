----------------------------- MODULE Operations -----------------------------
(***************************************************************************)
(* One call of an operation of an adapter: its script of the catalogues is *)
(* carried out while any request of it may fail in any way that its client *)
(* lets through.                                                           *)
(*                                                                         *)
(* A request here is a whole call of the HTTP client; what may become of   *)
(* it is what RemoteCall allows.  No state of an adapter survives its      *)
(* operation but a session, which a script renews or not as it likes.      *)
(***************************************************************************)
EXTENDS Scripts

CONSTANTS
    Catalogue  \* the script of each operation of each adapter and client

\* The adapter is made for the call; its credentials or settings may not do.
CreateAdapter == Optional(Raise("invalid"))

Script(p, o) == CreateAdapter \o Catalogue[p][o]

VARIABLES
    provider,  \* the adapter, or its client
    operation, \* the method that is called
    todo,      \* what is left of its script
    error,     \* the last exception, while something is caught or raised
    last,      \* what the last request did
    repeated,  \* the things a request of the call made twice
    hidden,    \* the requests whose failure was caught and is not told
    blind,     \* something was made while a failure was hidden
    refused,   \* the provider refused the credentials of some request
    told,      \* the result says that something failed
    outcome    \* how the call ended: "none" before

opVars == <<provider, operation, todo, error, last, repeated, hidden, blind,
            refused, told, outcome>>

\* A caller calls any operation that a catalogue has.
Called(catalogue) ==
    /\ provider \in DOMAIN catalogue
    /\ operation \in DOMAIN catalogue[provider]
    /\ todo = CreateAdapter \o catalogue[provider][operation]

OpInit ==
    /\ Called(Catalogue)
    /\ error = "none"
    /\ last = "none"
    /\ repeated = {}
    /\ hidden = {}
    /\ blind = FALSE
    /\ refused = FALSE
    /\ told = FALSE
    /\ outcome = "none"

Heads(does) ==
    /\ outcome = "none"
    /\ todo # <<>>
    /\ Head(todo).does = does

\* This script takes the place of the next node.
Becomes(script) == todo' = script \o Tail(todo)

\* The handlers around the next node that catch an exception of this kind, by
\* their place.
Catchers(kind) ==
    {i \in DOMAIN todo : todo[i].does = "catch" /\ kind \in todo[i].kinds}

\* An exception goes to the innermost of them, or to the caller.
Throw(kind) ==
    /\ error' = kind
    /\ IF Catchers(kind) = {}
       THEN outcome' = kind /\ todo' = <<>>
       ELSE LET at == CHOOSE i \in Catchers(kind) :
                        \A j \in Catchers(kind) : i <= j
            IN /\ todo' = todo[at].other \o SubSeq(todo, at + 1, Len(todo))
               /\ UNCHANGED outcome

-----------------------------------------------------------------------------
(* Requests                                                                *)

\* Faulty variant: retry=False is not heeded.
EffectsRetried(node, way) == IF way = "ok" THEN 1..2 ELSE 0..2

\* How often the provider acted on a request that ended this way: RemoteCall.
Effects(node, way) ==
    LET most == IF node.once THEN 1 ELSE 2
    IN CASE way = "ok" -> 1..most
         [] node.once /\ way \in {"auth", "limited", "missing", "client"} -> {0}
         [] OTHER -> 0..most

\* Faulty variant: the status is left to every caller.
UnseenAny(node, way) == way \in Answered

\* An error status of an answer that nobody looks at.
Unseen(node, way) == node.unread /\ way \in Answered

\* A request ends.
Send(way) ==
    /\ \E does \in Requests : Heads(does)
    /\ LET node == Head(todo) IN
       /\ \E n \in Effects(node, way) :
            repeated' = IF node.does = "make" /\ n > 1
                        THEN repeated \cup {node.what} ELSE repeated
       /\ last' = node.does
       /\ blind' = (blind \/ (node.does = "make" /\ hidden # {}))
       /\ refused' = (refused \/ way = "auth")
       /\ IF way = "ok"
          THEN Becomes(<<>>) /\ UNCHANGED <<error, hidden, outcome>>
          ELSE IF Unseen(node, way)
          THEN Becomes(<<>>) /\ hidden' = hidden \cup {last'}
               /\ UNCHANGED <<error, outcome>>
          ELSE Throw(way) /\ UNCHANGED hidden
    /\ UNCHANGED <<provider, operation, told>>

-----------------------------------------------------------------------------
(* Control                                                                 *)

SameCall == UNCHANGED <<provider, operation, last, repeated, blind, refused>>

Branch ==
    /\ Heads("either")
    /\ Becomes(Head(todo).body) \/ Becomes(Head(todo).other)
    /\ SameCall /\ UNCHANGED <<error, hidden, told, outcome>>

\* One more thing of the list, or none.
Repeat ==
    /\ Heads("each")
    /\ Becomes(<<>>) \/ Becomes(Head(todo).body \o <<Head(todo)>>)
    /\ SameCall /\ UNCHANGED <<error, hidden, told, outcome>>

\* The handler of a block, on the way while the block is carried out.
Caught(node) == [node EXCEPT !.does = "catch", !.body = <<>>]

Enter ==
    /\ Heads("try")
    /\ Becomes(Head(todo).body \o <<Caught(Head(todo))>>)
    /\ SameCall /\ UNCHANGED <<error, hidden, told, outcome>>

Leave ==
    /\ Heads("catch")
    /\ Becomes(<<>>)
    /\ SameCall /\ UNCHANGED <<error, hidden, told, outcome>>

\* Faulty variant: what the result says went wrong is put down as success.
ReportWell ==
    /\ Heads("tell")
    /\ Becomes(<<>>)
    /\ SameCall /\ UNCHANGED <<error, hidden, told, outcome>>

Report ==
    /\ Heads("tell")
    /\ Becomes(<<>>)
    /\ told' = TRUE
    /\ SameCall /\ UNCHANGED <<error, hidden, outcome>>

\* That a thing is not there is an answer, and no failure.
Overlook ==
    /\ Heads("forget")
    /\ Becomes(<<>>)
    /\ hidden' = hidden \cup (IF error = "missing" THEN {} ELSE {last})
    /\ SameCall /\ UNCHANGED <<error, told, outcome>>

Fails ==
    /\ \/ Heads("raise") /\ \E kind \in Head(todo).kinds : Throw(kind)
       \/ Heads("reraise") /\ Throw(error)
    /\ SameCall /\ UNCHANGED <<hidden, told>>

Finish ==
    /\ outcome = "none"
    /\ todo = <<>>
    /\ outcome' = "returned"
    /\ SameCall /\ UNCHANGED <<todo, error, hidden, told>>

OpNext ==
    \/ \E way \in {"ok"} \cup Failures : Send(way)
    \/ Branch \/ Repeat \/ Enter \/ Leave \/ Report \/ Overlook \/ Fails
    \/ Finish

OpSpec == OpInit /\ [][OpNext]_opVars

-----------------------------------------------------------------------------
(* What callers rely on                                                    *)

\* The adapters that send with retry=False, or under a key of their own,
\* whatever makes a new thing.
Careful == {
    "accounting_saga_web", "altex", "altex_client", "appstore_apple",
    "appstore_apple_client", "bapp_store", "bapp_store_client",
    "courier_cargus", "courier_cargus_client", "courier_dpd",
    "courier_dpd_client", "courier_ecolet", "courier_ecolet_client",
    "courier_fancourier", "courier_fancourier_client", "courier_gls",
    "courier_gls_client", "devops_gitlab", "devops_gitlab_client",
    "email_imap_client", "email_smtp", "email_smtp_client", "erp_bapp",
    "librapay", "monitoring_sentry", "monitoring_sentry_client", "temu",
    "temu_client", "woocommerce", "woocommerce_client"}

\* The operations that return as if nothing had happened after a request of
\* theirs that was to change something failed.
Quiet == [
    ads_google |-> {"set_ad_group_status", "set_campaign_status"},
    courier_gls |-> {"generate_awb"},
    email_imap_client |-> {"delete_uid", "move_uid", "set_seen"},
    email_smtp |-> {"delete_message", "mark_read", "move_message", "send",
                    "send_bulk"},
    email_smtp_client |-> {"send_email"},
    magento |-> {"delete_variant"},
    network_pfsense |-> {"set_dns_allowlist"},
    storage_dropbox |-> {"delete"},
    storage_ftp |-> {"delete"},
    storage_google_drive |-> {"delete"},
    storage_onedrive |-> {"delete"},
    storage_sftp |-> {"delete"},
    storage_webdav |-> {"delete"}]

MayBeQuiet == UNION {{<<p, o>> : o \in Quiet[p]} : p \in DOMAIN Quiet}

\* The adapters that raise another exception for some refusal: of status 403
\* (couriers, altex, gitlab, sentry, LinkedIn, YouTube, gmail), of a login with
\* a protocol other than HTTP, or named by a code in the answer (Meta).
Unheard == {
    "altex", "altex_client", "chat_goip_client", "courier_cargus",
    "courier_cargus_client", "courier_dpd", "courier_dpd_client",
    "courier_ecolet", "courier_ecolet_client", "courier_fancourier",
    "courier_fancourier_client", "devops_gitlab", "devops_gitlab_client",
    "email_gmail", "email_imap_client", "email_ses_client", "email_smtp",
    "email_smtp_client", "librapay", "monitoring_sentry",
    "monitoring_sentry_client", "social_facebook", "social_facebook_client",
    "social_instagram", "social_instagram_client", "social_linkedin",
    "social_linkedin_client", "social_meta", "social_youtube",
    "social_youtube_client", "storage_ftp", "storage_ftp_client",
    "storage_s3", "storage_s3_client", "storage_sftp", "storage_sftp_client",
    "storage_sftp_session", "storage_webdav", "storage_webdav_client",
    "trendyol", "trendyol_client"}

\* The operations in which a refusal may go by unheard, because a handler keeps
\* the failure to itself (Magento's look-up of a SKU, the detection of settings,
\* the labels of Sameday, Colete Online, eMAG and Okazii, the orders of Temu,
\* what the cloud stores look up and delete), makes another exception of it
\* (Magento's update of the stock), nobody looks at the status (downloads of the
\* cloud stores, PrestaShop's connection test), the login goes on without an
\* answer (CEL), or something else is tried (App Store, Magento's delete_product,
\* the amounts of Temu's orders).
Deaf == [
    ads_google |-> {"set_ad_group_status", "set_campaign_status"},
    appstore_apple |-> {"list_apps"},
    appstore_steam |-> {"get_app_stats", "list_apps"},
    cel |-> {"get_order", "get_orders", "get_products", "test_connection"},
    cel_client |-> {"get_categories", "get_order", "get_orders",
                    "get_products", "test_auth"},
    courier_colete_online |-> {"generate_awb"},
    courier_colete_online_client |-> {"download_awb"},
    courier_sameday |-> {"generate_awb"},
    courier_sameday_client |-> {"download_awb"},
    emag |-> {"get_awb_pdf", "get_order_awbs", "read_awb_pdf"},
    emag_client |-> {"read_awb_pdf"},
    magento |->
        {"create_variant", "delete_product", "delete_variant",
         "get_related_products", "get_variants", "set_related_products",
         "update_product", "update_product_price", "update_product_stock",
         "update_variant"},
    network_pfsense |-> {"set_dns_allowlist"},
    okazii |-> {"get_awb_pdf"},
    okazii_client |-> {"get_gdl_awb_pdf"},
    prestashop |-> {"get_attribute", "mark_order_paid", "paid_state_id",
                    "test_connection"},
    prestashop_client |-> {"api_resources", "test_auth"},
    social_threads |-> {"get_account", "get_post_stats"},
    storage_dropbox |-> {"delete", "exists", "open", "size"},
    storage_dropbox_client |-> {"download_file"},
    storage_google_drive |-> {"delete", "open"},
    storage_google_drive_client |-> {"download_file"},
    storage_onedrive |-> {"delete", "exists", "open", "size"},
    storage_onedrive_client |-> {"download_file"},
    temu |-> {"detect_credentials", "find_order_by_reference", "get_order",
              "get_order_amounts", "get_orders", "list_carriers"},
    woocommerce |-> {"detect_settings"}]

MayBeDeaf == UNION {{<<p, o>> : o \in Deaf[p]} : p \in DOMAIN Deaf}

\* Nothing is made twice in a call of a careful adapter, however often its
\* HTTP client sends a request whose answer was lost or was an error.
MadeOnce == provider \in Careful => repeated = {}

\* An operation that returns normally after its request to change something
\* failed, without a word of it, is one of Quiet.
WriteTold ==
    outcome = "returned" /\ hidden \cap Changes # {}
      => told \/ <<provider, operation>> \in MayBeQuiet

\* The operations that make something after a failure they keep to themselves:
\* magento takes the number it was given for the SKU when the product cannot be
\* read, PrestaShop the usual state for the paid one when the states cannot be
\* read; SMTP goes on with the next mail and IMAP with the copy.
MayBeBlind == {
    <<"email_imap_client", "move_uid">>, <<"email_smtp", "move_message">>,
    <<"email_smtp", "send_bulk">>, <<"magento", "create_variant">>,
    <<"prestashop", "mark_order_paid">>}

\* A failure that the caller never learns of does no harm: it is not that of a
\* request to change something, and nothing is made afterwards on the strength of
\* the answer that is missing.
NothingHidden ==
    WriteTold /\ (blind => <<provider, operation>> \in MayBeBlind)

\* A provider that refuses the credentials of any request is heard as
\* AuthenticationError, the one exception a Connection counts, whatever handlers
\* stand in between and whatever else is sent, or the result tells of a failure;
\* but for the adapters of Unheard and the operations of Deaf.
RefusalHeard ==
    /\ refused /\ ~told
    /\ provider \notin Unheard /\ <<provider, operation>> \notin MayBeDeaf
    => outcome \in {"none", "auth"}

-----------------------------------------------------------------------------
(* What the scripts of the catalogues are like                             *)

OpNodes(p, o) == Nodes(Script(p, o))

\* Nodes, Exposed, Covered and Having reach every block, for none is nested too
\* deep for them.
Nested(p, o) ==
    LET all == OpNodes(p, o)
        exposed == Exposed(Script(p, o))
        covered == Covered(Script(p, o))
    IN /\ all \subseteq ScriptNode(all)
       /\ Script(p, o) \in Seq(all)
       /\ exposed \subseteq all /\ Elements(Script(p, o)) \subseteq exposed
       /\ covered \subseteq all
       /\ \A n \in exposed :
            /\ Elements(n.other) \subseteq exposed
            /\ Elements(n.body) \subseteq IF Tells(n) THEN covered ELSE exposed
       /\ \A n \in covered :
            Elements(n.body) \cup Elements(n.other) \subseteq covered
       /\ \A deeds \in {{"forget"}, {"make"}, Changes} :
            LET having == Having(all, deeds)
            IN \A n \in all :
                 Deeds(n) \cap deeds # {}
                   \/ (Elements(n.body) \cup Elements(n.other)) \cap having # {}
                 => n \in having

\* What is made is made with retry=False.
MakesOnce(p, o) == \A n \in OpNodes(p, o) : n.does = "make" => n.once

\* No status goes unread, and a handler of AuthenticationError raises it or tells
\* of it at once; in a block of which every failure is told, it may raise an
\* exception of another library.
Hears(p, o) ==
    /\ \A n \in OpNodes(p, o) : ~n.unread
    /\ Hear(Exposed(Script(p, o)), {"auth"})
    /\ Hear(Covered(Script(p, o)), {"auth", "broken"})

\* Nothing is made after a failure is forgotten.
Sighted(p, o) ==
    LET forgets == Having(OpNodes(p, o), {"forget"})
        makes == Having(OpNodes(p, o), {"make"})
    IN /\ Never(Script(p, o), forgets, makes)
       /\ NeverWithin(OpNodes(p, o), forgets, makes)

\* Only the answer to a read goes unread, and where something may have been
\* changed before, only the failure of a block of reads is forgotten.
Frank(p, o) ==
    LET all == OpNodes(p, o)
        forgets == Having(all, {"forget"})
        changes == Having(all, Changes)
        reads == Beginning(all, {n \in all : n.does = "ask"})
    IN /\ \A n \in all : n.unread => n.does = "ask"
       /\ \/ /\ Never(Script(p, o), changes, forgets)
             /\ NeverWithin(all, changes, forgets)
          \/ /\ NoForget(Script(p, o))
             /\ \A n \in all : Guards(n, reads, changes)

ASSUME CatalogueAssumption ==
    \A p \in DOMAIN Catalogue : \A o \in DOMAIN Catalogue[p] :
      /\ Nested(p, o)
      /\ p \in Careful => MakesOnce(p, o)
      /\ p \notin Unheard /\ <<p, o>> \notin MayBeDeaf => Hears(p, o)
      /\ <<p, o>> \notin MayBeBlind => Sighted(p, o)
      /\ <<p, o>> \notin MayBeQuiet => Frank(p, o)

=============================================================================
