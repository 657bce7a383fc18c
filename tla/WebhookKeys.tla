---------------------------- MODULE WebhookKeys ----------------------------
(***************************************************************************)
(* The idempotency key under which WebhookService stores a notification:   *)
(* the one the adapter reads out of it, or a hash of the body.  Two        *)
(* notifications with the same key are one to the receiver.                *)
(*                                                                         *)
(* A notification is known by its parts: the id the provider gave it (in   *)
(* the body or a header), the order, payment, message or issue it is       *)
(* about, what it reports of that (status), the result code it reports it  *)
(* with, and its time.  Parts are numbers; 0 is a part that is missing.    *)
(***************************************************************************)
EXTENDS Naturals

Parts == {"id", "subject", "status", "code", "time"}

Fact == [Parts -> Nat]

\* A key made of some parts.
By(fact, parts) == [p \in Parts |-> IF p \in parts THEN fact[p] ELSE 0]

NoKey == [p \in Parts |-> 0]

\* compute_idempotency_key.
BodyKey(fact) == By(fact, {"subject", "status", "code", "time"})

-----------------------------------------------------------------------------
(* parse_webhook of the adapters                                           *)

\* The provider numbers its notifications.
ById(fact) == By(fact, {"id"})

StripeKey(fact) == ById(fact)
PayPalKey(fact) == ById(fact)
ShopifyKey(fact) == ById(fact)
AppleKey(fact) == ById(fact)
GooglePlayKey(fact) == ById(fact)
WooCommerceKey(fact) == ById(fact)
MatrixKey(fact) == ById(fact)

\* An event of the gateway has an id; interactions are no events to the adapter.
DiscordKey(fact) == ById(fact)

\* Of what comes from Messenger and Instagram only a message has an id.
MessengerKey(fact) == ById(fact)
InstagramKey(fact) == ById(fact)

SentryKey(fact) ==
    IF fact.id # 0 THEN ById(fact) ELSE By(fact, {"subject", "status"})

\* crc, or the order.
MobilPayKey(fact) == IF fact.id # 0 THEN ById(fact) ELSE By(fact, {"subject"})

TemuKey(fact) == By(fact, {"subject", "status", "time"})

GitLabKey(fact) == By(fact, {"subject", "time"})

\* Faulty variant: the key of the first version, see the comment in the source.
NetopiaKeyPayment(fact) == By(fact, {"subject"})

NetopiaKey(fact) == By(fact, {"subject", "status"})

BappStoreKey(fact) == By(fact, {"subject", "status"})

TrendyolKey(fact) ==
    IF fact.subject # 0 THEN By(fact, {"subject", "status"}) ELSE NoKey

EmagKey(fact) ==
    IF fact.subject # 0 THEN By(fact, {"subject", "status"}) ELSE NoKey

\* Only an approved payment is an event.
Approved == 1

CardinityKey(fact) ==
    IF fact.status = Approved THEN By(fact, {"subject"}) ELSE NoKey

\* A refund is reported with the code of the sale.
LibraPayKey(fact) == By(fact, {"subject", "code"})

\* Suspect and approved, received and cancelled, sent and read: one key.
EuPlatescKey(fact) == By(fact, {"subject"})
UtrustKey(fact) == By(fact, {"subject"})
WhatsAppKey(fact) == By(fact, {"subject"})

\* The commit a push ends at, whatever it was pushed to.
GitLabPushKey(fact) == By(fact, {"subject"})

-----------------------------------------------------------------------------
(* The adapters together                                                   *)

\* The host lets the receiver view handle its webhooks: no adapter is asked.
AdapterKey(provider, fact) ==
    CASE provider = "stripe"      -> StripeKey(fact)
      [] provider = "paypal"      -> PayPalKey(fact)
      [] provider = "shopify"     -> ShopifyKey(fact)
      [] provider = "apple"       -> AppleKey(fact)
      [] provider = "google_play" -> GooglePlayKey(fact)
      [] provider = "woocommerce" -> WooCommerceKey(fact)
      [] provider = "matrix"      -> MatrixKey(fact)
      [] provider = "discord"     -> DiscordKey(fact)
      [] provider = "messenger"   -> MessengerKey(fact)
      [] provider = "instagram"   -> InstagramKey(fact)
      [] provider = "sentry"      -> SentryKey(fact)
      [] provider = "mobilpay"    -> MobilPayKey(fact)
      [] provider = "temu"        -> TemuKey(fact)
      [] provider = "gitlab"      -> GitLabKey(fact)
      [] provider = "netopia"     -> NetopiaKey(fact)
      [] provider = "bapp_store"  -> BappStoreKey(fact)
      [] provider = "trendyol"    -> TrendyolKey(fact)
      [] provider = "emag"        -> EmagKey(fact)
      [] provider = "cardinity"   -> CardinityKey(fact)
      [] provider = "librapay"    -> LibraPayKey(fact)
      [] provider = "euplatesc"   -> EuPlatescKey(fact)
      [] provider = "utrust"      -> UtrustKey(fact)
      [] provider = "whatsapp"    -> WhatsAppKey(fact)
      [] provider = "gitlab_push" -> GitLabPushKey(fact)
      [] OTHER                    -> NoKey

\* The adapter's key, or that of the dispatcher if it has none.  The texts of the
\* one and the other are never the same.
Key(provider, fact) ==
    LET key == AdapterKey(provider, fact)
    IN IF key = NoKey THEN [own |-> FALSE, parts |-> BodyKey(fact)]
                      ELSE [own |-> TRUE, parts |-> key]

\* One key for each status of a subject: a second report of it is no other one.
ByStatus == {"netopia", "bapp_store", "trendyol", "emag", "cardinity",
             "sentry"}

\* One key for what may be several statuses of a subject.
Blurring == {"librapay", "euplatesc", "utrust", "whatsapp", "gitlab_push",
             "mobilpay"}

\* Every notification has a key of its own.
Telling ==
    {"view", "stripe", "paypal", "shopify", "apple", "google_play",
     "woocommerce", "matrix", "discord", "messenger", "instagram", "temu",
     "gitlab"}

Providers == Telling \cup ByStatus \cup Blurring

\* What a row that holds one notification can say of another with its key.
Covers(provider, held, fact) ==
    /\ held.subject = fact.subject
    /\ provider \notin Blurring => held.status = fact.status
    /\ provider \in Telling => held = fact

=============================================================================
