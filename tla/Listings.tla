----------------------------- MODULE Listings -----------------------------
(***************************************************************************)
(* What one call of a provider's listing method (get_products, get_orders, *)
(* get_shipments, get_invoices) answers: the items of a page, the cursor   *)
(* of the next one and has_more.  The adapters agree on the result type    *)
(* and on little else: each has its own idea of a cursor and of the end.   *)
(*                                                                         *)
(* A listing is the sequence of its rows in the order the provider gives   *)
(* them.  Rows are numbers that grow in the order of creation.  A cursor   *)
(* is a number too; 0 stands for None and for the empty string.            *)
(***************************************************************************)
EXTENDS Naturals, Sequences

CONSTANT PageSize  \* the rows on a page, at every provider

ASSUME PageSizeAssumption == PageSize \in Nat \ {0}

-----------------------------------------------------------------------------
(* The providers: what they send for a page, counted from 1.               *)

Rows(listing) == {listing[i] : i \in DOMAIN listing}

\* A page that begins behind the given number of rows.
RemoteFrom(listing, start) ==
    SubSeq(listing, start + 1,
           IF start + PageSize < Len(listing) THEN start + PageSize
                                              ELSE Len(listing))

RemotePage(listing, page) == RemoteFrom(listing, (page - 1) * PageSize)

RemotePages(listing) == (Len(listing) + PageSize - 1) \div PageSize

\* Rows created after the given one, oldest first.
RemoteSince(listing, row) ==
    LET last == CHOOSE k \in 0..Len(listing) :
                  /\ k > 0 => listing[k] <= row
                  /\ k < Len(listing) => listing[k + 1] > row
    IN RemoteFrom(listing, last)

\* Rows created before the given one, newest first; all of them behind none.
RemoteBefore(listing, row) ==
    LET last == CHOOSE k \in 0..Len(listing) :
                  /\ k > 0 => row > 0 /\ listing[k] >= row
                  /\ k < Len(listing) => row = 0 \/ listing[k + 1] < row
    IN SubSeq(listing, last + 1, Len(listing))

-----------------------------------------------------------------------------
(* The adapters.                                                           *)

Answer(items, cursor, more) ==
    [items |-> items, cursor |-> IF more THEN cursor ELSE 0, has_more |-> more]

\* page = int(cursor) if cursor else 1
Page(cursor) == IF cursor = 0 THEN 1 ELSE cursor

\* Faulty variant: a full page counts as the last one.
FullPageShort(listing, cursor) ==
    LET items == RemotePage(listing, Page(cursor))
    IN Answer(items, Page(cursor) + 1, Len(items) > PageSize)

\* Faulty variant: the cursor is handed out at the end of the listing too.
FullPageEndless(listing, cursor) ==
    LET items == RemotePage(listing, Page(cursor))
    IN [items |-> items, cursor |-> Page(cursor) + 1,
        has_more |-> Len(items) >= PageSize]

\* The provider says nothing of the end: a full page may have another one
\* behind it.
FullPage(listing, cursor) ==
    LET items == RemotePage(listing, Page(cursor))
    IN Answer(items, Page(cursor) + 1, Len(items) >= PageSize)

WooCommerceProducts(listing, cursor) == FullPage(listing, cursor)
WooCommerceOrders(listing, cursor) == FullPage(listing, cursor)
GomagProducts(listing, cursor) == FullPage(listing, cursor)
GomagOrders(listing, cursor) == FullPage(listing, cursor)
GomagCustomers(listing, cursor) == FullPage(listing, cursor)
PrestaShopProducts(listing, cursor) == FullPage(listing, cursor)
TemuGoods(listing, cursor) == FullPage(listing, cursor)
CargusShipments(listing, cursor) == FullPage(listing, cursor)

\* The provider counts its rows.
CountedRows(listing, cursor) ==
    Answer(RemotePage(listing, Page(cursor)), Page(cursor) + 1,
           Page(cursor) * PageSize < Len(listing))

MagentoProducts(listing, cursor) == CountedRows(listing, cursor)

\* Behind the last row the count, stale or not, is not believed.
TemuOrders(listing, cursor) ==
    LET answer == CountedRows(listing, cursor)
    IN Answer(answer.items, answer.cursor,
              answer.items # <<>> /\ answer.has_more)

\* The provider counts its pages.
CountedPages(listing, cursor) ==
    Answer(RemotePage(listing, Page(cursor)), Page(cursor) + 1,
           Page(cursor) < RemotePages(listing))

EmagProducts(listing, cursor) == CountedPages(listing, cursor)
AltexOffers(listing, cursor) == CountedPages(listing, cursor)
AltexOrders(listing, cursor) == CountedPages(listing, cursor)
PayPalTransactions(listing, cursor) == CountedPages(listing, cursor)
TikTokAdsCampaigns(listing, cursor) == CountedPages(listing, cursor)
SamedayShipments(listing, cursor) == CountedPages(listing, cursor)
EcoletShipments(listing, cursor) == CountedPages(listing, cursor)
BappStoreProducts(listing, cursor) == CountedPages(listing, cursor)

\* The provider names the next page as long as there is one; here its number.
NamedPages(listing, cursor) == CountedPages(listing, cursor)

BappStoreOrders(listing, cursor) == NamedPages(listing, cursor)
YouTubePosts(listing, cursor) == NamedPages(listing, cursor)
PinterestPosts(listing, cursor) == NamedPages(listing, cursor)
PinterestAdsCampaigns(listing, cursor) == NamedPages(listing, cursor)
GoogleAdsCampaigns(listing, cursor) == NamedPages(listing, cursor)
GoogleAdsGroups(listing, cursor) == NamedPages(listing, cursor)
GoogleAds(listing, cursor) == NamedPages(listing, cursor)
LinkedInAdsCampaigns(listing, cursor) == NamedPages(listing, cursor)
AppleReviews(listing, cursor) == NamedPages(listing, cursor)
SentryIssues(listing, cursor) == NamedPages(listing, cursor)
GitLabIssues(listing, cursor) == NamedPages(listing, cursor)

\* A day or a month is a page, the first one that of no cursor.
DailyReports(listing, cursor) == CountedPages(listing, cursor)
MonthlyReports(listing, cursor) == CountedPages(listing, cursor)

\* The same from 0, so that no cursor at all is the first page.
TrendyolOrders(listing, cursor) ==
    Answer(RemotePage(listing, cursor + 1), cursor + 1,
           cursor + 1 < RemotePages(listing))

TrendyolSettlements(listing, cursor) == TrendyolOrders(listing, cursor)

\* A full page comes with a token, here the number of the next page.
TrendyolProducts(listing, cursor) ==
    LET items == RemotePage(listing, cursor + 1)
    IN Answer(items, cursor + 1, Len(items) >= PageSize)

\* Faulty variant: the cursor is one behind the last row of the page.
ShopifyProductsNext(listing, cursor) ==
    LET items == RemoteSince(listing, cursor)
    IN Answer(items, IF items = <<>> THEN 0 ELSE items[Len(items)] + 1,
              Len(items) >= PageSize)

\* The cursor is the last row of the page, sent back as since_id.
ShopifyProducts(listing, cursor) ==
    LET items == RemoteSince(listing, cursor)
    IN Answer(items, IF items = <<>> THEN 0 ELSE items[Len(items)],
              Len(items) >= PageSize)

\* The whole listing in one answer.
Whole(listing) == Answer(listing, 0, FALSE)

VendigoProducts(listing, cursor) == Whole(listing)
VendigoOrders(listing, cursor) == Whole(listing)
OkaziiOrders(listing, cursor) == Whole(listing)
PrestaShopOrders(listing, cursor) == Whole(listing)

\* The first rows alone: there is never a cursor to go on with.
CelProducts(listing, cursor) == Answer(RemotePage(listing, 1), 0, FALSE)

\* The number of rows read so far.
LinkedInPosts(listing, cursor) ==
    Answer(RemoteFrom(listing, cursor), cursor + PageSize,
           cursor + PageSize < Len(listing))

\* The last of some rows, from which older ones are asked for.
LastOf(items) == IF items = <<>> THEN 0 ELSE items[Len(items)]

\* Newest first, the cursor is the last row of the page.
OlderRows(listing, cursor) ==
    LET rows  == RemoteBefore(listing, cursor)
        items == RemotePage(rows, 1)
    IN Answer(items, LastOf(items), Len(rows) > PageSize)

TikTokPosts(listing, cursor) == OlderRows(listing, cursor)
StripeTransactions(listing, cursor) == OlderRows(listing, cursor)
StripePayouts(listing, cursor) == OlderRows(listing, cursor)

\* The same with the cursor handed out at the end of the listing too.
Edge(listing, cursor) ==
    [OlderRows(listing, cursor) EXCEPT
       !.cursor = LastOf(RemotePage(RemoteBefore(listing, cursor), 1))]

FacebookPosts(listing, cursor) == Edge(listing, cursor)
InstagramPosts(listing, cursor) == Edge(listing, cursor)
ThreadsPosts(listing, cursor) == Edge(listing, cursor)
MetaAdsCampaigns(listing, cursor) == Edge(listing, cursor)

\* Payments with the status that is asked for.
Matching(r) == r % 3 = 1

\* The page is filtered by status after it has come; the cursor is the last row
\* that is left, and none if none is: the next call reads the first page again.
StripePayments(listing, cursor) ==
    LET page  == OlderRows(listing, cursor)
        items == SelectSeq(page.items, Matching)
    IN [items |-> items, has_more |-> page.has_more,
        cursor |-> IF page.has_more THEN LastOf(items) ELSE 0]

\* Rows in two groups, each walked to its last page before the next one, an
\* empty one too.  A cursor is a group and a page.
GroupCursor(group, page) == 2 * page + group

Grouped(listing, cursor) ==
    LET group   == cursor % 2
        page    == IF cursor = 0 THEN 1 ELSE cursor \div 2
        In(r)   == r % 2 = group
        rows    == SelectSeq(listing, In)
    IN Answer(RemotePage(rows, page),
              IF page < RemotePages(rows) THEN GroupCursor(group, page + 1)
                                          ELSE GroupCursor(group + 1, 1),
              page < RemotePages(rows) \/ group = 0)

GitLabProjects(listing, cursor) == Grouped(listing, cursor)
GooglePlayRefunds(listing, cursor) == Grouped(listing, cursor)

\* has_more without a cursor: the next call reads the same page again.
EmagInvoices(listing, cursor) ==
    LET items == RemotePage(listing, Page(cursor))
    IN [items |-> items, cursor |-> 0, has_more |-> Len(items) >= PageSize]

-----------------------------------------------------------------------------
(* The listings together.                                                  *)

Listing(name, listing, cursor) ==
    CASE name = "woocommerce"          -> WooCommerceProducts(listing, cursor)
      [] name = "woocommerce_orders"   -> WooCommerceOrders(listing, cursor)
      [] name = "gomag"                -> GomagProducts(listing, cursor)
      [] name = "gomag_orders"         -> GomagOrders(listing, cursor)
      [] name = "gomag_customers"      -> GomagCustomers(listing, cursor)
      [] name = "prestashop"           -> PrestaShopProducts(listing, cursor)
      [] name = "prestashop_orders"    -> PrestaShopOrders(listing, cursor)
      [] name = "temu"                 -> TemuGoods(listing, cursor)
      [] name = "temu_orders"          -> TemuOrders(listing, cursor)
      [] name = "cargus"               -> CargusShipments(listing, cursor)
      [] name = "magento"              -> MagentoProducts(listing, cursor)
      [] name = "emag"                 -> EmagProducts(listing, cursor)
      [] name = "emag_invoices"        -> EmagInvoices(listing, cursor)
      [] name = "altex"                -> AltexOffers(listing, cursor)
      [] name = "altex_orders"         -> AltexOrders(listing, cursor)
      [] name = "sameday"              -> SamedayShipments(listing, cursor)
      [] name = "ecolet"               -> EcoletShipments(listing, cursor)
      [] name = "trendyol"             -> TrendyolProducts(listing, cursor)
      [] name = "trendyol_orders"      -> TrendyolOrders(listing, cursor)
      [] name = "trendyol_settlements" -> TrendyolSettlements(listing, cursor)
      [] name = "bapp_store"           -> BappStoreProducts(listing, cursor)
      [] name = "bapp_store_orders"    -> BappStoreOrders(listing, cursor)
      [] name = "shopify"              -> ShopifyProducts(listing, cursor)
      [] name = "vendigo"              -> VendigoProducts(listing, cursor)
      [] name = "vendigo_orders"       -> VendigoOrders(listing, cursor)
      [] name = "okazii_orders"        -> OkaziiOrders(listing, cursor)
      [] name = "cel"                  -> CelProducts(listing, cursor)
      [] name = "paypal"               -> PayPalTransactions(listing, cursor)
      [] name = "stripe"               -> StripeTransactions(listing, cursor)
      [] name = "stripe_payouts"       -> StripePayouts(listing, cursor)
      [] name = "stripe_payments"      -> StripePayments(listing, cursor)
      [] name = "facebook"             -> FacebookPosts(listing, cursor)
      [] name = "instagram"            -> InstagramPosts(listing, cursor)
      [] name = "threads"              -> ThreadsPosts(listing, cursor)
      [] name = "tiktok"               -> TikTokPosts(listing, cursor)
      [] name = "linkedin"             -> LinkedInPosts(listing, cursor)
      [] name = "youtube"              -> YouTubePosts(listing, cursor)
      [] name = "pinterest"            -> PinterestPosts(listing, cursor)
      [] name = "meta_ads"             -> MetaAdsCampaigns(listing, cursor)
      [] name = "tiktok_ads"           -> TikTokAdsCampaigns(listing, cursor)
      [] name = "pinterest_ads"        -> PinterestAdsCampaigns(listing, cursor)
      [] name = "linkedin_ads"         -> LinkedInAdsCampaigns(listing, cursor)
      [] name = "google_ads"           -> GoogleAdsCampaigns(listing, cursor)
      [] name = "google_ads_groups"    -> GoogleAdsGroups(listing, cursor)
      [] name = "google_ads_ads"       -> GoogleAds(listing, cursor)
      [] name = "apple_reviews"        -> AppleReviews(listing, cursor)
      [] name = "daily_reports"        -> DailyReports(listing, cursor)
      [] name = "monthly_reports"      -> MonthlyReports(listing, cursor)
      [] name = "google_play_refunds"  -> GooglePlayRefunds(listing, cursor)
      [] name = "sentry"               -> SentryIssues(listing, cursor)
      [] name = "gitlab_issues"        -> GitLabIssues(listing, cursor)
      [] name = "gitlab_projects"      -> GitLabProjects(listing, cursor)

ListingNames ==
    {"woocommerce", "woocommerce_orders", "gomag", "gomag_orders",
     "gomag_customers", "prestashop", "prestashop_orders", "temu",
     "temu_orders", "cargus", "magento", "emag", "emag_invoices", "altex",
     "altex_orders", "sameday", "ecolet", "trendyol", "trendyol_orders",
     "trendyol_settlements", "bapp_store", "bapp_store_orders", "shopify",
     "vendigo", "vendigo_orders", "okazii_orders", "cel", "paypal", "stripe",
     "stripe_payouts", "stripe_payments", "facebook", "instagram", "threads",
     "tiktok", "linkedin", "youtube", "pinterest", "meta_ads", "tiktok_ads",
     "pinterest_ads", "linkedin_ads", "google_ads", "google_ads_groups",
     "google_ads_ads", "apple_reviews", "daily_reports", "monthly_reports",
     "google_play_refunds", "sentry", "gitlab_issues", "gitlab_projects"}

\* The row a page goes on from does not move when another row goes, or the page
\* is the whole listing; everywhere else positions are counted.
AllAtOnce == {"vendigo", "vendigo_orders", "okazii_orders", "prestashop_orders"}
Steady ==
    AllAtOnce \cup {"shopify", "stripe", "stripe_payouts", "stripe_payments",
                    "facebook", "instagram", "threads", "tiktok", "meta_ads"}

\* No cursor at all is the first page, which has the number 0.
FromZero == {"trendyol", "trendyol_orders", "trendyol_settlements"}

\* What the listing has of the rows: Stripe's payments are filtered by status.
Listed(name, rows) ==
    IF name = "stripe_payments" THEN {r \in rows : Matching(r)} ELSE rows

\* Adapters that can say has_more without a cursor: a loop on has_more reads
\* its first page for ever.
Cursorless == {"emag_invoices", "stripe_payments"}

\* Adapters that hand out no cursor although there are more rows.
FirstPageOnly == {"emag_invoices", "cel"}

\* The order that is asked for, or documented: newest first or oldest first; the
\* others leave it to the provider.
NewestFirst ==
    {"woocommerce", "woocommerce_orders", "trendyol_orders", "stripe",
     "stripe_payouts", "stripe_payments", "facebook", "instagram", "threads",
     "tiktok", "linkedin", "youtube", "meta_ads", "gitlab_projects"}
OldestFirst ==
    {"magento", "shopify", "google_ads", "daily_reports", "monthly_reports"}

=============================================================================
