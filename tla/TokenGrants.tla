---------------------------- MODULE TokenGrants ----------------------------
(***************************************************************************)
(* What the adapters make of an answer that carries credentials: the part  *)
(* of the stored credentials that it replaces.  The host merges this patch *)
(* into what it has.                                                       *)
(*                                                                         *)
(* Keys and tokens are numbers in the order the provider issues them; 0    *)
(* stands for the empty string and for a field that is missing.  The two   *)
(* credentials are called access (token, access_token, consumer_key) and   *)
(* refresh (refresh_token) whatever an adapter calls them; the application *)
(* credentials never change and are left out.                              *)
(***************************************************************************)
EXTENDS Naturals

Fields == {"access", "refresh"}

\* Faulty variant: what is stored wins over what was issued.
MergedStored(credentials, patch) ==
    [f \in Fields |-> IF f \in DOMAIN patch /\ credentials[f] = 0
                      THEN patch[f] ELSE credentials[f]]

\* {**credentials, **patch}
Merged(credentials, patch) ==
    [f \in Fields |-> IF f \in DOMAIN patch THEN patch[f] ELSE credentials[f]]

\* Faulty variant: the access token is preferred.
CurrentAccess(credentials) ==
    IF credentials.access # 0 THEN credentials.access ELSE credentials.refresh

\* creds.get("refresh_token") or creds.get("token") or creds.get("access_token")
Current(credentials) ==
    IF credentials.refresh # 0 THEN credentials.refresh ELSE credentials.access

-----------------------------------------------------------------------------
(* Patches                                                                 *)

Both(a) == [access |-> a.access, refresh |-> a.refresh]

AccessOnly(a) == [access |-> a.access]

KeepSent(a, sent) == [access |-> a.access, refresh |-> sent]

\* exchange_code_for_token
YouTubeExchange(a) == Both(a)
GoogleDriveExchange(a) == Both(a)
GoogleAdsExchange(a) == Both(a)
MicrosoftAdsExchange(a) == Both(a)
DropboxExchange(a) == Both(a)
OneDriveExchange(a) == Both(a)
FacebookExchange(a) == AccessOnly(a)
FacebookAdsExchange(a) == AccessOnly(a)
InstagramExchange(a) == AccessOnly(a)
ThreadsExchange(a) == AccessOnly(a)
MetaExchange(a) == AccessOnly(a)
TikTokExchange(a) == AccessOnly(a)
LinkedInExchange(a) == AccessOnly(a)
LinkedInAdsExchange(a) == AccessOnly(a)
PinterestExchange(a) == AccessOnly(a)
PinterestAdsExchange(a) == AccessOnly(a)
TikTokAdsExchange(a) == AccessOnly(a)
ShopifyExchange(a) == AccessOnly(a)
WooCommerceExchange(a) == AccessOnly(a)

\* refresh_token
YouTubeRefresh(a, sent) == KeepSent(a, sent)
GoogleDriveRefresh(a, sent) == KeepSent(a, sent)
GoogleAdsRefresh(a, sent) == KeepSent(a, sent)
MicrosoftAdsRefresh(a, sent) == KeepSent(a, sent)
DropboxRefresh(a, sent) == KeepSent(a, sent)

\* Faulty variant: written like its neighbours.
OneDriveRefreshSent(a, sent) == KeepSent(a, sent)

\* new_refresh = data.get("refresh_token", refresh_token)
OneDriveRefresh(a, sent) ==
    KeepSent(a, IF a.refresh # 0 THEN a.refresh ELSE sent)

FacebookRefresh(a, sent) == AccessOnly(a)
FacebookAdsRefresh(a, sent) == AccessOnly(a)
InstagramRefresh(a, sent) == AccessOnly(a)
ThreadsRefresh(a, sent) == AccessOnly(a)
MetaRefresh(a, sent) == AccessOnly(a)
TikTokRefresh(a, sent) == AccessOnly(a)
LinkedInRefresh(a, sent) == AccessOnly(a)
LinkedInAdsRefresh(a, sent) == AccessOnly(a)
PinterestRefresh(a, sent) == AccessOnly(a)
PinterestAdsRefresh(a, sent) == AccessOnly(a)

\* The header X-Saga-Refresh-Token.
SagaWebPatch(a) == AccessOnly(a)

\* pinterest (social) alone refuses an answer without an access token.
Usable(p, a) == p = "pinterest" => a.access # 0

-----------------------------------------------------------------------------
(* The providers together                                                  *)

ExchangePatch(p, a) ==
    CASE p = "youtube"       -> YouTubeExchange(a)
      [] p = "google_drive"  -> GoogleDriveExchange(a)
      [] p = "google_ads"    -> GoogleAdsExchange(a)
      [] p = "microsoft_ads" -> MicrosoftAdsExchange(a)
      [] p = "dropbox"       -> DropboxExchange(a)
      [] p = "onedrive"      -> OneDriveExchange(a)
      [] p = "facebook"      -> FacebookExchange(a)
      [] p = "facebook_ads"  -> FacebookAdsExchange(a)
      [] p = "instagram"     -> InstagramExchange(a)
      [] p = "threads"       -> ThreadsExchange(a)
      [] p = "meta"          -> MetaExchange(a)
      [] p = "tiktok"        -> TikTokExchange(a)
      [] p = "linkedin"      -> LinkedInExchange(a)
      [] p = "linkedin_ads"  -> LinkedInAdsExchange(a)
      [] p = "pinterest"     -> PinterestExchange(a)
      [] p = "pinterest_ads" -> PinterestAdsExchange(a)
      [] p = "tiktok_ads"    -> TikTokAdsExchange(a)
      [] p = "shopify"       -> ShopifyExchange(a)
      [] p = "woocommerce"   -> WooCommerceExchange(a)

RefreshPatch(p, a, sent) ==
    CASE p = "youtube"       -> YouTubeRefresh(a, sent)
      [] p = "google_drive"  -> GoogleDriveRefresh(a, sent)
      [] p = "google_ads"    -> GoogleAdsRefresh(a, sent)
      [] p = "microsoft_ads" -> MicrosoftAdsRefresh(a, sent)
      [] p = "dropbox"       -> DropboxRefresh(a, sent)
      [] p = "onedrive"      -> OneDriveRefresh(a, sent)
      [] p = "facebook"      -> FacebookRefresh(a, sent)
      [] p = "facebook_ads"  -> FacebookAdsRefresh(a, sent)
      [] p = "instagram"     -> InstagramRefresh(a, sent)
      [] p = "threads"       -> ThreadsRefresh(a, sent)
      [] p = "meta"          -> MetaRefresh(a, sent)
      [] p = "tiktok"        -> TikTokRefresh(a, sent)
      [] p = "linkedin"      -> LinkedInRefresh(a, sent)
      [] p = "linkedin_ads"  -> LinkedInAdsRefresh(a, sent)
      [] p = "pinterest"     -> PinterestRefresh(a, sent)
      [] p = "pinterest_ads" -> PinterestAdsRefresh(a, sent)

-----------------------------------------------------------------------------
(* How the providers grant: modelled from what the adapters say of them.   *)

\* One refresh token for as long as the user does not withdraw it.
Steady == {"youtube", "google_drive", "google_ads", "microsoft_ads", "dropbox",
           "linkedin", "linkedin_ads", "pinterest", "pinterest_ads"}

\* Every refresh replaces the refresh token.
Rotating == {"onedrive", "tiktok"}

\* No refresh token: an access token is exchanged for a younger one.
Exchanging == {"facebook", "facebook_ads", "instagram", "threads", "meta"}

\* Credentials that do not expire; refresh_token raises.
Permanent == {"tiktok_ads", "shopify", "woocommerce"}

OAuthProviders == Steady \cup Rotating \cup Exchanging \cup Permanent
Providers == OAuthProviders \cup {"saga_web"}

\* Adapters whose patch leaves out the refresh token that they are given.
Forgetting == {"tiktok", "linkedin", "linkedin_ads", "pinterest",
               "pinterest_ads"}

=============================================================================
