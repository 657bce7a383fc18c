------------------------------ MODULE AdCalls ------------------------------
(***************************************************************************)
(* What the operations of the advertising adapters ask of their providers. *)
(***************************************************************************)
EXTENDS Calls

-----------------------------------------------------------------------------
(* Meta: an answer of status 200 may hold an error.                        *)

MetaAdsRefusal == Optional(RaiseAny({"auth", "limited", "server", "invalid"}))

MetaAdsClient == [
    account_path |-> Local,
    list_edge |-> Ask \o MetaAdsRefusal,
    get_object |-> Ask \o MetaAdsRefusal,
    get_insights |-> Ask \o MetaAdsRefusal,
    create |-> Make("create") \o MetaAdsRefusal,
    update |-> Change \o MetaAdsRefusal,
    upload_image |-> Make("image") \o MetaAdsRefusal,
    upload_video |-> Make("video") \o MetaAdsRefusal,
    create_creative_object |-> Make("creative_object") \o MetaAdsRefusal]

MetaAdsAccounts == [
    validate_credentials |-> Local,
    test_connection |-> Told(MetaAdsClient.get_object),
    get_authorize_url |-> Local,
    exchange_code_for_token |-> Ask \o MetaAdsRefusal,
    refresh_token |-> Ask \o MetaAdsRefusal,
    list_ad_accounts |-> Ask \o MetaAdsRefusal]

MetaAdsCampaigns == [
    list_campaigns |-> MetaAdsClient.list_edge,
    get_campaign |-> MetaAdsClient.get_object,
    create_campaign |->
        Make("campaign") \o MetaAdsRefusal \o MetaAdsClient.get_object,
    update_campaign |-> Change \o MetaAdsRefusal \o MetaAdsClient.get_object,
    set_campaign_status |->
        Change \o MetaAdsRefusal \o MetaAdsClient.get_object,
    list_ad_groups |-> MetaAdsClient.list_edge,
    get_ad_group |-> MetaAdsClient.get_object,
    create_ad_group |->
        Make("ad_group") \o MetaAdsRefusal \o MetaAdsClient.get_object,
    update_ad_group |-> Change \o MetaAdsRefusal \o MetaAdsClient.get_object,
    set_ad_group_status |->
        Change \o MetaAdsRefusal \o MetaAdsClient.get_object,
    list_ads |-> MetaAdsClient.list_edge,
    get_ad |-> MetaAdsClient.get_object,
    create_ad |->
        Optional(Raise("invalid"))
          \o Make("ad") \o MetaAdsRefusal \o MetaAdsClient.get_object,
    update_ad |->
        Optional(Raise("invalid"))
          \o Change \o MetaAdsRefusal \o MetaAdsClient.get_object,
    set_ad_status |->
        Optional(Raise("invalid"))
          \o Change \o MetaAdsRefusal \o MetaAdsClient.get_object]

MetaAdsMedia == [
    upload_media |->
        Either(Optional(Raise("invalid"))
                 \o MetaAdsClient.upload_image \o Optional(Raise("invalid")),
               Optional(Raise("invalid")) \o MetaAdsClient.upload_video),
    create_creative |->
        Optional(Raise("invalid")) \o MetaAdsClient.create_creative_object,
    get_insights |-> MetaAdsClient.get_insights]

-----------------------------------------------------------------------------
(* Google Ads                                                              *)

\* mutate creates, updates or removes.
GoogleAdsClient == [
    search |-> Ask,
    mutate |-> Either(Make("entity"), Change)]

GoogleAdsAccounts == [
    validate_credentials |-> Local,
    test_connection |-> Told(GoogleAdsClient.search),
    get_authorize_url |-> Local,
    exchange_code_for_token |-> Ask,
    refresh_token |-> Ask,
    list_accessible_customers |-> Ask]

GoogleAdsFound ==
    Optional(Raise("invalid"))
      \o GoogleAdsClient.search \o Optional(RaiseAny(Permanent))

GoogleAdsCampaigns == [
    list_campaigns |-> GoogleAdsClient.search,
    get_campaign |-> GoogleAdsFound,
    create_campaign |->
        Make("budget")
          \o Optional(Raise("invalid")) \o Make("campaign")
          \o Optional(Raise("invalid")) \o GoogleAdsFound,
    update_campaign |-> Optional(Raise("invalid")) \o Change \o GoogleAdsFound,
    set_campaign_status |->
        Optional(Raise("invalid"))
          \o Either(Drop \o Try(GoogleAdsFound, ConnectorErrors, Forget),
                    Optional(Raise("invalid")) \o Change \o GoogleAdsFound)]

GoogleAdsGroups == [
    list_ad_groups |-> Optional(Raise("invalid")) \o GoogleAdsClient.search,
    get_ad_group |-> GoogleAdsFound,
    create_ad_group |->
        Optional(Raise("invalid")) \o Make("ad_group") \o GoogleAdsFound,
    update_ad_group |-> Optional(Raise("invalid")) \o Change \o GoogleAdsFound,
    set_ad_group_status |->
        Optional(Raise("invalid"))
          \o Either(Drop \o Try(GoogleAdsFound, ConnectorErrors, Forget),
                    Optional(Raise("invalid")) \o Change \o GoogleAdsFound)]

GoogleAds == [
    list_ads |-> Optional(Raise("invalid")) \o GoogleAdsClient.search,
    get_ad |-> GoogleAdsFound,
    create_ad |-> Optional(Raise("invalid")) \o Make("ad") \o GoogleAdsFound,
    update_ad |->
        Optional(Raise("invalid"))
          \o GoogleAdsFound \o Optional(Raise("invalid"))
          \o Either(Drop,
                    Optional(Raise("invalid")) \o Change \o GoogleAdsFound),
    set_ad_status |->
        GoogleAdsFound
          \o Optional(Raise("invalid"))
          \o Either(Drop,
                    Optional(Raise("invalid")) \o Change \o GoogleAdsFound),
    upload_media |->
        Optional(Unsupported)
          \o Optional(Raise("invalid")) \o Make("media")
          \o Optional(Raise("invalid")),
    create_creative |-> Unsupported,
    get_insights |-> Optional(Raise("invalid")) \o GoogleAdsClient.search]

-----------------------------------------------------------------------------
(* LinkedIn Ads                                                            *)

\* Of the raw answer to a creation.
LinkedInAdsStatus == Optional(RaiseAny(ConnectorErrors \ {"unsupported"}))

LinkedInAdsClient == [
    list_campaign_groups |-> Ask,
    list_campaigns |-> Ask,
    list_creatives |-> Ask,
    get_campaign_group |-> Ask,
    get_campaign |-> Ask,
    get_creative |-> Ask,
    create_campaign_group |-> Make("campaign_group") \o LinkedInAdsStatus,
    create_campaign |-> Make("campaign") \o LinkedInAdsStatus,
    create_creative |-> Make("creative") \o LinkedInAdsStatus,
    update_campaign_group |-> Change,
    update_campaign |-> Change,
    update_creative |-> Change,
    get_account |-> Ask,
    search_ad_accounts |-> Ask,
    analytics |-> Ask]

LinkedInAdsAccounts == [
    validate_credentials |-> Local,
    test_connection |-> Told(LinkedInAdsClient.get_account),
    get_authorize_url |-> Local,
    exchange_code_for_token |-> Ask,
    refresh_token |-> Ask,
    list_ad_accounts |-> LinkedInAdsClient.search_ad_accounts]

LinkedInAds == [
    list_campaigns |-> LinkedInAdsClient.list_campaign_groups,
    get_campaign |-> LinkedInAdsClient.get_campaign_group,
    create_campaign |->
        LinkedInAdsClient.create_campaign_group
          \o LinkedInAdsClient.get_campaign_group,
    update_campaign |->
        Optional(Raise("invalid"))
          \o LinkedInAdsClient.update_campaign_group
          \o LinkedInAdsClient.get_campaign_group,
    set_campaign_status |->
        Optional(Raise("invalid"))
          \o LinkedInAdsClient.update_campaign_group
          \o LinkedInAdsClient.get_campaign_group,
    list_ad_groups |-> LinkedInAdsClient.list_campaigns,
    get_ad_group |-> LinkedInAdsClient.get_campaign,
    create_ad_group |->
        LinkedInAdsClient.create_campaign \o LinkedInAdsClient.get_campaign,
    update_ad_group |->
        Optional(Raise("invalid"))
          \o LinkedInAdsClient.update_campaign
          \o LinkedInAdsClient.get_campaign,
    set_ad_group_status |->
        Optional(Raise("invalid"))
          \o LinkedInAdsClient.update_campaign
          \o LinkedInAdsClient.get_campaign,
    list_ads |-> LinkedInAdsClient.list_creatives,
    get_ad |-> LinkedInAdsClient.get_creative,
    create_ad |->
        LinkedInAdsClient.create_creative \o LinkedInAdsClient.get_creative,
    update_ad |->
        Optional(Raise("invalid"))
          \o LinkedInAdsClient.update_creative
          \o LinkedInAdsClient.get_creative,
    set_ad_status |->
        Optional(Raise("invalid"))
          \o LinkedInAdsClient.update_creative
          \o LinkedInAdsClient.get_creative,
    get_insights |-> LinkedInAdsClient.analytics]

-----------------------------------------------------------------------------
(* Microsoft Ads: what one campaign or group holds is searched for through *)
(* all of them when its parent is not known.                               *)

MicrosoftRefusal ==
    Optional(RaiseAny(ConnectorErrors \ {"invalid", "unsupported"}))

MicrosoftFault == MicrosoftRefusal \o Optional(Raise("server"))

MicrosoftAdsClient == [
    get_campaigns |-> Ask \o MicrosoftFault,
    add_campaigns |-> Make("campaigns") \o MicrosoftFault \o MicrosoftRefusal,
    update_campaigns |-> Change \o MicrosoftFault,
    get_ad_groups |-> Ask \o MicrosoftFault,
    add_ad_groups |-> Make("ad_groups") \o MicrosoftFault \o MicrosoftRefusal,
    update_ad_groups |-> Change \o MicrosoftFault]

MicrosoftAdsClientAds == [
    get_ads |-> Ask \o MicrosoftFault,
    add_ads |-> Make("ads") \o MicrosoftFault \o MicrosoftRefusal,
    update_ads |-> Change \o MicrosoftFault,
    submit_report |-> Make("report") \o MicrosoftFault,
    poll_report |-> Ask \o MicrosoftFault,
    download_report |-> Ask \o Optional(Raise("server"))]

MicrosoftAdsAccounts == [
    validate_credentials |-> Local,
    test_connection |-> Told(MicrosoftAdsClient.get_campaigns),
    get_authorize_url |-> Local,
    exchange_code_for_token |-> Ask,
    refresh_token |-> Ask]

MicrosoftAd ==
    Either(MicrosoftAdsClientAds.get_ads
             \o Optional(MicrosoftAdsClient.get_campaigns
                           \o Each(MicrosoftAdsClient.get_ad_groups
                                     \o Each(MicrosoftAdsClientAds.get_ads))
                           \o Optional(RaiseAny(Permanent))),
           MicrosoftAdsClient.get_campaigns
             \o Each(MicrosoftAdsClient.get_ad_groups
                       \o Each(MicrosoftAdsClientAds.get_ads))
             \o Optional(RaiseAny(Permanent)))

MicrosoftAdsGroup ==
    Either(MicrosoftAdsClient.get_ad_groups
             \o Optional(MicrosoftAdsClient.get_campaigns
                           \o Each(MicrosoftAdsClient.get_ad_groups)
                           \o Optional(RaiseAny(Permanent))),
           MicrosoftAdsClient.get_campaigns
             \o Each(MicrosoftAdsClient.get_ad_groups)
             \o Optional(RaiseAny(Permanent)))

MicrosoftAds == [
    list_campaigns |-> MicrosoftAdsClient.get_campaigns,
    get_campaign |->
        MicrosoftAdsClient.get_campaigns \o Optional(RaiseAny(Permanent)),
    create_campaign |->
        MicrosoftAdsClient.add_campaigns
          \o Optional(Raise("server")) \o MicrosoftAdsClient.get_campaigns
          \o Optional(RaiseAny(Permanent)),
    update_campaign |->
        Optional(Raise("invalid"))
          \o MicrosoftAdsClient.update_campaigns
          \o MicrosoftAdsClient.get_campaigns \o Optional(RaiseAny(Permanent)),
    set_campaign_status |->
        Optional(Raise("invalid"))
          \o MicrosoftAdsClient.update_campaigns
          \o MicrosoftAdsClient.get_campaigns \o Optional(RaiseAny(Permanent)),
    list_ad_groups |->
        Optional(Raise("invalid")) \o MicrosoftAdsClient.get_ad_groups,
    get_ad_group |-> MicrosoftAdsGroup,
    create_ad_group |->
        Optional(Raise("invalid"))
          \o MicrosoftAdsClient.add_ad_groups \o Optional(Raise("server"))
          \o MicrosoftAdsGroup,
    update_ad_group |->
        Optional(Raise("invalid"))
          \o MicrosoftAdsGroup \o MicrosoftAdsClient.update_ad_groups
          \o MicrosoftAdsGroup,
    set_ad_group_status |->
        Optional(Raise("invalid"))
          \o MicrosoftAdsGroup \o MicrosoftAdsClient.update_ad_groups
          \o MicrosoftAdsGroup,
    list_ads |-> Optional(Raise("invalid")) \o MicrosoftAdsClientAds.get_ads,
    get_ad |-> MicrosoftAd,
    create_ad |->
        Optional(Raise("invalid"))
          \o MicrosoftAdsClientAds.add_ads \o Optional(Raise("server"))
          \o MicrosoftAd,
    update_ad |->
        Optional(Raise("invalid"))
          \o MicrosoftAd \o MicrosoftAdsClientAds.update_ads \o MicrosoftAd,
    set_ad_status |->
        Optional(Raise("invalid"))
          \o MicrosoftAd \o MicrosoftAdsClientAds.update_ads \o MicrosoftAd]

MicrosoftAdsReports == [
    get_insights |->
        Optional(MicrosoftAdsGroup)
          \o MicrosoftAdsClientAds.submit_report
          \o Each(MicrosoftAdsClientAds.poll_report)
          \o Optional(Raise("server"))
          \o Optional(MicrosoftAdsClientAds.download_report)]

-----------------------------------------------------------------------------
(* Pinterest Ads: a batch of one, whose item tells of an error.            *)

PinterestAdsClient == [
    account_path |-> Local,
    get_ad_account |-> Ask,
    list_campaigns |-> Ask,
    get_campaign |-> Ask,
    create_campaigns |-> Make("campaign"),
    update_campaigns |-> Change,
    list_ad_groups |-> Ask,
    get_ad_group |-> Ask,
    create_ad_groups |-> Make("group"),
    update_ad_groups |-> Change,
    list_ads |-> Ask,
    get_ad |-> Ask,
    create_ads |-> Make("ad"),
    update_ads |-> Change,
    get_account_analytics |-> Ask,
    get_campaign_analytics |-> Ask,
    get_ad_group_analytics |-> Ask,
    get_ad_analytics |-> Ask]

PinterestAdsAccounts == [
    validate_credentials |-> Local,
    test_connection |-> Told(PinterestAdsClient.get_ad_account),
    get_authorize_url |-> Local,
    exchange_code_for_token |-> Ask,
    refresh_token |-> Ask,
    list_ad_accounts |-> Ask]

PinterestAdsItem == Optional(Raise("client")) \o Optional(Raise("invalid"))

PinterestAds == [
    list_campaigns |-> PinterestAdsClient.list_campaigns,
    get_campaign |-> PinterestAdsClient.get_campaign,
    create_campaign |->
        PinterestAdsClient.create_campaigns \o PinterestAdsItem,
    update_campaign |->
        PinterestAdsClient.update_campaigns \o PinterestAdsItem,
    set_campaign_status |->
        PinterestAdsClient.update_campaigns \o PinterestAdsItem,
    list_ad_groups |-> PinterestAdsClient.list_ad_groups,
    get_ad_group |-> PinterestAdsClient.get_ad_group,
    create_ad_group |->
        PinterestAdsClient.create_ad_groups \o PinterestAdsItem,
    update_ad_group |->
        PinterestAdsClient.update_ad_groups \o PinterestAdsItem,
    set_ad_group_status |->
        PinterestAdsClient.update_ad_groups \o PinterestAdsItem,
    list_ads |-> PinterestAdsClient.list_ads,
    get_ad |-> PinterestAdsClient.get_ad,
    create_ad |->
        Optional(Raise("invalid"))
          \o PinterestAdsClient.create_ads \o PinterestAdsItem,
    update_ad |->
        Optional(Raise("invalid"))
          \o PinterestAdsClient.update_ads \o PinterestAdsItem,
    set_ad_status |->
        Optional(Raise("invalid"))
          \o PinterestAdsClient.update_ads \o PinterestAdsItem,
    get_insights |->
        Either(Either(PinterestAdsClient.get_account_analytics,
                      PinterestAdsClient.get_campaign_analytics),
               Either(PinterestAdsClient.get_ad_group_analytics,
                      PinterestAdsClient.get_ad_analytics))]

-----------------------------------------------------------------------------
(* TikTok Ads answers with status 200 and a code.                          *)

TikTokAdsRefusal == Optional(RaiseAny(ConnectorErrors \ {"unsupported"}))

TikTokAdsClient == [
    get_campaigns |-> Ask \o TikTokAdsRefusal,
    create_campaign |-> Make("campaign") \o TikTokAdsRefusal,
    update_campaign |-> Change \o TikTokAdsRefusal,
    update_campaign_status |-> Change \o TikTokAdsRefusal,
    get_adgroups |-> Ask \o TikTokAdsRefusal,
    create_adgroup |-> Make("adgroup") \o TikTokAdsRefusal,
    update_adgroup |-> Change \o TikTokAdsRefusal,
    update_adgroup_status |-> Change \o TikTokAdsRefusal,
    get_ads |-> Ask \o TikTokAdsRefusal,
    create_ad |-> Make("ad") \o TikTokAdsRefusal,
    update_ad |-> Change \o TikTokAdsRefusal,
    update_ad_status |-> Change \o TikTokAdsRefusal,
    upload_image |-> Make("image") \o TikTokAdsRefusal,
    upload_video |-> Make("video") \o TikTokAdsRefusal,
    get_report |-> Ask \o TikTokAdsRefusal]

TikTokAdsAccounts == [
    validate_credentials |-> Local,
    test_connection |-> Told(TikTokAdsClient.get_campaigns),
    get_authorize_url |-> Local,
    exchange_code_for_token |-> Ask \o TikTokAdsRefusal,
    refresh_token |-> Unsupported]

TikTokAds == [
    list_campaigns |-> TikTokAdsClient.get_campaigns,
    get_campaign |->
        TikTokAdsClient.get_campaigns \o Optional(Raise("client")),
    create_campaign |->
        TikTokAdsClient.create_campaign
          \o TikTokAdsClient.get_campaigns \o Optional(Raise("client")),
    update_campaign |->
        TikTokAdsClient.update_campaign
          \o TikTokAdsClient.get_campaigns \o Optional(Raise("client")),
    set_campaign_status |->
        Optional(Raise("invalid"))
          \o TikTokAdsClient.update_campaign_status
          \o TikTokAdsClient.get_campaigns \o Optional(Raise("client")),
    list_ad_groups |-> TikTokAdsClient.get_adgroups,
    get_ad_group |-> TikTokAdsClient.get_adgroups \o Optional(Raise("client")),
    create_ad_group |->
        TikTokAdsClient.create_adgroup
          \o TikTokAdsClient.get_adgroups \o Optional(Raise("client")),
    update_ad_group |->
        TikTokAdsClient.update_adgroup
          \o TikTokAdsClient.get_adgroups \o Optional(Raise("client")),
    set_ad_group_status |->
        Optional(Raise("invalid"))
          \o TikTokAdsClient.update_adgroup_status
          \o TikTokAdsClient.get_adgroups \o Optional(Raise("client")),
    list_ads |-> TikTokAdsClient.get_ads,
    get_ad |-> TikTokAdsClient.get_ads \o Optional(Raise("client")),
    create_ad |->
        TikTokAdsClient.create_ad
          \o Optional(Raise("client")) \o TikTokAdsClient.get_ads
          \o Optional(Raise("client")),
    update_ad |->
        TikTokAdsClient.update_ad
          \o TikTokAdsClient.get_ads \o Optional(Raise("client")),
    set_ad_status |->
        Optional(Raise("invalid"))
          \o TikTokAdsClient.update_ad_status \o TikTokAdsClient.get_ads
          \o Optional(Raise("client"))]

TikTokAdsMedia == [
    upload_media |->
        Either(Either(TikTokAdsClient.upload_video,
                      TikTokAdsClient.upload_image), Raise("invalid"))
          \o Optional(Raise("client")),
    create_creative |-> Local,
    get_insights |-> TikTokAdsClient.get_report]

-----------------------------------------------------------------------------
AdvertisingCalls == [
    ads_facebook_client |-> MetaAdsClient,
    ads_facebook |-> MetaAdsAccounts @@ MetaAdsCampaigns @@ MetaAdsMedia,
    ads_google_client |-> GoogleAdsClient,
    ads_google |-> GoogleAdsAccounts @@ GoogleAdsCampaigns @@ GoogleAdsGroups
        @@ GoogleAds,
    ads_linkedin_client |-> LinkedInAdsClient,
    ads_linkedin |-> LinkedInAdsAccounts @@ LinkedInAds,
    ads_microsoft_client |-> MicrosoftAdsClient @@ MicrosoftAdsClientAds,
    ads_microsoft |-> MicrosoftAdsAccounts @@ MicrosoftAds
        @@ MicrosoftAdsReports,
    ads_pinterest_client |-> PinterestAdsClient,
    ads_pinterest |-> PinterestAdsAccounts @@ PinterestAds,
    ads_tiktok_client |-> TikTokAdsClient,
    ads_tiktok |-> TikTokAdsAccounts @@ TikTokAds @@ TikTokAdsMedia]

=============================================================================
