------------------------------ MODULE SocialCalls ------------------------------
(***************************************************************************)
(* What the operations of the adapters of social networks ask of their     *)
(* providers.                                                              *)
(***************************************************************************)
EXTENDS Calls

-----------------------------------------------------------------------------
(* Facebook: an answer of status 200 may hold an error.                    *)

\* The body of a status of 4xx says what it is.
FacebookGraph(request) ==
    Try(request, {"auth", "limited", "missing", "client"},
        RaiseAny(ConnectorErrors \ {"unsupported"}))

FacebookRefusal == Optional(RaiseAny({"auth", "limited", "server", "invalid"}))

FacebookGraphClient == [
    get_object |-> FacebookGraph(Ask) \o FacebookRefusal,
    get_edge |-> FacebookGraph(Ask) \o FacebookRefusal,
    post_edge |-> FacebookGraph(Make("edge")) \o FacebookRefusal,
    post_edge_multipart |->
        FacebookGraph(Make("edge_multipart")) \o FacebookRefusal,
    upload_hosted_video |-> FacebookGraph(Change) \o FacebookRefusal,
    get_insights |-> FacebookGraph(Ask) \o FacebookRefusal]

FacebookAccount == [
    validate_credentials |-> Local,
    test_connection |-> Told(FacebookGraphClient.get_object),
    get_authorize_url |-> Local,
    exchange_code_for_token |-> FacebookGraph(Ask) \o FacebookRefusal,
    refresh_token |-> FacebookGraph(Ask) \o FacebookRefusal,
    list_page_tokens |-> FacebookGraph(Ask) \o FacebookRefusal]

FacebookPosts == [
    get_account |-> FacebookGraphClient.get_object,
    list_posts |-> FacebookGraphClient.get_edge,
    get_post |-> FacebookGraphClient.get_object,
    get_post_stats |->
        FacebookGraphClient.get_object
          \o Try(FacebookGraphClient.get_insights, ConnectorErrors, Forget),
    get_account_stats |->
        FacebookGraphClient.get_object
          \o Try(FacebookGraphClient.get_insights, ConnectorErrors, Forget)]

\* A session is opened, the provider fetches the video, and the session is
\* closed with the post.
FacebookReel ==
    FacebookGraph(Make("reel"))
      \o FacebookRefusal \o Optional(Raise("invalid"))
      \o FacebookGraphClient.upload_hosted_video \o FacebookGraph(Change)
      \o FacebookRefusal \o Optional(Tell)

FacebookPublishing == [
    get_publish_profile |-> Local,
    publish_post |->
        Optional(Raise("invalid"))
          \o Either(Either(FacebookGraphClient.post_edge,
                           FacebookGraphClient.post_edge_multipart),
                    FacebookReel),
    check_publish_status |-> FacebookGraphClient.get_object \o Optional(Tell)]

-----------------------------------------------------------------------------
(* Instagram: a post is a container that is filled first and published     *)
(* then; that of a video is published by whoever polls it when it is       *)
(* ready.                                                                  *)

InstagramGraph(request) == FacebookGraph(request)

InstagramRefusal ==
    Optional(RaiseAny({"auth", "limited", "server", "invalid"}))

InstagramGraphClient == [
    get_object |-> InstagramGraph(Ask) \o InstagramRefusal,
    get_edge |-> InstagramGraph(Ask) \o InstagramRefusal,
    post_edge |-> InstagramGraph(Make("container")) \o InstagramRefusal,
    get_insights |-> InstagramGraph(Ask) \o InstagramRefusal,
    business_discovery |-> InstagramGraph(Ask) \o InstagramRefusal,
    available_catalogs |-> InstagramGraph(Ask) \o InstagramRefusal,
    catalog_product_search |-> InstagramGraph(Ask) \o InstagramRefusal]

InstagramAccount == [
    validate_credentials |-> Local,
    test_connection |-> Told(InstagramGraphClient.get_object),
    get_authorize_url |-> Local,
    exchange_code_for_token |-> InstagramGraph(Ask) \o InstagramRefusal,
    refresh_token |-> InstagramGraph(Ask) \o InstagramRefusal,
    list_instagram_accounts |-> InstagramGraph(Ask) \o InstagramRefusal]

InstagramStats == [
    get_account |-> InstagramGraphClient.get_object,
    list_posts |-> InstagramGraphClient.get_edge,
    get_post |-> InstagramGraphClient.get_object,
    get_post_stats |->
        InstagramGraphClient.get_object
          \o Try(InstagramGraphClient.get_insights, ConnectorErrors, Forget)
          \o Optional(Try(InstagramGraphClient.get_insights, ConnectorErrors,
                          Forget)),
    get_account_stats |->
        InstagramGraphClient.get_object
          \o Try(InstagramGraphClient.get_insights, ConnectorErrors, Forget)]

InstagramPublish == InstagramGraph(Make("post")) \o InstagramRefusal

InstagramPosts == [
    get_publish_profile |-> Local,
    publish_post |->
        Optional(Raise("invalid"))
          \o InstagramGraphClient.post_edge \o Optional(InstagramPublish),
    check_publish_status |->
        InstagramGraphClient.get_object
          \o Either(InstagramPublish, Optional(Tell))]

InstagramTags == [
    search_mentions |->
        Optional(Try(InstagramGraphClient.business_discovery, ConnectorErrors,
                     Optional(Reraise))),
    search_products |->
        Optional(InstagramGraphClient.available_catalogs
                   \o Optional(InstagramGraphClient.catalog_product_search))]

-----------------------------------------------------------------------------
(* LinkedIn                                                                *)

LinkedInClient == [
    get_raw |-> Ask,
    get_organization |-> Ask,
    get_follower_count |-> Ask,
    list_posts |-> Ask,
    get_post |-> Ask,
    get_share_statistics |-> Ask,
    create_post |->
        Renamed(Make("post"), Answered, "server") \o Optional(Raise("server"))]

LinkedInAccount == [
    validate_credentials |-> Local,
    test_connection |-> Told(LinkedInClient.get_organization),
    get_authorize_url |-> Local,
    exchange_code_for_token |-> Ask,
    refresh_token |-> Ask,
    list_organizations |->
        LinkedInClient.get_raw
          \o Each(Optional(Try(LinkedInClient.get_raw, ConnectorErrors, Forget)))]

LinkedInPosts == [
    get_account |->
        LinkedInClient.get_organization \o LinkedInClient.get_follower_count,
    list_posts |-> LinkedInClient.list_posts,
    get_post |-> LinkedInClient.get_post,
    get_post_stats |->
        LinkedInClient.get_share_statistics \o Optional(RaiseAny(Permanent)),
    get_account_stats |->
        LinkedInClient.get_share_statistics
          \o LinkedInClient.get_follower_count,
    publish_post |-> Optional(Raise("invalid")) \o LinkedInClient.create_post,
    check_publish_status |-> LinkedInClient.get_post]

-----------------------------------------------------------------------------
(* Meta: the accounts that the other adapters of Meta are given.           *)

MetaToken == FacebookGraph(Ask) \o FacebookRefusal

MetaAccount == [
    validate_credentials |-> Local,
    test_connection |-> Told(FacebookGraphClient.get_object),
    get_authorize_url |-> Local,
    exchange_code_for_token |-> MetaToken \o MetaToken,
    refresh_token |-> MetaToken,
    list_destinations |->
        FacebookGraphClient.get_edge \o Each(FacebookGraphClient.get_edge)]

-----------------------------------------------------------------------------
(* Pinterest                                                               *)

PinterestClient == [
    get_user_account |-> Ask,
    list_pins |-> Ask,
    get_pin |-> Ask,
    get_pin_analytics |-> Ask,
    get_user_analytics |-> Ask,
    create_pin |-> Make("pin")]

PinterestAccount == [
    validate_credentials |-> Local,
    test_connection |-> Told(PinterestClient.get_user_account),
    get_authorize_url |-> Local,
    exchange_code_for_token |-> Ask \o Optional(Raise("auth")),
    refresh_token |-> Ask \o Optional(Raise("auth"))]

PinterestPosts == [
    get_account |-> PinterestClient.get_user_account,
    list_posts |-> PinterestClient.list_pins,
    get_post |-> PinterestClient.get_pin \o Optional(RaiseAny(Permanent)),
    get_post_stats |-> PinterestClient.get_pin_analytics,
    get_account_stats |->
        PinterestClient.get_user_account \o PinterestClient.get_user_analytics,
    publish_post |-> Optional(Raise("invalid")) \o PinterestClient.create_pin,
    check_publish_status |-> PinterestClient.get_pin]

-----------------------------------------------------------------------------
(* Threads: as Instagram.                                                  *)

ThreadsRefusal == Optional(RaiseAny({"auth", "limited", "server", "invalid"}))

ThreadsClient == [
    get_object |-> Ask \o ThreadsRefusal,
    get_edge |-> Ask \o ThreadsRefusal,
    post_edge |-> Make("container") \o ThreadsRefusal,
    get_insights |-> Ask \o ThreadsRefusal]

ThreadsAccount == [
    validate_credentials |-> Local,
    test_connection |-> Told(ThreadsClient.get_object),
    get_authorize_url |-> Local,
    exchange_code_for_token |-> Ask \o ThreadsRefusal \o Ask \o ThreadsRefusal,
    refresh_token |-> Ask \o ThreadsRefusal]

ThreadsPublish == Make("post") \o ThreadsRefusal

ThreadsPosts == [
    get_account |->
        ThreadsClient.get_object
          \o Try(ThreadsClient.get_insights, ConnectorErrors, Forget),
    list_posts |-> ThreadsClient.get_edge,
    get_post |-> ThreadsClient.get_object,
    get_post_stats |->
        Try(ThreadsClient.get_insights, ConnectorErrors, Forget),
    get_account_stats |-> ThreadsClient.get_insights,
    publish_post |->
        Optional(Raise("invalid"))
          \o ThreadsClient.post_edge \o Optional(ThreadsPublish),
    check_publish_status |->
        ThreadsClient.get_object \o Either(ThreadsPublish, Optional(Tell))]

-----------------------------------------------------------------------------
(* TikTok answers with status 200 and a code.                              *)

TikTokRefusal == Optional(RaiseAny({"auth", "limited", "server", "invalid"}))

TikTokClient == [
    get_user_info |-> Ask \o TikTokRefusal,
    list_videos |-> Ask \o TikTokRefusal,
    query_videos |-> Ask \o TikTokRefusal,
    publish_video_init |-> Make("post") \o TikTokRefusal,
    publish_status_fetch |-> Ask \o TikTokRefusal]

TikTokAccount == [
    validate_credentials |-> Local,
    test_connection |-> Told(TikTokClient.get_user_info),
    get_authorize_url |-> Local,
    exchange_code_for_token |-> Ask \o Optional(Raise("auth")),
    refresh_token |-> Ask \o Optional(Raise("auth"))]

TikTokPosts == [
    get_account |-> TikTokClient.get_user_info,
    list_posts |-> TikTokClient.list_videos,
    get_post |-> TikTokClient.query_videos \o Optional(Raise("client")),
    get_post_stats |-> TikTokClient.query_videos \o Optional(Raise("client")),
    get_account_stats |-> TikTokClient.get_user_info,
    publish_post |->
        Optional(Raise("invalid")) \o TikTokClient.publish_video_init,
    check_publish_status |->
        TikTokClient.publish_status_fetch \o Optional(Tell)]

-----------------------------------------------------------------------------
(* YouTube: an upload is a session that is opened first; the bytes go to   *)
(* its address.                                                            *)

YouTubeClient == [
    get_channel |-> Ask,
    list_playlist_items |-> Ask,
    list_videos |-> Ask,
    upload_video_init |->
        Renamed(Make("session"), Answered, "server")
          \o Optional(Raise("server")),
    upload_video_content |-> Change]

YouTubeAccount == [
    validate_credentials |-> Local,
    test_connection |->
        Told(YouTubeClient.get_channel \o Optional(RaiseAny(Permanent))),
    get_authorize_url |-> Local,
    exchange_code_for_token |-> Ask,
    refresh_token |-> Ask]

YouTubeVideos == [
    get_account |-> YouTubeClient.get_channel \o Optional(RaiseAny(Permanent)),
    list_posts |->
        Optional(YouTubeClient.get_channel
                   \o Optional(RaiseAny(Permanent))
                   \o Optional(Raise("client")))
          \o YouTubeClient.list_playlist_items
          \o Optional(YouTubeClient.list_videos),
    get_post |-> YouTubeClient.list_videos \o Optional(RaiseAny(Permanent)),
    get_post_stats |->
        YouTubeClient.list_videos \o Optional(RaiseAny(Permanent)),
    get_account_stats |->
        YouTubeClient.get_channel \o Optional(RaiseAny(Permanent)),
    publish_post |->
        Optional(Raise("auth"))
          \o Optional(Raise("invalid")) \o YouTubeClient.upload_video_init
          \o YouTubeClient.upload_video_content,
    check_publish_status |->
        YouTubeClient.list_videos
          \o Optional(RaiseAny(Permanent)) \o Optional(Tell)]

-----------------------------------------------------------------------------
SocialNetworkCalls == [
    social_facebook_client |-> FacebookGraphClient,
    social_facebook |-> FacebookAccount @@ FacebookPosts @@ FacebookPublishing,
    social_instagram_client |-> InstagramGraphClient,
    social_instagram |-> InstagramAccount @@ InstagramStats @@ InstagramPosts
        @@ InstagramTags,
    social_linkedin_client |-> LinkedInClient,
    social_linkedin |-> LinkedInAccount @@ LinkedInPosts,
    social_meta |-> MetaAccount,
    social_pinterest_client |-> PinterestClient,
    social_pinterest |-> PinterestAccount @@ PinterestPosts,
    social_threads_client |-> ThreadsClient,
    social_threads |-> ThreadsAccount @@ ThreadsPosts,
    social_tiktok_client |-> TikTokClient,
    social_tiktok |-> TikTokAccount @@ TikTokPosts,
    social_youtube_client |-> YouTubeClient,
    social_youtube |-> YouTubeAccount @@ YouTubeVideos]

=============================================================================
