------------------------------ MODULE MessagingCalls ------------------------------
(***************************************************************************)
(* What the operations of the messaging adapters ask of their providers.   *)
(***************************************************************************)
EXTENDS Calls

-----------------------------------------------------------------------------
(* Discord                                                                 *)

DiscordClient == [
    get_current_user |-> Ask,
    test_auth |-> Told(Ask),
    send_message |-> Make("message"),
    send_file |-> Make("file"),
    edit_message |-> Change,
    delete_message |-> Drop,
    add_reaction |-> Change,
    get_channel |-> Ask,
    get_guild |-> Ask,
    get_guild_channels |-> Ask,
    respond_to_interaction |-> Make("answer")]

DiscordMessages == [
    validate_credentials |-> Local,
    test_connection |-> Told(DiscordClient.get_current_user),
    send |-> Either(Tell, Told(DiscordClient.send_message)),
    send_bulk |-> Each(Either(Tell, Told(DiscordClient.send_message))),
    get_attachments |-> Local,
    get_location |-> Local,
    get_contacts |-> Local,
    verify_webhook |-> Local,
    parse_webhook |-> Optional(Raise("invalid"))]

-----------------------------------------------------------------------------
(* GoIP: a device whose GET sends a message; the status of its answer is   *)
(* not looked at, but its text is, and a busy line is tried again.         *)

GoIPSend ==
    Renamed(Make("message"), Answered, "broken") \o Optional(Raise("broken"))

GoIPClient == [
    test_auth |-> Told(Ask) \o Optional(Tell),
    send_sms |->
        Optional(Raise("broken"))
          \o GoIPSend \o Each(GoIPSend) \o Optional(Tell),
    get_send_status |-> Unread(Ask),
    clear_received_history |-> Try(Drop, Answered, Tell),
    clear_sent_history |-> Try(Drop, Answered, Tell)]

GoIPMessages == [
    validate_credentials |-> Local,
    test_connection |-> GoIPClient.test_auth,
    send |-> Told(GoIPClient.send_sms),
    send_bulk |-> Each(Told(GoIPClient.send_sms))]

-----------------------------------------------------------------------------
(* Instagram                                                               *)

InstagramChatClient == [
    test_auth |-> Told(Ask),
    get_account_info |-> Ask,
    send_text |-> Make("text"),
    send_attachment |-> Make("attachment"),
    send_story_reply |-> Make("story_reply"),
    send_reaction |-> Make("reaction"),
    send_generic_template |-> Make("generic_template"),
    send_raw |-> Make("raw")]

InstagramMessages == [
    validate_credentials |-> Local,
    test_connection |-> Told(InstagramChatClient.get_account_info),
    send |-> Told(InstagramChatClient.send_raw),
    send_bulk |-> Each(Told(InstagramChatClient.send_raw)),
    get_attachments |-> Local,
    get_location |-> Local,
    get_contacts |-> Local,
    verify_webhook |-> Local,
    parse_webhook |-> Optional(Raise("invalid")),
    verify_challenge |-> Local]

-----------------------------------------------------------------------------
(* Matrix: the client names each event, so a replayed one is the same      *)
(* event.                                                                  *)

MatrixClient == [
    whoami |-> Ask,
    test_auth |-> Told(Ask),
    send_event |-> Change,
    send_message |-> Change,
    send_image |-> Change,
    send_file |-> Change,
    send_audio |-> Change,
    send_video |-> Change,
    send_location |-> Change,
    upload_media |-> Make("media"),
    join_room |-> Change,
    get_joined_rooms |-> Ask]

MatrixMessages == [
    validate_credentials |-> Local,
    test_connection |-> Told(MatrixClient.whoami),
    send |-> Either(Tell, Told(MatrixClient.send_event)),
    send_bulk |-> Each(Either(Tell, Told(MatrixClient.send_event))),
    get_attachments |-> Local,
    get_location |-> Local,
    get_contacts |-> Local,
    verify_webhook |-> Local,
    parse_webhook |-> Optional(Raise("invalid"))]

-----------------------------------------------------------------------------
(* Messenger                                                               *)

MessengerClient == [
    test_auth |-> Told(Ask),
    get_page_info |-> Ask,
    send_text |-> Make("text"),
    send_attachment |-> Make("attachment"),
    send_attachment_by_id |-> Make("attachment_by_id"),
    send_generic_template |-> Make("generic_template"),
    send_button_template |-> Make("button_template"),
    send_quick_replies |-> Make("quick_replies"),
    send_action |-> Make("action"),
    get_user_profile |-> Ask,
    send_raw |-> Make("raw")]

MessengerMessages == [
    validate_credentials |-> Local,
    test_connection |-> Told(MessengerClient.get_page_info),
    send |-> Told(MessengerClient.send_raw),
    send_bulk |-> Each(Told(MessengerClient.send_raw)),
    get_attachments |-> Local,
    get_location |-> Local,
    get_contacts |-> Local,
    verify_webhook |-> Local,
    parse_webhook |-> Optional(Raise("invalid")),
    verify_challenge |-> Local]

-----------------------------------------------------------------------------
(* RoboSMS: credentials are tested with a message to a number that does    *)
(* not exist; that it is refused with status 400 is what is hoped for.     *)

RoboSMSClient == [
    test_auth |-> Told(Try(Make("sms"), {"client"}, Optional(Tell))),
    send_sms |-> Make("sms")]

RoboSMSMessages == [
    validate_credentials |-> Local,
    test_connection |-> Told(RoboSMSClient.test_auth),
    send |-> Told(RoboSMSClient.send_sms),
    send_bulk |-> Each(Told(RoboSMSClient.send_sms))]

-----------------------------------------------------------------------------
(* Telegram                                                                *)

TelegramClient == [
    get_me |-> Ask,
    test_auth |-> Told(Ask),
    send_message |-> Make("message"),
    send_photo |-> Make("photo"),
    send_document |-> Make("document"),
    send_video |-> Make("video"),
    send_audio |-> Make("audio"),
    send_voice |-> Make("voice"),
    send_sticker |-> Make("sticker")]

TelegramClientMessages == [
    send_animation |-> Make("animation"),
    send_location |-> Make("location"),
    send_contact |-> Make("contact"),
    edit_message_text |-> Change,
    delete_message |-> Drop,
    forward_message |-> Make("forward_message"),
    set_webhook |-> Change,
    delete_webhook |-> Drop,
    get_webhook_info |-> Ask]

TelegramMessages == [
    validate_credentials |-> Local,
    test_connection |->
        Told(TelegramClient.test_auth \o Optional(TelegramClient.get_me)),
    send |-> Told(Make("message")),
    send_bulk |-> Each(Told(Make("message"))),
    get_attachments |-> Local,
    get_location |-> Local,
    get_contacts |-> Local]

-----------------------------------------------------------------------------
(* WhatsApp                                                                *)

WhatsAppClient == [
    test_auth |-> Told(Ask),
    send_text |-> Make("text"),
    reply_text |-> Make("text"),
    send_template |-> Make("template"),
    send_image |-> Make("image"),
    send_document |-> Make("document"),
    send_video |-> Make("video"),
    send_audio |-> Make("audio")]

WhatsAppClientMessages == [
    send_sticker |-> Make("sticker"),
    send_location |-> Make("location"),
    send_interactive |-> Make("interactive"),
    send_contacts |-> Make("contacts"),
    send_reaction |-> Make("reaction"),
    mark_as_read |-> Change,
    get_media_url |-> Ask,
    delete_media |-> Drop,
    send_raw |-> Make("raw")]

WhatsAppMessages == [
    validate_credentials |-> Local,
    test_connection |-> Told(WhatsAppClient.test_auth),
    send |-> Told(WhatsAppClientMessages.send_raw),
    send_bulk |-> Each(Told(WhatsAppClientMessages.send_raw)),
    get_attachments |-> Local,
    get_location |-> Local,
    get_contacts |-> Local,
    verify_webhook |-> Local,
    parse_webhook |-> Optional(Raise("invalid")),
    verify_challenge |-> Local]

-----------------------------------------------------------------------------
ChatCalls == [
    chat_discord_client |-> DiscordClient,
    chat_discord |-> DiscordMessages,
    chat_goip_client |-> GoIPClient,
    chat_goip |-> GoIPMessages,
    chat_instagram_client |-> InstagramChatClient,
    chat_instagram |-> InstagramMessages,
    chat_matrix_client |-> MatrixClient,
    chat_matrix |-> MatrixMessages,
    chat_messenger_client |-> MessengerClient,
    chat_messenger |-> MessengerMessages,
    chat_robosms_client |-> RoboSMSClient,
    chat_robosms |-> RoboSMSMessages,
    chat_telegram_client |-> TelegramClient @@ TelegramClientMessages,
    chat_telegram |-> TelegramMessages,
    chat_whatsapp_client |-> WhatsAppClient @@ WhatsAppClientMessages,
    chat_whatsapp |-> WhatsAppMessages]

=============================================================================
