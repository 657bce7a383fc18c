------------------------------ MODULE EmailCalls ------------------------------
(***************************************************************************)
(* What the operations of the email adapters ask of their providers.       *)
(***************************************************************************)
EXTENDS Calls

-----------------------------------------------------------------------------
(* Gmail                                                                   *)

GmailClient == [
    get_profile |-> Ask,
    send_message |-> Make("message"),
    list_messages |-> Ask,
    get_message |-> Ask,
    get_attachment |-> Ask,
    modify_labels |-> Change,
    trash_message |-> Change]

\* Whatever went wrong, by the words of its message.
Classed(body) == Try(body, Errors, RaiseAny({"auth", "limited", "server"}))

Gmail == [
    validate_credentials |-> Local,
    test_connection |-> Told(GmailClient.get_profile),
    send |-> Told(GmailClient.send_message),
    send_bulk |-> Each(Told(GmailClient.send_message)),
    fetch_messages |->
        Classed(GmailClient.list_messages \o Each(GmailClient.get_message)),
    get_message |-> Classed(GmailClient.get_message),
    download_attachment |->
        Classed(GmailClient.get_message
                  \o Optional(Raise("broken")) \o GmailClient.get_attachment),
    delete_message |-> Classed(GmailClient.trash_message),
    move_message |-> Classed(GmailClient.modify_labels),
    mark_read |-> Classed(GmailClient.modify_labels)]

-----------------------------------------------------------------------------
(* Mandrill, of Mailchimp: the key is part of every body.                  *)

MandrillClient == [
    test_auth |-> Told(Ask) \o Optional(Tell),
    send_message |-> Make("message"),
    send_template |-> Make("message")]

Mailchimp == [
    validate_credentials |-> Local,
    test_connection |-> MandrillClient.test_auth,
    send |->
        Told(Either(MandrillClient.send_template, MandrillClient.send_message)),
    send_bulk |->
        Each(Told(Either(MandrillClient.send_template,
                         MandrillClient.send_message)))]

-----------------------------------------------------------------------------
(* Amazon SES, through boto3, whose retries repeat a message as well.      *)

SesClient == [
    test_auth |-> Told(Ask),
    send_simple_email |-> Library(Make("message")),
    send_raw_email |-> Library(Make("message"))]

Ses == [
    validate_credentials |-> Local,
    test_connection |-> SesClient.test_auth,
    send |->
        Told(Either(SesClient.send_raw_email, SesClient.send_simple_email)),
    send_bulk |->
        Each(Told(Either(SesClient.send_raw_email, SesClient.send_simple_email)))]

-----------------------------------------------------------------------------
(* SMTP and IMAP, through smtplib and imaplib: a connection for each       *)
(* operation, and each command once.                                       *)

\* A connection with its login.
SmtpSession == Library(Once(Ask))

SmtpClient == [
    test_auth |-> Told(SmtpSession),
    send_email |->
        SmtpSession \o Library(Once(Make("message"))) \o Optional(Forget)]

\* imaplib returns a refusal; an answer whose status nobody looks at.
Command(request) == Library(Unread(Once(request)))

ImapSession == Library(Once(Ask))

ImapReads == [
    test_auth |-> Told(ImapSession),
    fetch_uids |->
        ImapSession
          \o Library(Once(Ask)) \o Library(Try(Once(Ask), Answered, Forget)),
    fetch_headers |->
        Optional(ImapSession
                   \o Command(Ask) \o Library(Try(Once(Ask), Answered, Forget))),
    fetch_message |->
        ImapSession
          \o Command(Ask) \o Library(Once(Ask)) \o Optional(Raise("broken"))]

Expunge == Command(Drop)

ImapChanges == [
    set_seen |-> ImapSession \o Command(Ask) \o Command(Change),
    delete_uid |-> ImapSession \o Command(Ask) \o Command(Change) \o Expunge,
    move_uid |->
        ImapSession
          \o Command(Ask)
          \o Either(Command(Change),
                    Command(Make("copy")) \o Command(Change) \o Expunge)]

SmtpSending == [
    validate_credentials |-> Local,
    test_connection |-> SmtpClient.test_auth \o Optional(ImapReads.test_auth),
    send |-> Told(SmtpClient.send_email),
    send_bulk |-> Each(Told(SmtpClient.send_email))]

\* The inbox may be switched off.
ImapWanted == Optional(RaiseAny({"auth", "server"}))

\* Whatever went wrong, by the words of its message.
Imap(body) == ImapWanted \o Try(body, Errors, RaiseAny({"auth", "server"}))

SmtpInbox == [
    fetch_messages |-> Imap(ImapReads.fetch_uids \o ImapReads.fetch_headers),
    get_message |-> Imap(ImapReads.fetch_message),
    download_attachment |->
        Imap(ImapReads.fetch_message \o Optional(Raise("broken"))),
    delete_message |-> Imap(ImapChanges.delete_uid),
    move_message |-> Imap(ImapChanges.move_uid),
    mark_read |-> Imap(ImapChanges.set_seen)]

-----------------------------------------------------------------------------
MailCalls == [
    email_gmail_client |-> GmailClient,
    email_gmail |-> Gmail,
    email_mailchimp_client |-> MandrillClient,
    email_mailchimp |-> Mailchimp,
    email_ses_client |-> SesClient,
    email_ses |-> Ses,
    email_smtp_client |-> SmtpClient,
    email_imap_client |-> ImapReads @@ ImapChanges,
    email_smtp |-> SmtpSending @@ SmtpInbox]

=============================================================================
