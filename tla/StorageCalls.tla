------------------------------ MODULE StorageCalls ------------------------------
(***************************************************************************)
(* What the operations of the storage adapters ask of their providers.     *)
(***************************************************************************)
EXTENDS Calls

-----------------------------------------------------------------------------
(* Dropbox: a raw answer is read as the file, whatever its status.         *)

DropboxClient == [
    test_auth |-> Told(Ask),
    upload_file |-> Make("file"),
    download_file |-> Unread(Ask),
    delete_file |-> Drop,
    list_folder |-> Ask \o Each(Ask)]

DropboxConnection == [
    validate_credentials |-> Local,
    test_connection |-> Told(DropboxClient.test_auth),
    get_authorize_url |-> Local,
    exchange_code_for_token |-> Ask,
    refresh_token |-> Ask]

DropboxStorage == [
    save |-> DropboxClient.upload_file,
    open |-> DropboxClient.download_file,
    delete |-> Swallowed(DropboxClient.delete_file),
    exists |-> Swallowed(Ask),
    listdir |-> DropboxClient.list_folder,
    size |-> Swallowed(Ask),
    list_files |-> DropboxClient.list_folder]

-----------------------------------------------------------------------------
(* Google Drive: a path is looked up folder by folder, and an answer       *)
(* remembered.                                                             *)

DriveClient == [
    test_auth |-> Told(Ask),
    list_files |-> Ask,
    get_file_metadata |-> Ask,
    download_file |-> Unread(Ask),
    upload_file |-> Make("file"),
    update_file |-> Change,
    create_folder |-> Make("folder"),
    delete_file |-> Drop,
    find_by_path |-> Each(Ask),
    ensure_folder_path |-> Each(Optional(Ask \o Optional(Make("folder"))))]

DriveConnection == [
    validate_credentials |-> Local,
    test_connection |-> Told(DriveClient.test_auth),
    get_authorize_url |-> Local,
    exchange_code_for_token |-> Ask,
    refresh_token |-> Ask]

DriveStorage == [
    save |->
        DriveClient.ensure_folder_path
          \o DriveClient.find_by_path
          \o Either(DriveClient.update_file, DriveClient.upload_file),
    open |->
        DriveClient.find_by_path
          \o Optional(Raise("broken")) \o DriveClient.download_file,
    delete |->
        Swallowed(DriveClient.find_by_path \o Optional(DriveClient.delete_file)),
    exists |-> DriveClient.find_by_path,
    listdir |-> DriveClient.find_by_path \o DriveClient.list_files,
    size |->
        DriveClient.find_by_path \o Optional(DriveClient.get_file_metadata),
    list_files |-> DriveClient.find_by_path \o DriveClient.list_files]

-----------------------------------------------------------------------------
(* OneDrive                                                                *)

OneDriveClient == [
    test_auth |-> Told(Ask),
    list_children |-> Ask,
    get_item_metadata |-> Ask,
    download_file |-> Unread(Ask),
    upload_file |-> Change,
    create_folder |-> Make("folder"),
    delete_item |-> Drop]

OneDriveConnection == [
    validate_credentials |-> Local,
    test_connection |-> Told(OneDriveClient.test_auth),
    get_authorize_url |-> Local,
    exchange_code_for_token |-> Ask,
    refresh_token |-> Ask]

OneDriveStorage == [
    save |-> OneDriveClient.upload_file,
    open |-> OneDriveClient.download_file,
    delete |->
        Swallowed(OneDriveClient.get_item_metadata
                    \o Optional(OneDriveClient.delete_item)),
    exists |-> Swallowed(OneDriveClient.get_item_metadata),
    listdir |-> OneDriveClient.list_children,
    size |-> Swallowed(OneDriveClient.get_item_metadata),
    list_files |-> OneDriveClient.list_children]

-----------------------------------------------------------------------------
(* WebDAV: raise_for_status of requests turns an error status into an      *)
(* exception of that library.                                              *)

WebDav(request) == Renamed(request, Answered, "lost")

WebDavFolder ==
    Each(Try(Ask, Answered,
             WebDav(Try(Change, {"client"}, Optional(Raise("lost"))))))

\* An answer that cannot be parsed is an empty folder.
WebDavEntries == Optional(Forget)

WebDavClient == [
    test_auth |-> Told(Try(Ask, Answered, Ask) \o Optional(Ask)),
    upload |-> WebDavFolder \o WebDav(Change),
    download |-> WebDav(Ask),
    delete |-> WebDav(Drop),
    list_directory |-> WebDav(Ask) \o WebDavEntries]

WebDavStorage == [
    validate_credentials |-> Local,
    test_connection |-> Told(WebDavClient.test_auth),
    save |-> WebDavClient.upload,
    open |-> WebDavClient.download,
    delete |-> Swallowed(WebDavClient.delete),
    exists |-> Swallowed(Ask),
    listdir |-> WebDavClient.list_directory,
    size |-> Swallowed(Ask),
    list_files |-> WebDavClient.list_directory]

-----------------------------------------------------------------------------
(* S3, through boto3, whose exceptions reach the caller.                   *)

S3Client == [
    test_auth |-> Told(Ask),
    upload |-> Library(Change),
    download |-> Library(Ask),
    delete |-> Library(Drop),
    exists |-> Library(OrNone(Ask)),
    stat |-> Library(Ask),
    list_objects |-> Library(Ask)]

S3Storage == [
    validate_credentials |-> Local,
    test_connection |-> Told(S3Client.test_auth),
    save |-> S3Client.upload,
    open |-> S3Client.download,
    delete |-> S3Client.delete,
    exists |-> S3Client.exists,
    listdir |-> S3Client.list_objects,
    size |-> Swallowed(S3Client.stat),
    url |-> Local,
    get_modified_time |-> Swallowed(S3Client.stat),
    list_files |-> S3Client.list_objects]

-----------------------------------------------------------------------------
(* FTP, through ftplib: a connection for each operation, which logs in,    *)
(* and each command once.                                                  *)

\* What ftplib raises as error_perm.
FtpRefusals == {"auth", "missing", "client"}

FtpFolder ==
    Each(Try(Once(Ask), FtpRefusals,
             Try(Once(Change), FtpRefusals, <<>>) \o Once(Ask)))

FtpCeiling == Optional(Raise("client"))

FtpClient == [
    test_auth |-> Told(Once(Ask) \o Once(Ask)),
    upload_file |-> Library(Once(Ask) \o FtpFolder \o Once(Change)),
    download_file |-> Library(Once(Ask) \o Once(Ask)) \o FtpCeiling,
    delete_file |-> Library(Once(Ask) \o Once(Drop)),
    list_files |->
        Library(Once(Ask)
                  \o Once(Ask)
                  \o Each(Try(Once(Ask) \o Once(Ask), FtpRefusals,
                              Optional(Swallowed(Once(Ask))))))]

FtpStorage == [
    validate_credentials |-> Local,
    test_connection |-> Told(FtpClient.test_auth),
    save |-> FtpClient.upload_file,
    open |-> Library(Once(Ask) \o Once(Ask)),
    delete |-> Swallowed(FtpClient.delete_file),
    exists |-> Swallowed(Once(Ask) \o Try(Once(Ask), Errors, Once(Ask))),
    listdir |-> FtpClient.list_files,
    size |-> Swallowed(Once(Ask) \o Once(Ask)),
    list_files |-> FtpClient.list_files]

-----------------------------------------------------------------------------
(* SFTP, through paramiko: a session for each operation, or one for a      *)
(* batch of them.                                                          *)

SftpFolder == Each(Library(Try(Once(Ask), {"missing"}, Once(Change))))

\* The file may be larger than it is said to be.
SftpRead ==
    Optional(Library(Once(Ask)) \o Optional(Raise("client")))
      \o Library(Once(Ask)) \o Optional(Raise("client"))

SftpSession == [
    upload |-> SftpFolder \o Library(Once(Change)),
    download |-> SftpRead,
    stat |-> Library(Once(Ask)),
    delete |-> Library(Once(Drop)),
    exists |-> Library(OrNone(Once(Ask)))]

\* The key may be no key: nobody is asked then.
SftpKey == Optional(Raise("broken"))

SftpTransport == SftpKey \o Library(Once(Ask))

\* The server may have no SFTP to offer.
SftpLogin == SftpTransport \o Library(Once(Ask)) \o Optional(Raise("broken"))

SftpClient == [
    connect |-> SftpLogin,
    test_auth |-> Told(SftpLogin \o Library(Once(Ask))),
    upload |-> SftpLogin \o SftpSession.upload,
    download |-> SftpLogin \o SftpSession.download,
    delete |-> SftpLogin \o SftpSession.delete,
    exists |-> SftpLogin \o SftpSession.exists,
    stat |-> SftpLogin \o SftpSession.stat,
    list_directory |-> SftpLogin \o Library(Once(Ask))]

SftpStorage == [
    validate_credentials |-> Local,
    test_connection |-> Told(SftpClient.test_auth),
    save |-> SftpClient.upload,
    open |-> SftpLogin \o Library(Once(Ask)),
    delete |-> Swallowed(SftpClient.delete),
    exists |-> SftpClient.exists,
    listdir |-> SftpClient.list_directory,
    size |-> Swallowed(SftpClient.stat),
    get_modified_time |-> Swallowed(SftpClient.stat),
    list_files |-> SftpClient.list_directory]

-----------------------------------------------------------------------------
FileCalls == [
    storage_dropbox_client |-> DropboxClient,
    storage_dropbox |-> DropboxConnection @@ DropboxStorage,
    storage_google_drive_client |-> DriveClient,
    storage_google_drive |-> DriveConnection @@ DriveStorage,
    storage_onedrive_client |-> OneDriveClient,
    storage_onedrive |-> OneDriveConnection @@ OneDriveStorage,
    storage_webdav_client |-> WebDavClient,
    storage_webdav |-> WebDavStorage,
    storage_s3_client |-> S3Client,
    storage_s3 |-> S3Storage,
    storage_ftp_client |-> FtpClient,
    storage_ftp |-> FtpStorage,
    storage_sftp_session |-> SftpSession,
    storage_sftp_client |-> SftpClient,
    storage_sftp |-> SftpStorage]

=============================================================================
