---------------------------- MODULE PluginBridge ----------------------------
(***************************************************************************)
(* The services of the host as a plugin's process sees them: the proxy     *)
(* turns a method of a service into one RPC, the host looks at what the    *)
(* plugin's manifest declares, calls the service and sends back its result *)
(* or its error.  A file crosses as the name of a file in the plugin's     *)
(* work directory, which both sides create, write, read and remove.        *)
(*                                                                         *)
(* PluginRpc is the wire below this module: here a request arrives, its    *)
(* answer arrives unless nobody waits for it any more, and the handler of  *)
(* the host goes on to its end whatever becomes of the caller.  A method   *)
(* is its name; arguments and results are left out, except the file's      *)
(* content and the result a tool has beside its error.                     *)
(***************************************************************************)
EXTENDS Naturals, FiniteSets

CONSTANTS
  BridgeCalls,  \* bound: how many calls a plugin makes
  BridgeFaults, \* bound: failures of services and files, and ends of the plugin
  BridgeWorlds, \* what the manifest may declare, and which operations the calls may be
  NoFile

VARIABLES
  manifest,     \* what the manifest declares, and what the calls may be
  bridged,      \* [call -> the plugin's side and the host's side of it]
  shared,       \* [file -> its content] in the work directory
  bridgeFaults,
  pluginUp
bridgeVars == <<manifest, bridged, shared, bridgeFaults, pluginUp>>

BridgeCallIds == 1 .. BridgeCalls
\* The names CreateTemp makes are distinct; a name belongs to one call.
Files == BridgeCallIds \X {"media", "thumb"}

\* An operation of the plugin: the method, the namespace or the tool named is
\* its own, the upload has a thumbnail.
Op(method, own, thumb) == [method |-> method, own |-> own, thumb |-> thumb]
NoOp == Op("none", TRUE, FALSE)
Unused == [op |-> NoOp, at |-> "new", error |-> "none", got |-> NoFile,
           output |-> FALSE, host |-> "idle", reply |-> "none",
           served |-> "none", took |-> {}, late |-> FALSE]

\* world: [granted, tools, storage, network, may]: the manifest, and for
\* every call the set of operations it may be
BridgeInit(world) ==
  /\ manifest = world
  /\ bridged = [n \in BridgeCallIds |-> Unused]
  /\ shared = [f \in Files |-> NoFile]
  /\ bridgeFaults = 0 /\ pluginUp = TRUE
-----------------------------------------------------------------------------
(* The methods the proxy uses, and those the host knows.                   *)

ProxyStorage == {"storage.get", "storage.put", "storage.delete"}
ProxyTools == {"tool.look_path", "tool.run"}
ProxyTexts == {"send_text", "reply_text", "edit_text", "send_html", "reply_html", "edit_html"}
ProxyMessages == {"delete_messages", "forward_messages", "copy_messages", "get_messages", "get_history"}
ProxyDownloads == {"download_media", "download_media_preview", "download_profile_photo"}
ProxyLookups == {"resolve_user", "resolve_chat", "resolve_chat_target", "resolve_custom_emoji",
                 "get_my_permissions", "get_chat_member", "find_join_time"}
ProxyChats == {"list_chats", "list_managed_chats", "join_chat", "moderate_user", "delete_user_history"}
ProxyPrivate == {"block_user", "unblock_user", "report_spam", "delete_private_history",
                 "get_private_chat_settings", "set_private_chat_quarantined"}
ProxyAccount == {"get_global_auto_archive", "set_global_auto_archive", "update_account_username",
                 "create_channel", "update_chat_username", "delete_channel"}
ProxyMedia == {"send_reaction", "get_sticker_set", "create_sticker_set", "add_sticker_to_set",
               "request_bot_media", "send_inline_bot_result"}
ProxyPlain == ProxyTexts \cup ProxyMessages \cup ProxyLookups \cup ProxyChats \cup
              ProxyPrivate \cup ProxyAccount \cup ProxyMedia
ProxyMethods == ProxyPlain \cup ProxyStorage \cup ProxyTools \cup ProxyDownloads \cup {"http.do", "send_file"}

HostStorage == {"storage.get", "storage.put", "storage.delete"}
HostTools == {"tool.look_path", "tool.run"}
HostTexts == {"send_text", "reply_text", "edit_text", "send_html", "reply_html", "edit_html"}
HostMessages == {"delete_messages", "forward_messages", "copy_messages", "get_messages", "get_history"}
HostDownloads == {"download_media", "download_media_preview", "download_profile_photo"}
HostLookups == {"resolve_user", "resolve_chat", "resolve_chat_target", "resolve_custom_emoji",
                "get_my_permissions", "get_chat_member", "find_join_time"}
HostChats == {"list_chats", "list_managed_chats", "join_chat", "moderate_user", "delete_user_history"}
HostPrivate == {"block_user", "unblock_user", "report_spam", "delete_private_history",
                "get_private_chat_settings", "set_private_chat_quarantined"}
HostAccount == {"get_global_auto_archive", "set_global_auto_archive", "update_account_username",
                "create_channel", "update_chat_username", "delete_channel"}
HostMedia == {"send_reaction", "get_sticker_set", "create_sticker_set", "add_sticker_to_set",
              "request_bot_media", "send_inline_bot_result"}
HostTelegram == HostTexts \cup HostMessages \cup HostDownloads \cup HostLookups \cup HostChats \cup
                HostPrivate \cup HostAccount \cup HostMedia \cup {"send_file"}
HostMethods == HostTelegram \cup HostStorage \cup HostTools \cup {"http.do"}

\* The errors a plugin can tell apart; "other" is any further one.
KnownErrors == {"ErrNotFound", "ErrNotAuthorized", "ErrPeerNotResolved", "ErrMessageNotFound",
  "ErrMediaNotFound", "ErrStickerSetNotFound", "ErrExecutableNotFound", "ErrResponseTooLarge"}
CodeOf(error) ==
  CASE error = "ErrNotFound" -> "storage_not_found"
    [] error = "ErrNotAuthorized" -> "telegram_not_authorized"
    [] error = "ErrPeerNotResolved" -> "telegram_peer_not_resolved"
    [] error = "ErrMessageNotFound" -> "telegram_message_not_found"
    [] error = "ErrMediaNotFound" -> "telegram_media_not_found"
    [] error = "ErrStickerSetNotFound" -> "telegram_sticker_set_not_found"
    [] error = "ErrExecutableNotFound" -> "tool_not_found"
    [] error = "ErrResponseTooLarge" -> "http_response_too_large"
    [] OTHER -> "remote_error"
\* A bug: codes that are not translated back.
NotTranslated(code) == code
ErrorOf(code) ==
  CASE code = "storage_not_found" -> "ErrNotFound"
    [] code = "telegram_not_authorized" -> "ErrNotAuthorized"
    [] code = "telegram_peer_not_resolved" -> "ErrPeerNotResolved"
    [] code = "telegram_message_not_found" -> "ErrMessageNotFound"
    [] code = "telegram_media_not_found" -> "ErrMediaNotFound"
    [] code = "telegram_sticker_set_not_found" -> "ErrStickerSetNotFound"
    [] code = "tool_not_found" -> "ErrExecutableNotFound"
    [] code = "http_response_too_large" -> "ErrResponseTooLarge"
    [] OTHER -> code

ASSUME BridgeAssumption ==
  /\ \A world \in BridgeWorlds, n \in BridgeCallIds :
       world.may[n] \subseteq [method : ProxyMethods, own : BOOLEAN, thumb : BOOLEAN]
  /\ NoFile \notin {"part", "whole"}
-----------------------------------------------------------------------------
(* The plugin's side: stage the file, call, use what came, remove the file. *)

Media(n) == <<n, "media">>
Thumb(n) == <<n, "thumb">>
On(n, at) == pluginUp /\ bridged[n].at = at
With(c, changes) == [k \in DOMAIN c |-> IF k \in DOMAIN changes THEN changes[k] ELSE c[k]]
Side(n, changes) == bridged' = [bridged EXCEPT ![n] = With(@, changes)]
Fails == bridgeFaults < BridgeFaults /\ bridgeFaults' = bridgeFaults + 1
Works == UNCHANGED bridgeFaults
BridgeSame == UNCHANGED <<manifest, pluginUp>>
FilesSame == UNCHANGED shared
\* A bug: the files stay when the call fails.
LeavesFiles(error) == [at |-> "over", error |-> error]
Loses(error) == [at |-> "sweep", error |-> error]

FirstStep(op) ==
  IF op.method = "send_file" THEN "stage" ELSE IF op.method \in ProxyDownloads THEN "target" ELSE "send"
Begin(n) ==
  /\ On(n, "new") /\ \A m \in BridgeCallIds : m < n => bridged[m].at # "new"
  /\ \E op \in manifest.may[n] : Side(n, [op |-> op, at |-> FirstStep(op)])
  /\ BridgeSame /\ FilesSame /\ Works

\* stageUpload: a new file is made and filled; a copy that fails removes it,
\* and a thumbnail that fails takes the medium with it.
Staging(n) == IF shared[Media(n)] = NoFile THEN Media(n) ELSE Thumb(n)
Stage(n) ==
  /\ On(n, "stage") /\ BridgeSame
  /\ \/ shared' = [shared EXCEPT ![Staging(n)] = "part"] /\ Side(n, [at |-> "copy"]) /\ Works
     \/ Side(n, Loses("local")) /\ FilesSame /\ Fails
Staged(n) == {f \in {Media(n), Thumb(n)} : shared[f] # NoFile}
Copy(n) ==
  LET last == IF shared[Thumb(n)] # NoFile THEN Thumb(n) ELSE Media(n) IN
  /\ On(n, "copy") /\ BridgeSame
  /\ \/ /\ shared' = [shared EXCEPT ![last] = "whole"] /\ Works
        /\ Side(n, [at |-> IF last = Media(n) /\ bridged[n].op.thumb THEN "stage" ELSE "send"])
     \/ /\ shared' = [shared EXCEPT ![last] = NoFile] /\ Fails
        /\ Side(n, Loses("local"))

\* downloadTarget: a name is taken from CreateTemp and its file removed; when
\* that fails the empty file stays.
Target(n) ==
  /\ On(n, "target") /\ BridgeSame
  /\ \/ Side(n, [at |-> "send"]) /\ FilesSame /\ Works
     \/ Side(n, [at |-> "over", error |-> "local"]) /\ FilesSame /\ Fails
     \/ Side(n, [at |-> "over", error |-> "local", late |-> TRUE]) /\ Fails
        /\ shared' = [shared EXCEPT ![Media(n)] = "part"]

Send(n) ==
  /\ On(n, "send") /\ BridgeSame /\ FilesSame
  /\ \/ Side(n, [at |-> "wait", host |-> "check"]) /\ Works
     \/ Side(n, Loses("local")) /\ Fails

\* call: the answer is there; an error becomes the error it was, and the
\* result of a tool comes with its error.
HasResult(c) == c.reply = "ok" \/ (c.op.method = "tool.run" /\ c.served # "none")
Receive(n) ==
  LET c == bridged[n] IN
  /\ On(n, "wait") /\ c.reply # "none"
  /\ bridged' = [bridged EXCEPT ![n] = With([@ EXCEPT !.output = HasResult(c)],
       IF c.reply # "ok" THEN Loses(ErrorOf(c.reply))
       ELSE [at |-> IF c.op.method \in ProxyDownloads THEN "read" ELSE "sweep"])]
  /\ BridgeSame /\ FilesSame /\ Works
\* The context of the call ends first, or the connection: the host goes on.
GiveUp(n) ==
  /\ On(n, "wait") /\ Side(n, [late |-> TRUE, at |-> "sweep", error |-> "context"]) /\ Fails
  /\ BridgeSame /\ FilesSame
Read(n) ==
  /\ On(n, "read") /\ BridgeSame /\ FilesSame
  /\ \/ /\ shared[Media(n)] # NoFile /\ Works
        /\ Side(n, [at |-> "sweep", got |-> shared[Media(n)]])
     \/ Side(n, Loses("local")) /\ shared[Media(n)] = NoFile /\ Works
     \/ Side(n, Loses("local")) /\ Fails
Removed(n) == [f \in Files |-> IF f[1] = n THEN NoFile ELSE shared[f]]
Sweep(n) ==
  /\ On(n, "sweep") /\ Side(n, [at |-> "over"]) /\ shared' = Removed(n)
  /\ BridgeSame /\ Works

\* The plugin's process ends with its calls; what the host handles goes on.
PluginEnds ==
  /\ pluginUp /\ pluginUp' = FALSE /\ Fails
  /\ bridged' = [n \in BridgeCallIds |-> [bridged[n] EXCEPT !.late = TRUE]]
  /\ UNCHANGED <<manifest, shared>>
-----------------------------------------------------------------------------
(* The host's side: a goroutine for each request.                          *)

Serving(n, step) == bridged[n].host = step
Reply(reply) == [host |-> "idle", reply |-> reply]
\* What the switch of Handle looks at before it does anything.
Granted(op) ==
  CASE op.method \in HostStorage -> manifest.storage /\ op.own
    [] op.method = "http.do" -> manifest.network
    [] op.method \in HostTools -> "*" \in manifest.tools \/ (op.own /\ manifest.tools # {})
    [] OTHER -> {"*", op.method} \cap manifest.granted # {}
Check(n) ==
  LET op == bridged[n].op IN
  /\ Serving(n, "check") /\ BridgeSame /\ FilesSame /\ Works
  /\ Side(n, IF op.method \notin HostMethods THEN Reply("method_not_found")
             ELSE IF ~Granted(op) THEN Reply("permission_denied")
             ELSE [host |-> IF op.method = "send_file" THEN "paths"
                            ELSE IF op.method \in HostDownloads THEN "create" ELSE "serve"])
\* safeExistingPath for the file and, if it is given, for the thumbnail.
Paths(n) ==
  LET named == IF bridged[n].op.thumb THEN {Media(n), Thumb(n)} ELSE {Media(n)} IN
  /\ Serving(n, "paths") /\ BridgeSame /\ FilesSame /\ Works
  /\ Side(n, IF \A f \in named : shared[f] # NoFile THEN [host |-> "serve"]
             ELSE Reply("remote_error"))
Create(n) ==
  /\ Serving(n, "create") /\ BridgeSame
  /\ \/ shared' = [shared EXCEPT ![Media(n)] = "part"] /\ Side(n, [host |-> "serve"]) /\ Works
     \/ Side(n, Reply("remote_error")) /\ FilesSame /\ Fails

\* The call of the service.  An upload takes what the files hold then; a
\* download leaves a part in the file when it fails.
Served(error, taken) ==
  [host |-> "idle", reply |-> IF error = "ok" THEN "ok" ELSE CodeOf(error), served |-> error, took |-> taken]
Gone(n) == bridged[n].op.method = "send_file" /\ shared[Media(n)] = NoFile
Serve(n) ==
  LET download == bridged[n].op.method \in HostDownloads IN
  /\ Serving(n, "serve") /\ BridgeSame
  /\ \/ /\ ~Gone(n) /\ Works
        /\ shared' = IF download THEN [shared EXCEPT ![Media(n)] = IF shared[Media(n)] = NoFile THEN NoFile ELSE "whole"] ELSE shared
        /\ Side(n, Served("ok", {shared[f] : f \in Staged(n)}))
     \/ Side(n, Served("other", {})) /\ Gone(n) /\ FilesSame /\ Works
     \/ /\ \E error \in KnownErrors \cup {"other"} : Side(n, Served(error, {}))
        /\ FilesSame /\ Fails

BridgeNext ==
  \/ \E n \in BridgeCallIds :
       \/ Begin(n) \/ Stage(n) \/ Copy(n) \/ Target(n) \/ Send(n) \/ Receive(n)
       \/ GiveUp(n) \/ Read(n) \/ Sweep(n)
       \/ Check(n) \/ Paths(n) \/ Create(n) \/ Serve(n)
  \/ PluginEnds
BridgeSpec == (\E world \in BridgeWorlds : BridgeInit(world)) /\ [][BridgeNext]_bridgeVars
-----------------------------------------------------------------------------
(* Properties.                                                             *)

\* A call that succeeded gave its whole file to whoever asked for it: the
\* account got the whole upload and its thumbnail, the plugin the whole
\* download, though the file was made, filled and removed by two processes.
Whole(c) ==
  c.at = "over" /\ c.error = "none" =>
    /\ c.op.method \in ProxyDownloads => c.got = "whole"
    /\ c.op.method = "send_file" => c.took = {"whole"}
\* A plugin that waited learns the error the service had, whichever process
\* it was in; the host knows every method the proxy uses.
SameError(c) ==
  c.at = "over" /\ ~c.late /\ c.served # "none" /\ c.error # "local" =>
    c.error = (CASE c.served = "ok" -> "none" [] c.served = "other" -> "remote_error" [] OTHER -> c.served)
KeepsOutput(c) ==
  c.at = "over" /\ ~c.late /\ c.op.method = "tool.run" /\ c.served # "none" => c.output
Faithful == \A n \in BridgeCallIds :
  Whole(bridged[n]) /\ SameError(bridged[n]) /\ KeepsOutput(bridged[n]) /\ bridged[n].reply # "method_not_found"

\* When a call is over on both sides its files are gone, unless the plugin
\* gave up or ended before the host was done with them.
Swept == \A n \in BridgeCallIds :
  bridged[n].at = "over" /\ bridged[n].host = "idle" /\ ~bridged[n].late =>
    shared[Media(n)] = NoFile /\ shared[Thumb(n)] = NoFile
FilesAreKept == Faithful /\ Swept
=============================================================================
