------------------------------ MODULE Commands ------------------------------
(***************************************************************************)
(* The commands that need a live connection (cmd/wacli-pro): each is       *)
(* written twice, once for the process that has the lock and connects      *)
(* itself and once as a handler of the daemon, or once as an operation     *)
(* both of them call (live_ops.go).                                        *)
(*                                                                         *)
(* A path is the sequence of steps the code takes, and the two are run     *)
(* side by side in the same circumstances: "wrong" is what will go wrong.  *)
(* Who runs which path, and how often, is the business of DaemonIPC; how   *)
(* commands meet each other and the sync, that of MessageStore, NameCache, *)
(* ChatState and MediaDownload.                                            *)
(***************************************************************************)
EXTENDS Naturals, Sequences, FiniteSets

CONSTANT MaxWrong   \* how many things go wrong for one command

ASSUME CommandsAssumption == MaxWrong \in Nat

Path == {"direct", "daemon"}

(* An argument that does not parse, a message that is not stored, somebody
   else's, or without what is needed of it; a file that cannot be read, or not
   under that name by the daemon, whose working directory is another one;
   WhatsApp not reachable, refusing, not answering what it did, or not answering
   a question; the store not to be written.  "link" is no fault: the text, no
   reply, holds a link that has a preview. *)
Wrong == {"argument", "message", "foreign", "empty", "file", "elsewhere",
          "offline", "refused", "unanswered", "unread", "store", "link"}

Check(what) == <<[kind |-> "check", what |-> what]>>
Change(what) == <<[kind |-> "change", what |-> what]>>  \* a call that changes
Ask == <<[kind |-> "ask", what |-> "info"]>>            \* one that must be answered
Look == <<[kind |-> "look", what |-> "info"]>>          \* one that need not
Keep(what) == <<[kind |-> "keep", what |-> what]>>      \* written to the store, or a warning
MustKeep(what) == <<[kind |-> "must_keep", what |-> what]>>
Do(what) == <<[kind |-> "do", what |-> what]>>          \* local, cannot fail
-----------------------------------------------------------------------------
(* newApp, EnsureAuthed, Connect *)
Connected == Check("offline")

(* a command and its two paths *)
Twice(name, direct, daemon) == [name |-> name, direct |-> direct, daemon |-> daemon]

(* runLiveOrDelegate *)
Live(name, op) == Twice(name, Connected \o op, op)

KeepSent == Keep("chat") \o Keep("message")

(* a reply needs the quoted message, and in a group its sender *)
Quoted == Check("message") \o Check("empty")

SendText == Check("argument") \o Quoted \o Change("message") \o KeepSent

SendTextDirect == Connected \o Check("argument") \o Quoted \o Do("preview") \o Change("message") \o KeepSent

SendFile == Check("file") \o Ask \o Change("message") \o KeepSent

SendSticker == Check("file") \o Ask \o Change("message") \o KeepSent

SendFileHandler == Check("argument") \o SendFile
SendFileDirect == Connected \o Check("argument") \o SendFile

SendStickerHandler == Check("argument") \o SendSticker
SendStickerDirect == Connected \o Check("argument") \o SendSticker

SendVoiceHandler == Check("argument") \o SendFile
SendVoiceDirect == Connected \o Check("argument") \o SendFile

(* reactions are not stored *)
SendReaction == Check("argument") \o Change("reaction")
SendReactionDirect == Connected \o Check("argument") \o Change("reaction")

(* mutant: the handler does not store what it sent *)
SendLocationUnkept == Check("argument") \o Change("message")

SendLocation == Check("argument") \o Change("message") \o KeepSent
SendLocationDirect == Connected \o Check("argument") \o Change("message") \o KeepSent

SendForward == Check("argument") \o Check("message") \o Check("empty") \o Change("message") \o KeepSent
SendForwardDirect ==
  Connected \o Check("argument") \o Check("message") \o Check("empty") \o Change("message") \o KeepSent

(* polls are not stored *)
SendPoll == Check("argument") \o Change("message")

SendCommands ==
  {Twice("send.text", SendTextDirect, SendText),
   Twice("send.file", SendFileDirect, SendFileHandler),
   Twice("send.sticker", SendStickerDirect, SendStickerHandler),
   Twice("send.voice", SendVoiceDirect, SendVoiceHandler),
   Twice("send.reaction", SendReactionDirect, SendReaction),
   Twice("send.location", SendLocationDirect, SendLocation),
   Twice("send.forward", SendForwardDirect, SendForward),
   Live("send.poll", SendPoll)}
-----------------------------------------------------------------------------
StatusText == Change("message") \o KeepSent
StatusTextDirect == Connected \o Change("message") \o KeepSent

StatusFile == SendFile
StatusFileDirect == Connected \o SendFile

(* one's own message, first in the store and then its chat's address *)
Own == Check("message") \o Check("foreign") \o Check("argument")

MessagesDelete == Own \o Change("revocation") \o MustKeep("revocation")
MessagesDeleteDirect == Connected \o Own \o Change("revocation") \o MustKeep("revocation")

MessagesEdit == Own \o Change("edit") \o Keep("edit")
MessagesEditDirect == Connected \o Own \o Change("edit") \o Keep("edit")

Presence == Check("argument") \o Change("presence")
PresenceDirect == Connected \o Check("argument") \o Change("presence")

(* the metadata, where it is to go, and the media *)
MediaDownload == Check("message") \o Check("empty") \o Ask \o Keep("downloaded")
MediaDownloadDirect == Check("message") \o Check("empty") \o Connected \o Ask \o Keep("downloaded")

MessageCommands ==
  {Twice("status.text", StatusTextDirect, StatusText),
   Twice("status.file", StatusFileDirect, StatusFile),
   Twice("messages.delete", MessagesDeleteDirect, MessagesDelete),
   Twice("messages.edit", MessagesEditDirect, MessagesEdit),
   Twice("presence", PresenceDirect, Presence),
   Twice("media.download", MediaDownloadDirect, MediaDownload)}
-----------------------------------------------------------------------------
(* App.ArchiveChat, PinChat, MuteChat, MarkChatRead *)
SetChat == Change("chat_state") \o MustKeep("chat_state")

HandleChatState == Check("argument") \o SetChat
ChatStateDirect == Connected \o Check("argument") \o SetChat

HandleChatsMute == Check("argument") \o HandleChatState
ChatsMuteDirect == Connected \o Check("argument") \o Check("argument") \o SetChat

ChatCommands ==
  {Twice("chats", ChatStateDirect, HandleChatState),
   Twice("chats.mute", ChatsMuteDirect, HandleChatsMute)}
-----------------------------------------------------------------------------
FetchGroupInfo == Ask \o Keep("group")

GroupsInfo == Check("argument") \o FetchGroupInfo
GroupsInfoDirect == Connected \o Check("argument") \o FetchGroupInfo

Refetch == Look \o Keep("group")

GroupRename == Check("argument") \o Change("group") \o Do("forget") \o Refetch
GroupLeave == Check("argument") \o Change("membership") \o Keep("membership")

GroupInfos ==
  {Twice("groups.info", GroupsInfoDirect, GroupsInfo),
   Live("groups.rename", GroupRename),
   Live("groups.leave", GroupLeave)}

GroupTopic == Check("argument") \o Change("group") \o Refetch
GroupPhoto == Check("argument") \o Check("file") \o Change("photo")
GroupLocked == Check("argument") \o Change("group")
GroupAnnounce == Check("argument") \o Change("group")
GroupJoinApproval == Check("argument") \o Change("group")
GroupMemberAddMode == Check("argument") \o Check("argument") \o Change("group")

GroupSettings ==
  {Live("groups.topic", GroupTopic),
   Live("groups.photo", GroupPhoto),
   Live("groups.lock", GroupLocked),
   Live("groups.announce", GroupAnnounce),
   Live("groups.join-approval", GroupJoinApproval),
   Live("groups.member-add-mode", GroupMemberAddMode)}

GroupParticipants == Check("argument") \o Check("argument") \o Change("group") \o Refetch

Participants == {Live("groups.participants", GroupParticipants)}

GroupInviteLink == Check("argument") \o Change("link")
GroupJoin == Change("membership") \o Refetch

Invitations == {Live("groups.invite-link", GroupInviteLink), Live("groups.join", GroupJoin)}

GroupCreate == Check("argument") \o Change("group") \o Keep("group")
GroupRequestsList == Check("argument") \o Ask
GroupRequestsAction == Check("argument") \o Check("argument") \o Change("membership")

Requests ==
  {Live("groups.create", GroupCreate),
   Live("groups.requests-list", GroupRequestsList),
   Live("groups.requests-action", GroupRequestsAction)}

(* for every group *)
GroupRefresh == Ask \o Do("forget") \o Keep("group") \o Keep("chat")

Refresh == {Live("groups.refresh", GroupRefresh)}
-----------------------------------------------------------------------------
ProfileSetAbout == Change("profile")
ProfileSetPhoto == Check("file") \o Change("photo")
ProfileRemovePhoto == Change("photo")

Profile ==
  {Live("profile.set-about", ProfileSetAbout),
   Live("profile.set-photo", ProfileSetPhoto),
   Live("profile.remove-photo", ProfileRemovePhoto)}

ChannelsList == Ask
ChannelsInfo == Check("argument") \o Ask
ChannelsFollow == Check("argument") \o Change("channel")
ChannelsMute == Check("argument") \o Change("channel")

Channels ==
  {Live("channels.list", ChannelsList),
   Live("channels.info", ChannelsInfo),
   Live("channels.follow", ChannelsFollow),
   Live("channels.mute", ChannelsMute)}

(* the oldest message stored is where to begin; what the phone answers is for
   the sync to store, and an answer that was not stored is no error.  Further
   requests are Backfill's business. *)
BackfillRequest == Ask \o Keep("history")

HistoryBackfill == Check("argument") \o Check("message") \o BackfillRequest
HistoryBackfillDirect == Check("argument") \o Connected \o Check("message") \o BackfillRequest

HistoryCommands == {Twice("history.backfill", HistoryBackfillDirect, HistoryBackfill)}

(* registerIPCHandlers; the handlers that differ in a flag they pass on are one *)
Table ==
  UNION {SendCommands, MessageCommands, ChatCommands, GroupInfos, GroupSettings,
         Participants, Invitations, Requests, Refresh, Profile, Channels, HistoryCommands}
-----------------------------------------------------------------------------
VARIABLES
  command,   \* the command given
  wrong,     \* what goes wrong
  next,      \* the step each path takes next
  changed,   \* what it has changed at WhatsApp
  kept,      \* what it has written to the store
  done,      \* what else it has done
  told       \* what the user is told: "none" yet, "ok" or "error"

effects == <<changed, kept, done>>
commandVars == <<command, wrong, next, effects, told>>

CommandInit ==
  /\ command \in Table
  /\ wrong \in {w \in SUBSET Wrong : Cardinality(w) <= MaxWrong}
  /\ next = [p \in Path |-> 1]
  /\ changed = [p \in Path |-> {}] /\ kept = [p \in Path |-> {}] /\ done = [p \in Path |-> {}]
  /\ told = [p \in Path |-> "none"]

Course(p) == command[p]
At(p, kind) == told[p] = "none" /\ next[p] <= Len(Course(p)) /\ Course(p)[next[p]].kind = kind
What(p) == Course(p)[next[p]].what
Advance(p, n) == next' = [next EXCEPT ![p] = @ + n]
Note(f, p, what) == [f EXCEPT ![p] = @ \cup {what}]
Answer(p, r) == told' = [told EXCEPT ![p] = r]

Fails(p, what) == what \in wrong \/ (what = "file" /\ p = "daemon" /\ "elsewhere" \in wrong)

Error(p) == Answer(p, "error") /\ UNCHANGED <<command, wrong, next, effects>>

Pass(p) ==
  /\ At(p, "check") /\ ~Fails(p, What(p)) /\ Advance(p, 1)
  /\ UNCHANGED <<command, wrong, effects, told>>

Reject(p) == At(p, "check") /\ Fails(p, What(p)) /\ Error(p)

Perform(p) ==
  /\ At(p, "change") /\ {"offline", "refused", "unanswered"} \cap wrong = {}
  /\ Advance(p, 1) /\ changed' = Note(changed, p, What(p))
  /\ UNCHANGED <<command, wrong, kept, done, told>>

(* mutant: the error of the call is dropped *)
RefuseSilently(p) ==
  /\ At(p, "change") /\ {"offline", "refused"} \cap wrong # {} /\ Advance(p, 1)
  /\ UNCHANGED <<command, wrong, effects, told>>

Refuse(p) == At(p, "change") /\ {"offline", "refused"} \cap wrong # {} /\ Error(p)

(* done at WhatsApp, but the answer does not come before the context ends *)
Unanswered(p) ==
  /\ At(p, "change") /\ "unanswered" \in wrong /\ {"offline", "refused"} \cap wrong = {}
  /\ changed' = Note(changed, p, What(p)) /\ Answer(p, "error")
  /\ UNCHANGED <<command, wrong, next, kept, done>>

Unread == {"offline", "unread"} \cap wrong # {}

Learn(p) ==
  /\ At(p, "ask") \/ At(p, "look")
  /\ ~Unread /\ Advance(p, 1)
  /\ UNCHANGED <<command, wrong, effects, told>>

LearnNothing(p) == At(p, "ask") /\ Unread /\ Error(p)

(* what was to be kept of it is left out *)
LookAway(p) ==
  /\ At(p, "look") /\ Unread /\ Advance(p, 2)
  /\ UNCHANGED <<command, wrong, effects, told>>

Write(p) ==
  /\ At(p, "keep") \/ At(p, "must_keep")
  /\ "store" \notin wrong /\ Advance(p, 1) /\ kept' = Note(kept, p, What(p))
  /\ UNCHANGED <<command, wrong, changed, done, told>>

(* warnOnErr *)
Warn(p) ==
  /\ At(p, "keep") /\ "store" \in wrong /\ Advance(p, 1)
  /\ UNCHANGED <<command, wrong, effects, told>>

WriteFails(p) == At(p, "must_keep") /\ "store" \in wrong /\ Error(p)

(* a preview is only made when there is a link *)
DoLocally(p) ==
  /\ At(p, "do") /\ Advance(p, 1)
  /\ done' = IF What(p) = "preview" /\ "link" \notin wrong THEN done ELSE Note(done, p, What(p))
  /\ UNCHANGED <<command, wrong, changed, kept, told>>

Succeed(p) ==
  /\ told[p] = "none" /\ next[p] > Len(Course(p)) /\ Answer(p, "ok")
  /\ UNCHANGED <<command, wrong, next, effects>>

CommandNext ==
  \E p \in Path :
    \/ Pass(p) \/ Reject(p) \/ Perform(p) \/ Refuse(p) \/ Unanswered(p)
    \/ Learn(p) \/ LearnNothing(p) \/ LookAway(p)
    \/ Write(p) \/ Warn(p) \/ WriteFails(p) \/ DoLocally(p) \/ Succeed(p)

CommandSpec == CommandInit /\ [][CommandNext]_commandVars
-----------------------------------------------------------------------------
Has(steps, kind) == {steps[i].what : i \in {j \in DOMAIN steps : steps[j].kind = kind}}

Same ==
  (\A p \in Path : told[p] # "none")
    => /\ \A f \in {changed, kept, done} : f["direct"] = f["daemon"]
       /\ told["direct"] = told["daemon"]

(* A command has the same effects and is answered the same whether or not a
   daemon runs it -- although most are written twice, with their checks in
   another order -- unless it reads a file the daemon knows by another name, or
   its text holds a link. *)
SameUnlessFileOrLink == {"elsewhere", "link"} \cap wrong = {} => Same

(* Who is told that a command succeeded may rely on it: all it was to change
   is changed, and what it was to keep is kept unless the store or the question
   on which it depends failed; who is told that it failed may repeat it: it
   changed nothing, unless WhatsApp did not answer, or the change is one that
   does no harm when it is repeated and could not be kept.  At no time does the
   store hold a change that was not made. *)
AnswersAreTrue ==
  \A p \in Path :
    /\ told[p] = "ok" =>
         /\ Has(Course(p), "change") \subseteq changed[p]
         /\ {"store", "unread"} \cap wrong = {} =>
              Has(Course(p), "keep") \cup Has(Course(p), "must_keep") \subseteq kept[p]
    /\ told[p] = "error" =>
         \/ changed[p] = {} \/ "unanswered" \in wrong
         \/ "store" \in wrong /\ changed[p] \subseteq {"revocation", "chat_state"}
    /\ (kept[p] \cap Has(Course(p), "change")) \subseteq changed[p]
=============================================================================
