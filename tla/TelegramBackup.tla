--------------------------- MODULE TelegramBackup ---------------------------
(***************************************************************************)
(* The telegram-backup plugin: chats are copied page by page into a        *)
(* database of its own, and backups leave and come back as archives.       *)
(*                                                                         *)
(* The commands run one after another under the plugin's mutex; between    *)
(* two of their steps messages come and go in the chats, a call or a       *)
(* statement fails, or the process ends.  A message is its number; newer   *)
(* messages have higher numbers.  What a message says, who sent it and the *)
(* texts of the answers are left out, and so is what lists only.           *)
(***************************************************************************)
EXTENDS Naturals, FiniteSets, FiniteSetsExt

CONSTANTS
  MaxMessage,     \* bound: the highest number of a message
  batchSize,      \* messages of one page
  messageLimit,   \* messages of one backup
  maxArchiveDocuments,
  MaxBackups,     \* bound: rows of the table backups, deleted ones included
  MaxOrders,      \* bound: commands
  BackupFaults,   \* bound: failures, ends of the process, messages that come or go
  BackupWorlds,   \* [chats, links]: what there is at first
  NoOrder

VARIABLES
  chats,      \* [chat -> [kind, held, last]]: held is [message -> "text" or
              \* "service"], last the highest number a message there has had
  backups,    \* the tables backups and messages: [id -> [chat, messages, count, ...]]
  links,      \* the table chat_links: the chats
  nextBackup, \* AUTOINCREMENT
  order,      \* the command that holds the mutex
  archives,   \* the archives that were sent: [documents, links, torn]
  spent       \* how much of the bounds is used
backupVars == <<chats, backups, links, nextBackup, order, archives, spent>>
tables == <<backups, links, nextBackup>>

Text(c) == {m \in DOMAIN chats[c].held : chats[c].held[m] = "text"}

ASSUME BackupAssumption ==
  /\ batchSize \in Nat /\ messageLimit \in Nat
  /\ \A world \in BackupWorlds :
       /\ world.chats = [c \in DOMAIN world.chats |->
            [kind |-> world.chats[c].kind, held |-> world.chats[c].held, last |-> world.chats[c].last]]
       /\ \A c \in DOMAIN world.chats :
            world.chats[c].last \in Nat /\ DOMAIN world.chats[c].held \subseteq 1 .. world.chats[c].last

BackupInit(world) ==
  /\ chats = world.chats /\ links = world.links
  /\ backups = [id \in {} |-> NoOrder] /\ nextBackup = 1
  /\ order = NoOrder /\ archives = {} /\ spent = [orders |-> 0, faults |-> 0]
-----------------------------------------------------------------------------
(* The environment and the frame of the commands.                          *)

Spend(what) == spent' = [spent EXCEPT ![what] = @ + 1]
Fault == spent.faults < BackupFaults /\ Spend("faults")
Fine == UNCHANGED spent
ChatsSame == UNCHANGED chats
Running(cmd, at) == order # NoOrder /\ order.cmd \in cmd /\ order.at = at
Go(at) == order' = [order EXCEPT !.at = at]
Free == order' = NoOrder

\* Somebody writes in a chat, or deletes a message.
MessageComes(c) ==
  /\ Fault /\ chats[c].last < MaxMessage
  /\ \E kind \in {"text", "service"} :
       LET chat == chats[c]
           new == chat.last + 1 IN
       chats' = [chats EXCEPT ![c] = [kind |-> chat.kind, last |-> new,
         held |-> [m \in DOMAIN chat.held \cup {new} |-> IF m = new THEN kind ELSE chat.held[m]]]]
  /\ UNCHANGED <<tables, order, archives>>
MessageGoes(c) ==
  /\ Fault
  /\ \E gone \in DOMAIN chats[c].held :
       chats' = [chats EXCEPT ![c].held = [m \in DOMAIN @ \ {gone} |-> @[m]]]
  /\ UNCHANGED <<tables, order, archives>>

\* The process ends, or Stop closes the database below the command: what was
\* committed stays, and the mutex is free when the plugin is there again.
Interrupted == Fault /\ order # NoOrder /\ Free /\ ChatsSame /\ UNCHANGED <<tables, archives>>

Ordered(cmd, at, queue, file) == [cmd |-> cmd, at |-> at, queue |-> queue, id |-> 0, offset |-> 0, file |-> file]
Take(new) ==
  /\ order = NoOrder /\ spent.orders < MaxOrders /\ Spend("orders")
  /\ order' = new /\ ChatsSame /\ UNCHANGED <<tables, archives>>
-----------------------------------------------------------------------------
(* saved, chat, private and all.                                           *)

Several == {"private", "all"}
Copying == {"chat"} \cup Several
\* saved is the chat with oneself; private leaves it out.
BackupOne == \E c \in DOMAIN chats : Take(Ordered("chat", "create", {c}, NoOrder))
BackupMany == \E cmd \in Several :
  Take(Ordered(cmd, "create", {c \in DOMAIN chats : cmd = "all" \/ chats[c].kind = "private"}, NoOrder))

\* What backupChat's error does: one chat ends the command, many go on.
Failed == IF order.cmd \in Several THEN Go("create") ELSE Free
NewBackup(chat, top) ==
  [chat |-> chat, messages |-> {}, count |-> 0, top |-> top, whole |-> FALSE, torn |-> FALSE]
WithRow(id, row) == [i \in DOMAIN backups \cup {id} |-> IF i = id THEN row ELSE backups[i]]
Insert(row) ==
  /\ nextBackup <= MaxBackups /\ nextBackup' = nextBackup + 1
  /\ backups' = WithRow(nextBackup, row) /\ UNCHANGED links

\* The respond before each chat may fail: that ends the command.
CreateBackup ==
  /\ Running(Copying, "create") /\ ChatsSame /\ UNCHANGED archives
  /\ \/ order.queue = {} /\ Free /\ Fine /\ UNCHANGED tables
     \/ order.queue # {} /\ Free /\ Fault /\ UNCHANGED tables
     \/ \E c \in order.queue :
          \/ /\ Insert(NewBackup(c, chats[c].last)) /\ Fine
             /\ order' = [order EXCEPT !.at = "page", !.id = nextBackup, !.offset = 0, !.queue = @ \ {c}]
          \/ /\ order.cmd \in Several /\ Fault /\ UNCHANGED tables
             /\ order' = [order EXCEPT !.queue = @ \ {c}]

\* GetHistory: the messages below the offset, the newest first, at most limit
\* of them; those that are not texts are left out of what comes back.
Below(c, offset) == {m \in DOMAIN chats[c].held : offset = 0 \/ m < offset}
Fetched(c, offset, limit) ==
  LET below == Below(c, offset) IN
  {m \in below : Cardinality({k \in below : k > m}) < limit}
Page(c, offset, limit) == Fetched(c, offset, limit) \cap Text(c)
Smaller(a, b) == IF a < b THEN a ELSE b
\* Two bugs: the last page may go past the limit; the offset skips a message.
WholePages(stored) == batchSize
Limit(stored) == Smaller(batchSize, messageLimit - stored)
SkipsOne(page) == Min(page) - 1
OffsetAfter(page) == Min(page)

CopyPage ==
  LET row == backups[order.id]
      limit == Limit(Cardinality(row.messages))
      page == Page(row.chat, order.offset, limit) IN
  /\ Running(Copying, "page") /\ ChatsSame /\ UNCHANGED <<archives, links, nextBackup>>
  /\ \/ page = {} /\ Go("count") /\ Fine /\ UNCHANGED backups
     \/ /\ page # {} /\ Fine
        /\ backups' = WithRow(order.id, [row EXCEPT !.messages = @ \cup page])
        /\ order' = [order EXCEPT !.offset = OffsetAfter(page),
             !.at = IF Cardinality(page) < limit \/ Cardinality(row.messages \cup page) >= messageLimit
                    THEN "count" ELSE "page"]
     \/ Failed /\ Fault /\ UNCHANGED backups
     \* the progress of a single chat cannot be shown any more
     \/ /\ page # {} /\ order.cmd = "chat" /\ Free /\ Fault
        /\ backups' = WithRow(order.id, [row EXCEPT !.messages = @ \cup page])

Counted(row) == [row EXCEPT !.count = Cardinality(row.messages)]
UpdateCount ==
  LET row == backups[order.id] IN
  /\ Running(Copying, "count") /\ ChatsSame /\ UNCHANGED <<archives, links, nextBackup>>
  /\ \/ backups' = WithRow(order.id, [Counted(row) EXCEPT !.whole = TRUE]) /\ Go("create") /\ Fine
     \/ Failed /\ Fault /\ UNCHANGED backups
-----------------------------------------------------------------------------
(* groups, channels, links; delete and clear.                              *)

LinkKinds == {{"group"}, {"channel"}, {"group", "channel"}}
BackupLinks == \E kinds \in LinkKinds :
  Take(Ordered("links", "save", {c \in DOMAIN chats : chats[c].kind \in kinds}, NoOrder))
SaveLink ==
  /\ Running({"links"}, "save") /\ ChatsSame /\ UNCHANGED <<archives, backups, nextBackup>>
  /\ \/ order.queue = {} /\ Free /\ Fine /\ UNCHANGED links
     \/ order.queue # {} /\ Free /\ Fault /\ UNCHANGED links
     \/ \E c \in order.queue :
          links' = links \cup {c} /\ order' = [order EXCEPT !.queue = @ \ {c}] /\ Fine

Kept(ids) == [id \in ids |-> backups[id]]
\* The messages of a backup go with it.
Delete == \E id \in DOMAIN backups :
  /\ order = NoOrder /\ spent.orders < MaxOrders /\ Spend("orders")
  /\ backups' = Kept(DOMAIN backups \ {id})
  /\ ChatsSame /\ UNCHANGED <<links, nextBackup, order, archives>>

\* Three statements and no transaction.
ClearConfirm == Take(Ordered("clear", "messages", {}, NoOrder))
ClearTables ==
  /\ order # NoOrder /\ order.cmd = "clear" /\ ChatsSame /\ Fine /\ UNCHANGED <<archives, nextBackup>>
  /\ \/ /\ order.at = "messages" /\ Go("backups") /\ UNCHANGED links
        /\ backups' = [id \in DOMAIN backups |->
             [backups[id] EXCEPT !.messages = {}, !.torn = @ \/ backups[id].messages # {}]]
     \/ order.at = "backups" /\ Go("links") /\ backups' = Kept({}) /\ UNCHANGED links
     \/ order.at = "links" /\ Free /\ links' = {} /\ UNCHANGED backups
-----------------------------------------------------------------------------
(* export, exportall and restore.                                          *)

Document(id) == [chat |-> backups[id].chat, messages |-> backups[id].messages, count |-> backups[id].count]
Archive(ids, linked) ==
  [documents |-> {[doc |-> Document(id), id |-> id] : id \in ids}, links |-> linked,
   torn |-> \E id \in ids : backups[id].torn]
\* An archive is made and sent; when either fails its directory goes.
Sent(ids, linked) ==
  /\ order = NoOrder /\ spent.orders < MaxOrders /\ Spend("orders")
  /\ ids # {} /\ archives' = archives \cup {Archive(ids, linked)}
  /\ ChatsSame /\ UNCHANGED <<tables, order>>
Export == \E id \in DOMAIN backups : Sent({id}, {})
ExportAll == Sent(DOMAIN backups, links)

Entries(a) == Cardinality(a.documents) + (IF a.links = {} THEN 0 ELSE 1)
Accepted(a) == Entries(a) <= maxArchiveDocuments + 1
Restore == \E a \in archives :
  Accepted(a) /\ Take(Ordered("restore", "next", a.documents, a))

\* decodeDocument and what importDocument asks of a document.
DecodedCount(doc) == IF doc.count = 0 THEN Cardinality(doc.messages) ELSE doc.count
Valid(doc) ==
  /\ Cardinality(doc.messages) <= messageLimit
  /\ DecodedCount(doc) \in {0, Cardinality(doc.messages)}
RestoreLinks ==
  /\ Running({"restore"}, "next") /\ order.queue = {} /\ Free /\ ChatsSame
  /\ UNCHANGED <<archives, backups, nextBackup>>
  /\ \/ links' = links \cup order.file.links /\ Fine
     \/ order.file.links # {} /\ links' \in SUBSET (links \cup order.file.links) /\ links \subseteq links' /\ Fault
\* One document: a row, then its messages at once, then its count.  Only when
\* the messages fail the row is removed again, and that may fail too.
ImportDocument == \E d \in order.queue :
  LET row == NewBackup(d.doc.chat, 0)
      full == [row EXCEPT !.messages = d.doc.messages] IN
  /\ ChatsSame /\ UNCHANGED archives
  /\ order' = [order EXCEPT !.queue = @ \ {d}]
  /\ IF ~Valid(d.doc) THEN Fine /\ UNCHANGED tables
     ELSE \/ Insert(Counted(full)) /\ Fine
          \/ (Insert(row) \/ Insert(full)) /\ Fault
          \/ UNCHANGED tables /\ Fault
ImportNext == Running({"restore"}, "next") /\ ImportDocument

BackupNext ==
  \/ \E c \in DOMAIN chats : MessageComes(c) \/ MessageGoes(c)
  \/ Interrupted
  \/ BackupOne \/ BackupMany \/ CreateBackup \/ CopyPage \/ UpdateCount
  \/ BackupLinks \/ SaveLink \/ Delete \/ ClearConfirm \/ ClearTables
  \/ Export \/ ExportAll \/ Restore \/ RestoreLinks \/ ImportNext
BackupSpec == (\E world \in BackupWorlds : BackupInit(world)) /\ [][BackupNext]_backupVars
-----------------------------------------------------------------------------
(* Properties.                                                             *)

\* The messages of a chat that were there when a backup began and are there
\* still.
Lasting(row) == {m \in Text(row.chat) : m <= row.top}
\* However a backup ended, it has no holes: it holds every lasting message
\* that is newer than one it holds.
NoHoles == \A id \in DOMAIN backups :
  LET row == backups[id] IN
  ~row.torn => \A m \in row.messages, k \in Lasting(row) : k > m => k \in row.messages
\* A document of an archive that was sent is taken back, that of a broken
\* backup too, unless clear was interrupted after its first statement.
Restorable == \A a \in archives : ~a.torn => \A d \in a.documents : Valid(d.doc)
BackupsAreSound == NoHoles /\ Restorable

\* A backup that is reported as done and has not reached the limit holds all
\* of the chat.
BackupIsWhole == \A id \in DOMAIN backups :
  LET row == backups[id] IN
  row.whole /\ ~row.torn /\ row.count < messageLimit => Lasting(row) \subseteq row.messages
=============================================================================
