----------------------------- MODULE Moderation -----------------------------
(***************************************************************************)
(* The plugins aban and bulk_delete in the chats they work on: aban bans,  *)
(* mutes and frees a user in one chat or in all the account manages, whose *)
(* list it keeps for ten minutes; bulk_delete removes the messages of a    *)
(* range or the account's last ones, and keeps a switch that spares those  *)
(* of others.                                                              *)
(*                                                                         *)
(* A chat has messages [id, from], from "me", "x" or the service; one user *)
(* x is moderated.  Durations, names and the notices that remove           *)
(* themselves are left out.                                                *)
(***************************************************************************)
EXTENDS Naturals, FiniteSets, FiniteSetsExt

CONSTANTS
  Moderators, \* workers
  Here,       \* the chat commands come from
  PageSize,   \* messages a page of the history has; 100 in the code
  ModFaults,  \* bound: failures, restarts and changes in the chats
  NoMod,      \* no command, no row
  ModWorlds   \* the worlds to begin in, see ModInit

VARIABLES
  modWorld,
  talk,     \* the messages
  lastID,   \* the number of the newest message there has been
  managed,  \* the chats in which the account may ban and delete
  status,   \* [chat -> what x is there]
  mode,     \* the stored switch: others' messages are deleted
  cache,    \* [chats, read, fresh]: the stored list of managed chats, or NoMod
  reading,  \* lists read so far
  renewed,  \* the list the last answered refresh had read
  oldBack,  \* a list older than that may be stored, see RefreshHolds
  modding,  \* [worker -> its command]
  deleted,  \* [kind, id, ids, own, others, allowed]: the deletions, what of the chat was the
            \* owner's and what of it others', see OthersSpared
  reports,  \* [success, failed, all, old]: the answers of sb and unsb
  modSpent
modVars == <<modWorld, talk, lastID, managed, status, mode, cache, reading, renewed, oldBack, modding, deleted, reports, modSpent>>
chatLists == <<cache, reading, renewed, oldBack>>
people == <<managed, status>>

ModFine == UNCHANGED modSpent
ModFault == modSpent.faults < ModFaults /\ modSpent' = [modSpent EXCEPT !.faults = @ + 1]
ModAt(w, at) == modding[w] # NoMod /\ modding[w].at = at
ModGo(w, at) == modding' = [modding EXCEPT ![w].at = at]
ModEnds(w) == modding' = [modding EXCEPT ![w] = NoMod]
Ids(messages) == {m.id : m \in messages}
\* What numbers a chat's messages have, and what the commands are parsed to.
ASSUME ModAssumption ==
  /\ PageSize \in Nat \ {0} /\ NoMod \notin BOOLEAN
  /\ \A world \in ModWorlds :
       /\ IsFiniteSet(world.talk) /\ IsFiniteSet(world.managed)
       /\ world.last \in Nat
       /\ \A m \in world.talk : m.id \in 1 .. world.last /\ \A n \in world.talk : n.id = m.id => n = m
       /\ \A c \in world.commands :
            /\ c.kind \in {"range", "recent", "switch", "moderate", "super", "refresh"}
            /\ c.kind = "recent" => c.count \in Nat
            /\ c.kind = "switch" => c.on \in BOOLEAN

\* world: [talk, last, managed, commands, orders]: the messages of the chat
\* commands come from and the last number given there, the chats the account
\* manages, what the owner types, and how often (a bound)
ModInit(world) ==
  /\ modWorld = world /\ talk = world.talk /\ lastID = world.last /\ managed = world.managed
  /\ status = [c \in world.managed |-> "member"] /\ mode = NoMod /\ cache = NoMod /\ reading = 0 /\ renewed = 0
  /\ oldBack = FALSE /\ modding = [w \in Moderators |-> NoMod] /\ deleted = {} /\ reports = {}
  /\ modSpent = [orders |-> 0, faults |-> 0]

Writes(who) == lastID' = lastID + 1 /\ talk' = talk \cup {[id |-> lastID + 1, from |-> who]}
\* A command is a message of the owner's, newer than all others.
ModHandle(w) == \E c \in modWorld.commands :
  /\ modding[w] = NoMod /\ modSpent.orders < modWorld.orders
  /\ modSpent' = [modSpent EXCEPT !.orders = @ + 1] /\ Writes("me")
  /\ modding' = [modding EXCEPT ![w] =
       [at |-> c.kind, cmd |-> c, id |-> lastID', on |-> mode # FALSE, others |-> FALSE, unread |-> FALSE, offset |-> lastID',
        ids |-> {}, chats |-> {}, inflight |-> {}, success |-> {}, failed |-> {}, read |-> 0, need |-> renewed,
        behind |-> FALSE]]
  /\ UNCHANGED <<modWorld, people, mode, chatLists, deleted, reports>>
\* A call of the command fails and it is answered so; what is in flight is not.
ModFails(w) ==
  /\ modding[w] # NoMod /\ modding[w].inflight = {} /\ ModFault /\ ModEnds(w)
  /\ UNCHANGED <<modWorld, talk, lastID, people, mode, chatLists, deleted, reports>>
ModRestarts ==
  /\ ModFault /\ modding' = [w \in Moderators |-> NoMod]
  /\ UNCHANGED <<modWorld, talk, lastID, people, mode, chatLists, deleted, reports>>
\* The account loses its rights in a chat; x writes.
RightsGo == \E c \in managed :
  /\ ModFault /\ managed' = managed \ {c}
  /\ UNCHANGED <<modWorld, talk, lastID, status, mode, chatLists, modding, deleted, reports>>
XWrites ==
  /\ ModFault /\ Writes("x")
  /\ UNCHANGED <<modWorld, people, mode, chatLists, modding, deleted, reports>>
-----------------------------------------------------------------------------
(* bulk_delete                                                             *)

\* on and off are stored; a command that runs may have read the switch before.
saveMode(w) ==
  /\ ModAt(w, "switch") /\ mode' = modding[w].cmd.on /\ ModFine
  /\ modding' = [v \in Moderators |-> IF v = w THEN NoMod ELSE IF modding[v] = NoMod THEN NoMod
                   ELSE [modding[v] EXCEPT !.on = @ \/ mode']]
  /\ UNCHANGED <<modWorld, talk, lastID, people, chatLists, deleted, reports>>
\* A bug: who may delete does.
RightsOnly(m, rights) == rights
DeletesOthers(m, rights) == m # FALSE /\ rights
\* Rights that cannot be read are none; a switch that cannot be read is on.
loadMode(w) ==
  /\ ModAt(w, "range")
  /\ \/ ModFine /\ modding' = [modding EXCEPT ![w].at = "collect", ![w].others = DeletesOthers(mode, Here \in managed)]
     \/ ModFault /\ ModGo(w, "collect")
     \/ ModFault /\ modding' = [modding EXCEPT ![w].at = "collect", ![w].others = Here \in managed, ![w].unread = TRUE]
  /\ UNCHANGED <<modWorld, talk, lastID, people, mode, chatLists, deleted, reports>>
\* The newest messages of a set, as many as a page has; the service's are taken out afterwards.
Newest(messages) == {m \in messages : Cardinality({n \in messages : n.id > m.id}) < PageSize}
ChatPage(messages) == {m \in Newest(messages) : m.from # "service"}
deleteRange(w) ==
  /\ ModAt(w, "collect") /\ ModFine
  /\ LET j == modding[w]
         range == ChatPage({m \in talk : m.id >= j.cmd.reply /\ m.id <= j.id})
         ids == Ids({m \in range : j.others \/ m.from = "me"}) IN
       IF ids \subseteq {j.id} THEN ModEnds(w)
       ELSE modding' = [modding EXCEPT ![w].at = "delete", ![w].ids = ids \cup {j.id}]
  /\ UNCHANGED <<modWorld, talk, lastID, people, mode, chatLists, deleted, reports>>
\* A bug: a message is passed over between two pages.
PastLast(page) == Min(Ids(page)) - 1
LastOf(page) == Min(Ids(page))
deleteRecentOwn(w) ==
  /\ ModAt(w, "recent") /\ ModFine
  /\ LET j == modding[w]
         page == ChatPage({m \in talk : m.id < j.offset})
         mine == {m \in page : m.from = "me"}
         missing == j.cmd.count - Cardinality(j.ids)
         taken == {m \in mine : Cardinality({n \in mine : n.id > m.id}) < missing}
         ids == j.ids \cup Ids(taken) IN
       modding' = [modding EXCEPT ![w] =
         IF Cardinality(page) < PageSize \/ Cardinality(ids) >= j.cmd.count
         THEN [j EXCEPT !.at = "delete", !.ids = ids \cup {j.id}]
         ELSE [j EXCEPT !.ids = ids, !.offset = LastOf(page)]]
  /\ UNCHANGED <<modWorld, talk, lastID, people, mode, chatLists, deleted, reports>>
\* Telegram passes over what the account may not delete.
DeleteMessages(w) ==
  /\ ModAt(w, "delete") /\ ModFine /\ ModEnds(w)
  /\ LET j == modding[w]
         asked == {m \in talk : m.id \in j.ids}
         gone == {m \in asked : m.from = "me" \/ Here \in managed} IN
       /\ talk' = talk \ gone
       /\ deleted' = deleted \cup {[kind |-> j.cmd.kind, ids |-> j.ids, own |-> Ids({m \in talk : m.from = "me"}),
                                    others |-> Ids({m \in asked : m.from # "me"}), id |-> j.id, allowed |-> j.on \/ j.unread]}
  /\ UNCHANGED <<modWorld, lastID, people, mode, chatLists, reports>>
-----------------------------------------------------------------------------
(* aban                                                                    *)

\* One chat: the rights are asked for first; a banned user's messages go before the user does,
\* or stay when that fails.
MayBan(w) ==
  /\ ModAt(w, "moderate") /\ ModFine /\ IF Here \in managed THEN ModGo(w, "history") ELSE ModEnds(w)
  /\ UNCHANGED <<modWorld, talk, lastID, people, mode, chatLists, deleted, reports>>
DeleteUserHistory(w) ==
  /\ ModAt(w, "history") /\ ModGo(w, "act")
  /\ \/ ModFine /\ talk' = IF modding[w].cmd.action = "banned" /\ Here \in managed THEN {m \in talk : m.from # "x"} ELSE talk
     \/ ModFault /\ UNCHANGED talk
  /\ UNCHANGED <<modWorld, lastID, people, mode, chatLists, deleted, reports>>
moderate(w) ==
  /\ ModAt(w, "act") /\ ModFine /\ ModEnds(w)
  /\ status' = IF Here \in managed THEN [status EXCEPT ![Here] = modding[w].cmd.action] ELSE status
  /\ UNCHANGED <<modWorld, talk, lastID, managed, mode, chatLists, deleted, reports>>

\* The list lives ten minutes.
ListExpires ==
  /\ cache # NoMod /\ cache.fresh /\ ModFault /\ cache' = [cache EXCEPT !.fresh = FALSE]
  /\ UNCHANGED <<modWorld, talk, lastID, people, mode, reading, renewed, oldBack, modding, deleted, reports>>
\* A bug: refresh leaves the old list until there is a new one.
KeepOld(c) == c
DropOld(c) == NoMod
\* A removal that fails is only logged.
DropList(w) ==
  /\ ModAt(w, "refresh") /\ ModGo(w, "list")
  /\ \/ ModFine /\ cache' = DropOld(cache) /\ UNCHANGED oldBack
     \/ ModFault /\ UNCHANGED cache /\ oldBack' = TRUE
  /\ UNCHANGED <<modWorld, talk, lastID, people, mode, reading, renewed, deleted, reports>>
UseList(w) ==
  /\ ModAt(w, "super") /\ ModFine
  /\ IF cache # NoMod /\ cache.fresh
     THEN modding' = [modding EXCEPT ![w].at = "batch", ![w].chats = cache.chats, ![w].read = cache.read,
                                            ![w].behind = oldBack]
     ELSE ModGo(w, "list")
  /\ UNCHANGED <<modWorld, talk, lastID, people, mode, chatLists, deleted, reports>>
ListManagedChats(w) ==
  /\ ModAt(w, "list") /\ ModFine /\ reading' = reading + 1
  /\ modding' = [modding EXCEPT ![w].at = "cache", ![w].chats = managed, ![w].read = reading']
  /\ UNCHANGED <<modWorld, talk, lastID, people, mode, cache, renewed, oldBack, deleted, reports>>
Refreshing(w) == \E v \in Moderators \ {w} : modding[v] # NoMod /\ modding[v].cmd.kind = "refresh"
\* A list that cannot be stored is used all the same.
managedChats(w) ==
  /\ ModAt(w, "cache")
  /\ LET j == modding[w] IN
       /\ \/ /\ ModFine /\ cache' = [chats |-> j.chats, read |-> j.read, fresh |-> TRUE]
             /\ oldBack' = (j.read < renewed \/ Refreshing(w) \/ (j.cmd.kind = "super" /\ oldBack))
          \/ ModFault /\ UNCHANGED <<cache, oldBack>>
       /\ IF j.cmd.kind = "refresh" THEN renewed' = Max({renewed, j.read}) /\ ModEnds(w)
          ELSE ModGo(w, "batch") /\ UNCHANGED renewed
  /\ UNCHANGED <<modWorld, talk, lastID, people, mode, reading, deleted, reports>>

\* All chats of the list at once, eight calls in flight; each ends for itself.
Dispatch(w) == \E c \in modding[w].chats :
  /\ ModFine /\ c \notin modding[w].inflight \cup modding[w].success \cup modding[w].failed
  /\ modding' = [modding EXCEPT ![w].inflight = @ \cup {c}]
  /\ UNCHANGED <<modWorld, talk, lastID, people, mode, chatLists, deleted, reports>>
Called(w) == \E c \in modding[w].inflight :
  /\ \/ /\ ModFine /\ c \in managed /\ status' = [status EXCEPT ![c] = modding[w].cmd.action]
        /\ modding' = [modding EXCEPT ![w].inflight = @ \ {c}, ![w].success = @ \cup {c}]
     \/ /\ ModFine /\ c \notin managed /\ UNCHANGED status
        /\ modding' = [modding EXCEPT ![w].inflight = @ \ {c}, ![w].failed = @ \cup {c}]
     \/ /\ ModFault /\ status' \in {status, [status EXCEPT ![c] = modding[w].cmd.action]}
        /\ modding' = [modding EXCEPT ![w].inflight = @ \ {c}, ![w].failed = @ \cup {c}]
  /\ UNCHANGED <<modWorld, talk, lastID, managed, mode, chatLists, deleted, reports>>
\* A bug: the answer does not wait for the calls in flight.
AllBegun(j) == j.chats = j.inflight \cup j.success \cup j.failed
AllEnded(j) == j.chats = j.success \cup j.failed
superModerate(w) ==
  /\ AllEnded(modding[w]) /\ ModFine /\ ModEnds(w)
  /\ LET j == modding[w] IN
       reports' = IF j.chats = {} THEN reports
                  ELSE reports \cup {[success |-> Cardinality(j.success), failed |-> Cardinality(j.failed),
                                      all |-> Cardinality(j.chats), old |-> j.read < j.need /\ ~j.behind]}
  /\ UNCHANGED <<modWorld, talk, lastID, people, mode, chatLists, deleted>>
batchModerate(w) == ModAt(w, "batch") /\ (Dispatch(w) \/ Called(w) \/ superModerate(w))

ModNext ==
  \/ ModRestarts \/ RightsGo \/ XWrites \/ ListExpires
  \/ \E w \in Moderators :
       \/ ModHandle(w) \/ ModFails(w) \/ saveMode(w) \/ loadMode(w) \/ deleteRange(w) \/ deleteRecentOwn(w)
       \/ DeleteMessages(w) \/ MayBan(w) \/ DeleteUserHistory(w) \/ moderate(w)
       \/ DropList(w) \/ UseList(w) \/ ListManagedChats(w) \/ managedChats(w) \/ batchModerate(w)
ModSpec == (\E world \in ModWorlds : ModInit(world)) /\ [][ModNext]_modVars
-----------------------------------------------------------------------------
(* Others' messages are asked to be deleted only in a range, between the   *)
(* message replied to and the command, and when the switch was on at some  *)
(* time since the command came, or could not be read.                      *)
OthersSpared == \A d \in deleted : d.others # {} =>
  d.kind = "range" /\ d.allowed /\ \A i \in d.others : i <= d.id

(* The last messages are deleted without holes: between two that go, and   *)
(* up to the command, no message of the owner's stays, whatever others     *)
(* write or delete between the pages.                                      *)
OwnAreTaken == \A d \in deleted : d.kind = "recent" =>
  \A i \in d.own : i > Min(d.ids) /\ i < d.id => i \in d.ids

(* After an answered refresh, no list read before it is used; except one   *)
(* that a command at the same time stored, or that could not be removed.   *)
RefreshHolds == \A r \in reports : ~r.old

(* The answer of sb and unsb accounts for every chat of the list.          *)
CountsAddUp == \A r \in reports : r.success + r.failed = r.all

(* The four together: what the services run checks of these plugins.       *)
ModerationIsSound == OthersSpared /\ OwnAreTaken /\ RefreshHolds /\ CountsAddUp
=============================================================================
