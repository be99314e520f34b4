------------------------ MODULE MC_TelegramBackup -------------------------
(* Instances of TelegramBackup: pages of two messages, backups of three.   *)
EXTENDS TelegramBackup, TLC

PrivateTexts(n) == [kind |-> "private", last |-> n, held |-> [m \in 1 .. n |-> "text"]]
GroupOf(service) == [kind |-> "group", last |-> 3, held |-> [m \in 1 .. 3 |-> IF m = service THEN "service" ELSE "text"]]
TwoChats ==
  {[chats |-> "a" :> PrivateTexts(4) @@ "b" :> GroupOf(0), links |-> {}],
   [chats |-> "a" :> PrivateTexts(1) @@ "b" :> GroupOf(2), links |-> {"b"}]}
OneGroup == {[chats |-> "b" :> GroupOf(2), links |-> {}]}
===========================================================================
