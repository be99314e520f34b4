---------------------------- MODULE MC_ChatTools ----------------------------
EXTENDS ChatTools
-----------------------------------------------------------------------------
(* trace: rows of the predecessor and commands.                            *)
To(key, value) == [key |-> key, value |-> value]
Legacy == [defaultState EXCEPT !.user = "heart", !.beta = "heart", !.keep = FALSE]
Older == [defaultState EXCEPT !.alpha = "fire"]
Wholes == {To("clean", 0), To("reset", 0)}
Texts == {[traced |-> TRUE, words |-> {"beta"}], [traced |-> FALSE, words |-> {"alpha", "beta"}]}
TraceWorldOf(sources, commands) == [sources |-> sources, commands |-> commands, texts |-> Texts]
AllTrace == {
  TraceWorldOf(<<NoRules, NoRules>>, Wholes \cup {To("user", "thumb"), To("beta", "fire"), To("keep", FALSE)}),
  TraceWorldOf(<<NoRules, Legacy, Older>>, Wholes \cup {To("user", Silent), To("beta", Silent), To("big", FALSE)}),
  TraceWorldOf(<<Broken, Legacy>>, Wholes)}
-----------------------------------------------------------------------------
(* search: channels, discussions and lists.                                *)
Post(id, video, group, match, ads, usable) ==
  [id |-> id, video |-> video, group |-> group, match |-> match, served |-> TRUE, score |-> IF match THEN 50 ELSE 0,
   ads |-> ads, usable |-> usable]
\* a: an album whose text is at its picture, and an advertisement; b: a short video and one that
\* does not match; c: nothing of its own, but a discussion.
Posts == [h \in Channels |->
  CASE h = "a" -> {Post(1, FALSE, 7, TRUE, {}, FALSE), Post(2, TRUE, 7, FALSE, {}, TRUE),
                   Post(3, TRUE, 0, TRUE, {"sale"}, TRUE)}
    [] h = "b" -> {Post(4, TRUE, 0, TRUE, {}, FALSE), Post(5, TRUE, 0, FALSE, {"spam"}, TRUE)}
    [] OTHER -> {}]
Threads == [h \in Channels |->
  IF h = "c" THEN <<{Post(6, FALSE, 0, TRUE, {}, FALSE)}, {Post(8, TRUE, 0, TRUE, {}, TRUE)}>> ELSE <<>>]
Discussed == [h \in Channels |-> IF h = "c" THEN {Post(9, TRUE, 0, FALSE, {"sale"}, TRUE)} ELSE {}]
Searches(how, spoilers) == {[kind |-> "search", how |-> how, spoiler |-> s] : s \in spoilers}
Adds == {[kind |-> "add", targets |-> t] : t \in {<<"a">>, <<"b", "a">>}}
Lists == {[kind |-> k] : k \in {"export", "import", "del all"}}
Removals == {[kind |-> "del", handles |-> h] : h \in {{"a"}, {"b"}}}
Defaults == {[kind |-> "default", handle |-> h] : h \in {"b", NoSearch}}
Ads == {[kind |-> "ad add", words |-> {"sale"}], [kind |-> "ad del", words |-> {"spam"}]}
SearchWorldOf(first, commands) ==
  [posts |-> Posts, threads |-> Threads, discussed |-> Discussed, files |-> {<<"a">>}, list |-> first,
   commands |-> commands]
Filled == List(<<"b", "a", "c">>, "a", {"spam", "sale"})
AllSearch == {
  SearchWorldOf(NoList, Adds \cup Removals \cup Defaults),
  SearchWorldOf(Filled, Lists \cup Removals \cup {[kind |-> "add", targets |-> <<"a">>]}),
  SearchWorldOf(List(<<"b", "a">>, NoSearch, {"spam"}),
                Ads \cup Searches("best", {FALSE}) \cup Searches("preview", {TRUE})),
  SearchWorldOf(List(<<"c", "a">>, NoSearch, {"sale"}), Searches("best", BOOLEAN) \cup Searches("random", {FALSE}))}
-----------------------------------------------------------------------------
(* aban and bulkdelete: histories and managed chats.                       *)
From(who, ids) == {[id |-> i, from |-> who] : i \in ids}
Talk == From("me", {1, 3, 4}) \cup From("x", {2, 5})
Noisy == From("me", {1, 2, 5}) \cup From("x", {4}) \cup From("service", {3})
Ranges == {[kind |-> "range", reply |-> i] : i \in {2, 3}}
Recents == {[kind |-> "recent", count |-> n] : n \in {1, 3}}
Switches == {[kind |-> "switch", on |-> b] : b \in BOOLEAN}
Act(kind, actions) == {[kind |-> kind, action |-> a] : a \in actions}
ModWorldOf(messages, chats, orders, commands) ==
  [talk |-> messages, last |-> Max({0} \cup Ids(messages)), managed |-> chats, commands |-> commands, orders |-> orders]
AllMod == {
  ModWorldOf(Talk, {Here}, 3, Ranges \cup Switches),
  ModWorldOf(Noisy, {Here}, 2, Recents \cup Act("moderate", {"banned", "muted"})),
  ModWorldOf({}, {Here, "there"}, 2, Act("super", {"banned", "member"}) \cup {[kind |-> "refresh"]}),
  ModWorldOf({}, {Here}, 3, Act("super", {"banned"}) \cup {[kind |-> "refresh"]})}
=============================================================================
