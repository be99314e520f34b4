---------------------------- MODULE MC_AiPlugin ----------------------------
(* Instances of AiPlugin: two workers that answer in one chat, that change *)
(* the providers under a request, and that save prompts; and one worker    *)
(* with all that can fail in answers, settings and the import.             *)
EXTENDS AiPlugin, TLC

Say(kind) == [kind |-> kind, q |-> 1, chat |-> "here", p |-> "openai", f |-> "chat", key |-> "", value |-> ""]
Set(kind, value) == [Say(kind) EXCEPT !.value = value]
Prompted(value, p) == [Set("prompt", value) EXCEPT !.p = p]
Key(p) == [k \in {<<"key", p>>} |-> "saved"]
Memory == [k \in {<<"context">>} |-> "on"]
Third == [k \in {<<"key", "thirdparty">>, <<"base_url", "thirdparty">>} |-> "saved"]
Models == [k \in {<<"model", "thirdparty", "image">>, <<"provider">>} |-> IF k[1] = "model" THEN "set" ELSE "thirdparty"]
Predecessor == [k \in {<<"provider">>, <<"key", "openai">>, <<"context">>} |->
             CASE k[1] = "provider" -> "openai" [] k[1] = "key" -> "legacy" [] OTHER -> "on"]
     @@ [k \in {<<"legacy.history">>} |-> <<<<"user", 0>>>>]
AiWorld(workers, orders, stored, legacy, long, commands) ==
  [workers |-> workers, orders |-> orders, settings |-> stored, legacy |-> legacy, long |-> long, commands |-> commands]
None == <<>>
AllAi ==
  {AiWorld(2, 3, Key("openai") @@ Memory, None, {},
     {Say("chat"), [Say("chat") EXCEPT !.q = 2], Set("context", "clear"), [Set("toggle", "off") EXCEPT !.key = "context"]}),
   AiWorld(2, 2, Key("openai") @@ Third @@ Models, None, {},
     {Say("image"), [Say("thirdparty") EXCEPT !.p = "claude"], Set("apikey", "clear")}),
   AiWorld(2, 3, Key("openai"), None, {}, {Prompted("add", "x"), Prompted("add", "y"), Prompted("del", "x"), Prompted("set", "x"), Say("config")}),
   AiWorld(2, 3, Key("gemini") @@ [k \in {<<"telegraph">>, <<"telegraph.limit">>} |-> "on"], None, {1, 2},
     {Say("search"), [Say("search") EXCEPT !.q = 2], Set("deletePosts", "one"), Set("deletePosts", "all")}),
   AiWorld(1, 2, Key("openai") @@ Memory, None, {1}, {Say("audio"), Say("tts"), Say("config")}),
   AiWorld(1, 3, None, Predecessor, {}, {[Set("apikey", "mine") EXCEPT !.p = "openai"], [Set("toggle", "off") EXCEPT !.key = "context"], Say("chat")}),
   AiWorld(1, 3, Third, None, {}, {Say("select"), Set("model", "auto"), Set("model", "other"), [Set("baseurl", "clear") EXCEPT !.p = "thirdparty"],
     [Set("baseurl", "own") EXCEPT !.p = "thirdparty"], [Set("apikey", "clear") EXCEPT !.p = "thirdparty"]})}
=============================================================================
