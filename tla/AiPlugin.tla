------------------------------ MODULE AiPlugin ------------------------------
(***************************************************************************)
(* The ai plugin: questions are put to the providers that are configured,  *)
(* answers are shown, kept as the history of the chat and published on     *)
(* Telegraph when they are long, and the settings live in the plugin's     *)
(* storage, first filled from the predecessor's database.                  *)
(*                                                                         *)
(* Commands run on several workers.  One mutex guards the histories and    *)
(* the prompts, and nothing guards the rest: what a handler reads at once  *)
(* is read in one step, and each write is a step.  A text is the question  *)
(* it answers.  A read that fails gives what is assumed of a key that is   *)
(* not there, and the handler goes on with that.                           *)
(***************************************************************************)
EXTENDS Naturals, Sequences, FiniteSets, SequencesExt

CONSTANTS
  AiWorlds,    \* [workers, orders, settings, legacy, long, commands]: the bound on
               \* commands, what is stored, what the predecessor had, the
               \* questions with an answer of two parts, the commands
  AiChats,
  AiQuestions,
  AiFaults,    \* bound: failures and restarts
  MaxHistory,  \* the messages of a history that are kept; 40 in the code
  NoAiJob

VARIABLES
  aiWorld,
  settings, \* the storage: [key -> value], a key is a tuple of strings
  configMu, \* the worker that holds the mutex, or 0
  asking,   \* [worker -> the command it runs]; 0 is the start of the plugin
  pages,    \* Telegraph's: the text of each page
  asked,    \* the requests that were sent to providers
  answered, \* what was shown by the commands that ended well
  recent,   \* [chat -> the messages saved since its history was cleared, or lost]
  mine,     \* [key -> value]: the settings that commands have made
  adopted,  \* the keys that the import has dealt with
  drafts,   \* the prompts that were saved and not deleted
  aiSpent
aiVars == <<aiWorld, settings, configMu, asking, pages, asked, answered, recent, mine, adopted, drafts, aiSpent>>
promises == <<asked, answered, recent, mine, adopted, drafts>>

AiWorkers == 1 .. aiWorld.workers
Providers == <<"gemini", "openai", "claude", "deepseek", "grok", "thirdparty">>
Features == <<"chat", "search", "image", "tts">>
SettingKinds == {"select", "apikey", "baseurl", "thirdparty", "model", "toggle", "context", "config"}
QuestionKinds == {"chat", "search", "audio", "image", "tts"}
CommandKinds == SettingKinds \cup QuestionKinds \cup {"prompt", "deletePosts"}
Toggles == {"tts_voice", "max_tokens", "context", "collapse", "telegraph", "telegraph.limit"}
\* What the predecessor's database may hold, in the order of the import.
LegacyGroups ==
  <<{"provider"}, {"key"}, {"base_url"}, {"model"},
    Toggles \cup {"thirdparty.compat", "prompts", "prompt.active", "telegraph.token", "telegraph.posts"},
    {"legacy.history"}>>
AiMessages == {"user", "assistant"} \X AiQuestions
Histories(map) ==
  \A key \in DOMAIN map : key[1] \in {"history", "legacy.history"} => map[key] \in Seq(AiMessages)

ASSUME AiAssumption ==
  /\ MaxHistory \in Nat
  /\ \A world \in AiWorlds :
       /\ world.workers \in Nat /\ Histories(world.settings) /\ Histories(world.legacy)
       /\ \A key \in DOMAIN world.legacy : \E i \in 1 .. 6 : key[1] \in LegacyGroups[i]
       /\ \A c \in world.commands :
            /\ c.kind \in CommandKinds
            /\ c.q \in AiQuestions /\ c.chat \in AiChats
            /\ c.kind = "toggle" => c.key \in Toggles
            /\ c.kind = "prompt" => c.value \in {"add", "del", "set"}

Known(map, key) == key \in DOMAIN map
ReadKey(map, key, default) == IF Known(map, key) THEN map[key] ELSE default
Assign(map, key, value) == [k \in DOMAIN map \cup {key} |-> IF k = key THEN value ELSE map[k]]
Drop(map, key) == [k \in DOMAIN map \ {key} |-> map[k]]
HistoryKey(chat) == <<"history", chat>>
Marker == <<"legacy_imported">>
\* What a handler finds that reads keys: all that is stored, or one key is not
\* read, and then taken for one that is not there.
Views(keys) == {settings} \cup {Drop(settings, key) : key \in keys \cap DOMAIN settings}
-----------------------------------------------------------------------------
(* The providers.                                                          *)

DefaultModels ==
  [p \in ToSet(Providers) |->
    CASE p \in {"gemini", "openai"} -> ToSet(Features)
      [] p \in {"claude", "deepseek"} -> {"chat", "search"}
      [] p = "grok" -> {"chat", "search", "image"}
      [] OTHER -> {}]
Scores ==
  [gemini |-> <<9, 10, 8, 7>>, openai |-> <<10, 6, 9, 9>>, claude |-> <<10, 7, 8, 5>>,
   deepseek |-> <<8, 6, 6, 5>>, grok |-> <<7, 6, 5, 4>>, thirdparty |-> <<8, 7, 7, 7>>]

Supports(p, f, compat) ==
  LET effective == IF p = "thirdparty" THEN compat ELSE p IN
  CASE f = "chat" -> TRUE
    [] f = "search" -> p = "thirdparty" \/ effective = "gemini"
    [] OTHER -> effective \in {"gemini", "openai"}
CompatProvider(map) ==
  LET value == ReadKey(map, <<"thirdparty.compat">>, "openai") IN
  IF value \in ToSet(Providers) \ {"thirdparty"} THEN value ELSE "openai"
Protocol(map, p) == IF p = "thirdparty" THEN CompatProvider(map) ELSE p
HasKey(map, p) == Known(map, <<"key", p>>)
HasBase(map, p) == p # "thirdparty" \/ Known(map, <<"base_url", p>>)
HasModel(map, p, f) == Known(map, <<"model", p, f>>) \/ f \in DefaultModels[p]
CurrentProvider(map) ==
  LET Keyed(p) == HasKey(map, p)
      keyed == SelectSeq(Providers, Keyed)
  IN
  IF ReadKey(map, <<"provider">>, "none") \in ToSet(Providers) THEN map[<<"provider">>]
  ELSE IF keyed # <<>> THEN Head(keyed) ELSE "gemini"

\* Those that can do it: the chosen one first, then by score and by order.
ProviderCandidates(map, f) ==
  LET Fits(p) == HasKey(map, p) /\ Supports(p, f, Protocol(map, p)) /\ HasBase(map, p) /\ HasModel(map, p, f)
      Score(p) == Scores[Protocol(map, p)][CHOOSE i \in 1 .. 4 : Features[i] = f]
      Order(p) == CHOOSE i \in DOMAIN Providers : Providers[i] = p
      Before(p, q) ==
        IF CurrentProvider(map) \in {p, q} THEN p = CurrentProvider(map)
        ELSE Score(p) > Score(q) \/ (Score(p) = Score(q) /\ Order(p) < Order(q))
  IN SortSeq(SelectSeq(Providers, Fits), Before)

\* A bug: what was true of the candidate is taken to be true still.
KeyOnly(map, p, f) == HasKey(map, p)
Configured(map, p, f) ==
  /\ Supports(p, f, Protocol(map, p))
  /\ HasKey(map, p) /\ HasBase(map, p) /\ HasModel(map, p, f)
-----------------------------------------------------------------------------
(* The frame of the commands.                                              *)

AiAt(w, at) == asking[w] # NoAiJob /\ asking[w].at = at
Smooth == UNCHANGED aiSpent
AiFault == aiSpent.faults < AiFaults /\ aiSpent' = [aiSpent EXCEPT !.faults = @ + 1]
Reads(map) == IF map = settings THEN Smooth ELSE AiFault
ProviderSettings ==
  {key \in DOMAIN settings : key[1] \in {"provider", "thirdparty.compat", "key", "base_url", "model"}}
GoesTo(w, at) == asking' = [asking EXCEPT ![w].at = at]
Ends(w) == asking' = [asking EXCEPT ![w] = NoAiJob]
AiFails(w) == AiFault /\ Ends(w)
Unlock(w) == configMu' = IF configMu = w THEN 0 ELSE configMu
SameAi == UNCHANGED aiWorld
\* The host stops waiting, or what a handler asks of Telegram fails.
GivesUp(w) ==
  /\ asking[w] # NoAiJob /\ w # 0 /\ AiFails(w) /\ Unlock(w)
  /\ SameAi /\ UNCHANGED <<settings, pages, promises>>
NewJob(c, at) ==
  [cmd |-> c, at |-> at, f |-> "chat", writes |-> {}, auto |-> <<>>, left |-> <<>>, protocol |-> "none",
   seen |-> <<>>, page |-> 0, parts |-> <<>>, shown |-> <<>>]
HandleAi(w) == \E c \in aiWorld.commands :
  /\ asking[0] = NoAiJob /\ asking[w] = NoAiJob /\ aiSpent.orders < aiWorld.orders
  /\ aiSpent' = [aiSpent EXCEPT !.orders = @ + 1]
  /\ asking' = [asking EXCEPT ![w] = NewJob(c, c.kind)]
  /\ SameAi /\ UNCHANGED <<settings, configMu, pages, promises>>
-----------------------------------------------------------------------------
(* Settings: a handler reads and refuses, or has a set of writes, of which  *)
(* those of the same order come as they may.                               *)

StorageWrite(op, key, value, otherwise, order) ==
  [op |-> op, key |-> key, value |-> value, otherwise |-> otherwise, order |-> order]
PutKey(key, value) == {StorageWrite("put", key, value, "stop", 2)}
DeleteKey(key) == {StorageWrite("delete", key, "none", "stop", 2)}
Refuse == [ok |-> FALSE, writes |-> {}, auto |-> <<>>]
Do(writes) == [ok |-> TRUE, writes |-> writes, auto |-> <<>>]
DoAndMatch(writes, p, protocol, op) == [ok |-> TRUE, writes |-> writes, auto |-> <<p, protocol, op>>]

HandleSelect(map, c) ==
  LET via == /\ ~HasKey(map, c.p) /\ c.p # "thirdparty"
             /\ HasKey(map, "thirdparty") /\ HasBase(map, "thirdparty")
      p == IF via THEN "thirdparty" ELSE c.p
  IN IF ~HasKey(map, p) \/ ~HasBase(map, p) THEN Refuse
     ELSE DoAndMatch((IF via THEN {StorageWrite("put", <<"thirdparty.compat">>, c.p, "stop", 1)} ELSE {})
                     \cup PutKey(<<"provider">>, p), p, c.p, "missing")
APIKey(c) ==
  IF c.value = "clear" THEN Do(DeleteKey(<<"key", c.p>>))
  ELSE DoAndMatch(PutKey(<<"key", c.p>>, c.value) \cup {StorageWrite("missing", <<"provider">>, c.p, "skip", 3)},
                  c.p, c.p, "missing")
BaseURL(c) ==
  IF c.value = "clear" THEN Do(DeleteKey(<<"base_url", c.p>>))
  ELSE Do(PutKey(<<"base_url", c.p>>, c.value))
ThirdParty(c) ==
  IF c.p = "thirdparty" THEN Refuse
  ELSE DoAndMatch(PutKey(<<"thirdparty.compat">>, c.p), "thirdparty", c.p, "put")
\* What every provider but the third party has, and what it may be given.
ApplyDefaultModels(p, of, op) ==
  {StorageWrite(op, <<"model", p, f>>, "default", "skip", 1) : f \in DefaultModels[of]}
Model(map, c) ==
  LET p == CurrentProvider(map) IN
  IF c.value # "auto" THEN Do(PutKey(<<"model", p, c.f>>, c.value))
  ELSE IF p = "thirdparty" THEN DoAndMatch({}, "thirdparty", "listed", "put")
  ELSE Do(ApplyDefaultModels(p, p, "put"))
Toggle(c) == Do(PutKey(<<c.key>>, c.value))
Context(c) ==
  IF c.value = "clear" THEN Do(DeleteKey(HistoryKey(c.chat))) ELSE Do(PutKey(<<"context">>, c.value))
SharedKeys(chat) ==
  LET own == <<"provider", "thirdparty.compat", "tts_voice", "max_tokens", "context", "collapse",
               "telegraph", "telegraph.limit", "telegraph.token", "telegraph.posts", "prompts">>
  IN [i \in DOMAIN own |-> <<own[i]>>]
     \o <<<<"prompt.active", "chat">>, <<"prompt.active", "search">>, <<"prompt.active", "tts">>, HistoryKey(chat)>>
ProviderKeys(p) == <<<<"key", p>>, <<"base_url", p>>>> \o [i \in 1 .. 4 |-> <<"model", p, Features[i]>>]
Erase(keys, after) == {StorageWrite("delete", keys[i], "none", "stop", after + i) : i \in DOMAIN keys}
ConfigDefault(c) ==
  Do(Erase(SharedKeys(c.chat), 0) \cup UNION {Erase(ProviderKeys(Providers[i]), 9 + 6 * i) : i \in DOMAIN Providers})

Plan(map, c) ==
  CASE c.kind = "select" -> HandleSelect(map, c)
    [] c.kind = "apikey" -> APIKey(c)
    [] c.kind = "baseurl" -> BaseURL(c)
    [] c.kind = "thirdparty" -> ThirdParty(c)
    [] c.kind = "model" -> Model(map, c)
    [] c.kind = "toggle" -> Toggle(c)
    [] c.kind = "context" -> Context(c)
    [] c.kind = "config" -> ConfigDefault(c)
Decide(w) ==
  /\ \E kind \in SettingKinds : AiAt(w, kind)
  /\ \E map \in Views(ProviderSettings) :
       LET plan == Plan(map, asking[w].cmd) IN
       /\ Reads(map)
       /\ IF plan.ok
          THEN asking' = [asking EXCEPT ![w] = [@ EXCEPT !.at = "write", !.writes = plan.writes, !.auto = plan.auto]]
          ELSE Ends(w)
  /\ SameAi /\ UNCHANGED <<settings, configMu, pages, promises>>

\* What a completed write does to the storage, and to what was promised.
Value(w, op) == IF w = 0 /\ op.key # Marker THEN aiWorld.legacy[op.key] ELSE op.value
\* Nothing is promised of the histories while there is no memory.
Forgotten(op) ==
  CASE op.key[1] = "history" -> {op.key[2]}
    [] op.key = <<"context">> /\ (op.op = "delete" \/ op.value # "on") -> DOMAIN recent
    [] OTHER -> {}
Applied(map, w, op) ==
  IF op.op = "missing" /\ Known(map, op.key) THEN UNCHANGED <<settings, mine, recent, drafts>>
  ELSE /\ recent' = [chat \in DOMAIN recent |-> IF chat \in Forgotten(op) THEN <<>> ELSE recent[chat]]
       /\ IF op.op = "delete"
          THEN /\ settings' = Drop(settings, op.key) /\ mine' = Drop(mine, op.key)
               /\ drafts' = IF op.key = <<"prompts">> THEN {} ELSE drafts
          ELSE /\ settings' = Assign(settings, op.key, Value(w, op)) /\ UNCHANGED drafts
               /\ mine' = IF w = 0 THEN mine ELSE Assign(mine, op.key, op.value)
\* A command that gives what is missing does not tell a key that is not there
\* from one that it could not read; the import does.
Fills(w, op) == w # 0 /\ op.op = "missing"
Ready(w) == {op \in asking[w].writes : \A other \in asking[w].writes : op.order <= other.order}
Written(w, op) == asking' = [asking EXCEPT ![w].writes = @ \ {op}]
MatchDefaults(w) ==
  LET auto == asking[w].auto IN
  asking' = [asking EXCEPT ![w] = [@ EXCEPT !.at = "write", !.auto = <<>>,
               !.writes = ApplyDefaultModels(IF auto[1] = "listed" THEN "thirdparty" ELSE auto[1], auto[2], auto[3])]]
WriteKey(w) ==
  /\ AiAt(w, "write")
  /\ \E op \in Ready(w) :
       \/ /\ \E map \in Views(IF Fills(w, op) THEN {op.key} ELSE {}) : Reads(map) /\ Applied(map, w, op)
          /\ adopted' = IF w = 0 /\ op.key # Marker THEN adopted \cup {op.key} ELSE adopted
          /\ Written(w, op)
       \/ /\ AiFault /\ UNCHANGED <<settings, mine, recent, drafts, adopted>>
          /\ \/ op.otherwise = "stop" /\ Ends(w)
             \/ op.otherwise = "skip" /\ Written(w, op)
             \/ op.otherwise = "defaults" /\ MatchDefaults(w)
  /\ SameAi /\ UNCHANGED <<configMu, pages, asked, answered>>
AutoConfigureModels(w) ==
  /\ AiAt(w, "write") /\ asking[w].writes = {}
  /\ LET auto == asking[w].auto IN
     IF auto = <<>> \/ Head(auto) = "listed" THEN Ends(w)
     ELSE IF Head(auto) = "thirdparty" THEN GoesTo(w, "fetch") ELSE MatchDefaults(w)
  /\ Smooth /\ SameAi /\ UNCHANGED <<settings, configMu, pages, promises>>

\* The models that the third party lists, and what they are good for.
AutoAssignModels(listed) == listed \cup (IF "chat" \in listed THEN {"search"} ELSE {})
SaveAssignedModels(assigned, otherwise) ==
  {StorageWrite("put", <<"model", "thirdparty", f>>, "listed", otherwise, 1) : f \in assigned}
FetchModels(w) ==
  LET auto == asking[w].auto
      onlyListed == auto[2] = "listed"
      Unlisted == IF onlyListed THEN Ends(w) ELSE MatchDefaults(w)
  IN /\ AiAt(w, "fetch")
     /\ \/ AiFault /\ Unlisted
        \/ Smooth /\ ~(HasKey(settings, "thirdparty") /\ HasBase(settings, "thirdparty")) /\ Unlisted
        \/ /\ Smooth /\ HasKey(settings, "thirdparty") /\ HasBase(settings, "thirdparty")
           /\ \E listed \in SUBSET {"chat", "image", "tts"} :
                IF listed = {} THEN Unlisted
                ELSE asking' = [asking EXCEPT ![w] = [@ EXCEPT !.at = "write",
                       !.auto = <<"listed", auto[2], auto[3]>>,
                       !.writes = SaveAssignedModels(AutoAssignModels(listed), IF onlyListed THEN "stop" ELSE "defaults")]]
     /\ SameAi /\ UNCHANGED <<settings, configMu, pages, promises>>
-----------------------------------------------------------------------------
(* The import, when the plugin starts: what is there already is kept, and  *)
(* the mark that it is done comes last.                                    *)

LegacyGroup(key) == CHOOSE i \in 1 .. 6 : key[1] \in LegacyGroups[i]
\* Bugs: the import replaces what is there; the mark comes first.
Overwrites(key) == StorageWrite("put", key, "legacy", "stop", LegacyGroup(key))
MarkFirst(imports) == imports \cup {StorageWrite("put", Marker, "1", "stop", 0)}
PutIfMissing(key) == StorageWrite("missing", key, "legacy", "stop", LegacyGroup(key))
MarkedAfter(imports) == imports \cup {StorageWrite("put", Marker, "1", "stop", 7)}
MigrateLegacyAi(map) ==
  IF Known(map, Marker) \/ aiWorld.legacy = <<>> THEN {}
  ELSE MarkedAfter({PutIfMissing(key) : key \in DOMAIN aiWorld.legacy})
StartJob(map) == [NewJob([kind |-> "start"], "write") EXCEPT !.writes = MigrateLegacyAi(map)]
\* The process ends and is started again, or the plugin alone is.
AiRestarts ==
  /\ AiFault
  /\ \E map \in Views({Marker}) :
       asking' = [w \in DOMAIN asking |-> IF w = 0 THEN StartJob(map) ELSE NoAiJob]
  /\ configMu' = 0 /\ SameAi /\ UNCHANGED <<settings, pages, promises>>
-----------------------------------------------------------------------------
(* The prompts: loaded and saved under the mutex.                          *)

Prompts(map) == ReadKey(map, <<"prompts">>, {})
\* A bug: nothing is locked.
Unlocked(w) == UNCHANGED configMu
LockPrompts(w) == configMu = 0 /\ configMu' = w
LoadPrompts(w) ==
  LET c == asking[w].cmd IN
  /\ AiAt(w, "prompt") /\ LockPrompts(w)
  /\ \E map \in Views({<<"prompts">>}) :
       /\ Reads(map)
       /\ asking' = [asking EXCEPT ![w] = [@ EXCEPT !.at =
            IF c.value # "add" /\ c.p \notin Prompts(map) THEN "refusePrompt"
            ELSE IF map = settings THEN "savePrompt" ELSE "replacePrompts", !.seen = Prompts(map)]]
  /\ SameAi /\ UNCHANGED <<settings, pages, promises>>
RefusePrompt(w) ==
  /\ AiAt(w, "refusePrompt") /\ Ends(w) /\ Unlock(w)
  /\ Smooth /\ SameAi /\ UNCHANGED <<settings, pages, promises>>
SavePrompts(w) ==
  LET c == asking[w].cmd
      seen == asking[w].seen
  IN /\ AiAt(w, "savePrompt") /\ Ends(w) /\ Unlock(w) /\ Smooth
     /\ CASE c.value = "add" ->
               /\ settings' = Assign(settings, <<"prompts">>, seen \cup {c.p})
               /\ drafts' = drafts \cup {c.p} /\ UNCHANGED mine
          [] c.value = "del" ->
               /\ settings' = Assign(settings, <<"prompts">>, seen \ {c.p})
               /\ drafts' = drafts \ {c.p} /\ UNCHANGED mine
          [] c.value = "set" ->
               /\ settings' = Assign(settings, <<"prompt.active", c.f>>, c.p)
               /\ mine' = Assign(mine, <<"prompt.active", c.f>>, c.p) /\ UNCHANGED drafts
     /\ SameAi /\ UNCHANGED <<pages, asked, answered, recent, adopted>>
\* The prompts could not be read, and the one that is added is all there are.
ReplacePrompts(w) ==
  LET p == asking[w].cmd.p IN
  /\ AiAt(w, "replacePrompts") /\ Ends(w) /\ Unlock(w)
  /\ settings' = Assign(settings, <<"prompts">>, {p}) /\ drafts' = {p}
  /\ Smooth /\ SameAi /\ UNCHANGED <<pages, asked, answered, recent, mine, adopted>>
-----------------------------------------------------------------------------
(* Questions.                                                              *)

LastKept(s) == IF Len(s) <= MaxHistory THEN s ELSE SubSeq(s, Len(s) - MaxHistory + 1, Len(s))
Remembers(map) == ReadKey(map, <<"context">>, "off") = "on"
History(map, chat) ==
  IF ~Remembers(map) THEN <<>>
  ELSE LastKept(IF Known(map, HistoryKey(chat)) THEN map[HistoryKey(chat)] ELSE ReadKey(map, <<"legacy.history">>, <<>>))
HistoryKeys(chat) ==
  {<<"context">>, IF Known(settings, HistoryKey(chat)) THEN HistoryKey(chat) ELSE <<"legacy.history">>}
FeatureOf(c) == IF c.kind = "audio" THEN "chat" ELSE c.kind

\* The history is read, and the providers are asked for the feature.
Ask(w) ==
  LET c == asking[w].cmd IN
  /\ \E kind \in QuestionKinds : AiAt(w, kind)
  /\ \E map \in Views(IF c.kind \in {"chat", "audio"} THEN HistoryKeys(c.chat) ELSE {}) :
       /\ Reads(map)
       /\ asking' = [asking EXCEPT ![w] = [@ EXCEPT !.at = "choose", !.f = FeatureOf(c), !.seen =
            IF c.kind \in {"chat", "audio"} THEN History(map, c.chat) ELSE <<>>]]
  /\ SameAi /\ UNCHANGED <<settings, configMu, pages, promises>>
\* No provider is left: an answer that cannot be spoken is shown.
NoneLeft(w) == IF asking[w].cmd.kind = "audio" /\ asking[w].f = "tts" THEN GoesTo(w, "publish") ELSE Ends(w)
Choose(w) ==
  LET f == asking[w].f IN
  /\ AiAt(w, "choose")
  /\ \E map \in Views(ProviderSettings) :
       LET candidates == ProviderCandidates(map, f) IN
       /\ Reads(map)
       /\ IF candidates = <<>> THEN NoneLeft(w)
          ELSE asking' = [asking EXCEPT ![w] = [@ EXCEPT !.at = "configure",
                 !.left = IF f \in {"chat", "search"} THEN <<Head(candidates)>> ELSE candidates]]
  /\ SameAi /\ UNCHANGED <<settings, configMu, pages, promises>>
TryNext(w) ==
  LET left == asking[w].left IN
  IF Len(left) = 1 THEN NoneLeft(w)
  ELSE asking' = [asking EXCEPT ![w] = [@ EXCEPT !.at = "configure", !.left = Tail(left)]]
RequestConfigFor(w) ==
  LET p == Head(asking[w].left) IN
  /\ AiAt(w, "configure")
  /\ \E map \in Views(ProviderSettings) :
       /\ Reads(map)
       /\ IF Configured(map, p, asking[w].f)
          THEN asking' = [asking EXCEPT ![w] = [@ EXCEPT !.at = "call", !.protocol = Protocol(map, p)]]
          ELSE TryNext(w)
  /\ SameAi /\ UNCHANGED <<settings, configMu, pages, promises>>
Request(job) == [f |-> job.f, p |-> Head(job.left), protocol |-> job.protocol]
\* The text that a provider of one of three protocols answers, or an error.
CallText(w) ==
  /\ AiAt(w, "call") /\ asking[w].f \in {"chat", "search"}
  /\ asked' = asked \cup {Request(asking[w])}
  /\ \/ AiFault /\ Ends(w)
     \/ Smooth /\ GoesTo(w, IF asking[w].f = "chat" THEN "append" ELSE "publish")
  /\ SameAi /\ UNCHANGED <<settings, configMu, pages, answered, recent, mine, adopted, drafts>>
\* A picture or speech; when one provider fails the next is asked.
CallMedia(w) ==
  /\ AiAt(w, "call") /\ asking[w].f \in {"image", "tts"}
  /\ asked' = asked \cup {Request(asking[w])}
  /\ \/ AiFault /\ TryNext(w)
     \/ Smooth /\ GoesTo(w, "send")
  /\ SameAi /\ UNCHANGED <<settings, configMu, pages, answered, recent, mine, adopted, drafts>>
\* The answer is kept: the history is read again under the mutex.
\* A bug: what was read before the provider was asked is what is added to.
ReadBefore(map, w) == asking[w].seen
ReadAgain(map, w) == History(map, asking[w].cmd.chat)
AfterAnswer(w) == IF asking[w].cmd.kind = "audio" THEN "choose" ELSE "publish"
CheckContext(w) ==
  /\ AiAt(w, "append")
  /\ \E map \in Views({<<"context">>}) :
       /\ Reads(map)
       /\ IF Remembers(map) THEN GoesTo(w, "lock")
          ELSE asking' = [asking EXCEPT ![w] = [@ EXCEPT !.at = AfterAnswer(w), !.f = "tts"]]
  /\ SameAi /\ UNCHANGED <<settings, configMu, pages, promises>>
LoadHistory(w) ==
  /\ AiAt(w, "lock") /\ configMu = 0 /\ configMu' = w
  /\ \E map \in Views(HistoryKeys(asking[w].cmd.chat)) :
       /\ Reads(map)
       /\ asking' = [asking EXCEPT ![w] = [@ EXCEPT !.at =
            IF map = settings THEN "save" ELSE "replace", !.seen = ReadAgain(map, w)]]
  /\ SameAi /\ UNCHANGED <<settings, pages, promises>>
\* After a read that failed the answer is added to nothing, or to the
\* predecessor's history, and what the chat had is written over.
AppendHistory(w) ==
  LET c == asking[w].cmd
      pair == <<<<"user", c.q>>, <<"assistant", c.q>>>>
      kept == IF AiAt(w, "save") THEN recent[c.chat] ELSE <<>>
  IN /\ AiAt(w, "save") \/ AiAt(w, "replace")
     /\ configMu' = 0
     /\ asking' = [asking EXCEPT ![w] = [@ EXCEPT !.at = AfterAnswer(w), !.f = "tts"]]
     /\ \/ /\ Smooth /\ settings' = Assign(settings, HistoryKey(c.chat), LastKept(asking[w].seen \o pair))
           /\ recent' = IF Remembers(settings) THEN [recent EXCEPT ![c.chat] = LastKept(kept \o pair)] ELSE recent
        \/ AiFault /\ UNCHANGED <<settings, recent>>
     /\ SameAi /\ UNCHANGED <<pages, asked, answered, mine, adopted, drafts>>
SendGeneratedFile(w) ==
  /\ AiAt(w, "send") /\ Ends(w)
  /\ Smooth /\ SameAi /\ UNCHANGED <<settings, configMu, pages, promises>>
-----------------------------------------------------------------------------
(* The answer: shown in parts, or on a page that is listed.                *)

AnswerParts(q) == IF q \in aiWorld.long THEN <<1, 2>> ELSE <<1>>
Show(w, parts) == asking' = [asking EXCEPT ![w] = [@ EXCEPT !.at = "finish", !.parts = parts]]
ShowWhole(w) == Show(w, AnswerParts(asking[w].cmd.q))
PublishLongAnswer(w) ==
  /\ AiAt(w, "publish")
  /\ \E map \in Views({<<"telegraph">>, <<"telegraph.limit">>, <<"telegraph.token">>}) :
       /\ Reads(map)
       /\ IF /\ ReadKey(map, <<"telegraph">>, "off") = "on" /\ Known(map, <<"telegraph.limit">>)
             /\ asking[w].cmd.q \in aiWorld.long
          THEN GoesTo(w, IF Known(map, <<"telegraph.token">>) THEN "page" ELSE "token")
          ELSE ShowWhole(w)
  /\ SameAi /\ UNCHANGED <<settings, configMu, pages, promises>>
TelegraphToken(w) ==
  /\ AiAt(w, "token")
  /\ \/ Smooth /\ GoesTo(w, "page") /\ settings' = Assign(settings, <<"telegraph.token">>, "token")
     \/ AiFault /\ ShowWhole(w) /\ UNCHANGED settings
  /\ SameAi /\ UNCHANGED <<configMu, pages, promises>>
CreateTelegraphPage(w) ==
  /\ AiAt(w, "page")
  /\ \/ /\ Smooth /\ pages' = Append(pages, asking[w].cmd.q)
        /\ asking' = [asking EXCEPT ![w] = [@ EXCEPT !.at = "posts", !.page = Len(pages) + 1]]
     \/ AiFault /\ ShowWhole(w) /\ UNCHANGED pages
  /\ SameAi /\ UNCHANGED <<settings, configMu, promises>>
TelegraphPosts(map) == ReadKey(map, <<"telegraph.posts">>, {})
LoadPosts(w) ==
  /\ AiAt(w, "posts")
  /\ \E map \in Views({<<"telegraph.posts">>}) :
       Reads(map) /\ asking' = [asking EXCEPT ![w] = [@ EXCEPT !.at = "post", !.seen = TelegraphPosts(map)]]
  /\ SameAi /\ UNCHANGED <<settings, configMu, pages, promises>>
SavePost(w) ==
  /\ AiAt(w, "post")
  /\ asking' = [asking EXCEPT ![w] = [@ EXCEPT !.at = "finish", !.parts = <<0>>]]
  /\ \/ Smooth /\ settings' = Assign(settings, <<"telegraph.posts">>, asking[w].seen \cup {asking[w].page})
     \/ AiFault /\ UNCHANGED settings
  /\ SameAi /\ UNCHANGED <<configMu, pages, promises>>
\* telegraph del: the posts are loaded, and saved without one or without all.
LoadDeletedPosts(w) ==
  LET c == asking[w].cmd IN
  /\ AiAt(w, "deletePosts")
  /\ \E map \in Views({<<"telegraph.posts">>}) :
       /\ Reads(map)
       /\ IF c.value # "all" /\ TelegraphPosts(map) = {} THEN Ends(w)
          ELSE asking' = [asking EXCEPT ![w] = [@ EXCEPT !.at = "deleted", !.seen = TelegraphPosts(map)]]
  /\ SameAi /\ UNCHANGED <<settings, configMu, pages, promises>>
SaveDeletedPosts(w) ==
  /\ AiAt(w, "deleted") /\ Ends(w)
  /\ \E left \in IF asking[w].cmd.value = "all" THEN {{}} ELSE {asking[w].seen \ {id} : id \in asking[w].seen} :
       settings' = Assign(settings, <<"telegraph.posts">>, left)
  /\ Smooth /\ SameAi /\ UNCHANGED <<configMu, pages, promises>>
\* A short answer is one message, formatted.
IsShort(job) == job.cmd.kind # "audio" /\ job.page = 0 /\ job.cmd.q \notin aiWorld.long
Tell(job, shown) == answered' = answered \cup {[q |-> job.cmd.q, shown |-> shown, page |-> job.page]}
FinishAnswerHTML(w) ==
  LET job == asking[w] IN
  /\ AiAt(w, "finish") /\ IsShort(job) /\ Ends(w) /\ Tell(job, job.parts)
  /\ Smooth /\ SameAi /\ UNCHANGED <<settings, configMu, pages, asked, recent, mine, adopted, drafts>>
\* Others are one message after the other, each of which may fail and end it.
FinishText(w) ==
  LET job == asking[w]
      shown == Append(job.shown, Head(job.parts))
  IN /\ AiAt(w, "finish") /\ ~IsShort(job)
     /\ IF Len(job.parts) = 1 THEN Ends(w) /\ Tell(job, shown)
        ELSE /\ asking' = [asking EXCEPT ![w] = [@ EXCEPT !.parts = Tail(job.parts), !.shown = shown]]
             /\ UNCHANGED answered
     /\ Smooth /\ SameAi /\ UNCHANGED <<settings, configMu, pages, asked, recent, mine, adopted, drafts>>
-----------------------------------------------------------------------------
AiInit(world) ==
  /\ aiWorld = world /\ settings = world.settings /\ configMu = 0
  /\ asking = [w \in 0 .. world.workers |-> IF w = 0 THEN StartJob(settings) ELSE NoAiJob]
  /\ pages = <<>> /\ asked = {} /\ answered = {} /\ mine = <<>> /\ drafts = {}
  /\ adopted = IF Known(settings, Marker) THEN DOMAIN world.legacy ELSE {}
  /\ recent = [chat \in AiChats |-> <<>>]
  /\ aiSpent = [orders |-> 0, faults |-> 0]
AiNext ==
  \/ AiRestarts
  \/ \E w \in 0 .. aiWorld.workers : WriteKey(w) \/ AutoConfigureModels(w)
  \/ \E w \in AiWorkers :
       \/ HandleAi(w) \/ GivesUp(w) \/ Decide(w) \/ FetchModels(w)
       \/ LoadPrompts(w) \/ RefusePrompt(w) \/ SavePrompts(w) \/ ReplacePrompts(w)
       \/ Ask(w) \/ Choose(w) \/ RequestConfigFor(w) \/ CallText(w) \/ CallMedia(w) \/ SendGeneratedFile(w)
       \/ CheckContext(w) \/ LoadHistory(w) \/ AppendHistory(w)
       \/ PublishLongAnswer(w) \/ TelegraphToken(w) \/ CreateTelegraphPage(w) \/ LoadPosts(w) \/ SavePost(w)
       \/ LoadDeletedPosts(w) \/ SaveDeletedPosts(w) \/ FinishAnswerHTML(w) \/ FinishText(w)
AiSpec == (\E world \in AiWorlds : AiInit(world)) /\ [][AiNext]_aiVars
-----------------------------------------------------------------------------
(* What the plugin promises.                                               *)

\* While the memory is on, the history of a chat ends with all that was kept
\* since it was cleared, or since an answer was added after a read of it that
\* failed, question by question, however the workers meet.
HistoryIsKept == \A chat \in DOMAIN recent :
  recent[chat] # <<>> =>
    Known(settings, HistoryKey(chat)) /\ IsSuffix(recent[chat], settings[HistoryKey(chat)])
\* A provider is never asked for what it cannot do in the protocol it is
\* spoken to in, even when that was changed since it was chosen.
AskedWhatItCan == \A request \in asked : Supports(request.p, request.f, request.protocol)
\* Who was answered has seen the whole answer, or a link to its page.
AnswersAreWhole == \A answer \in answered :
  \/ answer.shown = AnswerParts(answer.q)
  \/ answer.shown = <<0>> /\ answer.page \in DOMAIN pages /\ pages[answer.page] = answer.q
\* A setting made by a command stays until another command writes it (one that
\* gives what is missing does so too when it cannot read what is there), however
\* often the plugin starts.
SettingsAreMine == \A key \in DOMAIN mine : Known(settings, key) /\ settings[key] = mine[key]
\* The import is marked done only when all of the predecessor's was dealt with.
ImportIsComplete == Known(settings, Marker) => DOMAIN aiWorld.legacy \subseteq adopted
\* A prompt that was saved is there until it is deleted, or until one is added
\* after a read of the prompts that failed.
PromptsAreKept == drafts \subseteq Prompts(settings)
\* The plugin never forgets what it was told, and never makes half an answer.
AiIsSound ==
  /\ HistoryIsKept /\ AskedWhatItCan /\ AnswersAreWhole
  /\ SettingsAreMine /\ ImportIsComplete /\ PromptsAreKept
-----------------------------------------------------------------------------
(* The inductive invariant behind it.                                      *)

\* What commands write; the rest is written by what they do, or the import.
OwnKey(key) ==
  key[1] \notin {"legacy_imported", "prompts", "telegraph.posts", "telegraph.token", "history", "legacy.history"}
AiStore ==
  /\ aiWorld \in AiWorlds /\ pages \in Seq(AiQuestions)
  /\ Histories(settings) /\ \A key \in DOMAIN mine : OwnKey(key)
  /\ recent = [chat \in AiChats |-> recent[chat]]
  /\ \A chat \in AiChats :
       /\ recent[chat] \in Seq(AiMessages) /\ Len(recent[chat]) <= MaxHistory
       /\ recent[chat] # <<>> => Remembers(settings)
IsAiJob(j) ==
  j = [cmd |-> j.cmd, at |-> j.at, f |-> j.f, writes |-> j.writes, auto |-> j.auto, left |-> j.left,
       protocol |-> j.protocol, seen |-> j.seen, page |-> j.page, parts |-> j.parts, shown |-> j.shown]

\* What is left of the import, and the mark after it.
Importing(j) ==
  /\ j.at = "write" /\ j.auto = <<>>
  /\ \A op \in j.writes :
       /\ op.otherwise = "stop"
       /\ \/ op.op = "missing" /\ op.key \in DOMAIN aiWorld.legacy /\ op.order \in 1 .. 6
          \/ op.op = "put" /\ op.key = Marker /\ op.order = 7
  /\ j.writes # {} => \A key \in DOMAIN aiWorld.legacy :
       key \in adopted \/ \E op \in j.writes : op.key = key /\ op.op = "missing"
\* A page that holds the answer; what is shown, and has been.
OnPage(j) == j.page \in DOMAIN pages /\ pages[j.page] = j.cmd.q
Showing(j) ==
  \/ /\ j.page = 0
     /\ \/ j.shown = <<>> /\ j.parts = AnswerParts(j.cmd.q)
        \/ j.shown = <<1>> /\ j.parts = <<2>> /\ j.cmd.q \in aiWorld.long
  \/ OnPage(j) /\ j.shown = <<>> /\ j.parts = <<0>>
Working(j) ==
  /\ j.cmd \in aiWorld.commands /\ (j.at \in CommandKinds => j.cmd.kind = j.at)
  /\ \A op \in j.writes : op.op = "delete" \/ OwnKey(op.key)
  /\ j.at = "call" => Supports(Head(j.left), j.f, j.protocol)
  /\ CASE j.at \in {"posts", "post"} -> OnPage(j) /\ j.shown = <<>>
       [] j.at = "finish" -> Showing(j)
       [] OTHER -> j.page = 0 /\ j.shown = <<>>
  \* What was read under the mutex is what is stored.
  /\ j.at = "savePrompt" => drafts \subseteq j.seen /\ j.cmd.kind = "prompt"
  /\ j.at \in {"save", "replace"} => j.seen \in Seq(AiMessages)
  /\ j.at = "save" => IsSuffix(recent[j.cmd.chat], j.seen)
\* The mutex is in the hands of the job that changes what it guards.
Holding(w, j, mu) ==
  j.at \in {"refusePrompt", "savePrompt", "replacePrompts", "save", "replace"} => mu = w
AiJobIsSound(w) ==
  LET j == asking[w] IN
  j # NoAiJob => IsAiJob(j) /\ IF w = 0 THEN Importing(j) ELSE Working(j) /\ Holding(w, j, configMu)
AiInv ==
  /\ AiStore /\ AiIsSound
  /\ asking = [w \in 0 .. aiWorld.workers |-> asking[w]]
  /\ \A w \in 0 .. aiWorld.workers : AiJobIsSound(w)
=============================================================================
