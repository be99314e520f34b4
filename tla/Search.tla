------------------------------- MODULE Search -------------------------------
(***************************************************************************)
(* The search plugin: a stored list of channels and words of               *)
(* advertisements, and a search for a video in the channels of the list.   *)
(* A command reads the list first, works on its copy and stores that;      *)
(* nothing keeps two commands apart.                                       *)
(*                                                                         *)
(* A channel is its handle.  Whether a text matches the query, how well,   *)
(* and which words of advertisements it has is data of the message;        *)
(* thumbnails, numbers in place of handles and the commands that only show *)
(* the list are left out.                                                  *)
(***************************************************************************)
EXTENDS Naturals, Sequences, FiniteSets, SequencesExt

CONSTANTS
  Searchers,    \* workers
  Channels,     \* handles
  AdWords,      \* words of advertisements
  DefaultWords, \* the program's own
  MaxSearch,    \* bound: commands
  SearchFaults, \* bound: failures and restarts
  NoSearch,     \* no channel
  NoList,       \* no row
  SearchWorlds  \* the worlds to begin in, see SearchInit

VARIABLES
  searchWorld,
  list,      \* the stored list
  listed,    \* the channels and words it has to have, see ListIsKept
  searching, \* [worker that has one -> its command]
  results,   \* [video, words, from]: what was sent, with the list the command had read
  ends,      \* [end, cmd, list, failed]: how searches ended
  exports,   \* the files sent with a list
  tempDirs,  \* the workers that have a directory for a file
  leftDirs,  \* how many directories the processes that were killed have left
  searchSpent
searchVars == <<searchWorld, list, listed, searching, results, ends, exports, tempDirs, leftDirs, searchSpent>>
outcomes == <<results, ends, exports>>

List(channels, default, words) == [channels |-> channels, default |-> default, words |-> words]
defaultConfig == List(<<>>, NoSearch, DefaultWords)
SearchFine == UNCHANGED searchSpent
SearchFault == searchSpent.faults < SearchFaults /\ searchSpent' = [searchSpent EXCEPT !.faults = @ + 1]
SearchIdle == [w \in {} |-> NoSearch]
Busy(w) == w \in DOMAIN searching
SearchAt(w, at) == Busy(w) /\ searching[w].at = at
SearchGo(w, at) == searching' = [searching EXCEPT ![w].at = at]
SearchEnds(w) == searching' = [v \in DOMAIN searching \ {w} |-> searching[v]]

\* What a list says, whatever the order of its channels.
Content(l) == LET cfg == IF l = NoList THEN defaultConfig ELSE l IN
  [channels |-> ToSet(cfg.channels), words |-> cfg.words]
\* A list as the program stores it, and what the commands are parsed to.
SoundList(l) ==
  /\ l \in [channels : Seq(Channels), default : Channels \cup {NoSearch}, words : SUBSET AdWords]
  /\ IsInjective(l.channels)
  /\ l.default = NoSearch \/ Contains(l.channels, l.default)
ASSUME SearchAssumption ==
  /\ DefaultWords \subseteq AdWords
  /\ NoList \notin [channels : Seq(Channels), default : Channels \cup {NoSearch}, words : SUBSET AdWords]
  /\ \A world \in SearchWorlds :
       /\ world.list = NoList \/ SoundList(world.list)
       /\ world.files \subseteq Seq(Channels)
       /\ \A h \in Channels : DOMAIN world.threads[h] \subseteq Nat
       /\ \A c \in world.commands :
            /\ c.kind \in {"add", "import", "del", "del all", "default", "ad add", "ad del", "export", "search"}
            /\ c.kind = "add" => c.targets \in Seq(Channels)
            /\ c.kind = "default" => c.handle \in Channels \cup {NoSearch}
            /\ c.kind \in {"ad add", "ad del"} => c.words \subseteq AdWords
\* world: [posts, threads, discussed, files, list, commands]: the messages of
\* each channel, the threads of its discussion in the order they are looked
\* at and its other videos, files sent before, the list at first, what the
\* owner types
SearchInit(world) ==
  /\ searchWorld = world /\ list = world.list /\ listed = Content(world.list)
  /\ searching = SearchIdle /\ results = {} /\ ends = {} /\ exports = world.files
  /\ tempDirs = {} /\ leftDirs = 0
  /\ searchSpent = [orders |-> 0, faults |-> 0]
-----------------------------------------------------------------------------
(* The commands that change the list.                                      *)

\* Every failure to read the list gives the program's own, as if there were none.
load(w) == \E c \in searchWorld.commands, failed \in BOOLEAN :
  /\ ~Busy(w) /\ searchSpent.orders < MaxSearch
  /\ failed => searchSpent.faults < SearchFaults
  /\ searchSpent' = [orders |-> searchSpent.orders + 1, faults |-> searchSpent.faults + (IF failed THEN 1 ELSE 0)]
  /\ searching' = [v \in DOMAIN searching \cup {w} |-> IF v # w THEN searching[v] ELSE
       [at |-> c.kind, cmd |-> c, base |-> IF failed THEN NoList ELSE list,
        cfg |-> IF failed \/ list = NoList THEN defaultConfig ELSE list,
        todo |-> IF c.kind = "add" THEN c.targets ELSE <<>>, added |-> {}, found |-> {}, failed |-> {}]]
  /\ UNCHANGED <<searchWorld, list, listed, outcomes, tempDirs, leftDirs>>
\* Telegram fails, or there is nothing to do, before anything is changed.
SearchFails(w) ==
  /\ Busy(w) /\ ~SearchAt(w, "forward") /\ SearchFault /\ SearchEnds(w)
  /\ tempDirs' = tempDirs \ {w}
  /\ UNCHANGED <<searchWorld, list, listed, outcomes, leftDirs>>
\* A command removes its directory as it returns: one of a process that is killed stays for good.
SearchRestarts ==
  /\ SearchFault /\ searching' = SearchIdle
  /\ tempDirs' = {} /\ leftDirs' = leftDirs + Cardinality(tempDirs)
  /\ UNCHANGED <<searchWorld, list, listed, outcomes>>

\* The targets of add and import are looked up one by one; one that cannot be found is told of.
HasHandle(cfg, h) == Contains(cfg.channels, h)
AddChannel(cfg, h) ==
  List(Append(cfg.channels, h), IF cfg.default = NoSearch THEN h ELSE cfg.default, cfg.words)
ResolveTarget(w) ==
  /\ Busy(w) /\ searching[w].at \in {"add", "lookup"} /\ searching[w].todo # <<>>
  /\ LET h == Head(searching[w].todo) IN
       \/ /\ SearchFine
          /\ searching' = [searching EXCEPT ![w].todo = Tail(@),
               ![w].cfg = IF HasHandle(@, h) THEN @ ELSE AddChannel(@, h),
               ![w].added = IF HasHandle(searching[w].cfg, h) THEN @ ELSE @ \cup {h}]
       \/ SearchFault /\ searching' = [searching EXCEPT ![w].todo = Tail(@)]
  /\ UNCHANGED <<searchWorld, list, listed, outcomes, tempDirs, leftDirs>>
\* An import begins with an empty list and the program's words.
ImportConfig(w) == \E file \in exports :
  /\ SearchAt(w, "import") /\ SearchFine
  /\ searching' = [searching EXCEPT ![w].at = "lookup", ![w].todo = file, ![w].cfg = defaultConfig]
  /\ UNCHANGED <<searchWorld, list, listed, outcomes, tempDirs, leftDirs>>
\* A bug: an import of which no channel can be reached empties the list.
TakesNothing(j) == TRUE
Reached(j) == j.added # {}
NothingReached(w) ==
  /\ Busy(w) /\ searching[w].at \in {"add", "lookup"} /\ searching[w].todo = <<>>
  /\ ~Reached(searching[w]) /\ SearchFine /\ SearchEnds(w)
  /\ UNCHANGED <<searchWorld, list, listed, outcomes, tempDirs, leftDirs>>

\* A bug: the default stays when its channel goes.
KeepDefault(cfg, channels) == cfg.default
NextDefault(cfg, channels) ==
  IF cfg.default # NoSearch /\ Contains(channels, cfg.default) THEN cfg.default
  ELSE IF channels = <<>> THEN NoSearch ELSE Head(channels)
\* The members of a sequence that are in a set, in their order.
Only(seq, set) ==
  LET at == {i \in DOMAIN seq : seq[i] \in set}
      place(i) == Cardinality({k \in at : k <= i}) IN
  [n \in 1 .. Cardinality(at) |-> seq[CHOOSE i \in at : place(i) = n]]
WithoutChannels(cfg, handles) ==
  LET rest == Only(cfg.channels, Channels \ handles) IN List(rest, NextDefault(cfg, rest), cfg.words)
\* What a command makes of its copy; a default that is not in the list is refused.
NextList(j) ==
  LET c == j.cmd IN
  CASE c.kind \in {"add", "import"} -> j.cfg
    [] c.kind = "del" -> WithoutChannels(j.cfg, c.handles)
    [] c.kind = "del all" -> List(<<>>, NoSearch, j.cfg.words)
    [] c.kind = "default" -> List(j.cfg.channels, c.handle, j.cfg.words)
    [] c.kind = "ad add" -> List(j.cfg.channels, j.cfg.default, j.cfg.words \cup c.words)
    [] c.kind = "ad del" -> List(j.cfg.channels, j.cfg.default, j.cfg.words \ c.words)
Saves(j) ==
  \/ j.at \in {"del", "del all", "ad add", "ad del"}
  \/ j.at = "default" /\ (j.cmd.handle = NoSearch \/ HasHandle(j.cfg, j.cmd.handle))
  \/ j.at \in {"add", "lookup"} /\ j.todo = <<>> /\ Reached(j)
\* What the list has to have once a command has stored it: what the command had read, changed as
\* its answer tells.
AnswerTells(j) ==
  LET c == j.cmd
      read == Content(j.base) IN
  CASE c.kind = "add" -> [read EXCEPT !.channels = @ \cup j.added]
    [] c.kind = "import" -> IF j.added = {} THEN listed ELSE [channels |-> j.added, words |-> DefaultWords]
    [] c.kind = "del" -> [read EXCEPT !.channels = @ \ c.handles]
    [] c.kind = "del all" -> [read EXCEPT !.channels = {}]
    [] c.kind = "default" -> read
    [] c.kind = "ad add" -> [read EXCEPT !.words = @ \cup c.words]
    [] c.kind = "ad del" -> [read EXCEPT !.words = @ \ c.words]
\* A write whose answer is lost may have been made.
save(w) ==
  /\ Busy(w) /\ Saves(searching[w]) /\ SearchEnds(w)
  /\ LET j == searching[w] IN
       \/ SearchFine /\ list' = NextList(j) /\ listed' = AnswerTells(j)
       \/ SearchFault /\ list' = NextList(j) /\ listed' = AnswerTells(j)
       \/ SearchFault /\ UNCHANGED <<list, listed>>
  /\ UNCHANGED <<searchWorld, outcomes, tempDirs, leftDirs>>
NoSuchDefault(w) ==
  /\ SearchAt(w, "default") /\ ~Saves(searching[w]) /\ SearchFine /\ SearchEnds(w)
  /\ UNCHANGED <<searchWorld, list, listed, outcomes, tempDirs, leftDirs>>
\* The file lies in a directory of its own until it is sent, or not.
ExportList(w) ==
  /\ SearchAt(w, "export") /\ SearchFine
  /\ IF searching[w].cfg.channels = <<>> THEN SearchEnds(w) /\ UNCHANGED tempDirs
     ELSE SearchGo(w, "send export") /\ tempDirs' = tempDirs \cup {w}
  /\ UNCHANGED <<searchWorld, list, listed, outcomes, leftDirs>>
SendExport(w) ==
  /\ SearchAt(w, "send export") /\ SearchFine /\ SearchEnds(w) /\ tempDirs' = tempDirs \ {w}
  /\ exports' = exports \cup {searching[w].cfg.channels}
  /\ UNCHANGED <<searchWorld, list, listed, results, ends, leftDirs>>
-----------------------------------------------------------------------------
(* The search: source after source, the default first.                     *)

orderedChannels(cfg) ==
  Only(cfg.channels, {cfg.default}) \o Only(cfg.channels, Channels \ {cfg.default})
\* A bug: only the message that matches is looked at, and not its album.
NoAlbum(m, all) == {m}
Album(m, all) == IF m.group = 0 THEN {m} ELSE {n \in all : n.group = m.group}
isAd(m, words) == m.ads \cap words # {}
\* A bug: advertisements are looked for in the program's words only.
OnlyDefaults(videos, words) == {m \in videos : ~isAd(m, DefaultWords)}
NoAds(videos, words) == {m \in videos : ~isAd(m, words)}
Videos(messages) == {m \in messages : m.video}
Matching(h) == {m \in searchWorld.posts[h] : m.served /\ m.match}
\* Of a discussion: the video replies of the first thread that has some, or its other videos.
searchLinkedDiscussion(h, fails) ==
  LET with == IF fails = "replies" THEN {}
              ELSE {i \in DOMAIN searchWorld.threads[h] : Videos(searchWorld.threads[h][i]) # {}} IN
  IF fails = "linked" THEN {}
  ELSE IF with = {} THEN searchWorld.discussed[h]
  ELSE Videos(searchWorld.threads[h][Min(with)])
searchSource(h, how, fails) ==
  IF how = "preview" THEN {m \in Videos(searchWorld.posts[h]) : m.usable}
  ELSE searchLinkedDiscussion(h, fails) \cup
       Videos(UNION {IF m.group # 0 /\ fails = "albums" THEN {} ELSE Album(m, searchWorld.posts[h]) : m \in Matching(h)})
\* A bug: a source that cannot be read ends the search.
Stops(todo) == <<>>
NextSource(todo) == Tail(todo)
BeginSearch(w) ==
  /\ SearchAt(w, "search") /\ SearchFine
  /\ IF searching[w].cfg.channels = <<>> THEN SearchEnds(w)
     ELSE searching' = [searching EXCEPT ![w].at = "sources", ![w].todo = orderedChannels(searching[w].cfg)]
  /\ UNCHANGED <<searchWorld, list, listed, outcomes, tempDirs, leftDirs>>
ReadSource(w) == \E fails \in {"nothing", "linked", "replies", "albums", "source"} :
  /\ SearchAt(w, "sources") /\ searching[w].todo # <<>>
  /\ IF fails = "nothing" THEN SearchFine ELSE SearchFault
  /\ LET j == searching[w]
         h == Head(j.todo)
         videos == IF fails = "source" THEN {} ELSE NoAds(Videos(searchSource(h, j.cmd.how, fails)), j.cfg.words)
         found == j.found \cup videos IN
       searching' = [searching EXCEPT ![w].found = found,
         ![w].failed = @ \cup (IF fails = "nothing" THEN {} ELSE {h}),
         ![w].todo = IF j.cmd.how = "best" /\ found # {} THEN <<>>
                     ELSE IF fails = "source" THEN NextSource(@) ELSE Tail(@)]
  /\ UNCHANGED <<searchWorld, list, listed, outcomes, tempDirs, leftDirs>>
SearchEnd(w, what) == [end |-> what, how |-> searching[w].cmd.how, cfg |-> searching[w].cfg, failed |-> searching[w].failed]
Best(found) == {m \in found : \A n \in found : m.score > n.score \/ (m.score = n.score /\ m.id >= n.id)}
Select(w) ==
  /\ SearchAt(w, "sources") /\ searching[w].todo = <<>> /\ SearchFine
  /\ LET j == searching[w] IN
       IF j.found = {} THEN SearchEnds(w) /\ ends' = ends \cup {SearchEnd(w, "none")}
       ELSE /\ \E m \in IF j.cmd.how = "best" THEN Best(j.found) ELSE j.found :
                searching' = [searching EXCEPT ![w].at = IF j.cmd.spoiler THEN "download" ELSE "forward", ![w].found = {m}]
            /\ UNCHANGED ends
  /\ UNCHANGED <<searchWorld, list, listed, results, exports, tempDirs, leftDirs>>
ResultSent(w) == results' = results \cup {[video |-> m, cfg |-> searching[w].cfg] : m \in searching[w].found}
\* A message that cannot be forwarded is copied; the forward may have been made all the same.
Forward(w) ==
  /\ SearchAt(w, "forward")
  /\ \/ SearchFine /\ ResultSent(w) /\ SearchGo(w, "delete")
     \/ SearchFault /\ SearchGo(w, "copy") /\ (ResultSent(w) \/ UNCHANGED results)
  /\ UNCHANGED <<searchWorld, list, listed, ends, exports, tempDirs, leftDirs>>
CopyMessage(w) ==
  /\ SearchAt(w, "copy") /\ SearchFine /\ ResultSent(w) /\ SearchGo(w, "delete")
  /\ UNCHANGED <<searchWorld, list, listed, ends, exports, tempDirs, leftDirs>>
DownloadVideo(w) ==
  /\ SearchAt(w, "download") /\ SearchFine /\ SearchGo(w, "upload") /\ tempDirs' = tempDirs \cup {w}
  /\ UNCHANGED <<searchWorld, list, listed, outcomes, leftDirs>>
UploadVideo(w) ==
  /\ SearchAt(w, "upload") /\ SearchFine /\ ResultSent(w) /\ SearchGo(w, "delete") /\ tempDirs' = tempDirs \ {w}
  /\ UNCHANGED <<searchWorld, list, listed, ends, exports, leftDirs>>
deleteCommand(w) ==
  /\ SearchAt(w, "delete") /\ SearchFine /\ SearchEnds(w) /\ ends' = ends \cup {SearchEnd(w, "deleted")}
  /\ UNCHANGED <<searchWorld, list, listed, results, exports, tempDirs, leftDirs>>

SearchNext ==
  \/ SearchRestarts
  \/ \E w \in Searchers :
       \/ load(w) \/ SearchFails(w) \/ ResolveTarget(w) \/ ImportConfig(w) \/ NothingReached(w) \/ save(w)
       \/ NoSuchDefault(w) \/ ExportList(w) \/ SendExport(w)
       \/ BeginSearch(w) \/ ReadSource(w) \/ Select(w) \/ Forward(w) \/ CopyMessage(w) \/ DownloadVideo(w) \/ UploadVideo(w)
       \/ deleteCommand(w)
SearchSpec == (\E world \in SearchWorlds : SearchInit(world)) /\ [][SearchNext]_searchVars
-----------------------------------------------------------------------------
(* The stored list can always be searched: no channel is in it twice, and  *)
(* the default is one of them, whatever commands and failures made it.     *)
ListIsSound == list # NoList =>
  /\ IsInjective(list.channels)
  /\ list.default = NoSearch \/ Contains(list.channels, list.default)

(* The stored list has what the command that stored it had read, changed  *)
(* as its answer says and in nothing else: over failed look-ups, imports,  *)
(* lost writes and commands side by side.  What is lost is only what was   *)
(* stored between the reading and the storing of one command, and what the *)
(* program's own list lacks when a command could not read the stored one.  *)
ListIsKept == Content(list) = listed

(* What is sent is a video of a channel of the list or of its discussion,  *)
(* and no advertisement by any word the owner had set.                     *)
PostsOf(h) == searchWorld.posts[h] \cup searchWorld.discussed[h] \cup UNION Range(searchWorld.threads[h])
OnlyWanted == \A r \in results :
  r.video.video /\ ~isAd(r.video, r.cfg.words) /\ \E h \in ToSet(r.cfg.channels) : r.video \in PostsOf(h)

(* "Nothing found" means that no channel that could be read has a video    *)
(* the owner asked for, be it in an album with the words elsewhere.        *)
AskedFor(h, how, words) == {m \in searchWorld.posts[h] : m.video /\ ~isAd(m, words) /\
  IF how = "preview" THEN m.usable
  ELSE \E n \in Matching(h) : n = m \/ (n.group # 0 /\ n.group = m.group)}
NothingMissed == \A e \in ends : e.end = "none" =>
  \A h \in ToSet(e.cfg.channels) \ e.failed : AskedFor(h, e.how, e.cfg.words) = {}

(* The owner's command is only removed when its result was sent, and a     *)
(* directory for a file lasts as long as its command, unless the process   *)
(* is killed meanwhile (leftDirs).                                         *)
ResultFirst ==
  /\ \A e \in ends : e.end = "deleted" => \E r \in results : r.cfg = e.cfg
  /\ \A w \in tempDirs : Busy(w)

(* The five together: what the services run checks of this plugin.         *)
SearchIsSound == ListIsSound /\ ListIsKept /\ OnlyWanted /\ NothingMissed /\ ResultFirst
=============================================================================
