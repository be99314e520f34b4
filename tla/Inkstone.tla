------------------------------ MODULE Inkstone ------------------------------
(***************************************************************************)
(* The inkstone plugin: messages of Telegram are appended to notes of an   *)
(* Inkstone server under short names, and each append is kept in the       *)
(* plugin's storage until the server has confirmed it.                     *)
(*                                                                         *)
(* Commands run on several workers of the host and nothing locks the       *)
(* storage.  The server is external: a request names its operation, and    *)
(* one that was applied before is not applied again.  How a message is     *)
(* turned into Markdown is left out: a text is the message it is made of,  *)
(* how often that had been edited, and the number of its attachment.       *)
(***************************************************************************)
EXTENDS Naturals, Sequences

CONSTANTS
  MaxInkOrders, \* bound: commands
  InkFaults,    \* bound: failures, lost answers, changes by others
  NoJob, NoNote,
  InkWorlds     \* the worlds a run may begin in

VARIABLES
  inkWorld,
  aliases,  \* the stored bindings: [alias -> note]
  cached,   \* the stored results of the last search, <<>> when there are none
  pending,  \* the stored writes: [operation -> [request, completed]]
  notes,    \* the server's: [note -> [rev, entries]]
  served,   \* the server's: [operation -> [request, note]]
  edits,    \* [message -> how often it was edited]
  uploads,  \* the attachments of the server
  jobs,     \* [worker -> the command it runs]
  told,     \* the operations that were said to be written
  inkSpent
inkVars == <<inkWorld, aliases, cached, pending, notes, served, edits, uploads, jobs, told, inkSpent>>
server == <<notes, served, uploads>>
inkStore == <<aliases, cached, pending>>

Source(c) == IF c.reply = 0 THEN c.msg ELSE c.reply
Workers == 1 .. inkWorld.workers
InkMessages == {Source(c) : c \in {x \in inkWorld.commands : x.kind = "write"}}

\* world: [workers, strict, bound, media, refused, commands]: the server
\* compares the revisions of two requests too; the messages that have a
\* picture or video, and those with what cannot be uploaded
InkInit(world) ==
  /\ inkWorld = world
  /\ aliases = world.bound /\ cached = <<>> /\ pending = [op \in {} |-> NoJob]
  /\ notes = <<[rev |-> 1, entries |-> <<>>]>> /\ served = [op \in {} |-> NoJob] /\ uploads = 0
  /\ edits = [m \in InkMessages |-> 0]
  /\ jobs = [w \in Workers |-> NoJob] /\ told = {} /\ inkSpent = [orders |-> 0, faults |-> 0]

\* Some command runs, and what is bound at the start is the note there is.
ASSUME InkAssumption == \A world \in InkWorlds :
  /\ world.workers \in Nat \ {0}
  /\ \A a \in DOMAIN world.bound : world.bound[a] = 1
-----------------------------------------------------------------------------
(* The operations: one for a message and a note, of its own when forced.   *)

\* A bug: the operation is that of the command, and not of the message.
OpOfCommand(c) == c.msg
OpMessage(c) == IF c.force THEN c.msg ELSE Source(c)
WriteOp(c, note) == [kind |-> "write", msg |-> OpMessage(c), what |-> note]
-----------------------------------------------------------------------------
(* The frame of the commands.                                              *)

Updated(map, key, value) == [k \in DOMAIN map \cup {key} |-> IF k = key THEN value ELSE map[k]]
InkFault == inkSpent.faults < InkFaults /\ inkSpent' = [inkSpent EXCEPT !.faults = @ + 1]
InkFine == UNCHANGED inkSpent
At(w, kind, at) == jobs[w] # NoJob /\ jobs[w].cmd.kind = kind /\ jobs[w].at = at
Becomes(w, job) == jobs' = [jobs EXCEPT ![w] = job] /\ UNCHANGED told
JobAt(w, at) == Becomes(w, [jobs[w] EXCEPT !.at = at])
End(w, answer) ==
  /\ jobs' = [jobs EXCEPT ![w] = NoJob]
  /\ told' = IF answer \notin {"written", "reused"} THEN told
             ELSE told \cup {WriteOp(jobs[w].cmd, jobs[w].note)}
Same == UNCHANGED <<inkWorld, edits>>

\* The environment: other clients change a note, somebody edits a message.
NoteChanges == \E n \in DOMAIN notes :
  /\ InkFault /\ notes' = [notes EXCEPT ![n].rev = @ + 1]
  /\ UNCHANGED <<inkWorld, inkStore, served, uploads, edits, jobs, told>>
MessageEdited == \E m \in InkMessages :
  /\ InkFault /\ edits' = [edits EXCEPT ![m] = @ + 1]
  /\ UNCHANGED <<inkWorld, inkStore, server, jobs, told>>
\* The results of a search are old after half an hour.
SearchAges == cached # <<>> /\ InkFault /\ cached' = <<>>
  /\ UNCHANGED <<inkWorld, aliases, pending, server, edits, jobs, told>>

\* A command is first seen, or its message is edited and it is seen again.
Handle(w) == \E c \in inkWorld.commands :
  /\ jobs[w] = NoJob /\ inkSpent.orders < MaxInkOrders
  /\ inkSpent' = [inkSpent EXCEPT !.orders = @ + 1]
  /\ jobs' = [jobs EXCEPT ![w] = [cmd |-> c, at |-> "load", seen |-> NoJob, note |-> NoNote,
       request |-> NoJob, rev |-> 0, again |-> FALSE, attempt |-> 0]]
  /\ Same /\ UNCHANGED <<inkStore, server, told>>

\* Storage, Telegram, the server or the host give up, or the process ends.
InkFails(w) ==
  /\ jobs[w] # NoJob /\ InkFault /\ End(w, "failed")
  /\ Same /\ UNCHANGED <<inkStore, server>>
-----------------------------------------------------------------------------
(* One call of a tool: two attempts, and the server's answer.              *)

\* What the server does with a request for an operation it knows already.
Agrees(old, request) == IF inkWorld.strict THEN old = request ELSE old.text = request.text
Verdict(request) ==
  IF request.op \in DOMAIN served
  THEN IF Agrees(served[request.op].request, request) THEN "ok" ELSE "used"
  ELSE IF request.op.kind = "write" /\ request.rev # notes[request.note].rev THEN "conflict" ELSE "apply"
Appended(note, request) ==
  [note EXCEPT !.rev = @ + 1, !.entries = Append(@, [op |-> request.op, text |-> request.text])]
Performed(request) ==
  IF request.op.kind = "new"
  THEN /\ notes' = Append(notes, [rev |-> 1, entries |-> <<>>])
       /\ served' = Updated(served, request.op, [request |-> request, note |-> Len(notes) + 1])
  ELSE /\ notes' = [notes EXCEPT ![request.note] = Appended(@, request)]
       /\ served' = Updated(served, request.op, [request |-> request, note |-> request.note])
\* Two attempts, unless the server or the way to it answers with a status.
Tries(w) ==
  \/ End(w, "failed")
  \/ ~jobs[w].again /\ Becomes(w, [jobs[w] EXCEPT !.again = TRUE])
\* What the command makes of the answer: a new note is bound next; an entry is
\* done, or tried once more when somebody else has changed the note.
Answered(w, request, verdict) ==
  CASE request.op.kind = "new" /\ verdict # "used" ->
         Becomes(w, [jobs[w] EXCEPT !.at = "save", !.note = served'[request.op].note])
    [] request.op.kind = "write" /\ verdict \in {"ok", "apply"} -> JobAt(w, "done")
    [] request.op.kind = "write" /\ verdict = "conflict" /\ jobs[w].attempt = 0 -> JobAt(w, "refetch")
    [] OTHER -> End(w, "failed")
\* The server does what the request asks; the answer arrives or is lost, and
\* a request may be lost too.
CallTool(w, request) ==
  /\ Same /\ UNCHANGED <<inkStore, uploads>>
  /\ \/ InkFault /\ Tries(w) /\ UNCHANGED <<notes, served>>
     \/ LET verdict == Verdict(request) IN
        /\ IF verdict = "apply" THEN Performed(request) ELSE UNCHANGED <<notes, served>>
        /\ \/ InkFine /\ Answered(w, request, verdict)
           \/ InkFault /\ Tries(w)
-----------------------------------------------------------------------------
(* new, find, bind and unbind: the bindings are loaded, and stored as one. *)

NewOp(c) == [kind |-> "new", msg |-> c.msg, what |-> c.alias]
NewRequest(c) == [op |-> NewOp(c), note |-> NoNote, rev |-> 0, text |-> c.alias]
NewLoad(w) ==
  LET c == jobs[w].cmd IN
  /\ At(w, "new", "load") /\ InkFine /\ Same /\ UNCHANGED <<inkStore, server>>
  /\ IF c.alias \in DOMAIN aliases THEN End(w, "exists")
     ELSE Becomes(w, [jobs[w] EXCEPT !.at = "create", !.seen = aliases])
CreateNote(w) == At(w, "new", "create") /\ CallTool(w, NewRequest(jobs[w].cmd))

\* At most ten distinct results; here two.
Hits == {<<n>> : n \in DOMAIN notes} \cup {<<n, k>> : n, k \in DOMAIN notes} \cup {<<>>}
Distinct(hits) == \A i, j \in DOMAIN hits : hits[i] = hits[j] => i = j
Find(w) ==
  /\ At(w, "find", "load") /\ InkFine /\ End(w, "found") /\ Same
  /\ \E hits \in Hits : Distinct(hits) /\ cached' = IF hits = <<>> THEN cached ELSE hits
  /\ UNCHANGED <<aliases, pending, server>>

Chosen(w, note) == Becomes(w, [jobs[w] EXCEPT !.at = "bindings", !.note = note])
\* An identifier is taken as it is, a number is one of the last search, a title
\* is searched and taken when one result fits.
Resolve(w) ==
  LET c == jobs[w].cmd IN
  /\ At(w, "bind", "load") /\ InkFine /\ Same /\ UNCHANGED <<aliases, pending, server>>
  /\ \/ c.by = "id" /\ Chosen(w, 1) /\ UNCHANGED cached
     \/ /\ c.by = "number" /\ UNCHANGED cached
        /\ IF Len(cached) < 2 THEN End(w, "failed") ELSE Chosen(w, cached[2])
     \/ /\ c.by = "title"
        /\ \E hits \in Hits, exact \in {0, 1} :
             /\ Distinct(hits) /\ cached' = IF hits = <<>> THEN cached ELSE hits
             /\ IF hits = <<>> THEN End(w, "failed")
                ELSE IF exact = 1 \/ Len(hits) = 1 THEN Chosen(w, hits[1]) ELSE End(w, "choices")
LoadBindings(w) ==
  /\ At(w, "bind", "bindings") /\ InkFine /\ Same /\ UNCHANGED <<inkStore, server>>
  /\ Becomes(w, [jobs[w] EXCEPT !.at = "save", !.seen = aliases])
UnbindLoad(w) ==
  /\ At(w, "unbind", "load") /\ InkFine /\ Same /\ UNCHANGED <<inkStore, server>>
  /\ IF jobs[w].cmd.alias \notin DOMAIN aliases THEN End(w, "unknown")
     ELSE Becomes(w, [jobs[w] EXCEPT !.at = "save", !.seen = aliases])
SaveBindings(w) ==
  LET job == jobs[w] IN
  /\ \E kind \in {"new", "bind", "unbind"} : At(w, kind, "save")
  /\ aliases' = IF job.cmd.kind = "unbind"
                THEN [a \in DOMAIN job.seen \ {job.cmd.alias} |-> job.seen[a]]
                ELSE Updated(job.seen, job.cmd.alias, job.note)
  /\ InkFine /\ End(w, "saved") /\ Same /\ UNCHANGED <<cached, pending, server>>
-----------------------------------------------------------------------------
(* write: what is to be appended is stored, sent, and marked as written.    *)

EntryText(c, file) == [source |-> Source(c), edit |-> edits[Source(c)], file |-> file]

WriteLoad(w) ==
  LET c == jobs[w].cmd IN
  /\ At(w, "write", "load") /\ InkFine /\ Same /\ UNCHANGED <<inkStore, server>>
  /\ IF c.alias \notin DOMAIN aliases THEN End(w, "unbound")
     ELSE Becomes(w, [jobs[w] EXCEPT !.at = "pending", !.note = aliases[c.alias]])
OpOf(w) == WriteOp(jobs[w].cmd, jobs[w].note)
\* A bug: a write that was only begun counts as one that was done.
AnyPending(op) == op \in DOMAIN pending
Completed(op) == op \in DOMAIN pending /\ pending[op].completed
LoadPending(w) ==
  /\ At(w, "write", "pending") /\ InkFine /\ Same /\ UNCHANGED <<inkStore, server>>
  /\ IF Completed(OpOf(w)) THEN End(w, "reused")
     ELSE IF OpOf(w) \in DOMAIN pending
     THEN Becomes(w, [jobs[w] EXCEPT !.at = "edit", !.request = pending[OpOf(w)].request, !.again = FALSE])
     ELSE JobAt(w, "fetch")
FetchNote(w) ==
  /\ At(w, "write", "fetch") /\ InkFine /\ Same /\ UNCHANGED <<inkStore, server>>
  /\ Becomes(w, [jobs[w] EXCEPT !.at = "prepare", !.rev = notes[jobs[w].note].rev])
\* Media is downloaded and uploaded again for every write that is prepared.
HasMedia(c) == Source(c) \in inkWorld.media
Refused(c) == Source(c) \in inkWorld.refused
Uploaded(c) == IF HasMedia(c) THEN uploads + 1 ELSE uploads
PrepareEntry(w) ==
  LET job == jobs[w]
      file == IF HasMedia(job.cmd) THEN uploads' ELSE 0 IN
  /\ At(w, "write", "prepare") /\ InkFine /\ Same /\ UNCHANGED <<inkStore, notes, served>>
  /\ IF Refused(job.cmd) THEN End(w, "failed") /\ UNCHANGED uploads
     ELSE /\ uploads' = Uploaded(job.cmd)
          /\ Becomes(w, [job EXCEPT !.at = "store", !.rev = 0, !.request =
               [op |-> OpOf(w), note |-> job.note, rev |-> job.rev, text |-> EntryText(job.cmd, file)]])
\* A bug: the request is not stored before it is sent.
NotStored(op, request) == pending
Recorded(op, request) == Updated(pending, op, [request |-> request, completed |-> FALSE])
SavePending(w) ==
  /\ At(w, "write", "store") /\ InkFine /\ Same /\ UNCHANGED <<aliases, cached, server>>
  /\ pending' = Recorded(OpOf(w), jobs[w].request)
  /\ Becomes(w, [jobs[w] EXCEPT !.at = "edit", !.again = FALSE])
EditNote(w) == At(w, "write", "edit") /\ CallTool(w, jobs[w].request)
\* The note was changed by somebody else: once more, with its new revision.
Refetch(w) ==
  LET job == jobs[w]
      request == [job.request EXCEPT !.rev = notes[job.note].rev] IN
  /\ At(w, "write", "refetch") /\ InkFine /\ Same /\ UNCHANGED <<inkStore, server>>
  /\ Becomes(w, [job EXCEPT !.at = "restore", !.request = request])
SaveRefetched(w) ==
  /\ At(w, "write", "restore") /\ InkFine /\ Same /\ UNCHANGED <<aliases, cached, server>>
  /\ pending' = Updated(pending, OpOf(w), [request |-> jobs[w].request, completed |-> FALSE])
  /\ Becomes(w, [jobs[w] EXCEPT !.at = "pending", !.attempt = 1])
SaveCompleted(w) ==
  /\ At(w, "write", "done") /\ InkFine /\ Same /\ UNCHANGED <<aliases, cached, server>>
  /\ pending' = Updated(pending, OpOf(w), [request |-> jobs[w].request, completed |-> TRUE])
  /\ End(w, "written")

InkNext ==
  \/ NoteChanges \/ MessageEdited \/ SearchAges
  \/ \E w \in Workers :
       \/ Handle(w) \/ InkFails(w) \/ NewLoad(w) \/ CreateNote(w) \/ Find(w) \/ Resolve(w)
       \/ LoadBindings(w) \/ UnbindLoad(w) \/ SaveBindings(w) \/ WriteLoad(w) \/ LoadPending(w)
       \/ FetchNote(w) \/ PrepareEntry(w) \/ SavePending(w) \/ EditNote(w) \/ Refetch(w)
       \/ SaveRefetched(w) \/ SaveCompleted(w)
InkSpec == (\E world \in InkWorlds : InkInit(world)) /\ [][InkNext]_inkVars
-----------------------------------------------------------------------------
(* Properties.                                                             *)

\* A message is in a note once, however many commands ask for it, at the same
\* time or after each other's failures; those that are forced add one each.
AppendedOnce == \A n \in DOMAIN notes : \A i, j \in DOMAIN notes[n].entries :
  LET a == notes[n].entries[i]
      b == notes[n].entries[j] IN
  i # j /\ a.text.source = b.text.source =>
    /\ a.op # b.op
    /\ \E e \in {a, b} : \E c \in inkWorld.commands : c.force /\ e.op.msg = c.msg
\* What is said to be in a note is in it.
ToldIsWritten == \A op \in told :
  op \in {notes[op.what].entries[i].op : i \in DOMAIN notes[op.what].entries}
\* Where commands come one at a time, the write the server has applied is the
\* stored one: the command can be repeated after any failure.
Repeatable == inkWorld.workers = 1 =>
  \A op \in DOMAIN served : op.kind = "write" =>
    op \in DOMAIN pending /\ pending[op].request = served[op].request
WritesAreSafe == AppendedOnce /\ ToldIsWritten /\ Repeatable

\* new does not replace the binding its short name has by then.
NewKeepsAliases == [][\A w \in Workers :
  jobs[w] # NoJob /\ jobs'[w] = NoJob /\ jobs[w].cmd.kind = "new" =>
    \A a \in DOMAIN aliases \cap {jobs[w].cmd.alias} : aliases'[a] = aliases[a]]_inkVars
=============================================================================
