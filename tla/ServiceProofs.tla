--------------------------- MODULE ServiceProofs ---------------------------
(***************************************************************************)
(* Theorems about the services that plugins build upon, one part each.     *)
(*                                                                         *)
(* PluginBridge, for any number of calls, any manifest and any operations  *)
(* of the proxy: files cross whole and are removed, errors cross as they   *)
(* are.  The invariant says of each call what its two files hold and what  *)
(* the host has answered at each step of the plugin.                       *)
(*                                                                         *)
(* TelegramBackup, for any chats, limit and pages: a backup has no holes   *)
(* and can be restored.  The invariant says of the backup at work that it  *)
(* has all that lasts of its chat down to the offset of the next page.     *)
(*                                                                         *)
(* Migration, for any archives and any files of a host: no file of the     *)
(* host is lost, no program among the assets runs.  The invariant says     *)
(* what the run under way has done and what it has left.                   *)
(*                                                                         *)
(* Inkstone, for any commands, workers and notes: a message is written     *)
(* once.  The invariant says that the server knows the operation of each   *)
(* entry, and what each worker's write is about.                           *)
(*                                                                         *)
(* Speedlink, for any servers, hosts and backups, and YtDlp, for any       *)
(* workers, releases and files of others: answers hold, nothing unverified *)
(* is run, and what was not installed is kept.                             *)
(***************************************************************************)
EXTENDS PluginBridge, TelegramBackup, Migration, Inkstone, Speedlink, YtDlp, TLAPS, FiniteSetTheorems,
  SequenceTheorems, WellFoundedInduction

Operations == [method : ProxyMethods, own : BOOLEAN, thumb : BOOLEAN]
IsCall(c) ==
  /\ c = [op |-> c.op, at |-> c.at, error |-> c.error, got |-> c.got, output |-> c.output,
          host |-> c.host, reply |-> c.reply, served |-> c.served, took |-> c.took, late |-> c.late]
  /\ c.at # "new" => c.op \in Operations
Shape ==
  /\ bridged = [n \in BridgeCallIds |-> bridged[n]] /\ \A n \in BridgeCallIds : IsCall(bridged[n])
  /\ shared = [f \in Files |-> shared[f]]
  /\ \A n \in BridgeCallIds : manifest.may[n] \subseteq Operations

Upload(c) == c.op.method = "send_file"
Download(c) == c.op.method \in ProxyDownloads
NoFiles(n) == shared[Media(n)] = NoFile /\ shared[Thumb(n)] = NoFile
\* Both files are as the plugin staged them.
IsStaged(n) ==
  /\ shared[Media(n)] = "whole"
  /\ shared[Thumb(n)] = IF bridged[n].op.thumb THEN "whole" ELSE NoFile

\* Before the request the host has not heard of the call.
Unheard(n) ==
  LET c == bridged[n] IN
  c.at \in {"new", "stage", "copy", "target", "send"} =>
    c.host = "idle" /\ c.reply = "none" /\ c.served = "none" /\ c.error = "none"
FilesBefore(n) ==
  LET c == bridged[n] IN
  /\ c.at \in {"new", "target"} => NoFiles(n)
  /\ c.at = "target" => ~Upload(c)
  /\ c.at = "stage" =>
       /\ Upload(c) /\ shared[Thumb(n)] = NoFile
       /\ shared[Media(n)] = NoFile \/ (shared[Media(n)] = "whole" /\ c.op.thumb)
  /\ c.at = "copy" =>
       /\ Upload(c)
       /\ \/ shared[Media(n)] = "part" /\ shared[Thumb(n)] = NoFile
          \/ shared[Media(n)] = "whole" /\ shared[Thumb(n)] = "part" /\ c.op.thumb
  /\ c.at = "send" => IF Upload(c) THEN IsStaged(n) ELSE NoFiles(n)

\* What an answer says of the service and of the files.
Answer(n) ==
  LET c == bridged[n] IN
  /\ c.host = "idle"
  /\ c.reply = "ok" => /\ c.served = "ok"
                       /\ Upload(c) => c.took = {"whole"}
                       /\ Download(c) => shared[Media(n)] = "whole"
  /\ c.reply # "ok" =>
       c.served = "none" \/ (c.served \in KnownErrors \cup {"other"} /\ c.reply = CodeOf(c.served))
Waiting(n) ==
  LET c == bridged[n] IN
  c.at = "wait" =>
    /\ c.error = "none"
    /\ Upload(c) => IsStaged(n)
    /\ c.host = "create" => Download(c)
    /\ c.host = "serve" /\ Download(c) => shared[Media(n)] # NoFile
    /\ IF c.reply = "none" THEN c.served = "none" ELSE Answer(n)
Reading(n) ==
  LET c == bridged[n] IN
  c.at = "read" => c.error = "none" /\ Download(c) /\ c.reply = "ok" /\ Answer(n)

\* What is left of the call at its end.
SameFor(c) ==
  c.served # "none" /\ c.error # "local" =>
    c.error = (CASE c.served = "ok" -> "none" [] c.served = "other" -> "remote_error" [] OTHER -> c.served)
Ended(n) ==
  LET c == bridged[n] IN
  c.at \in {"sweep", "over"} =>
    /\ c.error = "none" => /\ c.host = "idle"
                           /\ Download(c) => c.got = "whole"
                           /\ Upload(c) => c.took = {"whole"}
    /\ ~c.late => /\ c.host = "idle" /\ SameFor(c)
                  /\ c.op.method = "tool.run" /\ c.served # "none" => c.output
                  /\ c.at = "over" => NoFiles(n)
CallInv(n) ==
  /\ Unheard(n) /\ FilesBefore(n) /\ Waiting(n) /\ Reading(n) /\ Ended(n)
  /\ bridged[n].reply # "method_not_found"
BridgeInv == Shape /\ \A n \in BridgeCallIds : CallInv(n)

-----------------------------------------------------------------------------
(* What a step does to its call, and that it leaves the other calls alone. *)

LEMMA FileNames ==
  ASSUME NEW n \in BridgeCallIds
  PROVE  /\ Media(n) \in Files /\ Thumb(n) \in Files /\ Media(n) # Thumb(n)
         /\ \A m \in BridgeCallIds : m # n =>
              Media(m) \notin {Media(n), Thumb(n)} /\ Thumb(m) \notin {Media(n), Thumb(n)}
BY DEF Files, Media, Thumb

LEMMA SideStep ==
  ASSUME Shape, NEW n \in BridgeCallIds, NEW changes, Side(n, changes)
  PROVE  /\ bridged' = [m \in BridgeCallIds |-> bridged'[m]]
         /\ \A m \in BridgeCallIds : m # n => bridged'[m] = bridged[m]
         /\ bridged'[n] = With(bridged[n], changes)
BY DEF Shape, Side

LEMMA WithFields ==
  ASSUME NEW c, IsCall(c), NEW changes
  PROVE  /\ DOMAIN With(c, changes) = {"op", "at", "error", "got", "output", "host", "reply",
                                       "served", "took", "late"}
         /\ With(c, changes) = [k \in DOMAIN With(c, changes) |-> With(c, changes)[k]]
         /\ \A k \in DOMAIN With(c, changes) :
              With(c, changes)[k] = IF k \in DOMAIN changes THEN changes[k] ELSE c[k]
BY DEF IsCall, With

\* Nothing but the call and the files of n changes.
Touches(n) ==
  /\ bridged' = [m \in BridgeCallIds |-> bridged'[m]]
  /\ \A m \in BridgeCallIds : m # n =>
       /\ bridged'[m] = bridged[m]
       /\ shared'[Media(m)] = shared[Media(m)] /\ shared'[Thumb(m)] = shared[Thumb(m)]
  /\ shared' = [f \in Files |-> shared'[f]]
  /\ manifest' = manifest

LEMMA OthersStay ==
  ASSUME NEW m \in BridgeCallIds, CallInv(m), bridged'[m] = bridged[m],
         shared'[Media(m)] = shared[Media(m)], shared'[Thumb(m)] = shared[Thumb(m)]
  PROVE  CallInv(m)'
BY DEF CallInv, Unheard, FilesBefore, Waiting, Reading, Ended, Answer, NoFiles, IsStaged, Media, Thumb

LEMMA OneCall ==
  ASSUME BridgeInv, NEW n \in BridgeCallIds, Touches(n), IsCall(bridged'[n]), CallInv(n)'
  PROVE  BridgeInv'
<1>1. Shape'
  BY DEF BridgeInv, Shape, Touches, BridgeCallIds, Files
<1>2. ASSUME NEW m \in BridgeCallIds, m # n PROVE CallInv(m)'
  BY <1>2, OthersStay DEF BridgeInv, Touches
<1> QED BY <1>1, <1>2 DEF BridgeInv

\* A step that changes fields of the call and no file.
LEMMA FieldsOnly ==
  ASSUME Shape, NEW n \in BridgeCallIds, NEW changes, Side(n, changes), BridgeSame, FilesSame
  PROVE  /\ Touches(n) /\ bridged'[n] = With(bridged[n], changes)
         /\ shared'[Media(n)] = shared[Media(n)] /\ shared'[Thumb(n)] = shared[Thumb(n)]
<1>1. shared' = shared /\ manifest' = manifest
  BY DEF FilesSame, BridgeSame
<1>2. shared' = [f \in Files |-> shared'[f]]
  BY <1>1 DEF Shape
<1> QED BY <1>1, <1>2, SideStep DEF Touches

\* A step that changes fields of the call and one of its files.
LEMMA FieldsAndFile ==
  ASSUME Shape, NEW n \in BridgeCallIds, NEW changes, Side(n, changes), BridgeSame,
         NEW f \in {Media(n), Thumb(n)}, NEW content, shared' = [shared EXCEPT ![f] = content]
  PROVE  /\ Touches(n) /\ bridged'[n] = With(bridged[n], changes)
         /\ shared'[f] = content
         /\ \A g \in {Media(n), Thumb(n)} : g # f => shared'[g] = shared[g]
<1>1. manifest' = manifest
  BY DEF BridgeSame
<1>2. f \in Files /\ \A g \in {Media(n), Thumb(n)} : g \in Files
  BY FileNames
<1>3. DOMAIN shared = Files /\ shared = [g \in DOMAIN shared |-> shared[g]]
  BY DEF Shape
<1>4. /\ shared' = [g \in Files |-> shared'[g]]
      /\ shared'[f] = content /\ \A g \in Files : g # f => shared'[g] = shared[g]
  BY <1>2, <1>3
<1>5. ASSUME NEW m \in BridgeCallIds, m # n
      PROVE  shared'[Media(m)] = shared[Media(m)] /\ shared'[Thumb(m)] = shared[Thumb(m)]
  <2>1. Media(m) \in Files /\ Thumb(m) \in Files /\ Media(m) # f /\ Thumb(m) # f
    BY <1>5, FileNames
  <2> QED BY <2>1, <1>4
<1> QED BY <1>1, <1>2, <1>4, <1>5, SideStep DEF Touches

LEMMA WithCall ==
  ASSUME NEW c, IsCall(c), c.at # "new", NEW changes, "op" \notin DOMAIN changes
  PROVE  IsCall(With(c, changes))
<1> DEFINE d == With(c, changes)
<1>1. d.op = c.op
  BY WithFields
<1>2. d = [op |-> d.op, at |-> d.at, error |-> d.error, got |-> d.got, output |-> d.output,
           host |-> d.host, reply |-> d.reply, served |-> d.served, took |-> d.took, late |-> d.late]
  BY WithFields
<1> HIDE DEF d
<1>3. IsCall(d)
  BY <1>1, <1>2 DEF IsCall
<1> QED BY <1>3 DEF d

\* The fields a step of the plugin leaves alone.
SameHost(d, c) == d.host = c.host /\ d.reply = c.reply /\ d.served = c.served /\ d.took = c.took
SamePlugin(d, c) ==
  d.op = c.op /\ d.at = c.at /\ d.error = c.error /\ d.got = c.got /\ d.output = c.output /\ d.late = c.late

-----------------------------------------------------------------------------
(* The plugin's steps.                                                     *)

LEMMA BeginStep == ASSUME BridgeInv, NEW n \in BridgeCallIds, Begin(n) PROVE BridgeInv'
<1> DEFINE c == bridged[n] d == bridged'[n]
<1>1. PICK op \in manifest.may[n] : Side(n, [op |-> op, at |-> FirstStep(op)])
  BY DEF Begin
<1>2. op \in Operations /\ IsCall(c) /\ c.at = "new" /\ CallInv(n)
  BY DEF Begin, On, BridgeInv, Shape
<1> DEFINE changes == [op |-> op, at |-> FirstStep(op)]
<1>3. /\ Touches(n) /\ d = With(c, changes)
      /\ shared'[Media(n)] = shared[Media(n)] /\ shared'[Thumb(n)] = shared[Thumb(n)]
  BY <1>1, FieldsOnly DEF Begin, BridgeInv
<1>4. /\ d.op = op /\ d.at = FirstStep(op) /\ d.error = c.error /\ d.got = c.got
      /\ d.output = c.output /\ d.late = c.late /\ SameHost(d, c)
      /\ d = [op |-> d.op, at |-> d.at, error |-> d.error, got |-> d.got, output |-> d.output,
              host |-> d.host, reply |-> d.reply, served |-> d.served, took |-> d.took, late |-> d.late]
  BY <1>2, <1>3, WithFields DEF SameHost
<1> HIDE DEF c, d, changes
<1>5. IsCall(d)
  BY <1>2, <1>4 DEF IsCall
<1>6. d.at \in {"stage", "target", "send"}
      /\ (d.at = "stage" <=> op.method = "send_file")
  BY <1>4 DEF FirstStep
<1>7. CallInv(n)'
  BY <1>2, <1>3, <1>4, <1>6 DEF c, d, SameHost, CallInv, Unheard, FilesBefore, Waiting, Reading, Ended,
     NoFiles, Upload, Media, Thumb
<1> QED BY <1>3, <1>5, <1>7, OneCall DEF c, d

\* A step that changes neither a file nor the operation of the call.
LEMMA Plain ==
  ASSUME BridgeInv, NEW n \in BridgeCallIds, NEW changes, Side(n, changes), BridgeSame, FilesSame,
         "op" \notin DOMAIN changes, bridged[n].at # "new"
  PROVE  /\ Touches(n) /\ IsCall(bridged'[n]) /\ bridged'[n] = With(bridged[n], changes)
         /\ shared'[Media(n)] = shared[Media(n)] /\ shared'[Thumb(n)] = shared[Thumb(n)]
BY FieldsOnly, WithCall DEF BridgeInv, Shape

\* The plugin gives the call up before the host has heard of it, or while the
\* host has nothing to do for it.
LEMMA LosesStep ==
  ASSUME BridgeInv, NEW n \in BridgeCallIds, Side(n, Loses("local")), bridged[n].at # "new",
         Touches(n), bridged'[n] = With(bridged[n], Loses("local")),
         bridged[n].host = "idle", bridged[n].op.method = "tool.run" => bridged[n].served = "none",
         bridged[n].reply # "method_not_found"
  PROVE  BridgeInv'
<1> DEFINE c == bridged[n] d == bridged'[n]
<1>1. IsCall(c)
  BY DEF BridgeInv, Shape
<1>2. IsCall(d)
  BY <1>1, WithCall DEF Loses
<1>3. /\ d.op = c.op /\ d.at = "sweep" /\ d.error = "local" /\ d.got = c.got
      /\ d.output = c.output /\ d.late = c.late /\ SameHost(d, c)
  BY <1>1, WithFields DEF SameHost, Loses
<1> HIDE DEF c, d
<1>4. CallInv(n)'
  BY <1>3 DEF c, d, SameHost, CallInv, Unheard, FilesBefore, Waiting, Reading, Ended, SameFor
<1> QED BY <1>2, <1>4, OneCall DEF c, d

LEMMA StageStep == ASSUME BridgeInv, NEW n \in BridgeCallIds, Stage(n) PROVE BridgeInv'
<1> DEFINE c == bridged[n] d == bridged'[n]
<1>1. IsCall(c) /\ c.at = "stage" /\ CallInv(n) /\ Shape
  BY DEF Stage, On, BridgeInv, Shape
<1>2. CASE shared' = [shared EXCEPT ![Staging(n)] = "part"] /\ Side(n, [at |-> "copy"])
  <2>0. Staging(n) \in {Media(n), Thumb(n)} /\ BridgeSame
    BY DEF Staging, Stage
  <2>1. /\ Touches(n) /\ d = With(c, [at |-> "copy"])
        /\ shared'[Staging(n)] = "part"
        /\ \A g \in {Media(n), Thumb(n)} : g # Staging(n) => shared'[g] = shared[g]
    BY <1>1, <1>2, <2>0, FieldsAndFile
  <2>2. IsCall(d)
    BY <1>1, <2>1, WithCall
  <2>3. /\ d.op = c.op /\ d.at = "copy" /\ d.error = c.error /\ d.got = c.got
        /\ d.output = c.output /\ d.late = c.late /\ SameHost(d, c)
    BY <1>1, <2>1, WithFields DEF SameHost
  <2> HIDE DEF c, d
  <2>4. CallInv(n)'
    BY <1>1, <2>1, <2>3, FileNames DEF c, d, SameHost, CallInv, Unheard, FilesBefore, Waiting, Reading,
       Ended, Upload, Staging, Media, Thumb, NoFiles
  <2> QED BY <2>1, <2>2, <2>4, OneCall DEF c, d
<1>3. CASE Side(n, Loses("local")) /\ FilesSame
  BY <1>1, <1>3, Plain, LosesStep DEF Stage, CallInv, Unheard, Loses
<1> QED BY <1>2, <1>3 DEF Stage

LEMMA CopyStep == ASSUME BridgeInv, NEW n \in BridgeCallIds, Copy(n) PROVE BridgeInv'
<1> DEFINE c == bridged[n] d == bridged'[n]
           last == IF shared[Thumb(n)] # NoFile THEN Thumb(n) ELSE Media(n)
           next == IF last = Media(n) /\ c.op.thumb THEN "stage" ELSE "send"
<1>0. last \in {Media(n), Thumb(n)} /\ BridgeSame
  BY DEF Copy
<1>1. IsCall(c) /\ c.at = "copy" /\ CallInv(n) /\ Shape
  BY DEF Copy, On, BridgeInv, Shape
<1>2. CASE shared' = [shared EXCEPT ![last] = "whole"] /\ Side(n, [at |-> next])
  <2> HIDE DEF last, next
  <2>1. /\ Touches(n) /\ d = With(c, [at |-> next])
        /\ shared'[last] = "whole"
        /\ \A g \in {Media(n), Thumb(n)} : g # last => shared'[g] = shared[g]
    BY <1>0, <1>1, <1>2, FieldsAndFile
  <2>2. IsCall(d)
    BY <1>1, <2>1, WithCall
  <2>3. /\ d.op = c.op /\ d.at = next /\ d.error = c.error /\ d.got = c.got
        /\ d.output = c.output /\ d.late = c.late /\ SameHost(d, c)
    BY <1>1, <2>1, WithFields DEF SameHost
  <2> HIDE DEF d
  <2>4. CallInv(n)'
    BY <1>1, <2>1, <2>3, FileNames, BridgeAssumption DEF c, d, SameHost, CallInv, Unheard, FilesBefore,
       Waiting, Reading, Ended, Upload, IsStaged, NoFiles, last, next
  <2> QED BY <2>1, <2>2, <2>4, OneCall DEF d
<1>3. CASE shared' = [shared EXCEPT ![last] = NoFile] /\ Side(n, Loses("local"))
  <2>1. Touches(n) /\ d = With(c, Loses("local"))
    <3> HIDE DEF last
    <3> QED BY <1>0, <1>1, <1>3, FieldsAndFile
  <2> QED BY <1>1, <1>3, <2>1, LosesStep DEF CallInv, Unheard
<1> QED BY <1>2, <1>3 DEF Copy

LEMMA TargetStep == ASSUME BridgeInv, NEW n \in BridgeCallIds, Target(n) PROVE BridgeInv'
<1> DEFINE c == bridged[n] d == bridged'[n]
<1>1. IsCall(c) /\ c.at = "target" /\ CallInv(n) /\ Shape
  BY DEF Target, On, BridgeInv, Shape
<1>2. CASE Side(n, [at |-> "send"]) /\ FilesSame
  <2>1. /\ Touches(n) /\ IsCall(d) /\ d = With(c, [at |-> "send"])
        /\ shared'[Media(n)] = shared[Media(n)] /\ shared'[Thumb(n)] = shared[Thumb(n)]
    BY <1>1, <1>2, Plain DEF Target
  <2>3. /\ d.op = c.op /\ d.at = "send" /\ d.error = c.error /\ d.got = c.got
        /\ d.output = c.output /\ d.late = c.late /\ SameHost(d, c)
    BY <1>1, <2>1, WithFields DEF SameHost
  <2> HIDE DEF d
  <2>4. CallInv(n)'
    BY <1>1, <2>1, <2>3 DEF c, d, SameHost, CallInv, Unheard, FilesBefore, Waiting, Reading, Ended,
       NoFiles, Upload, Media, Thumb
  <2> QED BY <2>1, <2>4, OneCall DEF d
<1>3. CASE Side(n, [at |-> "over", error |-> "local"]) /\ FilesSame
  <2>1. /\ Touches(n) /\ IsCall(d) /\ d = With(c, [at |-> "over", error |-> "local"])
        /\ shared'[Media(n)] = shared[Media(n)] /\ shared'[Thumb(n)] = shared[Thumb(n)]
    BY <1>1, <1>3, Plain DEF Target
  <2>3. /\ d.op = c.op /\ d.at = "over" /\ d.error = "local" /\ d.got = c.got
        /\ d.output = c.output /\ d.late = c.late /\ SameHost(d, c)
    BY <1>1, <2>1, WithFields DEF SameHost
  <2> HIDE DEF d
  <2>4. CallInv(n)'
    BY <1>1, <2>1, <2>3 DEF c, d, SameHost, CallInv, Unheard, FilesBefore, Waiting, Reading, Ended,
       NoFiles, SameFor, Media, Thumb
  <2> QED BY <2>1, <2>4, OneCall DEF d
<1>4. CASE /\ Side(n, [at |-> "over", error |-> "local", late |-> TRUE])
           /\ shared' = [shared EXCEPT ![Media(n)] = "part"]
  <2> DEFINE yes == TRUE changes == [at |-> "over", error |-> "local", late |-> yes]
  <2> HIDE DEF yes
  <2>1. Touches(n) /\ d = With(c, changes)
    BY <1>1, <1>4, FieldsAndFile DEF Target, yes
  <2>2. IsCall(d)
    BY <1>1, <2>1, WithCall
  <2>3. /\ d.op = c.op /\ d.at = "over" /\ d.error = "local" /\ d.late = yes /\ SameHost(d, c)
    BY <1>1, <2>1, WithFields DEF SameHost
  <2> HIDE DEF d
  <2>4. CallInv(n)'
    BY <1>1, <2>3 DEF c, d, SameHost, CallInv, Unheard, FilesBefore, Waiting, Reading, Ended, yes
  <2> QED BY <2>1, <2>2, <2>4, OneCall DEF d
<1> QED BY <1>2, <1>3, <1>4 DEF Target

LEMMA SendStep == ASSUME BridgeInv, NEW n \in BridgeCallIds, Send(n) PROVE BridgeInv'
<1> DEFINE c == bridged[n] d == bridged'[n]
<1>1. IsCall(c) /\ c.at = "send" /\ CallInv(n) /\ Shape
  BY DEF Send, On, BridgeInv, Shape
<1>2. CASE Side(n, [at |-> "wait", host |-> "check"])
  <2>1. /\ Touches(n) /\ IsCall(d) /\ d = With(c, [at |-> "wait", host |-> "check"])
        /\ shared'[Media(n)] = shared[Media(n)] /\ shared'[Thumb(n)] = shared[Thumb(n)]
    BY <1>1, <1>2, Plain DEF Send
  <2>2. /\ d.op = c.op /\ d.at = "wait" /\ d.error = c.error /\ d.got = c.got /\ d.output = c.output
        /\ d.late = c.late /\ d.host = "check" /\ d.reply = c.reply /\ d.served = c.served
    BY <1>1, <2>1, WithFields
  <2> HIDE DEF d
  <2>3. CallInv(n)'
    BY <1>1, <2>1, <2>2 DEF c, d, CallInv, Unheard, FilesBefore, Waiting, Reading, Ended,
       NoFiles, IsStaged, Upload, Media, Thumb
  <2> QED BY <2>1, <2>3, OneCall DEF d
<1>3. CASE Side(n, Loses("local"))
  BY <1>1, <1>3, Plain, LosesStep DEF Send, CallInv, Unheard, Loses
<1> QED BY <1>2, <1>3 DEF Send

LEMMA Translation ==
  ASSUME NEW error \in KnownErrors \cup {"other"}
  PROVE  /\ CodeOf(error) \notin {"ok", "none", "method_not_found"}
         /\ ErrorOf(CodeOf(error)) =
              (CASE error = "ok" -> "none" [] error = "other" -> "remote_error" [] OTHER -> error)
BY DEF KnownErrors, CodeOf, ErrorOf

LEMMA ErrorsStayErrors == ASSUME NEW code, code # "none" PROVE ErrorOf(code) # "none"
BY DEF ErrorOf

LEMMA ReceiveStep == ASSUME BridgeInv, NEW n \in BridgeCallIds, Receive(n) PROVE BridgeInv'
<1> DEFINE c == bridged[n] d == bridged'[n]
           result == HasResult(c)
           said == [c EXCEPT !.output = result]
           error == ErrorOf(c.reply)
           next == IF c.op.method \in ProxyDownloads THEN "read" ELSE "sweep"
           changes == IF c.reply # "ok" THEN Loses(error) ELSE [at |-> next]
<1>1. IsCall(c) /\ c.at = "wait" /\ c.reply # "none" /\ CallInv(n) /\ Shape
  BY DEF Receive, On, BridgeInv, Shape
<1>2. /\ bridged' = [bridged EXCEPT ![n] = With(said, changes)]
      /\ shared' = shared /\ manifest' = manifest
  BY DEF Receive, BridgeSame, FilesSame
<1>3. IsCall(said) /\ \A k \in DOMAIN c \ {"output"} : said[k] = c[k]
  <2> HIDE DEF result
  <2> QED BY <1>1 DEF IsCall
<1>4. said.output = result
  <2> HIDE DEF result
  <2> QED BY <1>1 DEF IsCall
<1>5. /\ said.op = c.op /\ said.at = c.at /\ said.error = c.error /\ said.got = c.got
      /\ said.late = c.late /\ SameHost(said, c)
  BY <1>1, <1>3 DEF IsCall, SameHost
<1> HIDE DEF said, result, error, changes, next
<1>6. /\ d = With(said, changes)
      /\ bridged' = [m \in BridgeCallIds |-> bridged'[m]]
      /\ \A m \in BridgeCallIds : m # n => bridged'[m] = bridged[m]
  BY <1>1, <1>2 DEF Shape
<1>7. Touches(n)
  BY <1>1, <1>2, <1>6 DEF Touches, Shape
<1>8. /\ "op" \notin DOMAIN changes
      /\ c.reply # "ok" => changes = [at |-> "sweep", error |-> error]
      /\ c.reply = "ok" => changes = [at |-> next]
  BY DEF changes, Loses
<1>9. IsCall(d)
  BY <1>1, <1>3, <1>5, <1>6, <1>8, WithCall
<1>10. /\ d.op = c.op /\ d.got = c.got /\ d.late = c.late /\ SameHost(d, c) /\ d.output = result
       /\ c.reply # "ok" => d.at = "sweep" /\ d.error = error
       /\ c.reply = "ok" => d.at = next /\ d.error = c.error
  BY <1>3, <1>4, <1>5, <1>6, <1>8, WithFields DEF SameHost
<1>11. shared'[Media(n)] = shared[Media(n)] /\ Media(n)' = Media(n)
  BY <1>2 DEF Media
<1> HIDE DEF d
<1>12. Answer(n) /\ c.error = "none"
  BY <1>1 DEF CallInv, Waiting
<1>13. CASE c.reply = "ok"
  <2>1. CallInv(n)'
    BY <1>1, <1>10, <1>11, <1>12, <1>13 DEF c, d, SameHost, CallInv, Unheard, FilesBefore, Waiting, Reading,
       Ended, SameFor, Answer, Upload, Download, result, HasResult, next
  <2> QED BY <1>7, <1>9, <2>1, OneCall DEF d
<1>14. CASE c.reply # "ok"
  <2>1. d.error # "none"
    BY <1>1, <1>10, <1>14, ErrorsStayErrors DEF error
  <2>2. SameFor(d)
    BY <1>10, <1>12, <1>14, Translation DEF SameFor, SameHost, Answer, error
  <2>3. Ended(n)'
    BY <1>10, <1>12, <1>14, <2>1, <2>2 DEF c, d, SameHost, Ended, Answer, result, HasResult
  <2>4. CallInv(n)'
    BY <1>1, <1>10, <1>14, <2>3 DEF c, d, SameHost, CallInv, Unheard, FilesBefore, Waiting, Reading
  <2> QED BY <1>7, <1>9, <2>4, OneCall DEF d
<1> QED BY <1>13, <1>14

LEMMA GiveUpStep == ASSUME BridgeInv, NEW n \in BridgeCallIds, GiveUp(n) PROVE BridgeInv'
<1> DEFINE c == bridged[n] d == bridged'[n] yes == TRUE
           changes == [late |-> yes, at |-> "sweep", error |-> "context"]
<1>1. IsCall(c) /\ c.at = "wait" /\ CallInv(n) /\ Shape
  BY DEF GiveUp, On, BridgeInv, Shape
<1>2. Side(n, changes) /\ BridgeSame /\ FilesSame
  BY DEF GiveUp
<1> HIDE DEF yes
<1>3. Touches(n) /\ IsCall(d) /\ d = With(c, changes)
  BY <1>1, <1>2, Plain
<1>4. d.op = c.op /\ d.at = "sweep" /\ d.error = "context" /\ d.late = yes /\ SameHost(d, c)
  BY <1>1, <1>3, WithFields DEF SameHost
<1> HIDE DEF d
<1>5. CallInv(n)'
  BY <1>1, <1>4 DEF c, d, yes, SameHost, CallInv, Unheard, FilesBefore, Waiting, Reading, Ended
<1> QED BY <1>3, <1>5, OneCall DEF d

LEMMA ReadStep == ASSUME BridgeInv, NEW n \in BridgeCallIds, Read(n) PROVE BridgeInv'
<1> DEFINE c == bridged[n] d == bridged'[n] content == shared[Media(n)]
<1>1. IsCall(c) /\ c.at = "read" /\ CallInv(n) /\ Shape
  BY DEF Read, On, BridgeInv, Shape
<1>2. c.error = "none" /\ Download(c) /\ c.reply = "ok" /\ Answer(n)
  BY <1>1 DEF CallInv, Reading
<1>3. c.op.method \notin {"tool.run", "send_file"}
  BY <1>2 DEF Download, ProxyDownloads
<1>4. CASE Side(n, [at |-> "sweep", got |-> content])
  <2> HIDE DEF content
  <2>1. /\ Touches(n) /\ IsCall(d) /\ d = With(c, [at |-> "sweep", got |-> content])
    BY <1>1, <1>4, Plain DEF Read
  <2>2. /\ d.op = c.op /\ d.at = "sweep" /\ d.error = c.error /\ d.got = content /\ d.output = c.output
        /\ d.late = c.late /\ SameHost(d, c)
    BY <1>1, <2>1, WithFields DEF SameHost
  <2> HIDE DEF d
  <2>3. CallInv(n)'
    BY <1>1, <1>2, <1>3, <2>2 DEF c, d, content, SameHost, CallInv, Unheard, FilesBefore, Waiting, Reading,
       Ended, SameFor, Answer, Download, Upload
  <2> QED BY <2>1, <2>3, OneCall DEF d
<1>5. CASE Side(n, Loses("local"))
  BY <1>1, <1>2, <1>3, <1>5, Plain, LosesStep DEF Read, Answer, Loses
<1> QED BY <1>4, <1>5 DEF Read

LEMMA SweepStep == ASSUME BridgeInv, NEW n \in BridgeCallIds, Sweep(n) PROVE BridgeInv'
<1> DEFINE c == bridged[n] d == bridged'[n]
<1>1. IsCall(c) /\ c.at = "sweep" /\ CallInv(n) /\ Shape
  BY DEF Sweep, On, BridgeInv, Shape
<1>2. /\ Side(n, [at |-> "over"]) /\ shared' = [f \in Files |-> IF f[1] = n THEN NoFile ELSE shared[f]]
      /\ manifest' = manifest
  BY DEF Sweep, Removed, BridgeSame
<1>3. /\ bridged' = [m \in BridgeCallIds |-> bridged'[m]]
      /\ \A m \in BridgeCallIds : m # n => bridged'[m] = bridged[m]
      /\ d = With(c, [at |-> "over"])
  BY <1>1, <1>2, SideStep
<1>4. /\ shared' = [f \in Files |-> shared'[f]]
      /\ shared'[Media(n)] = NoFile /\ shared'[Thumb(n)] = NoFile
      /\ \A m \in BridgeCallIds : m # n =>
           shared'[Media(m)] = shared[Media(m)] /\ shared'[Thumb(m)] = shared[Thumb(m)]
  BY <1>2, FileNames DEF Media, Thumb
<1>5. Touches(n)
  BY <1>2, <1>3, <1>4 DEF Touches
<1>6. IsCall(d)
  BY <1>1, <1>3, WithCall
<1>7. /\ d.op = c.op /\ d.at = "over" /\ d.error = c.error /\ d.got = c.got
      /\ d.output = c.output /\ d.late = c.late /\ SameHost(d, c)
  BY <1>1, <1>3, WithFields DEF SameHost
<1>8. NoFiles(n)'
  BY <1>4 DEF NoFiles, Media, Thumb
<1> HIDE DEF d
<1>9. CallInv(n)'
  BY <1>1, <1>7, <1>8 DEF c, d, SameHost, CallInv, Unheard, FilesBefore, Waiting, Reading, Ended, SameFor,
     Download, Upload
<1> QED BY <1>5, <1>6, <1>9, OneCall DEF d

-----------------------------------------------------------------------------
(* The host's steps: the plugin waits for the answer, or is late.          *)

LEMMA HostStep ==
  ASSUME BridgeInv, NEW n \in BridgeCallIds, Touches(n), IsCall(bridged'[n]),
         SamePlugin(bridged'[n], bridged[n]), bridged[n].host # "idle",
         bridged'[n].reply # "method_not_found", bridged[n].at = "wait" => Waiting(n)'
  PROVE  BridgeInv'
<1> DEFINE c == bridged[n] d == bridged'[n]
<1>1. CallInv(n)
  BY DEF BridgeInv
<1>2. c.at \notin {"new", "stage", "copy", "target", "send", "read"}
  BY <1>1 DEF CallInv, Unheard, Reading, Answer
<1>3. c.at \in {"sweep", "over"} => c.error # "none" /\ c.late
  BY <1>1 DEF CallInv, Ended
<1> HIDE DEF c, d
<1>4. Ended(n)'
  BY <1>3 DEF c, d, SamePlugin, Ended
<1>5. CallInv(n)'
  BY <1>2, <1>4 DEF c, d, SamePlugin, CallInv, Unheard, FilesBefore, Waiting, Reading
<1> QED BY <1>5, OneCall

\* The call the host works on.
LEMMA HostAtWork ==
  ASSUME BridgeInv, NEW n \in BridgeCallIds, bridged[n].host # "idle"
  PROVE  /\ IsCall(bridged[n]) /\ bridged[n].at # "new" /\ Shape
         /\ bridged[n].at = "wait" =>
              /\ bridged[n].error = "none" /\ bridged[n].reply = "none" /\ bridged[n].served = "none"
              /\ Upload(bridged[n]) => IsStaged(n)
<1>1. CallInv(n) /\ Shape /\ IsCall(bridged[n])
  BY DEF BridgeInv, Shape
<1> QED BY <1>1 DEF CallInv, Unheard, Waiting, Answer

\* A step that changes what the host is at and what it answers.
LEMMA HostFields ==
  ASSUME BridgeInv, NEW n \in BridgeCallIds, bridged[n].host # "idle",
         NEW changes, DOMAIN changes \subseteq {"host", "reply", "served", "took"},
         bridged'[n] = With(bridged[n], changes)
  PROVE  /\ IsCall(bridged'[n]) /\ SamePlugin(bridged'[n], bridged[n])
         /\ \A k \in {"host", "reply", "served", "took"} :
              bridged'[n][k] = IF k \in DOMAIN changes THEN changes[k] ELSE bridged[n][k]
<1>1. IsCall(bridged[n]) /\ bridged[n].at # "new"
  BY HostAtWork
<1>2. IsCall(bridged'[n])
  BY <1>1, WithCall
<1> QED BY <1>1, <1>2, WithFields DEF SamePlugin

\* The host answers without the service.
LEMMA ReplyStep ==
  ASSUME BridgeInv, NEW n \in BridgeCallIds, bridged[n].host # "idle", Touches(n),
         NEW code \in {"permission_denied", "remote_error"},
         bridged'[n] = With(bridged[n], Reply(code)),
         shared'[Media(n)] = shared[Media(n)], shared'[Thumb(n)] = shared[Thumb(n)]
  PROVE  BridgeInv'
<1> DEFINE c == bridged[n] d == bridged'[n]
<1>1. /\ IsCall(d) /\ SamePlugin(d, c)
      /\ d.host = "idle" /\ d.reply = code /\ d.served = c.served
  <2>1. DOMAIN Reply(code) = {"host", "reply"} /\ Reply(code)["host"] = "idle" /\ Reply(code)["reply"] = code
    BY DEF Reply
  <2> QED BY <2>1, HostFields
<1>2. c.at = "wait" =>
        c.error = "none" /\ c.served = "none" /\ (Upload(c) => IsStaged(n))
  BY HostAtWork
<1> HIDE DEF c, d
<1>3. c.at = "wait" => Waiting(n)'
  BY <1>1, <1>2 DEF c, d, SamePlugin, Waiting, Answer, Upload, IsStaged, Media, Thumb
<1> QED BY <1>1, <1>3, HostStep DEF c, d

\* The host goes on to its next step.
LEMMA GoesOn ==
  ASSUME BridgeInv, NEW n \in BridgeCallIds, bridged[n].host # "idle", Touches(n),
         NEW step \in {"paths", "create", "serve"},
         bridged'[n] = With(bridged[n], [host |-> step]),
         step = "create" => Download(bridged[n]),
         step = "serve" /\ Download(bridged[n]) => shared'[Media(n)] # NoFile,
         Upload(bridged[n]) => /\ shared'[Media(n)] = shared[Media(n)]
                               /\ shared'[Thumb(n)] = shared[Thumb(n)]
  PROVE  BridgeInv'
<1> DEFINE c == bridged[n] d == bridged'[n]
<1>1. /\ IsCall(d) /\ SamePlugin(d, c)
      /\ d.host = step /\ d.reply = c.reply /\ d.served = c.served
  BY HostFields
<1>2. CallInv(n) /\ (c.at = "wait" =>
        /\ c.error = "none" /\ c.reply = "none" /\ c.served = "none"
        /\ Upload(c) => IsStaged(n))
  BY HostAtWork DEF BridgeInv
<1> HIDE DEF c, d
<1>3. c.at = "wait" => Waiting(n)'
  BY <1>1, <1>2 DEF c, d, SamePlugin, Waiting, Upload, Download, IsStaged, Media, Thumb
<1>4. d.reply # "method_not_found"
  BY <1>1, <1>2 DEF c, CallInv
<1> QED BY <1>1, <1>3, <1>4, HostStep DEF c, d

LEMMA HostKnowsAll == ProxyMethods \subseteq HostMethods /\ ProxyDownloads = HostDownloads
BY DEF ProxyMethods, ProxyPlain, ProxyTexts, ProxyMessages, ProxyLookups, ProxyChats, ProxyPrivate,
   ProxyAccount, ProxyMedia, ProxyStorage, ProxyTools, ProxyDownloads,
   HostMethods, HostTelegram, HostTexts, HostMessages, HostLookups, HostChats, HostPrivate,
   HostAccount, HostMedia, HostStorage, HostTools, HostDownloads

LEMMA CheckStep == ASSUME BridgeInv, NEW n \in BridgeCallIds, Check(n) PROVE BridgeInv'
<1> DEFINE c == bridged[n]
           next == IF c.op.method = "send_file" THEN "paths"
                   ELSE IF c.op.method \in HostDownloads THEN "create" ELSE "serve"
<1>1. c.host # "idle" /\ IsCall(c) /\ c.at # "new" /\ Shape
  BY HostAtWork DEF Check, Serving
<1>2. c.op.method \in HostMethods
  BY <1>1, HostKnowsAll DEF IsCall, Operations
<1>3. Side(n, Reply("permission_denied")) \/ Side(n, [host |-> next])
  BY <1>2 DEF Check
<1>4. BridgeSame /\ FilesSame
  BY DEF Check
<1>5. CASE Side(n, Reply("permission_denied"))
  BY <1>1, <1>4, <1>5, FieldsOnly, ReplyStep
<1>6. CASE Side(n, [host |-> next])
  <2>1. next \in {"paths", "create", "serve"} /\ (next = "create" => Download(c))
        /\ (next = "serve" => ~Download(c))
    BY HostKnowsAll DEF Download, ProxyDownloads
  <2> HIDE DEF next
  <2>2. Touches(n) /\ bridged'[n] = With(c, [host |-> next])
        /\ shared'[Media(n)] = shared[Media(n)] /\ shared'[Thumb(n)] = shared[Thumb(n)]
    BY <1>1, <1>4, <1>6, FieldsOnly
  <2> QED BY <1>1, <2>1, <2>2, GoesOn
<1> QED BY <1>3, <1>5, <1>6

LEMMA PathsStep == ASSUME BridgeInv, NEW n \in BridgeCallIds, Paths(n) PROVE BridgeInv'
<1> DEFINE c == bridged[n]
           named == IF c.op.thumb THEN {Media(n), Thumb(n)} ELSE {Media(n)}
<1>1. c.host # "idle" /\ Shape
  BY HostAtWork DEF Paths, Serving
<1>2. \/ Side(n, [host |-> "serve"]) /\ \A f \in named : shared[f] # NoFile
      \/ Side(n, Reply("remote_error"))
  BY DEF Paths
<1>3. BridgeSame /\ FilesSame
  BY DEF Paths
<1>4. CASE Side(n, Reply("remote_error"))
  BY <1>1, <1>3, <1>4, FieldsOnly, ReplyStep
<1>5. CASE Side(n, [host |-> "serve"]) /\ \A f \in named : shared[f] # NoFile
  <2>1. Touches(n) /\ bridged'[n] = With(c, [host |-> "serve"])
        /\ shared'[Media(n)] = shared[Media(n)] /\ shared'[Thumb(n)] = shared[Thumb(n)]
    BY <1>1, <1>3, <1>5, FieldsOnly
  <2>2. shared[Media(n)] # NoFile
    BY <1>5
  <2> QED BY <1>1, <2>1, <2>2, GoesOn
<1> QED BY <1>2, <1>4, <1>5

LEMMA CreateStep == ASSUME BridgeInv, NEW n \in BridgeCallIds, Create(n) PROVE BridgeInv'
<1> DEFINE c == bridged[n]
<1>1. c.host = "create" /\ BridgeSame /\ Shape /\ CallInv(n)
  BY DEF Create, Serving, BridgeInv
<1>2. CASE Side(n, Reply("remote_error")) /\ FilesSame
  BY <1>1, <1>2, FieldsOnly, ReplyStep
<1>3. CASE shared' = [shared EXCEPT ![Media(n)] = "part"] /\ Side(n, [host |-> "serve"])
  <2>1. Touches(n) /\ bridged'[n] = With(c, [host |-> "serve"]) /\ shared'[Media(n)] = "part"
    BY <1>1, <1>3, FieldsAndFile
  <2>2. IsCall(bridged'[n]) /\ SamePlugin(bridged'[n], c)
        /\ bridged'[n].host = "serve" /\ bridged'[n].reply = c.reply /\ bridged'[n].served = c.served
    BY <1>1, <2>1, HostFields
  <2>3. /\ c.at = "wait" => c.error = "none" /\ c.reply = "none" /\ c.served = "none" /\ Download(c)
        /\ c.reply # "method_not_found"
    BY <1>1, HostAtWork DEF CallInv, Waiting
  <2>4. Download(c) => ~Upload(c)
    BY DEF Download, Upload, ProxyDownloads
  <2> HIDE DEF c
  <2>5. c.at = "wait" => Waiting(n)'
    BY <2>1, <2>2, <2>3, <2>4, BridgeAssumption DEF c, SamePlugin, Waiting, Upload, Download, Media
  <2> QED BY <1>1, <2>1, <2>2, <2>3, <2>5, HostStep DEF c
<1> QED BY <1>2, <1>3 DEF Create

\* An upload takes its files whole.
LEMMA TakenWhole ==
  ASSUME NEW n \in BridgeCallIds, IsStaged(n)
  PROVE  {shared[f] : f \in Staged(n)} = {"whole"}
<1>1. Media(n) \in Staged(n) /\ \A f \in Staged(n) : shared[f] = "whole"
  BY BridgeAssumption DEF IsStaged, Staged
<1> QED BY <1>1 DEF IsStaged

LEMMA ServeStep == ASSUME BridgeInv, NEW n \in BridgeCallIds, Serve(n) PROVE BridgeInv'
<1> DEFINE c == bridged[n] d == bridged'[n]
           taken == {shared[f] : f \in Staged(n)}
           filled == IF shared[Media(n)] = NoFile THEN NoFile ELSE "whole"
<1>1. c.host = "serve" /\ BridgeSame /\ Shape /\ CallInv(n) /\ IsCall(c) /\ c.at # "new"
  BY HostAtWork DEF Serve, Serving, BridgeInv
<1>2. c.at = "wait" =>
        /\ c.error = "none" /\ c.reply = "none" /\ c.served = "none"
        /\ Upload(c) => IsStaged(n)
        /\ Download(c) => shared[Media(n)] # NoFile
  BY <1>1, HostAtWork DEF CallInv, Waiting
<1>3. ASSUME NEW error \in KnownErrors \cup {"other"}, Side(n, Served(error, {})), FilesSame
      PROVE  BridgeInv'
  <2>1. Touches(n) /\ d = With(c, Served(error, {}))
        /\ shared'[Media(n)] = shared[Media(n)] /\ shared'[Thumb(n)] = shared[Thumb(n)]
    BY <1>1, <1>3, FieldsOnly
  <2>2. error # "ok" /\ CodeOf(error) \notin {"ok", "none", "method_not_found"}
    BY Translation DEF KnownErrors
  <2> DEFINE code == CodeOf(error) nothing == {}
             changes == [host |-> "idle", reply |-> code, served |-> error, took |-> nothing]
  <2>3. Served(error, {}) = changes
    BY <2>2 DEF Served
  <2> HIDE DEF code, nothing
  <2>4. /\ IsCall(d) /\ SamePlugin(d, c)
        /\ d.host = "idle" /\ d.reply = code /\ d.served = error
    BY <1>1, <2>1, <2>3, HostFields
  <2> HIDE DEF c, d
  <2>5. c.at = "wait" => Waiting(n)'
    BY <1>2, <2>1, <2>2, <2>4 DEF c, d, code, SamePlugin, Waiting, Answer, Upload, IsStaged, Media, Thumb
  <2> QED BY <1>1, <2>1, <2>2, <2>4, <2>5, HostStep DEF c, d, code
<1>4. ASSUME Side(n, Served("ok", taken)),
             shared' = IF c.op.method \in HostDownloads THEN [shared EXCEPT ![Media(n)] = filled] ELSE shared
      PROVE  BridgeInv'
  <2> DEFINE changes == [host |-> "idle", reply |-> "ok", served |-> "ok", took |-> taken]
  <2>1. Served("ok", taken) = changes
    BY DEF Served
  <2> HIDE DEF taken, filled
  <2>2. /\ Touches(n) /\ d = With(c, changes)
        /\ IF Download(c) THEN shared'[Media(n)] = filled
           ELSE shared'[Media(n)] = shared[Media(n)] /\ shared'[Thumb(n)] = shared[Thumb(n)]
    <3>1. CASE Download(c)
      <4>1. shared' = [shared EXCEPT ![Media(n)] = filled]
        BY <1>4, <3>1, HostKnowsAll DEF Download
      <4>2. Side(n, changes)
        BY <1>4, <2>1
      <4> HIDE DEF changes
      <4>3. Touches(n) /\ d = With(c, changes) /\ shared'[Media(n)] = filled
        BY <1>1, <4>1, <4>2, FieldsAndFile
      <4> QED BY <3>1, <4>3
    <3>2. CASE ~Download(c)
      <4>1. FilesSame
        BY <1>4, <3>2, HostKnowsAll DEF Download, FilesSame
      <4> QED BY <1>1, <1>4, <2>1, <3>2, <4>1, FieldsOnly
    <3> QED BY <3>1, <3>2
  <2>3. /\ IsCall(d) /\ SamePlugin(d, c)
        /\ d.host = "idle" /\ d.reply = "ok" /\ d.served = "ok" /\ d.took = taken
    BY <1>1, <2>2, HostFields
  <2>4. c.at = "wait" /\ Upload(c) => taken = {"whole"} /\ ~Download(c)
    BY <1>2, TakenWhole DEF taken, Upload, Download, ProxyDownloads
  <2>5. c.at = "wait" /\ Download(c) => shared'[Media(n)] = "whole"
    BY <1>2, <2>2 DEF filled
  <2> HIDE DEF c, d
  <2>6. c.at = "wait" => Waiting(n)'
    BY <1>2, <2>2, <2>3, <2>4, <2>5 DEF c, d, SamePlugin, Waiting, Answer, Upload, Download, IsStaged,
       Media, Thumb
  <2> QED BY <1>1, <2>2, <2>3, <2>6, HostStep DEF c, d
<1> QED BY <1>3, <1>4 DEF Serve

-----------------------------------------------------------------------------
(* The end of the plugin, and all steps.                                   *)

LEMMA EndStep == ASSUME BridgeInv, PluginEnds PROVE BridgeInv'
<1> DEFINE yes == TRUE
<1>1. /\ bridged' = [n \in BridgeCallIds |-> [bridged[n] EXCEPT !.late = yes]]
      /\ shared' = shared /\ manifest' = manifest
  BY DEF PluginEnds
<1> HIDE DEF yes
<1>2. ASSUME NEW n \in BridgeCallIds
      PROVE  IsCall(bridged'[n]) /\ CallInv(n)'
  <2> DEFINE c == bridged[n] d == bridged'[n]
  <2>1. IsCall(c) /\ CallInv(n)
    BY DEF BridgeInv, Shape
  <2>2. d = [op |-> c.op, at |-> c.at, error |-> c.error, got |-> c.got, output |-> c.output,
             host |-> c.host, reply |-> c.reply, served |-> c.served, took |-> c.took, late |-> yes]
    BY <1>1, <2>1 DEF IsCall
  <2> HIDE DEF d
  <2>3. /\ d.op = c.op /\ d.at = c.at /\ d.error = c.error /\ d.got = c.got /\ d.output = c.output
        /\ d.late = yes /\ SameHost(d, c) /\ IsCall(d)
    BY <2>1, <2>2 DEF SameHost, IsCall
  <2> HIDE DEF c
  <2>4. Unheard(n)' /\ FilesBefore(n)'
    BY <1>1, <2>1, <2>3 DEF c, d, SameHost, CallInv, Unheard, FilesBefore, NoFiles, IsStaged, Upload,
       Media, Thumb
  <2>5. Answer(n) => Answer(n)'
    BY <1>1, <2>3 DEF c, d, SameHost, Answer, Upload, Download, Media
  <2>6. Waiting(n)' /\ Reading(n)'
    BY <1>1, <2>1, <2>3, <2>5 DEF c, d, SameHost, CallInv, Waiting, Reading, IsStaged, Upload, Download,
       Media, Thumb
  <2>7. Ended(n)'
    BY <2>1, <2>3 DEF c, d, yes, SameHost, CallInv, Ended, Upload, Download
  <2>8. CallInv(n)'
    BY <2>1, <2>3, <2>4, <2>6, <2>7 DEF c, d, SameHost, CallInv
  <2> QED BY <2>3, <2>8 DEF d
<1>3. Shape'
  BY <1>1, <1>2 DEF BridgeInv, Shape, BridgeCallIds, Files
<1> QED BY <1>2, <1>3 DEF BridgeInv

LEMMA BridgeStep == ASSUME BridgeInv, [BridgeNext]_bridgeVars PROVE BridgeInv'
<1>1. ASSUME NEW n \in BridgeCallIds,
             Begin(n) \/ Stage(n) \/ Copy(n) \/ Target(n) \/ Send(n) \/ Receive(n)
               \/ GiveUp(n) \/ Read(n) \/ Sweep(n)
      PROVE  BridgeInv'
  BY <1>1, BeginStep, StageStep, CopyStep, TargetStep, SendStep, ReceiveStep, GiveUpStep, ReadStep, SweepStep
<1>2. ASSUME NEW n \in BridgeCallIds, Check(n) \/ Paths(n) \/ Create(n) \/ Serve(n)
      PROVE  BridgeInv'
  BY <1>2, CheckStep, PathsStep, CreateStep, ServeStep
<1>3. CASE UNCHANGED bridgeVars
  <2>1. bridged' = bridged /\ shared' = shared /\ manifest' = manifest
    BY <1>3 DEF bridgeVars
  <2>2. \A n \in BridgeCallIds : CallInv(n)'
    BY <2>1, OthersStay DEF BridgeInv
  <2> QED BY <2>1, <2>2 DEF BridgeInv, Shape, IsCall, BridgeCallIds, Files
<1> QED BY <1>1, <1>2, <1>3, EndStep DEF BridgeNext

LEMMA BridgeStart == ASSUME NEW world \in BridgeWorlds, BridgeInit(world) PROVE BridgeInv
<1> DEFINE no == FALSE
<1>1. /\ manifest = world /\ shared = [f \in Files |-> NoFile]
      /\ bridged = [n \in BridgeCallIds |-> Unused]
      /\ Unused = [op |-> NoOp, at |-> "new", error |-> "none", got |-> NoFile, output |-> no,
                   host |-> "idle", reply |-> "none", served |-> "none", took |-> {}, late |-> no]
  BY DEF BridgeInit, Unused
<1> HIDE DEF no
<1>2. IsCall(Unused)
  BY <1>1 DEF IsCall
<1>3. \A n \in BridgeCallIds : manifest.may[n] \subseteq Operations
  BY <1>1, BridgeAssumption DEF Operations
<1>4. Shape
  BY <1>1, <1>2, <1>3 DEF Shape
<1>5. ASSUME NEW n \in BridgeCallIds PROVE CallInv(n)
  BY <1>1, FileNames DEF CallInv, Unheard, FilesBefore, Waiting, Reading, Ended, NoFiles
<1> QED BY <1>4, <1>5 DEF BridgeInv

\* What each call's files hold, and what the host has answered, at each step
\* of the plugin and of the host (proxy.go, host.go), is inductive.
THEOREM BridgeInvariance == BridgeSpec => []BridgeInv
<1>1. (\E world \in BridgeWorlds : BridgeInit(world)) => BridgeInv
  BY BridgeStart
<1>2. BridgeInv /\ [BridgeNext]_bridgeVars => BridgeInv'
  BY BridgeStep
<1> QED BY <1>1, <1>2, PTL DEF BridgeSpec

\* A call that succeeded gave its whole file to whoever asked for it, and a
\* plugin that waited learns the error the service had; a call that is over on
\* both sides leaves no file, unless the plugin gave up first (proxy.go,
\* host.go): for any calls, manifest and faults.
THEOREM FilesStayKept == BridgeSpec => []FilesAreKept
<1>1. BridgeInv => FilesAreKept
  <2> SUFFICES ASSUME BridgeInv, NEW n \in BridgeCallIds
               PROVE  /\ Whole(bridged[n]) /\ SameError(bridged[n]) /\ KeepsOutput(bridged[n])
                      /\ bridged[n].reply # "method_not_found"
                      /\ bridged[n].at = "over" /\ bridged[n].host = "idle" /\ ~bridged[n].late =>
                           shared[Media(n)] = NoFile /\ shared[Thumb(n)] = NoFile
    BY DEF FilesAreKept, Faithful, Swept
  <2>1. Ended(n) /\ bridged[n].reply # "method_not_found"
    BY DEF BridgeInv, CallInv
  <2> QED BY <2>1 DEF Ended, SameFor, Whole, SameError, KeepsOutput, NoFiles, Upload, Download
<1> QED BY <1>1, BridgeInvariance, PTL

-----------------------------------------------------------------------------
(* A fact about numbers that the next two parts need.                       *)

LEMMA LeastNumber ==
  ASSUME NEW page \in SUBSET Nat, page # {}
  PROVE  Min(page) \in page /\ \A m \in page : Min(page) <= m
<1>1. PICK x \in page : \A y \in page : ~ (<<y, x>> \in OpToRel(<, Nat))
  BY NatLessThanWellFounded, WFMin, Zenon
<1>2. \A y \in page : x <= y
  <2> TAKE y \in page
  <2>1. ~ (y < x)
    BY <1>1, Zenon DEF OpToRel
  <2> QED BY <2>1
<1> QED BY <1>2 DEF Min

-----------------------------------------------------------------------------
(* TelegramBackup: the invariant.                                          *)

IsRow(row) ==
  row = [chat |-> row.chat, messages |-> row.messages, count |-> row.count, top |-> row.top,
         whole |-> row.whole, torn |-> row.torn]
IsOrder(new) ==
  new = [cmd |-> new.cmd, at |-> new.at, queue |-> new.queue, id |-> new.id, offset |-> new.offset,
         file |-> new.file]
BackupForm ==
  /\ chats = [c \in DOMAIN chats |-> chats[c]]
  /\ \A c \in DOMAIN chats :
       /\ chats[c] = [kind |-> chats[c].kind, held |-> chats[c].held, last |-> chats[c].last]
       /\ chats[c].last \in Nat /\ DOMAIN chats[c].held \subseteq 1 .. chats[c].last
  /\ order # NoOrder => IsOrder(order)

\* What a backup holds has no holes and is as much as a restore accepts.
RowInv(row) ==
  /\ IsRow(row) /\ row.chat \in DOMAIN chats /\ IsFiniteSet(row.messages)
  /\ row.top \in Nat /\ row.top <= chats[row.chat].last
  /\ ~row.torn =>
       /\ row.count \in {0, Cardinality(row.messages)} /\ Cardinality(row.messages) <= messageLimit
       /\ \A m \in row.messages, k \in Lasting(row) : k > m => k \in row.messages
RowsInv == \A id \in DOMAIN backups : RowInv(backups[id])

\* The backup at work has all that lasts down to its offset.
Copies(row) ==
  /\ ~row.torn /\ row.count = 0
  /\ order.offset \in Nat
  /\ IF order.offset = 0 THEN row.messages = {}
     ELSE \A k \in Lasting(row) : k >= order.offset => k \in row.messages
DocumentInv(doc) == doc.chat \in DOMAIN chats /\ IsFiniteSet(doc.messages)
OrderInv ==
  order # NoOrder =>
    /\ order.cmd \in Copying => order.queue \subseteq DOMAIN chats
    /\ order.cmd \in Copying /\ order.at \in {"page", "count"} =>
         order.id \in DOMAIN backups /\ Copies(backups[order.id])
    /\ order.cmd = "restore" => \A d \in order.queue : DocumentInv(d.doc)
ArchivesInv ==
  \A a \in archives : \A d \in a.documents :
    DocumentInv(d.doc) /\ (~a.torn => Valid(d.doc))
BackupInv == BackupForm /\ RowsInv /\ OrderInv /\ ArchivesInv

-----------------------------------------------------------------------------
(* Pages.                                                                  *)

LEMMA HeldIsFinite ==
  ASSUME BackupForm, NEW c \in DOMAIN chats
  PROVE  DOMAIN chats[c].held \subseteq Nat \ {0} /\ IsFiniteSet(DOMAIN chats[c].held)
<1>1. /\ DOMAIN chats[c].held \in SUBSET (1 .. chats[c].last) /\ chats[c].last \in Nat
  BY DEF BackupForm
<1>2. ASSUME NEW b \in Nat  PROVE IsFiniteSet(1 .. b)
  BY FS_Interval
<1>3. IsFiniteSet(1 .. chats[c].last)
  BY <1>1, <1>2
<1> QED BY <1>1, <1>3, FS_Subset

\* Whatever is newer than a message of the page is in it, or above the offset.
LEMMA FetchedFromTop ==
  ASSUME BackupForm, NEW c \in DOMAIN chats, NEW offset, NEW limit \in Nat,
         NEW m \in Fetched(c, offset, limit), NEW k \in Below(c, offset), k > m
  PROVE  k \in Fetched(c, offset, limit)
<1> DEFINE below == Below(c, offset)
           above(j) == {i \in below : i > j}
<1>1. below \subseteq Nat /\ IsFiniteSet(below) /\ m \in below
  <2>1. below \in SUBSET DOMAIN chats[c].held
    BY DEF Below
  <2> QED BY <2>1, HeldIsFinite, FS_Subset DEF Fetched
<1>2. above(k) \in SUBSET above(m) /\ above(m) \in SUBSET below
  BY <1>1
<1>3. IsFiniteSet(above(m)) /\ IsFiniteSet(above(k)) /\ Cardinality(above(k)) <= Cardinality(above(m))
  BY <1>1, <1>2, FS_Subset
<1>4. Cardinality(above(m)) < limit
  BY DEF Fetched
<1>5. Cardinality(above(k)) \in Nat /\ Cardinality(above(m)) \in Nat
  BY <1>3, FS_CardinalityType
<1>6. Cardinality(above(k)) < limit
  BY <1>3, <1>4, <1>5
<1> QED BY <1>6 DEF Fetched

\* A page has no more messages than were asked for.
LEMMA PageIsLimited ==
  ASSUME BackupForm, NEW c \in DOMAIN chats, NEW offset, NEW limit \in Nat
  PROVE  /\ IsFiniteSet(Page(c, offset, limit)) /\ Cardinality(Page(c, offset, limit)) <= limit
         /\ Page(c, offset, limit) \subseteq Nat \ {0}
<1> DEFINE below == Below(c, offset)
           fetched == Fetched(c, offset, limit)
           page == Page(c, offset, limit)
<1>1. below \subseteq Nat \ {0} /\ IsFiniteSet(below) /\ fetched \in SUBSET below /\ page \in SUBSET fetched
  <2>1. below \in SUBSET DOMAIN chats[c].held
    BY DEF Below
  <2> QED BY <2>1, HeldIsFinite, FS_Subset DEF Fetched, Page
<1>2. IsFiniteSet(fetched) /\ IsFiniteSet(page) /\ Cardinality(page) <= Cardinality(fetched)
  BY <1>1, FS_Subset
<1>3. Cardinality(page) \in Nat /\ Cardinality(fetched) \in Nat
  BY <1>2, FS_CardinalityType
<1>4. CASE fetched = {}
  BY <1>2, <1>3, <1>4, <1>1, FS_EmptySet
<1>5. CASE fetched # {}
  <2>1. PICK m \in fetched : \A k \in fetched : m <= k
    BY <1>1, <1>5, LeastNumber
  <2> DEFINE above == {k \in below : k > m}
  <2>2. Cardinality(above) < limit
    BY DEF Fetched
  <2>3. fetched \ {m} \in SUBSET above
    BY <1>1, <2>1
  <2>4. IsFiniteSet(above)
    BY <1>1, FS_Subset
  <2>5. Cardinality(fetched \ {m}) <= Cardinality(above) /\ Cardinality(above) \in Nat
    BY <2>3, <2>4, FS_Subset, FS_CardinalityType
  <2>6. Cardinality(fetched \ {m}) = Cardinality(fetched) - 1
    BY <1>2, <2>1, FS_RemoveElement
  <2> QED BY <1>1, <1>2, <1>3, <2>2, <2>5, <2>6
<1> QED BY <1>4, <1>5

-----------------------------------------------------------------------------
(* What stays when the chats change, and when the tables do.               *)

\* Messages come with new numbers, and go.
Moves ==
  /\ DOMAIN chats' = DOMAIN chats
  /\ \A c \in DOMAIN chats :
       /\ chats'[c].last \in Nat /\ chats[c].last <= chats'[c].last
       /\ \A m \in Text(c)' : m \in Nat /\ (m <= chats[c].last => m \in Text(c))

LEMMA RowMoves ==
  ASSUME BackupForm, Moves, NEW row, RowInv(row)
  PROVE  RowInv(row)' /\ Lasting(row)' \subseteq Lasting(row)
<1>1. row.chat \in DOMAIN chats /\ row.top \in Nat /\ row.top <= chats[row.chat].last
      /\ chats[row.chat].last \in Nat
  BY DEF RowInv, BackupForm
<1>2. Lasting(row)' \subseteq Lasting(row)
  BY <1>1 DEF Moves, Lasting
<1>3. row.top <= chats'[row.chat].last
  BY <1>1 DEF Moves
<1> QED BY <1>1, <1>2, <1>3 DEF RowInv, Moves

LEMMA RowStays ==
  ASSUME chats' = chats, NEW row
  PROVE  (RowInv(row)' <=> RowInv(row)) /\ Lasting(row)' = Lasting(row)
BY DEF RowInv, Lasting, Text

\* The chats change and nothing else.
LEMMA ChatsStep ==
  ASSUME BackupInv, Moves, BackupForm', UNCHANGED <<tables, order, archives>>
  PROVE  BackupInv'
<1>1. backups' = backups /\ order' = order /\ archives' = archives /\ DOMAIN chats' = DOMAIN chats
  BY DEF tables, Moves
<1>2. RowsInv'
  BY <1>1, RowMoves DEF BackupInv, RowsInv
<1>3. ArchivesInv'
  BY <1>1 DEF BackupInv, ArchivesInv, DocumentInv, Valid, DecodedCount
<1>4. ASSUME NEW row, RowInv(row), Copies(row) PROVE Copies(row)'
  BY <1>1, <1>4, RowMoves DEF BackupInv, Copies
<1>5. OrderInv'
  BY <1>1, <1>4 DEF BackupInv, RowsInv, OrderInv, DocumentInv
<1> QED BY <1>2, <1>3, <1>5 DEF BackupInv

LEMMA MessageComesStep ==
  ASSUME BackupInv, NEW c \in DOMAIN chats, MessageComes(c) PROVE BackupInv'
<1>1. PICK kind \in {"text", "service"} :
        LET chat == chats[c]
            new == chat.last + 1
        IN  chats' = [chats EXCEPT ![c] = [kind |-> chat.kind, last |-> new,
              held |-> [m \in DOMAIN chat.held \cup {new} |-> IF m = new THEN kind ELSE chat.held[m]]]]
  BY DEF MessageComes
<1> DEFINE chat == chats[c]
           new == chat.last + 1
           held == [m \in DOMAIN chat.held \cup {new} |-> IF m = new THEN kind ELSE chat.held[m]]
<1>2. BackupForm
  BY DEF BackupInv
<1>7. chats' = [chats EXCEPT ![c] = [kind |-> chat.kind, last |-> new, held |-> held]]
  BY <1>1
<1>8. chat = [kind |-> chat.kind, held |-> chat.held, last |-> chat.last]
      /\ chats = [b \in DOMAIN chats |-> chats[b]]
  BY <1>2 DEF BackupForm
<1> HIDE DEF held, new, chat
<1>3. /\ DOMAIN chats' = DOMAIN chats /\ chats' = [b \in DOMAIN chats' |-> chats'[b]]
      /\ \A b \in DOMAIN chats : b # c => chats'[b] = chats[b]
      /\ chats'[c] = [kind |-> chat.kind, held |-> held, last |-> new]
  BY <1>7, <1>8
<1>4. new \in Nat /\ new > chats[c].last /\ DOMAIN held \subseteq 1 .. new
      /\ \A m \in DOMAIN held : m # new => m \in DOMAIN chats[c].held /\ held[m] = chats[c].held[m]
  BY <1>2 DEF BackupForm, held, new, chat
<1>5. BackupForm'
  <2>1. order' = order
    BY DEF MessageComes
  <2>2. \A b \in DOMAIN chats' :
          /\ chats'[b] = [kind |-> chats'[b].kind, held |-> chats'[b].held, last |-> chats'[b].last]
          /\ chats'[b].last \in Nat /\ DOMAIN chats'[b].held \subseteq 1 .. chats'[b].last
    BY <1>2, <1>3, <1>4 DEF BackupForm
  <2> QED BY <1>2, <1>3, <2>1, <2>2 DEF BackupForm, IsOrder
<1>6. Moves
  BY <1>2, <1>3, <1>4 DEF BackupForm, Moves, Text, chat
<1> QED BY <1>5, <1>6, ChatsStep DEF MessageComes

LEMMA MessageGoesStep ==
  ASSUME BackupInv, NEW c \in DOMAIN chats, MessageGoes(c) PROVE BackupInv'
<1>1. PICK gone \in DOMAIN chats[c].held :
        chats' = [chats EXCEPT ![c] = [chats[c] EXCEPT !.held =
          [m \in DOMAIN chats[c].held \ {gone} |-> chats[c].held[m]]]]
  BY DEF MessageGoes
<1> DEFINE held == [m \in DOMAIN chats[c].held \ {gone} |-> chats[c].held[m]]
<1>7. chats' = [chats EXCEPT ![c] = [chats[c] EXCEPT !.held = held]]
  BY <1>1
<1>2. BackupForm
  BY DEF BackupInv
<1>8. chats[c] = [kind |-> chats[c].kind, held |-> chats[c].held, last |-> chats[c].last]
      /\ chats = [b \in DOMAIN chats |-> chats[b]]
  BY <1>2 DEF BackupForm
<1> HIDE DEF held
<1>9. [chats[c] EXCEPT !.held = held] = [kind |-> chats[c].kind, held |-> held, last |-> chats[c].last]
  BY <1>8
<1>3. /\ DOMAIN chats' = DOMAIN chats /\ chats' = [b \in DOMAIN chats' |-> chats'[b]]
      /\ \A b \in DOMAIN chats : b # c => chats'[b] = chats[b]
      /\ chats'[c] = [kind |-> chats[c].kind, held |-> held, last |-> chats[c].last]
  BY <1>7, <1>8, <1>9
<1>4. DOMAIN held \subseteq DOMAIN chats[c].held /\ \A m \in DOMAIN held : held[m] = chats[c].held[m]
  BY DEF held
<1>5. BackupForm'
  BY <1>2, <1>3, <1>4 DEF BackupForm, MessageGoes, IsOrder
<1>6. Moves
  BY <1>2, <1>3, <1>4 DEF BackupForm, Moves, Text
<1> QED BY <1>5, <1>6, ChatsStep DEF MessageGoes

-----------------------------------------------------------------------------
(* The commands leave the chats alone.                                     *)

LEMMA TablesStep ==
  ASSUME BackupInv, ChatsSame, \A id \in DOMAIN backups' : RowInv(backups'[id]),
         order' # NoOrder => IsOrder(order'), OrderInv', ArchivesInv'
  PROVE  BackupInv'
<1>1. chats' = chats
  BY DEF ChatsSame
<1>2. RowsInv'
  BY <1>1, RowStays DEF RowsInv
<1>3. BackupForm'
  BY <1>1 DEF BackupInv, BackupForm, IsOrder
<1> QED BY <1>2, <1>3 DEF BackupInv

LEMMA ArchivesStay ==
  ASSUME BackupInv, ChatsSame, archives' = archives PROVE ArchivesInv'
BY DEF BackupInv, ChatsSame, ArchivesInv, DocumentInv, Valid, DecodedCount

\* A command that has nothing under way.
Resting(new) ==
  new # NoOrder =>
    /\ IsOrder(new) /\ ~(new.cmd \in Copying /\ new.at \in {"page", "count"})
    /\ new.cmd \in Copying => new.queue \subseteq DOMAIN chats
    /\ new.cmd = "restore" => \A d \in new.queue : DocumentInv(d.doc)

LEMMA RestingStep ==
  ASSUME BackupInv, ChatsSame, archives' = archives, Resting(order'),
         \A id \in DOMAIN backups' : RowInv(backups'[id])
  PROVE  BackupInv'
<1>1. OrderInv'
  BY DEF Resting, OrderInv, ChatsSame, DocumentInv
<1> QED BY <1>1, ArchivesStay, TablesStep DEF Resting

LEMMA FreeStep ==
  ASSUME BackupInv, ChatsSame, archives' = archives, Free,
         \A id \in DOMAIN backups' : RowInv(backups'[id])
  PROVE  BackupInv'
BY RestingStep DEF Resting, Free

LEMMA RowsAre == ASSUME BackupInv, backups' = backups PROVE \A id \in DOMAIN backups' : RowInv(backups'[id])
BY DEF BackupInv, RowsInv

LEMMA TakeStep ==
  ASSUME BackupInv, NEW new, Take(new), Resting(new) PROVE BackupInv'
<1>1. ChatsSame /\ archives' = archives /\ backups' = backups /\ order' = new
  BY DEF Take, tables
<1> QED BY <1>1, RestingStep, RowsAre

\* An order that goes on with other chats or documents.
LEMMA OrderFields ==
  ASSUME BackupInv, order # NoOrder
  PROVE  /\ IsOrder(order)
         /\ \A at : LET new == [order EXCEPT !.at = at] IN
              IsOrder(new) /\ new.at = at /\ new.cmd = order.cmd /\ new.queue = order.queue
              /\ new.id = order.id /\ new.offset = order.offset
         /\ \A queue : LET new == [order EXCEPT !.queue = queue] IN
              IsOrder(new) /\ new.queue = queue /\ new.cmd = order.cmd /\ new.at = order.at
BY DEF BackupInv, BackupForm, IsOrder

LEMMA FailedStep ==
  ASSUME BackupInv, order # NoOrder, order.cmd \in Copying, Failed, ChatsSame, archives' = archives,
         \A id \in DOMAIN backups' : RowInv(backups'[id])
  PROVE  BackupInv'
<1>1. CASE Free
  BY <1>1, FreeStep
<1>2. CASE Go("create")
  <2>1. IsOrder(order') /\ order'.at = "create" /\ order'.cmd = order.cmd /\ order'.queue = order.queue
    BY <1>2, OrderFields DEF Go
  <2>2. Resting(order')
    BY <2>1 DEF Resting, BackupInv, OrderInv, Copying, Several
  <2> QED BY <2>2, RestingStep
<1> QED BY <1>1, <1>2 DEF Failed

LEMMA Quiet ==
  ASSUME BackupInv, ChatsSame, UNCHANGED <<backups, archives>>, Resting(order') PROVE BackupInv'
BY RestingStep, RowsAre

LEMMA OrderedRests ==
  ASSUME NEW cmd, NEW at, NEW queue, NEW file, at \notin {"page", "count"},
         cmd \in Copying => queue \subseteq DOMAIN chats,
         cmd = "restore" => \A d \in queue : DocumentInv(d.doc)
  PROVE  Resting(Ordered(cmd, at, queue, file))
<1> DEFINE new == Ordered(cmd, at, queue, file)
<1>1. new = [cmd |-> cmd, at |-> at, queue |-> queue, id |-> 0, offset |-> 0, file |-> file]
  BY DEF Ordered
<1> HIDE DEF new
<1>2. IsOrder(new) /\ new.cmd = cmd /\ new.at = at /\ new.queue = queue
  BY <1>1 DEF IsOrder
<1>3. Resting(new)
  BY <1>2 DEF Resting
<1> QED BY <1>3 DEF new

LEMMA CommandsBegin ==
  ASSUME BackupInv, BackupOne \/ BackupMany \/ BackupLinks \/ ClearConfirm \/ Restore
  PROVE  BackupInv'
<1> DEFINE Fresh(cmd, at, queue) ==
      /\ at \notin {"page", "count"}
      /\ cmd \in Copying => queue \subseteq DOMAIN chats
      /\ cmd = "restore" => \A d \in queue : DocumentInv(d.doc)
<1>1. PICK cmd, at, queue, file : Take(Ordered(cmd, at, queue, file)) /\ Fresh(cmd, at, queue)
  <2>1. CASE BackupOne
    <3>1. PICK c \in DOMAIN chats : Take(Ordered("chat", "create", {c}, NoOrder))
      BY <2>1 DEF BackupOne
    <3>2. Fresh("chat", "create", {c})
      OBVIOUS
    <3> QED BY <3>1, <3>2
  <2>2. CASE BackupMany
    <3>1. PICK cmd \in Several : Take(Ordered(cmd, "create",
            {c \in DOMAIN chats : cmd = "all" \/ chats[c].kind = "private"}, NoOrder))
      BY <2>2 DEF BackupMany
    <3>2. Fresh(cmd, "create", {c \in DOMAIN chats : cmd = "all" \/ chats[c].kind = "private"})
      BY DEF Several
    <3> QED BY <3>1, <3>2
  <2>3. CASE BackupLinks
    <3>1. PICK queue : Take(Ordered("links", "save", queue, NoOrder))
      BY <2>3 DEF BackupLinks
    <3>2. Fresh("links", "save", queue)
      BY DEF Copying, Several
    <3> QED BY <3>1, <3>2
  <2>4. CASE ClearConfirm
    <3>1. Fresh("clear", "messages", {})
      OBVIOUS
    <3> QED BY <2>4, <3>1 DEF ClearConfirm
  <2>5. CASE Restore
    <3>1. PICK a \in archives : Take(Ordered("restore", "next", a.documents, a))
      BY <2>5 DEF Restore
    <3>2. Fresh("restore", "next", a.documents)
      BY DEF BackupInv, ArchivesInv, Copying, Several
    <3> QED BY <3>1, <3>2
  <2> QED BY <2>1, <2>2, <2>3, <2>4, <2>5
<1>2. Resting(Ordered(cmd, at, queue, file))
  BY <1>1, OrderedRests
<1> QED BY <1>1, <1>2, TakeStep

-----------------------------------------------------------------------------
(* Rows that are made and filled.                                          *)

LEMMA RowWith ==
  ASSUME BackupInv, NEW id, NEW row, RowInv(row), backups' = WithRow(id, row)
  PROVE  /\ \A i \in DOMAIN backups' : RowInv(backups'[i])
         /\ id \in DOMAIN backups' /\ backups'[id] = row
BY DEF BackupInv, RowsInv, WithRow

LEMMA NewRow ==
  ASSUME NEW chat \in DOMAIN chats, NEW top \in Nat, top <= chats[chat].last, messageLimit \in Nat
  PROVE  RowInv(NewBackup(chat, top)) /\ ~NewBackup(chat, top).torn /\ NewBackup(chat, top).count = 0
         /\ NewBackup(chat, top).messages = {} /\ NewBackup(chat, top).chat = chat
         /\ NewBackup(chat, top).top = top
<1> DEFINE row == NewBackup(chat, top) no == FALSE
<1>1. row = [chat |-> chat, messages |-> {}, count |-> 0, top |-> top, whole |-> no, torn |-> no]
  BY DEF NewBackup
<1> HIDE DEF row, no
<1>2. row.torn = no /\ row.count = 0 /\ row.messages = {} /\ row.chat = chat /\ row.top = top /\ IsRow(row)
  BY <1>1 DEF IsRow
<1>3. RowInv(row)
  BY <1>2, FS_EmptySet DEF RowInv
<1> QED BY <1>2, <1>3 DEF row, no

LEMMA CreateBackupStep == ASSUME BackupInv, CreateBackup PROVE BackupInv'
<1>1. /\ order # NoOrder /\ order.cmd \in Copying /\ order.at = "create" /\ ChatsSame /\ archives' = archives
      /\ order.queue \subseteq DOMAIN chats /\ order.cmd # "restore"
  BY DEF CreateBackup, Running, BackupInv, OrderInv, Copying, Several
<1>2. CASE Free /\ UNCHANGED tables
  BY <1>1, <1>2, FreeStep, RowsAre DEF tables
<1>3. ASSUME NEW c \in order.queue, UNCHANGED tables, order' = [order EXCEPT !.queue = @ \ {c}]
      PROVE  BackupInv'
  <2>1. IsOrder(order') /\ order'.queue = order.queue \ {c} /\ order'.cmd = order.cmd /\ order'.at = order.at
    BY <1>1, <1>3, OrderFields
  <2>2. Resting(order')
    BY <1>1, <2>1 DEF Resting
  <2> QED BY <1>1, <1>3, <2>2, Quiet DEF tables
<1>4. ASSUME NEW c \in order.queue, Insert(NewBackup(c, chats[c].last)),
             order' = [order EXCEPT !.at = "page", !.id = nextBackup, !.offset = 0, !.queue = @ \ {c}]
      PROVE  BackupInv'
  <2> DEFINE row == NewBackup(c, chats[c].last)
  <2>1. c \in DOMAIN chats /\ chats[c].last \in Nat /\ chats[c].last <= chats[c].last
    BY <1>1 DEF BackupInv, BackupForm
  <2>2. RowInv(row) /\ ~row.torn /\ row.count = 0 /\ row.messages = {}
    BY <2>1, NewRow, BackupAssumption
  <2>3. backups' = WithRow(nextBackup, row)
    BY <1>4 DEF Insert
  <2> HIDE DEF row
  <2>4. (\A i \in DOMAIN backups' : RowInv(backups'[i])) /\ nextBackup \in DOMAIN backups'
        /\ backups'[nextBackup] = row
    BY <2>2, <2>3, RowWith
  <2>5. IsOrder(order)
    BY <1>1, OrderFields
  <2>6. /\ IsOrder(order') /\ order'.cmd = order.cmd /\ order'.at = "page" /\ order'.id = nextBackup
        /\ order'.offset = 0 /\ order'.queue = order.queue \ {c}
    BY <1>4, <2>5 DEF IsOrder
  <2>7. OrderInv'
    BY <1>1, <2>2, <2>4, <2>6 DEF OrderInv, Copies, ChatsSame
  <2> QED BY <1>1, <2>4, <2>6, <2>7, TablesStep, ArchivesStay
<1> QED BY <1>1, <1>2, <1>3, <1>4 DEF CreateBackup

\* The row at work, with its messages and the chat it is of.
LEMMA AtWork ==
  ASSUME BackupInv, order # NoOrder, order.cmd \in Copying, order.at \in {"page", "count"}
  PROVE  /\ order.id \in DOMAIN backups /\ RowInv(backups[order.id]) /\ Copies(backups[order.id])
         /\ IsOrder(order) /\ order.queue \subseteq DOMAIN chats /\ order.cmd # "restore"
BY OrderFields DEF BackupInv, RowsInv, OrderInv, Copying, Several

\* A page closes up with what was copied before.
LEMMA CopiedPage ==
  ASSUME BackupInv, NEW row, RowInv(row), Copies(row), NEW limit \in Nat,
         Cardinality(row.messages) + limit <= messageLimit, messageLimit \in Nat, NEW page, NEW full,
         page = Page(row.chat, order.offset, limit), full = [row EXCEPT !.messages = @ \cup page]
  PROVE  /\ RowInv(full) /\ ~full.torn /\ full.count = 0
         /\ page # {} => /\ Min(page) \in Nat \ {0}
                         /\ \A k \in Lasting(full) : k >= Min(page) => k \in full.messages
<1>1. row.chat \in DOMAIN chats /\ BackupForm /\ IsFiniteSet(row.messages) /\ IsRow(row) /\ ~row.torn
      /\ row.count = 0
  BY DEF BackupInv, RowInv, Copies
<1>2. IsFiniteSet(page) /\ Cardinality(page) <= limit /\ page \subseteq Nat \ {0}
  BY <1>1, PageIsLimited
<1>3. /\ full.chat = row.chat /\ full.messages = row.messages \cup page /\ full.count = row.count
      /\ full.top = row.top /\ full.torn = row.torn /\ IsRow(full)
  BY <1>1 DEF IsRow
<1>4. Lasting(full) = Lasting(row) /\ Lasting(row) \subseteq Text(row.chat) /\ Text(row.chat) \subseteq Nat
  BY <1>1, <1>3, HeldIsFinite DEF Lasting, Text
<1>5. IsFiniteSet(full.messages) /\ Cardinality(full.messages) <= messageLimit
  <2>1. /\ IsFiniteSet(row.messages \cup page)
        /\ Cardinality(row.messages \cup page)
             = Cardinality(row.messages) + Cardinality(page) - Cardinality(row.messages \cap page)
    BY <1>1, <1>2, FS_Union
  <2>2. IsFiniteSet(row.messages \cap page)
    BY <1>1, FS_Intersection
  <2>3. /\ Cardinality(row.messages \cap page) \in Nat /\ Cardinality(page) \in Nat
        /\ Cardinality(row.messages) \in Nat
    BY <1>1, <1>2, <2>2, FS_CardinalityType
  <2> QED BY <1>2, <1>3, <2>1, <2>3
<1>6. ASSUME NEW m \in page, NEW k \in Lasting(row), k > m PROVE k \in full.messages
  <2>1. k \in DOMAIN chats[row.chat].held /\ k \in Text(row.chat) /\ k \in Nat
    BY <1>4 DEF Text
  <2>2. CASE k \in Below(row.chat, order.offset)
    <3>1. m \in Fetched(row.chat, order.offset, limit)
      BY DEF Page
    <3>2. k \in Fetched(row.chat, order.offset, limit)
      BY <1>1, <1>6, <2>2, <3>1, FetchedFromTop
    <3> QED BY <1>3, <2>1, <3>2 DEF Page
  <2>3. CASE k \notin Below(row.chat, order.offset)
    BY <1>3, <2>1, <2>3 DEF Below, Copies
  <2> QED BY <2>2, <2>3
<1>7. ASSUME NEW m \in row.messages, NEW k \in Lasting(row), k > m PROVE k \in full.messages
  BY <1>1, <1>3, <1>7 DEF RowInv
<1>8. RowInv(full)
  BY <1>1, <1>3, <1>4, <1>5, <1>6, <1>7 DEF RowInv
<1>9. ASSUME page # {}
      PROVE  Min(page) \in Nat \ {0} /\ \A k \in Lasting(full) : k >= Min(page) => k \in full.messages
  <2>1. Min(page) \in page
    BY <1>2, <1>9, LeastNumber
  <2>2. \A k \in Lasting(row) : k > Min(page) => k \in full.messages
    BY <1>6, <2>1
  <2> QED BY <1>2, <1>3, <1>4, <2>1, <2>2
<1> QED BY <1>1, <1>3, <1>8, <1>9

LEMMA CopyPageStep == ASSUME BackupInv, CopyPage PROVE BackupInv'
<1> DEFINE row == backups[order.id]
           limit == Limit(Cardinality(row.messages))
           page == Page(row.chat, order.offset, limit)
           full == [row EXCEPT !.messages = @ \cup page]
<1>1. /\ order # NoOrder /\ order.cmd \in Copying /\ order.at = "page" /\ ChatsSame /\ archives' = archives
      /\ \/ Go("count") /\ backups' = backups
         \/ /\ page # {} /\ backups' = WithRow(order.id, full)
            /\ order' = [order EXCEPT !.offset = OffsetAfter(page),
                 !.at = IF Cardinality(page) < limit \/ Cardinality(row.messages \cup page) >= messageLimit
                        THEN "count" ELSE "page"]
         \/ Failed /\ backups' = backups
         \/ Free /\ backups' = WithRow(order.id, full)
  BY DEF CopyPage, Running
<1>2. /\ order.id \in DOMAIN backups /\ RowInv(row) /\ Copies(row) /\ IsOrder(order)
      /\ order.queue \subseteq DOMAIN chats /\ order.cmd # "restore"
  BY <1>1, AtWork
<1>3. limit \in Nat /\ Cardinality(row.messages) + limit <= messageLimit /\ messageLimit \in Nat
  <2>1. Cardinality(row.messages) \in Nat /\ Cardinality(row.messages) <= messageLimit
    BY <1>2, FS_CardinalityType DEF RowInv, Copies
  <2> QED BY <2>1, BackupAssumption DEF Limit, Smaller
<1>4. /\ RowInv(full) /\ ~full.torn /\ full.count = 0
      /\ page # {} => Min(page) \in Nat \ {0} /\ \A k \in Lasting(full) : k >= Min(page) => k \in full.messages
  <2> HIDE DEF row, limit
  <2> QED BY <1>2, <1>3, CopiedPage
<1> HIDE DEF row, limit, page, full
<1>5. CASE Go("count") /\ backups' = backups
  <2>1. /\ IsOrder(order') /\ order'.at = "count" /\ order'.cmd = order.cmd /\ order'.queue = order.queue
        /\ order'.id = order.id /\ order'.offset = order.offset
    BY <1>2, <1>5 DEF Go, IsOrder
  <2>2. OrderInv'
    BY <1>1, <1>2, <1>5, <2>1 DEF OrderInv, Copies, ChatsSame, Lasting, Text, row
  <2> QED BY <1>1, <1>5, <2>1, <2>2, RowsAre, TablesStep, ArchivesStay
<1>6. ASSUME backups' = WithRow(order.id, full)
      PROVE  (\A i \in DOMAIN backups' : RowInv(backups'[i])) /\ order.id \in DOMAIN backups'
             /\ backups'[order.id] = full
  BY <1>4, <1>6, RowWith
<1>7. ASSUME page # {}, backups' = WithRow(order.id, full), NEW at \in {"count", "page"},
             order' = [order EXCEPT !.offset = OffsetAfter(page), !.at = at]
      PROVE  BackupInv'
  <2>1. /\ IsOrder(order') /\ order'.at = at /\ order'.cmd = order.cmd /\ order'.queue = order.queue
        /\ order'.id = order.id /\ order'.offset = Min(page)
    BY <1>2, <1>7 DEF OffsetAfter, IsOrder
  <2>2. OrderInv'
    BY <1>1, <1>2, <1>4, <1>6, <1>7, <2>1 DEF OrderInv, Copies, ChatsSame, Lasting, Text
  <2> QED BY <1>1, <1>6, <1>7, <2>1, <2>2, TablesStep, ArchivesStay
<1>8. CASE Failed /\ backups' = backups
  BY <1>1, <1>8, RowsAre, FailedStep
<1>9. CASE Free /\ backups' = WithRow(order.id, full)
  BY <1>1, <1>6, <1>9, FreeStep
<1> QED BY <1>1, <1>5, <1>7, <1>8, <1>9

LEMMA UpdateCountStep == ASSUME BackupInv, UpdateCount PROVE BackupInv'
<1> DEFINE row == backups[order.id]
           yes == TRUE
           counted == [Counted(row) EXCEPT !.whole = yes]
<1>1. /\ order # NoOrder /\ order.cmd \in Copying /\ order.at = "count" /\ ChatsSame /\ archives' = archives
      /\ \/ backups' = WithRow(order.id, counted) /\ Go("create")
         \/ Failed /\ backups' = backups
  BY DEF UpdateCount, Running
<1>2. /\ order.id \in DOMAIN backups /\ RowInv(row) /\ Copies(row) /\ IsOrder(order)
      /\ order.queue \subseteq DOMAIN chats /\ order.cmd # "restore"
  BY <1>1, AtWork
<1>3. RowInv(counted)
  <2> HIDE DEF row, yes
  <2>1. Counted(row) = [chat |-> row.chat, messages |-> row.messages, count |-> Cardinality(row.messages),
                        top |-> row.top, whole |-> row.whole, torn |-> row.torn]
    BY <1>2 DEF RowInv, IsRow, Counted
  <2>2. counted = [chat |-> row.chat, messages |-> row.messages, count |-> Cardinality(row.messages),
                   top |-> row.top, whole |-> yes, torn |-> row.torn]
    BY <2>1
  <2> HIDE DEF counted
  <2>3. /\ IsRow(counted) /\ counted.chat = row.chat /\ counted.messages = row.messages
        /\ counted.count = Cardinality(row.messages) /\ counted.top = row.top /\ counted.torn = row.torn
    BY <2>2 DEF IsRow
  <2>4. Lasting(counted) = Lasting(row)
    BY <2>3 DEF Lasting
  <2> QED BY <1>2, <2>3, <2>4 DEF RowInv
<1> HIDE DEF counted, yes, row
<1>4. CASE backups' = WithRow(order.id, counted) /\ Go("create")
  <2>1. \A i \in DOMAIN backups' : RowInv(backups'[i])
    BY <1>3, <1>4, RowWith
  <2>2. IsOrder(order') /\ order'.at = "create" /\ order'.cmd = order.cmd /\ order'.queue = order.queue
    BY <1>1, <1>2, <1>4, OrderFields DEF Go
  <2>3. Resting(order')
    BY <1>2, <2>2 DEF Resting
  <2> QED BY <1>1, <2>1, <2>3, RestingStep
<1>5. CASE Failed /\ backups' = backups
  BY <1>1, <1>5, RowsAre, FailedStep
<1> QED BY <1>1, <1>4, <1>5

-----------------------------------------------------------------------------
(* The other commands.                                                     *)

LEMMA SaveLinkStep == ASSUME BackupInv, SaveLink PROVE BackupInv'
<1>1. order # NoOrder /\ order.cmd = "links" /\ ChatsSame /\ UNCHANGED <<backups, archives>>
  BY DEF SaveLink, Running
<1>2. CASE Free
  BY <1>1, <1>2, FreeStep, RowsAre
<1>3. ASSUME NEW c, order' = [order EXCEPT !.queue = @ \ {c}] PROVE BackupInv'
  <2>1. IsOrder(order') /\ order'.cmd = "links"
    BY <1>1, <1>3, OrderFields
  <2>2. Resting(order')
    BY <2>1 DEF Resting, Copying, Several
  <2> QED BY <1>1, <2>2, Quiet
<1> QED BY <1>2, <1>3 DEF SaveLink

LEMMA DeleteStep == ASSUME BackupInv, Delete PROVE BackupInv'
<1>1. PICK id \in DOMAIN backups : backups' = Kept(DOMAIN backups \ {id})
  BY DEF Delete
<1>2. order' = NoOrder /\ ChatsSame /\ archives' = archives
  BY DEF Delete
<1>3. \A i \in DOMAIN backups' : RowInv(backups'[i])
  BY <1>1 DEF BackupInv, RowsInv, Kept
<1> QED BY <1>2, <1>3, FreeStep DEF Free

LEMMA ClearTablesStep == ASSUME BackupInv, ClearTables PROVE BackupInv'
<1>1. order # NoOrder /\ order.cmd = "clear" /\ ChatsSame /\ archives' = archives
  BY DEF ClearTables
<1>2. ASSUME NEW at, Go(at) PROVE Resting(order')
  <2>1. IsOrder(order') /\ order'.cmd = "clear"
    BY <1>1, <1>2, OrderFields DEF Go
  <2> QED BY <2>1 DEF Resting, Copying, Several
<1>3. CASE /\ Go("backups")
           /\ backups' = [id \in DOMAIN backups |->
                [backups[id] EXCEPT !.messages = {}, !.torn = @ \/ backups[id].messages # {}]]
  <2>1. ASSUME NEW id \in DOMAIN backups' PROVE RowInv(backups'[id])
    <3> DEFINE row == backups[id]
               torn == row.torn \/ row.messages # {}
               empty == backups'[id]
    <3>1. empty = [row EXCEPT !.messages = {}, !.torn = torn] /\ id \in DOMAIN backups
      BY <1>3
    <3>2. RowInv(row)
      BY <3>1 DEF BackupInv, RowsInv
    <3>3. torn => row.torn \/ row.messages # {}
      OBVIOUS
    <3>4. ~torn => ~row.torn /\ row.messages = {}
      OBVIOUS
    <3> HIDE DEF row, torn, empty
    <3>5. empty = [chat |-> row.chat, messages |-> {}, count |-> row.count, top |-> row.top,
                   whole |-> row.whole, torn |-> torn]
      BY <3>1, <3>2 DEF RowInv, IsRow
    <3>6. /\ IsRow(empty) /\ empty.chat = row.chat /\ empty.messages = {} /\ empty.count = row.count
          /\ empty.top = row.top /\ empty.torn = torn
      BY <3>5 DEF IsRow
    <3>7. RowInv(empty)
      BY <3>2, <3>4, <3>6, FS_EmptySet DEF RowInv
    <3> QED BY <3>7 DEF empty
  <2> QED BY <1>1, <1>2, <1>3, <2>1, RestingStep
<1>4. CASE Go("links") /\ backups' = Kept({})
  <2>1. \A id \in DOMAIN backups' : RowInv(backups'[id])
    BY <1>4 DEF Kept
  <2> QED BY <1>1, <1>2, <1>4, <2>1, RestingStep
<1>5. CASE Free /\ backups' = backups
  BY <1>1, <1>5, FreeStep, RowsAre
<1> QED BY <1>3, <1>4, <1>5 DEF ClearTables

LEMMA SentStep ==
  ASSUME BackupInv, NEW ids \in SUBSET DOMAIN backups, NEW linked, Sent(ids, linked) PROVE BackupInv'
<1> DEFINE a == Archive(ids, linked)
<1>1. /\ order = NoOrder /\ order' = order /\ backups' = backups /\ ChatsSame
      /\ archives' = archives \cup {a}
  BY DEF Sent, tables
<1>2. ASSUME NEW d \in a.documents PROVE DocumentInv(d.doc) /\ (~a.torn => Valid(d.doc))
  <2>1. PICK id \in ids : d = [doc |-> Document(id), id |-> id]
    BY DEF Archive
  <2> DEFINE row == backups[id]
             doc == d.doc
  <2>2. RowInv(row) /\ doc = [chat |-> row.chat, messages |-> row.messages, count |-> row.count]
    BY <2>1 DEF BackupInv, RowsInv, Document
  <2>3. ~a.torn => ~row.torn
    BY DEF Archive
  <2> HIDE DEF row, doc, a
  <2>4. doc.chat = row.chat /\ doc.messages = row.messages /\ doc.count = row.count
    BY <2>2
  <2>5. DocumentInv(doc) /\ (~row.torn => Valid(doc))
    BY <2>2, <2>4 DEF RowInv, DocumentInv, Valid, DecodedCount
  <2> QED BY <2>3, <2>5 DEF doc
<1> HIDE DEF a
<1>3. ArchivesInv'
  BY <1>1, <1>2 DEF BackupInv, ArchivesInv, ChatsSame, DocumentInv, Valid, DecodedCount
<1>4. OrderInv'
  BY <1>1 DEF OrderInv
<1> QED BY <1>1, <1>3, <1>4, RowsAre, TablesStep

LEMMA RestoreLinksStep == ASSUME BackupInv, RestoreLinks PROVE BackupInv'
BY FreeStep, RowsAre DEF RestoreLinks

LEMMA InterruptedStep == ASSUME BackupInv, Interrupted PROVE BackupInv'
BY FreeStep, RowsAre DEF Interrupted, tables

\* What is imported can be exported again.
LEMMA ImportedRow ==
  ASSUME BackupInv, NEW doc, DocumentInv(doc), Valid(doc), messageLimit \in Nat,
         NEW row, row = NewBackup(doc.chat, 0), NEW full, full = [row EXCEPT !.messages = doc.messages]
  PROVE  RowInv(row) /\ RowInv(full) /\ RowInv(Counted(full))
<1>1. doc.chat \in DOMAIN chats /\ IsFiniteSet(doc.messages) /\ Cardinality(doc.messages) <= messageLimit
      /\ chats[doc.chat].last \in Nat
  BY DEF DocumentInv, Valid, BackupInv, BackupForm
<1>2. RowInv(row) /\ ~row.torn /\ row.count = 0 /\ row.chat = doc.chat /\ row.top = 0
  BY <1>1, NewRow
<1>3. IsRow(row)
  BY <1>2 DEF RowInv
<1>4. /\ IsRow(full) /\ full.messages = doc.messages /\ full.count = 0 /\ full.chat = doc.chat
      /\ full.top = 0 /\ full.torn = row.torn
  BY <1>2, <1>3 DEF IsRow
<1> DEFINE counted == Counted(full)
<1>9. counted = [chat |-> full.chat, messages |-> full.messages, count |-> Cardinality(full.messages),
                 top |-> full.top, whole |-> full.whole, torn |-> full.torn]
  <2>1. counted = [full EXCEPT !.count = Cardinality(full.messages)]
    BY DEF Counted
  <2> HIDE DEF counted
  <2> QED BY <1>4, <2>1 DEF IsRow
<1> HIDE DEF counted
<1>5. /\ IsRow(counted) /\ counted.messages = doc.messages /\ counted.count = Cardinality(doc.messages)
      /\ counted.chat = doc.chat /\ counted.top = 0 /\ counted.torn = row.torn
  BY <1>4, <1>9 DEF IsRow
<1>6. Lasting(full) = {} /\ Lasting(counted) = {}
  BY <1>1, <1>4, <1>5, HeldIsFinite DEF Lasting, Text, BackupInv
<1>7. RowInv(full) /\ RowInv(counted)
  BY <1>1, <1>2, <1>4, <1>5, <1>6 DEF RowInv
<1> QED BY <1>2, <1>7 DEF counted

LEMMA ImportNextStep == ASSUME BackupInv, ImportNext PROVE BackupInv'
<1>1. order # NoOrder /\ order.cmd = "restore" /\ order.at = "next"
  BY DEF ImportNext, Running
<1>2. PICK d \in order.queue :
        LET row == NewBackup(d.doc.chat, 0)
            full == [row EXCEPT !.messages = d.doc.messages]
        IN  /\ ChatsSame /\ archives' = archives /\ order' = [order EXCEPT !.queue = @ \ {d}]
            /\ \/ backups' = backups
               \/ Valid(d.doc) /\ (Insert(Counted(full)) \/ Insert(row) \/ Insert(full))
  BY DEF ImportNext, ImportDocument, tables
<1> DEFINE row == NewBackup(d.doc.chat, 0)
           full == [row EXCEPT !.messages = d.doc.messages]
<1>3. \A e \in order.queue : DocumentInv(e.doc)
  BY <1>1 DEF BackupInv, OrderInv
<1>4. Resting(order')
  <2>1. IsOrder(order') /\ order'.queue = order.queue \ {d} /\ order'.cmd = "restore"
    BY <1>1, <1>2, OrderFields
  <2> QED BY <1>3, <2>1 DEF Resting, Copying, Several
<1>5. ASSUME Valid(d.doc) PROVE RowInv(row) /\ RowInv(full) /\ RowInv(Counted(full))
  BY <1>3, <1>5, ImportedRow, BackupAssumption
<1>6. ASSUME NEW new, RowInv(new), Insert(new) PROVE BackupInv'
  <2>1. \A i \in DOMAIN backups' : RowInv(backups'[i])
    BY <1>6, RowWith DEF Insert
  <2> QED BY <1>2, <1>4, <2>1, RestingStep
<1>7. CASE backups' = backups
  BY <1>2, <1>4, <1>7, Quiet
<1> HIDE DEF row, full
<1>8. Valid(d.doc) /\ (Insert(Counted(full)) \/ Insert(row) \/ Insert(full)) => BackupInv'
  BY <1>5, <1>6
<1> QED BY <1>2, <1>7, <1>8 DEF row, full

-----------------------------------------------------------------------------
(* TelegramBackup: the theorems.                                           *)

LEMMA BackupStart == ASSUME NEW world \in BackupWorlds, BackupInit(world) PROVE BackupInv
<1>1. BackupForm
  <2>1. /\ chats = [c \in DOMAIN chats |->
             [kind |-> chats[c].kind, held |-> chats[c].held, last |-> chats[c].last]]
        /\ \A c \in DOMAIN chats :
             chats[c].last \in Nat /\ DOMAIN chats[c].held \subseteq 1 .. chats[c].last
    BY BackupAssumption, Zenon DEF BackupInit
  <2>2. chats = [c \in DOMAIN chats |-> chats[c]]
    BY <2>1
  <2>3. \A c \in DOMAIN chats :
          chats[c] = [kind |-> chats[c].kind, held |-> chats[c].held, last |-> chats[c].last]
    BY <2>1
  <2> QED BY <2>1, <2>2, <2>3 DEF BackupInit, BackupForm
<1>2. RowsInv /\ OrderInv /\ ArchivesInv
  BY DEF BackupInit, RowsInv, OrderInv, ArchivesInv
<1> QED BY <1>1, <1>2 DEF BackupInv

LEMMA BackupStep == ASSUME BackupInv, [BackupNext]_backupVars PROVE BackupInv'
<1>1. CASE UNCHANGED backupVars
  <2>1. UNCHANGED <<chats, backups, links, nextBackup, order, archives>>
    BY <1>1 DEF backupVars
  <2> QED BY <2>1 DEF BackupInv, BackupForm, IsOrder, RowsInv, RowInv, Lasting, Text, OrderInv, Copies,
            DocumentInv, ArchivesInv, Valid, DecodedCount
<1>2. ASSUME NEW c \in DOMAIN chats, MessageComes(c) \/ MessageGoes(c) PROVE BackupInv'
  BY <1>2, MessageComesStep, MessageGoesStep
<1>3. CASE Export \/ ExportAll
  BY <1>3, SentStep DEF Export, ExportAll
<1> QED BY <1>1, <1>2, <1>3, InterruptedStep, CommandsBegin, CreateBackupStep, CopyPageStep,
         UpdateCountStep, SaveLinkStep, DeleteStep, ClearTablesStep, RestoreLinksStep, ImportNextStep
         DEF BackupNext

\* At every moment the rows of the database, the backup at work, the order it
\* came from and each exported archive fit together (telegrambackup.go):
\* for any chats, limit of messages, order of commands and faults.
THEOREM BackupInvariance == BackupSpec => []BackupInv
<1>1. (\E world \in BackupWorlds : BackupInit(world)) => BackupInv
  BY BackupStart
<1> QED BY <1>1, BackupStep, PTL DEF BackupSpec

\* A backup that no interrupted clear has torn holds every message that lasts and
\* is newer than one it holds, and what is exported of it is what a restore
\* accepts (telegrambackup.go): for any chats, limit, commands, faults and
\* messages that come and go while it is made.
THEOREM BackupsStaySound == BackupSpec => []BackupsAreSound
<1>1. BackupInv => BackupsAreSound
  BY DEF BackupInv, RowsInv, RowInv, ArchivesInv, BackupsAreSound, NoHoles, Restorable
<1> QED BY <1>1, BackupInvariance, PTL

-----------------------------------------------------------------------------
(* Migration: the invariant.                                               *)

AnyFile == [from : Archives \cup {"own"}, n : Nat, whole : BOOLEAN]
WorldInv ==
  /\ {Absent, "own"} \cap Archives = {} /\ Absent \notin AnyFile
  /\ Absent \notin [what : {"convert"}, from : Archives, left : Seq(Parts)]
  /\ \A a \in Archives : migration.archives[a] \subseteq AssetPaths
MigrationForm ==
  /\ migrated \in [runs : Nat, faults : Nat]
  /\ output \in [Parts -> Archives \cup {Absent}]
  /\ installed \in [Items -> AnyFile \cup {Absent}]
  /\ IsFiniteSet(DOMAIN quarantine)
  /\ \A o \in owned : o.item \in Items /\ o.n \in Nat

\* A conversion has renamed the parts that are not left.
ConvertInv ==
  task # Absent /\ task.what = "convert" =>
    /\ task = [what |-> "convert", from |-> task.from, left |-> task.left] /\ task.from \in Archives
    /\ \/ task.left = <<"assets", "legacy", "session", "config">> /\ Done = {}
       \/ task.left = <<"legacy", "session", "config">> /\ Done = {"assets"}
       \/ task.left = <<"session", "config">> /\ Done = {"assets", "legacy"}
       \/ task.left = <<"config">> /\ Done = {"assets", "legacy", "session"}
\* An import only creates, and no program among the active assets.
Harmless(item) == item \in Items /\ (item[1] = "assets" => ~IsUnsafe(item[2]))
ImportInv ==
  task # Absent /\ task.what = "import" =>
    /\ task = [what |-> "import", from |-> task.from, skip |-> task.skip, group |-> task.group,
               left |-> task.left, at |-> task.at]
    /\ task.from \in Archives /\ task.group \in 1 .. 5
    /\ \A item \in task.left : Harmless(item)
    /\ task.at # Absent => Harmless(task.at) /\ installed[task.at] = File(task.from, FALSE)
\* A move that copies has the file twice, the copy maybe in part.
QuarantineInv ==
  task # Absent /\ task.what = "quarantine" =>
    /\ task = [what |-> "quarantine", left |-> task.left, at |-> task.at, to |-> task.to]
    /\ \A p \in task.left : p \in AssetPaths /\ installed[<<"assets", p>>] \in AnyFile
    /\ task.at # Absent =>
         /\ task.at \in Items /\ task.at[1] = "assets" /\ task.at[2] = task.to[1] /\ task.at[2] \notin task.left
         /\ installed[task.at] \in AnyFile
         /\ task.to \in DOMAIN quarantine
         /\ \/ quarantine[task.to] = installed[task.at]
            \/ quarantine[task.to] = [from |-> installed[task.at].from, n |-> installed[task.at].n, whole |-> FALSE]
TaskInv == ConvertInv /\ ImportInv /\ QuarantineInv
MigrationInv == WorldInv /\ MigrationForm /\ TaskInv /\ MigrationIsSound

LEMMA OwnIsFile == ASSUME NEW n \in Nat PROVE Own(n) \in AnyFile /\ Own(n).whole = TRUE /\ Own(n).from = "own"
BY DEF Own, AnyFile

LEMMA OwnedIsItem ==
  ASSUME MigrationInv, NEW o \in owned
  PROVE  o.item \in Items /\ o.n \in Nat /\ Own(o.n) \in AnyFile /\ Own(o.n) # Absent /\ Own(o.n).from = "own"
<1>1. o.item \in Items /\ o.n \in Nat /\ Absent \notin AnyFile
  BY DEF MigrationInv, MigrationForm, WorldInv
<1>2. Own(o.n) \in AnyFile /\ Own(o.n).from = "own"
  BY <1>1, OwnIsFile
<1> QED BY <1>1, <1>2

LEMMA AssetIsItem == ASSUME NEW p \in AssetPaths PROVE <<"assets", p>> \in Items
BY DEF Items

\* What an import takes of a conversion.
LEMMA GroupIsHarmless ==
  ASSUME WorldInv, NEW a \in Archives, NEW n \in 1 .. 5, NEW skip, NEW item \in ImportGroup(n, a, skip)
  PROVE  Harmless(item)
<1>1. item \in Group(n, a)
  BY DEF ImportGroup
<1>2. CASE n \in {1, 2}
  <2>1. Group(1, a) = {<<"config", "">>} /\ Group(2, a) = {<<"session", "">>}
    BY DEF Group
  <2>2. PICK part \in {"config", "session"} : item = <<part, "">>
    BY <1>1, <1>2, <2>1
  <2>3. item[1] # "assets"
    BY <2>2
  <2>4. item \in Items
    BY <2>2, Zenon DEF Items
  <2> QED BY <2>3, <2>4 DEF Harmless
<1>4. CASE n = 3
  <2>1. PICK p \in Extracted(a) : ~Filtered(p) /\ item = <<"assets", p>>
    BY <1>1, <1>4 DEF Group
  <2>2. p \in AssetPaths
    BY DEF Extracted, Selected, WorldInv
  <2> QED BY <2>1, <2>2 DEF Harmless, Items, Filtered
<1>5. CASE n = 4
  <2>1. PICK p \in migration.archives[a] : item = <<"legacy", p>>
    BY <1>1, <1>5 DEF Group, Preserved
  <2> QED BY <2>1 DEF Harmless, Items, WorldInv
<1>6. CASE n = 5
  <2>1. item = <<"receipt", a>>
    BY <1>1, <1>6 DEF Group
  <2> QED BY <2>1 DEF Harmless, Items
<1> QED BY <1>2, <1>4, <1>5, <1>6

\* There is always a name in quarantine that no file has.
LEMMA AvailableIsNew ==
  ASSUME IsFiniteSet(DOMAIN quarantine), NEW path
  PROVE  Available(path) \notin DOMAIN quarantine /\ Available(path)[1] = path
<1> DEFINE names == DOMAIN quarantine
           count == Cardinality(names)
           free == {n \in 0 .. count : <<path, n>> \notin names}
<1>1. count \in Nat
  BY FS_CardinalityType
<1>2. free # {}
  <2> SUFFICES ASSUME free = {} PROVE FALSE
    OBVIOUS
  <2> DEFINE numbers == 0 .. count
             name == [n \in numbers |-> <<path, n>>]
  <2>1. name \in [numbers -> names]
    OBVIOUS
  <2>2. IsFiniteSet(numbers) /\ Cardinality(numbers) = count + 1 /\ IsFiniteSet(names)
    BY <1>1, FS_Interval
  <2>3. Cardinality(names) < Cardinality(numbers)
    BY <1>1, <2>2
  <2>4. \A i, j \in numbers : name[i] = name[j] => i = j
    OBVIOUS
  <2> HIDE DEF name, names, numbers
  <2> QED BY <2>1, <2>2, <2>3, <2>4, FS_PigeonHole
<1>3. Min(free) \in free
  <2>1. free \in SUBSET Nat
    BY <1>1
  <2> HIDE DEF free
  <2> QED BY <1>2, <2>1, LeastNumber
<1> QED BY <1>3 DEF Available

-----------------------------------------------------------------------------
(* What stays.                                                             *)

LEMMA WorldStays ==
  ASSUME migration' = migration
  PROVE  /\ Archives' = Archives /\ AssetPaths' = AssetPaths /\ Items' = Items /\ AnyFile' = AnyFile
         /\ WorldInv' = WorldInv /\ \A p : IsUnsafe(p)' = IsUnsafe(p)
         /\ \A item : Harmless(item)' = Harmless(item)
BY DEF Archives, AssetPaths, Items, AnyFile, WorldInv, IsUnsafe, Harmless

LEMMA Together ==
  ASSUME MigrationInv, migration' = migration, MigrationForm', TaskInv', NothingLeft', OwnIsKept', NothingToRun'
  PROVE  MigrationInv'
BY WorldStays DEF MigrationInv, MigrationIsSound

LEMMA Counting ==
  ASSUME MigrationInv, TaskFault \/ TaskFine \/ (\E new : BeginRun(new))
  PROVE  migrated' \in [runs : Nat, faults : Nat] /\ migrated'.faults \in Nat
<1>1. migrated \in [runs : Nat, faults : Nat]
  BY DEF MigrationInv, MigrationForm
<1> QED BY <1>1 DEF TaskFault, TaskFine, BeginRun

\* The task changes, and no file.
LEMMA QuietStep ==
  ASSUME MigrationInv, Frame, UNCHANGED <<output, installed, quarantine>>, TaskInv', NothingLeft',
         TaskFault \/ TaskFine \/ (\E new : BeginRun(new))
  PROVE  MigrationInv'
<1>1. migration' = migration /\ owned' = owned /\ output' = output /\ installed' = installed
      /\ quarantine' = quarantine
  BY DEF Frame
<1>2. MigrationForm'
  BY <1>1, Counting, WorldStays DEF MigrationInv, MigrationForm
<1>3. OwnIsKept' /\ NothingToRun'
  BY <1>1, WorldStays DEF MigrationInv, MigrationIsSound, OwnIsKept, NothingToRun
<1> QED BY <1>1, <1>2, <1>3, Together

LEMMA NoTask == ASSUME task' = Absent PROVE TaskInv'
BY DEF TaskInv, ConvertInv, ImportInv, QuarantineInv

\* No step but those of a conversion comes between its renames.
LEMMA StillNothingLeft ==
  ASSUME MigrationInv, output' = output, cut' = cut \/ cut',
         task = Absent \/ task.what # "convert" \/ cut'
  PROVE  NothingLeft'
BY DEF MigrationInv, MigrationIsSound, NothingLeft, Done

LEMMA TaskEnds ==
  ASSUME MigrationInv, Killed \/ ImportFails \/ Started PROVE MigrationInv'
<1>1. /\ Frame /\ UNCHANGED <<output, installed, quarantine>> /\ task' = Absent
      /\ (cut' = cut \/ cut') /\ (task = Absent \/ task.what # "convert" \/ cut')
      /\ TaskFault \/ TaskFine \/ (\E new : BeginRun(new))
  BY DEF Killed, ImportFails, Started, Doing, Over
<1> QED BY <1>1, NoTask, StillNothingLeft, QuietStep

LEMMA ConvertBegins == ASSUME MigrationInv, Convert PROVE MigrationInv'
<1>1. PICK a \in Archives : BeginRun([what |-> "convert", from |-> a, left |-> Renames])
  BY DEF Convert
<1>2. /\ Frame /\ UNCHANGED <<output, installed, quarantine>> /\ cut' = cut /\ task = Absent
      /\ task' = [what |-> "convert", from |-> a, left |-> Renames]
      /\ Done = {} /\ migration' = migration
  BY <1>1 DEF Convert, BeginRun, Frame, Done
<1>3. TaskInv'
  BY <1>2, WorldStays DEF TaskInv, ConvertInv, ImportInv, QuarantineInv, Renames, Done
<1> QED BY <1>1, <1>2, <1>3, StillNothingLeft, QuietStep

LEMMA ImportBegins == ASSUME MigrationInv, Import PROVE MigrationInv'
<1> DEFINE from == output["assets"]
<1>1. PICK skip \in BOOLEAN :
        BeginRun([what |-> "import", from |-> from, skip |-> skip, group |-> 1,
                  left |-> ImportGroup(1, from, skip), at |-> Absent])
  BY DEF Import
<1>2. /\ Frame /\ UNCHANGED <<output, installed, quarantine>> /\ cut' = cut /\ task = Absent
      /\ migration' = migration
      /\ task' = [what |-> "import", from |-> from, skip |-> skip, group |-> 1,
                  left |-> ImportGroup(1, from, skip), at |-> Absent]
  BY <1>1 DEF Import, BeginRun, Frame
<1>3. from \in Archives
  BY DEF Import, Converted, Parts, MigrationInv, MigrationForm
<1>4. \A item \in ImportGroup(1, from, skip) : Harmless(item)
  BY <1>3, GroupIsHarmless DEF MigrationInv
<1> HIDE DEF from
<1>5. TaskInv'
  BY <1>2, <1>3, <1>4, WorldStays DEF TaskInv, ConvertInv, ImportInv, QuarantineInv
<1> QED BY <1>1, <1>2, <1>5, StillNothingLeft, QuietStep

\* What is known of a task from what it does.
LEMMA Importing ==
  ASSUME MigrationInv, Doing("import")
  PROVE  /\ task # Absent /\ task.what = "import"
         /\ task = [what |-> "import", from |-> task.from, skip |-> task.skip, group |-> task.group,
                    left |-> task.left, at |-> task.at]
         /\ task.from \in Archives /\ task.group \in 1 .. 5
         /\ \A item \in task.left : Harmless(item)
         /\ task.at # Absent => Harmless(task.at) /\ installed[task.at] = File(task.from, FALSE)
BY DEF Doing, MigrationInv, TaskInv, ImportInv

LEMMA NextGroupStep == ASSUME MigrationInv, NextGroup PROVE MigrationInv'
<1>1. /\ Doing("import") /\ Frame /\ UNCHANGED <<output, installed, quarantine>> /\ cut' = cut
      /\ migration' = migration /\ TaskFine /\ task.at = Absent
      /\ \/ task' = Absent
         \/ /\ task.group # 5
            /\ task' = [task EXCEPT !.group = @ + 1,
                 !.left = ImportGroup(task.group + 1, task.from, task.skip)]
  BY DEF NextGroup, Frame, Over
<1>2. TaskInv'
  <2>1. CASE task' = Absent
    BY <2>1, NoTask
  <2>2. CASE /\ task.group # 5
             /\ task' = [task EXCEPT !.group = @ + 1, !.left = ImportGroup(task.group + 1, task.from, task.skip)]
    <3> DEFINE left == ImportGroup(task.group + 1, task.from, task.skip)
    <3>1. task.group + 1 \in 1 .. 5
      BY <1>1, <2>2, Importing
    <3>2. \A item \in left : Harmless(item)
      BY <1>1, <3>1, Importing, GroupIsHarmless DEF MigrationInv
    <3> HIDE DEF left
    <3>3. task' = [what |-> "import", from |-> task.from, skip |-> task.skip, group |-> task.group + 1,
                   left |-> left, at |-> task.at]
      BY <1>1, <2>2, Importing DEF left
    <3> QED BY <1>1, <3>1, <3>2, <3>3, Importing, WorldStays DEF TaskInv, ConvertInv, ImportInv, QuarantineInv
  <2> QED BY <1>1, <2>1, <2>2
<1> QED BY <1>1, <1>2, Importing, StillNothingLeft, QuietStep

LEMMA HostStartsStep == ASSUME MigrationInv, HostStarts PROVE MigrationInv'
<1>1. /\ BeginRun([what |-> "quarantine", left |-> Suspicious, at |-> Absent, to |-> Absent])
      /\ Frame /\ UNCHANGED <<output, installed, quarantine>> /\ cut' = cut
  BY DEF HostStarts
<1>2. /\ task' = [what |-> "quarantine", left |-> Suspicious, at |-> Absent, to |-> Absent]
      /\ task = Absent /\ migration' = migration /\ installed' = installed
  BY <1>1 DEF BeginRun, Frame
<1>3. \A p \in Suspicious : p \in AssetPaths /\ installed[<<"assets", p>>] \in AnyFile
  BY AssetIsItem DEF Suspicious, MigrationInv, MigrationForm
<1>4. TaskInv'
  BY <1>2, <1>3, WorldStays DEF TaskInv, ConvertInv, ImportInv, QuarantineInv
<1> QED BY <1>1, <1>2, <1>4, StillNothingLeft, QuietStep

-----------------------------------------------------------------------------
(* The conversion's directory.                                             *)

LEMMA OutputStep ==
  ASSUME MigrationInv, Frame, UNCHANGED <<installed, quarantine>>, TaskFault \/ TaskFine, TaskInv', NothingLeft',
         output' \in [Parts -> Archives \cup {Absent}]
  PROVE  MigrationInv'
<1>1. migration' = migration /\ owned' = owned /\ installed' = installed /\ quarantine' = quarantine
  BY DEF Frame
<1>2. MigrationForm'
  BY <1>1, Counting, WorldStays DEF MigrationInv, MigrationForm
<1>3. OwnIsKept' /\ NothingToRun'
  BY <1>1, WorldStays DEF MigrationInv, MigrationIsSound, OwnIsKept, NothingToRun
<1> QED BY <1>1, <1>2, <1>3, Together

LEMMA OutputRemovedStep == ASSUME MigrationInv, OutputRemoved PROVE MigrationInv'
<1>1. /\ Frame /\ UNCHANGED <<installed, quarantine>> /\ TaskFault /\ task' = Absent
      /\ output' = [part \in Parts |-> Absent]
  BY DEF OutputRemoved
<1>2. NothingLeft'
  BY <1>1 DEF NothingLeft, Done
<1> QED BY <1>1, <1>2, NoTask, OutputStep

LEMMA ConvertStepStep == ASSUME MigrationInv, ConvertStep PROVE MigrationInv'
<1>1. /\ Doing("convert") /\ Frame /\ UNCHANGED <<installed, quarantine>> /\ migration' = migration
      /\ Put(Head(task.left)) \/ RollBack(Done)
  BY DEF ConvertStep, Frame, RolledBack
<1>2. /\ task = [what |-> "convert", from |-> task.from, left |-> task.left] /\ task.from \in Archives
      /\ \/ task.left = <<"assets", "legacy", "session", "config">> /\ Done = {}
         \/ task.left = <<"legacy", "session", "config">> /\ Done = {"assets"}
         \/ task.left = <<"session", "config">> /\ Done = {"assets", "legacy"}
         \/ task.left = <<"config">> /\ Done = {"assets", "legacy", "session"}
  BY <1>1 DEF Doing, MigrationInv, TaskInv, ConvertInv
<1>3. output \in [Parts -> Archives \cup {Absent}] /\ Absent \notin Archives
  BY DEF MigrationInv, MigrationForm, WorldInv
<1>4. CASE Put(Head(task.left))
  <2> DEFINE part == Head(task.left)
  <2>1. /\ part \in Parts /\ part \notin Done
        /\ output' = [output EXCEPT ![part] = task.from] /\ TaskFine
    BY <1>2, <1>4 DEF Put, Parts
  <2>2. Done' = Done \cup {part} /\ output' \in [Parts -> Archives \cup {Absent}]
    <3> HIDE DEF part
    <3> QED BY <1>2, <1>3, <2>1 DEF Done
  <2>3. /\ task' = IF Len(task.left) = 1 THEN Absent ELSE [task EXCEPT !.left = Tail(@)]
    BY <1>4 DEF Put
  <2>4. CASE task.left = <<"config">> /\ Done = {"assets", "legacy", "session"}
    <3>1. task' = Absent /\ Done' = Parts
      BY <2>2, <2>3, <2>4 DEF Parts
    <3> QED BY <1>1, <2>1, <2>2, <3>1, NoTask, OutputStep DEF NothingLeft
  <2>5. CASE task.left # <<"config">>
    <3>1. /\ task' = [what |-> "convert", from |-> task.from, left |-> Tail(task.left)]
          /\ \/ Tail(task.left) = <<"legacy", "session", "config">> /\ Done' = {"assets"}
             \/ Tail(task.left) = <<"session", "config">> /\ Done' = {"assets", "legacy"}
             \/ Tail(task.left) = <<"config">> /\ Done' = {"assets", "legacy", "session"}
      <4>1. CASE task.left = <<"assets", "legacy", "session", "config">> /\ Done = {}
        BY <1>2, <2>2, <2>3, <4>1
      <4>2. CASE task.left = <<"legacy", "session", "config">> /\ Done = {"assets"}
        BY <1>2, <2>2, <2>3, <4>2
      <4>3. CASE task.left = <<"session", "config">> /\ Done = {"assets", "legacy"}
        BY <1>2, <2>2, <2>3, <4>3
      <4> QED BY <1>2, <2>5, <4>1, <4>2, <4>3
    <3> DEFINE left == Tail(task.left)
    <3> HIDE DEF left
    <3>2. task'.what = "convert" /\ task'.from = task.from /\ task'.left = left
      BY <3>1 DEF left
    <3>3. TaskInv'
      BY <1>1, <1>2, <3>1, <3>2, WorldStays DEF TaskInv, ConvertInv, ImportInv, QuarantineInv, left
    <3>4. left \in Seq(Parts)
      <4>1. /\ <<"legacy", "session", "config">> \in Seq(Parts) /\ <<"session", "config">> \in Seq(Parts)
            /\ <<"config">> \in Seq(Parts)
        BY DEF Parts
      <4> QED BY <3>1, <4>1 DEF left
    <3>5. task' # Absent
      BY <1>2, <3>1, <3>4 DEF MigrationInv, WorldInv, left
    <3>6. NothingLeft'
      BY <3>2, <3>5 DEF NothingLeft
    <3> QED BY <1>1, <2>1, <2>2, <3>3, <3>6, OutputStep
  <2> QED BY <1>2, <2>4, <2>5
<1>5. CASE RollBack(Done)
  <2>1. task' = Absent /\ TaskFault
    BY <1>5 DEF RollBack, Over
  <2>2. CASE output' = [part \in Parts |-> IF part \in Done THEN Absent ELSE output[part]] /\ cut' = cut
    <3>1. Done' = {} /\ output' \in [Parts -> Archives \cup {Absent}]
      BY <1>3, <2>2 DEF Done
    <3> QED BY <1>1, <2>1, <3>1, NoTask, OutputStep DEF NothingLeft
  <2>3. CASE (\E kept \in Done : output' = [part \in Parts |-> IF part \in Done \ {kept} THEN Absent ELSE output[part]])
             /\ cut' = TRUE
    <3>1. output' \in [Parts -> Archives \cup {Absent}]
      BY <1>3, <2>3
    <3> QED BY <1>1, <2>1, <2>3, <3>1, NoTask, OutputStep DEF NothingLeft
  <2> QED BY <1>5, <2>2, <2>3 DEF RollBack
<1> QED BY <1>1, <1>4, <1>5

-----------------------------------------------------------------------------
(* Files of the installation and of the quarantine.                        *)

LEMMA FilesStep ==
  ASSUME MigrationInv, migration' = migration, output' = output, cut' = cut \/ cut',
         task = Absent \/ task.what # "convert",
         migrated' \in [runs : Nat, faults : Nat], installed' \in [Items -> AnyFile \cup {Absent}],
         IsFiniteSet(DOMAIN quarantine'), \A o \in owned' : o.item \in Items /\ o.n \in Nat,
         TaskInv', OwnIsKept', NothingToRun'
  PROVE  MigrationInv'
<1>1. MigrationForm'
  BY WorldStays DEF MigrationInv, MigrationForm
<1> QED BY <1>1, StillNothingLeft, Together

LEMMA HostCreatesStep == ASSUME MigrationInv, HostCreates PROVE MigrationInv'
<1>1. PICK i \in Items :
        /\ installed[i] = Absent /\ TaskFault
        /\ installed' = [installed EXCEPT ![i] = Own(migrated'.faults)]
        /\ owned' = owned \cup {[item |-> i, n |-> migrated'.faults]}
        /\ UNCHANGED <<migration, output, quarantine, task, cut>>
  BY DEF HostCreates
<1> DEFINE n == migrated'.faults
           file == Own(n)
<1>2. /\ migration' = migration /\ output' = output /\ quarantine' = quarantine /\ task' = task /\ cut' = cut
      /\ migrated' \in [runs : Nat, faults : Nat] /\ n \in Nat
  BY <1>1, Counting
<1>3. file \in AnyFile /\ file.from = "own"
  BY <1>2, OwnIsFile
<1>4. Absent \notin AnyFile /\ installed \in [Items -> AnyFile \cup {Absent}]
      /\ \A a \in Archives : \A whole \in BOOLEAN : File(a, whole) \in AnyFile
  BY DEF MigrationInv, MigrationForm, WorldInv, AnyFile, File
<1>5. installed' = [installed EXCEPT ![i] = file]
  BY <1>1
<1> HIDE DEF file
<1>6. installed'[i] = file /\ \A j \in Items : j # i => installed'[j] = installed[j]
  BY <1>4, <1>5
<1>7. installed' \in [Items -> AnyFile \cup {Absent}]
  BY <1>3, <1>4, <1>5
<1>8. OwnIsKept'
  <2>1. \A o \in owned : o.item \in Items /\ (o.item = i => installed[o.item] # Own(o.n))
    BY <1>1, OwnedIsItem
  <2>2. ASSUME NEW o \in owned
        PROVE  \/ installed'[o.item] = Own(o.n)
               \/ o.item[1] = "assets" /\ \E q \in DOMAIN quarantine : q[1] = o.item[2] /\ quarantine[q] = Own(o.n)
    BY <1>6, <2>1 DEF MigrationInv, MigrationIsSound, OwnIsKept
  <2>3. installed'[i] = Own(n)
    BY <1>6 DEF file
  <2>4. \A o \in owned' : o \in owned \/ (o.item = i /\ o.n = n)
    BY <1>1
  <2> HIDE DEF n
  <2> QED BY <1>2, <2>2, <2>3, <2>4 DEF OwnIsKept, Own
<1>9. NothingToRun'
  BY <1>2, <1>3, <1>6, AssetIsItem, WorldStays DEF MigrationInv, MigrationIsSound, NothingToRun
<1>10. TaskInv'
  <2>1. ConvertInv'
    BY <1>2, WorldStays DEF MigrationInv, TaskInv, ConvertInv, Done
  <2>2. ImportInv'
    <3>1. ASSUME Doing("import") PROVE task.at # Absent => task.at # i
      BY <1>1, <1>4, <3>1, Importing
    <3> QED BY <1>2, <1>6, <3>1, Importing, WorldStays DEF Doing, ImportInv, Harmless, File
  <2>3. QuarantineInv'
    BY <1>1, <1>2, <1>4, <1>6, AssetIsItem, WorldStays DEF MigrationInv, TaskInv, QuarantineInv
  <2> QED BY <2>1, <2>2, <2>3 DEF TaskInv
<1>11. \A o \in owned' : o.item \in Items /\ o.n \in Nat
  BY <1>1, <1>2 DEF MigrationInv, MigrationForm
<1>12. NothingLeft'
  BY <1>2 DEF MigrationInv, MigrationIsSound, NothingLeft, Done
<1>13. MigrationForm'
  BY <1>2, <1>7, <1>11, WorldStays DEF MigrationInv, MigrationForm
<1> QED BY <1>2, <1>8, <1>9, <1>10, <1>12, <1>13, Together

LEMMA ImportFileStep == ASSUME MigrationInv, ImportFile PROVE MigrationInv'
<1>1. PICK item \in task.left :
        /\ Doing("import") /\ task.at = Absent /\ TaskFine /\ Frame
        /\ UNCHANGED <<output, quarantine, cut>>
        /\ \/ task' = [task EXCEPT !.left = @ \ {item}] /\ installed' = installed
           \/ /\ installed[item] = Absent
              /\ task' = [task EXCEPT !.left = @ \ {item}, !.at = item]
              /\ installed' = [installed EXCEPT ![item] = File(task.from, FALSE)]
  BY DEF ImportFile, Exists
<1> DEFINE left == task.left \ {item}
           part == File(task.from, FALSE)
<1>2. /\ migration' = migration /\ output' = output /\ quarantine' = quarantine /\ owned' = owned /\ cut' = cut
      /\ task # Absent /\ task.what = "import" /\ Harmless(item) /\ task.from \in Archives /\ task.group \in 1 .. 5
      /\ \A other \in left : Harmless(other)
  BY <1>1, Importing DEF Frame
<1>3. task = [what |-> "import", from |-> task.from, skip |-> task.skip, group |-> task.group,
              left |-> task.left, at |-> task.at]
  BY <1>1, Importing
<1>4. Absent \notin AnyFile /\ installed \in [Items -> AnyFile \cup {Absent}] /\ part \in AnyFile
      /\ part.from # "own"
  BY <1>2 DEF MigrationInv, MigrationForm, WorldInv, AnyFile, File
<1> HIDE DEF left
<1>5. CASE task' = [task EXCEPT !.left = left] /\ installed' = installed
  <2>1. task' = [what |-> "import", from |-> task.from, skip |-> task.skip, group |-> task.group,
                 left |-> left, at |-> task.at]
    BY <1>3, <1>5
  <2>2. TaskInv'
    BY <1>1, <1>2, <2>1, WorldStays DEF TaskInv, ConvertInv, ImportInv, QuarantineInv
  <2> QED BY <1>1, <1>2, <1>5, <2>2, StillNothingLeft, QuietStep
<1>6. CASE /\ installed[item] = Absent /\ task' = [task EXCEPT !.left = left, !.at = item]
           /\ installed' = [installed EXCEPT ![item] = part]
  <2>1. task' = [what |-> "import", from |-> task.from, skip |-> task.skip, group |-> task.group,
                 left |-> left, at |-> item]
    <3>1. task' = [[task EXCEPT !.left = left] EXCEPT !.at = item]
      BY <1>6
    <3>2. [task EXCEPT !.left = left]
            = [what |-> "import", from |-> task.from, skip |-> task.skip, group |-> task.group,
               left |-> left, at |-> task.at]
      BY <1>3
    <3> QED BY <3>1, <3>2
  <2> HIDE DEF part
  <2>2. /\ item \in Items /\ installed'[item] = part /\ installed' \in [Items -> AnyFile \cup {Absent}]
        /\ \A j \in Items : j # item => installed'[j] = installed[j]
    BY <1>2, <1>4, <1>6 DEF Harmless
  <2>3. TaskInv'
    BY <1>1, <1>2, <2>1, <2>2, WorldStays DEF TaskInv, ConvertInv, ImportInv, QuarantineInv, part, File
  <2>4. OwnIsKept'
    <3>1. \A o \in owned : o.item \in Items /\ (o.item = item => installed[o.item] # Own(o.n))
      BY <1>6, OwnedIsItem
    <3> QED BY <1>2, <2>2, <3>1 DEF MigrationInv, MigrationIsSound, OwnIsKept, Own
  <2>5. NothingToRun'
    BY <1>2, <2>2, AssetIsItem, WorldStays DEF MigrationInv, MigrationIsSound, NothingToRun, Harmless
  <2>6. migrated' \in [runs : Nat, faults : Nat]
    BY <1>1, Counting
  <2>7. IsFiniteSet(DOMAIN quarantine') /\ \A o \in owned' : o.item \in Items /\ o.n \in Nat
    BY <1>2 DEF MigrationInv, MigrationForm
  <2> QED BY <1>2, <2>2, <2>3, <2>4, <2>5, <2>6, <2>7, FilesStep
<1> QED BY <1>1, <1>5, <1>6 DEF left

\* The file an import works on gets its end, or goes.
LEMMA CopyFileStep == ASSUME MigrationInv, CopyFile PROVE MigrationInv'
<1> DEFINE item == task.at
           full == File(task.from, TRUE)
<1>1. /\ Doing("import") /\ item # Absent /\ Frame /\ UNCHANGED <<output, quarantine>>
      /\ \/ /\ installed' = [installed EXCEPT ![item].whole = TRUE] /\ TaskFine
            /\ task' = [task EXCEPT !.at = Absent] /\ cut' = cut
         \/ /\ TaskFault /\ task' = Absent
            /\ \/ installed' = [installed EXCEPT ![item] = Absent] /\ cut' = cut
               \/ installed' = installed /\ cut' = TRUE
  BY DEF CopyFile, Over
<1>2. /\ migration' = migration /\ output' = output /\ quarantine' = quarantine /\ owned' = owned
      /\ task # Absent /\ task.what = "import" /\ Harmless(item) /\ item \in Items
      /\ installed[item] = File(task.from, FALSE) /\ task.from \in Archives
      /\ task.group \in 1 .. 5 /\ \A other \in task.left : Harmless(other)
  BY <1>1, Importing DEF Frame, Harmless
<1>3. task = [what |-> "import", from |-> task.from, skip |-> task.skip, group |-> task.group,
              left |-> task.left, at |-> task.at]
  BY <1>1, Importing
<1>4. Absent \notin AnyFile /\ installed \in [Items -> AnyFile \cup {Absent}] /\ full \in AnyFile
      /\ installed[item].from # "own"
  BY <1>2 DEF MigrationInv, MigrationForm, WorldInv, AnyFile, File
<1>5. migrated' \in [runs : Nat, faults : Nat] /\ (cut' = cut \/ cut')
  BY <1>1, Counting
<1>6. IsFiniteSet(DOMAIN quarantine') /\ \A o \in owned' : o.item \in Items /\ o.n \in Nat
  BY <1>2 DEF MigrationInv, MigrationForm
<1>7. ASSUME NEW new \in {full, Absent}, installed' = [installed EXCEPT ![item] = new], TaskInv'
      PROVE  MigrationInv'
  <2> HIDE DEF item, full
  <2>1. /\ installed'[item] = new /\ installed' \in [Items -> AnyFile \cup {Absent}]
        /\ \A j \in Items : j # item => installed'[j] = installed[j]
    BY <1>2, <1>4, <1>7
  <2>2. OwnIsKept'
    <3>1. \A o \in owned : o.item = item => installed[item] # Own(o.n)
      BY <1>4, OwnedIsItem
    <3> QED BY <1>2, <1>6, <2>1, <3>1 DEF MigrationInv, MigrationIsSound, OwnIsKept, Own
  <2>3. NothingToRun'
    BY <1>2, <2>1, AssetIsItem, WorldStays DEF MigrationInv, MigrationIsSound, NothingToRun, Harmless
  <2> QED BY <1>2, <1>5, <1>6, <1>7, <2>1, <2>2, <2>3, FilesStep
<1>8. CASE installed' = [installed EXCEPT ![item].whole = TRUE] /\ task' = [task EXCEPT !.at = Absent]
  <2> DEFINE yes == TRUE
  <2>1. installed' = [installed EXCEPT ![item] = [installed[item] EXCEPT !.whole = yes]]
    BY <1>8
  <2>2. installed[item] = [from |-> task.from, n |-> 0, whole |-> FALSE]
    BY <1>2 DEF File
  <2> HIDE DEF yes
  <2>3. [installed[item] EXCEPT !.whole = yes] = [from |-> task.from, n |-> 0, whole |-> yes]
    BY <2>2
  <2>4. installed' = [installed EXCEPT ![item] = full]
    BY <2>1, <2>3 DEF yes, File
  <2>5. task' = [what |-> "import", from |-> task.from, skip |-> task.skip, group |-> task.group,
                 left |-> task.left, at |-> Absent]
    BY <1>3, <1>8
  <2>6. TaskInv'
    BY <1>2, <2>5, WorldStays DEF TaskInv, ConvertInv, ImportInv, QuarantineInv
  <2> QED BY <1>7, <2>4, <2>6
<1>9. CASE task' = Absent /\ installed' = [installed EXCEPT ![item] = Absent]
  BY <1>7, <1>9, NoTask
<1>10. CASE task' = Absent /\ installed' = installed /\ cut' = TRUE
  BY <1>1, <1>2, <1>10, NoTask, StillNothingLeft, QuietStep
<1> QED BY <1>1, <1>8, <1>9, <1>10

\* What is known while programs are moved.
LEMMA Moving ==
  ASSUME MigrationInv, Doing("quarantine")
  PROVE  /\ task # Absent /\ task.what = "quarantine"
         /\ task = [what |-> "quarantine", left |-> task.left, at |-> task.at, to |-> task.to]
         /\ \A p \in task.left : p \in AssetPaths /\ installed[<<"assets", p>>] \in AnyFile
         /\ task.at # Absent =>
              /\ task.at \in Items /\ task.at[1] = "assets" /\ task.at[2] = task.to[1] /\ task.at[2] \notin task.left
              /\ installed[task.at] \in AnyFile
              /\ task.to \in DOMAIN quarantine
              /\ \/ quarantine[task.to] = installed[task.at]
                 \/ quarantine[task.to]
                      = [from |-> installed[task.at].from, n |-> installed[task.at].n, whole |-> FALSE]
BY DEF Doing, MigrationInv, TaskInv, QuarantineInv

LEMMA StoredIs ==
  ASSUME MigrationInv, NEW name, NEW file, quarantine' = Stored(name, file)
  PROVE  /\ IsFiniteSet(DOMAIN quarantine') /\ DOMAIN quarantine' = DOMAIN quarantine \cup {name}
         /\ quarantine'[name] = file
         /\ \A q \in DOMAIN quarantine : q # name => quarantine'[q] = quarantine[q]
<1>1. DOMAIN quarantine' = DOMAIN quarantine \cup {name} /\ IsFiniteSet(DOMAIN quarantine)
  BY DEF Stored, MigrationInv, MigrationForm
<1>2. IsFiniteSet(DOMAIN quarantine')
  BY <1>1, FS_AddElement
<1> QED BY <1>1, <1>2 DEF Stored

\* A step of a move: what is taken from the assets is in quarantine by then.
LEMMA MovedStep ==
  ASSUME MigrationInv, Doing("quarantine"), Frame, UNCHANGED output, cut' = cut, TaskFault \/ TaskFine, TaskInv',
         IsFiniteSet(DOMAIN quarantine'),
         NEW item \in Items, NEW file \in AnyFile, installed[item] = file, item[1] = "assets",
         NEW name, name[1] = item[2],
         \/ installed' = installed
         \/ /\ installed' = [installed EXCEPT ![item] = Absent]
            /\ name \in DOMAIN quarantine' /\ quarantine'[name] = file,
         \A q \in DOMAIN quarantine : \A n \in Nat :
           quarantine[q] = Own(n) => q \in DOMAIN quarantine' /\ quarantine'[q] = Own(n)
  PROVE  MigrationInv'
<1>1. /\ migration' = migration /\ owned' = owned /\ output' = output
      /\ task # Absent /\ task.what = "quarantine"
  BY Moving DEF Frame
<1>2. migrated' \in [runs : Nat, faults : Nat]
  BY Counting
<1>3. installed \in [Items -> AnyFile \cup {Absent}] /\ \A o \in owned : o.item \in Items /\ o.n \in Nat
  BY DEF MigrationInv, MigrationForm
<1>4. /\ installed' \in [Items -> AnyFile \cup {Absent}]
      /\ \A j \in Items : j # item => installed'[j] = installed[j]
      /\ \/ installed'[item] = file
         \/ installed'[item] = Absent /\ name \in DOMAIN quarantine' /\ quarantine'[name] = file
  BY <1>3
<1>5. ASSUME NEW o \in owned
      PROVE  \/ installed'[o.item] = Own(o.n)
             \/ o.item[1] = "assets" /\ \E q \in DOMAIN quarantine' : q[1] = o.item[2] /\ quarantine'[q] = Own(o.n)
  <2>1. CASE installed[o.item] = Own(o.n)
    BY <1>3, <1>4, <2>1
  <2>2. CASE o.item[1] = "assets" /\ \E q \in DOMAIN quarantine : q[1] = o.item[2] /\ quarantine[q] = Own(o.n)
    BY <1>3, <2>2
  <2> QED BY <2>1, <2>2 DEF MigrationInv, MigrationIsSound, OwnIsKept
<1>6. OwnIsKept'
  BY <1>1, <1>5 DEF OwnIsKept, Own
<1>7. NothingToRun'
  BY <1>1, <1>4, AssetIsItem, WorldStays DEF MigrationInv, MigrationIsSound, NothingToRun
<1> QED BY <1>1, <1>2, <1>3, <1>4, <1>6, <1>7, FilesStep

LEMMA MoveStep == ASSUME MigrationInv, Move PROVE MigrationInv'
<1>1. PICK p \in task.left :
        LET item == <<"assets", p>>
        IN  /\ Doing("quarantine") /\ task.at = Absent /\ TaskFine /\ Frame /\ UNCHANGED <<output, cut>>
            /\ \/ /\ quarantine' = Stored(Available(p), installed[item])
                  /\ installed' = [installed EXCEPT ![item] = Absent]
                  /\ task' = [task EXCEPT !.left = @ \ {p}]
               \/ /\ quarantine' = Stored(Available(p), [installed[item] EXCEPT !.whole = FALSE])
                  /\ task' = [what |-> "quarantine", left |-> task.left \ {p}, at |-> item, to |-> Available(p)]
                  /\ installed' = installed
  BY DEF Move
<1> DEFINE item == <<"assets", p>>
           file == installed[item]
           name == Available(p)
           no == FALSE
           part == [file EXCEPT !.whole = no]
           left == task.left \ {p}
<1>2. /\ migration' = migration /\ output' = output /\ owned' = owned /\ cut' = cut
      /\ task # Absent /\ task.what = "quarantine" /\ p \in AssetPaths /\ file \in AnyFile
      /\ \A other \in left : other \in AssetPaths /\ installed[<<"assets", other>>] \in AnyFile
      /\ p \notin left /\ \A other \in left : <<"assets", other>> # item
  BY <1>1, Moving DEF Frame
<1>3. item \in Items /\ item[1] = "assets" /\ item[2] = p
  BY <1>2, AssetIsItem
<1>4. IsFiniteSet(DOMAIN quarantine) /\ installed \in [Items -> AnyFile \cup {Absent}]
  BY DEF MigrationInv, MigrationForm
<1>5. name \notin DOMAIN quarantine /\ name[1] = p
  BY <1>4, AvailableIsNew
<1>6. task = [what |-> "quarantine", left |-> task.left, at |-> task.at, to |-> task.to]
  BY <1>1, Moving
<1>7. part = [from |-> file.from, n |-> file.n, whole |-> no]
  <2> HIDE DEF file, no
  <2> QED BY <1>2 DEF AnyFile
<1> HIDE DEF item, name, left, part, no
<1>8. CASE /\ quarantine' = Stored(name, file) /\ installed' = [installed EXCEPT ![item] = Absent]
           /\ task' = [task EXCEPT !.left = left]
  <2> HIDE DEF file
  <2>1. task' = [what |-> "quarantine", left |-> left, at |-> task.at, to |-> task.to]
    BY <1>6, <1>8
  <2>2. \A other \in left : other \in AssetPaths /\ installed'[<<"assets", other>>] \in AnyFile
    BY <1>2, <1>3, <1>4, <1>8, AssetIsItem
  <2>3. TaskInv'
    BY <1>1, <1>2, <2>1, <2>2, WorldStays DEF TaskInv, ConvertInv, ImportInv, QuarantineInv
  <2>4. /\ IsFiniteSet(DOMAIN quarantine') /\ name \in DOMAIN quarantine' /\ quarantine'[name] = file
        /\ \A q \in DOMAIN quarantine : q \in DOMAIN quarantine' /\ quarantine'[q] = quarantine[q]
    <3>1. quarantine' = Stored(name, file)
      BY <1>8
    <3>2. DOMAIN quarantine' = DOMAIN quarantine \cup {name}
      BY <3>1, StoredIs
    <3>3. quarantine'[name] = file
      BY <3>1, StoredIs
    <3>4. \A q \in DOMAIN quarantine : q # name => quarantine'[q] = quarantine[q]
      BY <3>1, StoredIs
    <3>5. IsFiniteSet(DOMAIN quarantine')
      BY <3>1, StoredIs
    <3> QED BY <1>5, <3>2, <3>3, <3>4, <3>5
  <2>5. installed[item] = file /\ name[1] = item[2]
    BY <1>3, <1>5 DEF file
  <2>6. \A q \in DOMAIN quarantine : \A n \in Nat :
          quarantine[q] = Own(n) => q \in DOMAIN quarantine' /\ quarantine'[q] = Own(n)
    BY <2>4
  <2>7. UNCHANGED output /\ (TaskFault \/ TaskFine) /\ Doing("quarantine") /\ Frame
    BY <1>1
  <2> QED BY <1>2, <1>3, <1>8, <2>3, <2>4, <2>5, <2>6, <2>7, MovedStep
<1>9. CASE /\ quarantine' = Stored(name, part) /\ installed' = installed
           /\ task' = [what |-> "quarantine", left |-> left, at |-> item, to |-> name]
  <2> HIDE DEF file
  <2>2. /\ IsFiniteSet(DOMAIN quarantine') /\ name \in DOMAIN quarantine' /\ quarantine'[name] = part
        /\ \A q \in DOMAIN quarantine : q \in DOMAIN quarantine' /\ quarantine'[q] = quarantine[q]
    <3>1. quarantine' = Stored(name, part)
      BY <1>9
    <3>2. DOMAIN quarantine' = DOMAIN quarantine \cup {name}
      BY <3>1, StoredIs
    <3>3. quarantine'[name] = part
      BY <3>1, StoredIs
    <3>4. \A q \in DOMAIN quarantine : q # name => quarantine'[q] = quarantine[q]
      BY <3>1, StoredIs
    <3>5. IsFiniteSet(DOMAIN quarantine')
      BY <3>1, StoredIs
    <3> QED BY <1>5, <3>2, <3>3, <3>4, <3>5
  <2>3. TaskInv'
    BY <1>1, <1>2, <1>3, <1>5, <1>7, <1>9, <2>2, WorldStays
       DEF TaskInv, ConvertInv, ImportInv, QuarantineInv, file, no
  <2> QED BY <1>1, <1>2, <1>3, <1>5, <1>9, <2>2, <2>3, MovedStep DEF file
<1> QED BY <1>1, <1>8, <1>9 DEF item, name, left, part, no

LEMMA MoveCopiesStep == ASSUME MigrationInv, MoveCopies PROVE MigrationInv'
<1> DEFINE item == task.at
           file == installed[item]
           name == task.to
<1>1. /\ Doing("quarantine") /\ item # Absent /\ Frame /\ output' = output /\ cut' = cut
      /\ TaskFault \/ TaskFine
      /\ \/ /\ quarantine[name] = file /\ installed' = [installed EXCEPT ![item] = Absent]
            /\ quarantine' = quarantine /\ task' = [task EXCEPT !.at = Absent]
         \/ task' = Absent /\ installed' = installed /\ quarantine' = quarantine
         \/ /\ quarantine[name] # file /\ installed' = installed
            /\ quarantine' = Stored(name, file) /\ task' = task
         \/ /\ quarantine[name] # file /\ installed' = installed /\ task' = Absent
            /\ quarantine' = [q \in DOMAIN quarantine \ {name} |-> quarantine[q]]
  BY DEF MoveCopies, Over
<1>2. /\ migration' = migration /\ output' = output /\ owned' = owned
      /\ task # Absent /\ task.what = "quarantine"
      /\ item \in Items /\ item[1] = "assets" /\ item[2] = name[1] /\ item[2] \notin task.left
      /\ file \in AnyFile /\ name \in DOMAIN quarantine
      /\ \/ quarantine[name] = file
         \/ quarantine[name] = [from |-> file.from, n |-> file.n, whole |-> FALSE]
      /\ \A p \in task.left : p \in AssetPaths /\ installed[<<"assets", p>>] \in AnyFile
  BY <1>1, Moving DEF Frame
<1>3. task = [what |-> "quarantine", left |-> task.left, at |-> task.at, to |-> task.to]
  BY <1>1, Moving
<1>4. IsFiniteSet(DOMAIN quarantine) /\ installed \in [Items -> AnyFile \cup {Absent}]
  BY DEF MigrationInv, MigrationForm
<1>5. quarantine[name] # file => \A n \in Nat : quarantine[name] # Own(n)
  <2>1. \A n \in Nat : Own(n).whole
    BY OwnIsFile
  <2>2. quarantine[name] # file => ~quarantine[name].whole
    BY <1>2
  <2> QED BY <2>1, <2>2
<1>6. UNCHANGED output /\ (TaskFault \/ TaskFine)
  BY <1>1
<1> HIDE DEF item, name, file
<1>7. CASE /\ quarantine[name] = file /\ installed' = [installed EXCEPT ![item] = Absent]
           /\ quarantine' = quarantine /\ task' = [task EXCEPT !.at = Absent]
  <2>1. task' = [what |-> "quarantine", left |-> task.left, at |-> Absent, to |-> task.to]
    BY <1>3, <1>7
  <2>2. \A p \in task.left : <<"assets", p>> # item
    BY <1>2
  <2>3. \A p \in task.left : p \in AssetPaths /\ installed'[<<"assets", p>>] \in AnyFile
    BY <1>2, <1>4, <1>7, <2>2, AssetIsItem
  <2>4. TaskInv'
    BY <1>1, <1>2, <2>1, <2>3, WorldStays DEF TaskInv, ConvertInv, ImportInv, QuarantineInv
  <2>5. installed[item] = file /\ name[1] = item[2] /\ IsFiniteSet(DOMAIN quarantine')
    BY <1>2, <1>4, <1>7 DEF file
  <2>6. \A q \in DOMAIN quarantine : \A n \in Nat :
          quarantine[q] = Own(n) => q \in DOMAIN quarantine' /\ quarantine'[q] = Own(n)
    BY <1>7
  <2>7. name \in DOMAIN quarantine' /\ quarantine'[name] = file
    BY <1>2, <1>7
  <2> QED BY <1>1, <1>2, <1>6, <1>7, <2>4, <2>5, <2>6, <2>7, MovedStep
<1>8. CASE task' = Absent /\ installed' = installed /\ quarantine' = quarantine
  BY <1>1, <1>2, <1>8, NoTask, StillNothingLeft, QuietStep
<1>9. CASE quarantine[name] # file /\ installed' = installed /\ quarantine' = Stored(name, file) /\ task' = task
  <2>1. DOMAIN quarantine' = DOMAIN quarantine \cup {name}
    BY <1>9, StoredIs
  <2>2. quarantine'[name] = file /\ IsFiniteSet(DOMAIN quarantine')
    BY <1>9, StoredIs
  <2>3. \A q \in DOMAIN quarantine : q # name => quarantine'[q] = quarantine[q]
    BY <1>9, StoredIs
  <2>4. TaskInv'
    BY <1>1, <1>2, <1>3, <1>9, <2>1, <2>2, WorldStays
       DEF TaskInv, ConvertInv, ImportInv, QuarantineInv, item, name, file
  <2>5. installed[item] = file /\ name[1] = item[2]
    BY <1>2 DEF file
  <2>6. \A q \in DOMAIN quarantine : \A n \in Nat :
          quarantine[q] = Own(n) => q \in DOMAIN quarantine' /\ quarantine'[q] = Own(n)
    BY <1>5, <1>9, <2>1, <2>3
  <2> QED BY <1>1, <1>2, <1>6, <1>9, <2>2, <2>4, <2>5, <2>6, MovedStep
<1>10. CASE /\ quarantine[name] # file /\ installed' = installed /\ task' = Absent
            /\ quarantine' = [q \in DOMAIN quarantine \ {name} |-> quarantine[q]]
  <2>1. DOMAIN quarantine' = DOMAIN quarantine \ {name}
        /\ \A q \in DOMAIN quarantine : q # name => quarantine'[q] = quarantine[q]
    BY <1>10
  <2>2. IsFiniteSet(DOMAIN quarantine')
    BY <1>4, <2>1, FS_RemoveElement
  <2>3. installed[item] = file /\ name[1] = item[2]
    BY <1>2 DEF file
  <2>4. \A q \in DOMAIN quarantine : \A n \in Nat :
          quarantine[q] = Own(n) => q \in DOMAIN quarantine' /\ quarantine'[q] = Own(n)
    BY <1>5, <1>10, <2>1
  <2>5. TaskInv'
    BY <1>10, NoTask
  <2> QED BY <1>1, <1>2, <1>6, <1>10, <2>2, <2>3, <2>4, <2>5, MovedStep
<1> QED BY <1>1, <1>7, <1>8, <1>9, <1>10 DEF item, name, file

-----------------------------------------------------------------------------
(* Migration: the theorems.                                                *)

LEMMA MigrationStart == ASSUME NEW world \in MigrationWorlds, MigrationInit(world) PROVE MigrationInv
<1>1. /\ migration = world /\ owned = {[item |-> i, n |-> 0] : i \in world.own} /\ task = Absent
      /\ output = [part \in Parts |-> Absent] /\ DOMAIN quarantine = {}
      /\ installed = [i \in Items |-> IF i \in world.own THEN Own(0) ELSE Absent]
      /\ migrated = [runs |-> 0, faults |-> 0]
  BY DEF MigrationInit
<1>2. WorldInv
  BY <1>1, MigrationAssumption DEF WorldInv, Archives, AssetPaths, AnyFile
<1>3. world.own \subseteq Items
  <2>1. world.own \subseteq {<<part, "">> : part \in {"config", "session"}} \cup ({"assets", "legacy"} \X AssetPaths)
    BY <1>1, MigrationAssumption DEF AssetPaths
  <2> QED BY <2>1 DEF Items
<1>4. Own(0) \in AnyFile /\ Own(0).from = "own"
  BY OwnIsFile
<1> HIDE DEF Own
<1>5. MigrationForm
  BY <1>1, <1>3, <1>4, FS_EmptySet DEF MigrationForm
<1>6. TaskInv
  BY <1>1 DEF TaskInv, ConvertInv, ImportInv, QuarantineInv
<1>7. Done = {}
  BY <1>1 DEF Done
<1>8. OwnIsKept
  BY <1>1, <1>3 DEF OwnIsKept
<1>9. NothingToRun
  BY <1>1, <1>4, AssetIsItem DEF NothingToRun
<1> QED BY <1>2, <1>5, <1>6, <1>7, <1>8, <1>9 DEF MigrationInv, MigrationIsSound, NothingLeft

LEMMA MigrationStep == ASSUME MigrationInv, [MigrationNext]_migrationVars PROVE MigrationInv'
<1>1. CASE UNCHANGED migrationVars
  <2>1. UNCHANGED <<migration, output, installed, quarantine, owned, task, cut, migrated>>
    BY <1>1 DEF migrationVars
  <2>2. TaskInv' /\ NothingLeft'
    BY <2>1, WorldStays DEF MigrationInv, MigrationIsSound, NothingLeft, TaskInv, ConvertInv, ImportInv,
         QuarantineInv, Done, File
  <2> QED BY <2>1, <2>2, QuietStep DEF Frame, TaskFine
<1> QED BY <1>1, HostCreatesStep, TaskEnds, OutputRemovedStep, ConvertBegins, ConvertStepStep, ImportBegins,
         NextGroupStep, ImportFileStep, CopyFileStep, HostStartsStep, MoveStep, MoveCopiesStep DEF MigrationNext

\* At every moment the conversion, the import or the quarantine under way has
\* done what its record says, and each file is where that puts it
\* (migration.go, cmd/telebox-migrate): for any archives, files and faults.
THEOREM MigrationInvariance == MigrationSpec => []MigrationInv
<1>1. (\E world \in MigrationWorlds : MigrationInit(world)) => MigrationInv
  BY MigrationStart
<1>2. MigrationInv /\ [MigrationNext]_migrationVars => MigrationInv'
  BY MigrationStep
<1> QED BY <1>1, <1>2, PTL DEF MigrationSpec

\* Neither an import nor a quarantine, cut at any step, loses a file the host
\* owned, and no imported program lies among the active assets (migration.go):
\* for any archives, files of the host, runs and faults.
THEOREM MigrationStaysSound == MigrationSpec => []MigrationIsSound
<1>1. MigrationInv => MigrationIsSound
  BY DEF MigrationInv
<1> QED BY <1>1, MigrationInvariance, PTL

-----------------------------------------------------------------------------
(* Inkstone: the invariant.                                                *)

OpSet == [kind : {"write"}, msg : {OpMessage(c) : c \in inkWorld.commands}, what : Nat]
TextSet == [source : {Source(c) : c \in inkWorld.commands}, edit : Nat, file : Nat]
EntrySet == [op : OpSet, text : TextSet]
RequestSet == [op : OpSet, note : Nat, rev : Nat, text : TextSet]
\* A text is that of the message for which its operation was made.
Fits(op, note, text) == \E c \in inkWorld.commands :
  op = WriteOp(c, note) /\ text.source = Source(c)
Written(op) == op.what \in DOMAIN notes /\ \E i \in DOMAIN notes[op.what].entries : notes[op.what].entries[i].op = op

InkForm ==
  /\ inkWorld \in InkWorlds
  /\ edits \in [InkMessages -> Nat] /\ uploads \in Nat
  /\ notes \in Seq([rev : Nat, entries : Seq(EntrySet)]) /\ 1 \in DOMAIN notes
  /\ jobs = [w \in Workers |-> jobs[w]]
\* The server knows the operation of each entry, and each has one entry.
EntriesInv == \A n \in DOMAIN notes :
  /\ \A i \in DOMAIN notes[n].entries :
       /\ Fits(notes[n].entries[i].op, n, notes[n].entries[i].text)
       /\ notes[n].entries[i].op \in DOMAIN served
  /\ \A i, j \in DOMAIN notes[n].entries : i # j => notes[n].entries[i].op # notes[n].entries[j].op
ServedInv == \A op \in DOMAIN served :
  /\ op.kind = "write" => Written(op)
  /\ op.kind = "new" => served[op].note \in DOMAIN notes
GoodRequest(r) == r \in RequestSet /\ r.note \in DOMAIN notes /\ Fits(r.op, r.note, r.text)
StoreInv ==
  /\ \A a \in DOMAIN aliases : aliases[a] \in DOMAIN notes
  /\ \A i \in DOMAIN cached : cached[i] \in DOMAIN notes
  /\ \A op \in DOMAIN pending :
       /\ GoodRequest(pending[op].request) /\ pending[op].request.op = op
       /\ pending[op].completed => Written(op)
IsJob(job) ==
  /\ job = [cmd |-> job.cmd, at |-> job.at, seen |-> job.seen, note |-> job.note, request |-> job.request,
            rev |-> job.rev, again |-> job.again, attempt |-> job.attempt]
  /\ job.cmd \in inkWorld.commands /\ job.rev \in Nat
AfterPrepare == {"store", "edit", "refetch", "restore", "done"}
JobInv(job) ==
  job # NoJob =>
    /\ IsJob(job)
    /\ job.cmd.kind = "write" =>
         /\ job.at # "load" => job.note \in DOMAIN notes
         /\ job.at \in AfterPrepare => GoodRequest(job.request) /\ job.request.op = WriteOp(job.cmd, job.note)
         /\ job.at = "done" => Written(WriteOp(job.cmd, job.note))
    /\ job.cmd.kind = "new" /\ job.at = "save" => job.note \in DOMAIN notes
    /\ job.cmd.kind = "bind" /\ job.at \in {"bindings", "save"} => job.note \in DOMAIN notes
    /\ job.at \in {"create", "save"} => \A a \in DOMAIN job.seen : job.seen[a] \in DOMAIN notes
ToldInv == \A op \in told : Written(op)
\* With one worker: a request that is sent is the stored one, and one that is
\* yet to be stored was never applied.
SoleJob(job) ==
  job # NoJob /\ job.cmd.kind = "write" =>
    LET op == WriteOp(job.cmd, job.note) IN
    /\ job.at \in {"edit", "done"} => op \in DOMAIN pending /\ pending[op].request = job.request
    /\ job.at \in {"fetch", "prepare", "store", "refetch", "restore"} => op \notin DOMAIN served
SoleInv == inkWorld.workers = 1 => Repeatable /\ SoleJob(jobs[1])
InkInv ==
  /\ InkForm /\ EntriesInv /\ ServedInv /\ StoreInv
  /\ \A w \in Workers : JobInv(jobs[w])
  /\ ToldInv /\ SoleInv

LEMMA OpIsKnown == ASSUME NEW c \in inkWorld.commands, NEW n \in Nat PROVE WriteOp(c, n) \in OpSet /\ WriteOp(c, n).what = n /\ WriteOp(c, n).kind = "write"
BY DEF WriteOp, OpSet

\* What the invariant says follows from the properties.
LEMMA InkSafe == ASSUME InkInv PROVE WritesAreSafe
<1>1. AppendedOnce
  <2> SUFFICES ASSUME NEW n \in DOMAIN notes, NEW i \in DOMAIN notes[n].entries, NEW j \in DOMAIN notes[n].entries,
                      i # j, notes[n].entries[i].text.source = notes[n].entries[j].text.source
               PROVE  /\ notes[n].entries[i].op # notes[n].entries[j].op
                      /\ \E e \in {notes[n].entries[i], notes[n].entries[j]} :
                           \E c \in inkWorld.commands : c.force /\ e.op.msg = c.msg
    BY DEF AppendedOnce
  <2> DEFINE a == notes[n].entries[i] b == notes[n].entries[j]
  <2>1. a.op # b.op
    BY DEF InkInv, EntriesInv
  <2>2. PICK c \in inkWorld.commands : a.op = WriteOp(c, n) /\ a.text.source = Source(c)
    BY DEF InkInv, EntriesInv, Fits
  <2>3. PICK d \in inkWorld.commands : b.op = WriteOp(d, n) /\ b.text.source = Source(d)
    BY DEF InkInv, EntriesInv, Fits
  <2> HIDE DEF a, b
  <2>4. a.op.msg = OpMessage(c) /\ b.op.msg = OpMessage(d)
    BY <2>2, <2>3 DEF WriteOp
  <2>5. OpMessage(c) # OpMessage(d)
    BY <2>1, <2>2, <2>3 DEF WriteOp
  <2>6. Source(c) = Source(d)
    BY <2>2, <2>3 DEF a, b
  <2>7. c.force \/ d.force
    BY <2>5, <2>6 DEF OpMessage
  <2>8. (c.force => a.op.msg = c.msg) /\ (d.force => b.op.msg = d.msg)
    BY <2>4 DEF OpMessage
  <2> QED BY <2>1, <2>7, <2>8 DEF a, b
<1>2. ToldIsWritten
  BY DEF InkInv, ToldInv, Written, ToldIsWritten
<1>3. Repeatable
  BY DEF InkInv, SoleInv, Repeatable
<1> QED BY <1>1, <1>2, <1>3 DEF WritesAreSafe

-----------------------------------------------------------------------------
(* Inkstone: frames.                                                       *)

\* Every operation that has an entry keeps one.
Grown ==
  /\ inkWorld' = inkWorld /\ DOMAIN notes \subseteq DOMAIN notes'
  /\ \A n \in DOMAIN notes : \A i \in DOMAIN notes[n].entries :
       \E k \in DOMAIN notes'[n].entries : notes'[n].entries[k].op = notes[n].entries[i].op

LEMMA Frozen == ASSUME inkWorld' = inkWorld
  PROVE OpSet' = OpSet /\ TextSet' = TextSet /\ EntrySet' = EntrySet /\ RequestSet' = RequestSet /\ Workers' = Workers /\ InkMessages' = InkMessages
BY DEF OpSet, TextSet, EntrySet, RequestSet, Workers, InkMessages

LEMMA WrittenStays == ASSUME Grown, NEW op, Written(op) PROVE Written(op)'
BY DEF Grown, Written

LEMMA GoodStays == ASSUME Grown, NEW r, GoodRequest(r) PROVE GoodRequest(r)'
<1>1. RequestSet' = RequestSet
  BY Frozen DEF Grown
<1>2. Fits(r.op, r.note, r.text)'
  BY DEF Grown, Fits, GoodRequest
<1> QED BY <1>1, <1>2 DEF GoodRequest, Grown

LEMMA JobStays ==
  ASSUME Grown, NEW w, JobInv(jobs[w]), jobs'[w] = jobs[w]
  PROVE  JobInv(jobs[w])'
<1>1. PICK job : job = jobs[w]
  OBVIOUS
<1>2. job # NoJob => IsJob(job)'
  BY <1>1 DEF JobInv, IsJob, Grown
<1>3. job # NoJob /\ job.cmd.kind = "write" /\ job.at \in AfterPrepare => GoodRequest(job.request)'
  <2>1. job # NoJob /\ job.cmd.kind = "write" /\ job.at \in AfterPrepare => GoodRequest(job.request)
    BY <1>1 DEF JobInv
  <2> QED BY <2>1, GoodStays
<1>4. job # NoJob /\ job.cmd.kind = "write" /\ job.at = "done" => Written(WriteOp(job.cmd, job.note))'
  <2>1. job # NoJob /\ job.cmd.kind = "write" /\ job.at = "done" => Written(WriteOp(job.cmd, job.note))
    BY <1>1 DEF JobInv
  <2> QED BY <2>1, WrittenStays
<1>5. JobInv(job)
  BY <1>1
<1>6. JobInv(job)'
  BY <1>2, <1>3, <1>4, <1>5 DEF JobInv, Grown
<1> QED BY <1>1, <1>6

\* The other workers go on as they were.
Only(w) == jobs' = [x \in Workers |-> jobs'[x]] /\ \A x \in Workers : x # w => jobs'[x] = jobs[x]

LEMMA OtherJobsStay ==
  ASSUME InkInv, Grown, NEW w \in Workers, Only(w), JobInv(jobs[w])'
  PROVE  \A x \in Workers' : JobInv(jobs[x])'
<1> SUFFICES ASSUME NEW x \in Workers PROVE JobInv(jobs[x])'
  BY Frozen DEF Grown
<1>1. CASE x = w
  BY <1>1
<1>2. CASE x # w
  BY <1>2, JobStays DEF InkInv, Only
<1> QED BY <1>1, <1>2

\* Steps of one command that leave storage and server alone.
LEMMA LocalStep ==
  ASSUME InkInv, NEW w \in Workers, Only(w), UNCHANGED <<inkWorld, notes, served, pending, edits>>,
         \A a \in DOMAIN aliases' : aliases'[a] \in DOMAIN notes,
         \A i \in DOMAIN cached' : cached'[i] \in DOMAIN notes,
         \A op \in told' : Written(op),
         uploads' \in Nat, JobInv(jobs[w])', inkWorld.workers = 1 => SoleJob(jobs[w])'
  PROVE  InkInv'
<1>1. Grown
  BY DEF Grown
<1>2. InkForm'
  BY Frozen DEF InkInv, InkForm, Only
<1>3. EntriesInv' /\ ServedInv' /\ ToldInv'
  BY DEF InkInv, EntriesInv, ServedInv, ToldInv, Fits, Written
<1>4. StoreInv'
  BY Frozen DEF InkInv, StoreInv, GoodRequest, Fits, Written
<1>5. \A x \in Workers' : JobInv(jobs[x])'
  BY <1>1, OtherJobsStay
<1>6. SoleInv'
  <2> SUFFICES ASSUME inkWorld.workers = 1 PROVE Repeatable' /\ SoleJob(jobs[1])'
    BY DEF SoleInv
  <2>1. w = 1
    BY DEF Workers
  <2>2. Repeatable'
    BY DEF InkInv, SoleInv, Repeatable
  <2> QED BY <2>1, <2>2
<1> QED BY <1>2, <1>3, <1>4, <1>5, <1>6 DEF InkInv

-----------------------------------------------------------------------------
(* Inkstone: how a command goes on.                                        *)

\* The worker's command is what it was but for its place, note and request.
Goes(w, at, note, request) ==
  /\ Only(w) /\ jobs'[w].cmd = jobs[w].cmd /\ jobs'[w].at = at /\ jobs'[w].note = note
  /\ jobs'[w].request = request /\ jobs'[w].rev \in Nat
  /\ jobs'[w] = [cmd |-> jobs'[w].cmd, at |-> jobs'[w].at, seen |-> jobs'[w].seen, note |-> jobs'[w].note,
                 request |-> jobs'[w].request, rev |-> jobs'[w].rev, again |-> jobs'[w].again,
                 attempt |-> jobs'[w].attempt]

LEMMA RunningJob ==
  ASSUME InkInv, NEW w \in Workers, jobs[w] # NoJob
  PROVE  /\ jobs = [x \in Workers |-> jobs[x]] /\ IsJob(jobs[w]) /\ jobs[w].rev \in Nat
         /\ jobs[w].cmd \in inkWorld.commands /\ JobInv(jobs[w])
BY DEF InkInv, InkForm, JobInv, IsJob

JobRecord(job) ==
  job = [cmd |-> job.cmd, at |-> job.at, seen |-> job.seen, note |-> job.note, request |-> job.request,
         rev |-> job.rev, again |-> job.again, attempt |-> job.attempt]

\* What becomes of a command when some of its fields change.
LEMMA JobExcept ==
  ASSUME NEW job, JobRecord(job), NEW at, NEW x, NEW y
  PROVE
    /\ [job EXCEPT !.at = at] =
           [cmd |-> job.cmd, at |-> at, seen |-> job.seen, note |-> job.note,
            request |-> job.request, rev |-> job.rev, again |-> job.again, attempt |-> job.attempt]
    /\ [job EXCEPT !.again = x] =
           [cmd |-> job.cmd, at |-> job.at, seen |-> job.seen, note |-> job.note,
            request |-> job.request, rev |-> job.rev, again |-> x, attempt |-> job.attempt]
    /\ [job EXCEPT !.at = at, !.seen = x] =
           [cmd |-> job.cmd, at |-> at, seen |-> x, note |-> job.note,
            request |-> job.request, rev |-> job.rev, again |-> job.again, attempt |-> job.attempt]
    /\ [job EXCEPT !.at = at, !.note = x] =
           [cmd |-> job.cmd, at |-> at, seen |-> job.seen, note |-> x,
            request |-> job.request, rev |-> job.rev, again |-> job.again, attempt |-> job.attempt]
    /\ [job EXCEPT !.at = at, !.rev = x] =
           [cmd |-> job.cmd, at |-> at, seen |-> job.seen, note |-> job.note,
            request |-> job.request, rev |-> x, again |-> job.again, attempt |-> job.attempt]
    /\ [job EXCEPT !.at = at, !.again = x] =
           [cmd |-> job.cmd, at |-> at, seen |-> job.seen, note |-> job.note,
            request |-> job.request, rev |-> job.rev, again |-> x, attempt |-> job.attempt]
    /\ [job EXCEPT !.at = at, !.request = x] =
           [cmd |-> job.cmd, at |-> at, seen |-> job.seen, note |-> job.note,
            request |-> x, rev |-> job.rev, again |-> job.again, attempt |-> job.attempt]
    /\ [job EXCEPT !.at = at, !.attempt = x] =
           [cmd |-> job.cmd, at |-> at, seen |-> job.seen, note |-> job.note,
            request |-> job.request, rev |-> job.rev, again |-> job.again, attempt |-> x]
<1>1. [job EXCEPT !.again = x] =
           [cmd |-> job.cmd, at |-> job.at, seen |-> job.seen, note |-> job.note,
            request |-> job.request, rev |-> job.rev, again |-> x, attempt |-> job.attempt]
  BY DEF JobRecord
<1>2. PICK one : one = [job EXCEPT !.at = at]
  OBVIOUS
<1>3. one =
           [cmd |-> job.cmd, at |-> at, seen |-> job.seen, note |-> job.note,
            request |-> job.request, rev |-> job.rev, again |-> job.again, attempt |-> job.attempt]
  BY <1>2 DEF JobRecord
<1>4. [one EXCEPT !.seen = x] =
           [cmd |-> job.cmd, at |-> at, seen |-> x, note |-> job.note,
            request |-> job.request, rev |-> job.rev, again |-> job.again, attempt |-> job.attempt]
  BY <1>3
<1>5. [job EXCEPT !.at = at, !.seen = x] = [one EXCEPT !.seen = x]
  BY <1>2
<1>6. [one EXCEPT !.note = x] =
           [cmd |-> job.cmd, at |-> at, seen |-> job.seen, note |-> x,
            request |-> job.request, rev |-> job.rev, again |-> job.again, attempt |-> job.attempt]
  BY <1>3
<1>7. [job EXCEPT !.at = at, !.note = x] = [one EXCEPT !.note = x]
  BY <1>2
<1>8. [one EXCEPT !.rev = x] =
           [cmd |-> job.cmd, at |-> at, seen |-> job.seen, note |-> job.note,
            request |-> job.request, rev |-> x, again |-> job.again, attempt |-> job.attempt]
  BY <1>3
<1>9. [job EXCEPT !.at = at, !.rev = x] = [one EXCEPT !.rev = x]
  BY <1>2
<1>10. [one EXCEPT !.again = x] =
           [cmd |-> job.cmd, at |-> at, seen |-> job.seen, note |-> job.note,
            request |-> job.request, rev |-> job.rev, again |-> x, attempt |-> job.attempt]
  BY <1>3
<1>11. [job EXCEPT !.at = at, !.again = x] = [one EXCEPT !.again = x]
  BY <1>2
<1>12. [one EXCEPT !.request = x] =
           [cmd |-> job.cmd, at |-> at, seen |-> job.seen, note |-> job.note,
            request |-> x, rev |-> job.rev, again |-> job.again, attempt |-> job.attempt]
  BY <1>3
<1>13. [job EXCEPT !.at = at, !.request = x] = [one EXCEPT !.request = x]
  BY <1>2
<1>14. [one EXCEPT !.attempt = x] =
           [cmd |-> job.cmd, at |-> at, seen |-> job.seen, note |-> job.note,
            request |-> job.request, rev |-> job.rev, again |-> job.again, attempt |-> x]
  BY <1>3
<1>15. [job EXCEPT !.at = at, !.attempt = x] = [one EXCEPT !.attempt = x]
  BY <1>2
<1> QED BY <1>1, <1>2, <1>3, <1>4, <1>5, <1>6, <1>7, <1>8, <1>9, <1>10, <1>11, <1>12, <1>13, <1>14, <1>15

LEMMA JobExceptEdit ==
  ASSUME NEW job, JobRecord(job), NEW at, NEW x, NEW y
  PROVE  [job EXCEPT !.at = at, !.request = x, !.again = y] =
           [cmd |-> job.cmd, at |-> at, seen |-> job.seen, note |-> job.note,
            request |-> x, rev |-> job.rev, again |-> y, attempt |-> job.attempt]
<1>1. PICK one : one = [job EXCEPT !.at = at]
  OBVIOUS
<1>2. one =
           [cmd |-> job.cmd, at |-> at, seen |-> job.seen, note |-> job.note,
            request |-> job.request, rev |-> job.rev, again |-> job.again, attempt |-> job.attempt]
  BY <1>1 DEF JobRecord
<1>3. [one EXCEPT !.request = x] =
           [cmd |-> job.cmd, at |-> at, seen |-> job.seen, note |-> job.note,
            request |-> x, rev |-> job.rev, again |-> job.again, attempt |-> job.attempt]
  BY <1>2
<1>4. PICK requestTwo : requestTwo = [one EXCEPT !.request = x]
  OBVIOUS
<1>5. requestTwo =
           [cmd |-> job.cmd, at |-> at, seen |-> job.seen, note |-> job.note,
            request |-> x, rev |-> job.rev, again |-> job.again, attempt |-> job.attempt]
  BY <1>4, <1>3
<1>6. [requestTwo EXCEPT !.again = y] =
           [cmd |-> job.cmd, at |-> at, seen |-> job.seen, note |-> job.note,
            request |-> x, rev |-> job.rev, again |-> y, attempt |-> job.attempt]
  BY <1>5
<1>7. [job EXCEPT !.at = at, !.request = x, !.again = y] = [requestTwo EXCEPT !.again = y]
  BY <1>1, <1>4
<1> QED BY <1>6, <1>7

LEMMA JobExceptStore ==
  ASSUME NEW job, JobRecord(job), NEW at, NEW x, NEW y
  PROVE  [job EXCEPT !.at = at, !.rev = x, !.request = y] =
           [cmd |-> job.cmd, at |-> at, seen |-> job.seen, note |-> job.note,
            request |-> y, rev |-> x, again |-> job.again, attempt |-> job.attempt]
<1>1. PICK one : one = [job EXCEPT !.at = at]
  OBVIOUS
<1>2. one =
           [cmd |-> job.cmd, at |-> at, seen |-> job.seen, note |-> job.note,
            request |-> job.request, rev |-> job.rev, again |-> job.again, attempt |-> job.attempt]
  BY <1>1 DEF JobRecord
<1>3. [one EXCEPT !.rev = x] =
           [cmd |-> job.cmd, at |-> at, seen |-> job.seen, note |-> job.note,
            request |-> job.request, rev |-> x, again |-> job.again, attempt |-> job.attempt]
  BY <1>2
<1>4. PICK revTwo : revTwo = [one EXCEPT !.rev = x]
  OBVIOUS
<1>5. revTwo =
           [cmd |-> job.cmd, at |-> at, seen |-> job.seen, note |-> job.note,
            request |-> job.request, rev |-> x, again |-> job.again, attempt |-> job.attempt]
  BY <1>4, <1>3
<1>6. [revTwo EXCEPT !.request = y] =
           [cmd |-> job.cmd, at |-> at, seen |-> job.seen, note |-> job.note,
            request |-> y, rev |-> x, again |-> job.again, attempt |-> job.attempt]
  BY <1>5
<1>7. [job EXCEPT !.at = at, !.rev = x, !.request = y] = [revTwo EXCEPT !.request = y]
  BY <1>1, <1>4
<1> QED BY <1>6, <1>7

\* A worker whose command is replaced by another record.
LEMMA Replaced ==
  ASSUME InkInv, NEW w \in Workers, jobs[w] # NoJob, NEW job, JobRecord(job), job.cmd = jobs[w].cmd,
         job.rev \in Nat, Becomes(w, job)
  PROVE  Goes(w, job.at, job.note, job.request) /\ jobs'[w] = job /\ told' = told
<1>1. jobs' = [jobs EXCEPT ![w] = job] /\ jobs = [x \in Workers |-> jobs[x]]
  BY RunningJob DEF Becomes
<1>2. jobs'[w] = job
  BY <1>1
<1>3. Only(w)
  BY <1>1 DEF Only
<1> QED BY <1>2, <1>3 DEF Goes, JobRecord, Becomes

LEMMA InkEnds ==
  ASSUME InkInv, NEW w \in Workers, NEW answer, End(w, answer)
  PROVE  Only(w) /\ jobs'[w] = NoJob /\ (answer \notin {"written", "reused"} => told' = told)
BY DEF InkInv, InkForm, End, Only

LEMMA InkMoves ==
  ASSUME InkInv, NEW w \in Workers, jobs[w] # NoJob, NEW at,
         JobAt(w, at)
  PROVE  Goes(w, at, jobs[w].note, jobs[w].request) /\ jobs'[w].seen = jobs[w].seen /\ told' = told
<1>1. PICK job : job = [jobs[w] EXCEPT !.at = at]
  OBVIOUS
<1>2. JobRecord(jobs[w])
  BY RunningJob DEF IsJob, JobRecord
<1>3. job =
            [cmd |-> jobs[w].cmd, at |-> at, seen |-> jobs[w].seen, note |-> jobs[w].note,
             request |-> jobs[w].request, rev |-> jobs[w].rev, again |-> jobs[w].again, attempt |-> jobs[w].attempt]
  BY <1>1, <1>2, JobExcept
<1>4. Becomes(w, job)
  BY <1>1 DEF JobAt
<1>5. JobRecord(job) /\ job.rev \in Nat
  BY <1>3, RunningJob DEF JobRecord
<1> QED BY <1>3, <1>4, <1>5, Replaced

LEMMA InkSees ==
  ASSUME InkInv, NEW w \in Workers, jobs[w] # NoJob, NEW at, NEW seen,
         Becomes(w, [jobs[w] EXCEPT !.at = at, !.seen = seen])
  PROVE  Goes(w, at, jobs[w].note, jobs[w].request) /\ jobs'[w].seen = seen /\ told' = told
<1>1. PICK job : job = [jobs[w] EXCEPT !.at = at, !.seen = seen]
  OBVIOUS
<1>2. JobRecord(jobs[w])
  BY RunningJob DEF IsJob, JobRecord
<1>3. job =
            [cmd |-> jobs[w].cmd, at |-> at, seen |-> seen, note |-> jobs[w].note,
             request |-> jobs[w].request, rev |-> jobs[w].rev, again |-> jobs[w].again, attempt |-> jobs[w].attempt]
  BY <1>1, <1>2, JobExcept
<1>4. Becomes(w, job)
  BY <1>1 DEF JobAt
<1>5. JobRecord(job) /\ job.rev \in Nat
  BY <1>3, RunningJob DEF JobRecord
<1> QED BY <1>3, <1>4, <1>5, Replaced

LEMMA InkTakes ==
  ASSUME InkInv, NEW w \in Workers, jobs[w] # NoJob, NEW at, NEW note,
         Becomes(w, [jobs[w] EXCEPT !.at = at, !.note = note])
  PROVE  Goes(w, at, note, jobs[w].request) /\ jobs'[w].seen = jobs[w].seen /\ told' = told
<1>1. PICK job : job = [jobs[w] EXCEPT !.at = at, !.note = note]
  OBVIOUS
<1>2. JobRecord(jobs[w])
  BY RunningJob DEF IsJob, JobRecord
<1>3. job =
            [cmd |-> jobs[w].cmd, at |-> at, seen |-> jobs[w].seen, note |-> note,
             request |-> jobs[w].request, rev |-> jobs[w].rev, again |-> jobs[w].again, attempt |-> jobs[w].attempt]
  BY <1>1, <1>2, JobExcept
<1>4. Becomes(w, job)
  BY <1>1 DEF JobAt
<1>5. JobRecord(job) /\ job.rev \in Nat
  BY <1>3, RunningJob DEF JobRecord
<1> QED BY <1>3, <1>4, <1>5, Replaced

LEMMA InkEdits ==
  ASSUME InkInv, NEW w \in Workers, jobs[w] # NoJob, NEW at, NEW request, NEW again,
         Becomes(w, [jobs[w] EXCEPT !.at = at, !.request = request, !.again = again])
  PROVE  Goes(w, at, jobs[w].note, request) /\ told' = told
<1>1. PICK job : job = [jobs[w] EXCEPT !.at = at, !.request = request, !.again = again]
  OBVIOUS
<1>2. JobRecord(jobs[w]) /\ jobs[w].rev \in Nat
  BY RunningJob DEF IsJob, JobRecord
<1>3. job =
            [cmd |-> jobs[w].cmd, at |-> at, seen |-> jobs[w].seen, note |-> jobs[w].note,
             request |-> request, rev |-> jobs[w].rev, again |-> again, attempt |-> jobs[w].attempt]
  <2>1. PICK old : old = jobs[w]
    OBVIOUS
  <2>2. JobRecord(old)
    BY <1>2, <2>1
  <2>3. [old EXCEPT !.at = at, !.request = request, !.again = again] =
          [cmd |-> old.cmd, at |-> at, seen |-> old.seen, note |-> old.note,
           request |-> request, rev |-> old.rev, again |-> again, attempt |-> old.attempt]
    BY <2>2, JobExceptEdit
  <2> QED BY <1>1, <2>1, <2>3
<1>4. Becomes(w, job)
  BY <1>1
<1>5. JobRecord(job) /\ job.rev \in Nat
  BY <1>2, <1>3 DEF JobRecord
<1> QED BY <1>3, <1>4, <1>5, Replaced

LEMMA InkFetches ==
  ASSUME InkInv, NEW w \in Workers, jobs[w] # NoJob, NEW at, NEW rev \in Nat,
         Becomes(w, [jobs[w] EXCEPT !.at = at, !.rev = rev])
  PROVE  Goes(w, at, jobs[w].note, jobs[w].request) /\ told' = told
<1>1. PICK job : job = [jobs[w] EXCEPT !.at = at, !.rev = rev]
  OBVIOUS
<1>2. JobRecord(jobs[w]) /\ jobs[w].rev \in Nat
  BY RunningJob DEF IsJob, JobRecord
<1>3. job =
            [cmd |-> jobs[w].cmd, at |-> at, seen |-> jobs[w].seen, note |-> jobs[w].note,
             request |-> jobs[w].request, rev |-> rev, again |-> jobs[w].again, attempt |-> jobs[w].attempt]
  BY <1>1, <1>2, JobExcept
<1>4. Becomes(w, job)
  BY <1>1
<1>5. JobRecord(job) /\ job.rev \in Nat
  BY <1>2, <1>3 DEF JobRecord
<1> QED BY <1>3, <1>4, <1>5, Replaced

LEMMA InkPrepares ==
  ASSUME InkInv, NEW w \in Workers, jobs[w] # NoJob, NEW at, NEW rev \in Nat, NEW request,
         Becomes(w, [jobs[w] EXCEPT !.at = at, !.rev = rev, !.request = request])
  PROVE  Goes(w, at, jobs[w].note, request) /\ told' = told
<1>1. PICK job : job = [jobs[w] EXCEPT !.at = at, !.rev = rev, !.request = request]
  OBVIOUS
<1>2. JobRecord(jobs[w]) /\ jobs[w].rev \in Nat
  BY RunningJob DEF IsJob, JobRecord
<1>3. job =
            [cmd |-> jobs[w].cmd, at |-> at, seen |-> jobs[w].seen, note |-> jobs[w].note,
             request |-> request, rev |-> rev, again |-> jobs[w].again, attempt |-> jobs[w].attempt]
  BY <1>1, <1>2, JobExceptStore
<1>4. Becomes(w, job)
  BY <1>1
<1>5. JobRecord(job) /\ job.rev \in Nat
  BY <1>2, <1>3 DEF JobRecord
<1> QED BY <1>3, <1>4, <1>5, Replaced

LEMMA InkRequests ==
  ASSUME InkInv, NEW w \in Workers, jobs[w] # NoJob, NEW at, NEW request,
         Becomes(w, [jobs[w] EXCEPT !.at = at, !.request = request])
  PROVE  Goes(w, at, jobs[w].note, request) /\ told' = told
<1>1. PICK job : job = [jobs[w] EXCEPT !.at = at, !.request = request]
  OBVIOUS
<1>2. JobRecord(jobs[w]) /\ jobs[w].rev \in Nat
  BY RunningJob DEF IsJob, JobRecord
<1>3. job =
            [cmd |-> jobs[w].cmd, at |-> at, seen |-> jobs[w].seen, note |-> jobs[w].note,
             request |-> request, rev |-> jobs[w].rev, again |-> jobs[w].again, attempt |-> jobs[w].attempt]
  BY <1>1, <1>2, JobExcept
<1>4. Becomes(w, job)
  BY <1>1
<1>5. JobRecord(job) /\ job.rev \in Nat
  BY <1>2, <1>3 DEF JobRecord
<1> QED BY <1>3, <1>4, <1>5, Replaced

LEMMA InkSaves ==
  ASSUME InkInv, NEW w \in Workers, jobs[w] # NoJob, NEW at, NEW again,
         Becomes(w, [jobs[w] EXCEPT !.at = at, !.again = again])
  PROVE  Goes(w, at, jobs[w].note, jobs[w].request) /\ told' = told
<1>1. PICK job : job = [jobs[w] EXCEPT !.at = at, !.again = again]
  OBVIOUS
<1>2. JobRecord(jobs[w]) /\ jobs[w].rev \in Nat
  BY RunningJob DEF IsJob, JobRecord
<1>3. job =
            [cmd |-> jobs[w].cmd, at |-> at, seen |-> jobs[w].seen, note |-> jobs[w].note,
             request |-> jobs[w].request, rev |-> jobs[w].rev, again |-> again, attempt |-> jobs[w].attempt]
  BY <1>1, <1>2, JobExcept
<1>4. Becomes(w, job)
  BY <1>1
<1>5. JobRecord(job) /\ job.rev \in Nat
  BY <1>2, <1>3 DEF JobRecord
<1> QED BY <1>3, <1>4, <1>5, Replaced

LEMMA InkTries ==
  ASSUME InkInv, NEW w \in Workers, jobs[w] # NoJob, NEW again,
         Becomes(w, [jobs[w] EXCEPT !.again = again])
  PROVE  Goes(w, jobs[w].at, jobs[w].note, jobs[w].request) /\ jobs'[w].seen = jobs[w].seen /\ told' = told
<1>1. PICK job : job = [jobs[w] EXCEPT !.again = again]
  OBVIOUS
<1>2. JobRecord(jobs[w]) /\ jobs[w].rev \in Nat
  BY RunningJob DEF IsJob, JobRecord
<1>3. job =
            [cmd |-> jobs[w].cmd, at |-> jobs[w].at, seen |-> jobs[w].seen, note |-> jobs[w].note,
             request |-> jobs[w].request, rev |-> jobs[w].rev, again |-> again, attempt |-> jobs[w].attempt]
  BY <1>1, <1>2, JobExcept
<1>4. Becomes(w, job)
  BY <1>1
<1>5. JobRecord(job) /\ job.rev \in Nat
  BY <1>2, <1>3 DEF JobRecord
<1> QED BY <1>3, <1>4, <1>5, Replaced

LEMMA InkAttempts ==
  ASSUME InkInv, NEW w \in Workers, jobs[w] # NoJob, NEW at, NEW attempt,
         Becomes(w, [jobs[w] EXCEPT !.at = at, !.attempt = attempt])
  PROVE  Goes(w, at, jobs[w].note, jobs[w].request) /\ told' = told
<1>1. PICK job : job = [jobs[w] EXCEPT !.at = at, !.attempt = attempt]
  OBVIOUS
<1>2. JobRecord(jobs[w]) /\ jobs[w].rev \in Nat
  BY RunningJob DEF IsJob, JobRecord
<1>3. job =
            [cmd |-> jobs[w].cmd, at |-> at, seen |-> jobs[w].seen, note |-> jobs[w].note,
             request |-> jobs[w].request, rev |-> jobs[w].rev, again |-> jobs[w].again, attempt |-> attempt]
  BY <1>1, <1>2, JobExcept
<1>4. Becomes(w, job)
  BY <1>1
<1>5. JobRecord(job) /\ job.rev \in Nat
  BY <1>2, <1>3 DEF JobRecord
<1> QED BY <1>3, <1>4, <1>5, Replaced

LEMMA NoteForm == ASSUME InkInv, NEW n \in DOMAIN notes 
  PROVE  /\ n \in Nat /\ notes[n] \in [rev : Nat, entries : Seq(EntrySet)]
         /\ notes[n].rev \in Nat /\ notes[n].entries \in Seq(EntrySet)
<1> DEFINE Set == [rev : Nat, entries : Seq(EntrySet)]
<1>1. n \in DOMAIN notes /\ notes \in Seq(Set)
  BY DEF InkInv, InkForm
<1> HIDE DEF Set
<1>2. n \in Nat /\ notes[n] \in Set
  BY <1>1
<1> QED BY <1>2 DEF Set

\* A command that ends, and says nothing of a write.
LEMMA InkEndStep ==
  ASSUME InkInv, NEW w \in Workers, NEW answer, End(w, answer), answer \notin {"written", "reused"},
         UNCHANGED <<inkWorld, notes, served, pending, edits>>, uploads' \in Nat,
         \A a \in DOMAIN aliases' : aliases'[a] \in DOMAIN notes,
         \A i \in DOMAIN cached' : cached'[i] \in DOMAIN notes
  PROVE  InkInv'
<1>1. Only(w) /\ jobs'[w] = NoJob /\ told' = told
  BY InkEnds
<1>2. JobInv(jobs[w])' /\ SoleJob(jobs[w])'
  BY <1>1 DEF JobInv, SoleJob
<1> QED BY <1>1, <1>2, LocalStep DEF InkInv, ToldInv

\* A command other than write that goes on.
LEMMA OtherGoesOn ==
  ASSUME InkInv, NEW w \in Workers, jobs[w] # NoJob, jobs[w].cmd.kind # "write", NEW at, NEW note, NEW request,
         Goes(w, at, note, request), UNCHANGED <<inkWorld, notes, served, pending, told, edits, uploads, aliases>>,
         \A i \in DOMAIN cached' : cached'[i] \in DOMAIN notes,
         jobs[w].cmd.kind = "new" => at # "save",
         jobs[w].cmd.kind = "bind" /\ at \in {"bindings", "save"} => note \in DOMAIN notes,
         at \in {"create", "save"} => jobs'[w].seen = aliases
  PROVE  InkInv'
<1>1. JobInv(jobs[w])'
  BY RunningJob DEF Goes, JobInv, IsJob, InkInv, StoreInv
<1>2. SoleJob(jobs[w])'
  BY DEF SoleJob, Goes
<1> QED BY <1>1, <1>2, LocalStep DEF Goes, InkInv, StoreInv, InkForm, ToldInv

LEMMA HandleStep == ASSUME InkInv, NEW w \in Workers, Handle(w) PROVE InkInv'
<1> DEFINE no == FALSE
<1>1. PICK c \in inkWorld.commands :
        jobs' = [jobs EXCEPT ![w] = [cmd |-> c, at |-> "load", seen |-> NoJob, note |-> NoNote,
          request |-> NoJob, rev |-> 0, again |-> no, attempt |-> 0]]
  BY DEF Handle
<1>2. UNCHANGED <<inkWorld, edits, aliases, cached, pending, notes, served, uploads, told>>
  BY DEF Handle, Same, inkStore, server
<1> HIDE DEF no
<1>3. jobs = [x \in Workers |-> jobs[x]]
  BY DEF InkInv, InkForm
<1>4. Only(w) /\ jobs'[w] = [cmd |-> c, at |-> "load", seen |-> NoJob, note |-> NoNote,
          request |-> NoJob, rev |-> 0, again |-> no, attempt |-> 0]
  BY <1>1, <1>3 DEF Only
<1>5. JobInv(jobs[w])'
  BY <1>2, <1>4 DEF JobInv, IsJob, AfterPrepare
<1>6. SoleJob(jobs[w])'
  BY <1>4 DEF SoleJob
<1> QED BY <1>2, <1>4, <1>5, <1>6, LocalStep DEF InkInv, InkForm, StoreInv, ToldInv

LEMMA InkFailsStep == ASSUME InkInv, NEW w \in Workers, InkFails(w) PROVE InkInv'
BY InkEndStep DEF InkFails, Same, inkStore, server, InkInv, InkForm, StoreInv

LEMMA NewLoadStep == ASSUME InkInv, NEW w \in Workers, NewLoad(w) PROVE InkInv'
<1>1. UNCHANGED <<inkWorld, edits, aliases, cached, pending, notes, served, uploads>> /\ jobs[w] # NoJob
      /\ jobs[w].cmd.kind = "new"
  BY DEF NewLoad, Same, inkStore, server, At
<1>2. CASE End(w, "exists")
  BY <1>1, <1>2, InkEndStep DEF InkInv, InkForm, StoreInv
<1>3. CASE Becomes(w, [jobs[w] EXCEPT !.at = "create", !.seen = aliases])
  <2>1. Goes(w, "create", jobs[w].note, jobs[w].request) /\ jobs'[w].seen = aliases /\ told' = told
    BY <1>1, <1>3, InkSees
  <2> QED BY <1>1, <2>1, OtherGoesOn DEF InkInv, StoreInv
<1> QED BY <1>2, <1>3 DEF NewLoad

LEMMA HitsAreNotes == ASSUME InkInv, NEW hits \in Hits PROVE \A i \in DOMAIN hits : hits[i] \in DOMAIN notes
BY DEF Hits, InkInv, InkForm

LEMMA FindStep == ASSUME InkInv, NEW w \in Workers, Find(w) PROVE InkInv'
<1>1. End(w, "found") /\ UNCHANGED <<inkWorld, notes, served, pending, edits, uploads, aliases>>
  BY DEF Find, Same, server
<1>2. \A i \in DOMAIN cached' : cached'[i] \in DOMAIN notes
  BY HitsAreNotes DEF Find, InkInv, StoreInv
<1> QED BY <1>1, <1>2, InkEndStep DEF InkInv, InkForm, StoreInv

LEMMA ChosenStep ==
  ASSUME InkInv, NEW w \in Workers, At(w, "bind", "load"), NEW note \in DOMAIN notes, Chosen(w, note),
         UNCHANGED <<inkWorld, notes, served, pending, edits, uploads, aliases>>,
         \A i \in DOMAIN cached' : cached'[i] \in DOMAIN notes
  PROVE  InkInv'
<1>1. Goes(w, "bindings", note, jobs[w].request) /\ told' = told
  BY InkTakes DEF Chosen, At
<1> QED BY <1>1, OtherGoesOn DEF At

LEMMA ResolveStep == ASSUME InkInv, NEW w \in Workers, Resolve(w) PROVE InkInv'
<1>1. At(w, "bind", "load") /\ UNCHANGED <<inkWorld, notes, served, pending, edits, uploads, aliases>>
  BY DEF Resolve, Same, server
<1>2. \A i \in DOMAIN cached' : cached'[i] \in DOMAIN notes
  BY HitsAreNotes DEF Resolve, InkInv, StoreInv
<1>3. ASSUME NEW answer \in {"failed", "choices"}, End(w, answer) PROVE InkInv'
  BY <1>1, <1>2, <1>3, InkEndStep DEF InkInv, InkForm, StoreInv
<1>4. ASSUME NEW note \in DOMAIN notes, Chosen(w, note) PROVE InkInv'
  BY <1>1, <1>2, <1>4, ChosenStep
<1>5. CASE Chosen(w, 1)
  BY <1>4, <1>5 DEF InkInv, InkForm
<1>6. CASE IF Len(cached) < 2 THEN End(w, "failed") ELSE Chosen(w, cached[2])
  <2>1. CASE Len(cached) < 2
    BY <1>3, <1>6, <2>1
  <2>2. CASE ~(Len(cached) < 2)
    <3>1. cached[2] \in DOMAIN notes
      BY <2>2 DEF InkInv, InkForm, StoreInv
    <3> QED BY <1>4, <1>6, <2>2, <3>1
  <2> QED BY <2>1, <2>2
<1>7. ASSUME NEW hits \in Hits, NEW exact \in {0, 1},
             IF hits = <<>> THEN End(w, "failed")
             ELSE IF exact = 1 \/ Len(hits) = 1 THEN Chosen(w, hits[1]) ELSE End(w, "choices")
      PROVE  InkInv'
  <2>1. hits # <<>> => hits[1] \in DOMAIN notes
    BY DEF Hits, InkInv, InkForm
  <2> QED BY <1>3, <1>4, <1>7, <2>1
<1> QED BY <1>5, <1>6, <1>7 DEF Resolve

LEMMA BindingsStep == ASSUME InkInv, NEW w \in Workers, LoadBindings(w) \/ UnbindLoad(w) PROVE InkInv'
<1>1. UNCHANGED <<inkWorld, edits, aliases, cached, pending, notes, served, uploads>> /\ jobs[w] # NoJob
      /\ jobs[w].cmd.kind \in {"bind", "unbind"} /\ (jobs[w].cmd.kind = "bind" => jobs[w].at = "bindings")
  BY DEF LoadBindings, UnbindLoad, Same, inkStore, server, At
<1>2. CASE End(w, "unknown")
  BY <1>1, <1>2, InkEndStep DEF InkInv, InkForm, StoreInv
<1>3. CASE Becomes(w, [jobs[w] EXCEPT !.at = "save", !.seen = aliases])
  <2>1. Goes(w, "save", jobs[w].note, jobs[w].request) /\ jobs'[w].seen = aliases /\ told' = told
    BY <1>1, <1>3, InkSees
  <2>2. jobs[w].cmd.kind = "bind" => jobs[w].note \in DOMAIN notes
    BY <1>1, RunningJob DEF JobInv
  <2> QED BY <1>1, <2>1, <2>2, OtherGoesOn DEF InkInv, StoreInv
<1> QED BY <1>2, <1>3 DEF LoadBindings, UnbindLoad

LEMMA SaveBindingsStep == ASSUME InkInv, NEW w \in Workers, SaveBindings(w) PROVE InkInv'
<1>1. UNCHANGED <<inkWorld, edits, cached, pending, notes, served, uploads>> /\ jobs[w] # NoJob /\ End(w, "saved")
      /\ jobs[w].cmd.kind \in {"new", "bind", "unbind"} /\ jobs[w].at = "save"
  BY DEF SaveBindings, Same, server, At
<1>2. /\ \A a \in DOMAIN jobs[w].seen : jobs[w].seen[a] \in DOMAIN notes
      /\ jobs[w].cmd.kind # "unbind" => jobs[w].note \in DOMAIN notes
  BY <1>1, RunningJob DEF JobInv
<1>3. \A a \in DOMAIN aliases' : aliases'[a] \in DOMAIN notes
  <2>1. CASE jobs[w].cmd.kind = "unbind"
    <3>1. aliases' = [a \in DOMAIN jobs[w].seen \ {jobs[w].cmd.alias} |-> jobs[w].seen[a]]
      BY <2>1 DEF SaveBindings
    <3> QED BY <1>2, <3>1
  <2>2. CASE jobs[w].cmd.kind # "unbind"
    <3>1. aliases' = Updated(jobs[w].seen, jobs[w].cmd.alias, jobs[w].note)
      BY <2>2 DEF SaveBindings
    <3> QED BY <1>2, <2>2, <3>1 DEF Updated
  <2> QED BY <2>1, <2>2
<1> QED BY <1>1, <1>3, InkEndStep DEF InkInv, InkForm, StoreInv

-----------------------------------------------------------------------------
(* Inkstone: a write up to its request.                                     *)

\* A write that goes on, and leaves storage and server alone.
LEMMA WriteGoesOn ==
  ASSUME InkInv, NEW w \in Workers, jobs[w] # NoJob, jobs[w].cmd.kind = "write", NEW at, NEW note \in DOMAIN notes,
         NEW request, Goes(w, at, note, request),
         UNCHANGED <<inkWorld, notes, served, pending, told, edits, aliases, cached>>, uploads' \in Nat,
         at \notin {"create", "save", "done"},
         at \in AfterPrepare => GoodRequest(request) /\ request.op = WriteOp(jobs[w].cmd, note),
         inkWorld.workers = 1 /\ at = "edit" =>
           /\ WriteOp(jobs[w].cmd, note) \in DOMAIN pending
           /\ pending[WriteOp(jobs[w].cmd, note)].request = request,
         inkWorld.workers = 1 /\ at \in {"fetch", "prepare", "store", "refetch", "restore"} =>
           WriteOp(jobs[w].cmd, note) \notin DOMAIN served
  PROVE  InkInv'
<1>1. Grown
  BY DEF Grown
<1>2. at \in AfterPrepare => GoodRequest(request)'
  BY <1>1, GoodStays
<1>3. JobInv(jobs[w])'
  BY <1>2, RunningJob DEF Goes, JobInv, IsJob
<1>4. inkWorld.workers = 1 => SoleJob(jobs[w])'
  BY DEF SoleJob, Goes
<1> QED BY <1>3, <1>4, LocalStep DEF Goes, InkInv, StoreInv, InkForm, ToldInv

\* What is known of a write that waits for its storage or for the server.
LEMMA RunningWrite ==
  ASSUME InkInv, NEW w \in Workers, NEW at, At(w, "write", at)
  PROVE  /\ jobs[w] # NoJob /\ jobs[w].cmd.kind = "write" /\ jobs[w].at = at
         /\ jobs[w].cmd \in inkWorld.commands /\ jobs[w].rev \in Nat
         /\ at # "load" => jobs[w].note \in DOMAIN notes /\ jobs[w].note \in Nat
         /\ at \in AfterPrepare => GoodRequest(jobs[w].request) /\ jobs[w].request.op = OpOf(w)
         /\ at = "done" => Written(OpOf(w))
         /\ inkWorld.workers = 1 /\ at \in {"edit", "done"} =>
              OpOf(w) \in DOMAIN pending /\ pending[OpOf(w)].request = jobs[w].request
         /\ inkWorld.workers = 1 /\ at \in {"fetch", "prepare", "store", "refetch", "restore"} =>
              OpOf(w) \notin DOMAIN served
         /\ OpOf(w) = WriteOp(jobs[w].cmd, jobs[w].note) /\ OpOf(w).kind = "write"
<1>1. jobs[w] # NoJob /\ jobs[w].cmd.kind = "write" /\ jobs[w].at = at
  BY DEF At
<1>2. JobInv(jobs[w]) /\ jobs[w].cmd \in inkWorld.commands /\ jobs[w].rev \in Nat
  BY <1>1, RunningJob
<1>3. inkWorld.workers = 1 => SoleJob(jobs[w])
  BY DEF InkInv, SoleInv, Workers
<1>4. OpOf(w) = WriteOp(jobs[w].cmd, jobs[w].note) /\ OpOf(w).kind = "write"
  BY DEF OpOf, WriteOp
<1>5. DOMAIN notes \subseteq Nat
  BY DEF InkInv, InkForm
<1>6. at # "load" => jobs[w].note \in DOMAIN notes /\ jobs[w].note \in Nat
  BY <1>1, <1>2, <1>5 DEF JobInv
<1>7. at \in AfterPrepare => GoodRequest(jobs[w].request) /\ jobs[w].request.op = OpOf(w)
  BY <1>1, <1>2, <1>4 DEF JobInv
<1>8. at = "done" => Written(OpOf(w))
  BY <1>1, <1>2, <1>4 DEF JobInv
<1>9. inkWorld.workers = 1 /\ at \in {"edit", "done"} =>
        OpOf(w) \in DOMAIN pending /\ pending[OpOf(w)].request = jobs[w].request
  BY <1>1, <1>3, <1>4 DEF SoleJob
<1>10. inkWorld.workers = 1 /\ at \in {"fetch", "prepare", "store", "refetch", "restore"} =>
        OpOf(w) \notin DOMAIN served
  BY <1>1, <1>3, <1>4 DEF SoleJob
<1> QED BY <1>1, <1>2, <1>4, <1>6, <1>7, <1>8, <1>9, <1>10

LEMMA WriteMoves ==
  ASSUME InkInv, NEW w \in Workers, NEW old, old # "load", At(w, "write", old), NEW at, NEW request,
         Goes(w, at, jobs[w].note, request),
         UNCHANGED <<inkWorld, notes, served, pending, told, edits, aliases, cached>>, uploads' \in Nat,
         at \notin {"create", "save", "done"},
         at \in AfterPrepare => GoodRequest(request) /\ request.op = OpOf(w),
         inkWorld.workers = 1 /\ at = "edit" =>
           OpOf(w) \in DOMAIN pending /\ pending[OpOf(w)].request = request,
         inkWorld.workers = 1 /\ at \in {"fetch", "prepare", "store", "refetch", "restore"} =>
           OpOf(w) \notin DOMAIN served
  PROVE  InkInv'
<1>1. PICK note : note = jobs[w].note
  OBVIOUS
<1>2. jobs[w] # NoJob /\ jobs[w].cmd.kind = "write" /\ note \in DOMAIN notes /\ OpOf(w) = WriteOp(jobs[w].cmd, note)
  BY <1>1, RunningWrite
<1>3. Goes(w, at, note, request)
  BY <1>1
<1> QED BY <1>2, <1>3, WriteGoesOn

LEMMA WriteLoadStep == ASSUME InkInv, NEW w \in Workers, WriteLoad(w) PROVE InkInv'
<1>1. UNCHANGED <<inkWorld, edits, aliases, cached, pending, notes, served, uploads>> /\ At(w, "write", "load")
  BY DEF WriteLoad, Same, inkStore, server
<1>2. CASE End(w, "unbound")
  BY <1>1, <1>2, InkEndStep DEF InkInv, InkForm, StoreInv
<1>3. CASE jobs[w].cmd.alias \in DOMAIN aliases
           /\ Becomes(w, [jobs[w] EXCEPT !.at = "pending", !.note = aliases[jobs[w].cmd.alias]])
  <2>1. PICK note \in DOMAIN notes : note = aliases[jobs[w].cmd.alias]
    BY <1>3 DEF InkInv, StoreInv
  <2>2. Goes(w, "pending", note, jobs[w].request) /\ told' = told
    BY <1>1, <1>3, <2>1, InkTakes DEF At
  <2>3. uploads' \in Nat /\ jobs[w] # NoJob /\ jobs[w].cmd.kind = "write"
    BY <1>1 DEF At, InkInv, InkForm
  <2> QED BY <1>1, <2>2, <2>3, WriteGoesOn DEF AfterPrepare
<1> QED BY <1>2, <1>3 DEF WriteLoad

LEMMA LoadPendingStep == ASSUME InkInv, NEW w \in Workers, LoadPending(w) PROVE InkInv'
<1>1. UNCHANGED <<inkWorld, edits, aliases, cached, pending, notes, served, uploads>> /\ At(w, "write", "pending")
  BY DEF LoadPending, Same, inkStore, server
<1>2. CASE Completed(OpOf(w)) /\ End(w, "reused")
  <2>1. Written(OpOf(w))
    BY <1>2 DEF Completed, InkInv, StoreInv
  <2>2. told' = told \cup {OpOf(w)}
    BY <1>2 DEF End, OpOf
  <2>3. Only(w) /\ jobs'[w] = NoJob
    BY <1>2, InkEnds
  <2>4. JobInv(jobs[w])' /\ SoleJob(jobs[w])'
    BY <2>3 DEF JobInv, SoleJob
  <2> QED BY <1>1, <2>1, <2>2, <2>3, <2>4, LocalStep DEF InkInv, InkForm, StoreInv, ToldInv
<1>3. CASE OpOf(w) \in DOMAIN pending
           /\ Becomes(w, [jobs[w] EXCEPT !.at = "edit", !.request = pending[OpOf(w)].request, !.again = FALSE])
  <2>1. PICK request : request = pending[OpOf(w)].request
    OBVIOUS
  <2>2. Goes(w, "edit", jobs[w].note, request) /\ told' = told
    BY <1>1, <1>3, <2>1, InkEdits DEF At
  <2>3. GoodRequest(request) /\ request.op = OpOf(w)
    BY <1>3, <2>1 DEF InkInv, StoreInv
  <2>4. uploads' \in Nat
    BY <1>1 DEF InkInv, InkForm
  <2> QED BY <1>1, <1>3, <2>1, <2>2, <2>3, <2>4, WriteMoves
<1>4. CASE OpOf(w) \notin DOMAIN pending /\ JobAt(w, "fetch")
  <2>1. Goes(w, "fetch", jobs[w].note, jobs[w].request) /\ told' = told
    BY <1>1, <1>4, InkMoves DEF At
  <2>2. inkWorld.workers = 1 => OpOf(w) \notin DOMAIN served
    BY <1>1, <1>4, RunningWrite DEF InkInv, SoleInv, Repeatable
  <2>3. uploads' \in Nat
    BY <1>1 DEF InkInv, InkForm
  <2> QED BY <1>1, <2>1, <2>2, <2>3, WriteMoves DEF AfterPrepare
<1> QED BY <1>2, <1>3, <1>4 DEF LoadPending

LEMMA FetchNoteStep == ASSUME InkInv, NEW w \in Workers, FetchNote(w) PROVE InkInv'
<1>1. /\ UNCHANGED <<inkWorld, edits, aliases, cached, pending, notes, served, uploads>> /\ At(w, "write", "fetch")
      /\ Becomes(w, [jobs[w] EXCEPT !.at = "prepare", !.rev = notes[jobs[w].note].rev])
  BY DEF FetchNote, Same, inkStore, server
<1>2. PICK rev \in Nat : rev = notes[jobs[w].note].rev
  BY <1>1, RunningWrite, NoteForm
<1>3. Goes(w, "prepare", jobs[w].note, jobs[w].request) /\ told' = told
  BY <1>1, <1>2, InkFetches DEF At
<1>4. uploads' \in Nat /\ (inkWorld.workers = 1 => OpOf(w) \notin DOMAIN served)
  BY <1>1, RunningWrite DEF InkInv, InkForm
<1> QED BY <1>1, <1>3, <1>4, WriteMoves DEF AfterPrepare

LEMMA PrepareEntryStep == ASSUME InkInv, NEW w \in Workers, PrepareEntry(w) PROVE InkInv'
<1> DEFINE c == jobs[w].cmd
           file == IF HasMedia(c) THEN uploads' ELSE 0
           request == [op |-> OpOf(w), note |-> jobs[w].note, rev |-> jobs[w].rev, text |-> EntryText(c, file)]
<1>1. /\ UNCHANGED <<inkWorld, edits, aliases, cached, pending, notes, served>> /\ At(w, "write", "prepare")
      /\ IF Refused(c) THEN End(w, "failed") /\ UNCHANGED uploads
         ELSE uploads' = Uploaded(c) /\ Becomes(w, [jobs[w] EXCEPT !.at = "store", !.rev = 0, !.request = request])
  BY DEF PrepareEntry, Same, inkStore
<1>2. CASE End(w, "failed") /\ UNCHANGED uploads
  BY <1>1, <1>2, InkEndStep DEF InkInv, InkForm, StoreInv
<1>3. CASE uploads' = Uploaded(c) /\ Becomes(w, [jobs[w] EXCEPT !.at = "store", !.rev = 0, !.request = request])
  <2>1. uploads' \in Nat /\ file \in Nat
    BY <1>3 DEF Uploaded, InkInv, InkForm
  <2>2. c \in inkWorld.commands /\ c.kind = "write"
    BY <1>1, RunningWrite
  <2>3. edits[Source(c)] \in Nat
    BY <2>2 DEF InkInv, InkForm, InkMessages
  <2>4. EntryText(c, file) \in TextSet /\ EntryText(c, file).source = Source(c)
    BY <2>1, <2>2, <2>3 DEF EntryText, TextSet
  <2> HIDE DEF file
  <2>5. OpOf(w) \in OpSet /\ OpOf(w) = WriteOp(c, jobs[w].note)
    BY <1>1, <2>2, RunningWrite, OpIsKnown
  <2>6. /\ request.op = OpOf(w) /\ request.note = jobs[w].note /\ request.text = EntryText(c, file)
        /\ request \in RequestSet
    BY <1>1, <2>4, <2>5, RunningWrite DEF RequestSet
  <2>7. GoodRequest(request)
    BY <1>1, <2>2, <2>4, <2>5, <2>6, RunningWrite DEF GoodRequest, Fits
  <2> HIDE DEF request
  <2>8. Goes(w, "store", jobs[w].note, request) /\ told' = told
    BY <1>1, <1>3, InkPrepares DEF At
  <2>9. inkWorld.workers = 1 => OpOf(w) \notin DOMAIN served
    BY <1>1, RunningWrite
  <2>10. PICK r : r = request
    OBVIOUS
  <2>11. Goes(w, "store", jobs[w].note, r) /\ GoodRequest(r) /\ r.op = OpOf(w)
    BY <2>6, <2>7, <2>8, <2>10
  <2> QED BY <1>1, <2>1, <2>8, <2>9, <2>11, WriteMoves
<1> QED BY <1>1, <1>2, <1>3

LEMMA RefetchStep == ASSUME InkInv, NEW w \in Workers, Refetch(w) PROVE InkInv'
<1> DEFINE old == jobs[w].request
           request == [old EXCEPT !.rev = notes[jobs[w].note].rev]
<1>1. /\ UNCHANGED <<inkWorld, edits, aliases, cached, pending, notes, served, uploads>> /\ At(w, "write", "refetch")
      /\ Becomes(w, [jobs[w] EXCEPT !.at = "restore", !.request = request])
  BY DEF Refetch, Same, inkStore, server
<1>2. notes[jobs[w].note].rev \in Nat
  BY <1>1, RunningWrite, NoteForm
<1>3. GoodRequest(old) /\ old.op = OpOf(w)
  BY <1>1, RunningWrite DEF AfterPrepare
<1> HIDE DEF old
<1>4. request \in RequestSet /\ request.op = old.op /\ request.note = old.note /\ request.text = old.text
  BY <1>2, <1>3 DEF GoodRequest, RequestSet
<1>5. GoodRequest(request) /\ request.op = OpOf(w)
  BY <1>3, <1>4 DEF GoodRequest
<1> HIDE DEF request
<1>6. Goes(w, "restore", jobs[w].note, request) /\ told' = told
  BY <1>1, InkRequests DEF At
<1>7. uploads' \in Nat /\ (inkWorld.workers = 1 => OpOf(w) \notin DOMAIN served)
  BY <1>1, RunningWrite DEF InkInv, InkForm
<1>8. PICK r : r = request
  OBVIOUS
<1>9. Goes(w, "restore", jobs[w].note, r) /\ GoodRequest(r) /\ r.op = OpOf(w)
  BY <1>5, <1>6, <1>8
<1> QED BY <1>1, <1>6, <1>7, <1>9, WriteMoves

-----------------------------------------------------------------------------
(* Inkstone: what is stored of a write.                                     *)

LEMMA PendingStep ==
  ASSUME InkInv, NEW w \in Workers, Only(w), NEW op, NEW row, op.kind = "write",
         UNCHANGED <<inkWorld, notes, served, edits, uploads, aliases, cached>>,
         pending' = Updated(pending, op, row), GoodRequest(row.request), row.request.op = op,
         row.completed => Written(op), \A o \in told' : Written(o), JobInv(jobs[w])',
         inkWorld.workers = 1 => /\ SoleJob(jobs[w])'
                                 /\ op \in DOMAIN served => served[op].request = row.request
  PROVE  InkInv'
<1>1. Grown
  BY DEF Grown
<1>2. InkForm'
  BY Frozen DEF InkInv, InkForm, Only
<1>3. EntriesInv' /\ ServedInv'
  BY DEF InkInv, EntriesInv, ServedInv, Fits, Written
<1>4. ToldInv'
  BY <1>1, WrittenStays DEF ToldInv
<1>5. pending' = [o \in DOMAIN pending \cup {op} |-> IF o = op THEN row ELSE pending[o]]
  BY DEF Updated
<1>6. StoreInv'
  <2>1. ASSUME NEW o \in DOMAIN pending'
        PROVE  /\ GoodRequest(pending'[o].request) /\ pending'[o].request.op = o
               /\ pending'[o].completed => Written(o)
    <3>1. CASE o = op
      BY <1>5, <3>1
    <3>2. CASE o # op
      <4>1. o \in DOMAIN pending /\ pending'[o] = pending[o]
        BY <1>5, <3>2
      <4> QED BY <4>1 DEF InkInv, StoreInv
    <3> QED BY <3>1, <3>2
  <2>2. ASSUME NEW o \in DOMAIN pending' PROVE GoodRequest(pending[o].request)'
    <3>1. PICK r : r = pending'[o].request
      OBVIOUS
    <3>2. GoodRequest(r)'
      BY <1>1, <2>1, <3>1, GoodStays
    <3> QED BY <3>1, <3>2
  <2>3. ASSUME NEW o \in DOMAIN pending', pending'[o].completed PROVE Written(o)'
    BY <1>1, <2>1, <2>3, WrittenStays
  <2>4. /\ \A a \in DOMAIN aliases' : aliases'[a] \in DOMAIN notes'
        /\ \A i \in DOMAIN cached' : cached'[i] \in DOMAIN notes'
    BY DEF InkInv, StoreInv
  <2> QED BY <2>1, <2>2, <2>3, <2>4 DEF StoreInv
<1>7. \A x \in Workers' : JobInv(jobs[x])'
  BY <1>1, OtherJobsStay
<1>8. SoleInv'
  <2> SUFFICES ASSUME inkWorld.workers = 1 PROVE Repeatable' /\ SoleJob(jobs[1])'
    BY DEF SoleInv
  <2>1. w = 1
    BY DEF Workers
  <2>2. \A o \in DOMAIN served : o.kind = "write" => o \in DOMAIN pending /\ pending[o].request = served[o].request
    BY DEF InkInv, SoleInv, Repeatable
  <2>3. ASSUME NEW o \in DOMAIN served', o.kind = "write"
        PROVE  o \in DOMAIN pending' /\ pending'[o].request = served'[o].request
    BY <1>5, <2>2, <2>3
  <2>4. Repeatable'
    BY <2>3 DEF Repeatable
  <2> QED BY <2>1, <2>4
<1> QED BY <1>2, <1>3, <1>4, <1>6, <1>7, <1>8 DEF InkInv

LEMMA SavePendingStep == ASSUME InkInv, NEW w \in Workers, SavePending(w) PROVE InkInv'
<1> DEFINE no == FALSE
<1>1. PICK row : row = [request |-> jobs[w].request, completed |-> no]
  OBVIOUS
<1>2. /\ UNCHANGED <<inkWorld, notes, served, edits, uploads, aliases, cached>> /\ At(w, "write", "store")
      /\ pending' = Updated(pending, OpOf(w), row) /\ Becomes(w, [jobs[w] EXCEPT !.at = "edit", !.again = no])
  BY <1>1 DEF SavePending, Same, server, Recorded
<1>3. ~no
  OBVIOUS
<1> HIDE DEF no
<1>4. Goes(w, "edit", jobs[w].note, jobs[w].request) /\ told' = told
  BY <1>2, InkSaves DEF At
<1>5. /\ GoodRequest(jobs[w].request) /\ jobs[w].request.op = OpOf(w) /\ OpOf(w).kind = "write"
      /\ OpOf(w) = WriteOp(jobs[w].cmd, jobs[w].note) /\ jobs[w].note \in DOMAIN notes
      /\ inkWorld.workers = 1 => OpOf(w) \notin DOMAIN served
  BY <1>2, RunningWrite DEF AfterPrepare
<1>6. row.request = jobs[w].request /\ ~row.completed
  BY <1>1, <1>3
<1>7. GoodRequest(jobs[w].request)'
  <2>1. PICK r : r = jobs[w].request /\ GoodRequest(r)
    BY <1>5
  <2>2. GoodRequest(r)'
    BY <1>2, <2>1, GoodStays DEF Grown
  <2> QED BY <1>4, <2>1, <2>2 DEF Goes
<1>8. JobInv(jobs[w])'
  BY <1>2, <1>4, <1>5, <1>7, RunningWrite DEF Goes, JobInv, IsJob
<1>9. SoleJob(jobs[w])'
  <2>1. OpOf(w) \in DOMAIN pending' /\ pending'[OpOf(w)].request = jobs[w].request
    BY <1>2, <1>6 DEF Updated
  <2> QED BY <1>4, <1>5, <2>1 DEF Goes, SoleJob
<1>10. PICK op : op = OpOf(w)
  OBVIOUS
<1> QED BY <1>2, <1>4, <1>5, <1>6, <1>8, <1>9, <1>10, PendingStep DEF Goes, InkInv, ToldInv

LEMMA SaveRefetchedStep == ASSUME InkInv, NEW w \in Workers, SaveRefetched(w) PROVE InkInv'
<1> DEFINE no == FALSE
<1>1. PICK row : row = [request |-> jobs[w].request, completed |-> no]
  OBVIOUS
<1>2. /\ UNCHANGED <<inkWorld, notes, served, edits, uploads, aliases, cached>> /\ At(w, "write", "restore")
      /\ pending' = Updated(pending, OpOf(w), row) /\ Becomes(w, [jobs[w] EXCEPT !.at = "pending", !.attempt = 1])
  BY <1>1 DEF SaveRefetched, Same, server
<1>3. ~no
  OBVIOUS
<1> HIDE DEF no
<1>4. Goes(w, "pending", jobs[w].note, jobs[w].request) /\ told' = told
  BY <1>2, InkAttempts DEF At
<1>5. /\ GoodRequest(jobs[w].request) /\ jobs[w].request.op = OpOf(w) /\ OpOf(w).kind = "write"
      /\ jobs[w].note \in DOMAIN notes
      /\ inkWorld.workers = 1 => OpOf(w) \notin DOMAIN served
  BY <1>2, RunningWrite DEF AfterPrepare
<1>6. row.request = jobs[w].request /\ ~row.completed
  BY <1>1, <1>3
<1>7. JobInv(jobs[w])'
  BY <1>2, <1>4, <1>5, RunningWrite DEF Goes, JobInv, IsJob, AfterPrepare
<1>8. SoleJob(jobs[w])'
  BY <1>4 DEF Goes, SoleJob
<1>9. PICK op : op = OpOf(w)
  OBVIOUS
<1> QED BY <1>2, <1>4, <1>5, <1>6, <1>7, <1>8, <1>9, PendingStep DEF Goes, InkInv, ToldInv

LEMMA SaveCompletedStep == ASSUME InkInv, NEW w \in Workers, SaveCompleted(w) PROVE InkInv'
<1> DEFINE yes == TRUE
<1>1. PICK row : row = [request |-> jobs[w].request, completed |-> yes]
  OBVIOUS
<1>2. /\ UNCHANGED <<inkWorld, notes, served, edits, uploads, aliases, cached>> /\ At(w, "write", "done")
      /\ pending' = Updated(pending, OpOf(w), row) /\ End(w, "written")
  BY <1>1 DEF SaveCompleted, Same, server
<1> HIDE DEF yes
<1>3. Only(w) /\ jobs'[w] = NoJob
  BY <1>2, InkEnds
<1>4. /\ GoodRequest(jobs[w].request) /\ jobs[w].request.op = OpOf(w) /\ OpOf(w).kind = "write"
      /\ OpOf(w) = WriteOp(jobs[w].cmd, jobs[w].note) /\ Written(OpOf(w))
      /\ inkWorld.workers = 1 => OpOf(w) \in DOMAIN pending /\ pending[OpOf(w)].request = jobs[w].request
  BY <1>2, RunningWrite DEF AfterPrepare
<1>5. row.request = jobs[w].request
  BY <1>1
<1>6. JobInv(jobs[w])' /\ SoleJob(jobs[w])'
  BY <1>3 DEF JobInv, SoleJob
<1>7. told' = told \cup {OpOf(w)}
  BY <1>2, <1>4 DEF End
<1>8. inkWorld.workers = 1 /\ OpOf(w) \in DOMAIN served => served[OpOf(w)].request = row.request
  BY <1>4, <1>5 DEF InkInv, SoleInv, Repeatable
<1>9. PICK op : op = OpOf(w)
  OBVIOUS
<1>10. \A o \in told' : Written(o)
  BY <1>4, <1>7 DEF InkInv, ToldInv
<1> QED BY <1>2, <1>3, <1>4, <1>5, <1>6, <1>8, <1>9, <1>10, PendingStep

-----------------------------------------------------------------------------
(* Inkstone: the server, and what a command makes of its answer.            *)

\* The notes and the operations that are known fit together.
NotesGood == notes \in Seq([rev : Nat, entries : Seq(EntrySet)]) /\ 1 \in DOMAIN notes

LEMMA AnyStep ==
  ASSUME InkInv, Grown, NotesGood', EntriesInv', ServedInv', jobs' = [x \in Workers |-> jobs'[x]],
         UNCHANGED <<aliases, pending, told>>, edits' \in [InkMessages -> Nat], uploads' = uploads,
         \A i \in DOMAIN cached' : cached'[i] \in DOMAIN notes,
         \A x \in Workers' : JobInv(jobs[x])', SoleInv'
  PROVE  InkInv'
<1>1. InkForm'
  BY Frozen DEF Grown, InkInv, InkForm, NotesGood
<1>2. ToldInv'
  BY WrittenStays DEF ToldInv, InkInv
<1>3. StoreInv'
  <2>1. ASSUME NEW o \in DOMAIN pending
        PROVE  GoodRequest(pending[o].request)' /\ (pending[o].completed => Written(o)')
    <3>1. PICK r : r = pending[o].request
      OBVIOUS
    <3>2. GoodRequest(r) /\ (pending[o].completed => Written(o))
      BY <3>1 DEF InkInv, StoreInv
    <3>3. GoodRequest(r)' /\ (pending[o].completed => Written(o)')
      BY <3>2, GoodStays, WrittenStays
    <3>4. pending' = pending
      OBVIOUS
    <3> QED BY <3>1, <3>3, <3>4
  <2>2. \A o \in DOMAIN pending : pending[o].request.op = o
    BY DEF InkInv, StoreInv
  <2>3. /\ \A a \in DOMAIN aliases' : aliases'[a] \in DOMAIN notes'
        /\ \A i \in DOMAIN cached' : cached'[i] \in DOMAIN notes'
    BY DEF InkInv, StoreInv, Grown
  <2> QED BY <2>1, <2>2, <2>3 DEF StoreInv
<1> QED BY <1>1, <1>2, <1>3 DEF InkInv

LEMMA EnvironmentStep == ASSUME InkInv, NoteChanges \/ MessageEdited \/ SearchAges PROVE InkInv'
<1>1. UNCHANGED <<inkWorld, aliases, pending, served, uploads, jobs, told>>
  BY DEF NoteChanges, MessageEdited, SearchAges, inkStore, server
<1>2. edits' \in [InkMessages -> Nat]
  <2>1. edits \in [InkMessages -> Nat]
    BY DEF InkInv, InkForm
  <2>2. ASSUME NEW m \in InkMessages, edits' = [edits EXCEPT ![m] = @ + 1] PROVE edits' \in [InkMessages -> Nat]
    BY <2>1, <2>2
  <2>3. edits' = edits \/ \E m \in InkMessages : edits' = [edits EXCEPT ![m] = @ + 1]
    BY DEF NoteChanges, MessageEdited, SearchAges
  <2> QED BY <2>1, <2>2, <2>3
<1>3. \A i \in DOMAIN cached' : cached'[i] \in DOMAIN notes
  BY DEF NoteChanges, MessageEdited, SearchAges, inkStore, InkInv, StoreInv
<1>4. /\ NotesGood' /\ DOMAIN notes' = DOMAIN notes
      /\ \A n \in DOMAIN notes : notes'[n].entries = notes[n].entries
  <2> DEFINE Set == [rev : Nat, entries : Seq(EntrySet)]
  <2>0. EntrySet' = EntrySet
    BY <1>1, Frozen
  <2>1. CASE notes' = notes
    BY <2>0, <2>1 DEF InkInv, InkForm, NotesGood
  <2>2. ASSUME NEW n \in DOMAIN notes, notes' = [notes EXCEPT ![n].rev = @ + 1]
        PROVE  /\ NotesGood' /\ DOMAIN notes' = DOMAIN notes
               /\ \A k \in DOMAIN notes : notes'[k].entries = notes[k].entries
    <3>1. notes[n] \in Set /\ notes \in Seq(Set) /\ 1 \in DOMAIN notes
      BY NoteForm DEF InkInv, InkForm
    <3>2. PICK new : new = [notes[n] EXCEPT !.rev = @ + 1]
      OBVIOUS
    <3>3. new \in Set /\ new.entries = notes[n].entries
      <4>1. PICK old : old = notes[n]
        OBVIOUS
      <4>2. old \in Set /\ new = [old EXCEPT !.rev = old.rev + 1]
        BY <3>1, <3>2, <4>1
      <4>3. new \in Set /\ new.entries = old.entries
        BY <4>2
      <4> QED BY <4>1, <4>3
    <3>4. notes' = [notes EXCEPT ![n] = new]
      BY <2>2, <3>2
    <3> HIDE DEF Set
    <3>5. notes' \in Seq(Set) /\ DOMAIN notes' = DOMAIN notes
      BY <3>1, <3>3, <3>4
    <3>6. \A k \in DOMAIN notes : notes'[k].entries = notes[k].entries
      BY <3>1, <3>3, <3>4
    <3> QED BY <2>0, <3>1, <3>5, <3>6 DEF NotesGood, Set
  <2> QED BY <2>1, <2>2 DEF NoteChanges, MessageEdited, SearchAges, server
<1>5. Grown
  BY <1>1, <1>4 DEF Grown
<1>6. EntriesInv'
  BY <1>1, <1>4 DEF InkInv, EntriesInv, Fits
<1>7. ServedInv'
  BY <1>1, <1>4 DEF InkInv, ServedInv, Written
<1>8. \A x \in Workers' : JobInv(jobs[x])'
  BY <1>1, <1>5, JobStays, Frozen DEF InkInv
<1>9. SoleInv'
  BY <1>1 DEF InkInv, SoleInv, SoleJob, Repeatable
<1> QED BY <1>1, <1>2, <1>3, <1>4, <1>5, <1>6, <1>7, <1>8, <1>9, AnyStep DEF InkInv, InkForm

LEMMA AppliedWrite ==
  ASSUME InkInv, NEW r, GoodRequest(r), r.op.kind = "write", r.op \notin DOMAIN served, Performed(r),
         inkWorld' = inkWorld
  PROVE  /\ Grown /\ NotesGood' /\ EntriesInv' /\ ServedInv' /\ Written(r.op)'
         /\ DOMAIN served' = DOMAIN served \cup {r.op} /\ served'[r.op].request = r
         /\ \A o \in DOMAIN served : served'[o] = served[o]
<1> DEFINE Set == [rev : Nat, entries : Seq(EntrySet)]
<1>1. PICK entry : entry = [op |-> r.op, text |-> r.text]
  OBVIOUS
<1>2. entry.op = r.op /\ entry.text = r.text /\ entry \in EntrySet /\ r.note \in DOMAIN notes /\ Fits(r.op, r.note, r.text)
  BY <1>1 DEF GoodRequest, RequestSet, EntrySet
<1>3. PICK note : note = notes[r.note]
  OBVIOUS
<1>4. note.rev \in Nat /\ note.entries \in Seq(EntrySet) /\ note \in Set
  BY <1>2, <1>3, NoteForm DEF InkInv, InkForm
<1>5. PICK new : new = Appended(note, r)
  OBVIOUS
<1>6. new \in Set /\ new.entries = Append(note.entries, entry)
  <2>1. PICK one : one = [note EXCEPT !.rev = note.rev + 1]
    OBVIOUS
  <2>2. one = [rev |-> note.rev + 1, entries |-> note.entries]
    BY <1>4, <2>1
  <2>3. PICK all : all = Append(note.entries, entry)
    OBVIOUS
  <2>4. all \in Seq(EntrySet)
    BY <1>2, <1>4, <2>3
  <2>5. new = [one EXCEPT !.entries = all]
    BY <1>1, <1>5, <2>1, <2>2, <2>3 DEF Appended
  <2>6. new = [rev |-> note.rev + 1, entries |-> all]
    BY <2>2, <2>5
  <2> QED BY <1>4, <2>3, <2>4, <2>6
<1>7. notes' = [notes EXCEPT ![r.note] = new]
  BY <1>3, <1>5 DEF Performed
<1>8. served' = Updated(served, r.op, [request |-> r, note |-> r.note])
  BY DEF Performed
<1> HIDE DEF Set
<1>9. notes \in Seq(Set) /\ 1 \in DOMAIN notes
  BY DEF InkInv, InkForm, Set
<1>10. /\ notes' \in Seq(Set) /\ DOMAIN notes' = DOMAIN notes
       /\ notes'[r.note] = new /\ \A n \in DOMAIN notes : n # r.note => notes'[n] = notes[n]
  BY <1>2, <1>6, <1>7, <1>9
<1>11. NotesGood'
  BY <1>9, <1>10, Frozen DEF NotesGood, Set
<1>12. /\ DOMAIN new.entries = DOMAIN note.entries \cup {Len(note.entries) + 1}
       /\ Len(note.entries) + 1 \notin DOMAIN note.entries
       /\ new.entries[Len(note.entries) + 1] = entry
       /\ \A i \in DOMAIN note.entries : new.entries[i] = note.entries[i]
  BY <1>2, <1>4, <1>6
<1>13. Grown
  BY <1>3, <1>10, <1>12 DEF Grown
<1>14. /\ DOMAIN served' = DOMAIN served \cup {r.op} /\ served'[r.op].request = r
       /\ \A o \in DOMAIN served : served'[o] = served[o]
  BY <1>8 DEF Updated
<1>15. Written(r.op)'
  <2>1. r.op.what = r.note
    BY <1>2 DEF Fits, WriteOp
  <2> QED BY <1>2, <1>10, <1>12, <2>1 DEF Written
<1>16. ServedInv'
  <2>1. ASSUME NEW o \in DOMAIN served', o.kind = "write" PROVE Written(o)'
    BY <1>13, <1>14, <1>15, <2>1, WrittenStays DEF InkInv, ServedInv
  <2>2. ASSUME NEW o \in DOMAIN served', o.kind = "new" PROVE served'[o].note \in DOMAIN notes'
    BY <1>10, <1>14, <2>2 DEF InkInv, ServedInv
  <2> QED BY <2>1, <2>2 DEF ServedInv
<1>17. DOMAIN served \subseteq DOMAIN served' /\ r.op \in DOMAIN served'
  BY <1>14
<1>18. ASSUME NEW n \in DOMAIN notes', NEW i \in DOMAIN notes'[n].entries
       PROVE  /\ Fits(notes[n].entries[i].op, n, notes[n].entries[i].text)'
              /\ notes'[n].entries[i].op \in DOMAIN served'
  <2>1. CASE n # r.note \/ i \in DOMAIN note.entries
    <3>1. n \in DOMAIN notes /\ i \in DOMAIN notes[n].entries /\ notes'[n].entries[i] = notes[n].entries[i]
      BY <1>3, <1>10, <1>12, <2>1
    <3>2. Fits(notes[n].entries[i].op, n, notes[n].entries[i].text) /\ notes[n].entries[i].op \in DOMAIN served
      BY <3>1 DEF InkInv, EntriesInv
    <3> QED BY <1>17, <3>1, <3>2 DEF Fits
  <2>2. CASE n = r.note /\ i = Len(note.entries) + 1
    <3>1. notes'[n].entries[i] = entry
      BY <1>10, <1>12, <2>2
    <3> QED BY <1>2, <1>17, <2>2, <3>1 DEF Fits
  <2> QED BY <1>10, <1>12, <2>1, <2>2
<1>19. ASSUME NEW n \in DOMAIN notes', NEW i \in DOMAIN notes'[n].entries, NEW j \in DOMAIN notes'[n].entries, i # j
       PROVE  notes'[n].entries[i].op # notes'[n].entries[j].op
  <2>1. \A k \in DOMAIN notes[n].entries : notes[n].entries[k].op \in DOMAIN served
    BY <1>10 DEF InkInv, EntriesInv
  <2>2. \A k, l \in DOMAIN notes[n].entries : k # l => notes[n].entries[k].op # notes[n].entries[l].op
    BY <1>10 DEF InkInv, EntriesInv
  <2>3. CASE n # r.note
    <3>1. notes'[n] = notes[n]
      BY <1>10, <2>3
    <3> QED BY <1>19, <2>2, <3>1
  <2>4. CASE n = r.note
    <3>1. notes'[n] = new /\ notes[n] = note
      BY <1>3, <1>10, <2>4
    <3>2. CASE i \in DOMAIN note.entries /\ j \in DOMAIN note.entries
      BY <1>12, <1>19, <2>2, <3>1, <3>2
    <3>3. CASE i = Len(note.entries) + 1 /\ j \in DOMAIN note.entries
      BY <1>2, <1>12, <2>1, <3>1, <3>3
    <3>4. CASE j = Len(note.entries) + 1 /\ i \in DOMAIN note.entries
      BY <1>2, <1>12, <2>1, <3>1, <3>4
    <3> QED BY <1>12, <1>19, <3>1, <3>2, <3>3, <3>4
  <2> QED BY <2>3, <2>4
<1>20. EntriesInv'
  BY <1>18, <1>19 DEF EntriesInv
<1> QED BY <1>11, <1>13, <1>14, <1>15, <1>16, <1>20

LEMMA AppliedNew ==
  ASSUME InkInv, NEW r, r.op.kind = "new", r.op \notin DOMAIN served, Performed(r), inkWorld' = inkWorld
  PROVE  /\ Grown /\ NotesGood' /\ EntriesInv' /\ ServedInv'
         /\ DOMAIN served' = DOMAIN served \cup {r.op} /\ served'[r.op].note \in DOMAIN notes'
         /\ \A o \in DOMAIN served : served'[o] = served[o]
<1> DEFINE Set == [rev : Nat, entries : Seq(EntrySet)]
<1>1. PICK new : new = [rev |-> 1, entries |-> <<>>]
  OBVIOUS
<1>2. new \in Set /\ new.entries = <<>>
  BY <1>1
<1>3. notes' = Append(notes, new) /\ served' = Updated(served, r.op, [request |-> r, note |-> Len(notes) + 1])
  BY <1>1 DEF Performed
<1> HIDE DEF Set
<1>4. notes \in Seq(Set) /\ 1 \in DOMAIN notes
  BY DEF InkInv, InkForm, Set
<1>5. /\ notes' \in Seq(Set) /\ DOMAIN notes' = DOMAIN notes \cup {Len(notes) + 1} /\ 1 \in DOMAIN notes'
      /\ notes'[Len(notes) + 1] = new /\ \A n \in DOMAIN notes : notes'[n] = notes[n]
  BY <1>2, <1>3, <1>4
<1>6. NotesGood'
  BY <1>5, Frozen DEF NotesGood, Set
<1>7. Grown
  BY <1>5 DEF Grown
<1>8. /\ DOMAIN served' = DOMAIN served \cup {r.op} /\ served'[r.op].note = Len(notes) + 1
      /\ \A o \in DOMAIN served : served'[o] = served[o]
  BY <1>3 DEF Updated
<1>9. ServedInv'
  <2>1. ASSUME NEW o \in DOMAIN served', o.kind = "write" PROVE Written(o)'
    BY <1>7, <1>8, <2>1, WrittenStays DEF InkInv, ServedInv
  <2>2. ASSUME NEW o \in DOMAIN served', o.kind = "new" PROVE served'[o].note \in DOMAIN notes'
    BY <1>5, <1>8, <2>2 DEF InkInv, ServedInv
  <2> QED BY <2>1, <2>2 DEF ServedInv
<1>10. DOMAIN new.entries = {}
  BY <1>2
<1>11. EntriesInv'
  <2>1. ASSUME NEW n \in DOMAIN notes', NEW i \in DOMAIN notes'[n].entries
        PROVE  /\ n \in DOMAIN notes /\ notes'[n] = notes[n] /\ i \in DOMAIN notes[n].entries
    BY <1>5, <1>10
  <2>2. ASSUME NEW n \in DOMAIN notes', NEW i \in DOMAIN notes'[n].entries
        PROVE  /\ Fits(notes[n].entries[i].op, n, notes[n].entries[i].text)'
               /\ notes'[n].entries[i].op \in DOMAIN served'
    BY <1>8, <2>1 DEF InkInv, EntriesInv, Fits
  <2>3. ASSUME NEW n \in DOMAIN notes', NEW i \in DOMAIN notes'[n].entries, NEW j \in DOMAIN notes'[n].entries, i # j
        PROVE  notes'[n].entries[i].op # notes'[n].entries[j].op
    BY <2>1, <2>3 DEF InkInv, EntriesInv
  <2> QED BY <2>2, <2>3 DEF EntriesInv
<1> QED BY <1>5, <1>6, <1>7, <1>8, <1>9, <1>11

LEMMA ServerSame ==
  ASSUME InkInv, UNCHANGED <<inkWorld, notes, served>>
  PROVE  Grown /\ NotesGood' /\ EntriesInv' /\ ServedInv'
<1>1. Grown
  BY DEF Grown
<1>2. NotesGood'
  BY Frozen DEF NotesGood, InkInv, InkForm
<1>3. EntriesInv' /\ ServedInv'
  BY DEF InkInv, EntriesInv, ServedInv, Fits, Written
<1> QED BY <1>1, <1>2, <1>3

LEMMA TriesAgain ==
  ASSUME InkInv, NEW w \in Workers, jobs[w] # NoJob, Tries(w)
  PROVE  /\ told' = told
         /\ \/ Only(w) /\ jobs'[w] = NoJob
            \/ Goes(w, jobs[w].at, jobs[w].note, jobs[w].request) /\ jobs'[w].seen = jobs[w].seen
<1>1. CASE End(w, "failed")
  BY <1>1, InkEnds
<1>2. CASE Becomes(w, [jobs[w] EXCEPT !.again = TRUE])
  <2> DEFINE yes == TRUE
  <2>1. Becomes(w, [jobs[w] EXCEPT !.again = yes])
    BY <1>2
  <2> HIDE DEF yes
  <2> QED BY <2>1, InkTries
<1> QED BY <1>1, <1>2 DEF Tries

LEMMA EditNoteStep == ASSUME InkInv, NEW w \in Workers, EditNote(w) PROVE InkInv'
<1>1. At(w, "write", "edit") /\ CallTool(w, jobs[w].request) /\ jobs[w] # NoJob
  BY DEF EditNote, At
<1>2. UNCHANGED <<inkWorld, edits, uploads, aliases, cached, pending>>
  BY <1>1 DEF CallTool, Same, inkStore
<1>3. PICK r : r = jobs[w].request
  OBVIOUS
<1>4. /\ GoodRequest(r) /\ r.op = OpOf(w) /\ r.op.kind = "write" /\ jobs[w].cmd.kind = "write" /\ jobs[w].at = "edit"
      /\ r.op = WriteOp(jobs[w].cmd, jobs[w].note) /\ jobs[w].note \in DOMAIN notes
      /\ inkWorld.workers = 1 => r.op \in DOMAIN pending /\ pending[r.op].request = r
      /\ jobs[w].cmd \in inkWorld.commands
  BY <1>1, <1>3, RunningWrite DEF AfterPrepare
<1>5. /\ Grown /\ NotesGood' /\ EntriesInv' /\ ServedInv'
      /\ \A o \in DOMAIN served : o \in DOMAIN served' /\ served'[o] = served[o]
      /\ \A o \in DOMAIN served' : o \in DOMAIN served \/ (o = r.op /\ served'[o].request = r)
  <2>1. CASE UNCHANGED <<notes, served>>
    BY <1>2, <2>1, ServerSame
  <2>2. CASE Verdict(r) = "apply" /\ Performed(r)
    <3>1. r.op \notin DOMAIN served
      BY <2>2 DEF Verdict
    <3>2. /\ Grown /\ NotesGood' /\ EntriesInv' /\ ServedInv'
          /\ DOMAIN served' = DOMAIN served \cup {r.op} /\ served'[r.op].request = r
          /\ \A o \in DOMAIN served : served'[o] = served[o]
      BY <1>2, <1>4, <2>2, <3>1, AppliedWrite
    <3> QED BY <3>2
  <2> QED BY <1>1, <1>3, <2>1, <2>2 DEF CallTool
\* The command ends, tries again, is done, or looks at the note anew.
<1>6. /\ told' = told
      /\ \/ Only(w) /\ jobs'[w] = NoJob
         \/ Goes(w, "edit", jobs[w].note, r)
         \/ Goes(w, "done", jobs[w].note, r) /\ Written(r.op)'
         \/ Goes(w, "refetch", jobs[w].note, r) /\ r.op \notin DOMAIN served'
  <2>1. CASE Tries(w)
    BY <1>1, <1>3, <1>4, <2>1, TriesAgain
  <2>2. CASE Answered(w, r, Verdict(r)) /\ (IF Verdict(r) = "apply" THEN Performed(r) ELSE UNCHANGED <<notes, served>>)
    <3>1. \/ Verdict(r) \in {"ok", "apply"} /\ JobAt(w, "done")
          \/ Verdict(r) = "conflict" /\ JobAt(w, "refetch")
          \/ End(w, "failed")
      BY <1>4, <2>2, Zenon DEF Answered
    <3>2. CASE Verdict(r) \in {"ok", "apply"} /\ JobAt(w, "done")
      <4>1. Goes(w, "done", jobs[w].note, r) /\ told' = told
        BY <1>1, <1>3, <3>2, InkMoves
      <4>2. CASE Verdict(r) = "ok"
        <5>1. r.op \in DOMAIN served
          BY <4>2 DEF Verdict
        <5>2. Written(r.op)
          BY <1>4, <5>1 DEF InkInv, ServedInv
        <5> QED BY <1>5, <4>1, <5>2, WrittenStays
      <4>3. CASE Verdict(r) = "apply"
        <5>1. r.op \notin DOMAIN served
          BY <4>3 DEF Verdict
        <5> QED BY <1>2, <1>4, <2>2, <4>1, <4>3, <5>1, AppliedWrite
      <4> QED BY <3>2, <4>2, <4>3
    <3>3. CASE Verdict(r) = "conflict" /\ JobAt(w, "refetch")
      <4>1. r.op \notin DOMAIN served /\ served' = served
        BY <2>2, <3>3 DEF Verdict
      <4> QED BY <1>1, <1>3, <3>3, <4>1, InkMoves
    <3>4. CASE End(w, "failed")
      BY <3>4, InkEnds
    <3> QED BY <3>1, <3>2, <3>3, <3>4
  <2> QED BY <1>1, <1>3, <2>1, <2>2 DEF CallTool
<1>7. GoodRequest(r)' /\ jobs[w].note \in DOMAIN notes'
  BY <1>4, <1>5, GoodStays DEF Grown
<1>8. JobInv(jobs[w])'
  BY <1>2, <1>4, <1>6, <1>7 DEF Goes, JobInv, IsJob
<1>9. Only(w)
  BY <1>6 DEF Goes
<1>10. \A x \in Workers' : JobInv(jobs[x])'
  BY <1>5, <1>8, <1>9, OtherJobsStay
<1>11. SoleInv'
  <2> SUFFICES ASSUME inkWorld.workers = 1 PROVE Repeatable' /\ SoleJob(jobs[1])'
    BY <1>2 DEF SoleInv
  <2>1. w = 1
    BY DEF Workers
  <2>2. \A o \in DOMAIN served : o.kind = "write" => o \in DOMAIN pending /\ pending[o].request = served[o].request
    BY DEF InkInv, SoleInv, Repeatable
  <2>3. Repeatable'
    <3>1. ASSUME NEW o \in DOMAIN served', o.kind = "write"
          PROVE  o \in DOMAIN pending' /\ pending'[o].request = served'[o].request
      BY <1>2, <1>4, <1>5, <2>2, <3>1
    <3> QED BY <3>1 DEF Repeatable
  <2>4. SoleJob(jobs[w])'
    BY <1>2, <1>4, <1>6 DEF SoleJob, Goes
  <2> QED BY <2>1, <2>3, <2>4
<1> QED BY <1>2, <1>5, <1>6, <1>9, <1>10, <1>11, AnyStep DEF InkInv, InkForm, StoreInv, Only, Grown

LEMMA CreateNoteStep == ASSUME InkInv, NEW w \in Workers, CreateNote(w) PROVE InkInv'
<1>1. At(w, "new", "create") /\ CallTool(w, NewRequest(jobs[w].cmd)) /\ jobs[w] # NoJob
  BY DEF CreateNote, At
<1>2. UNCHANGED <<inkWorld, edits, uploads, aliases, cached, pending>>
  BY <1>1 DEF CallTool, Same, inkStore
<1>3. PICK r : r = NewRequest(jobs[w].cmd)
  OBVIOUS
<1>4. /\ r.op.kind = "new" /\ jobs[w].cmd.kind = "new" /\ jobs[w].at = "create" /\ jobs[w].cmd \in inkWorld.commands
      /\ \A a \in DOMAIN jobs[w].seen : jobs[w].seen[a] \in DOMAIN notes
  BY <1>1, <1>3, RunningJob DEF At, NewRequest, NewOp, JobInv
<1>5. /\ Grown /\ NotesGood' /\ EntriesInv' /\ ServedInv'
      /\ \A o \in DOMAIN served : o \in DOMAIN served' /\ served'[o] = served[o]
      /\ \A o \in DOMAIN served' : o \in DOMAIN served \/ o = r.op
      /\ Verdict(r) \in {"ok", "apply"} /\ (IF Verdict(r) = "apply" THEN Performed(r) ELSE UNCHANGED <<notes, served>>)
           => r.op \in DOMAIN served'
  <2>1. CASE UNCHANGED <<notes, served>>
    <3>1. Verdict(r) = "ok" => r.op \in DOMAIN served
      BY DEF Verdict
    <3>2. Verdict(r) = "apply" /\ Performed(r) => r.op \in DOMAIN served'
      BY DEF Performed, Updated
    <3> QED BY <1>2, <1>4, <2>1, <3>1, <3>2, ServerSame
  <2>2. CASE Verdict(r) = "apply" /\ Performed(r)
    <3>1. r.op \notin DOMAIN served
      BY <2>2 DEF Verdict
    <3> QED BY <1>2, <1>4, <2>2, <3>1, AppliedNew
  <2> QED BY <1>1, <1>3, <2>1, <2>2 DEF CallTool
<1>6. /\ told' = told
      /\ \/ Only(w) /\ jobs'[w] = NoJob
         \/ Goes(w, "create", jobs[w].note, jobs[w].request) /\ jobs'[w].seen = jobs[w].seen
         \/ /\ Goes(w, "save", served'[r.op].note, jobs[w].request) /\ jobs'[w].seen = jobs[w].seen
            /\ served'[r.op].note \in DOMAIN notes'
  <2>1. CASE Tries(w)
    BY <1>1, <1>4, <2>1, TriesAgain
  <2>2. CASE Answered(w, r, Verdict(r)) /\ (IF Verdict(r) = "apply" THEN Performed(r) ELSE UNCHANGED <<notes, served>>)
    <3>1. \/ Verdict(r) # "used" /\ Becomes(w, [jobs[w] EXCEPT !.at = "save", !.note = served'[r.op].note])
          \/ End(w, "failed")
      BY <1>4, <2>2, Zenon DEF Answered
    <3>2. CASE Verdict(r) # "used" /\ Becomes(w, [jobs[w] EXCEPT !.at = "save", !.note = served'[r.op].note])
      <4>1. PICK note : note = served'[r.op].note
        OBVIOUS
      <4>2. Goes(w, "save", note, jobs[w].request) /\ jobs'[w].seen = jobs[w].seen /\ told' = told
        BY <1>1, <3>2, <4>1, InkTakes
      <4>3. Verdict(r) \in {"ok", "apply"}
        BY <1>4, <3>2 DEF Verdict
      <4>4. served'[r.op].note \in DOMAIN notes'
        BY <1>4, <1>5, <2>2, <4>3 DEF ServedInv
      <4> QED BY <4>1, <4>2, <4>4
    <3>3. CASE End(w, "failed")
      BY <3>3, InkEnds
    <3> QED BY <3>1, <3>2, <3>3
  <2> QED BY <1>1, <1>3, <2>1, <2>2 DEF CallTool
<1>7. JobInv(jobs[w])'
  BY <1>2, <1>4, <1>5, <1>6 DEF Goes, JobInv, IsJob, Grown
<1>8. Only(w)
  BY <1>6 DEF Goes
<1>9. \A x \in Workers' : JobInv(jobs[x])'
  BY <1>5, <1>7, <1>8, OtherJobsStay
<1>10. SoleInv'
  <2> SUFFICES ASSUME inkWorld.workers = 1 PROVE Repeatable' /\ SoleJob(jobs[1])'
    BY <1>2 DEF SoleInv
  <2>1. w = 1
    BY DEF Workers
  <2>2. \A o \in DOMAIN served : o.kind = "write" => o \in DOMAIN pending /\ pending[o].request = served[o].request
    BY DEF InkInv, SoleInv, Repeatable
  <2>3. Repeatable'
    <3>1. ASSUME NEW o \in DOMAIN served', o.kind = "write"
          PROVE  o \in DOMAIN pending' /\ pending'[o].request = served'[o].request
      BY <1>2, <1>4, <1>5, <2>2, <3>1
    <3> QED BY <3>1 DEF Repeatable
  <2>4. SoleJob(jobs[w])'
    BY <1>4, <1>6 DEF SoleJob, Goes
  <2> QED BY <2>1, <2>3, <2>4
<1> QED BY <1>2, <1>5, <1>6, <1>8, <1>9, <1>10, AnyStep DEF InkInv, InkForm, StoreInv, Only, Grown

-----------------------------------------------------------------------------
(* Inkstone: the theorems.                                                  *)

LEMMA InkStart == ASSUME NEW world \in InkWorlds, InkInit(world) PROVE InkInv
<1>1. /\ inkWorld = world /\ aliases = world.bound /\ cached = <<>> /\ uploads = 0 /\ told = {}
      /\ DOMAIN pending = {} /\ DOMAIN served = {} /\ edits = [m \in InkMessages |-> 0]
      /\ jobs = [w \in Workers |-> NoJob]
  BY DEF InkInit
<1>2. notes \in Seq([rev : Nat, entries : Seq(EntrySet)]) /\ DOMAIN notes = {1} /\ DOMAIN notes[1].entries = {}
  <2>1. PICK note : note = [rev |-> 1, entries |-> <<>>]
    OBVIOUS
  <2>2. note \in [rev : Nat, entries : Seq(EntrySet)] /\ note.entries = <<>>
    BY <2>1
  <2>3. notes = <<note>>
    BY <2>1 DEF InkInit
  <2> QED BY <2>2, <2>3
<1>3. InkForm
  BY <1>1, <1>2 DEF InkForm
<1>4. EntriesInv
  BY <1>2 DEF EntriesInv
<1>5. ServedInv /\ ToldInv
  BY <1>1 DEF ServedInv, ToldInv
<1>6. StoreInv
  BY <1>1, <1>2, InkAssumption DEF StoreInv
<1>7. \A w \in Workers : JobInv(jobs[w])
  BY <1>1 DEF JobInv
<1>8. SoleInv
  BY <1>1, InkAssumption DEF SoleInv, SoleJob, Repeatable, Workers
<1> QED BY <1>3, <1>4, <1>5, <1>6, <1>7, <1>8 DEF InkInv

LEMMA InkStep == ASSUME InkInv, [InkNext]_inkVars PROVE InkInv'
<1>1. CASE UNCHANGED inkVars
  <2>1. UNCHANGED <<inkWorld, aliases, cached, pending, notes, served, edits, uploads, jobs, told>>
    BY <1>1 DEF inkVars
  <2>2. Grown /\ NotesGood' /\ EntriesInv' /\ ServedInv'
    BY <2>1, ServerSame
  <2>3. \A x \in Workers' : JobInv(jobs[x])'
    BY <2>1, <2>2, JobStays, Frozen DEF InkInv
  <2>4. SoleInv'
    BY <2>1 DEF InkInv, SoleInv, SoleJob, Repeatable
  <2> QED BY <2>1, <2>2, <2>3, <2>4, AnyStep DEF InkInv, InkForm, StoreInv
<1>2. ASSUME NEW w \in Workers,
             \/ Handle(w) \/ InkFails(w) \/ NewLoad(w) \/ CreateNote(w) \/ Find(w) \/ Resolve(w)
             \/ LoadBindings(w) \/ UnbindLoad(w) \/ SaveBindings(w)
      PROVE  InkInv'
  BY <1>2, HandleStep, InkFailsStep, NewLoadStep, CreateNoteStep, FindStep, ResolveStep, BindingsStep, SaveBindingsStep
<1>3. ASSUME NEW w \in Workers,
             \/ WriteLoad(w) \/ LoadPending(w) \/ FetchNote(w) \/ PrepareEntry(w) \/ SavePending(w) \/ EditNote(w)
             \/ Refetch(w) \/ SaveRefetched(w) \/ SaveCompleted(w)
      PROVE  InkInv'
  BY <1>3, WriteLoadStep, LoadPendingStep, FetchNoteStep, PrepareEntryStep, SavePendingStep, EditNoteStep, RefetchStep,
     SaveRefetchedStep, SaveCompletedStep
<1> QED BY <1>1, <1>2, <1>3, EnvironmentStep DEF InkNext

\* At every moment the server's notes, the stored writes and what each worker is
\* about fit together (inkstone.go, mcp.go): for any commands, workers, lost
\* requests and answers, and changes of the notes by others.
THEOREM InkInvariance == InkSpec => []InkInv
<1>1. (\E world \in InkWorlds : InkInit(world)) => InkInv
  BY InkStart
<1> QED BY <1>1, InkStep, PTL DEF InkSpec

\* A message is in a note once, unless a write of it was forced; what a command
\* said it has written is there; and with one worker whatever the server has
\* applied is the stored write, so that the command can be repeated
\* (inkstone.go, mcp.go): for any commands, workers, failures and notes.
THEOREM WritesStaySafe == InkSpec => []WritesAreSafe
<1>1. InkInv => WritesAreSafe
  BY InkSafe
<1> QED BY <1>1, InkInvariance, PTL

-----------------------------------------------------------------------------
(* Speedlink.  What the start, and what the commands, are at.              *)
Starting == {"key", "settings", "load", "migrate"}
SlKinds == {"add", "del", "rename", "timeout", "backup", "restore", "all", "local"}
Testing == {"unreceipt", "look in PATH", "install", "receipt", "run", "run system"}
SlPlaces == Starting \cup SlKinds \cup Testing \cup {"append"}

\* Passwords that open with the key, or did before it was written over; host keys among those accepted.
Opened == {s \in Servers : s.method = "password" => (s.key = keyFile /\ s.key \notin {0, Torn}) \/ LostKey(s.key)}
PinnedBy(pins) == {s \in Servers : s.pin # 0 => [host |-> s.host, key |-> s.pin] \in pins}
Sound(pins) == Opened \cap PinnedBy(pins)

SlCommandOk(at, c) ==
  /\ at \in {"add", "append", "rename"} => c.name \in STRING
  /\ at \in {"add", "append"} => c.host \in SlHosts /\ c.method \in STRING
SlShape == sl # NoSl =>
  /\ sl = [cmd |-> sl.cmd, at |-> sl.at, pin |-> sl.pin, next |-> sl.next]
  /\ sl.at \in SlPlaces /\ sl.pin \in Nat /\ SlCommandOk(sl.at, sl.cmd)
SlWorldOk ==
  /\ slWorld = [legacy |-> slWorld.legacy, documents |-> slWorld.documents, tool |-> slWorld.tool,
                system |-> slWorld.system, commands |-> slWorld.commands]
  /\ slWorld.legacy \in Seq([name : STRING, host : SlHosts, method : STRING])
  /\ slWorld.documents \subseteq Seq(Servers)
  /\ \A c \in slWorld.commands : c.kind \in SlKinds /\ SlCommandOk(c.kind, c)

\* The program is there as it was installed before it gets its receipt.
SlToolInv ==
  /\ slTool = Managed(slTool.bin, slTool.receipt) /\ slTool.receipt \in {"speedtest", NoTool}
  /\ SlAt("receipt") => slTool.bin = "speedtest"
  /\ SlAt("run") => slTool = Managed("speedtest", "speedtest")
  /\ GenuineRuns
\* The key is the newest of those made here, and commands wait until memory has it.
SlKeyInv ==
  /\ lostKeys \in Nat /\ keyFile \in {0, Torn, NewKey(lostKeys)}
  /\ up \/ SlAt("settings") \/ SlAt("load") \/ SlAt("migrate") => masterKey = keyFile /\ keyFile = NewKey(lostKeys)
  /\ up \/ sl = NoSl \/ sl.at \in Starting
  /\ up /\ sl # NoSl => sl.at \notin Starting
  /\ up \in BOOLEAN
SlListInv ==
  /\ servers \in Seq(Sound(accepted)) /\ stored \in Seq(Sound(accepted))
  /\ hosts \in [SlHosts -> Nat] /\ PinnedHosts
\* What is answered is stored, and what runs has it in memory; but for what has lapsed.
SlAnswerInv ==
  /\ "answers" \in lapsed \/ stored = promised
  /\ up \/ SlAt("migrate") => "servers" \in lapsed \/ servers = stored
  /\ seconds = [memory |-> seconds.memory, disk |-> seconds.disk]
  /\ up \/ SlAt("load") \/ SlAt("migrate") => "seconds" \in lapsed \/ seconds.memory = seconds.disk
SlInv == SlShape /\ SlWorldOk /\ SlToolInv /\ SlKeyInv /\ SlListInv /\ SlAnswerInv

\* Lists of sound servers stay sound when more host keys are accepted.
LEMMA MoreAccepted ==
  ASSUME NEW pins, NEW more, pins \subseteq more, NEW list \in Seq(Sound(pins))
  PROVE  list \in Seq(Sound(more))
<1>1. Sound(pins) \subseteq Sound(more)  BY DEF Sound, PinnedBy
<1>. HIDE DEF Sound
<1>2. list \in [1 .. Len(list) -> Sound(pins)] /\ Len(list) \in Nat  OBVIOUS
<1>3. list \in [1 .. Len(list) -> Sound(more)]  BY <1>1, <1>2
<1> QED BY <1>2, <1>3

LEMMA EachIn ==
  ASSUME NEW S, NEW T, NEW list \in Seq(T), \A i \in DOMAIN list : list[i] \in S
  PROVE  list \in Seq(S)
<1>1. DOMAIN list = 1 .. Len(list) /\ Len(list) \in Nat /\ list = [i \in 1 .. Len(list) |-> list[i]]  OBVIOUS
<1>2. list \in [1 .. Len(list) -> S]  BY <1>1
<1> QED BY <1>1, <1>2

\* A list without one of its servers, and with one renamed.
LEMMA WithoutOne ==
  ASSUME NEW S, NEW list \in Seq(S), NEW i \in DOMAIN list
  PROVE  Without(list, i) \in Seq(S)
<1>1. i \in 1 .. Len(list) /\ Len(list) \in Nat  OBVIOUS
<1>2. SubSeq(list, 1, i - 1) \in Seq(S)  BY <1>1, SubSeqProperties
<1>3. SubSeq(list, i + 1, Len(list)) \in Seq(S)  BY <1>1, SubSeqProperties
<1> QED BY <1>2, <1>3, ConcatProperties DEF Without

LEMMA RenamedOne ==
  ASSUME NEW pins, NEW list \in Seq(Sound(pins)), NEW i \in DOMAIN list, NEW name \in STRING
  PROVE  Renamed(list, i, name) \in Seq(Sound(pins))
<1>. DEFINE new == [list[i] EXCEPT !.name = name]
<1>1. list \in [1 .. Len(list) -> Sound(pins)] /\ Len(list) \in Nat /\ i \in 1 .. Len(list)  OBVIOUS
<1>2. list[i] \in Sound(pins)  BY <1>1
<1>3. new \in Sound(pins)
  <2>1. list[i] \in Servers  BY <1>2 DEF Sound, Opened
  <2>2. new \in Servers /\ new.host = list[i].host /\ new.method = list[i].method
        /\ new.key = list[i].key /\ new.pin = list[i].pin  BY <2>1 DEF Servers
  <2> QED BY <1>2, <2>2 DEF Sound, Opened, PinnedBy
<1>4. Renamed(list, i, name) = [list EXCEPT ![i] = new]  BY DEF Renamed
<1>. HIDE DEF new, Sound
<1>5. [list EXCEPT ![i] = new] \in [1 .. Len(list) -> Sound(pins)]  BY <1>1, <1>3
<1> QED BY <1>1, <1>4, <1>5

\* A command goes on to another place, and what it knows stays.
LEMMA SlGoes ==
  ASSUME SlShape, sl # NoSl, NEW at \in SlPlaces, SlGo(at), at \in {"append", "add", "rename"} => at = sl.at
  PROVE  /\ sl' = [cmd |-> sl.cmd, at |-> at, pin |-> sl.pin, next |-> sl.next]
         /\ sl'.at = at /\ SlShape'
<1>1. sl' = [cmd |-> sl.cmd, at |-> at, pin |-> sl.pin, next |-> sl.next]  BY DEF SlShape, SlGo
<1>2. SlCommandOk(at, sl.cmd)  BY DEF SlShape, SlCommandOk
<1> QED BY <1>1, <1>2 DEF SlShape

LEMMA SlBegins ==
  ASSUME sl' = SlBegin("key")  PROVE  SlShape' /\ sl'.at = "key"
BY DEF SlBegin, SlShape, SlPlaces, Starting, SlCommandOk

-----------------------------------------------------------------------------
(* What the steps leave as it is.                                          *)

\* A step that is about neither the lists nor the keys.
ListsStay == UNCHANGED <<keyFile, lostKeys, servers, stored, promised, accepted, lapsed, hosts, visits>>
\* A step of a command: it ends, or goes on.
Commanding ==
  /\ up /\ up' = up /\ keyFile' = keyFile /\ lostKeys' = lostKeys /\ masterKey' = masterKey
  /\ sl' = NoSl \/ sl'.at \notin Starting

LEMMA KeyStays ==
  ASSUME SlInv, Commanding  PROVE SlKeyInv'
BY DEF SlInv, SlKeyInv, Commanding, SlAt, Starting

LEMMA ListStays ==
  ASSUME SlInv, ListsStay  PROVE SlListInv'
<1>1. servers' \in Seq(Sound(accepted))' /\ stored' \in Seq(Sound(accepted))'
  <2>1. Sound(accepted)' = Sound(accepted)  BY DEF ListsStay, Sound, Opened, PinnedBy, LostKey
  <2> QED BY <2>1 DEF SlInv, SlListInv, ListsStay
<1>2. hosts' \in [SlHosts -> Nat] /\ PinnedHosts'  BY DEF SlInv, SlListInv, ListsStay, PinnedHosts
<1> QED BY <1>1, <1>2 DEF SlListInv

LEMMA AnswerStays ==
  ASSUME SlInv, ListsStay, Commanding, seconds' = seconds  PROVE SlAnswerInv'
<1>1. ~SlAt("load")' /\ ~SlAt("migrate")'  BY DEF Commanding, SlAt, Starting
<1> QED BY <1>1 DEF SlInv, SlAnswerInv, ListsStay, Commanding

LEMMA SlWorldStays ==
  ASSUME SlInv, slWorld' = slWorld  PROVE SlWorldOk'
BY DEF SlInv, SlWorldOk, SlCommandOk

\* A command that is not installing or running the program.
LEMMA ToolStays ==
  ASSUME SlInv, slTool' = slTool, slRan' = slRan, sl' = NoSl \/ sl'.at \notin {"receipt", "run"}
  PROVE  SlToolInv'
BY DEF SlInv, SlToolInv, Managed, SlAt, GenuineRuns

\* A command that ends without having changed anything.
LEMMA SlEnds ==
  ASSUME SlInv, up, sl' = NoSl, UNCHANGED <<keys, lists, tests, hosts, seconds, up>>
  PROVE  SlInv'
<1>. USE DEF keys, lists, tests
<1>1. Commanding /\ ListsStay  BY DEF Commanding, ListsStay
<1>2. SlShape'  BY DEF SlShape
<1> QED BY <1>1, <1>2, KeyStays, ListStays, AnswerStays, SlWorldStays, ToolStays DEF SlInv

-----------------------------------------------------------------------------
(* The start.                                                              *)
LEMMA LoadKeyStep == ASSUME SlInv, LoadKey  PROVE SlInv'
<1>. USE DEF LoadKey, keys, lists, tests
<1>1. SlShape' /\ sl # NoSl /\ sl.at = "key" /\ sl'.at = "settings"
  BY SlGoes DEF SlAt, SlInv, SlPlaces, Starting
<1>2. keyFile = NewKey(lostKeys) /\ keyFile' = keyFile /\ masterKey' = keyFile  BY DEF SlInv, SlKeyInv
<1>3. SlKeyInv'  BY <1>1, <1>2 DEF SlInv, SlKeyInv, SlAt, Starting, NewKey
<1>4. ListsStay /\ seconds' = seconds /\ up' = up  BY DEF ListsStay
<1>5. SlAnswerInv'  BY <1>1, <1>4 DEF SlInv, SlAnswerInv, ListsStay, SlAt
<1>6. SlToolInv'  BY <1>1, ToolStays
<1> QED BY <1>1, <1>3, <1>4, <1>5, <1>6, ListStays, SlWorldStays DEF SlInv

\* What opened with the key that is written over is shut for good.
LEMMA KeyWrittenOver ==
  ASSUME SlInv, lostKeys' = lostKeys + (IF keyFile \in {0, Torn} THEN 0 ELSE 1),
         UNCHANGED <<servers, stored, accepted, hosts, visits>>
  PROVE  SlListInv' /\ lostKeys' \in Nat
<1>1. lostKeys \in Nat /\ lostKeys' \in Nat  BY DEF SlInv, SlKeyInv
<1>2. ASSUME NEW s \in Sound(accepted)  PROVE s \in Sound(accepted)'
  <2>1. s.method = "password" => LostKey(s.key)'
    <3>1. CASE keyFile \in {0, Torn}
      BY <1>1, <3>1 DEF Sound, Opened, LostKey
    <3>2. CASE keyFile \notin {0, Torn}
      BY <1>1, <3>2 DEF Sound, Opened, LostKey, SlInv, SlKeyInv, NewKey
    <3> QED BY <3>1, <3>2
  <2> QED BY <2>1 DEF Sound, Opened, PinnedBy
<1>3. ASSUME NEW list \in Seq(Sound(accepted))  PROVE list \in Seq(Sound(accepted)')
  <2>1. \A i \in DOMAIN list : list[i] \in Sound(accepted)'
    <3>1. \A i \in DOMAIN list : list[i] \in Sound(accepted)
      <4>. HIDE DEF Sound
      <4> QED OBVIOUS
    <3> QED BY <1>2, <3>1
  <2>. HIDE DEF Sound
  <2> QED BY <2>1, EachIn
<1>4. servers \in Seq(Sound(accepted)') /\ stored \in Seq(Sound(accepted)')  BY <1>3 DEF SlInv, SlListInv
<1> QED BY <1>1, <1>4 DEF SlInv, SlListInv, PinnedHosts

LEMMA CreateKeyStep == ASSUME SlInv, CreateKey  PROVE SlInv'
<1>. USE DEF CreateKey, lists, tests
<1>1. SlShape' /\ sl # NoSl /\ sl.at = "key" /\ sl'.at = "settings"
  BY SlGoes DEF SlAt, SlInv, SlPlaces, Starting
<1>2. SlListInv' /\ lostKeys' \in Nat  BY KeyWrittenOver
<1>3. SlKeyInv'  BY <1>1, <1>2 DEF SlInv, SlKeyInv, SlAt, Starting
<1>4. SlAnswerInv'  BY <1>1 DEF SlInv, SlAnswerInv, SlAt
<1>5. SlToolInv'  BY <1>1, ToolStays
<1> QED BY <1>1, <1>2, <1>3, <1>4, <1>5, SlWorldStays DEF SlInv

LEMMA KeyTornStep == ASSUME SlInv, KeyTorn  PROVE SlInv'
<1>. USE DEF KeyTorn, lists, tests
<1>1. SlShape' /\ sl' = NoSl /\ sl # NoSl /\ sl.at = "key"  BY DEF SlShape, SlAt
<1>2. ~up  BY <1>1 DEF SlInv, SlKeyInv, Starting
<1>3. SlListInv' /\ lostKeys' \in Nat  BY KeyWrittenOver
<1>4. SlKeyInv'  BY <1>1, <1>2, <1>3 DEF SlInv, SlKeyInv, SlAt
<1>5. SlAnswerInv'  BY <1>1, <1>2 DEF SlInv, SlAnswerInv, SlAt
<1>6. SlToolInv'  BY <1>1, ToolStays
<1> QED BY <1>1, <1>3, <1>4, <1>5, <1>6, SlWorldStays DEF SlInv

LEMMA LoadTimeoutStep == ASSUME SlInv, LoadTimeout  PROVE SlInv'
<1>. USE DEF LoadTimeout, keys, tests
<1>1. SlShape' /\ sl # NoSl /\ sl.at = "settings" /\ sl'.at = "load"
  BY SlGoes DEF SlAt, SlInv, SlPlaces, Starting
<1>2. SlKeyInv'  BY <1>1 DEF SlInv, SlKeyInv, SlAt, Starting
<1>3. SlListInv'
  <2>1. Sound(accepted)' = Sound(accepted)  BY DEF Sound, Opened, PinnedBy, LostKey
  <2> QED BY <2>1 DEF SlInv, SlListInv, PinnedHosts
<1>4. SlAnswerInv'
  <2>1. /\ seconds' = [seconds EXCEPT !.memory = seconds.disk] \/ (seconds' = seconds /\ "seconds" \in lapsed')
        /\ "answers" \in lapsed' <=> "answers" \in lapsed
        /\ UNCHANGED <<stored, promised, up>> /\ ~up
    BY <1>1 DEF SlInv, SlKeyInv, Starting
  <2>2. seconds' = [memory |-> seconds.disk, disk |-> seconds.disk] \/ (seconds' = seconds /\ "seconds" \in lapsed')
    BY <2>1 DEF SlInv, SlAnswerInv
  <2>. HIDE DEF LoadTimeout
  <2> QED BY <1>1, <2>1, <2>2 DEF SlInv, SlAnswerInv, SlAt
<1>5. SlToolInv'  BY <1>1, ToolStays
<1> QED BY <1>1, <1>2, <1>3, <1>4, <1>5, SlWorldStays DEF SlInv

LEMMA KeyInvalidStep == ASSUME SlInv, KeyInvalid  PROVE SlInv'
<1>. USE DEF KeyInvalid, keys, lists, tests
<1>1. SlShape' /\ sl' = NoSl /\ sl # NoSl /\ sl.at = "key"  BY DEF SlShape, SlAt
<1>3. SlKeyInv'  BY <1>1 DEF SlInv, SlKeyInv, SlAt
<1>4. ListsStay /\ seconds' = seconds /\ up' = up  BY DEF ListsStay
<1>5. SlAnswerInv'  BY <1>1, <1>4 DEF SlInv, SlAnswerInv, ListsStay, SlAt
<1>6. SlToolInv'  BY <1>1, ToolStays
<1> QED BY <1>1, <1>3, <1>4, <1>5, <1>6, ListStays, SlWorldStays DEF SlInv

LEMMA LoadServersStep == ASSUME SlInv, LoadServers  PROVE SlInv'
<1>. USE DEF LoadServers, keys, lists, tests
<1>1. SlShape' /\ sl # NoSl /\ sl.at = "load" /\ sl'.at = "migrate"
  BY SlGoes DEF SlAt, SlInv, SlPlaces, Starting
<1>2. SlKeyInv'  BY <1>1 DEF SlInv, SlKeyInv, SlAt, Starting
<1>3. SlListInv'
  <2>1. accepted' = accepted /\ stored' = stored /\ hosts' = hosts /\ visits' = visits  OBVIOUS
  <2>2. servers' = stored \/ servers' = <<>>  OBVIOUS
  <2>3. servers' \in Seq(Sound(accepted)) /\ stored' \in Seq(Sound(accepted))
    <3>. HIDE DEF LoadServers
    <3>1. <<>> \in Seq(Sound(accepted))  OBVIOUS
    <3> QED BY <2>1, <2>2, <3>1 DEF SlInv, SlListInv
  <2>4. Sound(accepted)' = Sound(accepted)  BY <2>1 DEF Sound, Opened, PinnedBy, LostKey
  <2> QED BY <2>1, <2>3, <2>4 DEF SlListInv, SlInv, PinnedHosts
<1>4. SlAnswerInv'
  <2>1. servers' = stored \/ "servers" \in lapsed'  OBVIOUS
  <2>2. ("answers" \in lapsed' <=> "answers" \in lapsed) /\ ("seconds" \in lapsed' <=> "seconds" \in lapsed)  OBVIOUS
  <2>3. UNCHANGED <<stored, promised, seconds>>  OBVIOUS
  <2>4. SlAt("load")  OBVIOUS
  <2>. HIDE DEF LoadServers
  <2> QED BY <1>1, <2>1, <2>2, <2>3, <2>4 DEF SlInv, SlAnswerInv
<1>5. SlToolInv'  BY <1>1, ToolStays
<1> QED BY <1>1, <1>2, <1>3, <1>4, <1>5, SlWorldStays DEF SlInv

LEMMA SlRestartsStep == ASSUME SlInv, SlRestarts  PROVE SlInv'
<1>. USE DEF SlRestarts, keys, lists, tests
<1>1. SlShape' /\ sl' = SlBegin("key") /\ sl'.at = "key"  BY SlBegins
<1>2. SlKeyInv'  BY <1>1 DEF SlInv, SlKeyInv, SlAt, Starting
<1>3. SlListInv'
  <2>1. accepted' = accepted /\ stored' = stored /\ hosts' = hosts /\ visits' = visits /\ servers' = <<>>  OBVIOUS
  <2>2. servers' \in Seq(Sound(accepted)) /\ stored' \in Seq(Sound(accepted))
    <3>. HIDE DEF SlRestarts
    <3>1. <<>> \in Seq(Sound(accepted))  OBVIOUS
    <3> QED BY <2>1, <3>1 DEF SlInv, SlListInv
  <2>3. Sound(accepted)' = Sound(accepted)  BY <2>1 DEF Sound, Opened, PinnedBy, LostKey
  <2> QED BY <2>1, <2>2, <2>3 DEF SlListInv, SlInv, PinnedHosts
<1>4. SlAnswerInv'
  <2>1. seconds' = [memory |-> 300, disk |-> seconds.disk]  BY DEF SlInv, SlAnswerInv
  <2> QED BY <1>1, <2>1 DEF SlInv, SlAnswerInv, SlAt
<1>5. SlToolInv'  BY <1>1, ToolStays
<1> QED BY <1>1, <1>2, <1>3, <1>4, <1>5, SlWorldStays DEF SlInv

\* The predecessor's servers get passwords that open, and no host key.
LEMMA MigrateLegacyStep == ASSUME SlInv, MigrateLegacy  PROVE SlInv'
<1>. DEFINE imported == [i \in DOMAIN slWorld.legacy |-> MigratedServer(slWorld.legacy[i])]
<1>1. SlShape' /\ sl' = NoSl /\ sl # NoSl /\ sl.at = "migrate"  BY DEF SlShape, SlAt, MigrateLegacy
<1>2. /\ UNCHANGED <<slWorld, keyFile, lostKeys, masterKey, accepted, hosts, seconds, slTool, slRan, visits>>
  BY DEF MigrateLegacy, keys, tests, lists
<1>3. masterKey = keyFile /\ keyFile = NewKey(lostKeys) /\ lostKeys \in Nat  BY <1>1 DEF SlInv, SlKeyInv, SlAt
<1>4. \/ up' = TRUE /\ UNCHANGED <<servers, stored, promised, lapsed>>
      \/ up' \in BOOLEAN /\ servers' = imported /\ stored' = imported
           /\ (promised' = imported \/ "answers" \in lapsed') /\ ("seconds" \in lapsed => "seconds" \in lapsed')
      \/ up' = FALSE /\ servers' = imported /\ UNCHANGED <<stored, promised, lapsed>>
  BY DEF MigrateLegacy, Imports, lists
<1>5. imported \in Seq(Sound(accepted))
  <2>1. PICK legacy : legacy = slWorld.legacy  OBVIOUS
  <2>2. legacy \in Seq([name : STRING, host : SlHosts, method : STRING])  BY <2>1 DEF SlInv, SlWorldOk
  <2>3. ASSUME NEW i \in DOMAIN legacy  PROVE MigratedServer(legacy[i]) \in Sound(accepted)
    <3>1. legacy[i] \in [name : STRING, host : SlHosts, method : STRING]
      <4>. DEFINE T == [name : STRING, host : SlHosts, method : STRING]
      <4>. HIDE DEF T
      <4>1. legacy \in Seq(T)  BY <2>2 DEF T
      <4>2. legacy[i] \in T  BY <4>1
      <4> QED BY <4>2 DEF T
    <3>2. MigratedServer(legacy[i]) =
            [name |-> legacy[i].name, host |-> legacy[i].host, method |-> legacy[i].method,
             key |-> IF legacy[i].method = "password" THEN keyFile ELSE 0, pin |-> 0]
      BY <1>3 DEF MigratedServer, Server
    <3> QED BY <1>3, <3>1, <3>2 DEF Sound, Opened, PinnedBy, Servers, NewKey, Torn
  <2>4. imported = [i \in DOMAIN legacy |-> MigratedServer(legacy[i])]  BY <2>1
  <2>5. DOMAIN legacy = 1 .. Len(legacy) /\ Len(legacy) \in Nat  BY <2>2
  <2>. HIDE DEF imported, Sound
  <2>6. imported \in [1 .. Len(legacy) -> Sound(accepted)]  BY <2>3, <2>4, <2>5
  <2> QED BY <2>5, <2>6
<1>. HIDE DEF imported
<1>6. SlKeyInv'  BY <1>1, <1>2, <1>3, <1>4 DEF SlInv, SlKeyInv, SlAt, NewKey
<1>7. SlListInv'
  <2>1. Sound(accepted)' = Sound(accepted)  BY <1>2 DEF Sound, Opened, PinnedBy, LostKey
  <2>2. servers' \in {servers, imported} /\ stored' \in {stored, imported}  BY <1>4
  <2>3. servers' \in Seq(Sound(accepted)) /\ stored' \in Seq(Sound(accepted))
    BY <1>5, <2>2 DEF SlInv, SlListInv
  <2> QED BY <1>2, <2>1, <2>3 DEF SlListInv, SlInv, PinnedHosts
<1>8. SlAnswerInv'  BY <1>1, <1>2, <1>4 DEF SlInv, SlAnswerInv, SlAt
<1>9. SlToolInv'  BY <1>1, <1>2, ToolStays
<1> QED BY <1>1, <1>2, <1>6, <1>7, <1>8, <1>9, SlWorldStays DEF SlInv

LEMMA HostKeyChangesStep == ASSUME SlInv, HostKeyChanges  PROVE SlInv'
<1>. USE DEF HostKeyChanges, keys, lists, tests
<1>1. SlShape' /\ SlKeyInv' /\ SlAnswerInv' /\ SlToolInv'
  BY DEF SlInv, SlShape, SlKeyInv, SlAnswerInv, SlToolInv, SlAt, SlCommandOk, GenuineRuns
<1>2. hosts' \in [SlHosts -> Nat]
  <2>1. hosts \in [SlHosts -> Nat]  BY DEF SlInv, SlListInv
  <2> QED BY <2>1
<1>3. Sound(accepted)' = Sound(accepted)  BY DEF Sound, Opened, PinnedBy, LostKey
<1>4. SlListInv'  BY <1>2, <1>3 DEF SlListInv, SlInv, PinnedHosts
<1> QED BY <1>1, <1>4, SlWorldStays DEF SlInv

-----------------------------------------------------------------------------
(* The commands that change the list.                                      *)

\* A sound list is stored, with the host keys it brings; or memory is what it was.
LEMMA StoresStep ==
  ASSUME SlInv, up, sl # NoSl, NEW list, NEW pins, NEW back,
         list \in Seq(Sound(accepted \cup pins)), back \in Seq(Sound(accepted)),
         back = servers \/ SlAt("del"), Stores(list, pins, back), slWorld' = slWorld,
         UNCHANGED <<keyFile, lostKeys, masterKey>>, UNCHANGED tests
  PROVE  SlInv'
<1>1. sl' = NoSl /\ UNCHANGED <<keyFile, lostKeys, masterKey, slTool, slRan, visits, hosts, seconds, up>>
  BY DEF Stores, keys, tests
<1>2. \/ /\ servers' = list /\ stored' = list /\ promised' = list
         /\ accepted' = accepted \cup pins /\ ("seconds" \in lapsed => "seconds" \in lapsed')
      \/ /\ servers' = back /\ stored' = list
         /\ accepted' = accepted \cup pins /\ lapsed' = lapsed \cup {"servers", "answers"}
      \/ /\ servers' = back /\ lapsed' = lapsed \cup (IF SlAt("del") THEN {"servers"} ELSE {})
         /\ stored' = stored /\ promised' = promised /\ accepted' = accepted
  BY DEF Stores, Agreed
<1>3. SlShape' /\ Commanding  BY <1>1 DEF SlShape, Commanding
<1>4. SlListInv'
  <2>1. CASE servers' \in {list, back} /\ stored' = list /\ accepted' = accepted \cup pins
    <3>1. Sound(accepted)' = Sound(accepted \cup pins)  BY <1>1, <2>1 DEF Sound, Opened, PinnedBy, LostKey
    <3>2. PinnedHosts'  BY <1>1, <2>1 DEF SlInv, SlListInv, PinnedHosts
    <3>3. back \in Seq(Sound(accepted \cup pins))  BY MoreAccepted
    <3> QED BY <1>1, <2>1, <3>1, <3>2, <3>3 DEF SlInv, SlListInv
  <2>2. CASE servers' = back /\ stored' = stored /\ accepted' = accepted
    <3>1. Sound(accepted)' = Sound(accepted)  BY <1>1, <2>2 DEF Sound, Opened, PinnedBy, LostKey
    <3> QED BY <1>1, <2>2, <3>1 DEF SlInv, SlListInv, PinnedHosts
  <2> QED BY <1>2, <2>1, <2>2
<1>5. SlAnswerInv'
  <2>1. ~SlAt("load")' /\ ~SlAt("migrate")'  BY <1>1 DEF SlAt
  <2>2. "seconds" \in lapsed => "seconds" \in lapsed'  BY <1>2
  <2>3. "answers" \in lapsed' \/ stored' = promised'  BY <1>2 DEF SlInv, SlAnswerInv
  <2>4. "servers" \in lapsed' \/ servers' = stored'  BY <1>2 DEF SlInv, SlAnswerInv
  <2> QED BY <1>1, <2>1, <2>2, <2>3, <2>4 DEF SlInv, SlAnswerInv
<1>6. SlToolInv'  BY <1>1, ToolStays
<1> QED BY <1>3, <1>4, <1>5, <1>6, KeyStays, SlWorldStays DEF SlInv

\* The commands that run do so while the plugin is up.
LEMMA CommandsAreUp ==
  ASSUME SlInv, sl # NoSl, sl.at \notin Starting  PROVE up
BY DEF SlInv, SlKeyInv

LEMMA SlHandleStep == ASSUME SlInv, SlHandle  PROVE SlInv'
<1>. USE DEF SlHandle, keys, lists, tests
<1>1. PICK c \in slWorld.commands : sl' = [cmd |-> c, at |-> c.kind, pin |-> 0, next |-> 1]  OBVIOUS
<1>2. c.kind \in SlKinds /\ SlCommandOk(c.kind, c)  BY DEF SlInv, SlWorldOk
<1>3. SlShape' /\ sl'.at \in SlKinds  BY <1>1, <1>2 DEF SlShape, SlPlaces, SlCommandOk
<1>4. Commanding /\ ListsStay /\ seconds' = seconds
  BY <1>3 DEF Commanding, ListsStay, SlKinds, Starting
<1>5. SlToolInv'  BY <1>3, ToolStays DEF SlKinds
<1> QED BY <1>3, <1>4, <1>5, KeyStays, ListStays, AnswerStays, SlWorldStays DEF SlInv

LEMMA VerifyFirstConnectionStep == ASSUME SlInv, VerifyFirstConnection  PROVE SlInv'
<1>. USE DEF VerifyFirstConnection, keys, lists, tests
<1>1. sl # NoSl /\ sl.at = "add" /\ up  BY CommandsAreUp DEF SlAt, Starting
<1>2. PICK cmd, pin, next : sl = [cmd |-> cmd, at |-> "add", pin |-> pin, next |-> next] /\ SlCommandOk("add", cmd)
  BY <1>1 DEF SlInv, SlShape
<1>3. sl' = [cmd |-> cmd, at |-> "append", pin |-> hosts[cmd.host], next |-> next]  BY <1>2
<1>4. hosts[cmd.host] \in Nat  BY <1>2 DEF SlInv, SlListInv, SlCommandOk
<1>5. SlShape' /\ sl'.at = "append"  BY <1>2, <1>3, <1>4 DEF SlShape, SlPlaces, SlCommandOk
<1>6. Commanding /\ ListsStay /\ seconds' = seconds  BY <1>1, <1>5 DEF Commanding, ListsStay, Starting
<1>7. SlToolInv'  BY <1>5, ToolStays
<1> QED BY <1>5, <1>6, <1>7, KeyStays, ListStays, AnswerStays, SlWorldStays DEF SlInv

LEMMA AddStep == ASSUME SlInv, Add  PROVE SlInv'
<1>1. sl # NoSl /\ sl.at = "append" /\ up  BY CommandsAreUp DEF Add, SlAt, Starting
<1>. DEFINE new == Server(sl.cmd.name, sl.cmd.host, sl.cmd.method, EncryptCredential(sl.cmd.method), sl.pin)
            pins == {[host |-> sl.cmd.host, key |-> sl.pin]}
<1>2. Stores(Append(servers, new), pins, servers)  BY DEF Add
<1>3. servers \in Seq(Sound(accepted))  BY DEF SlInv, SlListInv
<1>4. new \in Sound(accepted \cup pins)
  <2>1. masterKey = keyFile /\ keyFile = NewKey(lostKeys) /\ lostKeys \in Nat  BY <1>1 DEF SlInv, SlKeyInv
  <2>2. sl.cmd.name \in STRING /\ sl.cmd.host \in SlHosts /\ sl.cmd.method \in STRING /\ sl.pin \in Nat
    BY <1>1 DEF SlInv, SlShape, SlCommandOk
  <2> QED BY <2>1, <2>2 DEF Sound, Opened, PinnedBy, Servers, Server, EncryptCredential, NewKey, Torn
<1>. HIDE DEF new, pins
<1>5. servers \in Seq(Sound(accepted \cup pins))  BY <1>3, MoreAccepted
<1>6. Append(servers, new) \in Seq(Sound(accepted \cup pins))  BY <1>4, <1>5, AppendProperties
<1>7. slWorld' = slWorld /\ UNCHANGED <<keyFile, lostKeys, masterKey>> /\ UNCHANGED tests  BY <1>2 DEF Stores, keys
<1> QED BY <1>1, <1>2, <1>3, <1>6, <1>7, StoresStep

LEMMA RemoveStep == ASSUME SlInv, RemoveServer  PROVE SlInv'
<1>1. sl # NoSl /\ sl.at = "del" /\ up  BY CommandsAreUp DEF RemoveServer, SlAt, Starting
<1>2. servers \in Seq(Sound(accepted))  BY DEF SlInv, SlListInv
<1>3. Without(servers, sl.cmd.index) \in Seq(Sound(accepted))  BY <1>2, WithoutOne DEF RemoveServer
<1>4. accepted \cup {} = accepted  OBVIOUS
<1>5. Stores(Without(servers, sl.cmd.index), {}, Without(servers, sl.cmd.index))  BY DEF RemoveServer
<1>6. slWorld' = slWorld /\ UNCHANGED <<keyFile, lostKeys, masterKey>> /\ UNCHANGED tests  BY <1>5 DEF Stores, keys
<1>7. SlAt("del")  BY DEF RemoveServer
<1> QED BY <1>1, <1>3, <1>4, <1>5, <1>6, <1>7, StoresStep

LEMMA RenameStep == ASSUME SlInv, Rename  PROVE SlInv'
<1>1. sl # NoSl /\ sl.at = "rename" /\ up  BY CommandsAreUp DEF Rename, SlAt, Starting
<1>2. servers \in Seq(Sound(accepted))  BY DEF SlInv, SlListInv
<1>3. sl.cmd.name \in STRING  BY <1>1 DEF SlInv, SlShape, SlCommandOk
<1>4. Renamed(servers, sl.cmd.index, sl.cmd.name) \in Seq(Sound(accepted))  BY <1>2, <1>3, RenamedOne DEF Rename
<1>5. accepted \cup {} = accepted  OBVIOUS
<1>6. Stores(Renamed(servers, sl.cmd.index, sl.cmd.name), {}, servers)  BY DEF Rename, NameBack
<1>7. slWorld' = slWorld /\ UNCHANGED <<keyFile, lostKeys, masterKey>> /\ UNCHANGED tests  BY <1>6 DEF Stores, keys
<1> QED BY <1>1, <1>2, <1>4, <1>5, <1>6, <1>7, StoresStep

\* A backup is restored if its passwords open, and its host keys are accepted with it.
LEMMA RestoreStep == ASSUME SlInv, SlRestore  PROVE SlInv'
<1>1. sl # NoSl /\ sl.at = "restore" /\ up  BY CommandsAreUp DEF SlRestore, SlAt, Starting
<1>2. PICK document \in slWorld.documents :
        IF \A i \in DOMAIN document : Decrypts(document[i])
        THEN Stores(document, PinsOf(document), servers)
        ELSE sl' = NoSl /\ SlFine /\ UNCHANGED <<keys, lists, tests, hosts, seconds, up>>
  BY DEF SlRestore
<1>3. CASE ~\A i \in DOMAIN document : Decrypts(document[i])  BY <1>1, <1>2, <1>3, SlEnds
<1>4. CASE \A i \in DOMAIN document : Decrypts(document[i])
  <2>1. document \in Seq(Servers) /\ masterKey = keyFile /\ keyFile = NewKey(lostKeys) /\ lostKeys \in Nat
    BY <1>1 DEF SlInv, SlWorldOk, SlKeyInv
  <2>2. Stores(document, PinsOf(document), servers)  BY <1>2, <1>4
  <2>3. ASSUME NEW i \in DOMAIN document  PROVE document[i] \in Sound(accepted \cup PinsOf(document))
    <3>1. document[i] \in Servers /\ Decrypts(document[i])
      <4>. HIDE DEF Servers
      <4> QED BY <1>4, <2>1
    <3>2. [host |-> document[i].host, key |-> document[i].pin] \in PinsOf(document)  BY DEF PinsOf
    <3> QED BY <2>1, <3>1, <3>2 DEF Sound, Opened, PinnedBy, Decrypts, NewKey, Torn
  <2>4. document \in Seq(Sound(accepted \cup PinsOf(document)))  BY <2>1, <2>3, EachIn
  <2>5. slWorld' = slWorld /\ UNCHANGED <<keyFile, lostKeys, masterKey>> /\ UNCHANGED tests  BY <2>2 DEF Stores, keys
  <2>6. servers \in Seq(Sound(accepted))  BY DEF SlInv, SlListInv
  <2> QED BY <1>1, <2>2, <2>4, <2>5, <2>6, StoresStep
<1> QED BY <1>3, <1>4

LEMMA BackupServersStep == ASSUME SlInv, Backup  PROVE SlInv'
<1>. USE DEF Backup, keys, lists, tests
<1>1. sl # NoSl /\ sl.at = "backup" /\ up  BY CommandsAreUp DEF SlAt, Starting
<1>2. Commanding /\ ListsStay /\ seconds' = seconds  BY <1>1 DEF Commanding, ListsStay
<1>3. SlShape'  BY DEF SlShape
<1>4. SlToolInv'  BY ToolStays
<1>5. SlWorldOk'
  <2>1. PICK legacy, documents, t, system, commands :
          slWorld = [legacy |-> legacy, documents |-> documents, tool |-> t, system |-> system, commands |-> commands]
    BY DEF SlInv, SlWorldOk
  <2>2. slWorld' = [legacy |-> legacy, documents |-> documents \cup {servers}, tool |-> t, system |-> system,
                    commands |-> commands]
    BY <2>1
  <2>3. servers \in Seq(Servers)
    <3>1. Sound(accepted) \subseteq Servers  BY DEF Sound, Opened
    <3>2. servers \in Seq(Sound(accepted))  BY DEF SlInv, SlListInv
    <3>3. \A i \in DOMAIN servers : servers[i] \in Sound(accepted)
      <4>. HIDE DEF Sound
      <4> QED BY <3>2
    <3> QED BY <3>1, <3>2, <3>3, EachIn
  <2>4. /\ legacy \in Seq([name : STRING, host : SlHosts, method : STRING])
        /\ documents \subseteq Seq(Servers)
        /\ \A c \in commands : c.kind \in SlKinds /\ SlCommandOk(c.kind, c)
    BY <2>1 DEF SlInv, SlWorldOk
  <2>5. documents \cup {servers} \subseteq Seq(Servers)  BY <2>3, <2>4
  <2>6. SlWorldOk' <=>
         /\ slWorld' = [legacy |-> slWorld'.legacy, documents |-> slWorld'.documents, tool |-> slWorld'.tool,
                        system |-> slWorld'.system, commands |-> slWorld'.commands]
         /\ slWorld'.legacy \in Seq([name : STRING, host : SlHosts, method : STRING])
         /\ slWorld'.documents \subseteq Seq(Servers)
         /\ \A c \in slWorld'.commands : c.kind \in SlKinds /\ SlCommandOk(c.kind, c)
    BY DEF SlWorldOk, SlCommandOk
  <2>7. /\ slWorld'.legacy = legacy /\ slWorld'.documents = documents \cup {servers} /\ slWorld'.commands = commands
        /\ slWorld'.tool = t /\ slWorld'.system = system
    BY <2>2
  <2>8. slWorld' = [legacy |-> slWorld'.legacy, documents |-> slWorld'.documents, tool |-> slWorld'.tool,
                    system |-> slWorld'.system, commands |-> slWorld'.commands]
    BY <2>2, <2>7
  <2> QED BY <2>4, <2>5, <2>6, <2>7, <2>8
<1> QED BY <1>2, <1>3, <1>4, <1>5, KeyStays, ListStays, AnswerStays DEF SlInv

LEMMA ConfigureTimeoutStep == ASSUME SlInv, ConfigureTimeout  PROVE SlInv'
<1>. USE DEF ConfigureTimeout, keys, tests
<1>1. sl # NoSl /\ sl.at = "timeout" /\ up  BY CommandsAreUp DEF SlAt, Starting
<1>2. Commanding /\ sl' = NoSl  BY <1>1 DEF Commanding
<1>3. SlShape'  BY DEF SlShape
<1>4. SlToolInv'  BY ToolStays
<1>5. SlAnswerInv'
  <2>1. \/ seconds' = [memory |-> sl.cmd.seconds, disk |-> sl.cmd.seconds]
        \/ seconds' = [memory |-> seconds.memory, disk |-> sl.cmd.seconds] /\ "seconds" \in lapsed'
        \/ seconds' = seconds /\ lapsed' = lapsed
    BY DEF SlInv, SlAnswerInv
  <2>2. /\ "answers" \in lapsed' <=> "answers" \in lapsed
        /\ "servers" \in lapsed' <=> "servers" \in lapsed
        /\ UNCHANGED <<servers, stored, promised, up>>
    OBVIOUS
  <2>. HIDE DEF ConfigureTimeout
  <2> QED BY <1>1, <1>2, <2>1, <2>2 DEF SlInv, SlAnswerInv, SlAt
<1>6. SlListInv'
  <2>1. Sound(accepted)' = Sound(accepted)  BY DEF Sound, Opened, PinnedBy, LostKey
  <2> QED BY <2>1 DEF SlInv, SlListInv, PinnedHosts
<1> QED BY <1>2, <1>3, <1>4, <1>5, <1>6, KeyStays, SlWorldStays DEF SlInv

-----------------------------------------------------------------------------
(* The tests.                                                              *)
LEMMA RunRemoteStep == ASSUME SlInv, RunRemote  PROVE SlInv'
<1>. USE DEF RunRemote, keys, lists, tests
<1>1. sl # NoSl /\ sl.at = "all" /\ up  BY CommandsAreUp DEF SlAt, Starting
<1>2. PICK cmd, pin, next : sl = [cmd |-> cmd, at |-> "all", pin |-> pin, next |-> next] /\ pin \in Nat
  BY <1>1 DEF SlInv, SlShape
<1>3. sl' = [cmd |-> cmd, at |-> "all", pin |-> pin, next |-> next + 1]  BY <1>2
<1>4. SlShape' /\ sl'.at = "all"  BY <1>2, <1>3 DEF SlShape, SlPlaces, SlKinds, SlCommandOk
<1>5. Commanding /\ seconds' = seconds  BY <1>1, <1>4 DEF Commanding, Starting
<1>6. SlToolInv'  BY <1>4, ToolStays
<1>7. SlAnswerInv'
  <2>1. ~SlAt("load")' /\ ~SlAt("migrate")'  BY <1>4 DEF SlAt
  <2> QED BY <1>1, <1>5, <2>1 DEF SlInv, SlAnswerInv
<1>8. SlListInv'
  <2>1. PICK s : s = servers[sl.next]  OBVIOUS
  <2>2. visits' = visits \cup (IF Decrypts(s) /\ Pinned(s) THEN {[host |-> s.host, key |-> hosts[s.host]]} ELSE {})
    BY <2>1
  <2>3. s \in Sound(accepted)
    <3>1. servers \in Seq(Sound(accepted)) /\ sl.next \in DOMAIN servers  BY DEF SlInv, SlListInv
    <3>. HIDE DEF Sound, RunRemote
    <3> QED BY <2>1, <3>1
  <2>4. Pinned(s) => [host |-> s.host, key |-> hosts[s.host]] \in accepted
    BY <2>3 DEF Sound, PinnedBy, Pinned
  <2>5. PinnedHosts'  BY <2>2, <2>4 DEF SlInv, SlListInv, PinnedHosts
  <2>6. Sound(accepted)' = Sound(accepted)  BY DEF Sound, Opened, PinnedBy, LostKey
  <2> QED BY <2>5, <2>6 DEF SlInv, SlListInv
<1> QED BY <1>4, <1>5, <1>6, <1>7, <1>8, KeyStays, SlWorldStays DEF SlInv

\* A step of the test of this host: only the program, and where it is at, change.
LEMMA HostTestStep ==
  ASSUME SlInv, sl # NoSl, sl.at \notin Starting, SlShape', sl' = NoSl \/ sl'.at \notin Starting, SlToolInv',
         UNCHANGED <<keys, lists, visits, hosts, seconds, up>>
  PROVE  SlInv'
<1>1. up  BY CommandsAreUp
<1>2. Commanding /\ ListsStay  BY <1>1 DEF Commanding, ListsStay, keys, lists
<1> QED BY <1>2, KeyStays, ListStays, AnswerStays, SlWorldStays DEF SlInv, keys

\* Where a test goes on.
LEMMA TestGoes ==
  ASSUME SlInv, sl # NoSl, NEW at \in Testing, SlGo(at)  PROVE SlShape' /\ sl'.at = at /\ sl'.at \notin Starting
<1>1. at \in SlPlaces /\ at \notin {"append", "add", "rename"} /\ at \notin Starting
  BY DEF Testing, SlPlaces, Starting
<1> QED BY <1>1, SlGoes DEF SlInv

LEMMA FindSpeedtestStep == ASSUME SlInv, FindSpeedtest  PROVE SlInv'
<1>1. sl # NoSl /\ sl.at = "local" /\ sl.at \notin Starting  BY DEF FindSpeedtest, SlAt, Starting
<1>2. UNCHANGED <<keys, lists, visits, slRan, hosts, seconds, up>>  BY DEF FindSpeedtest
<1>3. PICK at \in {"run", "look in PATH", "unreceipt", "install"} : SlGo(at) /\ (at = "run" => Verify(slTool))
        /\ slTool' \in {slTool, Quarantine(slTool)} /\ (at = "run" => slTool' = slTool)
  BY DEF FindSpeedtest, Genuine
<1>4. SlShape' /\ sl'.at = at /\ sl'.at \notin Starting  BY <1>1, <1>3, TestGoes DEF Testing
<1>5. SlToolInv'
  <2>1. slTool = Managed(slTool.bin, slTool.receipt) /\ slTool.receipt \in {"speedtest", NoTool} /\ GenuineRuns
    BY DEF SlInv, SlToolInv
  <2>2. PICK bin, receipt : slTool = Managed(bin, receipt) /\ receipt \in {"speedtest", NoTool}  BY <2>1
  <2>3. slTool' = Managed(slTool'.bin, slTool'.receipt) /\ slTool'.receipt \in {"speedtest", NoTool}
    <3>1. PICK moved : moved = Quarantine(slTool)  OBVIOUS
    <3>2. moved = Managed(NoTool, receipt)  BY <2>2, <3>1 DEF Quarantine, Managed
    <3>3. PICK left : slTool' = Managed(left, receipt)  BY <1>3, <2>2, <3>1, <3>2
    <3>4. slTool'.bin = left /\ slTool'.receipt = receipt  BY <3>3 DEF Managed
    <3> QED BY <2>2, <3>3, <3>4
  <2>4. at = "run" => slTool' = Managed("speedtest", "speedtest")  BY <1>3, <2>1 DEF Verify, Executable
  <2> QED BY <1>2, <1>3, <1>4, <2>1, <2>3, <2>4 DEF SlToolInv, SlAt, GenuineRuns
<1> QED BY <1>1, <1>2, <1>4, <1>5, HostTestStep

LEMMA RemoveOldReceiptStep == ASSUME SlInv, RemoveOldReceipt  PROVE SlInv'
<1>1. sl # NoSl /\ sl.at \notin Starting /\ UNCHANGED <<keys, lists, visits, slRan, hosts, seconds, up>>
  BY DEF RemoveOldReceipt, SlAt, Starting
<1>2. SlShape' /\ sl'.at = "look in PATH" /\ sl'.at \notin Starting
  BY <1>1, TestGoes DEF Testing, RemoveOldReceipt
<1>3. slTool' = Managed(slTool.bin, NoTool)
  BY DEF SlInv, SlToolInv, RemoveOldReceipt, RemoveReceipt, WriteReceipt, Managed
<1>4. SlToolInv'  BY <1>1, <1>2, <1>3 DEF SlInv, SlToolInv, SlAt, GenuineRuns, Managed
<1> QED BY <1>1, <1>2, <1>4, HostTestStep

LEMMA LookForSpeedtestStep == ASSUME SlInv, LookForSpeedtest  PROVE SlInv'
<1>1. sl # NoSl /\ sl.at \notin Starting /\ UNCHANGED <<keys, lists, tests, hosts, seconds, up>>
  BY DEF LookForSpeedtest, SlAt, Starting
<1>2. PICK at \in {"run system", "install"} : SlGo(at)  BY DEF LookForSpeedtest
<1>3. SlShape' /\ sl'.at = at /\ sl'.at \notin Starting  BY <1>1, <1>2, TestGoes DEF Testing
<1>4. SlToolInv'  BY <1>1, <1>3, ToolStays DEF tests
<1> QED BY <1>1, <1>3, <1>4, HostTestStep DEF tests

LEMMA ExtractSpeedtestStep == ASSUME SlInv, ExtractSpeedtest  PROVE SlInv'
<1>1. sl # NoSl /\ sl.at \notin Starting /\ UNCHANGED <<keys, lists, visits, slRan, hosts, seconds, up>>
  BY DEF ExtractSpeedtest, SlAt, Starting
<1>2. SlShape' /\ sl'.at = "receipt" /\ sl'.at \notin Starting  BY <1>1, TestGoes DEF Testing, ExtractSpeedtest
<1>3. slTool' = Managed("speedtest", slTool.receipt)  BY DEF SlInv, SlToolInv, ExtractSpeedtest, Managed
<1>4. SlToolInv'  BY <1>1, <1>2, <1>3 DEF SlInv, SlToolInv, SlAt, GenuineRuns, Managed
<1> QED BY <1>1, <1>2, <1>4, HostTestStep

LEMMA InstallSpeedtestStep == ASSUME SlInv, InstallSpeedtest  PROVE SlInv'
<1>1. /\ sl # NoSl /\ sl.at = "receipt" /\ sl.at \notin Starting
      /\ UNCHANGED <<keys, lists, visits, slRan, hosts, seconds, up>>
  BY DEF InstallSpeedtest, SlAt, Starting
<1>2. slTool = Managed("speedtest", slTool.receipt) /\ slTool.receipt \in {"speedtest", NoTool} /\ GenuineRuns
  BY <1>1 DEF SlInv, SlToolInv, SlAt
<1>3. CASE slTool' = WriteReceipt(slTool, slTool.bin) /\ SlGo("run")
  <2>1. SlShape' /\ sl'.at = "run" /\ sl'.at \notin Starting  BY <1>1, <1>3, TestGoes DEF Testing
  <2>2. slTool' = Managed("speedtest", "speedtest")  BY <1>2, <1>3 DEF WriteReceipt, Managed
  <2>3. SlToolInv'  BY <1>1, <1>2, <2>1, <2>2 DEF SlToolInv, SlAt, GenuineRuns, Managed
  <2> QED BY <1>1, <2>1, <2>3, HostTestStep
<1>4. CASE slTool' = Quarantine(slTool) /\ sl' = NoSl
  <2>1. SlShape'  BY <1>4 DEF SlShape
  <2>2. slTool' = Managed(NoTool, slTool.receipt)  BY <1>2, <1>4 DEF Quarantine, Managed
  <2>3. SlToolInv'  BY <1>1, <1>2, <1>4, <2>2 DEF SlToolInv, SlAt, GenuineRuns, Managed
  <2> QED BY <1>1, <1>4, <2>1, <2>3, HostTestStep
<1> QED BY <1>3, <1>4 DEF InstallSpeedtest

LEMMA RunLocalStep == ASSUME SlInv, RunLocal  PROVE SlInv'
<1>1. /\ sl # NoSl /\ sl.at \notin Starting /\ sl' = NoSl /\ slTool' = slTool
      /\ UNCHANGED <<keys, lists, visits, hosts, seconds, up>>
  BY DEF RunLocal, SlAt, Starting
<1>2. SlShape'  BY <1>1 DEF SlShape
<1>3. GenuineRuns'  BY DEF RunLocal, SlInv, SlToolInv, GenuineRuns, SlAt
<1>4. SlToolInv'  BY <1>1, <1>3 DEF SlInv, SlToolInv, SlAt, Managed
<1> QED BY <1>1, <1>2, <1>4, HostTestStep

-----------------------------------------------------------------------------
LEMMA SlBeginsSound == ASSUME NEW world \in SlWorlds, SlInit(world)  PROVE SlInv
<1>. USE DEF SlInit
<1>1. SlShape /\ sl # NoSl => sl.at = "key"  BY DEF SlBegin, SlShape, SlPlaces, Starting, SlCommandOk
<1>2. SlShape  BY DEF SlBegin, SlShape, SlPlaces, Starting, SlCommandOk
<1>3. SlWorldOk
  <2>1. slWorld = [legacy |-> slWorld.legacy, documents |-> slWorld.documents, tool |-> slWorld.tool,
                   system |-> slWorld.system, commands |-> slWorld.commands]  BY SlAssumption
  <2>2. slWorld.legacy \in Seq([name : STRING, host : SlHosts, method : STRING])
        /\ slWorld.documents \subseteq Seq(Servers)  BY SlAssumption
  <2>3. ASSUME NEW c \in slWorld.commands  PROVE c.kind \in SlKinds /\ SlCommandOk(c.kind, c)
    BY SlAssumption DEF SlKinds, SlCommandOk
  <2> QED BY <2>1, <2>2, <2>3 DEF SlWorldOk
<1>4. SlToolInv  BY SlAssumption DEF SlToolInv, SlBegin, SlAt, GenuineRuns
<1>5. SlKeyInv  BY DEF SlKeyInv, SlBegin, SlAt, Starting, Torn
<1>6. SlListInv
  <2>1. <<>> \in Seq(Sound(accepted))  OBVIOUS
  <2> QED BY <2>1 DEF SlListInv, PinnedHosts
<1>7. SlAnswerInv  BY DEF SlAnswerInv, SlBegin, SlAt
<1> QED BY <1>2, <1>3, <1>4, <1>5, <1>6, <1>7 DEF SlInv

LEMMA SlStep == ASSUME SlInv, SlNext  PROVE SlInv'
<1>1. ASSUME SlFails  PROVE SlInv'  BY <1>1, SlEnds DEF SlFails
<1>2. ASSUME SlRefused  PROVE SlInv'
  <2>1. up  BY <1>2, CommandsAreUp DEF SlRefused, SlAt, Starting
  <2> QED BY <1>2, <2>1, SlEnds DEF SlRefused
<1>3. ASSUME RunRemoteDone  PROVE SlInv'
  <2>1. up  BY <1>3, CommandsAreUp DEF RunRemoteDone, SlAt, Starting
  <2> QED BY <1>3, <2>1, SlEnds DEF RunRemoteDone
<1>4. CASE LoadKey \/ KeyInvalid \/ CreateKey \/ KeyTorn \/ LoadTimeout \/ LoadServers \/ MigrateLegacy \/ SlRestarts
           \/ HostKeyChanges
  BY <1>4, LoadKeyStep, KeyInvalidStep, CreateKeyStep, KeyTornStep, LoadTimeoutStep, LoadServersStep, MigrateLegacyStep,
     SlRestartsStep, HostKeyChangesStep
<1>5. CASE SlHandle \/ VerifyFirstConnection \/ Add \/ RemoveServer \/ Rename \/ ConfigureTimeout \/ Backup \/ SlRestore
  BY <1>5, SlHandleStep, VerifyFirstConnectionStep, AddStep, RemoveStep, RenameStep, ConfigureTimeoutStep, BackupServersStep,
     RestoreStep
<1>6. CASE RunRemote \/ FindSpeedtest \/ RemoveOldReceipt \/ LookForSpeedtest \/ ExtractSpeedtest
           \/ InstallSpeedtest \/ RunLocal
  BY <1>6, RunRemoteStep, FindSpeedtestStep, RemoveOldReceiptStep, LookForSpeedtestStep, ExtractSpeedtestStep,
     InstallSpeedtestStep, RunLocalStep
<1> QED BY <1>1, <1>2, <1>3, <1>4, <1>5, <1>6 DEF SlNext

LEMMA SlStutter == ASSUME SlInv, UNCHANGED slVars  PROVE SlInv'
<1>. USE DEF slVars
<1>1. SlShape' /\ SlToolInv' /\ SlKeyInv' /\ SlAnswerInv'
  BY DEF SlInv, SlShape, SlToolInv, SlKeyInv, SlAnswerInv, SlAt, SlCommandOk, GenuineRuns
<1>2. ListsStay  BY DEF ListsStay
<1> QED BY <1>1, <1>2, ListStays, SlWorldStays DEF SlInv

(* What each state of speedlink has: lists of passwords that open and host *)
(* keys that were accepted, a program that is what its receipt says when   *)
(* it is run, and answers that memory and disk agree with.                 *)
THEOREM SlInvariance == SlSpec => []SlInv
<1>1. (\E world \in SlWorlds : SlInit(world)) => SlInv  BY SlBeginsSound
<1>2. SlInv /\ [SlNext]_slVars => SlInv'  BY SlStep, SlStutter
<1> QED BY <1>1, <1>2, PTL DEF SlSpec

(* PinnedHosts, Readable, KeepsItsWord and GenuineRuns, for any servers,   *)
(* hosts, backups and commands, over failures, restarts and host keys that *)
(* change.                                                                 *)
THEOREM ServersStaySound == SlSpec => []SpeedlinkIsSound
<1>1. SlInv => SpeedlinkIsSound
  <2>. SUFFICES ASSUME SlInv  PROVE SpeedlinkIsSound  OBVIOUS
  <2>1. PinnedHosts /\ GenuineRuns  BY DEF SlInv, SlListInv, SlToolInv
  <2>2. Readable
    <3>1. up => masterKey = keyFile  BY DEF SlInv, SlKeyInv
    <3>2. ASSUME NEW i \in DOMAIN stored, stored[i].method = "password"
          PROVE stored[i].key = keyFile \/ LostKey(stored[i].key)
      <4>1. stored \in Seq(Sound(accepted))  BY DEF SlInv, SlListInv
      <4>2. stored[i] \in Sound(accepted)
        <5>. HIDE DEF Sound
        <5> QED BY <4>1
      <4> QED BY <3>2, <4>2 DEF Sound, Opened
    <3> QED BY <3>1, <3>2 DEF Readable
  <2>3. KeepsItsWord  BY DEF SlInv, SlAnswerInv, KeepsItsWord
  <2> QED BY <2>1, <2>2, <2>3 DEF SpeedlinkIsSound
<1> QED BY <1>1, SlInvariance, PTL

-----------------------------------------------------------------------------
YtKinds == {"download", "update", "setup", "doctor", "binary", "clear", "set"}
\* What looks for the program beyond its own place, and what runs it.
Looking == {"unreceipt", "find spare", "look in PATH"}
Using == {"prepare", "info", "fetch", "upload", "self-update", "version"}
Installing == {"sums", "get", "replace", "place", "receipt"}
YtPlaces == YtKinds \cup Looking \cup Using \cup Installing \cup {"find", "find own", "isolate", "clearing"}
Locking == {"download", "update", "setup"}

SongShape(s) ==
  /\ s = [cmd |-> s.cmd, at |-> s.at, path |-> s.path, again |-> s.again, sums |-> s.sums, binary |-> s.binary]
  /\ s.cmd.kind \in YtKinds /\ s.at \in YtPlaces /\ s.path \in {"", "own", "chosen", "system"}
  /\ s.path = "own" => s.at \in Using
  /\ s.at \in YtKinds => s.cmd.kind = s.at
  /\ s.at \in {"find", "find own", "isolate"} \cup Looking => s.cmd.kind \in Locking \cup {"doctor", "binary"}
  /\ s.at \in Installing => s.cmd.kind \in Locking
\* The file in the program's place is upstream's, or none.
Settled(s) == s.path = "own" \/ s.at = "receipt"
\* It is so, or it could not be moved away.
Handed(s) == s.at \in Looking \cup {"place"} \/ (s.at \in {"sums", "get"} /\ s.cmd.kind # "setup")
SongTrusts(s) ==
  /\ Settled(s) => tool.bin \notin Strays
  /\ Handed(s) => (tool.bin \in Strays => tool.bin \in unmoved)
  /\ s.sums \notin Strays
  /\ s.at \in {"replace", "place"} => s.binary \notin Strays
  /\ s.path = "own" /\ s.cmd.kind \in Locking => ~unreceipted
\* Those that download, install and clear hold the mutex, and a download has its directory.
SongHolds(w, s) ==
  /\ s.cmd.kind \in Locking /\ s.at # s.cmd.kind => ytMutex = w
  /\ s.at = "clearing" => ytMutex = w
  /\ s.at \in {"prepare", "info", "fetch", "upload"} => s.cmd.kind = "download"
  /\ s.at \in {"info", "fetch", "upload"} => w \in workDirs
SongOk(w, s) == s # NoSong => SongShape(s) /\ SongTrusts(s) /\ SongHolds(w, s)
SongsInv ==
  /\ DOMAIN songs = YtWorkers /\ songs = [w \in YtWorkers |-> songs[w]]
  /\ \A w \in YtWorkers : SongOk(w, songs[w])
YtWorldOk ==
  /\ ytWorld.workers \in Nat /\ latest \in 1 .. Len(Releases)
  /\ \A c \in ytWorld.commands : c.kind \in YtKinds
YtToolInv ==
  /\ tool = Managed(tool.bin, tool.receipt) /\ tool.receipt \notin Strays
  /\ TrustedRuns /\ StraysAreKept
YtInv == SongsInv /\ YtWorldOk /\ YtToolInv /\ ChosenIsKept

-----------------------------------------------------------------------------
(* A step of one worker.                                                   *)

\* Worker w's command is now s, or none.
NowAt(w, s) == songs' = [songs EXCEPT ![w] = s]
Moved(s, at) == [cmd |-> s.cmd, at |-> at, path |-> s.path, again |-> s.again, sums |-> s.sums, binary |-> s.binary]
\* What the others rely on: nothing of others' comes into the program's
\* place, only the holder of the mutex puts a program without receipt there,
\* and he keeps the mutex, and with it the directory of the download.
FilesRespect(w) ==
  /\ tool'.bin \in Strays => tool'.bin = tool.bin
  /\ unmoved \subseteq unmoved' /\ (unreceipted' => unreceipted \/ ytMutex = w)
Respects(w) ==
  /\ FilesRespect(w)
  /\ \A v \in YtWorkers \ {w} : ytMutex = v => ytMutex' = v /\ (v \in workDirs => v \in workDirs')
\* Nothing that a command's trust rests on changes.
TrustStays == UNCHANGED <<tool, unmoved, unreceipted>>

LEMMA OtherSongs ==
  ASSUME NEW w, NEW v \in YtWorkers \ {w}, NEW s, Respects(w), SongOk(v, s)
  PROVE  SongOk(v, s)'
<1>. SUFFICES ASSUME s # NoSong  PROVE SongOk(v, s)'  BY DEF SongOk
<1>1. SongShape(s) /\ SongTrusts(s) /\ SongHolds(v, s)  BY DEF SongOk
<1>2. SongHolds(v, s)'  BY <1>1 DEF SongHolds, SongShape, Respects, Using, Locking
<1>3. s.path = "own" /\ s.cmd.kind \in Locking => ytMutex = v  BY <1>1 DEF SongShape, SongHolds, Using, Locking
<1>4. SongTrusts(s)'  BY <1>1, <1>3 DEF SongTrusts, Respects, FilesRespect, Settled, Handed
<1> QED BY <1>1, <1>2, <1>4 DEF SongOk, SongShape

LEMMA SongStep ==
  ASSUME SongsInv, NEW w \in YtWorkers, NEW s, NowAt(w, s), Respects(w), ytWorld' = ytWorld, SongOk(w, s)'
  PROVE  SongsInv'
<1>1. YtWorkers' = YtWorkers  BY DEF YtWorkers
<1>2. DOMAIN songs' = YtWorkers /\ songs' = [v \in YtWorkers |-> songs'[v]]  BY DEF SongsInv, NowAt
<1>3. ASSUME NEW v \in YtWorkers  PROVE SongOk(v, songs[v])'
  <2>1. CASE v = w
    <3>1. songs'[v] = s  BY <2>1 DEF SongsInv, NowAt
    <3> QED BY <2>1, <3>1 DEF SongOk, SongShape, SongTrusts, SongHolds, Settled, Handed
  <2>2. CASE v # w
    <3>1. PICK r : r = songs[v]  OBVIOUS
    <3>2. songs'[v] = r  BY <2>2, <3>1 DEF SongsInv, NowAt
    <3>3. SongOk(v, r)  BY <3>1 DEF SongsInv
    <3>4. SongOk(v, r)'  BY <2>2, <3>3, OtherSongs
    <3> QED BY <3>2, <3>4 DEF SongOk, SongShape, SongTrusts, SongHolds, Settled, Handed
  <2> QED BY <2>1, <2>2
<1> QED BY <1>1, <1>2, <1>3 DEF SongsInv

LEMMA GoStep ==
  ASSUME SongsInv, NEW w \in YtWorkers, NEW s, s = songs[w], s # NoSong, NEW at, YtGo(w, at), Respects(w),
         ytWorld' = ytWorld, SongOk(w, Moved(s, at))'
  PROVE  SongsInv'
<1>1. s = Moved(s, s.at)  BY DEF SongsInv, SongOk, SongShape, Moved
<1>2. PICK r : r = [s EXCEPT !.at = at]  OBVIOUS
<1>3. r = Moved(s, at)  BY <1>1, <1>2 DEF Moved
<1>4. NowAt(w, r)  BY <1>2 DEF YtGo, NowAt, SongsInv
<1>5. SongOk(w, r)'  BY <1>3 DEF SongOk, SongShape, SongTrusts, SongHolds, Settled, Handed
<1> QED BY <1>4, <1>5, SongStep

LEMMA YtEndStep ==
  ASSUME SongsInv, NEW w \in YtWorkers, YtEnd(w), ytWorld' = ytWorld, FilesRespect(w)
  PROVE  SongsInv'
<1>1. NowAt(w, NoSong) /\ Respects(w)  BY DEF YtEnd, NowAt, Respects
<1>2. SongOk(w, NoSong)'  BY DEF SongOk
<1> QED BY <1>1, <1>2, SongStep

\* What a command has when the mutex and the directories stay as they are.
LEMMA StayRespects ==
  ASSUME NEW w, UNCHANGED <<ytMutex, workDirs>>, FilesRespect(w)  PROVE Respects(w)
BY DEF Respects
LEMMA TrustRespects == ASSUME NEW w, TrustStays  PROVE FilesRespect(w)
BY DEF TrustStays, FilesRespect

LEMMA FoundStep ==
  ASSUME SongsInv, NEW w \in YtWorkers, NEW s, s = songs[w], s # NoSong, s.at \notin YtKinds \cup {"clearing"} \cup Using,
         NEW path \in {"own", "chosen", "system"}, path = "own" => tool'.bin \notin Strays /\ ~unreceipted',
         Found(w, path), FilesRespect(w), ytWorld' = ytWorld
  PROVE  SongsInv'
<1>1. CASE Kind(w) = "binary"  BY <1>1, YtEndStep DEF Found
<1>2. CASE Kind(w) # "binary"
  <2>1. PICK at : at = FirstRun(w)  OBVIOUS
  <2>2. PICK r : r = [s EXCEPT !.path = path, !.at = at]  OBVIOUS
  <2>3. NowAt(w, r) /\ YtStay  BY <1>2, <2>1, <2>2 DEF Found, NowAt, SongsInv
  <2>4. SongOk(w, s)  BY DEF SongsInv
  <2>5. PICK p : p = [s EXCEPT !.path = path]  OBVIOUS
  <2>6. p = [cmd |-> s.cmd, at |-> s.at, path |-> path, again |-> s.again, sums |-> s.sums, binary |-> s.binary]
    BY <2>4, <2>5 DEF SongOk, SongShape
  <2>7. r = [cmd |-> s.cmd, at |-> at, path |-> path, again |-> s.again, sums |-> s.sums, binary |-> s.binary]
    <3>1. r = [p EXCEPT !.at = at]  BY <2>2, <2>5
    <3> QED BY <2>6, <3>1
  <2>8. at = IF s.cmd.kind = "download" THEN "prepare" ELSE IF s.cmd.kind = "update" THEN "self-update" ELSE "version"
    BY <2>1, Zenon DEF FirstRun, Kind
  <2>9. ytMutex' = ytMutex /\ workDirs' = workDirs  BY <2>3 DEF YtStay
  <2>10. SongShape(r)  BY <2>4, <2>7, <2>8
    DEF SongOk, SongShape, YtPlaces, Using, YtKinds, Looking, Installing, Locking
  <2>11. SongTrusts(r)'
    BY <2>4, <2>7, <2>8 DEF SongOk, SongTrusts, Settled, Handed, Looking
  <2>12. SongHolds(w, r)'
    BY <2>4, <2>7, <2>8, <2>9 DEF SongOk, SongHolds, SongShape, Locking, YtKinds
  <2>13. Respects(w)  BY <2>9, StayRespects
  <2>14. SongOk(w, r)'  BY <2>10, <2>11, <2>12 DEF SongOk, SongShape
  <2> QED BY <2>3, <2>13, <2>14, SongStep
<1> QED BY <1>1, <1>2

\* What was not found and could not be moved away is what may be written over.
LEMMA NotFoundStep ==
  ASSUME SongsInv, NEW w \in YtWorkers, NEW s, s = songs[w], s # NoSong, s.at \in Looking \cup {"isolate"},
         NotFound(w), tool' = tool, unmoved \subseteq unmoved', unreceipted' = unreceipted, ytWorld' = ytWorld,
         tool.bin \in Strays => tool.bin \in unmoved'
  PROVE  SongsInv'
<1>1. FilesRespect(w)  BY DEF FilesRespect
<1>2. CASE YtEnd(w)  BY <1>1, <1>2, YtEndStep
<1>3. CASE /\ Kind(w) \notin {"doctor", "binary"}
           /\ songs' = [songs EXCEPT ![w] = [@ EXCEPT !.at = IF songs[w].again THEN "sums" ELSE "find", !.again = TRUE]]
           /\ YtStay
  <2>1. PICK at \in {"sums", "find"} : at = IF s.again THEN "sums" ELSE "find"  OBVIOUS
  <2>2. PICK yes : yes = TRUE  OBVIOUS
  <2>3. PICK p : p = [s EXCEPT !.at = at]  OBVIOUS
  <2>4. SongShape(s) /\ SongTrusts(s) /\ SongHolds(w, s)  BY DEF SongsInv, SongOk
  <2>5. p = [cmd |-> s.cmd, at |-> at, path |-> s.path, again |-> s.again, sums |-> s.sums, binary |-> s.binary]
    BY <2>3, <2>4 DEF SongShape
  <2>6. PICK r : r = [p EXCEPT !.again = yes]  OBVIOUS
  <2>7. r = [cmd |-> s.cmd, at |-> at, path |-> s.path, again |-> yes, sums |-> s.sums, binary |-> s.binary]
    BY <2>5, <2>6
  <2>8. NowAt(w, r)  BY <1>3, <2>1, <2>2, <2>3, <2>6 DEF NowAt, SongsInv
  <2>9. SongShape(r)
    BY <1>3, <2>4, <2>7 DEF SongShape, YtPlaces, Using, Looking, YtKinds, Installing, Locking, Kind
  <2>10. SongTrusts(r)'  BY <2>4, <2>7, <2>9 DEF SongShape, SongTrusts, Settled, Handed, Using, Looking
  <2>11. ytMutex' = ytMutex /\ workDirs' = workDirs  BY <1>3 DEF YtStay
  <2>12. SongHolds(w, r)'  BY <2>4, <2>7, <2>11 DEF SongHolds, Locking, Looking
  <2>13. Respects(w)  BY <1>1, <2>11, StayRespects
  <2>14. SongOk(w, r)'  BY <2>9, <2>10, <2>12 DEF SongOk, SongShape
  <2> QED BY <2>8, <2>13, <2>14, SongStep
<1> QED BY <1>2, <1>3 DEF NotFound

-----------------------------------------------------------------------------
(* What the steps leave as it is.                                          *)
LEMMA YtToolStays ==
  ASSUME YtInv, UNCHANGED <<ytWorld, tool, spare, isolated, unmoved, ran>>  PROVE YtToolInv'
BY DEF YtInv, YtToolInv, TrustedRuns, StraysAreKept
LEMMA ConfigStays ==
  ASSUME YtInv, UNCHANGED <<ytSettings, chosen>>  PROVE ChosenIsKept'
BY DEF YtInv, ChosenIsKept, YtRead
LEMMA YtWorldStays ==
  ASSUME YtInv, UNCHANGED <<ytWorld, latest>>  PROVE YtWorldOk'
BY DEF YtInv, YtWorldOk
LEMMA FilesTrust == ASSUME UNCHANGED files  PROVE TrustStays
BY DEF files, TrustStays
\* What a command may do without a change of what it trusts in.
LEMMA TrustGoes ==
  ASSUME NEW s, SongTrusts(s), TrustStays  PROVE SongTrusts(s)'
BY DEF SongTrusts, TrustStays

\* A command that goes on and changes neither the files nor what is held.
LEMMA YtQuietStep ==
  ASSUME YtInv, NEW w \in YtWorkers, NEW s, s = songs[w], s # NoSong, NEW at, YtGo(w, at),
         UNCHANGED <<ytWorld, files, latest, configs, ran, ytMutex, workDirs>>,
         SongOk(w, Moved(s, at))
  PROVE  YtInv'
<1>1. Respects(w)  BY StayRespects, TrustRespects, FilesTrust
<1>2. SongOk(w, Moved(s, at))'  BY DEF SongOk, SongTrusts, SongHolds, files
<1>3. SongsInv'  BY <1>1, <1>2, GoStep DEF YtInv
<1> QED BY <1>3, YtToolStays, ConfigStays, YtWorldStays DEF YtInv, files, configs

LEMMA QuietEnd ==
  ASSUME YtInv, NEW w \in YtWorkers, YtEnd(w), UNCHANGED <<ytWorld, files, latest, configs, ran>>
  PROVE  YtInv'
<1>1. SongsInv'  BY YtEndStep, TrustRespects, FilesTrust DEF YtInv
<1> QED BY <1>1, YtToolStays, ConfigStays, YtWorldStays DEF YtInv, files, configs

\* The program and its receipt change.
LEMMA ToolChanges ==
  ASSUME YtInv, NEW bin, NEW receipt, tool' = Managed(bin, receipt), receipt \notin Strays,
         bin \notin Strays \/ bin = tool.bin,
         tool.bin \in Strays => bin = tool.bin \/ tool.bin \in isolated' \/ tool.bin \in unmoved',
         spare \in Strays => spare' = spare \/ spare \in isolated',
         isolated \subseteq isolated', unmoved \subseteq unmoved', ytWorld' = ytWorld, TrustedRuns'
  PROVE  YtToolInv' /\ (tool'.bin \in Strays => tool'.bin = tool.bin)
<1>1. tool'.bin = bin /\ tool'.receipt = receipt  BY DEF Managed
<1>2. {ytWorld.tool.bin, ytWorld.spare} \cap Strays \subseteq isolated \cup {tool.bin, spare} \cup unmoved
  BY DEF YtInv, YtToolInv, StraysAreKept
<1>3. StraysAreKept'
  <2>1. ASSUME NEW stray \in {ytWorld.tool.bin, ytWorld.spare} \cap Strays
        PROVE  stray \in isolated' \cup {bin, spare'} \cup unmoved'
    BY <1>2, <2>1
  <2> QED BY <1>1, <2>1 DEF StraysAreKept
<1> QED BY <1>1, <1>3 DEF YtToolInv, Managed

\* What could not be moved away is added.
LEMMA MoreUnmoved ==
  ASSUME YtInv, UNCHANGED <<ytWorld, tool, spare, isolated, ran>>, unmoved \subseteq unmoved'
  PROVE  YtToolInv'
BY DEF YtInv, YtToolInv, TrustedRuns, StraysAreKept

\* What worker w's command has.
LEMMA SongHas ==
  ASSUME YtInv, NEW w \in YtWorkers, songs[w] # NoSong
  PROVE  /\ SongShape(songs[w]) /\ SongTrusts(songs[w]) /\ SongHolds(w, songs[w])
         /\ Kind(w) = songs[w].cmd.kind
BY DEF YtInv, SongsInv, SongOk, Kind

-----------------------------------------------------------------------------
(* The actions.                                                            *)
LEMMA YtHandleStep == ASSUME YtInv, NEW w \in YtWorkers, YtHandle(w)  PROVE YtInv'
<1>1. PICK c \in ytWorld.commands :
        songs' = [songs EXCEPT ![w] = [cmd |-> c, at |-> c.kind, path |-> "", again |-> FALSE, sums |-> "", binary |-> ""]]
  BY DEF YtHandle
<1>. DEFINE s == [cmd |-> c, at |-> c.kind, path |-> "", again |-> FALSE, sums |-> "", binary |-> ""]
<1>2. UNCHANGED <<ytWorld, files, latest, configs, ran, ytMutex, workDirs>>  BY DEF YtHandle, YtStay
<1>3. c.kind \in YtKinds  BY DEF YtInv, YtWorldOk
<1>4. SongOk(w, s)'
  <2>1. SongShape(s)  BY <1>3 DEF SongShape, YtPlaces, YtKinds, Looking, Using, Installing, Locking
  <2>2. SongTrusts(s)' /\ SongHolds(w, s)'
    BY <1>3 DEF SongTrusts, SongHolds, Settled, Handed, Looking, YtKinds, Strays
  <2> QED BY <2>1, <2>2 DEF SongOk, SongShape
<1>5. NowAt(w, s) /\ Respects(w)  BY <1>1, <1>2, StayRespects, TrustRespects, FilesTrust DEF NowAt
<1>. HIDE DEF s
<1>6. SongsInv'
  <2>1. PICK r : r = s  OBVIOUS
  <2>2. SongOk(w, r)'  BY <1>4, <2>1 DEF s, SongOk, SongShape, SongTrusts, SongHolds, Settled, Handed
  <2> QED BY <1>2, <1>5, <2>1, <2>2, SongStep DEF YtInv
<1> QED BY <1>2, <1>6, YtToolStays, ConfigStays, YtWorldStays DEF YtInv, files, configs

LEMMA YtRestartsStep == ASSUME YtInv, YtRestarts  PROVE YtInv'
<1>. USE DEF YtRestarts, files
<1>1. SongsInv'
  <2>1. YtWorkers' = YtWorkers  BY DEF YtWorkers
  <2> QED BY <2>1 DEF SongsInv, SongOk
<1>2. ChosenIsKept'
  <2>1. ytSettings' = MigrateLegacyConfig(ytSettings, ytWorld.legacy) /\ chosen' = chosen  OBVIOUS
  <2>. SUFFICES ASSUME NEW k \in DOMAIN chosen, chosen[k] # ""  PROVE YtRead(k)' = chosen[k]
    BY <2>1 DEF ChosenIsKept
  <2>2. YtRead(k) = chosen[k]  BY DEF YtInv, ChosenIsKept
  <2>3. k \in DOMAIN ytSettings /\ ytSettings[k] = chosen[k]  BY <2>2 DEF YtRead
  <2> QED BY <2>1, <2>3 DEF YtRead, MigrateLegacyConfig
<1> QED BY <1>1, <1>2, YtToolStays, YtWorldStays DEF YtInv

LEMMA ReleasedStep == ASSUME YtInv, Released  PROVE YtInv'
<1>. USE DEF Released, files, configs
<1>1. SongsInv'
  <2>1. YtWorkers' = YtWorkers  BY DEF YtWorkers
  <2> QED BY <2>1 DEF YtInv, SongsInv, YtStay, SongOk, SongTrusts, SongHolds
<1>2. YtWorldOk'
  <2>1. Len(Releases) \in Nat  BY YtAssumption
  <2> QED BY <2>1 DEF YtInv, YtWorldOk
<1> QED BY <1>1, <1>2, YtToolStays, ConfigStays DEF YtInv

LEMMA LookStep == ASSUME YtInv, NEW w \in YtWorkers, Look(w)  PROVE YtInv'
<1>1. PICK s : s = songs[w]  OBVIOUS
<1>2. s # NoSong /\ s.at \in {"doctor", "binary"}  BY <1>1 DEF Look, YtAt
<1>3. SongShape(s) /\ SongTrusts(s) /\ SongHolds(w, s)  BY <1>1, <1>2, SongHas
<1>4. SongOk(w, Moved(s, "find"))
  BY <1>2, <1>3
  DEF SongOk, SongShape, SongTrusts, SongHolds, Moved, Settled, Handed, Looking, Using, YtPlaces, YtKinds, Locking, Installing
<1> QED BY <1>1, <1>2, <1>4, YtQuietStep DEF Look, YtStay

LEMMA LockStep == ASSUME YtInv, NEW w \in YtWorkers, Lock(w)  PROVE YtInv'
<1>1. PICK s : s = songs[w]  OBVIOUS
<1>2. s # NoSong /\ s.at \in Locking  BY <1>1 DEF Lock, YtAt, Locking
<1>3. SongShape(s) /\ SongTrusts(s) /\ SongHolds(w, s) /\ Kind(w) = s.cmd.kind
  BY <1>1, <1>2, SongHas
<1>4. PICK at : at = IF s.cmd.kind = "setup" THEN "sums" ELSE "find"  OBVIOUS
<1>5. YtGo(w, at) /\ ytMutex = 0 /\ ytMutex' = w  BY <1>3, <1>4 DEF Lock, TakeMutex
<1>6. UNCHANGED <<ytWorld, files, latest, configs, workDirs, ran>>  BY DEF Lock
<1>7. SongOk(w, Moved(s, at))'
  <2>1. SongShape(Moved(s, at))  BY <1>2, <1>3, <1>4
    DEF SongShape, Moved, YtPlaces, Using, Locking, YtKinds, Looking, Installing
  <2>2. SongTrusts(Moved(s, at))'
    BY <1>2, <1>3, <1>4, <1>6 DEF SongShape, SongTrusts, Moved, Settled, Handed, Looking, Using, Locking, files
  <2>3. SongHolds(w, Moved(s, at))'  BY <1>4, <1>5 DEF SongHolds, Moved
  <2> QED BY <2>1, <2>2, <2>3 DEF SongOk, SongShape
<1>8. Respects(w)  BY <1>5, <1>6, TrustRespects, FilesTrust DEF Respects, YtWorkers
<1>9. SongsInv'  BY <1>1, <1>2, <1>5, <1>6, <1>7, <1>8, GoStep DEF YtInv
<1> QED BY <1>6, <1>9, YtToolStays, ConfigStays, YtWorldStays DEF YtInv, files, configs

\* Looking in the program's own place.
LEMMA FindOwnStep ==
  ASSUME YtInv, NEW w \in YtWorkers, NEW s, s = songs[w], s # NoSong, s.at \in {"find", "find own"}, FindOwn(w),
         unreceipted' = (unreceipted /\ ~Verify(tool)), UNCHANGED <<ytWorld, tool, spare, isolated, latest, configs, ran>>
  PROVE  YtInv'
<1>1. SongShape(s) /\ SongTrusts(s) /\ SongHolds(w, s)  BY SongHas
<1>2. SongsInv /\ s.at \notin YtKinds \cup {"clearing"} \cup Using  BY DEF YtInv, YtKinds, Using
<1>3. SUFFICES ASSUME unmoved \subseteq unmoved'  PROVE SongsInv'
  <2>1. unmoved \subseteq unmoved'  BY DEF FindOwn
  <2> QED BY <1>3, <2>1, MoreUnmoved, ConfigStays, YtWorldStays DEF YtInv, configs
<1>4. FilesRespect(w)  BY <1>3 DEF FilesRespect
<1>5. CASE Trusted(tool) /\ Found(w, "own")
  <2>1. tool'.bin \notin Strays /\ ~unreceipted'  BY <1>5 DEF Trusted, Verify, YtInv, YtToolInv
  <2> QED BY <1>2, <1>4, <1>5, <2>1, FoundStep
<1>6. ASSUME NEW at \in {"isolate", "find spare"}, YtGo(w, at), YtStay,
             at = "find spare" => (tool.bin \in Strays => tool.bin \in unmoved')
      PROVE  SongsInv'
  <2>1. ytMutex' = ytMutex /\ workDirs' = workDirs  BY <1>6 DEF YtStay
  <2>2. SongShape(Moved(s, at))  BY <1>1, <1>2, <1>6
    DEF SongShape, Moved, YtPlaces, Looking, YtKinds, Using, Installing, Locking
  <2>3. SongTrusts(Moved(s, at))'
    BY <1>1, <1>2, <1>6 DEF SongShape, SongTrusts, Moved, Settled, Handed, Looking, Using
  <2>4. SongHolds(w, Moved(s, at))'  BY <1>1, <1>6, <2>1 DEF SongHolds, Moved, Locking
  <2>5. SongOk(w, Moved(s, at))'  BY <2>2, <2>3, <2>4 DEF SongOk, SongShape
  <2> QED BY <1>2, <1>4, <1>6, <2>1, <2>5, StayRespects, GoStep
<1>7. CASE ~Trusted(tool) /\ YtStay /\ YtGo(w, IF Executable(tool) THEN "isolate" ELSE "find spare")
  <2>1. PICK at \in {"isolate", "find spare"} : at = IF Executable(tool) THEN "isolate" ELSE "find spare"  OBVIOUS
  <2>2. at = "find spare" => tool.bin \notin Strays  BY <2>1, YtAssumption DEF Executable
  <2> QED BY <1>6, <1>7, <2>1, <2>2
<1>8. CASE YtGo(w, "isolate") /\ YtStay  BY <1>6, <1>8
<1>9. CASE YtGo(w, "find spare") /\ YtStay /\ unmoved' = unmoved \cup Quarantined(tool)
  <2>1. tool.bin \in Strays => tool.bin \in unmoved'  BY <1>9, YtAssumption DEF Quarantined
  <2> QED BY <1>6, <1>9, <2>1
<1> QED BY <1>5, <1>7, <1>8, <1>9 DEF FindOwn

LEMMA YtFindStep == ASSUME YtInv, NEW w \in YtWorkers, YtFind(w)  PROVE YtInv'
<1>1. PICK s : s = songs[w]  OBVIOUS
<1>2. s # NoSong /\ s.at = "find"  BY <1>1 DEF YtFind, YtAt
<1>3. SongShape(s) /\ SongTrusts(s) /\ SongHolds(w, s)  BY <1>1, <1>2, SongHas
<1>4. UNCHANGED <<ytWorld, tool, spare, isolated, latest, configs, ran>>  BY DEF YtFind
<1>5. CASE Found(w, "chosen") /\ UNCHANGED <<unmoved, unreceipted>>
  <2>1. SongsInv /\ s.at \notin YtKinds \cup {"clearing"} \cup Using  BY <1>2 DEF YtInv, YtKinds, Using
  <2>2. FilesRespect(w)  BY <1>4, <1>5 DEF FilesRespect
  <2>3. SongsInv'  BY <1>1, <1>2, <1>4, <1>5, <2>1, <2>2, FoundStep
  <2> QED BY <1>4, <1>5, <2>3, YtToolStays, ConfigStays, YtWorldStays DEF YtInv, configs
<1>6. CASE YtGo(w, "find own") /\ YtStay /\ UNCHANGED <<unmoved, unreceipted>>
  <2>1. SongOk(w, Moved(s, "find own"))
    BY <1>2, <1>3
    DEF SongOk, SongShape, SongTrusts, SongHolds, Moved, Settled, Handed, Looking, Using, YtPlaces, Locking, YtKinds, Installing
  <2>2. UNCHANGED files  BY <1>4, <1>6 DEF files
  <2> QED BY <1>1, <1>2, <1>4, <1>6, <2>1, <2>2, YtQuietStep DEF YtStay
<1>7. CASE FindOwn(w) /\ unreceipted' = (unreceipted /\ ~Verify(tool))  BY <1>1, <1>2, <1>4, <1>7, FindOwnStep
<1> QED BY <1>5, <1>6, <1>7 DEF YtFind

LEMMA PassedOverStep == ASSUME YtInv, NEW w \in YtWorkers, PassedOver(w)  PROVE YtInv'
<1>1. PICK s : s = songs[w]  OBVIOUS
<1>2. s # NoSong /\ s.at = "find own"  BY <1>1 DEF PassedOver, YtAt
<1> QED BY <1>1, <1>2, FindOwnStep DEF PassedOver

\* A step that changes the files, and how the command goes on.
LEMMA FileStep ==
  ASSUME YtInv, NEW w \in YtWorkers, NEW s, s = songs[w], s # NoSong, NEW at, YtGo(w, at), YtStay,
         UNCHANGED <<ytWorld, latest, configs>>, YtToolInv', FilesRespect(w), SongOk(w, Moved(s, at))'
  PROVE  YtInv'
<1>1. Respects(w)  BY StayRespects DEF YtStay
<1>2. SongsInv'  BY <1>1, GoStep DEF YtInv
<1> QED BY <1>2, ConfigStays, YtWorldStays DEF YtInv, configs

LEMMA IsolateStep == ASSUME YtInv, NEW w \in YtWorkers, Isolate(w)  PROVE YtInv'
<1>1. PICK s : s = songs[w]  OBVIOUS
<1>2. s # NoSong /\ s.at = "isolate"  BY <1>1 DEF Isolate, YtAt
<1>3. SongShape(s) /\ SongTrusts(s) /\ SongHolds(w, s)  BY <1>1, <1>2, SongHas
<1>4. PICK bin, receipt : tool = Managed(bin, receipt) /\ receipt \notin Strays  BY DEF YtInv, YtToolInv
<1>5. UNCHANGED <<ytWorld, spare, unreceipted, latest, configs, ran>>  BY DEF Isolate
<1>6. CASE /\ tool' = Quarantine(tool) /\ isolated' = isolated \cup Quarantined(tool)
           /\ YtGo(w, "unreceipt") /\ YtStay /\ UNCHANGED unmoved
  <2>1. tool' = Managed(NoTool, receipt)  BY <1>4, <1>6 DEF Quarantine, Managed
  <2>2. isolated' = isolated \cup ({bin} \ {NoTool}) /\ tool.bin = bin  BY <1>4, <1>6 DEF Quarantined, Managed
  <2>3. YtToolInv' /\ (tool'.bin \in Strays => tool'.bin = tool.bin)
    <3>1. TrustedRuns'  BY <1>5 DEF YtInv, YtToolInv, TrustedRuns
    <3> QED BY <1>4, <1>5, <1>6, <2>1, <2>2, <3>1, ToolChanges, YtAssumption
  <2>4. FilesRespect(w)  BY <1>5, <1>6, <2>3 DEF FilesRespect
  <2>5. tool'.bin \notin Strays  BY <2>1, YtAssumption DEF Managed
  <2>6. SongOk(w, Moved(s, "unreceipt"))'
    BY <1>2, <1>3, <1>6, <2>5
    DEF SongOk, SongShape, SongTrusts, SongHolds, Moved, YtPlaces, Looking, Using, Locking, YtStay, YtKinds, Installing
  <2> QED BY <1>1, <1>2, <1>5, <1>6, <2>3, <2>4, <2>6, FileStep
<1>7. CASE NotFound(w) /\ unmoved' = unmoved \cup Quarantined(tool) /\ UNCHANGED <<tool, isolated>>
  <2>1. tool.bin \in Strays => tool.bin \in unmoved'  BY <1>7, YtAssumption DEF Quarantined
  <2>2. SongsInv'  BY <1>1, <1>2, <1>5, <1>7, <2>1, NotFoundStep DEF YtInv
  <2> QED BY <1>5, <1>7, <2>2, MoreUnmoved, ConfigStays, YtWorldStays DEF YtInv, configs
<1> QED BY <1>6, <1>7 DEF Isolate

LEMMA FindSpareStep == ASSUME YtInv, NEW w \in YtWorkers, FindSpare(w)  PROVE YtInv'
<1>1. PICK s : s = songs[w]  OBVIOUS
<1>2. s # NoSong /\ s.at = "find spare"  BY <1>1 DEF FindSpare, YtAt
<1>3. SongShape(s) /\ SongTrusts(s) /\ SongHolds(w, s)  BY <1>1, <1>2, SongHas
<1>4. UNCHANGED <<ytWorld, tool, unmoved, unreceipted, latest, configs, ran>>  BY DEF FindSpare
<1>5. TrustStays  BY <1>4 DEF TrustStays
<1>6. ASSUME NEW at \in {"look in PATH", "unreceipt"}  PROVE SongOk(w, Moved(s, at)) /\ SongTrusts(Moved(s, at))
  BY <1>2, <1>3, <1>6
  DEF SongOk, SongShape, SongTrusts, SongHolds, Moved, YtPlaces, Settled, Handed, Looking, Using, Locking, YtKinds, Installing
<1>7. CASE /\ YtGo(w, IF spare = NoTool THEN "look in PATH" ELSE "unreceipt") /\ YtStay
           /\ spare' = NoTool /\ isolated' = isolated \cup ({spare} \ {NoTool})
  <2>1. PICK bin, receipt : tool = Managed(bin, receipt) /\ receipt \notin Strays  BY DEF YtInv, YtToolInv
  <2>2. YtToolInv' /\ (tool'.bin \in Strays => tool'.bin = tool.bin)
    <3>1. TrustedRuns'  BY <1>4 DEF YtInv, YtToolInv, TrustedRuns
    <3>2. tool' = Managed(bin, receipt) /\ bin = tool.bin  BY <1>4, <2>1 DEF Managed
    <3> QED BY <1>4, <1>7, <2>1, <3>1, <3>2, ToolChanges, YtAssumption
  <2>3. PICK at \in {"look in PATH", "unreceipt"} : YtGo(w, at)  BY <1>7
  <2>4. SongOk(w, Moved(s, at))'  BY <1>5, <1>6, <1>7 DEF SongOk, SongTrusts, SongHolds, TrustStays, YtStay
  <2> QED BY <1>1, <1>2, <1>4, <1>5, <1>7, <2>2, <2>3, <2>4, FileStep, TrustRespects
<1>8. CASE NotFound(w) /\ UNCHANGED <<spare, isolated>>
  <2>1. tool.bin \in Strays => tool.bin \in unmoved'  BY <1>2, <1>3, <1>4 DEF SongTrusts, Handed, Looking
  <2>2. SongsInv'  BY <1>1, <1>2, <1>4, <1>8, <2>1, NotFoundStep DEF YtInv, Looking
  <2> QED BY <1>4, <1>8, <2>2, YtToolStays, ConfigStays, YtWorldStays DEF YtInv, configs
<1>9. CASE YtGo(w, "look in PATH") /\ YtStay /\ UNCHANGED <<spare, isolated>>
  <2>1. UNCHANGED files  BY <1>4, <1>9 DEF files
  <2>2. SongOk(w, Moved(s, "look in PATH"))  BY <1>6
  <2> QED BY <1>1, <1>2, <1>4, <1>9, <2>1, <2>2, YtQuietStep DEF YtStay
<1> QED BY <1>7, <1>8, <1>9 DEF FindSpare

LEMMA UnreceiptStep == ASSUME YtInv, NEW w \in YtWorkers, Unreceipt(w)  PROVE YtInv'
<1>1. PICK s : s = songs[w]  OBVIOUS
<1>2. s # NoSong /\ s.at = "unreceipt"  BY <1>1 DEF Unreceipt, YtAt
<1>3. SongShape(s) /\ SongTrusts(s) /\ SongHolds(w, s)  BY <1>1, <1>2, SongHas
<1>4. PICK bin, receipt : tool = Managed(bin, receipt) /\ receipt \notin Strays  BY DEF YtInv, YtToolInv
<1>5. tool' = Managed(bin, NoTool) /\ bin = tool.bin
  BY <1>4 DEF Unreceipt, RemoveReceipt, WriteReceipt, Managed
<1>6. UNCHANGED <<ytWorld, spare, isolated, unmoved, unreceipted, latest, configs, ran>> /\ YtStay  BY DEF Unreceipt
<1>7. YtToolInv' /\ (tool'.bin \in Strays => tool'.bin = tool.bin)
  <2>1. TrustedRuns'  BY <1>6 DEF YtInv, YtToolInv, TrustedRuns
  <2> QED BY <1>4, <1>5, <1>6, <2>1, ToolChanges, YtAssumption
<1>8. tool'.bin = tool.bin  BY <1>5 DEF Managed
<1>9. SongOk(w, Moved(s, "find spare"))'
  BY <1>2, <1>3, <1>6, <1>8
  DEF SongOk, SongShape, SongTrusts, SongHolds, Moved, YtPlaces, Settled, Handed, Looking, Using, Locking, YtStay, YtKinds, Installing
<1>10. FilesRespect(w)  BY <1>6, <1>7 DEF FilesRespect
<1> QED BY <1>1, <1>2, <1>6, <1>7, <1>9, <1>10, FileStep DEF Unreceipt

LEMMA LookPathStep == ASSUME YtInv, NEW w \in YtWorkers, LookPath(w)  PROVE YtInv'
<1>1. PICK s : s = songs[w]  OBVIOUS
<1>2. s # NoSong /\ s.at = "look in PATH"  BY <1>1 DEF LookPath, YtAt
<1>3. SongShape(s) /\ SongTrusts(s) /\ SongHolds(w, s)  BY <1>1, <1>2, SongHas
<1>4. UNCHANGED <<ytWorld, files, latest, configs, ran>>  BY DEF LookPath
<1>5. SongsInv /\ s.at \notin YtKinds \cup {"clearing"} \cup Using /\ ytWorld' = ytWorld
  BY <1>2, <1>4 DEF YtInv, YtKinds, Using
<1>6. SongsInv'
  <2>1. CASE Found(w, "system")  BY <1>1, <1>2, <1>4, <1>5, <2>1, FoundStep, TrustRespects, FilesTrust
  <2>2. CASE NotFound(w)
    <3>1. tool.bin \in Strays => tool.bin \in unmoved'
      BY <1>2, <1>3, <1>4 DEF SongTrusts, Handed, Looking, files
    <3> QED BY <1>1, <1>2, <1>4, <1>5, <2>2, <3>1, NotFoundStep DEF files, Looking
  <2> QED BY <2>1, <2>2 DEF LookPath
<1> QED BY <1>4, <1>6, YtToolStays, ConfigStays, YtWorldStays DEF YtInv, files, configs

LEMMA ReleaseIsGood == ASSUME YtInv  PROVE Release \notin Strays
BY YtAssumption DEF YtInv, YtWorldOk, Release

LEMMA SumsStep == ASSUME YtInv, NEW w \in YtWorkers, Sums(w)  PROVE YtInv'
<1>1. PICK s : s = songs[w]  OBVIOUS
<1>2. s # NoSong /\ s.at = "sums"  BY <1>1 DEF Sums, YtAt
<1>3. SongShape(s) /\ SongTrusts(s) /\ SongHolds(w, s)  BY <1>1, <1>2, SongHas
<1>4. UNCHANGED <<ytWorld, files, latest, configs, ran, ytMutex, workDirs>>  BY DEF Sums, YtStay
<1>5. PICK release : release = Release /\ release \notin Strays  BY ReleaseIsGood
<1>6. PICK p : p = [s EXCEPT !.at = "get"]  OBVIOUS
<1>7. p = [cmd |-> s.cmd, at |-> "get", path |-> s.path, again |-> s.again, sums |-> s.sums, binary |-> s.binary]
  BY <1>3, <1>6 DEF SongShape
<1>8. PICK r : r = [p EXCEPT !.sums = release]  OBVIOUS
<1>9. r = [cmd |-> s.cmd, at |-> "get", path |-> s.path, again |-> s.again, sums |-> release, binary |-> s.binary]
  BY <1>7, <1>8
<1>10. NowAt(w, r)  BY <1>1, <1>5, <1>6, <1>8 DEF Sums, NowAt, YtInv, SongsInv
<1>11. SongOk(w, r)'
  <2>1. SongShape(r)  BY <1>2, <1>3, <1>9 DEF SongShape, YtPlaces, Using, YtKinds, Looking, Installing, Locking
  <2>2. SongTrusts(r)'
    BY <1>2, <1>3, <1>4, <1>5, <1>9, <2>1 DEF SongShape, SongTrusts, Settled, Handed, Looking, Using, files
  <2>3. SongHolds(w, r)'  BY <1>2, <1>3, <1>4, <1>9 DEF SongHolds, Locking
  <2> QED BY <2>1, <2>2, <2>3 DEF SongOk, SongShape
<1>12. Respects(w)  BY <1>4, StayRespects, TrustRespects, FilesTrust
<1>13. SongsInv'  BY <1>4, <1>10, <1>11, <1>12, SongStep DEF YtInv
<1> QED BY <1>4, <1>13, YtToolStays, ConfigStays, YtWorldStays DEF YtInv, files, configs

LEMMA YtDownloadStep == ASSUME YtInv, NEW w \in YtWorkers, YtDownload(w)  PROVE YtInv'
<1>1. PICK s : s = songs[w]  OBVIOUS
<1>2. s # NoSong /\ s.at = "get"  BY <1>1 DEF YtDownload, YtAt
<1>3. SongShape(s) /\ SongTrusts(s) /\ SongHolds(w, s) /\ Kind(w) = s.cmd.kind
  BY <1>1, <1>2, SongHas
<1>4. UNCHANGED <<ytWorld, files, latest, configs, ran>>  BY DEF YtDownload
<1>5. PICK content \in {Release, "damaged"} :
        IF ChecksumIs(s.sums, content)
        THEN /\ songs' = [songs EXCEPT
                  ![w] = [@ EXCEPT !.at = IF Kind(w) = "setup" THEN "replace" ELSE "place", !.binary = content]]
             /\ YtStay
        ELSE YtEnd(w)
  BY <1>1 DEF YtDownload
<1>6. CASE ~ChecksumIs(s.sums, content)  BY <1>4, <1>5, <1>6, QuietEnd
<1>7. CASE ChecksumIs(s.sums, content)
  <2>1. content = s.sums /\ content \notin Strays  BY <1>3, <1>7 DEF ChecksumIs, SongTrusts
  <2>2. PICK at \in {"replace", "place"} : at = IF s.cmd.kind = "setup" THEN "replace" ELSE "place"  OBVIOUS
  <2>3. PICK p : p = [s EXCEPT !.at = at]  OBVIOUS
  <2>4. p = [cmd |-> s.cmd, at |-> at, path |-> s.path, again |-> s.again, sums |-> s.sums, binary |-> s.binary]
    BY <1>3, <2>3 DEF SongShape
  <2>5. PICK r : r = [p EXCEPT !.binary = content]  OBVIOUS
  <2>6. r = [cmd |-> s.cmd, at |-> at, path |-> s.path, again |-> s.again, sums |-> s.sums, binary |-> content]
    BY <2>4, <2>5
  <2>7. NowAt(w, r) /\ YtStay
    <3>1. YtStay /\ songs' = [songs EXCEPT
                  ![w] = [@ EXCEPT !.at = IF Kind(w) = "setup" THEN "replace" ELSE "place", !.binary = content]]
      BY <1>5, <1>7
    <3> QED BY <1>1, <1>3, <2>2, <2>3, <2>5, <3>1 DEF NowAt, YtInv, SongsInv
  <2>8. UNCHANGED <<ytMutex, workDirs, files, ytWorld>>  BY <1>4, <2>7 DEF YtStay
  <2>9. SongShape(r)  BY <1>2, <1>3, <2>6 DEF SongShape, YtPlaces, Using, YtKinds, Looking, Installing, Locking
  <2>10. SongTrusts(r)'
    BY <1>2, <1>3, <2>1, <2>2, <2>6, <2>8, <2>9 DEF SongShape, SongTrusts, Settled, Handed, Looking, Using, files
  <2>11. SongHolds(w, r)'  BY <1>2, <1>3, <2>6, <2>8 DEF SongHolds, Locking
  <2>12. Respects(w)  BY <2>8, StayRespects, TrustRespects, FilesTrust
  <2>13. SongOk(w, r)'  BY <2>9, <2>10, <2>11 DEF SongOk, SongShape
  <2>14. SongsInv'  BY <2>7, <2>8, <2>12, <2>13, SongStep DEF YtInv
  <2> QED BY <1>4, <2>14, YtToolStays, ConfigStays, YtWorldStays DEF YtInv, files, configs
<1> QED BY <1>6, <1>7

LEMMA ReplaceStep == ASSUME YtInv, NEW w \in YtWorkers, Replace(w)  PROVE YtInv'
<1>1. PICK s : s = songs[w]  OBVIOUS
<1>2. s # NoSong /\ s.at = "replace"  BY <1>1 DEF Replace, YtAt
<1>3. SongShape(s) /\ SongTrusts(s) /\ SongHolds(w, s)  BY <1>1, <1>2, SongHas
<1>4. PICK bin, receipt : tool = Managed(bin, receipt) /\ receipt \notin Strays  BY DEF YtInv, YtToolInv
<1>5. tool' = Managed(NoTool, NoTool)
  <2>1. PICK q : q = Quarantine(tool)  OBVIOUS
  <2>2. q = Managed(NoTool, receipt)  BY <1>4, <2>1 DEF Quarantine, Managed
  <2>3. tool' = [q EXCEPT !.receipt = NoTool]  BY <2>1 DEF Replace, RemoveReceipt, WriteReceipt
  <2> QED BY <2>2, <2>3 DEF Managed
<1>6. isolated' = isolated \cup IsolatedOf(tool) /\ UNCHANGED <<ytWorld, spare, unmoved, unreceipted, ran>> /\ YtStay
  BY DEF Replace
<1>7. tool.bin \in Strays => tool.bin \in isolated'
  <2>1. tool.bin \in Strays => ~Verify(tool)  BY DEF YtInv, YtToolInv, Verify
  <2> QED BY <1>6, <2>1, YtAssumption DEF IsolatedOf, Quarantined
<1>8. YtToolInv' /\ (tool'.bin \in Strays => tool'.bin = tool.bin)
  <2>1. TrustedRuns'  BY <1>6 DEF YtInv, YtToolInv, TrustedRuns
  <2> QED BY <1>5, <1>6, <1>7, <2>1, ToolChanges, YtAssumption
<1>9. tool'.bin \notin Strays  BY <1>5, YtAssumption DEF Managed
<1>10. SongOk(w, Moved(s, "place"))'
  BY <1>2, <1>3, <1>6, <1>9
  DEF SongOk, SongShape, SongTrusts, SongHolds, Moved, YtPlaces, Using, Locking, YtStay, YtKinds, Looking, Installing
<1>11. FilesRespect(w)  BY <1>6, <1>8 DEF FilesRespect
<1> QED BY <1>1, <1>2, <1>8, <1>10, <1>11, FileStep DEF Replace

\* What is written over is nobody else's, or what could not be moved away.
LEMMA PlaceStep == ASSUME YtInv, NEW w \in YtWorkers, Place(w)  PROVE YtInv'
<1>1. PICK s : s = songs[w]  OBVIOUS
<1>2. s # NoSong /\ s.at = "place"  BY <1>1 DEF Place, YtAt
<1>3. SongShape(s) /\ SongTrusts(s) /\ SongHolds(w, s)  BY <1>1, <1>2, SongHas
<1>4. PICK bin, receipt : tool = Managed(bin, receipt) /\ receipt \notin Strays  BY DEF YtInv, YtToolInv
<1>5. tool' = Managed(s.binary, receipt)  BY <1>1, <1>4 DEF Place, Managed
<1>6. s.binary \notin Strays /\ (tool.bin \in Strays => tool.bin \in unmoved)
  BY <1>2, <1>3 DEF SongTrusts, Handed
<1>7. UNCHANGED <<ytWorld, spare, isolated, unmoved, latest, configs, ran>> /\ YtStay  BY DEF Place
<1>8. YtToolInv' /\ (tool'.bin \in Strays => tool'.bin = tool.bin)
  <2>1. TrustedRuns'  BY <1>7 DEF YtInv, YtToolInv, TrustedRuns
  <2> QED BY <1>4, <1>5, <1>6, <1>7, <2>1, ToolChanges
<1>9. tool'.bin \notin Strays  BY <1>5, <1>6 DEF Managed
<1>10. ytMutex = w  BY <1>2, <1>3 DEF SongShape, SongHolds, Installing, Locking
<1>11. SongOk(w, Moved(s, "receipt"))'
  BY <1>2, <1>3, <1>7, <1>9
  DEF SongOk, SongShape, SongTrusts, SongHolds, Moved, YtPlaces, Settled, Handed, Looking, Using, Locking, YtStay, YtKinds, Installing
<1>12. FilesRespect(w)  BY <1>7, <1>8, <1>10 DEF FilesRespect
<1> QED BY <1>1, <1>2, <1>7, <1>8, <1>11, <1>12, FileStep DEF Place

LEMMA ReceiptStep == ASSUME YtInv, NEW w \in YtWorkers, Receipt(w)  PROVE YtInv'
<1>1. PICK s : s = songs[w]  OBVIOUS
<1>2. s # NoSong /\ s.at = "receipt"  BY <1>1 DEF Receipt, YtAt
<1>3. SongShape(s) /\ SongTrusts(s) /\ SongHolds(w, s)  BY <1>1, <1>2, SongHas
<1>4. PICK bin, receipt : tool = Managed(bin, receipt) /\ receipt \notin Strays  BY DEF YtInv, YtToolInv
<1>5. tool.bin = bin /\ bin \notin Strays /\ s.sums \notin Strays
  BY <1>2, <1>3, <1>4 DEF SongTrusts, Settled, Managed
<1>6. UNCHANGED <<ytWorld, spare, isolated, unmoved, latest, configs, ran>> /\ TrustedRuns'
  BY DEF Receipt, YtInv, YtToolInv, TrustedRuns
<1>7. CASE tool' = WriteReceipt(tool, s.sums) /\ Found(w, "own") /\ unreceipted' = FALSE
  <2>1. tool' = Managed(bin, s.sums)  BY <1>4, <1>7 DEF WriteReceipt, Managed
  <2>2. YtToolInv' /\ tool'.bin \notin Strays
    <3>1. YtToolInv' /\ (tool'.bin \in Strays => tool'.bin = tool.bin)
      BY <1>5, <1>6, <2>1, ToolChanges
    <3> QED BY <1>5, <3>1
  <2>3. SongsInv'
    <3>1. SongsInv /\ s.at \notin YtKinds \cup {"clearing"} \cup Using /\ ytWorld' = ytWorld
      BY <1>2, <1>6 DEF YtInv, YtKinds, Using
    <3>2. FilesRespect(w)  BY <1>6, <1>7, <2>2 DEF FilesRespect
    <3> QED BY <1>1, <1>2, <1>7, <2>2, <3>1, <3>2, FoundStep
  <2> QED BY <1>6, <2>2, <2>3, ConfigStays, YtWorldStays DEF YtInv, configs
<1>8. CASE tool' = Quarantine(tool) /\ YtEnd(w) /\ UNCHANGED unreceipted
  <2>1. tool' = Managed(NoTool, receipt)  BY <1>4, <1>8 DEF Quarantine, Managed
  <2>2. YtToolInv' /\ (tool'.bin \in Strays => tool'.bin = tool.bin)
    BY <1>4, <1>5, <1>6, <2>1, ToolChanges, YtAssumption
  <2>3. FilesRespect(w)  BY <1>6, <1>8, <2>2 DEF FilesRespect
  <2>4. SongsInv'  BY <1>6, <1>8, <2>3, YtEndStep DEF YtInv
  <2> QED BY <1>6, <2>2, <2>4, ConfigStays, YtWorldStays DEF YtInv, configs
<1> QED BY <1>1, <1>7, <1>8 DEF Receipt

LEMMA PrepareStep == ASSUME YtInv, NEW w \in YtWorkers, Prepare(w)  PROVE YtInv'
<1>1. PICK s : s = songs[w]  OBVIOUS
<1>2. s # NoSong /\ s.at = "prepare"  BY <1>1 DEF Prepare, YtAt
<1>3. SongShape(s) /\ SongTrusts(s) /\ SongHolds(w, s)  BY <1>1, <1>2, SongHas
<1>4. UNCHANGED <<ytWorld, files, latest, configs, ran, ytMutex>> /\ workDirs' = workDirs \cup {w}
  BY DEF Prepare
<1>5. SongOk(w, Moved(s, "info"))'
  <2>1. SongShape(Moved(s, "info"))  BY <1>3 DEF SongShape, Moved, YtPlaces, YtKinds, Using, Looking, Installing
  <2>2. SongTrusts(Moved(s, "info"))'
    BY <1>3, <1>4 DEF SongShape, SongTrusts, Moved, Settled, Handed, Looking, files
  <2>3. SongHolds(w, Moved(s, "info"))'  BY <1>2, <1>3, <1>4 DEF SongHolds, Moved, Locking
  <2> QED BY <2>1, <2>2, <2>3 DEF SongOk, SongShape
<1>6. Respects(w)  BY <1>4, TrustRespects, FilesTrust DEF Respects
<1>7. SongsInv'  BY <1>1, <1>2, <1>4, <1>5, <1>6, GoStep DEF Prepare, YtInv
<1> QED BY <1>4, <1>7, YtToolStays, ConfigStays, YtWorldStays DEF YtInv, files, configs

\* What is run is upstream's, or what the owner or the system has chosen.
LEMMA RunStep == ASSUME YtInv, NEW w \in YtWorkers, Run(w)  PROVE YtInv'
<1>1. PICK s : s = songs[w]  OBVIOUS
<1>2. s # NoSong /\ s.at \in {"info", "fetch", "self-update", "version"}  BY <1>1 DEF Run, Runs, YtAt
<1>3. SongShape(s) /\ SongTrusts(s) /\ Kind(w) = s.cmd.kind  BY <1>1, <1>2, SongHas
<1>4. UNCHANGED <<ytWorld, files, latest, configs>>  BY DEF Run
<1>5. CASE YtEnd(w) /\ UNCHANGED ran  BY <1>4, <1>5, QuietEnd
<1>6. CASE ran' = ran \cup {RunOf(w)} /\ UNCHANGED <<songs, ytMutex, workDirs>>
  <2>1. Program(s.path) \notin Strays  BY <1>3 DEF Program, SongTrusts, SongShape, Settled, Strays
  <2>2. ~(s.path = "own" /\ Kind(w) \in {"download", "update", "setup"} /\ unreceipted)
    BY <1>2, <1>3 DEF SongTrusts, SongShape, Locking
  <2>3. RunOf(w) \notin Strays  BY <1>1, <2>1, <2>2 DEF RunOf
  <2>4. TrustedRuns'  BY <1>6, <2>3 DEF TrustedRuns, YtInv, YtToolInv
  <2>5. YtToolInv'  BY <1>4, <2>4 DEF YtInv, YtToolInv, StraysAreKept, files
  <2>6. SongsInv'
    <3>1. YtWorkers' = YtWorkers  BY <1>4 DEF YtWorkers
    <3> QED BY <1>4, <1>6, <3>1 DEF YtInv, SongsInv, SongOk, SongTrusts, SongHolds, files
  <2> QED BY <1>4, <2>5, <2>6, ConfigStays, YtWorldStays DEF YtInv, configs
<1> QED BY <1>1, <1>5, <1>6 DEF Run

LEMMA RunDoneStep == ASSUME YtInv, NEW w \in YtWorkers, RunDone(w)  PROVE YtInv'
<1>1. PICK s : s = songs[w]  OBVIOUS
<1>2. s # NoSong /\ s.at \in {"info", "fetch", "self-update", "version"}  BY <1>1 DEF RunDone, Runs, YtAt
<1>3. SongShape(s) /\ SongTrusts(s) /\ SongHolds(w, s)  BY <1>1, <1>2, SongHas
<1>4. UNCHANGED <<ytWorld, spare, isolated, unmoved, unreceipted, latest, configs, ran>> /\ TrustedRuns'
  BY DEF RunDone, YtInv, YtToolInv, TrustedRuns
<1>5. YtToolInv' /\ (tool'.bin \in Strays => tool'.bin = tool.bin)
  <2>1. SelfUpdated(w)  BY DEF RunDone
  <2>2. CASE tool' = tool  BY <1>4, <2>2, YtToolStays
  <2>3. CASE tool' # tool
    <3>1. tool' = [tool EXCEPT !.bin = Release] /\ s.path = "own"  BY <1>1, <2>1, <2>3 DEF SelfUpdated
    <3>2. PICK release : release = Release /\ release \notin Strays  BY ReleaseIsGood
    <3>3. PICK bin, receipt : tool = Managed(bin, receipt) /\ receipt \notin Strays  BY DEF YtInv, YtToolInv
    <3>4. tool' = Managed(release, receipt)  BY <3>1, <3>2, <3>3 DEF Managed
    <3>5. tool.bin \notin Strays  BY <1>3, <3>1 DEF SongTrusts, Settled
    <3> QED BY <1>4, <3>2, <3>3, <3>4, <3>5, ToolChanges
  <2> QED BY <2>2, <2>3
<1>6. FilesRespect(w)  BY <1>4, <1>5 DEF FilesRespect
<1>7. CASE YtEnd(w)
  <2>1. SongsInv'  BY <1>4, <1>6, <1>7, YtEndStep DEF YtInv
  <2> QED BY <1>4, <1>5, <2>1, ConfigStays, YtWorldStays DEF YtInv, configs
<1>8. CASE ~YtAt(w, "version")
  <2>1. PICK at : at = CASE YtAt(w, "info") -> "fetch" [] YtAt(w, "fetch") -> "upload" [] OTHER -> "version"  OBVIOUS
  <2>2. YtGo(w, at) /\ UNCHANGED <<ytMutex, workDirs>>  BY <1>8, <2>1 DEF RunDone
  <2>3. at = IF s.at = "info" THEN "fetch" ELSE IF s.at = "fetch" THEN "upload" ELSE "version"
    <3>1. (YtAt(w, "info") <=> s.at = "info") /\ (YtAt(w, "fetch") <=> s.at = "fetch")  BY <1>1, <1>2 DEF YtAt
    <3>2. at = IF YtAt(w, "info") THEN "fetch" ELSE IF YtAt(w, "fetch") THEN "upload" ELSE "version"
      <4>1. ~(YtAt(w, "info") /\ YtAt(w, "fetch"))  BY <3>1
      <4> QED BY <2>1, <4>1
    <3> QED BY <3>1, <3>2
  <2>4. SongShape(Moved(s, at))  BY <1>3, <2>3 DEF SongShape, Moved, YtPlaces, YtKinds, Using, Looking, Installing
  <2>5. SongTrusts(Moved(s, at))'
    BY <1>3, <1>4, <1>5, <2>3 DEF SongTrusts, Moved, Settled, Handed, Looking
  <2>6. SongHolds(w, Moved(s, at))'
    BY <1>2, <1>3, <2>2, <2>3 DEF SongHolds, Moved, Locking
  <2>7. Respects(w)  BY <1>6, <2>2, StayRespects
  <2>8. SongOk(w, Moved(s, at))'  BY <2>4, <2>5, <2>6 DEF SongOk, SongShape
  <2>9. SongsInv'  BY <1>1, <1>2, <1>4, <2>2, <2>7, <2>8, GoStep DEF YtInv
  <2> QED BY <1>4, <1>5, <2>9, ConfigStays, YtWorldStays DEF YtInv, configs
<1> QED BY <1>7, <1>8 DEF RunDone

LEMMA ClearStep == ASSUME YtInv, NEW w \in YtWorkers, Clear(w)  PROVE YtInv'
<1>1. PICK s : s = songs[w]  OBVIOUS
<1>2. s # NoSong /\ s.at = "clear"  BY <1>1 DEF Clear, YtAt
<1>3. SongShape(s) /\ SongTrusts(s) /\ SongHolds(w, s)  BY <1>1, <1>2, SongHas
<1>4. UNCHANGED <<ytWorld, files, latest, configs, ran, workDirs>> /\ ytMutex = 0 /\ ytMutex' = w
  BY DEF Clear, ClearMutex, TakeMutex
<1>5. SongOk(w, Moved(s, "clearing"))'
  <2>1. SongShape(Moved(s, "clearing"))
    BY <1>2, <1>3 DEF SongShape, Moved, YtPlaces, YtKinds, Using, Looking, Installing
  <2>2. SongTrusts(Moved(s, "clearing"))'
    BY <1>2, <1>3, <1>4 DEF SongShape, SongTrusts, Moved, Settled, Handed, Looking, Using, files
  <2>3. SongHolds(w, Moved(s, "clearing"))'  BY <1>4 DEF SongHolds, Moved
  <2> QED BY <2>1, <2>2, <2>3 DEF SongOk, SongShape
<1>6. Respects(w)  BY <1>4, TrustRespects, FilesTrust DEF Respects, YtWorkers
<1>7. SongsInv'  BY <1>1, <1>2, <1>4, <1>5, <1>6, GoStep DEF Clear, YtInv
<1> QED BY <1>4, <1>7, YtToolStays, ConfigStays, YtWorldStays DEF YtInv, files, configs

\* All directories go, but nobody downloads meanwhile.
LEMMA ClearedStep == ASSUME YtInv, NEW w \in YtWorkers, Cleared(w)  PROVE YtInv'
<1>1. UNCHANGED <<ytWorld, files, latest, configs, ran>> /\ NowAt(w, NoSong)
      /\ ytMutex' = (IF ytMutex = w THEN 0 ELSE ytMutex)
  BY DEF Cleared, NowAt
<1>2. ytMutex = w  BY SongHas DEF Cleared, YtAt, SongHolds
<1>3. Respects(w)  BY <1>1, <1>2, TrustRespects, FilesTrust DEF Respects
<1>4. SongOk(w, NoSong)'  BY DEF SongOk
<1>5. SongsInv'  BY <1>1, <1>3, <1>4, SongStep DEF YtInv
<1> QED BY <1>1, <1>5, YtToolStays, ConfigStays, YtWorldStays DEF YtInv, files, configs

LEMMA ConfigureStep == ASSUME YtInv, NEW w \in YtWorkers, Configure(w)  PROVE YtInv'
<1>1. YtEnd(w) /\ UNCHANGED <<ytWorld, files, latest, ran>>  BY DEF Configure
<1>2. SongsInv'  BY <1>1, YtEndStep, TrustRespects, FilesTrust DEF YtInv
<1>3. PICK key, value : chosen' = YtWith(chosen, key, value) /\ ytSettings' = Assigned(ytSettings, key, value)
  BY DEF Configure
<1>4. ChosenIsKept'
  <2>. SUFFICES ASSUME NEW k \in DOMAIN chosen', chosen'[k] # ""  PROVE YtRead(k)' = chosen'[k]
    BY DEF ChosenIsKept
  <2>1. CASE k = key
    <3>1. chosen'[k] = value  BY <1>3, <2>1 DEF YtWith
    <3>2. ytSettings' = YtWith(ytSettings, key, value)  BY <1>3, <3>1 DEF Assigned
    <3> QED BY <2>1, <3>1, <3>2 DEF YtRead, YtWith
  <2>2. CASE k # key
    <3>1. k \in DOMAIN chosen /\ chosen'[k] = chosen[k]  BY <1>3, <2>2 DEF YtWith
    <3>2. k \in DOMAIN ytSettings /\ ytSettings[k] = chosen[k]
      <4>1. YtRead(k) = chosen[k]  BY <3>1 DEF YtInv, ChosenIsKept
      <4> QED BY <3>1, <4>1 DEF YtRead
    <3>3. k \in DOMAIN ytSettings' /\ ytSettings'[k] = ytSettings[k]
      BY <1>3, <2>2, <3>2 DEF Assigned, YtWith, YtWithout
    <3> QED BY <3>1, <3>2, <3>3 DEF YtRead
  <2> QED BY <2>1, <2>2
<1> QED BY <1>1, <1>2, <1>4, YtToolStays, YtWorldStays DEF YtInv, files

-----------------------------------------------------------------------------
LEMMA YtBegins == ASSUME NEW world \in YtWorlds, YtInit(world)  PROVE YtInv
<1>. USE DEF YtInit
<1>1. SongsInv  BY DEF SongsInv, SongOk, YtWorkers
<1>2. YtWorldOk
  <2>1. ytWorld.workers \in Nat /\ 1 \in 1 .. Len(Releases)  BY YtAssumption
  <2>2. \A c \in ytWorld.commands : c.kind \in YtKinds  BY YtAssumption DEF YtKinds
  <2> QED BY <2>1, <2>2 DEF YtWorldOk
<1>3. YtToolInv
  <2>1. world.tool = Managed(world.tool.bin, world.tool.receipt) /\ world.tool.receipt \notin Strays  BY YtAssumption
  <2>2. TrustedRuns /\ StraysAreKept  BY DEF TrustedRuns, StraysAreKept
  <2> QED BY <2>1, <2>2 DEF YtToolInv
<1>4. ChosenIsKept
  <2>1. chosen = <<>> /\ DOMAIN <<>> = {}  OBVIOUS
  <2> QED BY ONLY <2>1 DEF ChosenIsKept
<1> QED BY <1>1, <1>2, <1>3, <1>4 DEF YtInv

LEMMA YtStep == ASSUME YtInv, YtNext  PROVE YtInv'
<1>1. ASSUME NEW w \in YtWorkers, YtFails(w)  PROVE YtInv'  BY <1>1, QuietEnd DEF YtFails
<1>2. ASSUME NEW w \in YtWorkers, YtUpload(w)  PROVE YtInv'  BY <1>2, QuietEnd DEF YtUpload
<1>3. CASE YtRestarts \/ Released  BY <1>3, YtRestartsStep, ReleasedStep
<1>4. ASSUME NEW w \in YtWorkers,
             \/ YtHandle(w) \/ Look(w) \/ Lock(w) \/ YtFind(w) \/ PassedOver(w) \/ Isolate(w) \/ FindSpare(w)
             \/ Unreceipt(w) \/ LookPath(w) \/ Sums(w)
      PROVE  YtInv'
  BY <1>4, YtHandleStep, LookStep, LockStep, YtFindStep, PassedOverStep, IsolateStep, FindSpareStep,
     UnreceiptStep, LookPathStep, SumsStep
<1>5. ASSUME NEW w \in YtWorkers,
             \/ YtDownload(w) \/ Replace(w) \/ Place(w) \/ Receipt(w)
             \/ Prepare(w) \/ Run(w) \/ RunDone(w) \/ Clear(w) \/ Cleared(w) \/ Configure(w)
      PROVE  YtInv'
  BY <1>5, YtDownloadStep, ReplaceStep, PlaceStep, ReceiptStep, PrepareStep, RunStep, RunDoneStep, ClearStep, ClearedStep,
     ConfigureStep
<1> QED BY <1>1, <1>2, <1>3, <1>4, <1>5 DEF YtNext

(* What each state of yt-dlp has: a program of others is in its place only *)
(* as long as nobody was told to run what lies there, an installation that *)
(* writes over one has failed to move it away, whoever has the mutex runs  *)
(* the plugin's own program only after a receipt that fits was seen or     *)
(* written, and whoever downloads, installs or clears holds the mutex.     *)
THEOREM YtInvariance == YtSpec => []YtInv
<1>1. (\E world \in YtWorlds : YtInit(world)) => YtInv  BY YtBegins
<1>2. YtInv /\ [YtNext]_ytVars => YtInv'
  <2>1. ASSUME YtInv, UNCHANGED ytVars  PROVE YtInv'
    <3>. USE DEF ytVars
    <3>1. YtWorkers' = YtWorkers  BY <2>1 DEF YtWorkers
    <3>2. SongsInv'  BY <2>1, <3>1 DEF YtInv, SongsInv, SongOk, SongTrusts, SongHolds
    <3> QED BY <2>1, <3>2, YtToolStays, ConfigStays, YtWorldStays DEF YtInv
  <2> QED BY <2>1, YtStep
<1> QED BY <1>1, <1>2, PTL DEF YtSpec

(* TrustedRuns, DirIsKept, StraysAreKept and ChosenIsKept, for any number  *)
(* of workers, any releases and any files that lie in the plugin's         *)
(* directories at first.                                                   *)
THEOREM ToolsStaySafe == YtSpec => []ToolsAreSafe
<1>1. YtInv => ToolsAreSafe
  <2>. SUFFICES ASSUME YtInv  PROVE ToolsAreSafe  OBVIOUS
  <2>1. ASSUME NEW w \in YtWorkers, NEW at \in {"info", "fetch", "upload"}, YtAt(w, at)  PROVE w \in workDirs
    BY <2>1, SongHas DEF YtAt, SongHolds
  <2>2. DirIsKept  BY <2>1 DEF DirIsKept
  <2> QED BY <2>2 DEF ToolsAreSafe, YtInv, YtToolInv
<1> QED BY <1>1, YtInvariance, PTL
=============================================================================
