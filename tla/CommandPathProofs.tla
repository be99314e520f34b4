-------------------------- MODULE CommandPathProofs --------------------------
(***************************************************************************)
(* Theorems about CommandPath, for any number of workers, any messages,    *)
(* commands and settings.                                                  *)
(*                                                                         *)
(* IInv has four parts: the forms of the variables (FormInv), where a      *)
(* message is and how often it has run by then (OnceInv), what the row,    *)
(* the memory and the router hold at each step of an edit (SettleInv), and *)
(* what of the settings is well-formed at each step (RepairInv).  The last *)
(* three are inductive each with FormInv alone, but for RepairInv, which   *)
(* needs to know which key a step is about (EditInv).                      *)
(***************************************************************************)
EXTENDS CommandPath, TLAPS, SequenceTheorems, WellFoundedInduction

Steps == {"listen", "later", "dispatch", "parsed", "run", "ran",
          "held", "stored", "apply", "set", "undo", "reload"}
Busy(w) == work[w].at # "idle"
IsJob(j) == /\ DOMAIN j = {"at", "m", "cmd", "forced", "body", "new", "old"}
            /\ j.at \in Steps /\ j.m \in DOMAIN ran /\ j.forced \in BOOLEAN
Carried == [m : DOMAIN ran, cmd : BOOLEAN, sure : BOOLEAN]

\* The forms of the variables.
TrafficForm ==
  /\ inbox \subseteq DOMAIN ran
  /\ ran \in [DOMAIN ran -> Nat]
  /\ arriving = Null \/ arriving \in Carried
  /\ queue \in Seq(Carried)
WorkForm ==
  /\ DOMAIN work = Workers /\ work = [w \in Workers |-> work[w]]
  /\ \A w \in Workers : work[w] = Idle \/ IsJob(work[w])
  /\ ~up => \A w \in Workers : work[w] = Idle
SettingsForm ==
  /\ up \in BOOLEAN
  /\ clean \in [Keys -> BOOLEAN]
  /\ live = [k \in Keys |-> live[k]]
FormInv == TrafficForm /\ WorkForm /\ SettingsForm

\* A message is in one place.
InOnePlace ==
  /\ \A m \in inbox :
       /\ arriving # Null => arriving.m # m
       /\ \A i \in 1 .. Len(queue) : queue[i].m # m
       /\ \A w \in Workers : Busy(w) => work[w].m # m
  /\ arriving # Null =>
       /\ \A i \in 1 .. Len(queue) : queue[i].m # arriving.m
       /\ \A w \in Workers : Busy(w) => work[w].m # arriving.m
  /\ \A i \in 1 .. Len(queue) :
       /\ \A j \in 1 .. Len(queue) : queue[i].m = queue[j].m => i = j
       /\ \A w \in Workers : Busy(w) => work[w].m # queue[i].m
  /\ \A v, w \in Workers : Busy(v) /\ Busy(w) /\ work[v].m = work[w].m => v = w

\* How often the message of a worker has run by then.
Counts(w) ==
  LET m == work[w].m IN
  /\ work[w].at = "listen" => ran[m] = 0 /\ ~work[w].forced
  /\ work[w].at \in {"later", "dispatch"} =>
       ~work[w].forced /\ (ran[m] = 0 \/ m \in suppressed \cup expired)
  /\ work[w].at = "parsed" => ran[m] = 0 \/ (~work[w].forced /\ m \in expired)
NotYet ==
  /\ \A m \in inbox : ran[m] = 0
  /\ arriving # Null => ran[arriving.m] = 0
  /\ \A i \in 1 .. Len(queue) : ran[queue[i].m] = 0
  /\ \A w \in Workers : Counts(w)
  /\ \A m \in DOMAIN ran : ran[m] <= 1 \/ m \in expired
OnceInv == InOnePlace /\ NotYet

EditSteps == {"held", "set", "stored", "undo", "apply"}
KeyAt(w) == KeyOf(work[w].body)

\* Which keys the steps of an edit are about.
EditInv ==
  \A w \in Workers :
    /\ work[w].at \in EditSteps => KeyAt(w) \in Keys
    /\ work[w].at = "stored" => KeyAt(w) \in Access
    /\ work[w].at = "apply" => KeyAt(w) = "sudo"
    /\ work[w].at \in {"set", "undo"} => KeyAt(w) \notin Access

\* What the row, the memory and the router hold at a step of an edit of k.
Step(w, k) ==
  LET j == work[w] IN
  /\ j.at \in {"held", "stored"} /\ k = "sudo" => delegates = DelegatesOf(live.sudo)
  /\ j.at = "held" => live[k] = Kept(k) /\ j.old = Kept(k)
  /\ j.at = "stored" => Kept(k) = j.new
  /\ j.at = "apply" => live[k] = Kept(k) /\ live[k] = j.new
  /\ j.at = "set" => j.old = Kept(k) /\ live[k] = j.new
  /\ j.at = "undo" => j.old = Kept(k)
Agree(k) ==
  live[k] = Kept(k) /\ (k = "sudo" => delegates = DelegatesOf(live.sudo))
KeyInv(k) ==
  up /\ clean[k] =>
    /\ \A v, w \in Workers : Editing(v, k) /\ Editing(w, k) => v = w
    /\ \A w \in Workers : Editing(w, k) => Step(w, k)
    /\ (\A w \in Workers : ~Editing(w, k)) => Agree(k)
SettleInv == EditInv /\ \A k \in Keys : KeyInv(k)

\* What of the settings is well-formed: at rest, and in the copies an edit has.
Sound(k, v) == /\ k = "prefixes" => ValidMarks(v)
               /\ k = "aliases" => IsAliases(v) /\ ValidAliases(v)
Formed(k, v) == (k = "sure" => IsSure(v)) /\ (k = "aliases" => IsAliases(v))
RepairInv ==
  /\ \A m \in DOMAIN ran : m.text.body \in Seq(Words)
  /\ Stored(rows)
  /\ \A k \in Keys : Formed(k, live[k]) /\ (up => Sound(k, live[k]))
  /\ \A w \in Workers :
       /\ Busy(w) => work[w].body \in Seq(Words)
       /\ work[w].at \in {"held", "stored"} => Formed(KeyAt(w), work[w].new)
       /\ work[w].at \in {"held", "set", "undo"} => Sound(KeyAt(w), work[w].old)

IInv == FormInv /\ OnceInv /\ SettleInv /\ RepairInv

-----------------------------------------------------------------------------
(* What a step of a worker does to its job.                                *)

Fields == {"at", "m", "cmd", "forced", "body", "new", "old"}
Only(w) == /\ DOMAIN work' = Workers /\ work' = [v \in Workers |-> work'[v]]
           /\ \A v \in Workers : v # w => work'[v] = work[v]
Ends(w) == Only(w) /\ work'[w] = Idle
JobIs(w, at, forced, body, new, old) ==
  /\ Only(w) /\ DOMAIN work'[w] = Fields
  /\ work'[w].m = work[w].m /\ work'[w].cmd = work[w].cmd
  /\ work'[w].at = at /\ work'[w].forced = forced /\ work'[w].body = body
  /\ work'[w].new = new /\ work'[w].old = old
Goes(w, at) ==
  JobIs(w, at, work[w].forced, work[w].body, work[w].new, work[w].old)

LEMMA Busying == ASSUME FormInv, NEW w \in Workers, Busy(w) PROVE IsJob(work[w])
  BY DEF FormInv, WorkForm, Busy, Idle

LEMMA Going ==
  ASSUME FormInv, NEW w \in Workers, Busy(w), NEW at, Goto(w, at) PROVE Goes(w, at)
  BY Busying DEF FormInv, WorkForm, Goto, IsJob, Goes, JobIs, Only, Fields

LEMMA Ending ==
  ASSUME FormInv, NEW w \in Workers, Finish(w) PROVE Ends(w)
  BY DEF FormInv, WorkForm, Finish, Ends, Only

LEMMA TakeTurn ==
  ASSUME FormInv, NEW w \in Workers, Take(w)
  PROVE  /\ Only(w) /\ DOMAIN work'[w] = Fields
         /\ work'[w].at \in {"listen", "later"} /\ work'[w].m = queue[1].m
         /\ work'[w].forced = FALSE /\ work'[w].body = <<>>
<1>1. queue # <<>> /\ Head(queue) = queue[1] BY DEF Take, FormInv, TrafficForm
<1>2. PICK at \in {"listen", "later"} :
        work' = [work EXCEPT ![w] = [at |-> at, m |-> queue[1].m, cmd |-> queue[1].cmd,
                   forced |-> FALSE, body |-> <<>>, new |-> Null, old |-> Null]]
  BY <1>1, Zenon DEF Take
<1> QED BY <1>2 DEF FormInv, WorkForm, Only, Fields

LEMMA ListenTurn ==
  ASSUME FormInv, NEW w \in Workers, Listen(w)
  PROVE  \/ Goes(w, "later")
         \/ \E b : b # <<>> /\ JobIs(w, "parsed", TRUE, b, work[w].new, work[w].old)
<1>1. Busy(w) BY DEF Listen, At, Busy
<1>2. \/ Goto(w, "later")
      \/ \E b : /\ b # <<>>
                /\ work' = [work EXCEPT ![w].at = "parsed", ![w].forced = TRUE, ![w].body = b]
  BY Zenon DEF Listen
<1>3. CASE Goto(w, "later") BY <1>1, <1>3, Going
<1>4. ASSUME NEW b, b # <<>>,
             work' = [work EXCEPT ![w].at = "parsed", ![w].forced = TRUE, ![w].body = b]
      PROVE  JobIs(w, "parsed", TRUE, b, work[w].new, work[w].old)
  BY <1>1, <1>4, Busying DEF FormInv, WorkForm, JobIs, Only, Fields, IsJob
<1> QED BY <1>2, <1>3, <1>4

LEMMA SuppressTurn ==
  ASSUME FormInv, NEW w \in Workers, Suppress(w)
  PROVE  JobIs(w, "later", FALSE, work[w].body, work[w].new, work[w].old)
<1>1. Busy(w) BY DEF Suppress, At, Busy
<1> QED BY <1>1, Busying DEF FormInv, WorkForm, Suppress, JobIs, Only, Fields, IsJob

LEMMA ConsumeTurn ==
  ASSUME FormInv, NEW w \in Workers, ConsumeSuppressed(w)
  PROVE  \/ Ends(w)
         \/ /\ work[w].m \notin suppressed /\ Parse(work[w].m.text) # <<>>
            /\ JobIs(w, "parsed", work[w].forced, Parse(work[w].m.text), work[w].new, work[w].old)
<1>1. Busy(w) BY DEF ConsumeSuppressed, At, Busy
<1>2. CASE work[w].m \in suppressed \/ Parse(work[w].m.text) = <<>>
  BY <1>2, Ending DEF ConsumeSuppressed
<1>3. CASE ~(work[w].m \in suppressed \/ Parse(work[w].m.text) = <<>>)
  <2>1. work' = [work EXCEPT ![w].at = "parsed", ![w].body = Parse(work[w].m.text)]
    BY <1>3 DEF ConsumeSuppressed
  <2>2. JobIs(w, "parsed", work[w].forced, Parse(work[w].m.text), work[w].new, work[w].old)
    BY <1>1, <2>1, Busying DEF FormInv, WorkForm, JobIs, Only, Fields, IsJob
  <2> QED BY <1>3, <2>2
<1> QED BY <1>2, <1>3

LEMMA ReadTurn ==
  ASSUME FormInv, NEW w \in Workers, Read(w)
  PROVE  \/ Goes(w, "ran") /\ UNCHANGED clean
         \/ \E v \in Edited(work[w].body) :
              JobIs(w, "held", work[w].forced, work[w].body, v, live[KeyAt(w)])
<1>1. Busy(w) BY DEF Read, At, Busy
<1>2. CASE Edited(work[w].body) = Refused
  BY <1>1, <1>2, Going DEF Read
<1>3. CASE Edited(work[w].body) # Refused
  <2>1. PICK v \in Edited(work[w].body) :
          work' = [work EXCEPT ![w].at = "held", ![w].new = v, ![w].old = live[KeyAt(w)]]
    BY <1>3 DEF Read, KeyAt
  <2>2. JobIs(w, "held", work[w].forced, work[w].body, v, live[KeyAt(w)])
    BY <1>1, <2>1, Busying DEF FormInv, WorkForm, JobIs, Only, Fields, IsJob
  <2> QED BY <2>2
<1> QED BY <1>2, <1>3

LEMMA SetLiveTurn ==
  ASSUME FormInv, NEW w \in Workers, SetLive(w)
  PROVE  \/ Goes(w, "ran") /\ UNCHANGED live
         \/ /\ Takes(KeyAt(w), work[w].new)
            /\ live' = [live EXCEPT ![KeyAt(w)] = work[w].new]
            /\ JobIs(w, "set", work[w].forced, work[w].body, work[w].new,
                     IF KeyAt(w) = "aliases" THEN live[KeyAt(w)] ELSE work[w].old)
<1>1. Busy(w) BY DEF SetLive, At, Busy
<1>2. CASE ~Takes(KeyAt(w), work[w].new)
  BY <1>1, <1>2, Going DEF SetLive, KeyAt
<1>3. CASE Takes(KeyAt(w), work[w].new)
  <2>1. work' = [work EXCEPT ![w].at = "set",
                  ![w].old = IF KeyAt(w) = "aliases" THEN live[KeyAt(w)] ELSE @]
    BY <1>3 DEF SetLive, KeyAt
  <2>2. JobIs(w, "set", work[w].forced, work[w].body, work[w].new,
              IF KeyAt(w) = "aliases" THEN live[KeyAt(w)] ELSE work[w].old)
    BY <1>1, <2>1, Busying DEF FormInv, WorkForm, JobIs, Only, Fields, IsJob
  <2> QED BY <1>3, <2>2 DEF SetLive, KeyAt
<1> QED BY <1>2, <1>3

LEMMA UnrouteTurn ==
  ASSUME FormInv, NEW w \in Workers, NEW p, Unroute(w, p)
  PROVE  JobIs(w, "reload", work[w].forced, work[w].body, p, work[w].old)
<1>1. Busy(w) BY DEF Unroute, At, Busy
<1> QED BY <1>1, Busying DEF FormInv, WorkForm, Unroute, JobIs, Only, Fields, IsJob


\* Any other step of a worker than Take leaves the messages where they are: its
\* own job keeps its message, or ends.
Stays(w) == /\ Only(w) /\ DOMAIN work'[w] = Fields /\ work'[w].at \in Steps
            /\ work'[w].m = work[w].m /\ work'[w].forced \in BOOLEAN
Turn(w) == /\ Busy(w) /\ up /\ up' = up /\ UNCHANGED <<inbox, arriving, queue>>
           /\ Ends(w) \/ Stays(w)

LEMMA TurnStep ==
  ASSUME FormInv, NEW w \in Workers, Work(w), ~Take(w) PROVE Turn(w)
<1> USE DEF Turn, Stays, Steps
<1>0. Busy(w) => work[w].forced \in BOOLEAN BY Busying DEF IsJob
<1>1. CASE Listen(w)
  BY <1>0, <1>1, ListenTurn DEF Listen, At, Busy, Goes, JobIs, traffic, host, Quiet
<1>2. CASE Suppress(w)
  BY <1>0, <1>2, SuppressTurn DEF Suppress, At, Busy, JobIs, traffic, host
<1>3. CASE Later(w)
  BY <1>0, <1>3, Going, Ending DEF Later, At, Busy, Goes, JobIs, traffic, host, Quiet
<1>4. CASE ConsumeSuppressed(w)
  BY <1>0, <1>4, ConsumeTurn DEF ConsumeSuppressed, At, Busy, JobIs, traffic, host
<1>5. CASE Dispatch(w)
  BY <1>0, <1>5, Going DEF Dispatch, At, Busy, Goes, JobIs, traffic, host
<1>6. CASE Return(w)
  BY <1>0, <1>6, Ending DEF Return, At, Busy, traffic, host, Quiet
<1>7. CASE Other(w)
  BY <1>0, <1>7, Going DEF Other, At, Busy, Goes, JobIs, traffic, host, Quiet
<1>8. CASE Read(w)
  BY <1>0, <1>8, ReadTurn DEF Read, At, Busy, Goes, JobIs, traffic
<1>9. CASE StoreAccess(w)
  BY <1>0, <1>9, Going DEF StoreAccess, At, Busy, Goes, JobIs, traffic
<1>10. CASE Remember(w)
  BY <1>0, <1>10, Going DEF Remember, At, Busy, Goes, JobIs, traffic
<1>11. CASE Apply(w)
  BY <1>0, <1>11, Going DEF Apply, At, Busy, Goes, JobIs, traffic
<1>12. CASE SetLive(w)
  BY <1>0, <1>12, SetLiveTurn DEF SetLive, At, Busy, Goes, JobIs, traffic
<1>13. CASE StoreLive(w)
  BY <1>0, <1>13, Going DEF StoreLive, At, Busy, Goes, JobIs, traffic
<1>14. CASE Rollback(w)
  BY <1>0, <1>14, Going DEF Rollback, At, Busy, Goes, JobIs, traffic
<1>15. CASE Reroute(w)
  BY <1>0, <1>15, Going DEF Reroute, At, Busy, Goes, JobIs, traffic
<1>16. ASSUME NEW p, Unroute(w, p) PROVE Turn(w)
  BY <1>0, <1>16, UnrouteTurn DEF Unroute, At, Busy, JobIs, traffic
<1> QED
  BY <1>1, <1>2, <1>3, <1>4, <1>5, <1>6, <1>7, <1>8, <1>9, <1>10, <1>11, <1>12, <1>13, <1>14, <1>15, <1>16 DEF Work, Edit


LEMMA RanStep == ASSUME FormInv, NEW w \in Workers, Work(w)
  PROVE DOMAIN ran' = DOMAIN ran /\ ran' \in [DOMAIN ran -> Nat]
<1>1. CASE Dispatch(w)
  <2>1. work[w].m \in DOMAIN ran BY <1>1, Busying DEF Dispatch, At, Busy, IsJob
  <2> QED BY <1>1, <2>1 DEF Dispatch, FormInv, TrafficForm
<1>2. CASE ~Dispatch(w)
  <2>1. UNCHANGED ran
    BY <1>2 DEF Work, Edit, Take, Listen, Suppress, Later, ConsumeSuppressed, Return, Other, Read, Quiet,
      StoreAccess, Remember, Apply, SetLive, StoreLive, Rollback, Unroute, Reroute
  <2> QED BY <2>1 DEF FormInv, TrafficForm
<1> QED BY <1>1, <1>2

LEMMA TrafficStep == FormInv /\ [Next]_vars => TrafficForm'
<1> SUFFICES ASSUME FormInv, [Next]_vars PROVE TrafficForm'
  OBVIOUS
<1> USE DEF FormInv, TrafficForm
<1>1. ASSUME NEW lost, NEW written, Start(lost, written) PROVE TrafficForm'
  BY <1>1 DEF Start, traffic, Carried
<1>2. CASE Down
  BY <1>2 DEF Down, Carried
<1>3. ASSUME NEW m \in inbox, Receive(m) PROVE TrafficForm'
  <2>1. (arriving = Null \/ arriving \in Carried)'
    <3> DEFINE cmd == Parse(m.text) # <<>> /\ IsOwner(m)
    <3>1. arriving' \in {[m |-> m, cmd |-> cmd, sure |-> SureListens], Null}
      BY <1>3 DEF Receive
    <3>2. m \in DOMAIN ran /\ ran' = ran BY <1>3 DEF Receive
    <3>3. cmd \in BOOLEAN /\ SureListens \in BOOLEAN
      BY DEF SureListens
    <3> HIDE DEF cmd
    <3>4. [m |-> m, cmd |-> cmd, sure |-> SureListens] \in Carried
      BY <3>2, <3>3 DEF Carried
    <3>5. Carried' = Carried BY <3>2 DEF Carried
    <3> QED BY <3>1, <3>4, <3>5
  <2> QED BY <1>3, <2>1 DEF Receive, Carried
<1>4. CASE Admit
  <2>1. queue' \in {queue, Append(queue, arriving)} /\ arriving \in Carried
    BY <1>4 DEF Admit
  <2>2. Carried' = Carried BY <1>4 DEF Admit, Carried
  <2>3. queue' \in Seq(Carried) BY <2>1
  <2> QED BY <1>4, <2>2, <2>3 DEF Admit
<1>5. CASE IntervalEnds
  BY <1>5 DEF IntervalEnds, host, Carried
<1>6. ASSUME NEW m \in suppressed, Expire(m) PROVE TrafficForm'
  BY <1>6 DEF Expire, host, traffic, Carried
<1>7. ASSUME NEW w \in Workers, Take(w) PROVE TrafficForm'
  BY <1>7 DEF Take, host, Carried
<1>8. ASSUME NEW w \in Workers, Work(w), ~Take(w) PROVE TrafficForm'
  <2>1. Turn(w) BY <1>8, TurnStep
  <2>2. DOMAIN ran' = DOMAIN ran /\ ran' \in [DOMAIN ran -> Nat] BY <1>8, RanStep
  <2> QED BY <2>1, <2>2 DEF Turn, Carried
<1>9. CASE UNCHANGED vars
  BY <1>9 DEF vars, Carried
<1> QED
  BY <1>1, <1>2, <1>3, <1>4, <1>5, <1>6, <1>7, <1>8, <1>9 DEF Next

LEMMA WorkStep == FormInv /\ [Next]_vars => WorkForm'
<1> SUFFICES ASSUME FormInv, [Next]_vars PROVE WorkForm'
  OBVIOUS
<1> USE DEF WorkForm
<1>1. CASE UNCHANGED <<work, ran>> /\ (up' => up \/ \A w \in Workers : work[w] = Idle) /\ (~up' => ~up)
  BY <1>1 DEF FormInv, IsJob
<1>2. CASE Down
  BY <1>2 DEF Down
<1>3. ASSUME NEW w \in Workers, Work(w) PROVE WorkForm'
  <2>1. DOMAIN ran' = DOMAIN ran BY <1>3, RanStep
  <2>2. CASE Take(w)
    <3>1. Only(w) /\ DOMAIN work'[w] = Fields
         /\ work'[w].at \in {"listen", "later"} /\ work'[w].m = queue[1].m
         /\ work'[w].forced = FALSE
      BY <2>2, TakeTurn
    <3>2. queue[1].m \in DOMAIN ran
      <4>1. queue[1] \in Carried BY <2>2 DEF Take, FormInv, TrafficForm
      <4> QED BY <4>1 DEF Carried
    <3>3. IsJob(work[w])'
      BY <2>1, <3>1, <3>2 DEF IsJob, Fields, Steps
    <3>4. \A v \in Workers : v # w => work'[v] = Idle \/ IsJob(work[v])'
      BY <2>1, <3>1 DEF Only, FormInv, IsJob
    <3>5. up' BY <2>2 DEF Take, At, host
    <3> QED BY <3>1, <3>3, <3>4, <3>5 DEF Only
  <2>3. CASE ~Take(w)
    <3>1. Turn(w) BY <1>3, <2>3, TurnStep
    <3>2. work'[w] = Idle \/ IsJob(work[w])'
      BY <2>1, <3>1, Busying DEF Turn, Ends, Stays, IsJob, Fields
    <3>4. \A v \in Workers : v # w => work'[v] = Idle \/ IsJob(work[v])'
      BY <2>1, <3>1 DEF Only, FormInv, IsJob, Turn, Ends, Stays
    <3> QED BY <3>1, <3>2, <3>4 DEF Only, Turn, Ends, Stays
  <2> QED BY <2>2, <2>3
<1> QED
  BY <1>1, <1>2, <1>3 DEF Next, Start, Receive, Admit, IntervalEnds, Expire, vars, host, traffic, FormInv

LEMMA SettingsStep == FormInv /\ [Next]_vars => SettingsForm'
<1> SUFFICES ASSUME FormInv, [Next]_vars PROVE SettingsForm'
  OBVIOUS
<1> USE DEF FormInv, SettingsForm
<1>1. ASSUME NEW lost, NEW written, Start(lost, written) PROVE SettingsForm'
  <2>1. clean' \in [Keys -> BOOLEAN]
    <3>1. \A k \in Keys : Loads(k, lost) \in BOOLEAN BY DEF Loads
    <3> QED BY <1>1, <3>1 DEF Start
  <2>2. (live = [k \in Keys |-> live[k]])' BY <1>1 DEF Start
  <2> QED BY <1>1, <2>1, <2>2 DEF Start

<1>2. CASE Down
  BY <1>2 DEF Down, SettingsForm, FormInv
<1>3. ASSUME NEW m \in inbox, Receive(m) PROVE SettingsForm'
  BY <1>3 DEF Receive, host, SettingsForm, FormInv
<1>4. CASE Admit
  BY <1>4 DEF Admit, host, SettingsForm, FormInv
<1>5. CASE IntervalEnds
  BY <1>5 DEF IntervalEnds, host, SettingsForm, FormInv
<1>6. ASSUME NEW m \in suppressed, Expire(m) PROVE SettingsForm'
  BY <1>6 DEF Expire, host, traffic, SettingsForm, FormInv
<1>7. ASSUME NEW w \in Workers, Take(w) PROVE SettingsForm'
  BY <1>7 DEF Take, At, host, SettingsForm, FormInv
<1>8. ASSUME NEW w \in Workers, Listen(w) PROVE SettingsForm'
  BY <1>8 DEF Listen, At, Quiet, Goto, host, traffic, SettingsForm, FormInv
<1>9. ASSUME NEW w \in Workers, Suppress(w) PROVE SettingsForm'
  BY <1>9 DEF Suppress, At, host, traffic, SettingsForm, FormInv
<1>10. ASSUME NEW w \in Workers, Later(w) PROVE SettingsForm'
  BY <1>10 DEF Later, At, Quiet, Goto, Finish, host, traffic, SettingsForm, FormInv
<1>11. ASSUME NEW w \in Workers, ConsumeSuppressed(w) PROVE SettingsForm'
  BY <1>11 DEF ConsumeSuppressed, At, Finish, host, traffic, SettingsForm, FormInv
<1>12. ASSUME NEW w \in Workers, Dispatch(w) PROVE SettingsForm'
  BY <1>12 DEF Dispatch, At, Goto, host, traffic, SettingsForm, FormInv
<1>13. ASSUME NEW w \in Workers, Return(w) PROVE SettingsForm'
  BY <1>13 DEF Return, At, Finish, Quiet, host, traffic, SettingsForm, FormInv
<1>14. ASSUME NEW w \in Workers, Other(w) PROVE SettingsForm'
  BY <1>14 DEF Other, At, Goto, Quiet, host, traffic, SettingsForm, FormInv
<1>15. ASSUME NEW w \in Workers, Read(w) PROVE SettingsForm'
  BY <1>15 DEF Read, At, Goto, traffic, SettingsForm, FormInv
<1>16. ASSUME NEW w \in Workers, StoreAccess(w) PROVE SettingsForm'
  BY <1>16 DEF StoreAccess, At, Goto, traffic, Put, SettingsForm, FormInv
<1>17. ASSUME NEW w \in Workers, Remember(w) PROVE SettingsForm'
  BY <1>17 DEF Remember, At, Goto, traffic, SettingsForm, FormInv
<1>18. ASSUME NEW w \in Workers, Apply(w) PROVE SettingsForm'
  BY <1>18 DEF Apply, At, Goto, traffic, SettingsForm, FormInv
<1>19. ASSUME NEW w \in Workers, SetLive(w) PROVE SettingsForm'
  BY <1>19 DEF SetLive, At, Goto, traffic, SettingsForm, FormInv
<1>20. ASSUME NEW w \in Workers, StoreLive(w) PROVE SettingsForm'
  BY <1>20 DEF StoreLive, At, Goto, traffic, Put, SettingsForm, FormInv
<1>21. ASSUME NEW w \in Workers, Rollback(w) PROVE SettingsForm'
  BY <1>21 DEF Rollback, At, Goto, traffic, SettingsForm, FormInv
<1>22. ASSUME NEW w \in Workers, NEW p, Unroute(w, p) PROVE SettingsForm'
  BY <1>22 DEF Unroute, At, traffic, SettingsForm, FormInv
<1>23. ASSUME NEW w \in Workers, Reroute(w) PROVE SettingsForm'
  BY <1>23 DEF Reroute, At, Goto, traffic, SettingsForm, FormInv
<1>24. CASE UNCHANGED vars
  BY <1>24 DEF vars, SettingsForm, FormInv
<1> QED
  BY <1>1, <1>2, <1>3, <1>4, <1>5, <1>6, <1>7, <1>8, <1>9, <1>10, <1>11, <1>12, <1>13, <1>14, <1>15, <1>16, <1>17, <1>18, <1>19, <1>20, <1>21, <1>22, <1>23, <1>24 DEF Next, Work, Edit


LEMMA FormStep == FormInv /\ [Next]_vars => FormInv'
  BY TrafficStep, WorkStep, SettingsStep DEF FormInv

LEMMA FormInit == Init => FormInv
<1> SUFFICES ASSUME Init PROVE FormInv
  OBVIOUS
<1> USE DEF Init
<1>1. TrafficForm
  BY DEF TrafficForm
<1>2. WorkForm
  BY DEF WorkForm, Idle
<1>3. SettingsForm
  BY DEF SettingsForm
<1> QED
  BY <1>1, <1>2, <1>3 DEF FormInv
-----------------------------------------------------------------------------
(* A message is in one place.                                              *)

LEMMA PlaceStep == FormInv /\ InOnePlace /\ [Next]_vars => InOnePlace'
<1> SUFFICES ASSUME FormInv, InOnePlace, [Next]_vars PROVE InOnePlace'
  OBVIOUS
<1> USE DEF InOnePlace, Busy
<1>1. CASE UNCHANGED <<inbox, arriving, queue, work>>
  BY <1>1
<1>2. CASE Down
  BY <1>2 DEF Down, Idle
<1>3. ASSUME NEW m \in inbox, Receive(m) PROVE InOnePlace'
  <2>1. /\ inbox' = inbox \ {m} /\ UNCHANGED <<queue, work>>
        /\ arriving' = Null \/ arriving'.m = m
    BY <1>3 DEF Receive
  <2> QED BY <2>1
<1>4. CASE Admit
  <2>1. /\ UNCHANGED <<inbox, work>> /\ arriving # Null /\ arriving' = Null
        /\ queue' = queue \/ queue' = Append(queue, arriving)
    BY <1>4 DEF Admit
  <2>2. CASE queue' = queue BY <2>1, <2>2
  <2>3. CASE queue' = Append(queue, arriving)
    <3>1. /\ Len(queue') = Len(queue) + 1 /\ Len(queue) \in Nat
          /\ \A i \in 1 .. Len(queue) : queue'[i] = queue[i]
          /\ queue'[Len(queue) + 1] = arriving
      BY <2>3 DEF FormInv, TrafficForm
    <3>2. \A i \in 1 .. Len(queue') : i \in 1 .. Len(queue) \/ i = Len(queue) + 1
      BY <3>1
    <3> QED BY <2>1, <3>1, <3>2
  <2> QED BY <2>1, <2>2, <2>3
<1>5. ASSUME NEW w \in Workers, Take(w) PROVE InOnePlace'
  <2>1. /\ UNCHANGED <<inbox, arriving>> /\ queue # <<>> /\ queue' = Tail(queue)
        /\ work[w].at = "idle"
    BY <1>5 DEF Take, At
  <2>2. Only(w) /\ work'[w].m = queue[1].m
    BY <1>5, TakeTurn
  <2>3. /\ Len(queue) \in Nat \ {0} /\ Len(queue') = Len(queue) - 1
        /\ \A i \in 1 .. Len(queue') : queue'[i] = queue[i + 1] /\ i + 1 \in 1 .. Len(queue)
        /\ 1 \in 1 .. Len(queue)
    BY <2>1 DEF FormInv, TrafficForm
  <2>4. \A i \in 1 .. Len(queue') : i + 1 # 1
    BY <2>3
  <2> HIDE DEF FormInv
  <2>5. \A x \in inbox : (\A i \in 1 .. Len(queue') : queue'[i].m # x)
                         /\ \A v \in Workers : Busy(v)' => work'[v].m # x
    BY <2>1, <2>2, <2>3 DEF Only
  <2>6. arriving # Null => (\A i \in 1 .. Len(queue') : queue'[i].m # arriving.m)
                         /\ \A v \in Workers : Busy(v)' => work'[v].m # arriving.m
    BY <2>1, <2>2, <2>3 DEF Only
  <2>7. ASSUME NEW i \in 1 .. Len(queue')
        PROVE  /\ \A j \in 1 .. Len(queue') : queue'[i].m = queue'[j].m => i = j
               /\ \A v \in Workers : Busy(v)' => work'[v].m # queue'[i].m
    <3>1. queue'[i] = queue[i + 1] /\ i + 1 \in 1 .. Len(queue) BY <2>3
    <3>2. ASSUME NEW j \in 1 .. Len(queue'), queue'[i].m = queue'[j].m PROVE i = j
      <4>1. queue'[j] = queue[j + 1] /\ j + 1 \in 1 .. Len(queue) BY <2>3
      <4>2. i + 1 = j + 1 BY <3>1, <3>2, <4>1
      <4> QED BY <2>3, <4>2
    <3>3. ASSUME NEW v \in Workers, Busy(v)' PROVE work'[v].m # queue'[i].m
      <4>1. queue[i + 1].m # queue[1].m BY <2>3, <2>4, <3>1
      <4> QED BY <2>2, <3>1, <3>3, <4>1 DEF Only
    <3> QED BY <3>2, <3>3
  <2>8. \A u, v \in Workers : Busy(u)' /\ Busy(v)' /\ work'[u].m = work'[v].m => u = v
    BY <2>2, <2>3 DEF Only
  <2> QED BY <2>1, <2>5, <2>6, <2>7, <2>8
<1>6. ASSUME NEW w \in Workers, Work(w), ~Take(w) PROVE InOnePlace'
  <2>1. Turn(w) BY <1>6, TurnStep
  <2>2. Busy(w) /\ \A v \in Workers : Busy(v)' => Busy(v) /\ work'[v].m = work[v].m
    BY <2>1 DEF Turn, Ends, Stays, Only, Idle
  <2> QED BY <2>1, <2>2 DEF Turn
<1> QED
  BY <1>1, <1>2, <1>3, <1>4, <1>5, <1>6 DEF Next, Start, IntervalEnds, Expire, vars, host, traffic

-----------------------------------------------------------------------------
(* How often it has run.                                                   *)

LEMMA CountStep == FormInv /\ OnceInv /\ [Next]_vars => NotYet'
<1> SUFFICES ASSUME FormInv, OnceInv, [Next]_vars PROVE NotYet'
  OBVIOUS
<1> USE DEF OnceInv, NotYet
<1>1. CASE UNCHANGED <<inbox, arriving, queue, work, ran, suppressed, expired>>
  BY <1>1 DEF Counts
<1>2. CASE Down
  BY <1>2 DEF Down, Idle, Counts
<1>3. ASSUME NEW m \in inbox, Receive(m) PROVE NotYet'
  <2>1. /\ inbox' = inbox \ {m} /\ UNCHANGED <<queue, work, ran, suppressed, expired>>
        /\ arriving' = Null \/ arriving'.m = m
    BY <1>3 DEF Receive
  <2> QED BY <2>1 DEF Counts
<1>4. CASE Admit
  <2>1. /\ UNCHANGED <<inbox, work, ran, suppressed, expired>> /\ arriving # Null /\ arriving' = Null
        /\ queue' = queue \/ queue' = Append(queue, arriving)
    BY <1>4 DEF Admit
  <2>2. \A i \in 1 .. Len(queue') :
          (i \in 1 .. Len(queue) /\ queue'[i] = queue[i]) \/ queue'[i] = arriving
    BY <2>1 DEF FormInv, TrafficForm
  <2> QED BY <2>1, <2>2 DEF Counts
<1>5. ASSUME NEW m \in suppressed, Expire(m) PROVE NotYet'
  BY <1>5 DEF Expire, traffic, host, Counts
<1>6. ASSUME NEW w \in Workers, Take(w) PROVE NotYet'
  <2>1. /\ UNCHANGED <<inbox, arriving, ran, suppressed, expired>> /\ queue # <<>> /\ queue' = Tail(queue)
    BY <1>6 DEF Take, At
  <2>2. /\ Only(w) /\ work'[w].m = queue[1].m /\ work'[w].at \in {"listen", "later"}
        /\ work'[w].forced = FALSE
    BY <1>6, TakeTurn
  <2>3. 1 \in 1 .. Len(queue) /\ \A i \in 1 .. Len(queue') : queue'[i] = queue[i + 1] /\ i + 1 \in 1 .. Len(queue)
    BY <2>1 DEF FormInv, TrafficForm
  <2>4. Counts(w)' BY <2>1, <2>2, <2>3 DEF Counts
  <2>5. \A v \in Workers : v # w => Counts(v)' BY <2>1, <2>2 DEF Counts, Only
  <2> QED BY <2>1, <2>3, <2>4, <2>5
<1>7. ASSUME NEW w \in Workers, Work(w), ~Take(w) PROVE NotYet'
  <2> DEFINE m == work[w].m
  <2>1. Turn(w) BY <1>7, TurnStep
  <2>2. /\ Busy(w) /\ UNCHANGED <<inbox, arriving, queue>>
        /\ m \in DOMAIN ran
        /\ \A v \in Workers : v # w /\ Busy(v) => work'[v] = work[v] /\ work[v].m # m
        /\ \A v \in Workers : v # w => work'[v] = work[v]
    BY <2>1, Busying DEF Turn, Ends, Stays, Only, IsJob, InOnePlace
  <2>3. CASE Dispatch(w)
    <3>1. /\ UNCHANGED <<suppressed, expired>>
          /\ work[w].at = "parsed"
          /\ ran' = [ran EXCEPT ![m] = @ + 1] \/ ran' = ran
          /\ \E at \in {"run", "ran"} : Goto(w, at)
      BY <2>3 DEF Dispatch, At
    <3>2. \A x \in DOMAIN ran : x # m => ran'[x] = ran[x]
      BY <3>1
    <3>3. ran[m] = 0 \/ m \in expired
      BY <3>1 DEF Counts
    <3>4. (\A x \in DOMAIN ran : ran[x] <= 1 \/ x \in expired)'
      BY <2>2, <3>1, <3>3 DEF FormInv, TrafficForm
    <3>5. \A v \in Workers : v # w => Counts(v)'
      <4> SUFFICES ASSUME NEW v \in Workers, v # w, Busy(v) PROVE Counts(v)'
        BY <2>2 DEF Counts, Busy
      <4>1. work[v].m \in DOMAIN ran BY Busying DEF IsJob
      <4>2. ran'[work[v].m] = ran[work[v].m] BY <2>2, <3>2, <4>1
      <4> QED BY <2>2, <3>1, <4>2 DEF Counts
    <3>6. Counts(w)' BY <2>2, <3>1, Going DEF Goes, JobIs, Counts
    <3>7. /\ \A x \in inbox : ran'[x] = 0
          /\ arriving # Null => ran'[arriving.m] = 0
          /\ \A i \in 1 .. Len(queue) : ran'[queue[i].m] = 0
      <4>1. \A i \in 1 .. Len(queue) : queue[i].m \in DOMAIN ran /\ queue[i].m # m
        <5>1. \A i \in 1 .. Len(queue) : queue[i] \in Carried BY DEF FormInv, TrafficForm
        <5> QED BY <2>2, <5>1 DEF Carried, InOnePlace
      <4>2. arriving # Null => arriving.m \in DOMAIN ran /\ arriving.m # m
        BY <2>2 DEF FormInv, TrafficForm, Carried, InOnePlace
      <4>3. \A x \in inbox : x \in DOMAIN ran /\ x # m
        BY <2>2 DEF FormInv, TrafficForm, InOnePlace
      <4> QED BY <3>2, <4>1, <4>2, <4>3
    <3> QED BY <2>2, <3>4, <3>5, <3>6, <3>7
  <2>4. CASE ~Dispatch(w)
    <3>1. /\ ran' = ran /\ expired' = expired
          /\ \A x : x # m => (x \in suppressed <=> x \in suppressed')
      BY <1>7, <2>4 DEF Work, Edit, Listen, Suppress, Later, ConsumeSuppressed, Return, Other, Read, Quiet,
        StoreAccess, Remember, Apply, SetLive, StoreLive, Rollback, Unroute, Reroute
    <3>2. \A v \in Workers : v # w => Counts(v)'
      BY <2>2, <3>1 DEF Counts, Busy
    <3>3. Counts(w)'
      <4>1. CASE Listen(w)
        <5>1. work[w].at = "listen" /\ ran[m] = 0 /\ ~work[w].forced
          BY <4>1 DEF Listen, At, Counts
        <5>2. CASE Goes(w, "later") BY <3>1, <5>1, <5>2 DEF Counts, Goes, JobIs
        <5>3. ASSUME NEW b, JobIs(w, "parsed", TRUE, b, work[w].new, work[w].old) PROVE Counts(w)'
          <6>1. work'[w].at = "parsed" /\ work'[w].m = m BY <5>3 DEF JobIs
          <6> QED BY <3>1, <5>1, <6>1 DEF Counts
        <5> QED BY <4>1, <5>2, <5>3, ListenTurn
      <4>2. CASE Suppress(w)
        <5>1. JobIs(w, "later", FALSE, work[w].body, work[w].new, work[w].old)
          BY <4>2, SuppressTurn
        <5>2. suppressed' = suppressed \cup {m} BY <4>2 DEF Suppress
        <5> QED BY <5>1, <5>2 DEF Counts, JobIs
      <4>3. CASE Later(w)
        BY <2>2, <3>1, <4>3, Going, Ending DEF Later, At, Quiet, Counts, Goes, JobIs, Ends, Idle
      <4>4. CASE ConsumeSuppressed(w)
        <5>1. work[w].at = "dispatch" BY <4>4 DEF ConsumeSuppressed, At
        <5>2. CASE Ends(w) BY <5>2 DEF Counts, Ends, Idle
        <5>3. CASE /\ m \notin suppressed
                   /\ JobIs(w, "parsed", work[w].forced, Parse(m.text), work[w].new, work[w].old)
          <6>1. work'[w].at = "parsed" /\ work'[w].m = m /\ work'[w].forced = work[w].forced
            BY <5>3 DEF JobIs
          <6> QED BY <3>1, <5>1, <5>3, <6>1 DEF Counts
        <5> QED BY <4>4, <5>2, <5>3, ConsumeTurn
      <4>5. CASE ~(Listen(w) \/ Suppress(w) \/ Later(w) \/ ConsumeSuppressed(w))
        <5>1. work'[w].at \notin {"listen", "later", "dispatch", "parsed"}
          BY <1>7, <2>2, <2>4, <4>5, Going, Ending, ReadTurn, SetLiveTurn, UnrouteTurn
            DEF Work, Edit, Return, Other, StoreAccess, Remember, Apply, StoreLive, Rollback, Reroute,
                Goes, JobIs, Ends, Idle
        <5> QED BY <5>1 DEF Counts
      <4> QED BY <4>1, <4>2, <4>3, <4>4, <4>5
    <3> QED BY <2>2, <3>1, <3>2, <3>3
  <2> QED BY <2>3, <2>4
<1> QED
  BY <1>1, <1>2, <1>3, <1>4, <1>5, <1>6, <1>7 DEF Next, Start, IntervalEnds, vars, host, traffic

LEMMA OnceStep == FormInv /\ OnceInv /\ [Next]_vars => OnceInv'
  BY PlaceStep, CountStep DEF OnceInv

LEMMA OnceInit == Init => OnceInv
  BY DEF Init, OnceInv, InOnePlace, NotYet, Counts, Busy, Idle

-----------------------------------------------------------------------------
(* The row, the memory and the router.                                     *)

LEMMA PutKept ==
  ASSUME NEW k, NEW v, Put(k, v)
  PROVE  Kept(k)' = v /\ \A x : x # k => Kept(x)' = Kept(x)
  BY DEF Put, Kept, Built

LEMMA SameKept ==
  ASSUME UNCHANGED rows PROVE \A x : Kept(x)' = Kept(x)
  BY DEF Kept, Built

\* Nothing that KeyInv says of k has changed.
Untouched(k) ==
  /\ up' = up /\ live'[k] = live[k] /\ Kept(k)' = Kept(k) /\ clean'[k] = clean[k]
  /\ k = "sudo" => UNCHANGED <<delegates, live.sudo>>
  /\ \A v \in Workers :
       \/ ~Editing(v, k) /\ ~Editing(v, k)'
       \/ work'[v] = work[v]

LEMMA KeyFrame == ASSUME NEW k, KeyInv(k), Untouched(k) PROVE KeyInv(k)'
  BY DEF KeyInv, Untouched, Editing, Step, Agree


\* A step of a worker that edits nothing, before it or after it.
Plain(w) == /\ Listen(w) \/ Suppress(w) \/ Later(w) \/ ConsumeSuppressed(w) \/ Dispatch(w)
               \/ Return(w) \/ Other(w) \/ (\E p \in routed : Unroute(w, p)) \/ Reroute(w) \/ Take(w)

LEMMA PlainTurn ==
  ASSUME FormInv, NEW w \in Workers, Plain(w)
  PROVE  /\ UNCHANGED <<up, rows, live, delegates, clean>> /\ Only(w)
         /\ work[w].at \notin EditSteps /\ work'[w].at \notin EditSteps
<1> USE DEF EditSteps
<1>1. CASE Take(w)
  BY <1>1, TakeTurn DEF Take, At, host
<1>2. CASE Listen(w)
  BY <1>2, ListenTurn DEF Listen, At, Quiet, host, Goes, JobIs
<1>3. CASE Suppress(w)
  BY <1>3, SuppressTurn DEF Suppress, At, host, JobIs
<1>4. CASE Later(w)
  BY <1>4, Going, Ending DEF Later, At, Busy, Quiet, host, Goes, JobIs, Ends, Idle
<1>5. CASE ConsumeSuppressed(w)
  BY <1>5, ConsumeTurn DEF ConsumeSuppressed, At, host, JobIs, Ends, Idle
<1>6. CASE Dispatch(w)
  BY <1>6, Going DEF Dispatch, At, Busy, host, Goes, JobIs
<1>7. CASE Return(w)
  BY <1>7, Ending DEF Return, At, Quiet, host, Ends, Idle
<1>8. CASE Other(w)
  BY <1>8, Going DEF Other, At, Busy, Quiet, host, Goes, JobIs
<1>9. ASSUME NEW p, Unroute(w, p) PROVE
         /\ UNCHANGED <<up, rows, live, delegates, clean>> /\ Only(w)
         /\ work[w].at \notin EditSteps /\ work'[w].at \notin EditSteps
  BY <1>9, UnrouteTurn DEF Unroute, At, host, JobIs
<1>10. CASE Reroute(w)
  BY <1>10, Going DEF Reroute, At, Busy, host, Goes, JobIs
<1> QED
  BY <1>1, <1>2, <1>3, <1>4, <1>5, <1>6, <1>7, <1>8, <1>9, <1>10 DEF Plain

\* A step of an edit of w is about one key, and leaves the others as they are.
LEMMA EditTurn ==
  ASSUME FormInv, EditInv, NEW w \in Workers, Edit(w)
  PROVE  /\ up /\ up' = up /\ Only(w) /\ work'[w].body = work[w].body
         /\ KeyAt(w) \in Keys
         /\ \A k \in Keys : k # KeyAt(w) => Untouched(k)
<1> DEFINE key == KeyAt(w)
<1>1. up /\ up' = up /\ Only(w) /\ work'[w].body = work[w].body
  <2>1. CASE Read(w) BY <2>1, ReadTurn DEF Read, At, Goes, JobIs
  <2>2. CASE SetLive(w) BY <2>2, SetLiveTurn DEF SetLive, At, Goes, JobIs
  <2>3. CASE ~Read(w) /\ ~SetLive(w)
    BY <2>3, Going DEF Edit, StoreAccess, Remember, Apply, StoreLive, Rollback, At, Busy, Goes, JobIs
  <2> QED BY <2>1, <2>2, <2>3
<1>2. key \in Keys
  BY DEF Edit, Read, IsEdit, StoreAccess, Remember, Apply, SetLive, StoreLive, Rollback, At, EditInv,
         EditSteps, KeyAt
<1>3. ASSUME NEW k \in Keys, k # key PROVE Untouched(k)
  <2>1. live'[k] = live[k]
    BY <1>2, <1>3 DEF Edit, Read, StoreAccess, Remember, Apply, SetLive, StoreLive, Rollback, KeyAt,
         FormInv, SettingsForm
  <2>2. Kept(k)' = Kept(k)
    BY <1>3, PutKept, SameKept DEF Edit, Read, StoreAccess, Remember, Apply, SetLive, StoreLive, Rollback, KeyAt
  <2>3. clean'[k] = clean[k]
    BY <1>2, <1>3 DEF Edit, Read, StoreAccess, Remember, Apply, SetLive, StoreLive, Rollback, KeyAt,
         FormInv, SettingsForm
  <2>4. k = "sudo" => UNCHANGED delegates
    BY <1>3 DEF Edit, Read, StoreAccess, Remember, Apply, SetLive, StoreLive, Rollback, KeyAt, At, EditInv
  <2>5. \A v \in Workers : v = w \/ work'[v] = work[v]
    BY <1>1 DEF Only
  <2>6. ~Editing(w, k) /\ ~Editing(w, k)'
    BY <1>1, <1>3 DEF Editing, KeyAt
  <2> QED BY <1>1, <2>1, <2>2, <2>3, <2>4, <2>5, <2>6 DEF Untouched
<1> QED BY <1>1, <1>2, <1>3

LEMMA EditStep == FormInv /\ EditInv /\ [Next]_vars => EditInv'
<1> SUFFICES ASSUME FormInv, EditInv, [Next]_vars PROVE EditInv'
  OBVIOUS
<1> USE DEF EditInv, EditSteps, KeyAt
<1>1. CASE UNCHANGED work
  BY <1>1
<1>2. CASE Down
  BY <1>2 DEF Down, Idle
<1>3. ASSUME NEW w \in Workers, Plain(w) PROVE EditInv'
  BY <1>3, PlainTurn DEF Only
<1>4. ASSUME NEW w \in Workers, Edit(w) PROVE EditInv'
  <2>1. \A v \in Workers : v # w => work'[v] = work[v]
    BY <1>4, EditTurn DEF Only
  <2>2. work'[w].body = work[w].body
    BY <1>4, EditTurn
  <2> SUFFICES /\ work'[w].at \in EditSteps => KeyAt(w) \in Keys
               /\ work'[w].at = "stored" => KeyAt(w) \in Access
               /\ work'[w].at = "apply" => KeyAt(w) = "sudo"
               /\ work'[w].at \in {"set", "undo"} => KeyAt(w) \notin Access
    BY <2>1, <2>2
  <2>3. KeyAt(w) \in Keys BY <1>4, EditTurn
  <2>4. CASE Read(w) BY <2>3, <2>4, ReadTurn DEF Goes, JobIs
  <2>5. CASE StoreAccess(w)
    BY <2>3, <2>5, Going DEF StoreAccess, At, Busy, Goes, JobIs
  <2>6. CASE Remember(w)
    BY <2>3, <2>6, Going DEF Remember, At, Busy, Goes, JobIs
  <2>7. CASE Apply(w)
    BY <2>3, <2>7, Going DEF Apply, At, Busy, Goes, JobIs
  <2>8. CASE SetLive(w)
    BY <2>3, <2>8, SetLiveTurn DEF SetLive, Goes, JobIs
  <2>9. CASE StoreLive(w)
    BY <2>3, <2>9, Going DEF StoreLive, At, Busy, Goes, JobIs
  <2>10. CASE Rollback(w)
    BY <2>3, <2>10, Going DEF Rollback, At, Busy, Goes, JobIs
  <2> QED BY <1>4, <2>4, <2>5, <2>6, <2>7, <2>8, <2>9, <2>10 DEF Edit
<1> QED
  BY <1>1, <1>2, <1>3, <1>4 DEF Next, Work, Plain, Start, Receive, Admit, IntervalEnds, Expire, vars, host, traffic

\* The key a worker edits: before the step nobody else edits it, after it the
\* row, the memory and the router are as Step or Agree say.
LEMMA KeyEdit ==
  ASSUME FormInv, EditInv, NEW w \in Workers, Edit(w), NEW k, k = KeyAt(w), KeyInv(k)
  PROVE  KeyInv(k)'
<1>1. /\ up /\ up' = up /\ k \in Keys /\ work'[w].body = work[w].body
      /\ \A v \in Workers : v # w => work'[v] = work[v]
  BY EditTurn DEF Only
<1>2. k = KeyOf(work[w].body) /\ KeyAt(w)' = k
  BY <1>1 DEF KeyAt
<1>3. \A v \in Workers : v # w => (Editing(v, k)' <=> Editing(v, k))
  BY <1>1 DEF Editing
<1>4. Editing(w, k) <=> work[w].at \in EditSteps
  BY <1>2 DEF Editing, EditSteps
<1>5. Editing(w, k)' <=> work'[w].at \in EditSteps
  BY <1>1, <1>2 DEF Editing, EditSteps
<1>6. ASSUME clean'[k], \A v \in Workers : v # w => ~Editing(v, k),
             work'[w].at \in EditSteps => Step(w, k)', work'[w].at \notin EditSteps => Agree(k)'
      PROVE  KeyInv(k)'
  BY <1>3, <1>5, <1>6 DEF KeyInv
<1>7. CASE Read(w)
  <2>1. UNCHANGED <<live, rows, delegates>> /\ work[w].at = "run" BY <1>7 DEF Read, At
  <2>2. CASE Goes(w, "ran") /\ UNCHANGED clean
    <3>1. ~Editing(w, k) /\ ~Editing(w, k)'
      BY <1>4, <1>5, <2>1, <2>2 DEF EditSteps, Goes, JobIs
    <3>2. Untouched(k) BY <1>1, <1>3, <2>1, <2>2, <3>1, SameKept DEF Untouched
    <3> QED BY <1>2, <3>2, KeyFrame
  <2>3. ASSUME NEW v, JobIs(w, "held", work[w].forced, work[w].body, v, live[k]), clean'[k]
        PROVE  KeyInv(k)'
    <3>1. clean[k] /\ \A u \in Workers : ~Editing(u, k)
      <4>1. CASE Edited(work[w].body) = Refused
        BY <1>7, <2>3, <4>1, Going, <2>1 DEF Read, Goes, JobIs, Busy
      <4>2. CASE Edited(work[w].body) # Refused
        BY <1>1, <1>2, <1>7, <2>3, <4>2 DEF Read, FormInv, SettingsForm
      <4> QED BY <4>1, <4>2
    <3>2. Agree(k) BY <1>1, <3>1 DEF KeyInv
    <3>3. Step(w, k)'
      BY <2>1, <2>3, <3>2, SameKept DEF Step, Agree, JobIs
    <3>4. work'[w].at \in EditSteps BY <2>3 DEF JobIs, EditSteps
    <3> QED BY <1>6, <2>3, <3>1, <3>3, <3>4
  <2>4. ~clean'[k] => KeyInv(k)' BY DEF KeyInv
  <2> QED BY <1>2, <1>7, <2>2, <2>3, <2>4, ReadTurn
<1>8. ASSUME clean[k], Editing(w, k)
      PROVE  Step(w, k) /\ \A v \in Workers : v # w => ~Editing(v, k)
  BY <1>1, <1>8 DEF KeyInv
<1>9. SUFFICES ASSUME ~Read(w), clean[k]
               PROVE  /\ work'[w].at \in EditSteps => Step(w, k)'
                      /\ work'[w].at \notin EditSteps => Agree(k)'
  <2>1. ~Read(w) => UNCHANGED clean /\ work[w].at \in EditSteps
    BY DEF Edit, StoreAccess, Remember, Apply, SetLive, StoreLive, Rollback, At, EditSteps
  <2> QED BY <1>4, <1>6, <1>7, <1>8, <1>9, <2>1 DEF KeyInv
<1> USE DEF Agree, EditSteps
<1>10. CASE StoreAccess(w)
  <2>1. work[w].at = "held" /\ Step(w, k) /\ UNCHANGED <<live, delegates>>
    BY <1>4, <1>8, <1>9, <1>10 DEF StoreAccess, At
  <2>2. CASE Put(k, work[w].new) /\ Goto(w, "stored")
    <3>1. Goes(w, "stored") BY <2>1, <2>2, Going DEF Busy
    <3> QED BY <2>1, <2>2, <3>1, PutKept DEF Goes, JobIs, Step
  <2>3. CASE UNCHANGED rows /\ Goto(w, "ran")
    <3>1. Goes(w, "ran") BY <2>1, <2>3, Going DEF Busy
    <3> QED BY <2>1, <2>3, <3>1, SameKept DEF Goes, JobIs, Step
  <2> QED BY <1>2, <1>10, <2>2, <2>3 DEF StoreAccess
<1>11. CASE Remember(w)
  <2>1. /\ work[w].at = "stored" /\ Step(w, k) /\ UNCHANGED <<rows, delegates>>
        /\ live' = [live EXCEPT ![k] = work[w].new]
    BY <1>2, <1>4, <1>8, <1>9, <1>11 DEF Remember, At
  <2>2. Goes(w, IF k = "sudo" THEN "apply" ELSE "ran")
    BY <1>2, <1>11, <2>1, Going DEF Remember, Busy
  <2>3. live'[k] = work[w].new BY <1>1, <2>1 DEF FormInv, SettingsForm
  <2> QED BY <2>1, <2>2, <2>3, SameKept DEF Goes, JobIs, Step
<1>12. CASE Apply(w)
  <2>1. /\ work[w].at = "apply" /\ Step(w, k) /\ UNCHANGED <<rows, live>>
        /\ delegates' = DelegatesOf(work[w].new) /\ k = "sudo"
    BY <1>2, <1>4, <1>8, <1>9, <1>12 DEF Apply, At, EditInv
  <2>2. Goes(w, "ran") BY <1>12, <2>1, Going DEF Apply, Busy
  <2> QED BY <2>1, <2>2, SameKept DEF Goes, JobIs, Step, DelegatesOf
<1>13. CASE SetLive(w)
  <2>1. /\ work[w].at = "held" /\ Step(w, k) /\ UNCHANGED <<rows, delegates>>
        /\ k # "sudo"
    BY <1>2, <1>4, <1>8, <1>9, <1>13 DEF SetLive, At, Access
  <2>2. CASE Goes(w, "ran") /\ UNCHANGED live
    BY <2>1, <2>2, SameKept DEF Goes, JobIs, Step
  <2>3. CASE /\ live' = [live EXCEPT ![k] = work[w].new]
             /\ JobIs(w, "set", work[w].forced, work[w].body, work[w].new,
                      IF k = "aliases" THEN live[k] ELSE work[w].old)
    <3>1. live'[k] = work[w].new BY <1>1, <2>3 DEF FormInv, SettingsForm
    <3>2. work[w].old = live[k] /\ live[k] = Kept(k) BY <2>1 DEF Step
    <3>3. /\ work'[w].at = "set" /\ work'[w].new = work[w].new
          /\ work'[w].old = Kept(k)
      BY <2>3, <3>2 DEF JobIs
    <3> QED BY <2>1, <3>1, <3>3, SameKept DEF Step
  <2> QED BY <1>13, <2>2, <2>3, SetLiveTurn
<1>14. CASE StoreLive(w)
  <2>1. /\ work[w].at = "set" /\ Step(w, k) /\ UNCHANGED <<live, delegates>> /\ k # "sudo"
    BY <1>2, <1>4, <1>8, <1>9, <1>14 DEF StoreLive, At, EditInv, Access
  <2>2. CASE Put(k, IF k = "level" THEN work[w].new ELSE live[k]) /\ Goto(w, "ran")
    <3>1. Goes(w, "ran") BY <2>1, <2>2, Going DEF Busy
    <3> QED BY <2>1, <2>2, <3>1, PutKept DEF Goes, JobIs, Step
  <2>3. CASE UNCHANGED rows /\ Goto(w, "undo")
    <3>1. Goes(w, "undo") BY <2>1, <2>3, Going DEF Busy
    <3> QED BY <2>1, <2>3, <3>1, SameKept DEF Goes, JobIs, Step
  <2> QED BY <1>2, <1>14, <2>2, <2>3 DEF StoreLive
<1>15. CASE Rollback(w)
  <2>1. /\ work[w].at = "undo" /\ Step(w, k) /\ UNCHANGED <<rows, delegates>> /\ k # "sudo"
        /\ live' = [live EXCEPT ![k] = work[w].old]
    BY <1>2, <1>4, <1>8, <1>9, <1>15 DEF Rollback, At, EditInv, Access
  <2>2. Goes(w, "ran") BY <1>15, <2>1, Going DEF Rollback, Busy
  <2>3. live'[k] = work[w].old BY <1>1, <2>1 DEF FormInv, SettingsForm
  <2> QED BY <2>1, <2>2, <2>3, SameKept DEF Goes, JobIs, Step
<1> QED BY <1>9, <1>10, <1>11, <1>12, <1>13, <1>14, <1>15 DEF Edit

LEMMA SettleStep == FormInv /\ SettleInv /\ [Next]_vars => SettleInv'
<1> SUFFICES ASSUME FormInv, SettleInv, [Next]_vars PROVE SettleInv'
  OBVIOUS
<1> USE DEF SettleInv
<1>1. EditInv' BY EditStep
<1> SUFFICES ASSUME NEW k \in Keys PROVE KeyInv(k)'
  BY <1>1
<1>2. CASE UNCHANGED <<up, live, rows, delegates, clean, work>>
  BY <1>2, KeyFrame, SameKept DEF Untouched
<1>3. ASSUME NEW lost, NEW written, Start(lost, written) PROVE KeyInv(k)'
  <2>1. \A w \in Workers : ~Editing(w, k)'
    BY <1>3 DEF Start, FormInv, WorkForm, Editing, Idle
  <2>2. Kept(k)' = Kept(k)
    <3>1. /\ DOMAIN rows' = DOMAIN rows \cup Imported(lost, written)
          /\ \A x \in DOMAIN rows' : rows'[x] = IF x \in DOMAIN rows THEN rows[x] ELSE Legacy[x]
      BY <1>3 DEF Start
    <3>2. k \in Imported(lost, written) => k \in DOMAIN Legacy
      BY DEF Imported
    <3> QED BY <3>1, <3>2 DEF Kept, Built
  <2>3. clean'[k] => live'[k] = Kept(k)
    BY <1>3 DEF Start, LoadAccess, LoadPrefixes, LoadAliases, LoadLevel, Keys, Access
  <2>4. delegates' = DelegatesOf(live'.sudo) BY <1>3 DEF Start
  <2> QED BY <2>1, <2>2, <2>3, <2>4 DEF KeyInv, Agree, DelegatesOf
<1>4. CASE Down
  BY <1>4 DEF Down, KeyInv
<1>5. ASSUME NEW w \in Workers, Plain(w) PROVE KeyInv(k)'
  <2>1. Untouched(k)
    BY <1>5, PlainTurn, SameKept DEF Untouched, Only, Editing, EditSteps
  <2> QED BY <2>1, KeyFrame
<1>6. ASSUME NEW w \in Workers, Edit(w) PROVE KeyInv(k)'
  <2>1. CASE k = KeyAt(w) BY <1>6, <2>1, KeyEdit
  <2>2. CASE k # KeyAt(w) BY <1>6, <2>2, EditTurn, KeyFrame
  <2> QED BY <2>1, <2>2
<1> QED
  BY <1>2, <1>3, <1>4, <1>5, <1>6 DEF Next, Work, Plain, Receive, Admit, IntervalEnds, Expire, vars, host, traffic

LEMMA SettleInit == Init => SettleInv
  BY DEF Init, SettleInv, EditInv, EditSteps, KeyInv, Idle


-----------------------------------------------------------------------------
(* The operators on words, messages and aliases.                           *)

\* A set of numbers has a least member.
LEMMA Least ==
  ASSUME NEW S, S \subseteq Nat, S # {} PROVE \E x \in S : \A y \in S : x <= y
<1>1. PICK x \in S : \A y \in S : ~ (<<y, x>> \in OpToRel(<, Nat))
  BY NatLessThanWellFounded, WFMin, Zenon
<1>2. ASSUME NEW y \in S, y < x PROVE FALSE
  <2>1. y \in Nat /\ x \in Nat
    OBVIOUS
  <2>2. <<y, x>> \in OpToRel(<, Nat)
    BY <1>2, <2>1, Zenon DEF OpToRel
  <2> QED BY <1>1, <2>2, Zenon
<1>3. \A y \in S : ~(y < x) BY ONLY <1>2
<1>4. \A y \in S : x <= y BY ONLY <1>3, S \subseteq Nat, x \in S
<1> QED BY ONLY <1>4, x \in S

LEMMA TheLeast ==
  ASSUME NEW S, S \subseteq Nat, S # {}
  PROVE  (CHOOSE x \in S : \A y \in S : x <= y) \in S
  BY Least

\* A part of a sequence is one.
LEMMA Part ==
  ASSUME NEW S, NEW s \in Seq(S), NEW m \in Nat \ {0}, NEW n \in Nat, n <= Len(s)
  PROVE  SubSeq(s, m, n) \in Seq(S)
<1>1. CASE n < m
  BY <1>1
<1>2. CASE m <= n
  BY <1>2, SubSeqProperties
<1> QED BY <1>1, <1>2

\* What a text is rewritten to is made of words.
LEMMA RewriteWords ==
  ASSUME NEW body \in Seq(Words), NEW aliases, IsAliases(aliases)
  PROVE  Rewrite(body, aliases) \in Seq(Words)
<1> DEFINE hits == {a \in DOMAIN aliases : IsPrefix(a, body)}
           best == CHOOSE a \in hits : \A b \in hits : Len(b) <= Len(a)
<1>1. CASE hits = {}
  BY <1>1 DEF Rewrite
<1>2. CASE hits # {}
  <2>1. \A a \in hits : a \in Seq(Words) /\ Len(a) \in Nat /\ Len(a) <= Len(body)
    BY DEF IsAliases, IsPrefix
  <2>2. best \in hits
    <3> DEFINE S == {Len(body) - Len(a) : a \in hits}
    <3>1. S \subseteq Nat /\ S # {}
      BY <1>2, <2>1
    <3>2. PICK x \in S : \A y \in S : x <= y
      BY <3>1, Least
    <3>3. PICK a \in hits : x = Len(body) - Len(a)
      OBVIOUS
    <3>4. \A b \in hits : Len(body) - Len(a) <= Len(body) - Len(b)
      BY <3>2, <3>3
    <3>5. \A b \in hits : Len(b) <= Len(a)
      BY <2>1, <3>4
    <3> QED BY <3>5
  <2> HIDE DEF best
  <2>3. aliases[best] \in Seq(Words) /\ Len(best) \in Nat
    BY <2>1, <2>2 DEF IsAliases
  <2>4. SubSeq(body, Len(best) + 1, Len(body)) \in Seq(Words)
    BY <2>3, Part
  <2>5. Rewrite(body, aliases) = aliases[best] \o SubSeq(body, Len(best) + 1, Len(body))
    BY <1>2, Zenon DEF Rewrite, best
  <2> QED BY <2>3, <2>4, <2>5
<1> QED BY <1>1, <1>2

\* Without chains a target is not rewritten again, and no text that starts with
\* the command alias is.
LEMMA Unchained ==
  ASSUME NEW aliases, IsAliases(aliases), ValidAliases(aliases), NEW a \in DOMAIN aliases
  PROVE  /\ Rewrite(aliases[a], aliases) = aliases[a]
         /\ Rewrite(<<"alias", "del">> \o a, aliases) = <<"alias", "del">> \o a
<1>1. {b \in DOMAIN aliases : IsPrefix(b, aliases[a])} = {}
  BY DEF ValidAliases, Chained
<1>2. {b \in DOMAIN aliases : IsPrefix(b, <<"alias", "del">> \o a)} = {}
  <2> DEFINE t == <<"alias", "del">> \o a
  <2>1. a \in Seq(Words) BY DEF IsAliases
  <2>2. t \in Seq(Words \cup {"alias", "del"}) /\ t[1] = "alias" /\ Len(t) \in Nat
    BY <2>1
  <2>3. ASSUME NEW b \in DOMAIN aliases, IsPrefix(b, t) PROVE FALSE
    <3>1. b \in Seq(Words) /\ b # <<>> /\ b[1] # "alias"
      BY DEF IsAliases, ValidAliases
    <3>2. Len(b) \in Nat \ {0} BY <3>1
    <3>3. SubSeq(b, 1, Len(b)) = SubSeq(t, 1, Len(b)) /\ Len(b) <= Len(t)
      BY <2>3 DEF IsPrefix
    <3> HIDE DEF t
    <3>4. SubSeq(b, 1, Len(b))[1] = b[1] BY <3>1, <3>2
    <3>5. SubSeq(t, 1, Len(b))[1] = t[1] BY <2>2, <3>2, <3>3
    <3> QED BY <2>2, <3>1, <3>3, <3>4, <3>5
  <2> QED BY <2>3
<1> QED BY <1>1, <1>2 DEF Rewrite

LEMMA Redirected ==
  ASSUME NEW e \in Entries, NEW to \in Words \cup {""} PROVE [e EXCEPT !.out = to] \in Entries
  BY DEF Entries

\* What a message list becomes is a list of entries.
LEMMA MessagesFormed ==
  ASSUME NEW s, IsSure(s), NEW args \in Seq(Words), NEW v \in EditMessages(s, args)
  PROVE  IsSure(v)
<1> DEFINE more == Len(args) > 2
           next == IF s.msgs = <<>> THEN 1 ELSE Last(s.msgs).id + 1
           known == {i \in DOMAIN s.msgs :
                       more /\ args[3] \in DOMAIN Number /\ s.msgs[i].id = Number[args[3]]}
           first == CHOOSE i \in known : \A j \in known : i <= j
           entry == [id |-> next, line |-> args[3], out |-> ""]
           to == IF Len(args) > 3 THEN args[4] ELSE ""
<1>1. s.msgs \in Seq(Entries) /\ Len(s.msgs) \in Nat /\ DOMAIN s.msgs = 1 .. Len(s.msgs)
      /\ DOMAIN s = {"users", "chats", "msgs"}
  BY DEF IsSure
<1>2. next \in Nat
  <2>1. s.msgs # <<>> => Last(s.msgs) \in Entries
    BY <1>1 DEF Last
  <2>2. s.msgs # <<>> => Last(s.msgs).id \in Nat
    BY <2>1 DEF Entries
  <2> QED BY <2>2
<1>3. known # {} => first \in 1 .. Len(s.msgs)
  <2>1. known \subseteq Nat /\ known \subseteq 1 .. Len(s.msgs) BY <1>1
  <2> HIDE DEF known
  <2> QED BY <2>1, TheLeast
<1>9. (more => args[3] \in Words) /\ to \in Words \cup {""}
  <2>1. Len(args) \in Nat /\ \A i \in 1 .. Len(args) : args[i] \in Words
    OBVIOUS
  <2>2. more => 3 \in 1 .. Len(args)
    BY <2>1
  <2>3. Len(args) > 3 => 4 \in 1 .. Len(args)
    BY <2>1
  <2> QED BY <2>1, <2>2, <2>3
<1> HIDE DEF next, known, first, to
<1>4. \/ v = [s EXCEPT !.msgs = Append(@, entry)] /\ more
      \/ v = [s EXCEPT !.msgs = RemoveAt(@, first)] /\ known # {}
      \/ v = [s EXCEPT !.msgs[first].out = to] /\ known # {}
  BY Zenon DEF EditMessages, Refused, next, known, first, to
<1>5. ASSUME NEW list \in Seq(Entries), v = [s EXCEPT !.msgs = list] PROVE IsSure(v)
  BY <1>1, <1>5 DEF IsSure
<1>6. CASE v = [s EXCEPT !.msgs = Append(@, entry)] /\ more
  <2>2. entry \in Entries BY <1>2, <1>6, <1>9 DEF Entries
  <2> HIDE DEF entry
  <2>3. Append(s.msgs, entry) \in Seq(Entries) BY <1>1, <2>2
  <2> QED BY <1>5, <1>6, <2>3
<1>7. CASE v = [s EXCEPT !.msgs = RemoveAt(@, first)] /\ known # {}
  <2>1. SubSeq(s.msgs, 1, first - 1) \in Seq(Entries) BY <1>1, <1>3, <1>7, Part
  <2>2. SubSeq(s.msgs, first + 1, Len(s.msgs)) \in Seq(Entries) BY <1>1, <1>3, <1>7, Part
  <2>3. RemoveAt(s.msgs, first) \in Seq(Entries) BY <2>1, <2>2 DEF RemoveAt
  <2> QED BY <1>5, <1>7, <2>3
<1>8. CASE v = [s EXCEPT !.msgs[first].out = to] /\ known # {}
  <2>2. [s.msgs EXCEPT ![first].out = to] \in Seq(Entries)
    <3>1. [s.msgs[first] EXCEPT !.out = to] \in Entries
      <4>1. s.msgs[first] \in Entries BY <1>1, <1>3, <1>8
      <4> QED BY <1>9, <4>1, Redirected
    <3> QED BY <1>1, <1>3, <1>8, <3>1
  <2> QED BY <1>5, <1>8, <2>2
<1> QED BY <1>4, <1>6, <1>7, <1>8

\* What the aliases become are words that stand for words.
LEMMA AliasesFormed ==
  ASSUME NEW aliases, IsAliases(aliases), NEW args \in Seq(Words), args # <<>>,
         NEW v \in EditAliases(aliases, args)
  PROVE  IsAliases(v)
<1> DEFINE words == Tail(args)
           split == SplitAlias(words)
           name == SubSeq(words, 1, split - 1)
           final == SubSeq(words, split, Len(words))
           kept == {a \in DOMAIN aliases : aliases[a] # final} \cup {name}
<1>1. words \in Seq(Words) /\ Len(words) \in Nat
  OBVIOUS
<1>2. Len(words) > 1 => split \in 2 .. Len(words)
  <2> DEFINE known == {i \in 2 .. Len(words) : HasRoute(words[i])}
  <2>1. known # {} => (CHOOSE i \in known : \A j \in known : i <= j) \in known
    <3>1. known \subseteq Nat OBVIOUS
    <3> HIDE DEF known
    <3> QED BY <3>1, TheLeast
  <2>2. split = IF known = {} THEN 2 ELSE CHOOSE i \in known : \A j \in known : i <= j
    BY Zenon DEF SplitAlias
  <2>3. CASE known = {} BY <1>1, <2>2, <2>3
  <2>4. CASE known # {}
    <3>1. split \in known BY <2>1, <2>2, <2>4
    <3> QED BY <3>1
  <2> QED BY <2>3, <2>4
<1> HIDE DEF split, words
<1>3. \/ v = [a \in kept |-> IF a = name THEN final ELSE aliases[a]] /\ Len(words) > 1
      \/ v = [a \in DOMAIN aliases \ {words} |-> aliases[a]]
  BY Zenon DEF EditAliases, Refused, split, words
<1>4. CASE v = [a \in kept |-> IF a = name THEN final ELSE aliases[a]] /\ Len(words) > 1
  <2>1. name \in Seq(Words) BY <1>1, <1>2, <1>4, Part
  <2>2. final \in Seq(Words) BY <1>1, <1>2, <1>4, Part
  <2> HIDE DEF name, final
  <2> QED BY <1>4, <2>1, <2>2 DEF IsAliases
<1>5. CASE v = [a \in DOMAIN aliases \ {words} |-> aliases[a]]
  BY <1>5 DEF IsAliases
<1> QED BY <1>3, <1>4, <1>5

LEMMA EditFormed ==
  ASSUME \A k \in Keys : Formed(k, live[k]), NEW body \in Seq(Words), IsEdit(body), NEW v \in Edited(body)
  PROVE  Formed(KeyOf(body), v)
<1>1. Tail(body) \in Seq(Words) /\ Tail(body) # <<>>
  <2>1. Len(body) > 1 /\ Len(body) \in Nat BY DEF IsEdit
  <2> DEFINE t == Tail(body)
  <2>2. t \in Seq(Words) /\ Len(t) = Len(body) - 1 BY <2>1
  <2> HIDE DEF t
  <2>3. t # <<>> BY <2>1, <2>2
  <2> QED BY <2>2, <2>3 DEF t
<1>2. ASSUME KeyOf(body) = "sure" PROVE IsSure(v)
  <2>1. IsSure(live.sure) BY DEF Formed, Keys
  <2>2. v \in EditSure(Tail(body)) BY <1>2 DEF Edited
  <2>3. CASE v \in EditMessages(live.sure, Tail(body)) BY <1>1, <2>1, <2>3, MessagesFormed
  <2>4. CASE v \in EditChats(live.sure, Tail(body))
    BY <2>1, <2>4 DEF EditChats, Insert, Delete, Refused, IsSure
  <2>5. CASE v \in EditUsers(live.sure, Tail(body))
    BY <2>1, <2>5 DEF EditUsers, Insert, Delete, Refused, IsSure
  <2> QED BY <2>2, <2>3, <2>4, <2>5 DEF EditSure
<1>3. ASSUME KeyOf(body) = "aliases" PROVE IsAliases(v)
  <2>1. IsAliases(live.aliases) BY DEF Formed, Keys
  <2>2. v \in EditAliases(live.aliases, Tail(body)) BY <1>3 DEF Edited
  <2> QED BY <1>1, <2>1, <2>2, AliasesFormed
<1> QED BY <1>2, <1>3 DEF Formed

-----------------------------------------------------------------------------
(* What of the settings is well-formed.                                    *)

LEMMA OutWords ==
  ASSUME FormInv, RepairInv, NEW w \in Workers, Busy(w), NEW i \in DOMAIN live.sure.msgs
  PROVE  Output(live.sure.msgs[i], work[w].m.text).body \in Seq(Words)
<1> DEFINE e == live.sure.msgs[i]
           text == work[w].m.text
           rest == SubSeq(text.body, Len(Lines[e.line].text.body) + 1, Len(text.body))
<1>1. e \in Entries
  BY DEF RepairInv, Formed, Keys, IsSure
<1>2. text.body \in Seq(Words)
  BY Busying DEF RepairInv, IsJob
<1> HIDE DEF e, text
<1>3. e.out # "" => Lines[e.out].text.body \in Seq(Words)
  BY <1>1, CommandPathAssumption DEF Entries
<1>4. rest \in Seq(Words)
  <2>1. Lines[e.line].text.body \in Seq(Words)
    BY <1>1, CommandPathAssumption DEF Entries
  <2> QED BY <1>2, <2>1, Part
<1> HIDE DEF rest
<1>5. Output(e, text).body \in Seq(Words)
  <2>1. CASE e.out = ""
    BY <1>2, <2>1 DEF Output
  <2>2. CASE e.out # "" /\ Lines[e.line].command
    <3>1. Output(e, text) = [mark |-> Lines[e.out].text.mark, body |-> Lines[e.out].text.body \o rest]
      BY <2>2, Zenon DEF Output, rest
    <3> DEFINE to == Lines[e.out].text.body
    <3>2. to \in Seq(Words) BY <1>3, <2>2
    <3> HIDE DEF to
    <3>3. to \o rest \in Seq(Words) BY <1>4, <3>2
    <3> QED BY <3>1, <3>3 DEF to
  <2>3. CASE e.out # "" /\ ~Lines[e.line].command
    BY <1>3, <2>3 DEF Output
  <2> QED BY <2>1, <2>2, <2>3
<1> QED BY <1>5 DEF e, text

LEMMA ParseWords ==
  ASSUME RepairInv, NEW text, text.body \in Seq(Words) PROVE Parse(text) \in Seq(Words)
<1>1. IsAliases(live.aliases) BY DEF RepairInv, Formed, Keys
<1> QED BY <1>1, RewriteWords DEF Parse

\* The body a listener gives a job is made of words too.
LEMMA ListenWords ==
  ASSUME FormInv, RepairInv, NEW w \in Workers, Listen(w)
  PROVE  \/ Goes(w, "later")
         \/ Only(w) /\ work'[w].at = "parsed" /\ work'[w].body \in Seq(Words)
<1> DEFINE m == work[w].m
           hits == {i \in DOMAIN live.sure.msgs : Matches(live.sure.msgs[i], m.text)}
           first == CHOOSE i \in hits : \A j \in hits : i <= j
           out == Output(live.sure.msgs[first], m.text)
<1>1. Busy(w) BY DEF Listen, At, Busy
<1>2. hits # {} => first \in DOMAIN live.sure.msgs
  <2>1. live.sure.msgs \in Seq(Entries) BY DEF RepairInv, Formed, Keys, IsSure
  <2>2. hits \subseteq Nat /\ hits \subseteq DOMAIN live.sure.msgs BY <2>1
  <2> HIDE DEF hits
  <2> QED BY <2>2, TheLeast
<1> HIDE DEF first
<1>3. hits # {} => Parse(out) \in Seq(Words)
  BY <1>1, <1>2, OutWords, ParseWords
<1>4. \/ Goto(w, "later")
      \/ /\ hits # {}
         /\ work' = [work EXCEPT ![w].at = "parsed", ![w].forced = TRUE, ![w].body = Parse(out)]
  BY Zenon DEF Listen, first
<1> HIDE DEF hits, out
<1>5. CASE Goto(w, "later") BY <1>1, <1>5, Going
<1>6. CASE /\ hits # {}
           /\ work' = [work EXCEPT ![w].at = "parsed", ![w].forced = TRUE, ![w].body = Parse(out)]
  BY <1>1, <1>3, <1>6, Busying DEF FormInv, WorkForm, Only, IsJob
<1> QED BY <1>4, <1>5, <1>6

LEMMA KeptFormed ==
  ASSUME Stored(rows), NEW k \in Keys PROVE Formed(k, Kept(k))
<1>1. IsSure(Nobody) /\ IsAliases(<<>>)
  BY DEF IsSure, IsAliases, Nobody
<1> QED BY <1>1, CommandPathAssumption DEF Stored, Formed, Kept, Built, Access, Keys

LEMMA PutStored ==
  ASSUME Stored(rows), NEW k \in Keys, NEW v, Formed(k, v), Put(k, v) PROVE Stored(rows)'
  BY DEF Stored, Formed, Put

\* A job that gets no new copy of a setting keeps what RepairInv says of it.
Holds(w) ==
  /\ Busy(w) => work[w].body \in Seq(Words)
  /\ work[w].at \in {"held", "stored"} => Formed(KeyAt(w), work[w].new)
  /\ work[w].at \in {"held", "set", "undo"} => Sound(KeyAt(w), work[w].old)

LEMMA RepairStart ==
  ASSUME FormInv, RepairInv, NEW lost, NEW written, Start(lost, written) PROVE RepairInv'
<1>1. \A k \in Keys : Formed(k, Kept(k)) BY KeptFormed DEF RepairInv
<1>2. /\ \A k \in Access : live'[k] = IF Loads(k, lost) THEN Kept(k) ELSE Nobody
      /\ live'["prefixes"] = IF Loads("prefixes", lost) THEN Kept("prefixes") ELSE ConfigMarks
      /\ live'["aliases"] = IF Loads("aliases", lost) THEN Kept("aliases") ELSE <<>>
  BY DEF Start, LoadAccess, LoadPrefixes, LoadAliases, Keys, Access
<1>3. IsSure(Nobody) /\ IsAliases(<<>>) /\ ValidAliases(<<>>) /\ ValidMarks(ConfigMarks)
  <2>1. IsSure(Nobody) BY DEF IsSure, Nobody
  <2>2. IsAliases(<<>>) /\ ValidAliases(<<>>) BY DEF IsAliases, ValidAliases, Chained
  <2>3. ValidMarks(ConfigMarks) BY CommandPathAssumption DEF ValidMarks
  <2> QED BY <2>1, <2>2, <2>3
<1>4. Formed("sure", live'["sure"])
  BY <1>1, <1>2, <1>3 DEF Formed, Keys, Access
<1>5. Formed("aliases", live'["aliases"]) /\ Sound("aliases", live'["aliases"])
  BY <1>1, <1>2, <1>3 DEF Formed, Sound, Loads, Takes, Keys
<1>6. Sound("prefixes", live'["prefixes"])
  BY <1>2, <1>3 DEF Sound, Loads, Takes
<1>7. \A k \in Keys : Formed(k, live'[k]) /\ Sound(k, live'[k])
  BY <1>4, <1>5, <1>6 DEF Formed, Sound
<1>8. Stored(rows)'
  <2>1. /\ DOMAIN rows' = DOMAIN rows \cup Imported(lost, written)
        /\ \A x \in DOMAIN rows' : rows'[x] = IF x \in DOMAIN rows THEN rows[x] ELSE Legacy[x]
    BY DEF Start
  <2>2. Imported(lost, written) \subseteq DOMAIN Legacy
    BY DEF Imported
  <2> QED BY <2>1, <2>2, CommandPathAssumption DEF Stored, RepairInv
<1>9. \A w \in Workers : work[w] = Idle /\ work'[w] = Idle
  BY DEF Start, FormInv, WorkForm
<1>10. UNCHANGED ran BY DEF Start
<1> QED BY <1>7, <1>8, <1>9, <1>10 DEF RepairInv, Busy, Idle

\* A step that changes no setting and no row, and no job but w's.
LEMMA RepairFrame ==
  ASSUME FormInv, RepairInv, UNCHANGED <<rows, live, up>>, DOMAIN ran' = DOMAIN ran,
         NEW w \in Workers, \A v \in Workers : v # w => work'[v] = work[v], Holds(w)'
  PROVE  RepairInv'
  BY DEF RepairInv, Holds, Busy, KeyAt

LEMMA RepairPlain ==
  ASSUME FormInv, RepairInv, NEW w \in Workers, Plain(w) PROVE RepairInv'
<1>1. /\ UNCHANGED <<up, rows, live>> /\ \A v \in Workers : v # w => work'[v] = work[v]
      /\ work'[w].at \notin EditSteps
  BY PlainTurn DEF Only
<1>2. DOMAIN ran' = DOMAIN ran BY RanStep DEF Plain, Work
<1>3. Busy(w)' => work'[w].body \in Seq(Words)
  <2>1. CASE Take(w)
    <3>1. work'[w].body = <<>> BY <2>1, TakeTurn
    <3> QED BY <3>1
  <2>2. CASE Listen(w)
    <3>1. work[w].body \in Seq(Words) BY <2>2 DEF Listen, At, Busy, RepairInv
    <3> QED BY <2>2, <3>1, ListenWords DEF Goes, JobIs
  <2>3. CASE ConsumeSuppressed(w)
    <3>1. work[w].m.text.body \in Seq(Words)
      BY <2>3, Busying DEF ConsumeSuppressed, At, Busy, RepairInv, IsJob
    <3>2. Parse(work[w].m.text) \in Seq(Words) BY <3>1, ParseWords
    <3> QED BY <2>3, <3>2, ConsumeTurn DEF JobIs, Ends, Busy, Idle
  <2>4. CASE ~Take(w) /\ ~Listen(w) /\ ~ConsumeSuppressed(w)
    <3>1. Busy(w) BY <2>4 DEF Plain, Suppress, Later, Dispatch, Return, Other, Unroute, Reroute, At, Busy
    <3>2. work'[w].body = work[w].body \/ ~Busy(w)'
      <4>1. CASE Suppress(w) BY <4>1, SuppressTurn DEF JobIs
      <4>2. ASSUME NEW p, Unroute(w, p) PROVE work'[w].body = work[w].body
        BY <4>2, UnrouteTurn DEF JobIs
      <4>3. CASE ~Suppress(w) /\ ~\E p : Unroute(w, p)
        <5>1. (\E at : Goto(w, at)) \/ Finish(w)
          BY <2>4, <4>3 DEF Plain, Later, Dispatch, Return, Other, Reroute
        <5> QED BY <3>1, <5>1, Going, Ending DEF Goes, JobIs, Ends, Idle, Busy
      <4> QED BY <4>1, <4>2, <4>3
    <3> QED BY <3>1, <3>2 DEF RepairInv
  <2> QED BY <2>1, <2>2, <2>3, <2>4
<1>4. Holds(w)' BY <1>1, <1>3 DEF Holds, EditSteps
<1> QED BY <1>1, <1>2, <1>4, RepairFrame

LEMMA RepairEdit ==
  ASSUME FormInv, EditInv, RepairInv, NEW w \in Workers, Edit(w) PROVE RepairInv'
<1> DEFINE key == KeyAt(w)
<1>1. /\ up /\ up' = up /\ work'[w].body = work[w].body /\ KeyAt(w)' = key /\ key \in Keys
      /\ \A v \in Workers : v # w => work'[v] = work[v]
  BY EditTurn DEF Only, KeyAt
<1>2. DOMAIN ran' = DOMAIN ran BY RanStep DEF Work
<1>3. /\ work[w].body \in Seq(Words) /\ Holds(w)
  BY DEF Edit, Read, StoreAccess, Remember, Apply, SetLive, StoreLive, Rollback, At, Busy, RepairInv, Holds
<1>4. \A k \in Keys : Formed(k, live[k]) /\ Sound(k, live[k])
  BY <1>1 DEF RepairInv
<1>5. CASE Read(w)
  <2>1. CASE Goes(w, "ran")
    <3>1. Holds(w)' BY <1>1, <1>3, <2>1 DEF Holds, Goes, JobIs
    <3> QED BY <1>1, <1>2, <1>5, <3>1, RepairFrame DEF Read
  <2>2. ASSUME NEW v \in Edited(work[w].body),
               JobIs(w, "held", work[w].forced, work[w].body, v, live[key])
        PROVE  RepairInv'
    <3>1. Formed(key, v)
      BY <1>3, <1>4, <1>5, EditFormed DEF Read, KeyAt
    <3>2. Holds(w)'
      BY <1>1, <1>3, <1>4, <2>2, <3>1 DEF Holds, JobIs
    <3> QED BY <1>1, <1>2, <1>5, <3>2, RepairFrame DEF Read
  <2> QED BY <1>5, <2>1, <2>2, ReadTurn
\* The row is written: what is written is well-formed.
<1>6. ASSUME NEW v, Put(key, v), Formed(key, v), UNCHANGED live, Holds(w)' PROVE RepairInv'
  <2>1. Stored(rows)' BY <1>1, <1>6, PutStored DEF RepairInv
  <2> QED BY <1>1, <1>2, <1>6, <2>1 DEF RepairInv, Holds, Busy, KeyAt
\* The memory is.
<1>7. ASSUME NEW v, live' = [live EXCEPT ![key] = v], Formed(key, v), Sound(key, v), UNCHANGED rows, Holds(w)'
      PROVE  RepairInv'
  <2>1. \A k \in Keys : Formed(k, live'[k]) /\ Sound(k, live'[k])
    BY <1>1, <1>4, <1>7 DEF FormInv, SettingsForm
  <2> QED BY <1>1, <1>2, <1>7, <2>1 DEF RepairInv, Holds, Busy, KeyAt
<1>8. CASE StoreAccess(w)
  <2>1. work[w].at = "held" /\ UNCHANGED live BY <1>8 DEF StoreAccess, At
  <2>2. CASE Put(key, work[w].new) /\ Goto(w, "stored")
    <3>1. Goes(w, "stored") BY <2>1, <2>2, Going DEF Busy
    <3>2. Formed(key, work[w].new) BY <1>3, <2>1 DEF Holds
    <3>3. Holds(w)' BY <1>1, <1>3, <3>1, <3>2 DEF Holds, Goes, JobIs
    <3> QED BY <1>6, <2>1, <2>2, <3>2, <3>3
  <2>3. CASE UNCHANGED rows /\ Goto(w, "ran")
    <3>1. Goes(w, "ran") BY <2>1, <2>3, Going DEF Busy
    <3>2. Holds(w)' BY <1>1, <1>3, <3>1 DEF Holds, Goes, JobIs
    <3> QED BY <1>1, <1>2, <2>1, <2>3, <3>2, RepairFrame
  <2> QED BY <1>8, <2>2, <2>3 DEF StoreAccess, KeyAt
<1>9. CASE Remember(w)
  <2>1. work[w].at = "stored" /\ UNCHANGED rows /\ live' = [live EXCEPT ![key] = work[w].new]
        /\ key \in Access
    BY <1>9 DEF Remember, At, KeyAt, EditInv
  <2>2. Goes(w, "apply") \/ Goes(w, "ran") BY <1>9, <2>1, Going DEF Remember, Busy
  <2>3. Holds(w)' BY <1>1, <1>3, <2>2 DEF Holds, Goes, JobIs
  <2>4. Formed(key, work[w].new) /\ Sound(key, work[w].new)
    BY <1>3, <2>1 DEF Holds, Sound, Access
  <2> QED BY <1>7, <2>1, <2>3, <2>4
<1>10. CASE Apply(w)
  <2>1. Goes(w, "ran") BY <1>10, Going DEF Apply, At, Busy
  <2>2. Holds(w)' BY <1>1, <1>3, <2>1 DEF Holds, Goes, JobIs
  <2> QED BY <1>1, <1>2, <1>10, <2>2, RepairFrame DEF Apply
<1>11. CASE SetLive(w)
  <2>1. work[w].at = "held" /\ UNCHANGED rows BY <1>11 DEF SetLive, At
  <2>2. CASE Goes(w, "ran") /\ UNCHANGED live
    <3>1. Holds(w)' BY <1>1, <1>3, <2>2 DEF Holds, Goes, JobIs
    <3> QED BY <1>1, <1>2, <2>1, <2>2, <3>1, RepairFrame
  <2>3. CASE /\ Takes(key, work[w].new) /\ live' = [live EXCEPT ![key] = work[w].new]
             /\ JobIs(w, "set", work[w].forced, work[w].body, work[w].new,
                      IF key = "aliases" THEN live[key] ELSE work[w].old)
    <3>1. Formed(key, work[w].new) /\ Sound(key, work[w].new)
      BY <1>3, <2>1, <2>3 DEF Holds, Sound, Takes, Formed
    <3>2. Sound(key, IF key = "aliases" THEN live[key] ELSE work[w].old)
      BY <1>1, <1>3, <1>4, <2>1 DEF Holds
    <3>3. Holds(w)' BY <1>1, <1>3, <2>3, <3>2 DEF Holds, JobIs
    <3> QED BY <1>7, <2>1, <2>3, <3>1, <3>3
  <2> QED BY <1>11, <2>2, <2>3, SetLiveTurn
<1>12. CASE StoreLive(w)
  <2>1. work[w].at = "set" /\ UNCHANGED live /\ key \notin Access
    BY <1>12 DEF StoreLive, At, EditInv
  <2>2. CASE Put(key, IF key = "level" THEN work[w].new ELSE live[key]) /\ Goto(w, "ran")
    <3>1. Goes(w, "ran") BY <2>1, <2>2, Going DEF Busy
    <3>2. Formed(key, IF key = "level" THEN work[w].new ELSE live[key])
      BY <1>1, <1>4 DEF Formed
    <3>3. Holds(w)' BY <1>1, <1>3, <3>1 DEF Holds, Goes, JobIs
    <3> QED BY <1>6, <2>1, <2>2, <3>2, <3>3
  <2>3. CASE UNCHANGED rows /\ Goto(w, "undo")
    <3>1. Goes(w, "undo") BY <2>1, <2>3, Going DEF Busy
    <3>2. Holds(w)' BY <1>1, <1>3, <2>1, <3>1 DEF Holds, Goes, JobIs
    <3> QED BY <1>1, <1>2, <2>1, <2>3, <3>2, RepairFrame
  <2> QED BY <1>12, <2>2, <2>3 DEF StoreLive, KeyAt
<1>13. CASE Rollback(w)
  <2>1. /\ work[w].at = "undo" /\ UNCHANGED rows /\ live' = [live EXCEPT ![key] = work[w].old]
        /\ key \notin Access
    BY <1>13 DEF Rollback, At, KeyAt, EditInv
  <2>2. Goes(w, "ran") BY <1>13, <2>1, Going DEF Rollback, Busy
  <2>3. Holds(w)' BY <1>1, <1>3, <2>2 DEF Holds, Goes, JobIs
  <2>4. Sound(key, work[w].old) BY <1>3, <2>1 DEF Holds
  <2>5. Formed(key, work[w].old) BY <2>1, <2>4 DEF Sound, Formed, Access
  <2> QED BY <1>7, <2>1, <2>3, <2>4, <2>5
<1> QED
  BY <1>5, <1>8, <1>9, <1>10, <1>11, <1>12, <1>13 DEF Edit

LEMMA RepairStep == FormInv /\ EditInv /\ RepairInv /\ [Next]_vars => RepairInv'
<1> SUFFICES ASSUME FormInv, EditInv, RepairInv, [Next]_vars PROVE RepairInv'
  OBVIOUS
<1>1. CASE UNCHANGED <<up, live, rows, work, ran>>
  BY <1>1 DEF RepairInv, Busy, KeyAt
<1>2. ASSUME NEW lost, NEW written, Start(lost, written) PROVE RepairInv'
  BY <1>2, RepairStart
<1>3. CASE Down
  BY <1>3 DEF Down, RepairInv, Busy, Idle
<1>4. ASSUME NEW w \in Workers, Plain(w) PROVE RepairInv'
  BY <1>4, RepairPlain
<1>5. ASSUME NEW w \in Workers, Edit(w) PROVE RepairInv'
  BY <1>5, RepairEdit
<1> QED
  BY <1>1, <1>2, <1>3, <1>4, <1>5 DEF Next, Work, Plain, Receive, Admit, IntervalEnds, Expire, vars, host, traffic

LEMMA RepairInit == Init => RepairInv
<1> SUFFICES ASSUME Init PROVE RepairInv
  OBVIOUS
<1>1. Stored(rows) /\ \A m \in DOMAIN ran : m.text.body \in Seq(Words)
  BY CommandPathAssumption DEF Init
<1>2. \A k \in Keys : Formed(k, live[k])
  <2>1. IsSure(Nobody) BY DEF IsSure, Nobody
  <2>2. IsAliases(<<>>) BY DEF IsAliases
  <2> QED BY <2>1, <2>2 DEF Init, Formed, Built, Access
<1>3. ~up /\ \A w \in Workers : work[w] = Idle
  BY DEF Init
<1> QED BY <1>1, <1>2, <1>3 DEF RepairInv, Busy, Idle

-----------------------------------------------------------------------------
(* The theorems.                                                           *)

THEOREM Invariance == Spec => []IInv
<1>1. Init => IInv
  BY FormInit, OnceInit, SettleInit, RepairInit DEF IInv
<1>2. IInv /\ [Next]_vars => IInv'
  BY FormStep, OnceStep, SettleStep, RepairStep DEF IInv, SettleInv
<1> QED BY <1>1, <1>2, PTL DEF Spec

\* A message runs as a command once, whether the Sure listener or the normal
\* pass runs it, unless the minute SuppressNext gives went by between the two
\* (router.go:204-235): for any number of workers, messages and commands.
THEOREM RunsOnce == Spec => []OncePerMessage
<1>1. IInv => OncePerMessage
  BY DEF IInv, FormInv, TrafficForm, OnceInv, NotYet, OncePerMessage
<1> QED BY <1>1, Invariance, PTL

\* Between two edits of a setting its row, the memory and the router agree,
\* whatever writes failed and whenever the host ended (delegation.go:427-464,
\* core.go:371-407 and 655-678, admin.go:124-157).
THEOREM EditsSettle == Spec => []Settled
<1>1. IInv => Settled
  BY DEF IInv, SettleInv, KeyInv, Agree, Settled
<1> QED BY <1>1, Invariance, PTL

\* Some prefix is left, no alias hides "alias", and one rewriting is enough,
\* after any sequence of edits of the prefixes and aliases of any length
\* (router.go:352-375, 507-573 and 583-605).
THEOREM StaysRepairable == Spec => []Repairable
<1>1. IInv => Repairable
  <2> SUFFICES ASSUME IInv, up PROVE
        /\ ValidMarks(live.prefixes)
        /\ IsAliases(live.aliases) /\ ValidAliases(live.aliases)
    BY Unchained DEF Repairable, ValidMarks
  <2> QED BY DEF IInv, RepairInv, Sound, Keys
<1> QED BY <1>1, Invariance, PTL

LEMMA RevokedStep == ASSUME FormInv, SettleInv, [Next]_vars PROVE
  \A w \in Workers :
       LET m == work[w].m IN
       ran' # ran /\ work'[w] # work[w] /\ ~work[w].forced
       /\ clean["sudo"] /\ (\A v \in Workers : ~Editing(v, "sudo"))
       /\ m.from # "me" /\ m.from \notin Owners => m.from \in Kept("sudo").users
<1> SUFFICES ASSUME NEW w \in Workers, ran' # ran, work'[w] # work[w], ~work[w].forced,
                    clean["sudo"], \A v \in Workers : ~Editing(v, "sudo"),
                    work[w].m.from # "me", work[w].m.from \notin Owners
             PROVE  work[w].m.from \in Kept("sudo").users
  OBVIOUS
<1>1. PICK u \in Workers : Dispatch(u)
  BY DEF Next, Start, Down, Receive, Admit, IntervalEnds, Expire, vars, host, traffic, Quiet,
     Work, Edit, Take, Listen, Suppress, Later, ConsumeSuppressed, Return, Other, Read,
     StoreAccess, Remember, Apply, SetLive, StoreLive, Rollback, Unroute, Reroute
<1>2. up /\ Busy(u) /\ \E at : Goto(u, at) BY <1>1 DEF Dispatch, At, Busy
<1>3. u = w BY <1>2, Going DEF Goes, JobIs, Only
<1>4. IsOwner(work[w].m) BY <1>1, <1>3 DEF Dispatch, Allowed
<1>5. work[w].m.from \in delegates.users BY <1>4 DEF IsOwner
<1>6. Agree("sudo") BY <1>2 DEF SettleInv, KeyInv, Keys
<1> QED BY <1>5, <1>6 DEF Agree, DelegatesOf

\* No command starts for a sender whose delegation is off the stored list,
\* however long ago the message was admitted (router.go:186-192 and 237-268,
\* app.go:448-469).
THEOREM RevocationHolds == Spec => RevokedNeverRuns
<1>1. IInv /\ [Next]_vars =>
        [\A w \in Workers :
           LET m == work[w].m IN
           ran' # ran /\ work'[w] # work[w] /\ ~work[w].forced
           /\ clean["sudo"] /\ (\A v \in Workers : ~Editing(v, "sudo"))
           /\ m.from # "me" /\ m.from \notin Owners => m.from \in Kept("sudo").users]_vars
  BY RevokedStep DEF IInv
<1> QED BY <1>1, Invariance, PTL DEF Spec, RevokedNeverRuns
==============================================================================
