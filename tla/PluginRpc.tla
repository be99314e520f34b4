------------------------------ MODULE PluginRpc ------------------------------
(***************************************************************************)
(* internal/pluginrpc: the JSON-RPC peers at the two ends of a plugin      *)
(* process's stdin and stdout.                                             *)
(*                                                                         *)
(* Each end runs one read loop, one goroutine for every call it makes and  *)
(* one goroutine for every request it handles; writes are serialised by a  *)
(* mutex that is held while Encode blocks on a full pipe.  A handler may   *)
(* itself call back through the peer it runs on: that is how a command     *)
(* handler in a plugin reaches Telegram through the host.                  *)
(*                                                                         *)
(* A call is named by a constant.  Caller[c] is the end that makes it,     *)
(* Parent[c] the call whose handler makes it (NoCall: made by the program  *)
(* itself).  The params of a request and the result in a response are      *)
(* abstracted to the call they belong to ("of"), which the code never      *)
(* looks at: it matches a response to a call by its id alone.              *)
(***************************************************************************)
EXTENDS Naturals, Sequences

CONSTANTS
  Calls,         \* the calls that may be made, each at most once
  NoCall,        \* "no call": the parent of a call no handler makes
  Caller,        \* the end that makes each call
  Parent,        \* the call in whose handler each call is made
  PipeCapacity,  \* messages an operating-system pipe holds before it blocks
  Deadlines,     \* the calls whose context has a deadline
  Faults         \* what may go wrong: "garbage", "close", "exit"

Peers == {"host", "plugin"}
Other(p) == IF p = "host" THEN "plugin" ELSE "host"

ASSUME CallsAssumption ==
  /\ NoCall \notin Calls
  /\ Caller \in [Calls -> Peers]
  /\ Parent \in [Calls -> Calls \cup {NoCall}]
  /\ \A c \in Calls : Parent[c] # NoCall => Caller[c] = Other(Caller[Parent[c]])

ASSUME BoundsAssumption ==
  /\ PipeCapacity \in Nat \ {0}
  /\ Deadlines \subseteq Calls
  /\ Faults \subseteq {"garbage", "close", "exit"}

VARIABLES
  nextID,    \* Peer.nextID: the last id given to a call
  closed,    \* Peer.closed, and the closed channel Peer.done
  pending,   \* Peer.pending: the calls whose waiter a response can still find
  reader,    \* whether the read loop still runs
  hand,      \* a response the read loop has matched and not yet sent on
  doomed,    \* waiters that close() took out of pending and has yet to fail
  pipe,      \* the messages in flight from each end
  open,      \* whether the write end of each pipe is open
  alive,     \* whether the plugin process runs
  pc,        \* where each Call stands
  id,        \* the id of each call
  waiter,    \* the buffered channel each call waits on
  outcome,   \* what each Call returned
  handler    \* where the goroutine handling each request stands

peerVars == <<nextID, closed, pending, reader, hand, doomed>>
pipeVars == <<pipe, open, alive>>
callVars == <<pc, id, waiter, outcome>>
vars == <<peerVars, pipeVars, callVars, handler>>

Message == [kind : {"request", "response"}, id : Nat, of : Calls]
Response == [err : {"none", "closed"}, of : Calls]

Init ==
  /\ nextID = [p \in Peers |-> 0]
  /\ closed = [p \in Peers |-> FALSE]
  /\ pending = [p \in Peers |-> {}]
  /\ reader = [p \in Peers |-> TRUE]
  /\ hand = [p \in Peers |-> {}]
  /\ doomed = [p \in Peers |-> {}]
  /\ pipe = [p \in Peers |-> <<>>]
  /\ open = [p \in Peers |-> TRUE]
  /\ alive = TRUE
  /\ pc = [c \in Calls |-> "idle"]
  /\ id = [c \in Calls |-> 0]
  /\ waiter = [c \in Calls |-> <<>>]
  /\ outcome = [c \in Calls |-> "none"]
  /\ handler = [c \in Calls |-> "none"]

-----------------------------------------------------------------------------
(* What the goroutines of one end share.                                   *)

\* The goroutines of an end exist while its process does.
Running(p) == p = "host" \/ alive

\* The end that handles the requests of call c.
Callee(c) == Other(Caller[c])

\* writeMu is held by the one goroutine that is inside Encode.
WriteMuFree(p) ==
  /\ \A c \in Calls : Caller[c] = p => pc[c] # "encoding"
  /\ \A c \in Calls : Callee(c) = p => handler[c] # "replying"

\* A write to the pipe fails once its write end is closed or its reader's
\* process is gone.
Writable(p) == open[p] /\ (p = "host" => alive)

\* Mutant: one message too many fits.
RoomForOneMore(p) == Writable(p) /\ Len(pipe[p]) <= PipeCapacity

HasRoom(p) == Writable(p) /\ Len(pipe[p]) < PipeCapacity

\* Mutant: close() forgets the waiters it drops.
CloseSilently(p) ==
  IF closed[p]
    THEN UNCHANGED <<closed, pending, doomed>>
    ELSE /\ closed' = [closed EXCEPT ![p] = TRUE]
         /\ pending' = [pending EXCEPT ![p] = {}]
         /\ UNCHANGED doomed

\* Peer.close: only the first caller has any effect.  It empties pending and
\* closes done in one critical section and fails the waiters afterwards.
Close(p) ==
  IF closed[p]
    THEN UNCHANGED <<closed, pending, doomed>>
    ELSE /\ closed' = [closed EXCEPT ![p] = TRUE]
         /\ doomed' = [doomed EXCEPT ![p] = pending[p]]
         /\ pending' = [pending EXCEPT ![p] = {}]

-----------------------------------------------------------------------------
(* Peer.Call.                                                              *)

\* A handler can make its calls while it runs.
MayCall(c) ==
  /\ pc[c] = "idle"
  /\ Running(Caller[c])
  /\ Parent[c] # NoCall => handler[Parent[c]] = "running"

\* Mutant: nextID is read, not incremented.
RegisterWithoutAdd(c) ==
  LET p == Caller[c] IN
  /\ MayCall(c) /\ ~closed[p]
  /\ id' = [id EXCEPT ![c] = nextID[p] + 1]
  /\ pc' = [pc EXCEPT ![c] = "registered"]
  /\ pending' = [pending EXCEPT ![p] = @ \cup {c}]
  /\ UNCHANGED <<nextID, outcome, closed, reader, hand, doomed, pipeVars,
                 waiter, handler>>

\* Take the next id and register the waiter, unless the peer is closed.
Register(c) ==
  LET p == Caller[c] IN
  /\ MayCall(c)
  /\ nextID' = [nextID EXCEPT ![p] = @ + 1]
  /\ id' = [id EXCEPT ![c] = nextID[p] + 1]
  /\ IF closed[p]
       THEN /\ pc' = [pc EXCEPT ![c] = "returned"]
            /\ outcome' = [outcome EXCEPT ![c] = "closed"]
            /\ UNCHANGED pending
       ELSE /\ pc' = [pc EXCEPT ![c] = "registered"]
            /\ pending' = [pending EXCEPT ![p] = @ \cup {c}]
            /\ UNCHANGED outcome
  /\ UNCHANGED <<closed, reader, hand, doomed, pipeVars, waiter, handler>>

\* Stop waiting with outcome o; removePending is still to come.
GiveUp(c, o) ==
  /\ pc' = [pc EXCEPT ![c] = "leaving"]
  /\ outcome' = [outcome EXCEPT ![c] = o]

\* write(): lock writeMu and look at closed before encoding.
BeginRequest(c) ==
  /\ pc[c] = "registered" /\ Running(Caller[c])
  /\ WriteMuFree(Caller[c])
  /\ IF closed[Caller[c]]
       THEN GiveUp(c, "closed")
       ELSE /\ pc' = [pc EXCEPT ![c] = "encoding"]
            /\ UNCHANGED outcome
  /\ UNCHANGED <<peerVars, pipeVars, id, waiter, handler>>

\* Encode returns once the pipe has taken the request.
FinishRequest(c) ==
  LET p == Caller[c] IN
  /\ pc[c] = "encoding" /\ Running(p)
  /\ HasRoom(p)
  /\ pipe' = [pipe EXCEPT ![p] =
                Append(@, [kind |-> "request", id |-> id[c], of |-> c])]
  /\ pc' = [pc EXCEPT ![c] = "waiting"]
  /\ UNCHANGED <<peerVars, open, alive, id, waiter, outcome, handler>>

\* Encode fails: the peer is closed and Call returns the write's error.
FailRequest(c) ==
  LET p == Caller[c] IN
  /\ pc[c] = "encoding" /\ Running(p)
  /\ ~Writable(p)
  /\ Close(p)
  /\ GiveUp(c, "write")
  /\ UNCHANGED <<nextID, reader, hand, pipeVars, id, waiter, handler>>

\* The three cases of Call's select.
ReceiveReply(c) ==
  /\ pc[c] = "waiting" /\ Running(Caller[c])
  /\ waiter[c] # <<>>
  /\ waiter' = [waiter EXCEPT ![c] = Tail(@)]
  /\ pc' = [pc EXCEPT ![c] = "returned"]
  /\ outcome' = [outcome EXCEPT ![c] =
                   IF Head(waiter[c]).err = "none" THEN "reply" ELSE "closed"]
  /\ UNCHANGED <<peerVars, pipeVars, id, handler>>

\* Mutant: the request is sent again when the deadline passes.
ExpireAndRetry(c) ==
  /\ pc[c] = "waiting" /\ Running(Caller[c])
  /\ c \in Deadlines
  /\ pc' = [pc EXCEPT ![c] = "registered"]
  /\ UNCHANGED <<peerVars, pipeVars, id, waiter, outcome, handler>>

Expire(c) ==
  /\ pc[c] = "waiting" /\ Running(Caller[c])
  /\ c \in Deadlines
  /\ GiveUp(c, "timeout")
  /\ UNCHANGED <<peerVars, pipeVars, id, waiter, handler>>

SeeDone(c) ==
  /\ pc[c] = "waiting" /\ Running(Caller[c])
  /\ closed[Caller[c]]
  /\ GiveUp(c, "closed")
  /\ UNCHANGED <<peerVars, pipeVars, id, waiter, handler>>

\* Mutant: Call returns without removePending.
LeaveWithoutRemoving(c) ==
  /\ pc[c] = "leaving" /\ Running(Caller[c])
  /\ pc' = [pc EXCEPT ![c] = "returned"]
  /\ UNCHANGED <<peerVars, pipeVars, id, waiter, outcome, handler>>

\* removePending, and return.
Leave(c) ==
  /\ pc[c] = "leaving" /\ Running(Caller[c])
  /\ pending' = [pending EXCEPT ![Caller[c]] = @ \ {c}]
  /\ pc' = [pc EXCEPT ![c] = "returned"]
  /\ UNCHANGED <<nextID, closed, reader, hand, doomed, pipeVars,
                 id, waiter, outcome, handler>>

-----------------------------------------------------------------------------
(* Peer.readLoop.                                                          *)

\* Mutant: requests are handled on the read loop's own goroutine.
CanReadBetweenRequests(p) ==
  /\ Running(p) /\ reader[p] /\ hand[p] = {}
  /\ pipe[Other(p)] # <<>>
  /\ \A c \in Calls : Callee(c) = p => handler[c] \in {"none", "done", "dropped"}

\* The read loop is at Decode and a message is there for it.
CanRead(p) ==
  /\ Running(p) /\ reader[p] /\ hand[p] = {}
  /\ pipe[Other(p)] # <<>>

Consume(p) == pipe' = [pipe EXCEPT ![Other(p)] = Tail(@)]

\* A request starts a goroutine of its own, also on a peer that is closed.
ReadRequest(p) ==
  /\ CanRead(p)
  /\ LET m == Head(pipe[Other(p)]) IN
       /\ m.kind = "request"
       /\ handler' = [handler EXCEPT ![m.of] = "running"]
  /\ Consume(p)
  /\ UNCHANGED <<peerVars, open, alive, callVars>>

\* The calls a response's id finds in pending.
Matches(p, m) == {c \in pending[p] : id[c] = m.id}

\* Mutant: the waiter stays in pending.
ReadResponseAndKeep(p) ==
  /\ CanRead(p)
  /\ LET m == Head(pipe[Other(p)]) IN
       /\ m.kind = "response"
       /\ \E c \in Matches(p, m) :
            hand' = [hand EXCEPT ![p] = {[to |-> c, of |-> m.of]}]
  /\ Consume(p)
  /\ UNCHANGED <<nextID, closed, pending, reader, doomed, open, alive, callVars,
                 handler>>

\* A response takes the waiter of its id out of pending ...
ReadResponse(p) ==
  /\ CanRead(p)
  /\ LET m == Head(pipe[Other(p)]) IN
       /\ m.kind = "response"
       /\ \E c \in Matches(p, m) :
            /\ pending' = [pending EXCEPT ![p] = @ \ {c}]
            /\ hand' = [hand EXCEPT ![p] = {[to |-> c, of |-> m.of]}]
  /\ Consume(p)
  /\ UNCHANGED <<nextID, closed, reader, doomed, open, alive, callVars, handler>>

\* ... or is dropped, when the call has given up.
DropResponse(p) ==
  /\ CanRead(p)
  /\ LET m == Head(pipe[Other(p)]) IN
       m.kind = "response" /\ Matches(p, m) = {}
  /\ Consume(p)
  /\ UNCHANGED <<peerVars, open, alive, callVars, handler>>

\* The send on the waiter happens outside the lock; it blocks the read loop
\* while the channel's one slot is taken.
Deliver(p) ==
  /\ Running(p)
  /\ \E h \in hand[p] :
       /\ waiter[h.to] = <<>>
       /\ waiter' = [waiter EXCEPT ![h.to] =
                       Append(@, [err |-> "none", of |-> h.of])]
       /\ hand' = [hand EXCEPT ![p] = @ \ {h}]
  /\ UNCHANGED <<nextID, closed, pending, reader, doomed, pipeVars,
                 pc, id, outcome, handler>>

\* Mutant: the read loop ends without closing the peer.
ReadEndWithoutClose(p) ==
  /\ Running(p) /\ reader[p] /\ hand[p] = {}
  /\ \/ ~open[Other(p)] /\ pipe[Other(p)] = <<>>
     \/ p = "host" /\ ~alive
  /\ reader' = [reader EXCEPT ![p] = FALSE]
  /\ UNCHANGED <<nextID, closed, pending, doomed, hand, pipeVars, callVars,
                 handler>>

\* Decode fails: at the end of the stream, ...
ReadEnd(p) ==
  /\ Running(p) /\ reader[p] /\ hand[p] = {}
  /\ \/ ~open[Other(p)] /\ pipe[Other(p)] = <<>>
     \* ... because Wait closed the pipe when the process exited, unread
     \* messages included, ...
     \/ p = "host" /\ ~alive
     \* ... or because the plugin wrote something else to its stdout.
     \/ p = "host" /\ "garbage" \in Faults
  /\ reader' = [reader EXCEPT ![p] = FALSE]
  /\ Close(p)
  /\ UNCHANGED <<nextID, hand, pipeVars, callVars, handler>>

\* The rest of Peer.close: fail one of the waiters it took.
FailWaiter(p) ==
  /\ Running(p)
  /\ \E c \in doomed[p] :
       /\ waiter[c] = <<>>
       /\ waiter' = [waiter EXCEPT ![c] = Append(@, [err |-> "closed", of |-> c])]
       /\ doomed' = [doomed EXCEPT ![p] = @ \ {c}]
  /\ UNCHANGED <<nextID, closed, pending, reader, hand, pipeVars,
                 pc, id, outcome, handler>>

-----------------------------------------------------------------------------
(* Peer.handleRequest.                                                     *)

\* The handler returns when the calls it made have returned.
HandlerReturns(c) ==
  /\ handler[c] = "running" /\ Running(Callee(c))
  /\ \A d \in Calls : Parent[d] = c => pc[d] \in {"idle", "returned"}
  /\ handler' = [handler EXCEPT ![c] = "answering"]
  /\ UNCHANGED <<peerVars, pipeVars, callVars>>

BeginReply(c) ==
  /\ handler[c] = "answering" /\ Running(Callee(c))
  /\ WriteMuFree(Callee(c))
  /\ handler' = [handler EXCEPT ![c] =
                   IF closed[Callee(c)] THEN "dropped" ELSE "replying"]
  /\ UNCHANGED <<peerVars, pipeVars, callVars>>

FinishReply(c) ==
  LET q == Callee(c) IN
  /\ handler[c] = "replying" /\ Running(q)
  /\ HasRoom(q)
  /\ pipe' = [pipe EXCEPT ![q] =
                Append(@, [kind |-> "response", id |-> id[c], of |-> c])]
  /\ handler' = [handler EXCEPT ![c] = "done"]
  /\ UNCHANGED <<peerVars, open, alive, callVars>>

FailReply(c) ==
  LET q == Callee(c) IN
  /\ handler[c] = "replying" /\ Running(q)
  /\ ~Writable(q)
  /\ Close(q)
  /\ handler' = [handler EXCEPT ![c] = "dropped"]
  /\ UNCHANGED <<nextID, reader, hand, pipeVars, callVars>>

-----------------------------------------------------------------------------
(* The process around the peers (internal/pluginexternal).                 *)

\* The host closes the plugin's stdin.
CloseStdin ==
  /\ "close" \in Faults
  /\ open["host"]
  /\ open' = [open EXCEPT !["host"] = FALSE]
  /\ UNCHANGED <<peerVars, pipe, alive, callVars, handler>>

\* The plugin process ends: it crashes or is killed ("exit"), or Run returns
\* because its peer is done.
Exit ==
  /\ alive
  /\ "exit" \in Faults \/ closed["plugin"]
  /\ alive' = FALSE
  /\ open' = [open EXCEPT !["plugin"] = FALSE]
  /\ UNCHANGED <<peerVars, pipe, callVars, handler>>

CallStep(c) ==
  \/ Register(c) \/ BeginRequest(c) \/ FinishRequest(c) \/ FailRequest(c)
  \/ ReceiveReply(c) \/ Expire(c) \/ SeeDone(c) \/ Leave(c)

HandlerStep(c) ==
  HandlerReturns(c) \/ BeginReply(c) \/ FinishReply(c) \/ FailReply(c)

ReadStep(p) ==
  \/ ReadRequest(p) \/ ReadResponse(p) \/ DropResponse(p) \/ Deliver(p)
  \/ ReadEnd(p)

Next ==
  \/ \E c \in Calls : CallStep(c) \/ HandlerStep(c)
  \/ \E p \in Peers : ReadStep(p) \/ FailWaiter(p)
  \/ CloseStdin
  \/ Exit

\* A goroutine that can go on does so: the steps of a call it has begun, of a
\* handler and of the read loop.  The mutex is handed over in arrival order
\* (sync.Mutex's starvation mode), hence the strong fairness of the steps that
\* lock it.  Nothing forces a call to be made, a deadline to pass, the host to
\* close stdin or the process to crash; a plugin whose peer is done does exit.
Proceeds(c) ==
  \/ FinishRequest(c) \/ FailRequest(c)
  \/ ReceiveReply(c) \/ SeeDone(c) \/ Leave(c)
Answers(c) == HandlerReturns(c) \/ FinishReply(c) \/ FailReply(c)
Reads(p) ==
  \/ ReadRequest(p) \/ ReadResponse(p) \/ DropResponse(p) \/ Deliver(p)
  \/ (open[Other(p)] = FALSE /\ ReadEnd(p))

Fairness ==
  /\ \A c \in Calls : WF_vars(Proceeds(c)) /\ WF_vars(Answers(c))
  /\ \A c \in Calls : SF_vars(BeginRequest(c)) /\ SF_vars(BeginReply(c))
  /\ \A p \in Peers : WF_vars(Reads(p)) /\ WF_vars(FailWaiter(p))
  /\ WF_vars(closed["plugin"] /\ Exit)

Spec == Init /\ [][Next]_vars
FairSpec == Spec /\ Fairness

-----------------------------------------------------------------------------
(* Properties.                                                             *)

TypeOK ==
  /\ nextID \in [Peers -> Nat]
  /\ closed \in [Peers -> BOOLEAN]
  /\ pending \in [Peers -> SUBSET Calls]
  /\ reader \in [Peers -> BOOLEAN]
  /\ hand \in [Peers -> SUBSET [to : Calls, of : Calls]]
  /\ doomed \in [Peers -> SUBSET Calls]
  /\ pipe \in [Peers -> Seq(Message)]
  /\ \A p \in Peers : Len(pipe[p]) <= PipeCapacity
  /\ open \in [Peers -> BOOLEAN]
  /\ alive \in BOOLEAN
  /\ pc \in [Calls -> {"idle", "registered", "encoding", "waiting", "leaving",
                       "returned"}]
  /\ id \in [Calls -> Nat]
  /\ waiter \in [Calls -> Seq(Response)]
  /\ outcome \in [Calls -> {"none", "reply", "closed", "write", "timeout"}]
  /\ handler \in [Calls -> {"none", "running", "answering", "replying", "done",
                            "dropped"}]

\* The calls whose waiter the read loop or close() has taken and will send to.
Taken(p) == doomed[p] \cup {h.to : h \in hand[p]}

\* The waiter channel has one slot and nobody may read it any more (the call
\* timed out), so a second send would block the read loop, and with it every
\* other call of the plugin, for ever (peer.go:81, 179-183, 277-279).  No
\* waiter that is about to be sent to holds a response, is still in pending,
\* or is in the hands of both the read loop and close().
SendsNeverBlock ==
  \A p \in Peers :
    /\ \A c \in Taken(p) : waiter[c] = <<>> /\ c \notin pending[p]
    /\ \A c \in doomed[p] : \A h \in hand[p] : h.to # c
    /\ \A c \in pending[p] : waiter[c] = <<>>

\* A call that waits is never forgotten: its waiter is in pending, on its way
\* to a response, or holds one, whatever closed or timed out in between
\* (peer.go:100-125).
NeverForgotten ==
  \A c \in Calls : pc[c] = "waiting" =>
    c \in pending[Caller[c]] \cup Taken(Caller[c]) \/ waiter[c] # <<>>

\* The pending table does not leak: it holds only calls that have not returned,
\* and none once the peer is closed, so no call registers after close() has
\* taken the table and waits for an answer nobody will send (peer.go:83-93).
NoStalePending ==
  \A p \in Peers :
    /\ \A c \in pending[p] : Caller[c] = p /\ pc[c] \notin {"idle", "returned"}
    /\ closed[p] => pending[p] = {}

\* A call gets its own answer although both ends number their calls from 1 and
\* handlers answer in any order: what is sent to a waiter belongs to its call.
OwnAnswer ==
  /\ \A p \in Peers : \A h \in hand[p] : h.of = h.to
  /\ \A c \in Calls : waiter[c] # <<>> => Head(waiter[c]).of = c

\* What callers rely on (AtMostOnceCall): a request is handled at most once and
\* only if its call was made, and a call returns a reply only if its own handler
\* has run to its end; the answer of a call that timed out is lost, not given to
\* another one.
StatusOf(c) ==
  CASE pc[c] = "idle" -> "idle"
    [] pc[c] = "returned" /\ outcome[c] = "reply" -> "ok"
    [] pc[c] = "returned" /\ outcome[c] # "reply" -> "failed"
    [] OTHER -> "active"
WorkOf(c) ==
  CASE handler[c] = "none" -> "no"
    [] handler[c] = "running" -> "begun"
    [] OTHER -> "finished"

Status == [c \in Calls |-> StatusOf(c)]
Work == [c \in Calls |-> WorkOf(c)]

A == INSTANCE AtMostOnceCall WITH status <- Status, work <- Work

AtMostOnce == A!Spec

\* Every call the host makes returns, with an answer or an error, whatever the
\* plugin does except hang inside a handler (no deadline is needed).
HostCallsReturn ==
  \A c \in Calls : Caller[c] = "host" =>
    (pc[c] = "registered" ~> pc[c] = "returned")

\* Every call of either end returns as long as the process runs and the host
\* listens to it: no cycle of nested calls over pipes that are full.
AllCallsReturn ==
  \A c \in Calls :
    pc[c] = "registered" ~> (pc[c] = "returned" \/ ~alive \/ closed["host"])

-----------------------------------------------------------------------------
(* The inductive invariant behind the safety properties.                   *)

\* Two calls of one end that have begun have different ids.
IdsUnique ==
  /\ \A c \in Calls : id[c] <= nextID[Caller[c]]
  /\ \A c, d \in Calls :
       Caller[c] = Caller[d] /\ id[c] = id[d] /\ pc[c] # "idle" /\ pc[d] # "idle"
         => c = d

\* Who holds a waiter, and what it may hold.
PendingInv ==
  \A p \in Peers :
    /\ \A c \in pending[p] :
         /\ Caller[c] = p
         /\ pc[c] \in {"registered", "encoding", "waiting", "leaving"}
         /\ waiter[c] = <<>>
    /\ closed[p] => pending[p] = {}

HandInv ==
  \A p \in Peers :
    /\ \A g, h \in hand[p] : g = h
    /\ \A h \in hand[p] :
         /\ Caller[h.to] = p /\ h.of = h.to
         /\ h.to \notin pending[p] /\ h.to \notin doomed[p]
         /\ pc[h.to] # "idle" /\ waiter[h.to] = <<>> /\ handler[h.to] = "done"

DoomedInv ==
  \A p \in Peers :
    /\ \A c \in doomed[p] :
         /\ Caller[c] = p /\ c \notin pending[p]
         /\ pc[c] # "idle" /\ waiter[c] = <<>>
    /\ ~closed[p] => doomed[p] = {}

WaiterInv ==
  \A c \in Calls :
    /\ Len(waiter[c]) <= 1
    /\ waiter[c] # <<>> =>
         /\ pc[c] # "idle"
         /\ Head(waiter[c]).of = c
         /\ Head(waiter[c]).err = "none" => handler[c] = "done"
    /\ pc[c] \in {"registered", "encoding", "waiting"} =>
         c \in pending[Caller[c]] \cup Taken(Caller[c]) \/ waiter[c] # <<>>

\* A request in flight is of a call that was sent and not yet handled, and is
\* the only one of that call; a response carries the id of a handled call.
SentStates == {"waiting", "leaving", "returned"}
Sent(c) == pc[c] \in SentStates

PipeInv ==
  \A p \in Peers :
    /\ \A i \in 1..Len(pipe[p]) :
         LET m == pipe[p][i] IN
         /\ m.kind = "request" =>
              Caller[m.of] = p /\ Sent(m.of) /\ handler[m.of] = "none"
         /\ m.kind = "response" =>
              /\ Callee(m.of) = p /\ Sent(m.of)
              /\ m.id = id[m.of] /\ handler[m.of] = "done"
    /\ \A i, j \in 1..Len(pipe[p]) :
         /\ pipe[p][i].kind = "request" /\ pipe[p][j].kind = "request"
         /\ pipe[p][i].of = pipe[p][j].of
         => i = j

HandlerInv ==
  \A c \in Calls :
    /\ handler[c] # "none" => Sent(c)
    /\ outcome[c] = "reply" => handler[c] = "done"
    /\ pc[c] = "leaving" => outcome[c] # "reply"

IInv ==
  /\ TypeOK
  /\ IdsUnique /\ PendingInv /\ HandInv /\ DoomedInv
  /\ WaiterInv /\ PipeInv /\ HandlerInv
=============================================================================
