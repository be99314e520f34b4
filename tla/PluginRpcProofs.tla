-------------------------- MODULE PluginRpcProofs --------------------------
(***************************************************************************)
(* Proofs about PluginRpc, for any set of calls, any nesting of them, any  *)
(* pipe capacity and any of the faults.                                    *)
(***************************************************************************)
EXTENDS PluginRpc, TLAPS

\* Peer.close keeps the types of what it changes.
LEMMA CloseTypes ==
  ASSUME TypeOK, NEW p \in Peers, Close(p)
  PROVE  /\ closed' \in [Peers -> BOOLEAN]
         /\ pending' \in [Peers -> SUBSET Calls]
         /\ doomed' \in [Peers -> SUBSET Calls]
<1>1. CASE closed[p]
  BY <1>1 DEF TypeOK, Close
<1>2. CASE ~closed[p]
  <2>1. /\ closed' = [closed EXCEPT ![p] = TRUE]
        /\ doomed' = [doomed EXCEPT ![p] = pending[p]]
        /\ pending' = [pending EXCEPT ![p] = {}]
    BY <1>2 DEF Close
  <2> QED
    BY <2>1 DEF TypeOK
<1> QED
  BY <1>1, <1>2

\* Every step keeps the types: one step of the proof per action.
LEMMA TypeStep == TypeOK /\ [Next]_vars => TypeOK'
<1> USE CallsAssumption, BoundsAssumption
<1> SUFFICES ASSUME TypeOK, [Next]_vars PROVE TypeOK'
  OBVIOUS
<1> USE DEF TypeOK, peerVars, pipeVars, callVars
<1>1. ASSUME NEW c \in Calls, CallStep(c) PROVE TypeOK'
  <2> Caller[c] \in Peers
    OBVIOUS
  <2>1. CASE Register(c)
    <3>1. nextID[Caller[c]] + 1 \in Nat
      OBVIOUS
    <3>2. CASE closed[Caller[c]]
      BY <2>1, <3>1, <3>2 DEF Register
    <3>3. CASE ~closed[Caller[c]]
      <4>1. /\ nextID' = [nextID EXCEPT ![Caller[c]] = @ + 1]
            /\ id' = [id EXCEPT ![c] = nextID[Caller[c]] + 1]
            /\ pc' = [pc EXCEPT ![c] = "registered"]
            /\ pending' = [pending EXCEPT ![Caller[c]] = @ \cup {c}]
            /\ UNCHANGED <<closed, reader, hand, doomed, pipe, open, alive,
                           waiter, outcome, handler>>
        BY <2>1, <3>3 DEF Register
      <4>2. pending' \in [Peers -> SUBSET Calls]
        BY <4>1
      <4> QED
        BY <4>1, <4>2, <3>1
    <3> QED
      BY <3>2, <3>3
  <2>2. CASE BeginRequest(c)
    BY <2>2 DEF BeginRequest, GiveUp
  <2>3. CASE FinishRequest(c)
    <3> DEFINE m == [kind |-> "request", id |-> id[c], of |-> c]
    <3>1. m \in Message
      BY DEF Message
    <3>2. /\ pipe' = [pipe EXCEPT ![Caller[c]] = Append(@, m)]
          /\ Len(pipe[Caller[c]]) < PipeCapacity
      BY <2>3 DEF FinishRequest, HasRoom
    <3> HIDE DEF m
    <3>3. \A p \in Peers : pipe'[p] \in Seq(Message) /\ Len(pipe'[p]) <= PipeCapacity
      BY <3>1, <3>2
    <3>4. pipe' \in [Peers -> Seq(Message)]
      BY <3>2, <3>3
    <3> QED
      BY <2>3, <3>3, <3>4 DEF FinishRequest
  <2>4. CASE FailRequest(c)
    BY <2>4, CloseTypes DEF FailRequest, GiveUp
  <2>5. CASE ReceiveReply(c)
    BY <2>5 DEF ReceiveReply
  <2>6. CASE Expire(c)
    BY <2>6 DEF Expire, GiveUp
  <2>7. CASE SeeDone(c)
    BY <2>7 DEF SeeDone, GiveUp
  <2>8. CASE Leave(c)
    BY <2>8 DEF Leave
  <2> QED
    BY <1>1, <2>1, <2>2, <2>3, <2>4, <2>5, <2>6, <2>7, <2>8 DEF CallStep
<1>2. ASSUME NEW c \in Calls, HandlerStep(c) PROVE TypeOK'
  <2> Callee(c) \in Peers
    BY DEF Callee, Other, Peers
  <2>1. CASE HandlerReturns(c)
    BY <2>1 DEF HandlerReturns
  <2>2. CASE BeginReply(c)
    BY <2>2 DEF BeginReply
  <2>3. CASE FinishReply(c)
    <3> DEFINE m == [kind |-> "response", id |-> id[c], of |-> c]
    <3>1. m \in Message
      BY DEF Message
    <3>2. /\ pipe' = [pipe EXCEPT ![Callee(c)] = Append(@, m)]
          /\ Len(pipe[Callee(c)]) < PipeCapacity
      BY <2>3 DEF FinishReply, HasRoom
    <3> HIDE DEF m
    <3>3. \A p \in Peers : pipe'[p] \in Seq(Message) /\ Len(pipe'[p]) <= PipeCapacity
      BY <3>1, <3>2
    <3>4. pipe' \in [Peers -> Seq(Message)]
      BY <3>2, <3>3
    <3> QED
      BY <2>3, <3>3, <3>4 DEF FinishReply
  <2>4. CASE FailReply(c)
    BY <2>4, CloseTypes DEF FailReply
  <2> QED
    BY <1>2, <2>1, <2>2, <2>3, <2>4 DEF HandlerStep
<1>3. ASSUME NEW p \in Peers, ReadStep(p) \/ FailWaiter(p) PROVE TypeOK'
  <2> Other(p) \in Peers
    BY DEF Other, Peers
  <2> DEFINE m == Head(pipe[Other(p)])
  <2>a. CanRead(p) => m \in Message
    BY DEF CanRead
  <2>b. CanRead(p) /\ Consume(p) =>
          /\ pipe' \in [Peers -> Seq(Message)]
          /\ \A q \in Peers : Len(pipe'[q]) <= PipeCapacity
    BY DEF CanRead, Consume
  <2> HIDE DEF m
  <2>1. CASE ReadRequest(p)
    <3>1. CanRead(p) /\ Consume(p)
      BY <2>1 DEF ReadRequest
    <3>2. handler' \in [Calls -> {"none", "running", "answering", "replying",
                                  "done", "dropped"}]
      BY <2>1, <2>a, <3>1 DEF ReadRequest, Message, m
    <3> QED
      BY <2>1, <2>b, <3>1, <3>2 DEF ReadRequest
  <2>2. CASE ReadResponse(p)
    <3>1. CanRead(p) /\ Consume(p)
      BY <2>2 DEF ReadResponse
    <3>2. m.of \in Calls
      BY <2>a, <3>1 DEF Message
    <3>3. PICK c \in Matches(p, m) :
            /\ pending' = [pending EXCEPT ![p] = @ \ {c}]
            /\ hand' = [hand EXCEPT ![p] = {[to |-> c, of |-> m.of]}]
      BY <2>2 DEF ReadResponse, m
    <3>4. c \in Calls
      BY DEF Matches
    <3>5. pending' \in [Peers -> SUBSET Calls]
      BY <3>3, <3>4
    <3>6. hand' \in [Peers -> SUBSET [to : Calls, of : Calls]]
      BY <3>2, <3>3, <3>4
    <3> QED
      BY <2>2, <2>b, <3>1, <3>5, <3>6 DEF ReadResponse
  <2>3. CASE DropResponse(p)
    BY <2>3, <2>b DEF DropResponse
  <2>4. CASE Deliver(p)
    <3>1. PICK h \in hand[p] :
            /\ waiter' = [waiter EXCEPT ![h.to] =
                            Append(@, [err |-> "none", of |-> h.of])]
            /\ hand' = [hand EXCEPT ![p] = @ \ {h}]
      BY <2>4 DEF Deliver
    <3>2. h.to \in Calls /\ [err |-> "none", of |-> h.of] \in Response
      BY DEF Response
    <3>3. waiter' \in [Calls -> Seq(Response)]
      BY <3>1, <3>2
    <3> QED
      BY <2>4, <3>1, <3>3 DEF Deliver
  <2>5. CASE ReadEnd(p)
    BY <2>5, CloseTypes DEF ReadEnd
  <2>6. CASE FailWaiter(p)
    <3>1. PICK c \in doomed[p] :
            /\ waiter' = [waiter EXCEPT ![c] =
                            Append(@, [err |-> "closed", of |-> c])]
            /\ doomed' = [doomed EXCEPT ![p] = @ \ {c}]
      BY <2>6 DEF FailWaiter
    <3>2. c \in Calls /\ [err |-> "closed", of |-> c] \in Response
      BY DEF Response
    <3>3. waiter' \in [Calls -> Seq(Response)]
      BY <3>1, <3>2
    <3> QED
      BY <2>6, <3>1, <3>3 DEF FailWaiter
  <2> QED
    BY <1>3, <2>1, <2>2, <2>3, <2>4, <2>5, <2>6 DEF ReadStep
<1>4. CASE CloseStdin
  BY <1>4 DEF CloseStdin
<1>5. CASE Exit
  BY <1>5 DEF Exit
<1>6. CASE UNCHANGED vars
  BY <1>6 DEF vars
<1> QED
  BY <1>1, <1>2, <1>3, <1>4, <1>5, <1>6 DEF Next

\* Type correctness: in every state the variables have their types and no pipe
\* holds more than its capacity.
THEOREM TypeCorrect == Spec => []TypeOK
<1>1. Init => TypeOK
  BY BoundsAssumption DEF Init, TypeOK, Peers
<1>2. TypeOK /\ [Next]_vars => TypeOK'
  BY TypeStep
<1> QED
  BY <1>1, <1>2, PTL DEF Spec
-----------------------------------------------------------------------------
(* The inductive invariant.  A part that an action leaves alone is kept by  *)
(* one of the frame lemmas.                                                 *)

\* What is in a pipe is a message.
LEMMA InFlight ==
  ASSUME TypeOK, NEW p \in Peers, NEW i \in 1..Len(pipe[p])
  PROVE  /\ pipe[p][i].of \in Calls /\ pipe[p][i].id \in Nat
         /\ pipe[p][i].kind \in {"request", "response"}
<1>1. pipe[p] \in Seq(Message)
  BY DEF TypeOK
<1>2. pipe[p][i] \in Message
  BY <1>1
<1> QED
  BY <1>2 DEF Message

\* A step that gives no id and begins no call keeps the ids unique.
LEMMA IdsFrame ==
  ASSUME IdsUnique, UNCHANGED <<id, nextID>>,
         \A c \in Calls : pc'[c] # "idle" => pc[c] # "idle"
  PROVE  IdsUnique'
BY DEF IdsUnique

\* A step that leaves the pipes alone keeps their invariant if it neither
\* unsends a call nor changes the id of a sent one, and if no request that may
\* be in flight becomes handled and no answered one becomes unanswered.
LEMMA PipeFrame ==
  ASSUME TypeOK, PipeInv, UNCHANGED pipe,
         \A c \in Calls : Sent(c) => Sent(c)' /\ id'[c] = id[c],
         \A c \in Calls : handler[c] \in {"none", "done"} => handler'[c] = handler[c]
  PROVE  PipeInv'
<1> SUFFICES ASSUME NEW p \in Peers, NEW i \in 1..Len(pipe[p])
             PROVE  LET m == pipe[p][i] IN
                    /\ m.kind = "request" =>
                         Caller[m.of] = p /\ Sent(m.of)' /\ handler'[m.of] = "none"
                    /\ m.kind = "response" =>
                         /\ Callee(m.of) = p /\ Sent(m.of)'
                         /\ m.id = id'[m.of] /\ handler'[m.of] = "done"
  BY DEF PipeInv, Callee
<1>1. pipe[p][i].of \in Calls
  BY InFlight
<1> QED
  BY <1>1 DEF PipeInv

\* What Peer.close does to the waiters, in a state of the invariant.
LEMMA CloseEffect ==
  ASSUME TypeOK, DoomedInv, PendingInv, NEW p \in Peers, Close(p)
  PROVE  /\ closed' \in [Peers -> BOOLEAN] /\ closed'[p]
         /\ \A q \in Peers : closed[q] => closed'[q]
         /\ \A q \in Peers : pending'[q] \cup doomed'[q] = pending[q] \cup doomed[q]
         /\ \A q \in Peers : pending'[q] \subseteq pending[q]
         /\ \A q \in Peers : doomed'[q] \cap pending'[q] = {}
         /\ \A q \in Peers : closed'[q] => pending'[q] = {}
         /\ \A q \in Peers : ~closed'[q] => doomed'[q] = {}
<1>1. CASE closed[p]
  BY <1>1 DEF Close, TypeOK, DoomedInv, PendingInv
<1>2. CASE ~closed[p]
  <2>1. /\ closed' = [closed EXCEPT ![p] = TRUE]
        /\ doomed' = [doomed EXCEPT ![p] = pending[p]]
        /\ pending' = [pending EXCEPT ![p] = {}]
    BY <1>2 DEF Close
  <2>2. doomed[p] = {}
    BY <1>2 DEF DoomedInv
  <2> QED
    BY <2>1, <2>2 DEF TypeOK, DoomedInv, PendingInv
<1> QED
  BY <1>1, <1>2

\* Peer.close keeps the invariants of the waiters.
LEMMA CloseKeeps ==
  ASSUME IInv, NEW p \in Peers, Close(p), UNCHANGED <<hand, waiter, id>>,
         \A c \in Calls : handler[c] = "done" => handler'[c] = "done",
         \A c \in Calls : \/ pc'[c] = pc[c]
                          \/ pc[c] = "encoding" /\ pc'[c] = "leaving"
  PROVE  PendingInv' /\ HandInv' /\ DoomedInv' /\ WaiterInv'
<1> USE CallsAssumption DEF IInv
<1>c. /\ \A q \in Peers : pending'[q] \cup doomed'[q] = pending[q] \cup doomed[q]
      /\ \A q \in Peers : pending'[q] \subseteq pending[q]
      /\ \A q \in Peers : doomed'[q] \cap pending'[q] = {}
      /\ \A q \in Peers : closed'[q] => pending'[q] = {}
      /\ \A q \in Peers : ~closed'[q] => doomed'[q] = {}
  BY CloseEffect
<1>1. PendingInv'
  <2> SUFFICES ASSUME NEW q \in Peers, NEW c \in pending'[q]
               PROVE  /\ Caller[c] = q
                      /\ pc'[c] \in {"registered", "encoding", "waiting", "leaving"}
                      /\ waiter[c] = <<>>
    BY <1>c DEF PendingInv
  <2>1. c \in pending[q] /\ c \in Calls
    BY <1>c DEF TypeOK
  <2>2. Caller[c] = q /\ waiter[c] = <<>>
        /\ pc[c] \in {"registered", "encoding", "waiting", "leaving"}
    BY <2>1 DEF PendingInv
  <2> QED
    BY <2>1, <2>2
<1>2. HandInv'
  <2> SUFFICES ASSUME NEW q \in Peers, NEW h \in hand[q]
               PROVE  /\ h.to \notin pending'[q] /\ h.to \notin doomed'[q]
                      /\ pc'[h.to] # "idle" /\ handler'[h.to] = "done"
    BY DEF HandInv
  <2>1. h.to \in Calls
    BY DEF TypeOK
  <2> QED
    BY <1>c, <2>1 DEF HandInv
<1>3. DoomedInv'
  <2> SUFFICES ASSUME NEW q \in Peers, NEW c \in doomed'[q]
               PROVE  /\ Caller[c] = q /\ c \notin pending'[q]
                      /\ pc'[c] # "idle" /\ waiter[c] = <<>>
    BY <1>c DEF DoomedInv
  <2>1. c \in pending[q] \cup doomed[q] /\ c \in Calls
    BY <1>c DEF TypeOK
  <2> QED
    BY <1>c, <2>1 DEF DoomedInv, PendingInv
<1>4. WaiterInv'
  <2> SUFFICES ASSUME NEW c \in Calls
               PROVE  /\ waiter[c] # <<>> => pc'[c] # "idle"
                      /\ pc'[c] \in {"registered", "encoding", "waiting"} =>
                           \/ c \in pending'[Caller[c]] \cup Taken(Caller[c])'
                           \/ waiter[c] # <<>>
    BY DEF WaiterInv
  <2>1. Caller[c] \in Peers
    OBVIOUS
  <2>2. pc'[c] \in {"registered", "encoding", "waiting"} => pc'[c] = pc[c]
    OBVIOUS
  <2> QED
    BY <1>c, <2>1, <2>2 DEF WaiterInv, Taken
<1> QED
  BY <1>1, <1>2, <1>3, <1>4

\* What is in the pipes after a message was written ...
LEMMA AppendElements ==
  ASSUME TypeOK, NEW p \in Peers, NEW m,
         pipe' = [pipe EXCEPT ![p] = Append(@, m)]
  PROVE  \A q \in Peers : \A i \in 1..Len(pipe'[q]) :
           \/ i \in 1..Len(pipe[q]) /\ pipe'[q][i] = pipe[q][i]
           \/ q = p /\ i = Len(pipe[q]) + 1 /\ pipe'[q][i] = m
<1>1. \A q \in Peers : pipe[q] \in Seq(Message)
  BY DEF TypeOK
<1>2. \A q \in Peers : q # p => pipe'[q] = pipe[q]
  BY DEF TypeOK
<1>3. pipe'[p] = Append(pipe[p], m)
  BY DEF TypeOK
<1> QED
  BY <1>1, <1>2, <1>3

\* ... and after the read loop of p has taken one.
LEMMA TailElements ==
  ASSUME TypeOK, NEW p \in Peers, CanRead(p), Consume(p)
  PROVE  /\ 1 \in 1..Len(pipe[Other(p)])
         /\ Head(pipe[Other(p)]) = pipe[Other(p)][1]
         /\ \A q \in Peers : \A i \in 1..Len(pipe'[q]) :
              \/ q # Other(p) /\ i \in 1..Len(pipe[q]) /\ pipe'[q][i] = pipe[q][i]
              \/ /\ q = Other(p) /\ i \in Nat /\ i + 1 \in 1..Len(pipe[q]) /\ i # 0
                 /\ pipe'[q][i] = pipe[q][i + 1]
<1>1. Other(p) \in Peers
  BY DEF Other, Peers
<1>2. \A q \in Peers : pipe[q] \in Seq(Message)
  BY DEF TypeOK
<1>3. pipe[Other(p)] # <<>>
  BY DEF CanRead
<1>4. pipe' = [pipe EXCEPT ![Other(p)] = Tail(@)]
  BY DEF Consume
<1>5. \A q \in Peers : q # Other(p) => pipe'[q] = pipe[q]
  BY <1>1, <1>4 DEF TypeOK
<1>6. pipe'[Other(p)] = Tail(pipe[Other(p)])
  BY <1>1, <1>4 DEF TypeOK
<1>7. /\ Len(Tail(pipe[Other(p)])) = Len(pipe[Other(p)]) - 1
      /\ \A i \in 1..Len(Tail(pipe[Other(p)])) :
           Tail(pipe[Other(p)])[i] = pipe[Other(p)][i + 1]
      /\ Len(pipe[Other(p)]) \in Nat \ {0}
  BY <1>1, <1>2, <1>3
<1>8. ASSUME NEW i \in 1..Len(pipe'[Other(p)])
      PROVE  /\ i \in Nat /\ i + 1 \in 1..Len(pipe[Other(p)]) /\ i # 0
             /\ pipe'[Other(p)][i] = pipe[Other(p)][i + 1]
  BY <1>6, <1>7
<1> QED
  BY <1>1, <1>2, <1>3, <1>5, <1>7, <1>8

\* Taking a message out of a pipe keeps the invariant of the pipes, if the calls
\* whose messages are still in flight do not change.
LEMMA PipeConsume ==
  ASSUME TypeOK, PipeInv, NEW p \in Peers, CanRead(p), Consume(p),
         UNCHANGED <<pc, id>>,
         LET m == Head(pipe[Other(p)]) IN
           \A c \in Calls : \/ handler'[c] = handler[c]
                            \/ c = m.of /\ m.kind = "request" /\ handler[c] = "none"
  PROVE  PipeInv'
<1> USE TailElements
<1> DEFINE m == Head(pipe[Other(p)])
<1>1. Other(p) \in Peers
  BY DEF Other, Peers
<1>2. ASSUME NEW q \in Peers, NEW i \in 1..Len(pipe'[q])
      PROVE  \E j \in 1..Len(pipe[q]) :
               /\ pipe'[q][i] = pipe[q][j]
               /\ q = Other(p) => j # 1
  BY <1>1
<1>3. ASSUME NEW q \in Peers, NEW i \in 1..Len(pipe'[q])
      PROVE  LET n == pipe'[q][i] IN
             /\ n.kind = "request" =>
                  Caller[n.of] = q /\ pc[n.of] \in SentStates /\ handler'[n.of] = "none"
             /\ n.kind = "response" =>
                  /\ Callee(n.of) = q /\ pc[n.of] \in SentStates
                  /\ n.id = id[n.of] /\ handler'[n.of] = "done"
  <2>1. PICK j \in 1..Len(pipe[q]) :
          /\ pipe'[q][i] = pipe[q][j]
          /\ q = Other(p) => j # 1
    BY <1>2
  <2>2. pipe[q][j].of \in Calls
    BY InFlight
  <2>3. pipe[q][j].kind = "request" /\ m.kind = "request" => pipe[q][j].of # m.of
    <3> SUFFICES ASSUME pipe[q][j].kind = "request", m.kind = "request",
                        pipe[q][j].of = m.of
                 PROVE  FALSE
      OBVIOUS
    <3>1. m = pipe[Other(p)][1] /\ 1 \in 1..Len(pipe[Other(p)])
      OBVIOUS
    <3>2. Caller[m.of] = Other(p) /\ Caller[m.of] = q
      BY <1>1, <3>1 DEF PipeInv
    <3> QED
      BY <2>1, <3>1, <3>2 DEF PipeInv
  <2>4. handler[pipe[q][j].of] = "done" => handler'[pipe[q][j].of] = "done"
    BY <2>2
  <2>5. pipe[q][j].kind = "request" => handler'[pipe[q][j].of] = handler[pipe[q][j].of]
    BY <2>2, <2>3
  <2> QED
    BY <2>1, <2>2, <2>4, <2>5 DEF PipeInv, Sent
<1>4. ASSUME NEW q \in Peers, NEW i \in 1..Len(pipe'[q]), NEW j \in 1..Len(pipe'[q]),
             pipe'[q][i].kind = "request", pipe'[q][j].kind = "request",
             pipe'[q][i].of = pipe'[q][j].of
      PROVE  i = j
  <2>1. CASE q # Other(p)
    BY <1>4, <2>1 DEF PipeInv
  <2>2. CASE q = Other(p)
    <3>1. /\ i + 1 \in 1..Len(pipe[q]) /\ pipe'[q][i] = pipe[q][i + 1]
          /\ j + 1 \in 1..Len(pipe[q]) /\ pipe'[q][j] = pipe[q][j + 1]
          /\ i \in Nat /\ j \in Nat
      BY <2>2
    <3>2. i + 1 = j + 1
      BY <1>4, <3>1 DEF PipeInv
    <3> QED
      BY <3>1, <3>2
  <2> QED
    BY <2>1, <2>2
<1>5. \A q \in Peers : \A i, j \in 1..Len(pipe'[q]) :
        /\ pipe'[q][i].kind = "request" /\ pipe'[q][j].kind = "request"
        /\ pipe'[q][i].of = pipe'[q][j].of
        => i = j
  BY <1>4
<1> QED
  BY <1>3, <1>5 DEF PipeInv, Sent, Callee

\* The steps of a call keep the invariant.
LEMMA CallSteps ==
  ASSUME IInv, TypeOK', NEW c \in Calls, CallStep(c)
  PROVE  IInv'
<1> USE CallsAssumption DEF IInv
<1> Caller[c] \in Peers
  OBVIOUS
<1>1. CASE Register(c)
  <2>1. /\ pc[c] = "idle"
        /\ nextID' = [nextID EXCEPT ![Caller[c]] = @ + 1]
        /\ id' = [id EXCEPT ![c] = nextID[Caller[c]] + 1]
        /\ UNCHANGED <<closed, reader, hand, doomed, pipe, open, alive, waiter,
                       handler>>
    BY <1>1 DEF Register, MayCall, pipeVars
  <2>2. \/ /\ pc' = [pc EXCEPT ![c] = "returned"]
           /\ outcome' = [outcome EXCEPT ![c] = "closed"]
           /\ pending' = pending
        \/ /\ ~closed[Caller[c]]
           /\ pc' = [pc EXCEPT ![c] = "registered"]
           /\ pending' = [pending EXCEPT ![Caller[c]] = @ \cup {c}]
           /\ outcome' = outcome
    BY <1>1 DEF Register
  <2>3. waiter[c] = <<>> /\ handler[c] = "none"
    BY <2>1 DEF WaiterInv, HandlerInv, Sent, SentStates, TypeOK
  <2>4. \A p \in Peers : c \notin pending[p] /\ c \notin doomed[p]
    BY <2>1 DEF PendingInv, DoomedInv
  <2>5. \A p \in Peers : \A h \in hand[p] : h.to # c
    BY <2>1 DEF HandInv
  <2>6. \A d \in Calls : d # c => pc'[d] = pc[d] /\ id'[d] = id[d]
    BY <2>1, <2>2 DEF TypeOK
  <2>7. pc'[c] \in {"returned", "registered"}
    BY <2>2 DEF TypeOK
  <2>8. IdsUnique'
    <3>1. \A d \in Calls : Caller[d] = Caller[c] => id[d] < id'[c]
      BY <2>1 DEF TypeOK, IdsUnique
    <3>2. \A d \in Calls : id'[d] <= nextID'[Caller[d]]
      BY <2>1 DEF TypeOK, IdsUnique
    <3>3. \A d, e \in Calls :
            Caller[d] = Caller[e] /\ id'[d] = id'[e] /\ pc'[d] # "idle" /\ pc'[e] # "idle"
              => d = e
      <4> SUFFICES ASSUME NEW d \in Calls, NEW e \in Calls, Caller[d] = Caller[e],
                          id'[d] = id'[e], pc'[d] # "idle", pc'[e] # "idle", d # e
                   PROVE  FALSE
        OBVIOUS
      <4>1. id \in [Calls -> Nat] /\ id' \in [Calls -> Nat]
        BY DEF TypeOK
      <4>2. d # c /\ e # c
        BY <2>6, <3>1, <4>1
      <4> QED
        BY <2>6, <4>2 DEF IdsUnique
    <3> QED
      BY <3>2, <3>3 DEF IdsUnique
  <2>9. PendingInv'
    <3> SUFFICES ASSUME NEW p \in Peers, NEW d \in pending'[p]
                 PROVE  /\ Caller[d] = p /\ ~closed[p] /\ waiter[d] = <<>>
                        /\ pc'[d] \in {"registered", "encoding", "waiting", "leaving"}
      BY <2>1 DEF PendingInv, TypeOK
    <3>0. d \in Calls /\ pending \in [Peers -> SUBSET Calls]
      BY DEF TypeOK
    <3>1. CASE d \in pending[p]
      BY <2>4, <2>6, <3>0, <3>1 DEF PendingInv
    <3>2. CASE d \notin pending[p]
      <4>1. d = c /\ p = Caller[c] /\ ~closed[p] /\ pc'[c] = "registered"
        <5>1. pending' # pending
          BY <3>2
        <5>2. /\ ~closed[Caller[c]] /\ pending' = [pending EXCEPT ![Caller[c]] = @ \cup {c}]
              /\ pc' = [pc EXCEPT ![c] = "registered"]
          BY <2>2, <5>1
        <5>3. pc'[c] = "registered"
          BY <5>2 DEF TypeOK
        <5>4. p = Caller[c] /\ d = c
          BY <3>0, <3>2, <5>2
        <5> QED
          BY <5>2, <5>3, <5>4
      <4> QED
        BY <2>3, <4>1
    <3> QED
      BY <3>1, <3>2
  <2>10. \A p \in Peers : pending[p] \subseteq pending'[p]
                           /\ pending'[p] \subseteq pending[p] \cup {c}
    <3> pending \in [Peers -> SUBSET Calls]
      BY DEF TypeOK
    <3> QED
      BY <2>2
  <2>11. HandInv'
    BY <2>1, <2>5, <2>6, <2>10 DEF HandInv, TypeOK
  <2>12. DoomedInv'
    BY <2>1, <2>4, <2>6, <2>10 DEF DoomedInv, TypeOK
  <2>13. WaiterInv'
    <3>1. pc'[c] = "registered" => c \in pending'[Caller[c]]
      <4> pending \in [Peers -> SUBSET Calls] /\ pc \in [Calls -> {"idle", "registered",
            "encoding", "waiting", "leaving", "returned"}]
        BY DEF TypeOK
      <4> QED
        BY <2>2
    <3>2. \A d \in Calls : Caller[d] \in Peers
      OBVIOUS
    <3>3. \A p \in Peers : Taken(p)' = Taken(p)
      BY <2>1 DEF Taken
    <3> SUFFICES ASSUME NEW d \in Calls
                 PROVE  /\ waiter[d] # <<>> => pc'[d] # "idle"
                        /\ pc'[d] \in {"registered", "encoding", "waiting"} =>
                             \/ d \in pending'[Caller[d]] \cup Taken(Caller[d])
                             \/ waiter[d] # <<>>
      BY <2>1, <3>2, <3>3 DEF WaiterInv
    <3>4. CASE d = c
      BY <2>3, <2>7, <3>1, <3>4
    <3>5. CASE d # c
      BY <2>6, <2>10, <3>2, <3>5 DEF WaiterInv
    <3> QED
      BY <3>4, <3>5
  <2>14. PipeInv'
    BY <2>1, <2>6, PipeFrame DEF Sent, SentStates
  <2>15. HandlerInv'
    <3>1. \A d \in Calls : outcome'[d] = "reply" => outcome[d] = "reply"
      BY <2>2 DEF TypeOK
    <3>2. \A d \in Calls : pc'[d] = "leaving" => pc[d] = "leaving" /\ d # c
      BY <2>6, <2>7
    <3>3. \A d \in Calls : handler[d] # "none" => d # c
      BY <2>3
    <3> QED
      BY <2>1, <2>6, <3>1, <3>2, <3>3 DEF HandlerInv, Sent, SentStates
  <2> QED
    BY <2>8, <2>9, <2>11, <2>12, <2>13, <2>14, <2>15
<1>2. CASE BeginRequest(c) \/ Expire(c) \/ SeeDone(c)
  <2>1. /\ UNCHANGED <<nextID, closed, pending, reader, hand, doomed, pipe, open,
                       alive, id, waiter, handler>>
        /\ \/ pc[c] = "registered" /\ pc' = [pc EXCEPT ![c] = "encoding"]
              /\ outcome' = outcome
           \/ /\ pc[c] \in {"registered", "waiting"}
              /\ pc' = [pc EXCEPT ![c] = "leaving"]
              /\ \E o \in {"closed", "timeout"} :
                   outcome' = [outcome EXCEPT ![c] = o]
    BY <1>2 DEF BeginRequest, Expire, SeeDone, GiveUp, peerVars, pipeVars
  <2>2. \A d \in Calls : d # c => pc'[d] = pc[d]
    BY <2>1 DEF TypeOK
  <2>3. /\ pc[c] \in {"registered", "waiting"} /\ pc'[c] \in {"encoding", "leaving"}
        /\ pc'[c] = "encoding" => pc[c] = "registered"
    BY <2>1 DEF TypeOK
  <2>4. IdsUnique'
    BY <2>1, <2>2, <2>3, IdsFrame
  <2>5. PendingInv'
    <3>1. \A d \in Calls :
            pc[d] \in {"registered", "encoding", "waiting", "leaving"} =>
              pc'[d] \in {"registered", "encoding", "waiting", "leaving"}
      BY <2>2, <2>3
    <3> QED
      BY <2>1, <3>1 DEF PendingInv, TypeOK
  <2>6. HandInv' /\ DoomedInv'
    <3>1. \A d \in Calls : pc[d] # "idle" => pc'[d] # "idle"
      BY <2>2, <2>3
    <3>2. \A p \in Peers : \A h \in hand[p] : h.to \in Calls
      BY DEF TypeOK
    <3> QED
      BY <2>1, <3>1, <3>2 DEF HandInv, DoomedInv, TypeOK
  <2>7. WaiterInv'
    BY <2>1, <2>2, <2>3 DEF WaiterInv, Taken, TypeOK
  <2>8. PipeInv'
    BY <2>1, <2>2, <2>3, PipeFrame DEF Sent, SentStates
  <2>9. HandlerInv'
    <3>1. \A d \in Calls : outcome'[d] = "reply" => outcome[d] = "reply"
      BY <2>1 DEF TypeOK
    <3>2. pc'[c] = "leaving" => outcome'[c] # "reply"
      BY <2>1, <2>3 DEF TypeOK
    <3>3. \A d \in Calls : d # c => outcome'[d] = outcome[d]
      BY <2>1 DEF TypeOK
    <3> QED
      BY <2>1, <2>2, <2>3, <3>1, <3>2, <3>3 DEF HandlerInv, Sent, SentStates
  <2> QED
    BY <2>4, <2>5, <2>6, <2>7, <2>8, <2>9
<1>3. CASE FinishRequest(c)
  <2> DEFINE p == Caller[c]
             m == [kind |-> "request", id |-> id[c], of |-> c]
  <2>1. /\ pc[c] = "encoding"
        /\ pipe' = [pipe EXCEPT ![p] = Append(@, m)]
        /\ pc' = [pc EXCEPT ![c] = "waiting"]
        /\ UNCHANGED <<nextID, closed, pending, reader, hand, doomed, id, waiter,
                       outcome, handler>>
    BY <1>3 DEF FinishRequest, peerVars
  <2>2. \A d \in Calls : d # c => pc'[d] = pc[d]
    BY <2>1 DEF TypeOK
  <2>3. pc'[c] = "waiting"
    BY <2>1 DEF TypeOK
  <2>4. handler[c] = "none" /\ ~Sent(c)
    BY <2>1 DEF HandlerInv, Sent, SentStates, TypeOK
  <2>5. IdsUnique' /\ PendingInv'
    <3>1. PendingInv'
      BY <2>1, <2>2, <2>3 DEF PendingInv, TypeOK
    <3> QED
      BY <2>1, <2>2, <3>1, IdsFrame
  <2>6. HandInv' /\ DoomedInv'
    <3>1. \A d \in Calls : pc[d] # "idle" => pc'[d] # "idle"
      BY <2>2, <2>3
    <3>2. \A q \in Peers : \A h \in hand[q] : h.to \in Calls
      BY DEF TypeOK
    <3> QED
      BY <2>1, <3>1, <3>2 DEF HandInv, DoomedInv, TypeOK
  <2>7. WaiterInv' /\ HandlerInv'
    <3>1. WaiterInv'
      BY <2>1, <2>2, <2>3 DEF WaiterInv, Taken, TypeOK
    <3>2. HandlerInv'
      BY <2>1, <2>2, <2>3 DEF HandlerInv, Sent, SentStates
    <3> QED
      BY <3>1, <3>2
  <2>8. PipeInv'
    <3>1. \A q \in Peers : \A i \in 1..Len(pipe'[q]) :
            \/ i \in 1..Len(pipe[q]) /\ pipe'[q][i] = pipe[q][i]
            \/ q = p /\ i = Len(pipe[q]) + 1 /\ pipe'[q][i] = m
      BY <2>1, AppendElements
    <3>2. \A d \in Calls : Sent(d) => Sent(d)'
      BY <2>2, <2>3 DEF Sent, SentStates
    <3>3. Sent(c)'
      BY <2>3 DEF Sent, SentStates
    <3>4. \A q \in Peers : \A i \in 1..Len(pipe[q]) :
            pipe[q][i].kind = "request" => pipe[q][i].of # c
      BY <2>4 DEF PipeInv
    <3>5. ASSUME NEW q \in Peers, NEW i \in 1..Len(pipe'[q])
          PROVE  LET n == pipe'[q][i] IN
                 /\ n.kind = "request" =>
                      Caller[n.of] = q /\ pc'[n.of] \in SentStates /\ handler'[n.of] = "none"
                 /\ n.kind = "response" =>
                      /\ Callee(n.of) = q /\ pc'[n.of] \in SentStates
                      /\ n.id = id'[n.of] /\ handler'[n.of] = "done"
      <4>1. CASE i \in 1..Len(pipe[q]) /\ pipe'[q][i] = pipe[q][i]
        <5>1. pipe[q][i].of \in Calls
          BY <4>1, InFlight
        <5> HIDE DEF m
        <5>2. id' = id /\ handler' = handler
          BY <2>1
        <5> QED
          BY <3>2, <4>1, <5>1, <5>2 DEF PipeInv, Sent
      <4>2. CASE q = p /\ pipe'[q][i] = m
        <5>1. handler'[c] = "none"
          BY <2>1, <2>4
        <5> QED
          BY <3>3, <4>2, <5>1 DEF Sent
      <4> QED
        BY <3>1, <4>1, <4>2
    <3>6. ASSUME NEW q \in Peers,
                 NEW i \in 1..Len(pipe'[q]), NEW j \in 1..Len(pipe'[q]),
                 pipe'[q][i].kind = "request", pipe'[q][j].kind = "request",
                 pipe'[q][i].of = pipe'[q][j].of
          PROVE  i = j
      <4> HIDE DEF m
      <4>1. m.of = c
        BY DEF m
      <4> QED
        <5>1. CASE i \in 1..Len(pipe[q]) /\ j \in 1..Len(pipe[q])
          BY <3>1, <3>6, <5>1 DEF PipeInv
        <5>2. CASE i \notin 1..Len(pipe[q]) /\ j \notin 1..Len(pipe[q])
          BY <3>1, <5>2
        <5>3. CASE i \notin 1..Len(pipe[q]) /\ j \in 1..Len(pipe[q])
          BY <3>1, <3>4, <3>6, <4>1, <5>3
        <5>4. CASE i \in 1..Len(pipe[q]) /\ j \notin 1..Len(pipe[q])
          BY <3>1, <3>4, <3>6, <4>1, <5>4
        <5> QED
          BY <5>1, <5>2, <5>3, <5>4
    <3>7. \A q \in Peers : \A i, j \in 1..Len(pipe'[q]) :
            /\ pipe'[q][i].kind = "request" /\ pipe'[q][j].kind = "request"
            /\ pipe'[q][i].of = pipe'[q][j].of
            => i = j
      BY <3>6
    <3> QED
      BY <3>5, <3>7 DEF PipeInv, Callee, Sent
  <2> QED
    BY <2>5, <2>6, <2>7, <2>8
<1>4. CASE FailRequest(c)
  <2>1. /\ pc[c] = "encoding" /\ Close(Caller[c])
        /\ pc' = [pc EXCEPT ![c] = "leaving"]
        /\ outcome' = [outcome EXCEPT ![c] = "write"]
        /\ UNCHANGED <<nextID, reader, hand, pipe, id, waiter, handler>>
    BY <1>4 DEF FailRequest, GiveUp, pipeVars
  <2>2. \A d \in Calls : \/ pc'[d] = pc[d] /\ outcome'[d] = outcome[d]
                         \/ /\ d = c /\ pc[d] = "encoding" /\ pc'[d] = "leaving"
                            /\ outcome'[d] = "write"
    BY <2>1 DEF TypeOK
  <2>3. PendingInv' /\ HandInv' /\ DoomedInv' /\ WaiterInv'
    BY <2>1, <2>2, CloseKeeps
  <2>4. IdsUnique'
    BY <2>1, <2>2, IdsFrame
  <2>5. PipeInv'
    BY <2>1, <2>2, PipeFrame DEF Sent, SentStates
  <2>6. HandlerInv'
    BY <2>1, <2>2 DEF HandlerInv, Sent, SentStates
  <2> QED
    BY <2>3, <2>4, <2>5, <2>6
<1>5. CASE ReceiveReply(c)
  <2>1. /\ pc[c] = "waiting" /\ waiter[c] # <<>>
        /\ waiter' = [waiter EXCEPT ![c] = Tail(@)]
        /\ pc' = [pc EXCEPT ![c] = "returned"]
        /\ outcome' = [outcome EXCEPT ![c] =
                         IF Head(waiter[c]).err = "none" THEN "reply" ELSE "closed"]
        /\ UNCHANGED <<nextID, closed, pending, reader, hand, doomed, pipe, id,
                       handler>>
    BY <1>5 DEF ReceiveReply, peerVars, pipeVars
  <2>2. \A d \in Calls : d # c => pc'[d] = pc[d] /\ waiter'[d] = waiter[d]
                                    /\ outcome'[d] = outcome[d]
    BY <2>1 DEF TypeOK
  <2>3. pc'[c] = "returned" /\ waiter'[c] = <<>>
    <3>1. waiter[c] \in Seq(Response) /\ Len(waiter[c]) <= 1
      BY DEF TypeOK, WaiterInv
    <3>2. Tail(waiter[c]) = <<>>
      BY <2>1, <3>1
    <3> QED
      BY <2>1, <3>2 DEF TypeOK
  <2>4. outcome'[c] = "reply" => handler[c] = "done"
    BY <2>1 DEF TypeOK, WaiterInv
  <2>5. \A p \in Peers : c \notin pending[p] /\ c \notin doomed[p]
    BY <2>1 DEF PendingInv, DoomedInv
  <2>6. IdsUnique' /\ PendingInv'
    <3>1. PendingInv'
      BY <2>1, <2>2, <2>5 DEF PendingInv, TypeOK
    <3> QED
      BY <2>1, <2>2, <3>1, IdsFrame
  <2>7. HandInv' /\ DoomedInv'
    <3>1. \A d \in Calls : /\ pc[d] # "idle" => pc'[d] # "idle"
                           /\ waiter[d] = <<>> => waiter'[d] = <<>>
      BY <2>2, <2>3
    <3>2. \A p \in Peers : \A h \in hand[p] : h.to \in Calls
      BY DEF TypeOK
    <3> QED
      BY <2>1, <3>1, <3>2 DEF HandInv, DoomedInv, TypeOK
  <2>8. WaiterInv'
    BY <2>1, <2>2, <2>3 DEF WaiterInv, Taken, TypeOK
  <2>9. PipeInv'
    BY <2>1, <2>2, <2>3, PipeFrame DEF Sent, SentStates
  <2>10. HandlerInv'
    BY <2>1, <2>2, <2>3, <2>4 DEF HandlerInv, Sent, SentStates
  <2> QED
    BY <2>6, <2>7, <2>8, <2>9, <2>10
<1>6. CASE Leave(c)
  <2>1. /\ pc[c] = "leaving"
        /\ pending' = [pending EXCEPT ![Caller[c]] = @ \ {c}]
        /\ pc' = [pc EXCEPT ![c] = "returned"]
        /\ UNCHANGED <<nextID, closed, reader, hand, doomed, pipe, id, waiter,
                       outcome, handler>>
    BY <1>6 DEF Leave, pipeVars
  <2>2. \A d \in Calls : d # c => pc'[d] = pc[d]
    BY <2>1 DEF TypeOK
  <2>3. pc'[c] = "returned"
    BY <2>1 DEF TypeOK
  <2>4. \A p \in Peers : pending'[p] = pending[p] \ {c}
    BY <2>1 DEF TypeOK, PendingInv
  <2>5. IdsUnique' /\ PendingInv'
    <3>1. PendingInv'
      BY <2>1, <2>2, <2>4 DEF PendingInv, TypeOK
    <3> QED
      BY <2>1, <2>2, <3>1, IdsFrame
  <2>6. HandInv' /\ DoomedInv'
    <3>1. \A d \in Calls : pc[d] # "idle" => pc'[d] # "idle"
      BY <2>2, <2>3
    <3>2. \A p \in Peers : \A h \in hand[p] : h.to \in Calls
      BY DEF TypeOK
    <3> QED
      BY <2>1, <2>4, <3>1, <3>2 DEF HandInv, DoomedInv, TypeOK
  <2>7. WaiterInv'
    BY <2>1, <2>2, <2>3, <2>4 DEF WaiterInv, Taken, TypeOK
  <2>8. PipeInv'
    BY <2>1, <2>2, <2>3, PipeFrame DEF Sent, SentStates
  <2>9. HandlerInv'
    BY <2>1, <2>2, <2>3 DEF HandlerInv, Sent, SentStates
  <2> QED
    BY <2>5, <2>6, <2>7, <2>8, <2>9
<1> QED
  BY <1>1, <1>2, <1>3, <1>4, <1>5, <1>6 DEF CallStep

\* The steps of the goroutines that handle requests keep the invariant.
LEMMA HandlerSteps ==
  ASSUME IInv, TypeOK', NEW c \in Calls, HandlerStep(c)
  PROVE  IInv'
<1> USE CallsAssumption DEF IInv
<1> Callee(c) \in Peers
  BY DEF Callee, Other, Peers
<1>1. ASSUME NEW h \in {"answering", "replying", "dropped"},
             handler[c] \notin {"none", "done"},
             handler' = [handler EXCEPT ![c] = h],
             UNCHANGED <<nextID, pipe, callVars>>
      PROVE  IdsUnique' /\ PipeInv' /\ HandlerInv'
  <2>1. \A d \in Calls : d # c => handler'[d] = handler[d]
    BY <1>1 DEF TypeOK
  <2>2. IdsUnique'
    BY <1>1, IdsFrame DEF callVars
  <2>3. PipeInv'
    BY <1>1, <2>1, PipeFrame DEF callVars, Sent, SentStates
  <2>4. HandlerInv'
    BY <1>1, <2>1 DEF HandlerInv, Sent, SentStates, callVars
  <2> QED
    BY <2>2, <2>3, <2>4
<1>2. CASE HandlerReturns(c) \/ BeginReply(c)
  <2>1. PICK h \in {"answering", "replying", "dropped"} :
          /\ handler[c] \in {"running", "answering"}
          /\ handler' = [handler EXCEPT ![c] = h]
          /\ UNCHANGED <<peerVars, pipe, callVars>>
    BY <1>2 DEF HandlerReturns, BeginReply, pipeVars
  <2>2. \A d \in Calls : handler[d] = "done" => handler'[d] = "done"
    BY <2>1 DEF TypeOK
  <2>3. PendingInv' /\ DoomedInv'
    BY <2>1 DEF PendingInv, DoomedInv, peerVars, callVars
  <2>4. HandInv'
    <3>1. \A p \in Peers : \A g \in hand[p] : g.to \in Calls
      BY DEF TypeOK
    <3> QED
      BY <2>1, <2>2, <3>1 DEF HandInv, peerVars, callVars
  <2>5. WaiterInv'
    BY <2>1, <2>2 DEF WaiterInv, Taken, peerVars, callVars
  <2> QED
    BY <1>1, <2>1, <2>3, <2>4, <2>5 DEF peerVars
<1>3. CASE FailReply(c)
  <2>1. /\ handler[c] = "replying" /\ Close(Callee(c))
        /\ handler' = [handler EXCEPT ![c] = "dropped"]
        /\ UNCHANGED <<nextID, reader, hand, pipe, callVars>>
    BY <1>3 DEF FailReply, pipeVars
  <2>2. \A d \in Calls : handler[d] = "done" => handler'[d] = "done"
    BY <2>1 DEF TypeOK
  <2>3. PendingInv' /\ DoomedInv' /\ HandInv' /\ WaiterInv'
    BY <2>1, <2>2, CloseKeeps DEF callVars
  <2> QED
    BY <1>1, <2>1, <2>3
<1>4. CASE FinishReply(c)
  <2> DEFINE q == Callee(c)
             m == [kind |-> "response", id |-> id[c], of |-> c]
  <2>1. /\ handler[c] = "replying"
        /\ pipe' = [pipe EXCEPT ![q] = Append(@, m)]
        /\ handler' = [handler EXCEPT ![c] = "done"]
        /\ UNCHANGED <<peerVars, callVars>>
    BY <1>4 DEF FinishReply
  <2>2. \A d \in Calls : d # c => handler'[d] = handler[d]
    BY <2>1 DEF TypeOK
  <2>3. handler'[c] = "done"
    BY <2>1 DEF TypeOK
  <2>4. pc[c] \in SentStates
    BY <2>1 DEF HandlerInv, Sent
  <2>5. PendingInv' /\ DoomedInv'
    BY <2>1 DEF PendingInv, DoomedInv, peerVars, callVars
  <2>6. HandInv'
    <3>1. \A p \in Peers : \A g \in hand[p] : g.to \in Calls
      BY DEF TypeOK
    <3> QED
      BY <2>1, <2>2, <2>3, <3>1 DEF HandInv, peerVars, callVars
  <2>7. WaiterInv'
    BY <2>1, <2>2, <2>3 DEF WaiterInv, Taken, peerVars, callVars
  <2>8. IdsUnique'
    BY <2>1, IdsFrame DEF callVars, peerVars
  <2>9. HandlerInv'
    BY <2>1, <2>2, <2>3, <2>4 DEF HandlerInv, Sent, callVars
  <2>10. PipeInv'
    <3>1. \A p \in Peers : \A i \in 1..Len(pipe'[p]) :
            \/ i \in 1..Len(pipe[p]) /\ pipe'[p][i] = pipe[p][i]
            \/ p = q /\ i = Len(pipe[p]) + 1 /\ pipe'[p][i] = m
      BY <2>1, AppendElements
    <3>2. pc' = pc /\ id' = id
      BY <2>1 DEF callVars
    <3>3. ASSUME NEW p \in Peers, NEW i \in 1..Len(pipe'[p])
          PROVE  LET n == pipe'[p][i] IN
                 /\ n.kind = "request" =>
                      /\ Caller[n.of] = p /\ pc[n.of] \in SentStates
                      /\ handler'[n.of] = "none"
                 /\ n.kind = "response" =>
                      /\ Callee(n.of) = p /\ pc[n.of] \in SentStates
                      /\ n.id = id[n.of] /\ handler'[n.of] = "done"
      <4>1. CASE i \in 1..Len(pipe[p]) /\ pipe'[p][i] = pipe[p][i]
        <5>1. pipe[p][i].of \in Calls
          BY <4>1, InFlight
        <5>2. /\ handler[pipe[p][i].of] = "done" => handler'[pipe[p][i].of] = "done"
              /\ handler[pipe[p][i].of] = "none" => handler'[pipe[p][i].of] = "none"
          BY <2>1, <2>2, <2>3, <5>1
        <5> HIDE DEF m
        <5> QED
          BY <4>1, <5>1, <5>2 DEF PipeInv, Sent
      <4>2. CASE p = q /\ pipe'[p][i] = m
        BY <2>3, <2>4, <4>2
      <4> QED
        BY <3>1, <4>1, <4>2
    <3>4. \A p \in Peers : \A i, j \in 1..Len(pipe'[p]) :
            /\ pipe'[p][i].kind = "request" /\ pipe'[p][j].kind = "request"
            /\ pipe'[p][i].of = pipe'[p][j].of
            => i = j
      <4>1. m.kind = "response"
        OBVIOUS
      <4> HIDE DEF m
      <4> QED
        BY <3>1, <4>1 DEF PipeInv
    <3> QED
      BY <3>2, <3>3, <3>4 DEF PipeInv, Sent, Callee
  <2> QED
    BY <2>5, <2>6, <2>7, <2>8, <2>9, <2>10
<1> QED
  BY <1>2, <1>3, <1>4 DEF HandlerStep

\* The steps of the read loop and of Peer.close keep the invariant.
LEMMA ReadSteps ==
  ASSUME IInv, TypeOK', NEW p \in Peers, ReadStep(p) \/ FailWaiter(p)
  PROVE  IInv'
<1> USE CallsAssumption DEF IInv
<1> Other(p) \in Peers
  BY DEF Other, Peers
<1> DEFINE m == Head(pipe[Other(p)])
<1>1. CanRead(p) => /\ m \in Message /\ 1 \in 1..Len(pipe[Other(p)])
                    /\ m = pipe[Other(p)][1]
  <2> HAVE CanRead(p)
  <2>1. pipe[Other(p)] \in Seq(Message) /\ pipe[Other(p)] # <<>>
    BY DEF TypeOK, CanRead
  <2> QED
    BY <2>1
<1> HIDE DEF m
<1>2. CASE ReadRequest(p)
  <2>1. /\ CanRead(p) /\ Consume(p) /\ m.kind = "request"
        /\ handler' = [handler EXCEPT ![m.of] = "running"]
        /\ UNCHANGED <<peerVars, callVars>>
    BY <1>2 DEF ReadRequest, m
  <2>2. m.of \in Calls
    BY <1>1, <2>1 DEF Message
  <2>3. handler[m.of] = "none" /\ Sent(m.of)
    BY <1>1, <2>1 DEF PipeInv
  <2>4. \A d \in Calls : d # m.of => handler'[d] = handler[d]
    BY <2>1, <2>2 DEF TypeOK
  <2>5. \A d \in Calls : handler[d] = "done" => handler'[d] = "done"
    BY <2>3, <2>4
  <2>6. PendingInv' /\ DoomedInv'
    BY <2>1 DEF PendingInv, DoomedInv, peerVars, callVars
  <2>7. HandInv'
    <3>1. \A q \in Peers : \A g \in hand[q] : g.to \in Calls
      BY DEF TypeOK
    <3> QED
      BY <2>1, <2>5, <3>1 DEF HandInv, peerVars, callVars
  <2>8. WaiterInv'
    BY <2>1, <2>5 DEF WaiterInv, Taken, peerVars, callVars
  <2>9. IdsUnique'
    BY <2>1, IdsFrame DEF callVars, peerVars
  <2>10. PipeInv'
    BY <2>1, <2>2, <2>3, <2>4, PipeConsume DEF callVars, m
  <2>11. HandlerInv'
    BY <2>1, <2>3, <2>4, <2>5 DEF HandlerInv, Sent, callVars
  <2> QED
    BY <2>6, <2>7, <2>8, <2>9, <2>10, <2>11
<1>3. CASE ReadResponse(p)
  <2>1. /\ CanRead(p) /\ Consume(p) /\ m.kind = "response"
        /\ UNCHANGED <<nextID, closed, doomed, callVars, handler>>
    BY <1>3 DEF ReadResponse, m
  <2>2. PICK c \in Matches(p, m) :
          /\ pending' = [pending EXCEPT ![p] = @ \ {c}]
          /\ hand' = [hand EXCEPT ![p] = {[to |-> c, of |-> m.of]}]
    BY <1>3 DEF ReadResponse, m
  <2>3. c \in Calls /\ c \in pending[p] /\ id[c] = m.id
    BY DEF Matches, TypeOK
  <2>4. m.of \in Calls
    BY <1>1, <2>1 DEF Message
  <2>5. /\ Callee(m.of) = Other(p) /\ Sent(m.of)
        /\ m.id = id[m.of] /\ handler[m.of] = "done"
    BY <1>1, <2>1 DEF PipeInv
  <2>6. m.of = c
    <3>1. Caller[m.of] = p /\ Caller[c] = p
      BY <2>3, <2>4, <2>5 DEF Callee, Other, Peers, PendingInv
    <3>2. pc[m.of] # "idle" /\ pc[c] # "idle"
      BY <2>3, <2>5 DEF PendingInv, Sent, SentStates
    <3> QED
      BY <2>3, <2>4, <2>5, <3>1, <3>2 DEF IdsUnique
  <2>7. /\ pending'[p] = pending[p] \ {c}
        /\ \A q \in Peers : q # p => pending'[q] = pending[q]
    BY <2>2 DEF TypeOK
  <2>8. /\ hand'[p] = {[to |-> c, of |-> c]}
        /\ \A q \in Peers : q # p => hand'[q] = hand[q]
    BY <2>2, <2>6 DEF TypeOK
  <2>9. hand[p] = {}
    BY <2>1 DEF CanRead
  <2>10. /\ Caller[c] = p /\ pc[c] # "idle" /\ waiter[c] = <<>> /\ c \notin doomed[p]
         /\ \A q \in Peers : q # p => c \notin pending[q]
    BY <2>3 DEF PendingInv, DoomedInv
  <2>11. PendingInv' /\ DoomedInv' /\ IdsUnique'
    <3> \A q \in Peers : pending'[q] \subseteq pending[q]
      BY <2>7
    <3>1. PendingInv'
      BY <2>1 DEF PendingInv, callVars
    <3>2. DoomedInv'
      BY <2>1 DEF DoomedInv, callVars
    <3> QED
      BY <2>1, <3>1, <3>2, IdsFrame DEF callVars
  <2>12. HandInv'
    <3> SUFFICES ASSUME NEW q \in Peers
                 PROVE  /\ \A g, h \in hand'[q] : g = h
                        /\ \A h \in hand'[q] :
                             /\ Caller[h.to] = q /\ h.of = h.to
                             /\ h.to \notin pending'[q] /\ h.to \notin doomed[q]
                             /\ pc[h.to] # "idle" /\ waiter[h.to] = <<>>
                             /\ handler[h.to] = "done"
      BY <2>1 DEF HandInv, callVars
    <3>1. CASE q = p
      <4>1. \A h \in hand'[q] : h = [to |-> c, of |-> c]
        BY <2>8, <3>1
      <4>2. c \notin pending'[q] /\ c \notin doomed[q] /\ handler[c] = "done"
        BY <2>5, <2>6, <2>7, <2>10, <3>1
      <4> QED
        BY <2>10, <3>1, <4>1, <4>2
    <3>2. CASE q # p
      BY <2>7, <2>8, <3>2 DEF HandInv
    <3> QED
      BY <3>1, <3>2
  <2>13. WaiterInv'
    <3>1. \A q \in Peers : Taken(q) \subseteq Taken(q)'
      BY <2>1, <2>8, <2>9 DEF Taken
    <3>2. \A q \in Peers : pending[q] \cup Taken(q) \subseteq (pending[q] \cup Taken(q))'
      <4>1. c \in Taken(p)'
        BY <2>8 DEF Taken
      <4> QED
        BY <2>7, <3>1, <4>1
    <3> QED
      BY <2>1, <3>2 DEF WaiterInv, callVars
  <2>14. PipeInv'
    BY <2>1, PipeConsume DEF callVars
  <2>15. HandlerInv'
    BY <2>1 DEF HandlerInv, Sent, callVars
  <2> QED
    BY <2>11, <2>12, <2>13, <2>14, <2>15
<1>4. CASE DropResponse(p)
  <2>1. /\ CanRead(p) /\ Consume(p)
        /\ UNCHANGED <<peerVars, callVars, handler>>
    BY <1>4 DEF DropResponse
  <2>2. PipeInv'
    BY <2>1, PipeConsume DEF callVars
  <2>3. IdsUnique' /\ PendingInv' /\ DoomedInv'
    BY <2>1 DEF IdsUnique, PendingInv, DoomedInv, peerVars, callVars
  <2>4. HandInv' /\ WaiterInv' /\ HandlerInv'
    BY <2>1 DEF HandInv, WaiterInv, HandlerInv, Taken, Sent, peerVars, callVars
  <2> QED
    BY <2>2, <2>3, <2>4
<1>5. CASE Deliver(p)
  <2>1. PICK h \in hand[p] :
          /\ waiter' = [waiter EXCEPT ![h.to] = Append(@, [err |-> "none", of |-> h.of])]
          /\ hand' = [hand EXCEPT ![p] = @ \ {h}]
          /\ waiter[h.to] = <<>>
    BY <1>5 DEF Deliver
  <2>2. UNCHANGED <<nextID, closed, pending, reader, doomed, pipe, pc, id, outcome,
                    handler>>
    BY <1>5 DEF Deliver, pipeVars
  <2>3. h.to \in Calls /\ h.of = h.to /\ Caller[h.to] = p
    BY DEF TypeOK, HandInv
  <2>4. /\ h.to \notin pending[p] /\ h.to \notin doomed[p]
        /\ pc[h.to] # "idle" /\ handler[h.to] = "done"
    BY DEF HandInv
  <2>5. \A d \in Calls : d # h.to => waiter'[d] = waiter[d]
    BY <2>1, <2>3 DEF TypeOK
  <2>6. waiter'[h.to] = <<[err |-> "none", of |-> h.to]>>
    BY <2>1, <2>3 DEF TypeOK
  <2>7. hand'[p] = {} /\ \A q \in Peers : q # p => hand'[q] = hand[q]
    <3>1. \A g \in hand[p] : g = h
      BY DEF HandInv
    <3> QED
      BY <2>1, <3>1 DEF TypeOK
  <2>8. \A q \in Peers : q # p => h.to \notin pending[q] /\ h.to \notin doomed[q]
    BY <2>3 DEF PendingInv, DoomedInv
  <2>9. \A q \in Peers : q # p => \A g \in hand[q] : g.to # h.to
    BY <2>3 DEF HandInv
  <2>10. PendingInv' /\ IdsUnique' /\ PipeInv' /\ HandlerInv'
    <3>1. PendingInv'
      BY <2>2, <2>4, <2>5, <2>8 DEF PendingInv, TypeOK
    <3>2. IdsUnique' /\ HandlerInv'
      BY <2>2 DEF IdsUnique, HandlerInv, Sent
    <3>3. PipeInv'
      BY <2>2, PipeFrame DEF Sent
    <3> QED
      BY <3>1, <3>2, <3>3
  <2>11. HandInv'
    <3>1. \A q \in Peers : \A g \in hand[q] : g.to \in Calls
      BY DEF TypeOK
    <3> QED
      BY <2>2, <2>5, <2>7, <2>9, <3>1 DEF HandInv
  <2>12. DoomedInv'
    <3>1. \A q \in Peers : \A d \in doomed[q] : d \in Calls /\ d # h.to
      BY <2>4, <2>8 DEF TypeOK
    <3> QED
      BY <2>2, <2>5, <3>1 DEF DoomedInv
  <2>13. WaiterInv'
    <3> SUFFICES ASSUME NEW d \in Calls
                 PROVE  /\ Len(waiter'[d]) <= 1
                        /\ waiter'[d] # <<>> =>
                             /\ pc[d] # "idle"
                             /\ Head(waiter'[d]).of = d
                             /\ Head(waiter'[d]).err = "none" => handler[d] = "done"
                        /\ pc[d] \in {"registered", "encoding", "waiting"} =>
                             \/ d \in pending[Caller[d]] \cup Taken(Caller[d])'
                             \/ waiter'[d] # <<>>
      BY <2>2 DEF WaiterInv
    <3>1. CASE d = h.to
      <4>1. Len(waiter'[d]) = 1 /\ Head(waiter'[d]) = [err |-> "none", of |-> h.to]
        BY <2>6, <3>1
      <4>2. Head(waiter'[d]).of = d /\ waiter'[d] # <<>>
        BY <3>1, <4>1
      <4> QED
        BY <2>4, <3>1, <4>1, <4>2
    <3>2. CASE d # h.to
      <4>1. Caller[d] \in Peers
        OBVIOUS
      <4>2. d \in Taken(Caller[d]) => d \in Taken(Caller[d])'
        BY <2>1, <2>2, <2>7, <3>2, <4>1 DEF Taken, HandInv
      <4> QED
        BY <2>5, <3>2, <4>2 DEF WaiterInv
    <3> QED
      BY <3>1, <3>2
  <2> QED
    BY <2>10, <2>11, <2>12, <2>13
<1>6. CASE ReadEnd(p)
  <2>1. Close(p) /\ UNCHANGED <<nextID, hand, pipe, callVars, handler>>
    BY <1>6 DEF ReadEnd, pipeVars
  <2>2. PendingInv' /\ HandInv' /\ DoomedInv' /\ WaiterInv'
    BY <2>1, CloseKeeps DEF callVars
  <2>3. IdsUnique' /\ HandlerInv'
    BY <2>1 DEF IdsUnique, HandlerInv, Sent, callVars
  <2>4. PipeInv'
    BY <2>1, PipeFrame DEF Sent, callVars
  <2> QED
    BY <2>2, <2>3, <2>4
<1>7. CASE FailWaiter(p)
  <2>1. PICK c \in doomed[p] :
          /\ waiter' = [waiter EXCEPT ![c] = Append(@, [err |-> "closed", of |-> c])]
          /\ doomed' = [doomed EXCEPT ![p] = @ \ {c}]
          /\ waiter[c] = <<>>
    BY <1>7 DEF FailWaiter
  <2>2. UNCHANGED <<nextID, closed, pending, reader, hand, pipe, pc, id, outcome,
                    handler>>
    BY <1>7 DEF FailWaiter, pipeVars
  <2>3. c \in Calls /\ Caller[c] = p /\ c \notin pending[p] /\ pc[c] # "idle"
    BY DEF TypeOK, DoomedInv
  <2>4. \A d \in Calls : d # c => waiter'[d] = waiter[d]
    BY <2>1, <2>3 DEF TypeOK
  <2>5. waiter'[c] = <<[err |-> "closed", of |-> c]>>
    BY <2>1, <2>3 DEF TypeOK
  <2>6. /\ doomed'[p] = doomed[p] \ {c}
        /\ \A q \in Peers : q # p => doomed'[q] = doomed[q]
    BY <2>1 DEF TypeOK
  <2>7. \A q \in Peers : q # p => c \notin pending[q] /\ c \notin doomed[q]
    BY <2>3 DEF PendingInv, DoomedInv
  <2>8. \A q \in Peers : \A g \in hand[q] : g.to \in Calls /\ g.to # c
    BY <2>3 DEF HandInv, TypeOK
  <2>9. PendingInv' /\ IdsUnique' /\ PipeInv' /\ HandlerInv'
    <3>1. PendingInv'
      <4>1. \A q \in Peers : \A d \in pending[q] : d \in Calls /\ d # c
        BY <2>3, <2>7 DEF TypeOK
      <4> QED
        BY <2>2, <2>4, <4>1 DEF PendingInv
    <3>2. IdsUnique' /\ HandlerInv'
      BY <2>2 DEF IdsUnique, HandlerInv, Sent
    <3>3. PipeInv'
      BY <2>2, PipeFrame DEF Sent
    <3> QED
      BY <3>1, <3>2, <3>3
  <2>10. HandInv'
    <3>1. \A q \in Peers : doomed'[q] \subseteq doomed[q]
      BY <2>6
    <3> QED
      BY <2>2, <2>4, <2>8, <3>1 DEF HandInv
  <2>11. DoomedInv'
    <3>1. \A q \in Peers : \A d \in doomed'[q] : d \in Calls /\ d # c /\ d \in doomed[q]
      BY <2>6, <2>7 DEF TypeOK
    <3> QED
      BY <2>2, <2>4, <2>6, <3>1 DEF DoomedInv
  <2>12. WaiterInv'
    <3> SUFFICES ASSUME NEW d \in Calls
                 PROVE  /\ Len(waiter'[d]) <= 1
                        /\ waiter'[d] # <<>> =>
                             /\ pc[d] # "idle"
                             /\ Head(waiter'[d]).of = d
                             /\ Head(waiter'[d]).err = "none" => handler[d] = "done"
                        /\ pc[d] \in {"registered", "encoding", "waiting"} =>
                             \/ d \in pending[Caller[d]] \cup Taken(Caller[d])'
                             \/ waiter'[d] # <<>>
      BY <2>2 DEF WaiterInv
    <3>1. CASE d = c
      <4>1. Len(waiter'[d]) = 1 /\ Head(waiter'[d]) = [err |-> "closed", of |-> c]
        BY <2>5, <3>1
      <4>2. /\ Head(waiter'[d]).of = d /\ Head(waiter'[d]).err # "none"
            /\ waiter'[d] # <<>>
        BY <3>1, <4>1
      <4> QED
        BY <2>3, <3>1, <4>1, <4>2
    <3>2. CASE d # c
      <4>1. Caller[d] \in Peers
        OBVIOUS
      <4>2. d \in Taken(Caller[d]) => d \in Taken(Caller[d])'
        BY <2>2, <2>6, <3>2, <4>1 DEF Taken
      <4> QED
        BY <2>4, <3>2, <4>2 DEF WaiterInv
    <3> QED
      BY <3>1, <3>2
  <2> QED
    BY <2>9, <2>10, <2>11, <2>12
<1> QED
  BY <1>2, <1>3, <1>4, <1>5, <1>6, <1>7 DEF ReadStep

\* The inductive invariant holds in every state.
THEOREM Invariance == Spec => []IInv
<1>1. Init => IInv
  <2> SUFFICES ASSUME Init PROVE IInv
    OBVIOUS
  <2> USE DEF Init
  <2>1. TypeOK
    BY BoundsAssumption DEF TypeOK, Peers
  <2>2. IdsUnique
    BY CallsAssumption DEF IdsUnique
  <2>3. PendingInv /\ HandInv /\ DoomedInv
    BY DEF PendingInv, HandInv, DoomedInv
  <2>4. WaiterInv /\ PipeInv /\ HandlerInv
    BY DEF WaiterInv, PipeInv, HandlerInv
  <2> QED
    BY <2>1, <2>2, <2>3, <2>4 DEF IInv
<1>2. IInv /\ [Next]_vars => IInv'
  <2> SUFFICES ASSUME IInv, [Next]_vars PROVE IInv'
    OBVIOUS
  <2>1. TypeOK'
    BY TypeStep DEF IInv
  <2>2. CASE CloseStdin \/ Exit \/ UNCHANGED vars
    <3>1. UNCHANGED <<peerVars, pipe, callVars, handler>>
      BY <2>2 DEF CloseStdin, Exit, vars, pipeVars
    <3>2. IdsUnique' /\ PendingInv' /\ HandInv' /\ DoomedInv'
      BY <3>1 DEF IInv, IdsUnique, PendingInv, HandInv, DoomedInv, peerVars, callVars
    <3>3. WaiterInv' /\ HandlerInv'
      BY <3>1 DEF IInv, WaiterInv, HandlerInv, Taken, Sent, peerVars, callVars
    <3>4. PipeInv'
      BY <3>1, PipeFrame DEF IInv, Sent, callVars
    <3> QED
      BY <2>1, <3>2, <3>3, <3>4 DEF IInv
  <2> QED
    BY <2>1, <2>2, CallSteps, HandlerSteps, ReadSteps DEF Next
<1> QED
  BY <1>1, <1>2, PTL DEF Spec

\* What the invariant says of the waiters (peer.go:81-125, 170-183, 261-280): the
\* read loop and close() never block on a send, no waiting call is forgotten, the
\* pending table does not leak and every answer goes to its own call.
THEOREM WaitersSafe ==
  Spec => [](SendsNeverBlock /\ NeverForgotten /\ NoStalePending /\ OwnAnswer)
<1>1. IInv => SendsNeverBlock
  BY DEF IInv, SendsNeverBlock, Taken, HandInv, DoomedInv, PendingInv
<1>2. IInv => NeverForgotten
  BY DEF IInv, NeverForgotten, WaiterInv
<1>3. IInv => NoStalePending
  BY DEF IInv, NoStalePending, PendingInv
<1>4. IInv => OwnAnswer
  BY DEF IInv, OwnAnswer, HandInv, WaiterInv
<1> QED
  BY <1>1, <1>2, <1>3, <1>4, Invariance, PTL

\* Each call that is in progress is waited for by an entry, a response on its way or
\* the end of its peer (peer.go:97-125).
THEOREM NothingForgotten == Spec => []NeverForgotten
BY WaitersSafe, PTL

\* The pending table holds calls in progress only (peer.go:113-117).
THEOREM PendingIsCurrent == Spec => []NoStalePending
BY WaitersSafe, PTL

\* Whatever the order of the answers, each goes to the call it answers (peer.go:163-183).
THEOREM AnswersOwnCall == Spec => []OwnAnswer
BY WaitersSafe, PTL

-----------------------------------------------------------------------------
(* PluginRpc implements AtMostOnceCall.                                     *)

\* A step that changes the view of one call only, in one of the five ways the
\* abstract specification allows, is a step of it.
LEMMA AbstractStep ==
  ASSUME NEW c \in Calls,
         \A d \in Calls : d # c => StatusOf(d)' = StatusOf(d) /\ WorkOf(d)' = WorkOf(d),
         \/ StatusOf(c)' = StatusOf(c) /\ WorkOf(c)' = WorkOf(c)
         \/ /\ WorkOf(c)' = WorkOf(c)
            /\ \/ StatusOf(c) = "idle" /\ StatusOf(c)' \in {"active", "failed"}
               \/ StatusOf(c) = "active" /\ WorkOf(c) = "finished" /\ StatusOf(c)' = "ok"
               \/ StatusOf(c) = "active" /\ StatusOf(c)' = "failed"
         \/ /\ StatusOf(c)' = StatusOf(c)
            /\ \/ StatusOf(c) # "idle" /\ WorkOf(c) = "no" /\ WorkOf(c)' = "begun"
               \/ WorkOf(c) = "begun" /\ WorkOf(c)' = "finished"
  PROVE  [A!Next]_(A!vars)
<1>1. /\ Status[c] = StatusOf(c) /\ Work[c] = WorkOf(c)
      /\ Status' = [Status EXCEPT ![c] = StatusOf(c)']
      /\ Work' = [Work EXCEPT ![c] = WorkOf(c)']
  BY DEF Status, Work
<1>2. CASE StatusOf(c)' = StatusOf(c) /\ WorkOf(c)' = WorkOf(c)
  <2>1. Status' = Status /\ Work' = Work
    BY <1>2 DEF Status, Work
  <2> QED
    BY <2>1 DEF A!vars
<1>3. WorkOf(c)' = WorkOf(c) => Work' = Work
  BY DEF Work
<1>4. StatusOf(c)' = StatusOf(c) => Status' = Status
  BY DEF Status
<1>5. CASE WorkOf(c)' = WorkOf(c) /\ StatusOf(c) = "idle"
           /\ StatusOf(c)' \in {"active", "failed"}
  BY <1>1, <1>3, <1>5 DEF A!Next, A!Invoke
<1>6. CASE /\ WorkOf(c)' = WorkOf(c) /\ WorkOf(c) = "finished"
           /\ StatusOf(c) = "active" /\ StatusOf(c)' = "ok"
  BY <1>1, <1>3, <1>6 DEF A!Next, A!Succeed
<1>7. CASE WorkOf(c)' = WorkOf(c) /\ StatusOf(c) = "active" /\ StatusOf(c)' = "failed"
  BY <1>1, <1>3, <1>7 DEF A!Next, A!Fail
<1>8. CASE /\ StatusOf(c)' = StatusOf(c) /\ StatusOf(c) # "idle"
           /\ WorkOf(c) = "no" /\ WorkOf(c)' = "begun"
  BY <1>1, <1>4, <1>8 DEF A!Next, A!Begin
<1>9. CASE StatusOf(c)' = StatusOf(c) /\ WorkOf(c) = "begun" /\ WorkOf(c)' = "finished"
  BY <1>1, <1>4, <1>9 DEF A!Next, A!Finish
<1> QED
  BY <1>2, <1>5, <1>6, <1>7, <1>8, <1>9

\* Every behaviour of the peers, with whatever faults, is one the callers expect:
\* a request handled at most once, success reported only for a handled request.
THEOREM Refinement == Spec => AtMostOnce
<1>1. Init => A!Init
  BY DEF Init, A!Init, Status, Work, StatusOf, WorkOf
<1>2. IInv /\ TypeOK' /\ [Next]_vars => [A!Next]_(A!vars)
  <2> SUFFICES ASSUME IInv, TypeOK', [Next]_vars PROVE [A!Next]_(A!vars)
    OBVIOUS
  <2> USE DEF IInv
  <2>1. ASSUME UNCHANGED <<pc, outcome, handler>> PROVE [A!Next]_(A!vars)
    <3>1. Status' = Status /\ Work' = Work
      BY <2>1 DEF Status, Work, StatusOf, WorkOf
    <3> QED
      BY <3>1 DEF A!vars
  <2>2. ASSUME NEW c \in Calls, CallStep(c) PROVE [A!Next]_(A!vars)
    <3>1. CASE Register(c)
      <4>1. pc[c] = "idle" /\ UNCHANGED handler
        BY <3>1 DEF Register, MayCall
      <4>2. /\ \A d \in Calls : d # c => pc'[d] = pc[d] /\ outcome'[d] = outcome[d]
            /\ \/ pc'[c] = "registered"
               \/ pc'[c] = "returned" /\ outcome'[c] = "closed"
        BY <3>1 DEF Register, TypeOK
      <4>3. StatusOf(c) = "idle" /\ StatusOf(c)' \in {"active", "failed"}
        BY <4>1, <4>2 DEF StatusOf
      <4>4. \A d \in Calls : d # c => StatusOf(d)' = StatusOf(d)
        BY <4>2 DEF StatusOf
      <4>5. \A d \in Calls : WorkOf(d)' = WorkOf(d)
        BY <4>1 DEF WorkOf
      <4> QED
        BY <4>3, <4>4, <4>5, AbstractStep
    <3>2. CASE BeginRequest(c) \/ FinishRequest(c) \/ FailRequest(c) \/ Expire(c)
               \/ SeeDone(c)
      <4>1. pc[c] \in {"registered", "encoding", "waiting"} /\ UNCHANGED handler
        BY <3>2 DEF BeginRequest, FinishRequest, FailRequest, Expire, SeeDone
      <4>2. /\ \A d \in Calls : d # c => pc'[d] = pc[d] /\ outcome'[d] = outcome[d]
            /\ pc'[c] \in {"encoding", "waiting", "leaving"}
        <5>1. CASE \E o \in {"closed", "write", "timeout"} : GiveUp(c, o)
          BY <5>1 DEF GiveUp, TypeOK
        <5>2. CASE /\ \E to \in {"encoding", "waiting"} : pc' = [pc EXCEPT ![c] = to]
                   /\ UNCHANGED outcome
          BY <5>2 DEF TypeOK
        <5>3. CASE BeginRequest(c)
          BY <5>1, <5>2, <5>3 DEF BeginRequest
        <5>4. CASE FinishRequest(c)
          BY <5>2, <5>4 DEF FinishRequest
        <5>5. CASE FailRequest(c) \/ Expire(c) \/ SeeDone(c)
          BY <5>1, <5>5 DEF FailRequest, Expire, SeeDone
        <5> QED
          BY <3>2, <5>3, <5>4, <5>5
      <4>3. \A d \in Calls : StatusOf(d)' = StatusOf(d)
        BY <4>1, <4>2 DEF StatusOf
      <4>4. \A d \in Calls : WorkOf(d)' = WorkOf(d)
        BY <4>1 DEF WorkOf
      <4> QED
        BY <4>3, <4>4, AbstractStep
    <3>3. CASE ReceiveReply(c)
      <4>1. pc[c] = "waiting" /\ waiter[c] # <<>> /\ UNCHANGED handler
        BY <3>3 DEF ReceiveReply
      <4>2. /\ \A d \in Calls : d # c => pc'[d] = pc[d] /\ outcome'[d] = outcome[d]
            /\ pc'[c] = "returned"
            /\ outcome'[c] = IF Head(waiter[c]).err = "none" THEN "reply" ELSE "closed"
        BY <3>3 DEF ReceiveReply, TypeOK
      <4>3. outcome'[c] = "reply" => handler[c] = "done"
        BY <4>1, <4>2 DEF WaiterInv
      <4>4. StatusOf(c) = "active"
        BY <4>1 DEF StatusOf
      <4>5. /\ outcome'[c] = "reply" => StatusOf(c)' = "ok" /\ WorkOf(c) = "finished"
            /\ outcome'[c] # "reply" => StatusOf(c)' = "failed"
        BY <4>2, <4>3 DEF StatusOf, WorkOf
      <4>6. \A d \in Calls : d # c => StatusOf(d)' = StatusOf(d)
        BY <4>2 DEF StatusOf
      <4>7. \A d \in Calls : WorkOf(d)' = WorkOf(d)
        BY <4>1 DEF WorkOf
      <4> QED
        BY <4>4, <4>5, <4>6, <4>7, AbstractStep
    <3>4. CASE Leave(c)
      <4>1. pc[c] = "leaving" /\ outcome[c] # "reply" /\ UNCHANGED <<handler, outcome>>
        BY <3>4 DEF Leave, HandlerInv
      <4>2. pc'[c] = "returned" /\ \A d \in Calls : d # c => pc'[d] = pc[d]
        BY <3>4 DEF Leave, TypeOK
      <4>3. StatusOf(c) = "active" /\ StatusOf(c)' = "failed"
        BY <4>1, <4>2 DEF StatusOf
      <4>4. \A d \in Calls : d # c => StatusOf(d)' = StatusOf(d)
        BY <4>1, <4>2 DEF StatusOf
      <4>5. \A d \in Calls : WorkOf(d)' = WorkOf(d)
        BY <4>1 DEF WorkOf
      <4> QED
        BY <4>3, <4>4, <4>5, AbstractStep
    <3> QED
      BY <2>2, <3>1, <3>2, <3>3, <3>4 DEF CallStep
  <2>3. ASSUME NEW c \in Calls, HandlerStep(c) PROVE [A!Next]_(A!vars)
    <3>1. UNCHANGED <<pc, outcome>>
      BY <2>3 DEF HandlerStep, HandlerReturns, BeginReply, FinishReply, FailReply,
                  callVars
    <3>2. /\ handler[c] # "none"
          /\ \E h \in {"answering", "replying", "done", "dropped"} :
               handler' = [handler EXCEPT ![c] = h]
      <4>1. CASE HandlerReturns(c)
        BY <4>1 DEF HandlerReturns
      <4>2. CASE BeginReply(c)
        BY <4>2 DEF BeginReply
      <4>3. CASE FinishReply(c)
        BY <4>3 DEF FinishReply
      <4>4. CASE FailReply(c)
        BY <4>4 DEF FailReply
      <4> QED
        BY <2>3, <4>1, <4>2, <4>3, <4>4 DEF HandlerStep
    <3>3. DOMAIN handler = Calls
      BY DEF TypeOK
    <3>4. /\ handler[c] # "none"
          /\ handler'[c] \in {"answering", "replying", "done", "dropped"}
          /\ \A d \in Calls : d # c => handler'[d] = handler[d]
      BY <3>2, <3>3
    <3>5. \A d \in Calls : StatusOf(d)' = StatusOf(d)
      BY <3>1 DEF StatusOf
    <3>6. WorkOf(c) \in {"begun", "finished"} /\ WorkOf(c)' = "finished"
      BY <3>4 DEF WorkOf
    <3>7. \A d \in Calls : d # c => WorkOf(d)' = WorkOf(d)
      BY <3>4 DEF WorkOf
    <3> QED
      BY <3>5, <3>6, <3>7, AbstractStep
  <2>4. ASSUME NEW p \in Peers, ReadRequest(p) PROVE [A!Next]_(A!vars)
    <3> DEFINE m == Head(pipe[Other(p)])
    <3>1. /\ CanRead(p) /\ Consume(p) /\ m.kind = "request"
          /\ handler' = [handler EXCEPT ![m.of] = "running"]
          /\ UNCHANGED <<pc, outcome>>
      BY <2>4 DEF ReadRequest, callVars
    <3>2. 1 \in 1..Len(pipe[Other(p)]) /\ m = pipe[Other(p)][1] /\ Other(p) \in Peers
      BY <3>1, TailElements DEF Other, Peers
    <3> HIDE DEF m
    <3>3. m.of \in Calls /\ handler[m.of] = "none" /\ Sent(m.of)
      BY <3>1, <3>2, InFlight DEF PipeInv
    <3>4. /\ handler'[m.of] = "running"
          /\ \A d \in Calls : d # m.of => handler'[d] = handler[d]
      BY <3>1, <3>3 DEF TypeOK
    <3>5. \A d \in Calls : StatusOf(d)' = StatusOf(d)
      BY <3>1 DEF StatusOf
    <3>6. StatusOf(m.of) # "idle"
      BY <3>3 DEF StatusOf, Sent, SentStates
    <3>7. /\ \A d \in Calls : d # m.of => WorkOf(d)' = WorkOf(d)
          /\ WorkOf(m.of) = "no"
      BY <3>3, <3>4 DEF WorkOf
    <3>8. \A d \in Calls : d = m.of => WorkOf(d)' = "begun"
      BY <3>4 DEF WorkOf
    <3>9. PICK c \in Calls : c = m.of
      BY <3>3
    <3> QED
      BY <3>5, <3>6, <3>7, <3>8, <3>9, AbstractStep
  <2>5. ASSUME NEW p \in Peers,
               \/ ReadResponse(p) \/ DropResponse(p) \/ Deliver(p) \/ ReadEnd(p)
               \/ FailWaiter(p)
        PROVE  [A!Next]_(A!vars)
    BY <2>1, <2>5 DEF ReadResponse, DropResponse, Deliver, ReadEnd, FailWaiter, callVars
  <2>6. CASE CloseStdin \/ Exit \/ UNCHANGED vars
    BY <2>1, <2>6 DEF CloseStdin, Exit, vars, callVars
  <2> QED
    BY <2>2, <2>3, <2>4, <2>5, <2>6 DEF Next, ReadStep
<1> QED
  BY <1>1, <1>2, Invariance, TypeCorrect, PTL DEF Spec, AtMostOnce, A!Spec

=============================================================================
