--------------------------- MODULE AtMostOnceCall ---------------------------
(***************************************************************************)
(* What a plugin RPC call promises its caller, whatever happens to pipes,  *)
(* peers and processes: a request is carried out at most once and only     *)
(* after the call was made; success is reported only after it was carried  *)
(* out to its end; a call that fails says nothing about the request, which *)
(* may still be carried out later.                                         *)
(***************************************************************************)
CONSTANT Calls

VARIABLES
  status,   \* what the caller knows: "idle", "active", "ok" or "failed"
  work      \* what the callee has done: "no", "begun" or "finished"

vars == <<status, work>>

Init ==
  /\ status = [c \in Calls |-> "idle"]
  /\ work = [c \in Calls |-> "no"]

Invoke(c) ==
  /\ status[c] = "idle"
  /\ \E s \in {"active", "failed"} : status' = [status EXCEPT ![c] = s]
  /\ UNCHANGED work

Begin(c) ==
  /\ status[c] # "idle" /\ work[c] = "no"
  /\ work' = [work EXCEPT ![c] = "begun"]
  /\ UNCHANGED status

Finish(c) ==
  /\ work[c] = "begun"
  /\ work' = [work EXCEPT ![c] = "finished"]
  /\ UNCHANGED status

Succeed(c) ==
  /\ status[c] = "active" /\ work[c] = "finished"
  /\ status' = [status EXCEPT ![c] = "ok"]
  /\ UNCHANGED work

Fail(c) ==
  /\ status[c] = "active"
  /\ status' = [status EXCEPT ![c] = "failed"]
  /\ UNCHANGED work

Next == \E c \in Calls : Invoke(c) \/ Begin(c) \/ Finish(c) \/ Succeed(c) \/ Fail(c)

Spec == Init /\ [][Next]_vars
=============================================================================
