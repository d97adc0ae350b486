------------------------------ MODULE RunCalls ------------------------------
(* What a caller of Session::Run or Session::RunAsync may count on: a call   *)
(* is refused, or it is answered, once and for all, and a successful answer  *)
(* is the result of that very call.                                          *)
CONSTANTS Call

VARIABLES answer   \* of each call: "none", "pending", "failed", or the call
                   \* whose result was handed over

Begin(c) == answer[c] = "none" /\ answer' = [answer EXCEPT ![c] = "pending"]
Refuse(c) == answer[c] = "none" /\ answer' = [answer EXCEPT ![c] = "failed"]
Succeed(c) == answer[c] = "pending" /\ answer' = [answer EXCEPT ![c] = c]
Fail(c) == answer[c] = "pending" /\ answer' = [answer EXCEPT ![c] = "failed"]

Init == answer = [c \in Call |-> "none"]

Next == \E c \in Call : Begin(c) \/ Refuse(c) \/ Succeed(c) \/ Fail(c)

Spec == Init /\ [][Next]_answer
=============================================================================
