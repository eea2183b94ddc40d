--------------------------- MODULE ShadowReports ---------------------------
(***************************************************************************)
(* What the shadow client of the AWS IoT SDK promises to the program that  *)
(* calls aws_iot_shadow_update, _get or _delete with a callback            *)
(* (aws_iot_shadow_interface.h): a call fails, or its callback is invoked  *)
(* exactly once, with the answer of the service or with a timeout.         *)
(***************************************************************************)
CONSTANTS Reports      \* the calls the program makes

VARIABLE state         \* state[r]: how far report r has come

Answers == {"ACCEPTED", "REJECTED", "TIMEOUT"}

Init == state = [r \in Reports |-> "unused"]

Move(r, from, to) == state[r] = from /\ state' = [state EXCEPT ![r] = to]

Call(r)    == Move(r, "unused", "calling")
Fail(r)    == Move(r, "calling", "failed")
Succeed(r) == Move(r, "calling", "waiting")
Answer(r)  == \E a \in Answers : Move(r, "waiting", a)

Next == \E r \in Reports : Call(r) \/ Fail(r) \/ Succeed(r) \/ Answer(r)

Spec == Init /\ [][Next]_state
=============================================================================
