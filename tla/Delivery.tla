------------------------------ MODULE Delivery ------------------------------
(***************************************************************************)
(* What a streamed chat completion promises its client, whatever lies      *)
(* between the model thread and the client: the chunks of the answer, in   *)
(* order and without gaps, as far as the generation has come; an error at  *)
(* most instead of the rest of it; and [DONE] only at the end of an answer *)
(* that was completed and shown in full.                                   *)
(***************************************************************************)
EXTENDS Integers, Sequences

VARIABLES generated,  \* text deltas of the generation so far
          outcome,    \* "none", or what it ended with: "text", "calls", "error"
          shown       \* what the client has received

Text(i) == <<"text", i>>
Role == <<"role", 0>>
ToolCalls == <<"tool_calls", 0>>
Finish == <<"finish", 0>>
Error == <<"error", 0>>
Done == <<"[DONE]", 0>>

Init == generated = 0 /\ outcome = "none" /\ shown = <<>>

(* The chunks of the answer, as far as they can be known.                  *)
Closing == IF outcome = "text" THEN <<Finish, Done>>
           ELSE IF outcome = "calls" THEN <<ToolCalls, Finish, Done>> ELSE <<>>

AnswerLength == 1 + generated + Len(Closing)

AnswerAt(k) == IF k = 1 THEN Role
               ELSE IF k <= 1 + generated THEN Text(k - 1) ELSE Closing[k - 1 - generated]

Generate ==
  /\ outcome = "none" /\ generated' = generated + 1
  /\ UNCHANGED <<outcome, shown>>

End ==
  /\ outcome = "none" /\ outcome' \in {"text", "calls", "error"}
  /\ UNCHANGED <<generated, shown>>

Show ==
  /\ Len(shown) < AnswerLength /\ \A i \in DOMAIN shown : shown[i] # Error
  /\ shown' = Append(shown, AnswerAt(Len(shown) + 1))
  /\ UNCHANGED <<generated, outcome>>

ShowError ==
  /\ shown # <<>> /\ shown[Len(shown)] # Done
  /\ shown' = Append(shown, Error)
  /\ UNCHANGED <<generated, outcome>>

(* A worker may be lost between its completion and the end of its response.*)
CloseAfterError ==
  /\ shown # <<>> /\ shown[Len(shown)] = Error
  /\ \E i \in DOMAIN shown : shown[i] = Finish
  /\ shown' = Append(shown, Done)
  /\ UNCHANGED <<generated, outcome>>

Next == Generate \/ End \/ Show \/ ShowError \/ CloseAfterError

Spec == Init /\ [][Next]_<<generated, outcome, shown>>

=============================================================================
