------------------------- MODULE UncachedInference -------------------------
(***************************************************************************)
(* What a generation promises, with no cache in sight: a request has a     *)
(* prompt, the context is filled with exactly that prompt, and grows by    *)
(* one token at a time until the context is full or the request ends.      *)
(***************************************************************************)
EXTENDS Integers, Sequences

CONSTANTS Token, Prompt, ContextTokens

VARIABLES prompt,   \* the request in progress; <<>> between requests
          context   \* the tokens the model has seen for it

Init == prompt = <<>> /\ context = <<>>

Ask ==
  /\ prompt = <<>>
  /\ prompt' \in Prompt
  /\ UNCHANGED context

Fill ==
  /\ prompt # <<>> /\ context = <<>>
  /\ Len(prompt) < ContextTokens
  /\ context' = prompt
  /\ UNCHANGED prompt

Extend ==
  /\ context # <<>>
  /\ Len(context) < ContextTokens
  /\ \E t \in Token : context' = Append(context, t)
  /\ UNCHANGED prompt

Finish ==
  /\ prompt # <<>>
  /\ prompt' = <<>> /\ context' = <<>>

Next == Ask \/ Fill \/ Extend \/ Finish

Spec == Init /\ [][Next]_<<prompt, context>>

=============================================================================
