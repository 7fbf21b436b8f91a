------------------------------ MODULE ToolLoop ------------------------------
(***************************************************************************)
(* Tool calls, around the loop a client runs: it sends its tools and its   *)
(* message history; coordinator and worker validate both; the model writes *)
(* raw text, from which the worker takes the calls; the client echoes the  *)
(* reply, appends a result for every call and sends the longer history.    *)
(* The worker renders the history with one of its templates.               *)
(*                                                                         *)
(* Text is a sequence of pieces.  A call is written as a Body, the JSON    *)
(* value between the two markers.  JSON is kept as far as it matters: an   *)
(* object, the text of an object, or something else.                       *)
(***************************************************************************)
EXTENDS Integers, Sequences, SequencesExt, FiniteSets

CONSTANTS ToolLists,     \* lists of tool definitions a client may send
          ValidName,     \* names made of letters, digits, _ and -
          Outputs,       \* raw texts the model may write
          Written,       \* messages a careless client may write
          MaxWritten,    \* bound: messages in a history it adds to
          MaxRequests,   \* bound: requests of a client
          Overrides,     \* names of the templates in the model's directory
          ToolAware,     \* those of them that render calls and results
          Requested,     \* template names a request may carry
          Words, Open, Close,           \* pieces: some text, the two markers
          NoId, NoTemplate, Failed, NoReply, Outside

(* An id is given by the model or the client, <<0, i>>, or made from the   *)
(* request and the position of the call in it.                             *)
EmptyId == <<>>
Generated(request, index) == <<request, index>>
Id == {EmptyId} \cup (Nat \X Nat)

ToolCall == [id : Id, name : STRING, arguments : {"object", "other"}]
ChatMessage == [role : {"System", "User", "Assistant", "Tool"},
                calls : Seq(ToolCall), result : Id \cup {NoId}]

(* A piece of text: a word, a marker, or the JSON of a call.               *)
Body == [id : Id \cup {NoId}, name : STRING, arguments : {"object", "object_text", "other"}]
Piece == {Words, Open, Close} \cup Body

ASSUME ToolAssumption ==
  /\ {MaxWritten, MaxRequests} \subseteq Nat
  /\ Outputs \subseteq Seq(Piece) /\ Written \subseteq ChatMessage
  /\ Open # Close
  /\ NoId \notin Id /\ Failed \notin Seq(Id) /\ Outside \notin Seq(Piece)
  /\ ToolAware \subseteq Overrides
  /\ NoTemplate \notin Overrides \cup {"qwen-tools", Failed}

VARIABLES tools, history, careful, phase, requests,
          qwen,     \* is the worker's model one of the Qwen family?
          template, \* what the request asks for
          output,   \* what the model wrote, and
          reply     \* what the worker made of it

vars == <<tools, history, careful, phase, requests, qwen, template, output, reply>>

TypeOK ==
  /\ tools \in ToolLists /\ output \in Outputs \cup {<<>>}
  /\ phase \in {"writing", "refused", "generating", "replied"}
  /\ careful \in BOOLEAN /\ requests \in 0..MaxRequests
  /\ qwen \in BOOLEAN /\ template \in Requested \cup {NoTemplate}
  /\ reply # NoReply => /\ reply.calls # <<>> => reply.finish = "ToolCalls"
                        /\ reply.finish = "ToolCalls" => tools # <<>>

-----------------------------------------------------------------------------
(* Validation.                                                             *)

ToolsValid(list) ==
  /\ \A i \in DOMAIN list : list[i].name \in ValidName /\ list[i].parameters = "object"
  /\ \A i, j \in DOMAIN list : list[i].name = list[j].name => i = j

Declared == {tools[i].name : i \in DOMAIN tools}

(* From the wire format: the arguments of every call are parsed.           *)
Converted(h) == \A m \in Range(h) : \A call \in Range(m.calls) : call.arguments = "object"

(* The ids of the calls that wait for a result, in order, or Failed.  An   *)
(* id of the same response waits as well, so one test serves for both.     *)
CheckCall(pending, call) ==
  IF \/ pending = Failed
     \/ call.id = EmptyId \/ call.id \in Range(pending)
     \/ call.name \notin Declared \/ call.arguments # "object"
  THEN Failed ELSE Append(pending, call.id)

CheckResult(pending, m) ==
  IF m.calls # <<>> \/ m.result \in {NoId, EmptyId} \/ pending = <<>> \/ Head(pending) # m.result
  THEN Failed ELSE Tail(pending)

\* Defect: a new question may come before the results.
CheckMessageAnywhere(pending, m) ==
  IF pending = Failed THEN Failed
  ELSE CASE m.role = "Assistant" ->
              IF m.result # NoId THEN Failed ELSE FoldLeft(CheckCall, pending, m.calls)
         [] m.role = "Tool" -> CheckResult(pending, m)
         [] OTHER -> IF m.calls # <<>> \/ m.result # NoId THEN Failed ELSE pending

CheckMessage(pending, m) ==
  IF pending = Failed THEN Failed
  ELSE CASE m.role = "Assistant" ->
              IF m.result # NoId THEN Failed ELSE FoldLeft(CheckCall, pending, m.calls)
         [] m.role = "Tool" -> CheckResult(pending, m)
         [] OTHER -> IF m.calls # <<>> \/ m.result # NoId \/ pending # <<>> THEN Failed
                     ELSE pending

Pending(h) == FoldLeft(CheckMessage, <<>>, h)

(* What the coordinator lets through; the worker asks the same again.      *)
Accepted(h) == h # <<>> /\ ToolsValid(tools) /\ Converted(h) /\ Pending(h) = <<>>

-----------------------------------------------------------------------------
(* Rendering.                                                              *)

\* Defect: the built-in template has to be asked for.
SelectByName(requested) ==
  IF requested = NoTemplate THEN NoTemplate
  ELSE IF requested \in Overrides \cup {"qwen-tools"} THEN requested ELSE Failed

Select(requested) ==
  IF requested # NoTemplate
  THEN IF requested \in Overrides \cup {"qwen-tools"} THEN requested ELSE Failed
  ELSE IF tools = <<>> THEN NoTemplate
  ELSE IF qwen THEN "qwen-tools" ELSE Failed

(* The template the history is rendered with, or Failed.  Without a name it*)
(* is the one embedded in the model file, which is given the texts of the  *)
(* messages and nothing else.                                              *)
RenderedBy(requested) == IF tools # <<>> /\ ~qwen THEN Failed ELSE Select(requested)

(* The built-in template renders every call and result; a file of the      *)
(* model's directory, which may also take its name, renders what it likes. *)
RendersCalls(t) == t \in ToolAware \/ (t = "qwen-tools" /\ t \notin Overrides)

-----------------------------------------------------------------------------
(* Parsing.                                                                *)

(* The call of a block, or Failed: not JSON, an undeclared or missing      *)
(* name, arguments that are no object, or an empty id.                     *)
ParseOne(block, index) ==
  IF Len(block) # 1 \/ block[1] \in {Words, Open} THEN Failed
  ELSE LET body == block[1] IN
       IF body.name \notin Declared \/ body.arguments \notin {"object", "object_text"}
          \/ body.id = EmptyId
       THEN Failed
       ELSE [id |-> IF body.id = NoId THEN Generated(requests, index) ELSE body.id,
             name |-> body.name, arguments |-> "object"]

\* Defect: ids are not compared.
AddAnyCall(s, call) ==
  IF call = Failed THEN Failed ELSE [s EXCEPT !.calls = Append(@, call), !.block = Outside]

AddCall(s, call) ==
  IF call = Failed \/ \E c \in Range(s.calls) : call.id = c.id THEN Failed
  ELSE [s EXCEPT !.calls = Append(@, call), !.block = Outside]

(* A block reaches from a marker to the first closing one after it.        *)
ParsePiece(s, piece) ==
  IF s = Failed THEN Failed
  ELSE CASE s.block = Outside /\ piece = Open -> [s EXCEPT !.block = <<>>]
         [] s.block = Outside /\ piece # Open -> [s EXCEPT !.visible = Append(@, piece)]
         [] s.block # Outside /\ piece = Close -> AddCall(s, ParseOne(s.block, Len(s.calls)))
         [] OTHER -> [s EXCEPT !.block = Append(@, piece)]

ParseToolCalls(text) ==
  FoldLeft(ParsePiece, [visible |-> <<>>, calls |-> <<>>, block |-> Outside], text)

Finish(calls) == IF calls = <<>> THEN "Stop" ELSE "ToolCalls"

\* Defect: the text goes out as the model wrote it.
ReplyUnfiltered(text) ==
  LET parsed == ParseToolCalls(text)
  IN IF parsed = Failed THEN NoReply
     ELSE [text |-> text, calls |-> parsed.calls, finish |-> Finish(parsed.calls)]

(* Without tools the text is taken as it is.                               *)
ReplyOf(text) ==
  IF tools = <<>> THEN [text |-> text, calls |-> <<>>, finish |-> "Stop"]
  ELSE LET parsed == ParseToolCalls(text)
       IN IF parsed = Failed \/ parsed.block # Outside THEN NoReply
          ELSE [text |-> parsed.visible, calls |-> parsed.calls, finish |-> Finish(parsed.calls)]

-----------------------------------------------------------------------------
(* The client.                                                             *)

WorkerSide == <<qwen, template, output, reply>>

Plain(role) == [role |-> role, calls |-> <<>>, result |-> NoId]

(* The calls a careful client has still to answer.                         *)
Waiting == IF history # <<>> /\ Last(history).role = "Assistant" THEN Last(history).calls ELSE <<>>
Asked == IF history = <<>> THEN FALSE ELSE Last(history).role = "User"

Init ==
  /\ tools \in ToolLists /\ careful = ToolsValid(tools)
  /\ history = <<>> /\ phase = "writing" /\ requests = 0
  /\ qwen \in BOOLEAN /\ template = NoTemplate
  /\ output = <<>> /\ reply = NoReply

Ask ==
  /\ phase = "writing" /\ careful /\ Waiting = <<>> /\ ~Asked
  /\ history' = Append(history, Plain("User"))
  /\ UNCHANGED <<tools, careful, phase, requests, WorkerSide>>

AnswerCalls ==
  /\ phase = "writing" /\ careful /\ Waiting # <<>>
  /\ history' = history \o [i \in DOMAIN Waiting |->
                              [Plain("Tool") EXCEPT !.result = Waiting[i].id]]
  /\ UNCHANGED <<tools, careful, phase, requests, WorkerSide>>

(* Anything at all, while the history can still become valid.              *)
Write ==
  /\ phase = "writing" /\ Len(history) < MaxWritten /\ Pending(history) # Failed
  /\ \E m \in Written : history' = Append(history, m)
  /\ careful' = FALSE
  /\ UNCHANGED <<tools, phase, requests, WorkerSide>>

(* Answering, the client keeps the content and the calls.                  *)
Echo ==
  /\ phase = "replied" /\ phase' = "writing"
  /\ history' = Append(history, [Plain("Assistant") EXCEPT !.calls = reply.calls])
  /\ reply' = NoReply /\ output' = <<>> /\ template' = NoTemplate
  /\ UNCHANGED <<tools, careful, requests, qwen>>

Submit ==
  /\ phase = "writing" /\ requests < MaxRequests
  /\ careful' = (careful /\ history # <<>> /\ Waiting = <<>>)
  /\ requests' = requests + 1
  /\ \/ Accepted(history) /\ phase' = "generating" /\ template' \in Requested
     \/ ~Accepted(history) /\ phase' = "refused" /\ UNCHANGED template
  /\ UNCHANGED <<tools, history, qwen, output, reply>>

-----------------------------------------------------------------------------
(* The worker.                                                             *)

(* An error: of the template, or because the text has a bad block.         *)
GenerateFails ==
  /\ phase = "generating"
  /\ RenderedBy(template) = Failed \/ \E text \in Outputs : ReplyOf(text) = NoReply
  /\ phase' = "writing" /\ template' = NoTemplate
  /\ UNCHANGED <<tools, history, careful, requests, qwen, output, reply>>

Generate ==
  /\ phase = "generating" /\ RenderedBy(template) # Failed
  /\ \E text \in Outputs :
       /\ ReplyOf(text) # NoReply
       /\ reply' = ReplyOf(text) /\ output' = text
  /\ phase' = "replied"
  /\ UNCHANGED <<tools, history, careful, requests, qwen, template>>

Next == Ask \/ AnswerCalls \/ Write \/ Echo \/ Submit \/ Generate \/ GenerateFails

Spec == Init /\ [][Next]_vars

-----------------------------------------------------------------------------
(* Properties.                                                             *)

IdsIn(h, ids(_)) == FlattenSeq([p \in DOMAIN h |-> [k \in DOMAIN ids(h[p]) |-> <<p, ids(h[p])[k]>>]])

(* The calls and the results of a history: where, and with which id.       *)
CallsIn(h) == IdsIn(h, LAMBDA m : [k \in DOMAIN m.calls |-> m.calls[k].id])
ResultsIn(h) == IdsIn(h, LAMBDA m : IF m.role = "Tool" THEN <<m.result>> ELSE <<>>)
Before(p, places) == Cardinality({i \in DOMAIN places : places[i][1] < p})

(* README.md: every result matches a preceding call, in the order of the   *)
(* calls; missing, duplicate, undeclared, out-of-order and unmatched ids   *)
(* are rejected.                                                           *)
WellFormed(h) ==
  LET calls == CallsIn(h)  results == ResultsIn(h) IN
  /\ h # <<>>
  /\ \A m \in Range(h) :
       /\ m.role # "Assistant" => m.calls = <<>>
       /\ (m.role = "Tool") = (m.result # NoId)
       /\ \A call \in Range(m.calls) : call.name \in Declared /\ call.arguments = "object"
  /\ Len(calls) = Len(results)
  /\ \A i \in DOMAIN calls : /\ calls[i][2] = results[i][2] /\ calls[i][2] # EmptyId
                             /\ calls[i][1] < results[i][1]
  /\ \A i, j \in DOMAIN calls :
       i < j /\ calls[i][2] = calls[j][2] => results[i][1] < calls[j][1]
  /\ \A p \in DOMAIN h : h[p].role \in {"User", "System"} => Before(p, calls) = Before(p, results)

(* The validator's one pass decides exactly that, for every history.       *)
ValidatorExact == Accepted(history) <=> WellFormed(history) /\ ToolsValid(tools)

(* What the worker gives out as calls is accepted when it comes back: a    *)
(* client that echoes every reply and answers its calls in order is never  *)
(* refused, whatever the model wrote.                                      *)
RepliesAccepted == careful => phase # "refused"

InBlock(i) == \E o \in 1..i : output[o] = Open /\ \A j \in o..(i - 1) : output[j] # Close
UpTo(places, i) == Cardinality({j \in places : j <= i})

(* The markup of calls is withheld: visible text is what stands outside of *)
(* the blocks, a closing marker that ends no block included, and the calls *)
(* are those inside of them, in order.                                     *)
MarkupWithheld ==
  /\ TypeOK
  /\ phase = "replied" /\ tools # <<>> =>
       LET shown == {i \in DOMAIN output : ~InBlock(i)}
           bodies == {i \in DOMAIN output : InBlock(i) /\ output[i] \notin {Open, Close}}
       IN /\ Len(reply.text) = Cardinality(shown) /\ Len(reply.calls) = Cardinality(bodies)
          /\ \A i \in shown : reply.text[UpTo(shown, i)] = output[i]
          /\ \A i \in bodies : reply.calls[UpTo(bodies, i)].name = output[i].name
          /\ (reply.finish = "ToolCalls") = (bodies # {})

(* A conversation with calls or results is answered from a rendering that  *)
(* has them, unless the one chosen is a file of the model's directory that *)
(* leaves them out: the validator lets calls through only beside the tools *)
(* that declare them, and tools never meet the embedded template.          *)
OnlyOverridesDropCalls ==
  phase = "replied" /\ (\E m \in Range(history) : m.calls # <<>> \/ m.role = "Tool")
  => \/ RendersCalls(RenderedBy(template))
     \/ RenderedBy(template) \in Overrides \ ToolAware

=============================================================================
