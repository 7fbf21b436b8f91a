----------------------------- MODULE HarnessApp -----------------------------
(***************************************************************************)
(* The desktop client (harness/src/main.rs): its conversations, the one    *)
(* active stream, the threads that read it, and the unbounded queue of     *)
(* events between those threads and the user interface.  A frame of the    *)
(* interface takes every queued event and then what the user did; events   *)
(* that are still queued when the user acts were sent after the frame took *)
(* the others.                                                             *)
(*                                                                         *)
(* A stream is named by the assistant message it fills.  Text(a, i) is its *)
(* i-th piece of text.                                                     *)
(***************************************************************************)
EXTENDS Integers, Sequences, SequencesExt, FiniteSets

CONSTANTS MaxChats,      \* bound: conversations ever created
          MaxSends,      \* bound: messages ever sent
          MaxDeltas,     \* bound: pieces of text of a response
          MaxReopens     \* bound: times the program is closed and opened again

ASSUME HarnessAssumption ==
  /\ MaxChats \in Nat \ {0}
  /\ MaxSends \in Nat /\ MaxDeltas \in Nat /\ MaxReopens \in Nat

VARIABLES chats,          \* state.conversations
          selected,       \* state.selected
          active,         \* active_stream: the set of it, or none
          events,         \* the queue
          streams,        \* the stream threads: what each does, has heard, was told
          counts          \* ids given out, messages sent, times reopened

vars == <<chats, selected, active, events, streams, counts>>

ChatId == 1..MaxChats
MessageId == 1..(3 * MaxSends)
Text(a, i) == <<a, i>>
Message == [id : MessageId, role : {"User", "Assistant", "Error"},
            content : Seq(MessageId \X (1..MaxDeltas))]
Conversation == [id : ChatId, messages : Seq(Message)]
ActiveStream == [conversation : ChatId, user_message : MessageId, assistant_message : MessageId]
Stream == [phase : {"connecting", "refused", "reading", "over"}, conversation : ChatId,
           request : Seq(Message), cancelled : BOOLEAN, heard : 0..MaxDeltas]
Event == [kind : {"Delta"}, conversation : ChatId, message : MessageId, n : 1..MaxDeltas]
         \cup [kind : {"Completed", "Cancelled", "Failed"}, conversation : ChatId]
Counts == [chats : 0..MaxChats, messages : 0..(3 * MaxSends), sends : 0..MaxSends,
           reopens : 0..MaxReopens]

IdsOf(cs) == {cs[i].id : i \in DOMAIN cs}

(* There is always a selected conversation, and no two share an id.      *)
TypeOK ==
  /\ chats \in Seq(Conversation) /\ Cardinality(IdsOf(chats)) = Len(chats)
  /\ selected \in IdsOf(chats)
  /\ active \subseteq ActiveStream /\ Cardinality(active) <= 1
  /\ events \in Seq(Event)
  /\ DOMAIN streams \subseteq MessageId /\ \A a \in DOMAIN streams : streams[a] \in Stream
  /\ counts \in Counts

NewConversation(id) == [id |-> id, messages |-> <<>>]

Init ==
  /\ chats = <<NewConversation(1)>> /\ selected = 1
  /\ active = {} /\ events = <<>> /\ streams = <<>>
  /\ counts = [chats |-> 1, messages |-> 0, sends |-> 0, reopens |-> 0]

MessagesOf(c) == chats[CHOOSE i \in DOMAIN chats : chats[i].id = c].messages

(* The conversations with other messages in c, if c is still there.      *)
WithMessages(c, messages) ==
  [i \in DOMAIN chats |->
     IF chats[i].id = c THEN [chats[i] EXCEPT !.messages = messages] ELSE chats[i]]

(* The messages that are kept, in their order.                           *)
Only(messages, kept) ==
  FoldLeft(LAMBDA s, m : IF m \in kept THEN Append(s, m) ELSE s, <<>>, messages)

-----------------------------------------------------------------------------
(* The user.                                                             *)

(* The token of the active stream, if it belongs to the conversation.    *)
CancelStreamFor(c) ==
  streams' = [a \in DOMAIN streams |->
    IF \E s \in active : s.conversation = c /\ s.assistant_message = a
    THEN [streams[a] EXCEPT !.cancelled = TRUE] ELSE streams[a]]

NewChat ==
  /\ counts.chats < MaxChats
  /\ chats' = Append(chats, NewConversation(counts.chats + 1))
  /\ selected' = counts.chats + 1 /\ counts' = [counts EXCEPT !.chats = @ + 1]
  /\ UNCHANGED <<active, events, streams>>

SelectChat ==
  /\ selected' \in IdsOf(chats)
  /\ UNCHANGED <<chats, active, events, streams, counts>>

(* What is selected once the i-th conversation is gone: its neighbour at *)
(* the same index, or the last one.                                      *)
SelectedAfter(i, rest) ==
  IF selected # chats[i].id THEN selected ELSE rest[IF i > Len(rest) THEN Len(rest) ELSE i].id

\* Defect: the active stream is forgotten with its conversation.
RemoveForgettingStream(c) ==
  /\ Len(chats) > 1
  /\ CancelStreamFor(c)
  /\ LET i == CHOOSE i \in DOMAIN chats : chats[i].id = c
     IN chats' = RemoveAt(chats, i) /\ selected' = SelectedAfter(i, RemoveAt(chats, i))
  /\ active' = {s \in active : s.conversation # c}
  /\ UNCHANGED <<events, counts>>

(* The user confirms the dialog that asks about c.  The last conversation*)
(* is replaced by a new one; the terminal event of the stream is left to *)
(* clear it.                                                             *)
RemoveConversation(c) ==
  /\ CancelStreamFor(c)
  /\ LET i == CHOOSE i \in DOMAIN chats : chats[i].id = c
         rest == RemoveAt(chats, i)
     IN \/ /\ rest = <<>> /\ counts.chats < MaxChats
           /\ counts' = [counts EXCEPT !.chats = @ + 1]
           /\ chats' = <<NewConversation(counts.chats + 1)>> /\ selected' = counts.chats + 1
        \/ /\ rest # <<>>
           /\ chats' = rest /\ selected' = SelectedAfter(i, rest)
           /\ UNCHANGED counts
  /\ UNCHANGED <<active, events>>

ClearConversation ==
  /\ CancelStreamFor(selected)
  /\ chats' = WithMessages(selected, <<>>)
  /\ UNCHANGED <<active, selected, events, counts>>

(* An empty answer is shown, with its menu, only while it is awaited.    *)
Shown(m) ==
  \/ m.role # "Assistant" \/ m.content # <<>>
  \/ \E s \in active : s.assistant_message = m.id

RemoveMessage ==
  \E m \in Range(MessagesOf(selected)) :
    /\ Shown(m)
    /\ IF \E s \in active : m.id \in {s.user_message, s.assistant_message}
       THEN CancelStreamFor(selected) ELSE UNCHANGED streams
    /\ LET messages == MessagesOf(selected)
       IN chats' = WithMessages(selected, Only(messages, {x \in Range(messages) : x.id # m.id}))
    /\ UNCHANGED <<active, selected, events, counts>>

Stop ==
  /\ \E s \in active : CancelStreamFor(s.conversation)
  /\ UNCHANGED <<chats, active, selected, events, counts>>

\* Defect: the answer that is still awaited is quoted too.
QuoteEverySpeaker(messages) == Only(messages, {m \in Range(messages) : m.role # "Error"})

(* What a request quotes of its conversation: the user's messages and the*)
(* answers that have text.                                               *)
FromConversation(messages) ==
  Only(messages, {m \in Range(messages) :
                    m.role = "User" \/ (m.role = "Assistant" /\ m.content # <<>>)})

(* There is text in the composer; a stream that is active keeps it there.*)
Send ==
  LET user == counts.messages + 1
      assistant == counts.messages + 2
      messages == MessagesOf(selected) \o
        <<[id |-> user, role |-> "User", content |-> <<>>],
          [id |-> assistant, role |-> "Assistant", content |-> <<>>]>>
  IN
  /\ active = {}
  /\ counts.sends < MaxSends
  /\ chats' = WithMessages(selected, messages)
  /\ active' = {[conversation |-> selected, user_message |-> user, assistant_message |-> assistant]}
  /\ streams' = [a \in DOMAIN streams \cup {assistant} |->
       IF a # assistant THEN streams[a]
       ELSE [phase |-> "connecting", conversation |-> selected,
             request |-> FromConversation(messages), cancelled |-> FALSE, heard |-> 0]]
  /\ counts' = [counts EXCEPT !.messages = @ + 2, !.sends = @ + 1]
  /\ UNCHANGED <<selected, events>>

(* The program is closed, which saves the conversations, and opened       *)
(* again: the threads of the former life are gone, and their events too.   *)
Reopen ==
  /\ counts.reopens < MaxReopens
  /\ counts' = [counts EXCEPT !.reopens = @ + 1]
  /\ active' = {} /\ events' = <<>> /\ streams' = <<>>
  /\ UNCHANGED <<chats, selected>>

-----------------------------------------------------------------------------
(* The threads.                                                          *)

ThreadOthers == <<chats, active, selected, counts>>

Ends(a, kind) ==
  /\ streams' = [streams EXCEPT ![a].phase = "over"]
  /\ events' = Append(events, [kind |-> kind, conversation |-> streams[a].conversation])
  /\ UNCHANGED ThreadOthers

Respond(a) ==
  /\ streams[a].phase = "connecting"
  /\ \/ Ends(a, "Failed")
     \/ /\ \E phase \in {"reading", "refused"} : streams' = [streams EXCEPT ![a].phase = phase]
        /\ UNCHANGED <<events, ThreadOthers>>

(* The body of a refusal is read to its end, whatever the token says.    *)
Refused(a) == streams[a].phase = "refused" /\ Ends(a, "Failed")

\* Defect: a cancelled thread returns and tells nobody.
CancelledSilently(a) ==
  /\ streams[a].phase \in {"connecting", "reading"} /\ streams[a].cancelled
  /\ streams' = [streams EXCEPT ![a].phase = "over"]
  /\ UNCHANGED <<events, ThreadOthers>>

Cancelled(a) ==
  /\ streams[a].phase \in {"connecting", "reading"} /\ streams[a].cancelled
  /\ Ends(a, "Cancelled")

ReadDelta(a) ==
  /\ streams[a].phase = "reading" /\ streams[a].heard < MaxDeltas
  /\ streams' = [streams EXCEPT ![a].heard = @ + 1]
  /\ events' = Append(events, [kind |-> "Delta", conversation |-> streams[a].conversation,
                               message |-> a, n |-> streams[a].heard + 1])
  /\ UNCHANGED ThreadOthers

(* [DONE]; or the stream ended early, broke, or was not JSON.            *)
ReadEnd(a) == streams[a].phase = "reading" /\ \E kind \in {"Completed", "Failed"} : Ends(a, kind)

-----------------------------------------------------------------------------
(* Events of a frame.                                                    *)

\* Defect: text goes to the last message of the conversation.
DeltaToLast(e) ==
  chats' = [i \in DOMAIN chats |->
    LET messages == chats[i].messages IN
    IF chats[i].id # e.conversation \/ messages = <<>> THEN chats[i]
    ELSE [chats[i] EXCEPT !.messages[Len(messages)].content = Append(@, Text(e.message, e.n))]]

Grown(m, e) ==
  IF m.id # e.message THEN m ELSE [m EXCEPT !.content = Append(@, Text(e.message, e.n))]

(* Text for a message, or a conversation, that is gone is dropped.       *)
Delta(e) ==
  chats' = [i \in DOMAIN chats |->
    LET messages == chats[i].messages IN
    IF chats[i].id # e.conversation THEN chats[i]
    ELSE [chats[i] EXCEPT !.messages = [j \in DOMAIN messages |-> Grown(messages[j], e)]]]

ErrorMessage(e) ==
  IF e.conversation \in IdsOf(chats)
  THEN WithMessages(e.conversation, Append(MessagesOf(e.conversation),
         [id |-> counts.messages + 1, role |-> "Error", content |-> <<>>]))
  ELSE chats

ProcessEvent ==
  /\ events # <<>> /\ events' = Tail(events)
  /\ LET e == Head(events) IN
     /\ CASE e.kind = "Delta" -> Delta(e) /\ UNCHANGED counts
          [] e.kind = "Failed" -> /\ chats' = ErrorMessage(e)
                                  /\ counts' = [counts EXCEPT !.messages = @ + 1]
          [] OTHER -> UNCHANGED <<chats, counts>>
     /\ active' = {s \in active : e.kind = "Delta" \/ s.conversation # e.conversation}
  /\ UNCHANGED <<selected, streams>>

-----------------------------------------------------------------------------
User ==
  \/ NewChat \/ SelectChat \/ (\E c \in IdsOf(chats) : RemoveConversation(c))
  \/ ClearConversation \/ RemoveMessage \/ Stop \/ Send \/ Reopen

Server(a) == Respond(a) \/ ReadDelta(a) \/ ReadEnd(a) \/ Refused(a)

Next ==
  \/ User \/ ProcessEvent
  \/ \E a \in DOMAIN streams : Server(a) \/ Cancelled(a)

(* Frames are painted every 50 ms and a thread sees its token; the server*)
(* owes nothing.                                                         *)
Fairness ==
  /\ WF_vars(ProcessEvent)
  /\ WF_vars(\E a \in DOMAIN streams : Cancelled(a))

Spec == Init /\ [][Next]_vars /\ Fairness

-----------------------------------------------------------------------------
(* Properties.                                                           *)

(* A stream is active exactly until its one terminal event, the last of  *)
(* its events, is processed: nothing of an earlier stream can end, or be *)
(* mixed into, the next one, and the composer never stays blocked.       *)
ActiveUntilTerminal ==
  LET live == {a \in DOMAIN streams : streams[a].phase # "over"}
      terminal == {i \in DOMAIN events : events[i].kind # "Delta"}
  IN /\ active = {} => live = {} /\ events = <<>>
     /\ \A s \in active :
          /\ active = {s}
          /\ \A i \in DOMAIN events : events[i].conversation = s.conversation
          /\ \/ live = {s.assistant_message} /\ terminal = {}
             \/ live = {} /\ terminal = {Len(events)}

UpTo(a, n) == [i \in 1..n |-> Text(a, i)]

(* The text of a message that is still there is what its stream heard,     *)
(* in order and without gaps, up to what is queued; no other message     *)
(* receives any.                                                         *)
TextInItsMessage ==
  /\ TypeOK
  /\ \A i \in DOMAIN chats : \A m \in Range(chats[i].messages) :
       /\ m.content = UpTo(m.id, Len(m.content))
       /\ m.id \in DOMAIN streams =>
            /\ chats[i].id = streams[m.id].conversation
            /\ Len(m.content) = streams[m.id].heard -
                 Cardinality({k \in DOMAIN events : events[k].kind = "Delta" /\ events[k].message = m.id})

(* What a request quoted of its conversation stays what the conversation *)
(* shows, unless the user deletes it: no answer, cut short or complete,  *)
(* grows after a later request has quoted it.                            *)
QuotesStaySettled ==
  \A a \in DOMAIN streams : \A m \in Range(streams[a].request) :
    \A i \in DOMAIN chats : \A x \in Range(chats[i].messages) : x.id = m.id => x.content = m.content

(* Stop, and the deletion or clearing of a conversation, end the stream  *)
(* and give the composer back, unless the server refused the request and *)
(* does not finish saying so.                                            *)
StopEnds ==
  (\E s \in active : streams[s.assistant_message].cancelled)
  ~> (\A s \in active : streams[s.assistant_message].phase = "refused")

=============================================================================
