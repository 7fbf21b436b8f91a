----------------------------- MODULE MCToolLoop -----------------------------
(* The names of two tools, the ids of two calls, and every way for a call, *)
(* a result or a block to be wrong.                                        *)
EXTENDS ToolLoop

Tool(name, parameters) == [name |-> name, parameters |-> parameters]

MCToolLists ==
  {<<>>, <<Tool("time", "object")>>, <<Tool("place", "object"), Tool("place", "object")>>,
   <<Tool("no name", "object")>>, <<Tool("place", "other")>>}

MCValidName == {"time", "place"}

Call(id, name, arguments) == [id |-> id, name |-> name, arguments |-> arguments]

MCCalls == {Call(<<0, 1>>, "time", "object"), Call(<<0, 2>>, "time", "object"),
            Call(EmptyId, "time", "object"), Call(<<0, 1>>, "place", "object"),
            Call(<<0, 1>>, "time", "other")}

UpToTwo(S) == {<<>>} \cup {<<x>> : x \in S} \cup (S \X S)

MCWritten ==
  {[role |-> "Assistant", calls |-> c, result |-> r] : c \in UpToTwo(MCCalls), r \in {NoId, <<0, 1>>}}
  \cup {[role |-> "Tool", calls |-> c, result |-> r] :
          c \in {<<>>, <<Call(<<0, 1>>, "time", "object")>>},
          r \in {NoId, EmptyId, <<0, 1>>, <<0, 2>>}}
  \cup {[role |-> role, calls |-> c, result |-> r] :
          role \in {"User", "System"}, c \in {<<>>, <<Call(<<0, 1>>, "time", "object")>>},
          r \in {NoId, <<0, 1>>}}

MCBodies == {Call(NoId, "time", "object"), Call(<<0, 1>>, "time", "object_text"),
             Call(EmptyId, "time", "object"), Call(NoId, "place", "object"),
             Call(NoId, "time", "other")}

MCOutputs ==
  LET block == {<<Open, body, Close>> : body \in MCBodies}
      other == {<<Words>>, <<Close>>, <<Open, Words, Close>>, <<Open, Close>>,
                <<Open, Open, CHOOSE body \in MCBodies : TRUE, Close>>,
                <<Open, CHOOSE body \in MCBodies : TRUE>>}
  IN {FlattenSeq(s) : s \in UpToTwo(block \cup other)}

MCOverrides == {"rag", "agent"}
MCToolAware == {"agent"}
MCRequested == {NoTemplate, "rag", "agent", "unknown"}

=============================================================================
