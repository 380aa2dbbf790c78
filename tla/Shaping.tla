------------------------------ MODULE Shaping ------------------------------
(***************************************************************************)
(* A client that holds a conversation through the gateway, request after   *)
(* request, in one of the three dialects, and what the gateway sends       *)
(* upstream for it (inference_handler of main.rs over Conversation).       *)
(*                                                                         *)
(* The client is outside the program: it repeats the whole conversation in *)
(* every request, appends the answer it got, and answers all the calls of  *)
(* an answer in one turn, in any order, with text it had queued or not.    *)
(* Which account serves a request is the choice of AccountPool.            *)
(***************************************************************************)
EXTENDS Conversation, FiniteSets

CONSTANTS Accounts,     \* accounts of the pool
          Clients,      \* the clients considered
          Texts,        \* Texts[i]: the text of turn i
          Images,       \* kinds of image a user may attach, "none" among them
          MaxTurns,     \* bound on the length of the conversation
          MaxRetries    \* attempts of one request

VARIABLES client,       \* dialect and fields the client sends with every request
          turns,        \* the conversation so far
          attempt,      \* attempts of the request being served, 0 without one
          last,         \* the last body sent upstream, <<>> at first
          named,        \* ids of first attempts whose client names the conversation
          issued        \* conversation ids issued on each account

shapingVars == <<client, turns, attempt, last, named, issued>>

\* response_format and a conversationId without a value are fields of Chat.
AnyClient ==
    {c \in [dialect : {"chat", "anthropic", "responses"},
            system  : {<<>>, <<"system">>},
            ident   : {"none", "user", "session", "conversation", "given", "empty"},
            choice  : {"absent", "auto", "any", "required", "named", "none"},
            json    : BOOLEAN] :
        c.dialect # "chat" => ~c.json /\ c.ident # "empty"}

ASSUME ClientsAssumption == Clients \subseteq AnyClient

(***************************************************************************)
(* Turns of the conversation                                               *)
(***************************************************************************)
Turn == Len(turns) + 1
Awaiting == turns # <<>> /\ Last(turns).kind # "assistant"
\* The calls of the last answer, which the next turn must answer.
Unanswered == IF turns = <<>> \/ Awaiting THEN <<>> ELSE Last(turns).ids

User(text, image) == [kind |-> "user", text |-> text, image |-> image]
Answer(text, calls) == [kind |-> "assistant", text |-> text, ids |-> calls]
Results(order, text, first) ==
    [kind |-> "results", ids |-> order, text |-> text, first |-> first]

(***************************************************************************)
(* How a client writes the conversation in each dialect                    *)
(***************************************************************************)
TextBlocks(text) == [i \in 1 .. Len(text) |-> [type |-> "text", piece |-> text[i]]]
ImageBlocks(image) == IF image = "none" THEN <<>>
                      ELSE <<[type |-> "image", data |-> image]>>
Input(id) == [form |-> "value", of |-> id]
Output(id) == [form |-> "text", of |-> id, json |-> ToolOf(id) = "read"]

ChatTurn(t) ==
    CASE t.kind = "user" ->
            <<ChatMessage("user", Content(TextBlocks(t.text) \o ImageBlocks(t.image)))>>
      [] t.kind = "assistant" ->
            <<ChatCalls(t.text, [i \in 1 .. Len(t.ids) |->
                [id |-> t.ids[i], name |-> ToolOf(t.ids[i]),
                 arguments |-> Serialised(Input(t.ids[i]))]])>>
      [] t.kind = "results" ->
            [i \in 1 .. Len(t.ids) |-> ChatResult(t.ids[i], Output(t.ids[i]))]
            \o TextMessage("user", t.text)

AnthropicTurn(t) ==
    CASE t.kind = "user" ->
            [role |-> "user", blocks |-> ImageBlocks(t.image) \o TextBlocks(t.text)]
      [] t.kind = "assistant" ->
            [role |-> "assistant",
             blocks |-> <<[type |-> "thinking"]>> \o TextBlocks(t.text)
                        \o [i \in 1 .. Len(t.ids) |->
                              [type |-> "tool_use", id |-> t.ids[i],
                               name |-> ToolOf(t.ids[i]), input |-> Input(t.ids[i])]]]
      [] t.kind = "results" ->
            LET results == [i \in 1 .. Len(t.ids) |->
                              [type |-> "tool_result", id |-> t.ids[i],
                               output |-> Output(t.ids[i])]]
            IN [role |-> "user",
                blocks |-> IF t.first THEN TextBlocks(t.text) \o results
                                      ELSE results \o TextBlocks(t.text)]

Item(role, blocks) == [type |-> "message", role |-> role, blocks |-> blocks]
ItemOf(role, text) == IF text = <<>> THEN <<>> ELSE <<Item(role, TextBlocks(text))>>
ResponsesTurn(t) ==
    CASE t.kind = "user" ->
            <<Item("user", TextBlocks(t.text) \o ImageBlocks(t.image))>>
      [] t.kind = "assistant" ->
            ItemOf("assistant", t.text)
            \o [i \in 1 .. Len(t.ids) |->
                  [type |-> "function_call", id |-> t.ids[i], name |-> ToolOf(t.ids[i]),
                   arguments |-> Serialised(Input(t.ids[i]))]]
      [] t.kind = "results" ->
            [i \in 1 .. Len(t.ids) |->
                [type |-> "function_call_output", id |-> t.ids[i],
                 output |-> Output(t.ids[i])]]
            \o ItemOf("user", t.text)

Each(Op(_), ts) == [i \in 1 .. Len(ts) |-> Op(ts[i])]

ChatBody(c, ts) ==
    [messages |-> System(c.system) \o FlattenSeq(Each(ChatTurn, ts)),
     user |-> c.ident = "user",
     conversation |-> IF c.ident \in {"given", "empty"} THEN c.ident ELSE "absent",
     choice |-> c.choice, json |-> c.json]
AnthropicBody(c, ts) ==
    [system |-> c.system, user |-> c.ident = "user", choice |-> c.choice,
     messages |-> Each(AnthropicTurn, ts)]
ResponsesBody(c, ts) ==
    [system |-> c.system, user |-> c.ident = "user", choice |-> c.choice,
     input |-> FlattenSeq(Each(ResponsesTurn, ts))]

(***************************************************************************)
(* The three handlers reduce a body to the Chat form, and the tool choice  *)
(* is normalised for all of them.                                          *)
(***************************************************************************)
chat_handler(c, ts) == ChatBody(c, ts)
messages_handler(c, ts) == anthropic_to_openai_chat(AnthropicBody(c, ts))
responses_handler(c, ts) == responses_to_openai_chat(ResponsesBody(c, ts))

Received(c, ts) ==
    LET body == CASE c.dialect = "chat" -> chat_handler(c, ts)
                  [] c.dialect = "anthropic" -> messages_handler(c, ts)
                  [] c.dialect = "responses" -> responses_handler(c, ts)
    IN [body EXCEPT !.choice = normalize_tool_choice_for_kimi(@)]

Headers(c) == IF c.ident \in {"session", "conversation"} THEN c.ident ELSE "none"

(***************************************************************************)
(* Steps                                                                   *)
(***************************************************************************)
ShapingInit ==
    /\ client \in Clients
    /\ turns = <<>>
    /\ attempt = 0
    /\ last = <<>>
    /\ named = {}
    /\ issued = [a \in Accounts |-> {}]

UserSpeaks(text, image) ==
    /\ attempt = 0 /\ Turn <= MaxTurns
    /\ ~Awaiting /\ Unanswered = <<>>
    /\ text # <<>> \/ image # "none"
    /\ turns' = Append(turns, User(text, image))
    /\ UNCHANGED <<client, attempt, last, named, issued>>

ReturnResults(order, text, first) ==
    /\ attempt = 0 /\ Turn <= MaxTurns
    /\ Unanswered # <<>>
    /\ text # <<>> \/ ~first
    /\ turns' = Append(turns, Results(order, text, first))
    /\ UNCHANGED <<client, attempt, last, named, issued>>

Sent(body, account, id) ==
    /\ last' = <<build_cursor_body_full(body)>>
    /\ issued' = [issued EXCEPT ![account] = @ \cup {id}]
    /\ attempt' = attempt + 1
    /\ UNCHANGED <<client, turns>>

\* The first attempt: the pool picks the account, then the id is computed.
Send(account) ==
    /\ attempt = 0 /\ Awaiting
    /\ LET body == Received(client, turns)
           id == first_conversation_id(body, Headers(client), account)
       IN /\ Sent(body, account, id)
          /\ named' = IF has_explicit(body, Headers(client))
                      THEN named \cup {id} ELSE named

\* A failed attempt is tried again on the account the pool picks next, under
\* the id of the session on that account.
Retry(account) ==
    /\ attempt \in 1 .. MaxRetries - 1
    /\ LET body == Received(client, turns)
           id == conversation_id_for(session_of(body, Headers(client)), account)
       IN Sent(body, account, id)
    /\ UNCHANGED named

\* The answer, with text, calls or both, ends the request.
Answered(text, calls) ==
    /\ attempt > 0 /\ Turn <= MaxTurns
    /\ text # <<>> \/ calls # <<>>
    /\ turns' = Append(turns, Answer(text, calls))
    /\ attempt' = 0
    /\ UNCHANGED <<client, last, named, issued>>

\* All attempts failed: the client may send the same conversation again.
Failed ==
    /\ attempt > 0
    /\ attempt' = 0
    /\ UNCHANGED <<client, turns, last, named, issued>>

\* The text a speaker of the next turn may use, and the calls of an answer.
TurnTexts == {<<>>} \cup {<<Texts[i]>> : i \in {Turn} \cap (1 .. MaxTurns)}
TurnCalls == {<<>>, <<2 * Turn>>, <<2 * Turn, 2 * Turn + 1>>}

TurnOrders == {Unanswered, Reverse(Unanswered)}

ShapingNext ==
    \/ \E text \in TurnTexts, image \in Images : UserSpeaks(text, image)
    \/ \E order \in TurnOrders, text \in TurnTexts, first \in BOOLEAN :
            ReturnResults(order, text, first)
    \/ \E a \in Accounts : Send(a) \/ Retry(a)
    \/ \E text \in TurnTexts, calls \in TurnCalls : Answered(text, calls)
    \/ Failed

ShapingSpec == ShapingInit /\ [][ShapingNext]_shapingVars

(***************************************************************************)
(* What the upstream is told                                               *)
(***************************************************************************)
\* The client is about to send the conversation.
Due == Awaiting /\ attempt = 0
Upstream(body) == openai_messages_to_cursor(body.messages)
ToUpstream == {Upstream(chat_handler(client, turns)),
               Upstream(messages_handler(client, turns)),
               Upstream(responses_handler(client, turns))}

Ids(calls) == {calls[i].toolCallId : i \in 1 .. Len(calls)}
\* The first of the assistant messages directly before message k.
RunStart(ms, k) ==
    CHOOSE j \in 1 .. k : /\ \A i \in j .. k - 1 : ms[i].role = "ASSISTANT"
                          /\ j = 1 \/ ms[j - 1].role # "ASSISTANT"

(***************************************************************************)
(* Whatever the dialect and wherever the client put its own text, every    *)
(* TOOL message directly follows the assistant messages that made exactly  *)
(* its calls, and every part names the tool it answers: Cursor rejects     *)
(* results that are not next to their calls (anthropic_to_openai_chat,     *)
(* flush_results).                                                         *)
(***************************************************************************)
ResultsFollowCalls ==
    Due => \A ms \in ToUpstream : \A k \in 1 .. Len(ms) : ms[k].role = "TOOL" =>
        /\ Ids(ms[k].parts) =
              UNION {Ids(ms[j].toolCalls) : j \in RunStart(ms, k) .. k - 1}
        /\ \A i \in 1 .. Len(ms[k].parts) :
              ms[k].parts[i].toolName = ToolOf(ms[k].parts[i].toolCallId)

\* Responses writes an answer as several assistant messages.
Merged(ms) ==
    FoldLeft(LAMBDA acc, m :
        IF acc # <<>> /\ m.role = "ASSISTANT" /\ acc[Len(acc)].role = "ASSISTANT"
        THEN [acc EXCEPT ![Len(acc)].text = @ \o m.text,
                         ![Len(acc)].toolCalls = @ \o m.toolCalls]
        ELSE Append(acc, m), <<>>, ms)
\* Anthropic loses images, and user turns of images alone.
WithoutImages(ms) ==
    Chosen(LAMBDA m : m.role = "USER" => m.text # <<>>,
           [i \in 1 .. Len(ms) |-> [ms[i] EXCEPT !.images = <<>>]])

(***************************************************************************)
(* The same conversation reaches Cursor as the same messages whichever     *)
(* dialect the client speaks, but for images sent by the Anthropic route   *)
(* and for answers that Responses spreads over several messages.           *)
(***************************************************************************)
DialectsAgree ==
    Due => LET chat == Upstream(chat_handler(client, turns))
    IN /\ Merged(Upstream(responses_handler(client, turns))) = chat
       /\ Upstream(messages_handler(client, turns)) = WithoutImages(chat)

\* Something in the first request tells the conversation apart.
Nameable == \/ client.ident \in {"user", "session"}
            \/ client.system # <<>> /\ client.dialect # "anthropic"
            \/ turns[1].text # <<>>
Explicit == has_explicit(Received(client, turns), Headers(client))

(***************************************************************************)
(* Cursor's prefix cache can hit from one request of a conversation to the *)
(* next: the messages sent before, hints aside, are a prefix of those of   *)
(* the conversation now, and a conversation whose first request can be     *)
(* told apart keeps one id on an account, across retries and failures; one *)
(* the client names keeps that id in all first attempts.                   *)
(***************************************************************************)
CacheKept ==
    last # <<>> =>
        /\ IsPrefix(last[1].messages, Upstream(Received(client, turns)))
        /\ Nameable => IF Explicit THEN Cardinality(named) <= 1
                       ELSE \A a \in Accounts : Cardinality(issued[a]) <= 1

(***************************************************************************)
(* What comments of the code say otherwise: none of these holds.           *)
(***************************************************************************)
\* "Only in the first round, so that a changing hint does not break the
\* prefix cache" (build_cursor_body_full): the hint itself is not repeated.
HintsKeepPrefix ==
    last # <<>> =>
        LET now == build_cursor_body_full(Received(client, turns))
        IN IsPrefix(last[1].hints \o last[1].messages,
                    now.hints \o now.messages)

\* "A forced tool name goes into the hint" (inference_handler): the choice
\* is normalised before the hint is made, and the name is lost.
ForcedToolNamed ==
    (last # <<>> /\ client.choice = "named" /\ Len(turns) = 1) =>
        Hint(tool_choice_hint("named"))[1] \in ToSet(last[1].hints)

\* "http(s) links are skipped" (content_parts): they are sent as data.
LinksSkipped ==
    last # <<>> => \A i \in 1 .. Len(last[1].messages) :
        \A b \in ToSet(last[1].messages[i].images) : b.data # "link"

\* "A conversationId of the client comes first" (inference_handler): a retry
\* replaces it.
NamedIdKept ==
    (last # <<>> /\ Explicit /\ Nameable) =>
        UNION {issued[a] : a \in Accounts} = named
=============================================================================
