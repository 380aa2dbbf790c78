---------------------------- MODULE Conversation ----------------------------
(***************************************************************************)
(* The translation of a client's request into the message list of Cursor   *)
(* (protocol.rs and the body builder of cursor.rs), as pure operators.     *)
(*                                                                         *)
(* A text is the sequence of the pieces that the code joins with line      *)
(* breaks, <<>> being the empty string.  Contents are lists of blocks; a   *)
(* JSON value and its serialised text are told apart by the field "form".  *)
(* Every call carries an id, as the three client protocols require.        *)
(***************************************************************************)
EXTENDS Naturals, Sequences, SequencesExt

CONSTANT ToolOf(_)      \* the tool a call id was issued for

NoName == "no name"

(***************************************************************************)
(* Contents                                                                *)
(***************************************************************************)
\* SelectSeq, in a form that proofs can unfold.
Chosen(Test(_), s) ==
    LET of[n \in 0 .. Len(s)] ==
            IF n = 0 THEN <<>>
            ELSE IF Test(s[n]) THEN Append(of[n - 1], s[n]) ELSE of[n - 1]
    IN of[Len(s)]
OfType(blocks, type) == Chosen(LAMBDA b : b.type = type, blocks)
Pieces(blocks) == [i \in 1 .. Len(blocks) |-> blocks[i].piece]

content_to_text(blocks) == Pieces(OfType(blocks, "text"))

\* An image whose data is empty is skipped; one given by a link is taken for
\* unlabelled data and kept.
content_images(blocks) ==
    Chosen(LAMBDA b : b.data # "empty", OfType(blocks, "image"))

\* Mutant: a text beside an image is lost.
ContentOfImage(blocks) ==
    [text   |-> IF content_images(blocks) = <<>> THEN content_to_text(blocks) ELSE <<>>,
     images |-> content_images(blocks)]
Content(blocks) == [text |-> content_to_text(blocks), images |-> content_images(blocks)]
PlainContent(text) == [text |-> text, images |-> <<>>]

Serialised(v) == [v EXCEPT !.form = "text"]
Structured(v) == [v EXCEPT !.form = "value"]

(***************************************************************************)
(* Messages of the Chat form, to which the other two dialects are reduced. *)
(***************************************************************************)
ChatMessage(role, content) ==
    [role |-> role, content |-> content, tool_calls |-> <<>>]
ChatCalls(text, calls) ==
    [role |-> "assistant", content |-> PlainContent(text), tool_calls |-> calls]
ChatResult(id, output) ==
    [role |-> "tool", tool_call_id |-> id, content |-> output]

(***************************************************************************)
(* An Anthropic message: the results of a user turn go before its text,    *)
(* images and thinking blocks are dropped, and a turn with neither text    *)
(* nor results vanishes.                                                   *)
(***************************************************************************)
ToolUses(blocks) ==
    LET uses == OfType(blocks, "tool_use")
    IN [i \in 1 .. Len(uses) |-> [id   |-> uses[i].id,
                                  name |-> uses[i].name,
                                  arguments |-> Serialised(uses[i].input)]]
ToolResults(blocks) ==
    LET results == OfType(blocks, "tool_result")
    IN [i \in 1 .. Len(results) |-> ChatResult(results[i].id, results[i].output)]
TextMessage(role, text) ==
    IF text = <<>> THEN <<>> ELSE <<ChatMessage(role, PlainContent(text))>>

\* Mutant: the text of a user turn before its results.
AnthropicMessageInOrder(m) ==
    LET text == content_to_text(m.blocks)
    IN IF m.role = "assistant" /\ ToolUses(m.blocks) # <<>>
       THEN <<ChatCalls(text, ToolUses(m.blocks))>> \o ToolResults(m.blocks)
       ELSE TextMessage(m.role, text) \o ToolResults(m.blocks)
AnthropicMessage(m) ==
    LET text == content_to_text(m.blocks)
    IN IF m.role = "assistant" /\ ToolUses(m.blocks) # <<>>
       THEN <<ChatCalls(text, ToolUses(m.blocks))>> \o ToolResults(m.blocks)
       ELSE ToolResults(m.blocks) \o TextMessage(m.role, text)

(***************************************************************************)
(* An item of a Responses input: every function call becomes an assistant  *)
(* message of its own.                                                     *)
(***************************************************************************)
ResponsesItem(it) ==
    CASE it.type = "message" -> ChatMessage(it.role, Content(it.blocks))
      [] it.type = "function_call" ->
            ChatCalls(<<>>, <<[id |-> it.id, name |-> it.name,
                               arguments |-> it.arguments]>>)
      [] it.type = "function_call_output" -> ChatResult(it.id, it.output)

normalize_tool_choice_for_kimi(choice) ==
    IF choice \in {"named", "any"} THEN "required" ELSE choice

System(text) == TextMessage("system", text)

\* Of the fields that identify the conversation, a converted body keeps only
\* the user (for Anthropic metadata.user_id) and loses response_format.
Reduced(body, messages) ==
    [messages    |-> messages,
     user        |-> body.user,
     conversation |-> "absent",
     choice      |-> normalize_tool_choice_for_kimi(body.choice),
     json        |-> FALSE]
anthropic_to_openai_chat(body) ==
    Reduced(body, System(body.system)
                  \o FlattenSeq([i \in 1 .. Len(body.messages) |->
                                    AnthropicMessage(body.messages[i])]))
responses_to_openai_chat(body) ==
    Reduced(body, System(body.system)
                  \o [i \in 1 .. Len(body.input) |-> ResponsesItem(body.input[i])])

(***************************************************************************)
(* Chat messages to Cursor messages.  Consecutive results become one TOOL  *)
(* message, whose parts take the name of the call they answer.             *)
(***************************************************************************)
CursorMessage(role, text, images, calls, parts) ==
    [role |-> role, text |-> text, images |-> images, toolCalls |-> calls, parts |-> parts]

flush_results(acc) ==
    [acc EXCEPT !.out = IF acc.pending = <<>> THEN @
                        ELSE Append(@, CursorMessage("TOOL", <<>>, <<>>, <<>>, acc.pending)),
                !.pending = <<>>]

NameOf(acc, id) ==
    IF \E c \in acc.names : c.id = id
    THEN (CHOOSE c \in acc.names : c.id = id).name
    ELSE NoName

\* A result whose text is JSON is handed over as a structured value.
tool_result_value(v) == IF v.json THEN Structured(v) ELSE v

CursorCall(c) ==
    [toolCallId |-> c.id, toolName |-> c.name, args |-> Structured(c.arguments)]

Translate(acc, m) ==
    IF m.role = "tool"
    THEN [acc EXCEPT !.pending =
            Append(@, [toolCallId |-> m.tool_call_id,
                       toolName   |-> NameOf(acc, m.tool_call_id),
                       result     |-> tool_result_value(m.content)])]
    ELSE LET f == flush_results(acc)
             calls == [i \in 1 .. Len(m.tool_calls) |-> CursorCall(m.tool_calls[i])]
             role == CASE m.role = "assistant" -> "ASSISTANT"
                       [] m.role \in {"system", "developer"} -> "SYSTEM"
                       [] OTHER -> "USER"
             images == IF role = "USER" THEN m.content.images ELSE <<>>
         IN [f EXCEPT !.names = @ \cup ToSet(m.tool_calls),
                      !.out = Append(@, CursorMessage(role, m.content.text, images,
                                                      calls, <<>>))]

openai_messages_to_cursor(messages) ==
    flush_results(FoldLeft(Translate, [out |-> <<>>, names |-> {}, pending |-> <<>>],
                           messages)).out

(***************************************************************************)
(* The upstream body: hints are put in front while the conversation has no *)
(* result, and tools are left out when the client wants none.              *)
(***************************************************************************)
tool_choice_hint(choice) ==
    CASE choice = "named" -> <<"call the named tool">>
      [] choice \in {"required", "any"} -> <<"call a tool">>
      [] OTHER -> <<>>
tool_choice_omits_tools(choice) == choice = "none"

Hint(pieces) == IF pieces = <<>> THEN <<>>
                ELSE <<CursorMessage("SYSTEM", pieces, <<>>, <<>>, <<>>)>>
Hints(body) ==
    Hint(IF body.json THEN <<"answer in JSON">> ELSE <<>>)
    \o Hint(tool_choice_hint(body.choice))

HasResults(messages) == \E i \in 1 .. Len(messages) : messages[i].role = "tool"

build_cursor_body_full(body) ==
    [hints    |-> IF HasResults(body.messages) THEN <<>> ELSE Hints(body),
     messages |-> openai_messages_to_cursor(body.messages),
     tools    |-> ~tool_choice_omits_tools(body.choice)]

(***************************************************************************)
(* The identity of a conversation                                          *)
(***************************************************************************)
\* The first system text before the first user message, and the text of that
\* message.
FirstUser(messages) ==
    SelectInSeq(messages, LAMBDA m : m.role = "user")
\* Mutant: the last user message instead of the first.
conversation_prefix_last(messages) ==
    LET u == SelectLastInSeq(messages, LAMBDA m : m.role = "user")
    IN IF u = 0 THEN <<>> ELSE messages[u].content.text
conversation_prefix(messages) ==
    LET u == FirstUser(messages)
        head == IF u = 0 THEN messages ELSE SubSeq(messages, 1, u - 1)
        s == SelectInSeq(head, LAMBDA m : m.role \in {"system", "developer"}
                                          /\ m.content.text # <<>>)
        sys == IF s = 0 THEN <<>> ELSE head[s].content.text
    IN sys \o IF u = 0 THEN <<>> ELSE messages[u].content.text

\* The key that ties a conversation to an account: the user, the session
\* header, or else the prefix.  <<>> stands for none.
session_of(body, headers) ==
    IF body.user THEN <<"user">>
    ELSE IF headers = "session" THEN <<"session">>
    ELSE conversation_prefix(body.messages)

\* An id the client names, or else one derived as far as the request allows;
\* <<>> stands for a random id.
conversation_id_from(body, headers) ==
    IF body.conversation = "given" THEN <<"given">>
    ELSE IF headers \in {"conversation", "session"} THEN <<headers>>
    ELSE IF body.user THEN <<"hash of user">>
    ELSE conversation_prefix(body.messages)

\* One id per session and account, random without a session.
conversation_id_for(session, account) ==
    IF session = <<>> THEN <<>> ELSE Append(session, account)

\* A field that is present counts even when it holds no id.
has_explicit(body, headers) ==
    body.conversation # "absent" \/ headers = "conversation"

first_conversation_id(body, headers, account) ==
    IF has_explicit(body, headers) THEN conversation_id_from(body, headers)
    ELSE conversation_id_for(session_of(body, headers), account)
=============================================================================
