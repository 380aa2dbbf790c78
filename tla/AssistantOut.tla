---------------------------- MODULE AssistantOut ----------------------------
(***************************************************************************)
(* What one answer of the upstream adds up to (src/protocol.rs,            *)
(* AssistantOut and apply_tool_call_part), how its token usage is read     *)
(* (src/translate.rs, extract_usage), and the answer a client that did not *)
(* ask for a stream is given (upstream_to_dialect_full).                   *)
(*                                                                         *)
(* A text is a sequence of tokens.  Of the argument texts of tool calls,   *)
(* the ones in DOMAIN Fields parse as a JSON object, given by the length   *)
(* of each of its fields, and the others do not parse at all.              *)
(***************************************************************************)
EXTENDS Naturals, Sequences, SequencesExt

CONSTANTS
    Tokens,                 \* what texts are made of
    CallIds, CallNames,     \* ids and names of tool calls
    Fields,                 \* [argument texts that are JSON objects -> object]
    NoText, NoCount, NoPart \* what a part or a frame does not carry

Texts == Seq(Tokens)

\* Ids are <<"tool", n>>; the ids this program makes up are <<"call", n>>.
EmptyOut ==
    [thinking |-> <<>>, text |-> <<>>, signed |-> FALSE, tools |-> <<>>,
     truncated |-> FALSE]

-----------------------------------------------------------------------------
\* translate.rs, extract_usage.  Of the raw record, `prompt' is absent (NoCount)
\* when the upstream uses the input_tokens naming, and `cached' stands for
\* cached_tokens wherever it is found.
Saturating(a, b) == IF a > b THEN a - b ELSE 0

extract_usage(raw) ==
    LET named == raw.prompt # NoCount
        input == IF named THEN raw.prompt ELSE raw.input
        inclusive == raw.extended \/ named
        cacheOf(read, left) ==
            [input |-> left, output |-> raw.output, read |-> read, write |-> raw.write]
    IN  IF raw.read = 0
        THEN IF raw.cached > 0 THEN cacheOf(raw.cached, Saturating(input, raw.cached))
             ELSE cacheOf(0, input)
        ELSE IF inclusive /\ input >= raw.read + raw.write
             THEN cacheOf(raw.read, input - (raw.read + raw.write))
             ELSE cacheOf(raw.read, input)

-----------------------------------------------------------------------------
\* protocol.rs, merge_tool_arg_text: the arguments kept when `incoming' arrives
\* after `prev'.  An object that is shorter and has no key of its own is an old
\* snapshot; texts that are no objects are fragments and are joined.
PayloadLen(object) == FoldFunction(+, 0, object)

merge_tool_arg_text(prev, incoming) ==
    LET isNew == incoming \in DOMAIN Fields
        isOld == prev \in DOMAIN Fields
        stale == \/ Fields[incoming] = Fields[prev]
                 \/ /\ PayloadLen(Fields[incoming]) < PayloadLen(Fields[prev])
                    /\ DOMAIN Fields[incoming] \subseteq DOMAIN Fields[prev]
    IN  IF IsPrefix(prev, incoming) THEN incoming
        ELSE IF IsPrefix(incoming, prev) THEN prev
        ELSE CASE isNew /\ isOld  -> IF stale THEN prev ELSE incoming
               [] isNew /\ ~isOld -> incoming
               [] ~isNew          -> prev \o incoming

\* protocol.rs, apply_tool_call_part: the call a part belongs to is the last one
\* with its id or, when it has none, with its name; else it is a new one.
Matches(c, part) ==
    \/ part.id # NoText /\ c.id = part.id
    \/ part.id = NoText /\ part.name # NoText /\ c.name = part.name

apply_tool_call_part(out, part) ==
    LET hits == {i \in DOMAIN out.tools : Matches(out.tools[i], part)}
        last == CHOOSE i \in hits : \A j \in hits : j <= i
        call == out.tools[last]
        merged == [call EXCEPT
                      !.name = IF part.name = NoText THEN call.name ELSE part.name,
                      !.args = merge_tool_arg_text(call.args, part.args)]
        id == IF part.id = NoText THEN <<"call", Len(out.tools) + 1>> ELSE part.id
        new == [id |-> id, name |-> part.name, args |-> part.args]
    IN  IF hits # {} THEN [out EXCEPT !.tools[last] = merged]
        ELSE [out EXCEPT !.tools = Append(@, new)]

\* The reasoningParts of the last frame: the whole thinking, sent once more.
Backfilled(thinking, reason) ==
    IF IsPrefix(thinking, reason) THEN reason ELSE thinking

-----------------------------------------------------------------------------
\* translate.rs, upstream_to_dialect_full: one frame of the loop.  It does not
\* look for error frames.  A frame has a part for each field that is not NoPart.
Terminal(f) == f.info # NoPart

AddParts(out, f) ==
    LET text == [out EXCEPT !.text = @ \o f.text]
        thought ==
            IF f.think = NoPart THEN text
            ELSE [text EXCEPT !.thinking = @ \o f.think.text,
                              !.signed = @ \/ f.think.signed]
    IN  IF f.tool = NoPart THEN thought ELSE apply_tool_call_part(thought, f.tool)

CollectFull(out, f) ==
    LET parts == AddParts(out, f)
    IN  IF ~Terminal(f) THEN parts
        ELSE [parts EXCEPT !.thinking = Backfilled(@, f.info.reason),
                           !.truncated = f.info.truncated,
                           !.signed = @ \/ f.info.signed]

\* The content of the finished answer: anthropic_message,
\* responses_message_with_request and openai_message_with_tools keep the same
\* order, thinking, text, tool calls, and differ in what stands for no answer.
Content(out, dialect) ==
    LET thinking == IF out.thinking = <<>> THEN <<>> ELSE <<<<"thinking", out.thinking>>>>
        hollow == CASE dialect = "Anthropic" -> out.thinking = <<>> /\ out.tools = <<>>
                    [] dialect = "Responses" -> out.thinking = <<>> /\ out.tools = <<>>
                    [] OTHER -> FALSE
        text == IF out.text # <<>> \/ hollow THEN <<<<"text", out.text>>>> ELSE <<>>
        tools == [i \in DOMAIN out.tools |-> <<"call", out.tools[i].id, out.tools[i].args>>]
    IN  thinking \o text \o tools

\* finish_reason / stop_reason of an answer.
StopReason(out) ==
    IF out.tools # <<>> THEN "tool_use"
    ELSE IF out.truncated THEN "max_tokens" ELSE "end_turn"
=============================================================================
