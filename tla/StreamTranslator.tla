-------------------------- MODULE StreamTranslator --------------------------
(***************************************************************************)
(* An answer streamed to the client.  FrameStream (src/cursor.rs) cuts the *)
(* bytes of the upstream into frames, CursorClient::stream looks at the    *)
(* first of them, StreamTranslator (src/translate.rs) turns each into      *)
(* events of the client's dialect, and upstream_to_dialect_stream decides  *)
(* when the answer has ended.                                              *)
(*                                                                         *)
(* The translator is the record tr; tr.sent are the events in the order    *)
(* the client gets them.  The state of the Anthropic and of the Responses  *)
(* dialect is alike: a block (item) of thinking and one of text that are   *)
(* open or not, with their index.  Sequence numbers are the position of an *)
(* event and are left out.                                                 *)
(***************************************************************************)
EXTENDS AssistantOut, Integers, FiniteSets

CONSTANTS
    Dialects,
    Frames,         \* frames the upstream may send
    MaxFrames,      \* bound: frames of an answer
    ChunkFrames     \* bound: frames that end in one chunk of bytes

\* A frame is an object with some of the parts, or one of the other three kinds.
Frame(f) ==
    /\ f.kind \in {"object", "empty", "end", "bad"} /\ f.error \in BOOLEAN
    /\ f.text \in Texts
    /\ f.think # NoPart => f.think.text \in Texts /\ f.think.signed \in BOOLEAN
    /\ f.tool # NoPart => /\ f.tool.id \in CallIds \cup {NoText}
                          /\ f.tool.name \in CallNames \cup {NoText}
                          /\ f.tool.args \in Texts /\ f.tool.complete \in BOOLEAN
    /\ f.info # NoPart => /\ f.info.reason \in Texts
                          /\ f.info.truncated \in BOOLEAN /\ f.info.signed \in BOOLEAN

ASSUME StreamAssumption ==
    /\ Dialects \subseteq {"Chat", "Anthropic", "Responses"}
    /\ MaxFrames \in Nat /\ ChunkFrames \in Nat \ {0}
    /\ CallIds \subseteq {"tool"} \X Nat /\ NoText \notin CallIds
    /\ \A f \in Frames : Frame(f)

VARIABLES
    dialect,
    buf,            \* FrameStream.buf: the whole frames in it
    partial,        \* ... and whether the beginning of one more is behind them
    body,           \* the response body: "open", "ended", "failed"
    phase,          \* "peek", "stream", "done"
    result,         \* how the answer ended: "none", "ok", "error", "rejected"
    tr,             \* the StreamTranslator
    full,           \* what upstream_to_dialect_full makes of the same frames
    fed,            \* the frames so far (history)
    arrived         \* bound: number of frames so far

streamVars == <<dialect, buf, partial, body, phase, result, tr, full, fed, arrived>>

-----------------------------------------------------------------------------
(* Events.  idx is the index of a content block or the output_index of an   *)
(* item; item names it: the id of a tool call, or the kind and the index    *)
(* that a block of thinking or text has.                                    *)

NoIdx == -1
Event(ev, item, idx, data) == [ev |-> ev, item |-> item, idx |-> idx, data |-> data]
Mark(ev) == Event(ev, NoText, NoIdx, <<>>)

\* StreamTranslator::new
NewTranslator ==
    [sent |-> <<>>, out |-> EmptyOut, usage |-> NoPart, begun |-> FALSE,
     thinkOpen |-> FALSE, textOpen |-> FALSE, thinkIdx |-> NoIdx, textIdx |-> NoIdx,
     thinkItem |-> NoText, textItem |-> NoText, nextIdx |-> 0,
     started |-> {}, completed |-> {}, emitted |-> <<>>]

Emit(t, events) == [t EXCEPT !.sent = @ \o events]

\* message_start, or response.created and response.in_progress.
Preamble(t) ==
    IF t.begun \/ dialect = "Chat" THEN t
    ELSE Emit([t EXCEPT !.begun = TRUE], <<Mark("begin")>>)

\* alloc_anthropic_thinking_idx, alloc_anthropic_text_idx
AllocThinkingIdx(t) == 0
AllocTextIdx(t) ==
    IF t.textIdx # NoIdx THEN t.textIdx ELSE IF t.thinkIdx # NoIdx THEN 1 ELSE 0

\* alloc_anthropic_tool_idx; n is the 0-based ordinal of the call.
AllocToolIdx(t, n) ==
    n + Cardinality({x \in {"think", "text"} :
                        (IF x = "think" THEN t.thinkIdx ELSE t.textIdx) # NoIdx})

\* The thinking block or reasoning item is opened at the first increment.
OpenThinking(t) ==
    IF t.thinkOpen THEN t
    ELSE LET idx == IF dialect = "Anthropic" THEN AllocThinkingIdx(t) ELSE t.nextIdx
             item == <<"thinking", idx>>
         IN  Emit([t EXCEPT !.thinkOpen = TRUE, !.thinkIdx = idx, !.thinkItem = item,
                            !.nextIdx = IF dialect = "Responses" THEN @ + 1 ELSE @],
                  <<Event("start", item, idx, <<>>)>>)

OpenText(t) ==
    IF t.textOpen THEN t
    ELSE LET idx == IF dialect = "Anthropic" THEN AllocTextIdx(t) ELSE t.nextIdx
             item == <<"text", idx>>
         IN  Emit([t EXCEPT !.textOpen = TRUE, !.textIdx = idx, !.textItem = item,
                            !.nextIdx = IF dialect = "Responses" THEN @ + 1 ELSE @],
                  <<Event("start", item, idx, <<>>)>>)

\* A signature_delta goes before the stop of an Anthropic thinking block; the
\* done events of a Responses item repeat all the text (close_responses_reasoning).
CloseThinking(t) ==
    IF ~t.thinkOpen THEN t
    ELSE LET last == IF dialect = "Anthropic"
                     THEN Event("signature", t.thinkItem, t.thinkIdx, <<>>)
                     ELSE Event("content", t.thinkItem, t.thinkIdx, t.out.thinking)
         IN  Emit([t EXCEPT !.thinkOpen = FALSE],
                  <<last, Event("stop", t.thinkItem, t.thinkIdx, <<>>)>>)

\* A mutant: the block is closed and its flag left.
CloseTextAgain(t) ==
    IF ~t.textOpen THEN t
    ELSE Emit(t, <<Event("stop", t.textItem, t.textIdx, <<>>)>>)

\* close_responses_message
CloseText(t) ==
    IF ~t.textOpen THEN t
    ELSE LET last == IF dialect = "Anthropic" THEN <<>>
                     ELSE <<Event("content", t.textItem, t.textIdx, t.out.text)>>
         IN  Emit([t EXCEPT !.textOpen = FALSE],
                  last \o <<Event("stop", t.textItem, t.textIdx, <<>>)>>)

-----------------------------------------------------------------------------
(* StreamTranslator::feed, part by part.                                    *)

ThinkingDelta(t, text) ==
    IF dialect = "Chat" THEN Emit(t, <<Event("delta", <<"thinking", NoIdx>>, NoIdx, text)>>)
    ELSE LET o == OpenThinking(t)
         IN  Emit(o, <<Event("delta", o.thinkItem, o.thinkIdx, text)>>)

\* Nothing is taken from a part without text, its signature neither.
FeedThinking(t, part) ==
    IF part = NoPart THEN t
    ELSE IF part.text = <<>> THEN t
    ELSE ThinkingDelta([t EXCEPT !.out.thinking = @ \o part.text,
                                 !.out.signed = @ \/ part.signed], part.text)

\* A mutant: the increment is sent and not collected.
FeedTextUncollected(t, text) ==
    IF text = <<>> THEN t
    ELSE IF dialect = "Chat" THEN Emit(t, <<Event("delta", <<"text", NoIdx>>, NoIdx, text)>>)
    ELSE LET o == OpenText(CloseThinking(t))
         IN  Emit(o, <<Event("delta", o.textItem, o.textIdx, text)>>)

FeedText(t, text) ==
    IF text = <<>> THEN t
    ELSE LET kept == [t EXCEPT !.out.text = @ \o text]
         IN  IF dialect = "Chat" THEN Emit(kept, <<Event("delta", <<"text", NoIdx>>, NoIdx, text)>>)
             ELSE LET o == OpenText(CloseThinking(kept))
                  IN  Emit(o, <<Event("delta", o.textItem, o.textIdx, text)>>)

\* What of the arguments of a call the client has been sent.
Emitted(t, id) == IF id \in DOMAIN t.emitted THEN t.emitted[id] ELSE <<>>

\* The events that begin a tool call, after the open blocks are closed, and the
\* index they carry.  Chat and Anthropic count from the ordinal of the call.
StartTool(t, call, ordinal) ==
    LET begun == [t EXCEPT !.started = @ \cup {call.id}]
        c == IF dialect = "Chat" THEN begun ELSE CloseText(CloseThinking(begun))
        idx == CASE dialect = "Chat" -> ordinal
                 [] dialect = "Anthropic" -> AllocToolIdx(c, ordinal)
                 [] OTHER -> c.nextIdx
    IN  Emit([c EXCEPT !.nextIdx = IF dialect = "Responses" THEN @ + 1 ELSE @],
             <<Event("start", call.id, idx, <<>>)>>)

\* The index of the later events of a call: Responses takes the item added last.
ToolIdx(t, ordinal) ==
    CASE dialect = "Chat" -> ordinal
      [] dialect = "Anthropic" -> AllocToolIdx(t, ordinal)
      [] OTHER -> Saturating(t.nextIdx, 1)

\* Arguments that do not continue what was sent are not sent.
Unsent(before, args) ==
    IF IsPrefix(before, args) THEN SubSeq(args, Len(before) + 1, Len(args)) ELSE <<>>

\* The frames for the call with this ordinal, after its part was collected.
ReportCall(t, call, ordinal, complete) ==
    LET before == Emitted(t, call.id)
        delta == Unsent(before, call.args)
        noted == IF delta # <<>> \/ before = <<>>
                 THEN [t EXCEPT !.emitted = [x \in DOMAIN @ \cup {call.id} |->
                                                IF x = call.id THEN call.args ELSE @[x]]]
                 ELSE t
        begun == IF call.id \in t.started THEN noted ELSE StartTool(noted, call, ordinal)
        idx == ToolIdx(begun, ordinal)
        said == IF delta = <<>> THEN begun
                ELSE Emit(begun, <<Event("delta", call.id, idx, delta)>>)
    IN  IF ~complete \/ dialect = "Chat" THEN said
        ELSE Emit(said, (IF dialect = "Responses"
                         THEN <<Event("content", call.id, idx, call.args)>> ELSE <<>>)
                        \o <<Event("stop", call.id, idx, <<>>)>>)

\* The call that is reported is the LAST one, whichever the part belongs to.
FeedTool(t, part) ==
    IF part = NoPart THEN t
    ELSE LET kept == [t EXCEPT !.out = apply_tool_call_part(@, part),
                               !.completed = IF part.complete THEN @ \cup {part.id} ELSE @]
         IN  ReportCall(kept, Last(kept.out.tools), Len(kept.out.tools) - 1, part.complete)

\* A mutant: the backfill is sent and not collected.
BackfillUncollected(t, reason) ==
    LET more == SubSeq(reason, Len(t.out.thinking) + 1, Len(reason))
    IN  IF ~IsPrefix(t.out.thinking, reason) \/ more = <<>> THEN t
        ELSE IF dialect = "Chat" \/ t.thinkOpen THEN ThinkingDelta(t, more)
        ELSE t

\* emit_thinking_backfill: only Chat and an open block can still take thinking.
Backfill(t, reason) ==
    LET more == SubSeq(reason, Len(t.out.thinking) + 1, Len(reason))
        kept == [t EXCEPT !.out.thinking = Backfilled(@, reason)]
    IN  IF ~IsPrefix(t.out.thinking, reason) \/ more = <<>> THEN t
        ELSE IF dialect = "Chat" \/ t.thinkOpen THEN ThinkingDelta(kept, more)
        ELSE kept

\* The stops (Responses: arguments and done events) of the calls the upstream did
\* not complete.  Responses counts their indexes back from the last item by how
\* many are open, and adds the ordinal among all the calls.
StopTools(t) ==
    LET tools == t.out.tools
        open == {i \in DOMAIN tools : tools[i].id \notin t.completed}
        base == Saturating(t.nextIdx, Cardinality(open))
        idx(i) == IF dialect = "Anthropic" THEN AllocToolIdx(t, i - 1) ELSE base + (i - 1)
        done(i) == IF dialect = "Responses"
                   THEN <<Event("content", tools[i].id, idx(i), tools[i].args)>> ELSE <<>>
        events(i) == IF i \notin open THEN <<>>
                     ELSE done(i) \o <<Event("stop", tools[i].id, idx(i), <<>>)>>
    IN Emit(t, FlattenSeq([i \in 1 .. Len(tools) |-> events(i)]))

\* The events that end the answer; those of Responses repeat the items, under the
\* ids the stream last gave to reasoning and message.
Final(t) ==
    LET id(p) == CASE p[1] = "call" -> p[2]
                   [] p[1] = "thinking" -> t.thinkItem
                   [] OTHER -> t.textItem
        items == [i \in DOMAIN Content(t.out, dialect) |-> id(Content(t.out, dialect)[i])]
    IN  Event("final", <<StopReason(t.out)>>, NoIdx,
              IF dialect = "Responses" THEN items ELSE <<>>)

\* finalize_events
finalize_events(t) ==
    LET closed == IF dialect = "Chat" THEN t ELSE StopTools(CloseText(CloseThinking(t)))
    IN  Emit(closed, <<Final(closed)>>)

FeedInfo(t, info) ==
    IF info = NoPart THEN t
    ELSE finalize_events(
            [Backfill(t, info.reason) EXCEPT
                !.out.truncated = info.truncated,
                !.out.signed = @ \/ (info.signed /\ info.reason # <<>>)])

feed(t, f) ==
    LET counted == IF f.usage = NoPart THEN t
                   ELSE [t EXCEPT !.usage = extract_usage(f.usage)]
    IN  FeedInfo(FeedTool(FeedText(FeedThinking(Preamble(counted),
            f.think), f.text), f.tool), f.info)

-----------------------------------------------------------------------------
StreamInit ==
    /\ dialect \in Dialects
    /\ buf = <<>> /\ partial = FALSE /\ body = "open"
    /\ phase = "peek" /\ result = "none"
    /\ tr = NewTranslator /\ full = EmptyOut
    /\ fed = <<>> /\ arrived = 0

consumer == <<phase, result, tr, full, fed>>

\* FrameStream::poll_next reads the body only when no whole frame is buffered.
\* A chunk ends some frames, the one begun before first, and may begin another.
Reading == phase # "done" /\ buf = <<>> /\ body = "open"

ReadChunk ==
    /\ Reading
    /\ \E n \in 0..ChunkFrames : \E fs \in [1..n -> Frames] :
        /\ arrived + n <= MaxFrames
        /\ buf' = fs /\ arrived' = arrived + n
    /\ \E more \in BOOLEAN :
        /\ more \/ buf' # <<>>
        /\ partial' = more
    /\ UNCHANGED <<dialect, body>> /\ UNCHANGED consumer

BodyEnds ==
    /\ Reading
    /\ body' \in {"ended", "failed"}
    /\ UNCHANGED <<dialect, buf, partial, arrived>> /\ UNCHANGED consumer

\* A mutant: bytes of a frame that is not whole are dropped at the end.
StreamEndsAnyway ==
    \/ buf # <<>> /\ Head(buf).kind = "end"
    \/ buf = <<>> /\ body = "ended"

\* An empty payload is skipped; with the end flag it ends the stream.
Skipped == buf # <<>> /\ Head(buf).kind = "empty"
HasObject == buf # <<>> /\ Head(buf).kind = "object"
StreamEnds ==
    \/ buf # <<>> /\ Head(buf).kind = "end"
    \/ buf = <<>> /\ body = "ended" /\ ~partial

\* A frame that cannot be decoded, a broken connection, or a body that ends
\* inside a frame.
StreamFails ==
    \/ buf # <<>> /\ Head(buf).kind = "bad"
    \/ buf = <<>> /\ body = "failed"
    \/ buf = <<>> /\ body = "ended" /\ partial

SkipEmpty ==
    /\ phase # "done" /\ Skipped
    /\ buf' = Tail(buf)
    /\ UNCHANGED <<dialect, partial, body, arrived>> /\ UNCHANGED consumer

\* CursorClient::stream waits for the first frame: an error in it is the error of
\* the call, and anything else is put back in front of the stream.
Peek ==
    /\ phase = "peek"
    /\ \/ /\ StreamFails \/ (HasObject /\ Head(buf).error)
          /\ phase' = "done" /\ result' = "rejected"
       \/ /\ StreamEnds \/ (HasObject /\ ~Head(buf).error)
          /\ phase' = "stream" /\ UNCHANGED result
    /\ UNCHANGED <<dialect, buf, partial, body, tr, full, fed, arrived>>

\* upstream_to_dialect_stream: a terminal frame ends the answer.
Feed ==
    /\ phase = "stream" /\ HasObject
    /\ LET f == Head(buf) IN
        /\ buf' = Tail(buf)
        /\ fed' = Append(fed, f)
        /\ full' = CollectFull(full, f)
        /\ tr' = IF f.error THEN tr ELSE feed(tr, f)
        /\ phase' = IF f.error \/ Terminal(f) THEN "done" ELSE phase
        /\ result' = IF f.error THEN "error" ELSE IF Terminal(f) THEN "ok" ELSE result
    /\ UNCHANGED <<dialect, partial, body, arrived>>

Fail ==
    /\ phase = "stream" /\ StreamFails
    /\ phase' = "done" /\ result' = "error"
    /\ UNCHANGED <<dialect, buf, partial, body, tr, full, fed, arrived>>

\* The upstream ended without a terminal frame: the answer is ended all the same.
EndOfStream ==
    /\ phase = "stream" /\ StreamEnds
    /\ tr' = finalize_events(tr)
    /\ phase' = "done" /\ result' = "ok"
    /\ UNCHANGED <<dialect, buf, partial, body, full, fed, arrived>>

StreamNext ==
    \/ ReadChunk \/ BodyEnds \/ SkipEmpty \/ Peek \/ Feed \/ Fail \/ EndOfStream

StreamSpec == StreamInit /\ [][StreamNext]_streamVars

-----------------------------------------------------------------------------
EventsOf(ev) == {i \in DOMAIN tr.sent : tr.sent[i].ev = ev}
Told(item) ==
    FlattenSeq([i \in DOMAIN tr.sent |->
        IF tr.sent[i].ev = "delta" /\ tr.sent[i].item = item THEN tr.sent[i].data ELSE <<>>])
ToldKind(kind) ==
    FlattenSeq([i \in DOMAIN tr.sent |->
        IF tr.sent[i].ev = "delta" /\ tr.sent[i].item[1] = kind THEN tr.sent[i].data ELSE <<>>])

\* Upstreams send thinking, then text, then one call after the other.  The
\* translator takes parts in any order; some promises need this one.
Ranks(f) ==
    (IF f.think # NoPart THEN {1} ELSE {}) \cup (IF f.text # <<>> THEN {2} ELSE {})
    \cup (IF f.tool # NoPart THEN {3} ELSE {})
Orderly ==
    /\ \A i, j \in DOMAIN fed : i < j =>
        /\ \A a \in Ranks(fed[i]), b \in Ranks(fed[j]) : a <= b
        /\ fed[i].tool # NoPart /\ fed[j].tool # NoPart =>
            \/ fed[i].tool.id # fed[j].tool.id
            \/ /\ ~fed[i].tool.complete
               /\ \A k \in i..j : fed[k].tool # NoPart => fed[k].tool.id = fed[i].tool.id
    /\ \A i \in DOMAIN fed : fed[i].tool # NoPart => fed[i].tool.id # NoText
AllOrNone ==
    tr.completed \in {{}, {tr.out.tools[i].id : i \in DOMAIN tr.out.tools}}
OnlyFragments ==
    \A i \in DOMAIN fed : fed[i].tool # NoPart => fed[i].tool.args \notin DOMAIN Fields

\* An answer is ended for the client once and nothing follows, exactly when the
\* translation succeeded; and an upstream that broke off inside a frame, sent one
\* that cannot be decoded, or lost its connection is never taken for a whole
\* answer (poll_next, upstream_to_dialect_stream).
EndedOnce ==
    /\ Cardinality(EventsOf("final")) = IF result = "ok" THEN 1 ELSE 0
    /\ \A i \in EventsOf("final") : i = Len(tr.sent)
    /\ result = "ok" =>
        \/ \E i \in DOMAIN fed : Terminal(fed[i])
        \/ buf # <<>> /\ Head(buf).kind = "end"
        \/ body = "ended" /\ ~partial

\* A client that asks for a stream and one that does not are given the same
\* answer: the two loops over the frames collect the same texts and calls
\* (feed, upstream_to_dialect_full).
StreamAgreesWithFull ==
    result = "ok" =>
        /\ Content(tr.out, dialect) = Content(full, dialect)
        /\ StopReason(tr.out) = StopReason(full)

\* What the client puts together from the increments is what was collected: all
\* of the text in any order of frames, all of the thinking in Chat and a beginning
\* of it elsewhere (a backfill may find the block closed), and the arguments of
\* every call when calls come one after the other in fragments.
ClientReadsAnswer ==
    /\ ToldKind("text") = tr.out.text
    /\ IsPrefix(ToldKind("thinking"), tr.out.thinking)
    /\ dialect = "Chat" => ToldKind("thinking") = tr.out.thinking
    /\ Orderly /\ OnlyFragments =>
        \A i \in DOMAIN tr.out.tools : Told(tr.out.tools[i].id) = tr.out.tools[i].args

\* Each block or item is started once, all its events lie between its start and
\* its stop under one index, and an answer that ended leaves none open; the items
\* a Responses stream showed are those of its last event
\* (anthropic_stream_blocks_start_and_stop_exactly_once,
\* responses_stream_items_are_consistent).
Well(x) ==
    LET at(ev) == {i \in EventsOf(ev) : tr.sent[i].idx = x}
        inside == UNION {at(ev) : ev \in {"delta", "signature", "content"}}
    IN  /\ Cardinality(at("start")) = 1 /\ Cardinality(at("stop")) <= 1
        /\ result = "ok" => at("stop") # {}
        /\ \A s \in at("start"), i \in inside : s < i /\ tr.sent[i].item = tr.sent[s].item
        /\ \A e \in at("stop"), i \in inside \cup at("start") : i < e
BlocksPaired ==
    dialect # "Chat" /\ Orderly /\ (dialect = "Responses" => AllOrNone) =>
        /\ \A x \in {tr.sent[i].idx : i \in DOMAIN tr.sent} \ {NoIdx} : Well(x)
        /\ dialect = "Responses" /\ result = "ok" =>
            \A i \in EventsOf("start") :
                \E k \in DOMAIN Last(tr.sent).data : Last(tr.sent).data[k] = tr.sent[i].item

\* Tokens that the upstream counts in the input and as cache traffic are charged
\* once: "input" is left without them (comment on extract_usage).
UsageCountedOnce ==
    \A i \in DOMAIN fed : fed[i].usage # NoPart =>
        LET raw == fed[i].usage
            u == extract_usage(raw)
            total == IF raw.prompt # NoCount THEN raw.prompt ELSE raw.input
        IN  (raw.extended \/ raw.prompt # NoCount) /\ total >= raw.read + raw.write
            /\ raw.cached = 0
                => u.input + u.read + u.write = total
=============================================================================
