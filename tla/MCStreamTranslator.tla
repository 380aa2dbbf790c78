------------------------ MODULE MCStreamTranslator ------------------------
\* Small instance of StreamTranslator: two calls with ids and parts without,
\* argument fragments and snapshots, and frames that carry several parts.
EXTENDS StreamTranslator

MCTokens == STRING
MCCallIds == {<<"tool", 1>>, <<"tool", 2>>}
MCFields ==
    (<<"o1">> :> [k |-> 1]) @@ (<<"o2">> :> [k |-> 2]) @@ (<<"o3">> :> [k |-> 1, l |-> 1])

Nothing ==
    [kind |-> "object", error |-> FALSE, think |-> NoPart, text |-> <<>>,
     tool |-> NoPart, info |-> NoPart, usage |-> NoPart]
Thought(text, signed) ==
    [Nothing EXCEPT !.think = [text |-> text, signed |-> signed]]
Word(token) == [Nothing EXCEPT !.text = <<token>>]
Part(n, args, complete) ==
    [Nothing EXCEPT !.tool =
        [id |-> IF n = 0 THEN NoText ELSE <<"tool", n>>,
         name |-> IF n = 2 THEN "g" ELSE "f", args |-> args, complete |-> complete]]
Info(reason, truncated) ==
    [Nothing EXCEPT !.info =
        [reason |-> reason, truncated |-> truncated, signed |-> FALSE]]
Raw(extended, prompt, read, write, cached) ==
    [extended |-> extended, prompt |-> prompt, input |-> 6, output |-> 1,
     read |-> read, write |-> write, cached |-> cached]

MCFrames ==
    {Thought(<<"t">>, FALSE), Thought(<<>>, TRUE), Word("x"),
     [Thought(<<"t">>, TRUE) EXCEPT !.text = <<"y">>],
     Part(1, <<"a">>, FALSE), Part(1, <<"a", "b">>, TRUE), Part(1, <<"o1">>, FALSE),
     Part(1, <<"o3">>, TRUE), Part(2, <<"c">>, FALSE), Part(2, <<"o2">>, TRUE),
     Part(0, <<"b">>, TRUE), Info(<<>>, FALSE), Info(<<"t", "t">>, TRUE),
     [Info(<<"u">>, FALSE) EXCEPT !.text = <<"x">>, !.usage = Raw(TRUE, NoCount, 3, 2, 0)],
     [Nothing EXCEPT !.error = TRUE], [Nothing EXCEPT !.kind = "empty"],
     [Nothing EXCEPT !.kind = "end"], [Nothing EXCEPT !.kind = "bad"]}

\* Frames of usage alone, in each of the shapes extract_usage knows.
UsageFrames ==
    {[Nothing EXCEPT !.usage = Raw(ext, prompt, read, write, cached)] :
        ext \in BOOLEAN, prompt \in {NoCount, 6}, read \in {0, 3}, write \in {0, 2},
        cached \in {0, 3}}
=============================================================================
