----------------------------- MODULE MCShaping -----------------------------
(***************************************************************************)
(* Model checking of Shaping: five turns, two tools, two accounts.         *)
(***************************************************************************)
EXTENDS Shaping

FiveTexts == <<"one", "two", "three", "four", "five">>
Client(dialect, system, ident, choice, json) ==
    [dialect |-> dialect, system |-> system, ident |-> ident,
     choice |-> choice, json |-> json]

\* Every dialect with and without a system text, every way to be identified.
SomeClients ==
    {Client("chat", <<>>, "session", "named", FALSE),
     Client("chat", <<"system">>, "given", "auto", TRUE),
     Client("chat", <<>>, "empty", "none", FALSE),
     Client("anthropic", <<"system">>, "none", "any", FALSE),
     Client("anthropic", <<>>, "user", "named", FALSE),
     Client("responses", <<"system">>, "none", "absent", FALSE),
     Client("responses", <<>>, "conversation", "required", FALSE)}
TwoTools(id) == IF id % 2 = 0 THEN "read" ELSE "write"
=============================================================================
