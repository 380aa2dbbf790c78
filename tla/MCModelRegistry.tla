-------------------------- MODULE MCModelRegistry --------------------------
(***************************************************************************)
(* Model checking of ModelRegistry: a family whose levels are complete, or *)
(* partly missing, or whose base the upstream reports itself; a family     *)
(* known upstream as cursor-grok only; and the alias kimi-k3.              *)
(***************************************************************************)
EXTENDS ModelRegistry

MCSegments == STRING
opus == <<"opus">>
grok == <<"grok">>
kimi == <<"kimi">>
OpusFast == <<"opus", "fast">>

Complete == {<<"opus", "high">>, <<"opus", "low">>, <<"opus", "low", "fast">>,
             <<"cursor", "grok", "high">>, <<"cursor", "grok", "medium">>}
Partial == {<<"opus", "max">>, <<"opus", "thinking", "high">>, <<"cursor", "grok", "fast">>}
WithBase == {opus, <<"opus", "high", "fast">>, <<"grok", "low">>, <<"kimi", "max">>}

ThreeLists == {Complete, Partial, WithBase}
MCManaged == {opus, OpusFast}
MCBuiltin == {grok}
MCSeen == {<<"opus", "high">>, <<"ghost", "low">>}
MCRules == {[tier |-> "auto", menu |-> "all", blocked |-> {"high"}],
            [tier |-> "medium", menu |-> "base", blocked |-> {"max"}],
            [tier |-> "auto", menu |-> "hidden", blocked |-> {}]}
Star(prefix, fast) == [prefix |-> prefix, star |-> TRUE, fast |-> fast]
Exact(name) == [prefix |-> name, star |-> FALSE, fast |-> FALSE]
MCMembers == {{Star(<<>>, FALSE)}, {Exact(opus)}}
MCPrices == {<<>>, <<"opus", "low", "fast">> :> 1 @@ <<"opus", "high">> :> 2}

Symmetric == Permutations(Handlers)
=============================================================================
