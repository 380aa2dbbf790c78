-------------------------- MODULE MCEgressProxies --------------------------
(* Three accounts, one of them bound by hand, and two nodes. *)
EXTENDS EgressProxies, TLC

Symmetric == Permutations(Requests)

CONSTANTS a1, a2, a3, n1, n2, u1, u2, u3

Manual == [a \in Accounts |-> IF a = a3 THEN n2 ELSE None]
Hash == [a \in Accounts |-> IF a = a1 THEN 0 ELSE 1]

node(i, u, on, max) == [id |-> i, url |-> u, enabled |-> on, maxAccounts |-> max]
section(on, req, m, ns, rs) ==
    [enabled |-> on, requireProxy |-> req, mode |-> m, nodes |-> ns, rules |-> rs]
rule(as, ns, m, p) == [accounts |-> as, nodes |-> ns, mode |-> m, priority |-> p]

\* Off; both nodes, one account each; one node moved to another url and the
\* other off; rules of several modes, and a cap.
Sections ==
    { section(FALSE, TRUE, "hash", <<node(n1, u1, TRUE, 0)>>, <<>>),
      section(TRUE, TRUE, "exclusive", <<node(n1, u1, TRUE, 0), node(n2, u2, TRUE, 0)>>, <<>>),
      section(TRUE, FALSE, "hash", <<node(n1, u3, TRUE, 0), node(n2, u2, FALSE, 0)>>, <<>>),
      section(TRUE, FALSE, "least_accounts", <<node(n1, u1, TRUE, 1), node(n2, u2, TRUE, 0)>>,
              <<rule({a1}, {n2}, "hash", 1), rule({a1, a2}, {n1, n2}, "round_robin", 2)>>) }
=============================================================================
