----------------------------- MODULE MCToolCalls -----------------------------
(***************************************************************************)
(* ToolCalls for TLC: two calls at most in one answer, a tool that is      *)
(* allowed, asked about or denied, and one that is not registered.         *)
(***************************************************************************)
EXTENDS ToolCalls

MCPending == {1, 2}
MCTool == {"shell"}
MCCall == {[tool |-> t, args |-> "a"] : t \in {"shell", "gone"}}
MCTrim == [n \in {"shell", "gone", " shell"} |-> IF n = " shell" THEN "shell" ELSE n]
MCDefaultLevel == [t \in MCTool |-> "ask"]

Pol(default, tools, allow, ask, deny) ==
    [default |-> default, tools |-> tools, allow |-> allow, ask |-> ask, deny |-> deny]
NoMap == [t \in {} |-> "ask"]

\* Direct messages, with policy pol.
Dm(pol) == [policies |-> [c \in {"dm", "group"} |-> IF c = "dm" THEN pol ELSE NoPolicy],
            context |-> "dm", requester |-> FALSE, elevated |-> FALSE]

\* The shell is asked about, with a requester, with elevation, or with neither;
\* it is denied, in the list with spaces, or in the mapping with spaces, where the
\* lookup does not find it; it is allowed; the context is unknown.
\* The last two policies are not valid.
MCExecutors ==
    {[Dm(Pol("deny", [t \in {"shell"} |-> "ask"], {}, {}, {})) EXCEPT !.requester = r, !.elevated = ~r] : r \in BOOLEAN}
    \cup {Dm(pol) : pol \in {Pol("", NoMap, {}, {"shell"}, {}), Pol("allow", NoMap, {}, {}, {}),
                             Pol("allow", [t \in {" shell"} |-> "deny"], {}, {}, {})}}
    \cup {[Dm(Pol("allow", NoMap, {}, {}, {})) EXCEPT !.context = "channel"]}
    \cup {[Dm(pol) EXCEPT !.elevated = TRUE] :
            pol \in {Pol("", NoMap, {}, {}, {" shell"}),
                     Pol("", NoMap, {"shell"}, {}, {" shell"}),
                     Pol("", [t \in {"shell"} |-> "allow"], {}, {"shell"}, {})}}
==============================================================================
