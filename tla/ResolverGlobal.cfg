CONSTANTS
    Endpoint = {e1}
    Url = {u1}
    Source = {s1}
    Rule = {r1}
    Plain = Plain
    Everyone = Everyone
    MaxWrites = 3
    MaxDepth = 3
SPECIFICATION Spec
INVARIANT GlobalRulesApply
