CONSTANTS
    Endpoint = {e1, e2}
    Url = {u1, u2}
    Source = {s1, s2}
    Rule = {r1}
    Plain = Plain
    Everyone = Everyone
    MaxWrites = 5
    MaxDepth = 3
SPECIFICATION Spec
SYMMETRY Names
INVARIANT QuietAnswersAreRight
INVARIANT QuietRequestsComeThroughOnce
