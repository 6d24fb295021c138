CONSTANTS
    Files = {"a", "b"}
    Contents = {"a1", "a2", "a3", "b1", "b2", "b3"}
    CanHold <- MCCanHold
    Absent = Absent
    Rules = {"p", "x"}
    CrossRules = {"x"}
    Directives <- MCDirectives
    Findings <- MCFindings
    Facts <- MCFacts
    Admitted <- MCAdmitted
    Reported <- MCReported
    Failed = Failed
    Never = Never
    MaxDay = 1
SPECIFICATION Spec
INVARIANTS
    SilencedExactly
    UnusedIsFree
    DebtIsFound
