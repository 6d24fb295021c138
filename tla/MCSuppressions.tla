--------------------------- MODULE MCSuppressions ---------------------------
(* A small instance of Suppressions for TLC: p is a per-file rule, x a     *)
(* cross-file one.                                                         *)
EXTENDS Suppressions

NextLine(line, rules) ==
    [scope |-> "next-line", line |-> line, rules |-> rules, expires |-> Never]
WholeFile(line, rules) == [NextLine(line, rules) EXCEPT !.scope = "file"]

MCCanHold == [f \in Files |->
    IF f = "a" THEN {"a1", "a2", "a3"} ELSE {"b1", "b2", "b3", Absent}]

MCDirectives == [c \in Contents |->
    CASE c = "a1" -> <<NextLine(1, {"p", "x"})>>                \* used by either
      [] c = "a2" -> <<WholeFile(1, {"x"}), NextLine(2, {"x"})>> \* the second is never first
      [] c = "a3" -> <<WholeFile(1, {"p"}), NextLine(3, {"p"})>>
      [] c = "b1" -> <<WholeFile(3, {"x"})>>
      [] c = "b2" -> <<[NextLine(1, {"p"}) EXCEPT !.expires = 0]>>
      [] OTHER -> <<WholeFile(1, {"x"})>>]                      \* gated out

Found(rule, line) == [rule |-> rule, line |-> line]
MCFindings == [c \in Contents |->
    CASE c = "a1" -> {Found("p", 2), Found("p", 4)}
      [] c = "a3" -> {Found("p", 4)}
      [] c = "b1" -> {Found("p", 1)}
      [] c = "b2" -> {Found("p", 2)}
      [] OTHER -> {}]

Site(kind, line) == [kind |-> kind, line |-> line]
MCFacts == [c \in Contents |->
    CASE c = "a1" -> {Site("def", 2)}
      [] c = "a2" -> {Site("def", 3)}
      [] c \in {"b1", "b2"} -> {Site("use", 2)}
      [] OTHER -> {}]

MCAdmitted(c) == c # "b3"

\* x reports every definition that is used, and every use of nothing.
MCReported(sites) ==
    LET of(kind) == {s \in sites : s.fact.kind = kind}
        at(s) == [file |-> s.file, rule |-> "x", line |-> s.fact.line]
    IN IF of("def") = {} THEN {at(s) : s \in of("use")}
       ELSE IF of("use") = {} THEN {} ELSE {at(s) : s \in of("def")}
=============================================================================
