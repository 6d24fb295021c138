-------------------------- MODULE EngineRunProofs --------------------------
(***************************************************************************)
(* Proofs about EngineRun, for any number of files and threads, any rules  *)
(* and any order of thread steps, clock expiry and provider failure.       *)
(***************************************************************************)
EXTENDS EngineRun, TLAPS

\* The step sequence of a file, in the terms the handlers are described in.
LEMMA StepFacts ==
    ASSUME NEW s \in Seq(StepKinds)
    PROVE  /\ Len(s) \in Nat
           /\ \A i \in 1..Len(s) : s[i] \in StepKinds
    OBVIOUS

\* The constructors of errors and results build errors and results.
LEMMA ErrorFacts ==
    /\ NoError \in Error
    /\ NoError.kind = "none"
    /\ \A k \in ErrorKinds : RunWide(k) \in Error /\ RunWide(k).kind = k
    /\ \A f \in Files : /\ RuleFails(f) \in Error
                        /\ RuleFails(f).kind = "Rule"
                        /\ RuleFails(f).file = f
    BY SizesAssumption DEF NoError, RunWide, RuleFails, Error, ErrorKinds, Files

LEMMA ResultFacts ==
    /\ Pending \in ResultType /\ Pending.state = "pending" /\ Pending.entry = "none"
    /\ \A e \in EntryState : /\ Okay(e) \in ResultType
                             /\ Okay(e).state = "ok" /\ Okay(e).entry = e
    /\ \A e \in Error : /\ Erred(e) \in ResultType /\ Erred(e).state = "err"
                        /\ Erred(e).entry = "none" /\ Erred(e).error = e
    BY ErrorFacts DEF Pending, Okay, Erred, ResultType, EntryState

LEMMA ResultFields ==
    \A r \in ResultType : /\ r.state \in {"pending", "ok", "err"}
                          /\ r.entry \in EntryState
                          /\ r.error \in Error
    BY DEF ResultType

\* The initial states are well-typed.
LEMMA InitTypeOK == Init => TypeOK
    <1> SUFFICES ASSUME Init PROVE TypeOK
        OBVIOUS
    <1>1. profile \in [Files -> ProfileType] /\ mode \in ModeType
        BY ProfilesAssumption, ModesAssumption DEF Init
    <1>2. disk \in [Stored -> EntryState] /\ cache \in [Stored -> EntryState]
        BY DEF Init, NoEntries, EntryState
    <1>3. /\ sandbox \in [Workers -> Error] /\ poisoned \in [Workers -> Error]
          /\ provider \in Error /\ outcome \in Error
        BY ErrorFacts DEF Init
    <1>4. result \in [Files -> ResultType]
        BY ResultFacts DEF Init
    <1>5. /\ pc \in [Workers -> {"take", "begin", "run", "finish", "done"}]
          /\ at \in [Workers -> 0..N]
          /\ step \in [Workers -> Nat]
          /\ quality \in [Workers -> {"good", "degraded"}]
        BY SizesAssumption DEF Init
    <1> QED
        <2>1. cursor \in Nat \ {0} /\ spent \in Nat
            BY DEF Init
        <2>2. /\ expired \in BOOLEAN /\ overrun \in BOOLEAN
              /\ faulted \in BOOLEAN /\ landed \in BOOLEAN
            BY Zenon DEF Init
        <2>3. phase \in {"idle", "checking", "reducing", "ended"}
            BY DEF Init
        <2> QED
            BY <1>1, <1>2, <1>3, <1>4, <1>5, <2>1, <2>2, <2>3 DEF TypeOK

\* What pushing an error and making a handler call do to the types.
LEMMA PushTypes ==
    ASSUME TypeOK, InvHeld, NEW w \in Workers, Active(w), NEW e \in Error, Push(w, e)
    PROVE  /\ result' \in [Files -> ResultType]
           /\ pc' \in [Workers -> {"take", "begin", "run", "finish", "done"}]
    <1>1. at[w] \in Files /\ Erred(e) \in ResultType
        BY ResultFacts DEF InvHeld
    <1> QED
        BY <1>1 DEF Push, TypeOK

LEMMA WorkTypes ==
    ASSUME TypeOK, NEW w \in Workers, Work(w)
    PROVE  step' \in [Workers -> Nat] /\ spent' \in Nat
    BY DEF Work, TypeOK

LEMMA CallingActive ==
    ASSUME NEW w \in Workers, NEW K, Calling(w, K) PROVE Active(w)
    BY DEF Calling, Active

\* Every step preserves the types.
LEMMA NextTypeOK == TypeOK /\ InvHeld /\ [Next]_vars => TypeOK'
    <1> SUFFICES ASSUME TypeOK, InvHeld, [Next]_vars PROVE TypeOK'
        OBVIOUS
    <1>e. /\ NoError \in Error /\ RunWide("RunTimeout") \in Error
          /\ RunWide("AnalysisTimeout") \in Error /\ RunWide("Worker") \in Error
          /\ RunWide("Provider") \in Error /\ RunWide("Reduce") \in Error
        BY ErrorFacts DEF ErrorKinds
    <1>1. CASE Start
        <2>1. mode' \in ModeType
            BY <1>1, ModesAssumption DEF Start
        <2>2. cache' \in [Stored -> EntryState]
            BY <1>1 DEF Start, NoEntries, EntryState, TypeOK
        <2>3. result' \in [Files -> ResultType]
            BY <1>1, ResultFacts DEF Start
        <2>4. /\ sandbox' \in [Workers -> Error] /\ poisoned' \in [Workers -> Error]
              /\ provider' \in Error /\ outcome' \in Error
            BY <1>1, <1>e DEF Start
        <2> QED
            <3>1. /\ pc' \in [Workers -> {"take", "begin", "run", "finish", "done"}]
                  /\ at' \in [Workers -> 0..N]
                  /\ step' \in [Workers -> Nat]
                  /\ quality' \in [Workers -> {"good", "degraded"}]
                BY <1>1, SizesAssumption DEF Start
            <3>2. cursor' \in Nat \ {0} /\ spent' \in Nat
                BY <1>1 DEF Start
            <3>3. /\ expired' \in BOOLEAN /\ overrun' \in BOOLEAN
                  /\ faulted' \in BOOLEAN /\ landed' \in BOOLEAN
                BY <1>1, Zenon DEF Start
            <3>4. /\ phase' \in {"idle", "checking", "reducing", "ended"}
                  /\ profile' = profile /\ disk' = disk
                BY <1>1 DEF Start
            <3> QED
                BY <2>1, <2>2, <2>3, <2>4, <3>1, <3>2, <3>3, <3>4 DEF TypeOK
    <1>2. ASSUME NEW w \in Workers, Take(w) PROVE TypeOK'
        <2>1. cursor' \in Nat \ {0}
            BY <1>2 DEF Take, More, Advanced, TypeOK
        <2>2. at' \in [Workers -> 0..N]
            <3>1. CASE cursor \in Files /\ at' = [at EXCEPT ![w] = cursor]
                BY <3>1 DEF TypeOK, Files
            <3>2. CASE at' = at
                BY <3>2 DEF TypeOK
            <3> QED
                BY <1>2, <3>1, <3>2 DEF Take, More
        <2>3. pc' \in [Workers -> {"take", "begin", "run", "finish", "done"}]
            BY <1>2 DEF Take, TypeOK
        <2>4. step' \in [Workers -> Nat]
            BY <1>2 DEF Take, TypeOK
        <2>5. quality' \in [Workers -> {"good", "degraded"}]
            BY <1>2 DEF Take, TypeOK
        <2> QED
            BY <1>2, <2>1, <2>2, <2>3, <2>4, <2>5 DEF Take, TypeOK
    <1>3. ASSUME NEW w \in Workers, Begin(w) PROVE TypeOK'
        <2>1. Active(w)
            BY <1>3 DEF Begin, Active
        <2>2. /\ result' \in [Files -> ResultType]
              /\ pc' \in [Workers -> {"take", "begin", "run", "finish", "done"}]
            <3>1. CASE \E e \in Error : Push(w, e)
                BY <3>1, <2>1, PushTypes
            <3>2. CASE UNCHANGED result /\ pc' = [pc EXCEPT ![w] =
                          IF profile[at[w]].kind = "parse" /\ ~Hit(at[w])
                          THEN "run" ELSE "finish"]
                BY <3>2 DEF TypeOK
            <3> QED
                BY <1>3, <1>e, <3>1, <3>2 DEF Begin
        <2> QED
            BY <1>3, <2>2 DEF Begin, TypeOK
    <1>4. ASSUME NEW w \in Workers, SandboxFails(w) PROVE TypeOK'
        <2>1. PICK e \in {sandbox[w], RunWide("RunTimeout"), RunWide("Worker")} :
                  sandbox' = [sandbox EXCEPT ![w] = e] /\ Push(w, e)
            BY <1>4 DEF SandboxFails
        <2>2. e \in Error
            BY <1>e DEF TypeOK
        <2>3. Active(w) /\ Work(w)
            BY <1>4, CallingActive DEF SandboxFails
        <2>4. sandbox' \in [Workers -> Error]
            BY <2>1, <2>2 DEF TypeOK
        <2> QED
            BY <1>4, <2>1, <2>2, <2>3, <2>4, PushTypes, WorkTypes
            DEF SandboxFails, TypeOK
    <1>5. ASSUME NEW w \in Workers, Interrupted(w) PROVE TypeOK'
        <2>1. Active(w) /\ Work(w) /\ Push(w, RunWide("RunTimeout"))
            BY <1>5, CallingActive DEF Interrupted
        <2>2. poisoned' \in [Workers -> Error]
            BY <1>5, <1>e DEF Interrupted, TypeOK
        <2> QED
            BY <1>5, <1>e, <2>1, <2>2, PushTypes, WorkTypes DEF Interrupted, TypeOK
    <1>g. ASSUME NEW w \in Workers, GivesWay(w) PROVE TypeOK'
        <2>1. Active(w) /\ Work(w) /\ Push(w, RuleFails(at[w]))
            BY <1>g, CallingActive DEF GivesWay
        <2>2. RuleFails(at[w]) \in Error
            BY <2>1, ErrorFacts DEF InvHeld
        <2>3. poisoned' \in [Workers -> Error]
            BY <1>g, <2>2 DEF GivesWay, TypeOK
        <2>4. provider' \in Error
            BY <1>g, <1>e DEF GivesWay, TypeOK
        <2>5. /\ result' \in [Files -> ResultType]
              /\ pc' \in [Workers -> {"take", "begin", "run", "finish", "done"}]
            BY <2>1, <2>2, PushTypes
        <2> QED
            BY <1>g, <2>1, <2>3, <2>4, <2>5, WorkTypes DEF GivesWay, TypeOK
    <1>6. ASSUME NEW w \in Workers, ModuleStep(w) PROVE TypeOK'
        <2>1. Active(w) /\ Work(w)
            BY <1>6, CallingActive DEF ModuleStep
        <2>2. RuleFails(at[w]) \in Error
            BY <2>1, ErrorFacts DEF InvHeld
        <2>3. /\ result' \in [Files -> ResultType]
              /\ pc' \in [Workers -> {"take", "begin", "run", "finish", "done"}]
            BY <1>6, <2>1, <2>2, PushTypes DEF ModuleStep, TypeOK
        <2> QED
            BY <1>6, <2>1, <2>3, WorkTypes DEF ModuleStep, TypeOK
    <1>7. ASSUME NEW w \in Workers, QueryStep(w) PROVE TypeOK'
        <2>1. Work(w)
            BY <1>7 DEF QueryStep
        <2>2. quality' \in [Workers -> {"good", "degraded"}]
            BY <1>7 DEF QueryStep, TypeOK
        <2>3. provider' \in Error
            BY <1>7, <1>e DEF QueryStep, TypeOK
        <2>4. overrun' \in BOOLEAN /\ faulted' \in BOOLEAN
            BY <1>7, WorkAssumption DEF QueryStep, TypeOK
        <2> QED
            BY <1>7, <2>1, <2>2, <2>3, <2>4, WorkTypes DEF QueryStep, TypeOK
    <1>8. ASSUME NEW w \in Workers, ComponentStep(w) PROVE TypeOK'
        <2>1. Active(w) /\ Work(w)
            BY <1>8, CallingActive DEF ComponentStep
        <2>2. RuleFails(at[w]) \in Error /\ poisoned[w] \in Error
            BY <2>1, ErrorFacts DEF InvHeld, TypeOK
        <2>3. /\ result' \in [Files -> ResultType]
              /\ pc' \in [Workers -> {"take", "begin", "run", "finish", "done"}]
            BY <1>8, <2>1, <2>2, PushTypes DEF ComponentStep, TypeOK
        <2>4. poisoned' \in [Workers -> Error]
            BY <1>8, <2>2 DEF ComponentStep, TypeOK
        <2> QED
            BY <1>8, <2>1, <2>3, <2>4, WorkTypes DEF ComponentStep, TypeOK
    <1>9. ASSUME NEW w \in Workers, Handled(w) PROVE TypeOK'
        BY <1>9 DEF Handled, TypeOK
    <1>10. ASSUME NEW w \in Workers, Finish(w) PROVE TypeOK'
        <2>1. Active(w) /\ at[w] \in Files
            BY <1>10 DEF Finish, Active, InvHeld
        <2>2. EntryOf(w) \in EntryState
            BY <2>1, SizesAssumption DEF EntryOf, EntryState, TypeOK, Files, Stored
        <2>3. Okay(EntryOf(w)) \in ResultType
            BY <2>2, ResultFacts
        <2>4. /\ result' \in [Files -> ResultType]
              /\ pc' \in [Workers -> {"take", "begin", "run", "finish", "done"}]
            BY <1>10, <2>1, <2>3, PushTypes DEF Finish, ProviderFailure, TypeOK
        <2> QED
            BY <1>10, <2>4 DEF Finish, TypeOK
    <1>11. CASE Expire
        BY <1>11 DEF Expire, TypeOK
    <1>12. CASE Fold
        <2>1. Fresh \in [Stored -> EntryState]
            BY ResultFields DEF Fresh, EntryState, TypeOK
        <2>2. disk' \in [Stored -> EntryState]
            BY <1>12, <2>1 DEF Fold, Saved, Merged, TypeOK
        <2>3. outcome' \in Error
            BY <1>12, ResultFields DEF Fold, Failed, TypeOK
        <2>4. landed' \in BOOLEAN
            BY <1>12, Zenon DEF Fold, TypeOK
        <2> QED
            BY <1>12, <2>2, <2>3, <2>4 DEF Fold, TypeOK, threadVars, faultVars
    <1>13. CASE Reduce
        <2>1. outcome' \in Error
            BY <1>13, <1>e DEF Reduce, TypeOK
        <2> QED
            BY <1>13, <2>1 DEF Reduce, TypeOK, threadVars, faultVars
    <1>14. CASE UNCHANGED vars
        BY <1>14 DEF vars, TypeOK
    <1> QED
        BY <1>1, <1>2, <1>3, <1>4, <1>5, <1>g, <1>6, <1>7, <1>8, <1>9, <1>10, <1>11,
           <1>12, <1>13, <1>14 DEF Next, Thread

-----------------------------------------------------------------------------
(* Seen from the cursor and the result list, a thread takes an index, leaves *)
(* its file with a result, or stays with it.                                 *)

Leaves(w) ==
    /\ Active(w)
    /\ \E r \in ResultType : /\ r.state \in {"ok", "err"}
                             /\ result' = [result EXCEPT ![at[w]] = r]
    /\ pc' = [pc EXCEPT ![w] = "take"]
    /\ UNCHANGED <<at, cursor, phase, outcome>>

Stays(w) ==
    /\ Active(w)
    /\ \E x \in {"begin", "run", "finish"} : pc' = [pc EXCEPT ![w] = x]
    /\ UNCHANGED <<result, at, cursor, phase, outcome>>

LEMMA PushLeaves ==
    ASSUME TypeOK, NEW w \in Workers, Active(w), NEW e \in Error, Push(w, e),
           UNCHANGED <<at, cursor, phase, outcome>>
    PROVE  Leaves(w)
    <1>1. Erred(e) \in ResultType /\ Erred(e).state = "err"
        BY ResultFacts
    <1> QED
        BY <1>1 DEF Push, Leaves

LEMMA SameStays ==
    ASSUME TypeOK, NEW w \in Workers, Active(w),
           UNCHANGED <<pc, result, at, cursor, phase, outcome>>
    PROVE  Stays(w)
    <1>1. pc' = [pc EXCEPT ![w] = pc[w]]
        BY DEF TypeOK
    <1> QED
        BY <1>1 DEF Stays, Active

LEMMA ThreadShape ==
    ASSUME TypeOK, InvHeld, NEW w \in Workers, Thread(w)
    PROVE  Take(w) \/ Leaves(w) \/ Stays(w)
    <1>e. /\ RunWide("RunTimeout") \in Error /\ RunWide("AnalysisTimeout") \in Error
          /\ RunWide("Worker") \in Error
          /\ provider \in Error /\ sandbox[w] \in Error /\ poisoned[w] \in Error
        BY ErrorFacts DEF ErrorKinds, TypeOK
    <1>f. Active(w) => RuleFails(at[w]) \in Error
        BY ErrorFacts DEF InvHeld
    <1>1. CASE Begin(w)
        <2>1. Active(w) /\ UNCHANGED <<at, cursor, phase, outcome>>
            BY <1>1 DEF Begin, Active
        <2>2. CASE \E e \in Error : Push(w, e)
            BY <2>1, <2>2, PushLeaves
        <2>3. CASE UNCHANGED result /\ pc' = [pc EXCEPT ![w] =
                      IF profile[at[w]].kind = "parse" /\ ~Hit(at[w])
                      THEN "run" ELSE "finish"]
            BY <2>1, <2>3 DEF Stays
        <2> QED
            BY <1>1, <1>e, <2>2, <2>3 DEF Begin
    <1>2. CASE SandboxFails(w)
        <2>1. Active(w) /\ UNCHANGED <<at, cursor, phase, outcome>>
            BY <1>2, CallingActive DEF SandboxFails
        <2>2. \E e \in Error : Push(w, e)
            BY <1>2, <1>e DEF SandboxFails
        <2> QED
            BY <2>1, <2>2, PushLeaves
    <1>3. CASE Interrupted(w)
        <2>1. Active(w) /\ UNCHANGED <<at, cursor, phase, outcome>>
            BY <1>3, CallingActive DEF Interrupted
        <2> QED
            BY <1>3, <1>e, <2>1, PushLeaves DEF Interrupted
    <1>g. CASE GivesWay(w)
        <2>1. Active(w) /\ UNCHANGED <<at, cursor, phase, outcome>>
            BY <1>g, CallingActive DEF GivesWay
        <2> QED
            BY <1>g, <1>f, <2>1, PushLeaves DEF GivesWay
    <1>4. CASE ModuleStep(w)
        <2>1. Active(w) /\ UNCHANGED <<at, cursor, phase, outcome>>
            BY <1>4, CallingActive DEF ModuleStep
        <2>2. Push(w, RuleFails(at[w])) \/ UNCHANGED <<result, pc>>
            BY <1>4 DEF ModuleStep
        <2> QED
            BY <1>f, <2>1, <2>2, PushLeaves, SameStays
    <1>5. CASE QueryStep(w)
        <2>1. Active(w) /\ UNCHANGED <<pc, result, at, cursor, phase, outcome>>
            BY <1>5, CallingActive DEF QueryStep
        <2> QED
            BY <2>1, SameStays
    <1>6. CASE ComponentStep(w)
        <2>1. Active(w) /\ UNCHANGED <<at, cursor, phase, outcome>>
            BY <1>6, CallingActive DEF ComponentStep
        <2>2. \/ Push(w, poisoned[w]) \/ Push(w, RuleFails(at[w]))
              \/ UNCHANGED <<result, pc>>
            BY <1>6 DEF ComponentStep
        <2> QED
            BY <1>e, <1>f, <2>1, <2>2, PushLeaves, SameStays
    <1>7. CASE Handled(w)
        BY <1>7 DEF Handled, Stays, Active
    <1>8. CASE Finish(w)
        <2>1. Active(w) /\ UNCHANGED <<at, cursor, phase, outcome>>
            BY <1>8 DEF Finish, Active
        <2>2. CASE Push(w, provider)
            BY <1>e, <2>1, <2>2, PushLeaves
        <2>3. CASE /\ result' = [result EXCEPT ![at[w]] = Okay(EntryOf(w))]
                   /\ pc' = [pc EXCEPT ![w] = "take"]
            <3>1. EntryOf(w) \in EntryState
                BY <2>1, SizesAssumption
                DEF EntryOf, EntryState, TypeOK, InvHeld, Files, Stored
            <3>2. Okay(EntryOf(w)) \in ResultType /\ Okay(EntryOf(w)).state = "ok"
                BY <3>1, ResultFacts
            <3> QED
                BY <2>1, <2>3, <3>2 DEF Leaves
        <2> QED
            BY <1>8, <2>2, <2>3 DEF Finish, ProviderFailure
    <1> QED
        BY <1>1, <1>2, <1>3, <1>g, <1>4, <1>5, <1>6, <1>7, <1>8 DEF Thread

\* No two threads hold one file, and a held file has no result.
LEMMA NextInvHeld == TypeOK /\ InvHeld /\ InvPassed /\ [Next]_vars => InvHeld'
    <1> SUFFICES ASSUME TypeOK, InvHeld, InvPassed, [Next]_vars PROVE InvHeld'
        OBVIOUS
    <1>1. CASE Start
        <2>1. result' = [f \in Files |-> Pending] /\ Pending.state = "pending"
            BY <1>1, ResultFacts DEF Start
        <2> QED
            BY <1>1, <2>1 DEF Start, InvHeld, Active
    <1>2. ASSUME NEW w \in Workers, Take(w) PROVE InvHeld'
        <2>1. CASE cursor \in Files
            <3>1. result[cursor].state = "pending"
                BY <1>2, <2>1 DEF InvHeld, InvPassed, Take, TypeOK
            <3>2. /\ cursor' = cursor + 1 /\ result' = result /\ phase' = phase
                  /\ at' = [at EXCEPT ![w] = cursor]
                  /\ pc' = [pc EXCEPT ![w] = "begin"]
                BY <1>2, <2>1 DEF Take, More, Advanced
            <3> QED
                BY <2>1, <3>1, <3>2 DEF InvHeld, Active, TypeOK, Files
        <2>2. CASE cursor \notin Files
            <3>1. /\ cursor' = cursor + 1 /\ result' = result /\ phase' = phase
                  /\ at' = at /\ pc' = [pc EXCEPT ![w] = "done"]
                BY <1>2, <2>2 DEF Take, More, Advanced
            <3> QED
                BY <3>1 DEF InvHeld, Active, TypeOK, Files
        <2> QED
            BY <2>1, <2>2
    <1>3. ASSUME NEW w \in Workers, Leaves(w) PROVE InvHeld'
        BY <1>3 DEF Leaves, InvHeld, Active, TypeOK, Files
    <1>4. ASSUME NEW w \in Workers, Stays(w) PROVE InvHeld'
        BY <1>4 DEF Stays, InvHeld, Active, TypeOK
    <1>5. CASE Expire \/ Fold \/ Reduce \/ UNCHANGED vars
        BY <1>5 DEF Expire, Fold, Reduce, vars, threadVars, InvHeld, Active
    <1> QED
        BY <1>1, <1>2, <1>3, <1>4, <1>5, ThreadShape DEF Next

\* Every file the cursor has passed is accounted for, so the fold sees them all.
LEMMA NextInvPassed == TypeOK /\ InvHeld /\ InvPassed /\ [Next]_vars => InvPassed'
    <1> SUFFICES ASSUME TypeOK, InvHeld, InvPassed, [Next]_vars PROVE InvPassed'
        OBVIOUS
    <1>1. CASE Start
        BY <1>1 DEF Start, InvPassed, Files
    <1>2. ASSUME NEW w \in Workers, Take(w) PROVE InvPassed'
        <2>1. phase = "checking" /\ phase' = "checking" /\ ~Active(w)
            BY <1>2 DEF Take, InvPassed, Active
        <2>2. CASE cursor \in Files
            <3>1. /\ cursor' = cursor + 1 /\ result' = result /\ outcome' = outcome
                  /\ at' = [at EXCEPT ![w] = cursor]
                  /\ pc' = [pc EXCEPT ![w] = "begin"]
                BY <1>2, <2>2 DEF Take, More, Advanced
            <3>2. ASSUME NEW f \in Files, f < cursor'
                  PROVE  \/ result'[f].state # "pending"
                         \/ \E v \in Workers : Active(v)' /\ at'[v] = f
                <4>1. CASE f = cursor
                    BY <3>1, <4>1 DEF Active, TypeOK
                <4>2. CASE f < cursor
                    BY <2>1, <3>1, <4>2 DEF InvPassed, Active, TypeOK
                <4> QED
                    BY <3>1, <3>2, <4>1, <4>2 DEF TypeOK, Files
            <3>3. \A v \in Workers : pc'[v] = "done" => cursor' > N
                BY <2>1, <3>1, SizesAssumption DEF InvPassed, TypeOK
            <3> QED
                BY <2>1, <3>1, <3>2, <3>3 DEF InvPassed
        <2>3. CASE cursor \notin Files
            <3>1. /\ cursor' = cursor + 1 /\ result' = result /\ outcome' = outcome
                  /\ at' = at /\ pc' = [pc EXCEPT ![w] = "done"]
                BY <1>2, <2>3 DEF Take, More, Advanced
            <3>2. cursor > N
                BY <2>3, SizesAssumption DEF Files, TypeOK
            <3>3. \A f \in Files : f < cursor
                BY <3>2, SizesAssumption DEF Files, TypeOK
            <3> QED
                BY <2>1, <3>1, <3>2, <3>3, SizesAssumption DEF InvPassed, Active, TypeOK
        <2> QED
            BY <2>2, <2>3
    <1>3. ASSUME NEW w \in Workers, Leaves(w) PROVE InvPassed'
        BY <1>3 DEF Leaves, InvHeld, InvPassed, Active, TypeOK
    <1>4. ASSUME NEW w \in Workers, Stays(w) PROVE InvPassed'
        BY <1>4 DEF Stays, InvPassed, Active, TypeOK
    <1>5. CASE Expire \/ UNCHANGED vars
        BY <1>5 DEF Expire, vars, InvPassed, Active
    <1>6. CASE Fold
        <2>1. \A w \in Workers : ~Active(w) /\ cursor > N
            BY <1>6 DEF Fold, InvPassed, Active
        <2>2. \A f \in Files : result[f].state # "pending"
            BY <1>6, <2>1, WorkersAssumption, SizesAssumption
            DEF Fold, InvPassed, Files, TypeOK
        <2>3. Failed = {} => \A f \in Files : result[f].state = "ok"
            BY <2>2, ResultFields DEF Failed, TypeOK
        <2> QED
            BY <1>6, <2>2, <2>3 DEF Fold, InvPassed, threadVars
    <1>7. CASE Reduce
        BY <1>7 DEF Reduce, InvPassed, threadVars
    <1> QED
        BY <1>1, <1>2, <1>3, <1>4, <1>5, <1>6, <1>7, ThreadShape DEF Next

-----------------------------------------------------------------------------
(* A file that completes does not fail by itself.                            *)

LEMMA FrameFails ==
    ASSUME UNCHANGED <<profile, cache>>
    PROVE  \A f \in Files : Fails(f)' = Fails(f) /\ Hit(f)' = Hit(f)
    BY DEF Fails, FailingSteps, Hit

LEMMA PushHandlers ==
    ASSUME TypeOK, InvHeld, InvHandlers, NEW w \in Workers, Active(w),
           NEW e \in Error, Push(w, e), UNCHANGED <<profile, cache, at>>,
           step' = step \/ step' = [step EXCEPT ![w] = @ + 1]
    PROVE  InvHandlers'
    <1>1. /\ at[w] \in Files
          /\ result' = [result EXCEPT ![at[w]] = Erred(e)] /\ Erred(e).state = "err"
          /\ pc' = [pc EXCEPT ![w] = "take"]
        BY ResultFacts DEF InvHeld, Push
    <1>2. \A v \in Workers : v # w => step'[v] = step[v] /\ pc'[v] = pc[v]
        BY <1>1 DEF TypeOK
    <1>3. pc'[w] = "take"
        BY <1>1 DEF TypeOK
    <1>4. \A f \in Files : result'[f].state = "ok" => result[f].state = "ok"
        BY <1>1 DEF TypeOK
    <1>5. \A f \in Files : Fails(f)' = Fails(f) /\ Hit(f)' = Hit(f)
        BY FrameFails
    <1> QED
        BY <1>2, <1>3, <1>4, <1>5 DEF InvHandlers, InvHeld, Active, TypeOK, Fails, FailingSteps, Hit

\* A handler call that returns moves the thread past a call that does not fail.
LEMMA PassHandlers ==
    ASSUME TypeOK, InvHeld, InvHandlers, NEW w \in Workers,
           Calling(w, {"module", "query", "component"}), Work(w),
           UNCHANGED <<profile, cache, at, pc, result>>
    PROVE  InvHandlers'
    <1>1. /\ pc[w] = "run" /\ at[w] \in Files
          /\ step' = [step EXCEPT ![w] = step[w] + 1]
          /\ step[w] < Len(profile[at[w]].steps)
          /\ profile[at[w]].steps[step[w] + 1] \notin FailKinds
        BY CallingActive DEF Calling, Work, InvHeld, NextStep, Steps, FailKinds
    <1>2. profile[at[w]].steps \in Seq(StepKinds) /\ Len(profile[at[w]].steps) \in Nat
        BY <1>1 DEF TypeOK, ProfileType
    <1>3. step[w] \in Nat /\ step'[w] = step[w] + 1
        BY <1>1 DEF TypeOK
    <1>4. /\ step'[w] <= Len(profile[at[w]].steps)
          /\ \A i \in 1..step'[w] : profile[at[w]].steps[i] \notin FailKinds
        BY <1>1, <1>2, <1>3 DEF InvHandlers
    <1>5. \A v \in Workers : v # w => step'[v] = step[v]
        BY <1>1 DEF TypeOK
    <1> QED
        BY <1>1, <1>4, <1>5 DEF InvHandlers, Fails, FailingSteps, Hit

LEMMA NextInvHandlers ==
    TypeOK /\ InvHeld /\ InvPassed /\ InvHandlers /\ [Next]_vars => InvHandlers'
    <1> SUFFICES ASSUME TypeOK, InvHeld, InvPassed, InvHandlers, [Next]_vars
                 PROVE  InvHandlers'
        OBVIOUS
    <1>e. /\ RunWide("RunTimeout") \in Error /\ RunWide("AnalysisTimeout") \in Error
          /\ RunWide("Worker") \in Error /\ provider \in Error
        BY ErrorFacts DEF ErrorKinds, TypeOK
    <1>1. CASE Start
        <2>1. result' = [f \in Files |-> Pending] /\ Pending.state = "pending"
            BY <1>1, ResultFacts DEF Start
        <2> QED
            BY <1>1, <2>1 DEF Start, InvHandlers
    <1>2. ASSUME NEW w \in Workers, Take(w) PROVE InvHandlers'
        <2>1. /\ UNCHANGED <<profile, cache, result>>
              /\ pc[w] = "take" /\ pc'[w] \in {"begin", "done"}
              /\ pc'[w] = "begin" => step'[w] = 0
              /\ \A v \in Workers : v # w => /\ pc'[v] = pc[v] /\ at'[v] = at[v]
                                             /\ step'[v] = step[v]
            BY <1>2 DEF Take, TypeOK
        <2>2. \A f \in Files : Fails(f)' = Fails(f) /\ Hit(f)' = Hit(f)
            BY <2>1, FrameFails
        <2>3. \A v \in Workers : pc[v] \in {"run", "finish"} => at[v] \in Files
            BY DEF InvHeld, Active
        <2>4. \A f \in Files : result'[f].state = "ok" => ~Fails(f)'
            BY <2>1, <2>2 DEF InvHandlers
        <2>5. ASSUME NEW v \in Workers
              PROVE  /\ pc'[v] = "run" =>
                          /\ profile'[at'[v]].kind = "parse" /\ ~Hit(at[v])'
                          /\ step'[v] <= Len(profile'[at'[v]].steps)
                          /\ \A i \in 1..step'[v] : profile'[at'[v]].steps[i] \notin FailKinds
                     /\ pc'[v] = "begin" => step'[v] = 0
                     /\ pc'[v] = "finish" => ~Fails(at[v])'
            <3>1. CASE v = w
                BY <2>1, <3>1
            <3>2. CASE v # w
                BY <2>1, <2>3, <3>2 DEF InvHandlers, Fails, FailingSteps, Hit
            <3> QED
                BY <3>1, <3>2
        <2> QED
            BY <2>4, <2>5 DEF InvHandlers, FailKinds
    <1>3. ASSUME NEW w \in Workers, Begin(w) PROVE InvHandlers'
        <2>1. Active(w) /\ UNCHANGED <<profile, cache, at, step>>
            BY <1>3 DEF Begin, Active
        <2>2. CASE \E e \in Error : Push(w, e)
            BY <2>1, <2>2, PushHandlers
        <2>3. CASE UNCHANGED result /\ pc' = [pc EXCEPT ![w] =
                      IF profile[at[w]].kind = "parse" /\ ~Hit(at[w])
                      THEN "run" ELSE "finish"]
            <3>1. step[w] = 0 /\ at[w] \in Files
                BY <1>3, <2>1 DEF Begin, InvHandlers, InvHeld
            <3>2. Len(profile[at[w]].steps) \in Nat
                BY <3>1 DEF TypeOK, ProfileType
            <3>3. \A v \in Workers : v # w => pc'[v] = pc[v]
                BY <2>3 DEF TypeOK
            <3>4. pc'[w] = IF profile[at[w]].kind = "parse" /\ ~Hit(at[w])
                           THEN "run" ELSE "finish"
                BY <2>3 DEF TypeOK
            <3> QED
                BY <2>1, <2>3, <3>1, <3>2, <3>3, <3>4 DEF InvHandlers, Fails, FailingSteps, Hit
        <2> QED
            BY <1>3, <1>e, <2>2, <2>3 DEF Begin
    <1>4. ASSUME NEW w \in Workers, SandboxFails(w) PROVE InvHandlers'
        <2>1. /\ Active(w) /\ UNCHANGED <<profile, cache, at>>
              /\ step' = [step EXCEPT ![w] = @ + 1]
            BY <1>4, CallingActive DEF SandboxFails, Work
        <2>2. \E e \in Error : Push(w, e)
            BY <1>4, <1>e DEF SandboxFails, TypeOK
        <2> QED
            BY <2>1, <2>2, PushHandlers
    <1>5. ASSUME NEW w \in Workers, Interrupted(w) PROVE InvHandlers'
        <2>1. /\ Active(w) /\ UNCHANGED <<profile, cache, at>>
              /\ step' = [step EXCEPT ![w] = @ + 1]
            BY <1>5, CallingActive DEF Interrupted, Work
        <2> QED
            BY <1>5, <1>e, <2>1, PushHandlers DEF Interrupted
    <1>g. ASSUME NEW w \in Workers, GivesWay(w) PROVE InvHandlers'
        <2>1. /\ Active(w) /\ UNCHANGED <<profile, cache, at>>
              /\ step' = [step EXCEPT ![w] = @ + 1]
            BY <1>g, CallingActive DEF GivesWay, Work
        <2>2. RuleFails(at[w]) \in Error
            BY <2>1, ErrorFacts DEF InvHeld
        <2> QED
            BY <1>g, <2>1, <2>2, PushHandlers DEF GivesWay
    <1>6. ASSUME NEW w \in Workers, ModuleStep(w) PROVE InvHandlers'
        <2>1. /\ Active(w) /\ UNCHANGED <<profile, cache, at>> /\ Work(w)
              /\ step' = [step EXCEPT ![w] = @ + 1]
            BY <1>6, CallingActive DEF ModuleStep, Work
        <2>2. CASE Push(w, RuleFails(at[w]))
            <3>1. RuleFails(at[w]) \in Error
                BY <2>1, ErrorFacts DEF InvHeld
            <3> QED
                BY <2>1, <2>2, <3>1, PushHandlers
        <2>3. CASE NextStep(w) = "module" /\ UNCHANGED <<result, pc>>
            BY <1>6, <2>1, <2>3, PassHandlers DEF ModuleStep, Calling
        <2> QED
            BY <1>6, <2>2, <2>3 DEF ModuleStep
    <1>7. ASSUME NEW w \in Workers, QueryStep(w) PROVE InvHandlers'
        BY <1>7, PassHandlers DEF QueryStep, Calling
    <1>8. ASSUME NEW w \in Workers, ComponentStep(w) PROVE InvHandlers'
        <2>1. /\ Active(w) /\ UNCHANGED <<profile, cache, at>> /\ Work(w)
              /\ step' = [step EXCEPT ![w] = @ + 1]
            BY <1>8, CallingActive DEF ComponentStep, Work
        <2>2. CASE Push(w, RuleFails(at[w])) \/ Push(w, poisoned[w])
            <3>1. RuleFails(at[w]) \in Error /\ poisoned[w] \in Error
                BY <2>1, ErrorFacts DEF InvHeld, TypeOK
            <3> QED
                BY <2>1, <2>2, <3>1, PushHandlers
        <2>3. CASE NextStep(w) = "component" /\ UNCHANGED <<result, pc>>
            BY <1>8, <2>1, <2>3, PassHandlers DEF ComponentStep, Calling
        <2> QED
            BY <1>8, <2>2, <2>3 DEF ComponentStep
    <1>9. ASSUME NEW w \in Workers, Handled(w) PROVE InvHandlers'
        <2>1. /\ UNCHANGED <<profile, cache, at, step, result>>
              /\ pc[w] = "run" /\ step[w] = Len(profile[at[w]].steps)
              /\ pc' = [pc EXCEPT ![w] = "finish"]
            BY <1>9 DEF Handled, Steps
        <2>2. ~Fails(at[w])
            BY <2>1 DEF InvHandlers, Fails, FailingSteps, FailKinds
        <2>3. pc'[w] = "finish" /\ \A v \in Workers : v # w => pc'[v] = pc[v]
            BY <2>1 DEF TypeOK
        <2> QED
            BY <2>1, <2>2, <2>3 DEF InvHandlers, Fails, FailingSteps, Hit
    <1>10. ASSUME NEW w \in Workers, Finish(w) PROVE InvHandlers'
        <2>1. Active(w) /\ at[w] \in Files /\ UNCHANGED <<profile, cache, at, step>>
            BY <1>10 DEF Finish, Active, InvHeld
        <2>2. CASE Push(w, provider)
            BY <1>e, <2>1, <2>2, PushHandlers
        <2>3. CASE /\ result' = [result EXCEPT ![at[w]] = Okay(EntryOf(w))]
                   /\ pc' = [pc EXCEPT ![w] = "take"]
            <3>1. pc'[w] = "take" /\ \A v \in Workers : v # w => pc'[v] = pc[v]
                BY <2>3 DEF TypeOK
            <3>2. \A f \in Files : f # at[w] => result'[f] = result[f]
                BY <2>3 DEF TypeOK
            <3>3. ~Fails(at[w])
                BY <1>10 DEF Finish, InvHandlers
            <3> QED
                BY <2>1, <3>1, <3>2, <3>3 DEF InvHandlers, Fails, FailingSteps, Hit
        <2> QED
            BY <1>10, <2>2, <2>3 DEF Finish, ProviderFailure
    <1>11. CASE Expire \/ Fold \/ Reduce \/ UNCHANGED vars
        BY <1>11 DEF Expire, Fold, Reduce, vars, threadVars, InvHandlers, Fails, FailingSteps, Hit
    <1> QED
        BY <1>1, <1>2, <1>3, <1>4, <1>5, <1>g, <1>6, <1>7, <1>8, <1>9, <1>10, <1>11
        DEF Next, Thread

-----------------------------------------------------------------------------
(* Nothing a broken provider answered reaches a result or the store.         *)

\* A step that pushes an error, or no result, and does not mend the provider.
LEMMA KeepsQuality ==
    ASSUME TypeOK, InvHeld, InvQuality, NEW w \in Workers, Active(w),
           \/ UNCHANGED result
           \/ \E e \in Error : result' = [result EXCEPT ![at[w]] = Erred(e)],
           provider # NoError => provider' # NoError,
           UNCHANGED <<quality, cache, disk>>
    PROVE  InvQuality'
    <1>1. \A e \in Error : Erred(e).entry = "none"
        BY ResultFacts
    <1>2. \A f \in Files : result'[f].entry # "degraded"
        BY <1>1 DEF InvQuality, TypeOK
    <1> QED
        BY <1>2 DEF InvQuality

LEMMA NextInvQuality ==
    TypeOK /\ InvHeld /\ InvQuality /\ [Next]_vars => InvQuality'
    <1> SUFFICES ASSUME TypeOK, InvHeld, InvQuality, [Next]_vars PROVE InvQuality'
        OBVIOUS
    <1>e. /\ RunWide("RunTimeout") \in Error /\ RunWide("AnalysisTimeout") \in Error
          /\ RunWide("Worker") \in Error /\ provider \in Error
          /\ RunWide("Provider") # NoError /\ RunWide("AnalysisTimeout") # NoError
        BY ErrorFacts DEF ErrorKinds, TypeOK
    <1>1. CASE Start
        <2>1. \A f \in Files : result'[f].entry # "degraded"
            BY <1>1, ResultFacts DEF Start
        <2> QED
            BY <1>1, <2>1 DEF Start, InvQuality, NoEntries
    <1>2. ASSUME NEW w \in Workers, Take(w) PROVE InvQuality'
        BY <1>2 DEF Take, InvQuality, TypeOK
    <1>3. ASSUME NEW w \in Workers, Begin(w) PROVE InvQuality'
        BY <1>3, <1>e, KeepsQuality DEF Begin, Push, Active
    <1>4. ASSUME NEW w \in Workers, SandboxFails(w) PROVE InvQuality'
        BY <1>4, <1>e, KeepsQuality, CallingActive DEF SandboxFails, Push, TypeOK
    <1>5. ASSUME NEW w \in Workers, Interrupted(w) PROVE InvQuality'
        BY <1>5, <1>e, KeepsQuality, CallingActive DEF Interrupted, Push
    <1>g. ASSUME NEW w \in Workers, GivesWay(w) PROVE InvQuality'
        <2>1. Active(w) /\ RuleFails(at[w]) \in Error
            BY <1>g, CallingActive, ErrorFacts DEF GivesWay, InvHeld
        <2> QED
            BY <1>g, <2>1, KeepsQuality DEF GivesWay, Push
    <1>6. ASSUME NEW w \in Workers, ModuleStep(w) PROVE InvQuality'
        <2>1. Active(w) /\ RuleFails(at[w]) \in Error
            BY <1>6, CallingActive, ErrorFacts DEF ModuleStep, InvHeld
        <2> QED
            BY <1>6, <2>1, KeepsQuality DEF ModuleStep, Push
    <1>7. ASSUME NEW w \in Workers, QueryStep(w) PROVE InvQuality'
        <2>1. UNCHANGED <<result, cache, disk>>
            BY <1>7 DEF QueryStep
        <2>2. \A v \in Workers : quality'[v] = "degraded" => provider' # NoError
            <3>1. CASE UNCHANGED <<provider, quality>>
                BY <3>1 DEF InvQuality
            <3>2. CASE provider' # NoError
                BY <3>2
            <3> QED
                BY <1>7, <1>e, <3>1, <3>2 DEF QueryStep
        <2> QED
            BY <2>1, <2>2 DEF InvQuality
    <1>8. ASSUME NEW w \in Workers, ComponentStep(w) PROVE InvQuality'
        <2>1. Active(w) /\ RuleFails(at[w]) \in Error /\ poisoned[w] \in Error
            BY <1>8, CallingActive, ErrorFacts DEF ComponentStep, InvHeld, TypeOK
        <2> QED
            BY <1>8, <2>1, KeepsQuality DEF ComponentStep, Push
    <1>9. ASSUME NEW w \in Workers, Handled(w) PROVE InvQuality'
        BY <1>9 DEF Handled, InvQuality
    <1>10. ASSUME NEW w \in Workers, Finish(w) PROVE InvQuality'
        <2>1. Active(w) /\ at[w] \in Files /\ at[w] \in Stored
              /\ UNCHANGED <<quality, cache, disk, provider>>
            BY <1>10, SizesAssumption DEF Finish, Active, InvHeld, Files, Stored
        <2>2. CASE Push(w, provider)
            BY <1>e, <2>1, <2>2, KeepsQuality DEF Push
        <2>3. CASE /\ provider = NoError
                   /\ result' = [result EXCEPT ![at[w]] = Okay(EntryOf(w))]
            <3>1. quality[w] = "good" /\ cache[at[w]] \in {"none", "good"}
                BY <2>1, <2>3 DEF InvQuality, TypeOK, EntryState
            <3>2. EntryOf(w) \in {"none", "good"}
                BY <3>1 DEF EntryOf
            <3>3. Okay(EntryOf(w)).entry = EntryOf(w)
                BY <3>2, ResultFacts DEF EntryState
            <3>4. \A f \in Files : result'[f].entry # "degraded"
                BY <2>3, <3>2, <3>3 DEF InvQuality, TypeOK
            <3> QED
                BY <2>1, <3>4 DEF InvQuality
        <2> QED
            BY <1>10, <2>2, <2>3 DEF Finish, ProviderFailure
    <1>11. CASE Fold
        <2>1. \A f \in Stored : disk'[f] # "degraded"
            BY <1>11 DEF Fold, Saved, Fresh, Merged, InvQuality
        <2> QED
            BY <1>11, <2>1 DEF Fold, InvQuality, threadVars, faultVars
    <1>12. CASE Expire \/ Reduce \/ UNCHANGED vars
        BY <1>12 DEF Expire, Reduce, vars, threadVars, faultVars, InvQuality
    <1> QED
        BY <1>1, <1>2, <1>3, <1>4, <1>5, <1>g, <1>6, <1>7, <1>8, <1>9, <1>10, <1>11,
           <1>12 DEF Next, Thread

-----------------------------------------------------------------------------
(* What the store held, and what the results add to it.                      *)

\* A step that pushes an error, or no result.
LEMMA KeepsStored ==
    ASSUME TypeOK, InvHeld, InvStored, NEW w \in Workers, Active(w),
           \/ UNCHANGED result
           \/ \E e \in Error : result' = [result EXCEPT ![at[w]] = Erred(e)],
           UNCHANGED <<phase, mode, profile, cache, disk>>
    PROVE  InvStored'
    <1>1. \A e \in Error : Erred(e).entry = "none" /\ Erred(e).state = "err"
        BY ResultFacts
    <1>2. NoEntries' = NoEntries
        BY DEF NoEntries
    <1>3. CASE UNCHANGED result
        BY <1>2, <1>3 DEF InvStored
    <1>4. ASSUME NEW e \in Error, result' = [result EXCEPT ![at[w]] = Erred(e)]
          PROVE  InvStored'
        <2>1. \A f \in Files : result'[f] = result[f] \/ result'[f] = Erred(e)
            BY <1>4 DEF TypeOK
        <2> QED
            BY <1>1, <1>2, <2>1 DEF InvStored
    <1> QED
        BY <1>3, <1>4

LEMMA NextInvStored ==
    TypeOK /\ InvHeld /\ InvQuality /\ InvStored /\ [Next]_vars => InvStored'
    <1> SUFFICES ASSUME TypeOK, InvHeld, InvQuality, InvStored, [Next]_vars
                 PROVE  InvStored'
        OBVIOUS
    <1>e. /\ RunWide("RunTimeout") \in Error /\ RunWide("AnalysisTimeout") \in Error
          /\ RunWide("Worker") \in Error /\ provider \in Error
        BY ErrorFacts DEF ErrorKinds, TypeOK
    <1>1. CASE Start
        <2>1. \A f \in Files : result'[f].entry = "none" /\ result'[f].state = "pending"
            BY <1>1, ResultFacts DEF Start
        <2>2. cache' = IF mode'.caching THEN disk' ELSE NoEntries'
            BY <1>1 DEF Start, NoEntries
        <2> QED
            BY <2>1, <2>2 DEF InvStored
    <1>2. ASSUME NEW w \in Workers, Take(w) PROVE InvStored'
        BY <1>2 DEF Take, InvStored, NoEntries
    <1>3. ASSUME NEW w \in Workers, Begin(w) PROVE InvStored'
        BY <1>3, <1>e, KeepsStored DEF Begin, Push, Active
    <1>4. ASSUME NEW w \in Workers, SandboxFails(w) PROVE InvStored'
        BY <1>4, <1>e, KeepsStored, CallingActive DEF SandboxFails, Push, TypeOK
    <1>5. ASSUME NEW w \in Workers, Interrupted(w) PROVE InvStored'
        BY <1>5, <1>e, KeepsStored, CallingActive DEF Interrupted, Push
    <1>g. ASSUME NEW w \in Workers, GivesWay(w) PROVE InvStored'
        <2>1. Active(w) /\ RuleFails(at[w]) \in Error
            BY <1>g, CallingActive, ErrorFacts DEF GivesWay, InvHeld
        <2> QED
            BY <1>g, <2>1, KeepsStored DEF GivesWay, Push
    <1>6. ASSUME NEW w \in Workers, ModuleStep(w) PROVE InvStored'
        <2>1. Active(w) /\ RuleFails(at[w]) \in Error
            BY <1>6, CallingActive, ErrorFacts DEF ModuleStep, InvHeld
        <2> QED
            BY <1>6, <2>1, KeepsStored DEF ModuleStep, Push
    <1>7. ASSUME NEW w \in Workers, QueryStep(w) PROVE InvStored'
        BY <1>7, KeepsStored, CallingActive DEF QueryStep
    <1>8. ASSUME NEW w \in Workers, ComponentStep(w) PROVE InvStored'
        <2>1. Active(w) /\ RuleFails(at[w]) \in Error /\ poisoned[w] \in Error
            BY <1>8, CallingActive, ErrorFacts DEF ComponentStep, InvHeld, TypeOK
        <2> QED
            BY <1>8, <2>1, KeepsStored DEF ComponentStep, Push
    <1>9. ASSUME NEW w \in Workers, Handled(w) PROVE InvStored'
        BY <1>9 DEF Handled, InvStored, NoEntries
    <1>10. ASSUME NEW w \in Workers, Finish(w) PROVE InvStored'
        <2>1. /\ Active(w) /\ at[w] \in Files /\ at[w] \in Stored
              /\ UNCHANGED <<phase, mode, profile, cache, disk, quality>>
            BY <1>10, SizesAssumption DEF Finish, Active, InvHeld, Files, Stored
        <2>2. CASE Push(w, provider)
            BY <1>e, <2>1, <2>2, KeepsStored DEF Push
        <2>3. CASE /\ provider = NoError
                   /\ result' = [result EXCEPT ![at[w]] = Okay(EntryOf(w))]
            <3>1. quality[w] = "good" /\ cache[at[w]] \in {"none", "good"}
                BY <2>1, <2>3 DEF InvQuality, TypeOK, EntryState
            <3>2. EntryOf(w) = IF mode.caching /\ profile[at[w]].kind # "skip"
                               THEN "good" ELSE "none"
                BY <3>1 DEF EntryOf, Hit
            <3>3. /\ Okay(EntryOf(w)).entry = EntryOf(w)
                  /\ Okay(EntryOf(w)).state = "ok"
                BY <3>2, ResultFacts DEF EntryState
            <3>4. \A f \in Files : IF f = at[w] THEN result'[f] = Okay(EntryOf(w))
                                   ELSE result'[f] = result[f]
                BY <2>1, <2>3 DEF TypeOK
            <3> QED
                BY <2>1, <3>2, <3>3, <3>4 DEF InvStored, NoEntries
        <2> QED
            BY <1>10, <2>2, <2>3 DEF Finish, ProviderFailure
    <1>11. CASE Fold
        BY <1>11 DEF Fold, InvStored, threadVars, faultVars
    <1>12. CASE Expire \/ Reduce \/ UNCHANGED vars
        BY <1>12 DEF Expire, Reduce, vars, threadVars, faultVars, InvStored, NoEntries
    <1> QED
        BY <1>1, <1>2, <1>3, <1>4, <1>5, <1>g, <1>6, <1>7, <1>8, <1>9, <1>10, <1>11,
           <1>12 DEF Next, Thread

-----------------------------------------------------------------------------
(* Without an outside fault, blame falls on a file that fails by itself.     *)

\* The error a thread may push for the file it holds.
Blames(w, e) == e.kind = "Rule" /\ e.file \in Files /\ e.file <= at[w] /\ Fails(e.file)

LEMMA PushBlame ==
    ASSUME TypeOK, InvHeld, InvBlame, NEW w \in Workers, Active(w),
           NEW e \in Error, Push(w, e), ~faulted => Blames(w, e),
           faulted' = faulted,
           UNCHANGED <<profile, cache, at, sandbox, expired, overrun, provider>>,
           poisoned' = poisoned \/ poisoned' = [poisoned EXCEPT ![w] = e]
    PROVE  InvBlame'
    <1> SUFFICES ASSUME ~faulted PROVE InvBlame'
        BY DEF InvBlame
    <1>1. /\ at[w] \in Files
          /\ result' = [result EXCEPT ![at[w]] = Erred(e)]
          /\ Erred(e).error = e
        BY ResultFacts DEF InvHeld, Push
    <1>2. \A f \in Files : Fails(f)' = Fails(f)
        BY FrameFails
    <1>3. \A f \in Files :
             result'[f].state = "err" => /\ result'[f].error.kind = "Rule"
                                         /\ result'[f].error.file \in Files
                                         /\ result'[f].error.file <= f
                                         /\ Fails(result'[f].error.file)
        BY <1>1 DEF InvBlame, Blames, TypeOK
    <1>4. \A v \in Workers :
             poisoned'[v] # NoError => /\ poisoned'[v].kind = "Rule"
                                       /\ poisoned'[v].file \in Files
                                       /\ poisoned'[v].file <= at[v]
                                       /\ Fails(poisoned'[v].file)
        BY DEF InvBlame, Blames, TypeOK
    <1> QED
        BY <1>2, <1>3, <1>4 DEF InvBlame

\* A step that adds no result and no failure.
LEMMA KeepsBlame ==
    ASSUME InvBlame, UNCHANGED <<profile, cache, at, sandbox, poisoned, result,
                                 expired, overrun, provider, faulted>>
    PROVE  InvBlame'
    BY DEF InvBlame, Fails, FailingSteps, Hit

\* A thread whose next call fails holds a file that fails by itself.
LEMMA CallingFails ==
    ASSUME TypeOK, InvHeld, InvHandlers, NEW w \in Workers, Calling(w, FailKinds)
    PROVE  /\ at[w] \in Files /\ Fails(at[w])
           /\ RuleFails(at[w]) \in Error /\ Blames(w, RuleFails(at[w]))
    <1>1. /\ at[w] \in Files /\ pc[w] = "run"
          /\ step[w] < Len(profile[at[w]].steps)
          /\ profile[at[w]].steps[step[w] + 1] \in FailKinds
        BY CallingActive DEF Calling, InvHeld, NextStep, Steps
    <1>2. Len(profile[at[w]].steps) \in Nat /\ step[w] \in Nat
        BY <1>1 DEF TypeOK, ProfileType
    <1>3. Fails(at[w])
        BY <1>1, <1>2 DEF Fails, FailingSteps, FailKinds, InvHandlers
    <1> QED
        BY <1>1, <1>3, ErrorFacts, SizesAssumption DEF Blames, Files

LEMMA NextInvBlame ==
    TypeOK /\ InvHeld /\ InvHandlers /\ InvBlame /\ [Next]_vars => InvBlame'
    <1> SUFFICES ASSUME TypeOK, InvHeld, InvHandlers, InvBlame, [Next]_vars
                 PROVE  InvBlame'
        OBVIOUS
    <1>e. /\ RunWide("RunTimeout") \in Error /\ RunWide("AnalysisTimeout") \in Error
          /\ provider \in Error
        BY ErrorFacts DEF ErrorKinds, TypeOK
    <1>1. CASE Start
        <2>1. result' = [f \in Files |-> Pending] /\ Pending.state = "pending"
            BY <1>1, ResultFacts DEF Start
        <2> QED
            BY <1>1, <2>1 DEF Start, InvBlame
    <1>2. ASSUME NEW w \in Workers, Take(w) PROVE InvBlame'
        <2>1. \A v \in Workers : at[v] <= at'[v]
            BY <1>2 DEF Take, InvHeld, TypeOK
        <2>2. UNCHANGED <<profile, cache, sandbox, poisoned, result, expired,
                          overrun, provider, faulted>>
            BY <1>2 DEF Take, More
        <2>3. at \in [Workers -> 0..N] /\ at' \in [Workers -> 0..N]
            <3>1. CASE cursor \in Files /\ at' = [at EXCEPT ![w] = cursor]
                BY <3>1 DEF TypeOK, Files
            <3>2. CASE at' = at
                BY <3>2 DEF TypeOK
            <3> QED
                BY <1>2, <3>1, <3>2 DEF Take, More
        <2>4. ASSUME ~faulted, NEW v \in Workers, poisoned[v] # NoError
              PROVE  poisoned[v].file <= at'[v]
            BY <2>1, <2>3, <2>4, SizesAssumption DEF InvBlame, Files
        <2> QED
            BY <2>2, <2>4 DEF InvBlame, Fails, FailingSteps, Hit
    <1>3. ASSUME NEW w \in Workers, Begin(w) PROVE InvBlame'
        <2>1. /\ Active(w)
              /\ UNCHANGED <<profile, cache, at, sandbox, poisoned, expired,
                             overrun, provider, faulted>>
            BY <1>3 DEF Begin, Active
        <2>2. CASE \E e \in Error : Push(w, e) /\ (expired \/ overrun)
            BY <2>1, <2>2, PushBlame DEF InvBlame
        <2>3. CASE UNCHANGED result
            BY <2>1, <2>3, KeepsBlame
        <2> QED
            BY <1>3, <1>e, <2>2, <2>3 DEF Begin
    <1>4. ASSUME NEW w \in Workers, SandboxFails(w) PROVE InvBlame'
        BY <1>4 DEF SandboxFails, InvBlame
    <1>5. ASSUME NEW w \in Workers, Interrupted(w) PROVE InvBlame'
        BY <1>5 DEF Interrupted, InvBlame
    <1>g. ASSUME NEW w \in Workers, GivesWay(w) PROVE InvBlame'
        BY <1>g DEF GivesWay, InvBlame
    <1>6. ASSUME NEW w \in Workers, ModuleStep(w) PROVE InvBlame'
        <2>1. /\ Active(w)
              /\ UNCHANGED <<profile, cache, at, sandbox, poisoned, expired,
                             overrun, provider, faulted>>
            BY <1>6, CallingActive DEF ModuleStep
        <2>2. CASE NextStep(w) = "module_fail" /\ Push(w, RuleFails(at[w]))
            <3>1. Calling(w, FailKinds)
                BY <1>6, <2>2 DEF ModuleStep, Calling, FailKinds
            <3> QED
                BY <2>1, <2>2, <3>1, CallingFails, PushBlame
        <2>3. CASE UNCHANGED result
            BY <2>1, <2>3, KeepsBlame
        <2> QED
            BY <1>6, <2>2, <2>3 DEF ModuleStep
    <1>7. ASSUME NEW w \in Workers, QueryStep(w) PROVE InvBlame'
        <2>1. UNCHANGED <<profile, cache, at, sandbox, poisoned, result, expired>>
            BY <1>7 DEF QueryStep
        <2>2. CASE UNCHANGED provider /\ faulted' = (faulted \/ overrun')
            BY <2>1, <2>2 DEF InvBlame, Fails, FailingSteps, Hit
        <2>3. CASE faulted' = TRUE
            BY <2>3 DEF InvBlame
        <2> QED
            BY <1>7, <2>2, <2>3 DEF QueryStep
    <1>8. ASSUME NEW w \in Workers, ComponentStep(w) PROVE InvBlame'
        <2>1. /\ Active(w)
              /\ UNCHANGED <<profile, cache, at, sandbox, expired,
                             overrun, provider, faulted>>
            BY <1>8, CallingActive DEF ComponentStep
        <2>2. CASE poisoned[w] # NoError /\ Push(w, poisoned[w]) /\ UNCHANGED poisoned
            <3>1. poisoned[w] \in Error /\ (~faulted => Blames(w, poisoned[w]))
                BY <2>2 DEF InvBlame, Blames, TypeOK
            <3> QED
                BY <2>1, <2>2, <3>1, PushBlame
        <2>3. CASE /\ NextStep(w) = "component_fail" /\ Push(w, RuleFails(at[w]))
                   /\ poisoned' = [poisoned EXCEPT ![w] = RuleFails(at[w])]
            <3>1. Calling(w, FailKinds)
                BY <1>8, <2>3 DEF ComponentStep, Calling, FailKinds
            <3> QED
                BY <2>1, <2>3, <3>1, CallingFails, PushBlame
        <2>4. CASE UNCHANGED <<poisoned, result>>
            BY <2>1, <2>4, KeepsBlame
        <2> QED
            BY <1>8, <2>2, <2>3, <2>4 DEF ComponentStep
    <1>9. ASSUME NEW w \in Workers, Handled(w) PROVE InvBlame'
        BY <1>9, KeepsBlame DEF Handled
    <1>10. ASSUME NEW w \in Workers, Finish(w) PROVE InvBlame'
        <2>1. /\ Active(w) /\ at[w] \in Files
              /\ UNCHANGED <<profile, cache, at, sandbox, poisoned, expired,
                             overrun, provider, faulted>>
            BY <1>10 DEF Finish, Active, InvHeld
        <2>2. CASE provider # NoError /\ Push(w, provider)
            BY <1>e, <2>1, <2>2, PushBlame DEF InvBlame
        <2>3. CASE result' = [result EXCEPT ![at[w]] = Okay(EntryOf(w))]
            <3>1. Okay(EntryOf(w)).state = "ok"
                BY DEF Okay
            <3>2. \A f \in Files : result'[f].state = "err" => result'[f] = result[f]
                BY <2>3, <3>1 DEF TypeOK
            <3> QED
                BY <2>1, <3>2 DEF InvBlame, Fails, FailingSteps, Hit
        <2> QED
            BY <1>10, <2>2, <2>3 DEF Finish, ProviderFailure
    <1>11. CASE Expire
        BY <1>11 DEF Expire, InvBlame
    <1>12. CASE Fold \/ Reduce \/ UNCHANGED vars
        BY <1>12, KeepsBlame DEF Fold, Reduce, vars, threadVars, faultVars
    <1> QED
        BY <1>1, <1>2, <1>3, <1>4, <1>5, <1>g, <1>6, <1>7, <1>8, <1>9, <1>10, <1>11,
           <1>12 DEF Next, Thread

-----------------------------------------------------------------------------
(* The fold picks the first error; by InvBlame it stems from no later file,  *)
(* by InvHandlers a file that fails has an error, so the two are the same.   *)

LEMMA NextFirstFailure ==
    IndInv /\ [Next]_vars => FirstFailureReported'
    <1> SUFFICES ASSUME IndInv, [Next]_vars, phase' = "ended", ~faulted',
                        outcome'.kind # "Reduce"
                 PROVE  (IF outcome = NoError
                         THEN \A f \in Files : ~Fails(f)
                         ELSE /\ outcome.kind = "Rule"
                              /\ Fails(outcome.file)
                              /\ \A g \in Files : g < outcome.file => ~Fails(g))'
        BY DEF FirstFailureReported
    <1> USE DEF IndInv
    <1>1. CASE Fold
        <2>1. PICK f \in Failed : /\ \A g \in Failed : f <= g
                                  /\ outcome' = result[f].error
            BY <1>1 DEF Fold, Reported
        <2>2. /\ UNCHANGED <<profile, cache, faulted, result>>
              /\ \A w \in Workers : pc[w] = "done"
            BY <1>1 DEF Fold, threadVars, faultVars
        <2>3. \A g \in Files : result[g].state # "pending"
            <3>1. \A w \in Workers : ~Active(w) /\ cursor > N
                BY <1>1, <2>2 DEF Fold, InvPassed, Active
            <3> QED
                BY <1>1, <3>1, WorkersAssumption, SizesAssumption
                DEF Fold, InvPassed, Files, TypeOK
        <2>4. \A g \in Files : Fails(g) => g \in Failed
            BY <2>3, ResultFields DEF InvHandlers, Failed, TypeOK
        <2>5. /\ outcome'.kind = "Rule" /\ outcome'.file \in Files
              /\ outcome'.file <= f /\ Fails(outcome'.file)
            BY <2>1, <2>2 DEF InvBlame, Failed
        <2>6. f \in Files /\ outcome'.file = f
            BY <2>1, <2>4, <2>5 DEF Failed, Files
        <2>7. outcome' # NoError
            BY <2>5, ErrorFacts
        <2>8. \A g \in Files : g < f => ~Fails(g)
            BY <2>1, <2>4, <2>6 DEF Files
        <2> QED
            BY <2>2, <2>5, <2>6, <2>7, <2>8 DEF Fails, FailingSteps, Hit
    <1>2. CASE Reduce
        <2>1. /\ UNCHANGED <<profile, cache, faulted, expired>> /\ phase = "reducing"
            BY <1>2 DEF Reduce, threadVars, faultVars
        <2>2. ~expired
            BY <2>1 DEF InvBlame
        <2>3. outcome' = NoError
            BY <1>2, <2>1, <2>2, ErrorFacts DEF Reduce, InvPassed, ErrorKinds
        <2>4. \A f \in Files : ~Fails(f)
            BY <2>1 DEF InvPassed, InvHandlers
        <2> QED
            BY <2>1, <2>3, <2>4 DEF Fails, FailingSteps, Hit
    <1>3. CASE UNCHANGED vars
        <2>1. UNCHANGED <<phase, faulted, outcome, profile, cache>>
            BY <1>3 DEF vars
        <2> QED
            BY <2>1 DEF FirstFailureReported, Fails, FailingSteps, Hit
    <1>4. ASSUME NEW w \in Workers, Thread(w) PROVE FALSE
        BY <1>4, ThreadShape DEF Take, Leaves, Stays, InvPassed, Active
    <1>5. CASE Start \/ Expire
        BY <1>5 DEF Start, Expire
    <1> QED
        BY <1>1, <1>2, <1>3, <1>4, <1>5 DEF Next

-----------------------------------------------------------------------------
(* An error that names a file names one whose own check ended in an error. *)

\* Honest, of the results r.
Named(e, r) == e.file # 0 => e.file \in Files /\ r[e.file].state = "err"

\* A push adds an error to a file that had no result, and takes none away.
LEMMA PushErrors ==
    ASSUME TypeOK, InvHeld, InvErrors, NEW w \in Workers, Active(w),
           NEW e \in Error, e # NoError, Push(w, e),
           Honest(e) \/ e.file = at[w],
           provider'.file = 0,
           \/ UNCHANGED sandbox
           \/ e.file = 0 /\ sandbox' = [sandbox EXCEPT ![w] = e],
           poisoned' = poisoned \/ poisoned' = [poisoned EXCEPT ![w] = e]
    PROVE  InvErrors'
    <1>1. /\ at[w] \in Files
          /\ result' = [result EXCEPT ![at[w]] = Erred(e)]
          /\ Erred(e).error = e /\ Erred(e).state = "err"
        BY ResultFacts DEF InvHeld, Push
    <1>2. /\ result'[at[w]] = Erred(e)
          /\ \A f \in Files : f # at[w] => result'[f] = result[f]
        BY <1>1 DEF TypeOK
    <1>3. \A f \in Files : result[f].state = "err" => result'[f].state = "err"
        BY <1>1, <1>2
    <1>4. \A d \in Error : Honest(d) => Named(d, result')
        BY <1>3 DEF Honest, Named
    <1>5. Named(e, result')
        BY <1>1, <1>2, <1>4 DEF Named
    <1>6. \A f \in Files : result'[f].state = "err" =>
              result'[f].error # NoError /\ Named(result'[f].error, result')
        <2>1. \A f \in Files : result[f].error \in Error
            BY ResultFields DEF TypeOK
        <2>2. ASSUME NEW f \in Files, f # at[w], result'[f].state = "err"
              PROVE  result'[f].error # NoError /\ Named(result'[f].error, result')
            <3>1. result'[f] = result[f]
                BY <1>2, <2>2
            <3>2. result[f].error # NoError /\ Honest(result[f].error)
                BY <2>2, <3>1 DEF InvErrors
            <3> QED
                BY <1>4, <2>1, <3>1, <3>2
        <2>3. result'[at[w]].error # NoError /\ Named(result'[at[w]].error, result')
            BY <1>1, <1>2, <1>5
        <2> QED
            BY <2>2, <2>3
    <1>7. \A v \in Workers : sandbox'[v].file = 0 /\ Named(poisoned'[v], result')
        <2>1. \A v \in Workers : poisoned'[v] = poisoned[v] \/ poisoned'[v] = e
            BY DEF TypeOK
        <2>2. \A v \in Workers : poisoned[v] \in Error /\ Honest(poisoned[v])
            BY DEF InvErrors, TypeOK
        <2>3. \A v \in Workers : sandbox'[v].file = 0
            BY DEF InvErrors, TypeOK
        <2> QED
            BY <1>4, <1>5, <2>1, <2>2, <2>3
    <1> QED
        BY <1>6, <1>7 DEF InvErrors, Honest, Named

\* A step that adds no error.
LEMMA KeepsErrors ==
    ASSUME InvErrors, UNCHANGED <<sandbox, poisoned, result>>, provider'.file = 0
    PROVE  InvErrors'
    BY DEF InvErrors, Honest

LEMMA NextInvErrors ==
    TypeOK /\ InvHeld /\ InvErrors /\ [Next]_vars => InvErrors'
    <1> SUFFICES ASSUME TypeOK, InvHeld, InvErrors, [Next]_vars PROVE InvErrors'
        OBVIOUS
    <1>e. \A k \in ErrorKinds \ {"none"} :
              /\ RunWide(k) \in Error /\ RunWide(k) # NoError
              /\ RunWide(k).file = 0 /\ Honest(RunWide(k))
        BY ErrorFacts DEF RunWide, NoError, Honest
    <1>f. NoError.file = 0
        BY DEF NoError
    <1>p. /\ provider \in Error /\ Honest(provider) /\ provider.file = 0
          /\ \A w \in Workers : /\ sandbox[w] \in Error /\ Honest(sandbox[w])
                               /\ sandbox[w].file = 0
                               /\ poisoned[w] \in Error /\ Honest(poisoned[w])
        BY DEF InvErrors, Honest, TypeOK
    <1>r. ASSUME NEW w \in Workers, Active(w)
          PROVE  /\ RuleFails(at[w]) \in Error /\ RuleFails(at[w]) # NoError
                 /\ RuleFails(at[w]).file = at[w]
        <2>1. at[w] \in Files
            BY <1>r DEF InvHeld
        <2> QED
            BY <2>1, ErrorFacts, SizesAssumption DEF RuleFails, NoError, Files
    <1>1. CASE Start
        <2>1. \A f \in Files : result'[f].state = "pending"
            BY <1>1, ResultFacts DEF Start
        <2> QED
            BY <1>1, <1>f, <2>1 DEF Start, InvErrors, Honest
    <1>2. ASSUME NEW w \in Workers, Take(w) PROVE InvErrors'
        BY <1>2, <1>p, KeepsErrors DEF Take
    <1>3. ASSUME NEW w \in Workers, Begin(w) PROVE InvErrors'
        <2>1. Active(w)
            BY <1>3 DEF Begin, Active
        <2>2. \/ Push(w, RunWide("RunTimeout")) \/ Push(w, RunWide("AnalysisTimeout"))
              \/ UNCHANGED result
            BY <1>3 DEF Begin
        <2>3. UNCHANGED <<sandbox, poisoned, provider>>
            BY <1>3 DEF Begin
        <2> QED
            BY <1>e, <1>p, <2>1, <2>2, <2>3, PushErrors, KeepsErrors DEF ErrorKinds
    <1>4. ASSUME NEW w \in Workers, SandboxFails(w) PROVE InvErrors'
        <2>1. Active(w)
            BY <1>4, CallingActive DEF SandboxFails
        <2>2. PICK e \in {sandbox[w], RunWide("RunTimeout"), RunWide("Worker")} :
                  e # NoError /\ sandbox' = [sandbox EXCEPT ![w] = e] /\ Push(w, e)
            BY <1>4 DEF SandboxFails
        <2>3. e \in Error /\ Honest(e) /\ e.file = 0
            BY <1>e, <1>p, <2>2 DEF ErrorKinds
        <2>4. UNCHANGED <<provider, poisoned>>
            BY <1>4 DEF SandboxFails
        <2> QED
            BY <1>p, <2>1, <2>2, <2>3, <2>4, PushErrors
    <1>5. ASSUME NEW w \in Workers, Interrupted(w) PROVE InvErrors'
        <2>1. Active(w) /\ Push(w, RunWide("RunTimeout"))
            BY <1>5, CallingActive DEF Interrupted
        <2>2. /\ UNCHANGED <<provider, sandbox>>
              /\ \/ UNCHANGED poisoned
                 \/ poisoned' = [poisoned EXCEPT ![w] = RunWide("RunTimeout")]
            BY <1>5 DEF Interrupted
        <2> QED
            BY <1>e, <1>p, <2>1, <2>2, PushErrors DEF ErrorKinds
    <1>g. ASSUME NEW w \in Workers, GivesWay(w) PROVE InvErrors'
        <2>1. Active(w) /\ Push(w, RuleFails(at[w])) /\ UNCHANGED sandbox
            BY <1>g, CallingActive DEF GivesWay
        <2>2. \/ UNCHANGED poisoned
              \/ poisoned' = [poisoned EXCEPT ![w] = RuleFails(at[w])]
            BY <1>g DEF GivesWay
        <2>3. provider'.file = 0
            BY <1>g, <1>e, <1>f, <1>p DEF GivesWay, ErrorKinds
        <2> QED
            BY <1>r, <2>1, <2>2, <2>3, PushErrors
    <1>6. ASSUME NEW w \in Workers, ModuleStep(w) PROVE InvErrors'
        <2>1. Active(w) /\ UNCHANGED <<provider, sandbox, poisoned>>
            BY <1>6, CallingActive DEF ModuleStep
        <2>2. CASE Push(w, RuleFails(at[w]))
            BY <1>p, <1>r, <2>1, <2>2, PushErrors
        <2>3. CASE UNCHANGED result
            BY <1>p, <2>1, <2>3, KeepsErrors
        <2> QED
            BY <1>6, <2>2, <2>3 DEF ModuleStep
    <1>7. ASSUME NEW w \in Workers, QueryStep(w) PROVE InvErrors'
        <2>1. provider'.file = 0
            BY <1>7, <1>e, <1>p DEF QueryStep, ErrorKinds
        <2> QED
            BY <1>7, <2>1, KeepsErrors DEF QueryStep
    <1>8. ASSUME NEW w \in Workers, ComponentStep(w) PROVE InvErrors'
        <2>1. Active(w) /\ UNCHANGED <<provider, sandbox>>
            BY <1>8, CallingActive DEF ComponentStep
        <2>2. CASE poisoned[w] # NoError /\ Push(w, poisoned[w]) /\ UNCHANGED poisoned
            BY <1>p, <2>1, <2>2, PushErrors
        <2>3. CASE /\ poisoned' = [poisoned EXCEPT ![w] = RuleFails(at[w])]
                   /\ Push(w, RuleFails(at[w]))
            BY <1>p, <1>r, <2>1, <2>3, PushErrors
        <2>4. CASE UNCHANGED <<poisoned, result>>
            BY <1>p, <2>1, <2>4, KeepsErrors
        <2> QED
            BY <1>8, <2>2, <2>3, <2>4 DEF ComponentStep
    <1>9. ASSUME NEW w \in Workers, Handled(w) PROVE InvErrors'
        BY <1>9, <1>p, KeepsErrors DEF Handled
    <1>10. ASSUME NEW w \in Workers, Finish(w) PROVE InvErrors'
        <2>1. /\ Active(w) /\ at[w] \in Files /\ result[at[w]].state = "pending"
              /\ UNCHANGED <<sandbox, poisoned, provider>>
            BY <1>10 DEF Finish, Active, InvHeld
        <2>2. CASE provider # NoError /\ Push(w, provider)
            BY <1>p, <2>1, <2>2, PushErrors
        <2>3. CASE result' = [result EXCEPT ![at[w]] = Okay(EntryOf(w))]
            <3>1. Okay(EntryOf(w)).state = "ok"
                BY DEF Okay
            <3>2. \A f \in Files :
                     /\ result[f].state = "err" <=> result'[f].state = "err"
                     /\ result'[f].state = "err" => result'[f] = result[f]
                BY <2>1, <2>3, <3>1 DEF TypeOK
            <3> QED
                BY <2>1, <3>2 DEF InvErrors, Honest
        <2> QED
            BY <1>10, <2>2, <2>3 DEF Finish, ProviderFailure
    <1>11. CASE Expire \/ Fold \/ Reduce \/ UNCHANGED vars
        <2>1. UNCHANGED <<sandbox, poisoned, result, provider>>
            BY <1>11 DEF Expire, Fold, Reduce, vars, threadVars, faultVars
        <2> QED
            BY <1>p, <2>1, KeepsErrors
    <1> QED
        BY <1>1, <1>2, <1>3, <1>4, <1>5, <1>g, <1>6, <1>7, <1>8, <1>9, <1>10, <1>11
        DEF Next, Thread

LEMMA InitIndInv == Init => IndInv
    <1> SUFFICES ASSUME Init PROVE IndInv
        OBVIOUS
    <1>1. TypeOK
        BY InitTypeOK
    <1>2. \A f \in Files : result[f].state = "pending" /\ result[f].entry = "none"
        BY ResultFacts DEF Init
    <1>3. InvHeld /\ InvPassed
        BY <1>2 DEF Init, InvHeld, InvPassed, Active
    <1>4. InvHandlers /\ InvBlame
        BY <1>2 DEF Init, InvHandlers, InvBlame
    <1>5. InvQuality
        BY <1>2 DEF Init, InvQuality, NoEntries
    <1>6. InvStored
        BY <1>2 DEF Init, InvStored
    <1>7. InvErrors
        BY <1>2 DEF Init, InvErrors, Honest, NoError
    <1> QED
        BY <1>1, <1>3, <1>4, <1>5, <1>6, <1>7 DEF Init, IndInv, FirstFailureReported

LEMMA NextIndInv == IndInv /\ [Next]_vars => IndInv'
    BY NextTypeOK, NextInvHeld, NextInvPassed, NextInvHandlers, NextInvBlame,
       NextInvQuality, NextInvStored, NextInvErrors,
       NextFirstFailure DEF IndInv

LEMMA Inductive == Spec => []IndInv
    BY InitIndInv, NextIndInv, PTL DEF Spec

-----------------------------------------------------------------------------
(* The theorems.                                                             *)

\* Every variable keeps its type (the Worker, run_files and Store state).
THEOREM TypeCorrect == Spec => []TypeOK
    <1>1. IndInv => TypeOK
        BY DEF IndInv
    <1> QED
        BY <1>1, Inductive, PTL

\* The failure a run reports is that of the first failing file, for any schedule
\* of any number of threads (check_files, Worker::poison_on, run_files).
THEOREM FirstFailure == Spec => []FirstFailureReported
    <1>1. IndInv => FirstFailureReported
        BY DEF IndInv
    <1> QED
        BY <1>1, Inductive, PTL

\* No entry a broken provider contributed to is ever on disk (provider_failure).
THEOREM NoDegraded == Spec => []NoDegradedEntry
    <1>1. IndInv => NoDegradedEntry
        BY DEF IndInv, InvQuality, NoDegradedEntry
    <1> QED
        BY <1>1, Inductive, PTL

\* The shared cursor gives each file to one thread and leaves none out
\* (check_files' fetch_add loop).
THEOREM EachFileOnce == Spec => []EveryFileOnce
    <1>1. IndInv => EveryFileOnce
        BY DEF IndInv, InvHeld, InvPassed, EveryFileOnce, Active
    <1> QED
        BY <1>1, Inductive, PTL

-----------------------------------------------------------------------------
(* EngineRun implements RunPromise.                                          *)

\* What a step leaves of the outside view, but for a disturbance.
Quiet ==
    /\ UNCHANGED <<profile, disk, phase, mode, outcome, landed>>
    /\ faulted' \in {faulted, TRUE}

LEMMA ThreadQuiet ==
    ASSUME IndInv, NEW w \in Workers, Thread(w)
    PROVE  Quiet /\ phase = "checking"
    <1>1. pc[w] # "done"
        BY DEF Thread, Take, Begin, SandboxFails, Interrupted, GivesWay, ModuleStep,
               QueryStep, ComponentStep, Handled, Finish, Calling
    <1>2. phase = "checking"
        BY <1>1 DEF IndInv, InvPassed
    <1>3. UNCHANGED <<profile, disk, phase, mode, outcome, landed>>
        BY DEF Thread, Take, Begin, SandboxFails, Interrupted, GivesWay, ModuleStep,
               QueryStep, ComponentStep, Handled, Finish
    <1>4. faulted' \in {faulted, TRUE}
        <2>1. CASE QueryStep(w)
            BY <2>1, Zenon DEF QueryStep, IndInv, TypeOK
        <2>2. CASE ~QueryStep(w)
            BY <2>2 DEF Thread, Take, Begin, SandboxFails, Interrupted, GivesWay,
                        ModuleStep, ComponentStep, Handled, Finish
        <2> QED
            BY <2>1, <2>2
    <1> QED
        BY <1>2, <1>3, <1>4 DEF Quiet

\* Such a step is a disturbance of the promised run, or nothing to it.
LEMMA QuietPromise ==
    ASSUME IndInv, Quiet, phase \in {"checking", "reducing"}
    PROVE  [Promise!PromiseNext]_Promise!promiseVars
    <1>1. UNCHANGED <<corpusSeen, statusSeen, disk, mode.coverage, mode.caching,
                      landed, (outcome # NoError), outcome.file>>
        BY DEF Quiet, corpusSeen, statusSeen, FailingSteps
    <1>2. statusSeen \in {"running", "committed"}
        BY DEF statusSeen
    <1>3. CASE faulted' = faulted
        BY <1>1, <1>3 DEF Promise!promiseVars
    <1>4. CASE faulted' = TRUE
        BY <1>1, <1>2, <1>4 DEF Promise!PromiseNext, Promise!Disturb
    <1> QED
        BY <1>3, <1>4 DEF Quiet

\* The files the promise speaks of are those EngineRun does.
LEMMA FailsSeen ==
    ASSUME IndInv, phase = "checking"
    PROVE  \A f \in Files : Promise!Failing(f) <=> Fails(f)
    <1>1. \A f \in Files : f \in Stored
        BY SizesAssumption DEF Files, Stored
    <1>2. \A f \in Files : cache[f] # "none" <=> mode.caching /\ disk[f] # "none"
        BY <1>1 DEF IndInv, InvStored, NoEntries
    <1>3. \A f \in Files : corpusSeen[f] = "failing" <=>
                             profile[f].kind = "parse" /\ FailingSteps(f)
        BY DEF corpusSeen
    <1> QED
        BY <1>2, <1>3 DEF Promise!Failing, Fails, Hit

\* The fold commits the files that completed.
LEMMA FoldPromise == IndInv /\ Fold => Promise!Commit
    <1> SUFFICES ASSUME IndInv, Fold PROVE Promise!Commit
        OBVIOUS
    <1> DEFINE done == {f \in Files : result[f].state = "ok"}
    <1>1. /\ phase = "checking" /\ outcome = NoError
          /\ \A w \in Workers : pc[w] = "done"
          /\ \/ disk' = Saved /\ UNCHANGED landed
             \/ mode.caching /\ landed' = FALSE /\ UNCHANGED disk
          /\ UNCHANGED <<profile, mode, faulted>>
        BY DEF Fold, IndInv, InvPassed, faultVars
    <1>2. \A f \in Files : result[f].state \in {"ok", "err"}
        <2>1. \E w \in Workers : pc[w] = "done"
            BY <1>1, WorkersAssumption
        <2>2. cursor \in Nat /\ cursor > N
            BY <1>1, <2>1 DEF IndInv, InvPassed, TypeOK
        <2>3. \A f \in Files : result[f].state # "pending"
            BY <1>1, <2>2, SizesAssumption DEF IndInv, InvPassed, Active, Files
        <2> QED
            BY <2>3, ResultFields DEF IndInv, TypeOK
    <1>3. Failed = {} <=> done = Files
        BY <1>2 DEF Failed
    <1>4. \A f \in done : ~Promise!Failing(f)
        BY <1>1, FailsSeen DEF IndInv, InvHandlers
    <1>5. mode.caching \in BOOLEAN /\ mode.coverage \in {"Whole", "Partial"}
        BY DEF IndInv, TypeOK, ModeType
    <1>6. \A f \in Files : corpusSeen[f] # "skipped" <=> profile[f].kind # "skip"
        BY DEF corpusSeen
    <1>7. Saved = IF mode.caching THEN Promise!After(done) ELSE disk
        <2>1. CASE ~mode.caching
            BY <2>1 DEF Saved
        <2>2. CASE mode.caching
            <3>1. cache = disk
                BY <1>1, <2>2 DEF IndInv, InvStored
            <3>2. \A f \in Stored :
                     Fresh[f] = IF f \in done /\ corpusSeen[f] # "skipped"
                                THEN "good" ELSE "none"
                BY <1>6, <2>2 DEF Fresh, IndInv, InvStored
            <3>3. CASE mode.coverage = "Whole" /\ Failed = {}
                <4>1. Saved = Fresh
                    BY <2>2, <3>3 DEF Saved
                <4> QED
                    BY <1>3, <2>2, <3>2, <3>3, <4>1 DEF Promise!After, Fresh
            <3>4. CASE ~(mode.coverage = "Whole" /\ Failed = {})
                <4>1. Saved = Merged
                    BY <2>2, <3>4 DEF Saved
                <4>2. \A f \in Stored :
                         Merged[f] = IF f \in done /\ corpusSeen[f] # "skipped"
                                     THEN "good" ELSE disk[f]
                    BY <3>1, <3>2 DEF Merged
                <4> QED
                    BY <1>3, <2>2, <3>4, <4>1, <4>2 DEF Promise!After, Merged
            <3> QED
                BY <3>3, <3>4
        <2> QED
            BY <1>5, <2>1, <2>2
    <1>8. UNCHANGED <<corpusSeen, mode.coverage, mode.caching, ~faulted>>
        BY <1>1 DEF corpusSeen, FailingSteps
    <1>9. statusSeen = "running"
        BY <1>1 DEF statusSeen
    <1>10. \/ /\ done = Files
              /\ statusSeen' = "committed"
              /\ UNCHANGED <<(outcome # NoError), outcome.file>>
           \/ /\ done # Files
              /\ statusSeen' = "ended"
              /\ (outcome # NoError)' = TRUE
              /\ outcome'.file \in {0} \cup (Files \ done)
              /\ ~faulted => /\ outcome'.file # 0 /\ Promise!Failing(outcome'.file)
                             /\ \A g \in Files : g < outcome'.file => ~Promise!Failing(g)
        <2>1. CASE Failed = {}
            BY <1>3, <2>1 DEF Fold, statusSeen
        <2>2. CASE Failed # {}
            <3>1. PICK f \in Failed : Reported(f) /\ outcome' = result[f].error
                BY <2>2 DEF Fold
            <3>2. phase' = "ended" /\ statusSeen' = "ended"
                BY <2>2 DEF Fold, statusSeen
            <3>3. result[f].error # NoError /\ Honest(result[f].error)
                BY <3>1 DEF Failed, IndInv, InvErrors
            <3>4. ASSUME ~faulted
                  PROVE  /\ outcome'.file # 0 /\ outcome'.file \in Files
                         /\ Fails(outcome'.file)
                         /\ \A g \in Files : g < outcome'.file => ~Fails(g)
                <4>1. /\ result[f].error.file \in Files /\ result[f].error.file <= f
                      /\ Fails(result[f].error.file)
                    BY <3>1, <3>4 DEF IndInv, InvBlame, Failed
                <4>2. \A g \in Files : g < f => result[g].state = "ok"
                    BY <1>2, <3>1, SizesAssumption DEF Reported, Failed, Files
                <4>3. \A g \in Files : g < f => ~Fails(g)
                    BY <4>2 DEF IndInv, InvHandlers
                <4> QED
                    BY <3>1, <4>1, <4>3, SizesAssumption DEF Failed, Files
            <3> QED
                <4>1. outcome'.file \in {0} \cup (Files \ done)
                    BY <3>1, <3>3 DEF Honest
                <4> QED
                    BY <1>1, <1>3, <2>2, <3>1, <3>2, <3>3, <3>4, <4>1, FailsSeen
        <2> QED
            BY <2>1, <2>2
    <1>11. done \in SUBSET Files
        OBVIOUS
    <1> HIDE DEF done
    <1> QED
        BY <1>1, <1>4, <1>7, <1>8, <1>9, <1>10, <1>11 DEF Promise!Commit

LEMMA StepPromise == IndInv /\ [Next]_vars => [Promise!PromiseNext]_Promise!promiseVars
    <1> SUFFICES ASSUME IndInv, [Next]_vars
                 PROVE  [Promise!PromiseNext]_Promise!promiseVars
        OBVIOUS
    <1>1. CASE Start
        <2>1. mode' \in ModeType
            BY <1>1, ModesAssumption DEF Start
        <2>2. statusSeen \in {"idle", "ended"} /\ statusSeen' = "running"
            BY <1>1 DEF Start, statusSeen
        <2>3. UNCHANGED <<corpusSeen, disk>>
            BY <1>1 DEF Start, corpusSeen, FailingSteps
        <2>4. /\ (~faulted)' = TRUE /\ (outcome # NoError)' = FALSE
              /\ landed' = TRUE /\ (outcome.file)' = 0
            BY <1>1 DEF Start, NoError
        <2>5. Promise!Begin
            BY <2>1, <2>2, <2>3, <2>4 DEF Promise!Begin, ModeType
        <2> QED
            BY <2>5 DEF Promise!PromiseNext
    <1>2. ASSUME NEW w \in Workers, Thread(w)
          PROVE  [Promise!PromiseNext]_Promise!promiseVars
        BY <1>2, ThreadQuiet, QuietPromise
    <1>3. CASE Expire
        <2>1. Quiet /\ phase \in {"checking", "reducing"}
            BY <1>3 DEF Expire, Quiet
        <2> QED
            BY <2>1, QuietPromise
    <1>4. CASE Fold
        BY <1>4, FoldPromise DEF Promise!PromiseNext
    <1>5. CASE Reduce
        <2>1. statusSeen = "committed" /\ statusSeen' = "ended"
            BY <1>5 DEF Reduce, statusSeen
        <2>2. UNCHANGED <<corpusSeen, disk, mode.coverage, mode.caching, ~faulted,
                          landed>>
            BY <1>5 DEF Reduce, corpusSeen, FailingSteps, faultVars
        <2>3. outcome.file = 0 /\ UNCHANGED outcome.file
            BY <1>5 DEF Reduce, IndInv, InvPassed, NoError, RunWide
        <2>4. (outcome # NoError)' \in BOOLEAN
            OBVIOUS
        <2>5. Promise!Conclude
            BY <2>1, <2>2, <2>3, <2>4 DEF Promise!Conclude
        <2> QED
            BY <2>5 DEF Promise!PromiseNext
    <1>6. CASE UNCHANGED vars
        BY <1>6 DEF vars, Promise!promiseVars, corpusSeen, statusSeen, FailingSteps
    <1> QED
        BY <1>1, <1>2, <1>3, <1>4, <1>5, <1>6 DEF Next

LEMMA InitPromise == Init => Promise!PromiseInit
    <1> SUFFICES ASSUME Init PROVE Promise!PromiseInit
        OBVIOUS
    <1>1. corpusSeen \in [Files -> {"skipped", "clean", "failing"}]
        BY DEF corpusSeen
    <1>2. disk \in [Stored -> {"none", "good"}]
        BY DEF Init, NoEntries
    <1>3. mode \in ModeType
        BY ModesAssumption DEF Init
    <1> QED
        BY <1>1, <1>2, <1>3 DEF Init, Promise!PromiseInit, ModeType, statusSeen, NoError

\* Threads, cursor, sticky failures and the loaded store implement the atomic run
\* of RunPromise (run_files as its callers see it).
THEOREM PromiseKept == Spec => KeepsPromise
    BY InitPromise, Inductive, StepPromise, PTL
    DEF Spec, KeepsPromise, Promise!PromiseSpec
=============================================================================
