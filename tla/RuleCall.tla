------------------------------ MODULE RuleCall ------------------------------
(***************************************************************************)
(* One worker's component runtime, call after call, under its two clocks   *)
(* and its memory ceiling: `Budget` of crates/lanekeep-core/src/limits.rs, *)
(* `WasmRuntime` and `MemoryCeiling` of crates/lanekeep-wasm/src/runtime.rs *)
(* and `classify` of crates/lanekeep-wasm/src/error.rs.                    *)
(*                                                                         *)
(* A call instantiates the component and configures the rule where that    *)
(* has not happened, each under the default budget, and then runs the rule *)
(* under the rule's own.  The guest is any code: it runs on, asks the type *)
(* provider (its clock stopped), grows its memory, returns or traps.       *)
(***************************************************************************)
EXTENDS Integers, Sequences, FiniteSets

CONSTANTS
    Slots,          \* the rules of the set
    Instances,      \* the component instances that host them
    InstanceOf,     \* slot -> instance
    Timeouts,       \* per-call budgets, as Durations in nanoseconds
    RunLimits,      \* run budgets
    Ceiling,        \* Limits::memory_bytes
    Growths,        \* by how much a guest may grow its memory at once
    MaxNanos,       \* u64::MAX
    Horizon,        \* bound: how far the clock is followed
    MaxDepth        \* bound: pauses inside one another

ASSUME SlotsAssumption ==
    /\ InstanceOf \in [Slots -> Instances]
    /\ IsFiniteSet(Instances)
ASSUME TimesAssumption ==
    /\ Timeouts \subseteq Nat /\ RunLimits \subseteq Nat
    /\ MaxNanos \in Nat /\ Horizon \in Nat /\ MaxDepth \in Nat
ASSUME MemoryAssumption == Ceiling \in Nat /\ Growths \subseteq Nat
\* A run is over long before 2^64 nanoseconds have passed.
ASSUME HorizonAssumption == Horizon < MaxNanos

VARIABLES
    runLimit,   \* RunClock::global_timeout
    ruleTimeout,    \* Limits::rule_timeout, the default per-call budget
    now,        \* nanoseconds since the run started
    deadline,   \* Budget::invocation_deadline_nanos, 0 for none in flight
    tripped,    \* Budget::tripped
    paused,     \* the Paused guards alive, outermost first
    total,      \* MemoryCeiling::total
    breached,   \* MemoryCeiling::breached
    mem,        \* per instance: the linear memory it holds
    lost,       \* memory of instances whose instantiation failed
    built,      \* WasmRuntime::instances
    configured, \* WasmRuntime::configured
    pc,         \* where the worker is with the call
    slot, allowance,    \* the rule called, and the budget it declared
    stage,      \* which of the call's guest entries is being made
    raw,        \* how that entry ended
    verdict,    \* what the call answered last
    granted, used,  \* history: this entry's budget, and the time its own code took
    cause       \* history: what stopped it

clockVars  == <<deadline, tripped, paused>>
memoryVars == <<total, breached, mem, lost>>
callVars   == <<slot, allowance, stage>>
vars == <<runLimit, ruleTimeout, now, clockVars, memoryVars, built, configured,
          pc, callVars, raw, verdict, granted, used, cause>>

Stages == {"instantiate", "configure", "check"}
Causes == {"none", "run", "rule", "memory", "own"}
Verdicts == {"none", "ok", "Reported", "RunTimeout", "RuleTimeout",
             "MemoryExceeded", "Guest"}

TypeOK ==
    /\ runLimit \in RunLimits /\ ruleTimeout \in Timeouts
    /\ now \in 0..Horizon
    /\ deadline \in 0..MaxNanos
    /\ tripped \in {"none", "run", "rule"}
    /\ paused \in Seq([remaining : 0..MaxNanos, armed : BOOLEAN])
    /\ total \in Nat /\ breached \in BOOLEAN
    /\ mem \in [Instances -> Nat] /\ lost \in Nat
    /\ built \subseteq Instances /\ configured \subseteq Slots
    /\ pc \in {"idle", "arm", "guest", "settle"}
    /\ slot \in Slots /\ allowance \in Timeouts /\ stage \in Stages
    /\ raw \in {"ok", "error", "trap"}
    /\ verdict \in Verdicts
    /\ granted \in 0..MaxNanos /\ used \in 0..Horizon
    /\ cause \in Causes

Init ==
    /\ runLimit \in RunLimits /\ ruleTimeout \in Timeouts
    /\ now = 0
    /\ deadline = 0 /\ tripped = "none" /\ paused = <<>>
    /\ total = 0 /\ breached = FALSE
    /\ mem = [i \in Instances |-> 0] /\ lost = 0
    /\ built = {} /\ configured = {}
    /\ pc = "idle"
    /\ slot \in Slots /\ allowance \in Timeouts /\ stage = "instantiate"
    /\ raw = "ok" /\ verdict = "none"
    /\ granted = 0 /\ used = 0 /\ cause = "none"

-----------------------------------------------------------------------------
(* Time, in u64 nanoseconds.                                               *)

Clamped(d) == IF d > MaxNanos THEN MaxNanos ELSE d
Less(a, b) == IF a > b THEN a - b ELSE 0

\* Mutant: nothing keeps a deadline off zero, which means disarmed.
MutDeadlineIn(d) == Clamped(now + d)

\* saturating_add(..).max(1): a deadline never lands on zero.
DeadlineIn(d) == IF now + d = 0 THEN 1 ELSE Clamped(now + d)

Tick ==
    /\ now < Horizon
    /\ now' = now + 1
    /\ used' = IF pc = "guest" /\ paused = <<>> THEN used + 1 ELSE used
    /\ UNCHANGED <<runLimit, ruleTimeout, clockVars, memoryVars, built, configured,
                   pc, callVars, raw, verdict, granted, cause>>

-----------------------------------------------------------------------------
(* A call.                                                                 *)

\* check_with_timeout: a slot of the rule set, under the rule's own budget.
Call ==
    /\ pc = "idle"
    /\ slot' \in Slots /\ allowance' \in Timeouts
    /\ pc' = "arm"
    /\ UNCHANGED <<runLimit, ruleTimeout, now, clockVars, memoryVars, built,
                   configured, stage, raw, verdict, granted, used, cause>>

\* rule(): an instance is built once, and each of its rules configured once.
NextStage ==
    IF InstanceOf[slot] \notin built THEN "instantiate"
    ELSE IF slot \notin configured THEN "configure"
    ELSE "check"

Arm ==
    /\ pc = "arm"
    /\ stage' = NextStage
    /\ granted' = Clamped(IF NextStage = "check" THEN allowance ELSE ruleTimeout)
    /\ deadline' = DeadlineIn(granted')
    /\ tripped' = "none"
    /\ breached' = FALSE
    /\ used' = 0 /\ cause' = "none"
    /\ pc' = "guest"
    /\ UNCHANGED <<runLimit, ruleTimeout, now, paused, total, mem, lost, built,
                   configured, slot, allowance, raw, verdict>>

\* The guest has stopped, for one reason.
Stopped(why, how) == cause' = why /\ raw' = how /\ pc' = "settle"

\* Mutant: the rule's own deadline is looked at first.
MutSpent ==
    IF deadline # 0 /\ now >= deadline THEN "rule"
    ELSE IF now >= Clamped(runLimit) THEN "run" ELSE "none"

\* should_interrupt: the run's limit before the call's.
Spent ==
    IF now >= Clamped(runLimit) THEN "run"
    ELSE IF deadline # 0 /\ now >= deadline THEN "rule" ELSE "none"

\* The epoch callback: one tick further, or out, leaving a record of why.  The
\* run's limit holds while the call's clock is stopped, too.
Poll ==
    /\ pc = "guest"
    /\ Spent # "none"
    /\ tripped' = Spent
    /\ Stopped(IF now >= Clamped(runLimit) THEN "run" ELSE "rule", "trap")
    /\ UNCHANGED <<runLimit, ruleTimeout, now, deadline, paused, memoryVars, built,
                   configured, callVars, verdict, granted, used>>

\* pause(): a host function asks the type provider on the rule's behalf.
Pause ==
    /\ pc = "guest" /\ stage = "check"
    /\ Len(paused) < MaxDepth
    /\ paused' = Append(paused, [remaining |-> Less(deadline, now), armed |-> deadline # 0])
    /\ deadline' = 0
    /\ UNCHANGED <<runLimit, ruleTimeout, now, tripped, memoryVars, built, configured,
                   pc, callVars, raw, verdict, granted, used, cause>>

Guard == paused[Len(paused)]

Resumed ==
    /\ deadline' = IF Guard.armed THEN DeadlineIn(Guard.remaining) ELSE deadline
    /\ UNCHANGED tripped

\* Paused::drop, on return or while a failure unwinds.
Resume ==
    /\ paused # <<>>
    /\ Resumed
    /\ paused' = SubSeq(paused, 1, Len(paused) - 1)
    /\ UNCHANGED <<runLimit, ruleTimeout, now, memoryVars, built, configured, pc,
                   callVars, raw, verdict, granted, used, cause>>

\* Mutant: the ceiling is asked of each memory on its own.
MutAdmits(n) == mem[InstanceOf[slot]] + n <= Ceiling

\* MemoryCeiling::admit: what all instances were granted, and this.
Admits(n) == total + n <= Ceiling

\* memory.grow or table.grow, and the minimum an instance is built with.
Grow ==
    /\ pc = "guest" /\ paused = <<>>
    /\ \E n \in Growths :
         \/ /\ Admits(n)
            /\ total' = total + n
            /\ mem' = [mem EXCEPT ![InstanceOf[slot]] = @ + n]
            /\ UNCHANGED <<breached, pc, raw, cause>>
         \/ /\ ~Admits(n)
            /\ breached' = TRUE
            /\ Stopped("memory", "trap")
            /\ UNCHANGED <<total, mem>>
    /\ UNCHANGED <<runLimit, ruleTimeout, now, clockVars, lost, built, configured,
                   callVars, verdict, granted, used>>

\* The guest returns, returns a failure of its own making, or traps.
Return ==
    /\ pc = "guest" /\ paused = <<>>
    /\ \/ Stopped("none", "ok")
       \/ stage # "instantiate" /\ Stopped("none", "error")
       \/ Stopped("own", "trap")
    /\ UNCHANGED <<runLimit, ruleTimeout, now, clockVars, memoryVars, built,
                   configured, callVars, verdict, granted, used>>

\* classify: the recorded trip, the recorded breach, the guest's own words.
Classified ==
    IF tripped = "run" THEN "RunTimeout"
    ELSE IF tripped = "rule" THEN "RuleTimeout"
    ELSE IF breached THEN "MemoryExceeded"
    ELSE "Guest"

\* disarm, and what rule() and settle() make of the outcome.  A success goes on to
\* the next entry of the call; a failed instantiation leaves its memory behind.
Settle ==
    /\ pc = "settle" /\ paused = <<>>
    /\ deadline' = 0
    /\ \/ /\ raw = "ok"
          /\ built' = IF stage = "instantiate" THEN built \cup {InstanceOf[slot]} ELSE built
          /\ configured' = IF stage = "configure" THEN configured \cup {slot} ELSE configured
          /\ pc' = IF stage = "check" THEN "idle" ELSE "arm"
          /\ verdict' = IF stage = "check" THEN "ok" ELSE verdict
          /\ UNCHANGED <<tripped, breached, mem, lost>>
       \/ /\ raw = "error"
          /\ verdict' = "Reported"
          /\ pc' = "idle"
          /\ UNCHANGED <<tripped, breached, mem, lost, built, configured>>
       \/ /\ raw = "trap"
          /\ verdict' = Classified
          /\ tripped' = "none" /\ breached' = FALSE
          /\ pc' = "idle"
          /\ IF stage = "instantiate"
             THEN /\ lost' = lost + mem[InstanceOf[slot]]
                  /\ mem' = [mem EXCEPT ![InstanceOf[slot]] = 0]
             ELSE UNCHANGED <<lost, mem>>
          /\ UNCHANGED <<built, configured>>
    /\ UNCHANGED <<runLimit, ruleTimeout, now, paused, total, callVars, raw, granted,
                   used, cause>>

Next ==
    \/ Tick \/ Call \/ Arm \/ Poll \/ Pause \/ Resume \/ Grow \/ Return \/ Settle

Spec == Init /\ [][Next]_vars

-----------------------------------------------------------------------------
(* Properties                                                              *)

\* A call is stopped for its own budget only when its own code has used all of
\* it, however often and however long the provider was asked on the way; and a
\* guest that has used more is stopped at the next poll, whatever it declared and
\* however late in the run it was called: no deadline wraps, lands on zero or is
\* renewed (Budget::arm, pause and should_interrupt; the doc of pause).
OwnTimeOnly ==
    /\ tripped = "rule" => used >= granted
    /\ pc = "guest" /\ paused = <<>> /\ used > granted => Spent # "none"

\* A call that did not return is blamed on what stopped it: the run's clock before
\* the rule's, the ceiling only when this call met it, and never on what an
\* earlier call or a pause left behind (classify, Budget::take_trip,
\* MemoryCeiling::arm).
BlameIsTrue ==
    pc = "idle" /\ verdict \notin {"none", "ok", "Reported"} =>
        verdict = CASE cause = "run" -> "RunTimeout" [] cause = "rule" -> "RuleTimeout"
                    [] cause = "memory" -> "MemoryExceeded" [] cause = "own" -> "Guest"

\* What the store of one worker holds never exceeds the ceiling, over all of its
\* instances and the ones that failed on the way (MemoryCeiling's doc: under a
\* ceiling per memory "a worker running twenty components could reach twenty times
\* the budget").
Bytes(m) == UNION {{i} \X (1 .. m[i]) : i \in Instances}
HeldBytes == lost + Cardinality(Bytes(mem))

CeilingHolds == HeldBytes <= Ceiling
-----------------------------------------------------------------------------
(* The inductive invariant behind OwnTimeOnly and BlameIsTrue.              *)

\* Guards are alive in an entry only; the outermost holds the remainder and the
\* others hold nothing.
InvPaused ==
    /\ pc \in {"idle", "arm"} => paused = <<>>
    /\ paused # <<>> => deadline = 0 /\ paused[1].armed
    /\ \A i \in 2..Len(paused) : ~paused[i].armed

\* What is left of the budget is what the rule's own code has not used, but for
\* the nanosecond that keeps a deadline off zero, unless it reaches past the end
\* of u64.
Kept(left) ==
    /\ now + left >= MaxNanos \/ granted <= used + left
    /\ left <= 0 \/ used + left <= granted + 1

InvClock ==
    /\ used <= now
    /\ pc = "guest" =>
         IF paused = <<>> THEN deadline # 0 /\ Kept(deadline - now)
         ELSE Kept(paused[1].remaining)

\* The records agree with what stopped the entry, and are gone with it.
InvCause ==
    /\ pc # "settle" => tripped = "none" /\ ~breached
    /\ pc = "guest" => cause = "none"
    /\ pc = "settle" =>
         /\ tripped = "run" <=> cause = "run"
         /\ tripped = "rule" <=> cause = "rule"
         /\ breached <=> cause = "memory"
         /\ raw = "trap" <=> cause # "none"
    /\ tripped = "rule" => used >= granted

IndInv ==
    /\ TypeOK
    /\ InvPaused
    /\ InvClock
    /\ InvCause
    /\ BlameIsTrue

\* What was granted is what is held, whether by an instance or by one that failed.
InvMemory ==
    /\ total = HeldBytes
    /\ total <= Ceiling
=============================================================================
