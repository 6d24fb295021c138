--------------------------- MODULE RuleCallProofs ---------------------------
(***************************************************************************)
(* Proofs about RuleCall, for any budgets, any rules and instances, any    *)
(* order of polls, pauses and growth, and any run shorter than u64::MAX.   *)
(***************************************************************************)
EXTENDS RuleCall, SequenceTheorems, FiniteSetTheorems, TLAPS

Guards == [remaining : 0..MaxNanos, armed : BOOLEAN]

\* Saturating arithmetic stays within u64, and off zero.
LEMMA TimeFacts ==
    ASSUME now \in 0..Horizon
    PROVE  /\ \A d \in Nat : Clamped(d) \in 0..MaxNanos
           /\ \A d \in 0..MaxNanos :
                /\ DeadlineIn(d) \in 0..MaxNanos
                /\ DeadlineIn(d) # 0
                /\ Less(d, now) \in 0..MaxNanos
    BY TimesAssumption, HorizonAssumption DEF Clamped, DeadlineIn, Less

\* What pushing and popping a guard leaves of the stack.
LEMMA PushGuard ==
    ASSUME NEW s \in Seq(Guards), NEW g \in Guards
    PROVE  /\ Append(s, g) \in Seq(Guards)
           /\ Append(s, g) # <<>>
           /\ Len(Append(s, g)) = Len(s) + 1
           /\ \A i \in 1..Len(s) : Append(s, g)[i] = s[i]
           /\ Append(s, g)[Len(s) + 1] = g
           /\ s = <<>> => Append(s, g)[1] = g
           /\ s # <<>> => Append(s, g)[1] = s[1]
    OBVIOUS

LEMMA PopGuard ==
    ASSUME NEW s \in Seq(Guards), s # <<>>
    PROVE  /\ Len(s) \in Nat \ {0}
           /\ s[Len(s)] \in Guards
           /\ SubSeq(s, 1, Len(s) - 1) \in Seq(Guards)
           /\ Len(SubSeq(s, 1, Len(s) - 1)) = Len(s) - 1
           /\ \A i \in 1..(Len(s) - 1) : SubSeq(s, 1, Len(s) - 1)[i] = s[i]
           /\ SubSeq(s, 1, Len(s) - 1) = <<>> <=> Len(s) = 1
    <1> DEFINE t == SubSeq(s, 1, Len(s) - 1)
    <1>1. Len(s) \in Nat \ {0} /\ s[Len(s)] \in Guards
        OBVIOUS
    <1>2. /\ t \in Seq(Guards)
          /\ Len(t) = IF 1 <= Len(s) - 1 THEN Len(s) - 1 - 1 + 1 ELSE 0
          /\ \A i \in 1..(Len(s) - 1 - 1 + 1) : t[i] = s[1 + i - 1]
        <2>2. \A i \in 1..(Len(s) - 1) : s[i] \in Guards
            BY <1>1
        <2>3. 1 \in Int /\ Len(s) - 1 \in Int
            BY <1>1
        <2> QED
            BY <2>2, <2>3, SubSeqProperties
    <1> HIDE DEF t
    <1>3. Len(t) = Len(s) - 1
        <2>1. PICK n \in Nat \ {0} : Len(s) = n
            BY <1>1
        <2>2. Len(t) = n - 1
            BY <1>2, <2>1
        <2> QED
            BY <2>1, <2>2
    <1>4. \A i \in 1..(Len(s) - 1) : t[i] = s[i]
        BY <1>1, <1>2
    <1>5. t = <<>> <=> Len(t) = 0
        BY <1>2, EmptySeq
    <1> QED
        BY <1>1, <1>2, <1>3, <1>4, <1>5 DEF t

-----------------------------------------------------------------------------
(* Types.                                                                   *)

LEMMA NextTypeOK == TypeOK /\ InvClock /\ [Next]_vars => TypeOK'
    <1> SUFFICES ASSUME TypeOK, InvClock, [Next]_vars PROVE TypeOK'
        OBVIOUS
    <1>a. /\ now \in 0..Horizon /\ paused \in Seq(Guards)
          /\ InstanceOf[slot] \in Instances
        BY SlotsAssumption DEF TypeOK, Guards
    <1>1. CASE Tick
        <2>1. now' \in 0..Horizon /\ used' \in 0..Horizon
            BY <1>1, TimesAssumption DEF Tick, TypeOK, InvClock
        <2> QED
            BY <1>1, <2>1 DEF Tick, TypeOK, clockVars, memoryVars, callVars
    <1>2. CASE Call
        BY <1>2 DEF Call, TypeOK, clockVars, memoryVars
    <1>3. CASE Arm
        <2>1. stage' \in Stages
            BY <1>3 DEF Arm, NextStage, Stages
        <2>2. granted' \in 0..MaxNanos
            BY <1>3, TimesAssumption, TimeFacts DEF Arm, TypeOK
        <2>3. deadline' \in 0..MaxNanos
            BY <1>3, <1>a, <2>2, TimeFacts DEF Arm
        <2>4. used' \in 0..Horizon /\ cause' \in Causes
            BY <1>3, TimesAssumption DEF Arm, Causes
        <2> QED
            BY <1>3, <2>1, <2>2, <2>3, <2>4 DEF Arm, TypeOK
    <1>4. CASE Poll
        BY <1>4 DEF Poll, Spent, Stopped, Causes, TypeOK, memoryVars, callVars
    <1>5. CASE Pause
        <2>1. [remaining |-> Less(deadline, now), armed |-> deadline # 0] \in Guards
            BY <1>a, TimeFacts DEF Guards, TypeOK
        <2>2. paused' \in Seq(Guards)
            BY <1>5, <1>a, <2>1, PushGuard DEF Pause
        <2>3. deadline' \in 0..MaxNanos
            BY <1>5, TimesAssumption DEF Pause
        <2> QED
            BY <1>5, <2>2, <2>3 DEF Pause, TypeOK, memoryVars, callVars, Guards
    <1>6. CASE Resume
        <2>1. Guard \in Guards /\ paused' \in Seq(Guards)
            BY <1>6, <1>a, PopGuard DEF Resume, Guard
        <2>2. deadline' \in 0..MaxNanos /\ tripped' = tripped
            BY <1>6, <1>a, <2>1, TimeFacts DEF Resume, Resumed, Guards, TypeOK
        <2> QED
            BY <1>6, <2>1, <2>2 DEF Resume, TypeOK, memoryVars, callVars, Guards
    <1>7. CASE Grow
        <2>1. PICK n \in Growths :
                 \/ /\ total' = total + n
                    /\ mem' = [mem EXCEPT ![InstanceOf[slot]] = @ + n]
                    /\ UNCHANGED <<breached, pc, raw, cause>>
                 \/ /\ breached' = TRUE
                    /\ Stopped("memory", "trap")
                    /\ UNCHANGED <<total, mem>>
            BY <1>7 DEF Grow
        <2>2. n \in Nat /\ mem \in [Instances -> Nat] /\ total \in Nat
            BY MemoryAssumption DEF TypeOK
        <2>3. total' \in Nat
            BY <2>1, <2>2
        <2>4. mem' \in [Instances -> Nat]
            BY <2>1, <2>2, <1>a
        <2>5. /\ breached' \in BOOLEAN
              /\ cause' \in Causes /\ raw' \in {"ok", "error", "trap"}
              /\ pc' \in {"idle", "arm", "guest", "settle"}
            BY <2>1 DEF Stopped, Causes, TypeOK
        <2> QED
            BY <1>7, <2>3, <2>4, <2>5 DEF Grow, TypeOK, clockVars, callVars
    <1>8. CASE Return
        BY <1>8 DEF Return, Stopped, Causes, TypeOK, clockVars, memoryVars, callVars
    <1>9. CASE Settle
        <2>1. built' \subseteq Instances /\ configured' \subseteq Slots
            BY <1>9, <1>a DEF Settle, TypeOK
        <2>2. mem' \in [Instances -> Nat] /\ lost' \in Nat
            BY <1>9, <1>a DEF Settle, TypeOK
        <2>3. verdict' \in Verdicts
            BY <1>9 DEF Settle, Classified, Verdicts, TypeOK
        <2>4. tripped' \in {"none", "run", "rule"} /\ breached' \in BOOLEAN
            BY <1>9 DEF Settle, TypeOK
        <2>5. deadline' \in 0..MaxNanos
            BY <1>9, TimesAssumption DEF Settle
        <2>6. pc' \in {"idle", "arm", "guest", "settle"}
            BY <1>9 DEF Settle
        <2> QED
            BY <1>9, <2>1, <2>2, <2>3, <2>4, <2>5, <2>6 DEF Settle, TypeOK, callVars
    <1>10. CASE UNCHANGED vars
        BY <1>10 DEF vars, TypeOK, clockVars, memoryVars, callVars
    <1> QED
        BY <1>1, <1>2, <1>3, <1>4, <1>5, <1>6, <1>7, <1>8, <1>9, <1>10 DEF Next

-----------------------------------------------------------------------------
(* Guards: one holds the remainder, and none outlives its entry.            *)

LEMMA NextInvPaused == TypeOK /\ InvPaused /\ InvClock /\ [Next]_vars => InvPaused'
    <1> SUFFICES ASSUME TypeOK, InvPaused, InvClock, [Next]_vars PROVE InvPaused'
        OBVIOUS
    <1>a. paused \in Seq(Guards) /\ Len(paused) \in Nat
        BY DEF TypeOK, Guards
    <1>1. CASE Pause
        <2> DEFINE g == [remaining |-> Less(deadline, now), armed |-> deadline # 0]
        <2>1. g \in Guards
            BY TimeFacts DEF Guards, TypeOK
        <2>2. /\ paused' = Append(paused, g) /\ deadline' = 0 /\ pc' = "guest"
              /\ paused # <<>> => deadline = 0
            BY <1>1 DEF Pause, InvPaused
        <2>3. g.armed <=> deadline # 0
            OBVIOUS
        <2> HIDE DEF g
        <2>4. CASE paused = <<>>
            <3>1. Len(paused) = 0 /\ deadline \in 0..MaxNanos
                BY <2>4 DEF TypeOK
            <3>2. deadline # 0
                BY <1>1, <2>4 DEF Pause, InvPaused, InvClock
            <3> QED
                BY <1>a, <2>1, <2>2, <2>3, <2>4, <3>1, <3>2, PushGuard DEF InvPaused
        <2>5. CASE paused # <<>>
            <3>1. /\ paused'[1] = paused[1] /\ paused[1].armed
                  /\ Len(paused') = Len(paused) + 1
                  /\ \A i \in 1..Len(paused) : paused'[i] = paused[i]
                  /\ paused'[Len(paused) + 1] = g
                BY <1>a, <2>1, <2>2, <2>5, PushGuard DEF InvPaused
            <3>2. ~g.armed
                BY <2>2, <2>3, <2>5
            <3>3. \A i \in 2..Len(paused') : ~paused'[i].armed
                BY <1>a, <3>1, <3>2 DEF InvPaused
            <3> QED
                BY <2>2, <3>1, <3>3 DEF InvPaused
        <2> QED
            BY <2>4, <2>5
    <1>2. CASE Resume
        <2>1. /\ Len(paused) \in Nat \ {0}
              /\ Len(paused') = Len(paused) - 1
              /\ \A i \in 1..(Len(paused) - 1) : paused'[i] = paused[i]
              /\ paused' = <<>> <=> Len(paused) = 1
            BY <1>2, <1>a, PopGuard DEF Resume
        <2>2. pc' = pc /\ pc \notin {"idle", "arm"}
            BY <1>2 DEF Resume, InvPaused
        <2>3. ASSUME Len(paused) # 1
              PROVE  deadline' = 0 /\ paused'[1].armed
            <3>1. ~Guard.armed
                BY <2>1, <2>3 DEF InvPaused, Guard
            <3> QED
                BY <1>2, <2>1, <2>3, <3>1 DEF Resume, Resumed, InvPaused
        <2>4. \A i \in 2..Len(paused') : ~paused'[i].armed
            BY <2>1 DEF InvPaused
        <2> QED
            BY <2>1, <2>2, <2>3, <2>4 DEF InvPaused
    <1>3. CASE Arm
        BY <1>3 DEF Arm, InvPaused
    <1>4. CASE Settle
        BY <1>4 DEF Settle, InvPaused
    <1>5. CASE Tick \/ Call \/ Poll \/ Grow \/ Return \/ UNCHANGED vars
        BY <1>5 DEF Tick, Call, Poll, Grow, Return, Stopped, vars, clockVars, InvPaused
    <1> QED
        BY <1>1, <1>2, <1>3, <1>4, <1>5 DEF Next

-----------------------------------------------------------------------------
(* What is left of a budget.                                                *)

LEMMA NextInvClock == TypeOK /\ InvPaused /\ InvClock /\ [Next]_vars => InvClock'
    <1> SUFFICES ASSUME TypeOK, InvPaused, InvClock, [Next]_vars PROVE InvClock'
        OBVIOUS
    <1>a. /\ paused \in Seq(Guards) /\ Len(paused) \in Nat
          /\ now \in Nat /\ now < MaxNanos /\ used \in Nat /\ granted \in 0..MaxNanos
          /\ deadline \in 0..MaxNanos /\ MaxNanos \in Nat
        BY TimesAssumption, HorizonAssumption DEF TypeOK, Guards
    <1>g. paused # <<>> => paused[1] \in Guards /\ paused[1].remaining \in 0..MaxNanos
        <2>1. paused # <<>> => paused[1] \in Guards
            BY <1>a
        <2> QED
            BY <2>1 DEF Guards
    <1>1. CASE Tick
        <2>1. now' = now + 1 /\ UNCHANGED <<pc, deadline, paused, granted>>
            BY <1>1 DEF Tick, clockVars
        <2>2. used' <= now'
            BY <1>1, <1>a, <2>1 DEF Tick, InvClock
        <2>3. CASE pc = "guest" /\ paused = <<>>
            <3>1. used' = used + 1
                BY <1>1, <2>3 DEF Tick
            <3> QED
                BY <1>a, <2>1, <2>2, <2>3, <3>1 DEF InvClock, Kept
        <2>4. CASE pc = "guest" /\ paused # <<>>
            <3>1. used' = used
                BY <1>1, <2>4 DEF Tick
            <3> QED
                BY <1>a, <1>g, <2>1, <2>2, <2>4, <3>1 DEF InvClock, Kept
        <2>5. CASE pc # "guest"
            BY <2>1, <2>2, <2>5 DEF InvClock
        <2> QED
            BY <2>3, <2>4, <2>5
    <1>2. CASE Arm
        <2>1. /\ used' = 0 /\ now' = now /\ paused' = paused /\ paused = <<>>
              /\ pc' = "guest" /\ deadline' = DeadlineIn(granted')
            BY <1>2 DEF Arm, InvPaused
        <2>2. granted' \in 0..MaxNanos
            BY <1>2, TimesAssumption, TimeFacts DEF Arm, TypeOK
        <2>3. deadline' # 0 /\ deadline' \in 0..MaxNanos
            BY <2>1, <2>2, TimeFacts DEF TypeOK
        <2>4. PICK g \in 0..MaxNanos : granted' = g
            BY <2>2
        <2>5. PICK d \in 0..MaxNanos : deadline' = d
            BY <2>3
        <2>6. d = IF now + g = 0 THEN 1 ELSE IF now + g > MaxNanos THEN MaxNanos ELSE now + g
            BY <2>1, <2>4, <2>5 DEF DeadlineIn, Clamped
        <2>7. /\ now + (d - now) >= MaxNanos \/ g <= 0 + (d - now)
              /\ 0 + (d - now) <= g + 1
            BY <1>a, <2>6
        <2> QED
            BY <1>a, <2>1, <2>3, <2>4, <2>5, <2>7 DEF InvClock, Kept
    <1>3. CASE Pause
        <2> DEFINE g == [remaining |-> Less(deadline, now), armed |-> deadline # 0]
        <2>1. g \in Guards
            BY TimeFacts DEF Guards, TypeOK
        <2>2. /\ paused' = Append(paused, g) /\ pc = "guest" /\ pc' = "guest"
              /\ UNCHANGED <<now, used, granted>>
            BY <1>3 DEF Pause
        <2>3. g.remaining = Less(deadline, now)
            OBVIOUS
        <2> HIDE DEF g
        <2>4. paused' # <<>> /\ paused'[1] = IF paused = <<>> THEN g ELSE paused[1]
            BY <1>a, <2>1, <2>2, PushGuard
        <2>5. CASE paused = <<>>
            <3>1. Kept(deadline - now)
                BY <2>2, <2>5 DEF InvClock
            <3>2. Kept(Less(deadline, now))
                BY <1>a, <3>1 DEF Kept, Less
            <3> QED
                BY <2>2, <2>3, <2>4, <2>5, <3>2 DEF InvClock, Kept
        <2>6. CASE paused # <<>>
            BY <2>2, <2>4, <2>6 DEF InvClock, Kept
        <2> QED
            BY <2>5, <2>6
    <1>4. CASE Resume
        <2>1. /\ Len(paused) \in Nat \ {0}
              /\ \A i \in 1..(Len(paused) - 1) : paused'[i] = paused[i]
              /\ paused' = <<>> <=> Len(paused) = 1
              /\ paused # <<>>
            BY <1>4, <1>a, PopGuard DEF Resume
        <2>2. UNCHANGED <<now, used, granted, pc>>
            BY <1>4 DEF Resume
        <2>3. CASE Len(paused) # 1
            <3>1. PICK n \in Nat \ {0} : Len(paused) = n
                BY <2>1
            <3>2. 1 \in 1..(n - 1)
                BY <2>3, <3>1
            <3>3. paused'[1] = paused[1]
                BY <2>1, <3>1, <3>2
            <3> QED
                BY <2>1, <2>2, <2>3, <3>3 DEF InvClock, Kept
        <2>4. CASE Len(paused) = 1
            <3>1. deadline' = DeadlineIn(paused[1].remaining)
                BY <1>4, <2>1, <2>4 DEF Resume, Resumed, Guard, InvPaused
            <3>2. deadline' # 0 /\ deadline' \in 0..MaxNanos
                BY <1>g, <2>1, <3>1, TimeFacts DEF TypeOK
            <3>3. ASSUME Kept(paused[1].remaining) PROVE Kept(deadline' - now)
                BY <1>a, <1>g, <2>1, <3>1, <3>3 DEF Kept, DeadlineIn, Clamped, InvClock
            <3> QED
                BY <2>1, <2>2, <2>4, <3>2, <3>3 DEF InvClock, Kept
        <2> QED
            BY <2>3, <2>4
    <1>5. CASE Grow \/ Poll \/ Return
        BY <1>5 DEF Grow, Poll, Return, Stopped, clockVars, InvClock, Kept
    <1>6. CASE Call \/ Settle \/ UNCHANGED vars
        BY <1>6 DEF Call, Settle, vars, clockVars, InvClock, Kept
    <1> QED
        BY <1>1, <1>2, <1>3, <1>4, <1>5, <1>6 DEF Next

-----------------------------------------------------------------------------
(* Records and blame.                                                       *)

\* A poll that finds the call's own deadline passed finds its budget used up.
LEMMA RuleSpent ==
    ASSUME TypeOK, InvPaused, InvClock, pc = "guest", Spent = "rule"
    PROVE  used >= granted
    <1>1. deadline # 0 /\ now >= deadline
        BY DEF Spent
    <1>2. paused = <<>>
        BY <1>1 DEF InvPaused
    <1>3. Kept(deadline - now)
        BY <1>2 DEF InvClock
    <1> QED
        BY <1>1, <1>3, TimesAssumption, HorizonAssumption DEF Kept, TypeOK

LEMMA NextInvCause ==
    TypeOK /\ InvPaused /\ InvClock /\ InvCause /\ [Next]_vars => InvCause'
    <1> SUFFICES ASSUME TypeOK, InvPaused, InvClock, InvCause, [Next]_vars
                 PROVE  InvCause'
        OBVIOUS
    <1>1. CASE Tick
        BY <1>1 DEF Tick, clockVars, memoryVars, InvCause
    <1>2. CASE Call
        BY <1>2 DEF Call, clockVars, memoryVars, InvCause
    <1>3. CASE Arm
        BY <1>3 DEF Arm, InvCause
    <1>4. CASE Poll
        <2>1. /\ Spent \in {"run", "rule"} /\ tripped' = Spent /\ cause' = Spent
              /\ raw' = "trap" /\ pc' = "settle" /\ breached' = breached
              /\ UNCHANGED <<used, granted>> /\ pc = "guest"
            BY <1>4 DEF Poll, Spent, Stopped, memoryVars
        <2>2. Spent = "rule" => used >= granted
            BY <2>1, RuleSpent
        <2> QED
            BY <2>1, <2>2 DEF InvCause
    <1>5. CASE Pause
        BY <1>5 DEF Pause, memoryVars, InvCause
    <1>6. CASE Resume
        BY <1>6 DEF Resume, Resumed, memoryVars, InvCause
    <1>7. CASE Grow
        BY <1>7 DEF Grow, Stopped, clockVars, InvCause, TypeOK
    <1>8. CASE Return
        BY <1>8 DEF Return, Stopped, clockVars, memoryVars, InvCause
    <1>9. CASE Settle
        <2>1. /\ pc = "settle" /\ pc' # "settle" /\ pc' # "guest"
              /\ UNCHANGED <<used, granted>>
            BY <1>9 DEF Settle
        <2>2. CASE raw = "trap"
            <3>1. tripped' = "none" /\ breached' = FALSE
                BY <1>9, <2>2 DEF Settle
            <3> QED
                BY <2>1, <3>1 DEF InvCause
        <2>3. CASE raw # "trap"
            <3>1. tripped' = tripped /\ breached' = breached
                BY <1>9, <2>3 DEF Settle
            <3>2. cause = "none"
                BY <2>1, <2>3 DEF InvCause
            <3>3. tripped # "run" /\ tripped # "rule" /\ ~breached
                BY <2>1, <3>2 DEF InvCause
            <3>4. tripped = "none"
                BY <3>3 DEF TypeOK
            <3> QED
                BY <2>1, <3>1, <3>3, <3>4 DEF InvCause
        <2> QED
            BY <2>2, <2>3
    <1>10. CASE UNCHANGED vars
        BY <1>10 DEF vars, clockVars, memoryVars, InvCause
    <1> QED
        BY <1>1, <1>2, <1>3, <1>4, <1>5, <1>6, <1>7, <1>8, <1>9, <1>10 DEF Next

LEMMA NextBlame ==
    TypeOK /\ InvPaused /\ InvCause /\ BlameIsTrue /\ [Next]_vars => BlameIsTrue'
    <1> SUFFICES ASSUME TypeOK, InvPaused, InvCause, BlameIsTrue, [Next]_vars
                 PROVE  BlameIsTrue'
        OBVIOUS
    <1>1. CASE Settle
        <2>1. raw = "trap" => /\ cause \in {"run", "rule", "memory", "own"}
                              /\ verdict' = Classified
            BY <1>1 DEF Settle, InvCause, TypeOK, Causes
        <2>2. raw # "trap" => verdict' \in {"none", "ok", "Reported"} \/ pc' # "idle"
            BY <1>1 DEF Settle, TypeOK
        <2>3. cause' = cause /\ pc = "settle"
            BY <1>1 DEF Settle
        <2> QED
            BY <2>1, <2>2, <2>3 DEF BlameIsTrue, Classified, InvCause
    <1>2. CASE Resume
        BY <1>2 DEF Resume, InvPaused, BlameIsTrue
    <1>3. CASE Tick \/ UNCHANGED vars
        BY <1>3 DEF Tick, vars, BlameIsTrue
    <1>4. CASE Call \/ Arm \/ Poll \/ Pause \/ Grow \/ Return
        <2>1. pc' # "idle"
            BY <1>4 DEF Call, Arm, Poll, Pause, Grow, Return, Stopped
        <2> QED
            BY <2>1 DEF BlameIsTrue
    <1> QED
        BY <1>1, <1>2, <1>3, <1>4 DEF Next

-----------------------------------------------------------------------------
LEMMA InitIndInv == Init => IndInv
    <1> SUFFICES ASSUME Init PROVE IndInv
        OBVIOUS
    <1>1. TypeOK
        <2>1. /\ now \in 0..Horizon /\ used \in 0..Horizon /\ deadline \in 0..MaxNanos
              /\ granted \in 0..MaxNanos
            BY TimesAssumption DEF Init
        <2>2. paused \in Seq([remaining : 0..MaxNanos, armed : BOOLEAN])
            BY DEF Init
        <2> QED
            BY <2>1, <2>2 DEF Init, TypeOK, Stages, Causes, Verdicts
    <1>2. Len(<<>>) = 0
        OBVIOUS
    <1> QED
        BY <1>1, <1>2 DEF Init, IndInv, InvPaused, InvClock, InvCause, BlameIsTrue

LEMMA NextIndInv == IndInv /\ [Next]_vars => IndInv'
    BY NextTypeOK, NextInvPaused, NextInvClock, NextInvCause, NextBlame DEF IndInv

LEMMA Inductive == Spec => []IndInv
    BY InitIndInv, NextIndInv, PTL DEF Spec

\* Every variable keeps its type (Budget, MemoryCeiling and WasmRuntime's state).
THEOREM TypeCorrect == Spec => []TypeOK
    <1>1. IndInv => TypeOK
        BY DEF IndInv
    <1> QED
        BY <1>1, Inductive, PTL

\* A rule's budget bounds the rule's own code and nothing else (Budget::arm,
\* pause and should_interrupt).
THEOREM OwnTime == Spec => []OwnTimeOnly
    <1>1. IndInv => OwnTimeOnly
        <2> SUFFICES ASSUME IndInv PROVE OwnTimeOnly
            OBVIOUS
        <2>1. tripped = "rule" => used >= granted
            BY DEF IndInv, InvCause
        <2>2. ASSUME pc = "guest", paused = <<>>, used > granted
              PROVE  Spent # "none"
            <3>1. deadline # 0 /\ Kept(deadline - now)
                BY <2>2 DEF IndInv, InvClock
            <3>2. now >= deadline
                BY <2>2, <3>1, TimesAssumption DEF Kept, IndInv, TypeOK
            <3> QED
                BY <3>1, <3>2 DEF Spent
        <2> QED
            BY <2>1, <2>2 DEF OwnTimeOnly
    <1> QED
        BY <1>1, Inductive, PTL

\* A call that did not return is blamed on what stopped it (classify).
THEOREM Blame == Spec => []BlameIsTrue
    <1>1. IndInv => BlameIsTrue
        BY DEF IndInv
    <1> QED
        BY <1>1, Inductive, PTL
-----------------------------------------------------------------------------
(* The ceiling.                                                             *)

\* What the instances but one hold, and how that one adds to it.
OthersBytes(m, j) == UNION {{i} \X (1 .. m[i]) : i \in Instances \ {j}}

LEMMA BytesFinite ==
    ASSUME NEW m \in [Instances -> Nat]
    PROVE  IsFiniteSet(Bytes(m))
    <1> DEFINE Held == [i \in Instances |-> {i} \X (1 .. m[i])]
               Parts == {Held[i] : i \in Instances}
    <1>1. \A i \in Instances : IsFiniteSet(Held[i])
        <2> SUFFICES ASSUME NEW i \in Instances PROVE IsFiniteSet(Held[i])
            OBVIOUS
        <2>1. m[i] \in Int /\ 1 \in Int
            OBVIOUS
        <2>2. IsFiniteSet(1 .. m[i])
            BY <2>1, FS_Interval
        <2>3. IsFiniteSet({i})
            BY FS_Singleton
        <2>4. IsFiniteSet({i} \X (1 .. m[i]))
            BY <2>2, <2>3, FS_Product
        <2> QED
            BY <2>4
    <1>2. IsFiniteSet(Parts)
        <2>1. Held \in Surjection(Instances, Parts)
            BY DEF Surjection
        <2> QED
            BY <2>1, SlotsAssumption, FS_Surjection
    <1>3. IsFiniteSet(UNION Parts)
        BY <1>1, <1>2, FS_UNION
    <1>4. Bytes(m) = UNION Parts
        BY DEF Bytes
    <1> QED
        BY <1>3, <1>4

LEMMA BytesSplit ==
    ASSUME NEW m \in [Instances -> Nat], NEW j \in Instances
    PROVE  /\ Cardinality(OthersBytes(m, j)) \in Nat
           /\ Cardinality(Bytes(m)) = Cardinality(OthersBytes(m, j)) + m[j]
    <1> DEFINE Own == {j} \X (1 .. m[j])
               Rest == OthersBytes(m, j)
    <1>1. Bytes(m) = Rest \cup Own
        BY DEF Bytes, OthersBytes
    <1>2. Rest \cap Own = {}
        BY DEF OthersBytes
    <1>3. IsFiniteSet(Bytes(m))
        BY BytesFinite
    <1>4. IsFiniteSet(Rest) /\ IsFiniteSet(Own)
        <2>1. Rest \in SUBSET Bytes(m) /\ Own \in SUBSET Bytes(m)
            BY <1>1
        <2> QED
            BY <1>3, <2>1, FS_Subset
    <1>5. Cardinality(Own) = m[j]
        <2>1. m[j] \in Nat /\ m[j] \in Int /\ 1 \in Int
            OBVIOUS
        <2>2. /\ IsFiniteSet(1 .. m[j])
              /\ Cardinality(1 .. m[j]) = IF 1 > m[j] THEN 0 ELSE m[j] - 1 + 1
            BY <2>1, FS_Interval
        <2>3. Cardinality(1 .. m[j]) = m[j]
            BY <2>1, <2>2
        <2>4. IsFiniteSet({j}) /\ Cardinality({j}) = 1
            BY FS_Singleton
        <2>5. Cardinality(Own) = Cardinality({j}) * Cardinality(1 .. m[j])
            BY <2>2, <2>4, FS_Product
        <2> QED
            BY <2>1, <2>3, <2>4, <2>5
    <1>6. Cardinality(Rest \cup Own)
            = Cardinality(Rest) + Cardinality(Own) - Cardinality(Rest \cap Own)
        BY <1>4, FS_Union
    <1>7. Cardinality(Rest \cap Own) = 0
        BY <1>2, FS_EmptySet
    <1>8. Cardinality(Rest) \in Nat
        BY <1>4, FS_CardinalityType
    <1> HIDE DEF Own, Rest
    <1>9. Cardinality(Rest \cup Own) = Cardinality(Rest) + m[j]
        <2>1. m[j] \in Nat
            OBVIOUS
        <2> QED
            BY <1>5, <1>6, <1>7, <1>8, <2>1
    <1> QED
        BY <1>1, <1>8, <1>9 DEF Rest

\* Changing what one instance holds changes the bytes held by as much.
LEMMA BytesChange ==
    ASSUME NEW m \in [Instances -> Nat], NEW j \in Instances, NEW n \in Nat
    PROVE  LET k == [m EXCEPT ![j] = n]
           IN  /\ Cardinality(Bytes(m)) \in Nat
               /\ Cardinality(Bytes(k)) = Cardinality(Bytes(m)) - m[j] + n
    <1> DEFINE k == [m EXCEPT ![j] = n]
    <1>1. k \in [Instances -> Nat] /\ k[j] = n /\ m[j] \in Nat
        OBVIOUS
    <1>2. OthersBytes(k, j) = OthersBytes(m, j)
        <2>1. \A i \in Instances \ {j} : k[i] = m[i]
            OBVIOUS
        <2> QED
            BY <2>1 DEF OthersBytes
    <1> HIDE DEF k
    <1>3. /\ Cardinality(OthersBytes(m, j)) \in Nat
          /\ Cardinality(Bytes(m)) = Cardinality(OthersBytes(m, j)) + m[j]
        BY BytesSplit
    <1>4. Cardinality(Bytes(k)) = Cardinality(OthersBytes(k, j)) + k[j]
        BY <1>1, BytesSplit
    <1>5. Cardinality(Bytes(k)) = Cardinality(OthersBytes(m, j)) + n
        BY <1>1, <1>2, <1>4
    <1>6. /\ Cardinality(Bytes(m)) \in Nat
          /\ Cardinality(Bytes(k)) = Cardinality(Bytes(m)) - m[j] + n
        BY <1>1, <1>3, <1>5
    <1> QED
        BY <1>6 DEF k

LEMMA InitInvMemory == Init => InvMemory
    <1> SUFFICES ASSUME Init PROVE InvMemory
        OBVIOUS
    <1>1. Bytes(mem) = {}
        <2>1. \A i \in Instances : 1 .. mem[i] = {}
            BY DEF Init
        <2> QED
            BY <2>1 DEF Bytes
    <1>2. Cardinality(Bytes(mem)) = 0
        BY <1>1, FS_EmptySet
    <1> QED
        BY <1>2, MemoryAssumption DEF Init, InvMemory, HeldBytes

LEMMA NextInvMemory == TypeOK /\ InvMemory /\ [Next]_vars => InvMemory'
    <1> SUFFICES ASSUME TypeOK, InvMemory, [Next]_vars PROVE InvMemory'
        OBVIOUS
    <1> DEFINE j == InstanceOf[slot]
    <1>a. /\ j \in Instances /\ mem \in [Instances -> Nat] /\ mem[j] \in Nat
          /\ total \in Nat /\ lost \in Nat
        BY SlotsAssumption DEF TypeOK
    <1>b. Cardinality(Bytes(mem)) \in Nat
        BY <1>a, BytesChange
    <1>c. total = lost + Cardinality(Bytes(mem)) /\ total <= Ceiling
        BY DEF InvMemory, HeldBytes
    <1>1. ASSUME UNCHANGED <<total, mem, lost>> PROVE InvMemory'
        BY <1>1, <1>c DEF InvMemory, HeldBytes, Bytes
    <1>2. CASE Grow
        <2>1. PICK n \in Growths :
                 \/ /\ Admits(n)
                    /\ total' = total + n
                    /\ mem' = [mem EXCEPT ![InstanceOf[slot]] = @ + n]
                 \/ UNCHANGED <<total, mem>>
            BY <1>2 DEF Grow
        <2>2. lost' = lost
            BY <1>2 DEF Grow
        <2>3. CASE UNCHANGED <<total, mem>>
            BY <1>1, <2>2, <2>3
        <2>4. CASE /\ Admits(n)
                   /\ total' = total + n
                   /\ mem' = [mem EXCEPT ![j] = mem[j] + n]
            <3>1. n \in Nat /\ mem[j] + n \in Nat
                BY <1>a, MemoryAssumption
            <3>2. Cardinality(Bytes(mem')) = Cardinality(Bytes(mem)) - mem[j] + (mem[j] + n)
                BY <1>a, <2>4, <3>1, BytesChange
            <3> HIDE DEF j
            <3>3. total' = lost' + Cardinality(Bytes(mem'))
                BY <1>a, <1>b, <1>c, <2>2, <2>4, <3>1, <3>2
            <3>4. total' <= Ceiling
                BY <2>4 DEF Admits
            <3>5. Bytes(mem)' = Bytes(mem')
                BY DEF Bytes
            <3> QED
                BY <3>3, <3>4, <3>5 DEF InvMemory, HeldBytes
        <2> QED
            BY <2>1, <2>3, <2>4
    <1>3. CASE Settle
        <2>1. total' = total
            BY <1>3 DEF Settle
        <2>2. \/ UNCHANGED <<mem, lost>>
              \/ lost' = lost + mem[j] /\ mem' = [mem EXCEPT ![j] = 0]
            BY <1>3 DEF Settle
        <2>3. CASE UNCHANGED <<mem, lost>>
            BY <1>1, <2>1, <2>3
        <2>4. CASE lost' = lost + mem[j] /\ mem' = [mem EXCEPT ![j] = 0]
            <3>1. Cardinality(Bytes(mem')) = Cardinality(Bytes(mem)) - mem[j] + 0
                BY <1>a, <2>4, BytesChange
            <3> HIDE DEF j
            <3>2. total' = lost' + Cardinality(Bytes(mem')) /\ total' <= Ceiling
                BY <1>a, <1>b, <1>c, <2>1, <2>4, <3>1
            <3>3. Bytes(mem)' = Bytes(mem')
                BY DEF Bytes
            <3> QED
                BY <3>2, <3>3 DEF InvMemory, HeldBytes
        <2> QED
            BY <2>2, <2>3, <2>4
    <1>4. CASE Tick \/ Call \/ Arm \/ Poll \/ Pause \/ Resume \/ Return
        BY <1>1, <1>4 DEF Tick, Call, Arm, Poll, Pause, Resume, Return, memoryVars
    <1>5. CASE UNCHANGED vars
        BY <1>1, <1>5 DEF vars, memoryVars
    <1> QED
        BY <1>2, <1>3, <1>4, <1>5 DEF Next

\* Whatever its instances grow by, and however many fail while they are being
\* built, a worker never holds more than the ceiling (MemoryCeiling::admit).
THEOREM Ceilinged == Spec => []CeilingHolds
    <1>1. InvMemory => CeilingHolds
        BY DEF InvMemory, CeilingHolds
    <1>2. Init => InvMemory
        BY InitInvMemory
    <1>3. TypeOK /\ InvMemory /\ [Next]_vars => InvMemory'
        BY NextInvMemory
    <1>4. Spec => []TypeOK
        BY TypeCorrect
    <1> QED
        BY <1>1, <1>2, <1>3, <1>4, PTL DEF Spec
=============================================================================
