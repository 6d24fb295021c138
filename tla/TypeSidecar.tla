----------------------------- MODULE TypeSidecar -----------------------------
(***************************************************************************)
(* The `tsc` type provider: one sidecar process, asked over a line protocol *)
(* by every worker thread of a run through one mutex                        *)
(* (crates/lanekeep-types/src/tsc/mod.rs), and held across the runs of a    *)
(* server session (crates/lanekeep-cli/src/session.rs).                     *)
(*                                                                         *)
(* What a question asks and what an answer says is left out: a request is   *)
(* its id, an answer the id it echoes and whether it can be read and says   *)
(* yes.  The driver may answer, refuse, hang, die, or print a line nobody   *)
(* asked for.                                                               *)
(***************************************************************************)
EXTENDS Integers, Sequences

CONSTANTS
    Threads,    \* the threads of a run
    Main,       \* the one that prepares it and asks for the programs
    Types,      \* the `types` blocks a configuration can have
    MaxAsks,    \* bound: questions a thread asks in one run
    MaxRuns,    \* bound: runs of the session
    MaxStray    \* bound: stray lines on stdout in a session

ASSUME ThreadsAssumption == Main \in Threads
ASSUME BoundsAssumption == MaxAsks \in Nat /\ MaxRuns \in Nat /\ MaxStray \in Nat

\* ProviderError, by what the message says happened.
Errors == {"timeout", "unreadable", "out_of_step", "exited", "broken_pipe", "refused"}

\* Sidecar::Gone: a refusal raised with the child killed and reaped, which `refused` joins
\* the drain thread for.
Gone == {"unreadable", "out_of_step", "exited", "broken_pipe"}

VARIABLES
    types,      \* the `types` block of the configuration on disk
    built,      \* Held: the block the held provider was built from, or "none"
    phase,      \* between requests, preparing a run (begin_run), or running it
    child,      \* the sidecar: up, dead by itself, or killed and reaped
    stdin, lines,   \* requests written and not answered; lines not read
    handle,     \* the stderr drain thread's handle is in its slot
    drained,    \* that thread has read to the end of stderr
    session,    \* the thread holding the session mutex, as a set: nobody is {}
    next_id,    \* Session::next_id
    spent,      \* AnalysisBudget::remaining answers None
    failure,    \* TscProvider::failure
    call, id, error, \* per thread: control, id of its request, error on its way out
    got,        \* per thread: id of the answer it was given, 0 for none
    asks,       \* per thread: questions asked in this run
    degraded,   \* per thread: was it told "I don't know" because of a failure?
    runs, strays,
    faulted     \* history: did anything go wrong in this run, or left unread before?

conn == <<child, stdin, lines, next_id>>
drain == <<handle, drained>>
held == <<types, built, phase, runs, drain>>
providerVars ==
    <<types, built, phase, child, stdin, lines, handle, drained, session, next_id, spent,
      failure, call, id, error, got, asks, degraded, runs, strays, faulted>>

ProviderTypeOK ==
    /\ types \in Types /\ built \in Types \cup {"none"}
    /\ phase \in {"between", "begin", "running"}
    /\ child \in {"up", "dead", "killed"}
    /\ stdin \in Seq(Nat \ {0, 1}) /\ lines \in Seq([id : Nat, says : {"yes", "no", "garbage"}])
    /\ handle \in BOOLEAN /\ drained \in BOOLEAN
    /\ session \in SUBSET Threads
    /\ next_id \in Nat /\ spent \in BOOLEAN
    /\ failure \in Errors \cup {"none"}
    /\ call \in [Threads -> {"idle", "queued", "writing", "sent", "failed", "joining"}]
    /\ id \in [Threads -> Nat \ {1}] /\ got \in [Threads -> Nat \ {1}]
    /\ error \in [Threads -> Errors \cup {"none"}]
    /\ asks \in [Threads -> Nat]
    /\ degraded \in [Threads -> BOOLEAN]
    /\ runs \in Nat /\ strays \in Nat
    /\ faulted \in BOOLEAN

ProviderInit ==
    /\ types \in Types /\ built = "none" /\ phase = "between"
    /\ child = "killed" /\ stdin = <<>> /\ lines = <<>>
    /\ handle = FALSE /\ drained = TRUE
    /\ session = {} /\ next_id = 0 /\ spent = FALSE /\ failure = "none"
    /\ call = [t \in Threads |-> "idle"]
    /\ id = [t \in Threads |-> 0] /\ got = [t \in Threads |-> 0]
    /\ error = [t \in Threads |-> "none"]
    /\ asks = [t \in Threads |-> 0]
    /\ degraded = [t \in Threads |-> FALSE]
    /\ runs = 0 /\ strays = 0
    /\ faulted = FALSE

-----------------------------------------------------------------------------
(* SessionProvider and begin_run.                                           *)

\* The user edits the configuration.
ChangeTypes ==
    /\ phase = "between"
    /\ types' \in Types \ {types}
    /\ UNCHANGED <<built, phase, conn, drain, session, spent, failure, call, id, error, got,
                   asks, degraded, runs, strays, faulted>>

\* Mutant: the child is not asked.
MutNeedsRebuild == built = "none"

\* needs_rebuild: the child is gone, whoever killed it.
NeedsRebuild == child # "up"

\* Mutant: whatever is held is used.
MutMatched == built # "none"

\* The held provider was built from this configuration.
Matched == built = types

\* for_request_with hands out the held provider when it was built from this
\* configuration and its child is up; otherwise it lets go of it and builds
\* another (spawn's `hello` is request 1), which can fail.  begin_run follows.
Request ==
    /\ phase = "between" /\ runs < MaxRuns
    /\ runs' = runs + 1
    /\ \/ /\ Matched /\ ~NeedsRebuild
          /\ phase' = "begin"
          /\ UNCHANGED <<built, conn, drain>>
       \/ /\ ~Matched \/ NeedsRebuild
          /\ built' = types
          /\ child' = "up" /\ stdin' = <<>> /\ lines' = <<>> /\ next_id' = 1
          /\ handle' = TRUE /\ drained' = FALSE
          /\ phase' = "begin"
       \/ /\ ~Matched \/ NeedsRebuild
          /\ built' = "none"
          /\ child' = "killed" /\ stdin' = <<>> /\ lines' = <<>>
          /\ UNCHANGED <<phase, next_id, drain>>
    /\ spent' = FALSE
    /\ failure' = "none"
    /\ got' = [t \in Threads |-> 0] /\ id' = [t \in Threads |-> 0]
    /\ asks' = [t \in Threads |-> 0]
    /\ degraded' = [t \in Threads |-> FALSE]
    /\ faulted' = (lines' # <<>>)
    /\ UNCHANGED <<types, session, call, error, strays>>

\* begin_run's `programs` request is answered: the run starts, or is cancelled.
Prepared ==
    /\ phase = "begin" /\ asks[Main] = 1 /\ call[Main] = "idle"
    /\ phase' = IF degraded[Main] THEN "between" ELSE "running"
    /\ UNCHANGED <<types, built, runs, conn, drain, session, spent, failure, call, id, error,
                   got, asks, degraded, strays, faulted>>

\* Every thread is done with its files.
RunEnds ==
    /\ phase = "running" /\ \A t \in Threads : call[t] = "idle"
    /\ phase' = "between"
    /\ UNCHANGED <<types, built, runs, conn, drain, session, spent, failure, call, id, error,
                   got, asks, degraded, strays, faulted>>

-----------------------------------------------------------------------------
(* A request: `request_reporting` around `exchange`.                        *)

Ask(t) ==
    /\ call[t] = "idle" /\ asks[t] < MaxAsks
    /\ phase = "running" \/ (phase = "begin" /\ t = Main /\ asks[t] = 0)
    /\ call' = [call EXCEPT ![t] = "queued"]
    /\ asks' = [asks EXCEPT ![t] = @ + 1]
    /\ got' = [got EXCEPT ![t] = 0]
    /\ UNCHANGED <<held, conn, session, spent, failure, id, error, degraded,
                   strays, faulted>>

\* exchange gives up with an error and the session mutex is released.
Abandon(t, e) ==
    /\ session' = {}
    /\ call' = [call EXCEPT ![t] = "failed"]
    /\ error' = [error EXCEPT ![t] = e]

\* `stop`: killed and reaped; what it had not read or said is lost.
Stop ==
    /\ child' = "killed"
    /\ stdin' = <<>> /\ lines' = <<>>
    /\ UNCHANGED next_id

\* A request's id follows the last one's; 1 was the `hello` of spawn.
NextId == next_id + 1

\* The mutex is taken, the budget read behind it, the request numbered.
Send(t) ==
    /\ call[t] = "queued" /\ session = {}
    /\ \/ /\ spent
          /\ Abandon(t, "timeout")
          /\ UNCHANGED <<next_id, id>>
       \/ /\ ~spent
          /\ session' = {t}
          /\ next_id' = NextId
          /\ id' = [id EXCEPT ![t] = NextId]
          /\ call' = [call EXCEPT ![t] = "writing"]
          /\ UNCHANGED error
    /\ UNCHANGED <<held, child, stdin, lines, spent, failure, got, asks, degraded, strays,
                   faulted>>

\* write_all and flush return: the whole line is in the pipe, or past it.
Written(t) ==
    /\ call[t] = "writing" /\ child = "up"
    /\ stdin' = Append(stdin, id[t])
    /\ call' = [call EXCEPT ![t] = "sent"]
    /\ UNCHANGED <<held, child, lines, next_id, session, spent, failure, id, error, got,
                   asks, degraded, strays, faulted>>

\* A question is shorter than the pipe, and nothing else is in it: the write needs no reader.
WriteFits(t) == phase = "running" /\ Written(t)

\* write_all fails: there is no reader any more.
BrokenPipe(t) ==
    /\ call[t] = "writing" /\ child # "up"
    /\ Abandon(t, "broken_pipe") /\ Stop
    /\ UNCHANGED <<held, spent, failure, id, got, asks, degraded, strays, faulted>>

\* Mutant: not compared.
MutMine(t, line) == TRUE

\* The echoed id is compared with the request's.
Mine(t, line) == line.id = id[t]

\* recv_timeout returns a line: this request's answer, or the end of the session.
\* What it took is charged, and can use the budget up.
ReceiveLine(t) ==
    /\ call[t] = "sent" /\ lines # <<>>
    /\ LET line == Head(lines) IN
       \/ /\ line.says = "garbage"
          /\ Abandon(t, "unreadable") /\ Stop /\ UNCHANGED got
       \/ /\ line.says # "garbage" /\ ~Mine(t, line)
          /\ Abandon(t, "out_of_step") /\ Stop /\ UNCHANGED got
       \/ /\ line.says = "no" /\ Mine(t, line)
          /\ Abandon(t, "refused")
          /\ lines' = Tail(lines)
          /\ UNCHANGED <<child, stdin, next_id, got>>
       \/ /\ line.says = "yes" /\ Mine(t, line)
          /\ got' = [got EXCEPT ![t] = line.id]
          /\ lines' = Tail(lines)
          /\ session' = {}
          /\ call' = [call EXCEPT ![t] = "idle"]
          /\ UNCHANGED <<child, stdin, next_id, error>>
    /\ spent' \in {spent, TRUE}
    /\ faulted' = (faulted \/ spent')
    /\ UNCHANGED <<held, failure, id, asks, degraded, strays>>

\* The reader thread is past the last line of a child that is gone.
Disconnected(t) ==
    /\ call[t] = "sent" /\ lines = <<>> /\ child # "up"
    /\ Abandon(t, "exited") /\ Stop
    /\ UNCHANGED <<held, spent, failure, id, got, asks, degraded, strays, faulted>>

\* Mutant: the child is left to finish.
MutGiveUp == UNCHANGED conn

\* A request that ran out of time takes the sidecar with it.
GiveUp == Stop

\* Mutant: waiting without a deadline.
MutOutOfTime(t) == call[t] = "sent" /\ child # "up"

\* recv_timeout: the rest of the budget passes without a line.
OutOfTime(t) == call[t] = "sent" /\ lines = <<>>

Timeout(t) ==
    /\ OutOfTime(t)
    /\ Abandon(t, "timeout") /\ GiveUp
    /\ spent' = TRUE /\ faulted' = TRUE
    /\ UNCHANGED <<held, failure, id, got, asks, degraded, strays>>

\* Mutant: a refusal by a live sidecar is not kept.
MutKept(e) == IF failure = "none" /\ e # "refused" THEN e ELSE failure

\* get_or_insert_with.
Kept(e) == IF failure = "none" THEN e ELSE failure

\* `refused` of a sidecar that is gone, with the mutex released: whoever finds the handle
\* in its slot takes it and joins the drain thread.
Join(t) ==
    /\ call[t] = "failed" /\ error[t] \in Gone /\ handle
    /\ handle' = FALSE
    /\ call' = [call EXCEPT ![t] = "joining"]
    /\ UNCHANGED <<types, built, phase, runs, drained, conn, session, spent, failure, id,
                   error, got, asks, degraded, strays, faulted>>

\* Nothing to wait for, or the join has returned.
Joined(t) ==
    \/ call[t] = "failed" /\ (error[t] \in Gone => ~handle)
    \/ call[t] = "joining" /\ drained

\* `remember`: the first to arrive here is kept.
Remember(t) ==
    /\ Joined(t)
    /\ failure' = Kept(error[t])
    /\ degraded' = [degraded EXCEPT ![t] = TRUE]
    /\ error' = [error EXCEPT ![t] = "none"]
    /\ call' = [call EXCEPT ![t] = "idle"]
    /\ UNCHANGED <<held, conn, session, spent, id, got, asks, strays, faulted>>

-----------------------------------------------------------------------------
(* The sidecar.                                                             *)

\* driver.mjs answers the requests in the order they came.
Answer(says) ==
    /\ child = "up" /\ stdin # <<>>
    /\ stdin' = Tail(stdin)
    /\ lines' = Append(lines, [id |-> Head(stdin), says |-> says])
    /\ faulted' = (faulted \/ says = "no")
    /\ UNCHANGED <<held, child, next_id, session, spent, failure, call, id, error, got,
                   asks, degraded, strays>>

\* A line that answers nothing: the driver's own reply to a line it cannot read,
\* or anything a loaded package prints.
Stray(line) ==
    /\ child = "up" /\ strays < MaxStray
    /\ strays' = strays + 1
    /\ lines' = Append(lines, line)
    /\ faulted' = TRUE
    /\ UNCHANGED <<held, child, stdin, next_id, session, spent, failure, call, id, error,
                   got, asks, degraded>>

\* The process dies; lines it had written can still be read.
Die ==
    /\ child = "up"
    /\ child' = "dead" /\ stdin' = <<>>
    /\ faulted' = TRUE
    /\ UNCHANGED <<held, lines, next_id, session, spent, failure, call, id, error, got,
                   asks, degraded, strays>>

\* The listing of a whole project may be longer than the pipe: begin_run's write ends when
\* the driver has read enough of it.
TakesPrograms == phase = "begin" /\ Written(Main)

\* The kernel has closed the pipe of a child that is gone, and the drain thread sees it.
\* The child is the driver itself, and it starts no process that would keep the pipe open.
StderrEnds ==
    /\ child # "up" /\ ~drained
    /\ drained' = TRUE
    /\ UNCHANGED <<types, built, phase, runs, handle, conn, session, spent, failure, call, id,
                   error, got, asks, degraded, strays, faulted>>

Driver == \/ \E says \in {"yes", "no"} : Answer(says)
          \/ \E line \in [id : {0}, says : {"no", "garbage"}] : Stray(line)
          \/ Die

Thread(t) == \/ Ask(t) \/ Send(t) \/ WriteFits(t) \/ BrokenPipe(t)
             \/ ReceiveLine(t) \/ Disconnected(t) \/ Timeout(t)
             \/ Join(t) \/ Remember(t)

ProviderNext ==
    \/ ChangeTypes \/ Request \/ Prepared \/ RunEnds
    \/ \E t \in Threads : Thread(t)
    \/ Driver \/ TakesPrograms
    \/ StderrEnds

ProviderSpec == ProviderInit /\ [][ProviderNext]_providerVars

\* A thread that can move does, time passes (Timeout), and the kernel closes the pipes of
\* the dead.  The driver owes nothing, not even to read.
FairProviderSpec ==
    /\ ProviderSpec
    /\ \A t \in Threads : WF_providerVars(Thread(t))
    /\ WF_providerVars(StderrEnds)

-----------------------------------------------------------------------------
(* Properties                                                              *)

\* A thread is never given the answer to another request, whatever stray lines,
\* late answers and refusals came before (exchange's comparison of the echoed id).
OwnAnswer == \A t \in Threads : got[t] # 0 => got[t] = id[t]

\* With the mutex free and the child up, nothing asked is still to be answered:
\* a request that gave up left no late answer behind (`stop` on every path that
\* leaves the protocol out of step).
InStep ==
    session = {} /\ child = "up" =>
        stdin = <<>> /\ \A i \in 1..Len(lines) : lines[i].id = 0

\* A thread told "I don't know" because of a failure has the failure on record, so
\* the engine discards what it makes of it (the `failure` field).
FailureKept == \A t \in Threads : degraded[t] => failure # "none"

\* A run is cancelled for what went wrong since it began, or for a line nobody has
\* read yet, never for a fault an earlier run of the session already reported
\* (begin_run's reset, needs_rebuild).
NoCarryOver == phase # "between" /\ failure # "none" => faulted

\* A run asks the provider its own configuration names.
RightProvider == phase # "between" => built = types

\* Every question a running check asks is answered or fails, however long the driver hangs
\* and whoever else is queued, joining or timing out (exchange's recv_timeout, `stop`,
\* join_stderr).  Not so begin_run's `programs`: its write has no deadline, and a driver
\* that hangs before it has read the listing keeps the run waiting.
QuestionsEnd ==
    \A t \in Threads : call[t] = "queued" /\ phase = "running" ~> call[t] = "idle"

-----------------------------------------------------------------------------
(* The inductive invariant behind the first five.                           *)

\* A thread writes a request or has it out exactly while it holds the mutex, and nobody asks
\* outside a run or beside the thread that prepares it.
InvHolder ==
    /\ session = {} \/ \E t \in Threads : session = {t}
    /\ \A t \in Threads : call[t] \in {"writing", "sent"} <=> session = {t}
    /\ \A t \in Threads :
         phase = "between" \/ (phase = "begin" /\ t # Main) => call[t] = "idle"

\* At most one request is out: unanswered, or its answer unread, and then it is the
\* holder's and the last.  All other lines answer nothing.
InvOutstanding ==
    /\ stdin \in {<<>>, <<next_id>>}
    /\ child # "up" => stdin = <<>>
    /\ child = "up" \/ phase # "between" => next_id >= 1
    /\ \A i \in 1..Len(lines) : lines[i].id \in {0, next_id}
    /\ \A i, j \in 1..Len(lines) : lines[i].id # 0 /\ lines[j].id # 0 => i = j
    /\ stdin # <<>> => \A i \in 1..Len(lines) : lines[i].id = 0
    /\ (\A t \in Threads : call[t] # "sent") =>
         stdin = <<>> /\ \A i \in 1..Len(lines) : lines[i].id = 0
    /\ \A t \in Threads : session = {t} => id[t] = next_id /\ next_id >= 2

\* An answer is held only from its arrival to the next question.
InvAnswers ==
    \A t \in Threads : /\ call[t] # "idle" => got[t] = 0
                       /\ got[t] # 0 => got[t] = id[t]

\* What goes wrong is on its way to the record, or there; and the record starts
\* afresh with every run.
InvFaults ==
    /\ \A t \in Threads : call[t] \in {"failed", "joining"} <=> error[t] # "none"
    /\ \A t \in Threads : degraded[t] => failure # "none"
    /\ ~faulted =>
         /\ failure = "none" /\ ~spent
         /\ \A t \in Threads : error[t] = "none"
         /\ \A i \in 1..Len(lines) : lines[i].id # 0 /\ lines[i].says = "yes"
         /\ phase # "between" => child = "up"

IndInv ==
    /\ ProviderTypeOK /\ InvHolder /\ InvOutstanding /\ InvAnswers /\ InvFaults
    /\ RightProvider
=============================================================================
