----------------------------- MODULE RunPromise -----------------------------
(***************************************************************************)
(* What one engine run after another promises its caller, with no threads, *)
(* no cursor, no sticky failures and no loaded copy of the store: a run is *)
(* begun, may be disturbed from outside, commits what it completed in one  *)
(* step, and concludes.                                                    *)
(***************************************************************************)
EXTENDS Integers

CONSTANTS
    Files,      \* the corpus, numbered in discovery order from 1
    Stored      \* the files the store may hold an entry for

VARIABLES
    corpus,     \* per file: not looked at, fine, or failing by itself
    store,      \* per file: the entry held, if any
    status,     \* where the run stands
    coverage,   \* did it see the whole corpus by design?
    caching,    \* does it use the store?
    calm,       \* nothing outside the corpus and its rules has failed
    landed,     \* no save of this run was lost
    failed,     \* the run returned an error
    blamed      \* the file that error names, 0 for none

promiseVars == <<corpus, store, status, coverage, caching, calm, landed, failed,
                 blamed>>

PromiseInit ==
    /\ corpus \in [Files -> {"skipped", "clean", "failing"}]
    /\ store \in [Stored -> {"none", "good"}]
    /\ status = "idle"
    /\ coverage \in {"Whole", "Partial"}
    /\ caching \in BOOLEAN
    /\ calm = TRUE /\ landed = TRUE /\ failed = FALSE /\ blamed = 0

\* A file whose entry the run can use is not checked again.
Failing(f) == corpus[f] = "failing" /\ ~(caching /\ store[f] # "none")

Begin ==
    /\ status \in {"idle", "ended"}
    /\ status' = "running"
    /\ coverage' \in {"Whole", "Partial"}
    /\ caching' \in BOOLEAN
    /\ calm' = TRUE /\ landed' = TRUE /\ failed' = FALSE /\ blamed' = 0
    /\ UNCHANGED <<corpus, store>>

\* The clock expires, the provider breaks, a sandbox cannot be built, a handler
\* does not get the answers or the time it needs.
Disturb ==
    /\ status \in {"running", "committed"}
    /\ calm' = FALSE
    /\ UNCHANGED <<corpus, store, status, coverage, caching, landed, failed, blamed>>

\* The store after a run that completed the files `done`: their entries are in
\* it, and nothing leaves it but by a whole run that completed them all.
After(done) ==
    [f \in Stored |->
        IF f \in done /\ corpus[f] # "skipped" THEN "good"
        ELSE IF coverage = "Whole" /\ done = Files THEN "none"
        ELSE store[f]]

\* A commit is all or nothing: the store it finds, or the one it should leave.
Commit ==
    /\ status = "running"
    /\ \E done \in SUBSET Files :
         /\ \A f \in done : ~Failing(f)
         /\ \/ store' = (IF caching THEN After(done) ELSE store) /\ UNCHANGED landed
            \/ caching /\ landed' = FALSE /\ UNCHANGED store
         /\ \/ /\ done = Files
               /\ status' = "committed"
               /\ UNCHANGED <<failed, blamed>>
            \/ /\ done # Files
               /\ status' = "ended"
               /\ failed' = TRUE
               /\ blamed' \in {0} \cup (Files \ done)
               /\ calm => /\ blamed' # 0 /\ Failing(blamed')
                          /\ \A g \in Files : g < blamed' => ~Failing(g)
    /\ UNCHANGED <<corpus, coverage, caching, calm>>

\* The cross-file rules run over what was committed, and change nothing of it.
Conclude ==
    /\ status = "committed"
    /\ status' = "ended"
    /\ failed' \in BOOLEAN
    /\ UNCHANGED <<corpus, store, coverage, caching, calm, landed, blamed>>

PromiseNext == Begin \/ Disturb \/ Commit \/ Conclude

PromiseSpec == PromiseInit /\ [][PromiseNext]_promiseVars
=============================================================================
