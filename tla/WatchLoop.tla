----------------------------- MODULE WatchLoop -----------------------------
(***************************************************************************)
(* `lanekeep check --watch`: the foreground loop of watch.rs, the check it *)
(* repeats (main.rs, `check` with a dependency sink) and the file system   *)
(* notifications between them.                                             *)
(*                                                                         *)
(* Three parties move independently: somebody edits the tree; the debouncer*)
(* collects changed paths and sends them in bursts; the loop, one thread,  *)
(* either waits for a burst or is inside a check.  A check reads the       *)
(* files discovery selects, and, through tracked reads or the type         *)
(* provider, any other file; at its end it writes `.lanekeep/` and says    *)
(* which paths it consulted, which is the loop's allowlist from then on.   *)
(*                                                                         *)
(* A path is the sequence of its components below the project root.  File  *)
(* contents are version numbers, and version 0 is the absence of the file, *)
(* which a check can read like anything else.                              *)
(***************************************************************************)
EXTENDS Naturals, Sequences

CONSTANTS
  Paths,              \* the paths of the tree that matter, each a sequence of names
  Selected,           \* the paths whose file discovery selects for checking
  IgnoredDirectories, \* watch.rs IGNORED_DIRECTORIES
  NeverInteresting,   \* watch.rs NEVER_INTERESTING, ".lanekeep"
  GivenRoot,          \* the components of the root in the spelling events carry
  MaxEdits,           \* bound: how many edits somebody makes
  MaxErrors           \* bound: how many errors the watcher reports

Names(path) == { path[i] : i \in 1 .. Len(path) }

\* lanekeep's own directory: the cache is written there by every check.
Own == { p \in Paths : p # << >> /\ p[1] = NeverInteresting }

ASSUME PathsAreSequences == Paths \subseteq Seq(STRING) /\ GivenRoot \in Seq(STRING)
ASSUME SelectedArePaths == Selected \subseteq Paths
\* discovery.rs refuses its own directory whatever the config includes.
ASSUME OwnNeverSelected == Selected \cap Own = {}
\* watch.rs lists its own directory among the ignored ones too.
ASSUME NeverIsIgnored == NeverInteresting \in IgnoredDirectories
ASSUME BoundsAreNat == MaxEdits \in Nat /\ MaxErrors \in Nat

VARIABLES
  tree,      \* the version of each path's file
  edits,     \* how many edits were made
  errors,    \* how many errors the watcher reported
  pending,   \* events the debouncer holds back until they settle
  channel,   \* bursts sent to the loop and not received; {} is an error report
  pc,        \* "waiting" for a burst or "running" a check
  seen,      \* the version of each path the current, or else the last, check read
  consulted, \* the paths it has on record, as tracked reads or rows of the listing
  allowlist, \* the set the loop filters bursts with
  lost       \* paths whose events a watcher error swallowed since the check began

vars == <<tree, edits, errors, pending, channel, pc, seen, consulted, allowlist, lost>>

Versions == 0 .. MaxEdits
Unread == MaxEdits + 1

\* `anchored` says whether the reported spelling, or its canonical form, is under the
\* root: a deleted file cannot be canonicalized.
Events == [path : Paths, anchored : BOOLEAN]

TypeOK ==
  /\ tree \in [Paths -> Versions]
  /\ edits \in Versions
  /\ errors \in 0 .. MaxErrors
  /\ pending \subseteq Events
  /\ channel \in Seq(SUBSET Events)
  /\ pc \in {"waiting", "running"}
  /\ seen \in [Paths -> Versions \cup {Unread}]
  /\ consulted \subseteq Paths
  /\ allowlist \subseteq Paths
  /\ lost \subseteq Paths

-----------------------------------------------------------------------------
(***************************************************************************)
(* The filter.                                                             *)
(***************************************************************************)

EndsWith(path, tail) ==
  \E k \in 0 .. Len(path) : SubSeq(path, k + 1, Len(path)) = tail

\* The components both judgements are made on: relative where the root anchors the
\* event, absolute where it does not.
Considered(e) == IF e.anchored THEN e.path ELSE GivenRoot \o e.path

\* Without the order of the two judgements: the allowlist is asked first.
MutIsInteresting(e, accepted) ==
  \/ Names(Considered(e)) \cap (IgnoredDirectories \cup {NeverInteresting}) = {}
  \/ e.anchored /\ e.path \in accepted
  \/ ~e.anchored /\ \E allowed \in accepted : EndsWith(Considered(e), allowed)

\* Without anchoring: the trailing components decide for every event.
MutTrailing(e, accepted) ==
  /\ NeverInteresting \notin Names(Considered(e))
  /\ \/ Names(Considered(e)) \cap IgnoredDirectories = {}
     \/ \E allowed \in accepted : EndsWith(GivenRoot \o e.path, allowed)

IsInteresting(e, accepted) ==
  /\ NeverInteresting \notin Names(Considered(e))
  /\ \/ Names(Considered(e)) \cap IgnoredDirectories = {}
     \/ e.anchored /\ e.path \in accepted
     \/ ~e.anchored /\ \E allowed \in accepted : EndsWith(Considered(e), allowed)

\* Without the absences: only files that were there.
MutRecorded == { p \in consulted : seen[p] # 0 }

\* With the root left on: the allowlist holds paths relative to it.
MutAbsolute == { GivenRoot \o p : p \in consulted }

\* What a finished check hands the loop: absent reads count.
Recorded == consulted

\* The last check's allowlist, kept.
MutForgotten == allowlist

\* What `forget_dependencies` leaves of the allowlist when a check begins.
Forgotten == {}

-----------------------------------------------------------------------------
Init ==
  /\ tree \in [Paths -> {0}]
  /\ edits = 0
  /\ errors = 0
  /\ pending = {}
  /\ channel = << >>
  /\ pc = "running"   \* the watcher is registered before the first check
  /\ seen = [p \in Paths |-> Unread]
  /\ consulted = {}
  /\ allowlist = {}
  /\ lost = {}

(***************************************************************************)
(* The surroundings: edits, the debouncer, the watcher's errors.           *)
(***************************************************************************)

\* A file is written, or deleted.
Edit(p, anchored) ==
  /\ edits < MaxEdits
  /\ p \notin Own
  /\ edits' = edits + 1
  /\ \E v \in {0, edits + 1} \ {tree[p]} : tree' = [tree EXCEPT ![p] = v]
  /\ pending' = pending \cup {[path |-> p, anchored |-> anchored]}
  /\ UNCHANGED <<errors, channel, pc, seen, consulted, allowlist, lost>>

\* The burst has settled for DEBOUNCE.
Deliver ==
  /\ pending # {}
  /\ channel' = Append(channel, pending)
  /\ pending' = {}
  /\ UNCHANGED <<tree, edits, errors, pc, seen, consulted, allowlist, lost>>

\* A directory vanished mid-scan, or a descriptor limit: some events never arrive.
WatcherError(swallowed) ==
  /\ errors < MaxErrors
  /\ errors' = errors + 1
  /\ pending' = pending \ swallowed
  /\ lost' = lost \cup { e.path : e \in swallowed }
  /\ channel' = Append(channel, {})
  /\ UNCHANGED <<tree, edits, pc, seen, consulted, allowlist>>

(***************************************************************************)
(* The loop.  The set is cloned once per burst, and nothing else writes it *)
(* while the loop is here, so receiving, filtering and starting the check  *)
(* (whose first act is `forget_dependencies`) are one step.                *)
(***************************************************************************)

Changed(burst) == { e.path : e \in { f \in burst : IsInteresting(f, allowlist) } }

Ignore ==
  /\ pc = "waiting" /\ channel # << >>
  /\ Changed(Head(channel)) = {}
  /\ channel' = Tail(channel)
  /\ UNCHANGED <<tree, edits, errors, pending, pc, seen, consulted, allowlist,
                 lost>>

Wake ==
  /\ pc = "waiting" /\ channel # << >>
  /\ Changed(Head(channel)) # {}
  /\ channel' = Tail(channel)
  /\ pc' = "running"
  /\ allowlist' = Forgotten
  /\ seen' = [p \in Paths |-> Unread]
  /\ consulted' = {}
  /\ lost' = {}
  /\ UNCHANGED <<tree, edits, errors, pending>>

(***************************************************************************)
(* The check.  It reads one file at a time, while the tree goes on         *)
(* changing; a path read twice is as old as its first read.                *)
(***************************************************************************)

ReadNow(p) == [seen EXCEPT ![p] = IF @ = Unread THEN tree[p] ELSE @]

\* A selected file is read to be checked (or found missing by the walk).
ReadSelected(p) ==
  /\ pc = "running" /\ p \in Selected
  /\ seen[p] = Unread
  /\ seen' = ReadNow(p)
  /\ UNCHANGED <<tree, edits, errors, pending, channel, pc, consulted, allowlist,
                 lost>>

\* A rule, or the type provider, reads any file under the root, lanekeep's own included.
\* A rule's reads, and the builtin provider's, are on record also where there was no file.
Consult(p) ==
  /\ pc = "running" /\ p \notin consulted
  /\ seen' = ReadNow(p)
  /\ consulted' = consulted \cup {p}
  /\ UNCHANGED <<tree, edits, errors, pending, channel, pc, allowlist, lost>>

\* The `tsc` provider asks for a file that is not there: the answer may depend on it, but
\* an absence is no row of the listing, nor among a query's reads.
Probe(p) ==
  /\ pc = "running" /\ tree[p] = 0 /\ seen[p] = Unread
  /\ seen' = ReadNow(p)
  /\ UNCHANGED <<tree, edits, errors, pending, channel, pc, consulted, allowlist, lost>>

\* The store is written where something changed in it; nobody edits these paths, so
\* their version stays and only the events count.
CacheWritten == { {}, [path : Own, anchored : {TRUE}] }

\* The run is over and what it read is recorded.  The baseline and the report come after
\* that: a check that fails there has recorded all the same.
Finish ==
  /\ pc = "running"
  /\ \A p \in Selected : seen[p] # Unread
  /\ \E written \in CacheWritten : pending' = pending \cup written
  /\ pc' = "waiting"
  /\ allowlist' = Recorded
  /\ UNCHANGED <<tree, edits, errors, channel, seen, consulted, lost>>

\* A rule threw, a config did not load, a limit was breached: the check ends before it
\* records, and the loop goes back to waiting.  What it read describes no outcome.
Fail ==
  /\ pc = "running"
  /\ \E written \in CacheWritten : pending' = pending \cup written
  /\ pc' = "waiting"
  /\ seen' = [p \in Paths |-> Unread]
  /\ consulted' = {}
  /\ UNCHANGED <<tree, edits, errors, channel, allowlist, lost>>

RunStep ==
  \/ \E p \in Paths : ReadSelected(p) \/ Consult(p) \/ Probe(p)
  \/ Finish
  \/ Fail

Receive == Ignore \/ Wake

Next ==
  \/ \E p \in Paths, anchored \in BOOLEAN : Edit(p, anchored)
  \/ Deliver
  \/ \E swallowed \in SUBSET pending : WatcherError(swallowed)
  \/ Receive
  \/ RunStep

Spec == Init /\ [][Next]_vars

\* The debouncer's thread and the loop's own are scheduled; nobody has to edit, and no
\* error has to happen.
FairSpec == Spec /\ WF_vars(Deliver) /\ WF_vars(Receive) /\ WF_vars(RunStep)

-----------------------------------------------------------------------------
(***************************************************************************)
(* Properties.                                                             *)
(***************************************************************************)

Announced == pending \cup UNION { channel[i] : i \in 1 .. Len(channel) }

Coming(p) == \E e \in Announced : e.path = p

Stale(p) == seen[p] # Unread /\ seen[p] # tree[p]

\* No directory above the root has a name the filter knows.
QuietRoot == Names(GivenRoot) \cap IgnoredDirectories = {}

\* Where the filter looks at the allowlist and nowhere else.
Ignorable(p) == Names(p) \cap IgnoredDirectories # {}

Refused(p) == NeverInteresting \in Names(p)

\* No wake is missed: if the last check read a version of a file that has changed since,
\* an event for that file is still on its way to the loop, unless the watcher itself
\* lost it.  It covers the file that changes while the check is still reading, the
\* dependency under `node_modules` that a check reads for the first time, and the file a
\* rule looked for in vain and that appears; it needs QuietRoot (watch.rs
\* `is_interesting`, `watch_with`; main.rs `forget_dependencies`,
\* `record_dependencies`).  Two kinds of path under an ignored directory are not on
\* record, and their changes wake nothing: one that `tsc` only probed and did not find,
\* and a selected file, which is SelectedFresh below.
FreshOrComing ==
  \A p \in Paths :
    Stale(p) /\ ~Refused(p) /\ (Ignorable(p) => p \in consulted) =>
      Coming(p) \/ p \in lost

\* The allowlist a burst is filtered with is what the last check consulted, if it came as
\* far as recording it, and empty otherwise: no set of an earlier check outlives the next
\* one's failure, and what two checks read is never merged (main.rs `forget_dependencies`,
\* `record_dependencies`).
AllowlistVouched == pc = "waiting" => allowlist = consulted

\* A package manager writing beside a file that was read starts no check: a burst whose
\* every event is under an ignored directory, and anchored, wakes the loop only by
\* naming a path the last check consulted (watch.rs `is_interesting`).
QuietInstall ==
  [][Wake => \E e \in Head(channel) :
               \/ ~Ignorable(e.path)
               \/ ~e.anchored
               \/ e.path \in consulted]_vars

\* The loop does not eat itself: once nobody edits, it ends up waiting with nothing
\* left to receive, although every check writes below the root it watches, and although
\* a rule may have read what is written there (watch.rs, "The loop that eats itself").
Settles == <>[](pc = "waiting" /\ channel = << >> /\ pending = {})

\* What the comment on `is_interesting` says of the filter: it ignores no file the run
\* would check.  A selected file that changed since it was read is still announced to
\* the loop.
SelectedFresh ==
  \A p \in Selected : Stale(p) => Coming(p) \/ p \in lost
=============================================================================
