---------------------------- MODULE SessionProofs ----------------------------
(***************************************************************************)
(* The two parts of lanekeep that live on from one run to the next: the    *)
(* watch loop, and the type provider a session holds.  What they never do, *)
(* for every tree, every selection, every order of edits, bursts, checks,  *)
(* questions and answers.                                                  *)
(***************************************************************************)
EXTENDS WatchLoop, TypeSidecar, SequenceTheorems, TLAPS

\* Reading a path records a version or leaves the older one.
LEMMA ReadNowType ==
  ASSUME TypeOK, NEW p \in Paths
  PROVE  /\ ReadNow(p) \in [Paths -> Versions \cup {Unread}]
         /\ \A q \in Paths : ReadNow(p)[q] = IF q = p /\ seen[p] = Unread
                                             THEN tree[p] ELSE seen[q]
  BY DEF TypeOK, ReadNow

\* The cache is written by paths of the tree.
LEMMA WrittenEvents ==
  ASSUME NEW written \in CacheWritten
  PROVE  written \subseteq Events
<1>1. Own \subseteq Paths
  BY DEF Own
<1>2. SUFFICES ASSUME NEW e \in written PROVE e \in Events
  OBVIOUS
<1>3. written = [path : Own, anchored : {TRUE}]
  BY <1>2 DEF CacheWritten
<1>4. \A f \in [path : Own, anchored : {TRUE}] : f \in Events
  BY <1>1 DEF Events
<1> QED  BY <1>3, <1>4

\* Types are kept by every step.
LEMMA TypeStep == TypeOK /\ [Next]_vars => TypeOK'
<1> SUFFICES ASSUME TypeOK, [Next]_vars PROVE TypeOK'
  OBVIOUS
<1> USE BoundsAreNat
<1>1. ASSUME NEW p \in Paths, NEW anchored \in BOOLEAN, Edit(p, anchored)
      PROVE  TypeOK'
  <2>1. [path |-> p, anchored |-> anchored] \in Events
    BY DEF Events
  <2>2. edits + 1 \in Versions /\ 0 \in Versions
    BY <1>1 DEF TypeOK, Edit, Versions
  <2> QED  BY <1>1, <2>1, <2>2 DEF TypeOK, Edit
<1>2. ASSUME Deliver PROVE TypeOK'
  <2>1. channel' \in Seq(SUBSET Events)
    BY <1>2, AppendProperties DEF TypeOK, Deliver
  <2> QED  BY <1>2, <2>1 DEF TypeOK, Deliver
<1>3. ASSUME NEW swallowed \in SUBSET pending, WatcherError(swallowed)
      PROVE  TypeOK'
  <2>1. channel' \in Seq(SUBSET Events)
    BY <1>3, AppendProperties DEF TypeOK, WatcherError
  <2>2. lost' \subseteq Paths
    BY <1>3 DEF TypeOK, WatcherError, Events
  <2>3. errors' \in 0 .. MaxErrors
    BY <1>3 DEF TypeOK, WatcherError
  <2> QED  BY <1>3, <2>1, <2>2, <2>3 DEF TypeOK, WatcherError
<1>4. ASSUME Ignore PROVE TypeOK'
  <2>1. channel' \in Seq(SUBSET Events)
    BY <1>4, HeadTailProperties DEF TypeOK, Ignore
  <2> QED  BY <1>4, <2>1 DEF TypeOK, Ignore
<1>5. ASSUME Wake PROVE TypeOK'
  <2>1. channel' \in Seq(SUBSET Events)
    BY <1>5, HeadTailProperties DEF TypeOK, Wake
  <2> QED  BY <1>5, <2>1 DEF TypeOK, Wake, Forgotten
<1>6. ASSUME NEW p \in Paths, ReadSelected(p) PROVE TypeOK'
  BY <1>6, ReadNowType DEF TypeOK, ReadSelected
<1>7. ASSUME NEW p \in Paths, Consult(p) PROVE TypeOK'
  BY <1>7, ReadNowType DEF TypeOK, Consult
<1>a. ASSUME NEW p \in Paths, Probe(p) PROVE TypeOK'
  BY <1>a, ReadNowType DEF TypeOK, Probe
<1>8. ASSUME Finish PROVE TypeOK'
  BY <1>8, WrittenEvents DEF TypeOK, Finish, Recorded
<1>9. ASSUME Fail PROVE TypeOK'
  BY <1>9, WrittenEvents DEF TypeOK, Fail
<1>10. CASE UNCHANGED vars
  BY <1>10 DEF vars, TypeOK
<1> QED
  BY <1>1, <1>2, <1>3, <1>4, <1>5, <1>6, <1>7, <1>a, <1>8, <1>9, <1>10
  DEF Next, Receive, RunStep

\* TypeOK holds of every behaviour of the loop.
THEOREM TypeCorrect == Spec => []TypeOK
<1>1. Init => TypeOK
  <2> SUFFICES ASSUME Init PROVE TypeOK
    OBVIOUS
  <2>1. channel \in Seq(SUBSET Events)
    BY EmptySeq DEF Init
  <2>2. 0 \in Versions /\ 0 \in 0 .. MaxErrors
    BY BoundsAreNat DEF Versions
  <2>3. tree \in [Paths -> Versions] /\ seen \in [Paths -> Versions \cup {Unread}]
    BY <2>2 DEF Init
  <2> QED  BY <2>1, <2>2, <2>3 DEF Init, TypeOK
<1> QED  BY <1>1, TypeStep, PTL DEF Spec

-----------------------------------------------------------------------------
(***************************************************************************)
(* The allowlist.                                                          *)
(***************************************************************************)

\* The allowlist is empty for as long as a check runs.
EmptyWhileRunning == pc = "running" => allowlist = {}

LEMMA VouchedStep ==
  ASSUME AllowlistVouched, EmptyWhileRunning, [Next]_vars
  PROVE  AllowlistVouched' /\ EmptyWhileRunning'
<1> USE DEF AllowlistVouched, EmptyWhileRunning
<1>1. ASSUME NEW p \in Paths, NEW anchored \in BOOLEAN, Edit(p, anchored)
      PROVE  AllowlistVouched' /\ EmptyWhileRunning'
  BY <1>1 DEF Edit
<1>2. ASSUME Deliver PROVE AllowlistVouched' /\ EmptyWhileRunning'
  BY <1>2 DEF Deliver
<1>3. ASSUME NEW swallowed \in SUBSET pending, WatcherError(swallowed)
      PROVE  AllowlistVouched' /\ EmptyWhileRunning'
  BY <1>3 DEF WatcherError
<1>4. ASSUME Ignore PROVE AllowlistVouched' /\ EmptyWhileRunning'
  BY <1>4 DEF Ignore
<1>5. ASSUME Wake PROVE AllowlistVouched' /\ EmptyWhileRunning'
  BY <1>5 DEF Wake, Forgotten
<1>6. ASSUME NEW p \in Paths, ReadSelected(p)
      PROVE  AllowlistVouched' /\ EmptyWhileRunning'
  BY <1>6 DEF ReadSelected
<1>7. ASSUME NEW p \in Paths, Consult(p)
      PROVE  AllowlistVouched' /\ EmptyWhileRunning'
  BY <1>7 DEF Consult
<1>a. ASSUME NEW p \in Paths, Probe(p)
      PROVE  AllowlistVouched' /\ EmptyWhileRunning'
  BY <1>a DEF Probe
<1>8. ASSUME Finish PROVE AllowlistVouched' /\ EmptyWhileRunning'
  BY <1>8 DEF Finish, Recorded
<1>9. ASSUME Fail PROVE AllowlistVouched' /\ EmptyWhileRunning'
  BY <1>9 DEF Fail
<1>10. CASE UNCHANGED vars
  BY <1>10 DEF vars
<1> QED
  BY <1>1, <1>2, <1>3, <1>4, <1>5, <1>6, <1>7, <1>a, <1>8, <1>9, <1>10
  DEF Next, Receive, RunStep

LEMMA VouchedAlways == Spec => [](AllowlistVouched /\ EmptyWhileRunning)
<1>1. Init => AllowlistVouched /\ EmptyWhileRunning
  BY DEF Init, AllowlistVouched, EmptyWhileRunning
<1> QED  BY <1>1, VouchedStep, PTL DEF Spec

\* The loop filters with what the last check consulted, and with nothing after one that
\* failed before it could say.
THEOREM AllowlistIsVouched == Spec => []AllowlistVouched
BY VouchedAlways, PTL

\* A burst that lies under ignored directories wakes the loop only by naming a path the
\* last check consulted.
THEOREM InstallIsQuiet == Spec => QuietInstall
<1> DEFINE Quiet == Wake => \E e \in Head(channel) :
                              \/ ~Ignorable(e.path)
                              \/ ~e.anchored
                              \/ e.path \in consulted
<1>1. TypeOK /\ AllowlistVouched /\ [Next]_vars => [Quiet]_vars
  <2> SUFFICES ASSUME TypeOK, AllowlistVouched, Wake PROVE Quiet
    OBVIOUS
  <2>1. PICK e \in Head(channel) : IsInteresting(e, allowlist)
    BY DEF Wake, Changed
  <2>2. allowlist \subseteq consulted
    BY DEF AllowlistVouched, Wake
  <2>3. e.anchored /\ Ignorable(e.path) => e.path \in allowlist
    <3> SUFFICES ASSUME e.anchored, Ignorable(e.path) PROVE e.path \in allowlist
      OBVIOUS
    <3>1. Considered(e) = e.path
      BY DEF Considered
    <3>2. Names(e.path) \cap IgnoredDirectories # {}
      BY DEF Ignorable
    <3> QED  BY <2>1, <3>1, <3>2 DEF IsInteresting
  <2> QED  BY <2>1, <2>2, <2>3
<1>2. Spec => [](TypeOK /\ AllowlistVouched)
  BY TypeCorrect, VouchedAlways, PTL
<1>3. Spec => [][Quiet]_vars
  BY <1>1, <1>2, PTL DEF Spec
<1> QED  BY <1>3 DEF QuietInstall
-----------------------------------------------------------------------------
(***************************************************************************)
(* No wake is missed.  While a check runs nothing is received, so every    *)
(* stale file is still announced, whatever its directory; once the loop    *)
(* waits, the filter may drop what the check did not consult.              *)
(***************************************************************************)
Watched(p) == pc = "running" \/ (~Refused(p) /\ (Ignorable(p) => p \in consulted))

Awaited == \A p \in Paths : Stale(p) /\ Watched(p) => Coming(p) \/ p \in lost

\* The names of an absolute path are those of its root and of its relative part.
LEMMA NamesOfConcat ==
  ASSUME NEW s \in Seq(STRING), NEW t \in Seq(STRING)
  PROVE  Names(s \o t) = Names(s) \cup Names(t)
<1>1. /\ Len(s) \in Nat /\ Len(t) \in Nat
      /\ Len(s \o t) = Len(s) + Len(t)
      /\ \A i \in 1 .. Len(s) + Len(t) :
           (s \o t)[i] = IF i <= Len(s) THEN s[i] ELSE t[i - Len(s)]
  BY ConcatProperties, LenProperties
<1>2. ASSUME NEW n \in Names(s \o t) PROVE n \in Names(s) \cup Names(t)
  <2>1. PICK i \in 1 .. Len(s) + Len(t) : n = (s \o t)[i]
    BY <1>1, <1>2 DEF Names
  <2>2. CASE i <= Len(s)
    <3>1. i \in 1 .. Len(s) /\ n = s[i]
      BY <1>1, <2>1, <2>2
    <3> QED  BY <3>1 DEF Names
  <2>3. CASE ~(i <= Len(s))
    <3>1. i - Len(s) \in 1 .. Len(t) /\ n = t[i - Len(s)]
      BY <1>1, <2>1, <2>3
    <3> QED  BY <3>1 DEF Names
  <2> QED  BY <2>2, <2>3
<1>3. ASSUME NEW n \in Names(s) PROVE n \in Names(s \o t)
  <2>1. PICK i \in 1 .. Len(s) : n = s[i]
    BY <1>3 DEF Names
  <2>2. i \in 1 .. Len(s \o t) /\ n = (s \o t)[i]
    BY <1>1, <2>1
  <2> QED  BY <2>2 DEF Names
<1>4. ASSUME NEW n \in Names(t) PROVE n \in Names(s \o t)
  <2>1. PICK i \in 1 .. Len(t) : n = t[i]
    BY <1>4 DEF Names
  <2>2. Len(s) + i \in 1 .. Len(s \o t) /\ n = (s \o t)[Len(s) + i]
    BY <1>1, <2>1
  <2> QED  BY <2>2 DEF Names
<1> QED  BY <1>2, <1>3, <1>4

\* An absolute path ends with its relative part.
LEMMA EndsWithOwnTail ==
  ASSUME NEW s \in Seq(STRING), NEW t \in Seq(STRING)
  PROVE  EndsWith(s \o t, t)
<1>1. /\ Len(s) \in Nat /\ Len(t) \in Nat
      /\ Len(s \o t) = Len(s) + Len(t) /\ s \o t \in Seq(STRING)
      /\ \A i \in 1 .. Len(s) + Len(t) :
           (s \o t)[i] = IF i <= Len(s) THEN s[i] ELSE t[i - Len(s)]
  BY ConcatProperties, LenProperties
<1> DEFINE k == Len(s)
           u == SubSeq(s \o t, k + 1, Len(s \o t))
<1>2. k \in 0 .. Len(s \o t)
  BY <1>1
<1>3. /\ u \in Seq(STRING)
      /\ Len(u) = IF k + 1 <= Len(s \o t) THEN Len(s \o t) - (k + 1) + 1 ELSE 0
      /\ \A i \in 1 .. Len(s \o t) - (k + 1) + 1 : u[i] = (s \o t)[k + 1 + i - 1]
  <2>1. \A i \in k + 1 .. Len(s \o t) : (s \o t)[i] \in STRING
    BY <1>1, ElementOfSeq
  <2>2. k + 1 \in Int /\ Len(s \o t) \in Int
    BY <1>1
  <2> QED  BY <2>1, <2>2, SubSeqProperties
<1>4. Len(u) = Len(t)
  BY <1>1, <1>3
<1>5. ASSUME NEW i \in 1 .. Len(u) PROVE u[i] = t[i]
  <2>1. i \in 1 .. Len(s \o t) - (k + 1) + 1
    BY <1>1, <1>4
  <2>2. u[i] = (s \o t)[k + 1 + i - 1]
    BY <1>3, <2>1
  <2>3. /\ k + 1 + i - 1 = Len(s) + i /\ Len(s) + i \in 1 .. Len(s) + Len(t)
        /\ ~(Len(s) + i <= Len(s)) /\ Len(s) + i - Len(s) = i
    BY <1>1, <1>4
  <2>4. (s \o t)[Len(s) + i] = t[Len(s) + i - Len(s)]
    BY <1>1, <2>3
  <2>5. u[i] = (s \o t)[Len(s) + i]
    BY <2>2, <2>3
  <2> HIDE DEF u
  <2> QED  BY <2>3, <2>4, <2>5
<1>6. u = t
  BY <1>3, <1>4, <1>5, SeqEqual
<1> QED  BY <1>2, <1>6 DEF EndsWith

\* The filter accepts every event of a watched path.
LEMMA WatchedIsInteresting ==
  ASSUME QuietRoot, NEW e \in Events, NEW accepted \in SUBSET Paths,
         ~Refused(e.path), Ignorable(e.path) => e.path \in accepted
  PROVE  IsInteresting(e, accepted)
<1>1. e.path \in Seq(STRING) /\ GivenRoot \in Seq(STRING) /\ e.anchored \in BOOLEAN
  BY PathsAreSequences DEF Events
<1>2. Names(Considered(e)) =
        IF e.anchored THEN Names(e.path) ELSE Names(GivenRoot) \cup Names(e.path)
  BY <1>1, NamesOfConcat DEF Considered
<1>3. NeverInteresting \notin Names(Considered(e))
  BY <1>2, NeverIsIgnored DEF QuietRoot, Refused
<1>4. CASE ~Ignorable(e.path)
  BY <1>2, <1>3, <1>4 DEF QuietRoot, Ignorable, IsInteresting
<1>5. CASE Ignorable(e.path) /\ e.anchored
  BY <1>3, <1>5 DEF IsInteresting
<1>6. CASE Ignorable(e.path) /\ ~e.anchored
  <2>1. EndsWith(Considered(e), e.path)
    BY <1>1, <1>6, EndsWithOwnTail DEF Considered
  <2> QED  BY <1>3, <1>6, <2>1 DEF IsInteresting
<1> QED  BY <1>1, <1>4, <1>5, <1>6

\* An announced event stays announced when the debouncer or the watcher appends a burst.
LEMMA StillAnnounced ==
  ASSUME TypeOK, NEW burst \in SUBSET Events, NEW e \in Announced,
         channel' = Append(channel, burst),
         e \in pending => e \in pending' \/ e \in burst
  PROVE  e \in Announced'
<1>1. /\ Len(channel) \in Nat /\ Len(channel') = Len(channel) + 1
      /\ channel'[Len(channel) + 1] = burst
      /\ \A i \in 1 .. Len(channel) : channel'[i] = channel[i]
  BY AppendProperties, LenProperties DEF TypeOK
<1>2. CASE e \in pending
  <2>1. Len(channel) + 1 \in 1 .. Len(channel')
    BY <1>1
  <2> QED  BY <1>1, <1>2, <2>1 DEF Announced
<1>3. CASE e \notin pending
  <2>1. PICK i \in 1 .. Len(channel) : e \in channel[i]
    BY <1>3 DEF Announced
  <2>2. i \in 1 .. Len(channel') /\ e \in channel'[i]
    BY <1>1, <2>1
  <2> QED  BY <2>2 DEF Announced
<1> QED  BY <1>2, <1>3

\* Receiving takes away the events of the first burst and no other.
LEMMA AnnouncedOrReceived ==
  ASSUME TypeOK, channel # << >>, channel' = Tail(channel), pending' = pending,
         NEW e \in Announced, e \notin Head(channel)
  PROVE  e \in Announced'
<1>1. /\ Len(channel) \in Nat /\ Len(channel) # 0
      /\ Len(Tail(channel)) = Len(channel) - 1
      /\ \A i \in 1 .. Len(Tail(channel)) : Tail(channel)[i] = channel[i + 1]
  BY HeadTailProperties, LenProperties, EmptySeq DEF TypeOK
<1>2. CASE e \in pending
  BY <1>2 DEF Announced
<1>3. CASE e \notin pending
  <2>1. PICK i \in 1 .. Len(channel) : e \in channel[i]
    BY <1>3 DEF Announced
  <2>2. i # 1
    BY <2>1
  <2>3. i - 1 \in 1 .. Len(Tail(channel)) /\ Tail(channel)[i - 1] = channel[i]
    BY <1>1, <2>1, <2>2
  <2> QED  BY <2>1, <2>3 DEF Announced
<1> QED  BY <1>2, <1>3

LEMMA AwaitedStep ==
  ASSUME QuietRoot, TypeOK, AllowlistVouched, Awaited, [Next]_vars
  PROVE  Awaited'
<1> SUFFICES ASSUME NEW q \in Paths, Stale(q)', Watched(q)'
             PROVE  Coming(q)' \/ q \in lost'
  BY DEF Awaited
<1> DEFINE Done == Coming(q)' \/ q \in lost'
<1>b. Stale(q) /\ Watched(q) => q \in lost \/ \E e \in Announced : e.path = q
  BY DEF Awaited, Coming
<1>1. ASSUME NEW p \in Paths, NEW anchored \in BOOLEAN, Edit(p, anchored)
      PROVE  Done
  <2>1. Announced \cup {[path |-> p, anchored |-> anchored]} \subseteq Announced'
    BY <1>1 DEF Edit, Announced
  <2>2. CASE q = p
    BY <2>1, <2>2 DEF Coming
  <2>3. CASE q # p
    <3>1. Stale(q) /\ Watched(q) /\ lost' = lost
      BY <1>1, <2>3 DEF Edit, Stale, Watched, TypeOK
    <3> QED  BY <1>b, <2>1, <3>1 DEF Coming
  <2> QED  BY <2>2, <2>3
<1>2. ASSUME Deliver PROVE Done
  <2>1. Stale(q) /\ Watched(q) /\ lost' = lost
    BY <1>2 DEF Deliver, Stale, Watched
  <2>2. \A e \in Announced : e \in Announced'
    BY <1>2, StillAnnounced DEF Deliver, TypeOK
  <2> QED  BY <1>b, <2>1, <2>2 DEF Coming
<1>3. ASSUME NEW swallowed \in SUBSET pending, WatcherError(swallowed)
      PROVE  Done
  <2>1. Stale(q) /\ Watched(q)
    BY <1>3 DEF WatcherError, Stale, Watched
  <2>2. lost' = lost \cup { e.path : e \in swallowed }
    BY <1>3 DEF WatcherError
  <2>3. \A e \in Announced : e \in swallowed \/ e \in Announced'
    <3> SUFFICES ASSUME NEW e \in Announced, e \notin swallowed
                 PROVE  e \in Announced'
      OBVIOUS
    <3>1. channel' = Append(channel, {}) /\ (e \in pending => e \in pending')
      BY <1>3 DEF WatcherError
    <3> QED  BY <3>1, StillAnnounced
  <2> QED  BY <1>b, <2>1, <2>2, <2>3 DEF Coming
<1>4. ASSUME Ignore PROVE Done
  <2>1. Stale(q) /\ Watched(q) /\ lost' = lost /\ pc = "waiting" /\ pc' = "waiting"
    BY <1>4 DEF Ignore, Stale, Watched
  <2>2. ~Refused(q) /\ (Ignorable(q) => q \in allowlist)
    BY <2>1 DEF Watched, AllowlistVouched
  <2>3. ASSUME NEW e \in Announced, e.path = q PROVE e \notin Head(channel)
    <3> SUFFICES ASSUME e \in Head(channel) PROVE FALSE
      OBVIOUS
    <3>1. Head(channel) \in SUBSET Events
      BY <1>4, HeadTailProperties DEF Ignore, TypeOK
    <3>2. e \in Events /\ allowlist \in SUBSET Paths
      BY <3>1 DEF TypeOK
    <3>3. IsInteresting(e, allowlist)
      BY <2>2, <2>3, <3>2, WatchedIsInteresting
    <3> QED  BY <1>4, <3>3 DEF Ignore, Changed
  <2>4. \A e \in Announced : e.path = q => e \in Announced'
    BY <1>4, <2>3, AnnouncedOrReceived DEF Ignore
  <2> QED  BY <1>b, <2>1, <2>4 DEF Coming
<1>5. ASSUME Wake PROVE Done
  BY <1>5 DEF Wake, Stale
<1>6. ASSUME NEW p \in Paths, ReadSelected(p) PROVE Done
  <2>1. Stale(q)
    BY <1>6, ReadNowType DEF ReadSelected, Stale
  <2>2. Watched(q) /\ Announced' = Announced /\ lost' = lost
    BY <1>6 DEF ReadSelected, Watched, Announced
  <2> QED  BY <1>b, <2>1, <2>2 DEF Coming
<1>7. ASSUME NEW p \in Paths, Consult(p) PROVE Done
  <2>1. Stale(q)
    BY <1>7, ReadNowType DEF Consult, Stale
  <2>2. Watched(q) /\ Announced' = Announced /\ lost' = lost
    BY <1>7 DEF Consult, Watched, Announced
  <2> QED  BY <1>b, <2>1, <2>2 DEF Coming
<1>a. ASSUME NEW p \in Paths, Probe(p) PROVE Done
  <2>1. Stale(q)
    BY <1>a, ReadNowType DEF Probe, Stale
  <2>2. Watched(q) /\ Announced' = Announced /\ lost' = lost
    BY <1>a DEF Probe, Watched, Announced
  <2> QED  BY <1>b, <2>1, <2>2 DEF Coming
<1>8. ASSUME Finish PROVE Done
  <2>1. Stale(q) /\ Watched(q) /\ lost' = lost
    BY <1>8 DEF Finish, Stale, Watched
  <2>2. Announced \subseteq Announced'
    BY <1>8 DEF Finish, Announced
  <2> QED  BY <1>b, <2>1, <2>2 DEF Coming
<1>9. ASSUME Fail PROVE Done
  BY <1>9 DEF Fail, Stale
<1>10. CASE UNCHANGED vars
  <2>1. Stale(q) /\ Watched(q) /\ Announced' = Announced /\ lost' = lost
    BY <1>10 DEF vars, Stale, Watched, Announced
  <2> QED  BY <1>b, <2>1 DEF Coming
<1> QED
  BY <1>1, <1>2, <1>3, <1>4, <1>5, <1>6, <1>7, <1>a, <1>8, <1>9, <1>10
  DEF Next, Receive, RunStep

\* No edit of a file the last check read goes unnoticed, for every tree and every
\* order of edits, bursts and checks, provided no directory above the root carries a
\* name the filter ignores.
THEOREM NoWakeMissed == QuietRoot => (Spec => []FreshOrComing)
<1> SUFFICES ASSUME QuietRoot PROVE Spec => []FreshOrComing
  OBVIOUS
<1>1. Init => Awaited
  BY DEF Init, Awaited, Stale
<1>2. Spec => [](TypeOK /\ AllowlistVouched)
  BY TypeCorrect, VouchedAlways, PTL
<1>3. TypeOK /\ AllowlistVouched /\ Awaited /\ [Next]_vars => Awaited'
  BY AwaitedStep
<1>4. Awaited => FreshOrComing
  BY DEF Awaited, FreshOrComing, Watched
<1> QED  BY <1>1, <1>2, <1>3, <1>4, PTL DEF Spec

-----------------------------------------------------------------------------
(***************************************************************************)
(* The type provider.                                                      *)
(***************************************************************************)

LEMMA TailFacts ==
  ASSUME NEW S, NEW s \in Seq(S), s # <<>>
  PROVE  /\ Len(s) \in Nat /\ Len(s) >= 1 /\ s[1] \in S /\ Head(s) = s[1]
         /\ Tail(s) \in Seq(S) /\ Len(Tail(s)) = Len(s) - 1
         /\ \A i \in 1..Len(Tail(s)) : i + 1 \in 1..Len(s) /\ Tail(s)[i] = s[i + 1]
OBVIOUS

LEMMA AppendFacts ==
  ASSUME NEW S, NEW s \in Seq(S), NEW e \in S
  PROVE  /\ Append(s, e) \in Seq(S) /\ Len(s) \in Nat
         /\ Len(Append(s, e)) = Len(s) + 1 /\ Append(s, e)[Len(s) + 1] = e
         /\ \A i \in 1..Len(s) : Append(s, e)[i] = s[i]
OBVIOUS

Line == [id : Nat, says : {"yes", "no", "garbage"}]

LEMMA EmptyFacts == <<>> \in Seq(Nat \ {0, 1}) /\ <<>> \in Seq(Line)
OBVIOUS

LEMMA ProviderTypeInit == ProviderInit => ProviderTypeOK
<1> SUFFICES ASSUME ProviderInit PROVE ProviderTypeOK
  OBVIOUS
<1>1. degraded \in [Threads -> BOOLEAN] /\ spent \in BOOLEAN /\ faulted \in BOOLEAN
  BY Zenon DEF ProviderInit
<1>a. handle \in BOOLEAN /\ drained \in BOOLEAN
  BY Zenon DEF ProviderInit
<1>2. stdin \in Seq(Nat \ {0, 1}) /\ lines \in Seq(Line)
  BY EmptyFacts DEF ProviderInit
<1>3. /\ call \in [Threads -> {"idle", "queued", "writing", "sent", "failed", "joining"}]
      /\ id \in [Threads -> Nat \ {1}] /\ got \in [Threads -> Nat \ {1}]
      /\ error \in [Threads -> Errors \cup {"none"}]
      /\ asks \in [Threads -> Nat]
  BY DEF ProviderInit
<1> QED  BY <1>1, <1>a, <1>2, <1>3 DEF ProviderInit, ProviderTypeOK, Errors, Line

LEMMA ProviderTypeStep ==
  ASSUME ProviderTypeOK, InvHolder, InvOutstanding, [ProviderNext]_providerVars
  PROVE  ProviderTypeOK'
<1> USE DEF ProviderTypeOK, held, conn, drain, Errors
<1>1. CASE ChangeTypes
  BY <1>1 DEF ChangeTypes
<1>2. CASE Request
  <2>1. stdin' \in Seq(Nat \ {0, 1}) /\ lines' \in Seq(Line)
    BY <1>2, EmptyFacts DEF Request, Line
  <2>2. /\ built' \in Types \cup {"none"} /\ child' \in {"up", "dead", "killed"}
        /\ phase' \in {"between", "begin", "running"} /\ next_id' \in Nat
    BY <1>2 DEF Request
  <2>3. degraded' \in [Threads -> BOOLEAN] /\ spent' \in BOOLEAN /\ faulted' \in BOOLEAN
    BY <1>2, Zenon DEF Request
  <2>a. handle' \in BOOLEAN /\ drained' \in BOOLEAN
    <3>1. \/ UNCHANGED <<handle, drained>>
          \/ handle' = TRUE /\ drained' = FALSE
      BY <1>2 DEF Request
    <3> QED  BY <3>1, Zenon
  <2>4. /\ failure' = "none" /\ runs' \in Nat
        /\ id' \in [Threads -> Nat \ {1}] /\ got' \in [Threads -> Nat \ {1}]
        /\ asks' \in [Threads -> Nat] /\ UNCHANGED <<types, session, call, error, strays>>
    BY <1>2 DEF Request
  <2> QED  BY <2>1, <2>2, <2>3, <2>a, <2>4 DEF Line
<1>3. CASE Prepared
  BY <1>3 DEF Prepared
<1>4. CASE RunEnds
  BY <1>4 DEF RunEnds
<1>5. ASSUME NEW t \in Threads, Ask(t) PROVE ProviderTypeOK'
  BY <1>5 DEF Ask
<1>6. ASSUME NEW t \in Threads, Send(t) PROVE ProviderTypeOK'
  <2>1. CASE Abandon(t, "timeout") /\ UNCHANGED <<next_id, id>>
    BY <1>6, <2>1 DEF Send, Abandon
  <2>2. CASE /\ session' = {t} /\ next_id' = NextId /\ id' = [id EXCEPT ![t] = NextId]
             /\ call' = [call EXCEPT ![t] = "writing"] /\ UNCHANGED error
    <3>1. phase # "between" /\ NextId \in Nat \ {1}
      BY <1>6 DEF Send, InvHolder, InvOutstanding, NextId
    <3> QED  BY <1>6, <2>2, <3>1 DEF Send
  <2> QED  BY <1>6, <2>1, <2>2 DEF Send
<1>a. ASSUME NEW t \in Threads, Written(t) PROVE ProviderTypeOK'
  <2>1. session = {t}
    BY <1>a DEF Written, InvHolder
  <2>a. id[t] \in Nat \ {0, 1}
    BY <2>1 DEF InvOutstanding
  <2>2. stdin' \in Seq(Nat \ {0, 1})
    BY <1>a, <2>a DEF Written
  <2> QED  BY <1>a, <2>2 DEF Written
<1>b. ASSUME NEW t \in Threads, BrokenPipe(t) PROVE ProviderTypeOK'
  BY <1>b DEF BrokenPipe, Abandon, Stop
<1>c. ASSUME NEW t \in Threads, Join(t) PROVE ProviderTypeOK'
  <2>1. handle' \in BOOLEAN
    BY <1>c, Zenon DEF Join
  <2> QED  BY <1>c, <2>1 DEF Join
<1>d. ASSUME StderrEnds PROVE ProviderTypeOK'
  <2>1. drained' \in BOOLEAN
    BY <1>d, Zenon DEF StderrEnds
  <2> QED  BY <1>d, <2>1 DEF StderrEnds
<1>7. ASSUME NEW t \in Threads, ReceiveLine(t) PROVE ProviderTypeOK'
  <2>1. lines \in Seq(Line) /\ lines # <<>>
    BY <1>7 DEF ReceiveLine, Line
  <2>2. Tail(lines) \in Seq(Line) /\ Head(lines) \in Line
    BY <2>1, TailFacts
  <2>3. spent' \in BOOLEAN /\ faulted' \in BOOLEAN
    BY <1>7 DEF ReceiveLine
  <2>4. CASE (\E e \in Errors : Abandon(t, e)) /\ Stop /\ UNCHANGED got
    BY <1>7, <2>3, <2>4 DEF ReceiveLine, Abandon, Stop
  <2>5. CASE /\ Abandon(t, "refused") /\ lines' = Tail(lines)
             /\ UNCHANGED <<child, stdin, next_id, got>>
    BY <1>7, <2>2, <2>3, <2>5 DEF ReceiveLine, Abandon, Line
  <2>6. CASE /\ got' = [got EXCEPT ![t] = Head(lines).id] /\ Mine(t, Head(lines))
             /\ lines' = Tail(lines) /\ session' = {} /\ call' = [call EXCEPT ![t] = "idle"]
             /\ UNCHANGED <<child, stdin, next_id, error>>
    <3>1. Head(lines).id \in Nat \ {1}
      BY <2>6 DEF Mine
    <3> QED  BY <1>7, <2>2, <2>3, <2>6, <3>1 DEF ReceiveLine, Line
  <2> QED  BY <1>7, <2>4, <2>5, <2>6 DEF ReceiveLine
<1>8. ASSUME NEW t \in Threads, Disconnected(t) PROVE ProviderTypeOK'
  BY <1>8 DEF Disconnected, Abandon, Stop
<1>9. ASSUME NEW t \in Threads, Timeout(t) PROVE ProviderTypeOK'
  BY <1>9 DEF Timeout, Abandon, GiveUp, Stop
<1>10. ASSUME NEW t \in Threads, Remember(t) PROVE ProviderTypeOK'
  BY <1>10 DEF Remember, Kept
<1>11. ASSUME NEW says \in {"yes", "no"}, Answer(says) PROVE ProviderTypeOK'
  <2>1. Tail(stdin) \in Seq(Nat \ {0, 1}) /\ Head(stdin) \in Nat
    BY <1>11, TailFacts DEF Answer
  <2>2. lines' \in Seq([id : Nat, says : {"yes", "no", "garbage"}])
    BY <1>11, <2>1 DEF Answer
  <2> QED  BY <1>11, <2>1, <2>2 DEF Answer
<1>12. ASSUME NEW line \in [id : {0}, says : {"no", "garbage"}], Stray(line)
       PROVE  ProviderTypeOK'
  <2>1. lines' \in Seq([id : Nat, says : {"yes", "no", "garbage"}])
    BY <1>12 DEF Stray
  <2> QED  BY <1>12, <2>1 DEF Stray
<1>13. CASE Die
  BY <1>13 DEF Die
<1>14. CASE UNCHANGED providerVars
  BY <1>14 DEF providerVars
<1> QED
  BY <1>1, <1>2, <1>3, <1>4, <1>5, <1>6, <1>a, <1>b, <1>c, <1>d, <1>7, <1>8, <1>9, <1>10,
     <1>11, <1>12, <1>13, <1>14, ThreadsAssumption
  DEF ProviderNext, Thread, Driver, WriteFits, TakesPrograms

\* The mutex passes from one thread to the next.
LEMMA HolderFacts ==
  ASSUME InvHolder, NEW t \in Threads, session = {t}
  PROVE  /\ call[t] \in {"writing", "sent"} /\ session # {}
         /\ \A u \in Threads : call[u] \in {"writing", "sent"} <=> u = t
<1>1. \A u \in Threads : {t} = {u} <=> u = t
  OBVIOUS
<1> QED  BY <1>1 DEF InvHolder

\* A request that ends, answered or failed.
LEMMA ReleaseKeepsHolder ==
  ASSUME ProviderTypeOK, InvHolder, NEW t \in Threads, call[t] \in {"writing", "sent"},
         session' = {}, phase' = phase,
         NEW s \in {"idle", "failed"}, call' = [call EXCEPT ![t] = s]
  PROVE  InvHolder'
<1>1. session = {t}
  BY DEF InvHolder
<1>2. /\ call'[t] = s /\ s \notin {"writing", "sent"}
      /\ \A u \in Threads :
           u # t => call'[u] = call[u] /\ call[u] \notin {"writing", "sent"}
  BY <1>1, HolderFacts DEF ProviderTypeOK
<1>3. \A u \in Threads : session' # {u}
  OBVIOUS
<1>4. ~(phase = "between" \/ (phase = "begin" /\ t # Main))
  BY DEF InvHolder
<1> QED  BY <1>2, <1>3, <1>4 DEF InvHolder

LEMMA HolderStep ==
  ASSUME ProviderTypeOK, InvHolder, [ProviderNext]_providerVars
  PROVE  InvHolder'
<1>1. CASE ChangeTypes \/ Driver \/ StderrEnds \/ UNCHANGED providerVars
  <2>1. UNCHANGED <<session, call, phase>>
    BY <1>1 DEF ChangeTypes, Driver, Answer, Stray, Die, StderrEnds, providerVars, held
  <2> QED  BY <2>1 DEF InvHolder
<1>2. CASE Request
  <2>1. phase = "between" /\ UNCHANGED <<session, call>>
    BY <1>2 DEF Request
  <2> QED  BY <2>1 DEF InvHolder
<1>3. CASE Prepared
  <2>1. phase = "begin" /\ call[Main] = "idle" /\ UNCHANGED <<session, call>>
    BY <1>3 DEF Prepared
  <2>2. \A t \in Threads : call[t] = "idle"
    BY <2>1 DEF InvHolder
  <2> QED  BY <2>1, <2>2 DEF InvHolder
<1>4. CASE RunEnds
  <2>1. (\A t \in Threads : call[t] = "idle") /\ UNCHANGED <<session, call>>
    BY <1>4 DEF RunEnds
  <2> QED  BY <2>1 DEF InvHolder
<1>5. ASSUME NEW t \in Threads, Ask(t) PROVE InvHolder'
  <2>1. /\ call[t] = "idle" /\ UNCHANGED <<session, phase>>
        /\ phase = "running" \/ (phase = "begin" /\ t = Main)
        /\ call' = [call EXCEPT ![t] = "queued"]
    BY <1>5 DEF Ask, held
  <2> QED  BY <2>1 DEF InvHolder, ProviderTypeOK
<1>6. ASSUME NEW t \in Threads, Send(t) PROVE InvHolder'
  <2>1. call[t] = "queued" /\ session = {} /\ phase' = phase
    BY <1>6 DEF Send, held
  <2>2. /\ \A u \in Threads : call[u] \notin {"writing", "sent"}
        /\ ~(phase = "between" \/ (phase = "begin" /\ t # Main))
    BY <2>1 DEF InvHolder
  <2>3. CASE session' = {} /\ call' = [call EXCEPT ![t] = "failed"]
    BY <2>1, <2>2, <2>3 DEF InvHolder, ProviderTypeOK
  <2>4. CASE session' = {t} /\ call' = [call EXCEPT ![t] = "writing"]
    <3>1. \A u \in Threads : session' = {u} <=> u = t
      BY <2>4
    <3>2. \A u \in Threads : call'[u] \in {"writing", "sent"} <=> u = t
      BY <2>2, <2>4 DEF ProviderTypeOK
    <3>3. \A u \in Threads : u # t => call'[u] = call[u]
      BY <2>4 DEF ProviderTypeOK
    <3> QED  BY <2>1, <2>2, <2>4, <3>1, <3>2, <3>3 DEF InvHolder
  <2> QED  BY <1>6, <2>3, <2>4 DEF Send, Abandon
<1>a. ASSUME NEW t \in Threads, Written(t) PROVE InvHolder'
  <2>1. /\ call[t] = "writing" /\ UNCHANGED <<session, phase>>
        /\ call' = [call EXCEPT ![t] = "sent"]
    BY <1>a DEF Written, held
  <2>2. /\ call'[t] = "sent" /\ \A u \in Threads : u # t => call'[u] = call[u]
    BY <2>1 DEF ProviderTypeOK
  <2> QED  BY <2>1, <2>2 DEF InvHolder
<1>7. ASSUME NEW t \in Threads,
             BrokenPipe(t) \/ ReceiveLine(t) \/ Disconnected(t) \/ Timeout(t)
      PROVE  InvHolder'
  <2>1. /\ call[t] \in {"writing", "sent"} /\ session' = {} /\ phase' = phase
        /\ \/ call' = [call EXCEPT ![t] = "failed"]
           \/ call' = [call EXCEPT ![t] = "idle"]
    BY <1>7 DEF BrokenPipe, ReceiveLine, Disconnected, Timeout, OutOfTime, Abandon, held
  <2> QED  BY <2>1, ReleaseKeepsHolder
<1>8. ASSUME NEW t \in Threads, Remember(t) PROVE InvHolder'
  <2>1. /\ call[t] \in {"failed", "joining"} /\ UNCHANGED <<session, phase>>
        /\ call' = [call EXCEPT ![t] = "idle"]
    BY <1>8 DEF Remember, Joined, held
  <2> QED  BY <2>1 DEF InvHolder, ProviderTypeOK
<1>9. ASSUME NEW t \in Threads, Join(t) PROVE InvHolder'
  <2>1. /\ call[t] = "failed" /\ UNCHANGED <<session, phase>>
        /\ call' = [call EXCEPT ![t] = "joining"]
    BY <1>9 DEF Join
  <2>2. ~(phase = "between" \/ (phase = "begin" /\ t # Main))
    BY <2>1 DEF InvHolder
  <2> QED  BY <2>1, <2>2 DEF InvHolder, ProviderTypeOK
<1> QED
  BY <1>1, <1>2, <1>3, <1>4, <1>5, <1>6, <1>a, <1>7, <1>8, <1>9, ThreadsAssumption
  DEF ProviderNext, Thread, WriteFits, TakesPrograms

LEMMA AnswersStep ==
  ASSUME ProviderTypeOK, InvAnswers, [ProviderNext]_providerVars
  PROVE  InvAnswers'
<1>1. CASE \/ ChangeTypes \/ Prepared \/ RunEnds \/ Driver \/ StderrEnds
           \/ UNCHANGED providerVars
  <2>1. UNCHANGED <<call, got, id>>
    BY <1>1 DEF ChangeTypes, Prepared, RunEnds, Driver, Answer, Stray,
                Die, StderrEnds, providerVars
  <2> QED  BY <2>1 DEF InvAnswers
<1>2. CASE Request
  <2>1. \A t \in Threads : got'[t] = 0
    BY <1>2 DEF Request
  <2> QED  BY <2>1 DEF InvAnswers
<1>3. ASSUME NEW t \in Threads, Thread(t) \/ Written(t) PROVE InvAnswers'
  <2>1. ASSUME NEW u \in Threads, u # t
        PROVE  call'[u] = call[u] /\ got'[u] = got[u] /\ id'[u] = id[u]
    BY <1>3, <2>1 DEF Thread, Ask, Send, Written, WriteFits, BrokenPipe, ReceiveLine,
       Disconnected, Timeout, Join, Remember, Abandon, ProviderTypeOK
  <2>2. /\ call'[t] # "idle" => got'[t] = 0
        /\ got'[t] # 0 => got'[t] = id'[t]
    <3>1. CASE Ask(t)
      BY <3>1 DEF Ask, ProviderTypeOK
    <3>2. CASE Send(t)
      BY <3>2 DEF Send, Abandon, ProviderTypeOK, InvAnswers
    <3>3. CASE ReceiveLine(t)
      BY <3>3 DEF ReceiveLine, Abandon, Mine, ProviderTypeOK, InvAnswers
    <3>4. CASE Disconnected(t) \/ Timeout(t) \/ BrokenPipe(t)
      BY <3>4 DEF Disconnected, Timeout, OutOfTime, BrokenPipe, Abandon, ProviderTypeOK,
                  InvAnswers
    <3>5. CASE Written(t) \/ Join(t) \/ Remember(t)
      BY <3>5 DEF Written, Join, Remember, Joined, ProviderTypeOK, InvAnswers
    <3> QED  BY <1>3, <3>1, <3>2, <3>3, <3>4, <3>5 DEF Thread, WriteFits
  <2> QED  BY <2>1, <2>2 DEF InvAnswers
<1> QED
  BY <1>1, <1>2, <1>3, ThreadsAssumption DEF ProviderNext, TakesPrograms

\* Whoever stops the child leaves nothing unanswered and nothing unread.
LEMMA StopKeepsOutstanding ==
  ASSUME Stop, InvOutstanding, UNCHANGED <<id, phase>>,
         session' = {}
  PROVE  InvOutstanding'
<1>1. /\ stdin' = <<>> /\ lines' = <<>> /\ child' = "killed" /\ next_id' = next_id
      /\ Len(lines') = 0
  BY DEF Stop
<1>2. \A t \in Threads : session' # {t}
  OBVIOUS
<1> QED  BY <1>1, <1>2 DEF InvOutstanding

LEMMA ReceiveKeepsOutstanding ==
  ASSUME ProviderTypeOK, InvHolder, InvOutstanding, NEW t \in Threads, ReceiveLine(t)
  PROVE  InvOutstanding'
<1>1. /\ call[t] = "sent" /\ session = {t} /\ session' = {} /\ UNCHANGED <<id, phase>>
      /\ id[t] = next_id /\ next_id >= 2 /\ lines \in Seq(Line) /\ lines # <<>>
  BY DEF ReceiveLine, InvHolder, InvOutstanding, ProviderTypeOK, Line, Abandon, held
<1>2. CASE Stop
  BY <1>1, <1>2, StopKeepsOutstanding
<1>3. CASE /\ Mine(t, Head(lines)) /\ lines' = Tail(lines)
           /\ UNCHANGED <<child, stdin, next_id>>
  <2>1. /\ Len(lines) \in Nat /\ Len(lines) >= 1 /\ Head(lines) = lines[1]
        /\ \A i \in 1..Len(lines') : i + 1 \in 1..Len(lines) /\ lines'[i] = lines[i + 1]
    BY <1>1, <1>3, TailFacts
  <2>2. lines[1].id # 0 /\ 1 \in 1..Len(lines)
    BY <1>1, <1>3, <2>1 DEF Mine
  <2>3. ASSUME NEW i \in 1..Len(lines') PROVE lines'[i].id = 0
    <3>1. i + 1 \in 1..Len(lines) /\ lines'[i] = lines[i + 1] /\ i + 1 # 1
      BY <2>1
    <3> QED  BY <2>2, <3>1 DEF InvOutstanding
  <2>4. stdin = <<>>
    BY <2>2 DEF InvOutstanding
  <2>5. \A u \in Threads : session' # {u}
    BY <1>1
  <2> QED  BY <1>1, <1>3, <2>3, <2>4, <2>5 DEF InvOutstanding
<1> QED  BY <1>2, <1>3 DEF ReceiveLine

LEMMA OutstandingStep ==
  ASSUME ProviderTypeOK, InvHolder, InvOutstanding, [ProviderNext]_providerVars
  PROVE  InvOutstanding'
<1>1. ASSUME UNCHANGED <<child, stdin, lines, next_id, session, id>>,
             phase' # "between" => phase # "between",
             \A t \in Threads : call'[t] = "sent" <=> call[t] = "sent"
      PROVE  InvOutstanding'
  BY <1>1 DEF InvOutstanding
<1>2. CASE \/ ChangeTypes \/ Prepared \/ RunEnds \/ StderrEnds \/ UNCHANGED providerVars
           \/ \E t \in Threads : Ask(t) \/ Join(t) \/ Remember(t)
  <2>1. /\ UNCHANGED <<child, stdin, lines, next_id, session, id>>
        /\ phase' # "between" => phase # "between"
    BY <1>2 DEF ChangeTypes, Prepared, RunEnds, StderrEnds, Ask, Join, Remember,
       providerVars, conn, held
  <2>2. \A t \in Threads : call'[t] = "sent" <=> call[t] = "sent"
    BY <1>2 DEF ChangeTypes, Prepared, RunEnds, StderrEnds, Ask, Join, Remember, Joined,
       providerVars, ProviderTypeOK
  <2> QED  BY <1>1, <2>1, <2>2
<1>3. CASE Request
  <2>1. \A t \in Threads : session # {t}
    BY <1>3 DEF Request, InvHolder
  <2>2. session = {} /\ session' = {}
    BY <1>3, <2>1 DEF Request, InvHolder
  <2>a. (\A t \in Threads : call[t] # "sent") /\ UNCHANGED call /\ phase = "between"
    BY <1>3 DEF Request, InvHolder
  <2>3. CASE UNCHANGED conn /\ child = "up"
    BY <2>1, <2>2, <2>a, <2>3 DEF InvOutstanding, conn
  <2>4. CASE /\ stdin' = <<>> /\ lines' = <<>>
             /\ child' = "up" \/ phase' # "between" => next_id' = 1
    <3>1. Len(lines') = 0
      BY <2>4
    <3> QED  BY <2>1, <2>2, <2>4, <3>1 DEF InvOutstanding
  <2> QED  BY <1>3, <2>a, <2>3, <2>4 DEF Request, NeedsRebuild
<1>4. ASSUME NEW t \in Threads, Send(t) PROVE InvOutstanding'
  <2>1. /\ session = {} /\ call[t] = "queued" /\ phase # "between"
        /\ UNCHANGED <<child, stdin, lines, phase>>
    BY <1>4 DEF Send, InvHolder, held
  <2>2. (\A u \in Threads : session # {u}) /\ (\A u \in Threads : call[u] # "sent")
    BY <2>1 DEF InvHolder
  <2>3. next_id \in Nat /\ next_id >= 1
    BY <2>1 DEF InvOutstanding, ProviderTypeOK
  <2>4. stdin = <<>> /\ \A i \in 1..Len(lines) : lines[i].id = 0
    BY <2>2 DEF InvOutstanding
  <2>5. CASE session' = {} /\ UNCHANGED <<next_id, id>>
    BY <2>1, <2>2, <2>4, <2>5 DEF InvOutstanding
  <2>6. CASE session' = {t} /\ next_id' = NextId /\ id' = [id EXCEPT ![t] = NextId]
    <3>1. id'[t] = next_id' /\ next_id' \in Nat /\ next_id' >= 2
      BY <2>3, <2>6 DEF ProviderTypeOK, NextId
    <3>2. \A u \in Threads : session' = {u} => u = t
      BY <2>6
    <3> QED  BY <2>1, <2>4, <3>1, <3>2 DEF InvOutstanding
  <2> QED  BY <1>4, <2>5, <2>6 DEF Send, Abandon
<1>a. ASSUME NEW t \in Threads, Written(t) PROVE InvOutstanding'
  <2>1. /\ call[t] = "writing" /\ child = "up" /\ stdin' = Append(stdin, id[t])
        /\ call' = [call EXCEPT ![t] = "sent"]
        /\ UNCHANGED <<child, lines, next_id, session, id, phase>>
    BY <1>a DEF Written, held
  <2>2. /\ session = {t} /\ id[t] = next_id
        /\ \A u \in Threads : call[u] # "sent"
    <3>1. session = {t}
      BY <2>1 DEF InvHolder
    <3> QED  BY <2>1, <3>1, HolderFacts DEF InvOutstanding
  <2>3. stdin = <<>> /\ \A i \in 1..Len(lines) : lines[i].id = 0
    BY <2>2 DEF InvOutstanding
  <2>4. stdin' = <<next_id>> /\ call'[t] = "sent"
    BY <2>1, <2>2, <2>3 DEF ProviderTypeOK
  <2> QED  BY <2>1, <2>2, <2>3, <2>4 DEF InvOutstanding
<1>5. ASSUME NEW t \in Threads, ReceiveLine(t) PROVE InvOutstanding'
  BY <1>5, ReceiveKeepsOutstanding
<1>6. ASSUME NEW t \in Threads, BrokenPipe(t) \/ Disconnected(t) \/ Timeout(t)
      PROVE  InvOutstanding'
  BY <1>6, StopKeepsOutstanding DEF BrokenPipe, Disconnected, Timeout, Abandon, GiveUp, held
<1>7. ASSUME NEW says \in {"yes", "no"}, Answer(says) PROVE InvOutstanding'
  <2> DEFINE line == [id |-> Head(stdin), says |-> says]
  <2>1. /\ child = "up" /\ stdin # <<>> /\ stdin' = Tail(stdin)
        /\ lines' = Append(lines, line)
        /\ UNCHANGED <<child, next_id, session, id, call, phase>>
    BY <1>7 DEF Answer, held
  <2>2. /\ stdin = <<next_id>> /\ \E t \in Threads : call[t] = "sent"
        /\ \A i \in 1..Len(lines) : lines[i].id = 0
    BY <2>1 DEF InvOutstanding
  <2>3. stdin' = <<>> /\ line.id = next_id /\ line \in Line /\ lines \in Seq(Line)
    BY <2>1, <2>2 DEF ProviderTypeOK, Line
  <2> HIDE DEF line
  <2>4. /\ Len(lines) \in Nat /\ Len(lines') = Len(lines) + 1
        /\ lines'[Len(lines) + 1] = line
        /\ \A i \in 1..Len(lines) : lines'[i] = lines[i]
    BY <2>1, <2>3, AppendFacts
  <2>5. \A i \in 1..Len(lines') : i # Len(lines) + 1 => lines'[i].id = 0
    BY <2>2, <2>4
  <2>6. \A i \in 1..Len(lines') : lines'[i].id \in {0, next_id}
    BY <2>3, <2>4, <2>5
  <2> QED  BY <2>1, <2>2, <2>3, <2>5, <2>6 DEF InvOutstanding
<1>8. ASSUME NEW line \in [id : {0}, says : {"no", "garbage"}], Stray(line)
      PROVE  InvOutstanding'
  <2>1. /\ lines' = Append(lines, line) /\ line.id = 0 /\ line \in Line
        /\ lines \in Seq(Line)
        /\ UNCHANGED <<child, stdin, next_id, session, id, call, phase>>
    BY <1>8 DEF Stray, ProviderTypeOK, Line, held
  <2>2. /\ Len(lines) \in Nat /\ Len(lines') = Len(lines) + 1
        /\ lines'[Len(lines) + 1] = line
        /\ \A i \in 1..Len(lines) : lines'[i] = lines[i]
    BY <2>1, AppendFacts
  <2>3. \A i \in 1..Len(lines') :
          lines'[i].id # 0 => i \in 1..Len(lines) /\ lines'[i] = lines[i]
    BY <2>1, <2>2
  <2> QED  BY <2>1, <2>3 DEF InvOutstanding
<1>9. CASE Die
  BY <1>9 DEF Die, InvOutstanding, held
<1> QED
  BY <1>2, <1>3, <1>4, <1>a, <1>5, <1>6, <1>7, <1>8, <1>9, ThreadsAssumption
  DEF ProviderNext, Thread, Driver, WriteFits, TakesPrograms

LEMMA FailKeepsFaults ==
  ASSUME ProviderTypeOK, InvFaults, NEW t \in Threads, NEW e \in Errors, Abandon(t, e),
         call[t] \notin {"failed", "joining"}, UNCHANGED <<failure, degraded>>, faulted'
  PROVE  InvFaults'
<1>1. /\ call'[t] = "failed" /\ error'[t] = e /\ e # "none"
      /\ \A u \in Threads : u # t => call'[u] = call[u] /\ error'[u] = error[u]
  BY DEF Abandon, ProviderTypeOK, Errors
<1> QED  BY <1>1 DEF InvFaults

LEMMA ReceiveKeepsFaults ==
  ASSUME ProviderTypeOK, InvHolder, InvOutstanding, InvFaults,
         NEW t \in Threads, ReceiveLine(t)
  PROVE  InvFaults'
<1>1. /\ call[t] = "sent" /\ lines \in Seq(Line) /\ lines # <<>>
      /\ UNCHANGED <<failure, degraded, phase>>
      /\ spent' \in {spent, TRUE} /\ faulted' = (faulted \/ spent')
      /\ id[t] = next_id
  BY DEF ReceiveLine, held, ProviderTypeOK, Line, InvHolder, InvOutstanding
<1>2. /\ Len(lines) \in Nat /\ Len(lines) >= 1 /\ Head(lines) = lines[1]
      /\ 1 \in 1..Len(lines) /\ Tail(lines) \in Seq(Line)
      /\ \A i \in 1..Len(Tail(lines)) : i + 1 \in 1..Len(lines) /\ Tail(lines)[i] = lines[i + 1]
  BY <1>1, TailFacts
<1>3. \/ lines[1].says # "yes" \/ lines[1].id = 0
      \/ lines[1].says = "yes" /\ Mine(t, lines[1])
  BY <1>1, <1>2 DEF InvOutstanding, Mine
<1>4. CASE \E e \in Errors : Abandon(t, e) /\ ~(Head(lines).says = "yes" /\ Mine(t, Head(lines)))
  <2>1. faulted
    BY <1>2, <1>3, <1>4 DEF InvFaults
  <2>2. faulted'
    BY <1>1, <2>1
  <2> QED  BY <1>1, <1>4, <2>2, FailKeepsFaults
<1>5. CASE /\ call' = [call EXCEPT ![t] = "idle"] /\ lines' = Tail(lines)
           /\ UNCHANGED <<child, error>>
  <2>1. \A u \in Threads :
          call'[u] \in {"failed", "joining"} <=> call[u] \in {"failed", "joining"}
    BY <1>1, <1>5 DEF ProviderTypeOK
  <2>2. ASSUME ~faulted'
        PROVE  ~faulted /\ ~spent'
    BY <1>1, <2>2
  <2>3. ASSUME ~faulted, NEW i \in 1..Len(lines')
        PROVE  lines'[i].id # 0 /\ lines'[i].says = "yes"
    BY <1>2, <1>5, <2>3 DEF InvFaults
  <2> QED  BY <1>1, <1>5, <2>1, <2>2, <2>3 DEF InvFaults
<1>6. \/ \E e \in Errors : Abandon(t, e) /\ ~(Head(lines).says = "yes" /\ Mine(t, Head(lines)))
      \/ /\ call' = [call EXCEPT ![t] = "idle"] /\ lines' = Tail(lines)
         /\ UNCHANGED <<child, error>>
  BY DEF ReceiveLine, Errors
<1> QED  BY <1>4, <1>5, <1>6

LEMMA FaultsStep ==
  ASSUME ProviderTypeOK, InvHolder, InvOutstanding, InvFaults, [ProviderNext]_providerVars
  PROVE  InvFaults'
<1>1. CASE \/ ChangeTypes \/ StderrEnds \/ UNCHANGED providerVars
           \/ \E t \in Threads : Ask(t) \/ Join(t) \/ Written(t)
  <2>1. UNCHANGED <<child, lines, phase, spent, failure, error, degraded, faulted>>
    BY <1>1 DEF ChangeTypes, StderrEnds, providerVars, Ask, Join, Written, conn, held
  <2>2. \A t \in Threads :
          call'[t] \in {"failed", "joining"} <=> call[t] \in {"failed", "joining"}
    BY <1>1 DEF ChangeTypes, StderrEnds, providerVars, Ask, Join, Written, ProviderTypeOK
  <2> QED  BY <2>1, <2>2 DEF InvFaults
<1>2. CASE Request
  <2>1. /\ UNCHANGED <<call, error>> /\ \A t \in Threads : call[t] = "idle"
    BY <1>2 DEF Request, InvHolder
  <2>2. /\ failure' = "none" /\ ~spent' /\ \A t \in Threads : ~degraded'[t]
    BY <1>2 DEF Request
  <2>3. phase' # "between" => child' = "up"
    BY <1>2 DEF Request, NeedsRebuild, conn
  <2>4. ~faulted' => Len(lines') = 0
    <3>1. lines' # <<>> => faulted'
      BY <1>2, Zenon DEF Request
    <3>2. Len(<<>>) = 0
      OBVIOUS
    <3> QED  BY <3>1, <3>2
  <2>5. \A t \in Threads : error[t] = "none"
    BY <2>1 DEF InvFaults
  <2> QED  BY <2>1, <2>2, <2>3, <2>4, <2>5 DEF InvFaults
<1>3. CASE Prepared \/ RunEnds
  <2>1. /\ phase # "between"
        /\ UNCHANGED <<child, lines, spent, failure, call, error, degraded, faulted>>
    BY <1>3 DEF Prepared, RunEnds, conn
  <2> QED  BY <2>1 DEF InvFaults
<1>4. ASSUME NEW t \in Threads, Send(t) PROVE InvFaults'
  <2>1. /\ call[t] = "queued" /\ phase # "between"
        /\ UNCHANGED <<child, lines, spent, failure, degraded, faulted, phase>>
    BY <1>4 DEF Send, held, InvHolder
  <2>2. CASE spent /\ Abandon(t, "timeout")
    <3>1. faulted /\ "timeout" \in Errors
      BY <2>2 DEF InvFaults, Errors
    <3> QED  BY <2>1, <2>2, <3>1, FailKeepsFaults
  <2>3. CASE call' = [call EXCEPT ![t] = "writing"] /\ UNCHANGED error
    <3>1. \A u \in Threads :
            call'[u] \in {"failed", "joining"} <=> call[u] \in {"failed", "joining"}
      BY <2>1, <2>3 DEF ProviderTypeOK
    <3> QED  BY <2>1, <2>3, <3>1 DEF InvFaults
  <2> QED  BY <1>4, <2>2, <2>3 DEF Send
<1>a. ASSUME NEW t \in Threads, BrokenPipe(t) PROVE InvFaults'
  <2>1. /\ call[t] = "writing" /\ child # "up" /\ Abandon(t, "broken_pipe")
        /\ UNCHANGED <<failure, degraded, faulted>> /\ "broken_pipe" \in Errors
    BY <1>a DEF BrokenPipe, Errors
  <2>2. faulted
    BY <2>1 DEF InvFaults, InvHolder
  <2> QED  BY <2>1, <2>2, FailKeepsFaults
<1>5. ASSUME NEW t \in Threads, ReceiveLine(t) PROVE InvFaults'
  BY <1>5, ReceiveKeepsFaults
<1>6. ASSUME NEW t \in Threads, Disconnected(t) PROVE InvFaults'
  <2>1. /\ call[t] = "sent" /\ child # "up" /\ Abandon(t, "exited")
        /\ UNCHANGED <<failure, degraded, faulted>> /\ "exited" \in Errors
    BY <1>6 DEF Disconnected, Errors
  <2>2. faulted
    BY <2>1 DEF InvFaults, InvHolder
  <2> QED  BY <2>1, <2>2, FailKeepsFaults
<1>7. ASSUME NEW t \in Threads, Timeout(t) PROVE InvFaults'
  <2>1. /\ call[t] = "sent" /\ Abandon(t, "timeout") /\ faulted'
        /\ UNCHANGED <<failure, degraded>> /\ "timeout" \in Errors
    BY <1>7 DEF Timeout, OutOfTime, Errors
  <2> QED  BY <2>1, FailKeepsFaults
<1>8. ASSUME NEW t \in Threads, Remember(t) PROVE InvFaults'
  <2>1. /\ call[t] \in {"failed", "joining"} /\ UNCHANGED faulted
        /\ call' = [call EXCEPT ![t] = "idle"] /\ error' = [error EXCEPT ![t] = "none"]
        /\ failure' = Kept(error[t]) /\ degraded' = [degraded EXCEPT ![t] = TRUE]
    BY <1>8 DEF Remember, Joined
  <2>2. error[t] # "none" /\ faulted /\ failure' # "none"
    BY <2>1 DEF InvFaults, Kept
  <2>3. \A u \in Threads : call'[u] \in {"failed", "joining"} <=> error'[u] # "none"
    BY <2>1 DEF InvFaults, ProviderTypeOK
  <2> QED  BY <2>1, <2>2, <2>3 DEF InvFaults
<1>9. ASSUME NEW says \in {"yes", "no"}, Answer(says) PROVE InvFaults'
  <2> DEFINE line == [id |-> Head(stdin), says |-> says]
  <2>1. /\ stdin # <<>> /\ lines' = Append(lines, line)
        /\ faulted' = (faulted \/ says = "no")
        /\ UNCHANGED <<child, phase, spent, failure, call, error, degraded>>
    BY <1>9 DEF Answer, held
  <2>2. line \in Line /\ lines \in Seq(Line) /\ line.id # 0 /\ line.says = says
    <3>1. stdin \in Seq(Nat \ {0, 1}) /\ lines \in Seq(Line)
      BY DEF ProviderTypeOK, Line
    <3>2. Head(stdin) \in Nat \ {0, 1}
      BY <2>1, <3>1, TailFacts
    <3> QED  BY <3>1, <3>2 DEF Line
  <2> HIDE DEF line
  <2>3. /\ Len(lines) \in Nat /\ Len(lines') = Len(lines) + 1
        /\ lines'[Len(lines) + 1] = line
        /\ \A i \in 1..Len(lines) : lines'[i] = lines[i]
    BY <2>1, <2>2, AppendFacts
  <2>4. ASSUME ~faulted', NEW i \in 1..Len(lines')
        PROVE  lines'[i].id # 0 /\ lines'[i].says = "yes"
    <3>1. ~faulted /\ says = "yes"
      BY <1>9, <2>1, <2>4
    <3> QED  BY <2>2, <2>3, <2>4, <3>1 DEF InvFaults
  <2>5. ~faulted' => ~faulted
    BY <2>1
  <2> QED  BY <2>1, <2>4, <2>5 DEF InvFaults
<1>10. ASSUME Die \/ \E line \in [id : {0}, says : {"no", "garbage"}] : Stray(line)
       PROVE  InvFaults'
  <2>1. faulted' /\ UNCHANGED <<failure, call, error, degraded>>
    BY <1>10 DEF Die, Stray
  <2> QED  BY <2>1 DEF InvFaults
<1> QED
  BY <1>1, <1>2, <1>3, <1>4, <1>a, <1>5, <1>6, <1>7, <1>8, <1>9, <1>10, ThreadsAssumption
  DEF ProviderNext, Thread, Driver, WriteFits, TakesPrograms

LEMMA RightProviderStep ==
  ASSUME RightProvider, [ProviderNext]_providerVars
  PROVE  RightProvider'
<1>1. CASE ChangeTypes \/ Request
  BY <1>1 DEF ChangeTypes, Request, Matched, RightProvider
<1>2. CASE ~(ChangeTypes \/ Request)
  <2>1. UNCHANGED <<types, built>> /\ (phase = "between" => phase' = phase)
    BY <1>2 DEF ProviderNext, Prepared, RunEnds, Thread, Ask, Send, Written, WriteFits,
       TakesPrograms, BrokenPipe, ReceiveLine, Disconnected, Timeout, Join, Remember,
       Driver, Answer, Stray, Die, StderrEnds, providerVars, held
  <2> QED  BY <2>1 DEF RightProvider
<1> QED  BY <1>1, <1>2

LEMMA ProviderStarts == ProviderInit => IndInv
<1> SUFFICES ASSUME ProviderInit PROVE IndInv
  OBVIOUS
<1>1. InvHolder /\ InvAnswers /\ RightProvider
  BY DEF ProviderInit, InvHolder, InvAnswers, RightProvider
<1>2. InvOutstanding /\ InvFaults
  <2>1. Len(lines) = 0 /\ stdin = <<>> /\ \A t \in Threads : session # {t}
    BY DEF ProviderInit
  <2> QED  BY <2>1 DEF ProviderInit, InvOutstanding, InvFaults
<1> QED  BY <1>1, <1>2, ProviderTypeInit DEF IndInv

LEMMA ProviderInvariance == ProviderSpec => []IndInv
<1>1. IndInv /\ [ProviderNext]_providerVars => IndInv'
  BY ProviderTypeStep, HolderStep, OutstandingStep, AnswersStep, FaultsStep,
     RightProviderStep DEF IndInv
<1> QED  BY <1>1, ProviderStarts, PTL DEF ProviderSpec

\* Every reachable state of the provider, its driver and the session is well typed.
THEOREM ProviderTypes == ProviderSpec => []ProviderTypeOK
<1>1. IndInv => ProviderTypeOK
  BY DEF IndInv
<1> QED  BY <1>1, ProviderInvariance, PTL

\* No thread is ever given another request's answer, for any number of threads,
\* questions and stray lines (exchange's comparison of the echoed id).
THEOREM AnswersAreOwn == ProviderSpec => []OwnAnswer
<1>1. IndInv => OwnAnswer
  BY DEF IndInv, InvAnswers, OwnAnswer
<1> QED  BY <1>1, ProviderInvariance, PTL

\* Whoever takes the mutex of a live sidecar finds nothing of an earlier request in
\* it (`stop` on every path that leaves the protocol out of step).
THEOREM ProtocolInStep == ProviderSpec => []InStep
<1>1. IndInv => InStep
  <2> SUFFICES ASSUME IndInv, session = {} PROVE InStep
    BY DEF InStep
  <2>1. \A t \in Threads : session # {t}
    OBVIOUS
  <2>2. \A t \in Threads : call[t] # "sent"
    BY <2>1 DEF IndInv, InvHolder
  <2> QED  BY <2>2 DEF IndInv, InvOutstanding, InStep
<1> QED  BY <1>1, ProviderInvariance, PTL

\* An answer that a failure replaced is never without the failure on record
\* (`remember`).
THEOREM FailureIsKept == ProviderSpec => []FailureKept
<1>1. IndInv => FailureKept
  BY DEF IndInv, InvFaults, FailureKept
<1> QED  BY <1>1, ProviderInvariance, PTL

\* A failure on record is this run's, or that of a line left unread before it
\* (begin_run's reset, needs_rebuild).
THEOREM NothingCarriesOver == ProviderSpec => []NoCarryOver
<1>1. IndInv => NoCarryOver
  BY DEF IndInv, InvFaults, NoCarryOver
<1> QED  BY <1>1, ProviderInvariance, PTL

\* A run asks the provider that was built from its own configuration
\* (for_request_with).
THEOREM ProviderIsRight == ProviderSpec => []RightProvider
<1>1. IndInv => RightProvider
  BY DEF IndInv
<1> QED  BY <1>1, ProviderInvariance, PTL
=============================================================================
