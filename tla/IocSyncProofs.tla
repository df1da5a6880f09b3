--------------------------- MODULE IocSyncProofs ---------------------------
(***************************************************************************)
(* Proofs about IocSync for any sources, urls, feed texts, intervals,      *)
(* posts and clock.  FreshMeansLoaded is proved for any number of syncers, *)
(* ErrorMeansStale for one syncer: with two it is false.                   *)
(***************************************************************************)
EXTENDS IocSync, FiniteSetTheorems, TLAPS

Tasks ==
  [at : {"idle", "pick", "fetch", "apply", "record"}, now : Nat, due : SUBSET Names,
   name : Names, url : Urls \cup {"none"}, answer : Served \cup {Down}, when : Nat]

Got == [text : Served \cup {Down}, when : Nat]

\* src shows a sync of content g.text, fetched at g.when, that loaded into st.
Shows(src, g, st) ==
  /\ src.last <= g.when
  /\ g.text \in Served /\ ~ LoadFails(g.text)
  /\ Indicators(g.text) \subseteq st
  /\ src.count = Cardinality(Lines(g.text))

\* The types; what a task holds at each point, its fetch not before its round;
\* and what a source shows that was not dated by a client.
LoadInv ==
  /\ clock \in 0 .. MaxTime
  /\ serves \in [Urls -> Served \cup {Down}]
  /\ store \subseteq Items
  /\ sources \in [Names -> SourceType]
  /\ posted \subseteq Names
  /\ got \in [Names -> Got]
  /\ \A n \in Names \ posted :
       /\ sources[n].last <= clock
       /\ sources[n].last # Never => Shows(sources[n], got[n], store)
  /\ task \in [Syncers -> Tasks]
  /\ \A s \in Syncers :
       /\ task[s].now <= clock
       /\ task[s].at = "fetch" => task[s].url \in Urls
       /\ task[s].at = "apply" => task[s].answer \in Served /\ task[s].now <= task[s].when

-----------------------------------------------------------------------------
\* A load adds finitely many lines, and only indicators.
LEMMA LinesFinite ==
  ASSUME NEW c \in Contents
  PROVE  Cardinality(Lines(c)) \in Nat /\ Indicators(c) \subseteq Items
<1>1. Len(c.lines) \in Nat /\ c.lines \in Seq(Items \cup {Bad})
  BY DEF Contents
<1>2. Lines(c) \subseteq 1 .. Len(c.lines) /\ \A i \in Lines(c) : c.lines[i] # Bad
  <2>1. c.format \in {"csv", "json", "garbled"}
    BY DEF Contents
  <2>2. CASE c.format = "csv"
    BY <1>1, <2>2 DEF Lines
  <2>3. CASE c.format = "json"
    BY <1>1, <2>3 DEF Lines
  <2>4. CASE c.format = "garbled"
    BY <2>4 DEF Lines
  <2> QED
    BY <2>1, <2>2, <2>3, <2>4
<1>3. IsFiniteSet(1 .. Len(c.lines))
  BY <1>1, FS_Interval
<1>4. Cardinality(Lines(c)) \in Nat
  BY <1>2, <1>3, FS_Subset, FS_CardinalityType
<1>5. Indicators(c) \subseteq Items
  BY <1>1, <1>2 DEF Indicators
<1> QED
  BY <1>4, <1>5

\* A load that goes through adds every good line, and a CSV has no other.
LEMMA LoadsWhole ==
  ASSUME NEW c \in Contents, ~ LoadFails(c)
  PROVE  Lines(c) = Good(c) /\ (c.format = "csv" => Good(c) = 1 .. Len(c.lines))
<1>1. c.format \in {"csv", "json"}
  BY DEF Contents, LoadFails
<1>2. CASE c.format = "csv"
  <2>1. \A i \in 1 .. Len(c.lines) : c.lines[i] # Bad
    BY <1>2 DEF LoadFails
  <2>2. \A i \in 1 .. Len(c.lines) : \A k \in 1 .. i : k \in 1 .. Len(c.lines)
    BY DEF Contents
  <2>3. Lines(c) = 1 .. Len(c.lines)
    BY <1>2, <2>1, <2>2 DEF Lines
  <2>4. Good(c) = 1 .. Len(c.lines)
    BY <2>1 DEF Good
  <2> QED
    BY <2>3, <2>4
<1>3. CASE c.format = "json"
  BY <1>3 DEF Lines, Good
<1> QED
  BY <1>1, <1>2, <1>3

LEMMA IdleTask == Local \in Names => Idle \in Tasks
BY DEF Idle, Tasks

LEMMA ReturnedTask ==
  ASSUME NEW t \in Tasks, Local \in Names
  PROVE  /\ Returned(t) \in Tasks /\ Returned(t).at = "pick"
         /\ Returned(t).now = t.now /\ Returned(t).due = t.due
BY DEF Returned, Idle, Tasks

\* What a source shows stays in a store that only grows.
LEMMA ShowsInMore ==
  ASSUME NEW src, NEW g, NEW st, NEW st1, st \subseteq st1, Shows(src, g, st)
  PROVE  Shows(src, g, st1)
BY DEF Shows

LEMMA LoadInit == Init => LoadInv
<1> SUFFICES ASSUME Init PROVE LoadInv
  OBVIOUS
<1>1. PICK from \in [Names -> Urls], every \in [Names -> Intervals], bundled \in Served \cup {Down} :
        LET first == [n \in Names |-> Source(from[n], every[n])]
            ok    == bundled # Down /\ ~ LoadFails(bundled)
        IN  /\ store = IF bundled = Down THEN {} ELSE Indicators(bundled)
            /\ sources = IF ok
                         THEN [first EXCEPT ![Local].last = 0,
                                            ![Local].count = Cardinality(Lines(bundled))]
                         ELSE first
            /\ got = [n \in Names |-> [text |-> bundled, when |-> 0]]
  BY DEF Init
<1>2. bundled # Down => Cardinality(Lines(bundled)) \in Nat /\ Indicators(bundled) \subseteq Items
  BY LinesFinite, ServedAssumption
<1>3. \A n \in Names : /\ Source(from[n], every[n]) \in SourceType
                       /\ Source(from[n], every[n]).last = Never
  BY TimeAssumption DEF Source, SourceType, Never
<1>4. store \subseteq Items
  BY <1>1, <1>2
<1>5. got \in [Names -> Got] /\ \A n \in Names : got[n].text = bundled /\ got[n].when = 0
  BY <1>1 DEF Got
<1>6. /\ sources \in [Names -> SourceType]
      /\ \A n \in Names : /\ sources[n].last <= 0
                          /\ sources[n].last # Never => Shows(sources[n], got[n], store)
  <2> DEFINE first == [n \in Names |-> Source(from[n], every[n])]
             more  == [first EXCEPT ![Local].last = 0,
                                    ![Local].count = Cardinality(Lines(bundled))]
  <2>1. first \in [Names -> SourceType] /\ \A n \in Names : first[n].last = Never
    BY <1>3
  <2>2. ASSUME bundled # Down, ~ LoadFails(bundled), sources = more
        PROVE  /\ more \in [Names -> SourceType]
               /\ \A n \in Names : /\ more[n].last <= 0
                                   /\ more[n].last # Never => Shows(more[n], got[n], store)
    <3>1. first[Local] \in SourceType
      BY <2>1, NamesAssumption
    <3> DEFINE one == [[first[Local] EXCEPT !.last = 0] EXCEPT !.count = Cardinality(Lines(bundled))]
    <3>2. one \in SourceType /\ one.last = 0 /\ one.count = Cardinality(Lines(bundled))
      BY <1>2, <2>2, <3>1 DEF SourceType
    <3>3. more = [first EXCEPT ![Local] = one]
      BY <2>1, <3>1, Zenon DEF SourceType
    <3>4. store = Indicators(bundled) /\ bundled \in Served
      BY <1>1, <2>2
    <3>5. Shows(one, got[Local], store)
      <4> HIDE DEF one
      <4> QED
        BY <1>5, <2>2, <3>2, <3>4, NamesAssumption DEF Shows
    <3> HIDE DEF first, one
    <3>6. [first EXCEPT ![Local] = one] \in [Names -> SourceType]
      BY <2>1, <3>2
    <3>7. \A n \in Names : [first EXCEPT ![Local] = one][n] = IF n = Local THEN one ELSE first[n]
      BY <2>1
    <3> HIDE DEF more
    <3>8. \A n \in Names : (more[n] = one /\ n = Local) \/ more[n].last = Never
      BY <2>1, <3>3, <3>7
    <3> QED
      BY <3>2, <3>3, <3>5, <3>6, <3>8 DEF Never
  <2>3. sources = first \/ (bundled # Down /\ ~ LoadFails(bundled) /\ sources = more)
    BY <1>1
  <2>4. CASE sources = first
    <3> HIDE DEF first
    <3> QED
      BY <2>1, <2>4 DEF Never
  <2>5. CASE bundled # Down /\ ~ LoadFails(bundled) /\ sources = more
    <3> HIDE DEF more
    <3> QED
      BY <2>2, <2>5
  <2> QED
    BY <2>3, <2>4, <2>5
<1>7. task \in [Syncers -> Tasks] /\ \A s \in Syncers : task[s] = Idle
  BY IdleTask, NamesAssumption DEF Init
<1>8. clock = 0 /\ serves \in [Urls -> Served \cup {Down}] /\ posted = {}
  BY DEF Init
<1>9. clock \in 0 .. MaxTime /\ posted \subseteq Names
  BY <1>8, TimeAssumption
<1>10. \A s \in Syncers : /\ task[s].now <= clock
                          /\ task[s].at \notin {"fetch", "apply"}
  BY <1>7, <1>8 DEF Idle
<1>11. \A n \in Names \ posted : /\ sources[n].last <= clock
                                 /\ sources[n].last # Never => Shows(sources[n], got[n], store)
  BY <1>6, <1>8
<1> QED
  BY <1>4, <1>5, <1>6, <1>7, <1>8, <1>9, <1>10, <1>11 DEF LoadInv

LEMMA LoadStep == LoadInv /\ [Next]_vars => LoadInv'
<1> SUFFICES ASSUME LoadInv, [Next]_vars PROVE LoadInv'
  OBVIOUS
<1> USE DEF LoadInv
<1>t. \A s \in Syncers : task[s] \in Tasks
  OBVIOUS
<1>1. ASSUME NEW s \in Syncers, Begin(s) PROVE LoadInv'
  <2>0. Due(clock) \subseteq Names /\ clock \in Nat
    BY TimeAssumption DEF Due
  <2>1. [Idle EXCEPT !.at = "pick", !.now = clock, !.due = Due(clock)] \in Tasks
    BY <2>0, IdleTask, NamesAssumption DEF Tasks
  <2> QED
    BY <1>1, <2>1 DEF Begin, Idle
<1>2. ASSUME NEW s \in Syncers, Pick(s) PROVE LoadInv'
  <2>1. PICK n \in task[s].due :
          task' = [task EXCEPT ![s].at = "fetch", ![s].due = @ \ {n},
                               ![s].name = n, ![s].url = sources[n].url]
    BY <1>2 DEF Pick
  <2>2. n \in Names /\ sources[n].url \in Urls
    BY <1>t DEF Tasks, SourceType
  <2> DEFINE t == [task[s] EXCEPT !.at = "fetch", !.due = @ \ {n},
                                  !.name = n, !.url = sources[n].url]
  <2>3. t \in Tasks /\ t.at = "fetch" /\ t.now = task[s].now /\ t.url \in Urls
    BY <1>t, <2>2 DEF Tasks
  <2>4. task' = [task EXCEPT ![s] = t]
    BY <1>t, <2>1, Zenon DEF Tasks
  <2> HIDE DEF t
  <2> QED
    BY <1>2, <2>3, <2>4 DEF Pick
<1>3. ASSUME NEW s \in Syncers, Finish(s) PROVE LoadInv'
  <2>1. Idle \in Tasks
    BY IdleTask, NamesAssumption
  <2> QED
    BY <1>3, <2>1, TimeAssumption DEF Finish, Idle
<1>4. ASSUME NEW s \in Syncers, Fetch(s) PROVE LoadInv'
  <2> DEFINE a == Fetched(task[s].url)
  <2>1. a \in Served \cup {Down}
    BY <1>4 DEF Fetch, Fetched
  <2>2. task' = [task EXCEPT ![s].at = IF a = Down THEN "record" ELSE "apply", ![s].answer = a,
                             ![s].when = clock]
    BY <1>4 DEF Fetch
  <2> HIDE DEF a
  <2> DEFINE at == IF a = Down THEN "record" ELSE "apply"
             t  == [task[s] EXCEPT !.at = at, !.answer = a, !.when = clock]
  <2>3. at \in {"record", "apply"} /\ (at = "apply" => a # Down)
    OBVIOUS
  <2>4. task' = [task EXCEPT ![s] = t]
    BY <1>t, <2>2, Zenon DEF Tasks
  <2> HIDE DEF at
  <2>5. clock \in Nat /\ task[s] \in Tasks
    BY <1>t, TimeAssumption
  <2>6. /\ t \in Tasks /\ t.at = at /\ t.now = task[s].now /\ t.answer = a
        /\ t.when = clock
    BY <2>1, <2>3, <2>5 DEF Tasks
  <2> HIDE DEF t
  <2>7. UNCHANGED <<clock, serves, store, sources, posted, got>>
    BY <1>4 DEF Fetch
  <2>8. /\ task' \in [Syncers -> Tasks]
        /\ \A r \in Syncers \ {s} : task'[r] = task[r]
        /\ task'[s] = t
    BY <2>4, <2>6
  <2>9. t.now <= clock /\ (t.at = "apply" => t.answer \in Served /\ t.now <= t.when) /\ t.at # "fetch"
    BY <2>1, <2>3, <2>6
  <2> QED
    BY <2>7, <2>8, <2>9
<1>5. ASSUME NEW s \in Syncers, Apply(s) PROVE LoadInv'
  <2> DEFINE c == task[s].answer
             n == task[s].name
             g == [text |-> c, when |-> task[s].when]
  <2>1. /\ c \in Contents /\ c \in Served /\ n \in Names /\ task[s].now \in Nat
        /\ task[s].now <= clock /\ task[s].now <= task[s].when /\ g \in Got
    BY <1>5, <1>t, ServedAssumption DEF Apply, Tasks, Got
  <2>2. Cardinality(Lines(c)) \in Nat /\ Indicators(c) \subseteq Items
    BY <2>1, LinesFinite
  <2>3. store' = store \cup Indicators(c) /\ UNCHANGED <<clock, serves>>
    BY <1>5 DEF Apply
  <2>4. /\ task' \in [Syncers -> Tasks]
        /\ \A r \in Syncers : /\ task'[r].now = task[r].now
                              /\ task'[r].at \in {"fetch", "apply"} => task'[r] = task[r]
    <3>1. PICK t : /\ t = [task[s] EXCEPT !.at = "record"] \/ t = Returned(task[s])
                   /\ task' = [task EXCEPT ![s] = t]
      BY <1>5 DEF Apply
    <3>2. t \in Tasks /\ t.at \in {"record", "pick"} /\ t.now = task[s].now
      BY <1>t, <3>1, ReturnedTask, NamesAssumption DEF Tasks
    <3> QED
      BY <3>1, <3>2
  <2>5. \A src, h : Shows(src, h, store) => Shows(src, h, store')
    BY <2>3, ShowsInMore
  <2>6. CASE LoadFails(c)
    <3>1. UNCHANGED <<sources, posted, got>>
      BY <1>5, <2>6 DEF Apply
    <3> QED
      BY <2>2, <2>3, <2>4, <2>5, <3>1
  <2>7. CASE ~ LoadFails(c)
    <3> DEFINE src == Synced(sources[n], c, task[s].now)
    <3>1. /\ sources' = [sources EXCEPT ![n] = src]
          /\ got' = [got EXCEPT ![n] = g]
          /\ posted' = posted \ {n}
      BY <1>5, <2>7 DEF Apply
    <3>2. src \in SourceType /\ src.last = task[s].now /\ src.count = Cardinality(Lines(c))
      BY <2>1, <2>2 DEF Synced, SourceType
    <3>3. Shows(src, g, store')
      <4> HIDE DEF src
      <4> QED
        BY <2>1, <2>3, <2>7, <3>2 DEF Shows
    <3> HIDE DEF src, c, n, g
    <3>4. sources' \in [Names -> SourceType] /\ got' \in [Names -> Got] /\ posted' \subseteq Names
      BY <2>1, <3>1, <3>2
    <3>5. ASSUME NEW m \in Names \ posted'
          PROVE  /\ sources'[m].last <= clock
                 /\ sources'[m].last # Never => Shows(sources'[m], got'[m], store')
      <4>1. CASE m = n
        BY <2>1, <3>1, <3>2, <3>3, <4>1
      <4>2. CASE m # n
        <5>1. sources'[m] = sources[m] /\ got'[m] = got[m] /\ m \in Names \ posted
          BY <3>1, <4>2
        <5> QED
          BY <2>5, <5>1
      <4> QED
        BY <4>1, <4>2
    <3> QED
      BY <2>2, <2>3, <2>4, <3>4, <3>5
  <2> QED
    BY <2>6, <2>7
<1>6. ASSUME NEW s \in Syncers, RecordError(s) PROVE LoadInv'
  <2>1. task[s].name \in Names
    BY <1>t DEF Tasks
  <2>2. /\ sources' \in [Names -> SourceType]
        /\ \A m \in Names : /\ sources'[m].last = sources[m].last
                            /\ sources'[m].count = sources[m].count
    <3> DEFINE n   == task[s].name
               src == [sources[n] EXCEPT !.error = TRUE]
    <3>1. sources[n] \in SourceType
      BY <2>1
    <3>2. src \in SourceType /\ src.last = sources[n].last /\ src.count = sources[n].count
      BY <3>1 DEF SourceType
    <3>3. sources' = [sources EXCEPT ![n] = src]
      BY <1>6, Zenon DEF RecordError
    <3> HIDE DEF n, src
    <3> QED
      BY <3>2, <3>3
  <2>3. UNCHANGED <<clock, serves, store, posted, got>>
    BY <1>6 DEF RecordError
  <2>4. /\ task' \in [Syncers -> Tasks]
        /\ \A r \in Syncers : /\ task'[r].now = task[r].now
                              /\ task'[r].at \in {"fetch", "apply"} => task'[r] = task[r]
    <3>1. task' = [task EXCEPT ![s] = Returned(task[s])]
      BY <1>6 DEF RecordError
    <3> QED
      BY <1>t, <3>1, ReturnedTask, NamesAssumption
  <2>5. \A m \in Names : Shows(sources[m], got[m], store) => Shows(sources'[m], got'[m], store')
    BY <2>2, <2>3 DEF Shows
  <2> QED
    BY <2>2, <2>3, <2>4, <2>5
<1>7. ASSUME NEW n \in Names, NEW src \in Posts, AddSource(n, src) PROVE LoadInv'
  <2>1. src \in SourceType
    BY PostsAssumption
  <2>2. /\ sources' = [sources EXCEPT ![n] = src]
        /\ posted' = IF src.last = Never THEN posted \ {n} ELSE posted \cup {n}
        /\ UNCHANGED <<clock, serves, store, task, got>>
    BY <1>7 DEF AddSource
  <2>3. sources' \in [Names -> SourceType] /\ posted' \subseteq Names
    BY <2>1, <2>2
  <2>4. ASSUME NEW m \in Names \ posted'
        PROVE  /\ sources'[m].last <= clock
               /\ sources'[m].last # Never => Shows(sources'[m], got[m], store)
    <3>1. CASE m = n
      <4>1. sources'[m].last = Never
        BY <2>2, <3>1
      <4> QED
        BY <4>1, TimeAssumption DEF Never
    <3>2. CASE m # n
      <4>1. sources'[m] = sources[m] /\ m \in Names \ posted
        BY <2>2, <3>2
      <4> QED
        BY <4>1
    <3> QED
      BY <3>1, <3>2
  <2> QED
    BY <2>2, <2>3, <2>4
<1>8. ASSUME NEW u \in Urls, NEW c \in Served \cup {Down}, Serve(u, c) PROVE LoadInv'
  BY <1>8 DEF Serve
<1>9. CASE Tick
  <2>1. clock' = clock + 1 /\ clock' \in 0 .. MaxTime
    BY <1>9, TimeAssumption DEF Tick
  <2>2. \A n \in Names \ posted : sources[n].last <= clock'
    BY <2>1, TimeAssumption DEF SourceType, Never
  <2>3. \A s \in Syncers : task[s].now <= clock'
    BY <1>t, <2>1, TimeAssumption DEF Tasks
  <2> QED
    BY <1>9, <2>1, <2>2, <2>3 DEF Tick
<1>10. CASE UNCHANGED vars
  BY <1>10 DEF vars
<1> QED
  BY <1>1, <1>2, <1>3, <1>4, <1>5, <1>6, <1>7, <1>8, <1>9, <1>10 DEF Next, Running, SyncerStep

-----------------------------------------------------------------------------
\* The synchronizer's state has its types, and only a client's post can date a
\* source in the future.
THEOREM TypeCorrect == Spec => []TypeOK
<1>1. LoadInv => TypeOK
  BY TimeAssumption DEF LoadInv, TypeOK, Tasks
<1> QED
  BY LoadInit, LoadStep, <1>1, PTL DEF Spec

\* A source that is not due, and was not posted so, shows a sync fetched less
\* than its interval ago that loaded whole: sync_source_data, sources_due_for_sync.
THEOREM FreshIsLoaded == Spec => []FreshMeansLoaded
<1>1. LoadInv => FreshMeansLoaded
  <2> SUFFICES ASSUME LoadInv, NEW n \in Names \ posted, ~ Stale(n, clock)
               PROVE  /\ clock - got[n].when < sources[n].interval
                      /\ got[n].text # Down
                      /\ \A i \in Good(got[n].text) : got[n].text.lines[i] \in store
                      /\ sources[n].count = Cardinality(Good(got[n].text))
                      /\ got[n].text.format = "csv" =>
                           Good(got[n].text) = 1 .. Len(got[n].text.lines)
    BY DEF FreshMeansLoaded
  <2>1. sources[n].last # Never /\ ~ (Since(sources[n].last, clock) >= sources[n].interval)
    BY DEF Stale
  <2>2. /\ sources[n].last \in Nat /\ sources[n].interval \in Nat /\ clock \in Nat
        /\ got[n].when \in Nat /\ sources[n].last <= clock
        /\ Shows(sources[n], got[n], store)
    BY <2>1, TimeAssumption DEF LoadInv, SourceType, Got
  <2>3. clock - got[n].when < sources[n].interval
    BY <2>1, <2>2 DEF Since, Shows
  <2> DEFINE c == got[n].text
  <2>4. /\ c \in Contents /\ ~ LoadFails(c) /\ c # Down
        /\ Indicators(c) \subseteq store /\ sources[n].count = Cardinality(Lines(c))
    BY <2>2, ServedAssumption, BadAssumption DEF Shows
  <2> HIDE DEF c
  <2>5. Lines(c) = Good(c) /\ (c.format = "csv" => Good(c) = 1 .. Len(c.lines))
    BY <2>4, LoadsWhole
  <2>6. \A i \in Good(c) : c.lines[i] \in store
    BY <2>4, <2>5 DEF Indicators
  <2> QED
    BY <2>3, <2>4, <2>5, <2>6 DEF c
<1> QED
  BY LoadInit, LoadStep, <1>1, PTL DEF Spec

-----------------------------------------------------------------------------
\* What a round still has to do is stale, and so is what failed, unless a client
\* dated it meanwhile.
RoundInv ==
  /\ \A n \in Names \ posted : sources[n].error => Stale(n, clock)
  /\ \A s \in Syncers :
       /\ task[s].at # "idle" => \A n \in task[s].due \ posted : Stale(n, clock)
       /\ task[s].at \in {"fetch", "apply", "record"} =>
            /\ task[s].name \notin task[s].due
            /\ task[s].name \notin posted => Stale(task[s].name, clock)

\* A source stays stale as long as its date stands, whatever time passes.
LEMMA StaysStale ==
  ASSUME LoadInv, LoadInv', clock <= clock', NEW n \in Names, Stale(n, clock),
         sources'[n].last = sources[n].last, sources'[n].interval = sources[n].interval
  PROVE  Stale(n, clock)'
<1>1. clock \in Nat /\ clock' \in Nat
  BY TimeAssumption DEF LoadInv
<1>2. sources[n].last \in Nat \cup {Never} /\ sources[n].interval \in Nat
  BY DEF LoadInv, SourceType
<1> QED
  BY <1>1, <1>2 DEF Stale, Since, Never

\* A step that dates no source but by a client and moves no round on keeps RoundInv.
LEMMA RoundStands ==
  ASSUME LoadInv, LoadInv', RoundInv, clock <= clock', task' = task,
         \A n \in Names : \/ sources'[n] = sources[n] /\ (n \in posted => n \in posted')
                          \/ sources'[n].last = Never
                          \/ n \in posted'
  PROVE  RoundInv'
<1>1. \A n \in Names \ posted' :
        \/ sources'[n] = sources[n] /\ n \notin posted /\ (Stale(n, clock) => Stale(n, clock)')
        \/ Stale(n, clock)'
  BY StaysStale DEF Stale
<1>2. \A s \in Syncers : task[s].name \in Names /\ task[s].due \subseteq Names
  BY DEF LoadInv, Tasks
<1> QED
  BY <1>1, <1>2 DEF RoundInv

LEMMA RoundStep ==
  ASSUME \A s, r \in Syncers : s = r, LoadInv, LoadInv', RoundInv, [Next]_vars
  PROVE  RoundInv'
<1>0. clock \in Nat
  BY TimeAssumption DEF LoadInv
<1>t. \A s \in Syncers : task[s] \in Tasks
  BY DEF LoadInv
<1>1. ASSUME NEW s \in Syncers, Begin(s) PROVE RoundInv'
  <2>1. /\ task'[s].at = "pick" /\ task'[s].due = Due(clock)
        /\ UNCHANGED <<clock, sources, posted>>
    BY <1>1 DEF Begin, LoadInv, Idle
  <2>2. \A n \in Names : Stale(n, clock)' <=> Stale(n, clock)
    BY <2>1 DEF Stale
  <2> QED
    BY <2>1, <2>2 DEF RoundInv, Due
<1>2. ASSUME NEW s \in Syncers, Pick(s) PROVE RoundInv'
  <2>1. PICK n \in task[s].due :
          task' = [task EXCEPT ![s].at = "fetch", ![s].due = @ \ {n},
                               ![s].name = n, ![s].url = sources[n].url]
    BY <1>2 DEF Pick
  <2> DEFINE t == [task[s] EXCEPT !.at = "fetch", !.due = @ \ {n},
                                  !.name = n, !.url = sources[n].url]
  <2>2. t.at = "fetch" /\ t.name = n /\ t.due = task[s].due \ {n}
    BY <1>t DEF Tasks
  <2>3. task' = [task EXCEPT ![s] = t]
    BY <1>t, <2>1, Zenon DEF Tasks
  <2> HIDE DEF t
  <2>4. task'[s] = t
    BY <2>3 DEF LoadInv
  <2>5. UNCHANGED <<clock, sources, posted>> /\ task[s].at = "pick"
    BY <1>2 DEF Pick
  <2>6. \A m \in Names : Stale(m, clock)' <=> Stale(m, clock)
    BY <2>5 DEF Stale
  <2>7. task[s].due \subseteq Names
    BY <1>t DEF Tasks
  <2> QED
    BY <2>2, <2>4, <2>5, <2>6, <2>7 DEF RoundInv
<1>3. ASSUME NEW s \in Syncers, Finish(s) PROVE RoundInv'
  <2>1. task'[s].at = "idle" /\ UNCHANGED <<clock, sources, posted>>
    BY <1>3 DEF Finish, LoadInv, Idle
  <2>2. \A n \in Names : Stale(n, clock)' <=> Stale(n, clock)
    BY <2>1 DEF Stale
  <2> QED
    BY <2>1, <2>2 DEF RoundInv
<1>4. ASSUME NEW s \in Syncers, Fetch(s) PROVE RoundInv'
  <2> DEFINE a  == Fetched(task[s].url)
             at == IF a = Down THEN "record" ELSE "apply"
             t  == [task[s] EXCEPT !.at = at, !.answer = a, !.when = clock]
  <2>1. task' = [task EXCEPT ![s] = t]
    BY <1>4, <1>t, Zenon DEF Fetch, Tasks
  <2> HIDE DEF at
  <2>2. t.at = at /\ t.name = task[s].name /\ t.due = task[s].due
    BY <1>t DEF Tasks
  <2> HIDE DEF t
  <2>3. task'[s] = t
    BY <2>1 DEF LoadInv
  <2>4. UNCHANGED <<clock, sources, posted>> /\ task[s].at = "fetch"
    BY <1>4 DEF Fetch
  <2>5. \A m \in Names : Stale(m, clock)' <=> Stale(m, clock)
    BY <2>4 DEF Stale
  <2>6. task[s].due \subseteq Names /\ task[s].name \in Names
    BY <1>t DEF Tasks
  <2> QED
    BY <2>2, <2>3, <2>4, <2>5, <2>6 DEF RoundInv
<1>5. ASSUME NEW s \in Syncers, Apply(s) PROVE RoundInv'
  <2> DEFINE c == task[s].answer
             n == task[s].name
  <2>1. /\ n \in Names /\ task[s].due \subseteq Names /\ n \notin task[s].due
        /\ task[s].at = "apply" /\ clock' = clock
    BY <1>5, <1>t DEF Apply, Tasks, RoundInv
  <2>2. \A m \in Names : sources'[m] = sources[m] => (Stale(m, clock)' <=> Stale(m, clock))
    BY <2>1 DEF Stale
  <2>3. CASE LoadFails(c)
    <3>1. /\ sources' = sources /\ posted' = posted
          /\ task' = [task EXCEPT ![s].at = "record"]
      BY <1>5, <2>3 DEF Apply
    <3>2. task'[s].name = n /\ task'[s].due = task[s].due
      BY <1>t, <3>1 DEF Tasks, LoadInv
    <3> QED
      BY <2>1, <2>2, <3>1, <3>2 DEF RoundInv
  <2>4. CASE ~ LoadFails(c)
    <3>1. /\ sources' = [sources EXCEPT ![n] = Synced(@, c, task[s].now)]
          /\ posted' = posted \ {n}
          /\ task' = [task EXCEPT ![s] = Returned(task[s])]
      BY <1>5, <2>4 DEF Apply
    <3>2. task'[s].at = "pick" /\ task'[s].due = task[s].due
      BY <1>t, <3>1, ReturnedTask, NamesAssumption DEF LoadInv
    <3>3. ~ sources'[n].error /\ \A m \in Names \ {n} : sources'[m] = sources[m]
      BY <2>1, <3>1 DEF Synced, LoadInv, SourceType
    <3> QED
      BY <2>1, <2>2, <3>1, <3>2, <3>3 DEF RoundInv
  <2> QED
    BY <2>3, <2>4
<1>6. ASSUME NEW s \in Syncers, RecordError(s) PROVE RoundInv'
  <2> DEFINE n == task[s].name
  <2>1. /\ n \in Names /\ task[s].due \subseteq Names
        /\ task[s].at = "record" /\ clock' = clock /\ posted' = posted
    BY <1>6, <1>t DEF RecordError, Tasks
  <2>2. /\ \A m \in Names : /\ sources'[m].last = sources[m].last
                            /\ sources'[m].interval = sources[m].interval
        /\ \A m \in Names \ {n} : sources'[m] = sources[m]
    BY <1>6, <2>1 DEF RecordError, LoadInv, SourceType
  <2>3. \A m \in Names : Stale(m, clock)' <=> Stale(m, clock)
    BY <2>1, <2>2 DEF Stale
  <2>4. task'[s].at = "pick" /\ task'[s].due = task[s].due
    BY <1>6, <1>t, ReturnedTask, NamesAssumption DEF RecordError, LoadInv
  <2> QED
    BY <2>1, <2>2, <2>3, <2>4 DEF RoundInv
<1>7. ASSUME NEW n \in Names, NEW src \in Posts, AddSource(n, src) PROVE RoundInv'
  <2>1. /\ sources' = [sources EXCEPT ![n] = src] /\ UNCHANGED <<clock, task>>
        /\ posted' = IF src.last = Never THEN posted \ {n} ELSE posted \cup {n}
    BY <1>7 DEF AddSource
  <2>2. \A m \in Names : \/ sources'[m] = sources[m] /\ (m \in posted => m \in posted')
                         \/ sources'[m].last = Never
                         \/ m \in posted'
    BY <2>1 DEF LoadInv
  <2> QED
    BY <1>0, <2>1, <2>2, RoundStands
<1>8. CASE Tick \/ UNCHANGED vars \/ \E u \in Urls, c \in Served \cup {Down} : Serve(u, c)
  <2>1. UNCHANGED <<sources, posted, task>> /\ clock <= clock'
    BY <1>0, <1>8 DEF Tick, Serve, vars
  <2> QED
    BY <2>1, RoundStands
<1> QED
  BY <1>1, <1>2, <1>3, <1>4, <1>5, <1>6, <1>7, <1>8 DEF Next, Running, SyncerStep

LEMMA RoundInit == Init => RoundInv
<1> SUFFICES ASSUME Init PROVE RoundInv
  OBVIOUS
<1>1. \A n \in Names : ~ sources[n].error
  BY DEF Init, Source
<1>2. \A s \in Syncers : task[s].at = "idle"
  BY DEF Init, Idle
<1> QED
  BY <1>1, <1>2 DEF RoundInv

\* With one syncer a source that shows an error is due and is tried again, unless
\* a client gave it its date: last_error and last_sync_time.
THEOREM ErrorsAreStale ==
  ASSUME \A s, r \in Syncers : s = r
  PROVE  Spec => []ErrorMeansStale
<1>1. Init => LoadInv /\ RoundInv
  BY LoadInit, RoundInit
<1>2. LoadInv /\ RoundInv /\ [Next]_vars => LoadInv' /\ RoundInv'
  BY LoadStep, RoundStep
<1>3. RoundInv => ErrorMeansStale
  BY DEF RoundInv, ErrorMeansStale
<1> QED
  BY <1>1, <1>2, <1>3, PTL DEF Spec
=============================================================================
