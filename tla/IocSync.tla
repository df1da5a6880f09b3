------------------------------ MODULE IocSync ------------------------------
(***************************************************************************)
(* The IOC feed synchronizer (crates/intel/src/lib.rs, IocSyncManager) and *)
(* the tasks of the API server that drive it (api/src/main.rs): the        *)
(* background task and each POST /intel/sync run sync_all_due, while       *)
(* POST /intel/sources replaces feed sources.                              *)
(*                                                                         *)
(* No lock is held across a fetch: a syncer picks the due sources, copies  *)
(* one source's url, fetches it (curl, 15 s at most), and then finds the   *)
(* source again by its name.                                               *)
(***************************************************************************)
EXTENDS Integers, Sequences, FiniteSets

CONSTANTS
  Names,     \* names of feed sources
  Urls,      \* their urls
  FileUrls,  \* the urls that are not http:// or https://
  Syncers,   \* tasks that run sync_all_due
  Items,     \* indicators
  Served,    \* what a url may serve: feed contents
  Intervals, \* values of refresh_interval_secs main registers sources with
  Posts,     \* sources clients post
  MaxTime,   \* bound: the clock
  Local,     \* the source the bundled file is loaded for (local_c2_feed)
  Bad,       \* a line load_from_str rejects, an item load_from_json skips
  Down       \* what a url that cannot be fetched serves

Never == -1  \* last_sync_time is None

\* IocFeedSource but for its name; all of it may come from a client.  error:
\* last_error is Some.
SourceType ==
  [url : Urls, enabled : BOOLEAN, interval : Nat, last : Nat \cup {Never}, count : Nat,
   error : BOOLEAN]

ASSUME PostsAssumption == Posts \subseteq SourceType

\* Feed texts: CSV lines or a JSON array; "garbled" text parses as neither.
Contents == [format : {"csv", "json", "garbled"}, lines : Seq(Items \cup {Bad})]

ASSUME ServedAssumption == Served \subseteq Contents
ASSUME NamesAssumption  == Local \in Names /\ FileUrls \subseteq Urls
ASSUME BadAssumption    == Bad \notin Items /\ Down \notin Contents
ASSUME TimeAssumption   == Intervals \subseteq Nat /\ MaxTime \in Nat

VARIABLES
  clock,    \* seconds
  serves,   \* what each url serves now: a content, or Down
  store,    \* IocStore: the indicators
  sources,  \* the feed sources, by name
  task,     \* each syncer: where it is and its local variables
  posted,   \* the sources whose last_sync_time is a client's, not a sync's (history)
  got       \* per source, what its last sync fetched, and when (history)

vars == <<clock, serves, store, sources, task, posted, got>>

\* A source as main registers it.
Source(u, interval) ==
  [url |-> u, enabled |-> TRUE, interval |-> interval, last |-> Never, count |-> 0,
   error |-> FALSE]

\* when: the clock when `answer` was fetched (history).
Idle ==
  [at |-> "idle", now |-> 0, due |-> {}, name |-> Local, url |-> "none", answer |-> Down,
   when |-> 0]

(***************************************************************************)
(* Loading a feed text into the store.                                     *)
(***************************************************************************)

\* The lines a load adds: CSV stops at the first bad line, JSON skips bad
\* items, a text that does not parse as JSON adds nothing.
Lines(c) ==
  CASE c.format = "csv"     -> {i \in 1 .. Len(c.lines) : \A k \in 1 .. i : c.lines[k] # Bad}
    [] c.format = "json"    -> {i \in 1 .. Len(c.lines) : c.lines[i] # Bad}
    [] c.format = "garbled" -> {}

Indicators(c) == {c.lines[i] : i \in Lines(c)}

LoadFails(c) ==
  \/ c.format = "garbled"
  \/ c.format = "csv" /\ Bad \in {c.lines[i] : i \in 1 .. Len(c.lines)}

-----------------------------------------------------------------------------
\* main registers the sources and loads the bundled file if it is there.
Init ==
  /\ clock = 0
  /\ serves \in [Urls -> {Down}]
  /\ task = [s \in Syncers |-> Idle]
  /\ posted = {}
  /\ \E from \in [Names -> Urls], every \in [Names -> Intervals], bundled \in Served \cup {Down} :
       LET first == [n \in Names |-> Source(from[n], every[n])]
           ok    == bundled # Down /\ ~ LoadFails(bundled)
       IN  /\ store = IF bundled = Down THEN {} ELSE Indicators(bundled)
           /\ sources = IF ok
                        THEN [first EXCEPT ![Local].last = 0,
                                           ![Local].count = Cardinality(Lines(bundled))]
                        ELSE first
           /\ got = [n \in Names |-> [text |-> bundled, when |-> 0]]

\* saturating_sub: a date in the future is no time ago.
Since(date, t) == IF t >= date THEN t - date ELSE 0

Stale(n, t) ==
  \/ sources[n].last = Never
  \/ Since(sources[n].last, t) >= sources[n].interval

\* Mutant of Due: a source that failed is left out.
Due_NotFailed(t) == {n \in Names : sources[n].enabled /\ ~ sources[n].error /\ Stale(n, t)}

\* sources_due_for_sync
Due(t) == {n \in Names : sources[n].enabled /\ Stale(n, t)}

\* sync_all_due starts: the due sources are a snapshot.
Begin(s) ==
  /\ task[s].at = "idle"
  /\ Due(clock) # {}
  /\ task' = [task EXCEPT ![s] = [Idle EXCEPT !.at = "pick", !.now = clock, !.due = Due(clock)]]
  /\ UNCHANGED <<clock, serves, store, sources, posted, got>>

\* sync_source copies the next due source.
Pick(s) ==
  /\ task[s].at = "pick"
  /\ \E n \in task[s].due :
       task' = [task EXCEPT ![s].at = "fetch", ![s].due = @ \ {n},
                            ![s].name = n, ![s].url = sources[n].url]
  /\ UNCHANGED <<clock, serves, store, sources, posted, got>>

Finish(s) ==
  /\ task[s].at = "pick"
  /\ task[s].due = {}
  /\ task' = [task EXCEPT ![s] = Idle]
  /\ UNCHANGED <<clock, serves, store, sources, posted, got>>

\* fetch_url: other schemes than http and https are refused.
Fetched(u) == IF u \in FileUrls THEN Down ELSE serves[u]

Fetch(s) ==
  /\ task[s].at = "fetch"
  /\ LET a == Fetched(task[s].url) IN
       task' = [task EXCEPT ![s].at = IF a = Down THEN "record" ELSE "apply", ![s].answer = a,
                            ![s].when = clock]
  /\ UNCHANGED <<clock, serves, store, sources, posted, got>>

\* A source after a load of content c that went through.
Synced(src, c, t) ==
  [src EXCEPT !.last = t, !.count = Cardinality(Lines(c)), !.error = FALSE]

\* What a task keeps when sync_source returns: its round.
Returned(r) == [Idle EXCEPT !.at = "pick", !.now = r.now, !.due = r.due]

\* Mutant of Apply: the result of the load is not looked at.
Apply_Unchecked(s) ==
  /\ task[s].at = "apply"
  /\ LET c == task[s].answer  n == task[s].name IN
       /\ store' = store \cup Indicators(c)
       /\ sources' = [sources EXCEPT ![n] = Synced(@, c, task[s].now)]
       /\ posted' = posted \ {n}
       /\ got' = [got EXCEPT ![n] = [text |-> c, when |-> task[s].when]]
       /\ task' = [task EXCEPT ![s] = Returned(@)]
  /\ UNCHANGED <<clock, serves>>

\* sync_source_data, under the store's lock: a failed load keeps what it added.
Apply(s) ==
  /\ task[s].at = "apply"
  /\ LET c == task[s].answer  n == task[s].name IN
       /\ store' = store \cup Indicators(c)
       /\ IF LoadFails(c)
          THEN /\ task' = [task EXCEPT ![s].at = "record"]
               /\ UNCHANGED <<sources, posted, got>>
          ELSE /\ sources' = [sources EXCEPT ![n] = Synced(@, c, task[s].now)]
               /\ posted' = posted \ {n}
               /\ got' = [got EXCEPT ![n] = [text |-> c, when |-> task[s].when]]
               /\ task' = [task EXCEPT ![s] = Returned(@)]
  /\ UNCHANGED <<clock, serves>>

\* Mutant of RecordError: a failed attempt counts as the source's sync.
RecordError_Dates(s) ==
  /\ task[s].at = "record"
  /\ sources' = [sources EXCEPT ![task[s].name].error = TRUE,
                                ![task[s].name].last = task[s].now]
  /\ task' = [task EXCEPT ![s] = Returned(@)]
  /\ UNCHANGED <<clock, serves, store, posted, got>>

\* The fetch or the load failed: last_error, and nothing else, is set.
RecordError(s) ==
  /\ task[s].at = "record"
  /\ sources' = [sources EXCEPT ![task[s].name].error = TRUE]
  /\ task' = [task EXCEPT ![s] = Returned(@)]
  /\ UNCHANGED <<clock, serves, store, posted, got>>

SyncerStep(s) == Begin(s) \/ Pick(s) \/ Finish(s) \/ Fetch(s) \/ Apply(s) \/ RecordError(s)

\* add_intel_source looks at the url's scheme only; add_source puts the source,
\* with whatever date, count, error and interval the client gave it, in the
\* place of the one of that name.
AddSource(n, src) ==
  /\ src.url \notin FileUrls
  /\ sources' = [sources EXCEPT ![n] = src]
  /\ posted' = IF src.last = Never THEN posted \ {n} ELSE posted \cup {n}
  /\ UNCHANGED <<clock, serves, store, task, got>>

\* The environment: a feed changes, goes down or comes up; time passes.
Serve(u, c) ==
  /\ u \notin FileUrls /\ serves[u] # c
  /\ serves' = [serves EXCEPT ![u] = c]
  /\ UNCHANGED <<clock, store, sources, task, posted, got>>

Tick ==
  /\ clock < MaxTime
  /\ clock' = clock + 1
  /\ UNCHANGED <<serves, store, sources, task, posted, got>>

Running ==
  \/ \E s \in Syncers : SyncerStep(s)
  \/ \E u \in Urls, c \in Served \cup {Down} : Serve(u, c)
  \/ Tick

Next ==
  \/ Running
  \/ \E n \in Names, src \in Posts : AddSource(n, src)

\* The runtime runs the tasks, and curl gives up after 15 seconds.
Spec == Init /\ [][Next]_vars /\ \A s \in Syncers : WF_vars(SyncerStep(s))

-----------------------------------------------------------------------------
(***************************************************************************)
(* Properties                                                              *)
(***************************************************************************)

\* Only a client can date a source in the future.
TypeOK ==
  /\ clock \in 0 .. MaxTime
  /\ serves \in [Urls -> Served \cup {Down}]
  /\ store \subseteq Items
  /\ sources \in [Names -> SourceType]
  /\ posted \subseteq Names
  /\ \A n \in Names \ posted : sources[n].last <= clock
  /\ \A s \in Syncers :
       /\ task[s].at \in {"idle", "pick", "fetch", "apply", "record"}
       /\ task[s].now \in 0 .. clock
       /\ task[s].due \subseteq Names /\ task[s].name \in Names
       /\ task[s].url \in Urls \cup {"none"}
       /\ task[s].answer \in Served \cup {Down}

\* The indices of the good lines of a text.
Good(c) == {i \in 1 .. Len(c.lines) : c.lines[i] # Bad}

\* A source that is not due, unless a client's date makes it so, shows a sync
\* that was fetched less than its interval ago, however long the fetch and its
\* round took, and loaded whole: every good line is counted and in the store,
\* and a CSV has no other lines.
FreshMeansLoaded ==
  \A n \in Names \ posted :
    ~ Stale(n, clock) =>
      LET c == got[n].text IN
      /\ clock - got[n].when < sources[n].interval
      /\ c # Down
      /\ \A i \in Good(c) : c.lines[i] \in store
      /\ sources[n].count = Cardinality(Good(c))
      /\ c.format = "csv" => Good(c) = 1 .. Len(c.lines)

\* A source that shows an error is stale, so the next round tries it again: an
\* attempt that failed never hides behind a sync that looks fresh.  Only a
\* client's date can make a source with an error look fresh.
ErrorMeansStale ==
  \A n \in Names \ posted : sources[n].error => Stale(n, clock)

\* What the url serves is fetched and loads.
Loads(u) == Fetched(u) # Down /\ ~ LoadFails(Fetched(u))

\* An enabled source that is not replaced any more, and whose url can be fetched
\* and serves a text that loads from some time on, is synced again whenever it
\* gets stale, even after errors.  (With an interval of 0 it is always stale.)
Recovers ==
  \A n \in Names :
    (<>[][Running]_vars /\ <>[] Loads(sources[n].url))
      => []<>(\/ ~ sources[n].enabled \/ sources[n].interval = 0
              \/ ~ Stale(n, clock))
=============================================================================
