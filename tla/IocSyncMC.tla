----------------------------- MODULE IocSyncMC -----------------------------
(***************************************************************************)
(* Feed texts for IocSync: a CSV that loads, one that breaks off halfway,  *)
(* a JSON array with an item that is skipped, and a text that is neither;  *)
(* and sources clients post: as main registers them, disabled, dated in    *)
(* the past or the future, with a count and an error, to be refreshed in   *)
(* every round or not.                                                     *)
(***************************************************************************)
EXTENDS IocSync

CONSTANTS i1, i2

AllTexts ==
  { [format |-> "csv",     lines |-> <<i1>>],
    [format |-> "csv",     lines |-> <<i2, Bad, i1>>],
    [format |-> "json",    lines |-> <<Bad, i2>>],
    [format |-> "garbled", lines |-> <<>>] }

FewTexts ==
  { [format |-> "csv", lines |-> <<i1>>],
    [format |-> "csv", lines |-> <<i2, Bad, i1>>] }

FewPosts == {Source(u, 2) : u \in Urls}

\* A source as a client posts it that says more than where the feed is.
Told(u, interval, last, error) ==
  [Source(u, interval) EXCEPT !.last = last, !.count = 9, !.error = error]

AllPosts ==
  FewPosts \cup
    UNION {{[Source(u, 2) EXCEPT !.enabled = FALSE], Told(u, 2, 1, TRUE),
            Told(u, 2, MaxTime + 1, TRUE), Told(u, 0, 1, FALSE)} : u \in Urls \ FileUrls}
=============================================================================
