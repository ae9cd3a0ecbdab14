----------------------------- MODULE MCWatchSync -----------------------------
EXTENDS WatchSync

\* A movie is item 101; a series has an episode in each of two seasons.
MCEpisodes == {101, 201}

\* The catalog is out of reach, the series has ended with its first season, or a
\* second one is announced.
MCCatalogs ==
  {NoCatalog,
   [ended |-> "yes", released |-> {101}, known |-> {101}],
   [ended |-> "no", released |-> {101}, known |-> MCEpisodes]}

Unlinked(media) == [NewRule(media) EXCEPT !.linked = FALSE, !.managed = FALSE]

\* A rule of the user's that a former version has disabled, none yet, and a
\* series rule whose floor somebody set to the start of season 2.
MCStarts ==
  {[Unlinked("movie") EXCEPT !.enabled = FALSE, !.legacy = TRUE],
   [Unlinked("movie") EXCEPT !.live = FALSE],
   [NewRule("series") EXCEPT !.season = 2, !.episode = 0]}

MCJellyfin ==
  {[present |-> FALSE, items |-> {}, watched |-> {}],
   [present |-> TRUE, items |-> {101}, watched |-> {101}],
   [present |-> TRUE, items |-> MCEpisodes, watched |-> {101}]}

MCStremio ==
  {[active |-> FALSE, bitfield |-> FALSE, watched |-> {}, playing |-> None],
   [active |-> TRUE, bitfield |-> FALSE, watched |-> {}, playing |-> None],
   [active |-> TRUE, bitfield |-> TRUE, watched |-> {101}, playing |-> 101]}

MCForms ==
  {[enabled |-> FALSE, keep |-> FALSE, floor |-> None],
   [enabled |-> TRUE, keep |-> TRUE, floor |-> 100]}
=============================================================================
