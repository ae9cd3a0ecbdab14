----------------------------- MODULE WatchState -----------------------------
(***************************************************************************)
(* The shared arbitration of watch state (app/services/watch_state.py):    *)
(* what one provider's episodes say about the floor of a rule, and what    *)
(* the completion evidence of all providers says about its being enabled.  *)
(*                                                                         *)
(* An episode key "SxxEyy" is the number 100 * xx + yy: both parts have    *)
(* two digits, so the order of the numbers is the order of the tuples the  *)
(* code compares.  Lists of keys, which the code sorts and deduplicates    *)
(* wherever it stores them, are sets.                                      *)
(***************************************************************************)
EXTENDS Integers, FiniteSetsExt

None == -1     \* Python's None for an episode or a floor
Episode == 0 .. 9999
Floor == Episode \cup {None}

Season(e) == e \div 100
Number(e) == e % 100

Sources == {"jellyfin", "stremio"}   \* the labels of WatchStateSource

\* latest_watch_state_episode_tuple.
Latest(episodes) == IF episodes = {} THEN None ELSE Max(episodes)

\* floor_tuple: a floor needs both columns.
FloorOf(season, number) ==
  IF season = None \/ number = None THEN None ELSE 100 * season + number

\* increment_floor saturates at S99E99.
IncrementFloor(e) ==
  IF Number(e) < 99 THEN e + 1
  ELSE IF Season(e) < 99 THEN 100 * (Season(e) + 1) + 1
  ELSE e

-----------------------------------------------------------------------------
\* derive_watch_state_floor, for a source that knows of some episode (with none
\* known the code returns None).  An episode is unseen when it comes after the
\* last watched one, whatever was skipped before it.
DeriveFloor(current, currentWatched, rememberedKnown, rememberedWatched) ==
  LET known   == rememberedKnown \cup current
      watched == rememberedWatched \cup currentWatched
      unseen  == {e \in current : e > Latest(watched)}
  IN [known |-> known,
      watched |-> watched,
      unseen |-> unseen,
      watchedNext |-> IF watched = {} THEN None
                      ELSE IF unseen # {} THEN Min(unseen)
                      ELSE IncrementFloor(Latest(watched)),
      knownNext |-> IncrementFloor(Latest(known))]

\* The floor a source asks for: the first unseen episode when the rule keeps
\* searching them or the source is Stremio, else the one after all known ones.
ProposedFloor(derived, keep, source) ==
  IF derived.watchedNext # None /\ (keep \/ source = "stremio")
  THEN derived.watchedNext
  ELSE derived.knownNext

\* The one rollback every source may make: from SxxE00 to the season before it.
IsNextSeasonStart(floor, next) ==
  /\ Number(next) > 0
  /\ floor = 100 * (Season(next) + 1)

\* Mutant: every source corrects a floor that is ahead of it.
SelectFloorEitherWay(derived, floor, keep, source, correctAhead) ==
  ProposedFloor(derived, keep, source)

\* select_watch_state_floor.
SelectFloor(derived, floor, keep, source, correctAhead) ==
  LET next == ProposedFloor(derived, keep, source)
  IN IF \/ floor < next      \* also when the rule has no floor
        \/ correctAhead
        \/ IsNextSeasonStart(floor, next)
     THEN next
     ELSE floor

-----------------------------------------------------------------------------
\* Mutant: the evidence of the other sources is forgotten.
EvidenceOfOne(sources, source, completed) ==
  IF completed THEN {source} ELSE {}

\* The labels after a source has spoken: its own replaced, the others kept.
EvidenceAfter(sources, source, completed) ==
  IF completed THEN sources \cup {source} ELSE sources \ {source}

\* Mutant: whoever disabled the rule, it comes back when the evidence is gone.
ApplyToEveryRule(enabled, auto, exempt, sources) ==
  IF exempt \/ sources = {}
  THEN [enabled |-> TRUE, auto |-> FALSE]
  ELSE [enabled |-> FALSE, auto |-> enabled \/ auto]

\* The end of select_movie_watch_state and select_finished_series_watch_state:
\* completion disables a rule and remembers that it did; when the evidence is
\* gone, or the rule is exempt, only a rule that was so disabled comes back.
ApplyEvidence(enabled, auto, exempt, sources) ==
  IF exempt \/ sources = {}
  THEN [enabled |-> enabled \/ auto, auto |-> FALSE]
  ELSE [enabled |-> FALSE, auto |-> enabled \/ auto]

\* Mutant: each source decides by its own evidence.
SelectMovieAlone(source, completed, sources, enabled, auto, keep) ==
  LET applied == ApplyEvidence(enabled, auto, keep, IF completed THEN {source} ELSE {})
  IN [sources |-> EvidenceAfter(sources, source, completed),
      enabled |-> applied.enabled, auto |-> applied.auto]

\* select_movie_watch_state, with completed standing for source_present and
\* source_completed.
SelectMovie(source, completed, sources, enabled, auto, keep) ==
  LET evidence == EvidenceAfter(sources, source, completed)
      applied  == ApplyEvidence(enabled, auto, keep, evidence)
  IN [sources |-> evidence, enabled |-> applied.enabled, auto |-> applied.auto]

\* select_finished_series_watch_state: keep-search exempts a series only while
\* there are unseen episodes.
SelectSeries(source, finished, sources, enabled, auto, keep, unseen) ==
  LET evidence == EvidenceAfter(sources, source, finished)
      applied  == ApplyEvidence(enabled, auto, keep /\ unseen # {}, evidence)
  IN [sources |-> evidence, enabled |-> applied.enabled, auto |-> applied.auto]

-----------------------------------------------------------------------------
\* What the catalogs know of a series (series_catalog.py): whether it has ended,
\* its released and its known episodes.  An unreachable catalog knows nothing.
NoCatalog == [ended |-> "unknown", released |-> {}, known |-> {}]

InSeason(episodes, season) == {e \in episodes : Season(e) = season}

\* _series_is_finished_and_watched, the same in jellyfin.py and stremio.py but
\* for the bitfield: the latest known episode is watched, and it is the last
\* released and the last announced one of a series not known to continue.
SeriesIsFinished(known, watched, catalog) ==
  LET last == Latest(known)
  IN /\ known # {} /\ watched # {}
     /\ Latest(watched) >= last
     /\ catalog.ended # "no"
     /\ Season(last) \in 1 .. 99
     /\ last = Latest(InSeason(catalog.released, Season(last)))
     /\ last = Latest(InSeason(catalog.known, Season(last)))
     /\ InSeason(catalog.released, Season(last) + 1) = {}
     /\ InSeason(catalog.known, Season(last) + 1) = {}
=============================================================================
