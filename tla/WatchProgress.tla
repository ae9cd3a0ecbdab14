---------------------------- MODULE WatchProgress ----------------------------
(***************************************************************************)
(* Which of two providers' playback positions is the newer one             *)
(* (choose_newer_watch_progress of app/services/watch_state.py), how the   *)
(* two providers' states are read as records of progress, and what a write *)
(* of a record leaves behind (jellyfin.py, stremio.py).                    *)
(*                                                                         *)
(* Positions are milliseconds and times of a clock.  The item of a record  *)
(* is an episode, numbered in the order of the catalog, or Whole for a     *)
(* movie and for the placeholder of a title without progress.              *)
(***************************************************************************)
EXTENDS Integers

CONSTANT MinDelta   \* min_delta_ms, 30 seconds

ASSUME MinDeltaAssumption == MinDelta \in Nat \ {0}

NoTime == -1   \* updated_at is None
Whole == 0

\* class WatchProgressRecord: Jellyfin's and Stremio's have the same fields.
Records == [item : Nat, position : Nat, completed : BOOLEAN, updated : Nat \cup {NoTime}]

\* _record_has_meaningful_progress.
Meaningful(record) == record.completed \/ record.position > 0

Distance(a, b) == IF a >= b THEN a - b ELSE b - a

\* What choose_newer_watch_progress leaves alone.
Agree(left, right) ==
  \/ ~Meaningful(left) /\ ~Meaningful(right)
  \/ /\ left.completed = right.completed
     /\ Distance(left.position, right.position) < MinDelta

\* Its winner.  With no times to compare, completion wins; left, which is
\* Jellyfin's, wins a tie.
LeftWins(left, right) ==
  IF left.updated = NoTime /\ right.updated = NoTime /\ left.completed # right.completed
  THEN left.completed
  ELSE right.updated = NoTime \/ (left.updated # NoTime /\ left.updated >= right.updated)

Choose(left, right) ==
  IF Agree(left, right) THEN "none" ELSE IF LeftWins(left, right) THEN "left" ELSE "right"

-----------------------------------------------------------------------------
\* The user data of one item in Jellyfin: PlaybackPositionTicks, Played and
\* LastPlayedDate.  An item with neither progress nor completion has no record.
ItemStates == [position : Nat, played : BOOLEAN, at : Nat \cup {NoTime}]

HasRecord(item) == item.position > 0 \/ item.played

JellyfinRecord(key, item) ==
  [item |-> key, position |-> item.position, completed |-> item.played, updated |-> item.at]

\* JellyfinService.write_watch_progress posts the position and the completion.
WriteJellyfin(record, item) ==
  [item EXCEPT !.position = record.position, !.played = record.completed]

-----------------------------------------------------------------------------
\* The state of a movie in the Stremio library: timeWatched, overallTimeWatched,
\* duration (0: not known), flaggedWatched or timesWatched or watched (marked),
\* lastWatched.
MovieStates == [time : Nat, overall : Nat, duration : Nat, marked : BOOLEAN,
                  at : Nat \cup {NoTime}]

\* _stremio_state_indicates_completion.
MovieCompleted(movie) ==
  movie.marked \/ (movie.duration > 0 /\ movie.time >= (95 * movie.duration) \div 100)

Placeholder == [item |-> Whole, position |-> 0, completed |-> FALSE, updated |-> NoTime]

\* _watch_progress_record_from_payload, and _empty_watch_progress_record_from_payload
\* when there is no progress.
MovieRecord(movie) ==
  LET position == IF movie.overall >= movie.time THEN movie.overall ELSE movie.time
  IN IF position > 0 \/ MovieCompleted(movie)
     THEN [item |-> Whole, position |-> position, completed |-> MovieCompleted(movie),
           updated |-> movie.at]
     ELSE Placeholder

\* StremioService.write_watch_progress for a movie.  lastWatched stays, and no
\* record of Jellyfin's carries a duration.
WriteMovie(record, movie) ==
  [movie EXCEPT !.time = record.position,
                !.overall = IF @ >= record.position THEN @ ELSE record.position,
                !.marked = record.completed]

-----------------------------------------------------------------------------
\* The state of a series: the episode last played (video_id), its timeWatched,
\* the watched bitfield and lastWatched.
SeriesStates == [video : Nat, time : Nat, bits : SUBSET Nat, at : Nat \cup {NoTime}]

\* Only the last played episode has a record; without catalog it is not completed.
SeriesRecord(series, known) ==
  LET completed == series.video \in known \cap series.bits
  IN IF series.video # Whole /\ (series.time > 0 \/ completed)
     THEN [item |-> series.video, position |-> series.time, completed |-> completed,
           updated |-> series.at]
     ELSE Placeholder

\* _watched_bitfield_set_video: the episode becomes the anchor of the bitfield,
\* which is cut off behind it (values[:last_index]).
SetVideo(bits, known, episode, watched) ==
  IF episode \notin known THEN bits
  ELSE {e \in bits : e < episode} \cup (IF watched THEN {episode} ELSE {})

WriteSeries(record, series, known) ==
  [series EXCEPT !.video = record.item, !.time = record.position,
                 !.bits = SetVideo(@, known, record.item, record.completed)]
=============================================================================
