------------------------------ MODULE WatchSync ------------------------------
(***************************************************************************)
(* The Jellyfin and the Stremio synchronisation of one title's rule        *)
(* (app/services/jellyfin.py, stremio.py, *_sync_ops.py, *_auto_sync.py),  *)
(* beside the user's forms and the two libraries, which change at any      *)
(* time.                                                                   *)
(*                                                                         *)
(* Each provider has a lock of its own, so two syncs of one provider never *)
(* overlap and syncs of the two providers do: each works on the row it     *)
(* loaded and its commit writes the columns it changed (app/db.py:54).     *)
(*                                                                         *)
(* The one title abstracts matching: both libraries and the rule are about *)
(* it.  A movie is a title with a single item.  What follows a commit is   *)
(* left out: SyncService pushes the row as any runner of RuleSync does.    *)
(***************************************************************************)
EXTENDS WatchState, WatchProgress, SequencesExt

CONSTANTS Episodes,      \* items the title may have: one for a movie
          Movie,         \* the item of a movie
          Catalogs,      \* what the online catalogs may say about a series
          Starts,        \* rows the rule may start from
          JellyfinStates, \* what people may make of the libraries
          StremioStates,
          Forms,         \* what edit forms may post
          MaxEvents      \* bound on what happens from outside, together: changes of
                         \* the libraries and the catalog, saved forms, manual
                         \* syncs, failed syncs and crashes (model checking only)

ASSUME WatchSyncAssumption ==
  /\ Episodes \subseteq Episode /\ Movie \in Episodes
  /\ Forms \subseteq [enabled : BOOLEAN, keep : BOOLEAN, floor : Floor]
  /\ MaxEvents \in Nat

VARIABLES
  rule,       \* the row of the rules table
  jellyfin,   \* the title in Jellyfin's library
  stremio,    \* the title in the Stremio library
  catalog,    \* what the online catalog answers
  sync,       \* per provider: the running sync and its session
  seen,       \* per provider: the loop's last_seen mark is the current one
  reported,   \* history: what each provider's last evaluated sync reported
  overwritten,\* history: providers whose label another session wrote over
  clean,      \* history: the row was last written by a sync nobody disturbed
  silent,     \* history: providers whose library has changed since its mark moved
  events

vars == <<rule, jellyfin, stremio, catalog, sync, seen, reported,
          overwritten, clean, silent, events>>
history == <<reported, overwritten, clean>>
libraries == <<jellyfin, stremio, catalog>>

-----------------------------------------------------------------------------
\* The columns of class Rule that watch state reads and writes.  custom says that
\* the quality tokens are the user's and not the profile's defaults; linked and
\* managed stand for stremio_library_item_id and stremio_managed.
Row == [live : BOOLEAN, media : {"movie", "series"}, enabled : BOOLEAN, custom : BOOLEAN,
        keep : BOOLEAN,                 \* jellyfin_search_existing_unseen
        season : Int, episode : Int,    \* start_season and start_episode
        sources : SUBSET Sources,       \* movie_completion_sources
        auto : BOOLEAN,                 \* movie_completion_auto_disabled
        legacy : BOOLEAN,               \* jellyfin_auto_disabled, of older versions
        jExisting : SUBSET Episodes, jKnown : SUBSET Episodes, jWatched : SUBSET Episodes,
        sKnown : SUBSET Episodes, sWatched : SUBSET Episodes,
        linked : BOOLEAN, managed : BOOLEAN,
        sauto : BOOLEAN]                \* stremio_auto_disabled

\* The rule _create_rule_for_item adds, with default_enabled set.
NewRule(media) ==
  [live |-> TRUE, media |-> media, enabled |-> TRUE, custom |-> FALSE, keep |-> FALSE,
   season |-> None, episode |-> None, sources |-> {}, auto |-> FALSE, legacy |-> FALSE,
   jExisting |-> {}, jKnown |-> {}, jWatched |-> {}, sKnown |-> {}, sWatched |-> {},
   linked |-> TRUE, managed |-> TRUE, sauto |-> FALSE]

RuleFloor(row) == FloorOf(row.season, row.episode)

WithFloor(row, floor) ==
  [row EXCEPT !.season = IF floor = None THEN @ ELSE Season(floor),
              !.episode = IF floor = None THEN @ ELSE Number(floor)]

WithCompletion(row, selection) ==
  [row EXCEPT !.sources = selection.sources, !.enabled = selection.enabled,
              !.auto = selection.auto]

JellyfinLibrary ==
  {lib \in [present : BOOLEAN, items : SUBSET Episodes, watched : SUBSET Episodes] :
     lib.watched \subseteq lib.items /\ (lib.items # {} => lib.present)}

\* bitfield: state.watched holds an episode bitfield; playing: state.video_id.
StremioLibrary ==
  {item \in [active : BOOLEAN, bitfield : BOOLEAN, watched : SUBSET Episodes,
             playing : Episodes \cup {None}] :
     item.watched # {} => item.bitfield}

\* A movie has one item.
JellyfinTitles(media) ==
  {lib \in JellyfinStates : media = "movie" => lib.items = IF lib.present THEN {Movie} ELSE {}}

StremioTitles(media) ==
  {item \in StremioStates :
     media = "movie" => /\ item.watched \subseteq {Movie}
                        /\ item.bitfield = (item.watched # {})}

\* Every column has been typed by the database and every answer by its parser; a
\* behaviour begins before the first sync has labelled the rule.
ASSUME WatchInputsAssumption ==
  /\ \A row \in Starts : row \in Row /\ row.sources = {}
  /\ JellyfinStates \subseteq JellyfinLibrary /\ StremioStates \subseteq StremioLibrary
  /\ Catalogs \subseteq [ended : {"yes", "no", "unknown"}, released : SUBSET Episodes,
                        known : SUBSET Episodes]

-----------------------------------------------------------------------------
\* Results of a sync: the row the session holds afterwards, whether the outcome
\* counts as changed (and is committed and pushed), and whether the provider's
\* completion was evaluated.
Result(row, changed, evaluated, completed) ==
  [row |-> row, changed |-> changed, evaluated |-> evaluated, completed |-> completed]

Skipped(row) == Result(row, FALSE, FALSE, FALSE)

\* JellyfinService._sync_movie_rule: no match counts as not completed, and the
\* flag of older versions is folded into the shared one.
JellyfinMovie(row, lib) ==
  LET completed == lib.present /\ Movie \in lib.watched
      selection == SelectMovie("jellyfin", completed, row.sources, row.enabled,
                               row.auto \/ row.legacy, row.keep)
      new == [WithCompletion(row, selection) EXCEPT !.legacy = FALSE]
  IN Result(new, new # row, TRUE, completed)

\* JellyfinService._sync_series_rule: with no match or no inventory nothing is
\* touched, the evidence of an earlier sync included.
JellyfinSeries(row, lib, cat) ==
  LET derived  == DeriveFloor(lib.items, lib.watched, row.jKnown, row.jWatched)
      floor    == SelectFloor(derived, RuleFloor(row), row.keep, "jellyfin", FALSE)
      finished == SeriesIsFinished(derived.known, derived.watched, cat)
      selection == SelectSeries("jellyfin", finished, row.sources, row.enabled, row.auto,
                                row.keep, derived.unseen)
      new == [WithCompletion(WithFloor(row, floor), selection)
                EXCEPT !.jExisting = derived.unseen, !.jKnown = derived.known,
                       !.jWatched = derived.watched]
  IN IF lib.present /\ row.jKnown \cup lib.items # {}
     THEN Result(new, new # row, TRUE, finished)
     ELSE Skipped(row)

JellyfinResult(row, lib, cat) ==
  IF ~row.live THEN Skipped(row)
  ELSE IF row.media = "movie" THEN JellyfinMovie(row, lib)
  ELSE JellyfinSeries(row, lib, cat)

-----------------------------------------------------------------------------
\* Mutant: an item that nobody is playing has an episode all the same.
KnownVideosOrNone(item, cat) == cat.known \cup {item.playing}

\* _library_item_from_payload: the episodes of a series are the catalog's and the
\* one being played; the bitfield can be read only against the catalog's.
KnownVideos(item, cat) == cat.known \cup ({item.playing} \ {None})
BitfieldValid(item, cat) == item.bitfield /\ cat.known # {}
WatchedVideos(item, cat) == IF BitfieldValid(item, cat) THEN item.watched \cap cat.known ELSE {}

\* _derive_stremio_floor: a valid bitfield is the truth about what is watched;
\* without one the remembered episodes stand in.
DeriveStremio(row, item, cat) ==
  LET valid == BitfieldValid(item, cat)
      known == KnownVideos(item, cat)
  IN DeriveFloor(known,
                 IF valid THEN WatchedVideos(item, cat) ELSE row.sWatched,
                 IF known = {} THEN row.sKnown ELSE {},
                 IF valid THEN row.sWatched \cap WatchedVideos(item, cat) ELSE row.sWatched)

\* The first half of _sync_existing_rule: link the rule, restore the active
\* defaults of a title that is not completed, bring back a rule that was disabled
\* when its title left the library.
Relinked(row, completed) ==
  LET restored == IF ~completed /\ ~row.auto
                  THEN [row EXCEPT !.enabled = TRUE, !.custom = FALSE] ELSE row
  IN [restored EXCEPT !.linked = TRUE, !.sauto = FALSE,
                      !.enabled = restored.enabled \/ row.sauto]

\* _apply_movie_completion_outcome; created: the rule is new.
StremioMovie(row, base, item, created) ==
  LET completed == Movie \in item.watched
      new == WithCompletion(base, SelectMovie("stremio", completed, base.sources,
                                              base.enabled, base.auto, base.keep))
  IN Result(new, created \/ base # row \/ new # base, TRUE, completed)

\* _apply_series_watch_state_outcome: the remembered episodes are written even
\* when the outcome counts as unchanged.
StremioSeries(row, base, item, cat, created) ==
  LET derived  == DeriveStremio(base, item, cat)
      valid    == BitfieldValid(item, cat)
      floor    == SelectFloor(derived, RuleFloor(base), base.keep, "stremio",
                              valid /\ derived.watched # {})
      finished == /\ SeriesIsFinished(derived.known, derived.watched, cat)
                  /\ KnownVideos(item, cat) # {} => valid
      new == WithCompletion(WithFloor(base, floor),
                            SelectSeries("stremio", finished, base.sources, base.enabled,
                                         base.auto, base.keep, derived.unseen))
      remembered == [new EXCEPT !.sKnown = derived.known, !.sWatched = derived.watched]
  IN IF derived.known = {}
     THEN Result(base, created \/ base # row, FALSE, FALSE)
     ELSE Result(remembered, created \/ base # row \/ new # base, TRUE, finished)

\* sync_rules, lines 404-454: the rule is linked to a title that is no longer in
\* the library.  A movie loses its Stremio evidence, a series keeps it; then a
\* managed rule is disabled.
StremioGone(row) ==
  LET movie == row.media = "movie"
      unwatched == IF movie
                   THEN WithCompletion(row, SelectMovie("stremio", FALSE, row.sources,
                                                        row.enabled, row.auto, row.keep))
                   ELSE row
      new == IF unwatched.managed /\ ~unwatched.sauto /\ unwatched.enabled
             THEN [unwatched EXCEPT !.enabled = FALSE, !.sauto = TRUE] ELSE unwatched
  IN Result(new, new # row, movie, FALSE)

StremioResult(row, item, cat) ==
  LET completed == row.media = "movie" /\ Movie \in item.watched
      base == IF row.live THEN Relinked(row, completed) ELSE NewRule(row.media)
  IN IF item.active
     THEN IF row.media = "movie" THEN StremioMovie(row, base, item, ~row.live)
                                 ELSE StremioSeries(row, base, item, cat, ~row.live)
     ELSE IF row.live /\ row.linked THEN StremioGone(row)
     ELSE Skipped(row)

ResultOf(p) == IF p = "jellyfin" THEN JellyfinResult(rule, jellyfin, catalog)
                                 ELSE StremioResult(rule, stremio, catalog)

-----------------------------------------------------------------------------
Stages == {"idle", "reading", "loaded", "finishing"}

\* auto: the sync runs in the provider's loop, which remembers the mark it read
\* before (fresh: the library has not changed since); touched: somebody else
\* committed the rule while the session held it.
NoSync == [stage |-> "idle", auto |-> FALSE, fresh |-> FALSE, touched |-> FALSE,
           old |-> NewRule("movie"), result |-> Skipped(NewRule("movie"))]

\* The session has loaded the row and may still write it.
Holding(p) == sync[p].old # sync[p].result.row \/ sync[p].stage = "loaded"
Other(p) == CHOOSE q \in Sources : q # p

TypeOK ==
  /\ rule \in Row
  /\ jellyfin \in JellyfinLibrary
  /\ stremio \in StremioLibrary
  /\ \A p \in Sources :
       /\ sync[p].stage \in Stages
       /\ {sync[p].auto, sync[p].fresh, sync[p].touched} \subseteq BOOLEAN
       /\ sync[p].old \in Row /\ sync[p].result.row \in Row
  /\ seen \in [Sources -> BOOLEAN]
  /\ reported \in [Sources -> {"never", "open", "completed"}] /\ overwritten \subseteq Sources
  /\ clean \in BOOLEAN /\ silent \subseteq Sources
  /\ events \in Nat

Init ==
  /\ rule \in Starts
  /\ jellyfin \in JellyfinTitles(rule.media)
  /\ stremio \in StremioTitles(rule.media)
  /\ catalog \in Catalogs /\ (rule.media = "movie" => catalog = NoCatalog)
  /\ sync = [p \in Sources |-> NoSync]
  /\ seen = [p \in Sources |-> FALSE]
  /\ reported = [p \in Sources |-> "never"]
  /\ overwritten = {}
  /\ clean = TRUE
  /\ silent = {}
  /\ events = 0

Outside == events < MaxEvents /\ events' = events + 1

\* Mutant: a sync remembers its mark whatever happened to the library since.
UnmarkedInLoop(p) == seen' = [seen EXCEPT ![p] = FALSE] /\ UNCHANGED sync

\* The mark of p moves: neither the one the loop remembers nor the one a running
\* sync has read is the current one any more.
Unmarked(p) == /\ seen' = [seen EXCEPT ![p] = FALSE]
               /\ sync' = [sync EXCEPT ![p].fresh = FALSE]

-----------------------------------------------------------------------------
\* What a change of the library, or a move of its mark, leaves unreported.
SilentAfter(p, moves) == IF moves THEN silent \ {p} ELSE silent \cup {p}

\* People watch, add and remove things.  The mark is made of the times of
\* Jellyfin's .db file alone: a change that so far is in its -wal file does not
\* move it, and a checkpoint or a mere access moves it without a change.
JellyfinChanges(lib, moves) ==
  /\ Outside
  /\ lib # jellyfin \/ moves
  /\ jellyfin' = lib
  /\ IF moves THEN Unmarked("jellyfin") ELSE UNCHANGED <<seen, sync>>
  /\ silent' = SilentAfter("jellyfin", moves)
  /\ UNCHANGED <<rule, stremio, catalog, history>>

StremioChanges(item) ==
  /\ Outside
  /\ item # stremio
  /\ stremio' = item
  /\ Unmarked("stremio")
  /\ silent' = SilentAfter("stremio", TRUE)
  /\ UNCHANGED <<rule, jellyfin, catalog, history>>

\* An episode is announced or released, or the catalog cannot be reached for a
\* while.  No loop looks at it.
CatalogChanges(cat) ==
  /\ Outside
  /\ cat # catalog /\ rule.media = "series"
  /\ catalog' = cat
  /\ UNCHANGED <<rule, jellyfin, stremio, sync, seen, history,
                 silent>>

-----------------------------------------------------------------------------
\* update_rule: the whole form is written, the fields the user left alone with
\* what was rendered, however long ago; so any values may arrive.  The completion
\* columns are not in the form.
SaveForm(posted) ==
  /\ Outside
  /\ rule.live
  /\ rule' = [rule EXCEPT
                !.enabled = posted.enabled, !.keep = posted.keep, !.custom = TRUE,
                !.season = IF posted.floor = None THEN None ELSE Season(posted.floor),
                !.episode = IF posted.floor = None THEN None ELSE Number(posted.floor)]
  /\ clean' = FALSE
  /\ sync' = [p \in Sources |->
                IF Holding(p) THEN [sync[p] EXCEPT !.touched = TRUE] ELSE sync[p]]
  /\ UNCHANGED <<libraries, seen, reported, overwritten, silent>>

-----------------------------------------------------------------------------
\* _tick: the library differs from the last one synced (the first tick of a
\* process, which is forced, remembers none).  While a manual sync holds the lock
\* a tick changes nothing.
Tick(p) ==
  /\ sync[p] = NoSync
  /\ ~seen[p]
  /\ sync' = [sync EXCEPT ![p] = [NoSync EXCEPT !.stage = "reading", !.auto = TRUE,
                                               !.fresh = TRUE]]
  /\ UNCHANGED <<rule, libraries, seen, history, silent, events>>

\* The settings page runs execute_*_sync; the loop's mark is not its business.
ManualSync(p) ==
  /\ Outside
  /\ sync[p] = NoSync
  /\ sync' = [sync EXCEPT ![p] = [NoSync EXCEPT !.stage = "reading"]]
  /\ UNCHANGED <<rule, libraries, seen, history, silent>>

\* sync_rules up to its commit: read the library, load the rules, work out the
\* new columns (which takes calls to the catalog, a while).
Load(p) ==
  /\ sync[p].stage = "reading"
  /\ sync' = [sync EXCEPT ![p].stage = "loaded", ![p].old = rule, ![p].result = ResultOf(p)]
  /\ UNCHANGED <<rule, libraries, seen, history, silent, events>>

\* The library cannot be read, or the database is locked at a commit, this one or
\* one of what follows it: the session is rolled back and the loop forgets its
\* mark.
Fails(p) ==
  /\ Outside
  /\ sync[p] # NoSync
  /\ seen' = [seen EXCEPT ![p] = IF sync[p].auto THEN FALSE ELSE @]
  /\ sync' = [sync EXCEPT ![p] = NoSync]
  /\ UNCHANGED <<rule, libraries, history, silent>>

\* A commit writes the columns whose value differs from the loaded one.
Written(stored, old, new) ==
  [c \in DOMAIN stored |-> IF new[c] = old[c] THEN stored[c] ELSE new[c]]

\* The other session, if it holds the row, is touched by a commit that changes it.
Touched(syncs, p) ==
  [syncs EXCEPT ![Other(p)].touched = @ \/ (Holding(Other(p)) /\ rule' # rule)]

\* Whose label a commit of p leaves in doubt: the other's, when p writes the
\* column and the other has written it since p loaded the row.
OverwrittenBy(p) ==
  LET writes  == sync[p].result.row.sources # sync[p].old.sources
      changed == rule.sources # sync[p].old.sources
  IN IF writes /\ changed THEN (overwritten \ {p}) \cup {Other(p)}
     ELSE IF writes \/ (sync[p].result.evaluated /\ ~changed) THEN overwritten \ {p}
     ELSE overwritten

\* The end of sync_rules: commit if an outcome counts as changed.  Otherwise the
\* session keeps what it wrote to the row (remembered episodes) to itself.
Commit(p) ==
  LET result == sync[p].result
      committed == result.changed
  IN /\ sync[p].stage = "loaded"
     /\ rule' = IF committed THEN Written(rule, sync[p].old, result.row) ELSE rule
     /\ sync' = Touched([sync EXCEPT ![p] =
                  IF committed THEN [NoSync EXCEPT !.stage = "finishing", !.auto = sync[p].auto,
                                                   !.fresh = sync[p].fresh]
                               ELSE [@ EXCEPT !.stage = "finishing"]], p)
     /\ overwritten' = OverwrittenBy(p)
     /\ reported' = IF result.evaluated
                    THEN [reported EXCEPT ![p] = IF result.completed THEN "completed" ELSE "open"]
                    ELSE reported
     /\ clean' = IF committed THEN result.evaluated /\ ~sync[p].touched
                 ELSE clean \/ (result.evaluated /\ ~sync[p].touched)
     /\ UNCHANGED <<libraries, seen, silent, events>>

-----------------------------------------------------------------------------
\* What the loop remembers at the end of a sync.
SeenAfter(p) == [seen EXCEPT ![p] = IF sync[p].auto THEN sync[p].fresh ELSE @]

\* The rest of _tick: the commit of _record_status takes along what the session
\* had kept.  A manual sync's session is closed.
Record(p, syncs) ==
  /\ rule' = IF sync[p].auto THEN Written(rule, sync[p].old, sync[p].result.row) ELSE rule
  /\ sync' = Touched([syncs EXCEPT ![p] = NoSync], p)

\* Nothing to write, no write-back configured, or an error, which is swallowed.
Finish(p) ==
  /\ sync[p].stage = "finishing"
  /\ Record(p, sync)
  /\ seen' = SeenAfter(p)
  /\ UNCHANGED <<libraries, history, silent, events>>

\* The bitfield after the writes of an order of Jellyfin's items, one by one.
BitsAfter(bits, known, order) ==
  LET after[i \in 0 .. Len(order)] ==
        IF i = 0 THEN bits
        ELSE SetVideo(after[i - 1], known, order[i], order[i] \in jellyfin.watched)
  IN after[Len(order)]

\* sync_watch_progress as far as completion goes (its arbitration, which also
\* looks at positions and times, is in WatchProgress): the state of the winner's
\* item is written to the other library, and with it, when the winner is
\* Jellyfin, all other episodes it has completed, in the order of their times.
\* The code writes Stremio's item back with the _mtime it has, so Stremio's mark
\* may stay (moves).
IntoStremio(order) ==
  LET series == rule.media = "series"
      known  == IF series THEN catalog.known ELSE {Movie}
  IN [stremio EXCEPT
        !.bitfield = @ \/ ToSet(order) \cap known # {},
        !.playing = IF series THEN Last(order) ELSE @,
        !.watched = BitsAfter(@, known, order)]

FinishIntoStremio(p, item, moves) ==
  /\ sync[p].stage = "finishing"
  /\ jellyfin.present /\ stremio.active
  /\ item \in jellyfin.items
  /\ \E order \in SetToSeqs(jellyfin.watched \cup {item}) : stremio' = IntoStremio(order)
  /\ stremio' # stremio
  /\ seen' = [SeenAfter(p) EXCEPT !["stremio"] = @ /\ ~moves]
  /\ silent' = SilentAfter("stremio", moves)
  /\ Record(p, [sync EXCEPT !["stremio"].fresh = @ /\ ~moves])
  /\ UNCHANGED <<jellyfin, catalog, history, events>>

\* Stremio's progress is that of the episode last played.  Jellyfin, asked to
\* store it, writes its database as it does for anybody else.
FinishIntoJellyfin(p, item, moves) ==
  /\ sync[p].stage = "finishing"
  /\ jellyfin.present /\ stremio.active
  /\ rule.media = "series" => item = stremio.playing
  /\ item \in jellyfin.items
  /\ jellyfin' = [jellyfin EXCEPT !.watched = IF item \in stremio.watched
                                              THEN @ \cup {item} ELSE @ \ {item}]
  /\ jellyfin' # jellyfin
  /\ seen' = [SeenAfter(p) EXCEPT !["jellyfin"] = @ /\ ~moves]
  /\ silent' = SilentAfter("jellyfin", moves)
  /\ Record(p, [sync EXCEPT !["jellyfin"].fresh = @ /\ ~moves])
  /\ UNCHANGED <<stremio, catalog, history, events>>

\* The process dies and comes back: the first ticks are forced.
Crash ==
  /\ Outside
  /\ sync' = [p \in Sources |-> NoSync]
  /\ seen' = [p \in Sources |-> FALSE]
  /\ UNCHANGED <<rule, libraries, history, silent>>

-----------------------------------------------------------------------------
World == \/ \E lib \in JellyfinTitles(rule.media), moves \in BOOLEAN :
              JellyfinChanges(lib, moves)
         \/ \E item \in StremioTitles(rule.media) : StremioChanges(item)
         \/ \E cat \in Catalogs : CatalogChanges(cat)

User == \/ \E posted \in Forms : SaveForm(posted)
        \/ \E p \in Sources : ManualSync(p)

Step(p) == Load(p) \/ Commit(p) \/ Finish(p)

Next ==
  \/ World \/ User \/ Crash
  \/ \E p \in Sources :
       \/ Tick(p) \/ Step(p) \/ Fails(p)
       \/ \E item \in Episodes, moves \in BOOLEAN :
            FinishIntoStremio(p, item, moves) \/ FinishIntoJellyfin(p, item, moves)

Spec == Init /\ [][Next]_vars

-----------------------------------------------------------------------------
\* Once a sync that nobody disturbed has looked at the title, a rule with
\* completion evidence from either provider is disabled, whichever provider it
\* was that synced last: Stremio's sync, which enables the rules of titles it
\* lists as unwatched, does not undo what Jellyfin's found.
CompletedDisables == clean /\ rule.live /\ rule.sources # {} /\ ~rule.keep => ~rule.enabled

\* A provider's label is in the row exactly if its last sync that could tell
\* reported the title completed, unless the other provider's sync, on a row
\* loaded before, wrote its own older view of the labels over it.
EvidenceKept ==
  rule.live => \A p \in Sources \ overwritten : (p \in rule.sources) = (reported[p] = "completed")

\* When a loop believes it has seen a movie's library as it is, and has synced
\* the rule at all, the last report of that provider is what the library says,
\* unless the library has changed since without moving the mark: no change that
\* moves it slips between the mark, read first, and the library, read later.
SaysCompleted(p) ==
  IF p = "jellyfin" THEN Movie \in jellyfin.watched
  ELSE stremio.active /\ Movie \in stremio.watched
SeenMeansReported ==
  rule.live /\ rule.media = "movie" =>
    \A p \in Sources \ silent :
      seen[p] /\ reported[p] # "never" => (reported[p] = "completed") = SaysCompleted(p)

\* A sync enables a rule only if watch state or a vanished title had disabled it,
\* or Stremio lists the title as one not watched yet; or it puts back what it
\* loaded before somebody disabled the rule.
EnabledForAReason ==
  [][rule.live /\ ~rule.enabled /\ rule'.enabled /\ events' = events
       => \E p \in Sources :
            LET old == sync[p].old
            IN /\ sync[p].stage = "loaded"
               /\ \/ old.auto \/ old.legacy \/ old.sauto \/ sync[p].touched
                  \/ /\ p = "stremio" /\ ~old.auto
                     /\ ~(old.media = "movie" /\ sync[p].result.completed)]_vars

\* Jellyfin's sync of a rule nobody else writes meanwhile never moves the floor
\* back, except from SxxE00 into the season before it.
FloorKept ==
  [][LET jf == sync["jellyfin"]
     IN jf.stage = "loaded" /\ ~jf.touched /\ sync'["jellyfin"].stage # "loaded"
          => \/ RuleFloor(rule') >= RuleFloor(rule)
             \/ IsNextSeasonStart(RuleFloor(rule), RuleFloor(rule'))]_vars
=============================================================================
