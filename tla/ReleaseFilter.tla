---------------------------- MODULE ReleaseFilter ----------------------------
(***************************************************************************)
(* Which releases and which files of a torrent a rule asks for:            *)
(*   - the pattern rule_builder.py publishes to qBittorrent,               *)
(*   - the filter rule_fetch_ops.py applies to the rows of a snapshot,     *)
(*   - the plan selective_queue.py chooses the files of a torrent by.      *)
(*                                                                         *)
(* A text is what the regular expressions find in it: words, quality tags, *)
(* season packs, and mentions of episodes.  In a mention "SxxEyy" may be   *)
(* followed by a dash, or by "to", and that by a number, of which the      *)
(* expressions read two digits whatever comes after them: "S01E03 - 1080p" *)
(* mentions episode 3, a dash, and the number 10 cut off from 1080.        *)
(* Episodes are the numbers 100 * season + episode of WatchState.          *)
(***************************************************************************)
EXTENDS WatchState, Sequences

CONSTANTS Words, Tags,         \* what a text may contain
          GroupOf,             \* the group of a tag in the quality taxonomy
          Imdbs, NoImdb, Years, NoYear,
          Feeds, SlugOf,       \* a feed's Jackett indexer, or NoSlug
          Indexers, NoSlug

Mention == [season : 0 .. 99, first : 0 .. 99, sep : {"none", "dash", "to"},
            second : 0 .. 99 \cup {None}, cut : BOOLEAN]

Text == [mentions : SUBSET Mention,
         seasons : SUBSET (0 .. 99),   \* seasons named without an episode
         spans : SUBSET (0 .. 99),     \* last seasons of "S01-S03"
         longRun : BOOLEAN]            \* "E101 ... of 120"

\* A serialized search result; included, excluded: the words found by the two
\* keyword matchings of the filter; titleWords, titleMatches, titleYears: what the
\* expressions of the pattern find in the title.  year is the indexer's attribute,
\* and only without one the first year of the title.
Row == [text : Text, included : SUBSET Words, excluded : SUBSET Words,
        titleWords : SUBSET Words, titleYears : SUBSET Years,
        tags : SUBSET Tags, imdb : Imdbs \cup {NoImdb},
        exactTitle : BOOLEAN, matchesQuery : BOOLEAN, titleMatches : BOOLEAN,
        roots : SUBSET {"2000", "3000", "4000", "5000", "7000"},
        unfit : BOOLEAN,               \* a term like "application" in a category
        addition : BOOLEAN,            \* has the rule's must-contain additions
        override : BOOLEAN,            \* matches the rule's full override
        year : Years \cup {NoYear}, names : SUBSET Indexers]

Tokens == [include : SUBSET Tags, exclude : SUBSET Tags]
Media == {"movie", "series", "other"}

\* The columns of models.Rule that these filters read.
RuleRow == [media : Media, imdb : Imdbs \cup {NoImdb},
            hasQuery : BOOLEAN,        \* _rule_search_title is not empty
            groups : SUBSET (SUBSET Words \ {{}}),  \* of additional_includes
            without : SUBSET Words,    \* must_not_contain
            mode : {"manual", "managed", "legacy"},
            profile : {"plain", "custom", "hd", "uhd"},
            tokens : Tokens,           \* quality_include_, quality_exclude_tokens
            override : {"none", "additions", "full"},  \* must_contain_override
            floor : Floor, keep : BOOLEAN,  \* jellyfin_search_existing_unseen
            watched : SUBSET Episode, known : SUBSET Episode,
            existing : SUBSET Episode,
            year : Years \cup {NoYear},  \* NoYear unless include_release_year
            feeds : SUBSET Feeds]

-----------------------------------------------------------------------------
(* The pattern of rule_builder.py.                                         *)

\* The bounded season and episode of a floor.
FloorSeason(floor) == IF Season(floor) = 0 THEN 1 ELSE Season(floor)
FloorNumber(floor) == Number(floor)

Ranged(m) == m.sep = "dash"
RangeEnd(m) == IF Ranged(m) THEN m.second ELSE None

\* build_episode_progress_fragment: the floor or something after it.
Progress(text, floor) ==
  LET season == FloorSeason(floor)
      number == FloorNumber(floor)
  IN \/ \E m \in text.mentions :
          \/ m.season > season
          \/ m.season = season /\ m.first >= number
          \/ m.season = season /\ RangeEnd(m) # None /\ RangeEnd(m) >= number
     \/ \E s \in text.seasons \cup text.spans : s >= season
     \/ text.longRun

\* build_lower_episode_exclusion_fragment: an episode of the floor's season before
\* it that no dash follows, or a range that ends there.
BelowFloor(text, floor) ==
  \E m \in text.mentions :
    /\ m.season = FloorSeason(floor)
    /\ IF Ranged(m)
       THEN m.second # None /\ ~m.cut /\ m.second < FloorNumber(floor)
       ELSE m.first < FloorNumber(floor)

\* build_existing_episode_exclusion_fragment: an existing episode that no dash
\* follows.
Standalone(text, existing) ==
  \E m \in text.mentions : ~Ranged(m) /\ 100 * m.season + m.first \in existing

\* _rule_local_generated_pattern, as what it accepts.
LocalPattern(row, rule) ==
  CASE rule.override = "full" -> row.override
    [] OTHER ->
        /\ rule.floor # None => /\ Progress(row.text, rule.floor)
                                /\ ~BelowFloor(row.text, rule.floor)
        /\ rule.override = "additions" => row.addition
        /\ ~rule.keep => ~Standalone(row.text, rule.existing)

\* effective_rule_quality_tokens: profiles are those of the settings, or the
\* defaults when the caller has none; inherits: _tokens_match_profile_inheritance.
EffectiveTokens(rule, profiles, inherits) ==
  IF \/ rule.mode = "manual"
     \/ rule.profile \in {"plain", "custom"}
     \/ /\ rule.mode = "legacy" /\ ~inherits
        /\ rule.tokens.include \cup rule.tokens.exclude # {}
  THEN rule.tokens
  ELSE profiles[rule.profile]

\* One tag of every included group, no excluded one; included wins.
QualityMisses(row, tokens) ==
  \E t \in tokens.include :
    \A u \in tokens.include : GroupOf[u] = GroupOf[t] => u \notin row.tags
QualityExcluded(row, tokens) == row.tags \cap (tokens.exclude \ tokens.include) # {}

\* build_generated_pattern and mustNotContain of build_qb_rule.  The bare title it
\* publishes when nothing else is asked for is the case without conditions.
QbAccepts(row, rule, tokens) ==
  /\ row.titleWords \cap rule.without = {}
  /\ \/ rule.override = "full" /\ row.override
     \/ /\ rule.override # "full"
        /\ row.titleMatches
        /\ rule.year # NoYear => rule.year \in row.titleYears
        /\ \A group \in rule.groups : group \cap row.titleWords # {}
        /\ ~QualityMisses(row, tokens) /\ ~QualityExcluded(row, tokens)
        /\ LocalPattern(row, rule)

-----------------------------------------------------------------------------
(* The filter of rule_fetch_ops.py.                                        *)

\* _snapshot_row_identity_failure with classify_imdb_backed_result_identity.
Identified(row, rule) ==
  \/ ~rule.hasQuery
  \/ rule.imdb = NoImdb /\ row.matchesQuery
  \/ rule.imdb # NoImdb /\ IF row.imdb # NoImdb THEN row.imdb = rule.imdb
                                                ELSE row.exactTitle

\* _row_category_media_failure.
WrongCategory(row, rule) ==
  LET own   == IF rule.media = "movie" THEN "2000" ELSE "5000"
      video == row.roots \cap {"2000", "5000"}
  IN /\ rule.media # "other"
     /\ \/ row.roots \cap {"3000", "4000", "7000"} # {}
        \/ video # {} /\ own \notin video
        \/ row.unfit

\* episode_ranges_from_text reads what follows "to" as well, and sorts the ends.
EpisodesOf(m) ==
  LET last == IF m.sep = "none" \/ m.second = None THEN m.first ELSE m.second
  IN {100 * m.season + n : n \in (m.first .. last) \cup (last .. m.first)}
IsPack(m) == m.sep # "none" /\ m.second # None /\ m.second # m.first

Owned(rule) == rule.known \cup rule.existing
OwnedPack(row, rule) ==
  \E m \in row.text.mentions : IsPack(m) /\ EpisodesOf(m) \subseteq Owned(rule)

Slugs(rule) == {SlugOf[f] : f \in rule.feeds} \ {NoSlug}
NoFeedMaps(rule) == rule.feeds # {} /\ Slugs(rule) = {}

\* The failures of _snapshot_row_filter_failure, in its order; q: the effective
\* tokens, which the filter computes without the settings.
Failures(row, rule, q) ==
  {i \in 1 .. 11 :
     \/ i = 1 /\ NoFeedMaps(rule)
     \/ i = 2 /\ ~Identified(row, rule)
     \/ i = 3 /\ WrongCategory(row, rule)
     \/ i = 4 /\ \E group \in rule.groups : group \cap row.included = {}
     \/ i = 5 /\ rule.without \cap row.excluded # {}
     \/ i = 6 /\ QualityMisses(row, q)
     \/ i = 7 /\ QualityExcluded(row, q)
     \/ i = 8 /\ OwnedPack(row, rule)
     \/ i = 9 /\ ~LocalPattern(row, rule)
     \/ i = 10 /\ rule.year # NoYear /\ row.year # rule.year
     \/ i = 11 /\ Slugs(rule) # {} /\ Slugs(rule) \cap row.names = {}}
Visible(row, rule, q) == Failures(row, rule, q) = {}
HiddenReason(row, rule, q) == Min(Failures(row, rule, q))

\* _rule_local_filter_cache_key: all the filter reads but for the known episodes.
CacheKey(rule, q) ==
  <<rule.media, rule.imdb, rule.hasQuery, rule.groups, rule.without, q, rule.override,
    rule.floor, rule.keep, rule.existing, rule.year, rule.feeds>>

\* _apply_rule_search_scope, saved search indexers left out: no mapped feed, no
\* scope.
SearchScope(rule) == IF Slugs(rule) = {} THEN Indexers ELSE Slugs(rule)

-----------------------------------------------------------------------------
(* The plan of selective_queue.py.                                         *)

\* _episode_file_selection_plan, for a series rule with a floor.
HasPlan(rule) == rule.media = "series" /\ rule.floor # None
Excluded(rule, retry) ==
  IF retry \/ rule.keep THEN rule.watched ELSE rule.known \cup rule.existing
Plan(rule, retry) == [floor |-> rule.floor, excluded |-> Excluded(rule, retry)]

\* _selection_plan_accepts_episode_range and select_missing_episode_file_ids, for
\* files that are [video, mentions].
Wanted(e, plan) == e \notin plan.excluded /\ e >= plan.floor
Accepts(plan, m) == \E e \in EpisodesOf(m) : Wanted(e, plan)
ParsedFiles(files) == {f \in DOMAIN files : files[f].video /\ files[f].mentions # {}}
Selected(files, plan) ==
  {f \in ParsedFiles(files) : \E m \in files[f].mentions : Accepts(plan, m)}
=============================================================================
