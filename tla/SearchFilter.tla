---------------------------- MODULE SearchFilter ----------------------------
(* What a rule makes of a search request (_search_request_data_from_rule),   *)
(* how a request too large is reduced, and which results pass its filters    *)
(* (_matches_payload_terms_with_reason): all of them for a search by title,  *)
(* and for the primary section of a search by IMDb id those of the quality   *)
(* tags alone (_local_filter_payload).                                       *)
(*                                                                           *)
(* Terms are abstract: of a result only counts which terms an inclusion      *)
(* finds in its text and which an exclusion does.  The two differ: short     *)
(* inclusions must be words, most exclusions may be part of one.             *)

EXTENDS Integers, FiniteSets

CONSTANTS
    Terms, Titles, Imdbs, Years, Trackers, Categories,
    NoImdb, NoYear, NoNumber,
    MaxRequired, MaxGroups, MaxPerGroup, MaxExcluded    \* limits of a request

Numbers == Nat \cup {NoNumber}

\* A rule, as far as searches go.  Additional includes of one term and of several,
\* additions or else the terms of a full must-contain pattern, and the terms of its
\* quality tags, those to include by group.
SearchRule ==
    [singles : SUBSET Terms, groups : SUBSET SUBSET Terms,
     pattern : BOOLEAN, additions : SUBSET Terms,
     patternAll : SUBSET Terms, patternGroups : SUBSET SUBSET Terms, patternNot : SUBSET Terms,
     quality : SUBSET SUBSET Terms, excluded : SUBSET Terms,
     series : BOOLEAN, floor : [season : Numbers, episode : Numbers],
     unseen : BOOLEAN, watched : [season : Numbers, episode : Numbers],
     title : Titles, imdb : Imdbs \cup {NoImdb}, year : Years \cup {NoYear}, byYear : BOOLEAN]

\* The filters of a section: every term, one term of each group, and none.
Filters == [all : SUBSET Terms, any : SUBSET SUBSET Terms, not : SUBSET Terms]

Nowhere == [season |-> NoNumber, episode |-> NoNumber]

-----------------------------------------------------------------------------
(* Requests.                                                                 *)

\* A term offered as an alternative is neither required nor excluded.
FiltersOf(all, groups, not) ==
    LET any == groups \ {{}}
    IN [all |-> all \ UNION any, any |-> any, not |-> not \ UNION any]

Wanted(rule) ==
    FiltersOf(rule.singles \cup (IF rule.pattern THEN rule.patternAll ELSE rule.additions),
              rule.groups \cup (IF rule.pattern THEN rule.patternGroups ELSE {}) \cup rule.quality,
              rule.excluded \cup (IF rule.pattern THEN rule.patternNot ELSE {}))

WantedFirst(rule) == FiltersOf({}, rule.quality, rule.excluded)

\* The episode to search for: that of the floor, or of the last one watched if the
\* rule looks for unseen episodes.
Target(rule) ==
    IF ~rule.series THEN Nowhere
    ELSE IF rule.unseen /\ rule.watched # Nowhere THEN rule.watched ELSE rule.floor

Request(rule) ==
    [title |-> rule.title, imdb |-> rule.imdb, series |-> rule.series,
     season |-> Target(rule).season, episode |-> Target(rule).episode,
     year |-> IF rule.byYear THEN rule.year ELSE NoYear,
     wanted |-> Wanted(rule), first |-> WantedFirst(rule)]

\* Groups within the limits: some are dropped and others lose alternatives
\* (_limit_optional_groups; which ones go for the limits of all groups together,
\* those of the widest first, is left open).
Limited(groups, kept) ==
    /\ Cardinality(kept) <= MaxGroups
    /\ \A g \in kept : /\ Cardinality(g) \in 1..MaxPerGroup
                       /\ \E h \in groups : g \subseteq h

\* The request of a rule whose request is refused as too large.
Reduced(filters, reduced) ==
    /\ Cardinality(reduced.all) <= MaxRequired /\ Cardinality(reduced.not) <= MaxExcluded
    /\ reduced.all \subseteq filters.all \ UNION reduced.any
    /\ Limited(filters.any, reduced.any)
    /\ reduced.not \subseteq filters.not \ UNION reduced.any

-----------------------------------------------------------------------------
(* Results.                                                                  *)

\* has, hit: the terms inclusions and exclusions find; exact, broad: whether the title
\* is that of the rule, or only has its words; spans: episodes the title names;
\* seasons: seasons that it names alone.
Result ==
    [has : SUBSET Terms, hit : SUBSET Terms, exact : BOOLEAN, broad : BOOLEAN,
     imdb : Imdbs \cup {NoImdb}, year : Years \cup {NoYear},
     spans : SUBSET [season : Nat, first : Nat, last : Nat], seasons : SUBSET Nat,
     trackers : SUBSET Trackers, categories : SUBSET Categories]

PassesTerms(row, filters) ==
    /\ filters.all \subseteq row.has
    /\ \A g \in filters.any : g \cap row.has # {}
    /\ filters.not \cap row.hit = {}

\* classify_imdb_backed_result_identity
Identity(row, imdb) ==
    IF imdb # NoImdb /\ row.imdb # NoImdb
    THEN IF row.imdb = imdb THEN "imdb_exact" ELSE "imdb_mismatch"
    ELSE IF imdb # NoImdb /\ row.exact THEN "title_exact"
    ELSE IF row.broad THEN (IF imdb # NoImdb THEN "title_broad" ELSE "title_exact")
    ELSE "no_match"

\* Movies and series with an IMDb id must be of it, or else bear the exact title.
Identified(row, request, backed) ==
    IF backed THEN Identity(row, request.imdb) \in {"imdb_exact", "title_exact"}
              ELSE row.broad

NamesSeason(row, season) ==
    (\E s \in row.spans : s.season = season) \/ season \in row.seasons

\* A title that names no episode stands for its whole season.
NamesEpisode(row, season, episode) ==
    \/ \E s \in row.spans : s.season = season /\ episode \in s.first..s.last
    \/ row.spans = {} /\ NamesSeason(row, season)

PassesEpisode(row, request) ==
    ~request.series \/ request.season = NoNumber \/
      IF request.episode = NoNumber THEN NamesSeason(row, request.season)
      ELSE NamesEpisode(row, request.season, request.episode)

PassesYear(row, request) == request.year = NoYear \/ row.year = request.year

\* Whose tracker and category the scope of the search allows; none allows all.
PassesScope(row, trackers, categories) ==
    /\ trackers = {} \/ row.trackers \cap trackers # {}
    /\ categories = {} \/ row.categories \cap categories # {}

Passes(row, request, filters, backed, trackers, categories) ==
    /\ Identified(row, request, backed)
    /\ PassesTerms(row, filters)
    /\ PassesYear(row, request)
    /\ PassesEpisode(row, request)
    /\ PassesScope(row, trackers, categories)

\* _local_filter_payload: a search by IMDb id filters its primary section by the
\* quality tags, if the rule has any.
FirstFilters(request) ==
    IF request.first.any = {} /\ request.first.not = {} THEN request.wanted ELSE request.first

\* _needs_broad_fallback: then the title is searched for as well.
NeedsTitleSearch(request) == FirstFilters(request) # request.wanted
=============================================================================
