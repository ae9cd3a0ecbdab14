---------------------------- MODULE ReleaseCache ----------------------------
(***************************************************************************)
(* The cached counts of one rule's saved search: the snapshot's            *)
(* release_filter_cache_key and counts, and the last_* columns of the rule *)
(* that the lists of rules read (rule_fetch_ops.py,                        *)
(* rule_search_snapshots.py and the pages of routes/pages.py).             *)
(*                                                                         *)
(* A search replaces the rows of the snapshot.  The counts follow only     *)
(* when the caller refreshes them too, which the page does not do for a    *)
(* search over feeds that the form has not saved.                          *)
(***************************************************************************)
EXTENDS ReleaseFilter, FiniteSets

CONSTANTS DefaultProfiles,   \* the tokens of the built-in quality profiles
          Inheriting         \* rules that _tokens_match_profile_inheritance accepts

VARIABLES rule,       \* the columns of the rule the filter reads
          snapshot,   \* its row in rule_search_snapshots
          summary,    \* last_snapshot_at and last_release_* of the rule
          clock,      \* utcnow of the last search
          judged      \* history: the rule and the rows of the last refresh

cacheVars == <<rule, snapshot, summary, clock, judged>>

Never == 0

\* The filter asks for the rule's tokens without giving the settings.
LocalTokens(r) == EffectiveTokens(r, DefaultProfiles, r \in Inheriting)
Key(r) == CacheKey(r, LocalTokens(r))

\* _rule_local_filter_diagnostics_from_rows: the count.
FilteredCount(r, rows) == Cardinality({row \in rows : Visible(row, r, LocalTokens(r))})

Counts(filtered, fetched) == [filtered |-> filtered, fetched |-> fetched]
NoCounts == Counts(None, None)
NoCacheKey == <<>>

CacheInit ==
  /\ rule \in RuleRow
  /\ snapshot = [at |-> Never, rows |-> {}, key |-> NoCacheKey, counts |-> NoCounts]
  /\ summary = [at |-> Never, counts |-> NoCounts]
  /\ clock = Never
  /\ judged = [at |-> Never, rule |-> rule, rows |-> {}]

\* save_rule_search_snapshot, then refresh_snapshot_release_cache: the queue, the
\* scheduler, the page, and a refreshed link.
Fetch(rows) ==
  LET counts == Counts(FilteredCount(rule, rows), Cardinality(rows))
  IN /\ clock' = clock + 1
     /\ snapshot' = [at |-> clock', rows |-> rows, key |-> Key(rule), counts |-> counts]
     /\ summary' = [at |-> clock', counts |-> counts]
     /\ judged' = [at |-> clock', rule |-> rule, rows |-> rows]
     /\ UNCHANGED rule

\* The page's search over the feeds of a form: saved, not refreshed.
SearchOtherFeeds(rows) ==
  /\ clock' = clock + 1
  /\ snapshot' = [at |-> clock', rows |-> rows,
                  key |-> snapshot.key, counts |-> snapshot.counts]
  /\ UNCHANGED <<rule, summary, judged>>

\* A form, or a Jellyfin or Stremio sync, changes the rule.
ChangeRule ==
  /\ rule' \in RuleRow
  /\ UNCHANGED <<snapshot, summary, clock, judged>>

CacheNext == \/ \E rows \in SUBSET Row : IsFiniteSet(rows) /\ (Fetch(rows) \/ SearchOtherFeeds(rows))
        \/ ChangeRule

CacheSpec == CacheInit /\ [][CacheNext]_cacheVars

-----------------------------------------------------------------------------
\* release_state_from_snapshot with a rule: the count it uses.
CountFor(r) ==
  IF snapshot.counts.filtered # None
     /\ (snapshot.key = Key(r) \/ snapshot.key = NoCacheKey \/ snapshot.rows = {})
  THEN snapshot.counts.filtered
  ELSE FilteredCount(r, snapshot.rows)

\* _release_state_from_counts, the exact state and _release_signal_from_counts.
ReleaseState(c) ==
  IF c.filtered > 0 THEN "matches" ELSE IF c.fetched > 0 THEN "no_matches" ELSE "empty"
ExactState(c, exact) ==
  IF exact.filtered > 0 THEN "exact" ELSE IF c.filtered > 0 THEN "fallback_only" ELSE "none"
Signal(c, exact) ==
  IF exact.filtered > 0 THEN "exact"
  ELSE IF c.filtered > 0 THEN "fallback"
  ELSE IF exact.fetched > 0 THEN "no_exact"
  ELSE "no_matches"

-----------------------------------------------------------------------------
\* The cached counts are those of the rows and the rule of the last refresh, and
\* the columns of the rule repeat them.
CacheDescribesJudged ==
  /\ summary.at = judged.at
  /\ summary.counts = snapshot.counts
  /\ judged.at # Never =>
       /\ snapshot.key = Key(judged.rule)
       /\ snapshot.counts = Counts(FilteredCount(judged.rule, judged.rows),
                                   Cardinality(judged.rows))
  /\ judged.at = Never => snapshot.counts = NoCounts

\* Two searches never share a time, so equal times mean equal rows.
RowsOfTime ==
  /\ clock \in Nat
  /\ judged.at \in 0 .. clock /\ snapshot.at \in judged.at .. clock
  /\ snapshot.at = judged.at => snapshot.rows = judged.rows

\* What the lists show is true of the rule as it is now, when nothing was searched
\* since the refresh, and the rule has kept its key and its owned episodes.
ShownCountExact ==
  (/\ summary.at # Never /\ summary.at = snapshot.at
   /\ Key(rule) = snapshot.key /\ Owned(rule) = Owned(judged.rule))
  => summary.counts = Counts(FilteredCount(rule, snapshot.rows), Cardinality(snapshot.rows))
=============================================================================
