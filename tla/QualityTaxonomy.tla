--------------------------- MODULE QualityTaxonomy ---------------------------
(* The taxonomy of quality tags: what a valid one is, the edits of the       *)
(* taxonomy page, the profiles derived from it, and how it is read by many   *)
(* threads through layered caches while the page writes it                   *)
(* (quality_filters.py, routes /taxonomy/...).                               *)
(*                                                                           *)
(* The file is the truth.  _load_quality_taxonomy caches it, _quality_options*)
(* caches the options of that, and further functions cache what they make of *)
(* the options: a call descends until a level is cached (lru_cache), and     *)
(* fills the levels on its way back without a lock.  The routes run on the   *)
(* event loop, one at a time, and clear the levels from the last one down;   *)
(* pages, the queues and the automatic syncs read in other threads.          *)
(*                                                                           *)
(* Left out: labels, patterns, media types, the order of the options (which  *)
(* only sorts lists), version 1 drafts, saved profiles that override built-in*)
(* ones, and the audit log, whose failure is only reported.                  *)

EXTENDS Integers

CONSTANTS
    Names,          \* values of options, keys of bundles and aliases
    Groups,
    NumberOf,       \* NumberOf[n]: 1080 for "1080p", NoNumber for other names
    NoNumber,
    Resolution,     \* the group with key "resolution"
    FullHd, UltraHd, Hd,    \* "full_hd", "ultra_hd" and "hd"
    HdrNames,       \* "hdr" and "dolby_vision"
    Rules, Profiles,\* what stores quality tags: rules, and profiles in the settings
    HdPreset, UhdPreset,    \* the two managed ones of these
    Static,         \* the tags of the built-in profiles with fixed tags
    Threads, Loop,  \* readers of the taxonomy, Loop being the event loop
    Depth,          \* number of cached levels
    Places,         \* of the options in a rank
    Drafts,         \* taxonomies that are submitted, and that a run starts with
    NoTaxonomy,     \* nothing cached, nothing read
    Torn            \* a file that a crash left half written

VARIABLES
    file,           \* quality_taxonomy.json
    cache,          \* cache[l]: the taxonomy behind what level l holds
    reader,         \* reader[t]: what thread t reads
    phase, level,   \* of the route: ..., clearing the cache at level
    draft,          \* what the route writes
    stored,         \* stored[h]: the tags that rule or profile h stores
    overlap,        \* history: a thread was reading while the file was written
    loose           \* history: tags were stored from an old taxonomy or beside a draft,
                    \* or an option in use was removed

taxonomyVars == <<file, cache, reader, phase, level, draft, stored, overlap, loose>>

Holders == Rules \cup Profiles

-----------------------------------------------------------------------------
(* Taxonomies.                                                               *)

\* Ranks order options: rank[g][n] is the place of n in the rank with the key g.
\* No option or key occurs twice.
Taxonomy ==
    [groups : SUBSET Groups, options : SUBSET Names, group : [Names -> Groups],
     bundled : SUBSET Names, bundle : [Names -> SUBSET Names],
     aliases : SUBSET Names, alias : [Names -> Names],
     ranked : [Groups -> SUBSET Names], rank : [Groups -> [Names -> Places]]]

\* _validate_quality_taxonomy_payload
Valid(tax) ==
    /\ \A n \in tax.options : tax.group[n] \in tax.groups
    /\ tax.bundled \cap tax.options = {}
    /\ \A b \in tax.bundled : tax.bundle[b] \subseteq tax.options
    /\ tax.aliases \cap (tax.options \cup tax.bundled) = {}
    /\ \A a \in tax.aliases : tax.alias[a] \in tax.options
    /\ \A g \in Groups : tax.ranked[g] \subseteq tax.options
    /\ \A g \in Groups : \A n, m \in tax.ranked[g] : tax.rank[g][n] = tax.rank[g][m] => n = m

\* Where a rank takes in a name: before the first one with a greater number, or else
\* at the end (_insert_rank_token_in_order).
Numbered(S) == {n \in S : NumberOf[n] # NoNumber}
Greater(S, name) == IF NumberOf[name] = NoNumber THEN {}
                    ELSE {n \in Numbered(S) : NumberOf[n] > NumberOf[name]}
Inserted(S, at, name, new) ==
    /\ \A n, m \in S : new[n] < new[m] <=> at[n] < at[m]
    /\ \A n \in S : /\ new[n] # new[name]
                    /\ new[name] < new[n] <=> \E next \in Greater(S, name) : at[next] <= at[n]

\* A new option; a rank with the key of its group takes it in.
Added(tax, name, group, hasRank, at) ==
    LET ranked == IF hasRank THEN [tax.ranked EXCEPT ![group] = @ \cup {name}] ELSE tax.ranked
        rank == IF hasRank THEN [tax.rank EXCEPT ![group] = at] ELSE tax.rank
    IN [tax EXCEPT !.options = @ \cup {name}, !.group = [tax.group EXCEPT ![name] = group],
                   !.ranked = ranked, !.rank = rank]

\* An option removed, with the aliases that stand for it and its uses.
Removed(tax, name) ==
    [tax EXCEPT !.options = @ \ {name},
                !.aliases = {a \in @ : tax.alias[a] # name /\ a # name},
                !.bundle = [b \in Names |-> tax.bundle[b] \ {name}],
                !.ranked = [g \in Groups |-> tax.ranked[g] \ {name}]]

\* An option and its neighbour in the rank of its group exchanged.
Neighbours(tax, g, n, m) ==
    /\ n # m /\ n \in tax.ranked[g] /\ m \in tax.ranked[g]
    /\ \A k \in tax.ranked[g] \ {n, m} : tax.rank[g][k] < tax.rank[g][n] <=> tax.rank[g][k] < tax.rank[g][m]
Swapped(tax, g, n, m) ==
    [tax EXCEPT !.rank[g] = [@ EXCEPT ![n] = tax.rank[g][m], ![m] = tax.rank[g][n]]]

\* The options a tag stands for: those of a bundle, that of an alias, itself, or none.
Resolved(tax, n) ==
    IF n \in tax.bundled THEN tax.bundle[n]
    ELSE {IF n \in tax.aliases THEN tax.alias[n] ELSE n} \cap tax.options
Normal(tax, S) == UNION {Resolved(tax, n) : n \in S}

\* A rank from one option on, and before it; an option that is not in it splits nothing.
AtOrAbove(tax, g, n) ==
    IF n \in tax.ranked[g] THEN {m \in tax.ranked[g] : tax.rank[g][m] >= tax.rank[g][n]} ELSE {}
Below(tax, g, n) ==
    IF n \in tax.ranked[g] THEN {m \in tax.ranked[g] : tax.rank[g][m] < tax.rank[g][n]} ELSE {}

\* The managed profiles as the taxonomy has them: "At Least Full HD" and "Ultra HD
\* HDR", whose HDR tags are named whether or not they are options.
HdProfile(tax) == [include |-> AtOrAbove(tax, Resolution, FullHd),
                   exclude |-> Below(tax, Resolution, FullHd) \ {Hd}]
UhdProfile(tax) == [include |-> AtOrAbove(tax, Resolution, UltraHd) \cup HdrNames,
                    exclude |-> Below(tax, Resolution, UltraHd)]
Default(tax, h) == LET profile == IF h = HdPreset THEN HdProfile(tax) ELSE UhdProfile(tax)
                   IN profile.include \cup profile.exclude

\* What loading the settings may make of the tags of a profile: its known ones; for a
\* managed profile that has none left, the default; and for one that equals a default
\* of this or an earlier version also the default.  (The model keeps no more of a
\* profile than the tags of both lists: whether it equals one is left open.)
Reloaded(tax, h, S) ==
    IF h \in {HdPreset, UhdPreset}
    THEN {Default(tax, h)} \cup ({Normal(tax, S)} \ {{}})
    ELSE {Normal(tax, S)}

\* A draft that removes an option which something stores, or a built-in profile names,
\* is not safe to apply.
Named(tax) == Static \cup AtOrAbove(tax, Resolution, UltraHd) \cup Below(tax, Resolution, UltraHd)
Blocked(now, new, selections) ==
    LET removed == now.options \ new.options
    IN Named(now) \cap removed # {} \/ \E h \in Holders : selections[h] \cap removed # {}

TaxonomyOK ==
    /\ Loop \in Threads
    /\ Depth \in Nat \ {0}
    /\ Resolution \in Groups /\ HdrNames \subseteq Names /\ HdPreset \in Profiles /\ UhdPreset \in Profiles
    /\ Places \subseteq Int /\ Drafts \subseteq Taxonomy
    /\ NoTaxonomy \notin Taxonomy /\ Torn \notin Taxonomy /\ Torn # NoTaxonomy
    /\ NumberOf \in [Names -> Nat \cup {NoNumber}] /\ NoNumber \notin Nat

-----------------------------------------------------------------------------
(* Readers.                                                                  *)

Levels == 1..Depth

\* at: the level a call for level to is at, downwards until something is found and then
\* upwards.
Reader == [way : {"none", "down", "up", "done"}, at : 0..Depth, to : 0..Depth,
           tax : Taxonomy \cup {NoTaxonomy}]
Idle == [way |-> "none", at |-> 0, to |-> 0, tax |-> NoTaxonomy]

TaxonomyTypeOK ==
    /\ file \in Taxonomy \cup {Torn}
    /\ cache \in [Levels -> Taxonomy \cup {NoTaxonomy}]
    /\ reader \in [Threads -> Reader]
    /\ phase \in {"none", "checked", "writing", "clearing"}
    /\ level \in 0..Depth
    /\ draft \in Taxonomy \cup {NoTaxonomy}
    /\ stored \in [Holders -> SUBSET Names]
    /\ overlap \in BOOLEAN /\ loose \in BOOLEAN

TaxonomyInit ==
    /\ file \in {tax \in Drafts : Valid(tax)}
    /\ cache = [l \in Levels |-> NoTaxonomy]
    /\ reader = [t \in Threads |-> Idle]
    /\ phase = "none" /\ level = 0 /\ draft = NoTaxonomy
    /\ stored \in [Holders -> SUBSET file.options]
    /\ overlap = FALSE /\ loose = FALSE

Reading == \E t \in Threads : reader[t].way \in {"down", "up"}
Routes == <<file, phase, level, draft, loose>>

\* A call begins, for any of the levels.
Call(t) ==
    /\ reader[t].way \in {"none", "done"}
    /\ t = Loop => phase = "none"
    /\ \E l \in Levels :
         reader' = [reader EXCEPT ![t] = [way |-> "down", at |-> l, to |-> l, tax |-> NoTaxonomy]]
    /\ overlap' = (overlap \/ phase \in {"writing", "clearing"})
    /\ UNCHANGED <<cache, stored>> /\ UNCHANGED Routes

\* The level is cached.
Hit(t) ==
    /\ reader[t].way = "down" /\ reader[t].at # 0 /\ cache[reader[t].at] # NoTaxonomy
    /\ reader' = [reader EXCEPT ![t].way = "up", ![t].tax = cache[reader[t].at]]
    /\ UNCHANGED <<cache, stored, overlap>> /\ UNCHANGED Routes

Miss(t) ==
    /\ reader[t].way = "down" /\ reader[t].at # 0 /\ cache[reader[t].at] = NoTaxonomy
    /\ reader' = [reader EXCEPT ![t].at = @ - 1]
    /\ UNCHANGED <<cache, stored, overlap>> /\ UNCHANGED Routes

\* The file is read, or cannot be parsed and the call fails.
Load(t) ==
    /\ reader[t].way = "down" /\ reader[t].at = 0
    /\ reader' = [reader EXCEPT ![t] = IF file = Torn THEN Idle
                                       ELSE [@ EXCEPT !.way = "up", !.tax = file]]
    /\ UNCHANGED <<cache, stored, overlap>> /\ UNCHANGED Routes

\* The level above keeps the result if nothing is kept there yet.
Fill(t) ==
    /\ reader[t].way = "up" /\ reader[t].at < reader[t].to
    /\ LET l == reader[t].at + 1
       IN /\ cache' = IF cache[l] = NoTaxonomy THEN [cache EXCEPT ![l] = reader[t].tax] ELSE cache
          /\ reader' = [reader EXCEPT ![t].at = l]
    /\ UNCHANGED <<stored, overlap>> /\ UNCHANGED Routes

Answer(t) ==
    /\ reader[t].way = "up" /\ reader[t].at = reader[t].to
    /\ reader' = [reader EXCEPT ![t].way = "done"]
    /\ UNCHANGED <<cache, stored, overlap>> /\ UNCHANGED Routes

\* t stores tags for a rule or a profile: options it has read of (normalize_quality_
\* tokens), and those that a managed default names.
Store(t) ==
    /\ reader[t].way = "done"
    /\ \E h \in Holders, S \in SUBSET (reader[t].tax.options \cup HdrNames) :
         stored' = [stored EXCEPT ![h] = S]
    /\ loose' = (loose \/ reader[t].tax # file \/ phase \in {"checked", "writing"})
    /\ UNCHANGED <<file, cache, reader, phase, level, draft, overlap>>

\* Loading the settings stores the profiles as it makes them (SettingsService.
\* get_or_create): the tags it does not know are gone.
Normalise(t) ==
    /\ reader[t].way = "done"
    /\ \E h \in Profiles :
         \E S \in Reloaded(reader[t].tax, h, stored[h]) : stored' = [stored EXCEPT ![h] = S]
    /\ loose' = (loose \/ reader[t].tax # file \/ phase \in {"checked", "writing"})
    /\ UNCHANGED <<file, cache, reader, phase, level, draft, overlap>>

-----------------------------------------------------------------------------
(* Routes.                                                                   *)

\* A draft is submitted: valid, and safe by the options the event loop has read.
Submit(new) ==
    /\ phase = "none" /\ reader[Loop].way = "done"
    /\ Valid(new) /\ ~Blocked(reader[Loop].tax, new, stored)
    /\ phase' = "checked" /\ draft' = new
    /\ reader' = [reader EXCEPT ![Loop] = Idle]
    /\ loose' = (loose \/ reader[Loop].tax # file)
    /\ UNCHANGED <<file, cache, level, stored, overlap>>

\* Edits of what the file says, which do not look at what stores tags: an option is
\* added, removed, or moved, which may take it into the rank of its group.
AddOption ==
    \E n \in Names, g \in Groups, hasRank \in BOOLEAN, at \in [Names -> Places] :
      /\ n \notin file.options \/ (g = file.group[n] /\ n \notin file.ranked[g])
      /\ file.ranked[g] # {} => hasRank
      /\ Inserted(file.ranked[g], file.rank[g], n, at)
      /\ draft' = Added(file, n, g, hasRank, at)
      /\ UNCHANGED loose

RemoveOption ==
    \E n \in Names : /\ draft' = Removed(file, n)
                     /\ loose' = (loose \/ \E h \in Holders : n \in stored[h])

MoveOption ==
    \E n, m \in file.options :
      LET g == file.group[n]
      IN /\ Neighbours(file, g, n, m)
         /\ draft' = Swapped(file, g, n, m)
         /\ UNCHANGED loose

Edit ==
    /\ phase = "none" /\ reader[Loop].way \in {"none", "done"} /\ file # Torn
    /\ AddOption \/ RemoveOption \/ MoveOption
    /\ Valid(draft')
    /\ phase' = "checked"
    /\ reader' = [reader EXCEPT ![Loop] = Idle]
    /\ UNCHANGED <<file, cache, level, stored, overlap>>

\* write_text truncates the file and then writes it ...
Truncate ==
    /\ phase = "checked"
    /\ file' = Torn /\ phase' = "writing"
    /\ overlap' = (overlap \/ Reading)
    /\ UNCHANGED <<cache, reader, level, draft, stored, loose>>

Write ==
    /\ phase = "writing"
    /\ file' = draft /\ phase' = "clearing" /\ level' = Depth
    /\ UNCHANGED <<cache, reader, draft, stored, overlap, loose>>

\* The disk is full: the route gives up, with the caches as they are.
WriteFails ==
    /\ phase = "writing"
    /\ phase' = "none" /\ draft' = NoTaxonomy
    /\ UNCHANGED <<file, cache, reader, level, stored, overlap, loose>>

\* ... and _clear_quality_taxonomy_cache empties the levels, those derived first.
Clear ==
    /\ phase = "clearing"
    /\ IF level = 0
       THEN /\ phase' = "none" /\ draft' = NoTaxonomy
            /\ UNCHANGED <<cache, level>>
       ELSE /\ cache' = [cache EXCEPT ![level] = NoTaxonomy] /\ level' = level - 1
            /\ UNCHANGED <<phase, draft>>
    /\ UNCHANGED <<file, reader, stored, overlap, loose>>

\* A restart; one during the write leaves the file torn.
Restart ==
    /\ cache' = [l \in Levels |-> NoTaxonomy]
    /\ reader' = [t \in Threads |-> Idle]
    /\ phase' = "none" /\ level' = 0 /\ draft' = NoTaxonomy
    /\ UNCHANGED <<file, stored, overlap, loose>>

TaxonomyNext ==
    \/ \E t \in Threads : \/ Call(t) \/ Hit(t) \/ Miss(t) \/ Load(t)
                          \/ Fill(t) \/ Answer(t) \/ Store(t) \/ Normalise(t)
    \/ \E new \in Drafts : Submit(new)
    \/ Edit \/ Truncate \/ Write \/ WriteFails \/ Clear \/ Restart

TaxonomySpec == TaxonomyInit /\ [][TaxonomyNext]_taxonomyVars

-----------------------------------------------------------------------------
(* Properties.                                                               *)

\* What the file and the caches hold passed validation, whatever was written, cleared
\* and read beside it.
TaxonomiesValid ==
    /\ file # Torn => Valid(file)
    /\ \A l \in Levels : cache[l] # NoTaxonomy => Valid(cache[l])

\* With no route at work the caches hold what the file says, unless some thread was
\* reading while it was written (_clear_quality_taxonomy_cache).
CachesFresh ==
    phase = "none" /\ ~overlap /\ file # Torn =>
      \A l \in Levels : cache[l] \in {file, NoTaxonomy}

\* Rules and profiles store options of the taxonomy only, unless an option in use was
\* removed on the taxonomy page, or tags were stored from an old taxonomy or between
\* the check of a draft and its writing ("Must ... block destructive orphaning"); but
\* for the HDR tags that the default of Ultra HD HDR names unasked.
NoOrphans ==
    file # Torn /\ ~loose => \A h \in Holders : stored[h] \subseteq file.options \cup HdrNames

\* A restart after a write cut short: the taxonomy can be neither read nor written any
\* more (the file is only seeded when it does not exist).
Dead ==
    /\ file = Torn /\ phase = "none"
    /\ \A l \in Levels : cache[l] = NoTaxonomy
    /\ \A t \in Threads : reader[t].way \in {"none", "down"}
TornForGood == [][Dead => Dead']_taxonomyVars
=============================================================================
